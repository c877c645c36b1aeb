SPECIFICATION MCSpec
CONSTANTS
  ADDRESS_SIZE = 1
  MAX_DEPTH = 6
  SIZE_BITS = 6
  INT_MAX = 200
  WORD = 2
  EVENT_MAX_TOPICS = 1
  TEXT_LEN = 4
  Messages <- MCMessages
  RAW_LEN = 1
  RAW = {0}
  NOISE = {0}
  MAX_EMISSIONS = 1
INVARIANT EmissionsAreReportable
CHECK_DEADLOCK FALSE
