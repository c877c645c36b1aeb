SPECIFICATION MCSpec
CONSTANTS
  ADDRESS_SIZE = 1
  MAX_DEPTH = 6
  SIZE_BITS = 6
  INT_MAX = 200
  WORD = 2
  EVENT_MAX_TOPICS = 1
  TEXT_LEN = 4
  Messages <- MCMessages
  RAW_LEN = 4
  RAW = {0, 6, 8, 9, 11, 12, 13, 14, 24, 22, 97, 128, 129, 195}
  NOISE = {0, 1, 5, 14, 48, 97, 128}
  MAX_EMISSIONS = 1
INVARIANT OneWireForm
INVARIANT PathsAgree
INVARIANT WritesWhatItReads
INVARIANT ResultIsReportable
INVARIANT GuestHearsTheLeader
CHECK_DEADLOCK FALSE
