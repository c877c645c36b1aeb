SPECIFICATION MCSpec
CONSTANTS
  Few = {1, 2, 3, 4, 5, 6}
  Stored <- MCStored
  Values <- MCValues
  MaxOps = 3
  Contract <- MCContract
  Numbers = {3, 259}
  Strings <- MCStrings
  CodeSlots = {5}
  MaxElems = 2
  MaxWrites = 4
VIEW LiveView
CHECK_DEADLOCK FALSE
INVARIANT AnswersAsTheMap
INVARIANT ReadsWhatWasStored
INVARIANT TreeSound
