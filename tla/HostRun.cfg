SPECIFICATION Spec
CONSTANTS
  Hosts = {0, 1}
  MethodHosts <- MCMethodHosts
  NondetBlocks = 2
  Roles = {"leader", "validator"}
  LockedLists <- MCLockedLists
  Slots = {3, 4}
  Balance = 3
  Values = {2}
  Fuel = 2
  Consumptions = {2, 3}
  FuelMax = 3
  MainCalls = 3
  BlockCalls = 1
  Faults = 1
INVARIANT EveryoneGetsItsOwnAnswer
INVARIANT BalanceSeen
INVARIANT ReportIsWhole
INVARIANT FinishedIsLast
INVARIANT FuelIsFresh
INVARIANT LockedSlotsKept
PROPERTY RunEnds
CHECK_DEADLOCK FALSE
