CONSTANTS
    NondetBlocks <- MCNondetBlocks
    Capacity <- MCCapacity
    U32Max <- MCU32Max
SPECIFICATION FairSpec
INVARIANT NoHoleInLeaderResults
PROPERTY ImplementsVerdict
INVARIANT ExactCountdown
INVARIANT CompleteVerdict
PROPERTY CallersReturn
