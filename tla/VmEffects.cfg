CONSTANTS
    Buckets <- MCBuckets
    BucketTotals <- MCBucketTotals
    BucketNos <- MCBucketNos
    Initials <- MCInitials
    Costs <- MCCosts
    VmRecursion = 3
    Balance = 2
    U256Max = 3
    Values <- MCValues
    Targets <- MCTargets
    NodeOf <- MCNodeOf
    NodeBudgets <- MCNodeBudgets
    MainPerms <- MCMainPerms
    PageIds <- MCPageIds
    CodePages <- MCCodePages
SPECIFICATION Spec
INVARIANT ChargedIsReported
INVARIANT CallsAreStatic
INVARIANT PermissionsOnlyShrink
PROPERTY EffectsAppendOnly
PROPERTY FeesSpec
INVARIANT FeesExact
INVARIANT PromisesHold
