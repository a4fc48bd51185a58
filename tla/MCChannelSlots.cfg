SPECIFICATION FairSpec
CONSTANTS
    Keys = {a, b, c}
    NoKey = NoKey
    NumSlots = 2
    MaxQueue = 2
    Budgets <- SlotBudgets
INVARIANT TypeOK
INVARIANT SendsOnOwnChannel
INVARIANT CacheMatchesRadio
INVARIANT CacheIsOneToOne
INVARIANT LookupIsCurrent
INVARIANT OfflineFrameFiled
PROPERTY CacheHeals
CHECK_DEADLOCK FALSE
