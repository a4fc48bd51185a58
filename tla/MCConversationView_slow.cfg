SPECIFICATION FairSpec
CONSTANTS
    a = a
    b = b
    NoConv = NoConv
    N = 3
    MaxMark = 2
    PageSize = 1
    EntrySize = 2
    Convs <- Both
    Contacts <- Both
    ConvOf <- MCConvOf
    Initially = {1, 2}
    Targets = {1}
    CacheSize = 2
    Prompt = FALSE
    MaxFetches = 2
    MaxEvents = 2
    Budgets <- SlowBudgets
INVARIANTS NoDuplicates
PROPERTIES ReconnectHeals
CHECK_DEADLOCK FALSE
