SPECIFICATION FairSpec
CONSTANTS
    a = a
    b = b
    NoConv = NoConv
    Convs <- Both
    Channels <- One
    N = 3
    ConvOf <- MCConvOf
    Attempts = 2
    MaxLoads = 2
    MaxPosts = 2
    Budgets <- SafeBudgets
INVARIANTS TypeOK OpenIsRead NothingHidden UnreadMarkStays
PROPERTIES SeenGetsRead
CHECK_DEADLOCK FALSE
