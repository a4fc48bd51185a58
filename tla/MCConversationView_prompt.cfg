SPECIFICATION Spec
CONSTANTS
    a = a
    b = b
    NoConv = NoConv
    N = 3
    MaxMark = 2
    PageSize = 2
    EntrySize = 2
    Convs <- Both
    Contacts <- Both
    ConvOf <- MCConvOf
    Initially = {1, 2}
    Targets = {1}
    CacheSize = 2
    Prompt = TRUE
    MaxFetches = 2
    MaxEvents = 2
    Budgets <- PromptBudgets
INVARIANTS TypeOK OwnMessages ArrivedStays AckNotStranded
CHECK_DEADLOCK FALSE
