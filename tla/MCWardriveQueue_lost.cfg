SPECIFICATION Spec
CONSTANTS
    k1 = k1
    k2 = k2
    b = b
    NoRadio = NoRadio
    Local = Local
    Radios <- MCRadios
    Brokers <- MCBrokers
    AccountBrokers <- MCBrokers
    N = 3
    RadioOf <- MCRadioOf
    KindOf <- MCKindOf
    Refused <- MCRefused
    Accounts <- MCAccounts
    Batch = 2
    Budgets <- LostBudgets
INVARIANTS StaysUntilTaken
CHECK_DEADLOCK FALSE
