SPECIFICATION FairSpec
CONSTANTS
    k1 = k1
    k2 = k2
    b = b
    NoRadio = NoRadio
    Local = Local
    Radios <- MCRadios
    Brokers <- MCBrokers
    AccountBrokers <- NoAccountBrokers
    N = 3
    RadioOf <- MCRadioOf
    KindOf <- MCKindOf
    Refused <- MCRefused
    Accounts <- MCAccounts
    Batch = 2
    Budgets <- SafeBudgets
INVARIANTS TypeOK NothingLost
PROPERTIES OnlyFromThenOn UploadsDrain ForwardsDrain
CHECK_DEADLOCK FALSE
