SPECIFICATION SoundFairSpec
CONSTANTS
    Companions = {a, b}
    None = None
    Normal = Normal
    t1 = t1
    t2 = t2
    Temps <- MCTemps
    Others = {e}
    Durations = {1}
    MaxNow = 2
    Budgets <- SwitchBudgets
CONSTRAINT FirstTemp
INVARIANT TypeOK
INVARIANT StrandedByGapsOnly
INVARIANT SessionHasOwner
INVARIANT OnlyOwnCompanion
PROPERTY TimerOnTime
PROPERTY EndsOrParked
CHECK_DEADLOCK FALSE
