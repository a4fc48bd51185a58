SPECIFICATION SoundSpec
CONSTANTS
    Companions = {a, b}
    None = None
    Normal = Normal
    t1 = t1
    t2 = t2
    Temps <- MCTemps
    Others = {e}
    Durations = {1}
    MaxNow = 1
    Budgets <- SwapBudgets
CONSTRAINT FirstTemp
INVARIANT OnlyOwnCompanion
CHECK_DEADLOCK FALSE
