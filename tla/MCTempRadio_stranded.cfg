SPECIFICATION SoundSpec
CONSTANTS
    Companions = {a}
    None = None
    Normal = Normal
    t1 = t1
    t2 = t2
    Temps <- MCTemps
    Others = {e}
    Durations = {1}
    MaxNow = 1
    Budgets <- StartBudgets
CONSTRAINT FirstTemp
INVARIANT NoneForgotten
CHECK_DEADLOCK FALSE
