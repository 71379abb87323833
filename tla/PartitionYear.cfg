SPECIFICATION Spec
CONSTANTS
    t1 = t1
    t2 = t2
    Table = {t1, t2}
    Retention <- Months
    Job = {j1, j2}
    First <- November
    Last <- Later
    Nil = Nil
SYMMETRY Symmetry
INVARIANTS InsertsHaveRoom NothingLingers
PROPERTY RetentionHolds
CHECK_DEADLOCK FALSE
