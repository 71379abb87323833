SPECIFICATION Spec
CONSTANTS
    Quote = {q1}
    Sourcing = {s1}
    Order = {o1, o2}
    Request = {r1, r2}
    Used = {"found", "booked", "paid"}
    MaxActs = 4
    Faults = TRUE
    Nil = Nil
SYMMETRY Symmetry
INVARIANT AuditBalances
PROPERTY ConversionKept
CHECK_DEADLOCK FALSE
