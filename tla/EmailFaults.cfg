SPECIFICATION MCSpec
CONSTANTS
    a1 = a1
    Mail = {m1, m2}
    Address = {a1}
    AddressOf <- OneAddress
    Limit = 1
    MaxAttempts = 4
    Faults = {"crash", "redis", "database"}
    Nil = Nil
    Request = {r1, r2, r3}
    Threads = 1
    Capacity = 2
    Transactions = 1
INVARIANTS LogIsEvidence LimitHolds ConnectionsComeBack
PROPERTY EverythingEnds
CHECK_DEADLOCK FALSE
