SPECIFICATION MCSpec
CONSTANTS
    Token = {t1, t2, t3, t4}
    Family = {f1, f2, f3}
    User = {u1}
    Request = {r1, r2}
    Closed = {"suspended", "deleted"}
    Nil = Nil
    Faults = FALSE
SYMMETRY Symmetry
PROPERTY NeverBounced
