SPECIFICATION SerialSpec
CONSTANTS
    Token = {t1, t2, t3}
    Family = {f1, f2}
    User = {u1, u2}
    Request = {r1, r2}
    Closed = {"suspended"}
    Nil = Nil
SYMMETRY Symmetry
INVARIANTS Lineage ReuseKillsSerialFamily OneUsableToken
PROPERTIES DeadFamilyStaysDead LockoutHolds
