SPECIFICATION Spec
CONSTANTS
    Request = {r1, r2, r3}
    User = {u1, u2}
    e1 = e1
    Email = {e1, e2}
    Lower <- Spelling
    Google = {g1, g2}
    Link = {l1}
    Closing = {"suspended", "deleted"}
    Nil = Nil
SYMMETRY Symmetry
INVARIANTS AccountsAreSound LinkOnce SubjectIsStable
CHECK_DEADLOCK FALSE
