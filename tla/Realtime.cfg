SPECIFICATION MCSpec
CONSTANTS
    Instance = {i1, i2}
    Socket = {k1, k2}
    Staff = {s1}
    Buyer = {b1}
    Message = {m1}
    Account <- MCAccount
    Addressee <- MCAddressee
    Writer = {i1}
    Nobody = Nobody
    s1 = s1
    m1 = m1
INVARIANTS PushedOnce EverybodyTold NothingLeft
PROPERTY DeliveriesEnd
CHECK_DEADLOCK FALSE
