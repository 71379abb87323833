SPECIFICATION Spec
CONSTANTS
    Call = {c1, c2}
    Entity = {e1}
    Staff = {s1, s2}
    Buyer = {b1}
    Guest = {g1}
    Type = {"quote_request.received", "stock.shipment_update"}
    Switches <- MCSwitches
    Aging = {b1}
    BatchSize = 1
    Job = {j1}
    s1 = s1
SYMMETRY Symmetry
INVARIANTS AnsweredInFull OncePerWindow
PROPERTY PurgedWasRead
CHECK_DEADLOCK FALSE
