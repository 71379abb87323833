SPECIFICATION MCSpec
CONSTANTS
    Table = {"quotes", "orders", "reviews", "leads", "inbox", "emails", "audit"}
    MaxId = 3
    Customer = {b1}
    Clerk = {s1, s2}
    Visitor = Visitor
    b1 = b1
    Key = {b1}
    OwnerOf <- OwnOrder
    Absent = Absent
    Limit = 1
    Walker = {w1}
    Handler = {h1, h2}
    Op = {o1, o2}
    Item = {i1, i2}
    Hook = {"favorites", "searches", "inbox"}
    Unset = Unset
    MaxClicks = 3
    KeyedTable = {"destinations", "preferences", "details", "searches"}
SYMMETRY Symmetry
INVARIANTS WalksAreWhole TrailTellsDecision CopyIsRight SavesStand
CHECK_DEADLOCK FALSE
