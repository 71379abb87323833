SPECIFICATION MCSpec
CONSTANTS
    Unit <- MCUnit
    Price = {1, 2}
    Seeded <- MCSeeded
    Of <- MCOf
    Grade <- MCGrade
    Mileage <- MCMileage
    NoMileage = 99
    Filter <- MCFilter
    Sort = {"newest", "price_asc", "mileage_asc"}
    Staff = {h1, h2}
    Limit = 1
    MinPeers = 2
    Sample = 3
    Comparables = 1
    Unset = Unset
    Nil = Nil
    Upload = {p1}
    Sheet = {d1}
    Detached = {v1}
    Seed = {s1}
    Images = 2
    Handler = {h1, h2}
    Boot = {b1, b2}
    Retired = {"unit"}
    Cap = 1
    NoFile = NoFile
SYMMETRY Symmetry
INVARIANTS WalkIsWhole OptionKeepsItsPromise PositionIsFair TrailEndsWithPrice GalleryIntact SeededInFull
PROPERTIES CapHolds RemovedStaysRemoved
CHECK_DEADLOCK FALSE
