SPECIFICATION MCSpec
CONSTANTS
    MaxId = 3
    MaxBatch = 2
    Nil = Nil
    Lengths = {1, 2}
    FirstLength = 2
    MaxDraw = 3
    MaxCalls = 1
    MaxVisits = 2
    MaxEvents = 2
INVARIANTS TypeOK ShowsCurrentPage DeletedAreGone AskedIsPage DeletesAsked
PROPERTIES OverlayGoes
CHECK_DEADLOCK FALSE
