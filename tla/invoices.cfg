CONSTANTS
    Templates = {t1}
    OneOffs = {i1}
    Interval <- MCInterval
    LastDay = 1
    Workers = {w1, w2}
    Followed = {i1}
    NoBill = NoBill
    MaxFaults = 1
SPECIFICATION Spec
INVARIANTS TypeOK CycleBilledOnce NoCycleSkipped BooksAreReal
PROPERTIES BacklogClears StatusCatchesUp
CHECK_DEADLOCK FALSE
