CONSTANTS
    t1 = t1
    t2 = t2
    t3 = t3
    None = None
    Tasks = {t1, t2}
    BatchCount = 2
    BatchOf <- OnePerBatch
    Gate <- AllOpen
    StopOnFirstFailure = TRUE
    Requests = {r1, r2}
SPECIFICATION Spec
PROPERTIES
    StopsOnFailure
CHECK_DEADLOCK FALSE
