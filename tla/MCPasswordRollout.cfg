CONSTANTS
    t1 = t1
    t2 = t2
    t3 = t3
    None = None
    Tasks = {t1, t2, t3}
    BatchCount = 2
    BatchOf <- OneThenTwo
    Gate <- AllOpen
    StopOnFirstFailure = FALSE
    Requests = {r1, r2, r3, r4}
SPECIFICATION Spec
SYMMETRY RequestSymmetry
INVARIANTS
    CanaryOrder
    BatchSuccessIsReal
    ChangeWasApproved
    SecretWhileNeeded
PROPERTIES
    ImplementsCanary
CHECK_DEADLOCK FALSE
