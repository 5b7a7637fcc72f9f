CONSTANTS
    j1 = j1
    j2 = j2
    d1 = d1
    d2 = d2
    d3 = d3
    None = None
    Jobs = {j1, j2}
    Devices = {d1, d2, d3}
    Requests = {r1, r2, r3}
    Targets <- ContendedTargets
    Gate <- OneUnsupported
SPECIFICATION Spec
SYMMETRY RequestSymmetry
INVARIANTS
    OneRunPerJob
    StatusAgreesWithTasks
    RecordedSuccessIsReal
PROPERTIES
    ChangeIsGuarded
    ImplementsMutex
CHECK_DEADLOCK FALSE
