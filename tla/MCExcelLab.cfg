CONSTANTS
    None = None
    Procs = {p1, p2, p3}
    Devices = {d1, d2}
    Plans = {q1, q2}
    Eligible = {d1, d2}
SPECIFICATION Spec
SYMMETRY LabSymmetry
INVARIANTS
    ChangeIsEvidenced
PROPERTIES
    ImplementsMutex
CHECK_DEADLOCK FALSE
