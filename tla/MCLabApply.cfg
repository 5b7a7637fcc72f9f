CONSTANTS
    None = None
    e1 = e1
    e2 = e2
    p = p
    d = d
    Executions = {e1, e2, p}
    Prototypes = {p}
    Device = d
    Workers = {w1}
    Scope = {d}
    Targets <- SameTarget
    NeedsApproval = {e1}
SPECIFICATION LabSpec
CONSTRAINT Bounds
INVARIANTS
    ReadyIsBacked
    CancelledHoldsNoLocks
PROPERTIES
    ApprovedPlanIsFixed
    ImplementsGate
    TakenOnlyIfFree
