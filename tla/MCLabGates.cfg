CONSTANTS
    None = None
    e1 = e1
    e2 = e2
    p = p
    d = d
    Executions = {e1}
    Prototypes = {}
    Device = d
    Workers = {w1}
    Scope = {d}
    Targets <- SameTarget
    NeedsApproval = {e1}
SPECIFICATION LabSpec
INVARIANTS
    GatesOpenTheDevice
