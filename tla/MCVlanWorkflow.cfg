CONSTANTS
    NoVlan = NoVlan
    NoName = NoName
    NoCommands = NoCommands
    None = None
    Devices = {d1, d2}
    Workers = {w1}
    Operation = "remove_access_vlan"
    Vlan = 20
    NameAllowed = TRUE
    Interface = TRUE
    Required = {"plan", "backup"}
    Family <- AllCisco
    Configs <- AccessConfigs
    MaxSnapshots = 1
    MaxSubmits = 2
SYMMETRY DeviceSymmetry
SPECIFICATION Spec
INVARIANTS
    ReadyIsBacked
    DecisionStands
