CONSTANTS
    j1 = j1
    j2 = j2
    d1 = d1
    d2 = d2
    i1 = i1
    i2 = i2
    i3 = i3
    i4 = i4
    None = None
    Jobs = {j1, j2}
    Items = {i1, i2, i3, i4}
    Devices = {d1, d2}
    ItemsOf <- RepeatedDevice
    DeviceOf <- DeviceOfItem
    Unsupported = {d2}
    Workers = {w1, w2}
    MaxSnapshots = 4
SYMMETRY WorkerSymmetry
SPECIFICATION Spec
INVARIANTS
    OneSnapshotPerItem
    CompletedIsBackedUp
