CONSTANTS
    MaxCount = 30
    MaxSize = 4
    MaxBatches = 3
    NoVlan = NoVlan
    NoName = NoName
    NoCommands = NoCommands
    Star = Star
    Hourly = Hourly
    Daily = Daily
    NotYet = NotYet
    Never = Never
    NoSnapshot = NoSnapshot
    MaxChunks = 3
    MaxLines = 3
    Redacted = Redacted
    PromptLines = {"[x]", "<sw>"}
    MaxPages = 2
    MaxBytes = 3
    Addresses = {ip1, ip2}
    BadAddress = BadAddress
    None = None
    NoDevice = NoDevice
    NoHostname = NoHostname
    MaxRows = 2
    Names = {red, blue}
    Vlan = 20
    Other = 30
    CronMinutes = {0, 1, 30, 59}
    CronHours = {0, 5, 23}
    CronDates = {1}
    NearMinutes = {0, 1, 2, 29, 30, 31, 58, 59}
SPECIFICATION Spec
INVARIANT
    ReimportChangesNothing
CHECK_DEADLOCK FALSE
