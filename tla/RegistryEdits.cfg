SPECIFICATION Spec
CONSTANTS
    m1 = m1 m2 = m2 i1 = i1 i2 = i2 a = a b = b n1 = n1 n2 = n2 p1 = p1
    h1 = h1 h2 = h2
    NULL = NULL
    Macs = {m1, m2}
    Ips = {i1, i2}
    Names = {a, b}
    ProfileIds = {p1}
    NameAt <- MCNameAt
    Sweeps <- MCFewSweeps
    EditPayloads <- MCAddressEdits
    InitialDevices <- MCNoDevices
    BackgroundTasks = {}
    MaxDevices = 2
    NetworkIds = {}
    Handlers = {h1, h2}
    Requests = {"adopt", "edit", "delete"}
INVARIANTS UpdateLockOwner AdoptsDiscoveredHost
PROPERTY LifecycleSpec
SYMMETRY MCSymmetry
CHECK_DEADLOCK FALSE
