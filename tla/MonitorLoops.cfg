SPECIFICATION FairSpec
CONSTANTS
    m1 = m1 m2 = m2 i1 = i1 i2 = i2 i3 = i3 a = a b = b c = c n1 = n1 p1 = p1
    h1 = h1
    NULL = NULL
    Monitor = Monitor
    Macs = {m1, m2}
    Ips = {i1, i2, i3}
    Names = {a, b, c}
    NetworkIds = {n1}
    ProfileIds = {p1}
    Handlers = {h1}
    Requests = {"edit", "delete"}
    NameAt <- MCNameAt
    Sweeps <- MCSweeps
    EditPayloads <- MCOneEdit
    InitialDevices <- MCTwoDevices
    BackgroundTasks <- MCBackground
    MaxDevices = 2
INVARIANT LockOwners
PROPERTY LifecycleSpec
PROPERTIES MonitorRepeats RequestsAnswered TopologyRoundEnds
