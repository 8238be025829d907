SPECIFICATION CSpec
CONSTANTS
    inIndex = inIndex
    inNeighbors = inNeighbors
    outIndex = outIndex
    outNeighbors = outNeighbors
    g1 = g1
    Arrays = {inIndex, inNeighbors, outIndex, outNeighbors, v1}
    Jobs = {j1, j2}
    Graphs = {g1}
    IndexOf <- MCIndexOf
    NeighborsOf <- MCNeighborsOf
    Null = Null
    CountModulus = 6
    MaxArrays = 2
    Relatable = {}
    ChangeIds = {}
    App = app
    Used = {"out"}
    Others = {other}
    OtherCommand <- MCOtherCommand
    NameLength = 3
    NoCommand = NoCommand
    NoPage = NoPage
    Device = Device
    MaxFds = 1
    MaxLog = 2
SYMMETRY Symmetry
CHECK_DEADLOCK FALSE
INVARIANTS HeldJobsWalkEdges
PROPERTIES ImplementsService
