SPECIFICATION GSpec
CONSTANTS
    inIndex = inIndex
    inNeighbors = inNeighbors
    outIndex = outIndex
    outNeighbors = outNeighbors
    g1 = g1
    Arrays = {inIndex, inNeighbors, outIndex, outNeighbors, v1, v2}
    Jobs = {j1}
    Graphs = {g1}
    IndexOf <- MCIndexOf
    NeighborsOf <- MCNeighborsOf
    Null = Null
    CountModulus = 6
    MaxArrays = 3
    Relatable = {outIndex}
    ChangeIds = {}
SYMMETRY Symmetry
INVARIANTS IndexReachesNeighbors FreshJobSendable FreshJobIsChain OtherJobsKept
