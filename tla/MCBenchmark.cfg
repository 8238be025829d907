SPECIFICATION BSpec
CONSTANTS
    NumNodes = {1, 2}
    Degrees = {0, 1, 3}
    Bases = {0, 5}
    Values <- MCValues
    MaxPairs = 3
    MaxK = 2
INVARIANTS NeighborsReached TopKSoFar
PROPERTIES PickEnds
