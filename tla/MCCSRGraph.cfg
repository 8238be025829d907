SPECIFICATION CSpec
CONSTANTS
    Places = {p1, p2, p3}
    Descriptors = {d1, d2, d3}
    Null = Null
    MaxNodes = 1
    MaxEdges = 1
SYMMETRY Symmetry
INVARIANTS ArraysOwnedOnce OwnedDescribed
