SPECIFICATION CSpec
CONSTANTS
    Places = {p1}
    Descriptors = {d1}
    Null = Null
    MaxNodes = 1
    MaxEdges = 1
INVARIANTS WrittenAsAnnounced
