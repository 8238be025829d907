SPECIFICATION VSpec
CONSTANTS
    Vectors = {v1, v2}
    x1 = x1
    garbage = garbage
    Values = {x1, garbage}
    Uninitialized = garbage
    Blocks = {b1, b2, b3}
    Descriptors = {d1, d2}
    Null = Null
    MaxLen = 2
SYMMETRY Symmetry
INVARIANTS VTypeOK OwnedOnce DescriptorFollows
PROPERTIES ImplementsVectors
