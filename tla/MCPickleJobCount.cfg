SPECIFICATION Spec
CONSTANTS
    Arrays = {a1, a2}
    Jobs = {j1}
    Null = Null
    CountModulus = 2
    MaxArrays = 2
    ChangeIds = {}
INVARIANTS CountIsRows
