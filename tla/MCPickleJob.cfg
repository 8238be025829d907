SPECIFICATION Spec
CONSTANTS
    Arrays = {a1, a2, a3}
    Jobs = {j1, j2}
    Null = Null
    CountModulus = 4
    MaxArrays = 4
    ChangeIds = {1}
SYMMETRY Symmetry
INVARIANTS TypeOK RenameInv WireIdsContiguous WireFollowsIndexing ThrowsIffDangling
PROPERTIES IdsStable ImplementsChains
