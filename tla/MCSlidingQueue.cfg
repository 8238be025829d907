SPECIFICATION Spec
CONSTANTS
    Threads = {t1, t2}
    Elements = {e1, e2, e3, e4}
    Garbage = Garbage
    None = None
    AllocSize = 4
    LocalSize = 2
SYMMETRY Symmetry
INVARIANTS QTypeOK WithinArray ClaimsApart NothingLost
PROPERTIES ImplementsDoubleBuffer
