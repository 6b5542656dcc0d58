SPECIFICATION Spec
CONSTANTS
    Empty = Empty
    Garbage = Garbage
    Absent = Absent
    m1 = m1
    m2 = m2
    States = {Empty, m1, m2}
INVARIANTS TypeOK NeverDiscarded
PROPERTY AtomicSave
