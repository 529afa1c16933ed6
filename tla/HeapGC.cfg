SPECIFICATION Spec
CONSTANTS
    s1 = s1
    s2 = s2
    s3 = s3
    m0 = m0
    m1 = m1
    Slots = {s1, s2, s3}
    Chunks <- TwoChunks
    T = {m0, m1}
    Main = m0
    LocalCap = 1
    EmptyKeep = 1
    MaxObjects = 2
    MaxRecords = 2
    None = None
SYMMETRY SlotSymmetry
INVARIANTS LiveKept OnePlace FinalizersWanted
PROPERTIES FinalizedInOrder GarbageGone
CHECK_DEADLOCK FALSE
