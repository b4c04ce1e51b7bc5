CONSTANTS
    k1 = k1
    k2 = k2
    Absent = Absent
    Calls <- MCCalls
    Indices = {0, 1}
    Names <- MCNames
    Chunks <- MCChunks
    MaxFragments = 3
    Modes <- MCConformantModes
SPECIFICATION Spec
INVARIANT AssemblesEachCall
CHECK_DEADLOCK FALSE
