SPECIFICATION Spec
CONSTANTS
    MaxCount = 2
    Chunks = {c1, c2, c3, c4}
    NULL = NULL
    Packets = 3
    Ahead = 2
    Transports = {A, B}
    Reliable = {A}
    Junk = 9
    MaxTicks = 1
    Client = TRUE
SYMMETRY ChunkSymmetry
INVARIANTS
    
    
    OneTransportSuffices
    
    CopiesAreUnlocked
CHECK_DEADLOCK FALSE
