SPECIFICATION Spec
CONSTANTS
    Ids = {A, B}
    Dialled = {A}
    FifoSize = 2
    MaxChannels = 2
    MaxMessages = 2
    MaxSends = 2
    NULL = NULL
INVARIANTS
    LockIsGivenBack
    
    
    
PROPERTIES
    
    Drains
CHECK_DEADLOCK FALSE
