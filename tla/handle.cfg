SPECIFICATION Spec
CONSTANTS
    NULL = NULL
    Writer = "writer"
    Loggers = {"main", "recv", "hb", "send", "n1", "n2"}
    Notifications = {"n1", "n2"}
    BufferSize = 1
    MaxLogs = 2
    Types = {"file", "both"}
    MaxFired = 2
INVARIANTS
    CounterCountsRunning
    CrashOnlyOutOfTime

    
    
CHECK_DEADLOCK FALSE
