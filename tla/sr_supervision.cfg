\* T_i, with a loss or a heartbeat at every point, or with neither.
SPECIFICATION TimedSpec
CHECK_DEADLOCK FALSE
CONSTANTS
    Modulus = 16
    SnRange = 8
    MaxPacket = 1
    RetrCapacity = 4
    InitialSn <- MCInitialSn
    Unset = {0, 15}
    Leftovers <- MCEmptyPacket
    LeftoverCrashes = FALSE
    Messages <- MCTwoAndOne
    Heartbeats <- MCOneOfServer
    Losses = 1
    Timeouts = TRUE
    LateTimestamps = FALSE
    Disconnects = {"client"}
    EarlyAnswers = TRUE
PROPERTIES
    
    HalfOpenEnds
    RequestsEnd
