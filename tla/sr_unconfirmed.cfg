\* A confirmed number that belongs to a heartbeat.
SPECIFICATION Spec
CHECK_DEADLOCK FALSE
CONSTANTS
    Modulus = 16
    SnRange = 8
    MaxPacket = 1
    RetrCapacity = 3
    InitialSn <- MCInitialSn
    Unset = {0, 15}
    Leftovers <- MCEmptyPacket
    LeftoverCrashes = FALSE
    Messages <- MCTwoAndOne
    Heartbeats <- MCOneEach
    Losses = 0
    Timeouts = FALSE
    LateTimestamps = FALSE
    Disconnects = {}
    EarlyAnswers = FALSE
PROPERTY
    ReleasedIsReceived
