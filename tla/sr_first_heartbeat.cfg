\* A handshake whose first heartbeat is lost.
SPECIFICATION Spec
CHECK_DEADLOCK FALSE
CONSTANTS
    Modulus = 16
    SnRange = 8
    MaxPacket = 1
    RetrCapacity = 3
    InitialSn <- MCInitialSn
    Unset = {0, 15}
    Leftovers <- MCEmptyPacket
    LeftoverCrashes = FALSE
    Messages <- MCTwoAndOne
    Heartbeats <- MCOneEach
    Losses = 1
    Timeouts = FALSE
    LateTimestamps = FALSE
    Disconnects = {}
    EarlyAnswers = FALSE
INVARIANT
    UpHasChannel
