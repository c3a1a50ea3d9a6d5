\* Losses, heartbeats, timeouts, late timestamps and closes in every order.
SPECIFICATION Spec
CHECK_DEADLOCK FALSE
CONSTANTS
    Modulus = 16
    SnRange = 8
    MaxPacket = 2
    RetrCapacity = 4
    InitialSn <- MCInitialSn
    Unset = {0, 15}
    Leftovers <- MCEmptyPacket
    LeftoverCrashes = TRUE
    Messages <- MCTwoAndOne
    Heartbeats <- MCOneEach
    Losses = 3
    Timeouts = TRUE
    LateTimestamps = TRUE
    Disconnects = {"client"}
    EarlyAnswers = TRUE
INVARIANTS
    TypeOK
    NumbersAgree
    UpIsMutual
    EstablishedIsWatched
    LosslessIsExact
PROPERTY
    DeliversInOrder
