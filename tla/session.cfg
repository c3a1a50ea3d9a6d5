SPECIFICATION Spec
CONSTANTS
    Routes = {"R1", "R2", "R3"}
    Sections = {"S1", "S2", "S3"}
    Points = {"P1"}
    RequiredSections <- WideSections
    RequiredPoints <- WidePoints
    RequiredPosition <- WidePosition
    DirectAspects = {}
    MaxCommands = 4
    SendCapacity = 2
    RxCapacity = 10
    OcFaults = {"bad_version", "reject", "mismatch", "invalid"}
    LinkFaults = {"close", "timeout", "retransmission"}
    PdiTimeouts = TRUE
    LateNotices = TRUE
INVARIANTS
    RouteExclusion
    TypeOK
    ProceedIsReserved
    ConfirmationIsOwn
    OrderedAfterInitialisation
    ExpectedIsStable
PROPERTIES
    ReleaseIsBacked
    
CHECK_DEADLOCK FALSE
