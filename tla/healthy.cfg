SPECIFICATION HealthySpec
CONSTANTS
    Routes = {"RUTA_AB", "RUTA_AC"}
    Sections = {"CV_01", "CV_02", "CV_03"}
    Points = {"P_01"}
    RequiredSections <- LabSections
    RequiredPoints <- LabPoints
    RequiredPosition <- LabPosition
    DirectAspects = {}
    MaxCommands = 4
    SendCapacity = 6
    RxCapacity = 10
    OcFaults = {}
    LinkFaults = {}
    PdiTimeouts = FALSE
    LateNotices = FALSE
INVARIANTS
    NeverFailed
PROPERTIES
    HealthyProgress
CHECK_DEADLOCK FALSE
