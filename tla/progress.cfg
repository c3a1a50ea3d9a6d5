SPECIFICATION FairSpec
CONSTANTS
    Routes = {"RUTA_AB", "RUTA_AC"}
    Sections = {"CV_01", "CV_02", "CV_03"}
    Points = {"P_01"}
    RequiredSections <- LabSections
    RequiredPoints <- LabPoints
    RequiredPosition <- LabPosition
    DirectAspects = {"APAGADA"}
    MaxCommands = 2
    SendCapacity = 2
    RxCapacity = 2
    OcFaults = {"bad_version", "reject", "luminosity_error"}
    LinkFaults = {"close", "timeout", "retransmission"}
    PdiTimeouts = TRUE
    LateNotices = TRUE
PROPERTIES
    WaitsEnd
CHECK_DEADLOCK FALSE
