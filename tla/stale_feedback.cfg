SPECIFICATION Spec
CONSTANTS
    Routes = {"RUTA_AB", "RUTA_AC"}
    Sections = {"CV_01", "CV_02", "CV_03"}
    Points = {"P_01"}
    RequiredSections <- LabSections
    RequiredPoints <- LabPoints
    RequiredPosition <- LabPosition
    DirectAspects = {}
    MaxCommands = 6
    SendCapacity = 6
    RxCapacity = 10
    OcFaults = {"luminosity_error"}
    LinkFaults = {}
    PdiTimeouts = FALSE
    LateNotices = FALSE
PROPERTIES
    ReleaseShowsStop
CHECK_DEADLOCK FALSE
