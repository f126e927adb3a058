SPECIFICATION Spec
CONSTANTS
    FullCloseAngle = 5
    Threshold = 30
    StabilitySamples = 2
    CloseGrace = 1
    OpenGrace = 1
    WakeGrace = 1
    RestoreHold = 2
    Angles <- MCAngles
    Levels <- MCLevels
    Nothing = Nothing
    Torn = Torn
    Garbled = Garbled
    Displays = {d1}
    Environment = {"user", "relight", "hotplug", "panelRead", "externalRestore"}
INVARIANTS
    TypeOK
    PanelCustody
PROPERTIES
    UsesContract
