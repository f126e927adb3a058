SPECIFICATION FairSpec
CONSTANTS
    FullCloseAngle = 5
    Threshold = 30
    StabilitySamples = 2
    CloseGrace = 1
    OpenGrace = 1
    WakeGrace = 1
    RestoreHold = 2
    Angles <- MCAngles
    Levels <- MCTwoLevels
    Nothing = Nothing
    Torn = Torn
    Garbled = Garbled
    Displays = {d1, d2}
    Environment = {"crash", "signal", "observer", "externalDisable"}
INVARIANTS
    PanelCustody
    ExternalCustody
    CursorReleasable
    FileMirrorsMemory
    CleanShutdown
PROPERTIES
    RestoredWhenOpen
    DimmedWhenPartial
