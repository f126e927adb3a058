SPECIFICATION Spec
CONSTANTS
    FullCloseAngle = 5
    Threshold = 30
    StabilitySamples = 2
    CloseGrace = 1
    OpenGrace = 1
    WakeGrace = 1
    RestoreHold = 2
    MaxTime = 4
    MaxStreak = 3
    Angles <- MCAngles
    Nothing = Nothing
INVARIANTS
    TypeOK
    DimsAfterOpenOnly
    StartDebounced
PROPERTIES
    HoldHonoured
    RefinesPolicy
