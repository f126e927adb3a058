SPECIFICATION FairSpec
CONSTANTS
    RawAngles = {0, 90, 181}
    Nothing = Nothing
    Faults = {"sensor", "spawn", "register", "crash", "signal"}
INVARIANTS
    TypeOK
    HoldsNothing
PROPERTIES
    ImplementsLifecycle
    LoadedRuns
    UnloadedStops
