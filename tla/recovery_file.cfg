SPECIFICATION Spec
CONSTANTS
    Levels = {1}
    Displays = {11, 12}
    Nothing = Nothing
    Torn = Torn
    Garbled = Garbled
    Faults = {"disk"}
INVARIANTS
    TypeOK
PROPERTIES
    ImplementsCell
    ReadsOlderVersions
    SavedIsLoaded
