SPECIFICATION FairSpec
CONSTANTS
    Nothing = Nothing
    Displays = {d1, d2, d3}
    Faults = {"configure", "commit"}
INVARIANTS
    TypeOK
    NothingStaged
    FlagBacked
PROPERTIES
    ImplementsContract
    WorkedOff
