SPECIFICATION Spec
CONSTANTS
    Nothing = Nothing
    Levels = {0, 1, 2}
    Ids = {11, 12}
    Keyboards = {1, 2}
    Default = 1
    Faults = {"displays", "panel", "client", "ids", "keyboard"}
INVARIANTS
    TypeOK
    AnswersTrue
    StaleIdHealed
