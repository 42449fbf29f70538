SPECIFICATION Spec
CONSTANTS
    UI = {"tui", "cli"}
    WebThread = {}
    Host <- MCHost
    UserName = {"hot"}
    Default = Default
    Typed <- MCTyped
    IdText <- MCIdText
    DefaultName <- MCDefaultName
    StampStep <- MCFineStamps
    DiskMayFail = FALSE
    MaxEdits = 2
    MaxStarts = 2
INVARIANTS
    CommonSourceOfTruth
