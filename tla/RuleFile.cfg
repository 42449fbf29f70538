SPECIFICATION Spec
CONSTANTS
    UI = {"tui", "cli"}
    WebThread = {"http"}
    Host <- MCHost
    UserName = {"hot"}
    Default = Default
    Typed <- MCTyped
    IdText <- MCIdText
    DefaultName <- MCDefaultName
    StampStep <- MCFineStamps
    DiskMayFail = TRUE
    MaxEdits = 2
    MaxStarts = 2
INVARIANTS
    IInv
    IdsStayUnique
    SoleEditorPersists
PROPERTIES
    DaemonCatchesUp
