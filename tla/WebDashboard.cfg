SPECIFICATION Spec
CONSTANTS
    t1 = t1
    t2 = t2
    Thread = {t1, t2}
    Interval = 3
    ReadTime = 1
    PollGap = 1
    Files <- Contents
    Workloads <- Asks
INVARIANTS
    IInv
    RulesAreTheFiles
    SensorsAreRecent
PROPERTIES
    EveryRequestIsAnswered
