SPECIFICATION Spec
CONSTANTS
    Process = {p1, p2}
    Nobody = Nobody
    Other = Other
    Launch <- MCLaunch
    ReceiverPort = 1
    MaxPort = 4
    MaxTries = 2
INVARIANTS
    IInv
    FirstComerServes
PROPERTIES
    AnotherIsActive
    StartUpEnds
