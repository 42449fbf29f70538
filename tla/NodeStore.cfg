SPECIFICATION Spec
CONSTANTS
    p1 = p1
    p2 = p2
    r1 = r1
    Process = {p1, p2}
    Nobody = Nobody
    Reader = {r1}
    home <- MCHome
    Node = {n1}
    OnlineThreshold = 4
    Throttle = 1
    Interval = 1
    PushTime = 1
INVARIANTS
    IInv
    NoPhantomNodes
    HealthyNodesStayOnline
PROPERTIES
    FollowersCatchUp
