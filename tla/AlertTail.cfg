SPECIFICATION Spec
CONSTANTS
    Name = {"a", "b"}
    MaxRules = 2
    MaxAdds = 2
    MaxLines = 3
    MaxRotations = 1
    MaxFailures = 1
    MaxRestarts = 1
INVARIANTS
    IInv
    NothingSkipped
    NothingReplayed
PROPERTIES
    AlertsAreSurfaced
