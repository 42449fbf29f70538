SPECIFICATION Spec
CONSTANTS
    Metric = {"cpu", "disk"}
    Value <- MCValue
    NoValue = NoValue
    Condition <- MCCondition
    Cooldown = 6
    MaxFetchTime = 1
    MaxActionTime = 1
    MaxRules = 2
    MaxAdds = 2
INVARIANTS
    IInv
    NoContradiction
    RearmsWhenClear
    FreshRulesFire
PROPERTIES
    RepeatsAreSpaced
    StandingBreachIsReported
    StoppedRulesFallSilent
