SPECIFICATION MCSpec
CONSTANTS
    a = a
    v1 = v1
    v2 = v2
    w = w
    pA = pA
    pB = pB
    None = None
    NonNumeric = NonNumeric
    Ahus = {a}
    Versions = {v1, v2, w}
    Rules = {1, 2}
    RuleOf <- MCRuleOf
    Targets <- MCTargets
    Properties = {pA, pB}
    Threshold <- MCThreshold
    Duration <- MCDuration
    Freshness <- MCFreshness
    Sample <- MCSample
    MaxTime = 3
    MaxEvents = 2
    MaxChanges = 2
    MaxCrashes = 1
INVARIANTS
    EveryTargetIsAReplay
    TrailsAreReplays
PROPERTIES
    WatchedTargetsCatchUp
