SPECIFICATION WorkerFairSpec
CONSTANTS
    ahu = ahu
    pA = pA
    svc = svc
    svc2 = svc2
    once = once
    None = None
    NonNumeric = NonNumeric
    Targets = {ahu}
    Properties = {pA}
    Threshold <- MCThreshold
    Duration <- MCDuration
    Freshness <- MCFreshness
    Sample <- MCSample
    MaxTime = 3
    Services = {svc}
    OneShots = {once}
    StopFirst = TRUE
    MaxEvents = 3
    MaxStops = 2
INVARIANTS
    PollIsReplay
    NeverRefused
PROPERTIES
    ImplementsEvaluator
    EventsAreEvaluated
