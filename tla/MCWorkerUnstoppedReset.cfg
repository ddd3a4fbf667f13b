SPECIFICATION WorkerSpec
CONSTANTS
    ahu = ahu
    pA = pA
    svc = svc
    svc2 = svc2
    once = once
    None = None
    NonNumeric = NonNumeric
    Targets = {ahu}
    Properties = {pA}
    Threshold <- MCThreshold
    Duration <- MCDuration
    Freshness <- MCFreshness
    Sample <- MCSample
    MaxTime = 3
    Services = {svc}
    OneShots = {once}
    StopFirst = FALSE
    MaxEvents = 3
    MaxStops = 0
INVARIANTS
    ResetReplayReproduces
