SPECIFICATION WorkerSpec
CONSTANTS
    ahu = ahu
    pA = pA
    svc = svc
    svc2 = svc2
    once = once
    None = None
    NonNumeric = NonNumeric
    Targets = {ahu}
    Properties = {pA}
    Threshold <- MCThreshold
    Duration <- MCDuration
    Freshness <- MCFreshness
    Sample <- MCSample
    MaxTime = 3
    Services = {svc, svc2}
    OneShots = {}
    StopFirst = FALSE
    MaxEvents = 4
    MaxStops = 0
INVARIANTS
    OneOpenIssue
    EvidenceProvesIssue
    OpenRowHasItsIssue
    IssuesEndAfterTheyBegin
PROPERTIES
    OrphansStay
