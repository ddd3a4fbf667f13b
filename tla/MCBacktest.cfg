SPECIFICATION BacktestSpec
CONSTANTS
    ahuA = ahuA
    pA = pA
    None = None
    NonNumeric = NonNumeric
    Targets = {ahuA}
    Properties = {pA}
    Threshold <- MCThreshold
    Duration <- MCDuration
    Freshness <- MCFreshness
    Sample <- MCSample
    MaxTime = 5
    MaxReceived = 4
INVARIANTS
    EvidenceSpeaksForItself
    BacktestFindsTheIssues
    NonTriggerReasonIsTrue
