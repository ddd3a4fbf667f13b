SPECIFICATION EvaluatorSpec
CONSTANTS
    ahuA = ahuA
    pA = pA
    pB = pB
    None = None
    NonNumeric = NonNumeric
    Targets = {ahuA}
    Properties = {pA, pB}
    Threshold <- MCThreshold
    Duration <- MCDuration
    Freshness <- MCFreshness
    Sample <- MCSample
    MaxTime = 6
    Kinds <- TimingKinds
INVARIANTS
    TypeOK
    StateMatchesIssues
    WindowIsTheFault
    CheckpointIsNewest
    IssuesMeetContract
PROPERTIES
    OnlyNewTimesAdvance
    IssueHistoryIsFinal
    ImplementsTimeline
