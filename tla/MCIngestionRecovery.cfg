SPECIFICATION IngestFairSpec
CONSTANTS
    c1 = c1
    c2 = c2
    p1 = p1
    p2 = p2
    sat = sat
    run = run
    ahu = ahu
    ghost = ghost
    None = None
    Partitions = {p1}
    Consumers = {c1, c2}
    Events <- RecoveryEvents
    Points = {sat, run}
    Equipment = {ahu, ghost}
    Seeded = {ahu}
    MaxMessages = 2
    MaxFailures = 2
    MaxRebalances = 1
INVARIANTS
    CommittedAreRecorded
    HistoryIsAccepted
PROPERTIES
    MessagesAreRecorded
