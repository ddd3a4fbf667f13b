SPECIFICATION IngestSpec
CONSTANTS
    c1 = c1
    c2 = c2
    p1 = p1
    p2 = p2
    sat = sat
    run = run
    ahu = ahu
    ghost = ghost
    None = None
    Partitions = {p1}
    Consumers = {c1, c2}
    Events <- DeliveryEvents
    Points = {sat, run}
    Equipment = {ahu}
    Seeded = {ahu}
    MaxMessages = 3
    MaxFailures = 1
    MaxRebalances = 2
INVARIANTS
    OneDisposition
    CurrentIsNewest
PROPERTIES
    AcceptedInReceiptOrder
    ImplementsStore
