SPECIFICATION AuthoringSpec
CHECK_DEADLOCK FALSE
CONSTANTS
    r1 = r1
    c1 = c1
    c2 = c2
    c3 = c3
    None = None
    Keys = {r1}
    Requests = {r1}
    Drafts <- SoundProposals
    Proposals <- AllProposals
    DefaultDraft <- good
    Ontologies <- OneOntology
    Callers = {c1}
    MaxVersions = 1
    MaxFaults = 0
    MaxDrifts = 0
    MaxAnswers = 1
INVARIANTS
    NoRequestAbandoned
