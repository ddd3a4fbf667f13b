SPECIFICATION AuthoringFairSpec
CHECK_DEADLOCK FALSE
CONSTANTS
    r1 = r1
    c1 = c1
    c2 = c2
    c3 = c3
    None = None
    Keys = {r1}
    Requests = {r1}
    Drafts <- SoundProposals
    Proposals <- AllProposals
    DefaultDraft <- good
    Ontologies <- MCOntologies
    Callers = {c1, c2, c3}
    MaxVersions = 1
    MaxFaults = 2
    MaxDrifts = 2
    MaxAnswers = 2
INVARIANTS
    RulesNeedConfirmation
    ActivatedExactlyOnce
    OneDriver
PROPERTIES
    RequestsComeToRest
