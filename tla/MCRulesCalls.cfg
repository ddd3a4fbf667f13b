SPECIFICATION RulesSpec
CONSTANTS
    k1 = k1
    k2 = k2
    c1 = c1
    c2 = c2
    None = None
    Keys = {k1, k2}
    Drafts <- MCDrafts
    DefaultDraft <- overridden
    Ontologies <- MCOntologies
    Callers = {c1, c2}
    MaxVersions = 2
    MaxFaults = 1
    MaxDrifts = 1
SYMMETRY Symmetry
INVARIANTS
    VersionsAreNumbered
    EnabledRuleIsRunnable
    EnabledRuleHasTargets
