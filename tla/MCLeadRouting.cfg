CONSTANTS
    w1 = w1
    w2 = w2
    l1 = l1
    None = None
    Workers = {w1, w2}
    Leads = {l1}
    Admitted <- MCAdmitted
    RuleIds = {1, 2, 3}
    RuleBodies <- MCRuleBodies
    InitialRules <- MCInitialRules
    InitialLead <- MCInitialLead
    Patches <- MCPatches
    Number <- MCNumber
    Substrings <- MCContains
    Items <- MCItems
    MaxRetries = 2
    MaxPatches = 2
    MaxEdits = 1
    MaxFaults = 1
SYMMETRY WorkerSymmetry
SPECIFICATION Spec
INVARIANTS
    TypeOK
    DecisionIsBest
    OneAssignment
    RoutedAsRulesSay
    EvaluatedPerJob
CHECK_DEADLOCK FALSE
