CONSTANTS
    w1 = w1
    w2 = w2
    l1 = l1
    s1 = s1
    None = None
    Api = Api
    Workers = {w1, w2}
    Leads = {l1}
    Sessions = {s1}
    Contents = {"warm", "hot"}
    ModelOf <- MCModelOf
    Answers <- MCAnswers
    Annotations <- MCAnnotations
    Patches <- MCPatches
    Threshold = 80
    MaxSessions = 1
    MaxMessages = 2
    MaxRetries = 2
    MaxDays = 2
    MaxCreated = 2
    MaxExtras = 1
SYMMETRY WorkerSymmetry
SPECIFICATION SpecBoth
INVARIANTS
    ScoresOfOneMessage
    LatestCounts
    BilledPerJob
    ConnectionsOnlyFromRaces
    SvixKnowsScore
CHECK_DEADLOCK FALSE
