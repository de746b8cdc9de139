CONSTANTS
    w1 = w1
    w2 = w2
    l1 = l1
    s1 = s1
    None = None
    Api = Api
    Workers = {w1}
    Leads = {l1}
    Sessions = {s1}
    Contents = {"hot"}
    ModelOf <- HotModelOf
    Answers <- HotAnswers
    Annotations = {None}
    Patches = {}
    Threshold = 80
    MaxSessions = 1
    MaxMessages = 5
    MaxRetries = 2
    MaxDays = 1
    MaxCreated = 5
    MaxExtras = 0
SPECIFICATION SpecBoth
INVARIANTS
    HighIntentNotified
CHECK_DEADLOCK FALSE
