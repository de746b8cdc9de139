CONSTANTS
    w1 = w1
    w2 = w2
    lead = lead
    seq = seq
    email = email
    text = text
    wait = wait
    Workers = {w1}
    Leads = {lead}
    Seqs = {seq}
    Steps = {email, text, wait}
    Channel <- MCChannel
    Configured = {"email"}
    InitialSteps <- MCInitialSteps
    MaxRetries = 2
    MaxRequests = 1
    MaxChanges = 1
    MaxReplays = 1
    MaxFaults = 2
SPECIFICATION FairSpec
INVARIANTS
    StepsRunOnce
PROPERTIES
    NoRegress
    EnrollmentsFinish
CHECK_DEADLOCK FALSE
