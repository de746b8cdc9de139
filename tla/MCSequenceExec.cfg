CONSTANTS
    w1 = w1
    w2 = w2
    lead = lead
    seq = seq
    email = email
    text = text
    wait = wait
    Workers = {w1, w2}
    Leads = {lead}
    Seqs = {seq}
    Steps = {email, text}
    Channel <- MCChannel
    Configured = {"email"}
    InitialSteps <- MCInitialSteps
    MaxRetries = 2
    MaxRequests = 1
    MaxChanges = 1
    MaxReplays = 1
    MaxFaults = 1
SYMMETRY WorkerSymmetry
SPECIFICATION Spec
INVARIANTS
    TypeOK
    NoStepSkipped
    ActiveHasJob
    EnrolledOncePerEvent
    UsageMatchesCalls
CHECK_DEADLOCK FALSE
