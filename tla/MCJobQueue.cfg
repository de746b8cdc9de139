CONSTANTS
    w1 = w1
    w2 = w2
    a1 = a1
    good = good
    odd = odd
    broken = broken
    Workers = {w1, w2}
    Admins = {a1}
    Jobs = {good, odd, broken}
    Queues <- MCQueues
    QueueUrls <- MCQueueUrls
    QueueOf <- MCQueueOf
    UrlName <- SameNames
    Unhandled = {odd}
    Malformed = {broken}
    MaxRetries = 2
    MaxBatch = 2
    MaxMessages = 3
    MaxReceives = 4
    MaxFaults = 1
SYMMETRY WorkerSymmetry
SPECIFICATION Spec
INVARIANTS
    TypeOK
    NoJobLost
    ReceivesBounded
    DuplicatesAccounted
    DeadOrQueued
PROPERTY ImplementsContract
