----------------------------- MODULE MCJobQueue -----------------------------
(* Small instances of JobQueue for TLC.                                     *)
EXTENDS JobQueue, TLC

CONSTANTS w1, w2, a1, good, odd, broken

\* Two queues polled in turn.  "good" has a handler and waits behind "broken"
\* on the second; "odd" has none.
MCQueues    == {"ai_jobs", "routing_jobs"}
MCQueueUrls == <<"ai_jobs", "routing_jobs">>
MCQueueOf   == [j \in Jobs |-> IF j = odd THEN "ai_jobs" ELSE "routing_jobs"]

\* The queue URLs end in the logical names, or in names of their own.
SameNames  == [q \in MCQueues |-> q]
OwnNames   == [q \in MCQueues |-> IF q = "ai_jobs" THEN "leadline-ai"
                                                 ELSE "leadline-routing"]

WorkerSymmetry == Permutations(Workers)
=============================================================================
