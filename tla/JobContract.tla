----------------------------- MODULE JobContract -----------------------------
(***************************************************************************)
(* What the job path promises for one publish, whatever queues, workers    *)
(* and retries stand behind it: an accepted job is served (its handler     *)
(* returns, or the worker discards an event it has no handler for) or it   *)
(* is parked in failed_jobs, from where an admin can queue it again.       *)
(* There is no step that forgets a job and none that leaves "settled".     *)
(***************************************************************************)
CONSTANT Jobs
VARIABLE status

Statuses == {"new", "queued", "dead", "settled"}

Init == status = [j \in Jobs |-> "new"]

Move(j, from, to) == status[j] = from /\ status' = [status EXCEPT ![j] = to]

Accept(j)     == Move(j, "new", "queued")
Settle(j)     == Move(j, "queued", "settled")
DeadLetter(j) == Move(j, "queued", "dead")
Replay(j)     == Move(j, "dead", "queued")

(* A second worker still runs the handler of a job whose message has been  *)
(* dead-lettered under it, and its handler returns.                        *)
SettleLate(j) == Move(j, "dead", "settled")

Serve(j) == Settle(j) \/ DeadLetter(j)

Next == \E j \in Jobs : Accept(j) \/ Serve(j) \/ Replay(j) \/ SettleLate(j)

Spec == Init /\ [][Next]_status

FairSpec == Spec /\ \A j \in Jobs : WF_status(Serve(j))
=============================================================================
