---------------------------- MODULE SequenceExec ----------------------------
(***************************************************************************)
(* Follow-up sequences: enrollment through the API and through lifecycle   *)
(* events, and their execution by the worker, one step per job             *)
(* (app/sequence/pipeline.py, app/services/sequence_service.py,            *)
(* app/api/sequences.py), for one tenant.                                  *)
(*                                                                         *)
(* The database is PostgreSQL at READ COMMITTED: a worker's transaction    *)
(* reads committed rows and its writes appear at its commit.  Jobs follow  *)
(* JobQueue: delivered at least once, parked in failed_jobs after          *)
(* MaxRetries deliveries, and with two workers at a time only after an     *)
(* early visibility timeout.                                               *)
(***************************************************************************)
EXTENDS Naturals, Sequences, FiniteSets, SequencesExt

CONSTANTS
    Workers,        \* worker processes
    Leads,
    Seqs,           \* sequences of the tenant
    Steps,          \* step ids
    Channel,        \* what _execute_step returns of a step: a channel when
                    \*    its lead can be addressed there, or "none"
    Configured,     \* the channels whose provider (SES, Twilio) is set up
    InitialSteps,   \* the ordered step list each sequence starts with
    MaxRetries,     \* _MAX_RETRIES of the worker
    MaxRequests,    \* bound: calls of POST /enroll and lifecycle events
    MaxChanges,     \* bound: deletions and edits by an admin
    MaxReplays,     \* bound: dead-letter replays
    MaxFaults       \* bound: crashes, failed calls and early timeouts start
                    \*        only below it

Channels == {"email", "sms"}

ASSUME ConstantsOK ==
    /\ IsFiniteSet(Workers)
    /\ Channel \in [Steps -> Channels \cup {"none"}]
    /\ Configured \subseteq Channels
    /\ InitialSteps \in [Seqs -> Seq(Steps)]
    /\ \A s \in Seqs : IsInjective(InitialSteps[s])    \* ids are primary keys
    /\ MaxRetries \in Nat \ {0}

VARIABLES
    leads,        \* leads in the database
    sequences,    \* sequences in the database
    steps,        \* sequence -> its steps in (order_index, id) order
    enrollments,  \* rows in insertion order: [lead, seq, by, status, idx]
    usage,        \* today's usage_records row, sent per channel: [row, sent]
    jobs,         \* sequence_jobs messages: [event, target, receives, state]
    worker,       \* per worker: its job and what its transaction has read
    unsent,       \* enrollments committed by POST /enroll, not yet published
    ran,          \* history, per enrollment: runs of _execute_step by step
    sends,        \* history, per channel: calls of its provider, deliveries
                  \*   skipped without one, and deliveries counted while
                  \*   another was under way: [called, skipped, overlaps]
    recorded,     \* history, per enrollment: timeline events by step
    orphans,      \* history: enrollments whose first job was lost
    edited,       \* history: sequences whose steps were edited
    mishaps       \* history: failed handler runs, crashes, early timeouts

vars == <<leads, sequences, steps, enrollments, usage, jobs, worker, unsent,
          ran, sends, recorded, orphans, edited, mishaps>>

-----------------------------------------------------------------------------
Rows     == 1..Len(enrollments)
JobIds   == 1..Len(jobs)
NoUsage  == [row |-> FALSE, sent |-> [c \in Channels |-> 0]]
NoSends  == [called |-> 0, skipped |-> 0, overlaps |-> 0]
Idle     == [pc |-> "idle", job |-> 0]

(* A transaction of process_sequence_step_event, with what it has read.    *)
StepTxn(pc, j, idx, list, u) ==
    [pc |-> pc, job |-> j, idx |-> idx, list |-> list, usage |-> u]

(* One of process_sequence_trigger_event: sequences to enroll into, and    *)
(* the rows inserted so far.                                               *)
TriggerTxn(j, todo, made) ==
    [pc |-> "enroll", job |-> j, todo |-> todo, made |-> made]

Ack(j) == [pc |-> "ack", job |-> j]

Set(w, r)   == worker' = [worker EXCEPT ![w] = r]
Target(w)   == jobs[worker[w].job].target
StepOf(w)   == worker[w].list[worker[w].idx + 1]
Past(w)     == worker[w].idx >= Len(worker[w].list)
Over(w)     == Channel[StepOf(w)]
Counts(w)   == Over(w) \in Channels

(* Mutant: the last step is cut off.                                       *)
IsLastOffByOne(w) == worker[w].idx + 2 >= Len(worker[w].list)

IsLast(w)   == worker[w].idx + 1 >= Len(worker[w].list)
Held(j)     == \E w \in Workers : worker[w].job = j

Job(event, target) ==
    [event |-> event, target |-> target, receives |-> 0, state |-> "queued"]

Insert(l, s, by, status) ==
    /\ enrollments' = Append(enrollments,
           [lead |-> l, seq |-> s, by |-> by, status |-> status, idx |-> 0])
    /\ ran'      = Append(ran, [st \in Steps |-> 0])
    /\ recorded' = Append(recorded, [st \in Steps |-> 0])
    /\ UNCHANGED sends

Fault == mishaps < MaxFaults /\ mishaps' = mishaps + 1

-----------------------------------------------------------------------------
Init ==
    /\ leads = Leads
    /\ sequences = Seqs
    /\ steps = InitialSteps
    /\ enrollments = <<>>
    /\ \E counted \in BOOLEAN :    \* by another component, today
           usage = [NoUsage EXCEPT !.row = counted]
    /\ jobs = <<>>
    /\ worker = [w \in Workers |-> Idle]
    /\ unsent = {}
    /\ ran = <<>>
    /\ sends = [c \in Channels |-> NoSends]
    /\ recorded = <<>>
    /\ orphans = {}
    /\ edited = {}
    /\ mishaps = 0

-----------------------------------------------------------------------------
Requests == Cardinality({e \in Rows : enrollments[e].by = "api"})
          + Cardinality({j \in JobIds : jobs[j].event = "trigger"})

(* POST /v1/sequences/{id}/enroll: SequenceService.enroll commits the row, *)
(* then enroll_lead publishes its first job.                               *)
EnrollCommit(l, s) ==
    /\ Requests < MaxRequests
    /\ l \in leads /\ s \in sequences
    /\ Insert(l, s, "api", "active")
    /\ unsent' = unsent \cup {Len(enrollments) + 1}
    /\ UNCHANGED <<leads, sequences, steps, usage, jobs, worker, orphans,
                   edited, mishaps>>

(* Mutants: the payload names the lead; nothing is published.              *)
FirstJobForLead(e) == Job("step", enrollments[e].lead)

EnrollPublishForgets ==
    /\ \E e \in unsent : unsent' = unsent \ {e}
    /\ UNCHANGED <<leads, sequences, steps, enrollments, usage, jobs, worker,
                   ran, sends, recorded, orphans, edited, mishaps>>

FirstJob(e) == Job("step", e)

EnrollPublish ==
    /\ \E e \in unsent :
        /\ jobs' = Append(jobs, FirstJob(e))
        /\ unsent' = unsent \ {e}
    /\ UNCHANGED <<leads, sequences, steps, enrollments, usage, worker, ran,
                   sends, recorded, orphans, edited, mishaps>>

(* The call dies, or send_message fails, after the commit.                 *)
EnrollDies ==
    /\ \E e \in unsent :
        /\ unsent' = unsent \ {e}
        /\ orphans' = orphans \cup {e}
    /\ Fault
    /\ UNCHANGED <<leads, sequences, steps, enrollments, usage, jobs, worker,
                   ran, sends, recorded, edited>>

(* Another component publishes a lifecycle event of a lead.                *)
PublishTrigger(l) ==
    /\ Requests < MaxRequests
    /\ l \in leads
    /\ jobs' = Append(jobs, Job("trigger", l))
    /\ UNCHANGED <<leads, sequences, steps, enrollments, usage, worker, unsent,
                   ran, sends, recorded, orphans, edited, mishaps>>

-----------------------------------------------------------------------------
(* What an admin does to the rows the worker reads.  The foreign keys      *)
(* cascade to the enrollments, and a delete waits for the transaction      *)
(* that inserts a referring row.                                           *)
Changes == Cardinality(Leads \ leads) + Cardinality(Seqs \ sequences)
         + Cardinality(edited)

Cascade(gone) ==
    enrollments' = [e \in Rows |->
        IF e \in gone THEN [enrollments[e] EXCEPT !.status = "gone"]
        ELSE enrollments[e]]

Pending(e) == enrollments[e].status = "pending"

DeleteLead(l) ==
    LET gone == {e \in Rows : enrollments[e].lead = l} IN
    /\ Changes < MaxChanges
    /\ l \in leads
    /\ \A e \in gone : ~Pending(e)
    /\ leads' = leads \ {l}
    /\ Cascade(gone)
    /\ UNCHANGED <<sequences, steps, usage, jobs, worker, unsent, ran, sends,
                   recorded, orphans, edited, mishaps>>

DeleteSequence(s) ==
    LET gone == {e \in Rows : enrollments[e].seq = s} IN
    /\ Changes < MaxChanges
    /\ s \in sequences
    /\ \A e \in gone : ~Pending(e)
    /\ sequences' = sequences \ {s}
    /\ Cascade(gone)
    /\ UNCHANGED <<leads, steps, usage, jobs, worker, unsent, ran, sends,
                   recorded, orphans, edited, mishaps>>

(* create_step, delete_step, update_step (which may move a step); the      *)
(* model edits each sequence at most once.                                 *)
EditSteps(s) ==
    LET old == steps[s] IN
    /\ Changes < MaxChanges
    /\ s \in sequences \ edited
    /\ \/ \E st \in Steps \ ToSet(old), i \in 1..Len(old) + 1 :
              steps' = [steps EXCEPT ![s] = InsertAt(old, i, st)]
       \/ \E i \in DOMAIN old : steps' = [steps EXCEPT ![s] = RemoveAt(old, i)]
       \/ \E i, k \in DOMAIN old : i < k /\
              steps' = [steps EXCEPT ![s] = [old EXCEPT ![i] = old[k],
                                                        ![k] = old[i]]]
    /\ edited' = edited \cup {s}
    /\ UNCHANGED <<leads, sequences, enrollments, usage, jobs, worker, unsent,
                   ran, sends, recorded, orphans, mishaps>>

-----------------------------------------------------------------------------
(* The job layer around the handlers.                                      *)

(* An idle worker receives job j; while another one still has it only      *)
(* after an early timeout.                                                 *)
Take(w, j) ==
    /\ worker[w] = Idle
    /\ jobs[j].state = "queued"
    /\ IF Held(j) THEN Fault ELSE UNCHANGED mishaps
    /\ jobs' = [jobs EXCEPT ![j].receives = @ + 1]

(* Mutant: the job stays on the queue after its handler has returned.      *)
AcknowledgeKeeps(w) ==
    /\ worker[w].pc = "ack"
    /\ Set(w, Idle)
    /\ UNCHANGED <<leads, sequences, steps, enrollments, usage, jobs, unsent,
                   ran, sends, recorded, orphans, edited, mishaps>>

(* The handler has returned: delete_message.                               *)
Acknowledge(w) ==
    /\ worker[w].pc = "ack"
    /\ jobs' = [jobs EXCEPT ![worker[w].job].state = "deleted"]
    /\ Set(w, Idle)
    /\ UNCHANGED <<leads, sequences, steps, enrollments, usage, unsent, ran,
                   sends, recorded, orphans, edited, mishaps>>

(* The transaction of worker w is rolled back and its job dropped.         *)
Rollback(w) ==
    /\ Cascade(IF worker[w].pc = "enroll" THEN worker[w].made ELSE {})
    /\ Set(w, Idle)
    /\ UNCHANGED <<leads, sequences, steps, usage, unsent, ran, sends,
                   recorded, orphans, edited>>

(* The handler raises: at the last delivery the job goes to failed_jobs.   *)
Raise(w) ==
    LET j == worker[w].job IN
    /\ jobs' = IF jobs[j].receives >= MaxRetries
               THEN [jobs EXCEPT ![j].state = "dead"] ELSE jobs
    /\ Rollback(w)
    /\ mishaps' = mishaps + 1

(* A failed delivery, publish or commit, or a lost database connection.    *)
HandlerFails(w) ==
    /\ worker[w].pc \notin {"idle", "ack"}
    /\ mishaps < MaxFaults
    /\ Raise(w)

(* The worker dies, or its delete_message fails: the job stays queued.     *)
Crash(w) ==
    /\ worker[w].pc # "idle"
    /\ Fault
    /\ Rollback(w)
    /\ UNCHANGED jobs

(* replay_dlq_job publishes the job and then marks its row.  The commit of *)
(* the mark can fail, and a row that is marked can be replayed again.      *)
Replay(j) ==
    LET again == Job(jobs[j].event, jobs[j].target) IN
    /\ \/ /\ jobs[j].state = "dead"
          /\ Cardinality({k \in JobIds : jobs[k].state = "replayed"})
                 < MaxReplays
          /\ jobs' = Append([jobs EXCEPT ![j].state = "replayed"], again)
          /\ UNCHANGED mishaps
       \/ /\ jobs[j].state \in {"dead", "replayed"}
          /\ Fault
          /\ jobs' = Append(jobs, again)
    /\ UNCHANGED <<leads, sequences, steps, enrollments, usage, worker, unsent,
                   ran, sends, recorded, orphans, edited>>

-----------------------------------------------------------------------------
(* process_sequence_trigger_event.                                         *)

(* Which sequences are active and listen to the trigger is left open: an   *)
(* admin may have changed either just before.                              *)
StartTrigger(w) ==
    /\ \E j \in JobIds :
        /\ jobs[j].event = "trigger"
        /\ Take(w, j)
        /\ \E active \in SUBSET sequences : Set(w, TriggerTxn(j, active, {}))
    /\ UNCHANGED <<leads, sequences, steps, enrollments, usage, unsent, ran,
                   sends, recorded, orphans, edited>>

(* One turn of its loop: insert the enrollment, publish its first step.    *)
(* The enrollment is not committed yet, but the job can be received.       *)
EnrollOne(w) ==
    /\ worker[w].pc = "enroll"
    /\ \E s \in worker[w].todo \cap sequences :
        LET e == Len(enrollments) + 1 IN
        /\ Target(w) \in leads
        /\ Insert(Target(w), s, "event", "pending")
        /\ jobs' = Append(jobs, FirstJob(e))
        /\ Set(w, TriggerTxn(worker[w].job, worker[w].todo \ {s},
                             worker[w].made \cup {e}))
    /\ UNCHANGED <<leads, sequences, steps, usage, unsent, orphans, edited,
                   mishaps>>

(* The lead or a sequence is gone: the insert violates a foreign key.      *)
EnrollRejected(w) ==
    /\ worker[w].pc = "enroll"
    /\ worker[w].todo # {}
    /\ Target(w) \notin leads \/ ~(worker[w].todo \subseteq sequences)
    /\ Raise(w)

CommitTrigger(w) ==
    /\ worker[w].pc = "enroll"
    /\ worker[w].todo = {}
    /\ enrollments' = [e \in Rows |->
           IF e \in worker[w].made
           THEN [enrollments[e] EXCEPT !.status = "active"]
           ELSE enrollments[e]]
    /\ Set(w, Ack(worker[w].job))
    /\ UNCHANGED <<leads, sequences, steps, usage, jobs, unsent, ran, sends,
                   recorded, orphans, edited, mishaps>>

-----------------------------------------------------------------------------
(* process_sequence_step_event.                                            *)

(* It reads the enrollment and its steps.  With an enrollment that is not  *)
(* active (completed, deleted or not committed yet) it returns; past the   *)
(* last step it goes on to complete it.                                    *)
StartStep(w) ==
    /\ \E j \in JobIds :
        LET e == jobs[j].target IN
        /\ jobs[j].event = "step"
        /\ Take(w, j)
        /\ IF enrollments[e].status = "active"
           THEN LET i    == enrollments[e].idx
                    list == steps[enrollments[e].seq]
                IN  /\ Set(w, StepTxn(IF i < Len(list) THEN "run" ELSE "commit",
                                      j, i, list, NoUsage))
                    /\ UNCHANGED orphans
           ELSE /\ Set(w, Ack(j))
                /\ orphans' = IF Pending(e) THEN orphans \cup {e} ELSE orphans
    /\ UNCHANGED <<leads, sequences, steps, enrollments, usage, unsent, ran,
                   sends, recorded, edited>>

(* DeliveryService returns without a call when its provider is not set up. *)
Delivered(c) ==
    IF c \in Configured THEN [sends EXCEPT ![c].called = @ + 1]
    ELSE [sends EXCEPT ![c].skipped = @ + 1]

(* _execute_step delivers, outside the transaction; whether a provider was *)
(* called it does not look at.  Then UsageTrackingService.increment reads  *)
(* today's row.                                                            *)
RunStep(w) ==
    LET t == worker[w] IN
    /\ t.pc = "run"
    /\ ran' = [ran EXCEPT ![Target(w)][StepOf(w)] = @ + 1]
    /\ sends' = IF Counts(w) THEN Delivered(Over(w)) ELSE sends
    /\ Set(w, StepTxn(IF Counts(w) THEN "usage" ELSE "publish",
                      t.job, t.idx, t.list, usage))
    /\ UNCHANGED <<leads, sequences, steps, enrollments, usage, jobs, unsent,
                   recorded, orphans, edited, mishaps>>

(* Without a row it inserts one (flush): the unique (tenant, date) makes   *)
(* it wait for another transaction that has inserted the row, and fail     *)
(* once that is committed.                                                 *)
Inserting(v) ==
    /\ worker[v].pc \in {"publish", "commit"}
    /\ ~Past(v) /\ Counts(v) /\ ~worker[v].usage.row

StageUsage(w) ==
    LET t == worker[w] IN
    /\ t.pc = "usage"
    /\ t.usage.row \/ ~usage.row
    /\ t.usage.row \/ \A v \in Workers : ~Inserting(v)
    /\ Set(w, StepTxn("publish", t.job, t.idx, t.list, t.usage))
    /\ UNCHANGED <<leads, sequences, steps, enrollments, usage, jobs, unsent,
                   ran, sends, recorded, orphans, edited, mishaps>>

UsageConflict(w) ==
    /\ worker[w].pc = "usage"
    /\ ~worker[w].usage.row /\ usage.row
    /\ Raise(w)

(* Mutant: the handler counts on somebody else to publish.                 *)
WithNextJobNever(w) == jobs

WithNextJob(w) ==
    IF IsLast(w) THEN jobs ELSE Append(jobs, Job("step", Target(w)))

(* The next step is published before the transaction is committed.         *)
PublishNext(w) ==
    LET t == worker[w] IN
    /\ t.pc = "publish"
    /\ jobs' = WithNextJob(w)
    /\ Set(w, StepTxn("commit", t.job, t.idx, t.list, t.usage))
    /\ UNCHANGED <<leads, sequences, steps, enrollments, usage, unsent, ran,
                   sends, recorded, orphans, edited, mishaps>>

(* Mutants: the index is not advanced; it is reset at the end; all columns *)
(* of usage_records are written, the other channel's as it was read.       *)
ProgressedKeeps(r, idx, complete) ==
    [lead |-> r.lead, seq |-> r.seq, by |-> r.by, idx |-> r.idx,
     status |-> IF complete THEN "completed" ELSE r.status]
ProgressedResets(r, idx, complete) ==
    [lead |-> r.lead, seq |-> r.seq, by |-> r.by,
     idx |-> IF complete THEN 0 ELSE idx,
     status |-> IF complete THEN "completed" ELSE r.status]
IncrementedWhole(u, c) ==
    [row |-> TRUE, sent |-> [u.sent EXCEPT ![c] = @ + 1]]

(* The commit writes the columns the transaction has assigned: the index,  *)
(* and the status only when the enrollment is complete.                    *)
Progressed(r, idx, complete) ==
    [lead |-> r.lead, seq |-> r.seq, by |-> r.by, idx |-> idx,
     status |-> IF complete THEN "completed" ELSE r.status]

(* It counts from the row that was read, and writes that one column.       *)
Incremented(u, c) ==
    [row |-> TRUE, sent |-> [usage.sent EXCEPT ![c] = u.sent[c] + 1]]

(* Worker w has delivered over c, and the commit that counts it is to come.*)
Uncounted(w, c) == /\ worker[w].pc \in {"usage", "publish", "commit"}
                   /\ ~Past(w) /\ Over(w) = c

CommitStep(w) ==
    LET t == worker[w]
        e == Target(w)
    IN
    /\ t.pc = "commit"
    /\ enrollments[e].status # "gone"
    /\ enrollments' = [enrollments EXCEPT ![e] =
           IF Past(w) THEN Progressed(@, @.idx, TRUE)
           ELSE Progressed(@, t.idx + 1, IsLast(w))]
    /\ recorded' = IF Past(w) THEN recorded
                   ELSE [recorded EXCEPT ![e][StepOf(w)] = @ + 1]
    /\ IF ~Past(w) /\ Counts(w)
       THEN /\ usage' = Incremented(t.usage, Over(w))
            /\ sends' = IF \E v \in Workers \ {w} : Uncounted(v, Over(w))
                        THEN [sends EXCEPT ![Over(w)].overlaps = @ + 1]
                        ELSE sends
       ELSE UNCHANGED <<usage, sends>>
    /\ Set(w, Ack(t.job))
    /\ UNCHANGED <<leads, sequences, steps, jobs, unsent, ran, orphans, edited,
                   mishaps>>

(* The enrollment was deleted meanwhile: its UPDATE matches no row.        *)
CommitStale(w) ==
    /\ worker[w].pc = "commit"
    /\ enrollments[Target(w)].status = "gone"
    /\ Raise(w)

-----------------------------------------------------------------------------
WorkerStep(w) ==
    \/ Acknowledge(w)
    \/ StartTrigger(w) \/ EnrollOne(w) \/ EnrollRejected(w) \/ CommitTrigger(w)
    \/ StartStep(w) \/ RunStep(w) \/ StageUsage(w) \/ UsageConflict(w)
    \/ PublishNext(w) \/ CommitStep(w) \/ CommitStale(w)

ApiStep ==
    \/ \E l \in Leads, s \in Seqs : EnrollCommit(l, s)
    \/ EnrollPublish \/ EnrollDies
    \/ \E l \in Leads : PublishTrigger(l) \/ DeleteLead(l)
    \/ \E s \in Seqs : DeleteSequence(s) \/ EditSteps(s)
    \/ \E j \in JobIds : Replay(j)

Next ==
    \/ ApiStep
    \/ \E w \in Workers : WorkerStep(w) \/ HandlerFails(w) \/ Crash(w)

Spec == Init /\ [][Next]_vars

(* The worker loop runs for ever, and a request that has committed goes on *)
(* to publish.  Nobody has to call the API.                                *)
FairSpec ==
    /\ Spec
    /\ \A w \in Workers : WF_vars(WorkerStep(w))
    /\ WF_vars(EnrollPublish)

-----------------------------------------------------------------------------
Statuses == {"pending", "active", "completed", "gone"}
Counters == [Steps -> Nat]
Usage    == [row : BOOLEAN, sent : [Channels -> Nat]]
Sends    == [called : Nat, skipped : Nat, overlaps : Nat]

JobStates == {"queued", "dead", "deleted", "replayed"}

Enrollment == [lead : Leads, seq : Seqs, by : {"api", "event"},
               status : Statuses, idx : Nat]
StepJob    == [event : {"step"}, target : Rows, receives : Nat,
               state : JobStates]
TriggerJob == [event : {"trigger"}, target : Leads, receives : Nat,
               state : JobStates]

StepRecord    == [pc : {"run", "usage", "publish", "commit"}, job : JobIds,
                  idx : Nat, list : Seq(Steps), usage : Usage]
TriggerRecord == [pc : {"enroll"}, job : JobIds, todo : SUBSET Seqs,
                  made : SUBSET Rows]
AckRecord     == [pc : {"ack"}, job : JobIds]

(* The types.  Jobs refer to rows that exist, a worker to a job of the     *)
(* kind it handles, and a step that is executed is one of the list read.   *)
TypeOK ==
    /\ leads \subseteq Leads /\ sequences \subseteq Seqs
    /\ edited \subseteq Seqs
    /\ steps \in [Seqs -> Seq(Steps)]
    /\ enrollments \in Seq(Enrollment)
    /\ ran \in Seq(Counters) /\ recorded \in Seq(Counters)
    /\ Len(ran) = Len(enrollments) /\ Len(recorded) = Len(enrollments)
    /\ usage \in Usage
    /\ jobs \in Seq(StepJob \cup TriggerJob)
    /\ worker \in [Workers ->
                    {Idle} \cup AckRecord \cup StepRecord \cup TriggerRecord]
    /\ \A w \in Workers :
           /\ worker[w] \in StepRecord => jobs[worker[w].job] \in StepJob
           /\ worker[w] \in TriggerRecord =>
                  jobs[worker[w].job] \in TriggerJob
           /\ worker[w].pc \in {"run", "usage", "publish"} => ~Past(w)
    /\ unsent \subseteq Rows /\ orphans \subseteq Rows
    /\ sends \in [Channels -> Sends] /\ mishaps \in Nat

Active(e) == enrollments[e].status = "active"
List(e)   == steps[enrollments[e].seq]

(* No step is skipped: an enrollment whose sequence nobody edits has a     *)
(* timeline event of every step before its index, and of every step once   *)
(* it is completed; with any number of workers, redeliveries and failures. *)
NoStepSkipped ==
    \A e \in Rows : enrollments[e].seq \notin edited =>
        \A k \in 1..Len(List(e)) :
            (k <= enrollments[e].idx \/ enrollments[e].status = "completed")
                => recorded[e][List(e)[k]] > 0

(* An active enrollment is not forgotten: a job for it is on the queue or  *)
(* in failed_jobs, or the API is about to publish it.  The exceptions are  *)
(* the orphans: the API call died between commit and publish, or a second  *)
(* worker received the first job before the trigger handler's commit, saw  *)
(* no enrollment and deleted the job.                                      *)
ActiveHasJob ==
    \A e \in Rows : Active(e) =>
        \/ e \in unsent \cup orphans
        \/ \E j \in JobIds : /\ jobs[j].event = "step" /\ jobs[j].target = e
                            /\ jobs[j].state \in {"queued", "dead"}

(* A lifecycle event enrolls a lead into a sequence once, and once more    *)
(* per replay or mishap of its job: nothing else re-enrolls (the handler   *)
(* has no check of its own for an enrollment that exists).                 *)
EnrolledOncePerEvent ==
    \A l \in Leads, s \in Seqs :
        Cardinality({e \in Rows : /\ enrollments[e].lead = l
                                  /\ enrollments[e].seq = s
                                  /\ enrollments[e].by = "event"})
        <= Cardinality({j \in JobIds : /\ jobs[j].event = "trigger"
                                       /\ jobs[j].target = l}) + mishaps

(* usage_records counts the deliveries of each channel: nothing is counted *)
(* twice or untried, and what is missing besides the ones under way is at  *)
(* most one for each mishap, which rolled back a transaction after its     *)
(* delivery, and for each commit while another delivery over the channel   *)
(* was under way, whose transaction had read the row before it.  A         *)
(* delivery that was skipped, with no provider set up, counts like a call. *)
UsageMatchesCalls ==
    \A c \in Channels :
        LET tried   == sends[c].called + sends[c].skipped
            running == Cardinality({w \in Workers : Uncounted(w, c)})
        IN  /\ usage.sent[c] + running <= tried
            /\ tried <= usage.sent[c] + running + mishaps + sends[c].overlaps

-----------------------------------------------------------------------------
(* With the one worker process of docker-compose.yml:                      *)

(* every step runs once, and once more for each mishap;                    *)
StepsRunOnce ==
    \A e \in Rows : enrollments[e].seq \notin edited =>
        \A st \in Steps : ran[e][st] <= 1 + mishaps

(* the index of an enrollment never goes back;                             *)
NoRegress ==
    [][\A e \in Rows : enrollments'[e].idx >= enrollments[e].idx]_vars

(* When the API is quiet, every enrollment ends: it is completed or        *)
(* deleted, it waits in failed_jobs for an admin, or its first job was     *)
(* lost by a call that died.                                               *)
Parked(e) ==
    \E j \in JobIds : /\ jobs[j].event = "step" /\ jobs[j].target = e
                      /\ jobs[j].state = "dead"

EnrollmentsFinish ==
    <>[](\A e \in Rows : Active(e) => e \in orphans \/ Parked(e))
=============================================================================
