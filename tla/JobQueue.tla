------------------------------ MODULE JobQueue ------------------------------
(***************************************************************************)
(* The background job path: SQSPublisher.publish (app/queue/sqs.py), the   *)
(* SQS queues it feeds, the worker's polling loop (app/workers/main.py),   *)
(* the failed_jobs table the worker fills and the admin endpoint that      *)
(* replays its rows (app/api/admin.py).  What a handler does is left open: *)
(* it returns or it raises.                                                *)
(***************************************************************************)
EXTENDS Naturals, Sequences, FiniteSets

CONSTANTS
    Workers,      \* worker processes (app.workers.main)
    Admins,       \* concurrent calls of the replay endpoint
    Jobs,         \* the publishes of the API and of the handlers
    Queues,       \* logical queue names: "ai_jobs", "routing_jobs", ...
    QueueUrls,    \* the configured queues in the order main() polls them
    QueueOf,      \* the logical queue a job is published to
    UrlName,      \* the last path segment of a logical queue's URL
    Unhandled,    \* jobs whose event has no entry in the handler table
    Malformed,    \* jobs put on a queue by hand whose body does not decode
    MaxRetries,   \* _MAX_RETRIES
    MaxBatch,     \* MaxNumberOfMessages of receive_message
    MaxMessages,  \* bound: messages ever sent
    MaxReceives,  \* bound: deliveries of one message
    MaxFaults     \* bound: crashes, failed calls and early timeouts

Configured == {QueueUrls[i] : i \in 1..Len(QueueUrls)}

ASSUME ConstantsOK ==
    /\ QueueUrls \in Seq(Queues) /\ Len(QueueUrls) >= 1
    /\ QueueOf \in [Jobs -> Queues]
    /\ DOMAIN UrlName = Queues
    /\ Unhandled \subseteq Jobs /\ Malformed \subseteq Jobs
    /\ MaxRetries \in Nat \ {0} /\ MaxBatch \in Nat \ {0}
    /\ MaxMessages \in Nat /\ MaxReceives \in Nat /\ MaxFaults \in Nat

VARIABLES
    messages,     \* every message ever sent, in order: [job, queue, rc, state]
    worker,       \* per worker: [pc, cursor, batch, cur]
    failedJobs,   \* rows of failed_jobs: [msg, attempts, status]
    replay,       \* per admin call: the row published and not yet committed
    latest,       \* history: index of the newest message of a job, 0 if none
    completions,  \* history: how often the handler of a job has returned
    faults        \* history: environment faults and abandoned batches so far

vars == <<messages, worker, failedJobs, replay, latest, completions, faults>>

-----------------------------------------------------------------------------
(* A delivery is what receive_message hands out: a message and a receipt   *)
(* handle, identified by the receive count it was handed out with.         *)
NoDelivery == [msg |-> 0, receipt |-> 0]
NoRow      == [msg |-> 0, attempts |-> 0]

Live(i)    == messages[i].state # "deleted"
Sent       == 1..Len(messages)
JobOf(d)   == messages[d.msg].job
Stale(d)   == messages[d.msg].rc # d.receipt
Held(i)    == \E w \in Workers : \E d \in worker[w].batch :
                  d.msg = i /\ ~Stale(d)

(* Mutants of NextCursor: no wrap-around; every round polls one queue.     *)
NextCursorNoWrap(c) == c + 1
NextCursorFirst(c)  == 1

(* main() visits its queues round robin; the sleep between rounds is       *)
(* stuttering.                                                             *)
NextCursor(c) == IF c = Len(QueueUrls) THEN 1 ELSE c + 1

Polling(c)   == [pc |-> "poll", cursor |-> c, batch |-> {}, cur |-> NoDelivery]

(* The worker is at pc with this batch and delivery d in hand.             *)
At(w, pc, batch, d) ==
    worker' = [worker EXCEPT ![w] =
        [pc |-> pc, cursor |-> worker[w].cursor, batch |-> batch, cur |-> d]]

Goto(w, pc, d) == At(w, pc, worker[w].batch, d)

(* poll_queue ends: the rest of the batch, if any, is forgotten.           *)
NextQueue(w) ==
    worker' = [worker EXCEPT ![w] = Polling(NextCursor(worker[w].cursor))]

(* poll_queue goes on with the next message of the batch, or returns.      *)
Continue(w, d) ==
    LET rest == worker[w].batch \ {d} IN
    IF rest = {} THEN NextQueue(w) ELSE At(w, "next", rest, NoDelivery)

Fault == faults < MaxFaults /\ faults' = faults + 1

Send(j, q) ==
    /\ Len(messages) < MaxMessages
    /\ messages' = Append(messages,
                     [job |-> j, queue |-> q, rc |-> 0, state |-> "visible"])
    /\ latest' = [latest EXCEPT ![j] = Len(messages) + 1]

-----------------------------------------------------------------------------
Init ==
    /\ messages = <<>>
    /\ worker = [w \in Workers |-> Polling(1)]
    /\ failedJobs = {}
    /\ replay = [a \in Admins |-> NoRow]
    /\ latest = [j \in Jobs |-> 0]
    /\ completions = [j \in Jobs |-> 0]
    /\ faults = 0

(* SQSPublisher.publish: a job whose queue has no URL is skipped, which    *)
(* changes nothing.                                                        *)
Publish(j) ==
    /\ latest[j] = 0
    /\ QueueOf[j] \in Configured
    /\ Send(j, QueueOf[j])
    /\ UNCHANGED <<worker, failedJobs, replay, completions, faults>>

(* receive_message of poll_queue: up to MaxBatch visible messages of the   *)
(* queue under the cursor, in any order.                                   *)
Receivable(w) ==
    {i \in Sent : /\ messages[i].state = "visible"
                  /\ messages[i].queue = QueueUrls[worker[w].cursor]
                  /\ messages[i].rc < MaxReceives}

Received(m) == [job |-> m.job, queue |-> m.queue,
                rc |-> m.rc + 1, state |-> "inflight"]

Receive(w) ==
    /\ worker[w].pc = "poll"
    /\ \E B \in SUBSET Receivable(w) :
        /\ B # {} /\ Cardinality(B) <= MaxBatch
        /\ messages' = [i \in Sent |->
               IF i \in B THEN Received(messages[i]) ELSE messages[i]]
        /\ At(w, "next",
              {[msg |-> i, receipt |-> messages[i].rc + 1] : i \in B},
              NoDelivery)
    /\ UNCHANGED <<failedJobs, replay, latest, completions, faults>>

EmptyReceive(w) ==
    /\ worker[w].pc = "poll"
    /\ Receivable(w) = {}
    /\ NextQueue(w)
    /\ UNCHANGED <<messages, failedJobs, replay, latest, completions, faults>>

ReceiveFails(w) ==
    /\ worker[w].pc = "poll"
    /\ Fault
    /\ NextQueue(w)
    /\ UNCHANGED <<messages, failedJobs, replay, latest, completions>>

-----------------------------------------------------------------------------
(* The body of poll_queue's loop for one delivery d of the batch.          *)

(* json.loads is outside the try block: the exception ends poll_queue.     *)
DecodeFails(w) ==
    /\ worker[w].pc = "next"
    /\ \E d \in worker[w].batch : JobOf(d) \in Malformed
    /\ NextQueue(w)
    /\ faults' = faults + 1
    /\ UNCHANGED <<messages, failedJobs, replay, latest, completions>>

NoHandler(w) ==
    /\ worker[w].pc = "next"
    /\ \E d \in worker[w].batch :
        /\ JobOf(d) \in Unhandled \ Malformed
        /\ Goto(w, "delete", d)
    /\ UNCHANGED <<messages, failedJobs, replay, latest, completions, faults>>

(* Mutant: delete_message is missing after the handler.                    *)
HandlerReturnsNoDelete(w) ==
    /\ worker[w].pc = "next"
    /\ \E d \in worker[w].batch :
        /\ JobOf(d) \notin Malformed \cup Unhandled
        /\ completions' = [completions EXCEPT ![JobOf(d)] = @ + 1]
        /\ Continue(w, d)
    /\ UNCHANGED <<messages, failedJobs, replay, latest, faults>>

(* The handler returns: poll_queue falls through to delete_message.        *)
HandlerReturns(w) ==
    /\ worker[w].pc = "next"
    /\ \E d \in worker[w].batch :
        /\ JobOf(d) \notin Malformed \cup Unhandled
        /\ completions' = [completions EXCEPT ![JobOf(d)] = @ + 1]
        /\ Goto(w, "delete", d)
    /\ UNCHANGED <<messages, failedJobs, replay, latest, faults>>

(* An exception of the handler is retried by SQS, the message being left   *)
(* where it is, up to the delivery number max, which leads to pc.          *)
Raises(w, max, pc) ==
    /\ worker[w].pc = "next"
    /\ \E d \in worker[w].batch :
        /\ JobOf(d) \notin Malformed \cup Unhandled
        /\ IF d.receipt >= max THEN Goto(w, pc, d) ELSE Continue(w, d)
    /\ UNCHANGED <<messages, failedJobs, replay, latest, completions, faults>>

(* Mutants: one retry too many; no dead letter; deleted without a row.     *)
HandlerRaisesOneMore(w)  == Raises(w, MaxRetries + 1, "save")
HandlerRaisesForever(w)  == Raises(w, MaxReceives + 1, "save")
HandlerRaisesDiscards(w) == Raises(w, MaxRetries, "delete")

HandlerRaises(w) == Raises(w, MaxRetries, "save")

(* Mutant: the message stays on the queue after _save_failed_job.          *)
SaveFailedJobKeeps(w) ==
    /\ worker[w].pc = "save"
    /\ failedJobs' = failedJobs \cup
           {[msg |-> worker[w].cur.msg, attempts |-> worker[w].cur.receipt,
             status |-> "pending"]}
    /\ Continue(w, worker[w].cur)
    /\ UNCHANGED <<messages, replay, latest, completions, faults>>

(* _save_failed_job; payload and queue_name are those of row.msg.          *)
SaveFailedJob(w) ==
    /\ worker[w].pc = "save"
    /\ failedJobs' = failedJobs \cup
           {[msg |-> worker[w].cur.msg, attempts |-> worker[w].cur.receipt,
             status |-> "pending"]}
    /\ Goto(w, "delete", worker[w].cur)
    /\ UNCHANGED <<messages, replay, latest, completions, faults>>

SaveFails(w) ==
    /\ worker[w].pc = "save"
    /\ Fault
    /\ NextQueue(w)
    /\ UNCHANGED <<messages, failedJobs, replay, latest, completions>>

(* delete_message.  With a receipt older than the message's last delivery  *)
(* SQS accepts the call and may or may not delete.                         *)
DeleteMessage(w) ==
    LET d == worker[w].cur IN
    /\ worker[w].pc = "delete"
    /\ \/ messages' = [messages EXCEPT ![d.msg].state = "deleted"]
       \/ Stale(d) /\ UNCHANGED messages
    /\ Continue(w, d)
    /\ UNCHANGED <<failedJobs, replay, latest, completions, faults>>

DeleteFails(w) ==
    /\ worker[w].pc = "delete"
    /\ Fault
    /\ NextQueue(w)
    /\ UNCHANGED <<messages, failedJobs, replay, latest, completions>>

(* The process dies with a batch in hand and is restarted by its           *)
(* supervisor: main() starts again with the first queue.                   *)
Crash(w) ==
    /\ worker[w].batch # {}
    /\ Fault
    /\ worker' = [worker EXCEPT ![w] = Polling(1)]
    /\ UNCHANGED <<messages, failedJobs, replay, latest, completions>>

-----------------------------------------------------------------------------
(* SQS makes an undeleted message visible again.  While a worker still     *)
(* works on it (handler slower than the visibility timeout) that is a      *)
(* fault; otherwise it is the redelivery the worker counts on.             *)
Redeliver(i) ==
    /\ messages[i].state = "inflight"
    /\ ~Held(i)
    /\ messages' = [messages EXCEPT ![i].state = "visible"]
    /\ UNCHANGED <<worker, failedJobs, replay, latest, completions, faults>>

EarlyTimeout(i) ==
    /\ messages[i].state = "inflight"
    /\ Held(i)
    /\ Fault
    /\ messages' = [messages EXCEPT ![i].state = "visible"]
    /\ UNCHANGED <<worker, failedJobs, replay, latest, completions>>

-----------------------------------------------------------------------------
(* Mutant: the row is marked without being sent.                           *)
ReplayPublishNoSend(a) ==
    /\ replay[a] = NoRow
    /\ \E r \in failedJobs :
        replay' = [replay EXCEPT ![a] =
                         [msg |-> r.msg, attempts |-> r.attempts]]
    /\ UNCHANGED <<messages, worker, failedJobs, latest, completions, faults>>

(* replay_dlq_job: the row's status is not looked at, the publisher        *)
(* resolves the stored name as a logical name and its result is ignored.   *)
ReplayPublish(a) ==
    /\ replay[a] = NoRow
    /\ \E r \in failedJobs :
        LET name == UrlName[messages[r.msg].queue] IN
        /\ replay' = [replay EXCEPT ![a] =
                         [msg |-> r.msg, attempts |-> r.attempts]]
        /\ IF name \in Configured THEN Send(messages[r.msg].job, name)
                                  ELSE UNCHANGED <<messages, latest>>
    /\ UNCHANGED <<worker, failedJobs, completions, faults>>

Rows(a) == {r \in failedJobs : /\ r.msg = replay[a].msg
                               /\ r.attempts = replay[a].attempts}

ReplayCommit(a) ==
    /\ replay[a] # NoRow
    /\ failedJobs' = (failedJobs \ Rows(a)) \cup
                     {[r EXCEPT !.status = "replayed"] : r \in Rows(a)}
    /\ replay' = [replay EXCEPT ![a] = NoRow]
    /\ UNCHANGED <<messages, worker, latest, completions, faults>>

(* The call dies between send_message and the commit.                      *)
ReplayAborts(a) ==
    /\ replay[a] # NoRow
    /\ Fault
    /\ replay' = [replay EXCEPT ![a] = NoRow]
    /\ UNCHANGED <<messages, worker, failedJobs, latest, completions>>

-----------------------------------------------------------------------------
WorkerStep(w) ==
    \/ Receive(w) \/ EmptyReceive(w)
    \/ DecodeFails(w) \/ NoHandler(w) \/ HandlerReturns(w) \/ HandlerRaises(w)
    \/ SaveFailedJob(w) \/ DeleteMessage(w)

WorkerFault(w) ==
    ReceiveFails(w) \/ SaveFails(w) \/ DeleteFails(w) \/ Crash(w)

Next ==
    \/ \E j \in Jobs : Publish(j)
    \/ \E w \in Workers : WorkerStep(w) \/ WorkerFault(w)
    \/ \E i \in Sent : Redeliver(i) \/ EarlyTimeout(i)
    \/ \E a \in Admins : ReplayPublish(a) \/ ReplayCommit(a) \/ ReplayAborts(a)

Spec == Init /\ [][Next]_vars

(* The worker loop never stops by itself and SQS ends every visibility     *)
(* timeout.  Nobody has to publish or to replay.                           *)
RedeliverSent(i) == i \in Sent /\ Redeliver(i)

FairSpec ==
    /\ Spec
    /\ \A w \in Workers : WF_vars(WorkerStep(w))
    /\ \A i \in 1..MaxMessages : WF_vars(RedeliverSent(i))

-----------------------------------------------------------------------------
Message == [job : Jobs, queue : Queues, rc : Nat,
            state : {"visible", "inflight", "deleted"}]

Delivery(n) == [msg : 1..n, receipt : Nat]
WorkerRecord(n) ==
    [pc     : {"poll", "next", "save", "delete"},
     cursor : 1..Len(QueueUrls),
     batch  : SUBSET Delivery(n),
     cur    : Delivery(n) \cup {NoDelivery}]

(* The types.  Batches, rows and replays refer to messages that were sent, *)
(* and the delivery a worker saves or deletes is one of its batch.         *)
TypeOK ==
    /\ messages \in Seq(Message)
    /\ worker \in [Workers -> WorkerRecord(Len(messages))]
    /\ \A w \in Workers : worker[w].pc \in {"save", "delete"} =>
           worker[w].cur \in worker[w].batch
    /\ failedJobs \subseteq [msg : Sent, attempts : Nat,
                             status : {"pending", "replayed"}]
    /\ replay \in [Admins -> [msg : Sent, attempts : Nat] \cup {NoRow}]
    /\ latest \in [Jobs -> 0..Len(messages)]
    /\ completions \in [Jobs -> Nat]
    /\ faults \in Nat

Published == {j \in Jobs : latest[j] > 0}
Queued(j)  == \E i \in Sent : messages[i].job = j /\ Live(i)
Pending(j) == \E r \in failedJobs :
                  messages[r.msg].job = j /\ r.status = "pending"

(* A job accepted by SQS is never lost: its handler has returned, or a     *)
(* message carries it, or a failed_jobs row the admin can list holds it.   *)
(* (delete_message only after the handler or _save_failed_job; replay sends *)
(* before it marks the row.)  Jobs without a handler are discarded by      *)
(* poll_queue on purpose.                                                  *)
NoJobLost ==
    \A j \in Published \ Unhandled :
        completions[j] > 0 \/ Queued(j) \/ Pending(j)

(* A message is delivered at most _MAX_RETRIES times, and once more for    *)
(* each fault or abandoned batch: every other delivery ends in a deletion. *)
ReceivesBounded ==
    \A i \in Sent : messages[i].rc <= MaxRetries + faults

(* The handler of a job returns at most once per message sent for it, and  *)
(* once more for each fault: only a failed or stale delete_message, a      *)
(* crash or an early timeout makes poll_queue run a finished job again.    *)
DuplicatesAccounted ==
    \A j \in Jobs : completions[j] <=
        Cardinality({i \in Sent : messages[i].job = j}) + faults

(* Without faults a message with a failed_jobs row is off its queue, or    *)
(* the worker that wrote the row is about to delete it: a job the admin    *)
(* sees in the dead-letter list is not retried behind the admin's back.    *)
DeadOrQueued ==
    faults = 0 =>
        \A r \in failedJobs : Live(r.msg) =>
            \E w \in Workers : /\ worker[w].pc = "delete"
                               /\ worker[w].cur.msg = r.msg
                               /\ ~Stale(worker[w].cur)

(* With finitely many publishes, replays and faults every message is       *)
(* deleted in the end: the retry counter of poll_queue cannot loop.        *)
QueueDrains == <>[](\A i \in Sent : ~Live(i))

-----------------------------------------------------------------------------
(* What a job sees of all this, as JobContract specifies it.               *)
StatusOf(j) ==
    CASE latest[j] = 0                       -> "new"
      [] latest[j] > 0 /\ completions[j] > 0 -> "settled"
      [] latest[j] > 0 /\ completions[j] = 0 /\ Queued(j) -> "queued"
      [] latest[j] > 0 /\ completions[j] = 0 /\ ~Queued(j) /\ Pending(j)
             -> "dead"
      [] OTHER -> IF j \in Unhandled THEN "settled" ELSE "lost"

Contract == INSTANCE JobContract WITH status <- [j \in Jobs |-> StatusOf(j)]

(* The job path implements the contract: see JobContract.                  *)
ImplementsContract == Contract!Spec

(* ... with its fairness: a queued job is eventually served.               *)
ImplementsFairContract == Contract!FairSpec
=============================================================================
