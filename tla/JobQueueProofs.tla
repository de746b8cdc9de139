--------------------------- MODULE JobQueueProofs ---------------------------
(***************************************************************************)
(* Proofs about JobQueue for any number of workers, admins, jobs, queues   *)
(* and messages: its types, and that no accepted job is lost as long as    *)
(* the queue URLs end in the queues' logical names.                        *)
(***************************************************************************)
EXTENDS JobQueue, SequenceTheorems, TLAPS

-----------------------------------------------------------------------------
(* Messages.                                                               *)

LEMMA SameInterval ==
    ASSUME NEW a \in Nat, NEW b \in Nat, 1..a = 1..b
    PROVE  a = b
<1>1. a # 0 => a \in 1..b
    OBVIOUS
<1>2. b # 0 => b \in 1..a
    OBVIOUS
<1>. QED  BY <1>1, <1>2

LEMMA SeqFacts ==
    ASSUME TypeOK
    PROVE  /\ Len(messages) \in Nat
           /\ \A i \in Sent : messages[i] \in Message
BY LenProperties, ElementOfSeq DEF TypeOK, Sent

(* Send appends one typed message and leaves the others alone.             *)
LEMMA SendFacts ==
    ASSUME TypeOK, NEW j \in Jobs, NEW q \in Queues, Send(j, q)
    PROVE  /\ messages' \in Seq(Message)
           /\ Len(messages') = Len(messages) + 1
           /\ \A i \in Sent : messages'[i] = messages[i]
           /\ messages'[Len(messages) + 1].job = j
           /\ messages'[Len(messages) + 1].queue = q
           /\ messages'[Len(messages) + 1].state = "visible"
           /\ messages'[Len(messages) + 1].rc = 0
           /\ latest' = [latest EXCEPT ![j] = Len(messages) + 1]
<1> DEFINE m == [job |-> j, queue |-> q, rc |-> 0, state |-> "visible"]
<1>1. m \in Message /\ messages \in Seq(Message)
    BY DEF Message, TypeOK
<1>2. messages' = Append(messages, m)
    BY DEF Send
<1>. HIDE DEF m
<1>3. /\ Append(messages, m) \in Seq(Message)
      /\ Len(Append(messages, m)) = Len(messages) + 1
      /\ \A i \in 1..Len(messages) : Append(messages, m)[i] = messages[i]
      /\ Append(messages, m)[Len(messages) + 1] = m
    BY <1>1, AppendProperties
<1>4. m.job = j /\ m.queue = q /\ m.state = "visible" /\ m.rc = 0
    BY DEF m
<1>. QED  BY <1>2, <1>3, <1>4 DEF Send, Sent

(* Changing the state of one message keeps the sequence typed.             *)
LEMMA StateFacts ==
    ASSUME TypeOK, NEW k \in Sent, NEW st \in {"visible", "inflight", "deleted"},
           messages' = [messages EXCEPT ![k].state = st]
    PROVE  /\ messages' \in Seq(Message)
           /\ Len(messages') = Len(messages)
           /\ \A i \in Sent : /\ messages'[i].job = messages[i].job
                              /\ messages'[i].queue = messages[i].queue
                              /\ messages'[i].rc = messages[i].rc
                              /\ i # k => messages'[i] = messages[i]
           /\ messages'[k].state = st
<1> DEFINE e == [messages[k] EXCEPT !.state = st]
<1>1. messages \in Seq(Message) /\ messages[k] \in Message
    BY SeqFacts DEF TypeOK
<1>2. /\ e \in Message /\ e.state = st
      /\ e.job = messages[k].job /\ e.queue = messages[k].queue
      /\ e.rc = messages[k].rc
    BY <1>1 DEF Message
<1>3. messages' = [messages EXCEPT ![k] = e]
    OBVIOUS
<1>. HIDE DEF e
<1>4. /\ messages' \in Seq(Message)
      /\ Len(messages') = Len(messages)
      /\ \A i \in 1..Len(messages) :
             messages'[i] = IF i = k THEN e ELSE messages[i]
    BY <1>1, <1>2, <1>3, ExceptSeq DEF Sent
<1>. QED  BY <1>2, <1>4 DEF Sent

(* receive_message changes receive counts and states only.                 *)
LEMMA ReceiveFacts ==
    ASSUME TypeOK, NEW B \in SUBSET Sent,
           messages' = [i \in Sent |->
               IF i \in B THEN Received(messages[i]) ELSE messages[i]]
    PROVE  /\ messages' \in Seq(Message)
           /\ Len(messages') = Len(messages)
           /\ \A i \in Sent : /\ messages'[i].job = messages[i].job
                              /\ messages'[i].queue = messages[i].queue
           /\ \A i \in Sent \ B : messages'[i] = messages[i]
           /\ \A i \in B : /\ messages'[i].state = "inflight"
                           /\ messages'[i].rc = messages[i].rc + 1
<1>1. Len(messages) \in Nat /\ \A i \in Sent : messages[i] \in Message
    BY SeqFacts
<1>2. ASSUME NEW i \in Sent
      PROVE  /\ messages'[i] \in Message
             /\ messages'[i].job = messages[i].job
             /\ messages'[i].queue = messages[i].queue
             /\ i \notin B => messages'[i] = messages[i]
             /\ i \in B => /\ messages'[i].state = "inflight"
                           /\ messages'[i].rc = messages[i].rc + 1
    <2>1. messages[i] \in Message
        BY <1>1
    <2>2. CASE i \in B
        <3>1. messages'[i] = Received(messages[i])
            BY <2>2
        <3>. QED  BY <2>1, <2>2, <3>1 DEF Message, Received
    <2>3. CASE i \notin B
        BY <2>1, <2>3
    <2>. QED  BY <2>2, <2>3
<1>3. messages' \in [1..Len(messages) -> Message]
    BY <1>2 DEF Sent
<1>4. messages' \in Seq(Message)
    BY <1>1, <1>3, SeqDef
<1>5. Len(messages') = Len(messages)
    <2>1. DOMAIN messages' = 1..Len(messages) /\ DOMAIN messages' = 1..Len(messages')
        BY <1>3, <1>4, LenProperties
    <2>2. Len(messages') \in Nat
        BY <1>4, LenProperties
    <2>. QED  BY <1>1, <2>1, <2>2, SameInterval
<1>. QED  BY <1>2, <1>4, <1>5

-----------------------------------------------------------------------------
(* The worker's helpers keep a worker record typed.                        *)

WorkersOK ==
    /\ worker \in [Workers -> WorkerRecord(Len(messages))]
    /\ \A w \in Workers : worker[w].pc \in {"save", "delete"} =>
           worker[w].cur \in worker[w].batch

LEMMA NextCursorType ==
    ASSUME NEW c \in 1..Len(QueueUrls)
    PROVE  NextCursor(c) \in 1..Len(QueueUrls)
<1>1. Len(QueueUrls) \in Nat
    BY ConstantsOK, LenProperties DEF ConstantsOK
<1>. QED  BY <1>1 DEF NextCursor

LEMMA PollingType ==
    ASSUME NEW c \in 1..Len(QueueUrls), NEW n
    PROVE  Polling(c) \in WorkerRecord(n) /\ Polling(c).pc = "poll"
BY DEF Polling, WorkerRecord

LEMMA NextQueueType ==
    ASSUME WorkersOK, NEW w \in Workers, NextQueue(w),
           Len(messages') = Len(messages)
    PROVE  WorkersOK'
<1>1. worker[w].cursor \in 1..Len(QueueUrls)
    BY DEF WorkersOK, WorkerRecord
<1>. QED
    BY <1>1, NextCursorType, PollingType DEF WorkersOK, NextQueue

LEMMA AtType ==
    ASSUME WorkersOK, NEW w \in Workers, NEW pc \in {"next", "save", "delete"},
           NEW batch \in SUBSET Delivery(Len(messages)),
           NEW d \in Delivery(Len(messages)) \cup {NoDelivery},
           pc # "next" => d \in batch,
           At(w, pc, batch, d), Len(messages') = Len(messages)
    PROVE  WorkersOK'
<1> DEFINE r == [pc |-> pc, cursor |-> worker[w].cursor,
                 batch |-> batch, cur |-> d]
<1>1. /\ r \in WorkerRecord(Len(messages))
      /\ r.pc \in {"save", "delete"} => r.cur \in r.batch
    BY DEF WorkersOK, WorkerRecord
<1>2. worker' = [worker EXCEPT ![w] = r]
    BY DEF At
<1>. HIDE DEF r
<1>. QED  BY <1>1, <1>2 DEF WorkersOK

LEMMA GotoType ==
    ASSUME WorkersOK, NEW w \in Workers, NEW d \in worker[w].batch,
           NEW pc \in {"save", "delete"}, Goto(w, pc, d),
           Len(messages') = Len(messages)
    PROVE  WorkersOK'
<1>1. worker[w].batch \in SUBSET Delivery(Len(messages))
    BY DEF WorkersOK, WorkerRecord
<1>. QED  BY <1>1, AtType DEF Goto

LEMMA ContinueType ==
    ASSUME WorkersOK, NEW w \in Workers, NEW d, Continue(w, d),
           Len(messages') = Len(messages)
    PROVE  WorkersOK'
<1> DEFINE rest == worker[w].batch \ {d}
<1>1. rest \in SUBSET Delivery(Len(messages))
    BY DEF WorkersOK, WorkerRecord
<1>2. CASE rest = {}
    BY <1>2, NextQueueType DEF Continue
<1>3. CASE rest # {}
    BY <1>1, <1>3, AtType DEF Continue
<1>. QED  BY <1>2, <1>3

(* Sending a message only widens what a worker may refer to.               *)
LEMMA WiderType ==
    ASSUME TypeOK, UNCHANGED worker, Len(messages') = Len(messages) + 1
    PROVE  WorkersOK'
<1>1. Len(messages) \in Nat
    BY SeqFacts
<1>2. Delivery(Len(messages)) \subseteq Delivery(Len(messages'))
    BY <1>1 DEF Delivery
<1>3. WorkerRecord(Len(messages)) \subseteq WorkerRecord(Len(messages'))
    BY <1>2 DEF WorkerRecord
<1>4. worker \in [Workers -> WorkerRecord(Len(messages'))]
    BY <1>3 DEF TypeOK
<1>. QED  BY <1>4 DEF TypeOK, WorkersOK

TablesOK ==
    /\ failedJobs \subseteq [msg : Sent, attempts : Nat,
                             status : {"pending", "replayed"}]
    /\ replay \in [Admins -> [msg : Sent, attempts : Nat] \cup {NoRow}]
    /\ latest \in [Jobs -> 0..Len(messages)]
    /\ completions \in [Jobs -> Nat]
    /\ faults \in Nat

LEMMA TypeParts == TypeOK <=> messages \in Seq(Message) /\ WorkersOK /\ TablesOK
BY DEF TypeOK, WorkersOK, TablesOK

(* Steps that leave the number of messages and all tables alone.           *)
LEMMA SameTables ==
    ASSUME TypeOK, Len(messages') = Len(messages), faults' \in Nat,
           UNCHANGED <<failedJobs, replay, latest, completions>>
    PROVE  TablesOK'
BY DEF TypeOK, TablesOK, Sent

(* A delivery of a batch points at a message and so at a job.              *)
LEMMA BatchFacts ==
    ASSUME TypeOK, NEW w \in Workers, NEW d \in worker[w].batch
    PROVE  /\ d.msg \in Sent /\ d.receipt \in Nat
           /\ messages[d.msg] \in Message
           /\ JobOf(d) \in Jobs
<1>1. worker[w].batch \subseteq Delivery(Len(messages))
    BY DEF TypeOK, WorkerRecord
<1>2. d.msg \in Sent /\ d.receipt \in Nat
    BY <1>1 DEF Delivery, Sent
<1>. QED  BY <1>2, SeqFacts DEF JobOf, Message

-----------------------------------------------------------------------------
(* Every step preserves the types.                                         *)

LEMMA WorkerTypeStep ==
    ASSUME TypeOK, NEW w \in Workers, WorkerStep(w)
    PROVE  TypeOK'
<1>0. WorkersOK /\ messages \in Seq(Message) /\ TablesOK
    BY TypeParts
<1>1. CASE Receive(w)
    <2> DEFINE batch(B) == {[msg |-> i, receipt |-> messages[i].rc + 1] : i \in B}
    <2>1. PICK B \in SUBSET Receivable(w) :
              /\ messages' = [i \in Sent |->
                     IF i \in B THEN Received(messages[i]) ELSE messages[i]]
              /\ At(w, "next", batch(B), NoDelivery)
        BY <1>1 DEF Receive
    <2>2. B \in SUBSET Sent
        BY DEF Receivable
    <2>3. messages' \in Seq(Message) /\ Len(messages') = Len(messages)
        BY <2>1, <2>2, ReceiveFacts
    <2>4. batch(B) \in SUBSET Delivery(Len(messages))
        BY <2>2, SeqFacts DEF Delivery, Sent, Message
    <2>. HIDE DEF batch
    <2>5. WorkersOK'
        BY <1>0, <2>1, <2>3, <2>4, AtType
    <2>6. TablesOK'
        BY <1>1, <2>3, SameTables DEF Receive, TypeOK
    <2>. QED  BY <2>3, <2>5, <2>6 DEF TypeOK, WorkersOK, TablesOK
<1>2. CASE EmptyReceive(w)
    <2>1. WorkersOK' /\ TablesOK'
        BY <1>0, <1>2, NextQueueType, SameTables DEF EmptyReceive, TypeOK
    <2>. QED  BY <1>2, <2>1 DEF EmptyReceive, TypeOK, WorkersOK, TablesOK
<1>3. CASE DecodeFails(w)
    <2>1. WorkersOK' /\ TablesOK'
        BY <1>0, <1>3, NextQueueType, SameTables DEF DecodeFails, TypeOK
    <2>. QED  BY <1>3, <2>1 DEF DecodeFails, TypeOK, WorkersOK, TablesOK
<1>4. CASE NoHandler(w)
    <2>1. WorkersOK' /\ TablesOK'
        BY <1>0, <1>4, GotoType, SameTables DEF NoHandler, TypeOK
    <2>. QED  BY <1>4, <2>1 DEF NoHandler, TypeOK, WorkersOK, TablesOK
<1>5. CASE HandlerReturns(w)
    <2>1. PICK d \in worker[w].batch :
              /\ completions' = [completions EXCEPT ![JobOf(d)] = @ + 1]
              /\ Goto(w, "delete", d)
        BY <1>5 DEF HandlerReturns
    <2>2. WorkersOK'
        BY <1>0, <1>5, <2>1, GotoType DEF HandlerReturns
    <2>3. completions' \in [Jobs -> Nat]
        BY <2>1, BatchFacts DEF TypeOK
    <2>. QED  BY <1>5, <2>2, <2>3 DEF HandlerReturns, TypeOK, WorkersOK, Sent
<1>6. CASE HandlerRaises(w)
    <2>1. PICK d \in worker[w].batch : Goto(w, "save", d) \/ Continue(w, d)
        BY <1>6 DEF HandlerRaises, Raises
    <2>2. WorkersOK' /\ TablesOK'
        BY <1>0, <1>6, <2>1, GotoType, ContinueType, SameTables
        DEF HandlerRaises, Raises, TypeOK
    <2>. QED  BY <1>6, <2>2 DEF HandlerRaises, Raises, TypeOK, WorkersOK, TablesOK
<1>7. CASE SaveFailedJob(w)
    <2>1. worker[w].cur \in worker[w].batch
        BY <1>7 DEF SaveFailedJob, TypeOK
    <2>2. WorkersOK'
        BY <1>0, <1>7, <2>1, GotoType DEF SaveFailedJob
    <2>3. [msg |-> worker[w].cur.msg, attempts |-> worker[w].cur.receipt,
           status |-> "pending"]
             \in [msg : Sent, attempts : Nat, status : {"pending", "replayed"}]
        BY <2>1, BatchFacts
    <2>. QED  BY <1>7, <2>2, <2>3 DEF SaveFailedJob, TypeOK, WorkersOK, Sent
<1>8. CASE DeleteMessage(w)
    <2>1. worker[w].cur \in worker[w].batch
        BY <1>8 DEF DeleteMessage, TypeOK
    <2>2. messages' \in Seq(Message) /\ Len(messages') = Len(messages)
        BY <1>0, <1>8, <2>1, BatchFacts, StateFacts DEF DeleteMessage
    <2>3. WorkersOK' /\ TablesOK'
        BY <1>0, <1>8, <2>2, ContinueType, SameTables DEF DeleteMessage, TypeOK
    <2>. QED  BY <2>2, <2>3 DEF TypeOK, WorkersOK, TablesOK
<1>. QED  BY <1>1, <1>2, <1>3, <1>4, <1>5, <1>6, <1>7, <1>8 DEF WorkerStep

LEMMA WorkerTypeFault ==
    ASSUME TypeOK, NEW w \in Workers, WorkerFault(w)
    PROVE  TypeOK'
<1>1. /\ UNCHANGED <<messages, failedJobs, replay, latest, completions>>
      /\ faults' \in Nat
    BY DEF WorkerFault, ReceiveFails, SaveFails, DeleteFails, Crash, Fault, TypeOK
<1>2. WorkersOK
    BY TypeParts
<1>3. CASE NextQueue(w)
    <2>1. WorkersOK'
        BY <1>1, <1>2, <1>3, NextQueueType
    <2>. QED  BY <1>1, <2>1 DEF TypeOK, WorkersOK, Sent
<1>4. CASE worker' = [worker EXCEPT ![w] = Polling(1)]
    <2>1. 1 \in 1..Len(QueueUrls)
        BY ConstantsOK, LenProperties DEF ConstantsOK
    <2>2. WorkersOK'
        BY <1>1, <1>2, <1>4, <2>1, PollingType DEF WorkersOK
    <2>. QED  BY <1>1, <2>2 DEF TypeOK, WorkersOK, Sent
<1>. QED
    BY <1>3, <1>4 DEF WorkerFault, ReceiveFails, SaveFails, DeleteFails, Crash

(* Publishing: the types of what Send touches.                             *)
LEMMA SendTypes ==
    ASSUME TypeOK, NEW j \in Jobs, NEW q \in Queues, Send(j, q),
           UNCHANGED <<worker, failedJobs, completions, faults>>,
           replay' \in [Admins -> [msg : Sent, attempts : Nat] \cup {NoRow}]
    PROVE  TypeOK'
<1>1. /\ messages' \in Seq(Message) /\ Len(messages') = Len(messages) + 1
      /\ latest' = [latest EXCEPT ![j] = Len(messages) + 1]
      /\ Len(messages) \in Nat
    BY SendFacts, SeqFacts
<1>2. WorkersOK'
    BY <1>1, WiderType
<1>3. Sent \subseteq Sent'
    BY <1>1 DEF Sent
<1>4. latest' \in [Jobs -> 0..Len(messages')]
    BY <1>1 DEF TypeOK
<1>5. failedJobs' \subseteq [msg : Sent', attempts : Nat,
                            status : {"pending", "replayed"}]
    BY <1>3 DEF TypeOK
<1>6. replay' \in [Admins -> [msg : Sent', attempts : Nat] \cup {NoRow}]
    BY <1>3
<1>7. completions' \in [Jobs -> Nat] /\ faults' \in Nat
    BY DEF TypeOK
<1>. QED  BY <1>1, <1>2, <1>4, <1>5, <1>6, <1>7 DEF TypeOK, WorkersOK

LEMMA PublishType ==
    ASSUME TypeOK, NEW j \in Jobs, Publish(j)
    PROVE  TypeOK'
<1>1. QueueOf[j] \in Queues
    BY ConstantsOK DEF ConstantsOK
<1>. QED  BY <1>1, SendTypes DEF Publish, TypeOK

LEMMA TimeoutType ==
    ASSUME TypeOK, NEW i \in Sent, Redeliver(i) \/ EarlyTimeout(i)
    PROVE  TypeOK'
<1>1. messages' = [messages EXCEPT ![i].state = "visible"]
    BY DEF Redeliver, EarlyTimeout
<1>2. /\ UNCHANGED <<worker, failedJobs, replay, latest, completions>>
      /\ faults' \in Nat
    BY DEF Redeliver, EarlyTimeout, Fault, TypeOK
<1>3. messages' \in Seq(Message) /\ Len(messages') = Len(messages)
    BY <1>1, StateFacts
<1>. QED  BY <1>2, <1>3 DEF TypeOK, Sent

LEMMA ReplayType ==
    ASSUME TypeOK, NEW a \in Admins,
           ReplayPublish(a) \/ ReplayCommit(a) \/ ReplayAborts(a)
    PROVE  TypeOK'
<1>1. CASE ReplayPublish(a)
    <2> DEFINE name(r) == UrlName[messages[r.msg].queue]
    <2>1. PICK r \in failedJobs :
              /\ replay' = [replay EXCEPT ![a] =
                               [msg |-> r.msg, attempts |-> r.attempts]]
              /\ IF name(r) \in Configured
                 THEN Send(messages[r.msg].job, name(r))
                 ELSE UNCHANGED <<messages, latest>>
        BY <1>1 DEF ReplayPublish
    <2>2. r.msg \in Sent /\ r.attempts \in Nat
        BY DEF TypeOK
    <2>3. messages[r.msg].job \in Jobs
        BY <2>2, SeqFacts DEF Message
    <2>4. replay' \in [Admins -> [msg : Sent, attempts : Nat] \cup {NoRow}]
        BY <2>1, <2>2 DEF TypeOK
    <2>5. UNCHANGED <<worker, failedJobs, completions, faults>>
        BY <1>1 DEF ReplayPublish
    <2>6. Configured \subseteq Queues
        BY ConstantsOK, ElementOfSeq DEF ConstantsOK, Configured
    <2>7. CASE name(r) \in Configured
        BY <2>1, <2>3, <2>4, <2>5, <2>6, <2>7, SendTypes
    <2>8. CASE name(r) \notin Configured
        BY <2>1, <2>4, <2>5, <2>8 DEF TypeOK, Sent
    <2>. QED  BY <2>7, <2>8
<1>2. CASE ReplayCommit(a)
    <2>1. \A r \in Rows(a) : [r EXCEPT !.status = "replayed"]
             \in [msg : Sent, attempts : Nat, status : {"pending", "replayed"}]
        BY DEF Rows, TypeOK
    <2>2. UNCHANGED <<messages, worker, latest, completions, faults>>
        BY <1>2 DEF ReplayCommit
    <2>3. failedJobs' \subseteq [msg : Sent, attempts : Nat,
                                status : {"pending", "replayed"}]
        BY <1>2, <2>1 DEF ReplayCommit, TypeOK
    <2>4. replay' \in [Admins -> [msg : Sent, attempts : Nat] \cup {NoRow}]
        BY <1>2 DEF ReplayCommit, TypeOK
    <2>. QED  BY <2>2, <2>3, <2>4 DEF TypeOK, Sent
<1>3. CASE ReplayAborts(a)
    <2>1. replay' \in [Admins -> [msg : Sent, attempts : Nat] \cup {NoRow}]
        BY <1>3 DEF ReplayAborts, TypeOK
    <2>2. faults' \in Nat
        BY <1>3 DEF ReplayAborts, Fault, TypeOK
    <2>. QED  BY <1>3, <2>1, <2>2 DEF ReplayAborts, TypeOK, Sent
<1>. QED  BY <1>1, <1>2, <1>3

LEMMA TypeInit == Init => TypeOK
<1> SUFFICES ASSUME Init PROVE TypeOK
    OBVIOUS
<1>1. messages \in Seq(Message) /\ Len(messages) = 0
    BY DEF Init
<1>2. 1 \in 1..Len(QueueUrls)
    BY ConstantsOK, LenProperties DEF ConstantsOK
<1>3. Polling(1) \in WorkerRecord(0) /\ Polling(1).pc = "poll"
    BY <1>2, PollingType
<1>. QED  BY <1>1, <1>3 DEF Init, TypeOK

LEMMA TypeStep == TypeOK /\ [Next]_vars => TypeOK'
<1> SUFFICES ASSUME TypeOK, [Next]_vars PROVE TypeOK'
    OBVIOUS
<1>1. CASE UNCHANGED vars
    BY <1>1 DEF vars, TypeOK, Sent
<1>2. CASE Next
    BY <1>2, PublishType, WorkerTypeStep, WorkerTypeFault, TimeoutType,
       ReplayType DEF Next
<1>. QED  BY <1>1, <1>2

(* Every reachable state of the job path is typed: in particular batches,  *)
(* dead-letter rows and replays only ever refer to messages that were sent.*)
THEOREM TypeCorrect == Spec => []TypeOK
BY TypeInit, TypeStep, PTL DEF Spec

-----------------------------------------------------------------------------
(* No accepted job is lost.                                                *)
(*                                                                         *)
(* NoJobLost is not inductive: a worker about to delete a message must     *)
(* already have settled it, and a replayed row must already have a younger *)
(* message, which another worker may be about to delete in its turn.  The  *)
(* invariant therefore speaks of every message, and NoJobLost follows from *)
(* it for the newest message of a job.                                     *)

(* What poll_queue establishes before it deletes message i.                *)
Resolved(i) ==
    \/ messages[i].job \in Unhandled
    \/ completions[messages[i].job] > 0
    \/ \E r \in failedJobs : r.msg = i

(* A younger message carries the job of message i.                         *)
Superseded(i) == i < latest[messages[i].job]

LatestRight      == \A j \in Jobs :
                        latest[j] > 0 => messages[latest[j]].job = j
QueueConfigured  == \A i \in Sent : messages[i].queue \in Configured
DeletedResolved  == \A i \in Sent : ~Live(i) => Resolved(i)
DeletingResolved == \A w \in Workers :
                        worker[w].pc = "delete" => Resolved(worker[w].cur.msg)
ReplayedSent     == \A r \in failedJobs :
                        r.status = "replayed" => Superseded(r.msg)
ReplayingSent    == \A a \in Admins :
                        replay[a] # NoRow => Superseded(replay[a].msg)

IInv ==
    /\ TypeOK
    /\ LatestRight
    /\ QueueConfigured
    /\ DeletedResolved
    /\ DeletingResolved
    /\ ReplayedSent
    /\ ReplayingSent

(* The queue URLs of the deployment end in the queues' logical names.      *)
NamesMatch == \A q \in Configured : UrlName[q] = q

LEMMA IInvSafe == IInv => NoJobLost
<1> SUFFICES ASSUME IInv, NEW j \in Published \ Unhandled,
                    completions[j] = 0, ~Queued(j)
             PROVE  Pending(j)
    BY DEF NoJobLost, IInv, TypeOK, Published
<1> DEFINE i == latest[j]
<1>1. j \in Jobs /\ i \in Sent /\ messages[i].job = j
    BY DEF IInv, TypeOK, LatestRight, Published, Sent
<1>2. ~Live(i)
    BY <1>1 DEF Queued
<1>3. PICK r \in failedJobs : r.msg = i
    BY <1>1, <1>2 DEF IInv, DeletedResolved, Resolved
<1>4. ~Superseded(r.msg)
    BY <1>1, <1>3, SeqFacts DEF Superseded, IInv, Sent
<1>5. r.status = "pending"
    BY <1>4 DEF IInv, ReplayedSent, TypeOK
<1>. QED  BY <1>1, <1>3, <1>5 DEF Pending

-----------------------------------------------------------------------------
(* The history only grows: jobs keep their messages, completions, rows.    *)
Grows ==
    /\ Sent \subseteq Sent'
    /\ \A i \in Sent : /\ messages'[i].job = messages[i].job
                       /\ messages'[i].queue = messages[i].queue
    /\ \A j \in Jobs : completions[j] > 0 => completions'[j] > 0
    /\ \A r \in failedJobs : \E s \in failedJobs' : s.msg = r.msg
    /\ \A j \in Jobs : latest[j] <= latest'[j] /\ latest'[j] \in Nat

LEMMA SendGrows ==
    ASSUME TypeOK, NEW j \in Jobs, NEW q \in Queues, Send(j, q),
           UNCHANGED <<failedJobs, completions>>
    PROVE  Grows
<1>1. Len(messages) \in Nat
    BY SeqFacts
<1>2. /\ \A i \in Sent : messages'[i] = messages[i]
      /\ latest' = [latest EXCEPT ![j] = Len(messages) + 1]
      /\ Len(messages') = Len(messages) + 1
    BY SendFacts
<1>3. \A k \in Jobs : latest[k] <= latest'[k] /\ latest'[k] \in Nat
    BY <1>1, <1>2 DEF TypeOK
<1>4. Sent \subseteq Sent'
    BY <1>1, <1>2 DEF Sent
<1>. QED  BY <1>2, <1>3, <1>4 DEF Grows

LEMMA WorkerGrows ==
    ASSUME TypeOK, NEW w \in Workers, WorkerStep(w) \/ WorkerFault(w)
    PROVE  Grows
<1>1. latest' = latest /\ \A j \in Jobs : latest[j] \in Nat
    BY SeqFacts DEF TypeOK, WorkerStep, WorkerFault, Receive, EmptyReceive,
       DecodeFails, NoHandler, HandlerReturns, HandlerRaises, Raises,
       SaveFailedJob, DeleteMessage, ReceiveFails, SaveFails, DeleteFails, Crash
<1>2. failedJobs \subseteq failedJobs'
    BY DEF WorkerStep, WorkerFault, Receive, EmptyReceive,
       DecodeFails, NoHandler, HandlerReturns, HandlerRaises, Raises,
       SaveFailedJob, DeleteMessage, ReceiveFails, SaveFails, DeleteFails, Crash
<1>3. \A j \in Jobs : completions[j] > 0 => completions'[j] > 0
    <2>1. CASE HandlerReturns(w)
        <3>1. PICK d \in worker[w].batch :
                  completions' = [completions EXCEPT ![JobOf(d)] = @ + 1]
            BY <2>1 DEF HandlerReturns
        <3>. QED  BY <3>1, BatchFacts DEF TypeOK
    <2>2. CASE ~HandlerReturns(w)
        <3>1. completions' = completions
            BY <2>2 DEF WorkerStep, WorkerFault, Receive, EmptyReceive,
               DecodeFails, NoHandler, HandlerRaises, Raises, SaveFailedJob,
               DeleteMessage, ReceiveFails, SaveFails, DeleteFails, Crash
        <3>. QED  BY <3>1
    <2>. QED  BY <2>1, <2>2
<1>4. /\ Sent \subseteq Sent'
      /\ \A i \in Sent : /\ messages'[i].job = messages[i].job
                         /\ messages'[i].queue = messages[i].queue
    <2>1. CASE Receive(w)
        <3>1. PICK B \in SUBSET Receivable(w) :
                  messages' = [i \in Sent |->
                     IF i \in B THEN Received(messages[i]) ELSE messages[i]]
            BY <2>1 DEF Receive
        <3>2. B \in SUBSET Sent
            BY DEF Receivable
        <3>. QED  BY <3>1, <3>2, ReceiveFacts DEF Sent
    <2>2. CASE DeleteMessage(w)
        <3>1. worker[w].cur.msg \in Sent
            BY <2>2, BatchFacts DEF DeleteMessage, TypeOK
        <3>2. CASE messages' = [messages EXCEPT ![worker[w].cur.msg].state = "deleted"]
            BY <3>1, <3>2, StateFacts DEF Sent
        <3>3. CASE UNCHANGED messages
            BY <3>3 DEF Sent
        <3>. QED  BY <2>2, <3>2, <3>3 DEF DeleteMessage
    <2>3. CASE ~Receive(w) /\ ~DeleteMessage(w)
        <3>1. messages' = messages
            BY <2>3 DEF WorkerStep, WorkerFault, EmptyReceive,
               DecodeFails, NoHandler, HandlerReturns, HandlerRaises, Raises,
               SaveFailedJob, ReceiveFails, SaveFails, DeleteFails, Crash
        <3>. QED  BY <3>1 DEF Sent
    <2>. QED  BY <2>1, <2>2, <2>3
<1>. QED  BY <1>1, <1>2, <1>3, <1>4 DEF Grows

LEMMA StepGrows ==
    ASSUME TypeOK, [Next]_vars
    PROVE  Grows
<1>0. \A j \in Jobs : latest[j] \in Nat
    BY SeqFacts DEF TypeOK
<1>1. CASE UNCHANGED vars
    BY <1>0, <1>1 DEF vars, Grows, Sent
<1>2. ASSUME NEW j \in Jobs, Publish(j) PROVE Grows
    <2>1. QueueOf[j] \in Queues
        BY ConstantsOK DEF ConstantsOK
    <2>. QED  BY <1>2, <2>1, SendGrows DEF Publish
<1>3. ASSUME NEW i \in Sent, Redeliver(i) \/ EarlyTimeout(i) PROVE Grows
    <2>1. messages' = [messages EXCEPT ![i].state = "visible"]
        BY <1>3 DEF Redeliver, EarlyTimeout
    <2>2. UNCHANGED <<failedJobs, latest, completions>>
        BY <1>3 DEF Redeliver, EarlyTimeout
    <2>. QED  BY <1>0, <2>1, <2>2, StateFacts DEF Grows, Sent
<1>4. ASSUME NEW a \in Admins, ReplayPublish(a) PROVE Grows
    <2> DEFINE name(r) == UrlName[messages[r.msg].queue]
    <2>1. PICK r \in failedJobs :
              IF name(r) \in Configured
              THEN Send(messages[r.msg].job, name(r))
              ELSE UNCHANGED <<messages, latest>>
        BY <1>4 DEF ReplayPublish
    <2>2. messages[r.msg].job \in Jobs
        BY SeqFacts DEF TypeOK, Message
    <2>3. Configured \subseteq Queues
        BY ConstantsOK, ElementOfSeq DEF ConstantsOK, Configured
    <2>4. UNCHANGED <<failedJobs, completions>>
        BY <1>4 DEF ReplayPublish
    <2>5. CASE name(r) \in Configured
        BY <2>1, <2>2, <2>3, <2>4, <2>5, SendGrows
    <2>6. CASE name(r) \notin Configured
        BY <1>0, <2>1, <2>4, <2>6 DEF Grows, Sent
    <2>. QED  BY <2>5, <2>6
<1>5. ASSUME NEW a \in Admins, ReplayCommit(a) PROVE Grows
    <2>1. ASSUME NEW r \in failedJobs PROVE \E s \in failedJobs' : s.msg = r.msg
        <3>1. CASE r \in Rows(a)
            <4>1. [r EXCEPT !.status = "replayed"] \in failedJobs'
                BY <1>5, <3>1 DEF ReplayCommit
            <4>2. [r EXCEPT !.status = "replayed"].msg = r.msg
                BY DEF TypeOK
            <4>. QED  BY <4>1, <4>2
        <3>2. CASE r \notin Rows(a)
            BY <1>5, <3>2 DEF ReplayCommit
        <3>. QED  BY <3>1, <3>2
    <2>. QED  BY <1>0, <1>5, <2>1 DEF ReplayCommit, Grows, Sent
<1>6. ASSUME NEW a \in Admins, ReplayAborts(a) PROVE Grows
    BY <1>0, <1>6 DEF ReplayAborts, Grows, Sent
<1>. QED
    BY <1>1, <1>2, <1>3, <1>4, <1>5, <1>6, WorkerGrows DEF Next

LEMMA ResolvedStable ==
    ASSUME TypeOK, Grows, NEW i \in Sent, Resolved(i)
    PROVE  Resolved(i)'
<1>1. messages[i].job \in Jobs
    BY SeqFacts DEF Message
<1>. QED  BY <1>1 DEF Grows, Resolved

LEMMA SupersededStable ==
    ASSUME TypeOK, Grows, NEW i \in Sent, Superseded(i)
    PROVE  Superseded(i)'
<1>1. messages[i].job \in Jobs /\ i \in Nat
    BY SeqFacts DEF Message, Sent
<1>2. latest[messages[i].job] \in Nat
    BY <1>1, SeqFacts DEF TypeOK
<1>. QED  BY <1>1, <1>2 DEF Grows, Superseded

(* Only Publish and ReplayPublish send, and only to configured queues.     *)
LEMMA SendOrSame ==
    ASSUME TypeOK, [Next]_vars
    PROVE  \/ \E j \in Jobs, q \in Configured : Send(j, q)
           \/ latest' = latest /\ Sent' = Sent
<1>1. CASE UNCHANGED vars
    BY <1>1 DEF vars, Sent
<1>2. ASSUME NEW j \in Jobs, Publish(j)
      PROVE  \E k \in Jobs, q \in Configured : Send(k, q)
    BY <1>2 DEF Publish
<1>3. ASSUME NEW w \in Workers, WorkerStep(w) \/ WorkerFault(w)
      PROVE  latest' = latest /\ Sent' = Sent
    <2>1. TypeOK'
        BY <1>3, WorkerTypeStep, WorkerTypeFault
    <2>2. latest' = latest
        BY <1>3 DEF WorkerStep, WorkerFault, Receive, EmptyReceive,
           DecodeFails, NoHandler, HandlerReturns, HandlerRaises, Raises,
           SaveFailedJob, DeleteMessage, ReceiveFails, SaveFails, DeleteFails,
           Crash
    <2>3. CASE Receive(w)
        <3>1. PICK B \in SUBSET Receivable(w) :
                  messages' = [i \in Sent |->
                     IF i \in B THEN Received(messages[i]) ELSE messages[i]]
            BY <2>3 DEF Receive
        <3>2. B \in SUBSET Sent
            BY DEF Receivable
        <3>. QED  BY <2>2, <3>1, <3>2, ReceiveFacts DEF Sent
    <2>4. CASE DeleteMessage(w)
        <3>1. worker[w].cur.msg \in Sent
            BY <2>4, BatchFacts DEF DeleteMessage, TypeOK
        <3>2. Len(messages') = Len(messages)
            BY <2>4, <3>1, StateFacts DEF DeleteMessage
        <3>. QED  BY <2>2, <3>2 DEF Sent
    <2>5. CASE ~Receive(w) /\ ~DeleteMessage(w)
        <3>1. messages' = messages
            BY <1>3, <2>5 DEF WorkerStep, WorkerFault, EmptyReceive,
               DecodeFails, NoHandler, HandlerReturns, HandlerRaises, Raises,
               SaveFailedJob, ReceiveFails, SaveFails, DeleteFails, Crash
        <3>. QED  BY <2>2, <3>1 DEF Sent
    <2>. QED  BY <2>3, <2>4, <2>5
<1>4. ASSUME NEW i \in Sent, Redeliver(i) \/ EarlyTimeout(i)
      PROVE  latest' = latest /\ Sent' = Sent
    <2>1. Len(messages') = Len(messages) /\ latest' = latest
        BY <1>4, StateFacts DEF Redeliver, EarlyTimeout
    <2>. QED  BY <2>1 DEF Sent
<1>5. ASSUME NEW a \in Admins,
             ReplayPublish(a) \/ ReplayCommit(a) \/ ReplayAborts(a)
      PROVE  \/ \E j \in Jobs, q \in Configured : Send(j, q)
             \/ latest' = latest /\ Sent' = Sent
    <2>1. \A r \in failedJobs : messages[r.msg].job \in Jobs
        BY SeqFacts DEF TypeOK, Message
    <2>. QED  BY <1>5, <2>1 DEF ReplayPublish, ReplayCommit, ReplayAborts, Sent
<1>. QED  BY <1>1, <1>2, <1>3, <1>4, <1>5 DEF Next

LEMMA LatestStep ==
    ASSUME TypeOK, LatestRight, QueueConfigured, [Next]_vars
    PROVE  LatestRight' /\ QueueConfigured'
<1>1. Grows
    BY StepGrows
<1>2. Len(messages) \in Nat /\ \A j \in Jobs : latest[j] \in 0..Len(messages)
    BY SeqFacts DEF TypeOK
<1>3. \A j \in Jobs : latest[j] > 0 =>
          latest[j] \in Sent /\ messages'[latest[j]].job = j
    BY <1>1, <1>2 DEF Grows, LatestRight, Sent
<1>4. CASE latest' = latest /\ Sent' = Sent
    BY <1>1, <1>3, <1>4 DEF Grows, LatestRight, QueueConfigured
<1>5. ASSUME NEW j \in Jobs, NEW q \in Configured, Send(j, q)
      PROVE  LatestRight' /\ QueueConfigured'
    <2>1. q \in Queues
        BY ConstantsOK, ElementOfSeq DEF ConstantsOK, Configured
    <2>2. /\ messages'[Len(messages) + 1].job = j
          /\ messages'[Len(messages) + 1].queue = q
          /\ Len(messages') = Len(messages) + 1
          /\ latest' = [latest EXCEPT ![j] = Len(messages) + 1]
        BY <1>5, <2>1, SendFacts
    <2>3. Sent' = Sent \cup {Len(messages) + 1}
        BY <1>2, <2>2 DEF Sent
    <2>4. QueueConfigured'
        BY <1>1, <2>2, <2>3 DEF QueueConfigured, Grows
    <2>5. LatestRight'
        BY <1>2, <1>3, <2>2 DEF LatestRight, TypeOK
    <2>. QED  BY <2>4, <2>5
<1>. QED  BY <1>4, <1>5, SendOrSame

-----------------------------------------------------------------------------
BeingDeleted(i) == \E w \in Workers : /\ worker[w].pc = "delete"
                                      /\ worker[w].cur.msg = i

(* A message is dead only if it was, or a worker deletes it.               *)
LEMMA DeadCases ==
    ASSUME TypeOK, [Next]_vars
    PROVE  \A i \in Sent' : messages'[i].state = "deleted" =>
               /\ i \in Sent
               /\ ~Live(i) \/ BeingDeleted(i)
<1> SUFFICES ASSUME NEW i \in Sent', messages'[i].state = "deleted"
             PROVE  i \in Sent /\ (~Live(i) \/ BeingDeleted(i))
    OBVIOUS
<1>. USE DEF BeingDeleted
<1>1. CASE messages' = messages
    BY <1>1 DEF Live, Sent
<1>2. ASSUME NEW j \in Jobs, NEW q \in Configured, Send(j, q)
      PROVE  i \in Sent /\ ~Live(i)
    <2>1. q \in Queues
        BY ConstantsOK, ElementOfSeq DEF ConstantsOK, Configured
    <2>2. /\ \A k \in Sent : messages'[k] = messages[k]
          /\ messages'[Len(messages) + 1].state = "visible"
          /\ Len(messages') = Len(messages) + 1
          /\ Len(messages) \in Nat
        BY <1>2, <2>1, SendFacts, SeqFacts
    <2>3. i \in Sent \/ i = Len(messages) + 1
        BY <2>2 DEF Sent
    <2>. QED  BY <2>2, <2>3 DEF Live
<1>3. ASSUME NEW w \in Workers, Receive(w)
      PROVE  i \in Sent /\ ~Live(i)
    <2>1. PICK B \in SUBSET Receivable(w) :
              messages' = [k \in Sent |->
                 IF k \in B THEN Received(messages[k]) ELSE messages[k]]
        BY <1>3 DEF Receive
    <2>2. B \in SUBSET Sent
        BY DEF Receivable
    <2>. QED  BY <2>1, <2>2, ReceiveFacts DEF Live, Sent
<1>4. ASSUME NEW w \in Workers, DeleteMessage(w), messages' # messages
      PROVE  i \in Sent /\ (~Live(i) \/ (/\ worker[w].pc = "delete"
                                       /\ worker[w].cur.msg = i))
    <2> DEFINE k == worker[w].cur.msg
    <2>1. worker[w].pc = "delete" /\ k \in Sent
        BY <1>4, BatchFacts DEF DeleteMessage, TypeOK
    <2>2. messages' = [messages EXCEPT ![k].state = "deleted"]
        BY <1>4 DEF DeleteMessage
    <2>3. Len(messages') = Len(messages)
          /\ \A n \in Sent : n # k => messages'[n] = messages[n]
        BY <2>1, <2>2, StateFacts
    <2>. QED  BY <2>1, <2>3 DEF Live, Sent
<1>5. ASSUME NEW k \in Sent, Redeliver(k) \/ EarlyTimeout(k)
      PROVE  i \in Sent /\ ~Live(i)
    <2>1. messages' = [messages EXCEPT ![k].state = "visible"]
        BY <1>5 DEF Redeliver, EarlyTimeout
    <2>2. /\ Len(messages') = Len(messages)
          /\ \A n \in Sent : n # k => messages'[n] = messages[n]
          /\ messages'[k].state = "visible"
        BY <2>1, StateFacts
    <2>. QED  BY <2>2 DEF Live, Sent
<1>6. ASSUME NEW w \in Workers, WorkerStep(w) \/ WorkerFault(w),
             ~Receive(w), ~DeleteMessage(w)
      PROVE  messages' = messages
    BY <1>6 DEF WorkerStep, WorkerFault, EmptyReceive,
       DecodeFails, NoHandler, HandlerReturns, HandlerRaises, Raises,
       SaveFailedJob, ReceiveFails, SaveFails, DeleteFails, Crash
<1>7. ASSUME NEW a \in Admins,
             ReplayPublish(a) \/ ReplayCommit(a) \/ ReplayAborts(a)
      PROVE  \/ \E j \in Jobs, q \in Configured : Send(j, q)
             \/ messages' = messages
    <2>1. \A r \in failedJobs : messages[r.msg].job \in Jobs
        BY SeqFacts DEF TypeOK, Message
    <2>. QED  BY <1>7, <2>1 DEF ReplayPublish, ReplayCommit, ReplayAborts
<1>8. ASSUME NEW j \in Jobs, Publish(j)
      PROVE  \E q \in Configured : Send(j, q)
    BY <1>8 DEF Publish
<1>9. CASE UNCHANGED vars
    BY <1>1, <1>9 DEF vars
<1>. QED
    BY <1>1, <1>2, <1>3, <1>4, <1>5, <1>6, <1>7, <1>8, <1>9 DEF Next

LEMMA DeletedStep ==
    ASSUME IInv, [Next]_vars
    PROVE  DeletedResolved'
<1> SUFFICES ASSUME NEW i \in Sent', messages'[i].state = "deleted"
             PROVE  Resolved(i)'
    BY DEF DeletedResolved, Live
<1>1. TypeOK /\ Grows
    BY StepGrows DEF IInv
<1>2. /\ i \in Sent
      /\ ~Live(i) \/ BeingDeleted(i)
    BY <1>1, DeadCases
<1>3. Resolved(i)
    BY <1>2 DEF BeingDeleted, IInv, DeletedResolved, DeletingResolved
<1>. QED  BY <1>1, <1>2, <1>3, ResolvedStable

(* A worker reaches delete_message from the handler, from the missing      *)
(* handler or from _save_failed_job, with the message resolved.            *)
LEMMA DeletingStep ==
    ASSUME IInv, [Next]_vars
    PROVE  DeletingResolved'
<1> SUFFICES ASSUME NEW w \in Workers, worker'[w].pc = "delete"
             PROVE  Resolved(worker[w].cur.msg)'
    BY DEF DeletingResolved
<1>1. TypeOK /\ Grows /\ TypeOK'
    BY StepGrows, TypeStep DEF IInv
<1>2. CASE worker'[w] = worker[w]
    <2>1. worker[w].cur.msg \in Sent /\ Resolved(worker[w].cur.msg)
        BY <1>1, <1>2, BatchFacts DEF IInv, DeletingResolved, TypeOK
    <2>. QED  BY <1>1, <1>2, <2>1, ResolvedStable DEF Resolved
<1>3. CASE worker'[w] # worker[w]
    <2>1. worker \in [Workers -> WorkerRecord(Len(messages))]
        BY <1>1 DEF TypeOK
    <2>2. PICK v \in Workers : WorkerStep(v) \/ WorkerFault(v)
        BY <1>3 DEF Next, vars, Publish, Redeliver, EarlyTimeout, ReplayPublish,
           ReplayCommit, ReplayAborts
    <2>3. \A u \in Workers : u # v => worker'[u] = worker[u]
        BY <2>1, <2>2 DEF WorkerStep, WorkerFault, Receive, EmptyReceive,
           DecodeFails, NoHandler, HandlerReturns, HandlerRaises, Raises,
           SaveFailedJob, DeleteMessage, ReceiveFails, SaveFails, DeleteFails,
           Crash, At, Goto, Continue, NextQueue
    <2>4. v = w
        BY <1>3, <2>3
    <2>5. \A pc, batch, d : At(w, pc, batch, d) =>
              worker'[w].pc = pc /\ worker'[w].cur = d
        BY <2>1 DEF At
    <2>6. \A pc, d : Goto(w, pc, d) => worker'[w].pc = pc /\ worker'[w].cur = d
        BY <2>5 DEF Goto
    <2>7. \A c : worker' = [worker EXCEPT ![w] = Polling(c)] =>
              worker'[w].pc = "poll"
        BY <2>1 DEF Polling
    <2>8. \A d : Continue(w, d) => worker'[w].pc # "delete"
        BY <2>5, <2>7 DEF Continue, NextQueue
    <2>9. NoHandler(w) \/ HandlerReturns(w) \/ SaveFailedJob(w)
        <3>1. ~Receive(w)
            <4>1. Receive(w) => \E batch : At(w, "next", batch, NoDelivery)
                BY Zenon DEF Receive
            <4>. QED  BY <2>5, <4>1
        <3>2. ~NextQueue(w) /\ worker' # [worker EXCEPT ![w] = Polling(1)]
            BY <2>7 DEF NextQueue
        <3>3. ~EmptyReceive(w) /\ ~DecodeFails(w) /\ ~WorkerFault(w)
            BY <3>2 DEF EmptyReceive, DecodeFails, WorkerFault, ReceiveFails,
               SaveFails, DeleteFails, Crash
        <3>4. ~HandlerRaises(w)
            BY <2>6, <2>8 DEF HandlerRaises, Raises
        <3>5. ~DeleteMessage(w)
            BY <2>8 DEF DeleteMessage
        <3>. QED  BY <2>2, <2>4, <3>1, <3>3, <3>4, <3>5 DEF WorkerStep
    <2>10. CASE NoHandler(w)
        <3>1. PICK d \in worker[w].batch :
                  JobOf(d) \in Unhandled /\ Goto(w, "delete", d)
            BY <2>10 DEF NoHandler
        <3>2. worker'[w].cur = d /\ d.msg \in Sent
            BY <1>1, <2>6, <3>1, BatchFacts
        <3>3. Resolved(d.msg)
            BY <3>1 DEF Resolved, JobOf
        <3>. QED  BY <1>1, <3>2, <3>3, ResolvedStable DEF Resolved
    <2>11. CASE HandlerReturns(w)
        <3>1. PICK d \in worker[w].batch :
                  /\ completions' = [completions EXCEPT ![JobOf(d)] = @ + 1]
                  /\ Goto(w, "delete", d)
            BY <2>11 DEF HandlerReturns
        <3>2. worker'[w].cur = d /\ d.msg \in Sent /\ JobOf(d) \in Jobs
            BY <1>1, <2>6, <3>1, BatchFacts
        <3>3. completions'[JobOf(d)] > 0
            BY <1>1, <3>1, <3>2 DEF TypeOK
        <3>4. messages'[d.msg].job = JobOf(d)
            BY <1>1, <3>2 DEF Grows, JobOf
        <3>. QED  BY <3>2, <3>3, <3>4 DEF Resolved
    <2>12. CASE SaveFailedJob(w)
        <3> DEFINE row == [msg |-> worker[w].cur.msg,
                           attempts |-> worker[w].cur.receipt,
                           status |-> "pending"]
        <3>1. row \in failedJobs' /\ Goto(w, "delete", worker[w].cur)
            BY <2>12 DEF SaveFailedJob
        <3>2. worker'[w].cur = worker[w].cur
            BY <2>6, <3>1
        <3>3. row.msg = worker[w].cur.msg
            OBVIOUS
        <3>. HIDE DEF row
        <3>. QED  BY <3>1, <3>2, <3>3 DEF Resolved
    <2>. QED  BY <2>9, <2>10, <2>11, <2>12
<1>. QED  BY <1>2, <1>3

-----------------------------------------------------------------------------
(* replay_dlq_job sends before it marks: with the names matching, a row is *)
(* marked only when a younger message carries its job.                     *)
LEMMA ReplayStep ==
    ASSUME NamesMatch, IInv, [Next]_vars
    PROVE  ReplayedSent' /\ ReplayingSent'
<1>1. TypeOK /\ Grows
    BY StepGrows DEF IInv
<1>2. ASSUME NEW i \in Sent, i < latest[messages[i].job]
      PROVE  i < latest'[messages'[i].job]
    BY <1>1, <1>2, SupersededStable DEF Superseded
<1>3. \A r \in failedJobs : r.msg \in Sent
    BY <1>1 DEF TypeOK
<1>4. \A a \in Admins : replay[a] # NoRow => replay[a].msg \in Sent
    BY <1>1 DEF TypeOK
<1>5. \A r \in failedJobs : r.status = "replayed" =>
          r.msg < latest'[messages'[r.msg].job]
    BY <1>2, <1>3 DEF IInv, ReplayedSent, Superseded
<1>6. \A a \in Admins : replay[a] # NoRow =>
          replay[a].msg < latest'[messages'[replay[a].msg].job]
    BY <1>2, <1>4 DEF IInv, ReplayingSent, Superseded
<1>7. ReplayedSent'
    <2> SUFFICES ASSUME NEW r \in failedJobs', r.status = "replayed"
                 PROVE  r.msg < latest'[messages'[r.msg].job]
        BY DEF ReplayedSent, Superseded
    <2>1. CASE r \in failedJobs
        BY <1>5, <2>1
    <2>2. CASE r \notin failedJobs
        <3>1. ASSUME NEW w \in Workers, WorkerStep(w) \/ WorkerFault(w)
              PROVE  r.status = "pending"
            BY <2>2, <3>1 DEF WorkerStep, WorkerFault, Receive, EmptyReceive,
               DecodeFails, NoHandler, HandlerReturns, HandlerRaises, Raises,
               SaveFailedJob, DeleteMessage, ReceiveFails, SaveFails,
               DeleteFails, Crash
        <3>2. PICK a \in Admins : ReplayCommit(a)
            BY <2>2, <3>1 DEF Next, vars, Publish, Redeliver, EarlyTimeout,
               ReplayPublish, ReplayAborts
        <3>3. PICK s \in Rows(a) : r = [s EXCEPT !.status = "replayed"]
            BY <2>2, <3>2 DEF ReplayCommit
        <3>4. s.msg = replay[a].msg /\ r.msg = s.msg
            BY <1>1, <3>3 DEF Rows, TypeOK
        <3>. QED  BY <1>6, <3>2, <3>4 DEF ReplayCommit
    <2>. QED  BY <2>1, <2>2
<1>8. ReplayingSent'
    <2> SUFFICES ASSUME NEW a \in Admins, replay'[a] # NoRow
                 PROVE  replay'[a].msg < latest'[messages'[replay'[a].msg].job]
        BY DEF ReplayingSent, Superseded
    <2>1. CASE replay'[a] = replay[a]
        BY <1>6, <2>1
    <2>2. CASE replay'[a] # replay[a]
        <3>1. ASSUME NEW w \in Workers, WorkerStep(w) \/ WorkerFault(w)
              PROVE  replay' = replay
            BY <3>1 DEF WorkerStep, WorkerFault, Receive, EmptyReceive,
               DecodeFails, NoHandler, HandlerReturns, HandlerRaises, Raises,
               SaveFailedJob, DeleteMessage, ReceiveFails, SaveFails,
               DeleteFails, Crash
        <3>2. PICK b \in Admins : \/ ReplayPublish(b)
                                  \/ ReplayCommit(b)
                                  \/ ReplayAborts(b)
            BY <2>2, <3>1 DEF Next, vars, Publish, Redeliver, EarlyTimeout
        <3>3. a = b /\ ReplayPublish(a)
            BY <1>1, <2>2, <3>2 DEF ReplayPublish, ReplayCommit, ReplayAborts,
               TypeOK
        <3> DEFINE name(r) == UrlName[messages[r.msg].queue]
        <3>4. PICK r \in failedJobs :
                  /\ replay' = [replay EXCEPT ![a] =
                                   [msg |-> r.msg, attempts |-> r.attempts]]
                  /\ IF name(r) \in Configured
                     THEN Send(messages[r.msg].job, name(r))
                     ELSE UNCHANGED <<messages, latest>>
            BY <3>3 DEF ReplayPublish
        <3>5. r.msg \in Sent /\ replay'[a].msg = r.msg
            BY <1>1, <3>4 DEF TypeOK
        <3>6. name(r) = messages[r.msg].queue /\ name(r) \in Configured
            BY <3>5 DEF NamesMatch, IInv, QueueConfigured
        <3>7. messages[r.msg].job \in Jobs /\ Len(messages) \in Nat
            BY <1>1, <3>5, SeqFacts DEF Message
        <3>8. latest'[messages[r.msg].job] = Len(messages) + 1
            BY <1>1, <3>4, <3>6, <3>7 DEF Send, TypeOK
        <3>9. messages'[r.msg].job = messages[r.msg].job
            BY <1>1, <3>5 DEF Grows
        <3>. QED  BY <3>5, <3>7, <3>8, <3>9 DEF Sent
    <2>. QED  BY <2>1, <2>2
<1>. QED  BY <1>7, <1>8

LEMMA IInvInit == Init => IInv
<1> SUFFICES ASSUME Init PROVE IInv
    OBVIOUS
<1>1. TypeOK
    BY TypeInit
<1>2. Sent = {}
    BY DEF Init, Sent
<1>3. \A w \in Workers : worker[w].pc = "poll"
    BY DEF Init, Polling
<1>. QED
    BY <1>1, <1>2, <1>3 DEF Init, IInv, LatestRight, QueueConfigured,
       DeletedResolved, DeletingResolved, ReplayedSent, ReplayingSent

LEMMA IInvStep ==
    ASSUME NamesMatch
    PROVE  IInv /\ [Next]_vars => IInv'
<1> SUFFICES ASSUME IInv, [Next]_vars PROVE IInv'
    OBVIOUS
<1>1. TypeOK' /\ LatestRight' /\ QueueConfigured'
    BY TypeStep, LatestStep DEF IInv
<1>. QED
    BY <1>1, DeletedStep, DeletingStep, ReplayStep DEF IInv

(* When every queue URL ends in its logical name, so that a failed_jobs    *)
(* row names a queue the publisher can resolve, no accepted job is lost:   *)
(* not by a crash, a failed or stale deletion, an early timeout, a failed  *)
(* write of the row or a replay that dies half way.                        *)
THEOREM JobsAreKept ==
    ASSUME NamesMatch
    PROVE  Spec => []NoJobLost
<1>1. IInv /\ [Next]_vars => IInv'
    BY IInvStep
<1>. QED  BY <1>1, IInvInit, IInvSafe, PTL DEF Spec

-----------------------------------------------------------------------------
(* What the worker's helpers do to its batch.                              *)

OthersSame(w) == \A u \in Workers \ {w} : worker'[u] = worker[u]

LEMMA PollFacts ==
    ASSUME TypeOK, NEW w \in Workers, NEW c,
           worker' = [worker EXCEPT ![w] = Polling(c)]
    PROVE  OthersSame(w) /\ worker'[w].batch = {} /\ worker'[w].pc = "poll"
BY DEF TypeOK, Polling, OthersSame

LEMMA AtFacts ==
    ASSUME TypeOK, NEW w \in Workers, NEW pc, NEW batch, NEW d,
           At(w, pc, batch, d)
    PROVE  /\ OthersSame(w)
           /\ worker'[w].pc = pc
           /\ worker'[w].batch = batch
           /\ worker'[w].cur = d
BY DEF TypeOK, At, OthersSame

LEMMA GotoFacts ==
    ASSUME TypeOK, NEW w \in Workers, NEW pc, NEW d, Goto(w, pc, d)
    PROVE  /\ OthersSame(w)
           /\ worker'[w].pc = pc
           /\ worker'[w].batch = worker[w].batch
           /\ worker'[w].cur = d
BY AtFacts DEF Goto

LEMMA ContinueFacts ==
    ASSUME TypeOK, NEW w \in Workers, NEW d, Continue(w, d)
    PROVE  /\ OthersSame(w)
           /\ worker'[w].pc \in {"poll", "next"}
           /\ worker'[w].batch = worker[w].batch \ {d}
           /\ worker'[w].pc = "poll" => worker'[w].batch = {}
<1>1. CASE worker[w].batch \ {d} = {}
    BY <1>1, PollFacts DEF Continue, NextQueue
<1>2. CASE worker[w].batch \ {d} # {}
    BY <1>2, AtFacts DEF Continue
<1>. QED  BY <1>1, <1>2

(* The messages B that w receives, and what becomes of them.               *)
LEMMA ReceiveMoves ==
    ASSUME TypeOK, NEW w \in Workers, Receive(w)
    PROVE  \E B \in SUBSET Sent :
               /\ \A i \in B : /\ messages[i].state = "visible"
                               /\ messages'[i].state = "inflight"
                               /\ messages'[i].rc = messages[i].rc + 1
               /\ \A i \in Sent \ B : messages'[i] = messages[i]
               /\ \A i \in Sent : messages'[i].job = messages[i].job
               /\ Sent' = Sent
               /\ OthersSame(w)
               /\ worker[w].pc = "poll" /\ worker'[w].pc = "next"
               /\ worker'[w].batch =
                      {[msg |-> i, receipt |-> messages[i].rc + 1] : i \in B}
<1> DEFINE batch(B) == {[msg |-> i, receipt |-> messages[i].rc + 1] : i \in B}
<1>1. PICK B \in SUBSET Receivable(w) :
          /\ messages' = [i \in Sent |->
                 IF i \in B THEN Received(messages[i]) ELSE messages[i]]
          /\ At(w, "next", batch(B), NoDelivery)
    BY DEF Receive
<1>2. B \in SUBSET Sent /\ \A i \in B : messages[i].state = "visible"
    BY DEF Receivable
<1>3. /\ Len(messages') = Len(messages)
      /\ \A i \in Sent : messages'[i].job = messages[i].job
      /\ \A i \in Sent \ B : messages'[i] = messages[i]
      /\ \A i \in B : /\ messages'[i].state = "inflight"
                      /\ messages'[i].rc = messages[i].rc + 1
    BY <1>1, <1>2, ReceiveFacts
<1>. HIDE DEF batch
<1>4. OthersSame(w) /\ worker'[w].pc = "next" /\ worker'[w].batch = batch(B)
    BY <1>1, AtFacts
<1>5. worker[w].pc = "poll" /\ Sent' = Sent
    BY <1>3 DEF Receive, Sent
<1>. QED  BY <1>2, <1>3, <1>4, <1>5 DEF batch

(* delete_message deletes the message in hand, unless the receipt is old.  *)
LEMMA DeleteMoves ==
    ASSUME TypeOK, NEW w \in Workers, DeleteMessage(w)
    PROVE  LET d == worker[w].cur IN
           /\ Sent' = Sent
           /\ worker[w].pc = "delete"
           /\ d \in worker[w].batch /\ d.msg \in Sent
           /\ \A i \in Sent : /\ messages'[i].rc = messages[i].rc
                              /\ messages'[i].job = messages[i].job
                              /\ i # d.msg => messages'[i] = messages[i]
           /\ \/ messages'[d.msg].state = "deleted"
              \/ messages' = messages /\ Stale(d)
           /\ OthersSame(w)
           /\ worker'[w].pc \in {"poll", "next"}
           /\ worker'[w].batch = worker[w].batch \ {d}
           /\ worker'[w].pc = "poll" => worker'[w].batch = {}
<1> DEFINE d == worker[w].cur
<1>1. worker[w].pc = "delete" /\ d \in worker[w].batch
    BY DEF DeleteMessage, TypeOK
<1>2. d.msg \in Sent
    BY <1>1, BatchFacts
<1>3. CASE messages' = [messages EXCEPT ![d.msg].state = "deleted"]
    <2>1. /\ Sent' = Sent
          /\ \A i \in Sent : /\ messages'[i].rc = messages[i].rc
                             /\ messages'[i].job = messages[i].job
                             /\ i # d.msg => messages'[i] = messages[i]
          /\ messages'[d.msg].state = "deleted"
        BY <1>2, <1>3, StateFacts DEF Sent
    <2>2. Continue(w, d)
        BY DEF DeleteMessage
    <2>. QED  BY <1>1, <1>2, <2>1, <2>2, ContinueFacts
<1>4. CASE UNCHANGED messages /\ Stale(d)
    BY <1>1, <1>2, <1>4, ContinueFacts DEF DeleteMessage, Sent
<1>. QED  BY <1>3, <1>4 DEF DeleteMessage

(* Everything else a worker does leaves the messages alone.                *)
LEMMA WorkerMoves ==
    ASSUME TypeOK, NEW w \in Workers, WorkerStep(w) \/ WorkerFault(w),
           ~Receive(w), ~DeleteMessage(w)
    PROVE  /\ messages' = messages
           /\ OthersSame(w)
           /\ worker'[w].batch \subseteq worker[w].batch
           /\ worker'[w].pc = "poll" => worker'[w].batch = {}
<1>1. messages' = messages
    BY DEF WorkerStep, WorkerFault, EmptyReceive, DecodeFails, NoHandler,
       HandlerReturns, HandlerRaises, Raises, SaveFailedJob, ReceiveFails,
       SaveFails, DeleteFails, Crash
<1>2. \/ \E d, pc : pc # "poll" /\ Goto(w, pc, d)
      \/ \E d : Continue(w, d)
      \/ \E c : worker' = [worker EXCEPT ![w] = Polling(c)]
    BY DEF WorkerStep, WorkerFault, EmptyReceive, DecodeFails, NoHandler,
       HandlerReturns, HandlerRaises, Raises, SaveFailedJob, ReceiveFails,
       SaveFails, DeleteFails, Crash, NextQueue
<1>. QED  BY <1>1, <1>2, GotoFacts, ContinueFacts, PollFacts

(* A visibility timeout, early or not.                                     *)
LEMMA TimeoutMoves ==
    ASSUME TypeOK, NEW i \in Sent, Redeliver(i) \/ EarlyTimeout(i)
    PROVE  /\ Sent' = Sent /\ worker' = worker
           /\ \A k \in Sent : /\ messages'[k].rc = messages[k].rc
                              /\ messages'[k].job = messages[k].job
                              /\ k # i => messages'[k] = messages[k]
           /\ messages[i].state = "inflight" /\ messages'[i].state = "visible"
BY StateFacts DEF Redeliver, EarlyTimeout, Sent

(* A publish or a replay that reaches SQS appends one message.             *)
LEMMA SendMoves ==
    ASSUME TypeOK, NEW j \in Jobs, NEW q \in Configured, Send(j, q)
    PROVE  LET n == Len(messages) + 1 IN
           /\ n \in Nat /\ n \notin Sent
           /\ Sent' = Sent \cup {n}
           /\ \A i \in Sent : messages'[i] = messages[i]
           /\ messages'[n].job = j
           /\ messages'[n].rc = 0 /\ messages'[n].state = "visible"
<1>1. q \in Queues
    BY ConstantsOK, ElementOfSeq DEF ConstantsOK, Configured
<1>2. Len(messages) \in Nat
    BY SeqFacts
<1>. QED  BY <1>1, <1>2, SendFacts DEF Sent

LEMMA AdminMoves ==
    ASSUME TypeOK,
           \/ \E j \in Jobs : Publish(j)
           \/ \E a \in Admins : \/ ReplayPublish(a)
                                \/ ReplayCommit(a)
                                \/ ReplayAborts(a)
    PROVE  /\ worker' = worker /\ completions' = completions
           /\ \/ \E j \in Jobs, q \in Configured : Send(j, q)
              \/ messages' = messages
           /\ faults' \in Nat /\ faults' >= faults
<1>1. \A r \in failedJobs : messages[r.msg].job \in Jobs
    BY SeqFacts DEF TypeOK, Message
<1>. QED
    BY <1>1 DEF TypeOK, Publish, ReplayPublish, ReplayCommit, ReplayAborts, Fault

-----------------------------------------------------------------------------
(* The contract.  With its names matching, the job path implements         *)
(* JobContract: every step of it is one step of one job, or none.          *)

(* The newest message of a job is the last one sent for it, jobs whose     *)
(* handler returned were sent, and only handled jobs are dead-lettered.    *)
LatestLast    == \A i \in Sent : latest[messages[i].job] >= i
CompletedSent == \A j \in Jobs : completions[j] > 0 => latest[j] > 0
RowsHandled   == \A r \in failedJobs : messages[r.msg].job \notin Unhandled
SaveHandled   == \A w \in Workers : worker[w].pc = "save" =>
                     JobOf(worker[w].cur) \notin Unhandled

CInv == IInv /\ LatestLast /\ CompletedSent /\ RowsHandled /\ SaveHandled

LEMMA CInvInit == Init => CInv
BY IInvInit DEF Init, CInv, LatestLast, CompletedSent, RowsHandled, SaveHandled,
   Sent, Polling

LEMMA LatestLastStep ==
    ASSUME CInv, [Next]_vars
    PROVE  LatestLast'
<1>1. TypeOK /\ Grows
    BY StepGrows DEF CInv, IInv
<1>2. \A i \in Sent : i \in Nat /\ messages[i].job \in Jobs
    BY <1>1, SeqFacts DEF Message, Sent
<1>3. \A i \in Sent : latest'[messages'[i].job] >= i
    <2> SUFFICES ASSUME NEW i \in Sent PROVE latest'[messages'[i].job] >= i
        OBVIOUS
    <2>1. latest[messages[i].job] >= i /\ latest[messages[i].job] \in Nat
        BY <1>1, <1>2, SeqFacts DEF CInv, LatestLast, TypeOK
    <2>2. /\ latest'[messages'[i].job] >= latest[messages[i].job]
          /\ latest'[messages'[i].job] \in Nat
        BY <1>1, <1>2 DEF Grows
    <2>. QED  BY <1>2, <2>1, <2>2
<1>4. CASE Sent' = Sent
    BY <1>3, <1>4 DEF LatestLast
<1>5. ASSUME NEW j \in Jobs, NEW q \in Configured, Send(j, q)
      PROVE  LatestLast'
    <2>1. PICK n \in Nat : /\ Sent' = Sent \cup {n}
                           /\ messages'[n].job = j /\ latest'[j] = n
        <3>1. q \in Queues /\ Len(messages) \in Nat
            BY <1>1, ConstantsOK, ElementOfSeq, SeqFacts DEF ConstantsOK, Configured
        <3>2. /\ Len(messages') = Len(messages) + 1
              /\ messages'[Len(messages) + 1].job = j
              /\ latest'[j] = Len(messages) + 1
            BY <1>1, <1>5, <3>1, SendFacts DEF TypeOK
        <3>. QED  BY <3>1, <3>2 DEF Sent
    <2>. QED  BY <1>3, <2>1 DEF LatestLast
<1>. QED  BY <1>1, <1>4, <1>5, SendOrSame

LEMMA CompletedStep ==
    ASSUME CInv, [Next]_vars
    PROVE  CompletedSent'
<1>1. TypeOK /\ Grows
    BY StepGrows DEF CInv, IInv
<1>2. \A j \in Jobs : latest[j] \in Nat
    BY <1>1, SeqFacts DEF TypeOK
<1> SUFFICES ASSUME NEW j \in Jobs, completions'[j] > 0 PROVE latest[j] > 0
    BY <1>1, <1>2 DEF Grows, CompletedSent
<1>3. CASE completions'[j] = completions[j]
    BY <1>3 DEF CInv, CompletedSent
<1>4. CASE completions'[j] # completions[j]
    <2>1. PICK w \in Workers : HandlerReturns(w)
        BY <1>4 DEF Next, vars, Publish, Redeliver, EarlyTimeout, ReplayPublish,
           ReplayCommit, ReplayAborts, WorkerStep, WorkerFault, Receive,
           EmptyReceive, DecodeFails, NoHandler, HandlerRaises, Raises,
           SaveFailedJob, DeleteMessage, ReceiveFails, SaveFails, DeleteFails,
           Crash
    <2>2. PICK d \in worker[w].batch :
              completions' = [completions EXCEPT ![JobOf(d)] = @ + 1]
        BY <2>1 DEF HandlerReturns
    <2>3. j = JobOf(d)
        BY <1>1, <1>4, <2>2 DEF TypeOK
    <2>4. d.msg \in Sent
        BY <1>1, BatchFacts
    <2>5. latest[j] >= d.msg
        BY <2>3, <2>4 DEF CInv, LatestLast, JobOf
    <2>. QED  BY <1>1, <1>2, <2>4, <2>5, SeqFacts DEF Sent
<1>. QED  BY <1>3, <1>4

LEMMA HandledStep ==
    ASSUME CInv, [Next]_vars
    PROVE  RowsHandled' /\ SaveHandled'
<1>1. TypeOK /\ Grows /\ TypeOK'
    BY StepGrows, TypeStep DEF CInv, IInv
<1>2. \A r \in failedJobs : /\ r.msg \in Sent
                            /\ messages'[r.msg].job \notin Unhandled
    BY <1>1 DEF TypeOK, Grows, CInv, RowsHandled
<1>3. RowsHandled'
    <2> SUFFICES ASSUME NEW r \in failedJobs', r \notin failedJobs
                 PROVE  messages'[r.msg].job \notin Unhandled
        BY <1>2 DEF RowsHandled
    <2>1. (\E w \in Workers : SaveFailedJob(w)) \/ (\E a \in Admins : ReplayCommit(a))
        BY DEF Next, vars, Publish, Redeliver, EarlyTimeout, ReplayPublish,
           ReplayAborts, WorkerStep, WorkerFault, Receive, EmptyReceive,
           DecodeFails, NoHandler, HandlerReturns, HandlerRaises, Raises,
           DeleteMessage, ReceiveFails, SaveFails, DeleteFails, Crash
    <2>2. ASSUME NEW w \in Workers, SaveFailedJob(w)
          PROVE  messages'[r.msg].job \notin Unhandled
        <3>1. /\ worker[w].pc = "save" /\ r.msg = worker[w].cur.msg
              /\ messages' = messages
            BY <2>2 DEF SaveFailedJob
        <3>. QED  BY <3>1 DEF CInv, SaveHandled, JobOf
    <2>3. ASSUME NEW a \in Admins, ReplayCommit(a)
          PROVE  messages'[r.msg].job \notin Unhandled
        <3>1. PICK s \in failedJobs : r = [s EXCEPT !.status = "replayed"]
            BY <2>3 DEF ReplayCommit, Rows
        <3>2. r.msg = s.msg
            BY <1>1, <3>1 DEF TypeOK
        <3>. QED  BY <1>2, <3>2
    <2>. QED  BY <2>1, <2>2, <2>3
<1>4. SaveHandled'
    <2> SUFFICES ASSUME NEW w \in Workers, worker'[w].pc = "save"
                 PROVE  messages'[worker'[w].cur.msg].job \notin Unhandled
        BY DEF SaveHandled, JobOf
    <2>1. CASE worker'[w] = worker[w]
        <3>1. worker[w].cur.msg \in Sent
            BY <1>1, <2>1, BatchFacts DEF TypeOK
        <3>. QED  BY <1>1, <2>1, <3>1 DEF CInv, SaveHandled, JobOf, Grows
    <2>2. CASE worker'[w] # worker[w]
        <3>1. PICK v \in Workers : WorkerStep(v) \/ WorkerFault(v)
            BY <2>2 DEF Next, vars, Publish, Redeliver, EarlyTimeout,
               ReplayPublish, ReplayCommit, ReplayAborts
        <3>2. CASE Receive(v)
            BY <1>1, <2>2, <3>2, ReceiveMoves DEF OthersSame
        <3>3. CASE DeleteMessage(v)
            BY <1>1, <2>2, <3>3, DeleteMoves DEF OthersSame
        <3>4. CASE ~Receive(v) /\ ~DeleteMessage(v)
            <4>1. v = w /\ messages' = messages
                BY <1>1, <2>2, <3>1, <3>4, WorkerMoves DEF OthersSame
            <4>2. \/ \E d : Goto(w, "delete", d) \/ Continue(w, d)
                  \/ \E c : worker' = [worker EXCEPT ![w] = Polling(c)]
                  \/ \E d \in worker[w].batch :
                         JobOf(d) \notin Unhandled /\ Goto(w, "save", d)
                BY <3>1, <3>4, <4>1
                DEF WorkerStep, WorkerFault, EmptyReceive, DecodeFails,
                    NoHandler, HandlerReturns, HandlerRaises, Raises,
                    SaveFailedJob, ReceiveFails, SaveFails, DeleteFails, Crash,
                    NextQueue
            <4>3. PICK d \in worker[w].batch :
                      JobOf(d) \notin Unhandled /\ Goto(w, "save", d)
                BY <1>1, <4>2, GotoFacts, ContinueFacts, PollFacts
            <4>4. worker'[w].cur = d
                BY <1>1, <4>3, GotoFacts
            <4>. QED  BY <4>1, <4>3, <4>4 DEF JobOf
        <3>. QED  BY <3>1, <3>2, <3>3, <3>4
    <2>. QED  BY <2>1, <2>2
<1>. QED  BY <1>3, <1>4

LEMMA CInvStep ==
    ASSUME NamesMatch
    PROVE  CInv /\ [Next]_vars => CInv'
BY IInvStep, LatestLastStep, CompletedStep, HandledStep DEF CInv

(* Under this invariant a job's status is a matter of its history and of   *)
(* its queue: the dead-letter table never decides it.                      *)
Form(j) ==
    IF latest[j] = 0 THEN "new"
    ELSE IF completions[j] > 0 THEN "settled"
    ELSE IF Queued(j) THEN "queued"
    ELSE IF j \in Unhandled THEN "settled"
    ELSE "dead"

StatusRight == \A j \in Jobs : StatusOf(j) = Form(j)

LEMMA StatusForm == CInv => StatusRight
<1> SUFFICES ASSUME CInv, NEW j \in Jobs PROVE StatusOf(j) = Form(j)
    BY DEF StatusRight
<1>1. latest[j] \in Nat /\ completions[j] \in Nat
    BY SeqFacts DEF CInv, IInv, TypeOK
<1>2. ASSUME latest[j] > 0, completions[j] = 0, ~Queued(j), j \notin Unhandled
      PROVE  Pending(j)
    BY <1>2, IInvSafe DEF CInv, NoJobLost, Published
<1>3. Pending(j) => j \notin Unhandled
    BY DEF CInv, RowsHandled, Pending
<1>. QED  BY <1>1, <1>2, <1>3 DEF StatusOf, Form

(* A step that touches only job j takes j from one status to the next.     *)
LEMMA OneJobMoves ==
    ASSUME CInv, CInv', NEW j \in Jobs,
           \A k \in Jobs \ {j} : Form(k)' = Form(k),
           NEW from, NEW to, Form(j) = from, Form(j)' = to
    PROVE  Contract!Move(j, from, to)
<1>1. StatusRight /\ StatusRight'
    BY StatusForm, PTL
<1>2. \A k \in Jobs : StatusOf(k) = Form(k) /\ StatusOf(k)' = Form(k)'
    BY <1>1 DEF StatusRight
<1>. QED  BY <1>2 DEF Contract!Move

statusNow == [j \in Jobs |-> StatusOf(j)]

(* Steps that kill no message, send none and complete none are stutters.   *)
LEMMA QuietStep ==
    ASSUME CInv, CInv', Sent' = Sent,
           \A i \in Sent : /\ messages'[i].job = messages[i].job
                           /\ messages'[i].state = "deleted" <=>
                                  messages[i].state = "deleted",
           latest' = latest, completions' = completions
    PROVE  statusNow' = statusNow
<1>1. StatusRight /\ StatusRight'
    BY StatusForm, PTL
<1>2. \A j \in Jobs : Queued(j)' <=> Queued(j)
    BY DEF Queued, Live
<1>3. \A j \in Jobs : Form(j)' = Form(j)
    BY <1>2 DEF Form
<1>. QED  BY <1>1, <1>3 DEF StatusRight, statusNow

LEMMA ContractSend ==
    ASSUME CInv, CInv', NEW j \in Jobs, NEW q \in Configured, Send(j, q),
           completions' = completions, latest[j] = 0 \/ j \notin Unhandled
    PROVE  Contract!Next \/ statusNow' = statusNow
<1>0. TypeOK
    BY DEF CInv, IInv
<1>1. PICK n \in Nat : /\ n \notin Sent
                       /\ Sent' = Sent \cup {n}
                       /\ \A i \in Sent : messages'[i] = messages[i]
                       /\ messages'[n].job = j
                       /\ messages'[n].state = "visible"
    BY <1>0, SendMoves
<1>2. latest'[j] > 0 /\ \A k \in Jobs \ {j} : latest'[k] = latest[k]
    BY <1>0, SeqFacts DEF Send, TypeOK
<1>3. Queued(j)' /\ \A k \in Jobs \ {j} : Queued(k)' <=> Queued(k)
    BY <1>1 DEF Queued, Live
<1>4. \A k \in Jobs \ {j} : Form(k)' = Form(k)
    BY <1>2, <1>3 DEF Form
<1>5. latest[j] \in Nat /\ latest'[j] \in Nat /\ completions[j] \in Nat
    BY <1>0, SeqFacts DEF CInv, IInv, TypeOK, Send
<1>6. CASE Form(j)' = Form(j)
    <2>1. StatusRight /\ StatusRight'
        BY StatusForm, PTL
    <2>. QED  BY <1>4, <1>6, <2>1 DEF StatusRight, statusNow
<1>7. CASE Form(j)' # Form(j)
    <2>1. completions[j] = 0
        BY <1>2, <1>5, <1>7 DEF Form, CInv, CompletedSent
    <2>2. Form(j)' = "queued"
        BY <1>2, <1>3, <1>5, <2>1 DEF Form
    <2>3. Form(j) = "new" \/ Form(j) = "dead"
        BY <1>5, <1>7, <2>1, <2>2 DEF Form
    <2>4. Contract!Accept(j) \/ Contract!Replay(j)
        BY <1>4, <2>2, <2>3, OneJobMoves DEF Contract!Accept, Contract!Replay
    <2>. QED  BY <2>4 DEF Contract!Next
<1>. QED  BY <1>6, <1>7

LEMMA ContractReturn ==
    ASSUME CInv, CInv', NEW w \in Workers, HandlerReturns(w)
    PROVE  Contract!Next \/ statusNow' = statusNow
<1>0. TypeOK
    BY DEF CInv, IInv
<1>1. PICK d \in worker[w].batch :
          /\ JobOf(d) \notin Unhandled
          /\ completions' = [completions EXCEPT ![JobOf(d)] = @ + 1]
    BY DEF HandlerReturns
<1>2. messages' = messages /\ latest' = latest
    BY DEF HandlerReturns
<1>3. PICK j \in Jobs : j = JobOf(d)
    BY <1>0, BatchFacts
<1>4. d.msg \in Sent /\ latest[j] >= d.msg /\ latest[j] \in Nat
    BY <1>0, <1>3, BatchFacts, SeqFacts DEF CInv, LatestLast, JobOf, TypeOK
<1>5. latest[j] > 0
    BY <1>0, <1>4, SeqFacts DEF Sent
<1>6. /\ completions[j] \in Nat /\ completions'[j] > 0
      /\ \A k \in Jobs \ {j} : completions'[k] = completions[k]
    BY <1>0, <1>1, <1>3 DEF TypeOK
<1>7. \A k \in Jobs : Queued(k)' <=> Queued(k)
    BY <1>2 DEF Queued, Live, Sent
<1>8. \A k \in Jobs \ {j} : Form(k)' = Form(k)
    BY <1>2, <1>6, <1>7 DEF Form
<1>9. Form(j)' = "settled"
    BY <1>2, <1>5, <1>6 DEF Form
<1>10. Form(j) \in {"settled", "queued", "dead"}
    BY <1>5 DEF Form
<1>11. CASE Form(j) = "settled"
    <2>1. StatusRight /\ StatusRight'
        BY StatusForm, PTL
    <2>. QED  BY <1>8, <1>9, <1>11, <2>1 DEF StatusRight, statusNow
<1>12. CASE Form(j) = "queued" \/ Form(j) = "dead"
    <2>1. Contract!Settle(j) \/ Contract!SettleLate(j)
        BY <1>8, <1>9, <1>12, OneJobMoves DEF Contract!Settle, Contract!SettleLate
    <2>. QED  BY <2>1 DEF Contract!Next, Contract!Serve
<1>. QED  BY <1>10, <1>11, <1>12

LEMMA ContractDelete ==
    ASSUME CInv, CInv', NEW w \in Workers, DeleteMessage(w)
    PROVE  Contract!Next \/ statusNow' = statusNow
<1>0. TypeOK
    BY DEF CInv, IInv
<1>1. PICK i \in Sent : /\ Sent' = Sent
                        /\ \A k \in Sent : /\ messages'[k].job = messages[k].job
                                           /\ k # i => messages'[k] = messages[k]
                        /\ \/ messages'[i].state = "deleted"
                           \/ messages' = messages
    BY <1>0, DeleteMoves
<1>2. latest' = latest /\ completions' = completions
    BY DEF DeleteMessage
<1>3. PICK j \in Jobs : j = messages[i].job
    BY <1>0, SeqFacts DEF Message
<1>4. /\ Queued(j)' => Queued(j)
      /\ \A k \in Jobs \ {j} : Queued(k)' <=> Queued(k)
    BY <1>1, <1>3 DEF Queued, Live
<1>5. \A k \in Jobs \ {j} : Form(k)' = Form(k)
    BY <1>2, <1>4 DEF Form
<1>6. CASE Form(j)' = Form(j)
    <2>1. StatusRight /\ StatusRight'
        BY StatusForm, PTL
    <2>. QED  BY <1>5, <1>6, <2>1 DEF StatusRight, statusNow
<1>7. CASE Form(j)' # Form(j)
    <2>1. Form(j) = "queued" /\ Form(j)' \in {"settled", "dead"}
        BY <1>2, <1>4, <1>7 DEF Form
    <2>2. Contract!Settle(j) \/ Contract!DeadLetter(j)
        BY <1>5, <2>1, OneJobMoves DEF Contract!Settle, Contract!DeadLetter
    <2>. QED  BY <2>2 DEF Contract!Next, Contract!Serve
<1>. QED  BY <1>6, <1>7

LEMMA ContractStep ==
    ASSUME CInv, CInv', [Next]_vars
    PROVE  Contract!Next \/ statusNow' = statusNow
<1>0. TypeOK
    BY DEF CInv, IInv
<1>1. ASSUME NEW w \in Workers, WorkerStep(w) \/ WorkerFault(w)
      PROVE  Contract!Next \/ statusNow' = statusNow
    <2>1. CASE Receive(w)
        <3>1. latest' = latest /\ completions' = completions
            BY <2>1 DEF Receive
        <3>2. Sent' = Sent /\ \A i \in Sent :
                  /\ messages'[i].job = messages[i].job
                  /\ messages'[i].state = "deleted" <=>
                         messages[i].state = "deleted"
            BY <1>0, <2>1, ReceiveMoves
        <3>. QED  BY <3>1, <3>2, QuietStep
    <2>2. CASE DeleteMessage(w)
        BY <2>2, ContractDelete
    <2>3. CASE HandlerReturns(w)
        BY <2>3, ContractReturn
    <2>4. CASE ~Receive(w) /\ ~DeleteMessage(w) /\ ~HandlerReturns(w)
        <3>1. messages' = messages
            BY <1>0, <1>1, <2>4, WorkerMoves
        <3>2. latest' = latest /\ completions' = completions
            BY <1>1, <2>4 DEF WorkerStep, WorkerFault, EmptyReceive,
               DecodeFails, NoHandler, HandlerRaises, Raises, SaveFailedJob,
               ReceiveFails, SaveFails, DeleteFails, Crash
        <3>. QED  BY <3>1, <3>2, QuietStep DEF Sent
    <2>. QED  BY <2>1, <2>2, <2>3, <2>4
<1>2. ASSUME NEW i \in Sent, Redeliver(i) \/ EarlyTimeout(i)
      PROVE  statusNow' = statusNow
    <2>1. latest' = latest /\ completions' = completions
        BY <1>2 DEF Redeliver, EarlyTimeout
    <2>. QED  BY <1>0, <1>2, <2>1, TimeoutMoves, QuietStep
<1>3. ASSUME NEW j \in Jobs, Publish(j)
      PROVE  Contract!Next \/ statusNow' = statusNow
    <2>1. /\ QueueOf[j] \in Configured /\ Send(j, QueueOf[j])
          /\ latest[j] = 0 /\ completions' = completions
        BY <1>3 DEF Publish
    <2>. QED  BY <2>1, ContractSend
<1>4. ASSUME NEW a \in Admins, ReplayPublish(a)
      PROVE  Contract!Next \/ statusNow' = statusNow
    <2> DEFINE name(r) == UrlName[messages[r.msg].queue]
    <2>1. PICK r \in failedJobs : IF name(r) \in Configured
                                  THEN Send(messages[r.msg].job, name(r))
                                  ELSE UNCHANGED <<messages, latest>>
        BY <1>4 DEF ReplayPublish
    <2>2. completions' = completions
        BY <1>4 DEF ReplayPublish
    <2>3. messages[r.msg].job \in Jobs \ Unhandled
        BY <1>0, SeqFacts DEF TypeOK, Message, CInv, RowsHandled
    <2>4. CASE name(r) \in Configured
        BY <2>1, <2>2, <2>3, <2>4, ContractSend
    <2>5. CASE name(r) \notin Configured
        BY <2>1, <2>2, <2>5, QuietStep DEF Sent
    <2>. QED  BY <2>4, <2>5
<1>5. ASSUME NEW a \in Admins, ReplayCommit(a) \/ ReplayAborts(a)
      PROVE  statusNow' = statusNow
    BY <1>5, QuietStep DEF ReplayCommit, ReplayAborts, Sent
<1>6. CASE UNCHANGED vars
    BY <1>6, QuietStep DEF vars, Sent
<1>. QED  BY <1>1, <1>2, <1>3, <1>4, <1>5, <1>6 DEF Next

(* With the names matching, the queues, workers, retries, dead letters and *)
(* replays do what JobContract promises of each job: accepted jobs are     *)
(* served, parked or waiting, a settled job stays settled, none is lost.   *)
THEOREM ContractKept ==
    ASSUME NamesMatch
    PROVE  Spec => ImplementsContract
<1>1. CInv /\ [Next]_vars => CInv'
    BY CInvStep
<1>2. Init => Contract!Init
    <2> SUFFICES ASSUME Init PROVE Contract!Init
        OBVIOUS
    <2>1. StatusRight /\ \A j \in Jobs : latest[j] = 0
        BY CInvInit, StatusForm DEF Init
    <2>. QED  BY <2>1 DEF StatusRight, Form, Contract!Init
<1>3. CInv /\ CInv' /\ [Next]_vars => [Contract!Next]_statusNow
    BY ContractStep
<1>. QED
    BY <1>1, <1>2, <1>3, CInvInit, PTL
    DEF Spec, ImplementsContract, Contract!Spec, statusNow
=============================================================================
