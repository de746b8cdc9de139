------------------------- MODULE JobQueueRetryProofs -------------------------
(***************************************************************************)
(* Proofs about the retries of JobQueue, for any number of workers, admins,*)
(* jobs, queues and messages: how often a message is delivered, how often  *)
(* a handler runs, and that a job in the dead-letter list is off its queue.*)
(***************************************************************************)
EXTENDS JobQueueProofs, FiniteSetTheorems

-----------------------------------------------------------------------------
(* Hands: a polling worker has none, a receipt is never newer than the     *)
(* receive count of its message, and no delivery is in two hands.          *)
HandsEmpty  == \A w \in Workers :
                   worker[w].pc = "poll" => worker[w].batch = {}
ReceiptsOld == \A w \in Workers : \A d \in worker[w].batch :
                   d.receipt <= messages[d.msg].rc
OneHand     == \A v, w \in Workers : v # w =>
                   worker[v].batch \cap worker[w].batch = {}

Hands   == HandsEmpty /\ ReceiptsOld /\ OneHand
HandInv == TypeOK /\ Hands

LEMMA HandInit == Init => HandInv
<1> SUFFICES ASSUME Init PROVE HandInv
    OBVIOUS
<1>1. \A w \in Workers : worker[w].batch = {}
    BY DEF Init, Polling
<1>. QED  BY <1>1, TypeInit DEF HandInv, Hands, HandsEmpty, ReceiptsOld, OneHand

(* Steps in which hands only lose deliveries and no message is received.   *)
LEMMA HandsShrink ==
    ASSUME HandInv,
           \A w \in Workers : /\ worker'[w].batch \subseteq worker[w].batch
                              /\ worker'[w].pc = "poll" => worker'[w].batch = {},
           \A i \in Sent : messages'[i].rc = messages[i].rc
    PROVE  Hands'
<1>1. \A w \in Workers : \A d \in worker[w].batch : d.msg \in Sent
    BY BatchFacts DEF HandInv
<1>2. HandsEmpty'
    BY DEF HandsEmpty
<1>3. ReceiptsOld'
    BY <1>1 DEF HandInv, Hands, ReceiptsOld
<1>4. OneHand'
    BY DEF HandInv, Hands, OneHand
<1>. QED  BY <1>2, <1>3, <1>4 DEF Hands

LEMMA HandReceive ==
    ASSUME HandInv, NEW w \in Workers, Receive(w)
    PROVE  Hands'
<1>1. PICK B \in SUBSET Sent :
          /\ \A i \in B : messages'[i].rc = messages[i].rc + 1
          /\ \A i \in Sent \ B : messages'[i] = messages[i]
          /\ OthersSame(w)
          /\ worker'[w].pc = "next"
          /\ worker'[w].batch =
                 {[msg |-> i, receipt |-> messages[i].rc + 1] : i \in B}
    BY ReceiveMoves DEF HandInv
<1>2. \A i \in Sent : messages[i].rc \in Nat
    BY SeqFacts DEF HandInv, Message
<1>3. \A v \in Workers : \A d \in worker[v].batch :
          d.msg \in Sent /\ d.receipt \in Nat /\ d.receipt <= messages[d.msg].rc
    BY BatchFacts DEF HandInv, Hands, ReceiptsOld
<1>4. \A d \in worker'[w].batch :
          d.msg \in B /\ d.receipt = messages[d.msg].rc + 1
    BY <1>1
<1>5. HandsEmpty'
    BY <1>1 DEF HandInv, Hands, HandsEmpty, OthersSame
<1>6. ReceiptsOld'
    <2> SUFFICES ASSUME NEW v \in Workers, NEW d \in worker'[v].batch
                 PROVE  d.receipt <= messages'[d.msg].rc
        BY DEF ReceiptsOld
    <2>1. CASE v = w
        BY <1>1, <1>2, <1>4, <2>1
    <2>2. CASE v # w
        <3>1. d \in worker[v].batch
            BY <1>1, <2>2 DEF OthersSame
        <3>2. messages[d.msg].rc <= messages'[d.msg].rc
            BY <1>1, <1>2, <1>3, <3>1
        <3>. QED  BY <1>1, <1>2, <1>3, <3>1, <3>2
    <2>. QED  BY <2>1, <2>2
<1>7. OneHand'
    <2>1. ASSUME NEW v \in Workers, v # w
          PROVE  worker'[v].batch \cap worker'[w].batch = {}
        <3>1. worker'[v].batch = worker[v].batch
            BY <1>1, <2>1 DEF OthersSame
        <3>2. \A d \in worker[v].batch : d.receipt # messages[d.msg].rc + 1
            BY <1>2, <1>3
        <3>. QED  BY <1>4, <3>1, <3>2
    <2>2. \A u, v \in Workers : u # v /\ u # w /\ v # w =>
              worker'[u].batch \cap worker'[v].batch = {}
        BY <1>1 DEF OthersSame, HandInv, Hands, OneHand
    <2>. QED  BY <2>1, <2>2 DEF OneHand
<1>. QED  BY <1>5, <1>6, <1>7 DEF Hands

LEMMA HandStep == HandInv /\ [Next]_vars => HandInv'
<1> SUFFICES ASSUME HandInv, [Next]_vars PROVE Hands'
    BY TypeStep DEF HandInv
<1>1. TypeOK
    BY DEF HandInv
<1>2. ASSUME NEW w \in Workers, WorkerStep(w) \/ WorkerFault(w)
      PROVE  Hands'
    <2>1. CASE Receive(w)
        BY <2>1, HandReceive
    <2>2. CASE DeleteMessage(w)
        BY <1>1, <2>2, DeleteMoves, HandsShrink DEF OthersSame, HandInv, Hands, HandsEmpty
    <2>3. CASE ~Receive(w) /\ ~DeleteMessage(w)
        BY <1>1, <1>2, <2>3, WorkerMoves, HandsShrink
        DEF OthersSame, HandInv, Hands, HandsEmpty
    <2>. QED  BY <2>1, <2>2, <2>3
<1>3. ASSUME NEW i \in Sent, Redeliver(i) \/ EarlyTimeout(i)
      PROVE  Hands'
    BY <1>1, <1>3, TimeoutMoves, HandsShrink DEF HandInv, Hands, HandsEmpty
<1>4. CASE \/ \E j \in Jobs : Publish(j)
           \/ \E a \in Admins : \/ ReplayPublish(a)
                                \/ ReplayCommit(a)
                                \/ ReplayAborts(a)
    <2>1. worker' = worker
          /\ (messages' = messages \/ \E j \in Jobs, q \in Configured : Send(j, q))
        BY <1>1, <1>4, AdminMoves
    <2>2. \A i \in Sent : messages'[i].rc = messages[i].rc
        BY <1>1, <2>1, SendMoves
    <2>. QED  BY <1>1, <2>1, <2>2, HandsShrink DEF HandInv, Hands, HandsEmpty
<1>5. CASE UNCHANGED vars
    BY <1>1, <1>5, HandsShrink DEF vars, HandInv, Hands, HandsEmpty
<1>. QED  BY <1>2, <1>3, <1>4, <1>5 DEF Next

(* The delivery of message i that would still count if it came now.        *)
Newest(i)  == [msg |-> i, receipt |-> messages[i].rc]
InBatch(d) == \E w \in Workers : d \in worker[w].batch

LEMMA HeldNewest ==
    ASSUME TypeOK, NEW i \in Sent
    PROVE  Held(i) <=> InBatch(Newest(i))
<1>1. ASSUME NEW w \in Workers, NEW d \in worker[w].batch,
             d.msg = i, ~Stale(d)
      PROVE  d = Newest(i)
    <2>1. d \in Delivery(Len(messages))
        BY DEF TypeOK, WorkerRecord
    <2>. QED  BY <1>1, <2>1 DEF Delivery, Newest, Stale
<1>2. ASSUME NEW w \in Workers, Newest(i) \in worker[w].batch
      PROVE  \E d \in worker[w].batch : d.msg = i /\ ~Stale(d)
    BY <1>2 DEF Newest, Stale
<1>. QED  BY <1>1, <1>2 DEF Held, InBatch

-----------------------------------------------------------------------------
(* How often a message is received.  ReceivesBounded is not inductive: it  *)
(* takes that a message which SQS may hand out again has not used up its   *)
(* deliveries, so a worker that drops its newest delivery has retries left.*)

Redeliverable(i) == \/ messages[i].state = "visible"
                    \/ messages[i].state = "inflight" /\ ~InBatch(Newest(i))

BoundInv ==
    \A i \in Sent : /\ messages[i].rc <= MaxRetries + faults
                    /\ Redeliverable(i) => messages[i].rc < MaxRetries + faults

LEMMA BoundInit == Init => BoundInv
BY DEF Init, BoundInv, Sent

(* Hands keep a delivery that the worker taking the step does not drop.    *)
LEMMA InBatchKept ==
    ASSUME NEW w \in Workers, OthersSame(w), NEW d, InBatch(d),
           d \in worker[w].batch => d \in worker'[w].batch
    PROVE  InBatch(d)'
BY DEF InBatch, OthersSame

LEMMA BoundFault ==
    ASSUME TypeOK, BoundInv, faults' = faults + 1, Sent' = Sent,
           \A i \in Sent : messages'[i].rc = messages[i].rc
    PROVE  BoundInv'
<1>1. \A i \in Sent : messages[i].rc \in Nat
    BY SeqFacts DEF Message
<1>2. MaxRetries \in Nat /\ faults \in Nat
    BY ConstantsOK DEF ConstantsOK, TypeOK
<1>. QED  BY <1>1, <1>2 DEF BoundInv

LEMMA BoundReceive ==
    ASSUME HandInv, BoundInv, NEW w \in Workers, Receive(w)
    PROVE  BoundInv'
<1>1. PICK B \in SUBSET Sent :
          /\ \A i \in B : /\ messages[i].state = "visible"
                          /\ messages'[i].state = "inflight"
                          /\ messages'[i].rc = messages[i].rc + 1
          /\ \A i \in Sent \ B : messages'[i] = messages[i]
          /\ Sent' = Sent
          /\ OthersSame(w)
          /\ worker[w].pc = "poll"
          /\ worker'[w].batch =
                 {[msg |-> i, receipt |-> messages[i].rc + 1] : i \in B}
    BY ReceiveMoves DEF HandInv
<1>2. faults' = faults /\ faults \in Nat /\ MaxRetries \in Nat
    BY ConstantsOK DEF ConstantsOK, HandInv, TypeOK, Receive
<1> SUFFICES ASSUME NEW i \in Sent
             PROVE  /\ messages'[i].rc <= MaxRetries + faults
                    /\ Redeliverable(i)' => messages'[i].rc < MaxRetries + faults
    BY <1>1, <1>2 DEF BoundInv
<1>3. messages[i].rc \in Nat
    BY SeqFacts DEF HandInv, Message
<1>4. CASE i \in B
    <2>1. messages[i].rc < MaxRetries + faults
        BY <1>1, <1>4 DEF BoundInv, Redeliverable
    <2>2. Newest(i)' \in worker'[w].batch
        BY <1>1, <1>4 DEF Newest
    <2>3. ~Redeliverable(i)'
        BY <1>1, <1>4, <2>2 DEF Redeliverable, InBatch
    <2>. QED  BY <1>1, <1>2, <1>3, <1>4, <2>1, <2>3
<1>5. CASE i \notin B
    <2>1. messages'[i] = messages[i] /\ Newest(i)' = Newest(i)
        BY <1>1, <1>5 DEF Newest
    <2>2. worker[w].batch = {}
        BY <1>1 DEF HandInv, Hands, HandsEmpty
    <2>3. InBatch(Newest(i)) => InBatch(Newest(i))'
        BY <1>1, <2>1, <2>2 DEF InBatch, OthersSame
    <2>. QED  BY <2>1, <2>3 DEF BoundInv, Redeliverable
<1>. QED  BY <1>4, <1>5

LEMMA BoundDelete ==
    ASSUME HandInv, BoundInv, NEW w \in Workers, DeleteMessage(w)
    PROVE  BoundInv'
<1> DEFINE d == worker[w].cur
<1>1. /\ Sent' = Sent
      /\ \A i \in Sent : /\ messages'[i].rc = messages[i].rc
                         /\ i # d.msg => messages'[i] = messages[i]
      /\ messages'[d.msg].state = "deleted" \/ (messages' = messages /\ Stale(d))
      /\ OthersSame(w)
      /\ worker'[w].batch = worker[w].batch \ {d}
    BY DeleteMoves DEF HandInv
<1>2. faults' = faults
    BY DEF DeleteMessage
<1>. HIDE DEF d
<1> SUFFICES ASSUME NEW i \in Sent, Redeliverable(i)'
             PROVE  Redeliverable(i)
    BY <1>1, <1>2 DEF BoundInv
<1>3. messages'[i] = messages[i] /\ Newest(i)' = Newest(i)
    BY <1>1 DEF Redeliverable, Newest
<1>4. Newest(i) # d
    BY <1>1, <1>3 DEF Redeliverable, Newest, Stale
<1>5. InBatch(Newest(i)) => InBatch(Newest(i))'
    BY <1>1, <1>3, <1>4 DEF InBatch, OthersSame
<1>. QED  BY <1>3, <1>5 DEF Redeliverable

(* poll_queue lets go of a delivery without deleting its message only when *)
(* the handler raises with retries left.                                   *)
LEMMA BoundRaises ==
    ASSUME HandInv, BoundInv, NEW w \in Workers, HandlerRaises(w)
    PROVE  BoundInv'
<1>1. PICK d \in worker[w].batch :
          \/ Goto(w, "save", d)
          \/ ~(d.receipt >= MaxRetries) /\ Continue(w, d)
    BY DEF HandlerRaises, Raises
<1>2. messages' = messages /\ faults' = faults /\ Sent' = Sent
    BY DEF HandlerRaises, Raises, Sent
<1>3. d.msg \in Sent /\ d.receipt \in Nat
    BY BatchFacts DEF HandInv
<1>4. OthersSame(w) /\ (\/ worker'[w].batch = worker[w].batch
                        \/ /\ d.receipt < MaxRetries
                           /\ worker'[w].batch = worker[w].batch \ {d})
    BY <1>1, <1>3, GotoFacts, ContinueFacts, ConstantsOK DEF HandInv, ConstantsOK
<1>5. MaxRetries \in Nat /\ faults \in Nat
    BY ConstantsOK DEF ConstantsOK, HandInv, TypeOK
<1> SUFFICES ASSUME NEW i \in Sent, Redeliverable(i)', ~Redeliverable(i)
             PROVE  messages[i].rc < MaxRetries + faults
    BY <1>2 DEF BoundInv
<1>6. Newest(i)' = Newest(i)
    BY <1>2 DEF Newest
<1>7. InBatch(Newest(i)) /\ ~InBatch(Newest(i))'
    BY <1>2, <1>6 DEF Redeliverable
<1>8. Newest(i) = d /\ d.receipt < MaxRetries
    BY <1>4, <1>6, <1>7 DEF InBatch, OthersSame
<1>9. messages[i].rc = d.receipt
    BY <1>8 DEF Newest
<1>. QED  BY <1>3, <1>5, <1>8, <1>9

LEMMA BoundWorker ==
    ASSUME HandInv, BoundInv, NEW w \in Workers, WorkerStep(w) \/ WorkerFault(w)
    PROVE  BoundInv'
<1>0. TypeOK
    BY DEF HandInv
<1>1. CASE NoHandler(w) \/ HandlerReturns(w) \/ SaveFailedJob(w)
    <2>1. PICK d, pc : Goto(w, pc, d)
        BY <1>1 DEF NoHandler, HandlerReturns, SaveFailedJob
    <2>2. messages' = messages /\ faults' = faults
        BY <1>1 DEF NoHandler, HandlerReturns, SaveFailedJob
    <2>3. \A v \in Workers : worker'[v].batch = worker[v].batch
        BY <1>0, <2>1, GotoFacts DEF OthersSame
    <2>. QED
        BY <2>2, <2>3 DEF BoundInv, Redeliverable, InBatch, Newest, Sent
<1>2. CASE EmptyReceive(w)
    <2>1. NextQueue(w) /\ messages' = messages /\ faults' = faults
        BY <1>2 DEF EmptyReceive
    <2>2. worker[w].batch = {}
        BY <1>2 DEF EmptyReceive, HandInv, Hands, HandsEmpty
    <2>3. \A v \in Workers : worker'[v].batch = worker[v].batch
        BY <1>0, <2>1, <2>2, PollFacts DEF NextQueue, OthersSame
    <2>. QED
        BY <2>1, <2>3 DEF BoundInv, Redeliverable, InBatch, Newest, Sent
<1>3. CASE DecodeFails(w) \/ WorkerFault(w)
    <2>1. messages' = messages /\ faults' = faults + 1
        BY <1>3 DEF DecodeFails, WorkerFault, ReceiveFails, SaveFails,
           DeleteFails, Crash, Fault
    <2>. QED  BY <1>0, <2>1, BoundFault DEF Sent
<1>. QED
    BY <1>1, <1>2, <1>3, BoundReceive, BoundDelete, BoundRaises DEF WorkerStep

LEMMA BoundStep == HandInv /\ BoundInv /\ [Next]_vars => BoundInv'
<1> SUFFICES ASSUME HandInv, BoundInv, [Next]_vars PROVE BoundInv'
    OBVIOUS
<1>0. TypeOK /\ MaxRetries \in Nat \ {0} /\ faults \in Nat
    BY ConstantsOK DEF ConstantsOK, HandInv, TypeOK
<1>1. \A i \in Sent : messages[i].rc \in Nat
    BY <1>0, SeqFacts DEF Message
<1>2. ASSUME NEW i \in Sent, Redeliver(i) PROVE BoundInv'
    <2>1. Sent' = Sent /\ worker' = worker /\ faults' = faults
          /\ \A k \in Sent : /\ messages'[k].rc = messages[k].rc
                             /\ k # i => messages'[k] = messages[k]
        BY <1>0, <1>2, TimeoutMoves DEF Redeliver
    <2>2. Redeliverable(i)
        BY <1>0, <1>2, HeldNewest DEF Redeliver, Redeliverable
    <2>. QED  BY <2>1, <2>2 DEF BoundInv, Redeliverable, InBatch, Newest
<1>3. ASSUME NEW i \in Sent, EarlyTimeout(i) PROVE BoundInv'
    BY <1>0, <1>3, TimeoutMoves, BoundFault DEF EarlyTimeout, Fault
<1>4. ASSUME worker' = worker, faults' \in Nat, faults' >= faults,
             \/ messages' = messages
             \/ \E j \in Jobs, q \in Configured : Send(j, q)
      PROVE  BoundInv'
    <2>1. CASE messages' = messages
        BY <1>0, <1>1, <1>4, <2>1
        DEF BoundInv, Redeliverable, InBatch, Newest, Sent
    <2>2. CASE \E j \in Jobs, q \in Configured : Send(j, q)
        <3>1. PICK n \in Nat : /\ Sent' = Sent \cup {n}
                               /\ \A i \in Sent : messages'[i] = messages[i]
                               /\ messages'[n].rc = 0
            BY <1>0, <2>2, SendMoves
        <3>2. \A i \in Sent : Redeliverable(i)' <=> Redeliverable(i)
            BY <1>4, <3>1 DEF Redeliverable, InBatch, Newest
        <3>. QED  BY <1>0, <1>1, <1>4, <3>1, <3>2 DEF BoundInv
    <2>. QED  BY <1>4, <2>1, <2>2
<1>5. CASE \/ \E j \in Jobs : Publish(j)
           \/ \E a \in Admins : \/ ReplayPublish(a)
                                \/ ReplayCommit(a)
                                \/ ReplayAborts(a)
    BY <1>0, <1>4, <1>5, AdminMoves
<1>6. CASE UNCHANGED vars
    BY <1>0, <1>4, <1>6 DEF vars
<1>. QED  BY <1>2, <1>3, <1>5, <1>6, BoundWorker DEF Next

(* Whatever fails, a message is received at most _MAX_RETRIES times and    *)
(* once more for each fault: poll_queue lets a message go back to its      *)
(* queue only before the last retry.                                       *)
THEOREM RetriesBounded == Spec => []ReceivesBounded
<1>1. HandInv /\ BoundInv => ReceivesBounded
    BY DEF BoundInv, ReceivesBounded
<1>. QED  BY <1>1, HandInit, HandStep, BoundInit, BoundStep, PTL DEF Spec

-----------------------------------------------------------------------------
(* Without faults.  Every delivery in hand is then the newest of a message *)
(* that is in flight, so a message written to failed_jobs stays in hand    *)
(* until it is deleted.                                                    *)

InHandFresh == \A w \in Workers : \A d \in worker[w].batch :
                   ~Stale(d) /\ messages[d.msg].state = "inflight"
RowsLeaving == \A r \in failedJobs : Live(r.msg) => BeingDeleted(r.msg)

CalmInv == faults = 0 => InHandFresh /\ RowsLeaving

LEMMA CalmInit == Init => CalmInv
BY DEF Init, Polling, CalmInv, InHandFresh, RowsLeaving

LEMMA CalmSafe == HandInv /\ CalmInv => DeadOrQueued
BY DEF HandInv, TypeOK, CalmInv, InHandFresh, RowsLeaving, BeingDeleted,
   DeadOrQueued

(* A worker that takes a step other than DeleteMessage stops no deletion.  *)
LEMMA DeletionsKept ==
    ASSUME NEW w \in Workers, OthersSame(w), worker[w].pc # "delete",
           NEW i, BeingDeleted(i)
    PROVE  BeingDeleted(i)'
BY DEF OthersSame, BeingDeleted

LEMMA CalmReceive ==
    ASSUME HandInv, InHandFresh, RowsLeaving, NEW w \in Workers, Receive(w)
    PROVE  InHandFresh' /\ RowsLeaving'
<1>1. PICK B \in SUBSET Sent :
          /\ \A i \in B : /\ messages[i].state = "visible"
                          /\ messages'[i].state = "inflight"
                          /\ messages'[i].rc = messages[i].rc + 1
          /\ \A i \in Sent \ B : messages'[i] = messages[i]
          /\ OthersSame(w)
          /\ worker[w].pc = "poll"
          /\ worker'[w].batch =
                 {[msg |-> i, receipt |-> messages[i].rc + 1] : i \in B}
    BY ReceiveMoves DEF HandInv
<1>2. \A v \in Workers : \A d \in worker[v].batch : d.msg \in Sent
    BY BatchFacts DEF HandInv
<1>3. InHandFresh'
    <2> SUFFICES ASSUME NEW v \in Workers, NEW d \in worker'[v].batch
                 PROVE  /\ messages'[d.msg].rc = d.receipt
                        /\ messages'[d.msg].state = "inflight"
        BY DEF InHandFresh, Stale
    <2>1. CASE v = w
        <3>1. PICK i \in B : d = [msg |-> i, receipt |-> messages[i].rc + 1]
            BY <1>1, <2>1
        <3>. QED  BY <1>1, <3>1
    <2>2. CASE v # w
        <3>1. d \in worker[v].batch
            BY <1>1, <2>2 DEF OthersSame
        <3>2. d.msg \in Sent /\ d.msg \notin B
            BY <1>1, <1>2, <3>1 DEF InHandFresh
        <3>. QED  BY <1>1, <3>1, <3>2 DEF InHandFresh, Stale
    <2>. QED  BY <2>1, <2>2
<1>4. RowsLeaving'
    <2> SUFFICES ASSUME NEW r \in failedJobs, Live(r.msg)'
                 PROVE  BeingDeleted(r.msg)'
        BY DEF RowsLeaving, Receive
    <2>1. Live(r.msg)
        <3>1. r.msg \in Sent
            BY DEF HandInv, TypeOK
        <3>. QED  BY <1>1, <3>1 DEF Live
    <2>. QED  BY <1>1, <2>1, DeletionsKept DEF RowsLeaving
<1>. QED  BY <1>3, <1>4

LEMMA CalmDelete ==
    ASSUME HandInv, InHandFresh, RowsLeaving, NEW w \in Workers, DeleteMessage(w)
    PROVE  InHandFresh' /\ RowsLeaving'
<1> DEFINE d == worker[w].cur
<1>1. /\ d \in worker[w].batch
      /\ \A i \in Sent : i # d.msg => messages'[i] = messages[i]
      /\ messages'[d.msg].state = "deleted" \/ (messages' = messages /\ Stale(d))
      /\ OthersSame(w)
      /\ worker'[w].batch = worker[w].batch \ {d}
    BY DeleteMoves DEF HandInv
<1>2. messages'[d.msg].state = "deleted"
    BY <1>1 DEF InHandFresh
<1>3. ASSUME NEW v \in Workers, NEW e \in worker'[v].batch
      PROVE  e \in worker[v].batch /\ e.msg # d.msg /\ e.msg \in Sent
    <2>1. e \in worker[v].batch
        BY <1>1 DEF OthersSame
    <2>2. e # d
        BY <1>1, <2>1 DEF HandInv, Hands, OneHand, OthersSame
    <2>3. e \in Delivery(Len(messages)) /\ d \in Delivery(Len(messages))
        BY <1>1, <2>1 DEF HandInv, TypeOK, WorkerRecord
    <2>4. e.receipt = messages[e.msg].rc /\ d.receipt = messages[d.msg].rc
        BY <1>1, <2>1 DEF InHandFresh, Stale
    <2>. QED  BY <2>1, <2>2, <2>3, <2>4 DEF Delivery, Sent
<1>4. InHandFresh'
    BY <1>1, <1>3 DEF InHandFresh, Stale
<1>5. RowsLeaving'
    <2> SUFFICES ASSUME NEW r \in failedJobs, Live(r.msg)'
                 PROVE  BeingDeleted(r.msg)'
        BY DEF RowsLeaving, DeleteMessage
    <2>1. r.msg # d.msg /\ r.msg \in Sent
        BY <1>2 DEF Live, HandInv, TypeOK
    <2>2. PICK v \in Workers : worker[v].pc = "delete" /\ worker[v].cur.msg = r.msg
        BY <1>1, <2>1 DEF RowsLeaving, Live, BeingDeleted
    <2>3. v # w
        BY <2>1, <2>2
    <2>. QED  BY <1>1, <2>2, <2>3 DEF BeingDeleted, OthersSame
<1>. QED  BY <1>4, <1>5

LEMMA CalmSave ==
    ASSUME HandInv, InHandFresh, RowsLeaving, NEW w \in Workers, SaveFailedJob(w)
    PROVE  InHandFresh' /\ RowsLeaving'
<1>0. PICK d : d = worker[w].cur
    OBVIOUS
<1> DEFINE row == [msg |-> d.msg, attempts |-> d.receipt, status |-> "pending"]
<1>1. /\ worker[w].pc = "save" /\ Goto(w, "delete", d)
      /\ messages' = messages
      /\ failedJobs' = failedJobs \cup {row}
    BY <1>0 DEF SaveFailedJob
<1>2. /\ OthersSame(w)
      /\ worker'[w].pc = "delete" /\ worker'[w].cur = d
      /\ worker'[w].batch = worker[w].batch
    BY <1>1, GotoFacts DEF HandInv
<1>3. row.msg = d.msg
    OBVIOUS
<1>. HIDE DEF row
<1>4. InHandFresh'
    BY <1>1, <1>2 DEF InHandFresh, OthersSame, Stale
<1>5. BeingDeleted(d.msg)'
    BY <1>2 DEF BeingDeleted
<1>6. \A r \in failedJobs : BeingDeleted(r.msg) => BeingDeleted(r.msg)'
    BY <1>1, <1>2, DeletionsKept
<1>. QED  BY <1>1, <1>3, <1>4, <1>5, <1>6 DEF RowsLeaving, Live

LEMMA CalmWorker ==
    ASSUME HandInv, InHandFresh, RowsLeaving, NEW w \in Workers, WorkerStep(w),
           ~DecodeFails(w)
    PROVE  InHandFresh' /\ RowsLeaving'
<1>1. CASE Receive(w) \/ DeleteMessage(w) \/ SaveFailedJob(w)
    BY <1>1, CalmReceive, CalmDelete, CalmSave
<1>2. CASE EmptyReceive(w) \/ NoHandler(w) \/ HandlerReturns(w) \/ HandlerRaises(w)
    <2>1. \/ ~Receive(w) /\ ~DeleteMessage(w) /\ worker[w].pc # "delete"
          \/ Receive(w)
        BY <1>2 DEF DeleteMessage, EmptyReceive, NoHandler, HandlerReturns,
           HandlerRaises, Raises
    <2>2. CASE ~Receive(w)
        <3>1. /\ messages' = messages /\ OthersSame(w)
              /\ worker'[w].batch \subseteq worker[w].batch
              /\ worker[w].pc # "delete"
            BY <2>1, <2>2, WorkerMoves DEF HandInv
        <3>2. failedJobs' = failedJobs
            BY <1>2 DEF EmptyReceive, NoHandler, HandlerReturns, HandlerRaises,
               Raises
        <3>3. InHandFresh'
            BY <3>1 DEF InHandFresh, OthersSame, Stale
        <3>4. RowsLeaving'
            BY <3>1, <3>2, DeletionsKept DEF RowsLeaving, Live
        <3>. QED  BY <3>3, <3>4
    <2>. QED  BY <2>2, CalmReceive
<1>. QED  BY <1>1, <1>2 DEF WorkerStep

LEMMA CalmStep == HandInv /\ CalmInv /\ [Next]_vars => CalmInv'
<1> SUFFICES ASSUME HandInv, CalmInv, [Next]_vars, faults' = 0
             PROVE  InHandFresh' /\ RowsLeaving'
    BY DEF CalmInv
<1>0. TypeOK /\ faults \in Nat
    BY DEF HandInv, TypeOK
<1>1. ASSUME NEW w \in Workers, WorkerStep(w) \/ WorkerFault(w)
      PROVE  InHandFresh' /\ RowsLeaving'
    <2>1. faults # 0 => DecodeFails(w) \/ faults' = faults \/ faults' = faults + 1
        BY <1>1 DEF WorkerStep, WorkerFault, Receive, EmptyReceive, NoHandler,
           HandlerReturns, HandlerRaises, Raises, SaveFailedJob, DeleteMessage,
           ReceiveFails, SaveFails, DeleteFails, Crash, Fault
    <2>2. ~DecodeFails(w) /\ ~WorkerFault(w)
        BY <1>0 DEF DecodeFails, WorkerFault, ReceiveFails, SaveFails,
           DeleteFails, Crash, Fault
    <2>3. faults = 0
        BY <1>0, <2>1, <2>2
    <2>. QED  BY <1>1, <2>2, <2>3, CalmWorker DEF CalmInv
<1>2. ASSUME NEW i \in Sent, Redeliver(i) \/ EarlyTimeout(i)
      PROVE  InHandFresh' /\ RowsLeaving'
    <2>1. Redeliver(i) /\ faults = 0
        BY <1>0, <1>2 DEF EarlyTimeout, Redeliver, Fault
    <2>2. /\ worker' = worker /\ failedJobs' = failedJobs
          /\ \A k \in Sent : k # i => messages'[k] = messages[k]
        BY <1>0, <2>1, TimeoutMoves DEF Redeliver
    <2>3. InHandFresh /\ RowsLeaving
        BY <2>1 DEF CalmInv
    <2>4. \A w \in Workers : \A d \in worker[w].batch : d.msg \in Sent /\ d.msg # i
        BY <1>0, <2>1, <2>3, BatchFacts DEF Redeliver, Held, InHandFresh
    <2>5. InHandFresh'
        BY <2>2, <2>3, <2>4 DEF InHandFresh, Stale
    <2>6. ~BeingDeleted(i)
        BY <1>0, <2>4 DEF BeingDeleted, TypeOK
    <2>7. \A r \in failedJobs : r.msg \in Sent
        BY <1>0 DEF TypeOK
    <2>8. Live(i)
        BY <2>1 DEF Live, Redeliver
    <2>9. RowsLeaving'
        BY <2>2, <2>3, <2>6, <2>7, <2>8 DEF RowsLeaving, Live, BeingDeleted
    <2>. QED  BY <2>5, <2>9
<1>3. ASSUME worker' = worker, faults = 0,
             \/ messages' = messages
             \/ \E j \in Jobs, q \in Configured : Send(j, q),
             \A r \in failedJobs' : \E s \in failedJobs : s.msg = r.msg
      PROVE  InHandFresh' /\ RowsLeaving'
    <2>1. InHandFresh /\ RowsLeaving
        BY <1>3 DEF CalmInv
    <2>2. \A i \in Sent : messages'[i] = messages[i]
        BY <1>0, <1>3, SendMoves
    <2>3. InHandFresh'
        BY <1>0, <1>3, <2>1, <2>2, BatchFacts DEF InHandFresh, Stale
    <2>4. \A r \in failedJobs : r.msg \in Sent
        BY <1>0 DEF TypeOK
    <2>5. RowsLeaving'
        BY <1>3, <2>1, <2>2, <2>4 DEF RowsLeaving, Live, BeingDeleted
    <2>. QED  BY <2>3, <2>5
<1>4. CASE \/ \E j \in Jobs : Publish(j)
           \/ \E a \in Admins : \/ ReplayPublish(a)
                                \/ ReplayCommit(a)
                                \/ ReplayAborts(a)
    <2>1. \A r \in failedJobs' : \E s \in failedJobs : s.msg = r.msg
        <3>1. ASSUME NEW a \in Admins, ReplayCommit(a), NEW r \in failedJobs'
              PROVE  \E s \in failedJobs : s.msg = r.msg
            <4>1. CASE r \in failedJobs
                BY <4>1
            <4>2. CASE r \notin failedJobs
                <5>1. PICK s \in failedJobs : r = [s EXCEPT !.status = "replayed"]
                    BY <3>1, <4>2 DEF ReplayCommit, Rows
                <5>. QED  BY <1>0, <5>1 DEF TypeOK
            <4>. QED  BY <4>1, <4>2
        <3>2. CASE failedJobs' = failedJobs
            BY <3>2
        <3>. QED
            BY <1>4, <3>1, <3>2 DEF Publish, ReplayPublish, ReplayAborts
    <2>2. faults = 0
        BY <1>0, <1>4, AdminMoves
    <2>. QED  BY <1>0, <1>3, <1>4, <2>1, <2>2, AdminMoves
<1>5. CASE UNCHANGED vars
    BY <1>3, <1>5 DEF vars
<1>. QED  BY <1>1, <1>2, <1>4, <1>5 DEF Next

(* Without faults a message with a failed_jobs row is off its queue or     *)
(* about to leave it by the hand of the worker that wrote the row: a job   *)
(* in the dead-letter list is never retried behind the admin's back.       *)
THEOREM DeadAreOffQueue == Spec => []DeadOrQueued
BY HandInit, HandStep, CalmInit, CalmStep, CalmSafe, PTL DEF Spec

-----------------------------------------------------------------------------
(* How often a handler returns.  A delivery is open while the handler may  *)
(* still return for it: it is in hand and not being deleted, or it is the  *)
(* next one that SQS will make of a message.  Each message opens one       *)
(* delivery, a return closes one, and only a fault opens another.          *)

Deliveries    == [msg : Sent, receipt : Nat]
MessagesOf(j) == {i \in Sent : messages[i].job = j}
Following(i)  == [msg |-> i, receipt |-> messages[i].rc + 1]

Unfinished(d) == \E w \in Workers : /\ d \in worker[w].batch
                                    /\ worker[w].pc = "delete" =>
                                           worker[w].cur # d
Due(d)        == \/ /\ messages[d.msg].state = "visible"
                    /\ d.receipt = messages[d.msg].rc + 1
                 \/ /\ messages[d.msg].state = "inflight"
                    /\ d.receipt = messages[d.msg].rc
                    /\ ~InBatch(d)
Open(d)       == Unfinished(d) \/ Due(d)
OpenOf(j)     == {d \in Deliveries : JobOf(d) = j /\ Open(d)}

Accounted(j) ==
    /\ IsFiniteSet(OpenOf(j))
    /\ completions[j] + Cardinality(OpenOf(j)) <=
           Cardinality(MessagesOf(j)) + faults

DupInv == \A j \in Jobs : Accounted(j)

LEMMA MessagesFinite ==
    ASSUME TypeOK, NEW j
    PROVE  IsFiniteSet(MessagesOf(j)) /\ Cardinality(MessagesOf(j)) \in Nat
<1>1. IsFiniteSet(Sent)
    BY SeqFacts, FS_Interval DEF Sent
<1>2. MessagesOf(j) \subseteq Sent
    BY DEF MessagesOf
<1>. QED  BY <1>1, <1>2, FS_Subset, FS_CardinalityType

LEMMA DupSafe == HandInv /\ DupInv => DuplicatesAccounted
<1> SUFFICES ASSUME HandInv, DupInv, NEW j \in Jobs
             PROVE  completions[j] <= Cardinality(MessagesOf(j)) + faults
    BY DEF DuplicatesAccounted, MessagesOf
<1>1. Cardinality(OpenOf(j)) \in Nat
    BY FS_CardinalityType DEF DupInv, Accounted
<1>2. completions[j] \in Nat /\ faults \in Nat
    BY DEF HandInv, TypeOK
<1>3. Cardinality(MessagesOf(j)) \in Nat
    BY MessagesFinite DEF HandInv
<1>. QED  BY <1>1, <1>2, <1>3 DEF DupInv, Accounted

LEMMA DupInit == Init => DupInv
<1> SUFFICES ASSUME Init, NEW j \in Jobs PROVE Accounted(j)
    BY DEF DupInv
<1>1. Sent = {} /\ completions[j] = 0 /\ faults = 0
    BY DEF Init, Sent
<1>2. OpenOf(j) = {} /\ MessagesOf(j) = {}
    BY <1>1 DEF OpenOf, Deliveries, MessagesOf
<1>. QED  BY <1>1, <1>2, FS_EmptySet DEF Accounted

(* The accounts of one job, by what a step does to its open deliveries.    *)

LEMMA CountShrinks ==
    ASSUME TypeOK, NEW j \in Jobs, Accounted(j),
           OpenOf(j)' \subseteq OpenOf(j), MessagesOf(j)' = MessagesOf(j),
           completions'[j] = completions[j], faults' \in Nat, faults' >= faults
    PROVE  Accounted(j)'
<1>1. /\ IsFiniteSet(OpenOf(j)')
      /\ Cardinality(OpenOf(j)') <= Cardinality(OpenOf(j))
    BY FS_Subset DEF Accounted
<1>2. Cardinality(OpenOf(j)') \in Nat /\ Cardinality(OpenOf(j)) \in Nat
    BY <1>1, FS_CardinalityType DEF Accounted
<1>3. Cardinality(MessagesOf(j)) \in Nat
    BY MessagesFinite
<1>4. completions[j] \in Nat /\ faults \in Nat
    BY DEF TypeOK
<1>. QED  BY <1>1, <1>2, <1>3, <1>4 DEF Accounted

LEMMA CountGains ==
    ASSUME TypeOK, NEW j \in Jobs, Accounted(j), NEW d,
           OpenOf(j)' \subseteq OpenOf(j) \cup {d},
           completions'[j] = completions[j], faults' \in Nat,
           Cardinality(MessagesOf(j)') \in Nat,
           Cardinality(MessagesOf(j)') + faults' >=
               Cardinality(MessagesOf(j)) + faults + 1
    PROVE  Accounted(j)'
<1>1. /\ IsFiniteSet(OpenOf(j) \cup {d})
      /\ \/ Cardinality(OpenOf(j) \cup {d}) = Cardinality(OpenOf(j)) + 1
         \/ Cardinality(OpenOf(j) \cup {d}) = Cardinality(OpenOf(j))
    BY FS_AddElement DEF Accounted
<1>2. /\ IsFiniteSet(OpenOf(j)')
      /\ Cardinality(OpenOf(j)') <= Cardinality(OpenOf(j) \cup {d})
    BY <1>1, FS_Subset
<1>3. /\ Cardinality(OpenOf(j)') \in Nat /\ Cardinality(OpenOf(j)) \in Nat
      /\ Cardinality(OpenOf(j) \cup {d}) \in Nat
    BY <1>1, <1>2, FS_CardinalityType DEF Accounted
<1>4. Cardinality(MessagesOf(j)) \in Nat
    BY MessagesFinite
<1>5. completions[j] \in Nat /\ faults \in Nat
    BY DEF TypeOK
<1>. QED  BY <1>1, <1>2, <1>3, <1>4, <1>5 DEF Accounted

LEMMA CountMoves ==
    ASSUME TypeOK, NEW j \in Jobs, Accounted(j), NEW c \in OpenOf(j), NEW d,
           OpenOf(j)' \subseteq (OpenOf(j) \ {c}) \cup {d},
           MessagesOf(j)' = MessagesOf(j),
           completions'[j] = completions[j], faults' = faults
    PROVE  Accounted(j)'
<1> DEFINE rest == OpenOf(j) \ {c}
<1>1. IsFiniteSet(rest) /\ Cardinality(rest) = Cardinality(OpenOf(j)) - 1
    BY FS_RemoveElement DEF Accounted
<1>2. /\ IsFiniteSet(rest \cup {d})
      /\ \/ Cardinality(rest \cup {d}) = Cardinality(rest) + 1
         \/ Cardinality(rest \cup {d}) = Cardinality(rest)
    BY <1>1, FS_AddElement
<1>3. /\ IsFiniteSet(OpenOf(j)')
      /\ Cardinality(OpenOf(j)') <= Cardinality(rest \cup {d})
    BY <1>2, FS_Subset
<1>4. /\ Cardinality(OpenOf(j)') \in Nat /\ Cardinality(OpenOf(j)) \in Nat
      /\ Cardinality(rest) \in Nat /\ Cardinality(rest \cup {d}) \in Nat
    BY <1>1, <1>2, <1>3, FS_CardinalityType DEF Accounted
<1>5. Cardinality(MessagesOf(j)) \in Nat
    BY MessagesFinite
<1>6. completions[j] \in Nat /\ faults \in Nat
    BY DEF TypeOK
<1>. HIDE DEF rest
<1>. QED  BY <1>1, <1>2, <1>3, <1>4, <1>5, <1>6 DEF Accounted

LEMMA CountReturn ==
    ASSUME TypeOK, NEW j \in Jobs, Accounted(j), NEW d \in OpenOf(j),
           OpenOf(j)' \subseteq OpenOf(j) \ {d},
           MessagesOf(j)' = MessagesOf(j),
           completions'[j] = completions[j] + 1, faults' = faults
    PROVE  Accounted(j)'
<1> DEFINE rest == OpenOf(j) \ {d}
<1>1. IsFiniteSet(rest) /\ Cardinality(rest) = Cardinality(OpenOf(j)) - 1
    BY FS_RemoveElement DEF Accounted
<1>2. IsFiniteSet(OpenOf(j)') /\ Cardinality(OpenOf(j)') <= Cardinality(rest)
    BY <1>1, FS_Subset
<1>3. /\ Cardinality(OpenOf(j)') \in Nat /\ Cardinality(OpenOf(j)) \in Nat
      /\ Cardinality(rest) \in Nat
    BY <1>1, <1>2, FS_CardinalityType DEF Accounted
<1>4. Cardinality(MessagesOf(j)) \in Nat
    BY MessagesFinite
<1>5. completions[j] \in Nat /\ faults \in Nat
    BY DEF TypeOK
<1>. HIDE DEF rest
<1>. QED  BY <1>1, <1>2, <1>3, <1>4, <1>5 DEF Accounted

(* Steps that send nothing keep the jobs' messages and, apart from what    *)
(* they open, their open deliveries.                                       *)
LEMMA OpenWithin ==
    ASSUME Sent' = Sent, \A i \in Sent : messages'[i].job = messages[i].job,
           NEW X, \A d \in Deliveries : Open(d)' => Open(d) \/ d \in X,
           NEW j
    PROVE  /\ MessagesOf(j)' = MessagesOf(j)
           /\ OpenOf(j)' \subseteq OpenOf(j) \cup X
<1>1. MessagesOf(j)' = MessagesOf(j)
    BY DEF MessagesOf
<1>2. Deliveries' = Deliveries
    BY DEF Deliveries
<1>3. \A d \in Deliveries : JobOf(d)' = JobOf(d)
    BY DEF Deliveries, JobOf
<1>. QED  BY <1>1, <1>2, <1>3 DEF OpenOf

LEMMA OpenReceive ==
    ASSUME HandInv, NEW w \in Workers, Receive(w)
    PROVE  /\ Sent' = Sent
           /\ \A i \in Sent : messages'[i].job = messages[i].job
           /\ \A d \in Deliveries : Open(d)' => Open(d)
<1>1. PICK B \in SUBSET Sent :
          /\ \A i \in B : /\ messages[i].state = "visible"
                          /\ messages'[i].state = "inflight"
                          /\ messages'[i].rc = messages[i].rc + 1
          /\ \A i \in Sent \ B : messages'[i] = messages[i]
          /\ \A i \in Sent : messages'[i].job = messages[i].job
          /\ Sent' = Sent
          /\ OthersSame(w)
          /\ worker[w].pc = "poll"
          /\ worker'[w].batch =
                 {[msg |-> i, receipt |-> messages[i].rc + 1] : i \in B}
    BY ReceiveMoves DEF HandInv
<1>2. worker[w].batch = {}
    BY <1>1 DEF HandInv, Hands, HandsEmpty
<1>3. ASSUME NEW d \in Deliveries, Open(d)'
      PROVE  Open(d)
    <2>0. d.msg \in Sent
        BY DEF Deliveries
    <2>1. CASE d \in worker'[w].batch
        <3>1. PICK i \in B : d = [msg |-> i, receipt |-> messages[i].rc + 1]
            BY <1>1, <2>1
        <3>2. d.msg = i /\ d.receipt = messages[i].rc + 1
            BY <3>1
        <3>. QED  BY <1>1, <3>2 DEF Open, Due
    <2>2. CASE d \notin worker'[w].batch
        <3>1. Unfinished(d)' => Unfinished(d)
            BY <1>1, <2>2 DEF Unfinished, OthersSame
        <3>2. InBatch(d)' <=> InBatch(d)
            BY <1>1, <1>2, <2>2 DEF InBatch, OthersSame
        <3>3. Due(d)' => d.msg \notin B
            <4>1. SUFFICES ASSUME d.msg \in B, d.receipt = messages[d.msg].rc + 1
                           PROVE  FALSE
                BY <1>1 DEF Due
            <4>2. d = [msg |-> d.msg, receipt |-> messages[d.msg].rc + 1]
                BY <4>1 DEF Deliveries
            <4>. QED  BY <1>1, <2>2, <4>1, <4>2
        <3>4. Due(d)' => Due(d)
            BY <1>1, <2>0, <3>2, <3>3 DEF Due
        <3>. QED  BY <1>3, <3>1, <3>4 DEF Open
    <2>. QED  BY <2>1, <2>2
<1>. QED  BY <1>1, <1>3

LEMMA OpenDelete ==
    ASSUME HandInv, NEW w \in Workers, DeleteMessage(w)
    PROVE  /\ Sent' = Sent
           /\ \A i \in Sent : messages'[i].job = messages[i].job
           /\ \A d \in Deliveries : Open(d)' => Open(d)
<1>0. PICK c : c = worker[w].cur
    OBVIOUS
<1>1. /\ Sent' = Sent
      /\ worker[w].pc = "delete"
      /\ \A i \in Sent : /\ messages'[i].job = messages[i].job
                         /\ i # c.msg => messages'[i] = messages[i]
      /\ messages'[c.msg].state = "deleted" \/ (messages' = messages /\ Stale(c))
      /\ OthersSame(w)
      /\ worker'[w].pc # "delete"
      /\ worker'[w].batch = worker[w].batch \ {c}
    BY <1>0, DeleteMoves DEF HandInv
<1>2. ASSUME NEW d \in Deliveries, Open(d)'
      PROVE  Open(d)
    <2>0. d.msg \in Sent
        BY DEF Deliveries
    <2>1. Unfinished(d)' => Unfinished(d)
        BY <1>0, <1>1 DEF Unfinished, OthersSame
    <2>2. CASE Due(d)'
        <3>1. messages'[d.msg] = messages[d.msg]
            BY <1>1, <2>0, <2>2 DEF Due
        <3>2. d.receipt = messages[d.msg].rc => d # c
            BY <1>1, <2>2, <3>1 DEF Due, Stale
        <3>3. d # c => (InBatch(d) => InBatch(d)')
            BY <1>1 DEF InBatch, OthersSame
        <3>. QED  BY <2>2, <3>1, <3>2, <3>3 DEF Due, Open
    <2>. QED  BY <1>2, <2>1, <2>2 DEF Open
<1>. QED  BY <1>1, <1>2

(* Any other step of a worker, its crash included, opens at most the       *)
(* delivery it was about to delete.                                        *)
LEMMA OpenWorker ==
    ASSUME TypeOK, NEW w \in Workers, WorkerStep(w) \/ WorkerFault(w),
           ~Receive(w), ~DeleteMessage(w)
    PROVE  /\ Sent' = Sent
           /\ \A i \in Sent : messages'[i].job = messages[i].job
           /\ \A d \in Deliveries : Open(d)' =>
                  \/ Open(d)
                  \/ worker[w].pc = "delete" /\ d = worker[w].cur
<1>1. /\ messages' = messages
      /\ OthersSame(w)
      /\ worker'[w].batch \subseteq worker[w].batch
    BY WorkerMoves
<1>2. ASSUME NEW d \in Deliveries, Open(d)',
             ~(worker[w].pc = "delete" /\ d = worker[w].cur)
      PROVE  Open(d)
    <2>1. d \in worker[w].batch => Unfinished(d)
        BY <1>2 DEF Unfinished
    <2>2. Unfinished(d)' => Unfinished(d)
        BY <1>1, <2>1 DEF Unfinished, OthersSame
    <2>3. InBatch(d) => InBatch(d)' \/ d \in worker[w].batch
        BY <1>1 DEF InBatch, OthersSame
    <2>4. Due(d)' => Due(d) \/ Unfinished(d)
        BY <1>1, <2>1, <2>3 DEF Due
    <2>. QED  BY <1>2, <2>2, <2>4 DEF Open
<1>. QED  BY <1>1, <1>2 DEF Sent

-----------------------------------------------------------------------------
(* Every step keeps the accounts.                                          *)

LEMMA DupWorker ==
    ASSUME HandInv, DupInv, NEW w \in Workers, WorkerStep(w) \/ WorkerFault(w),
           NEW j \in Jobs
    PROVE  Accounted(j)'
<1>0. TypeOK /\ Accounted(j) /\ faults \in Nat
    BY DEF HandInv, TypeOK, DupInv
<1>1. CASE Receive(w) \/ DeleteMessage(w)
    <2>1. \A d \in Deliveries : Open(d)' => Open(d) \/ d \in {}
        BY <1>1, OpenReceive, OpenDelete
    <2>2. Sent' = Sent /\ \A i \in Sent : messages'[i].job = messages[i].job
        BY <1>1, OpenReceive, OpenDelete
    <2>3. MessagesOf(j)' = MessagesOf(j) /\ OpenOf(j)' \subseteq OpenOf(j) \cup {}
        BY <2>1, <2>2, OpenWithin
    <2>4. completions' = completions /\ faults' = faults
        BY <1>1 DEF Receive, DeleteMessage
    <2>. QED  BY <1>0, <2>3, <2>4, CountShrinks
<1>2. CASE EmptyReceive(w) \/ NoHandler(w) \/ HandlerRaises(w) \/ SaveFailedJob(w)
    <2>1. /\ worker[w].pc # "delete" /\ ~Receive(w) /\ ~DeleteMessage(w)
          /\ completions' = completions /\ faults' = faults
        <3>1. worker[w].pc # "delete" /\ completions' = completions
              /\ faults' = faults /\ messages' = messages
            BY <1>2 DEF EmptyReceive, NoHandler, HandlerRaises, Raises,
               SaveFailedJob
        <3>2. ~DeleteMessage(w)
            BY <3>1 DEF DeleteMessage
        <3>3. ~Receive(w)
            <4>1. SUFFICES ASSUME Receive(w) PROVE FALSE
                OBVIOUS
            <4>2. worker[w].pc = "poll" /\ worker'[w].pc = "next"
                BY <1>0, <4>1, ReceiveMoves
            <4>3. EmptyReceive(w)
                BY <1>2, <4>2 DEF NoHandler, HandlerRaises, Raises, SaveFailedJob
            <4>4. worker'[w].pc = "poll"
                BY <1>0, <4>3, PollFacts DEF EmptyReceive, NextQueue
            <4>. QED  BY <4>2, <4>4
        <3>. QED  BY <3>1, <3>2, <3>3
    <2>2. /\ \A d \in Deliveries : Open(d)' => Open(d) \/ d \in {}
          /\ Sent' = Sent /\ \A i \in Sent : messages'[i].job = messages[i].job
        BY <1>0, <2>1, OpenWorker
    <2>3. MessagesOf(j)' = MessagesOf(j) /\ OpenOf(j)' \subseteq OpenOf(j) \cup {}
        BY <2>2, OpenWithin
    <2>. QED  BY <1>0, <2>1, <2>3, CountShrinks
<1>3. CASE HandlerReturns(w)
    <2>1. PICK c \in worker[w].batch :
              /\ completions' = [completions EXCEPT ![JobOf(c)] = @ + 1]
              /\ Goto(w, "delete", c)
        BY <1>3 DEF HandlerReturns
    <2>2. worker[w].pc = "next" /\ messages' = messages /\ faults' = faults
        BY <1>3 DEF HandlerReturns
    <2>3. ~Receive(w) /\ ~DeleteMessage(w)
        BY <2>2 DEF Receive, DeleteMessage
    <2>4. /\ \A d \in Deliveries : Open(d)' => Open(d) \/ d \in {}
          /\ Sent' = Sent /\ \A i \in Sent : messages'[i].job = messages[i].job
        BY <1>0, <2>2, <2>3, OpenWorker
    <2>5. MessagesOf(j)' = MessagesOf(j) /\ OpenOf(j)' \subseteq OpenOf(j) \cup {}
        BY <2>4, OpenWithin
    <2>6. c \in Deliveries /\ JobOf(c) \in Jobs
        BY <1>0, <2>1, BatchFacts DEF TypeOK, WorkerRecord, Delivery, Deliveries, Sent
    <2>7. CASE j # JobOf(c)
        <3>1. completions'[j] = completions[j]
            BY <1>0, <2>1, <2>7 DEF TypeOK
        <3>. QED  BY <1>0, <2>2, <2>5, <3>1, CountShrinks
    <2>8. CASE j = JobOf(c)
        <3>1. completions'[j] = completions[j] + 1
            BY <1>0, <2>1, <2>8 DEF TypeOK
        <3>2. c \in OpenOf(j)
            BY <2>1, <2>2, <2>6, <2>8 DEF OpenOf, Open, Unfinished
        <3>3. /\ OthersSame(w)
              /\ worker'[w].pc = "delete" /\ worker'[w].cur = c
              /\ worker'[w].batch = worker[w].batch
            BY <1>0, <2>1, GotoFacts
        <3>4. ~Unfinished(c)'
            BY <2>1, <3>3
            DEF Unfinished, OthersSame, HandInv, Hands, OneHand
        <3>5. ~Due(c)'
            <4>1. InBatch(c)'
                BY <2>1, <3>3 DEF InBatch
            <4>2. c.receipt <= messages[c.msg].rc /\ c.receipt \in Nat
                  /\ messages[c.msg].rc \in Nat
                BY <1>0, <2>1, BatchFacts
                DEF HandInv, Hands, ReceiptsOld, Message
            <4>. QED  BY <2>2, <4>1, <4>2 DEF Due
        <3>6. c \notin OpenOf(j)'
            BY <3>4, <3>5 DEF OpenOf, Open
        <3>. QED  BY <1>0, <2>2, <2>5, <3>1, <3>2, <3>6, CountReturn
    <2>. QED  BY <2>7, <2>8
<1>4. CASE DecodeFails(w) \/ WorkerFault(w)
    <2>0. PICK c : c = worker[w].cur
        OBVIOUS
    <2>1. messages' = messages /\ completions' = completions /\ faults' = faults + 1
        BY <1>4 DEF DecodeFails, WorkerFault, ReceiveFails, SaveFails,
           DeleteFails, Crash, Fault
    <2>2. ~Receive(w) /\ ~DeleteMessage(w)
        BY <1>0, <2>1 DEF Receive, DeleteMessage
    <2>3. /\ \A d \in Deliveries : Open(d)' => Open(d) \/ d \in {c}
          /\ Sent' = Sent /\ \A i \in Sent : messages'[i].job = messages[i].job
        BY <1>0, <1>4, <2>0, <2>2, OpenWorker
    <2>4. /\ MessagesOf(j)' = MessagesOf(j)
          /\ OpenOf(j)' \subseteq OpenOf(j) \cup {c}
        BY <2>3, OpenWithin
    <2>. QED  BY <1>0, <2>1, <2>4, CountGains, MessagesFinite
<1>. QED  BY <1>1, <1>2, <1>3, <1>4 DEF WorkerStep

LEMMA DupTimeout ==
    ASSUME HandInv, DupInv, NEW i \in Sent, Redeliver(i) \/ EarlyTimeout(i),
           NEW j \in Jobs
    PROVE  Accounted(j)'
<1>0. TypeOK /\ Accounted(j) /\ faults \in Nat
    BY DEF HandInv, TypeOK, DupInv
<1>1. /\ Sent' = Sent /\ worker' = worker
      /\ \A k \in Sent : /\ messages'[k].rc = messages[k].rc
                         /\ messages'[k].job = messages[k].job
                         /\ k # i => messages'[k] = messages[k]
      /\ messages[i].state = "inflight" /\ messages'[i].state = "visible"
    BY <1>0, TimeoutMoves
<1>2. PICK d : d = Following(i)
    OBVIOUS
<1>3. \A e \in Deliveries : Open(e)' => Open(e) \/ e \in {d}
    <2> SUFFICES ASSUME NEW e \in Deliveries, Due(e)', ~Due(e) PROVE e = d
        BY <1>1 DEF Open, Unfinished
    <2>1. e.msg \in Sent
        BY DEF Deliveries
    <2>2. e.msg = i
        BY <1>1, <2>1 DEF Due, InBatch
    <2>3. e.receipt = messages[i].rc + 1
        BY <1>1, <2>2 DEF Due
    <2>. QED  BY <1>2, <2>2, <2>3 DEF Deliveries, Following
<1>4. /\ MessagesOf(j)' = MessagesOf(j)
      /\ OpenOf(j)' \subseteq OpenOf(j) \cup {d}
    BY <1>1, <1>3, OpenWithin
<1>5. completions' = completions
    BY DEF Redeliver, EarlyTimeout
<1>6. CASE EarlyTimeout(i)
    <2>1. faults' = faults + 1
        BY <1>6 DEF EarlyTimeout, Fault
    <2>. QED  BY <1>0, <1>4, <1>5, <2>1, CountGains, MessagesFinite
<1>7. CASE Redeliver(i)
    <2>1. PICK c : c = Newest(i)
        OBVIOUS
    <2>2. c \in Deliveries /\ c.msg = i /\ c.receipt = messages[i].rc
        BY <1>0, <2>1, SeqFacts DEF Newest, Deliveries, Message
    <2>3. ~InBatch(c)
        BY <1>0, <1>7, <2>1, HeldNewest DEF Redeliver
    <2>4. ~Open(c)'
        <3>1. ~Unfinished(c)'
            BY <1>1, <2>3 DEF Unfinished, InBatch
        <3>2. messages[i].rc \in Nat
            BY <1>0, SeqFacts DEF Message
        <3>. QED  BY <1>1, <2>2, <3>1, <3>2 DEF Open, Due
    <2>5. c \notin OpenOf(j)'
        BY <2>4 DEF OpenOf
    <2>6. faults' = faults
        BY <1>7 DEF Redeliver
    <2>7. CASE JobOf(c) = j
        <3>1. c \in OpenOf(j)
            BY <1>1, <2>2, <2>3, <2>7 DEF OpenOf, Open, Due
        <3>. QED  BY <1>0, <1>4, <1>5, <2>5, <2>6, <3>1, CountMoves
    <2>8. CASE JobOf(c) # j
        <3>1. d \notin OpenOf(j)'
            BY <1>1, <1>2, <2>2, <2>8 DEF OpenOf, JobOf, Following
        <3>2. OpenOf(j)' \subseteq OpenOf(j)
            BY <1>4, <3>1
        <3>. QED  BY <1>0, <1>4, <1>5, <2>6, <3>2, CountShrinks
    <2>. QED  BY <2>7, <2>8
<1>. QED  BY <1>6, <1>7

LEMMA DupSend ==
    ASSUME HandInv, DupInv, NEW k \in Jobs, NEW q \in Configured, Send(k, q),
           worker' = worker, completions' = completions,
           faults' \in Nat, faults' >= faults, NEW j \in Jobs
    PROVE  Accounted(j)'
<1>0. TypeOK /\ Accounted(j) /\ faults \in Nat
    BY DEF HandInv, TypeOK, DupInv
<1>1. PICK n \in Nat : /\ n \notin Sent
                       /\ Sent' = Sent \cup {n}
                       /\ \A i \in Sent : messages'[i] = messages[i]
                       /\ messages'[n].job = k
                       /\ messages'[n].rc = 0 /\ messages'[n].state = "visible"
    BY <1>0, SendMoves
<1>2. PICK d : d = [msg |-> n, receipt |-> 1]
    OBVIOUS
<1>3. ASSUME NEW e \in OpenOf(j)', e.msg \in Sent
      PROVE  e \in OpenOf(j)
    <2>1. messages'[e.msg] = messages[e.msg] /\ e \in Deliveries
        BY <1>1, <1>3 DEF OpenOf, Deliveries
    <2>2. Open(e) /\ JobOf(e) = j
        BY <1>3, <2>1 DEF OpenOf, Open, Unfinished, Due, InBatch, JobOf
    <2>. QED  BY <2>1, <2>2 DEF OpenOf
<1>4. ASSUME NEW e \in OpenOf(j)', e.msg \notin Sent
      PROVE  e = d /\ j = k
    <2>1. e.msg = n /\ e \in Deliveries'
        BY <1>1, <1>4 DEF OpenOf, Deliveries
    <2>2. ~Unfinished(e)'
        BY <1>0, <1>4, BatchFacts DEF Unfinished
    <2>3. e.receipt = 1
        BY <1>1, <2>1, <2>2 DEF OpenOf, Open, Due
    <2>4. j = k
        BY <1>1, <2>1 DEF OpenOf, JobOf
    <2>. QED  BY <1>2, <2>1, <2>3, <2>4 DEF Deliveries
<1>5. CASE j = k
    <2>1. MessagesOf(j)' = MessagesOf(j) \cup {n} /\ n \notin MessagesOf(j)
        BY <1>1, <1>5 DEF MessagesOf
    <2>2. /\ Cardinality(MessagesOf(j)') = Cardinality(MessagesOf(j)) + 1
          /\ Cardinality(MessagesOf(j)) \in Nat
        BY <1>0, <2>1, MessagesFinite, FS_AddElement
    <2>3. OpenOf(j)' \subseteq OpenOf(j) \cup {d}
        BY <1>3, <1>4
    <2>. QED  BY <1>0, <2>2, <2>3, CountGains
<1>6. CASE j # k
    <2>1. MessagesOf(j)' = MessagesOf(j)
        BY <1>1, <1>6 DEF MessagesOf
    <2>2. OpenOf(j)' \subseteq OpenOf(j)
        BY <1>3, <1>4, <1>6
    <2>. QED  BY <1>0, <2>1, <2>2, CountShrinks
<1>. QED  BY <1>5, <1>6

LEMMA DupStep == HandInv /\ DupInv /\ [Next]_vars => DupInv'
<1> SUFFICES ASSUME HandInv, DupInv, [Next]_vars, NEW j \in Jobs
             PROVE  Accounted(j)'
    BY DEF DupInv
<1>0. TypeOK /\ Accounted(j) /\ faults \in Nat
    BY DEF HandInv, TypeOK, DupInv
<1>1. ASSUME messages' = messages, worker' = worker, completions' = completions,
             faults' \in Nat, faults' >= faults
      PROVE  Accounted(j)'
    <2>1. OpenOf(j)' = OpenOf(j) /\ MessagesOf(j)' = MessagesOf(j)
        BY <1>1 DEF OpenOf, Deliveries, Sent, JobOf, Open, Unfinished, Due,
           InBatch, MessagesOf
    <2>. QED  BY <1>0, <1>1, <2>1, CountShrinks
<1>2. CASE \/ \E k \in Jobs : Publish(k)
           \/ \E a \in Admins : \/ ReplayPublish(a)
                                \/ ReplayCommit(a)
                                \/ ReplayAborts(a)
    BY <1>0, <1>1, <1>2, AdminMoves, DupSend
<1>3. CASE UNCHANGED vars
    BY <1>0, <1>1, <1>3 DEF vars
<1>. QED  BY <1>2, <1>3, DupWorker, DupTimeout DEF Next

(* The handler of a job returns at most once per message sent for it, and  *)
(* once more for each fault: only a failed or stale delete_message, a      *)
(* crash or an early timeout makes poll_queue run a finished job again.    *)
THEOREM RerunsAccounted == Spec => []DuplicatesAccounted
BY HandInit, HandStep, DupInit, DupStep, DupSafe, PTL DEF Spec
=============================================================================
