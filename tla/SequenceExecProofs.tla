------------------------- MODULE SequenceExecProofs -------------------------
(***************************************************************************)
(* Proofs about SequenceExec: its types, and what it promises of an        *)
(* enrollment.  First what each action does to the rows, the jobs and the  *)
(* workers (one lemma each, used by everything below), then one section    *)
(* per promise, each with its own inductive invariant:                     *)
(*   SkipInv   what a worker has read was recorded when it read it;        *)
(*   JobInv    an open enrollment has a job that nobody is done with;      *)
(*   EventInv  rows made by events, rows about to be made, and events that *)
(*             wait are no more than the events and the mishaps;           *)
(*   PaceInv, OnceInv  (one worker) the index read is the index stored,    *)
(*             and a step that ran is committed, in flight or a mishap's;  *)
(*   UsageInv  the usage row, and the rows read to count from, are as far  *)
(*             behind the deliveries as mishaps and overlaps allow.        *)
(***************************************************************************)
EXTENDS SequenceExec, SequenceTheorems, FiniteSetTheorems, TLAPS

-----------------------------------------------------------------------------
(* What the types give.                                                    *)
Running == {"run", "usage", "publish", "commit"}

LEMMA StateFacts ==
    ASSUME TypeOK
    PROVE  /\ Len(enrollments) \in Nat /\ Len(jobs) \in Nat
           /\ DOMAIN enrollments = Rows /\ DOMAIN jobs = JobIds
           /\ DOMAIN ran = Rows /\ DOMAIN recorded = Rows
           /\ \A e \in Rows : /\ enrollments[e] \in Enrollment
                              /\ ran[e] \in Counters /\ recorded[e] \in Counters
           /\ \A j \in JobIds : jobs[j] \in StepJob \cup TriggerJob
           /\ DOMAIN worker = Workers
<1>1. /\ enrollments \in Seq(Enrollment) /\ jobs \in Seq(StepJob \cup TriggerJob)
      /\ ran \in Seq(Counters) /\ recorded \in Seq(Counters)
      /\ Len(ran) = Len(enrollments) /\ Len(recorded) = Len(enrollments)
      /\ DOMAIN worker = Workers
    BY DEF TypeOK
<1>2. /\ Len(enrollments) \in Nat /\ Len(jobs) \in Nat
      /\ DOMAIN enrollments = Rows /\ DOMAIN jobs = JobIds
      /\ DOMAIN ran = Rows /\ DOMAIN recorded = Rows
    BY <1>1, LenProperties DEF Rows, JobIds
<1>3. \A e \in Rows : enrollments[e] \in Enrollment
    BY <1>1, ElementOfSeq DEF Rows
<1>4. \A e \in Rows : ran[e] \in Counters /\ recorded[e] \in Counters
    BY <1>1, ElementOfSeq DEF Rows
<1>5. \A j \in JobIds : jobs[j] \in StepJob \cup TriggerJob
    BY <1>1, ElementOfSeq DEF JobIds
<1>. QED  BY <1>1, <1>2, <1>3, <1>4, <1>5

LEMMA JobFacts ==
    ASSUME TypeOK, NEW j \in JobIds
    PROVE  /\ jobs[j].event \in {"step", "trigger"}
           /\ jobs[j].event = "step" => jobs[j] \in StepJob /\ jobs[j].target \in Rows
           /\ jobs[j].event = "trigger" => /\ jobs[j] \in TriggerJob
                                           /\ jobs[j].target \in Leads
           /\ jobs[j].receives \in Nat /\ jobs[j].state \in JobStates
<1>1. jobs[j] \in StepJob \cup TriggerJob
    BY StateFacts
<1>. QED  BY <1>1 DEF StepJob, TriggerJob

LEMMA WorkerFacts ==
    ASSUME TypeOK, NEW w \in Workers
    PROVE  /\ worker[w].pc \in Running \cup {"idle", "ack", "enroll"}
           /\ worker[w].pc = "idle" => worker[w] = Idle
           /\ worker[w].pc # "idle" => worker[w].job \in JobIds
           /\ worker[w].pc = "ack" => worker[w] = Ack(worker[w].job)
           /\ worker[w].pc \in Running =>
                  /\ worker[w] \in StepRecord
                  /\ jobs[worker[w].job].event = "step" /\ Target(w) \in Rows
                  /\ worker[w].idx \in Nat /\ worker[w].list \in Seq(Steps)
                  /\ worker[w].usage \in Usage
                  /\ Len(worker[w].list) \in Nat
                  /\ ~Past(w) => StepOf(w) \in Steps
           /\ worker[w].pc \in {"run", "usage", "publish"} => ~Past(w)
           /\ worker[w].pc = "enroll" =>
                  /\ worker[w] \in TriggerRecord
                  /\ jobs[worker[w].job].event = "trigger" /\ Target(w) \in Leads
                  /\ worker[w].todo \subseteq Seqs /\ worker[w].made \subseteq Rows
<1>1. worker[w] \in {Idle} \cup AckRecord \cup StepRecord \cup TriggerRecord
    BY DEF TypeOK
<1>2. /\ worker[w].pc \in Running \cup {"idle", "ack", "enroll"}
      /\ worker[w].pc = "idle" => worker[w] = Idle
      /\ worker[w].pc # "idle" => worker[w].job \in JobIds
      /\ worker[w].pc = "ack" => worker[w] \in AckRecord
      /\ worker[w].pc \in Running => worker[w] \in StepRecord
      /\ worker[w].pc = "enroll" => worker[w] \in TriggerRecord
    BY <1>1 DEF Idle, AckRecord, StepRecord, TriggerRecord, Running
<1>3. worker[w].pc = "ack" => worker[w] = Ack(worker[w].job)
    BY <1>2 DEF AckRecord, Ack
<1>4. ASSUME worker[w].pc \in Running
      PROVE  /\ jobs[worker[w].job].event = "step" /\ Target(w) \in Rows
             /\ worker[w].idx \in Nat /\ worker[w].list \in Seq(Steps)
             /\ worker[w].usage \in Usage
             /\ Len(worker[w].list) \in Nat
             /\ ~Past(w) => StepOf(w) \in Steps
    <2>1. jobs[worker[w].job] \in StepJob
        BY <1>2, <1>4 DEF TypeOK
    <2>2. jobs[worker[w].job].event = "step" /\ Target(w) \in Rows
        BY <2>1 DEF StepJob, Target
    <2>3. worker[w].idx \in Nat /\ worker[w].list \in Seq(Steps)
          /\ worker[w].usage \in Usage
        BY <1>2, <1>4 DEF StepRecord
    <2>4. Len(worker[w].list) \in Nat
        BY <2>3, LenProperties
    <2>5. ASSUME ~Past(w) PROVE StepOf(w) \in Steps
        <3>1. worker[w].idx + 1 \in 1..Len(worker[w].list)
            BY <2>3, <2>4, <2>5 DEF Past
        <3>. QED  BY <2>3, <3>1, ElementOfSeq DEF StepOf
    <2>. QED  BY <2>2, <2>3, <2>4, <2>5
<1>5. worker[w].pc \in {"run", "usage", "publish"} => ~Past(w)
    BY DEF TypeOK
<1>6. ASSUME worker[w].pc = "enroll"
      PROVE  /\ jobs[worker[w].job].event = "trigger" /\ Target(w) \in Leads
             /\ worker[w].todo \subseteq Seqs /\ worker[w].made \subseteq Rows
    <2>1. worker[w] \in TriggerRecord /\ jobs[worker[w].job] \in TriggerJob
        BY <1>2, <1>6 DEF TypeOK
    <2>. QED  BY <2>1 DEF TriggerJob, TriggerRecord, Target
<1>. QED  BY <1>2, <1>3, <1>4, <1>5, <1>6

-----------------------------------------------------------------------------
(* The types in four parts, and what every step keeps of the rows and of   *)
(* the jobs.                                                               *)
PlainTyped ==
    /\ leads \subseteq Leads /\ sequences \subseteq Seqs /\ edited \subseteq Seqs
    /\ steps \in [Seqs -> Seq(Steps)]
    /\ usage \in Usage
    /\ unsent \subseteq Rows /\ orphans \subseteq Rows
    /\ sends \in [Channels -> Sends] /\ mishaps \in Nat

RowsTyped ==
    /\ enrollments \in Seq(Enrollment)
    /\ ran \in Seq(Counters) /\ recorded \in Seq(Counters)
    /\ Len(ran) = Len(enrollments) /\ Len(recorded) = Len(enrollments)

JobsTyped == jobs \in Seq(StepJob \cup TriggerJob)

WorkerGood(r) ==
    \/ r = Idle
    \/ r \in AckRecord
    \/ /\ r \in StepRecord /\ jobs[r.job] \in StepJob
       /\ r.pc # "commit" => r.idx < Len(r.list)
    \/ r \in TriggerRecord /\ jobs[r.job] \in TriggerJob

WorkersTyped ==
    /\ worker \in [Workers ->
                    {Idle} \cup AckRecord \cup StepRecord \cup TriggerRecord]
    /\ \A w \in Workers : WorkerGood(worker[w])

LEMMA TypeParts == TypeOK <=> PlainTyped /\ RowsTyped /\ JobsTyped /\ WorkersTyped
<1>1. ASSUME TypeOK PROVE PlainTyped /\ RowsTyped /\ JobsTyped /\ WorkersTyped
    <2>1. ASSUME NEW w \in Workers PROVE WorkerGood(worker[w])
        <3>1. CASE worker[w].pc \in Running
            <4>1. worker[w] \in StepRecord
                BY <1>1, <3>1, WorkerFacts
            <4>2. jobs[worker[w].job] \in StepJob
                BY <1>1, <4>1 DEF TypeOK
            <4>3. ASSUME worker[w].pc # "commit"
                  PROVE  worker[w].idx < Len(worker[w].list)
                BY <1>1, <3>1, <4>3, WorkerFacts DEF Past, Running
            <4>. QED  BY <4>1, <4>2, <4>3 DEF WorkerGood
        <3>2. CASE worker[w].pc = "enroll"
            <4>1. worker[w] \in TriggerRecord
                BY <1>1, <3>2, WorkerFacts
            <4>2. jobs[worker[w].job] \in TriggerJob
                BY <1>1, <4>1 DEF TypeOK
            <4>. QED  BY <4>1, <4>2 DEF WorkerGood
        <3>3. CASE worker[w].pc \in {"idle", "ack"}
            <4>1. worker[w] = Idle \/ worker[w] = Ack(worker[w].job)
                BY <1>1, <3>3, WorkerFacts
            <4>2. worker[w].pc = "ack" => worker[w].job \in JobIds
                BY <1>1, WorkerFacts
            <4>. QED  BY <3>3, <4>1, <4>2 DEF WorkerGood, Ack, AckRecord, Idle
        <3>. QED  BY <1>1, <3>1, <3>2, <3>3, WorkerFacts
    <2>. QED  BY <1>1, <2>1
              DEF TypeOK, PlainTyped, RowsTyped, JobsTyped, WorkersTyped
<1>2. ASSUME PlainTyped, RowsTyped, JobsTyped, WorkersTyped PROVE TypeOK
    <2>1. ASSUME NEW w \in Workers
          PROVE  /\ worker[w] \in StepRecord => jobs[worker[w].job] \in StepJob
                 /\ worker[w] \in TriggerRecord =>
                        jobs[worker[w].job] \in TriggerJob
                 /\ worker[w].pc \in {"run", "usage", "publish"} => ~Past(w)
        <3>1. WorkerGood(worker[w])
            BY <1>2 DEF WorkersTyped
        <3>2. CASE worker[w] = Idle \/ worker[w] \in AckRecord
            BY <3>2 DEF Idle, AckRecord, StepRecord, TriggerRecord
        <3>3. CASE /\ worker[w] \in StepRecord /\ jobs[worker[w].job] \in StepJob
                   /\ worker[w].pc # "commit" =>
                          worker[w].idx < Len(worker[w].list)
            <4>1. worker[w].idx \in Nat /\ Len(worker[w].list) \in Nat
                  /\ worker[w] \notin TriggerRecord
                BY <3>3, LenProperties DEF StepRecord, TriggerRecord
            <4>. QED  BY <3>3, <4>1 DEF Past
        <3>4. CASE worker[w] \in TriggerRecord /\ jobs[worker[w].job] \in TriggerJob
            BY <3>4 DEF StepRecord, TriggerRecord
        <3>. QED  BY <3>1, <3>2, <3>3, <3>4 DEF WorkerGood
    <2>. QED  BY <1>2, <2>1
              DEF TypeOK, PlainTyped, RowsTyped, JobsTyped, WorkersTyped
<1>. QED  BY <1>1, <1>2

(* Rows and jobs are only added, and keep what they are about.             *)
Grow ==
    /\ Rows \subseteq Rows' /\ JobIds \subseteq JobIds'
    /\ \A e \in Rows : /\ enrollments'[e].lead = enrollments[e].lead
                       /\ enrollments'[e].seq = enrollments[e].seq
                       /\ enrollments'[e].by = enrollments[e].by
    /\ \A j \in JobIds : /\ jobs'[j].event = jobs[j].event
                         /\ jobs'[j].target = jobs[j].target

LEMMA GoodStays ==
    ASSUME TypeOK, Grow, JobsTyped', NEW r, WorkerGood(r)
    PROVE  WorkerGood(r)'
<1>0. \A j \in JobIds' : jobs'[j] \in (StepJob \cup TriggerJob)'
    BY ElementOfSeq DEF JobsTyped, JobIds
<1>1. ASSUME NEW j \in JobIds
      PROVE  /\ jobs[j] \in StepJob => jobs'[j] \in StepJob'
             /\ jobs[j] \in TriggerJob => jobs'[j] \in TriggerJob'
    <2>1. j \in JobIds' /\ jobs'[j].event = jobs[j].event
        BY DEF Grow
    <2>2. jobs'[j] \in (StepJob \cup TriggerJob)'
        BY <1>0, <2>1
    <2>. QED  BY <2>1, <2>2 DEF StepJob, TriggerJob
<1>2. JobIds \subseteq JobIds' /\ Rows \subseteq Rows'
    BY DEF Grow
<1>3. CASE r = Idle \/ r \in AckRecord
    BY <1>2, <1>3 DEF WorkerGood, AckRecord
<1>4. CASE /\ r \in StepRecord /\ jobs[r.job] \in StepJob
           /\ r.pc # "commit" => r.idx < Len(r.list)
    <2>1. r.job \in JobIds /\ r \in StepRecord'
        BY <1>2, <1>4 DEF StepRecord
    <2>. QED  BY <1>1, <1>4, <2>1 DEF WorkerGood
<1>5. CASE r \in TriggerRecord /\ jobs[r.job] \in TriggerJob
    <2>1. r.job \in JobIds /\ r \in TriggerRecord'
        BY <1>2, <1>5 DEF TriggerRecord
    <2>. QED  BY <1>1, <1>5, <2>1 DEF WorkerGood
<1>. QED  BY <1>3, <1>4, <1>5 DEF WorkerGood

LEMMA WorkersMove ==
    ASSUME TypeOK, Grow, JobsTyped', NEW w \in Workers, NEW r, Set(w, r),
           WorkerGood(r)'
    PROVE  WorkersTyped'
<1>1. WorkersTyped
    BY TypeParts
<1>2. \A v \in Workers : worker'[v] = IF v = w THEN r ELSE worker[v]
    BY <1>1 DEF Set, WorkersTyped
<1>3. ASSUME NEW v \in Workers PROVE WorkerGood(worker[v])'
    <2>1. PICK s : s = worker'[v]
        OBVIOUS
    <2>2. CASE v = w
        BY <1>2, <2>1, <2>2
    <2>3. CASE v # w
        <3>1. WorkerGood(s)
            BY <1>1, <1>2, <2>1, <2>3 DEF WorkersTyped
        <3>2. WorkerGood(s)'
            BY <3>1, GoodStays
        <3>. QED  BY <2>1, <3>2
    <2>. QED  BY <2>2, <2>3
<1>4. ASSUME NEW v \in Workers
      PROVE  worker'[v] \in ({Idle} \cup AckRecord \cup StepRecord \cup TriggerRecord)'
    BY <1>3 DEF WorkerGood
<1>5. worker' = [v \in Workers |-> worker'[v]]
    BY <1>1 DEF Set, WorkersTyped
<1>. QED  BY <1>3, <1>4, <1>5 DEF WorkersTyped

LEMMA WorkersStay ==
    ASSUME TypeOK, Grow, JobsTyped', worker' = worker
    PROVE  WorkersTyped'
<1>1. WorkersTyped
    BY TypeParts
<1>2. ASSUME NEW v \in Workers PROVE WorkerGood(worker[v])'
    <2>1. PICK s : s = worker[v]
        OBVIOUS
    <2>2. WorkerGood(s)
        BY <1>1, <2>1 DEF WorkersTyped
    <2>3. WorkerGood(s)'
        BY <2>2, GoodStays
    <2>. QED  BY <2>1, <2>3
<1>3. ASSUME NEW v \in Workers
      PROVE  worker'[v] \in ({Idle} \cup AckRecord \cup StepRecord \cup TriggerRecord)'
    BY <1>2 DEF WorkerGood
<1>4. worker' = [v \in Workers |-> worker'[v]]
    BY <1>1 DEF WorkersTyped
<1>. QED  BY <1>2, <1>3, <1>4 DEF WorkersTyped

-----------------------------------------------------------------------------
(* What the updates of the rows do.                                        *)
RowOf(l, s, by, status) ==
    [lead |-> l, seq |-> s, by |-> by, status |-> status, idx |-> 0]

LEMMA RowInserted ==
    ASSUME TypeOK, NEW l \in Leads, NEW s \in Seqs, NEW by \in {"api", "event"},
           NEW status \in Statuses, Insert(l, s, by, status)
    PROVE  /\ RowsTyped'
           /\ Rows' = Rows \cup {Len(enrollments) + 1}
           /\ Len(enrollments) + 1 \notin Rows
           /\ enrollments'[Len(enrollments) + 1] = RowOf(l, s, by, status)
           /\ \A st \in Steps : ran'[Len(enrollments) + 1][st] = 0
           /\ \A e \in Rows : /\ enrollments'[e] = enrollments[e]
                              /\ ran'[e] = ran[e] /\ recorded'[e] = recorded[e]
<1>1. PICK row, none : row = RowOf(l, s, by, status) /\ none = [st \in Steps |-> 0]
    OBVIOUS
<1>2. /\ enrollments' = Append(enrollments, row)
      /\ ran' = Append(ran, none) /\ recorded' = Append(recorded, none)
    BY <1>1 DEF Insert, RowOf
<1>3. row \in Enrollment /\ none \in Counters /\ \A st \in Steps : none[st] = 0
    BY <1>1 DEF Enrollment, Counters, RowOf
<1>4. /\ enrollments \in Seq(Enrollment)
      /\ ran \in Seq(Counters) /\ recorded \in Seq(Counters)
      /\ Len(ran) = Len(enrollments) /\ Len(recorded) = Len(enrollments)
    BY DEF TypeOK
<1>5. Len(enrollments) \in Nat
    BY <1>4, LenProperties
<1>6. /\ enrollments' \in Seq(Enrollment) /\ Len(enrollments') = Len(enrollments) + 1
      /\ \A e \in 1..Len(enrollments) : enrollments'[e] = enrollments[e]
      /\ enrollments'[Len(enrollments) + 1] = row
    BY <1>2, <1>3, <1>4, AppendProperties
<1>7. /\ ran' \in Seq(Counters) /\ Len(ran') = Len(ran) + 1
      /\ \A e \in 1..Len(ran) : ran'[e] = ran[e]
      /\ ran'[Len(ran) + 1] = none
    BY <1>2, <1>3, <1>4, AppendProperties
<1>8. /\ recorded' \in Seq(Counters) /\ Len(recorded') = Len(recorded) + 1
      /\ \A e \in 1..Len(recorded) : recorded'[e] = recorded[e]
    BY <1>2, <1>3, <1>4, AppendProperties
<1>9. Rows' = Rows \cup {Len(enrollments) + 1} /\ Len(enrollments) + 1 \notin Rows
    BY <1>5, <1>6 DEF Rows
<1>. QED  BY <1>1, <1>3, <1>4, <1>6, <1>7, <1>8, <1>9 DEF RowsTyped, Rows

LEMMA RowsSame ==
    ASSUME TypeOK, UNCHANGED <<enrollments, ran, recorded>>
    PROVE  RowsTyped' /\ Rows' = Rows
BY TypeParts DEF RowsTyped, Rows

LEMMA RowsCascade ==
    ASSUME TypeOK, NEW gone, Cascade(gone), UNCHANGED <<ran, recorded>>
    PROVE  /\ RowsTyped' /\ Rows' = Rows
           /\ \A e \in Rows :
                  /\ enrollments'[e].lead = enrollments[e].lead
                  /\ enrollments'[e].seq = enrollments[e].seq
                  /\ enrollments'[e].by = enrollments[e].by
                  /\ enrollments'[e].idx = enrollments[e].idx
                  /\ enrollments'[e].status = IF e \in gone THEN "gone"
                                              ELSE enrollments[e].status
<1>1. /\ RowsTyped /\ Len(enrollments) \in Nat
      /\ \A e \in Rows : enrollments[e] \in Enrollment
    BY TypeParts, StateFacts
<1>2. ASSUME NEW e \in Rows
      PROVE  /\ enrollments'[e] \in Enrollment
             /\ enrollments'[e].lead = enrollments[e].lead
             /\ enrollments'[e].seq = enrollments[e].seq
             /\ enrollments'[e].by = enrollments[e].by
             /\ enrollments'[e].idx = enrollments[e].idx
             /\ enrollments'[e].status = IF e \in gone THEN "gone"
                                         ELSE enrollments[e].status
    BY <1>1 DEF Cascade, Enrollment, Statuses
<1>3. enrollments' = [e \in 1..Len(enrollments) |-> enrollments'[e]]
    BY DEF Cascade, Rows
<1>4. enrollments' \in [1..Len(enrollments) -> Enrollment]
    BY <1>2, <1>3 DEF Rows
<1>5. enrollments' \in Seq(Enrollment) /\ Len(enrollments') = Len(enrollments)
    BY <1>1, <1>4, IsASeq, LenProperties
<1>. QED  BY <1>1, <1>2, <1>5 DEF RowsTyped, Rows

LEMMA CommitTriggerRows ==
    ASSUME TypeOK, NEW w \in Workers, CommitTrigger(w)
    PROVE  /\ RowsTyped' /\ Rows' = Rows
           /\ \A e \in Rows :
                  /\ enrollments'[e].lead = enrollments[e].lead
                  /\ enrollments'[e].seq = enrollments[e].seq
                  /\ enrollments'[e].by = enrollments[e].by
                  /\ enrollments'[e].idx = enrollments[e].idx
                  /\ enrollments'[e].status = IF e \in worker[w].made THEN "active"
                                              ELSE enrollments[e].status
<1>1. /\ RowsTyped /\ Len(enrollments) \in Nat
      /\ \A e \in Rows : enrollments[e] \in Enrollment
    BY TypeParts, StateFacts
<1>2. ASSUME NEW e \in Rows
      PROVE  /\ enrollments'[e] \in Enrollment
             /\ enrollments'[e].lead = enrollments[e].lead
             /\ enrollments'[e].seq = enrollments[e].seq
             /\ enrollments'[e].by = enrollments[e].by
             /\ enrollments'[e].idx = enrollments[e].idx
             /\ enrollments'[e].status = IF e \in worker[w].made THEN "active"
                                         ELSE enrollments[e].status
    BY <1>1 DEF CommitTrigger, Enrollment, Statuses
<1>3. enrollments' = [e \in 1..Len(enrollments) |-> enrollments'[e]]
    BY DEF CommitTrigger, Rows
<1>4. enrollments' \in [1..Len(enrollments) -> Enrollment]
    BY <1>2, <1>3 DEF Rows
<1>5. enrollments' \in Seq(Enrollment) /\ Len(enrollments') = Len(enrollments)
    BY <1>1, <1>4, IsASeq, LenProperties
<1>. QED  BY <1>1, <1>2, <1>5 DEF RowsTyped, Rows, CommitTrigger

(* The commit of a step: the index and maybe the status of one row.        *)
LEMMA CommitStepRows ==
    ASSUME TypeOK, NEW w \in Workers, CommitStep(w)
    PROVE  /\ RowsTyped' /\ Rows' = Rows
           /\ \A e \in Rows :
                  /\ enrollments'[e].lead = enrollments[e].lead
                  /\ enrollments'[e].seq = enrollments[e].seq
                  /\ enrollments'[e].by = enrollments[e].by
           /\ \A e \in Rows \ {Target(w)} : /\ enrollments'[e] = enrollments[e]
                                            /\ recorded'[e] = recorded[e]
           /\ \A e \in Rows, st \in Steps : recorded'[e][st] >= recorded[e][st]
           /\ Past(w) => /\ enrollments'[Target(w)].idx = enrollments[Target(w)].idx
                         /\ enrollments'[Target(w)].status = "completed"
           /\ ~Past(w) =>
                  /\ enrollments'[Target(w)].idx = worker[w].idx + 1
                  /\ enrollments'[Target(w)].status =
                         IF IsLast(w) THEN "completed"
                         ELSE enrollments[Target(w)].status
                  /\ recorded'[Target(w)][StepOf(w)] > 0
<1>0. PICK t : t = Target(w)
    OBVIOUS
<1>1. /\ t \in Rows /\ worker[w].idx \in Nat /\ (~Past(w) => StepOf(w) \in Steps)
      /\ enrollments[t] \in Enrollment /\ recorded[t] \in Counters
      /\ Len(enrollments) \in Nat /\ DOMAIN enrollments = Rows /\ DOMAIN recorded = Rows
    BY <1>0, WorkerFacts, StateFacts DEF CommitStep, Running
<1>2. PICK row : row = IF Past(w)
                       THEN Progressed(enrollments[t], enrollments[t].idx, TRUE)
                       ELSE Progressed(enrollments[t], worker[w].idx + 1, IsLast(w))
    OBVIOUS
<1>3. enrollments' = [enrollments EXCEPT ![t] = row]
    BY <1>0, <1>2 DEF CommitStep
<1>4. /\ row \in Enrollment /\ row.lead = enrollments[t].lead
      /\ row.seq = enrollments[t].seq /\ row.by = enrollments[t].by
      /\ Past(w) => row.idx = enrollments[t].idx /\ row.status = "completed"
      /\ ~Past(w) => /\ row.idx = worker[w].idx + 1
                     /\ row.status = IF IsLast(w) THEN "completed"
                                     ELSE enrollments[t].status
    BY <1>1, <1>2 DEF Progressed, Enrollment, Statuses
<1>5. enrollments' \in Seq(Enrollment) /\ Len(enrollments') = Len(enrollments)
      /\ \A e \in Rows : enrollments'[e] = IF e = t THEN row ELSE enrollments[e]
    BY <1>1, <1>3, <1>4, ExceptSeq DEF TypeOK, Rows
<1>6. /\ recorded' \in Seq(Counters) /\ Len(recorded') = Len(recorded)
      /\ \A e \in Rows \ {t} : recorded'[e] = recorded[e]
      /\ \A e \in Rows, st \in Steps : recorded'[e][st] >= recorded[e][st]
      /\ ~Past(w) => recorded'[t][StepOf(w)] > 0
    <2>1. \A e \in Rows, st \in Steps : recorded[e][st] \in Nat
        BY StateFacts DEF Counters
    <2>2. CASE Past(w)
        <3>1. recorded' = recorded
            BY <2>2 DEF CommitStep
        <3>2. \A e \in Rows, st \in Steps : recorded'[e][st] >= recorded[e][st]
            BY <2>1, <3>1
        <3>. QED  BY <2>2, <3>1, <3>2 DEF TypeOK
    <2>3. CASE ~Past(w)
        <3>0. PICK st \in Steps : st = StepOf(w)
            BY <1>1, <2>3
        <3>1. PICK counts : counts = [recorded[t] EXCEPT ![st] = @ + 1]
            OBVIOUS
        <3>2. recorded' = [recorded EXCEPT ![t] = counts]
            BY <1>0, <2>3, <3>0, <3>1 DEF CommitStep
        <3>3. /\ counts \in Counters /\ counts[st] > 0
              /\ \A x \in Steps : counts[x] >= recorded[t][x]
            BY <1>1, <2>1, <3>1 DEF Counters
        <3>4. recorded' \in Seq(Counters) /\ Len(recorded') = Len(recorded)
              /\ \A e \in Rows : recorded'[e] = IF e = t THEN counts ELSE recorded[e]
            BY <1>1, <3>2, <3>3, ExceptSeq DEF TypeOK, Rows
        <3>5. \A e \in Rows, x \in Steps : recorded'[e][x] >= recorded[e][x]
            BY <2>1, <3>3, <3>4
        <3>. QED  BY <1>1, <3>0, <3>1, <3>3, <3>4, <3>5
    <2>. QED  BY <2>2, <2>3
<1>7. RowsTyped' /\ Rows' = Rows
    BY <1>5, <1>6 DEF RowsTyped, Rows, CommitStep, TypeOK
<1>. QED  BY <1>0, <1>1, <1>4, <1>5, <1>6, <1>7

-----------------------------------------------------------------------------
(* What the updates of the jobs do.                                        *)
LEMMA JobsSame ==
    ASSUME TypeOK, UNCHANGED jobs, Rows \subseteq Rows'
    PROVE  JobsTyped' /\ JobIds' = JobIds
<1>1. /\ jobs \in Seq(StepJob \cup TriggerJob)
      /\ \A n \in 1..Len(jobs) : jobs[n] \in (StepJob \cup TriggerJob)'
    BY StateFacts DEF TypeOK, StepJob, TriggerJob, JobIds
<1>2. jobs \in Seq((StepJob \cup TriggerJob)')
    BY <1>1, LenProperties, IsASeq
<1>. QED  BY <1>2 DEF JobsTyped, JobIds

LEMMA JobAppended ==
    ASSUME TypeOK, Rows \subseteq Rows', NEW old \in Seq(StepJob \cup TriggerJob),
           NEW job, job \in (StepJob \cup TriggerJob)',
           Len(old) = Len(jobs), jobs' = Append(old, job)
    PROVE  /\ JobsTyped'
           /\ JobIds' = JobIds \cup {Len(jobs) + 1}
           /\ Len(jobs) + 1 \notin JobIds
           /\ \A j \in JobIds : jobs'[j] = old[j]
           /\ jobs'[Len(jobs) + 1] = job
<1>1. PICK all : all = (StepJob \cup TriggerJob)'
    OBVIOUS
<1>2. StepJob \cup TriggerJob \subseteq all
    BY <1>1 DEF StepJob, TriggerJob
<1>3. old \in Seq(all) /\ job \in all /\ Len(jobs) \in Nat
    BY <1>1, <1>2, SeqMonotonic, StateFacts
<1>4. /\ jobs' \in Seq(all) /\ Len(jobs') = Len(old) + 1
      /\ \A n \in 1..Len(old) : jobs'[n] = old[n]
      /\ jobs'[Len(old) + 1] = job
    BY <1>3, AppendProperties
<1>. QED  BY <1>1, <1>3, <1>4 DEF JobsTyped, JobIds

LEMMA JobTyped ==
    ASSUME NEW event, NEW target,
           \/ event = "step" /\ target \in Rows'
           \/ event = "trigger" /\ target \in Leads
    PROVE  Job(event, target) \in (StepJob \cup TriggerJob)'
BY DEF Job, StepJob, TriggerJob, JobStates

LEMMA JobChanged ==
    ASSUME TypeOK, NEW j \in JobIds, NEW changed \in StepJob \cup TriggerJob
    PROVE  /\ [jobs EXCEPT ![j] = changed] \in Seq(StepJob \cup TriggerJob)
           /\ Len([jobs EXCEPT ![j] = changed]) = Len(jobs)
           /\ \A k \in JobIds : [jobs EXCEPT ![j] = changed][k] =
                                   IF k = j THEN changed ELSE jobs[k]
BY ExceptSeq DEF TypeOK, JobIds

LEMMA JobsChange ==
    ASSUME TypeOK, Rows' = Rows, NEW j \in JobIds,
           NEW changed \in StepJob \cup TriggerJob,
           jobs' = [jobs EXCEPT ![j] = changed]
    PROVE  /\ JobsTyped' /\ JobIds' = JobIds
           /\ \A k \in JobIds : jobs'[k] = IF k = j THEN changed ELSE jobs[k]
<1>1. /\ jobs' \in Seq(StepJob \cup TriggerJob) /\ Len(jobs') = Len(jobs)
      /\ \A k \in JobIds : jobs'[k] = IF k = j THEN changed ELSE jobs[k]
    BY JobChanged
<1>2. StepJob \cup TriggerJob \subseteq (StepJob \cup TriggerJob)'
    BY DEF StepJob, TriggerJob
<1>3. jobs' \in Seq((StepJob \cup TriggerJob)')
    BY <1>1, <1>2, SeqMonotonic
<1>. QED  BY <1>1, <1>3 DEF JobsTyped, JobIds

(* Jobs whose state or receive count changes, and which stay what they are.*)
JobsSettle ==
    /\ JobsTyped' /\ JobIds' = JobIds
    /\ \A j \in JobIds : /\ jobs'[j].event = jobs[j].event
                         /\ jobs'[j].target = jobs[j].target

LEMMA TakeMoves ==
    ASSUME TypeOK, NEW w \in Workers, NEW j \in JobIds, Take(w, j), Rows' = Rows
    PROVE  /\ JobsSettle
           /\ \A k \in JobIds : jobs'[k].state = jobs[k].state
           /\ mishaps' \in Nat /\ mishaps <= mishaps'
           /\ Held(j) => mishaps' = mishaps + 1
<1>1. PICK changed : changed = [jobs[j] EXCEPT !.receives = @ + 1]
    OBVIOUS
<1>2. jobs' = [jobs EXCEPT ![j] = changed]
    BY <1>1 DEF Take
<1>3. /\ changed \in StepJob \cup TriggerJob /\ changed.event = jobs[j].event
      /\ changed.target = jobs[j].target /\ changed.state = jobs[j].state
    BY <1>1, JobFacts DEF StepJob, TriggerJob
<1>4. /\ JobsTyped' /\ JobIds' = JobIds
      /\ \A k \in JobIds : jobs'[k] = IF k = j THEN changed ELSE jobs[k]
    BY <1>2, <1>3, JobsChange
<1>5. mishaps \in Nat
    BY DEF TypeOK
<1>. QED  BY <1>3, <1>4, <1>5 DEF JobsSettle, Take, Fault

LEMMA AckMoves ==
    ASSUME TypeOK, NEW w \in Workers, Acknowledge(w)
    PROVE  /\ JobsSettle /\ worker[w].job \in JobIds
           /\ \A k \in JobIds : jobs'[k].state =
                  IF k = worker[w].job THEN "deleted" ELSE jobs[k].state
<1>1. PICK j \in JobIds : j = worker[w].job
    BY WorkerFacts DEF Acknowledge
<1>2. PICK changed : changed = [jobs[j] EXCEPT !.state = "deleted"]
    OBVIOUS
<1>3. jobs' = [jobs EXCEPT ![j] = changed]
    BY <1>1, <1>2 DEF Acknowledge
<1>4. /\ changed \in StepJob \cup TriggerJob /\ changed.event = jobs[j].event
      /\ changed.target = jobs[j].target /\ changed.state = "deleted"
    BY <1>2, JobFacts DEF StepJob, TriggerJob, JobStates
<1>5. Rows' = Rows
    BY DEF Acknowledge, Rows
<1>6. /\ JobsTyped' /\ JobIds' = JobIds
      /\ \A k \in JobIds : jobs'[k] = IF k = j THEN changed ELSE jobs[k]
    BY <1>3, <1>4, <1>5, JobsChange
<1>. QED  BY <1>1, <1>4, <1>6 DEF JobsSettle

(* A handler that raises, and a worker that dies: five actions, one form.  *)
Failed(w) ==
    /\ worker[w].pc # "idle"
    /\ Rollback(w)
    /\ mishaps' = mishaps + 1
    /\ \/ jobs' = jobs
       \/ jobs' = [jobs EXCEPT ![worker[w].job].state = "dead"]

LEMMA FailureForms ==
    ASSUME TypeOK, NEW w \in Workers,
           EnrollRejected(w) \/ UsageConflict(w) \/ CommitStale(w)
               \/ HandlerFails(w) \/ Crash(w)
    PROVE  Failed(w)
BY DEF EnrollRejected, UsageConflict, CommitStale, HandlerFails, Crash, Raise,
       Fault, Failed

LEMMA FailMoves ==
    ASSUME TypeOK, NEW w \in Workers, Failed(w)
    PROVE  /\ JobsSettle /\ RowsTyped' /\ Rows' = Rows
           /\ \A k \in JobIds : jobs'[k].state \in {jobs[k].state, "dead"}
           /\ \A k \in JobIds \ {worker[w].job} : jobs'[k].state = jobs[k].state
           /\ \A e \in Rows :
                  /\ enrollments'[e].lead = enrollments[e].lead
                  /\ enrollments'[e].seq = enrollments[e].seq
                  /\ enrollments'[e].by = enrollments[e].by
                  /\ enrollments'[e].idx = enrollments[e].idx
                  /\ enrollments'[e].status \in {enrollments[e].status, "gone"}
<1>1. PICK j \in JobIds : j = worker[w].job
    BY WorkerFacts DEF Failed
<1>2. PICK gone : Cascade(gone)
    BY DEF Failed, Rollback
<1>3. /\ RowsTyped' /\ Rows' = Rows
      /\ \A e \in Rows :
             /\ enrollments'[e].lead = enrollments[e].lead
             /\ enrollments'[e].seq = enrollments[e].seq
             /\ enrollments'[e].by = enrollments[e].by
             /\ enrollments'[e].idx = enrollments[e].idx
             /\ enrollments'[e].status \in {enrollments[e].status, "gone"}
    BY <1>2, RowsCascade DEF Failed, Rollback
<1>4. CASE jobs' = jobs
    <2>1. JobsTyped' /\ JobIds' = JobIds
        BY <1>3, <1>4, JobsSame
    <2>. QED  BY <1>3, <1>4, <2>1 DEF JobsSettle
<1>5. CASE jobs' = [jobs EXCEPT ![j].state = "dead"]
    <2>1. PICK changed : changed = [jobs[j] EXCEPT !.state = "dead"]
        OBVIOUS
    <2>2. jobs' = [jobs EXCEPT ![j] = changed]
        BY <1>5, <2>1
    <2>3. /\ changed \in StepJob \cup TriggerJob /\ changed.event = jobs[j].event
          /\ changed.target = jobs[j].target /\ changed.state = "dead"
        BY <2>1, JobFacts DEF StepJob, TriggerJob, JobStates
    <2>4. /\ JobsTyped' /\ JobIds' = JobIds
          /\ \A k \in JobIds : jobs'[k] = IF k = j THEN changed ELSE jobs[k]
        BY <1>3, <2>2, <2>3, JobsChange
    <2>5. JobsSettle
        BY <2>3, <2>4 DEF JobsSettle
    <2>. QED  BY <1>1, <1>3, <2>3, <2>4, <2>5
<1>. QED  BY <1>1, <1>4, <1>5 DEF Failed

LEMMA ReplayMoves ==
    ASSUME TypeOK, NEW j \in JobIds, Replay(j)
    PROVE  /\ JobsTyped' /\ Rows' = Rows
           /\ JobIds' = JobIds \cup {Len(jobs) + 1} /\ Len(jobs) + 1 \notin JobIds
           /\ \A k \in JobIds : /\ jobs'[k].event = jobs[k].event
                                /\ jobs'[k].target = jobs[k].target
                                /\ \/ jobs'[k].state = jobs[k].state
                                   \/ k = j /\ jobs'[k].state = "replayed"
           /\ jobs'[Len(jobs) + 1] = Job(jobs[j].event, jobs[j].target)
<1>1. PICK changed, old : /\ \/ changed = jobs[j]
                             \/ changed = [jobs[j] EXCEPT !.state = "replayed"]
                          /\ old = [jobs EXCEPT ![j] = changed]
                          /\ jobs' = Append(old, Job(jobs[j].event, jobs[j].target))
    <2>1. CASE jobs' = Append([jobs EXCEPT ![j].state = "replayed"],
                              Job(jobs[j].event, jobs[j].target))
        BY <2>1
    <2>2. CASE jobs' = Append(jobs, Job(jobs[j].event, jobs[j].target))
        <3>1. jobs = [jobs EXCEPT ![j] = jobs[j]]
            BY DEF TypeOK
        <3>. QED  BY <2>2, <3>1
    <2>. QED  BY <2>1, <2>2 DEF Replay
<1>2. jobs' = Append(old, Job(jobs[j].event, jobs[j].target))
    BY <1>1
<1>3. Rows' = Rows
    BY DEF Replay, Rows
<1>4. /\ changed \in StepJob \cup TriggerJob /\ changed.event = jobs[j].event
      /\ changed.target = jobs[j].target
      /\ changed.state = jobs[j].state \/ changed.state = "replayed"
    BY <1>1, JobFacts DEF StepJob, TriggerJob, JobStates
<1>5. /\ old \in Seq(StepJob \cup TriggerJob) /\ Len(old) = Len(jobs)
      /\ \A k \in JobIds : old[k] = IF k = j THEN changed ELSE jobs[k]
    BY <1>1, <1>4, JobChanged
<1>6. /\ JobsTyped' /\ JobIds' = JobIds \cup {Len(jobs) + 1}
      /\ Len(jobs) + 1 \notin JobIds
      /\ \A k \in JobIds : jobs'[k] = old[k]
      /\ jobs'[Len(jobs) + 1] = Job(jobs[j].event, jobs[j].target)
    <2>1. PICK job : job = Job(jobs[j].event, jobs[j].target)
        OBVIOUS
    <2>2. job \in (StepJob \cup TriggerJob)'
        BY <1>3, <2>1, JobFacts, JobTyped
    <2>3. Rows \subseteq Rows'
        BY <1>3
    <2>4. jobs' = Append(old, job)
        BY <1>2, <2>1
    <2>. QED  BY <1>5, <2>1, <2>2, <2>3, <2>4, JobAppended
<1>. QED  BY <1>3, <1>4, <1>5, <1>6

(* A job that is published after the others.                               *)
LEMMA PublishMoves ==
    ASSUME TypeOK, Rows \subseteq Rows', NEW event, NEW target,
           jobs' = Append(jobs, Job(event, target)),
           \/ event = "step" /\ target \in Rows'
           \/ event = "trigger" /\ target \in Leads
    PROVE  /\ JobsTyped'
           /\ JobIds' = JobIds \cup {Len(jobs) + 1}
           /\ Len(jobs) + 1 \notin JobIds
           /\ \A j \in JobIds : jobs'[j] = jobs[j]
           /\ jobs'[Len(jobs) + 1] = Job(event, target)
<1>1. jobs \in Seq(StepJob \cup TriggerJob)
    BY DEF TypeOK
<1>2. Job(event, target) \in (StepJob \cup TriggerJob)'
    BY JobTyped
<1>. QED  BY <1>1, <1>2, JobAppended

-----------------------------------------------------------------------------
(* The lists an admin's edit can make are lists of steps.                  *)
LEMMA EditMoves ==
    ASSUME TypeOK, NEW s \in Seqs, EditSteps(s)
    PROVE  /\ steps' \in [Seqs -> Seq(Steps)]
           /\ \A q \in Seqs \ {s} : steps'[q] = steps[q]
<1>1. PICK old \in Seq(Steps), n \in Nat : old = steps[s] /\ n = Len(old)
    BY LenProperties DEF TypeOK
<1>2. DOMAIN old = 1..n /\ \A i \in 1..n : old[i] \in Steps
    BY <1>1, LenProperties, ElementOfSeq
<1>3. \A m \in Int, k \in Int :
          1 <= m /\ k <= n => SubSeq(old, m, k) \in Seq(Steps)
    <2>. SUFFICES ASSUME NEW m \in Int, NEW k \in Int, 1 <= m, k <= n
                  PROVE  SubSeq(old, m, k) \in Seq(Steps)
        OBVIOUS
    <2>1. \A i \in m..k : old[i] \in Steps
        BY <1>2
    <2>. QED  BY <2>1, SubSeqProperties
<1>4. PICK new \in Seq(Steps) : steps' = [steps EXCEPT ![s] = new]
    <2>1. ASSUME NEW st \in Steps, NEW i \in 1..n + 1
          PROVE  InsertAt(old, i, st) \in Seq(Steps)
        <3>1. SubSeq(old, 1, i - 1) \in Seq(Steps) /\ SubSeq(old, i, n) \in Seq(Steps)
            BY <1>3
        <3>2. <<st>> \in Seq(Steps)
            OBVIOUS
        <3>3. SubSeq(old, 1, i - 1) \o <<st>> \in Seq(Steps)
            BY <3>1, <3>2, ConcatProperties
        <3>. QED  BY <1>1, <3>1, <3>3, ConcatProperties DEF InsertAt
    <2>2. ASSUME NEW i \in 1..n
          PROVE  RemoveAt(old, i) \in Seq(Steps)
        <3>1. SubSeq(old, 1, i - 1) \in Seq(Steps)
              /\ SubSeq(old, i + 1, n) \in Seq(Steps)
            BY <1>3
        <3>. QED  BY <1>1, <3>1, ConcatProperties DEF RemoveAt
    <2>3. ASSUME NEW i \in 1..n, NEW k \in 1..n
          PROVE  [old EXCEPT ![i] = old[k], ![k] = old[i]] \in Seq(Steps)
        BY <1>1, <1>2, <2>3, ExceptSeq
    <2>. QED  BY <1>1, <1>2, <2>1, <2>2, <2>3 DEF EditSteps
<1>. QED  BY <1>4 DEF TypeOK

LEMMA TypeInit == Init => TypeOK
<1>. SUFFICES ASSUME Init PROVE TypeOK
    OBVIOUS
<1>1. <<>> \in Seq(Enrollment) /\ <<>> \in Seq(Counters)
      /\ <<>> \in Seq(StepJob \cup TriggerJob) /\ Len(<<>>) = 0
    BY EmptySeq
<1>2. PlainTyped /\ RowsTyped /\ JobsTyped
    BY <1>1, ConstantsOK DEF Init, PlainTyped, RowsTyped, JobsTyped, ConstantsOK,
                             Usage, NoUsage, Sends, NoSends
<1>3. WorkersTyped
    BY DEF Init, WorkersTyped, WorkerGood
<1>. QED  BY <1>2, <1>3, TypeParts

(* The counters stay counters.                                             *)
LEMMA SendsTyped ==
    ASSUME sends \in [Channels -> Sends], NEW c \in Channels
    PROVE  /\ Delivered(c) \in [Channels -> Sends]
           /\ [sends EXCEPT ![c].overlaps = @ + 1] \in [Channels -> Sends]
<1>1. sends[c] \in Sends
    OBVIOUS
<1>2. /\ [sends[c] EXCEPT !.called = @ + 1] \in Sends
      /\ [sends[c] EXCEPT !.skipped = @ + 1] \in Sends
      /\ [sends[c] EXCEPT !.overlaps = @ + 1] \in Sends
    BY <1>1 DEF Sends
<1>. QED  BY <1>2 DEF Delivered

LEMMA UsageTyped ==
    ASSUME usage \in Usage, NEW u \in Usage, NEW c \in Channels
    PROVE  /\ Incremented(u, c) \in Usage
           /\ \A d \in Channels : Incremented(u, c).sent[d] =
                  IF d = c THEN u.sent[c] + 1 ELSE usage.sent[d]
<1>1. usage.sent \in [Channels -> Nat] /\ u.sent[c] + 1 \in Nat
    BY DEF Usage
<1>2. PICK sent : sent = [usage.sent EXCEPT ![c] = u.sent[c] + 1]
    OBVIOUS
<1>3. /\ sent \in [Channels -> Nat]
      /\ \A d \in Channels : sent[d] = IF d = c THEN u.sent[c] + 1
                                       ELSE usage.sent[d]
    BY <1>1, <1>2
<1>4. Incremented(u, c) = [row |-> TRUE, sent |-> sent]
    BY <1>2 DEF Incremented
<1>. QED  BY <1>3, <1>4 DEF Usage

(* The steps that leave the database and the jobs, and those that only     *)
(* publish.                                                                *)
LEMMA TypeKept ==
    ASSUME TypeOK, Grow, PlainTyped', RowsTyped', JobsTyped', WorkersTyped'
    PROVE  TypeOK'
BY TypeParts, PTL

(* The two ways a step's job starts: its enrollment is read, or passed by. *)
Reading(j, e) ==
    StepTxn(IF enrollments[e].idx < Len(steps[enrollments[e].seq])
            THEN "run" ELSE "commit",
            j, enrollments[e].idx, steps[enrollments[e].seq], NoUsage)

Reads(w, j, e) == /\ enrollments[e].status = "active"
                  /\ Set(w, Reading(j, e)) /\ orphans' = orphans

Passes(w, j, e) == /\ enrollments[e].status # "active"
                   /\ Set(w, Ack(j))
                   /\ orphans' = IF Pending(e) THEN orphans \cup {e} ELSE orphans

LEMMA StartForms ==
    ASSUME TypeOK, NEW w \in Workers, StartStep(w)
    PROVE  \E j \in JobIds, e \in Rows :
               /\ jobs[j].event = "step" /\ e = jobs[j].target /\ Take(w, j)
               /\ Reads(w, j, e) \/ Passes(w, j, e)
<1>1. PICK j \in JobIds :
          /\ jobs[j].event = "step" /\ Take(w, j)
          /\ Reads(w, j, jobs[j].target) \/ Passes(w, j, jobs[j].target)
    BY DEF StartStep, Reads, Passes, Reading
<1>. QED  BY <1>1, JobFacts

(* Every worker step, by what it does to the record of its worker.         *)
LEMMA TypeWorker ==
    ASSUME TypeOK, NEW w \in Workers, WorkerStep(w)
    PROVE  TypeOK' /\ Grow
<1>0. PlainTyped /\ JobsTyped /\ RowsTyped /\ mishaps \in Nat
    BY TypeParts DEF PlainTyped
<1>1. CASE Acknowledge(w)
    <2>1. Rows' = Rows /\ RowsTyped'
        BY <1>1, RowsSame DEF Acknowledge
    <2>2. JobsSettle /\ Grow
        BY <1>1, <2>1, AckMoves DEF JobsSettle, Grow, Acknowledge
    <2>3. WorkersTyped'
        BY <1>1, <2>2, WorkersMove DEF Acknowledge, JobsSettle, WorkerGood
    <2>4. PlainTyped'
        BY <1>0, <1>1, <2>1 DEF Acknowledge, PlainTyped
    <2>. QED  BY <2>1, <2>2, <2>3, <2>4, TypeKept DEF JobsSettle
<1>2. CASE StartTrigger(w)
    <2>1. PICK j, active, r :
             /\ j \in JobIds
             /\ active \in SUBSET sequences
             /\ jobs[j].event = "trigger" /\ Take(w, j)
             /\ r = TriggerTxn(j, active, {}) /\ Set(w, r)
        BY <1>2 DEF StartTrigger
    <2>2. Rows' = Rows /\ RowsTyped'
        BY <1>2, RowsSame DEF StartTrigger
    <2>3. JobsSettle /\ Grow /\ mishaps' \in Nat
        BY <1>2, <2>1, <2>2, TakeMoves DEF JobsSettle, Grow, StartTrigger
    <2>4. WorkerGood(r)'
        <3>1. jobs'[j] \in (StepJob \cup TriggerJob)' /\ jobs'[j].event = "trigger"
            BY <2>1, <2>3, ElementOfSeq DEF JobsSettle, JobsTyped, JobIds
        <3>2. jobs'[j] \in TriggerJob'
            BY <3>1 DEF StepJob, TriggerJob
        <3>3. r \in TriggerRecord' /\ r.job = j
            BY <1>0, <2>1, <2>3 DEF TriggerTxn, TriggerRecord, JobsSettle, PlainTyped
        <3>. QED  BY <3>2, <3>3 DEF WorkerGood
    <2>5. WorkersTyped'
        BY <2>1, <2>3, <2>4, WorkersMove DEF JobsSettle
    <2>6. PlainTyped'
        BY <1>0, <1>2, <2>2, <2>3 DEF StartTrigger, PlainTyped
    <2>. QED  BY <2>2, <2>3, <2>5, <2>6, TypeKept DEF JobsSettle
<1>3. CASE EnrollOne(w)
    <2>1. PICK s, e, r :
             /\ s \in worker[w].todo \cap sequences
             /\ e = Len(enrollments) + 1
             /\ Insert(Target(w), s, "event", "pending")
             /\ jobs' = Append(jobs, Job("step", e))
             /\ r = TriggerTxn(worker[w].job, worker[w].todo \ {s},
                               worker[w].made \cup {e})
             /\ Set(w, r)
        BY <1>3 DEF EnrollOne, FirstJob
    <2>2. /\ worker[w] \in TriggerRecord /\ worker[w].job \in JobIds
          /\ jobs[worker[w].job].event = "trigger" /\ Target(w) \in Leads
          /\ worker[w].todo \subseteq Seqs /\ worker[w].made \subseteq Rows
        BY <1>3, WorkerFacts DEF EnrollOne
    <2>3. /\ RowsTyped' /\ Rows' = Rows \cup {e}
          /\ \A x \in Rows : enrollments'[x] = enrollments[x]
        BY <1>0, <2>1, <2>2, RowInserted DEF Statuses
    <2>4. /\ JobsTyped' /\ JobIds' = JobIds \cup {Len(jobs) + 1}
          /\ \A j \in JobIds : jobs'[j] = jobs[j]
        <3>1. Rows \subseteq Rows' /\ e \in Rows'
            BY <2>3
        <3>. QED  BY <2>1, <3>1, PublishMoves
    <2>5. Grow
        BY <2>3, <2>4 DEF Grow
    <2>6. WorkerGood(r)'
        <3>1. jobs'[worker[w].job] \in (StepJob \cup TriggerJob)'
              /\ jobs'[worker[w].job].event = "trigger"
            BY <2>2, <2>4, ElementOfSeq DEF JobsTyped, JobIds
        <3>2. jobs'[worker[w].job] \in TriggerJob'
            BY <3>1 DEF StepJob, TriggerJob
        <3>3. r \in TriggerRecord' /\ r.job = worker[w].job
            BY <2>1, <2>2, <2>3, <2>4 DEF TriggerTxn, TriggerRecord
        <3>. QED  BY <3>2, <3>3 DEF WorkerGood
    <2>7. WorkersTyped'
        BY <2>1, <2>4, <2>5, <2>6, WorkersMove
    <2>8. PlainTyped'
        BY <1>0, <1>3, <2>3 DEF EnrollOne, Insert, PlainTyped
    <2>. QED  BY <2>3, <2>4, <2>5, <2>7, <2>8, TypeKept
<1>4. CASE EnrollRejected(w) \/ UsageConflict(w) \/ CommitStale(w)
    <2>1. Failed(w)
        BY <1>4, FailureForms
    <2>2. JobsSettle /\ RowsTyped' /\ Rows' = Rows /\ Grow
        BY <2>1, FailMoves DEF JobsSettle, Grow
    <2>3. WorkersTyped'
        BY <2>1, <2>2, WorkersMove DEF Failed, Rollback, JobsSettle, WorkerGood
    <2>4. PlainTyped'
        BY <1>0, <2>1, <2>2 DEF Failed, Rollback, PlainTyped
    <2>. QED  BY <2>2, <2>3, <2>4, TypeKept DEF JobsSettle
<1>5. CASE CommitTrigger(w)
    <2>1. RowsTyped' /\ Rows' = Rows
        BY <1>5, CommitTriggerRows
    <2>2. JobsTyped' /\ JobIds' = JobIds
        <3>1. Rows \subseteq Rows' /\ UNCHANGED jobs
            BY <1>5, <2>1 DEF CommitTrigger
        <3>. QED  BY <3>1, JobsSame
    <2>3. Grow
        BY <1>5, <2>1, <2>2, CommitTriggerRows DEF Grow, CommitTrigger
    <2>4. WorkersTyped'
        <3>1. PICK r : r = Ack(worker[w].job)
            OBVIOUS
        <3>2. worker[w].job \in JobIds
            BY <1>5, WorkerFacts DEF CommitTrigger
        <3>3. WorkerGood(r)'
            BY <2>2, <3>1, <3>2 DEF WorkerGood, Ack, AckRecord
        <3>. QED  BY <1>5, <2>2, <2>3, <3>1, <3>3, WorkersMove DEF CommitTrigger
    <2>5. PlainTyped'
        BY <1>0, <1>5, <2>1 DEF CommitTrigger, PlainTyped
    <2>. QED  BY <2>1, <2>2, <2>3, <2>4, <2>5, TypeKept
<1>6. CASE StartStep(w)
    <2>1. PICK j \in JobIds, e \in Rows :
              /\ jobs[j].event = "step" /\ e = jobs[j].target /\ Take(w, j)
              /\ Reads(w, j, e) \/ Passes(w, j, e)
        BY <1>6, StartForms
    <2>2. Rows' = Rows /\ RowsTyped'
        BY <1>6, RowsSame DEF StartStep
    <2>3. JobsSettle /\ Grow /\ mishaps' \in Nat
        BY <1>6, <2>1, <2>2, TakeMoves DEF JobsSettle, Grow, StartStep
    <2>4. ASSUME Reads(w, j, e) PROVE WorkersTyped'
        <3>1. PICK r : r = Reading(j, e)
            OBVIOUS
        <3>2. PICK i \in Nat, list \in Seq(Steps) :
                  i = enrollments[e].idx /\ list = steps[enrollments[e].seq]
            BY <1>0, StateFacts DEF PlainTyped, Enrollment
        <3>3. r = StepTxn(IF i < Len(list) THEN "run" ELSE "commit",
                          j, i, list, NoUsage)
            BY <3>1, <3>2 DEF Reading
        <3>4. jobs'[j] \in StepJob'
            <4>1. jobs'[j] \in (StepJob \cup TriggerJob)' /\ jobs'[j].event = "step"
                BY <2>1, <2>3, ElementOfSeq DEF JobsSettle, JobsTyped, JobIds
            <4>. QED  BY <4>1 DEF StepJob, TriggerJob
        <3>5. /\ r \in StepRecord' /\ r.job = j
              /\ r.pc # "commit" => r.idx < Len(r.list)
            BY <2>3, <3>3 DEF StepTxn, StepRecord, NoUsage, Usage, JobsSettle
        <3>6. WorkerGood(r)'
            BY <3>4, <3>5 DEF WorkerGood
        <3>. QED  BY <2>3, <2>4, <3>1, <3>6, WorkersMove DEF Reads, JobsSettle
    <2>5. ASSUME Passes(w, j, e) PROVE WorkersTyped'
        <3>1. WorkerGood(Ack(j))'
            BY <2>3 DEF WorkerGood, Ack, AckRecord, JobsSettle
        <3>. QED  BY <2>3, <2>5, <3>1, WorkersMove DEF Passes, JobsSettle
    <2>6. PlainTyped'
        BY <1>0, <1>6, <2>1, <2>2, <2>3 DEF StartStep, PlainTyped, Reads, Passes
    <2>. QED  BY <2>1, <2>2, <2>3, <2>4, <2>5, <2>6, TypeKept DEF JobsSettle
<1>7. CASE RunStep(w) \/ StageUsage(w)
    <2>1. /\ worker[w].pc \in {"run", "usage"} /\ worker[w] \in StepRecord
          /\ ~Past(w) /\ StepOf(w) \in Steps /\ Target(w) \in Rows
          /\ worker[w].job \in JobIds /\ worker[w].idx \in Nat
          /\ worker[w].list \in Seq(Steps) /\ worker[w].usage \in Usage
          /\ jobs[worker[w].job].event = "step"
        BY <1>7, WorkerFacts DEF RunStep, StageUsage, Running
    <2>2. Rows' = Rows /\ RowsTyped'
        <3>1. Rows' = Rows
            BY <1>7 DEF RunStep, StageUsage, Rows
        <3>2. CASE StageUsage(w)
            BY <3>2, RowsSame DEF StageUsage
        <3>3. CASE RunStep(w)
            <4>1. PICK e, st, counts :
                     /\ e \in Rows
                     /\ st \in Steps
                     /\ e = Target(w) /\ st = StepOf(w)
                     /\ counts = [ran[e] EXCEPT ![st] = @ + 1]
                BY <2>1
            <4>2. ran' = [ran EXCEPT ![e] = counts] /\ recorded' = recorded
                  /\ enrollments' = enrollments
                BY <3>3, <4>1 DEF RunStep
            <4>3. counts \in Counters
                BY <4>1, StateFacts DEF Counters
            <4>4. e \in 1..Len(ran) /\ ran \in Seq(Counters)
                BY <4>1, <1>0 DEF RowsTyped, Rows
            <4>5. ran' \in Seq(Counters) /\ Len(ran') = Len(ran)
                BY <4>2, <4>3, <4>4, ExceptSeq
            <4>. QED  BY <1>0, <3>1, <4>2, <4>5 DEF RowsTyped
        <3>. QED  BY <1>7, <3>2, <3>3
    <2>3. JobsTyped' /\ JobIds' = JobIds /\ jobs' = jobs
        <3>1. Rows \subseteq Rows' /\ UNCHANGED jobs
            BY <1>7, <2>2 DEF RunStep, StageUsage
        <3>. QED  BY <3>1, JobsSame
    <2>4. Grow
        BY <1>7, <2>2, <2>3 DEF Grow, RunStep, StageUsage
    <2>5. WorkersTyped'
        <3>1. PICK r, pc, u :
                  /\ pc \in {"usage", "publish"} /\ u \in Usage
                  /\ r = StepTxn(pc, worker[w].job, worker[w].idx, worker[w].list, u)
                  /\ Set(w, r)
            BY <1>0, <1>7, <2>1 DEF RunStep, StageUsage, PlainTyped
        <3>2. jobs[worker[w].job] \in StepJob
            BY <2>1, JobFacts
        <3>3. /\ r \in StepRecord /\ r.job = worker[w].job
              /\ r.idx < Len(r.list)
            BY <2>1, <3>1, LenProperties DEF StepTxn, StepRecord, Past
        <3>4. WorkerGood(r)
            BY <3>2, <3>3 DEF WorkerGood
        <3>5. WorkerGood(r)'
            BY <2>3, <2>4, <3>4, GoodStays
        <3>. QED  BY <2>3, <2>4, <3>1, <3>5, WorkersMove
    <2>6. PlainTyped'
        <3>1. sends' \in [Channels -> Sends]
            BY <1>0, <1>7, SendsTyped DEF RunStep, StageUsage, Counts, PlainTyped
        <3>. QED  BY <1>0, <1>7, <2>2, <3>1 DEF RunStep, StageUsage, PlainTyped
    <2>. QED  BY <2>2, <2>3, <2>4, <2>5, <2>6, TypeKept
<1>8. CASE PublishNext(w)
    <2>1. /\ worker[w].pc = "publish" /\ worker[w] \in StepRecord
          /\ Target(w) \in Rows
          /\ worker[w].job \in JobIds /\ worker[w].idx \in Nat
          /\ worker[w].list \in Seq(Steps) /\ worker[w].usage \in Usage
          /\ jobs[worker[w].job].event = "step"
        BY <1>8, WorkerFacts DEF PublishNext, Running
    <2>2. Rows' = Rows /\ RowsTyped' /\ Rows \subseteq Rows'
        BY <1>8, RowsSame DEF PublishNext
    <2>3. JobsTyped' /\ JobIds \subseteq JobIds' /\ \A j \in JobIds : jobs'[j] = jobs[j]
        <3>1. CASE IsLast(w)
            <4>1. UNCHANGED jobs
                BY <1>8, <3>1 DEF PublishNext, WithNextJob
            <4>. QED  BY <2>2, <4>1, JobsSame
        <3>2. CASE ~IsLast(w)
            <4>1. jobs' = Append(jobs, Job("step", Target(w))) /\ Target(w) \in Rows'
                BY <1>8, <2>1, <2>2, <3>2 DEF PublishNext, WithNextJob
            <4>. QED  BY <2>2, <4>1, PublishMoves
        <3>. QED  BY <3>1, <3>2
    <2>4. Grow
        BY <1>8, <2>2, <2>3 DEF Grow, PublishNext
    <2>5. WorkersTyped'
        <3>1. PICK r : r = StepTxn("commit", worker[w].job, worker[w].idx,
                                   worker[w].list, worker[w].usage)
            OBVIOUS
        <3>2. jobs[worker[w].job] \in StepJob
            BY <2>1, JobFacts
        <3>3. r \in StepRecord /\ r.job = worker[w].job /\ r.pc = "commit"
            BY <2>1, <3>1 DEF StepTxn, StepRecord
        <3>4. WorkerGood(r)
            BY <3>2, <3>3 DEF WorkerGood
        <3>5. WorkerGood(r)'
            BY <2>3, <2>4, <3>4, GoodStays
        <3>. QED  BY <1>8, <2>3, <2>4, <3>1, <3>5, WorkersMove DEF PublishNext
    <2>6. PlainTyped'
        BY <1>0, <1>8, <2>2 DEF PublishNext, PlainTyped
    <2>. QED  BY <2>2, <2>3, <2>4, <2>5, <2>6, TypeKept
<1>9. CASE CommitStep(w)
    <2>1. RowsTyped' /\ Rows' = Rows
        BY <1>9, CommitStepRows
    <2>2. JobsTyped' /\ JobIds' = JobIds /\ jobs' = jobs
        <3>1. Rows \subseteq Rows' /\ UNCHANGED jobs
            BY <1>9, <2>1 DEF CommitStep
        <3>. QED  BY <3>1, JobsSame
    <2>3. Grow
        BY <1>9, <2>1, <2>2, CommitStepRows DEF Grow
    <2>4. WorkersTyped'
        <3>1. worker[w].job \in JobIds
            BY <1>9, WorkerFacts DEF CommitStep
        <3>2. PICK r : r = Ack(worker[w].job)
            OBVIOUS
        <3>3. WorkerGood(r)'
            BY <2>2, <3>1, <3>2 DEF WorkerGood, Ack, AckRecord
        <3>4. Set(w, r)
            BY <1>9, <3>2 DEF CommitStep
        <3>. QED  BY <2>2, <2>3, <3>3, <3>4, WorkersMove
    <2>5. PlainTyped'
        <3>1. worker[w].usage \in Usage
            BY <1>9, WorkerFacts DEF CommitStep, Running
        <3>2. usage' \in Usage
            BY <1>0, <1>9, <3>1, UsageTyped DEF CommitStep, Counts, PlainTyped
        <3>3. sends' \in [Channels -> Sends]
            BY <1>0, <1>9, SendsTyped DEF CommitStep, Counts, PlainTyped
        <3>. QED  BY <1>0, <1>9, <2>1, <3>2, <3>3 DEF CommitStep, PlainTyped
    <2>. QED  BY <2>1, <2>2, <2>3, <2>4, <2>5, TypeKept
<1>. QED
    BY <1>1, <1>2, <1>3, <1>4, <1>5, <1>6, <1>7, <1>8, <1>9 DEF WorkerStep

(* The steps of the API: requests, lifecycle events, an admin's changes.   *)
LEMMA TypeApi ==
    ASSUME TypeOK, ApiStep
    PROVE  TypeOK' /\ Grow
<1>0. PlainTyped /\ JobsTyped /\ RowsTyped /\ Len(enrollments) \in Nat
    BY TypeParts, StateFacts
<1>1. ASSUME NEW l \in Leads, NEW s \in Seqs, EnrollCommit(l, s)
      PROVE  TypeOK' /\ Grow
    <2>1. Insert(l, s, "api", "active")
        BY <1>1 DEF EnrollCommit
    <2>2. /\ RowsTyped' /\ Rows' = Rows \cup {Len(enrollments) + 1}
          /\ \A e \in Rows : enrollments'[e] = enrollments[e]
        BY <2>1, RowInserted DEF Statuses
    <2>3. JobsTyped' /\ JobIds' = JobIds
        <3>1. Rows \subseteq Rows' /\ UNCHANGED jobs
            BY <1>1, <2>2 DEF EnrollCommit
        <3>. QED  BY <3>1, JobsSame
    <2>4. Grow
        BY <1>1, <2>2, <2>3 DEF Grow, EnrollCommit
    <2>5. WorkersTyped'
        BY <1>1, <2>3, <2>4, WorkersStay DEF EnrollCommit
    <2>6. PlainTyped'
        BY <1>0, <1>1, <2>2 DEF EnrollCommit, Insert, PlainTyped
    <2>. QED  BY <2>2, <2>3, <2>4, <2>5, <2>6, TypeKept
<1>2. CASE EnrollPublish \/ \E l \in Leads : PublishTrigger(l)
    <2>1. Rows' = Rows /\ RowsTyped' /\ Rows \subseteq Rows'
        BY <1>2, RowsSame DEF EnrollPublish, PublishTrigger
    <2>2. PICK event, target :
              /\ jobs' = Append(jobs, Job(event, target))
              /\ \/ event = "step" /\ target \in Rows'
                 \/ event = "trigger" /\ target \in Leads
        BY <1>0, <1>2, <2>1 DEF EnrollPublish, PublishTrigger, FirstJob, PlainTyped
    <2>3. /\ JobsTyped' /\ JobIds' = JobIds \cup {Len(jobs) + 1}
          /\ \A j \in JobIds : jobs'[j] = jobs[j]
        BY <2>1, <2>2, PublishMoves
    <2>4. Grow
        BY <1>2, <2>1, <2>3 DEF Grow, EnrollPublish, PublishTrigger
    <2>5. WorkersTyped'
        BY <1>2, <2>3, <2>4, WorkersStay DEF EnrollPublish, PublishTrigger
    <2>6. PlainTyped'
        BY <1>0, <1>2, <2>1 DEF EnrollPublish, PublishTrigger, PlainTyped
    <2>. QED  BY <2>1, <2>3, <2>4, <2>5, <2>6, TypeKept
<1>3. ASSUME EnrollDies \/ \E s \in Seqs : EditSteps(s)
      PROVE  TypeOK' /\ Grow
    <2>1. Rows' = Rows /\ RowsTyped' /\ Rows \subseteq Rows'
        BY <1>3, RowsSame DEF EnrollDies, EditSteps
    <2>2. JobsTyped' /\ JobIds' = JobIds
        <3>1. UNCHANGED jobs
            BY <1>3 DEF EnrollDies, EditSteps
        <3>. QED  BY <2>1, <3>1, JobsSame
    <2>3. Grow
        BY <1>3, <2>1, <2>2 DEF Grow, EnrollDies, EditSteps
    <2>4. WorkersTyped'
        BY <1>3, <2>2, <2>3, WorkersStay DEF EnrollDies, EditSteps
    <2>5. PlainTyped'
        <3>1. CASE EnrollDies
            BY <1>0, <2>1, <3>1 DEF EnrollDies, Fault, PlainTyped
        <3>2. CASE \E s \in Seqs : EditSteps(s)
            <4>1. PICK s \in Seqs : EditSteps(s)
                BY <3>2
            <4>2. steps' \in [Seqs -> Seq(Steps)]
                BY <4>1, EditMoves
            <4>3. /\ edited' = edited \cup {s}
                  /\ UNCHANGED <<leads, sequences, usage, unsent, orphans, sends,
                                mishaps>>
                BY <4>1 DEF EditSteps
            <4>. QED  BY <1>0, <2>1, <4>2, <4>3 DEF PlainTyped
        <3>. QED  BY <1>3, <3>1, <3>2
    <2>. QED  BY <2>1, <2>2, <2>3, <2>4, <2>5, TypeKept
<1>4. ASSUME \/ \E l \in Leads : DeleteLead(l)
             \/ \E s \in Seqs : DeleteSequence(s)
      PROVE  TypeOK' /\ Grow
    <2>1. PICK gone : Cascade(gone)
        BY <1>4 DEF DeleteLead, DeleteSequence
    <2>2. UNCHANGED <<ran, recorded, jobs, worker>>
        BY <1>4 DEF DeleteLead, DeleteSequence
    <2>3. /\ RowsTyped' /\ Rows' = Rows /\ Rows \subseteq Rows'
          /\ \A e \in Rows : /\ enrollments'[e].lead = enrollments[e].lead
                             /\ enrollments'[e].seq = enrollments[e].seq
                             /\ enrollments'[e].by = enrollments[e].by
        BY <2>1, <2>2, RowsCascade
    <2>4. JobsTyped' /\ JobIds' = JobIds
        BY <2>2, <2>3, JobsSame
    <2>5. Grow
        BY <2>2, <2>3, <2>4 DEF Grow
    <2>6. WorkersTyped'
        BY <2>2, <2>4, <2>5, WorkersStay
    <2>7. PlainTyped'
        BY <1>0, <1>4, <2>3 DEF DeleteLead, DeleteSequence, PlainTyped
    <2>. QED  BY <2>3, <2>4, <2>5, <2>6, <2>7, TypeKept
<1>5. ASSUME NEW j \in JobIds, Replay(j)
      PROVE  TypeOK' /\ Grow
    <2>1. Rows' = Rows /\ RowsTyped'
        BY <1>5, RowsSame DEF Replay
    <2>2. JobsTyped' /\ Grow
        BY <1>5, <2>1, ReplayMoves DEF Grow, Replay
    <2>3. WorkersTyped'
        BY <1>5, <2>2, WorkersStay DEF Replay
    <2>4. PlainTyped'
        BY <1>0, <1>5, <2>1 DEF Replay, Fault, PlainTyped
    <2>. QED  BY <2>1, <2>2, <2>3, <2>4, TypeKept
<1>. QED  BY <1>1, <1>2, <1>3, <1>4, <1>5 DEF ApiStep

LEMMA TypeStep == TypeOK /\ [Next]_vars => TypeOK' /\ Grow
<1>. SUFFICES ASSUME TypeOK, [Next]_vars PROVE TypeOK' /\ Grow
    OBVIOUS
<1>0. PlainTyped
    BY TypeParts
<1>1. CASE ApiStep
    BY <1>1, TypeApi
<1>2. ASSUME NEW w \in Workers, WorkerStep(w) PROVE TypeOK' /\ Grow
    BY <1>2, TypeWorker
<1>3. ASSUME NEW w \in Workers, HandlerFails(w) \/ Crash(w)
      PROVE  TypeOK' /\ Grow
    <2>1. Failed(w)
        BY <1>3, FailureForms
    <2>2. JobsSettle /\ RowsTyped' /\ Rows' = Rows /\ Grow
        BY <2>1, FailMoves DEF JobsSettle, Grow
    <2>3. WorkersTyped'
        BY <2>1, <2>2, WorkersMove DEF Failed, Rollback, JobsSettle, WorkerGood
    <2>4. PlainTyped'
        BY <1>0, <2>1, <2>2 DEF Failed, Rollback, PlainTyped
    <2>. QED  BY <2>2, <2>3, <2>4, TypeKept DEF JobsSettle
<1>4. CASE UNCHANGED vars
    <2>1. Rows' = Rows /\ RowsTyped' /\ Rows \subseteq Rows'
        BY <1>4, RowsSame DEF vars
    <2>2. JobsTyped' /\ JobIds' = JobIds
        BY <1>4, <2>1, JobsSame DEF vars
    <2>3. Grow
        BY <1>4, <2>1, <2>2 DEF Grow, vars
    <2>4. WorkersTyped' /\ PlainTyped'
        BY <1>0, <1>4, <2>1, <2>2, <2>3, WorkersStay DEF vars, PlainTyped
    <2>. QED  BY <2>1, <2>2, <2>3, <2>4, TypeKept
<1>. QED  BY <1>1, <1>2, <1>3, <1>4 DEF Next

(* Every state is well typed, for any number of workers, leads, sequences, *)
(* steps and failures: the jobs refer to rows that exist, a worker holds a *)
(* job of the kind it handles, and executes a step of the list it read.    *)
THEOREM TypeCorrect == Spec => []TypeOK
<1>1. TypeOK /\ [Next]_vars => TypeOK'
    BY TypeStep
<1>. QED  BY <1>1, TypeInit, PTL DEF Spec

-----------------------------------------------------------------------------
(***************************************************************************)
(* No step is skipped.  What a worker has read of its enrollment may be    *)
(* old, but every step before its index was recorded when it was read, and *)
(* timeline events are never taken back.                                   *)
(***************************************************************************)
Unedited(e) == enrollments[e].seq \notin edited

RecordedUpTo(e, i) ==
    \A k \in 1..Len(List(e)) : k <= i => recorded[e][List(e)[k]] > 0

ReadRight(w) ==
    worker[w].pc \in Running /\ Unedited(Target(w)) =>
        /\ worker[w].list = List(Target(w))
        /\ RecordedUpTo(Target(w), worker[w].idx)

SkipInv == TypeOK /\ (\A w \in Workers : ReadRight(w)) /\ NoStepSkipped

(* Only edits change a list, and only lists of edited sequences.           *)
LEMMA ListMoves ==
    ASSUME TypeOK, [Next]_vars
    PROVE  /\ edited \subseteq edited'
           /\ \A s \in Seqs : s \notin edited' => steps'[s] = steps[s]
<1>1. ASSUME NEW s \in Seqs, EditSteps(s)
      PROVE  /\ edited \subseteq edited'
             /\ \A q \in Seqs : q \notin edited' => steps'[q] = steps[q]
    <2>1. edited' = edited \cup {s} /\ \A q \in Seqs \ {s} : steps'[q] = steps[q]
        BY <1>1, EditMoves DEF EditSteps
    <2>. QED  BY <2>1
<1>2. ASSUME ~\E s \in Seqs : EditSteps(s)
      PROVE  edited' = edited /\ steps' = steps
    BY <1>2 DEF Next, ApiStep, WorkerStep, vars, EnrollCommit, EnrollPublish,
        EnrollDies, PublishTrigger, DeleteLead, DeleteSequence, Replay,
        Acknowledge, StartTrigger, EnrollOne, EnrollRejected, CommitTrigger,
        StartStep, RunStep, StageUsage, UsageConflict, PublishNext, CommitStep,
        CommitStale, HandlerFails, Crash, Raise, Rollback
<1>. QED  BY <1>1, <1>2

(* Timeline events stay, and only the commit of a step moves the index or  *)
(* completes an enrollment.                                                *)
LEMMA RowMoves ==
    ASSUME TypeOK, [Next]_vars, NEW e \in Rows
    PROVE  /\ \A st \in Steps : recorded'[e][st] >= recorded[e][st]
           /\ \/ /\ enrollments'[e].idx = enrollments[e].idx
                 /\ \/ enrollments'[e].status = enrollments[e].status
                    \/ enrollments'[e].status # "completed"
              \/ \E w \in Workers : CommitStep(w) /\ Target(w) = e
<1>0. \A st \in Steps : recorded[e][st] \in Nat
    BY StateFacts DEF Counters
<1> DEFINE Goal == /\ \A st \in Steps : recorded'[e][st] >= recorded[e][st]
                   /\ \/ /\ enrollments'[e].idx = enrollments[e].idx
                         /\ \/ enrollments'[e].status = enrollments[e].status
                            \/ enrollments'[e].status # "completed"
                      \/ \E w \in Workers : CommitStep(w) /\ Target(w) = e
<1>1. ASSUME recorded' = recorded, enrollments' = enrollments PROVE Goal
    BY <1>0, <1>1
<1>2. ASSUME NEW l \in Leads, NEW s \in Seqs, EnrollCommit(l, s) PROVE Goal
    <2>1. Insert(l, s, "api", "active")
        BY <1>2 DEF EnrollCommit
    <2>2. enrollments'[e] = enrollments[e] /\ recorded'[e] = recorded[e]
        BY <2>1, RowInserted DEF Statuses
    <2>. QED  BY <1>0, <2>2
<1>3. ASSUME NEW w \in Workers, EnrollOne(w) PROVE Goal
    <2>1. PICK s \in worker[w].todo : Insert(Target(w), s, "event", "pending")
        BY <1>3 DEF EnrollOne
    <2>2. Target(w) \in Leads /\ worker[w].todo \subseteq Seqs
        BY <1>3, WorkerFacts DEF EnrollOne
    <2>3. s \in Seqs
        BY <2>1, <2>2
    <2>4. enrollments'[e] = enrollments[e] /\ recorded'[e] = recorded[e]
        BY <2>1, <2>2, <2>3, RowInserted DEF Statuses
    <2>. QED  BY <1>0, <2>4
<1>4. ASSUME NEW gone, Cascade(gone), UNCHANGED <<ran, recorded>> PROVE Goal
    BY <1>0, <1>4, RowsCascade
<1>5. ASSUME NEW w \in Workers, CommitTrigger(w) PROVE Goal
    <2>1. recorded' = recorded
        BY <1>5 DEF CommitTrigger
    <2>. QED  BY <1>0, <1>5, <2>1, CommitTriggerRows
<1>6. ASSUME NEW w \in Workers, CommitStep(w) PROVE Goal
    <2>1. CASE e = Target(w)
        BY <1>6, <2>1, CommitStepRows
    <2>2. CASE e # Target(w)
        <3>1. enrollments'[e] = enrollments[e] /\ recorded'[e] = recorded[e]
            BY <1>6, <2>2, CommitStepRows
        <3>. QED  BY <1>0, <3>1
    <2>. QED  BY <2>1, <2>2
<1>7. ASSUME ApiStep PROVE Goal
    <2>1. ASSUME \/ \E l \in Leads : DeleteLead(l)
                 \/ \E s \in Seqs : DeleteSequence(s)
          PROVE  Goal
        BY <1>4, <2>1 DEF DeleteLead, DeleteSequence
    <2>2. ASSUME \/ EnrollPublish \/ EnrollDies \/ \E l \in Leads : PublishTrigger(l)
                 \/ \E s \in Seqs : EditSteps(s)
                 \/ \E j \in JobIds : Replay(j)
          PROVE  Goal
        BY <1>1, <2>2
           DEF EnrollPublish, EnrollDies, PublishTrigger, EditSteps, Replay
    <2>. HIDE DEF Goal
    <2>. QED  BY <1>2, <1>7, <2>1, <2>2 DEF ApiStep
<1>8. ASSUME NEW w \in Workers, WorkerStep(w) PROVE Goal
    <2>1. CASE EnrollRejected(w) \/ UsageConflict(w) \/ CommitStale(w)
        BY <1>4, <2>1 DEF EnrollRejected, UsageConflict, CommitStale, Raise, Rollback
    <2>2. CASE Acknowledge(w) \/ StartTrigger(w) \/ StartStep(w) \/ RunStep(w)
               \/ StageUsage(w) \/ PublishNext(w)
        BY <1>1, <2>2 DEF Acknowledge, StartTrigger, StartStep, RunStep, StageUsage,
                          PublishNext
    <2>. QED  BY <1>3, <1>5, <1>6, <1>8, <2>1, <2>2 DEF WorkerStep
<1>9. ASSUME NEW w \in Workers, HandlerFails(w) \/ Crash(w) PROVE Goal
    BY <1>4, <1>9 DEF HandlerFails, Crash, Raise, Rollback
<1>10. CASE UNCHANGED vars
    BY <1>1, <1>10 DEF vars
<1>. QED  BY <1>7, <1>8, <1>9, <1>10 DEF Next

(* A worker executes a step with what it read when it started.             *)
LEMMA HolderMoves ==
    ASSUME TypeOK, [Next]_vars, NEW w \in Workers, worker'[w].pc \in Running
    PROVE  \/ /\ worker[w].pc \in Running
              /\ worker'[w].job = worker[w].job /\ worker'[w].idx = worker[w].idx
              /\ worker'[w].list = worker[w].list
           \/ \E e \in Rows : /\ worker'[w].job \in JobIds
                              /\ jobs[worker'[w].job].target = e
                              /\ worker'[w].idx = enrollments[e].idx
                              /\ worker'[w].list = List(e)
                              /\ StartStep(w) /\ Active(e)
<1> DEFINE Goal == \/ /\ worker[w].pc \in Running
                      /\ worker'[w].job = worker[w].job
                      /\ worker'[w].idx = worker[w].idx
                      /\ worker'[w].list = worker[w].list
                   \/ \E e \in Rows : /\ worker'[w].job \in JobIds
                                      /\ jobs[worker'[w].job].target = e
                                      /\ worker'[w].idx = enrollments[e].idx
                                      /\ worker'[w].list = List(e)
                                      /\ StartStep(w) /\ Active(e)
<1>0. DOMAIN worker = Workers
    BY StateFacts
<1>1. ASSUME worker'[w] = worker[w] PROVE Goal
    BY <1>1
<1>2. ASSUME NEW v \in Workers, WorkerStep(v) \/ HandlerFails(v) \/ Crash(v) PROVE Goal
    <2>1. CASE v # w
        <3>1. \E r : Set(v, r)
            BY <1>2 DEF WorkerStep, Acknowledge, StartTrigger, EnrollOne,
                EnrollRejected, CommitTrigger, StartStep, RunStep, StageUsage,
                UsageConflict, PublishNext, CommitStep, CommitStale, HandlerFails,
                Crash, Raise, Rollback
        <3>2. worker'[w] = worker[w]
            BY <1>0, <2>1, <3>1 DEF Set
        <3>. QED  BY <1>1, <3>2
    <2>2. CASE v = w /\ StartStep(w)
        <3>1. PICK j \in JobIds, e \in Rows :
                  /\ e = jobs[j].target
                  /\ Reads(w, j, e) \/ Passes(w, j, e)
            BY <2>2, StartForms
        <3>2. ~Passes(w, j, e)
            BY <1>0 DEF Passes, Set, Ack, Running
        <3>3. worker'[w] = Reading(j, e) /\ Active(e)
            BY <1>0, <3>1, <3>2 DEF Reads, Set, Active
        <3>. QED  BY <2>2, <3>1, <3>3 DEF Reading, StepTxn, List
    <2>3. CASE v = w /\ (RunStep(w) \/ StageUsage(w) \/ PublishNext(w))
        BY <1>0, <2>3 DEF RunStep, StageUsage, PublishNext, StepTxn, Set, Running
    <2>4. CASE v = w /\ ~(StartStep(w) \/ RunStep(w) \/ StageUsage(w) \/ PublishNext(w))
        <3>1. CASE Set(w, Idle)
            BY <1>0, <3>1 DEF Set, Idle, Running
        <3>2. CASE Set(w, Ack(worker[w].job))
            BY <1>0, <3>2 DEF Set, Ack, Running
        <3>3. ASSUME NEW j, NEW todo, NEW made, Set(w, TriggerTxn(j, todo, made))
              PROVE  FALSE
            BY <1>0, <3>3 DEF Set, TriggerTxn, Running
        <3>. QED
            BY <1>2, <2>4, <3>1, <3>2, <3>3 DEF WorkerStep, Acknowledge,
                StartTrigger, EnrollOne, EnrollRejected, CommitTrigger,
                UsageConflict, CommitStep, CommitStale, HandlerFails, Crash, Raise,
                Rollback
    <2>. QED  BY <2>1, <2>2, <2>3, <2>4
<1>3. CASE ApiStep \/ UNCHANGED vars
    <2>1. worker' = worker
        BY <1>3 DEF ApiStep, vars, EnrollCommit, EnrollPublish, EnrollDies,
            PublishTrigger, DeleteLead, DeleteSequence, EditSteps, Replay
    <2>. QED  BY <1>1, <2>1
<1>. QED  BY <1>2, <1>3 DEF Next

(* A row is added by the API or by a trigger's transaction.                *)
LEMMA RowsAdded ==
    ASSUME TypeOK, [Next]_vars, NEW e \in Rows', e \notin Rows
    PROVE  /\ e = Len(enrollments) + 1
           /\ \A st \in Steps : ran'[e][st] = 0
           /\ \/ \E l \in Leads, s \in Seqs :
                     EnrollCommit(l, s) /\ enrollments'[e] = RowOf(l, s, "api", "active")
              \/ \E w \in Workers, s \in Seqs :
                     /\ EnrollOne(w) /\ s \in worker[w].todo
                     /\ enrollments'[e] = RowOf(Target(w), s, "event", "pending")
                     /\ Set(w, TriggerTxn(worker[w].job, worker[w].todo \ {s},
                                          worker[w].made \cup {e}))
<1> DEFINE Goal ==
           /\ e = Len(enrollments) + 1
           /\ \A st \in Steps : ran'[e][st] = 0
           /\ \/ \E l \in Leads, s \in Seqs :
                     EnrollCommit(l, s) /\ enrollments'[e] = RowOf(l, s, "api", "active")
              \/ \E w \in Workers, s \in Seqs :
                     /\ EnrollOne(w) /\ s \in worker[w].todo
                     /\ enrollments'[e] = RowOf(Target(w), s, "event", "pending")
                     /\ Set(w, TriggerTxn(worker[w].job, worker[w].todo \ {s},
                                          worker[w].made \cup {e}))
<1>1. ASSUME NEW l \in Leads, NEW s \in Seqs, EnrollCommit(l, s) PROVE Goal
    <2>1. Insert(l, s, "api", "active")
        BY <1>1 DEF EnrollCommit
    <2>2. /\ Rows' = Rows \cup {Len(enrollments) + 1}
          /\ enrollments'[Len(enrollments) + 1] = RowOf(l, s, "api", "active")
          /\ \A st \in Steps : ran'[Len(enrollments) + 1][st] = 0
        BY <2>1, RowInserted DEF Statuses
    <2>3. e = Len(enrollments) + 1
        BY <2>2
    <2>. QED  BY <1>1, <2>2, <2>3
<1>2. ASSUME NEW w \in Workers, EnrollOne(w) PROVE Goal
    <2>1. PICK s, r :
             /\ s \in worker[w].todo
             /\ Insert(Target(w), s, "event", "pending")
             /\ r = TriggerTxn(worker[w].job, worker[w].todo \ {s},
                               worker[w].made \cup {Len(enrollments) + 1})
             /\ Set(w, r)
        BY <1>2 DEF EnrollOne
    <2>2. Target(w) \in Leads /\ worker[w].todo \subseteq Seqs
        BY <1>2, WorkerFacts DEF EnrollOne
    <2>3. s \in Seqs
        BY <2>1, <2>2
    <2>4. /\ Rows' = Rows \cup {Len(enrollments) + 1}
          /\ enrollments'[Len(enrollments) + 1] = RowOf(Target(w), s, "event", "pending")
          /\ \A st \in Steps : ran'[Len(enrollments) + 1][st] = 0
        BY <2>1, <2>2, <2>3, RowInserted DEF Statuses
    <2>5. e = Len(enrollments) + 1
        BY <2>4
    <2>. QED  BY <1>2, <2>1, <2>3, <2>4, <2>5
<1>3. ASSUME Rows' = Rows PROVE Goal
    BY <1>3
<1>4. ASSUME NEW gone, Cascade(gone), UNCHANGED <<ran, recorded>> PROVE Goal
    BY <1>3, <1>4, RowsCascade
<1>5. ASSUME NEW w \in Workers, CommitTrigger(w) \/ CommitStep(w) PROVE Goal
    BY <1>3, <1>5, CommitTriggerRows, CommitStepRows
<1>6. ASSUME UNCHANGED enrollments PROVE Goal
    BY <1>3, <1>6 DEF Rows
<1>7. ASSUME ApiStep PROVE Goal
    <2>1. ASSUME \/ \E l \in Leads : DeleteLead(l)
                 \/ \E s \in Seqs : DeleteSequence(s)
          PROVE  Goal
        BY <1>4, <2>1 DEF DeleteLead, DeleteSequence
    <2>2. ASSUME \/ EnrollPublish \/ EnrollDies \/ \E l \in Leads : PublishTrigger(l)
                 \/ \E s \in Seqs : EditSteps(s)
                 \/ \E j \in JobIds : Replay(j)
          PROVE  Goal
        BY <1>6, <2>2
           DEF EnrollPublish, EnrollDies, PublishTrigger, EditSteps, Replay
    <2>. HIDE DEF Goal
    <2>. QED  BY <1>1, <1>7, <2>1, <2>2 DEF ApiStep
<1>8. ASSUME NEW w \in Workers, WorkerStep(w) PROVE Goal
    <2>1. ASSUME EnrollRejected(w) \/ UsageConflict(w) \/ CommitStale(w) PROVE Goal
        BY <1>4, <2>1 DEF EnrollRejected, UsageConflict, CommitStale, Raise, Rollback
    <2>2. ASSUME Acknowledge(w) \/ StartTrigger(w) \/ StartStep(w) \/ RunStep(w)
                 \/ StageUsage(w) \/ PublishNext(w)
          PROVE  Goal
        BY <1>6, <2>2 DEF Acknowledge, StartTrigger, StartStep, RunStep, StageUsage,
                          PublishNext
    <2>. HIDE DEF Goal
    <2>. QED  BY <1>2, <1>5, <1>8, <2>1, <2>2 DEF WorkerStep
<1>9. ASSUME NEW w \in Workers, HandlerFails(w) \/ Crash(w) PROVE Goal
    BY <1>4, <1>9 DEF HandlerFails, Crash, Raise, Rollback
<1>10. ASSUME UNCHANGED vars PROVE Goal
    BY <1>6, <1>10 DEF vars
<1>. HIDE DEF Goal
<1>11. Goal
    BY <1>7, <1>8, <1>9, <1>10 DEF Next
<1>. QED  BY <1>11 DEF Goal

LEMMA SkipInit == Init => SkipInv
<1>. SUFFICES ASSUME Init PROVE SkipInv
    OBVIOUS
<1>1. Rows = {} /\ \A w \in Workers : worker[w] = Idle
    BY DEF Init, Rows
<1>2. NoStepSkipped /\ \A w \in Workers : ReadRight(w)
    BY <1>1 DEF NoStepSkipped, ReadRight, Idle, Running
<1>. QED  BY <1>2, TypeInit DEF SkipInv

(* The list of an enrollment whose sequence is not edited stays.           *)
LEMMA ListStays ==
    ASSUME TypeOK, [Next]_vars, NEW e \in Rows, Unedited(e)'
    PROVE  Unedited(e) /\ List(e)' = List(e) /\ List(e) \in Seq(Steps)
<1>1. Grow /\ enrollments[e].seq \in Seqs /\ steps \in [Seqs -> Seq(Steps)]
    BY TypeStep, StateFacts DEF Enrollment, TypeOK
<1>2. enrollments'[e].seq = enrollments[e].seq
    BY <1>1 DEF Grow
<1>3. enrollments[e].seq \notin edited'
    BY <1>2 DEF Unedited
<1>4. edited \subseteq edited' /\ steps'[enrollments[e].seq] = steps[enrollments[e].seq]
    BY <1>1, <1>3, ListMoves
<1>. QED  BY <1>1, <1>2, <1>3, <1>4 DEF Unedited, List

Counted == \A e \in Rows, st \in Steps : ran[e][st] \in Nat /\ recorded[e][st] \in Nat

LEMMA CountsAreNat == TypeOK => Counted
BY StateFacts DEF Counters, Counted

LEMMA CountsStayNat == TypeOK' => Counted'
BY CountsAreNat, PTL

LEMMA RecordedStays ==
    ASSUME TypeOK, [Next]_vars, NEW e \in Rows, Unedited(e)', NEW i, RecordedUpTo(e, i)
    PROVE  RecordedUpTo(e, i)'
<1>1. List(e)' = List(e) /\ List(e) \in Seq(Steps)
    BY ListStays
<1>2. \A st \in Steps : /\ recorded'[e][st] >= recorded[e][st]
                        /\ recorded[e][st] \in Nat /\ recorded'[e][st] \in Nat
    <2>1. TypeOK' /\ e \in Rows'
        BY TypeStep DEF Grow
    <2>2. Counted /\ Counted'
        BY <2>1, CountsAreNat, CountsStayNat
    <2>. QED  BY <2>1, <2>2, RowMoves DEF Counted
<1>3. PICK list \in Seq(Steps) : list = List(e) /\ list = List(e)'
    BY <1>1
<1>4. \A k \in 1..Len(list) : list[k] \in Steps
    BY ElementOfSeq
<1>. QED  BY <1>2, <1>3, <1>4 DEF RecordedUpTo

LEMMA ReadRightStays ==
    ASSUME SkipInv, [Next]_vars, NEW w \in Workers
    PROVE  ReadRight(w)'
<1>. SUFFICES ASSUME worker'[w].pc \in Running, Unedited(Target(w))'
              PROVE  /\ worker'[w].list = List(Target(w))'
                     /\ RecordedUpTo(Target(w), worker[w].idx)'
    BY DEF ReadRight
<1>1. TypeOK /\ Grow /\ TypeOK'
    BY TypeStep DEF SkipInv
<1>2. ASSUME NEW e \in Rows, NEW i, e = Target(w)', i = worker'[w].idx,
             worker'[w].list = List(e), RecordedUpTo(e, i)
      PROVE  /\ worker'[w].list = List(Target(w))'
             /\ RecordedUpTo(Target(w), worker[w].idx)'
    <2>1. Unedited(e)'
        BY <1>2 DEF Unedited
    <2>2. List(e)' = List(e) /\ RecordedUpTo(e, i)'
        BY <1>1, <1>2, <2>1, ListStays, RecordedStays
    <2>. QED  BY <1>2, <2>2 DEF List, RecordedUpTo
<1>3. CASE /\ worker[w].pc \in Running
           /\ worker'[w].job = worker[w].job /\ worker'[w].idx = worker[w].idx
           /\ worker'[w].list = worker[w].list
    <2>1. PICK e, i :
             /\ e \in Rows
             /\ e = Target(w) /\ i = worker[w].idx
        BY <1>1, <1>3, WorkerFacts
    <2>2. worker[w].job \in JobIds
        BY <1>1, <1>3, WorkerFacts DEF Running
    <2>3. e = Target(w)'
        BY <1>1, <1>3, <2>1, <2>2 DEF Target, Grow
    <2>4. Unedited(e)'
        BY <2>3 DEF Unedited
    <2>5. Unedited(e)
        BY <2>1, <1>1, <2>4, ListStays
    <2>6. worker[w].list = List(e) /\ RecordedUpTo(e, i)
        BY <1>3, <2>1, <2>5 DEF SkipInv, ReadRight
    <2>. QED  BY <1>2, <1>3, <2>1, <2>3, <2>6
<1>4. ASSUME NEW e \in Rows, worker'[w].job \in JobIds,
             jobs[worker'[w].job].target = e,
             worker'[w].idx = enrollments[e].idx, worker'[w].list = List(e)
      PROVE  /\ worker'[w].list = List(Target(w))'
             /\ RecordedUpTo(Target(w), worker[w].idx)'
    <2>1. e = Target(w)'
        BY <1>1, <1>4 DEF Target, Grow
    <2>2. Unedited(e)'
        BY <2>1 DEF Unedited
    <2>3. Unedited(e)
        BY <1>1, <2>2, ListStays
    <2>4. RecordedUpTo(e, enrollments[e].idx)
        BY <2>3 DEF SkipInv, NoStepSkipped, RecordedUpTo, Unedited
    <2>. QED  BY <1>2, <1>4, <2>1, <2>4
<1>. QED  BY <1>1, <1>3, <1>4, HolderMoves

LEMMA NoSkipStays ==
    ASSUME SkipInv, [Next]_vars
    PROVE  NoStepSkipped'
<1>1. TypeOK /\ Grow /\ TypeOK' /\ \A w \in Workers : ReadRight(w)
    BY TypeStep DEF SkipInv
<1>2. ASSUME NEW e \in Rows', Unedited(e)',
             NEW k \in 1..Len(List(e)'),
             k <= enrollments'[e].idx \/ enrollments'[e].status = "completed"
      PROVE  recorded'[e][List(e)'[k]] > 0
    <2>1. CASE e \notin Rows
        <3>1. enrollments'[e].idx = 0 /\ enrollments'[e].status # "completed"
            <4>1. PICK l, s, by, status :
                      /\ enrollments'[e] = RowOf(l, s, by, status)
                      /\ status \in {"active", "pending"}
                BY <1>1, <2>1, RowsAdded
            <4>. QED  BY <4>1 DEF RowOf
        <3>. QED  BY <1>2, <3>1
    <2>2. CASE e \in Rows
        <3>1. PICK list \in Seq(Steps) : /\ list = List(e) /\ list = List(e)'
                                         /\ Unedited(e)
            BY <1>1, <1>2, <2>2, ListStays
        <3>2. k \in 1..Len(list) /\ list[k] \in Steps /\ Len(list) \in Nat
            BY <1>2, <3>1, ElementOfSeq, LenProperties
        <3>3. /\ recorded'[e][list[k]] >= recorded[e][list[k]]
              /\ recorded[e][list[k]] \in Nat /\ recorded'[e][list[k]] \in Nat
            <4>1. Counted /\ Counted'
                BY <1>1, CountsAreNat, CountsStayNat
            <4>. QED  BY <1>1, <1>2, <2>2, <3>2, <4>1, RowMoves DEF Counted
        <3>4. ASSUME k <= enrollments[e].idx \/ enrollments[e].status = "completed"
              PROVE  recorded[e][list[k]] > 0
            BY <2>2, <3>1, <3>2, <3>4 DEF SkipInv, NoStepSkipped, Unedited
        <3>5. ASSUME NEW w \in Workers, CommitStep(w), Target(w) = e
              PROVE  recorded'[e][list[k]] > 0
            <4>1. /\ worker[w].pc \in Running /\ worker[w].idx \in Nat
                  /\ worker[w].pc = "commit"
                BY <1>1, <3>5, WorkerFacts DEF CommitStep, Running
            <4>2. worker[w].list = list /\ RecordedUpTo(e, worker[w].idx)
                BY <1>1, <3>1, <3>5, <4>1 DEF ReadRight
            <4>3. k <= worker[w].idx => recorded[e][list[k]] > 0
                BY <3>1, <3>2, <4>2 DEF RecordedUpTo
            <4>4. CASE Past(w)
                BY <3>2, <3>3, <4>1, <4>2, <4>3, <4>4 DEF Past
            <4>5. CASE ~Past(w)
                <5>1. /\ enrollments'[e].idx = worker[w].idx + 1
                      /\ enrollments'[e].status = IF IsLast(w) THEN "completed"
                                                  ELSE enrollments[e].status
                      /\ recorded'[e][StepOf(w)] > 0
                    BY <1>1, <3>5, <4>5, CommitStepRows
                <5>2. CASE k = worker[w].idx + 1
                    BY <4>2, <5>1, <5>2 DEF StepOf
                <5>3. CASE k <= worker[w].idx
                    BY <3>3, <4>3, <5>3
                <5>4. CASE k > worker[w].idx + 1
                    <6>1. enrollments'[e].status = "completed" /\ ~IsLast(w)
                        BY <1>2, <3>2, <4>1, <4>2, <5>1, <5>4 DEF IsLast
                    <6>. QED  BY <3>3, <3>4, <5>1, <6>1
                <5>. QED  BY <3>2, <4>1, <5>2, <5>3, <5>4
            <4>. QED  BY <4>4, <4>5
        <3>6. CASE /\ enrollments'[e].idx = enrollments[e].idx
                   /\ \/ enrollments'[e].status = enrollments[e].status
                      \/ enrollments'[e].status # "completed"
            BY <1>2, <3>1, <3>3, <3>4, <3>6
        <3>. QED  BY <1>1, <2>2, <3>1, <3>5, <3>6, RowMoves
    <2>. QED  BY <2>1, <2>2
<1>3. NoStepSkipped' <=>
          \A e \in Rows' : Unedited(e)' =>
              \A k \in 1..Len(List(e)') :
                  (k <= enrollments'[e].idx \/ enrollments'[e].status = "completed")
                      => recorded'[e][List(e)'[k]] > 0
    BY DEF NoStepSkipped, Unedited
<1>. QED  BY <1>2, <1>3

LEMMA SkipStep == SkipInv /\ [Next]_vars => SkipInv'
<1>. SUFFICES ASSUME SkipInv, [Next]_vars PROVE SkipInv'
    OBVIOUS
<1>. QED  BY TypeStep, ReadRightStays, NoSkipStays DEF SkipInv

(* No step of an unedited sequence is skipped, whatever the number of      *)
(* workers, redeliveries, crashes and failures: what a handler read may    *)
(* be old, but it commits the step after the one it found recorded.        *)
THEOREM StepsInOrder == Spec => []NoStepSkipped
<1>1. SkipInv => NoStepSkipped
    BY DEF SkipInv
<1>. QED  BY <1>1, SkipInit, SkipStep, PTL DEF Spec

-----------------------------------------------------------------------------
(***************************************************************************)
(* No active enrollment is forgotten.  A job whose handler has returned,   *)
(* or has published the next step and is about to commit, does not count   *)
(* any more: every open enrollment has another one.                        *)
(***************************************************************************)
Finishes(r) == r.pc = "ack" \/ (r.pc = "commit" /\ ~(r.idx + 1 >= Len(r.list)))

Done(j) == \E w \in Workers : worker[w].job = j /\ Finishes(worker[w])

Open(e) == enrollments[e].status \in {"pending", "active"}

Carries(j, e) == /\ jobs[j].event = "step" /\ jobs[j].target = e
                 /\ jobs[j].state \in {"queued", "dead"}
                 /\ ~Done(j)

JobFor(e) == \E j \in JobIds : Carries(j, e)

(* Uncommitted rows belong to one transaction, and nobody executes them.   *)
MadeApart ==
    \A w \in Workers : worker[w].pc = "enroll" =>
        /\ \A e \in worker[w].made : Pending(e)
        /\ \A v \in Workers \ {w} : worker[v].pc = "enroll" =>
               worker[v].made \cap worker[w].made = {}

ReadCommitted ==
    \A w \in Workers : worker[w].pc \in Running => ~Pending(Target(w))

Covered == \A e \in Rows : Open(e) => e \in unsent \cup orphans \/ JobFor(e)

JobInv == TypeOK /\ MadeApart /\ ReadCommitted /\ Covered

(* Why the status of a row changes.                                        *)
LEMMA StatusMoves ==
    ASSUME TypeOK, [Next]_vars, NEW e \in Rows
    PROVE  \/ enrollments'[e].status = enrollments[e].status
           \/ /\ enrollments'[e].status = "gone"
              /\ Pending(e) => \E v \in Workers : /\ worker[v].pc = "enroll"
                                                  /\ e \in worker[v].made
                                                  /\ worker'[v] = Idle
           \/ /\ enrollments'[e].status = "active"
              /\ \E v \in Workers : CommitTrigger(v) /\ e \in worker[v].made
           \/ /\ enrollments'[e].status = "completed"
              /\ \E v \in Workers : CommitStep(v) /\ Target(v) = e
<1> DEFINE Goal ==
           \/ enrollments'[e].status = enrollments[e].status
           \/ /\ enrollments'[e].status = "gone"
              /\ Pending(e) => \E v \in Workers : /\ worker[v].pc = "enroll"
                                                  /\ e \in worker[v].made
                                                  /\ worker'[v] = Idle
           \/ /\ enrollments'[e].status = "active"
              /\ \E v \in Workers : CommitTrigger(v) /\ e \in worker[v].made
           \/ /\ enrollments'[e].status = "completed"
              /\ \E v \in Workers : CommitStep(v) /\ Target(v) = e
<1>0. DOMAIN worker = Workers
    BY StateFacts
<1>1. ASSUME enrollments'[e] = enrollments[e] PROVE Goal
    BY <1>1
<1>2. ASSUME NEW l \in Leads, NEW s \in Seqs, EnrollCommit(l, s) PROVE Goal
    <2>1. Insert(l, s, "api", "active")
        BY <1>2 DEF EnrollCommit
    <2>. QED  BY <1>1, <2>1, RowInserted DEF Statuses
<1>3. ASSUME NEW w \in Workers, EnrollOne(w) PROVE Goal
    <2>1. PICK s \in worker[w].todo : Insert(Target(w), s, "event", "pending")
        BY <1>3 DEF EnrollOne
    <2>2. Target(w) \in Leads /\ worker[w].todo \subseteq Seqs
        BY <1>3, WorkerFacts DEF EnrollOne
    <2>3. s \in Seqs
        BY <2>1, <2>2
    <2>. QED  BY <1>1, <2>1, <2>2, <2>3, RowInserted DEF Statuses
<1>4. ASSUME NEW gone, Cascade(gone), UNCHANGED <<ran, recorded>>, ~Pending(e)
      PROVE  Goal
    <2>1. enrollments'[e].status \in {enrollments[e].status, "gone"}
        BY <1>4, RowsCascade
    <2>. QED  BY <1>4, <2>1
<1>5. ASSUME NEW w \in Workers, CommitTrigger(w) PROVE Goal
    <2>1. enrollments'[e].status = IF e \in worker[w].made THEN "active"
                                   ELSE enrollments[e].status
        BY <1>5, CommitTriggerRows
    <2>. QED  BY <1>5, <2>1
<1>6. ASSUME NEW w \in Workers, CommitStep(w) PROVE Goal
    <2>1. CASE e = Target(w)
        <3>1. enrollments'[e].status \in {enrollments[e].status, "completed"}
            BY <1>6, <2>1, CommitStepRows
        <3>. QED  BY <1>6, <2>1, <3>1
    <2>2. CASE e # Target(w)
        BY <1>1, <1>6, <2>2, CommitStepRows
    <2>. QED  BY <2>1, <2>2
<1>7. ASSUME NEW w \in Workers, Failed(w) PROVE Goal
    <2>1. PICK gone : /\ gone = IF worker[w].pc = "enroll" THEN worker[w].made ELSE {}
                      /\ Cascade(gone)
        BY <1>7 DEF Failed, Rollback
    <2>2. UNCHANGED <<ran, recorded>> /\ worker'[w] = Idle
        BY <1>0, <1>7 DEF Failed, Rollback, Set
    <2>3. enrollments'[e].status = IF e \in gone THEN "gone"
                                   ELSE enrollments[e].status
        BY <2>1, <2>2, RowsCascade
    <2>. QED  BY <2>1, <2>2, <2>3
<1>8. ASSUME UNCHANGED enrollments PROVE Goal
    BY <1>1, <1>8
<1>9. ASSUME ApiStep PROVE Goal
    <2>1. ASSUME NEW l \in Leads, DeleteLead(l) PROVE Goal
        <3>1. CASE enrollments[e].lead = l
            BY <1>4, <2>1, <3>1 DEF DeleteLead
        <3>2. CASE enrollments[e].lead # l
            <4>1. PICK gone : Cascade(gone) /\ e \notin gone
                BY <2>1, <3>2 DEF DeleteLead
            <4>2. UNCHANGED <<ran, recorded>>
                BY <2>1 DEF DeleteLead
            <4>. QED  BY <4>1, <4>2, RowsCascade
        <3>. QED  BY <3>1, <3>2
    <2>2. ASSUME NEW s \in Seqs, DeleteSequence(s) PROVE Goal
        <3>1. CASE enrollments[e].seq = s
            BY <1>4, <2>2, <3>1 DEF DeleteSequence
        <3>2. CASE enrollments[e].seq # s
            <4>1. PICK gone : Cascade(gone) /\ e \notin gone
                BY <2>2, <3>2 DEF DeleteSequence
            <4>2. UNCHANGED <<ran, recorded>>
                BY <2>2 DEF DeleteSequence
            <4>. QED  BY <4>1, <4>2, RowsCascade
        <3>. QED  BY <3>1, <3>2
    <2>3. ASSUME \/ EnrollPublish \/ EnrollDies \/ \E l \in Leads : PublishTrigger(l)
                 \/ \E s \in Seqs : EditSteps(s)
                 \/ \E j \in JobIds : Replay(j)
          PROVE  Goal
        BY <1>8, <2>3
           DEF EnrollPublish, EnrollDies, PublishTrigger, EditSteps, Replay
    <2>. HIDE DEF Goal
    <2>. QED  BY <1>2, <1>9, <2>1, <2>2, <2>3 DEF ApiStep
<1>10. ASSUME NEW w \in Workers, WorkerStep(w) \/ HandlerFails(w) \/ Crash(w) PROVE Goal
    <2>1. ASSUME EnrollRejected(w) \/ UsageConflict(w) \/ CommitStale(w)
                     \/ HandlerFails(w) \/ Crash(w)
          PROVE  Goal
        BY <1>7, <2>1, FailureForms
    <2>2. ASSUME Acknowledge(w) \/ StartTrigger(w) \/ StartStep(w) \/ RunStep(w)
                 \/ StageUsage(w) \/ PublishNext(w)
          PROVE  Goal
        BY <1>8, <2>2 DEF Acknowledge, StartTrigger, StartStep, RunStep, StageUsage,
                          PublishNext
    <2>. HIDE DEF Goal
    <2>. QED  BY <1>3, <1>5, <1>6, <1>10, <2>1, <2>2 DEF WorkerStep
<1>11. ASSUME UNCHANGED vars PROVE Goal
    BY <1>8, <1>11 DEF vars
<1>. HIDE DEF Goal
<1>12. Goal
    BY <1>9, <1>10, <1>11 DEF Next
<1>. QED  BY <1>12 DEF Goal

(* A transaction that enrolls goes on, starts, or adds a row.              *)
LEMMA EnrollerMoves ==
    ASSUME TypeOK, [Next]_vars, NEW w \in Workers, worker'[w].pc = "enroll"
    PROVE  \/ worker'[w] = worker[w]
           \/ worker'[w].made = {}
           \/ /\ EnrollOne(w) /\ worker[w].pc = "enroll"
              /\ worker'[w].made = worker[w].made \cup {Len(enrollments) + 1}
              /\ \A v \in Workers \ {w} : worker'[v] = worker[v]
<1> DEFINE Goal ==
           \/ worker'[w] = worker[w]
           \/ worker'[w].made = {}
           \/ /\ EnrollOne(w) /\ worker[w].pc = "enroll"
              /\ worker'[w].made = worker[w].made \cup {Len(enrollments) + 1}
              /\ \A v \in Workers \ {w} : worker'[v] = worker[v]
<1>0. DOMAIN worker = Workers
    BY StateFacts
<1>1. ASSUME NEW v \in Workers, WorkerStep(v) \/ HandlerFails(v) \/ Crash(v) PROVE Goal
    <2>1. CASE v # w
        <3>1. \E r : Set(v, r)
            BY <1>1 DEF WorkerStep, Acknowledge, StartTrigger, EnrollOne,
                EnrollRejected, CommitTrigger, StartStep, RunStep, StageUsage,
                UsageConflict, PublishNext, CommitStep, CommitStale, HandlerFails,
                Crash, Raise, Rollback
        <3>. QED  BY <1>0, <2>1, <3>1 DEF Set
    <2>2. CASE v = w /\ StartTrigger(w)
        BY <1>0, <2>2 DEF StartTrigger, TriggerTxn, Set
    <2>3. CASE v = w /\ EnrollOne(w)
        <3>1. PICK todo, made : /\ made = worker[w].made \cup {Len(enrollments) + 1}
                                /\ Set(w, TriggerTxn(worker[w].job, todo, made))
            BY <2>3 DEF EnrollOne
        <3>2. worker'[w].made = made /\ \A u \in Workers \ {w} : worker'[u] = worker[u]
            BY <1>0, <3>1 DEF Set, TriggerTxn
        <3>3. worker[w].pc = "enroll"
            BY <2>3 DEF EnrollOne
        <3>. QED  BY <2>3, <3>1, <3>2, <3>3
    <2>4. CASE v = w /\ ~StartTrigger(w) /\ ~EnrollOne(w)
        <3>1. CASE Set(w, Idle)
            BY <1>0, <3>1 DEF Set, Idle
        <3>2. ASSUME NEW j, Set(w, Ack(j)) PROVE FALSE
            BY <1>0, <3>2 DEF Set, Ack
        <3>3. ASSUME NEW pc \in Running, NEW j, NEW i, NEW list, NEW u,
                     Set(w, StepTxn(pc, j, i, list, u))
              PROVE  FALSE
            BY <1>0, <3>3 DEF Set, StepTxn, Running
        <3>4. CASE StartStep(w)
            <4>1. PICK j \in JobIds, e \in Rows : Reads(w, j, e) \/ Passes(w, j, e)
                BY <3>4, StartForms
            <4>. QED  BY <3>2, <3>3, <4>1 DEF Reads, Passes, Reading, Running
        <3>5. CASE RunStep(w) \/ StageUsage(w) \/ PublishNext(w)
            BY <3>3, <3>5 DEF RunStep, StageUsage, PublishNext, Running
        <3>6. CASE CommitTrigger(w) \/ CommitStep(w)
            BY <3>2, <3>6 DEF CommitTrigger, CommitStep
        <3>7. CASE Acknowledge(w) \/ EnrollRejected(w) \/ UsageConflict(w)
                   \/ CommitStale(w) \/ HandlerFails(w) \/ Crash(w)
            BY <3>1, <3>7 DEF Acknowledge, EnrollRejected, UsageConflict,
                CommitStale, HandlerFails, Crash, Raise, Rollback
        <3>. QED
            BY <1>1, <2>4, <3>4, <3>5, <3>6, <3>7 DEF WorkerStep
    <2>. QED  BY <2>1, <2>2, <2>3, <2>4
<1>2. ASSUME ApiStep \/ UNCHANGED vars PROVE Goal
    <2>1. worker' = worker
        BY <1>2 DEF ApiStep, vars, EnrollCommit, EnrollPublish, EnrollDies,
            PublishTrigger, DeleteLead, DeleteSequence, EditSteps, Replay
    <2>. QED  BY <2>1
<1>. HIDE DEF Goal
<1>3. Goal
    BY <1>1, <1>2 DEF Next
<1>. QED  BY <1>3 DEF Goal

LEMMA MadeStays ==
    ASSUME JobInv, [Next]_vars
    PROVE  MadeApart'
<1>1. TypeOK /\ Grow /\ MadeApart /\ ReadCommitted /\ DOMAIN worker = Workers
    BY TypeStep, StateFacts DEF JobInv
<1>2. ASSUME NEW e \in Rows, NEW w \in Workers, Pending(e),
             worker[w].pc = "enroll", e \in worker[w].made,
             worker'[w].pc = "enroll"
      PROVE  enrollments'[e].status = "pending"
    <2>1. \A v \in Workers : worker[v].pc = "enroll" /\ e \in worker[v].made => v = w
        BY <1>1, <1>2 DEF MadeApart
    <2>2. ~\E v \in Workers : CommitTrigger(v) /\ e \in worker[v].made
        BY <1>1, <1>2, <2>1 DEF CommitTrigger, Set, Ack
    <2>3. ~\E v \in Workers : /\ worker[v].pc = "enroll" /\ e \in worker[v].made
                              /\ worker'[v] = Idle
        BY <1>2, <2>1 DEF Idle
    <2>4. ~\E v \in Workers : CommitStep(v) /\ Target(v) = e
        BY <1>1, <1>2 DEF CommitStep, ReadCommitted, Running
    <2>. QED  BY <1>1, <1>2, <2>2, <2>3, <2>4, StatusMoves DEF Pending
<1>3. ASSUME NEW w \in Workers, worker'[w].pc = "enroll"
      PROVE  /\ \A e \in worker'[w].made : enrollments'[e].status = "pending"
             /\ \A v \in Workers \ {w} : worker'[v].pc = "enroll" =>
                    worker'[v].made \cap worker'[w].made = {}
    <2>1. ASSUME NEW v \in Workers, worker'[v].pc = "enroll",
                 NEW e \in worker'[v].made
          PROVE  \/ worker[v].pc = "enroll" /\ e \in worker[v].made /\ e \in Rows
                 \/ /\ EnrollOne(v) /\ e = Len(enrollments) + 1
                    /\ \A u \in Workers \ {v} : worker'[u] = worker[u]
        BY <1>1, <2>1, EnrollerMoves, WorkerFacts
    <2>2. Len(enrollments) + 1 \notin Rows
        BY <1>1, StateFacts DEF Rows
    <2>3. ASSUME NEW e \in worker'[w].made PROVE enrollments'[e].status = "pending"
        <3>1. CASE worker[w].pc = "enroll" /\ e \in worker[w].made /\ e \in Rows
            BY <1>1, <1>2, <1>3, <3>1 DEF MadeApart
        <3>2. CASE EnrollOne(w) /\ e = Len(enrollments) + 1
            <4>1. PICK s \in worker[w].todo :
                      Insert(Target(w), s, "event", "pending")
                BY <3>2 DEF EnrollOne
            <4>2. Target(w) \in Leads /\ worker[w].todo \subseteq Seqs
                BY <1>1, <3>2, WorkerFacts DEF EnrollOne
            <4>3. s \in Seqs
                BY <4>1, <4>2
            <4>4. enrollments'[e] = RowOf(Target(w), s, "event", "pending")
                BY <1>1, <3>2, <4>1, <4>2, <4>3, RowInserted DEF Statuses
            <4>. QED  BY <4>4 DEF RowOf
        <3>. QED  BY <1>3, <2>1, <3>1, <3>2
    <2>4. ASSUME NEW v \in Workers \ {w}, worker'[v].pc = "enroll",
                 NEW e \in worker'[v].made, e \in worker'[w].made
          PROVE  FALSE
        <3>1. CASE e \in Rows
            <4>1. /\ worker[v].pc = "enroll" /\ e \in worker[v].made
                  /\ worker[w].pc = "enroll" /\ e \in worker[w].made
                BY <1>3, <2>1, <2>2, <2>4, <3>1
            <4>. QED  BY <1>1, <4>1 DEF MadeApart
        <3>2. CASE e \notin Rows
            <4>1. /\ EnrollOne(w) /\ worker'[v] = worker[v]
                  /\ \A u \in Workers \ {w} : worker'[u] = worker[u]
                BY <1>3, <2>1, <2>4, <3>2
            <4>2. worker[v].pc = "enroll" /\ worker[v].made \subseteq Rows
                BY <1>1, <2>4, <4>1, WorkerFacts
            <4>. QED  BY <2>4, <3>2, <4>1, <4>2
        <3>. QED  BY <3>1, <3>2
    <2>. QED  BY <2>3, <2>4
<1>. QED  BY <1>3 DEF MadeApart, Pending

LEMMA ReadStays ==
    ASSUME JobInv, [Next]_vars
    PROVE  ReadCommitted'
<1>1. TypeOK /\ Grow /\ ReadCommitted
    BY TypeStep DEF JobInv
<1>2. ASSUME NEW e \in Rows, ~Pending(e) PROVE enrollments'[e].status # "pending"
    BY <1>1, <1>2, StatusMoves DEF Pending
<1>3. ASSUME NEW w \in Workers, worker'[w].pc \in Running
      PROVE  enrollments'[Target(w)'].status # "pending"
    <2>1. CASE worker[w].pc \in Running /\ worker'[w].job = worker[w].job
        <3>1. worker[w].job \in JobIds /\ Target(w) \in Rows /\ ~Pending(Target(w))
            BY <1>1, <2>1, WorkerFacts DEF ReadCommitted, Running
        <3>2. Target(w)' = Target(w)
            BY <1>1, <2>1, <3>1 DEF Target, Grow
        <3>. QED  BY <1>2, <3>1, <3>2
    <2>2. ASSUME NEW e \in Rows, worker'[w].job \in JobIds,
                 jobs[worker'[w].job].target = e, Active(e)
          PROVE  enrollments'[Target(w)'].status # "pending"
        <3>1. Target(w)' = e /\ ~Pending(e)
            BY <1>1, <2>2 DEF Target, Grow, Active, Pending
        <3>. QED  BY <1>2, <3>1
    <2>. QED  BY <1>1, <1>3, <2>1, <2>2, HolderMoves
<1>. QED  BY <1>3 DEF ReadCommitted, Pending

LEMMA JobsHeld ==
    ASSUME TypeOK, NEW w \in Workers
    PROVE  worker[w].job \in JobIds \cup {0}
<1>1. worker[w].pc # "idle" => worker[w].job \in JobIds
    BY WorkerFacts
<1>2. worker[w].pc = "idle" => worker[w].job = 0
    BY WorkerFacts DEF Idle
<1>. QED  BY <1>1, <1>2

(* What a worker's step does to the jobs that are done.                    *)
LEMMA DoneMoves ==
    ASSUME TypeOK, NEW w \in Workers, NEW r, Set(w, r), NEW j,
           ~(r.job = j /\ Finishes(r)), ~Done(j)
    PROVE  ~Done(j)'
<1>1. \A v \in Workers : worker'[v] = IF v = w THEN r ELSE worker[v]
    BY StateFacts DEF Set
<1>2. ASSUME NEW v \in Workers, worker'[v].job = j, Finishes(worker[v])' PROVE FALSE
    <2>1. PICK s : s = worker'[v]
        OBVIOUS
    <2>2. Finishes(s) /\ s.job = j
        BY <1>2, <2>1 DEF Finishes
    <2>. QED  BY <1>1, <2>1, <2>2 DEF Done
<1>. QED  BY <1>2 DEF Done

LEMMA DoneStays ==
    ASSUME worker' = worker, NEW j, ~Done(j)
    PROVE  ~Done(j)'
BY DEF Done, Finishes

(* A job that has just been published is not done.                         *)
LEMMA FreshNotDone ==
    ASSUME TypeOK
    PROVE  ~Done(Len(jobs) + 1)
<1>1. Len(jobs) + 1 \notin JobIds \cup {0}
    BY StateFacts DEF JobIds
<1>. QED  BY <1>1, JobsHeld DEF Done

LEMMA CarrierStays ==
    ASSUME TypeOK, Grow, NEW e, NEW j \in JobIds, Carries(j, e),
           jobs'[j].state \in {"queued", "dead"}, ~Done(j)'
    PROVE  JobFor(e)'
<1>1. Carries(j, e)'
    BY DEF Carries, Grow
<1>. QED  BY <1>1 DEF JobFor, Grow

LEMMA CarrierPublished ==
    ASSUME NEW e, NEW n \in JobIds', jobs'[n] = Job("step", e), ~Done(n)'
    PROVE  JobFor(e)'
<1>1. Carries(n, e)'
    BY DEF Carries, Job
<1>. QED  BY <1>1 DEF JobFor

(* An open enrollment keeps a job, whatever step is taken; a handler that  *)
(* finds it uncommitted makes it an orphan.                                *)
LEMMA CarrierMoves ==
    ASSUME JobInv, [Next]_vars, NEW e \in Rows, Open(e), Open(e)',
           NEW j \in JobIds, Carries(j, e)
    PROVE  JobFor(e)' \/ e \in orphans'
<1>1. TypeOK /\ Grow
    BY TypeStep DEF JobInv
<1>2. jobs[j].state \in {"queued", "dead"} /\ ~Done(j)
      /\ jobs[j].event = "step" /\ jobs[j].target = e
    BY DEF Carries
<1>3. ASSUME worker' = worker, jobs'[j].state = jobs[j].state PROVE JobFor(e)'
    BY <1>1, <1>2, <1>3, CarrierStays, DoneStays
<1>4. ASSUME NEW w \in Workers, NEW r, Set(w, r), ~(r.job = j /\ Finishes(r)),
             jobs'[j].state \in {jobs[j].state, "dead"}
      PROVE  JobFor(e)'
    BY <1>1, <1>2, <1>4, CarrierStays, DoneMoves
<1>5. ASSUME ApiStep PROVE JobFor(e)'
    <2>1. worker' = worker
        BY <1>5 DEF ApiStep, EnrollCommit, EnrollPublish, EnrollDies,
            PublishTrigger, DeleteLead, DeleteSequence, EditSteps, Replay
    <2>2. ASSUME EnrollPublish \/ \E l \in Leads : PublishTrigger(l) PROVE JobFor(e)'
        <3>1. PICK job : jobs' = Append(jobs, job)
            BY <2>2 DEF EnrollPublish, PublishTrigger
        <3>2. jobs \in Seq(StepJob \cup TriggerJob) /\ JobIds = DOMAIN jobs
            BY <1>1, StateFacts DEF TypeOK
        <3>3. jobs'[j] = jobs[j]
            BY <3>1, <3>2, AppendProperties DEF JobIds
        <3>. QED  BY <1>3, <2>1, <3>3
    <2>3. ASSUME NEW k \in JobIds, Replay(k) PROVE JobFor(e)'
        <3>1. /\ JobIds' = JobIds \cup {Len(jobs) + 1}
              /\ j # k => jobs'[j].state = jobs[j].state
              /\ jobs'[Len(jobs) + 1] = Job(jobs[k].event, jobs[k].target)
            BY <1>1, <2>3, ReplayMoves
        <3>2. CASE j # k
            BY <1>3, <2>1, <3>1, <3>2
        <3>3. CASE j = k
            <4>1. PICK n \in JobIds' : n = Len(jobs) + 1
                BY <3>1
            <4>2. jobs'[n] = Job("step", e)
                BY <1>2, <3>1, <3>3, <4>1
            <4>3. ~Done(n)'
                BY <1>1, <2>1, <4>1, FreshNotDone, DoneStays
            <4>. QED  BY <4>2, <4>3, CarrierPublished
        <3>. QED  BY <3>2, <3>3
    <2>4. ASSUME \/ \E l \in Leads, s \in Seqs : EnrollCommit(l, s)
                 \/ EnrollDies
                 \/ \E l \in Leads : DeleteLead(l)
                 \/ \E s \in Seqs : DeleteSequence(s) \/ EditSteps(s)
          PROVE  JobFor(e)'
        <3>1. jobs' = jobs
            BY <2>4 DEF EnrollCommit, EnrollDies, DeleteLead, DeleteSequence, EditSteps
        <3>. QED  BY <1>3, <2>1, <3>1
    <2>. QED  BY <1>5, <2>2, <2>3, <2>4 DEF ApiStep
<1>6. ASSUME NEW w \in Workers, Failed(w) PROVE JobFor(e)'
    <2>1. Set(w, Idle) /\ jobs'[j].state \in {jobs[j].state, "dead"}
        BY <1>1, <1>6, FailMoves DEF Failed, Rollback
    <2>. QED  BY <1>4, <2>1 DEF Idle, Finishes
<1>7. ASSUME NEW w \in Workers, Acknowledge(w) PROVE JobFor(e)'
    <2>1. worker[w].job # j
        BY <1>2, <1>7 DEF Acknowledge, Done, Finishes
    <2>2. Set(w, Idle) /\ jobs'[j].state = jobs[j].state
        BY <1>1, <1>7, <2>1, AckMoves DEF Acknowledge
    <2>. QED  BY <1>4, <2>2 DEF Idle, Finishes
<1>8. ASSUME NEW w \in Workers, StartTrigger(w) PROVE JobFor(e)'
    <2>1. PICK k, r :
             /\ k \in JobIds
             /\ Take(w, k) /\ Set(w, r) /\ r.pc = "enroll"
        BY <1>8 DEF StartTrigger, TriggerTxn
    <2>2. Rows' = Rows
        BY <1>8 DEF StartTrigger, Rows
    <2>3. jobs'[j].state = jobs[j].state
        BY <1>1, <2>1, <2>2, TakeMoves
    <2>. QED  BY <1>4, <2>1, <2>3 DEF Finishes
<1>9. ASSUME NEW w \in Workers, EnrollOne(w) PROVE JobFor(e)'
    <2>1. PICK r, job : Set(w, r) /\ r.pc = "enroll" /\ jobs' = Append(jobs, job)
        BY <1>9 DEF EnrollOne, TriggerTxn
    <2>2. jobs \in Seq(StepJob \cup TriggerJob)
        BY <1>1 DEF TypeOK
    <2>3. jobs'[j] = jobs[j]
        BY <2>1, <2>2, AppendProperties DEF JobIds
    <2>. QED  BY <1>4, <2>1, <2>3 DEF Finishes
<1>10. ASSUME NEW w \in Workers, CommitTrigger(w) PROVE JobFor(e)'
    <2>1. jobs[worker[w].job].event = "trigger"
        BY <1>1, <1>10, WorkerFacts DEF CommitTrigger
    <2>2. Set(w, Ack(worker[w].job)) /\ jobs' = jobs
        BY <1>10 DEF CommitTrigger
    <2>3. Ack(worker[w].job).job # j
        BY <1>2, <2>1 DEF Ack
    <2>. QED  BY <1>4, <2>2, <2>3
<1>11. ASSUME NEW w \in Workers, StartStep(w) PROVE JobFor(e)' \/ e \in orphans'
    <2>1. PICK k \in JobIds, x \in Rows :
              /\ jobs[k].event = "step" /\ x = jobs[k].target /\ Take(w, k)
              /\ Reads(w, k, x) \/ Passes(w, k, x)
        BY <1>1, <1>11, StartForms
    <2>2. Rows' = Rows
        BY <1>11 DEF StartStep, Rows
    <2>3. jobs'[j].state = jobs[j].state
        BY <1>1, <2>1, <2>2, TakeMoves
    <2>4. ASSUME Reads(w, k, x) PROVE JobFor(e)'
        <3>1. enrollments[x].idx \in Nat /\ Len(steps[enrollments[x].seq]) \in Nat
            <4>1. enrollments[x] \in Enrollment /\ steps \in [Seqs -> Seq(Steps)]
                BY <1>1, StateFacts DEF TypeOK
            <4>. QED  BY <4>1, LenProperties DEF Enrollment
        <3>2. Set(w, Reading(k, x)) /\ ~Finishes(Reading(k, x))
            BY <2>4, <3>1 DEF Reads, Reading, StepTxn, Finishes
        <3>. QED  BY <1>4, <2>3, <3>2
    <2>5. ASSUME Passes(w, k, x), k # j PROVE JobFor(e)'
        <3>1. Set(w, Ack(k)) /\ Ack(k).job # j
            BY <2>5 DEF Passes, Ack
        <3>. QED  BY <1>4, <2>3, <3>1
    <2>6. ASSUME Passes(w, k, x), k = j PROVE e \in orphans'
        BY <1>2, <2>1, <2>6 DEF Passes, Open, Pending
    <2>. QED  BY <2>1, <2>4, <2>5, <2>6
<1>12. ASSUME NEW w \in Workers, RunStep(w) \/ StageUsage(w) PROVE JobFor(e)'
    <2>1. PICK r : Set(w, r) /\ r.pc \in {"usage", "publish"}
        BY <1>12 DEF RunStep, StageUsage, StepTxn
    <2>2. jobs' = jobs
        BY <1>12 DEF RunStep, StageUsage
    <2>. QED  BY <1>4, <2>1, <2>2 DEF Finishes
<1>13. ASSUME NEW w \in Workers, PublishNext(w) PROVE JobFor(e)'
    <2>1. PICK r : /\ r = StepTxn("commit", worker[w].job, worker[w].idx,
                                  worker[w].list, worker[w].usage)
                   /\ Set(w, r)
        BY <1>13 DEF PublishNext
    <2>2. r.job = worker[w].job /\ (IsLast(w) => ~Finishes(r))
        BY <2>1 DEF StepTxn, Finishes, IsLast
    <2>3. CASE IsLast(w)
        <3>1. jobs' = jobs
            BY <1>13, <2>3 DEF PublishNext, WithNextJob
        <3>. QED  BY <1>4, <2>1, <2>2, <2>3, <3>1
    <2>4. CASE ~IsLast(w)
        <3>1. jobs' = Append(jobs, Job("step", Target(w)))
            BY <1>13, <2>4 DEF PublishNext, WithNextJob
        <3>2. /\ JobIds' = JobIds \cup {Len(jobs) + 1}
              /\ jobs'[j] = jobs[j]
              /\ jobs'[Len(jobs) + 1] = Job("step", Target(w))
            <4>1. Rows \subseteq Rows'
                BY <1>1 DEF Grow
            <4>2. Target(w) \in Rows'
                BY <1>1, <1>13, <4>1, WorkerFacts DEF PublishNext, Running
            <4>. QED  BY <1>1, <3>1, <4>1, <4>2, PublishMoves
        <3>3. CASE Target(w) = e
            <4>1. PICK n \in JobIds' : n = Len(jobs) + 1
                BY <3>2
            <4>2. r.job # n
                BY <1>1, <2>2, <4>1, JobsHeld, StateFacts DEF JobIds
            <4>3. ~Done(n)'
                BY <1>1, <2>1, <4>1, <4>2, FreshNotDone, DoneMoves
            <4>. QED  BY <3>2, <3>3, <4>1, <4>3, CarrierPublished
        <3>4. CASE Target(w) # e
            <4>1. r.job # j
                BY <1>2, <2>2, <3>4 DEF Target
            <4>. QED  BY <1>4, <2>1, <3>2, <4>1
        <3>. QED  BY <3>3, <3>4
    <2>. QED  BY <2>3, <2>4
<1>14. ASSUME NEW w \in Workers, CommitStep(w) PROVE JobFor(e)'
    <2>1. Set(w, Ack(worker[w].job)) /\ jobs' = jobs /\ worker[w].pc = "commit"
        BY <1>14 DEF CommitStep
    <2>2. ASSUME worker[w].job = j PROVE FALSE
        <3>1. Target(w) = e
            BY <1>2, <2>2 DEF Target
        <3>2. IsLast(w)
            BY <1>2, <2>1, <2>2 DEF Done, Finishes, IsLast
        <3>3. enrollments'[e].status = "completed"
            <4>1. CASE Past(w)
                BY <1>1, <1>14, <3>1, <4>1, CommitStepRows
            <4>2. CASE ~Past(w)
                BY <1>1, <1>14, <3>1, <3>2, <4>2, CommitStepRows
            <4>. QED  BY <4>1, <4>2
        <3>. QED  BY <3>3 DEF Open
    <2>3. Ack(worker[w].job).job # j
        BY <2>2 DEF Ack
    <2>. QED  BY <1>4, <2>1, <2>3
<1>15. ASSUME UNCHANGED vars PROVE JobFor(e)'
    BY <1>3, <1>15 DEF vars
<1>16. ASSUME NEW w \in Workers, WorkerStep(w) \/ HandlerFails(w) \/ Crash(w)
       PROVE  JobFor(e)' \/ e \in orphans'
    <2>1. ASSUME EnrollRejected(w) \/ UsageConflict(w) \/ CommitStale(w)
                     \/ HandlerFails(w) \/ Crash(w)
          PROVE  JobFor(e)'
        BY <1>1, <1>6, <2>1, FailureForms
    <2>. QED  BY <1>7, <1>8, <1>9, <1>10, <1>11, <1>12, <1>13, <1>14, <1>16, <2>1
              DEF WorkerStep
<1>. QED  BY <1>5, <1>15, <1>16 DEF Next

(* Whoever is about to publish does, or dies and leaves an orphan.         *)
LEMMA UnsentMoves ==
    ASSUME TypeOK, [Next]_vars, NEW e \in Rows
    PROVE  /\ e \in orphans => e \in orphans'
           /\ e \in unsent => e \in unsent' \cup orphans' \/ JobFor(e)'
<1>1. ASSUME NEW x \in unsent, jobs' = Append(jobs, FirstJob(x)), worker' = worker,
             Rows' = Rows
      PROVE  JobFor(x)'
    <2>1. x \in Rows' /\ Rows \subseteq Rows'
        BY <1>1 DEF TypeOK
    <2>2. /\ JobIds' = JobIds \cup {Len(jobs) + 1}
          /\ jobs'[Len(jobs) + 1] = Job("step", x)
        BY <1>1, <2>1, PublishMoves DEF FirstJob
    <2>3. PICK n \in JobIds' : n = Len(jobs) + 1
        BY <2>2
    <2>4. ~Done(n)'
        BY <1>1, <2>3, FreshNotDone, DoneStays
    <2>. QED  BY <2>2, <2>3, <2>4, CarrierPublished
<1>2. CASE EnrollPublish
    <2>1. PICK x \in unsent : jobs' = Append(jobs, FirstJob(x)) /\ unsent' = unsent \ {x}
        BY <1>2 DEF EnrollPublish
    <2>2. worker' = worker /\ Rows' = Rows /\ orphans' = orphans
        BY <1>2 DEF EnrollPublish, Rows
    <2>3. JobFor(x)'
        BY <1>1, <2>1, <2>2
    <2>. QED  BY <2>1, <2>2, <2>3
<1>3. CASE EnrollDies
    BY <1>3 DEF EnrollDies
<1>4. ASSUME ~EnrollPublish, ~EnrollDies
      PROVE  unsent \subseteq unsent' /\ orphans \subseteq orphans'
    <2>1. ASSUME NEW w \in Workers, StartStep(w)
          PROVE  unsent' = unsent /\ orphans \subseteq orphans'
        BY <2>1 DEF StartStep
    <2>2. ASSUME ApiStep PROVE unsent \subseteq unsent' /\ orphans' = orphans
        BY <1>4, <2>2 DEF ApiStep, EnrollCommit, PublishTrigger, DeleteLead,
            DeleteSequence, EditSteps, Replay
    <2>3. ASSUME NEW w \in Workers,
                 WorkerStep(w) \/ HandlerFails(w) \/ Crash(w), ~StartStep(w)
          PROVE  unsent' = unsent /\ orphans' = orphans
        BY <2>3 DEF WorkerStep, Acknowledge, StartTrigger, EnrollOne,
            EnrollRejected, CommitTrigger, RunStep, StageUsage, UsageConflict,
            PublishNext, CommitStep, CommitStale, HandlerFails, Crash, Raise, Rollback
    <2>. QED  BY <2>1, <2>2, <2>3 DEF Next, vars
<1>. QED  BY <1>2, <1>3, <1>4

LEMMA CoverStays ==
    ASSUME JobInv, [Next]_vars
    PROVE  Covered'
<1>1. TypeOK /\ Grow /\ MadeApart /\ Covered
    BY TypeStep DEF JobInv
<1>2. ASSUME NEW e \in Rows', Open(e)'
      PROVE  e \in unsent' \cup orphans' \/ JobFor(e)'
    <2>1. CASE e \in Rows
        <3>1. Open(e)
            <4>1. Pending(e) \/ ~\E v \in Workers : CommitTrigger(v) /\ e \in worker[v].made
                BY <1>1 DEF CommitTrigger, MadeApart
            <4>. QED  BY <1>1, <1>2, <2>1, <4>1, StatusMoves DEF Open, Pending
        <3>2. CASE e \in unsent \cup orphans
            BY <1>1, <2>1, <3>2, UnsentMoves
        <3>3. CASE JobFor(e)
            <4>1. PICK j \in JobIds : Carries(j, e)
                BY <3>3 DEF JobFor
            <4>. QED  BY <1>2, <2>1, <3>1, <4>1, CarrierMoves
        <3>. QED  BY <1>1, <2>1, <3>1, <3>2, <3>3 DEF Covered
    <2>2. ASSUME e \notin Rows, NEW l \in Leads, NEW s \in Seqs, EnrollCommit(l, s)
          PROVE  e \in unsent'
        BY <1>1, <2>2, RowsAdded DEF EnrollCommit
    <2>3. ASSUME e \notin Rows, NEW w \in Workers, EnrollOne(w) PROVE JobFor(e)'
        <3>1. e = Len(enrollments) + 1
            BY <1>1, <2>3, RowsAdded
        <3>2. PICK r : /\ jobs' = Append(jobs, Job("step", e))
                       /\ Set(w, r) /\ r.pc = "enroll"
            BY <2>3, <3>1 DEF EnrollOne, FirstJob, TriggerTxn
        <3>3. /\ JobIds' = JobIds \cup {Len(jobs) + 1}
              /\ jobs'[Len(jobs) + 1] = Job("step", e)
            BY <1>1, <3>2, PublishMoves DEF Grow
        <3>4. PICK n \in JobIds' : n = Len(jobs) + 1
            BY <3>3
        <3>5. ~Done(n)'
            BY <1>1, <3>2, <3>4, FreshNotDone, DoneMoves DEF Finishes
        <3>. QED  BY <3>3, <3>4, <3>5, CarrierPublished
    <2>. QED  BY <1>1, <2>1, <2>2, <2>3, RowsAdded
<1>. QED  BY <1>2 DEF Covered

LEMMA JobInit == Init => JobInv
<1>. SUFFICES ASSUME Init PROVE JobInv
    OBVIOUS
<1>1. Rows = {} /\ \A w \in Workers : worker[w] = Idle
    BY DEF Init, Rows
<1>2. MadeApart /\ ReadCommitted /\ Covered
    BY <1>1 DEF MadeApart, ReadCommitted, Covered, Idle, Running
<1>. QED  BY <1>2, TypeInit DEF JobInv

LEMMA JobStep == JobInv /\ [Next]_vars => JobInv'
<1>. SUFFICES ASSUME JobInv, [Next]_vars PROVE JobInv'
    OBVIOUS
<1>. QED  BY TypeStep, MadeStays, ReadStays, CoverStays DEF JobInv

(* An active enrollment is never forgotten by the workers, however many    *)
(* there are and however their jobs are redelivered, fail or are replayed: *)
(* a job for it is queued or in failed_jobs, the API is about to publish   *)
(* one, or it is one of the two kinds of orphans.                          *)
THEOREM NothingForgotten == Spec => []ActiveHasJob
<1>1. JobInv => ActiveHasJob
    BY DEF JobInv, Covered, Open, Active, JobFor, Carries, ActiveHasJob
<1>. QED  BY <1>1, JobInit, JobStep, PTL DEF Spec

-----------------------------------------------------------------------------
(***************************************************************************)
(* A lifecycle event enrolls once.  For a lead and a sequence: the rows    *)
(* its events have made, the transactions that are about to make one, and  *)
(* the events nobody has received or that are back on the queue, are       *)
(* together no more than the events and the mishaps.                       *)
(***************************************************************************)
ByEvent(l, s) == {e \in Rows : /\ enrollments[e].lead = l
                              /\ enrollments[e].seq = s
                              /\ enrollments[e].by = "event"}

Going(l, s) == {w \in Workers : /\ worker[w].pc = "enroll"
                                /\ Target(w) = l /\ s \in worker[w].todo}

Events(l)  == {j \in JobIds : jobs[j].event = "trigger" /\ jobs[j].target = l}
Waiting(l) == {j \in Events(l) : jobs[j].state = "queued" /\ ~Held(j)}

Tally(l, s) == Cardinality(ByEvent(l, s)) + Cardinality(Going(l, s))
             + Cardinality(Waiting(l))

EventInv ==
    TypeOK /\ \A l \in Leads, s \in Seqs :
                  Tally(l, s) <= Cardinality(Events(l)) + mishaps

AllFinite ==
    \A l, s : /\ IsFiniteSet(ByEvent(l, s)) /\ IsFiniteSet(Going(l, s))
              /\ IsFiniteSet(Waiting(l)) /\ IsFiniteSet(Events(l))

LEMMA EventsFinite == TypeOK => AllFinite
<1>. SUFFICES ASSUME TypeOK, NEW l, NEW s
              PROVE  /\ IsFiniteSet(ByEvent(l, s)) /\ IsFiniteSet(Going(l, s))
                     /\ IsFiniteSet(Waiting(l)) /\ IsFiniteSet(Events(l))
    BY DEF AllFinite
<1>1. IsFiniteSet(Rows) /\ IsFiniteSet(JobIds) /\ IsFiniteSet(Workers)
    BY StateFacts, FS_Interval, ConstantsOK DEF Rows, JobIds, ConstantsOK
<1>2. /\ ByEvent(l, s) \in SUBSET Rows /\ Going(l, s) \in SUBSET Workers
      /\ Waiting(l) \in SUBSET JobIds /\ Events(l) \in SUBSET JobIds
    BY DEF ByEvent, Going, Waiting, Events
<1>. QED  BY <1>1, <1>2, FS_Subset

LEMMA EventsStayFinite == TypeOK' => AllFinite'
BY EventsFinite, PTL

(* How a count follows its set.                                            *)
LEMMA CountWithin ==
    ASSUME NEW S, IsFiniteSet(S), NEW T, T \subseteq S
    PROVE  Cardinality(T) \in Nat /\ Cardinality(S) \in Nat
           /\ Cardinality(T) <= Cardinality(S)
BY FS_Subset, FS_CardinalityType

LEMMA CountAdds ==
    ASSUME NEW S, IsFiniteSet(S), NEW x, NEW T, T \subseteq S \cup {x}
    PROVE  Cardinality(T) \in Nat /\ Cardinality(S) \in Nat
           /\ Cardinality(T) <= Cardinality(S) + 1
<1>1. /\ IsFiniteSet(S \cup {x}) /\ Cardinality(S \cup {x}) <= Cardinality(S) + 1
      /\ Cardinality(S) \in Nat
    BY FS_AddElement, FS_CardinalityType
<1>2. Cardinality(T) \in Nat /\ Cardinality(S \cup {x}) \in Nat
      /\ Cardinality(T) <= Cardinality(S \cup {x})
    BY <1>1, CountWithin
<1>. QED  BY <1>1, <1>2

LEMMA CountDrops ==
    ASSUME NEW S, IsFiniteSet(S), NEW x \in S, NEW T, T \subseteq S \ {x}
    PROVE  Cardinality(T) \in Nat /\ Cardinality(S) \in Nat
           /\ Cardinality(T) + 1 <= Cardinality(S)
<1>1. /\ IsFiniteSet(S \ {x}) /\ Cardinality(S \ {x}) = Cardinality(S) - 1
      /\ Cardinality(S) \in Nat
    BY FS_RemoveElement, FS_CardinalityType
<1>2. Cardinality(T) \in Nat /\ Cardinality(T) <= Cardinality(S \ {x})
    BY <1>1, CountWithin
<1>. QED  BY <1>1, <1>2

LEMMA CountGrows ==
    ASSUME NEW T, IsFiniteSet(T), NEW x \in T, NEW S, S \subseteq T, x \notin S
    PROVE  Cardinality(S) \in Nat /\ Cardinality(T) \in Nat
           /\ Cardinality(S) + 1 <= Cardinality(T)
BY CountDrops

(* How the four sets move.                                                 *)
LEMMA EventsGrow ==
    ASSUME TypeOK, Grow, NEW l
    PROVE  /\ Events(l) \subseteq Events(l)'
           /\ Events(l)' \cap JobIds \subseteq Events(l)
BY DEF Events, Grow

LEMMA ByEventStays ==
    ASSUME TypeOK, [Next]_vars, NEW l, NEW s, NEW e \in ByEvent(l, s)', e \notin ByEvent(l, s)
    PROVE  /\ e = Len(enrollments) + 1
           /\ \E w \in Going(l, s) :
                  /\ EnrollOne(w)
                  /\ Set(w, TriggerTxn(worker[w].job, worker[w].todo \ {s},
                                       worker[w].made \cup {e}))
<1>1. Grow /\ e \in Rows'
    BY TypeStep DEF ByEvent
<1>2. e \notin Rows
    BY <1>1 DEF ByEvent, Grow
<1>3. ASSUME NEW k, NEW q, enrollments'[e] = RowOf(k, q, "api", "active") PROVE FALSE
    <2>1. enrollments'[e].by = "event"
        BY DEF ByEvent
    <2>. QED  BY <1>3, <2>1 DEF RowOf
<1>4. PICK w \in Workers, q \in Seqs :
          /\ EnrollOne(w) /\ q \in worker[w].todo
          /\ enrollments'[e] = RowOf(Target(w), q, "event", "pending")
          /\ Set(w, TriggerTxn(worker[w].job, worker[w].todo \ {q},
                               worker[w].made \cup {e}))
          /\ e = Len(enrollments) + 1
    BY <1>1, <1>2, <1>3, RowsAdded
<1>5. Target(w) = l /\ q = s
    BY <1>4 DEF ByEvent, RowOf
<1>6. w \in Going(l, s)
    BY <1>4, <1>5 DEF Going, EnrollOne
<1>. QED  BY <1>4, <1>5, <1>6

LEMMA GoingStays ==
    ASSUME TypeOK, Grow, NEW w \in Workers, NEW r, Set(w, r),
           r.pc = "enroll" => /\ worker[w].pc = "enroll" /\ r.job = worker[w].job
                              /\ r.todo \subseteq worker[w].todo,
           NEW l, NEW s
    PROVE  Going(l, s)' \subseteq Going(l, s)
<1>1. \A v \in Workers : worker'[v] = IF v = w THEN r ELSE worker[v]
    BY StateFacts DEF Set
<1>2. ASSUME NEW v \in Going(l, s)' PROVE v \in Going(l, s)
    <2>1. v \in Workers /\ worker'[v].pc = "enroll" /\ s \in worker'[v].todo
          /\ jobs'[worker'[v].job].target = l
        BY <1>2 DEF Going, Target
    <2>2. /\ worker[v].pc = "enroll" /\ worker'[v].job = worker[v].job
          /\ s \in worker[v].todo
        BY <1>1, <2>1
    <2>3. worker[v].job \in JobIds
        BY <2>1, <2>2, WorkerFacts
    <2>4. jobs[worker[v].job].target = l
        BY <2>1, <2>2, <2>3 DEF Grow
    <2>. QED  BY <2>1, <2>2, <2>4 DEF Going, Target
<1>. QED  BY <1>2

LEMMA GoingSame ==
    ASSUME TypeOK, Grow, worker' = worker, NEW l, NEW s
    PROVE  Going(l, s)' \subseteq Going(l, s)
<1>1. ASSUME NEW v \in Going(l, s)' PROVE v \in Going(l, s)
    <2>1. v \in Workers /\ worker[v].pc = "enroll" /\ s \in worker[v].todo
          /\ jobs'[worker[v].job].target = l
        BY <1>1 DEF Going, Target
    <2>2. worker[v].job \in JobIds
        BY <2>1, WorkerFacts
    <2>. QED  BY <2>1, <2>2 DEF Going, Target, Grow
<1>. QED  BY <1>1

LEMMA WaitingMoves ==
    ASSUME TypeOK, Grow, NEW w \in Workers, NEW r, Set(w, r), NEW l,
           NEW j \in Waiting(l)', j \in JobIds, jobs[j].state = "queued"
    PROVE  /\ r.job # j
           /\ j \in Waiting(l) \/ worker[w].job = j
<1>1. \A v \in Workers : worker'[v] = IF v = w THEN r ELSE worker[v]
    BY StateFacts DEF Set
<1>2. j \in Events(l) /\ \A v \in Workers : worker'[v].job # j
    BY EventsGrow DEF Waiting, Held
<1>3. r.job # j /\ \A v \in Workers \ {w} : worker[v].job # j
    BY <1>1, <1>2
<1>. QED  BY <1>2, <1>3 DEF Waiting, Held

LEMMA WaitingSame ==
    ASSUME TypeOK, Grow, worker' = worker, NEW l,
           NEW j \in Waiting(l)', j \in JobIds, jobs[j].state = "queued"
    PROVE  j \in Waiting(l)
BY EventsGrow DEF Waiting, Held

(* The step from one tally to the next, when at most one of the counts     *)
(* moves up.                                                               *)
CountsKnown(l, s) ==
    /\ Cardinality(ByEvent(l, s)) \in Nat /\ Cardinality(Going(l, s)) \in Nat
    /\ Cardinality(Waiting(l)) \in Nat /\ Cardinality(Events(l)) \in Nat
    /\ mishaps \in Nat

LEMMA CountsTyped ==
    ASSUME TypeOK, TypeOK', NEW l, NEW s
    PROVE  /\ CountsKnown(l, s) /\ CountsKnown(l, s)'
           /\ IsFiniteSet(ByEvent(l, s)) /\ IsFiniteSet(Going(l, s))
           /\ IsFiniteSet(Waiting(l)) /\ IsFiniteSet(Events(l))
           /\ IsFiniteSet(Events(l)')
<1>1. AllFinite /\ AllFinite'
    BY EventsFinite, EventsStayFinite
<1>2. CountsKnown(l, s)
    BY <1>1, FS_CardinalityType DEF AllFinite, CountsKnown, TypeOK
<1>3. PICK b, g, q, t : /\ b = ByEvent(l, s)' /\ g = Going(l, s)'
                        /\ q = Waiting(l)' /\ t = Events(l)'
    OBVIOUS
<1>4. IsFiniteSet(b) /\ IsFiniteSet(g) /\ IsFiniteSet(q) /\ IsFiniteSet(t)
    BY <1>1, <1>3 DEF AllFinite
<1>5. /\ Cardinality(b) \in Nat /\ Cardinality(g) \in Nat
      /\ Cardinality(q) \in Nat /\ Cardinality(t) \in Nat
    BY <1>4, FS_CardinalityType
<1>6. CountsKnown(l, s)'
    BY <1>3, <1>5 DEF CountsKnown, TypeOK
<1>. QED  BY <1>1, <1>2, <1>3, <1>4, <1>6 DEF AllFinite

LEMMA TallyMoves ==
    ASSUME EventInv, TypeOK', Grow, NEW l \in Leads, NEW s \in Seqs,
           NEW b \in Nat, NEW g \in Nat, NEW q \in Nat,
           Cardinality(ByEvent(l, s)') + b <= Cardinality(ByEvent(l, s)) + 1,
           Cardinality(Going(l, s)') + g <= Cardinality(Going(l, s)) + 1,
           Cardinality(Waiting(l)') + q <= Cardinality(Waiting(l)) + 1,
           Cardinality(Events(l)') + mishaps' + b + g + q
               >= Cardinality(Events(l)) + mishaps + 3
    PROVE  Tally(l, s)' <= Cardinality(Events(l)') + mishaps'
<1>1. TypeOK /\ Tally(l, s) <= Cardinality(Events(l)) + mishaps
    BY DEF EventInv
<1>2. CountsKnown(l, s) /\ CountsKnown(l, s)'
    BY <1>1, CountsTyped
<1>3. PICK b1 \in Nat, g1 \in Nat, q1 \in Nat, t1 \in Nat, m1 \in Nat :
          /\ b1 = Cardinality(ByEvent(l, s)') /\ g1 = Cardinality(Going(l, s)')
          /\ q1 = Cardinality(Waiting(l)') /\ t1 = Cardinality(Events(l)')
          /\ m1 = mishaps'
    BY <1>2 DEF CountsKnown
<1>4. PICK b0 \in Nat, g0 \in Nat, q0 \in Nat, t0 \in Nat, m0 \in Nat :
          /\ b0 = Cardinality(ByEvent(l, s)) /\ g0 = Cardinality(Going(l, s))
          /\ q0 = Cardinality(Waiting(l)) /\ t0 = Cardinality(Events(l))
          /\ m0 = mishaps
    BY <1>2 DEF CountsKnown
<1>5. b0 + g0 + q0 <= t0 + m0
    BY <1>1, <1>4 DEF Tally
<1>6. /\ b1 + b <= b0 + 1 /\ g1 + g <= g0 + 1 /\ q1 + q <= q0 + 1
      /\ t1 + m1 + b + g + q >= t0 + m0 + 3
    BY <1>3, <1>4
<1>7. b1 + g1 + q1 <= t1 + m1
    BY <1>5, <1>6
<1>. QED  BY <1>3, <1>7 DEF Tally

(* The counts that stay.                                                   *)
LEMMA SetsStay ==
    ASSUME TypeOK, TypeOK', Grow, NEW l, NEW s
    PROVE  /\ ByEvent(l, s)' \subseteq ByEvent(l, s) =>
                  Cardinality(ByEvent(l, s)') + 1 <= Cardinality(ByEvent(l, s)) + 1
           /\ Going(l, s)' \subseteq Going(l, s) =>
                  Cardinality(Going(l, s)') + 1 <= Cardinality(Going(l, s)) + 1
           /\ Waiting(l)' \subseteq Waiting(l) =>
                  Cardinality(Waiting(l)') + 1 <= Cardinality(Waiting(l)) + 1
           /\ Cardinality(Events(l)') >= Cardinality(Events(l))
<1>1. /\ IsFiniteSet(ByEvent(l, s)) /\ IsFiniteSet(Going(l, s))
      /\ IsFiniteSet(Waiting(l)) /\ IsFiniteSet(Events(l)')
      /\ CountsKnown(l, s) /\ CountsKnown(l, s)'
    BY CountsTyped
<1>2. PICK b, g, q, t : /\ b = ByEvent(l, s)' /\ g = Going(l, s)'
                        /\ q = Waiting(l)' /\ t = Events(l)'
    OBVIOUS
<1>3. /\ b \subseteq ByEvent(l, s) => Cardinality(b) <= Cardinality(ByEvent(l, s))
      /\ g \subseteq Going(l, s) => Cardinality(g) <= Cardinality(Going(l, s))
      /\ q \subseteq Waiting(l) => Cardinality(q) <= Cardinality(Waiting(l))
    BY <1>1, CountWithin
<1>4. Events(l) \subseteq t /\ IsFiniteSet(t)
    BY <1>1, <1>2, EventsGrow
<1>5. Cardinality(t) >= Cardinality(Events(l))
    BY <1>4, CountWithin
<1>. QED  BY <1>1, <1>2, <1>3, <1>5 DEF CountsKnown

LEMMA ByEventSame ==
    ASSUME TypeOK, [Next]_vars, Rows' = Rows \/ worker' = worker, NEW l, NEW s
    PROVE  ByEvent(l, s)' \subseteq ByEvent(l, s)
<1>1. ASSUME NEW e \in ByEvent(l, s)', e \notin ByEvent(l, s) PROVE FALSE
    <2>1. e = Len(enrollments) + 1 /\ e \in Rows'
        BY <1>1, ByEventStays DEF ByEvent
    <2>2. PICK w \in Going(l, s) :
              Set(w, TriggerTxn(worker[w].job, worker[w].todo \ {s},
                                worker[w].made \cup {e}))
        BY <1>1, ByEventStays
    <2>3. Rows' # Rows
        BY <2>1, StateFacts DEF Rows
    <2>4. worker'[w].todo = worker[w].todo \ {s} /\ s \in worker[w].todo
        BY <2>2, StateFacts DEF Going, Set, TriggerTxn
    <2>5. worker' # worker
        BY <2>4
    <2>. QED  BY <2>3, <2>5
<1>. QED  BY <1>1

(* A step of a worker that keeps its job and publishes no event.           *)
LEMMA WaitingKept ==
    ASSUME TypeOK, Grow, NEW w \in Workers, NEW r, Set(w, r),
           r.job = worker[w].job,
           \A j \in JobIds : jobs'[j].state = jobs[j].state,
           \A j \in JobIds' \ JobIds : jobs'[j].event = "step",
           NEW l
    PROVE  Waiting(l)' \subseteq Waiting(l)
<1>1. ASSUME NEW j \in Waiting(l)' PROVE j \in Waiting(l)
    <2>1. j \in JobIds' /\ jobs'[j].event = "trigger" /\ jobs'[j].state = "queued"
        BY DEF Waiting, Events
    <2>2. j \in JobIds /\ jobs[j].state = "queued"
        BY <2>1
    <2>. QED  BY <2>2, WaitingMoves
<1>. QED  BY <1>1

LEMMA QuietTally ==
    ASSUME EventInv, TypeOK', Grow, NEW l \in Leads, NEW s \in Seqs,
           ByEvent(l, s)' \subseteq ByEvent(l, s),
           Going(l, s)' \subseteq Going(l, s),
           Waiting(l)' \subseteq Waiting(l), mishaps' >= mishaps
    PROVE  Tally(l, s)' <= Cardinality(Events(l)') + mishaps'
<1>1. TypeOK
    BY DEF EventInv
<1>2. CountsKnown(l, s) /\ CountsKnown(l, s)'
    BY <1>1, CountsTyped
<1>3. /\ Cardinality(ByEvent(l, s)') + 1 <= Cardinality(ByEvent(l, s)) + 1
      /\ Cardinality(Going(l, s)') + 1 <= Cardinality(Going(l, s)) + 1
      /\ Cardinality(Waiting(l)') + 1 <= Cardinality(Waiting(l)) + 1
      /\ Cardinality(Events(l)') >= Cardinality(Events(l))
    BY <1>1, SetsStay
<1>4. Cardinality(Events(l)') + mishaps' + 1 + 1 + 1
          >= Cardinality(Events(l)) + mishaps + 3
    BY <1>2, <1>3 DEF CountsKnown
<1>. QED  BY <1>3, <1>4, TallyMoves

LEMMA TallyEnroll ==
    ASSUME EventInv, [Next]_vars, NEW l \in Leads, NEW s \in Seqs,
           NEW w \in Workers, EnrollOne(w)
    PROVE  Tally(l, s)' <= Cardinality(Events(l)') + mishaps'
<1>1. TypeOK /\ TypeOK' /\ Grow
    BY TypeStep DEF EventInv
<1>2. PICK x : x = Len(enrollments) + 1
    OBVIOUS
<1>3. PICK q \in worker[w].todo :
          /\ Insert(Target(w), q, "event", "pending")
          /\ jobs' = Append(jobs, Job("step", x))
          /\ Set(w, TriggerTxn(worker[w].job, worker[w].todo \ {q},
                               worker[w].made \cup {x}))
    BY <1>2 DEF EnrollOne, FirstJob
<1>4. Rows \subseteq Rows' /\ x \in Rows'
    <2>1. Target(w) \in Leads /\ worker[w].todo \subseteq Seqs
        BY <1>1, WorkerFacts DEF EnrollOne
    <2>2. q \in Seqs
        BY <1>3, <2>1
    <2>. QED  BY <1>2, <1>1, <1>3, <2>1, <2>2, RowInserted DEF Statuses
<1>5. PICK r : /\ r = TriggerTxn(worker[w].job, worker[w].todo \ {q},
                                 worker[w].made \cup {x})
               /\ Set(w, r)
    BY <1>3
<1>6. r.job = worker[w].job /\ r.pc = "enroll" /\ worker[w].pc = "enroll"
      /\ r.todo = worker[w].todo \ {q}
    BY <1>5 DEF TriggerTxn, EnrollOne
<1>7. Waiting(l)' \subseteq Waiting(l)
    <2>1. /\ JobIds' = JobIds \cup {Len(jobs) + 1}
          /\ \A j \in JobIds : jobs'[j] = jobs[j]
          /\ jobs'[Len(jobs) + 1] = Job("step", x)
        BY <1>1, <1>3, <1>4, PublishMoves
    <2>2. /\ \A j \in JobIds : jobs'[j].state = jobs[j].state
          /\ \A j \in JobIds' \ JobIds : jobs'[j].event = "step"
        BY <2>1 DEF Job
    <2>. QED  BY <1>1, <1>5, <1>6, <2>2, WaitingKept
<1>8. Going(l, s)' \subseteq Going(l, s)
    BY <1>1, <1>5, <1>6, GoingStays
<1>9. mishaps' = mishaps /\ CountsKnown(l, s) /\ CountsKnown(l, s)'
    BY <1>1, CountsTyped DEF EnrollOne
<1>10. CASE ByEvent(l, s)' \subseteq ByEvent(l, s)
    BY <1>1, <1>7, <1>8, <1>9, <1>10, QuietTally DEF CountsKnown
<1>11. CASE ~(ByEvent(l, s)' \subseteq ByEvent(l, s))
    <2>1. PICK e \in ByEvent(l, s)' : e \notin ByEvent(l, s)
        BY <1>11
    <2>2. PICK v \in Going(l, s) :
              Set(v, TriggerTxn(worker[v].job, worker[v].todo \ {s},
                                worker[v].made \cup {e}))
        BY <1>1, <2>1, ByEventStays
    <2>3. ByEvent(l, s)' \subseteq ByEvent(l, s) \cup {Len(enrollments) + 1}
        BY <1>1, ByEventStays
    <2>4. v \notin Going(l, s)'
        <3>1. s \notin worker'[v].todo
            BY <1>1, <2>2, StateFacts DEF Set, TriggerTxn, Going
        <3>. QED  BY <3>1 DEF Going
    <2>5. Going(l, s)' \subseteq Going(l, s) \ {v}
        BY <1>8, <2>4
    <2>6. PICK b, g : b = ByEvent(l, s)' /\ g = Going(l, s)'
        OBVIOUS
    <2>7. /\ IsFiniteSet(ByEvent(l, s)) /\ IsFiniteSet(Going(l, s))
        BY <1>1, CountsTyped
    <2>8. Cardinality(b) <= Cardinality(ByEvent(l, s)) + 1
        BY <2>3, <2>6, <2>7, CountAdds
    <2>9. Cardinality(g) + 1 <= Cardinality(Going(l, s))
        BY <2>5, <2>6, <2>7, CountDrops
    <2>10. /\ Cardinality(Waiting(l)') + 1 <= Cardinality(Waiting(l)) + 1
           /\ Cardinality(Events(l)') >= Cardinality(Events(l))
        BY <1>1, <1>7, SetsStay
    <2>11. /\ Cardinality(ByEvent(l, s)') + 0 <= Cardinality(ByEvent(l, s)) + 1
           /\ Cardinality(Going(l, s)') + 2 <= Cardinality(Going(l, s)) + 1
           /\ Cardinality(Events(l)') + mishaps' + 0 + 2 + 1
                  >= Cardinality(Events(l)) + mishaps + 3
        BY <1>9, <2>6, <2>8, <2>9, <2>10 DEF CountsKnown
    <2>. QED  BY <1>1, <2>10, <2>11, TallyMoves
<1>. QED  BY <1>10, <1>11

LEMMA TallyFails ==
    ASSUME EventInv, [Next]_vars, NEW l \in Leads, NEW s \in Seqs,
           NEW w \in Workers, Failed(w)
    PROVE  Tally(l, s)' <= Cardinality(Events(l)') + mishaps'
<1>1. TypeOK /\ TypeOK' /\ Grow
    BY TypeStep DEF EventInv
<1>2. Set(w, Idle) /\ Rows' = Rows /\ JobIds' = JobIds /\ mishaps' = mishaps + 1
      /\ \A k \in JobIds : jobs'[k].state \in {jobs[k].state, "dead"}
    BY <1>1, FailMoves DEF Failed, Rollback, JobsSettle
<1>3. ByEvent(l, s)' \subseteq ByEvent(l, s)
    BY <1>1, <1>2, ByEventSame
<1>4. Going(l, s)' \subseteq Going(l, s)
    BY <1>1, <1>2, GoingStays DEF Idle
<1>5. Waiting(l)' \subseteq Waiting(l) \cup {worker[w].job}
    <2>1. ASSUME NEW j \in Waiting(l)', j # worker[w].job PROVE j \in Waiting(l)
        <3>1. j \in JobIds /\ jobs[j].state = "queued"
            BY <1>2, <2>1 DEF Waiting, Events
        <3>. QED  BY <1>1, <1>2, <2>1, <3>1, WaitingMoves
    <2>. QED  BY <2>1
<1>6. PICK q : q = Waiting(l)'
    OBVIOUS
<1>7. IsFiniteSet(Waiting(l)) /\ CountsKnown(l, s) /\ CountsKnown(l, s)'
    BY <1>1, CountsTyped
<1>8. Cardinality(q) <= Cardinality(Waiting(l)) + 1
    BY <1>5, <1>6, <1>7, CountAdds
<1>9. /\ Cardinality(ByEvent(l, s)') + 1 <= Cardinality(ByEvent(l, s)) + 1
      /\ Cardinality(Going(l, s)') + 1 <= Cardinality(Going(l, s)) + 1
      /\ Cardinality(Events(l)') >= Cardinality(Events(l))
    BY <1>1, <1>3, <1>4, SetsStay
<1>10. /\ Cardinality(Waiting(l)') + 0 <= Cardinality(Waiting(l)) + 1
       /\ Cardinality(Events(l)') + mishaps' + 1 + 1 + 0
              >= Cardinality(Events(l)) + mishaps + 3
    BY <1>2, <1>6, <1>7, <1>8, <1>9 DEF CountsKnown
<1>. QED  BY <1>1, <1>9, <1>10, TallyMoves

LEMMA TallyStarts ==
    ASSUME EventInv, [Next]_vars, NEW l \in Leads, NEW s \in Seqs,
           NEW w \in Workers, StartTrigger(w)
    PROVE  Tally(l, s)' <= Cardinality(Events(l)') + mishaps'
<1>1. TypeOK /\ TypeOK' /\ Grow /\ Rows' = Rows
    BY TypeStep DEF EventInv, StartTrigger, Rows
<1>2. PICK j, active, r :
         /\ j \in JobIds
         /\ active \in SUBSET sequences
         /\ jobs[j].event = "trigger" /\ Take(w, j)
         /\ r = TriggerTxn(j, active, {}) /\ Set(w, r)
    BY DEF StartTrigger
<1>3. /\ \A k \in JobIds : jobs'[k].state = jobs[k].state
      /\ JobIds' = JobIds /\ mishaps <= mishaps'
      /\ Held(j) => mishaps' = mishaps + 1
    BY <1>1, <1>2, TakeMoves DEF JobsSettle
<1>4. r.job = j /\ worker[w].job = 0 /\ jobs[j].state = "queued"
    BY <1>2 DEF TriggerTxn, Take, Idle
<1>5. ByEvent(l, s)' \subseteq ByEvent(l, s)
    BY <1>1, ByEventSame
<1>6. Waiting(l)' \subseteq Waiting(l) \ {j}
    <2>1. ASSUME NEW k \in Waiting(l)' PROVE k \in Waiting(l) /\ k # j
        <3>1. k \in JobIds /\ jobs[k].state = "queued" /\ k # 0
            BY <1>3, <2>1 DEF Waiting, Events, JobIds
        <3>. QED  BY <1>1, <1>2, <1>4, <2>1, <3>1, WaitingMoves
    <2>. QED  BY <2>1
<1>7. \A v \in Going(l, s)' : v = w \/ v \in Going(l, s)
    <2>1. ASSUME NEW v \in Going(l, s)', v # w PROVE v \in Going(l, s)
        <3>1. v \in Workers /\ worker'[v] = worker[v]
            BY <1>1, <1>2, <2>1, StateFacts DEF Set, Going
        <3>2. worker[v].pc = "enroll" /\ s \in worker[v].todo
              /\ jobs'[worker[v].job].target = l
            BY <2>1, <3>1 DEF Going, Target
        <3>3. worker[v].job \in JobIds
            BY <1>1, <3>1, <3>2, WorkerFacts
        <3>. QED  BY <1>1, <3>1, <3>2, <3>3 DEF Going, Target, Grow
    <2>. QED  BY <2>1
<1>8. PICK g, q : g = Going(l, s)' /\ q = Waiting(l)'
    OBVIOUS
<1>9. /\ IsFiniteSet(Going(l, s)) /\ IsFiniteSet(Waiting(l))
      /\ CountsKnown(l, s) /\ CountsKnown(l, s)'
    BY <1>1, CountsTyped
<1>10. Cardinality(g) <= Cardinality(Going(l, s)) + 1
    BY <1>7, <1>8, <1>9, CountAdds
<1>11. /\ Cardinality(ByEvent(l, s)') + 1 <= Cardinality(ByEvent(l, s)) + 1
       /\ Cardinality(Waiting(l)') + 1 <= Cardinality(Waiting(l)) + 1
       /\ Cardinality(Events(l)') >= Cardinality(Events(l))
    BY <1>1, <1>5, <1>6, SetsStay
<1>12. CASE jobs[j].target # l
    <2>1. jobs'[j].target # l
        BY <1>2, <1>1, <1>12 DEF Grow
    <2>2. w \notin Going(l, s)'
        <3>1. worker'[w].job = j
            BY <1>1, <1>2, <1>4, StateFacts DEF Set
        <3>. QED  BY <2>1, <3>1 DEF Going, Target
    <2>3. Going(l, s)' \subseteq Going(l, s)
        BY <1>7, <2>2
    <2>. QED  BY <1>1, <1>3, <1>5, <1>6, <2>3, QuietTally
<1>13. CASE Held(j)
    <2>1. /\ Cardinality(Going(l, s)') + 0 <= Cardinality(Going(l, s)) + 1
          /\ Cardinality(Events(l)') + mishaps' + 1 + 0 + 1
                 >= Cardinality(Events(l)) + mishaps + 3
        BY <1>3, <1>8, <1>9, <1>10, <1>11, <1>13 DEF CountsKnown
    <2>. QED  BY <1>1, <1>11, <2>1, TallyMoves
<1>14. CASE jobs[j].target = l /\ ~Held(j)
    <2>1. j \in Waiting(l)
        BY <1>2, <1>4, <1>14 DEF Waiting, Events
    <2>2. Cardinality(q) + 1 <= Cardinality(Waiting(l))
        BY <1>6, <1>8, <1>9, <2>1, CountDrops
    <2>3. /\ Cardinality(Going(l, s)') + 0 <= Cardinality(Going(l, s)) + 1
          /\ Cardinality(Waiting(l)') + 2 <= Cardinality(Waiting(l)) + 1
          /\ Cardinality(Events(l)') + mishaps' + 1 + 0 + 2
                 >= Cardinality(Events(l)) + mishaps + 3
        BY <1>3, <1>8, <1>9, <1>10, <1>11, <2>2 DEF CountsKnown
    <2>. QED  BY <1>1, <1>11, <2>3, TallyMoves
<1>. QED  BY <1>12, <1>13, <1>14

(* A lifecycle event is published, or its job replayed: one more event, at *)
(* most one more that waits.                                               *)
LEMMA TallyPublishes ==
    ASSUME EventInv, [Next]_vars, NEW l \in Leads, NEW s \in Seqs,
           worker' = worker, mishaps' >= mishaps,
           JobIds' = JobIds \cup {Len(jobs) + 1},
           \A k \in JobIds : jobs'[k].state = "queued" => jobs[k].state = "queued"
    PROVE  Tally(l, s)' <= Cardinality(Events(l)') + mishaps'
<1>1. TypeOK /\ TypeOK' /\ Grow /\ Len(jobs) + 1 \notin JobIds
    BY TypeStep, StateFacts DEF EventInv, JobIds
<1>2. ByEvent(l, s)' \subseteq ByEvent(l, s) /\ Going(l, s)' \subseteq Going(l, s)
    BY <1>1, ByEventSame, GoingSame
<1>3. ASSUME NEW j \in Waiting(l)', j # Len(jobs) + 1 PROVE j \in Waiting(l)
    <2>1. j \in JobIds /\ jobs[j].state = "queued"
        BY <1>3 DEF Waiting, Events
    <2>. QED  BY <1>1, <1>3, <2>1, WaitingSame
<1>4. CASE Len(jobs) + 1 \notin Waiting(l)'
    <2>1. Waiting(l)' \subseteq Waiting(l)
        BY <1>3, <1>4
    <2>. QED  BY <1>1, <1>2, <2>1, QuietTally
<1>5. CASE Len(jobs) + 1 \in Waiting(l)'
    <2>1. PICK q, t : q = Waiting(l)' /\ t = Events(l)'
        OBVIOUS
    <2>2. /\ IsFiniteSet(Waiting(l)) /\ IsFiniteSet(t)
          /\ CountsKnown(l, s) /\ CountsKnown(l, s)'
        BY <1>1, <2>1, CountsTyped
    <2>3. q \subseteq Waiting(l) \cup {Len(jobs) + 1}
        BY <1>3, <2>1
    <2>4. Cardinality(q) <= Cardinality(Waiting(l)) + 1
        BY <2>2, <2>3, CountAdds
    <2>5. Len(jobs) + 1 \in t /\ Len(jobs) + 1 \notin Events(l)
          /\ Events(l) \subseteq t
        <3>1. Len(jobs) + 1 \in t
            BY <1>5, <2>1 DEF Waiting
        <3>2. Len(jobs) + 1 \notin Events(l)
            BY <1>1 DEF Events
        <3>3. Events(l) \subseteq t
            BY <1>1, <2>1, EventsGrow
        <3>. QED  BY <3>1, <3>2, <3>3
    <2>6. Cardinality(Events(l)) + 1 <= Cardinality(t)
        BY <2>2, <2>5, CountGrows
    <2>7. /\ Cardinality(ByEvent(l, s)') + 1 <= Cardinality(ByEvent(l, s)) + 1
          /\ Cardinality(Going(l, s)') + 1 <= Cardinality(Going(l, s)) + 1
        BY <1>1, <1>2, SetsStay
    <2>8. /\ Cardinality(Waiting(l)') + 0 <= Cardinality(Waiting(l)) + 1
          /\ Cardinality(Events(l)') + mishaps' + 1 + 1 + 0
                 >= Cardinality(Events(l)) + mishaps + 3
        BY <2>1, <2>2, <2>4, <2>6 DEF CountsKnown
    <2>. QED  BY <1>1, <2>7, <2>8, TallyMoves
<1>. QED  BY <1>4, <1>5

(* The worker's other steps keep the job, or give it up for good.          *)
LEMMA TallyRest ==
    ASSUME EventInv, [Next]_vars, NEW l \in Leads, NEW s \in Seqs,
           NEW w \in Workers,
           \/ Acknowledge(w) \/ CommitTrigger(w) \/ StartStep(w) \/ RunStep(w)
           \/ StageUsage(w) \/ PublishNext(w) \/ CommitStep(w)
    PROVE  Tally(l, s)' <= Cardinality(Events(l)') + mishaps'
<1>1. TypeOK /\ TypeOK' /\ Grow /\ mishaps \in Nat
    BY TypeStep DEF EventInv, TypeOK
<1>2. Rows' = Rows
    <2>1. CASE CommitTrigger(w) \/ CommitStep(w)
        BY <1>1, <2>1, CommitTriggerRows, CommitStepRows
    <2>2. CASE Acknowledge(w) \/ StartStep(w) \/ RunStep(w) \/ StageUsage(w)
               \/ PublishNext(w)
        BY <2>2 DEF Acknowledge, StartStep, RunStep, StageUsage, PublishNext, Rows
    <2>. QED  BY <2>1, <2>2
<1>3. ByEvent(l, s)' \subseteq ByEvent(l, s)
    BY <1>1, <1>2, ByEventSame
<1>4. ASSUME NEW r, Set(w, r), r.pc # "enroll", r.job = worker[w].job,
             mishaps' = mishaps,
             \A j \in JobIds : jobs'[j].state = jobs[j].state,
             \A j \in JobIds' \ JobIds : jobs'[j].event = "step"
      PROVE  Tally(l, s)' <= Cardinality(Events(l)') + mishaps'
    <2>1. Going(l, s)' \subseteq Going(l, s)
        BY <1>1, <1>4, GoingStays
    <2>2. Waiting(l)' \subseteq Waiting(l)
        BY <1>1, <1>4, WaitingKept
    <2>3. mishaps' >= mishaps
        BY <1>1, <1>4
    <2>. QED  BY <1>1, <1>3, <2>1, <2>2, <2>3, QuietTally
<1>5. CASE Acknowledge(w)
    <2>1. Set(w, Idle) /\ mishaps' >= mishaps
        BY <1>1, <1>5 DEF Acknowledge
    <2>2. JobIds' = JobIds
          /\ \A k \in JobIds : jobs'[k].state =
                 IF k = worker[w].job THEN "deleted" ELSE jobs[k].state
        BY <1>1, <1>5, AckMoves DEF JobsSettle
    <2>3. Going(l, s)' \subseteq Going(l, s)
        BY <1>1, <2>1, GoingStays DEF Idle
    <2>4. ASSUME NEW j \in Waiting(l)' PROVE j \in Waiting(l)
        <3>1. j \in JobIds /\ jobs[j].state = "queued" /\ j # worker[w].job
            BY <2>2, <2>4 DEF Waiting, Events
        <3>. QED  BY <1>1, <2>1, <2>4, <3>1, WaitingMoves
    <2>5. Waiting(l)' \subseteq Waiting(l)
        BY <2>4
    <2>. QED  BY <1>1, <1>3, <2>1, <2>3, <2>5, QuietTally
<1>6. CASE CommitTrigger(w) \/ CommitStep(w)
    <2>1. Set(w, Ack(worker[w].job)) /\ jobs' = jobs /\ mishaps' = mishaps
        BY <1>6 DEF CommitTrigger, CommitStep
    <2>2. Ack(worker[w].job).pc # "enroll" /\ Ack(worker[w].job).job = worker[w].job
        BY DEF Ack
    <2>3. JobIds' = JobIds
        BY <2>1 DEF JobIds
    <2>. QED  BY <1>4, <2>1, <2>2, <2>3
<1>7. CASE StartStep(w)
    <2>1. PICK j \in JobIds, e \in Rows :
              /\ Take(w, j) /\ jobs[j].event = "step"
              /\ Reads(w, j, e) \/ Passes(w, j, e)
        BY <1>1, <1>7, StartForms
    <2>2. PICK r : Set(w, r) /\ r.pc # "enroll"
        BY <2>1 DEF Reads, Passes, Reading, StepTxn, Ack
    <2>3. /\ \A k \in JobIds : jobs'[k].state = jobs[k].state
          /\ JobIds' = JobIds /\ mishaps' >= mishaps
        BY <1>1, <1>2, <2>1, TakeMoves DEF JobsSettle
    <2>4. Going(l, s)' \subseteq Going(l, s)
        BY <1>1, <2>2, GoingStays
    <2>5. ASSUME NEW k \in Waiting(l)' PROVE k \in Waiting(l)
        <3>1. k \in JobIds /\ jobs[k].state = "queued" /\ worker[w].job # k
            BY <2>1, <2>3, <2>5 DEF Waiting, Events, Take, Idle, JobIds
        <3>. QED  BY <1>1, <2>2, <2>5, <3>1, WaitingMoves
    <2>6. Waiting(l)' \subseteq Waiting(l)
        BY <2>5
    <2>. QED  BY <1>1, <1>3, <2>3, <2>4, <2>6, QuietTally
<1>8. CASE RunStep(w) \/ StageUsage(w)
    <2>1. PICK r : Set(w, r) /\ r.pc # "enroll" /\ r.job = worker[w].job
        BY <1>8 DEF RunStep, StageUsage, StepTxn
    <2>2. jobs' = jobs /\ mishaps' = mishaps
        BY <1>8 DEF RunStep, StageUsage
    <2>3. JobIds' = JobIds
        BY <2>2 DEF JobIds
    <2>. QED  BY <1>4, <2>1, <2>2, <2>3
<1>9. CASE PublishNext(w)
    <2>1. PICK r : Set(w, r) /\ r.pc # "enroll" /\ r.job = worker[w].job
        BY <1>9 DEF PublishNext, StepTxn
    <2>2. mishaps' = mishaps
        BY <1>9 DEF PublishNext
    <2>3. /\ \A j \in JobIds : jobs'[j].state = jobs[j].state
          /\ \A j \in JobIds' \ JobIds : jobs'[j].event = "step"
        <3>1. CASE IsLast(w)
            <4>1. jobs' = jobs
                BY <1>9, <3>1 DEF PublishNext, WithNextJob
            <4>. QED  BY <4>1 DEF JobIds
        <3>2. CASE ~IsLast(w)
            <4>1. jobs' = Append(jobs, Job("step", Target(w)))
                BY <1>9, <3>2 DEF PublishNext, WithNextJob
            <4>2. Rows \subseteq Rows' /\ Target(w) \in Rows'
                BY <1>1, <1>2, <1>9, WorkerFacts DEF PublishNext, Running
            <4>3. /\ JobIds' = JobIds \cup {Len(jobs) + 1}
                  /\ \A j \in JobIds : jobs'[j] = jobs[j]
                  /\ jobs'[Len(jobs) + 1] = Job("step", Target(w))
                BY <1>1, <4>1, <4>2, PublishMoves
            <4>. QED  BY <4>3 DEF Job
        <3>. QED  BY <3>1, <3>2
    <2>. QED  BY <1>4, <2>1, <2>2, <2>3
<1>. QED  BY <1>5, <1>6, <1>7, <1>8, <1>9

LEMMA TallyApi ==
    ASSUME EventInv, [Next]_vars, NEW l \in Leads, NEW s \in Seqs,
           ApiStep \/ UNCHANGED vars
    PROVE  Tally(l, s)' <= Cardinality(Events(l)') + mishaps'
<1>1. TypeOK /\ TypeOK' /\ Grow /\ mishaps \in Nat
    BY TypeStep DEF EventInv, TypeOK
<1>2. worker' = worker
    BY DEF ApiStep, vars, EnrollCommit, EnrollPublish, EnrollDies,
           PublishTrigger, DeleteLead, DeleteSequence, EditSteps, Replay
<1>3. CASE jobs' = jobs
    <2>1. ByEvent(l, s)' \subseteq ByEvent(l, s) /\ Going(l, s)' \subseteq Going(l, s)
        BY <1>1, <1>2, ByEventSame, GoingSame
    <2>2. ASSUME NEW j \in Waiting(l)' PROVE j \in Waiting(l)
        <3>1. j \in JobIds /\ jobs[j].state = "queued"
            BY <1>3, <2>2 DEF Waiting, Events, JobIds
        <3>. QED  BY <1>1, <1>2, <2>2, <3>1, WaitingSame
    <2>3. Waiting(l)' \subseteq Waiting(l)
        BY <2>2
    <2>4. mishaps' >= mishaps
        <3>1. mishaps' = mishaps \/ Fault
            BY DEF ApiStep, vars, EnrollCommit, EnrollPublish, EnrollDies,
               PublishTrigger, DeleteLead, DeleteSequence, EditSteps, Replay
        <3>. QED  BY <1>1, <3>1 DEF Fault
    <2>. QED  BY <1>1, <2>1, <2>3, <2>4, QuietTally
<1>4. ASSUME EnrollPublish \/ \E k \in Leads : PublishTrigger(k)
      PROVE  Tally(l, s)' <= Cardinality(Events(l)') + mishaps'
    <2>1. Rows' = Rows /\ Rows \subseteq Rows' /\ mishaps' = mishaps
        BY <1>4 DEF EnrollPublish, PublishTrigger, Rows
    <2>2. PICK event, target :
              /\ jobs' = Append(jobs, Job(event, target))
              /\ \/ event = "step" /\ target \in Rows'
                 \/ event = "trigger" /\ target \in Leads
        BY <1>1, <1>4, <2>1 DEF EnrollPublish, PublishTrigger, FirstJob, TypeOK
    <2>3. /\ JobIds' = JobIds \cup {Len(jobs) + 1}
          /\ \A j \in JobIds : jobs'[j] = jobs[j]
        BY <1>1, <2>1, <2>2, PublishMoves
    <2>4. \A k \in JobIds : jobs'[k].state = "queued" => jobs[k].state = "queued"
        BY <2>3
    <2>5. mishaps' >= mishaps
        BY <1>1, <2>1
    <2>. QED  BY <1>2, <2>3, <2>4, <2>5, TallyPublishes
<1>5. ASSUME NEW j \in JobIds, Replay(j)
      PROVE  Tally(l, s)' <= Cardinality(Events(l)') + mishaps'
    <2>1. /\ JobIds' = JobIds \cup {Len(jobs) + 1} /\ mishaps' >= mishaps
          /\ \A k \in JobIds : \/ jobs'[k].state = jobs[k].state
                               \/ k = j /\ jobs'[k].state = "replayed"
        <3>1. mishaps' = mishaps \/ mishaps' = mishaps + 1
            BY <1>5 DEF Replay, Fault
        <3>. QED  BY <1>1, <1>5, <3>1, ReplayMoves
    <2>2. \A k \in JobIds : jobs'[k].state = "queued" => jobs[k].state = "queued"
        BY <2>1
    <2>. QED  BY <1>2, <2>1, <2>2, TallyPublishes
<1>6. ASSUME \/ \E k \in Leads, q \in Seqs : EnrollCommit(k, q)
             \/ EnrollDies \/ UNCHANGED vars
             \/ \E k \in Leads : DeleteLead(k)
             \/ \E q \in Seqs : DeleteSequence(q) \/ EditSteps(q)
      PROVE  jobs' = jobs
    BY <1>6 DEF EnrollCommit, EnrollDies, vars, DeleteLead, DeleteSequence, EditSteps
<1>. QED  BY <1>3, <1>4, <1>5, <1>6 DEF ApiStep

LEMMA EventInit == Init => EventInv
<1>. SUFFICES ASSUME Init PROVE EventInv
    OBVIOUS
<1>1. TypeOK /\ Rows = {} /\ JobIds = {} /\ mishaps = 0
      /\ \A w \in Workers : worker[w] = Idle
    BY TypeInit DEF Init, Rows, JobIds
<1>2. ASSUME NEW l \in Leads, NEW s \in Seqs
      PROVE  Tally(l, s) <= Cardinality(Events(l)) + mishaps
    <2>1. ByEvent(l, s) = {} /\ Going(l, s) = {} /\ Waiting(l) = {} /\ Events(l) = {}
        BY <1>1 DEF ByEvent, Going, Waiting, Events, Idle
    <2>. QED  BY <1>1, <2>1, FS_EmptySet DEF Tally
<1>. QED  BY <1>1, <1>2 DEF EventInv

LEMMA EventStep == EventInv /\ [Next]_vars => EventInv'
<1>. SUFFICES ASSUME EventInv, [Next]_vars PROVE EventInv'
    OBVIOUS
<1>1. TypeOK /\ TypeOK'
    BY TypeStep DEF EventInv
<1>2. ASSUME NEW l \in Leads, NEW s \in Seqs
      PROVE  Tally(l, s)' <= Cardinality(Events(l)') + mishaps'
    <2> DEFINE Goal == Tally(l, s)' <= Cardinality(Events(l)') + mishaps'
    <2>1. ASSUME NEW w \in Workers, WorkerStep(w) \/ HandlerFails(w) \/ Crash(w)
          PROVE  Goal
        <3>1. ASSUME EnrollRejected(w) \/ UsageConflict(w) \/ CommitStale(w)
                         \/ HandlerFails(w) \/ Crash(w)
              PROVE  Goal
            BY <1>1, <3>1, FailureForms, TallyFails
        <3>2. ASSUME EnrollOne(w) PROVE Goal
            BY <3>2, TallyEnroll
        <3>3. ASSUME StartTrigger(w) PROVE Goal
            BY <3>3, TallyStarts
        <3>4. ASSUME Acknowledge(w) \/ CommitTrigger(w) \/ StartStep(w) \/ RunStep(w)
                         \/ StageUsage(w) \/ PublishNext(w) \/ CommitStep(w)
              PROVE  Goal
            BY <3>4, TallyRest
        <3>. HIDE DEF Goal
        <3>. QED  BY <2>1, <3>1, <3>2, <3>3, <3>4 DEF WorkerStep
    <2>2. ASSUME ApiStep \/ UNCHANGED vars PROVE Goal
        BY <2>2, TallyApi
    <2>. QED  BY <2>1, <2>2 DEF Next
<1>. QED  BY <1>1, <1>2 DEF EventInv

(* A lifecycle event enrolls a lead into a sequence at most once, and once *)
(* more for each replay of its job and each mishap, for any number of      *)
(* workers and events.                                                     *)
THEOREM EventsEnrollOnce == Spec => []EnrolledOncePerEvent
<1>1. EventInv => EnrolledOncePerEvent
    <2>. SUFFICES ASSUME EventInv, NEW l \in Leads, NEW s \in Seqs
                  PROVE  Cardinality(ByEvent(l, s)) <= Cardinality(Events(l)) + mishaps
        BY DEF EnrolledOncePerEvent, ByEvent, Events
    <2>1. AllFinite /\ TypeOK /\ Tally(l, s) <= Cardinality(Events(l)) + mishaps
        BY EventsFinite DEF EventInv
    <2>2. CountsKnown(l, s)
        BY <2>1, FS_CardinalityType DEF AllFinite, CountsKnown, TypeOK
    <2>. QED  BY <2>1, <2>2 DEF Tally, CountsKnown
<1>. QED  BY <1>1, EventInit, EventStep, PTL DEF Spec

-----------------------------------------------------------------------------
(***************************************************************************)
(* With one worker, as docker-compose.yml deploys it.  The index it has    *)
(* read is the one in the database, and a step that has run is committed,  *)
(* still in its transaction, or was lost by a mishap.                      *)
(***************************************************************************)
OneWorker == \E w : Workers = {w}

Abreast ==
    \A w \in Workers : worker[w].pc \in Running =>
        worker[w].idx = enrollments[Target(w)].idx

PaceInv == TypeOK /\ Abreast

Committed(e, st) ==
    \E k \in 1..Len(List(e)) : k <= enrollments[e].idx /\ List(e)[k] = st

InFlight(e, st) ==
    \E w \in Workers : /\ worker[w].pc \in {"usage", "publish", "commit"}
                       /\ ~Past(w) /\ Target(w) = e /\ StepOf(w) = st

InitialLists == \A s \in Seqs \ edited : steps[s] = InitialSteps[s]

RunsOnce ==
    \A e \in Rows, st \in Steps : Unedited(e) =>
        ran[e][st] <= mishaps + (IF Committed(e, st) \/ InFlight(e, st)
                                 THEN 1 ELSE 0)

OnceInv == SkipInv /\ Abreast /\ InitialLists /\ RunsOnce

LEMMA PaceInit == Init => PaceInv
<1>. SUFFICES ASSUME Init PROVE PaceInv
    OBVIOUS
<1>1. \A w \in Workers : worker[w] = Idle
    BY DEF Init
<1>. QED  BY <1>1, TypeInit DEF PaceInv, Abreast, Idle, Running

LEMMA PaceStep ==
    ASSUME OneWorker, PaceInv, [Next]_vars
    PROVE  /\ PaceInv'
           /\ \A e \in Rows : enrollments'[e].idx >= enrollments[e].idx
<1>1. TypeOK /\ TypeOK' /\ Grow /\ Abreast /\ DOMAIN worker = Workers
    BY TypeStep, StateFacts DEF PaceInv
<1>2. ASSUME NEW e \in Rows
      PROVE  \/ enrollments'[e].idx = enrollments[e].idx
             \/ \E w \in Workers : CommitStep(w) /\ Target(w) = e
    BY <1>1, RowMoves
<1>3. ASSUME NEW w \in Workers, worker'[w].pc \in Running
      PROVE  \A e \in Rows : enrollments'[e].idx = enrollments[e].idx
    <2>1. ~\E v \in Workers : CommitStep(v)
        <3>1. ASSUME CommitStep(w) PROVE FALSE
            BY <1>1, <1>3, <3>1 DEF CommitStep, Set, Ack, Running
        <3>. QED  BY <3>1 DEF OneWorker
    <2>. QED  BY <1>2, <2>1
<1>4. ASSUME NEW w \in Workers, worker'[w].pc \in Running
      PROVE  worker'[w].idx = enrollments'[Target(w)'].idx
    <2>1. CASE /\ worker[w].pc \in Running
               /\ worker'[w].job = worker[w].job /\ worker'[w].idx = worker[w].idx
        <3>1. worker[w].job \in JobIds /\ Target(w) \in Rows
              /\ worker[w].idx = enrollments[Target(w)].idx
            BY <1>1, <2>1, WorkerFacts DEF Abreast, Running
        <3>2. Target(w)' = Target(w)
            BY <1>1, <2>1, <3>1 DEF Target, Grow
        <3>. QED  BY <1>3, <1>4, <2>1, <3>1, <3>2
    <2>2. ASSUME NEW e \in Rows, worker'[w].job \in JobIds,
                 jobs[worker'[w].job].target = e,
                 worker'[w].idx = enrollments[e].idx
          PROVE  worker'[w].idx = enrollments'[Target(w)'].idx
        <3>1. Target(w)' = e
            BY <1>1, <2>2 DEF Target, Grow
        <3>. QED  BY <1>3, <1>4, <2>2, <3>1
    <2>. QED  BY <1>1, <1>4, <2>1, <2>2, HolderMoves
<1>5. ASSUME NEW e \in Rows PROVE enrollments'[e].idx >= enrollments[e].idx
    <2>1. enrollments[e].idx \in Nat
        BY <1>1, StateFacts DEF Enrollment
    <2>2. ASSUME NEW w \in Workers, CommitStep(w), Target(w) = e
          PROVE  enrollments'[e].idx >= enrollments[e].idx
        <3>1. worker[w].idx = enrollments[e].idx
            BY <1>1, <2>2 DEF Abreast, CommitStep, Running
        <3>2. CASE Past(w)
            BY <1>1, <2>1, <2>2, <3>2, CommitStepRows
        <3>3. CASE ~Past(w)
            BY <1>1, <2>1, <2>2, <3>1, <3>3, CommitStepRows
        <3>. QED  BY <3>2, <3>3
    <2>. QED  BY <1>2, <2>1, <2>2
<1>. QED  BY <1>1, <1>4, <1>5 DEF PaceInv, Abreast

(* With one worker the index of an enrollment never goes back.             *)
THEOREM IndexAdvances ==
    ASSUME OneWorker
    PROVE  Spec => NoRegress
<1>1. PaceInv /\ [Next]_vars => PaceInv'
    BY PaceStep
<1>2. PaceInv /\ [Next]_vars
          => [\A e \in Rows : enrollments'[e].idx >= enrollments[e].idx]_vars
    BY PaceStep
<1>. QED  BY <1>1, <1>2, PaceInit, PTL DEF Spec, NoRegress

(* What a step does to the history, and to the mishaps.                    *)
LEMMA MishapsGrow ==
    ASSUME TypeOK, [Next]_vars
    PROVE  mishaps \in Nat /\ mishaps' \in Nat /\ mishaps' >= mishaps
<1>1. mishaps \in Nat /\ mishaps' \in Nat
    BY TypeStep DEF TypeOK
<1>2. ASSUME mishaps' = mishaps \/ mishaps' = mishaps + 1 PROVE mishaps' >= mishaps
    BY <1>1, <1>2
<1>3. ASSUME ApiStep \/ UNCHANGED vars PROVE mishaps' = mishaps \/ mishaps' = mishaps + 1
    BY <1>3 DEF ApiStep, vars, EnrollCommit, EnrollPublish, EnrollDies, Fault,
       PublishTrigger, DeleteLead, DeleteSequence, EditSteps, Replay
<1>4. ASSUME NEW w \in Workers, WorkerStep(w) \/ HandlerFails(w) \/ Crash(w)
      PROVE  mishaps' = mishaps \/ mishaps' = mishaps + 1
    BY <1>4 DEF WorkerStep, Acknowledge, StartTrigger, EnrollOne, EnrollRejected,
       CommitTrigger, StartStep, RunStep, StageUsage, UsageConflict, PublishNext,
       CommitStep, CommitStale, HandlerFails, Crash, Raise, Fault, Take
<1>. QED  BY <1>1, <1>2, <1>3, <1>4 DEF Next

LEMMA RanMoves ==
    ASSUME TypeOK, [Next]_vars, NEW e \in Rows, NEW st \in Steps
    PROVE  \/ ran'[e][st] = ran[e][st]
           \/ /\ ran'[e][st] = ran[e][st] + 1
              /\ \E w \in Workers : RunStep(w) /\ Target(w) = e /\ StepOf(w) = st
<1> DEFINE Goal == \/ ran'[e][st] = ran[e][st]
                   \/ /\ ran'[e][st] = ran[e][st] + 1
                      /\ \E w \in Workers : RunStep(w) /\ Target(w) = e
                                                       /\ StepOf(w) = st
<1>1. ASSUME ran' = ran PROVE Goal
    BY <1>1
<1>2. ASSUME NEW l, NEW s, NEW by, NEW status, Insert(l, s, by, status) PROVE Goal
    <2>1. PICK none : ran' = Append(ran, none)
        BY <1>2 DEF Insert
    <2>2. ran \in Seq(Counters) /\ e \in 1..Len(ran)
        BY DEF TypeOK, Rows
    <2>3. ran'[e] = ran[e]
        BY <2>1, <2>2, AppendProperties
    <2>. QED  BY <2>3
<1>3. ASSUME NEW w \in Workers, RunStep(w) PROVE Goal
    <2>1. PICK x \in Rows, y \in Steps : x = Target(w) /\ y = StepOf(w)
        BY <1>3, WorkerFacts DEF RunStep, Running
    <2>2. ran' = [ran EXCEPT ![x][y] = @ + 1]
        BY <1>3, <2>1 DEF RunStep
    <2>3. DOMAIN ran = Rows /\ ran[e] \in [Steps -> Nat] /\ ran[x] \in [Steps -> Nat]
        BY <2>1, StateFacts DEF Counters
    <2>4. ran'[e][st] = IF e = x /\ st = y THEN ran[e][st] + 1 ELSE ran[e][st]
        BY <2>1, <2>2, <2>3
    <2>. QED  BY <1>3, <2>1, <2>4
<1>4. ASSUME ApiStep PROVE Goal
    <2>1. ran' = ran \/ \E l \in Leads, s \in Seqs : Insert(l, s, "api", "active")
        BY <1>4 DEF ApiStep, EnrollCommit, EnrollPublish, EnrollDies,
           PublishTrigger, DeleteLead, DeleteSequence, EditSteps, Replay
    <2>. HIDE DEF Goal
    <2>. QED  BY <1>1, <1>2, <2>1
<1>5. ASSUME NEW w \in Workers, WorkerStep(w) \/ HandlerFails(w) \/ Crash(w) PROVE Goal
    <2>1. \/ ran' = ran \/ RunStep(w)
          \/ \E s : Insert(Target(w), s, "event", "pending")
        BY <1>5 DEF WorkerStep, Acknowledge, StartTrigger, EnrollOne,
           EnrollRejected, CommitTrigger, StartStep, StageUsage, UsageConflict,
           PublishNext, CommitStep, CommitStale, HandlerFails, Crash, Raise, Rollback
    <2>. HIDE DEF Goal
    <2>. QED  BY <1>1, <1>2, <1>3, <2>1
<1>6. ASSUME UNCHANGED vars PROVE Goal
    BY <1>1, <1>6 DEF vars
<1>. HIDE DEF Goal
<1>7. Goal
    BY <1>4, <1>5, <1>6 DEF Next
<1>. QED  BY <1>7 DEF Goal

LEMMA ListsStay ==
    ASSUME TypeOK, [Next]_vars, InitialLists
    PROVE  InitialLists'
BY ListMoves DEF InitialLists

(* A step in flight goes on, is committed, or is lost by a mishap.         *)
LEMMA FlightMoves ==
    ASSUME OneWorker, OnceInv, [Next]_vars, NEW e \in Rows, Unedited(e)',
           NEW st \in Steps, InFlight(e, st)
    PROVE  InFlight(e, st)' \/ Committed(e, st)' \/ mishaps' = mishaps + 1
<1>1. TypeOK /\ Grow /\ DOMAIN worker = Workers
    BY TypeStep, StateFacts DEF OnceInv, SkipInv
<1>2. PICK w \in Workers : /\ worker[w].pc \in {"usage", "publish", "commit"}
                           /\ ~Past(w) /\ Target(w) = e /\ StepOf(w) = st
    BY DEF InFlight
<1>3. Workers = {w}
    BY DEF OneWorker
<1>4. worker[w].job \in JobIds /\ worker[w].pc \in Running
    BY <1>1, <1>2, WorkerFacts DEF Running
<1>5. ASSUME NEW r, r = worker'[w], r.pc \in {"usage", "publish", "commit"},
             r.job = worker[w].job, r.idx = worker[w].idx, r.list = worker[w].list
      PROVE  InFlight(e, st)'
    <2>1. Target(w)' = e
        BY <1>1, <1>2, <1>4, <1>5 DEF Target, Grow
    <2>2. ~Past(w)' /\ StepOf(w)' = st
        BY <1>2, <1>5 DEF Past, StepOf
    <2>. QED  BY <1>5, <2>1, <2>2 DEF InFlight
<1>6. CASE ApiStep \/ UNCHANGED vars
    <2>1. worker' = worker
        BY <1>6 DEF ApiStep, vars, EnrollCommit, EnrollPublish, EnrollDies,
            PublishTrigger, DeleteLead, DeleteSequence, EditSteps, Replay
    <2>. QED  BY <1>2, <1>5, <2>1
<1>7. CASE StageUsage(w) \/ PublishNext(w)
    <2>1. PICK pc, u :
             /\ pc \in {"publish", "commit"}
             /\ Set(w, StepTxn(pc, worker[w].job, worker[w].idx, worker[w].list, u))
        BY <1>7 DEF StageUsage, PublishNext
    <2>2. worker'[w] = StepTxn(pc, worker[w].job, worker[w].idx, worker[w].list, u)
        BY <1>1, <2>1 DEF Set
    <2>. QED  BY <2>1, <1>5, <2>2 DEF StepTxn
<1>8. CASE CommitStep(w)
    <2>1. /\ enrollments'[e].idx = worker[w].idx + 1
          /\ worker[w].idx \in Nat /\ worker[w].list \in Seq(Steps)
          /\ Len(worker[w].list) \in Nat
        BY <1>1, <1>2, <1>4, <1>8, CommitStepRows, WorkerFacts
    <2>2. Unedited(e) /\ List(e)' = List(e)
        BY <1>1, ListStays
    <2>3. worker[w].list = List(e)
        BY <1>2, <1>4, <2>2 DEF OnceInv, SkipInv, ReadRight
    <2>4. PICK list, k : list = List(e)' /\ k = worker[w].idx + 1
        OBVIOUS
    <2>5. k \in 1..Len(list) /\ list[k] = st /\ k <= enrollments'[e].idx
        BY <1>2, <2>1, <2>2, <2>3, <2>4 DEF Past, StepOf
    <2>. QED  BY <2>4, <2>5 DEF Committed
<1>9. CASE EnrollRejected(w) \/ UsageConflict(w) \/ CommitStale(w)
           \/ HandlerFails(w) \/ Crash(w)
    BY <1>1, <1>9, FailureForms DEF Failed
<1>10. ~(Acknowledge(w) \/ StartTrigger(w) \/ EnrollOne(w) \/ CommitTrigger(w)
         \/ StartStep(w) \/ RunStep(w))
    BY <1>2 DEF Acknowledge, StartTrigger, EnrollOne, CommitTrigger, StartStep,
       RunStep, Take, Idle
<1>. QED  BY <1>3, <1>6, <1>7, <1>8, <1>9, <1>10 DEF Next, WorkerStep

(* A committed step stays committed.                                       *)
LEMMA CommittedStays ==
    ASSUME OneWorker, OnceInv, [Next]_vars, NEW e \in Rows, Unedited(e)',
           NEW st \in Steps, Committed(e, st)
    PROVE  Committed(e, st)'
<1>1. TypeOK /\ TypeOK' /\ PaceInv /\ e \in Rows'
    BY TypeStep DEF OnceInv, SkipInv, PaceInv, Grow
<1>2. List(e)' = List(e)
    BY <1>1, ListStays
<1>3. enrollments'[e].idx >= enrollments[e].idx
    BY <1>1, PaceStep
<1>4. enrollments[e].idx \in Nat /\ enrollments'[e].idx \in Nat
    <2>1. enrollments'[e] \in Enrollment
        BY <1>1, ElementOfSeq DEF TypeOK, Rows
    <2>. QED  BY <1>1, <2>1, StateFacts DEF Enrollment
<1>5. PICK k \in 1..Len(List(e)) : k <= enrollments[e].idx /\ List(e)[k] = st
    BY DEF Committed
<1>6. PICK list : list = List(e) /\ list = List(e)'
    BY <1>2
<1>7. k \in 1..Len(list) /\ k <= enrollments'[e].idx /\ list[k] = st
    BY <1>3, <1>4, <1>5, <1>6
<1>. QED  BY <1>6, <1>7 DEF Committed

(* The step that runs next is neither committed nor in flight.             *)
LEMMA RunsNew ==
    ASSUME OneWorker, OnceInv, [Next]_vars, NEW w \in Workers, RunStep(w),
           NEW e \in Rows, NEW st \in Steps, e = Target(w), st = StepOf(w),
           Unedited(e)
    PROVE  ~Committed(e, st) /\ ~InFlight(e, st) /\ InFlight(e, st)'
<1>1. TypeOK /\ Grow /\ DOMAIN worker = Workers /\ worker[w].pc = "run"
    BY TypeStep, StateFacts DEF OnceInv, SkipInv, RunStep
<1>2. Workers = {w}
    BY DEF OneWorker
<1>3. PICK i \in Nat, list \in Seq(Steps) :
          /\ e = Target(w) /\ st = StepOf(w) /\ i = worker[w].idx
          /\ list = worker[w].list /\ worker[w].job \in JobIds
    BY <1>1, WorkerFacts DEF Running
<1>4. ~Past(w) /\ Len(list) \in Nat
    BY <1>1, <1>3, WorkerFacts, LenProperties
<1>5. i + 1 \in 1..Len(list) /\ list[i + 1] = st
    BY <1>3, <1>4 DEF Past, StepOf
<1>6. list = List(e) /\ i = enrollments[e].idx
    BY <1>1, <1>3 DEF OnceInv, SkipInv, ReadRight, Abreast, Running
<1>7. \A k \in 1..Len(list), m \in 1..Len(list) : list[k] = list[m] => k = m
    <2>1. enrollments[e].seq \in Seqs \ edited
        BY <1>1, <1>3, StateFacts DEF Enrollment, Unedited
    <2>2. list = InitialSteps[enrollments[e].seq]
        BY <1>6, <2>1 DEF OnceInv, InitialLists, List
    <2>3. IsInjective(list)
        BY <2>1, <2>2, ConstantsOK DEF ConstantsOK
    <2>. QED  BY <1>3, <2>3, LenProperties DEF IsInjective
<1>8. ~Committed(e, st)
    BY <1>5, <1>6, <1>7 DEF Committed
<1>9. ~InFlight(e, st)
    BY <1>1, <1>2 DEF InFlight
<1>10. InFlight(e, st)'
    <2>1. PICK pc, r :
             /\ pc \in {"usage", "publish"}
             /\ r = StepTxn(pc, worker[w].job, i, list, usage) /\ Set(w, r)
        BY <1>3 DEF RunStep
    <2>2. r = worker'[w] /\ r.pc \in {"usage", "publish"} /\ r.job = worker[w].job
          /\ r.idx = i /\ r.list = list
        BY <1>1, <2>1 DEF Set, StepTxn
    <2>3. Target(w)' = e
        BY <1>1, <1>3, <2>2 DEF Target, Grow
    <2>4. ~Past(w)' /\ StepOf(w)' = st
        BY <1>3, <1>4, <2>2 DEF Past, StepOf
    <2>. QED  BY <2>2, <2>3, <2>4 DEF InFlight
<1>. QED  BY <1>8, <1>9, <1>10

LEMMA OnceInit == Init => OnceInv
<1>. SUFFICES ASSUME Init PROVE OnceInv
    OBVIOUS
<1>1. SkipInv /\ Abreast
    BY SkipInit, PaceInit DEF PaceInv
<1>2. Rows = {} /\ InitialLists
    BY DEF Init, Rows, InitialLists
<1>3. RunsOnce
    BY <1>2 DEF RunsOnce
<1>. QED  BY <1>1, <1>2, <1>3 DEF OnceInv

LEMMA OnceStep ==
    ASSUME OneWorker, OnceInv, [Next]_vars
    PROVE  OnceInv'
<1>1. TypeOK /\ TypeOK' /\ PaceInv /\ Grow
    BY TypeStep DEF OnceInv, SkipInv, PaceInv
<1>2. SkipInv' /\ Abreast' /\ InitialLists'
    BY <1>1, SkipStep, PaceStep, ListsStay DEF OnceInv, PaceInv
<1>3. Counted /\ Counted'
    BY <1>1, CountsAreNat, CountsStayNat
<1>4. mishaps \in Nat /\ mishaps' \in Nat /\ mishaps' >= mishaps
    BY <1>1, MishapsGrow
<1>5. ASSUME NEW e \in Rows', NEW st \in Steps, Unedited(e)'
      PROVE  ran'[e][st] <= mishaps' + (IF Committed(e, st)' \/ InFlight(e, st)'
                                        THEN 1 ELSE 0)
    <2>1. CASE e \notin Rows
        <3>1. ran'[e][st] = 0
            BY <1>1, <2>1, RowsAdded
        <3>2. PICK m \in Nat : m = mishaps'
            BY <1>4
        <3>3. 0 <= m + 0 /\ 0 <= m + 1
            OBVIOUS
        <3>. QED  BY <3>1, <3>2, <3>3
    <2>2. CASE e \in Rows
        <3>1. Unedited(e)
            BY <1>1, <1>5, <2>2, ListStays
        <3>2. /\ ran[e][st] \in Nat /\ ran'[e][st] \in Nat
              /\ ran[e][st] <= mishaps + (IF Committed(e, st) \/ InFlight(e, st)
                                          THEN 1 ELSE 0)
            BY <1>3, <1>5, <2>2, <3>1 DEF Counted, OnceInv, RunsOnce
        <3>3. CASE ran'[e][st] = ran[e][st]
            <4>1. CASE Committed(e, st) \/ InFlight(e, st)
                <5>1. Committed(e, st)' \/ InFlight(e, st)' \/ mishaps' = mishaps + 1
                    BY <1>5, <2>2, <4>1, FlightMoves, CommittedStays
                <5>2. ran[e][st] <= mishaps + 1
                    BY <1>4, <3>2
                <5>. QED  BY <1>4, <3>2, <3>3, <5>1, <5>2
            <4>2. CASE ~(Committed(e, st) \/ InFlight(e, st))
                <5>1. ran'[e][st] <= mishaps'
                    BY <1>4, <3>2, <3>3, <4>2
                <5>. QED  BY <1>4, <3>2, <5>1
            <4>. QED  BY <4>1, <4>2
        <3>4. CASE /\ ran'[e][st] = ran[e][st] + 1
                   /\ \E w \in Workers : RunStep(w) /\ Target(w) = e /\ StepOf(w) = st
            <4>1. /\ ~Committed(e, st) /\ ~InFlight(e, st)
                  /\ InFlight(e, st)'
                BY <1>5, <2>2, <3>1, <3>4, RunsNew
            <4>. QED  BY <1>4, <3>2, <3>4, <4>1
        <3>. QED  BY <1>1, <2>2, <3>3, <3>4, RanMoves
    <2>. QED  BY <2>1, <2>2
<1>6. RunsOnce'
    BY <1>5 DEF RunsOnce
<1>. QED  BY <1>2, <1>6 DEF OnceInv

(* With one worker every step of an unedited sequence runs once for an     *)
(* enrollment, and at most once more for each mishap.                      *)
THEOREM StepsOnceEach ==
    ASSUME OneWorker
    PROVE  Spec => []StepsRunOnce
<1>1. OnceInv /\ [Next]_vars => OnceInv'
    BY OnceStep
<1>2. OnceInv => StepsRunOnce
    <2>. SUFFICES ASSUME OnceInv, NEW e \in Rows, NEW st \in Steps, Unedited(e)
                  PROVE  ran[e][st] <= 1 + mishaps
        BY DEF StepsRunOnce, Unedited
    <2>1. ran[e][st] \in Nat /\ mishaps \in Nat
        BY CountsAreNat DEF Counted, OnceInv, SkipInv, TypeOK
    <2>. QED  BY <2>1 DEF OnceInv, RunsOnce
<1>. QED  BY <1>1, <1>2, OnceInit, PTL DEF Spec

(***************************************************************************)
(* What is counted of each channel, with any number of workers: the        *)
(* committed row, and each row that a transaction with a delivery has read *)
(* and will count from, is as far behind as the mishaps and the overlaps   *)
(* allow.                                                                  *)
(***************************************************************************)
Tried(c)       == sends[c].called + sends[c].skipped
RunningOver(c) == {w \in Workers : Uncounted(w, c)}

Balanced(c, x, n) ==
    /\ x + n <= Tried(c)
    /\ Tried(c) <= x + n + mishaps + sends[c].overlaps

RowBalanced(c)  == Balanced(c, usage.sent[c], Cardinality(RunningOver(c)))
ReadsBalanced(c) ==
    \A w \in RunningOver(c) :
        Balanced(c, worker[w].usage.sent[c], Cardinality(RunningOver(c)))

UsageInv == TypeOK /\ \A c \in Channels : RowBalanced(c) /\ ReadsBalanced(c)

(* What a step of worker w does to the counts of a channel: nothing; it    *)
(* loses the transaction; it delivers; or it commits.                      *)
SentStays(c)  == usage'.sent[c] = usage.sent[c]
TriedStays(c) == /\ sends'[c].called + sends'[c].skipped = Tried(c)
                 /\ sends'[c].overlaps = sends[c].overlaps

CountsStay(w, c) == /\ SentStays(c) /\ TriedStays(c)
                    /\ mishaps' \in {mishaps, mishaps + 1}
                    /\ Uncounted(w, c)' <=> Uncounted(w, c)
                    /\ Uncounted(w, c) => worker'[w].usage = worker[w].usage

CountLost(w, c) == /\ SentStays(c) /\ TriedStays(c) /\ mishaps' = mishaps + 1
                   /\ Uncounted(w, c) /\ ~Uncounted(w, c)'

CallMade(w, c) == /\ SentStays(c) /\ mishaps' = mishaps
                  /\ sends'[c].called + sends'[c].skipped = Tried(c) + 1
                  /\ sends'[c].overlaps = sends[c].overlaps
                  /\ ~Uncounted(w, c) /\ Uncounted(w, c)'
                  /\ worker'[w].usage = usage

CallCounted(w, c) ==
    /\ usage'.sent[c] = worker[w].usage.sent[c] + 1
    /\ mishaps' = mishaps
    /\ sends'[c].called + sends'[c].skipped = Tried(c)
    /\ sends'[c].overlaps = IF \E v \in Workers \ {w} : Uncounted(v, c)
                            THEN sends[c].overlaps + 1 ELSE sends[c].overlaps
    /\ Uncounted(w, c) /\ ~Uncounted(w, c)'

CountsMove(w, c) == \/ CountsStay(w, c) \/ CountLost(w, c)
                    \/ CallMade(w, c) \/ CallCounted(w, c)

LEMMA UncountedOf ==
    ASSUME TypeOK, NEW w \in Workers, NEW r, Set(w, r), NEW c
    PROVE  /\ worker'[w] = r
           /\ r.pc \notin {"usage", "publish", "commit"} => ~Uncounted(w, c)'
           /\ r.idx >= Len(r.list) => ~Uncounted(w, c)'
BY StateFacts DEF Set, Uncounted, Past

LEMMA SendsMove ==
    ASSUME TypeOK, NEW c \in Channels, NEW d \in Channels
    PROVE  /\ Delivered(d)[c].overlaps = sends[c].overlaps
           /\ Delivered(d)[c].called + Delivered(d)[c].skipped =
                  IF c = d THEN Tried(c) + 1 ELSE Tried(c)
           /\ [sends EXCEPT ![d].overlaps = @ + 1][c].overlaps =
                  IF c = d THEN sends[c].overlaps + 1 ELSE sends[c].overlaps
           /\ [sends EXCEPT ![d].overlaps = @ + 1][c].called
                  + [sends EXCEPT ![d].overlaps = @ + 1][c].skipped = Tried(c)
<1>1. sends \in [Channels -> Sends] /\ sends[c] \in Sends /\ sends[d] \in Sends
    BY DEF TypeOK
<1>2. CASE d \in Configured
    BY <1>1, <1>2 DEF Delivered, Sends, Tried
<1>3. CASE d \notin Configured
    BY <1>1, <1>3 DEF Delivered, Sends, Tried
<1>. QED  BY <1>2, <1>3

LEMMA Quiet ==
    ASSUME NEW w, NEW c, UNCHANGED <<usage, sends>>,
           mishaps' \in {mishaps, mishaps + 1},
           Uncounted(w, c)' <=> Uncounted(w, c),
           Uncounted(w, c) => worker'[w].usage = worker[w].usage
    PROVE  CountsMove(w, c)
BY DEF CountsMove, CountsStay, SentStays, TriedStays, Tried

LEMMA CountsMoved ==
    ASSUME TypeOK, NEW w \in Workers, NEW c \in Channels,
           ApiStep \/ WorkerStep(w) \/ HandlerFails(w) \/ Crash(w)
               \/ UNCHANGED vars
    PROVE  CountsMove(w, c)
<1> DEFINE Goal == CountsMove(w, c)
           t == worker[w]
<1>1. ASSUME ApiStep \/ UNCHANGED vars PROVE Goal
    <2>1. UNCHANGED <<usage, sends, worker>>
          /\ mishaps' \in {mishaps, mishaps + 1}
        BY <1>1 DEF ApiStep, vars, EnrollCommit, Insert, EnrollPublish,
           EnrollDies, Fault, PublishTrigger, DeleteLead, DeleteSequence,
           EditSteps, Replay
    <2>2. Uncounted(w, c)' <=> Uncounted(w, c)
        BY <2>1 DEF Uncounted, Past, Over, StepOf
    <2>. QED  BY <2>1, <2>2, Quiet
<1>2. ASSUME Failed(w) PROVE Goal
    <2>1. Set(w, Idle) /\ UNCHANGED <<usage, sends>> /\ mishaps' = mishaps + 1
        BY <1>2 DEF Failed, Rollback
    <2>2. ~Uncounted(w, c)'
        BY <2>1, UncountedOf DEF Idle
    <2>3. CASE Uncounted(w, c)
        BY <2>1, <2>2, <2>3 DEF CountsMove, CountLost, SentStays, TriedStays, Tried
    <2>4. CASE ~Uncounted(w, c)
        BY <2>1, <2>2, <2>4, Quiet
    <2>. QED  BY <2>3, <2>4
<1>3. ASSUME NEW r, Set(w, r), UNCHANGED <<usage, sends>>,
             mishaps' \in {mishaps, mishaps + 1},
             t.pc \notin {"usage", "publish", "commit"},
             \/ r.pc \notin {"usage", "publish", "commit"}
             \/ r.idx >= Len(r.list)
      PROVE  Goal
    <2>1. ~Uncounted(w, c) /\ ~Uncounted(w, c)'
        BY <1>3, UncountedOf DEF Uncounted
    <2>. QED  BY <1>3, <2>1, Quiet
<1>4. ASSUME Acknowledge(w) PROVE Goal
    <2>1. Set(w, Idle) /\ t.pc = "ack" /\ UNCHANGED <<usage, sends, mishaps>>
        BY <1>4 DEF Acknowledge
    <2>. QED  BY <1>3, <2>1 DEF Idle
<1>5. ASSUME StartTrigger(w) \/ EnrollOne(w) \/ CommitTrigger(w) PROVE Goal
    <2>1. /\ UNCHANGED <<usage, sends>> /\ mishaps' \in {mishaps, mishaps + 1}
          /\ t.pc \in {"idle", "enroll"}
        <3>1. CASE StartTrigger(w)
            <4>1. UNCHANGED <<usage, sends>> /\ \E j \in JobIds : Take(w, j)
                BY <3>1 DEF StartTrigger
            <4>. QED  BY <4>1 DEF Take, Fault, Idle
        <3>2. CASE EnrollOne(w)
            BY <3>2 DEF EnrollOne, Insert
        <3>3. CASE CommitTrigger(w)
            BY <3>3 DEF CommitTrigger
        <3>. QED  BY <1>5, <3>1, <3>2, <3>3
    <2>2. PICK r : Set(w, r) /\ r.pc \in {"enroll", "ack"}
        <3>1. ASSUME NEW j, NEW todo, NEW made, Set(w, TriggerTxn(j, todo, made))
              PROVE  \E r : Set(w, r) /\ r.pc \in {"enroll", "ack"}
            <4>1. TriggerTxn(j, todo, made).pc = "enroll"
                BY DEF TriggerTxn
            <4>. QED  BY <3>1, <4>1
        <3>2. CASE StartTrigger(w)
            BY <3>1, <3>2 DEF StartTrigger
        <3>3. CASE EnrollOne(w)
            BY <3>1, <3>3 DEF EnrollOne
        <3>4. CASE CommitTrigger(w)
            <4>1. Set(w, Ack(t.job)) /\ Ack(t.job).pc = "ack"
                BY <3>4 DEF CommitTrigger, Ack
            <4>. QED  BY <4>1
        <3>. QED  BY <1>5, <3>2, <3>3, <3>4
    <2>. QED  BY <1>3, <2>1, <2>2
<1>6. ASSUME StartStep(w) PROVE Goal
    <2>1. PICK j \in JobIds, e \in Rows :
              /\ Take(w, j)
              /\ Reads(w, j, e) \/ Passes(w, j, e)
        BY <1>6, StartForms
    <2>2. /\ UNCHANGED <<usage, sends>> /\ mishaps' \in {mishaps, mishaps + 1}
          /\ t.pc = "idle"
        BY <1>6, <2>1 DEF StartStep, Take, Fault, Idle
    <2>3. PICK r : Set(w, r) /\ (r = Reading(j, e) \/ r = Ack(j))
        BY <2>1 DEF Reads, Passes
    <2>4. \/ r.pc \notin {"usage", "publish", "commit"}
          \/ r.idx >= Len(r.list)
        <3>1. CASE r = Ack(j)
            BY <3>1 DEF Ack
        <3>2. CASE r = Reading(j, e)
            <4>1. PICK i \in Nat, list \in Seq(Steps) :
                      i = enrollments[e].idx /\ list = steps[enrollments[e].seq]
                BY StateFacts DEF TypeOK, Enrollment
            <4>2. r = StepTxn(IF i < Len(list) THEN "run" ELSE "commit",
                              j, i, list, NoUsage)
                BY <3>2, <4>1 DEF Reading
            <4>3. Len(list) \in Nat
                BY LenProperties
            <4>. QED  BY <4>1, <4>2, <4>3 DEF StepTxn
        <3>. QED  BY <2>3, <3>1, <3>2
    <2>. QED  BY <1>3, <2>2, <2>3, <2>4
<1>7. ASSUME RunStep(w) PROVE Goal
    <2>1. /\ t.pc = "run" /\ UNCHANGED <<usage, mishaps>>
          /\ sends' = IF Counts(w) THEN Delivered(Over(w)) ELSE sends
          /\ Set(w, StepTxn(IF Counts(w) THEN "usage" ELSE "publish",
                            t.job, t.idx, t.list, usage))
        BY <1>7 DEF RunStep
    <2>2. PICK r : r = StepTxn(IF Counts(w) THEN "usage" ELSE "publish",
                               t.job, t.idx, t.list, usage)
        OBVIOUS
    <2>3. worker'[w] = r /\ r.idx = t.idx /\ r.list = t.list /\ r.usage = usage
          /\ r.pc \in {"usage", "publish"}
        BY <2>1, <2>2, UncountedOf DEF StepTxn
    <2>4. (Past(w)' <=> Past(w)) /\ Over(w)' = Over(w) /\ ~Past(w)
        BY <2>1, <2>3 DEF Past, Over, StepOf, TypeOK
    <2>5. ~Uncounted(w, c) /\ (Uncounted(w, c)' <=> Over(w) = c)
        BY <2>1, <2>3, <2>4 DEF Uncounted
    <2>6. CASE Over(w) = c
        <3>1. sends' = Delivered(c)
            BY <2>1, <2>6 DEF Counts
        <3>. QED  BY <2>1, <2>3, <2>5, <2>6, <3>1, SendsMove
                  DEF CountsMove, CallMade, SentStays
    <2>7. CASE Over(w) # c
        <3>1. TriedStays(c)
            BY <2>1, <2>7, SendsMove DEF Counts, TriedStays, Tried
        <3>. QED  BY <2>1, <2>5, <2>7, <3>1 DEF CountsMove, CountsStay, SentStays
    <2>. QED  BY <2>6, <2>7
<1>8. ASSUME StageUsage(w) \/ PublishNext(w) PROVE Goal
    <2>1. PICK pc : /\ pc \in {"publish", "commit"}
                    /\ Set(w, StepTxn(pc, t.job, t.idx, t.list, t.usage))
        BY <1>8 DEF StageUsage, PublishNext
    <2>2. t.pc \in {"usage", "publish"} /\ UNCHANGED <<usage, sends, mishaps>>
        BY <1>8 DEF StageUsage, PublishNext
    <2>3. PICK r : r = StepTxn(pc, t.job, t.idx, t.list, t.usage)
        OBVIOUS
    <2>4. worker'[w] = r /\ r.idx = t.idx /\ r.list = t.list
          /\ r.usage = t.usage /\ r.pc = pc
        BY <2>1, <2>3, UncountedOf DEF StepTxn
    <2>5. (Past(w)' <=> Past(w)) /\ Over(w)' = Over(w)
        BY <2>4 DEF Past, Over, StepOf
    <2>6. Uncounted(w, c)' <=> Uncounted(w, c)
        BY <2>1, <2>2, <2>4, <2>5 DEF Uncounted
    <2>. QED  BY <2>2, <2>4, <2>6, Quiet
<1>9. ASSUME CommitStep(w) PROVE Goal
    <2>1. t.pc = "commit" /\ Set(w, Ack(t.job)) /\ UNCHANGED mishaps
        BY <1>9 DEF CommitStep
    <2>2. ~Uncounted(w, c)'
        BY <2>1, UncountedOf DEF Ack
    <2>3. Uncounted(w, c) <=> ~Past(w) /\ Over(w) = c
        BY <2>1 DEF Uncounted
    <2>4. CASE Past(w) \/ ~Counts(w)
        <3>1. ~Uncounted(w, c) /\ UNCHANGED <<usage, sends>>
            BY <1>9, <2>3, <2>4 DEF CommitStep, Counts
        <3>. QED  BY <2>1, <2>2, <3>1, Quiet
    <2>5. CASE ~Past(w) /\ Counts(w)
        <3>1. PICK d \in Channels : d = Over(w)
            BY <2>5 DEF Counts
        <3>2. /\ usage' = Incremented(t.usage, d)
              /\ sends' = IF \E v \in Workers \ {w} : Uncounted(v, d)
                          THEN [sends EXCEPT ![d].overlaps = @ + 1] ELSE sends
            BY <1>9, <2>5, <3>1 DEF CommitStep
        <3>3. usage'.sent[c] = IF c = d THEN t.usage.sent[d] + 1 ELSE usage.sent[c]
            <4>1. t.usage \in Usage /\ usage \in Usage
                BY <2>1, WorkerFacts DEF Running, TypeOK
            <4>. QED  BY <3>2, <4>1, UsageTyped
        <3>4. CASE c = d
            <4>1. /\ sends'[c].called + sends'[c].skipped = Tried(c)
                  /\ sends'[c].overlaps =
                         IF \E v \in Workers \ {w} : Uncounted(v, c)
                         THEN sends[c].overlaps + 1 ELSE sends[c].overlaps
                <5>1. CASE \E v \in Workers \ {w} : Uncounted(v, d)
                    BY <3>2, <3>4, <5>1, SendsMove
                <5>2. CASE ~\E v \in Workers \ {w} : Uncounted(v, d)
                    BY <3>2, <3>4, <5>2 DEF Tried
                <5>. QED  BY <5>1, <5>2
            <4>. QED  BY <2>1, <2>2, <2>3, <2>5, <3>1, <3>3, <3>4, <4>1
                      DEF CountsMove, CallCounted
        <3>5. CASE c # d
            <4>1. TriedStays(c)
                BY <3>2, <3>5, SendsMove DEF TriedStays, Tried
            <4>. QED  BY <2>1, <2>2, <2>3, <3>1, <3>3, <3>5, <4>1
                      DEF CountsMove, CountsStay, SentStays
        <3>. QED  BY <3>4, <3>5
    <2>. QED  BY <2>4, <2>5
<1>. HIDE DEF Goal
<1>10. Goal
    BY <1>1, <1>2, <1>4, <1>5, <1>6, <1>7, <1>8, <1>9, FailureForms
       DEF WorkerStep
<1>. QED  BY <1>10 DEF Goal

(* Who is running over a channel, after a step of worker w.                *)
LEMMA RunningFinite ==
    \A c : IsFiniteSet(RunningOver(c)) /\ Cardinality(RunningOver(c)) \in Nat
<1>1. \A c : RunningOver(c) \subseteq Workers
    BY DEF RunningOver
<1>. QED  BY <1>1, ConstantsOK, FS_Subset, FS_CardinalityType DEF ConstantsOK

LEMMA RunningFiniteNext ==
    (\A c : IsFiniteSet(RunningOver(c)) /\ Cardinality(RunningOver(c)) \in Nat)'
BY RunningFinite, PTL

LEMMA RunningMoves ==
    ASSUME NEW w \in Workers, NEW c,
           \A v \in Workers \ {w} : worker'[v] = worker[v]
    PROVE  /\ (Uncounted(w, c)' <=> Uncounted(w, c)) =>
                  RunningOver(c)' = RunningOver(c)
           /\ Uncounted(w, c) /\ ~Uncounted(w, c)' =>
                  /\ RunningOver(c)' = RunningOver(c) \ {w}
                  /\ Cardinality(RunningOver(c)') = Cardinality(RunningOver(c)) - 1
           /\ ~Uncounted(w, c) /\ Uncounted(w, c)' =>
                  /\ RunningOver(c)' = RunningOver(c) \cup {w}
                  /\ Cardinality(RunningOver(c)') = Cardinality(RunningOver(c)) + 1
<1>1. \A v \in Workers \ {w} : Uncounted(v, c)' <=> Uncounted(v, c)
    BY DEF Uncounted, Past, Over, StepOf
<1>2. (Uncounted(w, c)' <=> Uncounted(w, c)) => RunningOver(c)' = RunningOver(c)
    BY <1>1 DEF RunningOver
<1>3. ASSUME Uncounted(w, c), ~Uncounted(w, c)'
      PROVE  /\ RunningOver(c)' = RunningOver(c) \ {w}
             /\ Cardinality(RunningOver(c)') = Cardinality(RunningOver(c)) - 1
    <2>1. RunningOver(c)' = RunningOver(c) \ {w} /\ w \in RunningOver(c)
        BY <1>1, <1>3 DEF RunningOver
    <2>. QED  BY <2>1, RunningFinite, FS_RemoveElement
<1>4. ASSUME ~Uncounted(w, c), Uncounted(w, c)'
      PROVE  /\ RunningOver(c)' = RunningOver(c) \cup {w}
             /\ Cardinality(RunningOver(c)') = Cardinality(RunningOver(c)) + 1
    <2>1. RunningOver(c)' = RunningOver(c) \cup {w} /\ w \notin RunningOver(c)
        BY <1>1, <1>4 DEF RunningOver
    <2>. QED  BY <2>1, RunningFinite, FS_AddElement
<1>. QED  BY <1>2, <1>3, <1>4

LEMMA OthersStay ==
    ASSUME TypeOK, NEW w \in Workers,
           WorkerStep(w) \/ HandlerFails(w) \/ Crash(w)
    PROVE  \A v \in Workers \ {w} : worker'[v] = worker[v]
<1>1. \E r : Set(w, r)
    BY DEF WorkerStep, Acknowledge, StartTrigger, EnrollOne, EnrollRejected,
       CommitTrigger, StartStep, RunStep, StageUsage, UsageConflict, PublishNext,
       CommitStep, CommitStale, HandlerFails, Crash, Raise, Rollback
<1>. QED  BY <1>1, StateFacts DEF Set

(* The numbers: x is the count somebody will write on, n the deliveries    *)
(* under way.                                                              *)
LEMMA NumbersOfUsage ==
    ASSUME TypeOK, NEW c \in Channels
    PROVE  /\ usage.sent[c] \in Nat /\ mishaps \in Nat
           /\ Tried(c) \in Nat /\ sends[c].overlaps \in Nat
           /\ \A w \in RunningOver(c) : worker[w].usage.sent[c] \in Nat
<1>1. sends[c] \in Sends /\ usage \in Usage /\ mishaps \in Nat
    BY DEF TypeOK
<1>2. \A w \in RunningOver(c) : worker[w].usage \in Usage
    BY WorkerFacts DEF RunningOver, Uncounted, Running
<1>. QED  BY <1>1, <1>2 DEF Sends, Usage, Tried

LEMMA UsageInit == Init => UsageInv
<1>. SUFFICES ASSUME Init PROVE UsageInv
    OBVIOUS
<1>1. TypeOK
    BY TypeInit
<1>2. ASSUME NEW c \in Channels PROVE RowBalanced(c) /\ ReadsBalanced(c)
    <2>1. RunningOver(c) = {}
        BY DEF Init, Idle, RunningOver, Uncounted
    <2>2. /\ usage.sent[c] = 0 /\ mishaps = 0 /\ sends[c] = NoSends
        BY DEF Init, NoUsage
    <2>. QED  BY <2>1, <2>2, FS_EmptySet
              DEF RowBalanced, ReadsBalanced, Balanced, Tried, NoSends
<1>. QED  BY <1>1, <1>2 DEF UsageInv

(* A step of worker w keeps both balances.                                 *)
LEMMA BalanceKept ==
    ASSUME TypeOK, TypeOK', NEW w \in Workers, NEW c \in Channels,
           \A v \in Workers \ {w} : worker'[v] = worker[v],
           CountsMove(w, c), RowBalanced(c), ReadsBalanced(c)
    PROVE  (RowBalanced(c) /\ ReadsBalanced(c))'
<1> DEFINE running == RunningOver(c)
           n == Cardinality(running)
           x(v) == worker[v].usage.sent[c]
<1>1. n \in Nat /\ n' \in Nat
    BY RunningFinite, RunningFiniteNext
<1>2. /\ usage.sent[c] \in Nat /\ mishaps \in Nat
      /\ Tried(c) \in Nat /\ sends[c].overlaps \in Nat
      /\ \A v \in running : x(v) \in Nat
    BY NumbersOfUsage
<1>3. /\ Balanced(c, usage.sent[c], n)
      /\ \A v \in running : Balanced(c, x(v), n)
    BY DEF RowBalanced, ReadsBalanced
<1>4. SUFFICES /\ Balanced(c, usage.sent[c], n)'
               /\ \A v \in running' : Balanced(c, x(v), n)'
    BY DEF RowBalanced, ReadsBalanced
<1>5. Tried(c)' = sends'[c].called + sends'[c].skipped
    BY DEF Tried
<1>6. \A v \in running' : v \in Workers /\ (v # w => x(v)' = x(v))
    BY DEF RunningOver
<1>. HIDE DEF running, x
<1>. HIDE DEF n
<1>7. ASSUME CountsStay(w, c)
      PROVE  /\ Balanced(c, usage.sent[c], n)'
             /\ \A v \in running' : Balanced(c, x(v), n)'
    <2>1. running' = running /\ n' = n
        BY <1>7, RunningMoves DEF CountsStay, running, n
    <2>2. \A v \in running' : v \in running /\ x(v)' = x(v)
        BY <1>6, <1>7, <2>1 DEF CountsStay, running, x, RunningOver
    <2>3. /\ usage'.sent[c] = usage.sent[c] /\ Tried(c)' = Tried(c)
          /\ sends'[c].overlaps = sends[c].overlaps
          /\ mishaps' \in {mishaps, mishaps + 1}
        BY <1>5, <1>7 DEF CountsStay, SentStays, TriedStays
    <2>. QED  BY <1>1, <1>2, <1>3, <2>1, <2>2, <2>3 DEF Balanced
<1>8. ASSUME CountLost(w, c)
      PROVE  /\ Balanced(c, usage.sent[c], n)'
             /\ \A v \in running' : Balanced(c, x(v), n)'
    <2>1. running' = running \ {w} /\ n' = n - 1
        BY <1>8, RunningMoves DEF CountLost, running, n
    <2>2. \A v \in running' : v \in running /\ x(v)' = x(v)
        BY <1>6, <2>1
    <2>3. /\ usage'.sent[c] = usage.sent[c] /\ Tried(c)' = Tried(c)
          /\ sends'[c].overlaps = sends[c].overlaps /\ mishaps' = mishaps + 1
        BY <1>5, <1>8 DEF CountLost, SentStays, TriedStays
    <2>. QED  BY <1>1, <1>2, <1>3, <2>1, <2>2, <2>3 DEF Balanced
<1>9. ASSUME CallMade(w, c)
      PROVE  /\ Balanced(c, usage.sent[c], n)'
             /\ \A v \in running' : Balanced(c, x(v), n)'
    <2>1. running' = running \cup {w} /\ n' = n + 1
        BY <1>9, RunningMoves DEF CallMade, running, n
    <2>2. \A v \in running' :
              (v \in running /\ x(v)' = x(v)) \/ (v = w /\ x(v)' = usage.sent[c])
        <3>1. x(w)' = usage.sent[c]
            BY <1>9 DEF CallMade, x
        <3>2. ASSUME NEW v \in running', v # w PROVE v \in running /\ x(v)' = x(v)
            BY <1>6, <2>1, <3>2
        <3>. QED  BY <3>1, <3>2
    <2>3. /\ usage'.sent[c] = usage.sent[c] /\ Tried(c)' = Tried(c) + 1
          /\ sends'[c].overlaps = sends[c].overlaps /\ mishaps' = mishaps
        BY <1>5, <1>9 DEF CallMade, SentStays
    <2>. QED  BY <1>1, <1>2, <1>3, <2>1, <2>2, <2>3 DEF Balanced
<1>10. ASSUME CallCounted(w, c)
       PROVE  /\ Balanced(c, usage.sent[c], n)'
              /\ \A v \in running' : Balanced(c, x(v), n)'
    <2>1. running' = running \ {w} /\ n' = n - 1 /\ w \in running
        BY <1>10, RunningMoves DEF CallCounted, running, n, RunningOver
    <2>2. /\ usage'.sent[c] = x(w) + 1 /\ Tried(c)' = Tried(c)
          /\ mishaps' = mishaps
          /\ sends'[c].overlaps \in {sends[c].overlaps, sends[c].overlaps + 1}
        BY <1>5, <1>10 DEF CallCounted, x
    <2>3. Balanced(c, usage.sent[c], n)'
        BY <1>1, <1>2, <1>3, <2>1, <2>2 DEF Balanced
    <2>4. ASSUME NEW v \in running' PROVE Balanced(c, x(v), n)'
        <3>1. v \in running /\ v # w /\ x(v)' = x(v)
            BY <1>6, <2>1, <2>4
        <3>2. v \in Workers \ {w} /\ Uncounted(v, c)
            BY <3>1 DEF running, RunningOver
        <3>3. sends'[c].overlaps = sends[c].overlaps + 1
            BY <1>10, <3>2 DEF CallCounted
        <3>. QED  BY <1>1, <1>2, <1>3, <2>1, <2>2, <3>1, <3>3 DEF Balanced
    <2>. QED  BY <2>3, <2>4
<1>. QED  BY <1>7, <1>8, <1>9, <1>10 DEF CountsMove

LEMMA UsageStep == UsageInv /\ [Next]_vars => UsageInv'
<1>. SUFFICES ASSUME UsageInv, [Next]_vars PROVE UsageInv'
    OBVIOUS
<1>1. TypeOK /\ TypeOK'
    BY TypeStep DEF UsageInv
<1>2. ASSUME NEW c \in Channels PROVE (RowBalanced(c) /\ ReadsBalanced(c))'
    <2>1. RowBalanced(c) /\ ReadsBalanced(c)
        BY DEF UsageInv
    <2>2. ASSUME NEW w \in Workers, WorkerStep(w) \/ HandlerFails(w) \/ Crash(w)
          PROVE  (RowBalanced(c) /\ ReadsBalanced(c))'
        <3>1. CountsMove(w, c)
            BY <1>1, <2>2, CountsMoved
        <3>2. \A v \in Workers \ {w} : worker'[v] = worker[v]
            BY <1>1, <2>2, OthersStay
        <3>. QED  BY <1>1, <2>1, <3>1, <3>2, BalanceKept
    <2>3. CASE ApiStep \/ UNCHANGED vars
        <3>1. UNCHANGED <<usage, sends, worker>>
              /\ mishaps' \in {mishaps, mishaps + 1}
            BY <2>3 DEF ApiStep, vars, EnrollCommit, Insert, EnrollPublish,
               EnrollDies, Fault, PublishTrigger, DeleteLead, DeleteSequence,
               EditSteps, Replay
        <3>2. RunningOver(c)' = RunningOver(c)
            BY <3>1 DEF RunningOver, Uncounted, Past, Over, StepOf
        <3>3. PICK n \in Nat : n = Cardinality(RunningOver(c))
            BY RunningFinite
        <3>4. Tried(c)' = Tried(c) /\ n = Cardinality(RunningOver(c)')
            BY <3>1, <3>2, <3>3 DEF Tried
        <3>5. ASSUME NEW x \in Nat, Balanced(c, x, n)
              PROVE  /\ x + n <= Tried(c)
                     /\ Tried(c) <= x + n + mishaps' + sends'[c].overlaps
            BY <1>1, <3>1, <3>5, NumbersOfUsage DEF Balanced
        <3>6. RowBalanced(c)'
            BY <1>1, <2>1, <3>1, <3>3, <3>4, <3>5, NumbersOfUsage
               DEF RowBalanced, Balanced
        <3>7. ReadsBalanced(c)'
            BY <1>1, <2>1, <3>1, <3>2, <3>3, <3>4, <3>5, NumbersOfUsage
               DEF ReadsBalanced, Balanced
        <3>. QED  BY <3>6, <3>7
    <2>. QED  BY <2>2, <2>3 DEF Next
<1>. QED  BY <1>1, <1>2 DEF UsageInv

(* With any number of workers, what usage_records counts of a channel is   *)
(* no more than what was tried over it, and what it misses besides the     *)
(* deliveries under way is one at most for each mishap and each commit     *)
(* beside another delivery (UsageTrackingService.increment).               *)
THEOREM CallsAreCounted == Spec => []UsageMatchesCalls
<1>1. UsageInv => UsageMatchesCalls
    <2>. SUFFICES ASSUME UsageInv, NEW c \in Channels
                  PROVE  Balanced(c, usage.sent[c],
                                  Cardinality({w \in Workers : Uncounted(w, c)}))
        BY DEF UsageMatchesCalls, Balanced, Tried
    <2>. QED  BY DEF UsageInv, RowBalanced, RunningOver
<1>. QED  BY <1>1, UsageInit, UsageStep, PTL DEF Spec
=============================================================================
