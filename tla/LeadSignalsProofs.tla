------------------------- MODULE LeadSignalsProofs -------------------------
(***************************************************************************)
(* Proofs about MessageScoring and IntegrationSync as LeadSignals composes *)
(* them: for any workers, leads, sessions, messages and faults.            *)
(***************************************************************************)
EXTENDS LeadSignals, FiniteSetTheorems, SequenceTheorems, TLAPS

-----------------------------------------------------------------------------
(* Types, and the facts about rows and jobs that every other proof needs:  *)
(* messages and sessions have what they refer to, a message has one job    *)
(* at most, and the handler of a job is in a session of its message.       *)
Days     == 1..MaxDays
Models   == {ModelOf[c] : c \in Contents}
Analyses == UNION {Answers[c] : c \in Contents}

ScoreRow   == [fit : Int, engagement : Int, score : Int]
MessageRow == [session : Sessions, content : Contents,
               note : Analyses \cup Annotations \cup {None}]
Event      == [message : Nat, count : Nat, scores : ScoreRow]
UsageRow   == [row : BOOLEAN, sent : Nat, tokens : Nat, opened : Nat]
JobRow     == [message : 1..MaxCreated, receives : Nat,
               state : {"queued", "dead", "deleted"}]

Jobs == Nat \ {0}
CallRec     == [pc : {"call"}, job : Jobs, read : MessageRow]
AnalyzedRec == [pc : {"analyzed"}, job : Jobs, read : MessageRow,
                answer : Analyses, dirty : BOOLEAN]
UsageRec    == [pc : {"usage"}, job : Jobs, read : MessageRow,
                answer : Analyses, dirty : BOOLEAN, day : Days, usage : UsageRow]
CommitRec   == [pc : {"commit"}, job : Jobs, answer : Analyses, dirty : BOOLEAN,
                day : Days, usage : UsageRow, lead : Leads \cup {None},
                before : ScoreRow, count : Nat, after : ScoreRow]
PublishRec  == [pc : {"publish"}, job : Jobs, lead : Leads]
AckRec      == [pc : {"ack"}, job : Jobs]

WorkerStates == {Idle} \cup CallRec \cup AnalyzedRec \cup UsageRec
                  \cup CommitRec \cup PublishRec \cup AckRec

CallerStates ==
    {Quiet}
    \cup [pc : {"session"}, session : Sessions, lead : Leads \cup {None},
          day : Days, usage : UsageRow]
    \cup [pc : {"message"}, message : 1..MaxCreated, session : Sessions]
    \cup [pc : {"patched"}, lead : Leads,
          event : {"lead_updated", "timeline_created"}]

RowTypes ==
    /\ DOMAIN lead \subseteq Leads /\ lead \in [DOMAIN lead -> ScoreRow]
    /\ DOMAIN session \subseteq Sessions
    /\ session \in [DOMAIN session -> DOMAIN lead \cup {None}]
    /\ DOMAIN message \subseteq 1..created
    /\ message \in [DOMAIN message -> MessageRow]
    /\ \A m \in DOMAIN message : message[m].session \in DOMAIN session
    /\ timeline \in [Leads -> {None} \cup Event]

CountTypes ==
    /\ usage \in [Days -> UsageRow] /\ day \in Days
    /\ created \in 0..MaxCreated
    /\ calls \in [1..MaxCreated -> Nat] /\ billed \in [1..MaxCreated -> Nat]
    /\ runs \in [Days -> Nat]
    /\ edits \in Nat /\ mishaps \in Nat

CacheTypes ==
    /\ DOMAIN cache \subseteq (1..MaxCreated) \X Models
    /\ cache \in [DOMAIN cache -> Analyses]

JobTypes ==
    /\ aijobs \in Seq(JobRow)
    /\ \A j \in JobIds : aijobs[j].message <= created
    /\ \A i, j \in JobIds : aijobs[i].message = aijobs[j].message => i = j

WorkerTypes ==
    /\ worker \in [Workers -> WorkerStates]
    /\ \A w \in Workers : worker[w].pc # "idle" => worker[w].job \in JobIds

CallerTypes ==
    /\ caller \in CallerStates
    /\ caller.pc = "message" =>
           /\ caller.message <= created
           /\ \A j \in JobIds : aijobs[j].message # caller.message
           /\ caller.message \in DOMAIN message =>
                  message[caller.message].session = caller.session

HistoryTypes ==
    /\ handmade \subseteq Leads /\ straddled \subseteq Leads
    /\ unscored \subseteq Sessions /\ uprooted \subseteq Sessions
    /\ retouched \subseteq 1..MaxCreated

Types == /\ RowTypes /\ CountTypes /\ CacheTypes /\ JobTypes /\ WorkerTypes
         /\ CallerTypes /\ HistoryTypes
-----------------------------------------------------------------------------
(* Helpers: scores are scores, messages can be counted, jobs keep what     *)
(* they are about.                                                         *)
LEMMA BoundIsInt ==
    ASSUME NEW v \in Int
    PROVE  Bound(v) \in Int
  BY DEF Bound

LEMMA AnswersAreAnalyses ==
    ASSUME NEW c \in Contents, NEW a \in Answers[c]
    PROVE  a \in Analyses /\ a # None /\ ModelOf[c] \in Models
  BY ConstantsOK DEF Analyses, Models

LEMMA AnalysesAreSized ==
    ASSUME NEW a \in Analyses
    PROVE  a # None /\ a.size \in Nat /\ a.tokens \in Nat
  BY ConstantsOK DEF Analyses

LEMMA ScoresAreScores ==
    ASSUME NEW a \in Analyses, NEW n \in Nat
    PROVE  Scores(a, n) \in ScoreRow
<1> DEFINE i == IntentScore(a)
           f == FitScore(a)
           e == EngagementScore(a, n)
<1>1. f \in Int
  <2>1. (CASE a.size >= 200 -> 25 [] a.size >= 50 -> 20
           [] a.size >= 10 -> 10 [] OTHER -> 0) \in Int
    BY AnalysesAreSized
  <2> QED  BY <2>1, BoundIsInt DEF FitScore
<1>2. e \in Int
  <2>1. (IF n * 7 < 35 THEN n * 7 ELSE 35) \in Int
    OBVIOUS
  <2>2. (CASE a.urgency = "high" -> 20 [] a.urgency = "medium" -> 10
           [] OTHER -> 0) \in Int
    OBVIOUS
  <2>3. (CASE a.sentiment = "positive" -> 8 [] a.sentiment = "negative" -> -5
           [] OTHER -> 0) \in Int
    OBVIOUS
  <2> QED  BY <2>1, <2>2, <2>3, BoundIsInt DEF EngagementScore
<1>3. i \in Int
  BY DEF IntentScore
<1> HIDE DEF i, f, e
<1>4. Bound((4 * f + 3 * e + 3 * i) \div 10) \in Int
  BY <1>1, <1>2, <1>3, BoundIsInt
<1> QED  BY <1>1, <1>2, <1>4 DEF Scores, ScoreRow, i, f, e

LEMMA MessagesCanBeCounted ==
    ASSUME Types, NEW s
    PROVE  /\ IsFiniteSet(MessagesOf(s)) /\ MessagesOf(s) \subseteq DOMAIN message
           /\ Cardinality(MessagesOf(s)) \in Nat
<1>1. created \in Nat
  BY ConstantsOK DEF Types, CountTypes
<1>2. IsFiniteSet(1..created)
  BY <1>1, FS_Interval
<1>3. MessagesOf(s) \subseteq 1..created /\ MessagesOf(s) \subseteq DOMAIN message
  BY DEF Types, RowTypes, MessagesOf
<1> QED  BY <1>2, <1>3, FS_Subset, FS_CardinalityType

(* The queue has the same jobs as before, each about its message.          *)
JobsStay ==
    /\ aijobs' \in Seq(JobRow) /\ Len(aijobs') = Len(aijobs)
    /\ \A j \in JobIds : aijobs'[j].message = aijobs[j].message

LEMMA JobChangesStay ==
    ASSUME Types, NEW j \in JobIds,
           \/ aijobs' = aijobs
           \/ aijobs' = [aijobs EXCEPT ![j].receives = @ + 1]
           \/ \E x \in {"dead", "deleted"} : aijobs' = [aijobs EXCEPT ![j].state = x]
    PROVE  JobsStay
<1>1. aijobs \in Seq(JobRow)
  BY DEF Types, JobTypes
<1>2. \A i \in JobIds : aijobs[i] \in JobRow
  BY <1>1 DEF JobIds
<1>3. CASE aijobs' = aijobs
  BY <1>1, <1>3 DEF JobsStay
<1>4. CASE aijobs' # aijobs
  <2>1. PICK r : /\ r \in JobRow /\ r.message = aijobs[j].message
                 /\ aijobs' = [aijobs EXCEPT ![j] = r]
    <3>1. CASE aijobs' = [aijobs EXCEPT ![j].receives = @ + 1]
      <4>1. aijobs' = [aijobs EXCEPT ![j] = [aijobs[j] EXCEPT !.receives = @ + 1]]
        BY <3>1
      <4>2. [aijobs[j] EXCEPT !.receives = @ + 1] \in JobRow
            /\ [aijobs[j] EXCEPT !.receives = @ + 1].message = aijobs[j].message
        BY <1>2 DEF JobRow
      <4> QED  BY <4>1, <4>2
    <3>2. ASSUME NEW x \in {"dead", "deleted"}, aijobs' = [aijobs EXCEPT ![j].state = x]
          PROVE  \E r : /\ r \in JobRow /\ r.message = aijobs[j].message
                        /\ aijobs' = [aijobs EXCEPT ![j] = r]
      <4>1. aijobs' = [aijobs EXCEPT ![j] = [aijobs[j] EXCEPT !.state = x]]
        BY <3>2
      <4>2. [aijobs[j] EXCEPT !.state = x] \in JobRow
            /\ [aijobs[j] EXCEPT !.state = x].message = aijobs[j].message
        BY <1>2 DEF JobRow
      <4> QED  BY <4>1, <4>2
    <3> QED  BY <1>4, <3>1, <3>2
  <2> QED  BY <1>1, <2>1 DEF JobsStay, JobIds
<1> QED  BY <1>3, <1>4

-----------------------------------------------------------------------------
(* What a step of a handler does to its worker, and what it leaves alone.  *)
Moves(w, states) ==
    \E r \in states : /\ r.pc # "idle" => r.job \in JobIds
                      /\ worker' = [worker EXCEPT ![w] = r]

Outside == <<session, caller, day, created, uprooted, retouched, edits>>
Results == <<lead, message, timeline, usage, billed, runs, handmade, straddled>>

LEMMA HandlerFrame ==
    ASSUME Types, NEW w \in Workers, Moves(w, WorkerStates), JobsStay,
           UNCHANGED <<Outside, Results, unscored>>,
           CacheTypes', calls' \in [1..MaxCreated -> Nat], mishaps' \in Nat
    PROVE  Types'
<1>1. RowTypes' /\ HistoryTypes'
  BY DEF Types, RowTypes, HistoryTypes, Outside, Results
<1>2. CountTypes'
  BY DEF Types, CountTypes, Outside, Results
<1>3. JobTypes'
  BY DEF Types, JobTypes, JobsStay, JobIds, Outside
<1>4. WorkerTypes'
  BY DEF Types, WorkerTypes, Moves, JobsStay, JobIds
<1>5. CallerTypes'
  BY DEF Types, CallerTypes, JobsStay, JobIds, Outside, Results
<1> QED  BY <1>1, <1>2, <1>3, <1>4, <1>5 DEF Types

LEMMA WorkerIsTyped ==
    ASSUME Types, NEW w \in Workers
    PROVE  /\ worker[w] \in WorkerStates
           /\ worker[w].pc = "idle" => worker[w] = Idle
           /\ worker[w].pc = "call" => worker[w] \in CallRec
           /\ worker[w].pc = "analyzed" => worker[w] \in AnalyzedRec
           /\ worker[w].pc = "usage" => worker[w] \in UsageRec
           /\ worker[w].pc = "commit" => worker[w] \in CommitRec
           /\ worker[w].pc = "publish" => worker[w] \in PublishRec
           /\ worker[w].pc = "ack" => worker[w] \in AckRec
           /\ worker[w].pc # "idle" => /\ worker[w].job \in JobIds
                                       /\ Target(w) \in 1..MaxCreated
                                       /\ Target(w) <= created
<1>1. worker[w] \in WorkerStates /\ (worker[w].pc # "idle" => worker[w].job \in JobIds)
  BY DEF Types, WorkerTypes
<1>2. \A j \in JobIds : aijobs[j] \in JobRow /\ aijobs[j].message <= created
  BY DEF Types, JobTypes, JobIds
<1>3. worker[w].pc # "idle" => /\ worker[w].job \in JobIds
                               /\ Target(w) \in 1..MaxCreated
                               /\ Target(w) <= created
  BY <1>1, <1>2 DEF Target, JobRow
<1> QED
  BY <1>1, <1>3 DEF WorkerStates, Idle, CallRec, AnalyzedRec, UsageRec, CommitRec,
                    PublishRec, AckRec

LEMMA JobsAreTyped ==
    ASSUME Types, NEW j \in JobIds
    PROVE  /\ aijobs[j] \in JobRow /\ aijobs[j].message \in 1..MaxCreated
           /\ aijobs[j].message \in Nat /\ aijobs[j].message <= created
<1>1. aijobs[j] \in JobRow /\ aijobs[j].message <= created
  BY DEF Types, JobTypes, JobIds
<1>2. aijobs[j].message \in 1..MaxCreated /\ MaxCreated \in Nat
  BY <1>1, ConstantsOK DEF JobRow
<1> QED  BY <1>1, <1>2

LEMMA FaultIsCounted ==
    ASSUME Types
    PROVE  /\ Fault => mishaps' \in Nat /\ mishaps' = mishaps + 1
           /\ Extra => edits' \in Nat
           /\ mishaps \in Nat /\ edits \in Nat
  BY DEF Fault, Extra, Types, CountTypes

LEMMA MessageIsTyped ==
    ASSUME Types, NEW m \in DOMAIN message
    PROVE  /\ message[m] \in MessageRow /\ m \in 1..MaxCreated
           /\ ModelOf[message[m].content] \in Models
<1>1. created \in 0..MaxCreated /\ m \in 1..created
  BY DEF Types, RowTypes, CountTypes
<1>2. message[m] \in MessageRow
  BY DEF Types, RowTypes
<1>3. message[m].content \in Contents
  BY <1>2 DEF MessageRow
<1> QED  BY <1>1, <1>2, <1>3, ConstantsOK DEF Models

LEMMA BeginTyped ==
    ASSUME Types, NEW w \in Workers, NEW j \in JobIds, Begin(w, j)
    PROVE  Types'
<1>1. Receive(w, j)
  BY DEF Begin, FindsNoMessage, CacheHit, CacheMiss
<1>2. UNCHANGED <<Outside, Results, unscored>> /\ calls' = calls /\ cache' = cache
  BY <1>1 DEF Receive, WorkerOnly, Outside, Results, rows
<1>3. JobsStay
  BY <1>1, JobChangesStay DEF Receive
<1>4. mishaps' \in Nat
  BY FaultIsCounted DEF Begin, FindsNoMessage, CacheHit, CacheMiss, Timely
<1>5. j \in Jobs
  BY DEF JobIds, Jobs, Types, JobTypes
<1>6. Moves(w, AckRec \cup CallRec \cup AnalyzedRec)
  <2>1. CASE FindsNoMessage(w, j)
    <3>1. [pc |-> "ack", job |-> j] \in AckRec
      BY <1>5 DEF AckRec
    <3> QED  BY <2>1, <3>1 DEF FindsNoMessage, Set, Moves
  <2>2. CASE CacheHit(w, j)
    <3> DEFINE m   == aijobs[j].message
               key == CacheKey(m, message[m])
    <3>1. m \in DOMAIN message /\ key \in DOMAIN cache
          /\ Analyzed(w, j, message[m], cache[key])
      BY <2>2 DEF CacheHit
    <3>2. message[m] \in MessageRow /\ cache[key] \in Analyses
      BY <3>1, MessageIsTyped DEF Types, CacheTypes
    <3> HIDE DEF key
    <3> DEFINE r == [pc |-> "analyzed", job |-> j, read |-> message[m],
                     answer |-> cache[key], dirty |-> cache[key] # message[m].note]
    <3>3. r \in AnalyzedRec
      BY <3>2, <1>5 DEF AnalyzedRec
    <3> QED  BY <3>1, <3>3 DEF Analyzed, Set, Moves
  <2>3. CASE CacheMiss(w, j)
    <3> DEFINE m == aijobs[j].message
    <3>1. m \in DOMAIN message
          /\ Set(w, [pc |-> "call", job |-> j, read |-> message[m]])
      BY <2>3 DEF CacheMiss
    <3>2. [pc |-> "call", job |-> j, read |-> message[m]] \in CallRec
      BY <3>1, <1>5, MessageIsTyped DEF CallRec
    <3> QED  BY <3>1, <3>2 DEF Set, Moves
  <2> QED  BY <2>1, <2>2, <2>3 DEF Begin
<1>7. Moves(w, WorkerStates)
  BY <1>6 DEF Moves, WorkerStates
<1>8. CacheTypes' /\ calls' \in [1..MaxCreated -> Nat]
  BY <1>2 DEF Types, CacheTypes, CountTypes
<1> QED  BY <1>2, <1>3, <1>4, <1>7, <1>8, HandlerFrame

LEMMA LetGoTyped ==
    ASSUME Types, NEW w \in Workers, worker[w].pc # "idle", mishaps' \in Nat,
           \/ Raise(w)
           \/ Drop(w) /\ (Deleted(worker[w].job) \/ UNCHANGED aijobs)
    PROVE  /\ Types' /\ JobsStay /\ UNCHANGED <<Outside, Results, unscored, calls, cache>>
           /\ worker' = [worker EXCEPT ![w] = Idle]
<1>1. worker' = [worker EXCEPT ![w] = Idle]
      /\ UNCHANGED <<Outside, Results, unscored, calls, cache>>
  BY DEF Raise, Drop, Set, WorkerOnly, Outside, Results, rows
<1>2. Moves(w, WorkerStates)
  BY <1>1 DEF Moves, WorkerStates, Idle
<1>3. worker[w].job \in JobIds
  BY WorkerIsTyped
<1>4. \/ aijobs' = aijobs
      \/ \E x \in {"dead", "deleted"} :
             aijobs' = [aijobs EXCEPT ![worker[w].job].state = x]
  BY DEF Raise, Drop, Deleted
<1>5. JobsStay
  BY <1>3, <1>4, JobChangesStay
<1>6. CacheTypes' /\ calls' \in [1..MaxCreated -> Nat]
  BY <1>1 DEF Types, CacheTypes, CountTypes
<1> QED  BY <1>1, <1>2, <1>5, <1>6, HandlerFrame

LEMMA AnalyzeTyped ==
    ASSUME Types, NEW w \in Workers, Analyze(w)
    PROVE  /\ Types' /\ JobsStay
           /\ \E a \in Answers[worker[w].read.content] :
                 LET r == [pc |-> "analyzed", job |-> worker[w].job,
                           read |-> worker[w].read, answer |-> a,
                           dirty |-> a # worker[w].read.note]
                 IN  r \in AnalyzedRec /\ worker' = [worker EXCEPT ![w] = r]
<1> DEFINE m   == Target(w)
           row == worker[w].read
           key == CacheKey(m, row)
<1>1. worker[w].pc = "call" /\ worker[w] \in CallRec
  BY WorkerIsTyped DEF Analyze
<1>2. row \in MessageRow /\ row.content \in Contents /\ worker[w].job \in Jobs
  BY <1>1 DEF CallRec, MessageRow
<1>3. m \in 1..MaxCreated /\ worker[w].job \in JobIds
  BY <1>1, WorkerIsTyped
<1>4. key \in (1..MaxCreated) \X Models
  BY <1>2, <1>3, ConstantsOK DEF CacheKey, Models
<1>5. PICK a : /\ a \in Answers[row.content]
               /\ Analyzed(w, worker[w].job, row, a)
               /\ \/ cache' = Cached(key, a) /\ UNCHANGED mishaps
                  \/ UNCHANGED cache /\ Fault
  BY DEF Analyze
<1>6. a \in Analyses
  BY <1>2, <1>5, AnswersAreAnalyses
<1> DEFINE r == [pc |-> "analyzed", job |-> worker[w].job, read |-> row,
                 answer |-> a, dirty |-> a # row.note]
<1>7. r \in AnalyzedRec
  BY <1>2, <1>6 DEF AnalyzedRec
<1>8. worker' = [worker EXCEPT ![w] = r]
  BY <1>5 DEF Analyzed, Set
<1>9. Moves(w, WorkerStates)
  BY <1>7, <1>8, <1>3 DEF Moves, WorkerStates
<1>10. CacheTypes'
  <2>1. CacheTypes
    BY DEF Types
  <2>2. CASE UNCHANGED cache
    BY <2>1, <2>2 DEF CacheTypes
  <2>3. CASE cache' = Cached(key, a)
    <3> HIDE DEF key
    <3> QED  BY <2>1, <2>3, <1>4, <1>6 DEF CacheTypes, Cached, With
  <2> QED  BY <1>5, <2>2, <2>3
<1>11. calls' \in [1..MaxCreated -> Nat]
  BY <1>3 DEF Analyze, Types, CountTypes
<1>12. mishaps' \in Nat
  BY <1>5, FaultIsCounted
<1>13. UNCHANGED <<Outside, Results, unscored>> /\ aijobs' = aijobs
  BY DEF Analyze, WorkerOnly, Outside, Results, rows
<1>14. JobsStay
  BY <1>3, <1>13, JobChangesStay
<1>15. Types'
  BY <1>9, <1>10, <1>11, <1>12, <1>13, <1>14, HandlerFrame
<1> QED  BY <1>5, <1>7, <1>8, <1>14, <1>15

LEMMA ReadUsageTyped ==
    ASSUME Types, NEW w \in Workers, ReadUsage(w)
    PROVE  Types' /\ JobsStay
<1> DEFINE t == worker[w]
           r == [pc |-> "usage", job |-> t.job, read |-> t.read,
                 answer |-> t.answer, dirty |-> t.dirty, day |-> day,
                 usage |-> usage[day]]
<1>1. t \in AnalyzedRec /\ t.job \in JobIds
  BY WorkerIsTyped DEF ReadUsage
<1>2. day \in Days /\ usage[day] \in UsageRow
  BY DEF Types, CountTypes
<1>3. r \in UsageRec
  BY <1>1, <1>2 DEF AnalyzedRec, UsageRec
<1>4. worker' = [worker EXCEPT ![w] = r]
  BY DEF ReadUsage, Set
<1>5. Moves(w, WorkerStates)
  BY <1>1, <1>3, <1>4 DEF Moves, WorkerStates
<1>6. UNCHANGED <<Outside, Results, unscored, aijobs, cache, calls, mishaps>>
  BY DEF ReadUsage, WorkerOnly, Outside, Results, rows
<1>7. JobsStay
  BY <1>1, <1>6, JobChangesStay
<1>8. CacheTypes' /\ calls' \in [1..MaxCreated -> Nat] /\ mishaps' \in Nat
  BY <1>6 DEF Types, CacheTypes, CountTypes
<1> QED  BY <1>5, <1>6, <1>7, <1>8, HandlerFrame

LEMMA ReadLeadTyped ==
    ASSUME Types, NEW w \in Workers, ReadLead(w)
    PROVE  Types' /\ JobsStay
<1> DEFINE t == worker[w]
           s == t.read.session
           l == IF s \in DOMAIN session THEN session[s] ELSE None
           n == Counted(s)
           r == [pc |-> "commit", job |-> t.job, answer |-> t.answer,
                 dirty |-> t.dirty, day |-> t.day, usage |-> t.usage, lead |-> l,
                 before |-> IF l = None THEN NoScores ELSE lead[l], count |-> n,
                 after |-> IF l = None THEN NoScores ELSE Scores(t.answer, n)]
<1>1. t \in UsageRec /\ t.job \in JobIds
  BY WorkerIsTyped DEF ReadLead
<1>2. l \in DOMAIN lead \cup {None} /\ DOMAIN lead \subseteq Leads
  BY DEF Types, RowTypes
<1>3. n \in Nat
  BY MessagesCanBeCounted DEF Counted
<1>4. NoScores \in ScoreRow
  BY DEF NoScores, ScoreRow
<1>5. (IF l = None THEN NoScores ELSE lead[l]) \in ScoreRow
  BY <1>2, <1>4 DEF Types, RowTypes
<1>6. t.answer \in Analyses
  BY <1>1 DEF UsageRec
<1>7. (IF l = None THEN NoScores ELSE Scores(t.answer, n)) \in ScoreRow
  BY <1>3, <1>4, <1>6, ScoresAreScores
<1>8. worker' = [worker EXCEPT ![w] = r]
  BY DEF ReadLead, Set
<1>9. r \in CommitRec
  <2> HIDE DEF l, n
  <2> QED  BY <1>1, <1>2, <1>3, <1>5, <1>7 DEF UsageRec, CommitRec
<1>10. Moves(w, WorkerStates)
  <2> HIDE DEF l, n
  <2> QED  BY <1>1, <1>8, <1>9 DEF Moves, WorkerStates
<1>11. UNCHANGED <<Outside, Results, unscored, aijobs, cache, calls, mishaps>>
  BY DEF ReadLead, WorkerOnly, Outside, Results, rows
<1>12. JobsStay
  BY <1>1, <1>11, JobChangesStay
<1>13. CacheTypes' /\ calls' \in [1..MaxCreated -> Nat] /\ mishaps' \in Nat
  BY <1>11 DEF Types, CacheTypes, CountTypes
<1> QED  BY <1>10, <1>11, <1>12, <1>13, HandlerFrame

LEMMA RescoredIsScored ==
    ASSUME NEW row \in ScoreRow, NEW t \in CommitRec
    PROVE  /\ Rescored(row, t) \in ScoreRow
           /\ row = t.before => Rescored(row, t) = t.after
<1> DEFINE Columns == {"fit", "engagement", "score"}
<1>1. \A r \in ScoreRow : /\ DOMAIN r = Columns /\ r.fit \in Int
                          /\ r.engagement \in Int /\ r.score \in Int
                          /\ r = [fit |-> r.fit, engagement |-> r.engagement,
                                  score |-> r.score]
  BY DEF ScoreRow
<1>2. t.after \in ScoreRow /\ t.before \in ScoreRow
  BY DEF CommitRec
<1> DEFINE New(c) == IF t.after[c] = t.before[c] THEN row[c] ELSE t.after[c]
<1>3. Rescored(row, t) = [c \in Columns |-> New(c)]
  BY <1>1 DEF Rescored
<1>4. \A f : [c \in Columns |-> f[c]]
                 = [fit |-> f["fit"], engagement |-> f["engagement"], score |-> f["score"]]
  OBVIOUS
<1>5. [c \in Columns |-> New(c)]
          = [fit |-> New("fit"), engagement |-> New("engagement"), score |-> New("score")]
  OBVIOUS
<1>6. New("fit") \in Int /\ New("engagement") \in Int /\ New("score") \in Int
  BY <1>1, <1>2
<1>7. row = t.before => /\ New("fit") = t.after.fit
                        /\ New("engagement") = t.after.engagement
                        /\ New("score") = t.after.score
  OBVIOUS
<1> HIDE DEF New
<1>8. Rescored(row, t) \in ScoreRow
  BY <1>3, <1>5, <1>6 DEF ScoreRow
<1> QED  BY <1>1, <1>2, <1>3, <1>5, <1>7, <1>8

LEMMA CommitTyped ==
    ASSUME Types, NEW w \in Workers, Commit(w)
    PROVE  Types' /\ JobsStay
<1> DEFINE t == worker[w]
           l == t.lead
           m == Target(w)
<1>1. t \in CommitRec /\ t.job \in JobIds /\ m \in 1..MaxCreated
  BY WorkerIsTyped DEF Commit
<1>2. /\ t.job \in Jobs /\ t.answer \in Analyses /\ t.day \in Days
      /\ t.usage \in UsageRow /\ l \in Leads \cup {None} /\ t.count \in Nat
      /\ t.after \in ScoreRow
  BY <1>1 DEF CommitRec
<1>3. l # None => l \in DOMAIN lead /\ l \in Leads
  BY <1>2 DEF Commit
<1>4. UNCHANGED <<session, cache, aijobs, calls, unscored, mishaps>>
      /\ UNCHANGED <<caller, day, created, uprooted, retouched, edits>>
  BY DEF Commit, WorkerOnly
<1>5. JobsStay
  BY <1>1, <1>4, JobChangesStay
<1>6. RowTypes'
  <2>1. DOMAIN lead' = DOMAIN lead /\ lead' \in [DOMAIN lead -> ScoreRow]
    <3>1. lead \in [DOMAIN lead -> ScoreRow]
      BY DEF Types, RowTypes
    <3>2. CASE l # None
      <4>1. Rescored(lead[l], t) \in ScoreRow
        BY <1>1, <1>3, <3>1, <3>2, RescoredIsScored
      <4>2. lead' = [lead EXCEPT ![l] = Rescored(lead[l], t)]
        BY <3>2 DEF Commit
      <4> QED  BY <3>1, <4>1, <4>2
    <3>3. CASE l = None
      BY <3>1, <3>3 DEF Commit
    <3> QED  BY <3>2, <3>3
  <2>2. DOMAIN message' = DOMAIN message /\ message' \in [DOMAIN message -> MessageRow]
        /\ \A x \in DOMAIN message : message'[x].session = message[x].session
    <3>1. message \in [DOMAIN message -> MessageRow]
      BY DEF Types, RowTypes
    <3>2. \/ message' = message
          \/ message' = [message EXCEPT ![m].note = t.answer]
      BY DEF Commit
    <3>3. CASE message' = [message EXCEPT ![m].note = t.answer]
      <4>1. message' = [message EXCEPT ![m] = [message[m] EXCEPT !.note = t.answer]]
        BY <3>3
      <4>2. m \in DOMAIN message =>
                /\ [message[m] EXCEPT !.note = t.answer] \in MessageRow
                /\ [message[m] EXCEPT !.note = t.answer].session = message[m].session
        BY <1>2, <3>1 DEF MessageRow
      <4> HIDE DEF m, t
      <4> QED  BY <3>1, <4>1, <4>2
    <3> QED  BY <3>1, <3>2, <3>3
  <2>3. timeline' \in [Leads -> {None} \cup Event]
    <3>1. timeline \in [Leads -> {None} \cup Event]
      BY DEF Types, RowTypes
    <3>2. [message |-> m, count |-> t.count, scores |-> t.after] \in Event
      BY <1>1, <1>2 DEF Event
    <3> QED  BY <3>1, <3>2 DEF Commit
  <2> QED  BY <2>1, <2>2, <2>3, <1>4 DEF Types, RowTypes
<1>7. CountTypes'
  <2>1. CountTypes
    BY DEF Types
  <2>2. usage' \in [Days -> UsageRow]
    <3>1. usage \in [Days -> UsageRow]
      BY <2>1 DEF CountTypes
    <3>2. usage[t.day] \in UsageRow
      BY <3>1, <1>2
    <3>3. t.answer.tokens \in Nat
      BY <1>2, AnalysesAreSized
    <3>4. CountedUsage(usage[t.day], t) \in UsageRow
      <4> DEFINE u == usage[t.day]
                 n == IF t.answer.tokens = 0 THEN u.tokens
                      ELSE t.usage.tokens + t.answer.tokens
      <4>1. n \in Nat /\ t.usage.sent + 1 \in Nat
        BY <1>2, <3>2, <3>3 DEF UsageRow
      <4>2. CountedUsage(u, t) = [u EXCEPT !.row = TRUE, !.sent = t.usage.sent + 1,
                                           !.tokens = n]
        BY DEF CountedUsage
      <4> HIDE DEF u, n, t
      <4>3. u \in UsageRow
        BY <3>2 DEF u
      <4>4. CountedUsage(u, t) \in UsageRow
        BY <4>1, <4>2, <4>3 DEF UsageRow
      <4> QED  BY <4>4 DEF u
    <3>5. usage' = [usage EXCEPT ![t.day] = CountedUsage(usage[t.day], t)]
      BY DEF Commit
    <3> QED  BY <3>1, <3>4, <3>5
  <2>3. billed' \in [1..MaxCreated -> Nat] /\ runs' \in [Days -> Nat]
    BY <2>1, <1>1, <1>2 DEF CountTypes, Commit
  <2> QED  BY <2>1, <2>2, <2>3, <1>4 DEF CountTypes
<1>8. CacheTypes'
  BY <1>4 DEF Types, CacheTypes
<1>9. JobTypes'
  BY <1>4 DEF Types, JobTypes, JobIds
<1>10. WorkerTypes'
  <2>1. \E r \in PublishRec \cup AckRec : r.job \in JobIds
                                         /\ worker' = [worker EXCEPT ![w] = r]
    <3>1. CASE l # None
      <4>1. [pc |-> "publish", job |-> t.job, lead |-> l] \in PublishRec
        BY <1>2, <1>3, <3>1 DEF PublishRec
      <4> QED  BY <3>1, <4>1, <1>1 DEF Commit, Set
    <3>2. CASE l = None
      <4>1. [pc |-> "ack", job |-> t.job] \in AckRec
        BY <1>2 DEF AckRec
      <4> QED  BY <3>2, <4>1, <1>1 DEF Commit, Set
    <3> QED  BY <3>1, <3>2
  <2>2. PICK r \in PublishRec \cup AckRec : r.job \in JobIds
                                           /\ worker' = [worker EXCEPT ![w] = r]
    BY <2>1
  <2> QED  BY <2>2, <1>4 DEF Types, WorkerTypes, WorkerStates, JobIds
<1>11. CallerTypes'
  <2>1. \A x \in DOMAIN message' : x \in DOMAIN message
             /\ message'[x].session = message[x].session
    BY DEF Commit
  <2> QED  BY <2>1, <1>4 DEF Types, CallerTypes, JobIds
<1>12. HistoryTypes'
  <2>1. handmade' \subseteq handmade /\ straddled' \subseteq straddled \cup Leads
    BY <1>3 DEF Commit
  <2> QED  BY <2>1, <1>4 DEF Types, HistoryTypes
<1> QED  BY <1>5, <1>6, <1>7, <1>8, <1>9, <1>10, <1>11, <1>12 DEF Types

-----------------------------------------------------------------------------
(* The calls of the API.                                                   *)
MessagesStay ==
    \A m \in DOMAIN message' : m \in DOMAIN message
                               /\ message'[m].session = message[m].session

LEMMA QueuesFrame ==
    ASSUME Types, UNCHANGED <<cache, aijobs, worker>>, created' = created
    PROVE  CacheTypes' /\ JobTypes' /\ WorkerTypes'
<1>1. CacheTypes'
  BY DEF Types, CacheTypes
<1>2. JobTypes'
  BY DEF Types, JobTypes, JobIds
<1>3. WorkerTypes'
  BY DEF Types, WorkerTypes, JobIds
<1> QED  BY <1>1, <1>2, <1>3

LEMMA CallerFrame ==
    ASSUME Types, UNCHANGED <<aijobs, caller, created>>, MessagesStay
    PROVE  CallerTypes'
  BY DEF Types, CallerTypes, JobIds, MessagesStay

LEMMA RowFrame ==
    ASSUME Types, UNCHANGED <<rows, created>>
    PROVE  RowTypes'
  BY DEF Types, RowTypes, rows

LEMMA CountFrame ==
    ASSUME Types, UNCHANGED <<usage, created, calls, billed, runs>>,
           day' \in Days, edits' \in Nat, mishaps' \in Nat
    PROVE  CountTypes'
  BY DEF Types, CountTypes

LEMMA CreateSessionTyped ==
    ASSUME Types, NEW s \in Sessions, CreateSession(s)
    PROVE  Types'
<1>1. UNCHANGED <<rows, usage, cache, aijobs, worker, day, created, calls,
                  billed, runs, history, edits, mishaps>>
  BY DEF CreateSession
<1>2. RowTypes' /\ CacheTypes' /\ JobTypes' /\ WorkerTypes'
  BY <1>1, RowFrame, QueuesFrame
<1>3. CountTypes' /\ HistoryTypes'
  BY <1>1 DEF Types, CountTypes, HistoryTypes, history
<1>4. CallerTypes'
  <2>1. PICK l : /\ l \in DOMAIN lead \cup {None}
                 /\ caller' = [pc |-> "session", session |-> s, lead |-> l,
                               day |-> day, usage |-> usage[day]]
    BY DEF CreateSession
  <2>2. l \in Leads \cup {None} /\ day \in Days /\ usage[day] \in UsageRow
    BY <2>1 DEF Types, RowTypes, CountTypes
  <2>3. caller' \in CallerStates /\ caller'.pc # "message"
    BY <2>1, <2>2 DEF CallerStates
  <2> QED  BY <2>3 DEF CallerTypes
<1> QED  BY <1>2, <1>3, <1>4 DEF Types

LEMMA CommitSessionTyped ==
    ASSUME Types, CommitSession
    PROVE  Types'
<1> DEFINE d == caller.day
           s == caller.session
<1>1. /\ s \in Sessions /\ d \in Days /\ caller.usage \in UsageRow
      /\ caller.lead \in DOMAIN lead \cup {None}
  BY DEF CommitSession, Types, CallerTypes, CallerStates, Quiet
<1>2. UNCHANGED <<lead, message, timeline, cache, aijobs, worker, day, created,
                  calls, billed, runs, history, edits, mishaps>>
      /\ caller' = Quiet /\ session' = With(session, s, caller.lead)
  BY DEF CommitSession
<1>3. CacheTypes' /\ JobTypes' /\ WorkerTypes'
  BY <1>2, QueuesFrame
<1>4. RowTypes'
  <2>1. DOMAIN session' = DOMAIN session \cup {s}
        /\ session' \in [DOMAIN session \cup {s} -> DOMAIN lead \cup {None}]
    <3>1. session \in [DOMAIN session -> DOMAIN lead \cup {None}]
      BY DEF Types, RowTypes
    <3> QED  BY <1>1, <1>2, <3>1 DEF With
  <2> QED  BY <2>1, <1>1, <1>2 DEF Types, RowTypes
<1>5. CountTypes'
  <2>1. usage \in [Days -> UsageRow]
    BY DEF Types, CountTypes
  <2>2. usage' = [usage EXCEPT ![d] = [usage[d] EXCEPT !.row = TRUE,
                                                 !.opened = caller.usage.opened + 1]]
    BY DEF CommitSession
  <2>3. [usage[d] EXCEPT !.row = TRUE, !.opened = caller.usage.opened + 1] \in UsageRow
    <3> DEFINE u == usage[d]
               n == caller.usage.opened + 1
    <3>1. u \in UsageRow /\ n \in Nat
      BY <1>1, <2>1 DEF UsageRow
    <3> HIDE DEF u, n
    <3>2. [u EXCEPT !.row = TRUE, !.opened = n] \in UsageRow
      BY <3>1 DEF UsageRow
    <3> QED  BY <3>2 DEF u, n
  <2>4. usage' \in [Days -> UsageRow]
    BY <2>1, <2>2, <2>3
  <2> QED  BY <2>4, <1>2 DEF Types, CountTypes
<1>6. CallerTypes' /\ HistoryTypes'
  BY <1>2 DEF Types, CallerTypes, CallerStates, Quiet, HistoryTypes, history
<1> QED  BY <1>3, <1>4, <1>5, <1>6 DEF Types

LEMMA CreateMessageTyped ==
    ASSUME Types, NEW s \in Sessions, CreateMessage(s)
    PROVE  Types'
<1> DEFINE m == created + 1
<1>1. created \in Nat /\ created < MaxCreated /\ MaxCreated \in Nat
  BY ConstantsOK DEF CreateMessage, Types, CountTypes
<1>2. m \in 1..MaxCreated /\ created' = m /\ s \in DOMAIN session
  BY <1>1 DEF CreateMessage
<1>3. PICK c \in Contents, n \in Annotations :
          message' = With(message, m, [session |-> s, content |-> c, note |-> n])
  BY DEF CreateMessage
<1>4. UNCHANGED <<lead, session, timeline, usage, cache, aijobs, worker, day,
                  calls, billed, runs, history, edits, mishaps>>
  BY DEF CreateMessage
<1>5. RowTypes'
  <2>1. [session |-> s, content |-> c, note |-> n] \in MessageRow
    BY <1>3 DEF MessageRow
  <2>2. message \in [DOMAIN message -> MessageRow] /\ DOMAIN message \subseteq 1..created
    BY DEF Types, RowTypes
  <2>3. DOMAIN message' = DOMAIN message \cup {m}
        /\ message' \in [DOMAIN message \cup {m} -> MessageRow]
    BY <1>3, <2>1, <2>2 DEF With
  <2>4. DOMAIN message' \subseteq 1..m
    BY <1>1, <2>2, <2>3
  <2>5. \A x \in DOMAIN message' : message'[x].session \in DOMAIN session
    BY <1>2, <1>3, <2>3 DEF With, Types, RowTypes
  <2> QED  BY <2>3, <2>4, <2>5, <1>2, <1>4 DEF Types, RowTypes
<1>6. CountTypes' /\ CacheTypes' /\ HistoryTypes'
  BY <1>2, <1>4 DEF Types, CountTypes, CacheTypes, HistoryTypes, history
<1>7. \A j \in JobIds : aijobs[j].message \in Nat /\ aijobs[j].message <= created
  BY JobsAreTyped
<1>8. JobTypes' /\ WorkerTypes'
  BY <1>1, <1>2, <1>4, <1>7 DEF Types, JobTypes, WorkerTypes, JobIds
<1>9. CallerTypes'
  <2>1. caller' = [pc |-> "message", message |-> m, session |-> s]
    BY DEF CreateMessage
  <2>2. caller' \in CallerStates
    BY <1>2, <2>1 DEF CallerStates
  <2>3. \A j \in JobIds : aijobs[j].message # m
    BY <1>1, <1>7
  <2>4. message'[m].session = s
    BY <1>3 DEF With
  <2> QED  BY <2>1, <2>2, <2>3, <2>4, <1>1, <1>2, <1>4 DEF CallerTypes, JobIds
<1> QED  BY <1>5, <1>6, <1>8, <1>9 DEF Types

LEMMA PublishMessageTyped ==
    ASSUME Types, PublishMessage
    PROVE  Types'
<1> DEFINE row == [message |-> caller.message, receives |-> 0, state |-> "queued"]
<1>1. /\ caller.message \in 1..MaxCreated /\ caller.message <= created
      /\ \A j \in JobIds : aijobs[j].message # caller.message
  BY DEF PublishMessage, Types, CallerTypes, CallerStates, Quiet
<1>2. UNCHANGED <<rows, usage, cache, worker, day, created, calls, billed,
                  runs, history, edits, mishaps>>
      /\ caller' = Quiet /\ aijobs' = Append(aijobs, row)
  BY DEF PublishMessage
<1>3. row \in JobRow
  BY <1>1 DEF JobRow
<1>4. aijobs \in Seq(JobRow)
  BY DEF Types, JobTypes
<1>5. /\ aijobs' \in Seq(JobRow) /\ Len(aijobs') = Len(aijobs) + 1
      /\ \A j \in JobIds : j \in JobIds' /\ aijobs'[j] = aijobs[j]
      /\ \A j \in JobIds' : j \in JobIds \/ j = Len(aijobs')
      /\ aijobs'[Len(aijobs')] = row
  <2> HIDE DEF row
  <2> QED  BY <1>2, <1>3, <1>4 DEF JobIds
<1>6. JobTypes'
  <2>1. \A j \in JobIds : aijobs[j].message <= created
        /\ \A i \in JobIds : aijobs[i].message = aijobs[j].message => i = j
    BY DEF Types, JobTypes
  <2>2. row.message = caller.message
    OBVIOUS
  <2>3. \A j \in JobIds' : \/ j \in JobIds /\ aijobs'[j] = aijobs[j]
                           \/ j = Len(aijobs') /\ aijobs'[j].message = caller.message
    <3> HIDE DEF row
    <3> QED  BY <1>5, <2>2
  <2> HIDE DEF row
  <2>4. \A j \in JobIds' : aijobs'[j].message <= created
    BY <1>1, <2>1, <2>3
  <2>5. \A i, j \in JobIds' : aijobs'[i].message = aijobs'[j].message => i = j
    BY <1>1, <2>1, <2>3
  <2> QED  BY <1>2, <1>5, <2>4, <2>5 DEF JobTypes
<1>7. WorkerTypes'
  <2> HIDE DEF row
  <2> QED  BY <1>2, <1>5 DEF Types, WorkerTypes
<1>8. RowTypes'
  BY <1>2, RowFrame
<1>9. CountTypes' /\ CacheTypes' /\ HistoryTypes' /\ CallerTypes'
  BY <1>2 DEF Types, CountTypes, CacheTypes, HistoryTypes, history, CallerTypes,
              CallerStates, Quiet
<1> QED  BY <1>6, <1>7, <1>8, <1>9 DEF Types

(* A call that ends without writing anything, or announces a PATCH.        *)
LEMMA CallEndsTyped ==
    ASSUME Types, SessionRefused \/ MessageDies \/ PublishPatch \/ PatchDies
    PROVE  Types'
<1>1. /\ UNCHANGED <<rows, usage, cache, aijobs, worker, day, created, calls,
                     billed, runs, handmade, straddled, uprooted, retouched, edits>>
      /\ caller' = Quiet
  BY DEF SessionRefused, MessageDies, PublishPatch, PatchDies, history
<1>2. RowTypes' /\ CacheTypes' /\ JobTypes' /\ WorkerTypes'
  BY <1>1, RowFrame, QueuesFrame
<1>3. mishaps' \in Nat
  BY FaultIsCounted DEF SessionRefused, MessageDies, PublishPatch, PatchDies
<1>4. CountTypes'
  BY <1>1, <1>3 DEF Types, CountTypes
<1>5. CallerTypes'
  BY <1>1 DEF CallerTypes, CallerStates, Quiet
<1>6. unscored' \subseteq Sessions
  BY DEF SessionRefused, MessageDies, PublishPatch, PatchDies, history, Types,
         HistoryTypes, CallerTypes, CallerStates, Quiet
<1>7. HistoryTypes'
  BY <1>1, <1>6 DEF Types, HistoryTypes
<1> QED  BY <1>2, <1>4, <1>5, <1>7 DEF Types

LEMMA EditFrame ==
    ASSUME Types, Edit, RowTypes', CallerTypes',
           handmade' \subseteq Leads, uprooted' \subseteq Sessions,
           retouched' \subseteq 1..MaxCreated
    PROVE  Types'
<1>1. UNCHANGED <<usage, cache, aijobs, worker, day, created, calls, billed, runs,
                  straddled, unscored, mishaps>>
      /\ edits' \in Nat
  BY FaultIsCounted DEF Edit
<1>2. CacheTypes' /\ JobTypes' /\ WorkerTypes'
  BY <1>1, QueuesFrame
<1>3. CountTypes' /\ HistoryTypes'
  BY <1>1 DEF Types, CountTypes, HistoryTypes
<1> QED  BY <1>2, <1>3 DEF Types

LEMMA UpdateMessageShape ==
    ASSUME Types, NEW m, UpdateMessage(m)
    PROVE  /\ m \in DOMAIN message /\ DOMAIN message' = DOMAIN message
           /\ \A x \in DOMAIN message : message'[x].session = message[x].session
           /\ \A x \in DOMAIN message : x # m => message'[x] = message[x]
           /\ retouched \subseteq retouched'
           /\ m \notin retouched' => message'[m].note = message[m].note
<1>1. m \in DOMAIN message
  BY DEF UpdateMessage
<1>2. PICK c \in Contents, n \in Annotations :
          /\ message' = [message EXCEPT ![m].content = c, ![m].note = n]
          /\ retouched' = IF n = message[m].note THEN retouched ELSE retouched \cup {m}
  BY DEF UpdateMessage
<1>3. message' = [message EXCEPT ![m] = [message[m] EXCEPT !.content = c, !.note = n]]
  BY <1>2
<1>4. message[m] \in MessageRow /\ message \in [DOMAIN message -> MessageRow]
  BY <1>1 DEF Types, RowTypes
<1>5. /\ [message[m] EXCEPT !.content = c, !.note = n].session = message[m].session
      /\ [message[m] EXCEPT !.content = c, !.note = n].note = n
  BY <1>4 DEF MessageRow
<1>6. retouched \subseteq retouched' /\ (m \notin retouched' => n = message[m].note)
  BY <1>2
<1> QED  BY <1>1, <1>3, <1>4, <1>5, <1>6

LEMMA UpdateMessageTyped ==
    ASSUME Types, NEW m, UpdateMessage(m)
    PROVE  Types' /\ MessagesStay
<1>1. /\ Edit /\ m \in DOMAIN message
      /\ UNCHANGED <<lead, session, timeline, caller, handmade, uprooted>>
  BY DEF UpdateMessage
<1>2. PICK c \in Contents, n \in Annotations :
          message' = [message EXCEPT ![m].content = c, ![m].note = n]
  BY DEF UpdateMessage
<1>3. message \in [DOMAIN message -> MessageRow] /\ message[m] \in MessageRow
  BY <1>1 DEF Types, RowTypes
<1>4. message' = [message EXCEPT ![m] = [message[m] EXCEPT !.content = c, !.note = n]]
  BY <1>2
<1>5. [message[m] EXCEPT !.content = c, !.note = n] \in MessageRow
      /\ [message[m] EXCEPT !.content = c, !.note = n].session = message[m].session
  BY <1>3 DEF MessageRow
<1>6. /\ message' \in [DOMAIN message -> MessageRow] /\ DOMAIN message' = DOMAIN message
      /\ \A x \in DOMAIN message : message'[x].session = message[x].session
  BY <1>3, <1>4, <1>5
<1>7. created' = created /\ aijobs' = aijobs
  BY <1>1 DEF Edit
<1>8. RowTypes'
  BY <1>1, <1>6, <1>7 DEF Types, RowTypes
<1>9. MessagesStay
  BY <1>6 DEF MessagesStay
<1>10. CallerTypes'
  BY <1>1, <1>7, <1>9, CallerFrame
<1>11. retouched' \subseteq 1..MaxCreated
  <2>1. m \in 1..MaxCreated
    BY <1>1, ConstantsOK DEF Types, RowTypes, CountTypes
  <2> QED  BY <2>1 DEF UpdateMessage, Types, HistoryTypes
<1> QED  BY <1>1, <1>8, <1>9, <1>10, <1>11, EditFrame DEF Types, HistoryTypes

LEMMA DeleteMessageTyped ==
    ASSUME Types, NEW m, DeleteMessage(m)
    PROVE  Types' /\ MessagesStay
<1>1. /\ Edit /\ m \in DOMAIN message /\ message' = Without(message, m)
      /\ uprooted' = uprooted \cup {message[m].session}
      /\ UNCHANGED <<lead, session, timeline, caller, handmade, retouched>>
  BY DEF DeleteMessage
<1>2. /\ message' \in [DOMAIN message \ {m} -> MessageRow]
      /\ DOMAIN message' = DOMAIN message \ {m}
      /\ \A x \in DOMAIN message' : message'[x] = message[x]
  BY <1>1 DEF Without, Types, RowTypes
<1>3. created' = created /\ aijobs' = aijobs
  BY <1>1 DEF Edit
<1>4. RowTypes'
  BY <1>1, <1>2, <1>3 DEF Types, RowTypes
<1>5. MessagesStay
  BY <1>2 DEF MessagesStay
<1>6. CallerTypes'
  BY <1>1, <1>3, <1>5, CallerFrame
<1>7. /\ uprooted' \subseteq Sessions /\ handmade' \subseteq Leads
      /\ retouched' \subseteq 1..MaxCreated
  BY <1>1, MessageIsTyped DEF Types, HistoryTypes, MessageRow
<1> QED  BY <1>1, <1>4, <1>5, <1>6, <1>7, EditFrame

LEMMA AttachSessionTyped ==
    ASSUME Types, NEW s, AttachSession(s)
    PROVE  Types' /\ MessagesStay
<1>1. /\ Edit /\ s \in DOMAIN session
      /\ UNCHANGED <<lead, message, timeline, caller, handmade, retouched>>
  BY DEF AttachSession
<1>2. PICK l \in DOMAIN lead \cup {None} : session' = [session EXCEPT ![s] = l]
  BY DEF AttachSession
<1>3. session \in [DOMAIN session -> DOMAIN lead \cup {None}]
      /\ DOMAIN session \subseteq Sessions
  BY DEF Types, RowTypes
<1>4. DOMAIN session' = DOMAIN session
      /\ session' \in [DOMAIN session -> DOMAIN lead \cup {None}]
  BY <1>2, <1>3
<1>5. created' = created /\ aijobs' = aijobs
  BY <1>1 DEF Edit
<1>6. RowTypes'
  BY <1>1, <1>4, <1>5 DEF Types, RowTypes
<1>7. MessagesStay
  BY <1>1 DEF MessagesStay
<1>8. CallerTypes'
  BY <1>1, <1>5, <1>7, CallerFrame
<1>9. /\ uprooted' \subseteq Sessions /\ handmade' \subseteq Leads
      /\ retouched' \subseteq 1..MaxCreated
  BY <1>1, <1>3 DEF AttachSession, Types, HistoryTypes
<1> QED  BY <1>1, <1>6, <1>7, <1>8, <1>9, EditFrame

LEMMA DeleteSessionTyped ==
    ASSUME Types, NEW s, DeleteSession(s)
    PROVE  Types' /\ MessagesStay
<1>1. /\ Edit /\ s \in DOMAIN session
      /\ session' = Without(session, s)
      /\ message' = [m \in DOMAIN message \ MessagesOf(s) |-> message[m]]
      /\ uprooted' = uprooted \cup {s}
      /\ UNCHANGED <<lead, timeline, caller, handmade, retouched>>
  BY DEF DeleteSession
<1>2. created' = created /\ aijobs' = aijobs
  BY <1>1 DEF Edit
<1>3. DOMAIN session \subseteq Sessions
      /\ session \in [DOMAIN session -> DOMAIN lead \cup {None}]
  BY DEF Types, RowTypes
<1>4. DOMAIN session' = DOMAIN session \ {s}
      /\ session' \in [DOMAIN session \ {s} -> DOMAIN lead \cup {None}]
  BY <1>1, <1>3 DEF Without
<1>5. /\ DOMAIN message' = DOMAIN message \ MessagesOf(s)
      /\ message' \in [DOMAIN message \ MessagesOf(s) -> MessageRow]
      /\ \A m \in DOMAIN message' : message'[m] = message[m] /\ message[m].session # s
  BY <1>1 DEF Types, RowTypes, MessagesOf
<1>6. RowTypes'
  <2>1. \A m \in DOMAIN message' : message'[m].session \in DOMAIN session'
    BY <1>4, <1>5 DEF Types, RowTypes
  <2>2. DOMAIN message' \subseteq 1..created' /\ DOMAIN session' \subseteq Sessions
    BY <1>2, <1>3, <1>4, <1>5 DEF Types, RowTypes
  <2>3. message' \in [DOMAIN message' -> MessageRow]
    BY <1>5
  <2>4. session' \in [DOMAIN session' -> DOMAIN lead' \cup {None}]
    BY <1>1, <1>4
  <2> QED  BY <2>1, <2>2, <2>3, <2>4, <1>1 DEF Types, RowTypes
<1>7. MessagesStay
  BY <1>5 DEF MessagesStay
<1>8. CallerTypes'
  BY <1>1, <1>2, <1>7, CallerFrame
<1>9. /\ uprooted' \subseteq Sessions /\ handmade' \subseteq Leads
      /\ retouched' \subseteq 1..MaxCreated
  BY <1>1, <1>3 DEF Types, HistoryTypes
<1> QED  BY <1>1, <1>6, <1>7, <1>8, <1>9, EditFrame

LEMMA PatchedIsTyped ==
    ASSUME NEW p \in Patches, NEW row \in ScoreRow
    PROVE  Patched(row, p) \in ScoreRow
<1>1. DOMAIN row = {"fit", "engagement", "score"}
  BY DEF ScoreRow
<1>2. \A c \in DOMAIN row : row[c] \in Int
  BY DEF ScoreRow
<1>3. \A c \in DOMAIN p : p[c] \in Int
  BY ConstantsOK
<1> QED  BY <1>1, <1>2, <1>3 DEF Patched, ScoreRow

LEMMA PatchTyped ==
    ASSUME Types, NEW l, PatchScore(l) \/ AddTimelineEvent(l)
    PROVE  Types' /\ MessagesStay
<1>1. /\ Edit /\ l \in DOMAIN lead
      /\ UNCHANGED <<session, message, timeline, uprooted, retouched>>
  BY DEF PatchScore, AddTimelineEvent
<1>2. l \in Leads /\ lead \in [DOMAIN lead -> ScoreRow] /\ lead[l] \in ScoreRow
  BY <1>1 DEF Types, RowTypes
<1>3. created' = created
  BY <1>1 DEF Edit
<1>4. DOMAIN lead' = DOMAIN lead /\ lead' \in [DOMAIN lead -> ScoreRow]
  <2>1. CASE lead' = lead
    BY <2>1, <1>2
  <2>2. ASSUME NEW p \in Patches, lead' = [lead EXCEPT ![l] = Patched(lead[l], p)]
        PROVE  DOMAIN lead' = DOMAIN lead /\ lead' \in [DOMAIN lead -> ScoreRow]
    <3>1. lead' = [lead EXCEPT ![l] = Patched(lead[l], p)]
      BY <2>2
    <3>2. Patched(lead[l], p) \in ScoreRow
      BY <1>2, PatchedIsTyped
    <3> QED  BY <3>1, <3>2, <1>2
  <2> QED  BY <2>1, <2>2 DEF PatchScore, AddTimelineEvent
<1>5. RowTypes'
  BY <1>1, <1>3, <1>4 DEF Types, RowTypes
<1>6. caller' \in CallerStates /\ caller'.pc # "message"
  BY <1>2 DEF PatchScore, AddTimelineEvent, CallerStates
<1>7. CallerTypes'
  BY <1>6 DEF CallerTypes
<1>8. /\ uprooted' \subseteq Sessions /\ handmade' \subseteq Leads
      /\ retouched' \subseteq 1..MaxCreated
  BY <1>1, <1>2 DEF PatchScore, AddTimelineEvent, Types, HistoryTypes
<1>9. MessagesStay
  BY <1>1 DEF MessagesStay
<1> QED  BY <1>1, <1>5, <1>7, <1>8, <1>9, EditFrame

LEMMA DeleteLeadTyped ==
    ASSUME Types, NEW l, DeleteLead(l)
    PROVE  Types' /\ MessagesStay
<1>1. /\ Edit /\ l \in DOMAIN lead
      /\ lead' = Without(lead, l)
      /\ timeline' = [timeline EXCEPT ![l] = None]
      /\ session' = [s \in DOMAIN session |-> IF session[s] = l THEN None ELSE session[s]]
      /\ UNCHANGED <<message, caller, handmade, uprooted, retouched>>
  BY DEF DeleteLead
<1>2. created' = created /\ aijobs' = aijobs
  BY <1>1 DEF Edit
<1>3. /\ DOMAIN lead' = DOMAIN lead \ {l} /\ DOMAIN lead' \subseteq Leads
      /\ lead' \in [DOMAIN lead' -> ScoreRow]
  BY <1>1 DEF Without, Types, RowTypes
<1>4. timeline' \in [Leads -> {None} \cup Event]
  BY <1>1 DEF Types, RowTypes
<1>5. DOMAIN session' = DOMAIN session
      /\ session' \in [DOMAIN session' -> DOMAIN lead' \cup {None}]
  <2>1. session \in [DOMAIN session -> DOMAIN lead \cup {None}]
    BY DEF Types, RowTypes
  <2> QED  BY <1>1, <1>3, <2>1
<1>6. RowTypes'
  BY <1>1, <1>2, <1>3, <1>4, <1>5 DEF Types, RowTypes
<1>7. MessagesStay
  BY <1>1 DEF MessagesStay
<1>8. CallerTypes'
  BY <1>1, <1>2, <1>7, CallerFrame
<1> QED  BY <1>1, <1>6, <1>7, <1>8, EditFrame DEF Types, HistoryTypes

LEMMA MidnightTyped ==
    ASSUME Types, Midnight
    PROVE  Types' /\ day' \in Days
<1>1. UNCHANGED <<rows, usage, cache, aijobs, worker, caller, created, calls,
                  billed, runs, history, mishaps>>
  BY DEF Midnight
<1>2. day' \in Days /\ edits' \in Nat
  BY ConstantsOK, FaultIsCounted DEF Midnight, Types, CountTypes, Days
<1>3. RowTypes' /\ CacheTypes' /\ JobTypes' /\ WorkerTypes'
  BY <1>1, RowFrame, QueuesFrame
<1>4. CountTypes' /\ HistoryTypes'
  BY <1>1, <1>2 DEF Types, CountTypes, HistoryTypes, history
<1>5. MessagesStay
  BY <1>1 DEF MessagesStay, rows
<1>6. CallerTypes'
  BY <1>1, <1>5, CallerFrame
<1> QED  BY <1>2, <1>3, <1>4, <1>6 DEF Types

-----------------------------------------------------------------------------
(* Every step of the composition is one of MessageScoring, or leaves its   *)
(* variables alone and counts an edit or a mishap at most.                 *)
Elsewhere ==
    /\ UNCHANGED ownVars
    /\ mishaps' \in {mishaps, mishaps + 1} /\ edits' \in {edits, edits + 1}

LEMMA ComposedSteps ==
    ASSUME [NextBoth]_allVars
    PROVE  Next \/ Elsewhere
<1>1. CASE Score(ApiStep) \/ PublishPatched \/ PatchLost
  BY <1>1 DEF Score, PublishPatched, PatchLost, Next
<1>2. ASSUME NEW w \in Workers, Handle(w) \/ PublishScored(w)
      PROVE  Next
  BY <1>2 DEF Handle, PublishScored, Next
<1>3. ASSUME NEW w \in Workers, Poll(w)
      PROVE  Next \/ Elsewhere
  <2>1. CASE \E j \in JobIds : Score(Begin(w, j))
    BY <2>1 DEF Score, Next
  <2>2. CASE /\ \E j \in I!JobIds : I!Receive(w, j)
             /\ UNCHANGED <<ownVars, unannounced>>
    BY <2>2 DEF I!Receive, I!Fault, Elsewhere
  <2> QED  BY <1>3, <2>1, <2>2 DEF Poll
<1>4. CASE I!Step /\ UNCHANGED <<ownVars, unannounced>>
  <2>1. CASE I!CallApi \/ I!AnswerApi
    BY <1>4, <2>1 DEF I!CallApi, I!AnswerApi, Elsewhere
  <2>2. ASSUME NEW a \in I!Actors, I!ActorStep(a)
        PROVE  Elsewhere
    BY <1>4, <2>2 DEF I!ActorStep, I!ProviderRefuses, I!Upsert, I!FindsSeveral, I!Fails,
                      I!Raise, I!Fault, Elsewhere
  <2>3. ASSUME NEW w \in Workers,
               I!NotifySlack(w) \/ I!PublishSvix(w) \/ I!Acknowledge(w) \/ I!Crash(w)
        PROVE  Elsewhere
    BY <1>4, <2>3 DEF I!NotifySlack, I!PublishSvix, I!Acknowledge, I!Crash, I!Drop,
                      I!Fault, Elsewhere
  <2> QED  BY <1>4, <2>1, <2>2, <2>3 DEF I!Step
<1>5. CASE UNCHANGED allVars
  BY <1>5 DEF allVars, vars, ownVars, history, Elsewhere
<1> QED  BY <1>1, <1>2, <1>3, <1>4, <1>5 DEF NextBoth

LEMMA TypesInit ==
    ASSUME InitBoth
    PROVE  Types
<1> USE DEF InitBoth, Init
<1>1. RowTypes
  <2>1. NoScores \in ScoreRow
    BY DEF NoScores, ScoreRow
  <2> QED  BY <2>1 DEF RowTypes
<1>2. CountTypes
  <2>1. NoUsage \in UsageRow
    BY DEF NoUsage, UsageRow
  <2> QED  BY <2>1, ConstantsOK DEF CountTypes, Days
<1>3. CacheTypes /\ JobTypes
  BY DEF CacheTypes, JobTypes, JobIds
<1>4. WorkerTypes
  BY DEF WorkerTypes, WorkerStates, Idle
<1>5. CallerTypes /\ HistoryTypes
  BY DEF CallerTypes, CallerStates, Quiet, HistoryTypes
<1> QED  BY <1>1, <1>2, <1>3, <1>4, <1>5 DEF Types

LEMMA HandlerTyped ==
    ASSUME Types, NEW w \in Workers, HandlerStep(w) \/ Publish(w)
    PROVE  Types' /\ JobsStay
<1>1. CASE Analyze(w)
  BY <1>1, AnalyzeTyped
<1>2. CASE ReadUsage(w)
  BY <1>2, ReadUsageTyped
<1>3. CASE ReadLead(w)
  BY <1>3, ReadLeadTyped
<1>4. CASE Commit(w)
  BY <1>4, CommitTyped
<1>5. CASE FlushRefused(w) \/ UsageConflict(w) \/ CommitRefused(w) \/ HandlerFails(w)
  <2>1. Raise(w) /\ worker[w].pc # "idle" /\ mishaps' \in Nat
    BY <1>5, FaultIsCounted DEF FlushRefused, UsageConflict, CommitRefused, HandlerFails
  <2> QED  BY <2>1, LetGoTyped
<1>6. CASE Acknowledge(w) \/ Crash(w)
  <2>1. Drop(w) /\ worker[w].pc # "idle" /\ mishaps' \in Nat
        /\ (Deleted(worker[w].job) \/ UNCHANGED aijobs)
    BY <1>6, FaultIsCounted DEF Acknowledge, Crash
  <2> QED  BY <2>1, LetGoTyped
<1>7. CASE Publish(w)
  <2>1. /\ worker[w].pc # "idle" /\ mishaps' \in Nat
        /\ \/ Raise(w)
           \/ Drop(w) /\ (Deleted(worker[w].job) \/ UNCHANGED aijobs)
    BY <1>7, FaultIsCounted DEF Publish
  <2> QED  BY <2>1, LetGoTyped
<1> QED  BY <1>1, <1>2, <1>3, <1>4, <1>5, <1>6, <1>7 DEF HandlerStep

LEMMA TypesStep ==
    ASSUME Types, Next \/ Elsewhere
    PROVE  Types'
<1>1. ASSUME NEW s \in Sessions, CreateSession(s) \/ CreateMessage(s)
                                 \/ AttachSession(s) \/ DeleteSession(s)
      PROVE  Types'
  BY <1>1, CreateSessionTyped, CreateMessageTyped, AttachSessionTyped, DeleteSessionTyped
<1>2. CASE CommitSession \/ PublishMessage \/ Midnight
  BY <1>2, CommitSessionTyped, PublishMessageTyped, MidnightTyped
<1>3. CASE SessionRefused \/ MessageDies \/ PublishPatch \/ PatchDies
  BY <1>3, CallEndsTyped
<1>4. ASSUME NEW m, UpdateMessage(m) \/ DeleteMessage(m)
      PROVE  Types'
  BY <1>4, UpdateMessageTyped, DeleteMessageTyped
<1>5. ASSUME NEW l, PatchScore(l) \/ AddTimelineEvent(l) \/ DeleteLead(l)
      PROVE  Types'
  BY <1>5, PatchTyped, DeleteLeadTyped
<1>6. ASSUME NEW w \in Workers, NEW j \in JobIds, Begin(w, j)
      PROVE  Types'
  BY <1>6, BeginTyped
<1>7. ASSUME NEW w \in Workers, HandlerStep(w) \/ Publish(w)
      PROVE  Types'
  BY <1>7, HandlerTyped
<1>8. CASE Elsewhere
  <2>1. UNCHANGED ownVars /\ mishaps' \in Nat /\ edits' \in Nat
    BY <1>8, FaultIsCounted DEF Elsewhere
  <2>2. UNCHANGED <<lead, session, message, timeline, usage, cache, aijobs, worker,
                    caller, day, created, calls, billed, runs, handmade, straddled,
                    unscored, uprooted, retouched>>
    BY <2>1 DEF ownVars, history
  <2>3. RowTypes' /\ CacheTypes' /\ JobTypes' /\ WorkerTypes'
    BY <2>2, RowFrame, QueuesFrame DEF rows
  <2>4. CountTypes' /\ HistoryTypes'
    BY <2>1, <2>2 DEF Types, CountTypes, HistoryTypes
  <2>5. CallerTypes'
    BY <2>2, CallerFrame DEF MessagesStay
  <2> QED  BY <2>3, <2>4, <2>5 DEF Types
<1> QED  BY <1>1, <1>2, <1>3, <1>4, <1>5, <1>6, <1>7, <1>8 DEF Next, ApiStep

(* Every reachable state of the composition is typed: what the rows, the   *)
(* jobs and the handlers refer to exists.                                  *)
THEOREM ScoringTypes == SpecBoth => []Types
<1>1. InitBoth => Types
  BY TypesInit
<1>2. Types /\ [NextBoth]_allVars => Types'
  BY ComposedSteps, TypesStep
<1> QED  BY <1>1, <1>2, PTL DEF SpecBoth

-----------------------------------------------------------------------------
(* ScoresOfOneMessage.  Between its look at the lead and its commit, a     *)
(* handler has the scores of the lead as they are, unless a PATCH or a     *)
(* handler of another day has written them: so the columns it leaves out   *)
(* are those that stay as they are.                                        *)
OneWriterPerDay ==
    \A v, w \in Workers :
        worker[v].pc = "commit" /\ worker[w].pc = "commit"
        /\ worker[v].day = worker[w].day => v = w

ScoresMatch(l) == l \notin handmade /\ timeline[l] # None => lead[l] = timeline[l].scores

SawScores(w) ==
    LET l == worker[w].lead IN
    worker[w].pc = "commit" /\ l \in DOMAIN lead \ straddled =>
        l \in handmade \/ worker[w].before = lead[l]

ScoresInv == /\ Types
             /\ \A l \in DOMAIN lead \ straddled : ScoresMatch(l)
             /\ \A w \in Workers : SawScores(w)

(* Only ReadLead makes a worker a writer.                                  *)
NoNewWriter ==
    \A v \in Workers : worker'[v].pc = "commit" => worker'[v] = worker[v]

LEMMA WorkerSetTo ==
    ASSUME Types, NEW w \in Workers, NEW r, worker' = [worker EXCEPT ![w] = r]
    PROVE  /\ worker'[w] = r
           /\ \A v \in Workers : v # w => worker'[v] = worker[v]
  BY DEF Types, WorkerTypes

LEMMA WritersStay ==
    ASSUME Types, Next \/ Elsewhere, ~\E w \in Workers : ReadLead(w)
    PROVE  NoNewWriter
<1>1. ASSUME NEW w \in Workers, NEW r, r.pc # "commit",
             worker' = [worker EXCEPT ![w] = r]
      PROVE  NoNewWriter
  BY <1>1, WorkerSetTo DEF NoNewWriter
<1>2. CASE UNCHANGED worker
  BY <1>2 DEF NoNewWriter
<1>3. ASSUME NEW w \in Workers, NEW j \in JobIds, Begin(w, j)
      PROVE  NoNewWriter
  <2>1. CASE FindsNoMessage(w, j)
    BY <2>1, <1>1 DEF FindsNoMessage, Set
  <2>2. CASE CacheHit(w, j)
    <3> DEFINE row == message[aijobs[j].message]
               a   == cache[CacheKey(aijobs[j].message, row)]
               r   == [pc |-> "analyzed", job |-> j, read |-> row, answer |-> a,
                       dirty |-> a # row.note]
    <3>1. worker' = [worker EXCEPT ![w] = r]
      BY <2>2 DEF CacheHit, Analyzed, Set
    <3>2. r.pc # "commit"
      OBVIOUS
    <3> HIDE DEF r
    <3> QED  BY <3>1, <3>2, <1>1
  <2>3. CASE CacheMiss(w, j)
    BY <2>3, <1>1 DEF CacheMiss, Set
  <2> QED  BY <1>3, <2>1, <2>2, <2>3 DEF Begin
<1>4. ASSUME NEW w \in Workers, HandlerStep(w) \/ Publish(w)
      PROVE  NoNewWriter
  <2>1. CASE Analyze(w)
    BY <2>1, <1>1 DEF Analyze, Analyzed, Set
  <2>2. CASE ReadUsage(w)
    BY <2>2, <1>1 DEF ReadUsage, Set
  <2>3. CASE Commit(w)
    <3> DEFINE t == worker[w]
               r == IF t.lead # None
                    THEN [pc |-> "publish", job |-> t.job, lead |-> t.lead]
                    ELSE [pc |-> "ack", job |-> t.job]
    <3>1. worker' = [worker EXCEPT ![w] = r]
      BY <2>3 DEF Commit, Set
    <3>2. r.pc # "commit"
      OBVIOUS
    <3> HIDE DEF r
    <3> QED  BY <3>1, <3>2, <1>1
  <2>4. CASE \/ FlushRefused(w) \/ UsageConflict(w) \/ CommitRefused(w)
             \/ HandlerFails(w) \/ Acknowledge(w) \/ Crash(w) \/ Publish(w)
    <3>1. worker' = [worker EXCEPT ![w] = Idle]
      BY <2>4 DEF FlushRefused, UsageConflict, CommitRefused, HandlerFails, Acknowledge,
                  Crash, Publish, Raise, Drop, Set
    <3> QED  BY <3>1, <1>1 DEF Idle
  <2> QED  BY <1>4, <2>1, <2>2, <2>3, <2>4 DEF HandlerStep
<1>5. CASE ApiStep \/ PublishPatch \/ PatchDies \/ Elsewhere
  BY <1>2, <1>5 DEF ApiStep, PublishPatch, PatchDies, Elsewhere, ownVars, CreateSession,
       CommitSession, SessionRefused, CreateMessage, PublishMessage, MessageDies,
       Edit, UpdateMessage, DeleteMessage, AttachSession, DeleteSession, PatchScore,
       AddTimelineEvent, DeleteLead, Midnight
<1> QED  BY <1>3, <1>4, <1>5 DEF Next

LEMMA ReadLeadWrites ==
    ASSUME Types, NEW w \in Workers, ReadLead(w)
    PROVE  /\ worker'[w].pc = "commit" /\ worker'[w].day = worker[w].day
           /\ ~UsageLocked(worker[w].day)
           /\ worker'[w].lead \in DOMAIN lead \cup {None}
           /\ worker'[w].lead # None => worker'[w].before = lead[worker'[w].lead]
           /\ \A v \in Workers : v # w => worker'[v] = worker[v]
           /\ UNCHANGED <<rows, usage, cache, aijobs, calls, billed, runs, handmade,
                          straddled, unscored, mishaps, caller, day, created, uprooted>>
<1> DEFINE t == worker[w]
           s == t.read.session
           l == IF s \in DOMAIN session THEN session[s] ELSE None
           r == worker'[w]
<1>1. UNCHANGED <<rows, usage, cache, aijobs, calls, billed, runs, handmade, straddled,
                  unscored, mishaps, caller, day, created, uprooted>>
      /\ ~UsageLocked(t.day)
  BY DEF ReadLead, WorkerOnly
<1>2. \A v \in Workers : v # w => worker'[v] = worker[v]
  BY DEF ReadLead, Set, Types, WorkerTypes
<1>3. /\ r.pc = "commit" /\ r.day = t.day /\ r.lead = l
      /\ r.before = IF l = None THEN NoScores ELSE lead[l]
  BY DEF ReadLead, Set, Types, WorkerTypes
<1>4. l \in DOMAIN lead \cup {None}
  BY DEF Types, RowTypes
<1> HIDE DEF l, r
<1>5. r.lead \in DOMAIN lead \cup {None} /\ (r.lead # None => r.before = lead[r.lead])
  BY <1>3, <1>4
<1> QED  BY <1>1, <1>2, <1>3, <1>5 DEF r

(* At most one handler of a day is between its look at the lead and its    *)
(* commit: the others wait for the usage record it has written.            *)
THEOREM OneHandlerWrites == SpecBoth => []OneWriterPerDay
<1>1. InitBoth => OneWriterPerDay
  BY DEF InitBoth, Init, OneWriterPerDay, Idle
<1>2. ASSUME Types, OneWriterPerDay, [NextBoth]_allVars
      PROVE  OneWriterPerDay'
  <2>1. Next \/ Elsewhere
    BY <1>2, ComposedSteps
  <2>2. CASE NoNewWriter
    BY <1>2, <2>2 DEF OneWriterPerDay, NoNewWriter
  <2>3. ASSUME NEW w \in Workers, ReadLead(w)
        PROVE  OneWriterPerDay'
    <3>1. \A v \in Workers : worker[v].pc = "commit" => worker[v].day # worker[w].day
      BY <1>2, <2>3, ReadLeadWrites DEF UsageLocked
    <3>2. /\ worker'[w].day = worker[w].day
          /\ \A v \in Workers : v # w => worker'[v] = worker[v]
      BY <1>2, <2>3, ReadLeadWrites
    <3> QED  BY <1>2, <3>1, <3>2 DEF OneWriterPerDay
  <2> QED  BY <1>2, <2>1, <2>2, <2>3, WritersStay
<1> QED  BY <1>1, <1>2, ScoringTypes, PTL DEF SpecBoth

LEMMA ScoreChanges ==
    ASSUME Next \/ Elsewhere
    PROVE  \/ \E w \in Workers : Commit(w)
           \/ \E l \in Leads : PatchScore(l) \/ DeleteLead(l)
           \/ UNCHANGED <<lead, timeline, handmade, straddled>>
<1> DEFINE Same == UNCHANGED <<lead, timeline, handmade, straddled>>
<1>1. ASSUME NEW w \in Workers, NEW j \in JobIds, Begin(w, j)
      PROVE  Same
  BY <1>1 DEF Begin, FindsNoMessage, CacheHit, CacheMiss, Receive, rows
<1>2. ASSUME NEW w \in Workers, HandlerStep(w) \/ Publish(w)
      PROVE  Commit(w) \/ Same
  BY <1>2 DEF HandlerStep, Publish, Analyze, ReadUsage, FlushRefused, UsageConflict,
       ReadLead, CommitRefused, Acknowledge, HandlerFails, Crash, Raise, Drop, rows
<1>3. CASE ApiStep \/ PublishPatch \/ PatchDies
  <2>1. ASSUME NEW s, \/ CreateSession(s) \/ CreateMessage(s)
                      \/ AttachSession(s) \/ DeleteSession(s)
        PROVE  Same
    BY <2>1 DEF CreateSession, CreateMessage, AttachSession, DeleteSession, Edit, rows,
                history
  <2>2. CASE \/ CommitSession \/ SessionRefused \/ PublishMessage \/ MessageDies
             \/ Midnight \/ PublishPatch \/ PatchDies
    BY <2>2 DEF CommitSession, SessionRefused, PublishMessage, MessageDies, Midnight,
                PublishPatch, PatchDies, rows, history
  <2>3. ASSUME NEW m, UpdateMessage(m) \/ DeleteMessage(m)
        PROVE  Same
    BY <2>3 DEF UpdateMessage, DeleteMessage, Edit
  <2>4. ASSUME NEW l, AddTimelineEvent(l)
        PROVE  Same
    BY <2>4 DEF AddTimelineEvent, Edit
  <2> QED  BY <1>3, <2>1, <2>2, <2>3, <2>4 DEF ApiStep
<1>4. CASE Elsewhere
  BY <1>4 DEF Elsewhere, ownVars, history
<1> QED  BY <1>1, <1>2, <1>3, <1>4 DEF Next

LEMMA CommitScores ==
    ASSUME ScoresInv, NEW w \in Workers, Commit(w)
    PROVE  ScoresInv'
<1> DEFINE t == worker[w]
<1>0. PICK l : l = t.lead
  OBVIOUS
<1>1. Types /\ Types'
  BY CommitTyped DEF ScoresInv
<1>2. t \in CommitRec /\ t.pc = "commit"
  BY <1>1, WorkerIsTyped DEF Commit
<1>3. \A v \in Workers : worker'[v].pc = "commit" => v # w /\ worker'[v] = worker[v]
  <2> DEFINE r == IF l # None
                  THEN [pc |-> "publish", job |-> t.job, lead |-> l]
                  ELSE [pc |-> "ack", job |-> t.job]
  <2>1. worker' = [worker EXCEPT ![w] = r]
    BY <1>0 DEF Commit, Set
  <2>2. r.pc # "commit"
    OBVIOUS
  <2> HIDE DEF r
  <2> QED  BY <1>1, <2>1, <2>2, WorkerSetTo
<1>4. CASE l = None
  <2>1. UNCHANGED <<lead, timeline, handmade, straddled>>
    BY <1>0, <1>4 DEF Commit
  <2> QED  BY <1>1, <1>3, <2>1 DEF ScoresInv, ScoresMatch, SawScores
<1>5. CASE l # None
  <2>1. /\ l \in DOMAIN lead /\ l \in Leads
        /\ lead \in [DOMAIN lead -> ScoreRow] /\ timeline \in [Leads -> {None} \cup Event]
    BY <1>0, <1>1, <1>5 DEF Commit, Types, RowTypes
  <2>2. /\ lead' = [lead EXCEPT ![l] = Rescored(lead[l], t)]
        /\ timeline' = [timeline EXCEPT ![l] = [message |-> Target(w), count |-> t.count,
                                                scores |-> t.after]]
        /\ handmade' = IF lead[l] = t.before THEN handmade \ {l} ELSE handmade
        /\ straddled' = IF Straddles(w) THEN straddled \cup {l} ELSE straddled
    BY <1>0, <1>5 DEF Commit
  <2>3. \A x \in DOMAIN lead' : x \in DOMAIN lead
            /\ (x # l => /\ lead'[x] = lead[x] /\ timeline'[x] = timeline[x]
                         /\ (x \in handmade' <=> x \in handmade)
                         /\ (x \in straddled' <=> x \in straddled))
    BY <2>1, <2>2 DEF Types, RowTypes
  <2>4. ScoresMatch(l)' \/ l \in straddled'
    <3>1. CASE lead[l] = t.before
      <4>1. lead'[l] = t.after /\ timeline'[l].scores = t.after
        BY <1>2, <2>1, <2>2, <3>1, RescoredIsScored
      <4> QED  BY <4>1 DEF ScoresMatch
    <3>2. CASE lead[l] # t.before
      <4>1. l \in handmade \/ l \in straddled
        BY <1>0, <1>2, <2>1, <3>2 DEF ScoresInv, SawScores
      <4> QED  BY <2>2, <3>2, <4>1 DEF ScoresMatch
    <3> QED  BY <3>1, <3>2
  <2>5. \A x \in DOMAIN lead' \ straddled' : ScoresMatch(x)'
    <3> SUFFICES ASSUME NEW x \in DOMAIN lead' \ straddled'
                 PROVE  ScoresMatch(x)'
      OBVIOUS
    <3>1. CASE x = l
      BY <3>1, <2>4
    <3>2. CASE x # l
      BY <3>2, <2>3 DEF ScoresInv, ScoresMatch
    <3> QED  BY <3>1, <3>2
  <2>6. \A v \in Workers : SawScores(v)'
    <3> SUFFICES ASSUME NEW v \in Workers, worker'[v].pc = "commit",
                        worker'[v].lead \in DOMAIN lead' \ straddled'
                 PROVE  \/ worker'[v].lead \in handmade'
                        \/ worker'[v].before = lead'[worker'[v].lead]
      BY DEF SawScores
    <3>1. v # w /\ worker'[v] = worker[v]
      BY <1>3
    <3>2. worker[v].lead # l
      BY <1>0, <2>2, <3>1 DEF Straddles
    <3> QED  BY <2>3, <3>1, <3>2 DEF ScoresInv, SawScores
  <2> QED  BY <1>1, <2>5, <2>6 DEF ScoresInv
<1> QED  BY <1>4, <1>5

LEMMA ScoresInvStep ==
    ASSUME ScoresInv, Next \/ Elsewhere
    PROVE  ScoresInv'
<1>1. Types /\ Types'
  BY TypesStep DEF ScoresInv
<1>2. ASSUME NEW w \in Workers, Commit(w)
      PROVE  ScoresInv'
  BY <1>2, CommitScores
<1>3. ASSUME NEW w \in Workers, ReadLead(w)
      PROVE  ScoresInv'
  <2>1. /\ UNCHANGED <<lead, timeline, handmade, straddled>>
        /\ \A v \in Workers : v # w => worker'[v] = worker[v]
        /\ worker'[w].lead # None => worker'[w].before = lead[worker'[w].lead]
    BY <1>1, <1>3, ReadLeadWrites DEF rows
  <2>2. None \notin DOMAIN lead
    BY <1>1, ConstantsOK DEF Types, RowTypes
  <2>3. \A v \in Workers : SawScores(v)'
    BY <2>1, <2>2 DEF ScoresInv, SawScores
  <2> QED  BY <1>1, <2>1, <2>3 DEF ScoresInv, ScoresMatch
<1>4. ASSUME NEW l \in Leads, PatchScore(l), NoNewWriter
      PROVE  ScoresInv'
  <2>1. /\ DOMAIN lead' = DOMAIN lead /\ \A x \in DOMAIN lead : x # l => lead'[x] = lead[x]
        /\ handmade' = handmade \cup {l} /\ UNCHANGED <<timeline, straddled>>
    BY <1>4 DEF PatchScore, Edit
  <2>2. \A x \in DOMAIN lead' \ straddled' : ScoresMatch(x)'
    BY <2>1 DEF ScoresInv, ScoresMatch
  <2>3. \A v \in Workers : SawScores(v)'
    BY <1>4, <2>1 DEF ScoresInv, SawScores, NoNewWriter
  <2> QED  BY <1>1, <2>2, <2>3 DEF ScoresInv
<1>5. ASSUME NEW l \in Leads, DeleteLead(l), NoNewWriter
      PROVE  ScoresInv'
  <2>1. /\ DOMAIN lead' = DOMAIN lead \ {l} /\ \A x \in DOMAIN lead' : lead'[x] = lead[x]
        /\ timeline' = [timeline EXCEPT ![l] = None]
        /\ UNCHANGED <<handmade, straddled>>
    BY <1>5 DEF DeleteLead, Edit, Without
  <2>2. timeline \in [Leads -> {None} \cup Event] /\ DOMAIN lead \subseteq Leads
    BY <1>1 DEF Types, RowTypes
  <2>3. \A x \in DOMAIN lead' \ straddled' : ScoresMatch(x)'
    BY <2>1, <2>2 DEF ScoresInv, ScoresMatch
  <2>4. \A v \in Workers : SawScores(v)'
    BY <1>5, <2>1 DEF ScoresInv, SawScores, NoNewWriter
  <2> QED  BY <1>1, <2>3, <2>4 DEF ScoresInv
<1>6. ASSUME UNCHANGED <<lead, timeline, handmade, straddled>>, NoNewWriter
      PROVE  ScoresInv'
  BY <1>1, <1>6 DEF ScoresInv, ScoresMatch, SawScores, NoNewWriter
<1> QED  BY <1>1, <1>2, <1>3, <1>4, <1>5, <1>6, ScoreChanges, WritersStay

(* The three scores of a lead are those of its last ai_scored event.       *)
THEOREM ScoresBelongTogether == SpecBoth => []ScoresOfOneMessage
<1>1. InitBoth => ScoresInv
  <2> SUFFICES ASSUME InitBoth
               PROVE  ScoresInv
    OBVIOUS
  <2>1. Types
    BY TypesInit
  <2>2. /\ \A l \in Leads : timeline[l] = None
        /\ DOMAIN lead = Leads /\ \A w \in Workers : worker[w].pc = "idle"
    BY DEF InitBoth, Init, Idle
  <2> QED  BY <2>1, <2>2 DEF ScoresInv, ScoresMatch, SawScores
<1>2. ScoresInv /\ [NextBoth]_allVars => ScoresInv'
  BY ComposedSteps, ScoresInvStep
<1>3. ScoresInv => ScoresOfOneMessage
  BY DEF ScoresInv, ScoresMatch, ScoresOfOneMessage
<1> QED  BY <1>1, <1>2, <1>3, PTL DEF SpecBoth

-----------------------------------------------------------------------------
(* ConnectionsOnlyFromRaces.  As long as no lookup of a type has run while *)
(* an insert of it was under way, at most one actor is inserting a         *)
(* connection of it, and only while there is none.                         *)
IntegrationJob == [event : I!Events, lead : Leads, receives : Nat,
                   state : {"queued", "dead", "deleted"}]

SyncRec == [pc : {"sync", "slack", "svix", "commit"}, job : Nat,
            event : I!Events \cup {"sync", "booking"}, type : I!Types,
            lead : Leads \cup {None}, score : Int,
            holds : {"none", "updated", "inserted"}]

ActorStates == {I!Idle} \cup [pc : {"ack"}, job : Nat] \cup SyncRec

SyncTypes ==
    /\ connections \in [I!Types -> Nat]
    /\ jobs \in Seq(IntegrationJob)
    /\ actor \in [I!Actors -> ActorStates]
    /\ \A a \in I!Actors : actor[a].pc = "sync" => actor[a].holds = "none"

Inserts(a, type) == I!Holds(a, type, "inserted")

OneInsert(type) ==
    /\ connections[type] <= 1
    /\ \A a \in I!Actors : Inserts(a, type) => connections[type] = 0
    /\ \A a, b \in I!Actors : Inserts(a, type) /\ Inserts(b, type) => a = b

SyncInv == SyncTypes /\ \A type \in I!Types \ contended : OneInsert(type)

LEMMA ActorIsTyped ==
    ASSUME SyncTypes, NEW a \in I!Actors
    PROVE  /\ actor[a] \in ActorStates
           /\ I!Busy(a) => actor[a] \in SyncRec
           /\ actor[a].pc \in {"sync", "slack", "svix", "commit"} <=> I!Busy(a)
<1>1. actor[a] \in ActorStates
  BY DEF SyncTypes
<1> QED  BY <1>1 DEF ActorStates, SyncRec, I!Idle, I!Busy

(* An actor goes on, or lets go; what it holds it has held before.         *)
Proceeds(a) ==
    \E r \in ActorStates :
        /\ r.pc = "sync" => r.holds = "none"
        /\ r \in SyncRec => \/ r.holds = "none"
                            \/ /\ actor[a] \in SyncRec
                               /\ r.type = actor[a].type /\ r.holds = actor[a].holds
        /\ actor' = [actor EXCEPT ![a] = r]

LEMMA ProceedsKeeps ==
    ASSUME SyncInv, NEW a \in I!Actors, Proceeds(a), UNCHANGED <<connections, contended>>,
           jobs' \in Seq(IntegrationJob)
    PROVE  SyncInv'
<1>1. PICK r : /\ r \in ActorStates /\ (r.pc = "sync" => r.holds = "none")
               /\ r \in SyncRec => \/ r.holds = "none"
                                   \/ /\ actor[a] \in SyncRec
                                      /\ r.type = actor[a].type
                                      /\ r.holds = actor[a].holds
               /\ actor' = [actor EXCEPT ![a] = r]
  BY DEF Proceeds
<1>2. SyncTypes /\ actor \in [I!Actors -> ActorStates]
  BY DEF SyncInv, SyncTypes
<1>3. actor'[a] = r /\ \A b \in I!Actors : b # a => actor'[b] = actor[b]
  BY <1>1, <1>2
<1>4. SyncTypes'
  BY <1>1, <1>2, <1>3 DEF SyncTypes
<1>5. \A b \in I!Actors, type \in I!Types : Inserts(b, type)' => Inserts(b, type)
  <2> SUFFICES ASSUME NEW b \in I!Actors, NEW type \in I!Types, Inserts(b, type)'
               PROVE  Inserts(b, type)
    OBVIOUS
  <2>1. CASE b # a
    BY <2>1, <1>3 DEF Inserts, I!Holds, I!Busy
  <2>2. CASE b = a
    <3>1. r.pc \notin {"idle", "ack"} /\ r.type = type /\ r.holds = "inserted"
      BY <2>2, <1>3 DEF Inserts, I!Holds, I!Busy
    <3>2. r \in SyncRec
      BY <1>1, <3>1 DEF ActorStates, I!Idle
    <3>3. actor[a] \in SyncRec /\ actor[a].type = type /\ actor[a].holds = "inserted"
      BY <1>1, <3>1, <3>2
    <3> QED  BY <2>2, <3>3 DEF Inserts, I!Holds, I!Busy, SyncRec
  <2> QED  BY <2>1, <2>2
<1> QED  BY <1>4, <1>5 DEF SyncInv, OneInsert

LEMMA JobsKeepTyped ==
    ASSUME SyncTypes, NEW j,
           \/ jobs' = jobs
           \/ \E x \in {"dead", "deleted"} : jobs' = [jobs EXCEPT ![j].state = x]
           \/ j \in I!JobIds /\ jobs' = [jobs EXCEPT ![j].receives = @ + 1]
    PROVE  jobs' \in Seq(IntegrationJob)
<1>1. jobs \in Seq(IntegrationJob)
  BY DEF SyncTypes
<1>2. CASE j \in 1..Len(jobs)
  <2>1. jobs[j] \in IntegrationJob
    BY <1>1, <1>2
  <2>2. ASSUME NEW x \in {"dead", "deleted"}, jobs' = [jobs EXCEPT ![j].state = x]
        PROVE  jobs' \in Seq(IntegrationJob)
    <3>1. jobs' = [jobs EXCEPT ![j] = [jobs[j] EXCEPT !.state = x]]
      BY <2>2
    <3>2. [jobs[j] EXCEPT !.state = x] \in IntegrationJob
      BY <2>1 DEF IntegrationJob
    <3> QED  BY <1>1, <1>2, <3>1, <3>2
  <2>3. CASE jobs' = [jobs EXCEPT ![j].receives = @ + 1]
    <3>1. jobs' = [jobs EXCEPT ![j] = [jobs[j] EXCEPT !.receives = @ + 1]]
      BY <2>3
    <3>2. [jobs[j] EXCEPT !.receives = @ + 1] \in IntegrationJob
      BY <2>1 DEF IntegrationJob
    <3> QED  BY <1>1, <1>2, <3>1, <3>2
  <2> QED  BY <1>1, <2>2, <2>3
<1>3. CASE j \notin 1..Len(jobs)
  <2>1. DOMAIN jobs = 1..Len(jobs)
    BY <1>1
  <2>2. \A x \in {"dead", "deleted"} : [jobs EXCEPT ![j].state = x] = jobs
    BY <1>1, <1>3, <2>1
  <2> QED  BY <1>1, <1>3, <2>2 DEF I!JobIds
<1> QED  BY <1>2, <1>3

LEMMA BecomesIdle ==
    ASSUME NEW a \in I!Actors, actor' = [actor EXCEPT ![a] = I!Idle]
    PROVE  Proceeds(a)
<1>1. I!Idle \in ActorStates /\ I!Idle.pc = "idle" /\ I!Idle \notin SyncRec
  BY DEF ActorStates, I!Idle, SyncRec
<1> QED  BY <1>1 DEF Proceeds

LEMMA StartsSyncing ==
    ASSUME NEW a \in I!Actors, NEW r \in SyncRec, r.holds = "none",
           actor' = [actor EXCEPT ![a] = r]
    PROVE  Proceeds(a)
<1>1. r \in ActorStates
  BY DEF ActorStates
<1> QED  BY <1>1 DEF Proceeds

LEMMA GoesOn ==
    ASSUME SyncTypes, NEW a \in I!Actors, I!Busy(a), NEW pc \in {"slack", "svix", "commit"},
           actor' = [actor EXCEPT ![a] = [actor[a] EXCEPT !.pc = pc]]
    PROVE  Proceeds(a)
<1> DEFINE r == [actor[a] EXCEPT !.pc = pc]
<1>1. actor[a] \in SyncRec
  BY ActorIsTyped
<1>2. r \in SyncRec /\ r.pc = pc /\ r.type = actor[a].type /\ r.holds = actor[a].holds
  BY <1>1 DEF SyncRec
<1> HIDE DEF r
<1>3. r \in ActorStates
  BY <1>2 DEF ActorStates
<1>4. actor' = [actor EXCEPT ![a] = r]
  BY DEF r
<1> QED  BY <1>1, <1>2, <1>3, <1>4 DEF Proceeds

LEMMA ReceiveSync ==
    ASSUME Types, SyncInv, NEW w \in Workers, NEW j \in I!JobIds, I!Receive(w, j)
    PROVE  SyncInv'
<1> DEFINE l == jobs[j].lead
           e == jobs[j].event
<1>1. SyncTypes /\ w \in I!Actors
  BY DEF SyncInv, I!Actors
<1>2. jobs[j] \in IntegrationJob /\ j \in Nat
  BY <1>1 DEF SyncTypes, I!JobIds
<1>3. UNCHANGED <<connections, contended>> /\ jobs' \in Seq(IntegrationJob)
  BY <1>1, JobsKeepTyped DEF I!Receive
<1>4. Proceeds(w)
  <2>1. CASE l \in DOMAIN lead /\ e # "timeline_created"
    <3> DEFINE r == I!Syncing("sync", j, e, "hubspot", l, lead[l].score, "none")
    <3>1. actor' = [actor EXCEPT ![w] = r]
      BY <2>1 DEF I!Receive, I!Set
    <3>2. lead[l].score \in Int
      BY <2>1 DEF Types, RowTypes, ScoreRow
    <3>3. e \in I!Events /\ l \in Leads
      BY <1>2 DEF IntegrationJob
    <3>4. r \in SyncRec /\ r.holds = "none"
      BY <1>2, <3>2, <3>3 DEF I!Syncing, SyncRec, I!Types
    <3> HIDE DEF r
    <3> QED  BY <1>1, <3>1, <3>4, StartsSyncing
  <2>2. CASE ~(l \in DOMAIN lead /\ e # "timeline_created")
    <3> DEFINE r == [pc |-> "ack", job |-> j]
    <3>1. actor' = [actor EXCEPT ![w] = r]
      BY <2>2 DEF I!Receive, I!Set
    <3>2. r \in ActorStates /\ r.pc = "ack" /\ r \notin SyncRec
      BY <1>2 DEF ActorStates, SyncRec
    <3> HIDE DEF r
    <3> QED  BY <3>1, <3>2 DEF Proceeds
  <2> QED  BY <2>1, <2>2
<1> QED  BY <1>1, <1>3, <1>4, ProceedsKeeps

LEMMA CallApiSync ==
    ASSUME Types, SyncInv, I!CallApi
    PROVE  SyncInv'
<1>1. SyncTypes /\ Api \in I!Actors
  BY DEF SyncInv, I!Actors
<1>2. UNCHANGED <<connections, contended, jobs>>
  BY DEF I!CallApi
<1>3. Proceeds(Api)
  <2>1. ASSUME NEW l \in DOMAIN lead,
               I!Set(Api, I!Syncing("sync", 0, "sync", "hubspot", l, 0, "none"))
        PROVE  Proceeds(Api)
    <3> DEFINE r == I!Syncing("sync", 0, "sync", "hubspot", l, 0, "none")
    <3>1. l \in Leads
      BY DEF Types, RowTypes
    <3>2. r \in SyncRec /\ r.holds = "none"
      BY <3>1 DEF I!Syncing, SyncRec, I!Types
    <3>3. actor' = [actor EXCEPT ![Api] = r]
      BY <2>1 DEF I!Set
    <3> HIDE DEF r
    <3> QED  BY <1>1, <3>2, <3>3, StartsSyncing
  <2>2. ASSUME I!Set(Api, I!Syncing("sync", 0, "booking", "google_calendar", None, 0, "none"))
        PROVE  Proceeds(Api)
    <3> DEFINE r == I!Syncing("sync", 0, "booking", "google_calendar", None, 0, "none")
    <3>1. r \in SyncRec /\ r.holds = "none"
      BY DEF I!Syncing, SyncRec, I!Types
    <3>2. actor' = [actor EXCEPT ![Api] = r]
      BY <2>2 DEF I!Set
    <3> HIDE DEF r
    <3> QED  BY <1>1, <3>1, <3>2, StartsSyncing
  <2> QED  BY <2>1, <2>2 DEF I!CallApi
<1>4. jobs' \in Seq(IntegrationJob)
  BY <1>1, <1>2 DEF SyncTypes
<1> QED  BY <1>1, <1>2, <1>3, <1>4, ProceedsKeeps

LEMMA GoesOnSync ==
    ASSUME SyncInv, NEW a \in I!Actors, I!ProviderRefuses(a) \/ I!NotifySlack(a)
    PROVE  SyncInv'
<1>1. SyncTypes
  BY DEF SyncInv
<1>2. UNCHANGED <<connections, contended, jobs>>
  BY DEF I!ProviderRefuses, I!NotifySlack
<1>3. I!Busy(a)
  BY DEF I!ProviderRefuses, I!NotifySlack, I!Busy
<1>4. \E pc \in {"slack", "svix", "commit"} :
          actor' = [actor EXCEPT ![a] = [actor[a] EXCEPT !.pc = pc]]
  BY DEF I!ProviderRefuses, I!NotifySlack, I!At, I!Set, I!AfterSync
<1>5. Proceeds(a)
  BY <1>1, <1>3, <1>4, GoesOn
<1>6. jobs' \in Seq(IntegrationJob)
  BY <1>1, <1>2 DEF SyncTypes
<1> QED  BY <1>2, <1>5, <1>6, ProceedsKeeps

LEMMA LetsGoSync ==
    ASSUME SyncInv, NEW a \in I!Actors,
           I!FindsSeveral(a) \/ I!Fails(a) \/ I!Acknowledge(a) \/ I!Crash(a)
    PROVE  SyncInv'
<1>1. SyncTypes
  BY DEF SyncInv
<1>2. /\ UNCHANGED <<connections, contended>>
      /\ actor' = [actor EXCEPT ![a] = I!Idle]
      /\ \/ jobs' = jobs
         \/ \E x \in {"dead", "deleted"} : jobs' = [jobs EXCEPT ![actor[a].job].state = x]
  BY DEF I!FindsSeveral, I!Fails, I!Acknowledge, I!Crash, I!Raise, I!Drop, I!Deleted, I!Set
<1>3. jobs' \in Seq(IntegrationJob)
  BY <1>1, <1>2, JobsKeepTyped
<1> QED  BY <1>2, <1>3, BecomesIdle, ProceedsKeeps

LEMMA UpsertSync ==
    ASSUME SyncInv, NEW a \in I!Actors, I!Upsert(a)
    PROVE  SyncInv'
<1>0. PICK type, found : type = actor[a].type /\ found = connections[type]
  OBVIOUS
<1>1. SyncTypes /\ actor[a].pc = "sync" /\ I!Busy(a) /\ actor[a] \in SyncRec
  BY ActorIsTyped DEF SyncInv, I!Upsert, I!Busy
<1>2. type \in I!Types /\ found \in {0, 1} /\ connections \in [I!Types -> Nat]
  BY <1>0, <1>1 DEF SyncRec, SyncTypes, I!Upsert
<1>3. PICK r : /\ r \in SyncRec /\ r.pc \in {"slack", "svix", "commit"}
               /\ r.type = type /\ r.holds = I!Upserted(found)
               /\ actor' = [actor EXCEPT ![a] = r]
  <2> DEFINE next == I!AfterSync(a)
             held == I!Upserted(found)
             r    == [[actor[a] EXCEPT !.pc = next] EXCEPT !.holds = held]
  <2>1. actor' = [actor EXCEPT ![a] = r]
    BY <1>0 DEF I!Upsert, I!At, I!Set
  <2>2. next \in {"slack", "svix", "commit"} /\ held \in {"inserted", "updated"}
    BY DEF I!AfterSync, I!Upserted
  <2> HIDE DEF next, held
  <2>3. /\ r \in SyncRec /\ r.pc = next
        /\ r.type = type /\ r.holds = held
    BY <1>0, <1>1, <2>2 DEF SyncRec
  <2> HIDE DEF r
  <2> QED  BY <2>1, <2>2, <2>3 DEF held
<1>4. actor'[a] = r /\ \A b \in I!Actors : b # a => actor'[b] = actor[b]
  BY <1>1, <1>3 DEF SyncTypes
<1>5. /\ UNCHANGED <<connections, jobs>>
      /\ contended' = IF \E b \in I!Actors : Inserts(b, type)
                      THEN contended \cup {type} ELSE contended
  BY <1>0 DEF I!Upsert, Inserts
<1>6. SyncTypes'
  <2>1. actor' \in [I!Actors -> ActorStates]
    BY <1>1, <1>3 DEF SyncTypes, ActorStates
  <2> QED  BY <1>1, <1>3, <1>4, <1>5, <2>1 DEF SyncTypes
<1>7. \A b \in I!Actors : b # a => \A x : Inserts(b, x)' <=> Inserts(b, x)
  BY <1>4 DEF Inserts, I!Holds, I!Busy
<1>8. \A x : Inserts(a, x)' <=> x = type /\ found = 0
  BY <1>2, <1>3, <1>4 DEF Inserts, I!Holds, I!Busy, I!Upserted
<1>9. ASSUME NEW x \in I!Types \ contended'
      PROVE  OneInsert(x)'
  <2>1. x \notin contended /\ OneInsert(x)
    BY <1>5, <1>9 DEF SyncInv
  <2>2. CASE x # type
    BY <2>1, <2>2, <1>5, <1>7, <1>8 DEF OneInsert
  <2>3. CASE x = type
    <3>1. \A b \in I!Actors : ~Inserts(b, x)
      BY <1>5, <1>9, <2>3
    <3> QED  BY <2>1, <2>3, <3>1, <1>0, <1>5, <1>7, <1>8 DEF OneInsert
  <2> QED  BY <2>2, <2>3
<1> QED  BY <1>6, <1>9 DEF SyncInv

LEMMA CommittedSync ==
    ASSUME SyncInv, NEW a \in I!Actors, I!Busy(a), I!Committed(a), I!Set(a, I!Idle),
           contended' = contended, jobs' \in Seq(IntegrationJob)
    PROVE  SyncInv'
<1>0. PICK type : type = actor[a].type
  OBVIOUS
<1>1. SyncTypes /\ actor[a] \in SyncRec /\ type \in I!Types
      /\ connections \in [I!Types -> Nat]
  BY <1>0, ActorIsTyped DEF SyncInv, SyncRec, SyncTypes
<1>2. actor'[a] = I!Idle /\ \A b \in I!Actors : b # a => actor'[b] = actor[b]
  BY <1>1 DEF I!Set, SyncTypes
<1>3. SyncTypes'
  <2>1. actor' \in [I!Actors -> ActorStates]
    BY <1>1 DEF SyncTypes, ActorStates, I!Set
  <2>2. connections' \in [I!Types -> Nat]
    BY <1>0, <1>1 DEF I!Committed
  <2>3. \A b \in I!Actors : actor'[b].pc = "sync" => actor'[b].holds = "none"
    BY <1>1, <1>2 DEF SyncTypes, I!Idle
  <2> QED  BY <2>1, <2>2, <2>3 DEF SyncTypes
<1>4. \A b \in I!Actors : \A x : Inserts(b, x)' <=> b # a /\ Inserts(b, x)
  BY <1>2 DEF Inserts, I!Holds, I!Busy, I!Idle
<1>5. ASSUME NEW x \in I!Types \ contended'
      PROVE  OneInsert(x)'
  <2>1. OneInsert(x)
    BY <1>5 DEF SyncInv
  <2>2. CASE Inserts(a, x)
    <3>1. actor[a].holds = "inserted" /\ x = type
      BY <1>0, <2>2 DEF Inserts, I!Holds
    <3>2. connections'[x] = connections[x] + 1 /\ connections[x] = 0
      BY <1>0, <1>1, <2>1, <2>2, <3>1 DEF I!Committed, OneInsert
    <3>3. \A b \in I!Actors : ~Inserts(b, x)'
      BY <1>4, <2>1, <2>2 DEF OneInsert
    <3> QED  BY <3>2, <3>3 DEF OneInsert
  <2>3. CASE ~Inserts(a, x)
    <3>1. actor[a].holds = "inserted" => x # type
      BY <1>0, <2>3 DEF Inserts, I!Holds
    <3>2. connections'[x] = connections[x]
      BY <1>0, <1>1, <3>1 DEF I!Committed
    <3> QED  BY <1>4, <2>1, <3>2 DEF OneInsert
  <2> QED  BY <2>2, <2>3
<1> QED  BY <1>3, <1>5 DEF SyncInv

LEMMA CommitsSync ==
    ASSUME SyncInv,
           I!AnswerApi \/ \E w \in Workers : I!PublishSvix(w)
    PROVE  SyncInv'
<1>1. SyncTypes
  BY DEF SyncInv
<1>2. CASE I!AnswerApi
  <2>1. /\ Api \in I!Actors /\ I!Busy(Api) /\ I!Committed(Api) /\ I!Set(Api, I!Idle)
        /\ UNCHANGED <<jobs, contended>>
    BY <1>2 DEF I!AnswerApi, I!Actors, I!Busy
  <2> QED  BY <1>1, <2>1, CommittedSync DEF SyncTypes
<1>3. ASSUME NEW w \in Workers, I!PublishSvix(w)
      PROVE  SyncInv'
  <2>1. /\ w \in I!Actors /\ I!Busy(w) /\ I!Committed(w) /\ I!Set(w, I!Idle)
        /\ contended' = contended
    BY <1>3 DEF I!PublishSvix, I!Actors, I!Busy
  <2>2. \/ jobs' = jobs
        \/ jobs' = [jobs EXCEPT ![actor[w].job].state = "deleted"]
    BY <1>3 DEF I!PublishSvix, I!Deleted
  <2>3. jobs' \in Seq(IntegrationJob)
    BY <1>1, <2>2, JobsKeepTyped
  <2> QED  BY <2>1, <2>3, CommittedSync
<1> QED  BY <1>2, <1>3

LEMMA ArriveSync ==
    ASSUME SyncInv, NEW event \in I!Events, NEW l \in Leads, I!Arrive(event, l)
    PROVE  SyncInv'
<1> DEFINE row == [event |-> event, lead |-> l, receives |-> 0, state |-> "queued"]
<1>1. row \in IntegrationJob
  BY DEF IntegrationJob
<1>2. jobs' = Append(jobs, row) /\ UNCHANGED <<connections, actor, contended>>
  BY DEF I!Arrive
<1> HIDE DEF row
<1>3. jobs' \in Seq(IntegrationJob)
  BY <1>1, <1>2 DEF SyncInv, SyncTypes
<1> QED  BY <1>2, <1>3 DEF SyncInv, SyncTypes, OneInsert, Inserts, I!Holds, I!Busy

LEMMA SyncInvStep ==
    ASSUME Types, SyncInv, [NextBoth]_allVars
    PROVE  SyncInv'
<1>1. CASE UNCHANGED syncVars
  BY <1>1 DEF syncVars, SyncInv, SyncTypes, OneInsert, Inserts, I!Holds, I!Busy
<1>2. CASE Score(ApiStep) \/ PatchLost \/ UNCHANGED allVars
  BY <1>1, <1>2 DEF Score, PatchLost, allVars
<1>3. CASE PublishPatched
  <2>1. caller.event \in I!Events /\ caller.lead \in Leads
    BY <1>3 DEF PublishPatched, PublishPatch, Types, CallerTypes, CallerStates, Quiet, I!Events
  <2> QED  BY <1>3, <2>1, ArriveSync DEF PublishPatched
<1>4. ASSUME NEW w \in Workers, Handle(w) \/ PublishScored(w) \/ Poll(w)
      PROVE  SyncInv'
  <2>1. CASE Handle(w) \/ \E j \in JobIds : Score(Begin(w, j))
    BY <1>1, <2>1 DEF Score, Handle
  <2>2. CASE PublishScored(w)
    <3>1. worker[w].lead \in Leads /\ "score_updated" \in I!Events
      BY <2>2, WorkerIsTyped DEF PublishScored, Publish, PublishRec, I!Events
    <3> QED  BY <2>2, <3>1, ArriveSync DEF PublishScored
  <2>3. CASE \E j \in I!JobIds : I!Receive(w, j)
    BY <2>3, ReceiveSync
  <2> QED  BY <1>4, <2>1, <2>2, <2>3 DEF Poll
<1>5. CASE I!Step
  <2>1. ASSUME NEW a \in I!Actors, I!ActorStep(a)
        PROVE  SyncInv'
    BY <2>1, GoesOnSync, UpsertSync, LetsGoSync DEF I!ActorStep
  <2>2. ASSUME NEW w \in Workers, I!NotifySlack(w) \/ I!Acknowledge(w) \/ I!Crash(w)
        PROVE  SyncInv'
    BY <2>2, GoesOnSync, LetsGoSync DEF I!Actors
  <2> QED  BY <1>5, <2>1, <2>2, CallApiSync, CommitsSync DEF I!Step
<1> QED  BY <1>2, <1>3, <1>4, <1>5 DEF NextBoth

LEMMA SyncAlways == SpecBoth => []SyncInv
<1>1. InitBoth => SyncInv
  <2> SUFFICES ASSUME InitBoth
               PROVE  SyncInv
    OBVIOUS
  <2>1. /\ connections = [t \in I!Types |-> 0] /\ jobs = <<>>
        /\ actor = [a \in I!Actors |-> I!Idle]
    BY DEF InitBoth, I!Init
  <2>2. I!Idle \in ActorStates /\ I!Idle.pc = "idle"
    BY DEF ActorStates, I!Idle
  <2>3. SyncTypes /\ \A a \in I!Actors : \A x : ~Inserts(a, x)
    BY <2>1, <2>2 DEF SyncTypes, Inserts, I!Holds, I!Busy
  <2> QED  BY <2>1, <2>3 DEF SyncInv, OneInsert
<1>2. Types /\ SyncInv /\ [NextBoth]_allVars => SyncInv'
  BY SyncInvStep
<1> QED  BY <1>1, <1>2, ScoringTypes, PTL DEF SpecBoth

(* Two connections of one type appear only after such a lookup.            *)
THEOREM ConnectionsRace == SpecBoth => []ConnectionsOnlyFromRaces
<1>1. SyncInv => ConnectionsOnlyFromRaces
  BY DEF SyncInv, SyncTypes, OneInsert, ConnectionsOnlyFromRaces, I!ConnectionsOnlyFromRaces
<1> QED  BY <1>1, SyncAlways, PTL

-----------------------------------------------------------------------------
(* BilledPerJob.  What the calls of the API and the integrations leave     *)
(* alone; then, one by one, the three sums and the annotations.            *)
ApiSide == ApiStep \/ PublishPatch \/ PatchDies \/ Elsewhere

LEMMA ApiLeaves ==
    ASSUME Types, ApiSide
    PROVE  /\ UNCHANGED <<worker, cache, calls, billed, runs>>
           /\ mishaps' \in {mishaps, mishaps + 1}
           /\ aijobs' = aijobs \/ PublishMessage
           /\ \A d \in Days : usage'[d].sent = usage[d].sent
<1> DEFINE Left ==
        /\ UNCHANGED <<worker, cache, calls, billed, runs>>
        /\ mishaps' \in {mishaps, mishaps + 1}
        /\ aijobs' = aijobs \/ PublishMessage
<1>1. ASSUME NEW s, \/ CreateSession(s) \/ CreateMessage(s)
                    \/ AttachSession(s) \/ DeleteSession(s)
      PROVE  Left /\ usage' = usage
  BY <1>1 DEF CreateSession, CreateMessage, AttachSession, DeleteSession, Edit, rows, history
<1>2. ASSUME \/ SessionRefused \/ PublishMessage \/ MessageDies \/ Midnight
             \/ PublishPatch \/ PatchDies
      PROVE  Left /\ usage' = usage
  BY <1>2 DEF SessionRefused, PublishMessage, MessageDies, Midnight, PublishPatch,
              PatchDies, Fault, rows, history
<1>3. ASSUME NEW m, UpdateMessage(m) \/ DeleteMessage(m)
      PROVE  Left /\ usage' = usage
  BY <1>3 DEF UpdateMessage, DeleteMessage, Edit
<1>4. ASSUME NEW l, PatchScore(l) \/ AddTimelineEvent(l) \/ DeleteLead(l)
      PROVE  Left /\ usage' = usage
  BY <1>4 DEF PatchScore, AddTimelineEvent, DeleteLead, Edit
<1>5. ASSUME CommitSession
      PROVE  Left /\ \A d \in Days : usage'[d].sent = usage[d].sent
  <2>1. Left
    BY <1>5 DEF CommitSession
  <2>2. usage \in [Days -> UsageRow]
    BY DEF Types, CountTypes
  <2> DEFINE d == caller.day
             u == [usage[d] EXCEPT !.row = TRUE, !.opened = caller.usage.opened + 1]
  <2>3. usage' = [usage EXCEPT ![d] = u]
    BY <1>5 DEF CommitSession
  <2>4. d \in Days => u.sent = usage[d].sent
    BY <2>2 DEF UsageRow
  <2> HIDE DEF u
  <2> QED  BY <2>1, <2>2, <2>3, <2>4
<1>6. ASSUME Elsewhere
      PROVE  Left /\ usage' = usage
  BY <1>6 DEF Elsewhere, ownVars
<1> DEFINE Goal == Left /\ \A d \in Days : usage'[d].sent = usage[d].sent
<1>7. Left /\ usage' = usage => Goal
  OBVIOUS
<1>8. CommitSession => Goal
  BY <1>5
<1> HIDE DEF Left, Goal
<1>9. ASSUME \E s \in Sessions : \/ CreateSession(s) \/ CreateMessage(s)
                                  \/ AttachSession(s) \/ DeleteSession(s)
      PROVE  Goal
  BY <1>1, <1>7, <1>9
<1>10. ASSUME \E m \in 1..MaxCreated : UpdateMessage(m) \/ DeleteMessage(m)
      PROVE  Goal
  BY <1>3, <1>7, <1>10
<1>11. ASSUME \E l \in Leads : PatchScore(l) \/ AddTimelineEvent(l) \/ DeleteLead(l)
       PROVE  Goal
  BY <1>4, <1>7, <1>11
<1>12. Goal
  BY <1>2, <1>6, <1>7, <1>8, <1>9, <1>10, <1>11 DEF ApiSide, ApiStep
<1> QED  BY <1>12 DEF Left, Goal

LEMMA MessageIsQueued ==
    ASSUME Types, PublishMessage
    PROVE  /\ Len(aijobs') = Len(aijobs) + 1
           /\ \A j \in JobIds : j \in JobIds' /\ aijobs'[j] = aijobs[j]
           /\ \A j \in JobIds' : j \in JobIds \/ j = Len(aijobs')
           /\ Len(aijobs') \in JobIds' \ JobIds
           /\ aijobs'[Len(aijobs')].message = caller.message
           /\ aijobs'[Len(aijobs')].state = "queued"
           /\ \A j \in JobIds : aijobs[j].message # caller.message
           /\ \A w \in Workers : worker'[w] = worker[w] /\ worker[w].job # Len(aijobs')
<1> DEFINE row == [message |-> caller.message, receives |-> 0, state |-> "queued"]
<1>1. aijobs' = Append(aijobs, row) /\ worker' = worker
      /\ \A j \in JobIds : aijobs[j].message # caller.message
  BY DEF PublishMessage, Types, CallerTypes
<1>2. aijobs \in Seq(JobRow)
  BY DEF Types, JobTypes
<1>3. row.message = caller.message /\ row.state = "queued"
  OBVIOUS
<1> HIDE DEF row
<1>4. /\ Len(aijobs') = Len(aijobs) + 1
      /\ \A j \in JobIds : j \in JobIds' /\ aijobs'[j] = aijobs[j]
      /\ \A j \in JobIds' : j \in JobIds \/ j = Len(aijobs')
      /\ Len(aijobs') \in JobIds' \ JobIds
      /\ aijobs'[Len(aijobs')] = row
  BY <1>1, <1>2 DEF JobIds
<1>5. Len(aijobs') # 0
  BY <1>2, <1>4
<1>6. \A w \in Workers : worker[w].job \in JobIds \cup {0}
  BY WorkerIsTyped DEF Idle
<1>7. \A w \in Workers : worker[w].job # Len(aijobs')
  BY <1>4, <1>5, <1>6
<1> QED  BY <1>1, <1>3, <1>4, <1>7

(* The usage record of a day counts no message twice.                      *)
RunsInv ==
    /\ \A d \in Days : usage[d].sent <= runs[d]
    /\ \A w \in Workers : worker[w].pc \in {"usage", "commit"} =>
                              worker[w].usage.sent <= runs[worker[w].day]

LEMMA RunsInvStep ==
    ASSUME Types, RunsInv, Next \/ Elsewhere
    PROVE  RunsInv'
<1>1. usage \in [Days -> UsageRow] /\ runs \in [Days -> Nat] /\ day \in Days
  BY DEF Types, CountTypes
<1>2. \A d \in Days : usage[d].sent \in Nat
  BY <1>1 DEF UsageRow
<1> DEFINE Counts(w) == worker[w].pc \in {"usage", "commit"}
<1>3. ASSUME NEW w \in Workers, NEW r, worker' = [worker EXCEPT ![w] = r],
             r.pc \in {"usage", "commit"} => r.usage.sent <= runs[r.day],
             UNCHANGED <<usage, runs>>
      PROVE  RunsInv'
  BY <1>3, WorkerSetTo DEF RunsInv
<1>4. ASSUME ApiSide
      PROVE  RunsInv'
  BY <1>4, ApiLeaves DEF RunsInv
<1>5. ASSUME NEW w \in Workers, NEW j \in JobIds, Begin(w, j)
      PROVE  RunsInv'
  <2>1. UNCHANGED <<usage, runs>>
    BY <1>5 DEF Begin, FindsNoMessage, CacheHit, CacheMiss, Receive
  <2>2. CASE FindsNoMessage(w, j)
    BY <2>1, <2>2, <1>3 DEF FindsNoMessage, Set
  <2>3. CASE CacheMiss(w, j)
    BY <2>1, <2>3, <1>3 DEF CacheMiss, Set
  <2>4. CASE CacheHit(w, j)
    <3> DEFINE row == message[aijobs[j].message]
               a   == cache[CacheKey(aijobs[j].message, row)]
               r   == [pc |-> "analyzed", job |-> j, read |-> row, answer |-> a,
                       dirty |-> a # row.note]
    <3>1. worker' = [worker EXCEPT ![w] = r]
      BY <2>4 DEF CacheHit, Analyzed, Set
    <3>2. r.pc = "analyzed"
      OBVIOUS
    <3> HIDE DEF r
    <3> QED  BY <3>1, <3>2, <2>1, <1>3
  <2> QED  BY <1>5, <2>2, <2>3, <2>4 DEF Begin
<1>6. ASSUME NEW w \in Workers, HandlerStep(w) \/ Publish(w)
      PROVE  RunsInv'
  <2>1. CASE Analyze(w)
    <3>1. UNCHANGED <<usage, runs>>
      BY <2>1 DEF Analyze
    <3>2. \E r : r.pc = "analyzed" /\ worker' = [worker EXCEPT ![w] = r]
      BY <2>1, AnalyzeTyped DEF AnalyzedRec
    <3> QED  BY <3>1, <3>2, <1>3
  <2>2. CASE ReadUsage(w)
    <3>1. UNCHANGED <<usage, runs>>
      BY <2>2 DEF ReadUsage
    <3> DEFINE t == worker[w]
               r == [pc |-> "usage", job |-> t.job, read |-> t.read, answer |-> t.answer,
                     dirty |-> t.dirty, day |-> day, usage |-> usage[day]]
    <3>2. worker' = [worker EXCEPT ![w] = r]
      BY <2>2 DEF ReadUsage, Set
    <3>3. r.usage.sent <= runs[r.day]
      BY <1>1 DEF RunsInv
    <3> HIDE DEF r
    <3> QED  BY <3>1, <3>2, <3>3, <1>3
  <2>3. CASE ReadLead(w)
    <3>1. UNCHANGED <<usage, runs>>
      BY <2>3 DEF ReadLead
    <3>2. \E r : /\ r.usage = worker[w].usage /\ r.day = worker[w].day
                 /\ worker' = [worker EXCEPT ![w] = r]
      BY <2>3 DEF ReadLead, Set
    <3>3. worker[w].usage.sent <= runs[worker[w].day]
      BY <2>3 DEF ReadLead, RunsInv
    <3> QED  BY <3>1, <3>2, <3>3, <1>3
  <2>4. CASE Commit(w)
    <3>0. PICK d : d = worker[w].day
      OBVIOUS
    <3>1. worker[w] \in CommitRec /\ worker[w].pc = "commit"
      BY <2>4, WorkerIsTyped DEF Commit
    <3>2. d \in Days /\ worker[w].usage.sent <= runs[d] /\ worker[w].usage.sent \in Nat
      BY <3>0, <3>1 DEF RunsInv, CommitRec, UsageRow
    <3>3. usage' = [usage EXCEPT ![d] = CountedUsage(usage[d], worker[w])]
          /\ runs' = [runs EXCEPT ![d] = @ + 1]
      BY <2>4, <3>0 DEF Commit
    <3>4. CountedUsage(usage[d], worker[w]).sent = worker[w].usage.sent + 1
      BY <1>1, <3>2 DEF CountedUsage, UsageRow
    <3>5. \A e \in Days : runs[e] <= runs'[e] /\ runs[e] \in Nat /\ runs'[e] \in Nat
      BY <1>1, <3>3
    <3>6. \A e \in Days : usage'[e].sent <= runs'[e]
      <4> SUFFICES ASSUME NEW e \in Days
                   PROVE  usage'[e].sent <= runs'[e]
        OBVIOUS
      <4>1. CASE e = d
        BY <4>1, <1>1, <3>2, <3>3, <3>4
      <4>2. CASE e # d
        BY <4>2, <1>1, <3>3 DEF RunsInv
      <4> QED  BY <4>1, <4>2
    <3>7. NoNewWriter /\ \A v \in Workers : worker'[v].pc = "usage" => worker'[v] = worker[v]
      <4> DEFINE t == worker[w]
                 r == IF t.lead # None
                      THEN [pc |-> "publish", job |-> t.job, lead |-> t.lead]
                      ELSE [pc |-> "ack", job |-> t.job]
      <4>1. worker' = [worker EXCEPT ![w] = r]
        BY <2>4 DEF Commit, Set
      <4>2. r.pc \notin {"usage", "commit"}
        OBVIOUS
      <4> HIDE DEF r
      <4> QED  BY <4>1, <4>2, WorkerSetTo DEF NoNewWriter
    <3>8. \A v \in Workers : worker'[v].pc \in {"usage", "commit"} =>
                                 worker'[v].usage.sent <= runs'[worker'[v].day]
      <4> SUFFICES ASSUME NEW v \in Workers, worker'[v].pc \in {"usage", "commit"}
                   PROVE  worker'[v].usage.sent <= runs'[worker'[v].day]
        OBVIOUS
      <4>1. worker'[v] = worker[v]
        BY <3>7 DEF NoNewWriter
      <4>2. worker[v].usage.sent \in Nat /\ worker[v].day \in Days
            /\ worker[v].usage.sent <= runs[worker[v].day]
        BY <4>1, WorkerIsTyped DEF RunsInv, UsageRec, CommitRec, UsageRow
      <4> QED  BY <4>1, <4>2, <3>5
    <3> QED  BY <3>6, <3>8 DEF RunsInv
  <2>5. CASE \/ FlushRefused(w) \/ UsageConflict(w) \/ CommitRefused(w)
             \/ HandlerFails(w) \/ Acknowledge(w) \/ Crash(w) \/ Publish(w)
    <3>1. worker' = [worker EXCEPT ![w] = Idle] /\ UNCHANGED <<usage, runs>>
      BY <2>5 DEF FlushRefused, UsageConflict, CommitRefused, HandlerFails, Acknowledge,
                  Crash, Publish, Raise, Drop, Set
    <3> QED  BY <3>1, <1>3 DEF Idle
  <2> QED  BY <1>6, <2>1, <2>2, <2>3, <2>4, <2>5 DEF HandlerStep
<1> QED  BY <1>4, <1>5, <1>6 DEF Next, ApiSide

(* What the steps of a handler do.                                         *)
LEMMA BeginShape ==
    ASSUME Types, NEW w \in Workers, NEW j \in JobIds, Begin(w, j)
    PROVE  LET m == aijobs[j].message
               r == worker'[w]
           IN
           /\ worker[w] = Idle /\ aijobs[j].state = "queued"
           /\ JobsStay /\ \A i \in JobIds : aijobs'[i].state = aijobs[i].state
           /\ UNCHANGED <<message, session, lead, timeline, cache, calls, billed, created,
                          caller, unscored, uprooted, retouched, straddled>>
           /\ \A v \in Workers : v # w => worker'[v] = worker[v]
           /\ r.job = j /\ r.pc \in {"ack", "call", "analyzed"}
           /\ r.pc = "ack" => m \notin DOMAIN message
           /\ r.pc = "call" => m \in DOMAIN message /\ r.read = message[m]
           /\ r.pc = "analyzed" => /\ m \in DOMAIN message /\ r.read = message[m]
                                   /\ ~r.dirty => message[m].note # None
           /\ mishaps' \in {mishaps, mishaps + 1}
           /\ mishaps' = mishaps => /\ ~Held(j)
                                    /\ r.pc = "call" => CacheKey(m, r.read) \notin DOMAIN cache
<1> DEFINE m == aijobs[j].message
<1>1. Receive(w, j)
  BY DEF Begin, FindsNoMessage, CacheHit, CacheMiss
<1>2. /\ worker[w] = Idle /\ aijobs[j].state = "queued"
      /\ UNCHANGED <<message, session, lead, timeline, cache, calls, billed, created,
                     caller, unscored, uprooted, retouched, straddled>>
  BY <1>1 DEF Receive, WorkerOnly, rows
<1>3. JobsStay
  BY <1>1, JobChangesStay DEF Receive
<1>4. \A i \in JobIds : aijobs'[i].state = aijobs[i].state
  <2>1. aijobs' = [aijobs EXCEPT ![j] = [aijobs[j] EXCEPT !.receives = @ + 1]]
    BY <1>1 DEF Receive
  <2>2. aijobs \in Seq(JobRow) /\ aijobs[j] \in JobRow
    BY JobsAreTyped DEF Types, JobTypes
  <2>3. [aijobs[j] EXCEPT !.receives = @ + 1].state = aijobs[j].state
    BY <2>2 DEF JobRow
  <2> QED  BY <2>1, <2>2, <2>3 DEF JobIds
<1> DEFINE Rest(r) ==
      /\ r.job = j /\ r.pc \in {"ack", "call", "analyzed"}
      /\ r.pc = "ack" => m \notin DOMAIN message
      /\ r.pc = "call" => m \in DOMAIN message /\ r.read = message[m]
      /\ r.pc = "analyzed" => /\ m \in DOMAIN message /\ r.read = message[m]
                              /\ ~r.dirty => message[m].note # None
      /\ mishaps' \in {mishaps, mishaps + 1}
      /\ mishaps' = mishaps => /\ ~Held(j)
                               /\ r.pc = "call" => CacheKey(m, r.read) \notin DOMAIN cache
<1>5. \E r : worker' = [worker EXCEPT ![w] = r] /\ Rest(r)
  <2>0. mishaps \in Nat
    BY FaultIsCounted
  <2>1. CASE FindsNoMessage(w, j)
    <3> DEFINE r == [pc |-> "ack", job |-> j]
    <3>1. worker' = [worker EXCEPT ![w] = r] /\ Rest(r)
      BY <2>0, <2>1 DEF FindsNoMessage, Set, Timely, Fault
    <3> QED  BY <3>1
  <2>2. CASE CacheHit(w, j)
    <3> DEFINE a == cache[CacheKey(m, message[m])]
               r == [pc |-> "analyzed", job |-> j, read |-> message[m], answer |-> a,
                     dirty |-> a # message[m].note]
    <3>1. worker' = [worker EXCEPT ![w] = r] /\ m \in DOMAIN message
          /\ CacheKey(m, message[m]) \in DOMAIN cache
      BY <2>2 DEF CacheHit, Analyzed, Set
    <3>2. a # None
      <4>1. a \in Analyses
        BY <3>1 DEF Types, CacheTypes
      <4> QED  BY <4>1, AnalysesAreSized
    <3>3. mishaps' \in {mishaps, mishaps + 1} /\ (mishaps' = mishaps => ~Held(j))
      BY <2>0, <2>2 DEF CacheHit, Timely, Fault
    <3>4. ~r.dirty => message[m].note # None
      BY <3>2
    <3>5. r.job = j /\ r.pc = "analyzed" /\ r.read = message[m]
      OBVIOUS
    <3> HIDE DEF r
    <3>6. Rest(r)
      BY <3>1, <3>3, <3>4, <3>5
    <3> QED  BY <3>1, <3>6
  <2>3. CASE CacheMiss(w, j)
    <3> DEFINE r == [pc |-> "call", job |-> j, read |-> message[m]]
    <3>1. worker' = [worker EXCEPT ![w] = r] /\ Rest(r)
      BY <2>0, <2>3 DEF CacheMiss, Set, Fault
    <3> QED  BY <3>1
  <2> QED  BY <2>1, <2>2, <2>3 DEF Begin
<1>6. PICK r : worker' = [worker EXCEPT ![w] = r] /\ Rest(r)
  BY <1>5
<1>7. worker'[w] = r /\ \A v \in Workers : v # w => worker'[v] = worker[v]
  BY <1>6, WorkerSetTo
<1> QED  BY <1>2, <1>3, <1>4, <1>6, <1>7

(* A handler lets go of its job: it is deleted only when the handler has   *)
(* finished, and a handler that has to raise has not.                      *)
LetsGo(w) ==
    \/ FlushRefused(w) \/ UsageConflict(w) \/ CommitRefused(w) \/ HandlerFails(w)
    \/ Acknowledge(w) \/ Crash(w) \/ Publish(w)

LEMMA LetGoShape ==
    ASSUME Types, NEW w \in Workers, LetsGo(w)
    PROVE  /\ worker[w].pc # "idle" /\ worker'[w] = Idle
           /\ \A v \in Workers : v # w => worker'[v] = worker[v]
           /\ JobsStay
           /\ UNCHANGED <<message, session, lead, timeline, cache, calls, billed, created,
                          caller, unscored, uprooted, retouched, straddled>>
           /\ \A i \in JobIds : i # worker[w].job => aijobs'[i].state = aijobs[i].state
           /\ LET old == aijobs[worker[w].job].state
                  new == aijobs'[worker[w].job].state
              IN  \/ new = old
                  \/ old = "queued" /\ new = "deleted" /\ worker[w].pc \in {"publish", "ack"}
                  \/ old = "queued" /\ new = "dead"
           /\ \/ mishaps' = mishaps + 1
              \/ mishaps' = mishaps /\ worker[w].pc \in {"analyzed", "usage", "commit"}
              \/ /\ mishaps' = mishaps /\ worker[w].pc \in {"publish", "ack"}
                 /\ aijobs'[worker[w].job].state # "queued"
                 /\ aijobs[worker[w].job].state = "queued" =>
                        aijobs'[worker[w].job].state = "deleted"
<1>1. PICK j : j = worker[w].job
  OBVIOUS
<1>2. worker[w].pc # "idle"
  BY DEF LetsGo, FlushRefused, UsageConflict, CommitRefused, HandlerFails, Acknowledge,
         Crash, Publish
<1>3. j \in JobIds /\ aijobs \in Seq(JobRow) /\ aijobs[j] \in JobRow
  BY <1>1, <1>2, WorkerIsTyped, JobsAreTyped DEF Types, JobTypes
<1>4. mishaps' \in Nat
  BY FaultIsCounted DEF LetsGo, FlushRefused, UsageConflict, CommitRefused, HandlerFails,
         Acknowledge, Crash, Publish
<1>5. \/ Raise(w)
      \/ Drop(w) /\ (Deleted(j) \/ UNCHANGED aijobs)
  BY <1>1 DEF LetsGo, FlushRefused, UsageConflict, CommitRefused, HandlerFails, Acknowledge,
         Crash, Publish
<1>6. /\ JobsStay /\ worker' = [worker EXCEPT ![w] = Idle]
      /\ UNCHANGED <<Outside, Results, unscored, calls, cache>>
  BY <1>1, <1>2, <1>4, <1>5, LetGoTyped
<1>7. worker'[w] = Idle /\ \A v \in Workers : v # w => worker'[v] = worker[v]
  BY <1>6, WorkerSetTo
<1>8. ASSUME NEW x \in {"dead", "deleted"}, aijobs' = [aijobs EXCEPT ![j].state = x]
      PROVE  /\ \A i \in JobIds : i # j => aijobs'[i].state = aijobs[i].state
             /\ aijobs'[j].state = x
  <2>1. aijobs' = [aijobs EXCEPT ![j] = [aijobs[j] EXCEPT !.state = x]]
    BY <1>8
  <2>2. [aijobs[j] EXCEPT !.state = x].state = x
    BY <1>3 DEF JobRow
  <2> QED  BY <2>1, <2>2, <1>3 DEF JobIds
<1>9. \A i \in JobIds : i # j => aijobs'[i].state = aijobs[i].state
  BY <1>1, <1>5, <1>8 DEF Raise, Deleted
<1>10. \/ /\ mishaps' = mishaps + 1
          /\ \/ Raise(w)
             \/ UNCHANGED aijobs
       \/ /\ mishaps' = mishaps /\ Raise(w)
          /\ worker[w].pc \in {"analyzed", "usage", "commit"}
       \/ mishaps' = mishaps /\ worker[w].pc \in {"publish", "ack"} /\ Deleted(j)
  BY <1>1 DEF LetsGo, FlushRefused, UsageConflict, CommitRefused, HandlerFails, Acknowledge,
         Crash, Publish, Fault
<1>11. aijobs[j].state \in {"queued", "dead", "deleted"}
  BY <1>3 DEF JobRow
<1>12. \/ aijobs' = aijobs \/ Deleted(j)
       \/ aijobs[j].state = "queued" /\ aijobs' = [aijobs EXCEPT ![j].state = "dead"]
  BY <1>1, <1>5 DEF Raise
<1>13. Deleted(j) => \/ aijobs[j].state = "queued" /\ aijobs'[j].state = "deleted"
                     \/ aijobs[j].state # "queued" /\ aijobs' = aijobs
  BY <1>8 DEF Deleted
<1>14. Raise(w) => \/ aijobs' = aijobs
                   \/ aijobs[j].state = "queued" /\ aijobs'[j].state = "dead"
  BY <1>1, <1>8 DEF Raise
<1>15. \/ aijobs'[j].state = aijobs[j].state
       \/ /\ aijobs[j].state = "queued" /\ aijobs'[j].state = "deleted"
          /\ worker[w].pc \in {"publish", "ack"}
       \/ aijobs[j].state = "queued" /\ aijobs'[j].state = "dead"
  BY <1>10, <1>13, <1>14
<1>16. \/ mishaps' = mishaps + 1
       \/ mishaps' = mishaps /\ worker[w].pc \in {"analyzed", "usage", "commit"}
       \/ /\ mishaps' = mishaps /\ worker[w].pc \in {"publish", "ack"}
          /\ aijobs'[j].state # "queued"
          /\ aijobs[j].state = "queued" => aijobs'[j].state = "deleted"
  BY <1>10, <1>13
<1> QED  BY <1>1, <1>2, <1>6, <1>7, <1>9, <1>15, <1>16 DEF Outside, Results

LEMMA ReadsShape ==
    ASSUME Types, NEW w \in Workers, ReadUsage(w) \/ ReadLead(w)
    PROVE  LET t == worker[w]
               r == worker'[w]
           IN
           /\ \/ t.pc = "analyzed" /\ r.pc = "usage" /\ r.read = t.read
              \/ t.pc = "usage" /\ r.pc = "commit"
           /\ r.job = t.job /\ r.dirty = t.dirty /\ r.answer = t.answer
           /\ t.pc = "analyzed" /\ t.dirty => Target(w) \in DOMAIN message
           /\ \A v \in Workers : v # w => worker'[v] = worker[v]
           /\ UNCHANGED <<message, session, lead, timeline, cache, calls, billed, aijobs,
                          created, caller, unscored, uprooted, retouched, straddled, mishaps>>
<1>1. \A v \in Workers : v # w => worker'[v] = worker[v]
  BY DEF ReadUsage, ReadLead, Set, Types, WorkerTypes
<1>2. UNCHANGED <<message, session, lead, timeline, cache, calls, billed, aijobs, created,
                  caller, unscored, uprooted, retouched, straddled, mishaps>>
  BY DEF ReadUsage, ReadLead, WorkerOnly, rows
<1>3. CASE ReadUsage(w)
  <2>1. /\ worker[w].pc = "analyzed" /\ worker'[w].pc = "usage"
        /\ worker'[w].read = worker[w].read
        /\ worker'[w].job = worker[w].job /\ worker'[w].dirty = worker[w].dirty
        /\ worker'[w].answer = worker[w].answer
    BY <1>3 DEF ReadUsage, Set, Types, WorkerTypes
  <2> QED  BY <1>1, <1>2, <1>3, <2>1 DEF ReadUsage
<1>4. CASE ReadLead(w)
  <2>1. /\ worker[w].pc = "usage" /\ worker'[w].pc = "commit"
        /\ worker'[w].job = worker[w].job /\ worker'[w].dirty = worker[w].dirty
        /\ worker'[w].answer = worker[w].answer
    BY <1>4 DEF ReadLead, Set, Types, WorkerTypes
  <2> QED  BY <1>1, <1>2, <2>1
<1> QED  BY <1>3, <1>4

LEMMA CommitShape ==
    ASSUME Types, NEW w \in Workers, Commit(w)
    PROVE  LET t == worker[w]
               r == worker'[w]
               m == Target(w)
           IN
           /\ t.pc = "commit" /\ r.job = t.job
           /\ r.pc = IF t.lead = None THEN "ack" ELSE "publish"
           /\ t.lead # None => r.lead = t.lead /\ t.lead \in DOMAIN lead
           /\ \A v \in Workers : v # w => worker'[v] = worker[v]
           /\ DOMAIN message' = DOMAIN message
           /\ \A x \in DOMAIN message :
                  /\ message'[x].session = message[x].session
                  /\ message'[x].note = IF x = m /\ t.dirty THEN t.answer
                                        ELSE message[x].note
           /\ billed' = [billed EXCEPT ![m] = @ + 1]
           /\ UNCHANGED <<session, cache, aijobs, calls, created, caller, unscored, uprooted, retouched,
                          mishaps>>
<1> DEFINE t == worker[w]
           m == Target(w)
           r == IF t.lead # None
                THEN [pc |-> "publish", job |-> t.job, lead |-> t.lead]
                ELSE [pc |-> "ack", job |-> t.job]
<1>1. t.pc = "commit" /\ worker' = [worker EXCEPT ![w] = r]
  BY DEF Commit, Set
<1>2. /\ r.job = t.job /\ r.pc = IF t.lead = None THEN "ack" ELSE "publish"
      /\ t.lead # None => r.lead = t.lead
  OBVIOUS
<1> HIDE DEF r
<1>3. worker'[w] = r /\ \A v \in Workers : v # w => worker'[v] = worker[v]
  BY <1>1, WorkerSetTo
<1>4. /\ DOMAIN message' = DOMAIN message
      /\ \A x \in DOMAIN message :
             /\ message'[x].session = message[x].session
             /\ message'[x].note = IF x = m /\ t.dirty THEN t.answer ELSE message[x].note
  <2>1. \A x \in DOMAIN message : message[x] \in MessageRow
    BY MessageIsTyped
  <2>2. CASE t.dirty
    <3>1. message' = [message EXCEPT ![m] = [message[m] EXCEPT !.note = t.answer]]
      BY <2>2 DEF Commit
    <3>2. m \in DOMAIN message =>
              /\ [message[m] EXCEPT !.note = t.answer].session = message[m].session
              /\ [message[m] EXCEPT !.note = t.answer].note = t.answer
      BY <2>1 DEF MessageRow
    <3> HIDE DEF t, m
    <3> QED  BY <2>2, <3>1, <3>2
  <2>3. CASE ~t.dirty
    BY <2>3 DEF Commit
  <2> QED  BY <2>2, <2>3
<1>5. /\ billed' = [billed EXCEPT ![m] = @ + 1]
      /\ UNCHANGED <<session, cache, aijobs, calls, created, caller, unscored, uprooted, retouched,
                     mishaps>>
      /\ t.lead # None => t.lead \in DOMAIN lead
  BY DEF Commit, WorkerOnly
<1> QED  BY <1>1, <1>2, <1>3, <1>4, <1>5

LEMMA AnalyzeShape ==
    ASSUME Types, NEW w \in Workers, Analyze(w)
    PROVE  LET t   == worker[w]
               r   == worker'[w]
               m   == Target(w)
               key == CacheKey(m, t.read)
           IN
           /\ t.pc = "call" /\ r.pc = "analyzed" /\ r.job = t.job /\ r.read = t.read
           /\ ~r.dirty => t.read.note # None
           /\ \A v \in Workers : v # w => worker'[v] = worker[v]
           /\ \/ DOMAIN cache' = DOMAIN cache \cup {key} /\ mishaps' = mishaps
              \/ DOMAIN cache' = DOMAIN cache /\ mishaps' = mishaps + 1
           /\ calls' = [calls EXCEPT ![m] = @ + 1]
           /\ UNCHANGED <<message, session, lead, timeline, billed, aijobs, created, caller,
                          unscored, uprooted, retouched, straddled>>
<1> DEFINE t == worker[w]
<1>1. t.pc = "call" /\ t \in CallRec /\ t.read.content \in Contents
  BY WorkerIsTyped DEF Analyze, CallRec, MessageRow
<1>2. PICK a : /\ a \in Answers[t.read.content]
               /\ LET r == [pc |-> "analyzed", job |-> t.job, read |-> t.read,
                            answer |-> a, dirty |-> a # t.read.note]
                  IN  r \in AnalyzedRec /\ worker' = [worker EXCEPT ![w] = r]
  BY AnalyzeTyped
<1>3. a # None
  BY <1>1, <1>2, AnswersAreAnalyses
<1> DEFINE r == [pc |-> "analyzed", job |-> t.job, read |-> t.read, answer |-> a,
                 dirty |-> a # t.read.note]
<1>4. /\ worker' = [worker EXCEPT ![w] = r] /\ r.pc = "analyzed" /\ r.job = t.job
      /\ r.read = t.read /\ (~r.dirty => t.read.note # None)
  BY <1>2, <1>3
<1> HIDE DEF r
<1>5. worker'[w] = r /\ \A v \in Workers : v # w => worker'[v] = worker[v]
  BY <1>4, WorkerSetTo
<1>6. \/ DOMAIN cache' = DOMAIN cache \cup {CacheKey(Target(w), t.read)}
         /\ mishaps' = mishaps
      \/ DOMAIN cache' = DOMAIN cache /\ mishaps' = mishaps + 1
  BY DEF Analyze, Cached, With, Fault
<1>7. /\ calls' = [calls EXCEPT ![Target(w)] = @ + 1]
      /\ UNCHANGED <<message, session, lead, timeline, billed, aijobs, created, caller,
                     unscored, uprooted, retouched, straddled>>
  BY DEF Analyze, WorkerOnly, rows
<1> QED  BY <1>1, <1>4, <1>5, <1>6, <1>7

LEMMA NextSplits ==
    ASSUME Next \/ Elsewhere
    PROVE  \/ ApiSide
           \/ \E w \in Workers, j \in JobIds : Begin(w, j)
           \/ \E w \in Workers : \/ Analyze(w) \/ ReadUsage(w) \/ ReadLead(w) \/ Commit(w)
                                 \/ LetsGo(w)
<1>1. ASSUME NEW w \in Workers, HandlerStep(w) \/ Publish(w)
      PROVE  Analyze(w) \/ ReadUsage(w) \/ ReadLead(w) \/ Commit(w) \/ LetsGo(w)
  BY <1>1 DEF HandlerStep, LetsGo
<1> QED  BY <1>1 DEF Next, ApiSide

-----------------------------------------------------------------------------
(* A model is asked once for a message: what it answered is in the cache,  *)
(* or one worker is asking it; anything else costs a mishap.               *)
InCall(m) == {w \in Workers : worker[w].pc = "call" /\ Target(w) = m}

Keys(m) == {k \in Models : \/ <<m, k>> \in DOMAIN cache
                           \/ \E w \in InCall(m) : ModelOf[worker[w].read.content] = k}

CallSum(m) == calls[m] + Cardinality(InCall(m)) <= Cardinality(Keys(m)) + mishaps

CallsInv == \A m \in 1..MaxCreated : CallSum(m)

LEMMA ModelsAreFinite == IsFiniteSet(Models)
<1> DEFINE f == [c \in Contents |-> ModelOf[c]]
<1>1. f \in Surjection(Contents, Models)
  BY DEF Models, Surjection
<1>2. IsFiniteSet(Contents)
  BY ConstantsOK
<1> QED  BY <1>1, <1>2, FS_Surjection

CallsCountable ==
    /\ mishaps \in Nat
    /\ \A m \in 1..MaxCreated :
           /\ IsFiniteSet(InCall(m)) /\ Cardinality(InCall(m)) \in Nat
           /\ IsFiniteSet(Keys(m)) /\ Cardinality(Keys(m)) \in Nat
           /\ calls[m] \in Nat

LEMMA CallsCanBeCounted == Types => CallsCountable
<1> SUFFICES ASSUME Types, NEW m \in 1..MaxCreated
             PROVE  /\ IsFiniteSet(InCall(m)) /\ Cardinality(InCall(m)) \in Nat
                    /\ IsFiniteSet(Keys(m)) /\ Cardinality(Keys(m)) \in Nat
                    /\ calls[m] \in Nat
  BY FaultIsCounted DEF CallsCountable
<1>1. InCall(m) \subseteq Workers /\ IsFiniteSet(Workers)
  BY ConstantsOK DEF InCall
<1>2. Keys(m) \subseteq Models /\ IsFiniteSet(Models)
  BY ModelsAreFinite DEF Keys
<1> QED  BY <1>1, <1>2, FS_Subset, FS_CardinalityType DEF Types, CountTypes

LEMMA CallsStayCountable == Types' => CallsCountable'
  BY CallsCanBeCounted, PTL

LEMMA CallsAsBefore ==
    ASSUME Types, Types', NEW m \in 1..MaxCreated, CallSum(m),
           \A v \in Workers : \/ v \in InCall(m) /\ v \in InCall(m)'
                                 /\ worker'[v].read = worker[v].read
                              \/ v \notin InCall(m) /\ v \notin InCall(m)',
           \A k : <<m, k>> \in DOMAIN cache' <=> <<m, k>> \in DOMAIN cache,
           calls'[m] = calls[m], mishaps' >= mishaps
    PROVE  CallSum(m)'
<1>1. InCall(m)' = InCall(m)
  BY DEF InCall
<1>2. \A v \in InCall(m) : worker'[v].read = worker[v].read
  BY DEF InCall
<1>3. Keys(m)' = Keys(m)
  BY <1>1, <1>2 DEF Keys
<1> QED  BY <1>1, <1>3, CallsCanBeCounted, CallsStayCountable DEF CallSum, CallsCountable

LEMMA KeptButOne ==
    ASSUME NEW S, NEW T, NEW k, IsFiniteSet(T), IsFiniteSet(S), S \subseteq T \cup {k}
    PROVE  Cardinality(S) <= Cardinality(T) + 1
<1>1. Cardinality(S) \in Nat /\ Cardinality(T) \in Nat
  BY FS_CardinalityType
<1>2. IsFiniteSet(T \cup {k}) /\ Cardinality(T \cup {k}) <= Cardinality(T) + 1
  BY <1>1, FS_AddElement
<1>3. Cardinality(S) <= Cardinality(T \cup {k}) /\ Cardinality(T \cup {k}) \in Nat
  BY <1>2, FS_Subset, FS_CardinalityType
<1> QED  BY <1>1, <1>2, <1>3

LEMMA TargetStays ==
    ASSUME Types, JobsStay, NEW v \in Workers, worker[v].pc # "idle"
    PROVE  aijobs'[worker[v].job].message = Target(v)
  BY WorkerIsTyped DEF JobsStay, Target

LEMMA BeginCalls ==
    ASSUME Types, Types', CallsInv, NEW w \in Workers, NEW j \in JobIds, Begin(w, j),
           NEW m \in 1..MaxCreated
    PROVE  CallSum(m)'
<1> DEFINE msg == aijobs[j].message
<1>1. /\ worker[w].pc = "idle" /\ JobsStay /\ UNCHANGED <<message, cache, calls>>
      /\ \A v \in Workers : v # w => worker'[v] = worker[v]
      /\ worker'[w].job = j /\ worker'[w].pc \in {"ack", "call", "analyzed"}
      /\ worker'[w].pc = "call" => msg \in DOMAIN message /\ worker'[w].read = message[msg]
      /\ mishaps' \in {mishaps, mishaps + 1}
      /\ mishaps' = mishaps => /\ ~Held(j)
                               /\ worker'[w].pc = "call" =>
                                      CacheKey(msg, worker'[w].read) \notin DOMAIN cache
  BY BeginShape DEF Idle
<1>2. mishaps \in Nat /\ CallSum(m)
  BY FaultIsCounted DEF CallsInv
<1>3. \A v \in Workers : v # w => (v \in InCall(m)' <=> v \in InCall(m))
  BY <1>1, TargetStays DEF InCall, Target
<1>4. w \notin InCall(m)
  BY <1>1 DEF InCall
<1>5. w \in InCall(m)' <=> worker'[w].pc = "call" /\ msg = m
  BY <1>1 DEF InCall, Target, JobsStay
<1>6. CASE ~(worker'[w].pc = "call" /\ msg = m)
  BY <1>1, <1>2, <1>3, <1>4, <1>5, <1>6, CallsAsBefore DEF InCall
<1>7. CASE worker'[w].pc = "call" /\ msg = m
  <2>1. PICK k : k = ModelOf[worker'[w].read.content]
    OBVIOUS
  <2>2. InCall(m)' = InCall(m) \cup {w}
    BY <1>3, <1>5, <1>7 DEF InCall
  <2>3. k \in Models
    BY <1>1, <1>7, <2>1, MessageIsTyped
  <2>4. Keys(m) \subseteq Keys(m)' /\ k \in Keys(m)'
    <3>1. \A v \in InCall(m) : v \in InCall(m)' /\ worker'[v] = worker[v]
      BY <1>1, <1>4, <2>2 DEF InCall
    <3>2. Keys(m) \subseteq Keys(m)'
      BY <1>1, <3>1 DEF Keys
    <3>3. w \in InCall(m)'
      BY <2>2
    <3>4. k \in Keys(m)'
      BY <2>1, <2>3, <3>3 DEF Keys
    <3> QED  BY <3>2, <3>4
  <2>5. /\ IsFiniteSet(InCall(m)) /\ Cardinality(InCall(m)) \in Nat
        /\ IsFiniteSet(Keys(m)) /\ Cardinality(Keys(m)) \in Nat
        /\ IsFiniteSet(Keys(m)') /\ Cardinality(Keys(m)') \in Nat
        /\ calls[m] \in Nat
    BY CallsCanBeCounted, CallsStayCountable DEF CallsCountable
  <2>6. Cardinality(InCall(m)') = Cardinality(InCall(m)) + 1
    BY <1>4, <2>2, <2>5, FS_AddElement
  <2>7. Cardinality(Keys(m)) <= Cardinality(Keys(m)')
    BY <2>4, <2>5, FS_Subset
  <2>8. CASE mishaps' = mishaps + 1
    BY <1>1, <1>2, <2>5, <2>6, <2>7, <2>8 DEF CallSum
  <2>9. CASE mishaps' = mishaps
    <3>1. ~Held(j) /\ <<m, k>> \notin DOMAIN cache
      BY <1>1, <1>7, <2>1, <2>9 DEF CacheKey
    <3>2. \A v \in Workers : worker[v].pc # "idle" /\ Target(v) = m => worker[v].job = j
      BY <1>7, WorkerIsTyped DEF Target, Types, JobTypes
    <3>3. InCall(m) = {}
      BY <3>1, <3>2 DEF InCall, Held
    <3>4. k \notin Keys(m)
      BY <3>1, <3>3 DEF Keys
    <3>5. Cardinality(Keys(m) \cup {k}) = Cardinality(Keys(m)) + 1
      BY <2>5, <3>4, FS_AddElement
    <3>6. Cardinality(Keys(m) \cup {k}) <= Cardinality(Keys(m)')
      BY <2>4, <2>5, FS_Subset
    <3> QED  BY <1>1, <1>2, <2>5, <2>6, <2>9, <3>5, <3>6 DEF CallSum
  <2> QED  BY <1>1, <2>8, <2>9
<1> QED  BY <1>6, <1>7

LEMMA AnalyzeCalls ==
    ASSUME Types, Types', CallsInv, NEW w \in Workers, Analyze(w), NEW m \in 1..MaxCreated
    PROVE  CallSum(m)'
<1>0. PICK msg, k : msg = Target(w) /\ k = ModelOf[worker[w].read.content]
  OBVIOUS
<1>1. /\ worker[w].pc = "call" /\ worker'[w].pc = "analyzed" /\ aijobs' = aijobs
      /\ \A v \in Workers : v # w => worker'[v] = worker[v]
      /\ \/ DOMAIN cache' = DOMAIN cache \cup {<<msg, k>>} /\ mishaps' = mishaps
         \/ DOMAIN cache' = DOMAIN cache /\ mishaps' = mishaps + 1
      /\ calls' = [calls EXCEPT ![msg] = @ + 1]
  BY <1>0, AnalyzeShape DEF CacheKey
<1>2. mishaps \in Nat /\ CallSum(m) /\ calls \in [1..MaxCreated -> Nat]
  BY FaultIsCounted DEF CallsInv, Types, CountTypes
<1>3. InCall(m)' = InCall(m) \ {w}
  BY <1>1 DEF InCall, Target
<1>4. w \in InCall(m) <=> m = msg
  BY <1>0, <1>1 DEF InCall
<1>5. CASE m # msg
  <2>1. \A x : <<m, x>> \in DOMAIN cache' <=> <<m, x>> \in DOMAIN cache
    BY <1>1, <1>5
  <2>2. \A v \in Workers : \/ v \in InCall(m) /\ v \in InCall(m)'
                              /\ worker'[v].read = worker[v].read
                           \/ v \notin InCall(m) /\ v \notin InCall(m)'
    BY <1>1, <1>3, <1>4, <1>5
  <2>3. calls'[m] = calls[m] /\ mishaps' >= mishaps
    BY <1>1, <1>2, <1>5
  <2> QED  BY <1>2, <2>1, <2>2, <2>3, CallsAsBefore
<1>6. CASE m = msg
  <2>1. /\ IsFiniteSet(InCall(m)) /\ Cardinality(InCall(m)) \in Nat
        /\ IsFiniteSet(Keys(m)) /\ Cardinality(Keys(m)) \in Nat
        /\ IsFiniteSet(Keys(m)') /\ Cardinality(Keys(m)') \in Nat
        /\ calls[m] \in Nat
    BY CallsCanBeCounted, CallsStayCountable DEF CallsCountable
  <2>2. Cardinality(InCall(m)') = Cardinality(InCall(m)) - 1
    BY <1>3, <1>4, <1>6, <2>1, FS_RemoveElement
  <2>3. calls'[m] = calls[m] + 1
    BY <1>1, <1>2, <1>6
  <2>4. Keys(m) \subseteq Keys(m)' \cup {k}
    <3> SUFFICES ASSUME NEW x \in Keys(m), x # k
                 PROVE  x \in Keys(m)'
      OBVIOUS
    <3>1. CASE <<m, x>> \in DOMAIN cache
      BY <1>1, <3>1 DEF Keys
    <3>2. ASSUME NEW v \in InCall(m), ModelOf[worker[v].read.content] = x
          PROVE  x \in Keys(m)'
      <4>1. v # w /\ v \in InCall(m)' /\ worker'[v] = worker[v]
        BY <1>0, <1>1, <1>3, <3>2 DEF InCall
      <4> QED  BY <3>2, <4>1 DEF Keys
    <3> QED  BY <3>1, <3>2 DEF Keys
  <2>5. Cardinality(Keys(m)) <= Cardinality(Keys(m)') + 1
    BY <2>1, <2>4, KeptButOne
  <2>6. CASE mishaps' = mishaps + 1
    BY <1>2, <2>1, <2>2, <2>3, <2>5, <2>6 DEF CallSum
  <2>7. CASE DOMAIN cache' = DOMAIN cache \cup {<<msg, k>>} /\ mishaps' = mishaps
    <3>1. Keys(m) \subseteq Keys(m)'
      <4>1. k \in Keys(m) => k \in Keys(m)'
        BY <1>6, <2>7 DEF Keys
      <4> QED  BY <2>4, <4>1
    <3>2. Cardinality(Keys(m)) <= Cardinality(Keys(m)')
      BY <2>1, <3>1, FS_Subset
    <3> QED  BY <1>2, <2>1, <2>2, <2>3, <2>7, <3>2 DEF CallSum
  <2> QED  BY <1>1, <2>6, <2>7
<1> QED  BY <1>5, <1>6

LEMMA CallsInvStep ==
    ASSUME Types, CallsInv, Next \/ Elsewhere
    PROVE  CallsInv'
<1>1. Types'
  BY TypesStep
<1>2. mishaps \in Nat
  BY FaultIsCounted
<1> SUFFICES ASSUME NEW m \in 1..MaxCreated
             PROVE  CallSum(m)'
  BY DEF CallsInv
<1>3. CallSum(m)
  BY DEF CallsInv
<1>4. CASE ApiSide
  <2>1. UNCHANGED <<worker, cache, calls>> /\ mishaps' >= mishaps
    BY <1>2, <1>4, ApiLeaves
  <2>2. \A j \in JobIds : aijobs'[j].message = aijobs[j].message
    BY <1>4, ApiLeaves, MessageIsQueued
  <2>3. \A v \in Workers : v \in InCall(m)' <=> v \in InCall(m)
    BY <2>1, <2>2, WorkerIsTyped DEF InCall, Target
  <2> QED  BY <1>1, <1>3, <2>1, <2>3, CallsAsBefore
<1>5. ASSUME NEW w \in Workers, NEW j \in JobIds, Begin(w, j)
      PROVE  CallSum(m)'
  BY <1>1, <1>5, BeginCalls
<1>6. ASSUME NEW w \in Workers, Analyze(w)
      PROVE  CallSum(m)'
  BY <1>1, <1>6, AnalyzeCalls
<1>7. ASSUME NEW w \in Workers, ReadUsage(w) \/ ReadLead(w) \/ Commit(w)
      PROVE  CallSum(m)'
  <2>1. /\ worker[w].pc # "call" /\ worker'[w].pc # "call"
        /\ \A v \in Workers : v # w => worker'[v] = worker[v]
        /\ UNCHANGED <<aijobs, cache, calls, mishaps>>
    BY <1>7, ReadsShape, CommitShape
  <2>2. \A v \in Workers : \/ v \in InCall(m) /\ v \in InCall(m)'
                              /\ worker'[v].read = worker[v].read
                           \/ v \notin InCall(m) /\ v \notin InCall(m)'
    BY <2>1 DEF InCall, Target
  <2> QED  BY <1>1, <1>2, <1>3, <2>1, <2>2, CallsAsBefore
<1>8. ASSUME NEW w \in Workers, LetsGo(w)
      PROVE  CallSum(m)'
  <2>1. /\ worker'[w].pc = "idle" /\ JobsStay /\ UNCHANGED <<cache, calls>>
        /\ \A v \in Workers : v # w => worker'[v] = worker[v]
        /\ mishaps' \in {mishaps, mishaps + 1}
        /\ worker[w].pc = "call" => mishaps' = mishaps + 1
    BY <1>8, LetGoShape DEF Idle
  <2>2. InCall(m)' = InCall(m) \ {w}
    BY <2>1, TargetStays DEF InCall, Target
  <2>3. CASE w \notin InCall(m)
    <3>1. \A v \in Workers : \/ v \in InCall(m) /\ v \in InCall(m)'
                                /\ worker'[v].read = worker[v].read
                             \/ v \notin InCall(m) /\ v \notin InCall(m)'
      BY <2>1, <2>2, <2>3
    <3> QED  BY <1>1, <1>2, <1>3, <2>1, <3>1, CallsAsBefore
  <2>4. CASE w \in InCall(m)
    <3>0. PICK k : k = ModelOf[worker[w].read.content]
      OBVIOUS
    <3>1. /\ IsFiniteSet(InCall(m)) /\ Cardinality(InCall(m)) \in Nat
          /\ IsFiniteSet(Keys(m)) /\ Cardinality(Keys(m)) \in Nat
          /\ IsFiniteSet(Keys(m)') /\ Cardinality(Keys(m)') \in Nat
          /\ calls[m] \in Nat
      BY <1>1, CallsCanBeCounted, CallsStayCountable DEF CallsCountable
    <3>2. Cardinality(InCall(m)') = Cardinality(InCall(m)) - 1
      BY <2>2, <2>4, <3>1, FS_RemoveElement
    <3>3. Keys(m) \subseteq Keys(m)' \cup {k}
      <4> SUFFICES ASSUME NEW x \in Keys(m), x # k
                   PROVE  x \in Keys(m)'
        OBVIOUS
      <4>1. CASE <<m, x>> \in DOMAIN cache
        BY <2>1, <4>1 DEF Keys
      <4>2. ASSUME NEW v \in InCall(m), ModelOf[worker[v].read.content] = x
            PROVE  x \in Keys(m)'
        <5>1. v # w /\ v \in InCall(m)' /\ worker'[v] = worker[v]
          BY <2>1, <2>2, <3>0, <4>2 DEF InCall
        <5> QED  BY <4>2, <5>1 DEF Keys
      <4> QED  BY <4>1, <4>2 DEF Keys
    <3>4. Cardinality(Keys(m)) <= Cardinality(Keys(m)') + 1
      BY <3>1, <3>3, KeptButOne
    <3>5. mishaps' = mishaps + 1 /\ calls'[m] = calls[m]
      BY <2>1, <2>4 DEF InCall
    <3> QED  BY <1>2, <1>3, <3>1, <3>2, <3>4, <3>5 DEF CallSum
  <2> QED  BY <2>3, <2>4
<1> QED  BY <1>4, <1>5, <1>6, <1>7, <1>8, NextSplits

-----------------------------------------------------------------------------
(* A message is billed once: a job that is queued and held, or deleted,    *)
(* allows for one run, committed or still going on, and a mishap for each  *)
(* further one.                                                            *)
Working(j) == {w \in Workers : worker[w].job = j /\ worker[w].pc \notin {"publish", "ack"}}

Allowed(j) == IF \/ aijobs[j].state = "deleted"
                 \/ aijobs[j].state = "queued" /\ Held(j) THEN 1 ELSE 0

BillSum(j) == billed[aijobs[j].message] + Cardinality(Working(j)) <= mishaps + Allowed(j)

Unqueued(m) == \A j \in JobIds : aijobs[j].message # m

BillInv ==
    /\ \A j \in JobIds : BillSum(j)
    /\ \A m \in 1..MaxCreated : Unqueued(m) => billed[m] = 0

WorkCountable ==
    /\ mishaps \in Nat /\ billed \in [1..MaxCreated -> Nat]
    /\ \A j \in JobIds : billed[aijobs[j].message] \in Nat
    /\ \A j : /\ IsFiniteSet(Working(j)) /\ Cardinality(Working(j)) \in Nat
              /\ Allowed(j) \in {0, 1}

LEMMA WorkCanBeCounted == Types => WorkCountable
<1> SUFFICES ASSUME Types
             PROVE  WorkCountable
  OBVIOUS
<1>1. mishaps \in Nat /\ billed \in [1..MaxCreated -> Nat]
  BY DEF Types, CountTypes
<1>2. \A j \in JobIds : billed[aijobs[j].message] \in Nat
  BY <1>1, JobsAreTyped
<1>3. \A j : Working(j) \subseteq Workers /\ IsFiniteSet(Workers)
  BY ConstantsOK DEF Working
<1>4. \A j : IsFiniteSet(Working(j)) /\ Cardinality(Working(j)) \in Nat
  BY <1>3, FS_Subset, FS_CardinalityType
<1>5. \A j : Allowed(j) \in {0, 1}
  BY DEF Allowed
<1> QED  BY <1>1, <1>2, <1>4, <1>5 DEF WorkCountable

LEMMA WorkStaysCountable == Types' => WorkCountable'
  BY WorkCanBeCounted, PTL

(* A step of worker w, which has job j before or after it, leaves the sums *)
(* of the other jobs as they are.                                          *)
LEMMA OtherBills ==
    ASSUME Types, Types', BillInv, NEW w \in Workers, NEW j \in JobIds, JobsStay,
           \A v \in Workers : v # w => worker'[v] = worker[v],
           worker[w].job \in {0, j}, worker'[w].job \in {0, j},
           \A i \in JobIds : i # j => aijobs'[i].state = aijobs[i].state,
           \A m \in 1..MaxCreated : m # aijobs[j].message => billed'[m] = billed[m],
           mishaps' >= mishaps, BillSum(j)'
    PROVE  BillInv'
<1>1. JobIds' = JobIds /\ \A i \in JobIds : aijobs'[i].message = aijobs[i].message
  BY DEF JobsStay, JobIds
<1>2. ASSUME NEW i \in JobIds, i # j
      PROVE  BillSum(i)'
  <2>1. i # 0
    BY DEF JobIds
  <2>2. Working(i)' = Working(i) /\ (Held(i)' <=> Held(i))
    BY <1>2, <2>1 DEF Working, Held
  <2>3. Allowed(i)' = Allowed(i)
    BY <1>2, <2>2 DEF Allowed
  <2>4. aijobs[i].message # aijobs[j].message /\ aijobs[i].message \in 1..MaxCreated
    BY <1>2, JobsAreTyped DEF Types, JobTypes
  <2>5. billed'[aijobs'[i].message] = billed[aijobs[i].message]
    BY <1>1, <2>4
  <2>6. billed[aijobs[i].message] + Cardinality(Working(i)) <= mishaps + Allowed(i)
    BY <1>2 DEF BillInv, BillSum
  <2>7. /\ mishaps \in Nat /\ mishaps' \in Nat /\ billed[aijobs[i].message] \in Nat
        /\ Cardinality(Working(i)) \in Nat /\ Allowed(i) \in {0, 1}
    BY <1>2, WorkCanBeCounted, WorkStaysCountable DEF WorkCountable
  <2>8. billed[aijobs[i].message] + Cardinality(Working(i)) <= mishaps' + Allowed(i)
    BY <2>6, <2>7
  <2> QED  BY <2>2, <2>3, <2>5, <2>8 DEF BillSum
<1>3. ASSUME NEW m \in 1..MaxCreated, Unqueued(m)'
      PROVE  billed'[m] = 0
  BY <1>1, <1>3 DEF Unqueued, BillInv
<1> QED  BY <1>1, <1>2, <1>3 DEF BillInv

LEMMA BeginBills ==
    ASSUME Types, Types', BillInv, NEW w \in Workers, NEW j \in JobIds, Begin(w, j)
    PROVE  BillInv'
<1>1. /\ worker[w] = Idle /\ aijobs[j].state = "queued" /\ JobsStay
      /\ \A i \in JobIds : aijobs'[i].state = aijobs[i].state
      /\ billed' = billed
      /\ \A v \in Workers : v # w => worker'[v] = worker[v]
      /\ worker'[w].job = j
      /\ mishaps' \in {mishaps, mishaps + 1} /\ (mishaps' = mishaps => ~Held(j))
  BY BeginShape
<1>2. j # 0 /\ aijobs'[j].message = aijobs[j].message
  BY <1>1 DEF JobIds, JobsStay
<1>3. w \notin Working(j) /\ worker[w].job = 0
  BY <1>1, <1>2 DEF Working, Idle
<1>4. Working(j)' = Working(j) \/ Working(j)' = Working(j) \cup {w}
  <2>1. \A v \in Workers : v # w => (v \in Working(j)' <=> v \in Working(j))
    BY <1>1 DEF Working
  <2>2. Working(j) \subseteq Workers /\ Working(j)' \subseteq Workers
    BY DEF Working
  <2> QED  BY <1>3, <2>1, <2>2
<1>5. WorkCountable /\ WorkCountable'
  BY WorkCanBeCounted, WorkStaysCountable
<1>6. Cardinality(Working(j)') <= Cardinality(Working(j)) + 1
  <2>0. IsFiniteSet(Working(j)) /\ Cardinality(Working(j)) \in Nat
    BY <1>5 DEF WorkCountable
  <2>1. Cardinality(Working(j) \cup {w}) = Cardinality(Working(j)) + 1
    BY <1>3, <2>0, FS_AddElement
  <2>2. CASE Working(j)' = Working(j)
    <3>1. Cardinality(Working(j)') = Cardinality(Working(j))
      BY <2>2
    <3> QED  BY <2>0, <3>1
  <2>3. CASE Working(j)' = Working(j) \cup {w}
    <3>1. Cardinality(Working(j)') = Cardinality(Working(j)) + 1
      BY <2>1, <2>3
    <3> QED  BY <2>0, <3>1
  <2> QED  BY <1>4, <2>2, <2>3
<1>7. Allowed(j)' = 1 /\ (~Held(j) => Allowed(j) = 0)
  BY <1>1 DEF Allowed, Held
<1>8. BillSum(j)'
  <2>1. BillSum(j)
    BY DEF BillInv
  <2>2. billed'[aijobs'[j].message] = billed[aijobs[j].message]
    BY <1>1, <1>2
  <2> QED  BY <1>1, <1>5, <1>6, <1>7, <2>1, <2>2 DEF BillSum, WorkCountable
<1>9. mishaps' >= mishaps
  BY <1>1, <1>5 DEF WorkCountable
<1> QED  BY <1>1, <1>3, <1>8, <1>9, OtherBills

LEMMA CommitBills ==
    ASSUME Types, Types', BillInv, NEW w \in Workers, Commit(w)
    PROVE  BillInv'
<1>0. PICK j : j = worker[w].job
  OBVIOUS
<1>1. /\ worker[w].pc = "commit" /\ worker'[w].job = j /\ worker'[w].pc \in {"publish", "ack"}
      /\ \A v \in Workers : v # w => worker'[v] = worker[v]
      /\ billed' = [billed EXCEPT ![aijobs[j].message] = @ + 1]
      /\ UNCHANGED <<aijobs, mishaps>>
  BY <1>0, CommitShape DEF Target
<1>2. j \in JobIds /\ JobsStay
  BY <1>0, <1>1, WorkerIsTyped, CommitTyped
<1>3. Working(j)' = Working(j) \ {w} /\ w \in Working(j)
  BY <1>0, <1>1 DEF Working
<1>4. WorkCountable /\ WorkCountable'
  BY WorkCanBeCounted, WorkStaysCountable
<1>5. Cardinality(Working(j)') = Cardinality(Working(j)) - 1
  BY <1>3, <1>4, FS_RemoveElement DEF WorkCountable
<1>6. Allowed(j)' = Allowed(j)
  <2>1. Held(j)' /\ Held(j)
    BY <1>0, <1>1 DEF Held
  <2> QED  BY <1>1, <2>1 DEF Allowed
<1>7. billed'[aijobs'[j].message] = billed[aijobs[j].message] + 1
  BY <1>1, <1>2, <1>4, JobsAreTyped DEF WorkCountable
<1>8. BillSum(j)'
  <2>1. billed[aijobs[j].message] + Cardinality(Working(j)) <= mishaps + Allowed(j)
    BY <1>2 DEF BillInv, BillSum
  <2>2. /\ mishaps \in Nat /\ billed[aijobs[j].message] \in Nat
        /\ Cardinality(Working(j)) \in Nat /\ Allowed(j) \in {0, 1}
    BY <1>2, <1>4 DEF WorkCountable
  <2>3. billed'[aijobs'[j].message] + Cardinality(Working(j)') <= mishaps + Allowed(j)
    BY <1>5, <1>7, <2>1, <2>2
  <2> QED  BY <1>1, <1>6, <2>3 DEF BillSum
<1>9. \A m \in 1..MaxCreated : m # aijobs[j].message => billed'[m] = billed[m]
  BY <1>1, <1>4 DEF WorkCountable
<1>10. mishaps' >= mishaps
  BY <1>1, <1>4 DEF WorkCountable
<1> QED  BY <1>0, <1>1, <1>2, <1>8, <1>9, <1>10, OtherBills

LEMMA LetGoBills ==
    ASSUME Types, Types', BillInv, NEW w \in Workers, LetsGo(w)
    PROVE  BillInv'
<1>0. PICK j : j = worker[w].job
  OBVIOUS
<1>1. /\ worker[w].pc # "idle" /\ worker'[w] = Idle /\ JobsStay
      /\ \A v \in Workers : v # w => worker'[v] = worker[v]
      /\ billed' = billed
      /\ \A i \in JobIds : i # j => aijobs'[i].state = aijobs[i].state
  BY <1>0, LetGoShape
<1>2. \/ aijobs'[j].state = aijobs[j].state
      \/ aijobs[j].state = "queued" /\ aijobs'[j].state = "deleted"
      \/ aijobs[j].state = "queued" /\ aijobs'[j].state = "dead"
  BY <1>0, LetGoShape
<1>3. \/ mishaps' = mishaps + 1
      \/ mishaps' = mishaps /\ worker[w].pc \in {"analyzed", "usage", "commit"}
      \/ /\ mishaps' = mishaps /\ worker[w].pc \in {"publish", "ack"}
         /\ aijobs'[j].state # "queued"
         /\ aijobs[j].state = "queued" => aijobs'[j].state = "deleted"
  BY <1>0, LetGoShape
<1>4. j \in JobIds /\ j # 0 /\ aijobs'[j].message = aijobs[j].message
  BY <1>0, <1>1, WorkerIsTyped DEF JobIds, JobsStay
<1>5. WorkCountable /\ WorkCountable'
  BY WorkCanBeCounted, WorkStaysCountable
<1>6. Working(j)' = Working(j) \ {w}
  BY <1>1, <1>4 DEF Working, Idle
<1>7. Held(j)
  BY <1>0 DEF Held
<1>8. BillSum(j) /\ billed'[aijobs'[j].message] = billed[aijobs[j].message]
  BY <1>1, <1>4 DEF BillInv
<1>9. Cardinality(Working(j)') <= Cardinality(Working(j))
  <2>1. Working(j)' \subseteq Working(j)
    BY <1>6
  <2> QED  BY <1>5, <2>1, FS_Subset DEF WorkCountable
<1>10. BillSum(j)'
  <2>0. /\ mishaps \in Nat /\ billed[aijobs[j].message] \in Nat
        /\ Cardinality(Working(j)) \in Nat /\ Cardinality(Working(j)') \in Nat
        /\ Allowed(j) \in {0, 1} /\ Allowed(j)' \in {0, 1}
        /\ billed[aijobs[j].message] + Cardinality(Working(j)) <= mishaps + Allowed(j)
    BY <1>4, <1>5, <1>8 DEF BillSum, WorkCountable
  <2>1. CASE mishaps' = mishaps + 1
    BY <1>8, <1>9, <2>0, <2>1 DEF BillSum
  <2>2. CASE mishaps' = mishaps /\ worker[w].pc \in {"analyzed", "usage", "commit"}
    <3>1. w \in Working(j)
      BY <1>0, <2>2 DEF Working
    <3>2. Cardinality(Working(j)') = Cardinality(Working(j)) - 1
      BY <1>5, <1>6, <3>1, FS_RemoveElement DEF WorkCountable
    <3> QED  BY <1>8, <2>0, <2>2, <3>2 DEF BillSum
  <2>3. CASE /\ mishaps' = mishaps /\ worker[w].pc \in {"publish", "ack"}
             /\ aijobs'[j].state # "queued"
             /\ aijobs[j].state = "queued" => aijobs'[j].state = "deleted"
    <3>1. Allowed(j)' = Allowed(j)
      BY <1>2, <1>7, <2>3 DEF Allowed
    <3> QED  BY <1>8, <1>9, <2>0, <2>3, <3>1 DEF BillSum
  <2> QED  BY <1>3, <2>1, <2>2, <2>3
<1>11. worker'[w].job = 0 /\ mishaps' >= mishaps
  BY <1>1, <1>3, <1>5 DEF Idle, WorkCountable
<1> QED  BY <1>0, <1>1, <1>4, <1>10, <1>11, OtherBills

LEMMA BillInvStep ==
    ASSUME Types, BillInv, Next \/ Elsewhere
    PROVE  BillInv'
<1>1. Types'
  BY TypesStep
<1>2. WorkCountable /\ WorkCountable'
  BY <1>1, WorkCanBeCounted, WorkStaysCountable
<1>3. ASSUME UNCHANGED <<worker, billed, aijobs>>, mishaps' >= mishaps
      PROVE  BillInv'
  <2>1. \A j : Working(j)' = Working(j) /\ Allowed(j)' = Allowed(j)
    BY <1>3 DEF Working, Allowed, Held
  <2>2. \A j \in JobIds : BillSum(j)'
    BY <1>2, <1>3, <2>1 DEF BillSum, BillInv, WorkCountable
  <2> QED  BY <1>3, <2>2 DEF BillInv, Unqueued, JobIds
<1>4. CASE ApiSide
  <2>1. UNCHANGED <<worker, billed>> /\ mishaps' >= mishaps
    BY <1>2, <1>4, ApiLeaves DEF WorkCountable
  <2>2. CASE aijobs' = aijobs
    BY <1>3, <2>1, <2>2
  <2>3. CASE PublishMessage
    <3>0. PICK n : n = Len(aijobs')
      OBVIOUS
    <3>1. /\ \A j \in JobIds : j \in JobIds' /\ aijobs'[j] = aijobs[j]
          /\ \A j \in JobIds' : j \in JobIds \/ j = n
          /\ aijobs'[n].message = caller.message /\ aijobs'[n].state = "queued"
          /\ \A j \in JobIds : aijobs[j].message # caller.message
          /\ \A w \in Workers : worker[w].job # n
          /\ n \in JobIds'
      BY <2>3, <3>0, MessageIsQueued
    <3>2. caller.message \in 1..MaxCreated
      BY <2>3 DEF PublishMessage, Types, CallerTypes, CallerStates, Quiet
    <3>3. \A j \in JobIds : BillSum(j)'
      <4>1. \A j \in JobIds : Working(j)' = Working(j) /\ Allowed(j)' = Allowed(j)
        BY <2>1, <3>1 DEF Working, Allowed, Held
      <4> SUFFICES ASSUME NEW j \in JobIds
                   PROVE  BillSum(j)'
        OBVIOUS
      <4>2. BillSum(j) /\ aijobs'[j] = aijobs[j] /\ billed' = billed
        BY <2>1, <3>1 DEF BillInv
      <4>3. Working(j)' = Working(j) /\ Allowed(j)' = Allowed(j)
        BY <4>1
      <4>4. /\ mishaps \in Nat /\ mishaps' \in Nat /\ mishaps' >= mishaps
            /\ billed[aijobs[j].message] \in Nat
            /\ Cardinality(Working(j)) \in Nat /\ Allowed(j) \in {0, 1}
        BY <1>2, <2>1 DEF WorkCountable
      <4> QED  BY <4>2, <4>3, <4>4 DEF BillSum
    <3>4. BillSum(n)'
      <4>1. billed'[aijobs'[n].message] = 0
        BY <2>1, <3>1, <3>2 DEF BillInv, Unqueued
      <4>2. Working(n)' = {}
        BY <2>1, <3>1 DEF Working
      <4>3. Cardinality(Working(n)') = 0
        BY <4>2, FS_EmptySet
      <4> QED  BY <1>2, <4>1, <4>3 DEF BillSum, WorkCountable
    <3>5. \A m \in 1..MaxCreated : Unqueued(m)' => billed'[m] = 0
      BY <2>1, <3>1 DEF BillInv, Unqueued
    <3> QED  BY <3>1, <3>3, <3>4, <3>5 DEF BillInv
  <2> QED  BY <1>4, <2>2, <2>3, ApiLeaves
<1>5. ASSUME NEW w \in Workers, NEW j \in JobIds, Begin(w, j)
      PROVE  BillInv'
  BY <1>1, <1>5, BeginBills
<1>6. ASSUME NEW w \in Workers, Commit(w) \/ LetsGo(w)
      PROVE  BillInv'
  BY <1>1, <1>6, CommitBills, LetGoBills
<1>7. ASSUME NEW w \in Workers, Analyze(w) \/ ReadUsage(w) \/ ReadLead(w)
      PROVE  BillInv'
  <2>1. /\ worker'[w].job = worker[w].job
        /\ worker[w].pc \notin {"publish", "ack"} /\ worker'[w].pc \notin {"publish", "ack"}
        /\ \A v \in Workers : v # w => worker'[v] = worker[v]
        /\ UNCHANGED <<billed, aijobs>>
        /\ mishaps' \in {mishaps, mishaps + 1}
    BY <1>7, AnalyzeShape, ReadsShape
  <2>2. \A j : Working(j)' = Working(j) /\ Allowed(j)' = Allowed(j)
    BY <2>1 DEF Working, Allowed, Held
  <2>3. \A j \in JobIds : BillSum(j)'
    BY <1>2, <2>1, <2>2 DEF BillSum, BillInv, WorkCountable
  <2> QED  BY <2>1, <2>3 DEF BillInv, Unqueued, JobIds
<1> QED  BY <1>4, <1>5, <1>6, <1>7, NextSplits

-----------------------------------------------------------------------------
(* A message whose handler finished is annotated and billed, if it is      *)
(* still there and no PATCH has written its annotation: a handler that     *)
(* leaves the annotation alone has read one.                               *)
Noted(m) == m \in DOMAIN message /\ m \notin retouched => message[m].note # None

Handled(m) ==
    m \in DOMAIN message =>
        billed[m] > 0 /\ (m \notin retouched => message[m].note # None)

Knows(w) ==
    /\ worker[w].pc = "call" /\ worker[w].read.note # None => Noted(Target(w))
    /\ worker[w].pc \in {"analyzed", "usage", "commit"} /\ ~worker[w].dirty
           => Noted(Target(w))
    /\ worker[w].pc \in {"publish", "ack"} => Handled(Target(w))

NoteInv ==
    /\ \A w \in Workers : Knows(w)
    /\ \A j \in JobIds : aijobs[j].state = "deleted" => Handled(aijobs[j].message)

NotesKept ==
    /\ \A m \in 1..created :
           m \in DOMAIN message' =>
               /\ m \in DOMAIN message
               /\ m \notin retouched' =>
                      m \notin retouched /\ (message[m].note # None => message'[m].note # None)
    /\ \A m \in 1..MaxCreated : billed[m] > 0 => billed'[m] > 0

(* An annotation is not taken back, and no new message takes the number of *)
(* an old one.                                                             *)
LEMMA ApiKeepsNotes ==
    ASSUME Types, ApiSide
    PROVE  NotesKept
<1>2. \A m \in 1..MaxCreated : billed[m] > 0 => billed'[m] > 0
  BY ApiLeaves
<1> DEFINE Left == \A m \in 1..created :
                       m \in DOMAIN message' =>
                           /\ m \in DOMAIN message
                           /\ m \notin retouched' =>
                                  /\ m \notin retouched
                                  /\ message[m].note # None => message'[m].note # None
           Same == message' = message /\ retouched' = retouched
<1>3. Same => Left
  OBVIOUS
<1>4. ASSUME NEW s, CreateMessage(s)
      PROVE  Left
  <2>1. created \in Nat
    BY ConstantsOK DEF Types, CountTypes
  <2>2. PICK r : message' = With(message, created + 1, r)
    BY <1>4 DEF CreateMessage
  <2>3. retouched' = retouched
    BY <1>4 DEF CreateMessage, history
  <2> QED  BY <2>1, <2>2, <2>3 DEF With
<1>5. ASSUME NEW m, UpdateMessage(m)
      PROVE  Left
  BY <1>5, UpdateMessageShape
<1>6. ASSUME NEW m, DeleteMessage(m)
      PROVE  Left
  BY <1>6 DEF DeleteMessage, Without
<1>7. ASSUME NEW s, DeleteSession(s)
      PROVE  Left
  BY <1>7 DEF DeleteSession
<1>8. ASSUME NEW s, CreateSession(s) \/ AttachSession(s)
      PROVE  Same
  BY <1>8 DEF CreateSession, AttachSession, rows, history
<1>9. ASSUME \/ CommitSession \/ SessionRefused \/ PublishMessage \/ MessageDies
             \/ Midnight \/ PublishPatch \/ PatchDies \/ Elsewhere
      PROVE  Same
  BY <1>9 DEF CommitSession, SessionRefused, PublishMessage, MessageDies, Midnight,
              PublishPatch, PatchDies, Elsewhere, ownVars, rows, history
<1>10. ASSUME NEW l, PatchScore(l) \/ AddTimelineEvent(l) \/ DeleteLead(l)
       PROVE  Same
  BY <1>10 DEF PatchScore, AddTimelineEvent, DeleteLead
<1> HIDE DEF Left
<1>11. Left
  <2>1. ASSUME \E s \in Sessions : \/ CreateSession(s) \/ CreateMessage(s)
                                   \/ AttachSession(s) \/ DeleteSession(s)
        PROVE  Left
    BY <1>3, <1>4, <1>7, <1>8, <2>1
  <2>2. ASSUME \E m \in 1..MaxCreated : UpdateMessage(m) \/ DeleteMessage(m)
        PROVE  Left
    BY <1>5, <1>6, <2>2
  <2>3. ASSUME \E l \in Leads : PatchScore(l) \/ AddTimelineEvent(l) \/ DeleteLead(l)
        PROVE  Left
    BY <1>3, <1>10, <2>3
  <2> QED  BY <1>3, <1>9, <2>1, <2>2, <2>3 DEF ApiSide, ApiStep
<1> QED  BY <1>2, <1>11 DEF NotesKept, Left

LEMMA NotesStay ==
    ASSUME Types, NotesKept
    PROVE  \A m \in 1..MaxCreated :
               m <= created => /\ Noted(m) => Noted(m)'
                               /\ Handled(m) => Handled(m)'
<1> SUFFICES ASSUME NEW m \in 1..MaxCreated, m <= created
             PROVE  /\ Noted(m) => Noted(m)'
                    /\ Handled(m) => Handled(m)'
  OBVIOUS
<1>1. m \in 1..created
  BY ConstantsOK DEF Types, CountTypes
<1>2. billed[m] > 0 => billed'[m] > 0
  BY DEF NotesKept
<1>3. m \in DOMAIN message' =>
          /\ m \in DOMAIN message
          /\ m \notin retouched' =>
                 m \notin retouched /\ (message[m].note # None => message'[m].note # None)
  BY <1>1 DEF NotesKept
<1> QED  BY <1>2, <1>3 DEF Noted, Handled

(* A step of worker w: the others know what they knew, and so does w, when *)
(* it does the next step of a job.                                         *)
LEMMA OthersKnow ==
    ASSUME Types, NoteInv, NotesKept, JobsStay, NEW w \in Workers,
           \A v \in Workers : v # w => worker'[v] = worker[v]
    PROVE  /\ \A v \in Workers : v # w => Knows(v)'
           /\ \A j \in JobIds : aijobs[j].state = "deleted" => Handled(aijobs[j].message)'
<1>1. ASSUME NEW v \in Workers, v # w
      PROVE  Knows(v)'
  <2>1. PICK m : m = Target(v)
    OBVIOUS
  <2>2. CASE worker[v].pc = "idle"
    BY <1>1, <2>2 DEF Knows
  <2>3. CASE worker[v].pc # "idle"
    <3>1. Target(v)' = m
      BY <1>1, <2>1, <2>3, TargetStays DEF Target
    <3>2. /\ Noted(m) => Noted(m)'
          /\ Handled(m) => Handled(m)'
      BY <2>1, <2>3, WorkerIsTyped, NotesStay
    <3>3. Knows(v)
      BY DEF NoteInv
    <3> QED  BY <1>1, <2>1, <3>1, <3>2, <3>3 DEF Knows, Noted, Handled
  <2> QED  BY <2>2, <2>3
<1>2. ASSUME NEW j \in JobIds, aijobs[j].state = "deleted"
      PROVE  Handled(aijobs[j].message)'
  <2>1. PICK m : m = aijobs[j].message
    OBVIOUS
  <2>2. aijobs'[j].message = m /\ m \in 1..MaxCreated /\ m <= created
    BY <2>1, JobsAreTyped DEF JobsStay
  <2>3. Handled(m)'
    BY <1>2, <2>1, <2>2, NotesStay DEF NoteInv
  <2> QED  BY <2>2, <2>3 DEF Handled
<1> QED  BY <1>1, <1>2

LEMMA NoteInvStep ==
    ASSUME Types, NoteInv, Next \/ Elsewhere
    PROVE  NoteInv'
<1>1. CASE ApiSide
  <2>1. NotesKept /\ worker' = worker
    BY <1>1, ApiKeepsNotes, ApiLeaves
  <2>2. CASE aijobs' = aijobs
    <3>1. ASSUME NEW v \in Workers
          PROVE  Knows(v)'
      <4>1. PICK m : m = Target(v)
        OBVIOUS
      <4>2. CASE worker[v].pc = "idle"
        BY <2>1, <4>2 DEF Knows
      <4>3. CASE worker[v].pc # "idle"
        <5>1. Noted(m) => Noted(m)'
          BY <2>1, <4>1, <4>3, WorkerIsTyped, NotesStay
        <5>2. Handled(m) => Handled(m)'
          BY <2>1, <4>1, <4>3, WorkerIsTyped, NotesStay
        <5>3. Target(v)' = m /\ Knows(v)
          BY <2>1, <2>2, <4>1 DEF Target, NoteInv
        <5> QED  BY <2>1, <4>1, <5>1, <5>2, <5>3 DEF Knows, Noted, Handled
      <4> QED  BY <4>2, <4>3
    <3>2. ASSUME NEW j \in JobIds, aijobs[j].state = "deleted"
          PROVE  Handled(aijobs[j].message)'
      <4>1. PICK m : m = aijobs[j].message
        OBVIOUS
      <4>2. Handled(m)'
        BY <2>1, <3>2, <4>1, JobsAreTyped, NotesStay DEF NoteInv
      <4> QED  BY <2>2, <4>1, <4>2 DEF Handled
    <3> QED  BY <2>2, <3>1, <3>2 DEF NoteInv, JobIds
  <2>3. CASE PublishMessage
    <3>0. PICK n : n = Len(aijobs')
      OBVIOUS
    <3>1. /\ \A j \in JobIds : aijobs'[j] = aijobs[j]
          /\ \A j \in JobIds' : j \in JobIds \/ j = n
          /\ aijobs'[n].state = "queued"
      BY <2>3, <3>0, MessageIsQueued
    <3>2. UNCHANGED <<message, billed, retouched>>
      BY <2>3 DEF PublishMessage, rows, history
    <3>3. ASSUME NEW v \in Workers
          PROVE  Knows(v)'
      <4>1. worker[v].pc # "idle" => Target(v)' = Target(v)
        BY <2>1, <3>1, WorkerIsTyped DEF Target
      <4>2. Knows(v)
        BY DEF NoteInv
      <4> QED  BY <2>1, <3>2, <4>1, <4>2 DEF Knows, Noted, Handled
    <3>4. ASSUME NEW j \in JobIds', aijobs'[j].state = "deleted"
          PROVE  Handled(aijobs[j].message)'
      <4>1. j \in JobIds /\ aijobs'[j] = aijobs[j]
        BY <3>1, <3>4
      <4> QED  BY <3>2, <3>4, <4>1 DEF NoteInv, Handled
    <3> QED  BY <3>3, <3>4 DEF NoteInv
  <2> QED  BY <1>1, <2>2, <2>3, ApiLeaves
<1>2. ASSUME NEW w \in Workers, NotesKept, JobsStay,
             \A v \in Workers : v # w => worker'[v] = worker[v],
             \A j \in JobIds : aijobs'[j].state = "deleted" =>
                                   \/ aijobs[j].state = "deleted"
                                   \/ Handled(aijobs[j].message)',
             Knows(w)'
      PROVE  NoteInv'
  <2>1. JobIds' = JobIds
    BY <1>2 DEF JobsStay, JobIds
  <2>2. \A v \in Workers : Knows(v)'
    BY <1>2, OthersKnow
  <2>3. \A j \in JobIds : aijobs'[j].state = "deleted" => Handled(aijobs[j].message)'
    BY <1>2, OthersKnow
  <2> QED  BY <2>1, <2>2, <2>3 DEF NoteInv
<1>3. ASSUME message' = message, billed' = billed, retouched' = retouched
      PROVE  NotesKept
  BY <1>3 DEF NotesKept
<1>4. ASSUME NEW w \in Workers, NEW j \in JobIds, Begin(w, j)
      PROVE  NoteInv'
  <2>0. PICK m : m = aijobs[j].message
    OBVIOUS
  <2>1. /\ JobsStay /\ \A i \in JobIds : aijobs'[i].state = aijobs[i].state
        /\ message' = message /\ billed' = billed /\ retouched' = retouched
        /\ \A v \in Workers : v # w => worker'[v] = worker[v]
        /\ worker'[w].job = j /\ worker'[w].pc \in {"ack", "call", "analyzed"}
        /\ worker'[w].pc = "ack" => m \notin DOMAIN message
        /\ worker'[w].pc = "call" => worker'[w].read = message[m]
        /\ worker'[w].pc = "analyzed" => (~worker'[w].dirty => message[m].note # None)
    BY <1>4, <2>0, BeginShape
  <2>2. Target(w)' = m
    BY <2>0, <2>1 DEF JobsStay, Target
  <2>3. Knows(w)'
    BY <2>1, <2>2 DEF Knows, Noted, Handled
  <2> QED  BY <1>2, <1>3, <2>1, <2>3
<1>5. ASSUME NEW w \in Workers, Analyze(w)
      PROVE  NoteInv'
  <2>0. PICK m : m = Target(w)
    OBVIOUS
  <2>1. /\ worker[w].pc = "call" /\ worker'[w].pc = "analyzed"
        /\ worker'[w].job = worker[w].job
        /\ ~worker'[w].dirty => worker[w].read.note # None
        /\ \A v \in Workers : v # w => worker'[v] = worker[v]
        /\ message' = message /\ billed' = billed /\ retouched' = retouched
        /\ aijobs' = aijobs
    BY <1>5, AnalyzeShape
  <2>2. Target(w)' = m /\ Knows(w)
    BY <2>0, <2>1 DEF Target, NoteInv
  <2>3. Knows(w)'
    BY <2>0, <2>1, <2>2 DEF Knows, Noted
  <2>4. JobsStay
    BY <2>1, WorkerIsTyped, JobChangesStay
  <2> QED  BY <1>2, <1>3, <2>1, <2>3, <2>4
<1>6. ASSUME NEW w \in Workers, ReadUsage(w) \/ ReadLead(w)
      PROVE  NoteInv'
  <2>0. PICK m : m = Target(w)
    OBVIOUS
  <2>1. /\ worker[w].pc \in {"analyzed", "usage"} /\ worker'[w].pc \in {"usage", "commit"}
        /\ worker'[w].job = worker[w].job /\ worker'[w].dirty = worker[w].dirty
        /\ \A v \in Workers : v # w => worker'[v] = worker[v]
        /\ message' = message /\ billed' = billed /\ retouched' = retouched
        /\ aijobs' = aijobs
    BY <1>6, ReadsShape
  <2>2. Target(w)' = m /\ Knows(w)
    BY <2>0, <2>1 DEF Target, NoteInv
  <2>3. Knows(w)'
    BY <2>0, <2>1, <2>2 DEF Knows, Noted
  <2>4. JobsStay
    BY <2>1, WorkerIsTyped, JobChangesStay
  <2> QED  BY <1>2, <1>3, <2>1, <2>3, <2>4
<1>7. ASSUME NEW w \in Workers, Commit(w)
      PROVE  NoteInv'
  <2>0. PICK m : m = Target(w)
    OBVIOUS
  <2>1. /\ worker[w].pc = "commit" /\ worker'[w].pc \in {"ack", "publish"}
        /\ worker'[w].job = worker[w].job
        /\ \A v \in Workers : v # w => worker'[v] = worker[v]
        /\ DOMAIN message' = DOMAIN message
        /\ \A x \in DOMAIN message :
               message'[x].note = IF x = m /\ worker[w].dirty THEN worker[w].answer
                                  ELSE message[x].note
        /\ billed' = [billed EXCEPT ![m] = @ + 1] /\ aijobs' = aijobs
        /\ retouched' = retouched
    BY <1>7, <2>0, CommitShape
  <2>2. worker[w].answer # None
    <3>1. worker[w].answer \in Analyses
      BY <2>1, WorkerIsTyped DEF CommitRec
    <3> QED  BY <3>1, AnalysesAreSized
  <2>3. billed \in [1..MaxCreated -> Nat] /\ m \in 1..MaxCreated
    BY <2>0, <2>1, WorkerIsTyped DEF Types, CountTypes
  <2>4. billed'[m] > 0 /\ \A x \in 1..MaxCreated : billed[x] > 0 => billed'[x] > 0
    BY <2>1, <2>3
  <2>5. NotesKept
    BY <2>1, <2>2, <2>4 DEF NotesKept
  <2>6. Target(w)' = m /\ Knows(w)
    BY <2>0, <2>1 DEF Target, NoteInv
  <2>7. m \in DOMAIN message' /\ m \notin retouched' => message'[m].note # None
    BY <2>0, <2>1, <2>2, <2>6 DEF Knows, Noted
  <2>8. Knows(w)'
    BY <2>1, <2>4, <2>6, <2>7 DEF Knows, Handled
  <2>9. JobsStay
    BY <2>1, WorkerIsTyped, JobChangesStay
  <2> QED  BY <1>2, <2>1, <2>5, <2>8, <2>9
<1>8. ASSUME NEW w \in Workers, LetsGo(w)
      PROVE  NoteInv'
  <2>0. PICK j : j = worker[w].job
    OBVIOUS
  <2>1. /\ worker[w].pc # "idle" /\ worker'[w] = Idle /\ JobsStay
        /\ \A v \in Workers : v # w => worker'[v] = worker[v]
        /\ message' = message /\ billed' = billed /\ retouched' = retouched
        /\ \A i \in JobIds : i # j => aijobs'[i].state = aijobs[i].state
        /\ \/ aijobs'[j].state = aijobs[j].state
           \/ aijobs'[j].state = "deleted" /\ worker[w].pc \in {"publish", "ack"}
           \/ aijobs'[j].state = "dead"
    BY <1>8, <2>0, LetGoShape
  <2>2. Knows(w)'
    BY <2>1 DEF Knows, Idle
  <2>3. ASSUME NEW i \in JobIds, aijobs'[i].state = "deleted", aijobs[i].state # "deleted"
        PROVE  Handled(aijobs[i].message)'
    <3>1. i = j /\ worker[w].pc \in {"publish", "ack"}
      BY <2>1, <2>3
    <3>2. aijobs'[i].message = Target(w)
      BY <2>0, <2>1, <3>1 DEF JobsStay, Target
    <3>3. Handled(Target(w))
      BY <3>1 DEF NoteInv, Knows
    <3> QED  BY <2>1, <3>2, <3>3 DEF Handled
  <2> QED  BY <1>2, <1>3, <2>1, <2>2, <2>3
<1> QED  BY <1>1, <1>4, <1>5, <1>6, <1>7, <1>8, NextSplits

-----------------------------------------------------------------------------
LEMMA NonemptyCounts ==
    ASSUME NEW S, IsFiniteSet(S)
    PROVE  /\ Cardinality(S) \in Nat
           /\ \A x \in S : Cardinality(S) >= 1
           /\ Cardinality(S) > 0 => \E x : x \in S
<1>1. Cardinality(S) \in Nat /\ (Cardinality(S) = 0 <=> S = {})
  BY FS_CardinalityType, FS_EmptySet
<1> QED  BY <1>1

LEMMA FinishedOrGoingOn ==
    ASSUME Types, BillInv, NEW m \in 1..MaxCreated
    PROVE  /\ billed[m] <= Done(m) + Finishing(m) + mishaps
           /\ Done(m) > 0 => \E j \in JobIds : /\ aijobs[j].message = m
                                               /\ aijobs[j].state = "deleted"
<1> DEFINE done == {j \in JobIds : aijobs[j].message = m /\ aijobs[j].state = "deleted"}
           last == {w \in Workers : worker[w].pc \in {"publish", "ack"} /\ Target(w) = m}
<1>1. IsFiniteSet(done) /\ done \subseteq JobIds
  <2>1. Len(aijobs) \in Int /\ 1 \in Int
    BY DEF Types, JobTypes
  <2>2. IsFiniteSet(JobIds)
    BY <2>1, FS_Interval DEF JobIds
  <2>3. done \subseteq JobIds
    OBVIOUS
  <2> HIDE DEF done
  <2> QED  BY <2>2, <2>3, FS_Subset
<1>2. IsFiniteSet(last)
  BY ConstantsOK, FS_Subset
<1>3. Done(m) = Cardinality(done) /\ Finishing(m) = Cardinality(last)
  BY DEF Done, Finishing
<1>4. \A j \in done : aijobs[j].message = m /\ aijobs[j].state = "deleted"
  OBVIOUS
<1>5. \A w \in Workers : worker[w].pc \in {"publish", "ack"} /\ Target(w) = m => w \in last
  OBVIOUS
<1>6. \A j \in JobIds : aijobs[j].message = m /\ aijobs[j].state = "deleted" => j \in done
  OBVIOUS
<1> HIDE DEF done, last
<1>7. Done(m) \in Nat /\ Finishing(m) \in Nat /\ mishaps \in Nat
  BY <1>1, <1>2, <1>3, NonemptyCounts, FaultIsCounted
<1>8. billed[m] <= Done(m) + Finishing(m) + mishaps
  <2>1. CASE Unqueued(m)
    <3>1. billed[m] = 0
      BY <2>1 DEF BillInv
    <3> QED  BY <1>7, <3>1
  <2>2. CASE ~Unqueued(m)
    <3>1. PICK j \in JobIds : aijobs[j].message = m
      BY <2>2 DEF Unqueued
    <3>2. /\ billed[m] \in Nat /\ IsFiniteSet(Working(j)) /\ Cardinality(Working(j)) \in Nat
          /\ billed[m] + Cardinality(Working(j)) <= mishaps + Allowed(j)
      BY <3>1, WorkCanBeCounted DEF WorkCountable, BillInv, BillSum
    <3>3. CASE aijobs[j].state = "deleted"
      <4>1. Done(m) >= 1
        BY <1>1, <1>3, <1>6, <3>1, <3>3, NonemptyCounts
      <4>2. Allowed(j) = 1
        BY <3>3 DEF Allowed
      <4> QED  BY <1>7, <3>2, <4>1, <4>2
    <3>4. CASE aijobs[j].state = "queued" /\ Held(j)
      <4>1. PICK w \in Workers : worker[w].job = j
        BY <3>4 DEF Held
      <4>2. Allowed(j) = 1
        BY <3>4 DEF Allowed
      <4>3. CASE worker[w].pc \in {"publish", "ack"}
        <5>1. Finishing(m) >= 1
          BY <1>2, <1>3, <1>5, <3>1, <4>1, <4>3, NonemptyCounts DEF Target
        <5> QED  BY <1>7, <3>2, <4>2, <5>1
      <4>4. CASE worker[w].pc \notin {"publish", "ack"}
        <5>1. w \in Working(j)
          BY <4>1, <4>4 DEF Working
        <5>2. Cardinality(Working(j)) >= 1
          BY <3>2, <5>1, NonemptyCounts
        <5> QED  BY <1>7, <3>2, <4>2, <5>2
      <4> QED  BY <4>3, <4>4
    <3>5. CASE aijobs[j].state # "deleted" /\ ~(aijobs[j].state = "queued" /\ Held(j))
      <4>1. Allowed(j) = 0
        BY <3>5 DEF Allowed
      <4> QED  BY <1>7, <3>2, <4>1
    <3> QED  BY <3>3, <3>4, <3>5
  <2> QED  BY <2>1, <2>2
<1>9. Done(m) > 0 => \E j \in JobIds : aijobs[j].message = m /\ aijobs[j].state = "deleted"
  <2>1. Done(m) > 0 => \E j : j \in done
    BY <1>1, <1>3, NonemptyCounts
  <2> QED  BY <1>1, <1>4, <2>1
<1> QED  BY <1>8, <1>9

(* Billing (BilledPerJob): a message is analysed once by a model and       *)
(* billed once, and the usage record of a day counts it once; only a       *)
(* crash, a failed call, a failing cache or an early timeout adds to that. *)
(* A message whose job was deleted is billed, and annotated, unless a      *)
(* PATCH of the message has written its annotation.                        *)
THEOREM BilledOnce == SpecBoth => []BilledPerJob
<1> DEFINE Inv == RunsInv /\ CallsInv /\ BillInv /\ NoteInv
<1>1. InitBoth => Inv
  <2> SUFFICES ASSUME InitBoth
               PROVE  Inv
    OBVIOUS
  <2>1. /\ usage = [d \in 1..MaxDays |-> NoUsage] /\ runs = [d \in 1..MaxDays |-> 0]
        /\ calls = [m \in 1..MaxCreated |-> 0] /\ billed = [m \in 1..MaxCreated |-> 0]
        /\ \A w \in Workers : worker[w] = Idle
        /\ aijobs = <<>> /\ mishaps = 0
    BY DEF InitBoth, Init
  <2>2. RunsInv
    BY <2>1 DEF RunsInv, NoUsage, Days, Idle
  <2>3. CallsInv
    <3>1. Types
      BY TypesInit
    <3>2. ASSUME NEW m \in 1..MaxCreated
          PROVE  CallSum(m)
      <4>1. InCall(m) = {}
        BY <2>1 DEF InCall, Idle
      <4>2. Cardinality(InCall(m)) = 0 /\ calls[m] = 0
        BY <2>1, <4>1, FS_EmptySet
      <4>3. Cardinality(Keys(m)) \in Nat
        BY <3>1, CallsCanBeCounted DEF CallsCountable
      <4> QED  BY <2>1, <4>2, <4>3 DEF CallSum
    <3> QED  BY <3>2 DEF CallsInv
  <2>4. JobIds = {}
    BY <2>1 DEF JobIds
  <2>5. BillInv
    BY <2>1, <2>4 DEF BillInv
  <2>6. NoteInv
    BY <2>1, <2>4 DEF NoteInv, Knows, Idle
  <2> QED  BY <2>2, <2>3, <2>5, <2>6
<1>2. ASSUME Types, Inv, [NextBoth]_allVars
      PROVE  Inv'
  <2>1. Next \/ Elsewhere
    BY <1>2, ComposedSteps
  <2> QED  BY <1>2, <2>1, RunsInvStep, CallsInvStep, BillInvStep, NoteInvStep
<1>3. ASSUME Types, Inv
      PROVE  BilledPerJob
  <2>1. ASSUME NEW d \in DOMAIN usage
        PROVE  usage[d].sent <= runs[d]
    BY <1>3 DEF RunsInv, Types, CountTypes
  <2>2. ASSUME NEW m \in 1..MaxCreated
        PROVE  calls[m] <= Cardinality({ModelOf[c] : c \in Contents}) + mishaps
    <3>1. /\ calls[m] \in Nat /\ Cardinality(InCall(m)) \in Nat /\ mishaps \in Nat
          /\ Cardinality(Keys(m)) \in Nat
          /\ calls[m] + Cardinality(InCall(m)) <= Cardinality(Keys(m)) + mishaps
      BY <1>3, CallsCanBeCounted DEF CallsCountable, CallsInv, CallSum
    <3>2. Cardinality(Keys(m)) <= Cardinality(Models) /\ Cardinality(Models) \in Nat
      <4>1. Keys(m) \subseteq Models
        BY DEF Keys
      <4> QED  BY <4>1, ModelsAreFinite, FS_Subset, FS_CardinalityType
    <3>3. calls[m] <= Cardinality(Models) + mishaps
      BY <3>1, <3>2
    <3> QED  BY <3>3 DEF Models
  <2>3. ASSUME NEW m \in 1..MaxCreated
        PROVE  /\ billed[m] <= Done(m) + Finishing(m) + mishaps
               /\ m \in DOMAIN message /\ Done(m) > 0 =>
                      billed[m] > 0 /\ (m \notin retouched => message[m].note # None)
    <3>1. Done(m) > 0 => Handled(m)
      BY <1>3, FinishedOrGoingOn DEF NoteInv
    <3> QED  BY <1>3, <3>1, FinishedOrGoingOn DEF Handled
  <2> QED  BY <2>1, <2>2, <2>3 DEF BilledPerJob
<1> QED  BY <1>1, <1>2, <1>3, ScoringTypes, PTL DEF SpecBoth

-----------------------------------------------------------------------------
(* LatestCounts.  A message that a lead's last score does not count yet is *)
(* still to be scored for that lead: its event is about to be published,   *)
(* or its job is not acknowledged and no handler has scored it already.    *)
Owed(k, l) ==
    \/ caller.pc = "message" /\ caller.message = k
    \/ \E j \in JobIds :
           /\ aijobs[j].message = k /\ aijobs[j].state # "deleted"
           /\ \A w \in Workers : worker[w].job = j =>
                  /\ worker[w].pc \notin {"publish", "ack"}
                  /\ worker[w].pc = "commit" => worker[w].lead = l

(* A count n of the messages of the session of m, made for lead l: the     *)
(* message that is being scored right now does not count as owed.          *)
Latest(l, m, n, x) ==
    m \in DOMAIN message =>
        LET s == message[m].session IN
        \/ s \in uprooted
        \/ /\ session[s] = l
           /\ \/ l \in straddled \/ s \in unscored
              \/ n = Cardinality(MessagesOf(s))
              \/ \E k \in MessagesOf(s) \ x : Owed(k, l)

SessionRead(w) ==
    worker[w].pc \in {"call", "analyzed", "usage"} /\ Target(w) \in DOMAIN message
        => worker[w].read.session = message[Target(w)].session

LatestScored(l) ==
    timeline[l] # None =>
        /\ timeline[l].message \in 1..created
        /\ Latest(l, timeline[l].message, timeline[l].count, {})

LatestRead(w) ==
    worker[w].pc = "commit" /\ worker[w].lead \in DOMAIN lead =>
        Latest(worker[w].lead, Target(w), worker[w].count, {Target(w)})

LatestInv ==
    /\ \A l \in DOMAIN lead : LatestScored(l)
    /\ \A w \in Workers : LatestRead(w) /\ SessionRead(w)
    /\ caller.pc = "session" => caller.session \notin DOMAIN session

(* What a step must leave: messages stay in their sessions; a session      *)
(* stays with its lead and keeps its messages, or gets one that is owed;   *)
(* what is owed stays so.                                                  *)
StayInSession ==
    \A k \in 1..created : k \in DOMAIN message' =>
        k \in DOMAIN message /\ message'[k].session = message[k].session

ExceptionsStay ==
    uprooted \subseteq uprooted' /\ straddled \subseteq straddled' /\ unscored \subseteq unscored'

SessionsStay(l) ==
    \A s \in DOMAIN session :
        \/ s \in uprooted'
        \/ /\ session[s] = l => session'[s] = l
           /\ \/ MessagesOf(s)' = MessagesOf(s)
              \/ \E k \in MessagesOf(s)' \ (1..created) : Owed(k, l)'

OwedStays(l, x) ==
    \A k \in DOMAIN message \ x :
        session[message[k].session] = l /\ Owed(k, l) =>
            \/ Owed(k, l)' \/ l \in straddled'
            \/ message[k].session \in unscored' \cup uprooted'

LEMMA LatestStays ==
    ASSUME Types, NEW l, NEW m \in 1..created, NEW n, NEW x, NEW y, y \subseteq x,
           x \subseteq 1..created, StayInSession, ExceptionsStay, SessionsStay(l),
           OwedStays(l, x), Latest(l, m, n, x)
    PROVE  Latest(l, m, n, y)'
<1> SUFFICES ASSUME m \in DOMAIN message'
             PROVE  Latest(l, m, n, y)'
  BY DEF Latest
<1>1. m \in DOMAIN message /\ message'[m].session = message[m].session
  BY DEF StayInSession
<1>2. PICK s : s = message[m].session
  OBVIOUS
<1>3. s \in DOMAIN session
  BY <1>1, <1>2 DEF Types, RowTypes
<1>4. CASE s \in uprooted'
  BY <1>1, <1>2, <1>4 DEF Latest
<1>5. CASE s \notin uprooted'
  <2>1. /\ session[s] = l
        /\ \/ l \in straddled \/ s \in unscored
           \/ n = Cardinality(MessagesOf(s))
           \/ \E k \in MessagesOf(s) \ x : Owed(k, l)
    BY <1>1, <1>2, <1>5 DEF Latest, ExceptionsStay
  <2>2. /\ session'[s] = l
        /\ \/ MessagesOf(s)' = MessagesOf(s)
           \/ \E k \in MessagesOf(s)' \ (1..created) : Owed(k, l)'
    BY <1>3, <1>5, <2>1 DEF SessionsStay
  <2>3. \/ l \in straddled' \/ s \in unscored'
        \/ n = Cardinality(MessagesOf(s)')
        \/ \E k \in MessagesOf(s)' \ y : Owed(k, l)'
    <3>1. CASE l \in straddled \/ s \in unscored
      BY <3>1 DEF ExceptionsStay
    <3>2. CASE \E k \in MessagesOf(s)' \ (1..created) : Owed(k, l)'
      BY <3>2
    <3>3. CASE MessagesOf(s)' = MessagesOf(s) /\ n = Cardinality(MessagesOf(s))
      BY <3>3
    <3>4. ASSUME MessagesOf(s)' = MessagesOf(s), NEW k \in MessagesOf(s) \ x, Owed(k, l)
          PROVE  l \in straddled' \/ s \in unscored' \/ Owed(k, l)'
      <4>1. k \in DOMAIN message \ x /\ message[k].session = s
        BY <3>4 DEF MessagesOf
      <4> QED  BY <1>5, <2>1, <3>4, <4>1 DEF OwedStays
    <3> QED  BY <2>1, <2>2, <3>1, <3>2, <3>3, <3>4
  <2> QED  BY <1>1, <1>2, <2>2, <2>3 DEF Latest
<1> QED  BY <1>4, <1>5

(* Job j still owes its message.                                           *)
LEMMA JobOwes ==
    ASSUME NEW k, NEW l, NEW j \in JobIds', aijobs'[j].message = k,
           aijobs'[j].state # "deleted",
           \A v \in Workers : worker'[v].job = j =>
               /\ worker'[v].pc \notin {"publish", "ack"}
               /\ worker'[v].pc = "commit" => worker'[v].lead = l
    PROVE  Owed(k, l)'
  BY DEF Owed

LEMMA ApiFrame ==
    ASSUME Types, LatestInv, worker' = worker,
           \A w \in Workers : worker[w].pc # "idle" => Target(w)' = Target(w),
           StayInSession, ExceptionsStay, 1..created \subseteq 1..created',
           \A l \in DOMAIN lead' :
               /\ l \in DOMAIN lead /\ timeline'[l] = timeline[l]
               /\ SessionsStay(l) /\ OwedStays(l, {}),
           caller'.pc = "session" => caller'.session \notin DOMAIN session'
    PROVE  LatestInv'
<1>1. ASSUME NEW l \in DOMAIN lead'
      PROVE  LatestScored(l)'
  <2>1. CASE timeline[l] = None
    BY <1>1, <2>1 DEF LatestScored
  <2>2. CASE timeline[l] # None
    <3>1. PICK m, n : m = timeline[l].message /\ n = timeline[l].count
      OBVIOUS
    <3>2. m \in 1..created /\ Latest(l, m, n, {})
      BY <1>1, <2>2, <3>1 DEF LatestInv, LatestScored
    <3>3. Latest(l, m, n, {})'
      BY <1>1, <3>2, LatestStays
    <3>4. timeline'[l].message = m /\ timeline'[l].count = n /\ m \in 1..created'
      BY <1>1, <3>1, <3>2
    <3> QED  BY <3>3, <3>4 DEF LatestScored
  <2> QED  BY <2>1, <2>2
<1>2. ASSUME NEW w \in Workers
      PROVE  LatestRead(w)'
  <2>1. CASE ~(worker[w].pc = "commit" /\ worker[w].lead \in DOMAIN lead')
    BY <2>1 DEF LatestRead
  <2>2. CASE worker[w].pc = "commit" /\ worker[w].lead \in DOMAIN lead'
    <3>1. PICK l, m, n : l = worker[w].lead /\ m = Target(w) /\ n = worker[w].count
      OBVIOUS
    <3>2. l \in DOMAIN lead /\ SessionsStay(l) /\ OwedStays(l, {m})
      BY <2>2, <3>1 DEF OwedStays
    <3>3. m \in 1..created /\ {m} \subseteq 1..created
      BY <2>2, <3>1, WorkerIsTyped, ConstantsOK DEF Types, CountTypes
    <3>4. Latest(l, m, n, {m})
      BY <2>2, <3>1, <3>2 DEF LatestInv, LatestRead
    <3>5. Latest(l, m, n, {m})'
      BY <3>2, <3>3, <3>4, LatestStays
    <3>6. worker'[w].lead = l /\ Target(w)' = m /\ worker'[w].count = n
      BY <2>2, <3>1
    <3> QED  BY <3>5, <3>6 DEF LatestRead
  <2> QED  BY <2>1, <2>2
<1>3. ASSUME NEW w \in Workers
      PROVE  SessionRead(w)'
  <2>1. CASE worker[w].pc = "idle"
    BY <2>1 DEF SessionRead
  <2>2. CASE worker[w].pc # "idle"
    <3>1. Target(w) \in 1..created /\ Target(w)' = Target(w) /\ SessionRead(w)
      BY <2>2, WorkerIsTyped, ConstantsOK DEF Types, CountTypes, LatestInv
    <3>2. Target(w) \in DOMAIN message' =>
              /\ Target(w) \in DOMAIN message
              /\ message'[Target(w)].session = message[Target(w)].session
      BY <3>1 DEF StayInSession
    <3> QED  BY <3>1, <3>2 DEF SessionRead
  <2> QED  BY <2>1, <2>2
<1> QED  BY <1>1, <1>2, <1>3 DEF LatestInv

LEMMA OwedAsBefore ==
    ASSUME UNCHANGED <<worker, aijobs>>, caller' = caller \/ caller.pc # "message"
    PROVE  \A l, x : OwedStays(l, x)
<1> SUFFICES ASSUME NEW k, NEW l, Owed(k, l)
             PROVE  Owed(k, l)'
  BY DEF OwedStays
<1> QED  BY DEF Owed, JobIds

(* The calls that leave messages and sessions alone, and those that do not *)
(* touch the jobs.                                                         *)
LEMMA QuietCalls ==
    ASSUME Types, LatestInv, UNCHANGED <<worker, aijobs>>, ExceptionsStay, StayInSession,
           caller' = caller \/ caller.pc # "message",
           1..created \subseteq 1..created',
           \A l \in DOMAIN lead' : /\ l \in DOMAIN lead /\ timeline'[l] = timeline[l]
                                   /\ SessionsStay(l),
           caller'.pc = "session" => caller'.session \notin DOMAIN session'
    PROVE  LatestInv'
<1>1. \A w \in Workers : Target(w)' = Target(w)
  BY DEF Target
<1> QED  BY <1>1, ApiFrame, OwedAsBefore

LEMMA IdleCalls ==
    ASSUME Types, LatestInv,
           UNCHANGED <<worker, aijobs, message, session, created, uprooted, straddled,
                       unscored, timeline>>,
           caller' = caller \/ caller.pc # "message", DOMAIN lead' = DOMAIN lead,
           caller'.pc = "session" => caller'.session \notin DOMAIN session
    PROVE  LatestInv'
<1>1. ExceptionsStay /\ StayInSession
  BY DEF ExceptionsStay, StayInSession
<1>2. \A s : MessagesOf(s)' = MessagesOf(s)
  BY DEF MessagesOf
<1>3. \A l : SessionsStay(l)
  BY <1>2 DEF SessionsStay
<1> QED  BY <1>1, <1>3, QuietCalls

LEMMA SessionCalls ==
    ASSUME Types, LatestInv,
           CommitSession \/ (\E s \in Sessions : AttachSession(s) \/ DeleteSession(s))
           \/ (\E l \in Leads : DeleteLead(l))
    PROVE  LatestInv'
<1>0. None \notin Leads
  BY ConstantsOK
<1>1. CASE CommitSession
  <2>1. /\ session' = With(session, caller.session, caller.lead)
        /\ caller.pc = "session" /\ caller' = Quiet
        /\ UNCHANGED <<worker, aijobs, lead, message, created, uprooted, straddled, unscored,
                       timeline>>
    BY <1>1 DEF CommitSession, history
  <2>2. caller.session \notin DOMAIN session
    BY <2>1 DEF LatestInv
  <2>3. \A s : MessagesOf(s)' = MessagesOf(s)
    BY <2>1 DEF MessagesOf
  <2>4. \A s \in DOMAIN session : session'[s] = session[s]
    BY <2>1, <2>2 DEF With
  <2>5. \A l : SessionsStay(l)
    BY <2>3, <2>4 DEF SessionsStay
  <2>6. ExceptionsStay /\ StayInSession
    BY <2>1 DEF ExceptionsStay, StayInSession
  <2> QED  BY <2>1, <2>5, <2>6, QuietCalls DEF Quiet
<1>2. ASSUME NEW s \in Sessions, AttachSession(s)
      PROVE  LatestInv'
  <2>1. /\ UNCHANGED <<worker, aijobs, lead, message, created, straddled, unscored, timeline,
                       caller>>
        /\ s \in DOMAIN session /\ DOMAIN session' = DOMAIN session
        /\ \A t \in DOMAIN session : t # s => session'[t] = session[t]
        /\ uprooted' = IF session[s] = None THEN uprooted ELSE uprooted \cup {s}
    BY <1>2 DEF AttachSession, Edit
  <2>2. \A t : MessagesOf(t)' = MessagesOf(t)
    BY <2>1 DEF MessagesOf
  <2>3. \A l \in DOMAIN lead : SessionsStay(l)
    BY <1>0, <2>1, <2>2 DEF SessionsStay, Types, RowTypes
  <2>4. ExceptionsStay /\ StayInSession
    BY <2>1 DEF ExceptionsStay, StayInSession
  <2> QED  BY <2>1, <2>3, <2>4, QuietCalls DEF LatestInv
<1>3. ASSUME NEW s \in Sessions, DeleteSession(s)
      PROVE  LatestInv'
  <2>1. /\ UNCHANGED <<worker, aijobs, lead, created, straddled, unscored, timeline, caller>>
        /\ DOMAIN session' = DOMAIN session \ {s}
        /\ \A t \in DOMAIN session : t # s => session'[t] = session[t]
        /\ message' = [m \in DOMAIN message \ MessagesOf(s) |-> message[m]]
        /\ uprooted' = uprooted \cup {s}
    BY <1>3 DEF DeleteSession, Edit, Without
  <2>2. \A t : t # s => MessagesOf(t)' = MessagesOf(t)
    BY <2>1 DEF MessagesOf
  <2>3. \A l \in DOMAIN lead : SessionsStay(l)
    BY <2>1, <2>2 DEF SessionsStay
  <2>4. ExceptionsStay /\ StayInSession
    BY <2>1 DEF ExceptionsStay, StayInSession
  <2> QED  BY <2>1, <2>3, <2>4, QuietCalls DEF LatestInv
<1>4. ASSUME NEW l \in Leads, DeleteLead(l)
      PROVE  LatestInv'
  <2>1. /\ UNCHANGED <<worker, aijobs, message, created, straddled, unscored, uprooted, caller>>
        /\ DOMAIN session' = DOMAIN session
        /\ \A t \in DOMAIN session : session[t] # l => session'[t] = session[t]
        /\ DOMAIN lead' = DOMAIN lead \ {l}
        /\ timeline' = [timeline EXCEPT ![l] = None]
    BY <1>4 DEF DeleteLead, Edit, Without
  <2>2. \A t : MessagesOf(t)' = MessagesOf(t)
    BY <2>1 DEF MessagesOf
  <2>3. \A k \in DOMAIN lead' : SessionsStay(k)
    BY <2>1, <2>2 DEF SessionsStay
  <2>4. \A k \in DOMAIN lead' : k \in DOMAIN lead /\ timeline'[k] = timeline[k]
    BY <2>1 DEF Types, RowTypes
  <2>5. ExceptionsStay /\ StayInSession
    BY <2>1 DEF ExceptionsStay, StayInSession
  <2> QED  BY <2>1, <2>3, <2>4, <2>5, QuietCalls DEF LatestInv
<1> QED  BY <1>1, <1>2, <1>3, <1>4

LEMMA MessageCalls ==
    ASSUME Types, LatestInv,
           \/ \E s \in Sessions : CreateMessage(s)
           \/ \E m \in 1..MaxCreated : UpdateMessage(m) \/ DeleteMessage(m)
    PROVE  LatestInv'
<1>1. ASSUME NEW s \in Sessions, CreateMessage(s)
      PROVE  LatestInv'
  <2>0. PICK m : m = created + 1
    OBVIOUS
  <2>1. PICK r : message' = With(message, m, r) /\ r.session = s
    BY <1>1, <2>0 DEF CreateMessage
  <2>2. /\ UNCHANGED <<worker, aijobs, lead, session, straddled, unscored, uprooted, timeline>>
        /\ caller = Quiet /\ created' = m
        /\ caller' = [pc |-> "message", message |-> m, session |-> s]
    BY <1>1, <2>0 DEF CreateMessage, history
  <2>3. created \in Nat /\ m \notin 1..created /\ DOMAIN message \subseteq 1..created
    BY <2>0, ConstantsOK DEF Types, CountTypes, RowTypes
  <2>4. /\ DOMAIN message' = DOMAIN message \cup {m}
        /\ message'[m].session = s
        /\ \A k \in DOMAIN message : message'[k] = message[k]
    BY <2>1, <2>3 DEF With
  <2>5. \A t : t # s => MessagesOf(t)' = MessagesOf(t)
    BY <2>3, <2>4 DEF MessagesOf
  <2>6. m \in MessagesOf(s)' \ (1..created) /\ \A l : Owed(m, l)'
    BY <2>2, <2>3, <2>4 DEF MessagesOf, Owed
  <2>7. \A l : SessionsStay(l)
    BY <2>2, <2>5, <2>6 DEF SessionsStay
  <2>8. StayInSession /\ ExceptionsStay
    BY <2>2, <2>3, <2>4 DEF StayInSession, ExceptionsStay
  <2>9. 1..created \subseteq 1..created'
    BY <2>0, <2>2, <2>3
  <2> QED  BY <2>2, <2>7, <2>8, <2>9, QuietCalls DEF Quiet
<1>2. ASSUME NEW m, UpdateMessage(m)
      PROVE  LatestInv'
  <2>1. UNCHANGED <<worker, aijobs, lead, session, straddled, unscored, uprooted, timeline,
                    caller, created>>
    BY <1>2 DEF UpdateMessage, Edit
  <2>2. DOMAIN message' = DOMAIN message
        /\ \A k \in DOMAIN message : message'[k].session = message[k].session
    BY <1>2, UpdateMessageShape
  <2>3. \A t : MessagesOf(t)' = MessagesOf(t)
    BY <2>2 DEF MessagesOf
  <2>4. \A l : SessionsStay(l)
    BY <2>1, <2>3 DEF SessionsStay
  <2>5. StayInSession /\ ExceptionsStay
    BY <2>1, <2>2 DEF StayInSession, ExceptionsStay
  <2> QED  BY <2>1, <2>4, <2>5, QuietCalls DEF LatestInv
<1>3. ASSUME NEW m, DeleteMessage(m)
      PROVE  LatestInv'
  <2>1. /\ UNCHANGED <<worker, aijobs, lead, session, straddled, unscored, timeline, caller,
                       created>>
        /\ m \in DOMAIN message /\ message' = Without(message, m)
        /\ uprooted' = uprooted \cup {message[m].session}
    BY <1>3 DEF DeleteMessage, Edit
  <2>2. \A t : t # message[m].session => MessagesOf(t)' = MessagesOf(t)
    BY <2>1 DEF MessagesOf, Without
  <2>3. \A l : SessionsStay(l)
    BY <2>1, <2>2 DEF SessionsStay
  <2>4. StayInSession /\ ExceptionsStay
    BY <2>1 DEF StayInSession, ExceptionsStay, Without
  <2> QED  BY <2>1, <2>3, <2>4, QuietCalls DEF LatestInv
<1> QED  BY <1>1, <1>2, <1>3

LEMMA PublishCalls ==
    ASSUME Types, LatestInv, PublishMessage \/ MessageDies
    PROVE  LatestInv'
<1>1. /\ UNCHANGED <<worker, lead, message, session, straddled, uprooted, timeline, created>>
      /\ caller.pc = "message" /\ caller'.pc # "session"
      /\ unscored \subseteq unscored'
  BY DEF PublishMessage, MessageDies, Quiet, rows, history
<1>2. StayInSession /\ ExceptionsStay
  BY <1>1 DEF StayInSession, ExceptionsStay
<1>3. \A t : MessagesOf(t)' = MessagesOf(t)
  BY <1>1 DEF MessagesOf
<1>4. \A l : SessionsStay(l)
  BY <1>1, <1>3 DEF SessionsStay
<1>5. \A i \in JobIds : i \in JobIds' /\ aijobs'[i] = aijobs[i]
  BY MessageIsQueued DEF MessageDies, JobIds
<1>6. ASSUME NEW k, NEW l, NEW i \in JobIds, aijobs[i].message = k,
             aijobs[i].state # "deleted",
             \A v \in Workers : worker[v].job = i =>
                 /\ worker[v].pc \notin {"publish", "ack"}
                 /\ worker[v].pc = "commit" => worker[v].lead = l
      PROVE  Owed(k, l)'
  BY <1>1, <1>5, <1>6, JobOwes
<1>7. ASSUME NEW l, NEW k \in DOMAIN message, caller.message = k
      PROVE  Owed(k, l)' \/ message[k].session \in unscored'
  <2>1. CASE PublishMessage
    <3>1. PICK n : n = Len(aijobs')
      OBVIOUS
    <3>2. /\ n \in JobIds' /\ aijobs'[n].message = k /\ aijobs'[n].state = "queued"
          /\ \A v \in Workers : worker'[v].job # n
      BY <1>7, <2>1, <3>1, MessageIsQueued
    <3> QED  BY <3>2, JobOwes
  <2>2. CASE MessageDies
    <3>1. message[k].session = caller.session
      BY <1>1, <1>7 DEF Types, CallerTypes
    <3> QED  BY <2>2, <3>1 DEF MessageDies
  <2> QED  BY <2>1, <2>2
<1>8. \A l : OwedStays(l, {})
  BY <1>6, <1>7 DEF OwedStays, Owed
<1>9. \A w \in Workers : worker[w].pc # "idle" => Target(w)' = Target(w)
  BY <1>1, <1>5, WorkerIsTyped DEF Target
<1> QED  BY <1>1, <1>2, <1>4, <1>8, <1>9, ApiFrame

LEMMA ApiLatest ==
    ASSUME Types, LatestInv, ApiSide
    PROVE  LatestInv'
<1>1. ASSUME NEW s \in Sessions, CreateSession(s)
      PROVE  LatestInv'
  <2>1. /\ UNCHANGED <<worker, aijobs, lead, message, session, created, uprooted, straddled,
                       unscored, timeline>>
        /\ caller.pc # "message" /\ caller'.session = s /\ s \notin DOMAIN session
    BY <1>1 DEF CreateSession, Quiet, rows, history
  <2> QED  BY <2>1, IdleCalls
<1>2. ASSUME NEW l \in Leads, PatchScore(l) \/ AddTimelineEvent(l)
      PROVE  LatestInv'
  <2>1. /\ UNCHANGED <<worker, aijobs, message, session, created, uprooted, straddled,
                       unscored, timeline>>
        /\ caller.pc # "message" /\ caller'.pc = "patched" /\ DOMAIN lead' = DOMAIN lead
    BY <1>2 DEF PatchScore, AddTimelineEvent, Edit, Quiet
  <2> QED  BY <2>1, IdleCalls
<1>3. ASSUME SessionRefused \/ PublishPatch \/ PatchDies
      PROVE  LatestInv'
  <2>1. /\ UNCHANGED <<worker, aijobs, lead, message, session, created, uprooted, straddled,
                       unscored, timeline>>
        /\ caller.pc # "message" /\ caller' = Quiet
    BY <1>3 DEF SessionRefused, PublishPatch, PatchDies, rows, history
  <2> QED  BY <2>1, IdleCalls DEF Quiet
<1>4. ASSUME Midnight \/ Elsewhere
      PROVE  LatestInv'
  <2>1. UNCHANGED <<worker, aijobs, lead, message, session, created, uprooted, straddled,
                    unscored, timeline, caller>>
    BY <1>4 DEF Midnight, Elsewhere, ownVars, rows, history
  <2> QED  BY <2>1, IdleCalls DEF LatestInv
<1> QED
  BY <1>1, <1>2, <1>3, <1>4, SessionCalls, MessageCalls, PublishCalls DEF ApiSide, ApiStep

(* A step of handler w.                                                    *)
SessionsAsBefore ==
    /\ DOMAIN message' = DOMAIN message
    /\ \A k \in DOMAIN message : message'[k].session = message[k].session
    /\ UNCHANGED <<session, created, caller, unscored, uprooted>>
    /\ straddled \subseteq straddled' /\ DOMAIN lead' = DOMAIN lead

LEMMA SessionsFrame ==
    ASSUME Types, SessionsAsBefore
    PROVE  StayInSession /\ ExceptionsStay /\ \A l : SessionsStay(l)
<1>1. \A t : MessagesOf(t)' = MessagesOf(t)
  BY DEF SessionsAsBefore, MessagesOf
<1> QED  BY <1>1 DEF SessionsAsBefore, StayInSession, ExceptionsStay, SessionsStay

LEMMA LatestFrame ==
    ASSUME Types, LatestInv, NEW w \in Workers, JobsStay, SessionsAsBefore,
           \A v \in Workers : v # w => worker'[v] = worker[v],
           \A l \in DOMAIN lead : \/ LatestScored(l)'
                                  \/ timeline'[l] = timeline[l] /\ OwedStays(l, {}),
           \A v \in Workers \ {w} :
               worker[v].pc = "commit" /\ worker[v].lead \in DOMAIN lead
                   => OwedStays(worker[v].lead, {}),
           LatestRead(w)', SessionRead(w)'
    PROVE  LatestInv'
<1>0. StayInSession /\ ExceptionsStay /\ \A l : SessionsStay(l)
  BY SessionsFrame
<1>1. ASSUME NEW l \in DOMAIN lead, timeline'[l] = timeline[l], OwedStays(l, {})
      PROVE  LatestScored(l)'
  <2>1. CASE timeline[l] = None
    BY <1>1, <2>1 DEF LatestScored
  <2>2. CASE timeline[l] # None
    <3>1. PICK m, n : m = timeline[l].message /\ n = timeline[l].count
      OBVIOUS
    <3>2. m \in 1..created /\ Latest(l, m, n, {})
      BY <1>1, <2>2, <3>1 DEF LatestInv, LatestScored
    <3>3. Latest(l, m, n, {})'
      BY <1>0, <1>1, <3>2, LatestStays
    <3>4. timeline'[l].message = m /\ timeline'[l].count = n /\ m \in 1..created'
      BY <1>1, <3>1, <3>2 DEF SessionsAsBefore
    <3> QED  BY <3>3, <3>4 DEF LatestScored
  <2> QED  BY <2>1, <2>2
<1>2. ASSUME NEW v \in Workers \ {w}
      PROVE  LatestRead(v)'
  <2>0. worker'[v] = worker[v] /\ DOMAIN lead' = DOMAIN lead
    BY DEF SessionsAsBefore
  <2>1. CASE ~(worker[v].pc = "commit" /\ worker[v].lead \in DOMAIN lead)
    BY <2>0, <2>1 DEF LatestRead
  <2>2. CASE worker[v].pc = "commit" /\ worker[v].lead \in DOMAIN lead
    <3>1. PICK l, m, n : l = worker[v].lead /\ m = Target(v) /\ n = worker[v].count
      OBVIOUS
    <3>2. OwedStays(l, {m})
      BY <2>2, <3>1 DEF OwedStays
    <3>3. m \in 1..created /\ {m} \subseteq 1..created
      BY <2>2, <3>1, WorkerIsTyped, ConstantsOK DEF Types, CountTypes
    <3>4. Latest(l, m, n, {m})
      BY <2>2, <3>1 DEF LatestInv, LatestRead
    <3>5. Latest(l, m, n, {m})'
      BY <1>0, <3>2, <3>3, <3>4, LatestStays
    <3>6. aijobs'[worker[v].job].message = m
      BY <2>2, <3>1, TargetStays
    <3>7. worker'[v].lead = l /\ Target(v)' = m /\ worker'[v].count = n
      BY <2>0, <3>1, <3>6 DEF Target
    <3> QED  BY <3>5, <3>7 DEF LatestRead
  <2> QED  BY <2>1, <2>2
<1>3. ASSUME NEW v \in Workers \ {w}
      PROVE  SessionRead(v)'
  <2>1. CASE worker[v].pc = "idle"
    BY <2>1 DEF SessionRead
  <2>2. CASE worker[v].pc # "idle"
    <3>1. Target(v)' = Target(v) /\ worker'[v] = worker[v] /\ SessionRead(v)
      BY <2>2, TargetStays DEF Target, LatestInv
    <3> QED  BY <3>1 DEF SessionRead, SessionsAsBefore
  <2> QED  BY <2>1, <2>2
<1>4. DOMAIN lead' = DOMAIN lead /\ caller' = caller /\ session' = session
  BY DEF SessionsAsBefore
<1> QED  BY <1>1, <1>2, <1>3, <1>4 DEF LatestInv

LEMMA HandlerOwes ==
    ASSUME Types, NEW w \in Workers, NEW l, JobsStay, caller' = caller,
           \A v \in Workers : v # w => worker'[v] = worker[v],
           \A i \in JobIds : aijobs[i].state # "deleted" /\ aijobs'[i].state = "deleted" =>
               i = worker[w].job /\ worker[w].pc \in {"publish", "ack"},
           \A i \in JobIds : \A k \in DOMAIN message :
               /\ worker'[w].job = i /\ aijobs[i].message = k
               /\ session[message[k].session] = l
               /\ worker[w].job = i => worker[w].pc \notin {"publish", "ack"}
               => /\ worker'[w].pc \notin {"publish", "ack"}
                  /\ worker'[w].pc = "commit" => worker'[w].lead = l
    PROVE  OwedStays(l, {})
<1> SUFFICES ASSUME NEW k \in DOMAIN message, session[message[k].session] = l, Owed(k, l)
             PROVE  Owed(k, l)'
  BY DEF OwedStays
<1>1. CASE caller.pc = "message" /\ caller.message = k
  BY <1>1 DEF Owed
<1>2. ASSUME NEW i \in JobIds, aijobs[i].message = k, aijobs[i].state # "deleted",
             \A v \in Workers : worker[v].job = i =>
                 /\ worker[v].pc \notin {"publish", "ack"}
                 /\ worker[v].pc = "commit" => worker[v].lead = l
      PROVE  Owed(k, l)'
  <2>1. i \in JobIds' /\ aijobs'[i].message = k
    BY <1>2 DEF JobsStay, JobIds
  <2>2. aijobs'[i].state # "deleted"
    BY <1>2
  <2>3. ASSUME NEW v \in Workers, worker'[v].job = i
        PROVE  /\ worker'[v].pc \notin {"publish", "ack"}
               /\ worker'[v].pc = "commit" => worker'[v].lead = l
    <3>1. CASE v = w
      BY <1>2, <2>3, <3>1
    <3>2. CASE v # w
      BY <1>2, <2>3, <3>2
    <3> QED  BY <3>1, <3>2
  <2> QED  BY <2>1, <2>2, <2>3, JobOwes
<1> QED  BY <1>1, <1>2 DEF Owed

LEMMA BeginLatest ==
    ASSUME Types, LatestInv, NEW w \in Workers, NEW j \in JobIds, Begin(w, j)
    PROVE  LatestInv'
<1>0. PICK m : m = aijobs[j].message
  OBVIOUS
<1>1. /\ worker[w] = Idle /\ JobsStay
      /\ \A i \in JobIds : aijobs'[i].state = aijobs[i].state
      /\ UNCHANGED <<message, session, lead, timeline, created, caller, unscored, uprooted,
                     straddled>>
      /\ \A v \in Workers : v # w => worker'[v] = worker[v]
      /\ worker'[w].job = j /\ worker'[w].pc \in {"ack", "call", "analyzed"}
      /\ worker'[w].pc = "ack" => m \notin DOMAIN message
      /\ worker'[w].pc \in {"call", "analyzed"} => worker'[w].read = message[m]
  BY <1>0, BeginShape
<1>2. Target(w)' = m
  BY <1>0, <1>1 DEF Target, JobsStay
<1>3. SessionsAsBefore
  BY <1>1 DEF SessionsAsBefore
<1>4. \A l : OwedStays(l, {})
  <2> TAKE l
  <2> QED  BY <1>0, <1>1, HandlerOwes
<1>5. LatestRead(w)' /\ SessionRead(w)'
  BY <1>1, <1>2 DEF LatestRead, SessionRead
<1> QED  BY <1>1, <1>3, <1>4, <1>5, LatestFrame

LEMMA ReadsLatest ==
    ASSUME Types, LatestInv, NEW w \in Workers, Analyze(w) \/ ReadUsage(w)
    PROVE  LatestInv'
<1>1. /\ worker[w].pc \in {"call", "analyzed"} /\ worker'[w].pc \in {"analyzed", "usage"}
      /\ worker'[w].job = worker[w].job /\ worker'[w].read = worker[w].read
      /\ \A v \in Workers : v # w => worker'[v] = worker[v]
      /\ UNCHANGED <<message, session, lead, timeline, aijobs, created, caller, unscored,
                     uprooted, straddled>>
  <2>1. CASE Analyze(w)
    BY <2>1, AnalyzeShape
  <2>2. CASE ReadUsage(w)
    <3>1. worker[w].pc = "analyzed"
      BY <2>2 DEF ReadUsage
    <3> QED  BY <2>2, <3>1, ReadsShape
  <2> QED  BY <2>1, <2>2
<1>2. JobsStay
  BY <1>1, WorkerIsTyped, JobChangesStay
<1>3. SessionsAsBefore
  BY <1>1 DEF SessionsAsBefore
<1>4. \A l : OwedStays(l, {})
  <2> TAKE l
  <2> QED  BY <1>1, <1>2, HandlerOwes
<1>5. Target(w)' = Target(w) /\ SessionRead(w)
  BY <1>1 DEF Target, LatestInv
<1>6. LatestRead(w)' /\ SessionRead(w)'
  BY <1>1, <1>5 DEF LatestRead, SessionRead
<1> QED  BY <1>1, <1>2, <1>3, <1>4, <1>6, LatestFrame

LEMMA ReadLeadLatest ==
    ASSUME Types, LatestInv, NEW w \in Workers, ReadLead(w)
    PROVE  LatestInv'
<1>0. PICK m, s, n : /\ m = Target(w) /\ s = worker[w].read.session
                     /\ n = Cardinality(MessagesOf(s))
  OBVIOUS
<1>1. /\ worker[w].pc = "usage" /\ worker'[w].pc = "commit"
      /\ worker'[w].job = worker[w].job
      /\ \A v \in Workers : v # w => worker'[v] = worker[v]
      /\ UNCHANGED <<message, session, lead, timeline, aijobs, created, caller, unscored,
                     uprooted, straddled>>
  <2>1. worker[w].pc = "usage"
    BY DEF ReadLead
  <2> QED  BY <2>1, ReadsShape
<1>2. /\ worker'[w].lead = IF s \in DOMAIN session THEN session[s] ELSE None
      /\ worker'[w].count = n
  BY <1>0 DEF ReadLead, Set, Counted, Types, WorkerTypes
<1>3. JobsStay /\ SessionsAsBefore
  BY <1>1, WorkerIsTyped, JobChangesStay DEF SessionsAsBefore
<1>4. m \in DOMAIN message => message[m].session = s /\ s \in DOMAIN session
  BY <1>0, <1>1 DEF LatestInv, SessionRead, Types, RowTypes
<1>5. \A l : OwedStays(l, {})
  <2> TAKE l
  <2>1. ASSUME NEW i \in JobIds, NEW k \in DOMAIN message, worker'[w].job = i,
               aijobs[i].message = k, session[message[k].session] = l
        PROVE  worker'[w].lead = l
    <3>1. k = m
      BY <1>0, <1>1, <2>1 DEF Target
    <3> QED  BY <1>2, <1>4, <2>1, <3>1
  <2> QED  BY <1>1, <1>3, <2>1, HandlerOwes
<1>6. SessionRead(w)'
  BY <1>1 DEF SessionRead
<1>7. LatestRead(w)'
  <2>1. Target(w)' = m /\ MessagesOf(s)' = MessagesOf(s)
    BY <1>0, <1>1 DEF Target, MessagesOf
  <2>2. PICK l : l = worker'[w].lead
    OBVIOUS
  <2>3. m \in DOMAIN message => message[m].session = s /\ session[s] = l
    BY <1>2, <1>4, <2>2
  <2>4. Latest(l, m, n, {m})'
    BY <1>0, <1>1, <2>1, <2>3 DEF Latest
  <2> QED  BY <1>2, <2>1, <2>2, <2>4 DEF LatestRead
<1> QED  BY <1>1, <1>3, <1>5, <1>6, <1>7, LatestFrame

LEMMA LetGoLatest ==
    ASSUME Types, LatestInv, NEW w \in Workers, LetsGo(w)
    PROVE  LatestInv'
<1>1. /\ worker'[w] = Idle /\ JobsStay
      /\ \A v \in Workers : v # w => worker'[v] = worker[v]
      /\ UNCHANGED <<message, session, lead, timeline, created, caller, unscored, uprooted,
                     straddled>>
      /\ \A i \in JobIds : aijobs[i].state # "deleted" /\ aijobs'[i].state = "deleted" =>
             i = worker[w].job /\ worker[w].pc \in {"publish", "ack"}
  BY LetGoShape
<1>2. 0 \notin JobIds /\ worker'[w].job = 0 /\ worker'[w].pc = "idle"
  BY <1>1 DEF JobIds, Idle
<1>3. SessionsAsBefore
  BY <1>1 DEF SessionsAsBefore
<1>4. \A l : OwedStays(l, {})
  <2> TAKE l
  <2> QED  BY <1>1, <1>2, HandlerOwes
<1>5. LatestRead(w)' /\ SessionRead(w)'
  BY <1>2 DEF LatestRead, SessionRead
<1> QED  BY <1>1, <1>3, <1>4, <1>5, LatestFrame

LEMMA CommitLatest ==
    ASSUME Types, LatestInv, NEW w \in Workers, Commit(w)
    PROVE  LatestInv'
<1>0. PICK j, l, m, n : /\ j = worker[w].job /\ l = worker[w].lead
                        /\ m = Target(w) /\ n = worker[w].count
  OBVIOUS
<1>1. /\ worker[w].pc = "commit" /\ worker'[w].pc \in {"publish", "ack"}
      /\ \A v \in Workers : v # w => worker'[v] = worker[v]
      /\ DOMAIN message' = DOMAIN message
      /\ \A k \in DOMAIN message : message'[k].session = message[k].session
      /\ UNCHANGED <<session, aijobs, created, caller, unscored, uprooted>>
  BY CommitShape
<1>2. /\ l # None => l \in DOMAIN lead
      /\ DOMAIN lead' = DOMAIN lead
      /\ straddled' = IF l # None /\ Straddles(w) THEN straddled \cup {l} ELSE straddled
      /\ timeline' = IF l # None
                     THEN [timeline EXCEPT ![l] = [message |-> m, count |-> n,
                                                   scores |-> worker[w].after]]
                     ELSE timeline
  BY <1>0 DEF Commit
<1>3. None \notin DOMAIN lead /\ timeline \in [Leads -> {None} \cup Event]
      /\ DOMAIN lead \subseteq Leads
  BY ConstantsOK DEF Types, RowTypes
<1>4. JobsStay
  BY <1>1, WorkerIsTyped, JobChangesStay
<1>5. SessionsAsBefore
  BY <1>1, <1>2 DEF SessionsAsBefore
<1>6. ASSUME NEW k, NEW x, Owed(k, x), x # l \/ k # m
      PROVE  Owed(k, x)'
  <2>1. CASE caller.pc = "message" /\ caller.message = k
    BY <1>1, <2>1 DEF Owed
  <2>2. ASSUME NEW i \in JobIds, aijobs[i].message = k, aijobs[i].state # "deleted",
               \A v \in Workers : worker[v].job = i =>
                   /\ worker[v].pc \notin {"publish", "ack"}
                   /\ worker[v].pc = "commit" => worker[v].lead = x
        PROVE  Owed(k, x)'
    <3>1. i # j
      BY <1>0, <1>1, <1>6, <2>2 DEF Target
    <3>2. worker'[w].job = j
      BY <1>0, CommitShape
    <3>3. i \in JobIds' /\ aijobs'[i] = aijobs[i]
      BY <1>1 DEF JobIds
    <3> QED  BY <1>1, <2>2, <3>1, <3>2, <3>3, JobOwes
  <2> QED  BY <1>6, <2>1, <2>2 DEF Owed
<1>7. \A x : x # l => OwedStays(x, {})
  BY <1>6 DEF OwedStays
<1>8. OwedStays(l, {m})
  BY <1>6 DEF OwedStays
<1>9. l # None => LatestScored(l)'
  <2> SUFFICES ASSUME l # None
               PROVE  LatestScored(l)'
    OBVIOUS
  <2>1. m \in 1..created /\ {m} \subseteq 1..created
    BY <1>0, <1>1, WorkerIsTyped, ConstantsOK DEF Types, CountTypes
  <2>2. Latest(l, m, n, {m})
    BY <1>0, <1>1, <1>2 DEF LatestInv, LatestRead
  <2>3. Latest(l, m, n, {})'
    BY <1>5, <1>8, <2>1, <2>2, SessionsFrame, LatestStays
  <2>4. timeline'[l].message = m /\ timeline'[l].count = n /\ created' = created
    BY <1>1, <1>2, <1>3
  <2> QED  BY <2>1, <2>3, <2>4 DEF LatestScored
<1>10. ASSUME NEW x \in DOMAIN lead
       PROVE  LatestScored(x)' \/ (timeline'[x] = timeline[x] /\ OwedStays(x, {}))
  <2>1. CASE x = l
    BY <1>3, <1>9, <2>1
  <2>2. CASE x # l
    BY <1>2, <1>3, <1>7, <2>2
  <2> QED  BY <2>1, <2>2
<1>11. ASSUME NEW v \in Workers \ {w}, worker[v].pc = "commit",
              worker[v].lead \in DOMAIN lead
       PROVE  OwedStays(worker[v].lead, {})
  <2>0. PICK x : x = worker[v].lead
    OBVIOUS
  <2>1. CASE x = l
    <3>1. Straddles(w) /\ l # None
      BY <1>0, <1>3, <1>11, <2>0, <2>1 DEF Straddles
    <3>2. l \in straddled'
      BY <1>2, <3>1
    <3> QED  BY <2>0, <2>1, <3>2 DEF OwedStays
  <2>2. CASE x # l
    BY <1>7, <2>0, <2>2
  <2> QED  BY <2>1, <2>2
<1>12. LatestRead(w)' /\ SessionRead(w)'
  BY <1>1 DEF LatestRead, SessionRead
<1> QED  BY <1>1, <1>4, <1>5, <1>10, <1>11, <1>12, LatestFrame

LEMMA LatestAlways == SpecBoth => []LatestInv
<1>1. InitBoth => LatestInv
  BY DEF InitBoth, Init, LatestInv, LatestScored, LatestRead, SessionRead, Idle, Quiet,
         Types, RowTypes
<1>2. ASSUME Types, LatestInv, [NextBoth]_allVars
      PROVE  LatestInv'
  <2>1. Next \/ Elsewhere
    BY <1>2, ComposedSteps
  <2> QED
    BY <1>2, <2>1, NextSplits, ApiLatest, BeginLatest, ReadsLatest, ReadLeadLatest,
       CommitLatest, LetGoLatest
<1> QED  BY <1>1, <1>2, ScoringTypes, PTL DEF SpecBoth

(* The last count (LatestCounts): when all jobs are done, the engagement   *)
(* of a lead counts every message of the session scored last, in whichever *)
(* order the jobs ran; unless messages were removed, events lost or jobs   *)
(* dead-lettered, or two handlers scored the lead around midnight.         *)
THEOREM LastScoreCounts == SpecBoth => []LatestCounts
<1>1. ASSUME Types, LatestInv
      PROVE  LatestCounts
  <2> SUFFICES ASSUME NEW l \in DOMAIN lead \ straddled, caller = Quiet, timeline[l] # None,
                      timeline[l].message \in DOMAIN message
               PROVE  LET s == message[timeline[l].message].session IN
                      \/ s \in unscored \cup uprooted
                      \/ session[s] # l
                      \/ \E j \in JobIds : /\ aijobs[j].state # "deleted"
                                           /\ aijobs[j].message \in MessagesOf(s)
                      \/ timeline[l].count = Cardinality(MessagesOf(s))
    BY DEF LatestCounts
  <2>1. PICK s, n : s = message[timeline[l].message].session /\ n = timeline[l].count
    OBVIOUS
  <2>2. \/ s \in uprooted \/ s \in unscored
        \/ n = Cardinality(MessagesOf(s))
        \/ \E k \in MessagesOf(s) : Owed(k, l)
    BY <1>1, <2>1 DEF LatestInv, LatestScored, Latest
  <2>3. caller.pc # "message"
    BY DEF Quiet
  <2>4. ASSUME NEW k \in MessagesOf(s), Owed(k, l)
        PROVE  \E j \in JobIds : /\ aijobs[j].state # "deleted"
                                 /\ aijobs[j].message \in MessagesOf(s)
    BY <2>3, <2>4 DEF Owed
  <2> QED  BY <2>1, <2>2, <2>4
<1> QED  BY <1>1, ScoringTypes, LatestAlways, PTL

-----------------------------------------------------------------------------
(* SvixKnowsScore.  As long as no message was removed and no session    *)
(* moved, a score that Svix was not told of is on its way: it is about to  *)
(* be announced by a PATCH or a handler, a scoring job will announce it,   *)
(* or an integration job reports it; or else Svix knows it already, and so *)
(* does every worker that is about to tell it again.                       *)
PatchAnnounces(l) ==
    caller.pc = "patched" /\ caller.event = "lead_updated" /\ caller.lead = l

Scored(w, l) == worker[w].pc = "publish" /\ worker[w].lead = l

(* A handler that has job j is going to score lead l.                      *)
RunsFor(w, j, l) ==
    worker[w].job = j => /\ worker[w].pc # "ack"
                         /\ worker[w].pc \in {"commit", "publish"} => worker[w].lead = l

ScoresFor(j, l) ==
    /\ aijobs[j].state # "deleted"
    /\ session[message[aijobs[j].message].session] = l
    /\ \A w \in Workers : RunsFor(w, j, l)

Announcing(l) ==
    \/ PatchAnnounces(l)
    \/ \E w \in Workers : Scored(w, l)
    \/ \E j \in JobIds : ScoresFor(j, l)

Reports(a, l) == I!Busy(a) /\ actor[a].lead = l

JobReports(i, l) ==
    /\ jobs[i].lead = l /\ jobs[i].event # "timeline_created" /\ jobs[i].state # "deleted"
    /\ \A a \in Workers : actor[a].job = i => I!Busy(a) /\ actor[a].score = lead[l].score

Reporting(l) == \E i \in I!JobIds : JobReports(i, l)

UpToDate(l) ==
    /\ known[l] = lead[l].score
    /\ \A a \in Workers : Reports(a, l) => actor[a].score = lead[l].score

Covered(l) == Announcing(l) \/ Reporting(l) \/ UpToDate(l)

(* A handler scores the lead that the session of its message has.          *)
Rooted(w) ==
    worker[w].pc \in {"commit", "publish"} /\ worker[w].lead \in DOMAIN lead =>
        session[message[Target(w)].session] = worker[w].lead

HomeInv ==
    uprooted = {} => /\ 1..created \subseteq DOMAIN message
                     /\ \A w \in Workers : Rooted(w)

(* A worker reports the lead of its job; one worker at a time does.        *)
OnJob(a) ==
    /\ actor[a].job \in I!JobIds \cup {0}
    /\ I!Busy(a) => actor[a].job \in I!JobIds /\ jobs[actor[a].job].lead = actor[a].lead

ActorsInv ==
    /\ \A a \in Workers : OnJob(a)
    /\ actor[Api].pc \in {"idle", "sync", "commit"}
    /\ \A l \in Leads \ behind : \A a, b \in Workers : Reports(a, l) /\ Reports(b, l) => a = b
    /\ DOMAIN known = Leads

KeptInv ==
    uprooted = {} => \A l \in DOMAIN lead \ (behind \cup unannounced) : Covered(l)

(* The session of a job's message is there, as long as nothing is removed. *)
LEMMA JobsHaveMessages ==
    ASSUME Types, HomeInv, uprooted = {}, NEW j \in JobIds
    PROVE  /\ aijobs[j].message \in DOMAIN message
           /\ message[aijobs[j].message].session \in DOMAIN session
<1>1. aijobs[j].message \in 1..created
  <2>1. created \in Nat
    BY ConstantsOK DEF Types, CountTypes
  <2>2. aijobs[j].message \in 1..MaxCreated /\ aijobs[j].message <= created
    BY JobsAreTyped
  <2>3. MaxCreated \in Nat
    BY ConstantsOK
  <2> QED  BY <2>1, <2>2, <2>3
<1> QED  BY <1>1 DEF HomeInv, Types, RowTypes

(* Reports go on, when nothing happens to them and the row stays.          *)
LEMMA ReportsStay ==
    ASSUME NEW l, UNCHANGED syncVars, lead'[l].score = lead[l].score
    PROVE  /\ Reporting(l) => Reporting(l)'
           /\ UpToDate(l) => UpToDate(l)'
<1>1. UNCHANGED <<jobs, actor, known>>
  BY DEF syncVars
<1>2. \A i : JobReports(i, l) => JobReports(i, l)'
  BY <1>1 DEF JobReports, I!Busy
<1>3. UpToDate(l) => UpToDate(l)'
  BY <1>1 DEF UpToDate, Reports, I!Busy
<1> QED  BY <1>1, <1>2, <1>3 DEF Reporting, I!JobIds

(* What a handler w of no message of lead l leaves, and what it takes on.  *)
LEMMA AnnouncingStays ==
    ASSUME Types, HomeInv, uprooted = {}, NEW w \in Workers, NEW l,
           JobsStay, SessionsAsBefore,
           \A v \in Workers : v # w => worker'[v] = worker[v],
           ~Scored(w, l),
           \A j \in JobIds : ScoresFor(j, l) =>
               Scored(w, l)' \/ (aijobs'[j].state # "deleted" /\ RunsFor(w, j, l)'),
           Announcing(l)
    PROVE  Announcing(l)'
<1>1. CASE PatchAnnounces(l)
  BY <1>1 DEF Announcing, PatchAnnounces, SessionsAsBefore
<1>2. ASSUME NEW v \in Workers, Scored(v, l)
      PROVE  Announcing(l)'
  BY <1>2 DEF Announcing, Scored
<1>3. ASSUME NEW j \in JobIds, ScoresFor(j, l)
      PROVE  Announcing(l)'
  <2>1. CASE Scored(w, l)'
    BY <2>1 DEF Announcing
  <2>2. CASE aijobs'[j].state # "deleted" /\ RunsFor(w, j, l)'
    <3>1. j \in JobIds' /\ aijobs'[j].message = aijobs[j].message
      BY DEF JobsStay, JobIds
    <3>2. session'[message'[aijobs'[j].message].session] = l
      BY <1>3, <3>1, JobsHaveMessages DEF ScoresFor, SessionsAsBefore
    <3>3. \A v \in Workers : RunsFor(v, j, l)'
      BY <1>3, <2>2 DEF ScoresFor, RunsFor
    <3> QED  BY <2>2, <3>1, <3>2, <3>3 DEF Announcing, ScoresFor
  <2> QED  BY <1>3, <2>1, <2>2
<1> QED  BY <1>1, <1>2, <1>3 DEF Announcing

LEMMA HomeStays ==
    ASSUME Types, HomeInv, NEW w \in Workers, JobsStay, SessionsAsBefore,
           \A v \in Workers : v # w => worker'[v] = worker[v],
           uprooted = {} => Rooted(w)'
    PROVE  HomeInv'
<1> SUFFICES ASSUME uprooted = {}
             PROVE  HomeInv'
  BY DEF HomeInv, SessionsAsBefore
<1>1. 1..created' \subseteq DOMAIN message'
  BY DEF HomeInv, SessionsAsBefore
<1>2. ASSUME NEW v \in Workers \ {w}
      PROVE  Rooted(v)'
  <2> SUFFICES ASSUME worker[v].pc \in {"commit", "publish"}, worker[v].lead \in DOMAIN lead
               PROVE  Rooted(v)'
    BY DEF Rooted, SessionsAsBefore
  <2>1. worker[v].job \in JobIds
    BY WorkerIsTyped
  <2>2. Target(v) \in DOMAIN message /\ Target(v)' = Target(v)
    BY <2>1, JobsHaveMessages, TargetStays DEF Target
  <2>3. session[message[Target(v)].session] = worker[v].lead
    BY DEF HomeInv, Rooted
  <2> QED  BY <2>2, <2>3 DEF Rooted, SessionsAsBefore
<1> QED  BY <1>1, <1>2 DEF HomeInv, SessionsAsBefore

(* What the steps of one handler have in common: it keeps its place in the *)
(* conversation, and does not take up a lead's score behind its back.      *)
HandlerKnows(w) ==
    /\ JobsStay /\ SessionsAsBefore
    /\ \A v \in Workers : v # w => worker'[v] = worker[v]
    /\ uprooted = {} => Rooted(w)'
    /\ uprooted = {} =>
           \A l \in DOMAIN lead :
               /\ lead'[l] = lead[l] \/ Scored(w, l)'
               /\ Announcing(l) => Announcing(l)' \/ l \in unannounced'

LEMMA BeginKnows ==
    ASSUME Types, HomeInv, NEW w \in Workers, NEW j \in JobIds, Begin(w, j)
    PROVE  HandlerKnows(w)
<1>0. PICK m : m = aijobs[j].message
  OBVIOUS
<1>1. /\ worker[w] = Idle /\ JobsStay
      /\ \A i \in JobIds : aijobs'[i].state = aijobs[i].state
      /\ UNCHANGED <<message, session, lead, created, caller, unscored, uprooted, straddled>>
      /\ \A v \in Workers : v # w => worker'[v] = worker[v]
      /\ worker'[w].job = j /\ worker'[w].pc \in {"ack", "call", "analyzed"}
      /\ worker'[w].pc = "ack" => m \notin DOMAIN message
  BY <1>0, BeginShape
<1>2. SessionsAsBefore
  BY <1>1 DEF SessionsAsBefore
<1>3. ASSUME uprooted = {}, NEW l \in DOMAIN lead, Announcing(l)
      PROVE  Announcing(l)'
  <2>1. ~Scored(w, l)
    BY <1>1 DEF Scored, Idle
  <2>2. worker'[w].pc \in {"call", "analyzed"}
    BY <1>0, <1>1, <1>3, JobsHaveMessages
  <2>3. \A i \in JobIds : ScoresFor(i, l) =>
            aijobs'[i].state # "deleted" /\ RunsFor(w, i, l)'
    BY <1>1, <2>2 DEF ScoresFor, RunsFor
  <2> QED  BY <1>1, <1>2, <1>3, <2>1, <2>3, AnnouncingStays
<1>4. Rooted(w)'
  BY <1>1 DEF Rooted
<1> QED  BY <1>1, <1>2, <1>3, <1>4 DEF HandlerKnows

LEMMA ReadsKnow ==
    ASSUME Types, HomeInv, NEW w \in Workers, Analyze(w) \/ ReadUsage(w)
    PROVE  HandlerKnows(w)
<1>1. /\ worker[w].pc \in {"call", "analyzed"} /\ worker'[w].pc \in {"analyzed", "usage"}
      /\ worker'[w].job = worker[w].job
      /\ \A v \in Workers : v # w => worker'[v] = worker[v]
      /\ UNCHANGED <<message, session, lead, aijobs, created, caller, unscored, uprooted,
                     straddled>>
  <2>1. CASE Analyze(w)
    BY <2>1, AnalyzeShape
  <2>2. CASE ReadUsage(w)
    <3>1. worker[w].pc = "analyzed"
      BY <2>2 DEF ReadUsage
    <3> QED  BY <2>2, <3>1, ReadsShape
  <2> QED  BY <2>1, <2>2
<1>2. JobsStay /\ SessionsAsBefore
  BY <1>1, WorkerIsTyped, JobChangesStay DEF SessionsAsBefore
<1>3. ASSUME uprooted = {}, NEW l \in DOMAIN lead, Announcing(l)
      PROVE  Announcing(l)'
  <2>1. ~Scored(w, l) /\ \A i : RunsFor(w, i, l)'
    BY <1>1 DEF Scored, RunsFor
  <2> QED  BY <1>1, <1>2, <1>3, <2>1, AnnouncingStays DEF ScoresFor
<1>4. Rooted(w)'
  BY <1>1 DEF Rooted
<1> QED  BY <1>1, <1>2, <1>3, <1>4 DEF HandlerKnows

(* The lead it reads is that of the session its message is in.             *)
LEMMA ReadLeadKnows ==
    ASSUME Types, LatestInv, HomeInv, NEW w \in Workers, ReadLead(w)
    PROVE  HandlerKnows(w)
<1>0. PICK m, s : m = Target(w) /\ s = worker[w].read.session
  OBVIOUS
<1>1. /\ worker[w].pc = "usage" /\ worker'[w].pc = "commit"
      /\ worker'[w].job = worker[w].job
      /\ \A v \in Workers : v # w => worker'[v] = worker[v]
      /\ UNCHANGED <<message, session, lead, aijobs, created, caller, unscored, uprooted,
                     straddled>>
  <2>1. worker[w].pc = "usage"
    BY DEF ReadLead
  <2> QED  BY <2>1, ReadsShape
<1>2. worker'[w].lead = IF s \in DOMAIN session THEN session[s] ELSE None
  BY <1>0 DEF ReadLead, Set, Types, WorkerTypes
<1>3. JobsStay /\ SessionsAsBefore
  BY <1>1, WorkerIsTyped, JobChangesStay DEF SessionsAsBefore
<1>4. ASSUME uprooted = {}
      PROVE  /\ message[m].session = s /\ session[s] = worker'[w].lead
             /\ Target(w)' = m
  <2>1. worker[w].job \in JobIds
    BY <1>1, WorkerIsTyped
  <2>2. m \in DOMAIN message /\ message[m].session \in DOMAIN session
    BY <1>0, <1>4, <2>1, JobsHaveMessages DEF Target
  <2>3. message[m].session = s
    BY <1>0, <1>1, <2>2 DEF LatestInv, SessionRead
  <2> QED  BY <1>0, <1>1, <1>2, <2>2, <2>3 DEF Target
<1>5. uprooted = {} => Rooted(w)'
  BY <1>1, <1>4 DEF Rooted
<1>6. ASSUME uprooted = {}, NEW l \in DOMAIN lead, Announcing(l)
      PROVE  Announcing(l)'
  <2>1. ~Scored(w, l)
    BY <1>1 DEF Scored
  <2>2. ASSUME NEW i \in JobIds, ScoresFor(i, l)
        PROVE  aijobs'[i].state # "deleted" /\ RunsFor(w, i, l)'
    <3>1. worker'[w].job = i => worker'[w].lead = l
      BY <1>0, <1>1, <1>4, <1>6, <2>2 DEF ScoresFor, Target
    <3> QED  BY <1>1, <2>2, <3>1 DEF ScoresFor, RunsFor
  <2> QED  BY <1>1, <1>3, <1>6, <2>1, <2>2, AnnouncingStays
<1> QED  BY <1>1, <1>3, <1>5, <1>6 DEF HandlerKnows

LEMMA CommitKnows ==
    ASSUME Types, HomeInv, NEW w \in Workers, Commit(w)
    PROVE  HandlerKnows(w)
<1>0. PICK k : k = worker[w].lead
  OBVIOUS
<1>1. /\ worker[w].pc = "commit" /\ worker'[w].job = worker[w].job
      /\ worker'[w].pc = IF k = None THEN "ack" ELSE "publish"
      /\ k # None => worker'[w].lead = k /\ k \in DOMAIN lead
      /\ \A v \in Workers : v # w => worker'[v] = worker[v]
      /\ DOMAIN message' = DOMAIN message
      /\ \A x \in DOMAIN message : message'[x].session = message[x].session
      /\ UNCHANGED <<session, aijobs, created, caller, unscored, uprooted>>
  BY <1>0, CommitShape
<1>2. /\ DOMAIN lead' = DOMAIN lead /\ straddled \subseteq straddled'
      /\ \A l \in DOMAIN lead : l # k => lead'[l] = lead[l]
  BY <1>0 DEF Commit
<1>3. JobsStay /\ SessionsAsBefore
  BY <1>1, <1>2, WorkerIsTyped, JobChangesStay DEF SessionsAsBefore
<1>4. None \notin DOMAIN lead
  BY ConstantsOK DEF Types, RowTypes
<1>5. ASSUME uprooted = {}
      PROVE  Rooted(w)'
  <2>1. worker[w].job \in JobIds
    BY <1>1, WorkerIsTyped
  <2>2. Target(w) \in DOMAIN message /\ Target(w)' = Target(w)
    BY <1>1, <1>5, <2>1, JobsHaveMessages DEF Target
  <2>3. CASE k = None
    BY <1>1, <2>3 DEF Rooted
  <2>4. CASE k # None
    <3>1. session[message[Target(w)].session] = k
      BY <1>0, <1>1, <1>5, <2>4 DEF HomeInv, Rooted
    <3> QED  BY <1>1, <2>2, <2>4, <3>1 DEF Rooted
  <2> QED  BY <2>3, <2>4
<1>6. ASSUME NEW l \in DOMAIN lead
      PROVE  lead'[l] = lead[l] \/ Scored(w, l)'
  BY <1>1, <1>2, <1>4 DEF Scored
<1>7. ASSUME uprooted = {}, NEW l \in DOMAIN lead, Announcing(l)
      PROVE  Announcing(l)'
  <2>1. ~Scored(w, l)
    BY <1>1 DEF Scored
  <2>2. ASSUME NEW i \in JobIds, ScoresFor(i, l)
        PROVE  \/ Scored(w, l)'
               \/ aijobs'[i].state # "deleted" /\ RunsFor(w, i, l)'
    <3>1. worker[w].job = i => k = l
      BY <1>0, <1>1, <2>2 DEF ScoresFor, RunsFor
    <3> QED  BY <1>1, <1>4, <2>2, <3>1 DEF ScoresFor, RunsFor, Scored
  <2> QED  BY <1>1, <1>3, <1>7, <2>1, <2>2, AnnouncingStays
<1> QED  BY <1>1, <1>3, <1>5, <1>6, <1>7 DEF HandlerKnows

LEMMA LetGoAnnounces ==
    ASSUME Types, HomeInv, NEW w \in Workers, LetsGo(w)
    PROVE  /\ JobsStay /\ SessionsAsBefore /\ lead' = lead /\ Rooted(w)'
           /\ worker'[w] = Idle
           /\ \A v \in Workers : v # w => worker'[v] = worker[v]
           /\ uprooted = {} => \A l \in DOMAIN lead :
                  Announcing(l) /\ ~Scored(w, l) => Announcing(l)'
<1>1. /\ worker'[w] = Idle /\ JobsStay
      /\ \A v \in Workers : v # w => worker'[v] = worker[v]
      /\ UNCHANGED <<message, session, lead, created, caller, unscored, uprooted, straddled>>
      /\ \A i \in JobIds : aijobs[i].state # "deleted" /\ aijobs'[i].state = "deleted" =>
             i = worker[w].job /\ worker[w].pc \in {"publish", "ack"}
  BY LetGoShape
<1>2. SessionsAsBefore
  BY <1>1 DEF SessionsAsBefore
<1>3. Rooted(w)' /\ \A i \in JobIds : \A l : RunsFor(w, i, l)'
  BY <1>1 DEF Rooted, RunsFor, Idle, JobIds
<1>4. ASSUME uprooted = {}, NEW l \in DOMAIN lead, Announcing(l), ~Scored(w, l)
      PROVE  Announcing(l)'
  <2>1. ASSUME NEW i \in JobIds, ScoresFor(i, l)
        PROVE  aijobs'[i].state # "deleted"
    BY <1>1, <1>4, <2>1 DEF ScoresFor, RunsFor, Scored
  <2> QED  BY <1>1, <1>2, <1>3, <1>4, <2>1, AnnouncingStays
<1> QED  BY <1>1, <1>2, <1>3, <1>4

(* A handler that has scored a lead lets go without publishing: its job    *)
(* comes again, or the lead is unannounced.                                *)
LEMMA LetGoKnows ==
    ASSUME Types, HomeInv, NEW w \in Workers, Handle(w), LetsGo(w)
    PROVE  HandlerKnows(w)
<1>1. /\ JobsStay /\ SessionsAsBefore /\ lead' = lead /\ Rooted(w)'
      /\ worker'[w] = Idle
      /\ \A v \in Workers : v # w => worker'[v] = worker[v]
      /\ uprooted = {} => \A l \in DOMAIN lead :
             Announcing(l) /\ ~Scored(w, l) => Announcing(l)'
  BY LetGoAnnounces
<1>2. ASSUME uprooted = {}, NEW l \in DOMAIN lead, Scored(w, l), Repeated(w)
      PROVE  Announcing(l)'
  <2>0. PICK j : j = worker[w].job
    OBVIOUS
  <2>1. worker[w].pc = "publish" /\ worker[w].lead = l /\ j \in JobIds
    BY <1>2, <2>0, WorkerIsTyped DEF Scored
  <2>2. Raise(w) \/ aijobs' = aijobs
    BY <2>1 DEF Handle, HandlerStep, Analyze, ReadUsage, FlushRefused, UsageConflict, ReadLead,
                Commit, CommitRefused, Acknowledge, HandlerFails, Crash
  <2>3. aijobs[j] \in JobRow /\ aijobs \in Seq(JobRow)
    BY <2>1, JobsAreTyped DEF Types, JobTypes
  <2>4. aijobs'[j].state # "deleted"
    <3>1. aijobs[j].state # "deleted"
      BY <1>2, <2>0 DEF Repeated
    <3>2. CASE aijobs' = [aijobs EXCEPT ![j].state = "dead"]
      <4>1. aijobs' = [aijobs EXCEPT ![j] = [aijobs[j] EXCEPT !.state = "dead"]]
        BY <3>2
      <4>2. [aijobs[j] EXCEPT !.state = "dead"].state = "dead"
        BY <2>3 DEF JobRow
      <4> QED  BY <2>1, <2>3, <4>1, <4>2 DEF JobIds
    <3> QED  BY <2>0, <2>2, <3>1, <3>2 DEF Raise
  <2>5. j \in JobIds' /\ aijobs'[j].message = aijobs[j].message
    BY <1>1, <2>1 DEF JobsStay, JobIds
  <2>6. session[message[aijobs[j].message].session] = l
    BY <1>2, <2>0, <2>1 DEF HomeInv, Rooted, Target
  <2>7. session'[message'[aijobs'[j].message].session] = l
    BY <1>1, <1>2, <2>1, <2>5, <2>6, JobsHaveMessages DEF SessionsAsBefore
  <2>8. \A v \in Workers : RunsFor(v, j, l)'
    BY <1>1, <1>2, <2>0, <2>1 DEF Repeated, RunsFor, Idle, JobIds
  <2> QED  BY <2>4, <2>5, <2>7, <2>8 DEF Announcing, ScoresFor
<1>3. ASSUME NEW l \in DOMAIN lead, Scored(w, l), ~Repeated(w)
      PROVE  l \in unannounced'
  BY <1>3 DEF Handle, Scored
<1>4. ASSUME uprooted = {}, NEW l \in DOMAIN lead, Announcing(l)
      PROVE  Announcing(l)' \/ l \in unannounced'
  BY <1>1, <1>2, <1>3, <1>4
<1> QED  BY <1>1, <1>4 DEF HandlerKnows

(* The invariants, after a step of a handler that publishes nothing.       *)
LEMMA HandlerKept ==
    ASSUME Types, HomeInv, ActorsInv, KeptInv, NEW w \in Workers, HandlerKnows(w),
           UNCHANGED syncVars, unannounced \subseteq unannounced'
    PROVE  HomeInv' /\ ActorsInv' /\ KeptInv'
<1>1. HomeInv'
  BY HomeStays DEF HandlerKnows
<1>2. ActorsInv'
  BY DEF syncVars, ActorsInv, OnJob, Reports, I!Busy, I!JobIds
<1>3. ASSUME uprooted = {}, NEW l \in DOMAIN lead \ (behind \cup unannounced'), Covered(l)
      PROVE  Covered(l)'
  <2>1. CASE Announcing(l)
    BY <1>3, <2>1 DEF HandlerKnows, Covered
  <2>2. CASE (Reporting(l) \/ UpToDate(l)) /\ lead'[l] = lead[l]
    BY <2>2, ReportsStay DEF Covered
  <2>3. CASE Scored(w, l)'
    BY <2>3 DEF Covered, Announcing
  <2> QED  BY <1>3, <2>1, <2>2, <2>3 DEF HandlerKnows, Covered
<1>4. behind' = behind /\ uprooted' = uprooted /\ DOMAIN lead' = DOMAIN lead
  BY DEF syncVars, HandlerKnows, SessionsAsBefore
<1> QED  BY <1>1, <1>2, <1>3, <1>4 DEF KeptInv

LEMMA HandleKept ==
    ASSUME Types, LatestInv, HomeInv, ActorsInv, KeptInv, NEW w \in Workers,
           Handle(w) \/ \E j \in JobIds : Score(Begin(w, j))
    PROVE  HomeInv' /\ ActorsInv' /\ KeptInv'
<1>1. UNCHANGED syncVars /\ unannounced \subseteq unannounced'
  BY DEF Handle, Score
<1>2. HandlerKnows(w)
  <2>1. CASE \E j \in JobIds : Begin(w, j)
    BY <2>1, BeginKnows
  <2>2. CASE Handle(w)
    <3>1. Analyze(w) \/ ReadUsage(w) \/ ReadLead(w) \/ Commit(w) \/ LetsGo(w)
      BY <2>2 DEF Handle, HandlerStep, LetsGo
    <3> QED  BY <2>2, <3>1, ReadsKnow, ReadLeadKnows, CommitKnows, LetGoKnows
  <2> QED  BY <2>1, <2>2 DEF Score
<1> QED  BY <1>1, <1>2, HandlerKept

-----------------------------------------------------------------------------
(* A new integration job: no worker has it, so it will report the lead.    *)
LEMMA ArriveReports ==
    ASSUME SyncInv, ActorsInv, NEW event, NEW k, I!Arrive(event, k), lead' = lead
    PROVE  /\ ActorsInv' /\ behind' = behind
           /\ event # "timeline_created" => Reporting(k)'
           /\ \A l : /\ Reporting(l) => Reporting(l)'
                     /\ UpToDate(l) => UpToDate(l)'
<1> DEFINE row == [event |-> event, lead |-> k, receives |-> 0, state |-> "queued"]
<1>1. /\ jobs' = Append(jobs, row) /\ row.event = event /\ row.lead = k
      /\ row.state = "queued"
      /\ UNCHANGED <<actor, known, behind>>
  BY DEF I!Arrive
<1> HIDE DEF row
<1>2. jobs \in Seq(IntegrationJob)
  BY DEF SyncInv, SyncTypes
<1>3. PICK n : n = Len(jobs) + 1
  OBVIOUS
<1>4. /\ n \in I!JobIds' /\ n \notin I!JobIds \cup {0} /\ jobs'[n] = row
      /\ \A i \in I!JobIds : i \in I!JobIds' /\ jobs'[i] = jobs[i]
  BY <1>1, <1>2, <1>3 DEF I!JobIds
<1>5. ActorsInv'
  <2>1. \A a \in Workers : OnJob(a)'
    BY <1>1, <1>4 DEF ActorsInv, OnJob, I!Busy
  <2>2. \A a \in Workers : \A l : Reports(a, l)' <=> Reports(a, l)
    BY <1>1 DEF Reports, I!Busy
  <2> QED  BY <1>1, <2>1, <2>2 DEF ActorsInv
<1>6. ASSUME event # "timeline_created"
      PROVE  JobReports(n, k)'
  <2>1. \A a \in Workers : actor'[a].job # n
    BY <1>1, <1>4 DEF ActorsInv, OnJob
  <2> QED  BY <1>1, <1>4, <1>6, <2>1 DEF JobReports
<1>7. \A l : \A i \in I!JobIds : JobReports(i, l) => JobReports(i, l)'
  BY <1>1, <1>4 DEF JobReports, I!Busy
<1>8. \A l : UpToDate(l) => UpToDate(l)'
  BY <1>1 DEF UpToDate, Reports, I!Busy
<1> QED  BY <1>1, <1>4, <1>5, <1>6, <1>7, <1>8 DEF Reporting

LEMMA PublishScoredKept ==
    ASSUME Types, SyncInv, HomeInv, ActorsInv, KeptInv, NEW w \in Workers, PublishScored(w)
    PROVE  HomeInv' /\ ActorsInv' /\ KeptInv'
<1>0. PICK k : k = worker[w].lead
  OBVIOUS
<1>1. LetsGo(w) /\ I!Arrive("score_updated", k) /\ unannounced' = unannounced
  BY <1>0 DEF PublishScored, LetsGo
<1>2. /\ JobsStay /\ SessionsAsBefore /\ lead' = lead /\ Rooted(w)'
      /\ \A v \in Workers : v # w => worker'[v] = worker[v]
      /\ uprooted = {} => \A l \in DOMAIN lead :
             Announcing(l) /\ ~Scored(w, l) => Announcing(l)'
  BY <1>1, LetGoAnnounces
<1>3. HomeInv'
  BY <1>2, HomeStays
<1>4. /\ ActorsInv' /\ behind' = behind /\ Reporting(k)'
      /\ \A l : (Reporting(l) => Reporting(l)') /\ (UpToDate(l) => UpToDate(l)')
  BY <1>1, <1>2, ArriveReports
<1>5. ASSUME uprooted = {}, NEW l \in DOMAIN lead, Covered(l)
      PROVE  Covered(l)'
  BY <1>0, <1>2, <1>4, <1>5 DEF Covered, Scored
<1> QED  BY <1>1, <1>2, <1>3, <1>4, <1>5 DEF KeptInv, SessionsAsBefore

(* The call that has patched a lead publishes, or dies.                    *)
LEMMA PatchesKept ==
    ASSUME Types, SyncInv, HomeInv, ActorsInv, KeptInv, PublishPatched \/ PatchLost
    PROVE  HomeInv' /\ ActorsInv' /\ KeptInv'
<1>1. /\ UNCHANGED <<lead, session, message, aijobs, worker, created, uprooted>>
      /\ caller' = Quiet /\ unannounced \subseteq unannounced'
  BY DEF PublishPatched, PatchLost, PublishPatch, PatchDies, rows, history
<1>2. HomeInv'
  BY <1>1 DEF HomeInv, Rooted, Target
<1>3. \A l : Announcing(l) => PatchAnnounces(l) \/ Announcing(l)'
  BY <1>1 DEF Announcing, Scored, ScoresFor, RunsFor, JobIds
<1>4. CASE PublishPatched
  <2>1. I!Arrive(caller.event, caller.lead) /\ unannounced' = unannounced
    BY <1>4 DEF PublishPatched
  <2>2. PICK event, k : event = caller.event /\ k = caller.lead
    OBVIOUS
  <2>3. /\ ActorsInv' /\ behind' = behind
        /\ event # "timeline_created" => Reporting(k)'
        /\ \A l : (Reporting(l) => Reporting(l)') /\ (UpToDate(l) => UpToDate(l)')
    BY <1>1, <2>1, <2>2, ArriveReports
  <2>4. \A l : Covered(l) => Covered(l)'
    BY <1>3, <2>2, <2>3 DEF Covered, PatchAnnounces
  <2> QED  BY <1>1, <1>2, <2>1, <2>3, <2>4 DEF KeptInv
<1>5. CASE PatchLost
  <2>1. /\ UNCHANGED syncVars
        /\ \A l : PatchAnnounces(l) => l \in unannounced'
    BY <1>5 DEF PatchLost, PatchAnnounces
  <2>2. ActorsInv' /\ behind' = behind
    BY <2>1 DEF syncVars, ActorsInv, OnJob, Reports, I!Busy, I!JobIds
  <2>3. \A l : Covered(l) => Covered(l)' \/ l \in unannounced'
    BY <1>1, <1>3, <2>1, ReportsStay DEF Covered
  <2> QED  BY <1>1, <1>2, <2>2, <2>3 DEF KeptInv
<1> QED  BY <1>4, <1>5

(* A call of the API that moves no session and removes no message: what    *)
(* it changes of a lead it is about to announce.                           *)
CalmCall ==
    /\ uprooted = {} /\ worker' = worker /\ DOMAIN lead' \subseteq DOMAIN lead
    /\ 1..created' \subseteq DOMAIN message'
    /\ \A m \in DOMAIN message : message'[m].session = message[m].session
    /\ \A s \in DOMAIN session : session[s] \in DOMAIN lead' => session'[s] = session[s]
    /\ \A j \in JobIds : j \in JobIds' /\ aijobs'[j] = aijobs[j]
    /\ caller.pc = "patched" => caller' = caller
    /\ \A l \in DOMAIN lead' : lead'[l] = lead[l] \/ PatchAnnounces(l)'

LEMMA CalmCalls ==
    ASSUME Types, LatestInv, HomeInv, ApiStep, uprooted' = {}
    PROVE  CalmCall
<1>0. \/ aijobs' = aijobs
      \/ PublishMessage
  BY ApiLeaves DEF ApiSide
<1>1. \A j \in JobIds : j \in JobIds' /\ aijobs'[j] = aijobs[j]
  BY <1>0, MessageIsQueued DEF JobIds
<1>2. worker' = worker
  BY ApiLeaves DEF ApiSide
<1>3. created \in Nat /\ DOMAIN message \subseteq 1..created /\ None \notin DOMAIN lead
  BY ConstantsOK DEF Types, CountTypes, RowTypes
<1>4. ASSUME UNCHANGED <<message, created, session, uprooted>>,
             lead' = lead, caller.pc = "patched" => caller' = caller
      PROVE  CalmCall
  BY <1>1, <1>2, <1>4 DEF CalmCall, HomeInv
<1>5. CASE SessionRefused \/ PublishMessage \/ MessageDies \/ Midnight
  BY <1>4, <1>5 DEF SessionRefused, PublishMessage, MessageDies, Midnight, rows, history
<1>6. CASE CommitSession
  <2>1. /\ session' = With(session, caller.session, caller.lead)
        /\ caller.pc = "session" /\ caller.session \notin DOMAIN session
        /\ UNCHANGED <<lead, message, created, uprooted>>
    BY <1>6 DEF CommitSession, history, LatestInv
  <2>2. \A s \in DOMAIN session : session'[s] = session[s]
    BY <2>1 DEF With
  <2> QED  BY <1>1, <1>2, <2>1, <2>2 DEF CalmCall, HomeInv
<1>7. ASSUME NEW s \in Sessions, CreateSession(s)
      PROVE  CalmCall
  BY <1>4, <1>7 DEF CreateSession, rows, history, Quiet
<1>8. ASSUME NEW s \in Sessions, CreateMessage(s)
      PROVE  CalmCall
  <2>0. PICK m : m = created + 1
    OBVIOUS
  <2>1. PICK r : message' = With(message, m, r)
    BY <1>8, <2>0 DEF CreateMessage
  <2>2. /\ UNCHANGED <<lead, session, uprooted>> /\ created' = m /\ caller = Quiet
    BY <1>8, <2>0 DEF CreateMessage, history
  <2>3. /\ DOMAIN message' = DOMAIN message \cup {m}
        /\ \A x \in DOMAIN message : message'[x] = message[x]
    BY <1>3, <2>0, <2>1 DEF With
  <2>4. uprooted = {} /\ 1..created \subseteq DOMAIN message
    BY <2>2 DEF HomeInv
  <2>5. 1..created' \subseteq DOMAIN message'
    BY <1>3, <2>0, <2>2, <2>3, <2>4
  <2> QED  BY <1>1, <1>2, <2>2, <2>3, <2>4, <2>5 DEF CalmCall, Quiet
<1>9. ASSUME NEW s \in Sessions, AttachSession(s)
      PROVE  CalmCall
  <2>1. /\ UNCHANGED <<lead, message, created, caller>>
        /\ session[s] = None /\ uprooted = {}
        /\ \A t \in DOMAIN session : t # s => session'[t] = session[t]
    BY <1>9 DEF AttachSession, Edit
  <2>2. 1..created \subseteq DOMAIN message
    BY <2>1 DEF HomeInv
  <2> QED  BY <1>1, <1>2, <1>3, <2>1, <2>2 DEF CalmCall
<1>10. ASSUME NEW s \in Sessions
       PROVE  ~DeleteSession(s)
  BY DEF DeleteSession
<1>11. ASSUME NEW m \in 1..MaxCreated, UpdateMessage(m)
       PROVE  CalmCall
  <2>1. UNCHANGED <<lead, session, created, caller, uprooted>>
    BY <1>11 DEF UpdateMessage, Edit
  <2>2. /\ DOMAIN message' = DOMAIN message
        /\ \A x \in DOMAIN message : message'[x].session = message[x].session
    BY <1>11, UpdateMessageShape
  <2> QED  BY <1>1, <1>2, <2>1, <2>2 DEF CalmCall, HomeInv
<1>12. ASSUME NEW m \in 1..MaxCreated
       PROVE  ~DeleteMessage(m)
  BY DEF DeleteMessage
<1>13. ASSUME NEW l \in Leads, PatchScore(l)
       PROVE  CalmCall
  <2>1. /\ UNCHANGED <<session, message, created, uprooted>> /\ caller = Quiet
        /\ PatchAnnounces(l)' /\ DOMAIN lead' = DOMAIN lead
        /\ \A k \in DOMAIN lead : k # l => lead'[k] = lead[k]
    BY <1>13 DEF PatchScore, Edit, PatchAnnounces
  <2> QED  BY <1>1, <1>2, <2>1 DEF CalmCall, HomeInv, Quiet
<1>14. ASSUME NEW l \in Leads, AddTimelineEvent(l)
       PROVE  CalmCall
  <2>1. UNCHANGED <<lead, session, message, created, uprooted>> /\ caller.pc # "patched"
    BY <1>14 DEF AddTimelineEvent, Edit, Quiet
  <2> QED  BY <1>4, <2>1
<1>15. ASSUME NEW l \in Leads, DeleteLead(l)
       PROVE  CalmCall
  <2>1. /\ UNCHANGED <<message, created, uprooted, caller>>
        /\ DOMAIN lead' = DOMAIN lead \ {l}
        /\ \A k \in DOMAIN lead' : lead'[k] = lead[k]
        /\ \A s \in DOMAIN session : session[s] # l => session'[s] = session[s]
    BY <1>15 DEF DeleteLead, Edit, Without
  <2> QED  BY <1>1, <1>2, <2>1 DEF CalmCall, HomeInv
<1>16. ASSUME NEW s \in Sessions, CreateSession(s) \/ CreateMessage(s)
                                  \/ AttachSession(s) \/ DeleteSession(s)
       PROVE  CalmCall
  BY <1>7, <1>8, <1>9, <1>10, <1>16
<1>17. ASSUME NEW m \in 1..MaxCreated, UpdateMessage(m) \/ DeleteMessage(m)
       PROVE  CalmCall
  BY <1>11, <1>12, <1>17
<1>18. ASSUME NEW l \in Leads, PatchScore(l) \/ AddTimelineEvent(l) \/ DeleteLead(l)
       PROVE  CalmCall
  BY <1>13, <1>14, <1>15, <1>18
<1> QED  BY <1>5, <1>6, <1>16, <1>17, <1>18 DEF ApiStep

LEMMA ApiKept ==
    ASSUME Types, LatestInv, HomeInv, ActorsInv, KeptInv, Score(ApiStep)
    PROVE  HomeInv' /\ ActorsInv' /\ KeptInv'
<1>1. UNCHANGED <<syncVars, unannounced>> /\ ApiStep
  BY DEF Score
<1>2. ActorsInv' /\ behind' = behind
  BY <1>1 DEF syncVars, ActorsInv, OnJob, Reports, I!Busy, I!JobIds
<1> SUFFICES ASSUME uprooted' = {}
             PROVE  HomeInv' /\ KeptInv'
  BY <1>2 DEF HomeInv, KeptInv
<1>3. CalmCall
  BY <1>1, CalmCalls
<1>4. uprooted = {} /\ worker' = worker /\ DOMAIN lead' \subseteq DOMAIN lead
  BY <1>3 DEF CalmCall
<1>5. ASSUME NEW j \in JobIds, NEW l \in DOMAIN lead',
             session[message[aijobs[j].message].session] = l
      PROVE  /\ j \in JobIds' /\ aijobs'[j] = aijobs[j]
             /\ session'[message'[aijobs'[j].message].session] = l
  BY <1>3, <1>4, <1>5, JobsHaveMessages DEF CalmCall
<1>6. ASSUME NEW w \in Workers
      PROVE  Rooted(w)'
  <2> SUFFICES ASSUME worker[w].pc \in {"commit", "publish"}, worker[w].lead \in DOMAIN lead'
               PROVE  session'[message'[Target(w)'].session] = worker[w].lead
    BY <1>4 DEF Rooted
  <2>1. PICK j, l : j = worker[w].job /\ l = worker[w].lead
    OBVIOUS
  <2>2. j \in JobIds /\ l \in DOMAIN lead'
    <3>1. worker[w].pc # "idle"
      OBVIOUS
    <3>2. worker[w].job \in JobIds
      BY <3>1, WorkerIsTyped
    <3> QED  BY <2>1, <3>2
  <2>3. session[message[aijobs[j].message].session] = l
    BY <1>4, <2>1 DEF HomeInv, Rooted, Target
  <2> QED  BY <1>4, <1>5, <2>1, <2>2, <2>3 DEF Target
<1>7. HomeInv'
  BY <1>3, <1>6 DEF HomeInv, CalmCall
<1>8. ASSUME NEW l \in DOMAIN lead', Covered(l)
      PROVE  Covered(l)'
  <2>1. CASE PatchAnnounces(l)
    BY <1>3, <2>1 DEF CalmCall, PatchAnnounces, Covered, Announcing
  <2>2. ASSUME NEW w \in Workers, Scored(w, l)
        PROVE  Covered(l)'
    BY <1>4, <2>2 DEF Covered, Announcing, Scored
  <2>3. ASSUME NEW j \in JobIds, ScoresFor(j, l)
        PROVE  Covered(l)'
    <3>1. /\ j \in JobIds' /\ aijobs'[j] = aijobs[j]
          /\ session'[message'[aijobs'[j].message].session] = l
      BY <1>5, <1>8, <2>3 DEF ScoresFor
    <3>2. ScoresFor(j, l)'
      BY <1>4, <2>3, <3>1 DEF ScoresFor, RunsFor
    <3> QED  BY <3>1, <3>2 DEF Covered, Announcing
  <2>4. CASE Reporting(l) \/ UpToDate(l)
    <3>1. CASE lead'[l] = lead[l]
      BY <1>1, <2>4, <3>1, ReportsStay DEF Covered
    <3>2. CASE PatchAnnounces(l)'
      BY <3>2 DEF Covered, Announcing
    <3> QED  BY <1>3, <1>8, <3>1, <3>2 DEF CalmCall
  <2> QED  BY <1>8, <2>1, <2>2, <2>3, <2>4 DEF Covered, Announcing
<1> QED  BY <1>1, <1>2, <1>4, <1>7, <1>8 DEF KeptInv

-----------------------------------------------------------------------------
(* The steps of the integrations leave alone what announces a score.       *)
LEMMA AnnouncedBefore ==
    ASSUME UNCHANGED ownVars
    PROVE  /\ UNCHANGED <<lead, uprooted>> /\ (HomeInv => HomeInv')
           /\ \A l : Announcing(l) => Announcing(l)'
<1>1. UNCHANGED <<lead, session, message, aijobs, worker, caller, created, uprooted>>
  BY DEF ownVars, history
<1>2. HomeInv => HomeInv'
  BY <1>1 DEF HomeInv, Rooted, Target
<1>3. \A l : Announcing(l) => Announcing(l)'
  BY <1>1 DEF Announcing, PatchAnnounces, Scored, ScoresFor, RunsFor, JobIds
<1> QED  BY <1>1, <1>2, <1>3

LEMMA JobFieldsStay ==
    ASSUME SyncTypes, NEW j \in I!JobIds, NEW x \in {"dead", "deleted"},
           \/ jobs' = jobs
           \/ jobs' = [jobs EXCEPT ![j].state = x]
           \/ jobs' = [jobs EXCEPT ![j].receives = @ + 1]
    PROVE  /\ I!JobIds' = I!JobIds
           /\ \A i \in I!JobIds : /\ jobs'[i].lead = jobs[i].lead
                                  /\ jobs'[i].event = jobs[i].event
                                  /\ i # j => jobs'[i].state = jobs[i].state
           /\ jobs'[j].state \in {jobs[j].state, x}
           /\ jobs' # [jobs EXCEPT ![j].state = x] => jobs'[j].state = jobs[j].state
<1>1. jobs \in Seq(IntegrationJob) /\ jobs[j] \in IntegrationJob /\ j \in 1..Len(jobs)
  BY DEF SyncTypes, I!JobIds
<1> DEFINE Row(r) == /\ r.lead = jobs[j].lead /\ r.event = jobs[j].event
                     /\ r.state \in {jobs[j].state, x}
           Rest(r) == jobs' = [jobs EXCEPT ![j] = r]
<1>2. ASSUME NEW r, Row(r), Rest(r)
      PROVE  /\ I!JobIds' = I!JobIds
             /\ \A i \in I!JobIds : /\ jobs'[i].lead = jobs[i].lead
                                    /\ jobs'[i].event = jobs[i].event
                                    /\ i # j => jobs'[i].state = jobs[i].state
             /\ jobs'[j] = r /\ jobs'[j].state \in {jobs[j].state, x}
  BY <1>1, <1>2 DEF I!JobIds
<1>3. CASE jobs' = jobs
  BY <1>3 DEF I!JobIds
<1>4. CASE jobs' = [jobs EXCEPT ![j].state = x]
  <2> DEFINE r == [jobs[j] EXCEPT !.state = x]
  <2>1. Row(r) /\ Rest(r)
    BY <1>1, <1>4 DEF IntegrationJob
  <2> HIDE DEF r, Row, Rest
  <2> QED  BY <1>2, <1>4, <2>1
<1>5. CASE jobs' = [jobs EXCEPT ![j].receives = @ + 1]
  <2> DEFINE r == [jobs[j] EXCEPT !.receives = @ + 1]
  <2>1. Row(r) /\ Rest(r) /\ r.state = jobs[j].state
    BY <1>1, <1>5 DEF IntegrationJob
  <2> HIDE DEF r, Row, Rest
  <2> QED  BY <1>2, <2>1
<1> QED  BY <1>3, <1>4, <1>5

(* The actors go on: they report as before.                                *)
LEMMA GoingOnKept ==
    ASSUME HomeInv, ActorsInv, KeptInv, UNCHANGED ownVars,
           UNCHANGED <<jobs, known, behind, unannounced>>,
           \A a \in Workers : /\ actor'[a].job = actor[a].job
                              /\ I!Busy(a)' <=> I!Busy(a)
                              /\ I!Busy(a) => /\ actor'[a].lead = actor[a].lead
                                              /\ actor'[a].score = actor[a].score,
           actor'[Api].pc \in {"idle", "sync", "commit"}
    PROVE  HomeInv' /\ ActorsInv' /\ KeptInv'
<1>1. /\ UNCHANGED <<lead, uprooted>> /\ HomeInv'
      /\ \A l : Announcing(l) => Announcing(l)'
  BY AnnouncedBefore
<1>2. \A a \in Workers : \A l : Reports(a, l)' <=> Reports(a, l)
  BY DEF Reports
<1>3. ActorsInv'
  <2>1. \A a \in Workers : OnJob(a)'
    BY DEF ActorsInv, OnJob, I!JobIds
  <2> QED  BY <1>2, <2>1 DEF ActorsInv
<1>4. \A l : Reporting(l) => Reporting(l)'
  BY <1>1 DEF Reporting, JobReports, I!JobIds
<1>5. \A l : UpToDate(l) => UpToDate(l)'
  BY <1>1, <1>2 DEF UpToDate, Reports
<1> QED  BY <1>1, <1>3, <1>4, <1>5 DEF KeptInv, Covered

(* A worker lets go of its job, which is deleted only after Svix was told, *)
(* or when there was nothing to tell.                                      *)
Tells(w) == actor[w].pc = "svix" /\ I!TellSvix(w)

LEMMA LettingGoKept ==
    ASSUME Types, SyncInv, HomeInv, ActorsInv, KeptInv, UNCHANGED ownVars,
           unannounced' = unannounced, NEW w \in Workers, actor[w] # I!Idle,
           actor' = [actor EXCEPT ![w] = I!Idle],
           Tells(w) \/ UNCHANGED <<known, behind>>,
           \/ jobs' = jobs
           \/ jobs' = [jobs EXCEPT ![actor[w].job].state = "dead"]
           \/ /\ jobs' = [jobs EXCEPT ![actor[w].job].state = "deleted"]
              /\ actor[w].pc = "ack" \/ Tells(w)
    PROVE  HomeInv' /\ ActorsInv' /\ KeptInv'
<1>0. PICK j, k, x : j = actor[w].job /\ k = actor[w].lead /\ x = actor[w].score
  OBVIOUS
<1>1. /\ UNCHANGED <<lead, uprooted>> /\ HomeInv'
      /\ \A l : Announcing(l) => Announcing(l)'
  BY AnnouncedBefore
<1>2. SyncTypes /\ w \in I!Actors /\ Api \in I!Actors /\ Api # w
  BY ApiOK DEF SyncInv, I!Actors
<1>3. /\ actor'[w] = I!Idle /\ actor'[Api] = actor[Api]
      /\ \A a \in Workers : a # w => actor'[a] = actor[a]
  BY <1>2 DEF SyncTypes, I!Actors
<1>4. /\ j \in I!JobIds \cup {0} /\ 0 \notin I!JobIds
      /\ I!Busy(w) => j \in I!JobIds /\ jobs[j].lead = k
  BY <1>0 DEF ActorsInv, OnJob, I!JobIds
<1>5. /\ I!JobIds' = I!JobIds
      /\ \A i \in I!JobIds : /\ jobs'[i].lead = jobs[i].lead
                             /\ jobs'[i].event = jobs[i].event
                             /\ i # j => jobs'[i].state = jobs[i].state
      /\ j \in I!JobIds => \/ jobs[j].state = "deleted" \/ jobs'[j].state # "deleted"
                           \/ actor[w].pc = "ack" \/ Tells(w)
  <2>1. CASE j \in I!JobIds
    BY <1>0, <1>2, <2>1, JobFieldsStay
  <2>2. CASE j \notin I!JobIds
    <3>1. jobs' = jobs
      <4>1. jobs \in Seq(IntegrationJob) /\ j \notin DOMAIN jobs
        BY <1>2, <2>2 DEF SyncTypes, I!JobIds
      <4>2. \A y \in {"dead", "deleted"} : [jobs EXCEPT ![j].state = y] = jobs
        BY <4>1
      <4> QED  BY <1>0, <4>2
    <3> QED  BY <2>2, <3>1 DEF I!JobIds
  <2> QED  BY <2>1, <2>2
<1>6. Tells(w) => /\ I!Busy(w)
                  /\ \/ known' = [known EXCEPT ![k] = x] /\ behind' = behind
                     \/ known' = known /\ behind' = behind \cup {k}
  BY <1>0 DEF Tells, I!TellSvix, I!Told, I!Busy
<1>7. behind \subseteq behind' /\ DOMAIN known' = Leads
      /\ \A l \in Leads \ behind' :
             known'[l] = IF Tells(w) /\ l = k THEN x ELSE known[l]
  BY <1>6 DEF ActorsInv
<1>8. \A a \in Workers : \A l : Reports(a, l)' <=> a # w /\ Reports(a, l)
  BY <1>3 DEF Reports, I!Busy, I!Idle
<1>9. ActorsInv'
  <2>1. ASSUME NEW a \in Workers
        PROVE  OnJob(a)'
    <3>1. CASE a = w
      BY <1>3, <3>1 DEF OnJob, I!Busy, I!Idle
    <3>2. CASE a # w
      BY <1>3, <1>5, <3>2 DEF ActorsInv, OnJob, I!Busy
    <3> QED  BY <3>1, <3>2
  <2>2. \A l \in Leads \ behind' : \A a, b \in Workers : Reports(a, l)' /\ Reports(b, l)' => a = b
    BY <1>7, <1>8 DEF ActorsInv
  <2> QED  BY <1>3, <1>7, <2>1, <2>2 DEF ActorsInv
<1>10. ASSUME NEW l \in Leads \ behind', Reporting(l)
       PROVE  Reporting(l)' \/ UpToDate(l)'
  <2>1. PICK i \in I!JobIds : JobReports(i, l)
    BY <1>10 DEF Reporting
  <2>2. \A a \in Workers : actor'[a].job = i =>
            I!Busy(a)' /\ actor'[a].score = lead'[l].score
    BY <1>1, <1>3, <1>4, <2>1 DEF JobReports, I!Busy, I!Idle
  <2>3. CASE jobs'[i].state # "deleted"
    BY <1>5, <2>1, <2>2, <2>3 DEF JobReports, Reporting
  <2>4. CASE jobs'[i].state = "deleted"
    <3>1. i = j /\ Tells(w) /\ x = lead[l].score
      BY <1>0, <1>5, <2>1, <2>4 DEF JobReports, I!Busy
    <3>2. k = l /\ Reports(w, l)
      BY <1>0, <1>4, <1>6, <2>1, <3>1 DEF JobReports, Reports
    <3>3. \A a \in Workers : ~Reports(a, l)'
      BY <1>7, <1>8, <1>10, <3>2 DEF ActorsInv
    <3> QED  BY <1>1, <1>7, <1>10, <3>1, <3>2, <3>3 DEF UpToDate
  <2> QED  BY <2>3, <2>4
<1>11. ASSUME NEW l \in Leads \ behind', UpToDate(l)
       PROVE  UpToDate(l)'
  <2>1. Tells(w) /\ l = k => x = lead[l].score
    BY <1>0, <1>6, <1>11 DEF UpToDate, Reports
  <2>2. \A a \in Workers : Reports(a, l)' => actor'[a].score = lead'[l].score
    BY <1>1, <1>3, <1>8, <1>11 DEF UpToDate
  <2> QED  BY <1>1, <1>7, <1>11, <2>1, <2>2 DEF UpToDate
<1>12. KeptInv'
  <2> SUFFICES ASSUME uprooted = {}, NEW l \in DOMAIN lead \ (behind' \cup unannounced)
               PROVE  Covered(l)'
    BY <1>1 DEF KeptInv
  <2>1. l \in Leads
    BY DEF Types, RowTypes
  <2> QED  BY <1>1, <1>7, <1>10, <1>11, <2>1 DEF KeptInv, Covered
<1> QED  BY <1>1, <1>9, <1>12

LEMMA ReceiveKept ==
    ASSUME Types, SyncInv, HomeInv, ActorsInv, KeptInv, UNCHANGED <<ownVars, unannounced>>,
           NEW w \in Workers, NEW j \in I!JobIds, I!Receive(w, j)
    PROVE  HomeInv' /\ ActorsInv' /\ KeptInv'
<1>0. PICK k, e : k = jobs[j].lead /\ e = jobs[j].event
  OBVIOUS
<1>1. /\ UNCHANGED <<lead, uprooted>> /\ HomeInv'
      /\ \A l : Announcing(l) => Announcing(l)'
  BY AnnouncedBefore
<1>2. SyncTypes /\ w \in I!Actors /\ Api \in I!Actors /\ Api # w
  BY ApiOK DEF SyncInv, I!Actors
<1>3. /\ actor[w] = I!Idle /\ jobs[j].state = "queued" /\ known' = known
      /\ jobs' = [jobs EXCEPT ![j].receives = @ + 1]
  BY DEF I!Receive
<1>4. /\ I!JobIds' = I!JobIds
      /\ \A i \in I!JobIds : /\ jobs'[i].lead = jobs[i].lead
                             /\ jobs'[i].event = jobs[i].event
                             /\ i # j => jobs'[i].state = jobs[i].state
      /\ jobs'[j].state \in {jobs[j].state, "dead"}
  BY <1>2, <1>3, JobFieldsStay
<1>5. jobs'[j].state # "deleted"
  BY <1>3, <1>4
<1> DEFINE found == k \in DOMAIN lead /\ e # "timeline_created"
<1>6. /\ actor'[w].job = j /\ actor'[w].pc = IF found THEN "sync" ELSE "ack"
      /\ found => actor'[w].lead = k /\ actor'[w].score = lead[k].score
      /\ \A a \in I!Actors : a # w => actor'[a] = actor[a]
  <2>1. CASE found
    BY <1>0, <1>2, <2>1 DEF I!Receive, I!Set, I!Syncing, SyncTypes
  <2>2. CASE ~found
    BY <1>0, <1>2, <2>2 DEF I!Receive, I!Set, SyncTypes
  <2> QED  BY <2>1, <2>2
<1>7. behind' = IF found /\ \E v \in Workers : Reports(v, k)
                THEN behind \cup {k} ELSE behind
  BY <1>0 DEF I!Receive, Reports
<1> HIDE DEF found
<1>8. /\ I!Busy(w)' <=> found
      /\ ~I!Busy(w)
      /\ \A a \in Workers : a # w => I!Busy(a)' <=> I!Busy(a)
  BY <1>3, <1>6 DEF I!Busy, I!Idle, I!Actors
<1>9. \A a \in Workers : \A l : Reports(a, l)' <=>
          \/ a # w /\ Reports(a, l)
          \/ a = w /\ found /\ l = k
  BY <1>6, <1>8 DEF Reports, I!Actors
<1>10. ActorsInv'
  <2>1. ASSUME NEW a \in Workers
        PROVE  OnJob(a)'
    <3>1. CASE a = w
      BY <1>0, <1>4, <1>6, <1>8, <3>1 DEF OnJob
    <3>2. CASE a # w
      BY <1>4, <1>6, <1>8, <3>2 DEF ActorsInv, OnJob, I!Actors
    <3> QED  BY <3>1, <3>2
  <2>2. ASSUME NEW l \in Leads \ behind', NEW a \in Workers, NEW b \in Workers,
               Reports(a, l)', Reports(b, l)'
        PROVE  a = b
    <3>1. l \notin behind
      BY <1>7, <2>2
    <3>2. found /\ l = k => \A v \in Workers : ~Reports(v, l)
      BY <1>7, <2>2
    <3> QED  BY <1>9, <2>2, <3>1, <3>2 DEF ActorsInv
  <2> QED  BY <1>2, <1>3, <1>6, <2>1, <2>2 DEF ActorsInv
<1>11. ASSUME NEW l \in DOMAIN lead, NEW i \in I!JobIds, JobReports(i, l)
       PROVE  JobReports(i, l)'
  <2>1. jobs'[i].state # "deleted"
    BY <1>4, <1>5, <1>11 DEF JobReports
  <2>2. ASSUME NEW a \in Workers, actor'[a].job = i
        PROVE  I!Busy(a)' /\ actor'[a].score = lead'[l].score
    <3>1. CASE a = w
      <4>1. i = j /\ k = l /\ found
        BY <1>0, <1>6, <1>11, <2>2, <3>1 DEF JobReports, found
      <4> QED  BY <1>1, <1>6, <1>8, <3>1, <4>1
    <3>2. CASE a # w
      BY <1>1, <1>6, <1>8, <1>11, <2>2, <3>2 DEF JobReports, I!Actors
    <3> QED  BY <3>1, <3>2
  <2> QED  BY <1>4, <1>11, <2>1, <2>2 DEF JobReports
<1>12. ASSUME NEW l, UpToDate(l)
       PROVE  UpToDate(l)'
  <2>1. ASSUME NEW a \in Workers, Reports(a, l)'
        PROVE  actor'[a].score = lead'[l].score
    <3>1. CASE a = w
      BY <1>1, <1>6, <1>9, <2>1, <3>1
    <3>2. CASE a # w
      BY <1>1, <1>6, <1>9, <1>12, <2>1, <3>2 DEF UpToDate, I!Actors
    <3> QED  BY <3>1, <3>2
  <2> QED  BY <1>1, <1>3, <1>12, <2>1 DEF UpToDate
<1>13. behind \subseteq behind'
  BY <1>7
<1>14. \A l \in DOMAIN lead : Covered(l) => Covered(l)'
  BY <1>1, <1>4, <1>11, <1>12 DEF Covered, Reporting
<1> QED  BY <1>1, <1>10, <1>13, <1>14 DEF KeptInv

(* What the API does is no report; a worker's step but the last goes on.   *)
LEMMA ApiCallKept ==
    ASSUME HomeInv, ActorsInv, KeptInv, SyncInv, UNCHANGED <<ownVars, unannounced>>,
           I!CallApi \/ I!AnswerApi \/ I!ActorStep(Api)
    PROVE  HomeInv' /\ ActorsInv' /\ KeptInv'
<1>1. actor \in [I!Actors -> ActorStates] /\ Api \in I!Actors /\ Api \notin Workers
  BY ApiOK DEF SyncInv, SyncTypes, I!Actors
<1> DEFINE After(r) == /\ actor' = [actor EXCEPT ![Api] = r]
                       /\ r.pc \in {"idle", "sync", "commit"}
<1>2. \E r : After(r)
  <2>1. CASE I!CallApi
    <3>1. PICK event, type, l :
              actor' = [actor EXCEPT ![Api] = I!Syncing("sync", 0, event, type, l, 0, "none")]
      BY <2>1 DEF I!CallApi, I!Set
    <3>2. After(I!Syncing("sync", 0, event, type, l, 0, "none"))
      BY <3>1 DEF I!Syncing
    <3> HIDE DEF After
    <3> QED  BY <3>2
  <2>2. CASE I!AnswerApi \/ I!FindsSeveral(Api) \/ I!Fails(Api)
    <3>1. After(I!Idle)
      BY <2>2 DEF I!AnswerApi, I!FindsSeveral, I!Fails, I!Raise, I!Set, I!Idle
    <3> HIDE DEF After
    <3> QED  BY <3>1
  <2>3. CASE I!ProviderRefuses(Api) \/ I!Upsert(Api)
    <3>1. I!AfterSync(Api) = "commit"
      BY DEF I!AfterSync
    <3>2. actor[Api] \in SyncRec
      BY <1>1, <2>3, ActorIsTyped DEF SyncInv, I!ProviderRefuses, I!Upsert, SyncRec
    <3> DEFINE r == [actor[Api] EXCEPT !.pc = "commit"]
    <3>3. \/ actor' = [actor EXCEPT ![Api] = r]
          \/ \E h : actor' = [actor EXCEPT ![Api] = [r EXCEPT !.holds = h]]
      BY <2>3, <3>1 DEF I!ProviderRefuses, I!Upsert, I!Set, I!At
    <3>4. r.pc = "commit" /\ \A h : [r EXCEPT !.holds = h].pc = "commit"
      BY <3>2 DEF SyncRec
    <3> HIDE DEF r
    <3>5. ASSUME NEW h, actor' = [actor EXCEPT ![Api] = [r EXCEPT !.holds = h]]
          PROVE  \E t : After(t)
      <4>1. After([r EXCEPT !.holds = h])
        BY <3>4, <3>5
      <4> HIDE DEF After
      <4> QED  BY <4>1
    <3>6. CASE actor' = [actor EXCEPT ![Api] = r]
      <4>1. After(r)
        BY <3>4, <3>6
      <4> HIDE DEF After
      <4> QED  BY <4>1
    <3> QED  BY <3>3, <3>5, <3>6
  <2> QED  BY <2>1, <2>2, <2>3 DEF I!ActorStep
<1>3. UNCHANGED <<jobs, known, behind>>
  <2>1. actor[Api].pc # "svix"
    BY DEF ActorsInv
  <2>2. CASE I!CallApi \/ I!AnswerApi
    BY <2>2 DEF I!CallApi, I!AnswerApi
  <2>3. CASE I!ActorStep(Api)
    BY <2>1, <2>3 DEF I!ActorStep, I!ProviderRefuses, I!Upsert, I!FindsSeveral, I!Fails,
                      I!Raise
  <2> QED  BY <2>2, <2>3
<1>4. /\ actor'[Api].pc \in {"idle", "sync", "commit"}
      /\ \A a \in Workers : actor'[a] = actor[a]
  BY <1>1, <1>2 DEF I!Actors
<1> QED  BY <1>3, <1>4, GoingOnKept DEF I!Busy

LEMMA GoesOnKept ==
    ASSUME SyncInv, HomeInv, ActorsInv, KeptInv, UNCHANGED <<ownVars, unannounced>>,
           NEW w \in Workers, I!ProviderRefuses(w) \/ I!Upsert(w) \/ I!NotifySlack(w)
    PROVE  HomeInv' /\ ActorsInv' /\ KeptInv'
<1>1. /\ actor \in [I!Actors -> ActorStates] /\ w \in I!Actors
      /\ Api \in I!Actors /\ Api # w
  BY ApiOK DEF SyncInv, SyncTypes, I!Actors
<1>2. UNCHANGED <<jobs, known, behind>>
  BY DEF I!ProviderRefuses, I!Upsert, I!NotifySlack
<1>3. I!Busy(w) /\ actor[w] \in SyncRec
  BY <1>1, ActorIsTyped DEF SyncInv, I!ProviderRefuses, I!Upsert, I!NotifySlack, I!Busy
<1> DEFINE After(r) == /\ actor' = [actor EXCEPT ![w] = r]
                       /\ r.pc \in {"slack", "svix"} /\ r.job = actor[w].job
                       /\ r.lead = actor[w].lead /\ r.score = actor[w].score
<1>4. PICK r : After(r)
  <2>1. I!AfterSync(w) \in {"slack", "svix"}
    BY <1>1 DEF I!AfterSync
  <2>2. PICK pc \in {"slack", "svix"} :
            LET r == [actor[w] EXCEPT !.pc = pc] IN
            \/ actor' = [actor EXCEPT ![w] = r]
            \/ \E h : actor' = [actor EXCEPT ![w] = [r EXCEPT !.holds = h]]
    BY <2>1 DEF I!ProviderRefuses, I!Upsert, I!NotifySlack, I!Set, I!At
  <2> DEFINE r     == [actor[w] EXCEPT !.pc = pc]
             As(t) == /\ t.pc = pc /\ t.job = actor[w].job
                      /\ t.lead = actor[w].lead /\ t.score = actor[w].score
  <2>3. As(r) /\ \A h : As([r EXCEPT !.holds = h])
    BY <1>3 DEF SyncRec
  <2>4. \/ actor' = [actor EXCEPT ![w] = r]
        \/ \E h : actor' = [actor EXCEPT ![w] = [r EXCEPT !.holds = h]]
    BY <2>2
  <2> HIDE DEF r
  <2>5. ASSUME NEW h, actor' = [actor EXCEPT ![w] = [r EXCEPT !.holds = h]]
        PROVE  \E t : After(t)
    <3>1. After([r EXCEPT !.holds = h])
      BY <2>3, <2>5
    <3> HIDE DEF After
    <3> QED  BY <3>1
  <2>6. CASE actor' = [actor EXCEPT ![w] = r]
    <3>1. After(r)
      BY <2>3, <2>6
    <3> HIDE DEF After
    <3> QED  BY <3>1
  <2> QED  BY <2>4, <2>5, <2>6
<1>5. /\ actor'[w] = r /\ actor'[Api] = actor[Api]
      /\ \A a \in Workers : a # w => actor'[a] = actor[a]
  BY <1>1, <1>4 DEF I!Actors
<1>6. actor'[Api].pc \in {"idle", "sync", "commit"}
  BY <1>5 DEF ActorsInv
<1>7. \A a \in Workers : /\ actor'[a].job = actor[a].job
                         /\ I!Busy(a)' <=> I!Busy(a)
                         /\ I!Busy(a) => /\ actor'[a].lead = actor[a].lead
                                         /\ actor'[a].score = actor[a].score
  BY <1>3, <1>4, <1>5 DEF I!Busy
<1> QED  BY <1>2, <1>6, <1>7, GoingOnKept

LEMMA LetsGoKept ==
    ASSUME Types, SyncInv, HomeInv, ActorsInv, KeptInv, UNCHANGED <<ownVars, unannounced>>,
           NEW w \in Workers,
           \/ I!FindsSeveral(w) \/ I!Fails(w) \/ I!PublishSvix(w)
           \/ I!Acknowledge(w) \/ I!Crash(w)
    PROVE  HomeInv' /\ ActorsInv' /\ KeptInv'
<1>1. /\ actor[w] # I!Idle /\ actor' = [actor EXCEPT ![w] = I!Idle]
      /\ Tells(w) \/ UNCHANGED <<known, behind>>
  BY DEF I!FindsSeveral, I!Fails, I!PublishSvix, I!Acknowledge, I!Crash, I!Raise, I!Drop,
         I!Set, I!Busy, I!Idle, Tells
<1>2. \/ jobs' = jobs
      \/ jobs' = [jobs EXCEPT ![actor[w].job].state = "dead"]
      \/ /\ jobs' = [jobs EXCEPT ![actor[w].job].state = "deleted"]
         /\ actor[w].pc = "ack" \/ Tells(w)
  BY DEF I!FindsSeveral, I!Fails, I!PublishSvix, I!Acknowledge, I!Crash, I!Raise, I!Drop,
         I!Deleted, Tells
<1> QED  BY <1>1, <1>2, LettingGoKept

LEMMA KnownStep ==
    ASSUME Types, SyncInv, LatestInv, HomeInv, ActorsInv, KeptInv, [NextBoth]_allVars
    PROVE  HomeInv' /\ ActorsInv' /\ KeptInv'
<1>1. CASE Score(ApiStep)
  BY <1>1, ApiKept
<1>2. CASE PublishPatched \/ PatchLost
  BY <1>2, PatchesKept
<1>3. ASSUME NEW w \in Workers, Handle(w) \/ PublishScored(w) \/ Poll(w)
      PROVE  HomeInv' /\ ActorsInv' /\ KeptInv'
  BY <1>3, HandleKept, PublishScoredKept, ReceiveKept DEF Poll
<1>4. CASE I!Step /\ UNCHANGED <<ownVars, unannounced>>
  <2>1. ASSUME NEW w \in Workers,
               I!ActorStep(w) \/ I!NotifySlack(w) \/ I!PublishSvix(w) \/ I!Acknowledge(w)
               \/ I!Crash(w)
        PROVE  HomeInv' /\ ActorsInv' /\ KeptInv'
    BY <1>4, <2>1, GoesOnKept, LetsGoKept DEF I!ActorStep
  <2> QED  BY <1>4, <2>1, ApiCallKept DEF I!Step, I!Actors
<1>5. CASE UNCHANGED allVars
  <2>1. UNCHANGED <<ownVars, syncVars, unannounced>>
    BY <1>5 DEF allVars, vars, ownVars, history
  <2> QED  BY <2>1, GoingOnKept DEF syncVars, ActorsInv, I!Busy
<1> QED  BY <1>1, <1>2, <1>3, <1>4, <1>5 DEF NextBoth

(* The score that Svix was told last is that of the lead, once every event *)
(* is handled, unless messages were removed, sessions moved, a call or a   *)
(* handler died before its publish, or Svix refused or was told by two     *)
(* workers at a time.                                                      *)
THEOREM KnownScores == SpecBoth => []SvixKnowsScore
<1>1. InitBoth => HomeInv /\ ActorsInv /\ KeptInv
  <2> SUFFICES ASSUME InitBoth
               PROVE  HomeInv /\ ActorsInv /\ KeptInv
    OBVIOUS
  <2>1. /\ lead = [l \in Leads |-> NoScores] /\ created = 0
        /\ worker = [w \in Workers |-> Idle] /\ jobs = <<>>
        /\ actor = [a \in I!Actors |-> I!Idle]
        /\ known = [l \in DOMAIN lead |-> lead[l].score]
    BY DEF InitBoth, Init, I!Init
  <2>2. HomeInv
    BY <2>1 DEF HomeInv, Rooted, Idle
  <2>3. \A a \in I!Actors : ~I!Busy(a) /\ actor[a].job = 0 /\ actor[a].pc = "idle"
    BY <2>1 DEF I!Busy, I!Idle
  <2>4. ActorsInv
    BY <2>1, <2>3 DEF ActorsInv, OnJob, Reports, I!Actors
  <2>5. \A l \in DOMAIN lead : UpToDate(l)
    BY <2>1, <2>3 DEF UpToDate, Reports, I!Actors
  <2> QED  BY <2>2, <2>4, <2>5 DEF KeptInv, Covered
<1>2. Types /\ SyncInv /\ LatestInv /\ (HomeInv /\ ActorsInv /\ KeptInv) /\ [NextBoth]_allVars
          => (HomeInv /\ ActorsInv /\ KeptInv)'
  BY KnownStep
<1>3. KeptInv => SvixKnowsScore
  <2> SUFFICES ASSUME KeptInv, NEW l \in DOMAIN lead, Reported(l), uprooted = {}
               PROVE  known[l] = lead[l].score
    BY DEF SvixKnowsScore
  <2>1. Covered(l)
    BY DEF KeptInv, Reported
  <2>2. ~Announcing(l)
    BY DEF Reported, Announcing, PatchAnnounces, Scored, ScoresFor, Free, Quiet
  <2>3. ~Reporting(l)
    BY DEF Reported, Reporting, JobReports
  <2> QED  BY <2>1, <2>2, <2>3 DEF Covered, UpToDate
<1> QED  BY <1>1, <1>2, <1>3, ScoringTypes, SyncAlways, LatestAlways, PTL DEF SpecBoth
-----------------------------------------------------------------------------
(* Slack.  The largest score of any analysis and any number of messages is *)
(* 76: a fit of 65, an engagement of 88, and 80 for the intent.            *)
LEMMA ScoresAreLow ==
    ASSUME NEW a \in Analyses, NEW n \in Nat
    PROVE  Scores(a, n).score \in Int /\ Scores(a, n).score <= 76
<1>1. FitScore(a) \in 0..65
  <2>1. PICK v \in {0, 10, 20, 25} :
            v = CASE a.size >= 200 -> 25 [] a.size >= 50 -> 20
                  [] a.size >= 10 -> 10 [] OTHER -> 0
    BY AnalysesAreSized
  <2>2. FitScore(a) = Bound(40 + v)
    BY <2>1 DEF FitScore
  <2> QED  BY <2>2 DEF Bound
<1>2. EngagementScore(a, n) \in 0..88
  <2>1. PICK c \in 0..35 : c = IF n * 7 < 35 THEN n * 7 ELSE 35
    OBVIOUS
  <2>2. PICK u \in {0, 10, 20} : u = CASE a.urgency = "high" -> 20
                                       [] a.urgency = "medium" -> 10 [] OTHER -> 0
    OBVIOUS
  <2>3. PICK s \in {-5, 0, 8} : s = CASE a.sentiment = "positive" -> 8
                                      [] a.sentiment = "negative" -> -5 [] OTHER -> 0
    OBVIOUS
  <2>4. EngagementScore(a, n) = Bound(25 + c + u + s)
    BY <2>1, <2>2, <2>3 DEF EngagementScore
  <2> QED  BY <2>4 DEF Bound
<1>3. IntentScore(a) \in 0..80
  BY DEF IntentScore
<1>4. PICK f \in 0..65, e \in 0..88, i \in 0..80 :
          Scores(a, n).score = Bound((4 * f + 3 * e + 3 * i) \div 10)
  BY <1>1, <1>2, <1>3 DEF Scores
<1>5. (4 * f + 3 * e + 3 * i) \div 10 \in 0..76
  OBVIOUS
<1> QED  BY <1>4, <1>5 DEF Bound

(* PATCH writes no score from which on Slack is told.                      *)
PatchesAreLow ==
    /\ Threshold \in Int /\ Threshold > 76
    /\ \A p \in Patches : "score" \in DOMAIN p => p["score"] < Threshold

(* No lead has such a score, and nobody is about to write or to report one. *)
RowsAreLow ==
    /\ \A l \in DOMAIN lead : lead[l].score < Threshold
    /\ \A w \in Workers : worker[w].pc = "commit" => worker[w].after.score < Threshold

ReportsAreLow ==
    /\ \A a \in I!Actors : /\ actor[a].pc # "slack"
                           /\ I!Busy(a) => actor[a].score < Threshold
    /\ alerts = {}

LEMMA RowsStayLow ==
    ASSUME PatchesAreLow, Types, RowsAreLow, [NextBoth]_allVars
    PROVE  RowsAreLow'
<1>1. Next \/ Elsewhere
  BY ComposedSteps
<1>2. \A l \in DOMAIN lead' : lead'[l].score < Threshold
  <2>1. ASSUME NEW w \in Workers, Commit(w)
        PROVE  \A l \in DOMAIN lead' : lead'[l].score < Threshold
    <3>1. PICK l, t : l = worker[w].lead /\ t = worker[w]
      OBVIOUS
    <3>2. t.pc = "commit" /\ t.after.score < Threshold
      BY <2>1, <3>1 DEF Commit, RowsAreLow
    <3>3. lead' = lead \/ (l \in DOMAIN lead /\ lead' = [lead EXCEPT ![l] = Rescored(lead[l], t)])
      BY <2>1, <3>1 DEF Commit
    <3>4. CASE lead' = lead
      BY <3>4 DEF RowsAreLow
    <3>5. CASE l \in DOMAIN lead /\ lead' = [lead EXCEPT ![l] = Rescored(lead[l], t)]
      <4>1. lead[l] \in ScoreRow
        BY <3>5 DEF Types, RowTypes
      <4>2. "score" \in DOMAIN lead[l]
        BY <4>1 DEF ScoreRow
      <4>3. Rescored(lead[l], t)["score"] \in {lead[l]["score"], t.after["score"]}
        BY <4>2 DEF Rescored
      <4>4. Rescored(lead[l], t).score < Threshold
        BY <3>2, <3>5, <4>3 DEF RowsAreLow
      <4> QED  BY <3>5, <4>4 DEF RowsAreLow
    <3> QED  BY <3>3, <3>4, <3>5
  <2>2. ASSUME NEW l \in Leads, PatchScore(l)
        PROVE  \A x \in DOMAIN lead' : lead'[x].score < Threshold
    <3>1. PICK p \in Patches : lead' = [lead EXCEPT ![l] = Patched(lead[l], p)]
      BY <2>2 DEF PatchScore
    <3>2. l \in DOMAIN lead /\ lead[l] \in ScoreRow
      BY <2>2 DEF PatchScore, Types, RowTypes
    <3>3. "score" \in DOMAIN lead[l]
      BY <3>2 DEF ScoreRow
    <3>4. Patched(lead[l], p)["score"] < Threshold
      BY <3>2, <3>3 DEF Patched, PatchesAreLow, RowsAreLow
    <3>5. Patched(lead[l], p).score < Threshold
      BY <3>4
    <3> QED  BY <3>1, <3>2, <3>5 DEF RowsAreLow
  <2>3. ASSUME NEW l \in Leads, DeleteLead(l)
        PROVE  \A x \in DOMAIN lead' : lead'[x].score < Threshold
    BY <2>3 DEF DeleteLead, Without, RowsAreLow
  <2>4. CASE lead' = lead
    BY <2>4 DEF RowsAreLow
  <2> QED  BY <1>1, <2>1, <2>2, <2>3, <2>4, ScoreChanges
<1>3. \A w \in Workers : worker'[w].pc = "commit" => worker'[w].after.score < Threshold
  <2>1. CASE ~\E w \in Workers : ReadLead(w)
    BY <1>1, <2>1, WritersStay DEF NoNewWriter, RowsAreLow
  <2>2. ASSUME NEW w \in Workers, ReadLead(w)
        PROVE  \A v \in Workers : worker'[v].pc = "commit" =>
                   worker'[v].after.score < Threshold
    <3> DEFINE l == IF worker[w].read.session \in DOMAIN session
                    THEN session[worker[w].read.session] ELSE None
               n == Counted(worker[w].read.session)
               new == IF l = None THEN NoScores ELSE Scores(worker[w].answer, n)
    <3>1. worker'[w].after = new
      BY <2>2 DEF ReadLead, Set, Types, WorkerTypes
    <3>2. worker[w] \in UsageRec
      BY <2>2, WorkerIsTyped DEF ReadLead
    <3>3. worker[w].answer \in Analyses /\ n \in Nat
      BY <3>2, MessagesCanBeCounted DEF UsageRec, Counted
    <3>4. Scores(worker[w].answer, n).score < Threshold
      BY <3>3, ScoresAreLow DEF PatchesAreLow
    <3>5. NoScores.score < Threshold
      BY DEF NoScores, PatchesAreLow
    <3>6. worker'[w].after.score < Threshold
      BY <3>1, <3>4, <3>5
    <3> QED  BY <2>2, <3>6, ReadLeadWrites DEF RowsAreLow
  <2> QED  BY <2>1, <2>2
<1> QED  BY <1>2, <1>3 DEF RowsAreLow

(* An actor reads a low score, and goes past Slack, or lets go.            *)
LEMMA ReportsStayLow ==
    ASSUME PatchesAreLow, Types, SyncTypes, RowsAreLow, ReportsAreLow, [NextBoth]_allVars
    PROVE  ReportsAreLow'
<1> DEFINE Low(r) == /\ r.pc # "slack"
                     /\ r.pc \notin {"idle", "ack"} => r.score < Threshold
<1>0. \A a \in I!Actors : Low(actor[a])
  BY DEF ReportsAreLow, I!Busy
<1>1. ASSUME NEW a, NEW r, Low(r), actor' = [actor EXCEPT ![a] = r], alerts' = alerts
      PROVE  ReportsAreLow'
  <2>1. \A b \in I!Actors : actor'[b] = actor[b] \/ actor'[b] = r
    BY <1>1 DEF SyncTypes
  <2>2. \A b \in I!Actors : Low(actor'[b])
    BY <1>0, <1>1, <2>1
  <2> QED  BY <1>1, <2>2 DEF ReportsAreLow, I!Busy
<1>2. CASE UNCHANGED <<actor, alerts>>
  BY <1>2 DEF ReportsAreLow, I!Busy
<1>3. CASE Score(ApiStep) \/ PatchLost \/ PublishPatched \/ UNCHANGED allVars
  BY <1>2, <1>3 DEF Score, PatchLost, PublishPatched, I!Arrive, allVars, syncVars
<1>4. ASSUME NEW w \in Workers, Handle(w) \/ PublishScored(w) \/ Poll(w)
      PROVE  ReportsAreLow'
  <2>1. CASE Handle(w) \/ PublishScored(w) \/ \E j \in JobIds : Score(Begin(w, j))
    BY <1>2, <2>1 DEF Handle, PublishScored, Score, I!Arrive, syncVars
  <2>2. ASSUME NEW j \in I!JobIds, I!Receive(w, j)
        PROVE  ReportsAreLow'
    <3>1. PICK l, e : l = jobs[j].lead /\ e = jobs[j].event
      OBVIOUS
    <3>2. CASE l \in DOMAIN lead /\ e # "timeline_created"
      <4> DEFINE r == I!Syncing("sync", j, e, "hubspot", l, lead[l].score, "none")
      <4>1. actor' = [actor EXCEPT ![w] = r] /\ alerts' = alerts
        BY <2>2, <3>1, <3>2 DEF I!Receive, I!Set
      <4>2. Low(r)
        BY <3>2 DEF RowsAreLow, I!Syncing
      <4> HIDE DEF r, Low
      <4> QED  BY <1>1, <4>1, <4>2
    <3>3. CASE ~(l \in DOMAIN lead /\ e # "timeline_created")
      <4>1. actor' = [actor EXCEPT ![w] = [pc |-> "ack", job |-> j]] /\ alerts' = alerts
        BY <2>2, <3>1, <3>3 DEF I!Receive, I!Set
      <4> QED  BY <1>1, <4>1
    <3> QED  BY <3>2, <3>3
  <2> QED  BY <1>4, <2>1, <2>2 DEF Poll
<1>5. CASE I!Step
  <2>1. ASSUME NEW a \in I!Actors, I!ProviderRefuses(a) \/ I!Upsert(a)
        PROVE  ReportsAreLow'
    <3>1. PICK pc : pc = I!AfterSync(a)
      OBVIOUS
    <3>2. I!Busy(a) /\ actor[a] \in SyncRec /\ actor[a].score < Threshold
      BY <2>1, ActorIsTyped DEF I!ProviderRefuses, I!Upsert, I!Busy, ReportsAreLow
    <3>3. pc \in {"commit", "svix"}
      BY <3>1, <3>2 DEF I!AfterSync, SyncRec, PatchesAreLow
    <3>4. alerts' = alerts
      BY <2>1 DEF I!ProviderRefuses, I!Upsert
    <3>5. \E h : actor' = [actor EXCEPT ![a] = [[actor[a] EXCEPT !.pc = pc] EXCEPT !.holds = h]]
      <4>1. CASE I!Upsert(a)
        BY <3>1, <4>1 DEF I!Upsert, I!Set, I!At
      <4>2. CASE I!ProviderRefuses(a)
        <5> DEFINE r == [actor[a] EXCEPT !.pc = pc]
        <5>1. actor' = [actor EXCEPT ![a] = r]
          BY <3>1, <4>2 DEF I!ProviderRefuses, I!Set, I!At
        <5>2. r = [r EXCEPT !.holds = r.holds]
          BY <3>2 DEF SyncRec
        <5> QED  BY <5>1, <5>2
      <4> QED  BY <2>1, <4>1, <4>2
    <3>6. PICK h : actor' = [actor EXCEPT ![a] = [[actor[a] EXCEPT !.pc = pc] EXCEPT !.holds = h]]
      BY <3>5
    <3>7. PICK r : /\ r = [[actor[a] EXCEPT !.pc = pc] EXCEPT !.holds = h]
                   /\ actor' = [actor EXCEPT ![a] = r]
      BY <3>6
    <3>8. r.pc = pc /\ r.score = actor[a].score
      BY <3>2, <3>7 DEF SyncRec
    <3> QED  BY <1>1, <3>2, <3>3, <3>4, <3>7, <3>8
  <2>2. ASSUME NEW a, I!Set(a, I!Idle), alerts' = alerts
        PROVE  ReportsAreLow'
    BY <1>1, <2>2 DEF I!Set, I!Idle
  <2>3. ASSUME NEW a \in I!Actors, I!FindsSeveral(a) \/ I!Fails(a)
        PROVE  ReportsAreLow'
    BY <2>2, <2>3 DEF I!FindsSeveral, I!Fails, I!Raise
  <2>4. CASE I!AnswerApi
    BY <2>2, <2>4 DEF I!AnswerApi
  <2>5. ASSUME NEW w \in Workers, I!PublishSvix(w) \/ I!Acknowledge(w) \/ I!Crash(w)
        PROVE  ReportsAreLow'
    BY <2>2, <2>5 DEF I!PublishSvix, I!Acknowledge, I!Crash, I!Drop
  <2>6. ASSUME NEW w \in Workers, I!NotifySlack(w)
        PROVE  FALSE
    BY <2>6 DEF I!NotifySlack, ReportsAreLow, I!Actors
  <2>7. CASE I!CallApi
    <3>1. PICK event, type, l :
              I!Set(Api, I!Syncing("sync", 0, event, type, l, 0, "none"))
      BY <2>7 DEF I!CallApi
    <3>2. Low(I!Syncing("sync", 0, event, type, l, 0, "none"))
      BY DEF I!Syncing, PatchesAreLow
    <3>3. alerts' = alerts
      BY <2>7 DEF I!CallApi
    <3> HIDE DEF Low
    <3> QED  BY <1>1, <3>1, <3>2, <3>3 DEF I!Set
  <2> QED  BY <1>5, <2>1, <2>3, <2>4, <2>5, <2>6, <2>7 DEF I!Step, I!ActorStep
<1> QED  BY <1>3, <1>4, <1>5 DEF NextBoth

(* "Slack high-intent lead alert integration hooks" (README.md:23): Slack  *)
(* is told from a score of 80 on (app/integrations/pipeline.py).  Whatever *)
(* visitors write and models answer, and in whichever order the jobs run,  *)
(* it is told of nobody, unless a PATCH writes such a score by hand.       *)
THEOREM NobodyIsAlerted == ASSUME PatchesAreLow PROVE SpecBoth => [](alerts = {})
<1>1. InitBoth => RowsAreLow /\ ReportsAreLow
  BY DEF InitBoth, Init, I!Init, PatchesAreLow, RowsAreLow, ReportsAreLow, NoScores,
         Idle, I!Idle, I!Busy
<1>2. Types /\ SyncInv /\ (RowsAreLow /\ ReportsAreLow) /\ [NextBoth]_allVars
          => (RowsAreLow /\ ReportsAreLow)'
  BY RowsStayLow, ReportsStayLow DEF SyncInv
<1>3. RowsAreLow /\ ReportsAreLow => alerts = {}
  BY DEF ReportsAreLow
<1> QED  BY <1>1, <1>2, <1>3, ScoringTypes, SyncAlways, PTL DEF SpecBoth
=============================================================================
