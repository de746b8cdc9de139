--------------------------- MODULE MessageScoring ---------------------------
(***************************************************************************)
(* Conversations of one tenant and the scoring of their messages: the API  *)
(* (app/api/conversations.py, app/services/conversation_service.py) and    *)
(* the handler of message.created (app/ai/pipeline.py) with the analysis,  *)
(* its cache (app/ai/orchestrator.py, app/ai/cache.py) and the scores      *)
(* (app/ai/scoring.py).                                                    *)
(*                                                                         *)
(* PostgreSQL at READ COMMITTED.  The ORM flushes what has changed before  *)
(* every query, so the handler holds the row of its message from its       *)
(* lookup of the usage record on, and the usage record of the day from its *)
(* lookup of the session on, up to the commit.                             *)
(***************************************************************************)
EXTENDS Integers, Sequences, FiniteSets

CONSTANTS
    Workers,       \* worker processes
    Leads, Sessions,
    Contents,      \* texts of messages
    ModelOf,       \* content -> the model selected for it
    Answers,       \* content -> the analyses that may be made of it:
                   \*   [intent, size, sentiment, urgency, tokens, storable]
    None,          \* null
    Annotations,   \* what callers write into a message as its analysis
    Patches,       \* what PATCH /leads writes into columns of scores
    MaxSessions,   \* max_sessions of the tenant's plan
    MaxMessages,   \* max_messages of the tenant's plan
    MaxRetries,    \* _MAX_RETRIES of the worker
    MaxDays,       \* bound: days in UTC
    MaxCreated,    \* bound: messages ever created
    MaxExtras      \* bound: edits (calls that write something else, and
                   \*   midnights) and mishaps (crashes, failed calls, cache
                   \*   failures, early timeouts) start only below it

ASSUME ConstantsOK ==
    /\ IsFiniteSet(Workers) /\ IsFiniteSet(Contents)
    /\ DOMAIN ModelOf = Contents /\ DOMAIN Answers = Contents
    /\ \A c \in Contents : \A a \in Answers[c] :
           a # None /\ a.size \in Nat /\ a.tokens \in Nat
    /\ None \notin Leads
    /\ \A p \in Patches : \A c \in DOMAIN p : p[c] \in Int
    /\ MaxRetries \in Nat \ {0} /\ MaxDays \in Nat \ {0}
    /\ MaxCreated \in Nat

VARIABLES
    lead,       \* rows of leads: id -> [fit, engagement, score]
    session,    \* rows of sessions: id -> its lead_id
    message,    \* rows of messages: id -> [session, content, note], note
                \*   being the stored analysis
    timeline,   \* lead -> its latest ai_scored event: [message, count, scores]
    usage,      \* day -> the usage_records row: [row, sent, tokens, opened]
    cache,      \* Redis: <<message, model>> -> analysis
    aijobs,     \* ai_jobs messages: [message, receives, state]
    worker,     \* per worker: its job and what its transaction has read
    caller,     \* the API call in progress
    day,
    created,    \* history: messages ever created
    calls,      \* history: analyses made, per message
    billed,     \* history: committed runs of the handler, per message
    runs,       \* history: the same, per day of their usage record
    handmade,   \* history: leads with scores of PATCH /leads, not scored since
    straddled,  \* history: leads scored by handlers of two days at a time
    unscored,   \* history: sessions with a message whose event was lost
    uprooted,   \* history: sessions moved to another lead, or that lost a message
    retouched,  \* history: messages with an annotation that PATCH /messages wrote
    edits, mishaps

vars == <<lead, session, message, timeline, usage, cache, aijobs, worker,
          caller, day, created, calls, billed, runs, handmade, straddled,
          unscored, uprooted, retouched, edits, mishaps>>

rows    == <<lead, session, message, timeline>>
history == <<handmade, straddled, unscored, uprooted, retouched>>

-----------------------------------------------------------------------------
(* compute_initial_scores (app/ai/scoring.py).                             *)
Bound(v) == IF v < 0 THEN 0 ELSE IF v > 100 THEN 100 ELSE v

FitScore(a) ==
    Bound(40 + CASE a.size >= 200 -> 25 [] a.size >= 50 -> 20
                 [] a.size >= 10 -> 10 [] OTHER -> 0)

IntentScore(a) ==
    CASE a.intent \in {"demo_request", "pricing"}  -> 80
      [] a.intent \in {"comparison", "evaluation"} -> 70
      [] a.intent = "support"                      -> 25
      [] OTHER                                     -> 20

EngagementScore(a, count) ==
    Bound(25 + (IF count * 7 < 35 THEN count * 7 ELSE 35)
             + (CASE a.urgency = "high" -> 20 [] a.urgency = "medium" -> 10
                  [] OTHER -> 0)
             + (CASE a.sentiment = "positive" -> 8
                  [] a.sentiment = "negative" -> -5 [] OTHER -> 0))

(* 0.4 fit + 0.3 engagement + 0.3 intent, cut off; the scores are such     *)
(* that the floating point sum never falls below the exact one.            *)
Scores(a, count) ==
    LET f == FitScore(a)
        e == EngagementScore(a, count)
    IN  [fit |-> f, engagement |-> e,
         score |-> Bound((4 * f + 3 * e + 3 * IntentScore(a)) \div 10)]

-----------------------------------------------------------------------------
JobIds  == 1..Len(aijobs)
Idle    == [pc |-> "idle", job |-> 0]
Quiet   == [pc |-> "idle"]
NoUsage == [row |-> FALSE, sent |-> 0, tokens |-> 0, opened |-> 0]
NoScores == [fit |-> 0, engagement |-> 0, score |-> 0]

Set(w, r)  == worker' = [worker EXCEPT ![w] = r]
Target(w)  == aijobs[worker[w].job].message
Held(j)    == \E w \in Workers : worker[w].job = j
Fault      == edits + mishaps < MaxExtras /\ mishaps' = mishaps + 1
Extra      == edits + mishaps < MaxExtras /\ edits' = edits + 1

Without(f, x) == [y \in DOMAIN f \ {x} |-> f[y]]
With(f, x, v) == [y \in DOMAIN f \cup {x} |-> IF y = x THEN v ELSE f[y]]

MessagesOf(s) == {m \in DOMAIN message : message[m].session = s}

(* Rows that a handler has written and not committed.                      *)
Writing(m) == \E w \in Workers :
                  /\ worker[w].pc \in {"usage", "commit"}
                  /\ worker[w].dirty /\ Target(w) = m
UsageLocked(d) == \E w \in Workers : worker[w].pc = "commit" /\ worker[w].day = d

Init ==
    /\ lead = [l \in Leads |-> NoScores]
    /\ session = [s \in {} |-> None]
    /\ message = [m \in {} |-> None]
    /\ timeline = [l \in Leads |-> None]
    /\ usage = [d \in 1..MaxDays |-> NoUsage]
    /\ cache = [k \in {} |-> None]
    /\ aijobs = <<>>
    /\ worker = [w \in Workers |-> Idle]
    /\ caller = Quiet
    /\ day = 1
    /\ created = 0
    /\ calls = [m \in 1..MaxCreated |-> 0]
    /\ billed = [m \in 1..MaxCreated |-> 0]
    /\ runs = [d \in 1..MaxDays |-> 0]
    /\ handmade = {} /\ straddled = {} /\ unscored = {} /\ uprooted = {}
    /\ retouched = {}
    /\ edits = 0 /\ mishaps = 0

-----------------------------------------------------------------------------
(* The API.                                                                *)

(* PlanLimitService counts what is committed.                              *)
WithinSessionLimit == Cardinality(DOMAIN session) < MaxSessions
WithinMessageLimit == Cardinality(DOMAIN message) < MaxMessages

(* create_session: the limit is checked, the session is inserted, and      *)
(* increment reads the usage record of the day.                            *)
CreateSession(s) ==
    /\ caller = Quiet
    /\ s \notin DOMAIN session
    /\ WithinSessionLimit
    /\ \E l \in DOMAIN lead \cup {None} :
           caller' = [pc |-> "session", session |-> s, lead |-> l, day |-> day,
                      usage |-> usage[day]]
    /\ UNCHANGED <<rows, usage, cache, aijobs, worker, day, created, calls,
                   billed, runs, history, edits, mishaps>>

(* Without a usage record it inserts one; either way it waits for a        *)
(* handler that has written the record.                                    *)
CommitSession ==
    LET d == caller.day IN
    /\ caller.pc = "session"
    /\ ~UsageLocked(d)
    /\ caller.lead \in DOMAIN lead \cup {None}
    /\ caller.usage.row = usage[d].row
    /\ session' = With(session, caller.session, caller.lead)
    /\ usage' = [usage EXCEPT ![d].row = TRUE,
                              ![d].opened = caller.usage.opened + 1]
    /\ caller' = Quiet
    /\ UNCHANGED <<lead, message, timeline, cache, aijobs, worker, day, created,
                   calls, billed, runs, history, edits, mishaps>>

(* The lead is gone, or another call has inserted the usage record.        *)
SessionRefused ==
    /\ caller.pc = "session"
    /\ ~UsageLocked(caller.day)
    /\ \/ caller.lead \notin DOMAIN lead \cup {None}
       \/ caller.usage.row # usage[caller.day].row
    /\ caller' = Quiet
    /\ UNCHANGED <<rows, usage, cache, aijobs, worker, day, created, calls,
                   billed, runs, history, edits, mishaps>>

(* create_message: limit, session, insert, commit; the publish follows.    *)
(* The caller may annotate the message itself.                             *)
CreateMessage(s) ==
    LET m == created + 1 IN
    /\ caller = Quiet
    /\ created < MaxCreated
    /\ WithinMessageLimit
    /\ s \in DOMAIN session
    /\ \E c \in Contents, n \in Annotations :
           message' = With(message, m, [session |-> s, content |-> c, note |-> n])
    /\ created' = m
    /\ caller' = [pc |-> "message", message |-> m, session |-> s]
    /\ UNCHANGED <<lead, session, timeline, usage, cache, aijobs, worker, day,
                   calls, billed, runs, history, edits, mishaps>>

PublishMessage ==
    /\ caller.pc = "message"
    /\ aijobs' = Append(aijobs, [message |-> caller.message, receives |-> 0,
                                 state |-> "queued"])
    /\ caller' = Quiet
    /\ UNCHANGED <<rows, usage, cache, worker, day, created, calls, billed,
                   runs, history, edits, mishaps>>

(* The call dies, or send_message fails, after its commit.                 *)
MessageDies ==
    /\ caller.pc = "message"
    /\ Fault
    /\ unscored' = unscored \cup {caller.session}
    /\ caller' = Quiet
    /\ UNCHANGED <<rows, usage, cache, aijobs, worker, day, created, calls,
                   billed, runs, handmade, straddled, uprooted, retouched, edits>>

Edit == /\ Extra
        /\ UNCHANGED <<usage, cache, aijobs, worker, day, created, calls,
                       billed, runs, straddled, unscored, mishaps>>

(* update_message writes the text, or the annotation as the caller has it, *)
(* null included, or both, and publishes nothing; it and the deletion wait *)
(* for a handler that has written the row.                                 *)
UpdateMessage(m) ==
    /\ Edit
    /\ m \in DOMAIN message /\ ~Writing(m)
    /\ \E c \in Contents, n \in Annotations :
           /\ c # message[m].content \/ n # message[m].note
           /\ message' = [message EXCEPT ![m].content = c, ![m].note = n]
           /\ retouched' = IF n = message[m].note THEN retouched
                           ELSE retouched \cup {m}
    /\ UNCHANGED <<lead, session, timeline, caller, handmade, uprooted>>

DeleteMessage(m) ==
    /\ Edit
    /\ m \in DOMAIN message /\ ~Writing(m)
    /\ message' = Without(message, m)
    /\ uprooted' = uprooted \cup {message[m].session}
    /\ UNCHANGED <<lead, session, timeline, caller, handmade, retouched>>

(* update_session and attach_session_to_lead.                              *)
AttachSession(s) ==
    /\ Edit
    /\ s \in DOMAIN session
    /\ \E l \in (DOMAIN lead \cup {None}) \ {session[s]} :
           session' = [session EXCEPT ![s] = l]
    /\ uprooted' = IF session[s] = None THEN uprooted ELSE uprooted \cup {s}
    /\ UNCHANGED <<lead, message, timeline, caller, handmade, retouched>>

(* Its messages go with it.                                                *)
DeleteSession(s) ==
    /\ Edit
    /\ s \in DOMAIN session
    /\ \A m \in MessagesOf(s) : ~Writing(m)
    /\ session' = Without(session, s)
    /\ message' = [m \in DOMAIN message \ MessagesOf(s) |-> message[m]]
    /\ uprooted' = uprooted \cup {s}
    /\ UNCHANGED <<lead, timeline, caller, handmade, retouched>>

Patched(row, p) == [c \in DOMAIN row |-> IF c \in DOMAIN p THEN p[c] ELSE row[c]]

(* PATCH /leads may write any of the three scores (in one step here,       *)
(* LeadRouting has the update in two); its lifecycle events follow.        *)
PatchScore(l) ==
    /\ Edit
    /\ caller = Quiet
    /\ l \in DOMAIN lead
    /\ \E p \in Patches : lead' = [lead EXCEPT ![l] = Patched(@, p)]
    /\ lead' # lead
    /\ handmade' = handmade \cup {l}
    /\ caller' = [pc |-> "patched", lead |-> l, event |-> "lead_updated"]
    /\ UNCHANGED <<session, message, timeline, uprooted, retouched>>

(* create_timeline_event, which has an event of its own.                   *)
AddTimelineEvent(l) ==
    /\ Edit
    /\ caller = Quiet
    /\ l \in DOMAIN lead
    /\ caller' = [pc |-> "patched", lead |-> l, event |-> "timeline_created"]
    /\ UNCHANGED <<lead, session, message, timeline, handmade, uprooted, retouched>>

PublishPatch ==
    /\ caller.pc = "patched"
    /\ caller' = Quiet
    /\ UNCHANGED <<rows, usage, cache, aijobs, worker, day, created, calls,
                   billed, runs, history, edits, mishaps>>

PatchDies ==
    /\ caller.pc = "patched"
    /\ caller' = Quiet
    /\ UNCHANGED <<rows, usage, cache, aijobs, worker, day, created, calls,
                   billed, runs, history, edits, mishaps>>

(* The timeline goes with the lead, and its sessions lose it.              *)
DeleteLead(l) ==
    /\ Edit
    /\ l \in DOMAIN lead
    /\ lead' = Without(lead, l)
    /\ timeline' = [timeline EXCEPT ![l] = None]
    /\ session' = [s \in DOMAIN session |->
                       IF session[s] = l THEN None ELSE session[s]]
    /\ UNCHANGED <<message, caller, handmade, uprooted, retouched>>

Midnight ==
    /\ day < MaxDays
    /\ Extra
    /\ day' = day + 1
    /\ UNCHANGED <<rows, usage, cache, aijobs, worker, caller, created, calls,
                   billed, runs, history, mishaps>>

-----------------------------------------------------------------------------
(* process_message_created_event.                                          *)
WorkerOnly == UNCHANGED <<caller, day, created, uprooted, retouched, edits>>

(* An idle worker receives job j, that another one has only after an early *)
(* timeout.                                                                *)
Receive(w, j) ==
    /\ worker[w] = Idle
    /\ aijobs[j].state = "queued"
    /\ aijobs' = [aijobs EXCEPT ![j].receives = @ + 1]
    /\ WorkerOnly
    /\ UNCHANGED <<rows, usage, cache, calls, billed, runs, handmade, straddled,
                   unscored>>

Timely(j) == IF Held(j) THEN Fault ELSE UNCHANGED mishaps

FindsNoMessage(w, j) ==
    /\ Receive(w, j)
    /\ Timely(j)
    /\ aijobs[j].message \notin DOMAIN message
    /\ Set(w, [pc |-> "ack", job |-> j])

CacheKey(m, row) == <<m, ModelOf[row.content]>>

Analyzed(w, j, row, a) ==
    Set(w, [pc |-> "analyzed", job |-> j, read |-> row, answer |-> a,
            dirty |-> a # row.note])

(* The message is read, and its analysis is in the cache.                  *)
CacheHit(w, j) ==
    LET m == aijobs[j].message IN
    /\ Receive(w, j)
    /\ Timely(j)
    /\ m \in DOMAIN message
    /\ CacheKey(m, message[m]) \in DOMAIN cache
    /\ Analyzed(w, j, message[m], cache[CacheKey(m, message[m])])

(* It is not, or the cache cannot be read.                                 *)
CacheMiss(w, j) ==
    LET m == aijobs[j].message IN
    /\ Receive(w, j)
    /\ m \in DOMAIN message
    /\ IF Held(j) \/ CacheKey(m, message[m]) \in DOMAIN cache
       THEN Fault ELSE UNCHANGED mishaps
    /\ Set(w, [pc |-> "call", job |-> j, read |-> message[m]])

(* Mutant: the answer is not put into the cache.                           *)
CachedNot(k, a) == cache

Cached(k, a) == With(cache, k, a)

(* OpenAI answers, or the heuristics when it fails; the answer is cached,  *)
(* whether or not the database will take it, unless Redis fails.           *)
Analyze(w) ==
    LET m == Target(w)
        row == worker[w].read
    IN
    /\ worker[w].pc = "call"
    /\ calls' = [calls EXCEPT ![m] = @ + 1]
    /\ \E a \in Answers[row.content] :
           /\ Analyzed(w, worker[w].job, row, a)
           /\ \/ cache' = Cached(CacheKey(m, row), a) /\ UNCHANGED mishaps
              \/ UNCHANGED cache /\ Fault
    /\ WorkerOnly
    /\ UNCHANGED <<rows, usage, aijobs, billed, runs, handmade, straddled,
                   unscored>>

(* The handler raises: at the last delivery the job goes to failed_jobs.   *)
Raise(w) ==
    LET j == worker[w].job IN
    /\ aijobs' = IF aijobs[j].receives >= MaxRetries /\ aijobs[j].state = "queued"
                 THEN [aijobs EXCEPT ![j].state = "dead"] ELSE aijobs
    /\ Set(w, Idle)
    /\ WorkerOnly
    /\ UNCHANGED <<rows, usage, cache, calls, billed, runs, handmade, straddled,
                   unscored>>

(* increment reads the usage record; the flush before it writes the        *)
(* analysis into the message, if it changes it.                            *)
ReadUsage(w) ==
    LET t == worker[w] IN
    /\ t.pc = "analyzed"
    /\ t.dirty => ~Writing(Target(w)) /\ Target(w) \in DOMAIN message
                  /\ t.answer.storable
    /\ Set(w, [pc |-> "usage", job |-> t.job, read |-> t.read,
               answer |-> t.answer, dirty |-> t.dirty, day |-> day,
               usage |-> usage[day]])
    /\ WorkerOnly
    /\ UNCHANGED <<rows, usage, cache, aijobs, calls, billed, runs, handmade,
                   straddled, unscored, mishaps>>

(* The message is gone, or its intent does not fit into the column.        *)
FlushRefused(w) ==
    LET t == worker[w] IN
    /\ t.pc = "analyzed"
    /\ t.dirty /\ ~Writing(Target(w))
    /\ Target(w) \notin DOMAIN message \/ ~t.answer.storable
    /\ Raise(w)
    /\ UNCHANGED mishaps

(* Its own insert of the record fails: another one has committed it.       *)
UsageConflict(w) ==
    LET t == worker[w] IN
    /\ t.pc = "usage"
    /\ ~UsageLocked(t.day)
    /\ ~t.usage.row /\ usage[t.day].row
    /\ Raise(w)
    /\ UNCHANGED mishaps

(* Mutant: only the messages analysed before are counted.                  *)
CountedAnalysed(s) == Cardinality({m \in MessagesOf(s) : message[m].note # None})

Counted(s) == Cardinality(MessagesOf(s))

(* The usage record is written, once no other handler holds it; then the   *)
(* session, its lead and the number of its messages are read.              *)
ReadLead(w) ==
    LET t == worker[w]
        s == t.read.session
        l == IF s \in DOMAIN session THEN session[s] ELSE None
        n == Counted(s)
    IN
    /\ t.pc = "usage"
    /\ ~UsageLocked(t.day)
    /\ t.usage.row \/ ~usage[t.day].row
    /\ Set(w, [pc |-> "commit", job |-> t.job, answer |-> t.answer,
               dirty |-> t.dirty, day |-> t.day, usage |-> t.usage, lead |-> l,
               before |-> IF l = None THEN NoScores ELSE lead[l], count |-> n,
               after |-> IF l = None THEN NoScores ELSE Scores(t.answer, n)])
    /\ WorkerOnly
    /\ UNCHANGED <<rows, usage, cache, aijobs, calls, billed, runs, handmade,
                   straddled, unscored, mishaps>>

(* Mutant: a column is left out.                                           *)
RescoredFitNot(row, t) ==
    [c \in DOMAIN row |-> IF c = "fit" \/ t.after[c] = t.before[c]
                          THEN row[c] ELSE t.after[c]]

(* The columns that the transaction has changed.                           *)
Rescored(row, t) ==
    [c \in DOMAIN row |-> IF t.after[c] = t.before[c] THEN row[c] ELSE t.after[c]]

CountedUsage(u, t) ==
    [u EXCEPT !.row = TRUE, !.sent = t.usage.sent + 1,
              !.tokens = IF t.answer.tokens = 0 THEN @
                         ELSE t.usage.tokens + t.answer.tokens]

(* Another handler that is about to score the lead: it counts for a        *)
(* different day.                                                          *)
Straddles(w) ==
    \E v \in Workers \ {w} :
        worker[v].pc = "commit" /\ worker[v].lead = worker[w].lead

Commit(w) ==
    LET t == worker[w]
        l == t.lead
        m == Target(w)
        scored == l # None
    IN
    /\ t.pc = "commit"
    /\ scored => l \in DOMAIN lead
    /\ message' = IF t.dirty THEN [message EXCEPT ![m].note = t.answer] ELSE message
    /\ usage' = [usage EXCEPT ![t.day] = CountedUsage(@, t)]
    /\ billed' = [billed EXCEPT ![m] = @ + 1]
    /\ runs' = [runs EXCEPT ![t.day] = @ + 1]
    /\ lead' = IF scored THEN [lead EXCEPT ![l] = Rescored(@, t)] ELSE lead
    /\ timeline' = IF scored
                   THEN [timeline EXCEPT ![l] =
                            [message |-> m, count |-> t.count, scores |-> t.after]]
                   ELSE timeline
    /\ handmade' = IF scored /\ lead[l] = t.before THEN handmade \ {l} ELSE handmade
    /\ straddled' = IF scored /\ Straddles(w) THEN straddled \cup {l} ELSE straddled
    /\ Set(w, IF scored THEN [pc |-> "publish", job |-> t.job, lead |-> l]
              ELSE [pc |-> "ack", job |-> t.job])
    /\ WorkerOnly
    /\ UNCHANGED <<session, cache, aijobs, calls, unscored, mishaps>>

(* The lead was deleted meanwhile.                                         *)
CommitRefused(w) ==
    /\ worker[w].pc = "commit"
    /\ worker[w].lead \notin DOMAIN lead \cup {None}
    /\ Raise(w)
    /\ UNCHANGED mishaps

(* delete_message.                                                         *)
Deleted(j) == aijobs' = IF aijobs[j].state = "queued"
                        THEN [aijobs EXCEPT ![j].state = "deleted"] ELSE aijobs

Drop(w) ==
    /\ Set(w, Idle)
    /\ WorkerOnly
    /\ UNCHANGED <<rows, usage, cache, calls, billed, runs, handmade, straddled,
                   unscored>>

(* Routing and integrations get their event; then the sequences do, and    *)
(* the handler returns, unless that fails or the worker dies.              *)
Publish(w) ==
    /\ worker[w].pc = "publish"
    /\ \/ Deleted(worker[w].job) /\ Drop(w) /\ UNCHANGED mishaps
       \/ Fault /\ Raise(w)
       \/ Fault /\ Drop(w) /\ UNCHANGED aijobs

(* A lost connection, or a failed publish.                                 *)
HandlerFails(w) ==
    /\ worker[w].pc \notin {"idle", "ack"}
    /\ Fault
    /\ Raise(w)

(* The handler had nothing to score, and returns.                          *)
Acknowledge(w) ==
    /\ worker[w].pc = "ack"
    /\ Deleted(worker[w].job)
    /\ Drop(w)
    /\ UNCHANGED mishaps

(* The worker dies, or its delete_message fails: the job stays queued.     *)
Crash(w) == worker[w].pc # "idle" /\ Fault /\ Drop(w) /\ UNCHANGED aijobs

-----------------------------------------------------------------------------
ApiStep ==
    \/ \E s \in Sessions : CreateSession(s) \/ CreateMessage(s)
                           \/ AttachSession(s) \/ DeleteSession(s)
    \/ CommitSession \/ SessionRefused \/ PublishMessage \/ MessageDies
    \/ \E m \in 1..MaxCreated : UpdateMessage(m) \/ DeleteMessage(m)
    \/ \E l \in Leads : PatchScore(l) \/ AddTimelineEvent(l)
                         \/ DeleteLead(l)
    \/ Midnight

Begin(w, j) == FindsNoMessage(w, j) \/ CacheHit(w, j) \/ CacheMiss(w, j)

(* The steps that follow, but the publish that others listen to.           *)
HandlerStep(w) ==
    \/ Analyze(w)
    \/ ReadUsage(w) \/ FlushRefused(w) \/ UsageConflict(w)
    \/ ReadLead(w) \/ Commit(w) \/ CommitRefused(w)
    \/ Acknowledge(w) \/ HandlerFails(w) \/ Crash(w)

Next ==
    \/ ApiStep \/ PublishPatch \/ PatchDies
    \/ \E w \in Workers :
           \/ \E j \in JobIds : Begin(w, j)
           \/ HandlerStep(w) \/ Publish(w)

Spec == Init /\ [][Next]_vars

-----------------------------------------------------------------------------
Free == \A w \in Workers : worker[w].pc = "idle"

(* The three scores of a lead are of one message, that of its last         *)
(* ai_scored event, although only changed columns are written: handlers    *)
(* that score at the same time wait for each other at the usage record.    *)
(* Only a PATCH, or two handlers around midnight, that write different     *)
(* usage records, can mix them.                                            *)
ScoresOfOneMessage ==
    \A l \in DOMAIN lead \ (handmade \cup straddled) :
        timeline[l] # None => lead[l] = timeline[l].scores

(* In the end the engagement of a lead counts every message of the session *)
(* that was scored last, in whichever order the jobs ran: unless a job was *)
(* dead-lettered or lost, or messages were removed.                        *)
LatestCounts ==
    \A l \in DOMAIN lead \ straddled :
        Free /\ caller = Quiet /\ timeline[l] # None =>
            LET m == timeline[l].message IN
            m \in DOMAIN message =>
                LET s == message[m].session IN
                \/ s \in unscored \cup uprooted
                \/ session[s] # l
                \/ \E j \in JobIds : /\ aijobs[j].state # "deleted"
                                     /\ aijobs[j].message \in MessagesOf(s)
                \/ timeline[l].count = Cardinality(MessagesOf(s))

Done(m)      == Cardinality({j \in JobIds : aijobs[j].message = m
                                            /\ aijobs[j].state = "deleted"})
Finishing(m) == Cardinality({w \in Workers : worker[w].pc \in {"publish", "ack"}
                                             /\ Target(w) = m})

(* A message is analysed once (by a model) and billed once.  Only a crash, *)
(* a failed call or an early timeout bills it again, and a run that the    *)
(* database refuses does not ask the model again when it is retried; a     *)
(* message whose job was acknowledged is annotated, unless a PATCH of the  *)
(* message has written its annotation.                                     *)
BilledPerJob ==
    /\ \A d \in DOMAIN usage : usage[d].sent <= runs[d]
    /\ \A m \in 1..MaxCreated :
           /\ calls[m] <= Cardinality({ModelOf[c] : c \in Contents}) + mishaps
           /\ billed[m] <= Done(m) + Finishing(m) + mishaps
           /\ m \in DOMAIN message /\ Done(m) > 0 =>
                  billed[m] > 0 /\ (m \notin retouched => message[m].note # None)
=============================================================================
