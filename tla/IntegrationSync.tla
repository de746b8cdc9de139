-------------------------- MODULE IntegrationSync --------------------------
(***************************************************************************)
(* Outbound integrations of one tenant: the handler of the integration     *)
(* jobs (app/integrations/pipeline.py), IntegrationService and the         *)
(* connections it keeps (app/services/integration_service.py,              *)
(* IntegrationConnectionRepository), and the calls of the API that use     *)
(* them (app/api/integrations.py).                                         *)
(*                                                                         *)
(* The providers are called in the middle of a transaction at READ         *)
(* COMMITTED; whether one is configured and accepts the call is open.      *)
(***************************************************************************)
EXTENDS Naturals, Sequences, FiniteSets

CONSTANTS
    Workers,      \* worker processes
    Api,          \* the API process, one call at a time
    Leads,
    Threshold,    \* the score from which on Slack is told
    None,
    MaxRetries,   \* _MAX_RETRIES of the worker
    MaxExtras     \* bound: edits (calls of the API) and mishaps (crashes, failed
                  \*   calls, early timeouts) start only below it

VARIABLES
    lead,         \* rows of leads, as others write them: id -> [score, ...]
    connections,  \* type -> rows of integration_connections
    jobs,         \* integration_jobs messages: [event, lead, receives, state]
    actor,        \* per worker, and for the API: its job and transaction
    known,        \* the score Svix was last told of each lead
    alerts,       \* leads Slack was asked to announce, accepted or not
    contended,    \* history: types looked up while an insert was under way
    behind,       \* history: leads Svix refused an event of, or that two
                  \*   actors handled at a time
    edits, mishaps

vars == <<lead, connections, jobs, actor, known, alerts, contended,
          behind, edits, mishaps>>

-----------------------------------------------------------------------------
Actors == Workers \cup {Api}
Types  == {"hubspot", "google_calendar"}
Events == {"lead_created", "lead_updated", "score_updated", "timeline_created"}
JobIds == 1..Len(jobs)
Idle   == [pc |-> "idle", job |-> 0]

(* A transaction: the lead and the score it has read, and what it holds of *)
(* the connection: nothing, the row it updated, or the one it inserted.    *)
Syncing(pc, j, event, type, l, score, holds) ==
    [pc |-> pc, job |-> j, event |-> event, type |-> type, lead |-> l,
     score |-> score, holds |-> holds]

At(a, pc)    == [actor[a] EXCEPT !.pc = pc]
Set(a, r)    == actor' = [actor EXCEPT ![a] = r]
Held(j)      == \E w \in Workers : actor[w].job = j
Fault        == edits + mishaps < MaxExtras /\ mishaps' = mishaps + 1
Busy(a)      == actor[a].pc \notin {"idle", "ack"}
Holds(a, type, h) == Busy(a) /\ actor[a].type = type /\ actor[a].holds = h

Init ==
    /\ connections = [t \in Types |-> 0]
    /\ jobs = <<>>
    /\ actor = [a \in Actors |-> Idle]
    /\ known = [l \in DOMAIN lead |-> lead[l].score]
    /\ alerts = {}
    /\ contended = {} /\ behind = {}
    /\ edits = 0 /\ mishaps = 0

(* Another component publishes to integration_jobs (and says what becomes  *)
(* of edits and mishaps).                                                  *)
Arrive(event, l) ==
    /\ jobs' = Append(jobs, [event |-> event, lead |-> l, receives |-> 0,
                             state |-> "queued"])
    /\ UNCHANGED <<connections, actor, known, alerts, contended, behind>>

-----------------------------------------------------------------------------
(* process_integration_event reads the lead; without it, and for an event  *)
(* of the timeline, it does nothing.                                       *)
Receive(w, j) ==
    LET l == jobs[j].lead
        e == jobs[j].event
    IN
    /\ actor[w] = Idle
    /\ jobs[j].state = "queued"
    /\ IF Held(j) THEN Fault ELSE UNCHANGED mishaps
    /\ jobs' = [jobs EXCEPT ![j].receives = @ + 1]
    /\ IF l \in DOMAIN lead /\ e # "timeline_created"
       THEN /\ Set(w, Syncing("sync", j, e, "hubspot", l, lead[l].score, "none"))
            /\ behind' = IF \E v \in Workers : Busy(v) /\ actor[v].lead = l
                         THEN behind \cup {l} ELSE behind
       ELSE Set(w, [pc |-> "ack", job |-> j]) /\ UNCHANGED behind
    /\ UNCHANGED <<lead, connections, known, alerts, contended,
                   edits>>

(* POST /integrations/hubspot/leads/{id}/sync and                          *)
(* POST /integrations/calendar/bookings.                                   *)
CallApi ==
    /\ actor[Api] = Idle
    /\ edits + mishaps < MaxExtras
    /\ edits' = edits + 1
    /\ \/ \E l \in DOMAIN lead :
              Set(Api, Syncing("sync", 0, "sync", "hubspot", l, 0, "none"))
       \/ Set(Api, Syncing("sync", 0, "booking", "google_calendar", None, 0,
                           "none"))
    /\ UNCHANGED <<lead, connections, jobs, known, alerts, contended,
                   behind, mishaps>>

(* What follows the synchronisation.                                       *)
AfterSync(a) ==
    IF a = Api THEN "commit"
    ELSE IF actor[a].event = "score_updated" /\ actor[a].score >= Threshold
         THEN "slack" ELSE "svix"

(* Mutant: it inserts although there is a row.                             *)
UpsertedInsert(rows) == "inserted"

Upserted(rows) == IF rows = 0 THEN "inserted" ELSE "updated"

(* sync_lead, sync_activity or create_booking.  False, when the provider   *)
(* is not configured or answers 300 or more, is not retried, and leaves no *)
(* trace: what HubSpot has noted of a lead is not modelled.  After True,   *)
(* upsert looks the connection up: it updates the row, waiting for another *)
(* actor that has, or inserts one.  mark_synced writes the same row.       *)
ProviderRefuses(a) ==
    /\ actor[a].pc = "sync"
    /\ Set(a, At(a, AfterSync(a)))
    /\ UNCHANGED <<lead, connections, jobs, known, alerts, contended, behind,
                   edits, mishaps>>

Upsert(a) ==
    LET type == actor[a].type
        rows == connections[type]
    IN
    /\ actor[a].pc = "sync"
    /\ rows <= 1
    /\ rows = 1 => \A b \in Actors : ~Holds(b, type, "updated")
    /\ Set(a, [At(a, AfterSync(a)) EXCEPT !.holds = Upserted(rows)])
    /\ contended' = IF \E b \in Actors : Holds(b, type, "inserted")
                    THEN contended \cup {type} ELSE contended
    /\ UNCHANGED <<lead, connections, jobs, known, alerts, behind, edits, mishaps>>

(* notify_high_intent_lead; what it returns is ignored.                    *)
NotifySlack(a) ==
    /\ actor[a].pc = "slack"
    /\ alerts' = alerts \cup {actor[a].lead}
    /\ Set(a, At(a, "svix"))
    /\ UNCHANGED <<lead, connections, jobs, known, contended, behind,
                   edits, mishaps>>

(* Mutant: Svix is not told.                                               *)
ToldNothing(k, l, score) == k

Told(k, l, score) == [k EXCEPT ![l] = score]

(* publish_domain_event, with the lead as it was read.                     *)
TellSvix(a) ==
    LET t == actor[a] IN
    \/ known' = Told(known, t.lead, t.score) /\ UNCHANGED behind
    \/ behind' = behind \cup {t.lead} /\ UNCHANGED known

Committed(a) ==
    connections' = IF actor[a].holds = "inserted"
                   THEN [connections EXCEPT ![actor[a].type] = @ + 1] ELSE connections

(* delete_message.                                                         *)
Deleted(j) == jobs' = IF jobs[j].state = "queued"
                      THEN [jobs EXCEPT ![j].state = "deleted"] ELSE jobs

(* The commit follows and the job is acknowledged, unless the worker dies  *)
(* in between.                                                             *)
PublishSvix(w) ==
    /\ actor[w].pc = "svix"
    /\ TellSvix(w)
    /\ Committed(w)
    /\ Set(w, Idle)
    /\ \/ Deleted(actor[w].job) /\ UNCHANGED mishaps
       \/ Fault /\ UNCHANGED jobs
    /\ UNCHANGED <<lead, alerts, contended, edits>>

AnswerApi ==
    /\ actor[Api].pc = "commit"
    /\ Committed(Api)
    /\ Set(Api, Idle)
    /\ UNCHANGED <<lead, jobs, known, alerts, contended, behind, edits, mishaps>>

-----------------------------------------------------------------------------
(* The handler raises: at the last delivery the job goes to failed_jobs.   *)
(* The API answers 500.                                                    *)
Raise(a) ==
    LET j == actor[a].job IN
    /\ jobs' = IF a # Api /\ jobs[j].receives >= MaxRetries /\ jobs[j].state = "queued"
               THEN [jobs EXCEPT ![j].state = "dead"] ELSE jobs
    /\ Set(a, Idle)
    /\ UNCHANGED <<lead, connections, contended, edits>>

(* Two rows of the type: scalar_one_or_none raises.                        *)
FindsSeveral(a) ==
    /\ actor[a].pc = "sync"
    /\ connections[actor[a].type] > 1
    /\ Raise(a)
    /\ UNCHANGED <<known, alerts, behind, mishaps>>

(* A provider cannot be reached, or the database fails, perhaps only after *)
(* Slack or Svix was told.                                                 *)
Fails(a) ==
    /\ Busy(a)
    /\ Fault
    /\ Raise(a)
    /\ UNCHANGED alerts
    /\ \/ UNCHANGED <<known, behind>>
       \/ actor[a].pc = "svix" /\ TellSvix(a)

Drop(w) ==
    /\ Set(w, Idle)
    /\ UNCHANGED <<lead, connections, known, alerts, contended, behind, edits>>

(* The handler had nothing to do, and returns.                             *)
Acknowledge(w) ==
    /\ actor[w].pc = "ack"
    /\ Deleted(actor[w].job)
    /\ Drop(w)
    /\ UNCHANGED mishaps

(* The worker dies, or its delete_message fails: the job stays queued.     *)
Crash(w) == actor[w] # Idle /\ Fault /\ Drop(w) /\ UNCHANGED jobs

-----------------------------------------------------------------------------
ActorStep(a) ==
    \/ ProviderRefuses(a) \/ Upsert(a) \/ FindsSeveral(a)
    \/ Fails(a)

(* Every step but the arrival of jobs and the choice of one.               *)
Step ==
    \/ CallApi \/ AnswerApi
    \/ \E a \in Actors : ActorStep(a)
    \/ \E w \in Workers : NotifySlack(w) \/ PublishSvix(w) \/ Acknowledge(w) \/ Crash(w)

-----------------------------------------------------------------------------
(* A second connection of a type, after which every synchronisation raises *)
(* and its job is dead-lettered, appears only when a lookup ran while      *)
(* another actor's insert was not committed.                               *)
ConnectionsOnlyFromRaces ==
    \A type \in Types : connections[type] > 1 => type \in contended
=============================================================================
