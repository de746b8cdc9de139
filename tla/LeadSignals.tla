---------------------------- MODULE LeadSignals ----------------------------
(***************************************************************************)
(* From a message of a visitor to the outside world: MessageScoring writes *)
(* the score of a lead and publishes score_updated (and the API publishes  *)
(* lead_updated), which IntegrationSync reports to HubSpot, Slack and      *)
(* Svix.  The same worker processes run the handlers of both.              *)
(***************************************************************************)
EXTENDS MessageScoring

CONSTANTS
    Api,
    Threshold      \* lead_score >= 80 in app/integrations/pipeline.py

ASSUME ApiOK == Api \notin Workers

VARIABLES
    connections, jobs, actor, known, alerts, contended, behind,
    unannounced    \* history: leads whose PATCH, or whose scoring, died before
                   \*   it published, and is not repeated

I == INSTANCE IntegrationSync

syncVars == <<connections, jobs, actor, known, alerts, contended, behind>>

(* What only MessageScoring changes; edits and mishaps are of both.        *)
ownVars == <<lead, session, message, timeline, usage, cache, aijobs, worker,
             caller, day, created, calls, billed, runs, history>>

allVars == <<vars, syncVars, unannounced>>

-----------------------------------------------------------------------------
InitBoth == Init /\ I!Init /\ unannounced = {}

Score(A) == A /\ UNCHANGED <<syncVars, unannounced>>

(* A handler that has scored a lead and not published it: its job is to be *)
(* delivered again, and no other handler, that received it after an early  *)
(* timeout, is about to acknowledge it without that lead.                  *)
Repeated(w) ==
    /\ aijobs[worker[w].job].state # "deleted"
    /\ \A v \in Workers \ {w} : worker[v].job = worker[w].job =>
           /\ worker[v].pc # "ack"
           /\ worker[v].pc \in {"commit", "publish"} => worker[v].lead = worker[w].lead

Handle(w) ==
    /\ HandlerStep(w)
    /\ unannounced' = unannounced \cup
           IF worker[w].pc = "publish" /\ ~Repeated(w) THEN {worker[w].lead} ELSE {}
    /\ UNCHANGED syncVars

(* A scoring is reported to the integrations.                              *)
PublishScored(w) ==
    /\ Publish(w)
    /\ I!Arrive("score_updated", worker[w].lead)
    /\ UNCHANGED unannounced

PublishPatched ==
    PublishPatch /\ I!Arrive(caller.event, caller.lead) /\ UNCHANGED unannounced

PatchLost ==
    /\ PatchDies
    /\ unannounced' = unannounced \cup
           IF caller.event = "lead_updated" THEN {caller.lead} ELSE {}
    /\ UNCHANGED syncVars

(* A worker polls one queue after the other, and runs one job at a time.   *)
Poll(w) ==
    \/ /\ actor[w] = I!Idle
       /\ \E j \in JobIds : Score(Begin(w, j))
    \/ /\ worker[w] = Idle
       /\ \E j \in I!JobIds : I!Receive(w, j)
       /\ UNCHANGED <<ownVars, unannounced>>

NextBoth ==
    \/ Score(ApiStep)
    \/ \E w \in Workers : Handle(w) \/ PublishScored(w) \/ Poll(w)
    \/ PublishPatched \/ PatchLost
    \/ I!Step /\ UNCHANGED <<ownVars, unannounced>>

SpecBoth == InitBoth /\ [][NextBoth]_allVars

ConnectionsOnlyFromRaces == I!ConnectionsOnlyFromRaces

-----------------------------------------------------------------------------
(* Every event of the lead has been handled, by one worker at a time, and  *)
(* the providers accepted it.                                              *)
Reported(l) ==
    /\ Free /\ caller = Quiet
    /\ \A a \in I!Actors : actor[a] = I!Idle
    /\ \A j \in I!JobIds : jobs[j].lead = l => jobs[j].state = "deleted"
    /\ \A j \in JobIds : aijobs[j].state = "deleted"
    /\ l \notin behind \cup unannounced

(* The score that Svix was last told is the score of the lead: although an *)
(* event carries no score, and its handler reports what it reads, no       *)
(* change of it stays unreported.  A redelivered scoring job reports       *)
(* again, unless its message is gone by then, or the job was acknowledged  *)
(* by another handler that had it meanwhile.  (HubSpot is sent a score     *)
(* with score_updated only, so the note it has may be older.)              *)
SvixKnowsScore ==
    \A l \in DOMAIN lead :
        Reported(l) /\ uprooted = {} => known[l] = lead[l].score

(* "Slack high-intent lead alert integration hooks" (README.md:23): once   *)
(* everything is reported, Slack was asked to announce a lead with the     *)
(* strongest signals there are: large company, demo request, urgent and    *)
(* positive, and at least five messages.                                   *)
Strongest == [intent |-> "demo_request", size |-> 200, urgency |-> "high",
              sentiment |-> "positive"]

HighIntentNotified ==
    \A l \in DOMAIN lead :
        Reported(l) /\ lead[l] = Scores(Strongest, 5) => l \in alerts
=============================================================================
