---------------------------- MODULE LeadRouting ----------------------------
(***************************************************************************)
(* Routing of leads by the rules of one tenant: the rule engine            *)
(* (app/routing/engine.py), its evaluation by the worker                   *)
(* (app/routing/pipeline.py, app/services/routing_service.py), the admin's *)
(* edits of the rules (app/api/routing.py) and the changes of a lead that  *)
(* publish a routing job.                                                  *)
(*                                                                         *)
(* A value of a lead or of a condition is an abstract value; what the      *)
(* comparisons see in it (a number, a substring, a list) is a constant.    *)
(* Transactions are at READ COMMITTED, and the commit writes the columns   *)
(* that the transaction changed from what it read.                         *)
(***************************************************************************)
EXTENDS Integers, Sequences, FiniteSets

CONSTANTS
    Workers,       \* worker processes
    Leads,
    Admitted,      \* column -> what the table takes in it, null apart: the id of
                   \*   a user, an id or a name that is not too long
    RuleIds,       \* ids in their order, as naturals
    RuleBodies,    \* what a rule may say: [priority, enabled, conditions,
                   \*   action, target], target being the id in the payload
    InitialRules,  \* the rules at the start: id -> body
    InitialLead,   \* column or custom_fields key -> value of a new lead
    Patches,       \* writes of PATCH /leads and of scoring: [field, value]
    Number,        \* value -> float(value), or None when that raises
    Substrings,    \* pairs <<a, b>>: str(b).lower() in str(a).lower()
    Items,         \* list value -> its elements
    None,          \* null
    MaxRetries,    \* _MAX_RETRIES of the worker
    MaxPatches,    \* bound: writes of a lead
    MaxEdits,      \* bound: edits of the rules
    MaxFaults      \* bound: crashes, failed handlers and early timeouts

Columns == {"owner_user_id", "assigned_team_id", "assigned_queue_name"}

ASSUME ConstantsOK ==
    /\ InitialLead = [f \in DOMAIN InitialLead |-> InitialLead[f]]
    /\ InitialRules = [i \in DOMAIN InitialRules |-> InitialRules[i]]
    /\ RuleIds \subseteq Nat
    /\ DOMAIN InitialRules \subseteq RuleIds
    /\ Columns \subseteq DOMAIN InitialLead
    /\ \A p \in Patches : p.field \in DOMAIN InitialLead
    /\ IsFiniteSet(Workers) /\ IsFiniteSet(DOMAIN InitialRules)
    /\ \A r \in RuleBodies : r.priority \in Int
    /\ \A i \in DOMAIN InitialRules : InitialRules[i].priority \in Int
    /\ MaxRetries \in Nat \ {0}

VARIABLES
    lead,        \* the leads in the database: id -> row
    rules,       \* the rules in the database: id -> body
    evaluated,   \* routing_evaluated events in the timeline of each lead
    jobs,        \* routing_jobs messages: [lead, receives, state]
    worker,      \* per worker: its job and what its transaction has read
    caller,      \* the call that writes a lead, up to its publish
    born,        \* history: ids handed out
    torn,        \* history: leads assigned by hand, or by an evaluation that
                 \*   another write overlapped, and not routed since
    outdated,    \* history: leads not routed since the rules were edited
    unannounced, \* history: leads a change of which was never published
    patches, edits, mishaps

vars == <<lead, rules, evaluated, jobs, worker, caller, born, torn, outdated,
          unannounced, patches, edits, mishaps>>

-----------------------------------------------------------------------------
(* The rule engine.                                                        *)

Numeric(v) == v \in DOMAIN Number /\ Number[v] # None

Ordered(op, a, b) ==
    \/ op = "gt"  /\ a > b
    \/ op = "gte" /\ a >= b
    \/ op = "lt"  /\ a < b
    \/ op = "lte" /\ a <= b

(* The comparators; an unknown one fails the condition.                    *)
Compare(op, lhs, rhs) ==
    \/ op = "eq"  /\ lhs = rhs
    \/ op = "neq" /\ lhs # rhs
    \/ op = "contains" /\ <<lhs, rhs>> \in Substrings
    \/ /\ op \in {"gt", "gte", "lt", "lte"}
       /\ Numeric(lhs) /\ Numeric(rhs)
       /\ Ordered(op, Number[lhs], Number[rhs])
    \/ op = "in" /\ rhs \in DOMAIN Items /\ lhs \in Items[rhs]

LeadValue(row, field) == IF field \in DOMAIN row THEN row[field] ELSE None

(* Every condition has to hold; a rule without conditions matches.         *)
RuleMatches(row, rule) ==
    \A c \in rule.conditions : Compare(c.op, LeadValue(row, c.field), c.value)

(* Mutant: the smaller priority comes first.                               *)
BeforeAscending(all, i, k) ==
    \/ all[i].priority < all[k].priority
    \/ all[i].priority = all[k].priority /\ i < k

Before(all, i, k) ==
    \/ all[i].priority > all[k].priority
    \/ all[i].priority = all[k].priority /\ i < k

(* The rules of S as sorted() puts them.                                   *)
InOrder(S, all) ==
    CHOOSE s \in [1..Cardinality(S) -> S] :
        \A m, n \in 1..Cardinality(S) : m < n => Before(all, s[m], s[n])

NoDecision == [action |-> None, target |-> None]

(* The first enabled rule that matches, in (-priority, id) order.          *)
EvaluateRouting(row, all) ==
    LET ids     == InOrder({i \in DOMAIN all : all[i].enabled}, all)
        matches == {n \in DOMAIN ids : RuleMatches(row, all[ids[n]])}
    IN  IF matches = {} THEN NoDecision
        ELSE LET rule == all[ids[CHOOSE n \in matches :
                                     \A m \in matches : n <= m]]
             IN  [action |-> rule.action, target |-> rule.target]

Assigns == [assign_user |-> "owner_user_id", assign_team |-> "assigned_team_id",
            queue |-> "assigned_queue_name"]

(* Mutant: the other two columns keep what they had.                       *)
ApplyKeepsOthers(row, d) ==
    IF d.action \notin DOMAIN Assigns THEN row
    ELSE [f \in DOMAIN row |-> IF f = Assigns[d.action] THEN d.target ELSE row[f]]

(* apply_routing_decision: the action's column gets the target, the other  *)
(* two are cleared; any other action changes nothing.                      *)
ApplyDecision(row, d) ==
    IF d.action \notin DOMAIN Assigns THEN row
    ELSE [f \in DOMAIN row |-> IF f = Assigns[d.action] THEN d.target
                               ELSE IF f \in Columns THEN None ELSE row[f]]

-----------------------------------------------------------------------------
JobIds == 1..Len(jobs)
Idle   == [pc |-> "idle", job |-> 0]
Quiet  == [pc |-> "idle"]

(* An evaluation: the row it read, how many evaluations were committed     *)
(* then (history), and from ReadRules on the row and rules it goes by.     *)
Evaluation(pc, j, row, after, by, n) ==
    [pc |-> pc, job |-> j, row |-> row, after |-> after, rules |-> by, n |-> n]

Set(w, r) == worker' = [worker EXCEPT ![w] = r]
Target(w) == jobs[worker[w].job].lead
Held(j)   == \E w \in Workers : worker[w].job = j
Fault     == mishaps < MaxFaults /\ mishaps' = mishaps + 1

Without(f, x) == [y \in DOMAIN f \ {x} |-> f[y]]
With(f, x, v) == [y \in DOMAIN f \cup {x} |-> IF y = x THEN v ELSE f[y]]

Job(l) == [lead |-> l, receives |-> 0, state |-> "queued"]

Init ==
    /\ lead = [l \in {} |-> None]
    /\ rules = InitialRules
    /\ evaluated = [l \in Leads |-> 0]
    /\ jobs = <<>>
    /\ worker = [w \in Workers |-> Idle]
    /\ caller = Quiet
    /\ born = {} /\ torn = {} /\ outdated = {} /\ unannounced = {}
    /\ patches = 0 /\ edits = 0 /\ mishaps = 0

-----------------------------------------------------------------------------
(* Writes of a lead: create_lead, update_lead, and the scoring of a        *)
(* message; each commits, and then publishes a routing job.                *)
CreateLead(l) ==
    /\ caller = Quiet
    /\ l \notin born
    /\ born' = born \cup {l}
    /\ lead' = With(lead, l, InitialLead)
    /\ torn' = IF \E f \in Columns : InitialLead[f] # None
               THEN torn \cup {l} ELSE torn
    /\ caller' = [pc |-> "publish", lead |-> l]
    /\ UNCHANGED <<rules, evaluated, jobs, worker, outdated, unannounced,
                   patches, edits, mishaps>>

(* The row is read; a value it already has will not be written.            *)
ReadForUpdate(l) ==
    /\ caller = Quiet
    /\ l \in DOMAIN lead
    /\ patches < MaxPatches
    /\ patches' = patches + 1
    /\ \E p \in Patches :
           caller' = [pc |-> "update", lead |-> l, field |-> p.field,
                      value |-> p.value, dirty |-> p.value # lead[l][p.field]]
    /\ UNCHANGED <<lead, rules, evaluated, jobs, worker, born, torn, outdated,
                   unannounced, edits, mishaps>>

CommitUpdate ==
    LET l == caller.lead IN
    /\ caller.pc = "update"
    /\ l \in DOMAIN lead
    /\ lead' = IF caller.dirty
               THEN [lead EXCEPT ![l][caller.field] = caller.value] ELSE lead
    /\ torn' = IF caller.dirty /\ caller.field \in Columns
               THEN torn \cup {l} ELSE torn
    /\ caller' = [pc |-> "publish", lead |-> l]
    /\ UNCHANGED <<rules, evaluated, jobs, worker, born, outdated, unannounced,
                   patches, edits, mishaps>>

(* Deleted meanwhile: the flush or the refresh finds no row.               *)
UpdateStale ==
    /\ caller.pc = "update"
    /\ caller.lead \notin DOMAIN lead
    /\ caller' = Quiet
    /\ UNCHANGED <<lead, rules, evaluated, jobs, worker, born, torn, outdated,
                   unannounced, patches, edits, mishaps>>

(* Mutants: the routing job is left out; its payload names no lead.        *)
WithRoutingJobNot(l) == jobs

WithRoutingJobNobody(l) == Append(jobs, Job(None))

WithRoutingJob(l) == Append(jobs, Job(l))

Publish ==
    /\ caller.pc = "publish"
    /\ jobs' = WithRoutingJob(caller.lead)
    /\ caller' = Quiet
    /\ UNCHANGED <<lead, rules, evaluated, worker, born, torn, outdated,
                   unannounced, patches, edits, mishaps>>

(* The call dies, or send_message fails, after the commit.                 *)
PublishDies ==
    /\ caller.pc = "publish"
    /\ Fault
    /\ unannounced' = unannounced \cup {caller.lead}
    /\ caller' = Quiet
    /\ UNCHANGED <<lead, rules, evaluated, jobs, worker, born, torn, outdated,
                   patches, edits>>

(* delete_lead; the timeline goes with it.                                 *)
DeleteLead(l) ==
    /\ l \in DOMAIN lead
    /\ lead' = Without(lead, l)
    /\ evaluated' = [evaluated EXCEPT ![l] = 0]
    /\ UNCHANGED <<rules, jobs, worker, caller, born, torn, outdated,
                   unannounced, patches, edits, mishaps>>

-----------------------------------------------------------------------------
(* create_rule, update_rule, delete_rule publish nothing: a lead is routed *)
(* by the new rules at its next event.                                     *)
EditRules(to) ==
    /\ edits < MaxEdits
    /\ edits' = edits + 1
    /\ rules' = to
    /\ outdated' = born
    /\ UNCHANGED <<lead, evaluated, jobs, worker, caller, born, torn,
                   unannounced, patches, mishaps>>

CreateRule(i, r) == i \notin DOMAIN rules /\ EditRules(With(rules, i, r))

UpdateRule(i, r) ==
    i \in DOMAIN rules /\ r # rules[i] /\ EditRules(With(rules, i, r))

DeleteRule(i) == i \in DOMAIN rules /\ EditRules(Without(rules, i))

-----------------------------------------------------------------------------
(* The worker.                                                             *)

(* An idle worker receives job j, another one having it only after an      *)
(* early timeout, and evaluate_and_apply reads the lead.                   *)
ReadLead(w, j) ==
    LET l == jobs[j].lead IN
    /\ worker[w] = Idle
    /\ jobs[j].state = "queued"
    /\ IF Held(j) THEN Fault ELSE UNCHANGED mishaps
    /\ jobs' = [jobs EXCEPT ![j].receives = @ + 1]
    /\ Set(w, IF l \in DOMAIN lead
              THEN Evaluation("rules", j, lead[l], lead[l], <<>>, evaluated[l])
              ELSE [pc |-> "ack", job |-> j])
    /\ UNCHANGED <<lead, rules, evaluated, caller, born, torn, outdated,
                   unannounced, patches, edits>>

(* The enabled rules are read, and the decision is applied in memory.      *)
ReadRules(w) ==
    LET t == worker[w] IN
    /\ t.pc = "rules"
    /\ Set(w, Evaluation("commit", t.job, t.row,
                         ApplyDecision(t.row, EvaluateRouting(t.row, rules)),
                         rules, t.n))
    /\ UNCHANGED <<lead, rules, evaluated, jobs, caller, born, torn, outdated,
                   unannounced, patches, edits, mishaps>>

Changed(w) == {f \in Columns : worker[w].after[f] # worker[w].row[f]}

(* The commit is refused: the lead is gone, or the table does not take     *)
(* what was assigned.                                                      *)
Refused(w) ==
    \/ Target(w) \notin DOMAIN lead
    \/ \E f \in Changed(w) : worker[w].after[f] \notin Admitted[f] \cup {None}

(* Another evaluation, or a write of the columns, since the row was read.  *)
Overlapped(w) ==
    \/ evaluated[Target(w)] # worker[w].n
    \/ \E f \in Columns : lead[Target(w)][f] # worker[w].row[f]

(* Mutant: the timeline event is not added.                                *)
LoggedNot(l) == evaluated

Logged(l) == [evaluated EXCEPT ![l] = @ + 1]

CommitRouting(w) ==
    LET t == worker[w]
        l == Target(w)
        d == EvaluateRouting(t.row, t.rules)
    IN
    /\ t.pc = "commit"
    /\ ~Refused(w)
    /\ lead' = [lead EXCEPT ![l] = [f \in DOMAIN lead[l] |->
                   IF f \in Changed(w) THEN t.after[f] ELSE lead[l][f]]]
    /\ evaluated' = Logged(l)
    /\ torn' = IF Overlapped(w) THEN torn \cup {l}
               ELSE IF d.action \in DOMAIN Assigns THEN torn \ {l} ELSE torn
    /\ outdated' = IF t.rules = rules THEN outdated \ {l} ELSE outdated \cup {l}
    /\ Set(w, [pc |-> "refresh", job |-> t.job])
    /\ UNCHANGED <<rules, jobs, caller, born, unannounced, patches, edits,
                   mishaps>>

(* The handler raises: at the last delivery the job goes to failed_jobs.   *)
Raise(w) ==
    LET j == worker[w].job IN
    /\ jobs' = IF jobs[j].receives >= MaxRetries /\ jobs[j].state = "queued"
               THEN [jobs EXCEPT ![j].state = "dead"] ELSE jobs
    /\ Set(w, Idle)
    /\ UNCHANGED <<lead, rules, evaluated, caller, born, torn, outdated,
                   unannounced, patches, edits>>

CommitRefused(w) ==
    /\ worker[w].pc = "commit"
    /\ Refused(w)
    /\ Raise(w)
    /\ UNCHANGED mishaps

(* The refresh after the commit finds no row.                              *)
RefreshFails(w) ==
    /\ worker[w].pc = "refresh"
    /\ Target(w) \notin DOMAIN lead
    /\ Raise(w)
    /\ UNCHANGED mishaps

(* A lost database connection, at any point of the handler.                *)
HandlerFails(w) ==
    /\ worker[w].pc \notin {"idle", "ack"}
    /\ Fault
    /\ Raise(w)

Drop(w) ==
    /\ Set(w, Idle)
    /\ UNCHANGED <<lead, rules, evaluated, caller, born, torn, outdated,
                   unannounced, patches, edits>>

(* The handler returns, its refresh having found the row if it had         *)
(* committed, and the worker calls delete_message.                         *)
Acknowledge(w) ==
    LET j == worker[w].job IN
    /\ \/ worker[w].pc = "ack"
       \/ worker[w].pc = "refresh" /\ Target(w) \in DOMAIN lead
    /\ jobs' = IF jobs[j].state = "queued"
               THEN [jobs EXCEPT ![j].state = "deleted"] ELSE jobs
    /\ Drop(w)
    /\ UNCHANGED mishaps

(* The worker dies, or its delete_message fails: the job stays queued.     *)
Crash(w) == worker[w].pc # "idle" /\ Fault /\ Drop(w) /\ UNCHANGED jobs

-----------------------------------------------------------------------------
ApiStep ==
    \/ \E l \in Leads : CreateLead(l) \/ ReadForUpdate(l) \/ DeleteLead(l)
    \/ CommitUpdate \/ UpdateStale \/ Publish \/ PublishDies
    \/ \E i \in RuleIds, r \in RuleBodies : CreateRule(i, r) \/ UpdateRule(i, r)
    \/ \E i \in RuleIds : DeleteRule(i)

WorkerStep(w) ==
    \/ \E j \in JobIds : ReadLead(w, j)
    \/ ReadRules(w) \/ CommitRouting(w) \/ CommitRefused(w)
    \/ RefreshFails(w) \/ Acknowledge(w)

Next ==
    \/ ApiStep
    \/ \E w \in Workers : WorkerStep(w) \/ HandlerFails(w) \/ Crash(w)

Spec == Init /\ [][Next]_vars

-----------------------------------------------------------------------------
Bodies == RuleBodies \cup {InitialRules[i] : i \in DOMAIN InitialRules}
Values == {InitialLead[f] : f \in DOMAIN InitialLead}
          \cup {p.value : p \in Patches} \cup {r.target : r \in Bodies}
          \cup {None}
Rows   == [DOMAIN InitialLead -> Values]

(* The types; only leads with an id have rows, jobs or history.            *)
TypeOK ==
    /\ DOMAIN lead \subseteq born /\ born \subseteq Leads
    /\ lead \in [DOMAIN lead -> Rows]
    /\ DOMAIN rules \subseteq RuleIds
    /\ evaluated \in [Leads -> Nat]
    /\ \A j \in JobIds : jobs[j] \in [lead : born, receives : Nat,
                             state : {"queued", "dead", "deleted"}]
    /\ \A w \in Workers : worker[w].job \in {0} \cup JobIds
    /\ caller.pc \in {"idle", "update", "publish"}
    /\ torn \cup outdated \cup unannounced \subseteq born

(* The code sorts and takes the first match.  The decision is what the     *)
(* docs promise whatever the order of ids: it comes from an enabled rule   *)
(* that matches, no matching rule has a larger priority, and without a     *)
(* match there is none.                                                    *)
DecisionIsBest ==
    \A l \in DOMAIN lead :
        LET d     == EvaluateRouting(lead[l], rules)
            match == {i \in DOMAIN rules :
                          rules[i].enabled /\ RuleMatches(lead[l], rules[i])}
        IN  IF match = {} THEN d = NoDecision
            ELSE \E i \in match :
                    /\ d = [action |-> rules[i].action, target |-> rules[i].target]
                    /\ \A k \in match : rules[k].priority <= rules[i].priority

(* A lead has at most one of owner, team and queue, although an evaluation *)
(* writes only the columns it changed: two of them are set only after      *)
(* evaluations that overlapped or a write by hand, and the next evaluation *)
(* that runs alone repairs it.                                             *)
OneAssignment ==
    \A l \in DOMAIN lead \ torn :
        Cardinality({f \in Columns : lead[l][f] # None}) <= 1

Settled(l) ==
    /\ caller = Quiet
    /\ \A j \in JobIds : jobs[j].lead = l => jobs[j].state = "deleted"
    /\ \A w \in Workers : worker[w].pc = "idle"
    /\ l \notin torn \cup outdated \cup unannounced

(* Once the jobs of a lead are done, it is assigned as the rules say for   *)
(* what the lead is now, also when it changed while it was being           *)
(* evaluated: unless evaluations of it overlapped, the rules changed since *)
(* or an event was lost.  (For rules that do not read the assignment.)     *)
ReadsFactsOnly ==
    \A i \in DOMAIN rules : \A c \in rules[i].conditions : c.field \notin Columns

RoutedAsRulesSay ==
    ReadsFactsOnly =>
        \A l \in DOMAIN lead : Settled(l) =>
            lead[l] = ApplyDecision(lead[l], EvaluateRouting(lead[l], rules))

Done(l)      == Cardinality({j \in JobIds : jobs[j].lead = l
                                            /\ jobs[j].state = "deleted"})
Finishing(l) == Cardinality({w \in Workers : worker[w].pc = "refresh"
                                             /\ Target(w) = l})

(* Each routing job leaves one evaluation in the timeline of its lead; a   *)
(* second one only after a crash, a failure or an early timeout.           *)
EvaluatedPerJob ==
    \A l \in DOMAIN lead :
        /\ Done(l) <= evaluated[l]
        /\ evaluated[l] <= Done(l) + Finishing(l) + mishaps
=============================================================================
