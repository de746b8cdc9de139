----------------------------- MODULE LeadIntake -----------------------------
(***************************************************************************)
(* Lead creation, update and deletion through the API for one tenant:      *)
(* LeadService (app/services/lead_service.py) with the plan limit, the     *)
(* duplicate lookup, today's usage record and the lifecycle events.        *)
(* Every call runs in a transaction of its own at READ COMMITTED, so a     *)
(* statement sees what the other calls have committed before it, and each  *)
(* await in the code is a point where they interleave.                     *)
(***************************************************************************)
EXTENDS Naturals, Sequences, FiniteSets

CONSTANTS
    Clients,      \* API calls that can be in progress at a time
    RawEmails,    \* email values of requests
    RawPhones,
    Lowered,      \* RawEmails -> strip().lower() of it, maybe ""
    Digits,       \* RawPhones -> its digits and plus signs, maybe ""
    None,         \* null
    Absent,       \* a field that is not in the body of a PATCH
    MaxLeads,     \* max_leads of the tenant's plan
    MaxCreated,   \* bound: leads ever inserted
    MaxUpdates,   \* bound: PATCH calls
    MaxFaults     \* bound: calls that die

ASSUME ConstantsOK ==
    /\ IsFiniteSet(Clients) /\ Clients # {}
    /\ MaxLeads \in Nat \ {0} /\ MaxCreated \in Nat

VARIABLES
    leads,      \* committed rows: id -> [email, phone]
    usage,      \* today's usage_records row: [row, created]
    client,     \* per call: where it is and what it holds
    published,  \* messages accepted by SQS: [lead, queue] -> how many
    inserted,   \* how many ids were handed out
    changes,    \* history: per id, commits of create_lead and update_lead
    seen,       \* history: per id, the ids its duplicate lookup could see
    edited,     \* history: the ids whose email or phone was updated
    updates,    \* history: PATCH calls so far
    lost        \* history: calls that died

vars == <<leads, usage, client, published, inserted, changes, seen, edited,
          updates, lost>>

-----------------------------------------------------------------------------
Ids     == 1..MaxCreated
Queues  == <<"routing_jobs", "integration_jobs", "sequence_jobs">>
Idle    == [pc |-> "idle"]
NoUsage == [row |-> FALSE, created |-> 0]

Truthy(v) == v \notin {None, ""}

NormalizeEmail(e) == IF Truthy(e) THEN Lowered[e] ELSE None

NormalizePhone(p) ==
    IF Truthy(p) /\ Digits[p] # "" THEN Digits[p] ELSE None

(* Mutant: both have to match.                                             *)
DuplicatesBoth(a, b) ==
    Truthy(a.email) /\ a.email = b.email /\ a.phone = b.phone

(* find_duplicate_by_email_or_phone: either may match, blanks never do.    *)
Duplicates(a, b) ==
    \/ Truthy(a.email) /\ a.email = b.email
    \/ Truthy(a.phone) /\ a.phone = b.phone

Set(c, r) == client' = [client EXCEPT ![c] = r]
Pc(c)     == client[c].pc

(* A create_lead call before its commit, with what it has read.            *)
Creating(pc, contact, sees, u) ==
    [pc |-> pc, contact |-> contact, sees |-> sees, usage |-> u]

(* A call that has committed and publishes: next is a position of Queues.  *)
Announcing(id, next) == [pc |-> "publish", id |-> id, next |-> next]

-----------------------------------------------------------------------------
Init ==
    /\ leads = [id \in {} |-> None]
    /\ usage = NoUsage
    /\ client = [c \in Clients |-> Idle]
    /\ published = [id \in Ids |-> [k \in DOMAIN Queues |-> 0]]
    /\ inserted = 0
    /\ changes = [id \in Ids |-> 0]
    /\ seen = [id \in Ids |-> {}]
    /\ edited = {}
    /\ updates = 0
    /\ lost = 0

-----------------------------------------------------------------------------
(* create_lead.                                                            *)

(* Mutant of WithinLimit: an off-by-one in the comparison.                 *)
WithinLimitOffByOne == Cardinality(DOMAIN leads) <= MaxLeads

(* enforce_lead_creation_limit counts the committed leads: 429 when full,  *)
(* which changes nothing.                                                  *)
WithinLimit == Cardinality(DOMAIN leads) < MaxLeads

InFlight == {c \in Clients : Pc(c) \in {"lookup", "usage", "record", "commit"}}

EnforceLimit(c) ==
    /\ Pc(c) = "idle"
    /\ inserted + Cardinality(InFlight) < MaxCreated
    /\ WithinLimit
    /\ \E e \in RawEmails \cup {None}, p \in RawPhones \cup {None} :
           Set(c, Creating("lookup",
                      [email |-> NormalizeEmail(e), phone |-> NormalizePhone(p)],
                      {}, NoUsage))
    /\ UNCHANGED <<leads, usage, published, inserted, changes, seen, edited,
                   updates, lost>>

(* A duplicate is returned to the caller, without any write.               *)
LookupFinds(c) ==
    /\ Pc(c) = "lookup"
    /\ \E id \in DOMAIN leads : Duplicates(leads[id], client[c].contact)
    /\ Set(c, Idle)
    /\ UNCHANGED <<leads, usage, published, inserted, changes, seen, edited,
                   updates, lost>>

LookupEmpty(c) ==
    /\ Pc(c) = "lookup"
    /\ \A id \in DOMAIN leads : ~Duplicates(leads[id], client[c].contact)
    /\ Set(c, Creating("usage", client[c].contact, DOMAIN leads, NoUsage))
    /\ UNCHANGED <<leads, usage, published, inserted, changes, seen, edited,
                   updates, lost>>

(* The lead and its timeline entry are inserted, which nobody sees yet,    *)
(* and UsageTrackingService.increment reads today's row.                   *)
ReadUsage(c) ==
    /\ Pc(c) = "usage"
    /\ Set(c, Creating(IF usage.row THEN "commit" ELSE "record",
                       client[c].contact, client[c].sees, usage))
    /\ UNCHANGED <<leads, usage, published, inserted, changes, seen, edited,
                   updates, lost>>

(* Mutant: it also waits for a call that is about to insert the row.       *)
RowPendingSoon(c) ==
    \E d \in Clients \ {c} :
        Pc(d) \in {"record", "commit"} /\ ~client[d].usage.row

(* Without a row it inserts one; the unique (tenant_id, record_date) makes *)
(* it wait for another call that has inserted it, and raises IntegrityError *)
(* once that has committed.                                                *)
RowPending(c) ==
    \E d \in Clients \ {c} : Pc(d) = "commit" /\ ~client[d].usage.row

InsertUsage(c) ==
    /\ Pc(c) = "record"
    /\ ~usage.row /\ ~RowPending(c)
    /\ Set(c, Creating("commit", client[c].contact, client[c].sees,
                       client[c].usage))
    /\ UNCHANGED <<leads, usage, published, inserted, changes, seen, edited,
                   updates, lost>>

UsageConflict(c) ==
    /\ Pc(c) = "record"
    /\ usage.row
    /\ Set(c, Idle)
    /\ UNCHANGED <<leads, usage, published, inserted, changes, seen, edited,
                   updates, lost>>

(* The commit; increment has computed the counter from the row it read.    *)
CommitCreate(c) ==
    LET id == inserted + 1 IN
    /\ Pc(c) = "commit"
    /\ inserted' = id
    /\ leads' = [i \in DOMAIN leads \cup {id} |->
                    IF i = id THEN client[c].contact ELSE leads[i]]
    /\ usage' = [row |-> TRUE, created |-> client[c].usage.created + 1]
    /\ changes' = [changes EXCEPT ![id] = @ + 1]
    /\ seen' = [seen EXCEPT ![id] = client[c].sees]
    /\ Set(c, Announcing(id, 1))
    /\ UNCHANGED <<published, edited, updates, lost>>

-----------------------------------------------------------------------------
(* A value equal to the one that was read is not written.                  *)
NetChange(new, old) == IF new = old THEN Absent ELSE new

(* update_lead: the row is read, then the columns that change are written  *)
(* and committed.  No limit and no duplicate lookup.                       *)
ReadForUpdate(c) ==
    /\ Pc(c) = "idle"
    /\ updates < MaxUpdates
    /\ updates' = updates + 1
    /\ \E id \in DOMAIN leads, e \in RawEmails \cup {None, Absent},
          p \in RawPhones \cup {None, Absent} :
           Set(c, [pc |-> "update", id |-> id,
                   email |-> IF e = Absent THEN Absent
                             ELSE NetChange(NormalizeEmail(e), leads[id].email),
                   phone |-> IF p = Absent THEN Absent
                             ELSE NetChange(NormalizePhone(p), leads[id].phone)])
    /\ UNCHANGED <<leads, usage, published, inserted, changes, seen, edited,
                   lost>>

Written(new, old) == IF new = Absent THEN old ELSE new

CommitUpdate(c) ==
    LET u == client[c] IN
    /\ Pc(c) = "update"
    /\ u.id \in DOMAIN leads
    /\ leads' = [leads EXCEPT ![u.id] =
                    [email |-> Written(u.email, leads[u.id].email),
                     phone |-> Written(u.phone, leads[u.id].phone)]]
    /\ changes' = [changes EXCEPT ![u.id] = @ + 1]
    /\ edited' = edited \cup {u.id}
    /\ Set(c, Announcing(u.id, 1))
    /\ UNCHANGED <<usage, published, inserted, seen, updates, lost>>

(* Deleted meanwhile: the UPDATE matches no row and raises.                *)
UpdateStale(c) ==
    /\ Pc(c) = "update"
    /\ client[c].id \notin DOMAIN leads
    /\ Set(c, Idle)
    /\ UNCHANGED <<leads, usage, published, inserted, changes, seen, edited,
                   updates, lost>>

(* delete_lead publishes nothing.                                          *)
DeleteLead(id) ==
    /\ id \in DOMAIN leads
    /\ leads' = [i \in DOMAIN leads \ {id} |-> leads[i]]
    /\ UNCHANGED <<usage, client, published, inserted, changes, seen, edited,
                   updates, lost>>

-----------------------------------------------------------------------------
(* Mutants: one publish too many; the last of the three publishes is left  *)
(* out.                                                                    *)
AfterPublishOn(id, k) == Announcing(id, k + 1)

AfterPublishTwo(id, k) == IF k >= 2 THEN Idle ELSE Announcing(id, k + 1)

AfterPublish(id, k) ==
    IF k = Len(Queues) THEN Idle ELSE Announcing(id, k + 1)

(* _publish_lifecycle, one send_message at a time.                         *)
PublishLifecycle(c) ==
    LET id == client[c].id
        k  == client[c].next
    IN
    /\ Pc(c) = "publish"
    /\ published' = [published EXCEPT ![id][k] = @ + 1]
    /\ Set(c, AfterPublish(id, k))
    /\ UNCHANGED <<leads, usage, inserted, changes, seen, edited, updates, lost>>

(* The process dies, or the database or SQS fails: the open transaction is *)
(* rolled back, a committed one stays.                                     *)
Die(c) ==
    /\ Pc(c) # "idle"
    /\ lost < MaxFaults
    /\ lost' = lost + 1
    /\ Set(c, Idle)
    /\ UNCHANGED <<leads, usage, published, inserted, changes, seen, edited,
                   updates>>

-----------------------------------------------------------------------------
Proceed(c) ==
    \/ LookupFinds(c) \/ LookupEmpty(c) \/ ReadUsage(c)
    \/ InsertUsage(c) \/ UsageConflict(c) \/ CommitCreate(c)
    \/ CommitUpdate(c) \/ UpdateStale(c)
    \/ PublishLifecycle(c)

Next ==
    \/ \E c \in Clients :
           EnforceLimit(c) \/ ReadForUpdate(c) \/ Proceed(c) \/ Die(c)
    \/ \E id \in Ids : DeleteLead(id)

Spec == Init /\ [][Next]_vars

-----------------------------------------------------------------------------
Emails  == {None} \cup {Lowered[e] : e \in RawEmails}
Phones  == {None} \cup {Digits[p] : p \in RawPhones}
Contact == [email : Emails, phone : Phones]
Usage   == [row : BOOLEAN, created : Nat]

CreateRecord ==
    [pc : {"lookup", "usage", "record", "commit"}, contact : Contact,
     sees : SUBSET Ids, usage : Usage]
UpdateRecord ==
    [pc : {"update"}, id : 1..inserted, email : Emails \cup {Absent},
     phone : Phones \cup {Absent}]
PublishRecord == [pc : {"publish"}, id : 1..inserted, next : DOMAIN Queues]

(* The types.  Rows have ids that were handed out.                         *)
TypeOK ==
    /\ DOMAIN leads \subseteq 1..inserted
    /\ leads \in [DOMAIN leads -> Contact]
    /\ usage \in Usage
    /\ client \in [Clients ->
           {Idle} \cup CreateRecord \cup UpdateRecord \cup PublishRecord]
    /\ published \in [Ids -> [DOMAIN Queues -> Nat]]
    /\ inserted \in 0..MaxCreated
    /\ changes \in [Ids -> Nat]
    /\ seen \in [Ids -> SUBSET Ids]
    /\ edited \subseteq 1..inserted
    /\ updates \in Nat /\ lost \in Nat

(* The plan limit is checked before the insert and not again: every call   *)
(* in progress but one may exceed it by a lead, and no more than that.     *)
OvershootBounded ==
    Cardinality(DOMAIN leads) + 1 <= MaxLeads + Cardinality(Clients)

(* What a duplicate is found by: the filled columns with their values.     *)
Keys(a) == {<<f, a[f]>> : f \in {g \in {"email", "phone"} : Truthy(a[g])}}

(* Two leads share an email or a phone only if an update gave it to one of *)
(* them, or each was created after the other's lookup: find_duplicate      *)
(* misses nothing that was committed when it looked.                       *)
DuplicatesOnlyFromRaces ==
    \A a, b \in DOMAIN leads \ edited :
        a # b /\ Keys(leads[a]) \cap Keys(leads[b]) # {}
            => a \notin seen[b] /\ b \notin seen[a]

(* The committed changes of a lead and its lifecycle events, per queue: an *)
(* event is never sent for a change that is not committed, and a change    *)
(* lacks its event only while its call still publishes, or for a call that *)
(* died.                                                                   *)
StillToSend(id, k) ==
    {c \in Clients : /\ Pc(c) = "publish" /\ client[c].id = id
                     /\ client[c].next <= k}

ChangesAnnounced ==
    \A id \in Ids, k \in DOMAIN Queues :
        LET known == published[id][k] + Cardinality(StillToSend(id, k)) IN
        known <= changes[id] /\ changes[id] <= known + lost

(* The calls do not wait for each other in a circle: while one is in       *)
(* progress, some call can go on (it waits only for another's usage row).  *)
NoCallStuck ==
    (\E c \in Clients : Pc(c) # "idle") => \E c \in Clients : ENABLED Proceed(c)

(* "Deduplicates by normalized email or phone within the tenant."          *)
(* (docs/api-reference.md:210)                                             *)
Deduplicated ==
    \A a, b \in DOMAIN leads :
        a # b => Keys(leads[a]) \cap Keys(leads[b]) = {}
=============================================================================
