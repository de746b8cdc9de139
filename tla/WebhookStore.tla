---------------------------- MODULE WebhookStore ----------------------------
(***************************************************************************)
(* Inbound webhooks of Svix and HubSpot: the idempotency records in        *)
(* webhook_events (app/api/webhooks.py, app/services/webhook_service.py,   *)
(* WebhookEventRepository) under providers that deliver at least once and  *)
(* retry what was not answered with 200.                                   *)
(*                                                                         *)
(* Only deliveries with a valid signature are here; the others are         *)
(* answered before the database is touched.  Transactions are at READ      *)
(* COMMITTED: a lookup sees the committed rows and the call's own ones.    *)
(***************************************************************************)
EXTENDS Naturals, Sequences

CONSTANTS
    Calls,       \* requests the API handles at a time
    Events,      \* the items providers send
    KeyOf,       \* item -> its (tenant, provider, source_event_id)
    WithoutId,   \* items with neither eventId nor id, known as "unknown"
    Malformed,   \* items of a batch that are not JSON objects
    Refused,     \* items the table cannot hold (a tenant, an id or a type
                 \*    longer than its column)
    Svix,        \* deliveries of Svix, one item each: a set of <<item>>
    HubSpot,     \* deliveries of HubSpot: a set of sequences of items
    MaxFaults    \* bound: requests that die

ASSUME ConstantsOK ==
    /\ DOMAIN KeyOf = Events
    /\ WithoutId \subseteq Events /\ Malformed \subseteq Events
    /\ Refused \subseteq Events
    /\ \A e, f \in Events :                \* a provider's ids are its own
           KeyOf[e] = KeyOf[f] => e = f \/ {e, f} \subseteq WithoutId
    /\ HubSpot \subseteq Seq(Events)
    /\ \A d \in Svix : \E e \in Events \ Malformed : d = <<e>>
    /\ MaxFaults \in Nat

VARIABLES
    rows,     \* webhook_events in commit order: [key, item, status, attempts,
              \*   saw], item being the payload and saw (history) how many rows
              \*   its last lookup could see
    call,     \* per request: where it is and the rows of its transaction
    acked,    \* deliveries the provider has a 200 answer for
    faults

vars == <<rows, call, acked, faults>>

-----------------------------------------------------------------------------
Deliveries == Svix \cup HubSpot
Keys       == {KeyOf[e] : e \in Events}
Idle       == [pc |-> "idle"]

(* The positions of delivery d from k on that are stored; items that are   *)
(* no objects are passed over.                                             *)
Positions(d, k) == {n \in k..Len(d) : d[n] \notin Malformed}

(* A call at item i of delivery d, with the rows it has inserted.          *)
Handling(pc, d, i, own) == [pc |-> pc, d |-> d, i |-> i, own |-> own]

Set(c, r) == call' = [call EXCEPT ![c] = r]
Item(c)   == call[c].d[call[c].i]
Key(c)    == KeyOf[Item(c)]

(* What a statement of the call sees.  Mutant: only its own rows.          *)
VisibleOwn(c) == call[c].own

Visible(c) == rows \o call[c].own

(* get_by_source; scalar_one_or_none raises for more than one row.         *)
Found(c) == {n \in DOMAIN Visible(c) : Visible(c)[n].key = Key(c)}

Several(c) == \E a, b \in Found(c) : a # b

Received(e) == [key |-> KeyOf[e], item |-> e, status |-> "received",
                attempts |-> 0, saw |-> 0]

(* mark_processed on the row of the call.  Mutant: it counts no attempt.   *)
ProcessedNoAttempt(r, n) ==
    [key |-> r.key, item |-> r.item, status |-> "processed",
     attempts |-> r.attempts, saw |-> n]

Processed(r, n) == [key |-> r.key, item |-> r.item, status |-> "processed",
                    attempts |-> r.attempts + 1, saw |-> n]

(* The loop of the HubSpot handler goes on with the first object of d from *)
(* position k, or is over; Svix sends one item.                            *)
GoOn(c, d, k, own) ==
    \/ /\ Positions(d, k) = {}
       /\ Set(c, Handling("commit", d, Len(d) + 1, own))
    \/ \E n \in Positions(d, k) :
           /\ \A m \in Positions(d, k) : n <= m
           /\ Set(c, Handling("lookup", d, n, own))

-----------------------------------------------------------------------------
Init ==
    /\ rows = <<>>
    /\ call = [c \in Calls |-> Idle]
    /\ acked = {}
    /\ faults = 0

(* A provider sends d, for the first time or again.                        *)
Deliver(c, d) ==
    /\ call[c] = Idle
    /\ GoOn(c, d, 1, <<>>)
    /\ UNCHANGED <<rows, acked, faults>>

(* Mutant: a delivery that was seen before is refused.                     *)
DuplicateRefused(c) ==
    /\ call[c].pc = "lookup"
    /\ Found(c) # {} /\ ~Several(c)
    /\ Set(c, Idle)
    /\ UNCHANGED <<rows, acked, faults>>

(* ensure_idempotent finds the record.  A duplicate Svix message is        *)
(* answered with its status; HubSpot's next item is looked at.             *)
Duplicate(c) ==
    /\ call[c].pc = "lookup"
    /\ Found(c) # {} /\ ~Several(c)
    /\ IF call[c].d \in Svix
       THEN acked' = acked \cup {call[c].d} /\ Set(c, Idle)
       ELSE UNCHANGED acked /\ GoOn(c, call[c].d, call[c].i + 1, call[c].own)
    /\ UNCHANGED <<rows, faults>>

(* It finds none and inserts one, which nobody else sees yet.              *)
Insert(c) ==
    /\ call[c].pc = "lookup"
    /\ Found(c) = {} /\ Item(c) \notin Refused
    /\ Set(c, Handling("mark", call[c].d, call[c].i,
                       Append(call[c].own, Received(Item(c)))))
    /\ UNCHANGED <<rows, acked, faults>>

(* The flush of the insert is refused: 500, and the whole batch is rolled  *)
(* back.                                                                   *)
InsertRefused(c) ==
    /\ call[c].pc = "lookup"
    /\ Found(c) = {} /\ Item(c) \in Refused
    /\ Set(c, Idle)
    /\ UNCHANGED <<rows, acked, faults>>

(* mark_processed looks the row up again and updates it.                   *)
MarkProcessed(c) ==
    LET own == call[c].own IN
    /\ call[c].pc = "mark"
    /\ ~Several(c)
    /\ GoOn(c, call[c].d, call[c].i + 1,
            [own EXCEPT ![Len(own)] = Processed(@, Len(rows))])
    /\ UNCHANGED <<rows, acked, faults>>

(* The lookup of ensure_idempotent or of mark_processed finds two rows and *)
(* raises.  So does the one of mark_failed, by which the Svix handler      *)
(* would record the failure: 500, and everything is rolled back.           *)
FindsSeveral(c) ==
    /\ call[c].pc \in {"lookup", "mark"}
    /\ Several(c)
    /\ Set(c, Idle)
    /\ UNCHANGED <<rows, acked, faults>>

(* Mutant: every item is committed when it is done.                        *)
CommitEarly(c) ==
    /\ call[c].pc \in {"lookup", "commit"}
    /\ rows' = rows \o call[c].own
    /\ IF call[c].pc = "commit"
       THEN acked' = acked \cup {call[c].d} /\ Set(c, Idle)
       ELSE UNCHANGED acked
            /\ Set(c, Handling("lookup", call[c].d, call[c].i, <<>>))
    /\ UNCHANGED faults

(* Mutant: the answer is sent, and the transaction is not committed.       *)
CommitForgotten(c) ==
    /\ call[c].pc = "commit"
    /\ acked' = acked \cup {call[c].d}
    /\ Set(c, Idle)
    /\ UNCHANGED <<rows, faults>>

Commit(c) ==
    /\ call[c].pc = "commit"
    /\ rows' = rows \o call[c].own
    /\ acked' = acked \cup {call[c].d}
    /\ Set(c, Idle)
    /\ UNCHANGED faults

(* The request dies, or the database fails: rolled back, and no 200.       *)
Die(c) ==
    /\ call[c] # Idle
    /\ faults < MaxFaults
    /\ faults' = faults + 1
    /\ Set(c, Idle)
    /\ UNCHANGED <<rows, acked>>

(* It dies after its commit: the provider does not get the answer.         *)
AnswerLost(c) ==
    /\ call[c].pc = "commit"
    /\ faults < MaxFaults
    /\ faults' = faults + 1
    /\ rows' = rows \o call[c].own
    /\ Set(c, Idle)
    /\ UNCHANGED acked

-----------------------------------------------------------------------------
Proceed(c) ==
    \/ Duplicate(c) \/ Insert(c) \/ InsertRefused(c) \/ MarkProcessed(c)
    \/ FindsSeveral(c) \/ Commit(c)

Next ==
    \E c \in Calls :
        \/ \E d \in Deliveries : Deliver(c, d)
        \/ Proceed(c) \/ Die(c) \/ AnswerLost(c)

Spec == Init /\ [][Next]_vars

(* A request that is being handled goes on, and a provider sends again     *)
(* what was not answered, however busy the API is with other deliveries.   *)
Retry(d) == d \notin acked /\ \E c \in Calls : Deliver(c, d)

FairSpec ==
    /\ Spec
    /\ \A c \in Calls : WF_vars(Proceed(c))
    /\ \A d \in Deliveries : SF_vars(Retry(d))

-----------------------------------------------------------------------------
Row == {r \in [key : Keys, item : Events, status : {"received", "processed"},
                attempts : Nat, saw : Nat] : r.key = KeyOf[r.item]}

(* The types; every committed record was processed, and once.              *)
TypeOK ==
    /\ \A n \in DOMAIN rows : /\ rows[n] \in Row
                              /\ rows[n].status = "processed"
                              /\ rows[n].attempts = 1 /\ rows[n].saw < n
    /\ \A c \in Calls :
           \/ call[c] = Idle
           \/ /\ call[c].pc \in {"lookup", "mark", "commit"}
              /\ call[c].d \in Deliveries
              /\ call[c].own \in Seq(Row)
    /\ acked \subseteq Deliveries
    /\ faults \in 0..MaxFaults

Recorded(key) == \E n \in DOMAIN rows : rows[n].key = key
Stored(e)     == \E n \in DOMAIN rows : rows[n].item = e

StoredKeys(d) == {KeyOf[d[n]] : n \in Positions(d, 1)}

(* A provider that has its 200 will not send again.  Each item it sent     *)
(* with an id is in the table then, the item itself and not another one    *)
(* under its key, also where the answer came from a duplicate; of the      *)
(* items without an id the table is only sure to have some item.           *)
AnsweredIsRecorded ==
    \A d \in acked : \A n \in Positions(d, 1) :
        IF d[n] \in WithoutId THEN Recorded(KeyOf[d[n]]) ELSE Stored(d[n])

(* Two rows have one key only if each was looked up twice, by              *)
(* ensure_idempotent and by mark_processed, before the other was           *)
(* committed: the second lookup narrows the race, no constraint closes it. *)
DuplicateRowsOnlyFromRaces ==
    \A n, m \in DOMAIN rows :
        n < m /\ rows[n].key = rows[m].key => rows[m].saw < n

(* The records of a HubSpot batch appear in one step: after a commit there *)
(* is a record of each of its items.                                       *)
BatchAtomic ==
    [][\A c \in Calls :
           call[c] # call'[c] /\ rows' # rows =>
               \A key \in StoredKeys(call[c].d) : Recorded(key)']_vars

(* Retries end: every delivery is answered with 200 in the end, unless a   *)
(* race has stored one of its keys twice (after which it never can be), or *)
(* the table cannot hold one of its items (for which it is sent for ever). *)
Poisoned(d) ==
    \E n, m \in DOMAIN rows :
        n # m /\ rows[n].key = rows[m].key /\ rows[n].key \in StoredKeys(d)

Unstorable(d) == \E n \in Positions(d, 1) : d[n] \in Refused

RetriesEnd ==
    \A d \in Deliveries : ~Unstorable(d) => <>(d \in acked \/ Poisoned(d))
=============================================================================
