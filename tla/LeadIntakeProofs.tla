-------------------------- MODULE LeadIntakeProofs --------------------------
(***************************************************************************)
(* LeadIntake for any limit, any number of calls and any contacts: the     *)
(* plan limit is overshot by less than one lead per concurrent call,       *)
(* duplicates come from races or edits only, and every committed change is *)
(* announced on each lifecycle queue.                                      *)
(***************************************************************************)
EXTENDS LeadIntake, FiniteSetTheorems, TLAPS

(* The strengthening: the leads and the calls past the limit check fit     *)
(* together, so the bound survives the commits of those calls.             *)
Booked ==
    Cardinality(DOMAIN leads) + Cardinality(InFlight) + 1
        <= MaxLeads + Cardinality(Clients)

LimitInv ==
    /\ DOMAIN client = Clients
    /\ IsFiniteSet(DOMAIN leads)
    /\ Booked

Past == {"lookup", "usage", "record", "commit"}

-----------------------------------------------------------------------------
(* Cardinalities are numbers, and a call that is not in flight is left out *)
(* of InFlight.                                                            *)
LEMMA InFlightFinite ==
    /\ IsFiniteSet(InFlight) /\ Cardinality(InFlight) \in Nat
    /\ Cardinality(Clients) \in Nat
    /\ Cardinality(InFlight) <= Cardinality(Clients)
    /\ \A c \in Clients : c \notin InFlight =>
           Cardinality(InFlight) + 1 <= Cardinality(Clients)
<1>1. IsFiniteSet(Clients) /\ InFlight \subseteq Clients
  BY ConstantsOK DEF InFlight
<1>2. /\ IsFiniteSet(InFlight) /\ Cardinality(InFlight) \in Nat
      /\ Cardinality(Clients) \in Nat
      /\ Cardinality(InFlight) <= Cardinality(Clients)
  BY <1>1, FS_Subset, FS_CardinalityType
<1>3. ASSUME NEW c \in Clients, c \notin InFlight
      PROVE  Cardinality(InFlight) + 1 <= Cardinality(Clients)
  <2>1. InFlight # Clients
    BY <1>3
  <2>2. Cardinality(InFlight) # Cardinality(Clients)
    BY <1>1, <2>1, FS_Subset
  <2> QED  BY <1>2, <2>2
<1> QED  BY <1>2, <1>3

(* A step of one call that leaves it in flight, or outside, changes the    *)
(* count by what that call does.                                           *)
LEMMA OneCallMoves ==
    ASSUME NEW c \in Clients, NEW r, Set(c, r), DOMAIN client = Clients
    PROVE  /\ DOMAIN client' = Clients
           /\ InFlight' = IF r.pc \in Past THEN InFlight \cup {c}
                                           ELSE InFlight \ {c}
  BY DEF Set, InFlight, Pc, Past

(* A call that enters the critical section was not in it.                  *)
LEMMA Enters ==
    ASSUME LimitInv, NEW c \in Clients, EnforceLimit(c)
    PROVE  LimitInv'
<1>1. PICK e \in RawEmails \cup {None}, p \in RawPhones \cup {None} :
          Set(c, Creating("lookup",
                    [email |-> NormalizeEmail(e), phone |-> NormalizePhone(p)],
                    {}, NoUsage))
  BY DEF EnforceLimit
<1>2. DOMAIN client' = Clients /\ InFlight' = InFlight \cup {c}
  BY <1>1, OneCallMoves DEF LimitInv, Creating, Past
<1>3. c \notin InFlight
  BY DEF EnforceLimit, InFlight
<1>4. Cardinality(InFlight') = Cardinality(InFlight) + 1
  BY <1>2, <1>3, InFlightFinite, FS_AddElement
<1>5. Cardinality(InFlight) + 1 <= Cardinality(Clients)
  BY <1>3, InFlightFinite
<1>6. /\ leads' = leads
      /\ Cardinality(DOMAIN leads) + 1 <= MaxLeads
  <2>1. leads' = leads /\ Cardinality(DOMAIN leads) < MaxLeads
    BY DEF EnforceLimit, WithinLimit
  <2> QED  BY <2>1, FS_CardinalityType, ConstantsOK DEF LimitInv
<1>7. Cardinality(DOMAIN leads) \in Nat /\ MaxLeads \in Nat
  BY FS_CardinalityType, ConstantsOK DEF LimitInv
<1>8. Booked'
  <2>1. Cardinality(DOMAIN leads) + (Cardinality(InFlight) + 1) + 1
            <= MaxLeads + Cardinality(Clients)
    BY <1>5, <1>6, <1>7, InFlightFinite
  <2> QED  BY <2>1, <1>4, <1>6 DEF Booked
<1> QED  BY <1>2, <1>6, <1>8 DEF LimitInv

(* A call that goes on, or returns, without a commit books nothing more.   *)
LEMMA StaysOrLeaves ==
    ASSUME LimitInv, NEW c \in Clients, NEW r, Set(c, r),
           leads' = leads \/ DOMAIN leads' = DOMAIN leads,
           r.pc \in Past => c \in InFlight
    PROVE  LimitInv'
<1>1. DOMAIN client' = Clients /\ InFlight' \subseteq InFlight
  BY OneCallMoves DEF LimitInv
<1>2. Cardinality(InFlight') <= Cardinality(InFlight)
      /\ Cardinality(InFlight') \in Nat
  BY <1>1, InFlightFinite, FS_Subset, FS_CardinalityType
<1>3. DOMAIN leads' = DOMAIN leads
  OBVIOUS
<1>4. Cardinality(DOMAIN leads) \in Nat /\ MaxLeads \in Nat
  BY FS_CardinalityType, ConstantsOK DEF LimitInv
<1> QED  BY <1>1, <1>2, <1>3, <1>4, InFlightFinite DEF LimitInv, Booked

(* The commit turns a booked place into a lead.                            *)
LEMMA Commits ==
    ASSUME LimitInv, NEW c \in Clients, CommitCreate(c)
    PROVE  LimitInv'
<1>1. DOMAIN client' = Clients /\ InFlight' = InFlight \ {c}
  BY OneCallMoves DEF CommitCreate, Announcing, LimitInv, Past
<1>2. c \in InFlight
  BY DEF CommitCreate, InFlight
<1>3. Cardinality(InFlight') = Cardinality(InFlight) - 1
  BY <1>1, <1>2, InFlightFinite, FS_RemoveElement
<1>4. DOMAIN leads' = DOMAIN leads \cup {inserted + 1}
  BY DEF CommitCreate
<1>5. /\ IsFiniteSet(DOMAIN leads')
      /\ Cardinality(DOMAIN leads') <= Cardinality(DOMAIN leads) + 1
      /\ Cardinality(DOMAIN leads) \in Nat /\ Cardinality(DOMAIN leads') \in Nat
  <2> DEFINE rows == DOMAIN leads
             more == rows \cup {inserted + 1}
  <2>1. IsFiniteSet(rows)
    BY DEF LimitInv
  <2> HIDE DEF rows
  <2>2. /\ IsFiniteSet(more)
        /\ Cardinality(more) = Cardinality(rows)
           \/ Cardinality(more) = Cardinality(rows) + 1
        /\ Cardinality(rows) \in Nat
    BY <2>1, FS_AddElement, FS_CardinalityType
  <2>3. DOMAIN leads' = more
    BY <1>4 DEF rows
  <2> HIDE DEF more
  <2>4. /\ IsFiniteSet(more) /\ Cardinality(more) \in Nat
        /\ Cardinality(more) <= Cardinality(rows) + 1
    BY <2>2
  <2> QED  BY <2>2, <2>3, <2>4 DEF rows
<1>6. MaxLeads \in Nat
  BY ConstantsOK
<1> QED  BY <1>1, <1>3, <1>5, <1>6, InFlightFinite DEF LimitInv, Booked

(* A deleted lead frees a place.                                           *)
LEMMA Deletes ==
    ASSUME LimitInv, NEW id \in Ids, DeleteLead(id)
    PROVE  LimitInv'
<1>1. client' = client /\ InFlight' = InFlight
  BY DEF DeleteLead, InFlight, Pc
<1>2. DOMAIN leads' = DOMAIN leads \ {id}
  BY DEF DeleteLead
<1>3. /\ IsFiniteSet(DOMAIN leads')
      /\ Cardinality(DOMAIN leads') <= Cardinality(DOMAIN leads)
      /\ Cardinality(DOMAIN leads) \in Nat /\ Cardinality(DOMAIN leads') \in Nat
  BY <1>2, FS_Subset, FS_CardinalityType DEF LimitInv
<1>4. MaxLeads \in Nat
  BY ConstantsOK
<1> QED  BY <1>1, <1>3, <1>4, InFlightFinite DEF LimitInv, Booked

-----------------------------------------------------------------------------
LEMMA LimitInvInit == Init => LimitInv
<1> SUFFICES ASSUME Init PROVE LimitInv
  OBVIOUS
<1>1. DOMAIN client = Clients /\ DOMAIN leads = {}
  BY DEF Init
<1>2. InFlight = {}
  BY DEF Init, InFlight, Pc, Idle
<1>3. IsFiniteSet({}) /\ Cardinality({}) = 0
  BY FS_EmptySet
<1>4. Cardinality(Clients) \in Nat /\ Cardinality(Clients) # 0
  BY ConstantsOK, FS_CardinalityType, FS_EmptySet
<1> QED  BY <1>1, <1>2, <1>3, <1>4, ConstantsOK DEF LimitInv, Booked

LEMMA LimitInvStep == LimitInv /\ [Next]_vars => LimitInv'
<1> SUFFICES ASSUME LimitInv, [Next]_vars PROVE LimitInv'
  OBVIOUS
<1>1. ASSUME NEW c \in Clients, EnforceLimit(c) PROVE LimitInv'
  BY <1>1, Enters
<1>2. ASSUME NEW c \in Clients, ReadForUpdate(c) PROVE LimitInv'
  <2>1. PICK r : Set(c, r) /\ r.pc = "update"
    BY <1>2 DEF ReadForUpdate
  <2> QED  BY <1>2, <2>1, StaysOrLeaves DEF ReadForUpdate, Past
<1>3. ASSUME NEW c \in Clients, LookupFinds(c) PROVE LimitInv'
  BY <1>3, StaysOrLeaves DEF LookupFinds, Idle, Past
<1>4. ASSUME NEW c \in Clients, LookupEmpty(c) PROVE LimitInv'
  BY <1>4, StaysOrLeaves DEF LookupEmpty, InFlight
<1>5. ASSUME NEW c \in Clients, ReadUsage(c) PROVE LimitInv'
  BY <1>5, StaysOrLeaves DEF ReadUsage, InFlight
<1>6. ASSUME NEW c \in Clients, InsertUsage(c) PROVE LimitInv'
  BY <1>6, StaysOrLeaves DEF InsertUsage, InFlight
<1>7. ASSUME NEW c \in Clients, UsageConflict(c) PROVE LimitInv'
  BY <1>7, StaysOrLeaves DEF UsageConflict, Idle, Past
<1>8. ASSUME NEW c \in Clients, CommitCreate(c) PROVE LimitInv'
  BY <1>8, Commits
<1>9. ASSUME NEW c \in Clients, CommitUpdate(c) PROVE LimitInv'
  <2>1. DOMAIN leads' = DOMAIN leads /\ Set(c, Announcing(client[c].id, 1))
    BY <1>9 DEF CommitUpdate
  <2> QED  BY <2>1, StaysOrLeaves DEF Announcing, Past
<1>10. ASSUME NEW c \in Clients, UpdateStale(c) PROVE LimitInv'
  BY <1>10, StaysOrLeaves DEF UpdateStale, Idle, Past
<1>11. ASSUME NEW c \in Clients, PublishLifecycle(c) PROVE LimitInv'
  <2>1. PICK r : Set(c, r) /\ r.pc \in {"idle", "publish"}
    BY <1>11 DEF PublishLifecycle, AfterPublish, Idle, Announcing
  <2> QED  BY <1>11, <2>1, StaysOrLeaves DEF PublishLifecycle, Past
<1>12. ASSUME NEW c \in Clients, Die(c) PROVE LimitInv'
  BY <1>12, StaysOrLeaves DEF Die, Idle, Past
<1>13. ASSUME NEW id \in Ids, DeleteLead(id) PROVE LimitInv'
  BY <1>13, Deletes
<1>14. CASE UNCHANGED vars
  BY <1>14 DEF vars, LimitInv, Booked, InFlight, Pc
<1> QED
  BY <1>1, <1>2, <1>3, <1>4, <1>5, <1>6, <1>7, <1>8, <1>9, <1>10, <1>11,
     <1>12, <1>13, <1>14 DEF Next, Proceed

(* enforce_lead_creation_limit, checked once before the insert, lets a     *)
(* tenant exceed max_leads by at most the number of concurrent calls minus *)
(* one, whatever the limit is.                                             *)
THEOREM LimitOvershoot == Spec => []OvershootBounded
<1>1. LimitInv => OvershootBounded
  <2> SUFFICES ASSUME LimitInv PROVE OvershootBounded
    OBVIOUS
  <2>1. Cardinality(DOMAIN leads) \in Nat /\ MaxLeads \in Nat
    BY FS_CardinalityType, ConstantsOK DEF LimitInv
  <2> QED  BY <2>1, InFlightFinite DEF LimitInv, Booked, OvershootBounded
<1> QED  BY <1>1, LimitInvInit, LimitInvStep, PTL DEF Spec

-----------------------------------------------------------------------------
(***************************************************************************)
(* Types, duplicates and lifecycle events.                                 *)
(***************************************************************************)
ClientRecord == {Idle} \cup CreateRecord \cup UpdateRecord \cup PublishRecord

(* The calls past the limit check find an id when they commit.             *)
RoomLeft == inserted + Cardinality(InFlight) <= MaxCreated

(* The rows a call's lookup could see have, unless they were edited since, *)
(* no key of its contact.                                                  *)
Checked(r) ==
    /\ r.sees \subseteq 1..inserted
    /\ \A a \in r.sees \cap (DOMAIN leads \ edited) :
           Keys(leads[a]) \cap Keys(r.contact) = {}

Looked == {"usage", "record", "commit"}

IntakeInv ==
    /\ TypeOK
    /\ RoomLeft
    /\ \A id \in Ids : seen[id] \subseteq 1..inserted
    /\ \A c \in Clients : Pc(c) \in Looked => Checked(client[c])
    /\ DuplicatesOnlyFromRaces
    /\ ChangesAnnounced

(* The two columns a duplicate is found by.                                *)
LEMMA KeysMeet ==
    ASSUME NEW a \in Contact, NEW b \in Contact, ~Duplicates(a, b)
    PROVE  Keys(a) \cap Keys(b) = {}
<1> SUFFICES ASSUME NEW f \in {"email", "phone"}, NEW g \in {"email", "phone"},
                    Truthy(a[f]), Truthy(b[g]), <<f, a[f]>> = <<g, b[g]>>
             PROVE  FALSE
  BY DEF Keys
<1>1. f = g /\ a[f] = b[f]
  OBVIOUS
<1>2. CASE f = "email"
  BY <1>1, <1>2 DEF Duplicates
<1>3. CASE f = "phone"
  BY <1>1, <1>3 DEF Duplicates
<1> QED  BY <1>2, <1>3

(* The senders of an event, when one call moves.                           *)
LEMMA SendersMove ==
    ASSUME DOMAIN client = Clients, NEW c \in Clients, NEW r, Set(c, r),
           NEW id, NEW k
    PROVE  StillToSend(id, k)' =
               IF r.pc = "publish" /\ r.id = id /\ r.next <= k
               THEN StillToSend(id, k) \cup {c} ELSE StillToSend(id, k) \ {c}
  BY DEF Set, StillToSend, Pc

LEMMA SendersCount ==
    ASSUME NEW id, NEW k
    PROVE  /\ IsFiniteSet(StillToSend(id, k))
           /\ Cardinality(StillToSend(id, k)) \in Nat
           /\ \A c \in StillToSend(id, k) :
                  Cardinality(StillToSend(id, k) \ {c})
                      = Cardinality(StillToSend(id, k)) - 1
           /\ \A c : c \notin StillToSend(id, k) =>
                  Cardinality(StillToSend(id, k) \cup {c})
                      = Cardinality(StillToSend(id, k)) + 1
<1>1. StillToSend(id, k) \subseteq Clients
  BY DEF StillToSend
<1>2. IsFiniteSet(StillToSend(id, k))
  BY <1>1, ConstantsOK, FS_Subset
<1> QED  BY <1>2, FS_CardinalityType, FS_AddElement, FS_RemoveElement

Announced(id, k) ==
    /\ published[id][k] + Cardinality(StillToSend(id, k)) <= changes[id]
    /\ changes[id] <= published[id][k] + Cardinality(StillToSend(id, k)) + lost

LEMMA AnnouncedAll ==
    ChangesAnnounced <=> \A id \in Ids, k \in DOMAIN Queues : Announced(id, k)
  BY DEF ChangesAnnounced, Announced

LEMMA Numbers ==
    ASSUME TypeOK
    PROVE  /\ inserted \in Nat /\ lost \in Nat /\ DOMAIN Queues = 1..3
           /\ Len(Queues) = 3
           /\ \A id \in Ids : changes[id] \in Nat
           /\ \A id \in Ids, k \in DOMAIN Queues : published[id][k] \in Nat
           /\ DOMAIN client = Clients
<1>1. DOMAIN Queues = 1..3 /\ Len(Queues) = 3
  BY DEF Queues
<1> QED  BY <1>1, ConstantsOK DEF TypeOK, ConstantsOK

(* The types of the calls, when one moves and ids are only added.          *)
LEMMA CallTyped ==
    ASSUME TypeOK, NEW c \in Clients, NEW r \in ClientRecord, Set(c, r),
           inserted' \in Nat, inserted <= inserted'
    PROVE  client' \in [Clients -> ClientRecord']
<1>1. client \in [Clients -> ClientRecord]
  BY DEF TypeOK, ClientRecord
<1>2. client' \in [Clients -> ClientRecord]
  BY <1>1 DEF Set
<1>3. 1..inserted \subseteq 1..inserted'
  BY Numbers
<1>4. ClientRecord \subseteq ClientRecord'
  BY <1>3 DEF ClientRecord, CreateRecord, UpdateRecord, PublishRecord
<1> QED  BY <1>2, <1>4

(* What a call in progress holds.                                          *)
LEMMA CallHolds ==
    ASSUME TypeOK, NEW c \in Clients
    PROVE  /\ Pc(c) \in Past => client[c] \in CreateRecord
           /\ Pc(c) = "update" => client[c] \in UpdateRecord
           /\ Pc(c) = "publish" => client[c] \in PublishRecord
<1>1. client[c] \in {Idle} \cup CreateRecord \cup UpdateRecord \cup PublishRecord
  BY DEF TypeOK
<1> QED
  BY <1>1 DEF Pc, Past, Idle, CreateRecord, UpdateRecord, PublishRecord

-----------------------------------------------------------------------------
(* A step of one call that commits and publishes nothing.                  *)
LEMMA QuietMove ==
    ASSUME IntakeInv, NEW c \in Clients, NEW r \in ClientRecord, Set(c, r),
           UNCHANGED <<leads, usage, published, inserted, changes, seen, edited>>,
           updates' \in Nat, lost' \in Nat, lost <= lost',
           \/ r.pc \in Past => c \in InFlight
           \/ inserted + Cardinality(InFlight) < MaxCreated,
           r.pc \in Looked => Checked(r),
           r.pc # "publish",
           Pc(c) = "publish" => lost' = lost + 1
    PROVE  IntakeInv'
<1>0. TypeOK /\ DOMAIN client = Clients /\ inserted \in Nat /\ lost \in Nat
  BY Numbers DEF IntakeInv
<1>1. TypeOK'
  <2>1. client' \in [Clients -> ClientRecord']
    BY <1>0, CallTyped
  <2> QED  BY <1>0, <2>1 DEF TypeOK, ClientRecord, Ids
<1>2. RoomLeft'
  <2>1. CASE r.pc \in Past => c \in InFlight
    <3>1. InFlight' \subseteq InFlight
      BY <1>0, <2>1, OneCallMoves
    <3>2. Cardinality(InFlight') <= Cardinality(InFlight)
          /\ Cardinality(InFlight') \in Nat
      BY <3>1, InFlightFinite, FS_Subset, FS_CardinalityType
    <3> QED  BY <1>0, <3>2, InFlightFinite, ConstantsOK
             DEF IntakeInv, RoomLeft, ConstantsOK
  <2>2. CASE inserted + Cardinality(InFlight) < MaxCreated
    <3>1. InFlight' \subseteq InFlight \cup {c}
      BY <1>0, OneCallMoves
    <3>2. /\ IsFiniteSet(InFlight \cup {c})
          /\ Cardinality(InFlight \cup {c}) <= Cardinality(InFlight) + 1
          /\ Cardinality(InFlight \cup {c}) \in Nat
      <4>1. IsFiniteSet(InFlight) /\ Cardinality(InFlight) \in Nat
        BY InFlightFinite
      <4>2. \/ Cardinality(InFlight \cup {c}) = Cardinality(InFlight)
            \/ Cardinality(InFlight \cup {c}) = Cardinality(InFlight) + 1
        BY <4>1, FS_AddElement
      <4>3. IsFiniteSet(InFlight \cup {c})
        BY <4>1, FS_AddElement
      <4> QED  BY <4>1, <4>2, <4>3
    <3>3. Cardinality(InFlight') <= Cardinality(InFlight \cup {c})
          /\ Cardinality(InFlight') \in Nat
      BY <3>1, <3>2, FS_Subset, FS_CardinalityType
    <3> QED  BY <1>0, <2>2, <3>2, <3>3, InFlightFinite, ConstantsOK
             DEF RoomLeft, ConstantsOK
  <2> QED  BY <2>1, <2>2
<1>3. \A b \in Clients : Pc(b)' \in Looked => Checked(client[b])'
  <2>1. ASSUME NEW b \in Clients, Pc(b)' \in Looked
        PROVE  Checked(client[b])'
    <3>1. client'[b] = IF b = c THEN r ELSE client[b]
      BY <1>0 DEF Set
    <3>2. PICK s : s = client'[b]
      OBVIOUS
    <3>3. Checked(s)
      BY <2>1, <3>1, <3>2 DEF IntakeInv, Pc
    <3>4. Checked(s)'
      BY <3>3 DEF Checked
    <3> QED  BY <3>2, <3>4
  <2> QED  BY <2>1
<1>4. ChangesAnnounced'
  <2>1. ASSUME NEW id \in Ids, NEW k \in DOMAIN Queues
        PROVE  Announced(id, k)'
    <3>1. StillToSend(id, k)' = StillToSend(id, k) \ {c}
      BY <1>0, SendersMove
    <3>2. Announced(id, k) /\ published[id][k] \in Nat /\ changes[id] \in Nat
      BY <1>0, Numbers, AnnouncedAll DEF IntakeInv
    <3>3. CASE c \in StillToSend(id, k)
      <4>1. lost' = lost + 1
        BY <3>3 DEF StillToSend
      <4>2. Cardinality(StillToSend(id, k)')
                = Cardinality(StillToSend(id, k)) - 1
            /\ Cardinality(StillToSend(id, k)) \in Nat
        BY <3>1, <3>3, SendersCount
      <4> QED  BY <1>0, <3>2, <4>1, <4>2 DEF Announced
    <3>4. CASE c \notin StillToSend(id, k)
      <4>1. StillToSend(id, k)' = StillToSend(id, k)
        BY <3>1, <3>4
      <4> QED  BY <1>0, <3>2, <4>1, SendersCount DEF Announced
    <3> QED  BY <3>3, <3>4
  <2>2. (\A id \in Ids, k \in DOMAIN Queues : Announced(id, k))'
    BY <2>1 DEF Ids, Queues
  <2> QED  BY <2>2, AnnouncedAll, PTL
<1>5. DuplicatesOnlyFromRaces' /\ \A id \in Ids : seen'[id] \subseteq 1..inserted'
  BY DEF IntakeInv, DuplicatesOnlyFromRaces
<1> QED  BY <1>1, <1>2, <1>3, <1>4, <1>5 DEF IntakeInv, Ids

(* A commit announces itself: its call joins the senders of every queue.   *)
LEMMA CommitAnnounced ==
    ASSUME IntakeInv, NEW c \in Clients, NEW i \in Ids,
           Set(c, Announcing(i, 1)), Pc(c) # "publish",
           published' = published, lost' = lost,
           changes' = [changes EXCEPT ![i] = @ + 1]
    PROVE  ChangesAnnounced'
<1>0. TypeOK /\ DOMAIN client = Clients /\ lost \in Nat
  BY Numbers DEF IntakeInv
<1>1. ASSUME NEW id \in Ids, NEW k \in DOMAIN Queues
      PROVE  Announced(id, k)'
  <2>1. Announced(id, k) /\ published[id][k] \in Nat /\ changes[id] \in Nat
    BY <1>0, Numbers, AnnouncedAll DEF IntakeInv
  <2>2. changes'[id] = IF id = i THEN changes[id] + 1 ELSE changes[id]
    BY DEF IntakeInv, TypeOK
  <2>3. c \notin StillToSend(id, k)
    BY DEF StillToSend
  <2>4. k \in Nat /\ 1 <= k
    BY <1>0, Numbers
  <2>5. StillToSend(id, k)' = IF id = i THEN StillToSend(id, k) \cup {c}
                                        ELSE StillToSend(id, k)
    <3>1. PICK r : r = Announcing(i, 1)
      OBVIOUS
    <3>2. r.pc = "publish" /\ r.id = i /\ r.next = 1 /\ Set(c, r)
      BY <3>1 DEF Announcing
    <3>3. StillToSend(id, k)' =
              IF r.pc = "publish" /\ r.id = id /\ r.next <= k
              THEN StillToSend(id, k) \cup {c} ELSE StillToSend(id, k) \ {c}
      BY <1>0, <3>2, SendersMove
    <3> QED  BY <2>3, <2>4, <3>2, <3>3
  <2>6. Cardinality(StillToSend(id, k)) \in Nat
    BY SendersCount
  <2>7. CASE id = i
    <3>1. Cardinality(StillToSend(id, k)') = Cardinality(StillToSend(id, k)) + 1
      BY <2>3, <2>5, <2>7, SendersCount
    <3> QED  BY <1>0, <2>1, <2>2, <2>6, <2>7, <3>1 DEF Announced
  <2>8. CASE id # i
    BY <1>0, <2>1, <2>2, <2>5, <2>6, <2>8 DEF Announced
  <2> QED  BY <2>7, <2>8
<1>2. (\A id \in Ids, k \in DOMAIN Queues : Announced(id, k))'
  BY <1>1 DEF Ids, Queues
<1> QED  BY <1>2, AnnouncedAll, PTL

LEMMA CreateKeeps ==
    ASSUME IntakeInv, NEW c \in Clients, CommitCreate(c)
    PROVE  IntakeInv'
<1>0. TypeOK /\ DOMAIN client = Clients /\ inserted \in Nat /\ MaxCreated \in Nat
  BY Numbers, ConstantsOK DEF IntakeInv, ConstantsOK
<1>1. PICK id \in Nat : id = inserted + 1
  BY <1>0
<1>2. /\ Pc(c) = "commit" /\ client[c] \in CreateRecord /\ Checked(client[c])
      /\ client[c].contact \in Contact /\ client[c].usage \in Usage
      /\ client[c].sees \in SUBSET Ids
  <2>1. Pc(c) = "commit" /\ Pc(c) \in Past /\ Pc(c) \in Looked
    BY DEF CommitCreate, Past, Looked
  <2>2. client[c] \in CreateRecord
    BY <1>0, <2>1, CallHolds
  <2> QED  BY <2>1, <2>2 DEF IntakeInv, CreateRecord
<1>3. /\ inserted' = id /\ Set(c, Announcing(id, 1))
      /\ leads' = [i \in DOMAIN leads \cup {id} |->
                      IF i = id THEN client[c].contact ELSE leads[i]]
      /\ usage' = [row |-> TRUE, created |-> client[c].usage.created + 1]
      /\ changes' = [changes EXCEPT ![id] = @ + 1]
      /\ seen' = [seen EXCEPT ![id] = client[c].sees]
      /\ UNCHANGED <<published, edited, updates, lost>>
  BY <1>1 DEF CommitCreate
<1>4. c \in InFlight /\ InFlight' = InFlight \ {c}
  BY <1>0, <1>2, <1>3, OneCallMoves DEF InFlight, Announcing, Past
<1>5. /\ Cardinality(InFlight') = Cardinality(InFlight) - 1
      /\ Cardinality(InFlight) \in Nat /\ Cardinality(InFlight') \in Nat
  <2>1. Cardinality(InFlight') = Cardinality(InFlight) - 1
    BY <1>4, InFlightFinite, FS_RemoveElement
  <2>2. InFlight' \subseteq InFlight
    BY <1>4
  <2> QED  BY <2>1, <2>2, InFlightFinite, FS_Subset, FS_CardinalityType
<1>6. RoomLeft' /\ id \in Ids
  <2>1. inserted + Cardinality(InFlight) <= MaxCreated
    BY DEF IntakeInv, RoomLeft
  <2>2. id + Cardinality(InFlight') <= MaxCreated
    BY <1>0, <1>1, <1>5, <2>1
  <2> QED  BY <1>0, <1>1, <1>3, <1>5, <2>2 DEF RoomLeft, Ids
<1>7. DOMAIN leads' = DOMAIN leads \cup {id} /\ leads'[id] = client[c].contact
      /\ id \notin DOMAIN leads
      /\ \A i \in DOMAIN leads : leads'[i] = leads[i]
  BY <1>0, <1>1, <1>3 DEF TypeOK
<1>8. TypeOK'
  <2>1. Announcing(id, 1) \in ClientRecord'
    <3>1. id \in 1..inserted' /\ 1 \in DOMAIN Queues
      BY <1>0, <1>1, <1>3, Numbers
    <3>2. DOMAIN Queues = DOMAIN Queues'
      BY DEF Queues
    <3>3. Announcing(id, 1) \in PublishRecord'
      BY <3>1, <3>2 DEF Announcing, PublishRecord
    <3> QED  BY <3>3 DEF ClientRecord
  <2>2. client' \in [Clients -> ClientRecord']
    <3>1. client \in [Clients -> ClientRecord]
      BY <1>0 DEF TypeOK, ClientRecord
    <3>2. ClientRecord \subseteq ClientRecord'
      <4>1. 1..inserted \subseteq 1..inserted'
        BY <1>0, <1>1, <1>3
      <4> QED  BY <4>1 DEF ClientRecord, CreateRecord, UpdateRecord, PublishRecord
    <3> QED  BY <1>3, <2>1, <3>1, <3>2 DEF Set
  <2>3. DOMAIN leads' \subseteq 1..inserted' /\ edited' \subseteq 1..inserted'
    BY <1>0, <1>1, <1>3, <1>7 DEF TypeOK
  <2>4. leads' \in [DOMAIN leads' -> Contact]
    BY <1>0, <1>2, <1>3, <1>7 DEF TypeOK
  <2>5. usage' \in Usage
    BY <1>2, <1>3 DEF Usage
  <2>6. inserted' \in 0..MaxCreated
    BY <1>0, <1>3, <1>6 DEF Ids
  <2>7. changes' \in [Ids -> Nat] /\ seen' \in [Ids -> SUBSET Ids]
    <3>1. /\ changes \in [Ids -> Nat] /\ changes[id] + 1 \in Nat
          /\ seen \in [Ids -> SUBSET Ids]
      BY <1>0, <1>6 DEF TypeOK
    <3>2. changes' \in [Ids -> Nat]
      BY <1>3, <3>1
    <3>3. seen' \in [Ids -> SUBSET Ids]
      BY <1>2, <1>3, <3>1
    <3> QED  BY <3>2, <3>3
  <2>8. published' \in [Ids -> [DOMAIN Queues -> Nat]] /\ updates' \in Nat
        /\ lost' \in Nat
    BY <1>0, <1>3 DEF TypeOK
  <2> QED
    BY <2>2, <2>3, <2>4, <2>5, <2>6, <2>7, <2>8 DEF TypeOK, ClientRecord, Ids, Queues
<1>9. client[c].sees \subseteq 1..inserted /\ 1..inserted \subseteq 1..inserted'
  BY <1>0, <1>1, <1>2, <1>3 DEF Checked
<1>10. \A i \in Ids : seen'[i] \subseteq 1..inserted'
  BY <1>0, <1>3, <1>9 DEF IntakeInv, TypeOK
<1>11. \A b \in Clients : Pc(b)' \in Looked => Checked(client[b])'
  <2>1. ASSUME NEW b \in Clients, Pc(b)' \in Looked
        PROVE  Checked(client[b])'
    <3>1. b # c
      BY <1>0, <1>3, <2>1 DEF Set, Announcing, Looked, Pc
    <3>2. client'[b] = client[b]
      BY <1>0, <1>3, <3>1 DEF Set
    <3>3. PICK s : s = client[b]
      OBVIOUS
    <3>4. Checked(s)
      BY <2>1, <3>2, <3>3 DEF IntakeInv, Pc
    <3>5. id \notin s.sees
      BY <1>0, <1>1, <3>4 DEF Checked
    <3>6. Checked(s)'
      BY <1>3, <1>7, <1>9, <3>4, <3>5 DEF Checked
    <3> QED  BY <3>2, <3>3, <3>6
  <2> QED  BY <2>1
<1>12. DuplicatesOnlyFromRaces'
  <2>1. ASSUME NEW a \in DOMAIN leads \ edited
        PROVE  /\ id \notin seen[a]
               /\ a \in client[c].sees =>
                      Keys(leads[a]) \cap Keys(client[c].contact) = {}
               /\ a \in Ids /\ a # id
    <3>1. a \in Ids /\ a # id
      BY <1>0, <1>1, <1>7 DEF TypeOK, Ids
    <3>2. id \notin seen[a]
      BY <1>0, <1>1, <3>1 DEF IntakeInv
    <3> QED  BY <1>2, <3>1, <3>2 DEF Checked
  <2>2. seen'[id] = client[c].sees /\ \A a \in Ids : a # id => seen'[a] = seen[a]
    BY <1>0, <1>3, <1>6 DEF TypeOK
  <2>3. DuplicatesOnlyFromRaces /\ edited' = edited
    BY <1>3 DEF IntakeInv
  <2>4. ASSUME NEW a \in DOMAIN leads' \ edited', NEW b \in DOMAIN leads' \ edited',
               a # b, Keys(leads'[a]) \cap Keys(leads'[b]) # {}
        PROVE  a \notin seen'[b]
    <3>1. CASE a # id /\ b # id
      BY <1>7, <2>1, <2>2, <2>3, <2>4, <3>1 DEF DuplicatesOnlyFromRaces
    <3>2. CASE a = id
      BY <1>7, <2>1, <2>2, <2>3, <2>4, <3>2
    <3>3. CASE b = id
      BY <1>7, <2>1, <2>2, <2>3, <2>4, <3>3
    <3> QED  BY <3>1, <3>2, <3>3
  <2> QED  BY <2>4 DEF DuplicatesOnlyFromRaces, Keys
<1>13. ChangesAnnounced'
  BY <1>2, <1>3, <1>6, CommitAnnounced
<1> QED  BY <1>6, <1>8, <1>10, <1>11, <1>12, <1>13 DEF IntakeInv, Ids

LEMMA UpdateKeeps ==
    ASSUME IntakeInv, NEW c \in Clients, CommitUpdate(c)
    PROVE  IntakeInv'
<1>0. TypeOK /\ DOMAIN client = Clients /\ inserted \in Nat
  BY Numbers DEF IntakeInv
<1>1. Pc(c) = "update" /\ client[c] \in UpdateRecord
  BY <1>0, CallHolds DEF CommitUpdate
<1>2. PICK id, row :
         /\ id \in 1..inserted
         /\ id = client[c].id
         /\ row = [email |-> Written(client[c].email, leads[id].email),
                   phone |-> Written(client[c].phone, leads[id].phone)]
  BY <1>1 DEF UpdateRecord
<1>3. /\ id \in DOMAIN leads /\ leads' = [leads EXCEPT ![id] = row]
      /\ changes' = [changes EXCEPT ![id] = @ + 1]
      /\ edited' = edited \cup {id}
      /\ Set(c, Announcing(id, 1))
      /\ UNCHANGED <<usage, published, inserted, seen, updates, lost>>
  BY <1>2 DEF CommitUpdate
<1>4. id \in Ids
  <2>1. inserted \in 0..MaxCreated /\ MaxCreated \in Nat
    BY <1>0, ConstantsOK DEF TypeOK, ConstantsOK
  <2> QED  BY <1>2, <2>1 DEF Ids
<1>5. /\ DOMAIN leads' = DOMAIN leads
      /\ \A i \in DOMAIN leads : i # id => leads'[i] = leads[i]
  BY <1>3
<1>6. TypeOK'
  <2>1. row \in Contact
    <3>1. leads[id] \in Contact
      BY <1>0, <1>3 DEF TypeOK
    <3>2. /\ client[c].email \in Emails \cup {Absent}
          /\ client[c].phone \in Phones \cup {Absent}
      BY <1>1 DEF UpdateRecord
    <3> QED  BY <1>2, <3>1, <3>2 DEF Contact, Written
  <2>2. Announcing(id, 1) \in ClientRecord
    BY <1>2, <1>0, Numbers DEF Announcing, ClientRecord, PublishRecord
  <2>3. client' \in [Clients -> ClientRecord']
    BY <1>0, <1>3, <2>2, CallTyped
  <2>4. leads' \in [DOMAIN leads' -> Contact] /\ DOMAIN leads' \subseteq 1..inserted'
    BY <1>0, <1>3, <1>5, <2>1 DEF TypeOK
  <2>5. changes' \in [Ids -> Nat]
    <3>1. changes \in [Ids -> Nat] /\ changes[id] + 1 \in Nat
      BY <1>0, <1>4 DEF TypeOK
    <3> QED  BY <1>3, <3>1
  <2>6. edited' \subseteq 1..inserted'
    BY <1>0, <1>3 DEF TypeOK
  <2>7. /\ usage' \in Usage /\ published' \in [Ids -> [DOMAIN Queues -> Nat]]
        /\ inserted' \in 0..MaxCreated /\ seen' \in [Ids -> SUBSET Ids]
        /\ updates' \in Nat /\ lost' \in Nat
    BY <1>0, <1>3 DEF TypeOK
  <2> QED
    BY <2>3, <2>4, <2>5, <2>6, <2>7 DEF TypeOK, ClientRecord, Ids, Queues
<1>7. RoomLeft'
  <2>1. InFlight' = InFlight
    BY <1>0, <1>1, <1>3, OneCallMoves DEF InFlight, Announcing, Past
  <2> QED  BY <1>3, <2>1 DEF IntakeInv, RoomLeft
<1>8. \A b \in Clients : Pc(b)' \in Looked => Checked(client[b])'
  <2>1. ASSUME NEW b \in Clients, Pc(b)' \in Looked
        PROVE  Checked(client[b])'
    <3>1. b # c
      BY <1>0, <1>3, <2>1 DEF Set, Announcing, Looked, Pc
    <3>2. client'[b] = client[b]
      BY <1>0, <1>3, <3>1 DEF Set
    <3>3. PICK s : s = client[b]
      OBVIOUS
    <3>4. Checked(s)
      BY <2>1, <3>2, <3>3 DEF IntakeInv, Pc
    <3>5. Checked(s)'
      BY <1>3, <1>5, <3>4 DEF Checked
    <3> QED  BY <3>2, <3>3, <3>5
  <2> QED  BY <2>1
<1>9. DuplicatesOnlyFromRaces'
  <2>1. \A a \in DOMAIN leads' \ edited' :
            a \in DOMAIN leads \ edited /\ leads'[a] = leads[a]
    BY <1>3, <1>5
  <2>2. DuplicatesOnlyFromRaces /\ seen' = seen
    BY <1>3 DEF IntakeInv
  <2> QED  BY <2>1, <2>2 DEF DuplicatesOnlyFromRaces
<1>10. ChangesAnnounced'
  BY <1>1, <1>3, <1>4, CommitAnnounced
<1>11. \A i \in Ids : seen'[i] \subseteq 1..inserted'
  BY <1>3 DEF IntakeInv
<1> QED  BY <1>6, <1>7, <1>8, <1>9, <1>10, <1>11 DEF IntakeInv, Ids

LEMMA DeleteKeeps ==
    ASSUME IntakeInv, NEW id \in Ids, DeleteLead(id)
    PROVE  IntakeInv'
<1>1. /\ leads' = [i \in DOMAIN leads \ {id} |-> leads[i]]
      /\ UNCHANGED <<usage, client, published, inserted, changes, seen, edited,
                     updates, lost>>
  BY DEF DeleteLead
<1>2. /\ DOMAIN leads' = DOMAIN leads \ {id}
      /\ \A i \in DOMAIN leads' : leads'[i] = leads[i]
  BY <1>1
<1>3. TypeOK'
  <2>1. leads' \in [DOMAIN leads' -> Contact] /\ DOMAIN leads' \subseteq 1..inserted'
    BY <1>1, <1>2 DEF IntakeInv, TypeOK
  <2> QED  BY <1>1, <2>1 DEF IntakeInv, TypeOK, CreateRecord, UpdateRecord,
                             PublishRecord, Ids, Queues
<1>4. RoomLeft' /\ ChangesAnnounced'
  BY <1>1 DEF IntakeInv, RoomLeft, InFlight, Pc, ChangesAnnounced, StillToSend
<1>5. \A b \in Clients : Pc(b)' \in Looked => Checked(client[b])'
  BY <1>1, <1>2 DEF IntakeInv, Checked, Pc
<1>6. DuplicatesOnlyFromRaces'
  <2>1. DuplicatesOnlyFromRaces
    BY DEF IntakeInv
  <2> QED  BY <1>1, <1>2, <2>1 DEF DuplicatesOnlyFromRaces
<1>7. \A i \in Ids : seen'[i] \subseteq 1..inserted'
  BY <1>1 DEF IntakeInv
<1> QED  BY <1>3, <1>4, <1>5, <1>6, <1>7 DEF IntakeInv, Ids

(* One send: the call's own position moves from the senders to the sent.   *)
LEMMA PublishKeeps ==
    ASSUME IntakeInv, NEW c \in Clients, PublishLifecycle(c)
    PROVE  IntakeInv'
<1>0. TypeOK /\ DOMAIN client = Clients /\ inserted \in Nat /\ lost \in Nat
  BY Numbers DEF IntakeInv
<1>1. Pc(c) = "publish" /\ client[c] \in PublishRecord
  BY <1>0, CallHolds DEF PublishLifecycle
<1>2. PICK i, j, r :
         /\ i \in 1..inserted
         /\ j \in 1..3
         /\ i = client[c].id /\ j = client[c].next /\ r = AfterPublish(i, j)
  BY <1>0, <1>1, Numbers DEF PublishRecord
<1>3. /\ published' = [published EXCEPT ![i][j] = @ + 1]
      /\ Set(c, r)
      /\ UNCHANGED <<leads, usage, inserted, changes, seen, edited, updates, lost>>
  BY <1>2 DEF PublishLifecycle
<1>4. i \in Ids
  <2>1. inserted \in 0..MaxCreated /\ MaxCreated \in Nat
    BY <1>0, ConstantsOK DEF TypeOK, ConstantsOK
  <2> QED  BY <1>2, <2>1 DEF Ids
<1>5. /\ r \in ClientRecord
      /\ r.pc = "publish" => r.id = i /\ r.next = j + 1
      /\ r.pc # "publish" => j = 3
      /\ r.pc \notin Past
  BY <1>0, <1>2, Numbers DEF AfterPublish, Idle, Announcing, ClientRecord,
                             PublishRecord, Past
<1>6. \A id \in Ids, k \in DOMAIN Queues :
          published'[id][k] = IF id = i /\ k = j THEN published[id][k] + 1
                                                 ELSE published[id][k]
  BY <1>0, <1>3, <1>4 DEF TypeOK
<1>7. TypeOK'
  <2>1. client' \in [Clients -> ClientRecord']
    BY <1>0, <1>3, <1>5, CallTyped
  <2>2. published' \in [Ids -> [DOMAIN Queues -> Nat]]
    <3>1. published \in [Ids -> [DOMAIN Queues -> Nat]] /\ j \in DOMAIN Queues
      BY <1>2, <1>0, Numbers DEF TypeOK
    <3>2. published[i][j] + 1 \in Nat
      BY <1>4, <3>1
    <3>3. [published[i] EXCEPT ![j] = published[i][j] + 1] \in [DOMAIN Queues -> Nat]
      BY <1>4, <3>1, <3>2
    <3>4. published' = [published EXCEPT
                           ![i] = [published[i] EXCEPT ![j] = published[i][j] + 1]]
      BY <1>3
    <3> QED  BY <1>4, <3>1, <3>3, <3>4
  <2> QED  BY <1>0, <1>3, <2>1, <2>2 DEF TypeOK, ClientRecord, Ids, Queues
<1>8. RoomLeft'
  <2>1. InFlight' = InFlight
    BY <1>0, <1>1, <1>3, <1>5, OneCallMoves DEF InFlight
  <2> QED  BY <1>3, <2>1 DEF IntakeInv, RoomLeft
<1>9. \A b \in Clients : Pc(b)' \in Looked => Checked(client[b])'
  <2>1. \A b \in Clients : client'[b] = IF b = c THEN r ELSE client[b]
    BY <1>0, <1>3 DEF Set
  <2>2. Looked \subseteq Past
    BY DEF Looked, Past
  <2> QED  BY <1>3, <1>5, <2>1, <2>2 DEF IntakeInv, Checked, Pc
<1>10. DuplicatesOnlyFromRaces' /\ \A id \in Ids : seen'[id] \subseteq 1..inserted'
  BY <1>3 DEF IntakeInv, DuplicatesOnlyFromRaces
<1>11. ChangesAnnounced'
  <2>1. ASSUME NEW id \in Ids, NEW k \in DOMAIN Queues
        PROVE  Announced(id, k)'
    <3>1. /\ Announced(id, k) /\ published[id][k] \in Nat /\ changes[id] \in Nat
          /\ k \in 1..3
      BY <1>0, Numbers, AnnouncedAll DEF IntakeInv
    <3>2. c \in StillToSend(id, k) <=> id = i /\ j <= k
      BY <1>1, <1>2 DEF StillToSend
    <3>3. StillToSend(id, k)' = IF id = i /\ k = j THEN StillToSend(id, k) \ {c}
                                                   ELSE StillToSend(id, k)
      <4>1. StillToSend(id, k)' =
                IF r.pc = "publish" /\ r.id = id /\ r.next <= k
                THEN StillToSend(id, k) \cup {c} ELSE StillToSend(id, k) \ {c}
        BY <1>0, <1>3, SendersMove
      <4>2. CASE id = i /\ k = j
        <5>1. ~(r.pc = "publish" /\ r.next <= k)
          BY <1>2, <1>5, <4>2
        <5> QED  BY <4>1, <4>2, <5>1
      <4>3. CASE id = i /\ k > j
        <5>1. r.pc = "publish" /\ r.id = id /\ r.next <= k
          BY <1>2, <1>5, <3>1, <4>3
        <5>2. StillToSend(id, k)' = StillToSend(id, k) \cup {c}
          BY <4>1, <5>1
        <5>3. c \in StillToSend(id, k) /\ k # j
          BY <1>2, <3>1, <3>2, <4>3
        <5> QED  BY <5>2, <5>3
      <4>4. CASE id # i \/ k < j
        <5>1. c \notin StillToSend(id, k)
          BY <1>2, <3>1, <3>2, <4>4
        <5>2. ~(r.pc = "publish" /\ r.id = id /\ r.next <= k)
          BY <1>2, <1>5, <3>1, <4>4
        <5>3. ~(id = i /\ k = j)
          BY <3>1, <4>4
        <5> QED  BY <4>1, <5>1, <5>2, <5>3
      <4> QED  BY <1>2, <3>1, <4>2, <4>3, <4>4
    <3>4. /\ published'[id][k] = IF id = i /\ k = j THEN published[id][k] + 1
                                                    ELSE published[id][k]
          /\ changes' = changes /\ lost' = lost
          /\ Cardinality(StillToSend(id, k)) \in Nat
      BY <1>3, <1>6, SendersCount
    <3>5. CASE id = i /\ k = j
      <4>1. Cardinality(StillToSend(id, k)')
                = Cardinality(StillToSend(id, k)) - 1
        BY <3>1, <3>2, <3>3, <3>5, SendersCount
      <4> QED  BY <1>0, <3>1, <3>4, <3>5, <4>1 DEF Announced
    <3>6. CASE ~(id = i /\ k = j)
      <4>1. StillToSend(id, k)' = StillToSend(id, k)
        BY <3>3, <3>6
      <4>2. published'[id][k] = published[id][k]
        BY <3>4, <3>6
      <4> QED  BY <1>0, <3>1, <3>4, <4>1, <4>2 DEF Announced
    <3> QED  BY <3>5, <3>6
  <2>2. (\A id \in Ids, k \in DOMAIN Queues : Announced(id, k))'
    BY <2>1 DEF Ids, Queues
  <2> QED  BY <2>2, AnnouncedAll, PTL
<1> QED  BY <1>7, <1>8, <1>9, <1>10, <1>11 DEF IntakeInv, Ids

-----------------------------------------------------------------------------
LEMMA IntakeInit == Init => IntakeInv
<1> SUFFICES ASSUME Init PROVE IntakeInv
  OBVIOUS
<1>1. TypeOK
  BY ConstantsOK DEF Init, TypeOK, NoUsage, Usage, Idle, ConstantsOK
<1>2. RoomLeft
  <2>1. InFlight = {} /\ inserted = 0
    BY DEF Init, InFlight, Pc, Idle
  <2>2. Cardinality(InFlight) = 0
    BY <2>1, FS_EmptySet
  <2> QED  BY <2>1, <2>2, ConstantsOK DEF RoomLeft, ConstantsOK
<1>3. ChangesAnnounced
  <2>1. ASSUME NEW id \in Ids, NEW k \in DOMAIN Queues
        PROVE  Announced(id, k)
    <3>1. StillToSend(id, k) = {}
      BY DEF Init, StillToSend, Pc, Idle
    <3>2. Cardinality(StillToSend(id, k)) = 0
      BY <3>1, FS_EmptySet
    <3>3. published[id][k] = 0 /\ changes[id] = 0 /\ lost = 0
      BY DEF Init
    <3> QED  BY <3>2, <3>3 DEF Announced
  <2> QED  BY <2>1, AnnouncedAll
<1>4. /\ \A id \in Ids : seen[id] \subseteq 1..inserted
      /\ \A c \in Clients : Pc(c) \notin Looked
      /\ DuplicatesOnlyFromRaces
  BY DEF Init, Pc, Idle, Looked, DuplicatesOnlyFromRaces
<1> QED  BY <1>1, <1>2, <1>3, <1>4 DEF IntakeInv

LEMMA IntakeStep == IntakeInv /\ [Next]_vars => IntakeInv'
<1> SUFFICES ASSUME IntakeInv, [Next]_vars PROVE IntakeInv'
  OBVIOUS
<1>0. /\ TypeOK /\ DOMAIN client = Clients /\ inserted \in Nat
      /\ updates \in Nat /\ lost \in Nat
      /\ \A c \in Clients : Pc(c) \in Looked => Checked(client[c])
  BY Numbers DEF IntakeInv, TypeOK
<1> DEFINE Same == UNCHANGED <<leads, usage, published, inserted, changes, seen, edited>>
<1>1. ASSUME NEW c \in Clients, EnforceLimit(c) PROVE IntakeInv'
  <2>1. PICK e, p, r :
           /\ e \in RawEmails \cup {None}
           /\ p \in RawPhones \cup {None}
           /\ r = Creating("lookup",
                     [email |-> NormalizeEmail(e), phone |-> NormalizePhone(p)],
                     {}, NoUsage)
           /\ Set(c, r)
    BY <1>1 DEF EnforceLimit
  <2>2. NormalizeEmail(e) \in Emails /\ NormalizePhone(p) \in Phones
    BY <2>1 DEF NormalizeEmail, NormalizePhone, Emails, Phones, Truthy
  <2>3. r \in CreateRecord /\ r.pc = "lookup"
    BY <2>1, <2>2 DEF Creating, CreateRecord, Contact, Usage, NoUsage
  <2>4. r \in ClientRecord /\ r.pc \notin Looked /\ r.pc # "publish"
    BY <2>3 DEF ClientRecord, Looked
  <2>5. Same /\ updates' = updates /\ lost' = lost /\ Pc(c) # "publish"
        /\ inserted + Cardinality(InFlight) < MaxCreated
    BY <1>1 DEF EnforceLimit
  <2> QED  BY <1>0, <2>1, <2>4, <2>5, QuietMove
<1>2. ASSUME NEW c \in Clients, ReadForUpdate(c) PROVE IntakeInv'
  <2>1. PICK id, e, p, r :
            /\ id \in DOMAIN leads
            /\ e \in RawEmails \cup {None, Absent}
            /\ p \in RawPhones \cup {None, Absent}
            /\ r = [pc |-> "update", id |-> id,
                    email |-> IF e = Absent THEN Absent
                              ELSE NetChange(NormalizeEmail(e), leads[id].email),
                    phone |-> IF p = Absent THEN Absent
                              ELSE NetChange(NormalizePhone(p), leads[id].phone)]
            /\ Set(c, r)
    BY <1>2 DEF ReadForUpdate
  <2>2. e # Absent => NormalizeEmail(e) \in Emails
    BY <2>1 DEF NormalizeEmail, Emails, Truthy
  <2>3. p # Absent => NormalizePhone(p) \in Phones
    BY <2>1 DEF NormalizePhone, Phones, Truthy
  <2>4. r \in UpdateRecord /\ r.pc = "update"
    BY <1>0, <2>1, <2>2, <2>3 DEF TypeOK, UpdateRecord, NetChange
  <2>5. r \in ClientRecord /\ r.pc \notin Looked /\ r.pc # "publish"
        /\ r.pc \notin Past
    BY <2>4 DEF ClientRecord, Looked, Past
  <2>6. Same /\ updates' \in Nat /\ lost' = lost /\ Pc(c) # "publish"
    BY <1>0, <1>2 DEF ReadForUpdate
  <2> QED  BY <1>0, <2>1, <2>5, <2>6, QuietMove
<1>3. ASSUME NEW c \in Clients, LookupFinds(c) \/ UsageConflict(c) \/ UpdateStale(c)
                                \/ Die(c)
      PROVE  IntakeInv'
  <2>1. PICK r : r = Idle
    OBVIOUS
  <2>2. r \in ClientRecord /\ r.pc \notin Looked /\ r.pc # "publish"
        /\ r.pc \notin Past
    BY <2>1 DEF ClientRecord, Idle, Looked, Past
  <2>3. Same /\ updates' = updates /\ Set(c, r)
        /\ \/ lost' = lost /\ Pc(c) # "publish"
           \/ lost' = lost + 1
    BY <1>3, <2>1 DEF LookupFinds, UsageConflict, UpdateStale, Die
  <2> QED  BY <1>0, <2>2, <2>3, QuietMove
<1>4. ASSUME NEW c \in Clients, LookupEmpty(c) PROVE IntakeInv'
  <2>1. PICK r : r = Creating("usage", client[c].contact, DOMAIN leads, NoUsage)
    OBVIOUS
  <2>2. Pc(c) = "lookup" /\ client[c] \in CreateRecord /\ c \in InFlight
    BY <1>0, <1>4, CallHolds DEF LookupEmpty, Past, InFlight
  <2>3. client[c].contact \in Contact
    BY <2>2 DEF CreateRecord
  <2>4. DOMAIN leads \subseteq 1..inserted /\ DOMAIN leads \in SUBSET Ids
        /\ \A i \in DOMAIN leads : leads[i] \in Contact
    <3>1. inserted \in 0..MaxCreated /\ MaxCreated \in Nat
      BY <1>0, ConstantsOK DEF TypeOK, ConstantsOK
    <3> QED  BY <1>0, <3>1 DEF TypeOK, Ids
  <2>5. r \in CreateRecord /\ r.pc = "usage" /\ r.sees = DOMAIN leads
        /\ r.contact = client[c].contact
    BY <2>1, <2>3, <2>4 DEF Creating, CreateRecord, Usage, NoUsage
  <2>6. Checked(r)
    BY <1>4, <2>3, <2>4, <2>5, KeysMeet DEF LookupEmpty, Checked
  <2>7. r \in ClientRecord /\ r.pc # "publish"
    BY <2>5 DEF ClientRecord
  <2>8. Same /\ updates' = updates /\ lost' = lost /\ Set(c, r)
    BY <1>4, <2>1 DEF LookupEmpty
  <2> QED  BY <1>0, <2>2, <2>6, <2>7, <2>8, QuietMove
<1>5. ASSUME NEW c \in Clients, ReadUsage(c) \/ InsertUsage(c) PROVE IntakeInv'
  <2>1. PICK r : /\ Set(c, r)
                 /\ \E pc \in {"record", "commit"}, u \in {usage, client[c].usage} :
                        r = Creating(pc, client[c].contact, client[c].sees, u)
    BY <1>5 DEF ReadUsage, InsertUsage
  <2>2. Pc(c) \in {"usage", "record"} /\ client[c] \in CreateRecord
        /\ c \in InFlight /\ Checked(client[c])
    BY <1>0, <1>5, CallHolds DEF ReadUsage, InsertUsage, Past, InFlight, Looked
  <2>3. /\ client[c].contact \in Contact /\ client[c].sees \in SUBSET Ids
        /\ client[c].usage \in Usage /\ usage \in Usage
    BY <1>0, <2>2 DEF CreateRecord, TypeOK
  <2>4. /\ r \in CreateRecord /\ r.pc \in {"record", "commit"}
        /\ r.sees = client[c].sees /\ r.contact = client[c].contact
    BY <2>1, <2>3 DEF Creating, CreateRecord
  <2>5. Checked(r)
    BY <2>2, <2>4 DEF Checked
  <2>6. r \in ClientRecord /\ r.pc # "publish" /\ Pc(c) # "publish"
    BY <2>2, <2>4 DEF ClientRecord
  <2>7. Same /\ updates' = updates /\ lost' = lost
    BY <1>5 DEF ReadUsage, InsertUsage
  <2> QED  BY <1>0, <2>1, <2>2, <2>5, <2>6, <2>7, QuietMove
<1>6. ASSUME NEW c \in Clients, CommitCreate(c) PROVE IntakeInv'
  BY <1>6, CreateKeeps
<1>7. ASSUME NEW c \in Clients, CommitUpdate(c) PROVE IntakeInv'
  BY <1>7, UpdateKeeps
<1>8. ASSUME NEW c \in Clients, PublishLifecycle(c) PROVE IntakeInv'
  BY <1>8, PublishKeeps
<1>9. ASSUME NEW id \in Ids, DeleteLead(id) PROVE IntakeInv'
  BY <1>9, DeleteKeeps
<1>10. CASE UNCHANGED vars
  <2>1. TypeOK'
    BY <1>0, <1>10 DEF vars, TypeOK, CreateRecord, UpdateRecord, PublishRecord,
                       Ids, Queues
  <2>2. RoomLeft' /\ ChangesAnnounced'
    BY <1>10 DEF IntakeInv, vars, RoomLeft, InFlight, Pc, ChangesAnnounced,
                 StillToSend
  <2>3. \A b \in Clients : Pc(b)' \in Looked => Checked(client[b])'
    BY <1>0, <1>10 DEF vars, Checked, Pc
  <2>4. DuplicatesOnlyFromRaces' /\ \A i \in Ids : seen'[i] \subseteq 1..inserted'
    BY <1>10 DEF IntakeInv, vars, DuplicatesOnlyFromRaces
  <2> QED  BY <2>1, <2>2, <2>3, <2>4 DEF IntakeInv, Ids
<1> QED
  BY <1>1, <1>2, <1>3, <1>4, <1>5, <1>6, <1>7, <1>8, <1>9, <1>10
     DEF Next, Proceed

THEOREM IntakeInvariant == Spec => []IntakeInv
<1> QED  BY IntakeInit, IntakeStep, PTL DEF Spec

(* Every state is well typed: rows, calls and counters, and no row has an  *)
(* id that was not handed out.                                             *)
THEOREM TypeCorrect == Spec => []TypeOK
<1>1. IntakeInv => TypeOK
  BY DEF IntakeInv
<1> QED  BY <1>1, IntakeInvariant, PTL

(* The duplicate lookup of create_lead misses nothing that was committed   *)
(* when it looked: leads that share an email or a phone raced each other,  *)
(* or one of them was edited, for any contacts and any number of calls.    *)
THEOREM DuplicatesAreRaces == Spec => []DuplicatesOnlyFromRaces
<1>1. IntakeInv => DuplicatesOnlyFromRaces
  BY DEF IntakeInv
<1> QED  BY <1>1, IntakeInvariant, PTL

(* Every committed change of a lead is announced on each lifecycle queue   *)
(* once, but for calls that still publish and one per call that died; and  *)
(* nothing is announced that was not committed.                            *)
THEOREM LifecycleAnnounced == Spec => []ChangesAnnounced
<1>1. IntakeInv => ChangesAnnounced
  BY DEF IntakeInv
<1> QED  BY <1>1, IntakeInvariant, PTL
=============================================================================
