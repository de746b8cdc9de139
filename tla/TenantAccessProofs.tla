------------------------- MODULE TenantAccessProofs -------------------------
(***************************************************************************)
(* Proofs about TenantAccess for any requests, callers and tenants: what   *)
(* is seen of a tenant is complete, its settings keep what was answered,   *)
(* and the audit log has what was changed.                                 *)
(***************************************************************************)
EXTENDS TenantAccess, SequenceTheorems, FiniteSetTheorems,
        WellFoundedInduction, TLAPS

(* What a call holds at each of its places.                                *)
Roles    == {r.token.role : r \in {q \in Requests : q.token # None
                                                    /\ q.token.type = "jwt"}}
Insiders == [tenant : Tenants, role : Roles \cup {None}]
Values   == {0} \cup {r.value : r \in Requests}
Settings == [plan_limits : {None, Override}, design_partner : BOOLEAN,
             rollout_percentage : Values]
Slugs    == {FounderSlug} \cup {r.target : r \in Requests}

Handling == [pc : {"begin", "insert", "committing"}, request : Requests,
             context : Insiders]
Writing  == [pc : {"write"}, request : Requests, context : Insiders,
             read : Settings]
Ending   == [pc : {"audit"}, request : Requests,
             context : Insiders \cup {Anonymous}, status : Nat,
             key : Tenants \cup {None}]
CallRecord == {Idle} \cup [pc : {"key"}, request : Requests]
                     \cup Handling \cup Writing \cup Ending

Pending(r) == r.pc = "audit" /\ Writes(r.request.op, r.status)

Good(r) ==
    /\ r \in CallRecord
    /\ r.pc \in {"insert", "committing"} => r.request.op = "provision"
    /\ r.pc = "write" =>
           /\ r.request.op \in Writers
           /\ r.request.target \in DOMAIN tenants
           /\ r.read.plan_limits = tenants[r.request.target].settings.plan_limits
    /\ r.pc = "audit" => r.key \in DOMAIN keys \cup {None}
    /\ Pending(r) => r.context \in Insiders

Rows ==
    /\ DOMAIN tenants \subseteq Tenants
    /\ Founder \in DOMAIN tenants
    /\ tenants \in [DOMAIN tenants -> [slug : Slugs, settings : Settings]]
    /\ tenants[Founder].settings.plan_limits = Override
    /\ DOMAIN owners = DOMAIN tenants
    /\ DOMAIN keys = DOMAIN tenants
    /\ promised \in [DOMAIN tenants -> [design_partner : BOOLEAN,
                                        rollout_percentage : Values]]

Calling == /\ call \in [Callers -> CallRecord]
           /\ \A c \in Callers : Good(call[c])

(* A slug that is about to be committed is not there, and there is an id   *)
(* left for each.                                                          *)
Committing == {c \in Callers : call[c].pc = "committing"}
Free       == Tenants \ DOMAIN tenants

SlugInv ==
    /\ \A t, u \in DOMAIN tenants : tenants[t].slug = tenants[u].slug => t = u
    /\ \A c \in Committing : ~SlugTaken(call[c].request.target)
    /\ \A c, d \in Committing :
           call[c].request.target = call[d].request.target => c = d
    /\ Cardinality(Committing) <= Cardinality(Free)
    /\ issued \subseteq DOMAIN keys

(* One call at a time holds the settings of a tenant, and they are the     *)
(* tenant's, unless calls about it overlapped.                             *)
Holds(c, t) == call[c].pc = "write" /\ call[c].request.target = t

KeptInv ==
    \A t \in DOMAIN tenants \ overlapped :
        /\ \A c, d \in Callers : Holds(c, t) /\ Holds(d, t) => c = d
        /\ \A c \in Callers : Holds(c, t) => call[c].read = tenants[t].settings
        /\ tenants[t].settings.design_partner = promised[t].design_partner
        /\ tenants[t].settings.rollout_percentage
               = promised[t].rollout_percentage

(* The changes that wait for their entry.                                  *)
Pendings == {c \in Callers : Pending(call[c])}

AuditInv ==
    /\ audit \in Seq([tenant_id : Tenants, op : {r.op : r \in Requests}])
    /\ effects \in Nat /\ mishaps \in Nat
    /\ Len(audit) + Cardinality(Pendings) <= effects
    /\ effects <= Len(audit) + Cardinality(Pendings)
                      + Cardinality(Callers) * mishaps

-----------------------------------------------------------------------------
(* Records of calls.                                                       *)

LEMMA GoodKinds ==
    ASSUME NEW r, Good(r)
    PROVE  /\ r.pc \in {"begin", "insert", "committing"} => r \in Handling
           /\ r.pc = "write" => r \in Writing
           /\ r.pc = "audit" => r \in Ending
           /\ r.pc = "key" => r.request \in Requests
           /\ r # Idle => r.request \in Requests
BY DEF Good, CallRecord, Handling, Writing, Ending, Idle

LEMMA GoodIdle == Good(Idle) /\ ~Pending(Idle) /\ Idle.pc = "idle"
BY DEF Good, CallRecord, Idle, Pending

(* An answer that commits nothing.                                         *)
LEMMA GoodAnswer ==
    ASSUME NEW req \in Requests, NEW x \in Insiders \cup {Anonymous},
           NEW status \in Nat, ~Writes(req.op, status)
    PROVE  LET r == Answer(req, x, status, None)
           IN  Good(r) /\ r.pc = "audit" /\ ~Pending(r)
<1> DEFINE r == Answer(req, x, status, None)
<1>1. r \in Ending /\ r.pc = "audit" /\ r.key = None
      /\ r.request = req /\ r.status = status
    BY DEF Answer, Ending
<1>2. ~Pending(r)
    BY <1>1 DEF Pending
<1>. QED  BY <1>1, <1>2 DEF Good, CallRecord

(* Steps that neither write rows nor hold any.                             *)
QuietRecord(r) == /\ Good(r)
                  /\ r.pc \in {"idle", "key", "begin", "insert", "audit"}
                  /\ ~Pending(r)

Quiet(c) ==
    /\ \E r : QuietRecord(r) /\ call' = [call EXCEPT ![c] = r]
    /\ ~Pending(call[c])
    /\ UNCHANGED <<database, audit, history, mishaps>>

LEMMA QuietAnswer ==
    ASSUME NEW req \in Requests, NEW x \in Insiders \cup {Anonymous},
           NEW status \in Nat, ~Writes(req.op, status)
    PROVE  QuietRecord(Answer(req, x, status, None))
BY GoodAnswer DEF QuietRecord

LEMMA DispatchQuiet ==
    ASSUME NEW c \in Callers, NEW req \in Requests, NEW x \in Insiders,
           Dispatch(c, req, x)
    PROVE  \E r : QuietRecord(r) /\ call' = [call EXCEPT ![c] = r]
<1> DEFINE Goal == \E r : QuietRecord(r) /\ call' = [call EXCEPT ![c] = r]
<1>1. ASSUME NEW status \in Nat, ~Writes(req.op, status),
             Set(c, Answer(req, x, status, None))
      PROVE  Goal
    BY <1>1, QuietAnswer DEF Set
<1>2. 403 \in Nat /\ ~Writes(req.op, 403) /\ 429 \in Nat /\ ~Writes(req.op, 429)
    BY DEF Writes
<1>3. ASSUME req.op = "me" PROVE 200 \in Nat /\ ~Writes(req.op, 200)
    BY <1>3 DEF Writes, Writers
<1>4. ASSUME Set(c, [pc |-> "begin", request |-> req, context |-> x])
      PROVE  Goal
    <2> DEFINE r == [pc |-> "begin", request |-> req, context |-> x]
    <2>1. r \in Handling /\ r.pc = "begin"
        BY DEF Handling
    <2>2. QuietRecord(r)
        BY <2>1 DEF QuietRecord, Good, CallRecord, Pending
    <2>. QED  BY <1>4, <2>2 DEF Set
<1> HIDE DEF Goal
<1>5. \/ Set(c, Answer(req, x, 403, None))
      \/ Set(c, Answer(req, x, 429, None))
      \/ req.op = "me" /\ Set(c, Answer(req, x, 200, None))
      \/ Set(c, [pc |-> "begin", request |-> req, context |-> x])
    BY DEF Dispatch
<1>6. Goal
    BY <1>1, <1>2, <1>3, <1>4, <1>5
<1>. QED  BY <1>6 DEF Goal

LEMMA ArrivalsQuiet ==
    ASSUME Calling, NEW c \in Callers, NEW req \in Requests,
           \/ ArriveExcluded(c, req) \/ ArriveTokenless(c, req)
           \/ ArriveJwt(c, req) \/ ArriveKey(c, req)
    PROVE  Quiet(c)
<1> DEFINE Goal == \E r : QuietRecord(r) /\ call' = [call EXCEPT ![c] = r]
<1>1. Arrive(c, req)
    BY DEF ArriveExcluded, ArriveTokenless, ArriveJwt, ArriveKey
<1>2. call[c] = Idle /\ UNCHANGED <<database, audit, history, mishaps>>
    BY <1>1 DEF Arrive
<1>3. ~Pending(call[c])
    BY <1>2, GoodIdle
<1>4. ASSUME ArriveExcluded(c, req) PROVE Goal
    <2>1. ~Writes(req.op, 200)
        BY <1>4, RequestsOK DEF ArriveExcluded, Writes, Writers
    <2>2. QuietRecord(Answer(req, Anonymous, 200, None))
        BY <2>1, QuietAnswer
    <2>. QED  BY <1>4, <2>2 DEF ArriveExcluded, Set
<1>5. ASSUME ArriveTokenless(c, req) PROVE Goal
    <2>1. ~Writes(req.op, 401)
        BY DEF Writes
    <2>2. QuietRecord(Answer(req, Anonymous, 401, None))
        BY <2>1, QuietAnswer
    <2>. QED  BY <1>5, <2>2 DEF ArriveTokenless, Set
<1>6. ASSUME ArriveJwt(c, req) PROVE Goal
    <2> DEFINE x == [tenant |-> req.token.tenant, role |-> req.token.role]
    <2>1. req.token # None /\ req.token.type = "jwt" /\ Dispatch(c, req, x)
        BY <1>6 DEF ArriveJwt
    <2>2. req.token.tenant \in Tenants
        BY <2>1, RequestsOK
    <2>3. req.token.role \in Roles
        BY <2>1 DEF Roles
    <2>4. x \in Insiders
        BY <2>2, <2>3 DEF Insiders
    <2>. HIDE DEF x
    <2>. QED  BY <2>1, <2>4, DispatchQuiet
<1>7. ASSUME ArriveKey(c, req) PROVE Goal
    <2> DEFINE r == [pc |-> "key", request |-> req]
    <2>1. r \in CallRecord /\ r.pc = "key"
        BY DEF CallRecord
    <2>2. QuietRecord(r)
        BY <2>1 DEF QuietRecord, Good, Pending
    <2>. QED  BY <1>7, <2>2 DEF ArriveKey, Set
<1> HIDE DEF Goal
<1>8. Goal
    BY <1>4, <1>5, <1>6, <1>7
<1>. QED  BY <1>2, <1>3, <1>8 DEF Goal, Quiet

LEMMA ResolveQuiet ==
    ASSUME Rows, Calling, NEW c \in Callers, ResolveKey(c)
    PROVE  Quiet(c)
<1> DEFINE req == call[c].request
           t   == req.token.tenant
           x   == [tenant |-> t, role |-> None]
           Goal == \E r : QuietRecord(r) /\ call' = [call EXCEPT ![c] = r]
<1>1. /\ call[c].pc = "key"
      /\ UNCHANGED <<database, audit, history, mishaps>>
      /\ IF t \in DOMAIN keys THEN Dispatch(c, req, x)
         ELSE Set(c, Answer(req, Anonymous, 401, None))
    BY DEF ResolveKey
<1>2. req \in Requests /\ ~Pending(call[c])
    BY <1>1, GoodKinds DEF Calling, Pending
<1>3. CASE t \in DOMAIN keys
    <2>1. x \in Insiders
        BY <1>3 DEF Rows, Insiders
    <2>2. Dispatch(c, req, x)
        BY <1>1, <1>3
    <2> HIDE DEF x, req
    <2>3. Goal
        BY <1>2, <2>1, <2>2, DispatchQuiet
    <2>. QED  BY <1>1, <1>2, <2>3 DEF Quiet
<1>4. CASE t \notin DOMAIN keys
    <2>1. ~Writes(req.op, 401)
        BY DEF Writes
    <2>2. QuietRecord(Answer(req, Anonymous, 401, None))
        BY <1>2, <2>1, QuietAnswer
    <2>. QED  BY <1>1, <1>2, <1>4, <2>2 DEF Quiet, Set
<1>. QED  BY <1>3, <1>4

(* What an answer without a commit leaves.                                 *)
LEMMA RespondQuiet ==
    ASSUME Calling, NEW c \in Callers, call[c].pc = "begin",
           NEW status \in Nat, ~Writes(call[c].request.op, status),
           Respond(c, status),
           UNCHANGED <<database, audit, history, mishaps>>
    PROVE  Quiet(c)
<1>1. call[c] \in Handling /\ ~Pending(call[c])
    BY GoodKinds DEF Calling, Pending
<1>2. call[c].request \in Requests /\ call[c].context \in Insiders
    BY <1>1 DEF Handling
<1>3. QuietRecord(Answer(call[c].request, call[c].context, status, None))
    BY <1>2, QuietAnswer
<1>. QED  BY <1>1, <1>3 DEF Quiet, Respond, Set

LEMMA CheckSlugQuiet ==
    ASSUME Calling, NEW c \in Callers, CheckSlug(c)
    PROVE  Quiet(c)
<1>1. /\ call[c].pc = "begin" /\ call[c].request.op = "provision"
      /\ UNCHANGED <<database, audit, history, mishaps>>
      /\ Respond(c, 400) \/ Set(c, [call[c] EXCEPT !.pc = "insert"])
    BY DEF CheckSlug, Handler
<1>2. CASE Respond(c, 400)
    <2>1. 400 \in Nat /\ ~Writes(call[c].request.op, 400)
        BY DEF Writes
    <2>. QED  BY <1>1, <1>2, <2>1, RespondQuiet
<1>3. CASE Set(c, [call[c] EXCEPT !.pc = "insert"])
    <2>1. PICK r : r = [call[c] EXCEPT !.pc = "insert"]
        OBVIOUS
    <2>2. call[c] \in Handling /\ ~Pending(call[c])
        BY <1>1, GoodKinds DEF Calling, Pending
    <2>3. r \in Handling /\ r.pc = "insert" /\ r.request = call[c].request
        BY <2>1, <2>2 DEF Handling
    <2>4. QuietRecord(r)
        BY <1>1, <2>3 DEF QuietRecord, Good, CallRecord, Pending
    <2>. QED  BY <1>1, <1>3, <2>1, <2>2, <2>4 DEF Quiet, Set
<1>. QED  BY <1>1, <1>2, <1>3

LEMMA ShowQuiet ==
    ASSUME Calling, NEW c \in Callers, ShowTenant(c)
    PROVE  Quiet(c)
<1>1. /\ call[c].pc = "begin" /\ call[c].request.op = "show"
      /\ UNCHANGED <<database, audit, history, mishaps>>
      /\ Respond(c, 200) \/ Respond(c, 404)
    BY DEF ShowTenant, Handler
<1>2. ~Writes(call[c].request.op, 200) /\ ~Writes(call[c].request.op, 404)
    BY <1>1 DEF Writes, Writers
<1>. QED  BY <1>1, <1>2, RespondQuiet

-----------------------------------------------------------------------------
(* What every step keeps: rows of tenants and their plan limits stay.      *)

Evolves ==
    /\ DOMAIN tenants \subseteq DOMAIN tenants'
    /\ DOMAIN keys \subseteq DOMAIN keys'
    /\ \A t \in DOMAIN tenants :
           tenants'[t].settings.plan_limits = tenants[t].settings.plan_limits

LEMMA GoodStays ==
    ASSUME NEW r, Good(r), Evolves
    PROVE  Good(r)'
BY DEF Good, Evolves

LEMMA CallingStep ==
    ASSUME Calling, Evolves, NEW c \in Callers, NEW r, Good(r)',
           call' = [call EXCEPT ![c] = r]
    PROVE  /\ Calling'
           /\ call'[c] = r
           /\ \A d \in Callers \ {c} : call'[d] = call[d]
<1>1. r \in CallRecord
    BY DEF Good
<1>2. call' \in [Callers -> CallRecord]
    BY <1>1 DEF Calling
<1>3. call'[c] = r /\ \A d \in Callers \ {c} : call'[d] = call[d]
    BY DEF Calling
<1>4. ASSUME NEW d \in Callers PROVE Good(call[d])'
    <2>1. PICK x : x = call'[d]
        OBVIOUS
    <2>2. Good(x)'
        <3>1. CASE d = c
            BY <1>3, <2>1, <3>1
        <3>2. CASE d # c
            <4>1. PICK y : y = call[d]
                OBVIOUS
            <4>2. Good(y)'
                BY <4>1, GoodStays DEF Calling
            <4>. QED  BY <1>3, <2>1, <3>2, <4>1, <4>2
        <3>. QED  BY <3>1, <3>2
    <2>. QED  BY <2>1, <2>2
<1>. QED  BY <1>2, <1>3, <1>4 DEF Calling

(* A step that only ends calls.                                            *)
Ends == \A d \in Callers :
            call'[d].pc \in {"committing", "write"} => call'[d] = call[d]

LEMMA CommittingFinite ==
    /\ IsFiniteSet(Committing) /\ Cardinality(Committing) \in Nat
    /\ IsFiniteSet(Free) /\ Cardinality(Free) \in Nat
<1>1. Committing \subseteq Callers /\ Free \subseteq Tenants
    BY DEF Committing, Free
<1>2. IsFiniteSet(Callers) /\ IsFiniteSet(Tenants)
    BY ConstantsOK DEF ConstantsOK
<1>. QED  BY <1>1, <1>2, FS_Subset, FS_CardinalityType

LEMMA EndsKeeps ==
    ASSUME Rows, SlugInv, KeptInv, Ends, (issued \subseteq DOMAIN keys)',
           UNCHANGED <<database, promised, overlapped>>
    PROVE  Rows' /\ SlugInv' /\ KeptInv'
<1>1. UNCHANGED <<tenants, owners, keys, promised, overlapped>>
    BY DEF database
<1>2. Rows'
    BY <1>1 DEF Rows
<1>3. \A d \in Committing' : d \in Committing /\ call'[d] = call[d]
    BY DEF Committing, Ends
<1>4. Cardinality(Committing') <= Cardinality(Free')
    <2>1. Committing' \subseteq Committing /\ Free' = Free
        BY <1>1, <1>3 DEF Free
    <2>2. Cardinality(Committing') \in Nat
          /\ Cardinality(Committing') <= Cardinality(Committing)
        BY <2>1, CommittingFinite, FS_Subset, FS_CardinalityType
    <2>3. Cardinality(Committing) <= Cardinality(Free)
        BY DEF SlugInv
    <2>. QED  BY <2>1, <2>2, <2>3, CommittingFinite
<1>5. SlugInv'
    <2>1. \A c \in Committing' : ~SlugTaken(call[c].request.target)'
        BY <1>1, <1>3 DEF SlugInv, SlugTaken
    <2>2. \A c, d \in Committing' :
              call'[c].request.target = call'[d].request.target => c = d
        BY <1>3 DEF SlugInv
    <2>3. \A t, u \in DOMAIN tenants' :
              tenants'[t].slug = tenants'[u].slug => t = u
        BY <1>1 DEF SlugInv
    <2>. QED  BY <1>4, <2>1, <2>2, <2>3 DEF SlugInv
<1>6. \A d \in Callers : \A t : Holds(d, t)' => Holds(d, t) /\ call'[d] = call[d]
    BY DEF Holds, Ends
<1>7. KeptInv'
    BY <1>1, <1>6 DEF KeptInv
<1>. QED  BY <1>2, <1>5, <1>7

(* The calls that wait for their entry, one more or one less.              *)
LEMMA PendingsFinite ==
    /\ IsFiniteSet(Pendings) /\ Cardinality(Pendings) \in Nat
    /\ IsFiniteSet(Callers) /\ Cardinality(Callers) \in Nat
    /\ Cardinality(Pendings) <= Cardinality(Callers)
<1>1. IsFiniteSet(Callers) /\ Pendings \subseteq Callers
    BY ConstantsOK DEF ConstantsOK, Pendings
<1>. QED  BY <1>1, FS_Subset, FS_CardinalityType

LEMMA PendingsStep ==
    ASSUME NEW c \in Callers, \A d \in Callers \ {c} : call'[d] = call[d]
    PROVE  /\ Pending(call[c])' => Pendings' = Pendings \cup {c}
           /\ ~Pending(call[c])' => Pendings' = Pendings \ {c}
           /\ c \in Pendings <=> Pending(call[c])
BY DEF Pendings, Pending

LEMMA PendingsCount ==
    ASSUME NEW c \in Callers, \A d \in Callers \ {c} : call'[d] = call[d]
    PROVE  LET n == Cardinality(Pendings)
               m == Cardinality(Pendings')
           IN  /\ n \in Nat /\ m \in Nat
               /\ (Pending(call[c])' <=> Pending(call[c])) => m = n
               /\ Pending(call[c])' /\ ~Pending(call[c]) => m = n + 1
               /\ ~Pending(call[c])' /\ Pending(call[c]) => m = n - 1
<1>1. IsFiniteSet(Pendings) /\ Cardinality(Pendings) \in Nat
    BY PendingsFinite
<1>2. CASE Pending(call[c])'
    <2>1. Pendings' = Pendings \cup {c} /\ (c \in Pendings <=> Pending(call[c]))
        BY <1>2, PendingsStep
    <2>2. Cardinality(Pendings \cup {c}) =
              IF c \in Pendings THEN Cardinality(Pendings)
              ELSE Cardinality(Pendings) + 1
        BY <1>1, FS_AddElement
    <2>3. CASE Pending(call[c])
        <3>1. Cardinality(Pendings') = Cardinality(Pendings)
            BY <2>1, <2>2, <2>3
        <3>. QED  BY <1>1, <1>2, <2>3, <3>1
    <2>4. CASE ~Pending(call[c])
        <3>1. Cardinality(Pendings') = Cardinality(Pendings) + 1
            BY <2>1, <2>2, <2>4
        <3>. QED  BY <1>1, <1>2, <2>4, <3>1
    <2>. QED  BY <2>3, <2>4
<1>3. CASE ~Pending(call[c])'
    <2>1. Pendings' = Pendings \ {c} /\ (c \in Pendings <=> Pending(call[c]))
        BY <1>3, PendingsStep
    <2>2. Cardinality(Pendings \ {c}) =
              IF c \in Pendings THEN Cardinality(Pendings) - 1
              ELSE Cardinality(Pendings)
        BY <1>1, FS_RemoveElement
    <2>3. CASE Pending(call[c])
        <3>1. Cardinality(Pendings') = Cardinality(Pendings) - 1
            BY <2>1, <2>2, <2>3
        <3>2. Cardinality(Pendings') \in Nat
            BY <2>1, <1>1, FS_Subset, FS_CardinalityType
        <3>. QED  BY <1>1, <1>3, <2>3, <3>1, <3>2
    <2>4. CASE ~Pending(call[c])
        <3>1. Cardinality(Pendings') = Cardinality(Pendings)
            BY <2>1, <2>2, <2>4
        <3>. QED  BY <1>1, <1>3, <2>4, <3>1
    <2>. QED  BY <2>3, <2>4
<1>. QED  BY <1>2, <1>3

-----------------------------------------------------------------------------
(* The steps, one by one.                                                  *)

TenantInv == Rows /\ Calling /\ SlugInv /\ KeptInv /\ AuditInv

LEMMA QuietStep ==
    ASSUME TenantInv, NEW c \in Callers, Quiet(c)
    PROVE  TenantInv'
<1>1. /\ ~Pending(call[c])
      /\ UNCHANGED <<tenants, owners, keys, audit, issued, promised,
                     overlapped, effects, mishaps>>
    BY DEF Quiet, database, history
<1>2. PICK r : QuietRecord(r) /\ call' = [call EXCEPT ![c] = r]
    BY DEF Quiet
<1>3. Evolves
    BY <1>1 DEF Evolves
<1>4. Good(r)' /\ ~Pending(r) /\ r.pc \notin {"committing", "write"}
    BY <1>2, <1>3, GoodStays DEF QuietRecord
<1>5. /\ Calling' /\ call'[c] = r
      /\ \A d \in Callers \ {c} : call'[d] = call[d]
    BY <1>2, <1>3, <1>4, CallingStep DEF TenantInv
<1>6. Ends
    BY <1>4, <1>5 DEF Ends
<1>7. Rows' /\ SlugInv' /\ KeptInv'
    <2>1. (issued \subseteq DOMAIN keys)'
        BY <1>1 DEF TenantInv, SlugInv
    <2>. QED  BY <1>1, <1>6, <2>1, EndsKeeps DEF TenantInv, database
<1>8. AuditInv'
    <2>1. ~Pending(call[c])'
        BY <1>4, <1>5 DEF Pending
    <2>2. Cardinality(Pendings') = Cardinality(Pendings)
        BY <1>1, <1>5, <2>1, PendingsCount
    <2>. QED  BY <1>1, <2>2 DEF TenantInv, AuditInv
<1>. QED  BY <1>5, <1>7, <1>8 DEF TenantInv

(* A mishap ends calls, and may lose the entry of as many changes.         *)
LEMMA MishapAudit ==
    ASSUME AuditInv, UNCHANGED <<audit, effects>>, mishaps' = mishaps + 1,
           Pendings' \subseteq Pendings
    PROVE  AuditInv'
<1> DEFINE n == Cardinality(Pendings)
           m == Cardinality(Pendings')
           N == Cardinality(Callers)
           L == Len(audit)
<1>1. n \in Nat /\ N \in Nat /\ n <= N /\ IsFiniteSet(Pendings)
    BY PendingsFinite
<1>2. m \in Nat /\ m <= n
    BY <1>1, FS_Subset, FS_CardinalityType
<1>3. /\ L \in Nat /\ effects \in Nat /\ mishaps \in Nat
      /\ L + n <= effects /\ effects <= L + n + N * mishaps
    BY LenProperties DEF AuditInv
<1>4. N * (mishaps + 1) = N * mishaps + N /\ N * mishaps \in Nat
    BY <1>1, <1>3
<1>5. L + m <= effects
    BY <1>1, <1>2, <1>3
<1>6. effects <= L + m + N * (mishaps + 1)
    BY <1>1, <1>2, <1>3, <1>4
<1>. QED  BY <1>3, <1>5, <1>6 DEF AuditInv

LEMMA FailsStep ==
    ASSUME TenantInv, NEW c \in Callers, Fails(c)
    PROVE  TenantInv'
<1>1. /\ call' = [call EXCEPT ![c] = Idle] /\ mishaps' = mishaps + 1
      /\ UNCHANGED <<tenants, owners, keys, audit, issued, promised,
                     overlapped, effects>>
    BY DEF Fails, Fault, Set, database, history
<1>2. Evolves
    BY <1>1 DEF Evolves
<1>3. Good(Idle)' /\ ~Pending(Idle) /\ Idle.pc = "idle"
    BY <1>2, GoodIdle, GoodStays
<1>4. /\ Calling' /\ call'[c] = Idle
      /\ \A d \in Callers \ {c} : call'[d] = call[d]
    BY <1>1, <1>2, <1>3, CallingStep DEF TenantInv
<1>5. Ends
    BY <1>3, <1>4 DEF Ends
<1>6. Rows' /\ SlugInv' /\ KeptInv'
    <2>1. (issued \subseteq DOMAIN keys)'
        BY <1>1 DEF TenantInv, SlugInv
    <2>. QED  BY <1>1, <1>5, <2>1, EndsKeeps DEF TenantInv, database
<1>7. Pendings' \subseteq Pendings
    BY <1>3, <1>4 DEF Pendings, Pending
<1>8. AuditInv'
    BY <1>1, <1>7, MishapAudit DEF TenantInv
<1>. QED  BY <1>4, <1>6, <1>8 DEF TenantInv

LEMMA RestartStep ==
    ASSUME TenantInv, Restart
    PROVE  TenantInv'
<1>1. /\ call' = [c \in Callers |-> Idle] /\ mishaps' = mishaps + 1
      /\ UNCHANGED <<tenants, owners, keys, audit, issued, promised,
                     overlapped, effects>>
    BY DEF Restart, Fault, database, history
<1>2. Evolves
    BY <1>1 DEF Evolves
<1>3. Good(Idle)' /\ ~Pending(Idle) /\ Idle.pc = "idle"
    BY <1>2, GoodIdle, GoodStays
<1>4. Calling'
    BY <1>1, <1>3 DEF Calling, CallRecord
<1>5. Ends
    BY <1>1, <1>3 DEF Ends
<1>6. Rows' /\ SlugInv' /\ KeptInv'
    <2>1. (issued \subseteq DOMAIN keys)'
        BY <1>1 DEF TenantInv, SlugInv
    <2>. QED  BY <1>1, <1>5, <2>1, EndsKeeps DEF TenantInv, database
<1>7. Pendings' \subseteq Pendings
    BY <1>1, <1>3 DEF Pendings, Pending
<1>8. AuditInv'
    BY <1>1, <1>7, MishapAudit DEF TenantInv
<1>. QED  BY <1>4, <1>6, <1>8 DEF TenantInv

LEMMA AuditStep ==
    ASSUME TenantInv, NEW c \in Callers, AuditAndAnswer(c)
    PROVE  TenantInv'
<1> DEFINE r == call[c]
           op == r.request.op
           row == [tenant_id |-> r.context.tenant, op |-> op]
<1>1. /\ r.pc = "audit"
      /\ audit' = IF ~Audited(r.request, r.status) \/ ~Writes(op, r.status)
                  THEN audit ELSE Append(audit, row)
      /\ issued' = issued \cup ({r.key} \ {None})
      /\ call' = [call EXCEPT ![c] = Idle]
      /\ UNCHANGED <<tenants, owners, keys, promised, overlapped, effects,
                     mishaps>>
    BY DEF AuditAndAnswer, Set, database
<1>2. Evolves
    BY <1>1 DEF Evolves
<1>3. Good(Idle)' /\ ~Pending(Idle) /\ Idle.pc = "idle"
    BY <1>2, GoodIdle, GoodStays
<1>4. /\ Calling' /\ call'[c] = Idle
      /\ \A d \in Callers \ {c} : call'[d] = call[d]
    BY <1>1, <1>2, <1>3, CallingStep DEF TenantInv
<1>5. Ends
    BY <1>3, <1>4 DEF Ends
<1>6. Good(r) /\ r \in Ending
    BY <1>1, GoodKinds DEF TenantInv, Calling
<1>7. Rows' /\ SlugInv' /\ KeptInv'
    <2>1. (issued \subseteq DOMAIN keys)'
        BY <1>1, <1>6 DEF TenantInv, SlugInv, Good
    <2>. QED  BY <1>1, <1>5, <2>1, EndsKeeps DEF TenantInv, database
<1>8. AuditInv'
    <2> DEFINE Row == [tenant_id : Tenants, op : {q.op : q \in Requests}]
               n == Cardinality(Pendings)
               m == Cardinality(Pendings')
    <2>1. n \in Nat /\ m \in Nat /\ (Pending(r) => m = n - 1)
          /\ (~Pending(r) => m = n)
        <3>1. ~Pending(call[c])'
            BY <1>3, <1>4 DEF Pending
        <3>. QED  BY <1>4, <3>1, PendingsCount
    <2>2. audit \in Seq(Row) /\ effects \in Nat /\ mishaps \in Nat
        BY DEF TenantInv, AuditInv
    <2>3. CASE ~Pending(r)
        <3>1. audit' = audit
            BY <1>1, <2>3 DEF Pending
        <3>. QED  BY <1>1, <2>1, <2>3, <3>1 DEF TenantInv, AuditInv
    <2>4. CASE Pending(r)
        <3>1. r.request \in Requests /\ r.context \in Insiders
            BY <1>6, <2>4 DEF Ending, Good
        <3>2. Audited(r.request, r.status)
            <4>1. op \in Writers \cup {"provision"}
                BY <2>4 DEF Pending, Writes
            <4>2. r.request.path \notin ExcludedPaths
                BY <3>1, <4>1, RequestsOK DEF Writers
            <4>. QED  BY <4>2 DEF Audited, ExcludedPaths
        <3>3. audit' = Append(audit, row)
            BY <1>1, <2>4, <3>2 DEF Pending
        <3>4. row \in Row
            BY <3>1 DEF Insiders
        <3>5. audit' \in Seq(Row) /\ Len(audit') = Len(audit) + 1
              /\ Len(audit) \in Nat
            BY <2>2, <3>3, <3>4, AppendProperties, LenProperties
        <3>6. effects' = effects /\ mishaps' = mishaps /\ m = n - 1
            BY <1>1, <2>1, <2>4
        <3>7. Len(audit') + m = Len(audit) + n
            BY <2>1, <3>5, <3>6
        <3>8. /\ Len(audit) + n <= effects
              /\ effects <= Len(audit) + n + Cardinality(Callers) * mishaps
            BY DEF TenantInv, AuditInv
        <3>9. /\ Len(audit') + m <= effects'
              /\ effects' <= Len(audit') + m + Cardinality(Callers) * mishaps'
            BY <3>6, <3>7, <3>8
        <3>. QED  BY <2>2, <3>5, <3>6, <3>9 DEF AuditInv
    <2>. QED  BY <2>3, <2>4
<1>. QED  BY <1>4, <1>7, <1>8 DEF TenantInv

LEMMA InsertStep ==
    ASSUME TenantInv, NEW c \in Callers, InsertTenant(c)
    PROVE  TenantInv'
<1> DEFINE slug == call[c].request.target
<1>1. /\ call[c].pc = "insert" /\ call[c].request.op = "provision"
      /\ ~SlugPending(slug)
      /\ Cardinality(Free) > Cardinality(Committing)
      /\ IF SlugTaken(slug) THEN Set(c, Idle)
         ELSE Set(c, [call[c] EXCEPT !.pc = "committing"])
      /\ UNCHANGED <<database, audit, history, mishaps>>
    BY DEF InsertTenant, Handler, Free, Committing
<1>2. ~Pending(call[c])
    BY <1>1 DEF Pending
<1>3. CASE SlugTaken(slug)
    <2>1. QuietRecord(Idle) /\ call' = [call EXCEPT ![c] = Idle]
        BY <1>1, <1>3, GoodIdle DEF Set, QuietRecord
    <2>2. Quiet(c)
        BY <1>1, <1>2, <2>1 DEF Quiet
    <2>. QED  BY <2>2, QuietStep
<1>4. CASE ~SlugTaken(slug)
    <2>1. PICK r : r = [call[c] EXCEPT !.pc = "committing"]
        OBVIOUS
    <2>2. call' = [call EXCEPT ![c] = r]
        BY <1>1, <1>4, <2>1 DEF Set
    <2>3. UNCHANGED <<tenants, owners, keys, audit, issued, promised,
                      overlapped, effects, mishaps>>
        BY <1>1 DEF database, history
    <2>4. Evolves
        BY <2>3 DEF Evolves
    <2>5. call[c] \in Handling
        BY <1>1, GoodKinds DEF TenantInv, Calling
    <2>6. r \in Handling /\ r.pc = "committing" /\ r.request = call[c].request
        BY <2>1, <2>5 DEF Handling
    <2>7. Good(r) /\ ~Pending(r)
        BY <1>1, <2>6 DEF Good, CallRecord, Pending
    <2>8. /\ Calling' /\ call'[c] = r
          /\ \A d \in Callers \ {c} : call'[d] = call[d]
        BY <2>2, <2>4, <2>7, GoodStays, CallingStep DEF TenantInv
    <2>9. Rows'
        BY <2>3 DEF TenantInv, Rows
    <2>10. Committing' = Committing \cup {c} /\ c \notin Committing
        BY <1>1, <2>6, <2>8 DEF Committing
    <2>11. Cardinality(Committing') <= Cardinality(Free')
        <3>1. Cardinality(Committing') = Cardinality(Committing) + 1
            BY <2>10, CommittingFinite, FS_AddElement
        <3>2. Free' = Free
            BY <2>3 DEF Free
        <3>. QED  BY <1>1, <3>1, <3>2, CommittingFinite
    <2>12. SlugInv'
        <3>1. \A d \in Committing : call'[d] = call[d]
                                    /\ call[d].request.target # slug
            BY <1>1, <2>8, <2>10 DEF Committing, SlugPending
        <3>2. call'[c].request.target = slug
            BY <2>6, <2>8
        <3>3. \A d \in Committing' : ~SlugTaken(call[d].request.target)'
            BY <1>4, <2>3, <2>10, <3>1, <3>2 DEF TenantInv, SlugInv, SlugTaken
        <3>4. \A d, e \in Committing' :
                  call'[d].request.target = call'[e].request.target => d = e
            BY <2>10, <3>1, <3>2 DEF TenantInv, SlugInv
        <3>. QED  BY <2>3, <2>11, <3>3, <3>4 DEF TenantInv, SlugInv
    <2>13. KeptInv'
        <3>1. \A d \in Callers : \A t : Holds(d, t)' =>
                                        Holds(d, t) /\ call'[d] = call[d]
            BY <2>6, <2>8 DEF Holds
        <3>. QED  BY <2>3, <3>1 DEF TenantInv, KeptInv
    <2>14. AuditInv'
        <3>1. ~Pending(call[c])'
            BY <2>7, <2>8 DEF Pending
        <3>2. Cardinality(Pendings') = Cardinality(Pendings)
            BY <1>2, <2>8, <3>1, PendingsCount
        <3>. QED  BY <2>3, <3>2 DEF TenantInv, AuditInv
    <2>. QED  BY <2>8, <2>9, <2>12, <2>13, <2>14 DEF TenantInv
<1>. QED  BY <1>3, <1>4

(* A change and the call that waits for its entry.                         *)
LEMMA EffectAudit ==
    ASSUME AuditInv, NEW c \in Callers,
           \A d \in Callers \ {c} : call'[d] = call[d],
           ~Pending(call[c]), Pending(call[c])',
           UNCHANGED <<audit, mishaps>>, effects' = effects + 1
    PROVE  AuditInv'
<1> DEFINE n == Cardinality(Pendings)
           m == Cardinality(Pendings')
           B == Cardinality(Callers) * mishaps
<1>1. n \in Nat /\ m = n + 1
    BY PendingsCount
<1>2. /\ Len(audit) \in Nat /\ effects \in Nat /\ mishaps \in Nat
      /\ Len(audit) + n <= effects /\ effects <= Len(audit) + n + B
    BY LenProperties DEF AuditInv
<1>3. B \in Nat
    BY <1>2, PendingsFinite
<1> HIDE DEF B
<1>4. /\ Len(audit) + m <= effects + 1 /\ effects + 1 <= Len(audit) + m + B
    BY <1>1, <1>2, <1>3
<1>. QED  BY <1>2, <1>4 DEF AuditInv, B

LEMMA CommitStep ==
    ASSUME TenantInv, NEW c \in Callers, CommitTenant(c)
    PROVE  TenantInv'
<1>1. PICK t : t = CHOOSE u \in Tenants : u \notin DOMAIN tenants
    OBVIOUS
<1>2. PICK req : req = call[c].request
    OBVIOUS
<1>3. PICK r : r = Answer(req, call[c].context, 200, t)
    OBVIOUS
<1> DEFINE row == [slug |-> req.target, settings |-> Fresh]
<1>4. /\ call[c].pc = "committing" /\ req.op = "provision"
      /\ tenants' = With(tenants, t, row)
      /\ owners' = With(owners, t, 1)
      /\ keys' = With(keys, t, 1)
      /\ promised' = With(promised, t, [design_partner |-> FALSE,
                                        rollout_percentage |-> 0])
      /\ effects' = effects + 1
      /\ call' = [call EXCEPT ![c] = r]
      /\ UNCHANGED <<audit, issued, overlapped, mishaps>>
    BY <1>1, <1>2, <1>3 DEF CommitTenant, Handler, Set
<1>5. c \in Committing
    BY <1>4 DEF Committing
<1>6. t \in Free
    <2>1. Cardinality(Committing) # 0
        BY <1>5, CommittingFinite, FS_EmptySet
    <2>2. Cardinality(Free) # 0
        BY <2>1, CommittingFinite DEF TenantInv, SlugInv
    <2>3. Free # {}
        BY <2>2, CommittingFinite, FS_EmptySet
    <2>. QED  BY <1>1, <2>3 DEF Free
<1>7. /\ DOMAIN tenants' = DOMAIN tenants \cup {t}
      /\ tenants'[t] = row
      /\ \A u \in DOMAIN tenants : tenants'[u] = tenants[u]
      /\ DOMAIN owners' = DOMAIN tenants \cup {t}
      /\ DOMAIN keys' = DOMAIN tenants \cup {t}
      /\ t \in Tenants /\ t \notin DOMAIN tenants
    BY <1>4, <1>6 DEF With, Free, TenantInv, Rows
<1>8. Evolves
    BY <1>7 DEF Evolves, TenantInv, Rows
<1>9. call[c] \in Handling /\ req \in Requests /\ call[c].context \in Insiders
    <2>1. call[c] \in Handling
        BY <1>4, GoodKinds DEF TenantInv, Calling
    <2>. QED  BY <1>2, <2>1 DEF Handling
<1>10. r \in Ending /\ r.pc = "audit" /\ r.key = t /\ r.context \in Insiders
       /\ Pending(r)
    <2>1. r = [pc |-> "audit", request |-> req, context |-> call[c].context,
               status |-> 200, key |-> t]
        BY <1>3 DEF Answer
    <2>2. r \in Ending
        BY <1>7, <1>9, <2>1 DEF Ending
    <2>. QED  BY <1>4, <1>9, <2>1, <2>2 DEF Pending, Writes
<1>11. Good(r)'
    BY <1>7, <1>10 DEF Good, CallRecord
<1>12. /\ Calling' /\ call'[c] = r
       /\ \A d \in Callers \ {c} : call'[d] = call[d]
    BY <1>4, <1>8, <1>11, CallingStep DEF TenantInv
<1>13. Rows'
    <2>1. row \in [slug : Slugs, settings : Settings]
        BY <1>9 DEF Slugs, Settings, Fresh, Values
    <2>2. tenants' \in [DOMAIN tenants' -> [slug : Slugs, settings : Settings]]
        <3>1. \A u \in DOMAIN tenants' :
                  tenants'[u] \in [slug : Slugs, settings : Settings]
            BY <1>7, <2>1 DEF TenantInv, Rows
        <3>2. tenants' = [u \in DOMAIN tenants' |-> tenants'[u]]
            BY <1>4 DEF With
        <3>. QED  BY <3>1, <3>2
    <2>3. promised' \in [DOMAIN tenants' -> [design_partner : BOOLEAN,
                                             rollout_percentage : Values]]
        <3>1. [design_partner |-> FALSE, rollout_percentage |-> 0]
              \in [design_partner : BOOLEAN, rollout_percentage : Values]
            BY DEF Values
        <3>2. promised \in [DOMAIN tenants -> [design_partner : BOOLEAN,
                                               rollout_percentage : Values]]
            BY DEF TenantInv, Rows
        <3>. QED  BY <1>4, <1>7, <3>1, <3>2 DEF With
    <2>. QED  BY <1>7, <2>2, <2>3 DEF TenantInv, Rows
<1>14. SlugInv'
    <2>1. Committing' = Committing \ {c}
        BY <1>10, <1>12 DEF Committing
    <2>2. Cardinality(Committing') <= Cardinality(Free')
        <3>1. Free' = Free \ {t}
            BY <1>7 DEF Free
        <3>2. Cardinality(Free') = Cardinality(Free) - 1
            BY <1>6, <3>1, CommittingFinite, FS_RemoveElement
        <3>3. Cardinality(Committing') = Cardinality(Committing) - 1
            BY <1>5, <2>1, CommittingFinite, FS_RemoveElement
        <3>. QED  BY <3>2, <3>3, CommittingFinite DEF TenantInv, SlugInv
    <2>3. ~SlugTaken(req.target)
        BY <1>2, <1>5 DEF TenantInv, SlugInv
    <2>4. \A u, v \in DOMAIN tenants' :
              tenants'[u].slug = tenants'[v].slug => u = v
        BY <1>7, <2>3 DEF TenantInv, SlugInv, SlugTaken
    <2>5. \A d \in Committing' : call'[d] = call[d]
                                 /\ call[d].request.target # req.target
        BY <1>2, <1>5, <1>12, <2>1 DEF TenantInv, SlugInv, Committing
    <2>6. \A d \in Committing' : ~SlugTaken(call[d].request.target)'
        BY <1>7, <2>1, <2>5 DEF TenantInv, SlugInv, SlugTaken
    <2>7. \A d, e \in Committing' :
              call'[d].request.target = call'[e].request.target => d = e
        BY <2>1, <2>5 DEF TenantInv, SlugInv
    <2>8. (issued \subseteq DOMAIN keys)'
        BY <1>4, <1>7 DEF TenantInv, SlugInv, Rows
    <2>. QED  BY <2>2, <2>4, <2>6, <2>7, <2>8 DEF SlugInv
<1>15. KeptInv'
    <2>1. \A d \in Callers : \A u : Holds(d, u)' =>
              u \in DOMAIN tenants /\ Holds(d, u) /\ call'[d] = call[d]
        BY <1>10, <1>12 DEF Holds, TenantInv, Calling, Good
    <2>2. promised'[t] = [design_partner |-> FALSE, rollout_percentage |-> 0]
          /\ \A u \in DOMAIN tenants : promised'[u] = promised[u]
        BY <1>4, <1>7 DEF With, TenantInv, Rows
    <2>3. SUFFICES ASSUME NEW u \in DOMAIN tenants \cup {t}, u \notin overlapped
                   PROVE
              /\ \A d, e \in Callers : Holds(d, u)' /\ Holds(e, u)' => d = e
              /\ \A d \in Callers : Holds(d, u)' =>
                     call'[d].read = tenants'[u].settings
              /\ tenants'[u].settings.design_partner
                     = promised'[u].design_partner
              /\ tenants'[u].settings.rollout_percentage
                     = promised'[u].rollout_percentage
        BY <1>4, <1>7 DEF KeptInv
    <2>4. CASE u = t
        <3>1. \A d \in Callers : ~Holds(d, u)'
            BY <1>7, <2>1, <2>4
        <3>2. tenants'[u].settings = Fresh
            BY <1>7, <2>4
        <3>3. /\ Fresh.design_partner = FALSE
              /\ Fresh.rollout_percentage = 0
            BY DEF Fresh
        <3>4. PICK p : p = [design_partner |-> FALSE, rollout_percentage |-> 0]
            OBVIOUS
        <3>5. p.design_partner = FALSE /\ p.rollout_percentage = 0
            BY <3>4
        <3>6. promised'[u] = p
            BY <2>2, <2>4, <3>4
        <3>. QED  BY <3>1, <3>2, <3>3, <3>5, <3>6
    <2>5. CASE u # t
        <3>1. tenants'[u] = tenants[u] /\ promised'[u] = promised[u]
            BY <1>7, <2>2, <2>3, <2>5
        <3>. QED  BY <2>1, <2>3, <2>5, <3>1 DEF TenantInv, KeptInv
    <2>. QED  BY <2>4, <2>5
<1>16. AuditInv'
    <2>1. ~Pending(call[c]) /\ Pending(call[c])'
        BY <1>4, <1>10, <1>12 DEF Pending
    <2>. QED  BY <1>4, <1>12, <2>1, EffectAudit DEF TenantInv
<1>. QED  BY <1>12, <1>13, <1>14, <1>15, <1>16 DEF TenantInv

LEMMA ReadStep ==
    ASSUME TenantInv, NEW c \in Callers, ReadTenant(c)
    PROVE  TenantInv'
<1>1. PICK t : t = call[c].request.target
    OBVIOUS
<1>2. /\ call[c].pc = "begin" /\ call[c].request.op \in Writers
      /\ UNCHANGED <<tenants, owners, keys, audit, issued, promised, effects,
                     mishaps>>
    BY DEF ReadTenant, database
<1>3. call[c] \in Handling /\ ~Pending(call[c])
    BY <1>2, GoodKinds DEF TenantInv, Calling, Pending
<1>4. CASE t \notin DOMAIN tenants
    <2>1. Respond(c, 404) /\ UNCHANGED <<database, audit, history, mishaps>>
        BY <1>1, <1>2, <1>4 DEF ReadTenant, database, history
    <2>2. 404 \in Nat /\ ~Writes(call[c].request.op, 404)
        BY DEF Writes
    <2>. QED  BY <1>2, <2>1, <2>2, RespondQuiet, QuietStep DEF TenantInv
<1>5. CASE t \in DOMAIN tenants
    <2>1. PICK r : r = [pc |-> "write", request |-> call[c].request,
                        context |-> call[c].context,
                        read |-> tenants[t].settings]
        OBVIOUS
    <2>2. /\ call' = [call EXCEPT ![c] = r]
          /\ overlapped' =
                 IF \E d \in Callers \ {c} : Holds(d, t)
                 THEN overlapped \cup {t} ELSE overlapped
        BY <1>1, <1>5, <2>1 DEF ReadTenant, Set, Holds
    <2>3. Evolves
        BY <1>2 DEF Evolves
    <2>4. tenants[t].settings \in Settings
        BY <1>5 DEF TenantInv, Rows
    <2>5. /\ r \in Writing /\ r.pc = "write" /\ r.request = call[c].request
          /\ r.read = tenants[t].settings
        BY <1>3, <2>1, <2>4 DEF Handling, Writing
    <2>6. Good(r) /\ ~Pending(r)
        BY <1>1, <1>2, <1>5, <2>5 DEF Good, CallRecord, Pending
    <2>7. /\ Calling' /\ call'[c] = r
          /\ \A d \in Callers \ {c} : call'[d] = call[d]
        BY <2>2, <2>3, <2>6, GoodStays, CallingStep DEF TenantInv
    <2>8. Rows'
        BY <1>2 DEF TenantInv, Rows
    <2>9. SlugInv'
        <3>1. Committing' = Committing /\ Free' = Free
              /\ \A d \in Committing : call'[d] = call[d]
            BY <1>2, <2>5, <2>7 DEF Committing, Free
        <3>2. \A d \in Committing' : ~SlugTaken(call[d].request.target)'
            BY <1>2, <3>1 DEF TenantInv, SlugInv, SlugTaken
        <3>. QED  BY <1>2, <3>1, <3>2 DEF TenantInv, SlugInv
    <2>10. KeptInv'
        <3>1. SUFFICES ASSUME NEW u \in DOMAIN tenants, u \notin overlapped'
                       PROVE  /\ \A d, e \in Callers :
                                     Holds(d, u)' /\ Holds(e, u)' => d = e
                              /\ \A d \in Callers : Holds(d, u)' =>
                                     call'[d].read = tenants[u].settings
            BY <1>2, <2>2 DEF TenantInv, KeptInv
        <3>2. u \notin overlapped
            BY <2>2, <3>1
        <3>3. \A d \in Callers \ {c} : Holds(d, u)' <=> Holds(d, u)
            BY <2>7 DEF Holds
        <3>4. Holds(c, u)' <=> u = t
            BY <1>1, <2>5, <2>7 DEF Holds
        <3>5. CASE u = t
            <4>1. \A d \in Callers \ {c} : ~Holds(d, u)
                BY <2>2, <3>1, <3>5
            <4>. QED  BY <2>5, <2>7, <3>3, <3>4, <3>5, <4>1
        <3>6. CASE u # t
            BY <2>7, <3>2, <3>3, <3>4, <3>6 DEF TenantInv, KeptInv
        <3>. QED  BY <3>5, <3>6
    <2>11. AuditInv'
        <3>1. ~Pending(call[c])'
            BY <2>6, <2>7 DEF Pending
        <3>2. Cardinality(Pendings') = Cardinality(Pendings)
            BY <1>3, <2>7, <3>1, PendingsCount
        <3>. QED  BY <1>2, <3>2 DEF TenantInv, AuditInv
    <2>. QED  BY <2>7, <2>8, <2>9, <2>10, <2>11 DEF TenantInv
<1>. QED  BY <1>4, <1>5

(* What a change leaves alone.                                             *)
LEMMA ChangedFacts ==
    ASSUME NEW s \in Settings, NEW req \in Requests, req.op \in Writers
    PROVE  /\ Changed(s, req) \in Settings
           /\ Changed(s, req).plan_limits = s.plan_limits
           /\ Changed(s, req).design_partner =
                  IF req.op = "enroll" THEN TRUE ELSE s.design_partner
           /\ Changed(s, req).rollout_percentage =
                  IF req.op = "enroll" THEN s.rollout_percentage ELSE req.value
BY DEF Changed, Settings, Values

LEMMA WriteStep ==
    ASSUME TenantInv, NEW c \in Callers, WriteSettings(c)
    PROVE  TenantInv'
<1>1. PICK req : req = call[c].request
    OBVIOUS
<1>2. PICK t : t = req.target
    OBVIOUS
<1>3. PICK old : old = call[c].read
    OBVIOUS
<1>4. PICK new : new = Changed(old, req)
    OBVIOUS
<1>5. PICK r : r = Answer(req, call[c].context, 200, None)
    OBVIOUS
<1>6. /\ call[c].pc = "write"
      /\ tenants' = IF new = old THEN tenants
                    ELSE [tenants EXCEPT ![t].settings = new]
      /\ promised' = [promised EXCEPT ![t] =
             IF req.op = "enroll" THEN [@ EXCEPT !.design_partner = TRUE]
             ELSE [@ EXCEPT !.rollout_percentage = req.value]]
      /\ effects' = effects + 1
      /\ call' = [call EXCEPT ![c] = r]
      /\ UNCHANGED <<owners, keys, audit, issued, overlapped, mishaps>>
    BY <1>1, <1>2, <1>3, <1>4, <1>5 DEF WriteSettings, Respond, Set
<1>7. /\ req.op \in Writers /\ t \in DOMAIN tenants
      /\ old.plan_limits = tenants[t].settings.plan_limits
      /\ req \in Requests /\ old \in Settings /\ call[c].context \in Insiders
    <2>1. Good(call[c]) /\ call[c] \in Writing
        BY <1>6, GoodKinds DEF TenantInv, Calling
    <2>2. /\ call[c].request \in Requests /\ call[c].read \in Settings
          /\ call[c].context \in Insiders
        BY <2>1 DEF Writing
    <2>. QED  BY <1>1, <1>2, <1>3, <1>6, <2>1, <2>2 DEF Good
<1>8. /\ new \in Settings /\ new.plan_limits = old.plan_limits
      /\ new.design_partner =
             IF req.op = "enroll" THEN TRUE ELSE old.design_partner
      /\ new.rollout_percentage =
             IF req.op = "enroll" THEN old.rollout_percentage ELSE req.value
    BY <1>4, <1>7, ChangedFacts
<1>9. /\ DOMAIN tenants' = DOMAIN tenants
      /\ \A u \in DOMAIN tenants \ {t} : tenants'[u] = tenants[u]
      /\ tenants'[t].slug = tenants[t].slug
      /\ tenants'[t].settings = IF new = old THEN tenants[t].settings ELSE new
      /\ tenants' \in [DOMAIN tenants' -> [slug : Slugs, settings : Settings]]
    <2>1. tenants \in [DOMAIN tenants -> [slug : Slugs, settings : Settings]]
        BY DEF TenantInv, Rows
    <2>2. CASE new = old
        BY <1>6, <2>1, <2>2
    <2>3. CASE new # old
        <3>1. tenants' = [tenants EXCEPT ![t].settings = new]
            BY <1>6, <2>3
        <3>2. tenants[t] \in [slug : Slugs, settings : Settings]
            BY <1>7, <2>1
        <3>. QED  BY <1>7, <1>8, <2>1, <2>3, <3>1, <3>2
    <2>. QED  BY <2>2, <2>3
<1>10. Evolves
    BY <1>6, <1>7, <1>8, <1>9 DEF Evolves
<1>11. r \in Ending /\ r.pc = "audit" /\ r.key = None
       /\ r.context \in Insiders /\ Pending(r)
    <2>1. r = [pc |-> "audit", request |-> req, context |-> call[c].context,
               status |-> 200, key |-> None]
        BY <1>5 DEF Answer
    <2>2. r \in Ending
        BY <1>7, <2>1 DEF Ending
    <2>. QED  BY <1>7, <2>1, <2>2 DEF Pending, Writes
<1>12. Good(r)'
    BY <1>11 DEF Good, CallRecord
<1>13. /\ Calling' /\ call'[c] = r
       /\ \A d \in Callers \ {c} : call'[d] = call[d]
    BY <1>6, <1>10, <1>12, CallingStep DEF TenantInv
<1> DEFINE Promise == [design_partner : BOOLEAN, rollout_percentage : Values]
<1>14. /\ promised' \in [DOMAIN tenants -> Promise]
       /\ \A u \in DOMAIN tenants \ {t} : promised'[u] = promised[u]
       /\ promised'[t].design_partner =
              IF req.op = "enroll" THEN TRUE ELSE promised[t].design_partner
       /\ promised'[t].rollout_percentage =
              IF req.op = "enroll" THEN promised[t].rollout_percentage
              ELSE req.value
    <2>1. promised \in [DOMAIN tenants -> Promise]
        BY DEF TenantInv, Rows
    <2>2. PICK p \in Promise : p = promised[t]
        BY <1>7, <2>1
    <2>3. PICK q : q = IF req.op = "enroll"
                       THEN [p EXCEPT !.design_partner = TRUE]
                       ELSE [p EXCEPT !.rollout_percentage = req.value]
        OBVIOUS
    <2>4. /\ q \in Promise
          /\ q.design_partner =
                 IF req.op = "enroll" THEN TRUE ELSE p.design_partner
          /\ q.rollout_percentage =
                 IF req.op = "enroll" THEN p.rollout_percentage ELSE req.value
        BY <1>7, <2>2, <2>3 DEF Values
    <2>5. promised' = [promised EXCEPT ![t] = q]
        BY <1>6, <2>2, <2>3
    <2>. QED  BY <1>7, <2>1, <2>2, <2>4, <2>5
<1> HIDE DEF Promise
<1>15. Rows'
    BY <1>6, <1>7, <1>8, <1>9, <1>10, <1>14 DEF TenantInv, Rows, Evolves, Promise
<1>16. SlugInv'
    <2>1. Committing' = Committing /\ Free' = Free
          /\ \A d \in Committing : call'[d] = call[d]
        BY <1>6, <1>9, <1>11, <1>13 DEF Committing, Free
    <2>2. \A u \in DOMAIN tenants : tenants'[u].slug = tenants[u].slug
        BY <1>9
    <2>3. \A d \in Committing' : ~SlugTaken(call[d].request.target)'
        BY <1>9, <2>1, <2>2 DEF TenantInv, SlugInv, SlugTaken
    <2>4. \A u, v \in DOMAIN tenants' :
              tenants'[u].slug = tenants'[v].slug => u = v
        BY <1>9, <2>2 DEF TenantInv, SlugInv
    <2>. QED  BY <1>6, <2>1, <2>3, <2>4 DEF TenantInv, SlugInv
<1>17. KeptInv'
    <2>1. SUFFICES ASSUME NEW u \in DOMAIN tenants, u \notin overlapped
                   PROVE
              /\ \A d, e \in Callers : Holds(d, u)' /\ Holds(e, u)' => d = e
              /\ \A d \in Callers : Holds(d, u)' =>
                     call'[d].read = tenants'[u].settings
              /\ tenants'[u].settings.design_partner
                     = promised'[u].design_partner
              /\ tenants'[u].settings.rollout_percentage
                     = promised'[u].rollout_percentage
        BY <1>6, <1>9 DEF KeptInv
    <2>2. \A d \in Callers : Holds(d, u)' =>
              d # c /\ Holds(d, u) /\ call'[d] = call[d]
        BY <1>11, <1>13 DEF Holds
    <2>3. CASE u = t
        <3>1. Holds(c, u)
            BY <1>1, <1>2, <1>6, <2>3 DEF Holds
        <3>2. old = tenants[t].settings
            BY <1>3, <2>1, <2>3, <3>1 DEF TenantInv, KeptInv
        <3>3. tenants'[t].settings = new
            BY <1>9, <3>2
        <3>4. \A d \in Callers : ~Holds(d, u)'
            BY <2>1, <2>2, <3>1 DEF TenantInv, KeptInv
        <3>5. /\ old.design_partner = promised[t].design_partner
              /\ old.rollout_percentage = promised[t].rollout_percentage
            BY <2>1, <2>3, <3>2 DEF TenantInv, KeptInv
        <3>. QED  BY <1>8, <1>14, <2>3, <3>3, <3>4, <3>5
    <2>4. CASE u # t
        BY <1>9, <1>14, <2>1, <2>2, <2>4 DEF TenantInv, KeptInv
    <2>. QED  BY <2>3, <2>4
<1>18. AuditInv'
    <2>1. ~Pending(call[c]) /\ Pending(call[c])'
        BY <1>6, <1>11, <1>13 DEF Pending
    <2>. QED  BY <1>6, <1>13, <2>1, EffectAudit DEF TenantInv
<1>. QED  BY <1>13, <1>15, <1>16, <1>17, <1>18 DEF TenantInv

-----------------------------------------------------------------------------
(* The invariant.                                                          *)

LEMMA UnchangedStep ==
    ASSUME TenantInv,
           UNCHANGED <<tenants, owners, keys, audit, call, issued, promised,
                       overlapped, effects, mishaps>>
    PROVE  TenantInv'
<1>1. Evolves
    BY DEF Evolves
<1>2. (issued \subseteq DOMAIN keys)' /\ Ends
    BY DEF TenantInv, SlugInv, Ends
<1>3. Rows' /\ SlugInv' /\ KeptInv'
    BY <1>2, EndsKeeps DEF TenantInv, database
<1>4. Calling'
    BY DEF TenantInv, Calling, Good
<1>5. Pendings' = Pendings
    BY DEF Pendings, Pending
<1>6. AuditInv'
    BY <1>5 DEF TenantInv, AuditInv
<1>. QED  BY <1>3, <1>4, <1>6 DEF TenantInv

LEMMA InitHolds ==
    ASSUME Init
    PROVE  TenantInv
<1>1. /\ tenants = [t \in {Founder} |-> [slug |-> FounderSlug,
                       settings |-> [Fresh EXCEPT !.plan_limits = Override]]]
      /\ owners = [t \in {Founder} |-> 1] /\ keys = [t \in {Founder} |-> 1]
      /\ audit = << >> /\ call = [c \in Callers |-> Idle]
      /\ issued = {Founder}
      /\ promised = [t \in {Founder} |-> [design_partner |-> FALSE,
                                          rollout_percentage |-> 0]]
      /\ overlapped = {} /\ effects = 0 /\ mishaps = 0
    BY DEF Init
<1>2. /\ DOMAIN tenants = {Founder}
      /\ tenants[Founder].settings =
             [plan_limits |-> Override, design_partner |-> FALSE,
              rollout_percentage |-> 0]
      /\ tenants[Founder].slug = FounderSlug
    BY <1>1 DEF Fresh
<1>3. Rows
    BY <1>1, <1>2, ConstantsOK DEF Rows, ConstantsOK, Settings, Slugs, Values,
                                  Fresh
<1>4. Calling
    BY <1>1, GoodIdle DEF Calling, Good
<1>5. Committing = {} /\ Pendings = {}
    BY <1>1, GoodIdle DEF Committing, Pendings
<1>6. Cardinality(Committing) = 0 /\ Cardinality(Pendings) = 0
    BY <1>5, FS_EmptySet
<1>7. SlugInv
    BY <1>1, <1>2, <1>5, <1>6, CommittingFinite DEF SlugInv
<1>8. KeptInv
    <2>1. \A c \in Callers, t \in DOMAIN tenants : ~Holds(c, t)
        BY <1>1, GoodIdle DEF Holds
    <2>2. /\ tenants[Founder].settings.design_partner = FALSE
          /\ tenants[Founder].settings.rollout_percentage = 0
          /\ promised[Founder].design_partner = FALSE
          /\ promised[Founder].rollout_percentage = 0
        BY <1>1, <1>2
    <2>. QED  BY <1>2, <2>1, <2>2 DEF KeptInv
<1>9. AuditInv
    <2>1. Len(audit) = 0
          /\ audit \in Seq([tenant_id : Tenants, op : {r.op : r \in Requests}])
        BY <1>1
    <2>2. Cardinality(Callers) * mishaps = 0
        BY <1>1, PendingsFinite
    <2>. QED  BY <1>1, <1>6, <2>1, <2>2 DEF AuditInv
<1>. QED  BY <1>3, <1>4, <1>7, <1>8, <1>9 DEF TenantInv

LEMMA NextHolds ==
    ASSUME TenantInv, [Next]_vars
    PROVE  TenantInv'
<1> DEFINE Goal == TenantInv'
<1>1. ASSUME NEW c \in Callers, NEW req \in Requests,
             \/ ArriveExcluded(c, req) \/ ArriveTokenless(c, req)
             \/ ArriveJwt(c, req) \/ ArriveKey(c, req)
      PROVE  Goal
    <2>1. Quiet(c)
        BY <1>1, ArrivalsQuiet DEF TenantInv
    <2>. QED  BY <2>1, QuietStep
<1>2. ASSUME NEW c \in Callers, ResolveKey(c) \/ CheckSlug(c) \/ ShowTenant(c)
      PROVE  Goal
    <2>1. Quiet(c)
        BY <1>2, ResolveQuiet, CheckSlugQuiet, ShowQuiet DEF TenantInv
    <2>. QED  BY <2>1, QuietStep
<1>3. ASSUME NEW c \in Callers,
             \/ InsertTenant(c) \/ CommitTenant(c) \/ ReadTenant(c)
             \/ WriteSettings(c) \/ AuditAndAnswer(c) \/ Fails(c)
      PROVE  Goal
    BY <1>3, InsertStep, CommitStep, ReadStep, WriteStep, AuditStep, FailsStep
<1>4. ASSUME Tick \/ UNCHANGED vars PROVE Goal
    <2>1. UNCHANGED <<tenants, owners, keys, audit, call, issued, promised,
                      overlapped, effects, mishaps>>
        BY <1>4 DEF Tick, vars, database, history
    <2>. QED  BY <2>1, UnchangedStep
<1>5. ASSUME Restart PROVE Goal
    BY <1>5, RestartStep
<1> HIDE DEF Goal
<1>6. Goal
    BY <1>1, <1>2, <1>3, <1>4, <1>5 DEF Next
<1>. QED  BY <1>6 DEF Goal

(* Every call holds what its place in the code allows, and what it is      *)
(* about to commit fits the committed rows.                                *)
THEOREM TenantInvariant == Spec => []TenantInv
<1>1. Init => TenantInv
    BY InitHolds
<1>2. TenantInv /\ [Next]_vars => TenantInv'
    BY NextHolds
<1>. QED  BY <1>1, <1>2, PTL DEF Spec

(* Slugs name one tenant each, although two calls may find a slug free,    *)
(* and every tenant comes with its owner and its key (provision_tenant).   *)
THEOREM ProvisionedWhole == Spec => []TenantsComplete
<1>1. TenantInv => TenantsComplete
    BY DEF TenantInv, Rows, SlugInv, TenantsComplete
<1>. QED  BY <1>1, TenantInvariant, PTL

(* An enrolment or a promotion stays as it was answered, unless two calls  *)
(* about the tenant overlapped, and the plan limits survive both           *)
(* (enroll_design_partner, promote_rollout).                               *)
THEOREM ChangesStay == Spec => []SettingsKept
<1>1. ASSUME TenantInv PROVE SettingsKept
    <2>1. \A t \in DOMAIN tenants \ overlapped :
              \A k \in {"design_partner", "rollout_percentage"} :
                  tenants[t].settings[k] = promised[t][k]
        BY <1>1 DEF TenantInv, KeptInv
    <2>2. PlanLimits(Founder) = Override
        BY <1>1, ConstantsOK DEF TenantInv, Rows, PlanLimits, ConstantsOK
    <2>. QED  BY <2>1, <2>2 DEF SettingsKept
<1>. QED  BY <1>1, TenantInvariant, PTL

(* No entry of the audit log is without its change, and only a mishap      *)
(* between the two loses the entry of one (request_logging_middleware).    *)
THEOREM ChangesAudited == Spec => []EffectsAudited
<1>1. ASSUME TenantInv PROVE EffectsAudited
    <2>1. Pendings = {c \in Callers : /\ call[c].pc = "audit"
                                      /\ Writes(call[c].request.op,
                                                call[c].status)}
        BY DEF Pendings, Pending
    <2>2. \A i \in DOMAIN audit : audit[i].tenant_id # "anonymous"
        <3>1. \A i \in 1..Len(audit) : audit[i] \in
                  [tenant_id : Tenants, op : {r.op : r \in Requests}]
            BY <1>1, ElementOfSeq DEF TenantInv, AuditInv
        <3>2. DOMAIN audit = 1..Len(audit)
            BY <1>1, LenProperties DEF TenantInv, AuditInv
        <3>. QED  BY <3>1, <3>2, ConstantsOK DEF ConstantsOK
    <2>. QED  BY <1>1, <2>1, <2>2 DEF TenantInv, AuditInv, EffectsAudited
<1>. QED  BY <1>1, TenantInvariant, PTL
-----------------------------------------------------------------------------
(* The rate limit.  An admission keeps the window it was counted in.       *)
(* Between two admissions whose windows started within a minute there are  *)
(* as many as restarts allow windows to fill, and one window more if the   *)
(* second window started within a minute of the first admission.           *)

Window    == [start : Nat, count : 1..RateLimit]
Admission == [tick : Nat, window : Window, era : Nat]

InWindow(a) ==
    /\ a.window.start <= a.tick /\ a.tick < a.window.start + Minute
    /\ a.window.count = 1 => a.tick = a.window.start
    /\ a.tick <= now /\ a.era <= mishaps

(* b is n admissions after a.                                              *)
Apart(a, b, n) ==
    LET filled == (b.era - a.era) * RateLimit + b.window.count - a.window.count
    IN  /\ a.window.start <= b.window.start /\ a.tick <= b.tick
        /\ a.era <= b.era
        /\ b.window.start < a.window.start + Minute => n <= filled
        /\ b.window.start < a.tick + Minute => n <= filled + RateLimit

Spaced(s) ==
    /\ \A i \in 1..Len(s) : InWindow(s[i])
    /\ \A i, j \in 1..Len(s) : i <= j => Apart(s[i], s[j], j - i)

(* The window in memory is that of the last admission, and the admissions  *)
(* it counts came after its start; without one, there was a restart.       *)
Current(t, s) ==
    IF t \in DOMAIN windows
    THEN LET w == windows[t] IN
         /\ w \in Window
         /\ w.count <= Len(s) /\ s[Len(s)].window = w
         /\ \A i \in 1..Len(s) : Len(s) - w.count < i => w.start <= s[i].tick
    ELSE \A i \in 1..Len(s) : s[i].era < mishaps

Refusal == refused # None =>
    /\ refused.tenant \in Tenants
    /\ refused.tick \in 0..now
    /\ LastMinute(refused.tenant, refused.tick) >= RateLimit

RateInv ==
    /\ now \in Nat /\ mishaps \in Nat
    /\ admitted \in [Tenants -> Seq(Admission)]
    /\ DOMAIN windows \subseteq Tenants
    /\ \A t \in Tenants : Spaced(admitted[t]) /\ Current(t, admitted[t])
    /\ Refusal

LEMMA Limits == RateLimit \in Nat /\ RateLimit > 0 /\ Minute \in Nat /\ Minute > 0
BY ConstantsOK DEF ConstantsOK

LEMMA Eras ==
    ASSUME NEW a \in Nat, NEW b \in Nat, NEW c \in Nat, a <= b, b <= c,
           NEW R \in Nat
    PROVE  /\ (b - a) * R \in Int /\ (c - a) * R \in Int
           /\ (b - a) * R <= (c - a) * R
           /\ b < c => (b - a) * R + R <= (c - a) * R
<1>1. PICK d \in Nat : d = c - b
    OBVIOUS
<1>2. PICK e \in Nat : e = b - a
    OBVIOUS
<1>3. c - a = e + d
    BY <1>1, <1>2
<1>4. (e + d) * R = e * R + d * R /\ e * R \in Int /\ d * R \in Nat
    OBVIOUS
<1>5. ASSUME d # 0 PROVE d * R >= R
    <2>1. PICK f \in Nat : d = f + 1
        BY <1>5
    <2>2. (f + 1) * R = f * R + R /\ f * R \in Nat
        OBVIOUS
    <2>. QED  BY <2>1, <2>2
<1>6. b < c => d # 0
    BY <1>1
<1>. QED  BY <1>2, <1>3, <1>4, <1>5, <1>6

LEMMA AdmissionFacts ==
    ASSUME NEW a \in Admission
    PROVE  /\ a.tick \in Nat /\ a.era \in Nat /\ a.window \in Window
           /\ a.window.start \in Nat /\ a.window.count \in Nat
           /\ 1 <= a.window.count /\ a.window.count <= RateLimit
BY Limits DEF Admission, Window

LEMMA ApartSelf ==
    ASSUME NEW a \in Admission
    PROVE  Apart(a, a, 0)
<1>1. (a.era - a.era) * RateLimit = 0
    BY AdmissionFacts, Limits
<1>. QED  BY <1>1, AdmissionFacts, Limits DEF Apart

(* The admission after b: in the window of b, or the first of its own,     *)
(* after a restart or a minute.                                            *)
Follows(b, c) ==
    /\ b.tick <= c.tick /\ b.era <= c.era
    /\ b.window.start <= c.window.start
    /\ \/ /\ c.window.start = b.window.start
          /\ c.window.count = b.window.count + 1
       \/ /\ c.window.count = 1
          /\ \/ b.era < c.era
             \/ b.window.start + Minute <= c.window.start

LEMMA ApartNext ==
    ASSUME NEW a \in Admission, NEW b \in Admission, NEW c \in Admission,
           NEW n \in Nat, InWindow(a), Apart(a, b, n), Follows(b, c)
    PROVE  Apart(a, c, n + 1)
<1> DEFINE x == (b.era - a.era) * RateLimit
           y == (c.era - a.era) * RateLimit
           R == RateLimit
<1>1. /\ a.era <= b.era /\ b.era <= c.era
      /\ a.era \in Nat /\ b.era \in Nat /\ c.era \in Nat
    BY AdmissionFacts DEF Apart, Follows
<1>2. x \in Int /\ y \in Int /\ x <= y /\ (b.era < c.era => x + R <= y)
    BY <1>1, Eras, Limits
<1>3. /\ b.window.start < a.window.start + Minute =>
             n <= x + b.window.count - a.window.count
      /\ b.window.start < a.tick + Minute =>
             n <= x + b.window.count - a.window.count + R
    BY DEF Apart
<1>4. /\ c.window.start < a.window.start + Minute =>
             n + 1 <= y + c.window.count - a.window.count
      /\ c.window.start < a.tick + Minute =>
             n + 1 <= y + c.window.count - a.window.count + R
    <2> HIDE DEF x, y
    <2>1. CASE c.window.start = b.window.start
               /\ c.window.count = b.window.count + 1
        BY <1>2, <1>3, <2>1, AdmissionFacts, Limits
    <2>2. CASE c.window.count = 1 /\ b.era < c.era
        <3>1. b.window.start <= c.window.start
            BY DEF Follows
        <3>. QED  BY <1>2, <1>3, <2>2, <3>1, AdmissionFacts, Limits
    <2>3. CASE c.window.count = 1
               /\ b.window.start + Minute <= c.window.start
        <3>1. a.window.start <= b.window.start
            BY DEF Apart
        <3>2. a.tick < a.window.start + Minute
            BY DEF InWindow
        <3>. QED  BY <1>2, <1>3, <2>3, <3>1, <3>2, AdmissionFacts, Limits
    <2>. QED  BY <2>1, <2>2, <2>3 DEF Follows
<1>5. /\ a.window.start <= c.window.start /\ a.tick <= c.tick
      /\ a.era <= c.era
    BY AdmissionFacts DEF Apart, Follows
<1>. QED  BY <1>4, <1>5 DEF Apart

LEMMA SpacedNext ==
    ASSUME NEW s \in Seq(Admission), NEW c \in Admission, Spaced(s),
           InWindow(c), Len(s) > 0 => Follows(s[Len(s)], c)
    PROVE  Spaced(Append(s, c))
<1>1. PICK u : u = Append(s, c)
    OBVIOUS
<1>2. /\ Len(s) \in Nat /\ Len(u) = Len(s) + 1 /\ u[Len(s) + 1] = c
      /\ \A i \in 1..Len(s) : u[i] = s[i] /\ s[i] \in Admission
    BY <1>1, AppendProperties, LenProperties, ElementOfSeq
<1>3. ASSUME NEW i \in 1..Len(u) PROVE InWindow(u[i])
    BY <1>2 DEF Spaced
<1>4. ASSUME NEW i \in 1..Len(u), NEW j \in 1..Len(u), i <= j
      PROVE  Apart(u[i], u[j], j - i)
    <2>1. CASE j <= Len(s)
        BY <1>2, <1>4, <2>1 DEF Spaced
    <2>2. CASE i = j
        <3>1. u[i] \in Admission /\ j - i = 0
            BY <1>2, <2>2
        <3>. QED  BY <2>2, <3>1, ApartSelf
    <2>3. CASE j = Len(s) + 1 /\ i < j
        <3>1. i \in 1..Len(s) /\ Len(s) \in 1..Len(s) /\ i <= Len(s)
            BY <1>2, <2>3
        <3>2. Apart(s[i], s[Len(s)], Len(s) - i) /\ InWindow(s[i])
            BY <3>1 DEF Spaced
        <3>3. Len(s) - i \in Nat /\ Follows(s[Len(s)], c)
            BY <3>1, <1>2
        <3>4. Apart(s[i], c, (Len(s) - i) + 1)
            BY <1>2, <3>1, <3>2, <3>3, ApartNext
        <3>5. (Len(s) - i) + 1 = j - i
            BY <1>2, <2>3
        <3>. QED  BY <1>2, <2>3, <3>1, <3>4, <3>5
    <2>. QED  BY <1>2, <1>4, <2>1, <2>2, <2>3
<1>. QED  BY <1>1, <1>3, <1>4 DEF Spaced

(* Of the requests of a tenant those within a minute of tick n.            *)
Recent(s, n) == {i \in DOMAIN s :
                    LET m == s[i].tick IN m <= n /\ n - m < Minute}

LEMMA RecentFacts ==
    ASSUME NEW s \in Seq(Admission), NEW n \in Nat
    PROVE  /\ Recent(s, n) \subseteq 1..Len(s) /\ Len(s) \in Nat
           /\ IsFiniteSet(Recent(s, n)) /\ Cardinality(Recent(s, n)) \in Nat
<1>1. DOMAIN s = 1..Len(s) /\ Len(s) \in Nat
    BY LenProperties
<1>2. IsFiniteSet(1..Len(s))
    BY <1>1, FS_Interval
<1>. QED  BY <1>1, <1>2, FS_Subset, FS_CardinalityType DEF Recent

LEMMA RecentGrows ==
    ASSUME NEW s \in Seq(Admission), NEW c \in Admission, NEW n \in Nat
    PROVE  Cardinality(Recent(s, n)) <= Cardinality(Recent(Append(s, c), n))
<1>1. PICK u \in Seq(Admission) : u = Append(s, c)
    BY AppendProperties
<1>2. /\ Len(s) \in Nat /\ DOMAIN s = 1..Len(s)
      /\ DOMAIN u = 1..(Len(s) + 1)
      /\ \A i \in 1..Len(s) : u[i] = s[i]
    BY <1>1, AppendProperties, LenProperties
<1>3. Recent(s, n) \subseteq Recent(u, n)
    BY <1>2 DEF Recent
<1>. QED  BY <1>1, <1>3, RecentFacts, FS_Subset

(* c is the next admission after those of s, and counts in window w.       *)
Counts(s, w, c) ==
    /\ w \in Window /\ c \in Admission /\ c.window = w /\ InWindow(c)
    /\ Len(s) > 0 => Follows(s[Len(s)], c)
    /\ w.count <= Len(s) + 1
    /\ \A i \in 1..(Len(s) + 1) :
           (Len(s) + 1) - w.count < i => w.start <= Append(s, c)[i].tick

LEMMA WindowStarts ==
    ASSUME NEW t, NEW s \in Seq(Admission), now \in Nat, mishaps \in Nat,
           Spaced(s), Current(t, s),
           t \notin DOMAIN windows \/ Expired(windows[t]),
           NEW w, w = [start |-> now, count |-> 1],
           NEW c, c = [tick |-> now, window |-> w, era |-> mishaps]
    PROVE  Counts(s, w, c)
<1>1. /\ Len(s) \in Nat
      /\ \A i \in 1..Len(s) : s[i] \in Admission /\ InWindow(s[i])
    BY LenProperties, ElementOfSeq DEF Spaced
<1>2. w \in Window /\ w.start = now /\ w.count = 1
    BY Limits DEF Window
<1>3. c \in Admission /\ c.tick = now /\ c.era = mishaps /\ c.window = w
    BY <1>2 DEF Admission
<1>4. InWindow(c)
    BY <1>2, <1>3, Limits DEF InWindow
<1>5. ASSUME Len(s) > 0 PROVE Follows(s[Len(s)], c)
    <2>1. PICK b : b = s[Len(s)]
        OBVIOUS
    <2>2. b \in Admission /\ InWindow(b)
        BY <1>1, <1>5, <2>1
    <2>3. b.tick <= now /\ b.era <= mishaps /\ b.window.start <= b.tick
        BY <2>2 DEF InWindow
    <2>4. b.era < mishaps \/ b.window.start + Minute <= now
        <3>1. CASE t \notin DOMAIN windows
            BY <1>1, <1>5, <2>1, <3>1 DEF Current
        <3>2. CASE t \in DOMAIN windows /\ Expired(windows[t])
            <4>1. b.window = windows[t]
                BY <2>1, <3>2 DEF Current
            <4>2. now - b.window.start >= Minute
                BY <3>2, <4>1 DEF Expired
            <4>. QED  BY <2>2, <4>2, AdmissionFacts, Limits
        <3>. QED  BY <3>1, <3>2
    <2>5. b.window.start <= now
        BY <2>2, <2>3, AdmissionFacts
    <2>. QED  BY <1>2, <1>3, <2>1, <2>3, <2>4, <2>5 DEF Follows
<1>6. \A i \in 1..(Len(s) + 1) :
          (Len(s) + 1) - w.count < i => w.start <= Append(s, c)[i].tick
    <2>1. Append(s, c)[Len(s) + 1] = c
        BY <1>3, AppendProperties
    <2>. QED  BY <1>1, <1>2, <1>3, <2>1
<1>7. w.count <= Len(s) + 1
    BY <1>1, <1>2
<1>. QED  BY <1>2, <1>3, <1>4, <1>5, <1>6, <1>7 DEF Counts

LEMMA WindowGoesOn ==
    ASSUME NEW t, NEW s \in Seq(Admission), now \in Nat, mishaps \in Nat,
           Spaced(s), Current(t, s),
           t \in DOMAIN windows, ~Expired(windows[t]),
           windows[t].count < RateLimit,
           NEW w, w = [windows[t] EXCEPT !.count = @ + 1],
           NEW c, c = [tick |-> now, window |-> w, era |-> mishaps]
    PROVE  Counts(s, w, c)
<1>1. PICK old : old = windows[t]
    OBVIOUS
<1>2. /\ Len(s) \in Nat
      /\ \A i \in 1..Len(s) : s[i] \in Admission /\ InWindow(s[i])
    BY LenProperties, ElementOfSeq DEF Spaced
<1>3. /\ old \in Window /\ old.count <= Len(s) /\ s[Len(s)].window = old
      /\ \A i \in 1..Len(s) : Len(s) - old.count < i => old.start <= s[i].tick
    BY <1>1 DEF Current
<1>4. old.start \in Nat /\ old.count \in Nat /\ 1 <= old.count
    BY <1>3, Limits DEF Window
<1>5. w.start = old.start /\ w.count = old.count + 1 /\ w \in Window
    BY <1>1, <1>3, <1>4, Limits DEF Window
<1>6. c \in Admission /\ c.tick = now /\ c.era = mishaps /\ c.window = w
    BY <1>5 DEF Admission
<1>7. PICK b : b = s[Len(s)]
    OBVIOUS
<1>8. Len(s) > 0 /\ b \in Admission /\ InWindow(b) /\ b.window = old
    BY <1>2, <1>3, <1>4, <1>7
<1>9. b.tick <= now /\ b.era <= mishaps /\ old.start <= b.tick
    BY <1>8 DEF InWindow
<1>10. old.start <= now /\ now < old.start + Minute
    <2>1. ~(now - old.start >= Minute)
        BY <1>1 DEF Expired
    <2>. QED  BY <1>4, <1>8, <1>9, <2>1, AdmissionFacts, Limits
<1>10a. /\ c.window.start = old.start /\ c.window.count = old.count + 1
        /\ c.window.count # 1
    <2>1. w.count # 1
        BY <1>4, <1>5
    <2>2. c.window = w
        BY <1>6
    <2>3. c.window.start = old.start
        BY <1>5, <2>2
    <2>4. c.window.count = old.count + 1
        BY <1>5, <2>2
    <2>5. c.window.count # 1
        BY <2>1, <2>2
    <2>. QED  BY <2>3, <2>4, <2>5
<1>11. InWindow(c)
    <2>1. c.tick <= now /\ c.era <= mishaps
        BY <1>6
    <2>. QED  BY <1>6, <1>10, <1>10a, <2>1 DEF InWindow
<1>12. Follows(s[Len(s)], c)
    <2>1. /\ b.tick <= c.tick /\ b.era <= c.era
          /\ b.window.start = old.start /\ b.window.count = old.count
        BY <1>6, <1>8, <1>9
    <2>2. b.window.start <= c.window.start
        BY <1>4, <1>10a, <2>1
    <2>3. Follows(b, c)
        BY <1>10a, <2>1, <2>2 DEF Follows
    <2>. QED  BY <1>7, <2>3
<1>13. \A i \in 1..(Len(s) + 1) :
           (Len(s) + 1) - w.count < i => w.start <= Append(s, c)[i].tick
    <2>1. /\ Append(s, c)[Len(s) + 1] = c
          /\ \A i \in 1..Len(s) : Append(s, c)[i] = s[i]
        BY <1>6, AppendProperties
    <2>2. SUFFICES ASSUME NEW i \in 1..(Len(s) + 1),
                          (Len(s) + 1) - w.count < i
                   PROVE  old.start <= Append(s, c)[i].tick
        BY <1>5
    <2>3. CASE i = Len(s) + 1
        BY <1>6, <1>10, <2>1, <2>3
    <2>4. CASE i \in 1..Len(s)
        <3>1. Len(s) - old.count < i
            BY <1>2, <1>4, <1>5, <2>2, <2>4
        <3>. QED  BY <1>3, <2>1, <2>4, <3>1
    <2>. QED  BY <1>2, <2>3, <2>4
<1>14. w.count <= Len(s) + 1
    BY <1>2, <1>3, <1>4, <1>5
<1>. QED  BY <1>5, <1>6, <1>11, <1>12, <1>13, <1>14 DEF Counts

(* TenantRateLimiter.allow lets one more request through.                  *)
LEMMA AdmitStep ==
    ASSUME RateInv, NEW t \in Tenants, Allowed(t), Admit(t),
           UNCHANGED <<now, mishaps>>
    PROVE  RateInv'
<1> DEFINE Fst == t \notin DOMAIN windows \/ Expired(windows[t])
<1>1. PICK s : s = admitted[t]
    OBVIOUS
<1>2. PICK w : w = IF Fst THEN [start |-> now, count |-> 1]
                   ELSE [windows[t] EXCEPT !.count = @ + 1]
    OBVIOUS
<1>3. PICK c : c = [tick |-> now, window |-> w, era |-> mishaps]
    OBVIOUS
<1>4. PICK u : u = Append(s, c)
    OBVIOUS
<1>5. /\ windows' = With(windows, t, w)
      /\ admitted' = [admitted EXCEPT ![t] = u]
      /\ refused' = refused /\ now' = now /\ mishaps' = mishaps
    BY <1>1, <1>2, <1>3, <1>4 DEF Admit
<1>6. /\ now \in Nat /\ mishaps \in Nat /\ s \in Seq(Admission)
      /\ Len(s) \in Nat /\ Spaced(s) /\ Current(t, s)
    BY <1>1, LenProperties DEF RateInv
<1>7. Counts(s, w, c)
    <2>1. CASE Fst
        BY <1>2, <1>3, <1>6, <2>1, WindowStarts
    <2>2. CASE ~Fst
        <3>1. windows[t].count < RateLimit
            BY <2>2 DEF Allowed
        <3>. QED  BY <1>2, <1>3, <1>6, <2>2, <3>1, WindowGoesOn
    <2>. QED  BY <2>1, <2>2
<1>8. /\ c \in Admission /\ w \in Window /\ c.window = w
      /\ w.count <= Len(s) + 1
    BY <1>7 DEF Counts
<1>9. u \in Seq(Admission) /\ Len(u) = Len(s) + 1 /\ u[Len(u)] = c
    BY <1>4, <1>6, <1>8, AppendProperties
<1>10. Spaced(u)
    BY <1>4, <1>6, <1>7, SpacedNext DEF Counts
<1>11. Spaced(u)'
    BY <1>5, <1>10 DEF Spaced, InWindow
<1>12. /\ DOMAIN windows' = DOMAIN windows \cup {t} /\ windows'[t] = w
       /\ \A v \in DOMAIN windows \ {t} : windows'[v] = windows[v]
    BY <1>5 DEF With
<1>13. Current(t, u)'
    <2>1. \A i \in 1..Len(u) : Len(u) - w.count < i => w.start <= u[i].tick
        BY <1>4, <1>7, <1>9 DEF Counts
    <2>. QED  BY <1>8, <1>9, <1>12, <2>1 DEF Current
<1>14. /\ admitted' \in [Tenants -> Seq(Admission)]
       /\ admitted'[t] = u
       /\ \A v \in Tenants \ {t} : admitted'[v] = admitted[v]
    BY <1>5, <1>9 DEF RateInv
<1>15. ASSUME NEW v \in Tenants
       PROVE  Spaced(admitted[v])' /\ Current(v, admitted[v])'
    <2>1. CASE v = t
        BY <1>11, <1>13, <1>14, <2>1 DEF Spaced, Current
    <2>2. CASE v # t
        <3>1. PICK x : x = admitted[v]
            OBVIOUS
        <3>2. admitted'[v] = x
            BY <1>14, <2>2, <3>1
        <3>3. Spaced(x) /\ Current(v, x)
            BY <3>1 DEF RateInv
        <3>4. Spaced(x)'
            BY <1>5, <3>3 DEF Spaced, InWindow
        <3>5. Current(v, x)'
            BY <1>5, <1>12, <2>2, <3>3 DEF Current
        <3>. QED  BY <3>2, <3>4, <3>5 DEF Spaced, Current
    <2>. QED  BY <2>1, <2>2
<1>16. Refusal'
    <2>1. SUFFICES ASSUME refused # None
                   PROVE  /\ refused.tenant \in Tenants /\ refused.tick \in 0..now
                          /\ LastMinute(refused.tenant, refused.tick)'
                                 >= RateLimit
        BY <1>5 DEF Refusal
    <2>2. PICK v : v = refused.tenant
        OBVIOUS
    <2>3. PICK n : n = refused.tick
        OBVIOUS
    <2>4. v \in Tenants /\ n \in 0..now /\ LastMinute(v, n) >= RateLimit
        BY <2>1, <2>2, <2>3 DEF RateInv, Refusal
    <2>5. PICK x \in Seq(Admission) : x = admitted[v]
        BY <2>4 DEF RateInv
    <2>6. PICK y \in Seq(Admission) : y = admitted'[v]
        BY <1>14, <2>4
    <2>7. Cardinality(Recent(x, n)) >= RateLimit /\ n \in Nat
        BY <1>6, <2>4, <2>5 DEF LastMinute, Recent
    <2>8. Cardinality(Recent(x, n)) <= Cardinality(Recent(y, n))
        <3>1. CASE v = t
            <4>1. x = s /\ y = Append(s, c)
                BY <1>1, <1>4, <1>14, <2>5, <2>6, <3>1
            <4>2. Cardinality(Recent(s, n)) <= Cardinality(Recent(Append(s, c), n))
                BY <1>6, <1>8, <2>7, RecentGrows
            <4>. QED  BY <4>1, <4>2
        <3>2. CASE v # t
            <4>1. y = x
                BY <1>14, <2>4, <2>5, <2>6, <3>2
            <4>2. n \in Nat
                BY <1>6, <2>4
            <4>. QED  BY <4>1, <4>2, RecentFacts
        <3>. QED  BY <3>1, <3>2
    <2>9. Cardinality(Recent(y, n)) >= RateLimit
        <3>1. Cardinality(Recent(x, n)) \in Nat
              /\ Cardinality(Recent(y, n)) \in Nat
            BY <2>7, RecentFacts
        <3>. QED  BY <2>7, <2>8, <3>1, Limits
    <2>10. LastMinute(v, n)' = Cardinality(Recent(y, n))
        BY <2>6 DEF LastMinute, Recent
    <2>11. LastMinute(refused.tenant, refused.tick)'
               = Cardinality(Recent(y, n))
        BY <1>5, <2>2, <2>3, <2>6 DEF LastMinute, Recent
    <2>. QED  BY <2>2, <2>3, <2>4, <2>9, <2>11
<1>17. DOMAIN windows' \subseteq Tenants
    BY <1>12 DEF RateInv
<1>. QED  BY <1>5, <1>6, <1>14, <1>15, <1>16, <1>17 DEF RateInv

(* A refusal comes after as many admissions as the limit, in a window that *)
(* is not over.                                                            *)
LEMMA RefuseStep ==
    ASSUME RateInv, NEW t \in Tenants, ~Allowed(t),
           refused' = [tenant |-> t, tick |-> now],
           UNCHANGED <<windows, admitted, now, mishaps>>
    PROVE  RateInv'
<1>1. PICK s \in Seq(Admission) : s = admitted[t]
    BY DEF RateInv
<1>2. PICK w : w = windows[t]
    OBVIOUS
<1>3. PICK k : k = Len(s)
    OBVIOUS
<1>4. /\ now \in Nat /\ k \in Nat /\ Spaced(s) /\ Current(t, s)
      /\ DOMAIN s = 1..k /\ \A i \in 1..k : s[i] \in Admission
    BY <1>1, <1>3, LenProperties, ElementOfSeq DEF RateInv
<1>5. /\ t \in DOMAIN windows /\ now - w.start < Minute
      /\ ~(w.count < RateLimit)
    <2>1. ~(now - w.start >= Minute) /\ t \in DOMAIN windows /\ w \in Window
        BY <1>2, <1>4 DEF Allowed, Expired, Current
    <2>2. w.start \in Nat
        BY <2>1 DEF Window
    <2>3. now - w.start < Minute
        BY <1>4, <2>1, <2>2, Limits
    <2>. QED  BY <1>2, <2>1, <2>3 DEF Allowed
<1>6. /\ w.start \in Nat /\ w.count = RateLimit /\ RateLimit <= k
      /\ \A i \in 1..k : k - RateLimit < i => w.start <= s[i].tick
    <2>1. /\ w \in Window /\ w.count <= k
          /\ \A i \in 1..k : k - w.count < i => w.start <= s[i].tick
        BY <1>2, <1>3, <1>4, <1>5 DEF Current
    <2>2. w.start \in Nat /\ w.count \in 1..RateLimit
        BY <2>1 DEF Window
    <2>3. w.count = RateLimit
        BY <1>5, <2>2, Limits
    <2>. QED  BY <2>1, <2>2, <2>3
<1> DEFINE last == (k - RateLimit + 1)..k
<1>7. last \subseteq Recent(s, now)
    <2>1. SUFFICES ASSUME NEW i \in last PROVE i \in Recent(s, now)
        OBVIOUS
    <2>2. i \in 1..k /\ k - RateLimit < i
        BY <1>4, <1>6, <2>1, Limits
    <2>3. w.start <= s[i].tick /\ s[i].tick \in Nat /\ s[i].tick <= now
        BY <1>3, <1>4, <1>6, <2>2, AdmissionFacts DEF Spaced, InWindow
    <2>4. now - s[i].tick < Minute
        BY <1>4, <1>5, <1>6, <2>3, Limits
    <2>. QED  BY <1>4, <2>2, <2>3, <2>4 DEF Recent
<1>8. Cardinality(last) = RateLimit
    <2>1. k - RateLimit + 1 \in Int /\ k \in Int /\ k - RateLimit + 1 <= k
        BY <1>4, <1>6, Limits
    <2>2. Cardinality(last) = k - (k - RateLimit + 1) + 1
        BY <2>1, FS_Interval
    <2>. QED  BY <1>4, <2>2, Limits
<1>9. Cardinality(Recent(s, now)) >= RateLimit
    <2>1. /\ IsFiniteSet(Recent(s, now))
          /\ Cardinality(Recent(s, now)) \in Nat
        BY <1>4, RecentFacts
    <2>2. Cardinality(last) <= Cardinality(Recent(s, now))
        BY <1>7, <2>1, FS_Subset
    <2>. QED  BY <1>8, <2>1, <2>2, Limits
<1>10. PICK n : n = now
    OBVIOUS
<1>11. refused'.tenant = t /\ refused'.tick = n /\ admitted'[t] = s
    BY <1>1, <1>10
<1>12. LastMinute(refused.tenant, refused.tick)' = Cardinality(Recent(s, n))
    BY <1>11 DEF LastMinute, Recent
<1>13. Refusal'
    BY <1>4, <1>9, <1>10, <1>11, <1>12 DEF Refusal
<1>14. \A v \in Tenants : Spaced(admitted[v])' /\ Current(v, admitted[v])'
    BY DEF RateInv, Spaced, InWindow, Current
<1>. QED  BY <1>13, <1>14 DEF RateInv

(* Time passes, and something may fail.                                    *)
LEMMA RateStays ==
    ASSUME RateInv, UNCHANGED <<windows, admitted, refused>>,
           now' \in Nat, now <= now', mishaps' \in Nat, mishaps <= mishaps'
    PROVE  RateInv'
<1>1. now \in Nat /\ mishaps \in Nat
    BY DEF RateInv
<1>2. ASSUME NEW v \in Tenants
      PROVE  Spaced(admitted[v])' /\ Current(v, admitted[v])'
    <2>1. PICK s \in Seq(Admission) : s = admitted[v]
        BY DEF RateInv
    <2>2. Spaced(s) /\ Current(v, s)
        BY <2>1 DEF RateInv
    <2>3. \A i \in 1..Len(s) : s[i].tick \in Nat /\ s[i].era \in Nat
        BY ElementOfSeq, AdmissionFacts
    <2>4. \A i \in 1..Len(s) : InWindow(s[i])'
        BY <1>1, <2>2, <2>3 DEF Spaced, InWindow
    <2>5. Spaced(s)'
        BY <2>2, <2>4 DEF Spaced
    <2>6. Current(v, s)'
        BY <1>1, <2>2, <2>3 DEF Current
    <2>. QED  BY <2>1, <2>5, <2>6 DEF Spaced, Current
<1>3. Refusal'
    <2>1. SUFFICES ASSUME refused # None PROVE
              /\ refused.tenant \in Tenants /\ refused.tick \in 0..now'
              /\ LastMinute(refused.tenant, refused.tick)' >= RateLimit
        BY DEF Refusal
    <2>2. /\ refused.tenant \in Tenants /\ refused.tick \in 0..now
          /\ LastMinute(refused.tenant, refused.tick) >= RateLimit
        BY <2>1 DEF RateInv, Refusal
    <2>3. LastMinute(refused.tenant, refused.tick)'
              = LastMinute(refused.tenant, refused.tick)
        BY DEF LastMinute
    <2>. QED  BY <1>1, <2>2, <2>3
<1>. QED  BY <1>2, <1>3 DEF RateInv

LEMMA RestartRate ==
    ASSUME RateInv, Restart
    PROVE  RateInv'
<1>1. /\ windows' = [t \in {} |-> None] /\ mishaps' = mishaps + 1
      /\ UNCHANGED <<admitted, refused, now>>
    BY DEF Restart, Fault
<1>2. DOMAIN windows' = {}
    BY <1>1
<1>3. now \in Nat /\ mishaps \in Nat
    BY DEF RateInv
<1>4. ASSUME NEW v \in Tenants
      PROVE  Spaced(admitted[v])' /\ Current(v, admitted[v])'
    <2>1. PICK s \in Seq(Admission) : s = admitted[v]
        BY DEF RateInv
    <2>2. Spaced(s)
        BY <2>1 DEF RateInv
    <2>3. \A i \in 1..Len(s) : s[i].era \in Nat /\ s[i].era <= mishaps
        BY <2>2, ElementOfSeq, AdmissionFacts DEF Spaced, InWindow
    <2>4. \A i \in 1..Len(s) : InWindow(s[i])'
        BY <1>1, <1>3, <2>2, <2>3 DEF Spaced, InWindow
    <2>5. Spaced(s)'
        BY <2>2, <2>4 DEF Spaced
    <2>6. Current(v, s)'
        BY <1>1, <1>2, <1>3, <2>3 DEF Current
    <2>. QED  BY <1>1, <2>1, <2>5, <2>6 DEF Spaced, Current
<1>5. Refusal'
    BY <1>1 DEF RateInv, Refusal, LastMinute
<1>. QED  BY <1>1, <1>2, <1>3, <1>4, <1>5 DEF RateInv

LEMMA DispatchRate ==
    ASSUME RateInv, NEW c, NEW req, NEW x, x.tenant \in Tenants,
           Dispatch(c, req, x), UNCHANGED <<now, mishaps>>
    PROVE  RateInv'
<1>1. PICK t \in Tenants : t = x.tenant
    OBVIOUS
<1>2. \/ UNCHANGED limiter
      \/ /\ ~Allowed(t) /\ refused' = [tenant |-> t, tick |-> now]
         /\ UNCHANGED <<windows, admitted>>
      \/ Allowed(t) /\ Admit(t)
    BY <1>1 DEF Dispatch
<1>3. CASE UNCHANGED limiter
    BY <1>3, RateStays DEF limiter, RateInv
<1>4. CASE /\ ~Allowed(t) /\ refused' = [tenant |-> t, tick |-> now]
           /\ UNCHANGED <<windows, admitted>>
    BY <1>4, RefuseStep
<1>5. CASE Allowed(t) /\ Admit(t)
    BY <1>5, AdmitStep
<1>. QED  BY <1>2, <1>3, <1>4, <1>5

LEMMA RateNext ==
    ASSUME RateInv, TenantInv, [Next]_vars
    PROVE  RateInv'
<1> DEFINE Goal == RateInv'
<1>1. ASSUME UNCHANGED <<limiter, now>>, Fault \/ UNCHANGED mishaps PROVE Goal
    <2>1. mishaps' \in Nat /\ mishaps <= mishaps'
        BY <1>1 DEF RateInv, Fault
    <2>2. now' \in Nat /\ now <= now' /\ UNCHANGED <<windows, admitted, refused>>
        BY <1>1 DEF RateInv, limiter
    <2>. QED  BY <2>1, <2>2, RateStays
<1>2. ASSUME Tick PROVE Goal
    <2>1. /\ now \in Nat /\ now' = now + 1 /\ mishaps' = mishaps
          /\ mishaps \in Nat /\ UNCHANGED <<windows, admitted, refused>>
        BY <1>2 DEF Tick, RateInv
    <2>. QED  BY <2>1, RateStays
<1>3. ASSUME Restart PROVE Goal
    BY <1>3, RestartRate
<1>4. ASSUME NEW c \in Callers, NEW req \in Requests, ArriveJwt(c, req)
      PROVE  Goal
    <2> DEFINE x == [tenant |-> req.token.tenant, role |-> req.token.role]
    <2>1. x.tenant \in Tenants
        BY <1>4, RequestsOK DEF ArriveJwt
    <2>2. Dispatch(c, req, x) /\ UNCHANGED <<now, mishaps>>
        BY <1>4 DEF ArriveJwt, Arrive
    <2>. HIDE DEF x
    <2>. QED  BY <2>1, <2>2, DispatchRate
<1>5. ASSUME NEW c \in Callers, ResolveKey(c) PROVE Goal
    <2> DEFINE t == call[c].request.token.tenant
               x == [tenant |-> t, role |-> None]
    <2>1. CASE t \in DOMAIN keys
        <3>1. x.tenant \in Tenants
            BY <2>1 DEF TenantInv, Rows
        <3>2. Dispatch(c, call[c].request, x) /\ UNCHANGED <<now, mishaps>>
            BY <1>5, <2>1 DEF ResolveKey
        <3>. HIDE DEF x
        <3>. QED  BY <3>1, <3>2, DispatchRate
    <2>2. CASE t \notin DOMAIN keys
        <3>1. UNCHANGED <<limiter, now, mishaps>>
            BY <1>5, <2>2 DEF ResolveKey
        <3>. QED  BY <1>1, <3>1
    <2>. QED  BY <2>1, <2>2
<1>6. ASSUME NEW c \in Callers, NEW req \in Requests,
             ArriveExcluded(c, req) \/ ArriveTokenless(c, req)
             \/ ArriveKey(c, req)
      PROVE  Goal
    <2>1. UNCHANGED <<limiter, now, mishaps>>
        BY <1>6 DEF ArriveExcluded, ArriveTokenless, ArriveKey, Arrive
    <2>. QED  BY <1>1, <2>1
<1>7. ASSUME NEW c \in Callers,
             \/ CheckSlug(c) \/ InsertTenant(c) \/ CommitTenant(c)
             \/ ReadTenant(c) \/ WriteSettings(c) \/ ShowTenant(c)
             \/ AuditAndAnswer(c) \/ Fails(c)
      PROVE  Goal
    <2>1. UNCHANGED <<limiter, now>> /\ (Fault \/ UNCHANGED mishaps)
        BY <1>7 DEF CheckSlug, InsertTenant, CommitTenant, ReadTenant,
                    WriteSettings, ShowTenant, AuditAndAnswer, Fails
    <2>. QED  BY <1>1, <2>1
<1>8. ASSUME UNCHANGED vars PROVE Goal
    <2>1. UNCHANGED <<limiter, now, mishaps>>
        BY <1>8 DEF vars, limiter
    <2>. QED  BY <1>1, <2>1
<1> HIDE DEF Goal
<1>9. Goal
    BY <1>2, <1>3, <1>4, <1>5, <1>6, <1>7, <1>8 DEF Next
<1>. QED  BY <1>9 DEF Goal

LEMMA RateInit ==
    ASSUME Init
    PROVE  RateInv
<1>1. /\ windows = [t \in {} |-> None] /\ refused = None
      /\ admitted = [t \in Tenants |-> << >>] /\ now = 0 /\ mishaps = 0
    BY DEF Init
<1>2. << >> \in Seq(Admission) /\ Len(<< >>) = 0
    OBVIOUS
<1>3. ASSUME NEW t \in Tenants
      PROVE  Spaced(admitted[t]) /\ Current(t, admitted[t])
    <2>1. admitted[t] = << >> /\ t \notin DOMAIN windows
        BY <1>1
    <2>. QED  BY <1>2, <2>1 DEF Spaced, Current
<1>. QED  BY <1>1, <1>2, <1>3 DEF RateInv, Refusal

(* The windows of the limiter and the requests it let through.             *)
THEOREM RateInvariant == Spec => []RateInv
<1>1. Init => RateInv
    BY RateInit
<1>2. TenantInv /\ RateInv /\ [Next]_vars => RateInv'
    BY RateNext
<1>. QED  BY <1>1, <1>2, TenantInvariant, PTL DEF Spec

LEMMA LeastOf ==
    ASSUME NEW M, M \subseteq Nat, M # {}
    PROVE  \E n \in M : \A m \in M : n <= m
<1>1. PICK n \in M : \A m \in M : ~(<<m, n>> \in OpToRel(<, Nat))
    BY NatLessThanWellFounded, WFMin
<1>2. \A m \in M : m \in Nat /\ n \in Nat
    OBVIOUS
<1>3. \A m \in M : ~(m < n)
    BY <1>1, <1>2 DEF OpToRel
<1>. QED  BY <1>2, <1>3

LEMMA GreatestOf ==
    ASSUME NEW k \in Nat, NEW M, M \subseteq 1..k, M # {}
    PROVE  \E n \in M : \A m \in M : m <= n
<1> DEFINE D == {k - m : m \in M}
<1>1. D \subseteq Nat /\ D # {}
    <2>1. \A m \in M : k - m \in Nat
        OBVIOUS
    <2>2. PICK m : m \in M
        OBVIOUS
    <2>3. k - m \in D
        BY <2>2
    <2>. QED  BY <2>1, <2>3
<1>2. PICK d \in D : \A e \in D : d <= e
    BY <1>1, LeastOf
<1>3. PICK n \in M : d = k - n
    BY <1>2
<1>4. \A m \in M : k - n <= k - m /\ m \in Int /\ n \in Int
    BY <1>2, <1>3
<1>. QED  BY <1>4

(* Two admissions within a minute of each other.                           *)
LEMMA MinuteBound ==
    ASSUME NEW a \in Admission, NEW b \in Admission, NEW n \in Nat,
           InWindow(a), InWindow(b), Apart(a, b, n), mishaps \in Nat,
           b.tick < a.tick + Minute
    PROVE  n + 1 <= (2 + mishaps) * RateLimit - 1
<1> DEFINE R == RateLimit
           x == (b.era - a.era) * R
           y == mishaps * R
           bound == (2 + mishaps) * R
<1>1. a.era <= b.era /\ b.era <= mishaps
    BY DEF Apart, InWindow
<1>2. x \in Int /\ y \in Int /\ x <= y /\ bound = y + R + R /\ bound \in Int
    <2>1. PICK d \in Nat : d = b.era - a.era
        BY <1>1, AdmissionFacts
    <2>2. d <= mishaps
        BY <1>1, <2>1, AdmissionFacts
    <2>3. (d - 0) * R <= (mishaps - 0) * R
          /\ (d - 0) * R \in Int /\ (mishaps - 0) * R \in Int
        BY <2>2, Eras, Limits
    <2>4. (d - 0) * R = d * R /\ (mishaps - 0) * R = mishaps * R
        BY Limits
    <2>5. (2 + mishaps) * R = R + R + mishaps * R
        BY Limits
    <2>6. mishaps * R \in Int /\ (2 + mishaps) * R \in Int /\ R \in Int
        BY Limits
    <2>. QED  BY <2>1, <2>3, <2>4, <2>5, <2>6
<1>3. b.window.start <= b.tick
    BY DEF InWindow
<1>4. n <= x + b.window.count - a.window.count + R
    <2>1. b.window.start < a.tick + Minute
        BY <1>3, AdmissionFacts, Limits
    <2>. QED  BY <2>1 DEF Apart
<1>5. a.window.count = 1 => n <= x + b.window.count - a.window.count
    <2>1. ASSUME a.window.count = 1 PROVE b.window.start < a.window.start + Minute
        <3>1. a.tick = a.window.start
            BY <2>1 DEF InWindow
        <3>. QED  BY <1>3, <3>1, AdmissionFacts, Limits
    <2>. QED  BY <2>1 DEF Apart
<1> HIDE DEF x, y, bound
<1>6. n + 1 <= bound - 1
    <2>1. /\ a.window.count \in Nat /\ 1 <= a.window.count
          /\ b.window.count \in Nat /\ b.window.count <= R
        BY AdmissionFacts
    <2>2. CASE a.window.count = 1
        BY <1>2, <1>5, <2>1, <2>2, Limits
    <2>3. CASE a.window.count # 1
        BY <1>2, <1>4, <2>1, <2>3, Limits
    <2>. QED  BY <2>2, <2>3
<1>. QED  BY <1>6 DEF bound

LEMMA RecentBound ==
    ASSUME NEW s \in Seq(Admission), NEW n \in Nat, Spaced(s), mishaps \in Nat
    PROVE  Cardinality(Recent(s, n)) <= (2 + mishaps) * RateLimit - 1
<1> DEFINE S == Recent(s, n)
<1>1. /\ Len(s) \in Nat /\ S \subseteq 1..Len(s) /\ DOMAIN s = 1..Len(s)
      /\ \A i \in 1..Len(s) : s[i] \in Admission
    BY RecentFacts, LenProperties, ElementOfSeq
<1>2. CASE S = {}
    <2>1. Cardinality(S) = 0
        BY <1>2, FS_EmptySet
    <2>2. (2 + mishaps) * RateLimit = 2 * RateLimit + mishaps * RateLimit
          /\ mishaps * RateLimit \in Nat
        BY Limits
    <2>. QED  BY <2>1, <2>2, Limits
<1>3. CASE S # {}
    <2>1. PICK i \in S : \A m \in S : i <= m
        BY <1>1, <1>3, LeastOf
    <2>2. PICK j \in S : \A m \in S : m <= j
        BY <1>1, <1>3, GreatestOf
    <2>3. i \in 1..Len(s) /\ j \in 1..Len(s) /\ i <= j
        BY <1>1, <2>1, <2>2
    <2>4. Cardinality(S) <= (j - i) + 1
        <3>1. S \subseteq i..j
            BY <1>1, <2>1, <2>2
        <3>2. IsFiniteSet(i..j) /\ Cardinality(i..j) = (j - i) + 1
            <4>1. i \in Int /\ j \in Int
                BY <1>1, <2>3
            <4>2. IsFiniteSet(i..j)
                  /\ Cardinality(i..j) = IF i > j THEN 0 ELSE j - i + 1
                BY <4>1, FS_Interval
            <4>. QED  BY <1>1, <2>3, <4>2
        <3>. QED  BY <3>1, <3>2, FS_Subset
    <2>5. PICK a \in Admission : a = s[i]
        BY <1>1, <2>3
    <2>6. PICK b \in Admission : b = s[j]
        BY <1>1, <2>3
    <2>7. InWindow(a) /\ InWindow(b) /\ Apart(a, b, j - i)
        BY <2>3, <2>5, <2>6 DEF Spaced
    <2>8. b.tick <= n /\ n - a.tick < Minute
        BY <2>1, <2>2, <2>5, <2>6 DEF Recent
    <2>9. b.tick < a.tick + Minute
        BY <2>8, AdmissionFacts, Limits
    <2>10. j - i \in Nat
        BY <1>1, <2>3
    <2>11. (j - i) + 1 <= (2 + mishaps) * RateLimit - 1
        BY <2>7, <2>9, <2>10, MinuteBound
    <2>12. Cardinality(S) \in Nat /\ (2 + mishaps) * RateLimit \in Int
        BY RecentFacts, Limits
    <2>. QED  BY <2>4, <2>10, <2>11, <2>12
<1>. QED  BY <1>2, <1>3

(* Within a minute a tenant gets at most two windows of requests less one, *)
(* and one window more for each restart, and it is refused only when it    *)
(* got its limit within the last minute (TenantRateLimiter.allow).         *)
THEOREM RateIsBounded == Spec => []RateBounded
<1>1. ASSUME RateInv PROVE RateBounded
    <2>1. now \in Nat /\ mishaps \in Nat
        BY <1>1 DEF RateInv
    <2>2. ASSUME NEW t \in Tenants, NEW n \in 0..now
          PROVE  LastMinute(t, n) <= (2 + mishaps) * RateLimit - 1
        <3>1. PICK s \in Seq(Admission) : s = admitted[t]
            BY <1>1 DEF RateInv
        <3>2. Spaced(s) /\ n \in Nat
            BY <1>1, <2>1, <3>1 DEF RateInv
        <3>3. LastMinute(t, n) = Cardinality(Recent(s, n))
            BY <3>1 DEF LastMinute, Recent
        <3>. QED  BY <2>1, <3>2, <3>3, RecentBound
    <2>3. refused # None =>
              LastMinute(refused.tenant, refused.tick) >= RateLimit
        BY <1>1 DEF RateInv, Refusal
    <2>. QED  BY <2>2, <2>3 DEF RateBounded
<1>. QED  BY <1>1, RateInvariant, PTL
=============================================================================
