---------------------------- MODULE TenantAccess ----------------------------
(***************************************************************************)
(* The way of a request through the API process: authentication and the    *)
(* rate limit (app/middleware/auth.py, app/security/rate_limit.py), the    *)
(* role check (app/core/dependencies.py), the administration of tenants    *)
(* (app/api/admin.py, ProvisioningService, TenantRepository) and the audit *)
(* log (request_logging_middleware of app/main.py).                        *)
(*                                                                         *)
(* One process serves several requests at a time, that interleave at its   *)
(* database calls.  PostgreSQL at READ COMMITTED.                          *)
(***************************************************************************)
EXTENDS Naturals, Sequences, FiniteSets

CONSTANTS
    Callers,       \* requests in progress at a time
    Requests,      \* requests clients make: [path, token, header, op, target, value]
    Tenants,       \* ids of tenants
    Founder,       \* the tenant there is at first
    FounderSlug,
    PlanDefault,   \* the limit of every plan
    Override,      \* the limit in the settings of Founder
    EnforceHeader, \* ENFORCE_TENANT_HEADER_MATCH
    RateLimit,     \* RATE_LIMIT_PER_MINUTE
    Minute,        \* a minute, in ticks
    None,
    MaxTime,       \* bound: ticks
    MaxRequests,   \* bound: requests ever made
    MaxMishaps     \* bound: crashes and database failures

(* A limit that an administrator sets for a tenant is a positive number.   *)
ASSUME ConstantsOK ==
    /\ RateLimit \in Nat \ {0} /\ Minute \in Nat \ {0}
    /\ Founder \in Tenants /\ Override \in Nat \ {0}
    /\ None \notin Tenants /\ "anonymous" \notin Tenants
    /\ IsFiniteSet(Callers) /\ IsFiniteSet(Tenants)

VARIABLES
    tenants,     \* committed rows of tenants: id -> [slug, settings]
    owners,      \* committed rows of users with the role owner, per tenant
    keys,        \* committed rows of api_keys, per tenant
    windows,     \* _windows of the limiter: tenant -> [start, count]
    audit,       \* rows of audit_logs about changes, in the order of their ids
    call,        \* per caller: its request and what it has read
    now,
    requests,    \* history: requests made
    admitted,    \* history: requests let through, per tenant: [tick, window, era]
    refused,     \* history: tenant and tick of the last 429
    issued,      \* history: tenants whose key was answered
    promised,    \* history: the settings the answered calls have left, per tenant
    overlapped,  \* history: tenants whose settings two calls changed at a time
    effects,     \* history: committed calls that write
    mishaps

vars == <<tenants, owners, keys, windows, audit, call, now, requests, admitted,
          refused, issued, promised, overlapped, effects, mishaps>>

database == <<tenants, owners, keys>>
history  == <<issued, promised, overlapped, effects>>
limiter  == <<windows, admitted, refused>>

-----------------------------------------------------------------------------
Idle == [pc |-> "idle"]

(* The settings of a new tenant.                                           *)
Fresh == [plan_limits |-> None, design_partner |-> FALSE, rollout_percentage |-> 0]

Set(c, r)      == call' = [call EXCEPT ![c] = r]
Answer(req, context, status, key) ==
    [pc |-> "audit", request |-> req, context |-> context, status |-> status,
     key |-> key]
Respond(c, status) == Set(c, Answer(call[c].request, call[c].context, status, None))
With(f, x, v)  == [y \in DOMAIN f \cup {x} |-> IF y = x THEN v ELSE f[y]]
Fault          == mishaps < MaxMishaps /\ mishaps' = mishaps + 1

(* get_plan_limits: a positive number in the settings goes first.          *)
PlanLimits(t) ==
    IF t \notin DOMAIN tenants THEN PlanDefault
    ELSE LET v == tenants[t].settings.plan_limits
         IN  IF v \in Nat \ {0} THEN v ELSE PlanDefault

Init ==
    /\ tenants = [t \in {Founder} |-> [slug |-> FounderSlug,
                     settings |-> [Fresh EXCEPT !.plan_limits = Override]]]
    /\ owners = [t \in {Founder} |-> 1]
    /\ keys = [t \in {Founder} |-> 1]
    /\ windows = [t \in {} |-> None]
    /\ audit = << >>
    /\ call = [c \in Callers |-> Idle]
    /\ now = 0 /\ requests = 0
    /\ admitted = [t \in Tenants |-> << >>]
    /\ refused = None
    /\ issued = {Founder}
    /\ promised = [t \in {Founder} |-> [design_partner |-> FALSE,
                                        rollout_percentage |-> 0]]
    /\ overlapped = {} /\ effects = 0 /\ mishaps = 0

Tick ==
    /\ now < MaxTime
    /\ now' = now + 1
    /\ UNCHANGED <<database, windows, audit, call, requests, admitted, refused,
                   history, mishaps>>

-----------------------------------------------------------------------------
(* AuthMiddleware.dispatch.                                                *)
ExcludedPaths == {"health", "webhook"}

(* The administration is not among them, and a JWT is signed for a tenant. *)
ASSUME RequestsOK ==
    \A r \in Requests :
        /\ r.path \in ExcludedPaths => r.op = "me"
        /\ r.token # None /\ r.token.type = "jwt" => r.token.tenant \in Tenants

(* Mutant: a window ends one tick late.                                    *)
ExpiredLate(w) == now - w.start > Minute

(* A new window after a minute.                                            *)
Expired(w) == now - w.start >= Minute

(* TenantRateLimiter.allow: nothing in it waits, so it runs at once.       *)
Allowed(t) ==
    t \in DOMAIN windows =>
        Expired(windows[t]) \/ windows[t].count < RateLimit

Admit(t) ==
    LET w == IF t \notin DOMAIN windows \/ Expired(windows[t])
             THEN [start |-> now, count |-> 1]
             ELSE [windows[t] EXCEPT !.count = @ + 1]
    IN
    /\ windows' = With(windows, t, w)
    /\ admitted' = [admitted EXCEPT ![t] =
                        Append(@, [tick |-> now, window |-> w, era |-> mishaps])]
    /\ UNCHANGED refused

HeaderMatches(req, t) == EnforceHeader => req.header \in {None, t}

(* The end of dispatch: tenant header, limit, and the role that the admin  *)
(* endpoints require (an API key has none).                                *)
Dispatch(c, req, context) ==
    LET outcome(status) == Set(c, Answer(req, context, status, None))
        t == context.tenant
    IN
    \/ /\ ~HeaderMatches(req, t)
       /\ outcome(403) /\ UNCHANGED limiter
    \/ /\ HeaderMatches(req, t)
       /\ ~Allowed(t)
       /\ refused' = [tenant |-> t, tick |-> now]
       /\ outcome(429) /\ UNCHANGED <<windows, admitted>>
    \/ /\ HeaderMatches(req, t)
       /\ Allowed(t)
       /\ Admit(t)
       /\ IF req.op = "me" THEN outcome(200)
          ELSE IF context.role \notin {"admin", "owner"} THEN outcome(403)
          ELSE Set(c, [pc |-> "begin", request |-> req, context |-> context])

Anonymous == [tenant |-> "anonymous", role |-> None]

Arrive(c, req) ==
    /\ call[c] = Idle
    /\ requests < MaxRequests
    /\ requests' = requests + 1
    /\ UNCHANGED <<database, audit, now, history, mishaps>>

(* Excluded paths are served as they are.                                  *)
ArriveExcluded(c, req) ==
    /\ Arrive(c, req)
    /\ req.path \in ExcludedPaths
    /\ Set(c, Answer(req, Anonymous, 200, None))
    /\ UNCHANGED limiter

(* A missing or empty bearer token.                                        *)
ArriveTokenless(c, req) ==
    /\ Arrive(c, req)
    /\ req.path \notin ExcludedPaths
    /\ req.token = None
    /\ Set(c, Answer(req, Anonymous, 401, None))
    /\ UNCHANGED limiter

(* A JWT that decodes and names a tenant.                                  *)
ArriveJwt(c, req) ==
    /\ Arrive(c, req)
    /\ req.path \notin ExcludedPaths
    /\ req.token # None /\ req.token.type = "jwt"
    /\ Dispatch(c, req, [tenant |-> req.token.tenant, role |-> req.token.role])

(* Anything else may be an API key, one that was answered or a wrong one;  *)
(* the lookup commits its last use.                                        *)
ArriveKey(c, req) ==
    /\ Arrive(c, req)
    /\ req.path \notin ExcludedPaths
    /\ req.token # None /\ req.token.type = "key"
    /\ req.token.tenant \in issued \cup {None}
    /\ Set(c, [pc |-> "key", request |-> req])
    /\ UNCHANGED limiter

ResolveKey(c) ==
    LET req == call[c].request
        t   == req.token.tenant
    IN
    /\ call[c].pc = "key"
    /\ IF t \in DOMAIN keys
       THEN Dispatch(c, req, [tenant |-> t, role |-> None])
       ELSE /\ Set(c, Answer(req, Anonymous, 401, None))
            /\ UNCHANGED limiter
    /\ UNCHANGED <<database, audit, now, requests, history, mishaps>>

-----------------------------------------------------------------------------
(* The endpoints.                                                          *)
Handler(c, pc, op) == call[c].pc = pc /\ call[c].request.op = op

(* provision_tenant: get_by_slug, then the tenant, its owner and its key   *)
(* are inserted, and committed together.                                   *)
CheckSlug(c) ==
    LET slug == call[c].request.target IN
    /\ Handler(c, "begin", "provision")
    /\ IF \E t \in DOMAIN tenants : tenants[t].slug = slug
       THEN Respond(c, 400)
       ELSE Set(c, [call[c] EXCEPT !.pc = "insert"])
    /\ UNCHANGED <<database, limiter, audit, now, requests, history, mishaps>>

(* Mutant: slugs are not unique in the database.                           *)
SlugTakenNever(slug) == FALSE

(* The unique index of tenants.slug.                                       *)
SlugTaken(slug) == \E t \in DOMAIN tenants : tenants[t].slug = slug

(* An uncommitted row of the slug makes the insert wait; a committed one   *)
(* fails it (500, without an audit entry).                                 *)
SlugPending(slug) ==
    \E c \in Callers : call[c].pc = "committing"
                       /\ call[c].request.target = slug

InsertTenant(c) ==
    LET slug == call[c].request.target IN
    /\ Handler(c, "insert", "provision")
    /\ ~SlugPending(slug)
    /\ Cardinality(Tenants \ DOMAIN tenants)
         > Cardinality({d \in Callers : call[d].pc = "committing"})
    /\ IF SlugTaken(slug) THEN Set(c, Idle)
       ELSE Set(c, [call[c] EXCEPT !.pc = "committing"])
    /\ UNCHANGED <<database, limiter, audit, now, requests, history, mishaps>>

CommitTenant(c) ==
    LET req == call[c].request
        t   == CHOOSE t \in Tenants : t \notin DOMAIN tenants
    IN
    /\ Handler(c, "committing", "provision")
    /\ tenants' = With(tenants, t, [slug |-> req.target, settings |-> Fresh])
    /\ owners' = With(owners, t, 1)
    /\ keys' = With(keys, t, 1)
    /\ promised' = With(promised, t, [design_partner |-> FALSE,
                                      rollout_percentage |-> 0])
    /\ effects' = effects + 1
    /\ Set(c, Answer(req, call[c].context, 200, t))
    /\ UNCHANGED <<limiter, audit, now, requests, issued, overlapped, mishaps>>

(* enroll_design_partner and promote_rollout copy the settings they read.  *)
Writers == {"enroll", "promote"}

ReadTenant(c) ==
    LET t == call[c].request.target IN
    /\ call[c].pc = "begin" /\ call[c].request.op \in Writers
    /\ IF t \in DOMAIN tenants
       THEN /\ Set(c, [pc |-> "write", request |-> call[c].request,
                       context |-> call[c].context, read |-> tenants[t].settings])
            /\ overlapped' =
                   IF \E d \in Callers \ {c} : call[d].pc = "write"
                                               /\ call[d].request.target = t
                   THEN overlapped \cup {t} ELSE overlapped
       ELSE Respond(c, 404) /\ UNCHANGED overlapped
    /\ UNCHANGED <<database, limiter, audit, now, requests, issued, promised,
                   effects, mishaps>>

(* Mutant: the settings are replaced, not copied.                          *)
ChangedAfresh(s, req) ==
    IF req.op = "enroll" THEN [Fresh EXCEPT !.design_partner = TRUE]
    ELSE [Fresh EXCEPT !.rollout_percentage = req.value]

Changed(s, req) ==
    IF req.op = "enroll" THEN [s EXCEPT !.design_partner = TRUE]
    ELSE [s EXCEPT !.rollout_percentage = req.value]

(* Settings equal to those that were read are not written.                 *)
WriteSettings(c) ==
    LET req == call[c].request
        t   == req.target
        new == Changed(call[c].read, req)
    IN
    /\ call[c].pc = "write"
    /\ tenants' = IF new = call[c].read THEN tenants
                  ELSE [tenants EXCEPT ![t].settings = new]
    /\ promised' = [promised EXCEPT ![t] =
                       IF req.op = "enroll" THEN [@ EXCEPT !.design_partner = TRUE]
                       ELSE [@ EXCEPT !.rollout_percentage = req.value]]
    /\ effects' = effects + 1
    /\ Respond(c, 200)
    /\ UNCHANGED <<owners, keys, limiter, audit, now, requests, issued,
                   overlapped, mishaps>>

(* get_plan_limits and get_tenant_usage: 404 without the tenant.           *)
ShowTenant(c) ==
    LET t == call[c].request.target IN
    /\ Handler(c, "begin", "show")
    /\ Respond(c, IF t \in DOMAIN tenants THEN 200 ELSE 404)
    /\ UNCHANGED <<database, limiter, audit, now, requests, history, mishaps>>

-----------------------------------------------------------------------------
(* request_logging_middleware: the answer goes out after its audit entry.  *)
(* Health checks have none, and those of reads and refusals are left out.  *)
(* Mutant: only calls without success are recorded.                        *)
AuditedRefusals(r, status) == r.path # "health" /\ status # 200

Audited(r, status) == r.path # "health"

Writes(op, status) == op \in Writers \cup {"provision"} /\ status = 200

AuditAndAnswer(c) ==
    LET r == call[c] IN
    /\ r.pc = "audit"
    /\ audit' = IF ~Audited(r.request, r.status) \/ ~Writes(r.request.op, r.status)
                THEN audit
                ELSE Append(audit, [tenant_id |-> r.context.tenant,
                                    op |-> r.request.op])
    /\ issued' = issued \cup ({r.key} \ {None})
    /\ Set(c, Idle)
    /\ UNCHANGED <<database, limiter, now, requests, promised, overlapped,
                   effects, mishaps>>

(* A statement fails, of the handler or of the audit: 500, the transaction *)
(* is rolled back, and there is no audit entry.                            *)
Fails(c) ==
    /\ call[c] # Idle
    /\ Fault
    /\ Set(c, Idle)
    /\ UNCHANGED <<database, limiter, audit, now, requests, history>>

(* The process restarts: the windows were in its memory.                   *)
Restart ==
    /\ Fault
    /\ call' = [c \in Callers |-> Idle]
    /\ windows' = [t \in {} |-> None]
    /\ UNCHANGED <<database, audit, now, requests, admitted, refused, history>>

-----------------------------------------------------------------------------
Next ==
    \/ Tick \/ Restart
    \/ \E c \in Callers :
           \/ \E req \in Requests :
                  \/ ArriveExcluded(c, req) \/ ArriveTokenless(c, req)
                  \/ ArriveJwt(c, req) \/ ArriveKey(c, req)
           \/ ResolveKey(c)
           \/ CheckSlug(c) \/ InsertTenant(c) \/ CommitTenant(c)
           \/ ReadTenant(c) \/ WriteSettings(c) \/ ShowTenant(c)
           \/ AuditAndAnswer(c) \/ Fails(c)

Spec == Init /\ [][Next]_vars

-----------------------------------------------------------------------------
(* Slugs name one tenant each, although two calls may find a slug free; a  *)
(* tenant that can be seen has its owner and its key, and a key that was   *)
(* answered resolves, whatever call died in between.                       *)
TenantsComplete ==
    /\ \A t, u \in DOMAIN tenants :
           tenants[t].slug = tenants[u].slug => t = u
    /\ DOMAIN owners = DOMAIN tenants /\ DOMAIN keys = DOMAIN tenants
    /\ issued \subseteq DOMAIN keys

(* An enrolment and a promotion stay as they were last answered, unless    *)
(* two calls about the tenant overlapped, each of which writes the whole   *)
(* settings; the overrides of the plan limits survive both.                *)
SettingsKept ==
    /\ \A t \in DOMAIN tenants \ overlapped :
           \A k \in {"design_partner", "rollout_percentage"} :
               tenants[t].settings[k] = promised[t][k]
    /\ PlanLimits(Founder) = Override

LastMinute(t, n) ==
    Cardinality({i \in DOMAIN admitted[t] :
                     LET m == admitted[t][i].tick IN m <= n /\ n - m < Minute})

(* Within any minute a tenant gets at most twice its limit less one, the   *)
(* end of a window and the begin of the next (each restart allows one more *)
(* window), and it is refused only when it got its limit within the last   *)
(* minute: refusals do not prolong a window.                               *)
RateBounded ==
    /\ \A t \in Tenants, n \in 0..now :
           LastMinute(t, n) <= (2 + mishaps) * RateLimit - 1
    /\ refused # None => LastMinute(refused.tenant, refused.tick) >= RateLimit

(* Each committed change by an administrator has its entry in the audit    *)
(* log, and an entry of a success its committed change: only a mishap      *)
(* between the commit and the audit, which is a transaction of its own,    *)
(* loses one.  Nobody changes anything anonymously.                        *)
EffectsAudited ==
    LET entries == Len(audit)
        pending == Cardinality({c \in Callers :
                       /\ call[c].pc = "audit"
                       /\ Writes(call[c].request.op, call[c].status)})
    IN  /\ entries + pending <= effects
        /\ effects <= entries + pending + Cardinality(Callers) * mishaps
        /\ \A i \in DOMAIN audit : audit[i].tenant_id # "anonymous"
=============================================================================
