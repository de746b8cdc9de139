---------------------------- MODULE MCTenantAccess ----------------------------
(* Small instances of TenantAccess for TLC: a founder with a limit of its    *)
(* own, and the requests that take the different ways.                       *)
EXTENDS TenantAccess, TLC

CONSTANTS c1, c2, t1, t2, t3

Jwt(t, role) == [type |-> "jwt", tenant |-> t, role |-> role]
Key(t)       == [type |-> "key", tenant |-> t]

Request(path, token, header, op, target, value) ==
    [path |-> path, token |-> token, header |-> header, op |-> op,
     target |-> target, value |-> value]

Admin(op, target, value) == Request("api", Jwt(t1, "admin"), None, op, target, value)

MCRequests ==
    { Admin("provision", "acme", None),
      Admin("enroll", t1, None),
      Admin("promote", t1, 50),
      Admin("promote", t3, 50),
      Admin("show", t3, None),
      Request("api", Key(t2), t2, "me", None, None),
      Request("api", Key(t1), t2, "me", None, None),
      Request("api", Key(t1), None, "show", t1, None),
      Request("api", Key(None), None, "me", None, None),
      Request("api", None, None, "me", None, None),
      Request("health", None, None, "me", None, None) }

CallerSymmetry == Permutations(Callers)
===============================================================================
