---------------------------- MODULE MCLeadRouting ----------------------------
(* A small instance of LeadRouting for TLC: a lead with a score and a custom *)
(* field, a rule that queues every lead and one for large scores; an admin   *)
(* may add, or put in place of one of them, one that reads the assignment    *)
(* and names an unknown user.                                                *)
EXTENDS LeadRouting, TLC

CONSTANTS w1, w2, l1

On(field, op, value) == {[field |-> field, op |-> op, value |-> value]}

Rule(priority, conditions, action, target) ==
    [priority |-> priority, enabled |-> TRUE, conditions |-> conditions,
     action |-> action, target |-> target]

Anyone == Rule(1, {}, "queue", "inbox")
Hot    == Rule(9, On("lead_score", "gte", "80")
                  \cup On("custom_fields.source", "in", "[web, ad]"),
               "assign_user", "ann")
Ghost  == Rule(5, On("custom_fields.source", "contains", "w")
                  \cup On("assigned_queue_name", "neq", None),
               "assign_user", "bob")

MCRuleBodies   == {Ghost}
MCInitialRules == [i \in 1..2 |-> <<Anyone, Hot>>[i]]

MCInitialLead ==
    [f \in Columns \cup {"lead_score", "custom_fields.source"} |->
        CASE f = "lead_score" -> "0" [] f = "custom_fields.source" -> "web"
          [] OTHER -> None]

MCAdmitted ==
    [f \in Columns |-> CASE f = "owner_user_id" -> {"ann"}
                         [] f = "assigned_team_id" -> {"sales"} [] OTHER -> {"inbox"}]

MCPatches == {[field |-> "lead_score", value |-> "80"],
              [field |-> "assigned_team_id", value |-> "sales"]}

MCNumber   == [v \in {"0", "80", "web", "ad"} |->
                  CASE v = "0" -> 0 [] v = "80" -> 80 [] OTHER -> None]
MCContains == {<<"web", "w">>}
MCItems    == [v \in {"[web, ad]"} |-> {"web", "ad"}]

WorkerSymmetry == Permutations(Workers)
=============================================================================
