---------------------------- MODULE MCLeadSignals ----------------------------
(* Small instances of LeadSignals for TLC: one lead and one session; a warm  *)
(* message, and a hot one the analysis of which may not fit into its column. *)
EXTENDS LeadSignals, TLC

CONSTANTS w1, w2, l1, s1

Analysis(intent, size, urgency, sentiment, storable) ==
    [intent |-> intent, size |-> size, urgency |-> urgency,
     sentiment |-> sentiment, tokens |-> 1, storable |-> storable]

Warm == Analysis("support", 20, "low", "neutral", TRUE)
Hot  == Analysis("demo_request", 200, "high", "positive", TRUE)

MCAnswers == [c \in {"warm", "hot"} |->
                 IF c = "warm" THEN {Warm} ELSE {Hot, [Hot EXCEPT !.storable = FALSE]}]
MCAnnotations == {None, Hot}
MCPatches == {[score |-> 90], [fit |-> 30, engagement |-> 30]}
MCModelOf == [c \in {"warm", "hot"} |-> "mini"]

HotAnswers == [c \in {"hot"} |-> {Hot}]
HotModelOf == [c \in {"hot"} |-> "mini"]

WorkerSymmetry == Permutations(Workers)
=============================================================================
