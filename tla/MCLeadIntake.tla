---------------------------- MODULE MCLeadIntake ----------------------------
(* Small instances of LeadIntake for TLC.                                   *)
EXTENDS LeadIntake, TLC

CONSTANTS c1, c2

\* An address typed in capitals and a blank one; a number typed with a space.
MCEmails  == {"ADA@X", " "}
MCLowered == [e \in MCEmails |-> IF e = " " THEN "" ELSE "ada@x"]

MCPhones  == {"+1 23"}
MCDigits  == [p \in MCPhones |-> "+123"]

ClientSymmetry == Permutations(Clients)
=============================================================================
