---------------------------- MODULE MCSequenceExec ----------------------------
(* Small instances of SequenceExec for TLC.                                  *)
EXTENDS SequenceExec, TLC

CONSTANTS w1, w2, lead, seq, email, text, wait

\* An email and a text message; "wait", which calls nobody, is there to be
\* inserted.
MCInitialSteps == [s \in Seqs |-> <<email, text>>]

MCChannel == [st \in Steps |-> CASE st = email -> "email"
                                 [] st = text  -> "sms"
                                 [] OTHER      -> "none"]

WorkerSymmetry == Permutations(Workers)
=============================================================================
