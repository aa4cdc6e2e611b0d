-------------------------- MODULE MCHarnessShared ---------------------------
(* A window and a question from the command line write to one file at once. *)
(* One model each is enough: what they share is the file, not a run.        *)
EXTENDS HarnessRunRecord

MCWords == {"good", "bad"}
MCSound == {"good"}
MCRank  == [w \in MCWords |-> 0]
=============================================================================
