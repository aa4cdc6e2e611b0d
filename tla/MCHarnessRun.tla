---------------------------- MODULE MCHarnessRun ----------------------------
(* One window puts one question to up to three models, each of which may    *)
(* give one answer of every kind the checking and the ranking tell apart.   *)
EXTENDS HarnessRunRecord

MCWords == {"good", "better", "bad"}
MCSound == {"good", "better"}
MCRank  == [w \in MCWords |-> IF w = "better" THEN 1 ELSE 0]
=============================================================================
