----------------------------- MODULE MCUsername -----------------------------
(* Two owners, two spellings of one look and a name of its own.            *)
EXTENDS Username

MCSkeleton == [n \in {"bill", "bi11", "eve"} |-> IF n = "eve" THEN "eve" ELSE "bill"]
Launch == [period |-> 2, grace |-> 1, wellFormed |-> {"bill", "bi11", "eve"},
           reserved |-> {}, registrationFee |-> 2, renewalFee |-> 1]
Longer == [Launch EXCEPT !.period = 3, !.grace = 0, !.reserved = {"eve"}]
Forever == [Launch EXCEPT !.period = 0]
MCParamSets == {Launch, Longer, Forever}
OnlyLaunch == {Launch}
=============================================================================
