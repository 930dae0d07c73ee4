----------------------------- MODULE MCIdentity -----------------------------
(* x/identity with the recovery configurations the runs use.               *)
EXTENDS Identity, TLC

(* No recovery; any guardian suffices; and one that has no waiting time, *)
(* which is refused.                                                       *)
MCConfigs ==
  {[guardians |-> {}, threshold |-> 0, delay |-> 0],
   [guardians |-> Guardians, threshold |-> 1, delay |-> 1],
   [guardians |-> Guardians, threshold |-> 1, delay |-> 0]}

Interchangeable ==
  Permutations(Addresses) \cup Permutations(RootKeys)
    \cup Permutations(DeviceIds) \cup Permutations(DeviceKeys)
    \cup Permutations(Guardians)
=============================================================================
