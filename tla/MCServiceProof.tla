--------------------------- MODULE MCServiceProof ---------------------------
(* Instances of ServiceProof for TLC.  Names are strings: a client may be  *)
(* an operator.                                                            *)
EXTENDS ServiceProof

Rate == [enabled |-> TRUE, epochBlocks |-> 3, rate |-> 1000, maxEmission |-> 15,
         minBond |-> 4, maxShare |-> 5000, concentration |-> 5000, perEpoch |-> 2,
         response |-> 2, threshold |-> 50, decay |-> 10, slash |-> 5000, jail |-> 1,
         unbonding |-> 4, maxAge |-> 2, maxUnits |-> 6, storageRate |-> 3,
         relayRate |-> 3]
Quick == [Rate EXCEPT !.epochBlocks = 2, !.response = 1, !.threshold = 25, !.perEpoch = 1]
Off == [Quick EXCEPT !.enabled = FALSE]
RateOnly == {Rate}
Switch == {Quick, Off}

TwoBlobs == [b \in {"x", "y"} |-> IF b = "x" THEN 2 ELSE 3]

Registration(b, d, roles) == [bond |-> b, declared |-> d, roles |-> roles, reward |-> "w"]
StorageNode == {Registration(4, 5, {"storage"})}
RelayNode == {Registration(4, 0, {"relay"})}
BothRoles == {Registration(4, 0, {"storage", "relay"})}

Update(b, d, roles, reward) == [bond |-> b, declared |-> d, roles |-> roles, reward |-> reward]
TopUp == {Update(4, 0, {}, "none")}
Shrink == {Update(0, 2, {}, "none"), Update(0, 0, {"storage"}, "none")}
Redirect == {Update(0, 0, {}, "mod")}

Receipt(o, c, n, e, x, u, f) ==
  [provider |-> o, client |-> c, nonce |-> n, epoch |-> e, expiry |-> x,
   units |-> u, forged |-> f]
RelayReceipts ==
  {Receipt("a", "c", 1, 0, 2, 6, FALSE), Receipt("a", "d", 1, 0, 2, 4, FALSE),
   Receipt("a", "c", 1, 1, 5, 5, FALSE), Receipt("b", "a", 1, 0, 2, 5, FALSE),
   Receipt("a", "w", 1, 1, 5, 2, FALSE), Receipt("b", "d", 2, 1, 5, 3, TRUE),
   Receipt("b", "d", 3, 1, 5, 7, FALSE)}
FewReceipts ==
  {Receipt("a", "c", 1, 0, 2, 6, FALSE), Receipt("a", "d", 1, 1, 5, 4, FALSE)}
None == {}
MCReceipts == RelayReceipts \cup FewReceipts

\* Two blobs and top-ups; two providers and their receipts; governance,
\* exports and both roles.
Storage ==
  [operators |-> {"a"}, blobs |-> {"x", "y"}, registrations |-> StorageNode, updates |-> TopUp,
   receipts |-> None, paramSets |-> RateOnly, params |-> Rate,
   height |-> 9, bond |-> 8, changes |-> 0, restarts |-> 0, zero |-> FALSE]
Relay ==
  [operators |-> {"a", "b"}, blobs |-> {"x"}, registrations |-> RelayNode, updates |-> Redirect,
   receipts |-> RelayReceipts, paramSets |-> RateOnly, params |-> Rate,
   height |-> 5, bond |-> 4, changes |-> 0, restarts |-> 0, zero |-> FALSE]
Admin ==
  [operators |-> {"a"}, blobs |-> {"x"}, registrations |-> BothRoles, updates |-> Shrink,
   receipts |-> FewReceipts, paramSets |-> Switch, params |-> Quick,
   height |-> 5, bond |-> 8, changes |-> 1, restarts |-> 1, zero |-> TRUE]
MCInstances == [storage |-> Storage, relay |-> Relay, admin |-> Admin]
=============================================================================
