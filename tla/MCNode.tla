------------------------------- MODULE MCNode -------------------------------
(***************************************************************************)
(* A node's services for TLC: blob storage, the relay of chain queries and *)
(* the rewards agent with the wallet.  They share no state; a behaviour    *)
(* runs one of them (part), in one scenario.                               *)
(***************************************************************************)
EXTENDS Blobs, ChainRelay, Rewards, TLC

CONSTANTS A, B, D, n1, n2, n3, u1, u2, h1, h2, h3
VARIABLE part
vars == <<part, blobVars, relayVars, rewardVars>>

----------------------------------------------------------------------------
(* Blobs.  Blob A has two chunks, B shares A's first chunk, and D repeats  *)
(* one chunk.  A scenario names the operations it allows, the stores a     *)
(* client uploads to, and how many requests may be lost, tasks crash and   *)
(* blobs be deleted.                                                       *)

MCChunksOf == [c \in {A, B, D} |-> IF c = A THEN <<h1, h2>> ELSE IF c = B THEN <<h1>> ELSE <<h3, h3>>]
MCSizeOf == [c \in {A, B, D} |-> IF c = B THEN 1 ELSE 2]

BS(ops, nodes, ticking, clients, blobs, to, starts, losses, crashes, deletes, ticks) ==
  [ops |-> ops, nodes |-> nodes, ticking |-> ticking, clients |-> clients, blobs |-> blobs,
   to |-> to, starts |-> starts, losses |-> losses, crashes |-> crashes, deletes |-> deletes,
   ticks |-> ticks]

\* Clients and the local API work on one node while blobs are deleted.
Shared == BS({"upload", "local"}, {n1}, {}, {u1, u2}, {A, B}, <<n1>>, 2, 1, 0, 1, 0)
Twins == BS({"upload", "local"}, {n1}, {}, {u1}, {B, D}, <<n1>>, 3, 0, 0, 1, 0)
\* The sweep runs while uploads crawl.
Sweep == BS({"upload", "maint"}, {n1, n2}, {n1}, {u1}, {A}, <<n1>>, 2, 1, 0, 0, 1)
\* Nodes fetch, repair and lose sight of each other.
Mesh == BS({"upload", "fetch", "maint", "peers"}, {n1, n2}, {n1}, {u1}, {B}, <<n1>>, 2, 1, 0, 0, 0)
Leased == BS({"upload", "lease"}, {n1}, {}, {u1}, {A}, <<n1>>, 1, 1, 2, 1, 0)
\* One copy must become three.
Copies == BS({"upload", "maint", "live"}, {n1, n2, n3}, {n1}, {u1}, {B}, <<n1>>, 1, 1, 0, 0, 0)
MCBlobScenarios == {Shared, Twins, Sweep, Mesh, Leased, Copies}

----------------------------------------------------------------------------
(* The relay: up to three nodes of one, two or three operators, one of     *)
(* which may lie, while the chain moves.                                   *)

APath(kind) == [kind |-> kind, empty |-> FALSE, long |-> FALSE, badchar |-> FALSE,
                traversal |-> FALSE, large |-> FALSE]
LS(ops, relays, ofs, liars, values, paths, txs, faults) ==
  [ops |-> ops, relays |-> relays, operator |-> [p \in {n1, n2, n3} |-> ofs[p]], liars |-> liars,
   values |-> values, lies |-> {99}, paths |-> paths, txs |-> txs, faults |-> faults]
Apart == (n1 :> "A") @@ (n2 :> "B") @@ (n3 :> "C")
OneOperator == (n1 :> "A") @@ (n2 :> "A") @@ (n3 :> "B")
Three == <<n1, n2, n3>>
Liar(l, values) == LS({"read", "block"}, Three, Apart, {l}, values, {APath("read")}, 0, 1)
Pairs == LS({"read", "block", "clear"}, Three, OneOperator, {n2}, <<10, 11>>, {APath("read")}, 0, 1)
Paths == LS({"read", "send", "refill"}, <<n1, n2>>, Apart, {n1}, <<10>>,
            {APath("tendermint"), APath("simulate"), [APath("read") EXCEPT !.large = TRUE],
             [APath("read") EXCEPT !.traversal = TRUE]}, 1, 1)
NoRelay == LS({"read", "send"}, <<>>, Apart, {}, <<10>>, {APath("read")}, 1, 0)
MCRelayScenarios ==
  {Liar(n1, <<10, 11, 12>>), Liar(n3, <<10, 11>>), Pairs, Paths, NoRelay}

----------------------------------------------------------------------------
(* Rewards and wallet: receipts across two epochs, challenges, assignments *)
(* and payments, with one fault each and restarts.                         *)

MCTasks == {"loop", "register", "wallet"}
MCAccountOf == [t \in Tasks |-> IF t = "wallet" THEN "user" ELSE "operator"]
MCBlobOf == [c \in Challenges |-> IF c = 3 THEN "other" ELSE "blob"]
KS(ops, clients, receipts, epochs, assigner, holders, txs, faults) ==
  [ops |-> ops, clients |-> clients, receipts |-> receipts, epochs |-> epochs, assigner |-> assigner,
   holders |-> holders, maxAssign |-> 2, txs |-> txs, faults |-> faults,
   fails |-> {{}, {"username"}}, price |-> 2, funds |-> 5]
Earn == KS({"tick", "receipt", "epoch", "restart", "expire"}, {1}, 2, 2, FALSE, {}, 2, 1)
Two == [Earn EXCEPT !.clients = {1, 2}, !.epochs = 1]
Prove == KS({"tick", "challenge", "restart", "expire"}, {}, 0, 1, FALSE, {}, 4, 1)
Assign == KS({"tick", "register", "restart", "expire"}, {}, 0, 1, TRUE, {"peer"}, 5, 1)
Pay == KS({"submit", "relaunch"}, {}, 0, 1, FALSE, {}, 2, 1)
Badge == KS({"badge", "relaunch"}, {}, 0, 1, FALSE, {}, 2, 1)
MCRewardsScenarios == {Earn, Two, Prove, Assign, Pay, Badge}

----------------------------------------------------------------------------
Init ==
  /\ part \in {"blobs", "relay", "rewards"}
  /\ BlobsInit(IF part = "blobs" THEN MCBlobScenarios ELSE {Shared})
  /\ RelayInit(IF part = "relay" THEN MCRelayScenarios ELSE {NoRelay})
  /\ RewardsInit(IF part = "rewards" THEN MCRewardsScenarios ELSE {Pay})

Next ==
  \/ part = "blobs" /\ BlobsNext /\ UNCHANGED <<part, relayVars, rewardVars>>
  \/ part = "relay" /\ RelayNext /\ UNCHANGED <<part, blobVars, rewardVars>>
  \/ part = "rewards" /\ RewardsNext /\ UNCHANGED <<part, blobVars, relayVars>>

\* The tasks of a node keep running, the minute tick comes again, answers
\* that are not lost arrive, and what a node knows of a blob's holders grows
\* old.  The timers of the agent and the wallet fire and the chain makes
\* blocks.
Fairness ==
  /\ \A n \in Nodes :
       /\ WF_blobVars(part = "blobs" /\ NetTask(n))
       /\ WF_blobVars(part = "blobs" /\ MaintTask(n))
  /\ \A c \in BlobIds : WF_blobVars(part = "blobs" /\ \E n \in Nodes : GrowStale(n, c))
  /\ \A x \in Senders : WF_blobVars(part = "blobs" /\ TransferAnswered(x))
  /\ WF_rewardVars(part = "rewards" /\ LoopNext)
  /\ WF_rewardVars(part = "rewards" /\ Block)
  /\ WF_rewardVars(part = "rewards" /\ RegisterStep)
  /\ WF_rewardVars(part = "rewards" /\ track_tx /\ UNCHANGED <<ksc, serviceVars, agentVars>>)
  /\ \A id \in 1..MaxTx :
       WF_rewardVars(part = "rewards" /\ poll_pending(id) /\ UNCHANGED <<ksc, serviceVars, agentVars>>)

Spec == Init /\ [][Next]_vars /\ Fairness
=============================================================================
