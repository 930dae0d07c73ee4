------------------------------- MODULE MCSwarm -------------------------------
(***************************************************************************)
(* Instances of Swarm: a peer of our network and one of another, with      *)
(* bounded numbers of faults and of things the peers do.                   *)
(***************************************************************************)
EXTENDS Swarm

CONSTANTS good, fork

SS(ops, boot, guests, faults, asks) ==
  [ops |-> ops, boot |-> boot, guests |-> guests, faults |-> faults, asks |-> asks]
\* One forged message bans at once, instead of two.
MCBanThreshold == -50

\* A configured peer whose connections fail and die while a request waits.
Flaky == SS({"ask", "die"}, {good}, {}, 1, 0)
\* Both peers dial in past the limits while we dial out.
Crowd == SS({}, {good}, {good}, 0, 3)
Strangers == SS({"inbound"}, {}, {fork}, 0, 3)
\* Bans for forged gossip, for floods and by the application.
Bans == SS({"ban", "inbound"}, {good}, {}, 1, 2)
Fork == SS({"inbound", "ask"}, {fork}, {}, 0, 1)
MCSwarmScenarios == {Flaky, Crowd, Strangers, Bans, Fork}

\* Time passes, the application reads its events, libp2p settles what it
\* owes, and the probes of a dead connection fail.
Fairness ==
  /\ WF_swarmVars(SwarmTick) /\ WF_swarmVars(AppStep)
  /\ \A p \in Peers : WF_swarmVars(Settles(p)) /\ WF_swarmVars(LiveSlots(p) = {} /\ PingFails(p))

Spec == SwarmInit(MCSwarmScenarios) /\ [][SwarmNext]_swarmVars /\ Fairness
=============================================================================
