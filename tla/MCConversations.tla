--------------------------- MODULE MCConversations ---------------------------
(***************************************************************************)
(* Conversations between devices for TLC: MLS groups, spaces and circles.  *)
(* Spaces and circles are modelled over a group that delivers in any order *)
(* (their sbox and cbox), so the three share no state: a behaviour runs    *)
(* one of them (part), in one scenario.                                    *)
(***************************************************************************)
EXTENDS Groups, Spaces, Circles
CONSTANTS a1, a2, b1, c1
VARIABLE part
vars == <<part, groupVars, spaceVars, circleVars>>

MCOwner == [d \in {a1, a2, b1, c1} |-> IF d = b1 THEN "b" ELSE IF d = c1 THEN "c" ELSE "a"]

----------------------------------------------------------------------------
(* Groups: devices that register late, are revoked, crash before a save or *)
(* use one of two packages, with one or two failures.                      *)
GS(ops, fresh, gids, onceN, states, faults) ==
  [ops |-> ops, gids |-> gids, registry |-> [d \in Devices |-> IF d \in fresh THEN "absent" ELSE "active"],
   once |-> onceN, states |-> states, faults |-> faults]
Join == GS({"converse", "send", "reconcile", "register"}, {a2}, {1}, 1, 2, 0)
Late == GS({"converse", "reconcile", "register"}, {a2}, {1}, 1, 1, 1)
Lost == GS({"converse", "revoke", "reconcile"}, {}, {1}, 0, 1, 1)
Manage == GS({"circle", "add", "remove", "send"}, {}, {1}, 1, 3, 0)
Crashing == GS({"converse", "crash"}, {a2}, {1, 2}, 1, 2, 2)
MCGroupScenarios == {Join, Late, Lost, Manage, Crashing}

----------------------------------------------------------------------------
(* Spaces: one managing device or several, clocks that differ, a send that *)
(* fails, a small pending set.                                             *)
SS(ops, roles, writers, online, times, events, pending) ==
  [ops |-> {"create"} \cup ops, roles |-> roles, writers |-> writers, online |-> online,
   times |-> times, events |-> events, pending |-> pending, faults |-> 0, creator |-> a1]
Sole == SS({"add", "remove", "restart"}, {2}, {a1}, {b1, c1}, {1}, 4, 20)
Skew == SS({"add", "role", "restart"}, {1, 2}, {a1}, {b1}, {1, 2}, 4, 20)
Fail == [Sole EXCEPT !.online = {b1}, !.faults = 1, !.events = 5]
Many == SS({"add", "role", "remove"}, {3, 4}, {a1, b1}, {a1, b1}, {1}, 5, 1)
Twin == SS({"add", "post"}, {2}, {a1, a2}, {a1, b1}, {1}, 4, 1)
Talk == SS({"add", "post", "comment", "announce", "share", "unshare", "info"}, {2}, {a1, b1}, {a1, b1}, {1}, 5, 20)
MCSpaceScenarios == {Sole, Skew, Fail, Many, Twin, Talk}

----------------------------------------------------------------------------
(* Circles: reactions, polls of both kinds, restarts.                      *)
NoPoll == [on |-> FALSE, multi |-> FALSE, closes |-> 0]
RS(ops, polls, times, events, faults) ==
  [ops |-> ops, polls |-> polls, times |-> times, events |-> events, faults |-> faults]
Feel == RS({"post", "react", "restart"}, {NoPoll}, {1, 2}, 3, 0)
Poll == RS({"post", "vote"}, {[on |-> TRUE, multi |-> m, closes |-> 1] : m \in BOOLEAN}, {1, 2}, 3, 0)
Rest == RS({"post", "comment", "delete", "info", "restart"}, {NoPoll}, {1}, 3, 1)
MCCircleScenarios == {Feel, Poll, Rest}

----------------------------------------------------------------------------
Init ==
  /\ part \in {"groups", "spaces", "circles"}
  /\ GroupInit(IF part = "groups" THEN MCGroupScenarios ELSE {Lost})
  /\ SpaceInit(IF part = "spaces" THEN MCSpaceScenarios ELSE {Sole})
  /\ CircleInit(IF part = "circles" THEN MCCircleScenarios ELSE {Feel})

Next ==
  \/ part = "groups" /\ GroupNext /\ UNCHANGED <<part, spaceVars, circleVars>>
  \/ part = "spaces" /\ SpaceNext /\ UNCHANGED <<part, groupVars, circleVars>>
  \/ part = "circles" /\ CircleNext /\ UNCHANGED <<part, groupVars, spaceVars>>

\* A running client syncs, and so reconciles and reads its mailbox, for ever.
Fairness ==
  /\ \A d \in Devices : WF_groupVars(part = "groups" /\ DeviceStep(d))
  /\ WF_spaceVars(part = "spaces" /\ \E msg \in sbox : HandleIncoming(msg))

Spec == Init /\ [][Next]_vars /\ Fairness
=============================================================================
