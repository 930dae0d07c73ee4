------------------------------ MODULE MCDesktop ------------------------------
(***************************************************************************)
(* The desktop application: Home (the vault, the session and the commands) *)
(* and NodeSupervisor (the node it runs).  They share no state, so each    *)
(* behaviour lets one of them act.                                         *)
(***************************************************************************)
EXTENDS Home, NodeSupervisor

CONSTANTS h1, h2, c1, c2, k1, k2, p1, p2

VARIABLE part

vars == <<part, homeVars, nodeVars>>

----------------------------------------------------------------------------
AllScripts == DesktopCommands \cup ClientCommands

MkScene(ops, scripts, vault, sends, runs, alone) ==
  [ops |-> ops, client |-> {s \in ClientCommands : s \in scripts},
   desktop |-> {s \in DesktopCommands : s \in scripts},   vault |-> vault, sends |-> sends, runs |-> runs, alone |-> alone]

\* Runs of the client on a new home, and on one home at once; the app with
\* its commands, rounds and locks; onboarding, backup and restore after a
\* wipe and on another home; the passphrase and Windows Hello.
MCHomeScenes ==
  { MkScene({"identity", "cli"}, {MessageSend, DeviceTx}, NoH, 2, 3, TRUE),
    MkScene({"cli", "crash"}, AllScripts, p1, 2, 2, FALSE),
    MkScene({"unlock", "command", "crash", "touch"}, AllScripts, p1, 2, 1, TRUE),
    MkScene({"unlock", "lock", "command", "sync"}, {people_respond, mail_read_mark}, p1, 2, 2, TRUE),
    MkScene({"unlock", "auto", "command", "sync"}, {mail_read_mark}, p1, 1, 2, TRUE),
    MkScene({"unlock", "command", "crash"}, {people_respond, mail_read_mark}, p1, 2, 2, FALSE),
    MkScene({"onboard", "lock", "wipe", "hello"}, {}, NoH, 1, 2, TRUE),
    MkScene({"onboard", "unlock", "lock", "backup", "wipe"}, {}, p1, 1, 1, TRUE),
    MkScene({"unlock", "backup", "command", "identity", "cli"}, {mail_read_mark, OneMailRead}, p1, 2, 3, TRUE),
    MkScene({"unlock", "passphrase", "hello"}, {}, p1, 1, 2, FALSE) }

MCPassphraseScene == MkScene({"unlock", "passphrase"}, {}, p1, 1, 1, TRUE)

----------------------------------------------------------------------------
NS(ops, elevated, starts, stops) == [ops |-> ops, elevated |-> elevated, starts |-> starts, stops |-> stops]
Turns == NS({"start", "stop", "node", "hang", "status"}, FALSE, 2, 2)
Logon == NS({"start", "stop", "node", "install"}, FALSE, 1, 1)
Service == NS({"start", "stop", "node", "install"}, TRUE, 1, 1)
Overlap == NS({"start", "stop", "node", "overlap"}, FALSE, 3, 2)
MCSupervisorScenarios == {Turns, Logon, Service, Overlap}

----------------------------------------------------------------------------
Init ==
  \/ part = "home" /\ HomeInit(MCHomeScenes) /\ SupervisorInit({Turns})
  \/ part = "node" /\ HomeInit({MCPassphraseScene}) /\ SupervisorInit(MCSupervisorScenarios)

Next ==
  \/ part = "home" /\ HomeNext /\ UNCHANGED <<part, nodeVars>>
  \/ part = "node" /\ SupervisorNext /\ UNCHANGED <<part, homeVars>>

\* The calls in flight, the round in progress and the timers go on; so do
\* the watch loop and a start or a stop that began.  Nothing makes the user
\* or the node act.
Fairness ==
  /\ \A k \in CallIds :
       /\ WF_homeVars(part = "home" /\ CallGoesOn(k))
       /\ WF_homeVars(part = "home" /\ \E o \in [wire : BOOLEAN, on : BOOLEAN] : CommandStep(k, o))
  /\ SF_homeVars(part = "home" /\ \E k \in CallIds : SetOne(k) \/ DropOne(k))
  /\ WF_homeVars(part = "home" /\ GoIdle)
  /\ WF_nodeVars(part = "node" /\ (WatchLook \/ WatchAsk \/ WatchObserve))
  /\ WF_nodeVars(part = "node" /\ (Preflight \/ Spawn \/ Store))
  /\ WF_nodeVars(part = "node" /\ (StopKill \/ StopSettle \/ StopLogon))

Spec == Init /\ [][Next]_vars /\ Fairness
=============================================================================
