--------------------------- MODULE NodeSupervisor ---------------------------
(***************************************************************************)
(* The node the desktop application runs on this computer                  *)
(* (node_supervisor.rs), the commands that start and stop it (cmd_earn.rs) *)
(* and its registration to run at logon (node_manager.rs).                 *)
(*                                                                         *)
(* The supervisor's record is behind a mutex; start, stop and the watch    *)
(* loop let go of it between their steps, and a process exits, hangs or    *)
(* binds its port at any time.  A process is its stage: what an observer   *)
(* of its port and of its API can tell.  Log lines, the fields of the      *)
(* status page other than state and pid, and the disk-space check, which   *)
(* blocks nothing, are left out, and so is the node that the logon wrapper  *)
(* runs, which this supervisor never sees.                                 *)
(***************************************************************************)
EXTENDS Integers, FiniteSets

CONSTANTS MaxSpawns,   \* bound on the processes of a behaviour
          NoProcess

ASSUME SupervisorAssumption == MaxSpawns \in Nat \ {0} /\ NoProcess \notin 1..MaxSpawns

VARIABLES nsc,       \* the scenario: ops, elevated, starts, stops
          nprocs,    \* stage of each process
          nsup,      \* Inner: child, state, late (START_GRACE is over), restarts
          nwatch,    \* the watch loop: at, answer
          nstart,    \* a start under way
          nstop,     \* a stop under way
          nlogon,    \* the registration: kind, cached
          nleft      \* commands left

nodeVars == <<nsc, nprocs, nsup, nwatch, nstart, nstop, nlogon, nleft>>

Pids == 1..MaxSpawns

----------------------------------------------------------------------------
(* Processes.                                                              *)

\* In the order a healthy node goes through them.
Health == <<"booting", "alone", "behind", "private", "good">>
Answering == {"alone", "behind", "private", "good"}
Alive(p) == nprocs[p] \notin {"unborn", "gone"}

\* port_available: nobody has bound the port.
PortFree == \A p \in Pids : nprocs[p] \notin Answering \cup {"hung"}

\* The process gets further, hangs, or ends; one that finds the port taken
\* ends.
NodeRuns(p) ==
  /\ "node" \in nsc.ops
  /\ \/ \E i, j \in DOMAIN Health :
          /\ i < j /\ nprocs[p] = Health[i]
          /\ nprocs' = [nprocs EXCEPT ![p] = IF i = 1 /\ ~PortFree THEN "gone" ELSE Health[j]]
     \/ /\ "hang" \in nsc.ops
        /\ nprocs[p] \in Answering
        /\ nprocs' = [nprocs EXCEPT ![p] = "hung"]
     \/ /\ Alive(p)
        /\ nprocs' = [nprocs EXCEPT ![p] = "gone"]
  /\ UNCHANGED <<nsc, nsup, nwatch, nstart, nstop, nlogon, nleft>>

----------------------------------------------------------------------------
(* The supervisor's steps under the lock.                                  *)

Fresh == [child |-> NoProcess, state |-> "Stopped", late |-> FALSE, started |-> FALSE, restarts |-> 0]

\* child.try_wait() says the child ended.
Ended(s) == s.child # NoProcess /\ ~Alive(s.child)

MutNoticed(s) == IF Ended(s) THEN [s EXCEPT !.state = "Crashed"] ELSE s

\* status: notices an exit.
Noticed(s) ==
  IF Ended(s) THEN [s EXCEPT !.child = NoProcess, !.state = "Crashed", !.restarts = @ + 1] ELSE s

\* observe: what an answer of the API says.
StateOf(stage) ==
  CASE stage = "alone" -> "Connecting" [] stage = "behind" -> "Syncing"
    [] stage = "private" -> "Degraded" [] stage = "good" -> "Running"

Observe(s, answer) ==
  CASE s.child = NoProcess -> s
    [] s.child # NoProcess /\ answer = "none" ->
         IF s.state = "Starting" /\ s.started /\ s.late THEN [s EXCEPT !.state = "Degraded"] ELSE s
    [] OTHER -> [s EXCEPT !.state = StateOf(answer)]

\* The child stored by start.
Stored(s, p) == [s EXCEPT !.child = p, !.state = "Starting", !.started = TRUE, !.late = FALSE]

Failed(s) == [s EXCEPT !.state = "Error"]

----------------------------------------------------------------------------
(* start                                                                   *)

NoStart == [at |-> "idle", pid |-> NoProcess]

MutStartCheck ==
  /\ "start" \in nsc.ops /\ nleft.starts > 0 /\ nstart.at = "idle"
  /\ ("overlap" \in nsc.ops \/ nstop.at = "idle")
  /\ nleft' = [nleft EXCEPT !.starts = @ - 1]
  /\ nstart' = [at |-> "preflight", pid |-> NoProcess]
  /\ UNCHANGED <<nsc, nprocs, nsup, nwatch, nstop, nlogon>>

\* The first lock: a child that runs is left alone, one that ended forgotten.
StartCheck ==
  /\ "start" \in nsc.ops /\ nleft.starts > 0 /\ nstart.at = "idle"
  /\ ("overlap" \in nsc.ops \/ nstop.at = "idle")
  /\ nleft' = [nleft EXCEPT !.starts = @ - 1]
  /\ IF nsup.child # NoProcess /\ Alive(nsup.child)
     THEN UNCHANGED <<nsup, nstart>>
     ELSE nsup' = [nsup EXCEPT !.child = NoProcess] /\ nstart' = [at |-> "preflight", pid |-> NoProcess]
  /\ UNCHANGED <<nsc, nprocs, nwatch, nstop, nlogon>>

\* preflight: program, configuration and folder are there or not; the port
\* is free, or the child holds it.
Preflight ==
  /\ nstart.at = "preflight"
  /\ \E present \in BOOLEAN :
       IF present /\ (PortFree \/ nsup.child # NoProcess)
       THEN nstart' = [nstart EXCEPT !.at = "spawn"] /\ UNCHANGED nsup
       ELSE nstart' = NoStart /\ nsup' = Failed(nsup)
  /\ UNCHANGED <<nsc, nprocs, nwatch, nstop, nlogon, nleft>>

\* The process is created; the record is written under the next lock.
Spawn ==
  /\ nstart.at = "spawn"
  /\ \/ \E p \in Pids :
          /\ nprocs[p] = "unborn" /\ \A q \in 1..(p - 1) : nprocs[q] # "unborn"
          /\ nprocs' = [nprocs EXCEPT ![p] = "booting"]
          /\ nstart' = [at |-> "store", pid |-> p]
          /\ UNCHANGED nsup
     \/ /\ nsup' = Failed(nsup) /\ nstart' = NoStart
        /\ UNCHANGED nprocs
  /\ UNCHANGED <<nsc, nwatch, nstop, nlogon, nleft>>

Store ==
  /\ nstart.at = "store"
  /\ nsup' = Stored(nsup, nstart.pid)
  /\ nstart' = NoStart
  /\ UNCHANGED <<nsc, nprocs, nwatch, nstop, nlogon, nleft>>

----------------------------------------------------------------------------
(* stop, and the logon registration                                        *)

NoStop == [at |-> "idle", pid |-> NoProcess]

StopTake ==
  /\ "stop" \in nsc.ops /\ nleft.stops > 0 /\ nstop.at = "idle"
  /\ ("overlap" \in nsc.ops \/ nstart.at = "idle")
  /\ nleft' = [nleft EXCEPT !.stops = @ - 1]
  /\ IF nsup.child = NoProcess
     THEN nsup' = [nsup EXCEPT !.state = "Stopped"] /\ nstop' = [at |-> "logon", pid |-> NoProcess]
     ELSE /\ nsup' = [nsup EXCEPT !.child = NoProcess, !.state = "Stopping"]
          /\ nstop' = [at |-> "kill", pid |-> nsup.child]
  /\ UNCHANGED <<nsc, nprocs, nwatch, nstart, nlogon>>

\* kill and wait, without the lock.
StopKill ==
  /\ nstop.at = "kill"
  /\ nprocs' = [nprocs EXCEPT ![nstop.pid] = "gone"]
  /\ nstop' = [nstop EXCEPT !.at = "settle"]
  /\ UNCHANGED <<nsc, nsup, nwatch, nstart, nlogon, nleft>>

StopSettle ==
  /\ nstop.at = "settle"
  /\ nsup' = [nsup EXCEPT !.state = "Stopped", !.started = FALSE]
  /\ nstop' = [nstop EXCEPT !.at = "logon"]
  /\ UNCHANGED <<nsc, nprocs, nwatch, nstart, nlogon, nleft>>

\* registration(): asked again when the cache is empty.
Registered == IF nlogon.cached = "unknown" THEN nlogon.kind ELSE nlogon.cached

\* node_manager::stop: the service is stopped; for a task the wrapper and
\* every node process are ended by name.
LogonStop(kind) ==
  nprocs' = IF kind = "task" THEN [p \in Pids |-> IF Alive(p) THEN "gone" ELSE nprocs[p]] ELSE nprocs

StopLogon ==
  /\ nstop.at = "logon"
  /\ LogonStop(Registered)
  /\ nlogon' = [nlogon EXCEPT !.cached = Registered]
  /\ nstop' = NoStop
  /\ UNCHANGED <<nsc, nsup, nwatch, nstart, nleft>>

\* install: forgets the cache, removes what is registered and registers
\* again, a service when elevated and else a task; it may fail before
\* (nothing configured) or in between.
node_install ==
  /\ "install" \in nsc.ops
  /\ \E kind \in {nlogon.kind, "none", IF nsc.elevated THEN "service" ELSE "task"} :
       nlogon' = [kind |-> kind, cached |-> "unknown"]
  /\ UNCHANGED <<nsc, nprocs, nsup, nwatch, nstart, nstop, nleft>>

\* uninstall: forgets, stops, which fills the cache again, and deletes.
node_uninstall ==
  /\ "install" \in nsc.ops
  /\ LogonStop(nlogon.kind)
  /\ \E kind \in {nlogon.kind, "none"} : nlogon' = [kind |-> kind, cached |-> nlogon.kind]
  /\ UNCHANGED <<nsc, nsup, nwatch, nstart, nstop, nleft>>

\* The cached answer is older than TTL.
CachedTooOld ==
  /\ nlogon.cached # "unknown"
  /\ nlogon' = [nlogon EXCEPT !.cached = "unknown"]
  /\ UNCHANGED <<nsc, nprocs, nsup, nwatch, nstart, nstop, nleft>>

----------------------------------------------------------------------------
(* The watch loop, every three seconds.                                    *)

Looking == [at |-> "look", answer |-> "none"]

\* status, then the request when the state says there is something to ask.
WatchLook ==
  /\ nwatch.at = "look"
  /\ nsup' = Noticed(nsup)
  /\ nwatch' = IF nsup'.state \in {"Stopped", "Error"} THEN Looking ELSE [at |-> "ask", answer |-> "none"]
  /\ UNCHANGED <<nsc, nprocs, nstart, nstop, nlogon, nleft>>

\* Whoever holds the port answers.
WatchAsk ==
  /\ nwatch.at = "ask"
  /\ \E answer \in IF \E p \in Pids : nprocs[p] \in Answering
                   THEN {nprocs[p] : p \in {q \in Pids : nprocs[q] \in Answering}} ELSE {"none"} :
       nwatch' = [at |-> "observe", answer |-> answer]
  /\ UNCHANGED <<nsc, nprocs, nsup, nstart, nstop, nlogon, nleft>>

WatchObserve ==
  /\ nwatch.at = "observe"
  /\ nsup' = Observe(nsup, nwatch.answer)
  /\ nwatch' = Looking
  /\ UNCHANGED <<nsc, nprocs, nstart, nstop, nlogon, nleft>>

\* node_status: the page asks for the status between two rounds.
node_status ==
  /\ "status" \in nsc.ops
  /\ nsup' = Noticed(nsup)
  /\ UNCHANGED <<nsc, nprocs, nwatch, nstart, nstop, nlogon, nleft>>

\* START_GRACE passes.
GracePasses ==
  /\ nsup.started /\ ~nsup.late
  /\ nsup' = [nsup EXCEPT !.late = TRUE]
  /\ UNCHANGED <<nsc, nprocs, nwatch, nstart, nstop, nlogon, nleft>>

----------------------------------------------------------------------------
SupervisorInit(scenarios) ==
  /\ nsc \in scenarios
  /\ nprocs = [p \in Pids |-> "unborn"]
  /\ nsup = Fresh
  /\ nwatch = Looking
  /\ nstart = NoStart /\ nstop = NoStop
  /\ nlogon = [kind |-> "none", cached |-> "unknown"]
  /\ nleft = [starts |-> nsc.starts, stops |-> nsc.stops]

SupervisorNext ==
  \/ \E p \in Pids : NodeRuns(p)
  \/ StartCheck \/ Preflight \/ Spawn \/ Store
  \/ StopTake \/ StopKill \/ StopSettle \/ StopLogon
  \/ node_install \/ node_uninstall \/ CachedTooOld
  \/ WatchLook \/ WatchAsk \/ WatchObserve
  \/ node_status \/ GracePasses

----------------------------------------------------------------------------
(* Properties                                                              *)

\* Every node process this application created and that is still alive is
\* the supervised child, or in the hands of the start or stop under way:
\* whatever the order of starts, stops and exits, "Stop stops this node"
\* and none is left running that no command can end.
NoStrayNode ==
  \A p \in Pids : Alive(p) => \/ nsup.child = p
                              \/ nstart.at = "store" /\ nstart.pid = p
                              \/ nstop.at = "kill" /\ nstop.pid = p

\* What the page shows catches up with the process: an exit is reported as
\* a crash or a stop, and a node whose API answers is shown in the state it
\* reports.  A process moves through finitely many stages, so that this
\* holds again and again means that it holds in the end.  Commands that come
\* one at a time: a start that overlaps a stop is shown as stopped for good.
StatusCatchesUp ==
  []<>(\/ "overlap" \in nsc.ops
       \/ /\ nsup.child = NoProcess => nsup.state \in {"Stopped", "Crashed", "Error"} \/ nstop.at # "idle"
          /\ nsup.child # NoProcess => Alive(nsup.child)
          /\ nsup.child # NoProcess /\ nprocs[nsup.child] \in Answering
               => nsup.state = StateOf(nprocs[nsup.child]))
=============================================================================
