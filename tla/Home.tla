-------------------------------- MODULE Home --------------------------------
(***************************************************************************)
(* A device's home directory and the programs that work on it: the vault   *)
(* keystore.json, the exclusive lock on local.redb, the desktop app with    *)
(* its commands, sync loop and auto-lock, and runs of the command line      *)
(* client.  Every program reads the whole vault when it opens the account,  *)
(* works on its copy and writes the whole copy back, so the MLS ratchet in  *)
(* the vault is as good as the discipline of these saves.                   *)
(*                                                                         *)
(* A command is its Script (module Commands): the steps that can fail or  *)
(* that use the ratchet, and when the account is saved.  What the commands *)
(* do to the local store, to the chain and to other participants is the    *)
(* subject of the other modules.                                           *)
(***************************************************************************)
EXTENDS Commands, FiniteSets

CONSTANTS
  HomeDirs,       \* home directories
  AppHome,        \* the one the desktop app uses
  Clis,           \* runs of the command line client
  CallIds,        \* commands of the desktop app in flight
  Passes,         \* passphrases
  NoH             \* no vault, no copy, no file, nobody

\* The home the app uses is one of them, and NoH is none of the things it
\* stands in for.
ASSUME HomeAssumption ==
  /\ AppHome \in HomeDirs
  /\ NoH \notin [key : [pass : Passes, salt : Nat], c : [dev : Nat, gen : Nat, full : BOOLEAN, db : Nat]]
  /\ NoH /= "sync" /\ CallIds \cap {NoH, "sync"} = {}

VARIABLES hsc,    \* what may happen: ops, client, desktop, vault, sends, runs, alone
          disk, cli, app, calls, world

homeVars == <<hsc, disk, cli, app, calls, world>>

-----------------------------------------------------------------------------
(* The vault.                                                              *)

\* The vault's contents as far as saves matter: the device key, the MLS
\* ratchet, whether the wallet key is there and the UI cache key (0: none).
Contents(dev, gen, full, db) == [dev |-> dev, gen |-> gen, full |-> full, db |-> db]

\* A derived key: the passphrase and the salt it was derived with.
Key(pass, salt) == [pass |-> pass, salt |-> salt]

\* `write_with_key`: the file holds the contents under the copy's key.
Written(h, key, c) == [disk EXCEPT ![h].vault = [key |-> key, c |-> c]]

\* `open_inner`: the passphrase must derive the file's key.
Opens(h, pass) == disk[h].vault /= NoH /\ disk[h].vault.key.pass = pass

Copy(h) == [key |-> disk[h].vault.key, c |-> disk[h].vault.c]

\* Copies of the account of home h that are in memory.
Live(h) == {p \in Clis : cli[p].pc /= "off" /\ cli[p].home = h /\ cli[p].acct /= NoH}
             \cup (IF h = AppHome THEN {k \in CallIds : calls[k].acct /= NoH} ELSE {})
             \cup (IF h = AppHome /\ app.one /= NoH THEN {"one"} ELSE {})

\* Reading the vault while another copy is in memory is remembered: the
\* later of the two saves wins.
Causes(h) == world.causes \cup (IF Live(h) = {} THEN {} ELSE {"overlap"})

\* A scenario may keep to one copy at a time.
MayRead(h) == hsc.alone => Live(h) = {}

\* `Account::import`, `create`, `import_secret`: the words give the address,
\* the wallet and the root key; the device key is new.
NewAccount(full) == Contents(world.devs + 1, 0, full, 0)

\* `export_backup_contents`: keys and Drive keyring, never the device key
\* nor MLS state.
Carried(c) == [full |-> c.full]

\* `import_backup`: the importer is a new device.
Imported(b) == NewAccount(b.full)

-----------------------------------------------------------------------------
(* A step of a command over a copy of the account.                          *)

\* One MLS message: the ratchet moves when it is encrypted; the message may
\* reach the stores though the answer is lost.
Used(c) == [c EXCEPT !.gen = @ + 1]
Sent(c) == [dev |-> c.dev, gen |-> c.gen + 1, n |-> world.n + 1]
Sending(c, onWire) ==
  world' = IF onWire THEN [world EXCEPT !.sent = @ \cup {Sent(c)}, !.n = @ + 1]
           ELSE world

\* How a step can end: whether a message is on the wire, and whether it is
\* known to have got through.  The bound sends is on messages on the wire.
Outcomes(step) ==
  {o \in [wire : BOOLEAN, on : BOOLEAN] :
     /\ step = "net" => ~o.wire
     /\ step /= "net" => (o.on => o.wire)
     /\ o.wire => world.n < hsc.sends}

\* A command in progress: the steps left, whether none failed, and whether
\* a message got through.
Begun(s) == [script |-> s, left |-> s.steps, ok |-> TRUE, got |-> FALSE]
Stepped(r, o) ==
  LET step == Head(r.left) IN
  [r EXCEPT !.left = IF o.on \/ step = "try" THEN Tail(@) ELSE <<>>,
            !.ok = o.on \/ step = "try",
            !.got = @ \/ (step /= "net" /\ o.on)]
Ratchet(r, c) == IF Head(r.left) = "net" THEN c ELSE Used(c)

Succeeds(r) == r.ok /\ (r.script.save = "sent" => r.got)
Saves(r) == r.script.save = "always" \/ (r.script.save \in {"ok", "sent"} /\ Succeeds(r))

\* The bound runs is on operations of the user and of the timers.
MayRun == world.runs < hsc.runs
Run(w) == [w EXCEPT !.runs = @ + 1]

\* A command that used the ratchet and reported success, and the generation
\* it left.
Acked(r, c) ==
  world.acked \cup {[script |-> s, dev |-> c.dev, gen |-> c.gen] :
                     s \in {t \in {r.script} : Succeeds(r) /\ \E i \in DOMAIN t.steps : t.steps[i] /= "net"}}

-----------------------------------------------------------------------------
(* The command line client.                                                *)

OffCli == [pc |-> "off", home |-> AppHome, run |-> Begun(IdentityShow), acct |-> NoH]

\* `identity create | import | import-secret | new-device`: a new vault, only
\* where there is none.
identity(p, h, pass, full) ==
  /\ "identity" \in hsc.ops /\ MayRun
  /\ cli[p].pc = "off"
  /\ disk[h].vault = NoH
  /\ disk' = Written(h, Key(pass, world.salts + 1), NewAccount(full))
  /\ world' = Run([world EXCEPT !.devs = @ + 1, !.salts = @ + 1])
  /\ UNCHANGED <<hsc, cli, app, calls>>

\* `Account::open`, in `Ctx::account` and `HashgramOne::open`.
CliOpen(p, h, s, pass) ==
  /\ "cli" \in hsc.ops
  /\ cli[p].pc = "off" /\ MayRun
  /\ Opens(h, pass) /\ MayRead(h)
  /\ cli' = [cli EXCEPT ![p] = [pc |-> IF s.facade THEN "store" ELSE "run", home |-> h,
                                run |-> Begun(s), acct |-> Copy(h)]]
  /\ world' = Run([world EXCEPT !.causes = Causes(h)])
  /\ UNCHANGED <<hsc, disk, app, calls>>

\* `with_link` opens the local store, which one process at a time can do,
\* and `open` gives up when no node completes the handshake.
CliStore(p, peer) ==
  /\ cli[p].pc = "store"
  /\ IF disk[cli[p].home].store = NoH /\ peer
     THEN /\ disk' = [disk EXCEPT ![cli[p].home].store = p]
          /\ cli' = [cli EXCEPT ![p].pc = "run"]
     ELSE /\ cli' = [cli EXCEPT ![p] = OffCli]
          /\ disk' = disk
  /\ UNCHANGED <<hsc, app, calls, world>>

\* One step of the command.
CliStep(p, o) ==
  /\ cli[p].pc = "run" /\ cli[p].run.left /= <<>>
  /\ o \in Outcomes(Head(cli[p].run.left))
  /\ Sending(cli[p].acct.c, o.wire)
  /\ cli' = [cli EXCEPT ![p].run = Stepped(@, o), ![p].acct.c = Ratchet(cli[p].run, @)]
  /\ UNCHANGED <<hsc, disk, app, calls>>

\* The command is over: the account is saved as the command's family does,
\* the store is closed and the process ends.
CliEnd(p) ==
  /\ cli[p].pc = "run" /\ cli[p].run.left = <<>>
  /\ LET t == cli[p]
         d == IF Saves(t.run) THEN Written(t.home, t.acct.key, t.acct.c) ELSE disk
     IN /\ disk' = [d EXCEPT ![t.home].store = IF @ = p THEN NoH ELSE @]
        /\ world' = [world EXCEPT !.acked = Acked(t.run, t.acct.c),
                                  !.causes = IF t.run.script = CallSignal /\ ~t.run.ok THEN @ \cup {"signal"} ELSE @]
  /\ cli' = [cli EXCEPT ![p] = OffCli]
  /\ UNCHANGED <<hsc, app, calls>>

\* The process dies.
CliCrash(p) ==
  /\ "crash" \in hsc.ops
  /\ cli[p].pc /= "off"
  /\ disk' = [disk EXCEPT ![cli[p].home].store = IF @ = p THEN NoH ELSE @]
  /\ cli' = [cli EXCEPT ![p] = OffCli]
  /\ world' = [world EXCEPT !.causes = @ \cup {"crash"}]
  /\ UNCHANGED <<hsc, app, calls>>

-----------------------------------------------------------------------------
(* The desktop app: `one` is the facade behind its lock, `session` what    *)
(* is_unlocked looks at, `loop` the sync task.                             *)

LockedApp == [one |-> NoH, session |-> FALSE, mutex |-> NoH, loop |-> FALSE, idle |-> FALSE,
              words |-> FALSE, run |-> Begun(mail_read_mark)]

IdleCall == [pc |-> "idle", pass |-> NoH, new |-> <<>>, run |-> Begun(mail_read_mark), acct |-> NoH]

Call(k, pc, acct) == [calls EXCEPT ![k].pc = pc, ![k].acct = acct]
Return(k) == [calls EXCEPT ![k] = IdleCall]
Calls(k, op) == op \in hsc.ops /\ calls[k].pc = "idle"

\* `onboarding_generate`: new words, held in memory.
onboarding_generate ==
  /\ "onboard" \in hsc.ops
  /\ disk[AppHome].vault = NoH /\ ~app.words
  /\ app' = [app EXCEPT !.words = TRUE]
  /\ UNCHANGED <<hsc, disk, cli, calls, world>>

\* A new vault from the given contents, then `open_session`.
Onboard(k, pass, c) ==
  /\ disk[AppHome].vault = NoH /\ MayRun
  /\ LET key == Key(pass, world.salts + 1) IN
     /\ disk' = Written(AppHome, key, c)
     /\ calls' = Call(k, "key", [key |-> key, c |-> c])
  /\ world' = Run([world EXCEPT !.devs = @ + 1, !.salts = @ + 1])

\* `onboarding_create`: the pending words are taken first.
onboarding_create(k, pass) ==
  /\ Calls(k, "onboard") /\ app.words
  /\ app' = [app EXCEPT !.words = FALSE]
  /\ Onboard(k, pass, NewAccount(TRUE))
  /\ UNCHANGED <<hsc, cli>>

\* `onboarding_restore`: words typed by the user.
onboarding_restore(k, pass) ==
  /\ Calls(k, "onboard")
  /\ Onboard(k, pass, NewAccount(TRUE))
  /\ UNCHANGED <<hsc, cli, app>>

\* `restore_from_backup`.
restore_from_backup(k, pass) ==
  /\ Calls(k, "onboard") /\ world.backup /= NoH
  /\ Onboard(k, pass, Imported(world.backup))
  /\ UNCHANGED <<hsc, cli, app>>

\* `unlock` and `hello_unlock`: refused while a session is open; the vault
\* is opened on another thread.
unlock(k, pass) ==
  /\ Calls(k, "unlock")
  /\ ~app.session
  /\ calls' = [calls EXCEPT ![k].pc = "open", ![k].pass = pass]
  /\ UNCHANGED <<hsc, disk, cli, app, world>>

hello_unlock(k) == disk[AppHome].hello /= NoH /\ unlock(k, disk[AppHome].hello)

open_account(k) ==
  /\ calls[k].pc = "open" /\ MayRead(AppHome)
  /\ IF Opens(AppHome, calls[k].pass)
     THEN /\ calls' = Call(k, "key", Copy(AppHome))
          /\ world' = [world EXCEPT !.causes = Causes(AppHome)]
     ELSE /\ calls' = Return(k)
          /\ world' = world
  /\ UNCHANGED <<hsc, disk, cli, app>>

\* `db_key_of`, which saves a new key at once, then the link: without one
\* the session does not open.
db_key_of(k, link) ==
  /\ calls[k].pc = "key"
  /\ LET a == calls[k].acct
         c == IF a.c.db = 0 THEN [a.c EXCEPT !.db = world.salts + 1] ELSE a.c
     IN /\ disk' = IF a.c.db = 0 THEN Written(AppHome, a.key, c) ELSE disk
        /\ calls' = IF link THEN Call(k, "build", [key |-> a.key, c |-> c]) ELSE Return(k)
        /\ world' = [world EXCEPT !.salts = IF a.c.db = 0 THEN @ + 1 ELSE @]
  /\ UNCHANGED <<hsc, cli, app>>

\* `with_link` opens the store.
with_link(k) ==
  /\ calls[k].pc = "build"
  /\ IF disk[AppHome].store = NoH
     THEN /\ disk' = [disk EXCEPT ![AppHome].store = "app"]
          /\ calls' = [calls EXCEPT ![k].pc = "one"]
     ELSE /\ calls' = Return(k)
          /\ disk' = disk
  /\ UNCHANGED <<hsc, cli, app, world>>

\* The facade is put in place, then the session is recorded and the sync
\* loop starts.
SetOne(k) ==
  /\ calls[k].pc = "one" /\ app.mutex = NoH
  /\ app' = [app EXCEPT !.one = calls[k].acct]
  /\ calls' = Call(k, "session", NoH)
  /\ UNCHANGED <<hsc, disk, cli, world>>

SetSession(k) ==
  /\ calls[k].pc = "session"
  /\ app' = [app EXCEPT !.session = TRUE, !.idle = FALSE, !.loop = app.one /= NoH]
  /\ calls' = Return(k)
  /\ UNCHANGED <<hsc, disk, cli, world>>

\* Saving the session's copy.
SaveOne == Written(AppHome, app.one.key, app.one.c)

-----------------------------------------------------------------------------
(* `session::lock`, from the lock command, at the end of                   *)
(* change_passphrase and from the auto-lock timer.                          *)

lock(k) ==
  /\ Calls(k, "lock") /\ app.session
  /\ calls' = [calls EXCEPT ![k].pc = "abort"]
  /\ UNCHANGED <<hsc, disk, cli, app, world>>

\* `auto_lock_due`, looked at every 15 seconds.
auto_lock(k) ==
  /\ "auto" \in hsc.ops /\ calls[k].pc = "idle"
  /\ app.session /\ app.idle
  /\ calls' = [calls EXCEPT ![k].pc = "abort"]
  /\ UNCHANGED <<hsc, disk, cli, app, world>>

AbortSyncHolding(k) ==
  /\ calls[k].pc = "abort"
  /\ app' = [app EXCEPT !.loop = FALSE]
  /\ calls' = [calls EXCEPT ![k].pc = "drop"]
  /\ UNCHANGED <<hsc, disk, cli, world>>

\* The sync task is aborted, wherever it is.
AbortSync(k) ==
  /\ calls[k].pc = "abort"
  /\ app' = [app EXCEPT !.loop = FALSE, !.mutex = IF @ = "sync" THEN NoH ELSE @]
  /\ calls' = [calls EXCEPT ![k].pc = "drop"]
  /\ UNCHANGED <<hsc, disk, cli, world>>

DropOneUnsaved(k) ==
  /\ calls[k].pc = "drop" /\ app.mutex = NoH
  /\ disk' = [disk EXCEPT ![AppHome].store = IF app.one = NoH THEN @ ELSE NoH]
  /\ app' = [app EXCEPT !.one = NoH]
  /\ calls' = [calls EXCEPT ![k].pc = "clear"]
  /\ UNCHANGED <<hsc, cli, world>>

\* The facade is saved and dropped, which closes the store.
DropOne(k) ==
  /\ calls[k].pc = "drop" /\ app.mutex = NoH
  /\ disk' = IF app.one = NoH THEN disk ELSE [SaveOne EXCEPT ![AppHome].store = NoH]
  /\ app' = [app EXCEPT !.one = NoH]
  /\ calls' = [calls EXCEPT ![k].pc = "clear"]
  /\ UNCHANGED <<hsc, cli, world>>

ClearSession(k) ==
  /\ calls[k].pc = "clear"
  /\ app' = [app EXCEPT !.session = FALSE, !.words = FALSE]
  /\ calls' = Return(k)
  /\ UNCHANGED <<hsc, disk, cli, world>>

\* The user is active, or is not for the set number of minutes.
touch ==
  /\ "touch" \in hsc.ops /\ MayRun
  /\ app.session /\ app.idle
  /\ app' = [app EXCEPT !.idle = FALSE]
  /\ world' = Run(world)
  /\ UNCHANGED <<hsc, disk, cli, calls>>

GoIdle ==
  /\ app.session /\ ~app.idle
  /\ app' = [app EXCEPT !.idle = TRUE]
  /\ UNCHANGED <<hsc, disk, cli, calls, world>>

-----------------------------------------------------------------------------
(* Commands and the sync loop share the facade's lock.                     *)

Command(k, s) ==
  /\ Calls(k, "command")
  /\ app.mutex = NoH /\ app.one /= NoH /\ MayRun
  /\ app' = [app EXCEPT !.mutex = k]
  /\ calls' = [calls EXCEPT ![k].pc = "command", ![k].run = Begun(s)]
  /\ world' = Run(world)
  /\ UNCHANGED <<hsc, disk, cli>>

CommandStep(k, o) ==
  /\ calls[k].pc = "command" /\ calls[k].run.left /= <<>>
  /\ o \in Outcomes(Head(calls[k].run.left))
  /\ Sending(app.one.c, o.wire)
  /\ app' = [app EXCEPT !.one.c = Ratchet(calls[k].run, @)]
  /\ calls' = [calls EXCEPT ![k].run = Stepped(@, o)]
  /\ UNCHANGED <<hsc, disk, cli>>

CommandEnd(k) ==
  /\ calls[k].pc = "command" /\ calls[k].run.left = <<>>
  /\ disk' = IF Saves(calls[k].run) THEN SaveOne ELSE disk
  /\ world' = [world EXCEPT !.acked = Acked(calls[k].run, app.one.c)]
  /\ app' = [app EXCEPT !.mutex = NoH]
  /\ calls' = Return(k)
  /\ UNCHANGED <<hsc, cli>>

\* The loop's two uses of the facade: a round, saved whatever its outcome,
\* and the retry of queued chat messages, saved when one was sent.
SyncRound == Script(<<"net", "try">>, "always", TRUE)

SyncTake(s) ==
  /\ "sync" \in hsc.ops
  /\ app.loop /\ app.mutex = NoH /\ app.one /= NoH /\ MayRun
  /\ app' = [app EXCEPT !.mutex = "sync", !.run = Begun(s)]
  /\ world' = Run(world)
  /\ UNCHANGED <<hsc, disk, cli, calls>>

SyncStep(o) ==
  /\ app.mutex = "sync" /\ app.run.left /= <<>>
  /\ o \in Outcomes(Head(app.run.left))
  /\ Sending(app.one.c, o.wire)
  /\ app' = [app EXCEPT !.one.c = Ratchet(app.run, @), !.run = Stepped(@, o)]
  /\ UNCHANGED <<hsc, disk, cli, calls>>

SyncEnd ==
  /\ app.mutex = "sync" /\ app.run.left = <<>>
  /\ disk' = IF Saves(app.run) THEN SaveOne ELSE disk
  /\ app' = [app EXCEPT !.mutex = NoH]
  /\ UNCHANGED <<hsc, cli, calls, world>>

\* A loop that finds no facade ends.
SyncStop ==
  /\ app.loop /\ app.mutex = NoH /\ app.one = NoH
  /\ app' = [app EXCEPT !.loop = FALSE]
  /\ UNCHANGED <<hsc, disk, cli, calls, world>>

-----------------------------------------------------------------------------
(* Passphrase, Windows Hello, backup and wipe.                             *)

\* `change_passphrase` saves the session, reads the vault back with the
\* current passphrase, writes it under the new one and locks.
change_passphrase(k, current, new) ==
  /\ Calls(k, "passphrase") /\ MayRun
  /\ disk[AppHome].vault /= NoH /\ current /= new
  /\ app.mutex = NoH
  /\ disk' = IF app.one = NoH THEN disk ELSE SaveOne
  /\ calls' = [calls EXCEPT ![k].pc = "reread", ![k].new = <<current, new>>]
  /\ world' = Run(world)
  /\ UNCHANGED <<hsc, cli, app>>

Reread(k) ==
  /\ calls[k].pc = "reread"
  /\ IF Opens(AppHome, calls[k].new[1])
     THEN /\ calls' = Call(k, "rewrite", Copy(AppHome))
          /\ world' = [world EXCEPT !.causes = Causes(AppHome)]
     ELSE /\ calls' = Return(k)
          /\ world' = world
  /\ UNCHANGED <<hsc, disk, cli, app>>

Rewrite(k) ==
  /\ calls[k].pc = "rewrite"
  /\ LET new == calls[k].new[2] IN
     /\ disk' = [Written(AppHome, Key(new, world.salts + 1), calls[k].acct.c)
                   EXCEPT ![AppHome].hello = NoH]
     /\ world' = [world EXCEPT !.salts = @ + 1]
  /\ calls' = Call(k, "abort", NoH)
  /\ UNCHANGED <<hsc, cli, app>>

\* `hello_enable` keeps the passphrase that opened the vault, wrapped.
hello_enable(k, pass) ==
  /\ Calls(k, "hello")
  /\ Opens(AppHome, pass)
  /\ disk' = [disk EXCEPT ![AppHome].hello = pass]
  /\ UNCHANGED <<hsc, cli, app, calls, world>>

hello_disable ==
  /\ "hello" \in hsc.ops /\ disk[AppHome].hello /= NoH
  /\ disk' = [disk EXCEPT ![AppHome].hello = NoH]
  /\ UNCHANGED <<hsc, cli, app, calls, world>>

\* `backup_export`: saved, copied under the lock, written after it.
backup_export(k) ==
  /\ Calls(k, "backup")
  /\ app.mutex = NoH /\ app.one /= NoH
  /\ disk' = SaveOne
  /\ world' = [world EXCEPT !.backup = Carried(app.one.c)]
  /\ UNCHANGED <<hsc, cli, app, calls>>

\* `import_backup` into another home by another program.
import_backup(h, pass) ==
  /\ "identity" \in hsc.ops /\ MayRun
  /\ disk[h].vault = NoH /\ world.backup /= NoH
  /\ disk' = Written(h, Key(pass, world.salts + 1), Imported(world.backup))
  /\ world' = Run([world EXCEPT !.devs = @ + 1, !.salts = @ + 1])
  /\ UNCHANGED <<hsc, cli, app, calls>>

\* `wipe_local_data`: refused while a session is open.
wipe_local_data ==
  /\ "wipe" \in hsc.ops /\ disk[AppHome].vault /= NoH
  /\ ~app.session
  /\ disk' = [disk EXCEPT ![AppHome].vault = NoH, ![AppHome].hello = NoH]
  /\ UNCHANGED <<hsc, cli, app, calls, world>>

\* The desktop process dies.
AppCrash ==
  /\ "crash" \in hsc.ops
  /\ app /= LockedApp \/ \E k \in CallIds : calls[k] /= IdleCall
  /\ app' = LockedApp
  /\ calls' = [k \in CallIds |-> IdleCall]
  /\ disk' = [disk EXCEPT ![AppHome].store = IF @ = "app" THEN NoH ELSE @]
  /\ world' = [world EXCEPT !.causes = @ \cup {"crash"}]
  /\ UNCHANGED <<hsc, cli>>

-----------------------------------------------------------------------------

NoHome == [vault |-> NoH, store |-> NoH, hello |-> NoH]

\* A scenario starts with a vault on the app's home, or with none.
HomeInit(scenes) ==
  /\ hsc \in scenes
  /\ disk = [h \in HomeDirs |->
               IF h = AppHome /\ hsc.vault /= NoH
               THEN [NoHome EXCEPT !.vault = [key |-> Key(hsc.vault, 1), c |-> Contents(1, 0, TRUE, 1)]]
               ELSE NoHome]
  /\ cli = [p \in Clis |-> OffCli]
  /\ app = LockedApp
  /\ calls = [k \in CallIds |-> IdleCall]
  /\ world = [sent |-> {}, n |-> 0, devs |-> 1, salts |-> 1, causes |-> {}, acked |-> {},
              runs |-> 0, backup |-> NoH]

CliNext ==
  \E p \in Clis :
    \/ \E h \in HomeDirs, pass \in Passes, full \in BOOLEAN : identity(p, h, pass, full)
    \/ \E h \in HomeDirs, pass \in Passes : \E s \in hsc.client : CliOpen(p, h, s, pass)
    \/ \E peer \in BOOLEAN : CliStore(p, peer)
    \/ \E o \in [wire : BOOLEAN, on : BOOLEAN] : CliStep(p, o)
    \/ CliEnd(p)
    \/ CliCrash(p)

AppNext ==
  \/ onboarding_generate
  \/ touch
  \/ GoIdle
  \/ \E s \in {SyncRound, flush_queue} : SyncTake(s)
  \/ \E o \in [wire : BOOLEAN, on : BOOLEAN] : SyncStep(o)
  \/ SyncEnd
  \/ SyncStop
  \/ hello_disable
  \/ wipe_local_data
  \/ AppCrash
  \/ \E h \in HomeDirs, pass \in Passes : import_backup(h, pass)
  \/ \E k \in CallIds :
       \/ open_account(k)
       \/ \E link \in BOOLEAN : db_key_of(k, link)
       \/ with_link(k)
       \/ SetOne(k)
       \/ SetSession(k)
       \/ lock(k)
       \/ auto_lock(k)
       \/ AbortSync(k)
       \/ DropOne(k)
       \/ ClearSession(k)
       \/ \E s \in hsc.desktop : Command(k, s)
       \/ \E o \in [wire : BOOLEAN, on : BOOLEAN] : CommandStep(k, o)
       \/ CommandEnd(k)
       \/ Reread(k)
       \/ Rewrite(k)
       \/ backup_export(k)
       \/ hello_unlock(k)
       \/ \E pass \in Passes :
            \/ onboarding_create(k, pass)
            \/ onboarding_restore(k, pass)
            \/ restore_from_backup(k, pass)
            \/ unlock(k, pass)
            \/ hello_enable(k, pass)
            \/ \E new \in Passes : change_passphrase(k, pass, new)

HomeNext == CliNext \/ AppNext

\* What a call in flight does next by itself; SetOne and DropOne wait for
\* the facade's lock and CommandStep for the network.
CallGoesOn(k) ==
  \/ open_account(k) \/ with_link(k) \/ SetSession(k) \/ AbortSync(k)
  \/ ClearSession(k) \/ CommandEnd(k) \/ Reread(k) \/ Rewrite(k) \/ auto_lock(k)
  \/ \E link \in BOOLEAN : db_key_of(k, link)

-----------------------------------------------------------------------------
(* Properties.                                                             *)

\* An MLS generation encrypts one message.  Across commands that fail
\* half-way, rounds cut off by a lock, unlocks, backups and restores, two
\* messages share a device and a generation only if a program died before it
\* saved, two programs had the account open at once, or a call signal whose
\* answer was lost was not saved.
GenerationsAreUsedOnce ==
  world.causes = {} =>
    \A a, b \in world.sent : a.dev = b.dev /\ a.gen = b.gen => a = b

\* What a command that reported success used of the ratchet is in the vault:
\* a crash after the answer loses nothing.  The receipt of mail_mark_read is
\* the exception.
AckedIsSaved ==
  "overlap" \notin world.causes =>
    \A a \in world.acked : \A h \in HomeDirs :
      (a.script /= mail_read_mark /\ disk[h].vault /= NoH /\ disk[h].vault.c.dev = a.dev)
        => a.gen <= disk[h].vault.c.gen

\* The vault and the ratchet never part: no key is used twice, and nothing
\* the user was told is done is lost.
VaultKeepsUp == GenerationsAreUsedOnce /\ AckedIsSaved

\* A session the user has left is locked, whatever rounds and commands run.
IdleSessionLocks == []<>(app.session => "auto" \notin hsc.ops)
=============================================================================
