------------------------------- MODULE Groups -------------------------------
(***************************************************************************)
(* MLS groups across devices: key packages at the store node (mailbox.rs), *)
(* creating a conversation, adding and removing participants               *)
(* (sdk messaging.rs, app.rs), the periodic reconciliation with the        *)
(* chain's device registry (sdk devices.rs), and what a device makes of    *)
(* the welcomes, commits and messages in its mailbox (hashgram-mls).       *)
(*                                                                         *)
(* MLS is abstract: a group passes through numbered states; a commit moves *)
(* a device from the state it was made in to its own, a welcome needs the  *)
(* private key of the package it was made for, a message is readable in    *)
(* the state it was encrypted in and no other (no past epochs are kept).   *)
(* A committer merges its own commit at once.  Envelopes may be read in    *)
(* any order: they come from several stores.                               *)
(***************************************************************************)
EXTENDS Integers, FiniteSets, Sequences

CONSTANTS Devices, Owner,        \* the devices, and the address of each
          GroupIds, Texts,
          KeyPackageBatch        \* KEY_PACKAGE_BATCH

ASSUME BatchAssumption == KeyPackageBatch \in Nat

VARIABLES gsc,  \* the scenario: initial registry, operations and bounds
          registry, once, last, minted, dev, disk, tag, published, post,
          rec, nst, said, gfaults,
          \* ghosts: the newest state of a group, what a fault touched, the
          \* packages a crash killed, the states a device left, who was ever in a
          \* group, what a device read
          head, hurt, dead, past, ever, heard

groupVars == <<gsc, registry, once, last, minted, dev, disk, tag, published, post, rec,
               nst, said, gfaults, head, hurt, dead, past, ever, heard>>

Addresses == {Owner[d] : d \in Devices}
NoView == [st |-> 0, mem |-> {}]
Idle == [on |-> FALSE, todo |-> {}, unknown |-> {}, g |-> 0, adds |-> {}]
View(d, g) == dev[d].view[g]
AddrsOf(ds) == {Owner[x] : x \in ds}

WelcomeFor(g, st, mem, pkg) ==
  [kind |-> "welcome", g |-> g, base |-> 0, st |-> st, mem |-> mem, pkg |-> pkg, text |-> "none"]
CommitFor(g, base, st, mem) ==
  [kind |-> "commit", g |-> g, base |-> base, st |-> st, mem |-> mem, pkg |-> 0, text |-> "none"]
MessageFor(g, st, text) ==
  [kind |-> "message", g |-> g, base |-> 0, st |-> st, mem |-> {}, pkg |-> 0, text |-> text]

\* A device that has published, joined nothing and saved its vault.
NewGroupDevice ==
  [view |-> [g \in GroupIds |-> NoView], keys |-> 1..KeyPackageBatch + 1, lr |-> 1]

GroupInit(scenarios) ==
  /\ gsc \in scenarios
  /\ registry = gsc.registry
  /\ once = [d \in Devices |-> [i \in 1..gsc.once |-> i + 1]]
  /\ last = [d \in Devices |-> 1]
  /\ minted = [d \in Devices |-> KeyPackageBatch + 1]
  /\ dev = [d \in Devices |-> NewGroupDevice] /\ disk = dev
  /\ tag = [d \in Devices |-> [g \in GroupIds |-> "none"]]
  /\ published = Devices
  /\ post = [d \in Devices |-> {}]
  /\ rec = [d \in Devices |-> Idle]
  /\ nst = 0 /\ gfaults = 0
  /\ said = [t \in Texts |-> [g |-> 0, st |-> 0, to |-> {}]]
  /\ head = [g \in GroupIds |-> NoView]
  /\ hurt = {} /\ dead = [d \in Devices |-> {}] /\ past = [d \in Devices |-> {}]
  /\ ever = [g \in GroupIds |-> {}]
  /\ heard = {}

----------------------------------------------------------------------------
(* Key packages.                                                           *)

\* take_key_package: the oldest one-time package, or the last-resort one.
Package(t) == IF once[t] # << >> THEN Head(once[t]) ELSE last[t]
Spent(ts) == [t \in Devices |-> IF t \in ts /\ once[t] # << >> THEN Tail(once[t]) ELSE once[t]]

ActiveOf(as) == {t \in Devices : Owner[t] \in as /\ registry[t] = "active"}
\* key_packages_for: every active device but this one that has a package.
Fetched(d, as) == {t \in ActiveOf(as) \ {d} : Package(t) # 0}

\* replenish_key_packages: the cached last-resort package, then one-time
\* packages up to the batch; a refusal ends the loop.  The private keys are
\* in memory until the next save.
Publish(d) ==
  /\ d \notin published
  /\ \E made \in {KeyPackageBatch - Len(once[d]), 0} :
       LET lr == IF dev[d].lr = 0 THEN minted[d] + 1 ELSE dev[d].lr
           from == IF dev[d].lr = 0 THEN minted[d] + 1 ELSE minted[d]
       IN /\ made >= 0
          /\ last' = [last EXCEPT ![d] = lr]
          /\ once' = [once EXCEPT ![d] = @ \o [i \in 1..made |-> from + i]]
          /\ minted' = [minted EXCEPT ![d] = from + made]
          /\ dev' = [dev EXCEPT ![d].lr = lr, ![d].keys = @ \cup {lr} \cup from + 1..from + made]
  /\ published' = published \cup {d}
  /\ UNCHANGED <<gsc, registry, disk, tag, post, rec, nst, said, gfaults, head, hurt, dead, past, ever, heard>>

----------------------------------------------------------------------------
(* Changing a group.                                                       *)

\* Envelopes reach the mailboxes of `sent`, of all that should have them;
\* what is missing is a fault of the group's delivery.
Delivered(g, all, sent, mails, bad) ==
  /\ sent = all \/ gfaults < gsc.faults
  /\ gfaults' = IF sent = all THEN gfaults ELSE gfaults + 1
  /\ post' = [t \in Devices |-> IF t \in sent THEN post[t] \cup {mails[t]} ELSE post[t]]
  /\ hurt' = IF sent = all /\ ~bad THEN hurt ELSE hurt \cup {g}

\* The committer merges its commit; a commit made in a state that is no
\* longer the newest splits the group.
Merge(d, g, mem) ==
  /\ nst' = nst + 1
  /\ dev' = [dev EXCEPT ![d].view[g] = [st |-> nst + 1, mem |-> mem]]
  /\ head' = [head EXCEPT ![g] = [st |-> nst + 1, mem |-> mem]]
  /\ past' = [past EXCEPT ![d] = @ \cup {View(d, g).st}]
  /\ ever' = [ever EXCEPT ![g] = @ \cup mem]
Splits(d, g) == View(d, g).st # head[g].st

DeadPackage(ts) == \E t \in ts : Package(t) \in dead[t]

\* create_conversation: the group exists in this device's MLS store from
\* the start, so an error leaves it there: without members if nobody has a
\* key package, with members who were not told if a delivery fails.
CreateConversation(d, as, kind) ==
  \E g \in {x \in gsc.gids : head[x] = NoView} :
    LET targets == Fetched(d, as \cup {Owner[d]})
        mem == {d} \cup targets
        mails == [t \in targets |-> WelcomeFor(g, nst + 1, mem, Package(t))]
    IN /\ Merge(d, g, mem)
       /\ once' = Spent(targets)
       /\ \E sent \in SUBSET targets :
            /\ Delivered(g, targets, sent, mails, DeadPackage(targets))
            /\ tag' = IF targets # {} /\ sent = targets THEN [tag EXCEPT ![d][g] = kind] ELSE tag
       /\ UNCHANGED <<gsc, registry, last, minted, disk, published, rec, said, dead, heard>>

\* conversation_group: the group whose addresses are exactly these, unless
\* it is a Circle; whether its members ever joined is not looked at.
Found(d, as) ==
  {g \in GroupIds : /\ View(d, g) # NoView
                    /\ AddrsOf(View(d, g).mem) = as \cup {Owner[d]}
                    /\ tag[d][g] # "circle"}

AtRest(d) == ~rec[d].on
Able(d, op) == op \in gsc.ops /\ AtRest(d)

Converse(d, as) ==
  /\ Able(d, "converse") /\ registry[d] = "active" /\ nst < gsc.states
  /\ Found(d, as) = {}
  /\ CreateConversation(d, as, "conversation")

CreateCircle(d, as) ==
  /\ Able(d, "circle") /\ registry[d] = "active" /\ nst < gsc.states
  /\ CreateConversation(d, as, "circle")

\* send: one ciphertext for every other member's mailbox; an error only if
\* none took it.
SendText(d, as, text) ==
  /\ Able(d, "send") /\ said[text].st = 0
  /\ \E g \in Found(d, as) :
       LET to == View(d, g).mem \ {d}
       IN \E sent \in SUBSET to :
            /\ sent = to \/ gfaults < gsc.faults
            /\ gfaults' = IF sent = to THEN gfaults ELSE gfaults + 1
            /\ post' = [t \in Devices |-> IF t \in sent THEN post[t] \cup {MessageFor(g, View(d, g).st, text)}
                                               ELSE post[t]]
            /\ said' = [said EXCEPT ![text] = [g |-> g, st |-> View(d, g).st, to |-> sent]]
  /\ UNCHANGED <<gsc, registry, once, last, minted, dev, disk, tag, published, rec, nst,
                 head, hurt, dead, past, ever, heard>>

\* Plausible bug: the members of before the change are told, but not the
\* ones the commit leaves in.
ToldOnlyNew(existing, targets) == targets
\* add_participant: who gets the commit, and who the welcome.
Told(existing, targets) == existing \cup targets

\* add_participant: packages are fetched for every active device of the
\* address; MLS refuses a device that is in the group already, and then
\* nothing is added.  An error while the commit is delivered leaves the new
\* members without their welcome.
AddParticipant(d, g, a) ==
  LET targets == Fetched(d, {a})
      existing == View(d, g).mem \ {d}
      mem == View(d, g).mem \cup targets
      mails == [t \in existing \cup targets |->
                  IF t \in targets THEN WelcomeFor(g, nst + 1, mem, Package(t))
                  ELSE CommitFor(g, View(d, g).st, nst + 1, mem)]
  IN /\ once' = Spent(targets)
     /\ IF targets = {} \/ targets \cap View(d, g).mem # {}
        THEN UNCHANGED <<dev, post, nst, gfaults, head, hurt, past, ever>>
        ELSE /\ Merge(d, g, mem)
             /\ \E sent \in SUBSET Told(existing, targets) :
                  /\ sent = Told(existing, targets) \/ (sent \cap targets # {} => existing \subseteq sent)
                  /\ Delivered(g, Told(existing, targets), sent, mails,
                               \/ Splits(d, g) \/ DeadPackage(targets)
                               \/ targets \cap ever[g] # {})

AddMember(d, g, a) ==
  /\ Able(d, "add") /\ View(d, g) # NoView /\ nst < gsc.states
  /\ a \notin AddrsOf(View(d, g).mem)
  /\ AddParticipant(d, g, a)
  /\ UNCHANGED <<gsc, registry, last, minted, disk, tag, published, rec, said, dead, heard>>

\* remove_participant; MLS refuses a commit that removes its own sender.
RemoveMember(d, g, a) ==
  /\ Able(d, "remove") /\ View(d, g) # NoView /\ nst < gsc.states
  /\ a # Owner[d] /\ a \in AddrsOf(View(d, g).mem)
  /\ LET mem == {x \in View(d, g).mem : Owner[x] # a}
         mails == [t \in mem |-> CommitFor(g, View(d, g).st, nst + 1, mem)]
     IN /\ Merge(d, g, mem)
        /\ \E sent \in SUBSET (mem \ {d}) : Delivered(g, mem \ {d}, sent, mails, Splits(d, g))
  /\ UNCHANGED <<gsc, registry, once, last, minted, disk, tag, published, rec, said, dead, heard>>

----------------------------------------------------------------------------
(* Reconciliation with the chain.                                          *)

Register(d) ==
  /\ "register" \in gsc.ops /\ registry[d] = "absent"
  /\ registry' = [registry EXCEPT ![d] = "active"]
  /\ UNCHANGED <<gsc, once, last, minted, dev, disk, tag, published, post, rec, nst, said,
                 gfaults, head, hurt, dead, past, ever, heard>>

Groups(d) == {g \in GroupIds : View(d, g) # NoView}
Started(d) == [Idle EXCEPT !.on = TRUE, !.todo = Groups(d)]

\* revoke_on_chain: the transaction, then a reconciliation.
Revoke(d, x) ==
  /\ Able(d, "revoke")
  /\ Owner[d] = Owner[x] /\ d # x /\ registry[d] = "active" /\ registry[x] = "active"
  /\ registry' = [registry EXCEPT ![x] = "revoked"]
  /\ rec' = [rec EXCEPT ![d] = Started(d)]
  /\ UNCHANGED <<gsc, once, last, minted, dev, disk, tag, published, post, nst, said,
                 gfaults, head, hurt, dead, past, ever, heard>>

\* Every so many rounds.
StartReconcile(d) ==
  /\ Able(d, "reconcile") /\ registry[d] = "active" /\ Groups(d) # {}
  /\ rec' = [rec EXCEPT ![d] = Started(d)]
  /\ UNCHANGED <<gsc, registry, once, last, minted, dev, disk, tag, published, post, nst,
                 said, gfaults, head, hurt, dead, past, ever, heard>>

\* Plausible bug: the active devices of the group's members are compared, and
\* the revoked ones are left in.
RevokedNever(d, g, known) == {}
\* The members the chain marks revoked, as far as the lookups answered.
Revoked(d, g, known) == {x \in View(d, g).mem : Owner[x] \in known /\ registry[x] = "revoked"}

\* One group: a commit for the revoked members, told to each that stays (a
\* failed delivery is only logged), then the addresses with a device missing.
ReconcileGroup(d, g) ==
  /\ rec[d].on /\ g \in rec[d].todo /\ rec[d].adds = {}
  /\ LET known == AddrsOf(View(d, g).mem) \ rec[d].unknown
         gone == Revoked(d, g, known)
         mem == View(d, g).mem \ gone
         missing == {a \in known : ActiveOf({a}) \ View(d, g).mem # {}}
         mails == [t \in mem |-> CommitFor(g, View(d, g).st, nst + 1, mem)]
     IN /\ rec' = [rec EXCEPT ![d].todo = @ \ {g}, ![d].unknown = {}, ![d].g = g,
                              ![d].adds = missing]
        /\ IF gone = {} \/ d \in gone
           THEN UNCHANGED <<gfaults, dev, post, nst, head, hurt, past, ever>>
           ELSE /\ Merge(d, g, mem)
                /\ \E sent \in SUBSET (mem \ {d}) :
                     Delivered(g, mem \ {d}, sent, mails, Splits(d, g))
  /\ UNCHANGED <<gsc, registry, once, last, minted, disk, tag, published, said, dead, heard>>

\* A chain lookup that fails leaves its address out of this group's round.
LookupFails(d, a) ==
  /\ rec[d].on /\ rec[d].todo # {} /\ rec[d].adds = {} /\ gfaults < gsc.faults
  /\ gfaults' = gfaults + 1
  /\ rec' = [rec EXCEPT ![d].unknown = @ \cup {a}]
  /\ UNCHANGED <<gsc, registry, once, last, minted, dev, disk, tag, published, post, nst,
                 said, head, hurt, dead, past, ever, heard>>

ReconcileAdd(d, a) ==
  /\ rec[d].on /\ a \in rec[d].adds
  /\ rec' = [rec EXCEPT ![d].adds = @ \ {a}]
  /\ AddParticipant(d, rec[d].g, a)
  /\ UNCHANGED <<gsc, registry, last, minted, disk, tag, published, said, dead, heard>>

EndReconcile(d) ==
  /\ rec[d].on /\ rec[d].todo = {} /\ rec[d].adds = {}
  /\ rec' = [rec EXCEPT ![d] = Idle]
  /\ UNCHANGED <<gsc, registry, once, last, minted, dev, disk, tag, published, post, nst,
                 said, gfaults, head, hurt, dead, past, ever, heard>>

----------------------------------------------------------------------------
(* Reading the mailbox.                                                    *)

Readable(d, e) ==
  CASE e.kind = "welcome" -> e.pkg \in dev[d].keys
    [] e.kind = "commit"  -> View(d, e.g) # NoView /\ View(d, e.g).st = e.base
    [] e.kind = "message" -> View(d, e.g) # NoView /\ View(d, e.g).st = e.st

\* Plausible bug: the last-resort key is deleted after use like the others.
UsedUpAlways(d, pkg) == {pkg}
\* The private key of a one-time package is used up; a last-resort package
\* keeps its own.
UsedUp(d, pkg) == {pkg} \ {dev[d].lr}

\* process_envelope: a welcome also has the key packages topped up at once.
Receive(d, e) ==
  /\ e \in post[d] /\ AtRest(d) /\ Readable(d, e)
  /\ post' = [post EXCEPT ![d] = @ \ {e}]
  /\ published' = IF e.kind = "welcome" THEN published \ {d} ELSE published
  /\ heard' = IF e.kind = "message" THEN heard \cup {<<d, e.text>>} ELSE heard
  /\ past' = IF e.kind = "commit" THEN [past EXCEPT ![d] = @ \cup {e.base}] ELSE past
  /\ dev' = IF e.kind = "message" THEN dev
            ELSE [dev EXCEPT ![d].view[e.g] = [st |-> e.st, mem |-> e.mem],
                             ![d].keys = IF e.kind = "welcome" THEN @ \ UsedUp(d, e.pkg) ELSE @]
  /\ UNCHANGED <<gsc, registry, once, last, minted, disk, tag, rec, nst, said, gfaults, head,
                 hurt, dead, ever>>

SaveVault(d) ==
  /\ "crash" \in gsc.ops /\ AtRest(d) /\ disk[d] # dev[d]
  /\ disk' = [disk EXCEPT ![d] = dev[d]]
  /\ UNCHANGED <<gsc, registry, once, last, minted, dev, tag, published, post, rec, nst, said,
                 gfaults, head, hurt, dead, past, ever, heard>>

CrashDevice(d) ==
  /\ "crash" \in gsc.ops /\ gfaults < gsc.faults /\ disk[d] # dev[d]
  /\ gfaults' = gfaults + 1
  /\ dev' = [dev EXCEPT ![d] = disk[d]]
  /\ dead' = [dead EXCEPT ![d] = @ \cup (dev[d].keys \ disk[d].keys)]
  /\ hurt' = hurt \cup {g \in GroupIds : View(d, g) # disk[d].view[g]}
                  \cup {e.g : e \in {x \in post[d] : x.kind = "welcome" /\ x.pkg \notin disk[d].keys}}
  /\ published' = published \ {d}
  /\ rec' = [rec EXCEPT ![d] = Idle]
  /\ UNCHANGED <<gsc, registry, once, last, minted, disk, tag, post, nst, said, head, past, ever, heard>>

\* What an active device does by itself.
DeviceStep(d) ==
  \/ StartReconcile(d) \/ EndReconcile(d)
  \/ \E g \in GroupIds : ReconcileGroup(d, g)
  \/ \E a \in Addresses : ReconcileAdd(d, a)

GroupNext ==
  \E d \in Devices :
    \/ \E as \in SUBSET (Addresses \ {Owner[d]}) :
         \/ Converse(d, as) \/ CreateCircle(d, as)
         \/ \E t \in Texts : SendText(d, as, t)
    \/ \E g \in GroupIds, a \in Addresses : AddMember(d, g, a) \/ RemoveMember(d, g, a)
    \/ Register(d) \/ (\E x \in Devices : Revoke(d, x))
    \/ DeviceStep(d) \/ (\E a \in Addresses : LookupFails(d, a))
    \/ \E e \in post[d] : Receive(d, e)
    \/ Publish(d) \/ SaveVault(d) \/ CrashDevice(d)

----------------------------------------------------------------------------
(* Properties.                                                             *)

\* The states of a group a device can get to with what is in its mailbox: they
\* are in every set that has the device's own state, those of its welcomes,
\* and with a state the ones its commits lead to.
Reach(d, g) ==
  {st \in 1..nst : \A S \in SUBSET (1..nst) :
     /\ View(d, g).st \in S \cup {0}
     /\ \A e \in post[d] : e.g = g =>
          /\ e.kind = "welcome" /\ e.pkg \in dev[d].keys => e.st \in S
          /\ e.kind = "commit" /\ e.base \in S => e.st \in S
     => st \in S}

(* Every device in a group's newest roster is there, or holds the welcome  *)
(* and the commits that take it there, and every message delivered to a    *)
(* device was read, waits where the device will come, or was overtaken by  *)
(* a commit -- unless the group was hurt: a welcome or commit that no      *)
(* store took, a crash before the save, a package whose key a crash lost,  *)
(* or two commits made in the same state.  In particular packages used     *)
(* twice, devices that join late and reconciliations that fail half-way    *)
(* through their lookups leave nobody behind.  (messaging.rs               *)
(* create_conversation, add_participant; devices.rs reconcile)             *)
GroupsStayWhole ==
  \A g \in GroupIds \ hurt :
    /\ \A d \in head[g].mem : head[g].st \in Reach(d, g)
    /\ \A t \in Texts : said[t].g = g =>
         \A d \in said[t].to :
           \/ <<d, t>> \in heard
           \/ said[t].st \in past[d]
           \/ MessageFor(g, said[t].st, t) \in post[d] /\ said[t].st \in Reach(d, g)

(* Again and again no active device has a revoked device in a roster of    *)
(* its own: through chain lookups and deliveries that fail and groups that *)
(* split, because each member reconciles its own view.  (devices.rs        *)
(* reconcile)                                                              *)
RevokedLeave ==
  []<>(\A d \in Devices : registry[d] = "active" =>
         \A g \in GroupIds : \A x \in View(d, g).mem : registry[x] # "revoked")
=============================================================================
