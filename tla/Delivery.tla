------------------------------ MODULE Delivery ------------------------------
(***************************************************************************)
(* Store-and-forward delivery to one device: senders deposit envelopes in  *)
(* its mailbox at several store nodes (mailbox.rs); the device's sync      *)
(* rounds fetch them page by page, run them through MLS, acknowledge them, *)
(* hand the messages to the application and save the vault (messaging.rs,  *)
(* sync.rs, session.rs).  A crash puts the device back to its last saved   *)
(* vault.  An envelope is its id; ids are numbers because a store orders   *)
(* envelopes with the same creation time by id.                            *)
(***************************************************************************)
EXTENDS Integers, FiniteSets, Sequences

CONSTANTS
  Stores, Envelopes,
  Kind,              \* [Envelopes -> {"welcome", "commit", "chat", "mail"}]
  Needs,             \* the envelope MLS must have processed before, or 0
  EnvelopeTtl,       \* ENVELOPE_TTL_SECS
  MaxEnvelopes,      \* MAX_ENVELOPES_PER_MAILBOX
  PageLimit,         \* envelopes per fetch
  SeenCap, FailedAttemptsCap,
  MaxTime,           \* bound: the clock
  MaxPuts,           \* bound: accepted deposits
  MaxFaults,         \* bound: failed fetches, lost acknowledgements, failed saves
  MaxCrashes         \* bound: crashes of the device

ASSUME EnvelopeAssumption ==
  /\ IsFiniteSet(Envelopes) /\ Envelopes \subseteq Nat \ {0}
  /\ Kind \in [Envelopes -> {"welcome", "commit", "chat", "mail"}]
  /\ Needs \in [Envelopes -> Envelopes \cup {0}]
ASSUME ConstantAssumption ==
  /\ EnvelopeTtl \in Nat \ {0} /\ MaxEnvelopes \in Nat \ {0} /\ PageLimit \in Nat \ {0}
  /\ SeenCap \in Nat /\ FailedAttemptsCap \in Nat \ {0}
ASSUME BoundAssumption ==
  MaxTime \in Nat /\ MaxPuts \in Nat /\ MaxFaults \in Nat /\ MaxCrashes \in Nat

NoStore == "none"
ASSUME StoreAssumption == NoStore \notin Stores
NotSent == -1

VARIABLES
  clock,
  created,   \* when an envelope was made, or NotSent
  held,      \* [store -> envelopes it holds] (ENVELOPES and BY_ID)
  usage,     \* [store -> count] (USAGE)
  expiry,    \* [store -> {<<when, envelope>>}] (EXPIRY)
  mem,       \* the device's Messaging: cursors, seen, failed, mls
  vault,     \* the same as last saved
  pc,        \* where the sync loop is
  todo,      \* store peers this round has not asked yet
  at, cursor,       \* the peer being asked, and from where
  acking, next,     \* the ids to acknowledge, and the page's cursor
  out,       \* decrypted in this round, not yet dispatched
  report,    \* chat lines dispatched, not yet stored
  inbox,     \* messages the application has stored
  accepted,  \* ghost: envelopes some store accepted
  gaveUp,    \* ghost: envelopes given up after FAILED_ATTEMPTS_CAP
  exposed,   \* ghost: what a round had handled when its results were dropped
  puts, faults, crashes

storeVars == <<held, usage, expiry, accepted, puts>>
roundVars == <<pc, todo, at, cursor, acking, next>>
appVars == <<out, report, inbox>>
vars == <<clock, created, storeVars, mem, vault, roundVars, appVars, gaveUp,
          exposed, faults, crashes>>

Messages == {e \in Envelopes : Kind[e] \in {"chat", "mail"}}
Expires(e) == created[e] + EnvelopeTtl

----------------------------------------------------------------------------
(* Senders and the store nodes.                                            *)

(* A sender makes an envelope.                                             *)
Send(e) ==
  /\ created[e] = NotSent
  /\ created' = [created EXCEPT ![e] = clock]
  /\ UNCHANGED <<clock, storeVars, mem, vault, roundVars, appVars, gaveUp,
                 exposed, faults, crashes>>

MutPut(s, e) ==
  /\ puts < MaxPuts /\ created[e] # NotSent /\ Expires(e) > clock
  /\ usage[s] < MaxEnvelopes
  /\ held' = [held EXCEPT ![s] = @ \cup {e}]
  /\ usage' = [usage EXCEPT ![s] = @ + 1]
  /\ expiry' = [expiry EXCEPT ![s] = @ \cup {<<Expires(e), e>>}]
  /\ accepted' = accepted \cup {e}
  /\ puts' = puts + 1
  /\ UNCHANGED <<clock, created, mem, vault, roundVars, appVars, gaveUp,
                 exposed, faults, crashes>>

(* A deposit that is accepted; a duplicate, a full mailbox and an expired  *)
(* envelope change nothing.  The same envelope may be deposited again.     *)
Put(s, e) ==
  /\ puts < MaxPuts
  /\ created[e] # NotSent
  /\ Expires(e) > clock
  /\ e \notin held[s]
  /\ usage[s] < MaxEnvelopes
  /\ held' = [held EXCEPT ![s] = @ \cup {e}]
  /\ usage' = [usage EXCEPT ![s] = @ + 1]
  /\ expiry' = [expiry EXCEPT ![s] = @ \cup {<<Expires(e), e>>}]
  /\ accepted' = accepted \cup {e}
  /\ puts' = puts + 1
  /\ UNCHANGED <<clock, created, mem, vault, roundVars, appVars, gaveUp,
                 exposed, faults, crashes>>

(* Taking envelopes out of a mailbox gives their quota back.               *)
Remove(s, es) ==
  LET gone == held[s] \cap es
  IN /\ held' = [held EXCEPT ![s] = @ \ gone]
     /\ usage' = [usage EXCEPT ![s] = IF Cardinality(gone) > @ THEN 0 ELSE @ - Cardinality(gone)]

(* sweep; an entry an acknowledgement left behind is dropped with no effect.*)
Sweep(s) ==
  LET due == {x \in expiry[s] : x[1] <= clock}
  IN /\ due # {}
     /\ Remove(s, {x[2] : x \in due})
     /\ expiry' = [expiry EXCEPT ![s] = @ \ due]
     /\ UNCHANGED <<clock, created, accepted, puts, mem, vault, roundVars,
                    appVars, gaveUp, exposed, faults, crashes>>

Tick ==
  /\ clock < MaxTime
  /\ clock' = clock + 1
  /\ UNCHANGED <<created, storeVars, mem, vault, roundVars, appVars, gaveUp,
                 exposed, faults, crashes>>

----------------------------------------------------------------------------
(* A page of the mailbox and what the device makes of it.                  *)

(* The key order of the ENVELOPES table.                                   *)
Before(e, f) == created[e] < created[f] \/ (created[e] = created[f] /\ e < f)

(* fetch: what comes after the cursor, oldest first, and the next cursor.  *)
After(s, c) == {e \in held[s] : c = 0 \/ Before(c, e)}
Page(s, c) ==
  {e \in After(s, c) : Cardinality({f \in After(s, c) : Before(f, e)}) < PageLimit}
NextCursor(s, c) ==
  IF Page(s, c) = After(s, c) THEN 0
  ELSE CHOOSE e \in Page(s, c) : \A f \in Page(s, c) : f = e \/ Before(f, e)

(* Welcomes first, then by creation time and id.                           *)
InOrder(es) ==
  LET Earlier(e, f) ==
        IF (Kind[e] = "welcome") = (Kind[f] = "welcome") THEN Before(e, f)
        ELSE Kind[e] = "welcome"
  IN CHOOSE q \in [1..Cardinality(es) -> es] :
       \A i, j \in 1..Cardinality(es) : i < j => Earlier(q[i], q[j])

(* MLS processes an envelope once, and only after the one it builds on.    *)
Processable(e, done) == e \notin done /\ (Needs[e] # 0 => Needs[e] \in done)

(* One pass of process_envelope over a page: what MLS has processed then.  *)
Pass(q, done) ==
  LET upTo[i \in 0..Len(q)] ==
        IF i = 0 THEN done
        ELSE IF Processable(q[i], upTo[i - 1]) THEN upTo[i - 1] \cup {q[i]} ELSE upTo[i - 1]
  IN upTo[Len(q)]

LastOf(q, n) == IF Len(q) <= n THEN q ELSE SubSeq(q, Len(q) - n + 1, Len(q))
SeenSet(m) == {m.seen[i] : i \in 1..Len(m.seen)}

(* What one page does to the device: ids already seen are acknowledged, the*)
(* others processed, those that failed retried once and counted, and given *)
(* up at the cap.                                                          *)
Processed(page) ==
  LET fresh == page \ SeenSet(mem)
      q == InOrder(fresh)
      first == Pass(q, mem.mls)
      second == Pass(q, first)
      bad == fresh \ (second \ mem.mls)
      given == {e \in bad : mem.failed[e] + 1 >= FailedAttemptsCap}
      counted == [e \in Envelopes |->
                    IF e \in given THEN 0
                    ELSE IF e \in bad THEN mem.failed[e] + 1 ELSE mem.failed[e]]
      marked == InOrder(first \ mem.mls) \o InOrder(given \cup (second \ first))
  IN [mem |-> [mem EXCEPT !.mls = second,
                          !.seen = LastOf(mem.seen \o marked, SeenCap),
                          !.failed = IF Cardinality({e \in Envelopes : counted[e] # 0}) > SeenCap
                                     THEN [e \in Envelopes |-> 0] ELSE counted],
      read |-> (second \ mem.mls) \cap Messages,
      given |-> given,
      ack |-> page \ (bad \ given)]

----------------------------------------------------------------------------
(* One sync round of the device.                                           *)

StartRound ==
  /\ pc = "idle"
  /\ pc' = "peers"
  /\ todo' = Stores
  /\ UNCHANGED <<clock, created, storeVars, mem, vault, at, cursor, acking, next,
                 appVars, gaveUp, exposed, faults, crashes>>

AskStore(s) ==
  /\ pc = "peers" /\ s \in todo
  /\ pc' = "fetch"
  /\ todo' = todo \ {s}
  /\ at' = s
  /\ cursor' = mem.cursors[s]
  /\ UNCHANGED <<clock, created, storeVars, mem, vault, acking, next, appVars,
                 gaveUp, exposed, faults, crashes>>

(* Leaving the loop over one peer's pages remembers the cursor reached.    *)
LeaveStore(c) ==
  /\ pc' = "peers"
  /\ mem' = [mem EXCEPT !.cursors[at] = c]
  /\ at' = NoStore /\ cursor' = 0 /\ acking' = {} /\ next' = 0

FetchPage ==
  /\ pc = "fetch"
  /\ Page(at, cursor) # {}
  /\ LET r == Processed(Page(at, cursor))
     IN /\ mem' = r.mem
        /\ out' = out \cup r.read
        /\ gaveUp' = gaveUp \cup r.given
        /\ acking' = r.ack
  /\ next' = NextCursor(at, cursor)
  /\ pc' = "ack"
  /\ UNCHANGED <<clock, created, storeVars, vault, todo, at, cursor, report,
                 inbox, exposed, faults, crashes>>

FetchNothing ==
  /\ pc = "fetch"
  /\ Page(at, cursor) = {}
  /\ LeaveStore(cursor)
  /\ UNCHANGED <<clock, created, storeVars, vault, todo, appVars, gaveUp,
                 exposed, faults, crashes>>

FetchFails ==
  /\ pc = "fetch"
  /\ faults < MaxFaults
  /\ faults' = faults + 1
  /\ LeaveStore(cursor)
  /\ UNCHANGED <<clock, created, storeVars, vault, todo, appVars, gaveUp,
                 exposed, crashes>>

MutContinue ==
  IF next = 0
  THEN LeaveStore(cursor)
  ELSE /\ pc' = "fetch" /\ cursor' = next /\ acking' = {} /\ next' = 0
       /\ UNCHANGED <<mem, at>>

(* After the acknowledgement, answered or not, the next page or peer.      *)
Continue ==
  IF next = 0
  THEN LeaveStore(0)
  ELSE /\ pc' = "fetch" /\ cursor' = next /\ acking' = {} /\ next' = 0
       /\ UNCHANGED <<mem, at>>

MutAck ==
  /\ pc = "ack"
  /\ Remove(at, Page(at, cursor))
  /\ Continue
  /\ UNCHANGED <<clock, created, expiry, accepted, puts, vault, todo, appVars,
                 gaveUp, exposed, faults, crashes>>

(* Acknowledged envelopes are deleted; their expiry entries stay.          *)
Ack ==
  /\ pc = "ack"
  /\ Remove(at, acking)
  /\ Continue
  /\ UNCHANGED <<clock, created, expiry, accepted, puts, vault, todo, appVars,
                 gaveUp, exposed, faults, crashes>>

AckLost ==
  /\ pc = "ack"
  /\ faults < MaxFaults
  /\ faults' = faults + 1
  /\ Continue
  /\ UNCHANGED <<clock, created, storeVars, vault, todo, appVars, gaveUp,
                 exposed, crashes>>

(* Application messages are stored at once, chat lines put in the report.  *)
Dispatch ==
  /\ pc = "peers" /\ todo = {}
  /\ pc' = "save"
  /\ inbox' = inbox \cup {e \in out : Kind[e] = "mail"}
  /\ report' = {e \in out : Kind[e] = "chat"}
  /\ out' = {}
  /\ UNCHANGED <<clock, created, storeVars, mem, vault, todo, at, cursor, acking,
                 next, gaveUp, exposed, faults, crashes>>

(* The vault is written with the device's whole state.                     *)
Save ==
  /\ pc = "save"
  /\ pc' = "store"
  /\ vault' = mem
  /\ UNCHANGED <<clock, created, storeVars, mem, todo, at, cursor, acking, next,
                 appVars, gaveUp, exposed, faults, crashes>>

(* The save at the end of round_inner fails, so the report is dropped; the *)
(* session saves once more, which may succeed.                             *)
SaveFails ==
  /\ pc = "save"
  /\ faults < MaxFaults
  /\ faults' = faults + 1
  /\ vault' \in {vault, mem}
  /\ report' = {}
  /\ exposed' = exposed \cup (report \ inbox)
  /\ pc' = "store"
  /\ UNCHANGED <<clock, created, storeVars, mem, todo, at, cursor, acking, next,
                 out, inbox, gaveUp, crashes>>

(* The session stores the chat lines of the report.                        *)
StoreChat ==
  /\ pc = "store"
  /\ pc' = "idle"
  /\ inbox' = inbox \cup report
  /\ report' = {}
  /\ UNCHANGED <<clock, created, storeVars, mem, vault, todo, at, cursor, acking,
                 next, out, gaveUp, exposed, faults, crashes>>

(* The device stops and starts again from its vault and its local store.   *)
Crash ==
  /\ crashes < MaxCrashes
  /\ crashes' = crashes + 1
  /\ mem' = vault
  /\ exposed' = exposed \cup (((mem.mls \ vault.mls) \cup report) \ inbox)
  /\ out' = {} /\ report' = {}
  /\ pc' = "idle" /\ todo' = {} /\ at' = NoStore /\ cursor' = 0
  /\ acking' = {} /\ next' = 0
  /\ UNCHANGED <<clock, created, storeVars, vault, inbox, gaveUp, faults>>

NewDevice ==
  [cursors |-> [s \in Stores |-> 0], seen |-> << >>,
   failed |-> [e \in Envelopes |-> 0], mls |-> {}]

Init ==
  /\ clock = 0 /\ created = [e \in Envelopes |-> NotSent]
  /\ held = [s \in Stores |-> {}] /\ usage = [s \in Stores |-> 0]
  /\ expiry = [s \in Stores |-> {}]
  /\ mem = NewDevice /\ vault = NewDevice
  /\ pc = "idle" /\ todo = {} /\ at = NoStore /\ cursor = 0
  /\ acking = {} /\ next = 0
  /\ out = {} /\ report = {} /\ inbox = {}
  /\ accepted = {} /\ gaveUp = {} /\ exposed = {}
  /\ puts = 0 /\ faults = 0 /\ crashes = 0

Sync ==
  \/ StartRound \/ (\E s \in Stores : AskStore(s))
  \/ FetchPage \/ FetchNothing \/ Ack
  \/ Dispatch \/ Save \/ StoreChat

Next ==
  \/ \E e \in Envelopes : Send(e)
  \/ \E s \in Stores, e \in Envelopes : Put(s, e)
  \/ \E s \in Stores : Sweep(s)
  \/ Tick
  \/ Sync
  \/ FetchFails \/ AckLost \/ SaveFails
  \/ Crash

Spec == Init /\ [][Next]_vars

(* The session's loop runs for ever and every request ends in an answer or *)
(* a timeout; nothing is assumed of senders, sweeps, faults and crashes.   *)
FairSpec == Spec /\ WF_vars(Sync)

----------------------------------------------------------------------------
(* Properties.                                                             *)

(* The type of every variable.                                             *)
DeviceState ==
  [cursors : [Stores -> Envelopes \cup {0}], seen : Seq(Envelopes),
   failed : [Envelopes -> Nat], mls : SUBSET Envelopes]
TypeOK ==
  /\ clock \in Nat /\ created \in [Envelopes -> Nat \cup {NotSent}]
  /\ held \in [Stores -> SUBSET Envelopes] /\ usage \in [Stores -> Nat]
  /\ expiry \in [Stores -> SUBSET (Nat \X Envelopes)]
  /\ mem \in DeviceState /\ vault \in DeviceState
  /\ pc \in {"idle", "peers", "fetch", "ack", "save", "store"}
  /\ todo \subseteq Stores /\ at \in Stores \cup {NoStore}
  /\ pc \in {"fetch", "ack"} => at \in Stores
  /\ cursor \in Envelopes \cup {0} /\ next \in Envelopes \cup {0}
  /\ acking \subseteq Envelopes
  /\ out \subseteq Envelopes /\ report \subseteq Envelopes /\ inbox \subseteq Envelopes
  /\ accepted \subseteq Envelopes /\ gaveUp \subseteq Envelopes
  /\ exposed \subseteq Envelopes
  /\ puts \in Nat /\ faults \in Nat /\ crashes \in Nat

(* A store's usage is what it holds, within the quota, and everything it   *)
(* holds will be swept when it expires, through deposits, acknowledgements *)
(* that leave expiry entries behind, deposits of the same envelope again,  *)
(* and sweeps.  (mailbox.rs put, ack, sweep)                               *)
StoreBooks ==
  \A s \in Stores :
    /\ usage[s] = Cardinality(held[s])
    /\ usage[s] <= MaxEnvelopes
    /\ \A e \in held[s] : <<Expires(e), e>> \in expiry[s]

(* Where an accepted envelope may be: a store, the device or the past.     *)
Kept(e) == e \in inbox \cup out \cup report \/ (e \notin Messages /\ e \in mem.mls)
Lost(e) ==
  /\ e \in accepted \ gaveUp
  /\ Expires(e) > clock
  /\ \A s \in Stores : e \notin held[s]
  /\ ~Kept(e)

(* An accepted envelope that has not expired and was not given up is at a  *)
(* store or at the device, unless a crash or a failed save came between its *)
(* processing and the save that follows: nothing that was saved, and        *)
(* nothing still unacknowledged, is ever lost.  (messaging.rs sync, sync.rs *)
(* round_inner, session.rs)                                                 *)
LossIsBounded == \A e \in Envelopes : Lost(e) => e \in exposed

(* A copy at a second store, or an envelope deposited again, is recognised *)
(* by its id: what MLS has processed is never counted as a failure.        *)
(* (messaging.rs mark_seen; holds while SEEN_CAP is not exceeded)          *)
CopiesAreHarmless == \A e \in mem.mls : e \in SeenSet(mem)

(* No message is lost, or mistaken for one that was.                       *)
NothingGoesAstray == LossIsBounded /\ CopiesAreHarmless

(* Every envelope in a mailbox is eventually taken out by the device,      *)
(* delivered or given up, even if no sweep comes: no cursor that a failed  *)
(* fetch left behind hides it for ever, unless the device crashes, which   *)
(* may come between an acknowledgement and the save.  (messaging.rs cursors)*)
MailboxDrains ==
  \A s \in Stores, e \in Envelopes :
    e \in held[s] ~> (e \notin held[s] \/ crashes > 0)
=============================================================================
