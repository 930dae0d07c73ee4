------------------------------ MODULE Contacts ------------------------------
(***************************************************************************)
(* The contact book of every device (hashgram-app people.rs), the requests *)
(* and answers that travel between accounts (sdk people.rs), and the       *)
(* snapshots a device sends to the user's other devices (sdk sync.rs,      *)
(* devices.rs).                                                            *)
(*                                                                         *)
(* A message goes to the direct group of the two accounts: every device of *)
(* both but the sender's.  Messages are read in any order.  A record's     *)
(* time stamp is a global step count, so the clocks agree.                 *)
(***************************************************************************)
EXTENDS Integers, FiniteSets

CONSTANTS Devs, DevOwner,       \* the devices and the account of each
          FRIEND, PENDING_OUT, PENDING_IN, BLOCKED, MUTED, TRUSTED, FOLLOWING

VARIABLES csc,                  \* the scenario: operations and bounds
          book,                 \* the book in each device's memory
          kept,                 \* and in its local store
          unsent,               \* PeopleState.dirty
          inbox, clock, cfaults,
          wish                  \* ghost: <<a, b>>, a asked or accepted b

contactVars == <<csc, book, kept, unsent, inbox, clock, cfaults, wish>>

Accounts == {DevOwner[d] : d \in Devs}
NoRecord == [states |-> {}, at |-> 0]
EmptyBook == [a \in Accounts |-> NoRecord]

ContactInit(scenarios) ==
  /\ csc \in scenarios
  /\ book = [d \in Devs |-> EmptyBook] /\ kept = book
  /\ unsent = [d \in Devs |-> FALSE]
  /\ inbox = [d \in Devs |-> {}]
  /\ clock = 0 /\ cfaults = 0 /\ wish = {}

----------------------------------------------------------------------------
(* The book: each operation is what it does to one record, at a time.      *)

Has(bk, a, flag) == flag \in bk[a].states
Record(states, at) == [states |-> states, at |-> at]

\* request_sent; the caller has checked BLOCKED and FRIEND.
MayRequest(bk, a) == ~Has(bk, a, BLOCKED) /\ ~Has(bk, a, FRIEND)
RequestSent(r, at) == Record(r.states \cup {PENDING_OUT}, at)

\* Plausible bug: any request from someone not blocked is taken as agreed.
RequestTaken(r, at) ==
  IF BLOCKED \in r.states \/ FRIEND \in r.states THEN r ELSE Record(r.states \cup {FRIEND}, at)
\* request_received: dropped from a blocked sender, old news from a friend,
\* an acceptance if we asked too.
RequestReceived(r, at) ==
  IF BLOCKED \in r.states \/ FRIEND \in r.states THEN r
  ELSE IF PENDING_OUT \in r.states
       THEN Record((r.states \ {PENDING_OUT}) \cup {FRIEND}, at)
       ELSE Record(r.states \cup {PENDING_IN}, at)

Accept(r, at) == Record((r.states \ {PENDING_IN}) \cup {FRIEND}, at)
Reject(r, at) == Record(r.states \ {PENDING_IN}, at)

\* response_received: whether a request is pending, or the sender blocked,
\* is not looked at.
ResponseReceived(r, accepted, at) ==
  Record((r.states \ {PENDING_OUT}) \cup (IF accepted THEN {FRIEND} ELSE {}), at)

RemoveContact(r, at) == Record(r.states \ {FRIEND, TRUSTED, PENDING_IN, PENDING_OUT}, at)
Block(r, at) ==
  Record((r.states \ {FRIEND, TRUSTED, PENDING_IN, PENDING_OUT}) \cup {BLOCKED}, at)
Unblock(r, at) == Record(r.states \ {BLOCKED}, at)
SetFlag(r, flag, on, at) == Record(IF on THEN r.states \cup {flag} ELSE r.states \ {flag}, at)

\* merge_snapshot: the newer record of each address.
MergeSnapshot(bk, other) == [a \in Accounts |-> IF other[a].at > bk[a].at THEN other[a] ELSE bk[a]]

\* sender_facts
SenderFacts(bk, a) ==
  [contact |-> Has(bk, a, FRIEND), trusted |-> Has(bk, a, TRUSTED),
   blocked |-> Has(bk, a, BLOCKED), muted |-> Has(bk, a, MUTED)]

\* The lists of the People page: friends, requests both ways, blocked.
WithFlag(bk, flag) == {a \in Accounts : Has(bk, a, flag)}

----------------------------------------------------------------------------
(* Operations of a device.                                                 *)

Note(kind, from, yes, bk) == [kind |-> kind, from |-> from, yes |-> yes, book |-> bk]

Tick == clock < csc.steps /\ clock' = clock + 1
Doing(op) == op \in csc.ops

\* To the direct group with account a.
Post(d, a, m) ==
  inbox' = [x \in Devs |-> IF x \in csc.devs \ {d} /\ DevOwner[x] \in {DevOwner[d], a}
                           THEN inbox[x] \cup {m} ELSE inbox[x]]
Change(d, a, r) == book' = [book EXCEPT ![d][a] = r]
\* PeopleState::save
Saved(d) == kept' = [kept EXCEPT ![d] = book'[d]] /\ unsent' = [unsent EXCEPT ![d] = TRUE]

\* The message is sent and the book saved, or the sending fails: then the
\* change stays in memory, unsaved.
SentOrNot(d, a, m) ==
  \/ Post(d, a, m) /\ Saved(d) /\ UNCHANGED cfaults
  \/ cfaults < csc.faults /\ cfaults' = cfaults + 1 /\ UNCHANGED <<inbox, kept, unsent>>

Request(d, a) ==
  /\ Doing("request") /\ a # DevOwner[d] /\ MayRequest(book[d], a) /\ Tick
  /\ Change(d, a, RequestSent(book[d][a], clock'))
  /\ wish' = wish \cup {<<DevOwner[d], a>>}
  /\ SentOrNot(d, a, Note("request", DevOwner[d], TRUE, EmptyBook))
  /\ UNCHANGED csc

Respond(d, a, accept) ==
  /\ Doing(IF accept THEN "accept" ELSE "reject") /\ (accept => Has(book[d], a, PENDING_IN)) /\ Tick
  /\ a # DevOwner[d]
  /\ Change(d, a, IF accept THEN Accept(book[d][a], clock') ELSE Reject(book[d][a], clock'))
  /\ wish' = IF accept THEN wish \cup {<<DevOwner[d], a>>} ELSE wish
  /\ SentOrNot(d, a, Note("response", DevOwner[d], accept, EmptyBook))
  /\ UNCHANGED csc

Local(d, a, op, r) ==
  /\ Doing(op) /\ a # DevOwner[d] /\ Tick
  /\ Change(d, a, r) /\ Saved(d)
  /\ UNCHANGED <<csc, inbox, cfaults, wish>>

Remove(d, a) == Local(d, a, "remove", RemoveContact(book[d][a], clock + 1))
BlockContact(d, a) == Local(d, a, "block", Block(book[d][a], clock + 1))
UnblockContact(d, a) == Has(book[d], a, BLOCKED) /\ Local(d, a, "block", Unblock(book[d][a], clock + 1))
Mute(d, a, on) == Local(d, a, "mute", SetFlag(book[d][a], MUTED, on, clock + 1))
Trust(d, a, on) ==
  /\ on => Has(book[d], a, FRIEND)
  /\ Local(d, a, "trust", SetFlag(book[d][a], TRUSTED, on, clock + 1))
Follow(d, a, on) == Local(d, a, "follow", SetFlag(book[d][a], FOLLOWING, on, clock + 1))

\* send_card: to contacts only; the reader keeps names from contacts only.
SendCard(d, a) ==
  /\ Doing("card") /\ a # DevOwner[d] /\ Has(book[d], a, FRIEND) /\ Tick
  /\ Post(d, a, Note("card", DevOwner[d], TRUE, EmptyBook))
  /\ UNCHANGED <<csc, book, kept, unsent, cfaults, wish>>

\* People::handle_incoming: what a message makes of the sender's record.
Handled(r, m) ==
  CASE m.kind = "request"  -> RequestReceived(r, clock + 1)
    [] m.kind = "response" -> ResponseReceived(r, m.yes, clock + 1)
    [] m.kind = "card"     -> IF FRIEND \in r.states THEN [r EXCEPT !.at = clock + 1] ELSE r

\* A request from a blocked account and a card from a stranger change
\* nothing; everything else is saved.
Ignored(r, m) == \/ m.kind = "request" /\ BLOCKED \in r.states
                 \/ m.kind = "card" /\ FRIEND \notin r.states

HandleContact(d, m) ==
  /\ m \in inbox[d] /\ m.kind # "snapshot"
  /\ clock' = clock + 1
  /\ inbox' = [inbox EXCEPT ![d] = @ \ {m}]
  /\ Change(d, m.from, Handled(book[d][m.from], m))
  /\ IF Ignored(book[d][m.from], m) THEN UNCHANGED <<kept, unsent>> ELSE Saved(d)
  /\ UNCHANGED <<csc, cfaults, wish>>

\* apply_snapshot: also forgets that this device had changes of its own to
\* send.
ApplySnapshot(d, m) ==
  /\ m \in inbox[d] /\ m.kind = "snapshot"
  /\ inbox' = [inbox EXCEPT ![d] = @ \ {m}]
  /\ book' = [book EXCEPT ![d] = MergeSnapshot(@, m.book)]
  /\ kept' = [kept EXCEPT ![d] = book'[d]]
  /\ unsent' = [unsent EXCEPT ![d] = FALSE]
  /\ UNCHANGED <<csc, clock, cfaults, wish>>

\* The outbox stage of a round: the snapshot is taken, and sent or lost.
\* Bound: one snapshot is under way at a time.
NoSnapshotUnderWay == \A x \in Devs : \A m \in inbox[x] : m.kind # "snapshot"
SendSnapshot(d) ==
  /\ Doing("snapshot") /\ unsent[d] /\ NoSnapshotUnderWay
  /\ unsent' = [unsent EXCEPT ![d] = FALSE]
  /\ \/ Post(d, DevOwner[d], Note("snapshot", DevOwner[d], TRUE, book[d])) /\ UNCHANGED cfaults
     \/ cfaults < csc.faults /\ cfaults' = cfaults + 1 /\ UNCHANGED inbox
  /\ UNCHANGED <<csc, book, kept, clock, wish>>

\* bootstrap_new_device
BootstrapDevice(d) ==
  /\ Doing("bootstrap") /\ NoSnapshotUnderWay /\ Tick
  /\ Post(d, DevOwner[d], Note("snapshot", DevOwner[d], TRUE, book[d]))
  /\ UNCHANGED <<csc, book, kept, unsent, cfaults, wish>>

\* PeopleState::load
RestartContacts(d) ==
  /\ Doing("restart") /\ (book[d] # kept[d] \/ unsent[d])
  /\ book' = [book EXCEPT ![d] = kept[d]] /\ unsent' = [unsent EXCEPT ![d] = FALSE]
  /\ UNCHANGED <<csc, kept, inbox, clock, cfaults, wish>>

ContactNext ==
  \E d \in csc.devs :
    \/ \E a \in Accounts :
         \/ Request(d, a) \/ Remove(d, a) \/ BlockContact(d, a) \/ UnblockContact(d, a)
         \/ SendCard(d, a)
         \/ \E on \in BOOLEAN : Respond(d, a, on) \/ Mute(d, a, on) \/ Trust(d, a, on) \/ Follow(d, a, on)
    \/ \E m \in inbox[d] : HandleContact(d, m) \/ ApplySnapshot(d, m)
    \/ SendSnapshot(d) \/ BootstrapDevice(d) \/ RestartContacts(d)

----------------------------------------------------------------------------
(* Property.                                                               *)

(* An account is a contact on a device only if each of the two asked for   *)
(* it or accepted it at some time: no order of requests that cross,        *)
(* answers that come late or twice, snapshots, failed sends and restarts   *)
(* makes two accounts contacts that one of them never wanted; and a device *)
(* never comes to trust an account that is not a contact.                  *)
(* (hashgram-app people.rs, sdk people.rs)                                 *)
ContactsAgreed ==
  \A d \in Devs :
    \A a \in Accounts \ {DevOwner[d]} :
      /\ Has(book[d], a, FRIEND) => {<<DevOwner[d], a>>, <<a, DevOwner[d]>>} \subseteq wish
      /\ Has(book[d], a, TRUSTED) => Has(book[d], a, FRIEND)
=============================================================================
