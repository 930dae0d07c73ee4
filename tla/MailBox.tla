------------------------------ MODULE MailBox ------------------------------
(***************************************************************************)
(* Native mail on the user's devices: drafts and sending with To, Cc and   *)
(* Bcc (hashgram-app mail.rs, sdk mail.rs, desktop cmd_mail.rs), filing by *)
(* the contact book and the spam policy (spam.rs), receipts, flags, and    *)
(* the hints that carry flags to the user's other devices (sdk sync.rs).   *)
(*                                                                         *)
(* To and Cc are one set of visible accounts.  A message travels in the    *)
(* group of its accounts: to every device of theirs but the sender's.  The *)
(* spam score is abstract: a stranger's mail goes to Requests or to Spam.  *)
(* Senders do not lie about who they are.                                  *)
(***************************************************************************)
EXTENDS Contacts

CONSTANT MailIds                 \* message ids, as many as may be sent

VARIABLES mails,                 \* per device: the store and its indexes
          hint,                  \* flag changes for the other devices
          draft, mpost,
          \* ghosts: what was sent; who could learn that someone answered or
          \* confirmed a message; who filed it and who opened it
          sentAs, told, filed, opened

mailVars == <<mails, hint, draft, mpost, sentAs, told, filed, opened>>

NoMail == [folder |-> "none", m |-> [id |-> 0, re |-> 0, root |-> 0, from |-> "none", to |-> {},
           copy |-> FALSE], read |-> FALSE, star |-> FALSE, out |-> FALSE, delivered |-> {},
           readby |-> {}, grp |-> {}]
NoDraft == [on |-> FALSE, to |-> {}, bcc |-> {}, re |-> 0]
NoHint == [f \in {"read", "unread", "archived", "trashed", "starred", "unstarred", "deleted"} |-> {}]
NotSent == [from |-> "none", to |-> {}, bcc |-> {}]
EmptyBox == [store |-> [i \in MailIds |-> NoMail], byFolder |-> {}, byThread |-> {}, index |-> {}]

MailInit ==
  /\ mails = [d \in Devs |-> EmptyBox]
  /\ hint = [d \in Devs |-> NoHint]
  /\ draft = [d \in Devs |-> NoDraft]
  /\ mpost = [d \in Devs |-> {}]
  /\ sentAs = [i \in MailIds |-> NotSent] /\ told = {} /\ filed = {} /\ opened = {}

Rec(d, i) == mails[d].store[i]
Fresh == {i \in 1..csc.mails : sentAs[i] = NotSent}
Stored(d) == {i \in MailIds : Rec(d, i) # NoMail}

----------------------------------------------------------------------------
(* The mailbox of a device: records in the store, three indexes in memory. *)

Entry(i, r) == [id |-> i, folder |-> r.folder, read |-> r.read, star |-> r.star, root |-> r.m.root]

\* unindex: by the folder and thread the index remembers.
Unindexed(box, ids) ==
  LET old == {e \in box.index : e.id \in ids}
  IN [box EXCEPT !.byFolder = @ \ {<<e.folder, e.id>> : e \in old},
                 !.byThread = @ \ {<<e.root, e.id>> : e \in old},
                 !.index = @ \ old]

Put(box, i, r) ==
  LET b == Unindexed(box, {i})
  IN [b EXCEPT !.store[i] = r, !.byFolder = @ \cup {<<r.folder, i>>},
               !.byThread = @ \cup {<<r.m.root, i>>}, !.index = @ \cup {Entry(i, r)}]

RemoveMail(box, i) == [Unindexed(box, {i}) EXCEPT !.store[i] = NoMail]

\* MailState::load and index_record
LoadBox(box) ==
  LET ids == {i \in MailIds : box.store[i] # NoMail}
  IN [box EXCEPT !.byFolder = {<<box.store[i].folder, i>> : i \in ids},
                 !.byThread = {<<box.store[i].m.root, i>> : i \in ids},
                 !.index = {Entry(i, box.store[i]) : i \in ids}]

\* What the pages show.
ListOf(d, f) == {i \in MailIds : <<f, i>> \in mails[d].byFolder /\ Rec(d, i) # NoMail}
CountOf(d, f) == Cardinality({e \in mails[d].index : e.folder = f})
ThreadOf(d, t) ==
  {i \in MailIds : <<t, i>> \in mails[d].byThread /\ Rec(d, i).folder \notin {"trash", "spam", "none"}}
StarredOf(d) == {e.id : e \in {x \in mails[d].index : x.star}}

----------------------------------------------------------------------------
(* Drafts and sending.                                                     *)

\* reply_recipients, reply_all_recipients
ReplyTo(m) == {m.from}
\* Plausible bug: reply-all from a Bcc copy goes to everyone in it.
ReplyAllBlind(m, me) == {m.from} \cup (m.to \ {me})
ReplyAllTo(m, me) == IF m.copy THEN ReplyTo(m) ELSE {m.from} \cup (m.to \ {me})

\* mail_draft_new, mail_draft_save: a new message to the accounts the user
\* typed, which the scenario gives.
DraftNew(d, l) ==
  /\ l.by = d /\ ~draft[d].on /\ Fresh # {}
  /\ draft' = [draft EXCEPT ![d] = [on |-> TRUE, to |-> l.to, bcc |-> l.bcc, re |-> 0]]
  /\ UNCHANGED <<mails, hint, mpost, sentAs, told, filed, opened>>

\* mail_draft_new with reply_to; the user leaves the recipients as they are.
DraftReply(d, i, all) ==
  /\ Doing("reply") /\ ~draft[d].on /\ Fresh # {} /\ i \in Stored(d)
  /\ draft' = [draft EXCEPT ![d] =
       [on |-> TRUE, bcc |-> {}, re |-> i,
        to |-> IF all THEN ReplyAllTo(Rec(d, i).m, DevOwner[d]) ELSE ReplyTo(Rec(d, i).m)]]
  /\ UNCHANGED <<mails, hint, mpost, sentAs, told, filed, opened>>

DraftDelete(d) ==
  /\ Doing("draft") /\ draft[d].on
  /\ draft' = [draft EXCEPT ![d] = NoDraft]
  /\ UNCHANGED <<mails, hint, mpost, sentAs, told, filed, opened>>

\* build_all: the message of the visible recipients and one copy for each
\* hidden one; a message without visible recipients shows its sender.
MainOf(d, i, dr) ==
  [id |-> i, re |-> dr.re, from |-> DevOwner[d], copy |-> FALSE,
   root |-> IF dr.re \in Stored(d) THEN Rec(d, dr.re).m.root ELSE i,
   to |-> IF dr.to = {} THEN {DevOwner[d]} ELSE dr.to]
CopyOf(m) == [m EXCEPT !.copy = TRUE]

GroupOf(d, as) == {DevOwner[d]} \cup as
ReachedBy(d, grp) == {x \in csc.devs \ {d} : DevOwner[x] \in grp}
Envelope(kind, d, grp, m) == [kind |-> kind, from |-> DevOwner[d], grp |-> grp, m |-> m, hint |-> NoHint]

\* Who can learn from a message in grp that its sender knows of message i.
Learns(d, grp, i) == {[to |-> a, by |-> DevOwner[d], id |-> i] : a \in grp \ {DevOwner[d]}}

\* record_outgoing: the device's own copy.
SentCopy(d, m, grp) == [NoMail EXCEPT !.folder = "sent", !.m = [m EXCEPT !.copy = FALSE],
                                      !.read = TRUE, !.out = TRUE, !.grp = grp]

\* send_built: each copy is sent or fails on its own; the Sent copy is the
\* main one, or a hidden copy that went out.
SendBuilt(d, i, dr) ==
  LET m == MainOf(d, i, dr)
      main == IF dr.to = {} THEN {} ELSE {[grp |-> GroupOf(d, dr.to), m |-> m]}
      copies == {[grp |-> GroupOf(d, {a}), m |-> CopyOf(m)] : a \in dr.bcc}
  IN \E lost \in SUBSET (main \cup copies) :
       LET gone == (main \cup copies) \ lost
           ours == IF main \ lost # {} THEN main ELSE copies \ lost
       IN /\ cfaults' = cfaults + Cardinality(lost) /\ cfaults' <= csc.faults
          /\ mpost' = [x \in Devs |-> mpost[x] \cup
               {Envelope("mail", d, c.grp, c.m) : c \in {g \in gone : x \in ReachedBy(d, g.grp)}}]
          /\ told' = IF dr.re = 0 THEN told
                     ELSE told \cup UNION {Learns(d, c.grp, dr.re) : c \in gone}
          /\ IF gone = {} THEN UNCHANGED <<mails, draft>>
             ELSE /\ draft' = [draft EXCEPT ![d] = NoDraft]
                  /\ \E c \in ours : mails' = [mails EXCEPT ![d] = Put(@, i, SentCopy(d, c.m, c.grp))]

\* mail_send: every attempt is a new message; the draft stays until a copy
\* of it is out.
MailSend(d) ==
  /\ draft[d].on /\ Fresh # {}
  /\ LET dr == draft[d]
         i == CHOOSE x \in Fresh : \A y \in Fresh : x <= y
     IN /\ sentAs' = [sentAs EXCEPT ![i] = [from |-> DevOwner[d], to |-> dr.to, bcc |-> dr.bcc]]
        /\ SendBuilt(d, i, dr)
  /\ UNCHANGED <<hint, filed, opened>>

----------------------------------------------------------------------------
(* Receiving.                                                              *)

\* previously_written_to
WroteTo(d, a) == \E i \in ListOf(d, "sent") : a \in Rec(d, i).m.to

\* dispose: what the policy allows for a sender.
Dispose(facts, wrote) ==
  IF facts.blocked THEN {"drop"}
  ELSE IF facts.contact \/ facts.trusted THEN {"inbox"}
  ELSE IF wrote /\ ~facts.muted THEN {"inbox"}
  ELSE {"requests", "spam"}

\* A receipt into the message's group, beside what else is in the mail; if
\* it cannot be sent nothing happens.
Receipt(d, kind, r, post) ==
  \/ /\ mpost' = [x \in Devs |-> IF x \in ReachedBy(d, r.grp)
                                 THEN post[x] \cup {Envelope(kind, d, r.grp, r.m)} ELSE post[x]]
     /\ told' = told \cup Learns(d, r.grp, r.m.id)
     /\ UNCHANGED cfaults
  \/ /\ cfaults < csc.faults /\ cfaults' = cfaults + 1
     /\ mpost' = post /\ UNCHANGED told

\* The folders whose mail is confirmed to the sender.
Confirms(folder) == folder # "spam"

FiledAs(e, folder) == [NoMail EXCEPT !.folder = folder, !.m = e.m, !.grp = e.grp]
Taken(d, e) == [mpost EXCEPT ![d] = @ \ {e}]

\* receive_mail: known ids are dropped, our own mail from another device is
\* filed as sent, the rest by the policy; a receipt unless it is spam.
ReceiveMail(d, e) ==
  /\ e.kind = "mail"
  /\ \E f \in IF e.m.id \in Stored(d) THEN {"known"}
              ELSE IF e.from = DevOwner[d] THEN {"sent"}
              ELSE Dispose(SenderFacts(book[d], e.from), WroteTo(d, e.from)) :
       /\ mails' = CASE f \in {"known", "drop"} -> mails
                     [] f = "sent" -> [mails EXCEPT ![d] = Put(@, e.m.id,
                                          [SentCopy(d, e.m, e.grp) EXCEPT !.m = e.m])]
                     [] OTHER -> [mails EXCEPT ![d] = Put(@, e.m.id, FiledAs(e, f))]
       /\ filed' = IF f \in {"inbox", "requests"} THEN filed \cup {<<DevOwner[d], e.m.id>>} ELSE filed
       /\ IF f \in {"known", "drop", "sent"} \/ ~Confirms(f)
          THEN mpost' = Taken(d, e) /\ UNCHANGED <<told, cfaults>>
          ELSE Receipt(d, "delivered", FiledAs(e, f), Taken(d, e))
  /\ UNCHANGED <<hint, draft, sentAs, opened>>

\* receive_receipt: only for a message of ours that is still here.
ReceiveReceipt(d, e) ==
  /\ e.kind \in {"delivered", "opened"}
  /\ mpost' = Taken(d, e)
  /\ mails' = IF Rec(d, e.m.id).out
              THEN [mails EXCEPT ![d] = Put(@, e.m.id,
                     IF e.kind = "delivered"
                     THEN [Rec(d, e.m.id) EXCEPT !.delivered = @ \cup {e.from}]
                     ELSE [Rec(d, e.m.id) EXCEPT !.readby = @ \cup {e.from}])]
              ELSE mails
  /\ UNCHANGED <<hint, draft, sentAs, told, filed, opened, cfaults>>

\* apply_state_hint: the seven lists in their order; ids that are not here
\* are skipped.  What is put for one message touches no other, so all are
\* put at once.
HintedRecord(h, i, r) ==
  [r EXCEPT !.read = IF i \in h.unread THEN FALSE ELSE @ \/ i \in h.read,
            !.folder = IF i \in h.trashed THEN "trash" ELSE IF i \in h.archived THEN "archive" ELSE @,
            !.star = IF i \in h.unstarred THEN FALSE ELSE @ \/ i \in h.starred]
ApplyHint(box, h) ==
  LET here == {i \in MailIds : box.store[i] # NoMail}
      left == here \ h.deleted
      rec(i) == HintedRecord(h, i, box.store[i])
      b == Unindexed(box, here)
  IN [store    |-> [i \in MailIds |-> IF i \in left THEN rec(i) ELSE NoMail],
      byFolder |-> b.byFolder \cup {<<rec(i).folder, i>> : i \in left},
      byThread |-> b.byThread \cup {<<rec(i).m.root, i>> : i \in left},
      index    |-> b.index \cup {Entry(i, rec(i)) : i \in left}]

\* Devices::handle_incoming, MailState
ReceiveHint(d, e) ==
  /\ e.kind = "hint"
  /\ mpost' = Taken(d, e)
  /\ mails' = [mails EXCEPT ![d] = ApplyHint(@, e.hint)]
  /\ UNCHANGED <<hint, draft, sentAs, told, filed, opened, cfaults>>

----------------------------------------------------------------------------
(* Flags and folders.                                                      *)

\* set_flag: the record, and the hint of what was done.
SetMail(d, i, r, list) ==
  /\ mails' = [mails EXCEPT ![d] = Put(@, i, r)]
  /\ hint' = IF list = "none" THEN hint ELSE [hint EXCEPT ![d][list] = @ \cup {i}]

\* mark_read: a receipt the first time, if it was asked for (every message
\* here asks) and the device's settings allow it.
MarkRead(d, i, on) ==
  /\ Doing("read") /\ i \in Stored(d)
  /\ SetMail(d, i, [Rec(d, i) EXCEPT !.read = on], IF on THEN "read" ELSE "unread")
  /\ opened' = IF on /\ d \in csc.receipts THEN opened \cup {<<DevOwner[d], i>>} ELSE opened
  /\ IF on /\ ~Rec(d, i).read /\ ~Rec(d, i).out /\ d \in csc.receipts
     THEN Receipt(d, "opened", Rec(d, i), mpost)
     ELSE UNCHANGED <<mpost, told, cfaults>>
  /\ UNCHANGED <<draft, sentAs, filed>>

StarMail(d, i, on) ==
  /\ Doing("star") /\ i \in Stored(d) /\ Rec(d, i).star # on
  /\ SetMail(d, i, [Rec(d, i) EXCEPT !.star = on], IF on THEN "starred" ELSE "unstarred")
  /\ UNCHANGED <<draft, mpost, sentAs, told, filed, opened, cfaults>>

\* move_to, archive, accept_request: only Archive and Trash have a hint.
MoveTo(d, i, f) ==
  /\ Doing("move") /\ i \in Stored(d) /\ Rec(d, i).folder # f
  /\ SetMail(d, i, [Rec(d, i) EXCEPT !.folder = f],
             CASE f = "archive" -> "archived" [] f = "trash" -> "trashed" [] OTHER -> "none")
  /\ UNCHANGED <<draft, mpost, sentAs, told, filed, opened, cfaults>>

\* delete, and trash of what is in the trash already.
DeleteMail(d, i) ==
  /\ Doing("delete") /\ i \in Stored(d)
  /\ mails' = [mails EXCEPT ![d] = RemoveMail(@, i)]
  /\ hint' = [hint EXCEPT ![d].deleted = @ \cup {i}]
  /\ UNCHANGED <<draft, mpost, sentAs, told, filed, opened, cfaults>>

\* purge: trash and spam past their time; no hint.
Purge(d, i) ==
  /\ Doing("purge") /\ i \in ListOf(d, "trash") \cup ListOf(d, "spam")
  /\ mails' = [mails EXCEPT ![d] = RemoveMail(@, i)]
  /\ UNCHANGED <<hint, draft, mpost, sentAs, told, filed, opened, cfaults>>

\* take_pending_hint and the outbox stage: the hint is taken, and sent or
\* lost.
SendHint(d) ==
  /\ hint[d] # NoHint
  /\ hint' = [hint EXCEPT ![d] = NoHint]
  /\ \/ /\ mpost' = [x \in Devs |-> IF x \in ReachedBy(d, {DevOwner[d]})
              THEN mpost[x] \cup {[Envelope("hint", d, {DevOwner[d]}, NoMail.m) EXCEPT !.hint = hint[d]]}
              ELSE mpost[x]]
        /\ UNCHANGED cfaults
     \/ cfaults < csc.faults /\ cfaults' = cfaults + 1 /\ UNCHANGED mpost
  /\ UNCHANGED <<mails, draft, sentAs, told, filed, opened>>

\* A restart rebuilds the indexes; the pending hint was in memory only.
RestartMail(d) ==
  /\ Doing("mail_restart") /\ (hint[d] # NoHint)
  /\ mails' = [mails EXCEPT ![d] = LoadBox(@)]
  /\ hint' = [hint EXCEPT ![d] = NoHint]
  /\ UNCHANGED <<draft, mpost, sentAs, told, filed, opened, cfaults>>

\* What the user does, as often as the scenario's steps allow, and what
\* happens by itself.
UserMail(d) ==
  /\ Tick
  /\ \/ \E l \in csc.letters : DraftNew(d, l) /\ UNCHANGED cfaults
     \/ \E i \in MailIds, on \in BOOLEAN :
          \/ DraftReply(d, i, on) /\ UNCHANGED cfaults
          \/ MarkRead(d, i, on) \/ StarMail(d, i, on)
     \/ DraftDelete(d) /\ UNCHANGED cfaults
     \/ \E i \in MailIds : DeleteMail(d, i)
     \/ \E i \in MailIds, f \in {"inbox", "archive", "trash"} : MoveTo(d, i, f)
MailRound(d) ==
  /\ UNCHANGED clock
  /\ \/ MailSend(d)
     \/ \E e \in mpost[d] : ReceiveMail(d, e) \/ ReceiveReceipt(d, e) \/ ReceiveHint(d, e)
     \/ \E i \in MailIds : Purge(d, i)
     \/ SendHint(d) \/ RestartMail(d)

MailNext ==
  /\ \E d \in csc.devs : UserMail(d) \/ MailRound(d)
  /\ UNCHANGED <<csc, book, kept, unsent, inbox, wish>>

----------------------------------------------------------------------------
(* Properties.                                                             *)

(* No visible recipient of a message can learn that a hidden one has it:   *)
(* neither receipts of the hidden recipient, nor its replies or replies to *)
(* all, reach a group with a visible recipient other than the sender.      *)
(* (mail.rs build_all, reply_all_recipients, receive_mail)                 *)
BccStaysHidden ==
  \A x \in told :
    LET s == sentAs[x.id]
    IN x.by \in s.bcc \ (s.to \cup {s.from}) => x.to \notin s.to \ {s.from}

(* A receipt tells the truth: the sender sees a message as delivered to an *)
(* account only if a device of it filed it and did not take it for spam,   *)
(* and as read only if someone opened it on a device that sends read       *)
(* receipts -- not because a flag was copied between devices.  (sdk        *)
(* mail.rs receive_mail, mark_read, apply_state_hint)                      *)
ReceiptsAreTrue ==
  \A d \in Devs : \A i \in Stored(d) :
    /\ \A a \in Rec(d, i).delivered : <<a, i>> \in filed
    /\ \A a \in Rec(d, i).readby : <<a, i>> \in opened

(* The pages agree with the store, whatever was moved, hinted, deleted or  *)
(* reloaded: every stored message is listed in its folder and in no other, *)
(* the counters count what is listed, a thread shows its messages but for  *)
(* trash and spam, and the stars are the stored ones.  (sdk mail.rs put,   *)
(* remove, index_record, list, counts, thread, starred)                    *)
MailPagesAgree ==
  \A d \in Devs :
    /\ \A f \in {"inbox", "sent", "archive", "trash", "spam", "requests"} :
         /\ ListOf(d, f) = {i \in Stored(d) : Rec(d, i).folder = f}
         /\ CountOf(d, f) = Cardinality(ListOf(d, f))
    /\ \A t \in MailIds : ThreadOf(d, t) =
         {i \in Stored(d) : Rec(d, i).m.root = t /\ Rec(d, i).folder \notin {"trash", "spam"}}
    /\ StarredOf(d) = {i \in Stored(d) : Rec(d, i).star}

\* A message, its receipts and its flags mean the same to everyone it concerns.
MailAgrees == BccStaysHidden /\ ReceiptsAreTrue /\ MailPagesAgree
=============================================================================
