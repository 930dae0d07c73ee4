---------------------------- MODULE SmtpSession ----------------------------
(***************************************************************************)
(* One inbound SMTP connection of the mail gateway                         *)
(* (services/mail-gateway/src/smtp/server.rs): a state machine fed one     *)
(* line at a time.  A session is a record; every operator gives the        *)
(* session after one line.  Addresses are members of a set, the text of a  *)
(* message is not looked at, and a line is either small or too large.      *)
(***************************************************************************)
EXTENDS Naturals, FiniteSets

CONSTANTS
    NoMessage,         \* an empty envelope
    MaxErrors,      \* MAX_ERRORS: consecutive errors before the server hangs up
    MaxRecipients   \* smtp.max_recipients

Phases == {"Closed", "Connected", "Ready", "Mail", "Rcpt", "Data", "Message"}

(* A fresh session: nothing said yet.                                      *)
NewSession ==
    [phase |-> "Connected", mail |-> NoMessage, rcpts |-> {},
     oversize |-> FALSE, errors |-> 0]

Hangup == [NewSession EXCEPT !.phase = "Closed"]

(* reset_transaction: a greeted session stays greeted.                     *)
ResetTransaction(s) ==
    [s EXCEPT !.mail = NoMessage, !.rcpts = {}, !.oversize = FALSE,
              !.phase = IF @ = "Connected" THEN @ ELSE "Ready"]

(* error: a negative answer, and the connection is closed at the limit.    *)
Error(s) ==
    IF s.errors + 1 >= MaxErrors THEN Hangup
    ELSE [s EXCEPT !.errors = @ + 1]

(* A command that was understood clears the count of consecutive errors.   *)
Recovered(s) == [s EXCEPT !.errors = 0]

(* HELO/EHLO is allowed in every phase and abandons the transaction.       *)
Helo(s) == Recovered([ResetTransaction(s) EXCEPT !.phase = "Ready"])

Rset(s) == Recovered(ResetTransaction(s))

(* MAIL FROM is allowed once per transaction.                              *)
MailFrom(s, m) ==
    IF s.phase # "Ready" THEN Error(s)
    ELSE Recovered([s EXCEPT !.mail = m, !.rcpts = {}, !.phase = "Mail"])

(* RCPT TO: whether the recipient is asked about at all.                   *)
RcptIsAsked(s) ==
    /\ s.phase \in {"Mail", "Rcpt"}
    /\ Cardinality(s.rcpts) < MaxRecipients

(* recipient_verdict: only an accepted recipient enters the envelope.      *)
RecipientVerdict(s, r, verdict) ==
    IF verdict = "accept"
    THEN Recovered([s EXCEPT !.rcpts = @ \cup {r}, !.phase = "Rcpt"])
    ELSE Recovered(s)

DataCmd(s) ==
    IF s.phase # "Rcpt" THEN Error(s)
    ELSE Recovered([s EXCEPT !.phase = "Data", !.oversize = FALSE])

(* A line that takes the message over the limit: the rest is read and      *)
(* dropped.                                                                *)
OversizeLine(s) == [s EXCEPT !.oversize = TRUE]

(* The lone dot: an oversize message is refused and the transaction ends;  *)
(* otherwise the message goes to the application.                          *)
Dot(s) ==
    IF s.oversize THEN Error(ResetTransaction(s))
    ELSE [s EXCEPT !.phase = "Message"]

(* message_verdict: the transaction is over either way.                    *)
MessageVerdict(s) == ResetTransaction(s)
=============================================================================
