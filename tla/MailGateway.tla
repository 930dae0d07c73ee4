---------------------------- MODULE MailGateway ----------------------------
(***************************************************************************)
(* The mail gateway (services/mail-gateway): SMTP connections from the     *)
(* Internet that queue inbound mail, and one bridge worker that runs in    *)
(* rounds: deliver the inbound queue into HashMail, scan the bridge's      *)
(* mailbox for mail to relay, deliver the outbound queue to remote mail    *)
(* servers.  The queue, the two logs, the thread map and the cursor are in *)
(* SQLite and survive a crash; connections, the round in progress and the  *)
(* render attempts do not.  Every SQL statement is its own transaction, so *)
(* a crash can come between any two.                                       *)
(***************************************************************************)
EXTENDS SmtpSession, Integers, Sequences, FiniteSetsExt

CONSTANTS
    Mails,        \* Internet messages, each with its own Message-ID
    Users,        \* local usernames
    Wants,        \* Mails -> SUBSET Users: whom the sender addressed
    Refs,         \* Mails -> Seq(ids): the References of a message, root first
    Natives,      \* native messages to the bridge that ask to be relayed
    At,           \* Natives -> Nat \ {0}: received_at_ms
    ExtRcpts,     \* Natives -> SUBSET addresses
    DomainOf,     \* address -> domain
    Conns,        \* SMTP connections
    MaxAttempts,  \* outbound.max_attempts, for both queues
    MaxHosts,     \* mail hosts tried in one attempt (5 in the code)
    MaxRender,    \* MAX_RENDER_ATTEMPTS
    MaxConnects,  \* bound: connections the Internet opens
    MaxFaults     \* bound: crashes, failed SQL statements and lost replies

ASSUME GatewayAssumption ==
    /\ MaxErrors \in Nat \ {0} /\ MaxRecipients \in Nat \ {0}
    /\ MaxAttempts \in Nat \ {0} /\ MaxHosts \in Nat \ {0} /\ MaxRender \in Nat \ {0}
    /\ NoMessage \notin Mails /\ Wants \in [Mails -> SUBSET Users]
    /\ At \in [Natives -> Nat \ {0}] /\ ExtRcpts \in [Natives -> SUBSET DOMAIN DomainOf]

VARIABLES
    conn,      \* session of each connection, with the step of accept_message
    owed,      \* what the sending servers still have to hand over
    connects,  \* connections opened so far
    inQueue,   \* inbound jobs: the queue table, kind inbound
    inLog,     \* the inbound table: status of each logged (mail, user)
    thread,    \* the thread_map table: thread of each known id
    coming,    \* native messages on their way to the bridge
    filedNatives,     \* native messages filed in the bridge's mailbox
    cursor,    \* the scan cursor
    outQueue,  \* outbound jobs
    outLog,    \* the outbound table: status of each native message
    render,    \* render_attempts, in memory
    worker,    \* the round in progress
    faults,    \* faults that happened
    answered,  \* ghost: (mail, user) pairs the sender was told 250 for
    handled,   \* ghost: (mail, user) pairs delivered into HashMail, or given up
    relayed,   \* ghost: copies each (native, address) was relayed
    bounced,      \* ghost: (native, domain) pairs whose sender handled a bounce
    hurt,      \* ghost: native messages a fault hit while they were processed
    again      \* ghost: (native, domain) pairs a fault hit after they were relayed

smtpVars == <<conn, owed, connects, answered>>
inVars   == <<inQueue, inLog, thread, handled>>
outVars  == <<coming, filedNatives, cursor, outQueue, outLog, render, relayed, bounced, hurt, again>>
gatewayVars     == <<smtpVars, inVars, outVars, worker, faults>>

Domains   == {DomainOf[a] : a \in UNION {ExtRcpts[n] : n \in Natives}}
DomainsOf(n) == {DomainOf[a] : a \in ExtRcpts[n]}
RcptsAt(n, d) == {a \in ExtRcpts[n] : DomainOf[a] = d}
Pairs     == {p \in Mails \X Users : p[2] \in Wants[p[1]]}
Copies    == {p \in Natives \X DOMAIN DomainOf : p[2] \in ExtRcpts[p[1]]}
NoStatus  == "none"
NoRound      == [stage |-> "idle", todo |-> {}, res |-> "none", left |-> {},
              cur |-> 0, hosts |-> 0]

\* A load: the mail offered, the native mail filed, and how much of the
\* bounds on connections and faults is spent already.
GatewayInit(loads) ==
    /\ conn = [c \in Conns |-> Hangup]
    /\ \E l \in loads :
         /\ owed = {p \in Pairs : p[1] \in l.mails} /\ coming = l.natives
         /\ connects = l.connects /\ faults = l.faults
    /\ inQueue = {} /\ inLog = <<>> /\ thread = <<>>
    /\ filedNatives = {} /\ cursor = 0 /\ outQueue = {} /\ outLog = <<>> /\ render = <<>>
    /\ worker = NoRound
    /\ answered = {} /\ handled = {} /\ bounced = {} /\ hurt = {} /\ again = {}
    /\ relayed = [p \in Copies |-> 0]

(* The references of a message begin where those of its parent do: what a  *)
(* mail program sends, and what no gateway can enforce.                    *)
Root(m) == IF Refs[m] = <<>> THEN m ELSE Refs[m][1]
RefsAgree ==
  \A m \in Mails : Refs[m] # <<>> =>
    \A k \in {Refs[m][1], Refs[m][Len(Refs[m])]} \cap Mails : Root(k) = Root(m)

(* Native mail that is never sent is not older than mail that is.          *)
Loads(loads) ==
  \A l \in loads : /\ l.natives \subseteq Natives
                   /\ \A x \in l.natives, y \in Natives \ l.natives : At[x] < At[y]

Get(f, k, default) == IF k \in DOMAIN f THEN f[k] ELSE default
Set(f, k, v) == [x \in DOMAIN f \cup {k} |-> IF x = k THEN v ELSE f[x]]

----------------------------------------------------------------------------
(* The SMTP listener.                                                      *)

(* serve_listener: a connection is taken while the sender has mail left.   *)
Connect(c) ==
    /\ conn[c].phase = "Closed" /\ connects < MaxConnects /\ owed # {}
    /\ conn' = [conn EXCEPT ![c] = NewSession]
    /\ connects' = connects + 1
    /\ UNCHANGED <<owed, answered, inVars, outVars, worker, faults>>

Step(c, s) ==
    /\ conn[c].phase \notin {"Closed", "Message", "Logging"}
    /\ conn' = [conn EXCEPT ![c] = s]
    /\ UNCHANGED <<owed, connects, answered, inVars, outVars, worker, faults>>

Greet(c) == conn[c].phase \notin {"Ready", "Data"} /\ Step(c, Helo(conn[c]))

Reset(c) == conn[c].phase \in {"Mail", "Rcpt"} /\ Step(c, Rset(conn[c]))

StartMail(c) ==
    \E m \in {p[1] : p \in owed} :
        conn[c].phase \in {"Connected", "Ready", "Mail"} /\ Step(c, MailFrom(conn[c], m))

(* resolve_username, and what check_recipient makes of it: an unknown user *)
(* is refused for good, a failed lookup only for now.  The cache changes   *)
(* how old an answer may be, not which answers there are.                  *)
Lookups == {"accept", "reject", "later"}

(* check_recipient: the sender forgets a recipient that was refused for    *)
(* good and keeps one refused for now.                                     *)
Recipient(c) ==
    /\ conn[c].phase \in {"Mail", "Rcpt"}
    /\ \E u \in Wants[conn[c].mail] \ conn[c].rcpts :
        /\ <<conn[c].mail, u>> \in owed
        /\ IF RcptIsAsked(conn[c])
           THEN \E verdict \in Lookups :
                    /\ conn' = [conn EXCEPT ![c] = RecipientVerdict(conn[c], u, verdict)]
                    /\ owed' = IF verdict = "reject"
                               THEN owed \ {<<conn[c].mail, u>>} ELSE owed
           ELSE conn' = [conn EXCEPT ![c] = Error(conn[c])] /\ owed' = owed
    /\ UNCHANGED <<connects, answered, inVars, outVars, worker, faults>>

Data(c) == conn[c].phase \in {"Mail", "Rcpt"} /\ Step(c, DataCmd(conn[c]))

BigLine(c) ==
    conn[c].phase = "Data" /\ ~conn[c].oversize /\ Step(c, OversizeLine(conn[c]))

EndOfData(c) ==
    /\ conn[c].phase = "Data"
    /\ conn' = [conn EXCEPT ![c] = Dot(conn[c])]
    /\ UNCHANGED <<owed, connects, answered, inVars, outVars, worker, faults>>

(* QUIT, an idle timeout or a lost connection.                             *)
Disconnect(c) ==
    /\ conn[c].phase \notin {"Closed", "Logging"}
    /\ conn' = [conn EXCEPT ![c] = Hangup]
    /\ UNCHANGED <<owed, connects, answered, inVars, outVars, worker, faults>>

(* Mutant: with no thread known, the parent stands for the root.           *)
MutThreadFor(m) ==
    IF Refs[m] = <<>> THEN m ELSE Get(thread, Refs[m][Len(Refs[m])], Refs[m][Len(Refs[m])])

(* The thread of a message: its parent's, else its root reference's, else  *)
(* the root reference itself, else its own.                                *)
ThreadFor(m) ==
    LET refs == Refs[m] IN
    IF refs = <<>> THEN m
    ELSE Get(thread, refs[Len(refs)], Get(thread, refs[1], refs[1]))

(* map_thread: INSERT OR IGNORE.                                           *)
MapThread(m) == thread' = IF m \in DOMAIN thread THEN thread ELSE Set(thread, m, ThreadFor(m))

(* inbound_seen: some row of this message that is not a rejection.         *)
InboundSeen(m) == \E u \in Users : <<m, u>> \in DOMAIN inLog

(* What the checks before the store say of a message: the rate of its      *)
(* source, its MIME structure, the policy on its authentication results    *)
(* and spam score.  Only the first refuses for now.                        *)
RateVerdicts   == {"ok", "later"}
ParseVerdicts  == {"ok", "reject"}
PolicyVerdicts == {"ok", "reject"}

(* accept_message, refused: by the rate or a store error for now, by the   *)
(* parser or the policy for good.                                          *)
RefuseMessage(c) ==
    /\ conn[c].phase = "Message"
    /\ \E why \in (RateVerdicts \cup ParseVerdicts \cup PolicyVerdicts) \ {"ok"} :
        owed' = IF why = "later" THEN owed
                ELSE owed \ {<<conn[c].mail, u>> : u \in conn[c].rcpts}
    /\ conn' = [conn EXCEPT ![c] = MessageVerdict(conn[c])]
    /\ UNCHANGED <<connects, answered, inVars, outVars, worker, faults>>

(* The sender is told 250 and forgets the recipients of the transaction.   *)
Accepted(c) ==
    LET own == {<<conn[c].mail, u>> : u \in conn[c].rcpts} IN
    /\ owed' = owed \ own
    /\ answered' = answered \cup own
    /\ conn' = [conn EXCEPT ![c] = MessageVerdict(conn[c])]

(* accept_message of a message that is logged already: accepted, whoever   *)
(* the recipients of this transaction are.                                 *)
AcceptDuplicate(c) ==
    /\ conn[c].phase = "Message" /\ InboundSeen(conn[c].mail)
    /\ MapThread(conn[c].mail)
    /\ Accepted(c)
    /\ UNCHANGED <<connects, inQueue, inLog, handled, outVars, worker, faults>>

(* enqueue: a row of the queue table, which holds both kinds of jobs; its  *)
(* row id is one more than the greatest in the table.                      *)
RowId == 1 + Max({0} \cup {j.id : j \in inQueue \cup outQueue})
NewInJob(m, rcpts) ==
    [id |-> RowId, mail |-> m, rcpts |-> rcpts, attempts |-> 0, due |-> TRUE]

(* The store fails once the thread is known: told to come back.            *)
StoreFails(c) ==
    /\ conn[c].phase = "Message" /\ faults < MaxFaults
    /\ faults' = faults + 1
    /\ MapThread(conn[c].mail)
    /\ conn' = [conn EXCEPT ![c] = MessageVerdict(conn[c])]
    /\ UNCHANGED <<owed, connects, answered, inQueue, inLog, handled, outVars, worker>>

(* accept_message of a new message: first the job, then one row per        *)
(* recipient.                                                              *)
Enqueue(c) ==
    /\ conn[c].phase = "Message" /\ ~InboundSeen(conn[c].mail)
    /\ MapThread(conn[c].mail)
    /\ inQueue' = inQueue \cup {NewInJob(conn[c].mail, conn[c].rcpts)}
    /\ conn' = [conn EXCEPT ![c].phase = "Logging"]
    /\ UNCHANGED <<owed, connects, answered, inLog, handled, outVars, worker, faults>>

LogRows(m, rcpts) ==
    LET rows == {<<m, u>> : u \in rcpts} IN
    [p \in DOMAIN inLog \cup rows |-> IF p \in rows THEN "queued" ELSE inLog[p]]

LogAndAccept(c) ==
    /\ conn[c].phase = "Logging"
    /\ inLog' = LogRows(conn[c].mail, conn[c].rcpts)
    /\ Accepted(c)
    /\ UNCHANGED <<connects, inQueue, thread, handled, outVars, worker, faults>>

(* The row cannot be written: the sender is told to come back, the job     *)
(* stays.                                                                  *)
LogFails(c) ==
    /\ conn[c].phase = "Logging" /\ faults < MaxFaults
    /\ faults' = faults + 1
    /\ \E some \in SUBSET conn[c].rcpts :
        some # conn[c].rcpts /\ inLog' = LogRows(conn[c].mail, some)
    /\ conn' = [conn EXCEPT ![c] = MessageVerdict(conn[c])]
    /\ UNCHANGED <<owed, connects, answered, inQueue, thread, handled, outVars, worker>>

----------------------------------------------------------------------------
(* The bridge worker.                                                      *)

(* round, step 1: the sync files native mail, in the order of its time;    *)
(* a failed sync files nothing and the round goes on.                      *)
StartRound ==
    /\ worker.stage = "idle"
    /\ \E new \in SUBSET coming :
        /\ \A x \in new, y \in coming \ new : At[x] < At[y]
        /\ filedNatives' = filedNatives \cup new /\ coming' = coming \ new
        /\ new # {} \/ inQueue # {} \/ outQueue # {} \/ \E n \in filedNatives : At[n] > cursor
    /\ worker' = [NoRound EXCEPT !.stage = "inbound", !.todo = {j.id : j \in {i \in inQueue : i.due}}]
    /\ UNCHANGED <<smtpVars, inVars, cursor, outQueue, outLog, render, relayed, bounced, hurt, again, faults>>

(* due: the jobs of a round are taken one by one, in the order of their    *)
(* ids (among rows that are due; the code looks at the time first).        *)
IsNext(j, queue) ==
    j.id \in worker.todo /\ \A i \in queue : i.id \in worker.todo => j.id <= i.id
InJob == CHOOSE j \in inQueue : IsNext(j, inQueue)

(* try_deliver_inbound: recipients that vanished are skipped, none left is *)
(* permanent, a failed lookup, upload or send is transient (and may have   *)
(* reached some recipients).                                               *)
DeliverInbound ==
    /\ worker.stage = "inbound" /\ \E j \in inQueue : j.id \in worker.todo
    /\ \E res \in {"ok", "permanent", "transient"}, some \in SUBSET InJob.rcpts :
        /\ res = "ok" => some = InJob.rcpts
        /\ res = "permanent" => some = {}
        /\ handled' = handled \cup {<<InJob.mail, u>> : u \in some}
        /\ worker' = [worker EXCEPT !.stage = "inSettle", !.res = res]
    /\ UNCHANGED <<smtpVars, inQueue, inLog, thread, outVars, faults>>

(* set_inbound_status: every row of the message.                           *)
SetInboundStatus(m, status) ==
    [p \in DOMAIN inLog |-> IF p[1] = m THEN status ELSE inLog[p]]

Rescheduled(j) == [j EXCEPT !.attempts = @ + 1, !.due = FALSE]

(* The three ways an inbound attempt ends (deliver_inbound).               *)
InboundSettled(j) ==
    LET retry == worker.res = "transient" /\ j.attempts + 1 < MaxAttempts IN
    /\ inQueue' = (inQueue \ {j}) \cup (IF retry THEN {Rescheduled(j)} ELSE {})
    /\ inLog' = IF retry THEN inLog
                ELSE SetInboundStatus(j.mail, IF worker.res = "ok" THEN "delivered" ELSE "failed")
    /\ handled' = IF retry THEN handled ELSE handled \cup {<<j.mail, u>> : u \in j.rcpts}

NextIn == worker' = [worker EXCEPT !.stage = "inbound", !.res = "none", !.todo = @ \ {InJob.id}]

SettleInbound ==
    /\ worker.stage = "inSettle"
    /\ InboundSettled(InJob)
    /\ NextIn
    /\ UNCHANGED <<smtpVars, thread, outVars, faults>>

(* The queue row cannot be removed or rescheduled; the error is ignored.   *)
SettleInboundFails ==
    /\ worker.stage = "inSettle" /\ faults < MaxFaults
    /\ faults' = faults + 1
    /\ NextIn
    /\ UNCHANGED <<smtpVars, inVars, outVars>>

(* scan_inbox: everything newer than the cursor, oldest first.             *)
StartScan ==
    /\ worker.stage = "inbound" /\ \A j \in inQueue : j.id \notin worker.todo
    /\ worker' = [worker EXCEPT !.stage = "scan", !.cur = cursor,
                                !.todo = {n \in filedNatives : At[n] > cursor}]
    /\ UNCHANGED <<smtpVars, inVars, outVars, faults>>

Scanned == CHOOSE n \in worker.todo : \A k \in worker.todo : At[n] <= At[k]
Advance(n) == [worker EXCEPT !.stage = "scan", !.todo = @ \ {n}, !.cur = At[n]]
Bounce(n, ds) == bounced' = bounced \cup ({n} \X ds)

(* process_native of a message that is logged already.                     *)
SkipSeen ==
    /\ worker.stage = "scan" /\ worker.todo # {} /\ Scanned \in DOMAIN outLog
    /\ worker' = Advance(Scanned)
    /\ UNCHANGED <<smtpVars, inVars, outVars, faults>>

NewNative == worker.stage = "scan" /\ worker.todo # {} /\ Scanned \notin DOMAIN outLog

(* Not a contact, no username, no valid recipient, over the rate or too    *)
(* large: bounce, then log.                                                *)
RefuseNative ==
    /\ NewNative
    /\ Bounce(Scanned, DomainsOf(Scanned))
    /\ outLog' = Set(outLog, Scanned, "rejected")
    /\ worker' = Advance(Scanned)
    /\ UNCHANGED <<smtpVars, inVars, coming, filedNatives, cursor, outQueue, render, relayed, hurt, again, faults>>

(* A network error: the scan stops here and the cursor stays before this   *)
(* message, until it was tried too often.                                  *)
DeferNative ==
    /\ NewNative
    /\ LET n == Scanned
           tries == Get(render, n, 0) + 1 IN
       /\ render' = Set(render, n, tries)
       /\ IF tries >= MaxRender
          THEN /\ Bounce(n, DomainsOf(n))
               /\ outLog' = Set(outLog, n, "failed")
               /\ worker' = Advance(n)
          ELSE /\ worker' = [worker EXCEPT !.stage = "endScan"]
               /\ UNCHANGED <<bounced, outLog>>
    /\ UNCHANGED <<smtpVars, inVars, coming, filedNatives, cursor, outQueue, relayed, hurt, again, faults>>

(* Any other error, of the store for instance, takes the scan past the     *)
(* message, with no bounce.                                                *)
NativeStoreError ==
    /\ NewNative /\ faults < MaxFaults
    /\ faults' = faults + 1 /\ hurt' = hurt \cup {Scanned}
    /\ worker' = Advance(Scanned)
    /\ UNCHANGED <<smtpVars, inVars, coming, filedNatives, cursor, outQueue, outLog, render, relayed, bounced, again>>

(* The message is rendered: the log row first, then one job per domain.    *)
QueueNative ==
    /\ NewNative
    /\ outLog' = Set(outLog, Scanned, "queued")
    /\ worker' = [worker EXCEPT !.stage = "enqueue", !.left = DomainsOf(Scanned)]
    /\ UNCHANGED <<smtpVars, inVars, coming, filedNatives, cursor, outQueue, render, relayed, bounced, hurt, again, faults>>

NewOutJob(n, d) ==
    [id |-> RowId, native |-> n, domain |-> d, attempts |-> 0, due |-> TRUE]

EnqueueDomain ==
    /\ worker.stage = "enqueue" /\ worker.left # {}
    /\ LET d == CHOOSE x \in worker.left : TRUE IN
       /\ outQueue' = outQueue \cup {NewOutJob(Scanned, d)}
       /\ worker' = [worker EXCEPT !.left = @ \ {d}]
    /\ UNCHANGED <<smtpVars, inVars, coming, filedNatives, cursor, outLog, render, relayed, bounced, hurt, again, faults>>

EnqueueFails ==
    /\ worker.stage = "enqueue" /\ worker.left # {} /\ faults < MaxFaults
    /\ faults' = faults + 1 /\ hurt' = hurt \cup {Scanned}
    /\ worker' = [Advance(Scanned) EXCEPT !.left = {}]
    /\ UNCHANGED <<smtpVars, inVars, coming, filedNatives, cursor, outQueue, outLog, render, relayed, bounced, again>>

(* All jobs queued: the message is archived, its render attempts dropped.  *)
NativeQueued ==
    /\ worker.stage = "enqueue" /\ worker.left = {}
    /\ filedNatives' = filedNatives \ {Scanned}
    /\ render' = [n \in DOMAIN render \ {Scanned} |-> render[n]]
    /\ worker' = Advance(Scanned)
    /\ UNCHANGED <<smtpVars, inVars, coming, cursor, outQueue, outLog, relayed, bounced, hurt, again, faults>>

EndScan ==
    /\ worker.stage = "endScan" \/ (worker.stage = "scan" /\ worker.todo = {})
    /\ cursor' = worker.cur
    /\ worker' = [worker EXCEPT !.stage = "outbound",
                                !.todo = {j.id : j \in {i \in outQueue : i.due}}]
    /\ UNCHANGED <<smtpVars, inVars, coming, filedNatives, outQueue, outLog, render, relayed, bounced, hurt, again, faults>>

OutJob == CHOOSE j \in outQueue : IsNext(j, outQueue)
InOutbound(stage) == worker.stage = stage /\ \E j \in outQueue : j.id \in worker.todo

(* smtp/client.rs, transaction: with no recipient accepted the attempt     *)
(* fails, transiently if one of them was; otherwise the final reply        *)
(* decides, and recipients refused for now are in neither list.            *)
Transfer(ans, final) ==
    IF \A a \in DOMAIN ans : ans[a] # "ok"
    THEN IF \E a \in DOMAIN ans : ans[a] = "temp" THEN "transient" ELSE "permanent"
    ELSE IF final # "ok" THEN final
    ELSE IF \E a \in DOMAIN ans : ans[a] = "perm" THEN "partly" ELSE "ok"

Relay(j, res, who) ==
    /\ relayed' = [p \in DOMAIN relayed |->
                     IF p[1] = j.native /\ p[2] \in who THEN relayed[p] + 1 ELSE relayed[p]]
    /\ worker' = IF res = "transient" /\ worker.hosts + 1 < MaxHosts
                 THEN [worker EXCEPT !.hosts = @ + 1]
                 ELSE [worker EXCEPT !.stage = "outSettle", !.res = res]

(* deliver_outbound, one host: the first that takes the message or refuses *)
(* it for good ends the loop.                                              *)
TryHost ==
    /\ InOutbound("outbound")
    /\ \E ans \in [RcptsAt(OutJob.native, OutJob.domain) -> {"ok", "perm", "temp"}],
          final \in {"ok", "permanent", "transient"} :
        LET res == Transfer(ans, final) IN
        Relay(OutJob, res, IF res \in {"ok", "partly"}
                           THEN {a \in DOMAIN ans : ans[a] = "ok"} ELSE {})
    /\ UNCHANGED <<smtpVars, inVars, coming, filedNatives, cursor, outQueue, outLog, render, bounced, hurt, again, faults>>

(* The connection breaks after the message was taken: tried again.         *)
ReplyLost ==
    /\ InOutbound("outbound") /\ faults < MaxFaults
    /\ faults' = faults + 1
    /\ again' = again \cup {<<OutJob.native, OutJob.domain>>}
    /\ Relay(OutJob, "transient", RcptsAt(OutJob.native, OutJob.domain))
    /\ UNCHANGED <<smtpVars, inVars, coming, filedNatives, cursor, outQueue, outLog, render, bounced, hurt>>

(* No host at all: a null MX is permanent, a failed lookup is not.         *)
NoHosts ==
    /\ InOutbound("outbound") /\ worker.hosts = 0
    /\ \E res \in {"permanent", "transient"} :
        worker' = [worker EXCEPT !.stage = "outSettle", !.res = res]
    /\ UNCHANGED <<smtpVars, inVars, outVars, faults>>

NextOut == worker' = [worker EXCEPT !.stage = "outbound", !.res = "none", !.hosts = 0,
                                    !.todo = @ \ {OutJob.id}]

(* The three ways an outbound attempt ends.  The status is of the whole    *)
(* message: the last domain's attempt decides what it reads.               *)
OutboundSettled(j) ==
    LET retry == worker.res = "transient" /\ j.attempts + 1 < MaxAttempts
        ok == worker.res \in {"ok", "partly"} IN
    /\ outQueue' = (outQueue \ {j}) \cup (IF retry THEN {Rescheduled(j)} ELSE {})
    /\ outLog' = [outLog EXCEPT ![j.native] =
                    IF ok THEN "delivered" ELSE IF retry THEN "queued" ELSE "failed"]
    /\ IF worker.res = "ok" \/ retry THEN UNCHANGED bounced ELSE Bounce(j.native, {j.domain})

SettleOutbound ==
    /\ InOutbound("outSettle")
    /\ OutboundSettled(OutJob)
    /\ NextOut
    /\ UNCHANGED <<smtpVars, inVars, coming, filedNatives, cursor, render, relayed, hurt, again, faults>>

SettleOutboundFails ==
    /\ InOutbound("outSettle") /\ faults < MaxFaults
    /\ faults' = faults + 1
    /\ again' = again \cup {<<OutJob.native, OutJob.domain>>}
    /\ NextOut
    /\ UNCHANGED <<smtpVars, inVars, coming, filedNatives, cursor, outQueue, outLog, render, relayed, bounced, hurt>>

EndRound ==
    /\ worker.stage = "outbound" /\ \A j \in outQueue : j.id \notin worker.todo
    /\ worker' = NoRound
    /\ UNCHANGED <<smtpVars, inVars, outVars, faults>>

(* Time passes: what was rescheduled becomes due.                          *)
RetryTick ==
    /\ \E j \in inQueue \cup outQueue : ~j.due
    /\ inQueue' = {[j EXCEPT !.due = TRUE] : j \in inQueue}
    /\ outQueue' = {[j EXCEPT !.due = TRUE] : j \in outQueue}
    /\ UNCHANGED <<smtpVars, inLog, thread, handled, coming, filedNatives, cursor, outLog, render, relayed, bounced, hurt, again, worker, faults>>

(* The gateway stops and starts again on the same database.                *)
Crash ==
    /\ faults < MaxFaults
    /\ faults' = faults + 1
    /\ conn' = [c \in Conns |-> Hangup]
    /\ hurt' = IF worker.stage = "enqueue" THEN hurt \cup {Scanned} ELSE hurt
    /\ again' = IF InOutbound("outSettle")
                THEN again \cup {<<OutJob.native, OutJob.domain>>} ELSE again
    /\ worker' = NoRound /\ render' = <<>>
    /\ UNCHANGED <<owed, connects, answered, inVars, coming, filedNatives, cursor, outQueue, outLog, relayed, bounced>>

Smtp(c) ==
    \/ Connect(c) \/ Greet(c) \/ Reset(c) \/ StartMail(c) \/ Recipient(c) \/ Data(c)
    \/ BigLine(c) \/ EndOfData(c) \/ Disconnect(c)
    \/ RefuseMessage(c) \/ AcceptDuplicate(c) \/ Enqueue(c) \/ LogAndAccept(c)
    \/ StoreFails(c) \/ LogFails(c)

Worker ==
    \/ StartRound \/ DeliverInbound \/ SettleInbound \/ StartScan
    \/ SkipSeen \/ RefuseNative \/ DeferNative \/ QueueNative \/ EnqueueDomain \/ NativeQueued
    \/ EndScan \/ TryHost \/ NoHosts \/ SettleOutbound \/ EndRound

Fault ==
    \/ SettleInboundFails \/ NativeStoreError \/ EnqueueFails
    \/ ReplyLost \/ SettleOutboundFails \/ Crash

GatewayNext == (\E c \in Conns : Smtp(c)) \/ Worker \/ Fault \/ RetryTick

----------------------------------------------------------------------------
(* A message some recipient of which was answered with 250 is queued,      *)
(* delivered or given up after its attempts, whatever crashed and however  *)
(* often the sender came back: the answer is given only after the job is   *)
(* in the queue (accept_message), and the job leaves the queue only after  *)
(* it was sent (deliver_inbound).                                          *)
AcceptedMailIsKept ==
    \A p \in answered :
        \/ \E j \in inQueue : j.mail = p[1]
        \/ \E u \in Users : <<p[1], u>> \in handled

(* A native message the scan has left behind (and that shares its          *)
(* millisecond with no other) has, for every domain it is addressed to, a  *)
(* job in the queue, a relayed copy or a bounce, unless a fault hit it     *)
(* between its log row and its jobs.                                       *)
RelayIsAccountedFor ==
    \A n \in Natives \ (coming \cup hurt) :
        (At[n] <= cursor /\ \A k \in Natives \ {n} : At[k] # At[n]) =>
            \A d \in DomainsOf(n) :
                \/ \E j \in outQueue : j.native = n /\ j.domain = d
                \/ <<n, d>> \in bounced
                \/ \E a \in RcptsAt(n, d) : relayed[<<n, a>>] > 0

(* Messages of one conversation are in one thread in whatever order they   *)
(* arrive: the thread of a message is the root of its references.          *)
ThreadIsTheRoot ==
    \A m \in DOMAIN thread : thread[m] = Root(m)

(* No address gets a second copy unless a fault came between the transfer  *)
(* and its record: restarts and scans over the same message do not send.   *)
RelayedOnce ==
    \A p \in DOMAIN relayed : relayed[p] <= 1 \/ <<p[1], DomainOf[p[2]]>> \in again

(* What the gateway took over stays accounted for, in the right thread, and*)
(* is sent once.                                                           *)
MailIsAccountedFor ==
  AcceptedMailIsKept /\ RelayIsAccountedFor /\ ThreadIsTheRoot /\ RelayedOnce
=============================================================================
