------------------------------- MODULE Rewards -------------------------------
(***************************************************************************)
(* The rewards agent of a node (node rewards.rs): it registers the node as *)
(* a provider, collects receipts and submits them, answers storage         *)
(* challenges and records assignments, all with one operator account.      *)
(*                                                                         *)
(* The maintenance loop of main.rs and the registration task sign with the *)
(* same account; receipts arrive from clients meanwhile.  The chain's side *)
(* is external, from x/serviceproof: a batch of receipts is taken receipt  *)
(* by receipt, a challenge is answered once, a blob is assigned to a       *)
(* provider once.                                                          *)
(*                                                                         *)
(* ChainRelay, a user's way to the chain, shares no state with the agent;  *)
(* it is extended for ChainWorkIsHonest, which is about both.              *)
(***************************************************************************)
EXTENDS ChainClient, ChainRelay, SequencesExt

CONSTANTS Batch, PendingCap,   \* BATCH, MAX_PENDING_RECEIPTS
          Challenges, BlobOf,  \* challenge ids, and the blob each is about
          HeldBlobs,           \* blobs this node holds
          Operator

ASSUME RewardsAssumption ==
  /\ Batch \in Nat \ {0} /\ PendingCap \in Nat \ {0}
  /\ {"loop", "register", "wallet"} \subseteq Tasks

VARIABLES kepoch,    \* the chain's open epoch
          kcredit,   \* receipts credited on chain
          kchal,     \* state of each challenge on chain
          kassigned, \* assignments on chain: [cid, op]
          kprov,     \* registered as a provider
          kpend,     \* PENDING
          kans,      \* ANSWERED
          kasg,      \* ASSIGNED
          kcache,    \* cached epoch and assigner flag
          kstats,    \* the counters of receipts
          kbase,     \* receipts pending at the last start (history)
          kloop,     \* where the maintenance loop is
          kbegun     \* whether the registration task has run since the start

serviceVars == <<kepoch, kcredit, kchal, kassigned, kprov>>
agentVars == <<kpend, kans, kasg, kcache, kstats, kbase, kloop, kbegun>>
rewardVars == <<ksc, chainVars, trackVars, serviceVars, agentVars>>

NoStats == [accepted |-> 0, refused |-> 0, settled |-> 0, rejected |-> 0, dropped |-> 0]
StaleCache == [epoch |-> 0, fresh |-> FALSE, assigner |-> FALSE, asked |-> FALSE]
Resting == [phase |-> "rest", list |-> <<>>, done |-> 0]

----------------------------------------------------------------------------
(* What the chain makes of a job.                                          *)
Refused(job) ==
  CASE job.kind = "answer" -> IF kchal[job.args[1]] = "open" THEN "" ELSE "rejected"
    [] job.kind = "assign" ->
         IF [cid |-> job.args[1], op |-> job.args[2]] \in kassigned THEN "already assigned" ELSE ""
    [] job.kind = "register" -> IF kprov THEN "rejected" ELSE ""
    [] OTHER -> ""

Credited(rs) == {r \in rs : r.epoch = kepoch}

\* A block: the head of the mempool is executed.  A payment may fail.
Block ==
  /\ kpool # <<>>
  /\ LET job == Head(kpool).job
     IN \E ok \in IF job.kind \in {"submit", "badge"} THEN BOOLEAN ELSE {Refused(job) = ""} :
          /\ ExecuteHead(ok)
          /\ Moved(job, ok)
          /\ kcredit' = IF ok /\ job.kind = "receipts" THEN kcredit \cup Credited(job.args[1]) ELSE kcredit
          /\ kchal' = IF ok /\ job.kind = "answer" THEN [kchal EXCEPT ![job.args[1]] = "answered"] ELSE kchal
          /\ kassigned' = IF ok /\ job.kind = "assign"
                          THEN kassigned \cup {[cid |-> job.args[1], op |-> job.args[2]]} ELSE kassigned
          /\ kprov' = (kprov \/ (ok /\ job.kind = "register"))
  /\ UNCHANGED <<ksc, kepoch, krows, kwatch, ktrack, klost, kclaim, krecord, kshown, agentVars>>

NextEpoch ==
  /\ "epoch" \in ksc.ops /\ kepoch < ksc.epochs
  /\ kepoch' = kepoch + 1
  /\ UNCHANGED <<ksc, chainVars, trackVars, kcredit, kchal, kassigned, kprov, agentVars>>
IssueChallenge(c) ==
  /\ "challenge" \in ksc.ops /\ kchal[c] = "none"
  /\ kchal' = [kchal EXCEPT ![c] = "open"]
  /\ UNCHANGED <<ksc, chainVars, trackVars, kepoch, kcredit, kassigned, kprov, agentVars>>

----------------------------------------------------------------------------
(* The caches.                                                             *)

\* current_epoch: the cached epoch for 30 seconds, else the chain's.
CurrentEpoch == IF kcache.fresh THEN kcache.epoch ELSE kepoch
EpochRead == [kcache EXCEPT !.epoch = CurrentEpoch, !.fresh = TRUE]
\* is_assigner: cached for five minutes, and a query that fails caches no.
AssignerAnswers == IF kcache.asked THEN {kcache.assigner} ELSE {ksc.assigner, FALSE}
AssignerRead(v) == IF kcache.asked THEN kcache ELSE [kcache EXCEPT !.assigner = v, !.asked = TRUE]
CacheExpires ==
  /\ "expire" \in ksc.ops /\ (kcache.fresh \/ kcache.asked)
  /\ kcache' \in {[kcache EXCEPT !.fresh = FALSE], [kcache EXCEPT !.fresh = FALSE, !.asked = FALSE]} \ {kcache}
  /\ UNCHANGED <<ksc, chainVars, trackVars, serviceVars, kpend, kans, kasg, kstats, kbase, kloop, kbegun>>

----------------------------------------------------------------------------
(* Receipts.                                                               *)

\* Keys sort by (epoch, client, nonce).
Before(r, s) ==
  \/ r.epoch < s.epoch
  \/ r.epoch = s.epoch /\ r.client < s.client
  \/ r.epoch = s.epoch /\ r.client = s.client /\ r.nonce < s.nonce
InOrder(rs) == SetToSortSeq(rs, Before)
FirstOf(rs, n) == {InOrder(rs)[i] : i \in 1..IF n < Cardinality(rs) THEN n ELSE Cardinality(rs)}

\* insert_pending: room is made at the cap by dropping the lowest keys.
Evicted(rs) ==
  IF Cardinality(rs) < PendingCap THEN {} ELSE FirstOf(rs, Cardinality(rs) - PendingCap + 1)
InsertPending(r) ==
  LET out == Evicted(kpend)
  IN /\ kpend' = (kpend \ out) \cup {r}
     /\ kstats' = [kstats EXCEPT !.dropped = @ + Cardinality(out), !.accepted = @ + 1]

\* accept_receipt: the checks of provider, role, units and signature come
\* first; then the epoch is read, which may fail; a receipt for another
\* epoch or already pending is refused.
Refuse == kstats' = [kstats EXCEPT !.refused = @ + 1]
accept_receipt(r) ==
  /\ "receipt" \in ksc.ops /\ kstats.accepted < ksc.receipts /\ kstats.refused = 0
  /\ \/ ~r.valid /\ Refuse /\ UNCHANGED <<kcache, kpend, kfaults>>
     \/ /\ r.valid /\ kcache' = EpochRead /\ UNCHANGED kfaults
        /\ IF r.epoch = CurrentEpoch /\ r \notin kpend
           THEN InsertPending(r)
           ELSE Refuse /\ UNCHANGED kpend
     \/ r.valid /\ ~kcache.fresh /\ Fault /\ UNCHANGED <<kcache, kpend, kstats>>
  /\ UNCHANGED <<ksc, kseq, kpool, kdone, knext, ktask, trackVars, serviceVars,
                 kans, kasg, kbase, kloop, kbegun>>

\* The end of submit_receipts: the batch is dropped either way.
BatchDone(rs, res) ==
  /\ kpend' = kpend \ rs
  /\ kstats' = IF res \in {"ok", "unconfirmed"}
               THEN [kstats EXCEPT !.settled = @ + Cardinality(rs)]
               ELSE [kstats EXCEPT !.rejected = @ + Cardinality(rs)]

\* submit_receipts: the first batch in key order; what is not of the open
\* epoch is dropped and counted, the rest is signed.
submit_receipts ==
  /\ kloop.phase = "receipts"
  /\ kloop' = Resting
  /\ \/ /\ kcache' = EpochRead
        /\ LET batch == FirstOf(kpend, Batch)
               live == {r \in batch : r.epoch = CurrentEpoch}
           IN /\ kpend' = kpend \ (batch \ live)
              /\ kstats' = [kstats EXCEPT !.rejected = @ + Cardinality(batch \ live)]
              /\ IF live = {} THEN UNCHANGED ktask
                 ELSE StartJob("loop", Job("receipts", <<live>>))
              /\ UNCHANGED kfaults
     \/ ~kcache.fresh /\ Fault /\ UNCHANGED <<kcache, kpend, kstats, ktask>>
  /\ UNCHANGED <<ksc, kseq, kpool, kdone, knext, trackVars, serviceVars, kans, kasg, kbase,
                 kbegun>>

----------------------------------------------------------------------------
(* Challenges.                                                             *)
Open == {c \in Challenges : kchal[c] = "open"}

\* The tick of the loop: answer_challenges asks for the open challenges.
LoopTick ==
  /\ "tick" \in ksc.ops /\ kloop.phase = "rest" /\ ktask["loop"].pc = "idle"
  /\ \/ kloop' = [phase |-> "challenges", list |-> SetToSeq(Open), done |-> 0] /\ UNCHANGED kfaults
     \/ Fault /\ kloop' = [Resting EXCEPT !.phase = "assign?"]
  /\ UNCHANGED <<ksc, kseq, kpool, kdone, knext, ktask, trackVars, serviceVars,
                 kpend, kans, kasg, kcache, kstats, kbase, kbegun>>

\* One challenge: skipped if answered before or if the blob is not here,
\* else signed and sent.
answer_challenges ==
  /\ kloop.phase = "challenges" /\ ktask["loop"].pc = "idle"
  /\ IF kloop.list = <<>>
     THEN kloop' = [Resting EXCEPT !.phase = "assign?"] /\ UNCHANGED ktask
     ELSE LET c == Head(kloop.list)
          IN /\ kloop' = [kloop EXCEPT !.list = Tail(@)]
             /\ IF c \in kans \/ BlobOf[c] \notin HeldBlobs THEN UNCHANGED ktask
                ELSE StartJob("loop", Job("answer", <<c>>))
  /\ UNCHANGED <<ksc, kseq, kpool, kdone, knext, kfaults, trackVars, serviceVars,
                 kpend, kans, kasg, kcache, kstats, kbase, kbegun>>

\* Mutant: a challenge counts as answered when the call returns.
MutMarkAnswered(c, res) == kans' = kans \cup {c}
\* mark_answered, on Ok.
MarkAnswered(c, res) == kans' = IF res \in {"ok", "unconfirmed"} THEN kans \cup {c} ELSE kans

----------------------------------------------------------------------------
(* Assignments.                                                            *)
AssignTo(cid, op) == [cid |-> cid, op |-> op]

\* assignment_pass: for each complete blob this node, then the holders whose
\* operator it knows; stops between blobs once enough were tried.
PassList == FoldFunction(LAMBDA q, acc : q \o acc, <<>>,
              [cid \in HeldBlobs |-> <<AssignTo(cid, Operator)>>
                                     \o SetToSeq({AssignTo(cid, op) : op \in ksc.holders})])
AssignmentPass ==
  /\ kloop.phase = "assign?"
  /\ \E v \in AssignerAnswers :
       /\ kcache' = AssignerRead(v)
       /\ kloop' = IF v THEN [phase |-> "assign", list |-> PassList, done |-> 0]
                   ELSE [Resting EXCEPT !.phase = "receipts"]
  /\ UNCHANGED <<ksc, chainVars, trackVars, serviceVars, kpend, kans, kasg, kstats, kbase, kbegun>>

\* assign: what is not recorded is signed and sent, if the node is still an
\* assigner; an attempt either way.
assign ==
  /\ kloop.phase = "assign" /\ ktask["loop"].pc = "idle"
  /\ IF kloop.list = <<>> \/ (kloop.done >= ksc.maxAssign /\ Head(kloop.list).op = Operator)
     THEN kloop' = [Resting EXCEPT !.phase = "receipts"] /\ UNCHANGED <<ktask, kcache>>
     ELSE LET a == Head(kloop.list)
          IN IF a \in kasg
             THEN kloop' = [kloop EXCEPT !.list = Tail(@)] /\ UNCHANGED <<ktask, kcache>>
             ELSE /\ kloop' = [kloop EXCEPT !.list = Tail(@), !.done = @ + 1]
                  /\ \E v \in AssignerAnswers :
                       /\ kcache' = AssignerRead(v)
                       /\ IF v THEN StartJob("loop", Job("assign", <<a.cid, a.op>>))
                          ELSE UNCHANGED ktask
  /\ UNCHANGED <<ksc, kseq, kpool, kdone, knext, kfaults, trackVars, serviceVars,
                 kpend, kans, kasg, kstats, kbase, kbegun>>

\* Remembered when it went in, or when the chain had it already.
Remembered(a, res) ==
  kasg' = IF res \in {"ok", "unconfirmed", "already assigned"} THEN kasg \cup {a} ELSE kasg

----------------------------------------------------------------------------
\* The loop's call to sign_and_broadcast, and what follows when it returns.
LoopStep ==
  /\ ktask["loop"].pc # "idle"
  /\ LET job == ktask["loop"].job
     IN \E res \in StepResults :
          /\ SignStep("loop", Refused(job), res)
          /\ IF res = "none" \/ job.kind # "receipts" THEN UNCHANGED <<kpend, kstats>>
             ELSE BatchDone(job.args[1], res)
          /\ IF res = "none" \/ job.kind # "answer" THEN UNCHANGED kans
             ELSE MarkAnswered(job.args[1], res)
          /\ IF res = "none" \/ job.kind # "assign" THEN UNCHANGED kasg
             ELSE Remembered(AssignTo(job.args[1], job.args[2]), res)
  /\ UNCHANGED <<ksc, trackVars, serviceVars, kcache, kbase, kloop, kbegun>>

\* ensure_registered: once, ten seconds after the start; a provider record
\* that cannot be read counts as none.
ensure_registered ==
  /\ "register" \in ksc.ops /\ ~kbegun /\ kbegun' = TRUE
  /\ \/ kprov /\ UNCHANGED <<ktask, kfaults>>
     \/ ~kprov /\ StartJob("register", Job("register", <<>>)) /\ UNCHANGED kfaults
     \/ kprov /\ StartJob("register", Job("register", <<>>)) /\ Fault
  /\ UNCHANGED <<ksc, kseq, kpool, kdone, knext, trackVars, serviceVars,
                 kpend, kans, kasg, kcache, kstats, kbase, kloop>>
RegisterStep ==
  /\ ktask["register"].pc # "idle"
  /\ \E res \in StepResults : SignStep("register", Refused(ktask["register"].job), res)
  /\ UNCHANGED <<ksc, trackVars, serviceVars, agentVars>>

\* The node restarts: the tables stay, caches and counters do not.
RestartNode ==
  /\ "restart" \in ksc.ops /\ Fault
  /\ ktask' = [ktask EXCEPT !["loop"] = IdleTask, !["register"] = IdleTask]
  /\ kcache' = StaleCache /\ kloop' = Resting /\ kbegun' = FALSE
  /\ kstats' = NoStats /\ kbase' = Cardinality(kpend)
  /\ UNCHANGED <<ksc, kseq, kpool, kdone, knext, trackVars, serviceVars, kpend, kans, kasg>>

RewardsInit(scenarios) ==
  /\ ksc \in scenarios
  /\ ChainInit
  /\ kepoch = 1 /\ kcredit = {} /\ kchal = [c \in Challenges |-> "none"]
  /\ kassigned = {} /\ kprov = FALSE
  /\ kpend = {} /\ kans = {} /\ kasg = {} /\ kcache = StaleCache
  /\ kstats = NoStats /\ kbase = 0 /\ kloop = Resting
  /\ kbegun = FALSE

Receipts == [epoch : 1..ksc.epochs, client : ksc.clients, nonce : {1}, valid : {TRUE}]
            \cup [epoch : {1}, client : ksc.clients, nonce : {0}, valid : {FALSE}]

LoopNext == LoopTick \/ answer_challenges \/ AssignmentPass \/ assign \/ submit_receipts \/ LoopStep
RewardsNext ==
  \/ LoopNext
  \/ Block \/ NextEpoch \/ CacheExpires
  \/ \E c \in Challenges : IssueChallenge(c)
  \/ \E r \in Receipts : accept_receipt(r)
  \/ ensure_registered \/ RegisterStep \/ RestartNode
  \/ WalletNext /\ UNCHANGED <<ksc, serviceVars, agentVars>>

----------------------------------------------------------------------------
(* Properties.                                                             *)

\* No receipt the node said yes to disappears without a trace: it is still
\* pending, or counted as settled, rejected or dropped (insert_pending,
\* submit_receipts), whatever arrives while a batch is on its way, at the
\* cap, across epochs, lost answers and restarts.
ReceiptsAreCounted ==
  kstats.accepted + kbase
    <= Cardinality(kpend) + kstats.settled + kstats.rejected + kstats.dropped

\* What a node says about the chain is true: an answer verified over the
\* relay came from an honest node, and every receipt the agent accepted is
\* accounted for.
ChainWorkIsHonest == VerifiedIsHonest /\ ReceiptsAreCounted

\* A challenge for a blob the node holds does not stay open: it is answered
\* on chain however calls fail, answers get lost, other transactions of the
\* account come in between and the node restarts (answer_challenges).
ChallengesGetAnswers ==
  \A c \in Challenges : []<>(BlobOf[c] \in HeldBlobs => kchal[c] # "open")

\* What the agent and the wallet begin on the chain ends.
ChainWorkEnds == ChallengesGetAnswers /\ PendingIsResolved
=============================================================================
