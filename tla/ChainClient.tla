----------------------------- MODULE ChainClient -----------------------------
(***************************************************************************)
(* Signing and broadcasting transactions: hashgram-chain client.rs, and    *)
(* the desktop's wallet: intents (tx.rs), the list of transactions in      *)
(* flight (cmd_wallet.rs, db.rs) and the paid badge (cmd_verify.rs).       *)
(*                                                                         *)
(* A task that signs goes through prepare (the account's sequence is read, *)
(* gas is simulated), broadcast and, unless it does not wait, polling.     *)
(* Each request is one step; requests and answers may fail.  The chain     *)
(* itself is external: a mempool that checks sequences, and blocks.        *)
(***************************************************************************)
EXTENDS Integers, Sequences, FiniteSets

CONSTANTS Tasks, AccountOf,   \* the tasks that sign, and the account of each
          PollAttempts,       \* how often sign_and_broadcast looks for inclusion
          MaxTx               \* transactions the mempool ever takes

ASSUME PollAssumption == PollAttempts \in Nat \ {0}

VARIABLES ksc,       \* the scenario
          kseq,      \* committed sequence of each account
          kpool,     \* the mempool
          kdone,     \* executed transactions: [id, kind, ok]
          knext,     \* number of the next transaction
          ktask,     \* the transaction each task is working on
          kfaults,
          krows,     \* pending_tx of the desktop's database: state by transaction
          kwatch,    \* AppState.pending_tx: transactions watched
          ktrack,    \* a submitted transaction not recorded yet, or 0
          klost,     \* transactions pending when the application restarted (history)
          kfunds,    \* the user's balance
          kclaim,    \* the payment the profile names, or 0
          krecord,   \* a payment about to be recorded in the profile, or 0
          kshown     \* payments for a badge whose hash the user was given

chainVars == <<kseq, kpool, kdone, knext, ktask, kfaults>>
badgeVars == <<kfunds, kclaim, krecord, kshown>>
WalletFree == ktask["wallet"].pc = "idle" /\ krecord = 0
trackVars == <<krows, kwatch, ktrack, klost, badgeVars>>

NoJob == [kind |-> "none", args |-> <<>>]
IdleTask == [pc |-> "idle", job |-> NoJob, seq |-> 0, id |-> 0, polls |-> 0]
Accounts == {AccountOf[t] : t \in Tasks}
TxIds == 1..MaxTx

Fault == kfaults < ksc.faults /\ kfaults' = kfaults + 1
Job(kind, args) == [kind |-> kind, args |-> args]
StartJob(t, job) == ktask' = [ktask EXCEPT ![t] = [IdleTask EXCEPT !.pc = "prepare", !.job = job]]
Waits(job) == job.kind # "submit"

----------------------------------------------------------------------------
(* The client.  Each step has a result: "none" while the call is under     *)
(* way, "ok" and "unconfirmed" for Ok(height) and Ok(0), and the errors.   *)

\* prepare, account, gas_for: sequence refetched before every transaction;
\* a simulation that fails ends the call with the chain's reason.
Prepare(t, why, res) ==
  /\ ktask[t].pc = "prepare"
  /\ \/ /\ why = "" /\ res = "none"
        /\ ktask' = [ktask EXCEPT ![t].pc = "broadcast", ![t].seq = kseq[AccountOf[t]]]
        /\ UNCHANGED kfaults
     \/ /\ why # "" /\ res = why
        /\ ktask' = [ktask EXCEPT ![t] = IdleTask] /\ UNCHANGED kfaults
     \/ /\ res = "error" /\ Fault
        /\ ktask' = [ktask EXCEPT ![t] = IdleTask]
  /\ UNCHANGED <<kseq, kpool, kdone, knext>>

\* The mempool takes the next sequence after those it holds.
CheckTx(t) ==
  ktask[t].seq = kseq[AccountOf[t]]
                 + Cardinality({i \in DOMAIN kpool : kpool[i].acct = AccountOf[t]})

\* broadcast_signed: accepted, rejected, or the request or its answer lost.
Broadcast(t, res) ==
  /\ ktask[t].pc = "broadcast"
  /\ \/ /\ CheckTx(t) /\ knext <= ksc.txs
        /\ kpool' = Append(kpool, [id |-> knext, acct |-> AccountOf[t], job |-> ktask[t].job])
        /\ knext' = knext + 1
        /\ \/ /\ Waits(ktask[t].job) /\ res = "none"
              /\ ktask' = [ktask EXCEPT ![t].pc = "poll", ![t].id = knext]
              /\ UNCHANGED kfaults
           \/ /\ ~Waits(ktask[t].job) /\ res = "ok"
              /\ ktask' = [ktask EXCEPT ![t] = IdleTask] /\ UNCHANGED kfaults
           \/ res = "error" /\ Fault /\ ktask' = [ktask EXCEPT ![t] = IdleTask]
     \/ /\ ~CheckTx(t) /\ res = "error"
        /\ ktask' = [ktask EXCEPT ![t] = IdleTask]
        /\ UNCHANGED <<kpool, knext, kfaults>>
     \/ /\ res = "error" /\ Fault
        /\ ktask' = [ktask EXCEPT ![t] = IdleTask]
        /\ UNCHANGED <<kpool, knext>>
  /\ UNCHANGED <<kseq, kdone>>

\* The wait for inclusion: found, not found yet, given up, or the lookup
\* fails.
Poll(t, res) ==
  /\ ktask[t].pc = "poll"
  /\ LET found == {d \in kdone : d.id = ktask[t].id}
         more == ktask[t].polls + 1 < PollAttempts
     IN \/ /\ found # {} /\ UNCHANGED kfaults
           /\ res = IF \E d \in found : d.ok THEN "ok" ELSE "rejected"
           /\ ktask' = [ktask EXCEPT ![t] = IdleTask]
        \/ /\ found = {} /\ more /\ res = "none" /\ UNCHANGED kfaults
           /\ ktask' = [ktask EXCEPT ![t].polls = @ + 1]
        \/ /\ found = {} /\ ~more /\ res = "unconfirmed" /\ UNCHANGED kfaults
           /\ ktask' = [ktask EXCEPT ![t] = IdleTask]
        \/ res = "error" /\ Fault /\ ktask' = [ktask EXCEPT ![t] = IdleTask]
  /\ UNCHANGED <<kseq, kpool, kdone, knext>>

\* sign_and_broadcast, sign_and_broadcast_nowait; why is what a simulation
\* of the job says now.
SignStep(t, why, res) == Prepare(t, why, res) \/ Broadcast(t, res) \/ Poll(t, res)
StepResults == {"none", "ok", "unconfirmed", "rejected", "error", "already assigned"}

\* A block takes the transaction at the head of the mempool; ok says whether
\* its message succeeded.
ExecuteHead(ok) ==
  /\ kpool # <<>>
  /\ kpool' = Tail(kpool)
  /\ kseq' = [kseq EXCEPT ![Head(kpool).acct] = @ + 1]
  /\ kdone' = kdone \cup {[id |-> Head(kpool).id, kind |-> Head(kpool).job.kind, ok |-> ok]}
  /\ UNCHANGED <<knext, ktask, kfaults>>

----------------------------------------------------------------------------
(* The desktop's transactions.                                             *)

\* MsgSpec::build: what each intent checks before it becomes a message.
Checks(kind) ==
  CASE kind = "send" -> {"address", "amount", "positive"}
    [] kind \in {"delegate", "undelegate", "redelegate"} -> {"validator", "amount"}
    [] kind = "withdraw_rewards" -> {"validator"}
    [] kind = "vote" -> {"option"}
    [] kind \in {"register_username", "renew_username", "release_username"} -> {"username"}
    [] kind = "transfer_username" -> {"username", "address"}
    [] kind = "set_recovery_config" -> {"address", "threshold"}
    [] kind \in {"cancel_recovery", "revoke_device", "begin_unbonding", "withdraw_bond"} -> {}
Intent(kind, fails) == [kind |-> kind, fails |-> fails]
Builds(spec) == Checks(spec.kind) \cap spec.fails = {}

\* The wallet commands; an amount that does not parse is refused before.
wallet_send(fails) == Intent("send", fails)
wallet_stake(fails) == Intent("delegate", fails)
wallet_unstake(fails) == Intent("undelegate", fails)
wallet_withdraw_rewards(fails) == Intent("withdraw_rewards", fails)
wallet_register_username(fails) == Intent("register_username", fails)
wallet_renew_username(fails) == Intent("renew_username", fails)
WalletIntents(fails) ==
  {wallet_send(fails), wallet_stake(fails), wallet_unstake(fails), wallet_withdraw_rewards(fails),
   wallet_register_username(fails), wallet_renew_username(fails)}

\* tx_submit: signed and broadcast under the lock, recorded after it.
tx_submit(spec) ==
  /\ "submit" \in ksc.ops /\ WalletFree /\ ktrack = 0 /\ knext <= ksc.txs
  /\ Builds(spec)
  /\ StartJob("wallet", Job("submit", <<spec.kind>>))
  /\ UNCHANGED <<kseq, kpool, kdone, knext, kfaults, trackVars>>

\* track_tx, with height 0.
Track(id) ==
  /\ krows' = [krows EXCEPT ![id] = "pending"]
  /\ kwatch' = kwatch \cup {id}
track_tx ==
  /\ ktrack # 0
  /\ Track(ktrack)
  /\ ktrack' = 0
  /\ UNCHANGED <<chainVars, klost, badgeVars>>

\* poll_pending, for one transaction; a lookup that fails changes nothing.
poll_pending(id) ==
  /\ id \in kwatch
  /\ \E d \in kdone :
       /\ d.id = id
       /\ krows' = [krows EXCEPT ![id] = IF d.ok THEN "committed" ELSE "failed"]
  /\ kwatch' = kwatch \ {id}
  /\ UNCHANGED <<chainVars, ktrack, klost, badgeVars>>

\* sink: the governance account, derived and confirmed by the chain; a
\* failed read refuses.  Then the price and the fee must be there.
verify_purchase ==
  /\ "badge" \in ksc.ops /\ WalletFree /\ knext <= ksc.txs
  /\ kfunds > ksc.price
  /\ StartJob("wallet", Job("badge", <<>>))
  /\ UNCHANGED <<kseq, kpool, kdone, knext, kfaults, trackVars>>

\* record: the profile is read and published again with the claim; either
\* may fail, and the command fails with it.
RecordClaim ==
  /\ krecord # 0 /\ krecord' = 0
  /\ \/ kclaim' = krecord /\ kshown' = kshown \cup {krecord} /\ UNCHANGED kfaults
     \/ Fault /\ UNCHANGED <<kclaim, kshown>>
  /\ UNCHANGED <<kseq, kpool, kdone, knext, ktask, krows, kwatch, ktrack, klost, kfunds>>

\* verify_record, for a hash the user has.
verify_record(id) ==
  /\ "badge" \in ksc.ops /\ WalletFree /\ id \in kshown /\ kclaim # id
  /\ kclaim' = id
  /\ UNCHANGED <<chainVars, krows, kwatch, ktrack, klost, kfunds, krecord, kshown>>

\* A call for the user; a payment that went through is recorded.
WalletStep ==
  LET job == ktask["wallet"].job
      id == ktask["wallet"].id
  IN \E res \in StepResults :
       /\ SignStep("wallet", "", res)
       /\ ktrack' = IF job.kind = "submit" /\ res = "ok" THEN knext ELSE ktrack
       /\ krecord' = IF job.kind = "badge" /\ res \in {"ok", "unconfirmed"} THEN id ELSE krecord
       /\ UNCHANGED <<krows, kwatch, klost, kfunds, kclaim, kshown>>

\* A payment moves the price.
Moved(job, ok) == kfunds' = IF ok /\ job.kind = "badge" THEN kfunds - ksc.price ELSE kfunds

\* The application restarts: the list in memory is empty.
Relaunch ==
  /\ "relaunch" \in ksc.ops /\ Fault
  /\ kwatch' = {} /\ ktrack' = 0 /\ krecord' = 0
  /\ klost' = klost \cup {id \in TxIds : krows[id] = "pending"}
  /\ ktask' = [ktask EXCEPT !["wallet"] = IdleTask]
  /\ UNCHANGED <<kseq, kpool, kdone, knext, krows, kfunds, kclaim, kshown>>

ChainInit ==
  /\ kseq = [a \in Accounts |-> 0]
  /\ kpool = <<>> /\ kdone = {} /\ knext = 1 /\ kfaults = 0
  /\ ktask = [t \in Tasks |-> IdleTask]
  /\ krows = [id \in TxIds |-> "none"] /\ kwatch = {} /\ ktrack = 0 /\ klost = {}
  /\ kfunds = ksc.funds /\ kclaim = 0 /\ krecord = 0 /\ kshown = {}

WalletNext ==
  \/ \E fails \in ksc.fails : \E spec \in WalletIntents(fails) : tx_submit(spec)
  \/ track_tx \/ WalletStep \/ Relaunch \/ verify_purchase \/ RecordClaim
  \/ \E id \in TxIds : poll_pending(id) \/ verify_record(id)

----------------------------------------------------------------------------
(* Properties.                                                             *)

\* A transaction the application wrote down as pending gets its final state
\* once the chain has executed it, unless the application restarted while it
\* was pending (tx_submit, track_tx, poll_pending).
PendingIsResolved ==
  \A id \in 1..MaxTx :
    []<>~(krows[id] = "pending" /\ id \notin klost /\ \E d \in kdone : d.id = id)

=============================================================================
