------------------------------ MODULE FeeFlow ------------------------------
(***************************************************************************)
(* The life of a protocol fee on the Hashgram chain: x/feerouter splits    *)
(* it, x/founder accrues and pays the Founder share, x/distribution takes  *)
(* the rest.  A block is BeginBlock (feerouter, then distribution), any    *)
(* number of transactions, the proposals x/gov executes, and x/founder's   *)
(* EndBlocker.  One denomination stands for sdk.Coins: every operation is  *)
(* applied denomination by denomination.                                   *)
(***************************************************************************)
EXTENDS Integers, Sequences

CONSTANTS
  Addresses,                 \* accounts governance may name as beneficiary
  Blocked,                   \* those x/bank refuses to credit (module accounts)
  NoAddress,                 \* the empty string in Params.Beneficiary
  BasisPointDenominator,     \* 10000 in the code
  MaxFounderFeeBasisPoints,  \* the ceiling compiled into the binary
  GasFees, ServiceFees,      \* what one transaction may be charged
  FounderParams,             \* the parameter sets governance may propose
  HeightCap, HeightCycle,    \* bound: heights above the cap fold back by a cycle
  MaxFeeTxs,                 \* bound: fee-paying transactions
  MaxChanges,                \* bound: executed governance proposals
  MaxRestarts,               \* bound: exports and re-imports of the chain
  ZeroHeightExport           \* whether a re-import may restart at height zero

ParamsType == [beneficiary : Addresses \cup {NoAddress}, feeBps : Nat,
               period : Nat, minPayout : Nat]

ASSUME AddressAssumption ==
  /\ NoAddress \notin Addresses
  /\ Blocked \subseteq Addresses
ASSUME BasisPointAssumption ==
  /\ BasisPointDenominator \in Nat \ {0}
  /\ MaxFounderFeeBasisPoints \in 0..BasisPointDenominator
ASSUME FeeAssumption == GasFees \subseteq Nat /\ ServiceFees \subseteq Nat
ASSUME ParamsAssumption == FounderParams \subseteq ParamsType
ASSUME BoundAssumption ==
  /\ HeightCap \in Nat /\ HeightCycle \in Nat /\ HeightCycle + 1 < HeightCap
  /\ \A p \in FounderParams : p.period # 0 => HeightCycle % p.period = 0
  /\ MaxFeeTxs \in Nat /\ MaxChanges \in Nat /\ MaxRestarts \in Nat
  /\ ZeroHeightExport \in BOOLEAN

VARIABLES
  height, phase,       \* the block being executed, and how far it has got
  enabled,             \* feerouter Params.Enabled
  totals,              \* feerouter RevenueTotals
  serviceRevenue,      \* feerouter per-kind revenue
  params, ledger, history,   \* founder Params, RevenueLedger, BeneficiaryHistory
  feeCollector, pool, pending, validators,  \* bank balances of the module
                       \* accounts: fee collector, feerouter, founder,
                       \* distribution (with what it has paid on)
  paidTo,              \* bank balance each beneficiary got from x/founder
  charged,             \* ghost: all fees users were ever charged
  accruedFor,          \* ghost: what accrued while an address was beneficiary
  feeTxs, changes, restarts  \* counters of the bounds

bounds == <<feeTxs, changes, restarts>>
vars == <<height, phase, enabled, totals, serviceRevenue, params, ledger,
          history, feeCollector, pool, pending, validators, paidTo, charged,
          accruedFor, bounds>>
routerVars == <<enabled, totals, serviceRevenue>>
founderVars == <<params, ledger, history, pending, paidTo, accruedFor>>
feeVars == <<feeCollector, pool, validators, charged>>

----------------------------------------------------------------------------
(* x/founder: parameters and the cut.                                      *)

ValidParams(p) == p.feeBps <= MaxFounderFeeBasisPoints

FounderCut(amount) ==
  IF params.beneficiary = NoAddress THEN 0
  ELSE (amount * params.feeBps) \div BasisPointDenominator

(* Mutant: the ledger credits only the gas pass.                          *)
MutAccrue(amount) ==
  /\ pending' = pending + amount
  /\ ledger' = [accrued |-> ledger.accrued + FounderCut(feeCollector),
                paid |-> ledger.paid]
  /\ accruedFor' = [a \in Addresses |->
       accruedFor[a] + IF a = params.beneficiary THEN amount ELSE 0]

(* Accrue, for the two amounts BeginBlock accrues one after the other.     *)
Accrue(amount) ==
  /\ pending' = pending + amount
  /\ ledger' = [accrued |-> ledger.accrued + amount, paid |-> ledger.paid]
  /\ accruedFor' = [a \in Addresses |->
       accruedFor[a] + IF a = params.beneficiary THEN amount ELSE 0]

----------------------------------------------------------------------------
(* x/feerouter's BeginBlocker.                                             *)

(* Mutant: the service pass runs first, so the gas pass sees what it swept.*)
MutGasQualifying ==
  IF enabled THEN feeCollector + pool - FounderCut(pool) ELSE 0

(* routeGasFees measures what the fee collector holds ...                  *)
GasQualifying == IF enabled THEN feeCollector ELSE 0

(* ... and routeServiceFees what the revenue pool holds.                   *)
ServiceQualifying == IF enabled THEN pool ELSE 0

Record(gas, gasCut, service, serviceCut) ==
  /\ totals' = [qualifying |-> totals.qualifying + gas + service,
                founderShare |-> totals.founderShare + gasCut + serviceCut,
                validatorShare |-> totals.validatorShare
                                     + (gas - gasCut) + (service - serviceCut)]
  /\ serviceRevenue' = [gas |-> serviceRevenue.gas + gas,
                        other |-> serviceRevenue.other + service]

(* x/distribution empties the fee collector in every block but the first.  *)
AllocateTokens(h, collected) ==
  IF h > 1
  THEN feeCollector' = 0 /\ validators' = validators + collected
  ELSE feeCollector' = collected /\ validators' = validators

(* The code reads a height only to compare it with 1 and to take it modulo *)
(* the payout period, so folding back by a multiple of every period loses  *)
(* nothing.                                                                *)
NextHeight == IF height = HeightCap THEN height - HeightCycle ELSE height + 1

BeginBlock ==
  /\ phase = "idle"
  /\ phase' = "txs"
  /\ height' = NextHeight
  /\ LET gasCut     == FounderCut(GasQualifying)
         serviceCut == FounderCut(ServiceQualifying)
     IN /\ Accrue(gasCut + serviceCut)
        /\ Record(GasQualifying, gasCut, ServiceQualifying, serviceCut)
        /\ pool' = pool - ServiceQualifying
        /\ AllocateTokens(NextHeight,
             feeCollector - gasCut + ServiceQualifying - serviceCut)
  /\ UNCHANGED <<enabled, params, history, paidTo, charged, bounds>>

----------------------------------------------------------------------------
(* Transactions.                                                           *)

(* The ante handler moves a transaction's gas fee to the fee collector.    *)
DeductGasFee(fee) ==
  /\ phase = "txs"
  /\ feeTxs < MaxFeeTxs
  /\ feeTxs' = feeTxs + 1
  /\ feeCollector' = feeCollector + fee
  /\ charged' = charged + fee
  /\ UNCHANGED <<height, phase, routerVars, founderVars, pool, validators,
                 changes, restarts>>

CollectServiceFee(fee) ==
  /\ phase = "txs"
  /\ feeTxs < MaxFeeTxs
  /\ feeTxs' = feeTxs + 1
  /\ pool' = pool + fee
  /\ charged' = charged + fee
  /\ UNCHANGED <<height, phase, routerVars, founderVars, feeCollector, validators,
                 changes, restarts>>

CanPay == params.beneficiary \in Addresses \ Blocked

(* Payout, once its error returns are past.                                *)
Payout ==
  /\ pending' = 0
  /\ paidTo' = [paidTo EXCEPT ![params.beneficiary] = @ + pending]
  /\ ledger' = [accrued |-> ledger.accrued, paid |-> ledger.paid + pending]

ClaimFounderRevenue ==
  /\ phase = "txs"
  /\ CanPay
  /\ pending > 0
  /\ Payout
  /\ UNCHANGED <<height, phase, routerVars, params, history, accruedFor,
                 feeVars, bounds>>

EndTxs ==
  /\ phase = "txs"
  /\ phase' = "gov"
  /\ UNCHANGED <<height, routerVars, founderVars, feeVars, bounds>>

----------------------------------------------------------------------------
(* Governance proposals, executed by x/gov's EndBlocker.                   *)

(* Mutant: the incoming beneficiary inherits what is pending.              *)
MutSettleOutgoing(next) == UNCHANGED <<pending, paidTo, ledger>>

(* UpdateParams pays the outgoing beneficiary before the switch; when that *)
(* fails the whole proposal fails.                                         *)
SettleOutgoing(next) ==
  IF next.beneficiary # params.beneficiary /\ pending > 0
     /\ params.beneficiary # NoAddress
  THEN CanPay /\ Payout
  ELSE UNCHANGED <<pending, paidTo, ledger>>

Change(prev, next) == [prev |-> prev, next |-> next]

AppendBeneficiaryChange(next) ==
  history' = IF next.beneficiary # params.beneficiary
             THEN Append(history, Change(params.beneficiary, next.beneficiary))
             ELSE history

UpdateFounderParams(next) ==
  /\ phase = "gov"
  /\ changes < MaxChanges
  /\ changes' = changes + 1
  /\ ValidParams(next)
  /\ SettleOutgoing(next)
  /\ AppendBeneficiaryChange(next)
  /\ params' = next
  /\ UNCHANGED <<height, phase, routerVars, accruedFor, feeVars, feeTxs, restarts>>

UpdateRouterParams ==
  /\ phase = "gov"
  /\ changes < MaxChanges
  /\ changes' = changes + 1
  /\ enabled' \in BOOLEAN
  /\ UNCHANGED <<height, phase, totals, serviceRevenue, founderVars, feeVars,
                 feeTxs, restarts>>

----------------------------------------------------------------------------
(* x/founder's EndBlocker.                                                 *)

(* Mutant: the threshold is exclusive.                                     *)
MutPayoutDue ==
  /\ params.period # 0
  /\ height > 0 /\ height % params.period = 0
  /\ pending > params.minPayout

PayoutDue ==
  /\ params.period # 0
  /\ height > 0 /\ height % params.period = 0
  /\ pending > 0
  /\ pending >= params.minPayout

EndBlock ==
  /\ phase = "gov"
  /\ phase' = "idle"
  /\ IF PayoutDue /\ CanPay
     THEN Payout
     ELSE UNCHANGED <<pending, paidTo, ledger>>
  /\ UNCHANGED <<height, routerVars, params, history, accruedFor, feeVars, bounds>>

----------------------------------------------------------------------------
(* `hashgramd export` and InitGenesis on the result: the two modules keep  *)
(* every field; a zero-height export restarts the block height.            *)

RecordInitialBeneficiary(h) ==
  IF h # << >> \/ params.beneficiary = NoAddress THEN h
  ELSE <<Change(NoAddress, params.beneficiary)>>

GenesisValidates ==
  /\ ValidParams(params)
  /\ ledger.paid <= ledger.accrued
  /\ totals.qualifying = totals.founderShare + totals.validatorShare

Restart ==
  /\ phase = "idle"
  /\ restarts < MaxRestarts
  /\ GenesisValidates
  /\ restarts' = restarts + 1
  /\ history' = RecordInitialBeneficiary(history)
  /\ height' \in {height} \cup IF ZeroHeightExport THEN {0} ELSE {}
  /\ UNCHANGED <<phase, routerVars, params, ledger, pending, paidTo,
                 accruedFor, feeVars, feeTxs, changes>>

----------------------------------------------------------------------------
(* A fresh chain: InitGenesis of both modules over an empty bank.          *)
Init ==
  /\ height = 0 /\ phase = "idle"
  /\ enabled \in BOOLEAN
  /\ totals = [qualifying |-> 0, founderShare |-> 0, validatorShare |-> 0]
  /\ serviceRevenue = [gas |-> 0, other |-> 0]
  /\ params \in {p \in FounderParams : ValidParams(p)}
  /\ ledger = [accrued |-> 0, paid |-> 0]
  /\ history = IF params.beneficiary = NoAddress THEN << >>
               ELSE <<Change(NoAddress, params.beneficiary)>>
  /\ feeCollector = 0 /\ pool = 0 /\ pending = 0 /\ validators = 0
  /\ paidTo = [a \in Addresses |-> 0]
  /\ charged = 0
  /\ accruedFor = [a \in Addresses |-> 0]
  /\ feeTxs = 0 /\ changes = 0 /\ restarts = 0

Next ==
  \/ BeginBlock
  \/ \E fee \in GasFees : DeductGasFee(fee)
  \/ \E fee \in ServiceFees : CollectServiceFee(fee)
  \/ ClaimFounderRevenue
  \/ EndTxs
  \/ \E next \in FounderParams : UpdateFounderParams(next)
  \/ UpdateRouterParams
  \/ EndBlock
  \/ Restart

Spec == Init /\ [][Next]_vars

(* CometBFT keeps producing blocks, and executing one always finishes.     *)
Fairness == WF_vars(BeginBlock) /\ WF_vars(EndTxs) /\ WF_vars(EndBlock)
FairSpec == Spec /\ Fairness

----------------------------------------------------------------------------
(* Properties.                                                             *)

(* The type of every variable.                                             *)
TypeOK ==
  /\ height \in Nat /\ phase \in {"idle", "txs", "gov"}
  /\ enabled \in BOOLEAN
  /\ totals \in [qualifying : Nat, founderShare : Nat, validatorShare : Nat]
  /\ serviceRevenue \in [gas : Nat, other : Nat]
  /\ params \in ParamsType /\ params.feeBps <= MaxFounderFeeBasisPoints
  /\ ledger \in [accrued : Nat, paid : Nat]
  /\ history \in Seq([prev : Addresses \cup {NoAddress},
                      next : Addresses \cup {NoAddress}])
  /\ feeCollector \in Nat /\ pool \in Nat /\ pending \in Nat /\ validators \in Nat
  /\ paidTo \in [Addresses -> Nat] /\ accruedFor \in [Addresses -> Nat]
  /\ charged \in Nat
  /\ feeTxs \in Nat /\ changes \in Nat /\ restarts \in Nat

(* Both modules' books agree with the bank and with each other: every fee  *)
(* charged is in exactly one place (the fee collector, the pool, x/founder, *)
(* the validators, or paid out), what x/founder holds is accrued minus     *)
(* paid, and what feerouter booked as the Founder share is what x/founder  *)
(* accrued.  (revenue.go Accrue/Payout, route.go record)                   *)
BooksBalance ==
  /\ charged = feeCollector + pool + pending + validators + ledger.paid
  /\ pending = ledger.accrued - ledger.paid
  /\ totals.founderShare = ledger.accrued
  /\ totals.qualifying = totals.founderShare + totals.validatorShare
  /\ totals.qualifying = serviceRevenue.gas + serviceRevenue.other

(* A fee is measured as qualifying revenue at most once: what was measured *)
(* over the chain's life never exceeds what users paid.  (route.go         *)
(* BeginBlocker's pass order, app.go's BeginBlocker order)                 *)
NoDoubleTaxation == totals.qualifying <= charged

(* The Founder never receives more than the compiled ceiling of what users *)
(* paid, over any history of parameter changes.  (params.go Validate,      *)
(* FounderCut)                                                             *)
RealisedShareBelowCeiling ==
  (ledger.accrued * BasisPointDenominator) <= MaxFounderFeeBasisPoints * charged

(* Revenue belongs to whoever was beneficiary when it accrued: each address *)
(* was paid exactly what accrued in its time, the current beneficiary's    *)
(* being still (partly) pending.  (revenue.go UpdateParams)                *)
RevenueReachesItsBeneficiary ==
  \A a \in Addresses :
    accruedFor[a] = paidTo[a] + IF a = params.beneficiary THEN pending ELSE 0

(* The Founder takes its share of each fee once and never more than the    *)
(* compiled ceiling allows.                                                *)
ShareIsBounded == NoDoubleTaxation /\ RealisedShareBelowCeiling

(* Nothing is pending for nobody.  (revenue.go Accrue's empty-beneficiary  *)
(* case, UpdateParams' settlement before the switch)                       *)
PendingHasBeneficiary == pending > 0 => params.beneficiary # NoAddress

(* The audit trail is an unbroken chain that starts from no beneficiary and *)
(* ends at the one in force.  (keeper.go appendBeneficiaryChange,          *)
(* RecordInitialBeneficiary)                                               *)
HistoryIsUnbroken ==
  LET inForce(i) == IF i = 0 THEN NoAddress ELSE history[i].next
  IN /\ inForce(Len(history)) = params.beneficiary
     /\ \A i \in 1..Len(history) :
          history[i].prev = inForce(i - 1) /\ history[i].prev # history[i].next

(* Every payment can be traced: revenue goes to whoever was beneficiary    *)
(* when it accrued, somebody always was, and the audit trail names them    *)
(* all, through claims, changes that are refused, and re-imports.          *)
RevenueHasItsOwner ==
  RevenueReachesItsBeneficiary /\ PendingHasBeneficiary /\ HistoryIsUnbroken

(* Once the parameters allow automatic payout to an account x/bank will    *)
(* credit, revenue above the threshold does not stay pending.              *)
Payable == params.period # 0 /\ CanPay
RevenueIsPaid ==
  <>[]Payable => []<>(pending = 0 \/ pending < params.minPayout)
=============================================================================
