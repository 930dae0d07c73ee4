--------------------------- MODULE FeeFlowProofs ---------------------------
(***************************************************************************)
(* Theorems about FeeFlow, for every set of beneficiaries, every fee, every *)
(* parameter set governance may propose and every number of blocks.        *)
(***************************************************************************)
EXTENDS FeeFlow, TLAPS

Entry == [prev : Addresses \cup {NoAddress}, next : Addresses \cup {NoAddress}]

(* A cut is a natural number and never more than what it is cut from, nor  *)
(* than the ceiling's share of it.  (params.go FounderCut)                 *)
LEMMA CutBound ==
  ASSUME NEW a \in Nat, NEW b \in Nat, NEW c \in Nat, NEW d \in Nat \ {0},
         b <= c, c <= d
  PROVE  /\ (a * b) \div d \in Nat
         /\ (a * b) \div d <= a
         /\ ((a * b) \div d) * d <= c * a
<1>1. a * b \in Nat
  OBVIOUS
<1>2. a * b <= a * c
  OBVIOUS
<1>3. a * c <= a * d
  OBVIOUS
<1> DEFINE q == (a * b) \div d
<1>4. q \in Nat /\ q * d <= a * b
  BY <1>1
<1>5. q <= a
  <2>1. CASE q >= a + 1
    <3>1. q * d >= (a + 1) * d
      BY <1>4, <2>1
    <3>2. (a + 1) * d = a * d + d
      OBVIOUS
    <3> QED
      BY <1>2, <1>3, <1>4, <3>1, <3>2
  <2> QED
    BY <2>1, <1>4
<1> QED
  BY <1>2, <1>4, <1>5

LEMMA FounderCutBound ==
  ASSUME TypeOK, NEW a \in Nat
  PROVE  /\ FounderCut(a) \in Nat
         /\ FounderCut(a) <= a
         /\ FounderCut(a) * BasisPointDenominator <= MaxFounderFeeBasisPoints * a
<1>1. params.feeBps \in Nat /\ params.feeBps <= MaxFounderFeeBasisPoints
  BY DEF TypeOK, ParamsType
<1>2. /\ BasisPointDenominator \in Nat \ {0}
      /\ MaxFounderFeeBasisPoints \in Nat
      /\ MaxFounderFeeBasisPoints <= BasisPointDenominator
  BY BasisPointAssumption
<1>3. MaxFounderFeeBasisPoints * a \in Nat
  BY <1>2
<1>4. CASE params.beneficiary = NoAddress
  BY <1>2, <1>3, <1>4 DEF FounderCut
<1>5. CASE params.beneficiary # NoAddress
  <2>1. FounderCut(a) = (a * params.feeBps) \div BasisPointDenominator
    BY <1>5 DEF FounderCut
  <2> QED
    BY <1>1, <1>2, <2>1, CutBound
<1> QED
  BY <1>4, <1>5

----------------------------------------------------------------------------
(* Type correctness.                                                       *)

LEMMA InitType == Init => TypeOK
<1> SUFFICES ASSUME Init PROVE TypeOK
  OBVIOUS
<1>1. params \in ParamsType /\ params.feeBps <= MaxFounderFeeBasisPoints
  BY ParamsAssumption DEF Init, ValidParams
<1>2. history \in Seq(Entry)
  <2>1. Change(NoAddress, params.beneficiary) \in Entry
    BY <1>1 DEF ParamsType, Entry, Change
  <2>2. << >> \in Seq(Entry) /\ <<Change(NoAddress, params.beneficiary)>> \in Seq(Entry)
    BY <2>1
  <2> QED
    BY <2>2 DEF Init
<1> QED
  BY <1>1, <1>2 DEF Init, TypeOK, Entry

LEMMA PayoutType ==
  ASSUME TypeOK, CanPay, Payout
  PROVE  /\ pending' \in Nat
         /\ paidTo' \in [Addresses -> Nat]
         /\ ledger' \in [accrued : Nat, paid : Nat]
BY DEF TypeOK, CanPay, Payout

LEMMA NextType == TypeOK /\ [Next]_vars => TypeOK'
<1> SUFFICES ASSUME TypeOK, [Next]_vars PROVE TypeOK'
  OBVIOUS
<1>1. CASE BeginBlock
  <2> DEFINE gas == GasQualifying
             service == ServiceQualifying
             gasCut == FounderCut(gas)
             serviceCut == FounderCut(service)
  <2>1. /\ gas \in Nat /\ gas <= feeCollector
        /\ service \in Nat /\ service <= pool
    BY DEF TypeOK, GasQualifying, ServiceQualifying
  <2>2. /\ gasCut \in Nat /\ gasCut <= gas
        /\ serviceCut \in Nat /\ serviceCut <= service
    BY <2>1, FounderCutBound
  <2>3. NextHeight \in Nat
    BY BoundAssumption DEF NextHeight, TypeOK
  <2> HIDE DEF gas, service, gasCut, serviceCut
  <2>4. /\ phase' = "txs"
        /\ height' = NextHeight
        /\ Accrue(gasCut + serviceCut)
        /\ Record(gas, gasCut, service, serviceCut)
        /\ pool' = pool - service
        /\ AllocateTokens(NextHeight, feeCollector - gasCut + service - serviceCut)
        /\ UNCHANGED <<enabled, params, history, paidTo, charged, bounds>>
    BY <1>1 DEF BeginBlock, gas, service, gasCut, serviceCut
  <2>5. /\ pending' \in Nat /\ ledger' \in [accrued : Nat, paid : Nat]
        /\ accruedFor' \in [Addresses -> Nat]
    BY <2>2, <2>4 DEF TypeOK, Accrue
  <2>6. /\ totals' \in [qualifying : Nat, founderShare : Nat, validatorShare : Nat]
        /\ serviceRevenue' \in [gas : Nat, other : Nat]
    <3>1. gas - gasCut \in Nat /\ service - serviceCut \in Nat
      BY <2>1, <2>2
    <3>2. /\ totals.qualifying \in Nat /\ totals.founderShare \in Nat
          /\ totals.validatorShare \in Nat
          /\ serviceRevenue.gas \in Nat /\ serviceRevenue.other \in Nat
      BY DEF TypeOK
    <3>3. /\ totals.qualifying + gas + service \in Nat
          /\ totals.founderShare + gasCut + serviceCut \in Nat
          /\ totals.validatorShare + (gas - gasCut) + (service - serviceCut) \in Nat
          /\ serviceRevenue.gas + gas \in Nat /\ serviceRevenue.other + service \in Nat
      BY <2>1, <2>2, <3>1, <3>2
    <3> QED
      BY <2>4, <3>3 DEF Record
  <2>7. feeCollector' \in Nat /\ validators' \in Nat /\ pool' \in Nat
    <3> DEFINE collected == feeCollector - gasCut + service - serviceCut
    <3>1. feeCollector \in Nat /\ validators \in Nat /\ pool \in Nat
      BY DEF TypeOK
    <3>2. collected \in Nat /\ pool - service \in Nat
      BY <2>1, <2>2, <3>1
    <3>3. AllocateTokens(NextHeight, collected) /\ pool' = pool - service
      BY <2>4
    <3> HIDE DEF collected
    <3>4. validators + collected \in Nat
      BY <3>1, <3>2
    <3>5. \/ feeCollector' = 0 /\ validators' = validators + collected
          \/ feeCollector' = collected /\ validators' = validators
      BY <3>3 DEF AllocateTokens
    <3> QED
      BY <3>1, <3>2, <3>3, <3>4, <3>5
  <2> QED
    BY <2>3, <2>4, <2>5, <2>6, <2>7 DEF TypeOK, bounds
<1>2. ASSUME NEW fee \in GasFees, DeductGasFee(fee) PROVE TypeOK'
  BY <1>2, FeeAssumption DEF TypeOK, DeductGasFee, routerVars, founderVars
<1>3. ASSUME NEW fee \in ServiceFees, CollectServiceFee(fee) PROVE TypeOK'
  BY <1>3, FeeAssumption DEF TypeOK, CollectServiceFee, routerVars, founderVars
<1>4. CASE ClaimFounderRevenue
  BY <1>4, PayoutType DEF TypeOK, ClaimFounderRevenue, routerVars, feeVars, bounds
<1>5. CASE EndTxs
  BY <1>5 DEF TypeOK, EndTxs, routerVars, founderVars, feeVars, bounds
<1>6. ASSUME NEW next \in FounderParams, UpdateFounderParams(next) PROVE TypeOK'
  <2>1. /\ pending' \in Nat /\ paidTo' \in [Addresses -> Nat]
        /\ ledger' \in [accrued : Nat, paid : Nat]
    BY <1>6, PayoutType DEF UpdateFounderParams, SettleOutgoing, TypeOK
  <2>2. params' \in ParamsType /\ params'.feeBps <= MaxFounderFeeBasisPoints
    BY <1>6, ParamsAssumption DEF UpdateFounderParams, ValidParams
  <2>3. history' \in Seq(Entry)
    <3>1. Change(params.beneficiary, next.beneficiary) \in Entry
      BY ParamsAssumption DEF Change, Entry, TypeOK, ParamsType
    <3>2. history \in Seq(Entry)
      BY DEF TypeOK, Entry
    <3> QED
      BY <1>6, <3>1, <3>2 DEF UpdateFounderParams, AppendBeneficiaryChange
  <2> QED
    BY <1>6, <2>1, <2>2, <2>3
    DEF TypeOK, UpdateFounderParams, routerVars, feeVars, Entry
<1>7. CASE UpdateRouterParams
  <2>1. enabled' \in BOOLEAN
    BY <1>7 DEF UpdateRouterParams
  <2>2. changes' \in Nat
    BY <1>7 DEF UpdateRouterParams, TypeOK
  <2>3. UNCHANGED <<height, phase, totals, serviceRevenue, params, ledger, history,
                    pending, paidTo, accruedFor, feeCollector, pool, validators, charged,
                    feeTxs, restarts>>
    BY <1>7 DEF UpdateRouterParams, founderVars, feeVars
  <2> QED
    BY <2>1, <2>2, <2>3 DEF TypeOK
<1>8. CASE EndBlock
  <2>1. /\ pending' \in Nat /\ paidTo' \in [Addresses -> Nat]
        /\ ledger' \in [accrued : Nat, paid : Nat]
    BY <1>8, PayoutType DEF EndBlock, TypeOK
  <2> QED
    BY <1>8, <2>1 DEF TypeOK, EndBlock, routerVars, feeVars, bounds
<1>9. CASE Restart
  <2>1. history' \in Seq(Entry)
    <3>1. Change(NoAddress, params.beneficiary) \in Entry
      BY DEF Change, Entry, TypeOK, ParamsType
    <3>2. history \in Seq(Entry)
      BY DEF TypeOK, Entry
    <3> QED
      BY <1>9, <3>1, <3>2 DEF Restart, RecordInitialBeneficiary
  <2>2. height' \in Nat
    BY <1>9 DEF Restart, TypeOK
  <2>3. restarts' \in Nat
    BY <1>9 DEF Restart, TypeOK
  <2>4. UNCHANGED <<phase, enabled, totals, serviceRevenue, params, ledger, pending,
                    paidTo, accruedFor, feeCollector, pool, validators, charged,
                    feeTxs, changes>>
    BY <1>9 DEF Restart, routerVars, feeVars
  <2> QED
    BY <2>1, <2>2, <2>3, <2>4 DEF TypeOK, Entry
<1>10. CASE UNCHANGED vars
  BY <1>10 DEF TypeOK, vars, bounds
<1> QED
  BY <1>1, <1>2, <1>3, <1>4, <1>5, <1>6, <1>7, <1>8, <1>9, <1>10 DEF Next

(* Every reachable state has its type; in particular the fee in force never *)
(* exceeds the compiled ceiling.  (params.go Validate)                     *)
THEOREM TypeCorrect == Spec => []TypeOK
<1>1. Init => TypeOK
  BY InitType
<1>2. TypeOK /\ [Next]_vars => TypeOK'
  BY NextType
<1> QED
  BY <1>1, <1>2, PTL DEF Spec

----------------------------------------------------------------------------
(* The effect of a block's routing on the balances, as numbers.            *)
LEMMA RoutingEffect ==
  ASSUME TypeOK, BeginBlock
  PROVE  \E gas, service, gasCut, serviceCut \in Nat :
           /\ gas <= feeCollector /\ service <= pool
           /\ gasCut <= gas /\ serviceCut <= service
           /\ gasCut * BasisPointDenominator <= MaxFounderFeeBasisPoints * gas
           /\ serviceCut * BasisPointDenominator <= MaxFounderFeeBasisPoints * service
           /\ params.beneficiary = NoAddress => gasCut + serviceCut = 0
           /\ height' = NextHeight /\ phase' = "txs"
           /\ Accrue(gasCut + serviceCut)
           /\ Record(gas, gasCut, service, serviceCut)
           /\ pool' = pool - service
           /\ AllocateTokens(NextHeight, feeCollector - gasCut + service - serviceCut)
           /\ UNCHANGED <<enabled, params, history, paidTo, charged, bounds>>
<1>1. /\ GasQualifying \in Nat /\ GasQualifying <= feeCollector
      /\ ServiceQualifying \in Nat /\ ServiceQualifying <= pool
  BY DEF TypeOK, GasQualifying, ServiceQualifying
<1>2. /\ FounderCut(GasQualifying) \in Nat
      /\ FounderCut(GasQualifying) <= GasQualifying
      /\ FounderCut(GasQualifying) * BasisPointDenominator
           <= MaxFounderFeeBasisPoints * GasQualifying
  BY <1>1, FounderCutBound
<1>3. /\ FounderCut(ServiceQualifying) \in Nat
      /\ FounderCut(ServiceQualifying) <= ServiceQualifying
      /\ FounderCut(ServiceQualifying) * BasisPointDenominator
           <= MaxFounderFeeBasisPoints * ServiceQualifying
  BY <1>1, FounderCutBound
<1>4. params.beneficiary = NoAddress =>
        FounderCut(GasQualifying) + FounderCut(ServiceQualifying) = 0
  BY DEF FounderCut
<1> USE <1>1, <1>2, <1>3
<1> WITNESS GasQualifying \in Nat, ServiceQualifying \in Nat,
            FounderCut(GasQualifying) \in Nat, FounderCut(ServiceQualifying) \in Nat
<1> QED
  BY <1>1, <1>2, <1>3, <1>4 DEF BeginBlock

----------------------------------------------------------------------------
(* The books.                                                              *)

LEMMA NextBooks == TypeOK /\ BooksBalance /\ [Next]_vars => BooksBalance'
<1> SUFFICES ASSUME TypeOK, BooksBalance, [Next]_vars PROVE BooksBalance'
  OBVIOUS
<1>a. /\ ledger.accrued \in Nat /\ ledger.paid \in Nat
      /\ totals.qualifying \in Nat /\ totals.founderShare \in Nat
      /\ totals.validatorShare \in Nat
      /\ serviceRevenue.gas \in Nat /\ serviceRevenue.other \in Nat
      /\ feeCollector \in Nat /\ pool \in Nat /\ pending \in Nat
      /\ validators \in Nat /\ charged \in Nat
  BY DEF TypeOK
<1>1. CASE BeginBlock
  <2>1. PICK gas, service, gasCut, serviceCut \in Nat :
           /\ gas <= feeCollector /\ service <= pool
           /\ gasCut <= gas /\ serviceCut <= service
           /\ Accrue(gasCut + serviceCut)
           /\ Record(gas, gasCut, service, serviceCut)
           /\ pool' = pool - service
           /\ AllocateTokens(NextHeight, feeCollector - gasCut + service - serviceCut)
           /\ UNCHANGED <<paidTo, charged>>
    BY <1>1, RoutingEffect
  <2>2. /\ pending' = pending + gasCut + serviceCut
        /\ ledger'.accrued = ledger.accrued + gasCut + serviceCut
        /\ ledger'.paid = ledger.paid
    BY <2>1 DEF Accrue, TypeOK
  <2>3. /\ totals'.qualifying = totals.qualifying + gas + service
        /\ totals'.founderShare = totals.founderShare + gasCut + serviceCut
        /\ totals'.validatorShare =
             totals.validatorShare + (gas - gasCut) + (service - serviceCut)
        /\ serviceRevenue'.gas = serviceRevenue.gas + gas
        /\ serviceRevenue'.other = serviceRevenue.other + service
    BY <2>1 DEF Record
  <2>4. charged' = feeCollector' + pool' + pending' + validators' + ledger'.paid
    <3>1. charged = feeCollector + pool + pending + validators + ledger.paid
      BY DEF BooksBalance
    <3>2. charged' = charged /\ pool' = pool - service
      BY <2>1
    <3>3. CASE NextHeight > 1
      <4>1. /\ feeCollector' = 0
            /\ validators' = validators + (feeCollector - gasCut + service - serviceCut)
        BY <2>1, <3>3 DEF AllocateTokens
      <4> QED
        BY <1>a, <2>2, <3>1, <3>2, <4>1
    <3>4. CASE ~(NextHeight > 1)
      <4>1. /\ feeCollector' = feeCollector - gasCut + service - serviceCut
            /\ validators' = validators
        BY <2>1, <3>4 DEF AllocateTokens
      <4> QED
        BY <1>a, <2>2, <3>1, <3>2, <4>1
    <3> QED
      BY <3>3, <3>4
  <2>5. /\ pending' = ledger'.accrued - ledger'.paid
        /\ totals'.founderShare = ledger'.accrued
        /\ totals'.qualifying = totals'.founderShare + totals'.validatorShare
        /\ totals'.qualifying = serviceRevenue'.gas + serviceRevenue'.other
    BY <1>a, <2>1, <2>2, <2>3 DEF BooksBalance
  <2> QED
    BY <2>4, <2>5 DEF BooksBalance
<1>2. ASSUME NEW fee \in GasFees, DeductGasFee(fee) PROVE BooksBalance'
  <2>1. fee \in Nat
    BY FeeAssumption
  <2>2. /\ feeCollector' = feeCollector + fee /\ charged' = charged + fee
        /\ UNCHANGED <<totals, serviceRevenue, ledger, pending, pool, validators>>
    BY <1>2 DEF DeductGasFee, routerVars, founderVars
  <2> QED
    BY <1>a, <2>1, <2>2 DEF BooksBalance
<1>3. ASSUME NEW fee \in ServiceFees, CollectServiceFee(fee) PROVE BooksBalance'
  <2>1. fee \in Nat
    BY FeeAssumption
  <2>2. /\ pool' = pool + fee /\ charged' = charged + fee
        /\ UNCHANGED <<totals, serviceRevenue, ledger, pending, feeCollector, validators>>
    BY <1>3 DEF CollectServiceFee, routerVars, founderVars
  <2> QED
    BY <1>a, <2>1, <2>2 DEF BooksBalance
<1>4. ASSUME Payout, UNCHANGED <<totals, serviceRevenue, feeVars>> PROVE BooksBalance'
  <2>1. /\ pending' = 0 /\ ledger'.paid = ledger.paid + pending
        /\ ledger'.accrued = ledger.accrued
    BY <1>4 DEF Payout
  <2>2. UNCHANGED <<totals, serviceRevenue, feeCollector, pool, validators, charged>>
    BY <1>4 DEF feeVars
  <2> QED
    BY <1>a, <2>1, <2>2 DEF BooksBalance
<1>5. ASSUME UNCHANGED <<pending, ledger, totals, serviceRevenue, feeVars>>
      PROVE  BooksBalance'
  BY <1>5 DEF BooksBalance, feeVars
<1>6. CASE ClaimFounderRevenue
  BY <1>4, <1>6 DEF ClaimFounderRevenue, routerVars
<1>7. CASE EndTxs
  BY <1>5, <1>7 DEF EndTxs, routerVars, founderVars
<1>8. ASSUME NEW next \in FounderParams, UpdateFounderParams(next) PROVE BooksBalance'
  BY <1>4, <1>5, <1>8 DEF UpdateFounderParams, SettleOutgoing, routerVars
<1>9. CASE UpdateRouterParams
  BY <1>5, <1>9 DEF UpdateRouterParams, founderVars
<1>10. CASE EndBlock
  BY <1>4, <1>5, <1>10 DEF EndBlock, routerVars
<1>11. CASE Restart
  BY <1>5, <1>11 DEF Restart, routerVars
<1>12. CASE UNCHANGED vars
  BY <1>5, <1>12 DEF vars, feeVars
<1> QED
  BY <1>1, <1>2, <1>3, <1>6, <1>7, <1>8, <1>9, <1>10, <1>11, <1>12 DEF Next

(* The bank, the founder ledger and the feerouter totals always agree: no  *)
(* fee is created, lost or booked differently by the two modules.          *)
THEOREM BooksAlwaysBalance == Spec => []BooksBalance
<1>1. Init => BooksBalance
  BY DEF Init, BooksBalance
<1>2. TypeOK /\ BooksBalance /\ [Next]_vars => BooksBalance'
  BY NextBooks
<1> QED
  BY <1>1, <1>2, TypeCorrect, PTL DEF Spec

----------------------------------------------------------------------------
(* Each fee is measured once.  The invariant counts what is still waiting  *)
(* to be measured too: the fee collector and the pool hold only fees that  *)
(* no earlier block has measured.  That needs the fee collector to be      *)
(* empty after every BeginBlock, which x/distribution does above height 1; *)
(* at height 1 it was empty before, unless a zero-height export brought    *)
(* fees from an earlier chain.                                             *)
Unmeasured ==
  /\ totals.qualifying + pool + feeCollector <= charged
  /\ height = 0 => feeCollector = 0 /\ pool = 0 /\ phase = "idle"

LEMMA NextUnmeasured ==
  ASSUME ~ZeroHeightExport, TypeOK, Unmeasured, [Next]_vars
  PROVE  Unmeasured'
<1>a. /\ totals.qualifying \in Nat /\ feeCollector \in Nat /\ pool \in Nat
      /\ validators \in Nat /\ charged \in Nat /\ height \in Nat
  BY DEF TypeOK
<1>1. CASE BeginBlock
  <2>1. PICK gas, service, gasCut, serviceCut \in Nat :
           /\ gas <= feeCollector /\ service <= pool
           /\ gasCut <= gas /\ serviceCut <= service
           /\ height' = NextHeight
           /\ Record(gas, gasCut, service, serviceCut)
           /\ pool' = pool - service
           /\ AllocateTokens(NextHeight, feeCollector - gasCut + service - serviceCut)
           /\ UNCHANGED <<paidTo, charged>>
    BY <1>1, RoutingEffect
  <2>2. /\ totals'.qualifying = totals.qualifying + gas + service
        /\ charged' = charged /\ pool' = pool - service /\ height' = NextHeight
    BY <2>1 DEF Record
  <2>3. NextHeight \in Nat /\ NextHeight # 0 /\ (height # 0 => NextHeight > 1)
    BY <1>a, BoundAssumption DEF NextHeight
  <2>4. CASE height = 0
    <3>1. feeCollector = 0 /\ pool = 0
      BY <2>4 DEF Unmeasured
    <3>2. gas = 0 /\ service = 0 /\ gasCut = 0 /\ serviceCut = 0
      BY <2>1, <3>1
    <3>3. feeCollector' = 0
      BY <2>1, <3>1, <3>2 DEF AllocateTokens
    <3> QED
      BY <1>a, <2>2, <2>3, <3>1, <3>2, <3>3 DEF Unmeasured
  <2>5. CASE height # 0
    <3>1. feeCollector' = 0
      BY <2>1, <2>3, <2>5 DEF AllocateTokens
    <3> QED
      BY <1>a, <2>1, <2>2, <2>3, <3>1 DEF Unmeasured
  <2> QED
    BY <2>4, <2>5
<1>2. ASSUME NEW fee \in GasFees, DeductGasFee(fee) PROVE Unmeasured'
  <2>1. fee \in Nat
    BY FeeAssumption
  <2>2. /\ feeCollector' = feeCollector + fee /\ charged' = charged + fee
        /\ UNCHANGED <<totals, pool, height, phase>> /\ phase = "txs"
    BY <1>2 DEF DeductGasFee, routerVars
  <2> QED
    BY <1>a, <2>1, <2>2 DEF Unmeasured
<1>3. ASSUME NEW fee \in ServiceFees, CollectServiceFee(fee) PROVE Unmeasured'
  <2>1. fee \in Nat
    BY FeeAssumption
  <2>2. /\ pool' = pool + fee /\ charged' = charged + fee
        /\ UNCHANGED <<totals, feeCollector, height, phase>> /\ phase = "txs"
    BY <1>3 DEF CollectServiceFee, routerVars
  <2> QED
    BY <1>a, <2>1, <2>2 DEF Unmeasured
<1>4. ASSUME UNCHANGED <<totals, pool, feeCollector, charged, height>>,
             phase' = phase \/ phase # "idle"
      PROVE  Unmeasured'
  BY <1>4 DEF Unmeasured
<1>5. CASE ClaimFounderRevenue
  BY <1>4, <1>5 DEF ClaimFounderRevenue, routerVars, feeVars
<1>6. CASE EndTxs
  BY <1>4, <1>6 DEF EndTxs, routerVars, feeVars
<1>7. ASSUME NEW next \in FounderParams, UpdateFounderParams(next) PROVE Unmeasured'
  BY <1>4, <1>7 DEF UpdateFounderParams, routerVars, feeVars
<1>8. CASE UpdateRouterParams
  BY <1>4, <1>8 DEF UpdateRouterParams, feeVars
<1>9. CASE EndBlock
  BY <1>4, <1>9 DEF EndBlock, routerVars, feeVars
<1>10. CASE Restart
  <2>1. height' = height
    BY <1>10 DEF Restart
  <2> QED
    BY <1>4, <1>10, <2>1 DEF Restart, routerVars, feeVars
<1>11. CASE UNCHANGED vars
  BY <1>4, <1>11 DEF vars
<1> QED
  BY <1>1, <1>2, <1>3, <1>5, <1>6, <1>7, <1>8, <1>9, <1>10, <1>11 DEF Next

(* On a chain that is never restarted at height zero no fee is ever taxed  *)
(* twice, whatever the parameters and however blocks, fees and parameter   *)
(* changes interleave.                                                     *)
THEOREM MeasuredOnce ==
  ASSUME ~ZeroHeightExport
  PROVE  Spec => []NoDoubleTaxation
<1>1. Init => Unmeasured
  BY DEF Init, Unmeasured
<1>2. TypeOK /\ Unmeasured /\ [Next]_vars => Unmeasured'
  BY NextUnmeasured
<1>3. TypeOK /\ Unmeasured => NoDoubleTaxation
  BY DEF TypeOK, Unmeasured, NoDoubleTaxation
<1> QED
  BY <1>1, <1>2, <1>3, TypeCorrect, PTL DEF Spec

----------------------------------------------------------------------------
(* Whose revenue it is.                                                    *)

Owned == RevenueReachesItsBeneficiary /\ PendingHasBeneficiary

LEMMA PayoutOwned ==
  ASSUME TypeOK, Owned, CanPay, Payout, UNCHANGED accruedFor
  PROVE  /\ \A a \in Addresses : accruedFor'[a] = paidTo'[a]
         /\ pending' = 0
<1>1. params.beneficiary \in Addresses
  BY DEF CanPay
<1>2. pending \in Nat /\ paidTo \in [Addresses -> Nat]
  BY DEF TypeOK
<1>3. paidTo' = [paidTo EXCEPT ![params.beneficiary] = @ + pending] /\ pending' = 0
  BY DEF Payout
<1>4. ASSUME NEW a \in Addresses PROVE accruedFor'[a] = paidTo'[a]
  <2>1. paidTo'[a] = paidTo[a] + IF a = params.beneficiary THEN pending ELSE 0
    BY <1>1, <1>2, <1>3
  <2> QED
    BY <2>1 DEF Owned, RevenueReachesItsBeneficiary
<1> QED
  BY <1>3, <1>4

LEMMA NextOwned == TypeOK /\ Owned /\ [Next]_vars => Owned'
<1> SUFFICES ASSUME TypeOK, Owned, [Next]_vars PROVE Owned'
  OBVIOUS
<1>a. /\ pending \in Nat /\ paidTo \in [Addresses -> Nat]
      /\ accruedFor \in [Addresses -> Nat]
  BY DEF TypeOK
<1>1. CASE BeginBlock
  <2>1. PICK gas, service, gasCut, serviceCut \in Nat :
           /\ params.beneficiary = NoAddress => gasCut + serviceCut = 0
           /\ Accrue(gasCut + serviceCut)
           /\ UNCHANGED <<enabled, params, history, paidTo, charged, bounds>>
    BY <1>1, RoutingEffect
  <2> DEFINE cut == gasCut + serviceCut
  <2>2. cut \in Nat
    OBVIOUS
  <2> HIDE DEF cut
  <2>3. /\ pending' = pending + cut
        /\ accruedFor' = [a \in Addresses |->
             accruedFor[a] + IF a = params.beneficiary THEN cut ELSE 0]
        /\ params' = params /\ paidTo' = paidTo
        /\ params.beneficiary = NoAddress => cut = 0
    BY <2>1 DEF Accrue, cut
  <2>4. ASSUME NEW a \in Addresses
        PROVE  accruedFor'[a] = paidTo'[a] + IF a = params'.beneficiary THEN pending' ELSE 0
    <3>1. accruedFor[a] = paidTo[a] + IF a = params.beneficiary THEN pending ELSE 0
      BY DEF Owned, RevenueReachesItsBeneficiary
    <3>2. accruedFor[a] \in Nat /\ paidTo[a] \in Nat
      BY <1>a
    <3>3. accruedFor'[a] = accruedFor[a] + IF a = params.beneficiary THEN cut ELSE 0
      BY <2>3
    <3>4. CASE a = params.beneficiary
      BY <1>a, <2>2, <2>3, <3>1, <3>2, <3>3, <3>4
    <3>5. CASE a # params.beneficiary
      BY <1>a, <2>2, <2>3, <3>1, <3>2, <3>3, <3>5
    <3> QED
      BY <3>4, <3>5
  <2>5. pending' > 0 => params'.beneficiary # NoAddress
    BY <1>a, <2>2, <2>3 DEF Owned, PendingHasBeneficiary
  <2> QED
    BY <2>4, <2>5 DEF Owned, RevenueReachesItsBeneficiary, PendingHasBeneficiary
<1>2. ASSUME UNCHANGED <<params, pending, paidTo, accruedFor>> PROVE Owned'
  BY <1>2 DEF Owned, RevenueReachesItsBeneficiary, PendingHasBeneficiary
<1>3. ASSUME CanPay, Payout, UNCHANGED accruedFor PROVE Owned'
  <2>1. /\ \A a \in Addresses : accruedFor'[a] = paidTo'[a]
        /\ pending' = 0
    BY <1>3, PayoutOwned
  <2>2. paidTo' \in [Addresses -> Nat]
    BY <1>3, PayoutType
  <2> QED
    BY <2>1, <2>2 DEF Owned, RevenueReachesItsBeneficiary, PendingHasBeneficiary
<1>4. ASSUME NEW fee \in GasFees, DeductGasFee(fee) PROVE Owned'
  BY <1>2, <1>4 DEF DeductGasFee, founderVars
<1>5. ASSUME NEW fee \in ServiceFees, CollectServiceFee(fee) PROVE Owned'
  BY <1>2, <1>5 DEF CollectServiceFee, founderVars
<1>6. CASE ClaimFounderRevenue
  BY <1>3, <1>6 DEF ClaimFounderRevenue
<1>7. CASE EndTxs
  BY <1>2, <1>7 DEF EndTxs, founderVars
<1>8. ASSUME NEW next \in FounderParams, UpdateFounderParams(next) PROVE Owned'
  <2>1. SettleOutgoing(next) /\ params' = next /\ UNCHANGED accruedFor
    BY <1>8 DEF UpdateFounderParams
  <2>2. CASE next.beneficiary = params.beneficiary
    <3>1. UNCHANGED <<pending, paidTo, accruedFor>>
      BY <2>1, <2>2 DEF SettleOutgoing
    <3> QED
      BY <2>1, <2>2, <3>1 DEF Owned, RevenueReachesItsBeneficiary, PendingHasBeneficiary
  <2>3. CASE next.beneficiary # params.beneficiary /\ pending > 0
    <3>1. params.beneficiary # NoAddress
      BY <2>3 DEF Owned, PendingHasBeneficiary
    <3>2. CanPay /\ Payout
      BY <2>1, <2>3, <3>1 DEF SettleOutgoing
    <3> QED
      BY <1>3, <2>1, <3>2
  <2>4. CASE next.beneficiary # params.beneficiary /\ ~(pending > 0)
    <3>1. UNCHANGED <<pending, paidTo, accruedFor>> /\ pending = 0
      BY <1>a, <2>1, <2>4 DEF SettleOutgoing
    <3>2. \A a \in Addresses : accruedFor'[a] = paidTo'[a] /\ paidTo'[a] \in Nat
      BY <1>a, <3>1 DEF Owned, RevenueReachesItsBeneficiary
    <3> QED
      BY <3>1, <3>2 DEF Owned, RevenueReachesItsBeneficiary, PendingHasBeneficiary
  <2> QED
    BY <2>2, <2>3, <2>4
<1>9. CASE UpdateRouterParams
  BY <1>2, <1>9 DEF UpdateRouterParams, founderVars
<1>10. CASE EndBlock
  BY <1>2, <1>3, <1>10 DEF EndBlock
<1>11. CASE Restart
  BY <1>2, <1>11 DEF Restart
<1>12. CASE UNCHANGED vars
  BY <1>2, <1>12 DEF vars
<1> QED
  BY <1>1, <1>4, <1>5, <1>6, <1>7, <1>8, <1>9, <1>10, <1>11, <1>12 DEF Next

----------------------------------------------------------------------------
(* The audit trail of beneficiaries.                                       *)

InForce(h, i) == IF i = 0 THEN NoAddress ELSE h[i].next
Unbroken(h, b) ==
  /\ InForce(h, Len(h)) = b
  /\ \A i \in 1..Len(h) : h[i].prev = InForce(h, i - 1) /\ h[i].prev # h[i].next

LEMMA UnbrokenIsHistory == HistoryIsUnbroken <=> Unbroken(history, params.beneficiary)
BY DEF HistoryIsUnbroken, Unbroken, InForce

(* A change appended to an unbroken trail continues it.                    *)
LEMMA AppendUnbroken ==
  ASSUME NEW h \in Seq(Entry), NEW b, NEW c, Unbroken(h, b), b # c,
         Change(b, c) \in Entry
  PROVE  Unbroken(Append(h, Change(b, c)), c)
<1> DEFINE g == Append(h, Change(b, c))
<1>1. Len(h) \in Nat /\ Len(g) = Len(h) + 1
  OBVIOUS
<1>2. g[Len(h) + 1] = Change(b, c) /\ \A i \in 1..Len(h) : g[i] = h[i]
  OBVIOUS
<1> HIDE DEF g
<1>3. Change(b, c).prev = b /\ Change(b, c).next = c
  BY DEF Change
<1>4. InForce(g, Len(g)) = c
  BY <1>1, <1>2, <1>3 DEF InForce
<1>5. \A i \in 0..Len(h) : InForce(g, i) = InForce(h, i)
  BY <1>1, <1>2 DEF InForce
<1>6. ASSUME NEW i \in 1..Len(g)
      PROVE  g[i].prev = InForce(g, i - 1) /\ g[i].prev # g[i].next
  <2>1. CASE i \in 1..Len(h)
    <3>1. i - 1 \in 0..Len(h)
      BY <1>1, <2>1
    <3> QED
      BY <1>2, <1>5, <2>1, <3>1 DEF Unbroken
  <2>2. CASE i = Len(h) + 1
    <3>1. InForce(g, i - 1) = b
      BY <1>1, <1>5, <2>2 DEF Unbroken
    <3> QED
      BY <1>2, <1>3, <2>2, <3>1
  <2> QED
    BY <1>1, <2>1, <2>2
<1> QED
  BY <1>4, <1>6 DEF g, Unbroken

LEMMA InitHistory == Init => HistoryIsUnbroken
<1> SUFFICES ASSUME Init PROVE HistoryIsUnbroken
  OBVIOUS
<1>1. CASE params.beneficiary = NoAddress
  <2>1. history = << >>
    BY <1>1 DEF Init
  <2> QED
    BY <1>1, <2>1, UnbrokenIsHistory DEF Unbroken, InForce
<1>2. CASE params.beneficiary # NoAddress
  <2>1. history = <<Change(NoAddress, params.beneficiary)>>
    BY <1>2 DEF Init
  <2>2. Len(history) = 1 /\ history[1].prev = NoAddress
        /\ history[1].next = params.beneficiary
    BY <2>1 DEF Change
  <2> QED
    BY <1>2, <2>2, UnbrokenIsHistory DEF Unbroken, InForce
<1> QED
  BY <1>1, <1>2

LEMMA NextHistory == TypeOK /\ HistoryIsUnbroken /\ [Next]_vars => HistoryIsUnbroken'
<1> SUFFICES ASSUME TypeOK, HistoryIsUnbroken, [Next]_vars PROVE HistoryIsUnbroken'
  OBVIOUS
<1>1. Unbroken(history, params.beneficiary) /\ history \in Seq(Entry)
  BY UnbrokenIsHistory DEF TypeOK, Entry
<1>2. Unbroken(history', params'.beneficiary) => HistoryIsUnbroken'
  BY DEF HistoryIsUnbroken, Unbroken, InForce
<1>3. CASE \E next \in FounderParams : UpdateFounderParams(next)
  <2>1. PICK next \in FounderParams : UpdateFounderParams(next)
    BY <1>3
  <2>2. params' = next /\ AppendBeneficiaryChange(next)
    BY <2>1 DEF UpdateFounderParams
  <2>3. /\ params.beneficiary \in Addresses \cup {NoAddress}
        /\ next.beneficiary \in Addresses \cup {NoAddress}
    BY ParamsAssumption DEF TypeOK, ParamsType
  <2>4. CASE next.beneficiary = params.beneficiary
    <3>1. history' = history
      BY <2>2, <2>4 DEF AppendBeneficiaryChange
    <3> QED
      BY <1>1, <1>2, <2>2, <2>4, <3>1
  <2>5. CASE next.beneficiary # params.beneficiary
    <3>1. history' = Append(history, Change(params.beneficiary, next.beneficiary))
      BY <2>2, <2>5 DEF AppendBeneficiaryChange
    <3>2. Change(params.beneficiary, next.beneficiary) \in Entry
      BY <2>3 DEF Change, Entry
    <3>3. Unbroken(history', next.beneficiary)
      BY <1>1, <2>5, <3>1, <3>2, AppendUnbroken
    <3> QED
      BY <1>2, <2>2, <3>3
  <2> QED
    BY <2>4, <2>5
<1>4. CASE Restart
  <2>1. history' = RecordInitialBeneficiary(history) /\ params' = params
    BY <1>4 DEF Restart
  <2>2. history = << >> => params.beneficiary = NoAddress
    BY <1>1 DEF Unbroken, InForce
  <2>3. history' = history
    BY <2>1, <2>2 DEF RecordInitialBeneficiary
  <2> QED
    BY <1>1, <1>2, <2>1, <2>3
<1>5. CASE UNCHANGED <<history, params>>
  BY <1>1, <1>2, <1>5
<1>6. ~(\E next \in FounderParams : UpdateFounderParams(next)) /\ ~Restart
        => UNCHANGED <<history, params>>
  BY DEF Next, vars, BeginBlock, DeductGasFee, CollectServiceFee, ClaimFounderRevenue,
         EndTxs, UpdateRouterParams, EndBlock, founderVars
<1> QED
  BY <1>3, <1>4, <1>5, <1>6

(* Whatever governance does to the beneficiary, every address ends up with *)
(* exactly the revenue that accrued in its time, nothing is pending for    *)
(* nobody, and the history names every beneficiary in order.               *)
THEOREM RevenueIsOwned == Spec => []RevenueHasItsOwner
<1>1. Init => Owned /\ HistoryIsUnbroken
  BY InitHistory DEF Init, Owned, RevenueReachesItsBeneficiary, PendingHasBeneficiary
<1>2. TypeOK /\ Owned /\ [Next]_vars => Owned'
  BY NextOwned
<1>3. Owned /\ HistoryIsUnbroken => RevenueHasItsOwner
  BY DEF Owned, RevenueHasItsOwner
<1> QED
  BY <1>1, <1>2, <1>3, NextHistory, TypeCorrect, PTL DEF Spec

----------------------------------------------------------------------------
(* The realised Founder share.                                             *)

Share == ledger.accrued * BasisPointDenominator <= MaxFounderFeeBasisPoints * totals.qualifying

LEMMA SumOfCuts ==
  ASSUME NEW A \in Nat, NEW x \in Nat, NEW y \in Nat, NEW Q \in Nat,
         NEW g \in Nat, NEW s \in Nat, NEW D \in Nat, NEW M \in Nat,
         A * D <= M * Q, x * D <= M * g, y * D <= M * s
  PROVE  (A + x + y) * D <= M * (Q + g + s)
<1>1. (A + x + y) * D = A * D + x * D + y * D
  OBVIOUS
<1>2. M * (Q + g + s) = M * Q + M * g + M * s
  OBVIOUS
<1> QED
  BY <1>1, <1>2

LEMMA NextShare == TypeOK /\ Share /\ [Next]_vars => Share'
<1> SUFFICES ASSUME TypeOK, Share, [Next]_vars PROVE Share'
  OBVIOUS
<1>1. CASE BeginBlock
  <2>1. PICK gas, service, gasCut, serviceCut \in Nat :
           /\ gasCut * BasisPointDenominator <= MaxFounderFeeBasisPoints * gas
           /\ serviceCut * BasisPointDenominator <= MaxFounderFeeBasisPoints * service
           /\ Accrue(gasCut + serviceCut)
           /\ Record(gas, gasCut, service, serviceCut)
    BY <1>1, RoutingEffect
  <2>2. /\ ledger.accrued \in Nat /\ totals.qualifying \in Nat
        /\ BasisPointDenominator \in Nat /\ MaxFounderFeeBasisPoints \in Nat
    BY BasisPointAssumption DEF TypeOK
  <2>3. ledger'.accrued = ledger.accrued + gasCut + serviceCut
    BY <2>1, <2>2 DEF Accrue
  <2>4. totals'.qualifying = totals.qualifying + gas + service
    BY <2>1 DEF Record
  <2>5. (ledger.accrued + gasCut + serviceCut) * BasisPointDenominator
          <= MaxFounderFeeBasisPoints * (totals.qualifying + gas + service)
    BY <2>1, <2>2, SumOfCuts DEF Share
  <2> QED
    BY <2>3, <2>4, <2>5 DEF Share
<1>2. ASSUME ledger'.accrued = ledger.accrued, totals' = totals PROVE Share'
  BY <1>2 DEF Share
<1>3. ASSUME NEW fee \in GasFees, DeductGasFee(fee) PROVE Share'
  BY <1>2, <1>3 DEF DeductGasFee, founderVars, routerVars
<1>4. ASSUME NEW fee \in ServiceFees, CollectServiceFee(fee) PROVE Share'
  BY <1>2, <1>4 DEF CollectServiceFee, founderVars, routerVars
<1>5. CASE ClaimFounderRevenue
  BY <1>2, <1>5 DEF ClaimFounderRevenue, Payout, routerVars
<1>6. CASE EndTxs
  BY <1>2, <1>6 DEF EndTxs, founderVars, routerVars
<1>7. ASSUME NEW next \in FounderParams, UpdateFounderParams(next) PROVE Share'
  BY <1>2, <1>7 DEF UpdateFounderParams, SettleOutgoing, Payout, routerVars
<1>8. CASE UpdateRouterParams
  BY <1>2, <1>8 DEF UpdateRouterParams, founderVars
<1>9. CASE EndBlock
  BY <1>2, <1>9 DEF EndBlock, Payout, routerVars
<1>10. CASE Restart
  BY <1>2, <1>10 DEF Restart, routerVars
<1>11. CASE UNCHANGED vars
  BY <1>2, <1>11 DEF vars
<1> QED
  BY <1>1, <1>3, <1>4, <1>5, <1>6, <1>7, <1>8, <1>9, <1>10, <1>11 DEF Next

(* Over the whole life of a chain that is never restarted at height zero,  *)
(* the Founder accrues at most the compiled ceiling's share of what users  *)
(* paid.                                                                   *)
THEOREM CeilingHolds ==
  ASSUME ~ZeroHeightExport
  PROVE  Spec => []RealisedShareBelowCeiling
<1>1. Init => Share
  <2> SUFFICES ASSUME Init PROVE Share
    OBVIOUS
  <2>1. ledger.accrued = 0 /\ totals.qualifying = 0
    BY DEF Init
  <2> QED
    BY <2>1, BasisPointAssumption DEF Share
<1>2. TypeOK /\ Share /\ [Next]_vars => Share'
  BY NextShare
<1>3. TypeOK /\ Share /\ NoDoubleTaxation => RealisedShareBelowCeiling
  <2> SUFFICES ASSUME TypeOK, Share, NoDoubleTaxation PROVE RealisedShareBelowCeiling
    OBVIOUS
  <2>1. /\ totals.qualifying \in Nat /\ charged \in Nat /\ ledger.accrued \in Nat
        /\ BasisPointDenominator \in Nat /\ MaxFounderFeeBasisPoints \in Nat
    BY BasisPointAssumption DEF TypeOK
  <2>2. MaxFounderFeeBasisPoints * totals.qualifying <= MaxFounderFeeBasisPoints * charged
    BY <2>1 DEF NoDoubleTaxation
  <2> QED
    BY <2>1, <2>2 DEF Share, RealisedShareBelowCeiling
<1> QED
  BY <1>1, <1>2, <1>3, TypeCorrect, MeasuredOnce, PTL DEF Spec

(* No fee is taxed twice and the Founder never has more than the compiled  *)
(* ceiling's share, over the whole life of a chain that is never restarted *)
(* at height zero.                                                         *)
THEOREM ShareAlwaysBounded ==
  ASSUME ~ZeroHeightExport
  PROVE  Spec => []ShareIsBounded
<1>1. NoDoubleTaxation /\ RealisedShareBelowCeiling => ShareIsBounded
  BY DEF ShareIsBounded
<1> QED
  BY <1>1, MeasuredOnce, CeilingHolds, PTL
=============================================================================
