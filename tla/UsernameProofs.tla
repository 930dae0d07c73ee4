--------------------------- MODULE UsernameProofs ---------------------------
(***************************************************************************)
(* Proofs about Username, for any names, owners, folding and parameters.   *)
(* The inductive invariant says that both indexes describe the             *)
(* registrations exactly; that no two confusable names are registered, and *)
(* that a look-alike cannot evict an owner, follow from it.                *)
(***************************************************************************)
EXTENDS Username, TLAPS

Inv == TypeOK /\ SkeletonIndexAgrees /\ OwnerIndexAgrees

(* A registered name has a typed registration.                             *)
LEMMA RegisteredTyped ==
  ASSUME TypeOK, NEW n \in Names, reg[n] # NoReg
  PROVE  /\ reg[n] \in Registration
         /\ reg[n].owner \in Owners /\ reg[n].expiry \in Nat
         /\ reg[n].transferable \in BOOLEAN
BY DEF TypeOK, Registration

LEMMA ParamsTyped ==
  ASSUME TypeOK
  PROVE  /\ params.period \in Nat /\ params.grace \in Nat
         /\ params.registrationFee \in Nat /\ params.renewalFee \in Nat
         /\ height \in Nat
BY ParamsAssumption, BoundAssumption DEF TypeOK, ParamsType

(* Writing r for n keeps both indexes exact, provided every look-alike of n*)
(* is removed first and n's own entry is removed when its owner changes.   *)
LEMMA WriteKeepsIndexes ==
  ASSUME Inv, NEW n \in Names, NEW r \in Registration, NEW gone \in SUBSET Registered,
         \A m \in Registered : Skeleton[m] = Skeleton[n] /\ m # n => m \in gone,
         reg[n] # NoReg /\ n \notin gone => reg[n].owner = r.owner,
         Write(gone, n, r)
  PROVE  /\ reg' \in [Names -> Registration \cup {NoReg}]
         /\ skeletons' \in [Skeletons -> Names \cup {NoName}]
         /\ ownerIndex' \subseteq Owners \X Names
         /\ SkeletonIndexAgrees' /\ OwnerIndexAgrees'
<1> USE DomainAssumption
<1>1. reg' \in [Names -> Registration \cup {NoReg}]
  BY DEF Inv, TypeOK, Write
<1>2. skeletons' \in [Skeletons -> Names \cup {NoName}]
  BY DEF Inv, TypeOK, Write
<1>3. /\ reg'[n] = r /\ r # NoReg /\ r.owner \in Owners
      /\ \A m \in Names \ {n} : reg'[m] = IF m \in gone THEN NoReg ELSE reg[m]
  BY DEF Write, Registration
<1>4. Registered' = (Registered \ gone) \cup {n}
  BY <1>3 DEF Registered
<1>5. ownerIndex' \subseteq Owners \X Names
  BY <1>3 DEF Inv, TypeOK, Write
<1>6. OwnerIndexAgrees'
  <2>1. ownerIndex = {<<reg[m].owner, m>> : m \in Registered}
    BY DEF Inv, OwnerIndexAgrees
  <2>2. ASSUME NEW e
        PROVE  e \in ownerIndex' <=> e \in {<<reg'[m].owner, m>> : m \in Registered'}
    <3>1. e \in ownerIndex' <=>
            \/ e = <<r.owner, n>>
            \/ e \in ownerIndex /\ \A m \in gone : e # <<reg[m].owner, m>>
      BY DEF Write
    <3>2. ASSUME e \in ownerIndex, \A m \in gone : e # <<reg[m].owner, m>>
          PROVE  \E m \in Registered' : e = <<reg'[m].owner, m>>
      <4>1. PICK m \in Registered : e = <<reg[m].owner, m>>
        BY <2>1, <3>2
      <4>2. m \notin gone
        BY <3>2, <4>1
      <4>3. m \in Registered' /\ m \in Names
        BY <1>4, <4>2 DEF Registered
      <4>4. reg'[m].owner = reg[m].owner
        BY <1>3, <4>2, <4>3 DEF Registered
      <4> QED
        BY <4>1, <4>3, <4>4
    <3>3. ASSUME NEW m \in Registered', e = <<reg'[m].owner, m>>
          PROVE  e \in ownerIndex'
      <4>1. CASE m = n
        BY <3>3, <4>1, <1>3, <3>1
      <4>2. CASE m # n
        <5>1. m \in Registered /\ m \notin gone /\ m \in Names
          BY <4>2, <1>4 DEF Registered
        <5>2. reg'[m] = reg[m]
          BY <4>2, <5>1, <1>3
        <5>3. e = <<reg[m].owner, m>>
          BY <3>3, <5>2
        <5>4. e \in ownerIndex
          BY <2>1, <5>1, <5>3
        <5>5. \A g \in gone : e # <<reg[g].owner, g>>
          BY <5>1, <5>3
        <5> QED
          BY <5>4, <5>5, <3>1
      <4> QED
        BY <4>1, <4>2
    <3>4. n \in Registered' /\ <<r.owner, n>> = <<reg'[n].owner, n>>
      BY <1>3, <1>4
    <3> QED
      BY <3>1, <3>2, <3>3, <3>4
  <2> QED
    BY <2>2 DEF OwnerIndexAgrees
<1>7. SkeletonIndexAgrees'
  <2>1. /\ \A m \in Registered : skeletons[Skeleton[m]] = m
        /\ \A s \in Skeletons : skeletons[s] # NoName =>
             skeletons[s] \in Registered /\ Skeleton[skeletons[s]] = s
    BY DEF Inv, SkeletonIndexAgrees
  <2>2. \A s \in Skeletons : skeletons'[s] =
          IF s = Skeleton[n] THEN n
          ELSE IF \E m \in gone : Skeleton[m] = s THEN NoName ELSE skeletons[s]
    BY DEF Write
  <2>3. gone \subseteq Registered /\ Registered \subseteq Names
    BY DEF Registered
  <2>4. ASSUME NEW m \in Registered'
        PROVE  skeletons'[Skeleton[m]] = m
    <3>1. CASE m = n
      BY <3>1, <2>2
    <3>2. CASE m # n
      <4>1. m \in Registered /\ m \notin gone
        BY <3>2, <1>4
      <4>2. Skeleton[m] # Skeleton[n] /\ Skeleton[m] \in Skeletons
        BY <3>2, <4>1, <2>3
      <4>3. ~ \E g \in gone : Skeleton[g] = Skeleton[m]
        BY <2>1, <2>3, <4>1
      <4> QED
        BY <2>1, <2>2, <4>1, <4>2, <4>3
    <3> QED
      BY <3>1, <3>2
  <2>5. ASSUME NEW s \in Skeletons, skeletons'[s] # NoName
        PROVE  skeletons'[s] \in Registered' /\ Skeleton[skeletons'[s]] = s
    <3>1. CASE s = Skeleton[n]
      BY <3>1, <2>2, <1>4
    <3>2. CASE s # Skeleton[n]
      <4>1. skeletons'[s] = skeletons[s] /\ ~ \E m \in gone : Skeleton[m] = s
        BY <3>2, <2>2, <2>5
      <4>2. skeletons[s] \in Registered /\ Skeleton[skeletons[s]] = s
        BY <4>1, <2>1, <2>5
      <4>3. skeletons[s] \notin gone
        BY <4>1, <4>2
      <4> QED
        BY <4>1, <4>2, <4>3, <1>4
    <3> QED
      BY <3>1, <3>2
  <2> QED
    BY <2>4, <2>5 DEF SkeletonIndexAgrees
<1> QED
  BY <1>1, <1>2, <1>5, <1>6, <1>7

(* Registered names have different skeletons: the index has one entry each.*)
LEMMA OneSpelling ==
  ASSUME SkeletonIndexAgrees, NEW m \in Registered, NEW n \in Registered,
         Skeleton[m] = Skeleton[n]
  PROVE  m = n
BY DEF SkeletonIndexAgrees

(* What Register clears away is registered, holds every look-alike of the  *)
(* name, and is past its grace period.                                     *)
LEMMA TakeOverClears ==
  ASSUME Inv, NEW n \in Names, Available(n)
  PROVE  /\ TakenOver(n) \in SUBSET Registered
         /\ \A m \in Registered : Skeleton[m] = Skeleton[n] => m \in TakenOver(n)
         /\ \A m \in TakenOver(n) : Claimable(reg[m])
<1> USE DomainAssumption
<1>1. skeletons[Skeleton[n]] \in Names \cup {NoName}
  BY DEF Inv, TypeOK
<1>2. TakenOver(n) \in SUBSET Registered
  BY <1>1 DEF TakenOver, Registered
<1>3. ASSUME NEW m \in Registered, Skeleton[m] = Skeleton[n]
      PROVE  m \in TakenOver(n)
  <2>1. m \in Names /\ reg[m] # NoReg /\ m # NoName
    BY DEF Registered
  <2>2. skeletons[Skeleton[n]] = m
    BY <1>3 DEF Inv, SkeletonIndexAgrees
  <2>3. m = n \/ Claimable(reg[m])
    BY <2>1, <2>2 DEF Available
  <2> QED
    BY <2>1, <2>2, <2>3 DEF TakenOver
<1>4. ASSUME NEW m \in TakenOver(n)
      PROVE  Claimable(reg[m])
  BY <1>4 DEF TakenOver, Available
<1> QED
  BY <1>2, <1>3, <1>4

LEMMA RegisterStep ==
  ASSUME Inv, NEW o \in Owners, NEW n \in Names, Register(o, n)
  PROVE  Inv'
<1> DEFINE r == [owner |-> o, transferable |-> TRUE,
                 expiry |-> IF params.period > 0 THEN height + params.period ELSE 0]
<1>1. /\ Available(n) /\ Write(TakenOver(n), n, r)
      /\ UNCHANGED <<height, params, changes>>
      /\ revenue' = revenue + params.registrationFee /\ paid' = paid + 1 /\ signer' = o
  BY DEF Register, CollectServiceFee
<1>2. TypeOK /\ params.period \in Nat /\ height \in Nat /\ params.registrationFee \in Nat
  BY ParamsTyped DEF Inv
<1>3. (IF params.period > 0 THEN height + params.period ELSE 0) \in Nat
  BY <1>2
<1>4. r \in Registration
  BY <1>3 DEF Registration
<1>5. /\ TakenOver(n) \in SUBSET Registered
      /\ \A m \in Registered : Skeleton[m] = Skeleton[n] => m \in TakenOver(n)
  BY <1>1, TakeOverClears
<1>6. reg[n] # NoReg => n \in TakenOver(n)
  BY <1>5 DEF Registered
<1> HIDE DEF r
<1>7. /\ reg' \in [Names -> Registration \cup {NoReg}]
      /\ skeletons' \in [Skeletons -> Names \cup {NoName}]
      /\ ownerIndex' \subseteq Owners \X Names
      /\ SkeletonIndexAgrees' /\ OwnerIndexAgrees'
  BY <1>1, <1>4, <1>5, <1>6, WriteKeepsIndexes
<1>8. revenue' \in Nat /\ paid' \in Nat
  BY <1>1, <1>2 DEF TypeOK
<1>9. TypeOK'
  BY <1>1, <1>2, <1>7, <1>8 DEF TypeOK
<1> QED
  BY <1>7, <1>9 DEF Inv

LEMMA RenewStep ==
  ASSUME Inv, NEW o \in Owners, NEW n \in Names, Renew(o, n)
  PROVE  Inv'
<1> DEFINE r == [owner |-> o, transferable |-> reg[n].transferable,
                 expiry |-> Extended(reg[n])]
<1>1. /\ OwnedBy(o, n) /\ Write({}, n, r)
      /\ UNCHANGED <<height, params, changes>>
      /\ revenue' = revenue + params.renewalFee /\ paid' = paid + 1 /\ signer' = o
  BY DEF Renew, CollectServiceFee
<1>2. TypeOK /\ params.period \in Nat /\ height \in Nat /\ params.renewalFee \in Nat
  BY ParamsTyped DEF Inv
<1>3. n \in Registered /\ reg[n].owner = o
  BY <1>1 DEF OwnedBy, Registered
<1>4. reg[n].expiry \in Nat /\ reg[n].transferable \in BOOLEAN
  BY <1>1, <1>2, RegisteredTyped DEF OwnedBy
<1>5. Extended(reg[n]) \in Nat
  BY <1>2, <1>4 DEF Extended
<1>6. r \in Registration
  BY <1>4, <1>5 DEF Registration
<1>7. \A m \in Registered : Skeleton[m] = Skeleton[n] => m = n
  BY <1>3, OneSpelling DEF Inv
<1>8. r.owner = o
  OBVIOUS
<1> HIDE DEF r
<1>9. /\ reg' \in [Names -> Registration \cup {NoReg}]
      /\ skeletons' \in [Skeletons -> Names \cup {NoName}]
      /\ ownerIndex' \subseteq Owners \X Names
      /\ SkeletonIndexAgrees' /\ OwnerIndexAgrees'
  BY <1>1, <1>3, <1>6, <1>7, <1>8, WriteKeepsIndexes
<1>10. revenue' \in Nat /\ paid' \in Nat
  BY <1>1, <1>2 DEF TypeOK
<1>11. TypeOK'
  BY <1>1, <1>2, <1>9, <1>10 DEF TypeOK
<1> QED
  BY <1>9, <1>11 DEF Inv

LEMMA TransferStep ==
  ASSUME Inv, NEW o \in Owners, NEW n \in Names, NEW to \in Owners, Transfer(o, n, to)
  PROVE  Inv'
<1> DEFINE r == [owner |-> to, transferable |-> reg[n].transferable, expiry |-> reg[n].expiry]
<1>1. /\ OwnedBy(o, n) /\ Write({n}, n, r) /\ signer' = o
      /\ UNCHANGED <<height, params, revenue, paid, changes>>
  BY DEF Transfer
<1>2. n \in Registered /\ TypeOK
  BY <1>1 DEF OwnedBy, Registered, Inv
<1>3. reg[n].expiry \in Nat /\ reg[n].transferable \in BOOLEAN
  BY <1>1, <1>2, RegisteredTyped DEF OwnedBy
<1>4. r \in Registration
  BY <1>3 DEF Registration
<1>5. \A m \in Registered : Skeleton[m] = Skeleton[n] => m = n
  BY <1>2, OneSpelling DEF Inv
<1>6. {n} \in SUBSET Registered
  BY <1>2
<1> HIDE DEF r
<1>7. /\ reg' \in [Names -> Registration \cup {NoReg}]
      /\ skeletons' \in [Skeletons -> Names \cup {NoName}]
      /\ ownerIndex' \subseteq Owners \X Names
      /\ SkeletonIndexAgrees' /\ OwnerIndexAgrees'
  BY <1>1, <1>4, <1>5, <1>6, WriteKeepsIndexes
<1>8. TypeOK'
  BY <1>1, <1>2, <1>7 DEF TypeOK
<1> QED
  BY <1>7, <1>8 DEF Inv

LEMMA SetTransferableStep ==
  ASSUME Inv, NEW o \in Owners, NEW n \in Names, NEW on \in BOOLEAN,
         SetTransferable(o, n, on)
  PROVE  Inv'
<1> DEFINE r == [owner |-> o, transferable |-> on, expiry |-> reg[n].expiry]
<1>1. /\ OwnedBy(o, n) /\ Write({}, n, r) /\ signer' = o
      /\ UNCHANGED <<height, params, revenue, paid, changes>>
  BY DEF SetTransferable
<1>2. n \in Registered /\ TypeOK /\ reg[n].owner = o
  BY <1>1 DEF OwnedBy, Registered, Inv
<1>3. reg[n].expiry \in Nat
  BY <1>1, <1>2, RegisteredTyped DEF OwnedBy
<1>4. r \in Registration /\ r.owner = o
  BY <1>3 DEF Registration
<1>5. \A m \in Registered : Skeleton[m] = Skeleton[n] => m = n
  BY <1>2, OneSpelling DEF Inv
<1> HIDE DEF r
<1>7. /\ reg' \in [Names -> Registration \cup {NoReg}]
      /\ skeletons' \in [Skeletons -> Names \cup {NoName}]
      /\ ownerIndex' \subseteq Owners \X Names
      /\ SkeletonIndexAgrees' /\ OwnerIndexAgrees'
  BY <1>1, <1>2, <1>4, <1>5, WriteKeepsIndexes
<1>8. TypeOK'
  BY <1>1, <1>2, <1>7 DEF TypeOK
<1> QED
  BY <1>7, <1>8 DEF Inv

LEMMA ReleaseStep ==
  ASSUME Inv, NEW o \in Owners, NEW n \in Names, Release(o, n)
  PROVE  Inv'
<1> USE DomainAssumption
<1>1. /\ n \in Registered /\ reg[n].owner = o /\ TypeOK
      /\ SkeletonIndexAgrees /\ OwnerIndexAgrees
  BY DEF Release, OwnedBy, Registered, Inv
<1>2. /\ reg' = [reg EXCEPT ![n] = NoReg]
      /\ skeletons' = [skeletons EXCEPT ![Skeleton[n]] = NoName]
      /\ ownerIndex' = ownerIndex \ {<<o, n>>}
      /\ signer' = o
      /\ UNCHANGED <<height, params, revenue, paid, changes>>
  BY DEF Release
<1>3. TypeOK'
  BY <1>1, <1>2 DEF TypeOK
<1>4. /\ reg'[n] = NoReg
      /\ \A m \in Names \ {n} : reg'[m] = reg[m]
  BY <1>1, <1>2 DEF TypeOK
<1>5. Registered' = Registered \ {n}
  BY <1>4 DEF Registered
<1>6. SkeletonIndexAgrees'
  BY <1>1, <1>2, <1>5 DEF SkeletonIndexAgrees, Registered, TypeOK
<1>7. OwnerIndexAgrees'
  <2>1. ASSUME NEW e
        PROVE  e \in ownerIndex' <=> e \in {<<reg'[m].owner, m>> : m \in Registered'}
    <3>1. e \in ownerIndex' <=> e # <<o, n>> /\ \E m \in Registered : e = <<reg[m].owner, m>>
      BY <1>1, <1>2 DEF OwnerIndexAgrees
    <3>2. \A m \in Registered' : reg'[m] = reg[m] /\ m # n /\ m \in Registered
      BY <1>4, <1>5 DEF Registered
    <3>3. \A m \in Registered : m # n => m \in Registered'
      BY <1>5
    <3> QED
      BY <1>1, <3>1, <3>2, <3>3
  <2> QED
    BY <2>1 DEF OwnerIndexAgrees
<1> QED
  BY <1>3, <1>6, <1>7 DEF Inv

LEMMA RestartStep ==
  ASSUME Inv, Restart
  PROVE  Inv'
<1> USE DomainAssumption
<1>1. /\ TypeOK /\ SkeletonIndexAgrees
      /\ skeletons' = [s \in Skeletons |->
           IF \E n \in Registered : Skeleton[n] = s
           THEN CHOOSE n \in Registered : Skeleton[n] = s ELSE NoName]
      /\ ownerIndex' = {<<reg[n].owner, n>> : n \in Registered}
      /\ signer' = Nobody
      /\ UNCHANGED <<height, params, reg, revenue, paid, changes>>
  BY DEF Inv, Restart
<1>2. Registered' = Registered /\ Registered \subseteq Names
  BY <1>1 DEF Registered
<1>3. \A s \in Skeletons : (\E n \in Registered : Skeleton[n] = s) =>
        skeletons'[s] \in Registered /\ Skeleton[skeletons'[s]] = s
  BY <1>1
<1>4. \A s \in Skeletons : ~(\E n \in Registered : Skeleton[n] = s) => skeletons'[s] = NoName
  BY <1>1
<1>5. skeletons' \in [Skeletons -> Names \cup {NoName}]
  <2>1. \A s \in Skeletons : skeletons'[s] \in Names \cup {NoName}
    BY <1>2, <1>3, <1>4
  <2> QED
    BY <1>1, <2>1
<1>6. ownerIndex' \subseteq Owners \X Names
  BY <1>1, <1>2, RegisteredTyped DEF Registered
<1>7. TypeOK'
  BY <1>1, <1>5, <1>6 DEF TypeOK
<1>8. SkeletonIndexAgrees'
  <2>1. ASSUME NEW n \in Registered
        PROVE  skeletons'[Skeleton[n]] = n
    BY <1>1, <1>2, <1>3, OneSpelling
  <2> QED
    BY <1>2, <1>3, <1>4, <2>1 DEF SkeletonIndexAgrees
<1>9. OwnerIndexAgrees'
  BY <1>1, <1>2 DEF OwnerIndexAgrees
<1> QED
  BY <1>7, <1>8, <1>9 DEF Inv

LEMMA InitInv == Init => Inv
<1> SUFFICES ASSUME Init PROVE Inv
  OBVIOUS
<1> USE DomainAssumption, ParamsAssumption, BoundAssumption DEF Init
<1>1. TypeOK
  BY DEF TypeOK
<1>2. Registered = {}
  BY DEF Registered
<1>3. SkeletonIndexAgrees /\ OwnerIndexAgrees
  BY <1>2 DEF SkeletonIndexAgrees, OwnerIndexAgrees
<1> QED
  BY <1>1, <1>3 DEF Inv

(* The steps that leave the three stores alone.                            *)
LEMMA StoresStill ==
  ASSUME Inv, UNCHANGED stores, TypeOK'
  PROVE  Inv'
BY DEF Inv, stores, SkeletonIndexAgrees, OwnerIndexAgrees, Registered

LEMMA StepInv == Inv /\ [Next]_vars => Inv'
<1> SUFFICES ASSUME Inv, [Next]_vars PROVE Inv'
  OBVIOUS
<1>1. CASE \E o \in Owners, n \in Names : Register(o, n)
  BY <1>1, RegisterStep
<1>2. CASE \E o \in Owners, n \in Names : Renew(o, n)
  BY <1>2, RenewStep
<1>3. CASE \E o \in Owners, n \in Names, to \in Owners : Transfer(o, n, to)
  BY <1>3, TransferStep
<1>4. CASE \E o \in Owners, n \in Names, on \in BOOLEAN : SetTransferable(o, n, on)
  BY <1>4, SetTransferableStep
<1>5. CASE \E o \in Owners, n \in Names : Release(o, n)
  BY <1>5, ReleaseStep
<1>6. CASE \E p \in ParamSets : UpdateParams(p)
  <2>1. UNCHANGED stores /\ params' \in ParamSets
    BY <1>6 DEF UpdateParams
  <2>2. TypeOK'
    BY <1>6, <2>1 DEF UpdateParams, Inv, TypeOK, stores
  <2> QED
    BY <2>1, <2>2, StoresStill
<1>7. CASE NextBlock
  <2>1. UNCHANGED stores
    BY <1>7 DEF NextBlock
  <2>2. height' \in 1..MaxHeight
    BY <1>7, BoundAssumption DEF NextBlock, Inv, TypeOK
  <2>3. TypeOK'
    BY <1>7, <2>1, <2>2 DEF NextBlock, Inv, TypeOK, stores
  <2> QED
    BY <2>1, <2>3, StoresStill
<1>8. CASE Restart
  BY <1>8, RestartStep
<1>9. CASE UNCHANGED vars
  BY <1>9 DEF Inv, TypeOK, vars, stores, SkeletonIndexAgrees, OwnerIndexAgrees, Registered
<1> QED
  BY <1>1, <1>2, <1>3, <1>4, <1>5, <1>6, <1>7, <1>8, <1>9 DEF Next

LEMMA Inductive == Spec => []Inv
<1> QED
  BY InitInv, StepInv, PTL DEF Spec

(* Every store keeps the type the code declares, whatever is submitted.    *)
THEOREM TypeCorrect == Spec => []TypeOK
<1>1. Inv => TypeOK
  BY DEF Inv
<1> QED
  BY <1>1, Inductive, PTL

(* Registration, take-over, transfer, release and re-import never leave a  *)
(* dangling or missing entry in either index of x/username, and two names  *)
(* with the same skeleton are never registered together, however Skeleton  *)
(* folds them (CheckAvailability).                                         *)
THEOREM NamesAlwaysAgree == Spec => []NamesAgree
<1>1. Inv => NamesAgree
  BY OneSpelling DEF Inv, NamesAgree, NoConfusablePair
<1> QED
  BY <1>1, Inductive, PTL

(* The code's test and the property's count the same blocks.               *)
LEMMA ClaimableIsPastGrace ==
  ASSUME TypeOK, NEW n \in Registered, Claimable(reg[n])
  PROVE  PastGrace(reg[n])
BY RegisteredTyped, ParamsTyped DEF Claimable, PastGrace, Registered

LEMMA GraceStep ==
  ASSUME Inv, [Next]_vars, NEW n \in Registered,
         reg'[n] = NoReg \/ reg'[n].owner # reg[n].owner
  PROVE  signer' = reg[n].owner \/ PastGrace(reg[n])
<1>0. n \in Names /\ reg[n] # NoReg /\ TypeOK
  BY DEF Registered, Inv
<1>1. ASSUME NEW o \in Owners, NEW m \in Names, Register(o, m)
      PROVE  PastGrace(reg[n])
  <2>1. Available(m) /\ m \in Names
    BY <1>1 DEF Register
  <2>2. n \in TakenOver(m)
    <3>1. CASE n = m
      BY <3>1, <2>1, TakeOverClears
    <3>2. CASE n # m
      BY <3>2, <1>0, <1>1 DEF Register, Write
    <3> QED
      BY <3>1, <3>2
  <2>3. Claimable(reg[n])
    BY <2>1, <2>2, TakeOverClears
  <2> QED
    BY <1>0, <2>3, ClaimableIsPastGrace
<1>2. ASSUME NEW o \in Owners, NEW m \in Names, Renew(o, m)
      PROVE  FALSE
  <2>1. reg[m] # NoReg /\ reg[m].owner = o
    BY <1>2 DEF Renew, OwnedBy
  <2>2. Extended(reg[m]) \in Nat /\ reg[m].transferable \in BOOLEAN
    BY <1>0, <2>1, RegisteredTyped, ParamsTyped DEF Extended
  <2>3. [owner |-> o, transferable |-> reg[m].transferable, expiry |-> Extended(reg[m])] # NoReg
    BY <2>2, DomainAssumption DEF Registration
  <2> QED
    BY <1>0, <1>2, <2>1, <2>3 DEF Renew, Write
<1>3. ASSUME NEW o \in Owners, NEW m \in Names, NEW to \in Owners, Transfer(o, m, to)
      PROVE  signer' = reg[n].owner
  BY <1>0, <1>3 DEF Transfer, Write, OwnedBy, TypeOK
<1>4. ASSUME NEW o \in Owners, NEW m \in Names, NEW on \in BOOLEAN, SetTransferable(o, m, on)
      PROVE  FALSE
  <2>1. reg[m] # NoReg /\ reg[m].owner = o
    BY <1>4 DEF SetTransferable, OwnedBy
  <2>2. reg[m].expiry \in Nat
    BY <1>0, <2>1, RegisteredTyped
  <2>3. [owner |-> o, transferable |-> on, expiry |-> reg[m].expiry] # NoReg
    BY <2>2, DomainAssumption DEF Registration
  <2> QED
    BY <1>0, <1>4, <2>1, <2>3 DEF SetTransferable, Write
<1>5. ASSUME NEW o \in Owners, NEW m \in Names, Release(o, m)
      PROVE  signer' = reg[n].owner
  BY <1>0, <1>5 DEF Release, OwnedBy, TypeOK
<1>6. CASE UNCHANGED reg
  BY <1>0, <1>6
<1> QED
  BY <1>1, <1>2, <1>3, <1>4, <1>5, <1>6
     DEF Next, UpdateParams, NextBlock, Restart, vars, stores

(* An owner loses a name only by a transaction that owner signed or after  *)
(* the grace period, for any parameters governance may set.                *)
LEMMA OwnersAreProtected == Spec => GraceIsExclusive
<1>1. Inv /\ [Next]_vars =>
        [\A n \in Registered :
           reg'[n] = NoReg \/ reg'[n].owner # reg[n].owner =>
             signer' = reg[n].owner \/ PastGrace(reg[n])]_vars
  BY GraceStep
<1> QED
  BY <1>1, Inductive, PTL DEF Spec, GraceIsExclusive

LEMMA RenewalStep ==
  ASSUME Inv, [Next]_vars, NEW n \in Registered, reg'[n] # NoReg,
         reg'[n].owner = reg[n].owner, reg'[n].expiry # reg[n].expiry
  PROVE  reg'[n].expiry > reg[n].expiry \/ PastGrace(reg[n])
<1>0. /\ n \in Names /\ reg[n] # NoReg /\ TypeOK
      /\ reg[n].expiry \in Nat /\ params.period \in Nat /\ height \in Nat
  BY RegisteredTyped, ParamsTyped DEF Registered, Inv
<1>1. ASSUME NEW o \in Owners, NEW m \in Names, Register(o, m)
      PROVE  PastGrace(reg[n])
  <2>1. Available(m)
    BY <1>1 DEF Register
  <2>2. n \in TakenOver(m)
    <3>1. CASE n = m
      BY <3>1, <2>1, TakeOverClears
    <3>2. CASE n # m
      BY <3>2, <1>0, <1>1 DEF Register, Write
    <3> QED
      BY <3>1, <3>2
  <2> QED
    BY <1>0, <2>1, <2>2, TakeOverClears, ClaimableIsPastGrace
<1>2. ASSUME NEW o \in Owners, NEW m \in Names, Renew(o, m)
      PROVE  reg'[n].expiry > reg[n].expiry
  <2>1. n = m /\ reg'[n].expiry = Extended(reg[n])
    BY <1>0, <1>2 DEF Renew, Write, TypeOK
  <2>2. Extended(reg[n]) >= reg[n].expiry /\ Extended(reg[n]) \in Nat
    BY <1>0 DEF Extended
  <2> QED
    BY <1>0, <2>1, <2>2
<1>3. ASSUME NEW o \in Owners, NEW m \in Names, NEW to \in Owners, Transfer(o, m, to)
      PROVE  FALSE
  BY <1>0, <1>3 DEF Transfer, Write, TypeOK
<1>4. ASSUME NEW o \in Owners, NEW m \in Names, NEW on \in BOOLEAN, SetTransferable(o, m, on)
      PROVE  FALSE
  BY <1>0, <1>4 DEF SetTransferable, Write, TypeOK
<1>5. ASSUME NEW o \in Owners, NEW m \in Names, Release(o, m)
      PROVE  FALSE
  BY <1>0, <1>5 DEF Release, TypeOK
<1>6. CASE UNCHANGED reg
  BY <1>0, <1>6
<1> QED
  BY <1>1, <1>2, <1>3, <1>4, <1>5, <1>6
     DEF Next, UpdateParams, NextBlock, Restart, vars, stores

(* A renewal never shortens a registration, also around its expiry.        *)
LEMMA RenewalsAddTime == Spec => RenewalKeepsTime
<1>1. Inv /\ [Next]_vars =>
        [\A n \in Registered :
           reg'[n] # NoReg /\ reg'[n].owner = reg[n].owner /\ reg'[n].expiry # reg[n].expiry
             => reg'[n].expiry > reg[n].expiry \/ PastGrace(reg[n])]_vars
  BY RenewalStep
<1> QED
  BY <1>1, Inductive, PTL DEF Spec, RenewalKeepsTime

(* What an owner has paid for stays theirs, for any parameters governance  *)
(* may set and whoever else signs what.                                    *)
THEOREM TermsAlwaysKept == Spec => TermsAreKept
BY OwnersAreProtected, RenewalsAddTime DEF TermsAreKept

----------------------------------------------------------------------------
(* The refinement of Namespace.                                            *)

(* A look is held by the registration its index entry names, if any.       *)
LEMMA Held ==
  ASSUME Inv, NEW s \in Skeletons, skeletons[s] # NoName
  PROVE  /\ skeletons[s] \in Registered /\ skeletons[s] \in Names
         /\ Skeleton[skeletons[s]] = s
         /\ holder[s] = [name |-> skeletons[s], owner |-> reg[skeletons[s]].owner]
         /\ holder[s] # NoReg
         /\ s \in lapsed <=> Claimable(reg[skeletons[s]])
<1>1. /\ skeletons[s] \in Registered /\ skeletons[s] \in Names
      /\ Skeleton[skeletons[s]] = s /\ reg[skeletons[s]] # NoReg
  BY DEF Inv, SkeletonIndexAgrees, Registered
<1>2. reg[skeletons[s]].owner \in Owners
  BY <1>1, RegisteredTyped DEF Inv
<1>3. holder[s] = [name |-> skeletons[s], owner |-> reg[skeletons[s]].owner]
  BY DEF holder
<1>4. holder[s] # NoReg
  BY <1>1, <1>2, <1>3, DomainAssumption
<1> QED
  BY <1>1, <1>3, <1>4 DEF lapsed

(* Two functions on looks that agree everywhere but at s.                  *)
LEMMA HolderExcept ==
  ASSUME NEW s \in Skeletons, NEW v, holder'[s] = v,
         \A t \in Skeletons \ {s} : holder'[t] = holder[t]
  PROVE  holder' = [holder EXCEPT ![s] = v]
<1>1. holder = [t \in Skeletons |-> holder[t]]
  BY DEF holder
<1>2. holder' = [t \in Skeletons |-> holder'[t]]
  BY DEF holder
<1> DEFINE f == holder
<1> DEFINE g == holder'
<1>3. /\ f = [t \in Skeletons |-> f[t]] /\ g = [t \in Skeletons |-> g[t]]
      /\ g[s] = v /\ \A t \in Skeletons \ {s} : g[t] = f[t]
  BY <1>1, <1>2
<1> HIDE DEF f, g
<1>4. g = [f EXCEPT ![s] = v]
  BY <1>3
<1> QED
  BY <1>4 DEF f, g

LEMMA NotHeld ==
  ASSUME NEW s \in Skeletons, skeletons[s] = NoName
  PROVE  holder[s] = NoReg /\ s \notin lapsed
BY DEF holder, lapsed

(* Writing a name changes the holding of its own look and no other.        *)
LEMMA WriteMoves ==
  ASSUME Inv, Inv', NEW n \in Names, NEW r \in Registration,
         NEW gone \in SUBSET Registered, \A m \in gone : Skeleton[m] = Skeleton[n],
         Write(gone, n, r), UNCHANGED <<height, params>>
  PROVE  /\ holder' = [holder EXCEPT ![Skeleton[n]] = [name |-> n, owner |-> r.owner]]
         /\ \A s \in Skeletons \ {Skeleton[n]} : s \in lapsed' <=> s \in lapsed
         /\ Skeleton[n] \in lapsed' <=> Claimable(r)
<1> USE DomainAssumption
<1>1. /\ skeletons'[Skeleton[n]] = n /\ reg'[n] = r /\ n # NoName /\ Skeleton[n] \in Skeletons
      /\ \A s \in Skeletons \ {Skeleton[n]} : skeletons'[s] = skeletons[s]
      /\ \A m \in Names \ {n} : m \notin gone => reg'[m] = reg[m]
  BY DEF Write
<1>2. holder'[Skeleton[n]] = [name |-> n, owner |-> r.owner]
  BY <1>1 DEF holder
<1>3. ASSUME NEW s \in Skeletons \ {Skeleton[n]}
      PROVE  holder'[s] = holder[s] /\ (s \in lapsed' <=> s \in lapsed)
  <2>1. CASE skeletons[s] = NoName
    BY <2>1, <1>1 DEF holder, lapsed
  <2>2. CASE skeletons[s] # NoName
    <3>1. skeletons[s] \in Names /\ Skeleton[skeletons[s]] = s
      BY <2>2, Held
    <3>2. skeletons[s] # n /\ skeletons[s] \notin gone
      BY <3>1
    <3>3. reg'[skeletons[s]] = reg[skeletons[s]] /\ skeletons'[s] = skeletons[s]
      BY <1>1, <3>1, <3>2
    <3>4. holder'[s] = holder[s]
      BY <3>3 DEF holder
    <3>5. s \in lapsed' <=> s \in lapsed
      BY <3>3 DEF lapsed, Claimable
    <3> QED
      BY <3>4, <3>5
  <2> QED
    BY <2>1, <2>2
<1>4. Skeleton[n] \in lapsed' <=> Claimable(r)
  BY <1>1 DEF lapsed, Claimable
<1>5. holder' = [holder EXCEPT ![Skeleton[n]] = [name |-> n, owner |-> r.owner]]
  BY <1>1, <1>2, <1>3, HolderExcept
<1> QED
  BY <1>3, <1>4, <1>5

LEMMA LapsedOfLooks == lapsed \subseteq Skeletons /\ lapsed' \subseteq Skeletons
BY DEF lapsed

LEMMA RegisterRefines ==
  ASSUME Inv, Inv', NEW o \in Owners, NEW n \in Names, Register(o, n)
  PROVE  Abstract!Grant(Skeleton[n], n, o)
<1> DEFINE r == [owner |-> o, transferable |-> TRUE,
                 expiry |-> IF params.period > 0 THEN height + params.period ELSE 0]
<1>0. /\ Available(n) /\ Write(TakenOver(n), n, r) /\ UNCHANGED <<height, params>>
      /\ Skeleton[n] \in Skeletons
  BY DomainAssumption DEF Register
<1>1. /\ params.period \in Nat /\ height \in Nat /\ params.grace \in Nat
  BY ParamsTyped DEF Inv
<1>2. (IF params.period > 0 THEN height + params.period ELSE 0) \in Nat
  BY <1>1
<1>3. r \in Registration /\ r.owner = o
  BY <1>2 DEF Registration
<1>4. ~Claimable(r)
  BY <1>1 DEF Claimable
<1>5. /\ TakenOver(n) \in SUBSET Registered
      /\ \A m \in Registered : Skeleton[m] = Skeleton[n] => m \in TakenOver(n)
      /\ \A m \in TakenOver(n) : Claimable(reg[m])
  BY <1>0, TakeOverClears
<1>6. \A m \in TakenOver(n) : Skeleton[m] = Skeleton[n]
  BY <1>0, Held DEF TakenOver
<1> HIDE DEF r
<1>7. /\ holder' = [holder EXCEPT ![Skeleton[n]] = [name |-> n, owner |-> o]]
      /\ \A s \in Skeletons \ {Skeleton[n]} : s \in lapsed' <=> s \in lapsed
      /\ Skeleton[n] \notin lapsed'
  BY <1>0, <1>3, <1>4, <1>5, <1>6, WriteMoves
<1>8. lapsed' = lapsed \ {Skeleton[n]}
  BY <1>7, LapsedOfLooks
<1>9. holder[Skeleton[n]] = NoReg \/ Skeleton[n] \in lapsed
  BY <1>0, <1>5, Held, NotHeld
<1> QED
  BY <1>7, <1>8, <1>9 DEF Abstract!Grant

LEMMA RenewRefines ==
  ASSUME Inv, Inv', NEW o \in Owners, NEW n \in Names, Renew(o, n)
  PROVE  UNCHANGED <<holder, lapsed>>
<1> DEFINE r == [owner |-> o, transferable |-> reg[n].transferable,
                 expiry |-> Extended(reg[n])]
<1>0. /\ OwnedBy(o, n) /\ ~Claimable(reg[n]) /\ Write({}, n, r)
      /\ UNCHANGED <<height, params>> /\ Skeleton[n] \in Skeletons
  BY DomainAssumption DEF Renew
<1>1. params.period \in Nat /\ height \in Nat /\ params.grace \in Nat
  BY ParamsTyped DEF Inv
<1>2. /\ reg[n] # NoReg /\ reg[n].owner = o /\ n \in Registered
      /\ reg[n].expiry \in Nat /\ reg[n].transferable \in BOOLEAN
  BY <1>0, RegisteredTyped DEF OwnedBy, Inv, Registered
<1>3. Extended(reg[n]) \in Nat /\ Extended(reg[n]) >= height
  BY <1>1, <1>2 DEF Extended
<1>4. r \in Registration /\ r.owner = o /\ r.expiry = Extended(reg[n])
  BY <1>2, <1>3 DEF Registration
<1> HIDE DEF r
<1>5. ~Claimable(r)
  BY <1>1, <1>3, <1>4 DEF Claimable
<1>6. /\ holder' = [holder EXCEPT ![Skeleton[n]] = [name |-> n, owner |-> o]]
      /\ \A s \in Skeletons \ {Skeleton[n]} : s \in lapsed' <=> s \in lapsed
      /\ Skeleton[n] \notin lapsed'
  BY <1>0, <1>4, <1>5, WriteMoves
<1>7. skeletons[Skeleton[n]] = n /\ n # NoName
  BY <1>2, DomainAssumption DEF Inv, SkeletonIndexAgrees
<1>8. holder[Skeleton[n]] = [name |-> n, owner |-> o] /\ Skeleton[n] \notin lapsed
  BY <1>0, <1>2, <1>7, Held
<1>9. holder' = holder
  BY <1>6, <1>8 DEF holder
<1> QED
  BY <1>6, <1>8, <1>9, LapsedOfLooks

LEMMA TransferRefines ==
  ASSUME Inv, Inv', NEW o \in Owners, NEW n \in Names, NEW to \in Owners, Transfer(o, n, to)
  PROVE  Abstract!HandOver(Skeleton[n], to)
<1> DEFINE r == [owner |-> to, transferable |-> reg[n].transferable, expiry |-> reg[n].expiry]
<1>0. /\ OwnedBy(o, n) /\ Write({n}, n, r) /\ UNCHANGED <<height, params>>
      /\ Skeleton[n] \in Skeletons
  BY DomainAssumption DEF Transfer
<1>2. /\ reg[n] # NoReg /\ n \in Registered
      /\ reg[n].expiry \in Nat /\ reg[n].transferable \in BOOLEAN
  BY <1>0, RegisteredTyped DEF OwnedBy, Inv, Registered
<1>3. r \in Registration /\ r.owner = to /\ r.expiry = reg[n].expiry
  BY <1>2 DEF Registration
<1> HIDE DEF r
<1>4. Claimable(r) <=> Claimable(reg[n])
  BY <1>3 DEF Claimable
<1>5. {n} \in SUBSET Registered
  BY <1>2
<1>6. /\ holder' = [holder EXCEPT ![Skeleton[n]] = [name |-> n, owner |-> to]]
      /\ \A s \in Skeletons \ {Skeleton[n]} : s \in lapsed' <=> s \in lapsed
      /\ Skeleton[n] \in lapsed' <=> Claimable(reg[n])
  BY <1>0, <1>3, <1>4, <1>5, WriteMoves
<1>7. skeletons[Skeleton[n]] = n /\ n # NoName
  BY <1>2, DomainAssumption DEF Inv, SkeletonIndexAgrees
<1>8. /\ holder[Skeleton[n]] = [name |-> n, owner |-> reg[n].owner]
      /\ holder[Skeleton[n]] # NoReg
      /\ Skeleton[n] \in lapsed <=> Claimable(reg[n])
  BY <1>0, <1>7, Held
<1>9. lapsed' = lapsed
  BY <1>6, <1>8, LapsedOfLooks
<1>10. holder[Skeleton[n]].name = n
  BY <1>8
<1> QED
  BY <1>6, <1>8, <1>9, <1>10 DEF Abstract!HandOver

LEMMA SetTransferableRefines ==
  ASSUME Inv, Inv', NEW o \in Owners, NEW n \in Names, NEW on \in BOOLEAN,
         SetTransferable(o, n, on)
  PROVE  UNCHANGED <<holder, lapsed>>
<1> DEFINE r == [owner |-> o, transferable |-> on, expiry |-> reg[n].expiry]
<1>0. /\ OwnedBy(o, n) /\ Write({}, n, r) /\ UNCHANGED <<height, params>>
      /\ Skeleton[n] \in Skeletons
  BY DomainAssumption DEF SetTransferable
<1>2. /\ reg[n] # NoReg /\ n \in Registered /\ reg[n].owner = o /\ reg[n].expiry \in Nat
  BY <1>0, RegisteredTyped DEF OwnedBy, Inv, Registered
<1>3. r \in Registration /\ r.owner = o /\ r.expiry = reg[n].expiry
  BY <1>2 DEF Registration
<1> HIDE DEF r
<1>4. Claimable(r) <=> Claimable(reg[n])
  BY <1>3 DEF Claimable
<1>6. /\ holder' = [holder EXCEPT ![Skeleton[n]] = [name |-> n, owner |-> o]]
      /\ \A s \in Skeletons \ {Skeleton[n]} : s \in lapsed' <=> s \in lapsed
      /\ Skeleton[n] \in lapsed' <=> Claimable(reg[n])
  BY <1>0, <1>3, <1>4, WriteMoves
<1>7. skeletons[Skeleton[n]] = n /\ n # NoName
  BY <1>2, DomainAssumption DEF Inv, SkeletonIndexAgrees
<1>8. /\ holder[Skeleton[n]] = [name |-> n, owner |-> o]
      /\ Skeleton[n] \in lapsed <=> Claimable(reg[n])
  BY <1>0, <1>2, <1>7, Held
<1>9. holder' = holder
  BY <1>6, <1>8 DEF holder
<1> QED
  BY <1>6, <1>8, <1>9, LapsedOfLooks

LEMMA ReleaseRefines ==
  ASSUME Inv, Inv', NEW o \in Owners, NEW n \in Names, Release(o, n)
  PROVE  Abstract!Vacate(Skeleton[n])
<1> USE DomainAssumption
<1>0. /\ reg[n] # NoReg /\ n \in Registered /\ Skeleton[n] \in Skeletons
      /\ reg' = [reg EXCEPT ![n] = NoReg]
      /\ skeletons' = [skeletons EXCEPT ![Skeleton[n]] = NoName]
      /\ UNCHANGED <<height, params>>
  BY DEF Release, OwnedBy, Registered
<1>1. skeletons[Skeleton[n]] = n /\ n # NoName
  BY <1>0 DEF Inv, SkeletonIndexAgrees
<1>2. holder[Skeleton[n]] # NoReg
  BY <1>0, <1>1, Held
<1>3. skeletons'[Skeleton[n]] = NoName
  BY <1>0 DEF Inv, TypeOK
<1>4. holder'[Skeleton[n]] = NoReg /\ Skeleton[n] \notin lapsed'
  BY <1>0, <1>3 DEF holder, lapsed
<1>5. ASSUME NEW s \in Skeletons \ {Skeleton[n]}
      PROVE  holder'[s] = holder[s] /\ (s \in lapsed' <=> s \in lapsed)
  <2>1. skeletons'[s] = skeletons[s]
    BY <1>0 DEF Inv, TypeOK
  <2>2. CASE skeletons[s] = NoName
    BY <2>1, <2>2 DEF holder, lapsed
  <2>3. CASE skeletons[s] # NoName
    <3>1. skeletons[s] \in Names /\ skeletons[s] # n
      BY <2>3, Held
    <3>2. reg'[skeletons[s]] = reg[skeletons[s]]
      BY <1>0, <3>1 DEF Inv, TypeOK
    <3>3. holder'[s] = holder[s]
      BY <2>1, <3>2 DEF holder
    <3>4. s \in lapsed' <=> s \in lapsed
      BY <1>0, <2>1, <3>2 DEF lapsed, Claimable
    <3> QED
      BY <3>3, <3>4
  <2> QED
    BY <2>2, <2>3
<1>6. holder' = [holder EXCEPT ![Skeleton[n]] = NoReg]
  BY <1>0, <1>4, <1>5, HolderExcept
<1>7. lapsed' = lapsed \ {Skeleton[n]}
  BY <1>4, <1>5, LapsedOfLooks
<1> QED
  BY <1>2, <1>6, <1>7 DEF Abstract!Vacate

(* Time and parameter changes only decide which holdings have lapsed.      *)
LEMMA StillRefines ==
  ASSUME Inv, Inv', UNCHANGED stores
  PROVE  Abstract!Lapse
<1>1. holder' = holder
  BY DEF holder, stores
<1>2. ASSUME NEW s \in lapsed'
      PROVE  s \in Skeletons /\ holder[s] # NoReg
  <2>1. s \in Skeletons /\ skeletons[s] # NoName
    BY <1>2 DEF lapsed, stores
  <2> QED
    BY <2>1, Held
<1> QED
  BY <1>1, <1>2 DEF Abstract!Lapse

LEMMA RestartRefines ==
  ASSUME Inv, Inv', Restart
  PROVE  UNCHANGED <<holder, lapsed>>
<1>1. UNCHANGED <<reg, height, params>> /\ Registered' = Registered
  BY DEF Restart, Registered
<1>2. ASSUME NEW s \in Skeletons
      PROVE  skeletons'[s] = skeletons[s]
  BY <1>1 DEF Inv, SkeletonIndexAgrees
<1>3. skeletons' = skeletons
  BY <1>2 DEF Inv, TypeOK
<1> QED
  BY <1>1, <1>3 DEF holder, lapsed, Claimable

LEMMA StepRefines == Inv /\ Inv' /\ [Next]_vars => [Abstract!Next]_<<holder, lapsed>>
<1> SUFFICES ASSUME Inv, Inv', [Next]_vars PROVE [Abstract!Next]_<<holder, lapsed>>
  OBVIOUS
<1>1. ASSUME NEW o \in Owners, NEW n \in Names, Register(o, n)
      PROVE  Abstract!Next
  BY <1>1, RegisterRefines, DomainAssumption DEF Abstract!Next
<1>2. ASSUME NEW o \in Owners, NEW n \in Names, Renew(o, n)
      PROVE  UNCHANGED <<holder, lapsed>>
  BY <1>2, RenewRefines
<1>3. ASSUME NEW o \in Owners, NEW n \in Names, NEW to \in Owners, Transfer(o, n, to)
      PROVE  Abstract!Next
  BY <1>3, TransferRefines, DomainAssumption DEF Abstract!Next
<1>4. ASSUME NEW o \in Owners, NEW n \in Names, NEW on \in BOOLEAN, SetTransferable(o, n, on)
      PROVE  UNCHANGED <<holder, lapsed>>
  BY <1>4, SetTransferableRefines
<1>5. ASSUME NEW o \in Owners, NEW n \in Names, Release(o, n)
      PROVE  Abstract!Next
  BY <1>5, ReleaseRefines, DomainAssumption DEF Abstract!Next
<1>6. CASE (\E p \in ParamSets : UpdateParams(p)) \/ NextBlock
  <2>1. UNCHANGED stores
    BY <1>6 DEF UpdateParams, NextBlock
  <2> QED
    BY <2>1, StillRefines DEF Abstract!Next
<1>7. CASE Restart
  BY <1>7, RestartRefines
<1>8. CASE UNCHANGED vars
  BY <1>8 DEF vars, stores, holder, lapsed, Claimable
<1> QED
  BY <1>1, <1>2, <1>3, <1>4, <1>5, <1>6, <1>7, <1>8 DEF Next

LEMMA InitRefines == Init => Abstract!Init
BY DEF Init, Abstract!Init, holder, lapsed

(* x/username implements Namespace: a look passes to another owner only    *)
(* when it is free, when it has lapsed or when its holder hands it over.   *)
THEOREM UsernameImplementsNamespace == Spec => ImplementsNamespace
<1> QED
  BY InitRefines, StepRefines, Inductive, PTL
     DEF Spec, ImplementsNamespace, Abstract!Spec
=============================================================================
