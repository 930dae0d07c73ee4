------------------------------ MODULE Username ------------------------------
(***************************************************************************)
(* x/username: names are registered for a period, renewed, transferred,    *)
(* locked and released.  Three stores are kept together: the registrations,*)
(* the index from skeletons (what confusable spellings fold to) to names,  *)
(* and the index from owners to names.  A name below is a normalised name; *)
(* Skeleton is the folding.  A refused transaction changes nothing.        *)
(***************************************************************************)
EXTENDS Integers

CONSTANTS
  Names, Skeletons, Owners,
  Skeleton,              \* the skeleton of each name
  NoName, NoReg, Nobody, \* absent from an index, from the registrations; no signer
  ParamSets,             \* the parameter sets governance may propose
  InitialParams,
  MaxHeight,             \* bound: blocks
  MaxExpiry,             \* bound: how far renewals may push an expiry
  MaxPaid,               \* bound: registrations and renewals paid for
  MaxChanges             \* bound: governance proposals

Registration == [owner : Owners, expiry : Nat, transferable : BOOLEAN]

(* A parameter set: period and grace in blocks, the names the length and   *)
(* character rules admit, the reserved names, and the two fees.            *)
ParamsType == [period : Nat, grace : Nat, wellFormed : SUBSET Names,
               reserved : SUBSET Names, registrationFee : Nat, renewalFee : Nat]

ASSUME DomainAssumption ==
  /\ Skeleton \in [Names -> Skeletons]
  /\ NoName \notin Names /\ Nobody \notin Owners
  /\ NoReg \notin Registration \cup [name : Names, owner : Owners]
ASSUME ParamsAssumption == ParamSets \subseteq ParamsType /\ InitialParams \in ParamSets
ASSUME BoundAssumption ==
  MaxHeight \in Nat \ {0} /\ MaxExpiry \in Nat /\ MaxPaid \in Nat /\ MaxChanges \in Nat

VARIABLES
  height, params,
  reg,          \* registrations: [Names -> Registration or NoReg]
  skeletons,    \* skeleton index: [Skeletons -> Names or NoName]
  ownerIndex,   \* set of <<owner, name>>
  revenue,      \* what feeRouter.CollectServiceFee took
  signer,       \* ghost: who signed the last transaction
  paid, changes \* counters of the bounds

stores == <<reg, skeletons, ownerIndex>>
vars == <<height, params, stores, revenue, signer, paid, changes>>

Registered == {n \in Names : reg[n] # NoReg}

----------------------------------------------------------------------------
Claimable(r) == r.expiry # 0 /\ height > r.expiry + params.grace

IsReserved(n) == \E r \in params.reserved : Skeleton[r] = Skeleton[n]

(* Mutant: only the name itself is looked up, not its skeleton.            *)
MutAvailable(n) ==
  /\ n \in params.wellFormed
  /\ ~IsReserved(n)
  /\ reg[n] # NoReg => Claimable(reg[n])

(* CheckAvailability.                                                      *)
Available(n) ==
  LET other == skeletons[Skeleton[n]]
  IN /\ n \in params.wellFormed
     /\ ~IsReserved(n)
     /\ reg[n] # NoReg => Claimable(reg[n])
     /\ other \notin {NoName, n} /\ reg[other] # NoReg => Claimable(reg[other])

(* Mutant: only the name's own lapsed registration is cleared.             *)
MutTakenOver(n) == {m \in {n} : reg[m] # NoReg}

(* The lapsed registrations Register clears away: the name's own and the   *)
(* one that holds its skeleton under another spelling.                     *)
TakenOver(n) ==
  {m \in {n, skeletons[Skeleton[n]]} \ {NoName} :
     reg[m] # NoReg /\ (m = n \/ Claimable(reg[m]))}

(* removeRegistration of every name in gone, then setRegistration of n.    *)
Write(gone, n, r) ==
  /\ reg' = [m \in Names |-> IF m = n THEN r
                             ELSE IF m \in gone THEN NoReg ELSE reg[m]]
  /\ skeletons' = [s \in Skeletons |->
       IF s = Skeleton[n] THEN n
       ELSE IF \E m \in gone : Skeleton[m] = s THEN NoName ELSE skeletons[s]]
  /\ ownerIndex' = (ownerIndex \ {<<reg[m].owner, m>> : m \in gone})
                     \cup {<<r.owner, n>>}

CollectServiceFee(fee) ==
  /\ paid < MaxPaid
  /\ paid' = paid + 1
  /\ revenue' = revenue + fee

----------------------------------------------------------------------------
(* Transactions.                                                           *)

Register(o, n) ==
  /\ Available(n)
  /\ Write(TakenOver(n), n,
           [owner |-> o, transferable |-> TRUE,
            expiry |-> IF params.period > 0 THEN height + params.period ELSE 0])
  /\ CollectServiceFee(params.registrationFee)
  /\ signer' = o
  /\ UNCHANGED <<height, params, changes>>

(* Mutant: any signer may act on a registered name.                        *)
MutOwnedBy(o, n) == reg[n] # NoReg

OwnedBy(o, n) == reg[n] # NoReg /\ reg[n].owner = o

(* Extend from the later of now and the current expiry.                    *)
Extended(r) == (IF height > r.expiry THEN height ELSE r.expiry) + params.period

Renew(o, n) ==
  /\ OwnedBy(o, n)
  /\ reg[n].expiry # 0
  /\ ~Claimable(reg[n])
  /\ Extended(reg[n]) <= MaxExpiry
  /\ Write({}, n, [owner |-> o, transferable |-> reg[n].transferable,
                   expiry |-> Extended(reg[n])])
  /\ CollectServiceFee(params.renewalFee)
  /\ signer' = o
  /\ UNCHANGED <<height, params, changes>>

Transfer(o, n, to) ==
  /\ OwnedBy(o, n)
  /\ reg[n].transferable
  /\ Write({n}, n, [owner |-> to, transferable |-> reg[n].transferable,
                    expiry |-> reg[n].expiry])
  /\ signer' = o
  /\ UNCHANGED <<height, params, revenue, paid, changes>>

SetTransferable(o, n, on) ==
  /\ OwnedBy(o, n)
  /\ Write({}, n, [owner |-> o, transferable |-> on, expiry |-> reg[n].expiry])
  /\ signer' = o
  /\ UNCHANGED <<height, params, revenue, paid, changes>>

Release(o, n) ==
  /\ OwnedBy(o, n)
  /\ reg' = [reg EXCEPT ![n] = NoReg]
  /\ skeletons' = [skeletons EXCEPT ![Skeleton[n]] = NoName]
  /\ ownerIndex' = ownerIndex \ {<<o, n>>}
  /\ signer' = o
  /\ UNCHANGED <<height, params, revenue, paid, changes>>

(* x/gov executes UpdateParams.                                            *)
UpdateParams(p) ==
  /\ changes < MaxChanges
  /\ changes' = changes + 1
  /\ p.registrationFee > 0
  /\ params' = p
  /\ signer' = Nobody
  /\ UNCHANGED <<height, stores, revenue, paid>>

NextBlock ==
  /\ height < MaxHeight
  /\ height' = height + 1
  /\ signer' = Nobody
  /\ UNCHANGED <<params, stores, revenue, paid, changes>>

(* What GenesisState.Validate asks of the exported registrations.          *)
GenesisValidates ==
  /\ \A n \in Registered : n \in params.wellFormed /\ ~IsReserved(n)
  /\ \A m, n \in Registered : Skeleton[m] = Skeleton[n] => m = n

(* Export and re-import: the indexes are rebuilt from the registrations.   *)
Restart ==
  /\ GenesisValidates
  /\ skeletons' = [s \in Skeletons |->
       IF \E n \in Registered : Skeleton[n] = s
       THEN CHOOSE n \in Registered : Skeleton[n] = s ELSE NoName]
  /\ ownerIndex' = {<<reg[n].owner, n>> : n \in Registered}
  /\ signer' = Nobody
  /\ UNCHANGED <<height, params, reg, revenue, paid, changes>>

Init ==
  /\ height = 1
  /\ params = InitialParams
  /\ reg = [n \in Names |-> NoReg]
  /\ skeletons = [s \in Skeletons |-> NoName]
  /\ ownerIndex = {}
  /\ revenue = 0 /\ paid = 0 /\ changes = 0
  /\ signer = Nobody

Next ==
  \/ \E o \in Owners, n \in Names :
       \/ Register(o, n)
       \/ Renew(o, n)
       \/ \E to \in Owners : Transfer(o, n, to)
       \/ \E on \in BOOLEAN : SetTransferable(o, n, on)
       \/ Release(o, n)
  \/ \E p \in ParamSets : UpdateParams(p)
  \/ NextBlock
  \/ Restart

Spec == Init /\ [][Next]_vars

----------------------------------------------------------------------------
(* Properties.                                                             *)

(* Every store maps keys to values of the types the code declares.         *)
TypeOK ==
  /\ height \in 1..MaxHeight
  /\ params \in ParamSets
  /\ reg \in [Names -> Registration \cup {NoReg}]
  /\ skeletons \in [Skeletons -> Names \cup {NoName}]
  /\ ownerIndex \subseteq Owners \X Names
  /\ revenue \in Nat /\ paid \in Nat /\ changes \in Nat
  /\ signer \in Owners \cup {Nobody}

(* The skeleton index holds exactly the registered names, each under its   *)
(* own skeleton: taking over a lapsed look-alike (Register) leaves no entry*)
(* dangling and no registration without one.                               *)
SkeletonIndexAgrees ==
  /\ \A n \in Registered : skeletons[Skeleton[n]] = n
  /\ \A s \in Skeletons : skeletons[s] # NoName =>
       skeletons[s] \in Registered /\ Skeleton[skeletons[s]] = s

(* The owner index lists every name under its present owner and no other,  *)
(* after transfers, releases and take-overs.                               *)
OwnerIndexAgrees == ownerIndex = {<<reg[n].owner, n>> : n \in Registered}

(* At no time are two spellings that fold to the same skeleton registered. *)
NoConfusablePair ==
  \A m, n \in Registered : Skeleton[m] = Skeleton[n] => m = n

(* The two indexes agree with the registrations, and with them with each   *)
(* other: a skeleton has one name and a name one owner.                    *)
NamesAgree == SkeletonIndexAgrees /\ OwnerIndexAgrees /\ NoConfusablePair

PastGrace(r) == r.expiry # 0 /\ height - params.grace > r.expiry

(* A name leaves its owner only by a transaction that owner signed, or when*)
(* its expiry and grace period are over, even when it is taken over by a   *)
(* look-alike (isClaimable).                                               *)
GraceIsExclusive ==
  [][\A n \in Registered :
       reg'[n] = NoReg \/ reg'[n].owner # reg[n].owner =>
         signer' = reg[n].owner \/ PastGrace(reg[n])]_vars

(* A renewal never takes away time its owner has already paid for.         *)
RenewalKeepsTime ==
  [][\A n \in Registered :
       reg'[n] # NoReg /\ reg'[n].owner = reg[n].owner /\ reg'[n].expiry # reg[n].expiry
         => reg'[n].expiry > reg[n].expiry \/ PastGrace(reg[n])]_vars

(* What an owner has paid for stays theirs.                                *)
TermsAreKept == GraceIsExclusive /\ RenewalKeepsTime

----------------------------------------------------------------------------
(* The refinement of Namespace: a look is held by the registration its     *)
(* index entry points to, and lapsed once that registration is claimable.  *)
holder ==
  [s \in Skeletons |->
     IF skeletons[s] = NoName THEN NoReg
     ELSE [name |-> skeletons[s], owner |-> reg[skeletons[s]].owner]]
lapsed ==
  {s \in Skeletons : skeletons[s] # NoName /\ Claimable(reg[skeletons[s]])}

Abstract == INSTANCE Namespace WITH Free <- NoReg

(* x/username implements Namespace: looks change hands as it promises.     *)
ImplementsNamespace == Abstract!Spec
=============================================================================
