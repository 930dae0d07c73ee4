------------------------------ MODULE Identity ------------------------------
(***************************************************************************)
(* x/identity: an account's root identity, the devices its root key has    *)
(* authorised, root-key rotation, and recovery by guardians.  A signature  *)
(* is modelled by the key that made it: a certificate verifies when its    *)
(* signer is the identity's root key.  A refused transaction changes       *)
(* nothing.  There is no parameter message: parameters are constants.      *)
(***************************************************************************)
EXTENDS Integers, FiniteSets

CONSTANTS
  Addresses, Guardians, RootKeys, DeviceIds, DeviceKeys,
  None,                     \* absent from a store
  Configs,                  \* the recovery configurations users may submit
  MaxDevicesPerIdentity, MaxGuardians,
  MinRecoveryDelayBlocks, MaxCertificateAgeBlocks,
  MaxInt64,                 \* the largest height an int64 holds
  MaxHeight,                \* bound: blocks
  MaxTxs                    \* bound: transactions accepted

RecoveryConfig == [guardians : SUBSET Guardians, threshold : Nat, delay : Nat]

Slots == Addresses \X DeviceIds

(* What a root key signs to authorise a device, and the key that signed.   *)
DeviceCertificate ==
  [id : DeviceIds, key : DeviceKeys, rotation : 0..MaxTxs,
   expiry : 1..(MaxHeight + MaxCertificateAgeBlocks), by : RootKeys]

RootIdentity ==
  [root : RootKeys, rotation : Nat, recovery : RecoveryConfig, revoked : BOOLEAN]

Device == [key : DeviceKeys, rotation : Nat, revoked : BOOLEAN]

RecoveryRequest ==
  [newAddress : Addresses, newRoot : RootKeys, approvals : SUBSET Guardians,
   executable : Int, closed : BOOLEAN]

ASSUME StoreAssumption ==
  /\ None \notin RootIdentity /\ None \notin Device
  /\ None \notin RecoveryRequest /\ None \notin Slots
ASSUME ConfigAssumption == Configs \subseteq RecoveryConfig
ASSUME ParamsAssumption ==
  /\ MaxDevicesPerIdentity \in Nat \ {0} /\ MaxGuardians \in Nat
  /\ MinRecoveryDelayBlocks \in Nat \ {0} /\ MaxCertificateAgeBlocks \in Nat \ {0}
ASSUME BoundAssumption == MaxHeight \in Nat \ {0} /\ MaxTxs \in Nat /\ MaxInt64 \in Nat
ASSUME GuardianAssumption == IsFiniteSet(Guardians) /\ IsFiniteSet(DeviceIds)

VARIABLES
  height,
  identity,     \* [Addresses -> RootIdentity or None]
  device,       \* [Slots -> Device or None]
  keyIndex,     \* [DeviceKeys -> slot or None], revoked devices included
  recovery,     \* the last recovery request of each address, or None
  cancelledAt,  \* ghost: when the owner last cancelled a request; 0: never
  past,         \* ghost: the <<root key, rotation>> each address has left behind
  fence,        \* ghost: devices certified before this rotation were all revoked
  overwritten,  \* ghost: addresses whose identity another's recovery replaced
  txs           \* counter of the bound

stores == <<identity, device, keyIndex, recovery>>
ghosts == <<cancelledAt, past, fence, overwritten>>
vars == <<height, stores, ghosts, txs>>

Live(a) == identity[a] # None /\ ~identity[a].revoked

ActiveDevices(a) ==
  {i \in DeviceIds : device[<<a, i>>] # None /\ ~device[<<a, i>>].revoked}

(* RecoveryConfig.Validate.                                                *)
ValidConfig(c) ==
  /\ Cardinality(c.guardians) <= MaxGuardians
  /\ IF c.threshold = 0
     THEN c.guardians = {}
     ELSE /\ Cardinality(c.guardians) >= c.threshold
          /\ c.delay >= MinRecoveryDelayBlocks

----------------------------------------------------------------------------
(* Mutant: a revoked device id may be used again.                          *)
MutAdmitsAgain(a, id, c) ==
  /\ ~id.revoked
  /\ c.expiry >= height
  /\ c.expiry <= height + MaxCertificateAgeBlocks
  /\ c.rotation = id.rotation
  /\ c.by = id.root
  /\ c.id \notin ActiveDevices(a)
  /\ keyIndex[c.key] \in {None, <<a, c.id>>}
  /\ Cardinality(ActiveDevices(a)) < MaxDevicesPerIdentity

(* The checks of AddDevice on certificate c for the identity id of a.      *)
Admits(a, id, c) ==
  /\ ~id.revoked
  /\ c.expiry >= height
  /\ c.expiry <= height + MaxCertificateAgeBlocks
  /\ c.rotation = id.rotation
  /\ c.by = id.root
  /\ device[<<a, c.id>>] = None
  /\ keyIndex[c.key] = None
  /\ Cardinality(ActiveDevices(a)) < MaxDevicesPerIdentity

(* SetDevice: the record and its key index entry.                          *)
SetDevice(a, c) ==
  /\ device' = [device EXCEPT ![<<a, c.id>>] =
                  [key |-> c.key, rotation |-> c.rotation, revoked |-> FALSE]]
  /\ keyIndex' = [keyIndex EXCEPT ![c.key] = <<a, c.id>>]

RevokeDevices(a, ids) ==
  /\ device' = [s \in Slots |->
       IF s[1] = a /\ s[2] \in ids
       THEN [key |-> device[s].key, rotation |-> device[s].rotation, revoked |-> TRUE]
       ELSE device[s]]
  /\ UNCHANGED keyIndex

NewIdentity(root, rotation, cfg) ==
  [root |-> root, rotation |-> rotation, recovery |-> cfg, revoked |-> FALSE]

Revoked(id) ==
  [root |-> id.root, rotation |-> id.rotation, recovery |-> id.recovery, revoked |-> TRUE]

CreateIdentity(a, root, cfg) ==
  /\ identity[a] = None
  /\ ValidConfig(cfg)
  /\ identity' = [identity EXCEPT ![a] = NewIdentity(root, 0, cfg)]
  /\ \/ UNCHANGED <<device, keyIndex>>
     \/ \E c \in DeviceCertificate :
          Admits(a, NewIdentity(root, 0, cfg), c) /\ SetDevice(a, c)
  /\ UNCHANGED <<height, recovery, ghosts>>

AddDevice(a) ==
  /\ identity[a] # None
  /\ \E c \in DeviceCertificate : Admits(a, identity[a], c) /\ SetDevice(a, c)
  /\ UNCHANGED <<height, identity, recovery, ghosts>>

(* The last active device stays; the identity itself may be revoked.       *)
RevokeDevice(a, i) ==
  /\ identity[a] # None
  /\ i \in ActiveDevices(a)
  /\ Cardinality(ActiveDevices(a)) > 1
  /\ RevokeDevices(a, {i})
  /\ UNCHANGED <<height, identity, recovery, ghosts>>

Replaced(id, root) ==
  [root |-> root, rotation |-> id.rotation + 1, recovery |-> id.recovery, revoked |-> id.revoked]

LeaveBehind(a) == [past EXCEPT ![a] = @ \cup {<<identity[a].root, identity[a].rotation>>}]

(* The outgoing root key signs its own replacement.                        *)
RotateRootKey(a, root, by, revokeExisting) ==
  /\ Live(a)
  /\ by = identity[a].root
  /\ identity' = [identity EXCEPT ![a] = Replaced(identity[a], root)]
  /\ IF revokeExisting
     THEN /\ RevokeDevices(a, ActiveDevices(a))
          /\ fence' = [fence EXCEPT ![a] = identity[a].rotation + 1]
     ELSE UNCHANGED <<device, keyIndex, fence>>
  /\ past' = LeaveBehind(a)
  /\ UNCHANGED <<height, recovery, cancelledAt, overwritten>>

SetRecoveryConfig(a, cfg) ==
  /\ Live(a)
  /\ ValidConfig(cfg)
  /\ identity' = [identity EXCEPT ![a] =
       [root |-> identity[a].root, rotation |-> identity[a].rotation,
        recovery |-> cfg, revoked |-> FALSE]]
  /\ UNCHANGED <<height, device, keyIndex, recovery, ghosts>>

RevokeIdentity(a) ==
  /\ Live(a)
  /\ identity' = [identity EXCEPT ![a] = Revoked(identity[a])]
  /\ RevokeDevices(a, ActiveDevices(a))
  /\ UNCHANGED <<height, recovery, ghosts>>

----------------------------------------------------------------------------
(* Recovery by guardians.                                                  *)

(* Mutant: a cancelled request's waiting time carries over to the next.    *)
MutExecutable(a) ==
  IF recovery[a] # None THEN recovery[a].executable ELSE height + identity[a].recovery.delay

(* An int64 sum; the code bounds the delay from below only.                *)
Executable(a) ==
  LET sum == height + identity[a].recovery.delay
  IN IF sum > MaxInt64 THEN sum - 2 * (MaxInt64 + 1) ELSE sum

Open(a) == recovery[a] # None /\ ~recovery[a].closed

InitiateRecovery(a, g, newAddress, newRoot) ==
  /\ Live(a)
  /\ identity[a].recovery.threshold # 0
  /\ g \in identity[a].recovery.guardians
  /\ newAddress # a => identity[newAddress] = None
  /\ ~Open(a)
  /\ recovery' = [recovery EXCEPT ![a] =
       [newAddress |-> newAddress, newRoot |-> newRoot, approvals |-> {g},
        executable |-> Executable(a), closed |-> FALSE]]
  /\ UNCHANGED <<height, identity, device, keyIndex, ghosts>>

ApproveRecovery(a, g) ==
  /\ identity[a] # None
  /\ g \in identity[a].recovery.guardians
  /\ Open(a)
  /\ g \notin recovery[a].approvals
  /\ recovery' = [recovery EXCEPT ![a] =
       [newAddress |-> @.newAddress, newRoot |-> @.newRoot, approvals |-> @.approvals \cup {g},
        executable |-> @.executable, closed |-> @.closed]]
  /\ UNCHANGED <<height, identity, device, keyIndex, ghosts>>

Close(a) ==
  recovery' = [recovery EXCEPT ![a] =
    [newAddress |-> @.newAddress, newRoot |-> @.newRoot, approvals |-> @.approvals,
     executable |-> @.executable, closed |-> TRUE]]

CancelRecovery(a) ==
  /\ Open(a)
  /\ Close(a)
  /\ cancelledAt' = [cancelledAt EXCEPT ![a] = height]
  /\ UNCHANGED <<height, identity, device, keyIndex, past, fence, overwritten>>

(* Mutant: the devices of the recovered identity keep their authority.     *)
MutRevokedByRecovery(a) == {}

RevokedByRecovery(a) == ActiveDevices(a)

(* Anyone may submit this.  The address moved to is not looked up again.   *)
ExecuteRecovery(a) ==
  LET to == recovery[a].newAddress
      rotation == identity[a].rotation + 1
  IN /\ Live(a)
     /\ Open(a)
     /\ Cardinality(recovery[a].approvals) >= identity[a].recovery.threshold
     /\ height >= recovery[a].executable
     /\ RevokeDevices(a, RevokedByRecovery(a))
     /\ IF to = a
        THEN identity' = [identity EXCEPT ![a] = Replaced(identity[a], recovery[a].newRoot)]
        ELSE identity' = [identity EXCEPT
               ![a] = Revoked(identity[a]),
               ![to] = NewIdentity(recovery[a].newRoot, rotation, identity[a].recovery)]
     /\ Close(a)
     /\ past' = IF to = a THEN LeaveBehind(a) ELSE past
     /\ fence' = [fence EXCEPT ![to] = rotation]
     /\ overwritten' = IF to # a /\ identity[to] # None THEN overwritten \cup {to} ELSE overwritten
     /\ UNCHANGED <<height, cancelledAt>>

----------------------------------------------------------------------------
NextBlock ==
  /\ height < MaxHeight
  /\ height' = height + 1
  /\ UNCHANGED <<stores, ghosts, txs>>

Recorded == {s \in Slots : device[s] # None}

(* GenesisState.Validate on the exported stores.                           *)
GenesisValidates ==
  /\ \A a \in Addresses : identity[a] # None => ValidConfig(identity[a].recovery)
  /\ \A s \in Recorded : identity[s[1]] # None
  /\ \A s, t \in Recorded : device[s].key = device[t].key => s = t
  /\ \A a \in Addresses : Cardinality(ActiveDevices(a)) <= MaxDevicesPerIdentity
  /\ \A s \in Recorded :
       device[s].revoked \/ device[s].rotation = identity[s[1]].rotation
  /\ \A a \in Addresses : recovery[a] # None => identity[a] # None

(* Export and re-import: InitGenesis rebuilds the key index.               *)
Restart ==
  /\ GenesisValidates
  /\ keyIndex' = [k \in DeviceKeys |->
       IF \E s \in Recorded : device[s].key = k
       THEN CHOOSE s \in Recorded : device[s].key = k ELSE None]
  /\ UNCHANGED <<height, identity, device, recovery, ghosts, txs>>

Init ==
  /\ height = 1
  /\ identity = [a \in Addresses |-> None]
  /\ device = [s \in Slots |-> None]
  /\ keyIndex = [k \in DeviceKeys |-> None]
  /\ recovery = [a \in Addresses |-> None]
  /\ cancelledAt = [a \in Addresses |-> 0]
  /\ past = [a \in Addresses |-> {}]
  /\ fence = [a \in Addresses |-> 0]
  /\ overwritten = {}
  /\ txs = 0

Transaction(a) ==
  /\ txs < MaxTxs
  /\ txs' = txs + 1
  /\ \/ \E root \in RootKeys, cfg \in Configs : CreateIdentity(a, root, cfg)
     \/ AddDevice(a)
     \/ \E i \in DeviceIds : RevokeDevice(a, i)
     \/ \E root, by \in RootKeys, all \in BOOLEAN : RotateRootKey(a, root, by, all)
     \/ \E cfg \in Configs : SetRecoveryConfig(a, cfg)
     \/ RevokeIdentity(a)
     \/ \E g \in Guardians, to \in Addresses, root \in RootKeys :
          InitiateRecovery(a, g, to, root)
     \/ \E g \in Guardians : ApproveRecovery(a, g)
     \/ CancelRecovery(a)
     \/ ExecuteRecovery(a)

Next == (\E a \in Addresses : Transaction(a)) \/ NextBlock \/ Restart

Spec == Init /\ [][Next]_vars

----------------------------------------------------------------------------
(* Properties.                                                             *)

(* Every store maps keys to values of the types the code declares.         *)
TypeOK ==
  /\ height \in 1..MaxHeight
  /\ identity \in [Addresses -> RootIdentity \cup {None}]
  /\ device \in [Slots -> Device \cup {None}]
  /\ keyIndex \in [DeviceKeys -> Slots \cup {None}]
  /\ recovery \in [Addresses -> RecoveryRequest \cup {None}]
  /\ cancelledAt \in [Addresses -> Nat]
  /\ past \in [Addresses -> SUBSET (RootKeys \X Nat)]
  /\ fence \in [Addresses -> Nat]
  /\ overwritten \subseteq Addresses
  /\ txs \in Nat

(* ResolveDeviceKey finds for every key ever registered the one device that*)
(* has it, revoked or not, and for every other key nothing: no key belongs *)
(* to two devices.                                                         *)
KeyIndexAgrees ==
  \A k \in DeviceKeys, s \in Slots :
    keyIndex[k] = s <=> device[s] # None /\ device[s].key = k

(* A revoked device stays revoked and a device id keeps its key for good,  *)
(* through rotations, recoveries and re-imports.                           *)
RevokedForGood ==
  [][\A s \in Recorded :
       /\ device'[s] # None /\ device'[s].key = device[s].key
       /\ device[s].revoked => device'[s].revoked]_vars

(* A root key and rotation count that were replaced are never current      *)
(* again: no certificate or rotation signed under them can be presented    *)
(* later.  Identities that another's recovery overwrote are left out.      *)
SupersededNeverReturns ==
  \A a \in Addresses \ overwritten :
    identity[a] # None => <<identity[a].root, identity[a].rotation>> \notin past[a]

(* Once a recovery, or a rotation that revokes, has gone through, no device*)
(* certified before it has authority again.                                *)
OldDevicesStayOut ==
  \A a \in Addresses \ overwritten : \A i \in ActiveDevices(a) :
    device[<<a, i>>].rotation >= fence[a]

(* Only a live identity has active devices.                                *)
RevokedHasNoDevices ==
  \A a \in Addresses : ActiveDevices(a) # {} => Live(a)

(* Who may act for an account: every device key resolves to its one device,*)
(* and neither a superseded root key, nor a device certified before a      *)
(* recovery, nor a device of a revoked identity has authority.             *)
AuthorityAgrees ==
  KeyIndexAgrees /\ SupersededNeverReturns /\ OldDevicesStayOut /\ RevokedHasNoDevices

(* After an owner cancels, no recovery of the identity is executed for at  *)
(* least the protocol's minimum delay, whatever the guardians do (for      *)
(* delays with which the sum of Executable does not wrap).                 *)
CancelBuysDelay ==
  [][\A a \in Addresses :
       /\ Open(a) /\ recovery'[a].closed /\ identity'[a] # identity[a]
       /\ cancelledAt[a] # 0
       => height >= cancelledAt[a] + MinRecoveryDelayBlocks]_vars

=============================================================================
