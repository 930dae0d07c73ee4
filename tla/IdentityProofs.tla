--------------------------- MODULE IdentityProofs ---------------------------
(***************************************************************************)
(* Proofs about who someone is and whom they deal with: the identities of  *)
(* the chain (Identity), the contact books and the mail of the user's      *)
(* devices (Contacts, MailBox), and the mail of the Internet gateway       *)
(* (MailGateway).  The three parts share no state.                         *)
(*                                                                         *)
(* Identity, for any addresses, keys, devices, guardians, configurations   *)
(* and bounds: a transaction changes the devices in one of two ways, a new *)
(* device that AddDevice admits or a revocation of some devices of one     *)
(* account, and changes the identities in one of four; the lemmas on these *)
(* effects serve every transaction.                                        *)
(*                                                                         *)
(* Contacts and mail, for any devices, accounts, messages and scenarios:   *)
(* an operation changes one record of one book, or one box, or puts a note *)
(* or an envelope on its way; a lemma for each of these effects, and the   *)
(* fact that wishes, receipts and what was sent are never taken back.      *)
(*                                                                         *)
(* The gateway, for any messages, users, addresses, loads and bounds: what *)
(* is logged or answered is in hand, a native message that is logged is    *)
(* covered domain by domain, and the scan has left nothing behind.         *)
(***************************************************************************)
EXTENDS Identity, MailBox, MailGateway, FiniteSums

----------------------------------------------------------------------------
(* Types.                                                                  *)

LEMMA IdentityTyped ==
  ASSUME TypeOK, NEW a \in Addresses, identity[a] # None
  PROVE  /\ identity[a] \in RootIdentity
         /\ identity[a].root \in RootKeys /\ identity[a].rotation \in Nat
         /\ identity[a].recovery \in RecoveryConfig /\ identity[a].revoked \in BOOLEAN
BY DEF TypeOK, RootIdentity

LEMMA DeviceTyped ==
  ASSUME TypeOK, NEW s \in Slots, device[s] # None
  PROVE  /\ device[s] \in Device
         /\ device[s].key \in DeviceKeys /\ device[s].rotation \in Nat
         /\ device[s].revoked \in BOOLEAN
BY DEF TypeOK, Device

LEMMA RecoveryTyped ==
  ASSUME TypeOK, NEW a \in Addresses, recovery[a] # None
  PROVE  /\ recovery[a] \in RecoveryRequest
         /\ recovery[a].newAddress \in Addresses /\ recovery[a].newRoot \in RootKeys
         /\ recovery[a].approvals \in SUBSET Guardians /\ recovery[a].executable \in Int
         /\ recovery[a].closed \in BOOLEAN
BY DEF TypeOK, RecoveryRequest

LEMMA HeightTyped ==
  ASSUME TypeOK
  PROVE  height \in Nat /\ height # 0
BY BoundAssumption DEF TypeOK

LEMMA CertificateTyped ==
  ASSUME NEW c \in DeviceCertificate
  PROVE  /\ c.id \in DeviceIds /\ c.key \in DeviceKeys /\ c.rotation \in Nat
         /\ c.by \in RootKeys
BY BoundAssumption DEF DeviceCertificate

(* The two ways in which a transaction changes the devices.                *)
Added(a, c) ==
  /\ c \in DeviceCertificate
  /\ device[<<a, c.id>>] = None /\ keyIndex[c.key] = None
  /\ SetDevice(a, c)

LEMMA AddedTypes ==
  ASSUME TypeOK, NEW a \in Addresses, NEW c, Added(a, c)
  PROVE  /\ device' \in [Slots -> Device \cup {None}]
         /\ keyIndex' \in [DeviceKeys -> Slots \cup {None}]
         /\ \A s \in Slots : s # <<a, c.id>> => device'[s] = device[s]
         /\ \A k \in DeviceKeys : k # c.key => keyIndex'[k] = keyIndex[k]
         /\ keyIndex'[c.key] = <<a, c.id>>
         /\ device'[<<a, c.id>>] # None
         /\ device'[<<a, c.id>>].key = c.key
         /\ device'[<<a, c.id>>].rotation = c.rotation
         /\ ~device'[<<a, c.id>>].revoked
<1> DEFINE d == [key |-> c.key, rotation |-> c.rotation, revoked |-> FALSE]
<1>1. /\ c.id \in DeviceIds /\ c.key \in DeviceKeys /\ c.rotation \in Nat
  BY CertificateTyped DEF Added
<1>2. d \in Device
  BY <1>1 DEF Device
<1>7. d # None
  BY <1>2, StoreAssumption
<1>3. <<a, c.id>> \in Slots
  BY <1>1 DEF Slots
<1>4. d.key = c.key /\ d.rotation = c.rotation /\ d.revoked = FALSE
  OBVIOUS
<1>5. device' = [device EXCEPT ![<<a, c.id>>] = d]
  BY DEF Added, SetDevice
<1>6. keyIndex' = [keyIndex EXCEPT ![c.key] = <<a, c.id>>]
  BY DEF Added, SetDevice
<1> HIDE DEF d
<1> QED
  BY <1>1, <1>2, <1>7, <1>3, <1>4, <1>5, <1>6 DEF TypeOK

LEMMA RevokedTypes ==
  ASSUME TypeOK, NEW a \in Addresses, NEW ids \in SUBSET ActiveDevices(a),
         RevokeDevices(a, ids)
  PROVE  /\ device' \in [Slots -> Device \cup {None}]
         /\ keyIndex' = keyIndex
         /\ \A s \in Slots :
              /\ device'[s] = None <=> device[s] = None
              /\ device[s] # None =>
                   /\ device'[s].key = device[s].key
                   /\ device'[s].rotation = device[s].rotation
                   /\ device'[s].revoked <=>
                        device[s].revoked \/ (s[1] = a /\ s[2] \in ids)
<1> DEFINE r(s) == [key |-> device[s].key, rotation |-> device[s].rotation, revoked |-> TRUE]
<1>1. device' = [s \in Slots |-> IF s[1] = a /\ s[2] \in ids THEN r(s) ELSE device[s]]
      /\ keyIndex' = keyIndex
  BY DEF RevokeDevices
<1>2. ASSUME NEW s \in Slots, s[1] = a, s[2] \in ids
      PROVE  /\ device[s] # None
             /\ r(s) \in Device /\ r(s) # None
             /\ r(s).key = device[s].key /\ r(s).rotation = device[s].rotation
             /\ r(s).revoked = TRUE
  <2>1. s = <<a, s[2]>>
    BY <1>2 DEF Slots
  <2>2. device[s] # None
    BY <1>2, <2>1 DEF ActiveDevices
  <2>3. device[s].key \in DeviceKeys /\ device[s].rotation \in Nat
    BY <2>2, DeviceTyped
  <2>4. r(s) \in Device
    BY <2>3 DEF Device
  <2> QED
    BY <2>2, <2>4, StoreAssumption
<1> HIDE DEF r
<1>3. \A s \in Slots : device'[s] = IF s[1] = a /\ s[2] \in ids THEN r(s) ELSE device[s]
  BY <1>1
<1>4. \A s \in Slots : device[s] \in Device \cup {None}
  BY DEF TypeOK
<1>5. device' \in [Slots -> Device \cup {None}]
  BY <1>1, <1>2, <1>4
<1>6. ASSUME NEW s \in Slots, device[s] # None
      PROVE  /\ device'[s].key = device[s].key
             /\ device'[s].rotation = device[s].rotation
             /\ device'[s].revoked <=> device[s].revoked \/ (s[1] = a /\ s[2] \in ids)
  <2>1. CASE s[1] = a /\ s[2] \in ids
    BY <1>2, <1>3, <2>1
  <2>2. CASE ~(s[1] = a /\ s[2] \in ids)
    <3>1. device'[s] = device[s]
      BY <1>3, <2>2
    <3> QED
      BY <3>1, <2>2, <1>6, DeviceTyped
  <2> QED
    BY <2>1, <2>2
<1> QED
  BY <1>1, <1>2, <1>3, <1>5, <1>6

(* The records transactions write.                                         *)
LEMMA NewIdentityTyped ==
  ASSUME NEW root \in RootKeys, NEW n \in Nat, NEW cfg \in RecoveryConfig
  PROVE  /\ NewIdentity(root, n, cfg) \in RootIdentity
         /\ NewIdentity(root, n, cfg) # None
         /\ NewIdentity(root, n, cfg).root = root /\ NewIdentity(root, n, cfg).rotation = n
         /\ NewIdentity(root, n, cfg).recovery = cfg
         /\ NewIdentity(root, n, cfg).revoked = FALSE
<1>1. NewIdentity(root, n, cfg) \in RootIdentity
  BY DEF NewIdentity, RootIdentity
<1> QED
  BY <1>1, StoreAssumption DEF NewIdentity

LEMMA ReplacedTyped ==
  ASSUME NEW id \in RootIdentity, NEW root \in RootKeys
  PROVE  /\ Replaced(id, root) \in RootIdentity
         /\ Replaced(id, root) # None
         /\ Replaced(id, root).root = root /\ Replaced(id, root).rotation = id.rotation + 1
         /\ Replaced(id, root).recovery = id.recovery
         /\ Replaced(id, root).revoked = id.revoked
<1>1. Replaced(id, root) \in RootIdentity
  BY DEF Replaced, RootIdentity
<1> QED
  BY <1>1, StoreAssumption DEF Replaced

LEMMA RevokedIdentityTyped ==
  ASSUME NEW id \in RootIdentity
  PROVE  /\ Revoked(id) \in RootIdentity
         /\ Revoked(id) # None
         /\ Revoked(id).root = id.root /\ Revoked(id).rotation = id.rotation
         /\ Revoked(id).recovery = id.recovery
         /\ Revoked(id).revoked = TRUE
<1>1. Revoked(id) \in RootIdentity
  BY DEF Revoked, RootIdentity
<1> QED
  BY <1>1, StoreAssumption DEF Revoked

(* What every transaction does to the identities: nothing, or one of these.*)
Created(a) ==
  /\ identity[a] = None
  /\ \E root \in RootKeys, cfg \in Configs :
       ValidConfig(cfg) /\ identity' = [identity EXCEPT ![a] = NewIdentity(root, 0, cfg)]
  /\ UNCHANGED <<past, overwritten>>

Rotated(a, root) ==
  /\ Live(a)
  /\ identity' = [identity EXCEPT ![a] = Replaced(identity[a], root)]
  /\ past' = LeaveBehind(a)
  /\ UNCHANGED overwritten

Configured(a, cfg) ==
  /\ Live(a) /\ ValidConfig(cfg)
  /\ identity' = [identity EXCEPT ![a] =
       NewIdentity(identity[a].root, identity[a].rotation, cfg)]
  /\ UNCHANGED <<past, overwritten>>

Withdrawn(a) ==
  /\ Live(a)
  /\ identity' = [identity EXCEPT ![a] = Revoked(identity[a])]
  /\ UNCHANGED <<past, overwritten>>

Moved(a, to, root) ==
  /\ Live(a) /\ to # a
  /\ identity' = [identity EXCEPT
       ![a] = Revoked(identity[a]),
       ![to] = NewIdentity(root, identity[a].rotation + 1, identity[a].recovery)]
  /\ UNCHANGED past
  /\ overwritten' = IF identity[to] # None THEN overwritten \cup {to} ELSE overwritten

(* One account's record changes.                                           *)
LEMMA PutTypes ==
  ASSUME TypeOK, NEW a \in Addresses, NEW r \in RootIdentity,
         identity' = [identity EXCEPT ![a] = r]
  PROVE  /\ identity' \in [Addresses -> RootIdentity \cup {None}]
         /\ identity'[a] = r
         /\ \A b \in Addresses : b # a => identity'[b] = identity[b]
BY DEF TypeOK

LEMMA MovedTypes ==
  ASSUME TypeOK, NEW a \in Addresses, NEW to \in Addresses, NEW root \in RootKeys,
         Moved(a, to, root)
  PROVE  /\ identity' \in [Addresses -> RootIdentity \cup {None}]
         /\ identity'[a] = Revoked(identity[a])
         /\ identity'[to] = NewIdentity(root, identity[a].rotation + 1, identity[a].recovery)
         /\ \A b \in Addresses : b \notin {a, to} => identity'[b] = identity[b]
         /\ NewIdentity(root, identity[a].rotation + 1, identity[a].recovery) \in RootIdentity
<1> DEFINE r == Revoked(identity[a])
           n == NewIdentity(root, identity[a].rotation + 1, identity[a].recovery)
<1>1. identity[a] # None
  BY DEF Moved, Live
<1>2. r \in RootIdentity
  BY <1>1, IdentityTyped, RevokedIdentityTyped
<1>3. identity[a].rotation + 1 \in Nat /\ identity[a].recovery \in RecoveryConfig
  BY <1>1, IdentityTyped
<1>4. n \in RootIdentity
  BY <1>3, NewIdentityTyped
<1>5. identity' = [identity EXCEPT ![a] = r, ![to] = n] /\ to # a
  BY DEF Moved
<1> HIDE DEF r, n
<1>6. /\ identity' \in [Addresses -> RootIdentity \cup {None}]
      /\ identity'[a] = r /\ identity'[to] = n
      /\ \A b \in Addresses : b \notin {a, to} => identity'[b] = identity[b]
  BY <1>2, <1>4, <1>5 DEF TypeOK
<1> QED
  BY <1>4, <1>6 DEF r, n

----------------------------------------------------------------------------
(* Every transaction has one of these effects on identities and devices.   *)
SameIdentity == UNCHANGED <<identity, past, overwritten>>
SameDevices == UNCHANGED <<device, keyIndex>>
All(a) == RevokeDevices(a, ActiveDevices(a))
Fenced(b, n) == fence' = [fence EXCEPT ![b] = n]

Creates(a) ==
  /\ Created(a) /\ UNCHANGED fence
  /\ SameDevices \/ \E c \in DeviceCertificate : Added(a, c) /\ c.rotation = 0
Adds(a) ==
  /\ SameIdentity /\ UNCHANGED fence
  /\ Live(a)
  /\ \E c \in DeviceCertificate : Added(a, c) /\ c.rotation = identity[a].rotation
Drops(a) ==
  /\ SameIdentity /\ UNCHANGED fence
  /\ \E ids \in SUBSET ActiveDevices(a) : RevokeDevices(a, ids)
Rotates(a) ==
  \E root \in RootKeys :
    /\ Rotated(a, root)
    /\ \/ SameDevices /\ UNCHANGED fence
       \/ All(a) /\ Fenced(a, identity[a].rotation + 1)
Configures(a) ==
  (\E cfg \in Configs : Configured(a, cfg)) /\ SameDevices /\ UNCHANGED fence
Withdraws(a) == Withdrawn(a) /\ All(a) /\ UNCHANGED fence
Moves(a) ==
  \E to \in Addresses, root \in RootKeys :
    /\ Moved(a, to, root) /\ All(a)
    /\ Fenced(to, identity[a].rotation + 1)
Stays == SameIdentity /\ SameDevices /\ UNCHANGED fence

LEMMA Effects ==
  ASSUME TypeOK, NEW a \in Addresses, Transaction(a)
  PROVE  \/ Creates(a) \/ Adds(a) \/ Drops(a) \/ Rotates(a) \/ Configures(a)
         \/ Withdraws(a) \/ Moves(a) \/ Stays
<1>1. ASSUME NEW root \in RootKeys, NEW cfg \in Configs, CreateIdentity(a, root, cfg)
      PROVE  Creates(a)
  <2>1. Created(a) /\ UNCHANGED fence
    BY <1>1 DEF CreateIdentity, Created, ghosts
  <2>2. ASSUME NEW c \in DeviceCertificate, Admits(a, NewIdentity(root, 0, cfg), c),
               SetDevice(a, c)
        PROVE  Added(a, c) /\ c.rotation = 0
    BY <2>2 DEF Admits, Added, NewIdentity
  <2> QED
    BY <1>1, <2>1, <2>2 DEF CreateIdentity, Creates, SameDevices
<1>2. CASE AddDevice(a)
  <2>1. PICK c \in DeviceCertificate : Admits(a, identity[a], c) /\ SetDevice(a, c)
    BY <1>2 DEF AddDevice
  <2>2. Added(a, c) /\ c.rotation = identity[a].rotation /\ Live(a)
    BY <1>2, <2>1 DEF AddDevice, Admits, Added, Live
  <2>3. SameIdentity /\ UNCHANGED fence
    BY <1>2 DEF AddDevice, ghosts, SameIdentity
  <2> QED
    BY <2>2, <2>3 DEF Adds
<1>3. ASSUME NEW i \in DeviceIds, RevokeDevice(a, i)
      PROVE  Drops(a)
  <2>1. {i} \in SUBSET ActiveDevices(a) /\ RevokeDevices(a, {i})
    BY <1>3 DEF RevokeDevice
  <2>2. SameIdentity /\ UNCHANGED fence
    BY <1>3 DEF RevokeDevice, ghosts, SameIdentity
  <2> QED
    BY <2>1, <2>2 DEF Drops
<1>4. ASSUME NEW root \in RootKeys, NEW by \in RootKeys, NEW all \in BOOLEAN,
             RotateRootKey(a, root, by, all)
      PROVE  Rotates(a)
  <2>1. Rotated(a, root)
    BY <1>4 DEF RotateRootKey, Rotated
  <2>2. \/ SameDevices /\ UNCHANGED fence
        \/ All(a) /\ Fenced(a, identity[a].rotation + 1)
    BY <1>4 DEF RotateRootKey, SameDevices, All, Fenced
  <2> QED
    BY <2>1, <2>2 DEF Rotates
<1>5. ASSUME NEW cfg \in Configs, SetRecoveryConfig(a, cfg)
      PROVE  Configures(a)
  <2>1. Configured(a, cfg)
    BY <1>5 DEF SetRecoveryConfig, Configured, NewIdentity, ghosts
  <2> QED
    BY <1>5, <2>1 DEF SetRecoveryConfig, Configures, SameDevices, ghosts
<1>6. CASE RevokeIdentity(a)
  BY <1>6 DEF RevokeIdentity, Withdraws, Withdrawn, All, ghosts
<1>7. ASSUME \/ \E g \in Guardians, to \in Addresses, root \in RootKeys :
                  InitiateRecovery(a, g, to, root)
             \/ \E g \in Guardians : ApproveRecovery(a, g)
             \/ CancelRecovery(a)
      PROVE  Stays
  BY <1>7 DEF InitiateRecovery, ApproveRecovery, CancelRecovery, Stays, SameIdentity,
              SameDevices, ghosts
<1>8. CASE ExecuteRecovery(a)
  <2> DEFINE to == recovery[a].newAddress
             root == recovery[a].newRoot
  <2>1. recovery[a] # None
    BY <1>8 DEF ExecuteRecovery, Open
  <2>2. to \in Addresses /\ root \in RootKeys
    BY <2>1, RecoveryTyped
  <2>3. Live(a) /\ All(a) /\ Fenced(to, identity[a].rotation + 1)
    BY <1>8 DEF ExecuteRecovery, RevokedByRecovery, All, Fenced
  <2>4. CASE to = a
    <3>1. Rotated(a, root)
      BY <1>8, <2>3, <2>4 DEF ExecuteRecovery, Rotated
    <3> QED
      BY <3>1, <2>2, <2>3, <2>4 DEF Rotates
  <2>5. CASE to # a
    <3>1. Moved(a, to, root)
      BY <1>8, <2>3, <2>5 DEF ExecuteRecovery, Moved
    <3> QED
      BY <3>1, <2>2, <2>3 DEF Moves
  <2> QED
    BY <2>4, <2>5
<1> QED
  BY <1>1, <1>2, <1>3, <1>4, <1>5, <1>6, <1>7, <1>8 DEF Transaction

----------------------------------------------------------------------------
(* Type correctness.                                                       *)

LEMMA IdentityTypes ==
  ASSUME TypeOK, NEW a \in Addresses, Transaction(a)
  PROVE  /\ identity' \in [Addresses -> RootIdentity \cup {None}]
         /\ past' \in [Addresses -> SUBSET (RootKeys \X Nat)]
         /\ overwritten' \subseteq Addresses
<1> USE DEF SameIdentity
<1>1. /\ identity \in [Addresses -> RootIdentity \cup {None}]
      /\ past \in [Addresses -> SUBSET (RootKeys \X Nat)]
      /\ overwritten \subseteq Addresses
  BY DEF TypeOK
<1>2. ASSUME Created(a) PROVE identity' \in [Addresses -> RootIdentity \cup {None}]
  <2>1. PICK root \in RootKeys, cfg \in Configs :
          identity' = [identity EXCEPT ![a] = NewIdentity(root, 0, cfg)]
    BY <1>2 DEF Created
  <2>2. NewIdentity(root, 0, cfg) \in RootIdentity
    BY ConfigAssumption, NewIdentityTyped
  <2> QED
    BY <2>1, <2>2, PutTypes
<1>3. ASSUME NEW root \in RootKeys, Rotated(a, root)
      PROVE  /\ identity' \in [Addresses -> RootIdentity \cup {None}]
             /\ past' \in [Addresses -> SUBSET (RootKeys \X Nat)]
  <2>1. identity[a] # None
    BY <1>3 DEF Rotated, Live
  <2>2. Replaced(identity[a], root) \in RootIdentity
    BY <2>1, IdentityTyped, ReplacedTyped
  <2>3. <<identity[a].root, identity[a].rotation>> \in RootKeys \X Nat
    BY <2>1, IdentityTyped
  <2> QED
    BY <1>1, <1>3, <2>2, <2>3, PutTypes DEF Rotated, LeaveBehind
<1>4. ASSUME NEW cfg \in Configs, Configured(a, cfg)
      PROVE  identity' \in [Addresses -> RootIdentity \cup {None}]
  <2>1. identity[a] # None
    BY <1>4 DEF Configured, Live
  <2>2. NewIdentity(identity[a].root, identity[a].rotation, cfg) \in RootIdentity
    BY <2>1, ConfigAssumption, IdentityTyped, NewIdentityTyped
  <2> QED
    BY <1>4, <2>2, PutTypes DEF Configured
<1>5. ASSUME Withdrawn(a) PROVE identity' \in [Addresses -> RootIdentity \cup {None}]
  <2>1. identity[a] # None
    BY <1>5 DEF Withdrawn, Live
  <2>2. Revoked(identity[a]) \in RootIdentity
    BY <2>1, IdentityTyped, RevokedIdentityTyped
  <2> QED
    BY <1>5, <2>2, PutTypes DEF Withdrawn
<1>6. ASSUME NEW to \in Addresses, NEW root \in RootKeys, Moved(a, to, root)
      PROVE  /\ identity' \in [Addresses -> RootIdentity \cup {None}]
             /\ overwritten' \subseteq Addresses
  BY <1>1, <1>6, MovedTypes DEF Moved
<1>7. CASE Creates(a)
  BY <1>1, <1>2, <1>7 DEF Creates, Created
<1>8. CASE Adds(a) \/ Drops(a) \/ Stays
  BY <1>1, <1>8 DEF Adds, Drops, Stays
<1>9. CASE Rotates(a)
  BY <1>1, <1>3, <1>9 DEF Rotates, Rotated
<1>10. CASE Configures(a)
  BY <1>1, <1>4, <1>10 DEF Configures, Configured
<1>11. CASE Withdraws(a)
  BY <1>1, <1>5, <1>11 DEF Withdraws, Withdrawn
<1>12. CASE Moves(a)
  BY <1>1, <1>6, <1>12 DEF Moves, Moved
<1> QED
  BY <1>7, <1>8, <1>9, <1>10, <1>11, <1>12, Effects

LEMMA DeviceTypes ==
  ASSUME TypeOK, NEW a \in Addresses, Transaction(a)
  PROVE  /\ device' \in [Slots -> Device \cup {None}]
         /\ keyIndex' \in [DeviceKeys -> Slots \cup {None}]
         /\ fence' \in [Addresses -> Nat]
<1>1. /\ device \in [Slots -> Device \cup {None}]
      /\ keyIndex \in [DeviceKeys -> Slots \cup {None}]
      /\ fence \in [Addresses -> Nat]
  BY DEF TypeOK
<1>2. ASSUME NEW c, Added(a, c)
      PROVE  /\ device' \in [Slots -> Device \cup {None}]
             /\ keyIndex' \in [DeviceKeys -> Slots \cup {None}]
  BY <1>2, AddedTypes
<1>3. ASSUME NEW ids \in SUBSET ActiveDevices(a), RevokeDevices(a, ids)
      PROVE  /\ device' \in [Slots -> Device \cup {None}]
             /\ keyIndex' \in [DeviceKeys -> Slots \cup {None}]
  BY <1>1, <1>3, RevokedTypes
<1>4. ASSUME NEW b \in Addresses, Live(a), Fenced(b, identity[a].rotation + 1)
      PROVE  fence' \in [Addresses -> Nat]
  <2>1. identity[a].rotation + 1 \in Nat
    BY <1>4, IdentityTyped DEF Live
  <2> QED
    BY <1>1, <1>4, <2>1 DEF Fenced
<1>5. CASE Creates(a)
  BY <1>1, <1>2, <1>5 DEF Creates, SameDevices
<1>6. CASE Adds(a) \/ Drops(a) \/ Stays
  BY <1>1, <1>2, <1>3, <1>6 DEF Adds, Drops, Stays, SameDevices
<1>7. CASE Rotates(a)
  BY <1>1, <1>3, <1>4, <1>7 DEF Rotates, Rotated, All, SameDevices
<1>8. CASE Configures(a)
  BY <1>1, <1>8 DEF Configures, SameDevices
<1>9. CASE Withdraws(a)
  BY <1>1, <1>3, <1>9 DEF Withdraws, All
<1>10. CASE Moves(a)
  BY <1>1, <1>3, <1>4, <1>10 DEF Moves, Moved, All
<1> QED
  BY <1>5, <1>6, <1>7, <1>8, <1>9, <1>10, Effects

(* What every transaction does to the recovery requests.                   *)
NewRequest(a, g, to, root) ==
  [newAddress |-> to, newRoot |-> root, approvals |-> {g},
   executable |-> Executable(a), closed |-> FALSE]

LEMMA ExecutableTyped ==
  ASSUME TypeOK, NEW a \in Addresses, identity[a] # None
  PROVE  Executable(a) \in Int
<1>1. identity[a].recovery.delay \in Nat
  BY IdentityTyped DEF RecoveryConfig
<1>2. height \in Nat
  BY HeightTyped
<1> QED
  BY <1>1, <1>2, BoundAssumption DEF Executable

LEMMA InitiateTyped ==
  ASSUME TypeOK, NEW a \in Addresses, NEW g \in Guardians, NEW to \in Addresses,
         NEW root \in RootKeys, InitiateRecovery(a, g, to, root)
  PROVE  /\ recovery' \in [Addresses -> RecoveryRequest \cup {None}]
         /\ recovery'[a] # None /\ recovery'[a].executable = Executable(a)
         /\ \A b \in Addresses : b # a => recovery'[b] = recovery[b]
<1> DEFINE r == NewRequest(a, g, to, root)
<1>1. Executable(a) \in Int
  BY ExecutableTyped DEF InitiateRecovery, Live
<1>2. r \in RecoveryRequest
  BY <1>1 DEF NewRequest, RecoveryRequest
<1>3. r # None /\ r.executable = Executable(a)
  BY <1>2, StoreAssumption DEF NewRequest
<1>4. recovery' = [recovery EXCEPT ![a] = r]
  BY DEF InitiateRecovery, NewRequest
<1> HIDE DEF r
<1> QED
  BY <1>2, <1>3, <1>4 DEF TypeOK

LEMMA ApproveTyped ==
  ASSUME TypeOK, NEW a \in Addresses, NEW g \in Guardians, ApproveRecovery(a, g)
  PROVE  /\ recovery' \in [Addresses -> RecoveryRequest \cup {None}]
         /\ recovery'[a] # None /\ recovery'[a].executable = recovery[a].executable
         /\ \A b \in Addresses : b # a => recovery'[b] = recovery[b]
<1> DEFINE r == [newAddress |-> recovery[a].newAddress, newRoot |-> recovery[a].newRoot,
                 approvals |-> recovery[a].approvals \cup {g},
                 executable |-> recovery[a].executable, closed |-> recovery[a].closed]
<1>1. recovery[a] # None
  BY DEF ApproveRecovery, Open
<1>2. r \in RecoveryRequest
  BY <1>1, RecoveryTyped DEF RecoveryRequest
<1>3. r # None /\ r.executable = recovery[a].executable
  BY <1>2, StoreAssumption
<1>4. recovery' = [recovery EXCEPT ![a] = r]
  BY DEF ApproveRecovery
<1> HIDE DEF r
<1> QED
  BY <1>2, <1>3, <1>4 DEF TypeOK

LEMMA CloseTyped ==
  ASSUME TypeOK, NEW a \in Addresses, Open(a), Close(a)
  PROVE  /\ recovery' \in [Addresses -> RecoveryRequest \cup {None}]
         /\ recovery'[a] # None /\ recovery'[a].closed
         /\ recovery'[a].executable = recovery[a].executable
         /\ \A b \in Addresses : b # a => recovery'[b] = recovery[b]
<1> DEFINE r == [newAddress |-> recovery[a].newAddress, newRoot |-> recovery[a].newRoot,
                 approvals |-> recovery[a].approvals,
                 executable |-> recovery[a].executable, closed |-> TRUE]
<1>1. recovery[a] # None
  BY DEF Open
<1>2. r \in RecoveryRequest
  BY <1>1, RecoveryTyped DEF RecoveryRequest
<1>3. r # None /\ r.executable = recovery[a].executable /\ r.closed = TRUE
  BY <1>2, StoreAssumption
<1>4. recovery' = [recovery EXCEPT ![a] = r]
  BY DEF Close
<1> HIDE DEF r
<1> QED
  BY <1>2, <1>3, <1>4 DEF TypeOK

LEMMA InitTypes == Init => TypeOK
BY BoundAssumption DEF Init, TypeOK

(* The variables whose types the lemmas above leave.                       *)
LEMMA RestTypes ==
  ASSUME TypeOK, NEW a \in Addresses, Transaction(a)
  PROVE  /\ recovery' \in [Addresses -> RecoveryRequest \cup {None}]
         /\ cancelledAt' \in [Addresses -> Nat]
         /\ height' = height /\ txs' \in Nat
<1>1. txs' \in Nat
  BY BoundAssumption DEF Transaction, TypeOK
<1>2. /\ recovery \in [Addresses -> RecoveryRequest \cup {None}]
      /\ cancelledAt \in [Addresses -> Nat]
  BY DEF TypeOK
<1>3. ASSUME NEW root \in RootKeys, NEW cfg \in Configs, CreateIdentity(a, root, cfg)
      PROVE  UNCHANGED <<recovery, cancelledAt, height>>
  BY <1>3 DEF CreateIdentity, ghosts
<1>4. CASE AddDevice(a)
  BY <1>1, <1>2, <1>4 DEF AddDevice, ghosts
<1>5. ASSUME NEW i \in DeviceIds, RevokeDevice(a, i)
      PROVE  UNCHANGED <<recovery, cancelledAt, height>>
  BY <1>5 DEF RevokeDevice, ghosts
<1>6. ASSUME NEW root \in RootKeys, NEW by \in RootKeys, NEW all \in BOOLEAN,
             RotateRootKey(a, root, by, all)
      PROVE  UNCHANGED <<recovery, cancelledAt, height>>
  BY <1>6 DEF RotateRootKey
<1>7. ASSUME NEW cfg \in Configs, SetRecoveryConfig(a, cfg)
      PROVE  UNCHANGED <<recovery, cancelledAt, height>>
  BY <1>7 DEF SetRecoveryConfig, ghosts
<1>8. CASE RevokeIdentity(a)
  BY <1>1, <1>2, <1>8 DEF RevokeIdentity, ghosts
<1>9. ASSUME NEW g \in Guardians, NEW to \in Addresses, NEW root \in RootKeys,
             InitiateRecovery(a, g, to, root)
      PROVE  /\ recovery' \in [Addresses -> RecoveryRequest \cup {None}]
             /\ UNCHANGED <<cancelledAt, height>>
  <2>1. UNCHANGED <<cancelledAt, height>>
    BY <1>9 DEF InitiateRecovery, ghosts
  <2> QED
    BY <1>9, <2>1, InitiateTyped
<1>10. ASSUME NEW g \in Guardians, ApproveRecovery(a, g)
       PROVE  /\ recovery' \in [Addresses -> RecoveryRequest \cup {None}]
              /\ UNCHANGED <<cancelledAt, height>>
  <2>1. UNCHANGED <<cancelledAt, height>>
    BY <1>10 DEF ApproveRecovery, ghosts
  <2> QED
    BY <1>10, <2>1, ApproveTyped
<1>11. CASE CancelRecovery(a)
  <2>1. recovery' \in [Addresses -> RecoveryRequest \cup {None}]
    BY <1>11, CloseTyped DEF CancelRecovery
  <2>2. cancelledAt' \in [Addresses -> Nat]
    BY <1>2, <1>11, HeightTyped DEF CancelRecovery
  <2> QED
    BY <1>1, <1>11, <2>1, <2>2 DEF CancelRecovery
<1>12. CASE ExecuteRecovery(a)
  <2>1. recovery' \in [Addresses -> RecoveryRequest \cup {None}]
    BY <1>12, CloseTyped DEF ExecuteRecovery
  <2> QED
    BY <1>1, <1>2, <1>12, <2>1 DEF ExecuteRecovery
<1> QED
  BY <1>1, <1>2, <1>3, <1>4, <1>5, <1>6, <1>7, <1>8, <1>9, <1>10, <1>11, <1>12
     DEF Transaction

LEMMA RestartTypes ==
  ASSUME TypeOK, Restart
  PROVE  TypeOK'
<1>1. \A k \in DeviceKeys :
        (\E s \in Recorded : device[s].key = k) =>
          (CHOOSE s \in Recorded : device[s].key = k) \in Slots
  BY DEF Recorded
<1>2. keyIndex' \in [DeviceKeys -> Slots \cup {None}]
  BY <1>1 DEF Restart
<1> QED
  BY <1>2 DEF TypeOK, Restart, ghosts

LEMMA NextTypes == TypeOK /\ [Next]_vars => TypeOK'
<1> SUFFICES ASSUME TypeOK, [Next]_vars PROVE TypeOK'
  OBVIOUS
<1>1. ASSUME NEW a \in Addresses, Transaction(a) PROVE TypeOK'
  <2>1. height' \in 1..MaxHeight
    BY <1>1, RestTypes DEF TypeOK
  <2> QED
    BY <1>1, <2>1, RestTypes, IdentityTypes, DeviceTypes DEF TypeOK
<1>2. CASE NextBlock
  BY <1>2, BoundAssumption DEF NextBlock, TypeOK, stores, ghosts
<1>3. CASE Restart
  BY <1>3, RestartTypes
<1>4. CASE UNCHANGED vars
  BY <1>4 DEF vars, stores, ghosts, TypeOK
<1> QED
  BY <1>1, <1>2, <1>3, <1>4 DEF Next

(* Every store and ghost of x/identity keeps its type (keeper.go).         *)
THEOREM TypeCorrect == Spec => []TypeOK
BY InitTypes, NextTypes, PTL DEF Spec

----------------------------------------------------------------------------
(* The index of device keys.                                               *)

LEMMA AddKeepsIndex ==
  ASSUME TypeOK, KeyIndexAgrees, NEW a \in Addresses, NEW c, Added(a, c)
  PROVE  KeyIndexAgrees'
<1> DEFINE t == <<a, c.id>>
<1>1. t \in Slots /\ c.key \in DeviceKeys
  BY CertificateTyped DEF Added, Slots
<1>2. /\ \A s \in Slots : s # t => device'[s] = device[s]
      /\ \A k \in DeviceKeys : k # c.key => keyIndex'[k] = keyIndex[k]
      /\ keyIndex'[c.key] = t
      /\ device'[t] # None /\ device'[t].key = c.key
  BY AddedTypes
<1>3. device[t] = None /\ keyIndex[c.key] = None
  BY DEF Added
<1>4. \A s \in Slots : s # None
  BY StoreAssumption
<1>5. ASSUME NEW k \in DeviceKeys, NEW s \in Slots
      PROVE  keyIndex'[k] = s <=> device'[s] # None /\ device'[s].key = k
  <2>1. keyIndex[k] = s <=> device[s] # None /\ device[s].key = k
    BY DEF KeyIndexAgrees
  <2>2. keyIndex[c.key] = s <=> device[s] # None /\ device[s].key = c.key
    BY <1>1 DEF KeyIndexAgrees
  <2>3. keyIndex[k] = t <=> device[t] # None /\ device[t].key = k
    BY <1>1 DEF KeyIndexAgrees
  <2>4. CASE k = c.key
    BY <1>2, <1>3, <1>4, <2>2, <2>4
  <2>5. CASE k # c.key
    BY <1>2, <1>3, <2>1, <2>3, <2>5
  <2> QED
    BY <2>4, <2>5
<1> QED
  BY <1>5 DEF KeyIndexAgrees

LEMMA RevokeKeepsIndex ==
  ASSUME TypeOK, KeyIndexAgrees, NEW a \in Addresses, NEW ids \in SUBSET ActiveDevices(a),
         RevokeDevices(a, ids)
  PROVE  KeyIndexAgrees'
<1>1. /\ keyIndex' = keyIndex
      /\ \A s \in Slots : /\ device'[s] = None <=> device[s] = None
                          /\ device[s] # None => device'[s].key = device[s].key
  BY RevokedTypes
<1> QED
  BY <1>1 DEF KeyIndexAgrees

(* InitGenesis builds the index the export had.                            *)
LEMMA RestartKeepsIndex ==
  ASSUME TypeOK, KeyIndexAgrees, Restart
  PROVE  KeyIndexAgrees'
<1>1. ASSUME NEW k \in DeviceKeys, NEW s \in Slots
      PROVE  keyIndex'[k] = s <=> device[s] # None /\ device[s].key = k
  <2>1. \A t \in Slots : keyIndex[k] = t <=> device[t] # None /\ device[t].key = k
    BY DEF KeyIndexAgrees
  <2>2. keyIndex'[k] = IF \E t \in Recorded : device[t].key = k
                       THEN CHOOSE t \in Recorded : device[t].key = k ELSE None
    BY DEF Restart
  <2>3. CASE \E t \in Recorded : device[t].key = k
    <3>1. PICK t \in Recorded : device[t].key = k
      BY <2>3
    <3>2. t \in Slots /\ device[t] # None
      BY DEF Recorded
    <3>3. \A u \in Recorded : device[u].key = k => u = t
      BY <2>1, <3>1, <3>2 DEF Recorded
    <3>4. keyIndex'[k] = t
      BY <2>2, <2>3, <3>1, <3>3
    <3> QED
      BY <2>1, <3>1, <3>2, <3>4
  <2>4. CASE ~ \E t \in Recorded : device[t].key = k
    BY <2>2, <2>4, StoreAssumption DEF Recorded
  <2> QED
    BY <2>3, <2>4
<1>2. UNCHANGED device
  BY DEF Restart
<1> QED
  BY <1>1, <1>2 DEF KeyIndexAgrees

LEMMA TransactionKeepsIndex ==
  ASSUME TypeOK, KeyIndexAgrees, NEW a \in Addresses, Transaction(a)
  PROVE  KeyIndexAgrees'
<1>1. ASSUME SameDevices PROVE KeyIndexAgrees'
  BY <1>1 DEF SameDevices, KeyIndexAgrees
<1>2. ASSUME All(a) PROVE KeyIndexAgrees'
  BY <1>2, RevokeKeepsIndex DEF All
<1>3. CASE Creates(a)
  BY <1>1, <1>3, AddKeepsIndex DEF Creates
<1>4. CASE Adds(a)
  BY <1>4, AddKeepsIndex DEF Adds
<1>5. CASE Drops(a)
  BY <1>5, RevokeKeepsIndex DEF Drops
<1>6. CASE Rotates(a)
  BY <1>1, <1>2, <1>6 DEF Rotates
<1>7. CASE Configures(a) \/ Stays
  BY <1>1, <1>7 DEF Configures, Stays
<1>8. CASE Withdraws(a) \/ Moves(a)
  BY <1>2, <1>8 DEF Withdraws, Moves
<1> QED
  BY <1>3, <1>4, <1>5, <1>6, <1>7, <1>8, Effects

----------------------------------------------------------------------------
(* Active devices.                                                         *)

LEMMA ActiveAfterAdd ==
  ASSUME TypeOK, NEW a \in Addresses, NEW c, Added(a, c)
  PROVE  /\ ActiveDevices(a)' = ActiveDevices(a) \cup {c.id}
         /\ \A b \in Addresses : b # a => ActiveDevices(b)' = ActiveDevices(b)
         /\ \A b \in Addresses : \A i \in ActiveDevices(b) :
              device'[<<b, i>>].rotation = device[<<b, i>>].rotation
<1>1. c.id \in DeviceIds
  BY CertificateTyped DEF Added
<1>2. /\ \A s \in Slots : s # <<a, c.id>> => device'[s] = device[s]
      /\ device'[<<a, c.id>>] # None /\ ~device'[<<a, c.id>>].revoked
  BY AddedTypes
<1>3. device[<<a, c.id>>] = None
  BY DEF Added
<1>4. \A b \in Addresses, i \in DeviceIds :
        <<b, i>> \in Slots /\ (<<b, i>> = <<a, c.id>> <=> b = a /\ i = c.id)
  BY DEF Slots
<1>5. \A b \in Addresses, i \in DeviceIds :
        ~(b = a /\ i = c.id) => device'[<<b, i>>] = device[<<b, i>>]
  BY <1>2, <1>4
<1>6. \A i \in DeviceIds : i \in ActiveDevices(a)' <=> i \in ActiveDevices(a) \/ i = c.id
  BY <1>1, <1>2, <1>3, <1>5 DEF ActiveDevices
<1>7. \A b \in Addresses : b # a => ActiveDevices(b)' = ActiveDevices(b)
  BY <1>5 DEF ActiveDevices
<1>8. ASSUME NEW b \in Addresses, NEW i \in ActiveDevices(b)
      PROVE  device'[<<b, i>>].rotation = device[<<b, i>>].rotation
  BY <1>3, <1>5 DEF ActiveDevices
<1>9. ActiveDevices(a)' = ActiveDevices(a) \cup {c.id}
  BY <1>1, <1>6 DEF ActiveDevices
<1> QED
  BY <1>7, <1>8, <1>9

LEMMA ActiveAfterRevoke ==
  ASSUME TypeOK, NEW a \in Addresses, NEW ids \in SUBSET ActiveDevices(a),
         RevokeDevices(a, ids)
  PROVE  /\ ActiveDevices(a)' = ActiveDevices(a) \ ids
         /\ \A b \in Addresses : b # a => ActiveDevices(b)' = ActiveDevices(b)
         /\ \A b \in Addresses : \A i \in ActiveDevices(b) :
              device'[<<b, i>>].rotation = device[<<b, i>>].rotation
<1>1. ASSUME NEW b \in Addresses, NEW i \in DeviceIds
      PROVE  /\ device'[<<b, i>>] = None <=> device[<<b, i>>] = None
             /\ device[<<b, i>>] # None =>
                  /\ device'[<<b, i>>].rotation = device[<<b, i>>].rotation
                  /\ device'[<<b, i>>].revoked <=>
                       device[<<b, i>>].revoked \/ (b = a /\ i \in ids)
  <2>1. <<b, i>> \in Slots /\ <<b, i>>[1] = b /\ <<b, i>>[2] = i
    BY DEF Slots
  <2> QED
    BY <2>1, RevokedTypes
<1>2. ActiveDevices(a)' = ActiveDevices(a) \ ids
  BY <1>1 DEF ActiveDevices
<1>3. \A b \in Addresses : b # a => ActiveDevices(b)' = ActiveDevices(b)
  BY <1>1 DEF ActiveDevices
<1>4. \A b \in Addresses : \A i \in ActiveDevices(b) :
        device'[<<b, i>>].rotation = device[<<b, i>>].rotation
  BY <1>1 DEF ActiveDevices
<1> QED
  BY <1>2, <1>3, <1>4

----------------------------------------------------------------------------
(* The inductive invariant.  Rotations only grow: every root key left      *)
(* behind has a smaller rotation count than the identity, and no fence is  *)
(* ahead of it.  An address without an identity has neither; an identity   *)
(* that another's recovery overwrote starts again and is left out.         *)
RotationOf(a) == IF identity[a] = None THEN 0 ELSE identity[a].rotation

PastIsOlder ==
  \A a \in Addresses \ overwritten : \A p \in past[a] : p[2] < RotationOf(a)
FenceIsReached ==
  \A a \in Addresses \ overwritten : fence[a] <= RotationOf(a)

IInv ==
  /\ TypeOK /\ KeyIndexAgrees /\ RevokedHasNoDevices
  /\ PastIsOlder /\ FenceIsReached /\ OldDevicesStayOut

(* What a transaction does to one account's rotation and whether it lives. *)
LEMMA RotationTyped ==
  ASSUME TypeOK, NEW a \in Addresses
  PROVE  RotationOf(a) \in Nat
BY IdentityTyped DEF RotationOf

LEMMA LiveAfter ==
  ASSUME TypeOK, NEW a \in Addresses
  PROVE  /\ SameIdentity => \A b \in Addresses : Live(b)' = Live(b) /\ RotationOf(b)' = RotationOf(b)
         /\ Created(a) => Live(a)' /\ RotationOf(a) = 0 /\ RotationOf(a)' = 0
         /\ \A root \in RootKeys :
              Rotated(a, root) => Live(a)' /\ RotationOf(a)' = RotationOf(a) + 1
         /\ \A cfg \in Configs :
              Configured(a, cfg) => Live(a)' /\ RotationOf(a)' = RotationOf(a)
         /\ Withdrawn(a) => RotationOf(a)' = RotationOf(a)
         /\ \/ Created(a) \/ (\E root \in RootKeys : Rotated(a, root))
            \/ (\E cfg \in Configs : Configured(a, cfg)) \/ Withdrawn(a)
            => \A b \in Addresses : b # a => Live(b)' = Live(b) /\ RotationOf(b)' = RotationOf(b)
<1>1. SameIdentity => \A b \in Addresses : Live(b)' = Live(b) /\ RotationOf(b)' = RotationOf(b)
  BY DEF SameIdentity, Live, RotationOf
<1>2. ASSUME NEW r \in RootIdentity, identity' = [identity EXCEPT ![a] = r]
      PROVE  /\ Live(a)' <=> ~r.revoked
             /\ RotationOf(a)' = r.rotation
             /\ \A b \in Addresses : b # a => Live(b)' = Live(b) /\ RotationOf(b)' = RotationOf(b)
  <2>1. identity'[a] = r /\ r # None
    BY <1>2, PutTypes, StoreAssumption
  <2>2. \A b \in Addresses : b # a => identity'[b] = identity[b]
    BY <1>2, PutTypes
  <2> QED
    BY <2>1, <2>2 DEF Live, RotationOf
<1>3. ASSUME Created(a)
      PROVE  /\ Live(a)' /\ RotationOf(a) = 0 /\ RotationOf(a)' = 0
             /\ \A b \in Addresses : b # a => Live(b)' = Live(b) /\ RotationOf(b)' = RotationOf(b)
  <2>1. PICK root \in RootKeys, cfg \in Configs :
          identity' = [identity EXCEPT ![a] = NewIdentity(root, 0, cfg)]
    BY <1>3 DEF Created
  <2>2. /\ NewIdentity(root, 0, cfg) \in RootIdentity
        /\ NewIdentity(root, 0, cfg).rotation = 0 /\ NewIdentity(root, 0, cfg).revoked = FALSE
    <3>1. cfg \in RecoveryConfig /\ 0 \in Nat
      BY ConfigAssumption
    <3>2. NewIdentity(root, 0, cfg) \in RootIdentity
      BY <3>1, NewIdentityTyped
    <3>3. NewIdentity(root, 0, cfg).rotation = 0 /\ NewIdentity(root, 0, cfg).revoked = FALSE
      BY DEF NewIdentity
    <3> QED
      BY <3>2, <3>3
  <2>3. RotationOf(a) = 0
    BY <1>3 DEF Created, RotationOf
  <2> QED
    BY <2>1, <2>2, <2>3, <1>2
<1>4. ASSUME NEW root \in RootKeys, Rotated(a, root)
      PROVE  /\ Live(a)' /\ RotationOf(a)' = RotationOf(a) + 1
             /\ \A b \in Addresses : b # a => Live(b)' = Live(b) /\ RotationOf(b)' = RotationOf(b)
  <2>1. identity[a] # None /\ ~identity[a].revoked
    BY <1>4 DEF Rotated, Live
  <2>2. /\ Replaced(identity[a], root) \in RootIdentity
        /\ Replaced(identity[a], root).rotation = identity[a].rotation + 1
        /\ ~Replaced(identity[a], root).revoked
    BY <2>1, IdentityTyped, ReplacedTyped
  <2>3. RotationOf(a) = identity[a].rotation
    BY <2>1 DEF RotationOf
  <2> QED
    BY <1>4, <2>2, <2>3, <1>2 DEF Rotated
<1>5. ASSUME NEW cfg \in Configs, Configured(a, cfg)
      PROVE  /\ Live(a)' /\ RotationOf(a)' = RotationOf(a)
             /\ \A b \in Addresses : b # a => Live(b)' = Live(b) /\ RotationOf(b)' = RotationOf(b)
  <2> DEFINE r == NewIdentity(identity[a].root, identity[a].rotation, cfg)
  <2>1. identity[a] # None
    BY <1>5 DEF Configured, Live
  <2>2. r \in RootIdentity /\ r.rotation = identity[a].rotation /\ ~r.revoked
    <3>1. cfg \in RecoveryConfig
      BY ConfigAssumption
    <3>2. identity[a].root \in RootKeys /\ identity[a].rotation \in Nat
      BY <2>1, IdentityTyped
    <3>3. r \in RootIdentity
      BY <3>1, <3>2, NewIdentityTyped
    <3>4. r.rotation = identity[a].rotation /\ r.revoked = FALSE
      BY DEF NewIdentity
    <3> QED
      BY <3>3, <3>4
  <2>3. RotationOf(a) = identity[a].rotation
    BY <2>1 DEF RotationOf
  <2>4. identity' = [identity EXCEPT ![a] = r]
    BY <1>5 DEF Configured
  <2> HIDE DEF r
  <2> QED
    BY <2>2, <2>3, <2>4, <1>2
<1>6. ASSUME Withdrawn(a)
      PROVE  /\ RotationOf(a)' = RotationOf(a)
             /\ \A b \in Addresses : b # a => Live(b)' = Live(b) /\ RotationOf(b)' = RotationOf(b)
  <2>1. identity[a] # None
    BY <1>6 DEF Withdrawn, Live
  <2>2. /\ Revoked(identity[a]) \in RootIdentity
        /\ Revoked(identity[a]).rotation = identity[a].rotation
    BY <2>1, IdentityTyped, RevokedIdentityTyped
  <2>3. RotationOf(a) = identity[a].rotation
    BY <2>1 DEF RotationOf
  <2> QED
    BY <1>6, <2>2, <2>3, <1>2 DEF Withdrawn
<1> QED
  BY <1>1, <1>3, <1>4, <1>5, <1>6

LEMMA MovedAfter ==
  ASSUME TypeOK, NEW a \in Addresses, NEW to \in Addresses, NEW root \in RootKeys,
         Moved(a, to, root)
  PROVE  /\ Live(a) /\ to # a /\ Live(to)'
         /\ RotationOf(a)' = RotationOf(a) /\ RotationOf(to)' = RotationOf(a) + 1
         /\ RotationOf(a) = identity[a].rotation
         /\ \A b \in Addresses : b \notin {a, to} => Live(b)' = Live(b) /\ RotationOf(b)' = RotationOf(b)
         /\ to \notin overwritten' => ~Live(to) /\ RotationOf(to) = 0
         /\ overwritten \subseteq overwritten' /\ past' = past
<1> DEFINE r == Revoked(identity[a])
           n == NewIdentity(root, identity[a].rotation + 1, identity[a].recovery)
<1>1. Live(a) /\ to # a /\ identity[a] # None
  BY DEF Moved, Live
<1>2. /\ identity'[a] = r /\ identity'[to] = n
      /\ \A b \in Addresses : b \notin {a, to} => identity'[b] = identity[b]
      /\ n \in RootIdentity
  BY MovedTypes
<1>3. r \in RootIdentity
  BY <1>1, IdentityTyped, RevokedIdentityTyped
<1>4. r # None /\ n # None
  BY <1>2, <1>3, StoreAssumption
<1>5. r.rotation = identity[a].rotation
  BY DEF Revoked
<1>6. n.rotation = identity[a].rotation + 1 /\ n.revoked = FALSE
  BY DEF NewIdentity
<1>7. to \notin overwritten' => identity[to] = None
  BY DEF Moved
<1>8. overwritten \subseteq overwritten' /\ past' = past
  BY DEF Moved
<1> HIDE DEF r, n
<1> QED
  BY <1>1, <1>2, <1>4, <1>5, <1>6, <1>7, <1>8 DEF Live, RotationOf

(* The effects on active devices, in the words of the invariant.           *)
LEMMA SameActive ==
  ASSUME SameDevices
  PROVE  \A b \in Addresses :
           /\ ActiveDevices(b)' = ActiveDevices(b)
           /\ \A i \in DeviceIds : device'[<<b, i>>] = device[<<b, i>>]
           /\ \A i \in ActiveDevices(b)' : device'[<<b, i>>].rotation = device[<<b, i>>].rotation
BY DEF SameDevices, ActiveDevices

LEMMA FewerActive ==
  ASSUME TypeOK, NEW a \in Addresses, NEW ids \in SUBSET ActiveDevices(a),
         RevokeDevices(a, ids)
  PROVE  \A b \in Addresses :
           /\ ActiveDevices(b)' \subseteq ActiveDevices(b)
           /\ \A i \in ActiveDevices(b)' : device'[<<b, i>>].rotation = device[<<b, i>>].rotation
BY ActiveAfterRevoke

LEMMA NoneActive ==
  ASSUME TypeOK, NEW a \in Addresses, All(a)
  PROVE  /\ ActiveDevices(a)' = {}
         /\ \A b \in Addresses : b # a => ActiveDevices(b)' = ActiveDevices(b)
         /\ \A b \in Addresses : \A i \in ActiveDevices(b)' :
              device'[<<b, i>>].rotation = device[<<b, i>>].rotation
<1>1. /\ ActiveDevices(a)' = ActiveDevices(a) \ ActiveDevices(a)
      /\ \A b \in Addresses : b # a => ActiveDevices(b)' = ActiveDevices(b)
      /\ \A b \in Addresses : \A i \in ActiveDevices(b) :
           device'[<<b, i>>].rotation = device[<<b, i>>].rotation
  BY ActiveAfterRevoke DEF All
<1> QED
  BY <1>1

----------------------------------------------------------------------------
(* A revoked identity has no active devices.                               *)
LEMMA TransactionKeepsLive ==
  ASSUME TypeOK, RevokedHasNoDevices, NEW a \in Addresses, Transaction(a)
  PROVE  RevokedHasNoDevices'
<1>1. \A b \in Addresses : ActiveDevices(b) # {} => Live(b)
  BY DEF RevokedHasNoDevices
<1>2. ASSUME NEW c, Added(a, c), Live(a)',
             \A b \in Addresses : b # a => Live(b)' = Live(b)
      PROVE  RevokedHasNoDevices'
  BY <1>1, <1>2, ActiveAfterAdd DEF RevokedHasNoDevices
<1>3. ASSUME \A b \in Addresses : ActiveDevices(b)' \subseteq ActiveDevices(b),
             \A b \in Addresses : ActiveDevices(b)' # {} => (Live(b) => Live(b)')
      PROVE  RevokedHasNoDevices'
  BY <1>1, <1>3 DEF RevokedHasNoDevices
<1>4. CASE Creates(a)
  <2>1. Live(a)' /\ \A b \in Addresses : b # a => Live(b)' = Live(b)
    BY <1>4, LiveAfter DEF Creates
  <2>2. CASE SameDevices
    BY <2>1, <2>2, <1>3, SameActive
  <2>3. CASE \E c \in DeviceCertificate : Added(a, c)
    BY <2>1, <2>3, <1>2
  <2> QED
    BY <1>4, <2>2, <2>3 DEF Creates
<1>5. CASE Adds(a)
  <2>1. \A b \in Addresses : Live(b)' = Live(b)
    BY <1>5, LiveAfter DEF Adds
  <2>2. PICK c \in DeviceCertificate : Added(a, c)
    BY <1>5 DEF Adds
  <2> QED
    BY <1>5, <2>1, <2>2, <1>2 DEF Adds
<1>6. CASE Drops(a)
  <2>1. \A b \in Addresses : Live(b)' = Live(b)
    BY <1>6, LiveAfter DEF Drops
  <2> QED
    BY <1>6, <2>1, <1>3, FewerActive DEF Drops
<1>7. CASE Rotates(a)
  <2>1. Live(a)' /\ \A b \in Addresses : b # a => Live(b)' = Live(b)
    BY <1>7, LiveAfter DEF Rotates
  <2> QED
    BY <1>7, <2>1, <1>3, SameActive, NoneActive DEF Rotates
<1>8. CASE Configures(a)
  <2>1. Live(a)' /\ \A b \in Addresses : b # a => Live(b)' = Live(b)
    BY <1>8, LiveAfter DEF Configures
  <2> QED
    BY <1>8, <2>1, <1>3, SameActive DEF Configures
<1>9. CASE Withdraws(a)
  <2>1. \A b \in Addresses : b # a => Live(b)' = Live(b)
    BY <1>9, LiveAfter DEF Withdraws
  <2> QED
    BY <1>9, <2>1, <1>3, NoneActive DEF Withdraws
<1>10. CASE Moves(a)
  <2>1. PICK to \in Addresses, root \in RootKeys : Moved(a, to, root)
    BY <1>10 DEF Moves
  <2>2. Live(to)' /\ \A b \in Addresses : b \notin {a, to} => Live(b)' = Live(b)
    BY <2>1, MovedAfter
  <2> QED
    BY <1>10, <2>2, <1>3, NoneActive DEF Moves
<1>11. CASE Stays
  <2>1. \A b \in Addresses : Live(b)' = Live(b)
    BY <1>11, LiveAfter DEF Stays
  <2> QED
    BY <1>11, <2>1, <1>3, SameActive DEF Stays
<1> QED
  BY <1>4, <1>5, <1>6, <1>7, <1>8, <1>9, <1>10, <1>11, Effects

----------------------------------------------------------------------------
(* Rotations only grow: what is left behind stays behind.                  *)
LEMMA TransactionKeepsPast ==
  ASSUME TypeOK, PastIsOlder, NEW a \in Addresses, Transaction(a)
  PROVE  PastIsOlder'
<1>1. \A b \in Addresses \ overwritten : \A p \in past[b] : p[2] < RotationOf(b)
  BY DEF PastIsOlder
<1>2. ASSUME past' = past, overwritten \subseteq overwritten',
             \A b \in Addresses \ overwritten' : RotationOf(b) <= RotationOf(b)'
      PROVE  PastIsOlder'
  <2>1. ASSUME NEW b \in Addresses \ overwritten', NEW p \in past[b]
        PROVE  p[2] < RotationOf(b)'
    <3>1. p[2] < RotationOf(b) /\ RotationOf(b) <= RotationOf(b)'
      BY <1>1, <1>2, <2>1
    <3>2. p \in RootKeys \X Nat
      BY DEF TypeOK
    <3>3. p[2] \in Nat
      BY <3>2
    <3>4. RotationOf(b)' \in Nat
      BY <1>2, IdentityTypes DEF RotationOf, RootIdentity
    <3> QED
      BY <3>1, <3>3, <3>4, RotationTyped
  <2> QED
    BY <1>2, <2>1 DEF PastIsOlder
<1>3. ASSUME \A b \in Addresses : RotationOf(b)' = RotationOf(b),
             UNCHANGED <<past, overwritten>>
      PROVE  PastIsOlder'
  BY <1>1, <1>3 DEF PastIsOlder
<1>4. CASE Creates(a)
  <2>1. \A b \in Addresses : RotationOf(b)' = RotationOf(b)
    BY <1>4, LiveAfter DEF Creates
  <2> QED
    BY <1>4, <2>1, <1>3 DEF Creates, Created
<1>5. CASE Adds(a) \/ Drops(a) \/ Stays
  <2>1. SameIdentity
    BY <1>5 DEF Adds, Drops, Stays
  <2> QED
    BY <2>1, <1>3, LiveAfter DEF SameIdentity
<1>6. CASE Rotates(a)
  <2>1. PICK root \in RootKeys : Rotated(a, root)
    BY <1>6 DEF Rotates
  <2>2. /\ RotationOf(a)' = RotationOf(a) + 1
        /\ \A b \in Addresses : b # a => RotationOf(b)' = RotationOf(b)
    BY <2>1, LiveAfter
  <2>3. /\ identity[a] # None /\ RotationOf(a) = identity[a].rotation
        /\ past' = [past EXCEPT ![a] = @ \cup {<<identity[a].root, identity[a].rotation>>}]
        /\ overwritten' = overwritten
    BY <2>1 DEF Rotated, Live, RotationOf, LeaveBehind
  <2>4. /\ past'[a] = past[a] \cup {<<identity[a].root, RotationOf(a)>>}
        /\ \A b \in Addresses : b # a => past'[b] = past[b]
    BY <2>3 DEF TypeOK
  <2>5. ASSUME NEW p \in past[a], a \notin overwritten
        PROVE  p[2] < RotationOf(a)'
    <3>1. p \in RootKeys \X Nat
      BY DEF TypeOK
    <3>2. p[2] \in Nat /\ p[2] < RotationOf(a)
      BY <1>1, <2>5, <3>1
    <3> QED
      BY <2>2, <3>2, RotationTyped
  <2>6. <<identity[a].root, RotationOf(a)>>[2] < RotationOf(a)'
    BY <2>2, RotationTyped
  <2> QED
    BY <1>1, <2>2, <2>3, <2>4, <2>5, <2>6 DEF PastIsOlder
<1>7. CASE Configures(a)
  <2>1. \A b \in Addresses : RotationOf(b)' = RotationOf(b)
    BY <1>7, LiveAfter DEF Configures
  <2> QED
    BY <1>7, <2>1, <1>3 DEF Configures, Configured
<1>8. CASE Withdraws(a)
  <2>1. \A b \in Addresses : RotationOf(b)' = RotationOf(b)
    BY <1>8, LiveAfter DEF Withdraws
  <2> QED
    BY <1>8, <2>1, <1>3 DEF Withdraws, Withdrawn
<1>9. CASE Moves(a)
  <2>1. PICK to \in Addresses, root \in RootKeys : Moved(a, to, root)
    BY <1>9 DEF Moves
  <2>2. \A b \in Addresses \ overwritten' : RotationOf(b) <= RotationOf(b)'
    BY <2>1, MovedAfter, RotationTyped
  <2> QED
    BY <2>1, <2>2, <1>2, MovedAfter
<1> QED
  BY <1>4, <1>5, <1>6, <1>7, <1>8, <1>9, Effects

(* No fence is ahead of the rotation, and no active device is behind it.   *)
Fences == FenceIsReached /\ OldDevicesStayOut

(* The two fence conjuncts, with the next state written out.               *)
LEMMA FencesNext ==
  ASSUME \A b \in Addresses \ overwritten' : fence'[b] <= RotationOf(b)',
         \A b \in Addresses \ overwritten' : \A i \in ActiveDevices(b)' :
           device'[<<b, i>>].rotation >= fence'[b]
  PROVE  Fences'
<1>1. FenceIsReached'
  BY DEF FenceIsReached
<1>2. OldDevicesStayOut'
  BY DEF OldDevicesStayOut
<1> QED
  BY <1>1, <1>2 DEF Fences

LEMMA TransactionKeepsFences ==
  ASSUME TypeOK, RevokedHasNoDevices, Fences, NEW a \in Addresses, Transaction(a)
  PROVE  Fences'
<1>1. \A b \in Addresses \ overwritten :
        /\ fence[b] <= RotationOf(b)
        /\ \A i \in ActiveDevices(b) : device[<<b, i>>].rotation >= fence[b]
  BY DEF Fences, FenceIsReached, OldDevicesStayOut
<1>2. \A b \in Addresses : fence[b] \in Nat /\ RotationOf(b) \in Nat
  BY RotationTyped DEF TypeOK
<1>3. ASSUME UNCHANGED <<fence, overwritten>>,
             \A b \in Addresses : RotationOf(b)' = RotationOf(b) \/ RotationOf(b)' = RotationOf(b) + 1,
             \A b \in Addresses :
               /\ ActiveDevices(b)' \subseteq ActiveDevices(b)
               /\ \A i \in ActiveDevices(b)' : device'[<<b, i>>].rotation = device[<<b, i>>].rotation
      PROVE  Fences'
  <2>1. \A b \in Addresses \ overwritten : fence[b] <= RotationOf(b)'
    BY <1>1, <1>2, <1>3
  <2>2. ASSUME NEW b \in Addresses \ overwritten', NEW i \in ActiveDevices(b)'
        PROVE  device'[<<b, i>>].rotation >= fence'[b]
    BY <1>1, <1>3, <2>2
  <2>3. \A b \in Addresses \ overwritten' : fence'[b] <= RotationOf(b)'
    BY <1>3, <2>1
  <2> QED
    BY <2>2, <2>3, FencesNext
<1>4. ASSUME NEW c \in DeviceCertificate, Added(a, c), UNCHANGED <<fence, overwritten>>,
             c.rotation = RotationOf(a),
             \A b \in Addresses : RotationOf(b)' = RotationOf(b)
      PROVE  Fences'
  <2>1. /\ ActiveDevices(a)' = ActiveDevices(a) \cup {c.id}
        /\ \A b \in Addresses : b # a => ActiveDevices(b)' = ActiveDevices(b)
        /\ \A b \in Addresses : \A i \in ActiveDevices(b) :
             device'[<<b, i>>].rotation = device[<<b, i>>].rotation
    BY <1>4, ActiveAfterAdd
  <2>2. device'[<<a, c.id>>].rotation = RotationOf(a)
    BY <1>4, AddedTypes
  <2>3. ASSUME NEW b \in Addresses \ overwritten, NEW i \in ActiveDevices(b)'
        PROVE  device'[<<b, i>>].rotation >= fence[b]
    <3>1. CASE i \in ActiveDevices(b)
      BY <1>1, <2>1, <3>1
    <3>2. CASE i \notin ActiveDevices(b)
      <4>1. b = a /\ i = c.id
        BY <2>1, <2>3, <3>2
      <4> QED
        BY <1>1, <1>2, <2>2, <4>1
    <3> QED
      BY <3>1, <3>2
  <2>4. ASSUME NEW b \in Addresses \ overwritten', NEW i \in ActiveDevices(b)'
        PROVE  device'[<<b, i>>].rotation >= fence'[b]
    BY <1>4, <2>3, <2>4
  <2>5. \A b \in Addresses \ overwritten' : fence'[b] <= RotationOf(b)'
    BY <1>1, <1>4
  <2> QED
    BY <2>4, <2>5, FencesNext
<1>5. CASE Creates(a)
  <2>1. /\ UNCHANGED <<fence, overwritten>> /\ RotationOf(a) = 0
        /\ \A b \in Addresses : RotationOf(b)' = RotationOf(b)
    BY <1>5, LiveAfter DEF Creates, Created
  <2>2. CASE SameDevices
    BY <2>1, <2>2, <1>3, SameActive
  <2>3. CASE \E c \in DeviceCertificate : Added(a, c) /\ c.rotation = 0
    BY <2>1, <2>3, <1>4
  <2> QED
    BY <1>5, <2>2, <2>3 DEF Creates
<1>6. CASE Adds(a)
  <2>1. /\ UNCHANGED <<fence, overwritten>>
        /\ \A b \in Addresses : RotationOf(b)' = RotationOf(b)
    BY <1>6, LiveAfter DEF Adds, SameIdentity
  <2>2. PICK c \in DeviceCertificate : Added(a, c) /\ c.rotation = identity[a].rotation
    BY <1>6 DEF Adds
  <2>3. RotationOf(a) = identity[a].rotation
    BY <1>6 DEF Adds, Live, RotationOf
  <2> QED
    BY <2>1, <2>2, <2>3, <1>4
<1>7. CASE Drops(a)
  <2>1. /\ UNCHANGED <<fence, overwritten>>
        /\ \A b \in Addresses : RotationOf(b)' = RotationOf(b)
    BY <1>7, LiveAfter DEF Drops, SameIdentity
  <2> QED
    BY <1>7, <2>1, <1>3, FewerActive DEF Drops
<1>8. CASE Rotates(a)
  <2>1. PICK root \in RootKeys :
          /\ Rotated(a, root)
          /\ \/ SameDevices /\ UNCHANGED fence
             \/ All(a) /\ Fenced(a, identity[a].rotation + 1)
    BY <1>8 DEF Rotates
  <2>2. /\ RotationOf(a)' = RotationOf(a) + 1
        /\ \A b \in Addresses : b # a => RotationOf(b)' = RotationOf(b)
        /\ overwritten' = overwritten
    BY <2>1, LiveAfter DEF Rotated
  <2>3. CASE SameDevices /\ UNCHANGED fence
    BY <2>2, <2>3, <1>3, SameActive
  <2>4. CASE All(a) /\ Fenced(a, identity[a].rotation + 1)
    <3>1. RotationOf(a) = identity[a].rotation
      BY <2>1 DEF Rotated, Live, RotationOf
    <3>2. /\ fence'[a] = RotationOf(a)'
          /\ \A b \in Addresses : b # a => fence'[b] = fence[b]
      BY <2>2, <2>4, <3>1 DEF Fenced, TypeOK
    <3>3. /\ ActiveDevices(a)' = {}
          /\ \A b \in Addresses : b # a => ActiveDevices(b)' = ActiveDevices(b)
          /\ \A b \in Addresses : \A i \in ActiveDevices(b)' :
               device'[<<b, i>>].rotation = device[<<b, i>>].rotation
      BY <2>4, NoneActive
    <3>4. \A b \in Addresses \ overwritten : fence'[b] <= RotationOf(b)'
      BY <1>1, <1>2, <2>2, <3>2
    <3>5. ASSUME NEW b \in Addresses \ overwritten, NEW i \in ActiveDevices(b)'
          PROVE  device'[<<b, i>>].rotation >= fence'[b]
      <4>1. b # a /\ i \in ActiveDevices(b)
        BY <3>3, <3>5
      <4> QED
        BY <1>1, <3>2, <3>3, <3>5, <4>1
    <3>6. ASSUME NEW b \in Addresses \ overwritten', NEW i \in ActiveDevices(b)'
          PROVE  device'[<<b, i>>].rotation >= fence'[b]
      BY <2>2, <3>5, <3>6
    <3>7. \A b \in Addresses \ overwritten' : fence'[b] <= RotationOf(b)'
      BY <2>2, <3>4
    <3> QED
      BY <3>6, <3>7, FencesNext
  <2> QED
    BY <2>1, <2>3, <2>4
<1>9. CASE Configures(a)
  <2>1. /\ UNCHANGED <<fence, overwritten>>
        /\ \A b \in Addresses : RotationOf(b)' = RotationOf(b)
    BY <1>9, LiveAfter DEF Configures, Configured
  <2> QED
    BY <1>9, <2>1, <1>3, SameActive DEF Configures
<1>10. CASE Withdraws(a)
  <2>1. /\ UNCHANGED <<fence, overwritten>>
        /\ \A b \in Addresses : RotationOf(b)' = RotationOf(b)
    BY <1>10, LiveAfter DEF Withdraws, Withdrawn
  <2> QED
    BY <1>10, <2>1, <1>3, NoneActive DEF Withdraws
<1>11. CASE Moves(a)
  <2>1. PICK to \in Addresses, root \in RootKeys :
          Moved(a, to, root) /\ All(a) /\ Fenced(to, identity[a].rotation + 1)
    BY <1>11 DEF Moves
  <2>2. /\ to # a /\ RotationOf(a)' = RotationOf(a) /\ RotationOf(to)' = RotationOf(a) + 1
        /\ RotationOf(a) = identity[a].rotation
        /\ \A b \in Addresses : b \notin {a, to} => RotationOf(b)' = RotationOf(b)
        /\ to \notin overwritten' => ~Live(to)
        /\ overwritten \subseteq overwritten'
    BY <2>1, MovedAfter
  <2>3. /\ fence'[to] = RotationOf(to)'
        /\ \A b \in Addresses : b # to => fence'[b] = fence[b]
    BY <2>1, <2>2 DEF Fenced, TypeOK
  <2>4. /\ ActiveDevices(a)' = {}
        /\ \A b \in Addresses : b # a => ActiveDevices(b)' = ActiveDevices(b)
        /\ \A b \in Addresses : \A i \in ActiveDevices(b)' :
             device'[<<b, i>>].rotation = device[<<b, i>>].rotation
    BY <2>1, NoneActive
  <2>5. to \notin overwritten' => ActiveDevices(to) = {}
    BY <2>2 DEF RevokedHasNoDevices
  <2>6. \A b \in Addresses \ overwritten' : fence'[b] <= RotationOf(b)'
    BY <1>1, <1>2, <2>2, <2>3
  <2>7. ASSUME NEW b \in Addresses \ overwritten', NEW i \in ActiveDevices(b)'
        PROVE  device'[<<b, i>>].rotation >= fence'[b]
    <3>1. b # a /\ i \in ActiveDevices(b)
      BY <2>4, <2>7
    <3>2. b # to
      BY <2>5, <2>7, <3>1
    <3> QED
      BY <1>1, <2>2, <2>3, <2>4, <2>7, <3>1, <3>2
  <2> QED
    BY <2>6, <2>7, FencesNext
<1>12. CASE Stays
  <2>1. /\ UNCHANGED <<fence, overwritten>>
        /\ \A b \in Addresses : RotationOf(b)' = RotationOf(b)
    BY <1>12, LiveAfter DEF Stays, SameIdentity
  <2> QED
    BY <1>12, <2>1, <1>3, SameActive DEF Stays
<1> QED
  BY <1>5, <1>6, <1>7, <1>8, <1>9, <1>10, <1>11, <1>12, Effects

----------------------------------------------------------------------------
(* The invariant and what it says of authority.                            *)
LEMMA InitInvariant == Init => IInv
<1> SUFFICES ASSUME Init PROVE IInv
  OBVIOUS
<1>1. TypeOK
  BY InitTypes
<1>2. \A a \in Addresses : ActiveDevices(a) = {}
  BY DEF Init, ActiveDevices, Slots
<1>3. KeyIndexAgrees
  BY StoreAssumption DEF Init, KeyIndexAgrees
<1>4. \A a \in Addresses : past[a] = {} /\ fence[a] = 0 /\ RotationOf(a) = 0
  BY DEF Init, RotationOf
<1> QED
  BY <1>1, <1>2, <1>3, <1>4 DEF IInv, RevokedHasNoDevices, PastIsOlder, FenceIsReached,
     OldDevicesStayOut

LEMMA NextInvariant == IInv /\ [Next]_vars => IInv'
<1> SUFFICES ASSUME IInv, [Next]_vars PROVE IInv'
  OBVIOUS
<1>1. TypeOK'
  BY NextTypes DEF IInv
<1>2. ASSUME NEW a \in Addresses, Transaction(a) PROVE IInv'
  <2>1. KeyIndexAgrees'
    BY <1>2, TransactionKeepsIndex DEF IInv
  <2>2. RevokedHasNoDevices'
    BY <1>2, TransactionKeepsLive DEF IInv
  <2>3. PastIsOlder'
    BY <1>2, TransactionKeepsPast DEF IInv
  <2>4. Fences'
    BY <1>2, TransactionKeepsFences DEF IInv, Fences
  <2> QED
    BY <1>1, <2>1, <2>2, <2>3, <2>4 DEF IInv, Fences
<1>3. ASSUME UNCHANGED <<identity, device, past, fence, overwritten>>, KeyIndexAgrees'
      PROVE  IInv'
  <2>1. \A a \in Addresses :
          /\ ActiveDevices(a)' = ActiveDevices(a) /\ RotationOf(a)' = RotationOf(a)
          /\ Live(a)' = Live(a)
    BY <1>3 DEF ActiveDevices, RotationOf, Live
  <2>2. RevokedHasNoDevices'
    BY <2>1 DEF IInv, RevokedHasNoDevices
  <2>3. PastIsOlder'
    BY <1>3, <2>1 DEF IInv, PastIsOlder
  <2>4. FenceIsReached'
    BY <1>3, <2>1 DEF IInv, FenceIsReached
  <2>5. OldDevicesStayOut'
    BY <1>3, <2>1 DEF IInv, OldDevicesStayOut
  <2> QED
    BY <1>1, <1>3, <2>2, <2>3, <2>4, <2>5 DEF IInv
<1>4. CASE NextBlock
  <2>1. UNCHANGED <<identity, device, keyIndex, past, fence, overwritten>>
    BY <1>4 DEF NextBlock, stores, ghosts
  <2> QED
    BY <2>1, <1>3 DEF IInv, KeyIndexAgrees
<1>5. CASE Restart
  <2>1. UNCHANGED <<identity, device, past, fence, overwritten>>
    BY <1>5 DEF Restart, ghosts
  <2> QED
    BY <1>5, <2>1, <1>3, RestartKeepsIndex DEF IInv
<1>6. CASE UNCHANGED vars
  <2>1. UNCHANGED <<identity, device, keyIndex, past, fence, overwritten>>
    BY <1>6 DEF vars, stores, ghosts
  <2> QED
    BY <2>1, <1>3 DEF IInv, KeyIndexAgrees
<1> QED
  BY <1>2, <1>4, <1>5, <1>6 DEF Next

(* A current key's rotation count is not among the smaller, older ones.    *)
LEMMA InvariantGivesAuthority == IInv => AuthorityAgrees
<1> SUFFICES ASSUME IInv PROVE AuthorityAgrees
  OBVIOUS
<1>1. ASSUME NEW a \in Addresses \ overwritten, identity[a] # None,
             <<identity[a].root, identity[a].rotation>> \in past[a]
      PROVE  FALSE
  <2>1. <<identity[a].root, identity[a].rotation>>[2] < RotationOf(a)
    BY <1>1 DEF IInv, PastIsOlder
  <2>2. <<identity[a].root, identity[a].rotation>>[2] = RotationOf(a)
    BY <1>1 DEF RotationOf
  <2>3. RotationOf(a) \in Nat
    BY RotationTyped DEF IInv
  <2> QED
    BY <2>1, <2>2, <2>3
<1>2. SupersededNeverReturns
  BY <1>1 DEF SupersededNeverReturns
<1> QED
  BY <1>2 DEF IInv, AuthorityAgrees

(* In every reachable state each device key resolves to its one device and *)
(* neither a superseded root key, nor a device certified before a recovery,*)
(* nor a device of a revoked identity has authority (msg_server.go,        *)
(* recovery.go, keeper.go SetDevice).                                      *)
THEOREM AuthorityAlwaysAgrees == Spec => []AuthorityAgrees
BY InitInvariant, NextInvariant, InvariantGivesAuthority, PTL DEF Spec

----------------------------------------------------------------------------
(* Revocation.  A device that is added had no record before.               *)
DevicesOnlyFade ==
  \A s \in Recorded :
    /\ device'[s] # None /\ device'[s].key = device[s].key
    /\ device[s].revoked => device'[s].revoked

LEMMA NextOnlyFades == TypeOK /\ [Next]_vars => DevicesOnlyFade
<1> SUFFICES ASSUME TypeOK, [Next]_vars PROVE DevicesOnlyFade
  OBVIOUS
<1>1. ASSUME device' = device PROVE DevicesOnlyFade
  BY <1>1 DEF DevicesOnlyFade, Recorded
<1>2. ASSUME NEW a \in Addresses, NEW c, Added(a, c) PROVE DevicesOnlyFade
  <2>1. \A s \in Slots : s # <<a, c.id>> => device'[s] = device[s]
    BY <1>2, AddedTypes
  <2>2. <<a, c.id>> \notin Recorded
    BY <1>2 DEF Added, Recorded
  <2>3. \A s \in Recorded : device'[s] = device[s] /\ device[s] # None
    BY <2>1, <2>2 DEF Recorded
  <2> QED
    BY <2>3 DEF DevicesOnlyFade
<1>3. ASSUME NEW a \in Addresses, NEW ids \in SUBSET ActiveDevices(a), RevokeDevices(a, ids)
      PROVE  DevicesOnlyFade
  BY <1>3, RevokedTypes DEF DevicesOnlyFade, Recorded
<1>4. ASSUME NEW a \in Addresses, All(a) PROVE DevicesOnlyFade
  BY <1>3, <1>4 DEF All
<1>5. ASSUME NEW a \in Addresses, Transaction(a) PROVE DevicesOnlyFade
  <2>1. CASE Creates(a)
    BY <2>1, <1>1, <1>2 DEF Creates, SameDevices
  <2>2. CASE Adds(a)
    BY <2>2, <1>2 DEF Adds
  <2>3. CASE Drops(a)
    BY <2>3, <1>3 DEF Drops
  <2>4. CASE Rotates(a)
    BY <2>4, <1>1, <1>4 DEF Rotates, SameDevices
  <2>5. CASE Configures(a)
    BY <2>5, <1>1 DEF Configures, SameDevices
  <2>6. CASE Withdraws(a)
    BY <2>6, <1>4 DEF Withdraws
  <2>7. CASE Moves(a)
    BY <2>7, <1>4 DEF Moves
  <2>8. CASE Stays
    BY <2>8, <1>1 DEF Stays, SameDevices
  <2> QED
    BY <1>5, <2>1, <2>2, <2>3, <2>4, <2>5, <2>6, <2>7, <2>8, Effects
<1>6. CASE NextBlock
  BY <1>6, <1>1 DEF NextBlock, stores
<1>7. CASE Restart
  BY <1>7, <1>1 DEF Restart
<1>8. CASE UNCHANGED vars
  BY <1>8, <1>1 DEF vars, stores
<1> QED
  BY <1>5, <1>6, <1>7, <1>8 DEF Next

(* No transaction, recovery or re-import takes a revoked device back or    *)
(* gives a device id another key (device.go AddDevice, keeper.go SetDevice,*)
(* genesis.go).                                                            *)
THEOREM RevocationIsFinal == Spec => RevokedForGood
<1>1. TypeOK /\ [Next]_vars =>
        [\A s \in Recorded :
           /\ device'[s] # None /\ device'[s].key = device[s].key
           /\ device[s].revoked => device'[s].revoked]_vars
  BY NextOnlyFades DEF DevicesOnlyFade
<1> QED
  BY <1>1, TypeCorrect, PTL DEF Spec, RevokedForGood

----------------------------------------------------------------------------
(* What a cancellation buys.  The configuration of every identity is one a *)
(* user submitted and Validate passed, and an open request may not be      *)
(* executed before the delay after the last cancellation is over.          *)
ConfigsAreValid ==
  \A a \in Addresses : identity[a] # None =>
    identity[a].recovery \in Configs /\ ValidConfig(identity[a].recovery)

OpenWaits ==
  \A a \in Addresses :
    /\ cancelledAt[a] <= height
    /\ Open(a) /\ cancelledAt[a] # 0 =>
         recovery[a].executable >= cancelledAt[a] + MinRecoveryDelayBlocks

(* No waiting time a user submits reaches the largest int64.               *)
NoWrap == \A c \in Configs : MaxHeight + c.delay <= MaxInt64

LEMMA RecoveryEffects ==
  ASSUME NEW a \in Addresses, Transaction(a)
  PROVE  \/ UNCHANGED <<height, recovery, cancelledAt>>
         \/ \E g \in Guardians, to \in Addresses, root \in RootKeys :
              InitiateRecovery(a, g, to, root)
         \/ \E g \in Guardians : ApproveRecovery(a, g)
         \/ CancelRecovery(a)
         \/ ExecuteRecovery(a)
BY DEF Transaction, CreateIdentity, AddDevice, RevokeDevice, RotateRootKey, SetRecoveryConfig,
   RevokeIdentity, ghosts

LEMMA ConfigsStayValid ==
  ASSUME TypeOK, ConfigsAreValid, NEW a \in Addresses, Transaction(a)
  PROVE  ConfigsAreValid'
<1>1. \A b \in Addresses : identity[b] # None =>
        identity[b].recovery \in Configs /\ ValidConfig(identity[b].recovery)
  BY DEF ConfigsAreValid
<1>2. ASSUME NEW r \in RootIdentity, identity' = [identity EXCEPT ![a] = r],
             r.recovery \in Configs, ValidConfig(r.recovery)
      PROVE  ConfigsAreValid'
  <2>1. identity'[a] = r /\ \A b \in Addresses : b # a => identity'[b] = identity[b]
    BY <1>2, PutTypes
  <2> QED
    BY <1>1, <1>2, <2>1 DEF ConfigsAreValid
<1>3. ASSUME identity' = identity PROVE ConfigsAreValid'
  BY <1>1, <1>3 DEF ConfigsAreValid
<1>4. CASE Creates(a)
  <2>1. PICK root \in RootKeys, cfg \in Configs :
          ValidConfig(cfg) /\ identity' = [identity EXCEPT ![a] = NewIdentity(root, 0, cfg)]
    BY <1>4 DEF Creates, Created
  <2>2. /\ NewIdentity(root, 0, cfg) \in RootIdentity
        /\ NewIdentity(root, 0, cfg).recovery = cfg
    <3>1. cfg \in RecoveryConfig /\ 0 \in Nat
      BY ConfigAssumption
    <3> QED
      BY <3>1, NewIdentityTyped
  <2> QED
    BY <1>2, <2>1, <2>2
<1>5. CASE Adds(a) \/ Drops(a) \/ Stays
  BY <1>3, <1>5 DEF Adds, Drops, Stays, SameIdentity
<1>6. CASE Rotates(a)
  <2>1. PICK root \in RootKeys : Rotated(a, root)
    BY <1>6 DEF Rotates
  <2>2. /\ identity[a] # None
        /\ identity' = [identity EXCEPT ![a] = Replaced(identity[a], root)]
    BY <2>1 DEF Rotated, Live
  <2>3. /\ Replaced(identity[a], root) \in RootIdentity
        /\ Replaced(identity[a], root).recovery = identity[a].recovery
    BY <2>2, IdentityTyped, ReplacedTyped
  <2> QED
    BY <1>1, <1>2, <2>2, <2>3
<1>7. CASE Configures(a)
  <2>1. PICK cfg \in Configs : Configured(a, cfg)
    BY <1>7 DEF Configures
  <2>2. /\ identity[a] # None /\ ValidConfig(cfg)
        /\ identity' = [identity EXCEPT ![a] =
                         NewIdentity(identity[a].root, identity[a].rotation, cfg)]
    BY <2>1 DEF Configured, Live
  <2>3. /\ NewIdentity(identity[a].root, identity[a].rotation, cfg) \in RootIdentity
        /\ NewIdentity(identity[a].root, identity[a].rotation, cfg).recovery = cfg
    <3>1. /\ cfg \in RecoveryConfig
          /\ identity[a].root \in RootKeys /\ identity[a].rotation \in Nat
      BY <2>2, ConfigAssumption, IdentityTyped
    <3> QED
      BY <3>1, NewIdentityTyped
  <2> QED
    BY <1>2, <2>2, <2>3
<1>8. CASE Withdraws(a)
  <2>1. identity[a] # None /\ identity' = [identity EXCEPT ![a] = Revoked(identity[a])]
    BY <1>8 DEF Withdraws, Withdrawn, Live
  <2>2. /\ Revoked(identity[a]) \in RootIdentity
        /\ Revoked(identity[a]).recovery = identity[a].recovery
    BY <2>1, IdentityTyped, RevokedIdentityTyped
  <2> QED
    BY <1>1, <1>2, <2>1, <2>2
<1>9. CASE Moves(a)
  <2>1. PICK to \in Addresses, root \in RootKeys : Moved(a, to, root)
    BY <1>9 DEF Moves
  <2>2. identity[a] # None
    BY <2>1 DEF Moved, Live
  <2>3. Revoked(identity[a]).recovery = identity[a].recovery
    BY <2>2, IdentityTyped, RevokedIdentityTyped
  <2>4. NewIdentity(root, identity[a].rotation + 1, identity[a].recovery).recovery
          = identity[a].recovery
    BY DEF NewIdentity
  <2>5. /\ identity'[a] = Revoked(identity[a])
        /\ identity'[to] = NewIdentity(root, identity[a].rotation + 1, identity[a].recovery)
        /\ \A b \in Addresses : b \notin {a, to} => identity'[b] = identity[b]
    BY <2>1, MovedTypes
  <2>6. ASSUME NEW b \in Addresses, identity'[b] # None
        PROVE  identity'[b].recovery \in Configs /\ ValidConfig(identity'[b].recovery)
    <3>1. CASE b \in {a, to}
      BY <1>1, <2>2, <2>3, <2>4, <2>5, <3>1
    <3>2. CASE b \notin {a, to}
      BY <1>1, <2>5, <2>6, <3>2
    <3> QED
      BY <3>1, <3>2
  <2> QED
    BY <2>6 DEF ConfigsAreValid
<1> QED
  BY <1>4, <1>5, <1>6, <1>7, <1>8, <1>9, Effects

(* A request that is made now waits as long as its configuration says.     *)
LEMMA RequestWaits ==
  ASSUME NoWrap, TypeOK, ConfigsAreValid, NEW a \in Addresses, identity[a] # None,
         identity[a].recovery.threshold # 0
  PROVE  Executable(a) >= height + MinRecoveryDelayBlocks
<1> DEFINE c == identity[a].recovery
<1>1. c \in Configs /\ ValidConfig(c) /\ c \in RecoveryConfig
  BY IdentityTyped DEF ConfigsAreValid
<1>2. c.delay >= MinRecoveryDelayBlocks /\ c.delay \in Nat
  BY <1>1 DEF ValidConfig, RecoveryConfig
<1>3. MaxHeight + c.delay <= MaxInt64
  BY <1>1 DEF NoWrap
<1>4. height \in Nat /\ height <= MaxHeight
  BY HeightTyped, BoundAssumption DEF TypeOK
<1>5. Executable(a) = height + c.delay
  BY <1>2, <1>3, <1>4, BoundAssumption DEF Executable
<1> QED
  BY <1>2, <1>4, <1>5, ParamsAssumption

LEMMA OpenKeepsWaiting ==
  ASSUME NoWrap, TypeOK, ConfigsAreValid, OpenWaits, NEW a \in Addresses, Transaction(a)
  PROVE  OpenWaits'
<1>1. \A b \in Addresses :
        /\ cancelledAt[b] <= height
        /\ Open(b) /\ cancelledAt[b] # 0 =>
             recovery[b].executable >= cancelledAt[b] + MinRecoveryDelayBlocks
  BY DEF OpenWaits
<1>2. height \in Nat /\ \A b \in Addresses : cancelledAt[b] \in Nat
  BY HeightTyped DEF TypeOK
<1>3. height' = height
  BY RestTypes
<1>4. ASSUME cancelledAt' = cancelledAt,
             \A b \in Addresses : b # a => recovery'[b] = recovery[b],
             Open(a)' /\ cancelledAt[a] # 0 =>
               recovery'[a].executable >= cancelledAt[a] + MinRecoveryDelayBlocks
      PROVE  OpenWaits'
  <2>1. \A b \in Addresses : b # a => (Open(b)' <=> Open(b))
    BY <1>4 DEF Open
  <2> QED
    BY <1>1, <1>3, <1>4, <2>1 DEF OpenWaits
<1>5. CASE UNCHANGED <<height, recovery, cancelledAt>>
  BY <1>1, <1>4, <1>5 DEF Open
<1>6. ASSUME NEW g \in Guardians, NEW to \in Addresses, NEW root \in RootKeys,
             InitiateRecovery(a, g, to, root)
      PROVE  OpenWaits'
  <2>1. /\ recovery'[a].executable = Executable(a) /\ cancelledAt' = cancelledAt
        /\ \A b \in Addresses : b # a => recovery'[b] = recovery[b]
    BY <1>6, InitiateTyped DEF InitiateRecovery, ghosts
  <2>2. identity[a] # None /\ identity[a].recovery.threshold # 0
    BY <1>6 DEF InitiateRecovery, Live
  <2>3. Executable(a) >= height + MinRecoveryDelayBlocks /\ Executable(a) \in Int
    BY <2>2, RequestWaits, ExecutableTyped
  <2>4. Executable(a) >= cancelledAt[a] + MinRecoveryDelayBlocks
    BY <1>1, <1>2, <2>3, ParamsAssumption
  <2> QED
    BY <1>4, <2>1, <2>4
<1>7. ASSUME NEW g \in Guardians, ApproveRecovery(a, g) PROVE OpenWaits'
  <2>1. /\ recovery'[a].executable = recovery[a].executable /\ cancelledAt' = cancelledAt
        /\ \A b \in Addresses : b # a => recovery'[b] = recovery[b]
        /\ Open(a)
    BY <1>7, ApproveTyped DEF ApproveRecovery, ghosts
  <2> QED
    BY <1>1, <1>4, <2>1
<1>8. CASE CancelRecovery(a)
  <2>1. Open(a) /\ Close(a) /\ cancelledAt' = [cancelledAt EXCEPT ![a] = height]
    BY <1>8 DEF CancelRecovery
  <2>2. /\ recovery'[a].closed
        /\ \A b \in Addresses : b # a => recovery'[b] = recovery[b]
    BY <2>1, CloseTyped
  <2>3. /\ cancelledAt'[a] = height
        /\ \A b \in Addresses : b # a => cancelledAt'[b] = cancelledAt[b]
    BY <2>1 DEF TypeOK
  <2>4. ~Open(a)' /\ \A b \in Addresses : b # a => (Open(b)' <=> Open(b))
    BY <2>2 DEF Open
  <2> QED
    BY <1>1, <1>2, <1>3, <2>2, <2>3, <2>4 DEF OpenWaits
<1>9. CASE ExecuteRecovery(a)
  <2>1. Open(a) /\ Close(a) /\ cancelledAt' = cancelledAt
    BY <1>9 DEF ExecuteRecovery
  <2>2. /\ recovery'[a].closed
        /\ \A b \in Addresses : b # a => recovery'[b] = recovery[b]
    BY <2>1, CloseTyped
  <2>3. ~Open(a)'
    BY <2>2 DEF Open
  <2> QED
    BY <1>4, <2>1, <2>2, <2>3
<1> QED
  BY <1>5, <1>6, <1>7, <1>8, <1>9, RecoveryEffects

(* The delay's invariant, and the theorem.                                 *)
WaitInv == TypeOK /\ ConfigsAreValid /\ OpenWaits

LEMMA InitWaits == Init => WaitInv
<1> SUFFICES ASSUME Init PROVE WaitInv
  OBVIOUS
<1>1. ConfigsAreValid
  BY DEF Init, ConfigsAreValid
<1>2. OpenWaits
  BY DEF Init, OpenWaits, Open
<1> QED
  BY <1>1, <1>2, InitTypes DEF WaitInv

LEMMA NextWaits == NoWrap /\ WaitInv /\ [Next]_vars => WaitInv'
<1> SUFFICES ASSUME NoWrap, WaitInv, [Next]_vars PROVE WaitInv'
  OBVIOUS
<1>1. TypeOK'
  BY NextTypes DEF WaitInv
<1>2. ASSUME NEW a \in Addresses, Transaction(a) PROVE WaitInv'
  BY <1>1, <1>2, ConfigsStayValid, OpenKeepsWaiting DEF WaitInv
<1>3. ASSUME UNCHANGED <<identity, recovery, cancelledAt>>, height' >= height
      PROVE  WaitInv'
  <2>1. ConfigsAreValid'
    BY <1>3 DEF WaitInv, ConfigsAreValid
  <2>2. \A a \in Addresses : cancelledAt[a] \in Nat /\ cancelledAt[a] <= height
    BY DEF WaitInv, OpenWaits, TypeOK
  <2>3. height \in Nat /\ height' \in Nat
    BY <1>1, HeightTyped, BoundAssumption DEF WaitInv, TypeOK
  <2>4. \A a \in Addresses : cancelledAt'[a] <= height'
    BY <1>3, <2>2, <2>3
  <2>5. OpenWaits'
    BY <1>3, <2>4 DEF WaitInv, OpenWaits, Open
  <2> QED
    BY <1>1, <2>1, <2>5 DEF WaitInv
<1>4. CASE NextBlock
  <2>1. UNCHANGED <<identity, recovery, cancelledAt>> /\ height' = height + 1
    BY <1>4 DEF NextBlock, stores, ghosts
  <2> QED
    BY <2>1, <1>3, HeightTyped DEF WaitInv
<1>5. CASE Restart \/ UNCHANGED vars
  <2>1. UNCHANGED <<identity, recovery, cancelledAt>> /\ height' = height
    BY <1>5 DEF Restart, vars, stores, ghosts
  <2> QED
    BY <2>1, <1>3, HeightTyped DEF WaitInv
<1> QED
  BY <1>2, <1>4, <1>5 DEF Next

CancelHolds ==
  \A a \in Addresses :
    /\ Open(a) /\ recovery'[a].closed /\ identity'[a] # identity[a]
    /\ cancelledAt[a] # 0
    => height >= cancelledAt[a] + MinRecoveryDelayBlocks

(* Only ExecuteRecovery closes a request and changes the identity.         *)
LEMMA CancelStep == WaitInv /\ [Next]_vars => CancelHolds
<1> SUFFICES ASSUME WaitInv, [Next]_vars, NEW b \in Addresses, Open(b), recovery'[b].closed,
                    identity'[b] # identity[b], cancelledAt[b] # 0
             PROVE  height >= cancelledAt[b] + MinRecoveryDelayBlocks
  BY DEF CancelHolds
<1>1. /\ TypeOK
      /\ recovery[b].executable >= cancelledAt[b] + MinRecoveryDelayBlocks
      /\ recovery[b] # None /\ ~recovery[b].closed
  BY DEF WaitInv, OpenWaits, Open
<1>2. PICK a \in Addresses : Transaction(a)
  BY DEF Next, NextBlock, Restart, vars, stores
<1>3. recovery'[b] # recovery[b]
  BY <1>1
<1>4. ~(UNCHANGED <<height, recovery, cancelledAt>>)
  BY <1>3
<1>5. ASSUME NEW g \in Guardians, NEW to \in Addresses, NEW root \in RootKeys,
             InitiateRecovery(a, g, to, root)
      PROVE  FALSE
  BY <1>5 DEF InitiateRecovery
<1>6. ASSUME NEW g \in Guardians, ApproveRecovery(a, g) PROVE FALSE
  BY <1>6 DEF ApproveRecovery
<1>7. CASE CancelRecovery(a)
  BY <1>7 DEF CancelRecovery
<1>8. CASE ExecuteRecovery(a)
  <2>1. Open(a) /\ Close(a) /\ height >= recovery[a].executable
    BY <1>8 DEF ExecuteRecovery
  <2>2. \A c \in Addresses : c # a => recovery'[c] = recovery[c]
    BY <1>1, <2>1, CloseTyped
  <2>3. b = a
    BY <1>3, <2>2
  <2>4. recovery[b].executable \in Int /\ cancelledAt[b] \in Nat /\ height \in Nat
    BY <1>1, RecoveryTyped, HeightTyped DEF TypeOK
  <2> QED
    BY <1>1, <2>1, <2>3, <2>4, ParamsAssumption
<1> QED
  BY <1>2, <1>4, <1>5, <1>6, <1>7, <1>8, RecoveryEffects

(* After the owner's cancellation no recovery goes through before the      *)
(* minimum delay is over, whatever the guardians submit (recovery.go       *)
(* InitiateRecovery, ExecuteRecovery), when no submitted delay makes the   *)
(* int64 sum of InitiateRecovery wrap: nothing in the code bounds a delay  *)
(* from above.                                                             *)
THEOREM CancelsBuyDelay ==
  ASSUME NoWrap
  PROVE  Spec => CancelBuysDelay
<1>1. WaitInv /\ [Next]_vars => WaitInv'
  BY NextWaits
<1>2. WaitInv /\ [Next]_vars =>
        [\A a \in Addresses :
           /\ Open(a) /\ recovery'[a].closed /\ identity'[a] # identity[a]
           /\ cancelledAt[a] # 0
           => height >= cancelledAt[a] + MinRecoveryDelayBlocks]_vars
  BY CancelStep DEF CancelHolds
<1> QED
  BY <1>1, <1>2, InitWaits, PTL DEF Spec, CancelBuysDelay

----------------------------------------------------------------------------
(* Contacts and mail: the devices act in any order.                        *)

PeopleNext == (ContactNext /\ UNCHANGED mailVars) \/ MailNext
peopleVars == <<contactVars, mailVars>>

\* What the proofs ask of the constants and the scenarios: the flags are
\* different, and the devices of a scenario exist.
PeopleFlags == {FRIEND, PENDING_OUT, PENDING_IN, BLOCKED, MUTED, TRUSTED, FOLLOWING}
FlagsDiffer ==
  /\ FRIEND \notin {PENDING_OUT, PENDING_IN, BLOCKED, MUTED, TRUSTED, FOLLOWING}
  /\ PENDING_OUT \notin {PENDING_IN, BLOCKED, MUTED, TRUSTED, FOLLOWING}
  /\ PENDING_IN \notin {BLOCKED, MUTED, TRUSTED, FOLLOWING}
  /\ TRUSTED \notin {BLOCKED, MUTED, FOLLOWING}
ContactScenarios(scenes) == FlagsDiffer /\ \A s \in scenes : s.devs \subseteq Devs

----------------------------------------------------------------------------
(* The inductive invariant: what every book in memory, in the store and on *)
(* its way says of another account was wished for, and so was what a       *)
(* request and an acceptance on their way will make of a record.           *)

Records == [states : SUBSET PeopleFlags, at : Nat]
Books == [Accounts -> Records]

RecordSound(w, me, a, r) ==
  /\ FRIEND \in r.states => <<me, a>> \in w /\ <<a, me>> \in w
  /\ PENDING_OUT \in r.states => <<me, a>> \in w
  /\ PENDING_IN \in r.states => <<a, me>> \in w
  /\ TRUSTED \in r.states => FRIEND \in r.states
BookSound(w, me, b) == \A a \in Accounts \ {me} : RecordSound(w, me, a, b[a])

NoteType == [kind : {"request", "response", "card", "snapshot"}, from : Accounts, yes : BOOLEAN, book : Books]
NoteSound(w, me, m) ==
  /\ m.kind = "snapshot" => m.from = me /\ BookSound(w, me, m.book)
  /\ m.kind = "request" /\ m.from # me => <<m.from, me>> \in w
  /\ m.kind = "response" /\ m.yes /\ m.from # me => <<m.from, me>> \in w /\ <<me, m.from>> \in w

ContactTypes ==
  /\ csc.devs \subseteq Devs
  /\ book \in [Devs -> Books] /\ kept \in [Devs -> Books]
  /\ inbox \in [Devs -> SUBSET NoteType] /\ clock \in Nat
BooksSound(w, bs) == \A d \in Devs : BookSound(w, DevOwner[d], bs[d])
NotesSound(w, box) == \A d \in Devs : \A m \in box[d] : NoteSound(w, DevOwner[d], m)
ContactInv ==
  /\ ContactTypes
  /\ BooksSound(wish, book) /\ BooksSound(wish, kept) /\ NotesSound(wish, inbox)

\* Wishes are never taken back, so what was sound stays sound.
LEMMA SoundStays ==
  ASSUME NEW w, NEW v, w \subseteq v
  PROVE  /\ \A me, a, r : RecordSound(w, me, a, r) => RecordSound(v, me, a, r)
         /\ \A me, b : BookSound(w, me, b) => BookSound(v, me, b)
         /\ \A me, m : NoteSound(w, me, m) => NoteSound(v, me, m)
         /\ \A bs : BooksSound(w, bs) => BooksSound(v, bs)
         /\ \A box : NotesSound(w, box) => NotesSound(v, box)
<1>1. \A me, a, r : RecordSound(w, me, a, r) => RecordSound(v, me, a, r)
  BY DEF RecordSound
<1>2. \A me, b : BookSound(w, me, b) => BookSound(v, me, b)
  BY <1>1 DEF BookSound
<1>3. \A me, m : NoteSound(w, me, m) => NoteSound(v, me, m)
  BY <1>2 DEF NoteSound
<1> QED
  BY <1>1, <1>2, <1>3 DEF BooksSound, NotesSound

\* The operations on one record.
LEMMA RecordOps ==
  ASSUME FlagsDiffer, NEW r \in Records, NEW t \in Nat
  PROVE  /\ RequestSent(r, t) \in Records /\ RequestReceived(r, t) \in Records
         /\ Accept(r, t) \in Records /\ Reject(r, t) \in Records
         /\ \A yes : ResponseReceived(r, yes, t) \in Records
         /\ RemoveContact(r, t) \in Records /\ Block(r, t) \in Records /\ Unblock(r, t) \in Records
         /\ \A f \in PeopleFlags : \A on : SetFlag(r, f, on, t) \in Records
         /\ [r EXCEPT !.at = t] = Record(r.states, t) /\ Record(r.states, t) \in Records
<1>1. /\ r.states \subseteq PeopleFlags /\ r = [states |-> r.states, at |-> r.at]
  BY DEF Records
<1>2. \A s : s \subseteq PeopleFlags => Record(s, t) \in Records
  BY DEF Records, Record
<1>3. RequestSent(r, t) \in Records /\ RequestReceived(r, t) \in Records
  BY <1>1, <1>2 DEF RequestSent, RequestReceived, PeopleFlags
<1>4. Accept(r, t) \in Records /\ Reject(r, t) \in Records
  BY <1>1, <1>2 DEF Accept, Reject, PeopleFlags
<1>5. \A yes : ResponseReceived(r, yes, t) \in Records
  BY <1>1, <1>2 DEF ResponseReceived, PeopleFlags
<1>6. RemoveContact(r, t) \in Records /\ Block(r, t) \in Records /\ Unblock(r, t) \in Records
  BY <1>1, <1>2 DEF RemoveContact, Block, Unblock, PeopleFlags
<1>7. \A f \in PeopleFlags : \A on : SetFlag(r, f, on, t) \in Records
  BY <1>1, <1>2 DEF SetFlag
<1>8. [r EXCEPT !.at = t] = Record(r.states, t)
  BY <1>1 DEF Record
<1> QED BY <1>1, <1>2, <1>3, <1>4, <1>5, <1>6, <1>7, <1>8

LEMMA RecordOpsSound ==
  ASSUME FlagsDiffer, NEW w, NEW me, NEW a, NEW r \in Records, NEW t \in Nat, RecordSound(w, me, a, r)
  PROVE  /\ RecordSound(w \cup {<<me, a>>}, me, a, RequestSent(r, t))
         /\ <<a, me>> \in w => RecordSound(w, me, a, RequestReceived(r, t))
         /\ PENDING_IN \in r.states => RecordSound(w \cup {<<me, a>>}, me, a, Accept(r, t))
         /\ RecordSound(w, me, a, Reject(r, t))
         /\ \A yes : (yes => <<a, me>> \in w /\ <<me, a>> \in w)
                     => RecordSound(w, me, a, ResponseReceived(r, yes, t))
         /\ RecordSound(w, me, a, RemoveContact(r, t)) /\ RecordSound(w, me, a, Block(r, t))
         /\ RecordSound(w, me, a, Unblock(r, t))
         /\ \A f \in {MUTED, FOLLOWING} : \A on : RecordSound(w, me, a, SetFlag(r, f, on, t))
         /\ \A on : (on => FRIEND \in r.states) => RecordSound(w, me, a, SetFlag(r, TRUSTED, on, t))
         /\ RecordSound(w, me, a, Record(r.states, t))
<1> USE DEF FlagsDiffer, RecordSound, Record
<1>1. RecordSound(w \cup {<<me, a>>}, me, a, RequestSent(r, t))
  BY DEF RequestSent
<1>2. <<a, me>> \in w => RecordSound(w, me, a, RequestReceived(r, t))
  BY DEF RequestReceived
<1>3. PENDING_IN \in r.states => RecordSound(w \cup {<<me, a>>}, me, a, Accept(r, t))
  BY DEF Accept
<1>4. RecordSound(w, me, a, Reject(r, t))
  BY DEF Reject
<1>5. \A yes : (yes => <<a, me>> \in w /\ <<me, a>> \in w)
                     => RecordSound(w, me, a, ResponseReceived(r, yes, t))
  BY DEF ResponseReceived
<1>6. RecordSound(w, me, a, RemoveContact(r, t)) /\ RecordSound(w, me, a, Block(r, t))
  BY DEF RemoveContact, Block
<1>7. RecordSound(w, me, a, Unblock(r, t))
  BY DEF Unblock
<1>8. \A f \in {MUTED, FOLLOWING} : \A on : RecordSound(w, me, a, SetFlag(r, f, on, t))
  BY DEF SetFlag
<1>9. \A on : (on => FRIEND \in r.states) => RecordSound(w, me, a, SetFlag(r, TRUSTED, on, t))
  BY DEF SetFlag
<1>10. RecordSound(w, me, a, Record(r.states, t))
  OBVIOUS
<1> QED BY <1>1, <1>2, <1>3, <1>4, <1>5, <1>6, <1>7, <1>8, <1>9, <1>10

\* One record of one book changes.
LEMMA ChangeSound ==
  ASSUME ContactInv, NEW d \in Devs, NEW a \in Accounts, NEW r \in Records,
         wish \subseteq wish', a # DevOwner[d] => RecordSound(wish', DevOwner[d], a, r),
         Change(d, a, r)
  PROVE  book' \in [Devs -> Books] /\ BooksSound(wish', book')
<1>1. book \in [Devs -> Books] /\ book' = [book EXCEPT ![d][a] = r]
  BY DEF ContactInv, ContactTypes, Change
<1>2. book[d] \in Books /\ [book[d] EXCEPT ![a] = r] \in Books
  BY <1>1 DEF Books
<1>3. book' = [book EXCEPT ![d] = [book[d] EXCEPT ![a] = r]]
  BY <1>1
<1>4. book' \in [Devs -> Books]
  BY <1>1, <1>2, <1>3
<1>5. ASSUME NEW x \in Devs, NEW c \in Accounts \ {DevOwner[x]}
      PROVE  RecordSound(wish', DevOwner[x], c, book'[x][c])
  <2>1. RecordSound(wish', DevOwner[x], c, book[x][c])
    BY SoundStays DEF ContactInv, BooksSound, BookSound
  <2>2. book'[x][c] = IF x = d /\ c = a THEN r ELSE book[x][c]
    BY <1>1, <1>2, <1>3 DEF Books
  <2> QED BY <2>1, <2>2
<1> QED BY <1>4, <1>5 DEF BooksSound, BookSound

LEMMA SavedSound ==
  ASSUME ContactInv, NEW d \in Devs, wish \subseteq wish',
         book' \in [Devs -> Books], BooksSound(wish', book'),
         Saved(d) \/ kept' = kept \/ kept' = [kept EXCEPT ![d] = book'[d]]
  PROVE  kept' \in [Devs -> Books] /\ BooksSound(wish', kept')
<1>1. kept \in [Devs -> Books] /\ BooksSound(wish', kept)
  BY SoundStays DEF ContactInv, ContactTypes
<1>2. CASE kept' = kept
  BY <1>1, <1>2
<1>3. CASE kept' = [kept EXCEPT ![d] = book'[d]]
  BY <1>1, <1>3 DEF BooksSound
<1> QED BY <1>2, <1>3 DEF Saved

\* A note that is sound for each reader is put on its way.
LEMMA PostSound ==
  ASSUME ContactInv, NEW d \in Devs, NEW a, NEW m \in NoteType, wish \subseteq wish',
         \A x \in Devs : DevOwner[x] \in {DevOwner[d], a} => NoteSound(wish', DevOwner[x], m),
         Post(d, a, m)
  PROVE  inbox' \in [Devs -> SUBSET NoteType] /\ NotesSound(wish', inbox')
<1>1. inbox \in [Devs -> SUBSET NoteType] /\ NotesSound(wish', inbox)
  BY SoundStays DEF ContactInv, ContactTypes
<1>2. inbox' = [x \in Devs |-> IF x \in csc.devs \ {d} /\ DevOwner[x] \in {DevOwner[d], a}
                               THEN inbox[x] \cup {m} ELSE inbox[x]]
  BY DEF Post
<1>3. inbox' \in [Devs -> SUBSET NoteType]
  BY <1>1, <1>2
<1>4. ASSUME NEW x \in Devs, NEW n \in inbox'[x] PROVE NoteSound(wish', DevOwner[x], n)
  <2>1. CASE n \in inbox[x]
    BY <1>1, <2>1 DEF NotesSound
  <2>2. CASE n \notin inbox[x]
    BY <1>2, <2>2
  <2> QED BY <2>1, <2>2
<1> QED BY <1>3, <1>4 DEF NotesSound

\* A note is read, or nothing happens to the notes.
LEMMA TakenSound ==
  ASSUME ContactInv, NEW d \in Devs, NEW m, wish \subseteq wish',
         inbox' = inbox \/ inbox' = [inbox EXCEPT ![d] = @ \ {m}]
  PROVE  inbox' \in [Devs -> SUBSET NoteType] /\ NotesSound(wish', inbox')
<1>1. inbox \in [Devs -> SUBSET NoteType] /\ NotesSound(wish', inbox)
  BY SoundStays DEF ContactInv, ContactTypes
<1>2. CASE inbox' = inbox
  BY <1>1, <1>2
<1>3. CASE inbox' = [inbox EXCEPT ![d] = @ \ {m}]
  <2>1. inbox' \in [Devs -> SUBSET NoteType] /\ \A x \in Devs : inbox'[x] \subseteq inbox[x]
    BY <1>1, <1>3
  <2> QED BY <1>1, <2>1 DEF NotesSound
<1> QED BY <1>2, <1>3

LEMMA NewNote ==
  ASSUME NEW kind \in {"request", "response", "card", "snapshot"}, NEW from \in Accounts,
         NEW yes \in BOOLEAN, NEW b \in Books
  PROVE  Note(kind, from, yes, b) \in NoteType
BY DEF Note, NoteType

LEMMA EmptyBookType == EmptyBook \in Books /\ \A w, me : BookSound(w, me, EmptyBook)
<1>1. NoRecord \in Records /\ \A w, me, a : RecordSound(w, me, a, NoRecord)
  BY DEF NoRecord, Records, RecordSound
<1> QED BY <1>1 DEF EmptyBook, Books, BookSound

LEMMA OwnerIsAccount == \A d \in Devs : DevOwner[d] \in Accounts
BY DEF Accounts

LEMMA RequestKeeps ==
  ASSUME FlagsDiffer, ContactInv, NEW d \in Devs, NEW a \in Accounts, Request(d, a)
  PROVE  ContactInv'
<1> DEFINE r == RequestSent(book[d][a], clock')
           n == Note("request", DevOwner[d], TRUE, EmptyBook)
<1>1. /\ clock' = clock + 1 /\ clock \in Nat /\ csc' = csc /\ csc.devs \subseteq Devs
      /\ a # DevOwner[d] /\ Change(d, a, r) /\ wish' = wish \cup {<<DevOwner[d], a>>}
      /\ SentOrNot(d, a, n)
  BY DEF Request, Tick, ContactInv, ContactTypes
<1>2. book[d][a] \in Records /\ RecordSound(wish, DevOwner[d], a, book[d][a])
  BY <1>1 DEF ContactInv, ContactTypes, Books, BooksSound, BookSound
<1>3. r \in Records /\ RecordSound(wish', DevOwner[d], a, r)
  <2>1. clock' \in Nat
    BY <1>1
  <2>2. r \in Records
    BY <1>2, <2>1, RecordOps
  <2>3. RecordSound(wish \cup {<<DevOwner[d], a>>}, DevOwner[d], a, r)
    BY <1>2, <2>1, RecordOpsSound
  <2> QED BY <1>1, <2>2, <2>3
<1>4. wish \subseteq wish'
  BY <1>1
<1>5. book' \in [Devs -> Books] /\ BooksSound(wish', book')
  <2> HIDE DEF r
  <2> QED BY <1>1, <1>3, <1>4, ChangeSound
<1>6. n \in NoteType /\ \A x \in Devs : DevOwner[x] \in {DevOwner[d], a} => NoteSound(wish', DevOwner[x], n)
  <2>1. n \in NoteType
    BY NewNote, EmptyBookType, OwnerIsAccount
  <2>2. n.kind = "request" /\ n.from = DevOwner[d]
    BY DEF Note
  <2> QED BY <1>1, <2>1, <2>2 DEF NoteSound
<1>7. kept' \in [Devs -> Books] /\ BooksSound(wish', kept')
  BY <1>1, <1>4, <1>5, SavedSound DEF SentOrNot
<1>8. inbox' \in [Devs -> SUBSET NoteType] /\ NotesSound(wish', inbox')
  <2> HIDE DEF n
  <2> QED BY <1>1, <1>4, <1>6, PostSound, TakenSound DEF SentOrNot
<1> QED BY <1>1, <1>5, <1>7, <1>8 DEF ContactInv, ContactTypes

LEMMA RespondKeeps ==
  ASSUME FlagsDiffer, ContactInv, NEW d \in Devs, NEW a \in Accounts, NEW yes \in BOOLEAN,
         Respond(d, a, yes)
  PROVE  ContactInv'
<1> DEFINE r == IF yes THEN Accept(book[d][a], clock') ELSE Reject(book[d][a], clock')
           n == Note("response", DevOwner[d], yes, EmptyBook)
<1>1. /\ clock' = clock + 1 /\ clock \in Nat /\ csc' = csc /\ csc.devs \subseteq Devs
      /\ a # DevOwner[d] /\ Change(d, a, r)
      /\ wish' = IF yes THEN wish \cup {<<DevOwner[d], a>>} ELSE wish
      /\ SentOrNot(d, a, n) /\ (yes => PENDING_IN \in book[d][a].states)
  BY DEF Respond, Tick, ContactInv, ContactTypes, Has
<1>2. book[d][a] \in Records /\ RecordSound(wish, DevOwner[d], a, book[d][a])
  BY <1>1 DEF ContactInv, ContactTypes, Books, BooksSound, BookSound
<1>3. r \in Records /\ RecordSound(wish', DevOwner[d], a, r)
  <2>1. clock' \in Nat
    BY <1>1
  <2>2. Accept(book[d][a], clock') \in Records /\ Reject(book[d][a], clock') \in Records
    BY <1>2, <2>1, RecordOps
  <2>3. CASE yes
    <3>1. RecordSound(wish \cup {<<DevOwner[d], a>>}, DevOwner[d], a, Accept(book[d][a], clock'))
      BY <1>1, <1>2, <2>1, <2>3, RecordOpsSound
    <3> QED BY <1>1, <2>2, <2>3, <3>1
  <2>4. CASE ~yes
    <3>1. RecordSound(wish, DevOwner[d], a, Reject(book[d][a], clock'))
      BY <1>2, <2>1, RecordOpsSound
    <3> QED BY <1>1, <2>2, <2>4, <3>1
  <2> QED BY <2>3, <2>4
<1>4. wish \subseteq wish' /\ (yes => {<<DevOwner[d], a>>, <<a, DevOwner[d]>>} \subseteq wish')
  BY <1>1, <1>2 DEF RecordSound
<1>5. book' \in [Devs -> Books] /\ BooksSound(wish', book')
  <2> HIDE DEF r
  <2> QED BY <1>1, <1>3, <1>4, ChangeSound
<1>6. n \in NoteType /\ \A x \in Devs : DevOwner[x] \in {DevOwner[d], a} => NoteSound(wish', DevOwner[x], n)
  <2>1. n \in NoteType
    BY NewNote, EmptyBookType, OwnerIsAccount
  <2>2. n.kind = "response" /\ n.from = DevOwner[d] /\ n.yes = yes
    BY DEF Note
  <2> QED BY <1>1, <1>4, <2>1, <2>2 DEF NoteSound
<1>7. kept' \in [Devs -> Books] /\ BooksSound(wish', kept')
  BY <1>1, <1>4, <1>5, SavedSound DEF SentOrNot
<1>8. inbox' \in [Devs -> SUBSET NoteType] /\ NotesSound(wish', inbox')
  <2> HIDE DEF n
  <2> QED BY <1>1, <1>4, <1>6, PostSound, TakenSound DEF SentOrNot
<1> QED BY <1>1, <1>5, <1>7, <1>8 DEF ContactInv, ContactTypes

LEMMA LocalKeeps ==
  ASSUME FlagsDiffer, ContactInv, NEW d \in Devs, NEW a \in Accounts, NEW op, NEW r \in Records,
         a # DevOwner[d] => RecordSound(wish, DevOwner[d], a, r), Local(d, a, op, r)
  PROVE  ContactInv'
<1>1. /\ clock' = clock + 1 /\ clock \in Nat /\ csc' = csc /\ csc.devs \subseteq Devs
      /\ Change(d, a, r) /\ Saved(d) /\ wish' = wish /\ inbox' = inbox
  BY DEF Local, Tick, ContactInv, ContactTypes
<1>2. book' \in [Devs -> Books] /\ BooksSound(wish', book')
  BY <1>1, ChangeSound
<1>3. kept' \in [Devs -> Books] /\ BooksSound(wish', kept')
  BY <1>1, <1>2, SavedSound
<1>4. inbox' \in [Devs -> SUBSET NoteType] /\ NotesSound(wish', inbox')
  BY <1>1 DEF ContactInv, ContactTypes
<1> QED BY <1>1, <1>2, <1>3, <1>4 DEF ContactInv, ContactTypes

LEMMA LocalOpsKeep ==
  ASSUME FlagsDiffer, ContactInv, NEW d \in Devs, NEW a \in Accounts,
         \/ Remove(d, a) \/ BlockContact(d, a) \/ UnblockContact(d, a)
         \/ \E on \in BOOLEAN : Mute(d, a, on) \/ Trust(d, a, on) \/ Follow(d, a, on)
  PROVE  ContactInv'
<1> DEFINE r == book[d][a]
           t == clock + 1
<1>1. r \in Records /\ t \in Nat /\ (a # DevOwner[d] => RecordSound(wish, DevOwner[d], a, r))
  BY DEF ContactInv, ContactTypes, Books, BooksSound, BookSound
<1>2. CASE Remove(d, a)
  <2>1. RemoveContact(r, t) \in Records /\ (a # DevOwner[d] => RecordSound(wish, DevOwner[d], a, RemoveContact(r, t)))
    BY <1>1, RecordOps, RecordOpsSound
  <2> QED BY <1>2, <2>1, LocalKeeps DEF Remove
<1>3. CASE BlockContact(d, a)
  <2>1. Block(r, t) \in Records /\ (a # DevOwner[d] => RecordSound(wish, DevOwner[d], a, Block(r, t)))
    BY <1>1, RecordOps, RecordOpsSound
  <2> QED BY <1>3, <2>1, LocalKeeps DEF BlockContact
<1>4. CASE UnblockContact(d, a)
  <2>1. Unblock(r, t) \in Records /\ (a # DevOwner[d] => RecordSound(wish, DevOwner[d], a, Unblock(r, t)))
    BY <1>1, RecordOps, RecordOpsSound
  <2> QED BY <1>4, <2>1, LocalKeeps DEF UnblockContact
<1>5. ASSUME NEW on \in BOOLEAN, Mute(d, a, on) PROVE ContactInv'
  <2>1. SetFlag(r, MUTED, on, t) \in Records
    BY <1>1, RecordOps DEF PeopleFlags
  <2>2. a # DevOwner[d] => RecordSound(wish, DevOwner[d], a, SetFlag(r, MUTED, on, t))
    BY <1>1, RecordOpsSound
  <2> QED BY <1>5, <2>1, <2>2, LocalKeeps DEF Mute
<1>6. ASSUME NEW on \in BOOLEAN, Follow(d, a, on) PROVE ContactInv'
  <2>1. SetFlag(r, FOLLOWING, on, t) \in Records
    BY <1>1, RecordOps DEF PeopleFlags
  <2>2. a # DevOwner[d] => RecordSound(wish, DevOwner[d], a, SetFlag(r, FOLLOWING, on, t))
    BY <1>1, RecordOpsSound
  <2> QED BY <1>6, <2>1, <2>2, LocalKeeps DEF Follow
<1>7. ASSUME NEW on \in BOOLEAN, Trust(d, a, on) PROVE ContactInv'
  <2>1. SetFlag(r, TRUSTED, on, t) \in Records
    BY <1>1, RecordOps DEF PeopleFlags
  <2>2. on => FRIEND \in r.states
    BY <1>7 DEF Trust, Has
  <2>3. a # DevOwner[d] => RecordSound(wish, DevOwner[d], a, SetFlag(r, TRUSTED, on, t))
    BY <1>1, <2>2, RecordOpsSound
  <2> QED BY <1>7, <2>1, <2>3, LocalKeeps DEF Trust
<1> QED BY <1>2, <1>3, <1>4, <1>5, <1>6, <1>7

LEMMA SendCardKeeps ==
  ASSUME FlagsDiffer, ContactInv, NEW d \in Devs, NEW a \in Accounts, SendCard(d, a)
  PROVE  ContactInv'
<1> DEFINE n == Note("card", DevOwner[d], TRUE, EmptyBook)
<1>1. /\ clock' = clock + 1 /\ clock \in Nat /\ csc' = csc /\ csc.devs \subseteq Devs
      /\ book' = book /\ kept' = kept /\ wish' = wish /\ Post(d, a, n)
  BY DEF SendCard, Tick, ContactInv, ContactTypes
<1>2. n \in NoteType /\ n.kind = "card"
  BY NewNote, EmptyBookType, OwnerIsAccount DEF Note
<1>3. \A x \in Devs : NoteSound(wish', DevOwner[x], n)
  BY <1>2 DEF NoteSound
<1>4. inbox' \in [Devs -> SUBSET NoteType] /\ NotesSound(wish', inbox')
  <2> HIDE DEF n
  <2> QED BY <1>1, <1>2, <1>3, PostSound
<1> QED BY <1>1, <1>4 DEF ContactInv, ContactTypes

LEMMA HandleContactKeeps ==
  ASSUME FlagsDiffer, ContactInv, NEW d \in Devs, NEW m, HandleContact(d, m)
  PROVE  ContactInv'
<1> DEFINE a == m.from
           me == DevOwner[d]
           r == book[d][a]
           t == clock + 1
<1>1. /\ m \in inbox[d] /\ m.kind # "snapshot" /\ clock' = t /\ clock \in Nat /\ csc' = csc
      /\ csc.devs \subseteq Devs /\ inbox' = [inbox EXCEPT ![d] = @ \ {m}] /\ wish' = wish
      /\ Change(d, a, Handled(r, m)) /\ (kept' = kept \/ Saved(d))
  BY DEF HandleContact, ContactInv, ContactTypes
<1>2. /\ m.kind \in {"request", "response", "card"} /\ a \in Accounts /\ m.yes \in BOOLEAN
      /\ NoteSound(wish, me, m)
  BY <1>1 DEF ContactInv, ContactTypes, NoteType, NotesSound
<1>3. r \in Records /\ t \in Nat /\ (a # me => RecordSound(wish, me, a, r))
  BY <1>1, <1>2 DEF ContactInv, ContactTypes, Books, BooksSound, BookSound
<1>4. Handled(r, m) \in Records /\ (a # me => RecordSound(wish, me, a, Handled(r, m)))
  <2>1. CASE m.kind = "request"
    <3>1. Handled(r, m) = RequestReceived(r, t)
      BY <2>1 DEF Handled
    <3>2. RequestReceived(r, t) \in Records
      BY <1>3, RecordOps
    <3>3. a # me => RecordSound(wish, me, a, RequestReceived(r, t))
      BY <1>2, <1>3, <2>1, RecordOpsSound DEF NoteSound
    <3> QED BY <3>1, <3>2, <3>3
  <2>2. CASE m.kind = "response"
    <3>1. Handled(r, m) = ResponseReceived(r, m.yes, t)
      BY <2>2 DEF Handled
    <3>2. ResponseReceived(r, m.yes, t) \in Records
      BY <1>3, RecordOps
    <3>3. a # me => RecordSound(wish, me, a, ResponseReceived(r, m.yes, t))
      BY <1>2, <1>3, <2>2, RecordOpsSound DEF NoteSound
    <3> QED BY <3>1, <3>2, <3>3
  <2>3. CASE m.kind = "card"
    <3>1. Handled(r, m) = IF FRIEND \in r.states THEN [r EXCEPT !.at = t] ELSE r
      BY <2>3 DEF Handled
    <3>2. [r EXCEPT !.at = t] = Record(r.states, t) /\ Record(r.states, t) \in Records
      BY <1>3, RecordOps
    <3>3. a # me => RecordSound(wish, me, a, Record(r.states, t))
      BY <1>3, RecordOpsSound
    <3> QED BY <1>3, <3>1, <3>2, <3>3
  <2> QED BY <1>2, <2>1, <2>2, <2>3
<1>5. book' \in [Devs -> Books] /\ BooksSound(wish', book')
  BY <1>1, <1>2, <1>4, ChangeSound
<1>6. kept' \in [Devs -> Books] /\ BooksSound(wish', kept')
  BY <1>1, <1>5, SavedSound
<1>7. inbox' \in [Devs -> SUBSET NoteType] /\ NotesSound(wish', inbox')
  BY <1>1, TakenSound
<1> QED BY <1>1, <1>5, <1>6, <1>7 DEF ContactInv, ContactTypes

LEMMA ApplySnapshotKeeps ==
  ASSUME ContactInv, NEW d \in Devs, NEW m, ApplySnapshot(d, m)
  PROVE  ContactInv'
<1> DEFINE b == MergeSnapshot(book[d], m.book)
<1>1. /\ m \in inbox[d] /\ m.kind = "snapshot" /\ clock' = clock /\ csc' = csc
      /\ inbox' = [inbox EXCEPT ![d] = @ \ {m}] /\ wish' = wish
      /\ book' = [book EXCEPT ![d] = b] /\ kept' = [kept EXCEPT ![d] = book'[d]]
  BY DEF ApplySnapshot
<1>2. /\ book \in [Devs -> Books] /\ BooksSound(wish, book) /\ m.book \in Books
      /\ BookSound(wish, DevOwner[d], m.book)
  <2>1. book \in [Devs -> Books] /\ BooksSound(wish, book) /\ m \in NoteType
    BY <1>1 DEF ContactInv, ContactTypes
  <2>2. NoteSound(wish, DevOwner[d], m)
    BY <1>1 DEF ContactInv, NotesSound
  <2>3. m.book \in Books
    BY <2>1 DEF NoteType
  <2>4. BookSound(wish, DevOwner[d], m.book)
    BY <1>1, <2>2 DEF NoteSound
  <2> QED BY <2>1, <2>3, <2>4
<1>3. b \in Books
  BY <1>2 DEF MergeSnapshot, Books
<1>4. BookSound(wish, DevOwner[d], b)
  BY <1>2 DEF MergeSnapshot, BookSound, BooksSound
<1>5. book' \in [Devs -> Books] /\ BooksSound(wish', book')
  <2> HIDE DEF b
  <2> QED BY <1>1, <1>2, <1>3, <1>4 DEF BooksSound
<1>6. kept' \in [Devs -> Books] /\ BooksSound(wish', kept')
  BY <1>1, <1>5, SavedSound
<1>7. inbox' \in [Devs -> SUBSET NoteType] /\ NotesSound(wish', inbox')
  BY <1>1, TakenSound
<1> QED BY <1>1, <1>5, <1>6, <1>7 DEF ContactInv, ContactTypes

LEMMA SnapshotNote ==
  ASSUME ContactInv, NEW d \in Devs, wish' = wish,
         Post(d, DevOwner[d], Note("snapshot", DevOwner[d], TRUE, book[d]))
  PROVE  inbox' \in [Devs -> SUBSET NoteType] /\ NotesSound(wish', inbox')
<1> DEFINE n == Note("snapshot", DevOwner[d], TRUE, book[d])
<1>1. book[d] \in Books /\ BookSound(wish, DevOwner[d], book[d])
  BY DEF ContactInv, ContactTypes, BooksSound
<1>2. n \in NoteType /\ n.kind = "snapshot" /\ n.from = DevOwner[d] /\ n.book = book[d]
  BY <1>1, NewNote, OwnerIsAccount DEF Note
<1>3. \A x \in Devs : DevOwner[x] \in {DevOwner[d], DevOwner[d]} => NoteSound(wish', DevOwner[x], n)
  BY <1>1, <1>2 DEF NoteSound
<1> HIDE DEF n
<1> QED BY <1>2, <1>3, PostSound DEF n

LEMMA SnapshotsKeep ==
  ASSUME ContactInv, NEW d \in Devs, SendSnapshot(d) \/ BootstrapDevice(d) \/ RestartContacts(d)
  PROVE  ContactInv'
<1>1. CASE SendSnapshot(d)
  <2>1. csc' = csc /\ book' = book /\ kept' = kept /\ clock' = clock /\ wish' = wish
    BY <1>1 DEF SendSnapshot
  <2>2. inbox' \in [Devs -> SUBSET NoteType] /\ NotesSound(wish', inbox')
    <3>1. CASE inbox' = inbox
      BY <2>1, <3>1 DEF ContactInv, ContactTypes
    <3>2. CASE Post(d, DevOwner[d], Note("snapshot", DevOwner[d], TRUE, book[d]))
      BY <2>1, <3>2, SnapshotNote
    <3> QED BY <1>1, <3>1, <3>2 DEF SendSnapshot
  <2> QED BY <2>1, <2>2 DEF ContactInv, ContactTypes
<1>2. CASE BootstrapDevice(d)
  <2>1. /\ csc' = csc /\ book' = book /\ kept' = kept /\ clock' = clock + 1 /\ wish' = wish
        /\ Post(d, DevOwner[d], Note("snapshot", DevOwner[d], TRUE, book[d]))
    BY <1>2 DEF BootstrapDevice, Tick
  <2>2. inbox' \in [Devs -> SUBSET NoteType] /\ NotesSound(wish', inbox')
    BY <2>1, SnapshotNote
  <2> QED BY <2>1, <2>2 DEF ContactInv, ContactTypes
<1>3. CASE RestartContacts(d)
  <2>1. /\ csc' = csc /\ kept' = kept /\ inbox' = inbox /\ clock' = clock /\ wish' = wish
        /\ book' = [book EXCEPT ![d] = kept[d]]
    BY <1>3 DEF RestartContacts
  <2>2. book' \in [Devs -> Books] /\ BooksSound(wish', book')
    BY <2>1 DEF ContactInv, ContactTypes, BooksSound
  <2> QED BY <2>1, <2>2 DEF ContactInv, ContactTypes
<1> QED BY <1>1, <1>2, <1>3

LEMMA ContactStep ==
  ASSUME FlagsDiffer, ContactInv, [PeopleNext]_peopleVars
  PROVE  ContactInv'
<1>1. CASE UNCHANGED peopleVars
  BY <1>1 DEF peopleVars, contactVars, ContactInv, ContactTypes
<1>2. CASE ContactNext
  <2>1. PICK d \in csc.devs :
          \/ \E a \in Accounts :
               \/ Request(d, a) \/ Remove(d, a) \/ BlockContact(d, a) \/ UnblockContact(d, a)
               \/ SendCard(d, a)
               \/ \E on \in BOOLEAN : Respond(d, a, on) \/ Mute(d, a, on) \/ Trust(d, a, on) \/ Follow(d, a, on)
          \/ \E m \in inbox[d] : HandleContact(d, m) \/ ApplySnapshot(d, m)
          \/ SendSnapshot(d) \/ BootstrapDevice(d) \/ RestartContacts(d)
    BY <1>2 DEF ContactNext
  <2>2. d \in Devs
    BY DEF ContactInv, ContactTypes
  <2> QED BY <2>1, <2>2, RequestKeeps, RespondKeeps, LocalOpsKeep, SendCardKeeps, HandleContactKeeps,
             ApplySnapshotKeeps, SnapshotsKeep
<1>3. CASE MailNext
  <2>1. /\ csc' = csc /\ book' = book /\ kept' = kept /\ inbox' = inbox /\ wish' = wish
        /\ clock' = clock \/ clock' = clock + 1
    BY <1>3 DEF MailNext, UserMail, MailRound, Tick
  <2> QED BY <2>1 DEF ContactInv, ContactTypes
<1> QED BY <1>1, <1>2, <1>3 DEF PeopleNext

(* For any devices, accounts and scenarios, and any order of requests,     *)
(* answers, snapshots, failed sends, restarts and mail: what is a contact  *)
(* on a device was wished for by both, and only contacts are trusted.      *)
(* (people.rs, sdk people.rs)                                              *)
THEOREM ContactsAlwaysAgreed ==
  ASSUME NEW CONSTANT scenes, ContactScenarios(scenes)
  PROVE  ContactInit(scenes) /\ MailInit /\ [][PeopleNext]_peopleVars => []ContactsAgreed
<1>1. ContactInit(scenes) => ContactInv
  <2> SUFFICES ASSUME ContactInit(scenes) PROVE ContactInv
    OBVIOUS
  <2>1. book = [d \in Devs |-> EmptyBook] /\ kept = book
    BY DEF ContactInit
  <2>2. EmptyBook \in Books /\ \A d \in Devs : BookSound(wish, DevOwner[d], EmptyBook)
    BY EmptyBookType
  <2>3. book \in [Devs -> Books] /\ BooksSound(wish, book)
    BY <2>1, <2>2 DEF BooksSound
  <2> QED BY <2>1, <2>3 DEF ContactInit, ContactScenarios, ContactInv, ContactTypes, NotesSound
<1>2. ContactInv /\ [PeopleNext]_peopleVars => ContactInv'
  BY ContactStep DEF ContactScenarios
<1>3. ContactInv => ContactsAgreed
  BY DEF ContactInv, BooksSound, BookSound, RecordSound, ContactsAgreed, Has
<1> QED BY <1>1, <1>2, <1>3, PTL

----------------------------------------------------------------------------
(* Mail: what the indexes hold is what the store says, and every message,  *)
(* receipt and draft is one its group and its sender's list allow.         *)

Folders == {"inbox", "sent", "archive", "trash", "spam", "requests"}
Msgs == [id : MailIds, re : MailIds \cup {0}, root : MailIds, from : Accounts, to : SUBSET Accounts,
         copy : BOOLEAN]
Kept == [folder : Folders, m : Msgs, read : BOOLEAN, star : BOOLEAN, out : BOOLEAN,
         delivered : SUBSET Accounts, readby : SUBSET Accounts, grp : SUBSET Accounts]
Stores == [MailIds -> Kept \cup {NoMail}]

\* A box is what a restart makes of its store.
HeldIn(st) == {i \in MailIds : st[i] # NoMail}
BoxOf(st) == [store    |-> st,
              byFolder |-> {<<st[i].folder, i>> : i \in HeldIn(st)},
              byThread |-> {<<st[i].m.root, i>> : i \in HeldIn(st)},
              index    |-> {Entry(i, st[i]) : i \in HeldIn(st)}]
Boxes == {BoxOf(st) : st \in Stores}

Drafts == [on : BOOLEAN, to : SUBSET Accounts, bcc : SUBSET Accounts, re : MailIds \cup {0}]
Sents == [from : Accounts \cup {"none"}, to : SUBSET Accounts, bcc : SUBSET Accounts]

\* A message in group grp, given what was sent: the main one, or one between
\* the sender and one account.
MsgSound(s, m, grp) ==
  /\ m \in Msgs /\ grp \subseteq Accounts
  /\ s[m.id] # NotSent /\ m.from = s[m.id].from
  /\ \/ ~m.copy /\ grp = {m.from} \cup s[m.id].to
     \/ \E a \in Accounts : grp = {m.from, a}
\* What account me may hold: its own, a copy, or what it is a visible
\* recipient of.
MaySee(s, me, m, grp) == me \in grp /\ (me = m.from \/ m.copy \/ me \in s[m.id].to)
RecSound(s, fl, op, me, i, r) ==
  /\ r.m.id = i /\ MsgSound(s, r.m, r.grp) /\ MaySee(s, me, r.m, r.grp)
  /\ me = r.m.from => r.out
  /\ (\A a \in r.delivered : <<a, i>> \in fl) /\ (\A a \in r.readby : <<a, i>> \in op)
EnvSound(s, fl, op, me, e) ==
  /\ e.kind = "mail" => MsgSound(s, e.m, e.grp) /\ MaySee(s, me, e.m, e.grp) /\ e.from = e.m.from
  /\ e.kind \in {"delivered", "opened"} => e.from \in Accounts /\ e.m.id \in MailIds
  /\ e.kind = "delivered" => <<e.from, e.m.id>> \in fl
  /\ e.kind = "opened" => <<e.from, e.m.id>> \in op
\* An answer of a hidden recipient does not reach a visible one.
Hidden(s, i, by, to) ==
  /\ i \in MailIds /\ s[i] # NotSent
  /\ by \in s[i].bcc \ (s[i].to \cup {s[i].from}) => to \notin s[i].to \ {s[i].from}
DraftSound(s, me, dr) ==
  dr.on /\ dr.re # 0 => dr.bcc = {} /\ \A a \in dr.to : Hidden(s, dr.re, me, a)

LettersAllowed(sc) ==
  /\ sc.devs \subseteq Devs /\ sc.mails \in Nat /\ 1..sc.mails \subseteq MailIds
  /\ \A l \in sc.letters : l.to \subseteq Accounts /\ l.bcc \subseteq Accounts
MailScenarios(scenes) ==
  /\ "none" \notin Accounts /\ IsFiniteSet(MailIds)
  /\ \A sc \in scenes : LettersAllowed(sc)

MailsSound(s, fl, op, bx) ==
  /\ bx \in [Devs -> Boxes]
  /\ \A d \in Devs : \A i \in HeldIn(bx[d].store) : RecSound(s, fl, op, DevOwner[d], i, bx[d].store[i])
PostsSound(s, fl, op, p) ==
  /\ p = [d \in Devs |-> p[d]]
  /\ \A d \in Devs : \A e \in p[d] : EnvSound(s, fl, op, DevOwner[d], e)
DraftsSound(s, drs) == drs \in [Devs -> Drafts] /\ \A d \in Devs : DraftSound(s, DevOwner[d], drs[d])
ToldSound(s, tl) == \A x \in tl : Hidden(s, x.id, x.by, x.to)
MailInv ==
  /\ LettersAllowed(csc) /\ sentAs \in [MailIds -> Sents]
  /\ MailsSound(sentAs, filed, opened, mails) /\ PostsSound(sentAs, filed, opened, mpost)
  /\ DraftsSound(sentAs, draft) /\ ToldSound(sentAs, told)

\* What a hint may change leaves a record a record.
LEMMA KeptHinted ==
  ASSUME NEW r \in Kept, NEW h, NEW i
  PROVE  /\ HintedRecord(h, i, r) \in Kept
         /\ LET n == HintedRecord(h, i, r)
            IN n.m = r.m /\ n.out = r.out /\ n.grp = r.grp /\ n.delivered = r.delivered /\ n.readby = r.readby
<1>1. (IF i \in h.unread THEN FALSE ELSE r.read \/ i \in h.read) \in BOOLEAN
  OBVIOUS
<1>2. (IF i \in h.unstarred THEN FALSE ELSE r.star \/ i \in h.starred) \in BOOLEAN
  OBVIOUS
<1>3. (IF i \in h.trashed THEN "trash" ELSE IF i \in h.archived THEN "archive" ELSE r.folder) \in Folders
  BY DEF Kept, Folders
<1> DEFINE x == IF i \in h.unread THEN FALSE ELSE r.read \/ i \in h.read
           y == IF i \in h.unstarred THEN FALSE ELSE r.star \/ i \in h.starred
           z == IF i \in h.trashed THEN "trash" ELSE IF i \in h.archived THEN "archive" ELSE r.folder
<1>4. HintedRecord(h, i, r) = [r EXCEPT !.read = x, !.folder = z, !.star = y]
  BY DEF HintedRecord
<1> HIDE DEF x, y, z
<1>5. x \in BOOLEAN /\ y \in BOOLEAN /\ z \in Folders
  BY <1>1, <1>2, <1>3 DEF x, y, z
<1> QED BY <1>4, <1>5 DEF Kept

----------------------------------------------------------------------------
(* The boxes.                                                              *)

LEMMA NoMailIsNotKept == NoMail \notin Kept /\ \A r \in Kept : r # NoMail
BY DEF NoMail, Kept, Folders

LEMMA BoxFields ==
  ASSUME NEW st
  PROVE  /\ BoxOf(st).store = st
         /\ BoxOf(st).byFolder = {<<st[i].folder, i>> : i \in HeldIn(st)}
         /\ BoxOf(st).byThread = {<<st[i].m.root, i>> : i \in HeldIn(st)}
         /\ BoxOf(st).index = {Entry(i, st[i]) : i \in HeldIn(st)}
BY DEF BoxOf

\* What is left of a box when some ids are taken out of its indexes.
LEMMA UnindexedBox ==
  ASSUME NEW st \in Stores, NEW ids
  PROVE  Unindexed(BoxOf(st), ids) =
           [store    |-> st,
            byFolder |-> {<<st[i].folder, i>> : i \in HeldIn(st) \ ids},
            byThread |-> {<<st[i].m.root, i>> : i \in HeldIn(st) \ ids},
            index    |-> {Entry(i, st[i]) : i \in HeldIn(st) \ ids}]
<1> DEFINE box == BoxOf(st)
           old == {e \in box.index : e.id \in ids}
<1>1. old = {Entry(i, st[i]) : i \in HeldIn(st) \cap ids}
  BY BoxFields DEF Entry
<1>2. \A i : Entry(i, st[i]).id = i /\ Entry(i, st[i]).folder = st[i].folder /\ Entry(i, st[i]).root = st[i].m.root
  BY DEF Entry
<1>3. box.byFolder \ {<<e.folder, e.id>> : e \in old} = {<<st[i].folder, i>> : i \in HeldIn(st) \ ids}
  <2>1. {<<e.folder, e.id>> : e \in old} = {<<st[i].folder, i>> : i \in HeldIn(st) \cap ids}
    BY <1>1, <1>2
  <2> HIDE DEF old
  <2> QED BY <2>1, BoxFields
<1>4. box.byThread \ {<<e.root, e.id>> : e \in old} = {<<st[i].m.root, i>> : i \in HeldIn(st) \ ids}
  <2>1. {<<e.root, e.id>> : e \in old} = {<<st[i].m.root, i>> : i \in HeldIn(st) \cap ids}
    BY <1>1, <1>2
  <2> HIDE DEF old
  <2> QED BY <2>1, BoxFields
<1>5. box.index \ old = {Entry(i, st[i]) : i \in HeldIn(st) \ ids}
  <2> HIDE DEF old
  <2>1. ASSUME NEW e \in {Entry(i, st[i]) : i \in HeldIn(st) \ ids} PROVE e \in box.index \ old
    BY <1>1, <1>2, BoxFields
  <2>2. ASSUME NEW e \in box.index \ old PROVE e \in {Entry(i, st[i]) : i \in HeldIn(st) \ ids}
    BY <1>1, BoxFields
  <2> QED BY <2>1, <2>2
<1>6. Unindexed(box, ids) = [box EXCEPT !.byFolder = @ \ {<<e.folder, e.id>> : e \in old},
                                      !.byThread = @ \ {<<e.root, e.id>> : e \in old},
                                      !.index = @ \ old]
  BY DEF Unindexed
<1> HIDE DEF old
<1> QED BY <1>3, <1>4, <1>5, <1>6, BoxFields DEF BoxOf

LEMMA PutBox ==
  ASSUME NEW st \in Stores, NEW i \in MailIds, NEW r \in Kept
  PROVE  Put(BoxOf(st), i, r) = BoxOf([st EXCEPT ![i] = r])
<1> DEFINE new == [st EXCEPT ![i] = r]
           b == Unindexed(BoxOf(st), {i})
<1>1. HeldIn(new) = HeldIn(st) \cup {i} /\ new[i] = r /\ \A j \in HeldIn(st) \ {i} : new[j] = st[j]
  BY NoMailIsNotKept DEF HeldIn, Stores
<1>2. b = [store    |-> st,
           byFolder |-> {<<st[j].folder, j>> : j \in HeldIn(st) \ {i}},
           byThread |-> {<<st[j].m.root, j>> : j \in HeldIn(st) \ {i}},
           index    |-> {Entry(j, st[j]) : j \in HeldIn(st) \ {i}}]
  BY UnindexedBox
<1>3. Put(BoxOf(st), i, r) = [b EXCEPT !.store[i] = r, !.byFolder = @ \cup {<<r.folder, i>>},
                                       !.byThread = @ \cup {<<r.m.root, i>>}, !.index = @ \cup {Entry(i, r)}]
  BY DEF Put
<1>4. {<<new[j].folder, j>> : j \in HeldIn(new)} = {<<st[j].folder, j>> : j \in HeldIn(st) \ {i}} \cup {<<r.folder, i>>}
  BY <1>1
<1>5. {<<new[j].m.root, j>> : j \in HeldIn(new)} = {<<st[j].m.root, j>> : j \in HeldIn(st) \ {i}} \cup {<<r.m.root, i>>}
  BY <1>1
<1>6. {Entry(j, new[j]) : j \in HeldIn(new)} = {Entry(j, st[j]) : j \in HeldIn(st) \ {i}} \cup {Entry(i, r)}
  BY <1>1
<1> HIDE DEF new, b
<1>7. Put(BoxOf(st), i, r) = [store    |-> [b.store EXCEPT ![i] = r], byFolder |-> b.byFolder \cup {<<r.folder, i>>},
                              byThread |-> b.byThread \cup {<<r.m.root, i>>}, index |-> b.index \cup {Entry(i, r)}]
  BY <1>2, <1>3
<1>8. [b.store EXCEPT ![i] = r] = new
  BY <1>2 DEF new
<1> QED BY <1>2, <1>4, <1>5, <1>6, <1>7, <1>8 DEF BoxOf, new

LEMMA RemoveBox ==
  ASSUME NEW st \in Stores, NEW i \in MailIds
  PROVE  RemoveMail(BoxOf(st), i) = BoxOf([st EXCEPT ![i] = NoMail])
<1> DEFINE new == [st EXCEPT ![i] = NoMail]
           b == Unindexed(BoxOf(st), {i})
<1>1. HeldIn(new) = HeldIn(st) \ {i} /\ \A j \in HeldIn(st) \ {i} : new[j] = st[j]
  BY DEF HeldIn, Stores
<1>2. b = [store    |-> st,
           byFolder |-> {<<st[j].folder, j>> : j \in HeldIn(st) \ {i}},
           byThread |-> {<<st[j].m.root, j>> : j \in HeldIn(st) \ {i}},
           index    |-> {Entry(j, st[j]) : j \in HeldIn(st) \ {i}}]
  BY UnindexedBox
<1>3. RemoveMail(BoxOf(st), i) = [b EXCEPT !.store[i] = NoMail]
  BY DEF RemoveMail
<1>4. {<<new[j].folder, j>> : j \in HeldIn(new)} = {<<st[j].folder, j>> : j \in HeldIn(st) \ {i}}
  BY <1>1
<1>5. {<<new[j].m.root, j>> : j \in HeldIn(new)} = {<<st[j].m.root, j>> : j \in HeldIn(st) \ {i}}
  BY <1>1
<1>6. {Entry(j, new[j]) : j \in HeldIn(new)} = {Entry(j, st[j]) : j \in HeldIn(st) \ {i}}
  BY <1>1
<1> HIDE DEF new, b
<1>7. RemoveMail(BoxOf(st), i) = [store |-> [b.store EXCEPT ![i] = NoMail], byFolder |-> b.byFolder,
                                  byThread |-> b.byThread, index |-> b.index]
  BY <1>2, <1>3
<1>8. [b.store EXCEPT ![i] = NoMail] = new
  BY <1>2 DEF new
<1> QED BY <1>2, <1>4, <1>5, <1>6, <1>7, <1>8 DEF BoxOf, new

\* A restart changes nothing that is shown.
LEMMA LoadedBox == ASSUME NEW st \in Stores PROVE LoadBox(BoxOf(st)) = BoxOf(st)
<1> DEFINE box == BoxOf(st)
           ids == {i \in MailIds : box.store[i] # NoMail}
<1>1. ids = HeldIn(st) /\ box.store = st
  BY BoxFields DEF HeldIn
<1>2. LoadBox(box) = [box EXCEPT !.byFolder = {<<box.store[i].folder, i>> : i \in ids},
                 !.byThread = {<<box.store[i].m.root, i>> : i \in ids},
                 !.index = {Entry(i, box.store[i]) : i \in ids}]
  BY DEF LoadBox
<1>3. /\ {<<box.store[i].folder, i>> : i \in ids} = box.byFolder
      /\ {<<box.store[i].m.root, i>> : i \in ids} = box.byThread
      /\ {Entry(i, box.store[i]) : i \in ids} = box.index
  BY <1>1, BoxFields
<1>4. LoadBox(box) = [box EXCEPT !.byFolder = box.byFolder, !.byThread = box.byThread, !.index = box.index]
  <2> HIDE DEF ids, box
  <2> QED BY <1>2, <1>3
<1> QED BY <1>4 DEF BoxOf

LEMMA EmptyBoxIsSound == EmptyBox \in Boxes /\ EmptyBox.store = [i \in MailIds |-> NoMail]
<1> DEFINE st == [i \in MailIds |-> NoMail]
<1>1. st \in Stores /\ HeldIn(st) = {}
  BY DEF Stores, HeldIn
<1>2. EmptyBox = BoxOf(st)
  BY <1>1 DEF EmptyBox, BoxOf
<1> QED BY <1>1, <1>2 DEF Boxes, EmptyBox

LEMMA HintedBox ==
  ASSUME NEW st \in Stores, NEW h
  PROVE  ApplyHint(BoxOf(st), h) =
           BoxOf([i \in MailIds |-> IF i \in HeldIn(st) \ h.deleted THEN HintedRecord(h, i, st[i]) ELSE NoMail])
<1> DEFINE here == {i \in MailIds : BoxOf(st).store[i] # NoMail}
           left == here \ h.deleted
           rec(i) == HintedRecord(h, i, BoxOf(st).store[i])
           b == Unindexed(BoxOf(st), here)
           new == [i \in MailIds |-> IF i \in left THEN rec(i) ELSE NoMail]
<1>1. here = HeldIn(st) /\ \A i : rec(i) = HintedRecord(h, i, st[i])
  BY BoxFields DEF HeldIn
<1>2. b = [store |-> st, byFolder |-> {}, byThread |-> {}, index |-> {}]
  <2>1. HeldIn(st) \ here = {}
    BY <1>1
  <2> HIDE DEF here
  <2>2. b = [store |-> st, byFolder |-> {<<st[i].folder, i>> : i \in {}},
             byThread |-> {<<st[i].m.root, i>> : i \in {}}, index |-> {Entry(i, st[i]) : i \in {}}]
    BY <2>1, UnindexedBox
  <2> QED BY <2>2
<1>3. ASSUME NEW i \in left PROVE rec(i) \in Kept
  <2>1. i \in MailIds /\ st[i] \in Kept
    BY <1>1 DEF HeldIn, Stores
  <2>2. HintedRecord(h, i, st[i]) \in Kept
    BY <2>1, KeptHinted
  <2> QED BY <1>1, <2>2
<1>4. HeldIn(new) = left /\ \A i \in left : new[i] = rec(i)
  BY <1>3, NoMailIsNotKept DEF HeldIn
<1>5. ApplyHint(BoxOf(st), h) =
        [store    |-> [i \in MailIds |-> IF i \in left THEN rec(i) ELSE NoMail],
         byFolder |-> b.byFolder \cup {<<rec(i).folder, i>> : i \in left},
         byThread |-> b.byThread \cup {<<rec(i).m.root, i>> : i \in left},
         index    |-> b.index \cup {Entry(i, rec(i)) : i \in left}]
  BY DEF ApplyHint
<1>6. {<<new[i].folder, i>> : i \in HeldIn(new)} = {<<rec(i).folder, i>> : i \in left}
  BY <1>4
<1>7. {<<new[i].m.root, i>> : i \in HeldIn(new)} = {<<rec(i).m.root, i>> : i \in left}
  BY <1>4
<1>8. {Entry(i, new[i]) : i \in HeldIn(new)} = {Entry(i, rec(i)) : i \in left}
  BY <1>4
<1>9. ApplyHint(BoxOf(st), h) = BoxOf(new)
  <2> DEFINE F == {<<rec(i).folder, i>> : i \in left}
             T == {<<rec(i).m.root, i>> : i \in left}
             X == {Entry(i, rec(i)) : i \in left}
  <2>1. ApplyHint(BoxOf(st), h) = [store |-> new, byFolder |-> b.byFolder \cup F,
                                   byThread |-> b.byThread \cup T, index |-> b.index \cup X]
    BY <1>5
  <2>2. BoxOf(new) = [store |-> new, byFolder |-> F, byThread |-> T, index |-> X]
    <3> HIDE DEF left, rec, new
    <3> QED BY <1>6, <1>7, <1>8 DEF BoxOf
  <2> HIDE DEF b, F, T, X, new
  <2>3. ApplyHint(BoxOf(st), h) = [store |-> new, byFolder |-> F, byThread |-> T, index |-> X]
    BY <1>2, <2>1
  <2> QED BY <2>2, <2>3
<1>10. new = [i \in MailIds |-> IF i \in HeldIn(st) \ h.deleted THEN HintedRecord(h, i, st[i]) ELSE NoMail]
  BY <1>1
<1> QED BY <1>9, <1>10

----------------------------------------------------------------------------
(* What was sent, filed and opened is never taken back, so what was sound  *)
(* stays sound.                                                            *)

SentStays(s, t) == \A i \in MailIds : s[i] # NotSent => t[i] = s[i]

LEMMA MailStays ==
  ASSUME NEW s, NEW t, NEW fl, NEW fl2, NEW op, NEW op2, SentStays(s, t), fl \subseteq fl2, op \subseteq op2
  PROVE  /\ \A m, g : MsgSound(s, m, g) => MsgSound(t, m, g)
         /\ \A bx : MailsSound(s, fl, op, bx) => MailsSound(t, fl2, op2, bx)
         /\ \A p : PostsSound(s, fl, op, p) => PostsSound(t, fl2, op2, p)
         /\ \A drs : DraftsSound(s, drs) => DraftsSound(t, drs)
         /\ \A tl : ToldSound(s, tl) => ToldSound(t, tl)
<1>0. \A m \in Msgs : m.id \in MailIds
  BY DEF Msgs
<1>1. \A m, g : MsgSound(s, m, g) => t[m.id] = s[m.id] /\ MsgSound(t, m, g)
  BY <1>0 DEF MsgSound, SentStays
<1>2. \A me, m, g : MsgSound(s, m, g) /\ MaySee(s, me, m, g) => MaySee(t, me, m, g)
  BY <1>1 DEF MaySee
<1>3. \A me, i, r : RecSound(s, fl, op, me, i, r) => RecSound(t, fl2, op2, me, i, r)
  BY <1>1, <1>2 DEF RecSound
<1>4. \A me, e : EnvSound(s, fl, op, me, e) => EnvSound(t, fl2, op2, me, e)
  BY <1>1, <1>2 DEF EnvSound
<1>5. \A i, by, to : Hidden(s, i, by, to) => Hidden(t, i, by, to)
  BY DEF Hidden, SentStays
<1>6. \A me, dr : DraftSound(s, me, dr) => DraftSound(t, me, dr)
  BY <1>5 DEF DraftSound
<1>7. \A bx : MailsSound(s, fl, op, bx) => MailsSound(t, fl2, op2, bx)
  BY <1>3 DEF MailsSound
<1>8. \A p : PostsSound(s, fl, op, p) => PostsSound(t, fl2, op2, p)
  BY <1>4 DEF PostsSound
<1>9. \A drs : DraftsSound(s, drs) => DraftsSound(t, drs)
  BY <1>6 DEF DraftsSound
<1>10. \A tl : ToldSound(s, tl) => ToldSound(t, tl)
  BY <1>5 DEF ToldSound
<1> QED BY <1>1, <1>7, <1>8, <1>9, <1>10

\* One device's box after one of its operations.
LEMMA BoxIsOf ==
  ASSUME NEW b \in Boxes
  PROVE  b.store \in Stores /\ b = BoxOf(b.store)
BY BoxFields DEF Boxes

LEMMA OneBox ==
  ASSUME NEW s, NEW fl, NEW op, NEW bx, MailsSound(s, fl, op, bx), NEW d \in Devs, NEW st \in Stores,
         \A i \in HeldIn(st) : RecSound(s, fl, op, DevOwner[d], i, st[i])
  PROVE  MailsSound(s, fl, op, [bx EXCEPT ![d] = BoxOf(st)])
<1>1. BoxOf(st) \in Boxes /\ BoxOf(st).store = st
  BY BoxFields DEF Boxes
<1>2. bx \in [Devs -> Boxes]
  BY DEF MailsSound
<1> DEFINE new == [bx EXCEPT ![d] = BoxOf(st)]
<1>3. new \in [Devs -> Boxes] /\ \A x \in Devs : new[x] = IF x = d THEN BoxOf(st) ELSE bx[x]
  BY <1>1, <1>2
<1>4. ASSUME NEW x \in Devs, NEW i \in HeldIn(new[x].store)
      PROVE  RecSound(s, fl, op, DevOwner[x], i, new[x].store[i])
  <2>1. CASE x = d
    BY <1>1, <1>3, <1>4, <2>1
  <2>2. CASE x # d
    BY <1>3, <1>4, <2>2 DEF MailsSound
  <2> QED BY <2>1, <2>2
<1> HIDE DEF new
<1>5. MailsSound(s, fl, op, new)
  BY <1>3, <1>4 DEF MailsSound
<1> QED BY <1>5 DEF new

LEMMA PutSound ==
  ASSUME NEW s, NEW fl, NEW op, NEW bx, MailsSound(s, fl, op, bx), NEW d \in Devs, NEW i \in MailIds,
         NEW r \in Kept, RecSound(s, fl, op, DevOwner[d], i, r)
  PROVE  MailsSound(s, fl, op, [bx EXCEPT ![d] = Put(@, i, r)])
<1> DEFINE st == bx[d].store
           new == [st EXCEPT ![i] = r]
<1>1. st \in Stores /\ bx[d] = BoxOf(st)
  BY BoxIsOf DEF MailsSound
<1>2. new \in Stores /\ \A j \in MailIds : new[j] = IF j = i THEN r ELSE st[j]
  BY <1>1 DEF Stores
<1>3. \A j \in HeldIn(new) : RecSound(s, fl, op, DevOwner[d], j, new[j])
  BY <1>2 DEF HeldIn, MailsSound
<1>4. Put(bx[d], i, r) = BoxOf(new)
  BY <1>1, PutBox
<1>5. [bx EXCEPT ![d] = Put(@, i, r)] = [bx EXCEPT ![d] = BoxOf(new)]
  BY <1>4
<1> HIDE DEF new
<1> QED BY <1>2, <1>3, <1>5, OneBox

LEMMA RemoveSound ==
  ASSUME NEW s, NEW fl, NEW op, NEW bx, MailsSound(s, fl, op, bx), NEW d \in Devs, NEW i \in MailIds
  PROVE  MailsSound(s, fl, op, [bx EXCEPT ![d] = RemoveMail(@, i)])
<1> DEFINE st == bx[d].store
           new == [st EXCEPT ![i] = NoMail]
<1>1. st \in Stores /\ bx[d] = BoxOf(st)
  BY BoxIsOf DEF MailsSound
<1>2. new \in Stores /\ \A j \in MailIds : new[j] = IF j = i THEN NoMail ELSE st[j]
  BY <1>1 DEF Stores
<1>3. \A j \in HeldIn(new) : RecSound(s, fl, op, DevOwner[d], j, new[j])
  BY <1>2 DEF HeldIn, MailsSound
<1>4. RemoveMail(bx[d], i) = BoxOf(new)
  BY <1>1, RemoveBox
<1>5. [bx EXCEPT ![d] = RemoveMail(@, i)] = [bx EXCEPT ![d] = BoxOf(new)]
  BY <1>4
<1> HIDE DEF new
<1> QED BY <1>2, <1>3, <1>5, OneBox

LEMMA LoadSound ==
  ASSUME NEW s, NEW fl, NEW op, NEW bx, MailsSound(s, fl, op, bx), NEW d \in Devs
  PROVE  MailsSound(s, fl, op, [bx EXCEPT ![d] = LoadBox(@)])
<1>1. bx[d].store \in Stores /\ bx[d] = BoxOf(bx[d].store) /\ bx \in [Devs -> Boxes]
  BY BoxIsOf DEF MailsSound
<1>2. LoadBox(bx[d]) = bx[d]
  BY <1>1, LoadedBox
<1>3. [bx EXCEPT ![d] = LoadBox(@)] = bx
  BY <1>1, <1>2
<1> QED BY <1>3

LEMMA HintSound ==
  ASSUME NEW s, NEW fl, NEW op, NEW bx, MailsSound(s, fl, op, bx), NEW d \in Devs, NEW h
  PROVE  MailsSound(s, fl, op, [bx EXCEPT ![d] = ApplyHint(@, h)])
<1> DEFINE st == bx[d].store
           new == [i \in MailIds |-> IF i \in HeldIn(st) \ h.deleted THEN HintedRecord(h, i, st[i]) ELSE NoMail]
<1>1. st \in Stores /\ bx[d] = BoxOf(st)
  BY BoxIsOf DEF MailsSound
<1>2. \A i \in HeldIn(st) : i \in MailIds /\ st[i] \in Kept /\ HintedRecord(h, i, st[i]) \in Kept
  BY <1>1, KeptHinted DEF HeldIn, Stores
<1>3. new \in Stores
  BY <1>2 DEF Stores
<1>4. ASSUME NEW j \in HeldIn(new) PROVE RecSound(s, fl, op, DevOwner[d], j, new[j])
  <2>1. j \in HeldIn(st) /\ new[j] = HintedRecord(h, j, st[j])
    BY DEF HeldIn
  <2>2. RecSound(s, fl, op, DevOwner[d], j, st[j])
    BY <2>1 DEF MailsSound
  <2>3. /\ new[j].m = st[j].m /\ new[j].out = st[j].out /\ new[j].grp = st[j].grp
        /\ new[j].delivered = st[j].delivered /\ new[j].readby = st[j].readby
    BY <1>2, <2>1, KeptHinted
  <2> HIDE DEF new, st
  <2> QED BY <2>2, <2>3 DEF RecSound
<1>5. ApplyHint(bx[d], h) = BoxOf(new)
  BY <1>1, HintedBox
<1>6. [bx EXCEPT ![d] = ApplyHint(@, h)] = [bx EXCEPT ![d] = BoxOf(new)]
  BY <1>5
<1> HIDE DEF new
<1> QED BY <1>3, <1>4, <1>6, OneBox

LEMMA PostOne ==
  ASSUME NEW s, NEW fl, NEW op, NEW post, PostsSound(s, fl, op, post), NEW d, NEW g, NEW e,
         \A x \in Devs : DevOwner[x] \in g => EnvSound(s, fl, op, DevOwner[x], e)
  PROVE  PostsSound(s, fl, op, [x \in Devs |-> IF x \in ReachedBy(d, g) THEN post[x] \cup {e} ELSE post[x]])
<1> DEFINE p == [x \in Devs |-> IF x \in ReachedBy(d, g) THEN post[x] \cup {e} ELSE post[x]]
<1>1. ASSUME NEW x \in Devs, NEW f \in p[x] PROVE EnvSound(s, fl, op, DevOwner[x], f)
  BY DEF PostsSound, ReachedBy
<1> QED BY <1>1 DEF PostsSound

LEMMA TakeSound ==
  ASSUME NEW s, NEW fl, NEW op, PostsSound(s, fl, op, mpost), NEW d \in Devs, NEW e
  PROVE  PostsSound(s, fl, op, Taken(d, e))
<1> DEFINE p == [mpost EXCEPT ![d] = @ \ {e}]
<1>1. mpost = [x \in Devs |-> mpost[x]]
  BY DEF PostsSound
<1>2. p = [x \in Devs |-> p[x]] /\ \A x \in Devs : p[x] \subseteq mpost[x]
  BY <1>1
<1> HIDE DEF p
<1>3. PostsSound(s, fl, op, p)
  BY <1>2 DEF PostsSound
<1> QED BY <1>3 DEF Taken, p

\* A receipt of someone else's message: what it says is true, and a hidden
\* recipient's goes to the sender only.
LEMMA ReceiptSound ==
  ASSUME NEW s, NEW fl, NEW op, NEW post, PostsSound(s, fl, op, post), ToldSound(s, told),
         NEW d \in Devs, NEW r, NEW kind, Receipt(d, kind, r, post),
         MsgSound(s, r.m, r.grp), MaySee(s, DevOwner[d], r.m, r.grp), DevOwner[d] # r.m.from,
         \/ kind = "delivered" /\ <<DevOwner[d], r.m.id>> \in fl
         \/ kind = "opened" /\ <<DevOwner[d], r.m.id>> \in op
  PROVE  PostsSound(s, fl, op, mpost') /\ ToldSound(s, told')
<1> DEFINE e == Envelope(kind, d, r.grp, r.m)
<1>1. CASE mpost' = post /\ told' = told
  BY <1>1
<1>2. CASE /\ mpost' = [x \in Devs |-> IF x \in ReachedBy(d, r.grp) THEN post[x] \cup {e} ELSE post[x]]
           /\ told' = told \cup Learns(d, r.grp, r.m.id)
  <2>1. e.kind = kind /\ e.from = DevOwner[d] /\ e.m = r.m
    BY DEF Envelope
  <2>2. r.m.id \in MailIds /\ s[r.m.id] # NotSent /\ r.m.from = s[r.m.id].from
    BY DEF MsgSound, Msgs
  <2>3. \A x \in Devs : EnvSound(s, fl, op, DevOwner[x], e)
    <3> HIDE DEF e
    <3> QED BY <2>1, <2>2, OwnerIsAccount DEF EnvSound
  <2>4. PostsSound(s, fl, op, mpost')
    <3> HIDE DEF e
    <3> DEFINE g == r.grp
    <3> HIDE DEF g
    <3>1. \A x \in Devs : DevOwner[x] \in g => EnvSound(s, fl, op, DevOwner[x], e)
      BY <2>3
    <3>2. PostsSound(s, fl, op, [x \in Devs |-> IF x \in ReachedBy(d, g) THEN post[x] \cup {e} ELSE post[x]])
      BY <3>1, PostOne
    <3>3. mpost' = [x \in Devs |-> IF x \in ReachedBy(d, g) THEN post[x] \cup {e} ELSE post[x]]
      BY <1>2 DEF g
    <3> QED BY <3>2, <3>3
  <2>5. ASSUME NEW a \in r.grp \ {DevOwner[d]} PROVE Hidden(s, r.m.id, DevOwner[d], a)
    <3>1. CASE ~r.m.copy /\ r.grp = {r.m.from} \cup s[r.m.id].to
      BY <2>2, <3>1 DEF MaySee, Hidden
    <3>2. ASSUME NEW c, r.grp = {r.m.from, c} PROVE Hidden(s, r.m.id, DevOwner[d], a)
      BY <2>2, <3>2 DEF MaySee, Hidden
    <3> QED BY <3>1, <3>2 DEF MsgSound
  <2>6. ToldSound(s, told')
    BY <1>2, <2>5 DEF ToldSound, Learns
  <2> QED BY <2>4, <2>6
<1> QED BY <1>1, <1>2 DEF Receipt

----------------------------------------------------------------------------
(* One lemma for each operation.                                           *)

LEMMA StoredIsHeld ==
  ASSUME MailInv, NEW d \in Devs
  PROVE  /\ Stored(d) = HeldIn(mails[d].store)
         /\ \A i \in Stored(d) : /\ i \in MailIds /\ Rec(d, i) \in Kept
                                 /\ RecSound(sentAs, filed, opened, DevOwner[d], i, Rec(d, i))
<1>1. mails[d].store \in Stores /\ MailsSound(sentAs, filed, opened, mails)
  BY BoxIsOf DEF MailInv, MailsSound
<1>2. Stored(d) = HeldIn(mails[d].store)
  BY DEF Stored, HeldIn, Rec
<1> QED BY <1>1, <1>2 DEF Stores, HeldIn, Rec, MailsSound

LEMMA DraftsKeep ==
  ASSUME MailInv, csc' = csc, NEW d \in Devs,
         \/ \E l \in csc.letters : DraftNew(d, l)
         \/ \E i \in MailIds, all \in BOOLEAN : DraftReply(d, i, all)
         \/ DraftDelete(d)
  PROVE  MailInv'
<1>1. draft \in [Devs -> Drafts]
  BY DEF MailInv, DraftsSound
<1>2. mails' = mails /\ mpost' = mpost /\ sentAs' = sentAs /\ told' = told /\ filed' = filed /\ opened' = opened
  BY DEF DraftNew, DraftReply, DraftDelete
<1>3. ASSUME NEW n \in Drafts, DraftSound(sentAs, DevOwner[d], n), draft' = [draft EXCEPT ![d] = n]
      PROVE  MailInv'
  <2>1. draft' \in [Devs -> Drafts] /\ \A x \in Devs : draft'[x] = IF x = d THEN n ELSE draft[x]
    BY <1>1, <1>3
  <2>2. DraftsSound(sentAs, draft')
    BY <1>3, <2>1 DEF MailInv, DraftsSound
  <2> QED BY <1>2, <2>2 DEF MailInv
<1>4. ASSUME NEW l \in csc.letters, DraftNew(d, l) PROVE MailInv'
  <2> DEFINE n == [on |-> TRUE, to |-> l.to, bcc |-> l.bcc, re |-> 0]
  <2>1. n \in Drafts
    BY <1>4 DEF MailInv, LettersAllowed, Drafts
  <2>2. DraftSound(sentAs, DevOwner[d], n)
    BY DEF DraftSound
  <2>3. draft' = [draft EXCEPT ![d] = n]
    BY <1>4 DEF DraftNew
  <2> HIDE DEF n
  <2> QED BY <1>3, <2>1, <2>2, <2>3
<1>5. ASSUME NEW i \in MailIds, NEW all \in BOOLEAN, DraftReply(d, i, all) PROVE MailInv'
  <2> DEFINE me == DevOwner[d]
             m == Rec(d, i).m
             to == IF all THEN ReplyAllTo(m, me) ELSE ReplyTo(m)
             n == [on |-> TRUE, bcc |-> {}, re |-> i, to |-> to]
  <2>1. i \in Stored(d) /\ draft' = [draft EXCEPT ![d] = n]
    BY <1>5 DEF DraftReply
  <2>2. /\ m \in Msgs /\ MsgSound(sentAs, m, Rec(d, i).grp) /\ MaySee(sentAs, me, m, Rec(d, i).grp) /\ m.id = i
    BY <2>1, StoredIsHeld DEF RecSound, Kept
  <2>3. m.from \in Accounts /\ m.to \subseteq Accounts
    BY <2>2 DEF Msgs
  <2>4. to \subseteq Accounts
    BY <2>3 DEF ReplyAllTo, ReplyTo
  <2>5. n \in Drafts
    BY <2>4 DEF Drafts
  <2>6. ASSUME NEW a \in to PROVE Hidden(sentAs, i, me, a)
    <3>1. m.from = sentAs[i].from /\ sentAs[i] # NotSent
      BY <2>2 DEF MsgSound
    <3>2. CASE a = m.from
      BY <3>1, <3>2 DEF Hidden
    <3>3. CASE a # m.from
      <4>1. ~m.copy
        BY <3>3 DEF ReplyAllTo, ReplyTo
      <4>2. me = m.from \/ me \in sentAs[i].to
        BY <2>2, <4>1 DEF MaySee
      <4> QED BY <3>1, <4>2 DEF Hidden
    <3> QED BY <3>2, <3>3
  <2>7. DraftSound(sentAs, me, n)
    <3> HIDE DEF to
    <3> QED BY <2>6 DEF DraftSound
  <2> HIDE DEF n
  <2> QED BY <1>3, <2>1, <2>5, <2>7
<1>6. CASE DraftDelete(d)
  <2>1. NoDraft \in Drafts /\ DraftSound(sentAs, DevOwner[d], NoDraft) /\ draft' = [draft EXCEPT ![d] = NoDraft]
    BY <1>6 DEF DraftDelete, NoDraft, Drafts, DraftSound
  <2> QED BY <1>3, <2>1
<1> QED BY <1>4, <1>5, <1>6

\* The records that are filed.
LEMMA FiledIsKept ==
  ASSUME NEW e, e.m \in Msgs, e.grp \subseteq Accounts, NEW f \in Folders
  PROVE  /\ FiledAs(e, f) \in Kept /\ FiledAs(e, f).m = e.m /\ FiledAs(e, f).grp = e.grp
         /\ FiledAs(e, f).delivered = {} /\ FiledAs(e, f).readby = {}
<1> DEFINE n == NoMail
           r == [n EXCEPT !.folder = f, !.m = e.m, !.grp = e.grp]
<1>1. FiledAs(e, f) = r
  BY DEF FiledAs
<1>2. r \in Kept
  BY DEF NoMail, Kept
<1>3. r.m = e.m /\ r.grp = e.grp /\ r.delivered = {} /\ r.readby = {}
  BY DEF NoMail
<1> QED BY <1>1, <1>2, <1>3

OwnCopy(c, m, g) ==
  /\ c \in Kept /\ c.grp = g /\ c.out /\ c.delivered = {} /\ c.readby = {}
  /\ c.m \in Msgs /\ c.m.id = m.id /\ c.m.from = m.from /\ ~c.m.copy

LEMMA SentIsKept ==
  ASSUME NEW d, NEW m \in Msgs, NEW grp, grp \subseteq Accounts
  PROVE  OwnCopy(SentCopy(d, m, grp), m, grp)
<1> DEFINE k == [m EXCEPT !.copy = FALSE]
           n == NoMail
           r == [n EXCEPT !.folder = "sent", !.m = k, !.read = TRUE, !.out = TRUE, !.grp = grp]
<1>1. SentCopy(d, m, grp) = r
  BY DEF SentCopy
<1>2. k \in Msgs /\ k.id = m.id /\ k.from = m.from /\ ~k.copy
  BY DEF Msgs
<1> HIDE DEF k
<1>3. r \in Kept
  BY <1>2 DEF NoMail, Kept, Folders
<1>4. r.m = k /\ r.grp = grp /\ r.out /\ r.delivered = {} /\ r.readby = {}
  BY DEF NoMail
<1> HIDE DEF r
<1>5. OwnCopy(r, m, grp)
  BY <1>2, <1>3, <1>4 DEF OwnCopy
<1> QED BY <1>1, <1>5

LEMMA OtherCopyIsKept ==
  ASSUME NEW d, NEW e, e.m \in Msgs, e.grp \subseteq Accounts
  PROVE  LET r == [SentCopy(d, e.m, e.grp) EXCEPT !.m = e.m]
         IN r \in Kept /\ r.m = e.m /\ r.grp = e.grp /\ r.out /\ r.delivered = {} /\ r.readby = {}
<1> DEFINE c == SentCopy(d, e.m, e.grp)
<1>1. c \in Kept /\ c.grp = e.grp /\ c.out /\ c.delivered = {} /\ c.readby = {}
  <2>1. OwnCopy(c, e.m, e.grp)
    BY SentIsKept
  <2> QED BY <2>1 DEF OwnCopy
<1> HIDE DEF c
<1>2. [c EXCEPT !.m = e.m] \in Kept
  BY <1>1 DEF Kept
<1>3. LET r == [c EXCEPT !.m = e.m]
      IN r.m = e.m /\ r.grp = e.grp /\ r.out /\ r.delivered = {} /\ r.readby = {}
  BY <1>1 DEF Kept
<1> QED BY <1>2, <1>3 DEF c

LEMMA ReceiveMailKeeps ==
  ASSUME MailInv, csc' = csc, NEW d \in Devs, NEW e \in mpost[d], ReceiveMail(d, e)
  PROVE  MailInv'
<1> DEFINE me == DevOwner[d]
           s == sentAs
           i == e.m.id
<1>1. PICK f \in IF i \in Stored(d) THEN {"known"} ELSE IF e.from = me THEN {"sent"}
                 ELSE Dispose(SenderFacts(book[d], e.from), WroteTo(d, e.from)) :
       /\ mails' = CASE f \in {"known", "drop"} -> mails
                     [] f = "sent" -> [mails EXCEPT ![d] = Put(@, i, [SentCopy(d, e.m, e.grp) EXCEPT !.m = e.m])]
                     [] OTHER -> [mails EXCEPT ![d] = Put(@, i, FiledAs(e, f))]
       /\ filed' = IF f \in {"inbox", "requests"} THEN filed \cup {<<me, i>>} ELSE filed
       /\ IF f \in {"known", "drop", "sent"} \/ ~Confirms(f)
          THEN mpost' = Taken(d, e) /\ UNCHANGED <<told, cfaults>>
          ELSE Receipt(d, "delivered", FiledAs(e, f), Taken(d, e))
  BY DEF ReceiveMail
<1>2. sentAs' = s /\ opened' = opened /\ draft' = draft
  BY DEF ReceiveMail
<1>3. e.kind = "mail"
  BY DEF ReceiveMail
<1>4. MsgSound(s, e.m, e.grp) /\ MaySee(s, me, e.m, e.grp) /\ e.from = e.m.from
  <2>1. EnvSound(s, filed, opened, me, e)
    BY DEF MailInv, PostsSound
  <2> QED BY <1>3, <2>1 DEF EnvSound
<1>5. e.m \in Msgs /\ i \in MailIds /\ e.grp \subseteq Accounts
  BY <1>4 DEF MsgSound, Msgs
<1>6. f \in {"known", "sent", "drop", "inbox", "requests", "spam"}
  BY <1>1 DEF Dispose
<1>7. filed \subseteq filed' /\ SentStays(s, s)
  BY <1>1 DEF SentStays
<1>8. MailsSound(s, filed', opened, mails) /\ PostsSound(s, filed', opened, mpost) /\ DraftsSound(s, draft) /\ ToldSound(s, told)
  BY <1>7, MailStays DEF MailInv
<1>9. PostsSound(s, filed', opened, Taken(d, e))
  BY <1>8, TakeSound
<1>10. CASE f \in {"known", "drop"}
  <2>1. mails' = mails /\ mpost' = Taken(d, e) /\ told' = told
    BY <1>1, <1>10
  <2> QED BY <1>2, <1>8, <1>9, <2>1 DEF MailInv
<1>11. CASE f = "sent"
  <2> DEFINE r == [SentCopy(d, e.m, e.grp) EXCEPT !.m = e.m]
  <2>1. mails' = [mails EXCEPT ![d] = Put(@, i, r)] /\ mpost' = Taken(d, e) /\ told' = told
    BY <1>1, <1>11
  <2>2. r \in Kept /\ r.m = e.m /\ r.grp = e.grp /\ r.out /\ r.delivered = {} /\ r.readby = {}
    BY <1>5, OtherCopyIsKept
  <2> HIDE DEF r
  <2>3. RecSound(s, filed', opened, me, i, r)
    BY <1>4, <2>2 DEF RecSound
  <2>4. MailsSound(s, filed', opened, mails')
    BY <1>5, <1>8, <2>1, <2>2, <2>3, PutSound
  <2> QED BY <1>2, <1>8, <1>9, <2>1, <2>4 DEF MailInv
<1>12. CASE f \in {"inbox", "requests", "spam"}
  <2> DEFINE r == FiledAs(e, f)
  <2>1. e.from # me
    BY <1>1, <1>12
  <2>2. r \in Kept /\ r.m = e.m /\ r.grp = e.grp /\ r.delivered = {} /\ r.readby = {}
    BY <1>5, <1>12, FiledIsKept DEF Folders
  <2>3. mails' = [mails EXCEPT ![d] = Put(@, i, r)]
    BY <1>1, <1>12
  <2>4. \/ mpost' = Taken(d, e) /\ told' = told
        \/ f \in {"inbox", "requests"} /\ Receipt(d, "delivered", r, Taken(d, e))
    BY <1>1, <1>12 DEF Confirms
  <2> HIDE DEF r
  <2>5. RecSound(s, filed', opened, me, i, r)
    BY <1>4, <2>1, <2>2 DEF RecSound
  <2>6. MailsSound(s, filed', opened, mails')
    BY <1>5, <1>8, <2>2, <2>3, <2>5, PutSound
  <2>7. PostsSound(s, filed', opened, mpost') /\ ToldSound(s, told')
    <3>1. CASE mpost' = Taken(d, e) /\ told' = told
      BY <1>8, <1>9, <3>1
    <3>2. CASE f \in {"inbox", "requests"} /\ Receipt(d, "delivered", r, Taken(d, e))
      <4>1. <<me, r.m.id>> \in filed'
        BY <1>1, <2>2, <3>2
      <4>2. MsgSound(s, r.m, r.grp) /\ MaySee(s, me, r.m, r.grp) /\ me # r.m.from
        BY <1>4, <2>1, <2>2
      <4> QED BY <1>8, <1>9, <3>2, <4>1, <4>2, ReceiptSound
    <3> QED BY <2>4, <3>1, <3>2
  <2> QED BY <1>2, <1>8, <2>6, <2>7 DEF MailInv
<1> QED BY <1>6, <1>10, <1>11, <1>12

LEMMA ReceiveReceiptKeeps ==
  ASSUME MailInv, csc' = csc, NEW d \in Devs, NEW e \in mpost[d], ReceiveReceipt(d, e)
  PROVE  MailInv'
<1> DEFINE me == DevOwner[d]
           i == e.m.id
           old == Rec(d, i)
           new == IF e.kind = "delivered" THEN [old EXCEPT !.delivered = @ \cup {e.from}]
                  ELSE [old EXCEPT !.readby = @ \cup {e.from}]
<1>1. /\ e.kind \in {"delivered", "opened"} /\ mpost' = Taken(d, e)
      /\ mails' = IF old.out THEN [mails EXCEPT ![d] = Put(@, i, new)] ELSE mails
      /\ draft' = draft /\ sentAs' = sentAs /\ told' = told /\ filed' = filed /\ opened' = opened
  BY DEF ReceiveReceipt
<1>2. EnvSound(sentAs, filed, opened, me, e)
  BY DEF MailInv, PostsSound
<1>3. e.from \in Accounts /\ i \in MailIds
  BY <1>1, <1>2 DEF EnvSound
<1>4. PostsSound(sentAs, filed, opened, mpost')
  BY <1>1, TakeSound DEF MailInv
<1>5. CASE ~old.out
  BY <1>1, <1>4, <1>5 DEF MailInv
<1>6. CASE old.out
  <2>1. i \in Stored(d)
    <3>1. ~NoMail.out
      BY DEF NoMail
    <3> QED BY <1>3, <1>6, <3>1 DEF Stored
  <2>2. old \in Kept /\ RecSound(sentAs, filed, opened, me, i, old)
    BY <2>1, StoredIsHeld
  <2>3. CASE e.kind = "delivered"
    <3> DEFINE r == [old EXCEPT !.delivered = @ \cup {e.from}]
    <3>1. /\ r \in Kept /\ r.m = old.m /\ r.grp = old.grp /\ r.out = old.out
          /\ r.readby = old.readby /\ r.delivered = old.delivered \cup {e.from}
      BY <1>3, <2>2 DEF Kept
    <3>2. <<e.from, i>> \in filed
      BY <1>2, <2>3 DEF EnvSound
    <3>3. mails' = [mails EXCEPT ![d] = Put(@, i, r)]
      BY <1>1, <1>6, <2>3
    <3> HIDE DEF r
    <3>4. RecSound(sentAs, filed, opened, me, i, r)
      BY <2>2, <3>1, <3>2 DEF RecSound
    <3>5. MailsSound(sentAs, filed, opened, mails')
      BY <1>3, <3>1, <3>3, <3>4, PutSound DEF MailInv
    <3> QED BY <1>1, <1>4, <3>5 DEF MailInv
  <2>4. CASE e.kind = "opened"
    <3> DEFINE r == [old EXCEPT !.readby = @ \cup {e.from}]
    <3>1. /\ r \in Kept /\ r.m = old.m /\ r.grp = old.grp /\ r.out = old.out
          /\ r.delivered = old.delivered /\ r.readby = old.readby \cup {e.from}
      BY <1>3, <2>2 DEF Kept
    <3>2. <<e.from, i>> \in opened
      BY <1>2, <2>4 DEF EnvSound
    <3>3. mails' = [mails EXCEPT ![d] = Put(@, i, r)]
      BY <1>1, <1>6, <2>4
    <3> HIDE DEF r
    <3>4. RecSound(sentAs, filed, opened, me, i, r)
      BY <2>2, <3>1, <3>2 DEF RecSound
    <3>5. MailsSound(sentAs, filed, opened, mails')
      BY <1>3, <3>1, <3>3, <3>4, PutSound DEF MailInv
    <3> QED BY <1>1, <1>4, <3>5 DEF MailInv
  <2> QED BY <1>1, <2>3, <2>4
<1> QED BY <1>5, <1>6

LEMMA ReceiveHintKeeps ==
  ASSUME MailInv, csc' = csc, NEW d \in Devs, NEW e \in mpost[d], ReceiveHint(d, e)
  PROVE  MailInv'
<1>1. /\ mpost' = Taken(d, e) /\ mails' = [mails EXCEPT ![d] = ApplyHint(@, e.hint)]
      /\ draft' = draft /\ sentAs' = sentAs /\ told' = told /\ filed' = filed /\ opened' = opened
  BY DEF ReceiveHint
<1>2. PostsSound(sentAs, filed, opened, mpost')
  BY <1>1, TakeSound DEF MailInv
<1>3. MailsSound(sentAs, filed, opened, mails')
  BY <1>1, HintSound DEF MailInv
<1> QED BY <1>1, <1>2, <1>3 DEF MailInv

\* A record of a store with other flags.
LEMMA FlaggedIsSound ==
  ASSUME MailInv, NEW d \in Devs, NEW i \in Stored(d), NEW fl, NEW op, filed \subseteq fl, opened \subseteq op,
         NEW r, \/ \E on \in BOOLEAN : r = [Rec(d, i) EXCEPT !.read = on]
                \/ \E on \in BOOLEAN : r = [Rec(d, i) EXCEPT !.star = on]
                \/ \E f \in Folders : r = [Rec(d, i) EXCEPT !.folder = f]
  PROVE  r \in Kept /\ RecSound(sentAs, fl, op, DevOwner[d], i, r)
<1> DEFINE old == Rec(d, i)
<1>1. old \in Kept /\ RecSound(sentAs, filed, opened, DevOwner[d], i, old)
  BY StoredIsHeld
<1> HIDE DEF old
<1>2. /\ r \in Kept /\ r.m = old.m /\ r.grp = old.grp /\ r.out = old.out
      /\ r.delivered = old.delivered /\ r.readby = old.readby
  <2>1. CASE \E on \in BOOLEAN : r = [old EXCEPT !.read = on]
    BY <1>1, <2>1 DEF Kept
  <2>2. CASE \E on \in BOOLEAN : r = [old EXCEPT !.star = on]
    BY <1>1, <2>2 DEF Kept
  <2>3. CASE \E f \in Folders : r = [old EXCEPT !.folder = f]
    BY <1>1, <2>3 DEF Kept
  <2> QED BY <2>1, <2>2, <2>3 DEF old
<1> QED BY <1>1, <1>2 DEF RecSound

LEMMA MarkReadKeeps ==
  ASSUME MailInv, csc' = csc, NEW d \in Devs, NEW i \in MailIds, NEW on \in BOOLEAN, MarkRead(d, i, on)
  PROVE  MailInv'
<1> DEFINE me == DevOwner[d]
           old == Rec(d, i)
           r == [old EXCEPT !.read = on]
<1>1. /\ i \in Stored(d) /\ mails' = [mails EXCEPT ![d] = Put(@, i, r)]
      /\ opened' = IF on /\ d \in csc.receipts THEN opened \cup {<<me, i>>} ELSE opened
      /\ draft' = draft /\ sentAs' = sentAs /\ filed' = filed
      /\ \/ mpost' = mpost /\ told' = told
         \/ on /\ d \in csc.receipts /\ ~old.out /\ Receipt(d, "opened", old, mpost)
  BY DEF MarkRead, SetMail
<1>2. opened \subseteq opened' /\ SentStays(sentAs, sentAs) /\ filed \subseteq filed
  BY <1>1 DEF SentStays
<1>3. /\ MailsSound(sentAs, filed, opened', mails) /\ PostsSound(sentAs, filed, opened', mpost)
      /\ DraftsSound(sentAs, draft) /\ ToldSound(sentAs, told)
  BY <1>2, MailStays DEF MailInv
<1>4. r \in Kept /\ RecSound(sentAs, filed, opened', me, i, r)
  BY <1>1, <1>2, FlaggedIsSound
<1>5. old \in Kept /\ RecSound(sentAs, filed, opened, me, i, old)
  BY <1>1, StoredIsHeld
<1> HIDE DEF r, old
<1>6. MailsSound(sentAs, filed, opened', mails')
  BY <1>1, <1>3, <1>4, PutSound
<1>7. PostsSound(sentAs, filed, opened', mpost') /\ ToldSound(sentAs, told')
  <2>1. CASE mpost' = mpost /\ told' = told
    BY <1>3, <2>1
  <2>2. CASE on /\ d \in csc.receipts /\ ~old.out /\ Receipt(d, "opened", old, mpost)
    <3>1. old.m.id = i /\ MsgSound(sentAs, old.m, old.grp) /\ MaySee(sentAs, me, old.m, old.grp) /\ me # old.m.from
      BY <1>5, <2>2 DEF RecSound
    <3>2. <<me, old.m.id>> \in opened'
      BY <1>1, <2>2, <3>1
    <3> QED BY <1>3, <2>2, <3>1, <3>2, ReceiptSound
  <2> QED BY <1>1, <2>1, <2>2
<1> QED BY <1>1, <1>3, <1>6, <1>7 DEF MailInv

LEMMA FlagsKeep ==
  ASSUME MailInv, csc' = csc, NEW d \in Devs, NEW i \in MailIds,
         \/ \E on \in BOOLEAN : StarMail(d, i, on)
         \/ \E f \in {"inbox", "archive", "trash"} : MoveTo(d, i, f)
  PROVE  MailInv'
<1>1. /\ i \in Stored(d) /\ draft' = draft /\ sentAs' = sentAs /\ filed' = filed /\ opened' = opened
      /\ mpost' = mpost /\ told' = told
  BY DEF StarMail, MoveTo
<1>2. PICK r : /\ mails' = [mails EXCEPT ![d] = Put(@, i, r)]
               /\ \/ \E on \in BOOLEAN : r = [Rec(d, i) EXCEPT !.star = on]
                  \/ \E f \in Folders : r = [Rec(d, i) EXCEPT !.folder = f]
  <2>1. ASSUME NEW on \in BOOLEAN, StarMail(d, i, on)
        PROVE  mails' = [mails EXCEPT ![d] = Put(@, i, [Rec(d, i) EXCEPT !.star = on])]
    BY <2>1 DEF StarMail, SetMail
  <2>2. ASSUME NEW f \in {"inbox", "archive", "trash"}, MoveTo(d, i, f)
        PROVE  f \in Folders /\ mails' = [mails EXCEPT ![d] = Put(@, i, [Rec(d, i) EXCEPT !.folder = f])]
    BY <2>2 DEF MoveTo, SetMail, Folders
  <2> QED BY <2>1, <2>2
<1>3. r \in Kept /\ RecSound(sentAs, filed, opened, DevOwner[d], i, r)
  BY <1>1, <1>2, FlaggedIsSound
<1>4. MailsSound(sentAs, filed, opened, mails')
  BY <1>2, <1>3, PutSound DEF MailInv
<1> QED BY <1>1, <1>4 DEF MailInv

LEMMA RemovalsKeep ==
  ASSUME MailInv, csc' = csc, NEW d \in Devs, NEW i \in MailIds, DeleteMail(d, i) \/ Purge(d, i)
  PROVE  MailInv'
<1>1. /\ mails' = [mails EXCEPT ![d] = RemoveMail(@, i)]
      /\ draft' = draft /\ sentAs' = sentAs /\ filed' = filed /\ opened' = opened
      /\ mpost' = mpost /\ told' = told
  BY DEF DeleteMail, Purge
<1>2. MailsSound(sentAs, filed, opened, mails')
  BY <1>1, RemoveSound DEF MailInv
<1> QED BY <1>1, <1>2 DEF MailInv

LEMMA RestartMailKeeps ==
  ASSUME MailInv, csc' = csc, NEW d \in Devs, RestartMail(d)
  PROVE  MailInv'
<1>1. /\ mails' = [mails EXCEPT ![d] = LoadBox(@)]
      /\ draft' = draft /\ sentAs' = sentAs /\ filed' = filed /\ opened' = opened
      /\ mpost' = mpost /\ told' = told
  BY DEF RestartMail
<1>2. MailsSound(sentAs, filed, opened, mails')
  BY <1>1, LoadSound DEF MailInv
<1> QED BY <1>1, <1>2 DEF MailInv

LEMMA SendHintKeeps ==
  ASSUME MailInv, csc' = csc, NEW d \in Devs, SendHint(d)
  PROVE  MailInv'
<1> DEFINE g == {DevOwner[d]}
           e == [Envelope("hint", d, g, NoMail.m) EXCEPT !.hint = hint[d]]
<1>1. /\ mails' = mails /\ draft' = draft /\ sentAs' = sentAs /\ filed' = filed /\ opened' = opened /\ told' = told
      /\ \/ mpost' = [x \in Devs |-> IF x \in ReachedBy(d, g) THEN mpost[x] \cup {e} ELSE mpost[x]]
         \/ mpost' = mpost
  BY DEF SendHint
<1>2. e.kind = "hint"
  BY DEF Envelope
<1> HIDE DEF e, g
<1>3. \A x \in Devs : DevOwner[x] \in g => EnvSound(sentAs, filed, opened, DevOwner[x], e)
  BY <1>2 DEF EnvSound
<1>4. PostsSound(sentAs, filed, opened, [x \in Devs |-> IF x \in ReachedBy(d, g) THEN mpost[x] \cup {e} ELSE mpost[x]])
  <2>1. PostsSound(sentAs, filed, opened, mpost)
    BY DEF MailInv
  <2> QED BY <1>3, <2>1, PostOne
<1>5. PostsSound(sentAs, filed, opened, mpost')
  BY <1>1, <1>4 DEF MailInv
<1> QED BY <1>1, <1>5 DEF MailInv

\* The message a draft becomes, and the copies of it.
LEMMA MainIsSound ==
  ASSUME MailInv, NEW d \in Devs, NEW i \in MailIds, NEW dr \in Drafts
  PROVE  LET m == MainOf(d, i, dr)
         IN /\ m \in Msgs /\ m.id = i /\ m.from = DevOwner[d] /\ ~m.copy
            /\ CopyOf(m) \in Msgs /\ CopyOf(m).id = i /\ CopyOf(m).from = DevOwner[d] /\ CopyOf(m).copy
<1> DEFINE m == MainOf(d, i, dr)
           rt == IF dr.re \in Stored(d) THEN Rec(d, dr.re).m.root ELSE i
           to == IF dr.to = {} THEN {DevOwner[d]} ELSE dr.to
<1>1. rt \in MailIds
  BY StoredIsHeld DEF Kept, Msgs
<1>2. to \in SUBSET Accounts /\ DevOwner[d] \in Accounts /\ dr.re \in MailIds \cup {0}
  BY OwnerIsAccount DEF Drafts
<1>3. m = [id |-> i, re |-> dr.re, from |-> DevOwner[d], copy |-> FALSE, root |-> rt, to |-> to]
  BY DEF MainOf
<1> HIDE DEF rt, to
<1>4. m \in Msgs /\ m.id = i /\ m.from = DevOwner[d] /\ ~m.copy
  BY <1>1, <1>2, <1>3 DEF Msgs
<1> HIDE DEF m
<1>5. CopyOf(m) \in Msgs /\ CopyOf(m).id = i /\ CopyOf(m).from = DevOwner[d] /\ CopyOf(m).copy
  BY <1>4 DEF CopyOf, Msgs
<1> QED BY <1>4, <1>5 DEF m

LEMMA MailSendKeeps ==
  ASSUME "none" \notin Accounts, MailInv, csc' = csc, NEW d \in Devs, MailSend(d)
  PROVE  MailInv'
<1> DEFINE me == DevOwner[d]
           dr == draft[d]
           i == CHOOSE x \in Fresh : \A y \in Fresh : x <= y
           m == MainOf(d, i, dr)
           main == IF dr.to = {} THEN {} ELSE {[grp |-> GroupOf(d, dr.to), m |-> m]}
           copies == {[grp |-> GroupOf(d, {a}), m |-> CopyOf(m)] : a \in dr.bcc}
           s == sentAs
           t == sentAs'
<1>1. dr.on /\ Fresh # {} /\ t = [s EXCEPT ![i] = [from |-> me, to |-> dr.to, bcc |-> dr.bcc]]
      /\ SendBuilt(d, i, dr) /\ filed' = filed /\ opened' = opened
  BY DEF MailSend
<1>2. i \in Fresh
  <2>1. Fresh \in SUBSET Nat
    BY DEF Fresh, MailInv, LettersAllowed
  <2> QED BY <1>1, <2>1, LeastNatural
<1>3. i \in MailIds /\ s[i] = NotSent
  BY <1>2 DEF Fresh, MailInv, LettersAllowed
<1> HIDE DEF i
<1>4. dr \in Drafts /\ me \in Accounts /\ dr.to \subseteq Accounts /\ dr.bcc \subseteq Accounts /\ DraftSound(s, me, dr)
  BY OwnerIsAccount DEF MailInv, DraftsSound, Drafts
<1>5. /\ t \in [MailIds -> Sents] /\ t[i] # NotSent /\ SentStays(s, t)
      /\ t[i].from = me /\ t[i].to = dr.to /\ t[i].bcc = dr.bcc
  <2> DEFINE n == [from |-> me, to |-> dr.to, bcc |-> dr.bcc]
  <2>1. n \in Sents /\ n # NotSent /\ n.from = me /\ n.to = dr.to /\ n.bcc = dr.bcc
    BY <1>4 DEF Sents, NotSent
  <2> HIDE DEF n
  <2>2. s \in [MailIds -> Sents] /\ t = [s EXCEPT ![i] = n]
    BY <1>1 DEF MailInv, n
  <2>3. t \in [MailIds -> Sents] /\ t[i] = n /\ \A j \in MailIds : j # i => t[j] = s[j]
    BY <1>3, <2>1, <2>2
  <2> QED BY <1>3, <2>1, <2>3 DEF SentStays
<1>6. /\ MailsSound(t, filed, opened, mails) /\ PostsSound(t, filed, opened, mpost)
      /\ DraftsSound(t, draft) /\ ToldSound(t, told) /\ DraftSound(t, me, dr)
  BY <1>5, MailStays DEF MailInv, DraftsSound
<1>7. /\ m \in Msgs /\ m.id = i /\ m.from = me /\ ~m.copy
      /\ CopyOf(m) \in Msgs /\ CopyOf(m).id = i /\ CopyOf(m).from = me /\ CopyOf(m).copy
  BY <1>3, <1>4, MainIsSound
<1> HIDE DEF m
<1>8. ASSUME NEW c \in main \cup copies
      PROVE  /\ c.m \in Msgs /\ c.m.id = i /\ c.m.from = me /\ MsgSound(t, c.m, c.grp)
             /\ \A a \in c.grp : MaySee(t, a, c.m, c.grp)
             /\ me \in c.grp /\ c.grp \subseteq Accounts
             /\ c.grp = {me} \cup t[i].to \/ \E a \in Accounts : c.grp = {me, a}
             /\ dr.bcc = {} => c.grp = {me} \cup dr.to
  <2>1. CASE c \in main
    <3>1. c.m = m /\ c.grp = {me} \cup dr.to
      BY <2>1 DEF GroupOf
    <3> HIDE DEF main, copies, dr
    <3> QED BY <1>4, <1>5, <1>7, <3>1 DEF MsgSound, MaySee
  <2>2. CASE c \in copies
    <3>1. PICK a \in dr.bcc : c.m = CopyOf(m) /\ c.grp = {me} \cup {a}
      BY <2>2 DEF GroupOf
    <3>2. c.grp = {me, a} /\ a \in Accounts
      BY <1>4, <3>1
    <3> HIDE DEF main, copies, dr
    <3> QED BY <1>4, <1>5, <1>7, <3>1, <3>2 DEF MsgSound, MaySee
  <2> QED BY <2>1, <2>2
<1>9. PICK lost \in SUBSET (main \cup copies) :
        LET gone == (main \cup copies) \ lost
            ours == IF main \ lost # {} THEN main ELSE copies \ lost
        IN /\ mpost' = [x \in Devs |-> mpost[x] \cup
               {Envelope("mail", d, c.grp, c.m) : c \in {g \in gone : x \in ReachedBy(d, g.grp)}}]
           /\ told' = IF dr.re = 0 THEN told
                      ELSE told \cup UNION {Learns(d, c.grp, dr.re) : c \in gone}
           /\ IF gone = {} THEN UNCHANGED <<mails, draft>>
              ELSE /\ draft' = [draft EXCEPT ![d] = NoDraft]
                   /\ \E c \in ours : mails' = [mails EXCEPT ![d] = Put(@, i, SentCopy(d, c.m, c.grp))]
  BY <1>1 DEF SendBuilt, m
<1> DEFINE gone == (main \cup copies) \ lost
<1>10. gone \subseteq main \cup copies
  OBVIOUS
<1>11. mpost' = [x \in Devs |-> mpost[x] \cup
               {Envelope("mail", d, c.grp, c.m) : c \in {g \in gone : x \in ReachedBy(d, g.grp)}}]
  BY <1>9
<1>12. told' = IF dr.re = 0 THEN told ELSE told \cup UNION {Learns(d, c.grp, dr.re) : c \in gone}
  BY <1>9
<1>13. \/ mails' = mails /\ draft' = draft
       \/ /\ draft' = [draft EXCEPT ![d] = NoDraft]
          /\ \E c \in main \cup copies : mails' = [mails EXCEPT ![d] = Put(@, i, SentCopy(d, c.m, c.grp))]
  BY <1>9
<1> HIDE DEF gone, main, copies, dr
<1>14. PostsSound(t, filed, opened, mpost')
  <2>1. mpost' = [x \in Devs |-> mpost'[x]]
    BY <1>11
  <2>2. ASSUME NEW x \in Devs, NEW e \in mpost'[x] PROVE EnvSound(t, filed, opened, DevOwner[x], e)
    <3>1. CASE e \in mpost[x]
      BY <1>6, <3>1 DEF PostsSound
    <3>2. CASE e \notin mpost[x]
      <4>1. PICK c \in gone : x \in ReachedBy(d, c.grp) /\ e = Envelope("mail", d, c.grp, c.m)
        BY <1>11, <3>2
      <4>2. e.kind = "mail" /\ e.from = me /\ e.grp = c.grp /\ e.m = c.m
        BY <4>1 DEF Envelope
      <4>3. DevOwner[x] \in c.grp
        BY <4>1 DEF ReachedBy
      <4>4. c.m.from = me /\ MsgSound(t, c.m, c.grp) /\ MaySee(t, DevOwner[x], c.m, c.grp)
        BY <1>8, <1>10, <4>1, <4>3
      <4> QED BY <4>2, <4>4 DEF EnvSound
    <3> QED BY <3>1, <3>2
  <2> QED BY <2>1, <2>2 DEF PostsSound
<1>15. ToldSound(t, told')
  <2>1. CASE dr.re = 0
    BY <1>6, <1>12, <2>1
  <2>2. CASE dr.re # 0
    <3>1. dr.bcc = {} /\ \A a \in dr.to : Hidden(t, dr.re, me, a)
      BY <1>1, <1>6, <2>2 DEF DraftSound
    <3>2. ASSUME NEW c \in gone, NEW x \in Learns(d, c.grp, dr.re) PROVE Hidden(t, x.id, x.by, x.to)
      <4>1. c.grp = {me} \cup dr.to
        BY <1>8, <1>10, <3>1
      <4>2. PICK a \in c.grp \ {me} : x = [to |-> a, by |-> me, id |-> dr.re]
        BY DEF Learns
      <4> QED BY <3>1, <4>1, <4>2
    <3> QED BY <1>6, <1>12, <2>2, <3>2 DEF ToldSound
  <2> QED BY <2>1, <2>2
<1>16. MailsSound(t, filed, opened, mails') /\ DraftsSound(t, draft')
  <2>1. CASE mails' = mails /\ draft' = draft
    BY <1>6, <2>1
  <2>2. ASSUME draft' = [draft EXCEPT ![d] = NoDraft], NEW c \in main \cup copies,
               mails' = [mails EXCEPT ![d] = Put(@, i, SentCopy(d, c.m, c.grp))]
        PROVE  MailsSound(t, filed, opened, mails') /\ DraftsSound(t, draft')
    <3>1. NoDraft \in Drafts /\ DraftSound(t, me, NoDraft)
      BY DEF NoDraft, Drafts, DraftSound
    <3>2. draft \in [Devs -> Drafts] /\ \A x \in Devs : DraftSound(t, DevOwner[x], draft[x])
      BY <1>6 DEF DraftsSound
    <3>3. draft' \in [Devs -> Drafts] /\ \A x \in Devs : draft'[x] = IF x = d THEN NoDraft ELSE draft[x]
      BY <2>2, <3>1, <3>2
    <3>4. DraftsSound(t, draft')
      BY <3>1, <3>2, <3>3 DEF DraftsSound
    <3> DEFINE r == SentCopy(d, c.m, c.grp)
    <3>5. /\ c.m \in Msgs /\ c.m.id = i /\ c.m.from = me
          /\ me \in c.grp /\ c.grp \subseteq Accounts
          /\ c.grp = {me} \cup t[i].to \/ \E a \in Accounts : c.grp = {me, a}
      BY <1>8
    <3>6. c.m \in Msgs /\ c.grp \subseteq Accounts /\ r = SentCopy(d, c.m, c.grp)
      BY <3>5
    <3> HIDE DEF r
    <3> DEFINE n == r.m
    <3>7. /\ r \in Kept /\ r.grp = c.grp /\ r.out /\ r.delivered = {} /\ r.readby = {}
          /\ n \in Msgs /\ n.id = i /\ n.from = me /\ ~n.copy
      <4> HIDE DEF i
      <4>1. /\ r \in Kept /\ r.grp = c.grp /\ r.out /\ r.delivered = {} /\ r.readby = {}
            /\ n \in Msgs /\ n.id = c.m.id /\ n.from = c.m.from /\ ~n.copy
        <5>1. OwnCopy(r, c.m, c.grp)
          BY <3>6, SentIsKept
        <5> QED BY <5>1 DEF OwnCopy
      <4> QED BY <3>5, <4>1
    <3>8. MsgSound(t, n, c.grp) /\ MaySee(t, me, n, c.grp)
      BY <1>5, <3>5, <3>7 DEF MsgSound, MaySee
    <3>9. RecSound(t, filed, opened, me, i, r)
      BY <3>7, <3>8 DEF RecSound
    <3>10. mails' = [mails EXCEPT ![d] = Put(@, i, r)]
      BY <2>2 DEF r
    <3>11. MailsSound(t, filed, opened, mails')
      BY <1>3, <1>6, <3>7, <3>9, <3>10, PutSound
    <3> QED BY <3>4, <3>11
  <2> QED BY <1>13, <2>1, <2>2
<1> QED BY <1>1, <1>5, <1>14, <1>15, <1>16 DEF MailInv

LEMMA MailStep ==
  ASSUME "none" \notin Accounts, MailInv, [PeopleNext]_peopleVars
  PROVE  MailInv'
<1>1. CASE UNCHANGED mailVars /\ csc' = csc
  BY <1>1 DEF mailVars, MailInv
<1>2. CASE MailNext
  <2>1. csc' = csc
    BY <1>2 DEF MailNext
  <2>2. PICK d \in csc.devs : UserMail(d) \/ MailRound(d)
    BY <1>2 DEF MailNext
  <2>3. d \in Devs
    BY DEF MailInv, LettersAllowed
  <2>4. CASE UserMail(d)
    <3>1. \/ \E l \in csc.letters : DraftNew(d, l)
          \/ \E i \in MailIds, on \in BOOLEAN : DraftReply(d, i, on) \/ MarkRead(d, i, on) \/ StarMail(d, i, on)
          \/ DraftDelete(d)
          \/ \E i \in MailIds : DeleteMail(d, i)
          \/ \E i \in MailIds, f \in {"inbox", "archive", "trash"} : MoveTo(d, i, f)
      BY <2>4 DEF UserMail
    <3> QED BY <2>1, <2>3, <3>1, DraftsKeep, MarkReadKeeps, FlagsKeep, RemovalsKeep
  <2>5. CASE MailRound(d)
    <3>1. \/ MailSend(d)
          \/ \E e \in mpost[d] : ReceiveMail(d, e) \/ ReceiveReceipt(d, e) \/ ReceiveHint(d, e)
          \/ \E i \in MailIds : Purge(d, i)
          \/ SendHint(d) \/ RestartMail(d)
      BY <2>5 DEF MailRound
    <3> QED BY <2>1, <2>3, <3>1, MailSendKeeps, ReceiveMailKeeps, ReceiveReceiptKeeps, ReceiveHintKeeps,
               RemovalsKeep, SendHintKeeps, RestartMailKeeps
  <2> QED BY <2>2, <2>4, <2>5
<1>3. CASE ContactNext /\ UNCHANGED mailVars
  <2>1. csc' = csc
    <3>1. ASSUME NEW d, NEW a, Request(d, a) \/ SendCard(d, a) \/ \E on \in BOOLEAN : Respond(d, a, on)
          PROVE  csc' = csc
      BY <3>1 DEF Request, Respond, SendCard
    <3>2. \A d, a, op, r : Local(d, a, op, r) => csc' = csc
      BY DEF Local
    <3>3. ASSUME NEW d, NEW a, Remove(d, a) \/ BlockContact(d, a) \/ UnblockContact(d, a)
          PROVE  csc' = csc
      BY <3>2, <3>3 DEF Remove, BlockContact, UnblockContact
    <3>4. ASSUME NEW d, NEW a, NEW on, Mute(d, a, on) \/ Trust(d, a, on) \/ Follow(d, a, on)
          PROVE  csc' = csc
      BY <3>2, <3>4 DEF Mute, Trust, Follow
    <3>5. ASSUME NEW d, \/ \E m \in inbox[d] : HandleContact(d, m) \/ ApplySnapshot(d, m)
                       \/ SendSnapshot(d) \/ BootstrapDevice(d) \/ RestartContacts(d)
          PROVE  csc' = csc
      BY <3>5 DEF HandleContact, ApplySnapshot, SendSnapshot, BootstrapDevice, RestartContacts
    <3> QED BY <1>3, <3>1, <3>3, <3>4, <3>5 DEF ContactNext
  <2> QED BY <1>1, <1>3, <2>1
<1>4. CASE UNCHANGED peopleVars
  BY <1>1, <1>4 DEF peopleVars, contactVars
<1> QED BY <1>2, <1>3, <1>4 DEF PeopleNext

\* What the pages show of a sound box.
LEMMA PagesShowTheStore ==
  ASSUME MailInv, IsFiniteSet(MailIds)
  PROVE  MailPagesAgree
<1> SUFFICES ASSUME NEW d \in Devs
    PROVE /\ \A f \in Folders :
               /\ ListOf(d, f) = {i \in Stored(d) : Rec(d, i).folder = f}
               /\ CountOf(d, f) = Cardinality(ListOf(d, f))
          /\ \A t \in MailIds : ThreadOf(d, t) =
               {i \in Stored(d) : Rec(d, i).m.root = t /\ Rec(d, i).folder \notin {"trash", "spam"}}
          /\ StarredOf(d) = {i \in Stored(d) : Rec(d, i).star}
  BY DEF MailPagesAgree, Folders
<1> DEFINE st == mails[d].store
<1>1. st \in Stores /\ mails[d] = BoxOf(st)
  BY BoxIsOf DEF MailInv, MailsSound
<1>2. /\ Stored(d) = HeldIn(st) /\ \A i : Rec(d, i) = st[i]
      /\ \A i \in HeldIn(st) : i \in MailIds /\ st[i] \in Kept
  BY <1>1, StoredIsHeld DEF Rec
<1>3. /\ mails[d].byFolder = {<<st[i].folder, i>> : i \in HeldIn(st)}
      /\ mails[d].byThread = {<<st[i].m.root, i>> : i \in HeldIn(st)}
      /\ mails[d].index = {Entry(i, st[i]) : i \in HeldIn(st)}
  <2> HIDE DEF st
  <2> QED BY <1>1, BoxFields
<1>4. \A i : /\ Entry(i, st[i]).id = i /\ Entry(i, st[i]).folder = st[i].folder
             /\ (Entry(i, st[i]).star <=> st[i].star)
  BY DEF Entry
<1> HIDE DEF st
<1>5. \A f : ListOf(d, f) = {i \in Stored(d) : Rec(d, i).folder = f}
  BY <1>2, <1>3 DEF ListOf, HeldIn
<1>6. ASSUME NEW f PROVE CountOf(d, f) = Cardinality(ListOf(d, f))
  <2> DEFINE L == ListOf(d, f)
             X == {e \in mails[d].index : e.folder = f}
             g == [i \in L |-> Entry(i, st[i])]
  <2>1. L = {i \in HeldIn(st) : st[i].folder = f}
    BY <1>2, <1>5
  <2>2. IsFiniteSet(L)
    <3>1. L \in SUBSET MailIds
      BY <1>2, <2>1
    <3> QED BY <3>1, FS_Subset
  <2>3. g \in [L -> X] /\ \A i, j \in L : g[i] = g[j] => i = j
    BY <1>3, <1>4, <2>1
  <2>4. \A e \in X : \E i \in L : g[i] = e
    BY <1>3, <1>4, <2>1
  <2> HIDE DEF L, X, g
  <2>5. g \in Bijection(L, X)
    BY <2>3, <2>4 DEF Bijection, Injection, Surjection, IsInjective
  <2>6. Cardinality(X) = Cardinality(L)
    BY <2>2, <2>5, FS_Bijection DEF ExistsBijection
  <2> QED BY <2>6 DEF CountOf, L, X
<1>7. \A t \in MailIds : ThreadOf(d, t) =
        {i \in Stored(d) : Rec(d, i).m.root = t /\ Rec(d, i).folder \notin {"trash", "spam"}}
  <2>1. \A i \in HeldIn(st) : st[i].folder # "none"
    BY <1>2 DEF Kept, Folders
  <2> QED BY <1>2, <1>3, <2>1 DEF ThreadOf
<1>8. StarredOf(d) = {i \in Stored(d) : Rec(d, i).star}
  BY <1>2, <1>3, <1>4 DEF StarredOf
<1> QED BY <1>5, <1>6, <1>7, <1>8

(* For any devices, accounts and scenarios, and any order of sending,      *)
(* failing, receiving, confirming, answering, moving, hinting, deleting    *)
(* and restarting: nothing a hidden recipient does reaches a visible one,  *)
(* receipts are true, and the pages show the store.  (mail.rs, sdk         *)
(* mail.rs, sdk sync.rs)                                                   *)
THEOREM MailAlwaysAgrees ==
  ASSUME NEW CONSTANT scenes, MailScenarios(scenes)
  PROVE  ContactInit(scenes) /\ MailInit /\ [][PeopleNext]_peopleVars => []MailAgrees
<1>1. ContactInit(scenes) /\ MailInit => MailInv
  <2> SUFFICES ASSUME ContactInit(scenes), MailInit PROVE MailInv
    OBVIOUS
  <2>1. LettersAllowed(csc)
    BY DEF ContactInit, MailScenarios
  <2>2. sentAs \in [MailIds -> Sents]
    BY DEF MailInit, NotSent, Sents
  <2>3. MailsSound(sentAs, filed, opened, mails)
    <3>1. mails = [d \in Devs |-> EmptyBox]
      BY DEF MailInit
    <3>2. EmptyBox \in Boxes /\ HeldIn(EmptyBox.store) = {}
      BY EmptyBoxIsSound DEF HeldIn
    <3> QED BY <3>1, <3>2 DEF MailsSound
  <2>4. PostsSound(sentAs, filed, opened, mpost)
    BY DEF MailInit, PostsSound
  <2>5. DraftsSound(sentAs, draft)
    BY DEF MailInit, DraftsSound, NoDraft, Drafts, DraftSound
  <2>6. ToldSound(sentAs, told)
    BY DEF MailInit, ToldSound
  <2> QED BY <2>1, <2>2, <2>3, <2>4, <2>5, <2>6 DEF MailInv
<1>2. MailInv /\ [PeopleNext]_peopleVars => MailInv'
  BY MailStep DEF MailScenarios
<1>3. MailInv => MailAgrees
  <2> SUFFICES ASSUME MailInv PROVE MailAgrees
    OBVIOUS
  <2>1. BccStaysHidden
    BY DEF MailInv, ToldSound, Hidden, BccStaysHidden
  <2>2. ReceiptsAreTrue
    BY StoredIsHeld DEF RecSound, ReceiptsAreTrue
  <2>3. MailPagesAgree
    BY PagesShowTheStore DEF MailScenarios
  <2> QED BY <2>1, <2>2, <2>3 DEF MailAgrees
<1> QED BY <1>1, <1>2, <1>3, PTL

----------------------------------------------------------------------------
(* The mail gateway.                                                       *)

(* Sessions.                                                               *)
Sessions ==
  [phase : Phases \cup {"Logging"}, mail : Mails \cup {NoMessage}, rcpts : SUBSET Users,
   oversize : BOOLEAN, errors : Nat]

(* From RCPT on an envelope has recipients, from MAIL on a message.        *)
Enveloped(s) ==
  /\ s.phase \in {"Mail", "Rcpt", "Data", "Message", "Logging"} => s.mail \in Mails
  /\ s.phase \in {"Rcpt", "Data", "Message", "Logging"} => s.rcpts # {}

(* The queue and the round.                                                *)
InJobs == [id : Nat, mail : Mails, rcpts : (SUBSET Users) \ {{}}, attempts : Nat, due : BOOLEAN]
OutJobs == [id : Nat, native : Natives, domain : Domains, attempts : Nat, due : BOOLEAN]
Stages == {"idle", "inbound", "inSettle", "scan", "enqueue", "endScan", "outbound", "outSettle"}
Results == {"none", "ok", "partly", "permanent", "transient"}
Rounds ==
  [stage : Stages, todo : SUBSET (Nat \cup Natives), res : Results, left : SUBSET Domains,
   cur : Nat, hosts : Nat]
Scanning == worker.stage \in {"scan", "enqueue", "endScan"}

GatewayTypes ==
  /\ owed \subseteq Pairs
  /\ conn \in [Conns -> Sessions] /\ \A c \in Conns : Enveloped(conn[c])
  /\ inQueue \subseteq InJobs /\ IsFiniteSet(inQueue)
  /\ outQueue \subseteq OutJobs /\ IsFiniteSet(outQueue)
  /\ DOMAIN inLog \subseteq Mails \X Users /\ DOMAIN outLog \subseteq Natives
  /\ coming \subseteq Natives /\ filedNatives \subseteq Natives \ coming /\ cursor \in Nat
  /\ worker \in Rounds /\ (Scanning => worker.todo \subseteq filedNatives)
  /\ relayed \in [Copies -> Nat]

----------------------------------------------------------------------------
(* Threads.                                                                *)
ThreadsFit == DOMAIN thread \subseteq Mails /\ \A m \in DOMAIN thread : thread[m] = Root(m)

(* Inbound: what is logged, and what is about to be, is in the queue or    *)
(* was handled.                                                            *)
InHand(m) == (\E j \in inQueue : j.mail = m) \/ \E u \in Users : <<m, u>> \in handled

InboundFits ==
  /\ \A p \in answered \cup DOMAIN inLog : InHand(p[1])
  /\ \A c \in Conns : conn[c].phase = "Logging" => InHand(conn[c].mail)
  /\ worker.stage = "inSettle" => \E j \in inQueue : j.id \in worker.todo

(* Outbound: jobs.                                                         *)
JobsFit ==
  /\ \A i, j \in outQueue : i.id = j.id \/ (i.native = j.native /\ i.domain = j.domain) => i = j
  /\ \A j \in outQueue : j.native \in DOMAIN outLog /\ j.domain \in DomainsOf(j.native)
  /\ worker.stage = "enqueue" =>
       /\ worker.todo # {} /\ Scanned \in DOMAIN outLog
       /\ worker.left \subseteq DomainsOf(Scanned)
       /\ \A j \in outQueue : j.native = Scanned => j.domain \notin worker.left
       /\ \A a \in ExtRcpts[Scanned] : DomainOf[a] \in worker.left => relayed[<<Scanned, a>>] = 0

JustRelayed(j) ==
  worker.stage = "outSettle" /\ worker.res \in {"ok", "partly"} /\ IsNext(j, outQueue)

CopiesFit ==
  /\ \A p \in DOMAIN relayed : relayed[p] > 0 => p[1] \in DOMAIN outLog
  /\ RelayedOnce
  /\ \A j \in outQueue, a \in DOMAIN DomainOf :
       a \in RcptsAt(j.native, j.domain) =>
         relayed[<<j.native, a>>] = 0 \/ <<j.native, j.domain>> \in again \/ JustRelayed(j)
  /\ worker.stage = "outSettle" => \E j \in outQueue : j.id \in worker.todo
  /\ \A j \in outQueue : JustRelayed(j) =>
       \E a \in RcptsAt(j.native, j.domain) : relayed[<<j.native, a>>] > 0

(* Outbound: the scan.                                                     *)
Covered(n, d) ==
  \/ \E j \in outQueue : j.native = n /\ j.domain = d
  \/ <<n, d>> \in bounced
  \/ \E a \in RcptsAt(n, d) : relayed[<<n, a>>] > 0

AloneAtItsTime(n) == \A k \in Natives \ {n} : At[k] # At[n]
Passed(t) ==
  \A n \in Natives \ (coming \cup hurt) :
    AloneAtItsTime(n) /\ At[n] <= t => n \in DOMAIN outLog
Later == Natives \ (filedNatives \cup DOMAIN outLog)

LoggedAreCovered ==
  \A n \in DOMAIN outLog \ hurt : \A d \in DomainsOf(n) :
    Covered(n, d) \/ (worker.stage = "enqueue" /\ n = Scanned /\ d \in worker.left)

ScanFits ==
  /\ Passed(cursor)
  /\ \A x \in Later :
       /\ cursor < At[x] /\ (Scanning => worker.cur < At[x])
       /\ \A y \in filedNatives : At[y] < At[x]
       /\ x \notin coming => \A y \in coming : At[y] < At[x]
  /\ Scanning =>
       /\ Passed(worker.cur)
       /\ \A k \in worker.todo : cursor < At[k] /\ worker.cur <= At[k]
       /\ \A k \in filedNatives : worker.cur < At[k] => k \in worker.todo

OutboundFits == JobsFit /\ CopiesFit /\ LoggedAreCovered /\ ScanFits
GatewayInv == GatewayTypes /\ ThreadsFit /\ InboundFits /\ OutboundFits

----------------------------------------------------------------------------
(* What becomes of a session.                                              *)
SessionFits(s) == s \in Sessions /\ Enveloped(s)
ASession(p, m, r, o, e) ==
  [phase : {p}, mail : {m}, rcpts : {r}, oversize : {o}, errors : {e}]

(* A session is its five fields.                                           *)
LEMMA SessionIs ==
  ASSUME NEW s \in Sessions
  PROVE  /\ s \in ASession(s.phase, s.mail, s.rcpts, s.oversize, s.errors)
         /\ s.phase \in Phases \cup {"Logging"} /\ s.mail \in Mails \cup {NoMessage}
         /\ s.rcpts \in SUBSET Users /\ s.oversize \in BOOLEAN /\ s.errors \in Nat
BY DEF Sessions, ASession

(* A session begins and ends well formed.                                  *)
LEMMA NewSessionFits == SessionFits(NewSession) /\ SessionFits(Hangup)
BY DEF SessionFits, Sessions, Enveloped, NewSession, Hangup, Phases

(* RSET leaves a session well formed.                                      *)
LEMMA ResetFits ==
  ASSUME NEW s, SessionFits(s)
  PROVE  /\ SessionFits(ResetTransaction(s))
         /\ ResetTransaction(s).phase \in {"Connected", "Ready"}
<1>1. /\ s \in ASession(s.phase, s.mail, s.rcpts, s.oversize, s.errors)
      /\ s.oversize \in BOOLEAN /\ s.errors \in Nat
  BY SessionIs DEF SessionFits
<1>2. ResetTransaction(s) \in
        ASession(IF s.phase = "Connected" THEN "Connected" ELSE "Ready",
                   NoMessage, {}, FALSE, s.errors)
  BY <1>1 DEF ResetTransaction, ASession
<1> QED
  BY <1>1, <1>2 DEF SessionFits, Sessions, Enveloped, ASession, Phases

(* So does an error reply.                                                 *)
LEMMA ErrorFits ==
  ASSUME NEW s, SessionFits(s)
  PROVE  SessionFits(Error(s)) /\ Error(s).phase \in {s.phase, "Closed"}
<1>1. /\ s \in ASession(s.phase, s.mail, s.rcpts, s.oversize, s.errors)
      /\ s.errors \in Nat
  BY SessionIs DEF SessionFits
<1>2. [s EXCEPT !.errors = @ + 1] \in
        ASession(s.phase, s.mail, s.rcpts, s.oversize, s.errors + 1)
  BY <1>1 DEF ASession
<1>3. SessionFits([s EXCEPT !.errors = @ + 1])
  BY <1>1, <1>2 DEF SessionFits, Sessions, Enveloped, ASession
<1> QED
  BY <1>2, <1>3, NewSessionFits DEF Error, Hangup, NewSession, ASession

(* A command that is taken clears the errors.                              *)
LEMMA RecoveredFits ==
  ASSUME NEW s, SessionFits(s)
  PROVE  SessionFits(Recovered(s)) /\ Recovered(s).phase = s.phase
<1>1. s \in ASession(s.phase, s.mail, s.rcpts, s.oversize, s.errors)
  BY SessionIs DEF SessionFits
<1>2. Recovered(s) \in ASession(s.phase, s.mail, s.rcpts, s.oversize, 0)
  BY <1>1 DEF Recovered, ASession
<1> QED
  BY <1>2 DEF SessionFits, Sessions, Enveloped, ASession

(* The commands.  Only accept_message is between its job and its rows.     *)
Calm(s) == SessionFits(s) /\ s.phase # "Logging"

(* So do HELO, RSET, DATA and the lines of a message.                      *)
LEMMA CommandsFit ==
  ASSUME NEW s, Calm(s)
  PROVE  /\ Calm(Helo(s)) /\ Calm(Rset(s)) /\ Calm(DataCmd(s)) /\ Calm(OversizeLine(s))
         /\ s.phase = "Data" => Calm(Dot(s))
<1>1. s \in ASession(s.phase, s.mail, s.rcpts, s.oversize, s.errors) /\ s \in Sessions
  BY SessionIs DEF SessionFits, Calm
<1>2. SessionFits(ResetTransaction(s)) /\ ResetTransaction(s).phase \in {"Connected", "Ready"}
  BY ResetFits DEF Calm
<1>3. SessionFits(Helo(s)) /\ Helo(s).phase # "Logging"
  <2> DEFINE r == ResetTransaction(s)
             t == [r EXCEPT !.phase = "Ready"]
  <2>1. t \in ASession("Ready", r.mail, r.rcpts, r.oversize, r.errors) /\ r \in Sessions
    BY <1>2, SessionIs DEF SessionFits, ASession
  <2>2. SessionFits(t) /\ t.phase = "Ready"
    BY <2>1 DEF SessionFits, Sessions, Enveloped, ASession, Phases
  <2> QED
    BY <2>2, RecoveredFits DEF Helo
<1>4. SessionFits(Rset(s)) /\ Rset(s).phase # "Logging"
  BY <1>2, RecoveredFits DEF Rset
<1>5. SessionFits(DataCmd(s)) /\ DataCmd(s).phase # "Logging"
  <2> DEFINE t == [s EXCEPT !.phase = "Data", !.oversize = FALSE]
  <2>1. CASE s.phase # "Rcpt"
    BY <2>1, ErrorFits DEF DataCmd, Calm
  <2>2. CASE s.phase = "Rcpt"
    <3>1. t \in ASession("Data", s.mail, s.rcpts, FALSE, s.errors)
      BY <1>1 DEF ASession
    <3>2. SessionFits(t) /\ t.phase = "Data"
      BY <1>1, <2>2, <3>1 DEF Calm, SessionFits, Sessions, Enveloped, ASession, Phases
    <3> QED
      BY <2>2, <3>2, RecoveredFits DEF DataCmd
  <2> QED
    BY <2>1, <2>2
<1>6. SessionFits(OversizeLine(s)) /\ OversizeLine(s).phase # "Logging"
  <2>1. OversizeLine(s) \in ASession(s.phase, s.mail, s.rcpts, TRUE, s.errors)
    BY <1>1 DEF OversizeLine, ASession
  <2> QED
    BY <1>1, <2>1 DEF Calm, SessionFits, Sessions, Enveloped, ASession
<1>7. s.phase = "Data" => SessionFits(Dot(s)) /\ Dot(s).phase # "Logging"
  <2> SUFFICES ASSUME s.phase = "Data" PROVE SessionFits(Dot(s)) /\ Dot(s).phase # "Logging"
    OBVIOUS
  <2>1. CASE s.oversize
    BY <2>1, <1>2, ErrorFits DEF Dot
  <2>2. CASE ~s.oversize
    <3>1. Dot(s) \in ASession("Message", s.mail, s.rcpts, s.oversize, s.errors)
      BY <1>1, <2>2 DEF Dot, ASession
    <3> QED
      BY <1>1, <3>1 DEF Calm, SessionFits, Sessions, Enveloped, ASession, Phases
  <2> QED
    BY <2>1, <2>2
<1> QED
  BY <1>3, <1>4, <1>5, <1>6, <1>7 DEF Calm

(* The envelope a command builds has a message and recipients.             *)
LEMMA EnvelopeFits ==
  ASSUME NEW s, Calm(s)
  PROVE  /\ Calm(Error(s))
         /\ \A m \in Mails : Calm(MailFrom(s, m))
         /\ s.phase \in {"Mail", "Rcpt"} =>
              \A u \in Users, v \in Lookups : Calm(RecipientVerdict(s, u, v))
<1>1. s \in ASession(s.phase, s.mail, s.rcpts, s.oversize, s.errors) /\ s \in Sessions
  BY SessionIs DEF Calm, SessionFits
<1>2. ASSUME NEW m \in Mails
      PROVE  SessionFits(MailFrom(s, m)) /\ MailFrom(s, m).phase # "Logging"
  <2> DEFINE t == [s EXCEPT !.mail = m, !.rcpts = {}, !.phase = "Mail"]
  <2>1. t \in ASession("Mail", m, {}, s.oversize, s.errors)
    BY <1>1 DEF ASession
  <2>2. SessionFits(t) /\ t.phase = "Mail"
    BY <1>1, <2>1 DEF SessionFits, Sessions, Enveloped, ASession, Phases
  <2>3. SessionFits(Recovered(t)) /\ Recovered(t).phase # "Logging"
    BY <2>2, RecoveredFits
  <2> QED
    BY <2>3, ErrorFits DEF Calm, MailFrom
<1>3. ASSUME NEW u \in Users, NEW v \in Lookups, s.phase \in {"Mail", "Rcpt"}
      PROVE  /\ SessionFits(RecipientVerdict(s, u, v))
             /\ RecipientVerdict(s, u, v).phase # "Logging"
  <2> DEFINE t == [s EXCEPT !.rcpts = @ \cup {u}, !.phase = "Rcpt"]
  <2>1. t \in ASession("Rcpt", s.mail, s.rcpts \cup {u}, s.oversize, s.errors)
    BY <1>1 DEF ASession
  <2>2. SessionFits(t) /\ t.phase = "Rcpt"
    BY <1>1, <1>3, <2>1 DEF Calm, SessionFits, Sessions, Enveloped, ASession, Phases
  <2>3. SessionFits(Recovered(t)) /\ Recovered(t).phase # "Logging"
    BY <2>2, RecoveredFits
  <2> QED
    BY <2>3, RecoveredFits DEF Calm, RecipientVerdict
<1>4. Calm(Error(s))
  BY ErrorFits DEF Calm
<1> QED
  BY <1>2, <1>3, <1>4 DEF Calm

----------------------------------------------------------------------------
(* The queue table.                                                        *)
LEMMA RowIdIsFresh ==
  ASSUME inQueue \subseteq InJobs, outQueue \subseteq OutJobs,
         IsFiniteSet(inQueue), IsFiniteSet(outQueue)
  PROVE  RowId \in Nat /\ \A j \in inQueue \cup outQueue : j.id < RowId
<1> DEFINE rows == inQueue \cup outQueue
           ids == {j.id : j \in rows}
           f == [j \in rows |-> j.id]
<1>1. IsFiniteSet(rows)
  BY FS_Union
<1>2. f \in Surjection(rows, ids)
  BY DEF Surjection
<1>3. IsFiniteSet(ids)
  BY <1>1, <1>2, FS_Surjection
<1>4. ids \subseteq Nat
  BY DEF InJobs, OutJobs
<1> HIDE DEF ids
<1> DEFINE all == {0} \cup ids
<1>5. IsFiniteSet(all)
  <2>1. IsFiniteSet({0})
    BY FS_Singleton
  <2> QED
    BY <1>3, <2>1, FS_Union
<1>6. all \in SUBSET Nat /\ all # {}
  BY <1>4
<1>7. RowId = 1 + Max(all)
  BY DEF RowId, ids
<1>8. \A j \in rows : j.id \in all
  BY DEF ids
<1> HIDE DEF all
<1>9. PICK top : top = Max(all)
  OBVIOUS
<1>10. top \in Nat /\ \A y \in all : y <= top
  BY <1>5, <1>6, <1>9, GreatestIsMax
<1>11. RowId = 1 + top /\ RowId \in Nat
  BY <1>7, <1>9, <1>10
<1>12. ASSUME NEW j \in rows PROVE j.id < RowId
  <2>1. j.id \in all
    BY <1>8, <1>12
  <2>2. j.id \in Nat /\ j.id <= top
    BY <1>6, <1>10, <2>1
  <2> QED
    BY <1>10, <1>11, <2>2
<1> QED
  BY <1>11, <1>12

(* A set of rows that a round looks at has a first one.                    *)
LEMMA NextIs ==
  ASSUME NEW queue, \A j \in queue : j.id \in Nat, \E j \in queue : j.id \in worker.todo
  PROVE  \E j \in queue : IsNext(j, queue)
<1> DEFINE ids == {j.id : j \in {i \in queue : i.id \in worker.todo}}
<1>1. PICK least \in ids : \A y \in ids : least <= y
  BY LeastNatural
<1> QED
  BY <1>1 DEF IsNext

(* The inbound job at hand is the first of the round.                      *)
LEMMA InJobIs ==
  ASSUME GatewayTypes, \E j \in inQueue : j.id \in worker.todo
  PROVE  InJob \in inQueue /\ InJob \in InJobs /\ IsNext(InJob, inQueue)
<1>1. \E j \in inQueue : IsNext(j, inQueue)
  BY NextIs DEF GatewayTypes, InJobs
<1> QED
  BY <1>1 DEF InJob, GatewayTypes

(* The outbound job at hand is the first of the round.                     *)
LEMMA OutJobIs ==
  ASSUME GatewayTypes, \E j \in outQueue : j.id \in worker.todo
  PROVE  OutJob \in outQueue /\ OutJob \in OutJobs /\ IsNext(OutJob, outQueue)
<1>1. \E j \in outQueue : IsNext(j, outQueue)
  BY NextIs DEF GatewayTypes, OutJobs
<1> QED
  BY <1>1 DEF OutJob, GatewayTypes

(* A row that is put off stays the row it was.                             *)
LEMMA RescheduledIs ==
  /\ \A j \in InJobs :
       /\ Rescheduled(j) \in InJobs
       /\ Rescheduled(j).id = j.id /\ Rescheduled(j).mail = j.mail
  /\ \A j \in OutJobs :
       /\ Rescheduled(j) \in OutJobs /\ Rescheduled(j).id = j.id
       /\ Rescheduled(j).native = j.native /\ Rescheduled(j).domain = j.domain
<1>1. ASSUME NEW j \in InJobs
      PROVE  /\ Rescheduled(j) \in InJobs
             /\ Rescheduled(j).id = j.id /\ Rescheduled(j).mail = j.mail
  <2>1. PICK n : n = j.attempts + 1
    OBVIOUS
  <2>2. Rescheduled(j) \in [id : {j.id}, mail : {j.mail}, rcpts : {j.rcpts}, attempts : {n}, due : {FALSE}]
    BY <2>1 DEF Rescheduled, InJobs
  <2>3. /\ n \in Nat /\ j.id \in Nat /\ j.mail \in Mails
        /\ j.rcpts \in (SUBSET Users) \ {{}}
    BY <2>1 DEF InJobs
  <2> QED
    BY <2>2, <2>3 DEF InJobs
<1>2. ASSUME NEW j \in OutJobs
      PROVE  /\ Rescheduled(j) \in OutJobs /\ Rescheduled(j).id = j.id
             /\ Rescheduled(j).native = j.native /\ Rescheduled(j).domain = j.domain
  <2>1. PICK n : n = j.attempts + 1
    OBVIOUS
  <2>2. Rescheduled(j) \in [id : {j.id}, native : {j.native}, domain : {j.domain}, attempts : {n}, due : {FALSE}]
    BY <2>1 DEF Rescheduled, OutJobs
  <2>3. n \in Nat /\ j.id \in Nat /\ j.native \in Natives /\ j.domain \in Domains
    BY <2>1 DEF OutJobs
  <2> QED
    BY <2>2, <2>3 DEF OutJobs
<1> QED
  BY <1>1, <1>2

(* What a tick makes of a queue.                                           *)
MadeDue(queue) == {[j EXCEPT !.due = TRUE] : j \in queue}

(* A tick changes no row but in when it is due.                            *)
LEMMA MadeDueIs ==
  ASSUME NEW queue, IsFiniteSet(queue)
  PROVE  /\ IsFiniteSet(MadeDue(queue))
         /\ queue \subseteq InJobs =>
              /\ MadeDue(queue) \subseteq InJobs
              /\ \A j \in queue : \E k \in MadeDue(queue) : k.id = j.id /\ k.mail = j.mail
         /\ queue \subseteq OutJobs =>
              /\ MadeDue(queue) \subseteq OutJobs
              /\ \A j \in queue : \E k \in MadeDue(queue) :
                   k.id = j.id /\ k.native = j.native /\ k.domain = j.domain
              /\ \A k \in MadeDue(queue) : \E j \in queue :
                   /\ k.id = j.id /\ k.native = j.native /\ k.domain = j.domain
                   /\ k = [j EXCEPT !.due = TRUE]
<1> DEFINE f == [j \in queue |-> [j EXCEPT !.due = TRUE]]
<1>1. f \in Surjection(queue, MadeDue(queue))
  BY DEF Surjection, MadeDue
<1>2. IsFiniteSet(MadeDue(queue))
  BY <1>1, FS_Surjection
<1>3. ASSUME NEW j \in InJobs
      PROVE  /\ [j EXCEPT !.due = TRUE] \in InJobs
             /\ [j EXCEPT !.due = TRUE].id = j.id /\ [j EXCEPT !.due = TRUE].mail = j.mail
  BY DEF InJobs
<1>4. ASSUME NEW j \in OutJobs
      PROVE  /\ [j EXCEPT !.due = TRUE] \in OutJobs /\ [j EXCEPT !.due = TRUE].id = j.id
             /\ [j EXCEPT !.due = TRUE].native = j.native
             /\ [j EXCEPT !.due = TRUE].domain = j.domain
  BY DEF OutJobs
<1>5. queue \subseteq InJobs =>
        /\ MadeDue(queue) \subseteq InJobs
        /\ \A j \in queue : \E k \in MadeDue(queue) : k.id = j.id /\ k.mail = j.mail
  BY <1>3 DEF MadeDue
<1>6. queue \subseteq OutJobs =>
        /\ MadeDue(queue) \subseteq OutJobs
        /\ \A j \in queue : \E k \in MadeDue(queue) :
             k.id = j.id /\ k.native = j.native /\ k.domain = j.domain
        /\ \A k \in MadeDue(queue) : \E j \in queue :
             /\ k.id = j.id /\ k.native = j.native /\ k.domain = j.domain
             /\ k = [j EXCEPT !.due = TRUE]
  BY <1>4 DEF MadeDue
<1> QED
  BY <1>2, <1>5, <1>6

----------------------------------------------------------------------------
(* Threads.                                                                *)
LEMMA ThreadForIsRoot ==
  ASSUME RefsAgree, ThreadsFit, NEW m \in Mails
  PROVE  ThreadFor(m) = Root(m)
<1>1. CASE Refs[m] = <<>>
  BY <1>1 DEF ThreadFor, Root
<1>2. CASE Refs[m] # <<>>
  <2> DEFINE first == Refs[m][1]
             last == Refs[m][Len(Refs[m])]
  <2>1. Root(m) = first
    BY <1>2 DEF Root
  <2>2. \A k \in {first, last} : k \in DOMAIN thread => thread[k] = first
    <3>1. \A k \in {first, last} \cap Mails : Root(k) = Root(m)
      BY <1>2 DEF RefsAgree
    <3> QED
      BY <2>1, <3>1 DEF ThreadsFit
  <2>3. ThreadFor(m) = Get(thread, last, Get(thread, first, first))
    BY <1>2 DEF ThreadFor
  <2> QED
    BY <2>1, <2>2, <2>3 DEF Get
<1> QED
  BY <1>1, <1>2

(* So the map keeps holding roots.                                         *)
LEMMA MapThreadFits ==
  ASSUME RefsAgree, ThreadsFit, NEW m \in Mails, MapThread(m)
  PROVE  ThreadsFit'
<1>1. ThreadFor(m) = Root(m)
  BY ThreadForIsRoot
<1>2. CASE m \in DOMAIN thread
  BY <1>2 DEF MapThread, ThreadsFit, Root
<1>3. CASE m \notin DOMAIN thread
  <2>1. thread' = [x \in DOMAIN thread \cup {m} |-> IF x = m THEN Root(m) ELSE thread[x]]
    BY <1>1, <1>3 DEF MapThread, Set
  <2> QED
    BY <2>1 DEF ThreadsFit, Root
<1> QED
  BY <1>2, <1>3

----------------------------------------------------------------------------
(* The SMTP listener.                                                      *)

(* The outbound half stands on its own variables and the round.            *)
LEMMA OutboundStands ==
  ASSUME OutboundFits, UNCHANGED <<outVars, worker>>
  PROVE  OutboundFits'
<1>1. JobsFit'
  BY DEF OutboundFits, JobsFit, outVars, Scanned
<1>2. CopiesFit'
  BY DEF OutboundFits, CopiesFit, outVars, RelayedOnce, JustRelayed, IsNext
<1>3. LoggedAreCovered'
  <2>1. \A n, d : Covered(n, d) <=> Covered(n, d)'
    BY DEF outVars, Covered
  <2> QED
    BY <2>1 DEF OutboundFits, LoggedAreCovered, outVars, Scanned
<1>4. ScanFits'
  BY DEF OutboundFits, ScanFits, outVars, Passed, Later, Scanning
<1> QED
  BY <1>1, <1>2, <1>3, <1>4 DEF OutboundFits

(* What the SMTP half adds keeps what is logged and what is answered.      *)
LEMMA InboundGrows ==
  ASSUME GatewayTypes, InboundFits, NEW c \in Conns, NEW t, conn' = [conn EXCEPT ![c] = t],
         inQueue \subseteq inQueue', handled' = handled, worker' = worker,
         t.phase = "Logging" => InHand(t.mail)',
         \A p \in (answered' \cup DOMAIN inLog') \ (answered \cup DOMAIN inLog) : InHand(p[1])'
  PROVE  InboundFits'
<1>1. \A m : InHand(m) => InHand(m)'
  BY DEF InHand
<1>2. (\A p \in answered \cup DOMAIN inLog : InHand(p[1]))'
  BY <1>1 DEF InboundFits
<1>3. (\A d \in Conns : conn[d].phase = "Logging" => InHand(conn[d].mail))'
  <2> SUFFICES ASSUME NEW d \in Conns PROVE (conn[d].phase = "Logging" => InHand(conn[d].mail))'
    OBVIOUS
  <2>1. CASE d = c
    <3>1. conn'[d] = t
      BY <2>1 DEF GatewayTypes
    <3> QED
      BY <3>1 DEF InHand
  <2>2. CASE d # c
    <3>1. conn'[d] = conn[d]
      BY <2>2 DEF GatewayTypes
    <3> QED
      BY <3>1, <1>1 DEF InboundFits, InHand
  <2> QED
    BY <2>1, <2>2
<1>4. worker'.stage = "inSettle" => \E j \in inQueue' : j.id \in worker'.todo
  BY DEF InboundFits
<1> QED
  BY <1>2, <1>3, <1>4 DEF InboundFits

(* A step of one connection replaces its session.                          *)
LEMMA ConnFits ==
  ASSUME GatewayTypes, NEW c \in Conns, NEW t, SessionFits(t), conn' = [conn EXCEPT ![c] = t]
  PROVE  conn' \in [Conns -> Sessions] /\ \A d \in Conns : Enveloped(conn'[d])
<1>1. conn' \in [Conns -> Sessions]
  BY DEF GatewayTypes, SessionFits
<1>2. ASSUME NEW d \in Conns PROVE Enveloped(conn'[d])
  <2>1. CASE d = c
    BY <2>1 DEF GatewayTypes, SessionFits
  <2>2. CASE d # c
    BY <2>2 DEF GatewayTypes
  <2> QED
    BY <2>1, <2>2
<1> QED
  BY <1>1, <1>2

(* So the types hold after it.                                             *)
LEMMA SmtpTypes ==
  ASSUME GatewayTypes, NEW c \in Conns, NEW t, SessionFits(t), conn' = [conn EXCEPT ![c] = t],
         inQueue' \subseteq InJobs, IsFiniteSet(inQueue'), DOMAIN inLog' \subseteq Mails \X Users,
         owed' \subseteq owed, UNCHANGED <<outVars, worker>>
  PROVE  GatewayTypes'
<1>1. conn' \in [Conns -> Sessions] /\ \A d \in Conns : Enveloped(conn'[d])
  BY ConnFits
<1> QED
  BY <1>1 DEF GatewayTypes, outVars, Scanning

(* The commands: a session changes, and nothing but what is owed.          *)
LEMMA CommandsAre ==
  ASSUME GatewayTypes, NEW c \in Conns,
         \/ Connect(c) \/ Greet(c) \/ Reset(c) \/ StartMail(c) \/ Recipient(c) \/ Data(c)
         \/ BigLine(c) \/ EndOfData(c) \/ Disconnect(c) \/ RefuseMessage(c)
  PROVE  /\ \E t : Calm(t) /\ conn' = [conn EXCEPT ![c] = t]
         /\ owed' \subseteq owed /\ UNCHANGED <<answered, inVars, outVars, worker>>
<1> DEFINE s == conn[c]
<1>1. SessionFits(s)
  BY DEF GatewayTypes, SessionFits
<1>2. Calm(NewSession) /\ Calm(Hangup)
  BY NewSessionFits DEF Calm, NewSession, Hangup
<1>3. s.phase # "Logging" => Calm(s)
  BY <1>1 DEF Calm
<1>4. CASE Connect(c)
  BY <1>2, <1>4 DEF Connect
<1>5. CASE Greet(c)
  <2>1. Calm(Helo(s)) /\ conn' = [conn EXCEPT ![c] = Helo(s)]
    BY <1>3, <1>5, CommandsFit DEF Greet, Step
  <2> QED
    BY <1>5, <2>1 DEF Greet, Step
<1>6. CASE Reset(c)
  <2>1. Calm(Rset(s)) /\ conn' = [conn EXCEPT ![c] = Rset(s)]
    BY <1>3, <1>6, CommandsFit DEF Reset, Step
  <2> QED
    BY <1>6, <2>1 DEF Reset, Step
<1>7. CASE StartMail(c)
  <2>1. PICK m \in {p[1] : p \in owed} : Step(c, MailFrom(s, m))
    BY <1>7 DEF StartMail
  <2>2. m \in Mails
    BY <2>1 DEF GatewayTypes, Pairs
  <2>3. Calm(MailFrom(s, m))
    BY <1>3, <2>1, <2>2, EnvelopeFits DEF Step
  <2> QED
    BY <2>1, <2>3 DEF Step
<1>8. CASE Recipient(c)
  <2>1. PICK u \in Wants[s.mail] \ s.rcpts :
          /\ <<s.mail, u>> \in owed
          /\ \/ \E v \in Lookups : conn' = [conn EXCEPT ![c] = RecipientVerdict(s, u, v)]
             \/ conn' = [conn EXCEPT ![c] = Error(s)]
    BY <1>8 DEF Recipient
  <2>2. u \in Users /\ Calm(s) /\ s.phase \in {"Mail", "Rcpt"}
    BY <1>3, <1>8, <2>1 DEF Recipient, GatewayTypes, Pairs
  <2>3. Calm(Error(s)) /\ \A v \in Lookups : Calm(RecipientVerdict(s, u, v))
    BY <2>2, EnvelopeFits
  <2>4. owed' \subseteq owed
    BY <1>8 DEF Recipient
  <2> QED
    BY <1>8, <2>1, <2>3, <2>4 DEF Recipient
<1>9. CASE Data(c)
  <2>1. Calm(DataCmd(s)) /\ conn' = [conn EXCEPT ![c] = DataCmd(s)]
    BY <1>3, <1>9, CommandsFit DEF Data, Step
  <2> QED
    BY <1>9, <2>1 DEF Data, Step
<1>10. CASE BigLine(c)
  <2>1. Calm(OversizeLine(s)) /\ conn' = [conn EXCEPT ![c] = OversizeLine(s)]
    BY <1>3, <1>10, CommandsFit DEF BigLine, Step
  <2> QED
    BY <1>10, <2>1 DEF BigLine, Step
<1>11. CASE EndOfData(c)
  <2>1. Calm(Dot(s)) /\ conn' = [conn EXCEPT ![c] = Dot(s)]
    BY <1>3, <1>11, CommandsFit DEF EndOfData
  <2> QED
    BY <1>11, <2>1 DEF EndOfData
<1>12. CASE Disconnect(c)
  BY <1>2, <1>12 DEF Disconnect
<1>13. CASE RefuseMessage(c)
  <2>1. Calm(MessageVerdict(s)) /\ conn' = [conn EXCEPT ![c] = MessageVerdict(s)]
    BY <1>1, <1>13, ResetFits DEF RefuseMessage, MessageVerdict, Calm
  <2>2. owed' \subseteq owed
    BY <1>13 DEF RefuseMessage
  <2> QED
    BY <1>13, <2>1, <2>2 DEF RefuseMessage
<1> QED
  BY <1>4, <1>5, <1>6, <1>7, <1>8, <1>9, <1>10, <1>11, <1>12, <1>13

(* accept_message: the job is queued before anything says so.              *)
LEMMA AcceptsAre ==
  ASSUME GatewayTypes, ThreadsFit, InboundFits, RefsAgree, NEW c \in Conns,
         \/ AcceptDuplicate(c) \/ Enqueue(c) \/ LogAndAccept(c) \/ StoreFails(c) \/ LogFails(c)
  PROVE  GatewayTypes' /\ ThreadsFit' /\ InboundFits'
<1> DEFINE s == conn[c]
<1>1. PICK m, all : m = s.mail /\ all = s.rcpts
  OBVIOUS
<1>2. SessionFits(s) /\ s.phase \in {"Message", "Logging"} /\ m \in Mails /\ all \in (SUBSET Users) \ {{}}
  <2>1. s.phase \in {"Message", "Logging"}
    BY DEF AcceptDuplicate, Enqueue, LogAndAccept, StoreFails, LogFails
  <2>2. s \in Sessions /\ Enveloped(s)
    BY DEF GatewayTypes
  <2>3. s.rcpts \in SUBSET Users
    BY <2>2 DEF Sessions
  <2>4. m \in Mails /\ all # {}
    BY <1>1, <2>1, <2>2 DEF Enveloped
  <2>5. all \in (SUBSET Users) \ {{}}
    BY <1>1, <2>3, <2>4
  <2>6. SessionFits(s)
    BY <2>2 DEF SessionFits
  <2> QED
    BY <2>1, <2>4, <2>5, <2>6
<1>0. Calm(MessageVerdict(s))
  BY <1>2, ResetFits DEF MessageVerdict, Calm
<1>3. /\ inQueue \subseteq InJobs /\ IsFiniteSet(inQueue)
      /\ DOMAIN inLog \subseteq Mails \X Users
  BY DEF GatewayTypes
<1>5. ASSUME NEW rcpts \in SUBSET all
      PROVE  DOMAIN LogRows(m, rcpts) = DOMAIN inLog \cup {<<m, u>> : u \in rcpts}
  BY DEF LogRows
<1>6. ASSUME AcceptDuplicate(c) PROVE GatewayTypes' /\ ThreadsFit' /\ InboundFits'
  <2>1. /\ conn' = [conn EXCEPT ![c] = MessageVerdict(s)] /\ owed' \subseteq owed
        /\ UNCHANGED <<inQueue, inLog, handled, outVars, worker>> /\ MapThread(m)
        /\ answered' = answered \cup {<<m, u>> : u \in all}
    BY <1>1, <1>6 DEF AcceptDuplicate, Accepted
  <2>2. InHand(m)
    <3>1. PICK u \in Users : <<m, u>> \in DOMAIN inLog
      BY <1>1, <1>6 DEF AcceptDuplicate, InboundSeen
    <3> QED
      BY <3>1 DEF InboundFits
  <2>3. InHand(m)'
    BY <2>1, <2>2 DEF InHand
  <2>4. \A p \in (answered' \cup DOMAIN inLog') \ (answered \cup DOMAIN inLog) : InHand(p[1])'
    BY <2>1, <2>3
  <2>5. InboundFits'
    BY <2>1, <2>4, <1>0, InboundGrows DEF Calm
  <2> QED
    BY <2>1, <2>5, <1>0, <1>2, <1>3, SmtpTypes, MapThreadFits DEF Calm
<1>7. ASSUME Enqueue(c) PROVE GatewayTypes' /\ ThreadsFit' /\ InboundFits'
  <2> DEFINE t == [s EXCEPT !.phase = "Logging"]
             j == NewInJob(m, all)
  <2>1. /\ conn' = [conn EXCEPT ![c] = t] /\ owed' \subseteq owed /\ inQueue' = inQueue \cup {j}
        /\ UNCHANGED <<answered, inLog, handled, outVars, worker>> /\ MapThread(m)
    BY <1>1, <1>7 DEF Enqueue
  <2>2. SessionFits(t) /\ t.phase = "Logging" /\ t.mail = m
    <3>1. s \in ASession(s.phase, m, all, s.oversize, s.errors) /\ s \in Sessions
      BY <1>1, <1>2, SessionIs DEF SessionFits
    <3>2. t \in ASession("Logging", m, all, s.oversize, s.errors)
      BY <3>1 DEF ASession
    <3> HIDE DEF t
    <3>3. t.phase = "Logging" /\ t.mail = m /\ t.rcpts = all
      BY <3>2 DEF ASession
    <3>4. t \in Sessions
      BY <1>2, <3>1, <3>2 DEF Sessions, ASession
    <3> QED
      BY <1>2, <3>3, <3>4 DEF SessionFits, Enveloped
  <2>3. RowId \in Nat
    BY RowIdIsFresh DEF GatewayTypes
  <2>4. j \in InJobs /\ j.mail = m
    BY <1>2, <2>3 DEF NewInJob, InJobs
  <2> HIDE DEF t, j
  <2>5. inQueue' \subseteq InJobs /\ IsFiniteSet(inQueue')
    BY <1>3, <2>1, <2>4, FS_AddElement
  <2>6. InHand(m)'
    BY <2>1, <2>4 DEF InHand
  <2>7. InboundFits'
    BY <2>1, <2>2, <2>6, InboundGrows
  <2> QED
    BY <2>1, <2>2, <2>5, <2>7, <1>2, <1>3, SmtpTypes, MapThreadFits
<1>8. ASSUME LogAndAccept(c) PROVE GatewayTypes' /\ ThreadsFit' /\ InboundFits'
  <2>1. /\ conn' = [conn EXCEPT ![c] = MessageVerdict(s)] /\ owed' \subseteq owed
        /\ UNCHANGED <<inQueue, thread, handled, outVars, worker>> /\ inLog' = LogRows(m, all)
        /\ answered' = answered \cup {<<m, u>> : u \in all}
    BY <1>1, <1>8 DEF LogAndAccept, Accepted
  <2>2. InHand(m)
    BY <1>1, <1>8 DEF InboundFits, LogAndAccept
  <2>3. InHand(m)'
    BY <2>1, <2>2 DEF InHand
  <2>4. DOMAIN inLog' = DOMAIN inLog \cup {<<m, u>> : u \in all}
    BY <2>1, <1>5
  <2>5. \A p \in (answered' \cup DOMAIN inLog') \ (answered \cup DOMAIN inLog) : InHand(p[1])'
    BY <2>1, <2>3, <2>4
  <2>6. InboundFits'
    BY <2>1, <2>5, <1>0, InboundGrows DEF Calm
  <2>7. DOMAIN inLog' \subseteq Mails \X Users
    BY <1>2, <1>3, <2>4
  <2>8. ThreadsFit'
    BY <2>1 DEF ThreadsFit, Root
  <2> QED
    BY <2>1, <2>6, <2>7, <2>8, <1>0, <1>3, SmtpTypes DEF Calm
<1>9. ASSUME StoreFails(c) PROVE GatewayTypes' /\ ThreadsFit' /\ InboundFits'
  <2>1. /\ conn' = [conn EXCEPT ![c] = MessageVerdict(s)] /\ owed' \subseteq owed
        /\ UNCHANGED <<answered, inQueue, inLog, handled, outVars, worker>> /\ MapThread(m)
    BY <1>1, <1>9 DEF StoreFails
  <2>2. InboundFits'
    BY <2>1, <1>0, InboundGrows DEF Calm
  <2> QED
    BY <2>1, <2>2, <1>2, <1>0, <1>3, SmtpTypes, MapThreadFits DEF Calm
<1>10. ASSUME LogFails(c) PROVE GatewayTypes' /\ ThreadsFit' /\ InboundFits'
  <2>1. PICK some \in SUBSET all : inLog' = LogRows(m, some)
    BY <1>1, <1>10 DEF LogFails
  <2>2. /\ conn' = [conn EXCEPT ![c] = MessageVerdict(s)] /\ owed' \subseteq owed
        /\ UNCHANGED <<answered, inQueue, thread, handled, outVars, worker>>
    BY <1>1, <1>10 DEF LogFails
  <2>3. InHand(m)
    BY <1>1, <1>10 DEF InboundFits, LogFails
  <2>4. InHand(m)'
    BY <2>2, <2>3 DEF InHand
  <2>5. DOMAIN inLog' = DOMAIN inLog \cup {<<m, u>> : u \in some}
    BY <2>1, <1>5
  <2>6. \A p \in (answered' \cup DOMAIN inLog') \ (answered \cup DOMAIN inLog) : InHand(p[1])'
    BY <2>2, <2>4, <2>5
  <2>7. InboundFits'
    BY <2>2, <2>6, <1>0, InboundGrows DEF Calm
  <2>8. DOMAIN inLog' \subseteq Mails \X Users
    BY <1>2, <1>3, <2>5
  <2>9. ThreadsFit'
    BY <2>2 DEF ThreadsFit, Root
  <2> QED
    BY <2>2, <2>7, <2>8, <2>9, <1>0, <1>3, SmtpTypes DEF Calm
<1> QED
  BY <1>6, <1>7, <1>8, <1>9, <1>10

(* Every step of the listener keeps the invariant.                         *)
LEMMA SmtpKeeps ==
  ASSUME GatewayInv, RefsAgree, NEW c \in Conns, Smtp(c)
  PROVE  GatewayInv'
<1>1. CASE \/ Connect(c) \/ Greet(c) \/ Reset(c) \/ StartMail(c) \/ Recipient(c) \/ Data(c)
           \/ BigLine(c) \/ EndOfData(c) \/ Disconnect(c) \/ RefuseMessage(c)
  <2>1. PICK t : Calm(t) /\ conn' = [conn EXCEPT ![c] = t]
    BY <1>1, CommandsAre DEF GatewayInv
  <2>2. owed' \subseteq owed /\ UNCHANGED <<answered, inVars, outVars, worker>>
    BY <1>1, CommandsAre DEF GatewayInv
  <2>3. UNCHANGED <<inQueue, inLog, thread, handled>>
    BY <2>2 DEF inVars
  <2>4. InboundFits'
    BY <2>1, <2>2, <2>3, InboundGrows DEF GatewayInv, Calm
  <2>5. GatewayTypes'
    BY <2>1, <2>2, <2>3, SmtpTypes DEF GatewayInv, Calm, GatewayTypes
  <2>6. ThreadsFit'
    BY <2>3 DEF GatewayInv, ThreadsFit, Root
  <2> QED
    BY <2>2, <2>4, <2>5, <2>6, OutboundStands DEF GatewayInv
<1>2. CASE \/ AcceptDuplicate(c) \/ Enqueue(c) \/ LogAndAccept(c) \/ StoreFails(c) \/ LogFails(c)
  <2>1. UNCHANGED <<outVars, worker>>
    BY <1>2 DEF AcceptDuplicate, Enqueue, LogAndAccept, StoreFails, LogFails
  <2> QED
    BY <1>2, <2>1, AcceptsAre, OutboundStands DEF GatewayInv
<1> QED
  BY <1>1, <1>2 DEF Smtp

----------------------------------------------------------------------------
(* Rounds.                                                                 *)
ARound(st, t, r, l, c, h) ==
  [stage : {st}, todo : {t}, res : {r}, left : {l}, cur : {c}, hosts : {h}]

(* A round is its six fields.                                              *)
LEMMA RoundIs ==
  ASSUME NEW w \in Rounds
  PROVE  /\ w \in ARound(w.stage, w.todo, w.res, w.left, w.cur, w.hosts)
         /\ w.stage \in Stages /\ w.todo \in SUBSET (Nat \cup Natives) /\ w.res \in Results
         /\ w.left \in SUBSET Domains /\ w.cur \in Nat /\ w.hosts \in Nat
BY DEF Rounds, ARound

(* A round of well typed fields is well typed.                             *)
LEMMA RoundFits ==
  ASSUME NEW st \in Stages, NEW t \in SUBSET (Nat \cup Natives), NEW r \in Results,
         NEW l \in SUBSET Domains, NEW c \in Nat, NEW h \in Nat,
         NEW w \in ARound(st, t, r, l, c, h)
  PROVE  /\ w \in Rounds /\ w.stage = st /\ w.todo = t /\ w.res = r /\ w.left = l
         /\ w.cur = c /\ w.hosts = h
BY DEF Rounds, ARound

(* No round in progress.                                                   *)
LEMMA NoRoundFits == NoRound \in Rounds /\ NoRound.stage = "idle"
BY DEF NoRound, Rounds, Stages, Results

(* The message at hand is the oldest the scan still has to do.             *)
LEMMA ScannedIs ==
  ASSUME GatewayTypes, Scanning, worker.todo # {}
  PROVE  /\ Scanned \in worker.todo /\ Scanned \in Natives /\ Scanned \in filedNatives
         /\ At[Scanned] \in Nat /\ \A k \in worker.todo : At[Scanned] <= At[k]
<1> DEFINE times == {At[k] : k \in worker.todo}
<1>1. worker.todo \subseteq filedNatives /\ worker.todo \subseteq Natives
  BY DEF GatewayTypes
<1>2. times \in SUBSET Nat /\ times # {}
  BY <1>1, GatewayAssumption
<1>3. PICK least \in times : \A y \in times : least <= y
  BY <1>2, LeastNatural
<1>4. \E n \in worker.todo : \A k \in worker.todo : At[n] <= At[k]
  BY <1>3
<1>5. Scanned \in worker.todo /\ \A k \in worker.todo : At[Scanned] <= At[k]
  BY <1>4 DEF Scanned
<1> QED
  BY <1>1, <1>5, GatewayAssumption

(* A step of the worker that leaves the listener and the inbound queue.    *)
LEMMA OutboundTypes ==
  ASSUME GatewayTypes, ThreadsFit, InboundFits, UNCHANGED <<smtpVars, inVars>>,
         worker' \in Rounds, worker'.stage # "inSettle",
         Scanning' => worker'.todo \subseteq filedNatives',
         outQueue' \subseteq OutJobs, IsFiniteSet(outQueue'), DOMAIN outLog' \subseteq Natives,
         coming' \subseteq Natives, filedNatives' \subseteq Natives \ coming',
         cursor' \in Nat, relayed' \in [Copies -> Nat]
  PROVE  GatewayTypes' /\ ThreadsFit' /\ InboundFits'
<1>1. GatewayTypes'
  BY DEF GatewayTypes, smtpVars, inVars
<1>2. ThreadsFit'
  BY DEF ThreadsFit, inVars, Root
<1>3. InboundFits'
  BY DEF InboundFits, InHand, smtpVars, inVars
<1> QED
  BY <1>1, <1>2, <1>3

----------------------------------------------------------------------------
(* What a step leaves of the outbound half.                                *)
LEMMA JobsStand ==
  ASSUME JobsFit, outQueue' = outQueue, DOMAIN outLog \subseteq DOMAIN outLog',
         worker'.stage # "enqueue"
  PROVE  JobsFit'
BY DEF JobsFit

(* The copies sent, once no transfer is waiting for its record.            *)
LEMMA CopiesStand ==
  ASSUME CopiesFit, UNCHANGED <<relayed, outQueue>>, DOMAIN outLog \subseteq DOMAIN outLog',
         again \subseteq again', worker'.stage # "outSettle",
         \A j \in outQueue : JustRelayed(j) => <<j.native, j.domain>> \in again'
  PROVE  CopiesFit'
<1>1. RelayedOnce'
  BY DEF CopiesFit, RelayedOnce
<1>2. \A j \in outQueue : ~JustRelayed(j)'
  BY DEF JustRelayed
<1> QED
  BY <1>1, <1>2 DEF CopiesFit

(* A logged message stays covered as long as each domain does.             *)
LEMMA CoverPasses ==
  ASSUME LoggedAreCovered, DOMAIN outLog' \subseteq Natives, hurt \subseteq hurt',
         \A n \in Natives : \A d : Covered(n, d) \/ <<n, d>> \in bounced' => Covered(n, d)',
         worker'.stage # "enqueue",
         \A n \in DOMAIN outLog' \ hurt' :
           \/ n \in DOMAIN outLog /\ (worker.stage = "enqueue" /\ n = Scanned => worker.left = {})
           \/ \A d \in DomainsOf(n) : <<n, d>> \in bounced'
  PROVE  LoggedAreCovered'
<1>1. ASSUME NEW n \in DOMAIN outLog' \ hurt', NEW d \in DomainsOf(n)
      PROVE  Covered(n, d)'
  BY <1>1 DEF LoggedAreCovered
<1> QED
  BY <1>1 DEF LoggedAreCovered

(* The same, when neither the queue nor the copies change.                 *)
LEMMA CoverStands ==
  ASSUME LoggedAreCovered, DOMAIN outLog' \subseteq Natives, hurt \subseteq hurt',
         UNCHANGED <<relayed, outQueue>>, bounced \subseteq bounced', worker'.stage # "enqueue",
         \A n \in DOMAIN outLog' \ hurt' :
           \/ n \in DOMAIN outLog /\ (worker.stage = "enqueue" /\ n = Scanned => worker.left = {})
           \/ \A d \in DomainsOf(n) : <<n, d>> \in bounced'
  PROVE  LoggedAreCovered'
<1>1. \A n, d : Covered(n, d) \/ <<n, d>> \in bounced' => Covered(n, d)'
  BY DEF Covered
<1> QED
  BY <1>1, CoverPasses

(* The scan, once it is over.                                              *)
LEMMA ScanRests ==
  ASSUME ScanFits, UNCHANGED <<cursor, coming, filedNatives>>,
         DOMAIN outLog \subseteq DOMAIN outLog', hurt \subseteq hurt', ~Scanning'
  PROVE  ScanFits'
BY DEF ScanFits, Passed, Later

(* The scan, while it stays at a message.                                  *)
LEMMA ScanStays ==
  ASSUME ScanFits, UNCHANGED <<cursor, coming, filedNatives>>,
         DOMAIN outLog \subseteq DOMAIN outLog', hurt \subseteq hurt', Scanning,
         worker'.todo = worker.todo, worker'.cur = worker.cur
  PROVE  ScanFits'
BY DEF ScanFits, Passed, Later

(* The scan goes past a message.                                           *)
LEMMA ScanAdvances ==
  ASSUME GatewayTypes, ScanFits, NEW s, s = Scanned, UNCHANGED <<cursor, coming>>,
         Scanning, worker.todo # {}, worker'.todo = worker.todo \ {s}, worker'.cur = At[s],
         DOMAIN outLog \subseteq DOMAIN outLog', hurt \subseteq hurt',
         filedNatives' \subseteq filedNatives, filedNatives \ filedNatives' \subseteq {s},
         s \in filedNatives' \/ s \in DOMAIN outLog',
         s \in DOMAIN outLog' \/ s \in hurt'
  PROVE  ScanFits'
<1>1. /\ s \in worker.todo /\ s \in Natives /\ s \in filedNatives /\ At[s] \in Nat
      /\ \A k \in worker.todo : At[s] <= At[k]
  BY ScannedIs
<1>2. /\ \A n \in Natives : At[n] \in Nat
      /\ worker.cur \in Nat /\ cursor \in Nat /\ filedNatives \subseteq Natives
      /\ worker.todo \subseteq filedNatives
  BY GatewayAssumption, RoundIs DEF GatewayTypes
<1>3. Later' \subseteq Later
  BY DEF Later
<1>4. Passed(cursor)'
  BY DEF ScanFits, Passed
<1>5. ASSUME NEW n \in Natives \ (coming \cup hurt'), AloneAtItsTime(n), At[n] <= At[s]
      PROVE  n \in DOMAIN outLog'
  <2>1. CASE At[n] <= worker.cur
    BY <1>5, <2>1 DEF ScanFits, Passed
  <2>2. CASE ~(At[n] <= worker.cur)
    <3>1. CASE n \in filedNatives
      <4>1. n \in worker.todo
        BY <1>2, <2>2, <3>1 DEF ScanFits
      <4>2. At[n] = At[s]
        BY <1>1, <1>2, <1>5, <4>1
      <4>3. n = s
        BY <1>1, <1>5, <4>2 DEF AloneAtItsTime
      <4> QED
        BY <1>5, <4>3
    <3>2. CASE n \notin filedNatives
      <4>1. CASE n \in DOMAIN outLog
        BY <4>1
      <4>2. CASE n \notin DOMAIN outLog
        <5>1. n \in Later
          BY <1>5, <3>2, <4>2 DEF Later
        <5>2. At[s] < At[n]
          BY <1>1, <5>1 DEF ScanFits
        <5> QED
          BY <1>1, <1>2, <1>5, <5>2
      <4> QED
        BY <4>1, <4>2
    <3> QED
      BY <3>1, <3>2
  <2> QED
    BY <2>1, <2>2
<1>6. Passed(worker.cur)'
  BY <1>5 DEF Passed, AloneAtItsTime
<1>7. \A x \in Later' :
        /\ cursor' < At[x] /\ worker'.cur < At[x]
        /\ \A y \in filedNatives' : At[y] < At[x]
        /\ x \notin coming' => \A y \in coming' : At[y] < At[x]
  BY <1>1, <1>3 DEF ScanFits
<1>8. \A k \in worker'.todo : cursor' < At[k] /\ worker'.cur <= At[k]
  BY <1>1 DEF ScanFits
<1>9. \A k \in filedNatives' : worker'.cur < At[k] => k \in worker'.todo
  <2> SUFFICES ASSUME NEW k \in filedNatives', At[s] < At[k] PROVE k \in worker.todo /\ k # s
    OBVIOUS
  <2>1. worker.cur <= At[s]
    BY <1>1 DEF ScanFits
  <2>2. worker.cur < At[k] /\ k # s
    BY <1>1, <1>2, <2>1
  <2> QED
    BY <2>2 DEF ScanFits
<1> QED
  BY <1>4, <1>6, <1>7, <1>8, <1>9 DEF ScanFits

----------------------------------------------------------------------------
(* The inbound queue.                                                      *)

(* The outbound half while the worker is at the inbound queue.             *)
LEMMA OutboundRests ==
  ASSUME GatewayTypes, OutboundFits, UNCHANGED outVars,
         worker.stage \notin {"outSettle", "enqueue"},
         worker'.stage \notin {"outSettle", "enqueue", "scan", "endScan"}
  PROVE  OutboundFits'
<1>1. UNCHANGED <<coming, filedNatives, cursor, outQueue, outLog, relayed, bounced, hurt, again>>
  BY DEF outVars
<1>2. JobsFit'
  BY <1>1, JobsStand DEF OutboundFits
<1>3. CopiesFit'
  BY <1>1, CopiesStand DEF OutboundFits, JustRelayed
<1>4. LoggedAreCovered'
  BY <1>1, CoverStands DEF GatewayTypes, OutboundFits
<1>5. ScanFits'
  BY <1>1, ScanRests DEF OutboundFits, Scanning
<1> QED
  BY <1>2, <1>3, <1>4, <1>5 DEF OutboundFits

(* What the inbound steps of the worker keep.                              *)
LEMMA InboundTypes ==
  ASSUME GatewayTypes, UNCHANGED <<smtpVars, outVars>>, worker' \in Rounds, ~Scanning',
         inQueue' \subseteq InJobs, IsFiniteSet(inQueue'), DOMAIN inLog' = DOMAIN inLog
  PROVE  GatewayTypes'
BY DEF GatewayTypes, smtpVars, outVars

(* try_deliver_inbound.                                                    *)
LEMMA DeliverInboundKeeps ==
  ASSUME GatewayInv, DeliverInbound
  PROVE  GatewayInv'
<1>1. PICK res \in {"ok", "permanent", "transient"}, some \in SUBSET InJob.rcpts :
        /\ handled' = handled \cup {<<InJob.mail, u>> : u \in some}
        /\ worker' = [worker EXCEPT !.stage = "inSettle", !.res = res]
  BY DEF DeliverInbound
<1>2. worker' \in Rounds /\ worker'.stage = "inSettle" /\ worker'.todo = worker.todo
  <2>1. worker \in Rounds /\ "inSettle" \in Stages /\ res \in Results
    BY DEF GatewayInv, GatewayTypes, Stages, Results
  <2>2. worker' \in ARound("inSettle", worker.todo, res, worker.left, worker.cur, worker.hosts)
    BY <1>1, <2>1 DEF Rounds, ARound
  <2> QED
    BY <2>1, <2>2, RoundIs, RoundFits
<1>3. UNCHANGED <<smtpVars, inQueue, inLog, thread, outVars>>
  BY DEF DeliverInbound
<1>4. GatewayTypes'
  BY <1>2, <1>3, InboundTypes DEF GatewayInv, GatewayTypes, Scanning
<1>5. InboundFits'
  <2>1. \A m : InHand(m) => InHand(m)'
    BY <1>1, <1>3 DEF InHand
  <2>2. \E j \in inQueue : j.id \in worker.todo
    BY DEF DeliverInbound
  <2> QED
    BY <1>2, <1>3, <2>1, <2>2 DEF GatewayInv, InboundFits, smtpVars
<1>6. OutboundFits'
  BY <1>2, <1>3, OutboundRests DEF GatewayInv, DeliverInbound
<1>7. ThreadsFit'
  BY <1>3 DEF GatewayInv, ThreadsFit, Root
<1> QED
  BY <1>4, <1>5, <1>6, <1>7 DEF GatewayInv

(* The round goes on to the next inbound job.                              *)
LEMMA NextInFits ==
  ASSUME GatewayTypes, NextIn
  PROVE  worker' \in Rounds /\ worker'.stage = "inbound"
<1>1. worker \in Rounds /\ "inbound" \in Stages /\ "none" \in Results
  BY DEF GatewayTypes, Stages, Results
<1>2. worker.todo \ {InJob.id} \in SUBSET (Nat \cup Natives)
  BY <1>1, RoundIs
<1> DEFINE t == worker.todo \ {InJob.id}
<1>3. worker' = [worker EXCEPT !.stage = "inbound", !.res = "none", !.todo = t]
  BY DEF NextIn
<1> HIDE DEF t
<1>4. worker' \in ARound("inbound", t, "none", worker.left, worker.cur, worker.hosts)
  BY <1>1, <1>2, <1>3 DEF Rounds, ARound, t
<1> QED
  BY <1>1, <1>2, <1>4, RoundIs, RoundFits DEF t

(* deliver_inbound: a job leaves the queue only when it was handled.       *)
LEMMA SettleInboundKeeps ==
  ASSUME GatewayInv, SettleInbound \/ SettleInboundFails
  PROVE  GatewayInv'
<1>1. UNCHANGED <<smtpVars, thread, outVars>> /\ worker.stage = "inSettle"
  BY DEF SettleInbound, SettleInboundFails, inVars
<1>2. worker' \in Rounds /\ worker'.stage = "inbound"
  BY NextInFits DEF GatewayInv, SettleInbound, SettleInboundFails
<1>3. OutboundFits'
  BY <1>1, <1>2, OutboundRests DEF GatewayInv
<1>4. ThreadsFit'
  BY <1>1 DEF GatewayInv, ThreadsFit, Root
<1>5. PICK j : j = InJob
  OBVIOUS
<1>6. j \in inQueue /\ j \in InJobs
  BY <1>1, <1>5, InJobIs DEF GatewayInv, InboundFits
<1>7. /\ inQueue' \subseteq InJobs /\ IsFiniteSet(inQueue') /\ DOMAIN inLog' = DOMAIN inLog
      /\ \A m : InHand(m) => InHand(m)'
  <2>1. CASE UNCHANGED <<inQueue, inLog, handled>>
    BY <2>1 DEF GatewayInv, GatewayTypes, InHand
  <2>2. CASE SettleInbound
    <3> DEFINE again_ == worker.res = "transient" /\ j.attempts + 1 < MaxAttempts
               rest == inQueue \ {j}
    <3>1. IsFiniteSet(rest) /\ rest \subseteq InJobs
      BY FS_Subset DEF GatewayInv, GatewayTypes
    <3>2. DOMAIN inLog' = DOMAIN inLog
      BY <2>2 DEF SettleInbound, InboundSettled, SetInboundStatus
    <3>3. CASE again_
      <4>1. inQueue' = rest \cup {Rescheduled(j)} /\ handled' = handled
        BY <1>5, <2>2, <3>3 DEF SettleInbound, InboundSettled
      <4>2. Rescheduled(j) \in InJobs /\ Rescheduled(j).mail = j.mail
        BY <1>6, RescheduledIs
      <4>3. IsFiniteSet(inQueue') /\ inQueue' \subseteq InJobs
        BY <3>1, <4>1, <4>2, FS_AddElement
      <4>4. ASSUME NEW m, InHand(m) PROVE InHand(m)'
        <5>1. CASE \E u \in Users : <<m, u>> \in handled
          BY <4>1, <5>1 DEF InHand
        <5>2. CASE \E i \in inQueue : i.mail = m
          <6>1. PICK i \in inQueue : i.mail = m
            BY <5>2
          <6>2. CASE i = j
            BY <4>1, <4>2, <6>1, <6>2 DEF InHand
          <6>3. CASE i # j
            BY <4>1, <6>1, <6>3 DEF InHand
          <6> QED
            BY <6>2, <6>3
        <5> QED
          BY <4>4, <5>1, <5>2 DEF InHand
      <4> QED
        BY <3>2, <4>3, <4>4
    <3>4. CASE ~again_
      <4>1. inQueue' = rest /\ handled' = handled \cup {<<j.mail, u>> : u \in j.rcpts}
        BY <1>5, <2>2, <3>4 DEF SettleInbound, InboundSettled
      <4>2. PICK u \in Users : u \in j.rcpts
        BY <1>6 DEF InJobs
      <4>3. ASSUME NEW m, InHand(m) PROVE InHand(m)'
        <5>1. CASE \E v \in Users : <<m, v>> \in handled
          BY <4>1, <5>1 DEF InHand
        <5>2. CASE \E i \in inQueue : i.mail = m
          <6>1. PICK i \in inQueue : i.mail = m
            BY <5>2
          <6>2. CASE i = j
            BY <4>1, <4>2, <6>1, <6>2 DEF InHand
          <6>3. CASE i # j
            BY <4>1, <6>1, <6>3 DEF InHand
          <6> QED
            BY <6>2, <6>3
        <5> QED
          BY <4>3, <5>1, <5>2 DEF InHand
      <4> QED
        BY <3>1, <3>2, <4>1, <4>3
    <3> QED
      BY <3>3, <3>4
  <2> QED
    BY <2>1, <2>2 DEF SettleInboundFails, inVars
<1>8. GatewayTypes'
  BY <1>1, <1>2, <1>7, InboundTypes DEF GatewayInv, Scanning
<1>9. InboundFits'
  BY <1>1, <1>2, <1>7 DEF GatewayInv, InboundFits, smtpVars
<1> QED
  BY <1>3, <1>4, <1>8, <1>9 DEF GatewayInv

----------------------------------------------------------------------------
(* The scan.                                                               *)
LEMMA StartRoundKeeps ==
  ASSUME GatewayInv, StartRound
  PROVE  GatewayInv'
<1>1. PICK new \in SUBSET coming :
        /\ \A x \in new, y \in coming \ new : At[x] < At[y]
        /\ filedNatives' = filedNatives \cup new /\ coming' = coming \ new
  BY DEF StartRound
<1>2. /\ UNCHANGED <<smtpVars, inVars, cursor, outQueue, outLog, relayed, bounced, hurt, again>>
      /\ worker.stage = "idle"
  BY DEF StartRound
<1>3. worker' \in Rounds /\ worker'.stage = "inbound"
  <2> DEFINE t == {j.id : j \in {i \in inQueue : i.due}}
  <2>1. t \in SUBSET (Nat \cup Natives)
    BY DEF GatewayInv, GatewayTypes, InJobs
  <2>2. worker' = [NoRound EXCEPT !.stage = "inbound", !.todo = t]
    BY DEF StartRound
  <2> HIDE DEF t
  <2>3. NoRound \in Rounds /\ "inbound" \in Stages
    BY NoRoundFits DEF Stages
  <2>4. worker' \in ARound("inbound", t, NoRound.res, NoRound.left, NoRound.cur, NoRound.hosts)
    BY <2>1, <2>2, <2>3 DEF Rounds, ARound
  <2> QED
    BY <2>1, <2>3, <2>4, RoundIs, RoundFits
<1>4. coming' \subseteq Natives /\ filedNatives' \subseteq Natives \ coming'
  BY <1>1 DEF GatewayInv, GatewayTypes
<1>5. GatewayTypes' /\ ThreadsFit' /\ InboundFits'
  BY <1>2, <1>3, <1>4, OutboundTypes DEF GatewayInv, GatewayTypes, Scanning
<1>6. JobsFit'
  BY <1>2, <1>3, JobsStand DEF GatewayInv, OutboundFits
<1>7. CopiesFit'
  BY <1>2, <1>3, CopiesStand DEF GatewayInv, OutboundFits, JustRelayed
<1>8. LoggedAreCovered'
  BY <1>2, <1>3, CoverStands DEF GatewayInv, GatewayTypes, OutboundFits
<1>9. ScanFits'
  <2>1. ScanFits /\ ~Scanning' /\ \A n \in Natives : At[n] \in Nat
    BY <1>3, GatewayAssumption DEF GatewayInv, OutboundFits, Scanning
  <2>2. cursor \in Nat /\ coming \subseteq Natives /\ filedNatives \subseteq Natives
    BY DEF GatewayInv, GatewayTypes
  <2>3. Passed(cursor)'
    <3>1. ASSUME NEW n \in Natives \ (coming' \cup hurt'), AloneAtItsTime(n), At[n] <= cursor
          PROVE  n \in DOMAIN outLog
      <4>1. CASE n \in new
        <5>1. n \in Later => cursor < At[n]
          BY <2>1 DEF ScanFits
        <5>2. n \notin filedNatives
          BY <1>1, <4>1 DEF GatewayInv, GatewayTypes
        <5>3. n \notin Later
          BY <5>1, <3>1, <2>1, <2>2
        <5> QED
          BY <5>2, <5>3, <3>1 DEF Later
      <4>2. CASE n \notin new
        BY <1>1, <1>2, <2>1, <3>1, <4>2 DEF ScanFits, Passed
      <4> QED
        BY <4>1, <4>2
    <3> QED
      BY <1>2, <3>1 DEF Passed, AloneAtItsTime
  <2>4. Later' \subseteq Later \ new
    BY <1>1, <1>2 DEF Later
  <2>5. ASSUME NEW x \in Later'
        PROVE  /\ cursor < At[x]
               /\ \A y \in filedNatives' : At[y] < At[x]
               /\ x \notin coming' => \A y \in coming' : At[y] < At[x]
    <3>1. ASSUME NEW y \in new PROVE At[y] < At[x]
      <4>1. CASE x \in coming
        BY <1>1, <2>4, <2>5, <3>1, <4>1
      <4>2. CASE x \notin coming
        BY <2>1, <2>4, <2>5, <3>1, <4>2 DEF ScanFits
      <4> QED
        BY <4>1, <4>2
    <3> QED
      BY <1>1, <2>1, <2>4, <2>5, <3>1 DEF ScanFits
  <2> QED
    BY <1>2, <2>1, <2>3, <2>5 DEF ScanFits
<1> QED
  BY <1>5, <1>6, <1>7, <1>8, <1>9 DEF GatewayInv, OutboundFits

(* scan_inbox begins with everything newer than the cursor.                *)
LEMMA StartScanKeeps ==
  ASSUME GatewayInv, StartScan
  PROVE  GatewayInv'
<1> DEFINE t == {n \in filedNatives : At[n] > cursor}
<1>1. UNCHANGED <<smtpVars, inVars, outVars>> /\ worker.stage = "inbound"
  BY DEF StartScan
<1>2. UNCHANGED <<coming, filedNatives, cursor, outQueue, outLog, relayed, bounced, hurt, again>>
  BY <1>1 DEF outVars
<1>3. /\ worker' \in Rounds /\ worker'.stage = "scan" /\ worker'.todo = t
      /\ worker'.cur = cursor
  <2>1. t \in SUBSET (Nat \cup Natives) /\ worker \in Rounds /\ cursor \in Nat /\ "scan" \in Stages
    BY DEF GatewayInv, GatewayTypes, Stages
  <2>2. worker' = [worker EXCEPT !.stage = "scan", !.cur = cursor, !.todo = t]
    BY DEF StartScan
  <2> HIDE DEF t
  <2>3. worker' \in ARound("scan", t, worker.res, worker.left, cursor, worker.hosts)
    BY <2>1, <2>2 DEF Rounds, ARound
  <2> QED
    BY <2>1, <2>3, RoundIs, RoundFits
<1>4. GatewayTypes' /\ ThreadsFit' /\ InboundFits'
  BY <1>1, <1>2, <1>3, OutboundTypes DEF GatewayInv, GatewayTypes
<1>5. JobsFit'
  BY <1>2, <1>3, JobsStand DEF GatewayInv, OutboundFits
<1>6. CopiesFit'
  BY <1>1, <1>2, <1>3, CopiesStand DEF GatewayInv, OutboundFits, JustRelayed
<1>7. LoggedAreCovered'
  BY <1>1, <1>2, <1>3, CoverStands DEF GatewayInv, GatewayTypes, OutboundFits
<1>8. ScanFits'
  <2>1. ScanFits /\ (\A n \in Natives : At[n] \in Nat) /\ cursor \in Nat /\ filedNatives \subseteq Natives
    BY GatewayAssumption DEF GatewayInv, OutboundFits, GatewayTypes
  <2>2. Passed(cursor)' /\ Passed(worker.cur)'
    BY <1>2, <1>3, <2>1 DEF ScanFits, Passed
  <2>3. Later' = Later
    BY <1>2 DEF Later
  <2> QED
    BY <1>2, <1>3, <2>1, <2>2, <2>3 DEF ScanFits
<1> QED
  BY <1>4, <1>5, <1>6, <1>7, <1>8 DEF GatewayInv, OutboundFits

(* How the round moves to the next message.                                *)
LEMMA AdvanceFits ==
  ASSUME GatewayTypes, Scanning, worker.todo # {}, worker' = Advance(Scanned)
  PROVE  /\ worker' \in Rounds /\ worker'.stage = "scan"
         /\ worker'.todo = worker.todo \ {Scanned} /\ worker'.cur = At[Scanned]
<1>1. PICK t, time : t = worker.todo \ {Scanned} /\ time = At[Scanned]
  OBVIOUS
<1>2. worker \in Rounds /\ time \in Nat /\ "scan" \in Stages
  BY <1>1, ScannedIs DEF GatewayTypes, Stages
<1>3. t \in SUBSET (Nat \cup Natives)
  BY <1>1, <1>2, RoundIs
<1>4. worker' = [worker EXCEPT !.stage = "scan", !.todo = t, !.cur = time]
  BY <1>1 DEF Advance
<1>5. worker' \in ARound("scan", t, worker.res, worker.left, time, worker.hosts)
  BY <1>2, <1>4 DEF Rounds, ARound
<1> QED
  BY <1>1, <1>2, <1>3, <1>5, RoundIs, RoundFits

(* The steps of the scan that are done with a message: it was seen before, *)
(* it is refused, given up, or lost to an error of the store.              *)
LEMMA PassesOn ==
  ASSUME GatewayInv, NEW s, s = Scanned, Scanning, worker.stage # "endScan", worker.todo # {},
         worker' \in Rounds, worker'.stage = "scan",
         worker'.todo = worker.todo \ {s}, worker'.cur = At[s],
         UNCHANGED <<smtpVars, inVars, coming, cursor, outQueue, relayed, again>>,
         bounced \subseteq bounced', hurt \subseteq hurt',
         DOMAIN outLog \subseteq DOMAIN outLog', DOMAIN outLog' \subseteq DOMAIN outLog \cup {s},
         s \in DOMAIN outLog' \/ s \in hurt',
         filedNatives' \subseteq filedNatives, filedNatives \ filedNatives' \subseteq {s},
         s \in filedNatives' \/ s \in DOMAIN outLog',
         s \notin hurt' =>
           \/ s \in DOMAIN outLog /\ (worker.stage = "enqueue" => worker.left = {})
           \/ \A d \in DomainsOf(s) : <<s, d>> \in bounced'
  PROVE  GatewayInv'
<1>1. s \in Natives /\ s \in worker.todo
  BY ScannedIs DEF GatewayInv
<1>2. coming \subseteq Natives /\ filedNatives \subseteq Natives \ coming
  BY DEF GatewayInv, GatewayTypes
<1>3. DOMAIN outLog' \subseteq Natives
  BY <1>1 DEF GatewayInv, GatewayTypes
<1>4. worker'.todo \subseteq filedNatives'
  BY DEF GatewayInv, GatewayTypes
<1>5. GatewayTypes' /\ ThreadsFit' /\ InboundFits'
  BY <1>2, <1>3, <1>4, OutboundTypes DEF GatewayInv, GatewayTypes
<1>6. JobsFit'
  BY JobsStand DEF GatewayInv, OutboundFits
<1>7. CopiesFit'
  BY CopiesStand DEF GatewayInv, OutboundFits, JustRelayed, Scanning
<1>8. LoggedAreCovered'
  BY <1>3, CoverStands DEF GatewayInv, OutboundFits
<1>9. ScanFits'
  BY ScanAdvances DEF GatewayInv, OutboundFits
<1> QED
  BY <1>5, <1>6, <1>7, <1>8, <1>9 DEF GatewayInv, OutboundFits

(* A log row is added, and none is lost.                                   *)
LEMMA LogHas == \A n, v : DOMAIN Set(outLog, n, v) = DOMAIN outLog \cup {n}
BY DEF Set

(* The five steps that are done with a message.                            *)
LEMMA PassingKeeps ==
  ASSUME GatewayInv, SkipSeen \/ RefuseNative \/ NativeStoreError \/ EnqueueFails \/ NativeQueued
  PROVE  GatewayInv'
<1>1. PICK s : s = Scanned
  OBVIOUS
<1>2. /\ Scanning /\ worker.stage # "endScan" /\ worker.todo # {}
      /\ worker.stage = "enqueue" => s \in DOMAIN outLog /\ worker.left \subseteq DomainsOf(s)
  BY <1>1 DEF GatewayInv, OutboundFits, JobsFit, Scanning, SkipSeen, RefuseNative, NewNative,
         NativeStoreError, EnqueueFails, NativeQueued
<1>3. worker \in Rounds /\ s \in Natives /\ s \in filedNatives
  BY <1>1, <1>2, ScannedIs DEF GatewayInv, GatewayTypes
<1>4. /\ worker' \in Rounds /\ worker'.stage = "scan"
      /\ worker'.todo = worker.todo \ {s} /\ worker'.cur = At[s]
  <2>1. CASE worker' = Advance(Scanned)
    BY <1>1, <1>2, <2>1, AdvanceFits DEF GatewayInv
  <2>2. CASE EnqueueFails
    <3>1. PICK t, time : t = worker.todo \ {s} /\ time = At[s]
      OBVIOUS
    <3>2. /\ t \in SUBSET (Nat \cup Natives) /\ time \in Nat /\ "scan" \in Stages
          /\ {} \in SUBSET Domains
      BY <1>3, <3>1, RoundIs, GatewayAssumption DEF Stages
    <3>3. worker' = [[worker EXCEPT !.stage = "scan", !.todo = t, !.cur = time] EXCEPT !.left = {}]
      BY <1>1, <2>2, <3>1 DEF EnqueueFails, Advance
    <3>4. worker' \in ARound("scan", t, worker.res, {}, time, worker.hosts)
      BY <1>3, <3>3 DEF Rounds, ARound
    <3> QED
      BY <1>3, <3>1, <3>2, <3>4, RoundIs, RoundFits
  <2> QED
    BY <2>1, <2>2 DEF SkipSeen, RefuseNative, NativeStoreError, NativeQueued
<1>5. CASE SkipSeen
  <2>1. UNCHANGED <<smtpVars, inVars, outVars>> /\ s \in DOMAIN outLog
    BY <1>1, <1>5 DEF SkipSeen
  <2>2. UNCHANGED <<coming, filedNatives, cursor, outQueue, outLog, relayed, bounced, hurt, again>>
    BY <2>1 DEF outVars
  <2> QED
    BY <1>1, <1>2, <1>3, <1>4, <1>5, <2>1, <2>2, PassesOn DEF SkipSeen
<1>6. CASE RefuseNative
  <2>1. /\ UNCHANGED <<smtpVars, inVars, coming, filedNatives, cursor, outQueue, relayed, hurt, again>>
        /\ outLog' = Set(outLog, s, "rejected")
        /\ bounced' = bounced \cup ({s} \X DomainsOf(s))
    BY <1>1, <1>6 DEF RefuseNative, Bounce
  <2>2. DOMAIN outLog' = DOMAIN outLog \cup {s}
    BY <2>1, LogHas
  <2>3. \A d \in DomainsOf(s) : <<s, d>> \in bounced'
    BY <2>1
  <2> QED
    BY <1>1, <1>2, <1>3, <1>4, <2>1, <2>2, <2>3, PassesOn
<1>7. CASE NativeStoreError
  <2>1. /\ UNCHANGED <<smtpVars, inVars, coming, filedNatives, cursor, outQueue, outLog, relayed,
                       bounced, again>>
        /\ hurt' = hurt \cup {s}
    BY <1>1, <1>7 DEF NativeStoreError
  <2> QED
    BY <1>1, <1>2, <1>3, <1>4, <2>1, PassesOn DEF GatewayInv, GatewayTypes
<1>8. CASE EnqueueFails
  <2>1. /\ UNCHANGED <<smtpVars, inVars, coming, filedNatives, cursor, outQueue, outLog, relayed,
                       bounced, again>>
        /\ hurt' = hurt \cup {s}
    BY <1>1, <1>8 DEF EnqueueFails
  <2> QED
    BY <1>1, <1>2, <1>3, <1>4, <2>1, PassesOn DEF GatewayInv, GatewayTypes
<1>9. CASE NativeQueued
  <2>1. /\ UNCHANGED <<smtpVars, inVars, coming, cursor, outQueue, outLog, relayed, bounced,
                       hurt, again>>
        /\ filedNatives' = filedNatives \ {s} /\ worker.stage = "enqueue" /\ worker.left = {}
    BY <1>1, <1>9 DEF NativeQueued
  <2> QED
    BY <1>1, <1>2, <1>3, <1>4, <2>1, PassesOn
<1> QED
  BY <1>5, <1>6, <1>7, <1>8, <1>9

(* The steps that keep the message they are at.                            *)
LEMMA StaysOn ==
  ASSUME GatewayInv, NEW s, s = Scanned, Scanning, worker.todo # {},
         worker' \in Rounds, worker'.stage \in {"enqueue", "endScan"},
         worker'.todo = worker.todo, worker'.cur = worker.cur,
         UNCHANGED <<smtpVars, inVars, coming, filedNatives, cursor, relayed, bounced, hurt, again>>,
         DOMAIN outLog \subseteq DOMAIN outLog', DOMAIN outLog' \subseteq DOMAIN outLog \cup {s},
         outQueue' \subseteq OutJobs, IsFiniteSet(outQueue')
  PROVE  GatewayTypes' /\ ThreadsFit' /\ InboundFits' /\ ScanFits' /\ Scanned' = s
<1>1. s \in Natives
  BY ScannedIs DEF GatewayInv
<1>2. GatewayTypes' /\ ThreadsFit' /\ InboundFits'
  BY <1>1, OutboundTypes DEF GatewayInv, GatewayTypes
<1>3. ScanFits'
  BY ScanStays DEF GatewayInv, OutboundFits
<1>4. Scanned' = s
  BY DEF Scanned
<1> QED
  BY <1>2, <1>3, <1>4

(* A network error stops the scan, or gives the message up.                *)
LEMMA DeferNativeKeeps ==
  ASSUME GatewayInv, DeferNative
  PROVE  GatewayInv'
<1>1. PICK s : s = Scanned
  OBVIOUS
<1>2. Scanning /\ worker.stage = "scan" /\ worker.todo # {} /\ worker \in Rounds
  BY DEF DeferNative, NewNative, Scanning, GatewayInv, GatewayTypes
<1>3. UNCHANGED <<smtpVars, inVars, coming, filedNatives, cursor, outQueue, relayed, hurt, again>>
  BY DEF DeferNative
<1>4. s \in Natives /\ s \in filedNatives
  BY <1>1, <1>2, ScannedIs DEF GatewayInv
<1>5. CASE /\ bounced' = bounced \cup ({s} \X DomainsOf(s))
           /\ outLog' = Set(outLog, s, "failed") /\ worker' = Advance(Scanned)
  <2>1. DOMAIN outLog' = DOMAIN outLog \cup {s}
    BY <1>5, LogHas
  <2>2. \A d \in DomainsOf(s) : <<s, d>> \in bounced'
    BY <1>5
  <2>3. /\ worker' \in Rounds /\ worker'.stage = "scan"
        /\ worker'.todo = worker.todo \ {s} /\ worker'.cur = At[s]
    BY <1>1, <1>2, <1>5, AdvanceFits DEF GatewayInv
  <2> QED
    BY <1>1, <1>2, <1>3, <1>4, <1>5, <2>1, <2>2, <2>3, PassesOn
<1>6. CASE UNCHANGED <<bounced, outLog>> /\ worker' = [worker EXCEPT !.stage = "endScan"]
  <2>1. worker' \in ARound("endScan", worker.todo, worker.res, worker.left, worker.cur, worker.hosts)
    BY <1>2, <1>6 DEF Rounds, ARound
  <2>2. worker' \in Rounds /\ worker'.stage = "endScan" /\ worker'.todo = worker.todo
        /\ worker'.cur = worker.cur
    BY <1>2, <2>1, RoundIs, RoundFits DEF Stages
  <2>3. outQueue' \subseteq OutJobs /\ IsFiniteSet(outQueue')
    BY <1>3 DEF GatewayInv, GatewayTypes
  <2>4. GatewayTypes' /\ ThreadsFit' /\ InboundFits' /\ ScanFits'
    BY <1>1, <1>2, <1>3, <1>6, <2>2, <2>3, StaysOn
  <2>5. JobsFit'
    BY <1>3, <1>6, <2>2, JobsStand DEF GatewayInv, OutboundFits
  <2>6. CopiesFit'
    BY <1>2, <1>3, <1>6, <2>2, CopiesStand DEF GatewayInv, OutboundFits, JustRelayed
  <2>7. LoggedAreCovered'
    BY <1>2, <1>3, <1>6, <2>2, CoverStands DEF GatewayInv, GatewayTypes, OutboundFits
  <2> QED
    BY <2>4, <2>5, <2>6, <2>7 DEF GatewayInv, OutboundFits
<1>7. \/ /\ bounced' = bounced \cup ({s} \X DomainsOf(s))
         /\ outLog' = Set(outLog, s, "failed") /\ worker' = Advance(Scanned)
      \/ UNCHANGED <<bounced, outLog>> /\ worker' = [worker EXCEPT !.stage = "endScan"]
  BY <1>1 DEF DeferNative, Bounce
<1> QED
  BY <1>5, <1>6, <1>7

(* The domains of a message are domains.                                   *)
LEMMA DomainsFit == \A n \in Natives : DomainsOf(n) \in SUBSET Domains
BY GatewayAssumption DEF DomainsOf, Domains

(* The log row comes before the jobs.                                      *)
LEMMA QueueNativeKeeps ==
  ASSUME GatewayInv, QueueNative
  PROVE  GatewayInv'
<1>1. PICK s, l : s = Scanned /\ l = DomainsOf(s)
  OBVIOUS
<1>2. /\ Scanning /\ worker.stage = "scan" /\ worker.todo # {} /\ worker \in Rounds
      /\ s \notin DOMAIN outLog
  BY <1>1 DEF QueueNative, NewNative, Scanning, GatewayInv, GatewayTypes
<1>3. /\ UNCHANGED <<smtpVars, inVars, coming, filedNatives, cursor, outQueue, relayed, bounced,
                     hurt, again>>
      /\ outLog' = Set(outLog, s, "queued")
      /\ worker' = [worker EXCEPT !.stage = "enqueue", !.left = l]
  BY <1>1 DEF QueueNative
<1>4. DOMAIN outLog' = DOMAIN outLog \cup {s}
  BY <1>3, LogHas
<1>5. s \in Natives /\ l \in SUBSET Domains
  BY <1>1, <1>2, ScannedIs, DomainsFit DEF GatewayInv
<1>6. worker' \in ARound("enqueue", worker.todo, worker.res, l, worker.cur, worker.hosts)
  BY <1>2, <1>3 DEF Rounds, ARound
<1>7. /\ worker' \in Rounds /\ worker'.stage = "enqueue" /\ worker'.todo = worker.todo
      /\ worker'.left = l /\ worker'.cur = worker.cur
  BY <1>2, <1>5, <1>6, RoundIs, RoundFits DEF Stages
<1>8. outQueue' \subseteq OutJobs /\ IsFiniteSet(outQueue')
  BY <1>3 DEF GatewayInv, GatewayTypes
<1>9. GatewayTypes' /\ ThreadsFit' /\ InboundFits' /\ ScanFits' /\ Scanned' = s
  BY <1>1, <1>2, <1>3, <1>4, <1>7, <1>8, StaysOn
<1>10. JobsFit'
  <2>1. JobsFit /\ CopiesFit /\ relayed \in [Copies -> Nat]
    BY DEF GatewayInv, OutboundFits, GatewayTypes
  <2>2. \A j \in outQueue : j.native # s
    BY <1>2, <2>1 DEF JobsFit
  <2>3. \A a \in ExtRcpts[s] : relayed[<<s, a>>] = 0
    <3> SUFFICES ASSUME NEW a \in ExtRcpts[s] PROVE relayed[<<s, a>>] = 0
      OBVIOUS
    <3>1. <<s, a>> \in Copies
      BY <1>5, GatewayAssumption DEF Copies
    <3>2. ~(relayed[<<s, a>>] > 0) /\ relayed[<<s, a>>] \in Nat
      BY <1>2, <2>1, <3>1 DEF CopiesFit
    <3> QED
      BY <3>2
  <2> QED
    BY <1>1, <1>2, <1>3, <1>4, <1>7, <1>9, <2>1, <2>2, <2>3 DEF JobsFit
<1>11. CopiesFit'
  BY <1>2, <1>3, <1>4, <1>7, CopiesStand DEF GatewayInv, OutboundFits, JustRelayed
<1>12. LoggedAreCovered'
  <2>1. \A n, d : Covered(n, d) => Covered(n, d)'
    BY <1>3 DEF Covered
  <2>2. LoggedAreCovered
    BY DEF GatewayInv, OutboundFits
  <2> QED
    BY <1>1, <1>2, <1>3, <1>4, <1>7, <1>9, <2>1, <2>2 DEF LoggedAreCovered
<1> QED
  BY <1>9, <1>10, <1>11, <1>12 DEF GatewayInv, OutboundFits

(* One job is added for a domain that had none.                            *)
LEMMA EnqueueDomainKeeps ==
  ASSUME GatewayInv, EnqueueDomain
  PROVE  GatewayInv'
<1>1. PICK s, d, j, l : /\ s = Scanned /\ d = (CHOOSE x \in worker.left : TRUE)
                        /\ j = NewOutJob(s, d) /\ l = worker.left \ {d}
  OBVIOUS
<1>2. /\ Scanning /\ worker.stage = "enqueue" /\ worker.todo # {} /\ worker \in Rounds
      /\ d \in worker.left /\ worker.left \subseteq DomainsOf(s) /\ s \in DOMAIN outLog
  BY <1>1 DEF EnqueueDomain, Scanning, GatewayInv, GatewayTypes, OutboundFits, JobsFit
<1>3. /\ UNCHANGED <<smtpVars, inVars, coming, filedNatives, cursor, outLog, relayed, bounced,
                     hurt, again>>
      /\ outQueue' = outQueue \cup {j} /\ worker' = [worker EXCEPT !.left = l]
  BY <1>1 DEF EnqueueDomain
<1>4. s \in Natives /\ d \in Domains /\ d \in DomainsOf(s) /\ l \in SUBSET Domains
  BY <1>1, <1>2, ScannedIs, RoundIs DEF GatewayInv
<1>5. RowId \in Nat /\ \A i \in outQueue : i.id < RowId
  BY RowIdIsFresh DEF GatewayInv, GatewayTypes
<1>6. j \in OutJobs /\ j.id = RowId /\ j.native = s /\ j.domain = d
  BY <1>1, <1>4, <1>5 DEF NewOutJob, OutJobs
<1>7. worker' \in ARound("enqueue", worker.todo, worker.res, l, worker.cur, worker.hosts)
  BY <1>2, <1>3 DEF Rounds, ARound
<1>8. /\ worker' \in Rounds /\ worker'.stage = "enqueue" /\ worker'.todo = worker.todo
      /\ worker'.left = l /\ worker'.cur = worker.cur
  BY <1>2, <1>4, <1>7, RoundIs, RoundFits
<1>9. outQueue' \subseteq OutJobs /\ IsFiniteSet(outQueue')
  BY <1>3, <1>6, FS_AddElement DEF GatewayInv, GatewayTypes
<1>10. GatewayTypes' /\ ThreadsFit' /\ InboundFits' /\ ScanFits' /\ Scanned' = s
  BY <1>1, <1>2, <1>3, <1>8, <1>9, StaysOn
<1>11. JobsFit /\ CopiesFit /\ LoggedAreCovered /\ \A i \in outQueue : i.id \in Nat
  BY DEF GatewayInv, OutboundFits, GatewayTypes, OutJobs
<1>12. /\ \A i \in outQueue : i.native = s => i.domain \notin worker.left
       /\ \A a \in ExtRcpts[s] : DomainOf[a] \in worker.left => relayed[<<s, a>>] = 0
  BY <1>1, <1>2, <1>11 DEF JobsFit
<1>13. JobsFit'
  <2>1. \A i, k \in outQueue' :
          i.id = k.id \/ (i.native = k.native /\ i.domain = k.domain) => i = k
    <3>1. \A i \in outQueue : i.id # j.id /\ ~(i.native = j.native /\ i.domain = j.domain)
      <4>1. ASSUME NEW i \in outQueue PROVE i.id # j.id
        BY <1>5, <1>6, <1>11, <4>1
      <4>2. ASSUME NEW i \in outQueue PROVE ~(i.native = j.native /\ i.domain = j.domain)
        BY <1>2, <1>6, <1>12, <4>2
      <4> QED
        BY <4>1, <4>2
    <3> QED
      BY <1>3, <1>11, <3>1 DEF JobsFit
  <2>2. \A i \in outQueue' : i.native \in DOMAIN outLog' /\ i.domain \in DomainsOf(i.native)
    BY <1>2, <1>3, <1>4, <1>6, <1>11 DEF JobsFit
  <2>3. \A i \in outQueue' : i.native = s => i.domain \notin l
    BY <1>1, <1>3, <1>6, <1>12
  <2> QED
    BY <1>1, <1>2, <1>3, <1>8, <1>10, <1>12, <2>1, <2>2, <2>3 DEF JobsFit
<1>14. CopiesFit'
  <2>1. ASSUME NEW i \in outQueue', NEW a \in DOMAIN DomainOf, a \in RcptsAt(i.native, i.domain)
        PROVE  relayed[<<i.native, a>>] = 0 \/ <<i.native, i.domain>> \in again
    <3>1. CASE i = j
      BY <1>2, <1>6, <1>12, <2>1, <3>1 DEF RcptsAt
    <3>2. CASE i \in outQueue
      BY <1>2, <1>11, <2>1, <3>2 DEF CopiesFit, JustRelayed
    <3> QED
      BY <1>3, <3>1, <3>2
  <2>2. RelayedOnce'
    BY <1>3, <1>11 DEF CopiesFit, RelayedOnce
  <2>3. \A i \in outQueue' : ~JustRelayed(i)'
    BY <1>8 DEF JustRelayed
  <2> QED
    BY <1>3, <1>8, <1>11, <2>1, <2>2, <2>3 DEF CopiesFit
<1>15. LoggedAreCovered'
  <2>1. \A n, x : Covered(n, x) => Covered(n, x)'
    BY <1>3 DEF Covered
  <2>2. Covered(s, d)'
    BY <1>3, <1>6 DEF Covered
  <2> QED
    BY <1>1, <1>2, <1>3, <1>8, <1>10, <1>11, <2>1, <2>2 DEF LoggedAreCovered
<1> QED
  BY <1>10, <1>13, <1>14, <1>15 DEF GatewayInv, OutboundFits

(* The cursor moves to where the scan came.                                *)
LEMMA EndScanKeeps ==
  ASSUME GatewayInv, EndScan
  PROVE  GatewayInv'
<1>1. /\ UNCHANGED <<smtpVars, inVars, coming, filedNatives, outQueue, outLog, relayed, bounced,
                     hurt, again>>
      /\ cursor' = worker.cur /\ Scanning /\ worker.stage \in {"scan", "endScan"}
      /\ worker \in Rounds
  BY DEF EndScan, Scanning, GatewayInv, GatewayTypes
<1>2. PICK t : t = {j.id : j \in {i \in outQueue : i.due}}
  OBVIOUS
<1>3. t \in SUBSET (Nat \cup Natives)
  BY <1>2 DEF GatewayInv, GatewayTypes, OutJobs
<1>4. worker' = [worker EXCEPT !.stage = "outbound", !.todo = t]
  BY <1>2 DEF EndScan
<1>5. worker' \in ARound("outbound", t, worker.res, worker.left, worker.cur, worker.hosts)
  BY <1>1, <1>4 DEF Rounds, ARound
<1>6. worker' \in Rounds /\ worker'.stage = "outbound"
  BY <1>1, <1>3, <1>5, RoundIs, RoundFits DEF Stages
<1>7. cursor' \in Nat
  BY <1>1, RoundIs
<1>8. GatewayTypes' /\ ThreadsFit' /\ InboundFits'
  BY <1>1, <1>6, <1>7, OutboundTypes DEF GatewayInv, GatewayTypes, Scanning
<1>9. JobsFit'
  BY <1>1, <1>6, JobsStand DEF GatewayInv, OutboundFits
<1>10. CopiesFit'
  BY <1>1, <1>6, CopiesStand DEF GatewayInv, OutboundFits, JustRelayed
<1>11. LoggedAreCovered'
  BY <1>1, <1>6, CoverStands DEF GatewayInv, GatewayTypes, OutboundFits
<1>12. ScanFits'
  <2>1. ScanFits /\ ~Scanning'
    BY <1>6 DEF GatewayInv, OutboundFits, Scanning
  <2>2. Passed(cursor)'
    BY <1>1, <2>1 DEF ScanFits, Passed
  <2>3. Later' = Later
    BY <1>1 DEF Later
  <2> QED
    BY <1>1, <2>1, <2>2, <2>3 DEF ScanFits
<1> QED
  BY <1>8, <1>9, <1>10, <1>11, <1>12 DEF GatewayInv, OutboundFits

----------------------------------------------------------------------------
(* The outbound queue.                                                     *)
LEMMA NextIsOne ==
  ASSUME GatewayInv, NEW i \in outQueue, NEW j \in outQueue,
         IsNext(i, outQueue), IsNext(j, outQueue)
  PROVE  i = j
<1>1. i.id \in Nat /\ j.id \in Nat
  BY DEF GatewayInv, GatewayTypes, OutJobs
<1>2. i.id = j.id
  BY <1>1 DEF IsNext
<1> QED
  BY <1>2 DEF GatewayInv, OutboundFits, JobsFit

(* An attempt: who was sent a copy, and whether the round can still tell.  *)
LEMMA AttemptKeeps ==
  ASSUME GatewayInv, NEW j, j = OutJob, InOutbound("outbound"),
         NEW who \in SUBSET RcptsAt(j.native, j.domain),
         relayed' = [p \in DOMAIN relayed |->
                       IF p[1] = j.native /\ p[2] \in who THEN relayed[p] + 1 ELSE relayed[p]],
         worker' \in Rounds, worker'.todo = worker.todo,
         worker'.stage \in {"outbound", "outSettle"},
         again \subseteq again',
         who # {} => \/ <<j.native, j.domain>> \in again'
                     \/ worker'.stage = "outSettle" /\ worker'.res \in {"ok", "partly"},
         worker'.stage = "outSettle" /\ worker'.res \in {"ok", "partly"} => who # {},
         UNCHANGED <<smtpVars, inVars, coming, filedNatives, cursor, outQueue, outLog, bounced, hurt>>
  PROVE  GatewayInv'
<1>1. /\ j \in outQueue /\ j \in OutJobs /\ IsNext(j, outQueue) /\ worker.stage = "outbound"
  BY OutJobIs DEF GatewayInv, InOutbound
<1>2. /\ JobsFit /\ CopiesFit /\ LoggedAreCovered /\ ScanFits
      /\ relayed \in [Copies -> Nat] /\ outQueue \subseteq OutJobs
  BY DEF GatewayInv, OutboundFits, GatewayTypes
<1>3. /\ relayed' \in [Copies -> Nat]
      /\ \A p \in Copies : relayed'[p] >= relayed[p]
  BY <1>2
<1>4. GatewayTypes' /\ ThreadsFit' /\ InboundFits'
  BY <1>3, OutboundTypes DEF GatewayInv, GatewayTypes, Scanning
<1>5. JobsFit'
  BY <1>2, JobsStand
<1>6. \A n \in Natives : \A d : \A a \in RcptsAt(n, d) : <<n, a>> \in Copies
  BY GatewayAssumption DEF RcptsAt, Copies
<1>7. LoggedAreCovered'
  <2>1. ASSUME NEW n \in Natives, NEW d, Covered(n, d) \/ <<n, d>> \in bounced'
        PROVE  Covered(n, d)'
    <3>1. CASE \E a \in RcptsAt(n, d) : relayed[<<n, a>>] > 0
      <4>1. PICK a \in RcptsAt(n, d) : relayed[<<n, a>>] > 0
        BY <3>1
      <4>2. relayed'[<<n, a>>] > 0
        BY <1>2, <1>3, <1>6, <4>1
      <4> QED
        BY <4>2 DEF Covered
    <3>2. CASE (\E i \in outQueue : i.native = n /\ i.domain = d) \/ <<n, d>> \in bounced
      BY <3>2 DEF Covered
    <3> QED
      BY <2>1, <3>1, <3>2 DEF Covered
  <2>2. DOMAIN outLog' \subseteq Natives
    BY DEF GatewayInv, GatewayTypes
  <2> QED
    BY <1>1, <1>2, <2>1, <2>2, CoverPasses
<1>8. ScanFits'
  BY <1>2, ScanRests DEF Scanning
<1>9. CopiesFit'
  <2>1. \A i \in outQueue : IsNext(i, outQueue)' <=> IsNext(i, outQueue)
    BY DEF IsNext
  <2>2. \A i \in outQueue : JustRelayed(i)' => i = j /\ who # {}
    BY <1>1, <2>1, NextIsOne DEF JustRelayed
  <2>3. \A i \in outQueue, a \in DOMAIN DomainOf : a \in RcptsAt(i.native, i.domain) =>
          relayed[<<i.native, a>>] = 0 \/ <<i.native, i.domain>> \in again
    BY <1>1, <1>2 DEF CopiesFit, JustRelayed
  <2>4. ASSUME NEW p \in Copies, relayed'[p] # relayed[p]
        PROVE  /\ p[1] = j.native /\ p[2] \in who /\ relayed'[p] = relayed[p] + 1
               /\ p[2] \in DOMAIN DomainOf /\ DomainOf[p[2]] = j.domain
               /\ relayed[p] = 0 \/ <<p[1], DomainOf[p[2]]>> \in again
    <3>1. p[1] = j.native /\ p[2] \in who /\ relayed'[p] = relayed[p] + 1
      BY <1>2, <2>4
    <3>2. p = <<p[1], p[2]>> /\ p[2] \in DOMAIN DomainOf
      BY <2>4 DEF Copies
    <3>3. DomainOf[p[2]] = j.domain
      BY <3>1 DEF RcptsAt
    <3> QED
      BY <1>1, <2>3, <3>1, <3>2, <3>3
  <2>5. \A p \in Copies : relayed'[p] > 0 => p[1] \in DOMAIN outLog'
    <3> SUFFICES ASSUME NEW p \in Copies, relayed'[p] > 0 PROVE p[1] \in DOMAIN outLog
      OBVIOUS
    <3>1. CASE relayed'[p] = relayed[p]
      BY <1>2, <3>1 DEF CopiesFit
    <3>2. CASE relayed'[p] # relayed[p]
      BY <1>1, <1>2, <2>4, <3>2 DEF JobsFit
    <3> QED
      BY <3>1, <3>2
  <2>6. RelayedOnce'
    <3>1. ASSUME NEW p \in Copies PROVE relayed'[p] <= 1 \/ <<p[1], DomainOf[p[2]]>> \in again'
      <4>1. CASE relayed'[p] = relayed[p]
        BY <1>2, <4>1 DEF CopiesFit, RelayedOnce
      <4>2. CASE relayed'[p] # relayed[p]
        BY <2>4, <4>2
      <4> QED
        BY <4>1, <4>2
    <3> QED
      BY <1>3, <3>1 DEF RelayedOnce
  <2>7. ASSUME NEW i \in outQueue, NEW a \in DOMAIN DomainOf, a \in RcptsAt(i.native, i.domain)
        PROVE  \/ relayed'[<<i.native, a>>] = 0 \/ <<i.native, i.domain>> \in again'
               \/ JustRelayed(i)'
    <3>1. <<i.native, a>> \in Copies
      BY <1>2, <1>6, <2>7 DEF OutJobs
    <3>2. CASE relayed'[<<i.native, a>>] = relayed[<<i.native, a>>]
      BY <2>3, <2>7, <3>2
    <3>3. CASE relayed'[<<i.native, a>>] # relayed[<<i.native, a>>]
      <4>1. i.native = j.native /\ who # {} /\ DomainOf[a] = j.domain
        BY <2>4, <3>1, <3>3
      <4>2. i.domain = j.domain
        BY <2>7, <4>1 DEF RcptsAt
      <4>3. i = j
        BY <1>1, <1>2, <4>1, <4>2 DEF JobsFit
      <4> QED
        BY <1>1, <2>1, <4>1, <4>3 DEF JustRelayed
    <3> QED
      BY <3>2, <3>3
  <2>8. worker'.stage = "outSettle" => \E i \in outQueue' : i.id \in worker'.todo
    BY <1>1 DEF IsNext
  <2>9. ASSUME NEW i \in outQueue, JustRelayed(i)'
        PROVE  \E a \in RcptsAt(i.native, i.domain) : relayed'[<<i.native, a>>] > 0
    <3>1. i = j /\ who # {}
      BY <2>2, <2>9
    <3>2. PICK a \in who : TRUE
      BY <3>1
    <3>3. <<j.native, a>> \in Copies /\ a \in RcptsAt(j.native, j.domain)
      BY <1>1, <1>6, <3>2 DEF OutJobs
    <3>4. relayed'[<<j.native, a>>] = relayed[<<j.native, a>>] + 1 /\ relayed[<<j.native, a>>] \in Nat
      BY <1>2, <3>2, <3>3
    <3> QED
      BY <3>1, <3>3, <3>4
  <2>10. DOMAIN relayed' = Copies
    BY <1>3
  <2> QED
    BY <2>5, <2>6, <2>7, <2>8, <2>9, <2>10 DEF CopiesFit
<1> QED
  BY <1>4, <1>5, <1>7, <1>8, <1>9 DEF GatewayInv, OutboundFits

(* An attempt at one host: the next host, or the verdict.                  *)
LEMMA HostFits ==
  ASSUME GatewayTypes, worker.stage = "outbound", NEW res \in Results,
         worker' = IF res = "transient" /\ worker.hosts + 1 < MaxHosts
                   THEN [worker EXCEPT !.hosts = @ + 1]
                   ELSE [worker EXCEPT !.stage = "outSettle", !.res = res]
  PROVE  /\ worker' \in Rounds /\ worker'.todo = worker.todo
         /\ \/ worker'.stage = "outbound" /\ res = "transient"
            \/ worker'.stage = "outSettle" /\ worker'.res = res
<1>1. worker \in Rounds /\ "outSettle" \in Stages /\ "outbound" \in Stages
  BY DEF GatewayTypes, Stages
<1>2. PICK h : h = worker.hosts + 1
  OBVIOUS
<1>3. h \in Nat
  BY <1>1, <1>2, RoundIs
<1>4. CASE worker' = [worker EXCEPT !.hosts = @ + 1] /\ res = "transient"
  <2>1. worker' = [worker EXCEPT !.hosts = h]
    BY <1>2, <1>4
  <2>2. worker' \in ARound("outbound", worker.todo, worker.res, worker.left, worker.cur, h)
    BY <1>1, <2>1 DEF Rounds, ARound
  <2> QED
    BY <1>1, <1>3, <1>4, <2>2, RoundIs, RoundFits
<1>5. CASE worker' = [worker EXCEPT !.stage = "outSettle", !.res = res]
  <2>1. worker' \in ARound("outSettle", worker.todo, res, worker.left, worker.cur, worker.hosts)
    BY <1>1, <1>5 DEF Rounds, ARound
  <2> QED
    BY <1>1, <2>1, RoundIs, RoundFits
<1> QED
  BY <1>4, <1>5

(* deliver_outbound, one host.                                             *)
LEMMA TryHostKeeps ==
  ASSUME GatewayInv, TryHost
  PROVE  GatewayInv'
<1>1. PICK j : j = OutJob
  OBVIOUS
<1>2. PICK ans \in [RcptsAt(j.native, j.domain) -> {"ok", "perm", "temp"}],
          final \in {"ok", "permanent", "transient"} :
        LET res == Transfer(ans, final) IN
        Relay(j, res, IF res \in {"ok", "partly"} THEN {a \in DOMAIN ans : ans[a] = "ok"} ELSE {})
  BY <1>1 DEF TryHost
<1>3. PICK res, who : /\ res = Transfer(ans, final)
                      /\ who = IF res \in {"ok", "partly"} THEN {a \in DOMAIN ans : ans[a] = "ok"}
                               ELSE {}
  OBVIOUS
<1>4. res \in Results /\ (res \in {"ok", "partly"} => \E a \in DOMAIN ans : ans[a] = "ok")
  BY <1>3 DEF Transfer, Results
<1>5. who \in SUBSET RcptsAt(j.native, j.domain) /\ (who # {} <=> res \in {"ok", "partly"})
  BY <1>3, <1>4
<1>6. Relay(j, res, who)
  BY <1>2, <1>3
<1>7. /\ InOutbound("outbound")
      /\ UNCHANGED <<smtpVars, inVars, coming, filedNatives, cursor, outQueue, outLog, bounced,
                     hurt, again>>
  BY DEF TryHost
<1>8. /\ worker' \in Rounds /\ worker'.todo = worker.todo
      /\ \/ worker'.stage = "outbound" /\ res = "transient"
         \/ worker'.stage = "outSettle" /\ worker'.res = res
  BY <1>4, <1>6, <1>7, HostFits DEF GatewayInv, Relay, InOutbound
<1>9. relayed' = [p \in DOMAIN relayed |->
                    IF p[1] = j.native /\ p[2] \in who THEN relayed[p] + 1 ELSE relayed[p]]
  BY <1>6 DEF Relay
<1>10. /\ who # {} => worker'.stage = "outSettle" /\ worker'.res \in {"ok", "partly"}
       /\ worker'.stage = "outSettle" /\ worker'.res \in {"ok", "partly"} => who # {}
       /\ worker'.stage \in {"outbound", "outSettle"}
  BY <1>5, <1>8
<1>12. UNCHANGED <<smtpVars, inVars, coming, filedNatives, cursor, outQueue, outLog, bounced, hurt>>
  BY <1>7
<1>11. /\ again \subseteq again'
       /\ who # {} => \/ <<j.native, j.domain>> \in again'
                      \/ worker'.stage = "outSettle" /\ worker'.res \in {"ok", "partly"}
  BY <1>7, <1>10
<1> QED
  BY <1>1, <1>5, <1>7, <1>8, <1>9, <1>10, <1>11, <1>12, AttemptKeeps

(* The reply to a transfer is lost.                                        *)
LEMMA ReplyLostKeeps ==
  ASSUME GatewayInv, ReplyLost
  PROVE  GatewayInv'
<1>1. PICK j, who : j = OutJob /\ who = RcptsAt(j.native, j.domain)
  OBVIOUS
<1>2. /\ Relay(j, "transient", who) /\ InOutbound("outbound")
      /\ again' = again \cup {<<j.native, j.domain>>}
      /\ UNCHANGED <<smtpVars, inVars, coming, filedNatives, cursor, outQueue, outLog, bounced, hurt>>
  BY <1>1 DEF ReplyLost
<1>3. /\ worker' \in Rounds /\ worker'.todo = worker.todo
      /\ \/ worker'.stage = "outbound"
         \/ worker'.stage = "outSettle" /\ worker'.res = "transient"
  BY <1>2, HostFits DEF GatewayInv, Relay, InOutbound, Results
<1>4. relayed' = [p \in DOMAIN relayed |->
                    IF p[1] = j.native /\ p[2] \in who THEN relayed[p] + 1 ELSE relayed[p]]
  BY <1>2 DEF Relay
<1>5. /\ who # {} => \/ <<j.native, j.domain>> \in again'
                     \/ worker'.stage = "outSettle" /\ worker'.res \in {"ok", "partly"}
      /\ worker'.stage = "outSettle" /\ worker'.res \in {"ok", "partly"} => who # {}
      /\ worker'.stage \in {"outbound", "outSettle"}
      /\ again \subseteq again' /\ who \in SUBSET RcptsAt(j.native, j.domain)
  BY <1>1, <1>2, <1>3
<1>6. InOutbound("outbound") /\ UNCHANGED <<smtpVars, inVars, coming, filedNatives, cursor, outQueue, outLog, bounced, hurt>>
  BY <1>2
<1> QED
  BY <1>1, <1>3, <1>4, <1>5, <1>6, AttemptKeeps

(* A domain without hosts.                                                 *)
LEMMA NoHostsKeeps ==
  ASSUME GatewayInv, NoHosts
  PROVE  GatewayInv'
<1>1. PICK j : j = OutJob
  OBVIOUS
<1>2. PICK res \in {"permanent", "transient"} :
        worker' = [worker EXCEPT !.stage = "outSettle", !.res = res]
  BY DEF NoHosts
<1>3. /\ InOutbound("outbound") /\ UNCHANGED <<smtpVars, inVars, outVars>>
      /\ UNCHANGED <<coming, filedNatives, cursor, outQueue, outLog, bounced, hurt, again, relayed>>
  BY DEF NoHosts, outVars
<1>4. worker \in Rounds /\ relayed \in [Copies -> Nat]
  BY DEF GatewayInv, GatewayTypes
<1>5. worker' \in ARound("outSettle", worker.todo, res, worker.left, worker.cur, worker.hosts)
  BY <1>2, <1>4 DEF Rounds, ARound
<1>6. /\ worker' \in Rounds /\ worker'.todo = worker.todo
      /\ worker'.stage = "outSettle" /\ worker'.res = res
  <2>1. "outSettle" \in Stages /\ res \in Results
    BY DEF Stages, Results
  <2> QED
    BY <1>4, <1>5, <2>1, RoundIs, RoundFits
<1>10. UNCHANGED <<smtpVars, inVars, coming, filedNatives, cursor, outQueue, outLog, bounced, hurt>>
  BY <1>3
<1>7. PICK who : who = {}
  OBVIOUS
<1>8. relayed' = [p \in DOMAIN relayed |->
                    IF p[1] = j.native /\ p[2] \in who THEN relayed[p] + 1 ELSE relayed[p]]
  BY <1>3, <1>4, <1>7
<1>9. /\ who # {} => \/ <<j.native, j.domain>> \in again'
                     \/ worker'.stage = "outSettle" /\ worker'.res \in {"ok", "partly"}
      /\ worker'.stage = "outSettle" /\ worker'.res \in {"ok", "partly"} => who # {}
      /\ worker'.stage \in {"outbound", "outSettle"}
      /\ again \subseteq again' /\ who \in SUBSET RcptsAt(j.native, j.domain)
  BY <1>3, <1>6, <1>7
<1> QED
  BY <1>1, <1>3, <1>6, <1>8, <1>9, <1>10, AttemptKeeps

(* The round goes on to the next outbound job.                             *)
LEMMA NextOutFits ==
  ASSUME GatewayTypes, NextOut
  PROVE  worker' \in Rounds /\ worker'.stage = "outbound"
<1>1. worker \in Rounds /\ "outbound" \in Stages /\ "none" \in Results /\ 0 \in Nat
  BY DEF GatewayTypes, Stages, Results
<1>2. PICK t : t = worker.todo \ {OutJob.id}
  OBVIOUS
<1>3. t \in SUBSET (Nat \cup Natives)
  BY <1>1, <1>2, RoundIs
<1>4. worker' = [worker EXCEPT !.stage = "outbound", !.res = "none", !.hosts = 0, !.todo = t]
  BY <1>2 DEF NextOut
<1>5. worker' \in ARound("outbound", t, "none", worker.left, worker.cur, 0)
  BY <1>1, <1>4 DEF Rounds, ARound
<1> QED
  BY <1>1, <1>3, <1>5, RoundIs, RoundFits

(* An attempt is recorded: sent, bounced or put off.                       *)
LEMMA SettleOutboundKeeps ==
  ASSUME GatewayInv, SettleOutbound
  PROVE  GatewayInv'
<1>1. PICK j, k : j = OutJob /\ k = Rescheduled(j)
  OBVIOUS
<1>2. /\ worker.stage = "outSettle"
      /\ UNCHANGED <<smtpVars, inVars, coming, filedNatives, cursor, relayed, hurt, again>>
      /\ worker' \in Rounds /\ worker'.stage = "outbound"
  BY NextOutFits DEF SettleOutbound, InOutbound, GatewayInv
<1>3. /\ j \in outQueue /\ j \in OutJobs /\ IsNext(j, outQueue)
  BY <1>1, OutJobIs DEF GatewayInv, SettleOutbound, InOutbound
<1>4. k \in OutJobs /\ k.id = j.id /\ k.native = j.native /\ k.domain = j.domain
  BY <1>1, <1>3, RescheduledIs
<1>5. /\ JobsFit /\ CopiesFit /\ LoggedAreCovered /\ ScanFits
      /\ relayed \in [Copies -> Nat] /\ outQueue \subseteq OutJobs /\ IsFiniteSet(outQueue)
      /\ DOMAIN outLog \subseteq Natives
  BY DEF GatewayInv, OutboundFits, GatewayTypes
<1>6. PICK rest : rest = outQueue \ {j}
  OBVIOUS
<1>7. \/ worker.res = "transient" /\ outQueue' = rest \cup {k} /\ bounced' = bounced
      \/ worker.res = "ok" /\ outQueue' = rest /\ bounced' = bounced
      \/ outQueue' = rest /\ bounced' = bounced \cup ({j.native} \X {j.domain})
  BY <1>1, <1>6 DEF SettleOutbound, OutboundSettled, Bounce
<1>8. DOMAIN outLog' = DOMAIN outLog
  BY DEF SettleOutbound, OutboundSettled
<1>9. outQueue' \subseteq OutJobs /\ IsFiniteSet(outQueue')
  BY <1>4, <1>5, <1>6, <1>7, FS_Subset, FS_AddElement
<1>10. GatewayTypes' /\ ThreadsFit' /\ InboundFits'
  BY <1>2, <1>8, <1>9, OutboundTypes DEF GatewayInv, GatewayTypes, Scanning
<1>11. ASSUME NEW i \in outQueue'
       PROVE  (i \in outQueue /\ i # j) \/ (i = k /\ worker.res = "transient")
  BY <1>6, <1>7, <1>11
<1>12. JobsFit'
  <2>1. ASSUME NEW i \in rest
        PROVE  i.id # j.id /\ ~(i.native = j.native /\ i.domain = j.domain)
    BY <1>3, <1>5, <1>6, <2>1 DEF JobsFit
  <2>2. \A i, l \in outQueue' :
          i.id = l.id \/ (i.native = l.native /\ i.domain = l.domain) => i = l
    BY <1>4, <1>5, <1>6, <1>11, <2>1 DEF JobsFit
  <2>3. \A i \in outQueue' : i.native \in DOMAIN outLog' /\ i.domain \in DomainsOf(i.native)
    BY <1>3, <1>4, <1>5, <1>8, <1>11 DEF JobsFit
  <2> QED
    BY <1>2, <2>2, <2>3 DEF JobsFit
<1>13. CopiesFit'
  <2>1. ASSUME NEW i \in outQueue', NEW a \in DOMAIN DomainOf, a \in RcptsAt(i.native, i.domain)
        PROVE  relayed[<<i.native, a>>] = 0 \/ <<i.native, i.domain>> \in again
    <3>1. CASE i \in outQueue /\ i # j
      <4>1. ~JustRelayed(i)
        BY <1>3, <3>1, NextIsOne DEF JustRelayed
      <4> QED
        BY <1>5, <2>1, <3>1, <4>1 DEF CopiesFit
    <3>2. CASE i = k /\ worker.res = "transient"
      <4>1. ~JustRelayed(j)
        BY <3>2 DEF JustRelayed
      <4>2. a \in RcptsAt(j.native, j.domain)
        BY <1>4, <2>1, <3>2
      <4>3. relayed[<<j.native, a>>] = 0 \/ <<j.native, j.domain>> \in again
        BY <1>3, <1>5, <4>1, <4>2 DEF CopiesFit
      <4> QED
        BY <1>4, <3>2, <4>3
    <3> QED
      BY <1>11, <3>1, <3>2
  <2>2. RelayedOnce'
    BY <1>2, <1>5 DEF CopiesFit, RelayedOnce
  <2>3. \A i \in outQueue' : ~JustRelayed(i)'
    BY <1>2 DEF JustRelayed
  <2>4. \A p \in DOMAIN relayed' : relayed'[p] > 0 => p[1] \in DOMAIN outLog'
    BY <1>2, <1>5, <1>8 DEF CopiesFit
  <2> QED
    BY <1>2, <2>1, <2>2, <2>3, <2>4 DEF CopiesFit
<1>14. LoggedAreCovered'
  <2>1. ASSUME NEW n \in Natives, NEW d, Covered(n, d) \/ <<n, d>> \in bounced'
        PROVE  Covered(n, d)'
    <3>1. CASE <<n, d>> \in bounced' \/ <<n, d>> \in bounced
      BY <1>7, <3>1 DEF Covered
    <3>2. CASE \E a \in RcptsAt(n, d) : relayed[<<n, a>>] > 0
      BY <1>2, <3>2 DEF Covered
    <3>3. CASE \E i \in outQueue : i.native = n /\ i.domain = d
      <4>1. PICK i \in outQueue : i.native = n /\ i.domain = d
        BY <3>3
      <4>2. CASE i # j
        BY <1>6, <1>7, <4>1, <4>2 DEF Covered
      <4>3. CASE i = j
        <5>1. CASE outQueue' = rest \cup {k}
          BY <1>4, <4>1, <4>3, <5>1 DEF Covered
        <5>2. CASE worker.res = "ok"
          <6>1. JustRelayed(j)
            BY <1>2, <1>3, <5>2 DEF JustRelayed
          <6>2. \E a \in RcptsAt(j.native, j.domain) : relayed[<<j.native, a>>] > 0
            BY <1>3, <1>5, <6>1 DEF CopiesFit
          <6> QED
            BY <1>2, <4>1, <4>3, <6>2 DEF Covered
        <5>3. CASE bounced' = bounced \cup ({j.native} \X {j.domain})
          BY <4>1, <4>3, <5>3 DEF Covered
        <5> QED
          BY <1>7, <5>1, <5>2, <5>3
      <4> QED
        BY <4>2, <4>3
    <3> QED
      BY <2>1, <3>1, <3>2, <3>3 DEF Covered
  <2> QED
    BY <1>2, <1>5, <1>8, <2>1, CoverPasses
<1>15. ScanFits'
  BY <1>2, <1>5, <1>8, ScanRests DEF Scanning
<1> QED
  BY <1>10, <1>12, <1>13, <1>14, <1>15 DEF GatewayInv, OutboundFits

(* The record cannot be written.                                           *)
LEMMA SettleOutboundFailsKeeps ==
  ASSUME GatewayInv, SettleOutboundFails
  PROVE  GatewayInv'
<1>1. PICK j : j = OutJob
  OBVIOUS
<1>2. /\ worker.stage = "outSettle" /\ again' = again \cup {<<j.native, j.domain>>}
      /\ UNCHANGED <<smtpVars, inVars, coming, filedNatives, cursor, outQueue, outLog, relayed,
                     bounced, hurt>>
      /\ worker' \in Rounds /\ worker'.stage = "outbound"
  BY <1>1, NextOutFits DEF SettleOutboundFails, InOutbound, GatewayInv
<1>3. /\ j \in outQueue /\ IsNext(j, outQueue)
  BY <1>1, OutJobIs DEF GatewayInv, SettleOutboundFails, InOutbound
<1>4. /\ JobsFit /\ CopiesFit /\ LoggedAreCovered /\ ScanFits
      /\ DOMAIN outLog \subseteq Natives
  BY DEF GatewayInv, OutboundFits, GatewayTypes
<1>5. GatewayTypes' /\ ThreadsFit' /\ InboundFits'
  BY <1>2, OutboundTypes DEF GatewayInv, GatewayTypes, Scanning
<1>6. JobsFit'
  BY <1>2, <1>4, JobsStand
<1>7. CopiesFit'
  <2>1. \A i \in outQueue : JustRelayed(i) => <<i.native, i.domain>> \in again'
    BY <1>2, <1>3, NextIsOne DEF JustRelayed
  <2>2. worker'.stage # "outSettle" /\ again \subseteq again'
    BY <1>2
  <2> QED
    BY <1>2, <1>4, <2>1, <2>2, CopiesStand
<1>8. LoggedAreCovered'
  BY <1>2, <1>4, CoverStands
<1>9. ScanFits'
  BY <1>2, <1>4, ScanRests DEF Scanning
<1> QED
  BY <1>5, <1>6, <1>7, <1>8, <1>9 DEF GatewayInv, OutboundFits

(* The round is over.                                                      *)
LEMMA EndRoundKeeps ==
  ASSUME GatewayInv, EndRound
  PROVE  GatewayInv'
<1>1. /\ UNCHANGED <<smtpVars, inVars, outVars>> /\ worker.stage = "outbound"
      /\ worker' \in Rounds /\ worker'.stage = "idle"
  BY NoRoundFits DEF EndRound
<1>2. OutboundFits'
  BY <1>1, OutboundRests DEF GatewayInv
<1>3. GatewayTypes' /\ ThreadsFit' /\ InboundFits'
  BY <1>1, OutboundTypes DEF GatewayInv, GatewayTypes, Scanning, outVars
<1> QED
  BY <1>2, <1>3 DEF GatewayInv

----------------------------------------------------------------------------
(* Time and crashes.                                                       *)
LEMMA RetryTickKeeps ==
  ASSUME GatewayInv, RetryTick
  PROVE  GatewayInv'
<1>1. /\ inQueue' = MadeDue(inQueue) /\ outQueue' = MadeDue(outQueue)
      /\ UNCHANGED <<smtpVars, inLog, thread, handled, coming, filedNatives, cursor, outLog,
                     relayed, bounced, hurt, again, worker>>
  BY DEF RetryTick, MadeDue
<1>2. /\ inQueue \subseteq InJobs /\ IsFiniteSet(inQueue)
      /\ outQueue \subseteq OutJobs /\ IsFiniteSet(outQueue)
  BY DEF GatewayInv, GatewayTypes
<1>3. /\ inQueue' \subseteq InJobs /\ IsFiniteSet(inQueue')
      /\ \A j \in inQueue : \E k \in inQueue' : k.id = j.id /\ k.mail = j.mail
  BY <1>1, <1>2, MadeDueIs
<1>4. /\ outQueue' \subseteq OutJobs /\ IsFiniteSet(outQueue')
      /\ \A j \in outQueue : \E k \in outQueue' :
           k.id = j.id /\ k.native = j.native /\ k.domain = j.domain
      /\ \A k \in outQueue' : \E j \in outQueue :
           /\ k.id = j.id /\ k.native = j.native /\ k.domain = j.domain
           /\ k = [j EXCEPT !.due = TRUE]
  BY <1>1, <1>2, MadeDueIs
<1>5. GatewayTypes'
  BY <1>1, <1>3, <1>4 DEF GatewayInv, GatewayTypes, smtpVars, Scanning
<1>6. ThreadsFit'
  BY <1>1 DEF GatewayInv, ThreadsFit, Root
<1>7. InboundFits'
  <2>1. \A m : InHand(m) => InHand(m)'
    BY <1>1, <1>3 DEF InHand
  <2>2. worker.stage = "inSettle" => \E j \in inQueue' : j.id \in worker.todo
    BY <1>3 DEF GatewayInv, InboundFits
  <2> QED
    BY <1>1, <2>1, <2>2 DEF GatewayInv, InboundFits, smtpVars
<1>8. JobsFit /\ CopiesFit /\ LoggedAreCovered /\ ScanFits
  BY DEF GatewayInv, OutboundFits
<1>9. Scanned' = Scanned
  BY <1>1 DEF Scanned
<1>10. JobsFit'
  <2>1. \A i, k \in outQueue' :
          i.id = k.id \/ (i.native = k.native /\ i.domain = k.domain) => i = k
    <3> SUFFICES ASSUME NEW i \in outQueue', NEW k \in outQueue',
                        i.id = k.id \/ (i.native = k.native /\ i.domain = k.domain)
                 PROVE  i = k
      OBVIOUS
    <3>1. PICK a \in outQueue : /\ i.id = a.id /\ i.native = a.native /\ i.domain = a.domain
                                /\ i = [a EXCEPT !.due = TRUE]
      BY <1>4
    <3>2. PICK b \in outQueue : /\ k.id = b.id /\ k.native = b.native /\ k.domain = b.domain
                                /\ k = [b EXCEPT !.due = TRUE]
      BY <1>4
    <3>3. a = b
      BY <1>8, <3>1, <3>2 DEF JobsFit
    <3> QED
      BY <3>1, <3>2, <3>3
  <2>2. \A k \in outQueue' : k.native \in DOMAIN outLog' /\ k.domain \in DomainsOf(k.native)
    BY <1>1, <1>4, <1>8 DEF JobsFit
  <2>3. worker.stage = "enqueue" =>
          \A k \in outQueue' : k.native = Scanned => k.domain \notin worker.left
    BY <1>4, <1>8 DEF JobsFit
  <2> QED
    BY <1>1, <1>8, <1>9, <2>1, <2>2, <2>3 DEF JobsFit
<1>11. ASSUME NEW k \in outQueue', NEW j \in outQueue, k.id = j.id
       PROVE  JustRelayed(k)' <=> JustRelayed(j)
  <2>1. IsNext(k, outQueue)' <=> IsNext(j, outQueue)
    BY <1>1, <1>4, <1>11 DEF IsNext
  <2> QED
    BY <1>1, <2>1 DEF JustRelayed
<1>12. CopiesFit'
  <2>1. ASSUME NEW k \in outQueue', NEW a \in DOMAIN DomainOf, a \in RcptsAt(k.native, k.domain)
        PROVE  \/ relayed[<<k.native, a>>] = 0 \/ <<k.native, k.domain>> \in again
               \/ JustRelayed(k)'
    <3>1. PICK j \in outQueue : k.id = j.id /\ k.native = j.native /\ k.domain = j.domain
      BY <1>4
    <3>2. \/ relayed[<<j.native, a>>] = 0 \/ <<j.native, j.domain>> \in again
          \/ JustRelayed(j)
      BY <1>8, <2>1, <3>1 DEF CopiesFit
    <3> QED
      BY <1>11, <3>1, <3>2
  <2>2. ASSUME NEW k \in outQueue', JustRelayed(k)'
        PROVE  \E a \in RcptsAt(k.native, k.domain) : relayed[<<k.native, a>>] > 0
    <3>1. PICK j \in outQueue : k.id = j.id /\ k.native = j.native /\ k.domain = j.domain
      BY <1>4
    <3>2. JustRelayed(j)
      BY <1>11, <2>2, <3>1
    <3> QED
      BY <1>8, <3>1, <3>2 DEF CopiesFit
  <2>3. worker.stage = "outSettle" => \E k \in outQueue' : k.id \in worker.todo
    BY <1>4, <1>8 DEF CopiesFit
  <2>4. RelayedOnce'
    BY <1>1, <1>8 DEF CopiesFit, RelayedOnce
  <2> QED
    BY <1>1, <1>8, <2>1, <2>2, <2>3, <2>4 DEF CopiesFit
<1>13. LoggedAreCovered'
  <2>1. \A n, d : Covered(n, d) => Covered(n, d)'
    BY <1>1, <1>4 DEF Covered
  <2> QED
    BY <1>1, <1>8, <1>9, <2>1 DEF LoggedAreCovered
<1>14. ScanFits'
  BY <1>1, <1>8 DEF ScanFits, Passed, Later, Scanning
<1> QED
  BY <1>5, <1>6, <1>7, <1>10, <1>12, <1>13, <1>14 DEF GatewayInv, OutboundFits

(* A crash forgets the sessions and the round.                             *)
LEMMA CrashKeeps ==
  ASSUME GatewayInv, Crash
  PROVE  GatewayInv'
<1>1. PICK s : s = Scanned
  OBVIOUS
<1>2. /\ worker' \in Rounds /\ worker'.stage = "idle"
      /\ conn' = [c \in Conns |-> Hangup]
      /\ UNCHANGED <<owed, answered, inQueue, inLog, thread, handled, coming, filedNatives, cursor,
                     outQueue, outLog, relayed, bounced>>
      /\ hurt' = IF worker.stage = "enqueue" THEN hurt \cup {s} ELSE hurt
      /\ again' = IF InOutbound("outSettle")
                  THEN again \cup {<<OutJob.native, OutJob.domain>>} ELSE again
  BY <1>1, NoRoundFits DEF Crash, inVars
<1>3. GatewayTypes'
  <2>1. conn' \in [Conns -> Sessions] /\ \A c \in Conns : Enveloped(conn'[c])
    BY <1>2, NewSessionFits DEF SessionFits
  <2> QED
    BY <1>2, <2>1 DEF GatewayInv, GatewayTypes, Scanning
<1>4. ThreadsFit'
  BY <1>2 DEF GatewayInv, ThreadsFit, Root
<1>5. InboundFits'
  <2>1. \A m : InHand(m) => InHand(m)'
    BY <1>2 DEF InHand
  <2>2. \A c \in Conns : conn'[c].phase # "Logging"
    BY <1>2 DEF Hangup, NewSession
  <2> QED
    BY <1>2, <2>1, <2>2 DEF GatewayInv, InboundFits
<1>6. /\ JobsFit /\ CopiesFit /\ LoggedAreCovered /\ ScanFits
      /\ DOMAIN outLog \subseteq Natives
  BY DEF GatewayInv, OutboundFits, GatewayTypes
<1>7. JobsFit'
  BY <1>2, <1>6, JobsStand
<1>8. CopiesFit'
  <2>1. again \subseteq again' /\ worker'.stage # "outSettle"
    BY <1>2
  <2>2. ASSUME NEW i \in outQueue, JustRelayed(i)
        PROVE  <<i.native, i.domain>> \in again'
    <3>1. InOutbound("outSettle")
      BY <2>2 DEF JustRelayed, InOutbound, IsNext
    <3>2. OutJob \in outQueue /\ IsNext(OutJob, outQueue)
      BY <3>1, OutJobIs DEF GatewayInv, InOutbound
    <3>3. OutJob = i
      BY <2>2, <3>2, NextIsOne DEF JustRelayed
    <3> QED
      BY <1>2, <3>1, <3>3
  <2> QED
    BY <1>2, <1>6, <2>1, <2>2, CopiesStand
<1>9. LoggedAreCovered'
  BY <1>1, <1>2, <1>6, CoverStands
<1>10. ScanFits'
  BY <1>2, <1>6, ScanRests DEF Scanning
<1> QED
  BY <1>3, <1>4, <1>5, <1>7, <1>8, <1>9, <1>10 DEF GatewayInv, OutboundFits

(* No variable changes.                                                    *)
LEMMA GatewayRests ==
  ASSUME GatewayInv, UNCHANGED gatewayVars
  PROVE  GatewayInv'
<1>1. UNCHANGED <<smtpVars, inVars, outVars, worker>>
  BY DEF gatewayVars
<1>2. UNCHANGED <<conn, owed, answered, inQueue, inLog, thread, handled>>
  BY <1>1 DEF smtpVars, inVars
<1>3. OutboundFits'
  BY <1>1, OutboundStands DEF GatewayInv
<1>4. GatewayTypes'
  BY <1>1, <1>2 DEF GatewayInv, GatewayTypes, outVars, Scanning
<1>5. ThreadsFit' /\ InboundFits'
  BY <1>1, <1>2 DEF GatewayInv, ThreadsFit, Root, InboundFits, InHand
<1> QED
  BY <1>3, <1>4, <1>5 DEF GatewayInv

(* The invariant holds at the start.                                       *)
LEMMA GatewayStarts ==
  ASSUME NEW loads, Loads(loads), GatewayInit(loads)
  PROVE  GatewayInv
<1>1. PICK l \in loads : owed = {p \in Pairs : p[1] \in l.mails} /\ coming = l.natives
  BY DEF GatewayInit
<1>2. /\ l.natives \subseteq Natives
      /\ \A x \in l.natives, y \in Natives \ l.natives : At[x] < At[y]
  BY DEF Loads
<1>3. /\ conn = [c \in Conns |-> Hangup]
      /\ inQueue = {} /\ outQueue = {} /\ inLog = <<>> /\ thread = <<>> /\ outLog = <<>>
      /\ filedNatives = {} /\ cursor = 0 /\ worker = NoRound
      /\ answered = {} /\ handled = {} /\ bounced = {} /\ hurt = {} /\ again = {}
      /\ relayed = [p \in Copies |-> 0]
  BY DEF GatewayInit
<1>4. DOMAIN inLog = {} /\ DOMAIN thread = {} /\ DOMAIN outLog = {}
  BY <1>3
<1>5. conn \in [Conns -> Sessions] /\ \A c \in Conns : Enveloped(conn[c])
  BY <1>3, NewSessionFits DEF SessionFits
<1>6. worker \in Rounds /\ worker.stage = "idle"
  BY <1>3, NoRoundFits
<1>7. GatewayTypes
  BY <1>1, <1>2, <1>3, <1>4, <1>5, <1>6, FS_EmptySet DEF GatewayTypes, Scanning
<1>8. ThreadsFit /\ InboundFits
  BY <1>3, <1>4, <1>6 DEF ThreadsFit, InboundFits, Hangup, NewSession
<1>9. JobsFit /\ CopiesFit /\ LoggedAreCovered
  BY <1>3, <1>4, <1>6 DEF JobsFit, CopiesFit, LoggedAreCovered, RelayedOnce
<1>10. ScanFits
  <2>1. \A n \in Natives : At[n] \in Nat /\ 0 < At[n]
    BY GatewayAssumption
  <2>2. Passed(cursor)
    BY <1>3, <2>1 DEF Passed
  <2> QED
    BY <1>1, <1>2, <1>3, <1>4, <1>6, <2>1, <2>2 DEF ScanFits, Later, Scanning
<1> QED
  BY <1>7, <1>8, <1>9, <1>10 DEF GatewayInv, OutboundFits

(* Every step keeps the invariant.                                         *)
LEMMA GatewayStepKeeps ==
  ASSUME GatewayInv, RefsAgree, GatewayNext
  PROVE  GatewayInv'
<1>1. CASE \E c \in Conns : Smtp(c)
  BY <1>1, SmtpKeeps
<1>2. CASE Worker
  BY <1>2, StartRoundKeeps, DeliverInboundKeeps, SettleInboundKeeps, StartScanKeeps,
     PassingKeeps, DeferNativeKeeps, QueueNativeKeeps, EnqueueDomainKeeps, EndScanKeeps,
     TryHostKeeps, NoHostsKeeps, SettleOutboundKeeps, EndRoundKeeps DEF Worker
<1>3. CASE Fault
  BY <1>3, SettleInboundKeeps, PassingKeeps, ReplyLostKeeps, SettleOutboundFailsKeeps, CrashKeeps
     DEF Fault
<1>4. CASE RetryTick
  BY <1>4, RetryTickKeeps
<1> QED
  BY <1>1, <1>2, <1>3, <1>4 DEF GatewayNext

(* The invariant gives the property.                                       *)
LEMMA GatewayKeepsMail ==
  ASSUME GatewayInv
  PROVE  MailIsAccountedFor
<1>1. AcceptedMailIsKept
  BY DEF GatewayInv, InboundFits, AcceptedMailIsKept, InHand
<1>2. ThreadIsTheRoot
  BY DEF GatewayInv, ThreadsFit, ThreadIsTheRoot, Root
<1>3. RelayedOnce
  BY DEF GatewayInv, OutboundFits, CopiesFit
<1>4. ASSUME NEW n \in Natives \ (coming \cup hurt), At[n] <= cursor,
             \A k \in Natives \ {n} : At[k] # At[n], NEW d \in DomainsOf(n)
      PROVE  Covered(n, d)
  <2>1. n \in DOMAIN outLog
    BY <1>4 DEF GatewayInv, OutboundFits, ScanFits, Passed, AloneAtItsTime
  <2>2. CASE worker.stage = "enqueue" /\ n = Scanned
    <3>1. Scanning /\ worker.todo # {}
      BY <2>2 DEF Scanning, GatewayInv, OutboundFits, JobsFit
    <3>2. n \in worker.todo /\ At[n] \in Nat
      BY <2>2, <3>1, ScannedIs DEF GatewayInv
    <3>3. cursor < At[n] /\ cursor \in Nat
      BY <3>1, <3>2 DEF GatewayInv, GatewayTypes, OutboundFits, ScanFits
    <3> QED
      BY <1>4, <3>2, <3>3
  <2>3. CASE ~(worker.stage = "enqueue" /\ n = Scanned)
    BY <1>4, <2>1, <2>3 DEF GatewayInv, OutboundFits, LoggedAreCovered
  <2> QED
    BY <2>2, <2>3
<1>5. RelayIsAccountedFor
  BY <1>4 DEF RelayIsAccountedFor, Covered
<1> QED
  BY <1>1, <1>2, <1>3, <1>5 DEF MailIsAccountedFor

(* MailIsAccountedFor in every run of the gateway.                         *)
THEOREM MailIsAlwaysAccountedFor ==
  ASSUME NEW CONSTANT loads, Loads(loads), RefsAgree
  PROVE  GatewayInit(loads) /\ [][GatewayNext]_gatewayVars => []MailIsAccountedFor
<1>1. GatewayInit(loads) => GatewayInv
  BY GatewayStarts
<1>2. GatewayInv /\ [GatewayNext]_gatewayVars => GatewayInv'
  BY GatewayStepKeeps, GatewayRests
<1>3. GatewayInv => MailIsAccountedFor
  BY GatewayKeepsMail
<1> QED
  BY <1>1, <1>2, <1>3, PTL
=============================================================================
