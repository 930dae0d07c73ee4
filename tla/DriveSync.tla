------------------------------ MODULE DriveSync ------------------------------
(***************************************************************************)
(* Two devices of one account work on one Drive                            *)
(* (sdk/rust/hashgram-sdk/src/drive.rs).  Each edits its own copy of the   *)
(* manifest and writes it to its local store, seals and uploads it when    *)
(* the sync engine commits, and announces the upload to the other device,  *)
(* which downloads and merges it.  A share sends a capability to a         *)
(* grantee, updates follow while it is live, a revocation ends it.         *)
(*                                                                         *)
(* Blobs are immutable and named by their hash: an announcement carries    *)
(* the manifest its cid names, and a download either yields it or fails.   *)
(* Announcements and messages to the grantee overtake each other, and one  *)
(* that is never received is lost.  A crash keeps the local store (the manifest) and the vault (the *)
(* keyring as it was last saved).                                          *)
(***************************************************************************)
EXTENDS DriveManifest

CONSTANTS Devices,     \* the devices, numbers in the order of their keys
          Ids,         \* entry ids, positive numbers
          Shares,      \* share ids
          MaxObjects   \* bound on the objects sealed

ASSUME DriveAssumption ==
  /\ Devices \subseteq Nat \ {0} /\ Ids \subseteq Nat \ {0} /\ IsFiniteSet(Ids)
  /\ MaxEntries \in Nat /\ MaxVersions \in Nat \ {0} /\ MaxTombstones \in Nat

NoRing == [drive |-> 0, rev |-> 0, published |-> FALSE]

VARIABLES
  dsc,       \* the scenario
  man,      \* man[d]: DriveState.manifest
  ring,     \* ring[d]: DriveState.keyring (published: manifest_cid is set)
  dirty,    \* dirty[d]: DriveState.dirty
  driveDisk,     \* disk[d]: NS_MANIFEST "current" of the local store
  driveVault,    \* vault[d]: the keyring in the vault as last saved
  busy,     \* busy[d]: a share or revocation that is sent and not yet saved
  net,      \* announcements under way
  mail,     \* messages to the grantee under way
  granted,     \* held[s]: SharedWithMe of the grantee
  driveClock, made, edits,
  left      \* left[d]: commits and restarts the bounds still allow

driveVars == <<dsc, man, ring, dirty, driveDisk, driveVault, busy, net, mail, granted, driveClock, made, edits, left>>

NoManifest == NewManifest(0, 0, 0)
PublishedRing(m) == [drive |-> m.drive, rev |-> m.rev, published |-> TRUE]

DriveInit(scenarios) ==
  /\ dsc \in scenarios
  /\ man = [d \in Devices |->
              IF d \in dsc.fresh THEN NewManifest(d, d, 0) ELSE dsc.start]
  /\ ring = [d \in Devices |->
              IF d \in dsc.fresh THEN [drive |-> d, rev |-> 0, published |-> FALSE]
              ELSE PublishedRing(dsc.start)]
  /\ dirty = [d \in Devices |-> d \in dsc.fresh]
  /\ driveDisk = [d \in Devices |-> IF d \in dsc.fresh THEN NoManifest ELSE dsc.start]
  /\ driveVault = [d \in Devices |-> IF d \in dsc.fresh THEN NoRing ELSE ring[d]]
  /\ busy = [d \in Devices |-> FALSE]
  /\ net = {} /\ mail = {}
  /\ granted = [s \in DOMAIN dsc.start.shares |->
               [live |-> TRUE, no |-> 1, obj |-> 1, revoked |-> FALSE, updates |-> 0]]
  /\ driveClock = 1 /\ made = dsc.made /\ edits = [d \in Devices |-> 0]
  /\ left = [d \in Devices |-> [commits |-> dsc.commits[d], restarts |-> dsc.restarts[d]]]

(***************************************************************************)
(* Edits: each changes the manifest in memory and saves it locally.        *)
(***************************************************************************)
MayEdit(d, op) ==
  /\ op \in dsc.ops /\ ~busy[d]
  /\ edits[d] < dsc.edits[d] /\ man[d].rev < dsc.maxRev
SaveManifestLocally(d, m) ==
  /\ man' = [man EXCEPT ![d] = m]
  /\ driveDisk' = [driveDisk EXCEPT ![d] = m]
  /\ dirty' = [dirty EXCEPT ![d] = TRUE]
Counted(d) == edits' = [edits EXCEPT ![d] = @ + 1]
Edit(d, m) ==
  /\ SaveManifestLocally(d, m)
  /\ Counted(d)
  /\ UNCHANGED <<dsc, ring, driveVault, busy, net, granted, driveClock, left>>

\* Ids are random: any that nobody has used.
Copies == {man[d] : d \in Devices} \cup {driveDisk[d] : d \in Devices} \cup {n.m : n \in net}
UsedIds == UNION {DOMAIN m.entries \cup DOMAIN m.tombs : m \in Copies}
NewIds == dsc.ids \ UsedIds
Names == {Plain(b) : b \in dsc.names}

Mkdir(d, id, p, name) ==
  /\ MayEdit(d, "mkdir")
  /\ CanPlace(man[d], p, name) /\ id \in NewIds
  /\ Edit(d, Place(man[d], id, p, name, NoObject, d, driveClock))
  /\ UNCHANGED <<mail, made>>
Upload(d, id, p, name) ==
  /\ MayEdit(d, "upload")
  /\ made < MaxObjects
  /\ CanPlace(man[d], p, name) /\ id \in NewIds
  /\ made' = made + 1
  /\ Edit(d, Place(man[d], id, p, name, made', d, driveClock))
  /\ UNCHANGED mail
\* copy: a file with an object that exists already (save_capability does the
\* same with the object of a capability).
Copy(d, id, from, p, name) ==
  /\ MayEdit(d, "copy")
  /\ IsFile(man[d], from) /\ CanPlace(man[d], p, name) /\ id \in NewIds
  /\ Edit(d, Place(man[d], id, p, name, man[d].entries[from].current, d, driveClock))
  /\ UNCHANGED <<mail, made>>

\* update: the new version goes to every live share of the file.
LiveUpdates(m, id) ==
  {[kind |-> "update", sid |-> s, no |-> VersionNo(m, id), obj |-> m.entries[id].current] :
     s \in LiveSharesOf(m, id)}
Update(d, id) ==
  LET m == UpdateFile(man[d], id, made + 1, d, driveClock) IN
  /\ MayEdit(d, "update")
  /\ made < MaxObjects /\ IsFile(man[d], id)
  /\ made' = made + 1
  /\ Edit(d, m)
  /\ mail' = mail \cup LiveUpdates(m, id)
RestoreAVersion(d, id, no) ==
  /\ MayEdit(d, "restore_version")
  /\ IsFile(man[d], id) /\ no \in DOMAIN man[d].entries[id].versions
  /\ Edit(d, RestoreVersion(man[d], id, no, d, driveClock))
  /\ UNCHANGED <<mail, made>>
\* rekey: every share of the file is revoked, then the content is sealed
\* again as a new version.
Rekey(d, id) ==
  LET cut == {s \in DOMAIN man[d].shares : man[d].shares[s].entry = id /\ ~man[d].shares[s].revoked}
      m == [man[d] EXCEPT !.shares = Cut(@, cut), !.rev = @ + Cardinality(cut)]
  IN /\ MayEdit(d, "rekey")
     /\ made < MaxObjects /\ IsFile(man[d], id)
     /\ made' = made + 1
     /\ Edit(d, UpdateFile(m, id, made', d, driveClock))
     /\ mail' = mail \cup {[kind |-> "revoke", sid |-> s] : s \in cut}

RenameEntry(d, id, name) ==
  /\ MayEdit(d, "rename")
  /\ CanRename(man[d], id, name)
  /\ Edit(d, Rename(man[d], id, name, d, driveClock)) /\ UNCHANGED <<mail, made>>
MoveEntry(d, id, p) ==
  /\ MayEdit(d, "mv")
  /\ CanMove(man[d], id, p)
  /\ Edit(d, MoveTo(man[d], id, p, d, driveClock)) /\ UNCHANGED <<mail, made>>
TrashEntry(d, id) ==
  /\ MayEdit(d, "trash")
  /\ id \in DOMAIN man[d].entries
  /\ Edit(d, Trash(man[d], id, d, driveClock)) /\ UNCHANGED <<mail, made>>
RestoreEntry(d, id) ==
  /\ MayEdit(d, "restore")
  /\ id \in DOMAIN man[d].entries
  /\ Edit(d, Restore(man[d], id, d, driveClock)) /\ UNCHANGED <<mail, made>>
DeleteEntry(d, id) ==
  /\ MayEdit(d, "delete")
  /\ CanDelete(man[d], id)
  /\ Edit(d, Delete(man[d], id, d, driveClock)) /\ UNCHANGED <<mail, made>>
EmptyTheTrash(d) ==
  /\ MayEdit(d, "empty")
  /\ Edit(d, EmptyTrash(man[d], d, driveClock)) /\ UNCHANGED <<mail, made>>
Star(d, id) ==
  /\ MayEdit(d, "star")
  /\ id \in DOMAIN man[d].entries
  /\ Edit(d, SetStarred(man[d], id, ~man[d].entries[id].starred, d, driveClock))
  /\ UNCHANGED <<mail, made>>

(***************************************************************************)
(* Sharing.  The record is made, the message is sent, and only then is the *)
(* manifest saved: busy[d] is the window between.                          *)
(***************************************************************************)
UsedShares ==
  (UNION {DOMAIN m.shares : m \in Copies}) \cup DOMAIN granted \cup {x.sid : x \in mail}

\* share: when the message cannot be sent the call fails with the record
\* still in memory.  A folder share sends a sealed snapshot of the folder.
Share(d, sid, id, live, delivered) ==
  /\ MayEdit(d, "share") /\ made < MaxObjects /\ sid \in Shares \ UsedShares /\ CanGrant(man[d], id)
  /\ made' = IF IsFile(man[d], id) THEN made ELSE made + 1
  /\ man' = [man EXCEPT ![d] = Grant(man[d], sid, id, live, d, driveClock)]
  /\ mail' = IF delivered
             THEN mail \cup {[kind |-> "share", sid |-> sid, live |-> live,
                              no |-> VersionNo(man[d], id),
                              obj |-> IF IsFile(man[d], id) THEN man[d].entries[id].current
                                      ELSE made']}
             ELSE mail
  /\ busy' = [busy EXCEPT ![d] = delivered]
  /\ Counted(d)
  /\ UNCHANGED <<dsc, ring, dirty, driveDisk, driveVault, net, granted, driveClock, left>>
RevokeShare(d, sid) ==
  /\ MayEdit(d, "revoke") /\ CanRevoke(man[d], sid)
  /\ man' = [man EXCEPT ![d] = RevokedShare(man[d], sid, d, driveClock)]
  /\ mail' = mail \cup {[kind |-> "revoke", sid |-> sid]}
  /\ busy' = [busy EXCEPT ![d] = TRUE]
  /\ Counted(d)
  /\ UNCHANGED <<dsc, ring, dirty, driveDisk, driveVault, net, granted, driveClock, made, left>>
SaveShare(d) ==
  /\ busy[d]
  /\ SaveManifestLocally(d, man[d])
  /\ busy' = [busy EXCEPT ![d] = FALSE]
  /\ UNCHANGED <<dsc, ring, driveVault, net, mail, granted, driveClock, made, edits, left>>

\* handle_incoming of the grantee's client.
Held(x, upd) == [live |-> x.live, no |-> x.no, obj |-> x.obj, revoked |-> FALSE, updates |-> upd]
TakesUpdate(x) == x.sid \in DOMAIN granted /\ ~granted[x.sid].revoked /\ granted[x.sid].live
GranteeReceives(x) ==
  /\ x \in mail
  /\ mail' = mail \ {x}
  /\ granted' =
       IF x.kind = "share" THEN Joined(Only(x.sid, Held(x, 0)), granted)
       ELSE IF x.kind = "update" /\ TakesUpdate(x)
            THEN [granted EXCEPT ![x.sid].obj = x.obj, ![x.sid].updates = @ + 1,
                              ![x.sid].no = Highest({@, x.no})]
       ELSE IF x.kind = "revoke" /\ x.sid \in DOMAIN granted
            THEN [granted EXCEPT ![x.sid].revoked = TRUE]
       ELSE granted
  /\ UNCHANGED <<dsc, man, ring, dirty, driveDisk, driveVault, busy, net, driveClock, made, edits, left>>

(***************************************************************************)
(* Commit and merge.                                                       *)
(***************************************************************************)
\* commit: nothing to do when clean, else seal, upload, take the revision
\* into the keyring and announce it.
Commit(d) ==
  /\ left[d].commits > 0 /\ left' = [left EXCEPT ![d].commits = @ - 1]
  /\ ~busy[d] /\ (dirty[d] \/ ~ring[d].published)
  /\ ring' = [ring EXCEPT ![d].rev = man[d].rev, ![d].published = TRUE]
  /\ dirty' = [dirty EXCEPT ![d] = FALSE]
  /\ net' = net \cup {[to |-> e, drive |-> ring[d].drive, rev |-> man[d].rev, m |-> man[d]] :
                        e \in Devices \ {d}}
  /\ UNCHANGED <<dsc, man, driveDisk, driveVault, busy, mail, granted, driveClock, made, edits>>

\* apply_keyring.  A device without content takes over the announced Drive;
\* the keyring is replaced before the manifest is fetched.
HasContent(d) == ring[d].published \/ DOMAIN man[d].entries # {}
Adopts(d, n) == ring[d].drive # n.drive /\ ~HasContent(d)
RingFor(d, n) == IF Adopts(d, n) THEN [drive |-> n.drive, rev |-> 0, published |-> FALSE]
                 ELSE ring[d]
Known(d, n) == n.rev <= RingFor(d, n).rev
Untouched(m) == DOMAIN m.entries = {} /\ m.rev <= 1
Takes(d, n) == IF Untouched(man[d]) THEN n.m ELSE Merge(man[d], n.m)
CanTake(d, n) == IF Untouched(man[d]) THEN Valid(n.m) ELSE CanMerge(man[d], n.m)

ApplyKeyring(d, n, fetched) ==
  /\ n \in net /\ n.to = d /\ ~busy[d] /\ man[d].rev < dsc.maxRev
  /\ net' = net \ {n}
  /\ LET ours == ring[d].drive = n.drive \/ Adopts(d, n)
         takes == ours /\ ~Known(d, n) /\ fetched /\ CanTake(d, n)
         m == Takes(d, n)
     IN /\ ring' = [ring EXCEPT ![d] =
                      IF takes THEN [drive |-> n.drive, rev |-> n.rev, published |-> TRUE]
                      ELSE IF ours THEN RingFor(d, n) ELSE @]
        /\ man' = IF takes THEN [man EXCEPT ![d] = m] ELSE man
        /\ driveDisk' = IF takes THEN [driveDisk EXCEPT ![d] = m] ELSE driveDisk
        /\ dirty' = IF takes THEN [dirty EXCEPT ![d] = m.rev > n.rev] ELSE dirty
  /\ UNCHANGED <<dsc, driveVault, busy, mail, granted, driveClock, made, edits, left>>

\* HashgramOne::save writes the keyring into the vault.
SaveVault(d) ==
  /\ left[d].restarts > 0 /\ ~busy[d] /\ driveVault[d] # ring[d]
  /\ driveVault' = [driveVault EXCEPT ![d] = ring[d]]
  /\ UNCHANGED <<dsc, man, ring, dirty, driveDisk, busy, net, mail, granted, driveClock, made, edits, left>>

\* A restart: DriveState::load.  Without a keyring a new Drive is made; with
\* one, the cached manifest is used, or an empty one of the same id.
Reloaded(d) ==
  IF driveVault[d] = NoRing THEN NewManifest(Highest(Devices) + d, d, driveClock)
  ELSE IF driveDisk[d] = NoManifest THEN [NewManifest(driveVault[d].drive, d, driveClock) EXCEPT !.rev = 0]
  ELSE driveDisk[d]
RestartDrive(d) ==
  /\ left[d].restarts > 0 /\ left' = [left EXCEPT ![d].restarts = @ - 1]
  /\ (driveDisk[d] # NoManifest => Valid(driveDisk[d]))
  /\ man' = [man EXCEPT ![d] = Reloaded(d)]
  /\ ring' = [ring EXCEPT ![d] =
       IF driveVault[d] = NoRing THEN [drive |-> Highest(Devices) + d, rev |-> 0, published |-> FALSE]
       ELSE driveVault[d]]
  /\ dirty' = [dirty EXCEPT ![d] = driveVault[d] = NoRing]
  /\ busy' = [busy EXCEPT ![d] = FALSE]
  /\ UNCHANGED <<dsc, driveDisk, driveVault, net, mail, granted, driveClock, made, edits>>

DriveTick ==
  /\ driveClock < dsc.until
  /\ driveClock' = driveClock + 1
  /\ UNCHANGED <<dsc, man, ring, dirty, driveDisk, driveVault, busy, net, mail, granted, made, edits, left>>

Places == Ids \cup {Root}
DriveNext ==
  \/ \E d \in Devices :
       \/ \E id \in dsc.ids, p \in Places, name \in Names :
            \/ Mkdir(d, id, p, name)
            \/ Upload(d, id, p, name)
            \/ \E from \in Ids : Copy(d, id, from, p, name)
       \/ \E id \in Ids :
            \/ Update(d, id)
            \/ \E no \in 1..dsc.maxRev : RestoreAVersion(d, id, no)
            \/ Rekey(d, id)
            \/ \E name \in Names : RenameEntry(d, id, name)
            \/ \E p \in Places : MoveEntry(d, id, p)
            \/ TrashEntry(d, id)
            \/ RestoreEntry(d, id)
            \/ DeleteEntry(d, id)
            \/ Star(d, id)
            \/ \E sid \in Shares, live, delivered \in BOOLEAN : Share(d, sid, id, live, delivered)
       \/ EmptyTheTrash(d)
       \/ \E sid \in Shares : RevokeShare(d, sid)
       \/ SaveShare(d)
       \/ Commit(d)
       \/ \E n \in net, fetched \in BOOLEAN : ApplyKeyring(d, n, fetched)
       \/ SaveVault(d)
       \/ RestartDrive(d)
  \/ \E x \in mail : GranteeReceives(x)
  \/ DriveTick

(***************************************************************************)
(* Properties                                                              *)
(***************************************************************************)
\* What a device keeps can always be decoded again: no sequence of edits,
\* merges and restarts leaves a manifest from_pb refuses, which would lock
\* the user out of the Drive at the next start (DriveState::load).
TreeStaysValid ==
  \A d \in Devices : Valid(man[d]) /\ (driveDisk[d] # NoManifest => Valid(driveDisk[d]))

\* The two copies the devices hold at any moment merge to one content
\* whichever device does it, when different devices wrote them last: both
\* choose the same winner of every entry (drive::merge, a_wins).
MergeCommutes ==
  \A d, e \in Devices :
    d < e /\ man[d].drive = man[e].drive /\ man[d].dev # man[e].dev
      => /\ Content(Merge(man[d], man[e])) = Content(Merge(man[e], man[d]))
         /\ CanMerge(man[d], man[e]) <=> CanMerge(man[e], man[d])

\* A merge keeps what both devices see as the content of a file: the copy
\* that loses stays reachable as a version, unless the file was deleted or
\* its history is at the limit.
Contents(e) == {e.current} \cup {e.versions[n] : n \in DOMAIN e.versions}
ContentSurvivesMerge ==
  \A d, e \in Devices : d < e /\ man[d].drive = man[e].drive =>
    LET m == Merge(man[d], man[e]) IN
    \A id \in DOMAIN m.entries : \A x \in {man[d], man[e]} :
      IsFile(x, id) => \/ x.entries[id].current \in Contents(m.entries[id])
                      \/ Cardinality(DOMAIN m.entries[id].versions) = MaxVersions

\* A merge is sound: it can be stored, it does not depend on who does it,
\* and it loses no content.
MergeIsSound == TreeStaysValid /\ MergeCommutes /\ ContentSurvivesMerge

\* A revocation a device has saved is never undone on that device, whatever
\* it merges later; and the grantee's client, once told, takes no more
\* content for the share.
RevokedIn(m, s) == m # NoManifest /\ s \in DOMAIN m.shares /\ m.shares[s].revoked
RevokedStaysRevoked ==
  [][/\ \A d \in Devices, s \in Shares :
          RevokedIn(driveDisk[d], s) /\ driveDisk[d].drive = driveDisk'[d].drive => RevokedIn(driveDisk'[d], s)
     /\ \A s \in DOMAIN granted :
          granted[s].revoked => granted'[s].revoked /\ granted'[s].obj = granted[s].obj]_driveVars
=============================================================================
