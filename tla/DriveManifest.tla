---------------------------- MODULE DriveManifest ----------------------------
(***************************************************************************)
(* The manifest of a HashDrive (node/hashgram-app/src/drive.rs): a flat    *)
(* list of entries with parent pointers, the shares granted and the        *)
(* tombstones of deleted entries, the edits a device makes to it, and the  *)
(* merge of two manifests that devices wrote concurrently.                 *)
(*                                                                         *)
(* Entry ids are positive numbers in the byte order of the real ids, Root  *)
(* is the empty parent id.  A name is a base and the tags merge and        *)
(* restore append to it; names equal up to case are one name.  An object   *)
(* reference is a number that stands for its cid and key.                  *)
(***************************************************************************)
EXTENDS Integers, Sequences, FiniteSets

CONSTANTS MaxEntries,     \* MAX_ENTRIES
          MaxVersions,    \* MAX_VERSIONS_PER_ENTRY
          MaxTombstones   \* MAX_TOMBSTONES

Root == 0
NoObject == 0
Plain(base) == <<base, <<>>>>

(***************************************************************************)
(* Helpers: f on the largest n elements of its domain (a Vec that is cut   *)
(* from the front), f joined under g, a map of one key, f without some keys. *)
(***************************************************************************)
KeepLast(f, n) ==
  [k \in {x \in DOMAIN f : Cardinality({y \in DOMAIN f : y > x}) < n} |-> f[k]]
Joined(f, g) == [k \in DOMAIN f \cup DOMAIN g |-> IF k \in DOMAIN f THEN f[k] ELSE g[k]]
Only(k, v) == [x \in {k} |-> v]
Without(f, S) == [k \in DOMAIN f \ S |-> f[k]]
Highest(S) == IF S = {} THEN 0 ELSE CHOOSE x \in S : \A y \in S : y <= x

NewManifest(drive, dev, t) ==
  [drive |-> drive, rev |-> 1, at |-> t, dev |-> dev,
   entries |-> <<>>, shares |-> <<>>, tombs |-> <<>>]

Entry(parent, folder, name, t, obj) ==
  [parent |-> parent, folder |-> folder, name |-> name, mtime |-> t,
   trashed |-> FALSE, trashedAt |-> 0, starred |-> FALSE,
   current |-> obj, versions |-> <<>>]

(***************************************************************************)
(* The tree.                                                               *)
(***************************************************************************)
\* The entry and everything under it.
Subtree(m, id) ==
  LET es == m.entries
      n == Cardinality(DOMAIN es)
      within[k \in 0..n] ==
        IF k = 0 THEN DOMAIN es \cap {id}
        ELSE within[k - 1] \cup {i \in DOMAIN es : es[i].parent \in within[k - 1]}
  IN within[n]

\* The folders between an entry and the root, itself included: what the
\* loops over parent pointers of mv and check_acyclic walk.  A walk longer
\* than the manifest has met a cycle.
Ancestors(es, id) ==
  LET n == Cardinality(DOMAIN es)
      up[k \in 0..n] ==
        IF k = 0 THEN id
        ELSE IF up[k - 1] \in DOMAIN es THEN es[up[k - 1]].parent ELSE Root
  IN {up[k] : k \in 0..n}

Acyclic(es) == \A i \in DOMAIN es : Root \in Ancestors(es, i)

\* Manifest::from_pb and validate_entry: what a manifest must satisfy to be
\* decoded, downloaded or produced by a merge.
Valid(m) ==
  /\ Cardinality(DOMAIN m.entries) <= MaxEntries
  /\ Cardinality(DOMAIN m.tombs) <= MaxTombstones
  /\ \A i \in DOMAIN m.entries :
       LET e == m.entries[i] IN
       /\ Cardinality(DOMAIN e.versions) <= MaxVersions
       /\ e.folder => e.current = NoObject /\ e.versions = <<>>
       /\ e.parent # Root => /\ e.parent \in DOMAIN m.entries
                             /\ m.entries[e.parent].folder
  /\ Acyclic(m.entries)

ActiveFolder(m, p) ==
  p = Root \/ (p \in DOMAIN m.entries /\ m.entries[p].folder /\ ~m.entries[p].trashed)

FreeName(m, p, name, except) ==
  \A i \in DOMAIN m.entries \ {except} :
    ~(m.entries[i].parent = p /\ ~m.entries[i].trashed /\ m.entries[i].name = name)

\* bump: every edit moves the revision and stamps its author.
Bump(m, dev, t) == [m EXCEPT !.rev = @ + 1, !.at = t, !.dev = dev]

(***************************************************************************)
(* The edits.  CanX is the check of X, X the manifest after it.            *)
(***************************************************************************)
CanPlace(m, p, name) ==
  /\ ActiveFolder(m, p)
  /\ FreeName(m, p, name, Root)
  /\ Cardinality(DOMAIN m.entries) < MaxEntries
\* mkdir and add_file (NoObject for a folder)
Place(m, id, p, name, obj, dev, t) ==
  Bump([m EXCEPT !.entries = Joined(@, Only(id, Entry(p, obj = NoObject, name, t, obj)))], dev, t)

IsFile(m, id) == id \in DOMAIN m.entries /\ ~m.entries[id].folder
VersionNo(m, id) == Highest(DOMAIN m.entries[id].versions) + 1

UpdateFile(m, id, obj, dev, t) ==
  LET e == m.entries[id]
      kept == Joined(Only(VersionNo(m, id), e.current), e.versions)
  IN Bump([m EXCEPT !.entries[id] =
             [e EXCEPT !.versions = KeepLast(kept, MaxVersions),
                       !.current = obj, !.mtime = t]], dev, t)

RestoreVersion(m, id, no, dev, t) ==
  UpdateFile(m, id, m.entries[id].versions[no], dev, t)

CanRename(m, id, name) ==
  id \in DOMAIN m.entries /\ FreeName(m, m.entries[id].parent, name, id)
Rename(m, id, name, dev, t) ==
  Bump([m EXCEPT !.entries[id].name = name, !.entries[id].mtime = t], dev, t)

CanMove(m, id, p) ==
  /\ ActiveFolder(m, p)
  /\ id \notin Ancestors(m.entries, p)
  /\ id \in DOMAIN m.entries
  /\ FreeName(m, p, m.entries[id].name, id)
MoveTo(m, id, p, dev, t) ==
  Bump([m EXCEPT !.entries[id].parent = p, !.entries[id].mtime = t], dev, t)

MarkTrashed(m, ids, flag, t) ==
  [m EXCEPT !.entries = [i \in DOMAIN @ |->
     IF i \in ids THEN [@[i] EXCEPT !.trashed = flag, !.trashedAt = t] ELSE @[i]]]
Trash(m, id, dev, t) == Bump(MarkTrashed(m, Subtree(m, id), TRUE, t), dev, t)

\* restore: to the root when the parent is itself in the trash, under a new
\* name when the old one is taken.
Restore(m, id, dev, t) ==
  LET p == m.entries[id].parent
      up == IF p = Root \/ (p \in DOMAIN m.entries /\ ~m.entries[p].trashed) THEN p ELSE Root
      back == [MarkTrashed(m, Subtree(m, id), FALSE, 0) EXCEPT !.entries[id].parent = up]
      name == back.entries[id].name
      new == IF FreeName(back, up, name, id) THEN name
             ELSE <<name[1], Append(name[2], -t)>>
  IN Bump([back EXCEPT !.entries[id].name = new], dev, t)

\* The newest tombstones; older ones fall out at the limit.
KeepNewest(tombs) ==
  [k \in {x \in DOMAIN tombs :
            Cardinality({y \in DOMAIN tombs : tombs[y] > tombs[x] \/ (tombs[y] = tombs[x] /\ y > x)})
              < MaxTombstones} |-> tombs[k]]

CanDelete(m, id) == id \in DOMAIN m.entries /\ m.entries[id].trashed
RemoveAll(m, ids, t) ==
  [m EXCEPT !.entries = Without(@, ids),
            !.tombs = KeepNewest(Joined([i \in ids |-> t], @)),
            !.shares = [s \in DOMAIN @ |->
               IF @[s].entry \in ids THEN [@[s] EXCEPT !.revoked = TRUE] ELSE @[s]]]
Delete(m, id, dev, t) == Bump(RemoveAll(m, Subtree(m, id), t), dev, t)

\* empty_trash: deletes the trashed entries one after the other, the ones
\* that went with an earlier folder skipped.
EmptyTrash(m, dev, t) ==
  LET n == Highest(DOMAIN m.entries)
      left[k \in 0..n] ==
        IF k = 0 THEN m
        ELSE IF k \in DOMAIN m.entries /\ m.entries[k].trashed /\ k \in DOMAIN left[k - 1].entries
             THEN Delete(left[k - 1], k, dev, t) ELSE left[k - 1]
  IN left[n]

SetStarred(m, id, on, dev, t) == Bump([m EXCEPT !.entries[id].starred = on], dev, t)

(***************************************************************************)
(* Sharing.                                                                *)
(***************************************************************************)
CanGrant(m, id) == id \in DOMAIN m.entries /\ ~m.entries[id].trashed
Grant(m, sid, id, live, dev, t) ==
  Bump([m EXCEPT !.shares = Joined(@, Only(sid, [entry |-> id, live |-> live, revoked |-> FALSE]))],
       dev, t)
CanRevoke(m, sid) == sid \in DOMAIN m.shares /\ ~m.shares[sid].revoked
RevokedShare(m, sid, dev, t) == Bump([m EXCEPT !.shares[sid].revoked = TRUE], dev, t)

\* rekey: revoke for each of these shares.
Cut(shares, cut) == [s \in DOMAIN shares |-> [shares[s] EXCEPT !.revoked = @ \/ s \in cut]]

LiveSharesOf(m, id) ==
  {s \in DOMAIN m.shares : m.shares[s].entry = id /\ ~m.shares[s].revoked /\ m.shares[s].live}

(***************************************************************************)
(* merge                                                                   *)
(***************************************************************************)
FirstWins(a, b, id) == a.entries[id].mtime >= b.entries[id].mtime
\* Whether a's copy of an entry is the one both devices must choose.
Wins(a, b, id) ==
  LET ta == a.entries[id].mtime  tb == b.entries[id].mtime
  IN ta > tb \/ (ta = tb /\ a.dev >= b.dev)

\* Versions by number, the winner's first, and the loser's content when the
\* winner's history does not hold it.
MergedVersions(w, l) ==
  LET both == Joined(w.versions, l.versions)
      lost == l.current # w.current /\ \A n \in DOMAIN both : both[n] # l.current
      all == IF lost THEN Joined(Only(Highest(DOMAIN both) + 1, l.current), both) ELSE both
  IN KeepLast(all, MaxVersions)

MergedEntry(w, l) ==
  LET stays == l.trashed /\ ~w.trashed /\ l.trashedAt > w.mtime
  IN [w EXCEPT !.versions = MergedVersions(w, l),
               !.trashed = @ \/ stays,
               !.trashedAt = IF stays THEN l.trashedAt ELSE @]

RevokedByBoth(a, b) ==
  [s \in DOMAIN a.shares \cup DOMAIN b.shares |->
     IF s \notin DOMAIN b.shares THEN a.shares[s]
     ELSE IF s \notin DOMAIN a.shares THEN b.shares[s]
     ELSE [a.shares[s] EXCEPT !.revoked = @ /\ b.shares[s].revoked]]
MergedShares(a, b) ==
  [s \in DOMAIN a.shares \cup DOMAIN b.shares |->
     IF s \notin DOMAIN b.shares THEN a.shares[s]
     ELSE IF s \notin DOMAIN a.shares THEN b.shares[s]
     ELSE [a.shares[s] EXCEPT !.revoked = @ \/ b.shares[s].revoked]]

MergedTombs(a, b) ==
  [i \in DOMAIN a.tombs \cup DOMAIN b.tombs |->
     Highest({m.tombs[i] : m \in {x \in {a, b} : i \in DOMAIN x.tombs}})]

\* Entries whose parent did not survive go to the root ...
Rehomed(es) ==
  [i \in DOMAIN es |->
     IF es[i].parent \in DOMAIN es THEN es[i] ELSE [es[i] EXCEPT !.parent = Root]]
\* ... and of active siblings with one name, all but the first get their
\* own id appended.
Renamed(es) ==
  [i \in DOMAIN es |->
     IF ~es[i].trashed
        /\ \E j \in DOMAIN es : /\ j < i /\ ~es[j].trashed
                                /\ es[j].parent = es[i].parent /\ es[j].name = es[i].name
     THEN [es[i] EXCEPT !.name = <<@[1], Append(@[2], i)>>] ELSE es[i]]

\* The merge itself; it is an error when the result is not Valid, see
\* CanMerge.
Merge(a, b) ==
  LET tombs == MergedTombs(a, b)
      pick(i) == IF i \notin DOMAIN b.entries THEN a.entries[i]
                 ELSE IF i \notin DOMAIN a.entries THEN b.entries[i]
                 ELSE IF Wins(a, b, i) THEN MergedEntry(a.entries[i], b.entries[i])
                 ELSE MergedEntry(b.entries[i], a.entries[i])
      es == [i \in DOMAIN a.entries \cup DOMAIN b.entries |-> pick(i)]
      alive == {i \in DOMAIN es : i \notin DOMAIN tombs \/ es[i].mtime > tombs[i]}
      newer == IF a.at >= b.at THEN a ELSE b
  IN [drive |-> a.drive, rev |-> Highest({a.rev, b.rev}) + 1,
      at |-> newer.at, dev |-> newer.dev,
      entries |-> Renamed(Rehomed([i \in alive |-> es[i]])),
      shares |-> MergedShares(a, b), tombs |-> KeepNewest(tombs)]

CanMerge(a, b) == a.drive = b.drive /\ Valid(Merge(a, b))

\* What the user of a device sees of the drive.
Content(m) == [entries |-> m.entries, shares |-> m.shares, tombs |-> m.tombs]
=============================================================================
