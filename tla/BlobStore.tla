------------------------------ MODULE BlobStore ------------------------------
(***************************************************************************)
(* The blob tables of one store node (node/hashgram-node/src/blob.rs):     *)
(* manifests, chunks shared between blobs by their hash and counted,       *)
(* which chunks of a manifest are present, and what every uploader has     *)
(* reserved.  Each operator is one read or one write transaction; Blobs    *)
(* interleaves them.                                                       *)
(***************************************************************************)
EXTENDS Integers, FiniteSetsExt, Sequences

CONSTANTS ChunksOf,   \* ChunksOf[c]: the chunk hashes of blob c, a sequence
          SizeOf,     \* SizeOf[c]: the declared size
          Quota,      \* the node's quota, 0 for none
          UploaderShare, \* the part of it one uploader may use
          TTL         \* INCOMPLETE_UPLOAD_TTL_SECS

Total(f, S) == MapThenSumSet(LAMBDA x : f[x], S)

Indices(c) == DOMAIN ChunksOf[c]
HashAt(c, i) == ChunksOf[c][i]
Row(s, c) == {i \in Indices(c) : <<c, i>> \in s.present}
Missing(s, c) == Indices(c) \ Row(s, c)
Complete(s, c) == c \in DOMAIN s.meta /\ Missing(s, c) = {}

\* meta stands for the MANIFESTS and META rows of a blob, which are written
\* and removed together.
EmptyStore == [meta |-> <<>>, present |-> {}, refs |-> <<>>, usage |-> <<>>]
At(f, x) == IF x \in DOMAIN f THEN f[x] ELSE 0
Set(f, x, v) == [y \in DOMAIN f \cup {x} |-> IF y = x THEN v ELSE f[y]]
Drop(f, x) == [y \in DOMAIN f \ {x} |-> f[y]]

\* A chunk is held exactly while it is counted: CHUNKS and CHUNK_REFS rows
\* come and go together.
Holds(s, h) == h \in DOMAIN s.refs

BytesUsed(s) == Total(s.usage, DOMAIN s.usage)
QuotaRefuses(s, c, up) ==
  /\ Quota > 0
  /\ \/ BytesUsed(s) + SizeOf[c] > Quota
     \/ At(s.usage, up) + SizeOf[c] > UploaderShare

\* What a transaction writes: the manifests and reservations, or the rows
\* of chunks and their counts.
WithMeta(s, meta, usage) == [s EXCEPT !.meta = meta, !.usage = usage]
WithRows(s, present, refs) == [s EXCEPT !.present = present, !.refs = refs]

\* put_manifest, first transaction: the manifest, its uploader and time,
\* and the uploader's reservation.
Reserve(s, c, up, t) ==
  WithMeta(s, Set(s.meta, c, [up |-> up, at |-> t]),
           Set(s.usage, up, At(s.usage, up) + SizeOf[c]))

\* put_manifest, second transaction: chunks another blob brought count as
\* present.
RowsOf(c, idx) == {<<c, i>> : i \in idx}
TimesIn(c, idx, h) == Cardinality({i \in idx : HashAt(c, i) = h})
RefsAfter(refs, c, idx) ==
  [h \in DOMAIN refs \cup {HashAt(c, i) : i \in idx} |-> At(refs, h) + TimesIn(c, idx, h)]
MarkHeld(s, c) ==
  LET idx == {i \in Indices(c) : Holds(s, HashAt(c, i))}
  IN WithRows(s, s.present \cup RowsOf(c, idx), RefsAfter(s.refs, c, idx))

\* put_chunk: the row, the bytes when nobody brought them yet, and the count.
AddChunkUncounted(s, c, i) ==
  IF <<c, i>> \in s.present THEN s
  ELSE WithRows(s, s.present \cup {<<c, i>>},
                IF Holds(s, HashAt(c, i)) THEN s.refs ELSE RefsAfter(s.refs, c, {i}))
AddChunk(s, c, i) ==
  IF <<c, i>> \in s.present THEN s
  ELSE WithRows(s, s.present \cup RowsOf(c, {i}), RefsAfter(s.refs, c, {i}))

\* delete: the rows of the chunks go, and the chunks no other row counts.
RefsWithout(refs, c, idx) ==
  [h \in {x \in DOMAIN refs : refs[x] > TimesIn(c, idx, x)} |-> refs[h] - TimesIn(c, idx, h)]
ReleaseChunks(s, c) ==
  WithRows(s, s.present \ RowsOf(c, Row(s, c)), RefsWithout(s.refs, c, Row(s, c)))
\* The reservation returns to the uploader on record, if the manifest did
\* not vanish meanwhile.
ReleaseRows(s, c) ==
  IF c \notin DOMAIN s.meta THEN ReleaseChunks(s, c)
  ELSE LET up == s.meta[c].up
           rest == At(s.usage, up) - SizeOf[c]
       IN WithMeta(ReleaseChunks(s, c), Drop(s.meta, c),
                   IF rest <= 0 THEN Drop(s.usage, up) ELSE Set(s.usage, up, rest))

\* expire_incomplete: what its read finds due.
Due(s, t) ==
  {c \in DOMAIN s.meta : s.meta[c].at + TTL < t /\ Missing(s, c) # {}}

\* The rows say what is there: every present chunk is held.
PresentAreHeld(s) ==
  \A r \in s.present :
    /\ Holds(s, HashAt(r[1], r[2]))
    /\ s.refs[HashAt(r[1], r[2])] >=
         Cardinality({q \in s.present : HashAt(q[1], q[2]) = HashAt(r[1], r[2])})
ReservedBy(s, up) == {c \in DOMAIN s.meta : s.meta[c].up = up}
=============================================================================
