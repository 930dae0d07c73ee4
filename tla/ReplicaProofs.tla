---------------------------- MODULE ReplicaProofs ----------------------------
(***************************************************************************)
(* Proofs about what is replicated: the timeline of a circle, for any      *)
(* devices, scenarios and orders of events, the manifest of a Drive, and   *)
(* the blobs of store nodes, for any nodes, clients, losses and crashes.   *)
(***************************************************************************)
EXTENDS Circles, DriveSync, Blobs, FiniteSums

----------------------------------------------------------------------------
(* The authors.                                                            *)

LEMMA AuthorsFinite == IsFiniteSet(Authors)
<1> DEFINE f == [d \in CircleDevices |-> CircleOwner[d]]
<1>1. f \in Surjection(CircleDevices, Authors)
  BY DEF Surjection, Authors
<1> QED
  BY <1>1, CircleAssumption, FS_Surjection

----------------------------------------------------------------------------
(* Timelines.                                                              *)
Options == 0..PollOptions - 1
Kinds == {"info", "post", "comment", "reaction", "vote", "delete"}

Timelines ==
  [open : BOOLEAN, info : Int, items : SUBSET CircleIds, gone : SUBSET CircleIds,
   seen : SUBSET CircleIds,
   react : [CircleIds -> [Authors -> Reactions \cup {"none"}]],
   rcount : [CircleIds -> [Reactions -> Nat]],
   vote : [CircleIds -> [Authors -> SUBSET Options]],
   vcount : [CircleIds -> [Options -> Nat]]]

(* An event that was written: its number, and what a reaction or a vote    *)
(* refers to.                                                              *)
EventFits(e) ==
  /\ e.id \in CircleIds /\ e.author \in Authors /\ e.kind \in Kinds
  /\ e.kind \in {"reaction", "vote", "delete"} => e.ref \in CircleIds
  /\ e.reaction \in Reactions \cup {"none"}
  /\ e.choice \in SUBSET Options

(* The counts and the choices of one item.                                 *)
ReactionsCount(t, i) ==
  /\ \A r \in Reactions : t.rcount[i][r] = Cardinality({a \in Authors : t.react[i][a] = r})
  /\ \A a \in Authors : t.react[i][a] # "none" => i \in t.items
VotesCount(t, i) ==
  /\ \A o \in Options : t.vcount[i][o] = Cardinality({a \in Authors : o \in t.vote[i][a]})
  /\ \A a \in Authors, o \in Options : o \in t.vote[i][a] => i \in t.items
OneVote(t, i, poll) ==
  ~poll.multi => \A a \in Authors : \A o, q \in t.vote[i][a] : o = q

Tallied(t, evs) ==
  /\ t \in Timelines
  /\ t.items \subseteq 1..Len(evs)
  /\ \A i \in CircleIds : ReactionsCount(t, i) /\ VotesCount(t, i)
  /\ \A i \in t.items : OneVote(t, i, evs[i])

LEMMA EmptyCounts ==
  ASSUME NEW evs
  PROVE  Tallied(EmptyTimeline, evs) /\ Tallied(NoTimeline, evs)
<1>1. Cardinality({}) = 0
  BY FS_EmptySet
<1>2. ASSUME NEW t, NEW b \in BOOLEAN,
             t = [open |-> b, info |-> 0, items |-> {}, gone |-> {}, seen |-> {},
                  react |-> EmptyTimeline.react, rcount |-> EmptyTimeline.rcount,
                  vote |-> EmptyTimeline.vote, vcount |-> EmptyTimeline.vcount]
      PROVE  Tallied(t, evs)
  <2>1. t \in Timelines
    BY <1>2 DEF Timelines, EmptyTimeline, Options
  <2>2. ASSUME NEW i \in CircleIds PROVE ReactionsCount(t, i) /\ VotesCount(t, i)
    <3>1. \A r \in Reactions : t.rcount[i][r] = 0 /\ {a \in Authors : t.react[i][a] = r} = {}
      BY <1>2 DEF EmptyTimeline, Reactions
    <3>2. \A o \in Options : t.vcount[i][o] = 0 /\ {a \in Authors : o \in t.vote[i][a]} = {}
      BY <1>2 DEF EmptyTimeline, Options
    <3>3. \A a \in Authors : t.react[i][a] = "none" /\ t.vote[i][a] = {}
      BY <1>2 DEF EmptyTimeline
    <3> QED
      BY <1>1, <3>1, <3>2, <3>3 DEF ReactionsCount, VotesCount
  <2> QED
    BY <1>2, <2>1, <2>2 DEF Tallied
<1>3. Tallied(EmptyTimeline, evs)
  <2>1. EmptyTimeline =
          [open |-> TRUE, info |-> 0, items |-> {}, gone |-> {}, seen |-> {},
           react |-> EmptyTimeline.react, rcount |-> EmptyTimeline.rcount,
           vote |-> EmptyTimeline.vote, vcount |-> EmptyTimeline.vcount]
    BY DEF EmptyTimeline
  <2> QED
    BY <1>2, <2>1
<1>4. Tallied(NoTimeline, evs)
  <2>1. EmptyTimeline \in Timelines
    BY <1>3 DEF Tallied
  <2>2. ASSUME NEW x \in Timelines, Tallied(x, evs) PROVE Tallied([x EXCEPT !.open = FALSE], evs)
    <3>1. [x EXCEPT !.open = FALSE] \in Timelines
      BY <2>2 DEF Timelines
    <3> QED
      <4> DEFINE y == [x EXCEPT !.open = FALSE]
      <4>1. /\ y \in Timelines /\ y.items = x.items /\ y.react = x.react /\ y.rcount = x.rcount
            /\ y.vote = x.vote /\ y.vcount = x.vcount
        BY <2>2, <3>1 DEF Timelines
      <4> HIDE DEF y
      <4>2. ASSUME NEW i \in CircleIds PROVE ReactionsCount(y, i) /\ VotesCount(y, i)
        <5>1. ReactionsCount(x, i) /\ VotesCount(x, i)
          BY <2>2 DEF Tallied
        <5> QED
          BY <4>1, <5>1 DEF ReactionsCount, VotesCount
      <4>3. Tallied(y, evs)
        BY <2>2, <4>1, <4>2 DEF Tallied, OneVote
      <4> QED
        BY <4>3 DEF y
  <2> QED
    BY <1>3, <2>1, <2>2, Zenon DEF NoTimeline
<1> QED
  BY <1>3, <1>4

(* What the events other than reactions and votes leave alone.             *)
SameChoices(t, u) ==
  t.react = u.react /\ t.rcount = u.rcount /\ t.vote = u.vote /\ t.vcount = u.vcount

LEMMA ItemsJoin ==
  ASSUME NEW t, NEW u, NEW evs, Tallied(t, cev), u \in Timelines, SameChoices(t, u),
         t.items \subseteq u.items, u.items \subseteq 1..Len(evs),
         Len(cev) \in Nat, \A i \in 1..Len(cev) : evs[i] = cev[i]
  PROVE  Tallied(u, evs)
<1>1. ASSUME NEW i \in CircleIds PROVE ReactionsCount(u, i) /\ VotesCount(u, i)
  BY <1>1 DEF Tallied, SameChoices, ReactionsCount, VotesCount
<1>2. ASSUME NEW i \in u.items PROVE OneVote(u, i, evs[i])
  <2>1. CASE i \in t.items
    BY <2>1 DEF Tallied, SameChoices, OneVote
  <2>2. CASE i \notin t.items
    <3>1. i \in CircleIds
      BY <1>2 DEF Timelines
    <3>2. \A a \in Authors, o \in Options : o \notin u.vote[i][a]
      BY <2>2, <3>1 DEF Tallied, SameChoices, VotesCount
    <3>3. \A a \in Authors : u.vote[i][a] \subseteq Options
      BY <3>1 DEF Timelines
    <3> QED
      BY <3>2, <3>3 DEF OneVote
  <2> QED
    BY <2>1, <2>2
<1> QED
  BY <1>1, <1>2 DEF Tallied

(* A count that one choice leaves and another joins.                       *)
Moved(n, leaves, joins) == (IF leaves THEN Less(n) ELSE n) + (IF joins THEN 1 ELSE 0)

(* One author's reaction to an item changes.                               *)
ReactionStep(t, u, i, a0) ==
  /\ t \in Timelines /\ u \in Timelines /\ i \in CircleIds /\ a0 \in Authors
  /\ u.items = t.items
  /\ u.react[i][a0] # "none" => i \in t.items
  /\ \A a \in Authors : a # a0 => u.react[i][a] = t.react[i][a]
  /\ \A r \in Reactions :
       u.rcount[i][r] = Moved(t.rcount[i][r], t.react[i][a0] = r, u.react[i][a0] = r)

LEMMA ReactionMoves ==
  ASSUME NEW t, NEW u, NEW i, NEW a0, ReactionStep(t, u, i, a0), ReactionsCount(t, i)
  PROVE  ReactionsCount(u, i)
<1> USE DEF ReactionStep
<1> DEFINE prev == t.react[i][a0]
           now == u.react[i][a0]
<1> DEFINE Who(x, r) == {a \in Authors : x.react[i][a] = r}
<1>1. ASSUME NEW r \in Reactions PROVE u.rcount[i][r] = Cardinality(Who(u, r))
  <2> DEFINE S == Who(t, r)
             R == Who(u, r)
  <2>1. IsFiniteSet(S)
    BY AuthorsFinite, FS_Subset
  <2>2. S \ {a0} = R \ {a0}
    OBVIOUS
  <2>3. (a0 \in S <=> prev = r) /\ (a0 \in R <=> now = r)
    OBVIOUS
  <2>4. t.rcount[i][r] = Cardinality(S)
    BY DEF ReactionsCount
  <2>5. a0 \in S => Cardinality(S) # 0
    BY <2>1, FS_EmptySet
  <2>6. u.rcount[i][r] = Moved(t.rcount[i][r], prev = r, now = r)
    OBVIOUS
  <2> HIDE DEF S, R
  <2>7. IsFiniteSet(R) /\ Cardinality(S) \in Nat /\ Cardinality(R) \in Nat
    BY <2>1, <2>2, OneMoves
  <2>8. a0 \in S /\ a0 \notin R => Cardinality(R) = Cardinality(S) - 1
    BY <2>1, <2>2, OneMoves
  <2>9. a0 \notin S /\ a0 \in R => Cardinality(R) = Cardinality(S) + 1
    BY <2>1, <2>2, OneMoves
  <2>10. (a0 \in S <=> a0 \in R) => R = S
    BY <2>2
  <2>11. u.rcount[i][r] = Cardinality(R)
    BY <2>3, <2>4, <2>5, <2>6, <2>7, <2>8, <2>9, <2>10 DEF Less, Moved
  <2> QED
    BY <2>11 DEF R
<1>2. ASSUME NEW a \in Authors, u.react[i][a] # "none" PROVE i \in u.items
  BY <1>2 DEF ReactionsCount
<1> QED
  BY <1>1, <1>2 DEF ReactionsCount

LEMMA SameReactions ==
  ASSUME NEW t, NEW u, NEW i, ReactionsCount(t, i), u.items = t.items,
         u.react[i] = t.react[i], u.rcount[i] = t.rcount[i]
  PROVE  ReactionsCount(u, i)
BY DEF ReactionsCount

LEMMA SameVotes ==
  ASSUME NEW t, NEW u, NEW i, VotesCount(t, i), u.items = t.items,
         u.vote[i] = t.vote[i], u.vcount[i] = t.vcount[i]
  PROVE  VotesCount(u, i)
BY DEF VotesCount

(* A reaction takes back the previous one of its author and item.          *)
LEMMA ReactionKeepsCounts ==
  ASSUME NEW t, Tallied(t, cev), NEW e, EventFits(e), e.ref \in CircleIds
  PROVE  Tallied(Reacted(t, e), cev)
<1> DEFINE i0 == e.ref
           a0 == e.author
           u == Reacted(t, e)
           prev == t.react[i0][a0]
           counts == e.reaction # "none" /\ i0 \in t.items
           now == IF counts THEN e.reaction ELSE "none"
           less == IF prev # "none" /\ i0 \in t.items
                   THEN [t.rcount EXCEPT ![i0][prev] = Less(@)] ELSE t.rcount
           more == IF counts THEN [less EXCEPT ![i0][e.reaction] = @ + 1] ELSE less
<1>1. /\ t \in Timelines /\ i0 \in CircleIds /\ a0 \in Authors
      /\ now \in Reactions \cup {"none"} /\ prev \in Reactions \cup {"none"}
      /\ t.rcount \in [CircleIds -> [Reactions -> Nat]]
  BY DEF Tallied, EventFits, Timelines
<1>2. u = [t EXCEPT !.react[i0][a0] = now, !.rcount = more]
  BY DEF Reacted
<1>3. prev # "none" => i0 \in t.items
  BY <1>1 DEF Tallied, ReactionsCount
<1>4. /\ less \in [CircleIds -> [Reactions -> Nat]]
      /\ \A i \in CircleIds : i # i0 => less[i] = t.rcount[i]
      /\ \A r \in Reactions :
           less[i0][r] = IF prev = r THEN Less(t.rcount[i0][r]) ELSE t.rcount[i0][r]
  <2>1. CASE prev = "none"
    BY <1>1, <2>1 DEF Reactions
  <2>2. CASE prev # "none"
    <3>1. less = [t.rcount EXCEPT ![i0][prev] = Less(@)]
      BY <1>3, <2>2
    <3>2. prev \in Reactions /\ Less(t.rcount[i0][prev]) \in Nat
      BY <1>1, <2>2 DEF Less
    <3> HIDE DEF prev, less, i0
    <3> QED
      BY <1>1, <3>1, <3>2
  <2> QED
    BY <2>1, <2>2
<1>5. /\ more \in [CircleIds -> [Reactions -> Nat]]
      /\ \A i \in CircleIds : i # i0 => more[i] = t.rcount[i]
      /\ \A r \in Reactions : more[i0][r] = less[i0][r] + (IF now = r THEN 1 ELSE 0)
  <2> HIDE DEF less, i0
  <2>1. CASE ~counts
    <3>1. more = less /\ now = "none" /\ "none" \notin Reactions
      BY <2>1 DEF Reactions
    <3>2. \A r \in Reactions : less[i0][r] \in Nat /\ (IF now = r THEN 1 ELSE 0) = 0
      BY <1>1, <1>4, <3>1
    <3> HIDE DEF more, now
    <3>3. \A r \in Reactions : more[i0][r] = less[i0][r] + (IF now = r THEN 1 ELSE 0)
      BY <3>1, <3>2
    <3> QED
      BY <1>4, <3>1, <3>3
  <2>2. CASE counts
    <3>1. e.reaction \in Reactions /\ now = e.reaction
      BY <2>2 DEF EventFits
    <3>2. more = [less EXCEPT ![i0][e.reaction] = @ + 1]
      BY <2>2
    <3>3. less[i0][e.reaction] + 1 \in Nat
      BY <1>1, <1>4, <3>1
    <3>4. e.reaction \in Reactions /\ \A r \in Reactions : now = r <=> r = e.reaction
      BY <3>1
    <3> HIDE DEF more, now
    <3>5. more \in [CircleIds -> [Reactions -> Nat]]
      BY <1>4, <1>1, <3>2, <3>3, <3>4
    <3>6. \A i \in CircleIds : i # i0 => more[i] = less[i]
      BY <1>4, <3>2
    <3>7. \A r \in Reactions : more[i0][r] = IF r = e.reaction THEN less[i0][r] + 1 ELSE less[i0][r]
      BY <1>1, <1>4, <3>2
    <3>8. \A r \in Reactions : less[i0][r] \in Nat
      BY <1>1, <1>4
    <3>9. \A r \in Reactions : more[i0][r] = less[i0][r] + (IF now = r THEN 1 ELSE 0)
      BY <3>4, <3>7, <3>8
    <3> QED
      BY <1>4, <3>5, <3>6, <3>9
  <2> QED
    BY <2>1, <2>2
<1>6. [t.react EXCEPT ![i0][a0] = now] \in [CircleIds -> [Authors -> Reactions \cup {"none"}]]
  BY <1>1 DEF Timelines
<1>7. /\ u \in Timelines /\ u.items = t.items /\ u.vote = t.vote /\ u.vcount = t.vcount
      /\ u.react = [t.react EXCEPT ![i0][a0] = now] /\ u.rcount = more
  BY <1>1, <1>2, <1>5, <1>6 DEF Timelines
<1>8. now # "none" => i0 \in t.items
  OBVIOUS
<1>9. /\ u.react[i0][a0] = now
      /\ \A a \in Authors : a # a0 => u.react[i0][a] = t.react[i0][a]
      /\ \A i \in CircleIds : i # i0 => u.react[i] = t.react[i]
  <2>1. t.react \in [CircleIds -> [Authors -> Reactions \cup {"none"}]]
    BY <1>1 DEF Timelines
  <2> HIDE DEF u, now, i0, a0
  <2> QED
    BY <1>1, <1>7, <2>1
<1>10. \A i \in CircleIds : ReactionsCount(t, i) /\ VotesCount(t, i)
  BY DEF Tallied
<1> HIDE DEF u, prev, now, less, more, counts
<1>11. ASSUME NEW i \in CircleIds PROVE ReactionsCount(u, i) /\ VotesCount(u, i)
  <2>1. VotesCount(u, i)
    BY <1>7, <1>10, SameVotes
  <2>2. CASE i # i0
    <3>1. u.rcount[i] = t.rcount[i] /\ u.react[i] = t.react[i]
      BY <1>5, <1>7, <1>9, <2>2
    <3> QED
      BY <1>7, <1>10, <2>1, <3>1, SameReactions
  <2>3. CASE i = i0
    <3>1. \A r \in Reactions : u.rcount[i0][r] = Moved(t.rcount[i0][r], prev = r, now = r)
      BY <1>4, <1>5, <1>7 DEF Moved
    <3>2. prev = t.react[i0][a0]
      BY DEF prev
    <3>3. ReactionStep(t, u, i0, a0)
      <4> HIDE DEF i0, a0
      <4> QED
        BY <1>1, <1>7, <1>8, <1>9, <3>1, <3>2 DEF ReactionStep
    <3>4. ReactionsCount(u, i0)
      BY <1>1, <1>10, <3>3, ReactionMoves
    <3> QED
      BY <2>1, <2>3, <3>4
  <2> QED
    BY <2>2, <2>3
<1>12. u.items \subseteq 1..Len(cev) /\ \A i \in u.items : OneVote(u, i, cev[i])
  BY <1>7 DEF Tallied, OneVote
<1> QED
  BY <1>7, <1>11, <1>12 DEF Tallied, u

(* One author's vote in a poll changes.                                    *)
VoteStep(t, u, i, a0) ==
  /\ t \in Timelines /\ u \in Timelines /\ i \in CircleIds /\ a0 \in Authors
  /\ u.items = t.items /\ i \in t.items
  /\ \A a \in Authors : a # a0 => u.vote[i][a] = t.vote[i][a]
  /\ \A o \in Options :
       u.vcount[i][o] = Moved(t.vcount[i][o], o \in t.vote[i][a0], o \in u.vote[i][a0])

LEMMA VoteMoves ==
  ASSUME NEW t, NEW u, NEW i, NEW a0, VoteStep(t, u, i, a0), VotesCount(t, i)
  PROVE  VotesCount(u, i)
<1> USE DEF VoteStep
<1> DEFINE Who(x, o) == {a \in Authors : o \in x.vote[i][a]}
<1>1. ASSUME NEW o \in Options PROVE u.vcount[i][o] = Cardinality(Who(u, o))
  <2> DEFINE S == Who(t, o)
             R == Who(u, o)
  <2>1. IsFiniteSet(S)
    BY AuthorsFinite, FS_Subset
  <2>2. S \ {a0} = R \ {a0}
    OBVIOUS
  <2>3. (a0 \in S <=> o \in t.vote[i][a0]) /\ (a0 \in R <=> o \in u.vote[i][a0])
    OBVIOUS
  <2>4. t.vcount[i][o] = Cardinality(S)
    BY DEF VotesCount
  <2>5. a0 \in S => Cardinality(S) # 0
    BY <2>1, FS_EmptySet
  <2>6. u.vcount[i][o] = Moved(t.vcount[i][o], a0 \in S, a0 \in R)
    BY <2>3 DEF Moved
  <2> HIDE DEF S, R
  <2>7. IsFiniteSet(R) /\ Cardinality(S) \in Nat /\ Cardinality(R) \in Nat
    BY <2>1, <2>2, OneMoves
  <2>8. a0 \in S /\ a0 \notin R => Cardinality(R) = Cardinality(S) - 1
    BY <2>1, <2>2, OneMoves
  <2>9. a0 \notin S /\ a0 \in R => Cardinality(R) = Cardinality(S) + 1
    BY <2>1, <2>2, OneMoves
  <2>10. (a0 \in S <=> a0 \in R) => R = S
    BY <2>1, <2>2, OneMoves
  <2>11. u.vcount[i][o] = Cardinality(R)
    BY <2>4, <2>5, <2>6, <2>7, <2>8, <2>9, <2>10 DEF Less, Moved
  <2> QED
    BY <2>11 DEF R
<1> QED
  BY <1>1 DEF VotesCount

LEMMA VoteKeepsCounts ==
  ASSUME NEW t, Tallied(t, cev), NEW e, EventFits(e), e.ref \in CircleIds
  PROVE  Tallied(Voted(t, e), cev)
<1> DEFINE i0 == e.ref
           a0 == e.author
           poll == cev[i0]
           now == Chosen(poll, e.choice)
           prev == t.vote[i0][a0]
           less(o) == IF o \in prev THEN Less(t.vcount[i0][o]) ELSE t.vcount[i0][o]
           counts == [o \in DOMAIN t.vcount[i0] |-> IF o \in now THEN less(o) + 1 ELSE less(o)]
           u == [t EXCEPT !.vote[i0][a0] = now, !.vcount[i0] = counts]
<1>1. /\ t \in Timelines /\ i0 \in CircleIds /\ a0 \in Authors
      /\ t.vcount \in [CircleIds -> [Options -> Nat]]
      /\ t.vote \in [CircleIds -> [Authors -> SUBSET Options]]
      /\ now \in SUBSET Options
  BY DEF Tallied, EventFits, Timelines, Chosen
<1>2. CASE i0 \notin t.items \/ ~poll.poll \/ (poll.closes # 0 /\ e.at > poll.closes)
  BY <1>2 DEF Voted
<1>3. CASE ~(i0 \notin t.items \/ ~poll.poll \/ (poll.closes # 0 /\ e.at > poll.closes))
  <2>1. Voted(t, e) = u
    BY <1>3, Zenon DEF Voted
  <2>2. DOMAIN t.vcount[i0] = Options /\ \A o \in Options : t.vcount[i0][o] \in Nat
    BY <1>1
  <2>3. counts \in [Options -> Nat]
    BY <2>2 DEF Less
  <2> HIDE DEF now, counts
  <2>4. /\ u \in Timelines /\ u.items = t.items /\ u.react = t.react /\ u.rcount = t.rcount
        /\ u.vote = [t.vote EXCEPT ![i0][a0] = now] /\ u.vcount = [t.vcount EXCEPT ![i0] = counts]
    BY <1>1, <2>3 DEF Timelines
  <2> HIDE DEF u, i0, a0, prev
  <2>5. /\ u.vote[i0][a0] = now
        /\ \A a \in Authors : a # a0 => u.vote[i0][a] = t.vote[i0][a]
        /\ u.vcount[i0] = counts
        /\ \A i \in CircleIds : i # i0 => u.vote[i] = t.vote[i] /\ u.vcount[i] = t.vcount[i]
    BY <1>1, <2>4
  <2>6. \A i \in CircleIds : ReactionsCount(t, i) /\ VotesCount(t, i)
    BY DEF Tallied
  <2>7. ASSUME NEW i \in CircleIds PROVE ReactionsCount(u, i) /\ VotesCount(u, i)
    <3>1. ReactionsCount(u, i)
      BY <2>4, <2>6, SameReactions
    <3>2. CASE i # i0
      BY <2>4, <2>5, <2>6, <3>1, <3>2, SameVotes
    <3>3. CASE i = i0
      <4>1. VoteStep(t, u, i0, a0)
        <5>1. \A o \in Options : u.vcount[i0][o] = Moved(t.vcount[i0][o], o \in t.vote[i0][a0], o \in now)
          BY <2>2, <2>5 DEF counts, prev, Moved, Less
        <5>2. i0 \in t.items
          BY <1>3
        <5> QED
          BY <1>1, <2>4, <2>5, <5>1, <5>2 DEF VoteStep
      <4> QED
        BY <2>6, <3>1, <3>3, <4>1, VoteMoves
    <3> QED
      BY <3>2, <3>3
  <2>8. u.items \subseteq 1..Len(cev)
    BY <2>4 DEF Tallied
  <2>9. ASSUME NEW i \in u.items PROVE OneVote(u, i, cev[i])
    <3>1. OneVote(t, i, cev[i]) /\ i \in CircleIds
      BY <2>4 DEF Tallied, Timelines
    <3>2. CASE i # i0
      BY <2>5, <3>1, <3>2 DEF OneVote
    <3>3. CASE i = i0
      <4>1. ~poll.multi => \A o, q \in now : o = q
        <5>1. \A o, q \in e.choice : o \in Int /\ q \in Int
          BY DEF EventFits, Options
        <5> QED
          BY <5>1 DEF now, Chosen
      <4> QED
        BY <2>5, <3>1, <3>3, <4>1 DEF OneVote
    <3> QED
      BY <3>2, <3>3
  <2>10. Tallied(u, cev)
    BY <2>4, <2>7, <2>8, <2>9 DEF Tallied
  <2> QED
    BY <2>1, <2>10
<1> QED
  BY <1>2, <1>3

LEMMA OtherFields ==
  ASSUME NEW s, s \in Timelines, NEW g, g \in SUBSET CircleIds
  PROVE  /\ [s EXCEPT !.gone = g] \in Timelines
         /\ SameChoices(s, [s EXCEPT !.gone = g])
         /\ [s EXCEPT !.gone = g].items = s.items
         /\ [s EXCEPT !.items = g] \in Timelines
         /\ SameChoices(s, [s EXCEPT !.items = g])
         /\ [s EXCEPT !.items = g].items = g
<1>1. /\ [s EXCEPT !.gone = g] \in Timelines
      /\ SameChoices(s, [s EXCEPT !.gone = g])
      /\ [s EXCEPT !.gone = g].items = s.items
  BY DEF Timelines, SameChoices
<1>2. [s EXCEPT !.items = g] \in Timelines /\ [s EXCEPT !.items = g].items = g
  BY DEF Timelines
<1>3. SameChoices(s, [s EXCEPT !.items = g])
  BY DEF Timelines, SameChoices
<1> QED
  BY <1>1, <1>2, <1>3

(* Timeline::apply: of an event already written, or of the next one.       *)
LEMMA ApplyKeepsCounts ==
  ASSUME Len(cev) \in Nat,
         NEW t, Tallied(t, cev), NEW e, EventFits(e), NEW evs, Len(evs) \in Nat,
         e.id \in 1..Len(evs), Len(cev) <= Len(evs), \A i \in 1..Len(cev) : evs[i] = cev[i]
  PROVE  Tallied(ApplyCircle(t, e), evs)
<1>1. t \in Timelines /\ e.id \in CircleIds
  BY DEF Tallied, EventFits
<1>2. Tallied(t, evs)
  <2>1. t.items \subseteq 1..Len(evs)
    BY DEF Tallied
  <2> QED
    BY <1>1, <2>1, ItemsJoin DEF SameChoices
<1>3. CASE e.id \in t.seen
  BY <1>2, <1>3 DEF ApplyCircle
<1>4. CASE e.id \notin t.seen
  <2> DEFINE s == [t EXCEPT !.open = TRUE, !.seen = @ \cup {e.id}]
             u == Folded(s, e)
  <2>1. /\ s \in Timelines /\ SameChoices(t, s) /\ s.items = t.items /\ s.gone = t.gone
    BY <1>1 DEF Timelines, SameChoices
  <2>2. Tallied(s, cev)
    <3>1. s.items \subseteq 1..Len(cev)
      BY <2>1 DEF Tallied
    <3> HIDE DEF s
    <3> QED
      BY <2>1, <3>1, ItemsJoin
  <2>3. ApplyCircle(t, e) = u
    BY <1>4 DEF ApplyCircle
  <2> HIDE DEF s
  <2>4. ASSUME Tallied(u, cev) PROVE Tallied(u, evs)
    <3>1. u \in Timelines /\ u.items \subseteq 1..Len(evs)
      BY <2>4 DEF Tallied
    <3> HIDE DEF u
    <3>2. SameChoices(u, u)
      BY DEF SameChoices
    <3> QED
      BY <2>4, <3>1, <3>2, ItemsJoin
  <2>5. CASE e.kind = "info"
    <3>1. u = [s EXCEPT !.info = e.id]
      BY <2>5 DEF Folded
    <3>2. e.id \in Int
      OBVIOUS
    <3>3. u \in Timelines /\ SameChoices(s, u) /\ u.items = s.items
      BY <2>1, <3>1, <3>2 DEF Timelines, SameChoices
    <3>4. u.items \subseteq 1..Len(evs)
      BY <2>2, <3>3 DEF Tallied
    <3> HIDE DEF u
    <3> QED
      BY <2>2, <2>3, <3>3, <3>4, ItemsJoin
  <2>6. CASE e.kind \in {"post", "comment"}
    <3>1. u = [s EXCEPT !.items = @ \cup {e.id}]
      BY <2>6 DEF Folded
    <3>2. u \in Timelines /\ SameChoices(s, u) /\ u.items = s.items \cup {e.id}
      <4> DEFINE g == s.items \cup {e.id}
      <4>1. g \in SUBSET CircleIds
        BY <1>1, <2>1 DEF Timelines
      <4>2. u = [s EXCEPT !.items = g]
        BY <3>1
      <4> HIDE DEF g
      <4> HIDE DEF u
      <4>3. s \in Timelines
        BY <2>1
      <4>4. u \in Timelines /\ SameChoices(s, u) /\ u.items = g
        BY <4>1, <4>2, <4>3, OtherFields
      <4> QED
        BY <4>4 DEF g
    <3>3. u.items \subseteq 1..Len(evs)
      BY <2>2, <3>2 DEF Tallied
    <3> HIDE DEF u
    <3> QED
      BY <2>2, <2>3, <3>2, <3>3, ItemsJoin
  <2>7. CASE e.kind = "reaction"
    <3>1. u = Reacted(s, e) /\ e.ref \in CircleIds
      BY <2>7 DEF Folded, EventFits
    <3> QED
      BY <2>2, <2>3, <2>4, <3>1, ReactionKeepsCounts
  <2>8. CASE e.kind = "vote"
    <3>1. u = Voted(s, e) /\ e.ref \in CircleIds
      BY <2>8 DEF Folded, EventFits
    <3> QED
      BY <2>2, <2>3, <2>4, <3>1, VoteKeepsCounts
  <2>9. CASE e.kind = "delete"
    <3> DEFINE gone == IF e.ref \in s.items /\ cev[e.ref].author = e.author
                       THEN s.gone \cup {e.ref} ELSE s.gone
    <3>1. u = [s EXCEPT !.gone = gone]
      BY <2>9 DEF Folded
    <3>2. gone \in SUBSET CircleIds
      BY <2>1, <2>9 DEF Timelines, EventFits
    <3> HIDE DEF gone
    <3> HIDE DEF u
    <3>3. u \in Timelines /\ SameChoices(s, u) /\ u.items = s.items
      BY <2>1, <3>1, <3>2, OtherFields
    <3>4. u.items \subseteq 1..Len(evs)
      BY <2>2, <3>3 DEF Tallied
    <3> QED
      BY <2>2, <2>3, <3>3, <3>4, ItemsJoin
  <2> QED
    BY <2>5, <2>6, <2>7, <2>8, <2>9 DEF EventFits, Kinds
<1> QED
  BY <1>3, <1>4

----------------------------------------------------------------------------
(* Rebuilding a timeline from the store.                                   *)
EventsFit == \A i \in 1..Len(cev) : EventFits(cev[i]) /\ cev[i].id = i /\ cev[i].at \in Int

LEMMA WrittenFinite ==
  ASSUME Len(cev) \in Nat
  PROVE  IsFiniteSet(1..Len(cev)) /\ \A s \in SUBSET (1..Len(cev)) : IsFiniteSet(s)
<1>1. 1 \in Int /\ Len(cev) \in Int
  OBVIOUS
<1>2. IsFiniteSet(1..Len(cev))
  BY <1>1, FS_Interval
<1> QED
  BY <1>2, FS_Subset

LEMMA LastExists ==
  ASSUME Len(cev) \in Nat, EventsFit, NEW S \in SUBSET (1..Len(cev)), S # {}
  PROVE  LastOf(S) \in S
<1> DEFINE T == {s \in SUBSET (1..Len(cev)) :
                   s = {} \/ \E i \in s : \A j \in s \ {i} : KeyOrder(j, i)}
<1>1. {} \in T
  OBVIOUS
<1>2. ASSUME NEW s \in SUBSET (1..Len(cev)), NEW x \in (1..Len(cev)) \ s, s \in T
      PROVE  s \cup {x} \in T
  <2>1. CASE s = {}
    <3>1. \A j \in (s \cup {x}) \ {x} : KeyOrder(j, x)
      BY <2>1
    <3> QED
      BY <3>1
  <2>2. CASE s # {}
    <3>1. PICK i \in s : \A j \in s \ {i} : KeyOrder(j, i)
      BY <1>2, <2>2
    <3>2. cev[i].at \in Int /\ cev[x].at \in Int /\ \A j \in s : cev[j].at \in Int
      BY DEF EventsFit
    <3>3. CASE KeyOrder(x, i)
      BY <3>1, <3>3
    <3>4. CASE ~KeyOrder(x, i)
      <4>1. KeyOrder(i, x)
        BY <3>2, <3>4 DEF KeyOrder
      <4>2. ASSUME NEW j \in s PROVE KeyOrder(j, x)
        BY <3>1, <3>2, <4>1 DEF KeyOrder
      <4> QED
        BY <4>2
    <3> QED
      BY <3>3, <3>4
  <2> QED
    BY <2>1, <2>2
<1>3. IsFiniteSet(1..Len(cev))
  BY WrittenFinite
<1> HIDE DEF T
<1>4. \A s \in SUBSET (1..Len(cev)) : s \in T
  BY <1>1, <1>2, <1>3, SubsetInduction
<1>5. \E i \in S : \A j \in S \ {i} : KeyOrder(j, i)
  BY <1>4 DEF T
<1> QED
  BY <1>5 DEF LastOf

(* g replays every set of events of sets, all subsets of one another.      *)
Replays(g, sets) ==
  g = [S \in sets |-> IF S = {} THEN EmptyTimeline
                      ELSE ApplyCircle(g[S \ {LastOf(S)}], cev[LastOf(S)])]

LEMMA ReplayExists ==
  ASSUME Len(cev) \in Nat, EventsFit, NEW log \in SUBSET (1..Len(cev))
  PROVE  \E g : Replays(g, SUBSET log)
<1>1. IsFiniteSet(log) /\ \A s \in SUBSET log : IsFiniteSet(s) /\ Cardinality(s) \in Nat
  BY WrittenFinite, FS_Subset, FS_CardinalityType
<1> DEFINE N == {n \in Nat : \E g : Replays(g, UpTo(log, n))}
<1>2. 0 \in N
  <2>1. \A s \in UpTo(log, 0) : s = {}
    BY <1>1, FS_EmptySet DEF UpTo
  <2> DEFINE g == [s \in UpTo(log, 0) |-> EmptyTimeline]
  <2>2. Replays(g, UpTo(log, 0))
    BY <2>1 DEF Replays
  <2> QED
    BY <2>2
<1>3. ASSUME NEW n \in Nat, n \in N PROVE n + 1 \in N
  <2>1. PICK g : Replays(g, UpTo(log, n))
    BY <1>3
  <2> DEFINE step(f, s) == IF s = {} THEN EmptyTimeline
                           ELSE ApplyCircle(f[s \ {LastOf(s)}], cev[LastOf(s)])
             h == [s \in UpTo(log, n + 1) |-> step(g, s)]
  <2>2. \A s \in UpTo(log, n) : g[s] = step(g, s)
    BY <2>1 DEF Replays
  <2>3. ASSUME NEW s \in UpTo(log, n + 1), s # {}
        PROVE  s \ {LastOf(s)} \in UpTo(log, n)
    <3>1. LastOf(s) \in s
      BY <2>3, LastExists DEF UpTo
    <3> DEFINE r == s \ {LastOf(s)}
    <3>2. s \in SUBSET log /\ IsFiniteSet(s) /\ Cardinality(s) \in Nat /\ Cardinality(s) <= n + 1
      BY <1>1 DEF UpTo
    <3>3. r \in SUBSET log /\ Cardinality(r) = Cardinality(s) - 1
      BY <3>1, <3>2, FS_RemoveElement
    <3> HIDE DEF r
    <3>4. Cardinality(r) <= n
      BY <3>2, <3>3
    <3>5. r \in UpTo(log, n)
      BY <3>3, <3>4 DEF UpTo
    <3> QED
      BY <3>5 DEF r
  <2>4. UpTo(log, n) \subseteq UpTo(log, n + 1)
    BY <1>1 DEF UpTo
  <2>5. \A s \in UpTo(log, n) : h[s] = g[s]
    BY <2>2, <2>4
  <2>6. ASSUME NEW s \in UpTo(log, n + 1) PROVE step(h, s) = step(g, s)
    <3>1. CASE s = {}
      BY <3>1
    <3>2. CASE s # {}
      <4>1. h[s \ {LastOf(s)}] = g[s \ {LastOf(s)}]
        BY <2>3, <2>5, <3>2
      <4> HIDE DEF h
      <4> QED
        BY <4>1
    <3> QED
      BY <3>1, <3>2
  <2> DEFINE k == [s \in UpTo(log, n + 1) |-> step(h, s)]
  <2>7. h = k
    <3> HIDE DEF step
    <3> QED
      BY <2>6
  <2>8. Replays(h, UpTo(log, n + 1))
    BY <2>7 DEF Replays
  <2> QED
    BY <2>8
<1> HIDE DEF N
<1>4. Cardinality(log) \in N
  BY <1>1, <1>2, <1>3, SetInduction
<1>5. UpTo(log, Cardinality(log)) = SUBSET log
  BY <1>1, FS_Subset DEF UpTo
<1> QED
  BY <1>4, <1>5 DEF N

LEMMA RebuiltCounts ==
  ASSUME Len(cev) \in Nat, EventsFit, NEW log \in SUBSET (1..Len(cev))
  PROVE  Tallied(Rebuilt(log), cev)
<1> DEFINE g == CHOOSE g : Replays(g, SUBSET log)
<1>1. Replays(g, SUBSET log)
  BY ReplayExists
<1>2. Rebuilt(log) = g[log]
  BY DEF Rebuilt, Replays
<1> HIDE DEF g
<1>3. IsFiniteSet(log) /\ \A s \in SUBSET log : IsFiniteSet(s) /\ Cardinality(s) \in Nat
  BY WrittenFinite, FS_Subset, FS_CardinalityType
<1> DEFINE N == {n \in Nat : \A s \in SUBSET log : Cardinality(s) = n => Tallied(g[s], cev)}
<1>4. ASSUME NEW s \in SUBSET log, s = {} PROVE Tallied(g[s], cev)
  <2>1. g[s] = EmptyTimeline
    BY <1>1, <1>4 DEF Replays
  <2> QED
    BY <2>1, EmptyCounts
<1>5. 0 \in N
  <2>1. ASSUME NEW s \in SUBSET log, Cardinality(s) = 0 PROVE s = {}
    BY <1>3, <2>1, FS_EmptySet
  <2> QED
    BY <1>4, <2>1
<1>6. ASSUME NEW n \in Nat, n \in N PROVE n + 1 \in N
  <2> SUFFICES \A s \in SUBSET log : Cardinality(s) = n + 1 => Tallied(g[s], cev)
    BY <1>6
  <2> TAKE s \in SUBSET log
  <2> HAVE Cardinality(s) = n + 1
  <2> DEFINE last == LastOf(s)
             rest == s \ {last}
  <2>1. CASE s = {}
    BY <1>4, <2>1
  <2>2. CASE s # {}
    <3>1. last \in s
      BY <2>2, LastExists
    <3>2. rest \in SUBSET log /\ Cardinality(rest) = n
      <4>1. IsFiniteSet(s)
        BY <1>3
      <4> HIDE DEF last
      <4>2. Cardinality(s \ {last}) = Cardinality(s) - 1
        BY <3>1, <4>1, FS_RemoveElement
      <4>3. Cardinality(s) - 1 = n
        OBVIOUS
      <4>4. s \ {last} \in SUBSET log
        OBVIOUS
      <4> QED
        BY <4>2, <4>3, <4>4
    <3>3. g[s] = ApplyCircle(g[rest], cev[last])
      BY <1>1, <2>2 DEF Replays
    <3>4. last \in 1..Len(cev)
      BY <3>1
    <3> HIDE DEF last, rest
    <3>5. Tallied(g[rest], cev)
      BY <1>6, <3>2
    <3>6. EventFits(cev[last]) /\ cev[last].id \in 1..Len(cev)
      BY <3>4 DEF EventsFit
    <3>7. Tallied(ApplyCircle(g[rest], cev[last]), cev)
      BY <3>5, <3>6, ApplyKeepsCounts
    <3> QED
      BY <3>3, <3>7
  <2> QED
    BY <2>1, <2>2
<1> HIDE DEF N
<1>7. Cardinality(log) \in N
  BY <1>3, <1>5, <1>6, SetInduction
<1> QED
  BY <1>2, <1>7 DEF N

----------------------------------------------------------------------------
(* The state of the circles.                                               *)
CircleScenarios ==
  [ops : SUBSET STRING, polls : SUBSET [on : BOOLEAN, multi : BOOLEAN, closes : Int],
   times : SUBSET Int, events : Nat, faults : Nat]
Events ==
  [id : CircleIds, author : Authors, at : Int, kind : Kinds, ref : CircleIds \cup {0},
   reaction : Reactions \cup {"none"}, choice : SUBSET Options,
   poll : BOOLEAN, multi : BOOLEAN, closes : Int]

Written ==
  /\ rsc \in CircleScenarios
  /\ cev \in Seq(Events) /\ Len(cev) <= rsc.events
  /\ EventsFit
Stored ==
  /\ clog \in [CircleDevices -> SUBSET (1..Len(cev))]
  /\ cbox \subseteq [to : CircleDevices, id : 1..Len(cev)]
Shown ==
  /\ ctl \in [CircleDevices -> Timelines]
  /\ \A d \in CircleDevices : Tallied(ctl[d], cev)
CircleInv == Written /\ Stored /\ Shown

LEMMA SameMeaning ==
  ASSUME rsc' = rsc
  PROVE  /\ CircleIds' = CircleIds /\ Timelines' = Timelines /\ Events' = Events
         /\ NoTimeline' = NoTimeline
         /\ Authors' = Authors /\ Options' = Options
         /\ \A i : EventFits(cev[i])' <=> EventFits(cev'[i])
<1>1. CircleIds' = CircleIds
  BY DEF CircleIds
<1> QED
  BY <1>1 DEF Timelines, Events, NoTimeline, EmptyTimeline, Authors, Options, EventFits

(* A step that writes nothing.                                             *)
LEMMA NothingWritten ==
  ASSUME CircleInv, UNCHANGED <<rsc, cev>>, NEW d \in CircleDevices, NEW t, Tallied(t, cev),
         ctl' = [ctl EXCEPT ![d] = t],
         clog' \in [CircleDevices -> SUBSET (1..Len(cev))], cbox' = cbox
  PROVE  CircleInv'
<1>1. Written'
  BY SameMeaning DEF CircleInv, Written, EventsFit
<1>2. Stored'
  BY DEF CircleInv, Stored
<1>3. ctl' \in [CircleDevices -> Timelines] /\ \A x \in CircleDevices : Tallied(ctl'[x], cev)
  BY DEF CircleInv, Shown, Tallied
<1>4. ASSUME NEW x \in CircleDevices PROVE Tallied(ctl[x], cev)'
  <2>1. Tallied(ctl'[x], cev')
    BY <1>3
  <2> QED
    BY <2>1, SameMeaning DEF Tallied, ReactionsCount, VotesCount, OneVote
<1>5. Shown'
  BY <1>3, <1>4, SameMeaning DEF Shown
<1> QED
  BY <1>1, <1>2, <1>5 DEF CircleInv

LEMMA SendKeeps ==
  ASSUME CircleInv, NEW d \in CircleDevices, NEW e \in Events,
         e.id = Len(cev) + 1, e.kind \in {"reaction", "vote", "delete"} => e.ref \in CircleIds,
         Len(cev) < rsc.events, SendCircle(d, e)
  PROVE  CircleInv'
<1>1. /\ rsc' = rsc /\ cev' = Append(cev, e) /\ rsc.events \in Nat
      /\ cev \in Seq(Events) /\ Len(cev) \in Nat
  BY DEF SendCircle, CircleInv, Written, CircleScenarios
<1>2. /\ cev' \in Seq(Events) /\ Len(cev') = Len(cev) + 1 /\ cev'[e.id] = e
      /\ \A i \in 1..Len(cev) : cev'[i] = cev[i]
  BY <1>1
<1>3. e.id \in CircleIds /\ EventFits(e)
  BY <1>1 DEF CircleIds, Events, EventFits
<1>4. Written'
  <2>1. cev' \in Seq(Events') /\ Len(cev') <= rsc'.events /\ rsc' \in CircleScenarios
    BY <1>1, <1>2, SameMeaning DEF CircleInv, Written
  <2>2. ASSUME NEW i \in 1..Len(cev')
        PROVE  EventFits(cev'[i]) /\ cev'[i].id = i /\ cev'[i].at \in Int
    <3>1. CASE i = e.id
      BY <1>2, <1>3, <3>1 DEF Events
    <3>2. CASE i # e.id
      <4>1. i \in 1..Len(cev)
        BY <1>1, <1>2, <3>2
      <4> QED
        BY <1>2, <4>1 DEF CircleInv, Written, EventsFit
    <3> QED
      BY <3>1, <3>2
  <2> QED
    BY <1>1, <2>1, <2>2, SameMeaning DEF Written, EventsFit
<1>5. Stored'
  <2>1. 1..Len(cev) \subseteq 1..Len(cev') /\ e.id \in 1..Len(cev')
    BY <1>1, <1>2
  <2>2. cbox' \subseteq [to : CircleDevices, id : 1..Len(cev')]
    BY <2>1 DEF CircleInv, Stored, SendCircle
  <2>3. clog' \in [CircleDevices -> SUBSET (1..Len(cev'))]
    <3>1. clog \in [CircleDevices -> SUBSET (1..Len(cev'))]
      BY <2>1 DEF CircleInv, Stored
    <3>2. clog' = clog \/ clog' = [clog EXCEPT ![d] = @ \cup {e.id}]
      BY DEF SendCircle, Record
    <3> QED
      BY <2>1, <3>1, <3>2
  <2> QED
    BY <2>2, <2>3 DEF Stored
<1>6. ASSUME NEW t, Tallied(t, cev) PROVE Tallied(t, cev')
  <2>1. t \in Timelines /\ t.items \subseteq 1..Len(cev')
    BY <1>1, <1>2, <1>6 DEF Tallied
  <2> QED
    BY <1>2, <1>6, <2>1 DEF Tallied, OneVote
<1>7. /\ ctl' \in [CircleDevices -> Timelines]
      /\ \A x \in CircleDevices : Tallied(ctl'[x], cev')
  <2>1. PICK t : ctl' = [ctl EXCEPT ![d] = t] /\ (t = NoTimeline \/ t = ApplyCircle(ctl[d], e))
    BY DEF SendCircle, Record, CircleInv, Shown
  <2>2. Tallied(t, cev')
    <3>1. CASE t = NoTimeline
      BY <3>1, EmptyCounts
    <3>2. CASE t = ApplyCircle(ctl[d], e)
      <4>1. Tallied(ctl[d], cev)
        BY DEF CircleInv, Shown
      <4>2. Len(cev') \in Nat /\ e.id \in 1..Len(cev') /\ Len(cev) <= Len(cev')
        BY <1>1, <1>2
      <4> QED
        BY <1>1, <1>2, <1>3, <3>2, <4>1, <4>2, ApplyKeepsCounts
    <3> QED
      BY <2>1, <3>1, <3>2
  <2> QED
    BY <1>6, <2>1, <2>2 DEF CircleInv, Shown, Tallied
<1>8. Shown'
  <2>1. ASSUME NEW x \in CircleDevices PROVE Tallied(ctl[x], cev)'
    <3>1. Tallied(ctl'[x], cev')
      BY <1>7
    <3> QED
      BY <1>1, <3>1, SameMeaning DEF Tallied, ReactionsCount, VotesCount, OneVote
  <2> QED
    BY <1>1, <1>7, <2>1, SameMeaning DEF Shown
<1> QED
  BY <1>4, <1>5, <1>8 DEF CircleInv

LEMMA EventBuilt ==
  ASSUME CircleInv, NEW d \in CircleDevices, Len(cev) < rsc.events, NEW kind \in Kinds, NEW at \in Int
  PROVE  /\ CircleEvent(d, kind, at) \in Events
         /\ CircleEvent(d, kind, at).id = Len(cev) + 1 /\ CircleEvent(d, kind, at).kind = kind
<1>1. Len(cev) + 1 \in CircleIds /\ CircleOwner[d] \in Authors
  BY DEF CircleInv, Written, CircleScenarios, CircleIds, Authors
<1> QED
  BY <1>1 DEF CircleEvent, Events

LEMMA WriteKeeps ==
  ASSUME CircleInv, NEW d \in CircleDevices, NEW op, CanWrite(d, op), NEW at \in rsc.times,
         \/ CirclePost(d, at)
         \/ CircleComment(d, at)
         \/ React(d, at)
         \/ Vote(d, at)
         \/ DeleteItem(d, at)
         \/ SetCircleInfo(d, at)
  PROVE  CircleInv'
<1>1. at \in Int /\ Len(cev) < rsc.events /\ rsc \in CircleScenarios
  BY DEF CanWrite, CircleInv, Written, CircleScenarios
<1>2. Items(d) \subseteq CircleIds
  BY DEF CircleInv, Shown, Items, Timelines
<1>3. CASE CirclePost(d, at)
  <2> DEFINE e == CircleEvent(d, "post", at)
  <2>1. e \in Events /\ e.id = Len(cev) + 1 /\ e.kind = "post"
    BY <1>1, EventBuilt DEF Kinds
  <2>2. PICK poll \in rsc.polls :
          SendCircle(d, [e EXCEPT !.poll = poll.on, !.multi = poll.multi, !.closes = poll.closes])
    BY <1>3 DEF CirclePost
  <2>3. poll.on \in BOOLEAN /\ poll.multi \in BOOLEAN /\ poll.closes \in Int
    BY <1>1 DEF CircleScenarios
  <2> HIDE DEF e
  <2> DEFINE f == [e EXCEPT !.poll = poll.on, !.multi = poll.multi, !.closes = poll.closes]
  <2>4. f \in Events /\ f.id = Len(cev) + 1 /\ f.kind = "post"
    BY <2>1, <2>3 DEF Events
  <2> HIDE DEF f
  <2> QED
    BY <1>1, <2>2, <2>4, SendKeeps DEF f
<1>4. CASE CircleComment(d, at)
  <2> DEFINE e == CircleEvent(d, "comment", at)
  <2>1. e \in Events /\ e.id = Len(cev) + 1 /\ e.kind = "comment"
    BY <1>1, EventBuilt DEF Kinds
  <2>2. PICK i \in Items(d) : SendCircle(d, [e EXCEPT !.ref = i])
    BY <1>4 DEF CircleComment
  <2> HIDE DEF e
  <2> DEFINE f == [e EXCEPT !.ref = i]
  <2>3. f \in Events /\ f.id = Len(cev) + 1 /\ f.kind = "comment"
    BY <1>2, <2>1, <2>2 DEF Events
  <2> HIDE DEF f
  <2> QED
    BY <1>1, <2>2, <2>3, SendKeeps DEF f
<1>5. CASE React(d, at)
  <2> DEFINE e == CircleEvent(d, "reaction", at)
  <2>1. e \in Events /\ e.id = Len(cev) + 1
    BY <1>1, EventBuilt DEF Kinds
  <2>2. PICK i \in Items(d), r \in Reactions \cup {"none"} :
          SendCircle(d, [e EXCEPT !.ref = i, !.reaction = r])
    BY <1>5 DEF React
  <2> HIDE DEF e
  <2> DEFINE f == [e EXCEPT !.ref = i, !.reaction = r]
  <2>3. f \in Events /\ f.id = Len(cev) + 1 /\ f.ref \in CircleIds
    BY <1>2, <2>1, <2>2 DEF Events
  <2> HIDE DEF f
  <2> QED
    BY <1>1, <2>2, <2>3, SendKeeps DEF f
<1>6. CASE Vote(d, at)
  <2> DEFINE e == CircleEvent(d, "vote", at)
  <2>1. e \in Events /\ e.id = Len(cev) + 1
    BY <1>1, EventBuilt DEF Kinds
  <2>2. PICK i \in Items(d), c \in SUBSET Options : SendCircle(d, [e EXCEPT !.ref = i, !.choice = c])
    BY <1>6 DEF Vote, Options
  <2> HIDE DEF e
  <2> DEFINE f == [e EXCEPT !.ref = i, !.choice = c]
  <2>3. f \in Events /\ f.id = Len(cev) + 1 /\ f.ref \in CircleIds
    BY <1>2, <2>1, <2>2 DEF Events
  <2> HIDE DEF f
  <2> QED
    BY <1>1, <2>2, <2>3, SendKeeps DEF f
<1>7. CASE DeleteItem(d, at)
  <2> DEFINE e == CircleEvent(d, "delete", at)
  <2>1. e \in Events /\ e.id = Len(cev) + 1
    BY <1>1, EventBuilt DEF Kinds
  <2>2. PICK i \in Items(d) : SendCircle(d, [e EXCEPT !.ref = i])
    BY <1>7 DEF DeleteItem
  <2> HIDE DEF e
  <2> DEFINE f == [e EXCEPT !.ref = i]
  <2>3. f \in Events /\ f.id = Len(cev) + 1 /\ f.ref \in CircleIds
    BY <1>2, <2>1, <2>2 DEF Events
  <2> HIDE DEF f
  <2> QED
    BY <1>1, <2>2, <2>3, SendKeeps DEF f
<1>8. CASE SetCircleInfo(d, at)
  <2> DEFINE e == CircleEvent(d, "info", at)
  <2>1. e \in Events /\ e.id = Len(cev) + 1 /\ e.kind = "info"
    BY <1>1, EventBuilt DEF Kinds
  <2>2. SendCircle(d, e)
    BY <1>8 DEF SetCircleInfo
  <2> HIDE DEF e
  <2> QED
    BY <1>1, <2>1, <2>2, SendKeeps
<1> QED
  BY <1>3, <1>4, <1>5, <1>6, <1>7, <1>8

LEMMA CircleNextKeeps == CircleInv /\ [CircleNext]_circleVars => CircleInv'
<1> SUFFICES ASSUME CircleInv, [CircleNext]_circleVars PROVE CircleInv'
  OBVIOUS
<1>1. CASE UNCHANGED circleVars
  <2>1. Written' /\ Stored'
    BY <1>1, SameMeaning DEF circleVars, CircleInv, Written, Stored, EventsFit
  <2>2. ASSUME NEW x \in CircleDevices PROVE Tallied(ctl[x], cev)'
    <3>1. Tallied(ctl[x], cev) /\ ctl' = ctl /\ cev' = cev /\ rsc' = rsc
      BY <1>1 DEF circleVars, CircleInv, Shown
    <3>2. Tallied(ctl'[x], cev')
      BY <3>1
    <3> QED
      BY <3>1, <3>2, SameMeaning DEF Tallied, ReactionsCount, VotesCount, OneVote
  <2>3. ctl' \in [CircleDevices -> Timelines']
    BY <1>1, SameMeaning DEF circleVars, CircleInv, Shown
  <2> QED
    BY <2>1, <2>2, <2>3 DEF CircleInv, Shown
<1>2. ASSUME NEW d \in CircleDevices,
             \/ circles_post(d)
             \/ circles_comment(d)
             \/ circles_react(d)
             \/ circles_vote(d)
             \/ circles_delete(d)
             \/ circles_set_info(d)
      PROVE  CircleInv'
  BY <1>2, WriteKeeps
     DEF circles_post, circles_comment, circles_react, circles_vote, circles_delete, circles_set_info
<1>3. ASSUME NEW d \in CircleDevices, circles_posts(d) PROVE CircleInv'
  <2>1. Tallied(Rebuilt(clog[d]), cev)
    BY RebuiltCounts DEF CircleInv, Written, Stored
  <2>2. clog' \in [CircleDevices -> SUBSET (1..Len(cev))]
    BY <1>3 DEF circles_posts, CircleInv, Stored
  <2> QED
    BY <1>3, <2>1, <2>2, NothingWritten DEF circles_posts
<1>4. ASSUME NEW d \in CircleDevices, NEW i \in 1..Len(cev), HandleCircle(d, i) PROVE CircleInv'
  <2>1. EventFits(cev[i]) /\ cev[i].id = i /\ Len(cev) \in Nat /\ Tallied(ctl[d], cev)
    BY DEF CircleInv, Written, EventsFit, Shown
  <2>2. Tallied(ApplyCircle(ctl[d], cev[i]), cev)
    BY <2>1, ApplyKeepsCounts
  <2>3. ctl' = [ctl EXCEPT ![d] = ApplyCircle(ctl[d], cev[i])]
    BY <1>4 DEF HandleCircle, Record
  <2>4. clog' \in [CircleDevices -> SUBSET (1..Len(cev))]
    BY <1>4, <2>1 DEF HandleCircle, Record, CircleInv, Stored
  <2> QED
    BY <1>4, <2>2, <2>3, <2>4, NothingWritten DEF HandleCircle
<1>5. ASSUME NEW d \in CircleDevices, RestartCircles(d) PROVE CircleInv'
  <2>1. Tallied(NoTimeline, cev)
    BY EmptyCounts
  <2>2. clog' \in [CircleDevices -> SUBSET (1..Len(cev))]
    BY <1>5 DEF RestartCircles, CircleInv, Stored
  <2> QED
    BY <1>5, <2>1, <2>2, NothingWritten DEF RestartCircles
<1> QED
  BY <1>1, <1>2, <1>3, <1>4, <1>5 DEF CircleNext

LEMMA CircleInitKeeps ==
  ASSUME NEW scenarios, scenarios \subseteq CircleScenarios, CircleInit(scenarios)
  PROVE  CircleInv
<1>1. Written /\ Stored
  BY DEF CircleInit, Written, Stored, EventsFit, CircleScenarios
<1>2. Tallied(NoTimeline, cev)
  BY EmptyCounts
<1>3. Shown
  BY <1>2 DEF CircleInit, Shown, Tallied
<1> QED
  BY <1>1, <1>3 DEF CircleInv

LEMMA CountedIsChosen == CircleInv => CountsAreChoices
<1> SUFFICES ASSUME CircleInv, NEW d \in CircleDevices, NEW i \in 1..Len(cev)
             PROVE  LET t == ctl[d] IN
                    /\ \A r \in Reactions :
                         t.rcount[i][r] = Cardinality({a \in Authors : t.react[i][a] = r})
                    /\ \A o \in 0..PollOptions - 1 :
                         t.vcount[i][o] = Cardinality({a \in Authors : o \in t.vote[i][a]})
                    /\ ~cev[i].multi => \A a \in Authors : Cardinality(t.vote[i][a]) <= 1
  BY DEF CountsAreChoices
<1> DEFINE t == ctl[d]
<1>1. Tallied(t, cev) /\ i \in CircleIds
  BY DEF CircleInv, Shown, Written, CircleScenarios, CircleIds
<1>2. ReactionsCount(t, i) /\ VotesCount(t, i) /\ t \in Timelines
  BY <1>1 DEF Tallied
<1>3. ASSUME ~cev[i].multi, NEW a \in Authors PROVE Cardinality(t.vote[i][a]) <= 1
  <2> DEFINE v == t.vote[i][a]
  <2>1. v \subseteq Options
    BY <1>1, <1>2 DEF Timelines
  <2>2. \A o, q \in v : o = q
    <3>1. CASE i \in t.items
      BY <1>1, <1>3, <3>1 DEF Tallied, OneVote
    <3>2. CASE i \notin t.items
      BY <1>2, <2>1, <3>2 DEF VotesCount
    <3> QED
      BY <3>1, <3>2
  <2> HIDE DEF v
  <2>3. ASSUME v = {} PROVE Cardinality(v) = 0
    BY <2>3, FS_EmptySet
  <2>4. ASSUME v # {} PROVE Cardinality(v) = 1
    <3>1. PICK o \in v : TRUE
      BY <2>4
    <3>2. v = {o}
      BY <2>2, <3>1
    <3>3. Cardinality({o}) = 1
      BY FS_Singleton
    <3> QED
      BY <3>2, <3>3
  <2>5. Cardinality(v) = 0 \/ Cardinality(v) = 1
    BY <2>3, <2>4
  <2> QED
    BY <2>5 DEF v
<1> QED
  BY <1>2, <1>3 DEF ReactionsCount, VotesCount, Options

(* Whatever is repeated, reordered, taken back, lost in a crash or rebuilt *)
(* from the store, a circle's timeline counts what its authors chose       *)
(* (Timeline::apply; circles.rs record, timeline, handle_incoming).        *)
THEOREM CountsAlwaysChoices ==
  ASSUME NEW CONSTANT scenarios, scenarios \subseteq CircleScenarios
  PROVE  CircleInit(scenarios) /\ [][CircleNext]_circleVars => []CountsAreChoices
<1>1. CircleInit(scenarios) => CircleInv
  BY CircleInitKeeps
<1> QED
  BY <1>1, CircleNextKeeps, CountedIsChosen, PTL

----------------------------------------------------------------------------
(* Manifests and the revocations they hold.                                *)
ShareRecords == [entry : Nat, live : BOOLEAN, revoked : BOOLEAN]

ShareMap(sh) == sh \in [DOMAIN sh -> ShareRecords] /\ IsFiniteSet(DOMAIN sh)

(* A manifest of these fields.                                             *)
Manifest(m, drive, rev, at, dev, entries, shares, tombs) ==
  m \in [drive : {drive}, rev : {rev}, at : {at}, dev : {dev},
         entries : {entries}, shares : {shares}, tombs : {tombs}]

(* A manifest a device may hold: what it holds came with edits.            *)
Whole(m) ==
  /\ Manifest(m, m.drive, m.rev, m.at, m.dev, m.entries, m.shares, m.tombs)
  /\ m.rev \in Nat
  /\ DOMAIN m.entries \subseteq Ids
  /\ ShareMap(m.shares)
  /\ DOMAIN m.entries # {} => m.rev >= 1
  /\ DOMAIN m.shares # {} => m.rev >= 2

(* Every revocation in a is in b.                                          *)
StaysRevoked(a, b) == \A s \in DOMAIN a : a[s].revoked => s \in DOMAIN b /\ b[s].revoked
Keeps(m, x) == x.drive = m.drive /\ StaysRevoked(m.shares, x.shares)

LEMMA BumpKeeps ==
  ASSUME NEW m, NEW drive, NEW rev \in Nat, NEW at, NEW dev0, NEW entries, NEW shares, NEW tombs,
         Manifest(m, drive, rev, at, dev0, entries, shares, tombs),
         DOMAIN entries \subseteq Ids,
         ShareMap(shares), DOMAIN shares # {} => rev >= 1,
         NEW dev, NEW t
  PROVE  /\ Whole(Bump(m, dev, t)) /\ Bump(m, dev, t).drive = drive /\ Bump(m, dev, t).shares = shares
         /\ Bump(m, dev, t).entries = entries /\ Bump(m, dev, t).rev = rev + 1
<1> DEFINE x == Bump(m, dev, t)
<1>1. Manifest(x, drive, rev + 1, t, dev, entries, shares, tombs)
  BY DEF Bump, Manifest
<1> HIDE DEF x
<1>2. Whole(x)
  BY <1>1 DEF Whole, Manifest
<1>3. x.drive = drive /\ x.shares = shares /\ x.entries = entries /\ x.rev = rev + 1
  BY <1>1 DEF Manifest
<1> QED
  BY <1>2, <1>3 DEF x

(* An edit of the entries alone.                                           *)
LEMMA EntriesEdited ==
  ASSUME NEW m, Whole(m), NEW es, DOMAIN es \subseteq Ids, NEW dev, NEW t
  PROVE  /\ Whole(Bump([m EXCEPT !.entries = es], dev, t))
         /\ Keeps(m, Bump([m EXCEPT !.entries = es], dev, t))
<1> DEFINE n == [m EXCEPT !.entries = es]
<1>1. Manifest(n, m.drive, m.rev, m.at, m.dev, es, m.shares, m.tombs)
  BY DEF Whole, Manifest
<1>2. m.rev \in Nat /\ ShareMap(m.shares) /\ (DOMAIN m.shares # {} => m.rev >= 1)
  BY DEF Whole
<1> HIDE DEF n
<1>3. Whole(Bump(n, dev, t)) /\ Bump(n, dev, t).drive = m.drive /\ Bump(n, dev, t).shares = m.shares
  BY <1>1, <1>2, BumpKeeps
<1> QED
  BY <1>3 DEF Keeps, StaysRevoked, n

LEMMA PlaceKeeps ==
  ASSUME NEW m, Whole(m), NEW id \in Ids, NEW p, NEW name, NEW obj, NEW dev, NEW t
  PROVE  Whole(Place(m, id, p, name, obj, dev, t)) /\ Keeps(m, Place(m, id, p, name, obj, dev, t))
<1> DEFINE es == Joined(m.entries, Only(id, Entry(p, obj = NoObject, name, t, obj)))
<1>1. DOMAIN es \subseteq Ids
  BY DEF Whole, Joined, Only
<1>2. Place(m, id, p, name, obj, dev, t) = Bump([m EXCEPT !.entries = es], dev, t)
  BY DEF Place
<1> HIDE DEF es
<1> QED
  BY <1>1, <1>2, EntriesEdited

LEMMA FileKeeps ==
  ASSUME NEW m, Whole(m), NEW id, NEW obj, NEW no, NEW name, NEW p, NEW on, NEW dev, NEW t
  PROVE  /\ Whole(UpdateFile(m, id, obj, dev, t)) /\ Keeps(m, UpdateFile(m, id, obj, dev, t))
         /\ Whole(RestoreVersion(m, id, no, dev, t)) /\ Keeps(m, RestoreVersion(m, id, no, dev, t))
         /\ Whole(Rename(m, id, name, dev, t)) /\ Keeps(m, Rename(m, id, name, dev, t))
         /\ Whole(MoveTo(m, id, p, dev, t)) /\ Keeps(m, MoveTo(m, id, p, dev, t))
         /\ Whole(SetStarred(m, id, on, dev, t)) /\ Keeps(m, SetStarred(m, id, on, dev, t))
<1>1. DOMAIN m.entries \subseteq Ids
  BY DEF Whole
<1>2. ASSUME NEW o PROVE Whole(UpdateFile(m, id, o, dev, t)) /\ Keeps(m, UpdateFile(m, id, o, dev, t))
  <2> DEFINE e == m.entries[id]
             kept == Joined(Only(VersionNo(m, id), e.current), e.versions)
             es == [m.entries EXCEPT ![id] = [e EXCEPT !.versions = KeepLast(kept, MaxVersions),
                                                       !.current = o, !.mtime = t]]
  <2>1. DOMAIN es \subseteq Ids
    BY <1>1
  <2>2. UpdateFile(m, id, o, dev, t) = Bump([m EXCEPT !.entries = es], dev, t)
    BY DEF UpdateFile
  <2> HIDE DEF es
  <2> QED
    BY <2>1, <2>2, EntriesEdited
<1>3. Whole(RestoreVersion(m, id, no, dev, t)) /\ Keeps(m, RestoreVersion(m, id, no, dev, t))
  BY <1>2 DEF RestoreVersion
<1>4. Whole(Rename(m, id, name, dev, t)) /\ Keeps(m, Rename(m, id, name, dev, t))
  <2> DEFINE es == [m.entries EXCEPT ![id].name = name, ![id].mtime = t]
  <2>1. DOMAIN es \subseteq Ids
    BY <1>1
  <2>2. Rename(m, id, name, dev, t) = Bump([m EXCEPT !.entries = es], dev, t)
    BY DEF Rename, Whole, Manifest
  <2> HIDE DEF es
  <2> QED
    BY <2>1, <2>2, EntriesEdited
<1>5. Whole(MoveTo(m, id, p, dev, t)) /\ Keeps(m, MoveTo(m, id, p, dev, t))
  <2> DEFINE es == [m.entries EXCEPT ![id].parent = p, ![id].mtime = t]
  <2>1. DOMAIN es \subseteq Ids
    BY <1>1
  <2>2. MoveTo(m, id, p, dev, t) = Bump([m EXCEPT !.entries = es], dev, t)
    BY DEF MoveTo, Whole, Manifest
  <2> HIDE DEF es
  <2> QED
    BY <2>1, <2>2, EntriesEdited
<1>6. Whole(SetStarred(m, id, on, dev, t)) /\ Keeps(m, SetStarred(m, id, on, dev, t))
  <2> DEFINE es == [m.entries EXCEPT ![id].starred = on]
  <2>1. DOMAIN es \subseteq Ids
    BY <1>1
  <2>2. SetStarred(m, id, on, dev, t) = Bump([m EXCEPT !.entries = es], dev, t)
    BY DEF SetStarred
  <2> HIDE DEF es
  <2> QED
    BY <2>1, <2>2, EntriesEdited
<1> QED
  BY <1>2, <1>3, <1>4, <1>5, <1>6

LEMMA TrashKeeps ==
  ASSUME NEW m, Whole(m), NEW id, NEW dev, NEW t
  PROVE  /\ Whole(Trash(m, id, dev, t)) /\ Keeps(m, Trash(m, id, dev, t))
         /\ Whole(Restore(m, id, dev, t)) /\ Keeps(m, Restore(m, id, dev, t))
<1>1. DOMAIN m.entries \subseteq Ids
  BY DEF Whole
<1>2. Whole(Trash(m, id, dev, t)) /\ Keeps(m, Trash(m, id, dev, t))
  <2> DEFINE ids == Subtree(m, id)
             es == [i \in DOMAIN m.entries |->
                      IF i \in ids THEN [m.entries[i] EXCEPT !.trashed = TRUE, !.trashedAt = t]
                      ELSE m.entries[i]]
  <2>1. DOMAIN es \subseteq Ids
    BY <1>1
  <2>2. Trash(m, id, dev, t) = Bump([m EXCEPT !.entries = es], dev, t)
    BY DEF Trash, MarkTrashed
  <2> HIDE DEF es
  <2> QED
    BY <2>1, <2>2, EntriesEdited
<1>3. Whole(Restore(m, id, dev, t)) /\ Keeps(m, Restore(m, id, dev, t))
  <2> DEFINE n == MarkTrashed(m, Subtree(m, id), FALSE, 0)
             p == m.entries[id].parent
             up == IF p = Root \/ (p \in DOMAIN m.entries /\ ~m.entries[p].trashed) THEN p ELSE Root
             back == [n EXCEPT !.entries[id].parent = up]
             name == back.entries[id].name
             new == IF FreeName(back, up, name, id) THEN name ELSE <<name[1], Append(name[2], -t)>>
             x == [back EXCEPT !.entries[id].name = new]
  <2>1. Restore(m, id, dev, t) = Bump(x, dev, t)
    BY DEF Restore
  <2>2. PICK es : DOMAIN es = DOMAIN m.entries /\ n = [m EXCEPT !.entries = es]
    BY DEF MarkTrashed
  <2> HIDE DEF n, up
  <2>3. PICK fs : DOMAIN fs = DOMAIN m.entries /\ back = [m EXCEPT !.entries = fs]
    <3> DEFINE fs == [es EXCEPT ![id].parent = up]
    <3>1. back = [m EXCEPT !.entries = fs]
      BY <2>2 DEF Whole, Manifest
    <3> QED
      BY <2>2, <3>1
  <2> HIDE DEF back, new
  <2>4. PICK gs : DOMAIN gs = DOMAIN m.entries /\ x = [m EXCEPT !.entries = gs]
    <3> DEFINE gs == [fs EXCEPT ![id].name = new]
    <3>1. x = [m EXCEPT !.entries = gs]
      BY <2>3 DEF Whole, Manifest
    <3> QED
      BY <2>3, <3>1
  <2> HIDE DEF x
  <2> QED
    BY <1>1, <2>1, <2>4, EntriesEdited
<1> QED
  BY <1>2, <1>3

LEMMA DeleteKeeps ==
  ASSUME NEW m, Whole(m), NEW id, NEW dev, NEW t
  PROVE  Whole(Delete(m, id, dev, t)) /\ Keeps(m, Delete(m, id, dev, t))
<1> DEFINE ids == Subtree(m, id)
           es == Without(m.entries, ids)
           ts == KeepNewest(Joined([i \in ids |-> t], m.tombs))
           sh == [s \in DOMAIN m.shares |->
                    IF m.shares[s].entry \in ids THEN [m.shares[s] EXCEPT !.revoked = TRUE]
                    ELSE m.shares[s]]
           n == [m EXCEPT !.entries = es, !.tombs = ts, !.shares = sh]
<1>1. Delete(m, id, dev, t) = Bump(n, dev, t)
  BY DEF Delete, RemoveAll
<1>2. m.rev \in Nat /\ DOMAIN m.entries \subseteq Ids /\ ShareMap(m.shares)
      /\ (DOMAIN m.shares # {} => m.rev >= 1)
  BY DEF Whole
<1>3. DOMAIN es \subseteq Ids
  BY <1>2 DEF Without
<1> HIDE DEF ids
<1>4. ShareMap(sh) /\ DOMAIN sh = DOMAIN m.shares /\ StaysRevoked(m.shares, sh)
  BY <1>2 DEF ShareRecords, StaysRevoked, ShareMap
<1> HIDE DEF es, ts, sh
<1>5. Manifest(n, m.drive, m.rev, m.at, m.dev, es, sh, ts)
  BY DEF Whole, Manifest
<1> HIDE DEF n
<1>6. Whole(Bump(n, dev, t)) /\ Bump(n, dev, t).drive = m.drive /\ Bump(n, dev, t).shares = sh
  BY <1>2, <1>3, <1>4, <1>5, BumpKeeps
<1> QED
  BY <1>1, <1>4, <1>6 DEF Keeps

LEMMA KeepsTwice ==
  ASSUME NEW a, NEW b, NEW c, Keeps(a, b), Keeps(b, c)
  PROVE  Keeps(a, c)
BY DEF Keeps, StaysRevoked

(* The largest of a finite set of naturals.                                *)
LEMMA HighestIsNat ==
  ASSUME NEW S \in SUBSET Nat, IsFiniteSet(S)
  PROVE  Highest(S) \in Nat /\ \A x \in S : x <= Highest(S)
<1> DEFINE T == {s \in SUBSET S : s = {} \/ \E x \in s : \A y \in s : y <= x}
<1>1. {} \in T
  OBVIOUS
<1>2. ASSUME NEW s \in SUBSET S, NEW x \in S \ s, s \in T PROVE s \cup {x} \in T
  <2>1. CASE s = {}
    <3>1. \A y \in s \cup {x} : y <= x
      BY <2>1
    <3> QED
      BY <3>1
  <2>2. CASE s # {}
    <3>1. PICK z \in s : \A y \in s : y <= z
      BY <1>2, <2>2
    <3>2. CASE x <= z
      BY <3>1, <3>2
    <3>3. CASE ~(x <= z)
      <4>1. \A y \in s \cup {x} : y <= x
        BY <3>1, <3>3
      <4> QED
        BY <4>1
    <3> QED
      BY <3>2, <3>3
  <2> QED
    BY <2>1, <2>2
<1> HIDE DEF T
<1>3. \A s \in SUBSET S : s \in T
  BY <1>1, <1>2, SubsetInduction
<1>4. S = {} \/ \E x \in S : \A y \in S : y <= x
  BY <1>3 DEF T
<1> QED
  BY <1>4 DEF Highest

(* g holds the manifest after the trashed entries up to each number went.  *)
NextEmptied(m, x, k, dev, t) ==
  IF k \in DOMAIN m.entries /\ m.entries[k].trashed /\ k \in DOMAIN x.entries
  THEN Delete(x, k, dev, t) ELSE x
Empties(g, m, n, dev, t) ==
  g = [k \in 0..n |-> IF k = 0 THEN m ELSE NextEmptied(m, g[k - 1], k, dev, t)]

LEMMA EmptiesExists ==
  ASSUME NEW m, NEW dev, NEW t, NEW n \in Nat
  PROVE  \E g : Empties(g, m, n, dev, t)
<1> DEFINE N == {k \in Nat : \E g : Empties(g, m, k, dev, t)}
<1>1. 0 \in N
  <2> DEFINE g == [k \in 0..0 |-> m]
  <2>1. Empties(g, m, 0, dev, t)
    BY DEF Empties
  <2> QED
    BY <2>1
<1>2. ASSUME NEW k \in Nat, k \in N PROVE k + 1 \in N
  <2>1. PICK g : Empties(g, m, k, dev, t)
    BY <1>2
  <2> DEFINE h == [i \in 0..(k + 1) |-> IF i = k + 1 THEN NextEmptied(m, g[k], k + 1, dev, t) ELSE g[i]]
             step(f, i) == IF i = 0 THEN m ELSE NextEmptied(m, f[i - 1], i, dev, t)
             x == [i \in 0..(k + 1) |-> step(h, i)]
  <2>2. \A i \in 0..k : h[i] = g[i]
    OBVIOUS
  <2>3. \A i \in 0..k : g[i] = step(g, i)
    BY <2>1 DEF Empties
  <2>4. ASSUME NEW i \in 0..(k + 1) PROVE h[i] = step(h, i)
    <3>1. CASE i = 0
      BY <2>2, <2>3, <3>1
    <3>2. CASE i \in 1..k
      <4>1. i - 1 \in 0..k /\ i \in 0..k /\ i # 0
        BY <3>2
      <4>2. h[i] = g[i] /\ h[i - 1] = g[i - 1] /\ g[i] = step(g, i)
        BY <2>2, <2>3, <4>1
      <4> HIDE DEF h
      <4> QED
        BY <4>1, <4>2
    <3>3. CASE i = k + 1
      <4>1. i - 1 = k /\ i # 0
        BY <3>3
      <4>2. h[i] = NextEmptied(m, g[k], i, dev, t) /\ h[i - 1] = g[k]
        BY <2>2, <3>3, <4>1
      <4> HIDE DEF h
      <4> QED
        BY <4>1, <4>2
    <3> QED
      BY <3>1, <3>2, <3>3
  <2>5. h = x
    <3> HIDE DEF step
    <3> QED
      BY <2>4
  <2>6. Empties(h, m, k + 1, dev, t)
    BY <2>5 DEF Empties
  <2> QED
    BY <2>6
<1> HIDE DEF N
<1>3. n \in N
  BY <1>1, <1>2, SetInduction
<1> QED
  BY <1>3 DEF N

LEMMA EmptyKeeps ==
  ASSUME NEW m, Whole(m), NEW dev, NEW t
  PROVE  Whole(EmptyTrash(m, dev, t)) /\ Keeps(m, EmptyTrash(m, dev, t))
<1> DEFINE n == Highest(DOMAIN m.entries)
           g == CHOOSE g : Empties(g, m, n, dev, t)
<1>1. n \in Nat
  <2>1. DOMAIN m.entries \subseteq Ids /\ IsFiniteSet(Ids) /\ Ids \subseteq Nat
    BY DriveAssumption DEF Whole
  <2>2. IsFiniteSet(DOMAIN m.entries)
    BY <2>1, FS_Subset
  <2> QED
    BY <2>1, <2>2, HighestIsNat
<1>2. EmptyTrash(m, dev, t) = g[n]
  BY DEF EmptyTrash, Empties, NextEmptied
<1> HIDE DEF n
<1>3. Empties(g, m, n, dev, t)
  BY <1>1, EmptiesExists
<1> HIDE DEF g
<1> DEFINE N == {k \in Nat : k <= n => Whole(g[k]) /\ Keeps(m, g[k])}
<1>4. 0 \in N
  <2>1. g[0] = m
    BY <1>1, <1>3 DEF Empties
  <2> QED
    BY <2>1 DEF Keeps, StaysRevoked
<1>5. ASSUME NEW k \in Nat, k \in N PROVE k + 1 \in N
  <2> SUFFICES ASSUME k + 1 <= n PROVE Whole(g[k + 1]) /\ Keeps(m, g[k + 1])
    OBVIOUS
  <2>1. k + 1 \in 0..n /\ k + 1 # 0 /\ (k + 1) - 1 = k /\ k <= n
    BY <1>1
  <2>2. g[k + 1] = NextEmptied(m, g[k], k + 1, dev, t)
    BY <1>3, <2>1 DEF Empties
  <2>3. Whole(g[k]) /\ Keeps(m, g[k])
    BY <1>5, <2>1
  <2>4. Whole(Delete(g[k], k + 1, dev, t)) /\ Keeps(g[k], Delete(g[k], k + 1, dev, t))
    BY <2>3, DeleteKeeps
  <2>5. Keeps(m, Delete(g[k], k + 1, dev, t))
    BY <2>3, <2>4, KeepsTwice
  <2> QED
    BY <2>2, <2>3, <2>4, <2>5 DEF NextEmptied
<1> HIDE DEF N
<1>6. n \in N
  BY <1>1, <1>4, <1>5, SetInduction
<1>7. Whole(g[n]) /\ Keeps(m, g[n])
  BY <1>1, <1>6 DEF N
<1> QED
  BY <1>2, <1>7

----------------------------------------------------------------------------
(* Sharing and merging.                                                    *)
LEMMA ShareKeeps ==
  ASSUME NEW m, Whole(m), NEW sid, NEW id, NEW live \in BOOLEAN, NEW dev, NEW t
  PROVE  /\ CanGrant(m, id) /\ sid \notin DOMAIN m.shares =>
              Whole(Grant(m, sid, id, live, dev, t)) /\ Keeps(m, Grant(m, sid, id, live, dev, t))
         /\ CanRevoke(m, sid) =>
              Whole(RevokedShare(m, sid, dev, t)) /\ Keeps(m, RevokedShare(m, sid, dev, t))
<1>1. m.rev \in Nat /\ DOMAIN m.entries \subseteq Ids /\ ShareMap(m.shares)
      /\ (DOMAIN m.entries # {} => m.rev >= 1) /\ (DOMAIN m.shares # {} => m.rev >= 2) /\ Ids \subseteq Nat
  BY DriveAssumption DEF Whole
<1>2. ASSUME CanGrant(m, id), sid \notin DOMAIN m.shares
      PROVE  Whole(Grant(m, sid, id, live, dev, t)) /\ Keeps(m, Grant(m, sid, id, live, dev, t))
  <2> DEFINE sh == Joined(m.shares, Only(sid, [entry |-> id, live |-> live, revoked |-> FALSE]))
             n == [m EXCEPT !.shares = sh]
  <2>1. Grant(m, sid, id, live, dev, t) = Bump(n, dev, t)
    BY DEF Grant
  <2>2. ShareMap(sh) /\ StaysRevoked(m.shares, sh) /\ m.rev >= 1
    <3>1. sh \in [DOMAIN sh -> ShareRecords] /\ StaysRevoked(m.shares, sh) /\ m.rev >= 1
      BY <1>1, <1>2 DEF CanGrant, Joined, Only, ShareRecords, StaysRevoked, ShareMap
    <3>2. DOMAIN sh = DOMAIN m.shares \cup {sid}
      BY DEF Joined, Only
    <3>3. IsFiniteSet(DOMAIN m.shares \cup {sid})
      BY <1>1, FS_AddElement DEF ShareMap
    <3> HIDE DEF sh
    <3> QED
      BY <3>1, <3>2, <3>3 DEF ShareMap
  <2> HIDE DEF sh
  <2>3. Manifest(n, m.drive, m.rev, m.at, m.dev, m.entries, sh, m.tombs)
    BY DEF Whole, Manifest
  <2> HIDE DEF n
  <2>4. Whole(Bump(n, dev, t)) /\ Bump(n, dev, t).drive = m.drive /\ Bump(n, dev, t).shares = sh
    BY <1>1, <2>2, <2>3, BumpKeeps
  <2> QED
    BY <2>1, <2>2, <2>4 DEF Keeps
<1>3. ASSUME CanRevoke(m, sid)
      PROVE  Whole(RevokedShare(m, sid, dev, t)) /\ Keeps(m, RevokedShare(m, sid, dev, t))
  <2> DEFINE sh == [m.shares EXCEPT ![sid].revoked = TRUE]
             n == [m EXCEPT !.shares = sh]
  <2>1. RevokedShare(m, sid, dev, t) = Bump(n, dev, t)
    BY DEF RevokedShare
  <2>2. ShareMap(sh) /\ StaysRevoked(m.shares, sh) /\ DOMAIN sh = DOMAIN m.shares
    BY <1>1 DEF ShareRecords, StaysRevoked, ShareMap
  <2> HIDE DEF sh
  <2>3. Manifest(n, m.drive, m.rev, m.at, m.dev, m.entries, sh, m.tombs)
    BY DEF Whole, Manifest
  <2> HIDE DEF n
  <2>4. Whole(Bump(n, dev, t)) /\ Bump(n, dev, t).drive = m.drive /\ Bump(n, dev, t).shares = sh
    BY <1>1, <2>2, <2>3, BumpKeeps
  <2> QED
    BY <2>1, <2>2, <2>4 DEF Keeps
<1> QED
  BY <1>2, <1>3

\* rekey: the shares that are cut, each an edit, before the new version.
LEMMA RekeyKeeps ==
  ASSUME NEW m, Whole(m), NEW id, NEW obj, NEW dev, NEW t, NEW cut \in SUBSET DOMAIN m.shares,
         NEW n, n = [m EXCEPT !.shares = Cut(@, cut), !.rev = @ + Cardinality(cut)]
  PROVE  Whole(UpdateFile(n, id, obj, dev, t)) /\ Keeps(m, UpdateFile(n, id, obj, dev, t))
<1> DEFINE sh == Cut(m.shares, cut)
           rev == m.rev + Cardinality(cut)
<1>1. m.rev \in Nat /\ DOMAIN m.entries \subseteq Ids /\ ShareMap(m.shares)
      /\ (DOMAIN m.entries # {} => m.rev >= 1) /\ (DOMAIN m.shares # {} => m.rev >= 2)
  BY DEF Whole
<1>2. Cardinality(cut) \in Nat
  BY <1>1, FS_Subset, FS_CardinalityType DEF ShareMap
<1>3. ShareMap(sh) /\ StaysRevoked(m.shares, sh) /\ DOMAIN sh = DOMAIN m.shares
  BY <1>1 DEF Cut, ShareRecords, StaysRevoked, ShareMap
<1>4. rev \in Nat /\ rev >= m.rev
  BY <1>1, <1>2
<1>5. n = [m EXCEPT !.shares = sh, !.rev = rev]
  OBVIOUS
<1> HIDE DEF sh, rev
<1>6. Manifest(n, m.drive, rev, m.at, m.dev, m.entries, sh, m.tombs)
  BY <1>5 DEF Whole, Manifest
<1>7. n.rev = rev /\ n.entries = m.entries /\ n.shares = sh /\ n.drive = m.drive
  BY <1>6 DEF Manifest
<1>8. Whole(n)
  <2>1. Manifest(n, n.drive, n.rev, n.at, n.dev, n.entries, n.shares, n.tombs)
    BY <1>6 DEF Manifest
  <2> QED
    BY <1>1, <1>3, <1>4, <1>7, <2>1 DEF Whole
<1>9. Keeps(m, n)
  BY <1>3, <1>7 DEF Keeps
<1> QED
  BY <1>8, <1>9, FileKeeps, KeepsTwice

LEMMA MergeKeeps ==
  ASSUME NEW a, NEW b, Whole(a), Whole(b)
  PROVE  Whole(Merge(a, b)) /\ Keeps(a, Merge(a, b))
<1> DEFINE m == Merge(a, b)
           sh == MergedShares(a, b)
           rev == Highest({a.rev, b.rev}) + 1
<1>1. a.rev \in Nat /\ b.rev \in Nat /\ ShareMap(a.shares) /\ ShareMap(b.shares)
      /\ DOMAIN a.entries \subseteq Ids /\ DOMAIN b.entries \subseteq Ids
      /\ (DOMAIN a.shares # {} => a.rev >= 2) /\ (DOMAIN b.shares # {} => b.rev >= 2)
  BY DEF Whole
<1>2. rev \in Nat /\ rev > a.rev /\ rev > b.rev
  <2>1. IsFiniteSet({a.rev, b.rev})
    <3>1. {a.rev, b.rev} = {a.rev} \cup {b.rev} /\ IsFiniteSet({a.rev})
      BY FS_Singleton
    <3>2. IsFiniteSet({a.rev} \cup {b.rev})
      BY <3>1, FS_AddElement
    <3> QED
      BY <3>1, <3>2
  <2>2. Highest({a.rev, b.rev}) \in Nat /\ \A x \in {a.rev, b.rev} : x <= Highest({a.rev, b.rev})
    BY <1>1, <2>1, HighestIsNat
  <2> QED
    BY <1>1, <2>2
<1>3. ShareMap(sh) /\ DOMAIN sh = DOMAIN a.shares \cup DOMAIN b.shares
  <2>1. DOMAIN sh = DOMAIN a.shares \cup DOMAIN b.shares
    BY DEF MergedShares
  <2>2. IsFiniteSet(DOMAIN sh)
    BY <1>1, <2>1, FS_Union DEF ShareMap
  <2>3. sh \in [DOMAIN sh -> ShareRecords]
    BY <1>1 DEF ShareMap, ShareRecords, MergedShares
  <2> QED
    BY <2>1, <2>2, <2>3 DEF ShareMap
<1>4. StaysRevoked(a.shares, sh)
  BY <1>1 DEF StaysRevoked, MergedShares, ShareMap, ShareRecords
<1>5. PICK es, ts, at, dev :
        /\ DOMAIN es \subseteq DOMAIN a.entries \cup DOMAIN b.entries
        /\ m = [drive |-> a.drive, rev |-> rev, at |-> at, dev |-> dev,
                entries |-> es, shares |-> sh, tombs |-> ts]
  BY DEF Merge, Renamed, Rehomed
<1> HIDE DEF m, sh, rev
<1>6. Manifest(m, a.drive, rev, at, dev, es, sh, ts)
  BY <1>5 DEF Manifest
<1>7. m.rev = rev /\ m.entries = es /\ m.shares = sh /\ m.drive = a.drive
  BY <1>6 DEF Manifest
<1>8. Manifest(m, m.drive, m.rev, m.at, m.dev, m.entries, m.shares, m.tombs)
  BY <1>6 DEF Manifest
<1>9. Whole(m)
  BY <1>1, <1>2, <1>3, <1>5, <1>7, <1>8 DEF Whole
<1>10. Keeps(a, m)
  BY <1>4, <1>7 DEF Keeps
<1> QED
  BY <1>9, <1>10 DEF m

----------------------------------------------------------------------------
(* A device and its disk.                                                  *)
Revokes(m) == \E s \in DOMAIN m.shares : m.shares[s].revoked
DeviceFits(m, disk) ==
  /\ Whole(m) /\ Whole(disk)
  /\ disk.drive = m.drive \/ ~Revokes(disk)
  /\ disk.drive = m.drive => StaysRevoked(disk.shares, m.shares)
DiskKeeps(a, b) == a.drive = b.drive => StaysRevoked(a.shares, b.shares)

LEMMA NewFits ==
  ASSUME NEW drive, NEW dev, NEW t
  PROVE  /\ Whole(NewManifest(drive, dev, t)) /\ NewManifest(drive, dev, t).drive = drive
         /\ DOMAIN NewManifest(drive, dev, t).shares = {}
         /\ Whole([NewManifest(drive, dev, t) EXCEPT !.rev = 0])
         /\ [NewManifest(drive, dev, t) EXCEPT !.rev = 0].drive = drive
<1>1. DOMAIN << >> = {} /\ ShareMap(<< >>)
  <2>1. DOMAIN << >> = {}
    OBVIOUS
  <2>2. << >> \in [{} -> ShareRecords]
    OBVIOUS
  <2> QED
    BY <2>1, <2>2, FS_EmptySet DEF ShareMap
<1> DEFINE e == << >>
<1>2. NewManifest(drive, dev, t) =
        [drive |-> drive, rev |-> 1, at |-> t, dev |-> dev, entries |-> e, shares |-> e, tombs |-> e]
  BY DEF NewManifest
<1>3. DOMAIN e = {} /\ ShareMap(e)
  BY <1>1
<1> HIDE DEF e
<1>4. Whole(NewManifest(drive, dev, t))
  BY <1>2, <1>3 DEF Whole, Manifest
<1>5. [NewManifest(drive, dev, t) EXCEPT !.rev = 0] =
        [drive |-> drive, rev |-> 0, at |-> t, dev |-> dev, entries |-> e, shares |-> e, tombs |-> e]
  BY <1>2
<1>6. Whole([NewManifest(drive, dev, t) EXCEPT !.rev = 0])
  BY <1>3, <1>5 DEF Whole, Manifest
<1> QED
  BY <1>2, <1>3, <1>4, <1>5, <1>6

(* An edit in memory, and the save of one.                                 *)
LEMMA EditFits ==
  ASSUME NEW m, NEW disk, DeviceFits(m, disk), NEW x, Whole(x), Keeps(m, x)
  PROVE  DeviceFits(x, disk) /\ DeviceFits(x, x) /\ DiskKeeps(disk, x)
BY DEF DeviceFits, Keeps, StaysRevoked, DiskKeeps

(* What a device takes over from an announcement.                          *)
LEMMA TakeFits ==
  ASSUME NEW m, NEW disk, DeviceFits(m, disk), NEW a, Whole(a), NEW x,
         \/ Untouched(m) /\ x = a
         \/ x = Merge(m, a)
  PROVE  DeviceFits(x, x) /\ DiskKeeps(disk, x)
<1>1. CASE x = Merge(m, a)
  BY <1>1, MergeKeeps, EditFits DEF DeviceFits
<1>2. CASE Untouched(m) /\ x = a
  <2>1. DOMAIN m.shares = {}
    BY <1>2 DEF Untouched, DeviceFits, Whole
  <2>2. DeviceFits(x, x)
    BY <1>2 DEF DeviceFits, StaysRevoked
  <2>3. DiskKeeps(disk, x)
    <3>1. CASE ~Revokes(disk)
      BY <3>1 DEF Revokes, DiskKeeps, StaysRevoked
    <3>2. CASE Revokes(disk)
      BY <2>1, <3>2 DEF DeviceFits, DiskKeeps, StaysRevoked, Revokes
    <3> QED
      BY <3>1, <3>2
  <2> QED
    BY <2>2, <2>3
<1> QED
  BY <1>1, <1>2

DevicesFit ==
  /\ DOMAIN man = Devices /\ DOMAIN driveDisk = Devices
  /\ \A d \in Devices : DeviceFits(man[d], driveDisk[d])
  /\ \A n \in net : Whole(n.m)
  /\ dsc.ids \subseteq Ids

DisksKeep == \A d \in Devices : DiskKeeps(driveDisk[d], driveDisk'[d])

LEMMA DeviceSteps ==
  ASSUME DevicesFit, NEW d \in Devices, NEW m, NEW disk, DeviceFits(m, disk),
         DiskKeeps(driveDisk[d], disk), dsc' = dsc, \A n \in net' : n \in net \/ Whole(n.m),
         man' = [man EXCEPT ![d] = m],
         \/ driveDisk' = [driveDisk EXCEPT ![d] = disk]
         \/ driveDisk' = driveDisk /\ disk = driveDisk[d]
  PROVE  DevicesFit' /\ DisksKeep
<1>1. \A e \in Devices : DiskKeeps(driveDisk[e], driveDisk[e])
  BY DEF DiskKeeps, StaysRevoked
<1>2. \A e \in Devices : /\ man'[e] = IF e = d THEN m ELSE man[e]
                         /\ driveDisk'[e] = IF e = d THEN disk ELSE driveDisk[e]
  BY DEF DevicesFit
<1>3. ASSUME NEW e \in Devices
      PROVE  DeviceFits(man'[e], driveDisk'[e]) /\ DiskKeeps(driveDisk[e], driveDisk'[e])
  BY <1>1, <1>2 DEF DevicesFit
<1> QED
  BY <1>3 DEF DevicesFit, DisksKeep

----------------------------------------------------------------------------
(* Messages to the grantee: a share is sent once.                          *)
HeldFits(h) ==
  h \in [live : {h.live}, no : {h.no}, obj : {h.obj}, revoked : BOOLEAN, updates : {h.updates}]
MailFits ==
  /\ \A s \in DOMAIN granted : HeldFits(granted[s])
  /\ \A x \in mail : x.kind = "share" =>
       /\ x.sid \notin DOMAIN granted
       /\ \A y \in mail : y.kind = "share" /\ y.sid = x.sid => y = x
GrantedKeeps ==
  \A s \in DOMAIN granted :
    granted[s].revoked => granted'[s].revoked /\ granted'[s].obj = granted[s].obj

LEMMA MailSteps ==
  ASSUME MailFits, granted' = granted, \A x \in mail' : x \in mail \/ x.kind # "share"
  PROVE  MailFits' /\ GrantedKeeps
BY DEF MailFits, GrantedKeeps, HeldFits

LEMMA ShareSteps ==
  ASSUME MailFits, granted' = granted, NEW new, new.sid \notin UsedShares, mail' = mail \cup {new}
  PROVE  MailFits' /\ GrantedKeeps
<1>1. new.sid \notin DOMAIN granted /\ \A x \in mail : x.sid # new.sid
  <2> DEFINE A == UNION {DOMAIN m.shares : m \in Copies}
             B == {x.sid : x \in mail}
  <2>1. UsedShares = A \cup DOMAIN granted \cup B
    BY Zenon DEF UsedShares
  <2>2. \A x \in mail : x.sid \in B
    OBVIOUS
  <2> HIDE DEF A, B
  <2> QED
    BY <2>1, <2>2
<1> QED
  BY <1>1 DEF MailFits, GrantedKeeps, HeldFits

LEMMA GranteeSteps ==
  ASSUME MailFits, NEW x \in mail, GranteeReceives(x)
  PROVE  MailFits' /\ GrantedKeeps
<1>1. mail' = mail \ {x}
  BY DEF GranteeReceives
<1>2. CASE x.kind = "share"
  <2> DEFINE h == Held(x, 0)
  <2>1. granted' = Joined(Only(x.sid, h), granted)
    BY <1>2 DEF GranteeReceives
  <2>2. HeldFits(h)
    BY DEF HeldFits, Held
  <2> HIDE DEF h
  <2>3. /\ DOMAIN granted' = DOMAIN granted \cup {x.sid} /\ granted'[x.sid] = h
        /\ \A s \in DOMAIN granted : s # x.sid => granted'[s] = granted[s]
    BY <2>1 DEF Joined, Only
  <2>4. x.sid \notin DOMAIN granted
    BY <1>2 DEF MailFits
  <2>5. \A s \in DOMAIN granted' : HeldFits(granted'[s])
    BY <2>2, <2>3 DEF MailFits
  <2>6. ASSUME NEW y \in mail', y.kind = "share"
        PROVE  /\ y.sid \notin DOMAIN granted'
               /\ \A z \in mail' : z.kind = "share" /\ z.sid = y.sid => z = y
    <3>1. y \in mail /\ y # x /\ y.sid # x.sid
      BY <1>1, <1>2, <2>6 DEF MailFits
    <3> QED
      BY <1>1, <2>3, <2>6, <3>1 DEF MailFits
  <2>7. MailFits'
    BY <2>5, <2>6 DEF MailFits, HeldFits
  <2>8. GrantedKeeps
    BY <2>3, <2>4 DEF GrantedKeeps
  <2> QED
    BY <2>7, <2>8
<1>3. CASE x.kind = "update" /\ TakesUpdate(x)
  <2> DEFINE no == Highest({granted[x.sid].no, x.no})
             h == [granted[x.sid] EXCEPT !.obj = x.obj, !.updates = @ + 1, !.no = no]
  <2>1. /\ x.sid \in DOMAIN granted /\ ~granted[x.sid].revoked
        /\ HeldFits(granted[x.sid])
    BY <1>3 DEF TakesUpdate, MailFits
  <2>2. granted' = [granted EXCEPT ![x.sid].obj = x.obj, ![x.sid].updates = @ + 1,
                                  ![x.sid].no = Highest({@, x.no})]
    BY <1>3 DEF GranteeReceives
  <2>3. /\ DOMAIN granted' = DOMAIN granted
        /\ \A s \in DOMAIN granted : s # x.sid => granted'[s] = granted[s]
    BY <2>2
  <2>4. HeldFits(granted'[x.sid])
    BY <2>1, <2>2 DEF HeldFits
  <2>5. MailFits'
    BY <1>1, <2>3, <2>4 DEF MailFits, HeldFits
  <2>6. GrantedKeeps
    BY <2>1, <2>3 DEF GrantedKeeps
  <2> QED
    BY <2>5, <2>6
<1>4. CASE x.kind = "revoke" /\ x.sid \in DOMAIN granted
  <2>1. HeldFits(granted[x.sid])
    BY <1>4 DEF MailFits
  <2>2. granted' = [granted EXCEPT ![x.sid].revoked = TRUE]
    BY <1>4 DEF GranteeReceives
  <2>3. /\ DOMAIN granted' = DOMAIN granted
        /\ \A s \in DOMAIN granted : s # x.sid => granted'[s] = granted[s]
    BY <2>2
  <2>4. /\ HeldFits(granted'[x.sid]) /\ granted'[x.sid].revoked
        /\ granted'[x.sid].obj = granted[x.sid].obj
    BY <1>4, <2>1, <2>2 DEF HeldFits
  <2>5. MailFits'
    BY <1>1, <2>3, <2>4 DEF MailFits, HeldFits
  <2>6. GrantedKeeps
    BY <2>3, <2>4 DEF GrantedKeeps
  <2> QED
    BY <2>5, <2>6
<1>5. CASE granted' = granted
  BY <1>1, <1>5, MailSteps
<1> QED
  BY <1>2, <1>3, <1>4, <1>5 DEF GranteeReceives

----------------------------------------------------------------------------
(* The steps.                                                              *)
DriveInv == DevicesFit /\ MailFits
StepKeeps == DriveInv' /\ DisksKeep /\ GrantedKeeps

LEMMA EditSteps ==
  ASSUME DriveInv, NEW d \in Devices, NEW m, Whole(m), Keeps(man[d], m), Edit(d, m),
         \A x \in mail' : x \in mail \/ x.kind # "share"
  PROVE  StepKeeps
<1>1. /\ man' = [man EXCEPT ![d] = m] /\ driveDisk' = [driveDisk EXCEPT ![d] = m]
      /\ UNCHANGED <<dsc, net, granted>>
  BY DEF Edit, SaveManifestLocally
<1>2. DeviceFits(m, m) /\ DiskKeeps(driveDisk[d], m)
  BY EditFits DEF DriveInv, DevicesFit
<1>3. DevicesFit' /\ DisksKeep
  BY <1>1, <1>2, DeviceSteps DEF DriveInv
<1>4. MailFits' /\ GrantedKeeps
  BY <1>1, MailSteps DEF DriveInv
<1> QED
  BY <1>3, <1>4 DEF StepKeeps, DriveInv

(* The steps that edit and save at once.                                   *)
LEMMA EditsKeep ==
  ASSUME DriveInv, NEW d \in Devices, NEW id \in Ids,
         \/ \E p, name : id \in dsc.ids /\ (Mkdir(d, id, p, name) \/ Upload(d, id, p, name))
         \/ \E from, p, name : id \in dsc.ids /\ Copy(d, id, from, p, name)
         \/ Update(d, id)
         \/ \E no : RestoreAVersion(d, id, no)
         \/ Rekey(d, id)
         \/ \E name : RenameEntry(d, id, name)
         \/ \E p : MoveEntry(d, id, p)
         \/ TrashEntry(d, id)
         \/ RestoreEntry(d, id)
         \/ DeleteEntry(d, id)
         \/ Star(d, id)
  PROVE  StepKeeps
<1>1. Whole(man[d])
  BY DEF DriveInv, DevicesFit, DeviceFits
<1>2. ASSUME NEW p, NEW name, NEW obj, Edit(d, Place(man[d], id, p, name, obj, d, driveClock)), mail' = mail
      PROVE  StepKeeps
  BY <1>1, <1>2, PlaceKeeps, EditSteps
<1>3. CASE \E p, name : Mkdir(d, id, p, name)
  BY <1>2, <1>3 DEF Mkdir
<1>4. CASE \E p, name : Upload(d, id, p, name)
  BY <1>2, <1>4 DEF Upload
<1>5. CASE \E from, p, name : Copy(d, id, from, p, name)
  BY <1>2, <1>5 DEF Copy
<1>6. CASE Update(d, id)
  <2>1. Edit(d, UpdateFile(man[d], id, made + 1, d, driveClock))
    BY <1>6 DEF Update
  <2>2. \A x \in mail' : x \in mail \/ x.kind # "share"
    BY <1>6 DEF Update, LiveUpdates
  <2> QED
    BY <1>1, <2>1, <2>2, FileKeeps, EditSteps
<1>7. CASE \E no : RestoreAVersion(d, id, no)
  BY <1>1, <1>7, FileKeeps, EditSteps DEF RestoreAVersion
<1>8. CASE Rekey(d, id)
  <2> DEFINE cut == {s \in DOMAIN man[d].shares : man[d].shares[s].entry = id /\ ~man[d].shares[s].revoked}
             n == [man[d] EXCEPT !.shares = Cut(@, cut), !.rev = @ + Cardinality(cut)]
  <2>1. Edit(d, UpdateFile(n, id, made', d, driveClock))
    BY <1>8 DEF Rekey
  <2>2. \A x \in mail' : x \in mail \/ x.kind # "share"
    BY <1>8 DEF Rekey
  <2>3. cut \in SUBSET DOMAIN man[d].shares
    OBVIOUS
  <2> HIDE DEF cut
  <2>4. \A obj : Whole(UpdateFile(n, id, obj, d, driveClock)) /\ Keeps(man[d], UpdateFile(n, id, obj, d, driveClock))
    BY <1>1, <2>3, RekeyKeeps
  <2> HIDE DEF n
  <2> QED
    BY <2>1, <2>2, <2>4, EditSteps
<1>9. CASE \E name : RenameEntry(d, id, name)
  BY <1>1, <1>9, FileKeeps, EditSteps DEF RenameEntry
<1>10. CASE \E p : MoveEntry(d, id, p)
  BY <1>1, <1>10, FileKeeps, EditSteps DEF MoveEntry
<1>11. CASE TrashEntry(d, id) \/ RestoreEntry(d, id)
  BY <1>1, <1>11, TrashKeeps, EditSteps DEF TrashEntry, RestoreEntry
<1>12. CASE DeleteEntry(d, id)
  BY <1>1, <1>12, DeleteKeeps, EditSteps DEF DeleteEntry
<1>13. CASE Star(d, id)
  BY <1>1, <1>13, FileKeeps, EditSteps DEF Star
<1> QED
  BY <1>3, <1>4, <1>5, <1>6, <1>7, <1>8, <1>9, <1>10, <1>11, <1>12, <1>13

\* Shares and revocations, before they are saved.
LEMMA SharesKeep ==
  ASSUME DriveInv, NEW d \in Devices, NEW sid,
         \/ \E id, delivered : \E live \in BOOLEAN : Share(d, sid, id, live, delivered)
         \/ RevokeShare(d, sid)
  PROVE  StepKeeps
<1>1. Whole(man[d]) /\ DeviceFits(man[d], driveDisk[d]) /\ DiskKeeps(driveDisk[d], driveDisk[d])
  BY DEF DriveInv, DevicesFit, DeviceFits, DiskKeeps, StaysRevoked
<1>2. ASSUME NEW m, Whole(m), Keeps(man[d], m), man' = [man EXCEPT ![d] = m],
             UNCHANGED <<dsc, net, driveDisk>>
      PROVE  DevicesFit' /\ DisksKeep
  <2>1. DeviceFits(m, driveDisk[d])
    BY <1>1, <1>2, EditFits
  <2> QED
    BY <1>1, <1>2, <2>1, DeviceSteps DEF DriveInv
<1>3. ASSUME NEW id, NEW delivered, NEW live \in BOOLEAN, Share(d, sid, id, live, delivered)
      PROVE  StepKeeps
  <2>1. sid \notin UsedShares /\ CanGrant(man[d], id)
    BY <1>3 DEF Share
  <2>2. sid \notin DOMAIN man[d].shares
    <3>1. man[d] \in Copies
      BY DEF Copies
    <3> DEFINE A == UNION {DOMAIN m.shares : m \in Copies}
    <3>2. DOMAIN man[d].shares \subseteq A
      BY <3>1
    <3> HIDE DEF A
    <3>3. A \subseteq UsedShares
      BY DEF UsedShares, A
    <3> QED
      BY <2>1, <3>2, <3>3
  <2> DEFINE m == Grant(man[d], sid, id, live, d, driveClock)
  <2>3. Whole(m) /\ Keeps(man[d], m)
    BY <1>1, <2>1, <2>2, ShareKeeps
  <2>4. man' = [man EXCEPT ![d] = m] /\ UNCHANGED <<dsc, net, driveDisk, granted>>
    BY <1>3 DEF Share
  <2> HIDE DEF m
  <2>5. DevicesFit' /\ DisksKeep
    BY <1>2, <2>3, <2>4
  <2>6. MailFits' /\ GrantedKeeps
    <3>1. PICK new : new.sid = sid /\ (mail' = mail \cup {new} \/ mail' = mail)
      <4> DEFINE msg == [kind |-> "share", sid |-> sid, live |-> live, no |-> VersionNo(man[d], id),
                         obj |-> IF IsFile(man[d], id) THEN man[d].entries[id].current ELSE made']
      <4>1. mail' = mail \cup {msg} \/ mail' = mail
        BY <1>3 DEF Share
      <4>2. msg.sid = sid
        OBVIOUS
      <4> HIDE DEF msg
      <4> QED
        BY <4>1, <4>2
    <3> QED
      BY <2>1, <2>4, <3>1, ShareSteps, MailSteps DEF DriveInv
  <2> QED
    BY <2>5, <2>6 DEF StepKeeps, DriveInv
<1>4. CASE RevokeShare(d, sid)
  <2> DEFINE m == RevokedShare(man[d], sid, d, driveClock)
  <2>1. Whole(m) /\ Keeps(man[d], m)
    BY <1>1, <1>4, ShareKeeps DEF RevokeShare
  <2>2. man' = [man EXCEPT ![d] = m] /\ UNCHANGED <<dsc, net, driveDisk, granted>>
    BY <1>4 DEF RevokeShare
  <2> HIDE DEF m
  <2>3. DevicesFit' /\ DisksKeep
    BY <1>2, <2>1, <2>2
  <2>4. MailFits' /\ GrantedKeeps
    BY <1>4, <2>2, MailSteps DEF RevokeShare, DriveInv
  <2> QED
    BY <2>3, <2>4 DEF StepKeeps, DriveInv
<1> QED
  BY <1>3, <1>4

\* What stays when a step moves neither a manifest nor a message.
LEMMA RestKeeps ==
  ASSUME DriveInv, UNCHANGED <<dsc, man, driveDisk>>, \A n \in net' : n \in net \/ Whole(n.m)
  PROVE  DevicesFit' /\ DisksKeep
<1>1. DevicesFit'
  BY DEF DriveInv, DevicesFit
<1>2. DisksKeep
  BY DEF DisksKeep, DiskKeeps, StaysRevoked
<1> QED
  BY <1>1, <1>2

LEMMA ApplyKeeps ==
  ASSUME DriveInv, NEW d \in Devices, NEW n \in net, NEW fetched, ApplyKeyring(d, n, fetched)
  PROVE  StepKeeps
<1>1. UNCHANGED <<dsc, mail, granted>> /\ net' = net \ {n} /\ Whole(n.m)
  BY DEF ApplyKeyring, DriveInv, DevicesFit
<1>2. MailFits' /\ GrantedKeeps
  BY <1>1, MailSteps DEF DriveInv
<1> DEFINE m == Takes(d, n)
<1>3. \/ UNCHANGED <<man, driveDisk>>
      \/ man' = [man EXCEPT ![d] = m] /\ driveDisk' = [driveDisk EXCEPT ![d] = m]
  BY DEF ApplyKeyring
<1>4. (Untouched(man[d]) /\ m = n.m) \/ m = Merge(man[d], n.m)
  BY DEF Takes
<1> HIDE DEF m
<1>5. DevicesFit' /\ DisksKeep
  <2>1. CASE UNCHANGED <<man, driveDisk>>
    BY <1>1, <2>1, RestKeeps
  <2>2. CASE man' = [man EXCEPT ![d] = m] /\ driveDisk' = [driveDisk EXCEPT ![d] = m]
    <3>1. DeviceFits(man[d], driveDisk[d])
      BY DEF DriveInv, DevicesFit
    <3>2. DeviceFits(m, m) /\ DiskKeeps(driveDisk[d], m)
      BY <1>1, <1>4, <3>1, TakeFits
    <3>3. \A x \in net' : x \in net \/ Whole(x.m)
      BY <1>1
    <3> QED
      BY <1>1, <2>2, <3>2, <3>3, DeviceSteps DEF DriveInv
  <2> QED
    BY <1>3, <2>1, <2>2
<1> QED
  BY <1>2, <1>5 DEF StepKeeps, DriveInv

LEMMA RestartKeeps ==
  ASSUME DriveInv, NEW d \in Devices, RestartDrive(d), Revokes(driveDisk[d]) => driveVault[d] # NoRing
  PROVE  StepKeeps
<1>1. UNCHANGED <<dsc, driveDisk, net, mail, granted>> /\ man' = [man EXCEPT ![d] = Reloaded(d)]
  BY DEF RestartDrive
<1>2. Whole(driveDisk[d]) /\ DiskKeeps(driveDisk[d], driveDisk[d])
  BY DEF DriveInv, DevicesFit, DeviceFits, DiskKeeps, StaysRevoked
<1>3. DeviceFits(Reloaded(d), driveDisk[d])
  <2>1. CASE driveVault[d] = NoRing
    <3> DEFINE x == NewManifest(Highest(Devices) + d, d, driveClock)
    <3>1. Reloaded(d) = x
      BY <2>1 DEF Reloaded
    <3>2. Whole(x)
      BY NewFits
    <3> HIDE DEF x
    <3> QED
      BY <1>2, <2>1, <3>1, <3>2 DEF DeviceFits, StaysRevoked, Revokes
  <2>2. CASE driveVault[d] # NoRing /\ driveDisk[d] = NoManifest
    <3> DEFINE x == [NewManifest(driveVault[d].drive, d, driveClock) EXCEPT !.rev = 0]
               o == NewManifest(0, 0, 0)
    <3>1. Reloaded(d) = x
      BY <2>2 DEF Reloaded
    <3>2. Whole(x)
      BY NewFits
    <3>3. DOMAIN o.shares = {}
      BY NewFits
    <3>4. driveDisk[d] = o
      BY <2>2 DEF NoManifest
    <3> HIDE DEF x, o
    <3> QED
      BY <1>2, <3>1, <3>2, <3>3, <3>4 DEF DeviceFits, StaysRevoked, Revokes
  <2>3. CASE driveVault[d] # NoRing /\ driveDisk[d] # NoManifest
    BY <1>2, <2>3 DEF Reloaded, DeviceFits, StaysRevoked
  <2> QED
    BY <2>1, <2>2, <2>3
<1>5. DevicesFit' /\ DisksKeep
  BY <1>1, <1>2, <1>3, DeviceSteps DEF DriveInv
<1>6. MailFits' /\ GrantedKeeps
  BY <1>1, MailSteps DEF DriveInv
<1> QED
  BY <1>5, <1>6 DEF StepKeeps, DriveInv

(* A device whose local copy holds a revocation restarts with a keyring.   *)
KeyringFound == \A d \in Devices : RestartDrive(d) /\ Revokes(driveDisk[d]) => driveVault[d] # NoRing

LEMMA DeviceActsKeep ==
  ASSUME DriveInv, NEW d \in Devices,
         SaveShare(d) \/ Commit(d) \/ SaveVault(d) \/ EmptyTheTrash(d)
  PROVE  StepKeeps
<1>1. Whole(man[d]) /\ DeviceFits(man[d], driveDisk[d])
  BY DEF DriveInv, DevicesFit, DeviceFits
<1>2. CASE SaveShare(d)
  <2>1. /\ man' = [man EXCEPT ![d] = man[d]] /\ driveDisk' = [driveDisk EXCEPT ![d] = man[d]]
        /\ UNCHANGED <<dsc, net, granted>> /\ mail' = mail
    BY <1>2 DEF SaveShare, SaveManifestLocally
  <2>2. DeviceFits(man[d], man[d]) /\ DiskKeeps(driveDisk[d], man[d])
    <3>1. Keeps(man[d], man[d])
      BY DEF Keeps, StaysRevoked
    <3> QED
      BY <1>1, <3>1, EditFits
  <2>3. DevicesFit' /\ DisksKeep
    BY <2>1, <2>2, DeviceSteps DEF DriveInv
  <2> QED
    BY <2>1, <2>3, MailSteps DEF StepKeeps, DriveInv
<1>3. CASE Commit(d)
  <2>1. UNCHANGED <<dsc, man, driveDisk, mail, granted>>
    BY <1>3 DEF Commit
  <2>2. \A n \in net' : n \in net \/ Whole(n.m)
    BY <1>1, <1>3 DEF Commit
  <2> QED
    BY <2>1, <2>2, RestKeeps, MailSteps DEF StepKeeps, DriveInv
<1>4. CASE SaveVault(d)
  BY <1>4, RestKeeps, MailSteps DEF SaveVault, StepKeeps, DriveInv
<1>5. CASE EmptyTheTrash(d)
  <2>1. Edit(d, EmptyTrash(man[d], d, driveClock)) /\ mail' = mail
    BY <1>5 DEF EmptyTheTrash
  <2> QED
    BY <1>1, <2>1, EmptyKeeps, EditSteps
<1> QED
  BY <1>2, <1>3, <1>4, <1>5

LEMMA DriveNextKeeps ==
  ASSUME DriveInv, [DriveNext /\ KeyringFound]_driveVars
  PROVE  StepKeeps
<1>1. CASE UNCHANGED driveVars
  BY <1>1, RestKeeps, MailSteps DEF driveVars, StepKeeps, DriveInv
<1>2. CASE DriveTick
  BY <1>2, RestKeeps, MailSteps DEF DriveTick, StepKeeps, DriveInv
<1>3. ASSUME NEW x \in mail, GranteeReceives(x) PROVE StepKeeps
  BY <1>3, RestKeeps, GranteeSteps DEF GranteeReceives, StepKeeps, DriveInv
<1>4. ASSUME NEW d \in Devices, NEW id \in dsc.ids, NEW p, NEW name,
             Mkdir(d, id, p, name) \/ Upload(d, id, p, name) \/ \E from \in Ids : Copy(d, id, from, p, name)
      PROVE  StepKeeps
  <2>1. id \in Ids
    BY DEF DriveInv, DevicesFit
  <2> QED
    BY <1>4, <2>1, EditsKeep
<1>5. ASSUME NEW d \in Devices, NEW id \in Ids,
             \/ Update(d, id)
             \/ \E no \in 1..dsc.maxRev : RestoreAVersion(d, id, no)
             \/ Rekey(d, id)
             \/ \E name \in Names : RenameEntry(d, id, name)
             \/ \E p \in Places : MoveEntry(d, id, p)
             \/ TrashEntry(d, id) \/ RestoreEntry(d, id) \/ DeleteEntry(d, id) \/ Star(d, id)
      PROVE  StepKeeps
  BY <1>5, EditsKeep
<1>6. ASSUME NEW d \in Devices, NEW id \in Ids,
             \E sid \in Shares, live, delivered \in BOOLEAN : Share(d, sid, id, live, delivered)
      PROVE  StepKeeps
  BY <1>6, SharesKeep
<1>7. ASSUME NEW d \in Devices, \E sid \in Shares : RevokeShare(d, sid) PROVE StepKeeps
  BY <1>7, SharesKeep
<1>8. ASSUME NEW d \in Devices, \E n \in net, fetched \in BOOLEAN : ApplyKeyring(d, n, fetched)
      PROVE  StepKeeps
  BY <1>8, ApplyKeeps
<1>9. ASSUME NEW d \in Devices, RestartDrive(d), KeyringFound PROVE StepKeeps
  BY <1>9, RestartKeeps DEF KeyringFound
<1> QED
  BY <1>1, <1>2, <1>3, <1>4, <1>5, <1>6, <1>7, <1>8, <1>9, DeviceActsKeep DEF DriveNext

----------------------------------------------------------------------------
(* The states a device starts from: a scenario's manifest came with edits, *)
(* and its ids are entry ids.                                              *)
Started(sc) == Whole(sc.start) /\ sc.ids \subseteq Ids

LEMMA DriveStarts ==
  ASSUME NEW scenarios, \A sc \in scenarios : Started(sc), DriveInit(scenarios)
  PROVE  DriveInv
<1>1. Whole(dsc.start) /\ dsc.ids \subseteq Ids
  BY DEF DriveInit, Started
<1>2. \A d \in Devices : /\ man[d] = IF d \in dsc.fresh THEN NewManifest(d, d, 0) ELSE dsc.start
                         /\ driveDisk[d] = IF d \in dsc.fresh THEN NoManifest ELSE dsc.start
  BY DEF DriveInit
<1>3. DOMAIN man = Devices /\ DOMAIN driveDisk = Devices /\ net = {} /\ mail = {}
  BY DEF DriveInit
<1>4. ASSUME NEW d \in Devices PROVE DeviceFits(man[d], driveDisk[d])
  <2>1. CASE d \in dsc.fresh
    <3> DEFINE x == NewManifest(d, d, 0)
               o == NewManifest(0, 0, 0)
    <3>1. Whole(x) /\ Whole(o) /\ DOMAIN o.shares = {}
      BY NewFits
    <3>2. man[d] = x /\ driveDisk[d] = o
      BY <1>2, <2>1 DEF NoManifest
    <3> HIDE DEF x, o
    <3> QED
      BY <3>1, <3>2 DEF DeviceFits, Revokes, StaysRevoked
  <2>2. CASE d \notin dsc.fresh
    BY <1>1, <1>2, <2>2 DEF DeviceFits, StaysRevoked
  <2> QED
    BY <2>1, <2>2
<1>5. DevicesFit
  BY <1>1, <1>3, <1>4 DEF DevicesFit
<1>6. MailFits
  <2> DEFINE h == [live |-> TRUE, no |-> 1, obj |-> 1, revoked |-> FALSE, updates |-> 0]
  <2>1. \A s \in DOMAIN granted : granted[s] = h
    BY DEF DriveInit
  <2>2. HeldFits(h)
    BY DEF HeldFits
  <2> HIDE DEF h
  <2>3. \A s \in DOMAIN granted : HeldFits(granted[s])
    BY <2>1, <2>2
  <2> QED
    BY <1>3, <2>3 DEF MailFits
<1> QED
  BY <1>5, <1>6 DEF DriveInv

LEMMA KeptStep ==
  ASSUME DriveInv, StepKeeps
  PROVE  /\ \A d \in Devices, s \in Shares :
              RevokedIn(driveDisk[d], s) /\ driveDisk[d].drive = driveDisk'[d].drive => RevokedIn(driveDisk'[d], s)
         /\ \A s \in DOMAIN granted :
              granted[s].revoked => granted'[s].revoked /\ granted'[s].obj = granted[s].obj
<1>1. ASSUME NEW d \in Devices, NEW s \in Shares, RevokedIn(driveDisk[d], s),
             driveDisk[d].drive = driveDisk'[d].drive
      PROVE  RevokedIn(driveDisk'[d], s)
  <2>1. s \in DOMAIN driveDisk'[d].shares /\ driveDisk'[d].shares[s].revoked
    BY <1>1 DEF RevokedIn, StepKeeps, DisksKeep, DiskKeeps, StaysRevoked
  <2>2. driveDisk'[d] # NoManifest
    <3> DEFINE o == NewManifest(0, 0, 0)
    <3>1. DOMAIN o.shares = {}
      BY NewFits
    <3> HIDE DEF o
    <3>2. driveDisk'[d] # o
      BY <2>1, <3>1
    <3> QED
      BY <3>2 DEF o, NoManifest
  <2> QED
    BY <2>1, <2>2 DEF RevokedIn
<1> QED
  BY <1>1 DEF StepKeeps, GrantedKeeps

(* A revocation a device has saved is never undone on it, whatever it      *)
(* edits, merges or reloads, and the grantee's client takes nothing more   *)
(* for a share once it was told: for all devices, entries and shares, when *)
(* every device whose local copy holds a revocation has its keyring in the *)
(* vault (drive_revoke of cmd_drive.rs ends with HashgramOne::save).       *)
THEOREM RevocationsAreKept ==
  ASSUME NEW CONSTANT scenarios, \A sc \in scenarios : Started(sc)
  PROVE  DriveInit(scenarios) /\ [][DriveNext /\ KeyringFound]_driveVars => RevokedStaysRevoked
<1>1. DriveInit(scenarios) => DriveInv
  BY DriveStarts
<1>2. DriveInv /\ [DriveNext /\ KeyringFound]_driveVars => DriveInv' /\ StepKeeps
  BY DriveNextKeeps DEF StepKeeps
<1>3. DriveInv /\ StepKeeps =>
        /\ \A d \in Devices, s \in Shares :
             RevokedIn(driveDisk[d], s) /\ driveDisk[d].drive = driveDisk'[d].drive => RevokedIn(driveDisk'[d], s)
        /\ \A s \in DOMAIN granted :
             granted[s].revoked => granted'[s].revoked /\ granted'[s].obj = granted[s].obj
  BY KeptStep
<1> QED
  BY <1>1, <1>2, <1>3, PTL DEF RevokedStaysRevoked

----------------------------------------------------------------------------
(* Blobs: the sums of what uploaders have reserved.                        *)
(* Total is the sum of FiniteSums.                                         *)
LEMMA TotalIsSum == \A f, S : Total(f, S) = SumOf(f, S)
BY DEF Total, SumOf

(* A part of a sum of naturals is no more than the whole, and one more     *)
(* element adds at most its own term.                                      *)
LEMMA TotalIsMonotone ==
  ASSUME NEW f, NEW S, IsFiniteSet(S), \A y \in S : f[y] \in Nat, NEW R \in SUBSET S
  PROVE  /\ Total(f, R) \in Nat /\ Total(f, S) \in Nat /\ Total(f, R) <= Total(f, S)
         /\ \A x \in S : Total(f, R \cup {x}) <= Total(f, R) + f[x]
<1>0. (\A s \in SUBSET S : IsFiniteSet(s)) /\ \A y \in S : f[y] \in Int
  BY FS_Subset
<1>1. \A s \in SUBSET S : SumOf(f, s) \in Nat
  BY <1>0, SumIsNat
<1> DEFINE T == {s \in SUBSET S : SumOf(f, s \cap R) <= SumOf(f, s)}
<1>2. {} \in T
  <2>1. {} \cap R = {}
    OBVIOUS
  <2> QED
    BY <1>1, <2>1
<1>3. ASSUME NEW s \in SUBSET S, NEW x \in S \ s, s \in T PROVE s \cup {x} \in T
  <2>1. SumOf(f, s \cup {x}) = f[x] + SumOf(f, s) /\ f[x] \in Nat
    BY <1>0, SumAdds
  <2>2. CASE x \in R
    <3>1. (s \cup {x}) \cap R = (s \cap R) \cup {x} /\ x \in S \ (s \cap R) /\ s \cap R \in SUBSET S
      BY <2>2
    <3>2. \A r \in SUBSET S : \A y \in S \ r : SumOf(f, r \cup {y}) = f[y] + SumOf(f, r)
      BY <1>0, SumAdds
    <3>3. SumOf(f, (s \cap R) \cup {x}) = f[x] + SumOf(f, s \cap R)
      BY <3>1, <3>2
    <3>4. SumOf(f, s \cap R) \in Nat /\ SumOf(f, s) \in Nat /\ SumOf(f, s \cap R) <= SumOf(f, s)
      BY <1>1, <1>3, <3>1
    <3>5. SumOf(f, (s \cup {x}) \cap R) <= SumOf(f, s \cup {x})
      BY <2>1, <3>1, <3>3, <3>4
    <3> QED
      BY <3>5
  <2>3. CASE x \notin R
    <3>1. (s \cup {x}) \cap R = s \cap R
      BY <2>3
    <3>4. SumOf(f, s \cap R) \in Nat /\ SumOf(f, s) \in Nat /\ SumOf(f, s \cap R) <= SumOf(f, s)
      BY <1>1, <1>3
    <3>2. SumOf(f, s \cap R) <= f[x] + SumOf(f, s)
      BY <2>1, <3>4
    <3>5. SumOf(f, (s \cup {x}) \cap R) <= SumOf(f, s \cup {x})
      BY <2>1, <3>1, <3>2, Zenon
    <3> QED
      BY <3>5
  <2> QED
    BY <2>2, <2>3
<1> HIDE DEF T
<1>4. S \in T
  BY <1>2, <1>3, SubsetInduction
<1>5. S \cap R = R
  OBVIOUS
<1>6. SumOf(f, R) <= SumOf(f, S)
  BY <1>4, <1>5 DEF T
<1>7. ASSUME NEW x \in S PROVE SumOf(f, R \cup {x}) <= SumOf(f, R) + f[x]
  <2> DEFINE r == R \cup {x}
  <2> HIDE DEF r
  <2>1. ASSUME x \in R PROVE SumOf(f, r) <= SumOf(f, R) + f[x]
    <3>1. r = R
      BY <2>1 DEF r
    <3>2. SumOf(f, R) <= SumOf(f, R) + f[x]
      BY <1>1, <1>0
    <3> QED
      BY <3>1, <3>2
  <2>2. ASSUME x \notin R PROVE SumOf(f, r) <= SumOf(f, R) + f[x]
    <3>1. SumOf(f, r) = f[x] + SumOf(f, R) /\ SumOf(f, R) \in Int
      BY <1>0, <2>2, SumAdds DEF r
    <3>2. f[x] + SumOf(f, R) <= SumOf(f, R) + f[x]
      BY <1>0, <3>1
    <3> QED
      BY <3>1, <3>2
  <2>3. SumOf(f, r) <= SumOf(f, R) + f[x]
    BY <2>1, <2>2
  <2> QED
    BY <2>3 DEF r
<1> QED
  BY <1>1, <1>6, <1>7, TotalIsSum

(* A reservation: what an uploader has changes, the rest stays.            *)
LEMMA UsageChanges ==
  ASSUME NEW f, IsFiniteSet(DOMAIN f), \A y \in DOMAIN f : f[y] \in Nat, NEW x, NEW v \in Nat
  PROVE  /\ Total(f, DOMAIN f) \in Nat
         /\ At(f, x) \in Nat /\ At(f, x) <= Total(f, DOMAIN f)
         /\ Total(Set(f, x, v), DOMAIN Set(f, x, v)) = Total(f, DOMAIN f) - At(f, x) + v
         /\ Total(Drop(f, x), DOMAIN Drop(f, x)) = Total(f, DOMAIN f) - At(f, x)
<1> DEFINE S == DOMAIN f
           g == Set(f, x, v)
           h == Drop(f, x)
<1>1. DOMAIN g = S \cup {x} /\ g[x] = v /\ \A y \in S \ {x} : g[y] = f[y]
  BY DEF Set
<1>2. DOMAIN h = S \ {x} /\ \A y \in S \ {x} : h[y] = f[y]
  BY DEF Drop
<1>3. IsFiniteSet(S \ {x}) /\ IsFiniteSet(S \cup {x})
  BY FS_Subset, FS_AddElement
<1>4. \A y \in S \cup {x} : g[y] \in Int
  BY <1>1
<1> HIDE DEF g, h
<1>5. SumOf(g, S \ {x}) = SumOf(f, S \ {x}) /\ SumOf(h, S \ {x}) = SumOf(f, S \ {x})
  BY <1>1, <1>2, <1>3, SumAgrees
<1>6. SumOf(g, (S \ {x}) \cup {x}) = g[x] + SumOf(g, S \ {x})
  <2> DEFINE W == S \cup {x}
             R == S \ {x}
  <2>1. IsFiniteSet(W) /\ \A y \in W : g[y] \in Int
    BY <1>3, <1>4
  <2>2. R \in SUBSET W /\ x \in W \ R
    OBVIOUS
  <2> HIDE DEF W, R
  <2>3. SumOf(g, R \cup {x}) = g[x] + SumOf(g, R)
    BY <2>1, <2>2, SumAdds
  <2> QED
    BY <2>3 DEF R
<1>7. (S \ {x}) \cup {x} = S \cup {x}
  OBVIOUS
<1>8. SumOf(f, S) \in Nat /\ SumOf(f, S \ {x}) \in Nat /\ \A y \in S : f[y] <= SumOf(f, S)
  BY <1>3, SumIsNat
<1>9. SumOf(f, S) = At(f, x) + SumOf(f, S \ {x})
  <2>1. CASE x \in S
    <3>1. SumOf(f, S) = f[x] + SumOf(f, S \ {x})
      BY <2>1, SumTakesAny
    <3> QED
      BY <2>1, <3>1 DEF At
  <2>2. CASE x \notin S
    <3>1. S \ {x} = S
      BY <2>2
    <3> QED
      BY <1>8, <2>2, <3>1 DEF At
  <2> QED
    BY <2>1, <2>2
<1>10. At(f, x) \in Nat /\ At(f, x) <= SumOf(f, S)
  BY <1>8 DEF At
<1>11. Total(g, DOMAIN g) = SumOf(g, S \cup {x}) /\ Total(h, DOMAIN h) = SumOf(h, S \ {x})
       /\ Total(f, S) = SumOf(f, S)
  BY <1>1, <1>2, TotalIsSum
<1>12. Total(g, DOMAIN g) = Total(f, S) - At(f, x) + v
  <2>1. Total(g, DOMAIN g) = v + SumOf(f, S \ {x})
    BY <1>1, <1>5, <1>6, <1>7, <1>11
  <2>2. Total(f, S) = At(f, x) + SumOf(f, S \ {x})
    BY <1>9, <1>11
  <2> HIDE DEF S
  <2> QED
    BY <2>1, <2>2, <1>8, <1>10
<1>13. Total(h, DOMAIN h) = Total(f, S) - At(f, x)
  BY <1>5, <1>8, <1>9, <1>10, <1>11
<1> QED
  BY <1>8, <1>10, <1>11, <1>12, <1>13 DEF g, h

(* No blob is larger than MaxSize.                                         *)
LEMMA MaxSizeIsLargest ==
  MaxSize \in Nat /\ \A c \in BlobIds : SizeOf[c] <= MaxSize
<1> DEFINE sizes == {SizeOf[c] : c \in BlobIds}
<1>1. IsFiniteSet(sizes)
  <2> DEFINE g == [c \in BlobIds |-> SizeOf[c]]
  <2>1. g \in Surjection(BlobIds, sizes)
    BY DEF Surjection
  <2> HIDE DEF g, sizes
  <2> QED
    BY <2>1, BlobsAssumption, FS_Surjection
<1>2. sizes \in SUBSET Nat /\ sizes # {}
  BY BlobsAssumption
<1>3. PICK m \in sizes : \A y \in sizes : y <= m
  BY <1>1, <1>2, GreatestIsMax
<1> HIDE DEF sizes
<1>4. MaxSize \in sizes /\ \A y \in sizes : y <= MaxSize
  BY <1>3 DEF MaxSize, sizes
<1> QED
  BY <1>2, <1>4 DEF sizes

----------------------------------------------------------------------------
(* The rows of the chunks and their counts.                                *)
AllSlots == UNION {{<<c, i>> : i \in Indices(c)} : c \in BlobIds}
WithHash(present, h) == {q \in present : HashAt(q[1], q[2]) = h}

(* A present chunk is held, and counted for every row that lists it.       *)
Covers(present, refs) ==
  /\ present \subseteq AllSlots
  /\ \A r \in present : HashAt(r[1], r[2]) \in DOMAIN refs
  /\ \A h \in DOMAIN refs : refs[h] \in Nat /\ Cardinality(WithHash(present, h)) <= refs[h]

(* The chunks of finitely many blobs are finitely many.                    *)
LEMMA SlotsAreFinite ==
  ASSUME NEW present \in SUBSET AllSlots
  PROVE  /\ IsFiniteSet(present)
         /\ \A h : IsFiniteSet(WithHash(present, h)) /\ Cardinality(WithHash(present, h)) \in Nat
<1> DEFINE slots == [c \in BlobIds |-> {<<c, i>> : i \in Indices(c)}]
           all == {slots[c] : c \in BlobIds}
<1>1. \A c \in BlobIds : IsFiniteSet(slots[c])
  <2> SUFFICES ASSUME NEW c \in BlobIds PROVE IsFiniteSet(slots[c])
    OBVIOUS
  <2> DEFINE g == [i \in Indices(c) |-> <<c, i>>]
  <2>1. g \in Surjection(Indices(c), slots[c])
    BY DEF Surjection
  <2>2. Indices(c) = 1..Len(ChunksOf[c]) /\ Len(ChunksOf[c]) \in Int
    BY BlobsAssumption
  <2>3. IsFiniteSet(Indices(c))
    BY <2>2, FS_Interval
  <2> HIDE DEF g, slots
  <2> QED
    BY <2>1, <2>3, FS_Surjection
<1>2. slots \in Surjection(BlobIds, all)
  BY DEF Surjection
<1>3. AllSlots = UNION all
  BY DEF AllSlots
<1> HIDE DEF slots
<1>4. \A T \in all : IsFiniteSet(T)
  BY <1>1
<1> HIDE DEF all
<1>5. IsFiniteSet(all)
  BY <1>2, BlobsAssumption, FS_Surjection
<1>6. IsFiniteSet(AllSlots)
  BY <1>3, <1>4, <1>5, FS_UNION
<1>7. IsFiniteSet(present)
  BY <1>6, FS_Subset
<1>8. \A h : WithHash(present, h) \in SUBSET present
  BY DEF WithHash
<1> QED
  BY <1>7, <1>8, FS_Subset, FS_CardinalityType

(* The rows of some chunks of one blob, and their indices, are as many.    *)
LEMMA SlotsOfOne ==
  ASSUME NEW c \in BlobIds, NEW idx \in SUBSET Indices(c), NEW h
  PROVE  /\ RowsOf(c, idx) \subseteq AllSlots
         /\ TimesIn(c, idx, h) \in Nat
         /\ IsFiniteSet(WithHash(RowsOf(c, idx), h))
         /\ Cardinality(WithHash(RowsOf(c, idx), h)) = TimesIn(c, idx, h)
<1> DEFINE some == {i \in idx : HashAt(c, i) = h}
           rows == RowsOf(c, idx)
           g == [i \in some |-> <<c, i>>]
<1>1. IsFiniteSet(some)
  <2>1. Indices(c) = 1..Len(ChunksOf[c]) /\ Len(ChunksOf[c]) \in Int
    BY BlobsAssumption
  <2>2. IsFiniteSet(Indices(c))
    BY <2>1, FS_Interval
  <2> QED
    BY <2>2, FS_Subset
<1>2. g \in Bijection(some, WithHash(rows, h))
  <2>1. WithHash(rows, h) = {<<c, i>> : i \in some}
    BY DEF WithHash, RowsOf
  <2> QED
    BY <2>1 DEF Bijection, Injection, Surjection, IsInjective
<1>3. rows \subseteq AllSlots
  BY DEF AllSlots, RowsOf
<1>5. TimesIn(c, idx, h) = Cardinality(some)
  BY DEF TimesIn
<1> HIDE DEF some, rows, g
<1>4. IsFiniteSet(WithHash(rows, h)) /\ Cardinality(WithHash(rows, h)) = Cardinality(some)
  BY <1>1, <1>2, FS_Bijection DEF ExistsBijection
<1> QED
  BY <1>1, <1>3, <1>4, <1>5, FS_CardinalityType DEF rows

(* Rows are added and every one counted.                                   *)
LEMMA MarkedAreCovered ==
  ASSUME NEW present, NEW refs, Covers(present, refs),
         NEW c \in BlobIds, NEW idx \in SUBSET Indices(c)
  PROVE  Covers(present \cup RowsOf(c, idx), RefsAfter(refs, c, idx))
<1> DEFINE rows == RowsOf(c, idx)
           new == RefsAfter(refs, c, idx)
<1>1. \A h : /\ TimesIn(c, idx, h) \in Nat /\ IsFiniteSet(WithHash(rows, h))
             /\ Cardinality(WithHash(rows, h)) = TimesIn(c, idx, h)
  BY SlotsOfOne
<1>2. present \cup rows \subseteq AllSlots
  BY SlotsOfOne DEF Covers
<1>3. \A r \in present \cup rows : HashAt(r[1], r[2]) \in DOMAIN new
  BY DEF Covers, RefsAfter, RowsOf
<1>4. ASSUME NEW h \in DOMAIN new
      PROVE  new[h] \in Nat /\ Cardinality(WithHash(present \cup rows, h)) <= new[h]
  <2> DEFINE a == WithHash(present, h)
             b == WithHash(rows, h)
             k == TimesIn(c, idx, h)
             n == At(refs, h)
  <2>1. IsFiniteSet(a) /\ Cardinality(a) \in Nat
    BY SlotsAreFinite DEF Covers
  <2>2. n \in Nat /\ Cardinality(a) <= n
    <3>1. CASE h \in DOMAIN refs
      BY <3>1 DEF Covers, At
    <3>2. CASE h \notin DOMAIN refs
      <4>1. a = {}
        BY <3>2 DEF Covers, WithHash
      <4> QED
        BY <3>2, <4>1, FS_EmptySet DEF At
    <3> QED
      BY <3>1, <3>2
  <2>3. WithHash(present \cup rows, h) = a \cup b
    BY DEF WithHash
  <2>4. new[h] = n + k
    BY DEF RefsAfter
  <2>5. IsFiniteSet(b) /\ Cardinality(b) = k /\ k \in Nat
    BY <1>1
  <2> HIDE DEF a, b, k, n, new, rows
  <2>6. Cardinality(a \cup b) = Cardinality(a) + Cardinality(b) - Cardinality(a \cap b)
        /\ Cardinality(a \cap b) \in Nat
    BY <2>1, <2>5, FS_Union, FS_Intersection, FS_CardinalityType
  <2>7. Cardinality(a \cup b) <= n + k /\ n + k \in Nat
    BY <2>1, <2>2, <2>5, <2>6
  <2> QED
    BY <2>3, <2>4, <2>7
<1> QED
  BY <1>2, <1>3, <1>4 DEF Covers

(* The rows of a blob go, and what they counted with them.                 *)
LEMMA ReleasedAreCovered ==
  ASSUME NEW present, NEW refs, Covers(present, refs), NEW c \in BlobIds,
         NEW gone, gone = {i \in Indices(c) : <<c, i>> \in present}
  PROVE  Covers(present \ RowsOf(c, gone), RefsWithout(refs, c, gone))
<1> DEFINE rows == RowsOf(c, gone)
           new == RefsWithout(refs, c, gone)
<1>0. gone \in SUBSET Indices(c) /\ rows \subseteq present
  BY DEF RowsOf
<1>1. \A h : /\ TimesIn(c, gone, h) \in Nat /\ IsFiniteSet(WithHash(rows, h))
             /\ Cardinality(WithHash(rows, h)) = TimesIn(c, gone, h)
  BY <1>0, SlotsOfOne
<1>2. present \ rows \subseteq AllSlots
  BY DEF Covers
<1>3. ASSUME NEW h \in DOMAIN refs
      PROVE  /\ refs[h] \in Nat
             /\ Cardinality(WithHash(present \ rows, h)) <= refs[h] - TimesIn(c, gone, h)
             /\ Cardinality(WithHash(present \ rows, h)) \in Nat
             /\ WithHash(present \ rows, h) # {} => Cardinality(WithHash(present \ rows, h)) > 0
  <2> DEFINE a == WithHash(present, h)
             b == WithHash(rows, h)
             k == TimesIn(c, gone, h)
             n == refs[h]
  <2>1. IsFiniteSet(a) /\ Cardinality(a) \in Nat
    BY SlotsAreFinite DEF Covers
  <2>2. n \in Nat /\ Cardinality(a) <= n
    BY DEF Covers
  <2>3. WithHash(present \ rows, h) = a \ b
    BY DEF WithHash
  <2>4. a \cap b = b
    BY <1>0 DEF WithHash
  <2>5. Cardinality(b) = k /\ k \in Nat
    BY <1>1
  <2> HIDE DEF a, b, k, n, new, rows
  <2>6. IsFiniteSet(a \ b) /\ Cardinality(a \ b) = Cardinality(a) - Cardinality(a \cap b)
    BY <2>1, FS_Difference
  <2>7. Cardinality(a \ b) \in Nat /\ (a \ b # {} => Cardinality(a \ b) # 0)
    BY <2>6, FS_CardinalityType, FS_EmptySet
  <2>8. Cardinality(a \ b) = Cardinality(a) - k
    BY <2>4, <2>5, <2>6
  <2>9. Cardinality(a \ b) <= n - k /\ (a \ b # {} => Cardinality(a \ b) > 0)
    BY <2>1, <2>2, <2>5, <2>7, <2>8
  <2> QED
    BY <2>2, <2>3, <2>7, <2>9 DEF k, n
<1>4. ASSUME NEW r \in present \ rows PROVE HashAt(r[1], r[2]) \in DOMAIN new
  <2> DEFINE h == HashAt(r[1], r[2])
             k == TimesIn(c, gone, h)
             m == Cardinality(WithHash(present \ rows, h))
             n == refs[h]
  <2>1. h \in DOMAIN refs
    BY DEF Covers
  <2>2. r \in WithHash(present \ rows, h)
    BY DEF WithHash
  <2>3. n \in Nat /\ k \in Nat /\ m <= n - k /\ m \in Nat /\ m > 0
    BY <1>1, <1>3, <2>1, <2>2
  <2>4. n > k
    <3> HIDE DEF m, k, n
    <3> QED
      BY <2>3
  <2> QED
    BY <2>1, <2>4 DEF RefsWithout
<1>5. ASSUME NEW h \in DOMAIN new
      PROVE  new[h] \in Nat /\ Cardinality(WithHash(present \ rows, h)) <= new[h]
  <2> DEFINE k == TimesIn(c, gone, h)
             n == refs[h]
  <2>1. h \in DOMAIN refs /\ n > k /\ new[h] = n - k
    BY DEF RefsWithout
  <2>2. n \in Nat /\ k \in Nat /\ Cardinality(WithHash(present \ rows, h)) <= n - k
    BY <1>1, <1>3, <2>1
  <2>3. n - k \in Nat
    <3> HIDE DEF k, n
    <3> QED
      BY <2>1, <2>2
  <2> QED
    BY <2>1, <2>2, <2>3
<1> QED
  BY <1>2, <1>4, <1>5 DEF Covers

----------------------------------------------------------------------------
(* One store: what is reserved covers what was accepted.                   *)
IsStore(s) == s = [meta |-> s.meta, present |-> s.present, refs |-> s.refs, usage |-> s.usage]

Covered(s) == \A u \in Senders : At(s.usage, u) >= Total(SizeOf, ReservedBy(s, u))
StoreFits(s) ==
  /\ IsStore(s)
  /\ DOMAIN s.meta \subseteq BlobIds /\ \A c \in DOMAIN s.meta : s.meta[c].up \in Senders
  /\ DOMAIN s.usage \subseteq Senders /\ \A u \in DOMAIN s.usage : s.usage[u] \in Nat
  /\ Covers(s.present, s.refs)
  /\ Covered(s)

(* A store stays a record when its tables are written.                     *)
LEMMA StoreWrites ==
  ASSUME NEW s, IsStore(s), NEW v
  PROVE  /\ [s EXCEPT !.meta = v]
              = [meta |-> v, present |-> s.present, refs |-> s.refs, usage |-> s.usage]
         /\ [s EXCEPT !.present = v]
              = [meta |-> s.meta, present |-> v, refs |-> s.refs, usage |-> s.usage]
         /\ [s EXCEPT !.refs = v]
              = [meta |-> s.meta, present |-> s.present, refs |-> v, usage |-> s.usage]
         /\ [s EXCEPT !.usage = v]
              = [meta |-> s.meta, present |-> s.present, refs |-> s.refs, usage |-> v]
<1>1. PICK a, b, c, d : s = [meta |-> a, present |-> b, refs |-> c, usage |-> d]
  BY DEF IsStore
<1>2. s.meta = a /\ s.present = b /\ s.refs = c /\ s.usage = d
  BY <1>1
<1>3. [s EXCEPT !.meta = v] = [meta |-> v, present |-> b, refs |-> c, usage |-> d]
  BY <1>1
<1>4. [s EXCEPT !.present = v] = [meta |-> a, present |-> v, refs |-> c, usage |-> d]
  BY <1>1
<1>5. [s EXCEPT !.refs = v] = [meta |-> a, present |-> b, refs |-> v, usage |-> d]
  BY <1>1
<1>6. [s EXCEPT !.usage = v] = [meta |-> a, present |-> b, refs |-> c, usage |-> v]
  BY <1>1
<1> QED
  BY <1>2, <1>3, <1>4, <1>5, <1>6

(* What WithMeta and WithRows write.                                       *)
LEMMA StoreWritten ==
  ASSUME NEW s, IsStore(s), NEW a, NEW b
  PROVE  /\ WithMeta(s, a, b)
              = [meta |-> a, present |-> s.present, refs |-> s.refs, usage |-> b]
         /\ WithRows(s, a, b)
              = [meta |-> s.meta, present |-> a, refs |-> b, usage |-> s.usage]
<1> DEFINE r == [s EXCEPT !.meta = a]
           t == [s EXCEPT !.present = a]
<1>1. r = [meta |-> a, present |-> s.present, refs |-> s.refs, usage |-> s.usage]
  BY StoreWrites
<1>2. t = [meta |-> s.meta, present |-> a, refs |-> s.refs, usage |-> s.usage]
  BY StoreWrites
<1>3. WithMeta(s, a, b) = [r EXCEPT !.usage = b]
  BY DEF WithMeta
<1>4. WithRows(s, a, b) = [t EXCEPT !.refs = b]
  BY DEF WithRows
<1> HIDE DEF r, t
<1>5. IsStore(r) /\ r.meta = a /\ r.present = s.present /\ r.refs = s.refs
  BY <1>1 DEF IsStore
<1>6. IsStore(t) /\ t.meta = s.meta /\ t.present = a /\ t.usage = s.usage
  BY <1>2 DEF IsStore
<1>7. [r EXCEPT !.usage = b] = [meta |-> r.meta, present |-> r.present, refs |-> r.refs, usage |-> b]
  BY <1>5, StoreWrites
<1>8. [t EXCEPT !.refs = b] = [meta |-> t.meta, present |-> t.present, refs |-> b, usage |-> t.usage]
  BY <1>6, StoreWrites
<1> QED
  BY <1>3, <1>4, <1>5, <1>6, <1>7, <1>8

(* What uploaders have reserved is a finite sum of naturals.               *)
LEMMA UsageIs ==
  ASSUME NEW s, StoreFits(s)
  PROVE  /\ IsFiniteSet(DOMAIN s.usage)
         /\ BytesUsed(s) \in Nat
         /\ \A u : At(s.usage, u) \in Nat /\ At(s.usage, u) <= BytesUsed(s)
<1>1. IsFiniteSet(DOMAIN s.usage)
  BY BlobsAssumption, FS_Subset DEF StoreFits, Senders
<1>2. \A u \in DOMAIN s.usage : s.usage[u] \in Nat
  BY DEF StoreFits
<1> DEFINE f == s.usage
<1> HIDE DEF f
<1>3. IsFiniteSet(DOMAIN f) /\ \A u \in DOMAIN f : f[u] \in Nat
  BY <1>1, <1>2 DEF f
<1>4. \A u : At(f, u) \in Nat /\ At(f, u) <= Total(f, DOMAIN f) /\ Total(f, DOMAIN f) \in Nat
  <2> TAKE u
  <2> QED
    BY <1>3, UsageChanges
<1> QED
  BY <1>1, <1>4 DEF f, BytesUsed

(* What an uploader must have reserved.                                    *)
LEMMA ReservedIs ==
  ASSUME NEW s, StoreFits(s), NEW u
  PROVE  /\ ReservedBy(s, u) \in SUBSET BlobIds
         /\ Total(SizeOf, ReservedBy(s, u)) \in Nat
<1>1. ReservedBy(s, u) \in SUBSET BlobIds
  BY DEF ReservedBy, StoreFits
<1> QED
  BY <1>1, BlobsAssumption, TotalIsMonotone

(* put_manifest's reservation.                                             *)
LEMMA ReserveFits ==
  ASSUME NEW s, StoreFits(s), NEW c \in BlobIds, NEW up \in Senders, NEW t
  PROVE  /\ StoreFits(Reserve(s, c, up, t))
         /\ BytesUsed(Reserve(s, c, up, t)) = BytesUsed(s) + SizeOf[c]
<1> DEFINE v == At(s.usage, up) + SizeOf[c]
           r == Reserve(s, c, up, t)
<1>0. SizeOf[c] \in Nat /\ IsFiniteSet(BlobIds) /\ \A x \in BlobIds : SizeOf[x] \in Nat
  BY BlobsAssumption
<1>1. /\ IsFiniteSet(DOMAIN s.usage) /\ BytesUsed(s) \in Nat
      /\ \A u : At(s.usage, u) \in Nat
  BY UsageIs
<1>2. v \in Nat
  BY <1>0, <1>1
<1>3. r = [meta |-> Set(s.meta, c, [up |-> up, at |-> t]), present |-> s.present,
           refs |-> s.refs, usage |-> Set(s.usage, up, v)]
  <2> DEFINE m == Set(s.meta, c, [up |-> up, at |-> t])
             g == Set(s.usage, up, v)
  <2>1. r = WithMeta(s, m, g)
    BY DEF Reserve
  <2> HIDE DEF r, v, m, g
  <2>2. r = [meta |-> m, present |-> s.present, refs |-> s.refs, usage |-> g]
    BY <2>1, StoreWritten DEF StoreFits
  <2> QED
    BY <2>2 DEF m, g
<1>4. /\ r.meta = Set(s.meta, c, [up |-> up, at |-> t]) /\ r.present = s.present
      /\ r.refs = s.refs /\ r.usage = Set(s.usage, up, v)
  BY <1>3
<1>5. IsStore(r)
  BY <1>3 DEF IsStore
<1>6. /\ DOMAIN r.meta = DOMAIN s.meta \cup {c}
      /\ r.meta[c].up = up /\ \A x \in DOMAIN s.meta \ {c} : r.meta[x] = s.meta[x]
  BY <1>4 DEF Set
<1>7. /\ DOMAIN r.usage = DOMAIN s.usage \cup {up}
      /\ r.usage[up] = v /\ \A u \in DOMAIN s.usage \ {up} : r.usage[u] = s.usage[u]
  BY <1>4 DEF Set
<1> HIDE DEF r
<1>8. DOMAIN r.meta \subseteq BlobIds /\ \A x \in DOMAIN r.meta : r.meta[x].up \in Senders
  BY <1>6 DEF StoreFits
<1>9. DOMAIN r.usage \subseteq Senders /\ \A u \in DOMAIN r.usage : r.usage[u] \in Nat
  BY <1>2, <1>7 DEF StoreFits
<1>10. Covered(r)
  <2> SUFFICES ASSUME NEW u \in Senders PROVE At(r.usage, u) >= Total(SizeOf, ReservedBy(r, u))
    BY DEF Covered
  <2>1. /\ ReservedBy(s, u) \in SUBSET BlobIds /\ Total(SizeOf, ReservedBy(s, u)) \in Nat
        /\ At(s.usage, u) >= Total(SizeOf, ReservedBy(s, u)) /\ At(s.usage, u) \in Nat
    BY <1>1, ReservedIs DEF StoreFits, Covered
  <2>2. ASSUME u = up PROVE At(r.usage, u) >= Total(SizeOf, ReservedBy(r, u))
    <3>1. ReservedBy(r, u) = ReservedBy(s, u) \cup {c}
      BY <1>6, <2>2 DEF ReservedBy
    <3>2. Total(SizeOf, ReservedBy(s, u) \cup {c}) <= Total(SizeOf, ReservedBy(s, u)) + SizeOf[c]
      BY <1>0, <2>1, TotalIsMonotone
    <3>3. At(r.usage, u) = At(s.usage, u) + SizeOf[c]
      BY <1>7, <2>2 DEF At
    <3>4. Total(SizeOf, ReservedBy(s, u) \cup {c}) \in Nat
      <4>1. ReservedBy(s, u) \cup {c} \in SUBSET BlobIds
        BY <2>1
      <4> QED
        BY <1>0, <4>1, TotalIsMonotone
    <3> DEFINE a == Total(SizeOf, ReservedBy(s, u) \cup {c})
    <3> HIDE DEF a
    <3>5. At(s.usage, u) + SizeOf[c] >= a
      BY <1>0, <2>1, <3>2, <3>4 DEF a
    <3> QED
      BY <3>1, <3>3, <3>5 DEF a
  <2>3. ASSUME u # up PROVE At(r.usage, u) >= Total(SizeOf, ReservedBy(r, u))
    <3>1. ReservedBy(r, u) = ReservedBy(s, u) \ {c}
      BY <1>6, <2>3 DEF ReservedBy
    <3>2. At(r.usage, u) = At(s.usage, u)
      BY <1>7, <2>3 DEF At
    <3>3. /\ Total(SizeOf, ReservedBy(s, u) \ {c}) <= Total(SizeOf, ReservedBy(s, u))
          /\ Total(SizeOf, ReservedBy(s, u) \ {c}) \in Nat
      <4>1. IsFiniteSet(ReservedBy(s, u)) /\ ReservedBy(s, u) \ {c} \in SUBSET ReservedBy(s, u)
            /\ \A x \in ReservedBy(s, u) : SizeOf[x] \in Nat
        BY <1>0, <2>1, FS_Subset
      <4> QED
        BY <4>1, TotalIsMonotone
    <3> QED
      BY <2>1, <3>1, <3>2, <3>3
  <2> QED
    BY <2>2, <2>3
<1>11. Covers(r.present, r.refs)
  BY <1>4 DEF StoreFits
<1>12. StoreFits(r)
  BY <1>5, <1>8, <1>9, <1>10, <1>11 DEF StoreFits
<1>13. BytesUsed(r) = BytesUsed(s) + SizeOf[c]
  <2> DEFINE f == s.usage
  <2>1. IsFiniteSet(DOMAIN f) /\ \A u \in DOMAIN f : f[u] \in Nat
    BY <1>1 DEF StoreFits
  <2> HIDE DEF f
  <2>2. Total(Set(f, up, v), DOMAIN Set(f, up, v)) = Total(f, DOMAIN f) - At(f, up) + v
    BY <1>2, <2>1, UsageChanges
  <2>3. BytesUsed(r) = BytesUsed(s) - At(s.usage, up) + v
    BY <1>4, <2>2 DEF f, BytesUsed
  <2> QED
    BY <1>0, <1>1, <2>3
<1> QED
  BY <1>12, <1>13 DEF r

(* A write of chunk rows alone.                                            *)
LEMMA RowsFit ==
  ASSUME NEW s, StoreFits(s), NEW p, NEW f, Covers(p, f),
         NEW r, r = WithRows(s, p, f)
  PROVE  StoreFits(r) /\ BytesUsed(r) = BytesUsed(s) /\ r.meta = s.meta /\ r.usage = s.usage
<1>0. IsStore(s)
  BY DEF StoreFits
<1>2. r = [meta |-> s.meta, present |-> p, refs |-> f, usage |-> s.usage]
  BY <1>0, StoreWritten
<1>3. r.meta = s.meta /\ r.present = p /\ r.refs = f /\ r.usage = s.usage
  BY <1>2
<1>4. IsStore(r)
  BY <1>2, <1>3 DEF IsStore
<1>5. \A u : ReservedBy(r, u) = ReservedBy(s, u)
  BY <1>3 DEF ReservedBy
<1>6. StoreFits(r)
  BY <1>3, <1>4, <1>5 DEF StoreFits, Covered
<1>7. BytesUsed(r) = BytesUsed(s)
  BY <1>3 DEF BytesUsed
<1> QED
  BY <1>3, <1>6, <1>7

(* put_manifest's second transaction, and put_chunk's write.               *)
LEMMA MarkFits ==
  ASSUME NEW s, StoreFits(s), NEW c \in BlobIds
  PROVE  /\ StoreFits(MarkHeld(s, c)) /\ BytesUsed(MarkHeld(s, c)) = BytesUsed(s)
         /\ MarkHeld(s, c).meta = s.meta
<1> DEFINE idx == {i \in Indices(c) : Holds(s, HashAt(c, i))}
           p == s.present \cup RowsOf(c, idx)
           f == RefsAfter(s.refs, c, idx)
           r == MarkHeld(s, c)
<1>1. r = WithRows(s, p, f)
  BY DEF MarkHeld
<1>2. idx \in SUBSET Indices(c) /\ Covers(s.present, s.refs)
  BY DEF StoreFits
<1> HIDE DEF idx, r
<1>3. Covers(p, f)
  BY <1>2, MarkedAreCovered
<1> HIDE DEF p, f
<1>4. StoreFits(r) /\ BytesUsed(r) = BytesUsed(s) /\ r.meta = s.meta
  BY <1>1, <1>3, RowsFit
<1> QED
  BY <1>4 DEF r

(* put_chunk's write.                                                      *)
LEMMA AddFits ==
  ASSUME NEW s, StoreFits(s), NEW c \in BlobIds, NEW i \in Indices(c)
  PROVE  /\ StoreFits(AddChunk(s, c, i)) /\ BytesUsed(AddChunk(s, c, i)) = BytesUsed(s)
         /\ AddChunk(s, c, i).meta = s.meta
<1>1. CASE <<c, i>> \in s.present
  BY <1>1 DEF AddChunk
<1>2. CASE <<c, i>> \notin s.present
  <2> DEFINE p == s.present \cup RowsOf(c, {i})
             f == RefsAfter(s.refs, c, {i})
             r == AddChunk(s, c, i)
  <2>1. {i} \in SUBSET Indices(c) /\ Covers(s.present, s.refs)
    BY DEF StoreFits
  <2>2. r = WithRows(s, p, f)
    BY <1>2 DEF AddChunk
  <2>3. Covers(p, f)
    BY <2>1, MarkedAreCovered
  <2> HIDE DEF p, f, r
  <2>4. StoreFits(r) /\ BytesUsed(r) = BytesUsed(s) /\ r.meta = s.meta
    BY <2>2, <2>3, RowsFit
  <2> QED
    BY <2>4 DEF r
<1> QED
  BY <1>1, <1>2

(* delete's transaction: the chunks, then the manifest and the reservation.*)
LEMMA ReleaseChunksFits ==
  ASSUME NEW s, StoreFits(s), NEW c \in BlobIds
  PROVE  /\ StoreFits(ReleaseChunks(s, c)) /\ BytesUsed(ReleaseChunks(s, c)) = BytesUsed(s)
         /\ ReleaseChunks(s, c).meta = s.meta /\ ReleaseChunks(s, c).usage = s.usage
<1> DEFINE gone == Row(s, c)
           p == s.present \ RowsOf(c, gone)
           f == RefsWithout(s.refs, c, gone)
           r == ReleaseChunks(s, c)
<1>1. r = WithRows(s, p, f)
  BY DEF ReleaseChunks
<1>2. Covers(s.present, s.refs) /\ gone = {i \in Indices(c) : <<c, i>> \in s.present}
  BY DEF StoreFits, Row
<1> HIDE DEF gone, r
<1>3. Covers(p, f)
  BY <1>2, ReleasedAreCovered
<1> HIDE DEF p, f
<1>4. StoreFits(r) /\ BytesUsed(r) = BytesUsed(s) /\ r.meta = s.meta /\ r.usage = s.usage
  BY <1>1, <1>3, RowsFit
<1> QED
  BY <1>4 DEF r

(* The manifest goes, and the reservation of the uploader on record.       *)
LEMMA ForgetFits ==
  ASSUME NEW s, StoreFits(s), NEW c \in DOMAIN s.meta, NEW up, up = s.meta[c].up,
         NEW rest, rest = At(s.usage, up) - SizeOf[c],
         NEW use, use = (IF rest <= 0 THEN Drop(s.usage, up) ELSE Set(s.usage, up, rest)),
         NEW r, r = WithMeta(s, Drop(s.meta, c), use)
  PROVE  StoreFits(r) /\ BytesUsed(r) <= BytesUsed(s)
<1>1. r = [meta |-> Drop(s.meta, c), present |-> s.present, refs |-> s.refs, usage |-> use]
  BY StoreWritten DEF StoreFits
<1>2. /\ r.meta = Drop(s.meta, c) /\ r.present = s.present /\ r.refs = s.refs /\ r.usage = use
      /\ IsStore(r)
  BY <1>1 DEF IsStore
<1>3. /\ SizeOf[c] \in Nat /\ IsFiniteSet(BlobIds) /\ \A x \in BlobIds : SizeOf[x] \in Nat
      /\ up \in Senders /\ \A u : At(s.usage, u) \in Nat
  BY BlobsAssumption, UsageIs DEF StoreFits
<1>4. DOMAIN r.meta = DOMAIN s.meta \ {c} /\ \A x \in DOMAIN r.meta : r.meta[x] = s.meta[x]
  BY <1>2 DEF Drop
<1>5. /\ DOMAIN use \subseteq Senders /\ \A u \in DOMAIN use : use[u] \in Nat
      /\ \A u \in Senders : u # up => At(use, u) = At(s.usage, u)
      /\ At(use, up) \in Nat /\ At(use, up) >= rest
      /\ At(use, up) <= At(s.usage, up)
  <2>0. rest \in Int /\ rest <= At(s.usage, up) /\ At(s.usage, up) \in Nat
    BY <1>3
  <2>1. CASE rest <= 0
    <3>1. use = Drop(s.usage, up)
      BY <2>1
    <3>0. DOMAIN use = DOMAIN s.usage \ {up} /\ \A u \in DOMAIN use : use[u] = s.usage[u]
      BY <3>1 DEF Drop
    <3>2. /\ DOMAIN use \subseteq Senders /\ \A u \in DOMAIN use : use[u] \in Nat
          /\ \A u \in Senders : u # up => At(use, u) = At(s.usage, u)
          /\ At(use, up) = 0
      BY <3>0 DEF At, StoreFits
    <3> QED
      BY <2>0, <2>1, <3>2
  <2>2. CASE ~(rest <= 0)
    <3>1. use = Set(s.usage, up, rest) /\ rest \in Nat
      BY <2>0, <2>2
    <3>0. /\ DOMAIN use = DOMAIN s.usage \cup {up} /\ use[up] = rest
          /\ \A u \in DOMAIN s.usage \ {up} : use[u] = s.usage[u]
      BY <3>1 DEF Set
    <3>2. /\ DOMAIN use \subseteq Senders /\ \A u \in DOMAIN use : use[u] \in Nat
          /\ \A u \in Senders : u # up => At(use, u) = At(s.usage, u)
          /\ At(use, up) = rest
      <4>1. DOMAIN use \subseteq Senders
        BY <1>3, <3>0 DEF StoreFits
      <4>2. \A u \in DOMAIN use : use[u] \in Nat
        BY <3>0, <3>1 DEF StoreFits
      <4>3. \A u \in Senders : u # up => At(use, u) = At(s.usage, u)
        BY <3>0 DEF At
      <4>4. At(use, up) = rest
        BY <3>0 DEF At
      <4> QED
        BY <4>1, <4>2, <4>3, <4>4
    <3>3. rest \in Nat /\ rest <= At(s.usage, up) /\ rest >= rest
      BY <2>0, <3>1
    <3> QED
      BY <3>2, <3>3, Zenon
  <2> QED
    BY <2>1, <2>2
<1>6. Covered(r)
  <2> SUFFICES ASSUME NEW u \in Senders PROVE At(r.usage, u) >= Total(SizeOf, ReservedBy(r, u))
    BY DEF Covered
  <2> DEFINE had == ReservedBy(s, u)
             has == had \ {c}
  <2>1. /\ had \in SUBSET BlobIds /\ Total(SizeOf, had) \in Nat
        /\ At(s.usage, u) >= Total(SizeOf, had) /\ At(s.usage, u) \in Nat
    BY <1>3, ReservedIs DEF StoreFits, Covered
  <2>2. ReservedBy(r, u) = has
    BY <1>4 DEF ReservedBy
  <2>3. u = up => c \in had
    BY DEF ReservedBy
  <2> HIDE DEF had
  <2>4. IsFiniteSet(had) /\ has \in SUBSET had /\ \A x \in had : SizeOf[x] \in Nat /\ SizeOf[x] \in Int
    BY <1>3, <2>1, FS_Subset
  <2>5. Total(SizeOf, has) \in Nat /\ Total(SizeOf, has) <= Total(SizeOf, had)
    BY <2>4, TotalIsMonotone
  <2>6. u = up => Total(SizeOf, had) = SizeOf[c] + Total(SizeOf, has)
    BY <2>3, <2>4, SumTakesAny, TotalIsSum
  <2> DEFINE a == At(r.usage, u)
             n == Total(SizeOf, had)
             m == Total(SizeOf, has)
             o == At(s.usage, u)
  <2>7. /\ u = up => a \in Nat /\ a >= rest /\ rest = o - SizeOf[c]
        /\ u # up => a = o
    BY <1>2, <1>5
  <2>8. /\ m \in Nat /\ m <= n /\ n \in Nat /\ o >= n /\ o \in Nat /\ SizeOf[c] \in Nat
        /\ u = up => n = SizeOf[c] + m
    BY <1>3, <2>1, <2>5, <2>6
  <2> HIDE DEF a, n, m, o
  <2>9. a >= m
    BY <2>7, <2>8
  <2> QED
    BY <2>2, <2>9 DEF a, m
<1>7. DOMAIN r.meta \subseteq BlobIds /\ \A x \in DOMAIN r.meta : r.meta[x].up \in Senders
  BY <1>4 DEF StoreFits
<1>8. StoreFits(r)
  BY <1>2, <1>5, <1>6, <1>7 DEF StoreFits
<1>9. BytesUsed(r) <= BytesUsed(s)
  <2> DEFINE g == s.usage
             n == Total(g, DOMAIN g)
             m == Total(use, DOMAIN use)
  <2>1. IsFiniteSet(DOMAIN g) /\ \A u \in DOMAIN g : g[u] \in Nat
    BY UsageIs DEF StoreFits
  <2>2. BytesUsed(s) = n /\ BytesUsed(r) = m
    BY <1>2 DEF BytesUsed
  <2>3. rest = At(g, up) - SizeOf[c] /\ At(g, up) \in Nat /\ SizeOf[c] \in Nat
    BY <1>3
  <2>4. CASE rest <= 0
    <3>1. use = Drop(g, up)
      BY <2>4
    <3> HIDE DEF g
    <3>2. 0 \in Nat
      OBVIOUS
    <3>3. Total(Drop(g, up), DOMAIN Drop(g, up)) = n - At(g, up) /\ n \in Nat
      BY <2>1, <3>2, UsageChanges
    <3>4. m = n - At(g, up)
      BY <3>1, <3>3
    <3> HIDE DEF m, n
    <3>5. m <= n
      BY <2>3, <3>3, <3>4
    <3> QED
      BY <2>2, <3>5
  <2>5. CASE ~(rest <= 0)
    <3>1. use = Set(g, up, rest) /\ rest \in Nat
      BY <2>3, <2>5
    <3> HIDE DEF g
    <3>3. Total(Set(g, up, rest), DOMAIN Set(g, up, rest)) = n - At(g, up) + rest /\ n \in Nat
      BY <2>1, <3>1, UsageChanges
    <3>4. m = n - At(g, up) + rest
      BY <3>1, <3>3
    <3> HIDE DEF m, n
    <3>5. m <= n
      BY <2>3, <3>1, <3>3, <3>4
    <3> QED
      BY <2>2, <3>5
  <2> QED
    BY <2>4, <2>5
<1> QED
  BY <1>8, <1>9

(* delete's transaction, whether or not the manifest is still there.       *)
LEMMA ReleaseFits ==
  ASSUME NEW s, StoreFits(s), NEW c \in BlobIds
  PROVE  StoreFits(ReleaseRows(s, c)) /\ BytesUsed(ReleaseRows(s, c)) <= BytesUsed(s)
<1> DEFINE t == ReleaseChunks(s, c)
<1>1. /\ StoreFits(t) /\ BytesUsed(t) = BytesUsed(s) /\ BytesUsed(s) \in Nat
      /\ t.meta = s.meta /\ t.usage = s.usage
  BY ReleaseChunksFits, UsageIs
<1>2. CASE c \notin DOMAIN s.meta
  BY <1>1, <1>2 DEF ReleaseRows
<1>3. CASE c \in DOMAIN s.meta
  <2> DEFINE up == t.meta[c].up
             rest == At(t.usage, up) - SizeOf[c]
             use == IF rest <= 0 THEN Drop(t.usage, up) ELSE Set(t.usage, up, rest)
             r == ReleaseRows(s, c)
  <2>1. r = WithMeta(t, Drop(t.meta, c), use)
    BY <1>1, <1>3 DEF ReleaseRows
  <2>2. c \in DOMAIN t.meta
    BY <1>1, <1>3
  <2> HIDE DEF r
  <2> HIDE DEF t
  <2>3. StoreFits(r) /\ BytesUsed(r) <= BytesUsed(t)
    <3> DEFINE w == up
               x == rest
               y == use
    <3>1. w = t.meta[c].up /\ x = At(t.usage, w) - SizeOf[c]
          /\ y = (IF x <= 0 THEN Drop(t.usage, w) ELSE Set(t.usage, w, x))
          /\ r = WithMeta(t, Drop(t.meta, c), y)
      BY <2>1
    <3> HIDE DEF w, x, y
    <3> QED
      BY <1>1, <2>2, <3>1, ForgetFits
  <2> QED
    BY <1>1, <2>3 DEF r
<1> QED
  BY <1>2, <1>3

----------------------------------------------------------------------------
(* The invariant of the blob service: every store fits, every task is about *)
(* a blob, and a chunk of it, that exist, the answer a sender waits for is  *)
(* about the blob it sent, and a check of the quota counts until its        *)
(* reservation is made.                                                     *)
TaskFits(t, k) ==
  /\ DOMAIN t = {"op", "c", "i", "step", "for", "up", "todo", "more", "from"}
  /\ t.op \in {"put", "chunk", "del"} => t.c \in BlobIds
  /\ t.op = "put" => t.up \in Senders /\ k # "maint"
  /\ t.op = "chunk" => k # "maint" /\ t.i \in Indices(t.c) /\ t.more \subseteq Indices(t.c)
  /\ t.for # Nobody => k = "net" /\ t.op \in {"put", "chunk"}
CallFits(s) ==
  /\ DOMAIN s = {"c", "to", "next", "todo", "stage", "i", "answer", "missing", "took"}
  /\ s.c \in BlobIds \/ (s.to = Nobody /\ s.answer = "none")
  /\ s.to # Nobody => s.stage \in {"put", "chunk"}
  /\ s.c \in BlobIds =>
       /\ s.missing \subseteq Indices(s.c) /\ s.todo \subseteq Indices(s.c)
       /\ s.stage = "chunk" => s.i \in Indices(s.c)
WaitsFor(n, t, cs) ==
  t.for # Nobody =>
    /\ t.for \in Senders
    /\ cs[t.for].to = n /\ cs[t.for].answer = "pending" /\ cs[t.for].c = t.c
Pending(t) == IF t.op = "put" /\ t.step = "reserve" THEN SizeOf[t.c] ELSE 0

StoresFit == DOMAIN store = Nodes /\ \A n \in Nodes : StoreFits(store[n])
BlobTasksFit ==
  /\ DOMAIN task = Nodes /\ \A n \in Nodes : DOMAIN task[n] = NodeTasks
  /\ \A n \in Nodes : \A k \in NodeTasks : TaskFits(task[n][k], k)
CallsFit == DOMAIN call = Senders /\ \A x \in Senders : CallFits(call[x])
AnswersFit == \A n \in Nodes : \A k \in NodeTasks : WaitsFor(n, task[n][k], call)
QuotaFits ==
  Quota > 0 => \A n \in Nodes :
    BytesUsed(store[n]) + Pending(task[n]["net"]) + Pending(task[n]["api"]) <= Quota + MaxSize
LeaseFits ==
  /\ DOMAIN lease = {"seen", "paid", "sent", "crashes", "sending"}
  /\ lease.crashes \in Nat /\ ~(lease.sending /\ lease.paid)
  /\ lease.sent = lease.crashes + (IF lease.sending \/ lease.paid THEN 1 ELSE 0)
BlobInv == StoresFit /\ BlobTasksFit /\ CallsFit /\ AnswersFit /\ QuotaFits /\ LeaseFits

(* Nothing done, and nothing sent.                                         *)
LEMMA NothingFits ==
  /\ \A k : TaskFits(Idle, k)
  /\ Pending(Idle) = 0 /\ Idle.for = Nobody /\ Idle.op = "idle"
  /\ CallFits(NoCall) /\ NoCall.to = Nobody /\ NoCall.answer = "none"
BY DEF TaskFits, CallFits, Idle, NoCall, Pending

(* A reservation under way is no larger than the largest blob.             *)
LEMMA PendingIs ==
  ASSUME NEW t, NEW k, TaskFits(t, k)
  PROVE  /\ Pending(t) \in Nat /\ Pending(t) <= MaxSize
         /\ k = "maint" => Pending(t) = 0
BY MaxSizeIsLargest, BlobsAssumption DEF TaskFits, Pending

(* The least element of some chunk indices is one of them.                 *)
LEMMA LeastIndex ==
  ASSUME NEW c \in BlobIds, NEW more \in SUBSET Indices(c), more # {}
  PROVE  (CHOOSE j \in more : \A m \in more : j <= m) \in more
<1>1. Indices(c) \subseteq Nat
  BY BlobsAssumption
<1>2. PICK i \in more : \A m \in more : i <= m
  BY <1>1, LeastNatural
<1> QED
  BY <1>2

(* The check of the quota.                                                 *)
LEMMA QuotaAllows ==
  ASSUME NEW s, NEW c, NEW u, ~QuotaRefuses(s, c, u), Quota > 0,
         StoreFits(s), c \in BlobIds
  PROVE  BytesUsed(s) + SizeOf[c] <= Quota
<1>1. BytesUsed(s) \in Nat /\ SizeOf[c] \in Nat /\ Quota \in Nat
  BY UsageIs, BlobsAssumption
<1> QED
  BY <1>1 DEF QuotaRefuses

----------------------------------------------------------------------------
(* One task takes a step: its record changes, and the node's store.        *)
StoreIs(n, s) ==
  DOMAIN store' = Nodes /\ store'[n] = s /\ \A m \in Nodes \ {n} : store'[m] = store[m]
TaskIs(n, k, t) ==
  /\ task'[n][k] = t
  /\ \A m \in Nodes : \A j \in NodeTasks : m # n \/ j # k => task'[m][j] = task[m][j]

(* A write of one database, or none.                                       *)
LEMMA StoreKept ==
  ASSUME BlobInv, NEW n \in Nodes, NEW s
  PROVE  /\ Write(n, s) => StoreIs(n, s)
         /\ store' = store /\ s = store[n] => StoreIs(n, s)
BY DEF BlobInv, StoresFit, Write, StoreIs

(* Only the task that steps changes.                                       *)
LEMMA TaskGoes ==
  ASSUME BlobInv, NEW n \in Nodes, NEW k \in NodeTasks, NEW t, TaskFits(t, k), Goes(n, k, t)
  PROVE  TaskIs(n, k, t) /\ BlobTasksFit'
<1>1. DOMAIN task = Nodes /\ \A m \in Nodes : DOMAIN task[m] = NodeTasks
  BY DEF BlobInv, BlobTasksFit
<1>2. /\ DOMAIN task' = Nodes /\ \A m \in Nodes : DOMAIN task'[m] = NodeTasks
      /\ task'[n][k] = t
      /\ \A m \in Nodes : \A j \in NodeTasks : m # n \/ j # k => task'[m][j] = task[m][j]
  BY <1>1 DEF Goes
<1>3. ASSUME NEW m \in Nodes, NEW j \in NodeTasks PROVE TaskFits(task'[m][j], j)
  <2>1. TaskFits(task[m][j], j)
    BY DEF BlobInv, BlobTasksFit
  <2>2. (m = n /\ j = k) \/ task'[m][j] = task[m][j]
    BY <1>2
  <2> QED
    BY <1>2, <2>1, <2>2
<1> QED
  BY <1>2, <1>3 DEF TaskIs, BlobTasksFit

(* No node passes the quota by more than one blob: a task that adds to     *)
(* what is reserved, or is about to, had the room for it.                  *)
LEMMA QuotaKept ==
  ASSUME BlobInv, NEW n \in Nodes, NEW k \in NodeTasks, NEW t, NEW s,
         StoreFits(s), TaskFits(t, k), StoreIs(n, s), TaskIs(n, k, t),
         Quota > 0 =>
           \/ BytesUsed(s) + Pending(t) <= BytesUsed(store[n]) + Pending(task[n][k])
           \/ k # "maint" /\ BytesUsed(s) + Pending(t) <= Quota
  PROVE  StoresFit' /\ QuotaFits'
<1>1. StoresFit'
  BY DEF BlobInv, StoresFit, StoreIs
<1>2. QuotaFits'
  <2> SUFFICES ASSUME Quota > 0, NEW m \in Nodes
               PROVE  BytesUsed(store'[m]) + Pending(task'[m]["net"]) + Pending(task'[m]["api"])
                        <= Quota + MaxSize
    BY DEF QuotaFits
  <2>0. "net" \in NodeTasks /\ "api" \in NodeTasks /\ k \in {"net", "api", "maint"}
    BY DEF NodeTasks
  <2>1. BytesUsed(store[m]) + Pending(task[m]["net"]) + Pending(task[m]["api"]) <= Quota + MaxSize
    BY DEF BlobInv, QuotaFits
  <2>2. ASSUME m # n PROVE BytesUsed(store'[m]) + Pending(task'[m]["net"]) + Pending(task'[m]["api"])
                             <= Quota + MaxSize
    <3>1. store'[m] = store[m] /\ task'[m]["net"] = task[m]["net"] /\ task'[m]["api"] = task[m]["api"]
      BY <2>0, <2>2 DEF StoreIs, TaskIs
    <3> QED
      BY <2>1, <3>1
  <2>3. ASSUME m = n PROVE BytesUsed(store'[m]) + Pending(task'[m]["net"]) + Pending(task'[m]["api"])
                             <= Quota + MaxSize
    <3> DEFINE b == BytesUsed(store[n])
               d == BytesUsed(s)
               p == Pending(task[n]["net"])
               q == Pending(task[n]["api"])
               w == Pending(t)
    <3>1. \A j \in NodeTasks : TaskFits(task[n][j], j)
      BY DEF BlobInv, BlobTasksFit
    <3>2. p \in Nat /\ p <= MaxSize /\ q \in Nat /\ q <= MaxSize /\ MaxSize \in Nat /\ Quota \in Nat
      BY <2>0, <3>1, PendingIs, MaxSizeIsLargest, BlobsAssumption
    <3>3. w \in Nat /\ (k = "maint" => w = 0 /\ Pending(task[n][k]) = 0)
      BY <3>1, PendingIs
    <3>4. b \in Nat /\ d \in Nat
      BY UsageIs DEF BlobInv, StoresFit
    <3>5. b + p + q <= Quota + MaxSize
      BY <2>1, <2>3
    <3>6. store'[m] = s /\ task'[n][k] = t /\ \A j \in NodeTasks : j # k => task'[n][j] = task[n][j]
      BY <2>3 DEF StoreIs, TaskIs
    <3>7. CASE k = "net"
      <4>1. BytesUsed(store'[m]) = d /\ Pending(task'[m]["net"]) = w /\ Pending(task'[m]["api"]) = q
        BY <2>0, <2>3, <3>6, <3>7
      <4>2. d + w <= b + p \/ d + w <= Quota
        BY <3>7
      <4> HIDE DEF b, d, p, q, w
      <4>3. d + w + q <= Quota + MaxSize
        BY <3>2, <3>3, <3>4, <3>5, <4>2
      <4> QED
        BY <4>1, <4>3
    <3>8. CASE k = "api"
      <4>1. BytesUsed(store'[m]) = d /\ Pending(task'[m]["net"]) = p /\ Pending(task'[m]["api"]) = w
        BY <2>0, <2>3, <3>6, <3>8
      <4>2. d + w <= b + q \/ d + w <= Quota
        BY <3>8
      <4> HIDE DEF b, d, p, q, w
      <4>3. d + p + w <= Quota + MaxSize
        BY <3>2, <3>3, <3>4, <3>5, <4>2
      <4> QED
        BY <4>1, <4>3
    <3>9. CASE k = "maint"
      <4>1. BytesUsed(store'[m]) = d /\ Pending(task'[m]["net"]) = p /\ Pending(task'[m]["api"]) = q
        BY <2>0, <2>3, <3>6, <3>9
      <4>2. d + w <= b
        BY <3>3, <3>4, <3>9
      <4> HIDE DEF b, d, p, q, w
      <4>3. d + p + q <= Quota + MaxSize
        BY <3>2, <3>3, <3>4, <3>5, <3>9, <4>2
      <4> QED
        BY <4>1, <4>3
    <3> QED
      BY <2>0, <3>7, <3>8, <3>9
  <2> QED
    BY <2>2, <2>3
<1> QED
  BY <1>1, <1>2

(* The senders' side of a step: one task moved, and at most one call, that  *)
(* no other task answers.                                                   *)
CallIs(x) == DOMAIN call' = Senders /\ \A y \in Senders : y # x => call'[y] = call[y]
LEMMA AnswersKept ==
  ASSUME BlobInv, NEW n \in Nodes, NEW k \in NodeTasks, NEW t, TaskIs(n, k, t),
         NEW x, CallIs(x),
         \A m \in Nodes : \A j \in NodeTasks : (m # n \/ j # k) /\ task[m][j].for = x => x = Nobody,
         WaitsFor(n, t, call')
  PROVE  AnswersFit'
<1> SUFFICES ASSUME NEW m \in Nodes, NEW j \in NodeTasks PROVE WaitsFor(m, task'[m][j], call')
  BY DEF AnswersFit
<1>1. WaitsFor(m, task[m][j], call)
  BY DEF BlobInv, AnswersFit
<1>2. CASE m = n /\ j = k
  BY <1>2 DEF TaskIs
<1>3. CASE m # n \/ j # k
  <2>1. task'[m][j] = task[m][j] /\ (task[m][j].for # Nobody => task[m][j].for # x)
    BY <1>3 DEF TaskIs
  <2> QED
    BY <1>1, <2>1 DEF WaitsFor, CallIs
<1> QED
  BY <1>2, <1>3

(* A sender that was answered, or waits for no answer, is no task's to     *)
(* answer; one that waits is one task's.                                   *)
LEMMA NobodyAnswers ==
  ASSUME BlobInv, NEW x \in Senders, call[x].answer # "pending" \/ call[x].to \notin Nodes
  PROVE  \A m \in Nodes : \A j \in NodeTasks : task[m][j].for # x
<1> SUFFICES ASSUME NEW m \in Nodes, NEW j \in NodeTasks, task[m][j].for = x PROVE FALSE
  OBVIOUS
<1>1. WaitsFor(m, task[m][j], call)
  BY DEF BlobInv, AnswersFit
<1>2. x # Nobody
  BY BlobsAssumption DEF Senders
<1> QED
  BY <1>1, <1>2 DEF WaitsFor

(* Only one task answers a sender.                                         *)
LEMMA OneAnswers ==
  ASSUME BlobInv, NEW n \in Nodes, NEW k \in NodeTasks, NEW x, task[n][k].for = x, x # Nobody
  PROVE  /\ k = "net" /\ x \in Senders /\ call[x].c = task[n][k].c /\ call[x].c \in BlobIds
         /\ \A m \in Nodes : \A j \in NodeTasks : (m # n \/ j # k) /\ task[m][j].for = x => x = Nobody
<1>1. WaitsFor(n, task[n][k], call) /\ TaskFits(task[n][k], k)
  BY DEF BlobInv, AnswersFit, BlobTasksFit
<1>2. ASSUME NEW m \in Nodes, NEW j \in NodeTasks, task[m][j].for = x PROVE m = n /\ j = k
  <2>1. WaitsFor(m, task[m][j], call) /\ TaskFits(task[m][j], j)
    BY DEF BlobInv, AnswersFit, BlobTasksFit
  <2> QED
    BY <1>1, <1>2, <2>1 DEF WaitsFor, TaskFits
<1> QED
  BY <1>1, <1>2 DEF WaitsFor, TaskFits

(* A step of one task that concerns no sender.                             *)
LEMMA TaskAlone ==
  ASSUME BlobInv, NEW n \in Nodes, NEW k \in NodeTasks, NEW t, NEW s,
         TaskFits(t, k), Goes(n, k, t), StoreFits(s), StoreIs(n, s), WaitsFor(n, t, call),
         Quota > 0 =>
           \/ BytesUsed(s) + Pending(t) <= BytesUsed(store[n]) + Pending(task[n][k])
           \/ k # "maint" /\ BytesUsed(s) + Pending(t) <= Quota,
         call' = call, lease' = lease
  PROVE  BlobInv'
<1>1. TaskIs(n, k, t) /\ BlobTasksFit'
  BY TaskGoes
<1>2. StoresFit' /\ QuotaFits'
  BY <1>1, QuotaKept
<1>3. CallIs(Nobody) /\ CallsFit'
  BY DEF BlobInv, CallsFit, CallIs
<1>4. AnswersFit'
  BY <1>1, <1>3, AnswersKept
<1>5. LeaseFits'
  BY DEF BlobInv, LeaseFits
<1> QED
  BY <1>1, <1>2, <1>3, <1>4, <1>5 DEF BlobInv

(* What holds of every task and store before a step.                       *)
LEMMA TaskHeld ==
  ASSUME BlobInv, NEW n \in Nodes, NEW k \in NodeTasks
  PROVE  /\ TaskFits(task[n][k], k) /\ WaitsFor(n, task[n][k], call)
         /\ Pending(task[n][k]) \in Nat
         /\ StoreFits(store[n]) /\ BytesUsed(store[n]) \in Nat
<1>1. TaskFits(task[n][k], k) /\ StoreFits(store[n])
  BY DEF BlobInv, BlobTasksFit, StoresFit
<1> QED
  BY <1>1, PendingIs, UsageIs DEF BlobInv, AnswersFit

----------------------------------------------------------------------------
(* What was checked becomes reserved.                                      *)
LEMMA ReserveStepKeeps ==
  ASSUME BlobInv, NEW n \in Nodes, NEW k \in NodeTasks, ReserveStep(n, k) PROVE BlobInv'
<1>1. PICK t : t = task[n][k]
  OBVIOUS
<1>2. PICK u : u = [t EXCEPT !.step = "mark"]
  OBVIOUS
<1>3. PICK s : s = store[n]
  OBVIOUS
<1>4. PICK r : r = Reserve(s, t.c, t.up, clock)
  OBVIOUS
<1>5. TaskFits(t, k) /\ WaitsFor(n, t, call) /\ StoreFits(s) /\ BytesUsed(s) \in Nat
  BY <1>1, <1>3, TaskHeld
<1>6. t.op = "put" /\ t.step = "reserve" /\ Write(n, r) /\ Goes(n, k, u) /\ call' = call /\ lease' = lease
  BY <1>1, <1>2, <1>3, <1>4 DEF ReserveStep
<1>7. t.c \in BlobIds /\ t.up \in Senders
  BY <1>5, <1>6 DEF TaskFits
<1>8. StoreFits(r) /\ BytesUsed(r) = BytesUsed(s) + SizeOf[t.c]
  BY <1>4, <1>5, <1>7, ReserveFits
<1>9. u.step = "mark" /\ u.op = t.op /\ u.for = t.for /\ u.c = t.c /\ TaskFits(u, k)
  BY <1>2, <1>5, <1>6 DEF TaskFits
<1>10. Pending(u) = 0 /\ Pending(t) = SizeOf[t.c] /\ SizeOf[t.c] \in Nat
  BY <1>6, <1>7, <1>9, BlobsAssumption DEF Pending
<1>11. WaitsFor(n, u, call)
  BY <1>5, <1>9 DEF WaitsFor
<1>12. BytesUsed(r) + Pending(u) <= BytesUsed(s) + Pending(t)
  BY <1>5, <1>8, <1>10
<1>13. StoreIs(n, r)
  BY <1>6, StoreKept
<1> QED
  BY <1>1, <1>3, <1>5, <1>6, <1>8, <1>9, <1>11, <1>12, <1>13, TaskAlone

(* A delete releases no more than was reserved.                            *)
LEMMA ReleaseStepKeeps ==
  ASSUME BlobInv, NEW n \in Nodes, NEW k \in NodeTasks, ReleaseStep(n, k) PROVE BlobInv'
<1>1. PICK t : t = task[n][k]
  OBVIOUS
<1>2. PICK u : u = [t EXCEPT !.step = "forget"]
  OBVIOUS
<1>3. PICK s : s = store[n]
  OBVIOUS
<1>4. PICK r : r = ReleaseRows(s, t.c)
  OBVIOUS
<1>5. TaskFits(t, k) /\ WaitsFor(n, t, call) /\ StoreFits(s) /\ BytesUsed(s) \in Nat
  BY <1>1, <1>3, TaskHeld
<1>6. t.op = "del" /\ Write(n, r) /\ Goes(n, k, u) /\ call' = call /\ lease' = lease
  BY <1>1, <1>2, <1>3, <1>4 DEF ReleaseStep
<1>7. t.c \in BlobIds
  BY <1>5, <1>6 DEF TaskFits
<1>8. StoreFits(r) /\ BytesUsed(r) <= BytesUsed(s)
  BY <1>4, <1>5, <1>7, ReleaseFits
<1>9. u.op = t.op /\ u.for = t.for /\ u.c = t.c /\ TaskFits(u, k)
  BY <1>2, <1>5, <1>6 DEF TaskFits
<1>10. Pending(u) = 0 /\ Pending(t) = 0
  BY <1>6, <1>9 DEF Pending
<1>11. WaitsFor(n, u, call)
  BY <1>5, <1>9 DEF WaitsFor
<1>12. BytesUsed(r) \in Nat
  BY <1>8, UsageIs
<1>13. BytesUsed(r) + Pending(u) <= BytesUsed(s) + Pending(t)
  BY <1>5, <1>8, <1>10, <1>12
<1>14. StoreIs(n, r)
  BY <1>6, StoreKept
<1> QED
  BY <1>1, <1>3, <1>5, <1>6, <1>8, <1>9, <1>11, <1>13, <1>14, TaskAlone

(* A step of a task that writes nothing and has nothing more to reserve.   *)
LEMMA TaskOnly ==
  ASSUME BlobInv, NEW n \in Nodes, NEW k \in NodeTasks, NEW t, TaskFits(t, k), Goes(n, k, t),
         t.for = Nobody, Pending(t) = 0 \/ BytesUsed(store[n]) + Pending(t) <= Quota \/ Quota = 0,
         store' = store, call' = call, lease' = lease
  PROVE  BlobInv'
<1>1. PICK s : s = store[n]
  OBVIOUS
<1>2. StoreFits(s) /\ BytesUsed(s) \in Nat /\ Pending(task[n][k]) \in Nat
  BY <1>1, TaskHeld
<1>3. StoreIs(n, s)
  BY <1>1, StoreKept
<1>4. WaitsFor(n, t, call)
  BY DEF WaitsFor
<1>5. Quota > 0 =>
        \/ BytesUsed(s) + Pending(t) <= BytesUsed(store[n]) + Pending(task[n][k])
        \/ k # "maint" /\ BytesUsed(s) + Pending(t) <= Quota
  BY <1>1, <1>2, PendingIs
<1> QED
  BY <1>2, <1>3, <1>4, <1>5, TaskAlone

(* The end of a delete, or the next blob of a sweep.                       *)
LEMMA ForgetStepKeeps ==
  ASSUME BlobInv, NEW n \in Nodes, NEW k \in NodeTasks, ForgetStep(n, k) PROVE BlobInv'
<1>1. PICK t : t = task[n][k]
  OBVIOUS
<1>2. PICK u : u = (IF k = "api" THEN Idle ELSE [t EXCEPT !.op = "expire", !.step = "next"])
  OBVIOUS
<1>3. TaskFits(t, k) /\ t.op = "del"
  BY <1>1, TaskHeld DEF ForgetStep
<1>4. TaskFits(u, k) /\ u.for = Nobody /\ Pending(u) = 0
  <2>1. CASE k = "api"
    BY <1>2, <2>1, NothingFits
  <2>2. CASE k # "api"
    <3>1. u.op = "expire" /\ u.for = t.for /\ t.for = Nobody
      BY <1>2, <1>3, <2>2 DEF TaskFits
    <3>2. TaskFits(u, k)
      BY <1>2, <1>3, <2>2, <3>1 DEF TaskFits
    <3> QED
      BY <3>1, <3>2 DEF Pending
  <2> QED
    BY <2>1, <2>2
<1>5. Goes(n, k, u) /\ store' = store /\ call' = call /\ lease' = lease
  BY <1>1, <1>2 DEF ForgetStep
<1> QED
  BY <1>4, <1>5, TaskOnly

----------------------------------------------------------------------------
(* The API task goes on to a chunk, or has finished.                       *)
LEMMA ApiNextGoes ==
  ASSUME NEW n \in Nodes, NEW t, TaskFits(t, "api"), t.c \in BlobIds,
         NEW more \in SUBSET Indices(t.c), ApiNext(n, t, more)
  PROVE  \E u : Goes(n, "api", u) /\ TaskFits(u, "api") /\ u.for = Nobody /\ Pending(u) = 0
<1>1. CASE more # {}
  <2>1. PICK i \in more : i = CHOOSE j \in more : \A m \in more : j <= m
    BY <1>1, LeastIndex
  <2>2. PICK u : u = [t EXCEPT !.op = "chunk", !.step = "read", !.i = i, !.more = more \ {i}]
    OBVIOUS
  <2>3. Goes(n, "api", u)
    BY <1>1, <2>1, <2>2 DEF ApiNext
  <2>4. /\ DOMAIN u = DOMAIN t /\ u.op = "chunk" /\ u.i = i /\ u.more = more \ {i}
        /\ u.c = t.c /\ u.for = t.for
    BY <2>2 DEF TaskFits
  <2>5. t.for = Nobody
    BY DEF TaskFits
  <2>6. TaskFits(u, "api") /\ Pending(u) = 0
    BY <2>4, <2>5 DEF TaskFits, Pending
  <2> QED
    BY <2>3, <2>4, <2>5, <2>6
<1>2. CASE more = {}
  <2>1. Goes(n, "api", Idle)
    BY <1>2 DEF ApiNext
  <2> QED
    BY <2>1, NothingFits
<1> QED
  BY <1>1, <1>2

(* The net task answers the sender that waits for it.                      *)
LEMMA NetAnswers ==
  ASSUME BlobInv, NEW n \in Nodes, NEW s, StoreFits(s), StoreIs(n, s),
         NEW t, t = task[n]["net"], t.op \in {"put", "chunk"},
         BytesUsed(s) = BytesUsed(store[n]),
         Goes(n, "net", Idle), NEW a, NEW missing \in SUBSET Indices(t.c),
         a # "pending", Answer(t.for, a, missing), lease' = lease
  PROVE  BlobInv'
<1>0. "net" \in NodeTasks
  BY DEF NodeTasks
<1>1. TaskFits(t, "net") /\ Pending(t) \in Nat /\ BytesUsed(store[n]) \in Nat
  BY <1>0, TaskHeld
<1>2. TaskIs(n, "net", Idle) /\ BlobTasksFit'
  BY <1>0, NothingFits, TaskGoes
<1>3. BytesUsed(s) + Pending(Idle) <= BytesUsed(store[n]) + Pending(task[n]["net"])
  BY <1>1, NothingFits
<1>4. StoresFit' /\ QuotaFits'
  BY <1>0, <1>2, <1>3, NothingFits, QuotaKept
<1>5. PICK x : x = t.for
  OBVIOUS
<1>6. CallIs(x) /\ CallsFit'
  <2>1. CASE x = Nobody
    BY <1>5, <2>1 DEF Answer, CallIs, CallsFit, BlobInv
  <2>2. CASE x # Nobody
    <3>1. x \in Senders /\ call[x].c = t.c /\ call[x].c \in BlobIds
      BY <1>0, <1>5, <2>2, OneAnswers
    <3>2. CallFits(call[x]) /\ DOMAIN call = Senders
      BY <3>1 DEF BlobInv, CallsFit
    <3>3. call' = [call EXCEPT ![x].answer = a, ![x].missing = missing]
      BY <1>5, <2>2 DEF Answer
    <3>4. /\ DOMAIN call' = Senders /\ \A y \in Senders : y # x => call'[y] = call[y]
          /\ DOMAIN call'[x] = DOMAIN call[x]
          /\ call'[x].c = call[x].c /\ call'[x].todo = call[x].todo
          /\ call'[x].stage = call[x].stage /\ call'[x].i = call[x].i
          /\ call'[x].missing = missing /\ call'[x].to = call[x].to
      BY <3>1, <3>2, <3>3 DEF CallFits
    <3>5. CallFits(call'[x])
      BY <3>1, <3>2, <3>4 DEF CallFits
    <3>6. \A y \in Senders : CallFits(call'[y])
      BY <3>4, <3>5 DEF BlobInv, CallsFit
    <3> QED
      BY <3>4, <3>6 DEF CallIs, CallsFit
  <2> QED
    BY <2>1, <2>2
<1>7. \A m \in Nodes : \A j \in NodeTasks :
        (m # n \/ j # "net") /\ task[m][j].for = x => x = Nobody
  BY <1>0, <1>5, OneAnswers
<1>8. WaitsFor(n, Idle, call')
  BY NothingFits DEF WaitsFor
<1>9. AnswersFit'
  BY <1>0, <1>2, <1>6, <1>7, <1>8, AnswersKept
<1>10. LeaseFits'
  BY DEF BlobInv, LeaseFits
<1> QED
  BY <1>2, <1>4, <1>6, <1>9, <1>10 DEF BlobInv

(* Chunks another blob brought are counted for this one too.               *)
LEMMA MarkStepKeeps ==
  ASSUME BlobInv, NEW n \in Nodes, NEW k \in NodeTasks, MarkStep(n, k) PROVE BlobInv'
<1>1. PICK t : t = task[n][k]
  OBVIOUS
<1>2. PICK s : s = MarkHeld(store[n], t.c)
  OBVIOUS
<1>3. PICK missing : missing = {i \in Indices(t.c) : ~Holds(store[n], HashAt(t.c, i))}
  OBVIOUS
<1>4. missing \in SUBSET Indices(t.c)
  BY <1>3
<1>5. /\ t.op = "put" /\ t.step = "mark" /\ Write(n, s) /\ lease' = lease
      /\ k = "net" => Goes(n, k, Idle) /\ Answer(t.for, "accepted", missing)
      /\ k # "net" => ApiNext(n, t, ApiChunks(t, missing)) /\ call' = call
  BY <1>1, <1>2, <1>3 DEF MarkStep
<1>6. TaskFits(t, k) /\ t.c \in BlobIds /\ k \in {"net", "api"}
  <2>1. TaskFits(t, k)
    BY <1>1, TaskHeld
  <2> QED
    BY <1>5, <2>1 DEF TaskFits, NodeTasks
<1>7. StoreFits(store[n]) /\ BytesUsed(store[n]) \in Nat /\ Pending(t) = 0
  BY <1>1, <1>5, TaskHeld DEF Pending
<1>8. StoreFits(s) /\ BytesUsed(s) = BytesUsed(store[n]) /\ StoreIs(n, s)
  BY <1>2, <1>5, <1>6, <1>7, MarkFits, StoreKept
<1>9. CASE k = "net"
  BY <1>1, <1>4, <1>5, <1>8, <1>9, NetAnswers
<1>10. CASE k = "api"
  <2>1. PICK more : more = ApiChunks(t, missing)
    OBVIOUS
  <2>2. more \in SUBSET Indices(t.c)
    BY <1>4, <2>1 DEF ApiChunks
  <2>3. TaskFits(t, "api") /\ ApiNext(n, t, more) /\ call' = call
    BY <1>5, <1>6, <1>10, <2>1
  <2>4. PICK u : Goes(n, "api", u) /\ TaskFits(u, "api") /\ u.for = Nobody /\ Pending(u) = 0
    BY <1>6, <2>2, <2>3, ApiNextGoes
  <2>5. WaitsFor(n, u, call) /\ "api" \in NodeTasks
    BY <2>4 DEF WaitsFor, NodeTasks
  <2>6. BytesUsed(s) + Pending(u) <= BytesUsed(store[n]) + Pending(task[n]["api"])
    BY <1>1, <1>7, <1>8, <1>10, <2>4
  <2> QED
    BY <1>5, <1>8, <2>3, <2>4, <2>5, <2>6, TaskAlone
<1> QED
  BY <1>6, <1>9, <1>10

(* A chunk is written and counted.                                         *)
LEMMA ChunkStepKeeps ==
  ASSUME BlobInv, NEW n \in Nodes, NEW k \in NodeTasks, ChunkStep(n, k) PROVE BlobInv'
<1>1. PICK t : t = task[n][k]
  OBVIOUS
<1>2. PICK s : s = AddChunk(store[n], t.c, t.i)
  OBVIOUS
<1>5. /\ t.op = "chunk" /\ Write(n, s) /\ lease' = lease
      /\ k = "net" => Goes(n, k, Idle) /\ Answer(t.for, "accepted", {})
      /\ k # "net" => ApiNext(n, t, t.more) /\ call' = call
  BY <1>1, <1>2 DEF ChunkStep
<1>6. /\ TaskFits(t, k) /\ t.c \in BlobIds /\ k \in {"net", "api"}
      /\ t.i \in Indices(t.c) /\ t.more \in SUBSET Indices(t.c)
  <2>1. TaskFits(t, k)
    BY <1>1, TaskHeld
  <2> QED
    BY <1>5, <2>1 DEF TaskFits, NodeTasks
<1>7. StoreFits(store[n]) /\ BytesUsed(store[n]) \in Nat /\ Pending(t) = 0
  BY <1>1, <1>5, TaskHeld DEF Pending
<1>8. StoreFits(s) /\ BytesUsed(s) = BytesUsed(store[n]) /\ StoreIs(n, s)
  BY <1>2, <1>5, <1>6, <1>7, AddFits, StoreKept
<1>9. CASE k = "net"
  <2>1. {} \in SUBSET Indices(t.c)
    OBVIOUS
  <2> QED
    BY <1>1, <1>5, <1>8, <1>9, <2>1, NetAnswers
<1>10. CASE k = "api"
  <2>3. TaskFits(t, "api") /\ ApiNext(n, t, t.more) /\ call' = call
    BY <1>5, <1>6, <1>10
  <2>4. PICK u : Goes(n, "api", u) /\ TaskFits(u, "api") /\ u.for = Nobody /\ Pending(u) = 0
    BY <1>6, <2>3, ApiNextGoes
  <2>5. WaitsFor(n, u, call) /\ "api" \in NodeTasks
    BY <2>4 DEF WaitsFor, NodeTasks
  <2>6. BytesUsed(s) + Pending(u) <= BytesUsed(store[n]) + Pending(task[n]["api"])
    BY <1>1, <1>7, <1>8, <1>10, <2>4
  <2> QED
    BY <1>5, <1>8, <2>3, <2>4, <2>5, <2>6, TaskAlone
<1> QED
  BY <1>6, <1>9, <1>10

----------------------------------------------------------------------------
(* put_manifest's read, for the API task.                                  *)
LEMMA ApiPutsKeeps ==
  ASSUME BlobInv, NEW n \in Nodes, NEW c \in BlobIds, NEW from, ApiPuts(n, c, from),
         store' = store, call' = call, lease' = lease
  PROVE  BlobInv'
<1>1. PICK t : t = [Idle EXCEPT !.op = "put", !.c = c, !.step = "reserve", !.up = n, !.from = from]
  OBVIOUS
<1>2. /\ DOMAIN t = DOMAIN Idle /\ t.op = "put" /\ t.c = c /\ t.up = n /\ t.step = "reserve"
      /\ t.for = Nobody
  BY <1>1 DEF Idle
<1>3. TaskFits(t, "api") /\ Pending(t) = SizeOf[c]
  BY <1>2 DEF TaskFits, Pending, Idle, Senders
<1>4. "api" \in NodeTasks
  BY DEF NodeTasks
<1>5. StoreFits(store[n]) /\ BytesUsed(store[n]) \in Nat
  BY <1>4, TaskHeld
<1>6. CASE c \in DOMAIN store[n].meta
  <2>1. PICK more : more = ApiChunks(t, Missing(store[n], c))
    OBVIOUS
  <2>2. more \in SUBSET Indices(t.c) /\ ApiNext(n, t, more)
    BY <1>1, <1>2, <1>6, <2>1 DEF ApiPuts, ApiChunks, Missing
  <2>3. PICK u : Goes(n, "api", u) /\ TaskFits(u, "api") /\ u.for = Nobody /\ Pending(u) = 0
    BY <1>2, <1>3, <2>2, ApiNextGoes
  <2> QED
    BY <1>4, <2>3, TaskOnly
<1>7. CASE c \notin DOMAIN store[n].meta
  <2>1. ~QuotaRefuses(store[n], c, n) /\ Goes(n, "api", t)
    BY <1>1, <1>7 DEF ApiPuts
  <2>2. BytesUsed(store[n]) + Pending(t) <= Quota \/ Quota = 0
    BY <1>3, <1>5, <2>1, QuotaAllows, BlobsAssumption
  <2> QED
    BY <1>2, <1>3, <1>4, <2>1, <2>2, TaskOnly
<1> QED
  BY <1>6, <1>7

(* put_local and pull_blob start with it.                                  *)
LEMMA PutLocalKeeps ==
  ASSUME BlobInv, NEW n \in Nodes, NEW c \in BlobIds, PutLocal(n, c) PROVE BlobInv'
BY ApiPutsKeeps DEF PutLocal
LEMMA FetchKeeps ==
  ASSUME BlobInv, NEW n \in Nodes, NEW p \in Nodes, NEW c \in BlobIds, Fetch(n, p, c) PROVE BlobInv'
BY ApiPutsKeeps DEF Fetch

(* put_chunk's read, for the API task.                                     *)
LEMMA ApiReadStepKeeps ==
  ASSUME BlobInv, NEW n \in Nodes, ApiReadStep(n) PROVE BlobInv'
<1>1. PICK t : t = task[n]["api"]
  OBVIOUS
<1>2. PICK u : u = [t EXCEPT !.step = "add"]
  OBVIOUS
<1>3. "api" \in NodeTasks
  BY DEF NodeTasks
<1>4. TaskFits(t, "api") /\ t.op = "chunk"
  BY <1>1, <1>3, TaskHeld DEF ApiReadStep
<1>5. t.for = Nobody
  BY <1>4 DEF TaskFits
<1>6. TaskFits(u, "api") /\ u.for = Nobody /\ u.op = "chunk"
  BY <1>2, <1>4, <1>5 DEF TaskFits
<1>7. (Goes(n, "api", u) \/ Goes(n, "api", Idle)) /\ store' = store /\ call' = call /\ lease' = lease
  BY <1>1, <1>2 DEF ApiReadStep
<1>8. Pending(u) = 0
  BY <1>6 DEF Pending
<1> QED
  BY <1>3, <1>6, <1>7, <1>8, NothingFits, TaskOnly

(* delete's read.                                                          *)
LEMMA ApiDeletesKeeps ==
  ASSUME BlobInv, NEW n \in Nodes, NEW c \in BlobIds, ApiDeletes(n, c) PROVE BlobInv'
<1>1. PICK u : u = [Idle EXCEPT !.op = "del", !.c = c, !.step = "release"]
  OBVIOUS
<1>2. DOMAIN u = DOMAIN Idle /\ u.op = "del" /\ u.c = c /\ u.for = Nobody
  BY <1>1 DEF Idle
<1>3. TaskFits(u, "api") /\ Pending(u) = 0
  BY <1>2 DEF TaskFits, Pending, Idle
<1>4. Goes(n, "api", u) /\ store' = store /\ call' = call /\ lease' = lease /\ "api" \in NodeTasks
  BY <1>1 DEF ApiDeletes, NodeTasks
<1> QED
  BY <1>2, <1>3, <1>4, TaskOnly

(* The sweep starts.                                                       *)
LEMMA MaintTickKeeps ==
  ASSUME BlobInv, NEW n \in Nodes, MaintTick(n) PROVE BlobInv'
<1>1. PICK v : v = SetToSeq(Due(store[n], clock))
  OBVIOUS
<1>2. PICK u : u = [Idle EXCEPT !.op = "expire", !.step = "next", !.todo = v]
  OBVIOUS
<1>3. DOMAIN u = DOMAIN Idle /\ u.op = "expire" /\ u.for = Nobody
  BY <1>2 DEF Idle
<1>4. TaskFits(u, "maint") /\ Pending(u) = 0
  BY <1>3 DEF TaskFits, Pending, Idle
<1>5. Goes(n, "maint", u) /\ store' = store /\ call' = call /\ lease' = lease /\ "maint" \in NodeTasks
  BY <1>1, <1>2 DEF MaintTick, NodeTasks
<1> QED
  BY <1>3, <1>4, <1>5, TaskOnly

(* The sweep takes its next blob, or gives way to the repair.              *)
LEMMA ExpireStepKeeps ==
  ASSUME BlobInv, NEW n \in Nodes, ExpireStep(n) PROVE BlobInv'
<1>1. PICK t : t = task[n]["maint"]
  OBVIOUS
<1>2. "maint" \in NodeTasks
  BY DEF NodeTasks
<1>3. TaskFits(t, "maint") /\ t.op = "expire" /\ StoreFits(store[n])
  BY <1>1, <1>2, TaskHeld DEF ExpireStep
<1>4. t.for = Nobody
  BY <1>3 DEF TaskFits
<1>5. store' = store /\ call' = call /\ lease' = lease
  BY DEF ExpireStep
<1>6. PICK rest : rest = Tail(t.todo)
  OBVIOUS
<1>7. PICK v : v = (IF know[n].peers = {} THEN <<>>
                    ELSE SetToSeq({c \in DOMAIN store[n].meta : Complete(store[n], c)}))
  OBVIOUS
<1>8. PICK c : c = Head(t.todo)
  OBVIOUS
<1>9. \/ Goes(n, "maint", [Idle EXCEPT !.op = "repair", !.step = "next", !.todo = v])
      \/ c \in DOMAIN store[n].meta
         /\ Goes(n, "maint", [t EXCEPT !.op = "del", !.c = c, !.step = "release", !.todo = rest])
      \/ Goes(n, "maint", [t EXCEPT !.todo = rest])
  BY <1>1, <1>6, <1>7, <1>8 DEF ExpireStep
<1>10. CASE Goes(n, "maint", [Idle EXCEPT !.op = "repair", !.step = "next", !.todo = v])
  <2>1. PICK u : u = [Idle EXCEPT !.op = "repair", !.step = "next", !.todo = v]
    OBVIOUS
  <2>2. DOMAIN u = DOMAIN Idle /\ u.op = "repair" /\ u.for = Nobody
    BY <2>1 DEF Idle
  <2>3. TaskFits(u, "maint") /\ Pending(u) = 0
    BY <2>2 DEF TaskFits, Pending, Idle
  <2> QED
    BY <1>2, <1>5, <1>10, <2>1, <2>2, <2>3, TaskOnly
<1>11. CASE c \in DOMAIN store[n].meta
            /\ Goes(n, "maint", [t EXCEPT !.op = "del", !.c = c, !.step = "release", !.todo = rest])
  <2>1. PICK u : u = [t EXCEPT !.op = "del", !.c = c, !.step = "release", !.todo = rest]
    OBVIOUS
  <2>2. DOMAIN u = DOMAIN t /\ u.op = "del" /\ u.for = Nobody /\ u.c = c /\ c \in BlobIds
    BY <1>3, <1>4, <1>11, <2>1 DEF TaskFits, StoreFits
  <2>3. TaskFits(u, "maint") /\ Pending(u) = 0
    BY <1>3, <2>2 DEF TaskFits, Pending
  <2> QED
    BY <1>2, <1>5, <1>11, <2>1, <2>2, <2>3, TaskOnly
<1>12. CASE Goes(n, "maint", [t EXCEPT !.todo = rest])
  <2>1. PICK u : u = [t EXCEPT !.todo = rest]
    OBVIOUS
  <2>2. DOMAIN u = DOMAIN t /\ u.op = "expire" /\ u.for = Nobody
    BY <1>3, <1>4, <2>1 DEF TaskFits
  <2>3. TaskFits(u, "maint") /\ Pending(u) = 0
    BY <1>3, <2>2 DEF TaskFits, Pending
  <2> QED
    BY <1>2, <1>5, <1>12, <2>1, <2>2, <2>3, TaskOnly
<1> QED
  BY <1>9, <1>10, <1>11, <1>12

----------------------------------------------------------------------------
(* One call moves, that no task answers.                                   *)
LEMMA TransferMoves ==
  ASSUME BlobInv, NEW x \in Senders, call[x].answer # "pending" \/ call[x].to \notin Nodes,
         CallIs(x), CallFits(call'[x]), task' = task, store' = store, lease' = lease
  PROVE  BlobInv'
<1>1. CallsFit'
  BY DEF BlobInv, CallsFit, CallIs
<1>2. AnswersFit'
  <2> SUFFICES ASSUME NEW m \in Nodes, NEW j \in NodeTasks PROVE WaitsFor(m, task[m][j], call')
    BY DEF AnswersFit
  <2>1. task[m][j].for # x /\ WaitsFor(m, task[m][j], call)
    BY NobodyAnswers DEF BlobInv, AnswersFit
  <2> QED
    BY <2>1 DEF WaitsFor, CallIs
<1>3. StoresFit' /\ BlobTasksFit' /\ QuotaFits' /\ LeaseFits'
  BY DEF BlobInv, StoresFit, BlobTasksFit, QuotaFits, LeaseFits
<1> QED
  BY <1>1, <1>2, <1>3 DEF BlobInv

(* A transfer starts with its manifest.                                    *)
LEMMA CallBegins ==
  ASSUME BlobInv, NEW x \in Senders, NEW c \in BlobIds, NEW to, NEW next, Begin(x, c, to, next)
  PROVE  CallIs(x) /\ CallFits(call'[x])
<1>1. PICK s : s = [NoCall EXCEPT !.c = c, !.to = to, !.next = next, !.stage = "put"]
  OBVIOUS
<1>2. DOMAIN call = Senders
  BY DEF BlobInv, CallsFit
<1>3. call' = [call EXCEPT ![x] = s]
  BY <1>1 DEF Begin
<1>4. call'[x] = s /\ CallIs(x)
  BY <1>2, <1>3 DEF CallIs
<1>5. CallFits(s)
  BY <1>1 DEF CallFits, NoCall
<1> QED
  BY <1>4, <1>5

(* A transfer goes on to its next target, or ends.                         *)
LEMMA TargetFits ==
  ASSUME BlobInv, NEW x \in Senders, call[x].c \in BlobIds, NEW took, NextTarget(x, took)
  PROVE  CallIs(x) /\ CallFits(call'[x])
<1>1. PICK u : u = [NoCall EXCEPT !.took = took]
  OBVIOUS
<1>2. PICK b, d : b = Head(call[x].next) /\ d = Tail(call[x].next)
  OBVIOUS
<1>3. PICK c \in BlobIds : c = call[x].c
  OBVIOUS
<1>4. PICK s : s = [NoCall EXCEPT !.c = c, !.to = b, !.next = d, !.stage = "put", !.took = took]
  OBVIOUS
<1>5. DOMAIN call = Senders
  BY DEF BlobInv, CallsFit
<1>6. call' = [call EXCEPT ![x] = u] \/ call' = [call EXCEPT ![x] = s]
  BY <1>1, <1>2, <1>3, <1>4 DEF NextTarget
<1>7. (call'[x] = u \/ call'[x] = s) /\ CallIs(x)
  BY <1>5, <1>6 DEF CallIs
<1>8. CallFits(s)
  BY <1>4 DEF CallFits, NoCall
<1>9. CallFits(u)
  <2>1. /\ DOMAIN u = DOMAIN NoCall /\ u.to = Nobody /\ u.answer = "none"
        /\ u.missing = {} /\ u.todo = {} /\ u.stage = "none"
    BY <1>1 DEF NoCall
  <2> QED
    BY <2>1 DEF CallFits, NoCall
<1> QED
  BY <1>7, <1>8, <1>9

(* A client's upload starts.                                               *)
LEMMA UploadKeeps ==
  ASSUME BlobInv, NEW u \in Clients, NEW c \in BlobIds, StartUpload(u, c) PROVE BlobInv'
<1>1. PICK to, next : to = Head(bsc.to) /\ next = Tail(bsc.to)
  OBVIOUS
<1>2. u \in Senders
  BY DEF Senders
<1>3. /\ Begin(u, c, to, next) /\ call[u].to = Nobody
      /\ task' = task /\ store' = store /\ lease' = lease
  BY <1>1 DEF StartUpload
<1>4. call[u].to \notin Nodes
  BY <1>3, BlobsAssumption
<1> QED
  BY <1>2, <1>3, <1>4, CallBegins, TransferMoves

(* A sender goes on to a chunk it was told is missing.                     *)
LEMMA TransferAnsweredKeeps ==
  ASSUME BlobInv, NEW x \in Senders, TransferAnswered(x) PROVE BlobInv'
<1>1. PICK t : t = call[x]
  OBVIOUS
<1>2. PICK todo : todo = (IF t.stage = "put" THEN t.missing ELSE t.todo)
  OBVIOUS
<1>3. PICK took : took = t.took \cup {t.to}
  OBVIOUS
<1>4. PICK i : i = CHOOSE j \in todo : \A k \in todo : j <= k
  OBVIOUS
<1>5. PICK rest : rest = todo \ {i}
  OBVIOUS
<1>6. PICK old : old = t.took
  OBVIOUS
<1>7. t.answer \in {"accepted", "refused"} /\ task' = task /\ store' = store /\ lease' = lease
  BY <1>1 DEF TransferAnswered
<1>8. CallFits(t) /\ t.c \in BlobIds /\ DOMAIN call = Senders
  <2>1. CallFits(t) /\ DOMAIN call = Senders
    BY <1>1 DEF BlobInv, CallsFit
  <2> QED
    BY <1>7, <2>1 DEF CallFits
<1>9. \/ NextTarget(x, old) \/ NextTarget(x, took)
      \/ todo # {} /\ call' = [call EXCEPT ![x].stage = "chunk", ![x].i = i, ![x].todo = rest,
                                           ![x].answer = "none", ![x].missing = {}]
  BY <1>1, <1>2, <1>3, <1>4, <1>5, <1>6 DEF TransferAnswered
<1>10. CASE NextTarget(x, old) \/ NextTarget(x, took)
  <2>1. CallIs(x) /\ CallFits(call'[x])
    BY <1>1, <1>8, <1>10, TargetFits
  <2> QED
    BY <1>1, <1>7, <2>1, TransferMoves
<1>11. CASE todo # {} /\ call' = [call EXCEPT ![x].stage = "chunk", ![x].i = i, ![x].todo = rest,
                                              ![x].answer = "none", ![x].missing = {}]
  <2>1. todo \in SUBSET Indices(t.c)
    BY <1>2, <1>8 DEF CallFits
  <2>2. i \in todo
    BY <1>4, <1>8, <1>11, <2>1, LeastIndex
  <2>3. /\ DOMAIN call' = Senders /\ \A y \in Senders : y # x => call'[y] = call[y]
        /\ DOMAIN call'[x] = DOMAIN t /\ call'[x].stage = "chunk" /\ call'[x].i = i
        /\ call'[x].todo = rest /\ call'[x].missing = {} /\ call'[x].c = t.c /\ call'[x].to = t.to
    BY <1>1, <1>8, <1>11 DEF CallFits
  <2>4. CallFits(call'[x])
    BY <1>5, <1>8, <2>1, <2>2, <2>3 DEF CallFits
  <2>5. CallIs(x)
    BY <2>3 DEF CallIs
  <2> QED
    BY <1>1, <1>7, <2>4, <2>5, TransferMoves
<1> QED
  BY <1>9, <1>10, <1>11

(* A task takes a request.                                                 *)
LEMMA NetTakesKeeps ==
  ASSUME BlobInv, NEW n \in Nodes, NEW x \in Senders, NetTakes(n, x) PROVE BlobInv'
<1>1. PICK c, s : c = call[x].c /\ s = store[n]
  OBVIOUS
<1>2. PICK i : i = call[x].i
  OBVIOUS
<1>3. PICK missing : missing = Missing(s, c)
  OBVIOUS
<1>4. PICK u : u = [Idle EXCEPT !.op = "put", !.c = c, !.step = "reserve", !.for = x, !.up = x]
  OBVIOUS
<1>5. PICK v : v = [Idle EXCEPT !.op = "chunk", !.c = c, !.i = i, !.step = "add", !.for = x]
  OBVIOUS
<1>6. /\ call[x].to = n /\ call[x].answer = "none"
      /\ store' = store /\ lease' = lease
  BY DEF NetTakes
<1>7. \/ Answer(x, "accepted", missing) /\ task' = task
      \/ Answer(x, "refused", {}) /\ task' = task
      \/ /\ ~QuotaRefuses(s, c, x) /\ Goes(n, "net", u)
         /\ call' = [call EXCEPT ![x].answer = "pending"]
      \/ /\ call[x].stage # "put" /\ Goes(n, "net", v)
         /\ call' = [call EXCEPT ![x].answer = "pending"]
  BY <1>1, <1>2, <1>3, <1>4, <1>5 DEF NetTakes
<1>8. /\ CallFits(call[x]) /\ DOMAIN call = Senders /\ x # Nobody /\ c \in BlobIds
      /\ missing \in SUBSET Indices(c)
  <2>1. CallFits(call[x]) /\ DOMAIN call = Senders /\ x # Nobody /\ n # Nobody
    BY BlobsAssumption DEF BlobInv, CallsFit, Senders
  <2> QED
    BY <1>1, <1>3, <1>6, <2>1 DEF CallFits, Missing
<1>9. ASSUME NEW a, NEW some \in SUBSET Indices(c), Answer(x, a, some), task' = task PROVE BlobInv'
  <2>1. call' = [call EXCEPT ![x].answer = a, ![x].missing = some]
    BY <1>8, <1>9 DEF Answer
  <2>2. /\ DOMAIN call' = Senders /\ \A y \in Senders : y # x => call'[y] = call[y]
        /\ DOMAIN call'[x] = DOMAIN call[x]
        /\ call'[x].c = c /\ call'[x].todo = call[x].todo
        /\ call'[x].stage = call[x].stage /\ call'[x].i = call[x].i
        /\ call'[x].missing = some /\ call'[x].to = call[x].to
    BY <1>1, <1>8, <2>1 DEF CallFits
  <2>3. CallFits(call'[x])
    BY <1>1, <1>8, <2>2 DEF CallFits
  <2>4. CallIs(x)
    BY <2>2 DEF CallIs
  <2> QED
    BY <1>6, <1>9, <2>3, <2>4, TransferMoves
<1>10. ASSUME NEW t, TaskFits(t, "net"), t.for = x, t.c = c, Goes(n, "net", t),
              Pending(t) = 0 \/ BytesUsed(s) + Pending(t) <= Quota \/ Quota = 0,
              call' = [call EXCEPT ![x].answer = "pending"]
       PROVE  BlobInv'
  <2>0. "net" \in NodeTasks
    BY DEF NodeTasks
  <2>1. /\ DOMAIN call' = Senders /\ \A y \in Senders : y # x => call'[y] = call[y]
        /\ DOMAIN call'[x] = DOMAIN call[x] /\ call'[x].to = n /\ call'[x].answer = "pending"
        /\ call'[x].c = c /\ call'[x].todo = call[x].todo
        /\ call'[x].stage = call[x].stage /\ call'[x].i = call[x].i
        /\ call'[x].missing = call[x].missing
    BY <1>1, <1>6, <1>8, <1>10 DEF CallFits
  <2>2. CallFits(call'[x])
    BY <1>1, <1>6, <1>8, <2>1 DEF CallFits
  <2>3. CallIs(x) /\ CallsFit'
    BY <2>1, <2>2 DEF BlobInv, CallsFit, CallIs
  <2>4. TaskIs(n, "net", t) /\ BlobTasksFit'
    BY <1>10, <2>0, TaskGoes
  <2>5. WaitsFor(n, t, call')
    BY <1>10, <2>1 DEF WaitsFor
  <2>6. call[x].answer # "pending"
    BY <1>6
  <2>7. AnswersFit'
    BY <2>0, <2>3, <2>4, <2>5, <2>6, NobodyAnswers, AnswersKept
  <2>8. StoreFits(s) /\ BytesUsed(s) \in Nat /\ Pending(task[n]["net"]) \in Nat /\ StoreIs(n, s)
    BY <1>1, <1>6, <2>0, TaskHeld, StoreKept
  <2>9. Quota > 0 =>
          \/ BytesUsed(s) + Pending(t) <= BytesUsed(store[n]) + Pending(task[n]["net"])
          \/ "net" # "maint" /\ BytesUsed(s) + Pending(t) <= Quota
    BY <1>1, <1>10, <2>8
  <2>10. StoresFit' /\ QuotaFits'
    BY <1>10, <2>0, <2>4, <2>8, <2>9, QuotaKept
  <2>11. LeaseFits'
    BY <1>6 DEF BlobInv, LeaseFits
  <2> QED
    BY <2>3, <2>4, <2>7, <2>10, <2>11 DEF BlobInv
<1>11. CASE /\ ~QuotaRefuses(s, c, x) /\ Goes(n, "net", u)
            /\ call' = [call EXCEPT ![x].answer = "pending"]
  <2>1. DOMAIN u = DOMAIN Idle /\ u.op = "put" /\ u.c = c /\ u.for = x /\ u.up = x /\ u.step = "reserve"
    BY <1>4 DEF Idle
  <2>2. TaskFits(u, "net") /\ Pending(u) = SizeOf[c]
    BY <1>8, <2>1 DEF TaskFits, Pending, Idle
  <2>3. StoreFits(s)
    BY <1>1 DEF BlobInv, StoresFit
  <2>4. BytesUsed(s) + Pending(u) <= Quota \/ Quota = 0
    BY <1>8, <1>11, <2>2, <2>3, QuotaAllows, BlobsAssumption
  <2> QED
    BY <1>10, <1>11, <2>1, <2>2, <2>4
<1>12. CASE /\ call[x].stage # "put" /\ Goes(n, "net", v)
            /\ call' = [call EXCEPT ![x].answer = "pending"]
  <2>1. DOMAIN v = DOMAIN Idle /\ v.op = "chunk" /\ v.c = c /\ v.for = x /\ v.i = i /\ v.more = {}
    BY <1>5 DEF Idle
  <2>2. n # Nobody
    BY BlobsAssumption
  <2>3. i \in Indices(c)
    BY <1>1, <1>2, <1>6, <1>8, <1>12, <2>2 DEF CallFits
  <2>4. TaskFits(v, "net") /\ Pending(v) = 0
    BY <1>8, <2>1, <2>3 DEF TaskFits, Pending, Idle
  <2> QED
    BY <1>10, <1>12, <2>1, <2>4
<1> QED
  BY <1>7, <1>8, <1>9, <1>11, <1>12

(* What a lost answer or a crash does to the tasks: some answer nobody any *)
(* more, some are gone.                                                    *)
LEMMA TasksLoosened ==
  ASSUME BlobInv, DOMAIN task' = Nodes, \A n \in Nodes : DOMAIN task'[n] = NodeTasks,
         \A n \in Nodes : \A k \in NodeTasks :
           task'[n][k] \in {task[n][k], [task[n][k] EXCEPT !.for = Nobody], Idle},
         store' = store, lease' = lease
  PROVE  /\ StoresFit' /\ BlobTasksFit' /\ QuotaFits' /\ LeaseFits'
         /\ \A n \in Nodes : \A k \in NodeTasks :
              task'[n][k].for = Nobody \/ task'[n][k] = task[n][k]
<1>1. ASSUME NEW n \in Nodes, NEW k \in NodeTasks
      PROVE  /\ TaskFits(task'[n][k], k)
             /\ Pending(task'[n][k]) \in Nat /\ Pending(task'[n][k]) <= Pending(task[n][k])
             /\ task'[n][k].for = Nobody \/ task'[n][k] = task[n][k]
  <2>1. PICK t, u : t = task[n][k] /\ u = task'[n][k]
    OBVIOUS
  <2>2. TaskFits(t, k) /\ Pending(t) \in Nat
    BY <2>1, TaskHeld
  <2>3. u = t \/ u = [t EXCEPT !.for = Nobody] \/ u = Idle
    BY <2>1
  <2>4. CASE u = t
    BY <2>1, <2>2, <2>4
  <2>5. CASE u = [t EXCEPT !.for = Nobody]
    <3>1. /\ DOMAIN u = DOMAIN t /\ u.op = t.op /\ u.c = t.c /\ u.i = t.i /\ u.more = t.more
          /\ u.up = t.up /\ u.step = t.step /\ u.for = Nobody
      BY <2>2, <2>5 DEF TaskFits
    <3>2. TaskFits(u, k) /\ Pending(u) = Pending(t)
      BY <2>2, <3>1 DEF TaskFits, Pending
    <3> QED
      BY <2>1, <2>2, <3>1, <3>2
  <2>6. CASE u = Idle
    BY <2>1, <2>2, <2>6, NothingFits
  <2> QED
    BY <2>3, <2>4, <2>5, <2>6
<1>2. BlobTasksFit'
  BY <1>1 DEF BlobTasksFit
<1>3. QuotaFits'
  <2> SUFFICES ASSUME Quota > 0, NEW n \in Nodes
               PROVE  BytesUsed(store[n]) + Pending(task'[n]["net"]) + Pending(task'[n]["api"])
                        <= Quota + MaxSize
    BY DEF QuotaFits
  <2> DEFINE b == BytesUsed(store[n])
             p == Pending(task[n]["net"])
             q == Pending(task[n]["api"])
             v == Pending(task'[n]["net"])
             w == Pending(task'[n]["api"])
  <2>1. "net" \in NodeTasks /\ "api" \in NodeTasks
    BY DEF NodeTasks
  <2>2. b \in Nat /\ p \in Nat /\ q \in Nat /\ Quota \in Nat /\ MaxSize \in Nat
    BY <2>1, TaskHeld, BlobsAssumption, MaxSizeIsLargest
  <2>3. v \in Nat /\ w \in Nat /\ v <= p /\ w <= q
    BY <1>1, <2>1
  <2>4. b + p + q <= Quota + MaxSize
    BY DEF BlobInv, QuotaFits
  <2> HIDE DEF b, p, q, v, w
  <2>5. b + v + w <= Quota + MaxSize
    BY <2>2, <2>3, <2>4
  <2> QED
    BY <2>5 DEF b, v, w
<1>4. StoresFit' /\ LeaseFits'
  BY DEF BlobInv, StoresFit, LeaseFits
<1> QED
  BY <1>1, <1>2, <1>3, <1>4

(* A sender gives its target up, and no task answers it any more.          *)
LEMMA GiveUpKeeps ==
  ASSUME BlobInv, NEW x \in Senders, GiveUp(x) PROVE BlobInv'
<1>1. PICK took : took = call[x].took
  OBVIOUS
<1>2. /\ call[x].to # Nobody /\ NextTarget(x, took) /\ store' = store /\ lease' = lease
      /\ task' = [n \in Nodes |-> [k \in NodeTasks |->
           IF task[n][k].for = x THEN [task[n][k] EXCEPT !.for = Nobody] ELSE task[n][k]]]
  BY <1>1 DEF GiveUp
<1>3. call[x].c \in BlobIds
  BY <1>2 DEF BlobInv, CallsFit, CallFits
<1>4. CallIs(x) /\ CallFits(call'[x])
  BY <1>2, <1>3, TargetFits
<1>5. CallsFit'
  BY <1>4 DEF BlobInv, CallsFit, CallIs
<1>6. /\ DOMAIN task' = Nodes /\ \A n \in Nodes : DOMAIN task'[n] = NodeTasks
      /\ \A n \in Nodes : \A k \in NodeTasks :
           task'[n][k] = IF task[n][k].for = x THEN [task[n][k] EXCEPT !.for = Nobody] ELSE task[n][k]
  BY <1>2
<1>7. /\ StoresFit' /\ BlobTasksFit' /\ QuotaFits' /\ LeaseFits'
      /\ \A n \in Nodes : \A k \in NodeTasks :
           task'[n][k].for = Nobody \/ task'[n][k] = task[n][k]
  <2>1. \A n \in Nodes : \A k \in NodeTasks :
          task'[n][k] \in {task[n][k], [task[n][k] EXCEPT !.for = Nobody], Idle}
    BY <1>6
  <2> QED
    BY <1>2, <1>6, <2>1, TasksLoosened
<1>8. AnswersFit'
  <2> SUFFICES ASSUME NEW m \in Nodes, NEW j \in NodeTasks PROVE WaitsFor(m, task'[m][j], call')
    BY DEF AnswersFit
  <2>1. PICK t, u : t = task[m][j] /\ u = task'[m][j]
    OBVIOUS
  <2>2. WaitsFor(m, t, call) /\ TaskFits(t, j)
    BY <2>1, TaskHeld
  <2>3. u = IF t.for = x THEN [t EXCEPT !.for = Nobody] ELSE t
    BY <1>6, <2>1
  <2>4. u.for = Nobody \/ (u = t /\ t.for # x)
    BY <2>2, <2>3 DEF TaskFits
  <2>5. WaitsFor(m, u, call')
    BY <1>4, <2>2, <2>4 DEF WaitsFor, CallIs
  <2> QED
    BY <2>1, <2>5
<1> QED
  BY <1>5, <1>7, <1>8 DEF BlobInv

(* A crash ends what the node was doing and sending.                       *)
LEMMA CrashKeeps ==
  ASSUME BlobInv, NEW n \in Nodes, Crash(n) PROVE BlobInv'
<1>1. /\ store' = store /\ lease' = lease
      /\ task' = [m \in Nodes |-> [k \in NodeTasks |->
           IF m = n THEN Idle
           ELSE IF task[m][k].for = n THEN [task[m][k] EXCEPT !.for = Nobody] ELSE task[m][k]]]
      /\ call' = [x \in Senders |->
           IF x = n THEN NoCall
           ELSE IF call[x].to = n /\ call[x].answer = "pending"
           THEN [call[x] EXCEPT !.answer = "refused"] ELSE call[x]]
  BY DEF Crash
<1>2. /\ DOMAIN task' = Nodes /\ \A m \in Nodes : DOMAIN task'[m] = NodeTasks
      /\ \A m \in Nodes : \A k \in NodeTasks :
           task'[m][k] = IF m = n THEN Idle
                         ELSE IF task[m][k].for = n THEN [task[m][k] EXCEPT !.for = Nobody]
                         ELSE task[m][k]
  BY <1>1
<1>3. /\ DOMAIN call' = Senders
      /\ \A x \in Senders :
           call'[x] = IF x = n THEN NoCall
                      ELSE IF call[x].to = n /\ call[x].answer = "pending"
                      THEN [call[x] EXCEPT !.answer = "refused"] ELSE call[x]
  BY <1>1
<1>4. /\ StoresFit' /\ BlobTasksFit' /\ QuotaFits' /\ LeaseFits'
  <2>1. \A m \in Nodes : \A k \in NodeTasks :
          task'[m][k] \in {task[m][k], [task[m][k] EXCEPT !.for = Nobody], Idle}
    BY <1>2
  <2> QED
    BY <1>1, <1>2, <2>1, TasksLoosened
<1>5. CallsFit'
  <2>1. ASSUME NEW x \in Senders PROVE CallFits(call'[x])
    <3>1. PICK s, r : s = call[x] /\ r = [s EXCEPT !.answer = "refused"]
      OBVIOUS
    <3>2. CallFits(s)
      BY <3>1 DEF BlobInv, CallsFit
    <3>3. call'[x] = NoCall \/ call'[x] = s \/ (s.answer = "pending" /\ call'[x] = r)
      BY <1>3, <3>1
    <3>4. /\ DOMAIN r = DOMAIN s /\ r.c = s.c /\ r.to = s.to /\ r.stage = s.stage
          /\ r.missing = s.missing /\ r.todo = s.todo /\ r.i = s.i
      BY <3>1, <3>2 DEF CallFits
    <3>5. s.answer = "pending" => CallFits(r)
      BY <3>2, <3>4 DEF CallFits
    <3> QED
      BY <3>2, <3>3, <3>5, NothingFits
  <2> QED
    BY <1>3, <2>1 DEF CallsFit
<1>6. AnswersFit'
  <2> SUFFICES ASSUME NEW m \in Nodes, NEW j \in NodeTasks PROVE WaitsFor(m, task'[m][j], call')
    BY DEF AnswersFit
  <2>1. PICK t, u : t = task[m][j] /\ u = task'[m][j]
    OBVIOUS
  <2>2. WaitsFor(m, t, call) /\ TaskFits(t, j)
    BY <2>1, TaskHeld
  <2>3. u = IF m = n THEN Idle ELSE IF t.for = n THEN [t EXCEPT !.for = Nobody] ELSE t
    BY <1>2, <2>1
  <2>4. u.for = Nobody \/ (u = t /\ t.for # n /\ m # n)
    BY <2>2, <2>3, NothingFits DEF TaskFits
  <2>5. ASSUME u = t, t.for # Nobody, t.for # n, m # n PROVE call'[t.for] = call[t.for]
    BY <1>3, <2>2, <2>5 DEF WaitsFor
  <2>6. WaitsFor(m, u, call')
    BY <2>2, <2>4, <2>5 DEF WaitsFor
  <2> QED
    BY <2>1, <2>6
<1> QED
  BY <1>4, <1>5, <1>6 DEF BlobInv

(* A node's push is a transfer like a client's.                            *)
LEMMA RepairStepKeeps ==
  ASSUME BlobInv, NEW n \in Nodes, RepairStep(n) PROVE BlobInv'
<1>1. PICK t : t = task[n]["maint"]
  OBVIOUS
<1>2. PICK rest, i, c : rest = Tail(t.todo) /\ i = t.i + 1 /\ c = Head(t.todo)
  OBVIOUS
<1>3. PICK u, v : u = [t EXCEPT !.todo = rest, !.i = i] /\ v = [t EXCEPT !.todo = rest, !.i = t.i]
  OBVIOUS
<1>4. "maint" \in NodeTasks
  BY DEF NodeTasks
<1>5. TaskFits(t, "maint") /\ t.op = "repair" /\ StoreFits(store[n])
  BY <1>1, <1>4, TaskHeld DEF RepairStep
<1>6. /\ DOMAIN u = DOMAIN t /\ u.op = "repair" /\ u.for = Nobody
      /\ DOMAIN v = DOMAIN t /\ v.op = "repair" /\ v.for = Nobody
  BY <1>3, <1>5 DEF TaskFits
<1>7. TaskFits(u, "maint") /\ Pending(u) = 0 /\ TaskFits(v, "maint") /\ Pending(v) = 0
  BY <1>5, <1>6 DEF TaskFits, Pending
<1>8. store' = store /\ lease' = lease /\ call[n].to = Nobody
  BY DEF RepairStep
<1>9. \/ Goes(n, "maint", Idle) /\ call' = call
      \/ Goes(n, "maint", v) /\ call' = call
      \/ /\ Goes(n, "maint", u) /\ c \in DOMAIN store[n].meta
         /\ \E p : Begin(n, c, p, <<>>)
  BY <1>1, <1>2, <1>3 DEF RepairStep
<1>10. CASE (Goes(n, "maint", Idle) \/ Goes(n, "maint", v)) /\ call' = call
  BY <1>4, <1>6, <1>7, <1>8, <1>10, NothingFits, TaskOnly
<1>11. CASE /\ Goes(n, "maint", u) /\ c \in DOMAIN store[n].meta
            /\ \E p : Begin(n, c, p, <<>>)
  <2>1. c \in BlobIds /\ n \in Senders
    BY <1>5, <1>11 DEF StoreFits, Senders
  <2>2. CallIs(n) /\ CallFits(call'[n])
    BY <1>11, <2>1, CallBegins
  <2>3. CallsFit'
    BY <2>2 DEF BlobInv, CallsFit, CallIs
  <2>4. TaskIs(n, "maint", u) /\ BlobTasksFit'
    BY <1>4, <1>7, <1>11, TaskGoes
  <2>5. call[n].to \notin Nodes
    BY <1>8, BlobsAssumption
  <2>6. WaitsFor(n, u, call')
    BY <1>6 DEF WaitsFor
  <2>7. AnswersFit'
    BY <1>4, <2>1, <2>2, <2>4, <2>5, <2>6, NobodyAnswers, AnswersKept
  <2>8. PICK s : s = store[n]
    OBVIOUS
  <2>9. StoreFits(s) /\ BytesUsed(s) \in Nat /\ Pending(task[n]["maint"]) \in Nat /\ StoreIs(n, s)
    BY <1>4, <1>8, <2>8, TaskHeld, StoreKept
  <2>10. BytesUsed(s) + Pending(u) <= BytesUsed(store[n]) + Pending(task[n]["maint"])
    BY <1>7, <2>8, <2>9
  <2>11. StoresFit' /\ QuotaFits'
    BY <1>4, <1>7, <2>4, <2>9, <2>10, QuotaKept
  <2>12. LeaseFits'
    BY <1>8 DEF BlobInv, LeaseFits
  <2> QED
    BY <2>3, <2>4, <2>7, <2>11, <2>12 DEF BlobInv
<1> QED
  BY <1>9, <1>10, <1>11

----------------------------------------------------------------------------
(* The lease, and the steps that touch none of this.                       *)
LEMMA LeaseKeeps ==
  ASSUME BlobInv, VerifyEpoch \/ PayEpoch \/ PaymentRecorded \/ PaymentForgotten PROVE BlobInv'
<1>1. StoresFit' /\ BlobTasksFit' /\ CallsFit' /\ AnswersFit' /\ QuotaFits'
  <2>1. UNCHANGED <<store, task, call>>
    BY DEF VerifyEpoch, PayEpoch, PaymentRecorded, PaymentForgotten
  <2> QED
    BY <2>1 DEF BlobInv, StoresFit, BlobTasksFit, CallsFit, AnswersFit, QuotaFits
<1>2. LeaseFits
  BY DEF BlobInv
<1>3. CASE VerifyEpoch
  <2>1. PICK v : lease' = [lease EXCEPT !.seen = v]
    BY <1>3 DEF VerifyEpoch
  <2> QED
    BY <1>1, <1>2, <2>1 DEF BlobInv, LeaseFits
<1>4. CASE PayEpoch
  BY <1>1, <1>2, <1>4 DEF BlobInv, LeaseFits, PayEpoch, MayPay
<1>5. CASE PaymentRecorded
  BY <1>1, <1>2, <1>5 DEF BlobInv, LeaseFits, PaymentRecorded
<1>6. CASE PaymentForgotten
  BY <1>1, <1>2, <1>6 DEF BlobInv, LeaseFits, PaymentForgotten
<1> QED
  BY <1>3, <1>4, <1>5, <1>6

(* Clocks, peers and what is known of replicas touch none of this.         *)
LEMMA BlobsIdle ==
  ASSUME BlobInv, UNCHANGED <<store, task, call, lease>> PROVE BlobInv'
BY DEF BlobInv, StoresFit, BlobTasksFit, CallsFit, AnswersFit, QuotaFits, LeaseFits

(* At first nothing is stored, reserved or under way.                      *)
LEMMA BlobsInitKeeps ==
  ASSUME NEW scenarios, BlobsInit(scenarios) PROVE BlobInv
<1>1. StoreFits(EmptyStore) /\ BytesUsed(EmptyStore) = 0
  <2> DEFINE s == EmptyStore
  <2>1. /\ s = [meta |-> <<>>, present |-> {}, refs |-> <<>>, usage |-> <<>>]
        /\ s.meta = <<>> /\ s.present = {} /\ s.refs = <<>> /\ s.usage = <<>>
    BY DEF EmptyStore
  <2>2. DOMAIN s.meta = {} /\ DOMAIN s.refs = {} /\ DOMAIN s.usage = {}
    BY <2>1
  <2> HIDE DEF s
  <2>3. IsStore(s)
    BY <2>1 DEF IsStore
  <2>4. Covers(s.present, s.refs)
    BY <2>1, <2>2 DEF Covers
  <2>5. ASSUME NEW u \in Senders PROVE At(s.usage, u) >= Total(SizeOf, ReservedBy(s, u))
    <3>1. ReservedBy(s, u) = {} /\ At(s.usage, u) = 0
      BY <2>2 DEF ReservedBy, At
    <3>2. Total(SizeOf, {}) = 0
      BY TotalIsSum, SumEmpty
    <3> QED
      BY <3>1, <3>2
  <2>6. StoreFits(s)
    BY <2>2, <2>3, <2>4, <2>5 DEF StoreFits, Covered
  <2>7. BytesUsed(s) = 0
    BY <2>2, TotalIsSum, SumEmpty DEF BytesUsed
  <2> QED
    BY <2>6, <2>7 DEF s
<1>2. StoresFit /\ BlobTasksFit /\ CallsFit
  BY <1>1, NothingFits DEF BlobsInit, StoresFit, BlobTasksFit, CallsFit
<1>3. AnswersFit
  BY NothingFits DEF BlobsInit, AnswersFit, WaitsFor
<1>4. QuotaFits
  <2>1. \A n \in Nodes : store[n] = EmptyStore /\ task[n]["net"] = Idle /\ task[n]["api"] = Idle
    BY DEF BlobsInit, NodeTasks
  <2>2. Quota \in Nat /\ MaxSize \in Nat
    BY BlobsAssumption, MaxSizeIsLargest
  <2> QED
    BY <1>1, <2>1, <2>2, NothingFits DEF QuotaFits
<1>5. LeaseFits
  BY DEF BlobsInit, LeaseFits
<1> QED
  BY <1>2, <1>3, <1>4, <1>5 DEF BlobInv

(* Every step keeps the invariant.                                         *)
LEMMA BlobsNextKeeps ==
  ASSUME BlobInv, BlobsNext PROVE BlobInv'
<1>0. {"net", "api", "maint"} = NodeTasks
  BY DEF NodeTasks
<1>1. ASSUME NEW n \in Nodes, NEW k \in NodeTasks, TaskStep(n, k) PROVE BlobInv'
  BY <1>1, ReserveStepKeeps, MarkStepKeeps, ChunkStepKeeps, ReleaseStepKeeps, ForgetStepKeeps
     DEF TaskStep
<1>2. ASSUME NEW n \in Nodes, NetTask(n) PROVE BlobInv'
  BY <1>0, <1>1, <1>2, NetTakesKeeps DEF NetTask
<1>3. ASSUME NEW n \in Nodes, ApiTask(n) PROVE BlobInv'
  BY <1>0, <1>1, <1>3, ApiReadStepKeeps DEF ApiTask
<1>4. ASSUME NEW n \in Nodes, MaintTask(n) PROVE BlobInv'
  BY <1>0, <1>1, <1>4, MaintTickKeeps, ExpireStepKeeps, RepairStepKeeps DEF MaintTask
<1>5. ASSUME NEW n \in Nodes, NEW c \in BlobIds, GrowStale(n, c) PROVE BlobInv'
  BY <1>5, BlobsIdle DEF GrowStale
<1>6. ASSUME NEW n \in Nodes, NEW p \in Nodes, PeerLost(n, p) \/ PeerVerified(n, p) PROVE BlobInv'
  BY <1>6, BlobsIdle DEF PeerLost, PeerVerified
<1>7. ASSUME ClockTick PROVE BlobInv'
  BY <1>7, BlobsIdle DEF ClockTick
<1> QED
  BY <1>2, <1>3, <1>4, <1>5, <1>6, <1>7, CrashKeeps, PutLocalKeeps, ApiDeletesKeeps, FetchKeeps,
     UploadKeeps, TransferAnsweredKeeps, GiveUpKeeps, LeaseKeeps DEF BlobsNext

(* What the invariant says of the stores and of the lease.                 *)
LEMMA BlobInvImplies ==
  ASSUME BlobInv PROVE StoredAndPaid
<1>1. ChunksStay
  <2> SUFFICES ASSUME NEW n \in Nodes PROVE PresentAreHeld(store[n])
    BY DEF ChunksStay
  <2>1. PICK s : s = store[n]
    OBVIOUS
  <2>2. Covers(s.present, s.refs)
    BY <2>1 DEF BlobInv, StoresFit, StoreFits
  <2>3. ASSUME NEW r \in s.present
        PROVE  /\ Holds(s, HashAt(r[1], r[2]))
               /\ s.refs[HashAt(r[1], r[2])] >=
                    Cardinality({q \in s.present : HashAt(q[1], q[2]) = HashAt(r[1], r[2])})
    <3>1. PICK h : h = HashAt(r[1], r[2])
      OBVIOUS
    <3>2. h \in DOMAIN s.refs
      BY <2>2, <3>1 DEF Covers
    <3>3. s.refs[h] \in Nat /\ Cardinality(WithHash(s.present, h)) <= s.refs[h]
      BY <2>2, <3>2 DEF Covers
    <3>4. Cardinality(WithHash(s.present, h)) \in Nat
      BY <2>2, SlotsAreFinite DEF Covers
    <3>5. s.refs[h] >= Cardinality(WithHash(s.present, h))
      BY <3>3, <3>4
    <3>6. WithHash(s.present, h) = {q \in s.present : HashAt(q[1], q[2]) = HashAt(r[1], r[2])}
      BY <3>1 DEF WithHash
    <3> QED
      BY <3>1, <3>2, <3>5, <3>6 DEF Holds
  <2> QED
    BY <2>1, <2>3 DEF PresentAreHeld
<1>2. ReservationsAreHonest
  <2> SUFFICES ASSUME NEW n \in Nodes
               PROVE  /\ \A u \in Senders : At(store[n].usage, u) >= Total(SizeOf, ReservedBy(store[n], u))
                      /\ Quota > 0 => BytesUsed(store[n]) <= Quota + MaxSize
    BY DEF ReservationsAreHonest
  <2>1. \A u \in Senders : At(store[n].usage, u) >= Total(SizeOf, ReservedBy(store[n], u))
    BY DEF BlobInv, StoresFit, StoreFits, Covered
  <2>2. ASSUME Quota > 0 PROVE BytesUsed(store[n]) <= Quota + MaxSize
    <3> DEFINE b == BytesUsed(store[n])
               p == Pending(task[n]["net"])
               q == Pending(task[n]["api"])
    <3>1. "net" \in NodeTasks /\ "api" \in NodeTasks
      BY DEF NodeTasks
    <3>2. b \in Nat /\ p \in Nat /\ q \in Nat /\ Quota \in Nat /\ MaxSize \in Nat
      BY <3>1, TaskHeld, BlobsAssumption, MaxSizeIsLargest
    <3>3. b + p + q <= Quota + MaxSize
      BY <2>2 DEF BlobInv, QuotaFits
    <3> HIDE DEF b, p, q
    <3>4. b <= Quota + MaxSize
      BY <3>2, <3>3
    <3> QED
      BY <3>4 DEF b
  <2> QED
    BY <2>1, <2>2
<1>3. PaidOncePerEpoch
  BY DEF BlobInv, LeaseFits, PaidOncePerEpoch
<1> QED
  BY <1>1, <1>2, <1>3 DEF StoredAndPaid

(* What a node stored, reserved and was paid for stays true for every      *)
(* number of nodes, clients and blobs, and in every order of the           *)
(* transactions of put_manifest, put_chunk, delete and the sweep.          *)
THEOREM StoredAndPaidAlways ==
  ASSUME NEW CONSTANT scenarios
  PROVE  BlobsInit(scenarios) /\ [][BlobsNext]_blobVars => []StoredAndPaid
<1>1. BlobsInit(scenarios) => BlobInv
  BY BlobsInitKeeps
<1>2. BlobInv /\ [BlobsNext]_blobVars => BlobInv'
  <2>1. BlobInv /\ UNCHANGED blobVars => BlobInv'
    BY BlobsIdle DEF blobVars
  <2> QED
    BY <2>1, BlobsNextKeeps
<1>3. BlobInv => StoredAndPaid
  BY BlobInvImplies
<1> QED
  BY <1>1, <1>2, <1>3, PTL
=============================================================================
