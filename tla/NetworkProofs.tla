---------------------------- MODULE NetworkProofs ---------------------------
(***************************************************************************)
(* Proofs about what the network carries.  The books of the mailbox stores,*)
(* and the fate of every accepted envelope, for every number of stores,    *)
(* envelopes, deposits, faults and crashes, every page size and every order*)
(* of the steps.  The actor of a node's swarm, for any peers, limits,      *)
(* scenarios and orders of events.  The MLS groups of the devices, for any *)
(* devices, texts and scenarios, and any order envelopes are read in.      *)
(***************************************************************************)
EXTENDS Delivery, Swarm, Groups, FiniteSums, SequenceTheorems

----------------------------------------------------------------------------
(* What the operators on pages return, for every set of envelopes: the     *)
(* order a page is processed in, what a pass over it adds to what MLS has  *)
(* processed, and the ids that seen keeps.  The two that count (a recursive*)
(* function, a CHOOSE over lists) are reached by induction over a set of   *)
(* naturals.                                                               *)

(* One envelope of a pass, and the states a pass over q goes through.      *)
PassStep(q, i, d) == IF Processable(q[i], d) THEN d \cup {q[i]} ELSE d
GoesThrough(f, q, done, n) ==
  f = [i \in 0..n |-> IF i = 0 THEN done ELSE PassStep(q, i, f[i - 1])]

LEMMA PassGoesOn ==
  ASSUME NEW q, NEW done, NEW n \in Nat, NEW f, GoesThrough(f, q, done, n)
  PROVE  \E g : GoesThrough(g, q, done, n + 1)
<1> DEFINE g == [i \in 0..(n + 1) |-> IF i = n + 1 THEN PassStep(q, i, f[n]) ELSE f[i]]
<1>1. \A i \in 0..n : f[i] = IF i = 0 THEN done ELSE PassStep(q, i, f[i - 1])
  BY DEF GoesThrough
<1>2. \A i \in 0..(n + 1) : g[i] = IF i = 0 THEN done ELSE PassStep(q, i, g[i - 1])
  <2> TAKE i \in 0..(n + 1)
  <2>1. CASE i = n + 1
    <3>1. g[i] = PassStep(q, i, f[n]) /\ g[i - 1] = f[n]
      BY <2>1
    <3> QED
      BY <2>1, <3>1
  <2>2. CASE i # n + 1
    <3>1. i \in 0..n /\ (i # 0 => i - 1 \in 0..n)
      BY <2>2
    <3>2. g[i] = f[i] /\ (i # 0 => g[i - 1] = f[i - 1])
      BY <3>1
    <3> QED
      BY <1>1, <3>1, <3>2
  <2> QED
    BY <2>1, <2>2
<1>3. DOMAIN g = 0..(n + 1) /\ g = [i \in 0..(n + 1) |-> g[i]]
  OBVIOUS
<1> HIDE DEF g
<1>4. g = [i \in 0..(n + 1) |-> IF i = 0 THEN done ELSE PassStep(q, i, g[i - 1])]
  BY <1>2, <1>3
<1> QED
  BY <1>4 DEF GoesThrough

LEMMA PassExists ==
  ASSUME NEW q, NEW done, NEW n \in Nat
  PROVE  \E f : GoesThrough(f, q, done, n)
<1> DEFINE T == {m \in Nat : \E f : GoesThrough(f, q, done, m)}
<1>1. 0 \in T
  <2> DEFINE f == [i \in 0..0 |-> done]
  <2>1. f = [i \in 0..0 |-> IF i = 0 THEN done ELSE PassStep(q, i, f[i - 1])]
    OBVIOUS
  <2> QED
    BY <2>1 DEF GoesThrough
<1>2. \A m \in Nat : m \in T => m + 1 \in T
  BY PassGoesOn
<1> HIDE DEF T
<1>3. n \in T
  BY <1>1, <1>2, SetInduction
<1> QED
  BY <1>3 DEF T

LEMMA PassIsReached ==
  ASSUME NEW q, NEW done, Len(q) \in Nat
  PROVE  \E f : GoesThrough(f, q, done, Len(q)) /\ Pass(q, done) = f[Len(q)]
<1> DEFINE f == CHOOSE f : GoesThrough(f, q, done, Len(q))
<1>1. GoesThrough(f, q, done, Len(q))
  BY PassExists
<1>2. Pass(q, done) = f[Len(q)]
  BY DEF Pass, GoesThrough, PassStep
<1> QED
  BY <1>1, <1>2

LEMMA PassBounds ==
  ASSUME NEW q, Len(q) \in Nat, NEW done
  PROVE  /\ done \subseteq Pass(q, done)
         /\ \A e \in Pass(q, done) \ done : \E i \in 1..Len(q) : e = q[i]
<1>1. PICK f : GoesThrough(f, q, done, Len(q)) /\ Pass(q, done) = f[Len(q)]
  BY PassIsReached
<1>2. \A i \in 0..Len(q) : f[i] = IF i = 0 THEN done ELSE PassStep(q, i, f[i - 1])
  BY <1>1 DEF GoesThrough
<1> DEFINE Bounded(i) == /\ done \subseteq f[i]
                         /\ \A e \in f[i] \ done : \E j \in 1..Len(q) : e = q[j]
           T == {i \in Nat : i <= Len(q) => Bounded(i)}
<1>3. 0 \in T
  BY <1>2
<1>4. ASSUME NEW i \in Nat, i \in T
      PROVE  i + 1 \in T
  <2> SUFFICES ASSUME i + 1 <= Len(q) PROVE Bounded(i + 1)
    OBVIOUS
  <2>1. Bounded(i) /\ f[i + 1] = PassStep(q, i + 1, f[i])
    BY <1>2, <1>4
  <2>2. f[i] \subseteq f[i + 1] /\ f[i + 1] \subseteq f[i] \cup {q[i + 1]}
    BY <2>1 DEF PassStep
  <2>3. i + 1 \in 1..Len(q)
    OBVIOUS
  <2> QED
    BY <2>1, <2>2, <2>3
<1> HIDE DEF T
<1>5. Len(q) \in T
  BY <1>3, <1>4, SetInduction
<1> QED
  BY <1>1, <1>5 DEF T

----------------------------------------------------------------------------
(* The order in which a page is processed.                                 *)
Earlier(e, f) ==
  IF (Kind[e] = "welcome") = (Kind[f] = "welcome") THEN Before(e, f)
  ELSE Kind[e] = "welcome"

LEMMA EarlierOrders ==
  ASSUME created \in [Envelopes -> Int]
  PROVE  /\ \A e \in Envelopes : ~Earlier(e, e)
         /\ \A e, f \in Envelopes : e # f => Earlier(e, f) \/ Earlier(f, e)
         /\ \A e, f, g \in Envelopes : Earlier(e, f) /\ Earlier(f, g) => Earlier(e, g)
<1>1. \A e \in Envelopes : e \in Nat /\ created[e] \in Int
  BY EnvelopeAssumption
<1>2. \A e \in Envelopes : ~Earlier(e, e)
  BY <1>1 DEF Earlier, Before
<1>3. \A e, f \in Envelopes : e # f => Before(e, f) \/ Before(f, e)
  BY <1>1 DEF Before
<1>4. \A e, f, g \in Envelopes : Before(e, f) /\ Before(f, g) => Before(e, g)
  BY <1>1 DEF Before
<1>5. \A e, f \in Envelopes : e # f => Earlier(e, f) \/ Earlier(f, e)
  BY <1>3 DEF Earlier
<1>6. \A e, f, g \in Envelopes : Earlier(e, f) /\ Earlier(f, g) => Earlier(e, g)
  BY <1>4 DEF Earlier
<1> QED
  BY <1>2, <1>5, <1>6

LEMMA PageIsFinite ==
  ASSUME NEW es \in SUBSET Envelopes
  PROVE  IsFiniteSet(es) /\ Cardinality(es) \in Nat
BY EnvelopeAssumption, FS_Subset, FS_CardinalityType

(* A set of envelopes that is not empty has a last one.                    *)
LastIs(es, m) == m \in es /\ \A f \in es : f = m \/ Earlier(f, m)

LEMMA PageHasLast ==
  ASSUME created \in [Envelopes -> Int], NEW es \in SUBSET Envelopes, es # {}
  PROVE  \E m : LastIs(es, m)
<1> DEFINE T == {n \in Nat : \A s \in SUBSET Envelopes :
                   Cardinality(s) = n /\ s # {} => \E m : LastIs(s, m)}
<1>1. 0 \in T
  BY PageIsFinite, FS_EmptySet
<1>2. ASSUME NEW n \in Nat, n \in T PROVE n + 1 \in T
  <2> SUFFICES ASSUME NEW s \in SUBSET Envelopes, Cardinality(s) = n + 1, s # {}
               PROVE  \E m : LastIs(s, m)
    OBVIOUS
  <2>1. PICK x \in s : TRUE
    OBVIOUS
  <2>2. Cardinality(s \ {x}) = n
    BY <2>1, PageIsFinite, FS_RemoveElement
  <2>3. CASE s = {x}
    BY <2>3 DEF LastIs
  <2>4. CASE s # {x}
    <3>1. s \ {x} \in SUBSET Envelopes /\ s \ {x} # {}
      BY <2>1, <2>4
    <3>2. PICK m : LastIs(s \ {x}, m)
      BY <1>2, <2>2, <3>1
    <3>3. m \in Envelopes /\ x \in Envelopes /\ m # x
      BY <2>1, <3>2 DEF LastIs
    <3>4. CASE Earlier(x, m)
      <4>1. LastIs(s, m)
        BY <2>1, <3>2, <3>4 DEF LastIs
      <4> QED
        BY <4>1
    <3>5. CASE Earlier(m, x)
      <4>1. \A f \in s \ {x} : Earlier(f, x)
        BY <3>2, <3>3, <3>5, EarlierOrders DEF LastIs
      <4>2. LastIs(s, x)
        BY <2>1, <4>1 DEF LastIs
      <4> QED
        BY <4>2
    <3> QED
      BY <3>3, <3>4, <3>5, EarlierOrders
  <2> QED
    BY <2>3, <2>4
<1> HIDE DEF T
<1>3. Cardinality(es) \in T
  BY <1>1, <1>2, SetInduction, PageIsFinite
<1> QED
  BY <1>3 DEF T

Sorts(q, es, n) ==
  q \in [1..n -> es] /\ \A i, j \in 1..n : i < j => Earlier(q[i], q[j])

LEMMA PageIsSortable ==
  ASSUME created \in [Envelopes -> Int], NEW es \in SUBSET Envelopes
  PROVE  \E q : Sorts(q, es, Cardinality(es))
<1> DEFINE T == {n \in Nat : \A s \in SUBSET Envelopes :
                   Cardinality(s) = n => \E q : Sorts(q, s, n)}
<1>1. 0 \in T
  <2> SUFFICES ASSUME NEW s \in SUBSET Envelopes PROVE \E q : Sorts(q, s, 0)
    OBVIOUS
  <2> DEFINE q == [i \in 1..0 |-> 0]
  <2>1. q \in [1..0 -> s]
    OBVIOUS
  <2>2. Sorts(q, s, 0)
    BY <2>1 DEF Sorts
  <2> QED
    BY <2>2
<1>2. ASSUME NEW n \in Nat, n \in T PROVE n + 1 \in T
  <2> SUFFICES ASSUME NEW s \in SUBSET Envelopes, Cardinality(s) = n + 1
               PROVE  \E q : Sorts(q, s, n + 1)
    OBVIOUS
  <2>1. s # {}
    BY FS_EmptySet
  <2>2. PICK m : LastIs(s, m)
    BY <2>1, PageHasLast
  <2>3. Cardinality(s \ {m}) = n /\ s \ {m} \in SUBSET Envelopes
    BY <2>2, PageIsFinite, FS_RemoveElement DEF LastIs
  <2>4. PICK q : Sorts(q, s \ {m}, n)
    BY <1>2, <2>3
  <2> DEFINE r == [i \in 1..(n + 1) |-> IF i = n + 1 THEN m ELSE q[i]]
  <2>5. \A i \in 1..n : r[i] = q[i] /\ q[i] \in s \ {m}
    BY <2>4 DEF Sorts
  <2>6. r[n + 1] = m /\ m \in s
    BY <2>2 DEF LastIs
  <2>7. r \in [1..(n + 1) -> s]
    <3>1. \A i \in 1..(n + 1) : i = n + 1 \/ i \in 1..n
      OBVIOUS
    <3>2. \A i \in 1..(n + 1) : (IF i = n + 1 THEN m ELSE q[i]) \in s
      BY <2>2, <2>4, <3>1 DEF Sorts, LastIs
    <3> QED
      BY <3>2
  <2> HIDE DEF r
  <2>8. ASSUME NEW i \in 1..(n + 1), NEW j \in 1..(n + 1), i < j
        PROVE  Earlier(r[i], r[j])
    <3>1. CASE j = n + 1
      <4>1. i \in 1..n
        BY <2>8, <3>1
      <4>2. r[i] \in s \ {m} /\ r[j] = m
        BY <2>5, <2>6, <3>1, <4>1
      <4> QED
        BY <2>2, <4>2 DEF LastIs
    <3>2. CASE j # n + 1
      <4>1. i \in 1..n /\ j \in 1..n
        BY <2>8, <3>2
      <4> QED
        BY <2>4, <2>5, <2>8, <4>1 DEF Sorts
    <3> QED
      BY <3>1, <3>2
  <2>9. Sorts(r, s, n + 1)
    BY <2>7, <2>8 DEF Sorts
  <2> QED
    BY <2>9
<1> HIDE DEF T
<1>3. Cardinality(es) \in T
  BY <1>1, <1>2, SetInduction, PageIsFinite
<1> QED
  BY <1>3 DEF T

(* A page is listed in order, whole and without repetition.                *)
LEMMA InOrderLists ==
  ASSUME created \in [Envelopes -> Int], NEW es \in SUBSET Envelopes
  PROVE  LET q == InOrder(es)
             n == Cardinality(es)
         IN  /\ n \in Nat /\ q \in [1..n -> es]
             /\ \A i, j \in 1..n : q[i] = q[j] => i = j
             /\ \A e \in es : \E i \in 1..n : q[i] = e
<1> DEFINE q == InOrder(es)
           n == Cardinality(es)
<1>1. n \in Nat /\ IsFiniteSet(es)
  BY PageIsFinite
<1>2. PICK r : Sorts(r, es, n)
  BY PageIsSortable
<1>3. Sorts(q, es, n)
  BY <1>2 DEF InOrder, Sorts, Earlier
<1> HIDE DEF q, n
<1>4. \A i, j \in 1..n : q[i] = q[j] => i = j
  <2> SUFFICES ASSUME NEW i \in 1..n, NEW j \in 1..n, q[i] = q[j], i < j PROVE FALSE
    BY <1>1
  <2>1. Earlier(q[i], q[j]) /\ q[i] \in Envelopes
    BY <1>3 DEF Sorts
  <2> QED
    BY <2>1, EarlierOrders
<1>5. q \in [1..n -> es]
  BY <1>3 DEF Sorts
<1>6. q \in Injection(1..n, es)
  BY <1>4, <1>5 DEF Injection, IsInjective
<1>7. Cardinality(1..n) = n
  BY <1>1, FS_Interval
<1>8. q \in Surjection(1..n, es)
  BY <1>1, <1>6, <1>7, FS_Injection DEF n
<1>9. \A e \in es : \E i \in 1..n : q[i] = e
  BY <1>8 DEF Surjection
<1> QED
  BY <1>1, <1>4, <1>5, <1>9 DEF q, n

----------------------------------------------------------------------------
(* The ids in a list.                                                      *)
Ids(q) == {q[i] : i \in 1..Len(q)}
Distinct(q) == \A i, j \in 1..Len(q) : q[i] = q[j] => i = j

LEMMA InOrderIds ==
  ASSUME created \in [Envelopes -> Int], NEW es \in SUBSET Envelopes
  PROVE  /\ InOrder(es) \in Seq(Envelopes)
         /\ Len(InOrder(es)) = Cardinality(es)
         /\ Ids(InOrder(es)) = es
         /\ Distinct(InOrder(es))
<1> DEFINE q == InOrder(es)
           n == Cardinality(es)
<1>1. /\ n \in Nat /\ q \in [1..n -> es]
      /\ \A i, j \in 1..n : q[i] = q[j] => i = j
      /\ \A e \in es : \E i \in 1..n : q[i] = e
  BY InOrderLists
<1> HIDE DEF q, n
<1>2. q \in [1..n -> Envelopes]
  BY <1>1
<1>3. q \in Seq(Envelopes)
  BY <1>1, <1>2, SeqDef
<1>4. Len(q) = n
  BY <1>1, <1>2, <1>3, LenProperties
<1>5. Ids(q) = es
  BY <1>1, <1>4 DEF Ids
<1>6. Distinct(q)
  BY <1>1, <1>4 DEF Distinct
<1> QED
  BY <1>3, <1>4, <1>5, <1>6 DEF q, n

(* Two lists in a row.                                                     *)
LEMMA ConcatIds ==
  ASSUME NEW p \in Seq(Envelopes), NEW q \in Seq(Envelopes)
  PROVE  /\ p \o q \in Seq(Envelopes)
         /\ Ids(p \o q) = Ids(p) \cup Ids(q)
         /\ Distinct(p) /\ Distinct(q) /\ Ids(p) \cap Ids(q) = {} => Distinct(p \o q)
<1>1. /\ p \o q \in Seq(Envelopes) /\ Len(p \o q) = Len(p) + Len(q)
      /\ \A i \in 1..Len(p) + Len(q) : (p \o q)[i] = IF i <= Len(p) THEN p[i] ELSE q[i - Len(p)]
      /\ Len(p) \in Nat /\ Len(q) \in Nat
  BY ConcatProperties, LenProperties
<1> DEFINE r == p \o q
<1> HIDE DEF r
<1>2. /\ \A i \in 1..Len(p) : i \in 1..Len(r) /\ r[i] = p[i]
      /\ \A j \in 1..Len(q) : j + Len(p) \in 1..Len(r) /\ r[j + Len(p)] = q[j]
      /\ \A i \in 1..Len(r) : i \in 1..Len(p) \/ i - Len(p) \in 1..Len(q)
  BY <1>1 DEF r
<1>3. Ids(r) = Ids(p) \cup Ids(q)
  <2>1. Ids(r) \subseteq Ids(p) \cup Ids(q)
    <3> SUFFICES ASSUME NEW i \in 1..Len(r) PROVE r[i] \in Ids(p) \cup Ids(q)
      BY DEF Ids
    <3>1. CASE i \in 1..Len(p)
      BY <1>2, <3>1 DEF Ids
    <3>2. CASE i - Len(p) \in 1..Len(q)
      <4>1. r[i] = q[i - Len(p)]
        BY <1>1, <1>2, <3>2
      <4> QED
        BY <3>2, <4>1 DEF Ids
    <3> QED
      BY <1>2, <3>1, <3>2
  <2>2. Ids(p) \subseteq Ids(r) /\ Ids(q) \subseteq Ids(r)
    BY <1>2 DEF Ids
  <2> QED
    BY <2>1, <2>2
<1>4. ASSUME Distinct(p), Distinct(q), Ids(p) \cap Ids(q) = {} PROVE Distinct(r)
  <2> SUFFICES ASSUME NEW i \in 1..Len(r), NEW j \in 1..Len(r), r[i] = r[j], i < j PROVE FALSE
    BY <1>1 DEF Distinct, r
  <2>1. CASE i \in 1..Len(p) /\ j \in 1..Len(p)
    BY <1>2, <1>4, <2>1 DEF Distinct
  <2>2. CASE i \in 1..Len(p) /\ j - Len(p) \in 1..Len(q)
    <3>1. r[i] = p[i] /\ r[j] = q[j - Len(p)]
      BY <1>1, <1>2, <2>2
    <3>2. r[i] \in Ids(p) /\ r[j] \in Ids(q)
      BY <2>2, <3>1 DEF Ids
    <3> QED
      BY <1>4, <3>2
  <2>3. CASE i - Len(p) \in 1..Len(q) /\ j - Len(p) \in 1..Len(q)
    <3>1. r[i] = q[i - Len(p)] /\ r[j] = q[j - Len(p)]
      BY <1>1, <1>2, <2>3
    <3>2. i - Len(p) = j - Len(p)
      BY <1>4, <2>3, <3>1 DEF Distinct
    <3> QED
      BY <1>1, <3>2
  <2> QED
    BY <1>1, <1>2, <2>1, <2>2, <2>3
<1> QED
  BY <1>1, <1>3, <1>4 DEF r

(* Keeping the last n of a list never brings in an id, and drops none while *)
(* the list is no longer than n.                                            *)
LEMMA LastOfIds ==
  ASSUME NEW q \in Seq(Envelopes), NEW n \in Nat
  PROVE  /\ LastOf(q, n) \in Seq(Envelopes)
         /\ Ids(LastOf(q, n)) \subseteq Ids(q)
         /\ Len(q) <= n => LastOf(q, n) = q
<1>1. Len(q) \in Nat
  BY LenProperties
<1>2. CASE Len(q) <= n
  BY <1>2 DEF LastOf
<1>3. CASE ~(Len(q) <= n)
  <2> DEFINE m == Len(q) - n + 1
             r == SubSeq(q, m, Len(q))
  <2>1. m \in 1..(Len(q) + 1) /\ m \in Int
    BY <1>1, <1>3
  <2>2. /\ r \in Seq(Envelopes) /\ Len(r) = Len(q) - m + 1
        /\ \A i \in 1..(Len(q) - m + 1) : r[i] = q[m + i - 1]
    <3>1. m \in 1..(Len(q) + 1) /\ Len(q) \in m - 1 .. Len(q)
      BY <1>1, <2>1
    <3> HIDE DEF m
    <3> QED
      BY <3>1, SubSeqProperties
  <2>3. LastOf(q, n) = r
    BY <1>3 DEF LastOf
  <2> HIDE DEF r, m
  <2>4. \A i \in 1..Len(r) : m + i - 1 \in 1..Len(q) /\ r[i] = q[m + i - 1]
    BY <1>1, <2>1, <2>2
  <2>5. Ids(r) \subseteq Ids(q)
    BY <2>4 DEF Ids
  <2> QED
    BY <1>3, <2>2, <2>3, <2>5
<1> QED
  BY <1>2, <1>3

(* A list without repetition is no longer than there are envelopes.        *)
LEMMA DistinctIsShort ==
  ASSUME NEW q \in Seq(Envelopes), Distinct(q)
  PROVE  Len(q) <= Cardinality(Envelopes)
<1>1. Len(q) \in Nat /\ q \in [1..Len(q) -> Envelopes]
  BY LenProperties
<1>2. q \in Injection(1..Len(q), Envelopes)
  BY <1>1 DEF Distinct, Injection, IsInjective
<1>3. Cardinality(1..Len(q)) = Len(q)
  BY <1>1, FS_Interval
<1>4. Cardinality(1..Len(q)) <= Cardinality(Envelopes)
  BY <1>2, EnvelopeAssumption, FS_Injection
<1> QED
  BY <1>3, <1>4

----------------------------------------------------------------------------
(* The stores and the device.                                              *)

(* The types of the state a store reads and writes; a mailbox is finite    *)
(* and holds only envelopes somebody made.                                 *)
StoreTypes ==
  /\ created \in [Envelopes -> Nat \cup {NotSent}]
  /\ held \in [Stores -> SUBSET Envelopes]
  /\ usage \in [Stores -> Nat]
  /\ expiry \in [Stores -> SUBSET (Nat \X Envelopes)]
  /\ clock \in Nat
  /\ \A s \in Stores : \A e \in held[s] : created[e] # NotSent

StoreInv == StoreTypes /\ StoreBooks

LEMMA HeldIsFinite ==
  ASSUME StoreTypes, NEW s \in Stores
  PROVE  IsFiniteSet(held[s])
<1>1. IsFiniteSet(Envelopes)
  BY EnvelopeAssumption
<1>2. held[s] \in SUBSET Envelopes
  BY DEF StoreTypes
<1> QED
  BY <1>1, <1>2, FS_Subset

LEMMA StoreInit == Init => StoreInv
<1> SUFFICES ASSUME Init PROVE StoreInv
  OBVIOUS
<1>1. Cardinality({}) = 0
  BY FS_EmptySet
<1>2. StoreTypes
  BY DEF Init, StoreTypes
<1>3. StoreBooks
  BY <1>1, ConstantAssumption DEF Init, StoreBooks
<1> QED
  BY <1>2, <1>3 DEF StoreInv

(* A step that leaves the stores and the making of envelopes alone.        *)
LEMMA StoreFrame ==
  ASSUME StoreInv, UNCHANGED <<created, held, usage, expiry>>, clock' \in Nat
  PROVE  StoreInv'
BY DEF StoreInv, StoreTypes, StoreBooks, Expires

LEMMA SendKeepsBooks ==
  ASSUME StoreInv, NEW e \in Envelopes, Send(e)
  PROVE  StoreInv'
<1>1. /\ created[e] = NotSent
      /\ created' = [created EXCEPT ![e] = clock]
      /\ UNCHANGED <<clock, held, usage, expiry>>
  BY DEF Send, storeVars
<1>2. StoreTypes'
  BY <1>1 DEF StoreInv, StoreTypes
<1>3. ASSUME NEW s \in Stores, NEW f \in held[s]
      PROVE  f \in Envelopes /\ f # e /\ Expires(f)' = Expires(f)
  BY <1>1, <1>3 DEF StoreInv, StoreTypes, Expires
<1>4. StoreBooks'
  BY <1>1, <1>3 DEF StoreInv, StoreTypes, StoreBooks
<1> QED
  BY <1>2, <1>4 DEF StoreInv

(* A deposit adds one envelope, one unit of usage and one expiry entry.    *)
LEMMA PutKeepsBooks ==
  ASSUME StoreInv, NEW s \in Stores, NEW e \in Envelopes, Put(s, e)
  PROVE  StoreInv'
<1>1. /\ created[e] # NotSent /\ e \notin held[s] /\ usage[s] < MaxEnvelopes
      /\ held' = [held EXCEPT ![s] = @ \cup {e}]
      /\ usage' = [usage EXCEPT ![s] = @ + 1]
      /\ expiry' = [expiry EXCEPT ![s] = @ \cup {<<Expires(e), e>>}]
      /\ UNCHANGED <<clock, created>>
  BY DEF Put
<1>2. Expires(e) \in Nat
  BY <1>1, ConstantAssumption DEF StoreInv, StoreTypes, Expires
<1>3. <<Expires(e), e>> \in Nat \X Envelopes
  BY <1>2
<1>4. StoreTypes'
  <2>1. expiry' \in [Stores -> SUBSET (Nat \X Envelopes)]
    BY <1>1, <1>3 DEF StoreInv, StoreTypes
  <2>2. held' \in [Stores -> SUBSET Envelopes] /\ usage' \in [Stores -> Nat]
    BY <1>1 DEF StoreInv, StoreTypes
  <2>3. \A t \in Stores : \A f \in held'[t] : created'[f] # NotSent
    BY <1>1 DEF StoreInv, StoreTypes
  <2> QED
    BY <1>1, <2>1, <2>2, <2>3 DEF StoreInv, StoreTypes
<1>5. ASSUME NEW t \in Stores
      PROVE  /\ usage'[t] = Cardinality(held'[t])
             /\ usage'[t] <= MaxEnvelopes
             /\ \A f \in held'[t] : <<Expires(f), f>> \in expiry'[t]
  <2>1. CASE t = s
    <3>1. held'[s] = held[s] \cup {e} /\ usage'[s] = usage[s] + 1
          /\ expiry'[s] = expiry[s] \cup {<<Expires(e), e>>}
      BY <1>1 DEF StoreInv, StoreTypes
    <3>2. Cardinality(held[s] \cup {e}) = Cardinality(held[s]) + 1
      BY <1>1, HeldIsFinite, FS_AddElement DEF StoreInv
    <3>3. usage[s] = Cardinality(held[s]) /\ usage[s] \in Nat
          /\ \A f \in held[s] : <<Expires(f), f>> \in expiry[s]
      BY DEF StoreInv, StoreTypes, StoreBooks
    <3>4. usage[s] + 1 <= MaxEnvelopes
      BY <1>1, <3>3, ConstantAssumption
    <3>5. \A f \in held[s] \cup {e} : <<Expires(f), f>> \in expiry[s] \cup {<<Expires(e), e>>}
      BY <3>3
    <3> QED
      BY <2>1, <3>1, <3>2, <3>3, <3>4, <3>5
  <2>2. CASE t # s
    <3>1. held'[t] = held[t] /\ usage'[t] = usage[t] /\ expiry'[t] = expiry[t]
      BY <1>1, <2>2 DEF StoreInv, StoreTypes
    <3> QED
      BY <3>1 DEF StoreInv, StoreBooks
  <2> QED
    BY <2>1, <2>2
<1>6. \A f : Expires(f)' = Expires(f)
  BY <1>1 DEF Expires
<1>7. StoreBooks'
  BY <1>5, <1>6 DEF StoreBooks
<1> QED
  BY <1>4, <1>7 DEF StoreInv

(* What Remove does to one store's numbers: it gives back exactly as much   *)
(* as it takes out, also when some of the ids are no longer there.          *)
LEMMA RemoveIsExact ==
  ASSUME StoreInv, NEW s, NEW es, Remove(s, es), NEW t \in Stores
  PROVE  /\ usage'[t] = Cardinality(held'[t]) /\ usage'[t] \in Nat
         /\ usage'[t] <= usage[t]
         /\ held'[t] \subseteq held[t]
         /\ t # s => held'[t] = held[t]
         /\ t = s => held'[t] = held[t] \ es
<1> DEFINE gone == held[s] \cap es
<1>1. /\ held' = [held EXCEPT ![s] = @ \ gone]
      /\ usage' = [usage EXCEPT ![s] = IF Cardinality(gone) > @ THEN 0 ELSE @ - Cardinality(gone)]
  BY DEF Remove
<1>2. usage[t] = Cardinality(held[t]) /\ usage[t] \in Nat
  BY DEF StoreInv, StoreTypes, StoreBooks
<1>3. CASE t = s
  <2>1. IsFiniteSet(held[s])
    BY <1>3, HeldIsFinite DEF StoreInv
  <2>2. IsFiniteSet(gone) /\ Cardinality(gone) <= Cardinality(held[s])
    BY <2>1, FS_Intersection
  <2>3. Cardinality(gone) \in Nat
    BY <2>2, FS_CardinalityType
  <2>4. Cardinality(held[s] \ es) = Cardinality(held[s]) - Cardinality(gone)
    BY <2>1, FS_Difference
  <2>5. held'[t] = held[s] \ gone
    BY <1>1, <1>3 DEF StoreInv, StoreTypes
  <2>6. held'[t] = held[s] \ es
    BY <2>5
  <2>7. usage'[t] = IF Cardinality(gone) > usage[s] THEN 0 ELSE usage[s] - Cardinality(gone)
    BY <1>1, <1>3 DEF StoreInv, StoreTypes
  <2> HIDE DEF gone
  <2>8. usage'[t] = usage[s] - Cardinality(gone)
    BY <1>2, <1>3, <2>2, <2>3, <2>7
  <2>9. usage'[t] \in Nat /\ usage'[t] <= usage[t]
    BY <1>2, <1>3, <2>2, <2>3, <2>8
  <2> QED
    BY <1>2, <1>3, <2>4, <2>6, <2>8, <2>9
<1>4. CASE t # s
  <2>1. held'[t] = held[t] /\ usage'[t] = usage[t]
    BY <1>1, <1>4 DEF StoreInv, StoreTypes
  <2> QED
    BY <1>2, <1>4, <2>1
<1> QED
  BY <1>3, <1>4

(* Taking envelopes out keeps the books, if every expiry entry that goes is *)
(* the entry of an envelope that goes.                                      *)
LEMMA RemoveKeepsBooks ==
  ASSUME StoreInv, NEW s, NEW es, Remove(s, es), UNCHANGED <<clock, created>>,
         expiry' \in [Stores -> SUBSET (Nat \X Envelopes)],
         \A t \in Stores : \A x \in expiry[t] \ expiry'[t] : t = s /\ x[2] \in es
  PROVE  StoreInv'
<1>1. \A t \in Stores : /\ usage'[t] = Cardinality(held'[t]) /\ usage'[t] \in Nat
                        /\ usage'[t] <= usage[t]
                        /\ held'[t] \subseteq held[t]
                        /\ t = s => held'[t] = held[t] \ es
  BY RemoveIsExact
<1>2. DOMAIN held' = Stores /\ DOMAIN usage' = Stores
  BY DEF Remove, StoreInv, StoreTypes
<1>3. StoreTypes'
  <2>1. held' \in [Stores -> SUBSET Envelopes]
    BY <1>1 DEF Remove, StoreInv, StoreTypes
  <2>2. usage' \in [Stores -> Nat]
    <3>1. usage' = [t \in Stores |-> usage'[t]]
      BY DEF Remove, StoreInv, StoreTypes
    <3> QED
      BY <1>1, <3>1
  <2>3. \A t \in Stores : \A e \in held'[t] : created'[e] # NotSent
    BY <1>1 DEF StoreInv, StoreTypes
  <2> QED
    BY <2>1, <2>2, <2>3 DEF StoreInv, StoreTypes
<1>4. ASSUME NEW t \in Stores, NEW e \in held'[t]
      PROVE  <<Expires(e), e>>' \in expiry'[t]
  <2>1. <<Expires(e), e>>' = <<Expires(e), e>>
    BY DEF Expires
  <2>2. <<Expires(e), e>> \in expiry[t]
    BY <1>1, <1>4 DEF StoreInv, StoreBooks
  <2>3. ~(t = s /\ <<Expires(e), e>>[2] \in es)
    BY <1>1, <1>4
  <2> QED
    BY <2>1, <2>2, <2>3
<1>5. ASSUME NEW t \in Stores
      PROVE  usage'[t] <= MaxEnvelopes
  <2>1. usage[t] <= MaxEnvelopes /\ usage[t] \in Nat
    BY DEF StoreInv, StoreTypes, StoreBooks
  <2> QED
    BY <1>1, <2>1, ConstantAssumption
<1>6. StoreBooks'
  BY <1>1, <1>4, <1>5 DEF StoreBooks
<1> QED
  BY <1>3, <1>6 DEF StoreInv

LEMMA SweepKeepsBooks ==
  ASSUME StoreInv, NEW s \in Stores, Sweep(s)
  PROVE  StoreInv'
<1> DEFINE due == {x \in expiry[s] : x[1] <= clock}
           es == {x[2] : x \in due}
<1>1. Remove(s, es) /\ expiry' = [expiry EXCEPT ![s] = @ \ due]
      /\ UNCHANGED <<clock, created>>
  BY DEF Sweep
<1>2. expiry' \in [Stores -> SUBSET (Nat \X Envelopes)]
  BY <1>1 DEF StoreInv, StoreTypes
<1>3. ASSUME NEW t \in Stores, NEW x \in expiry[t] \ expiry'[t]
      PROVE  t = s /\ x[2] \in es
  <2>1. t = s
    BY <1>1, <1>3 DEF StoreInv, StoreTypes
  <2>2. x \in due
    BY <1>1, <1>3, <2>1 DEF StoreInv, StoreTypes
  <2> QED
    BY <2>1, <2>2
<1> HIDE DEF due, es
<1> QED
  BY <1>1, <1>2, <1>3, RemoveKeepsBooks

LEMMA AckKeepsBooks ==
  ASSUME StoreInv, Ack
  PROVE  StoreInv'
<1>1. Remove(at, acking) /\ UNCHANGED <<clock, created, expiry>>
  BY DEF Ack
<1>2. expiry' \in [Stores -> SUBSET (Nat \X Envelopes)]
  BY <1>1 DEF StoreInv, StoreTypes
<1>3. \A t \in Stores : \A x \in expiry[t] \ expiry'[t] : t = at /\ x[2] \in acking
  BY <1>1
<1> QED
  BY <1>1, <1>2, <1>3, RemoveKeepsBooks

(* Steps of the device and of the clock.                                   *)
Elsewhere ==
  \/ Tick \/ StartRound \/ (\E s \in Stores : AskStore(s))
  \/ FetchPage \/ FetchNothing \/ FetchFails \/ AckLost
  \/ Dispatch \/ Save \/ SaveFails \/ StoreChat \/ Crash \/ UNCHANGED vars

LEMMA ElsewhereKeepsBooks ==
  ASSUME StoreInv, Elsewhere
  PROVE  StoreInv'
<1>1. clock \in Nat
  BY DEF StoreInv, StoreTypes
<1>2. UNCHANGED <<created, held, usage, expiry>>
  BY DEF Elsewhere, Tick, StartRound, AskStore, FetchPage, FetchNothing, FetchFails,
         AckLost, Dispatch, Save, SaveFails, StoreChat, Crash, vars, storeVars
<1>3. clock' \in Nat
  BY <1>1 DEF Elsewhere, Tick, StartRound, AskStore, FetchPage, FetchNothing, FetchFails,
         AckLost, Dispatch, Save, SaveFails, StoreChat, Crash, vars
<1> QED
  BY <1>2, <1>3, StoreFrame

LEMMA StoreStep == StoreInv /\ [Next]_vars => StoreInv'
<1> SUFFICES ASSUME StoreInv, [Next]_vars PROVE StoreInv'
  OBVIOUS
<1>1. CASE \E e \in Envelopes : Send(e)
  BY <1>1, SendKeepsBooks
<1>2. CASE \E s \in Stores, e \in Envelopes : Put(s, e)
  BY <1>2, PutKeepsBooks
<1>3. CASE \E s \in Stores : Sweep(s)
  BY <1>3, SweepKeepsBooks
<1>4. CASE Ack
  BY <1>4, AckKeepsBooks
<1>5. CASE Elsewhere
  BY <1>5, ElsewhereKeepsBooks
<1> QED
  BY <1>1, <1>2, <1>3, <1>4, <1>5 DEF Next, Sync, Elsewhere

(* At every store, always: usage is what is held, within the quota, and    *)
(* whatever is held will be swept when it expires, although acknowledging  *)
(* leaves expiry entries behind.  (mailbox.rs put, ack, sweep)             *)
THEOREM StoresKeepTheirBooks == Spec => []StoreBooks
<1>1. StoreInv => StoreBooks
  BY DEF StoreInv
<1> QED
  BY <1>1, StoreInit, StoreStep, PTL DEF Spec

----------------------------------------------------------------------------
(* The device's state has the fields the code gives it, and its lists name *)
(* envelopes; a page is only asked of a store.                             *)
DeviceTypes ==
  /\ DOMAIN mem = {"cursors", "seen", "failed", "mls"}
  /\ mem.seen \in Seq(Envelopes) /\ mem.mls \subseteq Envelopes
  /\ DOMAIN vault = {"cursors", "seen", "failed", "mls"}
  /\ vault.seen \in Seq(Envelopes) /\ vault.mls \subseteq Envelopes
  /\ pc \in {"fetch", "ack"} => at \in Stores

(* What one page does: everything it acknowledges or marks as seen was     *)
(* seen before, is processed now, or is given up now; and while seen can   *)
(* hold every envelope, no id falls out of it or enters it twice.          *)
LEMMA PageEffect ==
  ASSUME created \in [Envelopes -> Int], DeviceTypes,
         NEW page \in SUBSET Envelopes, NEW r, r = Processed(page)
  PROVE  /\ DOMAIN r.mem = {"cursors", "seen", "failed", "mls"}
         /\ r.mem.seen \in Seq(Envelopes) /\ r.mem.mls \subseteq Envelopes
         /\ mem.mls \subseteq r.mem.mls
         /\ r.read = (r.mem.mls \ mem.mls) \cap Messages
         /\ SeenSet(r.mem) \subseteq SeenSet(mem) \cup (r.mem.mls \ mem.mls) \cup r.given
         /\ r.ack \subseteq SeenSet(mem) \cup (r.mem.mls \ mem.mls) \cup r.given
         /\ Distinct(mem.seen) /\ Cardinality(Envelopes) <= SeenCap =>
              /\ Distinct(r.mem.seen)
              /\ SeenSet(mem) \cup (r.mem.mls \ mem.mls) \subseteq SeenSet(r.mem)
<1> DEFINE fresh == page \ SeenSet(mem)
           q == InOrder(fresh)
           first == Pass(q, mem.mls)
           second == Pass(q, first)
           bad == fresh \ (second \ mem.mls)
           given == {e \in bad : mem.failed[e] + 1 >= FailedAttemptsCap}
           a == first \ mem.mls
           b == given \cup (second \ first)
           marked == InOrder(a) \o InOrder(b)
           seen == LastOf(mem.seen \o marked, SeenCap)
<1>1. q \in Seq(Envelopes) /\ Ids(q) = fresh /\ Len(q) \in Nat
  BY InOrderIds, LenProperties
<1>2. mem.mls \subseteq first /\ first \ mem.mls \subseteq fresh
  <2> HIDE DEF q, fresh
  <2> QED
    BY <1>1, PassBounds DEF Ids
<1>3. first \subseteq second /\ second \ first \subseteq fresh
  <2> HIDE DEF q, fresh, first
  <2> QED
    BY <1>1, PassBounds DEF Ids
<1>4. /\ r.mem.mls = second /\ r.mem.seen = seen
      /\ DOMAIN r.mem = {"cursors", "seen", "failed", "mls"}
      /\ r.read = (second \ mem.mls) \cap Messages
      /\ r.given = given
      /\ r.ack = page \ (bad \ given)
  BY DEF Processed, DeviceTypes
<1>5. given \subseteq bad /\ bad \subseteq fresh
  OBVIOUS
<1> HIDE DEF q, first, second, given
<1>6. a \subseteq fresh /\ b \subseteq fresh /\ a \cap b = {} /\ a \cup b = (second \ mem.mls) \cup given
  BY <1>2, <1>3, <1>5
<1>7. fresh \subseteq Envelopes /\ a \in SUBSET Envelopes /\ b \in SUBSET Envelopes
  BY <1>6
<1> HIDE DEF a, b
<1>8. marked \in Seq(Envelopes) /\ Ids(marked) = a \cup b /\ Distinct(marked)
  <2>1. /\ InOrder(a) \in Seq(Envelopes) /\ Ids(InOrder(a)) = a /\ Distinct(InOrder(a))
        /\ InOrder(b) \in Seq(Envelopes) /\ Ids(InOrder(b)) = b /\ Distinct(InOrder(b))
    BY <1>7, InOrderIds
  <2> QED
    BY <1>6, <2>1, ConcatIds
<1> HIDE DEF marked
<1>9. SeenSet(mem) = Ids(mem.seen) /\ SeenSet(r.mem) = Ids(seen)
  BY <1>4 DEF SeenSet, Ids
<1>10. /\ mem.seen \o marked \in Seq(Envelopes)
       /\ Ids(mem.seen \o marked) = SeenSet(mem) \cup a \cup b
       /\ Distinct(mem.seen) => Distinct(mem.seen \o marked)
  <2>1. mem.seen \in Seq(Envelopes) /\ Ids(mem.seen) \cap Ids(marked) = {}
    BY <1>6, <1>8, <1>9 DEF DeviceTypes
  <2> QED
    BY <1>8, <1>9, <2>1, ConcatIds
<1>11. /\ seen \in Seq(Envelopes) /\ Ids(seen) \subseteq Ids(mem.seen \o marked)
       /\ Len(mem.seen \o marked) <= SeenCap => seen = mem.seen \o marked
  BY <1>10, LastOfIds, ConstantAssumption
<1>12. Distinct(mem.seen) /\ Cardinality(Envelopes) <= SeenCap => seen = mem.seen \o marked
  <2> SUFFICES ASSUME Distinct(mem.seen), Cardinality(Envelopes) <= SeenCap
               PROVE  Len(mem.seen \o marked) <= SeenCap
    BY <1>11
  <2>1. Len(mem.seen \o marked) <= Cardinality(Envelopes)
    BY <1>10, DistinctIsShort
  <2>2. Len(mem.seen \o marked) \in Nat /\ Cardinality(Envelopes) \in Nat
    BY <1>10, LenProperties, EnvelopeAssumption, FS_CardinalityType
  <2> QED
    BY <2>1, <2>2, ConstantAssumption
<1> HIDE DEF seen
<1>13. r.ack \subseteq SeenSet(mem) \cup (second \ mem.mls) \cup given
  BY <1>4
<1>14. second \subseteq Envelopes /\ mem.mls \subseteq second
  BY <1>2, <1>3, <1>7 DEF DeviceTypes
<1> HIDE DEF fresh, bad
<1>15. SeenSet(r.mem) \subseteq SeenSet(mem) \cup (r.mem.mls \ mem.mls) \cup r.given
  BY <1>4, <1>6, <1>9, <1>10, <1>11
<1>16. ASSUME Distinct(mem.seen), Cardinality(Envelopes) <= SeenCap
       PROVE  /\ Distinct(r.mem.seen)
              /\ SeenSet(mem) \cup (r.mem.mls \ mem.mls) \subseteq SeenSet(r.mem)
  <2>1. Distinct(seen) /\ Ids(seen) = SeenSet(mem) \cup a \cup b
    BY <1>10, <1>12, <1>16
  <2> QED
    BY <1>4, <1>6, <1>9, <2>1
<1> QED
  BY <1>4, <1>11, <1>13, <1>14, <1>15, <1>16

----------------------------------------------------------------------------
(* What the device need not see again: it is kept, given up, or was lost   *)
(* in a crash or a failed save and is recorded in exposed.                 *)
Handled(e) == Kept(e) \/ e \in gaveUp \/ e \in exposed

(* The same, of the state a crash goes back to.                            *)
HandledWhenSaved(e) ==
  e \in inbox \cup report \cup gaveUp \cup exposed \/ (e \notin Messages /\ e \in vault.mls)

(* Decrypted messages wait in out during a round, chat lines in report     *)
(* from its end to the session's save, and none of them is in the vault    *)
(* before that.                                                            *)
RoundShape ==
  /\ vault.mls \subseteq mem.mls
  /\ out \subseteq Messages \cap (mem.mls \ vault.mls)
  /\ out # {} => pc \in {"peers", "fetch", "ack"}
  /\ report # {} => pc \in {"save", "store"}

(* What stores accepted was made, and expires when its entry says.         *)
DepositsAreSent ==
  /\ \A e \in accepted : e \in Envelopes /\ created[e] # NotSent
  /\ \A s \in Stores : \A x \in expiry[s] : created[x[2]] # NotSent /\ x[1] = Expires(x[2])

(* An id is marked as seen, or acknowledged, only when it is handled, the  *)
(* vault's only when that survives a crash; so an envelope that no store   *)
(* holds any more is handled or has expired.                               *)
NothingDropped ==
  /\ \A e \in SeenSet(mem) \cup acking : Handled(e)
  /\ \A e \in SeenSet(vault) : HandledWhenSaved(e)
  /\ \A e \in accepted :
       Expires(e) > clock /\ (\A s \in Stores : e \notin held[s]) => Handled(e)

DeliveryInv == StoreInv /\ DeviceTypes /\ RoundShape /\ DepositsAreSent /\ NothingDropped

LEMMA DeliveryInit == Init => DeliveryInv
<1> SUFFICES ASSUME Init PROVE DeliveryInv
  OBVIOUS
<1>1. << >> \in Seq(Envelopes) /\ Len(<< >>) = 0
  OBVIOUS
<1>2. /\ mem.seen = << >> /\ vault.seen = << >> /\ mem.mls = {} /\ vault.mls = {}
      /\ DOMAIN mem = {"cursors", "seen", "failed", "mls"}
      /\ DOMAIN vault = {"cursors", "seen", "failed", "mls"}
  BY DEF Init, NewDevice
<1>3. SeenSet(mem) = {} /\ SeenSet(vault) = {}
  BY <1>1, <1>2 DEF SeenSet
<1>4. DeviceTypes
  BY <1>1, <1>2 DEF Init, DeviceTypes
<1>5. RoundShape
  BY <1>2 DEF Init, RoundShape
<1>6. DepositsAreSent
  BY DEF Init, DepositsAreSent
<1>7. NothingDropped
  BY <1>3 DEF Init, NothingDropped
<1> QED
  BY <1>4, <1>5, <1>6, <1>7, StoreInit DEF DeliveryInv

(* What is handled stays handled while nothing the device keeps is dropped.*)
LEMMA HandledStays ==
  ASSUME mem.mls \subseteq mem'.mls,
         inbox \cup out \cup report \cup gaveUp \cup exposed
           \subseteq inbox' \cup out' \cup report' \cup gaveUp' \cup exposed'
  PROVE  \A e : Handled(e) => Handled(e)'
BY DEF Handled, Kept

LEMMA LeaveStoreKeeps ==
  ASSUME DeviceTypes, NEW c, LeaveStore(c)
  PROVE  /\ DOMAIN mem' = DOMAIN mem /\ mem'.mls = mem.mls /\ mem'.seen = mem.seen
         /\ pc' = "peers" /\ acking' = {}
BY DEF LeaveStore, DeviceTypes

LEMMA ContinueKeeps ==
  ASSUME DeviceTypes, pc = "ack", Continue
  PROVE  /\ DOMAIN mem' = DOMAIN mem /\ mem'.mls = mem.mls /\ mem'.seen = mem.seen
         /\ pc' \in {"peers", "fetch"} /\ acking' = {}
         /\ pc' = "fetch" => at' \in Stores
<1>1. CASE next = 0
  BY <1>1, LeaveStoreKeeps DEF Continue
<1>2. CASE next # 0
  BY <1>2 DEF Continue, DeviceTypes
<1> QED
  BY <1>1, <1>2

----------------------------------------------------------------------------
(* Steps that leave the stores alone: what is handled stays so.            *)
LEMMA DeviceFrame ==
  ASSUME DepositsAreSent, NothingDropped,
         UNCHANGED <<clock, created, held, expiry, accepted>>,
         \A e : Handled(e) => Handled(e)',
         \A e \in SeenSet(mem)' \cup acking' : Handled(e)',
         \A e \in SeenSet(vault)' : HandledWhenSaved(e)'
  PROVE  DepositsAreSent' /\ NothingDropped'
<1>1. \A e : Expires(e)' = Expires(e)
  BY DEF Expires
<1>2. DepositsAreSent'
  BY <1>1 DEF DepositsAreSent
<1>3. NothingDropped'
  BY <1>1 DEF NothingDropped
<1> QED
  BY <1>2, <1>3

(* Steps that leave alone what the device has processed and kept.          *)
Quiet ==
  \/ StartRound \/ (\E s \in Stores : AskStore(s)) \/ FetchNothing \/ FetchFails \/ AckLost

LEMMA QuietSteps ==
  ASSUME DeliveryInv, Quiet
  PROVE  DeviceTypes' /\ RoundShape' /\ DepositsAreSent' /\ NothingDropped'
<1>1. /\ UNCHANGED <<clock, created, held, expiry, accepted>>
      /\ UNCHANGED <<vault, out, report, inbox, gaveUp, exposed>>
  BY DEF Quiet, StartRound, AskStore, FetchNothing, FetchFails, AckLost, storeVars, appVars
<1>2. /\ DOMAIN mem' = DOMAIN mem /\ mem'.mls = mem.mls /\ mem'.seen = mem.seen
      /\ acking' \subseteq acking
      /\ pc \in {"idle", "peers", "fetch", "ack"} /\ pc' \in {"peers", "fetch"}
      /\ pc = "idle" => out = {}
      /\ pc' = "fetch" => at' \in Stores
  <2>1. DeviceTypes /\ (pc = "idle" => out = {})
    BY DEF DeliveryInv, RoundShape
  <2>2. CASE StartRound
    BY <2>1, <2>2 DEF StartRound
  <2>3. CASE \E s \in Stores : AskStore(s)
    BY <2>1, <2>3 DEF AskStore
  <2>4. CASE FetchNothing
    BY <2>1, <2>4, LeaveStoreKeeps DEF FetchNothing
  <2>5. CASE FetchFails
    BY <2>1, <2>5, LeaveStoreKeeps DEF FetchFails
  <2>6. CASE AckLost
    BY <2>1, <2>6, ContinueKeeps DEF AckLost
  <2> QED
    BY <2>2, <2>3, <2>4, <2>5, <2>6 DEF Quiet
<1>3. DeviceTypes'
  BY <1>1, <1>2 DEF DeliveryInv, DeviceTypes
<1>4. RoundShape'
  BY <1>1, <1>2 DEF DeliveryInv, RoundShape, Messages
<1>5. SeenSet(mem)' = SeenSet(mem) /\ SeenSet(vault)' = SeenSet(vault)
  BY <1>1, <1>2 DEF SeenSet
<1>6. \A e : Handled(e) => Handled(e)'
  BY <1>1, <1>2, HandledStays
<1>7. \A e \in SeenSet(mem)' \cup acking' : Handled(e)'
  BY <1>2, <1>5, <1>6 DEF DeliveryInv, NothingDropped
<1>8. \A e \in SeenSet(vault)' : HandledWhenSaved(e)'
  BY <1>1, <1>5 DEF DeliveryInv, NothingDropped, HandledWhenSaved
<1> QED
  BY <1>1, <1>3, <1>4, <1>6, <1>7, <1>8, DeviceFrame DEF DeliveryInv

(* A page's messages go to out, and what it marks or acknowledges is       *)
(* handled.                                                                *)
LEMMA FetchPageStep ==
  ASSUME DeliveryInv, FetchPage
  PROVE  DeviceTypes' /\ RoundShape' /\ DepositsAreSent' /\ NothingDropped'
<1> DEFINE page == Page(at, cursor)
           r == Processed(page)
<1>1. /\ pc = "fetch" /\ pc' = "ack"
      /\ mem' = r.mem /\ out' = out \cup r.read /\ gaveUp' = gaveUp \cup r.given
      /\ acking' = r.ack
      /\ UNCHANGED <<clock, created, held, expiry, accepted, vault, report, inbox, exposed, at>>
  BY DEF FetchPage, storeVars
<1>2. created \in [Envelopes -> Int] /\ page \in SUBSET Envelopes
  <2>1. at \in Stores
    BY <1>1 DEF DeliveryInv, DeviceTypes
  <2>2. created \in [Envelopes -> Int]
    BY DEF DeliveryInv, StoreInv, StoreTypes, NotSent
  <2>3. held[at] \in SUBSET Envelopes
    BY <2>1 DEF DeliveryInv, StoreInv, StoreTypes
  <2>4. page \subseteq held[at]
    BY DEF Page, After
  <2> QED
    BY <2>2, <2>3, <2>4
<1>3. /\ DOMAIN r.mem = {"cursors", "seen", "failed", "mls"}
      /\ r.mem.seen \in Seq(Envelopes) /\ r.mem.mls \subseteq Envelopes
      /\ mem.mls \subseteq r.mem.mls
      /\ r.read = (r.mem.mls \ mem.mls) \cap Messages
      /\ SeenSet(r.mem) \subseteq SeenSet(mem) \cup (r.mem.mls \ mem.mls) \cup r.given
      /\ r.ack \subseteq SeenSet(mem) \cup (r.mem.mls \ mem.mls) \cup r.given
  <2> HIDE DEF page, r
  <2>1. DeviceTypes
    BY DEF DeliveryInv
  <2> QED
    BY <1>2, <2>1, PageEffect DEF r
<1> HIDE DEF page, r
<1>4. DeviceTypes'
  BY <1>1, <1>3 DEF DeliveryInv, DeviceTypes
<1>5. RoundShape'
  <2>1. Messages' = Messages
    BY DEF Messages
  <2>2. vault'.mls = vault.mls /\ mem'.mls = r.mem.mls
    BY <1>1
  <2> QED
    BY <1>1, <1>3, <2>1, <2>2 DEF DeliveryInv, RoundShape
<1>6. \A e : Handled(e) => Handled(e)'
  BY <1>1, <1>3, HandledStays
<1>7. ASSUME NEW e, e \in (r.mem.mls \ mem.mls) \cup r.given
      PROVE  Handled(e)'
  <2>1. CASE e \in r.given
    BY <1>1, <2>1 DEF Handled
  <2>2. CASE e \in r.mem.mls \ mem.mls
    <3>1. e \in mem'.mls /\ (e \in Messages => e \in out')
      BY <1>1, <1>3, <2>2
    <3> QED
      BY <3>1 DEF Handled, Kept, Messages
  <2> QED
    BY <1>7, <2>1, <2>2
<1>8. \A e \in SeenSet(mem) : Handled(e)'
  BY <1>6 DEF DeliveryInv, NothingDropped
<1>9. SeenSet(mem)' = SeenSet(r.mem)
  BY <1>1 DEF SeenSet
<1>10. \A e \in SeenSet(mem)' \cup acking' : Handled(e)'
  BY <1>1, <1>3, <1>7, <1>8, <1>9
<1>11. \A e \in SeenSet(vault)' : HandledWhenSaved(e)'
  <2>1. SeenSet(vault)' = SeenSet(vault)
    BY <1>1 DEF SeenSet
  <2> QED
    BY <1>1, <2>1 DEF DeliveryInv, NothingDropped, HandledWhenSaved
<1> QED
  BY <1>1, <1>4, <1>5, <1>6, <1>10, <1>11, DeviceFrame DEF DeliveryInv

(* At the end of a round a mail is stored and a chat line put in the       *)
(* report.                                                                 *)
LEMMA DispatchStep ==
  ASSUME DeliveryInv, Dispatch
  PROVE  DeviceTypes' /\ RoundShape' /\ DepositsAreSent' /\ NothingDropped'
<1>1. /\ pc = "peers" /\ pc' = "save"
      /\ inbox' = inbox \cup {e \in out : Kind[e] = "mail"}
      /\ report' = {e \in out : Kind[e] = "chat"}
      /\ out' = {}
      /\ UNCHANGED <<clock, created, held, expiry, accepted, mem, vault, acking, gaveUp, exposed>>
  BY DEF Dispatch, storeVars
<1>2. report = {} /\ out \subseteq Messages
  BY <1>1 DEF DeliveryInv, RoundShape
<1>3. out \subseteq inbox' \cup report'
  BY <1>1, <1>2 DEF Messages
<1>4. SeenSet(mem)' = SeenSet(mem) /\ SeenSet(vault)' = SeenSet(vault)
  BY <1>1 DEF SeenSet
<1>5. DeviceTypes'
  BY <1>1 DEF DeliveryInv, DeviceTypes
<1>6. RoundShape'
  BY <1>1 DEF DeliveryInv, RoundShape
<1>7. \A e : Handled(e) => Handled(e)'
  BY <1>1, <1>2, <1>3, HandledStays
<1>8. \A e \in SeenSet(mem)' \cup acking' : Handled(e)'
  BY <1>1, <1>4, <1>7 DEF DeliveryInv, NothingDropped
<1>9. \A e \in SeenSet(vault)' : HandledWhenSaved(e)'
  BY <1>1, <1>2, <1>4 DEF DeliveryInv, NothingDropped, HandledWhenSaved
<1> QED
  BY <1>1, <1>5, <1>6, <1>7, <1>8, <1>9, DeviceFrame DEF DeliveryInv

(* With out empty, what is handled survives a crash after the vault is     *)
(* written.                                                                *)
LEMMA HandledCanBeSaved ==
  ASSUME DeliveryInv, out = {}
  PROVE  \A e \in SeenSet(mem) :
           e \in inbox \cup report \cup gaveUp \cup exposed \/ (e \notin Messages /\ e \in mem.mls)
BY DEF DeliveryInv, NothingDropped, Handled, Kept

(* The two saves: the vault becomes what the device has, or stays; a save  *)
(* that fails drops the report.                                            *)
LEMMA SaveStep ==
  ASSUME DeliveryInv, Save \/ SaveFails
  PROVE  DeviceTypes' /\ RoundShape' /\ DepositsAreSent' /\ NothingDropped'
<1>1. /\ pc = "save" /\ pc' = "store"
      /\ vault' = vault \/ vault' = mem
      /\ report' \subseteq report /\ report \subseteq report' \cup inbox' \cup exposed'
      /\ exposed \subseteq exposed'
      /\ UNCHANGED <<clock, created, held, expiry, accepted, mem, acking, out, inbox, gaveUp>>
  BY DEF Save, SaveFails, storeVars, appVars
<1>2. out = {}
  BY <1>1 DEF DeliveryInv, RoundShape
<1>3. DeviceTypes'
  BY <1>1 DEF DeliveryInv, DeviceTypes
<1>4. RoundShape'
  BY <1>1, <1>2 DEF DeliveryInv, RoundShape
<1>5. SeenSet(mem)' = SeenSet(mem)
  BY <1>1 DEF SeenSet
<1>6. \A e : Handled(e) => Handled(e)'
  BY <1>1, HandledStays
<1>7. \A e \in SeenSet(mem)' \cup acking' : Handled(e)'
  BY <1>1, <1>5, <1>6 DEF DeliveryInv, NothingDropped
<1>8. \A e \in SeenSet(vault)' : HandledWhenSaved(e)'
  <2>1. inbox \cup report \cup gaveUp \cup exposed \subseteq inbox' \cup report' \cup gaveUp' \cup exposed'
    BY <1>1
  <2>2. Messages' = Messages
    BY DEF Messages
  <2>3. CASE vault' = vault
    <3>1. SeenSet(vault)' = SeenSet(vault)
      BY <2>3 DEF SeenSet
    <3> QED
      BY <2>1, <2>2, <2>3, <3>1 DEF DeliveryInv, NothingDropped, HandledWhenSaved
  <2>4. CASE vault' = mem
    <3>1. SeenSet(vault)' = SeenSet(mem)
      BY <2>4 DEF SeenSet
    <3> QED
      BY <1>2, <2>1, <2>2, <2>4, <3>1, HandledCanBeSaved DEF HandledWhenSaved
  <2> QED
    BY <1>1, <2>3, <2>4
<1> QED
  BY <1>1, <1>3, <1>4, <1>6, <1>7, <1>8, DeviceFrame DEF DeliveryInv

LEMMA StoreChatStep ==
  ASSUME DeliveryInv, StoreChat
  PROVE  DeviceTypes' /\ RoundShape' /\ DepositsAreSent' /\ NothingDropped'
<1>1. /\ pc = "store" /\ pc' = "idle"
      /\ inbox' = inbox \cup report /\ report' = {}
      /\ UNCHANGED <<clock, created, held, expiry, accepted, mem, vault, acking, out, gaveUp, exposed>>
  BY DEF StoreChat, storeVars
<1>2. SeenSet(mem)' = SeenSet(mem) /\ SeenSet(vault)' = SeenSet(vault)
  BY <1>1 DEF SeenSet
<1>3. DeviceTypes'
  BY <1>1 DEF DeliveryInv, DeviceTypes
<1>4. RoundShape'
  BY <1>1 DEF DeliveryInv, RoundShape
<1>5. \A e : Handled(e) => Handled(e)'
  BY <1>1, HandledStays
<1>6. \A e \in SeenSet(mem)' \cup acking' : Handled(e)'
  BY <1>1, <1>2, <1>5 DEF DeliveryInv, NothingDropped
<1>7. \A e \in SeenSet(vault)' : HandledWhenSaved(e)'
  BY <1>1, <1>2 DEF DeliveryInv, NothingDropped, HandledWhenSaved
<1> QED
  BY <1>1, <1>3, <1>4, <1>5, <1>6, <1>7, DeviceFrame DEF DeliveryInv

(* A crash forgets what is not in the vault, and exposed records it: what  *)
(* MLS had processed since, messages still in out among it, and the report.*)
LEMMA CrashStep ==
  ASSUME DeliveryInv, Crash
  PROVE  DeviceTypes' /\ RoundShape' /\ DepositsAreSent' /\ NothingDropped'
<1>1. /\ mem' = vault
      /\ exposed' = exposed \cup (((mem.mls \ vault.mls) \cup report) \ inbox)
      /\ out' = {} /\ report' = {} /\ pc' = "idle" /\ acking' = {}
      /\ UNCHANGED <<clock, created, held, expiry, accepted, vault, inbox, gaveUp>>
  BY DEF Crash, storeVars
<1>2. SeenSet(mem)' = SeenSet(vault) /\ SeenSet(vault)' = SeenSet(vault)
  BY <1>1 DEF SeenSet
<1>3. DeviceTypes'
  BY <1>1 DEF DeliveryInv, DeviceTypes
<1>4. RoundShape'
  BY <1>1 DEF DeliveryInv, RoundShape
<1>5. ASSUME NEW e, Handled(e) PROVE Handled(e)'
  <2>1. out \subseteq mem.mls \ vault.mls
    BY DEF DeliveryInv, RoundShape
  <2>2. CASE e \in inbox \cup out \cup report \cup gaveUp \cup exposed
    BY <1>1, <2>1, <2>2 DEF Handled, Kept
  <2>3. CASE e \notin Messages /\ e \in mem.mls
    <3>1. CASE e \in vault.mls
      BY <1>1, <2>3, <3>1 DEF Handled, Kept, Messages
    <3>2. CASE e \notin vault.mls
      BY <1>1, <2>3, <3>2 DEF Handled, Kept
    <3> QED
      BY <3>1, <3>2
  <2> QED
    BY <1>5, <2>2, <2>3 DEF Handled, Kept
<1>6. \A e \in SeenSet(vault)' : HandledWhenSaved(e)'
  BY <1>1, <1>2 DEF DeliveryInv, NothingDropped, HandledWhenSaved
<1>7. \A e \in SeenSet(mem)' \cup acking' : Handled(e)'
  BY <1>1, <1>2, <1>6 DEF HandledWhenSaved, Handled, Kept
<1> QED
  BY <1>1, <1>3, <1>4, <1>5, <1>6, <1>7, DeviceFrame DEF DeliveryInv

----------------------------------------------------------------------------
(* Steps that change what the stores hold.                                 *)

(* The device, as a step of the senders, the stores or the clock leaves it.*)
DeviceUntouched ==
  UNCHANGED <<mem, vault, pc, at, acking, out, report, inbox, gaveUp, exposed>>

LEMMA UntouchedKeeps ==
  ASSUME DeliveryInv, DeviceUntouched
  PROVE  /\ DeviceTypes' /\ RoundShape'
         /\ \A e : Handled(e)' = Handled(e)
         /\ \A e \in SeenSet(mem)' \cup acking' : Handled(e)'
         /\ \A e \in SeenSet(vault)' : HandledWhenSaved(e)'
<1>1. DeviceTypes' /\ RoundShape'
  BY DEF DeviceUntouched, DeliveryInv, DeviceTypes, RoundShape, Messages
<1>2. \A e : Handled(e)' = Handled(e)
  BY DEF DeviceUntouched, Handled, Kept, Messages
<1>3. SeenSet(mem)' = SeenSet(mem) /\ SeenSet(vault)' = SeenSet(vault)
  BY DEF DeviceUntouched, SeenSet
<1>4. \A e \in SeenSet(mem)' \cup acking' : Handled(e)'
  BY <1>2, <1>3 DEF DeviceUntouched, DeliveryInv, NothingDropped
<1>5. \A e \in SeenSet(vault)' : HandledWhenSaved(e)'
  BY <1>3 DEF DeviceUntouched, DeliveryInv, NothingDropped, HandledWhenSaved, Messages
<1> QED
  BY <1>1, <1>2, <1>4, <1>5

LEMMA SendStep ==
  ASSUME DeliveryInv, NEW e \in Envelopes, Send(e)
  PROVE  DeviceTypes' /\ RoundShape' /\ DepositsAreSent' /\ NothingDropped'
<1>1. /\ created[e] = NotSent /\ created' = [created EXCEPT ![e] = clock]
      /\ UNCHANGED <<clock, held, expiry, accepted>> /\ DeviceUntouched
  BY DEF Send, storeVars, roundVars, appVars, DeviceUntouched
<1>2. \A f : f # e => created'[f] = created[f]
  BY <1>1 DEF DeliveryInv, StoreInv, StoreTypes
<1>3. \A f : f # e => Expires(f)' = Expires(f)
  BY <1>2 DEF Expires
<1>4. e \notin accepted /\ \A s \in Stores : \A x \in expiry[s] : x[2] # e
  BY <1>1 DEF DeliveryInv, DepositsAreSent
<1>5. DepositsAreSent'
  BY <1>1, <1>2, <1>3, <1>4 DEF DeliveryInv, DepositsAreSent
<1>6. NothingDropped'
  BY <1>1, <1>3, <1>4, UntouchedKeeps DEF DeliveryInv, NothingDropped
<1> QED
  BY <1>1, <1>5, <1>6, UntouchedKeeps

LEMMA PutStep ==
  ASSUME DeliveryInv, NEW s \in Stores, NEW e \in Envelopes, Put(s, e)
  PROVE  DeviceTypes' /\ RoundShape' /\ DepositsAreSent' /\ NothingDropped'
<1>1. /\ created[e] # NotSent
      /\ held' = [held EXCEPT ![s] = @ \cup {e}]
      /\ expiry' = [expiry EXCEPT ![s] = @ \cup {<<Expires(e), e>>}]
      /\ accepted' = accepted \cup {e}
      /\ UNCHANGED <<clock, created>> /\ DeviceUntouched
  BY DEF Put, roundVars, appVars, DeviceUntouched
<1>2. \A f : Expires(f)' = Expires(f)
  BY <1>1 DEF Expires
<1>3. \A t \in Stores : /\ held[t] \subseteq held'[t]
                        /\ \A x \in expiry'[t] : x \in expiry[t] \/ x = <<Expires(e), e>>
  BY <1>1 DEF DeliveryInv, StoreInv, StoreTypes
<1>4. e \in held'[s]
  BY <1>1 DEF DeliveryInv, StoreInv, StoreTypes
<1>5. DepositsAreSent'
  BY <1>1, <1>2, <1>3 DEF DeliveryInv, DepositsAreSent
<1>6. NothingDropped'
  BY <1>1, <1>2, <1>3, <1>4, UntouchedKeeps DEF DeliveryInv, NothingDropped
<1> QED
  BY <1>1, <1>5, <1>6, UntouchedKeeps

(* A sweep takes out only what has expired.                                *)
LEMMA SweepStep ==
  ASSUME DeliveryInv, NEW s \in Stores, Sweep(s)
  PROVE  DeviceTypes' /\ RoundShape' /\ DepositsAreSent' /\ NothingDropped'
<1> DEFINE due == {x \in expiry[s] : x[1] <= clock}
           es == {x[2] : x \in due}
<1>1. /\ Remove(s, es) /\ expiry' = [expiry EXCEPT ![s] = @ \ due]
      /\ UNCHANGED <<clock, created, accepted>> /\ DeviceUntouched
  BY DEF Sweep, roundVars, appVars, DeviceUntouched
<1>2. \A f : Expires(f)' = Expires(f)
  BY <1>1 DEF Expires
<1>3. \A f \in es : Expires(f) <= clock
  BY DEF DeliveryInv, DepositsAreSent
<1>4. \A t \in Stores : expiry'[t] \subseteq expiry[t]
  BY <1>1 DEF DeliveryInv, StoreInv, StoreTypes
<1> HIDE DEF es, due
<1>5. \A t \in Stores : held[t] \subseteq held'[t] \cup es
  BY <1>1, RemoveIsExact DEF DeliveryInv
<1>6. DepositsAreSent'
  BY <1>1, <1>2, <1>4 DEF DeliveryInv, DepositsAreSent
<1>7. ASSUME NEW f \in accepted, Expires(f) > clock, \A t \in Stores : f \notin held'[t]
      PROVE  Handled(f)
  <2>1. created[f] # NotSent /\ f \in Envelopes
    BY DEF DeliveryInv, DepositsAreSent
  <2>2. Expires(f) \in Int /\ clock \in Int
    BY <2>1, ConstantAssumption DEF DeliveryInv, StoreInv, StoreTypes, Expires
  <2>3. f \notin es
    BY <1>3, <1>7, <2>2
  <2>4. \A t \in Stores : f \notin held[t]
    BY <1>5, <1>7, <2>3
  <2> QED
    BY <1>7, <2>4 DEF DeliveryInv, NothingDropped
<1>8. NothingDropped'
  BY <1>1, <1>2, <1>7, UntouchedKeeps DEF NothingDropped
<1> QED
  BY <1>1, <1>6, <1>8, UntouchedKeeps

LEMMA TickStep ==
  ASSUME DeliveryInv, Tick
  PROVE  DeviceTypes' /\ RoundShape' /\ DepositsAreSent' /\ NothingDropped'
<1>1. /\ clock' = clock + 1 /\ UNCHANGED <<created, held, expiry, accepted>> /\ DeviceUntouched
  BY DEF Tick, storeVars, roundVars, appVars, DeviceUntouched
<1>2. \A f : Expires(f)' = Expires(f)
  BY <1>1 DEF Expires
<1>3. DepositsAreSent'
  BY <1>1, <1>2 DEF DeliveryInv, DepositsAreSent
<1>4. ASSUME NEW f \in accepted, Expires(f) > clock + 1 PROVE Expires(f) > clock
  <2>1. created[f] # NotSent /\ f \in Envelopes
    BY DEF DeliveryInv, DepositsAreSent
  <2>2. Expires(f) \in Int /\ clock \in Int
    BY <2>1, ConstantAssumption DEF DeliveryInv, StoreInv, StoreTypes, Expires
  <2> QED
    BY <1>4, <2>2
<1>5. NothingDropped'
  BY <1>1, <1>2, <1>4, UntouchedKeeps DEF DeliveryInv, NothingDropped
<1> QED
  BY <1>1, <1>3, <1>5, UntouchedKeeps

(* An acknowledgement deletes only what the device has handled.            *)
LEMMA AckStep ==
  ASSUME DeliveryInv, Ack
  PROVE  DeviceTypes' /\ RoundShape' /\ DepositsAreSent' /\ NothingDropped'
<1>1. /\ pc = "ack" /\ Remove(at, acking) /\ Continue
      /\ UNCHANGED <<clock, created, expiry, accepted, vault, out, report, inbox, gaveUp, exposed>>
  BY DEF Ack, appVars
<1>2. /\ DOMAIN mem' = DOMAIN mem /\ mem'.mls = mem.mls /\ mem'.seen = mem.seen
      /\ pc' \in {"peers", "fetch"} /\ acking' = {}
      /\ pc' = "fetch" => at' \in Stores
  BY <1>1, ContinueKeeps DEF DeliveryInv
<1>3. DeviceTypes'
  BY <1>1, <1>2 DEF DeliveryInv, DeviceTypes
<1>4. RoundShape'
  BY <1>1, <1>2 DEF DeliveryInv, RoundShape, Messages
<1>5. SeenSet(mem)' = SeenSet(mem) /\ SeenSet(vault)' = SeenSet(vault)
  BY <1>1, <1>2 DEF SeenSet
<1>6. \A e : Handled(e) => Handled(e)'
  BY <1>1, <1>2, HandledStays
<1>7. \A e : Expires(e)' = Expires(e)
  BY <1>1 DEF Expires
<1>8. DepositsAreSent'
  BY <1>1, <1>7 DEF DeliveryInv, DepositsAreSent
<1>9. ASSUME NEW f \in accepted, Expires(f) > clock, \A t \in Stores : f \notin held'[t]
      PROVE  Handled(f)
  <2>1. CASE f \in acking
    BY <2>1 DEF DeliveryInv, NothingDropped
  <2>2. CASE f \notin acking
    <3>1. \A t \in Stores : held[t] \subseteq held'[t] \cup acking
      BY <1>1, RemoveIsExact DEF DeliveryInv
    <3>2. \A t \in Stores : f \notin held[t]
      BY <1>9, <2>2, <3>1
    <3> QED
      BY <1>9, <3>2 DEF DeliveryInv, NothingDropped
  <2> QED
    BY <2>1, <2>2
<1>10. \A e \in SeenSet(mem)' \cup acking' : Handled(e)'
  BY <1>2, <1>5, <1>6 DEF DeliveryInv, NothingDropped
<1>11. \A e \in SeenSet(vault)' : HandledWhenSaved(e)'
  BY <1>1, <1>5 DEF DeliveryInv, NothingDropped, HandledWhenSaved
<1>12. NothingDropped'
  BY <1>1, <1>6, <1>7, <1>9, <1>10, <1>11 DEF NothingDropped
<1> QED
  BY <1>3, <1>4, <1>8, <1>12

LEMMA UnchangedStep ==
  ASSUME DeliveryInv, UNCHANGED vars
  PROVE  DeviceTypes' /\ RoundShape' /\ DepositsAreSent' /\ NothingDropped'
<1>1. UNCHANGED <<clock, created, held, expiry, accepted>> /\ DeviceUntouched
  BY DEF vars, storeVars, roundVars, appVars, DeviceUntouched
<1> QED
  BY <1>1, UntouchedKeeps, DeviceFrame DEF DeliveryInv

LEMMA DeliveryStep == DeliveryInv /\ [Next]_vars => DeliveryInv'
<1> SUFFICES ASSUME DeliveryInv, [Next]_vars PROVE DeliveryInv'
  OBVIOUS
<1>0. StoreInv'
  BY StoreStep DEF DeliveryInv
<1> DEFINE Rest == DeviceTypes' /\ RoundShape' /\ DepositsAreSent' /\ NothingDropped'
<1>1. ASSUME \E e \in Envelopes : Send(e) PROVE Rest
  BY <1>1, SendStep
<1>2. ASSUME \E s \in Stores, e \in Envelopes : Put(s, e) PROVE Rest
  BY <1>2, PutStep
<1>3. ASSUME \E s \in Stores : Sweep(s) PROVE Rest
  BY <1>3, SweepStep
<1>4. ASSUME Tick PROVE Rest
  BY <1>4, TickStep
<1>5. ASSUME Quiet PROVE Rest
  BY <1>5, QuietSteps
<1>6. ASSUME FetchPage PROVE Rest
  BY <1>6, FetchPageStep
<1>7. ASSUME Ack PROVE Rest
  BY <1>7, AckStep
<1>8. ASSUME Dispatch PROVE Rest
  BY <1>8, DispatchStep
<1>9. ASSUME Save \/ SaveFails PROVE Rest
  BY <1>9, SaveStep
<1>10. ASSUME StoreChat PROVE Rest
  BY <1>10, StoreChatStep
<1>11. ASSUME Crash PROVE Rest
  BY <1>11, CrashStep
<1>12. ASSUME UNCHANGED vars PROVE Rest
  BY <1>12, UnchangedStep
<1> HIDE DEF Rest
<1>13. Rest
  BY <1>1, <1>2, <1>3, <1>4, <1>5, <1>6, <1>7, <1>8, <1>9, <1>10, <1>11, <1>12 DEF Next, Sync, Quiet
<1> QED
  BY <1>0, <1>13 DEF DeliveryInv, Rest

LEMMA InvBoundsLoss == DeliveryInv => LossIsBounded
<1> SUFFICES ASSUME DeliveryInv, NEW e \in Envelopes, Lost(e) PROVE e \in exposed
  BY DEF LossIsBounded
<1>1. /\ e \in accepted /\ e \notin gaveUp /\ Expires(e) > clock /\ ~Kept(e)
      /\ \A s \in Stores : e \notin held[s]
  BY DEF Lost
<1>2. Handled(e)
  BY <1>1 DEF DeliveryInv, NothingDropped
<1> QED
  BY <1>1, <1>2 DEF Handled

(* Whatever faults, copies, sweeps and crashes come, and however small     *)
(* SEEN_CAP is: an accepted envelope that is unexpired, not given up, at no*)
(* store and not at the device was lost in the gap between its processing  *)
(* and the save after it.  (messaging.rs sync, sync.rs round_inner)        *)
THEOREM LossNeedsTheGap == Spec => []LossIsBounded
<1> QED
  BY DeliveryInit, DeliveryStep, InvBoundsLoss, PTL DEF Spec

----------------------------------------------------------------------------
(* Copies, while seen can hold every envelope.                             *)

(* seen lists each id once, and everything MLS has processed.              *)
SeenIsWhole ==
  /\ Distinct(mem.seen) /\ Distinct(vault.seen)
  /\ mem.mls \subseteq SeenSet(mem) /\ vault.mls \subseteq SeenSet(vault)

LEMMA SeenInit == Init => SeenIsWhole
<1> SUFFICES ASSUME Init PROVE SeenIsWhole
  OBVIOUS
<1>1. /\ mem.seen = << >> /\ vault.seen = << >> /\ mem.mls = {} /\ vault.mls = {}
  BY DEF Init, NewDevice
<1>2. Distinct(<< >>)
  BY DEF Distinct
<1> QED
  BY <1>1, <1>2 DEF SeenIsWhole

LEMMA FetchPageMarks ==
  ASSUME Cardinality(Envelopes) <= SeenCap, DeliveryInv, SeenIsWhole, FetchPage
  PROVE  SeenIsWhole'
<1> DEFINE page == Page(at, cursor)
           r == Processed(page)
<1>1. pc = "fetch" /\ mem' = r.mem /\ vault' = vault
  BY DEF FetchPage
<1>2. created \in [Envelopes -> Int] /\ page \in SUBSET Envelopes /\ DeviceTypes
  <2>1. at \in Stores /\ DeviceTypes
    BY <1>1 DEF DeliveryInv, DeviceTypes
  <2>2. created \in [Envelopes -> Int]
    BY DEF DeliveryInv, StoreInv, StoreTypes, NotSent
  <2>3. held[at] \in SUBSET Envelopes
    BY <2>1 DEF DeliveryInv, StoreInv, StoreTypes
  <2>4. page \subseteq held[at]
    BY DEF Page, After
  <2> QED
    BY <2>1, <2>2, <2>3, <2>4
<1>3. /\ Distinct(r.mem.seen)
      /\ SeenSet(mem) \cup (r.mem.mls \ mem.mls) \subseteq SeenSet(r.mem)
  <2>1. Distinct(mem.seen)
    BY DEF SeenIsWhole
  <2> HIDE DEF page, r
  <2> QED
    BY <1>2, <2>1, PageEffect DEF r
<1> HIDE DEF page, r
<1>4. /\ SeenSet(mem)' = SeenSet(r.mem) /\ SeenSet(vault)' = SeenSet(vault)
      /\ mem'.mls = r.mem.mls /\ mem'.seen = r.mem.seen
  BY <1>1 DEF SeenSet
<1>5. mem'.mls \subseteq SeenSet(mem)'
  BY <1>3, <1>4 DEF SeenIsWhole
<1>6. Distinct(mem'.seen) /\ Distinct(vault'.seen) /\ vault'.mls \subseteq SeenSet(vault)'
  BY <1>1, <1>3, <1>4 DEF SeenIsWhole
<1> QED
  BY <1>5, <1>6 DEF SeenIsWhole

(* Every other step keeps the device's list or goes back to the vault's.   *)
LEMMA OthersKeepSeen ==
  ASSUME DeliveryInv, SeenIsWhole, [Next]_vars, ~FetchPage
  PROVE  SeenIsWhole'
<1>1. \/ mem'.mls = mem.mls /\ mem'.seen = mem.seen
      \/ mem' = vault
  <2>1. DeviceTypes
    BY DEF DeliveryInv
  <2>2. CASE FetchNothing \/ FetchFails
    BY <2>1, <2>2, LeaveStoreKeeps DEF FetchNothing, FetchFails
  <2>3. CASE Ack \/ AckLost
    BY <2>1, <2>3, ContinueKeeps DEF Ack, AckLost
  <2>4. CASE Crash
    BY <2>4 DEF Crash
  <2>5. CASE ~(FetchNothing \/ FetchFails \/ Ack \/ AckLost \/ Crash)
    <3>1. mem' = mem
      BY <2>5 DEF Next, Sync, Send, Put, Sweep, Tick, StartRound, AskStore, Dispatch,
                  Save, SaveFails, StoreChat, vars
    <3> QED
      BY <3>1
  <2> QED
    BY <2>2, <2>3, <2>4, <2>5
<1>2. vault' = vault \/ vault' = mem
  BY DEF Next, Sync, Send, Put, Sweep, Tick, StartRound, AskStore, FetchNothing,
         FetchFails, Ack, AckLost, Dispatch, Save, SaveFails, StoreChat, Crash, vars
<1>3. Distinct(mem'.seen) /\ mem'.mls \subseteq SeenSet(mem)'
  <2>1. CASE mem'.mls = mem.mls /\ mem'.seen = mem.seen
    <3>1. SeenSet(mem)' = SeenSet(mem)
      BY <2>1 DEF SeenSet
    <3> QED
      BY <2>1, <3>1 DEF SeenIsWhole
  <2>2. CASE mem' = vault
    <3>1. SeenSet(mem)' = SeenSet(vault)
      BY <2>2 DEF SeenSet
    <3> QED
      BY <2>2, <3>1 DEF SeenIsWhole
  <2> QED
    BY <1>1, <2>1, <2>2
<1>4. Distinct(vault'.seen) /\ vault'.mls \subseteq SeenSet(vault)'
  <2>1. CASE vault' = vault
    <3>1. SeenSet(vault)' = SeenSet(vault)
      BY <2>1 DEF SeenSet
    <3> QED
      BY <2>1, <3>1 DEF SeenIsWhole
  <2>2. CASE vault' = mem
    <3>1. SeenSet(vault)' = SeenSet(mem)
      BY <2>2 DEF SeenSet
    <3> QED
      BY <2>2, <3>1 DEF SeenIsWhole
  <2> QED
    BY <1>2, <2>1, <2>2
<1> QED
  BY <1>3, <1>4 DEF SeenIsWhole

(* No message is lost outside the gap, or mistaken for a copy of one: while*)
(* SEEN_CAP is at least the number of envelopes, the second pass never runs *)
(* MLS again on what it has processed.  (messaging.rs mark_seen, sync)      *)
THEOREM NoneGoesAstray ==
  ASSUME Cardinality(Envelopes) <= SeenCap
  PROVE  Spec => []NothingGoesAstray
<1>1. DeliveryInv /\ SeenIsWhole /\ [Next]_vars => (DeliveryInv /\ SeenIsWhole)'
  BY DeliveryStep, FetchPageMarks, OthersKeepSeen
<1>2. SeenIsWhole => CopiesAreHarmless
  BY DEF SeenIsWhole, CopiesAreHarmless
<1>3. DeliveryInv /\ SeenIsWhole => NothingGoesAstray
  BY <1>2, InvBoundsLoss DEF NothingGoesAstray
<1> QED
  BY <1>1, <1>3, DeliveryInit, SeenInit, PTL DEF Spec

----------------------------------------------------------------------------
(* Swarm: the limits.                                                      *)
SlotRecords ==
  {r \in [dir : {"none", "in", "out"}, counted : BOOLEAN, live : BOOLEAN, closing : BOOLEAN] :
     r.dir = "none" => r = Free}
ConnFits(c) == c \in [Peers -> [Slots -> SlotRecords]]

CountedAt(c, p, d) == {s \in Slots : c[p][s].counted /\ c[p][s].dir = d}
CountedPairs(c, d) == {x \in Peers \X Slots : x[2] \in CountedAt(c, x[1], d)}

(* The limits l count the connections of c.                                *)
LimitsFit(c, l) ==
  /\ l \in [peer : [Peers -> Nat], in : Nat, out : Nat]
  /\ \A p \in Peers : l.peer[p] = Cardinality(CountedAt(c, p, "in")) + Cardinality(CountedAt(c, p, "out"))
  /\ l.in = Cardinality(CountedPairs(c, "in")) /\ l.out = Cardinality(CountedPairs(c, "out"))

LEMMA SlotsFinite ==
  ASSUME NEW c, NEW p, NEW d
  PROVE  IsFiniteSet(CountedAt(c, p, d)) /\ IsFiniteSet(CountedPairs(c, d))
<1>1. IsFiniteSet(Slots)
  <2>1. Slots = 1..2 /\ 1 \in Int /\ 2 \in Int
    BY DEF Slots
  <2> QED
    BY <2>1, FS_Interval
<1>2. IsFiniteSet(Peers \X Slots)
  BY <1>1, SwarmAssumption, FS_Product
<1>3. CountedAt(c, p, d) \subseteq Slots /\ CountedPairs(c, d) \subseteq Peers \X Slots
  BY DEF CountedAt, CountedPairs
<1> QED
  BY <1>1, <1>2, <1>3, FS_Subset

(* Connections that differ in what no limit counts.                        *)
LEMMA SameCounts ==
  ASSUME NEW c, NEW l, LimitsFit(c, l), NEW x,
         \A p \in Peers, s \in Slots :
           (c[p][s].counted <=> x[p][s].counted) /\ (c[p][s].counted => x[p][s].dir = c[p][s].dir)
  PROVE  LimitsFit(x, l)
<1>1. \A p \in Peers, d \in {"in", "out"} : CountedAt(x, p, d) = CountedAt(c, p, d)
  BY DEF CountedAt
<1>2. \A d \in {"in", "out"} : CountedPairs(x, d) = CountedPairs(c, d)
  BY <1>1 DEF CountedPairs
<1> QED
  BY <1>1, <1>2 DEF LimitsFit

(* How the counts move with one slot.                                      *)
LEMMA CountsMove ==
  ASSUME NEW c, NEW x, NEW p \in Peers, NEW s \in Slots, NEW d,
         \A q \in Peers, t \in Slots : q # p \/ t # s => x[q][t] = c[q][t]
  PROVE  LET a == Cardinality(CountedAt(c, p, d))
             b == Cardinality(CountedAt(x, p, d))
             all == Cardinality(CountedPairs(c, d))
             now == Cardinality(CountedPairs(x, d))
             was == c[p][s].counted /\ c[p][s].dir = d
             is == x[p][s].counted /\ x[p][s].dir = d
         IN /\ a \in Nat /\ b \in Nat /\ all \in Nat /\ now \in Nat
            /\ was /\ ~is => a # 0 /\ b = a - 1 /\ all # 0 /\ now = all - 1
            /\ ~was /\ is => b = a + 1 /\ now = all + 1
            /\ (was <=> is) => b = a /\ now = all
            /\ \A q \in Peers : q # p => CountedAt(x, q, d) = CountedAt(c, q, d)
<1> DEFINE A == CountedAt(c, p, d)
           B == CountedAt(x, p, d)
           C == CountedPairs(c, d)
           D == CountedPairs(x, d)
           y == <<p, s>>
<1>1. \A q \in Peers : q # p => CountedAt(x, q, d) = CountedAt(c, q, d)
  BY DEF CountedAt
<1>2. A \ {s} = B \ {s}
  BY DEF CountedAt
<1>3. (s \in A <=> c[p][s].counted /\ c[p][s].dir = d) /\ (s \in B <=> x[p][s].counted /\ x[p][s].dir = d)
  BY DEF CountedAt
<1>4. C \subseteq Peers \X Slots /\ D \subseteq Peers \X Slots
  BY DEF CountedPairs
<1>5. ASSUME NEW q \in Peers, NEW t \in Slots PROVE (<<q, t>> \in C <=> t \in CountedAt(c, q, d))
  BY DEF CountedPairs
<1>6. ASSUME NEW q \in Peers, NEW t \in Slots PROVE (<<q, t>> \in D <=> t \in CountedAt(x, q, d))
  BY DEF CountedPairs
<1>7. IsFiniteSet(A) /\ IsFiniteSet(C)
  BY SlotsFinite
<1> HIDE DEF A, B, C, D
<1>8. ASSUME NEW q \in Peers, NEW t \in Slots, <<q, t>> # y
      PROVE  <<q, t>> \in C <=> <<q, t>> \in D
  <2>1. CASE q # p
    BY <1>1, <1>5, <1>6, <2>1
  <2>2. CASE q = p
    <3>1. t # s
      BY <1>8, <2>2
    <3>2. t \in A <=> t \in B
      BY <1>2, <3>1
    <3> QED
      BY <1>5, <1>6, <2>2, <3>2 DEF A, B
  <2> QED
    BY <2>1, <2>2
<1>9. C \ {y} = D \ {y}
  BY <1>4, <1>8
<1>10. (y \in C <=> s \in A) /\ (y \in D <=> s \in B)
  BY <1>5, <1>6 DEF A, B
<1>11. /\ IsFiniteSet(B) /\ Cardinality(A) \in Nat /\ Cardinality(B) \in Nat
       /\ s \in A /\ s \notin B => Cardinality(A) # 0 /\ Cardinality(B) = Cardinality(A) - 1
       /\ s \notin A /\ s \in B => Cardinality(B) = Cardinality(A) + 1
       /\ (s \in A <=> s \in B) => B = A
  BY <1>2, <1>7, OneMoves
<1>12. /\ IsFiniteSet(D) /\ Cardinality(C) \in Nat /\ Cardinality(D) \in Nat
       /\ y \in C /\ y \notin D => Cardinality(C) # 0 /\ Cardinality(D) = Cardinality(C) - 1
       /\ y \notin C /\ y \in D => Cardinality(D) = Cardinality(C) + 1
       /\ (y \in C <=> y \in D) => D = C
  BY <1>7, <1>9, OneMoves
<1> HIDE DEF y
<1>13. /\ Cardinality(A) \in Nat /\ Cardinality(B) \in Nat /\ Cardinality(C) \in Nat /\ Cardinality(D) \in Nat
       /\ s \in A /\ s \notin B => /\ Cardinality(A) # 0 /\ Cardinality(B) = Cardinality(A) - 1
                                   /\ Cardinality(C) # 0 /\ Cardinality(D) = Cardinality(C) - 1
       /\ s \notin A /\ s \in B => /\ Cardinality(B) = Cardinality(A) + 1
                                   /\ Cardinality(D) = Cardinality(C) + 1
       /\ (s \in A <=> s \in B) => Cardinality(B) = Cardinality(A) /\ Cardinality(D) = Cardinality(C)
  BY <1>10, <1>11, <1>12
<1> QED
  BY <1>1, <1>3, <1>13 DEF A, B, C, D

(* One slot more that is counted, or one less.                             *)
LimitTypes(l) == l \in [peer : [Peers -> Nat], in : Nat, out : Nat]

(* A connection that is admitted: established adds it to both counts.      *)
LEMMA SlotOpens ==
  ASSUME NEW c, NEW x, NEW p \in Peers, NEW s \in Slots, NEW dir \in {"in", "out"},
         \A q \in Peers, t \in Slots : q # p \/ t # s => x[q][t] = c[q][t],
         ~c[p][s].counted, x[p][s].counted, x[p][s].dir = dir, NEW l, LimitsFit(c, l)
  PROVE  LimitsFit(x, Established(l, p, dir))
<1> DEFINE m == Established(l, p, dir)
<1>1. LimitTypes(l)
  BY DEF LimitsFit, LimitTypes
<1> DEFINE pr == [l.peer EXCEPT ![p] = @ + 1]
<1>2. LimitTypes(m) /\ \A q \in Peers : m.peer[q] = IF q = p THEN l.peer[q] + 1 ELSE l.peer[q]
  <2>1. pr \in [Peers -> Nat] /\ \A q \in Peers : pr[q] = IF q = p THEN l.peer[q] + 1 ELSE l.peer[q]
    BY <1>1 DEF LimitTypes
  <2> HIDE DEF pr
  <2>2. m = [[l EXCEPT !.peer = pr] EXCEPT ![dir] = @ + 1]
    BY <1>1 DEF Established, LimitTypes, pr
  <2> DEFINE k == [l EXCEPT !.peer = pr]
  <2>5. LimitTypes(k) /\ k.peer = pr /\ k.in = l.in /\ k.out = l.out
    BY <1>1, <2>1 DEF LimitTypes
  <2>6. m = [k EXCEPT ![dir] = @ + 1]
    BY <2>2
  <2> HIDE DEF k, m
  <2>3. CASE dir = "in"
    <3>1. m = [k EXCEPT !.in = @ + 1]
      BY <2>3, <2>6
    <3> QED
      BY <1>1, <2>1, <2>5, <3>1 DEF LimitTypes
  <2>4. CASE dir = "out"
    <3>1. m = [k EXCEPT !.out = @ + 1]
      BY <2>4, <2>6
    <3> QED
      BY <1>1, <2>1, <2>5, <3>1 DEF LimitTypes
  <2> QED
    BY <2>3, <2>4
<1>3. /\ m.in = IF dir = "in" THEN l.in + 1 ELSE l.in
      /\ m.out = IF dir = "out" THEN l.out + 1 ELSE l.out
  <2>1. CASE dir = "in"
    BY <1>1, <2>1 DEF Established, LimitTypes
  <2>2. CASE dir = "out"
    BY <1>1, <2>2 DEF Established, LimitTypes
  <2> QED
    BY <2>1, <2>2
<1> HIDE DEF m
<1>4. \A d : /\ ~(c[p][s].counted /\ c[p][s].dir = d)
             /\ (x[p][s].counted /\ x[p][s].dir = d) <=> d = dir
  OBVIOUS
<1> DEFINE a(d) == Cardinality(CountedAt(c, p, d))
           b(d) == Cardinality(CountedAt(x, p, d))
           e(d) == Cardinality(CountedPairs(c, d))
           f(d) == Cardinality(CountedPairs(x, d))
<1>5. ASSUME NEW d
      PROVE  /\ a(d) \in Nat /\ b(d) \in Nat /\ e(d) \in Nat /\ f(d) \in Nat
             /\ d = dir => b(d) = a(d) + 1 /\ f(d) = e(d) + 1
             /\ d # dir => b(d) = a(d) /\ f(d) = e(d)
             /\ \A q \in Peers : q # p => CountedAt(x, q, d) = CountedAt(c, q, d)
  BY <1>4, CountsMove
<1>6. /\ l.peer[p] = a("in") + a("out") /\ l.in = e("in") /\ l.out = e("out")
      /\ \A q \in Peers : q # p => l.peer[q] =
            Cardinality(CountedAt(x, q, "in")) + Cardinality(CountedAt(x, q, "out"))
  BY <1>5 DEF LimitsFit
<1> HIDE DEF a, b, e, f
<1>7. /\ m.peer[p] = b("in") + b("out") /\ m.in = f("in") /\ m.out = f("out")
      /\ \A q \in Peers : q # p => m.peer[q] =
            Cardinality(CountedAt(x, q, "in")) + Cardinality(CountedAt(x, q, "out"))
  <2>1. m.in = f("in") /\ m.out = f("out")
    BY <1>3, <1>5, <1>6
  <2>2. m.peer[p] = b("in") + b("out")
    BY <1>2, <1>5, <1>6
  <2>3. \A q \in Peers : q # p => m.peer[q] = l.peer[q]
    BY <1>2
  <2> QED
    BY <1>6, <2>1, <2>2, <2>3
<1>8. LimitsFit(x, m)
  BY <1>2, <1>7 DEF LimitsFit, LimitTypes, b, f
<1> QED
  BY <1>8 DEF m

(* A counted connection that closes: closed subtracts it from both counts, *)
(* none of which is zero.                                                  *)
LEMMA SlotCloses ==
  ASSUME NEW c, NEW x, NEW p \in Peers, NEW s \in Slots, NEW dir \in {"in", "out"},
         \A q \in Peers, t \in Slots : q # p \/ t # s => x[q][t] = c[q][t],
         c[p][s].counted, c[p][s].dir = dir, ~x[p][s].counted, NEW l, LimitsFit(c, l)
  PROVE  LimitsFit(x, Closed(l, p, dir))
<1> DEFINE m == Closed(l, p, dir)
           a(d) == Cardinality(CountedAt(c, p, d))
           b(d) == Cardinality(CountedAt(x, p, d))
           e(d) == Cardinality(CountedPairs(c, d))
           f(d) == Cardinality(CountedPairs(x, d))
<1>1. LimitTypes(l)
  BY DEF LimitsFit, LimitTypes
<1>4. \A d : /\ ~(x[p][s].counted /\ x[p][s].dir = d)
             /\ (c[p][s].counted /\ c[p][s].dir = d) <=> d = dir
  OBVIOUS
<1>5. ASSUME NEW d
      PROVE  /\ a(d) \in Nat /\ b(d) \in Nat /\ e(d) \in Nat /\ f(d) \in Nat
             /\ d = dir => a(d) # 0 /\ b(d) = a(d) - 1 /\ e(d) # 0 /\ f(d) = e(d) - 1
             /\ d # dir => b(d) = a(d) /\ f(d) = e(d)
             /\ \A q \in Peers : q # p => CountedAt(x, q, d) = CountedAt(c, q, d)
  <2>1. CASE d = dir
    <3>1. c[p][s].counted /\ c[p][s].dir = d /\ ~(x[p][s].counted /\ x[p][s].dir = d)
      BY <2>1
    <3> QED
      BY <2>1, <3>1, CountsMove
  <2>2. CASE d # dir
    BY <1>4, <2>2, CountsMove
  <2> QED
    BY <2>1, <2>2
<1>6. /\ l.peer[p] = a("in") + a("out") /\ l.in = e("in") /\ l.out = e("out")
      /\ \A q \in Peers : q # p => l.peer[q] =
            Cardinality(CountedAt(x, q, "in")) + Cardinality(CountedAt(x, q, "out"))
  BY <1>5 DEF LimitsFit
<1> HIDE DEF a, b, e, f
<1>9. l.peer[p] # 0 /\ (dir = "in" => l.in # 0) /\ (dir = "out" => l.out # 0)
  BY <1>5, <1>6
<1> DEFINE pr == [l.peer EXCEPT ![p] = IF @ = 0 THEN 0 ELSE @ - 1]
<1>2. LimitTypes(m) /\ \A q \in Peers : m.peer[q] = IF q = p THEN l.peer[q] - 1 ELSE l.peer[q]
  <2>1. pr \in [Peers -> Nat] /\ \A q \in Peers : pr[q] = IF q = p THEN l.peer[q] - 1 ELSE l.peer[q]
    BY <1>1, <1>9 DEF LimitTypes
  <2> HIDE DEF pr
  <2>2. m = [[l EXCEPT !.peer = pr] EXCEPT ![dir] = IF @ = 0 THEN 0 ELSE @ - 1]
    BY <1>1 DEF Closed, LimitTypes, pr
  <2> DEFINE k == [l EXCEPT !.peer = pr]
  <2>5. LimitTypes(k) /\ k.peer = pr /\ k.in = l.in /\ k.out = l.out
    BY <1>1, <2>1 DEF LimitTypes
  <2>6. m = [k EXCEPT ![dir] = IF @ = 0 THEN 0 ELSE @ - 1]
    BY <2>2
  <2> HIDE DEF k, m
  <2>3. CASE dir = "in"
    <3>1. m = [k EXCEPT !.in = IF @ = 0 THEN 0 ELSE @ - 1]
      BY <2>3, <2>6
    <3> QED
      BY <1>1, <1>9, <2>1, <2>5, <3>1 DEF LimitTypes
  <2>4. CASE dir = "out"
    <3>1. m = [k EXCEPT !.out = IF @ = 0 THEN 0 ELSE @ - 1]
      BY <2>4, <2>6
    <3> QED
      BY <1>1, <1>9, <2>1, <2>5, <3>1 DEF LimitTypes
  <2> QED
    BY <2>3, <2>4
<1>3. /\ m.in = IF dir = "in" THEN l.in - 1 ELSE l.in
      /\ m.out = IF dir = "out" THEN l.out - 1 ELSE l.out
  <2>1. CASE dir = "in"
    BY <1>1, <1>9, <2>1 DEF Closed, LimitTypes
  <2>2. CASE dir = "out"
    BY <1>1, <1>9, <2>2 DEF Closed, LimitTypes
  <2> QED
    BY <2>1, <2>2
<1> HIDE DEF m
<1>7. /\ m.peer[p] = b("in") + b("out") /\ m.in = f("in") /\ m.out = f("out")
      /\ \A q \in Peers : q # p => m.peer[q] =
            Cardinality(CountedAt(x, q, "in")) + Cardinality(CountedAt(x, q, "out"))
  <2>1. m.in = f("in") /\ m.out = f("out")
    BY <1>3, <1>5, <1>6
  <2>2. m.peer[p] = b("in") + b("out")
    BY <1>2, <1>5, <1>6
  <2>3. \A q \in Peers : q # p => m.peer[q] = l.peer[q]
    BY <1>2
  <2> QED
    BY <1>6, <2>1, <2>2, <2>3
<1>8. LimitsFit(x, m)
  BY <1>2, <1>7 DEF LimitsFit, LimitTypes, b, f
<1> QED
  BY <1>8 DEF m

----------------------------------------------------------------------------
(* The events, and what the application will know of p once it has read    *)
(* them all.                                                               *)
Kinds == {"verified", "disconnected", "rejected", "request", "gossip"}
EventsFit(es) ==
  /\ es \in Seq(Kinds \X Peers)
  /\ \A i \in 1..Len(es) : es[i][1] = "request" => es[i][2] \in Genuine

Tells(es, p) == {i \in 1..Len(es) : es[i][2] = p /\ es[i][1] \in {"verified", "disconnected"}}
Heard(es, peers, verdict, p) ==
  \/ Tells(es, p) = {} /\ (p \in peers <=> p \in verdict)
  \/ \E i \in Tells(es, p) : (\A j \in Tells(es, p) : j <= i) /\ (es[i][1] = "verified" <=> p \in verdict)

(* What one more event at the end of the queue tells about a peer.         *)
LEMMA TellsAppend ==
  ASSUME NEW es, EventsFit(es), NEW e \in Kinds \X Peers, NEW p
  PROVE  /\ Len(Append(es, e)) = Len(es) + 1 /\ Len(es) \in Nat
         /\ Append(es, e)[Len(es) + 1] = e
         /\ \A i \in 1..Len(es) : Append(es, e)[i] = es[i]
         /\ Tells(Append(es, e), p) =
              Tells(es, p) \cup (IF e[2] = p /\ e[1] \in {"verified", "disconnected"} THEN {Len(es) + 1} ELSE {})
<1> DEFINE x == Append(es, e)
<1>1. /\ Len(x) = Len(es) + 1 /\ Len(es) \in Nat /\ x[Len(es) + 1] = e
      /\ \A i \in 1..Len(es) : x[i] = es[i]
  BY DEF EventsFit
<1> HIDE DEF x
<1>2. Tells(x, p) = Tells(es, p) \cup (IF e[2] = p /\ e[1] \in {"verified", "disconnected"} THEN {Len(es) + 1} ELSE {})
  BY <1>1 DEF Tells
<1> QED
  BY <1>1, <1>2 DEF x

(* A queue of events that fit stays one with an event that fits.           *)
LEMMA FitsAppend ==
  ASSUME NEW es, EventsFit(es), NEW e \in Kinds \X Peers, e[1] = "request" => e[2] \in Genuine
  PROVE  EventsFit(Append(es, e))
<1>1. Append(es, e) \in Seq(Kinds \X Peers)
  BY DEF EventsFit
<1>2. /\ Len(Append(es, e)) = Len(es) + 1 /\ Len(es) \in Nat
      /\ Append(es, e)[Len(es) + 1] = e
      /\ \A i \in 1..Len(es) : Append(es, e)[i] = es[i]
  BY TellsAppend
<1> QED
  BY <1>1, <1>2 DEF EventsFit

(* An event that is not about p changes nothing p, one about p decides.    *)
LEMMA HeardAppend ==
  ASSUME NEW es, EventsFit(es), NEW e \in Kinds \X Peers, NEW p, NEW peers, NEW verdict
  PROVE  /\ Heard(es, peers, verdict, p) /\ ~(e[2] = p /\ e[1] \in {"verified", "disconnected"})
              => Heard(Append(es, e), peers, verdict, p)
         /\ e[2] = p /\ e[1] \in {"verified", "disconnected"} /\ (e[1] = "verified" <=> p \in verdict)
              => Heard(Append(es, e), peers, verdict, p)
<1> DEFINE x == Append(es, e)
           l == Len(es)
<1>1. /\ Len(x) = l + 1 /\ l \in Nat /\ x[l + 1] = e
      /\ \A i \in 1..l : x[i] = es[i]
      /\ Tells(x, p) = Tells(es, p) \cup (IF e[2] = p /\ e[1] \in {"verified", "disconnected"} THEN {l + 1} ELSE {})
  BY TellsAppend
<1>2. Tells(es, p) \subseteq 1..l
  BY DEF Tells
<1> HIDE DEF x, l
<1>3. ASSUME Heard(es, peers, verdict, p), ~(e[2] = p /\ e[1] \in {"verified", "disconnected"})
      PROVE  Heard(x, peers, verdict, p)
  <2>1. Tells(x, p) = Tells(es, p)
    BY <1>1, <1>3
  <2> QED
    BY <1>1, <1>2, <1>3, <2>1 DEF Heard
<1>4. ASSUME e[2] = p, e[1] \in {"verified", "disconnected"}, e[1] = "verified" <=> p \in verdict
      PROVE  Heard(x, peers, verdict, p)
  <2>1. Tells(x, p) = Tells(es, p) \cup {l + 1}
    BY <1>1, <1>4
  <2>2. \A j \in Tells(x, p) : j <= l + 1
    BY <1>1, <1>2, <2>1
  <2>3. x[l + 1][1] = "verified" <=> p \in verdict
    BY <1>1, <1>4
  <2> QED
    BY <2>1, <2>2, <2>3 DEF Heard
<1> QED
  BY <1>3, <1>4 DEF x

(* The application reads the first event.                                  *)
Reads(peers, e) ==
  IF e[1] = "verified" THEN peers \cup {e[2]}
  ELSE IF e[1] = "disconnected" THEN peers \ {e[2]} ELSE peers

(* The application reads the first event: what the rest of the queue and   *)
(* its own list say together of every peer has not changed.                *)
LEMMA HeardTail ==
  ASSUME NEW es, EventsFit(es), es # << >>, NEW p, NEW peers, NEW verdict, Heard(es, peers, verdict, p)
  PROVE  /\ EventsFit(Tail(es)) /\ Head(es) \in Kinds \X Peers
         /\ Head(es)[1] = "request" => Head(es)[2] \in Genuine
         /\ Heard(Tail(es), Reads(peers, Head(es)), verdict, p)
<1> DEFINE x == Tail(es)
           e == Head(es)
           l == Len(es)
<1>1. /\ l \in Nat /\ l >= 1 /\ e = es[1] /\ e \in Kinds \X Peers /\ Len(x) = l - 1
      /\ \A i \in 1..(l - 1) : x[i] = es[i + 1]
      /\ x \in Seq(Kinds \X Peers)
  BY DEF EventsFit
<1> HIDE DEF x, e, l
<1>2. EventsFit(x) /\ (e[1] = "request" => e[2] \in Genuine)
  <2>1. x \in Seq(Kinds \X Peers) /\ 1 \in 1..l /\ Len(x) = l - 1
    BY <1>1
  <2>2. \A i \in 1..l : es[i][1] = "request" => es[i][2] \in Genuine
    BY DEF EventsFit, l
  <2>3. \A i \in 1..(l - 1) : x[i][1] = "request" => x[i][2] \in Genuine
    <3> SUFFICES ASSUME NEW i \in 1..(l - 1), x[i][1] = "request"
                 PROVE  x[i][2] \in Genuine
      OBVIOUS
    <3>1. i + 1 \in 1..l /\ x[i] = es[i + 1]
      BY <1>1
    <3> QED
      BY <2>2, <3>1
  <2>4. e[1] = "request" => e[2] \in Genuine
    BY <1>1, <2>1, <2>2
  <2>5. EventsFit(x)
    BY <2>1, <2>3 DEF EventsFit
  <2> QED
    BY <2>4, <2>5
<1>3. \A i : i \in Tells(x, p) <=> i \in 1..(l - 1) /\ i + 1 \in Tells(es, p)
  BY <1>1 DEF Tells, l
<1>4. 1 \in Tells(es, p) <=> e[2] = p /\ e[1] \in {"verified", "disconnected"}
  BY <1>1 DEF Tells, l
<1>5. Tells(es, p) \subseteq 1..l
  BY DEF Tells, l
<1>6. CASE Tells(es, p) = {}
  <2>1. Tells(x, p) = {} /\ ~(e[2] = p /\ e[1] \in {"verified", "disconnected"})
    BY <1>3, <1>4, <1>6
  <2>2. p \in Reads(peers, e) <=> p \in peers
    BY <2>1 DEF Reads
  <2>3. p \in peers <=> p \in verdict
    BY <1>6 DEF Heard
  <2> QED
    BY <1>1, <1>2, <2>1, <2>2, <2>3 DEF Heard, x, e
<1>7. ASSUME NEW i \in Tells(es, p), \A j \in Tells(es, p) : j <= i, es[i][1] = "verified" <=> p \in verdict
      PROVE  Heard(x, Reads(peers, e), verdict, p)
  <2>1. CASE i = 1
    <3>1. Tells(x, p) = {}
      BY <1>1, <1>3, <1>5, <1>7, <2>1
    <3>2. p \in Reads(peers, e) <=> p \in verdict
      BY <1>1, <1>4, <1>7, <2>1 DEF Reads
    <3> QED
      BY <3>1, <3>2 DEF Heard
  <2>2. CASE i # 1
    <3>1. i - 1 \in 1..(l - 1) /\ (i - 1) + 1 = i
      BY <1>1, <1>5, <2>2
    <3>2. i - 1 \in Tells(x, p) /\ x[i - 1] = es[i]
      BY <1>1, <1>3, <3>1
    <3>3. \A j \in Tells(x, p) : j <= i - 1
      BY <1>1, <1>3, <1>5, <1>7
    <3> QED
      BY <1>7, <3>2, <3>3 DEF Heard
  <2> QED
    BY <2>1, <2>2
<1> QED
  BY <1>1, <1>2, <1>6, <1>7 DEF Heard, x, e

----------------------------------------------------------------------------
(* The actor's state, as the record its handlers compute.                  *)
Fields == {"conn", "dialing", "limits", "connected", "verified", "unverified", "shaking", "rejecting",
           "banned", "score", "pings", "probed", "tokens", "known", "queued", "pending", "answered",
           "events", "missed", "struck"}

Admitted(c, v) == \A p \in v : p \in Genuine /\ p \in Peers /\ \E s \in Slots : c[p][s] # Free
Agrees(n, peers, Q) == ~n.missed => \A p \in Q \ n.struck : Heard(n.events, peers, n.verified, p)

(* What holds of a state n while the application's list is peers; the      *)
(* agreement is claimed for the peers in Q.                                *)
Ok(n, peers, Q) ==
  /\ DOMAIN n = Fields
  /\ ConnFits(n.conn) /\ LimitsFit(n.conn, n.limits)
  /\ Admitted(n.conn, n.verified)
  /\ EventsFit(n.events)
  /\ Agrees(n, peers, Q)

(* A state that differs in nothing this speaks of.                         *)
Same(n, m) ==
  /\ DOMAIN m = Fields
  /\ m.conn = n.conn /\ m.limits = n.limits /\ m.verified = n.verified
  /\ m.events = n.events /\ m.missed = n.missed /\ m.struck = n.struck

(* The invariant reads six fields of the actor: what changes none of them  *)
(* keeps it.                                                               *)
LEMMA SameOk ==
  ASSUME NEW n, NEW m, NEW peers, NEW Q, Ok(n, peers, Q), Same(n, m)
  PROVE  Ok(m, peers, Q)
BY DEF Ok, Same, Agrees

(* The requests in flight and their answers are in none of those fields.   *)
LEMMA Bystanders ==
  ASSUME NEW n, DOMAIN n = Fields, NEW p, NEW v
  PROVE  /\ Same(n, FailQueued(n, p)) /\ Same(n, Reply(n, v, "failed")) /\ Same(n, Reply(n, v, "ok"))
         /\ Same(n, SendRequest(n, v, p)) /\ Same(n, FlushQueued(n, p))
<1>1. \A a : Same(n, Reply(n, v, a))
  BY DEF Same, Fields, Reply
<1>2. Same(n, FailQueued(n, p))
  BY DEF Same, Fields, FailQueued, Reply
<1>3. Same(n, SendRequest(n, v, p))
  <2>1. CASE p \in n.verified
    BY <2>1 DEF Same, Fields, SendRequest
  <2>2. CASE p \notin n.verified /\ n.banned[p] > 0
    BY <1>1, <2>2 DEF Same, Fields, SendRequest, Reply
  <2>3. CASE p \notin n.verified /\ ~(n.banned[p] > 0)
    BY <2>3 DEF Same, Fields, SendRequest
  <2> QED
    BY <2>1, <2>2, <2>3
<1>4. Same(n, FlushQueued(n, p))
  BY DEF Same, Fields, FlushQueued, Reply
<1> QED
  BY <1>1, <1>2, <1>3, <1>4

(* Closing: what a disconnect or a ban does to the slots.                  *)
LEMMA DisconnectOk ==
  ASSUME NEW n, NEW peers, NEW Q, Ok(n, peers, Q), NEW p \in Peers
  PROVE  Ok(Disconnect(n, p), peers, Q) /\ Disconnect(n, p).verified = n.verified
         /\ Disconnect(n, p).struck = n.struck /\ Disconnect(n, p).events = n.events
<1> DEFINE m == Disconnect(n, p)
<1>1. /\ DOMAIN m = Fields /\ m.limits = n.limits /\ m.verified = n.verified
      /\ m.events = n.events /\ m.missed = n.missed /\ m.struck = n.struck
  BY DEF Ok, Fields, Disconnect
<1> DEFINE shut == [s \in Slots |-> IF n.conn[p][s] = Free THEN Free ELSE [n.conn[p][s] EXCEPT !.closing = TRUE]]
<1>2. m.conn = [n.conn EXCEPT ![p] = shut]
  BY DEF Ok, Fields, Disconnect
<1>3. ASSUME NEW s \in Slots
      PROVE  /\ shut[s] \in SlotRecords /\ (shut[s].counted <=> n.conn[p][s].counted)
             /\ shut[s].dir = n.conn[p][s].dir /\ (n.conn[p][s] # Free => shut[s] # Free)
  <2>1. n.conn[p][s] \in SlotRecords
    BY DEF Ok, ConnFits
  <2>2. CASE n.conn[p][s] = Free
    BY <2>1, <2>2
  <2>3. CASE n.conn[p][s] # Free
    <3>1. shut[s] = [n.conn[p][s] EXCEPT !.closing = TRUE]
      BY <2>3
    <3> QED
      BY <2>1, <3>1 DEF SlotRecords, Free
  <2> QED
    BY <2>2, <2>3
<1>4. shut \in [Slots -> SlotRecords]
  BY <1>3
<1> HIDE DEF m, shut
<1>5. ConnFits(m.conn) /\ m.conn[p] = shut /\ \A q \in Peers : q # p => m.conn[q] = n.conn[q]
  BY <1>2, <1>4 DEF Ok, ConnFits
<1>6. LimitsFit(m.conn, m.limits)
  <2>1. \A q \in Peers, s \in Slots :
           (n.conn[q][s].counted <=> m.conn[q][s].counted) /\ m.conn[q][s].dir = n.conn[q][s].dir
    BY <1>3, <1>5
  <2> QED
    BY <1>1, <2>1, SameCounts DEF Ok
<1>7. Admitted(m.conn, m.verified)
  BY <1>1, <1>3, <1>5 DEF Ok, Admitted
<1>8. Ok(m, peers, Q)
  BY <1>1, <1>5, <1>6, <1>7 DEF Ok, Agrees
<1> QED
  BY <1>1, <1>8 DEF m

(* A ban drops the peer from the verified without an event.                *)
LEMMA BanOk ==
  ASSUME NEW n, NEW peers, NEW Q, Ok(n, peers, Q), NEW p \in Peers
  PROVE  /\ Ok(Ban(n, p), peers, Q) /\ p \in Ban(n, p).struck
         /\ \A q : q \in n.struck => q \in Ban(n, p).struck
<1> DEFINE a == [n EXCEPT !.banned[p] = BanTicks, !.known = @ \ {p}, !.verified = @ \ {p}, !.struck = @ \cup {p}]
<1>1. /\ DOMAIN a = Fields /\ a.limits = n.limits /\ a.verified = n.verified \ {p} /\ a.conn = n.conn
      /\ a.events = n.events /\ a.missed = n.missed /\ a.struck = n.struck \cup {p}
  BY DEF Ok, Fields
<1>2. Ban(n, p) = Disconnect(a, p)
  BY DEF Ban
<1> HIDE DEF a
<1>3. Agrees(a, peers, Q)
  BY <1>1 DEF Ok, Agrees, Heard
<1>4. Ok(a, peers, Q)
  BY <1>1, <1>3 DEF Ok, Admitted
<1> QED
  BY <1>1, <1>2, <1>4, DisconnectOk

(* score: a peer that drops out of verified has been banned.               *)
LEMMA ScoreOk ==
  ASSUME NEW n, NEW peers, NEW Q, Ok(n, peers, Q), NEW p \in Peers, NEW e
  PROVE  /\ Ok(Score(n, p, e), peers, Q)
         /\ \A q \in n.struck : q \in Score(n, p, e).struck
         /\ p \in n.verified => p \in Score(n, p, e).verified \/ p \in Score(n, p, e).struck
<1> DEFINE m == [n EXCEPT !.score[p] = Clamp(@ + Weight(e))]
<1>1. Same(n, m)
  BY DEF Ok, Same, Fields
<1>2. Score(n, p, e) = m \/ Score(n, p, e) = Ban(m, p)
  BY DEF Score
<1> HIDE DEF m
<1>3. Ok(m, peers, Q) /\ m.struck = n.struck /\ m.verified = n.verified
  BY <1>1, SameOk DEF Same
<1> QED
  BY <1>2, <1>3, BanOk

(* Events.                                                                 *)
LEMMA EmitOk ==
  ASSUME NEW n, NEW peers, NEW Q, Ok(n, peers, Q), NEW e \in Kinds \X Peers,
         e[1] \notin {"verified", "disconnected"}, e[1] = "request" => e[2] \in Genuine
  PROVE  Ok(Emit(n, e), peers, Q)
<1> DEFINE m == Emit(n, e)
<1>1. CASE Len(n.events) < QueueCap
  <2>1. /\ DOMAIN m = Fields /\ m.limits = n.limits /\ m.verified = n.verified /\ m.conn = n.conn
        /\ m.events = Append(n.events, e) /\ m.missed = n.missed /\ m.struck = n.struck
    BY <1>1 DEF Ok, Fields, Emit
  <2> HIDE DEF m
  <2>2. EventsFit(m.events)
    BY <2>1, FitsAppend DEF Ok
  <2>3. Agrees(m, peers, Q)
    BY <2>1, HeardAppend DEF Ok, Agrees
  <2>4. Ok(m, peers, Q)
    BY <2>1, <2>2, <2>3 DEF Ok
  <2> QED
    BY <2>4 DEF m
<1>2. CASE ~(Len(n.events) < QueueCap)
  <2>1. /\ DOMAIN m = Fields /\ m.limits = n.limits /\ m.verified = n.verified /\ m.conn = n.conn
        /\ m.events = n.events /\ m.missed = TRUE
    BY <1>2 DEF Ok, Fields, Emit
  <2> HIDE DEF m
  <2>4. Ok(m, peers, Q)
    BY <2>1 DEF Ok, Agrees
  <2> QED
    BY <2>4 DEF m
<1> QED
  BY <1>1, <1>2

(* The event that tells what became of p: the agreement holds of p again.  *)
LEMMA EmitTells ==
  ASSUME NEW n, NEW peers, NEW p \in Peers, Ok(n, peers, Peers \ {p}), NEW k \in {"verified", "disconnected"},
         p \in n.struck \/ (k = "verified" <=> p \in n.verified)
  PROVE  Ok(Emit(n, <<k, p>>), peers, Peers)
<1> DEFINE e == <<k, p>>
           m == Emit(n, e)
<1>0. e \in Kinds \X Peers /\ e[1] = k /\ e[2] = p /\ e[1] # "request"
  BY DEF Kinds
<1> HIDE DEF e
<1>1. CASE Len(n.events) < QueueCap
  <2>1. /\ DOMAIN m = Fields /\ m.limits = n.limits /\ m.verified = n.verified /\ m.conn = n.conn
        /\ m.events = Append(n.events, e) /\ m.missed = n.missed /\ m.struck = n.struck
    BY <1>1 DEF Ok, Fields, Emit
  <2> HIDE DEF m
  <2>2. EventsFit(m.events)
    BY <1>0, <2>1, FitsAppend DEF Ok
  <2>3. ASSUME ~m.missed, NEW q \in Peers \ m.struck PROVE Heard(m.events, peers, m.verified, q)
    <3>1. CASE q = p
      BY <1>0, <2>1, <2>3, <3>1, HeardAppend DEF Ok
    <3>2. CASE q # p
      <4>1. Heard(n.events, peers, n.verified, q)
        BY <2>1, <2>3, <3>2 DEF Ok, Agrees
      <4> QED
        BY <1>0, <2>1, <3>2, <4>1, HeardAppend DEF Ok
    <3> QED
      BY <3>1, <3>2
  <2>4. Ok(m, peers, Peers)
    BY <2>1, <2>2, <2>3 DEF Ok, Agrees
  <2> QED
    BY <2>4 DEF m, e
<1>2. CASE ~(Len(n.events) < QueueCap)
  <2>1. /\ DOMAIN m = Fields /\ m.limits = n.limits /\ m.verified = n.verified /\ m.conn = n.conn
        /\ m.events = n.events /\ m.missed = TRUE
    BY <1>2 DEF Ok, Fields, Emit
  <2> HIDE DEF m
  <2>4. Ok(m, peers, Peers)
    BY <2>1 DEF Ok, Agrees
  <2> QED
    BY <2>4 DEF m, e
<1> QED
  BY <1>1, <1>2

(* A refused handshake: the failed score, the event, the disconnection.    *)
LEMMA RejectOk ==
  ASSUME NEW n, NEW peers, NEW Q, Ok(n, peers, Q), NEW p \in Peers, NEW why
  PROVE  Ok(Reject(n, p, why), peers, Q)
<1> DEFINE a == Score(n, p, "HandshakeFailed")
           b == FailQueued(a, p)
           m == Emit(b, <<"rejected", p>>)
<1>1. Reject(n, p, why) = Disconnect(m, p) \/ Reject(n, p, why) = Ban(m, p)
  BY DEF Reject
<1>2. Ok(a, peers, Q)
  BY ScoreOk
<1> HIDE DEF a
<1>3. Ok(b, peers, Q)
  BY <1>2, Bystanders, SameOk DEF Ok
<1> HIDE DEF b
<1>4. Ok(m, peers, Q)
  <2>1. <<"rejected", p>> \in Kinds \X Peers
    BY DEF Kinds
  <2> DEFINE e == <<"rejected", p>>
  <2>2. e[1] = "rejected"
    OBVIOUS
  <2>3. e \in Kinds \X Peers
    BY <2>1
  <2> HIDE DEF e
  <2>4. Ok(Emit(b, e), peers, Q)
    BY <1>3, <2>2, <2>3, EmitOk
  <2> QED
    BY <2>4 DEF e
<1> HIDE DEF m
<1> QED
  BY <1>1, <1>4, BanOk, DisconnectOk

(* An accepted handshake adds the peer and queues its verified event.      *)
LEMMA VerifyOk ==
  ASSUME NEW n, NEW peers, Ok(n, peers, Peers), NEW p \in Peers, p \in Genuine,
         \E s \in Slots : n.conn[p][s] # Free
  PROVE  Ok(Verify(n, p), peers, Peers)
<1> DEFINE a == [n EXCEPT !.unverified[p] = "none", !.verified = @ \cup {p}]
           b == Score(a, p, "HandshakeSucceeded")
           d == [b EXCEPT !.known = @ \cup {p}]
           c == Emit(d, <<"verified", p>>)
<1>1. /\ DOMAIN a = Fields /\ a.limits = n.limits /\ a.verified = n.verified \cup {p} /\ a.conn = n.conn
      /\ a.events = n.events /\ a.missed = n.missed /\ a.struck = n.struck
  BY DEF Ok, Fields
<1>2. Verify(n, p) = IF p \in n.verified THEN a ELSE FlushQueued(c, p)
  BY DEF Verify
<1> HIDE DEF a
<1>3. CASE p \in n.verified
  <2>1. a.verified = n.verified
    BY <1>1, <1>3
  <2>2. Same(n, a)
    BY <1>1, <2>1 DEF Same
  <2> QED
    BY <1>2, <1>3, <2>2, SameOk
<1>4. CASE p \notin n.verified
  <2>1. Agrees(a, peers, Peers \ {p})
    BY <1>1 DEF Ok, Agrees, Heard
  <2>2. Ok(a, peers, Peers \ {p})
    BY <1>1, <2>1 DEF Ok, Admitted
  <2>3. p \in a.verified
    BY <1>1
  <2>4. Ok(b, peers, Peers \ {p}) /\ (p \in b.verified \/ p \in b.struck)
    BY <2>2, <2>3, ScoreOk
  <2> HIDE DEF b
  <2>5. Same(b, d)
    BY <2>4 DEF Ok, Same, Fields
  <2> HIDE DEF d
  <2>6. Ok(d, peers, Peers \ {p}) /\ (p \in d.verified \/ p \in d.struck)
    BY <2>4, <2>5, SameOk DEF Same
  <2>7. Ok(c, peers, Peers)
    BY <2>6, EmitTells
  <2> HIDE DEF c
  <2>8. Ok(FlushQueued(c, p), peers, Peers)
    BY <2>7, Bystanders, SameOk DEF Ok
  <2> QED
    BY <1>2, <1>4, <2>8
<1> QED
  BY <1>3, <1>4

----------------------------------------------------------------------------
(* The state between two steps.                                            *)
SwarmInv ==
  /\ Ok(Now, app.peers, Peers)
  /\ app.served \subseteq Genuine
  /\ DOMAIN app = {"peers", "served", "missed", "struck"}

(* The fields of Now that the invariant reads.                             *)
LEMMA NowHas ==
  /\ DOMAIN Now = Fields /\ Now.conn = conn /\ Now.limits = limits /\ Now.verified = verified
  /\ Now.events = events /\ Now.missed = app.missed /\ Now.struck = app.struck
BY DEF Now, Fields

(* A handler that ends in a record the invariant holds of keeps it.        *)
LEMMA Installed ==
  ASSUME SwarmInv, NEW m, Ok(m, app.peers, Peers), Become(m)
  PROVE  SwarmInv'
<1>1. /\ conn' = m.conn /\ limits' = m.limits /\ verified' = m.verified /\ events' = m.events
      /\ app' = [app EXCEPT !.missed = m.missed, !.struck = m.struck]
  BY DEF Become
<1>2. /\ app'.missed = m.missed /\ app'.struck = m.struck /\ app'.peers = app.peers /\ app'.served = app.served
      /\ DOMAIN app' = {"peers", "served", "missed", "struck"}
  BY <1>1 DEF SwarmInv
<1>3. Same(m, Now')
  BY <1>1, <1>2 DEF Same, Now, Fields
<1>4. Ok(Now', app'.peers, Peers)
  BY <1>2, <1>3, SameOk
<1> QED
  BY <1>2, <1>4 DEF SwarmInv

(* Slots that open and close.                                              *)
LEMMA FreeIsASlot == Free \in SlotRecords /\ ~Free.counted
BY DEF Free, SlotRecords

(* on_connection_established, with the connection admitted or refused.     *)
LEMMA ConnectedOk ==
  ASSUME SwarmInv, NEW p \in Peers, NEW s \in Slots, conn[p][s] = Free, NEW dir \in {"in", "out"}
  PROVE  Ok(OnConnected(p, s, dir), app.peers, Peers)
<1> DEFINE ok == Allows(p, dir)
           r == [dir |-> dir, counted |-> ok, live |-> TRUE, closing |-> ~ok]
           a == [Now EXCEPT !.conn[p][s] = r, !.dialing = IF dir = "out" THEN @ \ {p} ELSE @]
           b == [a EXCEPT !.limits = Established(@, p, dir),
                          !.connected = IF OpenSlots(p) = {} THEN @ \cup {p} ELSE @]
           d == [b EXCEPT !.unverified[p] = IF @ = "none" THEN "fresh" ELSE @,
                          !.shaking[p] = IF dir = "out" THEN @ + 1 ELSE @]
           x == [conn EXCEPT ![p][s] = r]
<1>1. OnConnected(p, s, dir) = IF ~ok THEN a ELSE IF p \in verified THEN b ELSE d
  BY DEF OnConnected
<1>2. Ok(Now, app.peers, Peers)
  BY DEF SwarmInv
<1>3. /\ DOMAIN a = Fields /\ a.conn = x /\ a.limits = limits /\ a.verified = verified
      /\ a.events = events /\ a.missed = app.missed /\ a.struck = app.struck
  BY NowHas DEF Fields
<1>4. r \in SlotRecords /\ (r.counted <=> ok) /\ r.dir = dir /\ r # Free
  <2>1. ok \in BOOLEAN
    BY DEF Allows
  <2> HIDE DEF ok
  <2>2. CASE ok = TRUE
    <3>1. r = [dir |-> dir, counted |-> TRUE, live |-> TRUE, closing |-> FALSE]
      BY <2>2
    <3> HIDE DEF r
    <3> QED
      BY <2>2, <3>1 DEF SlotRecords, Free
  <2>3. CASE ok = FALSE
    <3>1. r = [dir |-> dir, counted |-> FALSE, live |-> TRUE, closing |-> TRUE]
      BY <2>3
    <3> HIDE DEF r
    <3> QED
      BY <2>3, <3>1 DEF SlotRecords, Free
  <2> QED
    BY <2>1, <2>2, <2>3
<1> HIDE DEF r, a, ok
<1>5. ConnFits(conn) /\ LimitsFit(conn, limits) /\ Admitted(conn, verified)
  BY <1>2, NowHas DEF Ok
<1>6. ConnFits(x) /\ x[p][s] = r /\ \A q \in Peers, t \in Slots : q # p \/ t # s => x[q][t] = conn[q][t]
  BY <1>4, <1>5 DEF ConnFits
<1> HIDE DEF x
<1>7. Admitted(x, verified)
  <2>1. \A q \in Peers, t \in Slots : conn[q][t] # Free => x[q][t] # Free
    BY <1>4, <1>6
  <2> QED
    BY <1>5, <2>1 DEF Admitted
<1>8. CASE ~ok
  <2>1. \A q \in Peers, t \in Slots :
          (conn[q][t].counted <=> x[q][t].counted) /\ (conn[q][t].counted => x[q][t].dir = conn[q][t].dir)
    <3>1. ~conn[p][s].counted /\ ~x[p][s].counted
      BY <1>4, <1>6, <1>8, FreeIsASlot
    <3> QED
      BY <1>6, <3>1
  <2>2. LimitsFit(x, limits)
    BY <1>5, <2>1, SameCounts
  <2>3. Ok(a, app.peers, Peers)
    BY <1>2, <1>3, <1>6, <1>7, <2>2, NowHas DEF Ok, Agrees
  <2> QED
    BY <1>1, <1>8, <2>3
<1>9. CASE ok
  <2>1. LimitsFit(x, Established(limits, p, dir))
    <3>1. ~conn[p][s].counted /\ x[p][s].counted /\ x[p][s].dir = dir
      BY <1>4, <1>6, <1>9, FreeIsASlot
    <3> QED
      BY <1>5, <1>6, <3>1, SlotOpens
  <2>2. /\ DOMAIN b = Fields /\ b.conn = x /\ b.limits = Established(limits, p, dir) /\ b.verified = verified
        /\ b.events = events /\ b.missed = app.missed /\ b.struck = app.struck
    BY <1>3 DEF Fields
  <2> HIDE DEF b
  <2>3. Ok(b, app.peers, Peers)
    BY <1>2, <1>6, <1>7, <2>1, <2>2, NowHas DEF Ok, Agrees
  <2>4. Same(b, d)
    BY <2>2 DEF Same, Fields
  <2> HIDE DEF d
  <2>5. Ok(d, app.peers, Peers)
    BY <2>3, <2>4, SameOk
  <2> QED
    BY <1>1, <1>9, <2>3, <2>5
<1> QED
  BY <1>8, <1>9

(* on_connection_closed: the last connection of a verified peer queues its *)
(* disconnected event.                                                     *)
LEMMA ClosedOk ==
  ASSUME SwarmInv, NEW p \in Peers, NEW s \in OpenSlots(p)
  PROVE  Ok(OnClosed(p, s), app.peers, Peers)
<1> DEFINE c == conn[p][s]
           x == [conn EXCEPT ![p][s] = Free]
           a == [Now EXCEPT !.conn[p][s] = Free]
           b == IF Debits(c) THEN [a EXCEPT !.limits = Closed(@, p, c.dir)] ELSE a
           d == [b EXCEPT !.connected = @ \ {p}, !.unverified[p] = "none", !.pings[p] = 0,
                          !.tokens[p] = Burst, !.verified = @ \ {p}]
<1>1. OnClosed(p, s) = IF OpenSlots(p) = {s} THEN FailQueued(Gone(d, p), p) ELSE b
  BY DEF OnClosed
<1>2. Ok(Now, app.peers, Peers)
  BY DEF SwarmInv
<1>3. /\ DOMAIN a = Fields /\ a.conn = x /\ a.limits = limits /\ a.verified = verified
      /\ a.events = events /\ a.missed = app.missed /\ a.struck = app.struck
  BY NowHas DEF Fields
<1> HIDE DEF a
<1>4. ConnFits(conn) /\ LimitsFit(conn, limits) /\ Admitted(conn, verified) /\ s \in Slots
  BY <1>2, NowHas DEF Ok, OpenSlots
<1>5. c \in SlotRecords
  BY <1>4 DEF ConnFits
<1>6. ConnFits(x) /\ x[p][s] = Free /\ \A q \in Peers, t \in Slots : q # p \/ t # s => x[q][t] = conn[q][t]
  BY <1>4, FreeIsASlot DEF ConnFits
<1> HIDE DEF x
<1>7. /\ DOMAIN b = Fields /\ b.conn = x /\ b.verified = verified
      /\ b.events = events /\ b.missed = app.missed /\ b.struck = app.struck
      /\ LimitsFit(x, b.limits)
  <2>1. CASE c.counted
    <3>1. /\ DOMAIN b = Fields /\ b.conn = x /\ b.limits = Closed(limits, p, c.dir) /\ b.verified = verified
          /\ b.events = events /\ b.missed = app.missed /\ b.struck = app.struck
      BY <1>3, <2>1 DEF Fields, Debits
    <3>2. c.dir \in {"in", "out"}
      BY <1>5, <2>1 DEF SlotRecords, Free
    <3>3. ~x[p][s].counted
      BY <1>6, FreeIsASlot
    <3>4. LimitsFit(x, Closed(limits, p, c.dir))
      BY <1>4, <1>6, <2>1, <3>2, <3>3, SlotCloses
    <3> QED
      BY <3>1, <3>4
  <2>2. CASE ~c.counted
    <3>1. b = a
      BY <2>2 DEF Debits
    <3>2. \A q \in Peers, t \in Slots :
            (conn[q][t].counted <=> x[q][t].counted) /\ (conn[q][t].counted => x[q][t].dir = conn[q][t].dir)
      <4>1. ~conn[p][s].counted /\ ~x[p][s].counted
        BY <1>6, <2>2, FreeIsASlot
      <4> QED
        BY <1>6, <4>1
    <3>3. LimitsFit(x, limits)
      BY <1>4, <3>2, SameCounts
    <3> QED
      BY <1>3, <3>1, <3>3
  <2> QED
    BY <2>1, <2>2
<1> HIDE DEF b, c
<1>8. CASE OpenSlots(p) = {s}
  <2>1. /\ DOMAIN d = Fields /\ d.conn = x /\ d.limits = b.limits /\ d.verified = verified \ {p}
        /\ d.events = events /\ d.missed = app.missed /\ d.struck = app.struck
    BY <1>7 DEF Fields
  <2> HIDE DEF d
  <2>2. Admitted(x, verified \ {p})
    BY <1>4, <1>6 DEF Admitted
  <2>3. Agrees(d, app.peers, Peers \ {p})
    BY <1>2, <2>1, NowHas DEF Ok, Agrees, Heard
  <2>4. Ok(d, app.peers, Peers \ {p})
    BY <1>2, <1>6, <1>7, <2>1, <2>2, <2>3, NowHas DEF Ok
  <2>5. Ok(Gone(d, p), app.peers, Peers)
    <3>1. CASE p \in verified
      <4>1. p \notin d.verified
        BY <2>1
      <4>2. Ok(Emit(d, <<"disconnected", p>>), app.peers, Peers)
        BY <2>4, <4>1, EmitTells
      <4> QED
        BY <3>1, <4>2 DEF Gone
    <3>2. CASE p \notin verified
      <4>1. d.verified = verified
        BY <2>1, <3>2
      <4>2. Agrees(d, app.peers, Peers)
        BY <1>2, <2>1, <4>1, NowHas DEF Ok, Agrees
      <4> QED
        BY <2>4, <3>2, <4>2 DEF Ok, Gone
    <3> QED
      BY <3>1, <3>2
  <2> DEFINE g == Gone(d, p)
  <2> HIDE DEF g
  <2>6. Ok(g, app.peers, Peers)
    BY <2>5 DEF g
  <2>7. Ok(FailQueued(g, p), app.peers, Peers)
    BY <2>6, Bystanders, SameOk DEF Ok
  <2> QED
    BY <1>1, <1>8, <2>7 DEF g
<1>9. CASE OpenSlots(p) # {s}
  <2>1. PICK t \in OpenSlots(p) : t # s
    BY <1>9
  <2>2. Admitted(x, verified)
    BY <1>4, <1>6, <2>1 DEF Admitted, OpenSlots
  <2>3. Ok(b, app.peers, Peers)
    BY <1>2, <1>6, <1>7, <2>2, NowHas DEF Ok, Agrees
  <2> QED
    BY <1>1, <1>9, <2>3
<1> QED
  BY <1>8, <1>9

(* The tick, one peer after the other.                                     *)
LEMMA TickPeerOk ==
  ASSUME NEW n, NEW peers, Ok(n, peers, Peers), NEW p \in Peers
  PROVE  Ok(TickPeer(n, p), peers, Peers)
<1> DEFINE n1 == [n EXCEPT !.unverified[p] = "none"]
           a == IF n.unverified[p] = "aged" THEN Reject(n1, p, "timeout") ELSE n
           a1 == [a EXCEPT !.rejecting[p] = "none"]
           b == IF a.rejecting[p] = "aged" THEN Reject(a1, p, "fork") ELSE a
           c == IF b.queued[p].age = "aged" THEN FailQueued(b, p) ELSE b
           d == [c EXCEPT !.unverified[p] = Age(@), !.rejecting[p] = Age(@), !.queued[p].age = Age(@),
                          !.banned[p] = IF n.banned[p] > 0 THEN n.banned[p] - 1 ELSE @,
                          !.score[p] = Decay(@), !.tokens[p] = Burst]
<1>1. TickPeer(n, p) = d
  BY DEF TickPeer
<1>2. Ok(n1, peers, Peers)
  <2>1. Same(n, n1)
    BY DEF Ok, Same, Fields
  <2> QED
    BY <2>1, SameOk
<1> HIDE DEF n1
<1>3. Ok(a, peers, Peers)
  BY <1>2, RejectOk
<1> HIDE DEF a
<1>4. Ok(a1, peers, Peers)
  <2>1. Same(a, a1)
    BY <1>3 DEF Ok, Same, Fields
  <2> QED
    BY <1>3, <2>1, SameOk
<1> HIDE DEF a1
<1>5. Ok(b, peers, Peers)
  BY <1>3, <1>4, RejectOk
<1> HIDE DEF b
<1>6. Ok(c, peers, Peers)
  BY <1>5, Bystanders, SameOk DEF Ok
<1> HIDE DEF c
<1>7. Ok(d, peers, Peers)
  <2>1. Same(c, d)
    BY <1>6 DEF Ok, Same, Fields
  <2> QED
    BY <1>6, <2>1, SameOk
<1> QED
  BY <1>1, <1>7

(* g ticks every set of peers of sets.                                     *)
Ticks(g, n, sets) ==
  g = [S \in sets |-> IF S = {} THEN n ELSE LET p == CHOOSE q \in S : TRUE IN TickPeer(g[S \ {p}], p)]

(* The tick goes over the connected peers with a function on sets of       *)
(* peers: that function exists, by induction over the cardinality.         *)
LEMMA TicksExist ==
  ASSUME NEW n
  PROVE  \E g : Ticks(g, n, SUBSET Peers)
<1>1. \A s \in SUBSET Peers : IsFiniteSet(s) /\ Cardinality(s) \in Nat
  BY SwarmAssumption, FS_Subset, FS_CardinalityType
<1> DEFINE N == {k \in Nat : \E g : Ticks(g, n, UpTo(Peers, k))}
<1>2. 0 \in N
  <2>1. \A s \in UpTo(Peers, 0) : s = {}
    BY <1>1, FS_EmptySet DEF UpTo
  <2> DEFINE g == [s \in UpTo(Peers, 0) |-> n]
  <2>2. Ticks(g, n, UpTo(Peers, 0))
    BY <2>1 DEF Ticks
  <2> QED
    BY <2>2
<1>3. ASSUME NEW k \in Nat, k \in N PROVE k + 1 \in N
  <2>1. PICK g : Ticks(g, n, UpTo(Peers, k))
    BY <1>3
  <2> DEFINE pick(s) == CHOOSE q \in s : TRUE
             h == [s \in UpTo(Peers, k + 1) |-> IF s = {} THEN n ELSE TickPeer(g[s \ {pick(s)}], pick(s))]
  <2>2. \A s \in UpTo(Peers, k) : g[s] = IF s = {} THEN n ELSE TickPeer(g[s \ {pick(s)}], pick(s))
    BY <2>1 DEF Ticks
  <2>3. ASSUME NEW s \in UpTo(Peers, k + 1), s # {}
        PROVE  s \ {pick(s)} \in UpTo(Peers, k)
    <3>1. pick(s) \in s
      BY <2>3
    <3>2. Cardinality(s \ {pick(s)}) = Cardinality(s) - 1
      BY <1>1, <3>1, FS_RemoveElement DEF UpTo
    <3> QED
      BY <1>1, <3>2 DEF UpTo
  <2>4. UpTo(Peers, k) \subseteq UpTo(Peers, k + 1)
    BY <1>1 DEF UpTo
  <2>5. \A s \in UpTo(Peers, k) : h[s] = g[s]
    BY <2>2, <2>4
  <2> DEFINE m == [s \in UpTo(Peers, k + 1) |-> IF s = {} THEN n ELSE TickPeer(h[s \ {pick(s)}], pick(s))]
  <2>6. h = m
    <3>1. ASSUME NEW s \in UpTo(Peers, k + 1) PROVE h[s] = m[s]
      <4>1. CASE s = {}
        BY <4>1
      <4>2. CASE s # {}
        <5>1. h[s \ {pick(s)}] = g[s \ {pick(s)}]
          BY <2>3, <2>5, <4>2
        <5> HIDE DEF pick
        <5> QED
          BY <4>2, <5>1
      <4> QED
        BY <4>1, <4>2
    <3> QED
      BY <3>1
  <2>7. Ticks(h, n, UpTo(Peers, k + 1))
    BY <2>6 DEF Ticks
  <2> QED
    BY <2>7
<1> HIDE DEF N
<1>4. Cardinality(Peers) \in N
  BY <1>1, <1>2, <1>3, SetInduction
<1>5. UpTo(Peers, Cardinality(Peers)) = SUBSET Peers
  BY SwarmAssumption, FS_Subset DEF UpTo
<1> QED
  BY <1>4, <1>5 DEF N

(* Whatever peers the tick has gone over, the invariant holds of the       *)
(* record it has reached.                                                  *)
LEMMA TicksOk ==
  ASSUME NEW n, NEW peers, Ok(n, peers, Peers), NEW g, Ticks(g, n, SUBSET Peers)
  PROVE  Ok(g[Peers], peers, Peers)
<1>1. \A s \in SUBSET Peers : IsFiniteSet(s) /\ Cardinality(s) \in Nat
  BY SwarmAssumption, FS_Subset, FS_CardinalityType
<1> DEFINE N == {k \in Nat : \A s \in SUBSET Peers : Cardinality(s) = k => Ok(g[s], peers, Peers)}
<1>2. 0 \in N
  <2>1. \A s \in SUBSET Peers : Cardinality(s) = 0 => s = {}
    BY <1>1, FS_EmptySet
  <2>2. g[{}] = n
    BY DEF Ticks
  <2> QED
    BY <2>1, <2>2
<1>3. ASSUME NEW k \in Nat, k \in N PROVE k + 1 \in N
  <2> SUFFICES ASSUME NEW s \in SUBSET Peers, Cardinality(s) = k + 1 PROVE Ok(g[s], peers, Peers)
    OBVIOUS
  <2> DEFINE p == CHOOSE q \in s : TRUE
  <2>1. s # {} /\ \A q \in s : Cardinality(s \ {q}) = k
    BY <1>1, TakeOne
  <2>2. p \in s /\ g[s] = TickPeer(g[s \ {p}], p)
    BY <2>1 DEF Ticks
  <2> HIDE DEF p
  <2>3. s \ {p} \in SUBSET Peers /\ Cardinality(s \ {p}) = k
    BY <2>1, <2>2
  <2>4. Ok(g[s \ {p}], peers, Peers)
    BY <1>3, <2>3
  <2> QED
    BY <2>2, <2>4, TickPeerOk
<1> HIDE DEF N
<1>4. Cardinality(Peers) \in N
  BY <1>1, <1>2, <1>3, SetInduction
<1> QED
  BY <1>4 DEF N

(* The tick, with the peers it dials at its end.                           *)
LEMMA TickKeeps ==
  ASSUME SwarmInv, SwarmTick
  PROVE  SwarmInv'
<1> DEFINE g == CHOOSE g : Ticks(g, Now, SUBSET Peers)
           n == [g[Peers] EXCEPT !.probed = {}]
           m == IF Cardinality(n.verified) < MinPeers
                THEN [n EXCEPT !.dialing = @ \cup Dialled(n)] ELSE n
<1>1. Become(m)
  BY DEF SwarmTick, Ticks
<1>2. Ticks(g, Now, SUBSET Peers)
  BY TicksExist
<1> HIDE DEF g
<1>3. Ok(g[Peers], app.peers, Peers)
  BY <1>2, TicksOk DEF SwarmInv
<1>4. Ok(n, app.peers, Peers)
  <2>1. Same(g[Peers], n)
    BY <1>3 DEF Ok, Same, Fields
  <2> QED
    BY <1>3, <2>1, SameOk
<1> HIDE DEF n
<1>5. Ok(m, app.peers, Peers)
  <2>1. Same(n, [n EXCEPT !.dialing = @ \cup Dialled(n)])
    BY <1>4 DEF Ok, Same, Fields
  <2> QED
    BY <1>4, <2>1, SameOk
<1> HIDE DEF m
<1> QED
  BY <1>1, <1>5, Installed

----------------------------------------------------------------------------
(* The application's step, and the rest.                                   *)
LEMMA AppKeeps ==
  ASSUME SwarmInv, AppStep
  PROVE  SwarmInv'
<1> DEFINE e == Head(events)
           n == [Now EXCEPT !.events = Tail(@)]
           peers == Reads(app.peers, e)
<1>1. Ok(Now, app.peers, Peers) /\ events # << >> /\ EventsFit(events)
  BY NowHas DEF SwarmInv, AppStep, Ok
<1>2. /\ DOMAIN n = Fields /\ n.conn = conn /\ n.limits = limits /\ n.verified = verified
      /\ n.events = Tail(events) /\ n.missed = app.missed /\ n.struck = app.struck
  BY NowHas DEF Fields
<1>3. EventsFit(Tail(events)) /\ e \in Kinds \X Peers /\ (e[1] = "request" => e[2] \in Genuine)
  <2>1. EventsFit(Tail(events))
    BY <1>1 DEF EventsFit
  <2>2. e = events[1] /\ 1 \in 1..Len(events)
    BY <1>1 DEF EventsFit
  <2>3. e \in Kinds \X Peers
    BY <1>1, <2>2 DEF EventsFit
  <2>4. e[1] = "request" => e[2] \in Genuine
    BY <1>1, <2>2 DEF EventsFit
  <2> QED
    BY <2>1, <2>3, <2>4
<1>4. PICK bad \in BOOLEAN :
        LET m == IF bad THEN Score(n, e[2], "InvalidSignature") ELSE n
        IN /\ conn' = m.conn /\ verified' = m.verified /\ events' = m.events
           /\ app' = [app EXCEPT !.struck = m.struck,
                 !.peers = IF e[1] = "verified" THEN @ \cup {e[2]}
                           ELSE IF e[1] = "disconnected" THEN @ \ {e[2]} ELSE @,
                 !.served = IF e[1] = "request" THEN @ \cup {e[2]} ELSE @]
  BY DEF AppStep
<1> DEFINE m == IF bad THEN Score(n, e[2], "InvalidSignature") ELSE n
<1>5. limits' = limits
  BY DEF AppStep
<1>6. Agrees(n, peers, Peers)
  <2> SUFFICES ASSUME ~app.missed, NEW p \in Peers \ app.struck
               PROVE  Heard(Tail(events), peers, verified, p)
    BY <1>2 DEF Agrees
  <2>1. Heard(events, app.peers, verified, p)
    BY <1>1, NowHas DEF Ok, Agrees
  <2> QED
    BY <1>1, <2>1, HeardTail
<1> HIDE DEF e, n
<1>7. Ok(n, peers, Peers)
  BY <1>1, <1>2, <1>3, <1>6, NowHas DEF Ok
<1>8. e[2] \in Peers
  BY <1>3
<1>9. Ok(m, peers, Peers) /\ m.limits = limits /\ m.missed = app.missed
  <2> DEFINE q == e[2]
             k == "InvalidSignature"
  <2>1. Score(n, q, k).limits = n.limits /\ Score(n, q, k).missed = n.missed
    BY <1>2 DEF Score, Ban, Disconnect, Fields
  <2>2. Ok(Score(n, q, k), peers, Peers)
    BY <1>7, <1>8, ScoreOk
  <2> QED
    BY <1>2, <1>7, <2>1, <2>2
<1>10. /\ conn' = m.conn /\ verified' = m.verified /\ events' = m.events
       /\ app' = [app EXCEPT !.struck = m.struck,
             !.peers = IF e[1] = "verified" THEN @ \cup {e[2]}
                       ELSE IF e[1] = "disconnected" THEN @ \ {e[2]} ELSE @,
             !.served = IF e[1] = "request" THEN @ \cup {e[2]} ELSE @]
  BY <1>4
<1> HIDE DEF m
<1>11. /\ app'.struck = m.struck /\ app'.missed = app.missed /\ app'.peers = peers
       /\ app'.served = IF e[1] = "request" THEN app.served \cup {e[2]} ELSE app.served
       /\ DOMAIN app' = {"peers", "served", "missed", "struck"}
  BY <1>10 DEF SwarmInv, Reads
<1>12. Same(m, Now')
  BY <1>5, <1>9, <1>10, <1>11 DEF Same, Now, Fields
<1>13. Ok(Now', app'.peers, Peers)
  BY <1>9, <1>11, <1>12, SameOk
<1>14. app'.served \subseteq Genuine
  BY <1>3, <1>11 DEF SwarmInv
<1> QED
  BY <1>11, <1>13, <1>14 DEF SwarmInv

(* A connection that dies underneath stays counted until it is closed.     *)
LEMMA DyingKeeps ==
  ASSUME SwarmInv, NEW p \in Peers, NEW s \in Slots, Dies(p, s)
  PROVE  SwarmInv'
<1>1. /\ conn' = [conn EXCEPT ![p][s].live = FALSE] /\ s \in LiveSlots(p)
      /\ UNCHANGED <<limits, verified, events, app>>
  BY DEF Dies
<1>2. Ok(Now, app.peers, Peers) /\ ConnFits(conn) /\ LimitsFit(conn, limits) /\ Admitted(conn, verified)
  BY NowHas DEF SwarmInv, Ok
<1> DEFINE r == [conn[p][s] EXCEPT !.live = FALSE]
<1>3. conn[p][s] \in SlotRecords /\ conn[p][s].live /\ conn[p][s] # Free
  BY <1>1, <1>2 DEF ConnFits, LiveSlots, OpenSlots
<1>4. r \in SlotRecords /\ (r.counted <=> conn[p][s].counted) /\ r.dir = conn[p][s].dir
  BY <1>3 DEF SlotRecords, Free
<1>5. conn' = [conn EXCEPT ![p][s] = r]
  BY <1>1, <1>2 DEF ConnFits
<1> HIDE DEF r
<1>6. ConnFits(conn') /\ conn'[p][s] = r /\ \A q \in Peers, t \in Slots : q # p \/ t # s => conn'[q][t] = conn[q][t]
  BY <1>2, <1>4, <1>5 DEF ConnFits
<1>7. LimitsFit(conn', limits)
  <2>1. \A q \in Peers, t \in Slots :
          (conn[q][t].counted <=> conn'[q][t].counted) /\ (conn[q][t].counted => conn'[q][t].dir = conn[q][t].dir)
    BY <1>4, <1>6
  <2> QED
    BY <1>2, <2>1, SameCounts
<1>8. r # Free
  BY <1>3, <1>4 DEF Free, SlotRecords
<1>9. Admitted(conn', verified)
  <2>1. \A q \in Peers, t \in Slots : conn[q][t] # Free => conn'[q][t] # Free
    BY <1>6, <1>8
  <2> QED
    BY <1>2, <2>1 DEF Admitted
<1>10. /\ DOMAIN Now' = Fields /\ Now'.conn = conn' /\ Now'.limits = limits /\ Now'.verified = verified
       /\ Now'.events = events /\ Now'.missed = app.missed /\ Now'.struck = app.struck
  BY <1>1 DEF Now, Fields
<1>11. Ok(Now', app.peers, Peers)
  BY <1>2, <1>6, <1>7, <1>9, <1>10, NowHas DEF Ok, Agrees
<1> QED
  BY <1>1, <1>11 DEF SwarmInv

(* What libp2p reports, and what the application asks for.                 *)
LEMMA PeerActsKeep ==
  ASSUME SwarmInv, NEW p \in Peers,
         \/ DialSucceeds(p) \/ DialFails(p) \/ PeerDials(p)
         \/ HandshakeRequest(p) \/ RejectAckSent(p) \/ HandshakeResponse(p) \/ HandshakeFails(p)
         \/ AppBans(p) \/ PingFails(p) \/ PingOk(p)
  PROVE  SwarmInv'
<1>1. Ok(Now, app.peers, Peers)
  BY DEF SwarmInv
<1>2. ASSUME NEW n, Same(Now, n) PROVE Ok(n, app.peers, Peers)
  BY <1>1, <1>2, SameOk
<1>3. CASE DialSucceeds(p) \/ PeerDials(p)
  BY <1>3, ConnectedOk, Installed DEF DialSucceeds, PeerDials
<1>4. CASE DialFails(p)
  <2> DEFINE n == [Now EXCEPT !.dialing = @ \ {p}]
  <2>1. Same(Now, n)
    BY NowHas DEF Same, Fields
  <2>2. Become(FailQueued(n, p))
    BY <1>4 DEF DialFails
  <2> HIDE DEF n
  <2>3. Ok(FailQueued(n, p), app.peers, Peers)
    BY <1>2, <2>1, Bystanders, SameOk DEF Same
  <2> QED
    BY <2>2, <2>3, Installed
<1>5. CASE HandshakeRequest(p)
  <2>1. \E s \in Slots : Now.conn[p][s] # Free
    BY <1>5, NowHas DEF HandshakeRequest, LiveSlots, OpenSlots
  <2>2. CASE p \in Genuine
    <3>1. Become(Verify(Now, p))
      BY <1>5, <2>2 DEF HandshakeRequest
    <3> QED
      BY <1>1, <2>1, <2>2, <3>1, VerifyOk, Installed
  <2>3. CASE p \notin Genuine
    <3>1. PICK malformed \in BOOLEAN :
            Become([IF malformed THEN Score(Now, p, "MalformedFrame") ELSE Now EXCEPT !.rejecting[p] = "fresh"])
      BY <1>5, <2>3 DEF HandshakeRequest
    <3> DEFINE n == IF malformed THEN Score(Now, p, "MalformedFrame") ELSE Now
               m == [n EXCEPT !.rejecting[p] = "fresh"]
    <3>2. Ok(n, app.peers, Peers)
      BY <1>1, ScoreOk
    <3> HIDE DEF n
    <3>3. Same(n, m)
      BY <3>2 DEF Ok, Same, Fields
    <3>4. Ok(m, app.peers, Peers)
      BY <3>2, <3>3, SameOk
    <3>5. Become(m)
      BY <3>1 DEF n
    <3> HIDE DEF m
    <3> QED
      BY <3>4, <3>5, Installed
  <2> QED
    BY <2>2, <2>3
<1>6. CASE RejectAckSent(p)
  <2>1. Same(Now, [Now EXCEPT !.rejecting[p] = "aged"])
    BY NowHas DEF Same, Fields
  <2> QED
    BY <1>2, <1>6, <2>1, Installed DEF RejectAckSent
<1>7. CASE HandshakeResponse(p) \/ HandshakeFails(p)
  <2> DEFINE n == [Now EXCEPT !.shaking[p] = @ - 1]
  <2>1. Same(Now, n)
    BY NowHas DEF Same, Fields
  <2>2. \/ p \in Genuine /\ Become(Verify(n, p)) /\ LiveSlots(p) # {}
        \/ \E why : Become(Reject(n, p, why))
    BY <1>7 DEF HandshakeResponse, HandshakeFails
  <2> HIDE DEF n
  <2>3. Ok(n, app.peers, Peers) /\ n.conn = conn
    BY <1>2, <2>1, NowHas DEF Same
  <2>4. CASE p \in Genuine /\ Become(Verify(n, p)) /\ LiveSlots(p) # {}
    <3>1. \E s \in Slots : n.conn[p][s] # Free
      BY <2>3, <2>4 DEF LiveSlots, OpenSlots
    <3> QED
      BY <2>3, <2>4, <3>1, VerifyOk, Installed
  <2>5. CASE \E why : Become(Reject(n, p, why))
    BY <2>3, <2>5, RejectOk, Installed
  <2> QED
    BY <2>2, <2>4, <2>5
<1>8. CASE AppBans(p)
  BY <1>1, <1>8, BanOk, Installed DEF AppBans
<1>9. CASE PingFails(p)
  <2> DEFINE a == Score(Now, p, "RequestTimedOut")
             n == [a EXCEPT !.probed = @ \cup {p}]
             z == [n EXCEPT !.pings[p] = 0]
             u == [n EXCEPT !.pings[p] = IF @ < 3 THEN @ + 1 ELSE 3]
  <2>1. Become(IF p \notin n.verified THEN n
               ELSE IF PingStreakEnds(n.pings[p] + 1) THEN Disconnect(z, p) ELSE u)
    BY <1>9 DEF PingFails
  <2>2. Ok(a, app.peers, Peers)
    BY <1>1, ScoreOk
  <2> HIDE DEF a
  <2>3. Ok(n, app.peers, Peers)
    <3>1. Same(a, n)
      BY <2>2 DEF Ok, Same, Fields
    <3> QED
      BY <2>2, <3>1, SameOk
  <2> HIDE DEF n
  <2>4. Same(n, z) /\ Same(n, u)
    BY <2>3 DEF Ok, Same, Fields
  <2> HIDE DEF z, u
  <2>5. Ok(z, app.peers, Peers) /\ Ok(u, app.peers, Peers)
    BY <2>3, <2>4, SameOk
  <2>6. Ok(Disconnect(z, p), app.peers, Peers)
    BY <2>5, DisconnectOk
  <2> QED
    BY <2>1, <2>3, <2>5, <2>6, Installed
<1>10. CASE PingOk(p)
  <2>1. Same(Now, [Now EXCEPT !.pings[p] = 0])
    BY NowHas DEF Same, Fields
  <2> QED
    BY <1>2, <1>10, <2>1, Installed DEF PingOk
<1> QED
  BY <1>3, <1>4, <1>5, <1>6, <1>7, <1>8, <1>9, <1>10

(* The requests of the application and their answers.                      *)
LEMMA RequestsKeep ==
  ASSUME SwarmInv, NEW p \in Peers, NEW r \in Requests,
         AskPeer(r, p) \/ ResponseArrives(r, p) \/ RequestFails(r, p)
  PROVE  SwarmInv'
<1>1. Ok(Now, app.peers, Peers)
  BY DEF SwarmInv
<1>2. CASE AskPeer(r, p)
  <2> DEFINE n == [Now EXCEPT !.answered[r] = "waiting"]
  <2>1. Same(Now, n) /\ Become(SendRequest(n, r, p))
    BY <1>2, NowHas DEF Same, Fields, AskPeer
  <2> HIDE DEF n
  <2>2. Ok(n, app.peers, Peers) /\ Same(n, SendRequest(n, r, p))
    BY <1>1, <2>1, SameOk, Bystanders DEF Same
  <2> QED
    BY <2>1, <2>2, SameOk, Installed
<1>3. CASE ResponseArrives(r, p) \/ RequestFails(r, p)
  <2> DEFINE n == [Now EXCEPT !.pending = @ \ {<<r, p>>}]
  <2>1. Same(Now, n)
    BY NowHas DEF Same, Fields
  <2>2. \/ Become(Reply(Score(n, p, "RequestAnswered"), {r}, "ok"))
        \/ Become(Reply(Score(n, p, "RequestTimedOut"), {r}, "failed"))
    BY <1>3 DEF ResponseArrives, RequestFails
  <2> HIDE DEF n
  <2>3. Ok(n, app.peers, Peers)
    BY <1>1, <2>1, SameOk
  <2>4. ASSUME NEW e, NEW m, m = Score(n, p, e)
        PROVE  Ok(Reply(m, {r}, "ok"), app.peers, Peers) /\ Ok(Reply(m, {r}, "failed"), app.peers, Peers)
    <3>1. Ok(m, app.peers, Peers)
      BY <2>3, <2>4, ScoreOk
    <3>2. DOMAIN m = Fields
      BY <3>1 DEF Ok
    <3>3. Same(m, Reply(m, {r}, "ok")) /\ Same(m, Reply(m, {r}, "failed"))
      BY <3>2, Bystanders
    <3> QED
      BY <3>1, <3>3, SameOk
  <2> QED
    BY <2>2, <2>4, Installed
<1> QED
  BY <1>2, <1>3

(* A request or a gossip message that a peer sends.                        *)
LEMMA InboundKeeps ==
  ASSUME SwarmInv, NEW p \in Peers, NEW kind \in {"request", "gossip"}, Inbound(p, kind)
  PROVE  SwarmInv'
<1>1. Ok(Now, app.peers, Peers)
  BY DEF SwarmInv
<1> DEFINE n == [Now EXCEPT !.tokens[p] = @ - 1]
           e == <<kind, p>>
<1>2. \/ Become(Now)
      \/ Become(Score(Now, p, "RateLimitExceeded"))
      \/ Become(Emit(n, e)) /\ (kind = "request" => p \in verified)
  BY DEF Inbound, Admits
<1>3. Same(Now, n)
  BY NowHas DEF Same, Fields
<1>4. e \in Kinds \X Peers /\ e[1] = kind /\ e[2] = p
  BY DEF Kinds
<1>5. p \in verified => p \in Genuine
  BY <1>1, NowHas DEF Ok, Admitted
<1> HIDE DEF n, e
<1>6. Ok(n, app.peers, Peers)
  BY <1>1, <1>3, SameOk
<1>7. CASE Become(Emit(n, e)) /\ (kind = "request" => p \in verified)
  <2>1. Ok(Emit(n, e), app.peers, Peers)
    BY <1>4, <1>5, <1>6, <1>7, EmitOk
  <2> QED
    BY <1>7, <2>1, Installed
<1> QED
  BY <1>1, <1>2, <1>7, ScoreOk, Installed

LEMMA ClosingKeeps ==
  ASSUME SwarmInv, NEW p \in Peers, NEW s \in Slots, Closes(p, s)
  PROVE  SwarmInv'
BY ClosedOk, Installed DEF Closes

----------------------------------------------------------------------------
(* The actor starts without a connection, a count or an event.             *)
LEMMA SwarmStarts ==
  ASSUME NEW scenarios, SwarmInit(scenarios)
  PROVE  SwarmInv
<1>1. /\ conn = [p \in Peers |-> [s \in Slots |-> Free]]
      /\ limits = [peer |-> [p \in Peers |-> 0], in |-> 0, out |-> 0]
      /\ verified = {} /\ events = << >>
      /\ app = [peers |-> {}, served |-> {}, missed |-> FALSE, struck |-> {}]
  BY DEF SwarmInit
<1>2. ConnFits(conn)
  BY <1>1, FreeIsASlot DEF ConnFits
<1>3. LimitsFit(conn, limits)
  <2>1. \A p \in Peers : \A d : CountedAt(conn, p, d) = {}
    BY <1>1, FreeIsASlot DEF CountedAt
  <2>2. \A d : CountedPairs(conn, d) = {}
    BY <2>1 DEF CountedPairs
  <2>3. Cardinality({}) = 0
    BY FS_EmptySet
  <2>4. /\ limits \in [peer : [Peers -> Nat], in : Nat, out : Nat]
        /\ \A p \in Peers : limits.peer[p] = 0
    BY <1>1
  <2>5. limits.in = 0 /\ limits.out = 0
    BY <1>1
  <2>6. \A p \in Peers : limits.peer[p] = Cardinality(CountedAt(conn, p, "in")) + Cardinality(CountedAt(conn, p, "out"))
    BY <2>1, <2>3, <2>4
  <2> QED
    BY <2>2, <2>3, <2>4, <2>5, <2>6 DEF LimitsFit
<1>4. EventsFit(events) /\ \A p : Tells(events, p) = {}
  BY <1>1 DEF EventsFit, Tells
<1>5. Agrees(Now, app.peers, Peers)
  BY <1>1, <1>4, NowHas DEF Agrees, Heard
<1>6. Ok(Now, app.peers, Peers)
  BY <1>1, <1>2, <1>3, <1>4, <1>5, NowHas DEF Ok, Admitted
<1> QED
  BY <1>1, <1>6 DEF SwarmInv

(* Every step of the actor, its peers and its application.                 *)
LEMMA SwarmKeeps ==
  ASSUME SwarmInv, [SwarmNext]_swarmVars
  PROVE  SwarmInv'
<1>1. CASE UNCHANGED swarmVars
  <2>1. Now' = Now /\ app' = app
    BY <1>1 DEF swarmVars, Now
  <2> QED
    BY <2>1 DEF SwarmInv
<1>2. CASE SwarmNext
  BY <1>2, TickKeeps, AppKeeps, PeerActsKeep, InboundKeeps, ClosingKeeps, DyingKeeps, RequestsKeep DEF SwarmNext
<1> QED
  BY <1>1, <1>2

(* The three parts of PeersAgree follow from the invariant.                *)
LEMMA SwarmAgrees ==
  ASSUME SwarmInv
  PROVE  PeersAgree
<1>1. Ok(Now, app.peers, Peers)
  BY DEF SwarmInv
<1>2. /\ LimitsFit(conn, limits) /\ Admitted(conn, verified) /\ EventsFit(events)
      /\ ~app.missed => \A p \in Peers \ app.struck : Heard(events, app.peers, verified, p)
  BY <1>1, NowHas DEF Ok, Agrees
<1>3. LimitsCountConnections
  BY <1>2 DEF LimitsCountConnections, LimitsFit, CountedAt, CountedPairs
<1>4. OnlyOurNetwork
  BY <1>2 DEF OnlyOurNetwork, Admitted, OpenSlots, SwarmInv
<1>5. AppKnowsPeers
  <2> SUFFICES ASSUME events = << >>, ~app.missed, NEW p \in Peers \ app.struck
               PROVE  p \in app.peers <=> p \in verified
    BY DEF AppKnowsPeers
  <2>1. Tells(events, p) = {}
    BY DEF Tells
  <2> QED
    BY <1>2, <2>1 DEF Heard
<1> QED
  BY <1>3, <1>4, <1>5 DEF PeersAgree

(* For any peers, limits, scenarios and orders of events: the limits count *)
(* exactly the admitted connections that are open, only peers of our       *)
(* network are admitted or served, and an application that has read every  *)
(* event and lost none lists the actor's verified peers, but for those     *)
(* that were banned (swarm.rs, limits.rs).                                 *)
THEOREM PeersAlwaysAgree ==
  ASSUME NEW CONSTANT scenarios
  PROVE  SwarmInit(scenarios) /\ [][SwarmNext]_swarmVars => []PeersAgree
<1>1. SwarmInit(scenarios) => SwarmInv
  BY SwarmStarts
<1>2. SwarmInv /\ [SwarmNext]_swarmVars => SwarmInv'
  BY SwarmKeeps
<1>3. SwarmInv => PeersAgree
  BY SwarmAgrees
<1> QED
  BY <1>1, <1>2, <1>3, PTL

----------------------------------------------------------------------------
(* MLS groups: what a scenario may be, and the invariant.                  *)

(* What a scenario may fix: any registry, operations and bounds, no more   *)
(* one-time packages than a batch.                                         *)
GroupScenario(s) ==
  /\ s.gids \subseteq GroupIds
  /\ s.once \in 0..KeyPackageBatch

Rosters == [st : Nat, mem : SUBSET Devices]
GroupMail ==
  [kind : {"welcome", "commit", "message"}, g : GroupIds, base : Nat, st : Nat,
   mem : SUBSET Devices, pkg : Nat, text : Texts \cup {"none"}]
DeviceStates == [view : [GroupIds -> Rosters], keys : SUBSET Nat, lr : {1}]

Reconciliations ==
  [on : BOOLEAN, todo : SUBSET GroupIds, unknown : SUBSET Addresses, g : GroupIds \cup {0},
   adds : SUBSET Addresses]

GroupTypes ==
  /\ gsc.gids \subseteq GroupIds
  /\ once \in [Devices -> Seq(Nat)] /\ last = [d \in Devices |-> 1]
  /\ minted \in [Devices -> Nat]
  /\ dev \in [Devices -> DeviceStates] /\ disk \in [Devices -> DeviceStates]
  /\ post \in [Devices -> SUBSET GroupMail]
  /\ nst \in Nat
  /\ rec \in [Devices -> Reconciliations]
  /\ said \in [Texts -> [g : GroupIds \cup {0}, st : Nat, to : SUBSET Devices]]
  /\ head \in [GroupIds -> Rosters]
  /\ dead \in [Devices -> SUBSET Nat] /\ past \in [Devices -> SUBSET Nat]
  /\ ever \in [GroupIds -> SUBSET Devices]

\* What in a mailbox takes a device to a state.
Moves(d, g) == {e \in post[d] : e.g = g /\ e.kind # "message"}
Welcomes(d) == {e \in post[d] : e.kind = "welcome"}

(* A package is fetched once; its key is on the device, or was lost.       *)
OnceFits(d) ==
  /\ minted[d] >= 1
  /\ \A i \in 1..Len(once[d]) :
       /\ once[d][i] # 1 /\ once[d][i] <= minted[d]
       /\ once[d][i] \in dev[d].keys \cup dead[d]
  /\ \A i, j \in 1..Len(once[d]) : once[d][i] = once[d][j] => i = j
WelcomesFit(d) ==
  /\ \A e \in Welcomes(d) :
       /\ e.pkg <= minted[d]
       /\ e.pkg # 1 => \A i \in 1..Len(once[d]) : once[d][i] # e.pkg
  /\ \A e, f \in Welcomes(d) : e.pkg = f.pkg /\ e.pkg # 1 => e = f
PackagesFit ==
  \A d \in Devices :
    /\ 1 \in dev[d].keys /\ 1 \in disk[d].keys
    /\ OnceFits(d) /\ WelcomesFit(d)

(* Groups that do not exist left no trace; a reconciliation is about groups*)
(* its device is in.                                                       *)
NoTrace(g) ==
  /\ ever[g] = {}
  /\ \A d \in Devices :
       /\ View(d, g) = NoView /\ disk[d].view[g] = NoView
       /\ \A e \in post[d] : e.g # g
GroupsExist ==
  /\ \A g \in GroupIds : head[g] = NoView => NoTrace(g)
  /\ \A d \in Devices : \A e \in post[d] : e.kind # "message" => e.st > 0
RecsFit ==
  \A d \in Devices : rec[d].on =>
    /\ \A g \in rec[d].todo : View(d, g) # NoView
    /\ rec[d].adds # {} => rec[d].g \in GroupIds /\ View(d, rec[d].g) # NoView

(* A roster somebody has or is sent: not newer than the newest, and its    *)
(* members are in that state, were, or will come there.                    *)
RosterFits(r, g) ==
  /\ r.st <= head[g].st /\ (r.st = head[g].st => r.mem = head[g].mem)
  /\ r.mem \subseteq ever[g]
  /\ \A x \in r.mem : r.st \in past[x] \cup Reach(x, g)
RosterOf(e) == [st |-> e.st, mem |-> e.mem]

HeadFits(g) ==
  /\ head[g].st <= nst /\ (head[g].st = 0 => head[g] = NoView)
  /\ head[g].mem \subseteq ever[g]
  /\ \A d \in head[g].mem : head[g].st \in Reach(d, g)
ViewFits(d, g) ==
  /\ RosterFits(View(d, g), g)
  /\ View(d, g) # NoView => View(d, g).st > 0 /\ d \in View(d, g).mem
MovesFit(d, g) ==
  /\ \A e \in Moves(d, g) :
       /\ RosterFits(RosterOf(e), g) /\ d \in e.mem
       /\ e.kind = "commit" => e.base < e.st
       /\ e.kind = "welcome" => e.pkg \in dev[d].keys /\ View(d, g) = NoView
  /\ \A e, f \in Moves(d, g) :
       e.kind = f.kind /\ (e.kind = "commit" => e.base = f.base) => e = f
SaidFits(t, g) ==
  \A d \in said[t].to :
    \/ <<d, t>> \in heard
    \/ said[t].st \in past[d]
    \/ MessageFor(g, said[t].st, t) \in post[d] /\ said[t].st \in Reach(d, g)

GroupFits(g) ==
  /\ HeadFits(g)
  /\ \A d \in Devices : ViewFits(d, g) /\ MovesFit(d, g)
  /\ \A t \in Texts : said[t].g = g => SaidFits(t, g)

GroupsFit == \A g \in GroupIds \ hurt : GroupFits(g)

GroupInv == GroupTypes /\ PackagesFit /\ GroupsExist /\ RecsFit /\ GroupsFit

----------------------------------------------------------------------------
(* Reach, as a function of what it looks at.                               *)
Leads(S, v, P, K, g) ==
  /\ v \in S \cup {0}
  /\ \A e \in P : e.g = g =>
       /\ e.kind = "welcome" /\ e.pkg \in K => e.st \in S
       /\ e.kind = "commit" /\ e.base \in S => e.st \in S
ReachOf(n, v, P, K, g) == {st \in 1..n : \A S \in SUBSET (1..n) : Leads(S, v, P, K, g) => st \in S}

(* What a device can reach depends on its own state of the group, its      *)
(* mailbox and its keys.                                                   *)
LEMMA ReachIs ==
  ASSUME NEW d, NEW g
  PROVE  /\ Reach(d, g) = ReachOf(nst, View(d, g).st, post[d], dev[d].keys, g)
         /\ Reach(d, g)' = ReachOf(nst', View(d, g)'.st, post'[d], dev'[d].keys, g)
BY DEF Reach, ReachOf, Leads, View

(* More envelopes that move it, and more states, lead it further.          *)
LEMMA ReachGrows ==
  ASSUME NEW n \in Nat, NEW m \in Nat, n <= m, NEW v \in 0..n, NEW P, NEW Q, NEW K, NEW L, NEW g,
         \A e \in P : e.g = g /\ e.kind # "message" => e \in Q /\ e.st \in 1..n,
         \A e \in P : e.g = g /\ e.kind = "welcome" /\ e.pkg \in K => e.pkg \in L
  PROVE  ReachOf(n, v, P, K, g) \subseteq ReachOf(m, v, Q, L, g)
<1> SUFFICES ASSUME NEW st \in ReachOf(n, v, P, K, g), NEW S \in SUBSET (1..m), Leads(S, v, Q, L, g)
             PROVE  st \in S /\ st \in 1..m
  BY DEF ReachOf
<1> DEFINE T == S \cap (1..n)
<1>1. Leads(T, v, P, K, g)
  BY DEF Leads
<1>2. T \in SUBSET (1..n)
  OBVIOUS
<1>3. st \in T
  BY <1>1, <1>2 DEF ReachOf
<1> QED
  BY <1>3

(* Reading a commit made in the device's own state, the only one made      *)
(* there, loses that state only.                                           *)
LEMMA ReachAfterCommit ==
  ASSUME NEW n \in Nat, NEW P, NEW K, NEW g, NEW e \in P,
         e.g = g, e.kind = "commit", e.base \in 1..n, e.st \in 1..n,
         \A f \in P : f.g = g /\ f.kind = "commit" /\ f.base = e.base => f = e,
         NEW st \in ReachOf(n, e.base, P, K, g), st # e.base
  PROVE  st \in ReachOf(n, e.st, P \ {e}, K, g)
<1> SUFFICES ASSUME NEW S \in SUBSET (1..n), Leads(S, e.st, P \ {e}, K, g)
             PROVE  st \in S /\ st \in 1..n
  BY DEF ReachOf
<1> DEFINE T == S \cup {e.base}
<1>0. e.st \in S
  BY DEF Leads
<1>1. Leads(T, e.base, P, K, g)
  <2>1. ASSUME NEW f \in P, f.g = g, f.kind = "welcome", f.pkg \in K
        PROVE  f.st \in T
    BY <2>1 DEF Leads
  <2>2. ASSUME NEW f \in P, f.g = g, f.kind = "commit", f.base \in T
        PROVE  f.st \in T
    BY <1>0, <2>2 DEF Leads
  <2> QED
    BY <2>1, <2>2 DEF Leads
<1>2. T \in SUBSET (1..n)
  OBVIOUS
<1>3. st \in T
  BY <1>1, <1>2 DEF ReachOf
<1> QED
  BY <1>3 DEF ReachOf

(* Reading the only welcome loses nothing.                                 *)
LEMMA ReachAfterWelcome ==
  ASSUME NEW n \in Nat, NEW P, NEW K, NEW L, NEW g, NEW e \in P,
         e.g = g, e.kind = "welcome", e.st \in 1..n,
         \A f \in P : f.g = g /\ f.kind = "welcome" => f = e
  PROVE  ReachOf(n, 0, P, K, g) \subseteq ReachOf(n, e.st, P \ {e}, L, g)
<1> SUFFICES ASSUME NEW st \in ReachOf(n, 0, P, K, g), NEW S \in SUBSET (1..n),
                    Leads(S, e.st, P \ {e}, L, g)
             PROVE  st \in S /\ st \in 1..n
  BY DEF ReachOf
<1>0. e.st \in S
  BY DEF Leads
<1>1. Leads(S, 0, P, K, g)
  <2>1. ASSUME NEW f \in P, f.g = g, f.kind = "welcome", f.pkg \in K
        PROVE  f.st \in S
    BY <1>0, <2>1
  <2>2. ASSUME NEW f \in P, f.g = g, f.kind = "commit", f.base \in S
        PROVE  f.st \in S
    <3>1. f # e
      BY <2>2
    <3> QED
      BY <2>2, <3>1 DEF Leads
  <2> QED
    BY <2>1, <2>2 DEF Leads
<1> QED
  BY <1>1 DEF ReachOf

(* Without a welcome, and with no commit made in its state, a device stays.*)
LEMMA ReachSettled ==
  ASSUME NEW n \in Nat, NEW v \in 0..n, NEW P, NEW K, NEW g,
         \A e \in P : e.g = g => e.kind # "welcome" /\ (e.kind = "commit" => e.base # v)
  PROVE  ReachOf(n, v, P, K, g) \subseteq {v}
<1> DEFINE S == {v} \ {0}
<1>1. S \in SUBSET (1..n)
  OBVIOUS
<1>2. Leads(S, v, P, K, g)
  BY DEF Leads
<1> QED
  BY <1>1, <1>2 DEF ReachOf

(* A device reaches the state it is in, and what leads on from a state it  *)
(* reaches.                                                                *)
LEMMA ReachFrom ==
  ASSUME NEW n \in Nat, NEW v, NEW P, NEW K, NEW g
  PROVE  /\ v \in 1..n => v \in ReachOf(n, v, P, K, g)
         /\ \A e \in P : e.g = g /\ e.kind = "welcome" /\ e.pkg \in K /\ e.st \in 1..n
                           => e.st \in ReachOf(n, v, P, K, g)
         /\ \A e \in P : e.g = g /\ e.kind = "commit" /\ e.base \in ReachOf(n, v, P, K, g)
                           /\ e.st \in 1..n => e.st \in ReachOf(n, v, P, K, g)
<1>1. v \in 1..n => v \in ReachOf(n, v, P, K, g)
  BY DEF ReachOf, Leads
<1>2. ASSUME NEW e \in P, e.g = g, e.kind = "welcome", e.pkg \in K, e.st \in 1..n
      PROVE  e.st \in ReachOf(n, v, P, K, g)
  BY <1>2 DEF ReachOf, Leads
<1>3. ASSUME NEW e \in P, e.g = g, e.kind = "commit", e.base \in ReachOf(n, v, P, K, g), e.st \in 1..n
      PROVE  e.st \in ReachOf(n, v, P, K, g)
  BY <1>3 DEF ReachOf, Leads
<1> QED
  BY <1>1, <1>2, <1>3

----------------------------------------------------------------------------
(* What a group that a step leaves alone keeps.                            *)

(* The parts of the state a group's proofs look at, typed.                 *)
LEMMA ViewTyped ==
  ASSUME GroupTypes, NEW d \in Devices, NEW g \in GroupIds
  PROVE  /\ View(d, g) \in Rosters /\ View(d, g).st \in Nat /\ View(d, g).mem \subseteq Devices
         /\ head[g] \in Rosters /\ head[g].st \in Nat /\ head[g].mem \subseteq Devices
         /\ past[d] \subseteq Nat /\ ever[g] \subseteq Devices
<1>1. dev[d] \in DeviceStates
  BY DEF GroupTypes
<1>2. dev[d].view[g] \in Rosters /\ head[g] \in Rosters
  BY <1>1 DEF DeviceStates, GroupTypes
<1>3. past[d] \subseteq Nat /\ ever[g] \subseteq Devices
  BY DEF GroupTypes
<1> QED
  BY <1>2, <1>3 DEF View, Rosters

LEMMA EnvelopeTyped ==
  ASSUME GroupTypes, NEW d \in Devices, NEW e \in post[d]
  PROVE  /\ e \in GroupMail
         /\ e.kind \in {"welcome", "commit", "message"} /\ e.g \in GroupIds
         /\ e.base \in Nat /\ e.st \in Nat /\ e.mem \subseteq Devices /\ e.pkg \in Nat
         /\ RosterOf(e) \in Rosters /\ RosterOf(e).st = e.st /\ RosterOf(e).mem = e.mem
<1>1. e \in GroupMail
  BY DEF GroupTypes
<1> QED
  BY <1>1 DEF GroupMail, RosterOf, Rosters

(* What a device reaches in a group grows with what can move it.           *)
LEMMA DeviceReachGrows ==
  ASSUME GroupTypes, nst' \in Nat, nst <= nst', NEW g \in GroupIds, GroupFits(g), NEW d \in Devices,
         View(d, g)'.st = View(d, g).st,
         \A e \in Moves(d, g) : e \in post'[d],
         \A e \in Moves(d, g) : e.kind = "welcome" => e.pkg \in dev'[d].keys,
         \A e \in post[d] : e.kind # "message" => e.st > 0
  PROVE  Reach(d, g) \subseteq Reach(d, g)'
<1> DEFINE v == View(d, g).st
           P == post[d]
           Q == post'[d]
           K == dev[d].keys
           L == dev'[d].keys
<1>1. nst \in Nat
  BY DEF GroupTypes
<1>2. head[g].st <= nst /\ head[g].st \in Nat
  BY ViewTyped DEF GroupFits, HeadFits
<1>3. v \in 0..nst
  <2>1. v <= head[g].st
    BY DEF GroupFits, ViewFits, RosterFits
  <2> QED
    BY <1>1, <1>2, <2>1, ViewTyped
<1>4. ASSUME NEW e \in P, e.g = g, e.kind # "message"
      PROVE  e \in Q /\ e.st \in 1..nst
  <2>1. e \in Moves(d, g)
    BY <1>4 DEF Moves
  <2>2. e.st <= head[g].st
    BY <2>1, EnvelopeTyped, <1>4 DEF GroupFits, MovesFit, RosterFits
  <2> QED
    BY <1>1, <1>2, <1>4, <2>1, <2>2, EnvelopeTyped
<1>5. ASSUME NEW e \in P, e.g = g, e.kind = "welcome", e.pkg \in K
      PROVE  e.pkg \in L
  BY <1>5 DEF Moves
<1> HIDE DEF v, P, Q, K, L
<1>6. ReachOf(nst, v, P, K, g) \subseteq ReachOf(nst', v, Q, L, g)
  BY <1>1, <1>3, <1>4, <1>5, ReachGrows
<1> QED
  BY <1>6, ReachIs DEF v, P, Q, K, L

(* A step that leaves a group alone: nothing that moves a device in it, no *)
(* view, no key of a welcome; its messages wait or were read.              *)
Alone(g) ==
  /\ head'[g] = head[g] /\ ever'[g] = ever[g] /\ nst <= nst'
  /\ \A d \in Devices :
       /\ View(d, g)' = View(d, g) /\ Moves(d, g)' = Moves(d, g) /\ past[d] \subseteq past'[d]
       /\ \A e \in Moves(d, g) : e.kind = "welcome" => e.pkg \in dev'[d].keys
       /\ \A e \in post[d] : e.kind = "message" => e \in post'[d] \/ <<d, e.text>> \in heard'
  /\ heard \subseteq heard'
  /\ \A t \in Texts : said'[t].g = g => said'[t] = said[t] \/ SaidFits(t, g)'

(* A roster fits as long as nobody loses a state it could reach.           *)
LEMMA RosterStays ==
  ASSUME GroupTypes, NEW g \in GroupIds, NEW r \in Rosters, RosterFits(r, g),
         head'[g] = head[g], ever'[g] = ever[g],
         \A d \in Devices : past[d] \cup Reach(d, g) \subseteq past'[d] \cup Reach(d, g)'
  PROVE  RosterFits(r, g)'
<1>1. r.mem \subseteq Devices
  BY DEF Rosters
<1>2. \A x \in r.mem : r.st \in past'[x] \cup Reach(x, g)'
  BY <1>1 DEF RosterFits
<1> QED
  BY <1>2 DEF RosterFits

(* A group that a step leaves alone fits as before.                        *)
LEMMA AloneStays ==
  ASSUME GroupTypes, GroupTypes', GroupsExist, NEW g \in GroupIds, GroupFits(g), Alone(g)
  PROVE  GroupFits(g)'
<1>0. nst \in Nat /\ nst' \in Nat /\ nst <= nst' /\ head'[g] = head[g] /\ ever'[g] = ever[g]
  BY DEF GroupTypes, Alone
<1>1. \A d \in Devices : Reach(d, g) \subseteq Reach(d, g)' /\ past[d] \subseteq past'[d]
  <2> TAKE d \in Devices
  <2>1. View(d, g)'.st = View(d, g).st /\ Moves(d, g)' = Moves(d, g) /\ past[d] \subseteq past'[d]
    BY DEF Alone
  <2>2. \A e \in Moves(d, g) : e \in post'[d]
    BY <2>1 DEF Moves
  <2>3. \A e \in Moves(d, g) : e.kind = "welcome" => e.pkg \in dev'[d].keys
    BY DEF Alone
  <2>4. \A e \in post[d] : e.kind # "message" => e.st > 0
    BY DEF GroupsExist
  <2> QED
    BY <1>0, <2>1, <2>2, <2>3, <2>4, DeviceReachGrows
<1>11. \A d \in Devices : past[d] \cup Reach(d, g) \subseteq past'[d] \cup Reach(d, g)'
  BY <1>1
<1>2. HeadFits(g)'
  <2>1. HeadFits(g)
    BY DEF GroupFits
  <2>2. head[g].st \in Nat /\ head[g].mem \subseteq Devices
    BY DEF GroupTypes, Rosters
  <2>3. head[g].st <= nst'
    BY <1>0, <2>1, <2>2 DEF HeadFits
  <2>4. \A d \in head[g].mem : head[g].st \in Reach(d, g)'
    BY <1>1, <2>1, <2>2 DEF HeadFits
  <2> QED
    BY <1>0, <2>1, <2>3, <2>4 DEF HeadFits
<1>3. ASSUME NEW d \in Devices
      PROVE  ViewFits(d, g)'
  <2>1. ViewFits(d, g) /\ View(d, g)' = View(d, g)
    BY DEF GroupFits, Alone
  <2>2. RosterFits(View(d, g), g) /\ View(d, g) \in Rosters
    BY <2>1, ViewTyped DEF ViewFits
  <2> DEFINE r == View(d, g)
  <2>3. r \in Rosters /\ RosterFits(r, g)
    BY <2>2
  <2>4. PICK q \in Rosters : q = r
    BY <2>3
  <2>5. RosterFits(q, g)'
    BY <2>3, <2>4, <1>0, <1>11, RosterStays
  <2> QED
    BY <2>1, <2>4, <2>5 DEF ViewFits, RosterFits
<1>4. ASSUME NEW d \in Devices
      PROVE  MovesFit(d, g)'
  <2>1. MovesFit(d, g) /\ View(d, g)' = View(d, g) /\ Moves(d, g)' = Moves(d, g)
    BY DEF GroupFits, Alone
  <2>2. ASSUME NEW e \in Moves(d, g)
        PROVE  RosterFits(RosterOf(e), g)'
    <3>1. RosterFits(RosterOf(e), g) /\ e \in post[d]
      BY <2>1 DEF MovesFit, Moves
    <3>2. PICK q \in Rosters : q = RosterOf(e)
      BY <3>1, EnvelopeTyped
    <3>3. RosterFits(q, g)'
      BY <3>1, <3>2, <1>0, <1>11, RosterStays
    <3> QED
      BY <3>2, <3>3 DEF RosterOf
  <2>3. \A e \in Moves(d, g) : e.kind = "welcome" => e.pkg \in dev'[d].keys
    BY DEF Alone
  <2> QED
    BY <2>1, <2>2, <2>3 DEF MovesFit
<1>5. ASSUME NEW t \in Texts, said'[t].g = g
      PROVE  SaidFits(t, g)'
  <2>1. CASE said'[t] = said[t]
    <3>1. SaidFits(t, g) /\ said[t].g = g
      BY <1>5, <2>1 DEF GroupFits
    <3>2. said[t].to \subseteq Devices
      BY DEF GroupTypes
    <3>3. ASSUME NEW d \in said[t].to
          PROVE  \/ <<d, t>> \in heard'
                 \/ said[t].st \in past'[d]
                 \/ MessageFor(g, said[t].st, t) \in post'[d] /\ said[t].st \in Reach(d, g)'
      <4>1. d \in Devices
        BY <3>2
      <4>2. past[d] \subseteq past'[d] /\ heard \subseteq heard' /\ Reach(d, g) \subseteq Reach(d, g)'
        BY <4>1, <1>1 DEF Alone
      <4>3. MessageFor(g, said[t].st, t) \in post[d] =>
              MessageFor(g, said[t].st, t) \in post'[d] \/ <<d, t>> \in heard'
        BY <4>1 DEF Alone, MessageFor
      <4> QED
        BY <3>1, <4>2, <4>3 DEF SaidFits
    <3> QED
      BY <2>1, <3>3 DEF SaidFits, MessageFor
  <2> QED
    BY <1>5, <2>1 DEF Alone
<1> QED
  BY <1>2, <1>3, <1>4, <1>5 DEF GroupFits

----------------------------------------------------------------------------
(* The steps that change no group: the chain's registry, a reconciliation's*)
(* own state.                                                              *)

LEMMA RecTyped ==
  ASSUME GroupTypes, NEW d \in Devices
  PROVE  /\ rec[d] \in Reconciliations /\ rec[d].todo \subseteq GroupIds
         /\ rec[d].adds \subseteq Addresses /\ rec[d].on \in BOOLEAN
         /\ Started(d) \in Reconciliations /\ Started(d).todo = Groups(d) /\ Started(d).adds = {}
         /\ Idle \in Reconciliations /\ ~Idle.on
<1>1. rec[d] \in Reconciliations
  BY DEF GroupTypes
<1>2. rec[d].todo \subseteq GroupIds /\ rec[d].adds \subseteq Addresses /\ rec[d].on \in BOOLEAN
  BY <1>1 DEF Reconciliations
<1>3. Started(d) \in [on : {TRUE}, todo : {Groups(d)}, unknown : {{}}, g : {0}, adds : {{}}]
  <2> DEFINE G == Groups(d)
  <2> HIDE DEF G
  <2>1. Idle \in [on : {FALSE}, todo : {{}}, unknown : {{}}, g : {0}, adds : {{}}]
    BY DEF Idle
  <2>2. [Idle EXCEPT !.on = TRUE, !.todo = G] \in
          [on : {TRUE}, todo : {G}, unknown : {{}}, g : {0}, adds : {{}}]
    BY <2>1
  <2> QED
    BY <2>2 DEF Started, G
<1>4. Groups(d) \subseteq GroupIds
  BY DEF Groups
<1> QED
  BY <1>1, <1>2, <1>3, <1>4 DEF Reconciliations, Idle

\* What the invariant looks at, but for the reconciliations.
quietVars == <<gsc, once, last, minted, dev, disk, post, nst, said, head, hurt, dead, past, ever, heard>>

(* A step that changes no group and no mailbox keeps the invariant.        *)
LEMMA QuietKeeps ==
  ASSUME GroupInv, UNCHANGED quietVars, rec' \in [Devices -> Reconciliations], RecsFit'
  PROVE  GroupInv'
<1> USE DEF quietVars
<1>1. GroupTypes'
  BY DEF GroupInv, GroupTypes
<1>2. PackagesFit'
  BY DEF GroupInv, PackagesFit, OnceFits, WelcomesFit, Welcomes
<1>3. GroupsExist'
  BY DEF GroupInv, GroupsExist, NoTrace, View
<1>4. ASSUME NEW g \in GroupIds \ hurt'
      PROVE  GroupFits(g)'
  <2>1. nst \in Nat /\ GroupFits(g)
    BY DEF GroupInv, GroupTypes, GroupsFit
  <2>2. Alone(g)
    BY <2>1 DEF Alone, View, Moves, GroupFits, MovesFit
  <2> QED
    BY <1>1, <2>1, <2>2, AloneStays DEF GroupInv
<1> QED
  BY <1>1, <1>2, <1>3, <1>4 DEF GroupInv, GroupsFit

LEMMA RegisterKeeps ==
  ASSUME GroupInv, NEW d \in Devices, Register(d)
  PROVE  GroupInv'
<1>1. UNCHANGED quietVars /\ rec' = rec
  BY DEF Register, quietVars
<1>2. RecsFit' /\ rec' \in [Devices -> Reconciliations]
  BY <1>1 DEF GroupInv, GroupTypes, RecsFit, View, quietVars
<1> QED
  BY <1>1, <1>2, QuietKeeps

(* A reconciliation that begins, is told a lookup failed, or ends.         *)
LEMMA ReconcileKeeps ==
  ASSUME GroupInv, NEW d \in Devices, NEW r \in Reconciliations, UNCHANGED quietVars,
         rec' = [rec EXCEPT ![d] = r],
         r.on => /\ \A g \in r.todo : View(d, g) # NoView
                 /\ r.adds # {} => r.g \in GroupIds /\ View(d, r.g) # NoView
  PROVE  GroupInv'
<1>1. rec' \in [Devices -> Reconciliations]
  BY DEF GroupInv, GroupTypes
<1>2. \A x \in Devices : rec'[x] = IF x = d THEN r ELSE rec[x]
  BY DEF GroupInv, GroupTypes
<1>3. RecsFit'
  BY <1>2 DEF GroupInv, RecsFit, View, quietVars
<1> QED
  BY <1>1, <1>3, QuietKeeps

LEMMA StartKeeps ==
  ASSUME GroupInv, NEW d \in Devices,
         StartReconcile(d) \/ EndReconcile(d) \/ \E x \in Devices : Revoke(d, x)
  PROVE  GroupInv'
<1>1. UNCHANGED quietVars
  BY DEF StartReconcile, EndReconcile, Revoke, quietVars
<1>2. rec' = [rec EXCEPT ![d] = Started(d)] \/ rec' = [rec EXCEPT ![d] = Idle]
  BY DEF StartReconcile, EndReconcile, Revoke
<1>3. /\ Started(d) \in Reconciliations /\ Started(d).todo = Groups(d) /\ Started(d).adds = {}
      /\ Idle \in Reconciliations /\ ~Idle.on
  BY RecTyped DEF GroupInv
<1>4. \A g \in Groups(d) : View(d, g) # NoView
  BY DEF Groups
<1>5. PICK r \in Reconciliations :
        /\ rec' = [rec EXCEPT ![d] = r]
        /\ r.on => /\ \A g \in r.todo : View(d, g) # NoView
                   /\ r.adds = {}
  <2>1. CASE rec' = [rec EXCEPT ![d] = Started(d)]
    BY <2>1, <1>3, <1>4
  <2>2. CASE rec' = [rec EXCEPT ![d] = Idle]
    BY <2>2, <1>3
  <2> QED
    BY <1>2, <2>1, <2>2
<1> QED
  BY <1>1, <1>5, ReconcileKeeps

LEMMA LookupFailsKeeps ==
  ASSUME GroupInv, NEW d \in Devices, NEW a \in Addresses, LookupFails(d, a)
  PROVE  GroupInv'
<1>1. UNCHANGED quietVars
  BY DEF LookupFails, quietVars
<1>2. rec[d] \in Reconciliations
  BY RecTyped DEF GroupInv
<1> DEFINE r == [rec[d] EXCEPT !.unknown = @ \cup {a}]
<1>3. /\ r \in Reconciliations
      /\ r.on = rec[d].on /\ r.todo = rec[d].todo /\ r.g = rec[d].g /\ r.adds = rec[d].adds
  BY <1>2 DEF Reconciliations
<1>4. rec' = [rec EXCEPT ![d] = r]
  BY DEF LookupFails
<1> HIDE DEF r
<1>5. r.on => /\ \A g \in r.todo : View(d, g) # NoView
              /\ r.adds # {} => r.g \in GroupIds /\ View(d, r.g) # NoView
  BY <1>3 DEF GroupInv, RecsFit
<1> QED
  BY <1>1, <1>3, <1>4, <1>5, ReconcileKeeps

----------------------------------------------------------------------------
(* The steps of one device that move nobody: a vault saved or lost, keys   *)
(* published, a message sent.                                              *)

(* Packages fit when none was fetched, made or lost.                       *)
LEMMA PackagesStay ==
  ASSUME PackagesFit, UNCHANGED <<once, minted, dead>>,
         \A d \in Devices : /\ dev'[d].keys = dev[d].keys /\ 1 \in disk'[d].keys
                            /\ Welcomes(d)' \subseteq Welcomes(d)
  PROVE  PackagesFit'
<1> SUFFICES ASSUME NEW d \in Devices
             PROVE  1 \in dev'[d].keys /\ 1 \in disk'[d].keys /\ OnceFits(d)' /\ WelcomesFit(d)'
  BY DEF PackagesFit
<1>1. 1 \in dev[d].keys /\ OnceFits(d) /\ WelcomesFit(d)
  BY DEF PackagesFit
<1>2. OnceFits(d)'
  BY <1>1 DEF OnceFits
<1>3. WelcomesFit(d)'
  BY <1>1 DEF WelcomesFit
<1> QED
  BY <1>1, <1>2, <1>3

(* SaveVault: the saved copy has the same groups and keys.                 *)
LEMMA SaveVaultKeeps ==
  ASSUME GroupInv, NEW d \in Devices, SaveVault(d)
  PROVE  GroupInv'
<1> USE DEF GroupInv
<1>1. /\ UNCHANGED <<gsc, once, last, minted, dev, post, rec, nst, said, head, hurt, dead, past, ever, heard>>
      /\ disk' = [disk EXCEPT ![d] = dev[d]]
  BY DEF SaveVault
<1>2. \A x \in Devices : disk'[x] = IF x = d THEN dev[x] ELSE disk[x]
  BY <1>1 DEF GroupTypes
<1>3. GroupTypes'
  <2>1. dev[d] \in DeviceStates /\ disk \in [Devices -> DeviceStates]
    BY DEF GroupTypes
  <2>2. disk' \in [Devices -> DeviceStates]
    BY <1>1, <2>1
  <2> QED
    BY <1>1, <2>2 DEF GroupTypes
<1>4. PackagesFit'
  <2>1. \A x \in Devices : /\ dev'[x].keys = dev[x].keys /\ 1 \in disk'[x].keys
                           /\ Welcomes(x)' \subseteq Welcomes(x)
    BY <1>1, <1>2 DEF PackagesFit, Welcomes
  <2> QED
    BY <1>1, <2>1, PackagesStay
<1>5. GroupsExist'
  BY <1>1, <1>2 DEF GroupsExist, NoTrace, View
<1>6. RecsFit'
  BY <1>1 DEF RecsFit, View
<1>7. ASSUME NEW g \in GroupIds \ hurt'
      PROVE  GroupFits(g)'
  <2>1. nst \in Nat /\ GroupFits(g)
    BY <1>1 DEF GroupTypes, GroupsFit
  <2>2. Alone(g)
    BY <1>1, <2>1 DEF Alone, View, Moves, GroupFits, MovesFit
  <2> QED
    BY <1>3, <2>1, <2>2, AloneStays
<1> QED
  BY <1>3, <1>4, <1>5, <1>6, <1>7 DEF GroupsFit

(* CrashDevice: a group whose view or welcome it takes back is hurt, and the*)
(* keys it takes back are dead.                                            *)
LEMMA CrashKeeps ==
  ASSUME GroupInv, NEW d \in Devices, CrashDevice(d)
  PROVE  GroupInv'
<1> USE DEF GroupInv
<1>1. /\ UNCHANGED <<gsc, once, last, minted, disk, post, nst, said, head, past, ever, heard>>
      /\ dev' = [dev EXCEPT ![d] = disk[d]]
      /\ dead' = [dead EXCEPT ![d] = @ \cup (dev[d].keys \ disk[d].keys)]
      /\ hurt' = hurt \cup {g \in GroupIds : View(d, g) # disk[d].view[g]}
                   \cup {e.g : e \in {x \in post[d] : x.kind = "welcome" /\ x.pkg \notin disk[d].keys}}
      /\ rec' = [rec EXCEPT ![d] = Idle]
  BY DEF CrashDevice
<1>2. /\ \A x \in Devices : dev'[x] = IF x = d THEN disk[x] ELSE dev[x]
      /\ \A x \in Devices : rec'[x] = IF x = d THEN Idle ELSE rec[x]
      /\ \A x \in Devices : dead'[x] = IF x = d THEN dead[x] \cup (dev[x].keys \ disk[x].keys) ELSE dead[x]
  BY <1>1 DEF GroupTypes
<1>3. GroupTypes'
  <2>1. dev[d] \in DeviceStates /\ disk[d] \in DeviceStates /\ dev \in [Devices -> DeviceStates]
    BY DEF GroupTypes
  <2>2. dev' \in [Devices -> DeviceStates]
    BY <1>1, <2>1
  <2>3. dead' \in [Devices -> SUBSET Nat]
    <3>1. dev[d].keys \subseteq Nat
      BY <2>1 DEF DeviceStates
    <3> QED
      BY <1>1, <3>1 DEF GroupTypes
  <2>4. rec' \in [Devices -> Reconciliations]
    BY <1>1, RecTyped DEF GroupTypes
  <2> QED
    BY <1>1, <2>2, <2>3, <2>4 DEF GroupTypes
<1>4. PackagesFit'
  <2> SUFFICES ASSUME NEW x \in Devices
               PROVE  1 \in dev'[x].keys /\ 1 \in disk'[x].keys /\ OnceFits(x)' /\ WelcomesFit(x)'
    BY DEF PackagesFit
  <2>1. 1 \in dev[x].keys /\ 1 \in disk[x].keys /\ OnceFits(x) /\ WelcomesFit(x)
    BY DEF PackagesFit
  <2>2. dev[x].keys \cup dead[x] \subseteq dev'[x].keys \cup dead'[x]
    BY <1>2
  <2>3. OnceFits(x)'
    BY <1>1, <2>1, <2>2 DEF OnceFits
  <2>4. WelcomesFit(x)'
    BY <1>1, <2>1 DEF WelcomesFit, Welcomes
  <2> QED
    BY <1>1, <1>2, <2>1, <2>3, <2>4
<1>5. GroupsExist'
  BY <1>1, <1>2 DEF GroupsExist, NoTrace, View
<1>6. RecsFit'
  BY <1>2, RecTyped DEF RecsFit, View
<1>7. ASSUME NEW g \in GroupIds \ hurt'
      PROVE  GroupFits(g)'
  <2>1. nst \in Nat /\ GroupFits(g)
    BY <1>1 DEF GroupTypes, GroupsFit
  <2>2. ASSUME NEW x \in Devices
        PROVE  /\ View(x, g)' = View(x, g)
               /\ \A e \in Moves(x, g) : e.kind = "welcome" => e.pkg \in dev'[x].keys
    <3>1. CASE x = d
      BY <1>1, <1>2, <3>1 DEF View, Moves
    <3>2. CASE x # d
      BY <1>2, <2>1, <3>2 DEF View, GroupFits, MovesFit
    <3> QED
      BY <3>1, <3>2
  <2>3. Alone(g)
    BY <1>1, <2>1, <2>2 DEF Alone, Moves
  <2> QED
    BY <1>3, <2>1, <2>3, AloneStays
<1> QED
  BY <1>3, <1>4, <1>5, <1>6, <1>7 DEF GroupsFit

(* publish: the new packages have numbers of their own.                    *)
LEMMA PublishKeeps ==
  ASSUME GroupInv, NEW d \in Devices, Publish(d)
  PROVE  GroupInv'
<1> USE DEF GroupInv
<1>1. dev[d] \in DeviceStates /\ dev[d].lr = 1 /\ dev[d].keys \subseteq Nat /\ minted[d] \in Nat
      /\ once[d] \in Seq(Nat) /\ Len(once[d]) \in Nat
  BY DEF GroupTypes, DeviceStates
<1>2. PICK made \in Nat :
        /\ once' = [once EXCEPT ![d] = @ \o [i \in 1..made |-> minted[d] + i]]
        /\ minted' = [minted EXCEPT ![d] = minted[d] + made]
        /\ last' = [last EXCEPT ![d] = 1]
        /\ dev' = [dev EXCEPT ![d].lr = 1,
                              ![d].keys = @ \cup {1} \cup minted[d] + 1..minted[d] + made]
  <2>1. PICK m \in {KeyPackageBatch - Len(once[d]), 0} :
        /\ m >= 0
        /\ once' = [once EXCEPT ![d] = @ \o [i \in 1..m |-> minted[d] + i]]
        /\ minted' = [minted EXCEPT ![d] = minted[d] + m]
        /\ last' = [last EXCEPT ![d] = 1]
        /\ dev' = [dev EXCEPT ![d].lr = 1,
                              ![d].keys = @ \cup {1} \cup minted[d] + 1..minted[d] + m]
    <3>1. PICK m \in {KeyPackageBatch - Len(once[d]), 0} :
            LET lr == IF dev[d].lr = 0 THEN minted[d] + 1 ELSE dev[d].lr
                from == IF dev[d].lr = 0 THEN minted[d] + 1 ELSE minted[d]
            IN /\ m >= 0
               /\ last' = [last EXCEPT ![d] = lr]
               /\ once' = [once EXCEPT ![d] = @ \o [i \in 1..m |-> from + i]]
               /\ minted' = [minted EXCEPT ![d] = from + m]
               /\ dev' = [dev EXCEPT ![d].lr = lr, ![d].keys = @ \cup {lr} \cup from + 1..from + m]
      BY DEF Publish
    <3>2. ~(dev[d].lr = 0)
      BY <1>1
    <3> QED
      BY <1>1, <3>1, <3>2, Zenon
  <2>2. m \in Nat
    BY <1>1, <2>1, BatchAssumption
  <2> QED
    BY <2>1, <2>2
<1>3. UNCHANGED <<gsc, disk, post, rec, nst, said, head, hurt, dead, past, ever, heard>>
  BY DEF Publish
<1> DEFINE ids == [i \in 1..made |-> minted[d] + i]
<1>4. ids \in Seq(Nat) /\ Len(ids) = made /\ \A i \in 1..made : ids[i] = minted[d] + i
  BY <1>1, <1>2
<1>5. \A x \in Devices : dev'[x] \in DeviceStates /\ dev'[x].view = dev[x].view
        /\ dev'[x].keys = IF x = d THEN dev[x].keys \cup {1} \cup minted[d] + 1..minted[d] + made ELSE dev[x].keys
  <2> DEFINE K == dev[d].keys \cup {1} \cup minted[d] + 1..minted[d] + made
             r == [dev[d] EXCEPT !.lr = 1, !.keys = K]
  <2>1. K \subseteq Nat
    BY <1>1
  <2>2. \A x \in Devices : dev'[x] = IF x = d THEN r ELSE dev[x]
    BY <1>2 DEF GroupTypes
  <2> HIDE DEF K
  <2>3. r \in DeviceStates /\ r.view = dev[d].view /\ r.keys = K
    BY <1>1, <2>1 DEF DeviceStates
  <2> HIDE DEF r
  <2> QED
    BY <2>2, <2>3 DEF GroupTypes, K
<1> HIDE DEF ids
<1>6. GroupTypes'
  <2>1. dev' \in [Devices -> DeviceStates]
    BY <1>2, <1>5 DEF GroupTypes
  <2>2. once' \in [Devices -> Seq(Nat)]
    <3>1. once[d] \o ids \in Seq(Nat)
      BY <1>1, <1>4
    <3>2. once' = [once EXCEPT ![d] = once[d] \o ids]
      BY <1>2 DEF ids
    <3> QED
      BY <3>1, <3>2 DEF GroupTypes
  <2>3. minted' \in [Devices -> Nat] /\ last' = [x \in Devices |-> 1]
    BY <1>1, <1>2 DEF GroupTypes
  <2> QED
    BY <1>3, <2>1, <2>2, <2>3 DEF GroupTypes
<1>7. PackagesFit'
  <2> SUFFICES ASSUME NEW x \in Devices
               PROVE  1 \in dev'[x].keys /\ 1 \in disk'[x].keys /\ OnceFits(x)' /\ WelcomesFit(x)'
    BY DEF PackagesFit
  <2>1. 1 \in dev[x].keys /\ 1 \in disk[x].keys /\ OnceFits(x) /\ WelcomesFit(x)
    BY DEF PackagesFit
  <2>2. CASE x # d
    <3>1. once'[x] = once[x] /\ minted'[x] = minted[x] /\ dev'[x].keys = dev[x].keys
      BY <1>2, <1>5, <2>2 DEF GroupTypes
    <3>2. OnceFits(x)'
      BY <1>3, <2>1, <3>1 DEF OnceFits
    <3>3. WelcomesFit(x)'
      BY <1>3, <2>1, <3>1 DEF WelcomesFit, Welcomes
    <3> QED
      BY <1>3, <2>1, <3>1, <3>2, <3>3
  <2>3. CASE x = d
    <3> DEFINE o == once[d]
               q == once'[d]
               k == Len(o)
    <3>1. q = o \o ids /\ minted'[d] = minted[d] + made
      BY <1>2 DEF GroupTypes, ids
    <3>2. /\ Len(q) = k + made
          /\ \A i \in 1..Len(q) : q[i] = IF i <= k THEN o[i] ELSE minted[d] + (i - k)
      <4>1. /\ Len(o \o ids) = Len(o) + Len(ids)
            /\ \A i \in 1..Len(o) + Len(ids) :
                 (o \o ids)[i] = IF i <= Len(o) THEN o[i] ELSE ids[i - Len(o)]
        BY <1>1, <1>4, ConcatProperties
      <4>2. \A i \in 1..k + made : ~(i <= k) => ids[i - k] = minted[d] + (i - k)
        BY <1>1, <1>2, <1>4
      <4> QED
        BY <3>1, <4>1, <4>2, <1>4
    <3>3. k \in Nat /\ made \in Nat /\ minted[d] \in Nat /\ minted[d] >= 1
          /\ \A i \in 1..k : o[i] \in Nat /\ o[i] # 1 /\ o[i] <= minted[d] /\ o[i] \in dev[d].keys \cup dead[d]
      BY <1>1, <1>2, <2>1, <2>3 DEF OnceFits
    <3>4. \A i, j \in 1..k : o[i] = o[j] => i = j
      BY <2>1, <2>3 DEF OnceFits
    <3> HIDE DEF o, q, k
    <3>5. \A i \in 1..Len(q) : q[i] # 1 /\ q[i] <= minted[d] + made
      BY <3>2, <3>3
    <3>6. \A i \in 1..Len(q) : q[i] \in dev'[d].keys \cup dead'[d]
      <4> TAKE i \in 1..Len(q)
      <4>1. CASE i <= k
        <5>1. i \in 1..k /\ q[i] = o[i]
          BY <4>1, <3>2, <3>3
        <5>2. o[i] \in dev[d].keys \cup dead[d]
          BY <5>1, <3>3
        <5>3. dev[d].keys \subseteq dev'[d].keys /\ dead'[d] = dead[d]
          BY <1>3, <1>5
        <5> QED
          BY <5>1, <5>2, <5>3
      <4>2. CASE ~(i <= k)
        <5>1. q[i] \in minted[d] + 1..minted[d] + made
          BY <4>2, <3>2, <3>3
        <5> QED
          BY <5>1, <1>5
      <4> QED
        BY <4>1, <4>2
    <3>7. \A i, j \in 1..Len(q) : q[i] = q[j] => i = j
      BY <3>2, <3>3, <3>4
    <3>8. OnceFits(d)'
      BY <3>1, <3>3, <3>5, <3>6, <3>7 DEF OnceFits, q
    <3>9. WelcomesFit(d)'
      <4>1. ASSUME NEW e \in Welcomes(d)
            PROVE  /\ e.pkg <= minted[d] + made
                   /\ e.pkg # 1 => \A i \in 1..Len(q) : q[i] # e.pkg
        <5>1. e.pkg <= minted[d] /\ (e.pkg # 1 => \A i \in 1..k : o[i] # e.pkg) /\ e.pkg \in Nat
          BY <2>1, <2>3, EnvelopeTyped DEF WelcomesFit, Welcomes, o, k
        <5> QED
          BY <5>1, <3>2, <3>3
      <4>2. Welcomes(d)' = Welcomes(d)
        BY <1>3 DEF Welcomes
      <4> QED
        BY <2>1, <2>3, <3>1, <4>1, <4>2 DEF WelcomesFit, q
    <3> QED
      BY <1>3, <1>5, <2>1, <2>3, <3>8, <3>9
  <2> QED
    BY <2>2, <2>3
<1>8. \A x \in Devices, g \in GroupIds : View(x, g)' = View(x, g)
  BY <1>5 DEF View
<1>9. GroupsExist' /\ RecsFit'
  <2>1. GroupsExist'
    BY <1>3, <1>8 DEF GroupsExist, NoTrace
  <2>2. \A x \in Devices : rec[x].todo \subseteq GroupIds
    BY RecTyped
  <2>3. RecsFit'
    BY <1>3, <1>8, <2>2 DEF RecsFit
  <2> QED
    BY <2>1, <2>3
<1>10. ASSUME NEW g \in GroupIds \ hurt'
      PROVE  GroupFits(g)'
  <2>1. nst \in Nat /\ GroupFits(g)
    BY <1>3 DEF GroupTypes, GroupsFit
  <2>2. ASSUME NEW x \in Devices
        PROVE  /\ View(x, g)' = View(x, g)
               /\ \A e \in Moves(x, g) : e.kind = "welcome" => e.pkg \in dev'[x].keys
    BY <1>5, <2>1 DEF View, GroupFits, MovesFit
  <2>3. Alone(g)
    BY <1>3, <2>1, <2>2 DEF Alone, Moves
  <2> QED
    BY <1>6, <2>1, <2>3, AloneStays
<1> QED
  BY <1>6, <1>7, <1>8, <1>9, <1>10, <1>3 DEF GroupsFit

----------------------------------------------------------------------------
(* A message sent, and what is read from a mailbox.                        *)

(* SendText: whoever the message goes to is, was or will be in its state.  *)
LEMMA SendKeeps ==
  ASSUME GroupInv, NEW d \in Devices, NEW as, NEW text \in Texts, SendText(d, as, text)
  PROVE  GroupInv'
<1> USE DEF GroupInv
<1>1. UNCHANGED <<gsc, once, last, minted, dev, disk, rec, nst, head, hurt, dead, past, ever, heard>>
  BY DEF SendText
<1>2. PICK g \in GroupIds, sent \in SUBSET Devices :
        /\ View(d, g) # NoView /\ sent \subseteq View(d, g).mem \ {d}
        /\ post' = [t \in Devices |-> IF t \in sent THEN post[t] \cup {MessageFor(g, View(d, g).st, text)}
                                      ELSE post[t]]
        /\ said' = [said EXCEPT ![text] = [g |-> g, st |-> View(d, g).st, to |-> sent]]
  <2>1. PICK g \in GroupIds : View(d, g) # NoView /\
          \E sent \in SUBSET (View(d, g).mem \ {d}) :
            /\ post' = [t \in Devices |-> IF t \in sent THEN post[t] \cup {MessageFor(g, View(d, g).st, text)}
                                          ELSE post[t]]
            /\ said' = [said EXCEPT ![text] = [g |-> g, st |-> View(d, g).st, to |-> sent]]
    BY DEF SendText, Found
  <2>2. View(d, g).mem \subseteq Devices
    BY ViewTyped
  <2> QED
    BY <2>1, <2>2
<1> DEFINE st == View(d, g).st
           m == MessageFor(g, st, text)
<1>3. st \in Nat /\ sent \subseteq Devices
  BY <1>2, ViewTyped
<1>4. m \in GroupMail /\ m.kind = "message"
  BY <1>3 DEF MessageFor, GroupMail
<1>5. \A x \in Devices : post'[x] = IF x \in sent THEN post[x] \cup {m} ELSE post[x]
  BY <1>2
<1>6. \A t \in Texts : said'[t] = IF t = text THEN [g |-> g, st |-> st, to |-> sent] ELSE said[t]
  BY <1>2 DEF GroupTypes
<1> HIDE DEF m, st
<1>7. GroupTypes'
  <2>1. post' \in [Devices -> SUBSET GroupMail]
    BY <1>2, <1>4 DEF GroupTypes, m, st
  <2>2. said' \in [Texts -> [g : GroupIds \cup {0}, st : Nat, to : SUBSET Devices]]
    BY <1>2, <1>3 DEF GroupTypes, st
  <2> QED
    BY <1>1, <2>1, <2>2 DEF GroupTypes
<1>8. \A x \in Devices : Welcomes(x)' = Welcomes(x)
  BY <1>4, <1>5 DEF Welcomes
<1>9. \A x \in Devices, h \in GroupIds : Moves(x, h)' = Moves(x, h) /\ View(x, h)' = View(x, h)
  BY <1>1, <1>4, <1>5 DEF Moves, View
<1>10. PackagesFit'
  BY <1>1, <1>8, PackagesStay DEF PackagesFit
<1>11. RecsFit'
  BY <1>1, <1>9, RecTyped DEF RecsFit
<1>12. GroupsExist'
  <2>1. \A x \in Devices : \A e \in post'[x] : e.kind # "message" => e.st > 0
    BY <1>4, <1>5 DEF GroupsExist
  <2>2. ASSUME NEW h \in GroupIds, head[h] = NoView
        PROVE  NoTrace(h)'
    <3>1. NoTrace(h)
      BY <2>2 DEF GroupsExist
    <3>2. h # g /\ m.g = g
      BY <1>2, <3>1 DEF NoTrace, MessageFor, m
    <3> QED
      BY <1>1, <1>5, <1>9, <3>1, <3>2 DEF NoTrace
  <2> QED
    BY <1>1, <2>1, <2>2 DEF GroupsExist
<1>13. ASSUME NEW h \in GroupIds \ hurt'
       PROVE  GroupFits(h)'
  <2>1. nst \in Nat /\ GroupFits(h)
    BY <1>1 DEF GroupTypes, GroupsFit
  <2>2. ASSUME NEW t \in Texts, said'[t].g = h, said'[t] # said[t]
        PROVE  SaidFits(t, h)'
    <3>1. t = text /\ said'[t] = [g |-> g, st |-> st, to |-> sent] /\ h = g
      BY <1>6, <2>2
    <3>2. said'[t].st = st /\ said'[t].to = sent
      BY <3>1
    <3>3. ASSUME NEW x \in sent
          PROVE  st \in past[x] \/ st \in Reach(x, g)'
      <4>1. x \in View(d, g).mem /\ x \in Devices
        BY <1>2, <1>3
      <4>2. RosterFits(View(d, g), g)
        BY <2>1, <3>1 DEF GroupFits, ViewFits
      <4>3. st \in past[x] \cup Reach(x, g)
        BY <4>1, <4>2 DEF RosterFits, st
      <4>4. Reach(x, g) \subseteq Reach(x, g)'
        <5>1. View(x, g)'.st = View(x, g).st
          BY <1>9, <4>1
        <5>2. \A e \in Moves(x, g) : e \in post'[x]
          BY <1>5, <4>1 DEF Moves
        <5>3. \A e \in Moves(x, g) : e.kind = "welcome" => e.pkg \in dev'[x].keys
          BY <1>1, <2>1, <3>1, <4>1 DEF GroupFits, MovesFit
        <5>4. \A e \in post[x] : e.kind # "message" => e.st > 0
          BY <4>1 DEF GroupsExist
        <5>5. nst' \in Nat /\ nst <= nst'
          BY <1>1, <2>1
        <5> QED
          BY <4>1, <5>1, <5>2, <5>3, <5>4, <5>5, <2>1, <3>1, DeviceReachGrows
      <4> QED
        BY <4>3, <4>4
    <3>4. \A x \in sent : MessageFor(g, st, text) \in post'[x]
      BY <1>3, <1>5 DEF m
    <3> QED
      BY <1>1, <3>1, <3>2, <3>3, <3>4 DEF SaidFits, MessageFor
  <2>3. \A x \in Devices : \A e \in post[x] : e \in post'[x]
    BY <1>5
  <2>4. \A x \in Devices : \A e \in Moves(x, h) : e.kind = "welcome" => e.pkg \in dev'[x].keys
    BY <1>1, <2>1 DEF GroupFits, MovesFit
  <2>5. Alone(h)
    BY <1>1, <1>9, <2>1, <2>2, <2>3, <2>4 DEF Alone
  <2> QED
    BY <1>7, <2>1, <2>5, AloneStays
<1> QED
  BY <1>7, <1>10, <1>11, <1>12, <1>13 DEF GroupsFit

(* A message read.                                                         *)
LEMMA ReadMessageKeeps ==
  ASSUME GroupInv, NEW d \in Devices, NEW e \in post[d], Receive(d, e), e.kind = "message"
  PROVE  GroupInv'
<1> USE DEF GroupInv
<1>1. /\ UNCHANGED <<gsc, once, last, minted, dev, disk, rec, nst, said, head, hurt, dead, past, ever>>
      /\ post' = [post EXCEPT ![d] = @ \ {e}]
      /\ heard' = heard \cup {<<d, e.text>>}
  BY DEF Receive
<1>2. \A x \in Devices : post'[x] = IF x = d THEN post[x] \ {e} ELSE post[x]
  BY <1>1 DEF GroupTypes
<1>3. GroupTypes'
  <2>1. post' \in [Devices -> SUBSET GroupMail]
    BY <1>1 DEF GroupTypes
  <2> QED
    BY <1>1, <2>1 DEF GroupTypes
<1>4. \A x \in Devices : Welcomes(x)' = Welcomes(x)
  BY <1>2 DEF Welcomes
<1>5. \A x \in Devices, h \in GroupIds : Moves(x, h)' = Moves(x, h) /\ View(x, h)' = View(x, h)
  BY <1>1, <1>2 DEF Moves, View
<1>6. PackagesFit'
  BY <1>1, <1>4, PackagesStay DEF PackagesFit
<1>7. RecsFit'
  BY <1>1, <1>5, RecTyped DEF RecsFit
<1>8. GroupsExist'
  BY <1>1, <1>2, <1>5 DEF GroupsExist, NoTrace
<1>9. ASSUME NEW h \in GroupIds \ hurt'
      PROVE  GroupFits(h)'
  <2>1. nst \in Nat /\ GroupFits(h)
    BY <1>1 DEF GroupTypes, GroupsFit
  <2>2. \A x \in Devices : \A f \in post[x] : f \in post'[x] \/ <<x, f.text>> \in heard'
    BY <1>1, <1>2
  <2>3. \A x \in Devices : \A f \in Moves(x, h) : f.kind = "welcome" => f.pkg \in dev'[x].keys
    BY <1>1, <2>1 DEF GroupFits, MovesFit
  <2>4. Alone(h)
    BY <1>1, <1>5, <2>1, <2>2, <2>3 DEF Alone
  <2> QED
    BY <1>3, <2>1, <2>4, AloneStays
<1> QED
  BY <1>3, <1>6, <1>7, <1>8, <1>9 DEF GroupsFit

(* What reading a welcome or a commit changes.                             *)
ReadChanges(d, e) ==
  /\ UNCHANGED <<gsc, once, last, minted, disk, rec, nst, said, head, hurt, dead, ever, heard>>
  /\ ~rec[d].on
  /\ \A x \in Devices : post'[x] = IF x = d THEN post[x] \ {e} ELSE post[x]
  /\ \A x \in Devices, h \in GroupIds :
       View(x, h)' = IF x = d /\ h = e.g THEN RosterOf(e) ELSE View(x, h)
  /\ \A x \in Devices :
       dev'[x].keys = IF x = d /\ e.kind = "welcome" THEN dev[x].keys \ ({e.pkg} \ {1}) ELSE dev[x].keys
  /\ \A x \in Devices : past'[x] = IF x = d /\ e.kind = "commit" THEN past[x] \cup {e.base} ELSE past[x]
  /\ e.kind = "welcome" => e.pkg \in dev[d].keys
  /\ e.kind = "commit" => View(d, e.g) # NoView /\ View(d, e.g).st = e.base

LEMMA ReadValues ==
  ASSUME GroupTypes, NEW d \in Devices, NEW e \in post[d], Receive(d, e), e.kind # "message"
  PROVE  GroupTypes' /\ ReadChanges(d, e)
<1>1. /\ UNCHANGED <<gsc, once, last, minted, disk, rec, nst, said, head, hurt, dead, ever>>
      /\ post' = [post EXCEPT ![d] = @ \ {e}]
      /\ heard' = heard
      /\ past' = IF e.kind = "commit" THEN [past EXCEPT ![d] = @ \cup {e.base}] ELSE past
      /\ dev' = [dev EXCEPT ![d].view[e.g] = [st |-> e.st, mem |-> e.mem],
                            ![d].keys = IF e.kind = "welcome" THEN @ \ UsedUp(d, e.pkg) ELSE @]
      /\ ~rec[d].on /\ Readable(d, e)
  BY DEF Receive, AtRest
<1>2. /\ e.kind \in {"welcome", "commit"} /\ e.g \in GroupIds /\ e.base \in Nat
      /\ RosterOf(e) \in Rosters
  BY EnvelopeTyped
<1>3. dev[d] \in DeviceStates /\ dev[d].lr = 1 /\ dev[d].keys \subseteq Nat
      /\ dev[d].view \in [GroupIds -> Rosters]
  BY DEF GroupTypes, DeviceStates
<1> DEFINE K == IF e.kind = "welcome" THEN dev[d].keys \ ({e.pkg} \ {1}) ELSE dev[d].keys
           V == [dev[d].view EXCEPT ![e.g] = RosterOf(e)]
           r == [dev[d] EXCEPT !.view = V, !.keys = K]
<1>4. \A x \in Devices : dev'[x] = IF x = d THEN r ELSE dev[x]
  BY <1>1, <1>3 DEF GroupTypes, UsedUp, RosterOf
<1>5. V \in [GroupIds -> Rosters] /\ K \subseteq Nat
      /\ \A h \in GroupIds : V[h] = IF h = e.g THEN RosterOf(e) ELSE dev[d].view[h]
  BY <1>2, <1>3
<1> HIDE DEF V, K
<1>6. r \in DeviceStates /\ r.view = V /\ r.keys = K
  BY <1>3, <1>5 DEF DeviceStates
<1> HIDE DEF r
<1>7. dev' \in [Devices -> DeviceStates]
  BY <1>1, <1>4, <1>6 DEF GroupTypes
<1>8. past' \in [Devices -> SUBSET Nat] /\ post' \in [Devices -> SUBSET GroupMail]
  BY <1>1, <1>2 DEF GroupTypes
<1>9. GroupTypes'
  BY <1>1, <1>7, <1>8 DEF GroupTypes
<1>10. \A x \in Devices : post'[x] = IF x = d THEN post[x] \ {e} ELSE post[x]
  BY <1>1 DEF GroupTypes
<1>11. \A x \in Devices : past'[x] = IF x = d /\ e.kind = "commit" THEN past[x] \cup {e.base} ELSE past[x]
  BY <1>1 DEF GroupTypes
<1>12. \A x \in Devices, h \in GroupIds :
         View(x, h)' = IF x = d /\ h = e.g THEN RosterOf(e) ELSE View(x, h)
  BY <1>4, <1>5, <1>6 DEF View
<1>13. \A x \in Devices :
         dev'[x].keys = IF x = d /\ e.kind = "welcome" THEN dev[x].keys \ ({e.pkg} \ {1}) ELSE dev[x].keys
  BY <1>4, <1>6 DEF K
<1>14. /\ e.kind = "welcome" => e.pkg \in dev[d].keys
       /\ e.kind = "commit" => View(d, e.g) # NoView /\ View(d, e.g).st = e.base
  BY <1>1 DEF Readable
<1> QED
  BY <1>1, <1>9, <1>10, <1>11, <1>12, <1>13, <1>14 DEF ReadChanges

(* The key of a one-time package goes, and nothing else waits for it.      *)
LEMMA ReadPackages ==
  ASSUME GroupInv, NEW d \in Devices, NEW e \in post[d], Receive(d, e), e.kind # "message"
  PROVE  /\ PackagesFit'
         /\ \A x \in Devices : \A f \in Welcomes(x) : f # e /\ f.pkg \in dev[x].keys => f.pkg \in dev'[x].keys
<1> USE DEF GroupInv
<1>0. ReadChanges(d, e) /\ GroupTypes'
  BY ReadValues
<1>1. /\ UNCHANGED <<once, minted, disk, dead>>
      /\ \A x \in Devices : post'[x] = IF x = d THEN post[x] \ {e} ELSE post[x]
      /\ \A x \in Devices :
           dev'[x].keys = IF x = d /\ e.kind = "welcome" THEN dev[x].keys \ ({e.pkg} \ {1}) ELSE dev[x].keys
  BY <1>0 DEF ReadChanges
<1>2. e.kind = "welcome" => e \in Welcomes(d)
  BY DEF Welcomes
<1>3. \A x \in Devices : 1 \in dev[x].keys /\ 1 \in disk[x].keys /\ OnceFits(x) /\ WelcomesFit(x)
  BY DEF PackagesFit
<1>4. \A x \in Devices : \A f \in Welcomes(x) : f # e /\ f.pkg \in dev[x].keys => f.pkg \in dev'[x].keys
  BY <1>1, <1>2, <1>3 DEF WelcomesFit
<1>5. PackagesFit'
  <2> SUFFICES ASSUME NEW x \in Devices
               PROVE  1 \in dev'[x].keys /\ 1 \in disk'[x].keys /\ OnceFits(x)' /\ WelcomesFit(x)'
    BY DEF PackagesFit
  <2>1. \A i \in 1..Len(once[x]) : once[x][i] \in dev[x].keys => once[x][i] \in dev'[x].keys
    <3> TAKE i \in 1..Len(once[x])
    <3>1. x = d /\ e.kind = "welcome" => once[x][i] # e.pkg \/ e.pkg = 1
      BY <1>2, <1>3 DEF WelcomesFit
    <3> QED
      BY <1>1, <3>1
  <2>2. \A i \in 1..Len(once[x]) : once[x][i] \in dev'[x].keys \cup dead[x]
    BY <1>3, <2>1 DEF OnceFits
  <2>3. OnceFits(x)'
    BY <1>1, <1>3, <2>2 DEF OnceFits
  <2>4. Welcomes(x)' \subseteq Welcomes(x)
    BY <1>1 DEF Welcomes
  <2>5. WelcomesFit(x)'
    BY <1>1, <1>3, <2>4 DEF WelcomesFit
  <2> QED
    BY <1>1, <1>3, <2>3, <2>5
<1> QED
  BY <1>4, <1>5

(* The group that a device is moved in.                                    *)
LEMMA ReadGroup ==
  ASSUME GroupInv, NEW d \in Devices, NEW e \in post[d], Receive(d, e), e.kind # "message",
         e.g \notin hurt
  PROVE  GroupFits(e.g)'
<1> USE DEF GroupInv
<1>0. ReadChanges(d, e) /\ GroupTypes'
  BY ReadValues
<1> DEFINE g == e.g
           n == nst
           b == View(d, g).st
           P == post[d]
           K == dev[d].keys
<1>1. /\ e.kind \in {"welcome", "commit"} /\ g \in GroupIds /\ e.base \in Nat /\ e.st \in Nat
      /\ RosterOf(e) \in Rosters /\ RosterOf(e).st = e.st /\ RosterOf(e).mem = e.mem
      /\ e.mem \subseteq Devices
  BY EnvelopeTyped
<1>2. /\ UNCHANGED <<nst, said, head, hurt, ever, heard>>
      /\ \A x \in Devices : post'[x] = IF x = d THEN post[x] \ {e} ELSE post[x]
      /\ \A x \in Devices, h \in GroupIds :
           View(x, h)' = IF x = d /\ h = e.g THEN RosterOf(e) ELSE View(x, h)
      /\ \A x \in Devices : past'[x] = IF x = d /\ e.kind = "commit" THEN past[x] \cup {e.base} ELSE past[x]
      /\ e.kind = "commit" => View(d, e.g) # NoView /\ View(d, e.g).st = e.base
  BY <1>0 DEF ReadChanges
<1>3. GroupFits(g) /\ nst \in Nat
  BY <1>1 DEF GroupsFit, GroupTypes
<1>4. \A x \in Devices : \A f \in Moves(x, g) : f # e /\ f.kind = "welcome" => f.pkg \in dev'[x].keys
  <2> TAKE x \in Devices
  <2>1. \A f \in Moves(x, g) : f.kind = "welcome" => f \in Welcomes(x) /\ f.pkg \in dev[x].keys
    BY <1>3 DEF Moves, Welcomes, GroupFits, MovesFit
  <2> QED
    BY <2>1, ReadPackages
<1>5. /\ e \in Moves(d, g) /\ RosterFits(RosterOf(e), g) /\ d \in e.mem /\ e.st > 0
      /\ e.kind = "commit" => e.base < e.st
      /\ e.kind = "welcome" => View(d, g) = NoView
      /\ \A f \in Moves(d, g) : f.kind = e.kind /\ (f.kind = "commit" => f.base = e.base) => f = e
  BY <1>3 DEF Moves, GroupFits, MovesFit, GroupsExist
<1>6. /\ e.st <= head[g].st /\ head[g].st <= n /\ head[g].st \in Nat /\ head[g].mem \subseteq Devices
      /\ e.st \in 1..n
  <2>1. head[g].st \in Nat /\ head[g].mem \subseteq Devices
    BY <1>1, ViewTyped
  <2>2. e.st <= head[g].st /\ head[g].st <= n
    BY <1>1, <1>3, <1>5 DEF RosterFits, GroupFits, HeadFits
  <2> QED
    BY <1>1, <1>3, <1>5, <2>1, <2>2
\* What d reached it still reaches, but for the state it leaves.
<1>7. /\ e.kind = "commit" => \A st \in Reach(d, g) : st # e.base => st \in Reach(d, g)'
      /\ e.kind = "welcome" => Reach(d, g) \subseteq Reach(d, g)'
  <2> DEFINE L == dev'[d].keys
  <2>1. Reach(d, g) = ReachOf(n, b, P, K, g) /\ Reach(d, g)' = ReachOf(n, e.st, P \ {e}, L, g)
    <3>1. Reach(d, g)' = ReachOf(nst', View(d, g)'.st, post'[d], dev'[d].keys, g)
      BY ReachIs
    <3>2. Reach(d, g) = ReachOf(nst, View(d, g).st, post[d], dev[d].keys, g)
      BY ReachIs
    <3>3. nst' = nst /\ View(d, g)'.st = e.st /\ post'[d] = post[d] \ {e}
      BY <1>1, <1>2
    <3> QED
      BY <3>1, <3>2, <3>3
  <2>2. CASE e.kind = "commit"
    <3>1. b = e.base /\ e.base \in 1..n
      <4>1. View(d, g) # NoView => View(d, g).st > 0
        BY <1>3 DEF GroupFits, ViewFits
      <4> QED
        BY <1>1, <1>2, <1>3, <1>5, <1>6, <2>2, <4>1
    <3>2. \A f \in P : f.g = g /\ f.kind = "commit" /\ f.base = e.base => f = e
      BY <1>5, <2>2 DEF Moves
    <3>3. dev'[d].keys = dev[d].keys
      BY <1>0, <2>2 DEF ReadChanges
    <3> HIDE DEF b, P, K, n
    <3>4. \A st \in ReachOf(n, e.base, P, K, g) : st # e.base => st \in ReachOf(n, e.st, P \ {e}, K, g)
      BY <1>3, <1>6, <2>2, <3>1, <3>2, ReachAfterCommit DEF n, P
    <3> QED
      BY <2>1, <2>2, <3>1, <3>3, <3>4 DEF K
  <2>3. CASE e.kind = "welcome"
    <3>1. b = 0
      BY <1>5, <2>3 DEF NoView
    <3>2. \A f \in P : f.g = g /\ f.kind = "welcome" => f = e
      BY <1>5, <2>3 DEF Moves
    <3> HIDE DEF b, P, K, n, L
    <3>3. ReachOf(n, 0, P, K, g) \subseteq ReachOf(n, e.st, P \ {e}, L, g)
      BY <1>3, <1>6, <2>3, <3>2, ReachAfterWelcome DEF n, P
    <3> QED
      BY <2>1, <2>3, <3>1, <3>3
  <2> QED
    BY <1>1, <2>2, <2>3
<1> HIDE DEF n, b, P, K
<1>8. \A x \in Devices : x # d => Reach(x, g) \subseteq Reach(x, g)'
  <2> SUFFICES ASSUME NEW x \in Devices, x # d
               PROVE  Reach(x, g) \subseteq Reach(x, g)'
    OBVIOUS
  <2>1. View(x, g)'.st = View(x, g).st /\ post'[x] = post[x] /\ nst' \in Nat /\ nst <= nst'
    <3>1. View(x, g)' = View(x, g) /\ post'[x] = post[x]
      BY <1>1, <1>2
    <3>2. nst' \in Nat /\ nst <= nst'
      BY <1>2, <1>3
    <3> QED
      BY <3>1, <3>2
  <2>2. \A f \in Moves(x, g) : f \in post'[x] /\ (f.kind = "welcome" => f.pkg \in dev'[x].keys)
    <3> TAKE f \in Moves(x, g)
    <3>1. f \in post'[x]
      BY <2>1 DEF Moves
    <3>2. f.kind = "welcome" => f.pkg \in dev'[x].keys
      <4>1. f.kind = "welcome" => f.pkg \in dev[x].keys
        BY <1>3 DEF GroupFits, MovesFit
      <4>2. dev'[x].keys = dev[x].keys
        BY <1>0 DEF ReadChanges
      <4> QED
        BY <4>1, <4>2
    <3> QED
      BY <3>1, <3>2
  <2>3. \A f \in post[x] : f.kind # "message" => f.st > 0
    BY DEF GroupsExist
  <2> QED
    BY <1>1, <1>3, <2>1, <2>2, <2>3, DeviceReachGrows
<1>9. \A x \in Devices : past[x] \cup Reach(x, g) \subseteq past'[x] \cup Reach(x, g)'
  BY <1>1, <1>2, <1>7, <1>8
<1>10. ASSUME NEW r \in Rosters, RosterFits(r, g)
       PROVE  RosterFits(r, g)'
  BY <1>1, <1>2, <1>9, <1>10, RosterStays
<1>11. HeadFits(g)'
  <2>1. HeadFits(g)
    BY <1>3 DEF GroupFits
  <2>2. ASSUME NEW x \in head[g].mem
        PROVE  head[g].st \in Reach(x, g)'
    <3>1. x \in Devices /\ head[g].st \in Reach(x, g)
      BY <1>6, <2>1 DEF HeadFits
    <3>2. e.kind = "commit" => head[g].st # e.base
      BY <1>1, <1>5, <1>6
    <3> QED
      BY <1>1, <1>7, <1>8, <3>1, <3>2
  <2> QED
    BY <1>2, <2>1, <2>2 DEF HeadFits
<1>12. ASSUME NEW x \in Devices
       PROVE  ViewFits(x, g)'
  <2>1. CASE x = d
    <3>1. View(x, g)' = RosterOf(e)
      BY <1>1, <1>2, <2>1
    <3>2. PICK r \in Rosters : r = RosterOf(e)
      BY <1>1
    <3>3. RosterFits(r, g)'
      BY <1>5, <1>10, <3>2
    <3> QED
      BY <1>1, <1>5, <2>1, <3>1, <3>2, <3>3 DEF ViewFits, RosterFits
  <2>2. CASE x # d
    <3>1. View(x, g)' = View(x, g) /\ ViewFits(x, g)
      BY <1>1, <1>2, <1>3, <2>2 DEF GroupFits
    <3>2. PICK r \in Rosters : r = View(x, g)
      BY <1>1, ViewTyped
    <3>3. RosterFits(r, g)'
      BY <1>10, <3>1, <3>2 DEF ViewFits
    <3> QED
      BY <3>1, <3>2, <3>3 DEF ViewFits, RosterFits
  <2> QED
    BY <2>1, <2>2
<1>13. ASSUME NEW x \in Devices
       PROVE  MovesFit(x, g)'
  <2>1. MovesFit(x, g)
    BY <1>3 DEF GroupFits
  <2>2. Moves(x, g)' \subseteq Moves(x, g) /\ (x = d => e \notin Moves(x, g)')
    BY <1>2 DEF Moves
  <2>3. ASSUME NEW f \in Moves(x, g)'
        PROVE  /\ RosterFits(RosterOf(f), g)' /\ x \in f.mem
               /\ f.kind = "commit" => f.base < f.st
               /\ f.kind = "welcome" => f.pkg \in dev'[x].keys /\ View(x, g)' = NoView
    <3>1. f \in Moves(x, g) /\ f \in post[x] /\ (x = d => f # e)
      BY <2>2, <2>3 DEF Moves
    <3>2. RosterFits(RosterOf(f), g)'
      <4>1. PICK r \in Rosters : r = RosterOf(f)
        BY <3>1, EnvelopeTyped
      <4>2. RosterFits(r, g)'
        BY <1>10, <2>1, <3>1, <4>1 DEF MovesFit
      <4> QED
        BY <4>1, <4>2 DEF RosterOf
    <3>3. f.kind = "welcome" => x # d
      BY <1>1, <1>2, <1>5, <2>1, <3>1 DEF MovesFit
    <3>4. f.kind = "welcome" => f.pkg \in dev'[x].keys
      <4>1. f.kind = "welcome" => dev'[x].keys = dev[x].keys
        BY <1>0, <3>3 DEF ReadChanges
      <4> QED
        BY <2>1, <3>1, <4>1 DEF MovesFit
    <3> QED
      BY <1>1, <1>2, <2>1, <3>1, <3>2, <3>3, <3>4 DEF MovesFit
  <2> QED
    BY <2>1, <2>2, <2>3 DEF MovesFit
<1>14. ASSUME NEW t \in Texts, said'[t].g = g
       PROVE  SaidFits(t, g)'
  <2>1. SaidFits(t, g) /\ said'[t] = said[t] /\ said[t].to \subseteq Devices
    BY <1>2, <1>3, <1>14 DEF GroupFits, GroupTypes
  <2> DEFINE m == MessageFor(g, said[t].st, t)
  <2>2. \A x \in Devices : m \in post[x] => m \in post'[x]
    <3>1. m.kind = "message"
      BY DEF MessageFor
    <3> HIDE DEF m
    <3> QED
      BY <1>2, <3>1
  <2> HIDE DEF m
  <2>3. ASSUME NEW x \in said[t].to
        PROVE  \/ <<x, t>> \in heard
               \/ said[t].st \in past'[x]
               \/ m \in post'[x] /\ said[t].st \in Reach(x, g)'
    <3>1. x \in Devices
      BY <2>1
    <3>2. \/ <<x, t>> \in heard
          \/ said[t].st \in past[x]
          \/ m \in post[x] /\ said[t].st \in Reach(x, g)
      BY <2>1 DEF SaidFits, m
    <3> QED
      BY <1>2, <1>9, <2>2, <3>1, <3>2
  <2> QED
    BY <1>2, <2>1, <2>3 DEF SaidFits, m, MessageFor
<1> QED
  BY <1>11, <1>12, <1>13, <1>14 DEF GroupFits

(* Reading a welcome or a commit keeps the invariant.                      *)
LEMMA ReadKeeps ==
  ASSUME GroupInv, NEW d \in Devices, NEW e \in post[d], Receive(d, e), e.kind # "message"
  PROVE  GroupInv'
<1> USE DEF GroupInv
<1>0. ReadChanges(d, e) /\ GroupTypes'
  BY ReadValues
<1>1. /\ GroupTypes'
      /\ UNCHANGED <<nst, rec, disk, said, head, hurt, ever, heard>>
      /\ ~rec[d].on
      /\ \A x \in Devices : post'[x] = IF x = d THEN post[x] \ {e} ELSE post[x]
      /\ \A x \in Devices, h \in GroupIds :
           View(x, h)' = IF x = d /\ h = e.g THEN RosterOf(e) ELSE View(x, h)
      /\ \A x \in Devices : past'[x] = IF x = d /\ e.kind = "commit" THEN past[x] \cup {e.base} ELSE past[x]
  BY <1>0 DEF ReadChanges
<1>2. e.g \in GroupIds
  BY EnvelopeTyped
<1>3. PackagesFit'
  BY ReadPackages
<1>4. RecsFit'
  BY <1>1, RecTyped DEF RecsFit
<1>5. GroupsExist'
  <2>1. ASSUME NEW h \in GroupIds, head[h] = NoView
        PROVE  NoTrace(h)'
    <3>1. NoTrace(h)
      BY <2>1 DEF GroupsExist
    <3>2. h # e.g
      BY <3>1 DEF NoTrace
    <3> QED
      BY <1>1, <3>1, <3>2 DEF NoTrace
  <2> QED
    BY <1>1, <2>1 DEF GroupsExist
<1>6. ASSUME NEW h \in GroupIds \ hurt'
      PROVE  GroupFits(h)'
  <2>1. CASE h = e.g
    BY <1>1, <2>1, ReadGroup
  <2>2. CASE h # e.g
    <3>1. nst \in Nat /\ GroupFits(h)
      BY <1>1 DEF GroupTypes, GroupsFit
    <3>2. ASSUME NEW x \in Devices
          PROVE  /\ View(x, h)' = View(x, h) /\ Moves(x, h)' = Moves(x, h) /\ past[x] \subseteq past'[x]
                 /\ \A f \in post[x] : f.kind = "message" => f \in post'[x]
      BY <1>1, <2>2 DEF Moves
    <3>3. \A x \in Devices : \A f \in Moves(x, h) : f.kind = "welcome" => f.pkg \in dev'[x].keys
      <4> TAKE x \in Devices
      <4>1. \A f \in Moves(x, h) : f.kind = "welcome" => f \in Welcomes(x) /\ f.pkg \in dev[x].keys /\ f # e
        BY <2>2, <3>1 DEF Moves, Welcomes, GroupFits, MovesFit
      <4> QED
        BY <4>1, ReadPackages
    <3>4. Alone(h)
      BY <1>1, <3>1, <3>2, <3>3 DEF Alone
    <3> QED
      BY <1>1, <3>1, <3>4, AloneStays
  <2> QED
    BY <2>1, <2>2
<1> QED
  BY <1>1, <1>3, <1>4, <1>5, <1>6 DEF GroupsFit

----------------------------------------------------------------------------
(* A change of a group: packages fetched, a commit merged and delivered.   *)

(* take_key_package: the oldest one-time package, or the last-resort one.  *)
LEMMA PackageIs ==
  ASSUME GroupTypes, NEW x \in Devices
  PROVE  /\ once[x] \in Seq(Nat) /\ Len(once[x]) \in Nat /\ Package(x) \in Nat
         /\ once[x] = << >> => Package(x) = 1
         /\ once[x] # << >> => Len(once[x]) >= 1 /\ Package(x) = once[x][1]
<1>1. once[x] \in Seq(Nat) /\ last[x] = 1
  BY DEF GroupTypes
<1>2. once[x] # << >> => Len(once[x]) >= 1
  BY <1>1
<1> QED
  BY <1>1, <1>2 DEF Package

(* The oldest package goes to one welcome, and the next fetch gets another.*)
LEMMA PackagesSpent ==
  ASSUME GroupTypes, PackagesFit, NEW new, NEW w, once' = Spent(new),
         UNCHANGED <<minted, dead>>,
         \A x \in Devices : dev'[x].keys = dev[x].keys /\ disk'[x].keys = disk[x].keys,
         \A x \in Devices : \A e \in Welcomes(x)' :
           e \in Welcomes(x) \/ (x \in new /\ e = w[x] /\ e.pkg = Package(x))
  PROVE  PackagesFit'
<1> SUFFICES ASSUME NEW x \in Devices
             PROVE  1 \in dev'[x].keys /\ 1 \in disk'[x].keys /\ OnceFits(x)' /\ WelcomesFit(x)'
  BY DEF PackagesFit
<1> DEFINE o == once[x]
           q == once'[x]
           k == Len(o)
           m == minted[x]
<1>1. 1 \in dev[x].keys /\ 1 \in disk[x].keys /\ OnceFits(x) /\ WelcomesFit(x) /\ m \in Nat
  BY DEF PackagesFit, GroupTypes
<1>2. o \in Seq(Nat) /\ k \in Nat /\ q = IF x \in new /\ o # << >> THEN Tail(o) ELSE o
  BY PackageIs DEF Spent
<1>3. /\ m >= 1
      /\ \A i \in 1..k : o[i] # 1 /\ o[i] <= m /\ o[i] \in dev[x].keys \cup dead[x]
      /\ \A i, j \in 1..k : o[i] = o[j] => i = j
  BY <1>1 DEF OnceFits
<1>4. /\ \A e \in Welcomes(x) : e.pkg <= m /\ (e.pkg # 1 => \A i \in 1..k : o[i] # e.pkg)
      /\ \A e, f \in Welcomes(x) : e.pkg = f.pkg /\ e.pkg # 1 => e = f
  BY <1>1 DEF WelcomesFit
<1>5. /\ \A e \in Welcomes(x)' : e \in Welcomes(x) \/ (x \in new /\ e = w[x] /\ e.pkg = Package(x))
      /\ minted'[x] = m /\ dead'[x] = dead[x]
      /\ dev'[x].keys = dev[x].keys /\ disk'[x].keys = disk[x].keys
  OBVIOUS
<1>6. /\ o = << >> => Package(x) = 1
      /\ o # << >> => k >= 1 /\ Package(x) = o[1]
  BY PackageIs
<1>7. CASE x \in new /\ o # << >>
  <2>1. Len(q) = k - 1 /\ \A i \in 1..k - 1 : q[i] = o[i + 1]
    BY <1>2, <1>6, <1>7
  <2> HIDE DEF o, q, k, m
  <2>2. \A i \in 1..Len(q) : i + 1 \in 1..k /\ q[i] = o[i + 1] /\ i + 1 # 1
    BY <1>2, <2>1
  <2>3. OnceFits(x)'
    <3>1. \A i \in 1..Len(q) : q[i] # 1 /\ q[i] <= m /\ q[i] \in dev[x].keys \cup dead[x]
      BY <1>3, <2>2
    <3>2. \A i, j \in 1..Len(q) : q[i] = q[j] => i = j
      <4> TAKE i, j \in 1..Len(q)
      <4>1. q[i] = q[j] => i + 1 = j + 1
        BY <1>3, <2>2
      <4>2. i \in Int /\ j \in Int
        BY <1>2, <2>1
      <4> QED
        BY <4>1, <4>2
    <3> QED
      BY <1>3, <1>5, <3>1, <3>2 DEF OnceFits, q
  <2>4. Package(x) # 1 /\ Package(x) <= m /\ \A i \in 1..Len(q) : q[i] # Package(x)
    <3>1. 1 \in 1..k /\ Package(x) = o[1]
      BY <1>2, <1>6, <1>7
    <3> QED
      BY <1>3, <2>2, <3>1
  <2>5. \A e \in Welcomes(x) : e.pkg # 1 => (\A i \in 1..Len(q) : q[i] # e.pkg) /\ e.pkg # Package(x)
    <3>1. 1 \in 1..k /\ Package(x) = o[1]
      BY <1>2, <1>6, <1>7
    <3> QED
      BY <1>4, <2>2, <3>1
  <2>6. WelcomesFit(x)'
    BY <1>4, <1>5, <2>4, <2>5 DEF WelcomesFit, q
  <2> QED
    BY <1>1, <1>5, <2>3, <2>6
<1>8. CASE ~(x \in new /\ o # << >>)
  <2>1. q = o
    BY <1>2, <1>8
  <2>2. x \in new => Package(x) = 1
    BY <1>6, <1>8
  <2>3. OnceFits(x)'
    BY <1>3, <1>5, <2>1 DEF OnceFits
  <2> HIDE DEF o, k, m
  <2>4. WelcomesFit(x)'
    <3>1. \A e \in Welcomes(x)' : e \in Welcomes(x) \/ e.pkg = 1
      BY <1>5, <2>2
    <3>2. \A e \in Welcomes(x)' : e.pkg <= m /\ (e.pkg # 1 => \A i \in 1..k : o[i] # e.pkg)
      BY <1>3, <1>4, <3>1
    <3>3. \A e, f \in Welcomes(x)' : e.pkg = f.pkg /\ e.pkg # 1 => e = f
      BY <1>4, <3>1
    <3> QED
      BY <1>5, <2>1, <3>2, <3>3 DEF WelcomesFit, o, k, m
  <2> QED
    BY <1>1, <1>5, <2>3, <2>4
<1> QED
  BY <1>7, <1>8

MailFor(d, g, members, new, t) ==
  IF t \in new THEN WelcomeFor(g, nst + 1, members, Package(t)) ELSE CommitFor(g, View(d, g).st, nst + 1, members)

(* d takes g to a state with these members, of which new are welcomed;     *)
(* sent get their envelope.                                                *)
Change(d, g, members, new, sent) ==
  /\ new \subseteq members \ {d} /\ members \subseteq new \cup View(d, g).mem \cup {d}
  /\ members \subseteq Devices /\ sent \subseteq members \ {d}
  /\ View(d, g) = NoView => head[g] = NoView
  /\ Merge(d, g, members) /\ once' = Spent(new)
  /\ post' = [t \in Devices |-> IF t \in sent THEN post[t] \cup {MailFor(d, g, members, new, t)} ELSE post[t]]
  /\ hurt \subseteq hurt'
  /\ g \notin hurt' =>
       d \in members /\ sent = members \ {d} /\ ~Splits(d, g) /\ ~DeadPackage(new) /\ new \cap ever[g] = {}
  /\ UNCHANGED <<gsc, last, minted, disk, said, dead, heard>>

(* What such a change makes of the state.                                  *)
NewRoster(members) == [st |-> nst + 1, mem |-> members]
Changes(d, g, members, new, sent) ==
  /\ nst' = nst + 1
  /\ \A x \in Devices, h \in GroupIds :
       View(x, h)' = IF x = d /\ h = g THEN NewRoster(members) ELSE View(x, h)
  /\ \A x \in Devices : dev'[x].keys = dev[x].keys /\ disk'[x] = disk[x]
  /\ \A h \in GroupIds : /\ head'[h] = IF h = g THEN NewRoster(members) ELSE head[h]
                         /\ ever'[h] = IF h = g THEN ever[h] \cup members ELSE ever[h]
  /\ \A x \in Devices : past'[x] = IF x = d THEN past[x] \cup {View(d, g).st} ELSE past[x]
  /\ \A x \in Devices : post'[x] = IF x \in sent THEN post[x] \cup {MailFor(d, g, members, new, x)} ELSE post[x]
  /\ \A x \in Devices : LET m == MailFor(d, g, members, new, x) IN
       /\ m.g = g /\ m.st = nst + 1 /\ m.mem = members
       /\ IF x \in new THEN m.kind = "welcome" /\ m.pkg = Package(x)
          ELSE m.kind = "commit" /\ m.base = View(d, g).st
  /\ UNCHANGED <<said, heard>>

(* The change, variable by variable.                                       *)
LEMMA ChangeValues ==
  ASSUME GroupTypes, NEW d \in Devices, NEW g \in GroupIds, NEW members, NEW new, NEW sent,
         Change(d, g, members, new, sent), rec' \in [Devices -> Reconciliations]
  PROVE  GroupTypes' /\ Changes(d, g, members, new, sent)
<1> DEFINE M == NewRoster(members)
<1>1. nst \in Nat /\ nst + 1 \in Nat /\ M \in Rosters /\ members \subseteq Devices
  BY DEF GroupTypes, Change, NewRoster, Rosters
<1>2. /\ nst' = nst + 1
      /\ dev' = [dev EXCEPT ![d].view[g] = M]
      /\ head' = [head EXCEPT ![g] = M]
      /\ past' = [past EXCEPT ![d] = @ \cup {View(d, g).st}]
      /\ ever' = [ever EXCEPT ![g] = @ \cup members]
  BY DEF Change, Merge, NewRoster
<1>3. /\ UNCHANGED <<gsc, last, minted, disk, said, dead, heard>>
      /\ once' = Spent(new) /\ new \subseteq Devices /\ sent \subseteq Devices
      /\ post' = [t \in Devices |-> IF t \in sent THEN post[t] \cup {MailFor(d, g, members, new, t)} ELSE post[t]]
  BY DEF Change
<1>4. dev[d] \in DeviceStates /\ dev[d].view \in [GroupIds -> Rosters] /\ View(d, g).st \in Nat
  BY ViewTyped DEF GroupTypes, DeviceStates
<1> HIDE DEF M
<1> DEFINE V == [dev[d].view EXCEPT ![g] = M]
           r == [dev[d] EXCEPT !.view = V]
<1>5. \A x \in Devices : dev'[x] = IF x = d THEN r ELSE dev[x]
  BY <1>2, <1>4 DEF GroupTypes
<1>6. V \in [GroupIds -> Rosters] /\ \A h \in GroupIds : V[h] = IF h = g THEN M ELSE dev[d].view[h]
  BY <1>1, <1>4
<1> HIDE DEF V
<1>7. r \in DeviceStates /\ r.view = V /\ r.keys = dev[d].keys
  BY <1>4, <1>6 DEF DeviceStates
<1> HIDE DEF r
<1>8. dev' \in [Devices -> DeviceStates]
  BY <1>2, <1>5, <1>7 DEF GroupTypes
<1>9. \A x \in Devices : LET m == MailFor(d, g, members, new, x) IN
        /\ m \in GroupMail /\ m.g = g /\ m.st = nst + 1 /\ m.mem = members
        /\ IF x \in new THEN m.kind = "welcome" /\ m.pkg = Package(x)
           ELSE m.kind = "commit" /\ m.base = View(d, g).st
  <2> TAKE x \in Devices
  <2>1. CASE x \in new
    BY <1>1, <1>4, <2>1, PackageIs DEF MailFor, WelcomeFor, GroupMail
  <2>2. CASE x \notin new
    BY <1>1, <1>4, <2>2 DEF MailFor, CommitFor, GroupMail
  <2> QED
    BY <2>1, <2>2
<1>10. post' \in [Devices -> SUBSET GroupMail]
  <2>1. \A x \in Devices : post'[x] \subseteq GroupMail
    BY <1>3, <1>9 DEF GroupTypes
  <2> QED
    BY <1>3, <2>1
<1>11. once' \in [Devices -> Seq(Nat)]
  <2>1. \A x \in Devices : once[x] \in Seq(Nat) /\ (once[x] # << >> => Tail(once[x]) \in Seq(Nat))
    BY DEF GroupTypes
  <2> QED
    BY <1>3, <2>1 DEF Spent
<1>12. /\ head' \in [GroupIds -> Rosters] /\ past' \in [Devices -> SUBSET Nat]
       /\ ever' \in [GroupIds -> SUBSET Devices]
  BY <1>1, <1>2, <1>4 DEF GroupTypes
<1>13. GroupTypes'
  BY <1>1, <1>2, <1>3, <1>8, <1>10, <1>11, <1>12 DEF GroupTypes
<1>14. \A x \in Devices, h \in GroupIds : View(x, h)' = IF x = d /\ h = g THEN M ELSE View(x, h)
  BY <1>5, <1>6, <1>7 DEF View
<1>15. \A x \in Devices : dev'[x].keys = dev[x].keys /\ disk'[x] = disk[x]
  BY <1>3, <1>5, <1>7
<1>16. /\ \A h \in GroupIds : /\ head'[h] = IF h = g THEN M ELSE head[h]
                              /\ ever'[h] = IF h = g THEN ever[h] \cup members ELSE ever[h]
       /\ \A x \in Devices : past'[x] = IF x = d THEN past[x] \cup {View(d, g).st} ELSE past[x]
  BY <1>2 DEF GroupTypes
<1>17. \A x \in Devices : post'[x] = IF x \in sent THEN post[x] \cup {MailFor(d, g, members, new, x)} ELSE post[x]
  BY <1>3
<1> QED
  BY <1>2, <1>3, <1>9, <1>13, <1>14, <1>15, <1>16, <1>17 DEF Changes, M

(* The group itself: everyone in the new state's roster can come to it, and*)
(* nobody loses a state it could reach.                                    *)
LEMMA ChangedGroup ==
  ASSUME GroupInv, NEW d \in Devices, NEW g \in GroupIds, NEW members, NEW new, NEW sent,
         Change(d, g, members, new, sent), rec' \in [Devices -> Reconciliations], g \notin hurt'
  PROVE  GroupFits(g)'
<1> USE DEF GroupInv
<1> DEFINE h == View(d, g).st
<1>1. GroupTypes' /\ Changes(d, g, members, new, sent)
  BY ChangeValues
<1>2. /\ d \in members /\ new \subseteq members \ {d} /\ members \subseteq new \cup View(d, g).mem \cup {d}
      /\ members \subseteq Devices /\ sent = members \ {d}
      /\ ~Splits(d, g) /\ ~DeadPackage(new) /\ new \cap ever[g] = {}
      /\ View(d, g) = NoView => head[g] = NoView
      /\ g \notin hurt
  BY DEF Change
<1>3. GroupFits(g) /\ nst \in Nat /\ nst' = nst + 1
  BY <1>1, <1>2 DEF GroupsFit, GroupTypes, Changes
<1>17. PICK M \in Rosters : M = NewRoster(members) /\ M.st = nst + 1 /\ M.mem = members
  <2>1. nst + 1 \in Nat /\ members \subseteq Devices
    BY <1>2, <1>3
  <2>2. NewRoster(members) \in Rosters /\ NewRoster(members).st = nst + 1 /\ NewRoster(members).mem = members
    BY <2>1 DEF NewRoster, Rosters
  <2> QED
    BY <2>2
<1>4. /\ M.st = nst + 1 /\ M.mem = members /\ M \in Rosters
      /\ head'[g] = M /\ ever'[g] = ever[g] \cup members /\ View(d, g)' = M
      /\ \A x \in Devices : x # d => View(x, g)' = View(x, g)
      /\ \A x \in Devices : past'[x] = IF x = d THEN past[x] \cup {h} ELSE past[x]
      /\ \A x \in Devices : dev'[x].keys = dev[x].keys
      /\ said' = said /\ heard' = heard
  BY <1>1, <1>17 DEF Changes
<1>5. /\ h \in Nat /\ h = head[g].st /\ h <= nst /\ head[g] \in Rosters /\ head[g].mem \subseteq Devices
      /\ View(d, g).mem = head[g].mem /\ head[g].mem \subseteq ever[g] /\ ever[g] \subseteq Devices
  <2>1. /\ h \in Nat /\ head[g] \in Rosters /\ head[g].mem \subseteq Devices /\ ever[g] \subseteq Devices
    BY ViewTyped
  <2>2. h = head[g].st
    BY <1>2 DEF Splits
  <2>3. HeadFits(g) /\ RosterFits(View(d, g), g)
    BY <1>3 DEF GroupFits, ViewFits
  <2> QED
    BY <2>1, <2>2, <2>3 DEF HeadFits, RosterFits
\* The committer has nothing left to read in the group.
<1>6. \A e \in Moves(d, g) : e.kind = "commit" /\ e.base # h
  <2> TAKE e \in Moves(d, g)
  <2>1. MovesFit(d, g) /\ e \in post[d] /\ e.g = g
    BY <1>3 DEF GroupFits, Moves
  <2>2. e.kind = "welcome" => FALSE
    BY <1>2, <2>1 DEF MovesFit, GroupsExist, NoTrace
  <2>3. e.kind = "commit" => e.base < e.st /\ e.st <= head[g].st
    BY <2>1, EnvelopeTyped DEF MovesFit, RosterFits
  <2>4. e.kind \in {"welcome", "commit"} /\ e.base \in Nat /\ e.st \in Nat
    BY <2>1, EnvelopeTyped DEF Moves
  <2> QED
    BY <1>5, <2>2, <2>3, <2>4
<1>7. Reach(d, g) \subseteq {h}
  <2> DEFINE P == post[d]
             K == dev[d].keys
  <2>1. \A e \in P : e.g = g => e.kind # "welcome" /\ (e.kind = "commit" => e.base # h)
    BY <1>6 DEF Moves
  <2>2. h \in 0..nst
    BY <1>3, <1>5
  <2>3. Reach(d, g) = ReachOf(nst, h, P, K, g)
    BY ReachIs
  <2> HIDE DEF P, K, h
  <2> QED
    BY <1>3, <2>1, <2>2, <2>3, ReachSettled
<1>8. \A x \in Devices : x # d => Reach(x, g) \subseteq Reach(x, g)'
  <2> SUFFICES ASSUME NEW x \in Devices, x # d
               PROVE  Reach(x, g) \subseteq Reach(x, g)'
    OBVIOUS
  <2>1. View(x, g)'.st = View(x, g).st /\ nst' \in Nat /\ nst <= nst'
    BY <1>3, <1>4
  <2>2. \A e \in Moves(x, g) : e \in post'[x]
    BY <1>1 DEF Moves, Changes
  <2>3. \A e \in Moves(x, g) : e.kind = "welcome" => e.pkg \in dev'[x].keys
    BY <1>3, <1>4 DEF GroupFits, MovesFit
  <2>4. \A e \in post[x] : e.kind # "message" => e.st > 0
    BY DEF GroupsExist
  <2> QED
    BY <1>3, <2>1, <2>2, <2>3, <2>4, DeviceReachGrows
<1> HIDE DEF h
<1>9. \A x \in Devices : past[x] \cup Reach(x, g) \subseteq past'[x] \cup Reach(x, g)'
  BY <1>4, <1>7, <1>8
<1>10. ASSUME NEW r \in Rosters, RosterFits(r, g)
       PROVE  RosterFits(r, g)'
  <2>1. r.st \in Nat /\ r.mem \subseteq Devices /\ r.st <= head[g].st /\ r.mem \subseteq ever[g]
    BY <1>10 DEF RosterFits, Rosters
  <2>2. r.st <= head'[g].st /\ r.st # head'[g].st
    BY <1>3, <1>4, <1>5, <2>1
  <2>3. \A x \in r.mem : r.st \in past'[x] \cup Reach(x, g)'
    BY <1>9, <1>10, <2>1 DEF RosterFits
  <2> QED
    BY <1>4, <2>1, <2>2, <2>3 DEF RosterFits
\* The envelopes of the change.
<1>11. ASSUME NEW x \in members, x # d
       PROVE  \E m \in post'[x] :
                /\ m = MailFor(d, g, members, new, x)
                /\ m.g = g /\ m.st = nst + 1 /\ m.mem = members
                /\ x \in new => m.kind = "welcome" /\ m.pkg \in dev[x].keys
                /\ x \notin new => m.kind = "commit" /\ m.base = h /\ x \in head[g].mem
  <2>1. x \in Devices /\ x \in sent
    BY <1>2, <1>11
  <2>2. x \in new => Package(x) \in dev[x].keys
    <3>1. x \in new => Package(x) \notin dead[x]
      BY <1>2 DEF DeadPackage
    <3>2. Package(x) \in dev[x].keys \cup dead[x]
      <4>1. /\ 1 \in dev[x].keys
            /\ \A i \in 1..Len(once[x]) : once[x][i] \in dev[x].keys \cup dead[x]
        BY <2>1 DEF PackagesFit, OnceFits
      <4> QED
        BY <2>1, <4>1, PackageIs
    <3> QED
      BY <3>1, <3>2
  <2> DEFINE m == MailFor(d, g, members, new, x)
  <2>3. /\ m \in post'[x] /\ m.g = g /\ m.st = nst + 1 /\ m.mem = members
        /\ IF x \in new THEN m.kind = "welcome" /\ m.pkg = Package(x)
           ELSE m.kind = "commit" /\ m.base = h
    BY <1>1, <2>1 DEF Changes, h
  <2>4. x \notin new => x \in head[g].mem
    BY <1>2, <1>5, <1>11
  <2> HIDE DEF m
  <2>5. m = MailFor(d, g, members, new, x)
    BY DEF m
  <2> QED
    BY <2>2, <2>3, <2>4, <2>5
<1>12. HeadFits(g)'
  <2>1. ASSUME NEW x \in members
        PROVE  nst + 1 \in Reach(x, g)'
    <3> DEFINE n == nst'
               v == View(x, g)'.st
               Q == post'[x]
               L == dev'[x].keys
    <3>1. Reach(x, g)' = ReachOf(n, v, Q, L, g) /\ n \in Nat /\ nst + 1 \in 1..n
      BY <1>3, ReachIs
    <3>2. CASE x = d
      <4>1. v = nst + 1
        BY <1>4, <3>2
      <4> HIDE DEF n, v, Q, L
      <4>2. v \in 1..n => v \in ReachOf(n, v, Q, L, g)
        BY <3>1, ReachFrom
      <4> QED
        BY <3>1, <4>1, <4>2
    <3>3. CASE x # d
      <4>1. PICK m \in Q :
              /\ m.g = g /\ m.st = nst + 1
              /\ x \in new => m.kind = "welcome" /\ m.pkg \in dev[x].keys
              /\ x \notin new => m.kind = "commit" /\ m.base = h /\ x \in head[g].mem
        BY <1>11, <3>3
      <4>2. x \in Devices /\ dev'[x].keys = dev[x].keys
        BY <1>2, <1>4
      <4>3. x \notin new => h \in ReachOf(n, v, Q, L, g)
        <5>1. HeadFits(g)
          BY <1>3 DEF GroupFits
        <5>2. x \notin new => h \in Reach(x, g)
          BY <1>5, <4>1, <5>1 DEF HeadFits
        <5> QED
          BY <1>8, <3>1, <3>3, <4>2, <5>2
      <4>4. m.pkg \in dev[x].keys => m.pkg \in L
        BY <4>2
      <4> HIDE DEF n, v, Q, L
      <4> QED
        BY <3>1, <4>1, <4>3, <4>4, ReachFrom
    <3> QED
      BY <3>2, <3>3
  <2>2. nst + 1 <= nst' /\ nst + 1 # 0
    BY <1>3
  <2> QED
    BY <1>4, <2>1, <2>2 DEF HeadFits
<1>13. RosterFits(M, g)'
  <2>1. \A x \in members : nst + 1 \in Reach(x, g)'
    BY <1>4, <1>12 DEF HeadFits
  <2> QED
    BY <1>3, <1>4, <2>1 DEF RosterFits
<1>14. ASSUME NEW x \in Devices
       PROVE  ViewFits(x, g)'
  <2>1. CASE x = d
    <3>1. M.st > 0 /\ d \in M.mem
      BY <1>2, <1>3, <1>4
    <3> QED
      BY <1>4, <1>13, <2>1, <3>1 DEF ViewFits
  <2>2. CASE x # d
    <3>1. View(x, g)' = View(x, g) /\ ViewFits(x, g)
      BY <1>3, <1>4, <2>2 DEF GroupFits
    <3>2. PICK r \in Rosters : r = View(x, g)
      BY ViewTyped
    <3>3. RosterFits(r, g)'
      BY <1>10, <3>1, <3>2 DEF ViewFits
    <3> QED
      BY <3>1, <3>2, <3>3 DEF ViewFits, RosterFits
  <2> QED
    BY <2>1, <2>2
<1>15. ASSUME NEW x \in Devices
       PROVE  MovesFit(x, g)'
  <2>1. MovesFit(x, g) /\ ViewFits(x, g)
    BY <1>3 DEF GroupFits
  <2>9. PICK m : m = MailFor(d, g, members, new, x)
    OBVIOUS
  <2>2. /\ m.g = g /\ m.st = nst + 1 /\ m.mem = members
        /\ IF x \in new THEN m.kind = "welcome" /\ m.pkg = Package(x)
           ELSE m.kind = "commit" /\ m.base = h
    BY <1>1, <2>9 DEF Changes, h
  <2>3. x \in members /\ x # d => (x \in new => m.pkg \in dev[x].keys)
    BY <1>11, <2>9
  <2>4. \A e \in Moves(x, g)' : e \in Moves(x, g) \/ (e = m /\ x \in members /\ x # d)
    <3>1. post'[x] = IF x \in sent THEN post[x] \cup {m} ELSE post[x]
      BY <1>1, <2>9 DEF Changes
    <3>2. x \in sent => x \in members /\ x # d
      BY <1>2
    <3> QED
      BY <3>1, <3>2 DEF Moves
  <2>5. ASSUME NEW e \in Moves(x, g)
        PROVE  /\ RosterFits(RosterOf(e), g)' /\ x \in e.mem
               /\ e.kind = "commit" => e.base < e.st /\ e.base < h
               /\ e.kind = "welcome" => /\ e.pkg \in dev'[x].keys /\ View(x, g)' = NoView
                                        /\ x \notin new
    <3>1. /\ RosterFits(RosterOf(e), g) /\ x \in e.mem /\ e \in post[x]
          /\ e.kind = "commit" => e.base < e.st
          /\ e.kind = "welcome" => e.pkg \in dev[x].keys /\ View(x, g) = NoView
      BY <2>1 DEF MovesFit, Moves
    <3>2. e.base \in Nat /\ e.st \in Nat /\ RosterOf(e) \in Rosters /\ RosterOf(e).st = e.st
          /\ RosterOf(e).mem = e.mem
      BY <3>1, EnvelopeTyped
    <3>3. e.st <= h /\ e.mem \subseteq ever[g]
      BY <1>5, <3>1, <3>2 DEF RosterFits
    <3>4. RosterFits(RosterOf(e), g)'
      <4>1. PICK r \in Rosters : r = RosterOf(e)
        BY <3>2
      <4>2. RosterFits(r, g)'
        BY <1>10, <3>1, <4>1
      <4> QED
        BY <4>1, <4>2 DEF RosterOf
    <3>5. e.kind = "welcome" => x # d
      BY <1>6
    <3>6. x \notin new
      BY <1>2, <3>1, <3>3
    <3>7. e.kind = "welcome" => e.pkg \in dev'[x].keys /\ View(x, g)' = NoView
      BY <1>4, <3>1, <3>5
    <3>8. e.kind = "commit" => e.base < h
      BY <1>5, <3>1, <3>2, <3>3
    <3> QED
      BY <3>1, <3>4, <3>6, <3>7, <3>8
  <2>6. x \in members /\ x # d =>
          /\ RosterFits(RosterOf(m), g)' /\ x \in m.mem
          /\ m.kind = "commit" => m.base < m.st
          /\ m.kind = "welcome" => x \in new /\ m.pkg \in dev'[x].keys /\ View(x, g)' = NoView
    <3>1. RosterOf(m) = M
      BY <1>17, <2>2 DEF RosterOf, NewRoster
    <3>4. RosterFits(RosterOf(m), g)'
      BY <1>13, <3>1 DEF RosterOf
    <3>5. x \in new => View(x, g) = NoView
      <4>1. View(x, g) # NoView => x \in ever[g]
        BY <2>1 DEF ViewFits, RosterFits
      <4> QED
        BY <1>2, <4>1
    <3>6. m.kind = "welcome" => x \in new
      BY <2>2
    <3>7. m.kind = "commit" => m.base < m.st
      BY <1>3, <1>5, <2>2
    <3> QED
      BY <1>4, <2>2, <2>3, <3>4, <3>5, <3>6, <3>7
  <2>7. \A e, f \in Moves(x, g)' : e.kind = f.kind /\ (e.kind = "commit" => e.base = f.base) => e = f
    <3> TAKE e, f \in Moves(x, g)'
    <3>1. CASE e \in Moves(x, g) /\ f \in Moves(x, g)
      BY <2>1, <3>1 DEF MovesFit
    <3>2. ASSUME NEW u \in Moves(x, g), x \in members, x # d, u.kind = m.kind, u.kind = "commit" => u.base = m.base
          PROVE  FALSE
      <4>1. u.kind \in {"welcome", "commit"} /\ u.base \in Nat
        <5>1. u \in post[x] /\ u.kind # "message"
          BY DEF Moves
        <5> QED
          BY <5>1, EnvelopeTyped
      <4>2. CASE u.kind = "welcome"
        BY <2>5, <2>6, <3>2, <4>2
      <4>3. CASE u.kind = "commit"
        <5>1. x \notin new
          BY <2>2, <3>2, <4>3
        <5>2. u.base = h /\ u.base < h
          BY <2>2, <2>5, <3>2, <4>3, <5>1
        <5> QED
          BY <1>5, <4>1, <5>2
      <4> QED
        BY <4>1, <4>2, <4>3
    <3>3. CASE e \in Moves(x, g) /\ f = m /\ x \in members /\ x # d
      BY <3>2, <3>3
    <3>4. CASE f \in Moves(x, g) /\ e = m /\ x \in members /\ x # d
      BY <3>2, <3>4
    <3> QED
      BY <2>4, <3>1, <3>3, <3>4
  <2>8. ASSUME NEW e \in Moves(x, g)'
        PROVE  /\ RosterFits(RosterOf(e), g)' /\ x \in e.mem
               /\ e.kind = "commit" => e.base < e.st
               /\ e.kind = "welcome" => e.pkg \in dev'[x].keys /\ View(x, g)' = NoView
    BY <2>4, <2>5, <2>6
  <2> QED
    BY <2>7, <2>8 DEF MovesFit
<1>16. ASSUME NEW t \in Texts, said'[t].g = g
       PROVE  SaidFits(t, g)'
  <2>1. SaidFits(t, g) /\ said'[t] = said[t] /\ said[t].to \subseteq Devices
    BY <1>3, <1>4, <1>16 DEF GroupFits, GroupTypes
  <2> DEFINE m == MessageFor(g, said[t].st, t)
  <2>2. \A x \in Devices : m \in post[x] => m \in post'[x]
    BY <1>1 DEF Changes
  <2> HIDE DEF m
  <2>3. ASSUME NEW x \in said[t].to
        PROVE  \/ <<x, t>> \in heard
               \/ said[t].st \in past'[x]
               \/ m \in post'[x] /\ said[t].st \in Reach(x, g)'
    <3>1. x \in Devices
      BY <2>1
    <3>2. \/ <<x, t>> \in heard
          \/ said[t].st \in past[x]
          \/ m \in post[x] /\ said[t].st \in Reach(x, g)
      BY <2>1 DEF SaidFits, m
    <3>3. past[x] \subseteq past'[x] /\ (x = d => h \in past'[x])
      BY <1>4, <3>1
    <3> QED
      BY <1>7, <1>8, <2>2, <3>1, <3>2, <3>3
  <2> QED
    BY <1>4, <2>1, <2>3 DEF SaidFits, m, MessageFor
<1> QED
  BY <1>12, <1>14, <1>15, <1>16 DEF GroupFits

\* A reconciliation goes on with groups its device is in.
RecsGoOn ==
  \A x \in Devices : rec'[x].on =>
    /\ \A h \in rec'[x].todo : View(x, h) # NoView
    /\ rec'[x].adds # {} => rec'[x].g \in GroupIds /\ View(x, rec'[x].g) # NoView

(* A change of a group keeps the invariant.                                *)
LEMMA ChangeKeeps ==
  ASSUME GroupInv, NEW d \in Devices, NEW g \in GroupIds, NEW members, NEW new, NEW sent,
         Change(d, g, members, new, sent), rec' \in [Devices -> Reconciliations], RecsGoOn
  PROVE  GroupInv'
<1> USE DEF GroupInv
<1>1. GroupTypes' /\ Changes(d, g, members, new, sent)
  BY ChangeValues
<1>2. nst \in Nat /\ nst' = nst + 1 /\ hurt \subseteq hurt' /\ sent \subseteq Devices /\ new \subseteq Devices
  BY <1>1 DEF GroupTypes, Changes, Change
<1>3. /\ \A x \in Devices, h \in GroupIds : ~(x = d /\ h = g) => View(x, h)' = View(x, h)
      /\ \A x \in Devices : dev'[x].keys = dev[x].keys /\ disk'[x] = disk[x]
      /\ \A h \in GroupIds : h # g => head'[h] = head[h] /\ ever'[h] = ever[h]
      /\ head'[g] = NewRoster(members)
      /\ \A x \in Devices : past[x] \subseteq past'[x]
      /\ said' = said /\ heard' = heard
  BY <1>1 DEF Changes
<1>4. \A x \in Devices : LET m == MailFor(d, g, members, new, x) IN
        /\ m.g = g /\ m.st = nst + 1 /\ m.kind # "message"
        /\ m.kind = "welcome" => x \in new /\ m.pkg = Package(x)
        /\ \A e \in post'[x] : e \in post[x] \/ e = m
        /\ \A e \in post[x] : e \in post'[x]
  <2> TAKE x \in Devices
  <2> DEFINE m == MailFor(d, g, members, new, x)
  <2>1. /\ m.g = g /\ m.st = nst + 1
        /\ IF x \in new THEN m.kind = "welcome" /\ m.pkg = Package(x) ELSE m.kind = "commit"
        /\ post'[x] = IF x \in sent THEN post[x] \cup {m} ELSE post[x]
    BY <1>1 DEF Changes
  <2> QED
    BY <2>1
<1>5. PackagesFit'
  <2> DEFINE w == [x \in Devices |-> MailFor(d, g, members, new, x)]
  <2>1. \A x \in Devices : \A e \in Welcomes(x)' :
          e \in Welcomes(x) \/ (x \in new /\ e = w[x] /\ e.pkg = Package(x))
    BY <1>4 DEF Welcomes
  <2> HIDE DEF w
  <2>2. once' = Spent(new) /\ UNCHANGED <<minted, dead>>
    BY DEF Change, Spent
  <2>3. \A x \in Devices : dev'[x].keys = dev[x].keys /\ disk'[x].keys = disk[x].keys
    BY <1>3
  <2> QED
    BY <2>1, <2>2, <2>3, PackagesSpent
<1>6. GroupsExist'
  <2>1. \A x \in Devices : \A e \in post'[x] : e.kind # "message" => e.st > 0
    <3> TAKE x \in Devices
    <3> TAKE e \in post'[x]
    <3>1. e \in post[x] \/ e.st = nst + 1
      BY <1>4
    <3>2. nst + 1 > 0
      BY <1>2
    <3> QED
      BY <3>1, <3>2 DEF GroupsExist
  <2>2. ASSUME NEW h \in GroupIds, head'[h] = NoView
        PROVE  NoTrace(h)'
    <3>1. h # g
      BY <1>2, <1>3, <2>2 DEF NewRoster, NoView
    <3>2. NoTrace(h)
      BY <1>3, <2>2, <3>1 DEF GroupsExist
    <3> QED
      BY <1>3, <1>4, <3>1, <3>2 DEF NoTrace
  <2> QED
    BY <2>1, <2>2 DEF GroupsExist
<1>7. ASSUME NEW h \in GroupIds \ hurt'
      PROVE  GroupFits(h)'
  <2>1. CASE h = g
    BY <2>1, ChangedGroup
  <2>2. CASE h # g
    <3>1. GroupFits(h)
      BY <1>2 DEF GroupsFit
    <3>2. \A x \in Devices : Moves(x, h)' = Moves(x, h) /\ \A e \in post[x] : e \in post'[x]
      BY <1>4, <2>2 DEF Moves
    <3>3. \A x \in Devices : \A e \in Moves(x, h) : e.kind = "welcome" => e.pkg \in dev'[x].keys
      BY <1>3, <3>1 DEF GroupFits, MovesFit
    <3>4. nst <= nst'
      BY <1>2
    <3>5. Alone(h)
      BY <1>3, <2>2, <3>2, <3>3, <3>4 DEF Alone
    <3> QED
      BY <1>1, <3>1, <3>5, AloneStays
  <2> QED
    BY <2>1, <2>2
<1>8. RecsFit'
  <2>1. \A x \in Devices, h \in GroupIds : View(x, h) # NoView => View(x, h)' # NoView
    <3>1. NewRoster(members) # NoView
      BY <1>2 DEF NewRoster, NoView
    <3> QED
      BY <1>1, <3>1 DEF Changes
  <2>2. \A x \in Devices : rec'[x].todo \subseteq GroupIds
    BY DEF Reconciliations
  <2> QED
    BY <2>1, <2>2 DEF RecsFit, RecsGoOn
<1> QED
  BY <1>1, <1>5, <1>6, <1>7, <1>8 DEF GroupsFit

(* Creating a conversation or a circle.                                    *)
LEMMA CreateKeeps ==
  ASSUME GroupInv, NEW d \in Devices, NEW as, NEW kind, CreateConversation(d, as, kind)
  PROVE  GroupInv'
<1> USE DEF GroupInv
<1>1. PICK g \in gsc.gids :
        /\ head[g] = NoView
        /\ LET targets == Fetched(d, as \cup {Owner[d]})
               members == {d} \cup targets
               mails == [t \in targets |-> WelcomeFor(g, nst + 1, members, Package(t))]
           IN /\ Merge(d, g, members)
              /\ once' = Spent(targets)
              /\ \E sent \in SUBSET targets : Delivered(g, targets, sent, mails, DeadPackage(targets))
              /\ UNCHANGED <<gsc, registry, last, minted, disk, published, rec, said, dead, heard>>
  BY DEF CreateConversation
<1>2. g \in GroupIds
  BY DEF GroupTypes
<1>3. PICK new : new = Fetched(d, as \cup {Owner[d]})
  OBVIOUS
<1>4. new \subseteq Devices \ {d}
  BY <1>3 DEF Fetched, ActiveOf
<1> DEFINE members == {d} \cup new
           mails == [t \in new |-> WelcomeFor(g, nst + 1, members, Package(t))]
<1>5. PICK sent \in SUBSET new : Delivered(g, new, sent, mails, DeadPackage(new))
  BY <1>1, <1>3
<1>6. /\ Merge(d, g, members) /\ once' = Spent(new)
      /\ UNCHANGED <<gsc, last, minted, disk, rec, said, dead, heard>>
  BY <1>1, <1>3
<1>7. View(d, g) = NoView /\ ever[g] = {} /\ ~Splits(d, g)
  BY <1>1, <1>2 DEF GroupsExist, NoTrace, Splits
<1>8. post' = [t \in Devices |-> IF t \in sent THEN post[t] \cup {MailFor(d, g, members, new, t)} ELSE post[t]]
  BY <1>5 DEF Delivered, MailFor
<1>9. /\ hurt \subseteq hurt'
      /\ g \notin hurt' => sent = new /\ ~DeadPackage(new)
  BY <1>5 DEF Delivered
<1>10. Change(d, g, members, new, sent)
  BY <1>1, <1>4, <1>6, <1>7, <1>8, <1>9 DEF Change
<1>11. rec' \in [Devices -> Reconciliations] /\ RecsGoOn
  BY <1>6 DEF RecsGoOn, RecsFit, GroupTypes
<1> QED
  BY <1>2, <1>10, <1>11, ChangeKeeps

(* Adding the devices of an address.                                       *)
LEMMA AddKeeps ==
  ASSUME GroupInv, NEW d \in Devices, NEW g \in GroupIds, NEW a, View(d, g) # NoView,
         AddParticipant(d, g, a), rec' \in [Devices -> Reconciliations], RecsGoOn,
         UNCHANGED <<gsc, last, minted, disk, said, dead, heard>>
  PROVE  GroupInv'
<1> USE DEF GroupInv
<1>1. PICK new : new = Fetched(d, {a})
  OBVIOUS
<1>2. new \subseteq Devices \ {d} /\ View(d, g).mem \subseteq Devices
  BY <1>1, ViewTyped DEF Fetched, ActiveOf
<1> DEFINE existing == View(d, g).mem \ {d}
           members == View(d, g).mem \cup new
           mails == [t \in existing \cup new |->
                       IF t \in new THEN WelcomeFor(g, nst + 1, members, Package(t))
                       ELSE CommitFor(g, View(d, g).st, nst + 1, members)]
           bad == Splits(d, g) \/ DeadPackage(new) \/ new \cap ever[g] # {}
<1>3. /\ once' = Spent(new)
      /\ IF new = {} \/ new \cap View(d, g).mem # {}
         THEN UNCHANGED <<dev, post, nst, gfaults, head, hurt, past, ever>>
         ELSE /\ Merge(d, g, members)
              /\ \E sent \in SUBSET (existing \cup new) : Delivered(g, existing \cup new, sent, mails, bad)
  BY <1>1 DEF AddParticipant, Told
<1>4. CASE new = {} \/ new \cap View(d, g).mem # {}
  <2>1. UNCHANGED <<dev, post, nst, head, hurt, past, ever>>
    BY <1>3, <1>4
  <2>2. GroupTypes'
    <3>1. once' \in [Devices -> Seq(Nat)]
      <4>1. \A x \in Devices : once[x] \in Seq(Nat) /\ (once[x] # << >> => Tail(once[x]) \in Seq(Nat))
        BY DEF GroupTypes
      <4> QED
        BY <1>3, <4>1 DEF Spent
    <3> QED
      BY <2>1, <3>1 DEF GroupTypes
  <2>3. PackagesFit'
    <3> DEFINE w == << >>
    <3>1. \A x \in Devices : \A e \in Welcomes(x)' :
            e \in Welcomes(x) \/ (x \in new /\ e = w[x] /\ e.pkg = Package(x))
      BY <2>1 DEF Welcomes
    <3> HIDE DEF w
    <3>2. once' = Spent(new) /\ UNCHANGED <<minted, dead>>
      BY <1>3
    <3>3. \A x \in Devices : dev'[x].keys = dev[x].keys /\ disk'[x].keys = disk[x].keys
      BY <2>1
    <3> QED
      BY <3>1, <3>2, <3>3, PackagesSpent
  <2>4. GroupsExist'
    BY <2>1 DEF GroupsExist, NoTrace, View
  <2>5. RecsFit'
    BY <2>1 DEF RecsFit, RecsGoOn, View
  <2>6. ASSUME NEW h \in GroupIds \ hurt'
        PROVE  GroupFits(h)'
    <3>1. nst \in Nat /\ GroupFits(h)
      BY <2>1 DEF GroupTypes, GroupsFit
    <3>2. Alone(h)
      BY <2>1, <3>1 DEF Alone, View, Moves, GroupFits, MovesFit
    <3> QED
      BY <2>2, <3>1, <3>2, AloneStays
  <2> QED
    BY <2>2, <2>3, <2>4, <2>5, <2>6 DEF GroupsFit
<1>5. CASE ~(new = {} \/ new \cap View(d, g).mem # {})
  <2>1. Merge(d, g, members)
    BY <1>3, <1>5
  <2>2. PICK sent \in SUBSET (existing \cup new) : Delivered(g, existing \cup new, sent, mails, bad)
    BY <1>3, <1>5
  <2>3. existing \cup new = members \ {d} /\ members \subseteq Devices /\ new \subseteq members \ {d}
    BY <1>2
  <2>4. post' = [t \in Devices |-> IF t \in sent THEN post[t] \cup {MailFor(d, g, members, new, t)} ELSE post[t]]
    BY <2>2 DEF Delivered, MailFor
  <2>5. /\ hurt \subseteq hurt'
        /\ g \notin hurt' => sent = existing \cup new /\ ~bad
    BY <2>2 DEF Delivered
  <2>6. g \notin hurt' => d \in View(d, g).mem
    BY <2>5 DEF GroupsFit, GroupFits, ViewFits
  <2>7. Change(d, g, members, new, sent)
    BY <1>3, <2>1, <2>3, <2>4, <2>5, <2>6 DEF Change
  <2> QED
    BY <2>7, ChangeKeeps
<1> QED
  BY <1>4, <1>5

(* A commit that leaves members out.                                       *)
LEMMA LeaveOutKeeps ==
  ASSUME GroupInv, NEW d \in Devices, NEW g \in GroupIds, NEW members, View(d, g) # NoView,
         members \subseteq View(d, g).mem, d \in View(d, g).mem => d \in members,
         Merge(d, g, members),
         \E sent \in SUBSET (members \ {d}) :
           Delivered(g, members \ {d}, sent, [t \in members |-> CommitFor(g, View(d, g).st, nst + 1, members)], Splits(d, g)),
         rec' \in [Devices -> Reconciliations], RecsGoOn,
         UNCHANGED <<gsc, once, last, minted, disk, said, dead, heard>>
  PROVE  GroupInv'
<1> USE DEF GroupInv
<1> DEFINE mails == [t \in members |-> CommitFor(g, View(d, g).st, nst + 1, members)]
<1>1. PICK sent \in SUBSET (members \ {d}) : Delivered(g, members \ {d}, sent, mails, Splits(d, g))
  OBVIOUS
<1>2. members \subseteq Devices
  BY ViewTyped
<1>3. post' = [t \in Devices |-> IF t \in sent THEN post[t] \cup {MailFor(d, g, members, {}, t)} ELSE post[t]]
  BY <1>1 DEF Delivered, MailFor
<1>4. /\ hurt \subseteq hurt'
      /\ g \notin hurt' => sent = members \ {d} /\ ~Splits(d, g)
  BY <1>1 DEF Delivered
<1>5. g \notin hurt' => d \in members
  BY <1>4 DEF GroupsFit, GroupFits, ViewFits
<1>6. once' = Spent({})
  BY DEF Spent, GroupTypes
<1>7. ~DeadPackage({})
  BY DEF DeadPackage
<1>8. Change(d, g, members, {}, sent)
  BY <1>2, <1>3, <1>4, <1>5, <1>6, <1>7 DEF Change
<1> QED
  BY <1>8, ChangeKeeps

(* The operations that change a group, each a change of this kind.         *)
LEMMA AddMemberKeeps ==
  ASSUME GroupInv, NEW d \in Devices, NEW g \in GroupIds, NEW a, AddMember(d, g, a)
  PROVE  GroupInv'
<1>1. /\ View(d, g) # NoView /\ AddParticipant(d, g, a)
      /\ UNCHANGED <<gsc, last, minted, disk, said, dead, heard>> /\ rec' = rec
  BY DEF AddMember
<1>2. rec' \in [Devices -> Reconciliations] /\ RecsGoOn
  BY <1>1 DEF RecsGoOn, RecsFit, GroupTypes, GroupInv
<1> QED
  BY <1>1, <1>2, AddKeeps

LEMMA RemoveMemberKeeps ==
  ASSUME GroupInv, NEW d \in Devices, NEW g \in GroupIds, NEW a, RemoveMember(d, g, a)
  PROVE  GroupInv'
<1>1. PICK members : members = {x \in View(d, g).mem : Owner[x] # a}
  OBVIOUS
<1>2. /\ View(d, g) # NoView /\ Merge(d, g, members)
      /\ \E sent \in SUBSET (members \ {d}) :
           Delivered(g, members \ {d}, sent, [t \in members |-> CommitFor(g, View(d, g).st, nst + 1, members)], Splits(d, g))
      /\ UNCHANGED <<gsc, once, last, minted, disk, said, dead, heard>> /\ rec' = rec
  BY <1>1 DEF RemoveMember
<1>3. members \subseteq View(d, g).mem /\ (d \in View(d, g).mem => d \in members)
  BY <1>1 DEF RemoveMember
<1>4. rec' \in [Devices -> Reconciliations] /\ RecsGoOn
  BY <1>2 DEF RecsGoOn, RecsFit, GroupTypes, GroupInv
<1> QED
  BY <1>2, <1>3, <1>4, LeaveOutKeeps

LEMMA ReconcileAddKeeps ==
  ASSUME GroupInv, NEW d \in Devices, NEW a, ReconcileAdd(d, a)
  PROVE  GroupInv'
<1> DEFINE r == [rec[d] EXCEPT !.adds = @ \ {a}]
<1>1. rec[d] \in Reconciliations /\ rec[d].on /\ rec[d].adds # {}
  BY RecTyped DEF ReconcileAdd, GroupInv
<1>2. /\ r \in Reconciliations
      /\ r.on = rec[d].on /\ r.todo = rec[d].todo /\ r.g = rec[d].g /\ r.adds \subseteq rec[d].adds
  BY <1>1 DEF Reconciliations
<1>3. rec' = [rec EXCEPT ![d] = r]
  BY DEF ReconcileAdd
<1> HIDE DEF r
<1>4. rec' \in [Devices -> Reconciliations] /\ \A x \in Devices : rec'[x] = IF x = d THEN r ELSE rec[x]
  BY <1>2, <1>3 DEF GroupInv, GroupTypes
<1>5. RecsGoOn
  BY <1>1, <1>2, <1>4 DEF RecsGoOn, RecsFit, GroupInv
<1>6. rec[d].g \in GroupIds /\ View(d, rec[d].g) # NoView
  BY <1>1 DEF RecsFit, GroupInv
<1>7. AddParticipant(d, rec[d].g, a) /\ UNCHANGED <<gsc, last, minted, disk, said, dead, heard>>
  BY DEF ReconcileAdd
<1>8. PICK g \in GroupIds : g = rec[d].g
  BY <1>6
<1> QED
  BY <1>4, <1>5, <1>6, <1>7, <1>8, AddKeeps

(* A reconciliation leaves out the revoked, and notes who is missing.      *)
LEMMA ReconcileGroupKeeps ==
  ASSUME GroupInv, NEW d \in Devices, NEW g \in GroupIds, ReconcileGroup(d, g)
  PROVE  GroupInv'
<1> DEFINE asked == AddrsOf(View(d, g).mem) \ rec[d].unknown
           gone == Revoked(d, g, asked)
           missing == {a \in asked : ActiveOf({a}) \ View(d, g).mem # {}}
           r == [rec[d] EXCEPT !.todo = @ \ {g}, !.unknown = {}, !.g = g, !.adds = missing]
<1>1. PICK members : members = View(d, g).mem \ gone
  OBVIOUS
<1>2. rec[d] \in Reconciliations /\ rec[d].on /\ g \in rec[d].todo /\ View(d, g) # NoView
  BY RecTyped DEF ReconcileGroup, GroupInv, RecsFit
<1>3. missing \subseteq Addresses
  <2>1. View(d, g).mem \subseteq Devices
    BY ViewTyped DEF GroupInv
  <2> QED
    BY <2>1 DEF AddrsOf, Addresses
<1>4. /\ rec' = [rec EXCEPT ![d] = r]
      /\ IF gone = {} \/ d \in gone
         THEN UNCHANGED <<gfaults, dev, post, nst, head, hurt, past, ever>>
         ELSE /\ Merge(d, g, members)
              /\ \E sent \in SUBSET (members \ {d}) :
                   Delivered(g, members \ {d}, sent, [t \in members |-> CommitFor(g, View(d, g).st, nst + 1, members)], Splits(d, g))
      /\ UNCHANGED <<gsc, once, last, minted, disk, said, dead, heard>>
  <2>1. rec' = [rec EXCEPT ![d] = r]
    BY DEF ReconcileGroup
  <2>3. LET stay == View(d, g).mem \ gone IN
          IF gone = {} \/ d \in gone
          THEN UNCHANGED <<gfaults, dev, post, nst, head, hurt, past, ever>>
          ELSE /\ Merge(d, g, stay)
               /\ \E sent \in SUBSET (stay \ {d}) :
                    Delivered(g, stay \ {d}, sent,
                              [t \in stay |-> CommitFor(g, View(d, g).st, nst + 1, stay)], Splits(d, g))
    BY DEF ReconcileGroup
  <2>2. UNCHANGED <<gsc, once, last, minted, disk, said, dead, heard>>
    BY DEF ReconcileGroup
  <2> HIDE DEF r, gone
  <2> QED
    BY <1>1, <2>1, <2>2, <2>3
<1> HIDE DEF missing, gone, asked
<1>5. /\ r \in Reconciliations
      /\ r.on = rec[d].on /\ r.todo = rec[d].todo \ {g} /\ r.g = g
  BY <1>2, <1>3 DEF Reconciliations
<1> HIDE DEF r
<1>6. rec' \in [Devices -> Reconciliations] /\ \A x \in Devices : rec'[x] = IF x = d THEN r ELSE rec[x]
  BY <1>4, <1>5 DEF GroupInv, GroupTypes
<1>7. RecsGoOn
  BY <1>2, <1>5, <1>6 DEF RecsGoOn, RecsFit, GroupInv
<1>8. CASE gone = {} \/ d \in gone
  <2>1. UNCHANGED quietVars
    BY <1>4, <1>8 DEF quietVars
  <2>2. RecsFit'
    BY <1>7, <2>1 DEF RecsFit, RecsGoOn, View, quietVars
  <2> QED
    BY <1>6, <2>1, <2>2, QuietKeeps
<1>9. CASE ~(gone = {} \/ d \in gone)
  <2>1. /\ Merge(d, g, members)
        /\ \E sent \in SUBSET (members \ {d}) :
             Delivered(g, members \ {d}, sent, [t \in members |-> CommitFor(g, View(d, g).st, nst + 1, members)], Splits(d, g))
    BY <1>4, <1>9
  <2>2. members \subseteq View(d, g).mem /\ (d \in View(d, g).mem => d \in members)
    BY <1>1, <1>9
  <2>3. UNCHANGED <<gsc, once, last, minted, disk, said, dead, heard>>
    BY <1>4
  <2> QED
    BY <1>2, <1>6, <1>7, <2>1, <2>2, <2>3, LeaveOutKeeps
<1> QED
  BY <1>8, <1>9

----------------------------------------------------------------------------
(* The invariant, and what it says of every run.                           *)

(* Every scenario starts in it.                                            *)
LEMMA GroupsBegin ==
  ASSUME NEW scenarios, \A s \in scenarios : GroupScenario(s)
  PROVE  GroupInit(scenarios) => GroupInv
<1> SUFFICES ASSUME GroupInit(scenarios)
             PROVE  GroupInv
  OBVIOUS
<1> USE BatchAssumption
<1>1. gsc.gids \subseteq GroupIds /\ gsc.once \in 0..KeyPackageBatch
  BY DEF GroupInit, GroupScenario
<1>2. NoView \in Rosters /\ NoView.st = 0 /\ NoView.mem = {}
  BY DEF NoView, Rosters
<1>3. /\ NewGroupDevice \in DeviceStates
      /\ NewGroupDevice.keys = 1..KeyPackageBatch + 1
      /\ \A g \in GroupIds : NewGroupDevice.view[g] = NoView
  BY <1>2 DEF NewGroupDevice, DeviceStates
<1>4. /\ dev = [d \in Devices |-> NewGroupDevice] /\ disk = dev
      /\ once = [d \in Devices |-> [i \in 1..gsc.once |-> i + 1]]
      /\ minted = [d \in Devices |-> KeyPackageBatch + 1]
      /\ post = [d \in Devices |-> {}] /\ rec = [d \in Devices |-> Idle]
      /\ nst = 0 /\ hurt = {} /\ head = [g \in GroupIds |-> NoView]
      /\ said = [t \in Texts |-> [g |-> 0, st |-> 0, to |-> {}]]
      /\ last = [d \in Devices |-> 1]
      /\ dead = [d \in Devices |-> {}] /\ past = [d \in Devices |-> {}]
      /\ ever = [g \in GroupIds |-> {}]
  BY DEF GroupInit
<1> HIDE DEF NewGroupDevice, NoView
<1>5. /\ [i \in 1..gsc.once |-> i + 1] \in Seq(Nat)
      /\ Len([i \in 1..gsc.once |-> i + 1]) = gsc.once
      /\ \A j \in 1..gsc.once : [i \in 1..gsc.once |-> i + 1][j] = j + 1
  BY <1>1
<1>6. GroupTypes
  <2>1. Idle \in Reconciliations
    BY DEF Idle, Reconciliations
  <2>2. once \in [Devices -> Seq(Nat)] /\ minted \in [Devices -> Nat]
    <3>1. PICK o \in Seq(Nat) : o = [i \in 1..gsc.once |-> i + 1]
      BY <1>5
    <3>2. once = [d \in Devices |-> o]
      BY <1>4, <3>1
    <3>3. KeyPackageBatch + 1 \in Nat
      OBVIOUS
    <3> QED
      BY <1>4, <3>2, <3>3
  <2>3. dev \in [Devices -> DeviceStates] /\ disk \in [Devices -> DeviceStates]
    BY <1>3, <1>4
  <2>4. said \in [Texts -> [g : GroupIds \cup {0}, st : Nat, to : SUBSET Devices]]
    BY <1>4
  <2> QED
    BY <1>1, <1>2, <1>4, <2>1, <2>2, <2>3, <2>4 DEF GroupTypes
<1>7. \A d \in Devices, g \in GroupIds : View(d, g) = NoView /\ disk[d].view[g] = NoView /\ Moves(d, g) = {}
  BY <1>3, <1>4 DEF View, Moves
<1>8. PackagesFit
  <2> SUFFICES ASSUME NEW d \in Devices
               PROVE  1 \in dev[d].keys /\ 1 \in disk[d].keys /\ OnceFits(d) /\ WelcomesFit(d)
    BY DEF PackagesFit
  <2>1. dev[d].keys = 1..KeyPackageBatch + 1 /\ disk[d].keys = 1..KeyPackageBatch + 1
    BY <1>3, <1>4
  <2>2. OnceFits(d)
    <3>1. Len(once[d]) = gsc.once /\ \A i \in 1..gsc.once : once[d][i] = i + 1
      BY <1>4, <1>5
    <3>2. minted[d] = KeyPackageBatch + 1
      BY <1>4
    <3> QED
      BY <1>1, <2>1, <3>1, <3>2 DEF OnceFits
  <2>3. WelcomesFit(d)
    BY <1>4 DEF WelcomesFit, Welcomes
  <2> QED
    BY <2>1, <2>2, <2>3
<1>9. GroupsExist
  BY <1>4, <1>7 DEF GroupsExist, NoTrace
<1>10. RecsFit
  BY <1>4 DEF RecsFit, Idle
<1>11. ASSUME NEW g \in GroupIds \ hurt
       PROVE  GroupFits(g)
  <2>1. head[g] = NoView /\ ever[g] = {}
    BY <1>4
  <2>2. HeadFits(g)
    BY <1>2, <1>4, <2>1 DEF HeadFits
  <2>3. \A d \in Devices : ViewFits(d, g) /\ MovesFit(d, g)
    BY <1>2, <1>7, <2>1 DEF ViewFits, MovesFit, RosterFits
  <2>4. \A t \in Texts : SaidFits(t, g)
    BY <1>4 DEF SaidFits
  <2> QED
    BY <2>2, <2>3, <2>4 DEF GroupFits
<1> QED
  BY <1>6, <1>8, <1>9, <1>10, <1>11 DEF GroupInv, GroupsFit

(* Every step keeps the invariant.                                         *)
LEMMA GroupNextKeeps ==
  ASSUME GroupInv, [GroupNext]_groupVars
  PROVE  GroupInv'
<1>1. CASE UNCHANGED groupVars
  <2>1. UNCHANGED quietVars /\ rec' = rec
    BY <1>1 DEF groupVars, quietVars
  <2>2. RecsFit' /\ rec' \in [Devices -> Reconciliations]
    BY <2>1 DEF GroupInv, GroupTypes, RecsFit, View, quietVars
  <2> QED
    BY <2>1, <2>2, QuietKeeps
<1>2. ASSUME NEW d \in Devices, NEW as, Converse(d, as) \/ CreateCircle(d, as)
      PROVE  GroupInv'
  <2>1. CreateConversation(d, as, "conversation") \/ CreateConversation(d, as, "circle")
    BY <1>2 DEF Converse, CreateCircle
  <2> QED
    BY <2>1, CreateKeeps
<1>3. ASSUME NEW d \in Devices, NEW e \in post[d], Receive(d, e)
      PROVE  GroupInv'
  BY <1>3, ReadMessageKeeps, ReadKeeps
<1> QED
  BY <1>1, <1>2, <1>3, SendKeeps, AddMemberKeeps, RemoveMemberKeeps, RegisterKeeps, StartKeeps,
     ReconcileGroupKeeps, ReconcileAddKeeps, LookupFailsKeeps, PublishKeeps, SaveVaultKeeps, CrashKeeps
  DEF GroupNext, DeviceStep

(* Every device in a group's newest roster is there or holds the welcome   *)
(* and the commits that take it there, and every delivered message was     *)
(* read, waits where its device will come, or was overtaken -- unless a    *)
(* delivery failed, a crash lost a key or a state, or two commits were     *)
(* made in one state: for any devices, addresses, groups and texts, any    *)
(* size of a batch of key packages, any registry and operations, and every *)
(* order in which envelopes are read (messaging.rs create_conversation,    *)
(* add_participant; devices.rs reconcile).                                 *)
THEOREM GroupsAlwaysWhole ==
  ASSUME NEW CONSTANT scenarios, \A s \in scenarios : GroupScenario(s)
  PROVE  GroupInit(scenarios) /\ [][GroupNext]_groupVars => []GroupsStayWhole
<1>1. GroupInit(scenarios) => GroupInv
  BY GroupsBegin
<1>2. GroupInv /\ [GroupNext]_groupVars => GroupInv'
  BY GroupNextKeeps
<1>3. GroupInv => GroupsStayWhole
  <2> SUFFICES ASSUME GroupInv, NEW g \in GroupIds \ hurt
               PROVE  /\ \A d \in head[g].mem : head[g].st \in Reach(d, g)
                      /\ \A t \in Texts : said[t].g = g => SaidFits(t, g)
    BY DEF GroupsStayWhole, SaidFits
  <2> QED
    BY DEF GroupInv, GroupsFit, GroupFits, HeadFits
<1> QED
  BY <1>1, <1>2, <1>3, PTL
=============================================================================
