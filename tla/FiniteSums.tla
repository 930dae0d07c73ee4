----------------------------- MODULE FiniteSums -----------------------------
(***************************************************************************)
(* Induction over the naturals and over finite sets, stated for a set of   *)
(* cases instead of a predicate, and the laws of the sums that             *)
(* MapThenSumSet computes: it takes the elements in an order of its own,   *)
(* and the sum does not depend on it.                                      *)
(***************************************************************************)
EXTENDS Integers, FiniteSets, FiniteSetsExt, WellFoundedInduction,
        FiniteSetTheorems, TLAPS

(* Every set of naturals that is not empty has a least element.            *)
LEMMA LeastNatural ==
  ASSUME NEW T \in SUBSET Nat, T # {}
  PROVE  \E x \in T : \A y \in T : x <= y
<1>1. IsWellFoundedOn(OpToRel(<, Nat), Nat)
  BY NatLessThanWellFounded
<1>2. \E x \in T : \A y \in T : ~(<<y, x>> \in OpToRel(<, Nat))
  BY <1>1, WFMin
<1>3. \A x, y \in Nat : y < x => <<y, x>> \in OpToRel(<, Nat)
  BY DEF OpToRel
<1>4. \E x \in T : \A y \in T : ~(y < x)
  BY <1>2, <1>3, Zenon
<1> QED
  BY <1>4

(* Induction over the naturals.                                            *)
LEMMA SetInduction ==
  ASSUME NEW T, 0 \in T, \A n \in Nat : n \in T => n + 1 \in T
  PROVE  Nat \subseteq T
<1> SUFFICES ASSUME Nat \ T # {} PROVE FALSE
  OBVIOUS
<1>1. PICK x \in Nat \ T : \A y \in Nat \ T : x <= y
  BY LeastNatural
<1>2. x # 0 /\ x - 1 \in Nat /\ x - 1 \in T
  BY <1>1
<1> QED
  BY <1>1, <1>2

LEMMA TakeOne ==
  ASSUME NEW S, IsFiniteSet(S), NEW n \in Nat, Cardinality(S) = n + 1
  PROVE  S # {} /\ \A x \in S : Cardinality(S \ {x}) = n
<1>1. ASSUME S = {} PROVE FALSE
  <2>1. Cardinality(S) = 0
    BY <1>1, FS_EmptySet
  <2> QED
    BY <2>1
<1>2. \A x \in S : Cardinality(S \ {x}) = Cardinality(S) - 1
  BY FS_RemoveElement
<1> QED
  BY <1>1, <1>2

(* Induction over the subsets of a finite set, one element at a time.      *)
LEMMA SubsetInduction ==
  ASSUME NEW S, IsFiniteSet(S), NEW T,
         {} \in T,
         \A s \in SUBSET S : \A x \in S \ s : s \in T => s \cup {x} \in T
  PROVE  \A s \in SUBSET S : s \in T
<1> DEFINE N == {n \in Nat : \A s \in SUBSET S : Cardinality(s) = n => s \in T}
<1>1. \A s \in SUBSET S : IsFiniteSet(s) /\ Cardinality(s) \in Nat
  BY FS_Subset, FS_CardinalityType
<1>2. 0 \in N
  BY <1>1, FS_EmptySet
<1>3. ASSUME NEW n \in Nat, n \in N PROVE n + 1 \in N
  <2> SUFFICES ASSUME NEW s \in SUBSET S, Cardinality(s) = n + 1 PROVE s \in T
    OBVIOUS
  <2>1. s # {} /\ \A x \in s : Cardinality(s \ {x}) = n
    BY <1>1, TakeOne
  <2>2. PICK x \in s : TRUE
    BY <2>1
  <2>3. Cardinality(s \ {x}) = n
    BY <2>1
  <2>4. s \ {x} \in SUBSET S /\ x \in S \ (s \ {x}) /\ s \ {x} \in T
    BY <1>3, <2>3
  <2>5. (s \ {x}) \cup {x} \in T
    BY <2>4
  <2>6. (s \ {x}) \cup {x} = s
    OBVIOUS
  <2> QED
    BY <2>5, <2>6
<1> HIDE DEF N
<1>4. Nat \subseteq N
  BY <1>2, <1>3, SetInduction
<1> QED
  BY <1>1, <1>4 DEF N

----------------------------------------------------------------------------
(* The sum of f over a finite set.                                         *)
SumOf(f, S) == MapThenSumSet(LAMBDA x : f[x], S)

(* g sums f over every set of sets, all subsets of one another, in the     *)
(* order MapThenSumSet takes.                                              *)
SumsUp(g, f, sets) ==
  g = [s \in sets |-> IF s = {} THEN 0
         ELSE LET x == CHOOSE y \in s : TRUE IN f[x] + g[s \ {x}]]

UpTo(S, n) == {s \in SUBSET S : Cardinality(s) <= n}

LEMMA SumExists ==
  ASSUME NEW f, NEW S, IsFiniteSet(S)
  PROVE  \E g : SumsUp(g, f, SUBSET S)
<1>1. \A s \in SUBSET S : IsFiniteSet(s) /\ Cardinality(s) \in Nat
  BY FS_Subset, FS_CardinalityType
<1> DEFINE N == {n \in Nat : \E g : SumsUp(g, f, UpTo(S, n))}
<1>2. 0 \in N
  <2>1. \A s \in UpTo(S, 0) : s = {}
    BY <1>1, FS_EmptySet DEF UpTo
  <2> DEFINE g == [s \in UpTo(S, 0) |-> 0]
  <2>2. SumsUp(g, f, UpTo(S, 0))
    BY <2>1 DEF SumsUp
  <2> QED
    BY <2>2
<1>3. ASSUME NEW n \in Nat, n \in N PROVE n + 1 \in N
  <2>1. PICK g : SumsUp(g, f, UpTo(S, n))
    BY <1>3
  <2> DEFINE pick(s) == CHOOSE y \in s : TRUE
             h == [s \in UpTo(S, n + 1) |-> IF s = {} THEN 0 ELSE f[pick(s)] + g[s \ {pick(s)}]]
  <2>2. \A s \in UpTo(S, n) : g[s] = IF s = {} THEN 0 ELSE f[pick(s)] + g[s \ {pick(s)}]
    BY <2>1 DEF SumsUp
  <2>3. ASSUME NEW s \in UpTo(S, n + 1), s # {}
        PROVE  s \ {pick(s)} \in UpTo(S, n)
    <3>1. pick(s) \in s
      BY <2>3
    <3>2. Cardinality(s \ {pick(s)}) = Cardinality(s) - 1
      BY <1>1, <3>1, FS_RemoveElement DEF UpTo
    <3> QED
      BY <1>1, <3>2 DEF UpTo
  <2>4. UpTo(S, n) \subseteq UpTo(S, n + 1)
    BY <1>1 DEF UpTo
  <2>5. \A s \in UpTo(S, n) : h[s] = g[s]
    BY <2>2, <2>4
  <2> DEFINE k == [s \in UpTo(S, n + 1) |-> IF s = {} THEN 0 ELSE f[pick(s)] + h[s \ {pick(s)}]]
  <2>6. h = k
    <3>1. ASSUME NEW s \in UpTo(S, n + 1) PROVE h[s] = k[s]
      <4>1. CASE s = {}
        BY <4>1
      <4>2. CASE s # {}
        <5>1. h[s \ {pick(s)}] = g[s \ {pick(s)}]
          BY <2>3, <2>5, <4>2
        <5> HIDE DEF pick
        <5> QED
          BY <4>2, <5>1
      <4> QED
        BY <4>1, <4>2
    <3> QED
      BY <3>1
  <2>7. SumsUp(h, f, UpTo(S, n + 1))
    BY <2>6 DEF SumsUp
  <2> QED
    BY <2>7
<1> HIDE DEF N
<1>4. Cardinality(S) \in N
  BY <1>1, <1>2, <1>3, SetInduction
<1>5. UpTo(S, Cardinality(S)) = SUBSET S
  BY FS_Subset DEF UpTo
<1> QED
  BY <1>4, <1>5 DEF N

(* Two such functions agree.                                               *)
LEMMA SumIsUnique ==
  ASSUME NEW f, NEW S, IsFiniteSet(S), NEW R \in SUBSET S, NEW g, NEW h,
         SumsUp(g, f, SUBSET S), SumsUp(h, f, SUBSET R)
  PROVE  g[R] = h[R]
<1> DEFINE N == {n \in Nat : \A s \in SUBSET R : Cardinality(s) = n => g[s] = h[s]}
<1>1. \A s \in SUBSET R : IsFiniteSet(s) /\ Cardinality(s) \in Nat
  BY FS_Subset, FS_CardinalityType
<1> DEFINE pick(s) == CHOOSE y \in s : TRUE
<1>2. \A s \in SUBSET R :
        /\ g[s] = IF s = {} THEN 0 ELSE f[pick(s)] + g[s \ {pick(s)}]
        /\ h[s] = IF s = {} THEN 0 ELSE f[pick(s)] + h[s \ {pick(s)}]
  BY DEF SumsUp
<1>3. 0 \in N
  BY <1>1, <1>2, FS_EmptySet
<1>4. ASSUME NEW n \in Nat, n \in N PROVE n + 1 \in N
  <2> SUFFICES ASSUME NEW s \in SUBSET R, Cardinality(s) = n + 1 PROVE g[s] = h[s]
    OBVIOUS
  <2>1. s # {} /\ \A x \in s : Cardinality(s \ {x}) = n
    BY <1>1, TakeOne
  <2>2. pick(s) \in s /\ Cardinality(s \ {pick(s)}) = n
    BY <2>1
  <2>3. g[s \ {pick(s)}] = h[s \ {pick(s)}]
    BY <1>4, <2>2
  <2> HIDE DEF pick
  <2> QED
    BY <1>2, <2>1, <2>3
<1> HIDE DEF N
<1>5. Cardinality(R) \in N
  BY <1>1, <1>3, <1>4, SetInduction
<1> QED
  BY <1>5 DEF N

LEMMA SumIsReached ==
  ASSUME NEW f, NEW S, IsFiniteSet(S)
  PROVE  \E g : SumsUp(g, f, SUBSET S) /\ SumOf(f, S) = g[S]
<1> DEFINE g == CHOOSE g : SumsUp(g, f, SUBSET S)
<1>1. SumsUp(g, f, SUBSET S)
  BY SumExists
<1>2. SumOf(f, S) = g[S]
  BY DEF SumOf, MapThenSumSet, MapThenFoldSet, SumsUp
<1> QED
  BY <1>1, <1>2

LEMMA SumUnfolds ==
  ASSUME NEW f, NEW S, IsFiniteSet(S)
  PROVE  /\ SumOf(f, {}) = 0
         /\ S # {} => LET x == CHOOSE y \in S : TRUE
                      IN  SumOf(f, S) = f[x] + SumOf(f, S \ {x})
<1>1. SumOf(f, {}) = 0
  <2>1. PICK g : SumsUp(g, f, SUBSET {}) /\ SumOf(f, {}) = g[{}]
    BY SumIsReached, FS_EmptySet
  <2> QED
    BY <2>1 DEF SumsUp
<1>2. ASSUME S # {}
      PROVE  LET x == CHOOSE y \in S : TRUE IN SumOf(f, S) = f[x] + SumOf(f, S \ {x})
  <2> DEFINE x == CHOOSE y \in S : TRUE
             R == S \ {x}
  <2>1. PICK g : SumsUp(g, f, SUBSET S) /\ SumOf(f, S) = g[S]
    BY SumIsReached
  <2>2. IsFiniteSet(R) /\ R \in SUBSET S
    BY FS_Subset
  <2>3. g[S] = f[x] + g[R]
    BY <1>2, <2>1 DEF SumsUp
  <2> HIDE DEF R
  <2>4. PICK h : SumsUp(h, f, SUBSET R) /\ SumOf(f, R) = h[R]
    BY <2>2, SumIsReached
  <2>5. g[R] = h[R]
    BY <2>1, <2>2, <2>4, SumIsUnique
  <2> QED
    BY <2>1, <2>3, <2>4, <2>5 DEF R
<1> QED
  BY <1>1, <1>2

----------------------------------------------------------------------------
LEMMA SumIsInt ==
  ASSUME NEW f, NEW S, IsFiniteSet(S), \A y \in S : f[y] \in Int
  PROVE  \A s \in SUBSET S : SumOf(f, s) \in Int
<1> DEFINE N == {n \in Nat : \A s \in SUBSET S : Cardinality(s) = n => SumOf(f, s) \in Int}
<1>1. \A s \in SUBSET S : IsFiniteSet(s) /\ Cardinality(s) \in Nat
  BY FS_Subset, FS_CardinalityType
<1>2. 0 \in N
  <2> SUFFICES ASSUME NEW s \in SUBSET S, Cardinality(s) = 0 PROVE SumOf(f, s) \in Int
    OBVIOUS
  <2>1. s = {} /\ SumOf(f, {}) = 0
    BY <1>1, SumUnfolds, FS_EmptySet
  <2> QED
    BY <2>1
<1>3. ASSUME NEW n \in Nat, n \in N PROVE n + 1 \in N
  <2> SUFFICES ASSUME NEW s \in SUBSET S, Cardinality(s) = n + 1 PROVE SumOf(f, s) \in Int
    OBVIOUS
  <2> DEFINE c == CHOOSE y \in s : TRUE
  <2>1. s # {} /\ \A x \in s : Cardinality(s \ {x}) = n
    BY <1>1, TakeOne
  <2>2. c \in s
    BY <2>1
  <2>3. SumOf(f, s) = f[c] + SumOf(f, s \ {c})
    BY <1>1, <2>1, SumUnfolds
  <2> HIDE DEF c
  <2>4. f[c] \in Int /\ SumOf(f, s \ {c}) \in Int
    BY <1>3, <2>1, <2>2
  <2> QED
    BY <2>3, <2>4
<1> HIDE DEF N
<1>4. \A s \in SUBSET S : Cardinality(s) \in N
  BY <1>1, <1>2, <1>3, SetInduction
<1> QED
  BY <1>4 DEF N

(* Any element may be taken out first.                                     *)
LEMMA SumTakesAny ==
  ASSUME NEW f, NEW S, IsFiniteSet(S), \A y \in S : f[y] \in Int
  PROVE  \A x \in S : SumOf(f, S) = f[x] + SumOf(f, S \ {x})
<1> DEFINE N == {n \in Nat : \A s \in SUBSET S : Cardinality(s) = n =>
                   \A x \in s : SumOf(f, s) = f[x] + SumOf(f, s \ {x})}
<1>1. \A s \in SUBSET S : /\ IsFiniteSet(s) /\ Cardinality(s) \in Nat
                          /\ SumOf(f, s) \in Int
  BY FS_Subset, FS_CardinalityType, SumIsInt
<1>2. 0 \in N
  BY <1>1, FS_EmptySet
<1>3. ASSUME NEW n \in Nat, n \in N PROVE n + 1 \in N
  <2> SUFFICES ASSUME NEW s \in SUBSET S, Cardinality(s) = n + 1, NEW x \in s
               PROVE  SumOf(f, s) = f[x] + SumOf(f, s \ {x})
    OBVIOUS
  <2> DEFINE c == CHOOSE y \in s : TRUE
  <2>1. s # {} /\ \A y \in s : Cardinality(s \ {y}) = n
    BY <1>1, TakeOne
  <2>2. c \in s
    BY <2>1
  <2>3. SumOf(f, s) = f[c] + SumOf(f, s \ {c})
    BY <1>1, <2>1, SumUnfolds
  <2> HIDE DEF c
  <2>4. CASE x = c
    BY <2>3, <2>4
  <2>5. CASE x # c
    <3> DEFINE r == (s \ {c}) \ {x}
    <3>1. /\ x \in s \ {c} /\ c \in s \ {x} /\ (s \ {x}) \ {c} = r
          /\ s \ {c} \in SUBSET S /\ s \ {x} \in SUBSET S /\ r \in SUBSET S
      BY <2>2, <2>5
    <3>2. SumOf(f, s \ {c}) = f[x] + SumOf(f, r)
      BY <1>3, <2>1, <2>2, <3>1
    <3>3. SumOf(f, s \ {x}) = f[c] + SumOf(f, r)
      BY <1>3, <2>1, <3>1
    <3>4. SumOf(f, r) \in Int /\ f[x] \in Int /\ f[c] \in Int
      BY <1>1, <2>2, <3>1
    <3> HIDE DEF r
    <3> QED
      BY <2>3, <3>2, <3>3, <3>4
  <2> QED
    BY <2>4, <2>5
<1> HIDE DEF N
<1>4. Cardinality(S) \in N
  BY <1>1, <1>2, <1>3, SetInduction
<1> QED
  BY <1>4 DEF N

(* Putting an element in, and what follows for two sums over one set.      *)
LEMMA SumAdds ==
  ASSUME NEW f, NEW S, IsFiniteSet(S), \A y \in S : f[y] \in Int
  PROVE  \A s \in SUBSET S : \A x \in S \ s :
           /\ SumOf(f, s) \in Int
           /\ SumOf(f, s \cup {x}) = f[x] + SumOf(f, s)
<1> SUFFICES ASSUME NEW s \in SUBSET S, NEW x \in S \ s
             PROVE  SumOf(f, s) \in Int /\ SumOf(f, s \cup {x}) = f[x] + SumOf(f, s)
  OBVIOUS
<1> DEFINE r == s \cup {x}
<1>1. r \in SUBSET S /\ IsFiniteSet(r) /\ x \in r /\ r \ {x} = s
  BY FS_Subset
<1>2. \A y \in r : f[y] \in Int
  BY <1>1
<1> HIDE DEF r
<1>3. SumOf(f, r) = f[x] + SumOf(f, r \ {x})
  BY <1>1, <1>2, SumTakesAny
<1>4. SumOf(f, s) \in Int
  BY SumIsInt
<1> QED
  BY <1>1, <1>3, <1>4 DEF r

LEMMA SumEmpty == \A f : SumOf(f, {}) = 0
BY SumUnfolds, FS_EmptySet

(* Equal terms have equal sums; no larger terms have no larger sum.        *)
LEMMA SumIsMonotone ==
  ASSUME NEW f, NEW g, NEW S, IsFiniteSet(S),
         \A y \in S : f[y] \in Int /\ g[y] \in Int /\ f[y] <= g[y]
  PROVE  SumOf(f, S) <= SumOf(g, S)
<1> DEFINE T == {s \in SUBSET S : SumOf(f, s) <= SumOf(g, s)}
<1>1. {} \in T
  BY SumEmpty
<1>2. ASSUME NEW s \in SUBSET S, NEW x \in S \ s, s \in T PROVE s \cup {x} \in T
  <2>1. /\ SumOf(f, s) \in Int /\ SumOf(f, s \cup {x}) = f[x] + SumOf(f, s)
        /\ SumOf(g, s) \in Int /\ SumOf(g, s \cup {x}) = g[x] + SumOf(g, s)
    BY SumAdds
  <2>2. SumOf(f, s) <= SumOf(g, s) /\ f[x] <= g[x] /\ f[x] \in Int /\ g[x] \in Int
    BY <1>2
  <2>3. SumOf(f, s \cup {x}) <= SumOf(g, s \cup {x})
    BY <2>1, <2>2
  <2> QED
    BY <2>3
<1> HIDE DEF T
<1>3. \A s \in SUBSET S : s \in T
  BY <1>1, <1>2, SubsetInduction
<1> QED
  BY <1>3 DEF T

LEMMA SumAgrees ==
  ASSUME NEW f, NEW g, NEW S, IsFiniteSet(S), \A y \in S : f[y] \in Int /\ f[y] = g[y]
  PROVE  SumOf(f, S) = SumOf(g, S)
<1>1. SumOf(f, S) <= SumOf(g, S)
  BY SumIsMonotone
<1>2. SumOf(g, S) <= SumOf(f, S)
  BY SumIsMonotone
<1>3. SumOf(f, S) \in Int /\ SumOf(g, S) \in Int
  BY SumIsInt
<1> QED
  BY <1>1, <1>2, <1>3

(* Adding or taking away term by term.                                     *)
LEMMA SumOfSums ==
  ASSUME NEW f, NEW g, NEW h, NEW S, IsFiniteSet(S),
         \A y \in S : f[y] \in Int /\ g[y] \in Int /\ h[y] = f[y] + g[y]
  PROVE  SumOf(h, S) = SumOf(f, S) + SumOf(g, S)
<1> DEFINE T == {s \in SUBSET S : SumOf(h, s) = SumOf(f, s) + SumOf(g, s)}
<1>1. {} \in T
  BY SumEmpty
<1>2. ASSUME NEW s \in SUBSET S, NEW x \in S \ s, s \in T PROVE s \cup {x} \in T
  <2>0. \A y \in S : h[y] \in Int
    OBVIOUS
  <2>1. /\ SumOf(f, s) \in Int /\ SumOf(f, s \cup {x}) = f[x] + SumOf(f, s)
        /\ SumOf(g, s) \in Int /\ SumOf(g, s \cup {x}) = g[x] + SumOf(g, s)
    BY SumAdds
  <2>2. SumOf(h, s) \in Int /\ SumOf(h, s \cup {x}) = h[x] + SumOf(h, s)
    BY <2>0, SumAdds
  <2>3. /\ SumOf(h, s) = SumOf(f, s) + SumOf(g, s) /\ h[x] = f[x] + g[x]
        /\ f[x] \in Int /\ g[x] \in Int
    BY <1>2
  <2>4. SumOf(h, s \cup {x}) = SumOf(f, s \cup {x}) + SumOf(g, s \cup {x})
    BY <2>1, <2>2, <2>3
  <2> QED
    BY <2>4
<1> HIDE DEF T
<1>3. \A s \in SUBSET S : s \in T
  BY <1>1, <1>2, SubsetInduction
<1> QED
  BY <1>3 DEF T

LEMMA SumOfDifferences ==
  ASSUME NEW f, NEW g, NEW h, NEW S, IsFiniteSet(S),
         \A y \in S : f[y] \in Int /\ g[y] \in Int /\ h[y] = f[y] - g[y]
  PROVE  SumOf(h, S) = SumOf(f, S) - SumOf(g, S)
<1>1. \A y \in S : h[y] \in Int /\ f[y] = h[y] + g[y]
  OBVIOUS
<1>2. SumOf(f, S) = SumOf(h, S) + SumOf(g, S)
  BY <1>1, SumOfSums
<1>3. SumOf(f, S) \in Int /\ SumOf(g, S) \in Int /\ SumOf(h, S) \in Int
  BY <1>1, SumIsInt
<1> QED
  BY <1>2, <1>3

(* One term changes.                                                       *)
LEMMA SumChangesBy ==
  ASSUME NEW f, NEW g, NEW S, IsFiniteSet(S), NEW x \in S,
         \A y \in S : f[y] \in Int /\ g[y] \in Int /\ (y # x => g[y] = f[y])
  PROVE  SumOf(g, S) = SumOf(f, S) - f[x] + g[x]
<1>1. SumOf(f, S) = f[x] + SumOf(f, S \ {x}) /\ SumOf(g, S) = g[x] + SumOf(g, S \ {x})
  BY SumTakesAny
<1>2. IsFiniteSet(S \ {x})
  BY FS_Subset
<1>3. SumOf(f, S \ {x}) = SumOf(g, S \ {x})
  BY <1>2, SumAgrees
<1>4. f[x] \in Int /\ g[x] \in Int /\ SumOf(f, S \ {x}) \in Int
  BY SumIsInt
<1> QED
  BY <1>1, <1>3, <1>4

(* Terms that are not negative.                                            *)
LEMMA SumIsNat ==
  ASSUME NEW f, NEW S, IsFiniteSet(S), \A y \in S : f[y] \in Nat
  PROVE  SumOf(f, S) \in Nat /\ \A x \in S : f[x] <= SumOf(f, S)
<1> DEFINE T == {s \in SUBSET S : SumOf(f, s) \in Nat}
<1>1. {} \in T
  BY SumEmpty
<1>2. ASSUME NEW s \in SUBSET S, NEW x \in S \ s, s \in T PROVE s \cup {x} \in T
  <2>1. SumOf(f, s \cup {x}) = f[x] + SumOf(f, s)
    BY SumAdds
  <2>2. SumOf(f, s) \in Nat /\ f[x] \in Nat
    BY <1>2
  <2> QED
    BY <2>1, <2>2
<1> HIDE DEF T
<1>3. \A s \in SUBSET S : s \in T
  BY <1>1, <1>2, SubsetInduction
<1>4. \A s \in SUBSET S : SumOf(f, s) \in Nat
  BY <1>3 DEF T
<1>5. ASSUME NEW x \in S PROVE f[x] <= SumOf(f, S)
  <2>1. SumOf(f, S) = f[x] + SumOf(f, S \ {x})
    BY SumTakesAny
  <2>2. SumOf(f, S \ {x}) \in Nat
    BY <1>4
  <2> QED
    BY <2>1, <2>2
<1> QED
  BY <1>4, <1>5

LEMMA SumOfZeros ==
  ASSUME NEW f, NEW S, IsFiniteSet(S), \A y \in S : f[y] = 0
  PROVE  SumOf(f, S) = 0
<1> DEFINE T == {s \in SUBSET S : SumOf(f, s) = 0}
<1>1. {} \in T
  BY SumEmpty
<1>2. ASSUME NEW s \in SUBSET S, NEW x \in S \ s, s \in T PROVE s \cup {x} \in T
  <2>1. SumOf(f, s \cup {x}) = f[x] + SumOf(f, s)
    BY SumAdds
  <2>2. SumOf(f, s) = 0 /\ f[x] = 0
    BY <1>2
  <2> QED
    BY <2>1, <2>2
<1> HIDE DEF T
<1>3. \A s \in SUBSET S : s \in T
  BY <1>1, <1>2, SubsetInduction
<1> QED
  BY <1>3 DEF T

(* A common factor.                                                        *)
LEMMA SumScales ==
  ASSUME NEW f, NEW g, NEW k \in Int, NEW S, IsFiniteSet(S),
         \A y \in S : f[y] \in Int /\ g[y] = k * f[y]
  PROVE  SumOf(g, S) = k * SumOf(f, S)
<1> DEFINE T == {s \in SUBSET S : SumOf(g, s) = k * SumOf(f, s)}
<1>1. {} \in T
  BY SumEmpty
<1>2. ASSUME NEW s \in SUBSET S, NEW x \in S \ s, s \in T PROVE s \cup {x} \in T
  <2>1. \A y \in S : g[y] \in Int
    OBVIOUS
  <2>2. SumOf(f, s) \in Int /\ SumOf(f, s \cup {x}) = f[x] + SumOf(f, s)
    BY SumAdds
  <2>3. SumOf(g, s) \in Int /\ SumOf(g, s \cup {x}) = g[x] + SumOf(g, s)
    BY <2>1, SumAdds
  <2>4. SumOf(g, s) = k * SumOf(f, s) /\ g[x] = k * f[x] /\ f[x] \in Int
    BY <1>2
  <2>5. k * (f[x] + SumOf(f, s)) = k * f[x] + k * SumOf(f, s)
    BY <2>2, <2>4
  <2> QED
    BY <2>2, <2>3, <2>4, <2>5
<1> HIDE DEF T
<1>3. \A s \in SUBSET S : s \in T
  BY <1>1, <1>2, SubsetInduction
<1> QED
  BY <1>3 DEF T

(* Shares of a whole in proportion to f, each rounded down or cut further, *)
(* add up to no more than the whole.                                       *)
LEMMA SharesFitTheWhole ==
  ASSUME NEW whole \in Nat, NEW f, NEW paid, NEW S, IsFiniteSet(S),
         \A y \in S : f[y] \in Nat /\ paid[y] \in Nat,
         SumOf(f, S) # 0,
         \A y \in S : SumOf(f, S) * paid[y] <= whole * f[y]
  PROVE  SumOf(paid, S) <= whole
<1> DEFINE all == SumOf(f, S)
           given == [y \in S |-> all * paid[y]]
           due == [y \in S |-> whole * f[y]]
<1>1. all \in Nat /\ SumOf(paid, S) \in Nat
  BY SumIsNat
<1>2. all > 0
  BY <1>1
<1>3. \A y \in S : all * paid[y] <= whole * f[y]
  OBVIOUS
<1> HIDE DEF all
<1>4. \A y \in S : /\ given[y] = all * paid[y] /\ given[y] \in Int
                   /\ due[y] = whole * f[y] /\ due[y] \in Int
  BY <1>1
<1>5. SumOf(given, S) = all * SumOf(paid, S)
  <2>1. \A y \in S : paid[y] \in Int /\ given[y] = all * paid[y]
    BY <1>4
  <2> HIDE DEF given
  <2> QED
    BY <1>1, <2>1, SumScales
<1>6. SumOf(due, S) = whole * all
  <2>1. \A y \in S : f[y] \in Int /\ due[y] = whole * f[y]
    BY <1>4
  <2> HIDE DEF due
  <2> QED
    BY <2>1, SumScales DEF all
<1>7. SumOf(given, S) <= SumOf(due, S)
  <2>1. \A y \in S : given[y] \in Int /\ due[y] \in Int /\ given[y] <= due[y]
    BY <1>3, <1>4
  <2> HIDE DEF given, due
  <2> QED
    BY <2>1, SumIsMonotone
<1>8. all * SumOf(paid, S) <= whole * all
  BY <1>5, <1>6, <1>7
<1> HIDE DEF given, due
<1>9. ASSUME NEW n \in Nat, n > whole PROVE all * n > whole * all
  <2>1. n >= whole + 1 /\ all * n >= all * (whole + 1)
    BY <1>1, <1>2, <1>9
  <2>2. all * (whole + 1) = whole * all + all
    BY <1>1
  <2> QED
    BY <1>1, <1>2, <2>1, <2>2
<1> QED
  BY <1>1, <1>8, <1>9

(* A finite set of naturals has a greatest element, which Max chooses.     *)
LEMMA GreatestIsMax ==
  ASSUME NEW S \in SUBSET Nat, IsFiniteSet(S), S # {}
  PROVE  Max(S) \in S /\ \A y \in S : y <= Max(S)
<1> DEFINE T == {s \in SUBSET S : s = {} \/ \E x \in s : \A y \in s : x >= y}
<1>1. {} \in T
  OBVIOUS
<1>2. ASSUME NEW s \in SUBSET S, NEW x \in S \ s, s \in T PROVE s \cup {x} \in T
  <2>1. CASE s = {}
    <3>1. x \in s \cup {x} /\ \A y \in s \cup {x} : x >= y
      BY <2>1
    <3> QED
      BY <3>1
  <2>2. CASE s # {}
    <3>1. PICK m \in s : \A y \in s : m >= y
      BY <1>2, <2>2
    <3>2. CASE m >= x
      <4>1. m \in s \cup {x} /\ \A y \in s \cup {x} : m >= y
        BY <3>1, <3>2
      <4> QED
        BY <4>1
    <3>3. CASE ~(m >= x)
      <4>1. x \in s \cup {x} /\ \A y \in s \cup {x} : x >= y
        BY <3>1, <3>3
      <4> QED
        BY <4>1
    <3> QED
      BY <3>2, <3>3
  <2> QED
    BY <2>1, <2>2
<1> HIDE DEF T
<1>3. S \in T
  BY <1>1, <1>2, SubsetInduction
<1>4. \E x \in S : \A y \in S : x >= y
  BY <1>3 DEF T
<1>5. Max(S) \in S /\ \A y \in S : Max(S) >= y
  BY <1>4 DEF Max
<1> QED
  BY <1>5

(* How a cardinality changes when one element joins or leaves.             *)
LEMMA OneMoves ==
  ASSUME NEW S, NEW R, IsFiniteSet(S), NEW a, S \ {a} = R \ {a}
  PROVE  /\ IsFiniteSet(R) /\ Cardinality(S) \in Nat /\ Cardinality(R) \in Nat
         /\ a \in S /\ a \notin R => Cardinality(S) # 0 /\ Cardinality(R) = Cardinality(S) - 1
         /\ a \notin S /\ a \in R => Cardinality(R) = Cardinality(S) + 1
         /\ (a \in S <=> a \in R) => R = S
<1>1. IsFiniteSet(S \ {a}) /\ IsFiniteSet(R)
  <2>1. IsFiniteSet(S \ {a})
    BY FS_Subset
  <2>2. R \subseteq (S \ {a}) \cup {a}
    OBVIOUS
  <2> QED
    BY <2>1, <2>2, FS_AddElement, FS_Subset
<1>2. Cardinality(S) \in Nat /\ Cardinality(R) \in Nat
  BY <1>1, FS_CardinalityType
<1>3. ASSUME a \in S, a \notin R PROVE Cardinality(S) # 0 /\ Cardinality(R) = Cardinality(S) - 1
  <2>1. R = S \ {a}
    BY <1>3
  <2>2. Cardinality(R) = Cardinality(S) - 1
    BY <1>3, <2>1, FS_RemoveElement
  <2> QED
    BY <1>2, <2>2
<1>4. ASSUME a \notin S, a \in R PROVE Cardinality(R) = Cardinality(S) + 1
  <2>1. R = S \cup {a}
    BY <1>4
  <2> QED
    BY <1>4, <2>1, FS_AddElement
<1>5. ASSUME a \in S <=> a \in R PROVE R = S
  BY <1>5
<1> QED
  BY <1>1, <1>2, <1>3, <1>4, <1>5
=============================================================================
