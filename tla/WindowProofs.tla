----------------------------- MODULE WindowProofs -----------------------------
(***************************************************************************)
(* Proofs about the two limiters that compare clocks: the "freq" algorithm *)
(* (how far a bucket overflows, that under one Leak no entry is lost while *)
(* it counts, and that so a window is bounded) and the middleware's        *)
(* counter per address, for any limit, window and number of threads.       *)
(***************************************************************************)
EXTENDS LeakBucket, APIRateLimit,
        FiniteSetTheorems, SequenceTheorems, WellFoundedInduction, TLAPS

-------------------------------------------------------------------------------
(* Sums over finite sets.  SumFunctionOnSet is a fold, which takes one     *)
(* element after the other by CHOOSE; these lemmas say that the order does *)
(* not matter.  Induction is over the subsets of a finite set.             *)

LEMMA SubsetInduction ==
  ASSUME NEW T, IsFiniteSet(T), NEW Good,
         \A S \in SUBSET T : (\A R \in SUBSET S : R # S => R \in Good) => S \in Good
  PROVE  \A S \in SUBSET T : S \in Good
<1> DEFINE Bad == {S \in SUBSET T : S \notin Good}
<1>1. SUFFICES ASSUME Bad # {}  PROVE FALSE
  OBVIOUS
<1>2. PICK S \in Bad : \A R \in Bad : ~ (<<R, S>> \in StrictSubsetOrdering(T))
  <2>1. IsWellFoundedOn(StrictSubsetOrdering(T), SUBSET T)
    BY FS_StrictSubsetOrderingWellFounded, FS_FiniteSubsetsOfFinite
  <2>2. Bad \subseteq SUBSET T
    OBVIOUS
  <2> HIDE DEF Bad
  <2> QED  BY <1>1, <2>1, <2>2, WFMin
<1>3. ASSUME NEW R \in SUBSET S, R # S  PROVE R \in Good
  <2>1. R \in SUBSET T /\ S \in SUBSET T
    BY <1>2
  <2>2. <<R, S>> \in StrictSubsetOrdering(T)
    BY <1>3, <2>1 DEF StrictSubsetOrdering
  <2> QED  BY <1>2, <2>1, <2>2
<1> QED  BY <1>2, <1>3

\* The fold as it is defined: sums[s] is the sum over s.
First(s) == CHOOSE x \in s : TRUE
Folds(sums, f, T) ==
  sums = [s \in SUBSET T |-> IF s = {} THEN 0 ELSE f[First(s)] + sums[s \ {First(s)}]]
UpTo(T, n) == {s \in SUBSET T : Cardinality(s) <= n}
FoldsUpTo(sums, f, T, n) ==
  \A s \in UpTo(T, n) :
    sums[s] = IF s = {} THEN 0 ELSE f[First(s)] + sums[s \ {First(s)}]

LEMMA FirstOf ==
  ASSUME NEW T, IsFiniteSet(T), T # {}
  PROVE  /\ First(T) \in T
         /\ IsFiniteSet(T \ {First(T)})
         /\ Cardinality(T) \in Nat /\ Cardinality(T \ {First(T)}) \in Nat
         /\ Cardinality(T \ {First(T)}) = Cardinality(T) - 1
<1>1. First(T) \in T
  BY DEF First
<1> QED  BY <1>1, FS_RemoveElement, FS_CardinalityType

\* There is such a function: one that is right for sets of up to n elements
\* gives one that is right for sets of up to n + 1.
LEMMA FoldExists ==
  ASSUME NEW f, NEW T, IsFiniteSet(T)
  PROVE  \E sums : Folds(sums, f, T)
<1> DEFINE Extended(sums) ==
      [s \in SUBSET T |-> IF s = {} THEN 0 ELSE f[First(s)] + sums[s \ {First(s)}]]
<1>1. ASSUME NEW n \in Nat, NEW sums, FoldsUpTo(sums, f, T, n)
      PROVE  FoldsUpTo(Extended(sums), f, T, n + 1)
  <2> SUFFICES ASSUME NEW s \in UpTo(T, n + 1)
               PROVE  Extended(sums)[s] = IF s = {} THEN 0
                                      ELSE f[First(s)] + Extended(sums)[s \ {First(s)}]
    BY DEF FoldsUpTo
  <2>1. CASE s = {}
    BY <2>1
  <2>2. CASE s # {}
    <3> DEFINE r == s \ {First(s)}
    <3>1. IsFiniteSet(s) /\ s \in SUBSET T /\ Cardinality(s) <= n + 1
      BY FS_Subset DEF UpTo
    <3>2. r \in UpTo(T, n)
      <4>1. /\ r \in SUBSET T
            /\ Cardinality(s) \in Nat /\ Cardinality(r) = Cardinality(s) - 1
        BY <2>2, <3>1, FirstOf
      <4>2. Cardinality(r) <= n
        BY <3>1, <4>1
      <4> QED  BY <4>1, <4>2 DEF UpTo
    <3>3. sums[r] = IF r = {} THEN 0 ELSE f[First(r)] + sums[r \ {First(r)}]
      BY <1>1, <3>2 DEF FoldsUpTo
    <3>4. Extended(sums)[r] = sums[r]
      BY <3>2, <3>3 DEF UpTo
    <3>5. Extended(sums)[s] = f[First(s)] + sums[r]
      BY <2>2, <3>1
    <3> QED  BY <2>2, <3>4, <3>5
  <2> QED  BY <2>1, <2>2
<1> DEFINE Bad == {n \in Nat : ~ \E sums : FoldsUpTo(sums, f, T, n)}
<1>2. ASSUME Bad # {}  PROVE FALSE
  <2>1. PICK n \in Bad : \A m \in Bad : ~ (<<m, n>> \in OpToRel(<, Nat))
    <3>1. Bad \subseteq Nat
      OBVIOUS
    <3> HIDE DEF Bad
    <3> QED  BY <1>2, <3>1, WFMin, NatLessThanWellFounded
  <2>2. CASE n = 0
    <3>1. \A s \in UpTo(T, 0) : s = {}
      BY FS_Subset, FS_EmptySet, FS_CardinalityType DEF UpTo
    <3>2. FoldsUpTo([s \in SUBSET T |-> 0], f, T, 0)
      BY <3>1 DEF FoldsUpTo, UpTo
    <3> QED  BY <2>1, <2>2, <3>2
  <2>3. CASE n # 0
    <3>0. n \in Nat
      BY <2>1
    <3>1. n \in Nat /\ n - 1 \in Nat /\ n - 1 < n /\ (n - 1) + 1 = n
      <4> HIDE DEF Bad
      <4> QED  BY <2>3, <3>0
    <3>2. <<n - 1, n>> \in OpToRel(<, Nat)
      BY <3>1 DEF OpToRel
    <3>3. n - 1 \notin Bad
      BY <2>1, <3>2
    <3>4. PICK sums : FoldsUpTo(sums, f, T, n - 1)
      BY <3>1, <3>3
    <3>5. FoldsUpTo(Extended(sums), f, T, n)
      <4> HIDE DEF Extended
      <4> QED  BY <1>1, <3>1, <3>4
    <3> QED  BY <2>1, <3>5
  <2> QED  BY <2>2, <2>3
<1>3. PICK sums : FoldsUpTo(sums, f, T, Cardinality(T))
  BY <1>2, FS_CardinalityType
<1>4. UpTo(T, Cardinality(T)) = SUBSET T
  BY FS_Subset DEF UpTo
<1>5. \A s \in SUBSET T : sums[s] = Extended(sums)[s]
  BY <1>3, <1>4 DEF FoldsUpTo
<1> DEFINE result == Extended(sums)
<1>6. result = Extended(result)
  <2>1. ASSUME NEW s \in SUBSET T, s # {}
        PROVE  s \ {First(s)} \in SUBSET T /\ result[s \ {First(s)}] = sums[s \ {First(s)}]
    BY <1>5
  <2>2. \A s \in SUBSET T : s # {} =>
          f[First(s)] + sums[s \ {First(s)}] = f[First(s)] + result[s \ {First(s)}]
    BY <2>1
  <2> HIDE DEF result
  <2>3. result = Extended(sums)
    BY DEF result
  <2> QED  BY <2>2, <2>3
<1> HIDE DEF result
<1>7. Folds(result, f, T)
  BY <1>6 DEF Folds
<1> QED  BY <1>7

\* The sum over a part of T does not depend on T.
LEMMA FoldUnique ==
  ASSUME NEW f, NEW T, IsFiniteSet(T), NEW S \in SUBSET T,
         NEW a, Folds(a, f, T), NEW b, Folds(b, f, S)
  PROVE  \A s \in SUBSET S : a[s] = b[s]
<1> DEFINE Good == {s \in SUBSET S : a[s] = b[s]}
<1>0. IsFiniteSet(S)
  BY FS_Subset
<1>1. ASSUME NEW s \in SUBSET S, \A r \in SUBSET s : r # s => r \in Good
      PROVE  s \in Good
  <2>1. /\ a[s] = IF s = {} THEN 0 ELSE f[First(s)] + a[s \ {First(s)}]
        /\ b[s] = IF s = {} THEN 0 ELSE f[First(s)] + b[s \ {First(s)}]
    <3>1. s \in SUBSET T
      OBVIOUS
    <3> QED  BY <3>1 DEF Folds
  <2>2. CASE s = {}
    BY <2>1, <2>2
  <2>3. CASE s # {}
    <3>1. s \ {First(s)} \in SUBSET s /\ s \ {First(s)} # s
      BY <2>3 DEF First
    <3> QED  BY <1>1, <2>1, <2>3, <3>1
  <2> QED  BY <2>2, <2>3
<1>2. \A s \in SUBSET S : s \in Good
  <2> HIDE DEF Good
  <2> QED  BY <1>0, <1>1, SubsetInduction
<1> QED  BY <1>2

LEMMA SumIsFold ==
  ASSUME NEW f, NEW T
  PROVE  SumFunctionOnSet(f, T) = (CHOOSE sums : Folds(sums, f, T))[T]
BY DEF SumFunctionOnSet, FoldFunctionOnSet, MapThenFoldSet, Folds, First

LEMMA SumFirst ==
  ASSUME NEW f, NEW T, IsFiniteSet(T)
  PROVE  SumFunctionOnSet(f, T) =
           IF T = {} THEN 0 ELSE f[First(T)] + SumFunctionOnSet(f, T \ {First(T)})
<1> DEFINE a == CHOOSE sums : Folds(sums, f, T)
           S == T \ {First(T)}
           b == CHOOSE sums : Folds(sums, f, S)
<1>1. Folds(a, f, T)
  BY FoldExists
<1>2. SumFunctionOnSet(f, T) = a[T] /\ SumFunctionOnSet(f, S) = b[S]
  BY SumIsFold
<1>3. a[T] = IF T = {} THEN 0 ELSE f[First(T)] + a[S]
  <2> HIDE DEF a
  <2> QED  BY <1>1 DEF Folds
<1>4. CASE T = {}
  BY <1>2, <1>3, <1>4
<1>5. CASE T # {}
  <2>1. IsFiniteSet(S) /\ S \in SUBSET T
    BY <1>5, FirstOf
  <2>2. Folds(b, f, S)
    BY <2>1, FoldExists
  <2>3. a[S] = b[S]
    <3> HIDE DEF a, b, S
    <3> QED  BY <1>1, <2>1, <2>2, FoldUnique
  <2> QED  BY <1>2, <1>3, <1>5, <2>3
<1> QED  BY <1>4, <1>5

LEMMA SumType ==
  ASSUME NEW f, NEW T, IsFiniteSet(T), \A x \in T : f[x] \in Nat
  PROVE  SumFunctionOnSet(f, T) \in Nat
<1> DEFINE Good == {S \in SUBSET T : SumFunctionOnSet(f, S) \in Nat}
<1>1. ASSUME NEW S \in SUBSET T, \A R \in SUBSET S : R # S => R \in Good
      PROVE  S \in Good
  <2>0. IsFiniteSet(S)
    BY FS_Subset
  <2>1. CASE S = {}
    BY <2>0, <2>1, SumFirst
  <2>2. CASE S # {}
    <3>1. First(S) \in S
      BY <2>0, <2>2, FirstOf
    <3>2. SumFunctionOnSet(f, S \ {First(S)}) \in Nat
      BY <1>1, <3>1
    <3>3. SumFunctionOnSet(f, S) = f[First(S)] + SumFunctionOnSet(f, S \ {First(S)})
      BY <2>0, <2>2, SumFirst
    <3>4. f[First(S)] \in Nat
      BY <3>1
    <3> QED  BY <3>2, <3>3, <3>4
  <2> QED  BY <2>1, <2>2
<1>2. \A S \in SUBSET T : S \in Good
  <2> HIDE DEF Good
  <2> QED  BY <1>1, SubsetInduction
<1> QED  BY <1>2

\* Any element may be taken out of a sum.
LEMMA SumWithout ==
  ASSUME NEW f, NEW T, IsFiniteSet(T), \A x \in T : f[x] \in Nat, NEW z \in T
  PROVE  SumFunctionOnSet(f, T) = f[z] + SumFunctionOnSet(f, T \ {z})
<1> DEFINE Sum(S) == SumFunctionOnSet(f, S)
           Good == {S \in SUBSET T : \A x \in S : Sum(S) = f[x] + Sum(S \ {x})}
<1>1. ASSUME NEW S \in SUBSET T, \A R \in SUBSET S : R # S => R \in Good
      PROVE  S \in Good
  <2>0. IsFiniteSet(S)
    BY FS_Subset
  <2>1. ASSUME NEW R \in SUBSET T  PROVE Sum(R) \in Nat
    BY FS_Subset, SumType
  <2>2. SUFFICES ASSUME NEW x \in S  PROVE Sum(S) = f[x] + Sum(S \ {x})
    OBVIOUS
  <2> DEFINE y == First(S)
  <2>3. y \in S /\ Sum(S) = f[y] + Sum(S \ {y})
    BY <2>0, SumFirst, FirstOf
  <2>4. CASE x = y
    BY <2>3, <2>4
  <2>5. CASE x # y
    <3>1. /\ S \ {y} \in Good /\ x \in S \ {y}
          /\ S \ {x} \in Good /\ y \in S \ {x}
      BY <1>1, <2>3, <2>5
    <3>2. Sum(S \ {y}) = f[x] + Sum((S \ {y}) \ {x})
      BY <3>1
    <3>3. Sum(S \ {x}) = f[y] + Sum((S \ {x}) \ {y})
      BY <3>1
    <3>4. (S \ {y}) \ {x} = (S \ {x}) \ {y}
      OBVIOUS
    <3> DEFINE rest == Sum((S \ {y}) \ {x})
    <3>5. rest \in Nat /\ f[x] \in Nat /\ f[y] \in Nat
      BY <2>1, <2>3
    <3>6. Sum(S) = f[y] + (f[x] + rest) /\ Sum(S \ {x}) = f[y] + rest
      BY <2>3, <3>2, <3>3, <3>4
    <3> HIDE DEF rest, Sum, y
    <3> QED  BY <3>5, <3>6
  <2> QED  BY <2>4, <2>5
<1>2. \A S \in SUBSET T : S \in Good
  <2> HIDE DEF Good
  <2> QED  BY <1>1, SubsetInduction
<1> QED  BY <1>2

LEMMA SumSame ==
  ASSUME NEW f, NEW g, NEW T, IsFiniteSet(T), \A x \in T : f[x] = g[x]
  PROVE  SumFunctionOnSet(f, T) = SumFunctionOnSet(g, T)
<1> DEFINE Good == {S \in SUBSET T : SumFunctionOnSet(f, S) = SumFunctionOnSet(g, S)}
<1>1. ASSUME NEW S \in SUBSET T, \A R \in SUBSET S : R # S => R \in Good
      PROVE  S \in Good
  <2>0. IsFiniteSet(S)
    BY FS_Subset
  <2>1. CASE S = {}
    BY <2>0, <2>1, SumFirst
  <2>2. CASE S # {}
    <3>1. First(S) \in S /\ f[First(S)] = g[First(S)]
      BY <2>0, <2>2, FirstOf
    <3>2. SumFunctionOnSet(f, S \ {First(S)}) = SumFunctionOnSet(g, S \ {First(S)})
      BY <1>1, <3>1
    <3> QED  BY <2>0, <2>2, <3>1, <3>2, SumFirst
  <2> QED  BY <2>1, <2>2
<1>2. \A S \in SUBSET T : S \in Good
  <2> HIDE DEF Good
  <2> QED  BY <1>1, SubsetInduction
<1> QED  BY <1>2

LEMMA SumZero ==
  ASSUME NEW f, NEW T, IsFiniteSet(T), \A x \in T : f[x] = 0
  PROVE  SumFunctionOnSet(f, T) = 0
<1> DEFINE Good == {S \in SUBSET T : SumFunctionOnSet(f, S) = 0}
<1>1. ASSUME NEW S \in SUBSET T, \A R \in SUBSET S : R # S => R \in Good
      PROVE  S \in Good
  <2>0. IsFiniteSet(S)
    BY FS_Subset
  <2>1. CASE S = {}
    BY <2>0, <2>1, SumFirst
  <2>2. CASE S # {}
    <3>1. First(S) \in S /\ f[First(S)] = 0
      BY <2>0, <2>2, FirstOf
    <3>2. SumFunctionOnSet(f, S \ {First(S)}) = 0
      BY <1>1, <3>1
    <3> QED  BY <2>0, <2>2, <3>1, <3>2, SumFirst
  <2> QED  BY <2>1, <2>2
<1>2. \A S \in SUBSET T : S \in Good
  <2> HIDE DEF Good
  <2> QED  BY <1>1, SubsetInduction
<1> QED  BY <1>2

\* One more at one place.
LEMMA SumIncrement ==
  ASSUME NEW D, NEW f \in [D -> Nat], NEW T \in SUBSET D, IsFiniteSet(T), NEW z \in D,
         NEW g \in [D -> Nat], g[z] = f[z] + 1, \A x \in D \ {z} : g[x] = f[x]
  PROVE  SumFunctionOnSet(g, T) = SumFunctionOnSet(f, T) + (IF z \in T THEN 1 ELSE 0)
<1>1. SumFunctionOnSet(f, T) \in Nat
  BY SumType
<1>2. CASE z \notin T
  <2>1. SumFunctionOnSet(g, T) = SumFunctionOnSet(f, T)
    BY <1>2, SumSame
  <2> QED  BY <1>1, <1>2, <2>1
<1>3. CASE z \in T
  <2> DEFINE rest == SumFunctionOnSet(f, T \ {z})
  <2>0. IsFiniteSet(T \ {z})
    BY FS_RemoveElement
  <2>1. SumFunctionOnSet(f, T) = f[z] + rest
    BY <1>3, SumWithout
  <2>2. SumFunctionOnSet(g, T) = g[z] + SumFunctionOnSet(g, T \ {z})
    BY <1>3, SumWithout
  <2>3. SumFunctionOnSet(g, T \ {z}) = rest
    BY <2>0, SumSame
  <2>4. rest \in Nat /\ f[z] \in Nat
    BY <2>0, SumType
  <2> HIDE DEF rest
  <2>6. SumFunctionOnSet(g, T) = SumFunctionOnSet(f, T) + 1
    BY <2>1, <2>2, <2>3, <2>4
  <2> QED  BY <1>3, <2>6
<1> QED  BY <1>2, <1>3

\* Counting by kind: f counts the places of each kind, g is the kind of a place.
LEMMA SumCounts ==
  ASSUME NEW f, NEW T, IsFiniteSet(T), NEW P, IsFiniteSet(P), NEW g,
         \A x \in T : f[x] = Cardinality({p \in P : g[p] = x})
  PROVE  SumFunctionOnSet(f, T) = Cardinality({p \in P : g[p] \in T})
<1> DEFINE Of(S) == {p \in P : g[p] \in S}
           Good == {S \in SUBSET T : SumFunctionOnSet(f, S) = Cardinality(Of(S))}
<1>1. ASSUME NEW S \in SUBSET T, \A R \in SUBSET S : R # S => R \in Good
      PROVE  S \in Good
  <2>0. IsFiniteSet(S)
    BY FS_Subset
  <2>1. CASE S = {}
    <3>1. Of(S) = {}
      BY <2>1
    <3> QED  BY <2>0, <2>1, <3>1, SumFirst, FS_EmptySet
  <2>2. CASE S # {}
    <3> DEFINE x == First(S)
    <3>1. x \in S
      BY <2>0, <2>2, FirstOf
    <3>2. SumFunctionOnSet(f, S) = f[x] + SumFunctionOnSet(f, S \ {x})
      BY <2>0, <2>2, SumFirst
    <3>3. SumFunctionOnSet(f, S \ {x}) = Cardinality(Of(S \ {x}))
      BY <1>1, <3>1
    <3>4. f[x] = Cardinality(Of({x}))
      BY <3>1
    <3> HIDE DEF x
    <3>5. Of(S) = Of({x}) \cup Of(S \ {x}) /\ Of({x}) \cap Of(S \ {x}) = {}
      BY <3>1
    <3>6. IsFiniteSet(Of({x})) /\ IsFiniteSet(Of(S \ {x}))
      BY FS_Subset
    <3>7. Cardinality(Of(S)) = Cardinality(Of({x})) + Cardinality(Of(S \ {x}))
      <4> DEFINE A == Of({x})
                 B == Of(S \ {x})
      <4> HIDE DEF Of, A, B
      <4>1. /\ Cardinality(A \cap B) = 0
            /\ Cardinality(A) \in Nat /\ Cardinality(B) \in Nat
        BY <3>5, <3>6, FS_EmptySet, FS_CardinalityType DEF A, B
      <4>2. Cardinality(A \cup B) = Cardinality(A) + Cardinality(B) - Cardinality(A \cap B)
        BY <3>6, FS_Union DEF A, B
      <4>3. Cardinality(A \cup B) = Cardinality(A) + Cardinality(B)
        BY <4>1, <4>2
      <4> QED  BY <3>5, <4>3 DEF A, B
    <3> HIDE DEF Of
    <3> QED  BY <3>2, <3>3, <3>4, <3>7
  <2> QED  BY <2>1, <2>2
<1>2. \A S \in SUBSET T : S \in Good
  <2> HIDE DEF Good
  <2> QED  BY <1>1, SubsetInduction
<1> QED  BY <1>2

-------------------------------------------------------------------------------
(* The bucket as a sequence.                                               *)

LEMMA PushedSeq ==
  ASSUME NEW s \in Seq(Times), NEW x \in Times
  PROVE  /\ <<x>> \o s \in Seq(Times)
         /\ Len(<<x>> \o s) = Len(s) + 1
         /\ (<<x>> \o s)[1] = x
         /\ \A i \in 1..Len(s) : (<<x>> \o s)[i + 1] = s[i]
         /\ \A j \in 2..Len(<<x>> \o s) : (<<x>> \o s)[j] = s[j - 1]
<1>1. <<x>> \in Seq(Times) /\ Len(<<x>>) = 1 /\ <<x>>[1] = x
  OBVIOUS
<1>2. /\ <<x>> \o s \in Seq(Times) /\ Len(<<x>> \o s) = 1 + Len(s)
      /\ \A i \in 1..(1 + Len(s)) : (<<x>> \o s)[i] = IF i <= 1 THEN <<x>>[i] ELSE s[i - 1]
  BY <1>1, ConcatProperties
<1>3. Len(s) \in Nat
  BY LenProperties
<1> QED  BY <1>1, <1>2, <1>3

LEMMA EntriesAreTimes ==
  ASSUME NEW s \in Seq(Times)
  PROVE  \A i \in DOMAIN s : s[i] \in Nat
<1>1. Times \subseteq Nat /\ DOMAIN s = 1..Len(s)
  BY LenProperties DEF Times
<1> QED  BY <1>1, ElementOfSeq

LEMMA TrimmedSeq ==
  ASSUME NEW s \in Seq(Times), NEW n \in Nat, n < Len(s)
  PROVE  /\ SubSeq(s, 1, n) \in Seq(Times)
         /\ Len(SubSeq(s, 1, n)) = n
         /\ \A i \in 1..n : SubSeq(s, 1, n)[i] = s[i]
<1>1. CASE n = 0
  BY <1>1, SubSeqProperties, LenProperties
<1>2. CASE n # 0
  BY <1>2, SubSeqProperties, LenProperties
<1> QED  BY <1>1, <1>2

\* Of the fresh entries there is a first.
LEMMA FirstFresh ==
  ASSUME NEW s \in Seq(Times), NEW c \in Times,
         \E i \in DOMAIN s : Fresh(s[i], c)
  PROVE  LET fresh == {i \in DOMAIN s : Fresh(s[i], c)}
             first == CHOOSE i \in fresh : \A j \in fresh : i <= j
         IN first \in fresh /\ \A j \in fresh : first <= j
<1> DEFINE fresh == {i \in DOMAIN s : Fresh(s[i], c)}
<1>1. fresh # {} /\ fresh \subseteq Nat
  BY LenProperties
<1>2. PICK i \in fresh : \A j \in fresh : ~ (<<j, i>> \in OpToRel(<, Nat))
  <2> HIDE DEF fresh
  <2> QED  BY <1>1, WFMin, NatLessThanWellFounded
<1>3. \A j \in fresh : i <= j
  <2>1. ASSUME NEW j \in fresh, j < i  PROVE FALSE
    <3>1. <<j, i>> \in OpToRel(<, Nat)
      BY <1>1, <2>1 DEF OpToRel
    <3> QED  BY <1>2, <3>1
  <2>2. i \in Nat /\ \A j \in fresh : j \in Nat
    BY <1>1
  <2> HIDE DEF fresh
  <2> QED  BY <2>1, <2>2
<1> HIDE DEF fresh
<1>4. \E k \in fresh : \A j \in fresh : k <= j
  BY <1>2, <1>3
<1> QED  BY <1>4 DEF fresh

LEMMA KeptType ==
  ASSUME TypeOK, NEW t \in Threads
  PROVE  Kept(t) \in 0..Len(list)
<1>1. /\ list \in Seq(Times) /\ clock[t] \in Times /\ Len(list) \in Nat
      /\ DOMAIN list = 1..Len(list)
  BY LenProperties DEF TypeOK
<1>2. CASE \E i \in DOMAIN list : Fresh(list[i], clock[t])
  <2> DEFINE fresh == {i \in DOMAIN list : Fresh(list[i], clock[t])}
             first == CHOOSE i \in fresh : \A j \in fresh : i <= j
  <2>1. first \in fresh
    BY <1>1, <1>2, FirstFresh
  <2>2. Kept(t) = Len(list) + 1 - first
    BY <1>2 DEF Kept
  <2>3. first \in 1..Len(list)
    BY <1>1, <2>1
  <2> HIDE DEF first
  <2> QED  BY <1>1, <2>2, <2>3
<1>3. CASE ~ \E i \in DOMAIN list : Fresh(list[i], clock[t])
  BY <1>1, <1>3 DEF Kept
<1> QED  BY <1>2, <1>3

-------------------------------------------------------------------------------
(* Type correctness.                                                       *)

LEMMA TypesInit == Init => TypeOK
<1> SUFFICES ASSUME Init  PROVE TypeOK
  OBVIOUS
<1>1. now \in Times /\ current \in Leaks /\ faults \in Nat /\ list \in Seq(Times)
  BY BucketAssumption DEF Init, Times, Leaks
<1>2. /\ pc \in [Threads -> PCs] /\ call \in [Threads -> Calls]
      /\ method \in [Threads -> {"browse", "update"}]
      /\ keyLocks \in [Leaks -> Threads \cup {None}]
  BY DEF Init, PCs, Calls
<1>3. leak \in [Threads -> Leaks] /\ clock \in [Threads -> Times] /\ keep \in [Threads -> Nat]
      /\ pushed \in [Times -> Nat]
  BY <1>1 DEF Init
<1> QED  BY <1>1, <1>2, <1>3 DEF TypeOK

LEMMA ListType ==
  ASSUME TypeOK, NEW t \in Threads, ThreadStep(t)
  PROVE  list' \in Seq(Times) /\ pushed' \in [Times -> Nat]
<1>1. list \in Seq(Times) /\ pushed \in [Times -> Nat] /\ clock[t] \in Times
      /\ keep[t] \in Nat
  BY DEF TypeOK
<1>2. Pushed(t) => list' \in Seq(Times) /\ pushed' \in [Times -> Nat]
  <2>1. <<clock[t]>> \o list \in Seq(Times)
    BY <1>1, PushedSeq
  <2>2. [pushed EXCEPT ![clock[t]] = @ + 1] \in [Times -> Nat]
    BY <1>1
  <2> QED  BY <2>1, <2>2 DEF Pushed
<1>3. keep[t] < Len(list) => SubSeq(list, 1, keep[t]) \in Seq(Times)
  BY <1>1, TrimmedSeq
<1> QED  BY <1>1, <1>2, <1>3 DEF ThreadStep, Call, Enter, LRange, LTrim, LLen, Stamp, LPush,
                                 StorageFails

LEMMA TypesStep ==
  ASSUME TypeOK, [Next]_vars
  PROVE  TypeOK'
<1>1. ASSUME NEW t \in Threads, ThreadStep(t)
      PROVE  TypeOK'
  <2>1. UNCHANGED <<now, current>>
    BY <1>1 DEF ThreadStep, Call, Enter, LRange, LTrim, LLen, Stamp, LPush, StorageFails
  <2>2. list' \in Seq(Times) /\ pushed' \in [Times -> Nat]
    BY <1>1, ListType
  <2>3. keyLocks' \in [Leaks -> Threads \cup {None}]
    BY <1>1 DEF TypeOK, ThreadStep, Unlock, Call, Enter, LRange, LTrim, LLen, Stamp, LPush,
                StorageFails
  <2>4. pc' \in [Threads -> PCs]
    <3>1. \E place \in PCs : pc' = [pc EXCEPT ![t] = place]
      BY <1>1 DEF ThreadStep, Goto, Cleaned, PCs, Call, Enter, LRange, LTrim, LLen, Stamp,
                  LPush, StorageFails
    <3> QED  BY <3>1 DEF TypeOK
  <2>5. call' \in [Threads -> Calls] /\ leak' \in [Threads -> Leaks]
    <3>1. /\ UNCHANGED call \/ \E c \in Calls : call' = [call EXCEPT ![t] = c]
          /\ UNCHANGED leak \/ \E l \in Leaks : leak' = [leak EXCEPT ![t] = l]
      <4>1. current \in Leaks
        BY DEF TypeOK
      <4> QED
        BY <1>1, <4>1 DEF ThreadStep, locals, Call, Enter, LRange, LTrim, LLen, Stamp, LPush,
                          StorageFails
    <3> QED  BY <3>1 DEF TypeOK
  <2>6. method' \in [Threads -> {"browse", "update"}]
    <3>1. \/ UNCHANGED method
          \/ \E m \in {"browse", "update"} : method' = [method EXCEPT ![t] = m]
      BY <1>1 DEF ThreadStep, locals, Call, Enter, LRange, LTrim, LLen, Stamp, LPush, StorageFails
    <3> QED  BY <3>1 DEF TypeOK
  <2>7. clock' \in [Threads -> Times]
    <3>1. 0 \in Times
      BY BucketAssumption DEF Times
    <3> QED
      BY <1>1, <3>1 DEF TypeOK, ThreadStep, Call, Enter, LRange, LTrim, LLen, Stamp, LPush,
                        StorageFails
  <2>8. keep' \in [Threads -> Nat]
    <3>1. Kept(t) \in Nat
      BY KeptType, LenProperties DEF TypeOK
    <3>2. UNCHANGED keep \/ \E k \in Nat : keep' = [keep EXCEPT ![t] = k]
      BY <1>1, <3>1 DEF ThreadStep, Call, Enter, LRange, LTrim, LLen, Stamp, LPush, StorageFails
    <3> QED  BY <3>2 DEF TypeOK
  <2>9. faults' \in Nat
    BY <1>1 DEF TypeOK, ThreadStep, Call, Enter, LRange, LTrim, LLen, Stamp, LPush, StorageFails
  <2> QED
    BY <2>1, <2>2, <2>3, <2>4, <2>5, <2>6, <2>7, <2>8, <2>9 DEF TypeOK
<1>2. CASE Reload
  <2>1. current' \in Leaks
    BY <1>2, BucketAssumption DEF Reload, TypeOK, Leaks
  <2> QED  BY <1>2, <2>1 DEF Reload, TypeOK, locals
<1>3. CASE Tick
  <2>1. now' \in Times
    BY <1>3, BucketAssumption DEF Tick, TypeOK, Times
  <2> QED  BY <1>3, <2>1 DEF Tick, TypeOK, locals
<1>4. CASE UNCHANGED vars
  BY <1>4 DEF vars, locals, TypeOK
<1> QED  BY <1>1, <1>2, <1>3, <1>4 DEF Next

-------------------------------------------------------------------------------
(* The overflow of a bucket.                                               *)

\* Calls that their Browse let pass and that have not pushed yet.
Passed ==
  {t \in Threads : \/ pc[t] = "update"
                   \/ method[t] = "update" /\ pc[t] \in {"range", "trim", "stamp", "push"}}

OverflowInv ==
  /\ \A t \in Threads : pc[t] \in {"stamp", "push"} => method[t] = "update"
  /\ Len(list) + Cardinality(Passed) <= Limit + N - 1

LEMMA PassedCounted ==
  ASSUME NEW S \in SUBSET Threads
  PROVE  IsFiniteSet(S) /\ Cardinality(S) \in Nat /\ Cardinality(S) <= N /\ N \in Nat
BY BucketAssumption, FS_Subset, FS_CardinalityType DEF N

LEMMA OverflowInit == Init => OverflowInv
<1> SUFFICES ASSUME Init  PROVE OverflowInv
  OBVIOUS
<1>1. Passed = {} /\ Len(list) = 0
  BY DEF Init, Passed
<1>2. N >= 1 /\ N \in Nat
  <2>1. N # 0
    BY BucketAssumption, FS_EmptySet DEF N
  <2> QED  BY <2>1, PassedCounted
<1>3. Len(list) + Cardinality(Passed) <= Limit + N - 1
  BY <1>1, <1>2, FS_EmptySet, BucketAssumption
<1> QED  BY <1>3 DEF Init, OverflowInv

\* A call that has pushed, or given up, has no part in the overflow any more.
LEMMA PassedLeaves ==
  ASSUME TypeOK, OverflowInv, NEW t \in Passed, NEW n \in Nat, n <= Len(list) + 1
  PROVE  n + Cardinality(Passed \ {t}) <= Limit + N - 1
<1>1. Passed \in SUBSET Threads
  BY DEF Passed
<1>2. Cardinality(Passed \ {t}) = Cardinality(Passed) - 1
  BY <1>1, PassedCounted, FS_RemoveElement
<1>3. Cardinality(Passed) \in Nat /\ N \in Nat /\ Len(list) \in Nat
  BY <1>1, PassedCounted, LenProperties DEF TypeOK
<1> QED  BY <1>2, <1>3, BucketAssumption DEF OverflowInv

LEMMA OverflowStep ==
  ASSUME TypeOK, OverflowInv, [Next]_vars
  PROVE  OverflowInv'
<1>0. TypeOK'
  BY TypesStep
<1>1. /\ Len(list) \in Nat /\ Len(list') \in Nat /\ N \in Nat
      /\ Cardinality(Passed) \in Nat /\ Cardinality(Passed)' \in Nat
      /\ Cardinality(Passed)' <= N
      /\ Passed \in SUBSET Threads /\ Passed' \in SUBSET Threads
  <2>1. Passed \in SUBSET Threads /\ Passed' \in SUBSET Threads
    BY DEF Passed
  <2>2. list \in Seq(Times) /\ list' \in Seq(Times)
    BY <1>0 DEF TypeOK
  <2> QED  BY <2>1, <2>2, PassedCounted, LenProperties
<1>2. ASSUME NEW t \in Threads, ThreadStep(t)
      PROVE  OverflowInv'
  <2>1. \A u \in Threads \ {t} : pc'[u] = pc[u] /\ method'[u] = method[u]
    BY <1>2 DEF TypeOK, ThreadStep, Goto, locals, Call, Enter, LRange, LTrim, LLen, Stamp,
                LPush, StorageFails
  <2>2. \A u \in Threads : pc'[u] \in {"stamp", "push"} => method'[u] = "update"
    <3>1. pc'[t] \in {"stamp", "push"} => method'[t] = "update"
      BY <1>2 DEF TypeOK, OverflowInv, ThreadStep, Goto, Cleaned, locals, Call, Enter, LRange,
                  LTrim, LLen, Stamp, LPush, StorageFails
    <3> QED  BY <2>1, <3>1 DEF OverflowInv
  <2>3. Len(list') + Cardinality(Passed)' <= Limit + N - 1
    <3>1. CASE LPush(t)
      <4>1. pc[t] = "push" /\ pc'[t] = "idle" /\ t \in Passed
        BY <3>1 DEF LPush, Goto, TypeOK, OverflowInv, Passed
      <4>2. Passed' = Passed \ {t}
        BY <2>1, <4>1 DEF Passed
      <4>3. Len(list') = Len(list) + 1
        BY <3>1, PushedSeq DEF LPush, Pushed, TypeOK
      <4>4. Len(list') + Cardinality(Passed \ {t}) <= Limit + N - 1
        BY <1>1, <4>1, <4>3, PassedLeaves
      <4> QED  BY <4>2, <4>4
    <3>2. CASE StorageFails(t)
      <4>1. pc[t] \in {"range", "trim", "length", "push"} /\ pc'[t] = "idle"
        BY <3>2 DEF StorageFails, Goto, TypeOK
      <4>2. Passed' = Passed \ {t}
        BY <2>1, <4>1 DEF Passed
      <4>3. Len(list') <= Len(list) \/ (pc[t] = "push" /\ Len(list') = Len(list) + 1)
        <5>1. list \in Seq(Times) /\ clock[t] \in Times /\ keep[t] \in Nat
          BY DEF TypeOK
        <5>2. CASE UNCHANGED list
          BY <1>1, <5>2
        <5>3. CASE pc[t] = "push" /\ Pushed(t)
          BY <5>1, <5>3, PushedSeq DEF Pushed
        <5>4. CASE keep[t] < Len(list) /\ list' = SubSeq(list, 1, keep[t])
          BY <1>1, <5>1, <5>4, TrimmedSeq
        <5> QED  BY <3>2, <5>2, <5>3, <5>4 DEF StorageFails
      <4>4. CASE t \in Passed
        <5>1. Len(list') <= Len(list) + 1
          BY <1>1, <4>3
        <5>2. Len(list') + Cardinality(Passed \ {t}) <= Limit + N - 1
          BY <1>1, <4>4, <5>1, PassedLeaves
        <5> QED  BY <4>2, <5>2
      <4>5. CASE t \notin Passed
        <5>1. pc[t] # "push" /\ Passed' = Passed
          BY <4>2, <4>5 DEF OverflowInv, Passed
        <5>2. Len(list') <= Len(list) /\ Cardinality(Passed)' = Cardinality(Passed)
          BY <4>3, <5>1
        <5> QED  BY <1>1, <5>2, BucketAssumption DEF OverflowInv
      <4> QED  BY <4>4, <4>5
    <3>3. CASE LLen(t)
      <4>1. UNCHANGED list
        BY <3>3 DEF LLen
      <4>2. CASE Len(list) < Limit
        BY <1>1, <4>1, <4>2, BucketAssumption
      <4>3. CASE ~(Len(list) < Limit)
        <5>1. pc[t] = "length" /\ pc'[t] = "idle"
          BY <3>3, <4>3 DEF LLen, Goto, TypeOK
        <5>2. Passed' = Passed
          BY <2>1, <5>1 DEF Passed
        <5> QED  BY <4>1, <5>2 DEF OverflowInv
      <4> QED  BY <4>2, <4>3
    <3>4. CASE LTrim(t)
      <4>1. Len(list') <= Len(list)
        <5>1. list \in Seq(Times) /\ keep[t] \in Nat
          BY DEF TypeOK
        <5> QED  BY <1>1, <3>4, <5>1, TrimmedSeq DEF LTrim
      <4>2. pc[t] = "trim" /\ pc'[t] \in {"length", "stamp"} /\ UNCHANGED method
            /\ (pc'[t] = "length" <=> method[t] = "browse") /\ method[t] \in {"browse", "update"}
        BY <3>4 DEF LTrim, Goto, Cleaned, locals, TypeOK
      <4>3. Passed' = Passed
        BY <2>1, <4>2 DEF Passed
      <4> QED  BY <1>1, <4>1, <4>3, BucketAssumption DEF OverflowInv
    <3>5. CASE (\E c \in Calls : Call(t, c)) \/ Enter(t) \/ LRange(t) \/ Stamp(t)
      <4>1. UNCHANGED list
        BY <3>5 DEF Call, Enter, LRange, Stamp
      <4>2. Passed' \subseteq Passed
        <5>1. t \in Passed' => t \in Passed
          BY <3>5 DEF Call, Enter, LRange, Stamp, Goto, Cleaned, locals, TypeOK, OverflowInv,
                      Passed
        <5> QED  BY <2>1, <5>1 DEF Passed
      <4>3. Cardinality(Passed)' <= Cardinality(Passed)
        BY <1>1, <4>2, PassedCounted, FS_Subset
      <4> QED  BY <1>1, <4>1, <4>3, BucketAssumption DEF OverflowInv
    <3> QED  BY <1>2, <3>1, <3>2, <3>3, <3>4, <3>5 DEF ThreadStep
  <2> QED  BY <2>2, <2>3 DEF OverflowInv
<1>3. CASE Reload \/ Tick \/ UNCHANGED vars
  BY <1>3 DEF Reload, Tick, vars, locals, OverflowInv, Passed
<1> QED  BY <1>2, <1>3 DEF Next

\* N callers may pass Browse before the first of them pushes, and that is all, whatever
\* reloads and failures come in between.
THEOREM BucketsAreBounded == Spec => []BucketBound
<1>1. Init => TypeOK /\ OverflowInv
  BY TypesInit, OverflowInit
<1>2. TypeOK /\ OverflowInv /\ [Next]_vars => (TypeOK /\ OverflowInv)'
  BY TypesStep, OverflowStep
<1>3. TypeOK /\ OverflowInv => BucketBound
  <2> SUFFICES ASSUME TypeOK, OverflowInv  PROVE BucketBound
    OBVIOUS
  <2>1. Cardinality(Passed) \in Nat /\ N \in Nat /\ Len(list) \in Nat
    BY PassedCounted, LenProperties DEF Passed, TypeOK
  <2> QED  BY <2>1, BucketAssumption DEF OverflowInv, BucketBound
<1> QED  BY <1>1, <1>2, <1>3, PTL DEF Spec

-------------------------------------------------------------------------------
(* One Leak, and so one lock, at a time: the bucket is kept in order, newest *)
(* first, and is only ever emptied when nothing in it counts any more.      *)

Inside == {"range", "trim", "length", "stamp", "push"}

OneLock == \A t \in Threads : leak[t] = 0 /\ (pc[t] \in Inside => keyLocks[0] = t)

NewestFirst == \A i, j \in DOMAIN list : i <= j => list[j] <= list[i]

InThePast ==
  /\ \A i \in DOMAIN list : list[i] <= now
  /\ \A t \in Threads : clock[t] <= now

PushesTheNewest ==
  \A t \in Threads : pc[t] = "push" => \A i \in DOMAIN list : list[i] <= clock[t]

TrimsTheStale ==
  \A t \in Threads : pc[t] = "trim" =>
     keep[t] = 0 /\ \A i \in DOMAIN list : ~ Fresh(list[i], clock[t])

CountsTheFresh ==
  \A t \in Threads : pc[t] = "length" => Len(list) = 0 \/ Fresh(list[1], clock[t])

OrderInv ==
  current = 0 => /\ OneLock
                 /\ NewestFirst /\ InThePast
                 /\ PushesTheNewest /\ TrimsTheStale /\ CountsTheFresh

\* In a bucket in order the cleaning keeps everything or nothing.
LEMMA KeptNewest ==
  ASSUME TypeOK, NewestFirst, NEW t \in Threads
  PROVE  \/ Kept(t) = Len(list) /\ Len(list) # 0 /\ Fresh(list[1], clock[t])
         \/ Kept(t) = 0 /\ \A i \in DOMAIN list : ~ Fresh(list[i], clock[t])
<1>1. /\ list \in Seq(Times) /\ clock[t] \in Times /\ Len(list) \in Nat
      /\ DOMAIN list = 1..Len(list) /\ \A i \in DOMAIN list : list[i] \in Nat
      /\ clock[t] \in Nat /\ Window \in Nat
  BY LenProperties, ElementOfSeq, BucketAssumption DEF TypeOK, Times
<1>2. CASE \E i \in DOMAIN list : Fresh(list[i], clock[t])
  <2> DEFINE fresh == {i \in DOMAIN list : Fresh(list[i], clock[t])}
             first == CHOOSE i \in fresh : \A j \in fresh : i <= j
  <2>1. first \in fresh /\ \A j \in fresh : first <= j
    BY <1>1, <1>2, FirstFresh
  <2>2. Kept(t) = Len(list) + 1 - first
    BY <1>2 DEF Kept
  <2>3. PICK i \in DOMAIN list : Fresh(list[i], clock[t])
    BY <1>2
  <2>4. 1 \in DOMAIN list /\ list[i] <= list[1] /\ Len(list) # 0
    BY <1>1, <2>3 DEF NewestFirst
  <2>5. 1 \in fresh
    BY <1>1, <2>3, <2>4 DEF Fresh
  <2>6. first = 1
    <3>1. first \in 1..Len(list) /\ first <= 1
      BY <1>1, <2>1, <2>5
    <3> HIDE DEF first
    <3> QED  BY <1>1, <3>1
  <2>7. Kept(t) = Len(list) /\ Fresh(list[1], clock[t])
    BY <1>1, <2>2, <2>5, <2>6
  <2> QED  BY <2>4, <2>7
<1>3. CASE ~ \E i \in DOMAIN list : Fresh(list[i], clock[t])
  BY <1>3 DEF Kept
<1> QED  BY <1>2, <1>3

LEMMA OrderInit == Init => OrderInv
BY BucketAssumption DEF Init, OrderInv, OneLock, Inside, NewestFirst, InThePast, PushesTheNewest,
   TrimsTheStale, CountsTheFresh

\* What a step of a thread does to the bucket while there is one Leak.
LEMMA ListEffect ==
  ASSUME TypeOK, OrderInv, current = 0, NEW t \in Threads, ThreadStep(t)
  PROVE  \/ UNCHANGED list
         \/ /\ pc[t] = "push" /\ pc'[t] = "idle" /\ UNCHANGED <<now, clock>>
            /\ list' = <<clock[t]>> \o list
         \/ /\ pc[t] = "trim" /\ pc'[t] # "push" /\ pc'[t] # "trim" /\ UNCHANGED <<now, clock>>
            /\ Len(list') = 0
<1>1. list \in Seq(Times) /\ keep[t] \in Nat
  BY DEF TypeOK
<1>2. pc[t] = "trim" /\ keep[t] < Len(list) /\ list' = SubSeq(list, 1, keep[t]) => Len(list') = 0
  BY <1>1, TrimmedSeq DEF OrderInv, TrimsTheStale
<1>3. CASE LTrim(t)
  BY <1>2, <1>3 DEF LTrim, Goto, Cleaned, TypeOK
<1>4. CASE LPush(t)
  BY <1>4 DEF LPush, Pushed, Goto, TypeOK
<1>5. CASE StorageFails(t)
  BY <1>2, <1>5 DEF StorageFails, Pushed, Goto, TypeOK
<1>6. CASE (\E c \in Calls : Call(t, c)) \/ Enter(t) \/ LRange(t) \/ LLen(t) \/ Stamp(t)
  BY <1>6 DEF Call, Enter, LRange, LLen, Stamp
<1> QED  BY <1>3, <1>4, <1>5, <1>6 DEF ThreadStep

LEMMA OrderStepOfThread ==
  ASSUME TypeOK, TypeOK', OrderInv, current = 0, NEW t \in Threads, ThreadStep(t)
  PROVE  OneLock' /\ NewestFirst' /\ InThePast' /\ PushesTheNewest' /\ TrimsTheStale'
         /\ CountsTheFresh'
<1>1. OneLock /\ NewestFirst /\ InThePast /\ PushesTheNewest /\ TrimsTheStale /\ CountsTheFresh
  BY DEF OrderInv
<1>2. /\ list \in Seq(Times) /\ list' \in Seq(Times) /\ Len(list) \in Nat /\ Len(list') \in Nat
      /\ DOMAIN list = 1..Len(list) /\ DOMAIN list' = 1..Len(list')
      /\ \A i \in DOMAIN list : list[i] \in Nat
      /\ now \in Nat /\ Window \in Nat /\ now' = now
  <2>1. list \in Seq(Times) /\ list' \in Seq(Times) /\ now \in Nat
    BY DEF TypeOK, Times
  <2>2. now' = now
    BY DEF ThreadStep, Call, Enter, LRange, LTrim, LLen, Stamp, LPush, StorageFails
  <2>3. \A i \in DOMAIN list : list[i] \in Nat
    BY <2>1, EntriesAreTimes
  <2> QED  BY <2>1, <2>2, <2>3, LenProperties, BucketAssumption
<1>3. \A u \in Threads : clock[u] \in Nat /\ clock'[u] \in Nat
  BY DEF TypeOK, Times
<1>4. \A u \in Threads \ {t} :
         pc'[u] = pc[u] /\ clock'[u] = clock[u] /\ keep'[u] = keep[u] /\ leak'[u] = leak[u]
  BY DEF TypeOK, ThreadStep, Goto, locals, Call, Enter, LRange, LTrim, LLen, Stamp, LPush,
         StorageFails
<1>5. ASSUME NEW u \in Threads \ {t}, pc[t] \in Inside
      PROVE  pc'[u] \notin Inside
  BY <1>1, <1>4, <1>5 DEF OneLock
<1>6. OneLock'
  <2>1. leak'[t] = 0
    BY <1>1 DEF TypeOK, OneLock, ThreadStep, locals, Call, Enter, LRange, LTrim, LLen, Stamp,
                LPush, StorageFails
  <2>2. pc'[t] \in Inside => keyLocks'[0] = t
    <3>1. leak[t] = 0 /\ 0 \in Leaks /\ (pc[t] \in Inside => keyLocks[0] = t)
      BY <1>1, BucketAssumption DEF OneLock, Leaks
    <3> QED
      BY <3>1 DEF TypeOK, Inside, ThreadStep, Goto, Cleaned, Call, Enter, LRange, LTrim, LLen,
                  Stamp, LPush, StorageFails
  <2>3. ASSUME NEW u \in Threads \ {t}, pc[u] \in Inside
        PROVE  keyLocks'[0] = u
    <3>1. keyLocks[0] = u /\ u # t /\ u # None /\ pc[t] \notin Inside /\ leak[t] = 0
      BY <1>1, <2>3, BucketAssumption DEF OneLock
    <3>2. keyLocks' = keyLocks
      BY <3>1 DEF Inside, ThreadStep, Call, Enter, LRange, LTrim, LLen, Stamp, LPush,
                  StorageFails
    <3> QED  BY <3>1, <3>2
  <2> QED  BY <1>1, <1>4, <2>1, <2>2, <2>3 DEF OneLock
<1>7. \A u \in Threads : clock'[u] <= now'
  <2>1. clock'[t] \in {clock[t], 0, now}
    BY DEF TypeOK, ThreadStep, Call, Enter, LRange, LTrim, LLen, Stamp, LPush, StorageFails
  <2> QED  BY <1>1, <1>2, <1>3, <1>4, <2>1 DEF InThePast
<1>8. CASE UNCHANGED list
  <2>1. NewestFirst' /\ InThePast'
    BY <1>1, <1>2, <1>7, <1>8 DEF NewestFirst, InThePast
  <2>2. PushesTheNewest'
    <3>1. pc'[t] = "push" => clock'[t] = now
      BY DEF TypeOK, ThreadStep, Goto, Cleaned, Call, Enter, LRange, LTrim, LLen, Stamp, LPush,
             StorageFails
    <3> QED  BY <1>1, <1>4, <1>8, <3>1 DEF PushesTheNewest, InThePast
  <2>3. TrimsTheStale'
    <3>1. ASSUME pc'[t] = "trim"
          PROVE  keep'[t] = 0 /\ \A i \in DOMAIN list' : ~ Fresh(list'[i], clock'[t])
      <4>1. LRange(t)
        BY <3>1 DEF TypeOK, ThreadStep, Goto, Cleaned, Call, Enter, LRange, LTrim, LLen, Stamp,
                    LPush, StorageFails
      <4>2. Kept(t) # Len(list)
        BY <3>1, <4>1 DEF LRange, Goto, Cleaned, TypeOK
      <4>3. Kept(t) = 0 /\ \A i \in DOMAIN list : ~ Fresh(list[i], clock[t])
        BY <1>1, <4>2, KeptNewest
      <4> QED  BY <1>8, <4>1, <4>3 DEF LRange, TypeOK
    <3> QED  BY <1>1, <1>4, <1>8, <3>1 DEF TrimsTheStale
  <2>4. CountsTheFresh'
    <3>1. ASSUME pc'[t] = "length"
          PROVE  Len(list') = 0 \/ Fresh(list'[1], clock'[t])
      <4>1. LRange(t) \/ LTrim(t)
        BY <3>1 DEF TypeOK, ThreadStep, Goto, Cleaned, Call, Enter, LRange, LTrim, LLen, Stamp,
                    LPush, StorageFails
      <4>2. CASE LRange(t)
        <5>1. Kept(t) = Len(list)
          BY <3>1, <4>2 DEF LRange, Goto, TypeOK
        <5>2. Len(list) = 0 \/ Fresh(list[1], clock[t])
          BY <1>1, <5>1, KeptNewest
        <5> QED  BY <1>8, <4>2, <5>2 DEF LRange
      <4>3. CASE LTrim(t)
        <5>1. keep[t] = 0 /\ pc[t] = "trim"
          BY <1>1, <4>3 DEF TrimsTheStale, LTrim
        <5>2. keep[t] < Len(list) => Len(list') = 0
          BY <1>2, <4>3, <5>1, TrimmedSeq DEF LTrim
        <5> QED  BY <1>2, <1>8, <5>1, <5>2
      <4> QED  BY <4>1, <4>2, <4>3
    <3> QED  BY <1>1, <1>4, <1>8, <3>1 DEF CountsTheFresh
  <2> QED  BY <1>6, <2>1, <2>2, <2>3, <2>4
<1>9. CASE pc[t] = "push" /\ pc'[t] = "idle" /\ list' = <<clock[t]>> \o list
  <2>1. /\ Len(list') = Len(list) + 1 /\ list'[1] = clock[t]
        /\ \A j \in 2..Len(list') : list'[j] = list[j - 1]
    BY <1>2, <1>9, PushedSeq DEF TypeOK
  <2>2. \A i \in DOMAIN list : list[i] <= clock[t]
    BY <1>1, <1>9 DEF PushesTheNewest
  <2>3. \A i \in DOMAIN list' : i = 1 \/ (i \in 2..Len(list') /\ i - 1 \in DOMAIN list)
    BY <1>2, <2>1
  <2>4. NewestFirst'
    <3> SUFFICES ASSUME NEW i \in DOMAIN list', NEW j \in DOMAIN list', i <= j
                 PROVE  list'[j] <= list'[i]
      BY DEF NewestFirst
    <3>1. CASE i = 1 /\ j = 1
      BY <1>3, <2>1, <3>1
    <3>2. CASE i = 1 /\ j # 1
      BY <2>1, <2>2, <2>3, <3>2
    <3>3. CASE i # 1
      <4>1. j # 1 /\ i - 1 <= j - 1
        BY <1>2, <3>3
      <4> QED  BY <1>1, <2>1, <2>3, <3>3, <4>1 DEF NewestFirst
    <3> QED  BY <3>1, <3>2, <3>3
  <2>5. InThePast'
    <3>1. \A i \in DOMAIN list' : list'[i] <= now'
      BY <1>1, <1>2, <2>1, <2>3 DEF InThePast
    <3> QED  BY <1>7, <3>1 DEF InThePast
  <2>6. \A u \in Threads : pc'[u] \notin {"push", "trim", "length"}
    BY <1>5, <1>9 DEF Inside
  <2> QED  BY <1>6, <2>4, <2>5, <2>6 DEF PushesTheNewest, TrimsTheStale, CountsTheFresh
<1>10. CASE /\ pc[t] = "trim" /\ pc'[t] # "push" /\ pc'[t] # "trim" /\ Len(list') = 0
  <2>1. DOMAIN list' = {}
    BY <1>2, <1>10
  <2>2. NewestFirst' /\ InThePast' /\ PushesTheNewest'
    BY <1>7, <2>1 DEF NewestFirst, InThePast, PushesTheNewest
  <2>3. TrimsTheStale'
    BY <1>1, <1>4, <1>10, <2>1 DEF TrimsTheStale
  <2>4. CountsTheFresh'
    BY <1>10 DEF CountsTheFresh
  <2> QED  BY <1>6, <2>2, <2>3, <2>4
<1> QED
  <2>1. \/ UNCHANGED list
        \/ pc[t] = "push" /\ pc'[t] = "idle" /\ list' = <<clock[t]>> \o list
        \/ pc[t] = "trim" /\ pc'[t] # "push" /\ pc'[t] # "trim" /\ Len(list') = 0
    BY ListEffect
  <2> QED  BY <1>8, <1>9, <1>10, <2>1

LEMMA OrderStep ==
  ASSUME TypeOK, OrderInv, [Next]_vars
  PROVE  OrderInv'
<1>1. TypeOK'
  BY TypesStep
<1>2. current \in Nat
  BY DEF TypeOK, Leaks
<1>3. ASSUME NEW t \in Threads, ThreadStep(t)
      PROVE  OrderInv'
  <2>1. current' = current
    BY <1>3 DEF ThreadStep, Call, Enter, LRange, LTrim, LLen, Stamp, LPush, StorageFails
  <2> QED  BY <1>1, <1>3, <2>1, OrderStepOfThread DEF OrderInv
<1>4. CASE Reload
  BY <1>2, <1>4 DEF Reload, OrderInv
<1>5. CASE Tick
  <2> SUFFICES ASSUME current = 0  PROVE OrderInv'
    BY <1>5 DEF Tick, OrderInv
  <2>1. InThePast'
    <3>1. /\ now \in Nat /\ now' = now + 1 /\ list' = list /\ clock' = clock
          /\ \A t \in Threads : clock[t] \in Nat
          /\ \A i \in DOMAIN list : list[i] \in Nat
      <4>1. list \in Seq(Times)
        BY DEF TypeOK
      <4>2. \A i \in DOMAIN list : list[i] \in Nat
        BY <4>1, EntriesAreTimes
      <4> QED  BY <1>5, <4>2 DEF Tick, TypeOK, Times
    <3> QED  BY <3>1 DEF OrderInv, InThePast
  <2> QED
    BY <1>5, <2>1 DEF Tick, locals, OrderInv, OneLock, NewestFirst, PushesTheNewest,
                      TrimsTheStale, CountsTheFresh
<1>6. CASE UNCHANGED vars
  BY <1>6 DEF vars, locals, OrderInv, OneLock, NewestFirst, InThePast, PushesTheNewest,
              TrimsTheStale, CountsTheFresh
<1> QED  BY <1>3, <1>4, <1>5, <1>6 DEF Next

LEMMA OrderAlways == Spec => [](TypeOK /\ OrderInv)
<1>1. Init => TypeOK /\ OrderInv
  BY TypesInit, OrderInit
<1>2. TypeOK /\ OrderInv /\ [Next]_vars => (TypeOK /\ OrderInv)'
  BY TypesStep, OrderStep
<1> QED  BY <1>1, <1>2, PTL DEF Spec

\* A push moves the fresh entries one place on.
LEMMA PushKeepsFresh ==
  ASSUME NEW s \in Seq(Times), NEW x \in Times, NEW c \in Times
  PROVE  Cardinality({i \in DOMAIN s : Fresh(s[i], c)})
           <= Cardinality({i \in DOMAIN (<<x>> \o s) : Fresh((<<x>> \o s)[i], c)})
<1> DEFINE new == <<x>> \o s
           before == {i \in DOMAIN s : Fresh(s[i], c)}
           after == {i \in DOMAIN new : Fresh(new[i], c)}
           move == [i \in before |-> i + 1]
<1>1. /\ new \in Seq(Times) /\ Len(new) = Len(s) + 1 /\ Len(s) \in Nat
      /\ DOMAIN s = 1..Len(s) /\ DOMAIN new = 1..Len(new)
      /\ \A i \in 1..Len(s) : new[i + 1] = s[i]
  BY PushedSeq, LenProperties
<1>2. IsFiniteSet(after)
  <2>1. IsFiniteSet(1..Len(new)) /\ after \subseteq 1..Len(new)
    BY <1>1, FS_Interval
  <2> QED  BY <2>1, FS_Subset
<1>3. move \in Injection(before, after)
  <2>1. \A i \in before : i \in Nat /\ i + 1 \in after
    BY <1>1
  <2>2. move \in [before -> after]
    BY <2>1
  <2>3. \A i, j \in before : move[i] = move[j] => i = j
    BY <2>1
  <2> QED  BY <2>2, <2>3 DEF Injection, IsInjective
<1> QED  BY <1>2, <1>3, FS_Injection

\* No step takes an entry of the current window from the bucket, for any limit, window
\* and number of threads, until a reload brings a second Leak.
THEOREM FreshEntriesAlwaysStand == Spec => FreshEntriesStand
<1>1. TypeOK /\ OrderInv /\ [Next]_vars
        => (current = 0 /\ now' = now
              => Cardinality(FreshEntries(now)) <= Cardinality(FreshEntries(now)'))
  <2> SUFFICES ASSUME TypeOK, OrderInv, [Next]_vars, current = 0, now' = now
               PROVE  Cardinality(FreshEntries(now)) <= Cardinality(FreshEntries(now)')
    OBVIOUS
  <2>1. /\ list \in Seq(Times) /\ now \in Times /\ Len(list) \in Nat
        /\ DOMAIN list = 1..Len(list) /\ \A i \in DOMAIN list : list[i] \in Nat
        /\ \A t \in Threads : clock[t] \in Times
        /\ Window \in Nat
    BY LenProperties, ElementOfSeq, BucketAssumption DEF TypeOK, Times
  <2>2. Cardinality(FreshEntries(now)) \in Nat
    <3>1. IsFiniteSet(1..Len(list)) /\ FreshEntries(now) \subseteq 1..Len(list)
      BY <2>1, FS_Interval DEF FreshEntries
    <3> QED  BY <3>1, FS_Subset, FS_CardinalityType
  <2>3. CASE UNCHANGED list
    BY <2>2, <2>3 DEF FreshEntries
  <2>4. ASSUME NEW t \in Threads, ThreadStep(t), ~ UNCHANGED list
        PROVE  Cardinality(FreshEntries(now)) <= Cardinality(FreshEntries(now)')
    <3>1. CASE list' = <<clock[t]>> \o list
      BY <2>1, <3>1, PushKeepsFresh DEF FreshEntries
    <3>2. CASE pc[t] = "trim" /\ Len(list') = 0
      <4>1. FreshEntries(now) = {}
        <5>1. ASSUME NEW i \in DOMAIN list, Fresh(list[i], now)  PROVE FALSE
          <6>1. ~ Fresh(list[i], clock[t]) /\ clock[t] <= now
            BY <3>2, <5>1 DEF OrderInv, TrimsTheStale, InThePast
          <6> QED  BY <2>1, <5>1, <6>1 DEF Fresh, Times
        <5> QED  BY <5>1 DEF FreshEntries
      <4>2. FreshEntries(now)' = {}
        <5>1. list' \in Seq(Times)
          BY TypesStep DEF TypeOK
        <5>2. DOMAIN list' = {}
          BY <3>2, <5>1, LenProperties
        <5> QED  BY <5>2 DEF FreshEntries
      <4> QED  BY <4>1, <4>2, FS_EmptySet
    <3> QED  BY <2>4, <3>1, <3>2, ListEffect
  <2>5. (\E t \in Threads : ThreadStep(t)) \/ UNCHANGED list
    BY DEF Next, Reload, Tick, vars
  <2> QED  BY <2>3, <2>4, <2>5
<1> QED  BY <1>1, OrderAlways, PTL DEF Spec, FreshEntriesStand

\* Nobody is refused for entries that are all past the window.
THEOREM DenialsAlwaysEnd == Spec => DenialsEnd
<1>1. TypeOK /\ OrderInv
        => \A t \in Threads : current = 0 /\ Denied(t) => Fresh(list[1], clock[t])
  <2> SUFFICES ASSUME TypeOK, OrderInv, NEW t \in Threads, current = 0, Denied(t)
               PROVE  Fresh(list[1], clock[t])
    OBVIOUS
  <2>1. Len(list) = 0 \/ Fresh(list[1], clock[t])
    BY DEF OrderInv, CountsTheFresh, Denied
  <2>2. Len(list) # 0
    BY BucketAssumption DEF Denied
  <2> QED  BY <2>1, <2>2
<1> QED  BY <1>1, OrderAlways, PTL DEF Spec, DenialsEnd

-------------------------------------------------------------------------------
(* What one window sees.                                                   *)

\* The history of a window that is not over is in the bucket, entry by entry.
Remembered(s) == pushed[s] = Cardinality({i \in DOMAIN list : list[i] = s})
HistoryInv == current = 0 => \A s \in Times : Fresh(s, now) => Remembered(s)

\* A push adds one entry of its time, and none of another.
LEMMA PushCounts ==
  ASSUME NEW s \in Seq(Times), NEW x \in Times, NEW z \in Times
  PROVE  /\ Cardinality({i \in DOMAIN s : s[i] = z}) \in Nat
         /\ Cardinality({i \in DOMAIN (<<x>> \o s) : (<<x>> \o s)[i] = z}) =
              Cardinality({i \in DOMAIN s : s[i] = z}) + (IF x = z THEN 1 ELSE 0)
<1> DEFINE new == <<x>> \o s
           before == {i \in DOMAIN s : s[i] = z}
           after == {i \in DOMAIN new : new[i] = z}
           moved == {j \in 2..Len(new) : new[j] = z}
           move == [i \in before |-> i + 1]
<1>1. /\ new \in Seq(Times) /\ Len(new) = Len(s) + 1 /\ Len(s) \in Nat
      /\ DOMAIN s = 1..Len(s) /\ DOMAIN new = 1..Len(new)
      /\ new[1] = x
      /\ \A i \in 1..Len(s) : new[i + 1] = s[i]
      /\ \A j \in 2..Len(new) : new[j] = s[j - 1]
  BY PushedSeq, LenProperties
<1> HIDE DEF new
<1>2. IsFiniteSet(before) /\ IsFiniteSet(moved)
  <2>0. 1 \in Int /\ 2 \in Int /\ Len(s) \in Int /\ Len(new) \in Int
    BY <1>1
  <2>1. /\ IsFiniteSet(1..Len(s)) /\ IsFiniteSet(2..Len(new))
        /\ before \subseteq 1..Len(s) /\ moved \subseteq 2..Len(new)
    <3>1. IsFiniteSet(1..Len(s)) /\ IsFiniteSet(2..Len(new))
      BY <2>0, FS_Interval
    <3> QED  BY <1>1, <3>1
  <2> QED  BY <2>1, FS_Subset
<1>3. Cardinality(moved) = Cardinality(before)
  <2>1. move \in [before -> moved]
    BY <1>1
  <2>2. \A i, j \in before : move[i] = move[j] => i = j
    BY <1>1
  <2>3. \A j \in moved : j - 1 \in before /\ move[j - 1] = j
    BY <1>1
  <2>4. move \in Bijection(before, moved)
    BY <2>1, <2>2, <2>3 DEF Bijection, Injection, Surjection, IsInjective
  <2>5. ExistsBijection(before, moved)
    BY <2>4 DEF ExistsBijection
  <2> QED  BY <1>2, <2>5, FS_Bijection
<1>4. after = IF x = z THEN moved \cup {1} ELSE moved
  BY <1>1
<1>5. 1 \notin moved
  OBVIOUS
<1> HIDE DEF before, moved, after
<1>6. Cardinality(moved \cup {1}) = Cardinality(moved) + 1
  BY <1>2, <1>5, FS_AddElement
<1>7. Cardinality(before) \in Nat
  BY <1>2, FS_CardinalityType
<1>8. Cardinality(after) = Cardinality(before) + (IF x = z THEN 1 ELSE 0)
  BY <1>3, <1>4, <1>6, <1>7
<1> QED  BY <1>7, <1>8 DEF before, after, new

LEMMA HistoryInit == Init => HistoryInv
<1> SUFFICES ASSUME Init, NEW s \in Times  PROVE Remembered(s)
  BY DEF HistoryInv
<1>1. {i \in DOMAIN list : list[i] = s} = {} /\ pushed[s] = 0
  BY DEF Init
<1> QED  BY <1>1, FS_EmptySet DEF Remembered

LEMMA HistoryStep ==
  ASSUME TypeOK, OrderInv, HistoryInv, [Next]_vars
  PROVE  HistoryInv'
<1> SUFFICES ASSUME current' = 0, NEW s \in Times, Fresh(s, now)'
             PROVE  Remembered(s)'
  BY DEF HistoryInv
<1>0. current \in Nat /\ now \in Nat /\ s \in Nat /\ Window \in Nat
  BY BucketAssumption DEF TypeOK, Leaks, Times
<1>1. ASSUME UNCHANGED <<list, pushed>>, current = 0, Fresh(s, now)
      PROVE  Remembered(s)'
  BY <1>1 DEF HistoryInv, Remembered
<1>2. ASSUME NEW t \in Threads, ThreadStep(t)
      PROVE  Remembered(s)'
  <2>1. UNCHANGED <<now, current>>
    BY <1>2 DEF ThreadStep, Call, Enter, LRange, LTrim, LLen, Stamp, LPush, StorageFails
  <2>2. current = 0 /\ Fresh(s, now) /\ Remembered(s)
    BY <2>1 DEF Fresh, HistoryInv
  <2>3. /\ list \in Seq(Times) /\ clock[t] \in Times /\ pushed \in [Times -> Nat]
        /\ list' \in Seq(Times) /\ keep[t] \in Nat
    BY TypesStep DEF TypeOK
  <2>4. CASE pc[t] = "push" /\ Pushed(t)
    <3>1. pushed'[s] = pushed[s] + (IF clock[t] = s THEN 1 ELSE 0)
      BY <2>3, <2>4 DEF Pushed
    <3>2. list' = <<clock[t]>> \o list
      BY <2>4 DEF Pushed
    <3>3. Cardinality({i \in DOMAIN list' : list'[i] = s}) =
            Cardinality({i \in DOMAIN list : list[i] = s}) + (IF clock[t] = s THEN 1 ELSE 0)
      <4> DEFINE x == clock[t]
      <4>1. Cardinality({i \in DOMAIN (<<x>> \o list) : (<<x>> \o list)[i] = s}) =
              Cardinality({i \in DOMAIN list : list[i] = s}) + (IF x = s THEN 1 ELSE 0)
        <5> HIDE DEF x
        <5>1. x \in Times
          BY <2>3 DEF x
        <5> QED  BY <2>3, <5>1, PushCounts
      <4> QED  BY <3>2, <4>1
    <3> QED  BY <2>2, <3>1, <3>3 DEF Remembered
  <2>5. CASE pc[t] = "trim" /\ keep[t] < Len(list) /\ list' = SubSeq(list, 1, keep[t])
             /\ UNCHANGED pushed
    <3>1. Len(list') = 0
      BY <2>2, <2>3, <2>5, TrimmedSeq DEF OrderInv, TrimsTheStale
    <3>2. \A i \in DOMAIN list : ~ Fresh(list[i], clock[t])
      BY <2>2, <2>5 DEF OrderInv, TrimsTheStale
    <3>3. clock[t] <= now /\ clock[t] \in Nat
      BY <2>2, <2>3 DEF OrderInv, InThePast, Times
    <3>4. Fresh(s, clock[t])
      BY <1>0, <2>2, <3>3 DEF Fresh
    <3>5. {i \in DOMAIN list : list[i] = s} = {}
      BY <3>2, <3>4
    <3>6. {i \in DOMAIN list' : list'[i] = s} = {}
      <4>1. DOMAIN list' = {}
        BY <2>3, <3>1, LenProperties
      <4> QED  BY <4>1
    <3> QED  BY <2>2, <2>5, <3>5, <3>6 DEF Remembered
  <2>6. \/ UNCHANGED <<list, pushed>>
        \/ pc[t] = "push" /\ Pushed(t)
        \/ /\ pc[t] = "trim" /\ keep[t] < Len(list) /\ list' = SubSeq(list, 1, keep[t])
           /\ UNCHANGED pushed
    BY <1>2 DEF ThreadStep, Call, Enter, LRange, LTrim, LLen, Stamp, LPush, StorageFails
  <2> QED  BY <1>1, <2>2, <2>4, <2>5, <2>6
<1>3. CASE Reload
  BY <1>0, <1>3 DEF Reload
<1>4. CASE Tick
  BY <1>0, <1>1, <1>4 DEF Tick, Fresh
<1>5. CASE UNCHANGED vars
  BY <1>1, <1>5 DEF vars, Fresh
<1> QED  BY <1>2, <1>3, <1>4, <1>5 DEF Next

\* Under one Leak, the entries pushed in any one window, kept or not, are at most the
\* limit and one for every other thread.
THEOREM WindowsAreBounded == Spec => []WindowBound
<1>1. Init => TypeOK /\ OverflowInv /\ OrderInv /\ HistoryInv
  BY TypesInit, OverflowInit, OrderInit, HistoryInit
<1>2. TypeOK /\ OverflowInv /\ OrderInv /\ HistoryInv /\ [Next]_vars
        => (TypeOK /\ OverflowInv /\ OrderInv /\ HistoryInv)'
  BY TypesStep, OverflowStep, OrderStep, HistoryStep
<1>3. TypeOK /\ OverflowInv /\ HistoryInv => WindowBound
  <2> SUFFICES ASSUME TypeOK, OverflowInv, HistoryInv, current = 0
               PROVE  SumFunctionOnSet(pushed, {s \in Times : Fresh(s, now)}) <= Limit + N - 1
    BY DEF WindowBound
  <2> DEFINE window == {s \in Times : Fresh(s, now)}
             counted == {i \in DOMAIN list : list[i] \in window}
  <2>1. Cardinality(Passed) \in Nat /\ N \in Nat /\ Len(list) \in Nat /\ Limit \in Nat
    BY PassedCounted, LenProperties, BucketAssumption DEF Passed, TypeOK
  <2>2. Len(list) <= Limit + N - 1
    BY <2>1 DEF OverflowInv
  <2>3. IsFiniteSet(DOMAIN list) /\ Cardinality(DOMAIN list) = Len(list)
    <3>1. DOMAIN list = 1..Len(list)
      BY LenProperties DEF TypeOK
    <3> DEFINE n == Len(list)
    <3>2. 1 \in Int /\ n \in Int /\ n \in Nat
      BY <2>1
    <3> HIDE DEF n
    <3>3. IsFiniteSet(1..n) /\ Cardinality(1..n) = IF 1 > n THEN 0 ELSE n - 1 + 1
      BY <3>2, FS_Interval
    <3>4. Cardinality(1..n) = n
      BY <3>2, <3>3
    <3> QED  BY <3>1, <3>3, <3>4 DEF n
  <2>4. IsFiniteSet(window)
    <3>1. IsFiniteSet(Times)
      BY BucketAssumption, FS_Interval DEF Times
    <3> QED  BY <3>1, FS_Subset
  <2>5. \A s \in window : pushed[s] = Cardinality({i \in DOMAIN list : list[i] = s})
    BY DEF HistoryInv, Remembered
  <2>6. SumFunctionOnSet(pushed, window) = Cardinality(counted)
    <3> HIDE DEF window
    <3> QED  BY <2>3, <2>4, <2>5, SumCounts
  <2>7. Cardinality(counted) <= Len(list) /\ Cardinality(counted) \in Nat
    BY <2>3, FS_Subset, FS_CardinalityType
  <2> HIDE DEF window, counted
  <2>8. SumFunctionOnSet(pushed, window) <= Limit + N - 1
    BY <2>1, <2>2, <2>6, <2>7
  <2> QED  BY <2>8 DEF window
<1> QED  BY <1>1, <1>2, <1>3, PTL DEF Spec

-------------------------------------------------------------------------------
(* The middleware.  The windows of an address follow one another; what a   *)
(* span of one window saw of them is followed for every span that ends at  *)
(* the wall clock, by the time it begins.                                  *)

LEMMA ClocksAreFinite ==
  /\ IsFiniteSet(Instants) /\ \A x \in Instants : x \in Nat
  /\ Cardinality(Handlers) \in Nat \ {0}
  /\ RequestLimit \in Nat \ {0} /\ RequestWindow \in Nat \ {0} /\ MaxClock \in Nat
<1>1. 0 \in Int /\ MaxClock \in Int /\ MaxClock \in Nat
  BY LimitAssumption
<1>2. IsFiniteSet(Instants) /\ \A x \in Instants : x \in Nat
  BY <1>1, FS_Interval DEF Instants
<1>3. Cardinality(Handlers) \in Nat \ {0}
  BY LimitAssumption, FS_CardinalityType, FS_EmptySet
<1> QED  BY <1>1, <1>2, <1>3, LimitAssumption

LEMMA RateLimitTypesInit == RateLimitInit => RateLimitTypes
<1> SUFFICES ASSUME RateLimitInit  PROVE RateLimitTypes
  OBVIOUS
<1>1. 0 \in Instants
  BY LimitAssumption DEF Instants
<1>2. ip \in [Handlers -> IPs]
  BY DEF RateLimitInit
<1>3. served \in [IPs -> [Instants -> Nat]] /\ early \in [IPs -> Nat]
  BY DEF RateLimitInit
<1> QED  BY <1>1, <1>2, <1>3 DEF RateLimitInit, RateLimitTypes

LEMMA RateLimitTypesStep == RateLimitTypes /\ [RateLimitNext]_rateLimitVars => RateLimitTypes'
<1> SUFFICES ASSUME RateLimitTypes, [RateLimitNext]_rateLimitVars  PROVE RateLimitTypes'
  OBVIOUS
<1> USE DEF RateLimitTypes
<1>0. \A x \in Instants : x \in Nat
  BY ClocksAreFinite
<1>1. ASSUME NEW t \in Handlers, NEW i \in IPs, Arrive(t, i)  PROVE RateLimitTypes'
  BY <1>1 DEF Arrive, cleaning, history
<1>2. ASSUME NEW t \in Handlers, Leave(t)
      PROVE  /\ state' \in [Handlers -> {"idle", "wait"}]
             /\ ip' \in [Handlers -> IPs] /\ stamp' \in [Handlers -> Instants]
  BY <1>2, LimitAssumption DEF Leave, Instants
<1>3. ASSUME NEW t \in Handlers, Serve(t)  PROVE served' \in [IPs -> [Instants -> Nat]]
  BY <1>3 DEF Serve
<1>4. ASSUME NEW t \in Handlers, OpenWindow(t)  PROVE RateLimitTypes'
  <2>1. counters' \in [IPs -> RateLimitCounter \cup {NoCounter}]
    <3>1. [count |-> 1, windowEnd |-> stamp[t] + RequestWindow, lastAccess |-> stamp[t]]
            \in RateLimitCounter
      BY <1>0, LimitAssumption DEF RateLimitCounter
    <3> QED  BY <1>4, <3>1 DEF OpenWindow
  <2> QED  BY <1>2, <1>3, <1>4, <2>1 DEF OpenWindow, cleaning
<1>5. ASSUME NEW t \in Handlers, Refuse(t)  PROVE RateLimitTypes'
  <2>1. counters' \in [IPs -> RateLimitCounter \cup {NoCounter}]
    <3>1. counters[ip[t]] \in RateLimitCounter
      BY <1>5 DEF Refuse, WindowOpen
    <3>2. [counters[ip[t]] EXCEPT !.lastAccess = stamp[t]] \in RateLimitCounter
      BY <3>1 DEF RateLimitCounter
    <3> QED  BY <1>5, <3>2 DEF Refuse
  <2> QED  BY <1>2, <1>5, <2>1 DEF Refuse, cleaning, history
<1>6. ASSUME NEW t \in Handlers, Count(t)  PROVE RateLimitTypes'
  <2>1. counters' \in [IPs -> RateLimitCounter \cup {NoCounter}]
    <3>1. counters[ip[t]] \in RateLimitCounter /\ counters[ip[t]].count < RequestLimit
      BY <1>6 DEF Count, WindowOpen
    <3>2. counters[ip[t]].count + 1 \in 1..RequestLimit
      BY <3>1, LimitAssumption DEF RateLimitCounter
    <3>3. [counters[ip[t]] EXCEPT !.count = @ + 1, !.lastAccess = stamp[t]] \in RateLimitCounter
      BY <3>1, <3>2 DEF RateLimitCounter
    <3>4. counters' = [counters EXCEPT ![ip[t]] =
                         [counters[ip[t]] EXCEPT !.count = @ + 1, !.lastAccess = stamp[t]]]
      BY <1>6 DEF Count
    <3> QED  BY <3>3, <3>4
  <2> QED  BY <1>2, <1>3, <1>6, <2>1 DEF Count, cleaning
<1>7. CASE CleanupTick
  BY <1>7 DEF CleanupTick, requests, history
<1>8. CASE Cleanup
  BY <1>8, LimitAssumption DEF Cleanup, requests, Instants
<1>9. CASE StopCleanup
  BY <1>9 DEF StopCleanup, requests, history
<1>10. CASE CleanerStops
  BY <1>10 DEF CleanerStops, requests, history
<1>11. CASE WallTicks
  BY <1>11, LimitAssumption DEF WallTicks, requests, cleaning, history, Instants
<1>12. CASE UNCHANGED rateLimitVars
  BY <1>12 DEF rateLimitVars, requests, cleaning, history
<1> QED  BY <1>1, <1>4, <1>5, <1>6, <1>7, <1>8, <1>9, <1>10, <1>11, <1>12
        DEF RateLimitNext, Handle

\* Clocks are read before they are used, and nothing was served in the future.
ClocksAreOld ==
  /\ \A t \in Handlers : stamp[t] <= wall
  /\ cleanedAt <= wall
  /\ \A i \in IPs : \A s \in Instants : s > wall => served[i][s] = 0

LEMMA ClocksInit == RateLimitInit => ClocksAreOld
BY DEF RateLimitInit, ClocksAreOld

LEMMA ClocksStep ==
  RateLimitTypes /\ ClocksAreOld /\ [RateLimitNext]_rateLimitVars => ClocksAreOld'
<1> SUFFICES ASSUME RateLimitTypes, ClocksAreOld, [RateLimitNext]_rateLimitVars
             PROVE  ClocksAreOld'
  OBVIOUS
<1> USE DEF ClocksAreOld
<1>0. wall \in Nat /\ \A x \in Instants : x \in Nat
  BY ClocksAreFinite DEF RateLimitTypes
<1>1. ASSUME NEW t \in Handlers, NEW i \in IPs, Arrive(t, i)  PROVE ClocksAreOld'
  BY <1>0, <1>1 DEF Arrive, cleaning, history, RateLimitTypes
<1>2. ASSUME NEW t \in Handlers, Leave(t), UNCHANGED wall
      PROVE  \A u \in Handlers : stamp'[u] <= wall'
  BY <1>0, <1>2 DEF Leave, RateLimitTypes
<1>3. ASSUME NEW t \in Handlers, Serve(t), UNCHANGED wall
      PROVE  \A i \in IPs : \A s \in Instants : s > wall' => served'[i][s] = 0
  BY <1>0, <1>3 DEF Serve, RateLimitTypes
<1>4. ASSUME NEW t \in Handlers, Handle(t)  PROVE ClocksAreOld'
  BY <1>2, <1>3, <1>4 DEF Handle, OpenWindow, Refuse, Count, cleaning, history
<1>5. CASE CleanupTick \/ Cleanup \/ StopCleanup \/ CleanerStops \/ UNCHANGED rateLimitVars
  BY <1>0, <1>5
     DEF CleanupTick, Cleanup, StopCleanup, CleanerStops, rateLimitVars, requests, cleaning, history
<1>6. CASE WallTicks
  <2>1. /\ wall' = wall + 1 /\ cleanedAt \in Nat /\ \A t \in Handlers : stamp[t] \in Nat
        /\ UNCHANGED <<stamp, cleanedAt, served>>
    BY <1>0, <1>6 DEF WallTicks, requests, cleaning, history, RateLimitTypes
  <2>2. \A s \in Instants : s > wall' => s > wall
    BY <1>0, <2>1
  <2> QED  BY <1>0, <2>1, <2>2
<1> QED  BY <1>1, <1>4, <1>5, <1>6 DEF RateLimitNext

-------------------------------------------------------------------------------
\* The moments from which a span of one window reaches the wall clock.
Spans == {x \in Instants : x <= wall /\ wall <= x + RequestWindow}

Since(i, x) == SumFunctionOnSet(served[i], {s \in Instants : s >= x})
Late(x) == {t \in Handlers : state[t] = "wait" /\ stamp[t] < x}
Waiting(x) == Cardinality(Late(x))

LEMMA SinceType ==
  ASSUME RateLimitTypes, NEW i \in IPs, NEW x  PROVE Since(i, x) \in Nat
<1> DEFINE T == {s \in Instants : s >= x}
<1>1. IsFiniteSet(T)
  BY ClocksAreFinite, FS_Subset
<1>2. \A s \in T : served[i][s] \in Nat
  BY DEF RateLimitTypes
<1> QED  BY <1>1, <1>2, SumType DEF Since

LEMMA SinceServed ==
  ASSUME RateLimitTypes, NEW t \in Handlers, Serve(t), NEW i \in IPs, NEW x \in Instants
  PROVE  Since(i, x)' = Since(i, x) + (IF ip[t] = i /\ stamp[t] >= x THEN 1 ELSE 0)
<1> DEFINE T == {s \in Instants : s >= x}
<1>1. IsFiniteSet(T) /\ T \in SUBSET Instants
  BY ClocksAreFinite, FS_Subset
<1>2. Since(i, x) \in Nat
  BY SinceType
<1>3. CASE ip[t] = i
  <2>1. served[i] \in [Instants -> Nat] /\ stamp[t] \in Instants
    BY DEF RateLimitTypes
  <2>2. served'[i] = [served[i] EXCEPT ![stamp[t]] = @ + 1]
    BY <1>3 DEF Serve, RateLimitTypes
  <2>3. SumFunctionOnSet(served'[i], T) =
          SumFunctionOnSet(served[i], T) + (IF stamp[t] \in T THEN 1 ELSE 0)
    <3>1. /\ served'[i] \in [Instants -> Nat]
          /\ served'[i][stamp[t]] = served[i][stamp[t]] + 1
          /\ \A s \in Instants \ {stamp[t]} : served'[i][s] = served[i][s]
      BY <2>1, <2>2
    <3> HIDE DEF T
    <3> QED  BY <1>1, <2>1, <3>1, SumIncrement
  <2>4. stamp[t] \in T <=> stamp[t] >= x
    BY <2>1
  <2> QED  BY <1>3, <2>2, <2>3, <2>4 DEF Since
<1>4. CASE ip[t] # i
  <2>1. served'[i] = served[i]
    BY <1>4 DEF Serve, RateLimitTypes
  <2> QED  BY <1>2, <1>4, <2>1 DEF Since
<1> QED  BY <1>3, <1>4

\* Nothing was served since a moment that is yet to come, or that has just come.
LEMMA SinceNow ==
  ASSUME RateLimitTypes, ClocksAreOld, NEW i \in IPs, NEW x \in Instants, x > wall
  PROVE  Since(i, x) = 0
<1> DEFINE T == {s \in Instants : s >= x}
<1>1. IsFiniteSet(T)
  BY ClocksAreFinite, FS_Subset
<1>2. \A s \in T : served[i][s] = 0
  BY ClocksAreFinite DEF ClocksAreOld, RateLimitTypes
<1> QED  BY <1>1, <1>2, SumZero DEF Since

LEMMA WaitingType ==
  ASSUME NEW x
  PROVE  /\ IsFiniteSet(Late(x)) /\ Waiting(x) \in Nat
         /\ Waiting(x) <= Cardinality(Handlers)
BY LimitAssumption, FS_Subset, FS_CardinalityType DEF Late, Waiting

LEMMA WaitingLeaves ==
  ASSUME RateLimitTypes, NEW t \in Handlers, state[t] = "wait", Leave(t), NEW x
  PROVE  Waiting(x)' = Waiting(x) - (IF stamp[t] < x THEN 1 ELSE 0)
<1>1. Late(x)' = Late(x) \ {t}
  BY DEF Late, Leave, RateLimitTypes
<1>2. CASE stamp[t] < x
  <2>1. t \in Late(x)
    BY <1>2 DEF Late
  <2> QED  BY <1>1, <1>2, <2>1, WaitingType, FS_RemoveElement DEF Waiting
<1>3. CASE ~ (stamp[t] < x)
  <2>1. Late(x)' = Late(x)
    BY <1>1, <1>3 DEF Late
  <2> QED  BY <1>3, <2>1, WaitingType DEF Waiting
<1> QED  BY <1>2, <1>3

\* When the cleaner begins the windows anew, as often as it did so far.
Begun(i) == early[i] * (2 * RequestLimit - 1)

\* What an address was served since x if its windows end before they are removed:
\* nothing before the first window that reaches x, and one window before the next.
Chained(i, x) ==
  IF counters[i] = NoCounter
    THEN \/ Since(i, x) <= Begun(i)
         \/ /\ Since(i, x) <= Begun(i) + (RequestLimit - 1)
            /\ \A t \in Handlers : state[t] = "wait" /\ ip[t] = i => stamp[t] >= x
    ELSE LET end  == counters[i].windowEnd
             rest == RequestLimit - counters[i].count
         IN /\ end < x => Since(i, x) <= Begun(i)
            /\ x <= end /\ end < x + RequestWindow
                 => Since(i, x) + rest <= Begun(i) + (RequestLimit - 1)
            /\ Since(i, x) + rest <= Begun(i) + (2 * RequestLimit - 1)

\* What it may still be served, whatever the cleaner removes.  A counter that was
\* used by a late request, or was opened by one, may go while requests wait that
\* were late as well; each makes at most one more counter go.
Own(counter, x) ==
  IF counter = NoCounter THEN RequestLimit
  ELSE (RequestLimit - counter.count)
       + (IF counter.windowEnd >= x + RequestWindow /\ counter.lastAccess >= x
            THEN 0 ELSE RequestLimit)
Left(i, x) == Waiting(x) * RequestLimit + Own(counters[i], x)

Afforded(i, x) ==
  IF Waiting(x) = Cardinality(Handlers) THEN Since(i, x) = 0
  ELSE Since(i, x) + Left(i, x) < (Cardinality(Handlers) + 1) * RequestLimit

ChainInv == \A i \in IPs : \A x \in Spans : Chained(i, x)
AffordInv == \A i \in IPs : \A x \in Spans : Afforded(i, x)

LEMMA BegunType ==
  ASSUME RateLimitTypes, NEW i \in IPs
  PROVE  Begun(i) \in Nat
<1>1. early[i] \in Nat /\ 2 * RequestLimit - 1 \in Nat
  BY LimitAssumption DEF RateLimitTypes
<1> QED  BY <1>1 DEF Begun

LEMMA BegunAnew ==
  ASSUME RateLimitTypes, NEW i \in IPs, early'[i] = early[i] + 1
  PROVE  Begun(i)' = Begun(i) + (2 * RequestLimit - 1)
<1>1. early[i] \in Nat /\ 2 * RequestLimit - 1 \in Nat
  BY LimitAssumption DEF RateLimitTypes
<1> DEFINE m == 2 * RequestLimit - 1  e == early[i]
<1> HIDE DEF m, e
<1>2. (e + 1) * m = e * m + m
  BY <1>1 DEF m, e
<1> QED  BY <1>2 DEF m, e, Begun

\* The span that begins now has seen nothing.
LEMMA ChainedNow ==
  ASSUME RateLimitTypes, NEW i \in IPs, NEW x, Since(i, x) = 0
  PROVE  Chained(i, x)
<1>1. Begun(i) \in Nat /\ RequestLimit \in Nat \ {0}
  BY BegunType, LimitAssumption
<1>2. CASE counters[i] = NoCounter
  BY <1>1, <1>2 DEF Chained
<1>3. CASE counters[i] # NoCounter
  <2>1. counters[i].count \in 1..RequestLimit
    BY <1>3 DEF RateLimitTypes, RateLimitCounter
  <2> QED  BY <1>1, <1>3, <2>1 DEF Chained
<1> QED  BY <1>2, <1>3

LEMMA ChainedOpen ==
  ASSUME RateLimitTypes, ClocksAreOld, NEW i \in IPs, NEW x \in Spans, Chained(i, x),
         NEW t \in Handlers, OpenWindow(t), ip[t] = i
  PROVE  Chained(i, x)'
<1> DEFINE fresh == IF stamp[t] >= x THEN 1 ELSE 0
<1>1. /\ stamp[t] \in Nat /\ x \in Nat /\ wall \in Nat
      /\ stamp[t] <= wall /\ wall <= x + RequestWindow
      /\ RequestLimit \in Nat \ {0} /\ RequestWindow \in Nat \ {0}
      /\ Begun(i) \in Nat /\ Since(i, x) \in Nat
  BY ClocksAreFinite, BegunType, SinceType DEF RateLimitTypes, ClocksAreOld, Spans
<1>2. Since(i, x)' = Since(i, x) + fresh
  BY SinceServed DEF OpenWindow, Spans
<1>3. Begun(i)' = Begun(i)
  BY DEF Begun, OpenWindow
<1>4. counters'[i] = [count |-> 1, windowEnd |-> stamp[t] + RequestWindow, lastAccess |-> stamp[t]]
  BY DEF OpenWindow, RateLimitTypes
<1>5. counters'[i] # NoCounter
  <2>1. counters'[i] \in RateLimitCounter
    BY <1>1, <1>4 DEF RateLimitTypes, RateLimitCounter
  <2> QED  BY <2>1, LimitAssumption
<1>6. SUFFICES /\ stamp[t] + RequestWindow < x => Since(i, x) + fresh <= Begun(i)
               /\ stamp[t] < x => Since(i, x) + fresh + (RequestLimit - 1)
                                    <= Begun(i) + (RequestLimit - 1)
               /\ Since(i, x) + fresh + (RequestLimit - 1) <= Begun(i) + (2 * RequestLimit - 1)
  BY <1>1, <1>2, <1>3, <1>4, <1>5 DEF Chained
<1>7. CASE counters[i] = NoCounter
  <2>1. \/ Since(i, x) <= Begun(i)
        \/ Since(i, x) <= Begun(i) + (RequestLimit - 1) /\ stamp[t] >= x
    BY <1>7 DEF Chained, OpenWindow
  <2>2. CASE stamp[t] >= x
    BY <1>1, <2>1, <2>2
  <2>3. CASE ~ (stamp[t] >= x)
    BY <1>1, <2>1, <2>3
  <2> QED  BY <2>2, <2>3
<1>8. CASE counters[i] # NoCounter
  <2> DEFINE end == counters[i].windowEnd  rest == RequestLimit - counters[i].count
  <2>1. end \in Nat /\ rest \in Nat /\ end < stamp[t]
    BY <1>1, <1>8 DEF RateLimitTypes, RateLimitCounter, OpenWindow, WindowOpen
  <2>2. /\ end < x => Since(i, x) <= Begun(i)
        /\ x <= end /\ end < x + RequestWindow
             => Since(i, x) + rest <= Begun(i) + (RequestLimit - 1)
    BY <1>8 DEF Chained
  <2> HIDE DEF end, rest
  <2> QED  BY <1>1, <2>1, <2>2
<1> QED  BY <1>7, <1>8

LEMMA ChainedUse ==
  ASSUME RateLimitTypes, ClocksAreOld, NEW i \in IPs, NEW x \in Spans, Chained(i, x),
         NEW t \in Handlers, Refuse(t) \/ Count(t), ip[t] = i
  PROVE  Chained(i, x)'
<1> DEFINE fresh == IF stamp[t] >= x THEN 1 ELSE 0
           end == counters[i].windowEnd
           count == counters[i].count
           one == counters'[i].count - count
<1>1. /\ stamp[t] \in Nat /\ x \in Nat
      /\ RequestLimit \in Nat \ {0} /\ RequestWindow \in Nat \ {0}
      /\ Begun(i) \in Nat /\ Since(i, x) \in Nat
  BY ClocksAreFinite, BegunType, SinceType DEF RateLimitTypes, Spans
<1>2. /\ counters[i] \in RateLimitCounter /\ counters[i] # NoCounter
      /\ end \in Nat /\ count \in 1..RequestLimit /\ stamp[t] <= end
  BY <1>1 DEF RateLimitTypes, RateLimitCounter, Refuse, Count, WindowOpen
<1>3. Begun(i)' = Begun(i)
  BY DEF Begun, Refuse, Count, history
<1>4. counters'[i].windowEnd = end /\ counters'[i] # NoCounter
  <2>1. [counters[i] EXCEPT !.lastAccess = stamp[t]] \in RateLimitCounter
    BY <1>2 DEF RateLimitTypes, RateLimitCounter
  <2>2. counters[i].count < RequestLimit =>
          [counters[i] EXCEPT !.count = @ + 1, !.lastAccess = stamp[t]] \in RateLimitCounter
    <3>1. counters[i].count < RequestLimit => counters[i].count + 1 \in 1..RequestLimit
      BY <1>1, <1>2
    <3> QED  BY <1>2, <3>1 DEF RateLimitTypes, RateLimitCounter
  <2>3. CASE Refuse(t)
    BY <1>2, <2>1, <2>3, LimitAssumption DEF RateLimitTypes, RateLimitCounter, Refuse
  <2>4. CASE Count(t)
    <3>1. counters'[i] = [counters[i] EXCEPT !.count = @ + 1, !.lastAccess = stamp[t]]
      BY <2>4 DEF Count, RateLimitTypes
    <3> QED  BY <1>2, <2>2, <2>4, <3>1, LimitAssumption DEF RateLimitCounter, Count
  <2> QED  BY <2>3, <2>4
<1>5. /\ Since(i, x)' <= Since(i, x) + fresh
      /\ Since(i, x)' + (RequestLimit - counters'[i].count) <= Since(i, x) + (RequestLimit - count)
      /\ Since(i, x)' \in Nat /\ counters'[i].count \in Nat
  <2>1. CASE Refuse(t)
    <3>1. counters'[i].count = count
      BY <1>2, <2>1 DEF RateLimitTypes, RateLimitCounter, Refuse
    <3>2. Since(i, x)' = Since(i, x)
      BY <2>1 DEF Since, Refuse, history
    <3> QED  BY <1>1, <1>2, <3>1, <3>2
  <2>2. CASE Count(t)
    <3>1. counters'[i].count = count + 1
      BY <1>2, <2>2 DEF RateLimitTypes, RateLimitCounter, Count
    <3>2. Since(i, x)' = Since(i, x) + fresh
      BY <2>2, SinceServed DEF Count, Spans
    <3> QED  BY <1>1, <1>2, <3>1, <3>2
  <2> QED  BY <2>1, <2>2
<1>6. /\ end < x => Since(i, x) <= Begun(i)
      /\ x <= end /\ end < x + RequestWindow
           => Since(i, x) + (RequestLimit - count) <= Begun(i) + (RequestLimit - 1)
      /\ Since(i, x) + (RequestLimit - count) <= Begun(i) + (2 * RequestLimit - 1)
  BY <1>2 DEF Chained
<1> HIDE DEF end, count
<1>7. /\ end < x => Since(i, x)' <= Begun(i)
      /\ x <= end /\ end < x + RequestWindow
           => Since(i, x)' + (RequestLimit - counters'[i].count) <= Begun(i) + (RequestLimit - 1)
      /\ Since(i, x)' + (RequestLimit - counters'[i].count) <= Begun(i) + (2 * RequestLimit - 1)
  BY <1>1, <1>2, <1>5, <1>6
<1> QED  BY <1>3, <1>4, <1>7 DEF Chained

\* What does not concern the address.
LEMMA ChainedElse ==
  ASSUME RateLimitTypes, NEW i \in IPs, NEW x \in Spans, Chained(i, x),
         Since(i, x)' = Since(i, x), counters'[i] = counters[i], early'[i] = early[i],
         \A t \in Handlers : state'[t] = "wait" /\ ip'[t] = i
            => \/ state[t] = "wait" /\ ip[t] = i /\ stamp'[t] = stamp[t]
               \/ stamp'[t] >= x
  PROVE  Chained(i, x)'
<1>1. Begun(i)' = Begun(i)
  BY DEF Begun
<1> QED  BY <1>1 DEF Chained

LEMMA ChainedCleanup ==
  ASSUME RateLimitTypes, ClocksAreOld, NEW i \in IPs, NEW x \in Spans, Chained(i, x), Cleanup
  PROVE  Chained(i, x)'
<1>1. /\ x \in Nat /\ wall \in Nat /\ wall <= x + RequestWindow
      /\ RequestLimit \in Nat \ {0} /\ RequestWindow \in Nat \ {0}
      /\ Begun(i) \in Nat /\ Since(i, x) \in Nat
      /\ \A t \in Handlers : stamp[t] \in Nat
  BY ClocksAreFinite, BegunType, SinceType DEF RateLimitTypes, ClocksAreOld, Spans
<1>2. Since(i, x)' = Since(i, x) /\ UNCHANGED <<state, ip, stamp>>
  BY DEF Cleanup, Since, requests
<1>3. CASE ~ IdleCounter(i)
  <2>1. counters'[i] = counters[i] /\ early'[i] = early[i]
    BY <1>3 DEF Cleanup
  <2> QED  BY <1>2, <2>1, ChainedElse
<1>4. CASE IdleCounter(i)
  <2> DEFINE end == counters[i].windowEnd
             rest == RequestLimit - counters[i].count
  <2>1. counters'[i] = NoCounter /\ end \in Nat /\ rest \in Nat
    BY <1>1, <1>4 DEF Cleanup, IdleCounter, RateLimitTypes, RateLimitCounter
  <2>2. /\ end < x => Since(i, x) <= Begun(i)
        /\ x <= end /\ end < x + RequestWindow
             => Since(i, x) + rest <= Begun(i) + (RequestLimit - 1)
        /\ Since(i, x) + rest <= Begun(i) + (2 * RequestLimit - 1)
    BY <1>4 DEF Chained, IdleCounter
  <2>3. CASE WindowConcerns(i)
    <3>1. early'[i] = early[i] + 1
      BY <1>4, <2>3 DEF Cleanup
    <3>2. Begun(i)' = Begun(i) + (2 * RequestLimit - 1)
      BY <3>1, BegunAnew
    <3>3. Since(i, x) <= Begun(i) + (2 * RequestLimit - 1)
      <4> HIDE DEF rest
      <4> QED  BY <1>1, <2>1, <2>2
    <3> QED  BY <1>2, <2>1, <3>2, <3>3 DEF Chained
  <2>4. CASE ~ WindowConcerns(i)
    <3>1. Begun(i)' = Begun(i)
      BY <2>4 DEF Cleanup, Begun
    <3>2. end < wall /\ \A t \in Handlers : state[t] = "wait" /\ ip[t] = i => end < stamp[t]
      BY <1>1, <2>1, <2>4 DEF WindowConcerns
    <3> HIDE DEF end, rest
    <3>3. \/ Since(i, x) <= Begun(i)
          \/ Since(i, x) <= Begun(i) + (RequestLimit - 1) /\ x <= end
      BY <1>1, <2>1, <2>2, <3>2
    <3>4. x <= end => \A t \in Handlers : state[t] = "wait" /\ ip[t] = i => stamp[t] >= x
      BY <1>1, <2>1, <3>2
    <3> QED  BY <1>2, <2>1, <3>1, <3>3, <3>4 DEF Chained
  <2> QED  BY <2>3, <2>4
<1> QED  BY <1>3, <1>4

\* A request of another address.
LEMMA SinceElse ==
  ASSUME RateLimitTypes, NEW i \in IPs, NEW x \in Instants,
         NEW t \in Handlers, Handle(t), ip[t] # i
  PROVE  Since(i, x)' = Since(i, x) /\ counters'[i] = counters[i] /\ early'[i] = early[i]
<1>1. counters'[i] = counters[i] /\ early'[i] = early[i]
  BY DEF Handle, OpenWindow, Refuse, Count, history, RateLimitTypes
<1>2. CASE UNCHANGED served
  BY <1>1, <1>2 DEF Since
<1>3. CASE Serve(t)
  BY <1>1, <1>3, SinceServed, SinceType
<1> QED  BY <1>2, <1>3 DEF Handle, OpenWindow, Refuse, Count, history

LEMMA ChainInit == RateLimitInit => ChainInv
<1> SUFFICES ASSUME RateLimitInit, NEW i \in IPs, NEW x \in Spans  PROVE Chained(i, x)
  BY DEF ChainInv
<1>1. RateLimitTypes
  BY RateLimitTypesInit
<1>2. \A s \in {y \in Instants : y >= x} : served[i][s] = 0
  BY DEF RateLimitInit
<1>3. Since(i, x) = 0
  <2>1. IsFiniteSet({y \in Instants : y >= x})
    BY ClocksAreFinite, FS_Subset
  <2> QED  BY <1>2, <2>1, SumZero DEF Since
<1> QED  BY <1>1, <1>3, ChainedNow

LEMMA ChainStep ==
  RateLimitTypes /\ ClocksAreOld /\ ChainInv /\ [RateLimitNext]_rateLimitVars => ChainInv'
<1> SUFFICES ASSUME RateLimitTypes, ClocksAreOld, ChainInv, [RateLimitNext]_rateLimitVars,
                    NEW i \in IPs, NEW x \in Spans'
             PROVE  Chained(i, x)'
  BY DEF ChainInv
<1>0. wall \in Nat /\ x \in Nat /\ x \in Instants
  BY ClocksAreFinite DEF RateLimitTypes, Spans
<1>1. CASE WallTicks
  <2>1. Chained(i, x)' <=> Chained(i, x)
    BY <1>1 DEF WallTicks, requests, cleaning, history, Chained, Since, Begun
  <2>2. CASE x <= wall
    <3>1. x \in Spans
      BY <1>0, <1>1, <2>2, ClocksAreFinite DEF Spans, WallTicks
    <3> QED  BY <2>1, <3>1 DEF ChainInv
  <2>3. CASE x > wall
    <3>1. Since(i, x) = 0
      BY <1>0, <2>3, SinceNow
    <3> QED  BY <2>1, <3>1, ChainedNow
  <2> QED  BY <1>0, <2>2, <2>3
<1>2. CASE UNCHANGED wall
  <2>1. x \in Spans /\ Chained(i, x)
    BY <1>2 DEF Spans, ChainInv
  <2>2. ASSUME NEW t \in Handlers, Handle(t), ip[t] = i  PROVE Chained(i, x)'
    BY <2>1, <2>2, ChainedOpen, ChainedUse DEF Handle
  <2>3. ASSUME NEW t \in Handlers, Handle(t), ip[t] # i  PROVE Chained(i, x)'
    <3>1. counters'[i] = counters[i] /\ early'[i] = early[i] /\ Since(i, x)' = Since(i, x)
      BY <1>0, <2>3, SinceElse
    <3>2. \A u \in Handlers : state'[u] = "wait" /\ ip'[u] = i
             => state[u] = "wait" /\ ip[u] = i /\ stamp'[u] = stamp[u]
      BY <2>3 DEF Handle, OpenWindow, Refuse, Count, Leave, RateLimitTypes
    <3> QED  BY <2>1, <3>1, <3>2, ChainedElse
  <2>4. ASSUME NEW t \in Handlers, NEW j \in IPs, Arrive(t, j)  PROVE Chained(i, x)'
    <3>1. counters'[i] = counters[i] /\ early'[i] = early[i] /\ Since(i, x)' = Since(i, x)
      BY <2>4 DEF Arrive, history, Since
    <3>2. \A u \in Handlers : state'[u] = "wait" /\ ip'[u] = i
             => \/ state[u] = "wait" /\ ip[u] = i /\ stamp'[u] = stamp[u]
                \/ stamp'[u] >= x
      BY <1>0, <2>1, <2>4 DEF Arrive, RateLimitTypes, Spans
    <3> QED  BY <2>1, <3>1, <3>2, ChainedElse
  <2>5. CASE Cleanup
    BY <2>1, <2>5, ChainedCleanup
  <2>6. CASE CleanupTick \/ StopCleanup \/ CleanerStops \/ UNCHANGED rateLimitVars
    <3>1. UNCHANGED <<counters, state, ip, stamp, served, early>>
      BY <2>6 DEF CleanupTick, StopCleanup, CleanerStops, rateLimitVars, requests, history
    <3>2. Since(i, x)' = Since(i, x)
      BY <3>1 DEF Since
    <3> QED  BY <2>1, <3>1, <3>2, ChainedElse
  <2> QED  BY <1>1, <2>2, <2>3, <2>4, <2>5, <2>6, <1>2, <1>0 DEF RateLimitNext, WallTicks
<1>3. UNCHANGED wall \/ WallTicks
  BY DEF RateLimitNext, Handle, OpenWindow, Refuse, Count, Arrive, Cleanup, CleanupTick,
         StopCleanup, CleanerStops, rateLimitVars
<1> QED  BY <1>1, <1>2, <1>3

LEMMA WaitingFresh ==
  ASSUME RateLimitTypes, NEW t \in Handlers, NEW x, t \notin Late(x)
  PROVE  Waiting(x) < Cardinality(Handlers)
<1>1. Late(x) \in SUBSET Handlers /\ Late(x) # Handlers
  BY DEF Late
<1>2. Cardinality(Late(x)) # Cardinality(Handlers)
  BY <1>1, LimitAssumption, FS_Subset
<1> QED  BY <1>2, WaitingType, ClocksAreFinite DEF Waiting

LEMMA Products ==
  ASSUME NEW k \in Nat, NEW n \in Nat
  PROVE  /\ k * n \in Nat /\ (k + 1) * n = k * n + n
         /\ \A j \in Nat : j <= k => j * n <= k * n
<1>1. ASSUME NEW j \in Nat, j <= k  PROVE j * n <= k * n
  <2>1. k * n = j * n + (k - j) * n /\ k - j \in Nat
    BY <1>1
  <2>2. ASSUME NEW a \in Nat  PROVE a * n \in Nat
    OBVIOUS
  <2>3. (k - j) * n \in Nat /\ j * n \in Nat /\ k * n \in Nat
    BY <2>1, <2>2
  <2> QED  BY <2>1, <2>3
<1> QED  BY <1>1

LEMMA OwnType ==
  ASSUME NEW counter \in RateLimitCounter \cup {NoCounter}, NEW x
  PROVE  Own(counter, x) \in Nat /\ Own(counter, x) < 2 * RequestLimit
<1>1. CASE counter = NoCounter
  BY <1>1, LimitAssumption DEF Own
<1>2. CASE counter # NoCounter
  <2>1. counter.count \in 1..RequestLimit
    BY <1>2 DEF RateLimitCounter
  <2> QED  BY <1>2, <2>1, LimitAssumption DEF Own
<1> QED  BY <1>1, <1>2

\* An address that was served nothing can afford all it may be served.
LEMMA AffordedNow ==
  ASSUME NEW counter \in RateLimitCounter \cup {NoCounter}, NEW x,
         NEW w \in Nat, w < Cardinality(Handlers)
  PROVE  w * RequestLimit + Own(counter, x) < (Cardinality(Handlers) + 1) * RequestLimit
<1> DEFINE h == Cardinality(Handlers)
<1>1. h \in Nat /\ RequestLimit \in Nat /\ w + 1 <= h /\ w + 1 \in Nat
  BY ClocksAreFinite
<1> HIDE DEF h
<1>2. (h + 1) * RequestLimit = h * RequestLimit + RequestLimit
  BY <1>1, Products
<1>3. w * RequestLimit + RequestLimit <= h * RequestLimit
  BY <1>1, Products
<1>4. w * RequestLimit \in Nat /\ h * RequestLimit \in Nat
  BY <1>1, Products
<1>5. Own(counter, x) \in Nat /\ Own(counter, x) < 2 * RequestLimit
  BY OwnType
<1> QED  BY <1>1, <1>2, <1>3, <1>4, <1>5 DEF h

\* What does not concern the address; other requests may leave.
LEMMA AffordedElse ==
  ASSUME RateLimitTypes, NEW i \in IPs, NEW x, Afforded(i, x),
         Since(i, x)' = Since(i, x), counters'[i] = counters[i],
         Waiting(x)' \in Nat, Waiting(x)' <= Waiting(x)
  PROVE  Afforded(i, x)'
<1> DEFINE h == Cardinality(Handlers)  w == Waiting(x)  u == Waiting(x)'
           own == Own(counters[i], x)
<1>1. /\ w \in Nat /\ w <= h /\ h \in Nat /\ RequestLimit \in Nat
      /\ Since(i, x) \in Nat /\ own \in Nat
      /\ counters[i] \in RateLimitCounter \cup {NoCounter}
  BY WaitingType, ClocksAreFinite, SinceType, OwnType DEF RateLimitTypes
<1>2. Left(i, x)' = u * RequestLimit + own
  BY DEF Left, Own
<1>3. Since(i, x) = 0 => Afforded(i, x)'
  BY <1>1, <1>2, AffordedNow DEF Afforded
<1>4. CASE w < h
  <2>1. u * RequestLimit <= w * RequestLimit /\ u * RequestLimit \in Nat /\ w * RequestLimit \in Nat
    BY <1>1, Products
  <2>2. Since(i, x) + (w * RequestLimit + own) < (h + 1) * RequestLimit
    BY <1>1, <1>4 DEF Afforded, Left
  <2>3. (h + 1) * RequestLimit \in Nat
    BY <1>1, Products
  <2>4. u < h
    BY <1>1, <1>4
  <2> DEFINE a == u * RequestLimit  b == w * RequestLimit  c == (h + 1) * RequestLimit
  <2>5. Since(i, x) + (a + own) < c
    <3>1. a <= b /\ a \in Nat /\ b \in Nat /\ c \in Nat /\ Since(i, x) + (b + own) < c
      BY <2>1, <2>2, <2>3
    <3> HIDE DEF a, b, c, own
    <3> QED  BY <1>1, <3>1
  <2> QED  BY <1>2, <2>4, <2>5 DEF Afforded
<1>5. CASE w = h
  BY <1>3, <1>5 DEF Afforded
<1> QED  BY <1>1, <1>4, <1>5

LEMMA AffordedCleanup ==
  ASSUME RateLimitTypes, ClocksAreOld, NEW i \in IPs, NEW x \in Spans, Afforded(i, x), Cleanup
  PROVE  Afforded(i, x)'
<1>1. Since(i, x)' = Since(i, x) /\ Waiting(x)' = Waiting(x)
  BY DEF Cleanup, Since, Waiting, Late, requests
<1>2. Waiting(x) \in Nat
  BY WaitingType
<1>3. CASE ~ IdleCounter(i)
  <2>1. counters'[i] = counters[i]
    BY <1>3 DEF Cleanup
  <2> QED  BY <1>1, <1>2, <2>1, AffordedElse
<1>4. CASE IdleCounter(i)
  <2>1. counters'[i] = NoCounter /\ counters[i] \in RateLimitCounter /\ counters[i] # NoCounter
    BY <1>4 DEF Cleanup, IdleCounter, RateLimitTypes
  <2>2. counters[i].lastAccess < x
    BY <1>4, <2>1, ClocksAreFinite
       DEF IdleCounter, RateLimitTypes, RateLimitCounter, ClocksAreOld, Spans
  <2>3. Own(counters'[i], x) <= Own(counters[i], x)
    <3>1. /\ counters[i].count \in 1..RequestLimit /\ x \in Nat
          /\ counters[i].lastAccess \in Nat /\ counters[i].windowEnd \in Nat
      BY <2>1, ClocksAreFinite DEF RateLimitCounter, Spans
    <3> QED  BY <2>1, <2>2, <3>1, LimitAssumption DEF Own
  <2>4. CASE Waiting(x) = Cardinality(Handlers)
    BY <1>1, <2>4 DEF Afforded
  <2>5. CASE Waiting(x) # Cardinality(Handlers)
    <3>1. /\ Since(i, x) + (Waiting(x) * RequestLimit + Own(counters[i], x))
               < (Cardinality(Handlers) + 1) * RequestLimit
      BY <2>5 DEF Afforded, Left
    <3> DEFINE p == Waiting(x) * RequestLimit  c == (Cardinality(Handlers) + 1) * RequestLimit
               own == Own(counters[i], x)  mine == Own(counters'[i], x)
    <3>2. /\ p \in Nat /\ c \in Nat /\ own \in Nat /\ mine \in Nat /\ mine <= own
          /\ Since(i, x) \in Nat /\ Since(i, x) + (p + own) < c
      BY <1>2, <2>1, <2>3, <3>1, ClocksAreFinite, Products, OwnType, SinceType
    <3>3. Since(i, x) + (p + mine) < c
      <4> HIDE DEF p, c, own, mine
      <4> QED  BY <3>2
    <3>4. Left(i, x)' = p + mine
      BY <1>1 DEF Left, Own
    <3> QED  BY <1>1, <2>5, <3>3, <3>4 DEF Afforded
  <2> QED  BY <2>4, <2>5
<1> QED  BY <1>3, <1>4

\* A request that is handled takes what it is served from what the address may be
\* served; one that was late takes its own share of it.
LEMMA AffordedHandle ==
  ASSUME RateLimitTypes, ClocksAreOld, NEW i \in IPs, NEW x \in Spans, Afforded(i, x),
         NEW t \in Handlers, Handle(t), ip[t] = i
  PROVE  Afforded(i, x)'
<1> DEFINE h == Cardinality(Handlers)  w == Waiting(x)
           own == Own(counters[i], x)  mine == Own(counters'[i], x)
           late == stamp[t] < x
           shares == IF late THEN RequestLimit ELSE 0
<1>1. /\ stamp[t] \in Nat /\ x \in Nat /\ wall \in Nat /\ x \in Instants
      /\ stamp[t] <= wall /\ wall <= x + RequestWindow
      /\ RequestLimit \in Nat \ {0} /\ RequestWindow \in Nat \ {0}
      /\ Since(i, x) \in Nat /\ w \in Nat /\ w <= h /\ h \in Nat
      /\ counters[i] \in RateLimitCounter \cup {NoCounter}
  BY ClocksAreFinite, SinceType, WaitingType DEF RateLimitTypes, ClocksAreOld, Spans
<1>2. counters'[i] \in RateLimitCounter \cup {NoCounter}
  <2>1. RateLimitTypes'
    BY RateLimitTypesStep DEF RateLimitNext
  <2> QED  BY <2>1 DEF RateLimitTypes
<1>3. own \in Nat /\ mine \in Nat
  BY <1>1, <1>2, OwnType
<1>4. state[t] = "wait" /\ Leave(t)
  BY DEF Handle, OpenWindow, Refuse, Count
<1>5. Waiting(x)' = w - (IF late THEN 1 ELSE 0)
  BY <1>4, WaitingLeaves
<1>6. Left(i, x)' = Waiting(x)' * RequestLimit + mine
  BY DEF Left, Own
<1>7. /\ late => w > 0
      /\ ~ late => w < h
  <2>1. ~ late => t \notin Late(x)
    BY DEF Late
  <2>2. late => t \in Late(x)
    BY <1>4 DEF Late
  <2>3. late => w # 0
    BY <2>2, WaitingType, FS_EmptySet DEF Waiting
  <2> QED  BY <1>1, <2>1, <2>3, WaitingFresh
<1>8. late => Since(i, x)' = Since(i, x)
  <2>1. CASE UNCHANGED served
    BY <2>1 DEF Since
  <2>2. CASE Serve(t)
    BY <1>1, <2>2, SinceServed
  <2> QED  BY <2>1, <2>2 DEF Handle, OpenWindow, Refuse, Count, history
<1>9. Since(i, x)' + mine <= Since(i, x) + own + shares
  <2>1. CASE OpenWindow(t)
    <3>1. mine = (RequestLimit - 1) + shares
      <4>1. /\ counters'[i] = [count |-> 1, windowEnd |-> stamp[t] + RequestWindow,
                               lastAccess |-> stamp[t]]
            /\ counters'[i] # NoCounter
        <5>1. /\ counters'[i] = [count |-> 1, windowEnd |-> stamp[t] + RequestWindow,
                                 lastAccess |-> stamp[t]]
          BY <2>1 DEF OpenWindow, RateLimitTypes
        <5>2. counters'[i] \in RateLimitCounter
          BY <1>1, <5>1 DEF RateLimitTypes, RateLimitCounter
        <5> QED  BY <5>1, <5>2, LimitAssumption
      <4> QED  BY <1>1, <4>1 DEF Own
    <3>2. own >= RequestLimit
      <4>1. CASE counters[i] = NoCounter
        BY <1>1, <4>1 DEF Own
      <4>2. CASE counters[i] # NoCounter
        <5>1. counters[i].windowEnd \in Nat /\ counters[i].count \in 1..RequestLimit
          BY <1>1, <4>2 DEF RateLimitCounter
        <5>2. counters[i].windowEnd < x + RequestWindow
          BY <1>1, <2>1, <4>2, <5>1 DEF OpenWindow, WindowOpen
        <5> QED  BY <1>1, <4>2, <5>1, <5>2 DEF Own
      <4> QED  BY <4>1, <4>2
    <3>3. ~ late => Since(i, x)' = Since(i, x) + 1
      BY <1>1, <2>1, SinceServed DEF OpenWindow
    <3>4. CASE late
      <4>1. Since(i, x)' = Since(i, x) /\ shares = RequestLimit
        BY <1>8, <3>4
      <4> HIDE DEF own, mine, shares
      <4> QED  BY <1>1, <1>3, <3>1, <3>2, <4>1
    <3>5. CASE ~ late
      <4>1. Since(i, x)' = Since(i, x) + 1 /\ shares = 0
        BY <3>3, <3>5
      <4> HIDE DEF own, mine, shares
      <4> QED  BY <1>1, <1>3, <3>1, <3>2, <4>1
    <3> QED  BY <3>4, <3>5
  <2>2. CASE Refuse(t) \/ Count(t)
    <3> DEFINE one == IF Count(t) THEN 1 ELSE 0
    <3>1. /\ counters[i] \in RateLimitCounter /\ counters[i] # NoCounter
          /\ counters[i].count \in 1..RequestLimit /\ counters[i].windowEnd \in Nat
      BY <1>1, <2>2 DEF RateLimitCounter, Refuse, Count, WindowOpen
    <3>2. /\ counters'[i].windowEnd = counters[i].windowEnd
          /\ counters'[i].lastAccess = stamp[t]
      BY <2>2, <3>1 DEF RateLimitTypes, RateLimitCounter, Refuse, Count
    <3>3. counters'[i] # NoCounter
      <4>1. CASE Refuse(t)
        <5>1. counters'[i] = [counters[i] EXCEPT !.lastAccess = stamp[t]]
          BY <4>1 DEF Refuse, RateLimitTypes
        <5>2. counters'[i] \in RateLimitCounter
          BY <3>1, <5>1 DEF RateLimitTypes, RateLimitCounter
        <5> QED  BY <5>2, LimitAssumption
      <4>2. CASE Count(t)
        <5>1. /\ counters'[i] = [counters[i] EXCEPT !.count = @ + 1, !.lastAccess = stamp[t]]
              /\ counters[i].count < RequestLimit
          BY <4>2 DEF Count, RateLimitTypes
        <5>2. counters[i].count + 1 \in 1..RequestLimit
          BY <1>1, <3>1, <5>1
        <5>3. counters'[i] \in RateLimitCounter
          BY <3>1, <5>1, <5>2 DEF RateLimitTypes, RateLimitCounter
        <5> QED  BY <5>3, LimitAssumption
      <4> QED  BY <2>2, <4>1, <4>2
    <3>4. CASE Refuse(t)
      <4>1. counters'[i].count = counters[i].count
        BY <3>1, <3>4 DEF RateLimitTypes, RateLimitCounter, Refuse
      <4>2. Since(i, x)' = Since(i, x)
        BY <3>4 DEF Refuse, history, Since
      <4>3. mine <= own + shares
        BY <1>1, <3>1, <3>2, <3>3, <4>1 DEF Own
      <4> HIDE DEF own, mine, shares
      <4>4. shares \in Nat
        BY <1>1 DEF shares
      <4> QED  BY <1>1, <1>3, <4>2, <4>3, <4>4
    <3>5. CASE Count(t)
      <4>1. counters'[i].count = counters[i].count + 1
        BY <3>1, <3>5 DEF RateLimitTypes, RateLimitCounter, Count
      <4>2. Since(i, x)' = Since(i, x) + (IF late THEN 0 ELSE 1)
        BY <1>1, <3>5, SinceServed DEF Count
      <4>3. mine + 1 <= own + shares
        BY <1>1, <3>1, <3>2, <3>3, <4>1 DEF Own
      <4> HIDE DEF own, mine, shares
      <4>4. shares \in Nat
        BY <1>1 DEF shares
      <4> QED  BY <1>1, <1>3, <4>2, <4>3, <4>4
    <3> QED  BY <2>2, <3>4, <3>5
  <2> QED  BY <2>1, <2>2 DEF Handle
<1>10. CASE late /\ w = h
  <2>1. Since(i, x)' = 0 /\ Waiting(x)' = h - 1 /\ h - 1 \in Nat /\ h - 1 < h
    BY <1>1, <1>5, <1>7, <1>8, <1>10 DEF Afforded
  <2>2. (h - 1) * RequestLimit + mine < (h + 1) * RequestLimit
    <3> HIDE DEF late, own, w
    <3> QED  BY <1>2, <2>1, AffordedNow
  <2>3. (h - 1) * RequestLimit \in Nat
    BY <1>1, <2>1, Products
  <2> QED  BY <1>1, <1>3, <1>6, <2>1, <2>2, <2>3 DEF Afforded
<1>11. CASE w < h
  <2> DEFINE u == Waiting(x)'  a == u * RequestLimit  b == w * RequestLimit
             c == (h + 1) * RequestLimit
  <2>1. u \in Nat /\ u < h /\ shares \in Nat
    BY <1>1, <1>5, <1>7, <1>11
  <2>2. b = a + shares
    <3>1. CASE late
      <4>1. u = w - 1 /\ w - 1 \in Nat
        BY <1>1, <1>5, <1>7, <3>1
      <4>2. ((w - 1) + 1) * RequestLimit = (w - 1) * RequestLimit + RequestLimit
        BY <1>1, <4>1, Products
      <4>3. (w - 1) + 1 = w
        BY <1>1
      <4> QED  BY <3>1, <4>1, <4>2, <4>3
    <3>2. CASE ~ late
      <4>1. u = w /\ w * RequestLimit \in Nat
        BY <1>1, <1>5, <3>2, Products
      <4> QED  BY <3>2, <4>1
    <3> QED  BY <3>1, <3>2
  <2>3. a \in Nat /\ b \in Nat /\ c \in Nat
    BY <1>1, <2>1, Products
  <2>4. Since(i, x) + (b + own) < c
    <3>1. w # h
      BY <1>1, <1>11
    <3> QED  BY <3>1 DEF Afforded, Left
  <2>5. Since(i, x)' \in Nat
    <3>1. CASE UNCHANGED served
      BY <1>1, <3>1 DEF Since
    <3>2. CASE Serve(t)
      BY <1>1, <3>2, SinceServed
    <3> QED  BY <3>1, <3>2 DEF Handle, OpenWindow, Refuse, Count, history
  <2>6. Since(i, x)' + (a + mine) < c
    <3> HIDE DEF a, b, c, own, mine, shares
    <3> QED  BY <1>1, <1>3, <1>9, <2>1, <2>2, <2>3, <2>4, <2>5
  <2>7. u # h
    BY <1>1, <2>1
  <2> QED  BY <1>6, <2>6, <2>7 DEF Afforded
<1> QED  BY <1>1, <1>7, <1>10, <1>11

LEMMA AffordInit == RateLimitInit => AffordInv
<1> SUFFICES ASSUME RateLimitInit, NEW i \in IPs, NEW x \in Spans  PROVE Afforded(i, x)
  BY DEF AffordInv
<1>1. RateLimitTypes
  BY RateLimitTypesInit
<1>2. Since(i, x) = 0
  <2>1. IsFiniteSet({y \in Instants : y >= x})
    BY ClocksAreFinite, FS_Subset
  <2>2. \A s \in {y \in Instants : y >= x} : served[i][s] = 0
    BY DEF RateLimitInit
  <2> QED  BY <2>1, <2>2, SumZero DEF Since
<1>3. Late(x) = {}
  BY DEF RateLimitInit, Late
<1>4. Waiting(x) = 0
  BY <1>3, FS_EmptySet DEF Waiting
<1>5. 0 * RequestLimit + Own(counters[i], x) < (Cardinality(Handlers) + 1) * RequestLimit
  BY <1>1, ClocksAreFinite, AffordedNow DEF RateLimitTypes
<1>6. 0 * RequestLimit \in Nat /\ Own(counters[i], x) \in Nat
  BY <1>1, ClocksAreFinite, OwnType DEF RateLimitTypes
<1>7. Left(i, x) = 0 * RequestLimit + Own(counters[i], x)
  BY <1>4 DEF Left
<1> QED  BY <1>2, <1>5, <1>6, <1>7 DEF Afforded

LEMMA AffordStep ==
  RateLimitTypes /\ ClocksAreOld /\ AffordInv /\ [RateLimitNext]_rateLimitVars => AffordInv'
<1> SUFFICES ASSUME RateLimitTypes, ClocksAreOld, AffordInv, [RateLimitNext]_rateLimitVars,
                    NEW i \in IPs, NEW x \in Spans'
             PROVE  Afforded(i, x)'
  BY DEF AffordInv
<1>0. /\ wall \in Nat /\ x \in Nat /\ x \in Instants
      /\ Waiting(x) \in Nat /\ Waiting(x) <= Cardinality(Handlers)
  BY ClocksAreFinite, WaitingType DEF RateLimitTypes, Spans
<1>1. CASE WallTicks
  <2>1. Afforded(i, x)' <=> Afforded(i, x)
    BY <1>1 DEF WallTicks, requests, cleaning, history, Afforded, Since, Left, Own, Waiting, Late
  <2>2. CASE x <= wall
    <3>1. x \in Spans
      BY <1>0, <1>1, <2>2, ClocksAreFinite DEF Spans, WallTicks
    <3> QED  BY <2>1, <3>1 DEF AffordInv
  <2>3. CASE x > wall
    <3>1. Since(i, x) = 0
      BY <1>0, <2>3, SinceNow
    <3>2. CASE Waiting(x) = Cardinality(Handlers)
      BY <2>1, <3>1, <3>2 DEF Afforded
    <3>3. CASE Waiting(x) # Cardinality(Handlers)
      <4>1. Left(i, x) < (Cardinality(Handlers) + 1) * RequestLimit
        <5>1. Waiting(x) < Cardinality(Handlers)
          BY <1>0, <3>3, ClocksAreFinite
        <5> QED  BY <1>0, <5>1, AffordedNow DEF Left, RateLimitTypes
      <4>2. Left(i, x) \in Nat
        <5>1. Waiting(x) * RequestLimit \in Nat /\ Own(counters[i], x) \in Nat
          BY <1>0, ClocksAreFinite, Products, OwnType DEF RateLimitTypes
        <5> QED  BY <5>1 DEF Left
      <4> QED  BY <2>1, <3>1, <3>3, <4>1, <4>2 DEF Afforded
    <3> QED  BY <3>2, <3>3
  <2> QED  BY <1>0, <2>2, <2>3
<1>2. CASE UNCHANGED wall
  <2>1. x \in Spans /\ Afforded(i, x)
    BY <1>2 DEF Spans, AffordInv
  <2>2. ASSUME NEW t \in Handlers, Handle(t), ip[t] = i  PROVE Afforded(i, x)'
    BY <2>1, <2>2, AffordedHandle
  <2>3. ASSUME NEW t \in Handlers, Handle(t), ip[t] # i  PROVE Afforded(i, x)'
    <3>1. counters'[i] = counters[i] /\ Since(i, x)' = Since(i, x)
      BY <1>0, <2>3, SinceElse
    <3>2. Late(x)' \in SUBSET Late(x)
      BY <2>3 DEF Handle, OpenWindow, Refuse, Count, Leave, Late, RateLimitTypes
    <3>3. Waiting(x)' \in Nat /\ Waiting(x)' <= Waiting(x)
      <4>1. IsFiniteSet(Late(x)')
        BY <3>2, WaitingType, FS_Subset
      <4> QED  BY <3>2, <4>1, WaitingType, FS_Subset, FS_CardinalityType DEF Waiting
    <3> QED  BY <2>1, <3>1, <3>3, AffordedElse
  <2>4. ASSUME NEW t \in Handlers, NEW j \in IPs, Arrive(t, j)  PROVE Afforded(i, x)'
    <3>1. counters'[i] = counters[i] /\ Since(i, x)' = Since(i, x)
      BY <2>4 DEF Arrive, history, Since
    <3>2. Late(x)' = Late(x)
      <4>1. ~ (wall < x)
        BY <1>0, <2>1 DEF Spans
      <4>2. \A u \in Handlers : u # t => state'[u] = state[u] /\ stamp'[u] = stamp[u]
        BY <2>4 DEF Arrive, RateLimitTypes
      <4>3. state[t] = "idle" /\ stamp'[t] = wall
        BY <2>4 DEF Arrive, RateLimitTypes
      <4> QED  BY <4>1, <4>2, <4>3 DEF Late
    <3> QED  BY <1>0, <2>1, <3>1, <3>2, AffordedElse DEF Waiting
  <2>5. CASE Cleanup
    BY <2>1, <2>5, AffordedCleanup
  <2>6. CASE CleanupTick \/ StopCleanup \/ CleanerStops \/ UNCHANGED rateLimitVars
    <3>1. UNCHANGED <<counters, state, stamp, served>>
      BY <2>6 DEF CleanupTick, StopCleanup, CleanerStops, rateLimitVars, requests, history
    <3>2. Since(i, x)' = Since(i, x) /\ Waiting(x)' = Waiting(x)
      BY <3>1 DEF Since, Waiting, Late
    <3> QED  BY <1>0, <2>1, <3>1, <3>2, AffordedElse
  <2> QED  BY <1>0, <1>2, <2>2, <2>3, <2>4, <2>5, <2>6 DEF RateLimitNext, WallTicks
<1>3. UNCHANGED wall \/ WallTicks
  BY DEF RateLimitNext, Handle, OpenWindow, Refuse, Count, Arrive, Cleanup, CleanupTick,
         StopCleanup, CleanerStops, rateLimitVars
<1> QED  BY <1>1, <1>2, <1>3

\* In a span of one window an address is served at most two limits less one, once more
\* for every counter the cleaner removed before its time; and, whatever the cleaner
\* removes, less than a limit for every thread and one more.
THEOREM ServedIsBounded == RateLimitSpec => []ServedBound
<1>1. RateLimitInit => RateLimitTypes /\ ClocksAreOld /\ ChainInv /\ AffordInv
  BY RateLimitTypesInit, ClocksInit, ChainInit, AffordInit
<1>2. RateLimitTypes /\ ClocksAreOld /\ ChainInv /\ AffordInv /\ [RateLimitNext]_rateLimitVars
        => (RateLimitTypes /\ ClocksAreOld /\ ChainInv /\ AffordInv)'
  BY RateLimitTypesStep, ClocksStep, ChainStep, AffordStep
<1>3. RateLimitTypes /\ ChainInv /\ AffordInv => ServedBound
  <2> SUFFICES ASSUME RateLimitTypes, ChainInv, AffordInv, NEW i \in IPs
               PROVE  /\ ServedLately(i) <= (1 + early[i]) * (2 * RequestLimit - 1)
                      /\ ServedLately(i) < (Cardinality(Handlers) + 1) * RequestLimit
    BY DEF ServedBound
  <2> DEFINE x == IF wall >= RequestWindow THEN wall - RequestWindow ELSE 0
  <2>1. /\ wall \in Nat /\ wall <= MaxClock /\ RequestWindow \in Nat /\ MaxClock \in Nat
        /\ RequestLimit \in Nat \ {0} /\ Cardinality(Handlers) \in Nat \ {0}
    BY ClocksAreFinite DEF RateLimitTypes, Instants
  <2>2. x \in Spans
    BY <2>1 DEF Spans, Instants
  <2>3. ServedLately(i) = Since(i, x)
    <3>1. \A s \in Instants : s + RequestWindow >= wall <=> s >= x
      BY <2>1, ClocksAreFinite
    <3>2. {s \in Instants : s + RequestWindow >= wall} = {s \in Instants : s >= x}
      BY <3>1
    <3> QED  BY <3>2 DEF ServedLately, Since
  <2> HIDE DEF x
  <2>4. Since(i, x) \in Nat /\ Begun(i) \in Nat
    BY SinceType, BegunType
  <2>5. Since(i, x) <= Begun(i) + (2 * RequestLimit - 1)
    <3>1. Chained(i, x)
      BY <2>2 DEF ChainInv
    <3>2. CASE counters[i] = NoCounter
      BY <2>1, <2>4, <3>1, <3>2 DEF Chained
    <3>3. CASE counters[i] # NoCounter
      <4>1. counters[i].count \in 1..RequestLimit
        BY <3>3 DEF RateLimitTypes, RateLimitCounter
      <4> QED  BY <2>1, <2>4, <3>1, <3>3, <4>1 DEF Chained
    <3> QED  BY <3>2, <3>3
  <2>6. Begun(i) + (2 * RequestLimit - 1) = (1 + early[i]) * (2 * RequestLimit - 1)
    <3> DEFINE m == 2 * RequestLimit - 1  e == early[i]
    <3>1. m \in Nat /\ e \in Nat
      BY <2>1 DEF RateLimitTypes
    <3> HIDE DEF m, e
    <3>2. (1 + e) * m = e * m + m
      BY <3>1
    <3> QED  BY <3>2 DEF m, e, Begun
  <2>7. Since(i, x) < (Cardinality(Handlers) + 1) * RequestLimit
    <3>1. Afforded(i, x)
      BY <2>2 DEF AffordInv
    <3>2. Waiting(x) \in Nat /\ counters[i] \in RateLimitCounter \cup {NoCounter}
      BY WaitingType DEF RateLimitTypes
    <3>3. Left(i, x) \in Nat
      <4>1. Waiting(x) * RequestLimit \in Nat /\ Own(counters[i], x) \in Nat
        BY <2>1, <3>2, Products, OwnType
      <4> QED  BY <4>1 DEF Left
    <3>4. (Cardinality(Handlers) + 1) * RequestLimit > 0
      BY <2>1
    <3>5. (Cardinality(Handlers) + 1) * RequestLimit \in Nat
      BY <2>1
    <3> QED  BY <2>4, <3>1, <3>3, <3>4, <3>5 DEF Afforded
  <2> QED  BY <2>3, <2>5, <2>6, <2>7
<1> QED  BY <1>1, <1>2, <1>3, PTL DEF RateLimitSpec
===============================================================================
