--------------------------- MODULE RouteChoiceProofs ---------------------------
(***************************************************************************)
(* Theorems about RouteChoice for any nodes, neighbors, tables, replies and  *)
(* limits: one route is selected, it is the preferred one, a confirmed one   *)
(* comes first, and the map shows what the result shows.                     *)
(*                                                                         *)
(* First come lemmas about selections of places and about sorting, then that *)
(* preferences are totally ordered, so that the code's scan and the choice   *)
(* in PreferredOf are one (PreferredIsScanned). Each function of the lookup   *)
(* then has a lemma that says which routes it returns and which it marks,    *)
(* and Source lists where a reader's routes may come from. The invariant,    *)
(* RouteIInv, keeps beside the properties the order of the reads, the source *)
(* of the answer, and that the table is as it was read for the answer for as *)
(* long as it has not changed: without the last a map entry read at the same *)
(* time could come from another table, or from default routes.               *)
(***************************************************************************)
EXTENDS RouteChoice, FiniteSetTheorems, WellFoundedInduction, SequenceTheorems, TLAPS

\* How many places of K there are up to i.
Rank(K, i) == Cardinality({j \in K : j <= i})

\* The places of K are numbered from one, each once.
LEMMA PlacesAreRanked ==
    ASSUME NEW n \in Nat, NEW K \in SUBSET (1 .. n)
    PROVE  /\ IsFiniteSet(K) /\ Cardinality(K) \in Nat
           /\ \A i \in K : Rank(K, i) \in 1 .. Cardinality(K) /\ Place(K, Rank(K, i)) = i
           /\ \A k \in 1 .. Cardinality(K) : Place(K, k) \in K /\ Rank(K, Place(K, k)) = k
<1> K \subseteq Int
  OBVIOUS
<1>1. IsFiniteSet(K) /\ Cardinality(K) \in Nat
  <2>1. IsFiniteSet(1 .. n)
    BY FS_Interval
  <2>2. IsFiniteSet(K)
    BY <2>1, FS_Subset
  <2> QED BY <2>2, FS_CardinalityType
<1> DEFINE Upto(i) == {j \in K : j <= i}
<1>2. \A i \in K : IsFiniteSet(Upto(i)) /\ Cardinality(Upto(i)) \in Nat /\ Cardinality(Upto(i)) <= Cardinality(K)
  BY <1>1, FS_Subset, FS_CardinalityType
<1>3. \A i \in K : Cardinality(Upto(i)) # 0
  BY <1>2, FS_EmptySet
<1>4. \A i \in K : Rank(K, i) \in 1 .. Cardinality(K)
  BY <1>1, <1>2, <1>3 DEF Rank
<1>5. ASSUME NEW i \in K, NEW j \in K, Rank(K, i) = Rank(K, j) PROVE i = j
  <2>1. SUFFICES ASSUME NEW a \in K, NEW b \in K, a < b, Rank(K, a) = Rank(K, b) PROVE FALSE
    BY <1>5
  <2>2. Upto(a) \in SUBSET Upto(b) /\ b \in Upto(b) /\ b \notin Upto(a)
    <3>1. a \in Int /\ b \in Int /\ \A c \in K : c \in Int /\ (c <= a => c <= b)
      BY <2>1
    <3> HIDE <2>1
    <3>2. \A c \in K : c \in Upto(a) => c \in Upto(b)
      BY <3>1
    <3>3. b \in Upto(b) /\ ~(b <= a)
      BY <2>1, <3>1
    <3> QED BY <3>2, <3>3
  <2>3. Upto(b) = Upto(a)
    BY <1>2, <2>1, <2>2, FS_Subset DEF Rank
  <2> QED BY <2>2, <2>3
<1>6. \A i \in K : Place(K, Rank(K, i)) = i
  BY <1>5 DEF Place, Rank
<1> DEFINE f == [i \in K |-> Rank(K, i)]
<1>7. f \in Injection(K, 1 .. Cardinality(K))
  BY <1>4, <1>5 DEF Injection, IsInjective
<1>8. IsFiniteSet(1 .. Cardinality(K)) /\ Cardinality(1 .. Cardinality(K)) = Cardinality(K)
  BY <1>1, FS_Interval
<1>9. f \in Surjection(K, 1 .. Cardinality(K))
  <2> DEFINE T == 1 .. Cardinality(K)
  <2>1. f \in Injection(K, T) /\ IsFiniteSet(T) /\ Cardinality(K) = Cardinality(T)
    BY <1>7, <1>8
  <2> HIDE DEF f, T
  <2>2. f \in Surjection(K, T)
    BY <2>1, FS_Injection
  <2> QED BY <2>2 DEF T
<1>10. ASSUME NEW k \in 1 .. Cardinality(K) PROVE Place(K, k) \in K /\ Rank(K, Place(K, k)) = k
  <2>1. PICK i \in K : f[i] = k
    BY <1>9 DEF Surjection
  <2> QED BY <2>1, <1>6
<1> QED BY <1>1, <1>4, <1>6, <1>10

\* A selection of a sequence's places is a sequence of its elements, each once.
LEMMA PickedElements ==
    ASSUME NEW S, NEW s \in Seq(S), NEW K \in SUBSET DOMAIN s
    PROVE  /\ Pick(s, K) \in Seq(S) /\ Len(Pick(s, K)) = Cardinality(K) /\ Cardinality(K) \in Nat
           /\ \A k \in DOMAIN Pick(s, K) : Place(K, k) \in K /\ Pick(s, K)[k] = s[Place(K, k)]
           /\ \A k, l \in DOMAIN Pick(s, K) : Place(K, k) = Place(K, l) => k = l
           /\ \A i \in K : \E k \in DOMAIN Pick(s, K) : Place(K, k) = i
<1>1. K \in SUBSET (1 .. Len(s)) /\ Len(s) \in Nat
  OBVIOUS
<1>2. /\ IsFiniteSet(K) /\ Cardinality(K) \in Nat
      /\ \A i \in K : Rank(K, i) \in 1 .. Cardinality(K) /\ Place(K, Rank(K, i)) = i
      /\ \A k \in 1 .. Cardinality(K) : Place(K, k) \in K /\ Rank(K, Place(K, k)) = k
  BY <1>1, PlacesAreRanked
<1>3. Pick(s, K) \in Seq(S) /\ DOMAIN Pick(s, K) = 1 .. Cardinality(K) /\ Len(Pick(s, K)) = Cardinality(K)
  BY <1>1, <1>2 DEF Pick
<1> QED BY <1>2, <1>3 DEF Pick

\* The first place is the least.
LEMMA FirstPlace ==
    ASSUME NEW n \in Nat, NEW K \in SUBSET (1 .. n), NEW i \in K, \A j \in K : i <= j
    PROVE  Place(K, 1) = i
<1>1. {j \in K : j <= i} = {i}
  <2>1. \A j \in K : j \in Int /\ (j <= i => j = i)
    OBVIOUS
  <2> QED BY <2>1
<1>2. Rank(K, i) = 1
  BY <1>1, FS_Singleton DEF Rank
<1> QED BY <1>2, PlacesAreRanked

\* Sorting rearranges: every element keeps a place of its own.
LEMMA SortRearranges ==
    ASSUME NEW S, NEW s \in Seq(S)
    PROVE  /\ SortBestFirst(s) \in Seq(S) /\ DOMAIN SortBestFirst(s) = DOMAIN s
           /\ \E f \in [DOMAIN s -> DOMAIN s] :
                 /\ \A k \in DOMAIN s : SortBestFirst(s)[k] = s[f[k]]
                 /\ \A k, l \in DOMAIN s : f[k] = f[l] => k = l
                 /\ \A i \in DOMAIN s : \E k \in DOMAIN s : f[k] = i
<1> DEFINE B == Bests(s)
           C == DOMAIN s \ B
           b == Cardinality(B)
           c == Cardinality(C)
           first == Pick(s, B)
           second == Pick(s, C)
<1>1. B \in SUBSET DOMAIN s /\ C \in SUBSET DOMAIN s
  BY DEF Bests
<1>2. /\ first \in Seq(S) /\ Len(first) = b /\ b \in Nat
      /\ \A k \in DOMAIN first : Place(B, k) \in B /\ first[k] = s[Place(B, k)]
      /\ \A k, l \in DOMAIN first : Place(B, k) = Place(B, l) => k = l
      /\ \A i \in B : \E k \in DOMAIN first : Place(B, k) = i
  <2> HIDE DEF B
  <2> QED BY <1>1, PickedElements
<1>3. /\ second \in Seq(S) /\ Len(second) = c /\ c \in Nat
      /\ \A k \in DOMAIN second : Place(C, k) \in C /\ second[k] = s[Place(C, k)]
      /\ \A k, l \in DOMAIN second : Place(C, k) = Place(C, l) => k = l
      /\ \A i \in C : \E k \in DOMAIN second : Place(C, k) = i
  <2> HIDE DEF C
  <2> QED BY <1>1, PickedElements
<1>4. Len(s) \in Nat /\ DOMAIN s = 1 .. Len(s)
  OBVIOUS
<1>5. b + c = Len(s)
  <2>1. IsFiniteSet(DOMAIN s) /\ Cardinality(DOMAIN s) = Len(s)
    BY <1>4, FS_Interval
  <2>2. IsFiniteSet(B) /\ IsFiniteSet(C)
    BY <1>1, <2>1, FS_Subset
  <2>3. B \cup C = DOMAIN s /\ B \cap C = {}
    BY <1>1
  <2> HIDE DEF B, C
  <2>4. Cardinality(B \cup C) = b + c - Cardinality(B \cap C)
    BY <2>2, FS_Union
  <2>5. Cardinality(B \cap C) = 0
    BY <2>3, FS_EmptySet
  <2>6. Cardinality(B \cup C) = Len(s)
    BY <2>1, <2>3
  <2> QED BY <1>2, <1>3, <2>4, <2>5, <2>6
<1> HIDE DEF B, C, b, c, first, second
<1>6. SortBestFirst(s) = first \o second
  BY DEF SortBestFirst, first, second, B, C
<1>7. /\ SortBestFirst(s) \in Seq(S) /\ Len(SortBestFirst(s)) = b + c
      /\ \A k \in 1 .. b : SortBestFirst(s)[k] = first[k]
      /\ \A k \in b + 1 .. b + c : SortBestFirst(s)[k] = second[k - b]
  <2>1. /\ first \o second \in Seq(S) /\ Len(first \o second) = Len(first) + Len(second)
        /\ \A i \in 1 .. Len(first) + Len(second) :
              (first \o second)[i] = IF i <= Len(first) THEN first[i] ELSE second[i - Len(first)]
    <3>1. first \in Seq(S) /\ second \in Seq(S)
      BY <1>2, <1>3
    <3> QED BY <3>1, ConcatProperties
  <2>2. \A k \in 1 .. b : k \in 1 .. b + c /\ k <= b
    BY <1>2, <1>3
  <2>3. \A k \in b + 1 .. b + c : k \in 1 .. b + c /\ ~(k <= b)
    BY <1>2, <1>3
  <2> QED BY <1>2, <1>3, <1>6, <2>1, <2>2, <2>3
<1> DEFINE f == [k \in DOMAIN s |-> IF k <= b THEN Place(B, k) ELSE Place(C, k - b)]
<1>8. DOMAIN first = 1 .. b /\ DOMAIN second = 1 .. c
  BY <1>2, <1>3
<1>9. \A k \in DOMAIN s : IF k <= b THEN k \in DOMAIN first ELSE k - b \in DOMAIN second
  BY <1>2, <1>3, <1>4, <1>5, <1>8
<1>10. f \in [DOMAIN s -> DOMAIN s]
  BY <1>1, <1>2, <1>3, <1>9
<1>11. ASSUME NEW k \in DOMAIN s PROVE SortBestFirst(s)[k] = s[f[k]]
  <2>1. f[k] = IF k <= b THEN Place(B, k) ELSE Place(C, k - b)
    OBVIOUS
  <2> HIDE DEF f
  <2>2. CASE k <= b
    BY <1>2, <1>3, <1>4, <1>5, <1>7, <1>9, <2>1, <2>2
  <2>3. CASE ~(k <= b)
    BY <1>2, <1>3, <1>4, <1>5, <1>7, <1>9, <2>1, <2>3
  <2> QED BY <2>2, <2>3
<1>12. \A k, l \in DOMAIN s : f[k] = f[l] => k = l
  <2> SUFFICES ASSUME NEW k \in DOMAIN s, NEW l \in DOMAIN s, f[k] = f[l] PROVE k = l
    OBVIOUS
  <2>1. B \cap C = {}
    BY DEF C
  <2>2. CASE k <= b /\ l <= b
    BY <1>2, <1>9, <2>2
  <2>3. CASE ~(k <= b) /\ ~(l <= b)
    <3>1. k - b = l - b
      BY <1>3, <1>9, <2>3
    <3> QED BY <1>2, <1>4, <3>1
  <2>4. CASE (k <= b) # (l <= b)
    BY <1>2, <1>3, <1>9, <2>1, <2>4
  <2> QED BY <2>2, <2>3, <2>4
<1>13. \A i \in DOMAIN s : \E k \in DOMAIN s : f[k] = i
  <2> SUFFICES ASSUME NEW i \in DOMAIN s PROVE \E k \in DOMAIN s : f[k] = i
    OBVIOUS
  <2>1. CASE i \in B
    <3>1. PICK k \in DOMAIN first : Place(B, k) = i
      BY <1>2, <2>1
    <3>2. k \in DOMAIN s /\ k <= b
      BY <1>2, <1>3, <1>4, <1>5, <1>8
    <3> QED BY <3>1, <3>2
  <2>2. CASE i \in C
    <3>1. PICK k \in DOMAIN second : Place(C, k) = i
      BY <1>3, <2>2
    <3>2. k + b \in DOMAIN s /\ ~(k + b <= b) /\ (k + b) - b = k
      BY <1>2, <1>3, <1>4, <1>5, <1>8
    <3> QED BY <3>1, <3>2
  <2> QED BY <2>1, <2>2 DEF C
<1> HIDE DEF f
<1>14. DOMAIN SortBestFirst(s) = DOMAIN s
  BY <1>4, <1>5, <1>7
<1> QED BY <1>7, <1>10, <1>11, <1>12, <1>13, <1>14

\* What comes first: the one marked, or one of them, or the first when none is.
LEMMA SortPutsBestFirst ==
    ASSUME NEW S, NEW s \in Seq(S), s # <<>>
    PROVE  /\ Bests(s) # {} => \E i \in Bests(s) : SortBestFirst(s)[1] = s[i]
           /\ Bests(s) = {} => SortBestFirst(s)[1] = s[1]
           /\ 1 \in Bests(s) => SortBestFirst(s)[1] = s[1]
<1> DEFINE B == Bests(s)
           C == DOMAIN s \ B
<1>1. B \in SUBSET DOMAIN s /\ C \in SUBSET DOMAIN s
  BY DEF Bests
<1>2. Len(s) \in Nat /\ DOMAIN s = 1 .. Len(s) /\ 1 \in DOMAIN s
  OBVIOUS
<1>3. \A K \in SUBSET DOMAIN s :
        /\ Pick(s, K) \in Seq(S) /\ Len(Pick(s, K)) = Cardinality(K) /\ Cardinality(K) \in Nat
        /\ \A k \in DOMAIN Pick(s, K) : Place(K, k) \in K /\ Pick(s, K)[k] = s[Place(K, k)]
        /\ \A i \in K : \E k \in DOMAIN Pick(s, K) : Place(K, k) = i
  BY PickedElements
<1>4. \A K \in SUBSET DOMAIN s : 1 \in K => Place(K, 1) = 1
  <2> SUFFICES ASSUME NEW K \in SUBSET DOMAIN s, 1 \in K PROVE Place(K, 1) = 1
    OBVIOUS
  <2>1. K \in SUBSET (1 .. Len(s)) /\ \A j \in K : 1 <= j
    BY <1>2
  <2> QED BY <1>2, <2>1, FirstPlace
<1>5. \A K \in SUBSET DOMAIN s : K # {} => 1 \in DOMAIN Pick(s, K)
  BY <1>3
<1> HIDE DEF B, C
<1>6. SortBestFirst(s) = Pick(s, B) \o Pick(s, C)
  BY DEF SortBestFirst, B, C
<1>7. CASE B # {}
  <2>1. SortBestFirst(s)[1] = Pick(s, B)[1]
    BY <1>1, <1>3, <1>5, <1>6, <1>7
  <2> QED BY <1>1, <1>3, <1>4, <1>5, <1>7, <2>1 DEF B
<1>8. CASE B = {}
  <2>1. C = DOMAIN s
    BY <1>8 DEF C
  <2>2. Pick(s, B) = <<>>
    BY <1>1, <1>3, <1>8, FS_EmptySet
  <2>3. SortBestFirst(s)[1] = Pick(s, C)[1]
    BY <1>1, <1>3, <1>6, <2>2
  <2>4. 1 \in C /\ Place(C, 1) = 1 /\ 1 \in DOMAIN Pick(s, C)
    BY <1>1, <1>2, <1>4, <1>5, <2>1
  <2>5. SortBestFirst(s)[1] = s[1]
    BY <1>1, <1>3, <2>3, <2>4
  <2> QED BY <1>8, <2>5 DEF B
<1> QED BY <1>7, <1>8

-----------------------------------------------------------------------------
\* A transitive, irreflexive relation has a least element on a finite set: the
\* one with the smallest set of elements before it.
LEMMA LeastElement ==
    ASSUME NEW D, IsFiniteSet(D), D # {}, NEW R,
           \A x \in D : <<x, x>> \notin R,
           \A x, y, z \in D : <<x, y>> \in R /\ <<y, z>> \in R => <<x, z>> \in R
    PROVE  \E x \in D : \A y \in D : <<y, x>> \notin R
<1> DEFINE Below(x) == {y \in D : <<y, x>> \in R}
           T == {Below(x) : x \in D}
<1>1. IsWellFoundedOn(StrictSubsetOrdering(D), SUBSET D)
  BY FS_StrictSubsetOrderingWellFounded, FS_FiniteSubsetsOfFinite
<1>2. T \subseteq SUBSET D /\ T # {}
  <2>1. \A x \in D : Below(x) \in SUBSET D /\ Below(x) \in T
    OBVIOUS
  <2>2. \A b \in T : \E x \in D : b = Below(x)
    OBVIOUS
  <2> HIDE DEF Below, T
  <2> QED BY <2>1, <2>2
<1>3. PICK b \in T : \A c \in T : ~(<<c, b>> \in StrictSubsetOrdering(D))
  <2> HIDE DEF T
  <2> QED BY <1>1, <1>2, WFMin
<1>4. PICK x \in D : b = Below(x)
  BY <1>3
<1>5. ASSUME NEW y \in D, <<y, x>> \in R PROVE FALSE
  <2>1. Below(y) \in T /\ Below(y) \in SUBSET D /\ Below(x) \in SUBSET D
    OBVIOUS
  <2>2. \A z \in Below(y) : z \in Below(x)
    BY <1>5
  <2>3. y \in Below(x) /\ y \notin Below(y)
    BY <1>5
  <2> HIDE DEF Below, T
  <2>4. <<Below(y), Below(x)>> \in StrictSubsetOrdering(D)
    BY <2>1, <2>2, <2>3 DEF StrictSubsetOrdering
  <2> QED BY <1>3, <1>4, <2>1, <2>4
<1> QED BY <1>5

\* What the steps of a decision process compare, in their order.
Preferences(n) == [1 .. n -> Int]

\* Two preferences that differ do so first at one step of the decision process.
LEMMA FirstDifference ==
    ASSUME NEW n \in Nat, NEW a \in Preferences(n), NEW b \in Preferences(n), a # b
    PROVE  \E i \in 1 .. n : a[i] # b[i] /\ \A j \in 1 .. i - 1 : a[j] = b[j]
<1> DEFINE D == {i \in 1 .. n : a[i] # b[i]}
           R == {p \in D \X D : p[1] < p[2]}
<1>1. D # {}
  BY DEF Preferences
<1>2. IsFiniteSet(D)
  <2>1. IsFiniteSet(1 .. n) /\ D \in SUBSET (1 .. n)
    BY FS_Interval
  <2> QED BY <2>1, FS_Subset
<1>3. \A x \in D : x \in Int /\ x \in 1 .. n
  OBVIOUS
<1>4. \A x, y \in D : <<x, y>> \in R <=> x < y
  OBVIOUS
<1> HIDE DEF R
<1>5. \A x \in D : <<x, x>> \notin R
  BY <1>3, <1>4
<1>6. \A x, y, z \in D : <<x, y>> \in R /\ <<y, z>> \in R => <<x, z>> \in R
  BY <1>3, <1>4
<1>7. PICK i \in D : \A j \in D : <<j, i>> \notin R
  <2> HIDE DEF D
  <2> QED BY <1>1, <1>2, <1>5, <1>6, LeastElement
<1>8. \A j \in 1 .. i - 1 : j \in 1 .. n /\ j < i
  BY <1>3
<1>9. \A j \in 1 .. i - 1 : j \notin D
  BY <1>4, <1>7, <1>8
<1> QED BY <1>7, <1>8, <1>9

\* Preferences are compared by a strict total order.
LEMMA PreferenceOrder ==
    ASSUME NEW n \in Nat
    PROVE  /\ \A a \in Preferences(n) : ~MorePreferred(a, a)
           /\ \A a, b \in Preferences(n) : ~MorePreferred(a, b) \/ ~MorePreferred(b, a)
           /\ \A a, b \in Preferences(n) : a = b \/ MorePreferred(a, b) \/ MorePreferred(b, a)
           /\ \A a, b, c \in Preferences(n) :
                 MorePreferred(a, b) /\ MorePreferred(b, c) => MorePreferred(a, c)
<1>1. \A a, b \in Preferences(n) :
        MorePreferred(a, b) <=> \E i \in 1 .. n : a[i] < b[i] /\ \A j \in 1 .. i - 1 : a[j] = b[j]
  BY DEF MorePreferred, Preferences
<1>2. \A a \in Preferences(n), i \in 1 .. n : a[i] \in Int
  BY DEF Preferences
<1>3. ASSUME NEW a \in Preferences(n) PROVE ~MorePreferred(a, a)
  BY <1>1, <1>2
<1>4. ASSUME NEW a \in Preferences(n), NEW b \in Preferences(n), a # b
      PROVE  MorePreferred(a, b) \/ MorePreferred(b, a)
  <2>1. PICK i \in 1 .. n : a[i] # b[i] /\ \A j \in 1 .. i - 1 : a[j] = b[j]
    BY <1>4, FirstDifference
  <2>2. a[i] < b[i] \/ b[i] < a[i]
    BY <1>2, <2>1
  <2> QED BY <1>1, <2>1, <2>2
<1>5. ASSUME NEW a \in Preferences(n), NEW b \in Preferences(n), NEW c \in Preferences(n),
             MorePreferred(a, b), MorePreferred(b, c)
      PROVE  MorePreferred(a, c)
  <2>1. PICK i \in 1 .. n : a[i] < b[i] /\ \A j \in 1 .. i - 1 : a[j] = b[j]
    BY <1>1, <1>5
  <2>2. PICK k \in 1 .. n : b[k] < c[k] /\ \A j \in 1 .. k - 1 : b[j] = c[j]
    BY <1>1, <1>5
  <2>3. CASE i < k
    <3>1. i \in 1 .. k - 1 /\ \A j \in 1 .. i - 1 : j \in 1 .. k - 1
      BY <2>3
    <3>2. a[i] < c[i] /\ \A j \in 1 .. i - 1 : a[j] = c[j]
      BY <1>2, <2>1, <2>2, <3>1
    <3> QED BY <1>1, <3>2
  <2>4. CASE k < i
    <3>1. k \in 1 .. i - 1 /\ \A j \in 1 .. k - 1 : j \in 1 .. i - 1
      BY <2>4
    <3>2. a[k] < c[k] /\ \A j \in 1 .. k - 1 : a[j] = c[j]
      BY <1>2, <2>1, <2>2, <3>1
    <3> QED BY <1>1, <3>2
  <2>5. CASE i = k
    <3>1. a[i] < c[i] /\ \A j \in 1 .. i - 1 : a[j] = c[j]
      BY <1>2, <2>1, <2>2, <2>5
    <3> QED BY <1>1, <3>1
  <2> QED BY <2>3, <2>4, <2>5
<1>6. ASSUME NEW a \in Preferences(n), NEW b \in Preferences(n), MorePreferred(a, b), MorePreferred(b, a)
      PROVE  FALSE
  BY <1>3, <1>5, <1>6
<1> QED BY <1>3, <1>4, <1>5, <1>6

\* Nothing in K beats i, and i beats what comes before it.
Preferred(prefs, K, i) ==
    /\ i \in K
    /\ \A j \in K : ~MorePreferred(prefs[j], prefs[i]) /\ (j < i => MorePreferred(prefs[i], prefs[j]))

\* What the scan of a selection ends with exists, and there is one of it.
LEMMA PreferredExists ==
    ASSUME NEW m \in Nat, NEW n \in Nat, NEW K \in SUBSET (1 .. n), K # {},
           NEW prefs, \A i \in K : prefs[i] \in Preferences(m)
    PROVE  /\ Preferred(prefs, K, PreferredOf(prefs, K))
           /\ \A i : Preferred(prefs, K, i) => i = PreferredOf(prefs, K)
<1> DEFINE Beats(i, j) == MorePreferred(prefs[i], prefs[j]) \/ (prefs[i] = prefs[j] /\ i < j)
           R == {p \in K \X K : Beats(p[1], p[2])}
<1>1. IsFiniteSet(K) /\ \A i \in K : i \in Int
  <2>1. IsFiniteSet(1 .. n)
    BY FS_Interval
  <2>2. IsFiniteSet(K)
    BY <2>1, FS_Subset
  <2> QED BY <2>2
<1>2. \A i, j \in K : <<i, j>> \in R <=> Beats(i, j)
  OBVIOUS
<1>3. /\ \A i \in K : ~MorePreferred(prefs[i], prefs[i])
      /\ \A i, j \in K : ~MorePreferred(prefs[i], prefs[j]) \/ ~MorePreferred(prefs[j], prefs[i])
      /\ \A i, j \in K : \/ prefs[i] = prefs[j]
                         \/ MorePreferred(prefs[i], prefs[j])
                         \/ MorePreferred(prefs[j], prefs[i])
      /\ \A i, j, k \in K : MorePreferred(prefs[i], prefs[j]) /\ MorePreferred(prefs[j], prefs[k])
                              => MorePreferred(prefs[i], prefs[k])
  BY PreferenceOrder
<1> HIDE DEF R
<1>4. \A i \in K : <<i, i>> \notin R
  BY <1>1, <1>2, <1>3
<1>5. \A i, j, k \in K : <<i, j>> \in R /\ <<j, k>> \in R => <<i, k>> \in R
  <2> SUFFICES ASSUME NEW i \in K, NEW j \in K, NEW k \in K, Beats(i, j), Beats(j, k) PROVE Beats(i, k)
    BY <1>2
  <2>1. i < j /\ j < k => i < k
    BY <1>1
  <2> QED BY <1>3, <2>1
<1>6. PICK i \in K : \A j \in K : <<j, i>> \notin R
  BY <1>1, <1>4, <1>5, LeastElement
<1>7. Preferred(prefs, K, i)
  <2>1. ASSUME NEW j \in K PROVE ~MorePreferred(prefs[j], prefs[i]) /\ (j < i => MorePreferred(prefs[i], prefs[j]))
    BY <1>2, <1>3, <1>6
  <2> QED BY <2>1 DEF Preferred
<1>8. Preferred(prefs, K, PreferredOf(prefs, K))
  BY <1>7 DEF Preferred, PreferredOf
<1>9. ASSUME NEW j, NEW k, Preferred(prefs, K, j), Preferred(prefs, K, k) PROVE j = k
  <2>1. j \in K /\ k \in K /\ ~(j < k) /\ ~(k < j)
    BY <1>9 DEF Preferred
  <2> QED BY <1>1, <2>1
<1> QED BY <1>8, <1>9

\* The first candidate is preferred while it is the only one; a later candidate
\* takes its place only by beating it.
THEOREM PreferredIsScanned ==
    ASSUME NEW m \in Nat, NEW n \in Nat, NEW prefs,
           \A i \in 1 .. n : prefs[i] \in Preferences(m)
    PROVE  /\ \A i \in 1 .. n : PreferredOf(prefs, {i}) = i
           /\ \A K \in SUBSET (1 .. n), l \in 1 .. n :
                 K # {} /\ (\A k \in K : k < l) =>
                   PreferredOf(prefs, K \cup {l}) =
                     IF MorePreferred(prefs[l], prefs[PreferredOf(prefs, K)]) THEN l ELSE PreferredOf(prefs, K)
<1>1. /\ \A i \in 1 .. n : ~MorePreferred(prefs[i], prefs[i])
      /\ \A i, j \in 1 .. n : ~MorePreferred(prefs[i], prefs[j]) \/ ~MorePreferred(prefs[j], prefs[i])
      /\ \A i, j \in 1 .. n : \/ prefs[i] = prefs[j]
                              \/ MorePreferred(prefs[i], prefs[j])
                              \/ MorePreferred(prefs[j], prefs[i])
      /\ \A i, j, k \in 1 .. n : MorePreferred(prefs[i], prefs[j]) /\ MorePreferred(prefs[j], prefs[k])
                                   => MorePreferred(prefs[i], prefs[k])
  BY PreferenceOrder
<1>2. ASSUME NEW i \in 1 .. n PROVE PreferredOf(prefs, {i}) = i
  <2>1. {i} \in SUBSET (1 .. n) /\ {i} # {} /\ \A j \in {i} : prefs[j] \in Preferences(m)
    OBVIOUS
  <2>2. Preferred(prefs, {i}, i)
    BY <1>1 DEF Preferred
  <2> QED BY <2>1, <2>2, PreferredExists
<1>3. ASSUME NEW K \in SUBSET (1 .. n), NEW l \in 1 .. n, K # {}, \A k \in K : k < l
      PROVE  PreferredOf(prefs, K \cup {l}) =
               IF MorePreferred(prefs[l], prefs[PreferredOf(prefs, K)]) THEN l ELSE PreferredOf(prefs, K)
  <2> DEFINE i == PreferredOf(prefs, K)
             M == K \cup {l}
  <2>1. Preferred(prefs, K, i)
    BY <1>3, PreferredExists
  <2>2. M \in SUBSET (1 .. n) /\ M # {} /\ \A j \in M : prefs[j] \in Preferences(m)
    OBVIOUS
  <2>3. \A j : Preferred(prefs, M, j) => j = PreferredOf(prefs, M)
    <3> HIDE DEF M
    <3> QED BY <2>2, PreferredExists
  <2>4. i \in K /\ i < l /\ ~(l < i) /\ i \in 1 .. n
    <3>1. i \in K
      BY <2>1 DEF Preferred
    <3> HIDE DEF i
    <3> QED BY <1>3, <3>1
  <2>5. \A j \in M : j \in 1 .. n /\ (j \in K \/ j = l) /\ (j \in K => j < l) /\ ~(l < l)
    BY <1>3
  <2> HIDE DEF i
  <2>6. CASE MorePreferred(prefs[l], prefs[i])
    <3>1. ASSUME NEW j \in K PROVE ~MorePreferred(prefs[j], prefs[l]) /\ MorePreferred(prefs[l], prefs[j])
      <4>1. ~MorePreferred(prefs[j], prefs[i]) /\ j \in 1 .. n
        BY <2>1 DEF Preferred
      <4>2. prefs[i] = prefs[j] \/ MorePreferred(prefs[i], prefs[j])
        BY <1>1, <2>4, <4>1
      <4> QED BY <1>1, <2>4, <2>6, <4>1, <4>2
    <3>2. l \in M /\ \A j \in M : ~MorePreferred(prefs[j], prefs[l]) /\ (j < l => MorePreferred(prefs[l], prefs[j]))
      BY <1>1, <2>5, <3>1
    <3>3. Preferred(prefs, M, l)
      BY <3>2 DEF Preferred
    <3> QED BY <2>3, <2>6, <3>3 DEF i
  <2>7. CASE ~MorePreferred(prefs[l], prefs[i])
    <3>1. i \in M /\ \A j \in M : ~MorePreferred(prefs[j], prefs[i]) /\ (j < i => MorePreferred(prefs[i], prefs[j]))
      BY <2>1, <2>4, <2>5, <2>7 DEF Preferred
    <3>2. Preferred(prefs, M, i)
      BY <3>1 DEF Preferred
    <3> QED BY <2>3, <2>7, <3>2 DEF i
  <2> QED BY <2>6, <2>7
<1> QED BY <1>2, <1>3

-----------------------------------------------------------------------------
\* Exactly one of the routes for each prefix is marked.
OneBest(s) ==
    \A i \in DOMAIN s : \E j \in DOMAIN s :
        /\ s[j].best /\ s[j].prefix = s[i].prefix
        /\ \A k \in DOMAIN s : s[k].best /\ s[k].prefix = s[i].prefix => k = j

\* All routes are for the same prefix.
OnePrefix(s) == \A i, j \in DOMAIN s : s[i].prefix = s[j].prefix

\* As many routes are marked for the prefix of any of them: one.
LEMMA OneBestCounted ==
    ASSUME NEW s, OneBest(s)
    PROVE  \A i \in DOMAIN s : Cardinality({j \in Bests(s) : s[j].prefix = s[i].prefix}) = 1
<1> SUFFICES ASSUME NEW i \in DOMAIN s PROVE Cardinality({j \in Bests(s) : s[j].prefix = s[i].prefix}) = 1
  OBVIOUS
<1>1. PICK j \in DOMAIN s : /\ s[j].best /\ s[j].prefix = s[i].prefix
                            /\ \A k \in DOMAIN s : s[k].best /\ s[k].prefix = s[i].prefix => k = j
  BY DEF OneBest
<1>2. {k \in Bests(s) : s[k].prefix = s[i].prefix} = {j}
  BY <1>1 DEF Bests
<1> QED BY <1>2, FS_Singleton

\* Sorting keeps what is marked and for what.
LEMMA SortKeepsOneBest ==
    ASSUME NEW S, NEW s \in Seq(S), OneBest(s)
    PROVE  OneBest(SortBestFirst(s))
<1> DEFINE z == SortBestFirst(s)
<1>1. DOMAIN z = DOMAIN s
  BY SortRearranges
<1>2. PICK f \in [DOMAIN s -> DOMAIN s] :
        /\ \A k \in DOMAIN s : z[k] = s[f[k]]
        /\ \A k, l \in DOMAIN s : f[k] = f[l] => k = l
        /\ \A i \in DOMAIN s : \E k \in DOMAIN s : f[k] = i
  BY SortRearranges
<1> HIDE DEF z
<1>3. ASSUME NEW i \in DOMAIN z
      PROVE  \E j \in DOMAIN z : /\ z[j].best /\ z[j].prefix = z[i].prefix
                                 /\ \A k \in DOMAIN z : z[k].best /\ z[k].prefix = z[i].prefix => k = j
  <2>1. f[i] \in DOMAIN s /\ z[i] = s[f[i]]
    BY <1>1, <1>2
  <2>2. PICK m \in DOMAIN s : /\ s[m].best /\ s[m].prefix = s[f[i]].prefix
                              /\ \A k \in DOMAIN s : s[k].best /\ s[k].prefix = s[f[i]].prefix => k = m
    BY <2>1 DEF OneBest
  <2>3. PICK j \in DOMAIN s : f[j] = m
    BY <1>2, <2>2
  <2>4. z[j].best /\ z[j].prefix = z[i].prefix
    BY <1>2, <2>1, <2>2, <2>3
  <2>5. ASSUME NEW k \in DOMAIN z, z[k].best, z[k].prefix = z[i].prefix PROVE k = j
    <3>1. f[k] \in DOMAIN s /\ z[k] = s[f[k]]
      BY <1>1, <1>2
    <3>2. f[k] = m
      BY <2>1, <2>2, <2>5, <3>1
    <3> QED BY <1>1, <1>2, <2>3, <3>2
  <2> QED BY <1>1, <2>3, <2>4, <2>5
<1> QED BY <1>3 DEF OneBest, z

\* Sorting adds no prefix.
LEMMA SortKeepsOnePrefix ==
    ASSUME NEW S, NEW s \in Seq(S), OnePrefix(s)
    PROVE  OnePrefix(SortBestFirst(s))
<1>1. DOMAIN SortBestFirst(s) = DOMAIN s
  BY SortRearranges
<1>2. PICK f \in [DOMAIN s -> DOMAIN s] : \A k \in DOMAIN s : SortBestFirst(s)[k] = s[f[k]]
  BY SortRearranges
<1> QED BY <1>1, <1>2 DEF OnePrefix

\* With one route marked that route is the one that counts.
LEMMA BestIsTheMarked ==
    ASSUME NEW S, NEW s \in Seq(S), NEW i \in DOMAIN s, Bests(s) = {i}
    PROVE  BestRoute(s) = s[i]
<1>1. s # <<>>
  OBVIOUS
<1>2. PICK j \in Bests(s) : SortBestFirst(s)[1] = s[j]
  BY <1>1, SortPutsBestFirst
<1> QED BY <1>1, <1>2 DEF BestRoute

\* Routes for one prefix have one mark among them all.
LEMMA OneBestOfOnePrefix ==
    ASSUME NEW S, NEW s \in Seq(S), s # <<>>, OneBest(s), OnePrefix(s)
    PROVE  \E i \in DOMAIN s : Bests(s) = {i}
<1>1. 1 \in DOMAIN s
  OBVIOUS
<1>2. PICK j \in DOMAIN s : /\ s[j].best /\ s[j].prefix = s[1].prefix
                            /\ \A k \in DOMAIN s : s[k].best /\ s[k].prefix = s[1].prefix => k = j
  BY <1>1 DEF OneBest
<1>3. \A k \in DOMAIN s : s[k].best => k = j
  BY <1>1, <1>2 DEF OnePrefix
<1>4. \A k : k \in Bests(s) <=> k = j
  BY <1>2, <1>3 DEF Bests
<1>5. Bests(s) = {j}
  BY <1>4
<1> QED BY <1>5

\* A sequence that is not empty has a first element.
LEMMA NonEmpty ==
    ASSUME NEW S, NEW s \in Seq(S), s # <<>>
    PROVE  1 \in DOMAIN s /\ DOMAIN s # {} /\ Len(s) \in Nat
OBVIOUS

\* A preference is as many numbers as the decision process has steps.
LEMMA NineSteps ==
    ASSUME NEW a \in Int, NEW b \in Int, NEW c \in Int, NEW d \in Int, NEW e \in Int,
           NEW f \in Int, NEW g \in Int, NEW h \in Int, NEW i \in Int
    PROVE  <<a, b, c, d, e, f, g, h, i>> \in Preferences(9)
BY DEF Preferences

\* Paths and routes are compared by preferences.
LEMMA EntryPreferences ==
    /\ \A e \in Path : EntryPreference(e) \in Preferences(9)
    /\ \A r \in Route : RoutePreference(r) \in Preferences(9)
<1>1. ASSUME NEW e \in Path PROVE EntryPreference(e) \in Preferences(9)
  <2>1. /\ e.localPref \in Nat \cup {None} /\ Len(e.path) \in Nat /\ e.origin \in Nat /\ e.med \in Nat
        /\ e.clusters \in Nat /\ e.since \in Nat /\ e.nextHop \in Nat /\ e.neighbor \in Nat
    BY DEF Path
  <2>2. (IF e.localPref = None THEN -100 ELSE -e.localPref) \in Int /\ (IF e.clusters > 0 THEN 1 ELSE 0) \in Int
    BY <2>1
  <2> DEFINE l == IF e.localPref = None THEN -100 ELSE -e.localPref
             k == IF e.clusters > 0 THEN 1 ELSE 0
  <2>3. l \in Int /\ k \in Int /\ Len(e.path) \in Int /\ e.origin \in Int /\ e.med \in Int
        /\ e.clusters \in Int /\ e.since \in Int /\ e.nextHop \in Int /\ e.neighbor \in Int
    BY <2>1, <2>2
  <2>4. EntryPreference(e) = <<l, Len(e.path), e.origin, e.med, k, e.clusters, e.since, e.nextHop, e.neighbor>>
    BY DEF EntryPreference
  <2> HIDE DEF l, k
  <2>5. <<l, Len(e.path), e.origin, e.med, k, e.clusters, e.since, e.nextHop, e.neighbor>> \in Preferences(9)
    BY <2>3, NineSteps
  <2> QED BY <2>4, <2>5
<1>2. ASSUME NEW r \in Route PROVE RoutePreference(r) \in Preferences(9)
  <2>1. /\ r.localPref \in Nat /\ Len(r.path) \in Nat /\ r.origin \in Nat /\ r.med \in Nat /\ r.nextHop \in Nat
    BY DEF Route
  <2>2. (IF r.localPref = 0 THEN -100 ELSE -r.localPref) \in Int
    BY <2>1
  <2> DEFINE l == IF r.localPref = 0 THEN -100 ELSE -r.localPref
  <2>3. l \in Int /\ Len(r.path) \in Int /\ r.origin \in Int /\ r.med \in Int /\ r.nextHop \in Int /\ 0 \in Int
    BY <2>1, <2>2
  <2>4. RoutePreference(r) = <<l, Len(r.path), r.origin, r.med, 0, 0, 0, r.nextHop, 0>>
    BY DEF RoutePreference
  <2> HIDE DEF l
  <2>5. <<l, Len(r.path), r.origin, r.med, 0, 0, 0, r.nextHop, 0>> \in Preferences(9)
    BY <2>3, NineSteps
  <2> QED BY <2>4, <2>5
<1> QED BY <1>1, <1>2

\* ensureBestAmongEntries marks one entry, one that nothing beats.
LEMMA EntriesSelected ==
    ASSUME NEW entries \in Seq(Path)
    PROVE  /\ EnsureBestAmongEntries(entries) \in Seq(Path)
           /\ DOMAIN EnsureBestAmongEntries(entries) = DOMAIN entries
           /\ \A i \in DOMAIN entries : \E b \in BOOLEAN :
                 EnsureBestAmongEntries(entries)[i] = [entries[i] EXCEPT !.best = b]
           /\ entries # <<>> => \E i \in DOMAIN entries :
                 /\ Bests(EnsureBestAmongEntries(entries)) = {i}
                 /\ \A j \in DOMAIN entries : ~MorePreferred(EntryPreference(entries[j]), EntryPreference(entries[i]))
<1> DEFINE prefs == [i \in DOMAIN entries |-> EntryPreference(entries[i])]
           z == EnsureBestAmongEntries(entries)
           b == PreferredOf(prefs, DOMAIN entries)
<1>1. DOMAIN entries = 1 .. Len(entries) /\ Len(entries) \in Nat /\ \A i \in DOMAIN entries : entries[i] \in Path
  OBVIOUS
<1>2. \A i \in DOMAIN entries : prefs[i] \in Preferences(9) /\ prefs[i] = EntryPreference(entries[i])
  BY <1>1, EntryPreferences
<1>3. z = [i \in DOMAIN entries |-> [entries[i] EXCEPT !.best = (i = b)]]
  BY DEF EnsureBestAmongEntries
<1> HIDE DEF b, z, prefs
<1>4. \A i \in DOMAIN entries : z[i] \in Path /\ z[i].best = (i = b) /\ z[i] = [entries[i] EXCEPT !.best = (i = b)]
  <2>1. ASSUME NEW e \in Path, NEW c \in BOOLEAN PROVE [e EXCEPT !.best = c] \in Path /\ [e EXCEPT !.best = c].best = c
    BY DEF Path
  <2> QED BY <1>1, <1>3, <2>1
<1>5. DOMAIN z = DOMAIN entries /\ z \in Seq(Path)
  BY <1>1, <1>3, <1>4
<1>6. ASSUME entries # <<>> PROVE Preferred(prefs, DOMAIN entries, b)
  <2>1. DOMAIN entries \in SUBSET (1 .. Len(entries)) /\ DOMAIN entries # {}
    BY <1>1, <1>6, NonEmpty
  <2> QED BY <1>1, <1>2, <2>1, PreferredExists DEF b
<1>7. ASSUME entries # <<>>
      PROVE  \E i \in DOMAIN entries :
                 /\ Bests(z) = {i}
                 /\ \A j \in DOMAIN entries : ~MorePreferred(EntryPreference(entries[j]), EntryPreference(entries[i]))
  <2>1. b \in DOMAIN entries /\ \A j \in DOMAIN entries : ~MorePreferred(prefs[j], prefs[b])
    BY <1>6, <1>7 DEF Preferred
  <2>2. Bests(z) = {b}
    BY <1>4, <1>5, <2>1 DEF Bests
  <2> QED BY <1>2, <2>1, <2>2
<1> QED BY <1>4, <1>5, <1>7 DEF z

\* A mark changes neither what a path is compared by nor whose it is.
LEMMA MarkedEntry ==
    ASSUME NEW e \in Path, NEW b \in BOOLEAN
    PROVE  /\ [e EXCEPT !.best = b] \in Path
           /\ EntryPreference([e EXCEPT !.best = b]) = EntryPreference(e)
           /\ [e EXCEPT !.best = b].prefix = e.prefix
           /\ [e EXCEPT !.best = b].neighbor = e.neighbor
<1> DEFINE m == [e EXCEPT !.best = b]
<1>1. /\ m \in Path /\ m.localPref = e.localPref /\ m.path = e.path /\ m.origin = e.origin /\ m.med = e.med
      /\ m.clusters = e.clusters /\ m.since = e.since /\ m.nextHop = e.nextHop /\ m.neighbor = e.neighbor
      /\ m.prefix = e.prefix
  BY DEF Path
<1> HIDE DEF m
<1> QED BY <1>1 DEF EntryPreference, m

\* What a node's lookup in the table lists: paths of its own neighbors for one
\* prefix, marked by its own decision process.
Listed(n, heard) ==
    /\ heard \in Seq(Path) /\ OnePrefix(heard)
    /\ \A i \in DOMAIN heard : heard[i].neighbor \in NeighborsOf(n)
    /\ heard # <<>> => \E i \in DOMAIN heard :
          /\ Bests(heard) = {i}
          /\ \A j \in DOMAIN heard : ~MorePreferred(EntryPreference(heard[j]), EntryPreference(heard[i]))

\* LookupRoute lists what Listed says, whatever the table holds.
LEMMA LookupLists ==
    ASSUME NEW n, NEW target, rib \in Seq(Path)
    PROVE  Listed(n, LookupRoute(n, target))
<1> DEFINE listed == Matching(target, rib)
           marked == [i \in DOMAIN listed |-> PathToRouteEntry(listed[i], i = 1)]
           K == {i \in DOMAIN marked : marked[i].neighbor \in NeighborsOf(n)}
           own == Pick(marked, K)
           z == LookupRoute(n, target)
<1>1. listed \in Seq(Path) /\ OnePrefix(listed)
  <2>1. PICK best : listed = Pick(rib, {i \in DOMAIN rib : rib[i].prefix = best})
    BY DEF Matching
  <2> DEFINE M == {i \in DOMAIN rib : rib[i].prefix = best}
  <2>2. M \in SUBSET DOMAIN rib /\ \A i \in M : rib[i].prefix = best
    OBVIOUS
  <2>3. listed = Pick(rib, M)
    BY <2>1
  <2> HIDE DEF M, listed
  <2>4. /\ listed \in Seq(Path)
        /\ \A k \in DOMAIN listed : Place(M, k) \in M /\ listed[k] = rib[Place(M, k)]
    BY <2>2, <2>3, PickedElements
  <2>5. \A k \in DOMAIN listed : listed[k].prefix = best
    BY <2>2, <2>4
  <2> QED BY <2>4, <2>5 DEF OnePrefix
<1> HIDE DEF listed
<1>2. marked \in Seq(Path) /\ OnePrefix(marked)
  <2>1. \A i \in DOMAIN listed : listed[i] \in Path /\ (i = 1) \in BOOLEAN
    BY <1>1
  <2>2. \A i \in DOMAIN listed : marked[i] \in Path /\ marked[i].prefix = listed[i].prefix
    BY <2>1, MarkedEntry DEF PathToRouteEntry
  <2>3. marked \in Seq(Path) /\ DOMAIN marked = DOMAIN listed
    BY <1>1, <2>2
  <2> QED BY <1>1, <2>2, <2>3 DEF OnePrefix
<1> HIDE DEF marked
<1>3. /\ own \in Seq(Path) /\ OnePrefix(own)
      /\ \A i \in DOMAIN own : own[i].neighbor \in NeighborsOf(n)
  <2>1. K \in SUBSET DOMAIN marked /\ \A i \in K : marked[i].neighbor \in NeighborsOf(n)
    OBVIOUS
  <2> HIDE DEF K
  <2>2. /\ own \in Seq(Path)
        /\ \A k \in DOMAIN own : Place(K, k) \in K /\ own[k] = marked[Place(K, k)]
    BY <1>2, <2>1, PickedElements
  <2> HIDE DEF own
  <2> QED BY <1>2, <2>1, <2>2 DEF OnePrefix
<1>4. z = EnsureBestAmongEntries(own)
  BY DEF LookupRoute, listed, marked
<1> HIDE DEF own, z
<1>5. /\ z \in Seq(Path) /\ DOMAIN z = DOMAIN own
      /\ \A i \in DOMAIN own : \E b \in BOOLEAN : z[i] = [own[i] EXCEPT !.best = b]
      /\ own # <<>> => \E i \in DOMAIN own :
            /\ Bests(z) = {i}
            /\ \A j \in DOMAIN own : ~MorePreferred(EntryPreference(own[j]), EntryPreference(own[i]))
  BY <1>3, <1>4, EntriesSelected
<1>6. \A i \in DOMAIN own : /\ EntryPreference(z[i]) = EntryPreference(own[i])
                            /\ z[i].prefix = own[i].prefix /\ z[i].neighbor = own[i].neighbor
  <2>1. \A i \in DOMAIN own : own[i] \in Path
    BY <1>3
  <2> QED BY <1>5, <2>1, MarkedEntry
<1>7. z # <<>> => own # <<>>
  BY <1>3, <1>5
<1>8. \A i \in DOMAIN z : z[i].neighbor \in NeighborsOf(n)
  BY <1>3, <1>5, <1>6
<1>9. OnePrefix(z)
  BY <1>3, <1>5, <1>6 DEF OnePrefix
<1>10. z # <<>> => \E i \in DOMAIN z :
          /\ Bests(z) = {i}
          /\ \A j \in DOMAIN z : ~MorePreferred(EntryPreference(z[j]), EntryPreference(z[i]))
  BY <1>5, <1>6, <1>7
<1> QED BY <1>5, <1>8, <1>9, <1>10 DEF Listed, z

\* A route made of an entry is a route, with the entry's mark, path and next hop.
LEMMA EntryAsRoute ==
    ASSUME NEW e \in Path
    PROVE  /\ RouteOf(e) \in Route
           /\ [RouteOf(e) EXCEPT !.prefix = "target", !.viaDefault = TRUE] \in Route
           /\ RouteOf(e).prefix = e.prefix
           /\ [RouteOf(e) EXCEPT !.prefix = "target", !.viaDefault = TRUE].prefix = "target"
           /\ \A r \in {RouteOf(e), [RouteOf(e) EXCEPT !.prefix = "target", !.viaDefault = TRUE]} :
                 r.best = e.best /\ r.path = e.path /\ r.nextHop = e.nextHop
<1>1. /\ e.prefix \in TablePrefixes /\ e.path \in Seq(Nat) /\ e.nextHop \in Nat /\ e.med \in Nat /\ e.origin \in Nat
      /\ e.best \in BOOLEAN /\ e.localPref \in Nat \cup {None}
  BY DEF Path
<1>2. (IF e.localPref = None THEN 0 ELSE e.localPref) \in Nat
  BY <1>1
<1> DEFINE r == RouteOf(e)
           d == [r EXCEPT !.prefix = "target", !.viaDefault = TRUE]
<1>3. r \in Route /\ r.prefix = e.prefix /\ r.best = e.best /\ r.path = e.path /\ r.nextHop = e.nextHop
  BY <1>1, <1>2 DEF RouteOf, Route
<1> HIDE DEF r
<1>4. d \in Route /\ d.prefix = "target" /\ d.best = e.best /\ d.path = e.path /\ d.nextHop = e.nextHop
  BY <1>3 DEF Route
<1> QED BY <1>3, <1>4 DEF r

\* A function on the first n numbers is a sequence.
LEMMA FunctionIsSequence ==
    ASSUME NEW S, NEW n \in Nat, NEW f \in [1 .. n -> S]
    PROVE  f \in Seq(S) /\ Len(f) = n
OBVIOUS

\* So is one value.
LEMMA SingletonIsSequence ==
    ASSUME NEW S, NEW a \in S
    PROVE  <<a>> \in Seq(S)
OBVIOUS

\* Routes made of entries keep their order, marks and attributes, sorting aside.
LEMMA RoutesOfEntries ==
    ASSUME NEW entries \in Seq(Path), OnePrefix(entries)
    PROVE  /\ RoutesOf(entries) \in Seq(Route)
           /\ DOMAIN RoutesOf(entries) = DOMAIN entries /\ OnePrefix(RoutesOf(entries))
           /\ \A i \in DOMAIN entries : Bests(entries) = {i} =>
                 \E k \in DOMAIN entries :
                     /\ Bests(RoutesOf(entries)) = {k}
                     /\ RoutesOf(entries)[k].path = entries[i].path
                     /\ RoutesOf(entries)[k].nextHop = entries[i].nextHop
<1> DEFINE Routes == [i \in DOMAIN entries |->
                         IF asked.target = "address" /\ entries[i].prefix = "default"
                         THEN [RouteOf(entries[i]) EXCEPT !.prefix = "target", !.viaDefault = TRUE]
                         ELSE RouteOf(entries[i])]
           z == RoutesOf(entries)
<1>1. DOMAIN entries = 1 .. Len(entries) /\ Len(entries) \in Nat /\ \A i \in DOMAIN entries : entries[i] \in Path
  OBVIOUS
<1>2. \A i \in DOMAIN entries :
        /\ Routes[i] \in Route /\ Routes[i].best = entries[i].best
        /\ Routes[i].path = entries[i].path /\ Routes[i].nextHop = entries[i].nextHop
        /\ Routes[i].prefix = IF asked.target = "address" /\ entries[i].prefix = "default" THEN "target"
                              ELSE entries[i].prefix
  BY <1>1, EntryAsRoute
<1>3. z = SortBestFirst(Routes)
  BY DEF RoutesOf
<1>4. DOMAIN Routes = DOMAIN entries /\ Routes \in Seq(Route)
  <2>1. DOMAIN Routes = DOMAIN entries /\ Routes = [i \in DOMAIN entries |-> Routes[i]]
    OBVIOUS
  <2>2. \A i \in DOMAIN entries : Routes[i] \in Route
    BY <1>2
  <2> HIDE DEF Routes
  <2>3. Routes \in [1 .. Len(entries) -> Route]
    BY <1>1, <2>1, <2>2
  <2> QED BY <1>1, <2>1, <2>3, FunctionIsSequence
<1> HIDE DEF Routes, z
<1>5. OnePrefix(Routes)
  BY <1>2, <1>4 DEF OnePrefix
<1>6. z \in Seq(Route) /\ DOMAIN z = DOMAIN entries /\ OnePrefix(z)
  BY <1>3, <1>4, <1>5, SortRearranges, SortKeepsOnePrefix
<1>7. PICK f \in [DOMAIN Routes -> DOMAIN Routes] :
        /\ \A k \in DOMAIN Routes : z[k] = Routes[f[k]]
        /\ \A k, l \in DOMAIN Routes : f[k] = f[l] => k = l
        /\ \A i \in DOMAIN Routes : \E k \in DOMAIN Routes : f[k] = i
  <2>1. \E f \in [DOMAIN Routes -> DOMAIN Routes] :
          /\ \A k \in DOMAIN Routes : SortBestFirst(Routes)[k] = Routes[f[k]]
          /\ \A k, l \in DOMAIN Routes : f[k] = f[l] => k = l
          /\ \A i \in DOMAIN Routes : \E k \in DOMAIN Routes : f[k] = i
    BY <1>4, SortRearranges
  <2> QED BY <1>3, <2>1
<1>8. ASSUME NEW i \in DOMAIN entries, Bests(entries) = {i}
      PROVE  \E k \in DOMAIN entries :
                     Bests(z) = {k} /\ z[k].path = entries[i].path /\ z[k].nextHop = entries[i].nextHop
  <2>1. PICK k \in DOMAIN entries : f[k] = i
    BY <1>4, <1>7
  <2>2. \A j \in DOMAIN entries : entries[j].best <=> j = i
    BY <1>8 DEF Bests
  <2>3. ASSUME NEW l \in DOMAIN entries PROVE z[l].best <=> f[l] = i
    <3>1. f[l] \in DOMAIN entries /\ z[l] = Routes[f[l]]
      BY <1>4, <1>7
    <3>2. z[l].best = entries[f[l]].best
      BY <1>2, <3>1
    <3> QED BY <2>2, <3>1, <3>2
  <2>4. \A l : l \in Bests(z) <=> l = k
    BY <1>4, <1>6, <1>7, <2>1, <2>3 DEF Bests
  <2>5. Bests(z) = {k}
    BY <2>4
  <2>6. z[k] = Routes[i]
    BY <1>4, <1>7, <2>1
  <2> QED BY <1>2, <2>1, <2>5, <2>6
<1> QED BY <1>6, <1>8 DEF z

\* An AS that leads the paths changes nothing else.
LEMMA LedRoutes ==
    ASSUME NEW as \in Nat, NEW routes \in Seq(Route)
    PROVE  /\ ApplyOriginASPath(as, routes) \in Seq(Route)
           /\ DOMAIN ApplyOriginASPath(as, routes) = DOMAIN routes
           /\ \A i \in DOMAIN routes :
                 /\ ApplyOriginASPath(as, routes)[i].prefix = routes[i].prefix
                 /\ ApplyOriginASPath(as, routes)[i].best = routes[i].best
                 /\ ApplyOriginASPath(as, routes)[i].nextHop = routes[i].nextHop
                 /\ ApplyOriginASPath(as, routes)[i].path =
                      IF routes[i].path # <<>> /\ Head(routes[i].path) = as THEN routes[i].path
                      ELSE <<as>> \o routes[i].path
<1> DEFINE z == ApplyOriginASPath(as, routes)
<1>1. DOMAIN routes = 1 .. Len(routes) /\ Len(routes) \in Nat /\ \A i \in DOMAIN routes : routes[i] \in Route
  OBVIOUS
<1>2. ASSUME NEW i \in DOMAIN routes
      PROVE  /\ z[i] \in Route
             /\ z[i].prefix = routes[i].prefix /\ z[i].best = routes[i].best /\ z[i].nextHop = routes[i].nextHop
             /\ z[i].path = IF routes[i].path # <<>> /\ Head(routes[i].path) = as THEN routes[i].path
                            ELSE <<as>> \o routes[i].path
  <2> DEFINE r == routes[i]
             p == IF r.path # <<>> /\ Head(r.path) = as THEN r.path ELSE <<as>> \o r.path
  <2>1. r \in Route /\ r.path \in Seq(Nat)
    BY <1>1 DEF Route
  <2>2. <<as>> \in Seq(Nat) /\ <<as>> \o r.path \in Seq(Nat)
    <3>1. <<as>> \in Seq(Nat)
      BY SingletonIsSequence
    <3> HIDE DEF r
    <3> QED BY <2>1, <3>1, ConcatProperties
  <2>3. z[i] = IF r.path # <<>> /\ Head(r.path) = as THEN r ELSE [r EXCEPT !.path = <<as>> \o r.path]
    BY <1>1 DEF ApplyOriginASPath
  <2> HIDE DEF r, z
  <2>4. CASE r.path # <<>> /\ Head(r.path) = as
    BY <2>1, <2>3, <2>4 DEF r
  <2>5. CASE ~(r.path # <<>> /\ Head(r.path) = as)
    <3> DEFINE q == <<as>> \o r.path
    <3>1. q \in Seq(Nat) /\ z[i] = [r EXCEPT !.path = q]
      BY <2>2, <2>3, <2>5
    <3> HIDE DEF q
    <3>2. z[i] \in Route /\ z[i].prefix = r.prefix /\ z[i].best = r.best /\ z[i].nextHop = r.nextHop /\ z[i].path = q
      BY <2>1, <3>1 DEF Route
    <3> QED BY <2>5, <3>2 DEF r, q
  <2> QED BY <2>4, <2>5
<1>3. DOMAIN z = DOMAIN routes
  BY DEF ApplyOriginASPath
<1>4. z \in Seq(Route)
  <2>1. z = [i \in DOMAIN routes |-> z[i]]
    BY DEF ApplyOriginASPath
  <2> HIDE DEF z
  <2>2. z \in [1 .. Len(routes) -> Route]
    BY <1>1, <1>2, <1>3, <2>1
  <2> QED BY <1>1, <2>2, FunctionIsSequence
<1> QED BY <1>2, <1>3, <1>4

\* An AS that leads the paths moves no mark.
LEMMA LedKeepsMarks ==
    ASSUME NEW as \in Nat, NEW routes \in Seq(Route)
    PROVE  /\ OneBest(routes) => OneBest(ApplyOriginASPath(as, routes))
           /\ OnePrefix(routes) => OnePrefix(ApplyOriginASPath(as, routes))
           /\ Bests(ApplyOriginASPath(as, routes)) = Bests(routes)
<1> DEFINE z == ApplyOriginASPath(as, routes)
<1>1. DOMAIN z = DOMAIN routes /\ \A i \in DOMAIN routes : z[i].prefix = routes[i].prefix /\ z[i].best = routes[i].best
  BY LedRoutes
<1> HIDE DEF z
<1>2. ASSUME OneBest(routes) PROVE OneBest(z)
  <2>1. ASSUME NEW i \in DOMAIN z
        PROVE  \E j \in DOMAIN z : /\ z[j].best /\ z[j].prefix = z[i].prefix
                                  /\ \A k \in DOMAIN z : z[k].best /\ z[k].prefix = z[i].prefix => k = j
    <3>1. PICK j \in DOMAIN routes :
             /\ routes[j].best /\ routes[j].prefix = routes[i].prefix
             /\ \A k \in DOMAIN routes : routes[k].best /\ routes[k].prefix = routes[i].prefix => k = j
      BY <1>1, <1>2, <2>1 DEF OneBest
    <3> QED BY <1>1, <2>1, <3>1
  <2> QED BY <2>1 DEF OneBest
<1>3. OnePrefix(routes) => OnePrefix(z)
  BY <1>1 DEF OnePrefix
<1>4. Bests(z) = Bests(routes)
  BY <1>1 DEF Bests
<1> QED BY <1>2, <1>3, <1>4 DEF z

\* A mark changes nothing else of a route.
LEMMA MarkedRoute ==
    ASSUME NEW r \in Route, NEW b \in BOOLEAN
    PROVE  /\ [r EXCEPT !.best = b] \in Route /\ [r EXCEPT !.best = b].best = b
           /\ [r EXCEPT !.best = b].prefix = r.prefix /\ [r EXCEPT !.best = b].path = r.path
           /\ [r EXCEPT !.best = b].nextHop = r.nextHop
BY DEF Route

\* ensureBestAmongRoutes leaves one route marked for each prefix, and a mark
\* that stands alone where it is.
LEMMA ReportSelected ==
    ASSUME NEW routes \in Seq(Route)
    PROVE  /\ EnsureBestAmongRoutes(routes) \in Seq(Route)
           /\ DOMAIN EnsureBestAmongRoutes(routes) = DOMAIN routes
           /\ OneBest(EnsureBestAmongRoutes(routes))
           /\ \A i \in DOMAIN routes :
                 /\ EnsureBestAmongRoutes(routes)[i].prefix = routes[i].prefix
                 /\ EnsureBestAmongRoutes(routes)[i].path = routes[i].path
                 /\ EnsureBestAmongRoutes(routes)[i].nextHop = routes[i].nextHop
           /\ \A i \in DOMAIN routes : Bests(routes) = {i} /\ OnePrefix(routes)
                 => Bests(EnsureBestAmongRoutes(routes)) = {i}
<1> DEFINE Group(p) == {i \in DOMAIN routes : routes[i].prefix = p}
           Marked(p) == Group(p) \cap Bests(routes)
           prefs == [i \in DOMAIN routes |-> RoutePreference(routes[i])]
           Selected(p) == IF Cardinality(Marked(p)) = 1 THEN CHOOSE i \in Marked(p) : TRUE
                          ELSE PreferredOf(prefs, Group(p))
           z == EnsureBestAmongRoutes(routes)
           chosen == [i \in DOMAIN routes |-> Selected(routes[i].prefix)]
<1>1. DOMAIN routes = 1 .. Len(routes) /\ Len(routes) \in Nat /\ \A i \in DOMAIN routes : routes[i] \in Route
  OBVIOUS
<1>2. \A i \in DOMAIN routes : prefs[i] \in Preferences(9)
  BY <1>1, EntryPreferences
<1> HIDE DEF prefs
<1>3. ASSUME NEW i \in DOMAIN routes
      PROVE  chosen[i] \in Group(routes[i].prefix)
  <2> DEFINE p == routes[i].prefix
  <2>1. Group(p) \in SUBSET (1 .. Len(routes)) /\ i \in Group(p) /\ \A k \in Group(p) : k \in DOMAIN routes
    BY <1>1
  <2>2. CASE Cardinality(Marked(p)) = 1
    <3>1. chosen[i] = CHOOSE k \in Marked(p) : TRUE
      BY <2>2
    <3>4. Marked(p) # {}
      <4>1. Cardinality({}) = 0
        BY FS_EmptySet
      <4>2. Cardinality({}) # 1
        BY <4>1
      <4> HIDE DEF Marked
      <4> QED BY <2>2, <4>2, Zenon
    <3>2. Marked(p) \subseteq Group(p)
      OBVIOUS
    <3> HIDE DEF chosen, Marked, Group
    <3> QED BY <3>1, <3>2, <3>4
  <2>3. CASE Cardinality(Marked(p)) # 1
    <3>1. chosen[i] = PreferredOf(prefs, Group(p))
      BY <2>3
    <3>2. \A k \in Group(p) : prefs[k] \in Preferences(9)
      BY <1>2, <2>1
    <3> HIDE DEF chosen, Group
    <3>3. Preferred(prefs, Group(p), PreferredOf(prefs, Group(p)))
      BY <1>1, <2>1, <3>2, PreferredExists
    <3> QED BY <3>1, <3>3 DEF Preferred
  <2> QED BY <2>2, <2>3
<1>4. \A i, j \in DOMAIN routes : routes[i].prefix = routes[j].prefix => chosen[i] = chosen[j]
  <2>1. \A i \in DOMAIN routes : chosen[i] = Selected(routes[i].prefix)
    OBVIOUS
  <2> HIDE DEF Selected, chosen
  <2> QED BY <2>1
<1>5. \A i \in DOMAIN routes : chosen[i] \in DOMAIN routes /\ routes[chosen[i]].prefix = routes[i].prefix
  BY <1>3
<1>6. z = [i \in DOMAIN routes |-> [routes[i] EXCEPT !.best = (i = chosen[i])]]
  BY DEF EnsureBestAmongRoutes, prefs
<1>7. ASSUME NEW i \in DOMAIN routes, Bests(routes) = {i}, OnePrefix(routes), NEW k \in DOMAIN routes
      PROVE  chosen[k] = i
  <2>1. Marked(routes[k].prefix) = {i}
    BY <1>7 DEF OnePrefix
  <2> HIDE DEF Marked
  <2> QED BY <2>1, FS_Singleton
<1> HIDE DEF chosen, z
<1>8. \A i \in DOMAIN routes :
        /\ z[i] \in Route /\ (z[i].best => i = chosen[i]) /\ (i = chosen[i] => z[i].best)
        /\ z[i].prefix = routes[i].prefix /\ z[i].path = routes[i].path /\ z[i].nextHop = routes[i].nextHop
  <2> SUFFICES ASSUME NEW i \in DOMAIN routes
      PROVE  /\ z[i] \in Route /\ (z[i].best => i = chosen[i]) /\ (i = chosen[i] => z[i].best)
             /\ z[i].prefix = routes[i].prefix /\ z[i].path = routes[i].path /\ z[i].nextHop = routes[i].nextHop
    OBVIOUS
  <2> DEFINE b == i = chosen[i]
  <2>1. b \in BOOLEAN /\ routes[i] \in Route /\ z[i] = [routes[i] EXCEPT !.best = b]
    BY <1>1, <1>6
  <2> HIDE DEF b
  <2>2. /\ z[i] \in Route /\ z[i].best = b
        /\ z[i].prefix = routes[i].prefix /\ z[i].path = routes[i].path /\ z[i].nextHop = routes[i].nextHop
    BY <2>1, MarkedRoute
  <2> QED BY <2>2 DEF b
<1>9. DOMAIN z = DOMAIN routes /\ z \in Seq(Route)
  <2>1. DOMAIN z = DOMAIN routes /\ z = [i \in DOMAIN routes |-> z[i]]
    BY <1>6
  <2>2. z \in [1 .. Len(routes) -> Route]
    BY <1>1, <1>8, <2>1
  <2> QED BY <1>1, <2>1, <2>2, FunctionIsSequence
<1>10. OneBest(z)
  <2> SUFFICES ASSUME NEW i \in DOMAIN z
      PROVE  \E j \in DOMAIN z : /\ z[j].best /\ z[j].prefix = z[i].prefix
                                 /\ \A k \in DOMAIN z : z[k].best /\ z[k].prefix = z[i].prefix => k = j
    BY DEF OneBest
  <2>1. chosen[i] \in DOMAIN routes /\ z[chosen[i]].prefix = z[i].prefix
    BY <1>5, <1>8, <1>9
  <2>2. chosen[chosen[i]] = chosen[i]
    BY <1>4, <1>5, <1>9
  <2>3. \A k \in DOMAIN z : z[k].best /\ z[k].prefix = z[i].prefix => k = chosen[i]
    BY <1>4, <1>8, <1>9
  <2>4. z[chosen[i]].best
    BY <1>8, <2>1, <2>2
  <2> QED BY <1>9, <2>1, <2>3, <2>4
<1>11. ASSUME NEW i \in DOMAIN routes, Bests(routes) = {i}, OnePrefix(routes) PROVE Bests(z) = {i}
  <2>1. \A k \in DOMAIN z : (z[k].best => k = i) /\ (k = i => z[k].best)
    BY <1>7, <1>8, <1>9, <1>11
  <2>2. \A k : k \in Bests(z) <=> k = i
    BY <1>9, <2>1 DEF Bests
  <2> QED BY <2>2
<1> QED BY <1>8, <1>9, <1>10, <1>11 DEF z

\* The entries of a node on the map: the first one is selected, and their AS
\* paths differ.
LEMMA MappedOnce ==
    ASSUME NEW routes \in Seq(Route)
    PROVE  /\ NodeASPaths(routes) \in Seq(MapEntry)
           /\ NodeASPaths(routes) # <<>> => Bests(NodeASPaths(routes)) = {1}
           /\ Seqs!IsInjective([k \in DOMAIN NodeASPaths(routes) |-> NodeASPaths(routes)[k].path])
           /\ HasRouteASPath(routes) =>
                 /\ NodeASPaths(routes) # <<>>
                 /\ NodeASPaths(routes)[1].path = BestRoute(routes).path
                 /\ NodeASPaths(routes)[1].prefix = BestRoute(routes).prefix
<1> DEFINE sorted == SortBestFirst(routes)
           kept == MapPaths(sorted)
           n == Limited(Cardinality(kept))
           z == NodeASPaths(routes)
<1>1. sorted \in Seq(Route) /\ DOMAIN sorted = DOMAIN routes
  BY SortRearranges
<1> HIDE DEF sorted
<1>2. /\ kept \in SUBSET (1 .. Len(sorted)) /\ Len(sorted) \in Nat
      /\ \A i \in kept : sorted[i].path # <<>> /\ \A j \in 1 .. i - 1 : sorted[j].path # sorted[i].path
  BY <1>1 DEF MapPaths
<1>3. 1 \in DOMAIN sorted /\ sorted[1].path # <<>> => 1 \in kept
  BY DEF MapPaths
<1> HIDE DEF kept
<1>4. /\ IsFiniteSet(kept) /\ Cardinality(kept) \in Nat
      /\ \A k \in 1 .. Cardinality(kept) : Place(kept, k) \in kept /\ Rank(kept, Place(kept, k)) = k
  BY <1>2, PlacesAreRanked
<1>5. n \in 0 .. Cardinality(kept) /\ n \in Nat /\ (Cardinality(kept) > 0 => n > 0)
  BY <1>4, RouteAssumption DEF Limited
<1>6. z = [k \in 1 .. n |-> EntryOf(sorted[Place(kept, k)], k = 1)]
  BY DEF NodeASPaths, sorted, kept
<1> HIDE DEF n, z
<1>7. DOMAIN z = 1 .. n /\ \A k \in 1 .. n : /\ z[k].best = (k = 1)
                                             /\ z[k].path = sorted[Place(kept, k)].path
                                             /\ z[k].prefix = sorted[Place(kept, k)].prefix
  BY <1>6 DEF EntryOf
<1>8. \A k \in 1 .. n : k \in 1 .. Cardinality(kept)
  BY <1>4, <1>5
<1>9. z # <<>> => n > 0
  BY <1>5, <1>6
<1>14. z \in Seq(MapEntry)
  <2>1. ASSUME NEW k \in 1 .. n PROVE z[k] \in MapEntry
    <3>4. Place(kept, k) \in 1 .. Len(sorted)
      BY <1>2, <1>4, <1>8
    <3>5. \A i \in 1 .. Len(sorted) : sorted[i] \in Route
      BY <1>1
    <3>1. sorted[Place(kept, k)] \in Route /\ (k = 1) \in BOOLEAN
      BY <3>4, <3>5
    <3>2. \A r \in Route, b \in BOOLEAN : [prefix |-> r.prefix, path |-> r.path, best |-> b] \in MapEntry
      BY DEF Route, MapEntry
    <3>3. z[k] = [prefix |-> sorted[Place(kept, k)].prefix, path |-> sorted[Place(kept, k)].path, best |-> (k = 1)]
      BY <1>6 DEF EntryOf
    <3> QED BY <3>1, <3>2, <3>3
  <2>2. z = [k \in 1 .. n |-> z[k]]
    BY <1>6, <1>7
  <2>3. z \in [1 .. n -> MapEntry]
    BY <2>1, <2>2
  <2> QED BY <1>5, <2>3, FunctionIsSequence
<1>10. ASSUME z # <<>> PROVE Bests(z) = {1}
  <2>1. 1 \in 1 .. n
    BY <1>5, <1>9, <1>10
  <2>2. \A k : k \in Bests(z) <=> k = 1
    BY <1>7, <2>1 DEF Bests
  <2> QED BY <2>2
<1>11. ASSUME NEW k \in 1 .. n, NEW l \in 1 .. n, z[k].path = z[l].path PROVE k = l
  <2> DEFINE a == Place(kept, k)
             b == Place(kept, l)
  <2>1. a \in kept /\ b \in kept /\ Rank(kept, a) = k /\ Rank(kept, b) = l /\ sorted[a].path = sorted[b].path
    BY <1>4, <1>7, <1>8, <1>11
  <2> HIDE DEF a, b
  <2>2. a \in 1 .. Len(sorted) /\ b \in 1 .. Len(sorted)
    BY <1>2, <2>1
  <2>3. ~(a < b)
    <3>1. a < b => a \in 1 .. b - 1
      BY <2>2
    <3> QED BY <1>2, <2>1, <3>1
  <2>4. ~(b < a)
    <3>1. b < a => b \in 1 .. a - 1
      BY <2>2
    <3> QED BY <1>2, <2>1, <3>1
  <2>5. a = b
    BY <2>2, <2>3, <2>4
  <2> QED BY <2>1, <2>5
<1>12. Seqs!IsInjective([k \in DOMAIN z |-> z[k].path])
  BY <1>7, <1>11 DEF Seqs!IsInjective
<1>13. ASSUME HasRouteASPath(routes)
       PROVE  z # <<>> /\ z[1].path = BestRoute(routes).path /\ z[1].prefix = BestRoute(routes).prefix
  <2>1. routes # <<>> /\ BestRoute(routes) = sorted[1] /\ sorted[1].path # <<>>
    BY <1>13 DEF HasRouteASPath, BestRoute, sorted
  <2>2. 1 \in kept
    BY <1>1, <1>3, <2>1, NonEmpty
  <2>3. Place(kept, 1) = 1
    <3>1. \A j \in kept : 1 <= j
      BY <1>2
    <3> QED BY <1>2, <2>2, <3>1, FirstPlace
  <2>4. Cardinality(kept) > 0
    BY <1>4, <2>2, FS_EmptySet
  <2>5. 1 \in 1 .. n
    BY <1>5, <2>4
  <2>6. z # <<>>
    <3>1. 1 \in DOMAIN z
      BY <1>7, <2>5
    <3> QED BY <3>1
  <2> QED BY <1>7, <2>1, <2>3, <2>5, <2>6
<1> QED BY <1>10, <1>12, <1>13, <1>14 DEF z

\* A neighbor's default route is one of its own, and the selected one when that
\* is its own.
LEMMA DefaultEntryIsOwn ==
    ASSUME NEW n, NEW defaults, Listed(n, defaults), NEW b
    PROVE  /\ \/ DefaultEntry(defaults, b) = None
              \/ \E i \in DOMAIN defaults : DefaultEntry(defaults, b) = defaults[i] /\ defaults[i].neighbor = b
           /\ \A i \in Bests(defaults) : defaults[i].neighbor = b => DefaultEntry(defaults, b) = defaults[i]
<1> DEFINE own == {i \in DOMAIN defaults : defaults[i].neighbor = b}
           P == Pick(defaults, own)
<1>1. defaults \in Seq(Path) /\ own \in SUBSET DOMAIN defaults /\ \A i \in own : defaults[i].neighbor = b
  BY DEF Listed
<1>2. /\ own = {} => DefaultEntry(defaults, b) = None
      /\ own # {} => DefaultEntry(defaults, b) = SortBestFirst(P)[1]
  BY DEF DefaultEntry
<1>3. \A i \in DOMAIN defaults : defaults[i].neighbor = b => i \in own
  OBVIOUS
<1> HIDE DEF own
<1>4. /\ P \in Seq(Path) /\ \A k \in DOMAIN P : Place(own, k) \in own /\ P[k] = defaults[Place(own, k)]
      /\ \A i \in own : \E k \in DOMAIN P : Place(own, k) = i
  BY <1>1, PickedElements
<1> HIDE DEF P
<1>5. own # {} => P # <<>>
  <2>1. own # {} => DOMAIN P # {}
    BY <1>4
  <2> QED BY <1>4, <2>1
<1>6. ASSUME own # {} PROVE \E i \in DOMAIN defaults : SortBestFirst(P)[1] = defaults[i] /\ defaults[i].neighbor = b
  <2>1. \E k \in DOMAIN P : SortBestFirst(P)[1] = P[k]
    <3>1. P # <<>> /\ 1 \in DOMAIN P
      BY <1>4, <1>5, <1>6, NonEmpty
    <3>2. Bests(P) \subseteq DOMAIN P
      BY DEF Bests
    <3> QED BY <1>4, <3>1, <3>2, SortPutsBestFirst
  <2> QED BY <1>1, <1>4, <2>1
<1>7. ASSUME NEW i \in Bests(defaults), defaults[i].neighbor = b PROVE DefaultEntry(defaults, b) = defaults[i]
  <2>1. i \in DOMAIN defaults /\ i \in own /\ defaults[i].best
    BY <1>3, <1>7 DEF Bests
  <2>2. PICK k \in DOMAIN P : Place(own, k) = i
    BY <1>4, <2>1
  <2>3. k \in Bests(P)
    BY <1>4, <2>1, <2>2 DEF Bests
  <2>4. own # {} /\ P # <<>>
    BY <1>5, <2>1
  <2>5. PICK l \in Bests(P) : SortBestFirst(P)[1] = P[l]
    BY <1>4, <2>3, <2>4, SortPutsBestFirst
  <2>6. l \in DOMAIN P /\ P[l].best /\ P[l] = defaults[Place(own, l)] /\ Place(own, l) \in DOMAIN defaults
    BY <1>1, <1>4, <2>5 DEF Bests
  <2>7. Place(own, l) \in Bests(defaults)
    BY <2>6 DEF Bests
  <2>8. \E m \in DOMAIN defaults : Bests(defaults) = {m}
    <3>1. defaults # <<>>
      BY <1>1, <2>1
    <3> QED BY <3>1 DEF Listed
  <2>9. Place(own, l) = i
    BY <2>7, <2>8
  <2> QED BY <1>2, <2>4, <2>5, <2>6, <2>9
<1> QED BY <1>2, <1>6, <1>7

\* A route made over a default route is marked only as its entry is.
LEMMA MadeRouteIsRoute ==
    ASSUME NEW b \in Neighbors, NEW e, e = None \/ e \in Path
    PROVE  /\ SynthesizeDefaultRoute(b, e) \in Route
           /\ SynthesizeDefaultRoute(b, e).prefix = "target"
           /\ SynthesizeDefaultRoute(b, e).path = <<LocalAS, DefaultAS[b]>>
           /\ e = None => ~SynthesizeDefaultRoute(b, e).best
           /\ e # None => SynthesizeDefaultRoute(b, e).best = e.best
<1>1. LocalAS \in Nat /\ DefaultAS[b] \in Nat /\ <<LocalAS, DefaultAS[b]>> \in Seq(Nat)
  BY RouteAssumption DEF Neighbors
<1>2. CASE e = None
  BY <1>1, <1>2 DEF SynthesizeDefaultRoute, MadeRoute, Route
<1>3. CASE e # None
  <2>1. e \in Path /\ e.nextHop \in Nat /\ e.med \in Nat /\ e.origin \in Nat /\ e.best \in BOOLEAN
    BY <1>3 DEF Path
  <2>2. RouteOf(e).localPref \in Nat
    <3>1. e.localPref \in Nat \cup {None}
      BY <2>1 DEF Path
    <3> QED BY <3>1 DEF RouteOf
  <2> QED BY <1>1, <1>3, <2>1, <2>2 DEF SynthesizeDefaultRoute, MadeRoute, Route
<1> QED BY <1>2, <1>3

\* The library's sequences count as this module does.
LEMMA CardinalityNamedTwice == \A T : Seqs!Cardinality(T) = Cardinality(T)
BY DEF Seqs!Cardinality, Cardinality

\* The order in which neighbors come out of a map has each of them once.
LEMMA OrderOfNeighbors ==
    ASSUME NEW T, IsFiniteSet(T), NEW order \in Seqs!SetToSeqs(T)
    PROVE  /\ order \in [1 .. Cardinality(T) -> T] /\ Cardinality(T) \in Nat
           /\ \A k, l \in 1 .. Cardinality(T) : order[k] = order[l] => k = l
           /\ \A b \in T : \E k \in 1 .. Cardinality(T) : order[k] = b
<1> DEFINE D == 1 .. Cardinality(T)
<1>1. order \in [D -> T] /\ \A k, l \in D : k # l => order[k] # order[l]
  <2>1. Seqs!SetToSeqs(T) = {f \in [D -> T] : \A k, l \in D : k # l => f[k] # f[l]}
    BY CardinalityNamedTwice DEF Seqs!SetToSeqs
  <2> HIDE DEF D
  <2> QED BY <2>1
<1>2. Cardinality(T) \in Nat
  BY FS_CardinalityType
<1>3. IsFiniteSet(D) /\ Cardinality(D) = Cardinality(T)
  BY <1>2, FS_Interval
<1>4. order \in Injection(D, T)
  BY <1>1 DEF Injection, IsInjective
<1> HIDE DEF D
<1>5. order \in Surjection(D, T)
  BY <1>3, <1>4, FS_Injection
<1>6. \A b \in T : \E k \in D : order[k] = b
  BY <1>5 DEF Surjection
<1> QED BY <1>1, <1>2, <1>6 DEF D

\* The routes made over default routes: the first one is selected, the one the
\* table selected if it did.
LEMMA SynthesizedSelection ==
    ASSUME NEW n, NEW defaults, Listed(n, defaults), DefaultRouteNeighbors(n) # {},
           NEW order \in Seqs!SetToSeqs(DefaultRouteNeighbors(n))
    PROVE  /\ SynthesizedRoutes(order, defaults) \in Seq(Route) /\ SynthesizedRoutes(order, defaults) # <<>>
           /\ OnePrefix(SynthesizedRoutes(order, defaults))
           /\ Bests(SynthesizedRoutes(order, defaults)) = {1}
           /\ \A i \in Bests(defaults) : DefaultAS[defaults[i].neighbor] # 0 =>
                 SynthesizedRoutes(order, defaults)[1].path = <<LocalAS, DefaultAS[defaults[i].neighbor]>>
<1> DEFINE T == DefaultRouteNeighbors(n)
           c == Cardinality(T)
           entry == [k \in 1 .. c |-> DefaultEntry(defaults, order[k])]
           L == [k \in DOMAIN order |-> SynthesizeDefaultRoute(order[k], DefaultEntry(defaults, order[k]))]
           s == SortBestFirst(L)
           R == SynthesizedRoutes(order, defaults)
<1>1. IsFiniteSet(T) /\ T \subseteq Neighbors
  <2>1. IsFiniteSet(Neighbors)
    <3>1. \E m \in Nat : Neighbors = 1 .. m
      BY RouteAssumption DEF Neighbors
    <3> QED BY <3>1, FS_Interval
  <2>2. T \in SUBSET Neighbors
    BY DEF DefaultRouteNeighbors, NeighborsOf
  <2> HIDE DEF T
  <2>3. IsFiniteSet(T)
    BY <2>1, <2>2, FS_Subset
  <2> QED BY <2>2, <2>3
<1>2. /\ order \in [1 .. c -> T] /\ c \in Nat
      /\ \A k, l \in 1 .. c : order[k] = order[l] => k = l
      /\ \A b \in T : \E k \in 1 .. c : order[k] = b
  <2> HIDE DEF T
  <2> QED BY <1>1, OrderOfNeighbors DEF T
<1>3. \A b \in NeighborsOf(n) : DefaultAS[b] # 0 => b \in T
  BY DEF DefaultRouteNeighbors
<1>4. T # {}
  OBVIOUS
<1> HIDE DEF T, c
<1>5. c > 0 /\ 1 \in 1 .. c
  BY <1>2, <1>4
<1>6. \A k \in 1 .. c : /\ order[k] \in Neighbors
                        /\ L[k] = SynthesizeDefaultRoute(order[k], entry[k])
                        /\ \/ entry[k] = None
                           \/ \E i \in DOMAIN defaults : entry[k] = defaults[i] /\ defaults[i].neighbor = order[k]
                        /\ \A i \in Bests(defaults) : defaults[i].neighbor = order[k] => entry[k] = defaults[i]
  BY <1>1, <1>2, DefaultEntryIsOwn
<1>7. DOMAIN L = 1 .. c /\ L = [k \in 1 .. c |-> L[k]]
  BY <1>2
<1>8. defaults \in Seq(Path) /\ \A i \in DOMAIN defaults : defaults[i] \in Path /\ defaults[i].neighbor \in NeighborsOf(n)
  BY DEF Listed
<1>9. \A i \in DOMAIN defaults : defaults[i] # None
  BY <1>8, RouteAssumption
<1>10. R = [s EXCEPT ![1].best = TRUE]
  BY DEF SynthesizedRoutes
<1> HIDE DEF L, entry, R
<1>11. ASSUME NEW k \in 1 .. c
       PROVE  /\ L[k] \in Route /\ L[k].prefix = "target" /\ L[k].path = <<LocalAS, DefaultAS[order[k]]>>
              /\ entry[k] = None => ~L[k].best
              /\ entry[k] # None => L[k].best = entry[k].best
  <2>1. entry[k] = None \/ entry[k] \in Path
    BY <1>6, <1>8
  <2> QED BY <1>6, <2>1, MadeRouteIsRoute
<1>12. L \in Seq(Route) /\ L # <<>>
  <2>1. L \in [1 .. c -> Route]
    BY <1>7, <1>11
  <2>2. L \in Seq(Route)
    BY <1>2, <2>1, FunctionIsSequence
  <2>3. 1 \in DOMAIN L
    BY <1>5, <1>7
  <2> QED BY <2>2, <2>3
<1>13. ASSUME NEW k \in 1 .. c, L[k].best
       PROVE  \E i \in Bests(defaults) : defaults[i].neighbor = order[k]
  <2>1. entry[k] # None /\ entry[k].best
    BY <1>11, <1>13
  <2>2. PICK i \in DOMAIN defaults : entry[k] = defaults[i] /\ defaults[i].neighbor = order[k]
    BY <1>6, <2>1
  <2> QED BY <2>1, <2>2 DEF Bests
<1>14. \A i, j \in Bests(defaults) : i = j
  <2>1. defaults # <<>> => \E i \in DOMAIN defaults : Bests(defaults) = {i}
    BY DEF Listed
  <2>2. defaults = <<>> => Bests(defaults) = {}
    BY DEF Bests
  <2> QED BY <2>1, <2>2
<1>15. ASSUME NEW k \in 1 .. c, NEW l \in 1 .. c, L[k].best, L[l].best PROVE k = l
  <2>1. order[k] = order[l]
    BY <1>13, <1>14, <1>15
  <2> QED BY <1>2, <2>1
<1>16. s \in Seq(Route) /\ DOMAIN s = 1 .. c
  BY <1>7, <1>12, SortRearranges
<1>17. PICK f \in [1 .. c -> 1 .. c] :
        /\ \A k \in 1 .. c : s[k] = L[f[k]]
        /\ \A k, l \in 1 .. c : f[k] = f[l] => k = l
  <2>1. \E f \in [DOMAIN L -> DOMAIN L] :
          /\ \A k \in DOMAIN L : SortBestFirst(L)[k] = L[f[k]]
          /\ \A k, l \in DOMAIN L : f[k] = f[l] => k = l
    BY <1>12, SortRearranges
  <2>2. DOMAIN L = 1 .. c
    BY <1>7
  <2> QED BY <2>1, <2>2
<1>18. Bests(L) # {} => \E j \in Bests(L) : s[1] = L[j]
  BY <1>12, SortPutsBestFirst
<1> HIDE DEF s
<1>19. ASSUME NEW k \in 1 .. c, s[k].best PROVE k = 1
  <2>1. f[k] \in 1 .. c /\ L[f[k]].best /\ f[1] \in 1 .. c /\ s[1] = L[f[1]]
    BY <1>5, <1>17, <1>19
  <2>2. f[k] \in Bests(L)
    BY <1>7, <2>1 DEF Bests
  <2>3. L[f[1]].best
    BY <1>18, <2>1, <2>2 DEF Bests
  <2> QED BY <1>5, <1>15, <1>17, <2>1, <2>3
<1>20. /\ DOMAIN R = 1 .. c
       /\ R[1] = [s[1] EXCEPT !.best = TRUE]
       /\ \A k \in 1 .. c : k # 1 => R[k] = s[k]
  BY <1>5, <1>10, <1>16
<1>21. \A k \in 1 .. c : s[k] \in Route
  <2>1. \A k \in DOMAIN s : s[k] \in Route
    <3>1. \A S, q : q \in Seq(S) => \A k \in DOMAIN q : q[k] \in S
      OBVIOUS
    <3> QED BY <1>16, <3>1
  <2> QED BY <1>16, <2>1
<1>22. R[1] \in Route /\ R[1].best /\ R[1].prefix = s[1].prefix /\ R[1].path = s[1].path
  BY <1>5, <1>20, <1>21, MarkedRoute
<1>23. \A k \in 1 .. c : R[k] \in Route /\ R[k].prefix = "target"
  <2>1. \A k \in 1 .. c : s[k].prefix = "target"
    BY <1>11, <1>17
  <2> QED BY <1>5, <1>20, <1>21, <1>22, <2>1
<1>24. R \in Seq(Route) /\ R # <<>>
  <2>1. R = [k \in 1 .. c |-> R[k]]
    BY <1>10, <1>16, <1>20
  <2>2. R \in [1 .. c -> Route]
    BY <1>23, <2>1
  <2>3. R \in Seq(Route) /\ 1 \in DOMAIN R
    BY <1>2, <1>5, <1>20, <2>2, FunctionIsSequence
  <2> QED BY <2>3
<1>25. Bests(R) = {1}
  <2>1. \A k : k \in Bests(R) <=> k = 1
    BY <1>5, <1>19, <1>20, <1>22 DEF Bests
  <2> QED BY <2>1
<1>26. OnePrefix(R)
  BY <1>20, <1>23 DEF OnePrefix
<1>27. ASSUME NEW i \in Bests(defaults), DefaultAS[defaults[i].neighbor] # 0
       PROVE  R[1].path = <<LocalAS, DefaultAS[defaults[i].neighbor]>>
  <2>1. i \in DOMAIN defaults /\ defaults[i].best
    BY DEF Bests
  <2>2. PICK k \in 1 .. c : order[k] = defaults[i].neighbor
    BY <1>2, <1>3, <1>8, <1>27, <2>1
  <2>3. entry[k] = defaults[i] /\ entry[k] # None
    BY <1>6, <1>9, <2>1, <2>2
  <2>4. L[k].best
    BY <1>11, <2>1, <2>3
  <2>5. k \in Bests(L)
    BY <1>7, <2>4 DEF Bests
  <2>6. PICK j \in Bests(L) : s[1] = L[j]
    BY <1>18, <2>5
  <2>7. j = k
    BY <1>7, <1>15, <2>4, <2>6 DEF Bests
  <2> QED BY <1>11, <1>22, <2>2, <2>6, <2>7
<1> QED BY <1>24, <1>25, <1>26, <1>27 DEF R

-----------------------------------------------------------------------------
\* What a filter of the decision process leaves is left by the comparison too.
LEMMA NothingBeatsIsUndominated ==
    ASSUME NEW S \in SUBSET Path, NEW e \in S,
           \A f \in S : ~MorePreferred(EntryPreference(f), EntryPreference(e))
    PROVE  e \in Undominated(S)
<1> DEFINE P(f) == EntryPreference(f)
           local    == {a \in S : \A f \in S : LocalPrefOf(f) <= LocalPrefOf(a)}
           short    == {a \in local : \A f \in local : Len(a.path) <= Len(f.path)}
           origin   == {a \in short : \A f \in short : a.origin <= f.origin}
           med      == {a \in origin : \A f \in origin : a.med <= f.med}
           external == IF \E a \in med : a.clusters = 0 THEN {a \in med : a.clusters = 0} ELSE med
           cluster  == {a \in external : \A f \in external : a.clusters <= f.clusters}
<1>1. \A f \in S : /\ LocalPrefOf(f) \in Int /\ Len(f.path) \in Int /\ f.origin \in Int /\ f.med \in Int
                   /\ f.clusters \in Nat /\ f.since \in Int
  <2> SUFFICES ASSUME NEW f \in S
      PROVE  /\ LocalPrefOf(f) \in Int /\ Len(f.path) \in Int /\ f.origin \in Int /\ f.med \in Int
             /\ f.clusters \in Nat /\ f.since \in Int
    OBVIOUS
  <2>1. f \in Path
    OBVIOUS
  <2>2. f.localPref \in Nat \cup {None} /\ Len(f.path) \in Nat /\ f.origin \in Nat /\ f.med \in Nat
        /\ f.clusters \in Nat /\ f.since \in Nat
    BY <2>1 DEF Path
  <2> QED BY <2>2 DEF LocalPrefOf
<1>2. \A f \in S : /\ DOMAIN P(f) = 1 .. 9
                   /\ P(f)[1] = -LocalPrefOf(f) /\ P(f)[2] = Len(f.path) /\ P(f)[3] = f.origin
                   /\ P(f)[4] = f.med /\ P(f)[5] = (IF f.clusters > 0 THEN 1 ELSE 0)
                   /\ P(f)[6] = f.clusters /\ P(f)[7] = f.since
  <2> SUFFICES ASSUME NEW f \in S
      PROVE  /\ DOMAIN P(f) = 1 .. 9
             /\ P(f)[1] = -LocalPrefOf(f) /\ P(f)[2] = Len(f.path) /\ P(f)[3] = f.origin
             /\ P(f)[4] = f.med /\ P(f)[5] = (IF f.clusters > 0 THEN 1 ELSE 0)
             /\ P(f)[6] = f.clusters /\ P(f)[7] = f.since
    OBVIOUS
  <2>1. (IF f.localPref = None THEN -100 ELSE -f.localPref) = -LocalPrefOf(f)
    BY DEF LocalPrefOf
  <2> QED BY <2>1 DEF EntryPreference
<1> HIDE DEF P
<1>3. \A f \in S : ~\E i \in 1 .. 9 : P(f)[i] < P(e)[i] /\ \A j \in 1 .. i - 1 : P(f)[j] = P(e)[j]
  BY <1>2 DEF MorePreferred, P
<1>4. e \in local
  <2>1. ASSUME NEW f \in S PROVE LocalPrefOf(f) <= LocalPrefOf(e)
    <3>1. ~(P(f)[1] < P(e)[1])
      BY <1>3
    <3> QED BY <1>1, <1>2, <3>1
  <2> QED BY <2>1
<1>5. \A f \in local : f \in S /\ P(f)[1] = P(e)[1]
  <2> SUFFICES ASSUME NEW f \in local PROVE f \in S /\ P(f)[1] = P(e)[1]
    OBVIOUS
  <2>1. f \in S /\ LocalPrefOf(e) <= LocalPrefOf(f) /\ LocalPrefOf(f) <= LocalPrefOf(e)
    BY <1>4
  <2>2. LocalPrefOf(e) = LocalPrefOf(f)
    BY <1>1, <2>1
  <2> QED BY <1>2, <2>1, <2>2
<1> HIDE DEF local
<1>6. e \in short
  <2>1. ASSUME NEW f \in local PROVE Len(e.path) <= Len(f.path)
    <3>1. ~(P(f)[2] < P(e)[2])
      BY <1>3, <1>5
    <3> QED BY <1>1, <1>2, <1>5, <3>1
  <2> QED BY <1>4, <2>1
<1>7. \A f \in short : f \in S /\ P(f)[1] = P(e)[1] /\ P(f)[2] = P(e)[2]
  <2> SUFFICES ASSUME NEW f \in short PROVE f \in S /\ P(f)[1] = P(e)[1] /\ P(f)[2] = P(e)[2]
    OBVIOUS
  <2>1. f \in local /\ Len(e.path) <= Len(f.path) /\ Len(f.path) <= Len(e.path)
    BY <1>6
  <2> QED BY <1>1, <1>2, <1>5, <2>1
<1> HIDE DEF short
<1>8. e \in origin
  <2>1. ASSUME NEW f \in short PROVE e.origin <= f.origin
    <3>1. ~(P(f)[3] < P(e)[3])
      BY <1>3, <1>7
    <3> QED BY <1>1, <1>2, <1>7, <3>1
  <2> QED BY <1>6, <2>1
<1>9. \A f \in origin : f \in S /\ P(f)[1] = P(e)[1] /\ P(f)[2] = P(e)[2] /\ P(f)[3] = P(e)[3]
  <2> SUFFICES ASSUME NEW f \in origin PROVE f \in S /\ P(f)[1] = P(e)[1] /\ P(f)[2] = P(e)[2] /\ P(f)[3] = P(e)[3]
    OBVIOUS
  <2>1. f \in short /\ e.origin <= f.origin /\ f.origin <= e.origin
    BY <1>8
  <2> QED BY <1>1, <1>2, <1>7, <2>1
<1> HIDE DEF origin
<1>10. e \in med
  <2>1. ASSUME NEW f \in origin PROVE e.med <= f.med
    <3>1. ~(P(f)[4] < P(e)[4])
      BY <1>3, <1>9
    <3> QED BY <1>1, <1>2, <1>9, <3>1
  <2> QED BY <1>8, <2>1
<1>11. \A f \in med : f \in S /\ \A j \in 1 .. 4 : P(f)[j] = P(e)[j]
  <2> SUFFICES ASSUME NEW f \in med PROVE f \in S /\ \A j \in 1 .. 4 : P(f)[j] = P(e)[j]
    OBVIOUS
  <2>1. f \in origin /\ e.med <= f.med /\ f.med <= e.med
    BY <1>10
  <2>2. f \in S /\ P(f)[1] = P(e)[1] /\ P(f)[2] = P(e)[2] /\ P(f)[3] = P(e)[3] /\ P(f)[4] = P(e)[4]
    BY <1>1, <1>2, <1>9, <2>1
  <2> QED BY <2>2
<1> HIDE DEF med
<1>12. e \in external
  <2>1. ASSUME NEW f \in med, f.clusters = 0 PROVE e.clusters = 0
    <3>1. f \in S /\ ~(P(f)[5] < P(e)[5])
      BY <1>3, <1>11
    <3> QED BY <1>1, <1>2, <2>1, <3>1
  <2> QED BY <1>10, <2>1
<1>13. \A f \in external : f \in med /\ f \in S /\ \A j \in 1 .. 5 : P(f)[j] = P(e)[j]
  <2> SUFFICES ASSUME NEW f \in external PROVE f \in med /\ f \in S /\ \A j \in 1 .. 5 : P(f)[j] = P(e)[j]
    OBVIOUS
  <2>1. f \in med /\ ((f.clusters = 0 /\ e.clusters = 0) \/ (f.clusters # 0 /\ e.clusters # 0))
    BY <1>10, <1>12
  <2>2. f \in S /\ P(f)[5] = P(e)[5]
    BY <1>1, <1>2, <1>11, <2>1
  <2>3. \A j \in 1 .. 5 : j \in 1 .. 4 \/ j = 5
    OBVIOUS
  <2> QED BY <1>11, <2>1, <2>2, <2>3
<1> HIDE DEF external
<1>14. e \in cluster
  <2>1. ASSUME NEW f \in external PROVE e.clusters <= f.clusters
    <3>1. ~(P(f)[6] < P(e)[6])
      BY <1>3, <1>13
    <3> QED BY <1>1, <1>2, <1>13, <3>1
  <2> QED BY <1>12, <2>1
<1>15. \A f \in cluster : f \in S /\ \A j \in 1 .. 6 : P(f)[j] = P(e)[j]
  <2> SUFFICES ASSUME NEW f \in cluster PROVE f \in S /\ \A j \in 1 .. 6 : P(f)[j] = P(e)[j]
    OBVIOUS
  <2>1. f \in external /\ e.clusters <= f.clusters /\ f.clusters <= e.clusters
    BY <1>14
  <2>2. f \in S /\ P(f)[6] = P(e)[6]
    BY <1>1, <1>2, <1>13, <2>1
  <2>3. \A j \in 1 .. 6 : j \in 1 .. 5 \/ j = 6
    OBVIOUS
  <2> QED BY <1>13, <2>1, <2>2, <2>3
<1> HIDE DEF cluster
<1>16. \A f \in cluster : e.since <= f.since
  <2> SUFFICES ASSUME NEW f \in cluster PROVE e.since <= f.since
    OBVIOUS
  <2>1. ~(P(f)[7] < P(e)[7])
    BY <1>3, <1>15
  <2> QED BY <1>1, <1>2, <1>15, <2>1
<1>17. Undominated(S) = {a \in cluster : \A f \in cluster : a.since <= f.since}
  BY DEF Undominated, cluster, external, med, origin, short, local
<1> QED BY <1>14, <1>16, <1>17

-----------------------------------------------------------------------------
\* What the server makes of a command's routes, and of an agent's.
CommandRoutes(heard) == SortBestFirst(EnsureBestAmongRoutes(heard))

AgentRoutes(heard) == CommandRoutes(ApplyOriginASPath(AgentAS, RoutesOf(EnsureBestAmongEntries(heard))))

\* Where a reader's routes come from.
FromTable(n, routes, heard, kind) == kind = "sent" /\ Listed(n, heard) /\ routes = RoutesOf(heard)

FromDefaults(n, routes, heard, kind) ==
    /\ kind = "made" /\ Listed(n, heard) /\ DefaultRouteNeighbors(n) # {}
    /\ \E order \in Seqs!SetToSeqs(DefaultRouteNeighbors(n)) : routes = SynthesizedRoutes(order, heard)

FromAgent(n, routes, heard, kind) ==
    kind = "sent" /\ n \in AgentNodes /\ heard \in AgentTables /\ routes = AgentRoutes(heard)

FromCommand(n, routes, heard, kind) ==
    kind = "printed" /\ heard \in Printed \cup {<<>>} /\ routes = CommandRoutes(heard)

FromNothing(n, routes, heard, kind) == kind = "none" /\ heard = <<>> /\ routes = <<>>

Source(n, routes, heard, kind) ==
    \/ FromTable(n, routes, heard, kind)
    \/ FromDefaults(n, routes, heard, kind)
    \/ FromAgent(n, routes, heard, kind)
    \/ FromCommand(n, routes, heard, kind)
    \/ FromNothing(n, routes, heard, kind)

\* A lone mark among routes for one prefix.
LEMMA OneMark ==
    ASSUME NEW s, OnePrefix(s), NEW k \in DOMAIN s, Bests(s) = {k}
    PROVE  OneBest(s)
<1>1. s[k].best /\ \A l \in DOMAIN s : s[l].best => l = k
  BY DEF Bests
<1> QED BY <1>1 DEF OneBest, OnePrefix

\* Sorting keeps a lone mark on its route.
LEMMA SortKeepsTheMark ==
    ASSUME NEW S, NEW s \in Seq(S), NEW k \in DOMAIN s, Bests(s) = {k}
    PROVE  \E l \in DOMAIN s : Bests(SortBestFirst(s)) = {l} /\ SortBestFirst(s)[l] = s[k]
<1> DEFINE z == SortBestFirst(s)
<1>1. DOMAIN z = DOMAIN s
  BY SortRearranges
<1>2. PICK f \in [DOMAIN s -> DOMAIN s] :
        /\ \A i \in DOMAIN s : z[i] = s[f[i]]
        /\ \A i, l \in DOMAIN s : f[i] = f[l] => i = l
        /\ \A i \in DOMAIN s : \E l \in DOMAIN s : f[l] = i
  BY SortRearranges
<1> HIDE DEF z
<1>3. PICK l \in DOMAIN s : f[l] = k
  BY <1>2
<1>4. \A i \in DOMAIN s : (s[i].best => i = k) /\ (i = k => s[i].best)
  BY DEF Bests
<1>5. \A i \in DOMAIN s : (z[i].best => i = l) /\ (i = l => z[i].best)
  <2> SUFFICES ASSUME NEW i \in DOMAIN s PROVE (z[i].best => i = l) /\ (i = l => z[i].best)
    OBVIOUS
  <2>1. f[i] \in DOMAIN s /\ z[i] = s[f[i]]
    BY <1>2
  <2> QED BY <1>2, <1>3, <1>4, <2>1
<1>6. \A i : i \in Bests(z) <=> i = l
  BY <1>1, <1>5 DEF Bests
<1>7. Bests(z) = {l}
  BY <1>6
<1> QED BY <1>2, <1>3, <1>7 DEF z

\* An agent's routes: sorted, the one its own decision process left first.
LEMMA AgentSelects ==
    ASSUME NEW heard \in AgentTables
    PROVE  /\ heard \in Seq(Path) /\ AgentRoutes(heard) \in Seq(Route)
           /\ DOMAIN AgentRoutes(heard) = DOMAIN heard /\ OneBest(AgentRoutes(heard))
           /\ heard # <<>> =>
                 \E i \in DOMAIN heard, l \in DOMAIN heard :
                     /\ \A j \in DOMAIN heard : ~MorePreferred(EntryPreference(heard[j]), EntryPreference(heard[i]))
                     /\ Bests(AgentRoutes(heard)) = {l}
                     /\ AgentRoutes(heard)[l].nextHop = heard[i].nextHop
                     /\ AgentRoutes(heard)[l].path \in {heard[i].path, <<AgentAS>> \o heard[i].path}
<1> DEFINE marked == EnsureBestAmongEntries(heard)
           made == RoutesOf(marked)
           led == ApplyOriginASPath(AgentAS, made)
           chosen == EnsureBestAmongRoutes(led)
           z == SortBestFirst(chosen)
<1>1. AgentAS \in Nat /\ heard \in Seq(Path) /\ OnePrefix(heard)
  <2>1. heard \in Seq({p \in Path : p.neighbor \notin DOMAIN OwnerOf})
    BY RouteAssumption
  <2>2. heard \in Seq(Path)
    BY <2>1
  <2> QED BY <2>2, RouteAssumption DEF OnePrefix
<1>2. AgentRoutes(heard) = z
  BY DEF AgentRoutes, CommandRoutes
<1>3. /\ marked \in Seq(Path) /\ DOMAIN marked = DOMAIN heard
      /\ \A i \in DOMAIN heard : \E b \in BOOLEAN : marked[i] = [heard[i] EXCEPT !.best = b]
      /\ heard # <<>> => \E i \in DOMAIN heard :
            /\ Bests(marked) = {i}
            /\ \A j \in DOMAIN heard : ~MorePreferred(EntryPreference(heard[j]), EntryPreference(heard[i]))
  BY <1>1, EntriesSelected
<1> HIDE DEF marked
<1>4. \A i \in DOMAIN heard : heard[i] \in Path
  BY <1>1
<1>5. \A i \in DOMAIN heard : /\ marked[i].prefix = heard[i].prefix
                              /\ marked[i].path = heard[i].path /\ marked[i].nextHop = heard[i].nextHop
  <2> SUFFICES ASSUME NEW i \in DOMAIN heard
      PROVE  marked[i].prefix = heard[i].prefix /\ marked[i].path = heard[i].path /\ marked[i].nextHop = heard[i].nextHop
    OBVIOUS
  <2>1. PICK b \in BOOLEAN : marked[i] = [heard[i] EXCEPT !.best = b]
    BY <1>3
  <2>2. heard[i] \in Path
    BY <1>4
  <2> QED BY <2>1, <2>2 DEF Path
<1>6. OnePrefix(marked)
  BY <1>1, <1>3, <1>5 DEF OnePrefix
<1>7. /\ made \in Seq(Route) /\ DOMAIN made = DOMAIN heard /\ OnePrefix(made)
      /\ \A i \in DOMAIN heard : Bests(marked) = {i} =>
            \E k \in DOMAIN heard : Bests(made) = {k} /\ made[k].path = marked[i].path /\ made[k].nextHop = marked[i].nextHop
  BY <1>3, <1>6, RoutesOfEntries
<1> HIDE DEF made
<1>8. /\ led \in Seq(Route) /\ DOMAIN led = DOMAIN heard /\ OnePrefix(led) /\ Bests(led) = Bests(made)
      /\ \A k \in DOMAIN heard : led[k].nextHop = made[k].nextHop /\ led[k].path \in {made[k].path, <<AgentAS>> \o made[k].path}
  <2>1. /\ led \in Seq(Route) /\ DOMAIN led = DOMAIN made
        /\ \A k \in DOMAIN made :
              /\ led[k].nextHop = made[k].nextHop
              /\ led[k].path = IF made[k].path # <<>> /\ Head(made[k].path) = AgentAS THEN made[k].path
                              ELSE <<AgentAS>> \o made[k].path
    BY <1>1, <1>7, LedRoutes
  <2>2. OnePrefix(led) /\ Bests(led) = Bests(made)
    BY <1>1, <1>7, LedKeepsMarks
  <2> HIDE DEF led
  <2> QED BY <1>7, <2>1, <2>2
<1> HIDE DEF led
<1>9. /\ chosen \in Seq(Route) /\ DOMAIN chosen = DOMAIN heard /\ OneBest(chosen)
      /\ \A k \in DOMAIN heard : chosen[k].path = led[k].path /\ chosen[k].nextHop = led[k].nextHop
      /\ \A k \in DOMAIN heard : Bests(led) = {k} => Bests(chosen) = {k}
  BY <1>8, ReportSelected
<1> HIDE DEF chosen
<1>10. z \in Seq(Route) /\ DOMAIN z = DOMAIN heard /\ OneBest(z)
  BY <1>9, SortRearranges, SortKeepsOneBest
<1>11. \A k \in DOMAIN heard : Bests(chosen) = {k} => \E l \in DOMAIN heard : Bests(z) = {l} /\ z[l] = chosen[k]
  BY <1>9, SortKeepsTheMark
<1> HIDE DEF z
<1>12. ASSUME heard # <<>>
       PROVE  \E i \in DOMAIN heard, l \in DOMAIN heard :
                     /\ \A j \in DOMAIN heard : ~MorePreferred(EntryPreference(heard[j]), EntryPreference(heard[i]))
                     /\ Bests(z) = {l} /\ z[l].nextHop = heard[i].nextHop
                     /\ z[l].path \in {heard[i].path, <<AgentAS>> \o heard[i].path}
  <2>1. PICK i \in DOMAIN heard :
            /\ Bests(marked) = {i}
            /\ \A j \in DOMAIN heard : ~MorePreferred(EntryPreference(heard[j]), EntryPreference(heard[i]))
    BY <1>3, <1>12
  <2>2. PICK k \in DOMAIN heard : Bests(made) = {k} /\ made[k].path = heard[i].path /\ made[k].nextHop = heard[i].nextHop
    BY <1>5, <1>7, <2>1
  <2>3. /\ Bests(chosen) = {k} /\ chosen[k].nextHop = heard[i].nextHop
        /\ chosen[k].path \in {heard[i].path, <<AgentAS>> \o heard[i].path}
    BY <1>8, <1>9, <2>2
  <2>4. PICK l \in DOMAIN heard : Bests(z) = {l} /\ z[l] = chosen[k]
    BY <1>11, <2>3
  <2> QED BY <2>1, <2>3, <2>4
<1> QED BY <1>1, <1>2, <1>10, <1>12

\* Every source delivers routes of which one is marked for each prefix.
LEMMA SourceSelectsOnce ==
    ASSUME NEW n, NEW routes, NEW heard, NEW kind, Source(n, routes, heard, kind)
    PROVE  routes \in Seq(Route) /\ OneBest(routes)
<1>1. CASE FromTable(n, routes, heard, kind)
  <2>1. heard \in Seq(Path) /\ OnePrefix(heard) /\ routes = RoutesOf(heard)
    BY <1>1 DEF FromTable, Listed
  <2>2. routes \in Seq(Route) /\ DOMAIN routes = DOMAIN heard /\ OnePrefix(routes)
    BY <2>1, RoutesOfEntries
  <2>3. CASE heard = <<>>
    BY <2>2, <2>3 DEF OneBest
  <2>4. CASE heard # <<>>
    <3>1. PICK i \in DOMAIN heard : Bests(heard) = {i}
      BY <1>1, <2>4 DEF FromTable, Listed
    <3>2. PICK k \in DOMAIN heard : Bests(routes) = {k}
      BY <2>1, <3>1, RoutesOfEntries
    <3> QED BY <2>2, <3>2, OneMark
  <2> QED BY <2>3, <2>4
<1>2. CASE FromDefaults(n, routes, heard, kind)
  <2>1. PICK order \in Seqs!SetToSeqs(DefaultRouteNeighbors(n)) : routes = SynthesizedRoutes(order, heard)
    BY <1>2 DEF FromDefaults
  <2>2. routes \in Seq(Route) /\ routes # <<>> /\ OnePrefix(routes) /\ Bests(routes) = {1}
    BY <1>2, <2>1, SynthesizedSelection DEF FromDefaults
  <2>3. 1 \in DOMAIN routes
    BY <2>2, NonEmpty
  <2> QED BY <2>2, <2>3, OneMark
<1>3. CASE FromAgent(n, routes, heard, kind)
  BY <1>3, AgentSelects DEF FromAgent
<1>4. CASE FromCommand(n, routes, heard, kind)
  <2>1. heard \in Seq(Route)
    <3>1. heard \in Printed \cup {<<>>}
      BY <1>4 DEF FromCommand
    <3>2. <<>> \in Seq(Route)
      OBVIOUS
    <3>3. Printed \subseteq Seq(Route)
      BY RouteAssumption
    <3> QED BY <3>1, <3>2, <3>3
  <2>3. routes = SortBestFirst(EnsureBestAmongRoutes(heard))
    BY <1>4 DEF FromCommand, CommandRoutes
  <2>2. EnsureBestAmongRoutes(heard) \in Seq(Route) /\ OneBest(EnsureBestAmongRoutes(heard))
    BY <2>1, ReportSelected
  <2> QED BY <2>2, <2>3, SortRearranges, SortKeepsOneBest
<1>5. CASE FromNothing(n, routes, heard, kind)
  BY <1>5 DEF FromNothing, OneBest
<1> QED BY <1>1, <1>2, <1>3, <1>4, <1>5 DEF Source

\* What is shown of routes keeps their marks.
LEMMA ShownRoutes ==
    ASSUME NEW n, NEW routes \in Seq(Route)
    PROVE  /\ Shown(n, routes) \in Seq(Route) /\ DOMAIN Shown(n, routes) = DOMAIN routes
           /\ OneBest(routes) => OneBest(Shown(n, routes))
           /\ Bests(Shown(n, routes)) = Bests(routes)
           /\ \A i \in DOMAIN routes :
                 /\ Shown(n, routes)[i].nextHop = routes[i].nextHop
                 /\ n \in AgentNodes => Shown(n, routes)[i].path = routes[i].path
                 /\ Shown(n, routes)[i].path \in {routes[i].path, <<LocalAS>> \o routes[i].path}
                 /\ routes[i].path # <<>> /\ Head(routes[i].path) = LocalAS => Shown(n, routes)[i].path = routes[i].path
<1>1. CASE n \in AgentNodes
  BY <1>1 DEF Shown
<1>2. CASE n \notin AgentNodes
  <2> DEFINE z == ApplyOriginASPath(LocalAS, routes)
  <2>1. LocalAS \in Nat
    BY RouteAssumption
  <2>2. /\ z \in Seq(Route) /\ DOMAIN z = DOMAIN routes
        /\ \A i \in DOMAIN routes :
              /\ z[i].nextHop = routes[i].nextHop
              /\ z[i].path = IF routes[i].path # <<>> /\ Head(routes[i].path) = LocalAS THEN routes[i].path
                             ELSE <<LocalAS>> \o routes[i].path
    BY <2>1, LedRoutes
  <2>3. (OneBest(routes) => OneBest(z)) /\ Bests(z) = Bests(routes)
    BY <2>1, LedKeepsMarks
  <2>4. Shown(n, routes) = z
    BY <1>2 DEF Shown
  <2> HIDE DEF z
  <2> QED BY <1>2, <2>2, <2>3, <2>4
<1> QED BY <1>1, <1>2

\* The route that counts among those a reader was sent is one that no other is
\* preferred to, its AS path perhaps led by the AS it was learned through.
LEMMA SourceIsPreferred ==
    ASSUME NEW n, NEW routes, NEW heard, Source(n, routes, heard, "sent"), Shown(n, routes) # <<>>
    PROVE  \E e \in Undominated(Seqs!ToSet(heard)) :
              /\ BestRoute(Shown(n, routes)).nextHop = e.nextHop
              /\ BestRoute(Shown(n, routes)).path \in {e.path, <<LocalAS>> \o e.path, <<AgentAS>> \o e.path}
<1> DEFINE z == Shown(n, routes)
<1>1. routes \in Seq(Route)
  BY SourceSelectsOnce
<1>2. /\ z \in Seq(Route) /\ DOMAIN z = DOMAIN routes /\ Bests(z) = Bests(routes)
      /\ \A i \in DOMAIN routes :
            /\ z[i].nextHop = routes[i].nextHop
            /\ n \in AgentNodes => z[i].path = routes[i].path
            /\ z[i].path \in {routes[i].path, <<LocalAS>> \o routes[i].path}
  BY <1>1, ShownRoutes
<1>3. DOMAIN routes # {}
  <2>1. z # <<>>
    OBVIOUS
  <2> HIDE DEF z
  <2>2. DOMAIN z # {}
    BY <1>2, <2>1, NonEmpty
  <2> QED BY <1>2, <2>2
<1> HIDE DEF z
<1>4. /\ heard \in Seq(Path)
      /\ \E i \in DOMAIN heard, l \in DOMAIN routes :
            /\ \A j \in DOMAIN heard : ~MorePreferred(EntryPreference(heard[j]), EntryPreference(heard[i]))
            /\ Bests(routes) = {l} /\ routes[l].nextHop = heard[i].nextHop
            /\ \/ routes[l].path = heard[i].path
               \/ n \in AgentNodes /\ routes[l].path = <<AgentAS>> \o heard[i].path
  <2>1. CASE FromTable(n, routes, heard, "sent")
    <3>1. heard \in Seq(Path) /\ OnePrefix(heard) /\ routes = RoutesOf(heard)
      BY <2>1 DEF FromTable, Listed
    <3>2. DOMAIN routes = DOMAIN heard
      BY <3>1, RoutesOfEntries
    <3>3. heard # <<>>
      BY <1>3, <3>2
    <3>4. PICK i \in DOMAIN heard :
            /\ Bests(heard) = {i}
            /\ \A j \in DOMAIN heard : ~MorePreferred(EntryPreference(heard[j]), EntryPreference(heard[i]))
      BY <2>1, <3>3 DEF FromTable, Listed
    <3>5. PICK k \in DOMAIN heard : Bests(routes) = {k} /\ routes[k].path = heard[i].path /\ routes[k].nextHop = heard[i].nextHop
      BY <3>1, <3>4, RoutesOfEntries
    <3> QED BY <3>1, <3>2, <3>4, <3>5
  <2>2. CASE FromAgent(n, routes, heard, "sent")
    <3>1. n \in AgentNodes /\ heard \in AgentTables /\ routes = AgentRoutes(heard)
      BY <2>2 DEF FromAgent
    <3>2. heard \in Seq(Path) /\ DOMAIN routes = DOMAIN heard
      BY <3>1, AgentSelects
    <3>3. heard # <<>>
      BY <1>3, <3>2
    <3>4. PICK i \in DOMAIN heard, l \in DOMAIN heard :
                     /\ \A j \in DOMAIN heard : ~MorePreferred(EntryPreference(heard[j]), EntryPreference(heard[i]))
                     /\ Bests(routes) = {l} /\ routes[l].nextHop = heard[i].nextHop
                     /\ routes[l].path \in {heard[i].path, <<AgentAS>> \o heard[i].path}
      BY <3>1, <3>3, AgentSelects
    <3> QED BY <3>1, <3>2, <3>4
  <2>3. FromTable(n, routes, heard, "sent") \/ FromAgent(n, routes, heard, "sent")
    BY DEF Source, FromDefaults, FromCommand, FromNothing
  <2> QED BY <2>1, <2>2, <2>3
<1>5. PICK i \in DOMAIN heard, l \in DOMAIN routes :
            /\ \A j \in DOMAIN heard : ~MorePreferred(EntryPreference(heard[j]), EntryPreference(heard[i]))
            /\ Bests(routes) = {l} /\ routes[l].nextHop = heard[i].nextHop
            /\ \/ routes[l].path = heard[i].path
               \/ n \in AgentNodes /\ routes[l].path = <<AgentAS>> \o heard[i].path
  BY <1>4
<1>6. heard[i] \in Undominated(Seqs!ToSet(heard))
  <2> DEFINE S == Seqs!ToSet(heard)
  <2>1. S = {heard[j] : j \in DOMAIN heard}
    BY DEF Seqs!ToSet
  <2>2. \A j \in DOMAIN heard : heard[j] \in Path
    BY <1>4
  <2>3. S \in SUBSET Path /\ heard[i] \in S
    BY <2>1, <2>2
  <2>4. \A f \in S : ~MorePreferred(EntryPreference(f), EntryPreference(heard[i]))
    BY <1>5, <2>1
  <2> HIDE DEF S
  <2> QED BY <2>3, <2>4, NothingBeatsIsUndominated DEF S
<1>7. BestRoute(z) = z[l]
  BY <1>2, <1>5, BestIsTheMarked
<1>8. z[l].nextHop = heard[i].nextHop /\ z[l].path \in {heard[i].path, <<LocalAS>> \o heard[i].path, <<AgentAS>> \o heard[i].path}
  BY <1>2, <1>5
<1> QED BY <1>6, <1>7, <1>8 DEF z

\* A neighbor's selected default route is the one that counts when its node's
\* neighbors declare what is behind it.
LEMMA SourceIsConfirmed ==
    ASSUME NEW n, NEW routes, NEW heard, Source(n, routes, heard, "made")
    PROVE  \A i \in Bests(heard) : DefaultAS[heard[i].neighbor] # 0 =>
              BestRoute(Shown(n, routes)).path = <<LocalAS, DefaultAS[heard[i].neighbor]>>
<1>1. /\ Listed(n, heard) /\ DefaultRouteNeighbors(n) # {}
      /\ \E order \in Seqs!SetToSeqs(DefaultRouteNeighbors(n)) : routes = SynthesizedRoutes(order, heard)
  BY DEF Source, FromTable, FromDefaults, FromAgent, FromCommand, FromNothing
<1>2. /\ routes \in Seq(Route) /\ routes # <<>> /\ Bests(routes) = {1}
      /\ \A i \in Bests(heard) : DefaultAS[heard[i].neighbor] # 0 =>
            routes[1].path = <<LocalAS, DefaultAS[heard[i].neighbor]>>
  BY <1>1, SynthesizedSelection
<1>3. /\ Shown(n, routes) \in Seq(Route) /\ DOMAIN Shown(n, routes) = DOMAIN routes /\ Bests(Shown(n, routes)) = {1}
      /\ \A i \in DOMAIN routes : routes[i].path # <<>> /\ Head(routes[i].path) = LocalAS
             => Shown(n, routes)[i].path = routes[i].path
  BY <1>2, ShownRoutes
<1>4. 1 \in DOMAIN routes
  BY <1>2, NonEmpty
<1>5. BestRoute(Shown(n, routes)) = Shown(n, routes)[1]
  BY <1>3, <1>4, BestIsTheMarked
<1>6. \A as : <<LocalAS, as>> # <<>> /\ Head(<<LocalAS, as>>) = LocalAS
  OBVIOUS
<1> QED BY <1>2, <1>3, <1>4, <1>5, <1>6

\* Two readers of a node that were sent the same, or printed the same, show the
\* same: paths of the table, of an agent's speaker and printed routes differ.
LEMMA SourceIsDetermined ==
    ASSUME NEW n, NEW heard, NEW routes, NEW kind, NEW others, NEW kind2,
           Source(n, routes, heard, kind), Source(n, others, heard, kind2),
           kind # "made", kind2 # "made"
    PROVE  routes = others
<1>1. \A r, k : FromTable(n, r, heard, k) /\ heard # <<>> => heard[1] \in Path /\ heard[1].neighbor \in DOMAIN OwnerOf
  <2> SUFFICES ASSUME NEW r, NEW k, FromTable(n, r, heard, k), heard # <<>>
      PROVE heard[1] \in Path /\ heard[1].neighbor \in DOMAIN OwnerOf
    OBVIOUS
  <2>1. heard \in Seq(Path) /\ \A i \in DOMAIN heard : heard[i].neighbor \in NeighborsOf(n)
    BY DEF FromTable, Listed
  <2>2. 1 \in DOMAIN heard /\ heard[1] \in Path
    BY <2>1
  <2> QED BY <2>1, <2>2 DEF NeighborsOf, Neighbors
<1>2. \A r, k : FromAgent(n, r, heard, k) /\ heard # <<>> => heard[1] \in Path /\ heard[1].neighbor \notin DOMAIN OwnerOf
  <2> SUFFICES ASSUME NEW r, NEW k, FromAgent(n, r, heard, k), heard # <<>>
      PROVE heard[1] \in Path /\ heard[1].neighbor \notin DOMAIN OwnerOf
    OBVIOUS
  <2>1. heard \in Seq({p \in Path : p.neighbor \notin DOMAIN OwnerOf})
    BY RouteAssumption DEF FromAgent
  <2>2. heard[1] \in {p \in Path : p.neighbor \notin DOMAIN OwnerOf}
    BY <2>1
  <2> QED BY <2>2
<1>3. \A r, k : FromCommand(n, r, heard, k) /\ heard # <<>> => heard[1] \in Route
  <2> SUFFICES ASSUME NEW r, NEW k, FromCommand(n, r, heard, k), heard # <<>> PROVE heard[1] \in Route
    OBVIOUS
  <2>1. heard \in Seq(Route)
    BY RouteAssumption DEF FromCommand
  <2> QED BY <2>1
<1>4. Path \cap Route = {}
  <2>1. \A e \in Path : "neighbor" \in DOMAIN e
    BY DEF Path
  <2>2. \A r \in Route : "neighbor" \notin DOMAIN r
    BY DEF Route
  <2> QED BY <2>1, <2>2
<1>5. CASE heard # <<>>
  <2>1. \/ FromTable(n, routes, heard, kind) /\ FromTable(n, others, heard, kind2)
        \/ FromAgent(n, routes, heard, kind) /\ FromAgent(n, others, heard, kind2)
        \/ FromCommand(n, routes, heard, kind) /\ FromCommand(n, others, heard, kind2)
    <3>1. \A r, k : Source(n, r, heard, k) /\ k # "made" =>
              FromTable(n, r, heard, k) \/ FromAgent(n, r, heard, k) \/ FromCommand(n, r, heard, k)
      BY <1>5 DEF Source, FromDefaults, FromNothing
    <3> QED BY <1>1, <1>2, <1>3, <1>4, <1>5, <3>1
  <2> QED BY <2>1 DEF FromTable, FromAgent, FromCommand
<1>6. CASE heard = <<>>
  <2>1. \A r, k : Source(n, r, heard, k) /\ k # "made" => r = <<>>
    <3> SUFFICES ASSUME NEW r, NEW k, Source(n, r, heard, k), k # "made" PROVE r = <<>>
      OBVIOUS
    <3>1. DOMAIN heard = {}
      BY <1>6
    <3>2. r \in Seq(Route)
      BY SourceSelectsOnce
    <3>3. CASE FromTable(n, r, heard, k)
      <4>1. heard \in Seq(Path) /\ OnePrefix(heard) /\ r = RoutesOf(heard)
        BY <3>3 DEF FromTable, Listed
      <4>2. DOMAIN r = {}
        BY <3>1, <4>1, RoutesOfEntries
      <4> QED BY <3>2, <4>2, NonEmpty
    <3>4. CASE FromAgent(n, r, heard, k)
      <4>1. DOMAIN r = {}
        BY <3>1, <3>4, AgentSelects DEF FromAgent
      <4> QED BY <3>2, <4>1, NonEmpty
    <3>5. CASE FromCommand(n, r, heard, k)
      <4>1. heard \in Seq(Route) /\ r = SortBestFirst(EnsureBestAmongRoutes(heard))
        BY <1>6, <3>5 DEF FromCommand, CommandRoutes
      <4>2. DOMAIN r = {}
        BY <3>1, <4>1, ReportSelected, SortRearranges
      <4> QED BY <3>2, <4>2, NonEmpty
    <3> QED BY <3>3, <3>4, <3>5 DEF Source, FromDefaults, FromNothing
  <2> QED BY <2>1
<1> QED BY <1>5, <1>6

-----------------------------------------------------------------------------
\* What routes may have been made of.
Heard == Seq(Path) \cup Seq(Route)

\* The types of the variables.
RouteTypes ==
    /\ asked \in [node : RouteNodes, target : {"address", "network"}]
    /\ rib \in Seq(Advertised)
    /\ established \subseteq Neighbors
    /\ reads \in [Readers -> {"idle", "default", "done", "failed"}]
    /\ answer \in [routes : Seq(Route), heard : Heard, kind : {"none", "sent", "made", "printed"}, at : Nat]
    /\ map = None \/ \E D \in SUBSET RouteNodes : map \in [D -> MappedNode]
    /\ routeChanges \in Nat

\* The answer is read before the map is built, a node only once it is on it,
\* and the AS path is drawn when every node was read.
ReadOrder ==
    /\ map # None => reads["answer"] = "done"
    /\ reads["answer"] # "done" => answer = Unread
    /\ \A n \in RouteNodes : reads[n] # "idle" => map # None /\ n \in DOMAIN map
    /\ \A r \in Readers : reads[r] = "default" => DefaultRouteNeighbors(ReaderNode(r)) # {}
    /\ drawn # None => map # None /\ \A n \in DOMAIN map : reads[n] = "done"

\* The answer is what a source delivered, the table when its node has neighbors.
AnswerFrom ==
    reads["answer"] = "done" =>
        /\ \E routes : /\ Source(asked.node, routes, answer.heard, answer.kind)
                       /\ answer.routes = Shown(asked.node, routes)
        /\ NeighborsOf(asked.node) # {} => answer.kind \in {"sent", "made"}

\* The table is as it was read for the answer until it changes.
AnswerAge ==
    /\ answer.at <= routeChanges
    /\ reads["answer"] = "done" /\ NeighborsOf(asked.node) # {} /\ answer.kind = "sent" /\ answer.at = routeChanges
          => answer.heard = LookupRoute(asked.node, asked.target)

\* The map turns to default routes only where the answer would have done.
DefaultsLast ==
    reads[asked.node] = "default" /\ answer.kind = "sent" /\ answer.at = routeChanges => answer.heard = <<>>

\* A node read from the same routes as the answer shows what the answer shows.
SameView ==
    /\ map # None /\ asked.node \in DOMAIN map /\ reads[asked.node] = "done"
    /\ map[asked.node].at = answer.at /\ map[asked.node].heard = answer.heard
    /\ HasRouteASPath(answer.routes) /\ answer.kind # "made"
    => /\ map[asked.node].entries # <<>>
       /\ map[asked.node].entries[1].path = BestRoute(answer.routes).path
       /\ map[asked.node].entries[1].prefix = BestRoute(answer.routes).prefix

\* The AS path that was drawn is the selected route's.
DrawnFromAnswer ==
    drawn # None /\ HasRouteASPath(answer.routes) =>
        drawn = [path |-> BestRoute(answer.routes).path, prefix |-> BestRoute(answer.routes).prefix]

\* The inductive invariant.
RouteIInv ==
    RouteTypes /\ ReadOrder /\ OneSelectedRoute /\ AnswerFrom /\ AnswerAge /\ DefaultsLast /\ SameView /\ DrawnFromAnswer

\* A reader gets its routes from a source, the table's at that moment.
Delivery(r, routes, heard, kind) ==
    /\ Deliver(r, routes, heard, kind)
    /\ Source(ReaderNode(r), routes, heard, kind)
    /\ heard \in Heard /\ kind \in {"none", "sent", "made", "printed"}
    /\ IF kind = "made" THEN reads[r] = "default" ELSE MayRead(r)
    /\ r = "answer" /\ NeighborsOf(asked.node) # {} =>
          /\ kind \in {"sent", "made"}
          /\ kind = "sent" => heard = LookupRoute(asked.node, asked.target)

\* A reader that found no route of its neighbors reads their default routes.
TurnsToDefaults(r) ==
    /\ MayRead(r) /\ ReadsTable(r)
    /\ LookupRoute(ReaderNode(r), asked.target) = <<>> /\ DefaultRouteNeighbors(ReaderNode(r)) # {}
    /\ reads' = [reads EXCEPT ![r] = "default"]
    /\ UNCHANGED <<asked, rib, established, answer, map, drawn, routeChanges>>

\* The query ends.
AnswerFails ==
    /\ MayRead("answer") /\ reads' = [reads EXCEPT !["answer"] = "failed"]
    /\ UNCHANGED <<asked, rib, established, answer, map, drawn, routeChanges>>

\* The table's paths are paths.
LEMMA TableTyped ==
    ASSUME RouteTypes
    PROVE  rib \in Seq(Path)
BY RouteAssumption DEF RouteTypes

\* What the steps of a reader come to.
LEMMA ReadSteps ==
    ASSUME RouteTypes, ReadOrder, NEW r \in Readers,
           ReadTable(r) \/ ReadDefaultRoutes(r) \/ ReadCommand(r) \/ AskAgent(r) \/ ReportFails(r)
    PROVE  \/ \E routes, heard, kind : Delivery(r, routes, heard, kind)
           \/ TurnsToDefaults(r)
           \/ r = "answer" /\ AnswerFails
<1> DEFINE n == ReaderNode(r)
<1>1. rib \in Seq(Path)
  BY TableTyped
<1>2. \A target : Listed(n, LookupRoute(n, target)) /\ LookupRoute(n, target) \in Heard
  BY <1>1, LookupLists DEF Listed, Heard
<1>3. r = "answer" => n = asked.node /\ (ReadsTable(r) <=> NeighborsOf(asked.node) # {})
  BY DEF ReaderNode, ReadsTable
<1>4. DefaultRouteNeighbors(n) # {} => NeighborsOf(n) # {}
  BY DEF DefaultRouteNeighbors
<1>5. CASE ReadTable(r)
  <2> DEFINE entries == LookupRoute(n, asked.target)
  <2>1. MayRead(r) /\ ReadsTable(r)
    BY <1>5 DEF ReadTable
  <2>2. CASE entries = <<>> /\ DefaultRouteNeighbors(n) # {}
    BY <1>5, <2>1, <2>2 DEF ReadTable, TurnsToDefaults
  <2>3. CASE ~(entries = <<>> /\ DefaultRouteNeighbors(n) # {})
    <3>1. Deliver(r, RoutesOf(entries), entries, "sent")
      BY <1>5, <2>3 DEF ReadTable
    <3>2. Source(n, RoutesOf(entries), entries, "sent")
      BY <1>2 DEF Source, FromTable
    <3>3. entries \in Heard
      BY <1>2
    <3>4. r = "answer" => entries = LookupRoute(asked.node, asked.target)
      BY <1>3
    <3> HIDE DEF entries, n
    <3>5. Delivery(r, RoutesOf(entries), entries, "sent")
      BY <2>1, <3>1, <3>2, <3>3, <3>4 DEF Delivery, n
    <3> QED BY <3>5
  <2> QED BY <2>2, <2>3
<1>6. CASE ReadDefaultRoutes(r)
  <2> DEFINE defaults == LookupRoute(n, "default")
  <2>1. reads[r] = "default" /\ DefaultRouteNeighbors(n) # {}
    BY <1>6 DEF ReadDefaultRoutes, ReadOrder
  <2>2. PICK order \in Seqs!SetToSeqs(DefaultRouteNeighbors(n)) :
          Deliver(r, SynthesizedRoutes(order, defaults), defaults, "made")
    BY <1>6 DEF ReadDefaultRoutes
  <2>3. Source(n, SynthesizedRoutes(order, defaults), defaults, "made")
    BY <1>2, <2>1 DEF Source, FromDefaults
  <2>4. defaults \in Heard
    BY <1>2
  <2> HIDE DEF defaults, n
  <2>5. Delivery(r, SynthesizedRoutes(order, defaults), defaults, "made")
    BY <2>1, <2>2, <2>3, <2>4 DEF Delivery, n
  <2> QED BY <2>5
<1>7. CASE ReadCommand(r)
  <2>1. PICK routes \in Printed \cup {<<>>} : DeliverReport(r, routes, routes, "printed")
    BY <1>7 DEF ReadCommand
  <2>2. MayRead(r) /\ ~ReadsTable(r)
    BY <1>7 DEF ReadCommand
  <2>3. Deliver(r, CommandRoutes(routes), routes, "printed")
    BY <2>1 DEF DeliverReport, CommandRoutes
  <2>4. Source(n, CommandRoutes(routes), routes, "printed")
    BY DEF Source, FromCommand
  <2>5. routes \in Heard
    <3>1. <<>> \in Seq(Route)
      OBVIOUS
    <3> QED BY <3>1, RouteAssumption DEF Heard
  <2> HIDE DEF n
  <2>6. Delivery(r, CommandRoutes(routes), routes, "printed")
    BY <1>3, <2>2, <2>3, <2>4, <2>5 DEF Delivery, n
  <2> QED BY <2>6
<1>8. CASE AskAgent(r)
  <2>1. PICK heard \in AgentTables :
          DeliverReport(r, ApplyOriginASPath(AgentAS, RoutesOf(EnsureBestAmongEntries(heard))), heard, "sent")
    BY <1>8 DEF AskAgent
  <2>2. MayRead(r) /\ ~ReadsTable(r) /\ n \in AgentNodes
    BY <1>8 DEF AskAgent
  <2>3. Deliver(r, AgentRoutes(heard), heard, "sent")
    BY <2>1 DEF DeliverReport, AgentRoutes, CommandRoutes
  <2>4. Source(n, AgentRoutes(heard), heard, "sent")
    BY <2>2 DEF Source, FromAgent
  <2>5. heard \in Heard
    BY AgentSelects DEF Heard
  <2> HIDE DEF n
  <2>6. Delivery(r, AgentRoutes(heard), heard, "sent")
    BY <1>3, <2>2, <2>3, <2>4, <2>5 DEF Delivery, n
  <2> QED BY <2>6
<1>9. CASE ReportFails(r)
  <2>1. CASE r = "answer"
    BY <1>9, <2>1 DEF ReportFails, AnswerFails
  <2>2. CASE r # "answer"
    <3>1. MayRead(r) /\ Deliver(r, <<>>, <<>>, "none")
      BY <1>9, <2>2 DEF ReportFails
    <3>2. Source(n, <<>>, <<>>, "none") /\ <<>> \in Heard
      <4>1. <<>> \in Seq(Path)
        OBVIOUS
      <4> QED BY <4>1 DEF Source, FromNothing, Heard
    <3> HIDE DEF n
    <3>3. Delivery(r, <<>>, <<>>, "none")
      BY <2>2, <3>1, <3>2 DEF Delivery, n
    <3> QED BY <3>3
  <2> QED BY <2>1, <2>2
<1> QED BY <1>5, <1>6, <1>7, <1>8, <1>9

\* A lookup begins with nothing read.
LEMMA RouteInitial ==
    ASSUME RouteInit
    PROVE  RouteIInv
<1>1. answer = Unread /\ map = None /\ drawn = None /\ routeChanges = 0 /\ reads = [r \in Readers |-> "idle"]
  BY DEF RouteInit
<1>2. RouteTypes
  <2>1. asked \in [node : RouteNodes, target : {"address", "network"}]
    BY DEF RouteInit
  <2>2. rib \in Seq(Advertised)
    BY RouteAssumption DEF RouteInit
  <2>3. established \subseteq Neighbors
    <3>1. \A i \in DOMAIN rib : rib[i].neighbor \in Neighbors
      <4>1. \A i \in DOMAIN rib : rib[i] \in Advertised
        BY <2>2
      <4> QED BY <4>1, RouteAssumption DEF Neighbors
    <3>2. established = {rib[i].neighbor : i \in DOMAIN rib} \/ established = Neighbors
      BY DEF RouteInit
    <3> QED BY <3>1, <3>2
  <2>4. answer \in [routes : Seq(Route), heard : Heard, kind : {"none", "sent", "made", "printed"}, at : Nat]
    <3>1. <<>> \in Seq(Route) /\ <<>> \in Seq(Path)
      OBVIOUS
    <3> QED BY <1>1, <3>1 DEF Unread, Heard
  <2> QED BY <1>1, <2>1, <2>2, <2>3, <2>4 DEF RouteTypes
<1>3. "answer" \in Readers /\ RouteNodes \subseteq Readers /\ asked.node \in Readers
  BY <1>2 DEF Readers, RouteTypes
<1>4. ReadOrder
  BY <1>1, <1>3 DEF ReadOrder
<1>5. OneSelectedRoute
  BY <1>1 DEF OneSelectedRoute, Unread
<1>6. AnswerFrom /\ DefaultsLast
  BY <1>1, <1>3 DEF AnswerFrom, DefaultsLast
<1>7. AnswerAge
  BY <1>1, <1>3 DEF AnswerAge, Unread
<1>8. SameView /\ DrawnFromAnswer
  BY <1>1 DEF SameView, DrawnFromAnswer
<1> QED BY <1>2, <1>4, <1>5, <1>6, <1>7, <1>8 DEF RouteIInv

\* What was delivered for the answer and for the map keeps its place while the
\* other variables move on.
LEMMA AnswerStays ==
    ASSUME AnswerFrom, UNCHANGED <<asked, answer>>, reads'["answer"] = reads["answer"]
    PROVE  AnswerFrom'
BY DEF AnswerFrom, Source, FromTable, FromDefaults, FromAgent, FromCommand, FromNothing, AgentRoutes, RoutesOf

\* What is selected stays so while answer and map stay.
LEMMA OneSelectedStays ==
    ASSUME OneSelectedRoute, UNCHANGED <<answer, map>>
    PROVE  OneSelectedRoute'
BY DEF OneSelectedRoute

\* The delivery of the answer.
LEMMA AnswerDelivered ==
    ASSUME RouteIInv, NEW routes, NEW heard, NEW kind, Delivery("answer", routes, heard, kind)
    PROVE  RouteIInv'
<1>1. /\ RouteTypes /\ ReadOrder /\ OneSelectedRoute /\ AnswerFrom /\ AnswerAge
  BY DEF RouteIInv
<1>2. "answer" \in Readers /\ RouteNodes \subseteq Readers /\ asked.node \in RouteNodes /\ "answer" \notin RouteNodes
  BY <1>1, RouteAssumption DEF Readers, RouteTypes
<1>3. ReaderNode("answer") = asked.node
  BY DEF ReaderNode
<1>4. /\ reads' = [reads EXCEPT !["answer"] = "done"]
      /\ answer' = [routes |-> Shown(asked.node, routes), heard |-> heard, kind |-> kind, at |-> routeChanges]
      /\ UNCHANGED <<map, asked, rib, established, drawn, routeChanges>>
  BY <1>3 DEF Delivery, Deliver
<1>5. /\ Source(asked.node, routes, heard, kind)
      /\ heard \in Heard /\ kind \in {"none", "sent", "made", "printed"}
      /\ NeighborsOf(asked.node) # {} =>
            /\ kind \in {"sent", "made"}
            /\ kind = "sent" => heard = LookupRoute(asked.node, asked.target)
  BY <1>3 DEF Delivery
<1>6. reads["answer"] \in {"idle", "default"}
  BY DEF Delivery, MayRead
<1>7. map = None /\ drawn = None /\ \A n \in RouteNodes : reads[n] = "idle"
  BY <1>1, <1>6 DEF ReadOrder
<1>8. routes \in Seq(Route) /\ OneBest(routes)
  BY <1>5, SourceSelectsOnce
<1>9. Shown(asked.node, routes) \in Seq(Route) /\ OneBest(Shown(asked.node, routes))
  BY <1>8, ShownRoutes
<1>10. reads'["answer"] = "done" /\ \A n \in RouteNodes : reads'[n] = "idle"
  BY <1>1, <1>2, <1>4, <1>7 DEF RouteTypes
<1>11. RouteTypes'
  <2>1. reads' \in [Readers -> {"idle", "default", "done", "failed"}]
    BY <1>1, <1>2, <1>4 DEF RouteTypes
  <2>2. answer' \in [routes : Seq(Route), heard : Heard, kind : {"none", "sent", "made", "printed"}, at : Nat]
    BY <1>1, <1>4, <1>5, <1>9 DEF RouteTypes
  <2> QED BY <1>1, <1>4, <2>1, <2>2 DEF RouteTypes
<1>12. ReadOrder'
  <2>1. \A r \in Readers : reads'[r] # "default"
    BY <1>10 DEF Readers
  <2> QED BY <1>4, <1>7, <1>10, <2>1 DEF ReadOrder
<1>13. OneSelectedRoute'
  BY <1>4, <1>7, <1>9, OneBestCounted DEF OneSelectedRoute
<1>14. AnswerFrom'
  <2>1. Source(asked.node, routes, heard, kind)'
    BY <1>4, <1>5 DEF Source, FromTable, FromDefaults, FromAgent, FromCommand, FromNothing, AgentRoutes, RoutesOf
  <2> QED BY <1>4, <1>5, <2>1 DEF AnswerFrom
<1>15. AnswerAge'
  <2>1. LookupRoute(asked.node, asked.target)' = LookupRoute(asked.node, asked.target)
    BY <1>4 DEF LookupRoute
  <2> QED BY <1>1, <1>4, <1>5, <2>1 DEF AnswerAge, RouteTypes
<1>16. DefaultsLast'
  BY <1>2, <1>4, <1>10 DEF DefaultsLast
<1>17. SameView' /\ DrawnFromAnswer'
  BY <1>4, <1>7 DEF SameView, DrawnFromAnswer
<1> QED BY <1>11, <1>12, <1>13, <1>14, <1>15, <1>16, <1>17 DEF RouteIInv

\* The same table lists the same for the node that was asked.
LEMMA LookupStays ==
    ASSUME UNCHANGED <<asked, rib>>
    PROVE  LookupRoute(asked.node, asked.target)' = LookupRoute(asked.node, asked.target)
BY DEF LookupRoute

\* The delivery of a node on the map.
LEMMA NodeDelivered ==
    ASSUME RouteIInv, NEW n \in RouteNodes, NEW routes, NEW heard, NEW kind, Delivery(n, routes, heard, kind)
    PROVE  RouteIInv'
<1> DEFINE entries == MapEntries(n, routes)
<1>1. RouteTypes /\ ReadOrder /\ OneSelectedRoute /\ AnswerFrom /\ AnswerAge /\ DefaultsLast /\ SameView /\ DrawnFromAnswer
  BY DEF RouteIInv
<1>2. n # "answer" /\ n \in Readers /\ "answer" \in Readers /\ RouteNodes \subseteq Readers
  BY RouteAssumption DEF Readers
<1>3. ReaderNode(n) = n
  BY <1>2 DEF ReaderNode
<1>4. /\ reads' = [reads EXCEPT ![n] = "done"]
      /\ map' = [map EXCEPT ![n].entries = entries, ![n].heard = heard, ![n].at = routeChanges]
      /\ UNCHANGED <<answer, asked, rib, established, drawn, routeChanges>>
  BY <1>2, <1>3 DEF Delivery, Deliver
<1>5. Source(n, routes, heard, kind) /\ heard \in Heard
  BY <1>3 DEF Delivery
<1>6. IF kind = "made" THEN reads[n] = "default" ELSE reads[n] = "idle" /\ map # None /\ n \in DOMAIN map
  BY <1>2 DEF Delivery, MayRead
<1>7. map # None /\ n \in DOMAIN map
  BY <1>1, <1>6 DEF ReadOrder
<1>8. PICK D \in SUBSET RouteNodes : map \in [D -> MappedNode]
  BY <1>1, <1>7 DEF RouteTypes
<1>9. routes \in Seq(Route)
  BY <1>5, SourceSelectsOnce
<1>10. Shown(n, routes) \in Seq(Route) /\ entries = NodeASPaths(Shown(n, routes))
  BY <1>9, ShownRoutes DEF MapEntries
<1>11. /\ entries \in Seq(MapEntry)
       /\ entries # <<>> => Bests(entries) = {1}
       /\ Seqs!IsInjective([k \in DOMAIN entries |-> entries[k].path])
       /\ HasRouteASPath(Shown(n, routes)) =>
             /\ entries # <<>>
             /\ entries[1].path = BestRoute(Shown(n, routes)).path
             /\ entries[1].prefix = BestRoute(Shown(n, routes)).prefix
  BY <1>10, MappedOnce
<1> HIDE DEF entries
<1>12. /\ map' \in [D -> MappedNode] /\ DOMAIN map' = DOMAIN map
       /\ map'[n].entries = entries /\ map'[n].heard = heard /\ map'[n].at = routeChanges
       /\ \A m \in DOMAIN map : m # n => map'[m] = map[m]
  <2>1. routeChanges \in Nat /\ map[n] \in MappedNode /\ n \in D
    BY <1>1, <1>7, <1>8 DEF RouteTypes
  <2> DEFINE new == [map[n] EXCEPT !.entries = entries, !.heard = heard, !.at = routeChanges]
  <2>2. new \in MappedNode /\ new.entries = entries /\ new.heard = heard /\ new.at = routeChanges
    BY <1>5, <1>11, <2>1 DEF MappedNode, Heard
  <2>3. map' = [map EXCEPT ![n] = new]
    BY <1>4, <1>8, <2>1
  <2> HIDE DEF new
  <2> QED BY <1>8, <2>1, <2>2, <2>3
<1>13. map' # None
  BY <1>8, <1>12, RouteAssumption
<1>14. reads["answer"] = "done" /\ reads'["answer"] = "done" /\ reads'[n] = "done" /\ \A m \in Readers : m # n => reads'[m] = reads[m]
  BY <1>1, <1>2, <1>4, <1>7 DEF RouteTypes, ReadOrder
<1>15. drawn = None
  <2>1. drawn # None => reads[n] = "done"
    BY <1>1, <1>7 DEF ReadOrder
  <2> QED BY <1>6, <2>1
<1>16. RouteTypes'
  <2>1. reads' \in [Readers -> {"idle", "default", "done", "failed"}]
    BY <1>1, <1>2, <1>4 DEF RouteTypes
  <2>2. \E E \in SUBSET RouteNodes : map' \in [E -> MappedNode]
    BY <1>12
  <2> QED BY <1>1, <1>4, <2>1, <2>2 DEF RouteTypes
<1>17. ReadOrder'
  <2>1. \A m \in RouteNodes : reads'[m] # "idle" => map' # None /\ m \in DOMAIN map'
    BY <1>1, <1>2, <1>7, <1>12, <1>13, <1>14 DEF ReadOrder
  <2>2. \A r \in Readers : (reads[r] = "default" => DefaultRouteNeighbors(ReaderNode(r)) # {}) /\ ReaderNode(r)' = ReaderNode(r)
    BY <1>1, <1>4 DEF ReadOrder, ReaderNode
  <2>3. \A r \in Readers : reads'[r] = "default" => DefaultRouteNeighbors(ReaderNode(r)') # {}
    BY <1>14, <2>2
  <2>4. \A b \in Readers : DefaultRouteNeighbors(ReaderNode(b))' = DefaultRouteNeighbors(ReaderNode(b)')
    BY DEF DefaultRouteNeighbors
  <2> QED BY <1>4, <1>14, <1>15, <2>1, <2>3, <2>4 DEF ReadOrder
<1>18. OneSelectedRoute'
  <2>1. \A m \in DOMAIN map' : map'[m].entries # <<>> =>
              /\ Bests(map'[m].entries) = {1}
              /\ Seqs!IsInjective([k \in DOMAIN map'[m].entries |-> map'[m].entries[k].path])
    <3> SUFFICES ASSUME NEW m \in DOMAIN map', map'[m].entries # <<>>
        PROVE  /\ Bests(map'[m].entries) = {1}
               /\ Seqs!IsInjective([k \in DOMAIN map'[m].entries |-> map'[m].entries[k].path])
      OBVIOUS
    <3>1. CASE m = n
      BY <1>11, <1>12, <3>1
    <3>2. CASE m # n
      BY <1>1, <1>7, <1>12, <3>2 DEF OneSelectedRoute
    <3> QED BY <3>1, <3>2
  <2>2. \A i \in DOMAIN answer.routes :
          Cardinality({j \in Bests(answer.routes) : answer.routes[j].prefix = answer.routes[i].prefix}) = 1
    BY <1>1 DEF OneSelectedRoute
  <2> QED BY <1>4, <2>1, <2>2 DEF OneSelectedRoute
<1>19. AnswerFrom'
  BY <1>1, <1>4, <1>14, AnswerStays
<1>20. AnswerAge'
  BY <1>1, <1>4, <1>14, LookupStays DEF AnswerAge
<1>21. DefaultsLast'
  <2>1. asked.node \in Readers
    BY <1>1, <1>2 DEF RouteTypes
  <2> QED BY <1>1, <1>4, <1>14, <2>1 DEF DefaultsLast
<1>22. SameView'
  <2>1. CASE asked.node # n
    <3>1. asked.node \in DOMAIN map => asked.node \in Readers /\ map'[asked.node] = map[asked.node]
      BY <1>2, <1>8, <1>12, <2>1
    <3> QED BY <1>1, <1>4, <1>7, <1>12, <1>14, <2>1, <3>1 DEF SameView
  <2>2. CASE asked.node = n
    <3> SUFFICES ASSUME answer.at = routeChanges, answer.heard = heard, HasRouteASPath(answer.routes), answer.kind # "made"
                 PROVE  /\ entries # <<>>
                        /\ entries[1].path = BestRoute(answer.routes).path
                        /\ entries[1].prefix = BestRoute(answer.routes).prefix
      BY <1>4, <1>12, <2>2 DEF SameView
    <3>1. PICK shown : Source(n, shown, heard, answer.kind) /\ answer.routes = Shown(n, shown)
      BY <1>1, <1>14, <2>2 DEF AnswerFrom
    <3>2. CASE kind # "made"
      <4>1. shown = routes
        BY <1>5, <3>1, <3>2, SourceIsDetermined
      <4> QED BY <1>11, <3>1, <4>1
    <3>3. CASE kind = "made"
      <4>1. NeighborsOf(n) # {}
        BY <1>1, <1>2, <1>3, <1>6, <3>3 DEF ReadOrder, DefaultRouteNeighbors
      <4>2. answer.kind = "sent"
        BY <1>1, <1>14, <2>2, <4>1 DEF AnswerFrom
      <4>3. heard = <<>>
        BY <1>1, <1>6, <2>2, <3>3, <4>2 DEF DefaultsLast
      <4>4. Source(n, <<>>, <<>>, "none")
        BY DEF Source, FromNothing
      <4>5. shown = <<>>
        BY <3>1, <4>2, <4>3, <4>4, SourceIsDetermined
      <4>6. answer.routes = <<>>
        <5>1. <<>> \in Seq(Route) /\ DOMAIN <<>> = {}
          OBVIOUS
        <5>2. Shown(n, <<>>) \in Seq(Route) /\ DOMAIN Shown(n, <<>>) = {}
          BY <5>1, ShownRoutes
        <5> QED BY <3>1, <4>5, <5>2, NonEmpty
      <4> QED BY <4>6 DEF HasRouteASPath
    <3> QED BY <3>2, <3>3
  <2> QED BY <2>1, <2>2
<1>23. DrawnFromAnswer'
  BY <1>4, <1>15 DEF DrawnFromAnswer
<1> QED BY <1>16, <1>17, <1>18, <1>19, <1>20, <1>21, <1>22, <1>23 DEF RouteIInv

\* A reader that turns to the default routes found none of its own.
LEMMA TurnedToDefaults ==
    ASSUME RouteIInv, NEW r \in Readers, TurnsToDefaults(r)
    PROVE  RouteIInv'
<1>1. RouteTypes /\ ReadOrder /\ OneSelectedRoute /\ AnswerFrom /\ AnswerAge /\ DefaultsLast /\ SameView /\ DrawnFromAnswer
  BY DEF RouteIInv
<1>2. "answer" \in Readers /\ RouteNodes \subseteq Readers /\ "answer" \notin RouteNodes
      /\ asked.node \in RouteNodes /\ \A b \in Readers : b = "answer" \/ b \in RouteNodes
  BY <1>1, RouteAssumption DEF Readers, RouteTypes
<1>3. /\ reads[r] = "idle" /\ (r # "answer" => map # None /\ r \in DOMAIN map)
      /\ LookupRoute(ReaderNode(r), asked.target) = <<>> /\ DefaultRouteNeighbors(ReaderNode(r)) # {}
      /\ reads' = [reads EXCEPT ![r] = "default"]
      /\ UNCHANGED <<asked, rib, established, answer, map, drawn, routeChanges>>
  BY DEF TurnsToDefaults, MayRead
<1>4. reads'[r] = "default" /\ \A m \in Readers : m # r => reads'[m] = reads[m]
  BY <1>1, <1>3 DEF RouteTypes
<1>5. RouteTypes'
  BY <1>1, <1>3 DEF RouteTypes
<1>6. ReadOrder'
  <2>1. map # None => reads'["answer"] = "done"
    BY <1>1, <1>2, <1>3, <1>4 DEF ReadOrder
  <2>2. reads'["answer"] # "done" => answer = Unread
    BY <1>1, <1>2, <1>3, <1>4 DEF ReadOrder
  <2>3. \A n \in RouteNodes : reads'[n] # "idle" => map # None /\ n \in DOMAIN map
    BY <1>1, <1>2, <1>3, <1>4 DEF ReadOrder
  <2>4. \A b \in Readers : reads'[b] = "default" => DefaultRouteNeighbors(ReaderNode(b)) # {}
    BY <1>1, <1>3, <1>4 DEF ReadOrder
  <2>5. \A b \in Readers : ReaderNode(b)' = ReaderNode(b)
    BY <1>3 DEF ReaderNode
  <2>6. \A b \in Readers : DefaultRouteNeighbors(ReaderNode(b))' = DefaultRouteNeighbors(ReaderNode(b)')
    BY DEF DefaultRouteNeighbors
  <2>7. drawn = None
    <3>1. drawn # None => map # None /\ \A n \in DOMAIN map : reads[n] = "done"
      BY <1>1 DEF ReadOrder
    <3>2. drawn # None => reads["answer"] = "done"
      BY <1>1, <3>1 DEF ReadOrder
    <3> QED BY <1>3, <3>1, <3>2
  <2> QED BY <1>3, <2>1, <2>2, <2>3, <2>4, <2>5, <2>6, <2>7 DEF ReadOrder
<1>7. OneSelectedRoute'
  BY <1>1, <1>3, OneSelectedStays
<1>8. (reads'["answer"] = "done") <=> (reads["answer"] = "done")
  BY <1>2, <1>3, <1>4
<1>9. AnswerFrom'
  <2>1. CASE r = "answer"
    BY <1>4, <2>1 DEF AnswerFrom
  <2>2. CASE r # "answer"
    BY <1>1, <1>2, <1>3, <1>4, <2>2, AnswerStays
  <2> QED BY <2>1, <2>2
<1>10. AnswerAge'
  BY <1>1, <1>3, <1>8, LookupStays DEF AnswerAge
<1>11. DefaultsLast'
  <2>1. CASE r = asked.node
    <3>1. r # "answer" /\ ReaderNode(r) = asked.node
      BY <1>2, <2>1 DEF ReaderNode
    <3>2. reads["answer"] = "done" /\ NeighborsOf(asked.node) # {}
      BY <1>1, <1>3, <3>1 DEF ReadOrder, DefaultRouteNeighbors
    <3>3. answer.kind = "sent" /\ answer.at = routeChanges => answer.heard = <<>>
      BY <1>1, <1>3, <3>1, <3>2 DEF AnswerAge
    <3> QED BY <1>3, <3>3 DEF DefaultsLast
  <2>2. CASE r # asked.node
    BY <1>1, <1>2, <1>3, <1>4, <2>2 DEF DefaultsLast
  <2> QED BY <2>1, <2>2
<1>12. SameView'
  BY <1>1, <1>2, <1>3, <1>4 DEF SameView
<1>13. DrawnFromAnswer'
  BY <1>1, <1>3 DEF DrawnFromAnswer
<1> QED BY <1>5, <1>6, <1>7, <1>9, <1>10, <1>11, <1>12, <1>13 DEF RouteIInv

\* The query ends when its answer fails.
LEMMA AnswerFailed ==
    ASSUME RouteIInv, AnswerFails
    PROVE  RouteIInv'
<1>1. RouteTypes /\ ReadOrder /\ OneSelectedRoute /\ AnswerFrom /\ AnswerAge /\ DefaultsLast /\ SameView /\ DrawnFromAnswer
  BY DEF RouteIInv
<1>2. "answer" \in Readers /\ RouteNodes \subseteq Readers /\ "answer" \notin RouteNodes
      /\ asked.node \in RouteNodes
  BY <1>1, RouteAssumption DEF Readers, RouteTypes
<1>3. /\ reads["answer"] = "idle"
      /\ reads' = [reads EXCEPT !["answer"] = "failed"]
      /\ UNCHANGED <<asked, rib, established, answer, map, drawn, routeChanges>>
  BY DEF AnswerFails, MayRead
<1>4. map = None /\ drawn = None /\ answer = Unread
  BY <1>1, <1>3 DEF ReadOrder
<1>5. reads'["answer"] = "failed" /\ \A n \in Readers : n # "answer" => reads'[n] = reads[n]
  BY <1>1, <1>2, <1>3 DEF RouteTypes
<1>6. RouteTypes'
  BY <1>1, <1>3 DEF RouteTypes
<1>7. ReadOrder'
  <2>1. \A n \in RouteNodes : reads'[n] # "idle" => map # None /\ n \in DOMAIN map
    BY <1>1, <1>2, <1>5 DEF ReadOrder
  <2>2. \A b \in Readers : reads'[b] = "default" => DefaultRouteNeighbors(ReaderNode(b)) # {}
    BY <1>1, <1>5 DEF ReadOrder
  <2>3. \A b \in Readers : ReaderNode(b)' = ReaderNode(b)
    BY <1>3 DEF ReaderNode
  <2>4. \A b \in Readers : DefaultRouteNeighbors(ReaderNode(b))' = DefaultRouteNeighbors(ReaderNode(b)')
    BY DEF DefaultRouteNeighbors
  <2> QED BY <1>3, <1>4, <2>1, <2>2, <2>3, <2>4 DEF ReadOrder
<1>8. OneSelectedRoute'
  BY <1>1, <1>3, OneSelectedStays
<1>9. AnswerFrom'
  BY <1>5 DEF AnswerFrom
<1>10. AnswerAge'
  BY <1>1, <1>3, <1>5 DEF AnswerAge
<1>11. DefaultsLast'
  BY <1>1, <1>2, <1>3, <1>5 DEF DefaultsLast
<1>12. SameView' /\ DrawnFromAnswer'
  BY <1>3, <1>4 DEF SameView, DrawnFromAnswer
<1> QED BY <1>6, <1>7, <1>8, <1>9, <1>10, <1>11, <1>12 DEF RouteIInv

\* The map begins with no node read.
LEMMA MapBuilt ==
    ASSUME RouteIInv, BuildMap
    PROVE  RouteIInv'
<1>1. RouteTypes /\ ReadOrder /\ OneSelectedRoute /\ AnswerFrom /\ AnswerAge /\ DefaultsLast /\ SameView /\ DrawnFromAnswer
  BY DEF RouteIInv
<1>2. "answer" \in Readers /\ RouteNodes \subseteq Readers /\ asked.node \in RouteNodes
  BY <1>1, RouteAssumption DEF Readers, RouteTypes
<1>3. /\ reads["answer"] = "done" /\ map = None
      /\ UNCHANGED <<asked, rib, established, reads, answer, drawn, routeChanges>>
  BY DEF BuildMap
<1>4. PICK D \in SUBSET RouteNodes :
        /\ map' \in [D -> MappedNode]
        /\ \A n \in D : map'[n].entries = <<>>
  <2> DEFINE peering == {n \in RouteNodes : NeighborsOf(n) \cap established # {}}
             mapped == peering \cup AgentNodes
             D == IF Cardinality(mapped) < 2 THEN {} ELSE mapped
             start(n) == [table |-> n \in peering, entries |-> <<>>, heard |-> <<>>, at |-> 0]
  <2>1. map' = [n \in D |-> start(n)]
    BY DEF BuildMap
  <2>2. D \in SUBSET RouteNodes
    BY RouteAssumption
  <2>3. \A n \in D : start(n) \in MappedNode /\ start(n).entries = <<>>
    <3>1. <<>> \in Seq(MapEntry) /\ <<>> \in Seq(Path)
      OBVIOUS
    <3>2. \A n : (n \in peering) \in BOOLEAN
      OBVIOUS
    <3> HIDE DEF peering
    <3> QED BY <3>1, <3>2 DEF MappedNode
  <2> HIDE DEF D, start
  <2> QED BY <2>1, <2>2, <2>3
<1>5. map' # None /\ DOMAIN map' = D
  BY <1>4, RouteAssumption
<1>6. \A n \in RouteNodes : reads[n] = "idle"
  BY <1>1, <1>3 DEF ReadOrder
<1>7. drawn = None
  BY <1>1, <1>3 DEF ReadOrder
<1>8. RouteTypes'
  BY <1>1, <1>3, <1>4 DEF RouteTypes
<1>9. ReadOrder'
  <2>1. \A b \in Readers : reads[b] = "default" => DefaultRouteNeighbors(ReaderNode(b)) # {}
    BY <1>1 DEF ReadOrder
  <2>2. \A b \in Readers : ReaderNode(b)' = ReaderNode(b)
    BY <1>3 DEF ReaderNode
  <2>3. \A b \in Readers : DefaultRouteNeighbors(ReaderNode(b))' = DefaultRouteNeighbors(ReaderNode(b)')
    BY DEF DefaultRouteNeighbors
  <2> QED BY <1>3, <1>6, <1>7, <2>1, <2>2, <2>3 DEF ReadOrder
<1>10. OneSelectedRoute'
  <2>1. \A i \in DOMAIN answer.routes :
          Cardinality({j \in Bests(answer.routes) : answer.routes[j].prefix = answer.routes[i].prefix}) = 1
    BY <1>1 DEF OneSelectedRoute
  <2> QED BY <1>3, <1>4, <1>5, <2>1 DEF OneSelectedRoute
<1>11. AnswerFrom'
  BY <1>1, <1>3, AnswerStays
<1>12. AnswerAge'
  BY <1>1, <1>3, LookupStays DEF AnswerAge
<1>13. DefaultsLast'
  BY <1>1, <1>3 DEF DefaultsLast
<1>14. SameView' /\ DrawnFromAnswer'
  BY <1>2, <1>3, <1>6, <1>7 DEF SameView, DrawnFromAnswer
<1> QED BY <1>8, <1>9, <1>10, <1>11, <1>12, <1>13, <1>14 DEF RouteIInv

\* The AS path that is drawn is the selected route's.
LEMMA PathDrawn ==
    ASSUME RouteIInv, DrawASPath
    PROVE  RouteIInv'
<1>1. RouteTypes /\ ReadOrder /\ OneSelectedRoute /\ AnswerFrom /\ AnswerAge /\ DefaultsLast /\ SameView /\ DrawnFromAnswer
  BY DEF RouteIInv
<1>2. /\ map # None /\ \A n \in DOMAIN map : reads[n] = "done"
      /\ UNCHANGED <<asked, rib, established, reads, answer, map, routeChanges>>
  BY DEF DrawASPath
<1>3. HasRouteASPath(answer.routes) =>
        drawn' = [path |-> BestRoute(answer.routes).path, prefix |-> BestRoute(answer.routes).prefix]
  BY DEF DrawASPath
<1>4. RouteTypes'
  BY <1>1, <1>2 DEF RouteTypes
<1>5. ReadOrder'
  <2>1. \A b \in Readers : reads[b] = "default" => DefaultRouteNeighbors(ReaderNode(b)) # {}
    BY <1>1 DEF ReadOrder
  <2>2. \A b \in Readers : ReaderNode(b)' = ReaderNode(b)
    BY <1>2 DEF ReaderNode
  <2>3. \A b \in Readers : DefaultRouteNeighbors(ReaderNode(b))' = DefaultRouteNeighbors(ReaderNode(b)')
    BY DEF DefaultRouteNeighbors
  <2> QED BY <1>1, <1>2, <2>1, <2>2, <2>3 DEF ReadOrder
<1>6. OneSelectedRoute'
  BY <1>1, <1>2, OneSelectedStays
<1>7. AnswerFrom'
  BY <1>1, <1>2, AnswerStays
<1>8. AnswerAge'
  BY <1>1, <1>2, LookupStays DEF AnswerAge
<1>9. DefaultsLast' /\ SameView'
  BY <1>1, <1>2 DEF DefaultsLast, SameView
<1>10. DrawnFromAnswer'
  BY <1>2, <1>3 DEF DrawnFromAnswer, HasRouteASPath, BestRoute
<1> QED BY <1>4, <1>5, <1>6, <1>7, <1>8, <1>9, <1>10 DEF RouteIInv

\* A change of the table leaves what was read as it is, and is a change more.
LEMMA TableChanged ==
    ASSUME RouteIInv, Change, UNCHANGED <<asked, reads, answer, map, drawn>>,
           rib' \in Seq(Advertised), established' \subseteq established
    PROVE  RouteIInv'
<1>1. RouteTypes /\ ReadOrder /\ OneSelectedRoute /\ AnswerFrom /\ AnswerAge /\ DefaultsLast /\ SameView /\ DrawnFromAnswer
  BY DEF RouteIInv
<1>2. routeChanges' = routeChanges + 1 /\ routeChanges \in Nat /\ answer.at \in Nat /\ drawn = None
  BY <1>1 DEF Change, RouteTypes
<1>3. RouteTypes'
  BY <1>1, <1>2 DEF RouteTypes
<1>4. ReadOrder'
  <2>1. \A b \in Readers : reads[b] = "default" => DefaultRouteNeighbors(ReaderNode(b)) # {}
    BY <1>1 DEF ReadOrder
  <2>2. \A b \in Readers : ReaderNode(b)' = ReaderNode(b)
    BY DEF ReaderNode
  <2>3. \A b \in Readers : DefaultRouteNeighbors(ReaderNode(b))' = DefaultRouteNeighbors(ReaderNode(b)')
    BY DEF DefaultRouteNeighbors
  <2> QED BY <1>1, <1>2, <2>1, <2>2, <2>3 DEF ReadOrder
<1>5. OneSelectedRoute'
  BY <1>1, OneSelectedStays
<1>6. AnswerFrom'
  BY <1>1, AnswerStays
<1>7. answer.at <= routeChanges' /\ answer.at # routeChanges'
  BY <1>1, <1>2 DEF AnswerAge
<1>8. AnswerAge' /\ DefaultsLast'
  BY <1>7 DEF AnswerAge, DefaultsLast
<1>9. SameView' /\ DrawnFromAnswer'
  BY <1>1 DEF SameView, DrawnFromAnswer
<1> QED BY <1>3, <1>4, <1>5, <1>6, <1>8, <1>9 DEF RouteIInv

\* A change of the table: other advertised paths, no session more.
LEMMA TableSteps ==
    ASSUME RouteTypes, Learn \/ Withdraw \/ SessionEnds
    PROVE  /\ Change /\ UNCHANGED <<asked, reads, answer, map, drawn>>
           /\ rib' \in Seq(Advertised) /\ established' \subseteq established
<1>1. rib \in Seq(Advertised)
  BY DEF RouteTypes
<1>2. CASE Learn
  <2>1. PICK e \in Advertised, i \in 1 .. Len(rib) + 1 : rib' = Seqs!InsertAt(rib, i, e)
    BY <1>2 DEF Learn
  <2>2. rib' = (SubSeq(rib, 1, i - 1) \o <<e>>) \o SubSeq(rib, i, Len(rib))
    BY <2>1 DEF Seqs!InsertAt
  <2>3. SubSeq(rib, 1, i - 1) \in Seq(Advertised) /\ SubSeq(rib, i, Len(rib)) \in Seq(Advertised)
    <3>1. i \in Nat /\ Len(rib) \in Nat
      BY <1>1
    <3>2. \A j \in 1 .. i - 1 : j \in 1 .. Len(rib)
      BY <3>1
    <3> QED BY <1>1, <3>1, <3>2, SubSeqProperties
  <2>4. <<e>> \in Seq(Advertised)
    BY SingletonIsSequence
  <2>5. SubSeq(rib, 1, i - 1) \o <<e>> \in Seq(Advertised)
    BY <2>3, <2>4, ConcatProperties
  <2>6. rib' \in Seq(Advertised)
    BY <2>2, <2>3, <2>5, ConcatProperties
  <2> QED BY <1>2, <2>6 DEF Learn
<1>3. CASE Withdraw
  <2>1. PICK i \in DOMAIN rib : rib' = Seqs!RemoveAt(rib, i)
    BY <1>3 DEF Withdraw
  <2>2. rib' = SubSeq(rib, 1, i - 1) \o SubSeq(rib, i + 1, Len(rib))
    BY <2>1 DEF Seqs!RemoveAt
  <2>3. SubSeq(rib, 1, i - 1) \in Seq(Advertised) /\ SubSeq(rib, i + 1, Len(rib)) \in Seq(Advertised)
    <3>1. i \in 1 .. Len(rib) /\ Len(rib) \in Nat
      BY <1>1
    <3> QED BY <1>1, <3>1, SubSeqProperties
  <2>4. rib' \in Seq(Advertised)
    BY <2>2, <2>3, ConcatProperties
  <2> QED BY <1>3, <2>4 DEF Withdraw
<1>4. CASE SessionEnds
  <2>1. PICK b \in established : /\ established' = established \ {b}
                                 /\ rib' = Pick(rib, {i \in DOMAIN rib : rib[i].neighbor # b})
    BY <1>4 DEF SessionEnds
  <2> DEFINE K == {i \in DOMAIN rib : rib[i].neighbor # b}
  <2>2. K \in SUBSET DOMAIN rib /\ rib' = Pick(rib, K)
    BY <2>1
  <2> HIDE DEF K
  <2>3. rib' \in Seq(Advertised)
    BY <1>1, <2>2, PickedElements
  <2> QED BY <1>4, <2>1, <2>3 DEF SessionEnds
<1> QED BY <1>2, <1>3, <1>4

\* Every step preserves the invariant.
LEMMA RouteStep ==
    ASSUME RouteIInv, [RouteNext]_routeVars
    PROVE  RouteIInv'
<1>1. RouteTypes /\ ReadOrder
  BY DEF RouteIInv
<1>2. ASSUME NEW r \in Readers,
             ReadTable(r) \/ ReadDefaultRoutes(r) \/ ReadCommand(r) \/ AskAgent(r) \/ ReportFails(r)
      PROVE  RouteIInv'
  <2>1. \/ \E routes, heard, kind : Delivery(r, routes, heard, kind)
        \/ TurnsToDefaults(r)
        \/ r = "answer" /\ AnswerFails
    BY <1>1, <1>2, ReadSteps
  <2>2. ASSUME NEW routes, NEW heard, NEW kind, Delivery(r, routes, heard, kind) PROVE RouteIInv'
    <3>1. r = "answer" \/ r \in RouteNodes
      BY DEF Readers
    <3> QED BY <2>2, <3>1, AnswerDelivered, NodeDelivered
  <2> QED BY <2>1, <2>2, TurnedToDefaults, AnswerFailed
<1>3. CASE BuildMap
  BY <1>3, MapBuilt
<1>4. CASE DrawASPath
  BY <1>4, PathDrawn
<1>5. CASE Learn \/ Withdraw \/ SessionEnds
  BY <1>1, <1>5, TableSteps, TableChanged
<1>6. CASE UNCHANGED routeVars
  <2>1. RouteTypes /\ ReadOrder /\ OneSelectedRoute /\ AnswerFrom /\ AnswerAge /\ DefaultsLast /\ SameView /\ DrawnFromAnswer
    BY DEF RouteIInv
  <2>2. UNCHANGED <<asked, rib, established, reads, answer, map, drawn, routeChanges>>
    BY <1>6 DEF routeVars
  <2>3. RouteTypes'
    BY <2>1, <2>2 DEF RouteTypes
  <2>4. ReadOrder'
    <3>1. \A b \in Readers : reads[b] = "default" => DefaultRouteNeighbors(ReaderNode(b)) # {}
      BY <2>1 DEF ReadOrder
    <3>2. \A b \in Readers : ReaderNode(b)' = ReaderNode(b)
      BY <2>2 DEF ReaderNode
    <3>3. \A b \in Readers : DefaultRouteNeighbors(ReaderNode(b))' = DefaultRouteNeighbors(ReaderNode(b)')
      BY DEF DefaultRouteNeighbors
    <3> QED BY <2>1, <2>2, <3>1, <3>2, <3>3 DEF ReadOrder
  <2>5. OneSelectedRoute' /\ AnswerFrom'
    BY <2>1, <2>2, OneSelectedStays, AnswerStays
  <2>6. AnswerAge'
    BY <2>1, <2>2, LookupStays DEF AnswerAge
  <2>7. DefaultsLast' /\ SameView' /\ DrawnFromAnswer'
    BY <2>1, <2>2 DEF DefaultsLast, SameView, DrawnFromAnswer
  <2> QED BY <2>3, <2>4, <2>5, <2>6, <2>7 DEF RouteIInv
<1> QED BY <1>2, <1>3, <1>4, <1>5, <1>6 DEF RouteNext

-----------------------------------------------------------------------------
\* The types of the variables, the order of the reads and what was delivered by
\* them hold of every lookup.
THEOREM RouteInvariance == RouteSpec => []RouteIInv
<1>1. RouteInit => RouteIInv
  BY RouteInitial
<1>2. RouteIInv /\ [RouteNext]_routeVars => RouteIInv'
  BY RouteStep
<1> QED BY <1>1, <1>2, PTL DEF RouteSpec

\* One route per prefix is selected in every answer and one for every node on
\* the map, whose AS paths differ (RoutesToNodeASPaths, ensureBestAmongRoutes).
THEOREM OneRouteIsSelected == RouteSpec => []OneSelectedRoute
<1>1. RouteIInv => OneSelectedRoute
  BY DEF RouteIInv
<1> QED BY <1>1, RouteInvariance, PTL

\* An answer that is there came from a source.
LEMMA ReadAnswer ==
    ASSUME RouteIInv, answer # Unread
    PROVE  \E routes : /\ Source(asked.node, routes, answer.heard, answer.kind)
                       /\ answer.routes = Shown(asked.node, routes)
BY DEF RouteIInv, ReadOrder, AnswerFrom

\* The selected route of an answer is one the decision process of its node would
\* leave (ensureBestAmongEntries, the agent's selection and the server's).
THEOREM PreferredIsSelected == RouteSpec => []SelectedIsPreferred
<1>1. ASSUME RouteIInv PROVE SelectedIsPreferred
  <2> SUFFICES ASSUME answer.routes # <<>>, answer.kind = "sent"
      PROVE  \E e \in Undominated(Seqs!ToSet(answer.heard)) :
                /\ BestRoute(answer.routes).nextHop = e.nextHop
                /\ BestRoute(answer.routes).path \in {e.path, <<LocalAS>> \o e.path, <<AgentAS>> \o e.path}
    BY DEF SelectedIsPreferred
  <2>1. answer # Unread
    BY DEF Unread
  <2>2. PICK routes : /\ Source(asked.node, routes, answer.heard, "sent")
                      /\ answer.routes = Shown(asked.node, routes)
    BY <1>1, <2>1, ReadAnswer
  <2> QED BY <2>2, SourceIsPreferred
<1> QED BY <1>1, RouteInvariance, PTL

\* A route over a default route the table selected comes before those that a
\* neighbor only declares (SynthesizeDefaultRouteResult).
THEOREM ConfirmedRouteWins == RouteSpec => []ConfirmedWins
<1>1. ASSUME RouteIInv PROVE ConfirmedWins
  <2> SUFFICES ASSUME answer.kind = "made", NEW i \in Bests(answer.heard), DefaultAS[answer.heard[i].neighbor] # 0
      PROVE  BestRoute(answer.routes).path = <<LocalAS, DefaultAS[answer.heard[i].neighbor]>>
    BY DEF ConfirmedWins
  <2>1. answer # Unread
    BY DEF Unread
  <2>2. PICK routes : /\ Source(asked.node, routes, answer.heard, "made")
                      /\ answer.routes = Shown(asked.node, routes)
    BY <1>1, <2>1, ReadAnswer
  <2> QED BY <2>2, SourceIsConfirmed
<1> QED BY <1>1, RouteInvariance, PTL

\* The map shows for the queried node the path the result shows when both were
\* read from the same routes and neither was made up (nodeASPaths).
THEOREM MapAgreesWithResult == RouteSpec => []MapAgrees
<1>1. ASSUME RouteIInv PROVE MapAgrees
  <2> SUFFICES ASSUME Comparable(asked.node), answer.kind # "made" PROVE AgreeOn(asked.node)
    BY DEF MapAgrees
  <2>1. /\ map[asked.node].entries # <<>>
        /\ map[asked.node].entries[1].path = BestRoute(answer.routes).path
        /\ map[asked.node].entries[1].prefix = BestRoute(answer.routes).prefix
    BY <1>1 DEF RouteIInv, SameView, Comparable
  <2>2. drawn = [path |-> BestRoute(answer.routes).path, prefix |-> BestRoute(answer.routes).prefix]
    BY <1>1 DEF RouteIInv, DrawnFromAnswer, Comparable
  <2> QED BY <2>1, <2>2 DEF AgreeOn
<1> QED BY <1>1, RouteInvariance, PTL
=============================================================================
