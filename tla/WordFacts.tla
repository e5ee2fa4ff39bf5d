----------------------------- MODULE WordFacts -----------------------------
(***************************************************************************)
(* What the proofs of the other modules cite: facts about numbers, orders  *)
(* and words; then about the operators the engine's search is made of, for *)
(* any list of words: the completion trie and the walks over it, the table *)
(* of distances and its pruning, and the index of stripped forms.          *)
(***************************************************************************)
EXTENDS QueryIndex, Functions, Integers, FiniteSetTheorems, WellFoundedInduction, TLAPS

(***************************************************************************)
(* Induction, of a set rather than of an operator: the subsets of a finite *)
(* set are well-founded, so the initial segments of the numbers are.       *)
(***************************************************************************)
LEMMA LeastNumber ==
  ASSUME NEW T, T \subseteq Nat, T # {}
  PROVE  \E n \in T : \A k \in T : n <= k
<1>1. PICK m \in T : TRUE
  OBVIOUS
<1> DEFINE S == 0..m
           U == {0..k : k \in T \cap S}
<1>2. IsWellFoundedOn(StrictSubsetOrdering(S), SUBSET S)
  <2>1. IsFiniteSet(S)
    BY FS_Interval
  <2>2. FiniteSubsetsOf(S) = SUBSET S
    BY <2>1, FS_FiniteSubsetsOfFinite
  <2> QED
    BY <2>2, FS_StrictSubsetOrderingWellFounded
<1>3. U \subseteq SUBSET S /\ U # {}
  OBVIOUS
<1>4. PICK x \in U : \A y \in U : <<y, x>> \notin StrictSubsetOrdering(S)
  <2> HIDE DEF U, S
  <2> QED BY <1>2, <1>3, WFMin
<1>5. PICK n \in T \cap S : x = 0..n
  OBVIOUS
<1>6. ASSUME NEW k \in T, k < n PROVE FALSE
  <2>1. 0..k \in U
    BY <1>6
  <2>2. 0..k \subseteq 0..n /\ 0..k # 0..n /\ 0..n \subseteq S
    BY <1>6
  <2> QED
    BY <2>1, <2>2, <1>4, <1>5 DEF StrictSubsetOrdering
<1> QED
  BY <1>5, <1>6

LEMMA Induction ==
  ASSUME NEW T, 0 \in T, \A n \in T \cap Nat : n + 1 \in T
  PROVE  Nat \subseteq T
<1> SUFFICES ASSUME Nat \ T # {} PROVE FALSE
  OBVIOUS
<1>1. PICK n \in Nat \ T : \A k \in Nat \ T : n <= k
  BY LeastNumber
<1>2. n - 1 \in Nat /\ n - 1 \in T /\ (n - 1) + 1 = n
  BY <1>1
<1> QED
  BY <1>1, <1>2

\* A function on the first numbers is a sequence.
LEMMA Sequenced ==
  ASSUME NEW S, NEW n \in Nat, NEW f, f = [i \in 1..n |-> f[i]], \A i \in 1..n : f[i] \in S
  PROVE  f \in Seq(S) /\ Len(f) = n
<1>1. f \in [1..n -> S]
  OBVIOUS
<1> QED
  BY ONLY <1>1, n \in Nat

LEMMA FiniteImage ==
  ASSUME NEW f, IsFiniteSet(DOMAIN f)
  PROVE  IsFiniteSet({f[x] : x \in DOMAIN f})
<1> DEFINE T == {f[x] : x \in DOMAIN f}
           g == [x \in DOMAIN f |-> f[x]]
<1>1. g \in Surjection(DOMAIN f, T)
  BY DEF Surjection
<1> QED
  <2> HIDE DEF g
  <2> QED BY <1>1, FS_Surjection

LEMMA ImageCardinality ==
  ASSUME NEW f, IsFiniteSet(DOMAIN f), \A x, y \in DOMAIN f : f[x] = f[y] => x = y
  PROVE  Cardinality({f[x] : x \in DOMAIN f}) = Cardinality(DOMAIN f)
<1> DEFINE T == {f[x] : x \in DOMAIN f}
           g == [x \in DOMAIN f |-> f[x]]
<1>1. g \in Bijection(DOMAIN f, T)
  BY DEF Bijection, Injection, IsInjective, Surjection
<1>2. ExistsBijection(DOMAIN f, T)
  <2> HIDE DEF g
  <2> QED BY <1>1 DEF ExistsBijection
<1> QED
  BY <1>2, FS_Bijection

LEMMA FiniteUnion ==
  ASSUME NEW f, IsFiniteSet(DOMAIN f), \A x \in DOMAIN f : IsFiniteSet(f[x])
  PROVE  IsFiniteSet(UNION {f[x] : x \in DOMAIN f})
<1> DEFINE T == {f[x] : x \in DOMAIN f}
<1>1. IsFiniteSet(T)
  BY FiniteImage
<1>2. \A t \in T : IsFiniteSet(t)
  OBVIOUS
<1> HIDE DEF T
<1>3. IsFiniteSet(UNION T)
  BY <1>1, <1>2, FS_UNION
<1> QED
  BY <1>3 DEF T

\* A finite set has a minimal element in every strict partial order.
LEMMA MinimalElement ==
  ASSUME NEW S, IsFiniteSet(S), S # {}, NEW R,
         \A x \in S : <<x, x>> \notin R,
         \A x, y, z \in S : <<x, y>> \in R /\ <<y, z>> \in R => <<x, z>> \in R
  PROVE  \E m \in S : \A x \in S : <<x, m>> \notin R
<1> DEFINE below(x) == {y \in S : <<y, x>> \in R}
           sizes == {Cardinality(below(x)) : x \in S}
<1>1. \A x \in S : IsFiniteSet(below(x)) /\ Cardinality(below(x)) \in Nat
  <2>1. \A x \in S : below(x) \subseteq S
    OBVIOUS
  <2> HIDE DEF below
  <2> QED
    BY <2>1, FS_Subset, FS_CardinalityType
<1>2. PICK m \in S : \A x \in S : Cardinality(below(m)) <= Cardinality(below(x))
  <2>1. sizes \subseteq Nat /\ sizes # {}
    <3> HIDE DEF below
    <3> QED BY <1>1
  <2>2. PICK n \in sizes : \A k \in sizes : n <= k
    <3> HIDE DEF sizes
    <3> QED BY <2>1, LeastNumber
  <2> HIDE DEF below
  <2> QED
    BY <2>2
<1>3. ASSUME NEW x \in S, <<x, m>> \in R PROVE FALSE
  <2>1. below(x) \subseteq below(m) /\ x \in below(m) /\ x \notin below(x)
    BY <1>3
  <2> HIDE DEF below
  <2>2. /\ Cardinality(below(x)) <= Cardinality(below(m))
        /\ Cardinality(below(m)) = Cardinality(below(x)) => below(m) = below(x)
    BY <2>1, <1>1, FS_Subset
  <2> QED
    BY <2>1, <2>2, <1>1, <1>2
<1> QED
  BY <1>3

(***************************************************************************)
(* A finite set in the order of a strict total order: every rank is there. *)
(***************************************************************************)
StrictTotalOrder(R, S) ==
  /\ \A x \in S : <<x, x>> \notin R
  /\ \A x, y, z \in S : <<x, y>> \in R /\ <<y, z>> \in R => <<x, z>> \in R
  /\ \A x, y \in S : x = y \/ <<x, y>> \in R \/ <<y, x>> \in R

LEMMA RanksExist ==
  ASSUME NEW S, IsFiniteSet(S), NEW R, StrictTotalOrder(R, S)
  PROVE  /\ Cardinality(S) \in Nat
         /\ \A k \in 1..Cardinality(S) :
              \E x \in S : Cardinality(SetLessThan(x, R, S)) = k - 1
<1> DEFINE below(x) == SetLessThan(x, R, S)
           n == Cardinality(S)
           rank == [x \in S |-> Cardinality(below(x))]
<1>1. n \in Nat
  BY FS_CardinalityType
<1>2. \A x \in S : IsFiniteSet(below(x)) /\ below(x) \in SUBSET S /\ x \notin below(x)
  BY FS_Subset DEF StrictTotalOrder, SetLessThan
<1>3. \A x \in S : rank[x] \in 0..(n - 1)
  <2> SUFFICES ASSUME NEW x \in S PROVE Cardinality(below(x)) \in 0..(n - 1)
    OBVIOUS
  <2>1. Cardinality(below(x)) \in Nat
    BY <1>2, FS_CardinalityType
  <2>2. Cardinality(below(x)) <= n /\ Cardinality(below(x)) # n
    BY <1>2, FS_Subset
  <2> QED
    BY <1>1, <2>1, <2>2
<1>4. \A x, y \in S : <<x, y>> \in R => rank[x] # rank[y]
  <2> SUFFICES ASSUME NEW x \in S, NEW y \in S, <<x, y>> \in R PROVE rank[x] # rank[y]
    OBVIOUS
  <2>1. below(x) \in SUBSET below(y) /\ x \in below(y) /\ x \notin below(x)
    BY <1>2 DEF StrictTotalOrder, SetLessThan
  <2>2. Cardinality(below(x)) # Cardinality(below(y))
    BY <1>2, <2>1, FS_Subset
  <2> QED
    BY <2>2
<1>5. rank \in Injection(S, 0..(n - 1))
  <2>1. rank \in [S -> 0..(n - 1)]
    BY <1>3
  <2>2. \A x, y \in S : rank[x] = rank[y] => x = y
    BY <1>4 DEF StrictTotalOrder
  <2> HIDE DEF rank
  <2> QED
    BY <2>1, <2>2 DEF Injection, IsInjective
<1>6. IsFiniteSet(0..(n - 1)) /\ Cardinality(0..(n - 1)) = n
  BY <1>1, FS_Interval
<1>7. rank \in Surjection(S, 0..(n - 1))
  BY <1>5, <1>6, FS_Injection
<1>8. \A i \in 0..(n - 1) : \E x \in S : rank[x] = i
  BY <1>7 DEF Surjection
<1> QED
  BY <1>1, <1>8

\* Elements that have the ranks 0, 1, ... are all the elements, in order.
LEMMA RanksInOrder ==
  ASSUME NEW S, IsFiniteSet(S), NEW R, StrictTotalOrder(R, S), NEW order,
         \A k \in 1..Cardinality(S) :
           order[k] \in S /\ Cardinality(SetLessThan(order[k], R, S)) = k - 1
  PROVE  /\ \A x \in S : \E k \in 1..Cardinality(S) : order[k] = x
         /\ \A k, l \in 1..Cardinality(S) : k < l <=> <<order[k], order[l]>> \in R
<1> DEFINE below(x) == SetLessThan(x, R, S)
           n == Cardinality(S)
           rank == [x \in S |-> Cardinality(below(x))]
<1>1. n \in Nat
  BY FS_CardinalityType
<1>2. \A x \in S : IsFiniteSet(below(x)) /\ below(x) \in SUBSET S /\ x \notin below(x)
  BY FS_Subset DEF StrictTotalOrder, SetLessThan
<1>3. \A x \in S : rank[x] \in 0..(n - 1)
  <2> SUFFICES ASSUME NEW x \in S PROVE Cardinality(below(x)) \in 0..(n - 1)
    OBVIOUS
  <2>1. Cardinality(below(x)) \in Nat
    BY <1>2, FS_CardinalityType
  <2>2. Cardinality(below(x)) <= n /\ Cardinality(below(x)) # n
    BY <1>2, FS_Subset
  <2> QED
    BY <1>1, <2>1, <2>2
<1>4. \A x, y \in S : <<x, y>> \in R => rank[x] < rank[y]
  <2> SUFFICES ASSUME NEW x \in S, NEW y \in S, <<x, y>> \in R PROVE rank[x] < rank[y]
    OBVIOUS
  <2>1. below(x) \in SUBSET below(y) /\ x \in below(y) /\ x \notin below(x)
    BY <1>2 DEF StrictTotalOrder, SetLessThan
  <2>2. /\ Cardinality(below(x)) <= Cardinality(below(y))
        /\ Cardinality(below(x)) # Cardinality(below(y))
    BY <1>2, <2>1, FS_Subset
  <2> HIDE DEF below
  <2> QED
    BY <1>1, <1>3, <2>2
<1>5. \A k \in 1..n : order[k] \in S /\ rank[order[k]] = k - 1
  OBVIOUS
<1> HIDE DEF rank, n
<1>6. ASSUME NEW x \in S, NEW y \in S, rank[x] = rank[y] PROVE x = y
  <2>1. ~(rank[x] < rank[y]) /\ ~(rank[y] < rank[x])
    BY <1>1, <1>3, <1>6
  <2>2. <<x, y>> \notin R /\ <<y, x>> \notin R
    BY <1>4, <2>1
  <2> QED
    BY <2>2 DEF StrictTotalOrder
<1>7. ASSUME NEW x \in S PROVE \E k \in 1..n : order[k] = x
  <2>1. rank[x] + 1 \in 1..n
    BY <1>1, <1>3
  <2>2. rank[order[rank[x] + 1]] = rank[x] /\ order[rank[x] + 1] \in S
    BY <1>1, <1>3, <1>5, <2>1
  <2> QED
    BY <2>1, <2>2, <1>6
<1>8. ASSUME NEW k \in 1..n, NEW l \in 1..n PROVE k < l <=> <<order[k], order[l]>> \in R
  <2>1. /\ order[k] \in S /\ order[l] \in S
        /\ rank[order[k]] = k - 1 /\ rank[order[l]] = l - 1
    BY <1>5
  <2>2. <<order[k], order[l]>> \in R => k < l
    BY <2>1, <1>1, <1>4
  <2>3. <<order[l], order[k]>> \in R => l < k
    BY <2>1, <1>1, <1>4
  <2>4. order[k] = order[l] => k = l
    BY <2>1, <1>1
  <2> QED
    BY <2>1, <2>2, <2>3, <2>4, <1>1 DEF StrictTotalOrder
<1> QED
  BY <1>7, <1>8 DEF n

Before(i, indices) == {j \in indices : j < i}

\* A sublist has an element for each of the indices.
LEMMA SublistElements ==
  ASSUME NEW s, NEW indices, indices \subseteq Nat, IsFiniteSet(indices)
  PROVE  /\ Cardinality(indices) \in Nat
         /\ DOMAIN Sublist(s, indices) = 1..Cardinality(indices)
         /\ \A k \in 1..Cardinality(indices) :
              \E i \in indices : /\ Cardinality(Before(i, indices)) = k - 1
                                /\ Sublist(s, indices)[k] = s[i]
<1> DEFINE R == {p \in indices \X indices : p[1] < p[2]}
           at(k) == CHOOSE i \in indices : Cardinality(Before(i, indices)) = k - 1
<1>1. StrictTotalOrder(R, indices)
  BY DEF StrictTotalOrder
<1>2. \A i \in indices : SetLessThan(i, R, indices) = Before(i, indices)
  BY DEF SetLessThan, Before
<1>3. /\ Cardinality(indices) \in Nat
      /\ \A k \in 1..Cardinality(indices) :
           \E i \in indices : Cardinality(SetLessThan(i, R, indices)) = k - 1
  <2> HIDE DEF R
  <2> QED BY <1>1, RanksExist
<1>4. \A k \in 1..Cardinality(indices) :
        at(k) \in indices /\ Cardinality(Before(at(k), indices)) = k - 1
  <2> SUFFICES ASSUME NEW k \in 1..Cardinality(indices)
               PROVE  \E i \in indices : Cardinality(Before(i, indices)) = k - 1
    OBVIOUS
  <2>1. PICK i \in indices : Cardinality(SetLessThan(i, R, indices)) = k - 1
    BY <1>3
  <2> QED
    BY <2>1, <1>2
<1>5. Sublist(s, indices) = [k \in 1..Cardinality(indices) |-> s[at(k)]]
  BY DEF Sublist, Ranked, Before
<1> QED
  <2> HIDE DEF at
  <2> QED BY <1>3, <1>4, <1>5

\* The sublist of all elements is the list.
LEMMA SublistOfAll ==
  ASSUME NEW X, NEW s \in Seq(X)
  PROVE  Sublist(s, DOMAIN s) = s
<1>1. DOMAIN s = 1..Len(s) /\ Len(s) \in Nat
  OBVIOUS
<1>2. IsFiniteSet(DOMAIN s) /\ Cardinality(DOMAIN s) = Len(s)
  BY <1>1, FS_Interval
<1> DEFINE before(i) == Before(i, DOMAIN s)
<1>3. \A i \in 1..Len(s) : Cardinality(before(i)) = i - 1
  <2> SUFFICES ASSUME NEW i \in 1..Len(s)
               PROVE  Cardinality(before(i)) = i - 1
    OBVIOUS
  <2>1. before(i) = 1..(i - 1) /\ 1 \in Int /\ i - 1 \in Int
    BY <1>1 DEF Before
  <2>2. Cardinality(1..(i - 1)) = IF 1 > i - 1 THEN 0 ELSE (i - 1) - 1 + 1
    BY <2>1, FS_Interval
  <2> QED
    BY <1>1, <2>1, <2>2
<1>4. /\ DOMAIN Sublist(s, DOMAIN s) = 1..Len(s)
      /\ \A k \in 1..Len(s) : \E i \in DOMAIN s :
           Cardinality(before(i)) = k - 1 /\ Sublist(s, DOMAIN s)[k] = s[i]
  <2>1. DOMAIN s \subseteq Nat
    BY <1>1
  <2> QED
    BY <1>1, <1>2, <2>1, SublistElements
<1>5. \A k \in 1..Len(s) : Sublist(s, DOMAIN s)[k] = s[k]
  <2> SUFFICES ASSUME NEW k \in 1..Len(s) PROVE Sublist(s, DOMAIN s)[k] = s[k]
    OBVIOUS
  <2>1. PICK i \in DOMAIN s : Cardinality(before(i)) = k - 1 /\ Sublist(s, DOMAIN s)[k] = s[i]
    BY <1>4
  <2>2. i - 1 = k - 1 /\ i \in Nat /\ k \in Nat
    <3> HIDE DEF before
    <3> QED BY <1>1, <1>3, <2>1
  <2> QED
    BY <2>1, <2>2
<1>6. Sublist(s, DOMAIN s) = [k \in 1..Len(s) |-> Sublist(s, DOMAIN s)[k]]
  BY <1>4 DEF Sublist, Ranked
<1>7. s = [k \in 1..Len(s) |-> s[k]]
  BY <1>1
<1> QED
  BY <1>5, <1>6, <1>7

(***************************************************************************)
(* A function that is defined by recursion along the indices of a sequence *)
(* exists.                                                                 *)
(***************************************************************************)
Steps(f, base, n, step) ==
  f[0] = base /\ \A i \in 1..n : f[i] = step[<<f[i - 1], i>>]

LEMMA Recursion ==
  ASSUME NEW D, NEW base \in D, NEW n \in Nat, NEW step \in [D \X (1..n) -> D]
  PROVE  \E f \in [0..n -> D] : Steps(f, base, n, step)
<1> USE DEF Steps
<1> DEFINE Upto(m) == \E f \in [0..m -> D] : Steps(f, base, m, step)
           T == {m \in Nat : m <= n => Upto(m)}
<1>1. 0 \in T
  <2> DEFINE f == [i \in 0..0 |-> base]
  <2>1. f \in [0..0 -> D] /\ f[0] = base /\ 1..0 = {}
    OBVIOUS
  <2>2. Upto(0)
    <3> HIDE DEF f
    <3> QED BY <2>1
  <2> QED
    BY <2>2
<1>2. ASSUME NEW m \in T, m + 1 <= n PROVE Upto(m + 1)
  <2>1. PICK f \in [0..m -> D] : f[0] = base /\ \A i \in 1..m : f[i] = step[<<f[i - 1], i>>]
    BY <1>2
  <2> DEFINE g == [i \in 0..(m + 1) |-> IF i <= m THEN f[i] ELSE step[<<f[m], m + 1>>]]
  <2>2. step[<<f[m], m + 1>>] \in D
    BY <1>2
  <2>3. g \in [0..(m + 1) -> D]
    BY <2>2
  <2>4. (\A i \in 0..m : g[i] = f[i]) /\ g[m + 1] = step[<<f[m], m + 1>>]
    OBVIOUS
  <2> HIDE DEF g
  <2>5. m \in Nat /\ 0 \in 0..m
    OBVIOUS
  <2>6. g[0] = base
    <3>1. g[0] = f[0]
      BY <2>4, <2>5
    <3>2. f[0] = base
      BY <2>1
    <3> QED
      BY <3>1, <3>2
  <2>7. \A i \in 1..(m + 1) : g[i] = step[<<g[i - 1], i>>]
    <3> SUFFICES ASSUME NEW i \in 1..(m + 1) PROVE g[i] = step[<<g[i - 1], i>>]
      OBVIOUS
    <3>1. i - 1 \in 0..m /\ g[i - 1] = f[i - 1]
      BY <2>4, <2>5
    <3>2. CASE i \in 1..m
      BY <3>1, <3>2, <2>1, <2>4, <2>5
    <3>3. CASE i = m + 1
      BY <3>1, <3>3, <2>4, <2>5
    <3> QED
      BY <3>2, <3>3, <2>5
  <2> QED
    BY <2>3, <2>6, <2>7
<1>3. \A m \in T \cap Nat : m + 1 \in T
  BY <1>2
<1>4. n \in T
  <2> HIDE DEF T
  <2> QED BY <1>1, <1>3, Induction
<1> QED
  BY <1>4

(***************************************************************************)
(* The order of words.                                                     *)
(***************************************************************************)
\* The words agree before the letter i, where the first ends or is less.
LessAt(v, w, i) ==
  /\ i \in 1..(Len(v) + 1) /\ i <= Len(w)
  /\ \A j \in 1..(i - 1) : v[j] = w[j]
  /\ i <= Len(v) => v[i] < w[i]

LEMMA SamePrefix ==
  ASSUME NEW v \in Seq(Nat), NEW w \in Seq(Nat), NEW k \in Nat, k <= Len(v), k <= Len(w)
  PROVE  SubSeq(v, 1, k) = SubSeq(w, 1, k) <=> \A j \in 1..k : v[j] = w[j]
<1>1. /\ SubSeq(v, 1, k) = [j \in 1..k |-> v[j]]
      /\ SubSeq(w, 1, k) = [j \in 1..k |-> w[j]]
  OBVIOUS
<1>2. ASSUME [j \in 1..k |-> v[j]] = [j \in 1..k |-> w[j]], NEW j \in 1..k PROVE v[j] = w[j]
  <2>1. [i \in 1..k |-> v[i]][j] = [i \in 1..k |-> w[i]][j]
    BY <1>2
  <2> QED
    BY <2>1
<1> QED
  BY <1>1, <1>2

LEMMA WordLessAt ==
  ASSUME NEW v \in Seq(Nat), NEW w \in Seq(Nat)
  PROVE  WordLess(v, w) <=> \E i \in Nat : LessAt(v, w, i)
<1>1. Len(v) \in Nat /\ Len(w) \in Nat
  OBVIOUS
<1>2. v = SubSeq(v, 1, Len(v))
  OBVIOUS
<1>3. ASSUME WordLess(v, w) PROVE \E i \in Nat : LessAt(v, w, i)
  <2>1. ASSUME NEW i \in 1..Len(v), i <= Len(w), v[i] < w[i],
               SubSeq(v, 1, i - 1) = SubSeq(w, 1, i - 1)
        PROVE  LessAt(v, w, i)
    BY <1>1, <2>1, SamePrefix DEF LessAt
  <2>2. ASSUME Len(v) < Len(w), v = SubSeq(w, 1, Len(v))
        PROVE  LessAt(v, w, Len(v) + 1)
    <3>1. \A j \in 1..Len(v) : v[j] = w[j]
      BY <1>1, <1>2, <2>2, SamePrefix
    <3> QED
      BY <1>1, <2>2, <3>1 DEF LessAt
  <2> QED
    BY <1>1, <1>3, <2>1, <2>2 DEF WordLess
<1>4. ASSUME NEW i \in Nat, LessAt(v, w, i) PROVE WordLess(v, w)
  <2>1. CASE i <= Len(v)
    <3>1. SubSeq(v, 1, i - 1) = SubSeq(w, 1, i - 1)
      BY <1>1, <1>4, <2>1, SamePrefix DEF LessAt
    <3> QED
      BY <1>1, <1>4, <2>1, <3>1 DEF LessAt, WordLess
  <2>2. CASE i = Len(v) + 1
    <3>1. SubSeq(v, 1, Len(v)) = SubSeq(w, 1, Len(v))
      BY <1>1, <1>4, <2>2, SamePrefix DEF LessAt
    <3> QED
      BY <1>1, <1>2, <1>4, <2>2, <3>1 DEF LessAt, WordLess
  <2> QED
    BY <1>1, <1>4, <2>1, <2>2 DEF LessAt
<1> QED
  BY <1>3, <1>4

LEMMA WordLessIrreflexive ==
  ASSUME NEW v \in Seq(Nat)
  PROVE  ~WordLess(v, v)
BY WordLessAt DEF LessAt

LEMMA WordLessTransitive ==
  ASSUME NEW u \in Seq(Nat), NEW v \in Seq(Nat), NEW w \in Seq(Nat),
         WordLess(u, v), WordLess(v, w)
  PROVE  WordLess(u, w)
<1>1. PICK i \in Nat : LessAt(u, v, i)
  BY WordLessAt
<1>2. PICK j \in Nat : LessAt(v, w, j)
  BY WordLessAt
<1>0. /\ Len(u) \in Nat /\ Len(v) \in Nat /\ Len(w) \in Nat
      /\ \A k \in 1..Len(u) : u[k] \in Nat
      /\ \A k \in 1..Len(v) : v[k] \in Nat
      /\ \A k \in 1..Len(w) : w[k] \in Nat
  OBVIOUS
<1>a. /\ 1 <= i /\ i <= Len(u) + 1 /\ i <= Len(v)
      /\ \A k \in 1..(i - 1) : u[k] = v[k]
      /\ i <= Len(u) => u[i] < v[i]
  BY <1>0, <1>1 DEF LessAt
<1>b. /\ 1 <= j /\ j <= Len(v) + 1 /\ j <= Len(w)
      /\ \A k \in 1..(j - 1) : v[k] = w[k]
      /\ j <= Len(v) => v[j] < w[j]
  BY <1>0, <1>2 DEF LessAt
<1>3. CASE i <= j
  <2>1. i \in 1..(Len(u) + 1) /\ i <= Len(w)
    BY <1>0, <1>a, <1>b, <1>3
  <2>2. \A k \in 1..(i - 1) : u[k] = w[k]
    BY <1>a, <1>b, <1>3
  <2>3. ASSUME i <= Len(u) PROVE u[i] < w[i]
    <3>1. u[i] < v[i] /\ u[i] \in Nat /\ v[i] \in Nat /\ w[i] \in Nat
      BY <1>0, <1>a, <2>1, <2>3
    <3>2. v[i] <= w[i]
      <4>1. CASE i = j
        BY <1>a, <1>b, <3>1, <4>1
      <4>2. CASE i < j
        BY <1>a, <1>b, <3>1, <4>2
      <4> QED
        BY <1>3, <4>1, <4>2
    <3> QED
      BY <3>1, <3>2
  <2>4. LessAt(u, w, i)
    BY <2>1, <2>2, <2>3 DEF LessAt
  <2> QED
    BY <2>4, WordLessAt
<1>4. CASE j < i
  <2>1. j \in 1..(Len(u) + 1) /\ j <= Len(w) /\ j <= Len(u) /\ j <= Len(v) /\ j \in 1..(i - 1)
    <3> DEFINE m == Len(u)
               n == Len(v)
    <3>1. m \in Nat /\ n \in Nat /\ i <= m + 1 /\ i <= n /\ 1 <= j /\ j <= Len(w)
      BY <1>0, <1>a, <1>b
    <3> HIDE DEF m, n
    <3>2. j \in 1..(m + 1) /\ j <= m /\ j <= n /\ j \in 1..(i - 1)
      BY <3>1, <1>4
    <3> QED
      BY <3>1, <3>2 DEF m, n
  <2>2. \A k \in 1..(j - 1) : u[k] = w[k]
    BY <1>a, <1>b, <1>4
  <2>3. u[j] < w[j]
    BY <1>a, <1>b, <2>1
  <2>4. LessAt(u, w, j)
    BY <2>1, <2>2, <2>3 DEF LessAt
  <2> QED
    BY <2>4, WordLessAt
<1> QED
  BY <1>3, <1>4

LEMMA WordLessTotal ==
  ASSUME NEW v \in Seq(Nat), NEW w \in Seq(Nat)
  PROVE  v = w \/ WordLess(v, w) \/ WordLess(w, v)
<1> DEFINE T == {i \in Nat : i >= 1 /\ (i > Len(v) \/ i > Len(w) \/ v[i] # w[i])}
<1>1. Len(v) \in Nat /\ Len(w) \in Nat
  OBVIOUS
<1>2. Len(v) + 1 \in T
  BY <1>1
<1>3. PICK i \in T : \A k \in T : i <= k
  <2> HIDE DEF T
  <2>1. T \subseteq Nat
    BY DEF T
  <2> QED
    BY <1>2, <2>1, LeastNumber
<1>4. \A j \in 1..(i - 1) : j <= Len(v) /\ j <= Len(w) /\ v[j] = w[j]
  BY <1>1, <1>3
<1>5. i <= Len(v) + 1 /\ i <= Len(w) + 1
  <2>1. Len(w) + 1 \in T
    BY <1>1
  <2> QED
    BY <1>2, <1>3, <2>1
<1>6. CASE i > Len(v) /\ i > Len(w)
  <2>1. Len(v) = Len(w) /\ \A j \in 1..Len(v) : v[j] = w[j]
    BY <1>1, <1>4, <1>5, <1>6
  <2>2. v = [j \in 1..Len(v) |-> v[j]] /\ w = [j \in 1..Len(w) |-> w[j]]
    OBVIOUS
  <2> QED
    BY <2>1, <2>2
<1>7. CASE i > Len(v) /\ i <= Len(w)
  <2>1. LessAt(v, w, i)
    BY <1>1, <1>4, <1>5, <1>7 DEF LessAt
  <2> QED
    BY <2>1, WordLessAt
<1>8. CASE i <= Len(v) /\ i > Len(w)
  <2>1. LessAt(w, v, i)
    BY <1>1, <1>4, <1>5, <1>8 DEF LessAt
  <2> QED
    BY <2>1, WordLessAt
<1>9. CASE i <= Len(v) /\ i <= Len(w)
  <2>1. v[i] \in Nat /\ w[i] \in Nat /\ v[i] # w[i]
    BY <1>1, <1>3, <1>9
  <2>2. LessAt(v, w, i) \/ LessAt(w, v, i)
    BY <1>1, <1>3, <1>4, <1>9, <2>1 DEF LessAt
  <2> QED
    BY <2>2, WordLessAt
<1> QED
  BY <1>1, <1>6, <1>7, <1>8, <1>9

(***************************************************************************)
(* Normalization.                                                          *)
(***************************************************************************)
LEMMA WithLetterType ==
  ASSUME NEW done \in Seq(Nat), NEW c \in Nat
  PROVE  WithLetter(done, c) \in Seq(Nat)
<1>1. CASE done # <<>> /\ <<done[Len(done)], c>> \in DOMAIN Composed
  <2>1. Composed[<<done[Len(done)], c>>] \in Nat
    BY <1>1, LettersAssumption
  <2>2. SubSeq(done, 1, Len(done) - 1) \in Seq(Nat)
    OBVIOUS
  <2> QED
    BY <1>1, <2>1, <2>2 DEF WithLetter
<1>2. CASE ~(done # <<>> /\ <<done[Len(done)], c>> \in DOMAIN Composed)
  BY <1>2 DEF WithLetter
<1> QED
  BY <1>1, <1>2

\* The words that Compose goes through.
LEMMA ComposeSteps ==
  ASSUME NEW w \in Seq(Nat)
  PROVE  \E upTo : /\ upTo[0] = <<>>
                   /\ \A i \in 1..Len(w) : upTo[i] = WithLetter(upTo[i - 1], w[i])
                   /\ Compose(w) = upTo[Len(w)]
<1> DEFINE upTo == CHOOSE upTo : upTo = [i \in 0..Len(w) |->
                     IF i = 0 THEN <<>> ELSE WithLetter(upTo[i - 1], w[i])]
           step == [p \in Seq(Nat) \X (1..Len(w)) |-> WithLetter(p[1], w[p[2]])]
<1>1. Len(w) \in Nat /\ \A i \in 1..Len(w) : w[i] \in Nat
  OBVIOUS
<1>2. step \in [Seq(Nat) \X (1..Len(w)) -> Seq(Nat)]
  BY <1>1, WithLetterType
<1>3. PICK f \in [0..Len(w) -> Seq(Nat)] :
        f[0] = <<>> /\ \A i \in 1..Len(w) : f[i] = step[<<f[i - 1], i>>]
  <2> DEFINE D == Seq(Nat)
             n == Len(w)
             base == <<>>
  <2>1. base \in D /\ n \in Nat /\ step \in [D \X (1..n) -> D]
    BY <1>1, <1>2
  <2>2. \E f \in [0..n -> D] : Steps(f, base, n, step)
    <3> HIDE DEF step, D, n, base
    <3> QED BY <2>1, Recursion
  <2> QED
    BY <2>2 DEF Steps
<1>4. f = [i \in 0..Len(w) |-> IF i = 0 THEN <<>> ELSE WithLetter(f[i - 1], w[i])]
  <2>1. ASSUME NEW i \in 1..Len(w) PROVE f[i] = WithLetter(f[i - 1], w[i])
    <3>0. i \in 1..Len(w) /\ i - 1 \in 0..Len(w)
      BY <1>1
    <3>1. f[i - 1] \in Seq(Nat) /\ <<f[i - 1], i>> \in Seq(Nat) \X (1..Len(w))
      BY <3>0
    <3>2. step[<<f[i - 1], i>>] = WithLetter(f[i - 1], w[i])
      BY <3>1
    <3> QED
      BY <1>3, <3>2
  <2>2. \A i \in 0..Len(w) : f[i] = IF i = 0 THEN <<>> ELSE WithLetter(f[i - 1], w[i])
    BY <1>1, <1>3, <2>1
  <2> QED
    BY <2>2
<1>5. upTo = [i \in 0..Len(w) |-> IF i = 0 THEN <<>> ELSE WithLetter(upTo[i - 1], w[i])]
  BY <1>4
<1>6. Compose(w) = upTo[Len(w)]
  BY DEF Compose
<1>7. upTo[0] = <<>> /\ \A i \in 1..Len(w) : upTo[i] = WithLetter(upTo[i - 1], w[i])
  <2> HIDE DEF upTo
  <2> QED BY <1>1, <1>5
<1> QED
  <2> HIDE DEF upTo
  <2> QED BY <1>6, <1>7

LEMMA ComposeType ==
  ASSUME NEW w \in Seq(Nat)
  PROVE  Compose(w) \in Seq(Nat)
<1>1. PICK upTo : /\ upTo[0] = <<>>
                  /\ \A i \in 1..Len(w) : upTo[i] = WithLetter(upTo[i - 1], w[i])
                  /\ Compose(w) = upTo[Len(w)]
  BY ComposeSteps
<1> DEFINE T == {i \in Nat : i <= Len(w) => upTo[i] \in Seq(Nat)}
<1>2. 0 \in T
  <2>1. upTo[0] \in Seq(Nat)
    BY <1>1
  <2> QED
    BY <2>1
<1>3. ASSUME NEW i \in T, i + 1 <= Len(w) PROVE upTo[i + 1] \in Seq(Nat)
  <2>1. i + 1 \in 1..Len(w) /\ (i + 1) - 1 = i /\ upTo[i] \in Seq(Nat) /\ w[i + 1] \in Nat
    BY <1>3
  <2>2. upTo[i + 1] = WithLetter(upTo[i], w[i + 1])
    BY <1>1, <2>1
  <2> QED
    BY <2>1, <2>2, WithLetterType
<1>4. \A i \in T \cap Nat : i + 1 \in T
  BY <1>3
<1>5. Len(w) \in T
  <2> HIDE DEF T
  <2> QED BY <1>2, <1>4, Induction
<1> QED
  BY <1>1, <1>5

\* A word without combining marks is composed.
LEMMA ComposeNothing ==
  ASSUME NEW w \in Seq(Nat), \A i \in 1..Len(w) : \A p \in DOMAIN Composed : p[2] # w[i]
  PROVE  Compose(w) = w
<1>1. PICK upTo : /\ upTo[0] = <<>>
                  /\ \A i \in 1..Len(w) : upTo[i] = WithLetter(upTo[i - 1], w[i])
                  /\ Compose(w) = upTo[Len(w)]
  BY ComposeSteps
<1> DEFINE T == {i \in Nat : i <= Len(w) => upTo[i] = SubSeq(w, 1, i)}
<1>2. 0 \in T
  <2>1. upTo[0] = SubSeq(w, 1, 0)
    BY <1>1
  <2> QED
    BY <2>1
<1>3. ASSUME NEW i \in T, i + 1 <= Len(w) PROVE upTo[i + 1] = SubSeq(w, 1, i + 1)
  <2>0. i + 1 \in 1..Len(w) /\ (i + 1) - 1 = i /\ upTo[i] = SubSeq(w, 1, i)
    BY <1>3
  <2>1. upTo[i + 1] = WithLetter(SubSeq(w, 1, i), w[i + 1])
    BY <1>1, <2>0
  <2>2. <<SubSeq(w, 1, i)[Len(SubSeq(w, 1, i))], w[i + 1]>> \notin DOMAIN Composed
    BY <1>3
  <2>3. upTo[i + 1] = Append(SubSeq(w, 1, i), w[i + 1])
    BY <2>1, <2>2 DEF WithLetter
  <2> QED
    BY <1>3, <2>3
<1>4. \A i \in T \cap Nat : i + 1 \in T
  <2> SUFFICES ASSUME NEW i \in T PROVE i + 1 <= Len(w) => upTo[i + 1] = SubSeq(w, 1, i + 1)
    OBVIOUS
  <2> QED
    BY <1>3
<1>5. Len(w) \in T
  <2> HIDE DEF T
  <2> QED BY <1>2, <1>4, Induction
<1>6. SubSeq(w, 1, Len(w)) = w
  OBVIOUS
<1> QED
  BY <1>1, <1>5, <1>6

LEMMA SublistType ==
  ASSUME NEW X, NEW s \in Seq(X), NEW indices \in SUBSET DOMAIN s
  PROVE  /\ Sublist(s, indices) \in Seq(X)
         /\ \A k \in DOMAIN Sublist(s, indices) : \E i \in indices : Sublist(s, indices)[k] = s[i]
<1>1. DOMAIN s = 1..Len(s) /\ Len(s) \in Nat
  OBVIOUS
<1>2. IsFiniteSet(indices) /\ indices \subseteq Nat
  <2>1. IsFiniteSet(1..Len(s))
    BY <1>1, FS_Interval
  <2> QED
    BY <1>1, <2>1, FS_Subset
<1> DEFINE n == Cardinality(indices)
           t == Sublist(s, indices)
<1>3. n \in Nat /\ DOMAIN t = 1..n /\ \A k \in 1..n : \E i \in indices : t[k] = s[i]
  BY <1>2, SublistElements
<1>4. t = [k \in 1..n |-> t[k]]
  BY DEF Sublist, Ranked
<1>5. \A k \in 1..n : t[k] \in X
  BY <1>3
<1>6. t \in Seq(X)
  <2> HIDE DEF t, n
  <2> QED BY <1>3, <1>4, <1>5
<1> QED
  BY <1>3, <1>6

LEMMA LowerType ==
  ASSUME NEW w \in Seq(Nat)
  PROVE  /\ ToLowerCase(w) \in Seq(Nat)
         /\ ToLowerCase(ToLowerCase(w)) = ToLowerCase(w)
<1>1. \A c \in Nat : /\ Mapped(LowerOf, c) \in Nat
                      /\ Mapped(LowerOf, Mapped(LowerOf, c)) = Mapped(LowerOf, c)
  BY LettersAssumption DEF Mapped
<1> DEFINE v == ToLowerCase(w)
<1>2. /\ v = [i \in 1..Len(w) |-> Mapped(LowerOf, w[i])]
      /\ \A i \in 1..Len(w) : w[i] \in Nat
      /\ Len(w) \in Nat
  BY DEF ToLowerCase
<1>3. v \in Seq(Nat) /\ Len(v) = Len(w)
  <2> HIDE DEF v
  <2> QED BY <1>1, <1>2
<1>4. \A i \in 1..Len(w) : Mapped(LowerOf, v[i]) = v[i]
  <2> HIDE DEF v
  <2> QED BY <1>1, <1>2
<1>5. ToLowerCase(v) = [i \in 1..Len(w) |-> v[i]]
  <2> HIDE DEF v
  <2> QED BY <1>3, <1>4 DEF ToLowerCase
<1>6. v = [i \in 1..Len(w) |-> v[i]]
  <2> HIDE DEF v
  <2> QED BY <1>2
<1> QED
  BY <1>3, <1>5, <1>6

LEMMA NormalizeType ==
  ASSUME NEW w \in Seq(Nat)
  PROVE  /\ Normalize(w) \in Seq(Nat)
         /\ ToLowerCase(Normalize(w)) = Normalize(w)
<1>1. Visible(w) \in Seq(Nat)
  BY SublistType DEF Visible
<1>2. Compose(Visible(w)) \in Seq(Nat)
  BY <1>1, ComposeType
<1> QED
  BY <1>2, LowerType DEF Normalize

\* A lower-case word without invisible characters and combining marks is its own
\* normalization.
LEMMA NormalizeNothing ==
  ASSUME NEW w \in Seq(Nat), ToLowerCase(w) = w,
         \A i \in 1..Len(w) : w[i] \notin Ignored /\ \A p \in DOMAIN Composed : p[2] # w[i]
  PROVE  Normalize(w) = w
<1>1. {i \in DOMAIN w : w[i] \notin Ignored} = DOMAIN w
  <2>1. DOMAIN w = 1..Len(w)
    OBVIOUS
  <2> QED
    BY <2>1
<1>2. Visible(w) = w
  BY <1>1, SublistOfAll DEF Visible
<1> QED
  BY <1>2, ComposeNothing DEF Normalize

(***************************************************************************)
(* Numbers in ascending order, words in the order of strings.              *)
(***************************************************************************)
Ascending(S) ==
  [k \in 1..Cardinality(S) |-> CHOOSE x \in S : Cardinality({y \in S : y < x}) = k - 1]

InWordOrder(S) ==
  [k \in 1..Cardinality(S) |->
     CHOOSE x \in S : Cardinality({y \in S : WordLess(y, x)}) = k - 1]

IsAscending(order, S) ==
  /\ order \in Seq(S) /\ Len(order) = Cardinality(S)
  /\ \A x \in S : \E k \in DOMAIN order : order[k] = x
  /\ \A k, l \in DOMAIN order : k < l <=> order[k] < order[l]

LEMMA NumbersRanked ==
  ASSUME NEW S, S \subseteq Nat, IsFiniteSet(S)
  PROVE  IsAscending(Ascending(S), S)
<1> DEFINE order == Ascending(S)
<1> DEFINE R == {p \in S \X S : p[1] < p[2]}
           n == Cardinality(S)
           at(k) == CHOOSE x \in S : Cardinality({y \in S : y < x}) = k - 1
<1>1. StrictTotalOrder(R, S)
  BY DEF StrictTotalOrder
<1>2. \A x \in S : SetLessThan(x, R, S) = {y \in S : y < x}
  BY DEF SetLessThan
<1>3. /\ n \in Nat
      /\ \A k \in 1..n : \E x \in S : Cardinality(SetLessThan(x, R, S)) = k - 1
  <2> HIDE DEF R
  <2> QED BY <1>1, RanksExist
<1>4. ASSUME NEW k \in 1..n
      PROVE  at(k) \in S /\ Cardinality(SetLessThan(at(k), R, S)) = k - 1
  <2>1. PICK x \in S : Cardinality(SetLessThan(x, R, S)) = k - 1
    BY <1>3
  <2>2. Cardinality({y \in S : y < x}) = k - 1
    BY <2>1, <1>2
  <2>3. at(k) \in S /\ Cardinality({y \in S : y < at(k)}) = k - 1
    BY <2>2
  <2> QED
    BY <2>3, <1>2
<1>5. order = [k \in 1..n |-> at(k)]
  BY DEF Ascending
<1> HIDE DEF at, order
<1>6. DOMAIN order = 1..n /\ \A k \in 1..n : order[k] = at(k)
  BY <1>5
<1>7. order \in Seq(S) /\ Len(order) = n
  <2> HIDE DEF n, R
  <2> QED BY <1>3, <1>4, <1>5
<1>8. /\ \A x \in S : \E k \in 1..n : order[k] = x
      /\ \A k, l \in 1..n : k < l <=> order[k] < order[l]
  <2>1. \A k \in 1..n : order[k] \in S /\ Cardinality(SetLessThan(order[k], R, S)) = k - 1
    BY <1>4, <1>6
  <2>2. /\ \A x \in S : \E k \in 1..n : order[k] = x
        /\ \A k, l \in 1..n : k < l <=> <<order[k], order[l]>> \in R
    <3> HIDE DEF R
    <3> QED BY <2>1, <1>1, RanksInOrder
  <2>3. \A k, l \in 1..n : <<order[k], order[l]>> \in R <=> order[k] < order[l]
    <3> HIDE DEF n
    <3> QED BY <2>1
  <2> HIDE DEF n, R
  <2> QED
    BY <2>2, <2>3
<1> QED
  <2> HIDE DEF n
  <2>1. IsAscending(order, S)
    BY ONLY <1>6, <1>7, <1>8 DEF n, IsAscending
  <2> QED
    BY ONLY <2>1 DEF order

LEMMA WordsRanked ==
  ASSUME NEW S, S \subseteq Seq(Nat), IsFiniteSet(S), NEW order,
         order = InWordOrder(S)
  PROVE  /\ order \in Seq(S) /\ Len(order) = Cardinality(S)
         /\ \A x \in S : \E k \in DOMAIN order : order[k] = x
         /\ \A k, l \in DOMAIN order : k < l <=> WordLess(order[k], order[l])
<1> DEFINE R == {p \in S \X S : WordLess(p[1], p[2])}
           n == Cardinality(S)
           at(k) == CHOOSE x \in S : Cardinality({y \in S : WordLess(y, x)}) = k - 1
<1>1. StrictTotalOrder(R, S)
  <2>1. \A x \in S : ~WordLess(x, x)
    BY WordLessIrreflexive
  <2>2. \A x, y, z \in S : WordLess(x, y) /\ WordLess(y, z) => WordLess(x, z)
    BY WordLessTransitive
  <2>3. \A x, y \in S : x = y \/ WordLess(x, y) \/ WordLess(y, x)
    BY WordLessTotal
  <2> QED
    BY <2>1, <2>2, <2>3 DEF StrictTotalOrder
<1>2. \A x \in S : SetLessThan(x, R, S) = {y \in S : WordLess(y, x)}
  BY DEF SetLessThan
<1>3. /\ n \in Nat
      /\ \A k \in 1..n : \E x \in S : Cardinality(SetLessThan(x, R, S)) = k - 1
  <2> HIDE DEF R
  <2> QED BY <1>1, RanksExist
<1>4. ASSUME NEW k \in 1..n
      PROVE  at(k) \in S /\ Cardinality(SetLessThan(at(k), R, S)) = k - 1
  <2>1. PICK x \in S : Cardinality(SetLessThan(x, R, S)) = k - 1
    BY <1>3
  <2>2. Cardinality({y \in S : WordLess(y, x)}) = k - 1
    BY <2>1, <1>2
  <2>3. at(k) \in S /\ Cardinality({y \in S : WordLess(y, at(k))}) = k - 1
    BY <2>2
  <2> QED
    BY <2>3, <1>2
<1>5. order = [k \in 1..n |-> at(k)]
  BY DEF InWordOrder
<1> HIDE DEF at
<1>6. DOMAIN order = 1..n /\ \A k \in 1..n : order[k] = at(k)
  BY <1>5
<1>7. order \in Seq(S) /\ Len(order) = n
  <2> HIDE DEF n, R
  <2> QED BY <1>3, <1>4, <1>5
<1>8. /\ \A x \in S : \E k \in 1..n : order[k] = x
      /\ \A k, l \in 1..n : k < l <=> WordLess(order[k], order[l])
  <2>1. \A k \in 1..n : order[k] \in S /\ Cardinality(SetLessThan(order[k], R, S)) = k - 1
    BY <1>4, <1>6
  <2>2. /\ \A x \in S : \E k \in 1..n : order[k] = x
        /\ \A k, l \in 1..n : k < l <=> <<order[k], order[l]>> \in R
    <3> HIDE DEF R
    <3> QED BY ONLY <2>1, <1>1, IsFiniteSet(S), RanksInOrder
  <2>3. \A k, l \in 1..n : <<order[k], order[l]>> \in R <=> WordLess(order[k], order[l])
    <3> HIDE DEF n
    <3> QED BY <2>1
  <2> HIDE DEF n, R
  <2> QED
    BY <2>2, <2>3
<1> QED
  <2> HIDE DEF n
  <2> QED BY <1>6, <1>7, <1>8 DEF n

(***************************************************************************)
(* What a sequence holds.                                                  *)
(***************************************************************************)
AsList(s) == s \in Seq(Range(s))

LEMMA ListIs ==
  ASSUME NEW s, AsList(s)
  PROVE  /\ Len(s) \in Nat /\ DOMAIN s = 1..Len(s)
         /\ \A i \in DOMAIN s : i \in Nat /\ s[i] \in Range(s)
         /\ IsFiniteSet(DOMAIN s)
<1>1. Len(s) \in Nat /\ DOMAIN s = 1..Len(s)
  BY DEF AsList
<1>2. IsFiniteSet(1..Len(s))
  BY <1>1, FS_Interval
<1> QED
  BY <1>1, <1>2 DEF Range

LEMMA WordsAreRanked ==
  ASSUME NEW S
  PROVE  Ranked(S, WordLess) = InWordOrder(S)
BY DEF Ranked, InWordOrder

Sorted(lexicon) == Positions(lexicon, LAMBDA i : lexicon[i].normalized)

\* What ordering by form needs: a sequence of records whose forms are words.
Formed(lexicon) ==
  AsList(lexicon) /\ \A i \in DOMAIN lexicon : lexicon[i].normalized \in Seq(Nat)

FormLess(lexicon, a, b) ==
  \/ WordLess(lexicon[a].normalized, lexicon[b].normalized)
  \/ lexicon[a].normalized = lexicon[b].normalized /\ a < b

LEMMA SortedIs ==
  ASSUME NEW lexicon, Formed(lexicon), NEW order, order = Sorted(lexicon)
  PROVE  /\ Len(lexicon) \in Nat /\ DOMAIN lexicon = 1..Len(lexicon)
         /\ DOMAIN order = 1..Len(lexicon)
         /\ \A k \in 1..Len(lexicon) : order[k] \in 1..Len(lexicon)
         /\ \A i \in 1..Len(lexicon) : \E k \in 1..Len(lexicon) : order[k] = i
         /\ \A k, l \in 1..Len(lexicon) : k < l <=> FormLess(lexicon, order[k], order[l])
<1> DEFINE S == DOMAIN lexicon
           R == {p \in S \X S : FormLess(lexicon, p[1], p[2])}
           n == Len(lexicon)
           at(k) == CHOOSE x \in S : Cardinality({y \in S : FormLess(lexicon, y, x)}) = k - 1
<1>a. n \in Nat /\ S = 1..n /\ IsFiniteSet(S) /\ Cardinality(S) = n
  <2>1. n \in Nat /\ S = 1..n
    BY ListIs DEF Formed
  <2>2. IsFiniteSet(1..n) /\ Cardinality(1..n) = n
    <3> HIDE DEF n, S
    <3> QED BY <2>1, FS_Interval
  <2> HIDE DEF n, S
  <2> QED
    BY <2>1, <2>2
<1>b. \A i \in S : lexicon[i].normalized \in Seq(Nat) /\ i \in Nat
  BY <1>a DEF Formed
<1> HIDE DEF S, n
<1>1. StrictTotalOrder(R, S)
  <2>1. \A x \in S : ~FormLess(lexicon, x, x)
    BY <1>b, WordLessIrreflexive DEF FormLess
  <2>2. \A x, y, z \in S : FormLess(lexicon, x, y) /\ FormLess(lexicon, y, z) => FormLess(lexicon, x, z)
    <3> SUFFICES ASSUME NEW x \in S, NEW y \in S, NEW z \in S,
                        FormLess(lexicon, x, y), FormLess(lexicon, y, z)
                 PROVE  FormLess(lexicon, x, z)
      OBVIOUS
    <3> DEFINE a == lexicon[x].normalized
               b == lexicon[y].normalized
               c == lexicon[z].normalized
    <3>1. a \in Seq(Nat) /\ b \in Seq(Nat) /\ c \in Seq(Nat)
      BY <1>b
    <3>2. WordLess(a, b) /\ WordLess(b, c) => WordLess(a, c)
      <4> HIDE DEF a, b, c
      <4> QED BY <3>1, WordLessTransitive
    <3>3. x \in Nat /\ y \in Nat /\ z \in Nat
      BY <1>b
    <3>4. /\ WordLess(a, b) \/ (a = b /\ x < y)
          /\ WordLess(b, c) \/ (b = c /\ y < z)
      BY DEF FormLess
    <3> HIDE DEF a, b, c
    <3>5. WordLess(a, c) \/ (a = c /\ x < z)
      BY ONLY <3>2, <3>3, <3>4
    <3> QED
      BY <3>5 DEF FormLess, a, c
  <2>3. \A x, y \in S : x = y \/ FormLess(lexicon, x, y) \/ FormLess(lexicon, y, x)
    <3> SUFFICES ASSUME NEW x \in S, NEW y \in S, x # y
                 PROVE  FormLess(lexicon, x, y) \/ FormLess(lexicon, y, x)
      OBVIOUS
    <3> DEFINE a == lexicon[x].normalized
               b == lexicon[y].normalized
    <3>1. a \in Seq(Nat) /\ b \in Seq(Nat)
      BY <1>b
    <3>2. a = b \/ WordLess(a, b) \/ WordLess(b, a)
      <4> HIDE DEF a, b
      <4> QED BY <3>1, WordLessTotal
    <3>3. x < y \/ y < x
      BY <1>b
    <3> QED
      BY <3>2, <3>3 DEF FormLess
  <2> QED
    BY <2>1, <2>2, <2>3 DEF StrictTotalOrder
<1>2. \A x \in S : SetLessThan(x, R, S) = {y \in S : FormLess(lexicon, y, x)}
  BY DEF SetLessThan
<1>3. \A k \in 1..n : \E x \in S : Cardinality(SetLessThan(x, R, S)) = k - 1
  <2> HIDE DEF R
  <2>1. \A k \in 1..Cardinality(S) : \E x \in S : Cardinality(SetLessThan(x, R, S)) = k - 1
    BY <1>a, <1>1, RanksExist
  <2> QED
    BY <1>a, <2>1
<1>4. ASSUME NEW k \in 1..n
      PROVE  at(k) \in S /\ Cardinality(SetLessThan(at(k), R, S)) = k - 1
  <2>1. PICK x \in S : Cardinality(SetLessThan(x, R, S)) = k - 1
    BY <1>3
  <2>2. Cardinality({y \in S : FormLess(lexicon, y, x)}) = k - 1
    BY <2>1, <1>2
  <2>3. at(k) \in S /\ Cardinality({y \in S : FormLess(lexicon, y, at(k))}) = k - 1
    BY <2>2
  <2> QED
    BY <2>3, <1>2
<1>5. order = [k \in 1..n |-> at(k)]
  <2>1. order = [k \in 1..Cardinality(S) |-> at(k)]
    BY DEF Sorted, Positions, Ranked, FormLess, S
  <2> QED
    BY <1>a, <2>1
<1> HIDE DEF at
<1>6. DOMAIN order = 1..n /\ \A k \in 1..n : order[k] = at(k)
  BY <1>5
<1>7. \A k \in 1..n : order[k] \in S /\ Cardinality(SetLessThan(order[k], R, S)) = k - 1
  BY <1>4, <1>6
<1>8. /\ \A x \in S : \E k \in 1..n : order[k] = x
      /\ \A k, l \in 1..n : k < l <=> <<order[k], order[l]>> \in R
  <2>1. \A k \in 1..Cardinality(S) :
          order[k] \in S /\ Cardinality(SetLessThan(order[k], R, S)) = k - 1
    <3> HIDE DEF R
    <3> QED BY <1>a, <1>7
  <2> HIDE DEF R
  <2>2. /\ \A x \in S : \E k \in 1..Cardinality(S) : order[k] = x
        /\ \A k, l \in 1..Cardinality(S) : k < l <=> <<order[k], order[l]>> \in R
    <3>1. IsFiniteSet(S)
      BY <1>a
    <3> QED
      BY ONLY <1>1, <2>1, <3>1, RanksInOrder
  <2> QED
    BY ONLY <1>a, <2>2
<1>9. \A k, l \in 1..n : <<order[k], order[l]>> \in R <=> FormLess(lexicon, order[k], order[l])
  BY <1>7
<1> HIDE DEF R
<1>10. /\ n \in Nat /\ S = 1..n /\ DOMAIN order = 1..n
       /\ \A k \in 1..n : order[k] \in 1..n
       /\ \A i \in 1..n : \E k \in 1..n : order[k] = i
       /\ \A k, l \in 1..n : k < l <=> FormLess(lexicon, order[k], order[l])
  BY ONLY <1>a, <1>6, <1>7, <1>8, <1>9
<1> QED
  BY ONLY <1>10 DEF n, S

(***************************************************************************)
(* Words and their prefixes.                                               *)
(***************************************************************************)
LEMMA StartsWithAt ==
  ASSUME NEW w \in Seq(Nat), NEW p \in Seq(Nat)
  PROVE  StartsWith(w, p) <=> Len(p) <= Len(w) /\ \A j \in 1..Len(p) : w[j] = p[j]
<1>1. Len(p) \in Nat /\ Len(w) \in Nat /\ p = SubSeq(p, 1, Len(p))
  OBVIOUS
<1> QED
  BY <1>1, SamePrefix DEF StartsWith

\* A word continues a prefix by a letter when it has the letter after the prefix.
LEMMA OneLetterMore ==
  ASSUME NEW w \in Seq(Nat), NEW p \in Seq(Nat), NEW c \in Nat
  PROVE  StartsWith(w, Append(p, c))
           <=> StartsWith(w, p) /\ Len(p) < Len(w) /\ w[Len(p) + 1] = c
<1> DEFINE q == Append(p, c)
           m == Len(p)
           n == Len(w)
<1>1. q \in Seq(Nat) /\ m \in Nat /\ n \in Nat /\ Len(q) = m + 1
      /\ q[m + 1] = c /\ \A j \in 1..m : q[j] = p[j]
  OBVIOUS
<1>2. /\ StartsWith(w, q) <=> Len(q) <= n /\ \A j \in 1..Len(q) : w[j] = q[j]
      /\ StartsWith(w, p) <=> m <= n /\ \A j \in 1..m : w[j] = p[j]
  BY <1>1, StartsWithAt
<1> HIDE DEF q, m, n
<1>3. StartsWith(w, q) <=> StartsWith(w, p) /\ m < n /\ w[m + 1] = c
  BY ONLY <1>1, <1>2
<1> QED
  BY ONLY <1>3 DEF q, m, n

\* Under one prefix, words are in the order of the letters after it.
LEMMA OrderUnderPrefix ==
  ASSUME NEW v \in Seq(Nat), NEW w \in Seq(Nat), NEW p \in Seq(Nat),
         StartsWith(v, p), StartsWith(w, p), Len(p) < Len(v), Len(p) < Len(w), WordLess(v, w)
  PROVE  v[Len(p) + 1] <= w[Len(p) + 1]
<1> DEFINE m == Len(p)
           a == v[m + 1]
           b == w[m + 1]
<1>1. m \in Nat /\ Len(v) \in Nat /\ Len(w) \in Nat
  OBVIOUS
<1>2. a \in Nat /\ b \in Nat
  BY <1>1
<1>3. \A j \in 1..m : v[j] = p[j] /\ w[j] = p[j]
  BY StartsWithAt
<1>4. PICK i \in Nat : LessAt(v, w, i)
  BY WordLessAt
<1>5. /\ 1 <= i /\ \A j \in 1..(i - 1) : v[j] = w[j]
      /\ i <= Len(v) => v[i] < w[i]
  BY <1>1, <1>4 DEF LessAt
<1>6. CASE i <= m
  <2>1. v[i] = w[i] /\ i <= Len(v) /\ v[i] \in Nat
    BY <1>1, <1>3, <1>5, <1>6
  <2> QED
    BY <1>5, <2>1
<1>7. CASE i = m + 1
  BY <1>1, <1>2, <1>5, <1>7
<1>8. CASE i > m + 1
  <2>1. m + 1 \in 1..(i - 1)
    BY <1>1, <1>8
  <2> QED
    BY <1>2, <1>5, <2>1
<1> QED
  BY <1>1, <1>6, <1>7, <1>8

\* A word comes before the others that begin with it.
LEMMA PrefixIsFirst ==
  ASSUME NEW p \in Seq(Nat), NEW w \in Seq(Nat), StartsWith(w, p), w # p
  PROVE  WordLess(p, w)
<1>1. /\ Len(p) \in Nat /\ Len(w) \in Nat /\ Len(p) <= Len(w)
      /\ SubSeq(w, 1, Len(p)) = p
  BY DEF StartsWith
<1>2. Len(p) # Len(w)
  BY <1>1
<1> QED
  BY <1>1, <1>2 DEF WordLess

\* What begins with a word of the same length is that word.
LEMMA WholePrefix ==
  ASSUME NEW p \in Seq(Nat), NEW w \in Seq(Nat), StartsWith(w, p), Len(w) <= Len(p)
  PROVE  w = p
<1>1. /\ Len(p) \in Nat /\ Len(w) \in Nat /\ Len(p) <= Len(w)
      /\ SubSeq(w, 1, Len(p)) = p
  BY DEF StartsWith
<1>2. Len(p) = Len(w) /\ SubSeq(w, 1, Len(w)) = w
  BY <1>1
<1> QED
  BY <1>1, <1>2

\* Every word starts with the empty word and with itself.
LEMMA ItsOwnPrefix ==
  ASSUME NEW w \in Seq(Nat)
  PROVE  StartsWith(w, w) /\ StartsWith(w, <<>>)
BY DEF StartsWith

(***************************************************************************)
(* The words a trie is made of.                                            *)
(***************************************************************************)
InOrder(W) ==
  /\ AsList(W) /\ \A k \in DOMAIN W : W[k].word \in Seq(Nat)
  /\ \A k, l \in DOMAIN W : k < l <=> WordLess(W[k].word, W[l].word)

\* Each word once, in order, with its last insertion.
SortedFrom(W, inserted) ==
  /\ \A k \in DOMAIN W : \E j \in DOMAIN inserted :
       /\ W[k] = inserted[j]
       /\ \A l \in DOMAIN inserted : inserted[l].word = inserted[j].word => l <= j
  /\ \A j \in DOMAIN inserted : \E k \in DOMAIN W : W[k].word = inserted[j].word

\* The words inserted into a trie, sorted: each one once, in order.
LEMMA SortedWordsAre ==
  ASSUME NEW inserted, NEW m \in Nat, DOMAIN inserted = 1..m,
         \A j \in 1..m : inserted[j].word \in Seq(Nat), NEW W, W = SortedWords(inserted)
  PROVE  InOrder(W) /\ SortedFrom(W, inserted)
<1> DEFINE distinct == {inserted[k].word : k \in DOMAIN inserted}
           isLast(w, k) == /\ inserted[k].word = w
                           /\ \A l \in DOMAIN inserted : inserted[l].word = w => l <= k
           last(w) == CHOOSE k \in DOMAIN inserted : isLast(w, k)
           order == InWordOrder(distinct)
<1>1. W = [k \in DOMAIN order |-> inserted[last(order[k])]]
  BY ONLY W = SortedWords(inserted) DEF SortedWords, Ranked, InWordOrder
<1>2. distinct \subseteq Seq(Nat) /\ IsFiniteSet(distinct)
  <2> DEFINE f == [k \in 1..m |-> inserted[k].word]
  <2>1. IsFiniteSet(1..m) /\ DOMAIN f = 1..m
    BY FS_Interval
  <2>2. distinct = {f[x] : x \in DOMAIN f}
    OBVIOUS
  <2>3. IsFiniteSet({f[x] : x \in DOMAIN f})
    <3> HIDE DEF f
    <3> QED BY ONLY <2>1, FiniteImage
  <2>4. distinct \subseteq Seq(Nat)
    OBVIOUS
  <2> HIDE DEF f, distinct
  <2> QED
    BY ONLY <2>2, <2>3, <2>4
<1>3. /\ order \in Seq(distinct) /\ Len(order) = Cardinality(distinct)
      /\ \A x \in distinct : \E k \in DOMAIN order : order[k] = x
      /\ \A k, l \in DOMAIN order : k < l <=> WordLess(order[k], order[l])
  <2> HIDE DEF distinct
  <2> QED BY ONLY <1>2, WordsRanked
<1>4. ASSUME NEW w \in distinct
      PROVE  last(w) \in 1..m /\ isLast(w, last(w))
  <2> DEFINE here == {k \in 1..m : inserted[k].word = w}
             T == {m - k : k \in here}
  <2>1. T \subseteq Nat /\ T # {}
    BY <1>4
  <2>2. PICK t \in T : \A x \in T : t <= x
    <3> HIDE DEF T
    <3> QED BY ONLY <2>1, LeastNumber
  <2>3. PICK k \in here : t = m - k
    OBVIOUS
  <2>4. ASSUME NEW l \in here PROVE l <= k
    <3>1. m - l \in T /\ k \in Nat /\ l \in Nat
      OBVIOUS
    <3>2. t <= m - l
      BY ONLY <2>2, <3>1
    <3> QED
      BY ONLY <2>3, <3>1, <3>2, m \in Nat
  <2>5. isLast(w, k) /\ k \in 1..m
    <3>1. k \in 1..m /\ inserted[k].word = w
      BY ONLY <2>3
    <3>2. \A l \in 1..m : inserted[l].word = w => l <= k
      BY ONLY <2>4
    <3> QED
      BY ONLY <3>1, <3>2, DOMAIN inserted = 1..m
  <2> HIDE DEF isLast
  <2> QED
    BY <2>5
<1> HIDE DEF last
<1>5. DOMAIN W = DOMAIN order /\ \A k \in DOMAIN order : W[k] = inserted[last(order[k])]
  BY ONLY <1>1
<1>6. \A k \in DOMAIN order : order[k] \in distinct
  <2>1. order \in Seq(distinct)
    BY ONLY <1>3
  <2> HIDE DEF distinct, order
  <2> QED
    BY ONLY <2>1
<1> HIDE DEF order
<1>7. ASSUME NEW k \in DOMAIN order
      PROVE  /\ W[k].word = order[k] /\ last(order[k]) \in 1..m
             /\ \A l \in DOMAIN inserted : inserted[l].word = order[k] => l <= last(order[k])
  <2> HIDE DEF distinct
  <2> QED BY <1>4, <1>5, <1>6, <1>7
<1> HIDE DEF isLast
<1>8. InOrder(W)
  <2>1. W \in Seq(Range(W))
    <3> DEFINE n == Len(order)
    <3>1. n \in Nat /\ DOMAIN order = 1..n
      <4>1. order \in Seq(distinct)
        BY ONLY <1>3
      <4> HIDE DEF distinct
      <4> QED
        BY ONLY <4>1
    <3>2. W = [k \in 1..n |-> W[k]] /\ \A k \in 1..n : W[k] \in Range(W)
      BY <1>1, <1>5, <3>1 DEF Range
    <3> HIDE DEF n
    <3> QED
      BY ONLY <3>1, <3>2
  <2>2. \A k \in DOMAIN W : W[k].word = order[k]
    BY ONLY <1>5, <1>7
  <2>3. \A k \in DOMAIN W : W[k].word \in Seq(Nat)
    BY ONLY <1>2, <1>5, <1>6, <2>2
  <2>4. \A k, l \in DOMAIN W : k < l <=> WordLess(W[k].word, W[l].word)
    BY ONLY <1>3, <1>5, <2>2
  <2> QED
    BY ONLY <2>1, <2>3, <2>4 DEF InOrder, AsList
<1>9. ASSUME NEW k \in DOMAIN W
      PROVE  \E j \in DOMAIN inserted :
               /\ W[k] = inserted[j]
               /\ \A l \in DOMAIN inserted : inserted[l].word = inserted[j].word => l <= j
  <2>1. W[k] = inserted[last(order[k])] /\ k \in DOMAIN order
    BY <1>5, <1>9
  <2> QED
    BY <1>7, <2>1
<1>10. ASSUME NEW j \in DOMAIN inserted
       PROVE  \E k \in DOMAIN W : W[k].word = inserted[j].word
  <2>1. inserted[j].word \in distinct
    OBVIOUS
  <2> HIDE DEF distinct
  <2> QED
    BY ONLY <1>3, <1>5, <1>7, <2>1
<1> QED
  BY ONLY <1>8, <1>9, <1>10 DEF SortedFrom

(***************************************************************************)
(* The children of a node: the runs of words with one next letter.         *)
(***************************************************************************)
\* Runs of the words lo .. hi - 1, with ascending labels, that leave no word out.
Divided(g, at, lo, hi) ==
  /\ Len(g) \in Nat /\ DOMAIN g = 1..Len(g) /\ (Len(g) = 0 <=> lo = hi)
  /\ Len(g) > 0 => g[1].lo = lo /\ g[Len(g)].hi = hi
  /\ \A i \in 1..Len(g) : /\ g[i].label \in Nat /\ g[i].lo \in Nat /\ g[i].hi \in Nat
                          /\ lo <= g[i].lo /\ g[i].lo < g[i].hi /\ g[i].hi <= hi
                          /\ \A k \in lo..(hi - 1) :
                               at[k] = g[i].label <=> k \in g[i].lo..(g[i].hi - 1)
  /\ \A i \in 1..(Len(g) - 1) : g[i].hi = g[i + 1].lo
  /\ \A i, j \in 1..Len(g) : i < j => g[i].label < g[j].label
  /\ \A k \in lo..(hi - 1) : \E i \in 1..Len(g) : k \in g[i].lo..(g[i].hi - 1)

StartsOf(at, lo, hi) == {k \in lo..(hi - 1) : k = lo \/ at[k] # at[k - 1]}

RunsOf(order, at, hi) ==
  [i \in DOMAIN order |->
     [label |-> at[order[i]], lo |-> order[i],
      hi |-> IF i = Len(order) THEN hi ELSE order[i + 1]]]

LettersAt(at, words, lo, hi, depth) ==
  \A k \in lo..(hi - 1) : at[k] = words[k].word[depth + 1]

\* The groups of a run of words are the runs of its letters at the depth.
LEMMA GroupsIs ==
  ASSUME NEW words, NEW lo \in Nat, NEW hi \in Nat, NEW depth, NEW at,
         LettersAt(at, words, lo, hi, depth)
  PROVE  Groups(words, lo, hi, depth) = RunsOf(Ascending(StartsOf(at, lo, hi)), at, hi)
<1> DEFINE starts == {k \in lo..(hi - 1) :
                        k = lo \/ words[k].word[depth + 1] # words[k - 1].word[depth + 1]}
           order == Ascending(starts)
<1>1. Groups(words, lo, hi, depth)
        = [i \in DOMAIN order |->
             [label |-> words[order[i]].word[depth + 1], lo |-> order[i],
              hi |-> IF i = Len(order) THEN hi ELSE order[i + 1]]]
  BY DEF Groups, Ranked, Ascending
<1>2. starts = StartsOf(at, lo, hi)
  <2>1. \A k \in lo..(hi - 1) :
          k # lo => at[k] = words[k].word[depth + 1] /\ at[k - 1] = words[k - 1].word[depth + 1]
    BY DEF LettersAt
  <2> QED
    BY ONLY <2>1 DEF StartsOf
<1>3. \A i \in DOMAIN order : order[i] \in lo..(hi - 1)
  <2>1. starts \subseteq Nat /\ IsFiniteSet(starts) /\ starts \subseteq lo..(hi - 1)
    <3>1. starts \subseteq lo..(hi - 1) /\ lo..(hi - 1) \subseteq Nat
      OBVIOUS
    <3>2. IsFiniteSet(lo..(hi - 1))
      BY FS_Interval
    <3> HIDE DEF starts
    <3> QED BY ONLY <3>1, <3>2, FS_Subset
  <2> HIDE DEF starts
  <2>2. order \in Seq(starts)
    BY ONLY <2>1, NumbersRanked DEF IsAscending
  <2> HIDE DEF order
  <2>3. \A i \in DOMAIN order : order[i] \in starts
    BY ONLY <2>2
  <2> QED
    BY ONLY <2>1, <2>3
<1> HIDE DEF order, starts
<1>4. \A i \in DOMAIN order : words[order[i]].word[depth + 1] = at[order[i]]
  BY ONLY <1>3, LettersAt(at, words, lo, hi, depth) DEF LettersAt
<1>5. order = Ascending(StartsOf(at, lo, hi))
  BY ONLY <1>2 DEF order
<1>6. Groups(words, lo, hi, depth) = RunsOf(order, at, hi)
  BY ONLY <1>1, <1>4 DEF RunsOf
<1> QED
  BY ONLY <1>5, <1>6

\* The runs of equal letters divide the words in order, one run for each letter.
LEMMA RunsAreDivided ==
  ASSUME NEW lo \in Nat, NEW hi \in Nat, lo <= hi, NEW at \in [lo..(hi - 1) -> Nat],
         \A k, l \in lo..(hi - 1) : k < l => at[k] <= at[l]
  PROVE  Divided(RunsOf(Ascending(StartsOf(at, lo, hi)), at, hi), at, lo, hi)
<1> DEFINE S == StartsOf(at, lo, hi)
           order == Ascending(S)
           m == Len(order)
           g == RunsOf(order, at, hi)
<1>1. S \subseteq Nat /\ IsFiniteSet(S) /\ S \subseteq lo..(hi - 1)
  <2>1. S \subseteq lo..(hi - 1) /\ lo..(hi - 1) \subseteq Nat
    BY DEF StartsOf
  <2>2. IsFiniteSet(lo..(hi - 1))
    BY FS_Interval
  <2> HIDE DEF S
  <2> QED BY ONLY <2>1, <2>2, FS_Subset
<1>2. /\ m \in Nat /\ DOMAIN order = 1..m
      /\ \A i \in 1..m : order[i] \in S
      /\ \A x \in S : \E i \in 1..m : order[i] = x
      /\ \A i, j \in 1..m : i < j <=> order[i] < order[j]
  <2> HIDE DEF S
  <2>1. /\ order \in Seq(S) /\ Len(order) = Cardinality(S)
        /\ \A x \in S : \E k \in DOMAIN order : order[k] = x
        /\ \A k, l \in DOMAIN order : k < l <=> order[k] < order[l]
    <3>1. S \subseteq Nat /\ IsFiniteSet(S)
      BY <1>1
    <3> HIDE DEF m, g
    <3>2. IsAscending(order, S)
      BY ONLY <3>1, NumbersRanked, ZenonT(40)
    <3> HIDE DEF order
    <3> QED
      BY ONLY <3>2 DEF IsAscending
  <2> HIDE DEF order
  <2>2. m \in Nat /\ DOMAIN order = 1..m /\ \A i \in 1..m : order[i] \in S
    BY ONLY <2>1
  <2> HIDE DEF m
  <2> QED
    BY ONLY <2>1, <2>2
<1> HIDE DEF order
<1>3. /\ DOMAIN g = 1..m /\ Len(g) = m
      /\ \A i \in 1..m : /\ g[i].label = at[order[i]] /\ g[i].lo = order[i]
                         /\ g[i].hi = IF i = m THEN hi ELSE order[i + 1]
  <2>1. g = [i \in 1..m |-> [label |-> at[order[i]], lo |-> order[i],
                             hi |-> IF i = m THEN hi ELSE order[i + 1]]]
    BY <1>2 DEF RunsOf
  <2> HIDE DEF m, g
  <2> QED
    BY ONLY <1>2, <2>1
<1> HIDE DEF g, m
<1>4. \A i \in 1..m : /\ order[i] \in lo..(hi - 1) /\ order[i] \in Nat
                      /\ at[order[i]] \in Nat
                      /\ order[i] # lo => order[i] - 1 \in lo..(hi - 1)
                                          /\ at[order[i]] # at[order[i] - 1]
  <2> SUFFICES ASSUME NEW i \in 1..m
               PROVE  /\ order[i] \in lo..(hi - 1) /\ order[i] \in Nat
                      /\ at[order[i]] \in Nat
                      /\ order[i] # lo => order[i] - 1 \in lo..(hi - 1)
                                          /\ at[order[i]] # at[order[i] - 1]
    OBVIOUS
  <2> DEFINE x == order[i]
  <2>1. x \in S
    BY <1>2
  <2> HIDE DEF x
  <2>2. x \in lo..(hi - 1) /\ (x = lo \/ at[x] # at[x - 1])
    BY <2>1 DEF S, StartsOf
  <2> QED
    BY <2>2 DEF x
<1>5. lo < hi => m > 0 /\ order[1] = lo
  <2> SUFFICES ASSUME lo < hi PROVE m > 0 /\ order[1] = lo
    OBVIOUS
  <2>1. lo \in S
    BY DEF S, StartsOf
  <2>2. PICK i \in 1..m : order[i] = lo
    BY ONLY <1>2, <2>1
  <2>3. m > 0 /\ 1 \in 1..m /\ ~(order[1] < order[i])
    BY <1>2, <1>4, <2>2
  <2> QED
    BY <1>2, <2>2, <2>3
<1>6. m = 0 <=> lo = hi
  <2>1. ASSUME m > 0 PROVE lo < hi
    BY <1>2, <1>4, <2>1
  <2> QED
    BY <1>2, <1>5, <2>1
<1>7. \A i \in 1..m : /\ g[i].label \in Nat /\ g[i].lo \in Nat /\ g[i].hi \in Nat
                      /\ lo <= g[i].lo /\ g[i].lo < g[i].hi /\ g[i].hi <= hi
  <2> SUFFICES ASSUME NEW i \in 1..m
               PROVE  /\ g[i].label \in Nat /\ g[i].lo \in Nat /\ g[i].hi \in Nat
                      /\ lo <= g[i].lo /\ g[i].lo < g[i].hi /\ g[i].hi <= hi
    OBVIOUS
  <2>1. g[i].label \in Nat /\ g[i].lo \in Nat /\ lo <= g[i].lo /\ g[i].lo < hi
    BY <1>3, <1>4
  <2>2. CASE i = m
    BY <1>3, <2>1, <2>2
  <2>3. CASE i # m
    <3>1. i + 1 \in 1..m /\ order[i] < order[i + 1] /\ order[i + 1] \in lo..(hi - 1)
      BY <1>2, <1>4, <2>3
    <3> QED
      BY <1>3, <2>1, <2>3, <3>1
  <2> QED
    BY <2>2, <2>3
<1>8. m > 0 => g[1].lo = lo /\ g[m].hi = hi
  BY <1>2, <1>3, <1>5, <1>6
<1>9. \A i \in 1..(m - 1) : g[i].hi = g[i + 1].lo
  BY <1>2, <1>3
<1>10. ASSUME NEW i \in 1..m, NEW j \in 1..m, i < j
       PROVE  g[i].label < g[j].label
  <2> DEFINE x == order[i]
             y == order[j]
  <2>1. x < y /\ x \in lo..(hi - 1) /\ y \in lo..(hi - 1) /\ y # lo
    BY <1>2, <1>4, <1>10
  <2>2. y - 1 \in lo..(hi - 1) /\ at[y] # at[y - 1]
    BY <1>4, <2>1
  <2>3. g[i].label = at[x] /\ g[j].label = at[y]
    BY <1>3
  <2> HIDE DEF x, y
  <2>4. at[x] <= at[y - 1] /\ at[y - 1] <= at[y]
    <3>1. x = y - 1 \/ x < y - 1
      BY <2>1
    <3>2. y - 1 < y /\ at[x] \in Nat
      BY <2>1
    <3> QED
      BY <2>1, <2>2, <3>1, <3>2
  <2>5. at[x] \in Nat /\ at[y] \in Nat /\ at[y - 1] \in Nat
    BY <2>1, <2>2
  <2> QED
    BY ONLY <2>2, <2>3, <2>4, <2>5
<1>11. ASSUME NEW k \in lo..(hi - 1)
       PROVE  \E i \in 1..m : k \in g[i].lo..(g[i].hi - 1)
  <2> DEFINE T == {i \in 1..m : k < g[i].hi}
  <2>1. m \in 1..m /\ g[m].hi = hi
    BY <1>2, <1>6, <1>8
  <2>2. T # {} /\ T \subseteq Nat
    BY <1>2, <2>1
  <2>3. PICK i \in T : \A j \in T : i <= j
    <3> HIDE DEF T
    <3> QED BY ONLY <2>2, LeastNumber
  <2>4. g[i].lo <= k
    <3>1. CASE i = 1
      BY <1>8, <2>1, <3>1, <1>2
    <3>2. CASE i # 1
      <4>1. i - 1 \in 1..(m - 1) /\ i - 1 \in 1..m /\ i - 1 \notin T /\ (i - 1) + 1 = i
        BY <1>2, <2>3, <3>2
      <4>2. ~(k < g[i - 1].hi) /\ g[i - 1].hi = g[i].lo
        BY <1>9, <4>1
      <4> QED
        BY <1>7, <4>2
    <3> QED
      BY <3>1, <3>2
  <2> QED
    BY <1>7, <2>3, <2>4
<1>12. ASSUME NEW i \in 1..m, NEW k \in lo..(hi - 1), k \in g[i].lo..(g[i].hi - 1)
       PROVE  at[k] = g[i].label
  <2> DEFINE T == {j \in g[i].lo..(g[i].hi - 1) : at[j] # g[i].label}
  <2> SUFFICES ASSUME T # {} PROVE FALSE
    BY <1>12
  <2>1. g[i].lo \in Nat /\ g[i].hi \in Nat /\ lo <= g[i].lo /\ g[i].hi <= hi
    BY <1>7
  <2>2. T \subseteq Nat
    BY <2>1
  <2>3. PICK x \in T : \A j \in T : x <= j
    <3> HIDE DEF T
    <3> QED BY ONLY <2>2, T # {}, LeastNumber, ZenonT(40)
  <2>4. x # g[i].lo
    BY <1>3, <2>3
  <2>5. x \in lo..(hi - 1) /\ x - 1 \in g[i].lo..(g[i].hi - 1) /\ x - 1 \notin T /\ x # lo
    <3> DEFINE a == g[i].lo
               b == g[i].hi
    <3>1. x \in a..(b - 1) /\ a \in Nat /\ b \in Nat /\ lo <= a /\ b <= hi /\ x # a
      BY ONLY <2>1, <2>3, <2>4
    <3> HIDE DEF a, b
    <3>2. x \in lo..(hi - 1) /\ x - 1 \in a..(b - 1) /\ x # lo /\ ~(x <= x - 1)
      BY ONLY <3>1, lo \in Nat, hi \in Nat
    <3>3. x - 1 \notin T
      <4> HIDE DEF T
      <4> QED BY ONLY <2>3, <3>2
    <3> QED
      BY ONLY <3>2, <3>3 DEF a, b
  <2>6. at[x - 1] = g[i].label /\ at[x] # g[i].label
    BY <2>3, <2>5
  <2>7. x \in S
    BY <2>5, <2>6 DEF S, StartsOf
  <2>8. PICK j \in 1..m : order[j] = x
    BY ONLY <1>2, <2>7
  <2>9. i < j
    BY <1>2, <1>3, <2>1, <2>3, <2>4, <2>8
  <2>10. i # m /\ i + 1 \in 1..m /\ i + 1 <= j
    BY <1>2, <2>9
  <2>11. g[i].hi = order[i + 1]
    BY <1>3, <2>10
  <2>12. order[i + 1] <= order[j]
    <3>1. i + 1 = j \/ order[i + 1] < order[j]
      BY <1>2, <2>10
    <3>2. order[i + 1] \in Nat /\ order[j] \in Nat
      BY <1>4, <2>10
    <3> QED
      BY <3>1, <3>2
  <2> QED
    BY <2>1, <2>3, <2>8, <2>11, <2>12
<1>13. ASSUME NEW i \in 1..m, NEW k \in lo..(hi - 1), at[k] = g[i].label
       PROVE  k \in g[i].lo..(g[i].hi - 1)
  <2>1. PICK j \in 1..m : k \in g[j].lo..(g[j].hi - 1)
    BY <1>11
  <2>2. g[j].label = g[i].label
    BY <1>12, <1>13, <2>1
  <2>3. i = j
    <3>1. ~(i < j) /\ ~(j < i)
      BY <1>7, <1>10, <2>2
    <3> QED
      BY <1>2, <3>1
  <2> QED
    BY <2>1, <2>3
<1>14. \A i \in 1..m : \A k \in lo..(hi - 1) : at[k] = g[i].label <=> k \in g[i].lo..(g[i].hi - 1)
  BY ONLY <1>12, <1>13
<1>15. Divided(g, at, lo, hi)
  BY ONLY <1>2, <1>3, <1>6, <1>7, <1>8, <1>9, <1>10, <1>11, <1>14 DEF Divided
<1> QED
  BY ONLY <1>15 DEF g, order, S

\* The words with a prefix are a run.
Under(W, p, lo, hi) == \A k \in DOMAIN W : StartsWith(W[k].word, p) <=> k \in lo..(hi - 1)

\* The runs of the words that continue p, by their next letter.
Branches(g, W, p, s, hi) ==
  /\ Len(g) \in Nat /\ DOMAIN g = 1..Len(g) /\ (Len(g) = 0 <=> s = hi)
  /\ Len(g) > 0 => g[1].lo = s /\ g[Len(g)].hi = hi
  /\ \A i \in 1..Len(g) : /\ g[i].label \in Nat /\ g[i].lo \in Nat /\ g[i].hi \in Nat
                          /\ s <= g[i].lo /\ g[i].lo < g[i].hi /\ g[i].hi <= hi
                          /\ Under(W, Append(p, g[i].label), g[i].lo, g[i].hi)
  /\ \A i \in 1..(Len(g) - 1) : g[i].hi = g[i + 1].lo
  /\ \A i, j \in 1..Len(g) : i < j => g[i].label < g[j].label
  /\ \A k \in s..(hi - 1) : \E i \in 1..Len(g) : k \in g[i].lo..(g[i].hi - 1)

\* The first word of a run is the prefix itself, or no word is.
LEMMA FirstOfRun ==
  ASSUME NEW W, InOrder(W), NEW p \in Seq(Nat), NEW lo \in Nat, NEW hi \in Nat,
         1 <= lo, lo <= hi, hi <= Len(W) + 1, Under(W, p, lo, hi),
         NEW k \in DOMAIN W, W[k].word = p
  PROVE  k = lo /\ lo < hi /\ Len(W[lo].word) = Len(p)
<1>1. Len(W) \in Nat /\ DOMAIN W = 1..Len(W) /\ k \in Nat
  BY ListIs DEF InOrder
<1>2. k \in lo..(hi - 1)
  BY ItsOwnPrefix DEF Under
<1>3. lo \in DOMAIN W /\ lo < hi
  BY <1>1, <1>2
<1>4. W[lo].word \in Seq(Nat) /\ StartsWith(W[lo].word, p)
  BY <1>2, <1>3 DEF InOrder, Under
<1>5. ASSUME lo # k PROVE FALSE
  <2>1. lo < k
    BY <1>2, <1>5
  <2>2. WordLess(W[lo].word, p)
    BY <1>3, <2>1 DEF InOrder
  <2>3. W[lo].word # p
    BY <2>2, WordLessIrreflexive
  <2>4. WordLess(p, W[lo].word)
    BY <1>4, <2>3, PrefixIsFirst
  <2>5. WordLess(p, p)
    BY <1>4, <2>2, <2>4, WordLessTransitive
  <2> QED
    BY <2>5, WordLessIrreflexive
<1> QED
  BY <1>3, <1>5

\* The groups below a node: the words that go on, by their next letter.
LEMMA BranchesAre ==
  ASSUME NEW W, InOrder(W), NEW p \in Seq(Nat), NEW lo \in Nat, NEW hi \in Nat,
         1 <= lo, lo <= hi, hi <= Len(W) + 1, Under(W, p, lo, hi),
         NEW ends \in BOOLEAN, ends <=> lo < hi /\ Len(W[lo].word) = Len(p),
         NEW s, s = IF ends THEN lo + 1 ELSE lo
  PROVE  /\ ends => lo \in DOMAIN W /\ W[lo].word = p
         /\ ~ends => \A k \in DOMAIN W : W[k].word # p
         /\ s \in Nat /\ s <= hi
         /\ Branches(Groups(W, s, hi, Len(p)), W, p, s, hi)
<1> DEFINE d == Len(p)
           at == [k \in s..(hi - 1) |-> W[k].word[d + 1]]
           g == Groups(W, s, hi, d)
<1>1. Len(W) \in Nat /\ DOMAIN W = 1..Len(W) /\ d \in Nat
  BY ListIs DEF InOrder
<1>2. s \in Nat /\ lo <= s /\ s <= hi
  OBVIOUS
<1>3. ASSUME ends PROVE lo \in DOMAIN W /\ W[lo].word = p
  <2>1. lo \in DOMAIN W /\ lo \in lo..(hi - 1)
    BY <1>1, <1>3
  <2>2. W[lo].word \in Seq(Nat) /\ StartsWith(W[lo].word, p)
    BY ONLY InOrder(W), Under(W, p, lo, hi), <2>1 DEF InOrder, Under
  <2>3. Len(W[lo].word) <= Len(p)
    <3>1. Len(W[lo].word) = Len(p) /\ Len(p) \in Nat
      BY <1>3
    <3> HIDE DEF d
    <3> QED BY ONLY <3>1
  <2> QED
    BY ONLY <2>1, <2>2, <2>3, p \in Seq(Nat), WholePrefix
<1>4. ASSUME ~ends, NEW k \in DOMAIN W, W[k].word = p PROVE FALSE
  BY <1>4, FirstOfRun
<1>5. ASSUME NEW k \in s..(hi - 1)
      PROVE  /\ k \in DOMAIN W /\ W[k].word \in Seq(Nat) /\ StartsWith(W[k].word, p)
             /\ d < Len(W[k].word) /\ at[k] = W[k].word[d + 1] /\ at[k] \in Nat
  <2>1. k \in DOMAIN W /\ k \in lo..(hi - 1)
    BY <1>1, <1>2
  <2>2. W[k].word \in Seq(Nat) /\ StartsWith(W[k].word, p) /\ Len(W[k].word) \in Nat
        /\ d <= Len(W[k].word)
    BY <2>1 DEF InOrder, Under, StartsWith
  <2>3. d # Len(W[k].word)
    <3> SUFFICES ASSUME d = Len(W[k].word) PROVE FALSE
      OBVIOUS
    <3>1. W[k].word = p
      BY <1>1, <2>2, WholePrefix
    <3>2. k = lo /\ ends
      BY <2>1, <3>1, FirstOfRun
    <3> QED
      BY <3>2
  <2>4. d < Len(W[k].word) /\ d + 1 \in 1..Len(W[k].word)
    BY ONLY <1>1, <2>2, <2>3
  <2> QED
    BY <2>1, <2>2, <2>4, SMTT(30)
<1>6. \A k, l \in s..(hi - 1) : k < l => at[k] <= at[l]
  <2> SUFFICES ASSUME NEW k \in s..(hi - 1), NEW l \in s..(hi - 1), k < l
               PROVE  at[k] <= at[l]
    OBVIOUS
  <2> DEFINE v == W[k].word
             w == W[l].word
  <2>1. WordLess(v, w)
    BY <1>5 DEF InOrder
  <2>2. /\ v \in Seq(Nat) /\ w \in Seq(Nat) /\ StartsWith(v, p) /\ StartsWith(w, p)
        /\ Len(p) < Len(v) /\ Len(p) < Len(w) /\ at[k] = v[Len(p) + 1] /\ at[l] = w[Len(p) + 1]
    BY <1>5
  <2> HIDE DEF v, w, at
  <2> QED
    BY ONLY <2>1, <2>2, p \in Seq(Nat), OrderUnderPrefix
<1>7. at \in [s..(hi - 1) -> Nat]
  BY <1>5
<1>8. Divided(g, at, s, hi)
  <2>1. g = RunsOf(Ascending(StartsOf(at, s, hi)), at, hi)
    <3>1. LettersAt(at, W, s, hi, d)
      BY <1>5 DEF LettersAt
    <3> HIDE DEF at, d
    <3> QED
      BY ONLY <1>2, hi \in Nat, <3>1, GroupsIs DEF g
  <2> HIDE DEF at, g
  <2> QED
    BY ONLY <1>2, <1>6, <1>7, <2>1, hi \in Nat, RunsAreDivided
<1> HIDE DEF g, at, d
<1>9. ASSUME NEW i \in 1..Len(g)
      PROVE  Under(W, Append(p, g[i].label), g[i].lo, g[i].hi)
  <2> DEFINE c == g[i].label
             a == g[i].lo
             b == g[i].hi
  <2>1. /\ c \in Nat /\ a \in Nat /\ b \in Nat /\ s <= a /\ a < b /\ b <= hi
        /\ \A k \in s..(hi - 1) : at[k] = c <=> k \in a..(b - 1)
    BY ONLY <1>8, <1>9 DEF Divided
  <2> HIDE DEF a, b, c
  <2>2. ASSUME NEW k \in DOMAIN W
        PROVE  StartsWith(W[k].word, Append(p, c)) <=> k \in a..(b - 1)
    <3> DEFINE w == W[k].word
    <3>1. w \in Seq(Nat)
      BY <2>2 DEF InOrder
    <3>2. StartsWith(w, Append(p, c)) <=> StartsWith(w, p) /\ d < Len(w) /\ w[d + 1] = c
      <4> HIDE DEF w
      <4> QED BY ONLY <3>1, <2>1, p \in Seq(Nat), OneLetterMore DEF d
    <3>3. CASE k \in s..(hi - 1)
      BY <1>5, <2>1, <3>2, <3>3
    <3>4. CASE k \notin s..(hi - 1)
      <4>1. k \notin a..(b - 1)
        BY <1>1, <1>2, <2>1, <3>4
      <4>2. ASSUME StartsWith(w, p), d < Len(w) PROVE FALSE
        <5>1. k \in lo..(hi - 1)
          BY <4>2 DEF Under
        <5>2. ends /\ k = lo
          BY <1>1, <3>4, <5>1
        <5>3. w = p
          BY <1>3, <5>2
        <5> QED
          BY <1>1, <4>2, <5>3 DEF d
      <4> QED
        BY <3>2, <4>1, <4>2
    <3> QED
      BY <3>3, <3>4
  <2> QED
    BY <2>2 DEF Under, a, b, c
<1>10. Branches(g, W, p, s, hi)
  BY ONLY <1>8, <1>9 DEF Branches, Divided
<1> QED
  BY <1>2, <1>3, <1>4, <1>10 DEF g, d

(***************************************************************************)
(* Building: the nodes are laid out by a ghost that says of each its path  *)
(* and its run of words.                                                   *)
(***************************************************************************)
Arrays(t, N) ==
  /\ N \in Nat /\ N >= 1
  /\ t.label \in Seq(Nat) /\ Len(t.label) = N /\ t.first \in Seq(Nat) /\ Len(t.first) = N
  /\ t.count \in Seq(Nat) /\ Len(t.count) = N /\ t.terminal \in Seq(Nat) /\ Len(t.terminal) = N

\* One array after a node's cell was set and the cells of its children were added.
Extended(new, old, N, x, value, n, added) ==
  /\ new \in Seq(Nat) /\ Len(new) = N + n
  /\ \A y \in 1..N : new[y] = IF y = x THEN value ELSE old[y]
  /\ \A i \in 1..n : new[N + i] = added[i]

JoinedAs(u, s, t) ==
  /\ Len(u) = Len(s) + Len(t)
  /\ \A j \in 1..Len(s) : u[j] = s[j]
  /\ \A j \in 1..Len(t) : u[Len(s) + j] = t[j]

\* Concatenation, cell by cell.
LEMMA ListsJoined ==
  ASSUME NEW D, NEW s \in Seq(D), NEW t \in Seq(D)
  PROVE  s \o t \in Seq(D) /\ JoinedAs(s \o t, s, t)
BY DEF JoinedAs

\* The same for sequences of numbers.
LEMMA NumbersJoined ==
  ASSUME NEW s \in Seq(Nat), NEW t \in Seq(Nat)
  PROVE  s \o t \in Seq(Nat) /\ JoinedAs(s \o t, s, t)
BY ListsJoined

\* Writing a cell's own value changes nothing.
LEMMA SameCell ==
  ASSUME NEW s \in Seq(Nat), NEW x \in 1..Len(s)
  PROVE  s = [s EXCEPT ![x] = s[x]]
OBVIOUS

\* An array of the trie with one cell set and new cells after the old ones.
LEMMA ArrayExtended ==
  ASSUME NEW N \in Nat, NEW old \in Seq(Nat), Len(old) = N, NEW x \in 1..N, NEW value \in Nat,
         NEW n \in Nat, NEW added \in [1..n -> Nat]
  PROVE  Extended([old EXCEPT ![x] = value] \o added, old, N, x, value, n, added)
<1> DEFINE a == [old EXCEPT ![x] = value]
<1>1. a \in Seq(Nat) /\ Len(a) = N /\ \A y \in 1..N : a[y] = IF y = x THEN value ELSE old[y]
  OBVIOUS
<1>2. added \in Seq(Nat) /\ Len(added) = n
  OBVIOUS
<1> HIDE DEF a
<1>3. a \o added \in Seq(Nat) /\ Len(a \o added) = N + n
      /\ (\A y \in 1..N : (a \o added)[y] = a[y]) /\ \A i \in 1..n : (a \o added)[N + i] = added[i]
  <2> DEFINE c == a \o added
  <2>0. c \in Seq(Nat) /\ JoinedAs(c, a, added)
    BY ONLY <1>1, <1>2, NumbersJoined
  <2> HIDE DEF c
  <2>1. /\ c \in Seq(Nat) /\ Len(c) = Len(a) + Len(added)
        /\ \A j \in 1..Len(a) : c[j] = a[j]
        /\ \A j \in 1..Len(added) : c[Len(a) + j] = added[j]
    BY ONLY <2>0 DEF JoinedAs
  <2>2. Len(a) = N /\ Len(added) = n
    BY ONLY <1>1, <1>2
  <2>3. /\ c \in Seq(Nat) /\ Len(c) = N + n
        /\ \A j \in 1..N : c[j] = a[j]
        /\ \A j \in 1..n : c[N + j] = added[j]
    BY ONLY <2>1, <2>2
  <2> QED
    BY ONLY <2>3 DEF c
<1>4. Extended(a \o added, old, N, x, value, n, added)
  BY ONLY <1>1, <1>3 DEF Extended
<1> QED
  BY ONLY <1>4 DEF a

Child(g, n, N, depth, i) ==
  [lo |-> g[n + 1 - i].lo, hi |-> g[n + 1 - i].hi, depth |-> depth + 1, node |-> N + 1 + n - i]

\* The trie after a step, array by array.
GrownTo(u, t, task, ends, g, N, n) ==
  /\ u.words = t.words
  /\ \E added : /\ \A i \in 1..n : added[i] = g[i].label
                /\ \E y : Extended(u.label, t.label, N, 1, y, n, added) /\ y = t.label[1]
  /\ \E zeros : /\ \A i \in 1..n : zeros[i] = 0
                /\ Extended(u.first, t.first, N, task.node, N + 1, n, zeros)
                /\ Extended(u.count, t.count, N, task.node, n, n, zeros)
                /\ Extended(u.terminal, t.terminal, N, task.node,
                            IF ends THEN task.lo ELSE t.terminal[task.node], n, zeros)
  /\ \E m \in Nat :
       /\ Len(t.stack) = m + 1 /\ Len(u.stack) = m + n /\ AsList(u.stack)
       /\ \A i \in 1..m : u.stack[i] = t.stack[i]
       /\ \A i \in 1..n : u.stack[m + i] = Child(g, n, N, task.depth, i)

\* A step of the construction, array by array.
LEMMA GrownIs ==
  ASSUME NEW t, NEW N, Arrays(t, N), AsList(t.stack), Len(t.stack) # 0,
         NEW task, task.node \in 1..N, task.lo \in Nat, NEW ends \in BOOLEAN,
         NEW g, NEW n \in Nat, n = Len(g), \A i \in 1..n : g[i].label \in Nat
  PROVE  GrownTo(Grown(t, task, ends, g), t, task, ends, g, N, n)
<1> DEFINE u == Grown(t, task, ends, g)
           x == task.node
           labels == [i \in 1..n |-> g[i].label]
           zeros == [i \in 1..n |-> 0]
           children == [i \in 1..n |-> Child(g, n, N, task.depth, i)]
           end == IF ends THEN task.lo ELSE t.terminal[x]
<1>1. /\ N \in Nat /\ N >= 1
      /\ t.label \in Seq(Nat) /\ Len(t.label) = N /\ t.first \in Seq(Nat) /\ Len(t.first) = N
      /\ t.count \in Seq(Nat) /\ Len(t.count) = N
      /\ t.terminal \in Seq(Nat) /\ Len(t.terminal) = N
  BY DEF Arrays
<1>2. /\ u.words = t.words
      /\ u.label = t.label \o labels
      /\ u.first = [t.first EXCEPT ![x] = N + 1] \o zeros
      /\ u.count = [t.count EXCEPT ![x] = n] \o zeros
      /\ u.terminal = (IF ends THEN [t.terminal EXCEPT ![x] = task.lo] ELSE t.terminal)
                        \o [i \in 1..n |-> NoWord]
  BY <1>1 DEF Grown
<1>3. u.stack = SubSeq(t.stack, 1, Len(t.stack) - 1) \o children
  <2>1. u.stack = SubSeq(t.stack, 1, Len(t.stack) - 1)
                    \o [i \in 1..n |-> [lo |-> g[n + 1 - i].lo, hi |-> g[n + 1 - i].hi,
                                        depth |-> task.depth + 1, node |-> N + 1 + n - i]]
    BY <1>1 DEF Grown
  <2> QED
    BY <2>1 DEF Child
<1> HIDE DEF u, children
<1>4. labels \in [1..n -> Nat] /\ zeros \in [1..n -> Nat]
  OBVIOUS
<1>5. /\ \A i \in 1..n : labels[i] = g[i].label
      /\ \A i \in 1..n : zeros[i] = 0
  OBVIOUS
<1>6. u.terminal = [t.terminal EXCEPT ![x] = end] \o zeros
  <2>1. t.terminal = [t.terminal EXCEPT ![x] = t.terminal[x]]
    BY <1>1, SameCell
  <2> QED
    BY <1>2, <2>1 DEF NoWord
<1>7. u.label = [t.label EXCEPT ![1] = t.label[1]] \o labels
  <2>1. t.label = [t.label EXCEPT ![1] = t.label[1]]
    BY <1>1, SameCell
  <2> QED
    BY <1>2, <2>1
<1>8. x \in 1..N /\ 1 \in 1..N /\ end \in Nat /\ t.label[1] \in Nat /\ N + 1 \in Nat
  <2>1. x \in 1..N /\ 1 \in 1..N /\ N + 1 \in Nat
    BY <1>1
  <2> HIDE DEF x
  <2>2. t.terminal[x] \in Nat /\ t.label[1] \in Nat
    <3> DEFINE e == t.terminal
               b == t.label
    <3>1. e \in Seq(Nat) /\ Len(e) = N /\ b \in Seq(Nat) /\ Len(b) = N
      BY ONLY <1>1
    <3> HIDE DEF e, b
    <3>2. e[x] \in Nat /\ b[1] \in Nat
      BY ONLY <2>1, <3>1
    <3> QED
      BY ONLY <3>2 DEF e, b
  <2>3. end \in Nat
    BY <2>2
  <2> HIDE DEF end
  <2> QED BY ONLY <2>1, <2>2, <2>3
<1> HIDE DEF labels, zeros, end, x
<1>9. Extended(u.label, t.label, N, 1, t.label[1], n, labels)
  <2>1. Extended([t.label EXCEPT ![1] = t.label[1]] \o labels, t.label, N, 1, t.label[1], n, labels)
    BY ONLY <1>1, <1>4, <1>8, n \in Nat, ArrayExtended
  <2> QED
    BY ONLY <1>7, <2>1
<1>10. /\ Extended(u.first, t.first, N, x, N + 1, n, zeros)
       /\ Extended(u.count, t.count, N, x, n, n, zeros)
       /\ Extended(u.terminal, t.terminal, N, x, end, n, zeros)
  <2>1. Extended([t.first EXCEPT ![x] = N + 1] \o zeros, t.first, N, x, N + 1, n, zeros)
    BY ONLY <1>1, <1>4, <1>8, n \in Nat, ArrayExtended
  <2>2. Extended([t.count EXCEPT ![x] = n] \o zeros, t.count, N, x, n, n, zeros)
    BY ONLY <1>1, <1>4, <1>8, n \in Nat, ArrayExtended
  <2>3. Extended([t.terminal EXCEPT ![x] = end] \o zeros, t.terminal, N, x, end, n, zeros)
    BY ONLY <1>1, <1>4, <1>8, n \in Nat, ArrayExtended
  <2> QED
    BY ONLY <1>2, <1>6, <2>1, <2>2, <2>3
<1>11. \E m \in Nat :
         /\ Len(t.stack) = m + 1 /\ Len(u.stack) = m + n /\ AsList(u.stack)
         /\ \A i \in 1..m : u.stack[i] = t.stack[i]
         /\ \A i \in 1..n : u.stack[m + i] = Child(g, n, N, task.depth, i)
  <2> DEFINE m == Len(t.stack) - 1
             s == SubSeq(t.stack, 1, m)
             D == Range(t.stack) \cup {children[i] : i \in 1..n}
  <2>1. Len(t.stack) \in Nat /\ m \in Nat /\ Len(t.stack) = m + 1
    BY ListIs
  <2>2. t.stack \in Seq(D)
    <3>1. t.stack \in Seq(Range(t.stack)) /\ Range(t.stack) \subseteq D
      BY DEF AsList
    <3> HIDE DEF D
    <3> QED BY ONLY <3>1
  <2>3. children \in Seq(D) /\ Len(children) = n /\ children = [i \in 1..n |-> children[i]]
    <3>1. children = [i \in 1..n |-> children[i]] /\ \A i \in 1..n : children[i] \in D
      BY DEF children
    <3> HIDE DEF D
    <3> QED BY ONLY <3>1, n \in Nat
  <2> HIDE DEF D
  <2>4. s \in Seq(D) /\ Len(s) = m /\ \A i \in 1..m : s[i] = t.stack[i]
    <3> HIDE DEF m
    <3> QED BY ONLY <2>1, <2>2
  <2> HIDE DEF s
  <2>5. /\ u.stack \in Seq(D) /\ Len(u.stack) = m + n
        /\ \A i \in 1..m : u.stack[i] = s[i]
        /\ \A i \in 1..n : u.stack[m + i] = children[i]
    <3>1. u.stack = s \o children
      BY ONLY <1>3 DEF s, m
    <3> HIDE DEF m
    <3> QED
      BY ONLY <2>1, <2>3, <2>4, <3>1, n \in Nat
  <2>6. \A i \in 1..n : children[i] = Child(g, n, N, task.depth, i)
    BY DEF children
  <2>7. AsList(u.stack)
    <3>1. u.stack \in Seq(D)
      BY ONLY <2>5
    <3>2. \A i \in DOMAIN u.stack : u.stack[i] \in Range(u.stack)
      BY DEF Range
    <3> DEFINE q == u.stack
    <3> HIDE DEF q
    <3>3. q \in Seq(D) /\ (\A i \in DOMAIN q : q[i] \in Range(q))
      BY ONLY <3>1, <3>2 DEF q
    <3>4. q \in Seq(Range(q))
      BY ONLY <3>3
    <3> QED
      BY ONLY <3>4 DEF q, AsList
  <2> HIDE DEF m
  <2> QED
    BY ONLY <2>1, <2>4, <2>5, <2>6, <2>7
<1>12. \E added : /\ \A i \in 1..n : added[i] = g[i].label
                  /\ \E y : Extended(u.label, t.label, N, 1, y, n, added) /\ y = t.label[1]
  BY ONLY <1>5, <1>9
<1>13. \E z : /\ \A i \in 1..n : z[i] = 0
              /\ Extended(u.first, t.first, N, x, N + 1, n, z)
              /\ Extended(u.count, t.count, N, x, n, n, z)
              /\ Extended(u.terminal, t.terminal, N, x, end, n, z)
  BY ONLY <1>5, <1>10
<1> QED
  BY ONLY <1>2, <1>11, <1>12, <1>13 DEF GrownTo, x, end, u

\* Every node has its path and its run; a path has one node.
Node(X, W, x) ==
  /\ X[x].path \in Seq(Nat) /\ X[x].lo \in Nat /\ X[x].hi \in Nat
  /\ 1 <= X[x].lo /\ X[x].lo <= X[x].hi /\ X[x].hi <= Len(W) + 1
  /\ x # 1 => X[x].lo < X[x].hi
  /\ Under(W, X[x].path, X[x].lo, X[x].hi)

Placed(X, W, N) ==
  /\ DOMAIN X = 1..N /\ X[1].path = <<>> /\ X[1].lo = 1 /\ X[1].hi = Len(W) + 1
  /\ \A x \in 1..N : Node(X, W, x)
  /\ \A x, y \in 1..N : X[x].path = X[y].path => x = y

\* A node that has its children and, if its path is a word, that word.
Filled(t, X, W, N, x) ==
  LET s == IF t.terminal[x] = NoWord THEN X[x].lo ELSE X[x].lo + 1
      a == t.first[x]
      b == t.first[x] + t.count[x] - 1
  IN  /\ t.terminal[x] # NoWord =>
           t.terminal[x] = X[x].lo /\ X[x].lo \in DOMAIN W /\ W[X[x].lo].word = X[x].path
      /\ t.terminal[x] = NoWord => \A k \in DOMAIN W : W[k].word # X[x].path
      /\ s <= X[x].hi /\ (t.count[x] = 0 <=> s = X[x].hi)
      /\ t.count[x] > 0 => X[a].lo = s /\ X[b].hi = X[x].hi
      /\ \A c \in a..b : /\ c \in 1..N /\ c # 1 /\ X[c].path = Append(X[x].path, t.label[c])
                         /\ X[x].lo <= X[c].lo /\ X[c].hi <= X[x].hi
                         /\ c < b => X[c].hi = X[c + 1].lo
      /\ \A c, d \in a..b : c < d => t.label[c] < t.label[d]
      /\ \A k \in s..(X[x].hi - 1) : \E c \in a..b : k \in X[c].lo..(X[c].hi - 1)

Pending(t, x) == \E i \in DOMAIN t.stack : t.stack[i].node = x

Task(X, x) == [lo |-> X[x].lo, hi |-> X[x].hi, depth |-> Len(X[x].path), node |-> x]

Stacked(t, X, N) ==
  /\ AsList(t.stack)
  /\ \A i \in DOMAIN t.stack : /\ t.stack[i].node \in 1..N
                               /\ t.stack[i] = Task(X, t.stack[i].node)
  /\ \A i, j \in DOMAIN t.stack : t.stack[i].node = t.stack[j].node => i = j

Rooted(t, X, N) ==
  \A c \in 1..N : c # 1 =>
    \E x \in 1..N : ~Pending(t, x) /\ X[c].path = Append(X[x].path, t.label[c])

Growing(t, X, W, N) ==
  /\ t.words = W /\ Arrays(t, N) /\ Placed(X, W, N) /\ Stacked(t, X, N) /\ Rooted(t, X, N)
  /\ \A x \in 1..N : IF Pending(t, x) THEN t.terminal[x] = NoWord ELSE Filled(t, X, W, N, x)

Placing(X, g, x, N, n) ==
  [c \in 1..(N + n) |->
     IF c <= N THEN X[c]
     ELSE [path |-> Append(X[x].path, g[c - N].label), lo |-> g[c - N].lo, hi |-> g[c - N].hi]]

Continued(Y, X, g, x, N, n) ==
  /\ DOMAIN Y = 1..(N + n) /\ \A c \in 1..N : Y[c] = X[c]
  /\ \A i \in 1..n : /\ Y[N + i].path = Append(X[x].path, g[i].label)
                     /\ Y[N + i].lo = g[i].lo /\ Y[N + i].hi = g[i].hi

\* The paths and runs of the nodes after a step: the old ones stay.
LEMMA PlacingIs ==
  ASSUME NEW X, NEW g, NEW N \in Nat, NEW n \in Nat, NEW x, NEW Y, Y = Placing(X, g, x, N, n)
  PROVE  Continued(Y, X, g, x, N, n)
<1>1. DOMAIN Y = 1..(N + n) /\ \A c \in 1..N : Y[c] = X[c]
  BY DEF Placing
<1>2. ASSUME NEW i \in 1..n
      PROVE  Y[N + i] = [path |-> Append(X[x].path, g[i].label), lo |-> g[i].lo, hi |-> g[i].hi]
  <2>1. N + i \in 1..(N + n) /\ ~(N + i <= N) /\ (N + i) - N = i
    OBVIOUS
  <2> QED
    BY <2>1 DEF Placing
<1>3. ASSUME NEW i \in 1..n
      PROVE  /\ Y[N + i].path = Append(X[x].path, g[i].label)
             /\ Y[N + i].lo = g[i].lo /\ Y[N + i].hi = g[i].hi
  <2> DEFINE r == Y[N + i]
             p == Append(X[x].path, g[i].label)
  <2>1. r = [path |-> p, lo |-> g[i].lo, hi |-> g[i].hi]
    BY ONLY <1>2, <1>3
  <2> HIDE DEF r, p
  <2>2. r.path = p /\ r.lo = g[i].lo /\ r.hi = g[i].hi
    BY ONLY <2>1
  <2> QED
    BY ONLY <2>2 DEF r, p
<1> QED
  BY ONLY <1>1, <1>3 DEF Continued

\* A path and a letter make a path that is longer and has one way to be cut.
LEMMA EndsOtherwise ==
  ASSUME NEW p \in Seq(Nat), NEW q \in Seq(Nat), NEW a \in Nat, NEW b \in Nat
  PROVE  /\ Append(p, a) \in Seq(Nat) /\ Append(p, a) # <<>>
         /\ Append(p, a) = Append(q, b) => p = q /\ a = b
<1>1. ASSUME Append(p, a) = Append(q, b) PROVE p = q /\ a = b
  <2> DEFINE u == Append(p, a)
             v == Append(q, b)
             m == Len(p)
  <2>1. /\ Len(u) = Len(p) + 1 /\ Len(v) = Len(q) + 1 /\ Len(p) \in Nat /\ Len(q) \in Nat
        /\ (\A j \in 1..Len(p) : u[j] = p[j]) /\ \A j \in 1..Len(q) : v[j] = q[j]
        /\ u[Len(p) + 1] = a /\ v[Len(q) + 1] = b
    OBVIOUS
  <2>2. u = v
    BY <1>1
  <2> HIDE DEF u, v
  <2>3. Len(p) = Len(q) /\ a = b /\ \A j \in 1..Len(p) : p[j] = q[j]
    <3>1. Len(p) = Len(q)
      BY ONLY <2>1, <2>2
    <3>2. a = b
      BY ONLY <2>1, <2>2, <3>1
    <3> QED
      BY ONLY <2>1, <2>2, <3>1, <3>2
  <2>4. p = q
    BY ONLY <2>3, p \in Seq(Nat), q \in Seq(Nat), SMTT(30)
  <2> QED
    BY ONLY <2>3, <2>4
<1>2. Append(p, a) \in Seq(Nat) /\ Len(Append(p, a)) = Len(p) + 1 /\ Len(p) \in Nat
  OBVIOUS
<1> DEFINE r == Append(p, a)
<1>3. r # <<>>
  <2>1. Len(r) = Len(p) + 1 /\ Len(p) \in Nat /\ Len(<<>>) = 0
    BY <1>2
  <2> HIDE DEF r
  <2>2. r = <<>> => Len(r) = 0
    BY <2>1
  <2> QED
    BY ONLY <2>1, <2>2
<1> QED
  BY ONLY <1>1, <1>2, <1>3 DEF r

\* The nodes added for the branches of x are placed like the others.
LEMMA BranchesPlaced ==
  ASSUME NEW W, Len(W) \in Nat, NEW N \in Nat, N >= 1, NEW X, Placed(X, W, N), NEW x \in 1..N,
         NEW s \in Nat, NEW g, NEW n \in Nat, n = Len(g), X[x].lo <= s,
         Branches(g, W, X[x].path, s, X[x].hi),
         \A y \in 1..N : \A c \in Nat : X[y].path # Append(X[x].path, c),
         NEW Y, Continued(Y, X, g, x, N, n)
  PROVE  Placed(Y, W, N + n)
<1> DEFINE p == X[x].path
<1>1. /\ DOMAIN Y = 1..(N + n) /\ \A c \in 1..N : Y[c] = X[c]
      /\ \A i \in 1..n : /\ Y[N + i].path = Append(p, g[i].label)
                         /\ Y[N + i].lo = g[i].lo /\ Y[N + i].hi = g[i].hi
  BY ONLY Continued(Y, X, g, x, N, n) DEF Continued, p
<1>2. /\ p \in Seq(Nat) /\ X[x].lo \in Nat /\ X[x].hi \in Nat /\ 1 <= X[x].lo
      /\ X[x].hi <= Len(W) + 1
  BY DEF Placed, Node
<1>3. \A i \in 1..n : /\ g[i].label \in Nat /\ g[i].lo \in Nat /\ g[i].hi \in Nat
                      /\ s <= g[i].lo /\ g[i].lo < g[i].hi /\ g[i].hi <= X[x].hi
                      /\ Under(W, Append(p, g[i].label), g[i].lo, g[i].hi)
  BY DEF Branches
<1>4. \A i, j \in 1..n : i < j => g[i].label < g[j].label
  BY DEF Branches
<1>5. \A c \in 1..(N + n) : c \in 1..N \/ \E i \in 1..n : c = N + i
  <2> SUFFICES ASSUME NEW c \in 1..(N + n), c \notin 1..N PROVE \E i \in 1..n : c = N + i
    OBVIOUS
  <2>1. c - N \in 1..n /\ c = N + (c - N)
    OBVIOUS
  <2> QED
    BY <2>1
<1>6. ASSUME NEW c \in 1..N PROVE Node(Y, W, c)
  <2>1. Y[c] = X[c] /\ Node(X, W, c)
    BY <1>1 DEF Placed
  <2> QED
    BY ONLY <2>1 DEF Node
<1> HIDE DEF p
<1>7. ASSUME NEW i \in 1..n PROVE Node(Y, W, N + i)
  <2> DEFINE q == Append(p, g[i].label)
             a == g[i].lo
             b == g[i].hi
             r == Y[N + i]
  <2>1. /\ g[i].label \in Nat /\ a \in Nat /\ b \in Nat /\ s <= a /\ a < b /\ b <= X[x].hi
        /\ Under(W, q, a, b)
    BY ONLY <1>3, <1>7
  <2>2. r.path = q /\ r.lo = a /\ r.hi = b
    BY ONLY <1>1, <1>7
  <2>3. q \in Seq(Nat)
    BY ONLY <1>2, <2>1
  <2> HIDE DEF q, a, b, r
  <2>4. 1 <= a /\ a <= b /\ b <= Len(W) + 1
    BY ONLY <1>2, <2>1, s \in Nat, X[x].lo <= s, Len(W) \in Nat
  <2>5. /\ r.path \in Seq(Nat) /\ r.lo \in Nat /\ r.hi \in Nat
        /\ 1 <= r.lo /\ r.lo <= r.hi /\ r.hi <= Len(W) + 1
        /\ N + i # 1 => r.lo < r.hi
        /\ Under(W, r.path, r.lo, r.hi)
    BY ONLY <2>1, <2>2, <2>3, <2>4
  <2> QED
    BY ONLY <2>5 DEF Node, r
<1>8. ASSUME NEW c \in 1..(N + n), NEW d \in 1..(N + n), Y[c].path = Y[d].path
      PROVE  c = d
  <2>1. \A i \in 1..n : g[i].label \in Nat /\ Y[N + i].path = Append(p, g[i].label)
    BY ONLY <1>1, <1>3
  <2>2. \A y \in 1..N : Y[y].path = X[y].path
    BY ONLY <1>1
  <2>3. \A y \in 1..N : \A i \in 1..n : Y[y].path # Y[N + i].path
    BY ONLY <2>1, <2>2, \A y \in 1..N : \A e \in Nat : X[y].path # Append(X[x].path, e) DEF p
  <2>4. CASE c \in 1..N /\ d \in 1..N
    BY <1>8, <2>2, <2>4 DEF Placed
  <2>5. ASSUME NEW i \in 1..n, NEW j \in 1..n, Y[N + i].path = Y[N + j].path
        PROVE  i = j
    <3> DEFINE a == g[i].label
               b == g[j].label
    <3>1. a \in Nat /\ b \in Nat /\ Append(p, a) = Append(p, b)
      BY ONLY <2>1, <2>5
    <3>2. ~(a < b) /\ ~(b < a)
      <4> HIDE DEF a, b
      <4>1. a = b
        BY ONLY <1>2, <3>1, EndsOtherwise
      <4> QED
        BY ONLY <3>1, <4>1
    <3>3. ~(i < j) /\ ~(j < i)
      BY ONLY <1>4, <3>2, <2>5
    <3> QED
      BY ONLY <3>3
  <2> QED
    BY ONLY <1>5, <1>8, <2>3, <2>4, <2>5
<1>9. Y[1].path = <<>> /\ Y[1].lo = 1 /\ Y[1].hi = Len(W) + 1
  <2>1. Y[1] = X[1]
    BY <1>1
  <2> QED
    BY <2>1 DEF Placed
<1>10. \A c \in 1..(N + n) : Node(Y, W, c)
  BY ONLY <1>5, <1>6, <1>7
<1> QED
  BY ONLY <1>1, <1>8, <1>9, <1>10 DEF Placed

\* A step, cell by cell.
Stepped(u, t, x, end, g, N, n) ==
  /\ \A y \in 1..N : u.label[y] = t.label[y]
  /\ \A y \in 1..N : y # x => /\ u.first[y] = t.first[y] /\ u.count[y] = t.count[y]
                              /\ u.terminal[y] = t.terminal[y]
  /\ u.first[x] = N + 1 /\ u.count[x] = n /\ u.terminal[x] = end
  /\ \A i \in 1..n : u.label[N + i] = g[i].label /\ u.terminal[N + i] = NoWord

\* The arrays of the trie after a step.
LEMMA SteppedIs ==
  ASSUME NEW t, NEW N, Arrays(t, N), NEW task, task.node \in 1..N, NEW ends \in BOOLEAN,
         NEW g, NEW n \in Nat, NEW u, GrownTo(u, t, task, ends, g, N, n)
  PROVE  /\ Arrays(u, N + n)
         /\ Stepped(u, t, task.node, IF ends THEN task.lo ELSE t.terminal[task.node], g, N, n)
<1> DEFINE x == task.node
           end == IF ends THEN task.lo ELSE t.terminal[task.node]
<1>1. N \in Nat /\ N >= 1
  BY DEF Arrays
<1>2. PICK added : /\ \A i \in 1..n : added[i] = g[i].label
                   /\ Extended(u.label, t.label, N, 1, t.label[1], n, added)
  BY DEF GrownTo
<1>3. PICK zeros : /\ \A i \in 1..n : zeros[i] = 0
                   /\ Extended(u.first, t.first, N, x, N + 1, n, zeros)
                   /\ Extended(u.count, t.count, N, x, n, n, zeros)
                   /\ Extended(u.terminal, t.terminal, N, x, end, n, zeros)
  BY DEF GrownTo
<1>4. x \in 1..N
  OBVIOUS
<1> HIDE DEF x, end
<1>5. /\ u.label \in Seq(Nat) /\ Len(u.label) = N + n
      /\ \A y \in 1..N : u.label[y] = IF y = 1 THEN t.label[1] ELSE t.label[y]
      /\ \A i \in 1..n : u.label[N + i] = added[i]
  BY ONLY <1>2 DEF Extended
<1>6. /\ u.first \in Seq(Nat) /\ Len(u.first) = N + n
      /\ \A y \in 1..N : u.first[y] = IF y = x THEN N + 1 ELSE t.first[y]
  BY ONLY <1>3 DEF Extended
<1>7. /\ u.count \in Seq(Nat) /\ Len(u.count) = N + n
      /\ \A y \in 1..N : u.count[y] = IF y = x THEN n ELSE t.count[y]
  BY ONLY <1>3 DEF Extended
<1>8. /\ u.terminal \in Seq(Nat) /\ Len(u.terminal) = N + n
      /\ \A y \in 1..N : u.terminal[y] = IF y = x THEN end ELSE t.terminal[y]
      /\ \A i \in 1..n : u.terminal[N + i] = zeros[i]
  BY ONLY <1>3 DEF Extended
<1>9. Arrays(u, N + n)
  BY ONLY <1>1, <1>5, <1>6, <1>7, <1>8, n \in Nat DEF Arrays
<1>10. Stepped(u, t, x, end, g, N, n)
  <2>1. \A y \in 1..N : u.label[y] = t.label[y]
    BY ONLY <1>5
  <2>2. \A i \in 1..n : u.label[N + i] = g[i].label /\ u.terminal[N + i] = NoWord
    BY ONLY <1>2, <1>3, <1>5, <1>8 DEF NoWord
  <2> QED
    BY ONLY <2>1, <2>2, <1>4, <1>6, <1>7, <1>8 DEF Stepped
<1> QED
  BY ONLY <1>9, <1>10 DEF x, end

\* A node that has its children keeps them.
LEMMA FilledStays ==
  ASSUME NEW W, NEW N \in Nat, NEW n \in Nat, NEW X, NEW Y, NEW t, NEW u, NEW x, NEW end, NEW g,
         Arrays(t, N), Stepped(u, t, x, end, g, N, n), Continued(Y, X, g, x, N, n),
         NEW y \in 1..N, y # x, Filled(t, X, W, N, y)
  PROVE  Filled(u, Y, W, N + n, y)
<1>1. /\ \A c \in 1..N : Y[c] = X[c]
      /\ \A c \in 1..N : u.label[c] = t.label[c]
      /\ u.first[y] = t.first[y] /\ u.count[y] = t.count[y] /\ u.terminal[y] = t.terminal[y]
  BY DEF Stepped, Continued
<1>2. t.first[y] \in Nat /\ t.count[y] \in Nat
  <2> DEFINE e == t.first
             b == t.count
  <2>1. e \in Seq(Nat) /\ Len(e) = N /\ b \in Seq(Nat) /\ Len(b) = N
    BY DEF Arrays
  <2> HIDE DEF e, b
  <2>2. e[y] \in Nat /\ b[y] \in Nat
    BY ONLY <2>1, y \in 1..N
  <2> QED
    BY ONLY <2>2 DEF e, b
<1> DEFINE s == IF t.terminal[y] = NoWord THEN X[y].lo ELSE X[y].lo + 1
           a == t.first[y]
           b == t.first[y] + t.count[y] - 1
<1>3. /\ t.terminal[y] # NoWord =>
           t.terminal[y] = X[y].lo /\ X[y].lo \in DOMAIN W /\ W[X[y].lo].word = X[y].path
      /\ t.terminal[y] = NoWord => \A k \in DOMAIN W : W[k].word # X[y].path
      /\ s <= X[y].hi /\ (t.count[y] = 0 <=> s = X[y].hi)
      /\ t.count[y] > 0 => X[a].lo = s /\ X[b].hi = X[y].hi
  BY DEF Filled
<1>4. \A c \in a..b : /\ c \in 1..N /\ c # 1 /\ X[c].path = Append(X[y].path, t.label[c])
                      /\ X[y].lo <= X[c].lo /\ X[c].hi <= X[y].hi
                      /\ c < b => X[c].hi = X[c + 1].lo
  BY DEF Filled
<1>5. /\ \A c, d \in a..b : c < d => t.label[c] < t.label[d]
      /\ \A k \in s..(X[y].hi - 1) : \E c \in a..b : k \in X[c].lo..(X[c].hi - 1)
  BY DEF Filled
<1>6. a = u.first[y] /\ b = u.first[y] + u.count[y] - 1
      /\ s = IF u.terminal[y] = NoWord THEN Y[y].lo ELSE Y[y].lo + 1
  BY <1>1
<1>7. a \in Nat /\ b \in Int /\ (t.count[y] > 0 => a \in a..b /\ b \in a..b)
  BY <1>2
<1> HIDE DEF a, b, s
<1>8. t.count[y] > 0 => Y[a].lo = s /\ Y[b].hi = Y[y].hi
  BY <1>1, <1>3, <1>4, <1>7
<1>9. \A c \in a..b : /\ c \in 1..(N + n) /\ c # 1 /\ Y[c].path = Append(Y[y].path, u.label[c])
                      /\ Y[y].lo <= Y[c].lo /\ Y[c].hi <= Y[y].hi
                      /\ c < b => Y[c].hi = Y[c + 1].lo
  <2> SUFFICES ASSUME NEW c \in a..b
               PROVE  /\ c \in 1..(N + n) /\ c # 1 /\ Y[c].path = Append(Y[y].path, u.label[c])
                      /\ Y[y].lo <= Y[c].lo /\ Y[c].hi <= Y[y].hi
                      /\ c < b => Y[c].hi = Y[c + 1].lo
    OBVIOUS
  <2>1. Y[c] = X[c] /\ Y[y] = X[y] /\ u.label[c] = t.label[c] /\ c \in 1..(N + n)
    BY <1>1, <1>4
  <2>2. c < b => Y[c + 1] = X[c + 1]
    <3>1. c < b => c + 1 \in a..b
      BY <1>7
    <3> QED
      BY <1>1, <1>4, <3>1
  <2> QED
    BY <1>4, <2>1, <2>2
<1>10. \A c, d \in a..b : c < d => u.label[c] < u.label[d]
  BY <1>1, <1>4, <1>5
<1>11. \A k \in s..(Y[y].hi - 1) : \E c \in a..b : k \in Y[c].lo..(Y[c].hi - 1)
  <2> SUFFICES ASSUME NEW k \in s..(Y[y].hi - 1)
               PROVE  \E c \in a..b : k \in Y[c].lo..(Y[c].hi - 1)
    OBVIOUS
  <2>1. Y[y] = X[y]
    BY <1>1
  <2>2. PICK c \in a..b : k \in X[c].lo..(X[c].hi - 1)
    BY <1>5, <2>1
  <2>3. Y[c] = X[c]
    BY <1>1, <1>4
  <2> QED
    BY <2>2, <2>3
<1>12. /\ u.terminal[y] # NoWord =>
            u.terminal[y] = Y[y].lo /\ Y[y].lo \in DOMAIN W /\ W[Y[y].lo].word = Y[y].path
       /\ u.terminal[y] = NoWord => \A k \in DOMAIN W : W[k].word # Y[y].path
       /\ s <= Y[y].hi /\ (u.count[y] = 0 <=> s = Y[y].hi)
       /\ u.count[y] > 0 => Y[a].lo = s /\ Y[b].hi = Y[y].hi
  BY <1>1, <1>3, <1>8
<1> QED
  BY ONLY <1>6, <1>9, <1>10, <1>11, <1>12 DEF Filled

\* The node that was taken from the stack gets what it needs.
LEMMA FilledNow ==
  ASSUME NEW W, Len(W) \in Nat, DOMAIN W = 1..Len(W), NEW N \in Nat, N >= 1, NEW X, NEW x \in 1..N,
         Placed(X, W, N), NEW ends \in BOOLEAN, NEW s \in Nat,
         s = IF ends THEN X[x].lo + 1 ELSE X[x].lo, s <= X[x].hi,
         ends => X[x].lo \in DOMAIN W /\ W[X[x].lo].word = X[x].path,
         ~ends => \A k \in DOMAIN W : W[k].word # X[x].path,
         NEW g, NEW n \in Nat, n = Len(g), Branches(g, W, X[x].path, s, X[x].hi),
         NEW t, NEW u, Stepped(u, t, x, IF ends THEN X[x].lo ELSE NoWord, g, N, n),
         NEW Y, Continued(Y, X, g, x, N, n)
  PROVE  Filled(u, Y, W, N + n, x)
<1> DEFINE p == X[x].path
           lo == X[x].lo
           hi == X[x].hi
<1>1. lo \in Nat /\ hi \in Nat /\ 1 <= lo /\ p \in Seq(Nat)
  BY DEF Placed, Node
<1>2. /\ u.first[x] = N + 1 /\ u.count[x] = n
      /\ u.terminal[x] = IF ends THEN lo ELSE NoWord
      /\ \A i \in 1..n : u.label[N + i] = g[i].label
  BY DEF Stepped
<1>3. /\ Y[x].path = p /\ Y[x].lo = lo /\ Y[x].hi = hi
      /\ \A i \in 1..n : /\ Y[N + i].path = Append(p, g[i].label)
                         /\ Y[N + i].lo = g[i].lo /\ Y[N + i].hi = g[i].hi
  BY DEF Continued
<1>4. /\ n = 0 <=> s = hi
      /\ n > 0 => g[1].lo = s /\ g[n].hi = hi
      /\ \A i \in 1..n : /\ g[i].label \in Nat /\ g[i].lo \in Nat /\ g[i].hi \in Nat
                         /\ s <= g[i].lo /\ g[i].hi <= hi
      /\ \A i \in 1..(n - 1) : g[i].hi = g[i + 1].lo
      /\ \A i, j \in 1..n : i < j => g[i].label < g[j].label
      /\ \A k \in s..(hi - 1) : \E i \in 1..n : k \in g[i].lo..(g[i].hi - 1)
  BY DEF Branches
<1>5. /\ ends => lo \in DOMAIN W /\ W[lo].word = p
      /\ ~ends => \A k \in DOMAIN W : W[k].word # p
      /\ s = IF ends THEN lo + 1 ELSE lo
      /\ s <= hi
  OBVIOUS
<1> HIDE DEF p, lo, hi
<1>6. /\ (u.terminal[x] = NoWord) <=> ~ends
      /\ ends => u.terminal[x] = lo
      /\ s = IF u.terminal[x] = NoWord THEN Y[x].lo ELSE Y[x].lo + 1
  BY ONLY <1>1, <1>2, <1>3, <1>5 DEF NoWord
<1>7. \A c \in (N + 1)..(N + n) : \E i \in 1..n : c = N + i
  <2> SUFFICES ASSUME NEW c \in (N + 1)..(N + n) PROVE \E i \in 1..n : c = N + i
    OBVIOUS
  <2>1. c - N \in 1..n /\ c = N + (c - N)
    OBVIOUS
  <2> QED
    BY <2>1
<1>8. \A c \in (N + 1)..(N + n) :
        /\ c \in 1..(N + n) /\ c # 1 /\ Y[c].path = Append(Y[x].path, u.label[c])
        /\ Y[x].lo <= Y[c].lo /\ Y[c].hi <= Y[x].hi
        /\ c < N + n => Y[c].hi = Y[c + 1].lo
  <2> SUFFICES ASSUME NEW i \in 1..n
               PROVE  /\ N + i \in 1..(N + n) /\ N + i # 1
                      /\ Y[N + i].path = Append(Y[x].path, u.label[N + i])
                      /\ Y[x].lo <= Y[N + i].lo /\ Y[N + i].hi <= Y[x].hi
                      /\ N + i < N + n => Y[N + i].hi = Y[N + i + 1].lo
    BY <1>7
  <2>1. N + i \in 1..(N + n) /\ N + i # 1
    OBVIOUS
  <2>2. Y[N + i].path = Append(Y[x].path, u.label[N + i])
    BY ONLY <1>2, <1>3, i \in 1..n
  <2>3. g[i].lo \in Nat /\ s <= g[i].lo /\ g[i].hi <= hi /\ Y[N + i].lo = g[i].lo /\ Y[N + i].hi = g[i].hi
    BY ONLY <1>3, <1>4, i \in 1..n
  <2>4. lo <= s
    BY <1>1, <1>5
  <2>5. Y[x].lo <= Y[N + i].lo /\ Y[N + i].hi <= Y[x].hi
    BY ONLY <1>1, <1>3, <2>3, <2>4, s \in Nat
  <2>6. ASSUME N + i < N + n PROVE Y[N + i].hi = Y[N + i + 1].lo
    <3>1. i \in 1..(n - 1) /\ i + 1 \in 1..n /\ N + (i + 1) = N + i + 1
      BY <2>6
    <3>2. Y[N + (i + 1)].lo = g[i + 1].lo /\ g[i].hi = g[i + 1].lo
      BY ONLY <1>3, <1>4, <3>1
    <3> QED
      BY ONLY <2>3, <3>1, <3>2
  <2> QED
    BY <2>1, <2>2, <2>5, <2>6
<1>9. \A c, d \in (N + 1)..(N + n) : c < d => u.label[c] < u.label[d]
  <2> SUFFICES ASSUME NEW c \in (N + 1)..(N + n), NEW d \in (N + 1)..(N + n), c < d
               PROVE  u.label[c] < u.label[d]
    OBVIOUS
  <2>1. PICK i \in 1..n : c = N + i
    BY <1>7
  <2>2. PICK j \in 1..n : d = N + j
    BY <1>7
  <2>3. i < j
    BY <2>1, <2>2
  <2>4. g[i].label < g[j].label
    BY <1>4, <2>3
  <2> QED
    BY <1>2, <2>1, <2>2, <2>4
<1>10. \A k \in s..(Y[x].hi - 1) : \E c \in (N + 1)..(N + n) : k \in Y[c].lo..(Y[c].hi - 1)
  <2> SUFFICES ASSUME NEW k \in s..(Y[x].hi - 1)
               PROVE  \E c \in (N + 1)..(N + n) : k \in Y[c].lo..(Y[c].hi - 1)
    OBVIOUS
  <2>1. PICK i \in 1..n : k \in g[i].lo..(g[i].hi - 1)
    BY <1>3, <1>4
  <2>2. N + i \in (N + 1)..(N + n)
    OBVIOUS
  <2> QED
    BY <1>3, <2>1, <2>2
<1>11. n > 0 => Y[N + 1].lo = s /\ Y[N + n].hi = Y[x].hi
  <2> SUFFICES ASSUME n > 0 PROVE Y[N + 1].lo = s /\ Y[N + n].hi = Y[x].hi
    OBVIOUS
  <2>1. 1 \in 1..n /\ n \in 1..n
    OBVIOUS
  <2> QED
    BY <1>3, <1>4, <2>1
<1> DEFINE a == u.first[x]
           b == u.first[x] + u.count[x] - 1
<1>12. a = N + 1 /\ b = N + n
  BY <1>2
<1> HIDE DEF a, b
<1>13. /\ u.count[x] > 0 => Y[a].lo = s /\ Y[b].hi = Y[x].hi
       /\ \A c \in a..b : /\ c \in 1..(N + n) /\ c # 1 /\ Y[c].path = Append(Y[x].path, u.label[c])
                          /\ Y[x].lo <= Y[c].lo /\ Y[c].hi <= Y[x].hi
                          /\ c < b => Y[c].hi = Y[c + 1].lo
       /\ \A c, d \in a..b : c < d => u.label[c] < u.label[d]
       /\ \A k \in s..(Y[x].hi - 1) : \E c \in a..b : k \in Y[c].lo..(Y[c].hi - 1)
  BY ONLY <1>2, <1>8, <1>9, <1>10, <1>11, <1>12
<1>14. /\ u.terminal[x] # NoWord =>
            u.terminal[x] = Y[x].lo /\ Y[x].lo \in DOMAIN W /\ W[Y[x].lo].word = Y[x].path
       /\ u.terminal[x] = NoWord => \A k \in DOMAIN W : W[k].word # Y[x].path
       /\ s <= Y[x].hi /\ (u.count[x] = 0 <=> s = Y[x].hi)
  BY ONLY <1>2, <1>3, <1>4, <1>5, <1>6
<1> QED
  BY ONLY <1>6, <1>13, <1>14 DEF Filled, a, b

\* The stack of tasks after a step: the task is gone, the children wait.
StackGrown(u, t, g, depth, N, n) ==
  \E m \in Nat :
    /\ Len(t.stack) = m + 1 /\ Len(u.stack) = m + n /\ AsList(u.stack)
    /\ \A i \in 1..m : u.stack[i] = t.stack[i]
    /\ \A i \in 1..n : u.stack[m + i] = Child(g, n, N, depth, i)

Labelled(g, n) == \A i \in 1..n : g[i].label \in Nat

\* Who waits after a step: the node taken does not, its children do.
Waiting(u, t, x, N, n) ==
  /\ \A y \in 1..N : Pending(u, y) <=> Pending(t, y) /\ y # x
  /\ \A i \in 1..n : Pending(u, N + i)

\* The top was taken and its n children wait in its place.
Overwritten(u, t, Y, x, N, n) ==
  /\ Stacked(u, Y, N + n) /\ Waiting(u, t, x, N, n)
  /\ Len(t.stack) \in Nat /\ Len(u.stack) \in Nat /\ Len(u.stack) = Len(t.stack) + n - 1

TopWaits(t, X, x, N) ==
  Stacked(t, X, N) /\ Len(t.stack) # 0 /\ x = t.stack[Len(t.stack)].node

\* The work stack after a step: each node once, the task of its path and run.
LEMMA StackedStill ==
  ASSUME NEW N \in Nat, NEW n \in Nat, NEW X, NEW t, NEW x \in 1..N, TopWaits(t, X, x, N),
         X[x].path \in Seq(Nat), NEW g, Labelled(g, n),
         NEW u, StackGrown(u, t, g, Len(X[x].path), N, n), NEW Y, Continued(Y, X, g, x, N, n)
  PROVE  Overwritten(u, t, Y, x, N, n)
<1> DEFINE p == X[x].path
<1>16. Stacked(t, X, N) /\ Len(t.stack) # 0 /\ x = t.stack[Len(t.stack)].node
  BY DEF TopWaits
<1>1. PICK m \in Nat :
        /\ Len(t.stack) = m + 1 /\ Len(u.stack) = m + n /\ AsList(u.stack)
        /\ \A i \in 1..m : u.stack[i] = t.stack[i]
        /\ \A i \in 1..n : u.stack[m + i] = Child(g, n, N, Len(p), i)
  BY DEF StackGrown
<1>2. AsList(t.stack) /\ DOMAIN t.stack = 1..(m + 1) /\ DOMAIN u.stack = 1..(m + n)
  BY <1>1, <1>16, ListIs DEF Stacked
<1>3. /\ \A i \in 1..(m + 1) : t.stack[i].node \in 1..N /\ t.stack[i] = Task(X, t.stack[i].node)
      /\ \A i, j \in 1..(m + 1) : t.stack[i].node = t.stack[j].node => i = j
      /\ t.stack[m + 1].node = x
  BY <1>1, <1>2, <1>16 DEF Stacked
<1>4. /\ \A y \in 1..N : Y[y] = X[y]
      /\ \A i \in 1..n : /\ Y[N + i].path = Append(p, g[i].label)
                         /\ Y[N + i].lo = g[i].lo /\ Y[N + i].hi = g[i].hi
  BY DEF Continued
<1>0. p \in Seq(Nat) /\ \A i \in 1..n : g[i].label \in Nat
  BY DEF Labelled
<1> HIDE DEF p
<1>5. ASSUME NEW i \in 1..n
      PROVE  /\ n + 1 - i \in 1..n /\ u.stack[m + i].node = N + (n + 1 - i)
             /\ u.stack[m + i] = Task(Y, N + (n + 1 - i))
  <2> DEFINE j == n + 1 - i
  <2>1. j \in 1..n /\ N + 1 + n - i = N + j
    OBVIOUS
  <2>2. u.stack[m + i] = [lo |-> g[j].lo, hi |-> g[j].hi, depth |-> Len(p) + 1, node |-> N + j]
    BY <1>1, <2>1 DEF Child
  <2> HIDE DEF j
  <2>3. Len(Append(p, g[j].label)) = Len(p) + 1
    <3> DEFINE e == g[j].label
    <3>1. p \in Seq(Nat) /\ e \in Nat
      BY <1>0, <2>1
    <3> HIDE DEF e
    <3>2. Len(Append(p, e)) = Len(p) + 1
      BY ONLY <3>1
    <3> QED
      BY <3>2 DEF e
  <2>4. Task(Y, N + j) = [lo |-> g[j].lo, hi |-> g[j].hi, depth |-> Len(p) + 1, node |-> N + j]
    BY <1>4, <2>1, <2>3 DEF Task
  <2>5. u.stack[m + i].node = N + j
    BY ONLY <2>2
  <2> QED
    BY ONLY <2>1, <2>2, <2>4, <2>5 DEF j
<1>6. \A i \in 1..(m + n) : i \in 1..m \/ \E j \in 1..n : i = m + j
  <2> SUFFICES ASSUME NEW i \in 1..(m + n), i \notin 1..m PROVE \E j \in 1..n : i = m + j
    OBVIOUS
  <2>1. i - m \in 1..n /\ i = m + (i - m)
    OBVIOUS
  <2> QED
    BY <2>1
<1>14. \A i \in 1..(m + n) : i \notin 1..m =>
         i > m /\ i - m \in 1..n /\ u.stack[i].node = N + (n + 1 - (i - m))
  <2> SUFFICES ASSUME NEW i \in 1..(m + n), i \notin 1..m
               PROVE  i > m /\ i - m \in 1..n /\ u.stack[i].node = N + (n + 1 - (i - m))
    OBVIOUS
  <2> DEFINE j == i - m
  <2>1. j \in 1..n /\ i = m + j /\ i > m
    OBVIOUS
  <2> HIDE DEF j
  <2>2. u.stack[m + j].node = N + (n + 1 - j)
    BY <1>5, <2>1
  <2> QED
    BY <2>1, <2>2 DEF j
<1>7. \A i \in 1..m : /\ u.stack[i].node \in 1..N /\ u.stack[i].node = t.stack[i].node
                      /\ u.stack[i] = Task(Y, u.stack[i].node)
  <2> SUFFICES ASSUME NEW i \in 1..m
               PROVE  /\ u.stack[i].node \in 1..N /\ u.stack[i].node = t.stack[i].node
                      /\ u.stack[i] = Task(Y, u.stack[i].node)
    OBVIOUS
  <2>1. u.stack[i] = t.stack[i] /\ i \in 1..(m + 1)
    BY <1>1
  <2>2. t.stack[i].node \in 1..N /\ t.stack[i] = Task(X, t.stack[i].node)
    BY <1>3, <2>1
  <2>3. Task(Y, t.stack[i].node) = Task(X, t.stack[i].node)
    BY <1>4, <2>2 DEF Task
  <2> QED
    BY ONLY <2>1, <2>2, <2>3
<1>8. \A i \in 1..(m + n) : u.stack[i].node \in 1..(N + n) /\ u.stack[i] = Task(Y, u.stack[i].node)
  BY ONLY <1>5, <1>6, <1>7, N \in Nat, n \in Nat
<1>9. \A i, j \in 1..(m + n) : u.stack[i].node = u.stack[j].node => i = j
  <2> SUFFICES ASSUME NEW i \in 1..(m + n), NEW j \in 1..(m + n), u.stack[i].node = u.stack[j].node
               PROVE  i = j
    OBVIOUS
  <2>1. CASE i \in 1..m /\ j \in 1..m
    <3>1. i \in 1..(m + 1) /\ j \in 1..(m + 1)
      BY <2>1
    <3> QED
      BY <1>3, <1>7, <2>1, <3>1
  <2> DEFINE a == u.stack[i].node
             b == u.stack[j].node
  <2>5. /\ i \in 1..m => a \in 1..N
        /\ j \in 1..m => b \in 1..N
        /\ i \notin 1..m => i - m \in 1..n /\ a = N + (n + 1 - (i - m))
        /\ j \notin 1..m => j - m \in 1..n /\ b = N + (n + 1 - (j - m))
        /\ a = b
    BY <1>7, <1>14
  <2> HIDE DEF a, b
  <2>2. CASE i \notin 1..m /\ j \notin 1..m
    <3>1. N + (n + 1 - (i - m)) = N + (n + 1 - (j - m)) /\ i - m \in 1..n /\ j - m \in 1..n
      BY ONLY <2>2, <2>5
    <3>2. i \in Nat /\ j \in Nat
      OBVIOUS
    <3> QED
      BY ONLY <3>1, <3>2, N \in Nat, n \in Nat, m \in Nat
  <2>3. CASE i \in 1..m /\ j \notin 1..m
    BY <2>3, <2>5
  <2>4. CASE i \notin 1..m /\ j \in 1..m
    BY <2>4, <2>5
  <2> QED
    BY <2>1, <2>2, <2>3, <2>4
<1>10. ASSUME NEW y \in 1..N
       PROVE  Pending(u, y) <=> Pending(t, y) /\ y # x
  <2>1. ASSUME Pending(u, y) PROVE Pending(t, y) /\ y # x
    <3>1. PICK i \in 1..(m + n) : u.stack[i].node = y
      BY <1>2, <2>1 DEF Pending
    <3>2. i \in 1..m
      <4> DEFINE a == u.stack[i].node
      <4>1. a = y /\ (i \notin 1..m => i - m \in 1..n /\ a = N + (n + 1 - (i - m)))
        BY <1>14, <3>1
      <4> HIDE DEF a
      <4> QED
        BY <4>1
    <3>3. t.stack[i].node = y /\ i \in 1..(m + 1) /\ m + 1 \in 1..(m + 1) /\ i # m + 1
      BY <1>7, <3>1, <3>2
    <3> QED
      BY <1>2, <1>3, <3>3 DEF Pending
  <2>2. ASSUME Pending(t, y), y # x PROVE Pending(u, y)
    <3>1. PICK i \in 1..(m + 1) : t.stack[i].node = y
      BY <1>2, <2>2 DEF Pending
    <3>2. i \in 1..m /\ i \in 1..(m + n)
      <4>1. i # m + 1
        BY ONLY <1>3, <2>2, <3>1
      <4> QED
        BY ONLY <3>1, <4>1, m \in Nat, n \in Nat
    <3> QED
      BY <1>2, <1>7, <3>1, <3>2 DEF Pending
  <2> QED
    BY <2>1, <2>2
<1>11. ASSUME NEW i \in 1..n PROVE Pending(u, N + i)
  <2> DEFINE j == n + 1 - i
  <2>1. j \in 1..n /\ n + 1 - j = i /\ m + j \in 1..(m + n)
    OBVIOUS
  <2>2. u.stack[m + j].node = N + i
    <3> HIDE DEF j
    <3>1. u.stack[m + j].node = N + (n + 1 - j)
      BY ONLY <1>5, <2>1
    <3> QED
      BY ONLY <2>1, <3>1
  <2> QED
    BY <1>2, <2>1, <2>2 DEF Pending
<1>12. Stacked(u, Y, N + n)
  BY ONLY <1>1, <1>2, <1>8, <1>9 DEF Stacked
<1>13. Len(t.stack) \in Nat /\ Len(u.stack) \in Nat /\ Len(u.stack) = Len(t.stack) + n - 1
  BY <1>1
<1> QED
  BY ONLY <1>10, <1>11, <1>12, <1>13 DEF Waiting, Overwritten

\* Every node but the root is still the child of a finished node.
LEMMA RootedStill ==
  ASSUME NEW N \in Nat, NEW n \in Nat, NEW X, NEW t, Rooted(t, X, N), NEW x \in 1..N, NEW end,
         NEW g, NEW u, Stepped(u, t, x, end, g, N, n), NEW Y, Continued(Y, X, g, x, N, n),
         Waiting(u, t, x, N, n)
  PROVE  Rooted(u, Y, N + n)
<1>0. \A y \in 1..N : Pending(u, y) <=> Pending(t, y) /\ y # x
  BY DEF Waiting
<1>1. /\ \A y \in 1..N : u.label[y] = t.label[y] /\ Y[y] = X[y]
      /\ \A i \in 1..n : u.label[N + i] = g[i].label /\ Y[N + i].path = Append(X[x].path, g[i].label)
  BY DEF Stepped, Continued
<1> SUFFICES ASSUME NEW c \in 1..(N + n), c # 1
             PROVE  \E y \in 1..(N + n) :
                      ~Pending(u, y) /\ Y[c].path = Append(Y[y].path, u.label[c])
  BY DEF Rooted
<1>2. CASE c \in 1..N
  <2>1. PICK y \in 1..N : ~Pending(t, y) /\ X[c].path = Append(X[y].path, t.label[c])
    BY <1>2 DEF Rooted
  <2>3. Y[c] = X[c] /\ Y[y] = X[y] /\ u.label[c] = t.label[c]
    BY <1>1, <1>2
  <2>4. ~Pending(u, y) /\ y \in 1..(N + n)
    BY <1>0, <2>1
  <2>2. y \in 1..(N + n) /\ ~Pending(u, y) /\ Y[c].path = Append(Y[y].path, u.label[c])
    BY ONLY <2>1, <2>3, <2>4
  <2> QED
    BY <2>2
<1>3. CASE c \notin 1..N
  <2>1. c - N \in 1..n /\ c = N + (c - N)
    BY <1>3
  <2>2. PICK i \in 1..n : c = N + i
    BY <2>1
  <2>4. Y[x] = X[x] /\ Y[c].path = Append(X[x].path, g[i].label) /\ u.label[c] = g[i].label
    BY <1>1, <2>2
  <2>5. x \in 1..(N + n) /\ ~Pending(u, x)
    BY <1>0
  <2>3. x \in 1..(N + n) /\ ~Pending(u, x) /\ Y[c].path = Append(Y[x].path, u.label[c])
    BY ONLY <2>4, <2>5
  <2> QED
    BY <2>3
<1> QED
  BY <1>2, <1>3

\* After k steps there are k nodes more than tasks.
Grew(t, W, k) == \E X, N : Growing(t, X, W, N) /\ Len(t.stack) \in Nat /\ N = k + Len(t.stack)

\* A step keeps the invariant of the construction and adds the nodes it waits for.
LEMMA GrowKeeps ==
  ASSUME NEW W, InOrder(W), NEW t, NEW k \in Nat, Grew(t, W, k), Len(t.stack) # 0
  PROVE  Grew(Grow(t), W, k + 1)
<1>1. PICK X, N : Growing(t, X, W, N) /\ Len(t.stack) \in Nat /\ N = k + Len(t.stack)
  BY DEF Grew
<1>2. /\ t.words = W /\ Arrays(t, N) /\ Placed(X, W, N) /\ Stacked(t, X, N) /\ Rooted(t, X, N)
      /\ \A y \in 1..N : IF Pending(t, y) THEN t.terminal[y] = NoWord ELSE Filled(t, X, W, N, y)
  BY <1>1 DEF Growing
<1>3. AsList(t.stack) /\ DOMAIN t.stack = 1..Len(t.stack) /\ Len(t.stack) \in 1..Len(t.stack)
  BY <1>1, <1>2, ListIs DEF Stacked
<1>4. Len(W) \in Nat /\ DOMAIN W = 1..Len(W) /\ N \in Nat /\ N >= 1
  BY <1>2, ListIs DEF InOrder, Arrays
<1> DEFINE task == t.stack[Len(t.stack)]
           x == task.node
<1>5. x \in 1..N /\ Pending(t, x) /\ task = Task(X, x)
  BY <1>2, <1>3 DEF Stacked, Pending
<1> DEFINE p == X[x].path
           lo == X[x].lo
           hi == X[x].hi
<1>6. task.lo = lo /\ task.hi = hi /\ task.depth = Len(p)
  <2> HIDE DEF task, x
  <2> QED BY <1>5 DEF Task
<1>7. /\ p \in Seq(Nat) /\ lo \in Nat /\ hi \in Nat /\ 1 <= lo /\ lo <= hi /\ hi <= Len(W) + 1
      /\ Under(W, p, lo, hi) /\ t.terminal[x] = NoWord
  BY <1>2, <1>5 DEF Placed, Node
<1> DEFINE ends == lo < hi /\ Len(W[lo].word) = Len(p)
           s == IF ends THEN lo + 1 ELSE lo
           g == Groups(W, s, hi, Len(p))
           n == Len(g)
           u == Grow(t)
           Y == Placing(X, g, x, N, n)
<1>8. u = Grown(t, task, ends, g)
  BY <1>2, <1>6 DEF Grow
<1> HIDE DEF p, lo, hi, g, u, Y
<1>9. ends \in BOOLEAN
  OBVIOUS
<1>10. /\ ends => lo \in DOMAIN W /\ W[lo].word = p
       /\ ~ends => \A j \in DOMAIN W : W[j].word # p
       /\ s \in Nat /\ s <= hi
       /\ Branches(g, W, p, s, hi)
  <2> DEFINE e == ends
             r == s
  <2>1. e \in BOOLEAN /\ (e <=> lo < hi /\ Len(W[lo].word) = Len(p)) /\ r = (IF e THEN lo + 1 ELSE lo)
    BY <1>9
  <2> HIDE DEF e, r
  <2>2. /\ e => lo \in DOMAIN W /\ W[lo].word = p
        /\ ~e => \A j \in DOMAIN W : W[j].word # p
        /\ r \in Nat /\ r <= hi
        /\ Branches(Groups(W, r, hi, Len(p)), W, p, r, hi)
    BY ONLY <1>7, <2>1, InOrder(W), BranchesAre
  <2> QED
    BY ONLY <2>2 DEF e, r, g
<1>11. /\ n \in Nat
       /\ \A i \in 1..n : g[i].label \in Nat
       /\ lo <= s
  BY <1>7, <1>10 DEF Branches
<1>12. s = IF ends THEN lo + 1 ELSE lo
  OBVIOUS
<1>13. n = Len(g)
  OBVIOUS
<1> HIDE DEF ends, s, n
<1>14. task.node \in 1..N /\ task.lo \in Nat
  BY <1>5, <1>6, <1>7
<1>15. GrownTo(u, t, task, ends, g, N, n)
  <2>1. GrownTo(Grown(t, task, ends, g), t, task, ends, g, N, n)
    <3> HIDE DEF task, x
    <3> QED BY ONLY <1>2, <1>3, <1>9, <1>11, <1>13, <1>14, Len(t.stack) # 0, GrownIs
  <2> QED
    BY ONLY <1>8, <2>1
<1>16. Continued(Y, X, g, x, N, n)
  BY ONLY <1>4, <1>11, PlacingIs DEF Y
<1>17. Arrays(u, N + n) /\ Stepped(u, t, x, IF ends THEN lo ELSE NoWord, g, N, n)
  <2>1. /\ Arrays(u, N + n)
        /\ Stepped(u, t, task.node, IF ends THEN task.lo ELSE t.terminal[task.node], g, N, n)
    <3> HIDE DEF task, x
    <3> QED BY ONLY <1>2, <1>9, <1>11, <1>14, <1>15, SteppedIs
  <2> QED
    BY ONLY <1>6, <1>7, <2>1
<1>18. StackGrown(u, t, g, Len(p), N, n)
  <2>1. \E m \in Nat :
          /\ Len(t.stack) = m + 1 /\ Len(u.stack) = m + n /\ AsList(u.stack)
          /\ \A i \in 1..m : u.stack[i] = t.stack[i]
          /\ \A i \in 1..n : u.stack[m + i] = Child(g, n, N, task.depth, i)
    BY ONLY <1>15 DEF GrownTo
  <2> QED
    BY ONLY <1>6, <2>1 DEF StackGrown
<1>19. u.words = W
  BY ONLY <1>2, <1>15 DEF GrownTo
<1>20. x = t.stack[Len(t.stack)].node
  OBVIOUS
<1>21. \A y \in 1..N : \A c \in Nat : X[y].path # Append(X[x].path, c)
  <2> SUFFICES ASSUME NEW y \in 1..N, NEW c \in Nat, X[y].path = Append(p, c) PROVE FALSE
    BY DEF p
  <2>1. y # 1
    <3>1. Append(p, c) # <<>>
      BY <1>7, EndsOtherwise
    <3> QED
      BY <1>2, <3>1 DEF Placed
  <2>2. PICK z \in 1..N : ~Pending(t, z) /\ X[y].path = Append(X[z].path, t.label[y])
    BY <1>2, <2>1 DEF Rooted
  <2>3. X[z].path \in Seq(Nat)
    BY <1>2 DEF Placed, Node
  <2>4. t.label[y] \in Nat
    <3>1. t.label \in Seq(Nat) /\ Len(t.label) = N
      BY <1>2 DEF Arrays
    <3> QED
      BY ONLY <3>1, y \in 1..N
  <2>5. X[z].path = p
    <3> DEFINE q == X[z].path
               a == t.label[y]
    <3>1. q \in Seq(Nat) /\ a \in Nat /\ Append(p, c) = Append(q, a)
      BY <2>2, <2>3, <2>4
    <3> HIDE DEF q, a
    <3>2. p = q
      BY ONLY <1>7, <3>1, c \in Nat, EndsOtherwise
    <3> QED
      BY <3>2 DEF q
  <2>6. z = x
    BY <1>2, <1>5, <2>5 DEF p, Placed
  <2> QED
    BY <1>5, <2>2, <2>6
<1> HIDE DEF task, x
<1>22. Placed(Y, W, N + n)
  BY ONLY <1>2, <1>4, <1>5, <1>10, <1>11, <1>13, <1>16, <1>21, BranchesPlaced DEF p, lo, hi
<1>30. /\ Stacked(u, Y, N + n) /\ Waiting(u, t, x, N, n)
       /\ Len(t.stack) \in Nat /\ Len(u.stack) \in Nat /\ Len(u.stack) = Len(t.stack) + n - 1
  <2>1. Labelled(g, n) /\ X[x].path \in Seq(Nat) /\ StackGrown(u, t, g, Len(X[x].path), N, n)
    BY ONLY <1>7, <1>11, <1>18 DEF Labelled, p
  <2>2. N \in Nat /\ n \in Nat /\ x \in 1..N /\ Stacked(t, X, N)
    BY ONLY <1>2, <1>4, <1>5, <1>11
  <2>3. TopWaits(t, X, x, N)
    BY ONLY <1>20, <2>2, Len(t.stack) # 0 DEF TopWaits
  <2>4. Overwritten(u, t, Y, x, N, n)
    BY ONLY <1>16, <2>1, <2>2, <2>3, StackedStill
  <2> QED
    BY ONLY <2>4 DEF Overwritten
<1>23. /\ Stacked(u, Y, N + n)
       /\ \A y \in 1..N : Pending(u, y) <=> Pending(t, y) /\ y # x
       /\ \A i \in 1..n : Pending(u, N + i)
  BY ONLY <1>30 DEF Waiting
<1>24. Rooted(u, Y, N + n)
  <2> DEFINE end == IF ends THEN lo ELSE NoWord
  <2>1. /\ Stepped(u, t, x, end, g, N, n) /\ Rooted(t, X, N) /\ N \in Nat /\ n \in Nat
        /\ x \in 1..N /\ Waiting(u, t, x, N, n)
    BY ONLY <1>2, <1>4, <1>5, <1>11, <1>17, <1>30
  <2> HIDE DEF end
  <2> QED
    BY ONLY <1>16, <2>1, RootedStill
<1>25. Filled(u, Y, W, N + n, x)
  BY ONLY <1>2, <1>4, <1>5, <1>9, <1>10, <1>11, <1>12, <1>13, <1>16, <1>17, FilledNow DEF p, lo, hi
<1>26. ASSUME NEW y \in 1..N, y # x, ~Pending(t, y)
       PROVE  Filled(u, Y, W, N + n, y)
  <2>1. Filled(t, X, W, N, y)
    BY <1>2, <1>26
  <2> QED
    <3> DEFINE end == IF ends THEN lo ELSE NoWord
    <3>1. Stepped(u, t, x, end, g, N, n) /\ Arrays(t, N) /\ N \in Nat /\ n \in Nat
      BY ONLY <1>2, <1>4, <1>11, <1>17
    <3> HIDE DEF end
    <3> QED
      BY ONLY <1>16, <1>26, <2>1, <3>1, FilledStays
<1>27. \A y \in 1..(N + n) :
         IF Pending(u, y) THEN u.terminal[y] = NoWord ELSE Filled(u, Y, W, N + n, y)
  <2> SUFFICES ASSUME NEW y \in 1..(N + n)
               PROVE  IF Pending(u, y) THEN u.terminal[y] = NoWord ELSE Filled(u, Y, W, N + n, y)
    OBVIOUS
  <2>1. CASE y \in 1..N
    <3>1. y # x => u.terminal[y] = t.terminal[y]
      BY <1>17, <2>1 DEF Stepped
    <3> QED
      BY <1>2, <1>23, <1>25, <1>26, <2>1, <3>1
  <2>2. CASE y \notin 1..N
    <3>1. y - N \in 1..n /\ y = N + (y - N)
      BY <1>4, <1>11, <2>2
    <3>2. PICK i \in 1..n : y = N + i
      BY <3>1
    <3>3. u.terminal[N + i] = NoWord
      BY <1>17 DEF Stepped
    <3> QED
      BY <1>23, <3>2, <3>3
  <2> QED
    BY <2>1, <2>2
<1>28. Growing(u, Y, W, N + n)
  BY ONLY <1>17, <1>19, <1>22, <1>23, <1>24, <1>27 DEF Growing
<1>29. N + n = k + 1 + Len(u.stack)
  <2>1. N = k + Len(t.stack) /\ n \in Nat
    BY ONLY <1>1, <1>11
  <2> DEFINE a == Len(t.stack)
             b == Len(u.stack)
  <2>2. a \in Nat /\ b \in Nat /\ b = a + n - 1 /\ N = k + a
    BY ONLY <1>30, <2>1
  <2> HIDE DEF a, b
  <2>3. N + n = k + 1 + b
    BY ONLY <2>1, <2>2, k \in Nat
  <2> QED
    BY ONLY <2>3 DEF b
<1> QED
  BY ONLY <1>28, <1>29, <1>30 DEF Grew, u

(***************************************************************************)
(* The built trie: there are no more nodes than letters and the root.      *)
(***************************************************************************)
Lettered(L, W) ==
  L \in [0..Len(W) -> Nat] /\ L[0] = 0 /\ \A k \in 1..Len(W) : L[k] = L[k - 1] + Len(W[k].word)

\* The letters of the first words are no more than those of more words.
LEMMA LettersAdded ==
  ASSUME NEW W, InOrder(W), NEW L, Lettered(L, W)
  PROVE  \A i, j \in 0..Len(W) : i <= j => L[i] <= L[j]
<1>1. Len(W) \in Nat /\ DOMAIN W = 1..Len(W) /\ \A k \in 1..Len(W) : Len(W[k].word) \in Nat
  BY ListIs DEF InOrder
<1>2. L \in [0..Len(W) -> Nat] /\ \A k \in 1..Len(W) : L[k] = L[k - 1] + Len(W[k].word)
  BY DEF Lettered
<1> DEFINE n == Len(W)
           T == {j \in Nat : j <= n => \A i \in 0..j : L[i] <= L[j]}
<1> HIDE DEF n
<1>3. 0 \in T
  BY <1>1, <1>2 DEF n
<1>4. ASSUME NEW j \in T, j + 1 <= n PROVE \A i \in 0..(j + 1) : L[i] <= L[j + 1]
  <2>1. j \in Nat /\ j + 1 \in 1..n /\ (j + 1) - 1 = j /\ j \in 0..n /\ j + 1 \in 0..n
    BY <1>1, <1>4 DEF n
  <2>5. L[j + 1] = L[j] + Len(W[j + 1].word) /\ Len(W[j + 1].word) \in Nat /\ L[j] \in Nat
    BY <1>1, <1>2, <2>1 DEF n
  <2> DEFINE e == Len(W[j + 1].word)
             b == L[j]
  <2>2. L[j] <= L[j + 1] /\ L[j] \in Nat /\ L[j + 1] \in Nat
    <3>1. L[j + 1] = b + e /\ e \in Nat /\ b \in Nat
      BY <2>5
    <3> HIDE DEF b, e
    <3>2. b <= L[j + 1] /\ L[j + 1] \in Nat
      BY ONLY <3>1
    <3> QED
      BY <2>5, <3>2 DEF b
  <2>3. \A i \in 0..j : L[i] <= L[j] /\ L[i] \in Nat
    <3>1. \A i \in 0..j : L[i] <= L[j]
      BY <1>4, <2>1
    <3>2. \A i \in 0..j : i \in 0..Len(W)
      BY <1>1, <2>1 DEF n
    <3> QED
      BY <1>2, <3>1, <3>2
  <2>4. \A i \in 0..(j + 1) : i \in 0..j \/ i = j + 1
    BY <2>1
  <2> QED
    BY ONLY <2>2, <2>3, <2>4
<1>5. \A j \in T \cap Nat : j + 1 \in T
  BY <1>4
<1>6. Nat \subseteq T
  <2> HIDE DEF T
  <2> QED BY <1>3, <1>5, Induction
<1> QED
  BY <1>1, <1>6 DEF n

\* The place of a node in the order in which the words are read under the root.
Key(L, X, c) == IF c = 1 THEN 0 ELSE L[X[c].lo - 1] + Len(X[c].path)

\* The key of a node lies among the letters of the first word of its run.
LEMMA KeyIs ==
  ASSUME NEW W, InOrder(W), NEW L, Lettered(L, W), NEW N \in Nat, N >= 1, NEW X, Placed(X, W, N),
         NEW c \in 1..N, c # 1
  PROVE  /\ X[c].lo \in 1..Len(W) /\ X[c].lo < X[c].hi /\ X[c].hi - 1 \in 1..Len(W)
         /\ Key(L, X, c) \in Nat
         /\ L[X[c].lo - 1] < Key(L, X, c) /\ Key(L, X, c) <= L[X[c].lo]
         /\ StartsWith(W[X[c].lo].word, X[c].path)
         /\ Key(L, X, c) = L[X[c].lo - 1] + Len(X[c].path)
<1> DEFINE lo == X[c].lo
           hi == X[c].hi
           p == X[c].path
           w == W[lo].word
<1>1. Len(W) \in Nat /\ DOMAIN W = 1..Len(W) /\ \A k \in 1..Len(W) : W[k].word \in Seq(Nat)
  BY ListIs DEF InOrder
<1>2. /\ p \in Seq(Nat) /\ lo \in Nat /\ hi \in Nat /\ 1 <= lo /\ lo < hi /\ hi <= Len(W) + 1
      /\ Under(W, p, lo, hi) /\ p # <<>>
  BY DEF Placed, Node
<1> HIDE DEF lo, hi, p
<1>3. lo \in 1..Len(W) /\ hi - 1 \in 1..Len(W) /\ lo \in lo..(hi - 1)
  BY <1>1, <1>2
<1>4. w \in Seq(Nat) /\ StartsWith(w, p)
  BY <1>1, <1>2, <1>3 DEF Under
<1>5. L[lo - 1] \in Nat /\ L[lo] = L[lo - 1] + Len(w)
  <2>1. L \in [0..Len(W) -> Nat] /\ lo - 1 \in 0..Len(W)
    BY <1>1, <1>3 DEF Lettered
  <2> QED
    BY <1>3, <2>1 DEF Lettered
<1> HIDE DEF w
<1>6. Len(p) \in Nat /\ Len(w) \in Nat /\ Len(p) <= Len(w)
  BY <1>2, <1>4, StartsWithAt
<1>7. Len(p) # 0
  BY <1>2
<1>8. Key(L, X, c) = L[lo - 1] + Len(p)
  BY DEF Key, lo, p
<1>9. /\ Key(L, X, c) \in Nat /\ L[lo - 1] < Key(L, X, c) /\ Key(L, X, c) <= L[lo]
  BY ONLY <1>5, <1>6, <1>7, <1>8
<1> QED
  BY ONLY <1>2, <1>3, <1>4, <1>8, <1>9 DEF lo, hi, p, w

\* No two nodes have one key.
LEMMA KeysDiffer ==
  ASSUME NEW W, InOrder(W), NEW L, Lettered(L, W), NEW N \in Nat, N >= 1, NEW X, Placed(X, W, N),
         NEW c \in 1..N, NEW d \in 1..N, Key(L, X, c) = Key(L, X, d)
  PROVE  c = d
<1>1. ASSUME NEW e \in 1..N, e # 1 PROVE Key(L, X, e) # 0
  <2>1. L[X[e].lo - 1] < Key(L, X, e) /\ X[e].lo \in 1..Len(W)
    BY <1>1, KeyIs
  <2>2. L[X[e].lo - 1] \in Nat
    <3>1. Len(W) \in Nat /\ L \in [0..Len(W) -> Nat]
      BY ListIs DEF Lettered, InOrder
    <3>2. X[e].lo - 1 \in 0..Len(W)
      BY <2>1, <3>1
    <3> QED BY <3>1, <3>2
  <2> QED
    BY <2>1, <2>2
<1>2. Key(L, X, 1) = 0
  BY DEF Key
<1>3. CASE c = 1 \/ d = 1
  BY <1>1, <1>2, <1>3
<1>4. CASE c # 1 /\ d # 1
  <2> DEFINE a == X[c].lo
             b == X[d].lo
             p == X[c].path
             q == X[d].path
             k == Key(L, X, c)
  <2>1. /\ a \in 1..Len(W) /\ k \in Nat /\ L[a - 1] < k /\ k <= L[a] /\ k = L[a - 1] + Len(p)
        /\ StartsWith(W[a].word, p)
    BY <1>4, KeyIs
  <2>2. /\ b \in 1..Len(W) /\ L[b - 1] < k /\ k <= L[b] /\ k = L[b - 1] + Len(q)
        /\ StartsWith(W[b].word, q)
    BY <1>4, KeyIs
  <2>3. p \in Seq(Nat) /\ q \in Seq(Nat)
    BY DEF Placed, Node
  <2>4. Len(W) \in Nat /\ DOMAIN W = 1..Len(W) /\ L \in [0..Len(W) -> Nat]
    BY ListIs DEF Lettered, InOrder
  <2>5. \A i, j \in 0..Len(W) : i <= j => L[i] <= L[j]
    BY LettersAdded
  <2>6. p = q => c = d
    BY DEF Placed
  <2>7. \A i \in 1..Len(W) : W[i].word \in Seq(Nat)
    BY <2>4 DEF InOrder
  <2> HIDE DEF a, b, p, q, k
  <2>8. a - 1 \in 0..Len(W) /\ b - 1 \in 0..Len(W) /\ a \in 0..Len(W) /\ b \in 0..Len(W)
    BY <2>1, <2>2, <2>4
  <2>9. /\ L[a] \in Nat /\ L[b] \in Nat /\ L[a - 1] \in Nat /\ L[b - 1] \in Nat
    BY <2>4, <2>8
  <2>10. ~(a < b) /\ ~(b < a)
    <3>1. a < b => a <= b - 1
      BY <2>8
    <3>2. b < a => b <= a - 1
      BY <2>8
    <3>3. (a < b => L[a] <= L[b - 1]) /\ (b < a => L[b] <= L[a - 1])
      BY <2>5, <2>8, <3>1, <3>2
    <3>4. L[a - 1] < k /\ k <= L[a] /\ k \in Nat /\ L[b - 1] < k /\ k <= L[b]
      BY ONLY <2>1, <2>2
    <3>5. ~(a < b)
      BY ONLY <2>9, <3>3, <3>4
    <3>6. ~(b < a)
      BY ONLY <2>9, <3>3, <3>4
    <3> QED
      BY ONLY <3>5, <3>6
  <2>11. a = b
    BY <2>8, <2>10
  <2>12. Len(p) = Len(q)
    BY <2>1, <2>2, <2>3, <2>9, <2>11
  <2> DEFINE w == W[a].word
  <2>13. w \in Seq(Nat) /\ StartsWith(w, p) /\ StartsWith(w, q)
    BY <2>1, <2>2, <2>7, <2>11
  <2> HIDE DEF w
  <2>14. /\ \A j \in 1..Len(p) : w[j] = p[j]
         /\ \A j \in 1..Len(q) : w[j] = q[j]
    BY <2>3, <2>13, StartsWithAt
  <2>15. \A j \in 1..Len(p) : p[j] = q[j]
    BY ONLY <2>12, <2>14
  <2>16. p = q
    BY ONLY <2>3, <2>12, <2>15
  <2> QED
    BY <2>6, <2>16
<1> QED
  BY <1>3, <1>4

\* So there are no more nodes than letters and the root.
LEMMA NodesAreFew ==
  ASSUME NEW W, InOrder(W), NEW L, Lettered(L, W), NEW N \in Nat, N >= 1, NEW X, Placed(X, W, N)
  PROVE  L[Len(W)] \in Nat /\ N <= L[Len(W)] + 1
<1> DEFINE top == L[Len(W)]
           f == [c \in 1..N |-> Key(L, X, c)]
<1>1. Len(W) \in Nat /\ L \in [0..Len(W) -> Nat]
  BY ListIs DEF Lettered, InOrder
<1>2. top \in Nat
  BY <1>1
<1>3. ASSUME NEW c \in 1..N PROVE Key(L, X, c) \in 0..top
  <2>1. CASE c = 1
    BY <1>2, <2>1 DEF Key
  <2>2. CASE c # 1
    <3>1. /\ X[c].lo \in 1..Len(W) /\ Key(L, X, c) \in Nat /\ Key(L, X, c) <= L[X[c].lo]
      BY <2>2, KeyIs
    <3> DEFINE a == X[c].lo
               k == Key(L, X, c)
    <3>2. a \in 0..Len(W) /\ Len(W) \in 0..Len(W) /\ a <= Len(W)
      BY <1>1, <3>1
    <3>3. L[a] <= top /\ L[a] \in Nat
      BY <1>1, <3>2, LettersAdded
    <3>4. k \in Nat /\ k <= L[a]
      BY <3>1
    <3> HIDE DEF a, k, top
    <3>5. k \in 0..top
      BY ONLY <1>2, <3>3, <3>4
    <3> QED
      BY ONLY <3>5 DEF k
  <2> QED
    BY <2>1, <2>2
<1> HIDE DEF top
<1>4. f \in Injection(1..N, 0..top)
  <2>1. f \in [1..N -> 0..top]
    BY <1>3
  <2>2. \A c, d \in 1..N : f[c] = f[d] => c = d
    BY KeysDiffer
  <2> HIDE DEF f
  <2> QED BY ONLY <2>1, <2>2 DEF Injection, IsInjective
<1>5. IsFiniteSet(0..top) /\ Cardinality(0..top) = top + 1 /\ Cardinality(1..N) = N
  BY <1>2, FS_Interval
<1>6. Cardinality(1..N) <= Cardinality(0..top)
  <2> HIDE DEF f
  <2> QED BY <1>4, <1>5, FS_Injection
<1> QED
  BY <1>2, <1>5, <1>6 DEF top

\* A trie that waits for nothing: every node has its children.
Finished(t, X, W, N) ==
  /\ InOrder(W) /\ t.words = W /\ Arrays(t, N) /\ Placed(X, W, N)
  /\ \A x \in 1..N : Filled(t, X, W, N, x)

RootOf(W) ==
  [words |-> W, label |-> <<0>>, first |-> <<0>>, count |-> <<0>>, terminal |-> <<NoWord>>,
   stack |-> <<[lo |-> 1, hi |-> Len(W) + 1, depth |-> 0, node |-> 1]>>]

\* The construction starts with the root and the run of all the words.
LEMMA RootGrows ==
  ASSUME NEW W, InOrder(W)
  PROVE  Grew(RootOf(W), W, 0)
<1> DEFINE t == RootOf(W)
           X == [c \in 1..1 |-> [path |-> <<>>, lo |-> 1, hi |-> Len(W) + 1]]
           task == [lo |-> 1, hi |-> Len(W) + 1, depth |-> 0, node |-> 1]
<1>1. Len(W) \in Nat /\ DOMAIN W = 1..Len(W) /\ \A k \in 1..Len(W) : W[k].word \in Seq(Nat)
  BY ListIs DEF InOrder
<1>2. /\ t.words = W /\ t.label = <<0>> /\ t.first = <<0>> /\ t.count = <<0>>
      /\ t.terminal = <<0>> /\ t.stack = <<task>>
  BY DEF RootOf, NoWord
<1>3. DOMAIN X = 1..1 /\ X[1].path = <<>> /\ X[1].lo = 1 /\ X[1].hi = Len(W) + 1
  OBVIOUS
<1>4. \A x \in 1..1 : x = 1
  OBVIOUS
<1>5. task.node = 1 /\ task = Task(X, 1)
  BY <1>3 DEF Task
<1> HIDE DEF t, X, task
<1>6. Arrays(t, 1)
  BY <1>2 DEF Arrays
<1>7. Under(W, <<>>, 1, Len(W) + 1)
  BY <1>1, ItsOwnPrefix DEF Under
<1>8. Placed(X, W, 1)
  <2>1. <<>> \in Seq(Nat)
    OBVIOUS
  <2>2. Node(X, W, 1)
    BY <1>1, <1>3, <1>7, <2>1 DEF Node
  <2> QED
    BY ONLY <1>3, <1>4, <2>2 DEF Placed
<1>9. DOMAIN t.stack = 1..1 /\ t.stack[1] = task /\ Len(t.stack) = 1 /\ AsList(t.stack)
  <2>1. t.stack \in Seq({task}) /\ DOMAIN t.stack = 1..1 /\ t.stack[1] = task /\ Len(t.stack) = 1
    BY <1>2
  <2>2. Range(t.stack) = {task}
    BY <1>4, <2>1 DEF Range
  <2> QED
    BY <2>1, <2>2 DEF AsList
<1>10. Stacked(t, X, 1)
  BY <1>4, <1>5, <1>9 DEF Stacked
<1>11. Rooted(t, X, 1)
  BY <1>4 DEF Rooted
<1>12. t.terminal[1] = NoWord /\ Pending(t, 1)
  BY <1>2, <1>5, <1>9 DEF NoWord, Pending
<1>13. Growing(t, X, W, 1)
  BY ONLY <1>2, <1>4, <1>6, <1>8, <1>10, <1>11, <1>12 DEF Growing
<1> QED
  BY ONLY <1>9, <1>13 DEF Grew, t

\* The steps of a definition along the numbers, for the three that the trie makes.
SummedTo(f, size, m) ==
  f = [k \in 0..m |-> IF k = 0 THEN 0 ELSE f[k - 1] + size[k]] /\ f \in [0..m -> Nat]

\* The count of the letters, word by word.
LEMMA LettersExist ==
  ASSUME NEW W, InOrder(W), NEW L,
         L = CHOOSE f : f = [k \in 0..Len(W) |-> IF k = 0 THEN 0 ELSE f[k - 1] + Len(W[k].word)]
  PROVE  Lettered(L, W)
<1>1. Len(W) \in Nat /\ DOMAIN W = 1..Len(W) /\ \A k \in 1..Len(W) : W[k].word \in Seq(Nat)
  BY ListIs DEF InOrder
<1> DEFINE n == Len(W)
           size == [k \in 1..n |-> Len(W[k].word)]
           T == {m \in Nat : m <= n => \E f : SummedTo(f, size, m)}
<1>2. size \in [1..n -> Nat] /\ n \in Nat
  BY <1>1
<1>3. 0 \in T
  <2> DEFINE f == [k \in 0..0 |-> 0]
  <2>1. SummedTo(f, size, 0)
    BY DEF SummedTo
  <2> QED
    BY <2>1
<1>4. ASSUME NEW m \in T, m + 1 <= n PROVE \E f : SummedTo(f, size, m + 1)
  <2> HIDE DEF size, n
  <2>6. PICK f : SummedTo(f, size, m)
    BY <1>2, <1>4
  <2>1. f = [k \in 0..m |-> IF k = 0 THEN 0 ELSE f[k - 1] + size[k]] /\ f \in [0..m -> Nat]
    BY <2>6 DEF SummedTo
  <2> DEFINE h == [k \in 0..(m + 1) |-> IF k = m + 1 THEN f[m] + size[m + 1] ELSE f[k]]
  <2>2. m \in Nat /\ m + 1 \in 1..n /\ f[m] \in Nat /\ size[m + 1] \in Nat
    BY <1>2, <1>4, <2>1
  <2>3. h \in [0..(m + 1) -> Nat]
    BY <2>1, <2>2
  <2>4. ASSUME NEW k \in 0..(m + 1)
        PROVE  h[k] = IF k = 0 THEN 0 ELSE h[k - 1] + size[k]
    <3>1. CASE k = m + 1
      BY <2>2, <3>1
    <3>2. CASE k # m + 1
      <4>1. k \in 0..m /\ (k # 0 => k - 1 \in 0..m)
        BY <2>2, <3>2
      <4>2. f[k] = IF k = 0 THEN 0 ELSE f[k - 1] + size[k]
        BY <2>1, <4>1
      <4>3. h[k] = f[k] /\ (k # 0 => h[k - 1] = f[k - 1])
        BY <2>2, <3>2, <4>1
      <4> QED
        BY <4>2, <4>3
    <3> QED
      BY <3>1, <3>2
  <2>5. h = [k \in 0..(m + 1) |-> h[k]]
    OBVIOUS
  <2> HIDE DEF h
  <2>7. SummedTo(h, size, m + 1)
    BY <2>3, <2>4, <2>5 DEF SummedTo
  <2> QED
    BY <2>7
<1>5. \A m \in T \cap Nat : m + 1 \in T
  <2> HIDE DEF size, n
  <2> QED BY <1>4
<1>6. Nat \subseteq T
  <2> HIDE DEF T
  <2> QED BY <1>3, <1>5, Induction
<1>7. PICK f : SummedTo(f, size, n)
  <2> HIDE DEF size, n
  <2> QED BY <1>2, <1>6
<1>8. f = [k \in 0..Len(W) |-> IF k = 0 THEN 0 ELSE f[k - 1] + Len(W[k].word)]
  <2>1. \A k \in 0..n : k # 0 => size[k] = Len(W[k].word)
    BY <1>2
  <2> HIDE DEF size
  <2> QED
    BY <1>7, <2>1 DEF SummedTo
<1>9. L = [k \in 0..Len(W) |-> IF k = 0 THEN 0 ELSE L[k - 1] + Len(W[k].word)]
  BY <1>8
<1>10. L[0] = 0 /\ \A k \in 1..n : L[k] = L[k - 1] + size[k]
  <2> HIDE DEF size
  <2>1. \A k \in 1..n : k \in 0..n /\ k # 0
    BY <1>2
  <2>2. \A k \in 1..n : size[k] = Len(W[k].word)
    BY DEF size
  <2>3. /\ 0 \in 0..n /\ L[0] = 0
        /\ \A k \in 1..n : L[k] = L[k - 1] + Len(W[k].word)
    <3>1. 0 \in 0..n
      BY <1>2
    <3> QED
      BY <1>9, <2>1, <3>1
  <2> QED
    BY ONLY <2>2, <2>3
<1>11. \A k \in 0..n : L[k] \in Nat
  <2> DEFINE U == {m \in Nat : m <= n => L[m] \in Nat}
  <2> HIDE DEF size, n
  <2>1. 0 \in U
    BY <1>10
  <2>2. ASSUME NEW m \in U, m + 1 <= n PROVE L[m + 1] \in Nat
    <3>1. m \in Nat /\ m + 1 \in 1..n /\ (m + 1) - 1 = m /\ L[m] \in Nat
      BY <1>2, <2>2
    <3>2. L[m + 1] = L[m] + size[m + 1] /\ size[m + 1] \in Nat
      BY <1>2, <1>10, <3>1
    <3> QED
      BY <3>1, <3>2
  <2>3. \A m \in U \cap Nat : m + 1 \in U
    BY <2>2
  <2>4. Nat \subseteq U
    <3> HIDE DEF U
    <3> QED BY <2>1, <2>3, Induction
  <2> QED
    BY <1>2, <2>4
<1>12. L \in [0..n -> Nat]
  <2>1. L = [k \in 0..n |-> L[k]]
    BY <1>9
  <2> HIDE DEF n
  <2> QED
    BY ONLY <1>11, <2>1
<1> QED
  BY ONLY <1>10, <1>12 DEF Lettered, n, size

Tended(t) == IF t.stack = <<>> THEN t ELSE Grow(t)

BuiltTo(f, root, m) ==
  f = [k \in 0..m |-> IF k = 0 THEN root ELSE Tended(f[k - 1])]

\* The states of the construction, step by step.
LEMMA BuildingExists ==
  ASSUME NEW root, NEW n \in Nat
  PROVE  \E f : BuiltTo(f, root, n)
<1> DEFINE T == {m \in Nat : \E f : BuiltTo(f, root, m)}
<1>1. 0 \in T
  <2> DEFINE f == [k \in 0..0 |-> root]
  <2>1. BuiltTo(f, root, 0)
    BY DEF BuiltTo
  <2> QED
    BY <2>1
<1>2. ASSUME NEW m \in T PROVE \E f : BuiltTo(f, root, m + 1)
  <2>1. PICK f : BuiltTo(f, root, m)
    BY <1>2
  <2> DEFINE h == [k \in 0..(m + 1) |-> IF k = m + 1 THEN Tended(f[m]) ELSE f[k]]
  <2>2. m \in Nat
    BY <1>2
  <2>4. ASSUME NEW k \in 0..(m + 1)
        PROVE  h[k] = IF k = 0 THEN root ELSE Tended(h[k - 1])
    <3>1. CASE k = m + 1
      <4>1. k - 1 = m /\ m \in 0..(m + 1) /\ m # m + 1 /\ k # 0
        BY <2>2, <3>1
      <4>2. h[k] = Tended(f[m]) /\ h[m] = f[m]
        BY <3>1, <4>1
      <4> QED
        BY <4>1, <4>2
    <3>2. CASE k # m + 1
      <4>1. k \in 0..m /\ (k # 0 => k - 1 \in 0..m)
        BY <2>2, <3>2
      <4>2. f[k] = IF k = 0 THEN root ELSE Tended(f[k - 1])
        BY <2>1, <4>1 DEF BuiltTo
      <4>3. h[k] = f[k] /\ (k # 0 => h[k - 1] = f[k - 1])
        BY <2>2, <3>2, <4>1
      <4> QED
        BY <4>2, <4>3
    <3> QED
      BY <3>1, <3>2
  <2>5. BuiltTo(h, root, m + 1)
    <3>1. h = [k \in 0..(m + 1) |-> h[k]]
      OBVIOUS
    <3> HIDE DEF h
    <3> QED
      BY <2>4, <3>1 DEF BuiltTo
  <2> HIDE DEF h
  <2> QED
    BY <2>5
<1>3. \A m \in T \cap Nat : m + 1 \in T
  BY <1>2
<1>4. Nat \subseteq T
  <2> HIDE DEF T
  <2> QED BY <1>1, <1>3, Induction
<1> QED
  BY <1>4

\* When all the steps are done no task is left: the trie is finished.
LEMMA TrieIsGrown ==
  ASSUME NEW W, InOrder(W), NEW t, t = TrieOfSorted(W)
  PROVE  \E X, N : Finished(t, X, W, N)
<1> DEFINE L == CHOOSE f : f = [k \in 0..Len(W) |-> IF k = 0 THEN 0 ELSE f[k - 1] + Len(W[k].word)]
           n == L[Len(W)] + 1
           B == CHOOSE f : f = [k \in 0..n |-> IF k = 0 THEN RootOf(W) ELSE Tended(f[k - 1])]
<1>1. Lettered(L, W)
  <2> HIDE DEF L
  <2>1. L = CHOOSE f : f = [k \in 0..Len(W) |-> IF k = 0 THEN 0 ELSE f[k - 1] + Len(W[k].word)]
    BY DEF L
  <2> QED
    BY ONLY <2>1, InOrder(W), LettersExist
<1>2. t = B[n]
  BY DEF TrieOfSorted, RootOf, Tended
<1> HIDE DEF L
<1>3. L[Len(W)] \in Nat /\ n \in Nat
  <2>1. Len(W) \in Nat /\ L \in [0..Len(W) -> Nat]
    BY <1>1, ListIs DEF InOrder, Lettered
  <2> QED
    BY <2>1
<1>4. B[0] = RootOf(W) /\ \A k \in 1..n : B[k] = Tended(B[k - 1])
  <2> DEFINE r == RootOf(W)
  <2>1. B = CHOOSE f : f = [k \in 0..n |-> IF k = 0 THEN r ELSE Tended(f[k - 1])]
    BY DEF B
  <2> HIDE DEF B, n, r
  <2>2. \E f : BuiltTo(f, r, n)
    BY <1>3, BuildingExists
  <2>3. B = [k \in 0..n |-> IF k = 0 THEN r ELSE Tended(B[k - 1])]
    BY <2>1, <2>2 DEF BuiltTo
  <2>4. 0 \in 0..n /\ \A k \in 1..n : k \in 0..n /\ k # 0
    BY <1>3
  <2>5. B[0] = r /\ \A k \in 1..n : B[k] = Tended(B[k - 1])
    BY ONLY <2>3, <2>4
  <2> QED
    BY <2>5 DEF r
<1> HIDE DEF B
<1> DEFINE Rest(u) == u.stack = <<>> /\ \E j \in Nat : Grew(u, W, j)
           T == {k \in Nat : k <= n => Grew(B[k], W, k) \/ Rest(B[k])}
<1>5. 0 \in T
  BY <1>4, RootGrows
<1>6. ASSUME NEW k \in T, k + 1 <= n PROVE Grew(B[k + 1], W, k + 1) \/ Rest(B[k + 1])
  <2>1. k \in Nat /\ k + 1 \in 1..n /\ (k + 1) - 1 = k /\ (Grew(B[k], W, k) \/ Rest(B[k]))
    BY <1>3, <1>6
  <2>2. B[k + 1] = Tended(B[k])
    BY <1>4, <2>1
  <2>3. CASE B[k].stack = <<>>
    <3>1. B[k + 1] = B[k]
      BY <2>2, <2>3 DEF Tended
    <3> QED
      BY <2>1, <2>3, <3>1
  <2>4. CASE B[k].stack # <<>>
    <3>1. B[k + 1] = Grow(B[k]) /\ Grew(B[k], W, k)
      BY <2>1, <2>2, <2>4 DEF Tended
    <3>2. Len(B[k].stack) # 0
      <4>1. AsList(B[k].stack)
        BY <3>1 DEF Grew, Growing, Stacked
      <4> QED
        BY <2>4, <4>1 DEF AsList
    <3> QED
      BY <2>1, <3>1, <3>2, GrowKeeps
  <2> QED
    BY <2>3, <2>4
<1>7. \A k \in T \cap Nat : k + 1 \in T
  BY <1>6
<1>8. Nat \subseteq T
  <2> HIDE DEF T
  <2> QED BY <1>5, <1>7, Induction
<1>9. Grew(t, W, n) \/ Rest(t)
  BY <1>2, <1>3, <1>8
<1>10. PICK j \in Nat : Grew(t, W, j) /\ (j = n \/ t.stack = <<>>)
  BY <1>3, <1>9
<1>11. PICK X, N : Growing(t, X, W, N) /\ Len(t.stack) \in Nat /\ N = j + Len(t.stack)
  BY <1>10 DEF Grew
<1>12. Arrays(t, N) /\ Placed(X, W, N) /\ Stacked(t, X, N) /\ t.words = W
  BY <1>11 DEF Growing
<1>13. N \in Nat /\ N >= 1
  BY <1>12 DEF Arrays
<1>14. N <= n
  BY <1>1, <1>12, <1>13, NodesAreFew
<1>15. Len(t.stack) = 0
  BY <1>3, <1>10, <1>11, <1>14
<1>16. DOMAIN t.stack = {}
  <2>1. AsList(t.stack)
    BY <1>12 DEF Stacked
  <2> QED
    BY <1>15, <2>1 DEF AsList
<1>17. \A x \in 1..N : Filled(t, X, W, N, x)
  BY <1>11, <1>16 DEF Growing, Pending
<1> QED
  BY <1>12, <1>17 DEF Finished

(***************************************************************************)
(* Walking down a finished trie.                                           *)
(***************************************************************************)
Stride(t, node, c) ==
  LET next == IF node = NoNode THEN {} ELSE {d \in Children(t, node) : t.label[d] = c}
  IN  IF next = {} THEN NoNode ELSE CHOOSE d \in next : TRUE

\* The node of a path, or none if no word goes that way.
Reached(node, X, W, N, p) ==
  IF node = NoNode THEN \A k \in DOMAIN W : ~StartsWith(W[k].word, p)
  ELSE node \in 1..N /\ X[node].path = p

\* What is known of a node of a finished trie.
LEMMA FilledIs ==
  ASSUME NEW t, NEW X, NEW W, NEW N, Finished(t, X, W, N), NEW x \in 1..N
  PROVE  /\ N \in Nat /\ N >= 1 /\ Len(W) \in Nat /\ DOMAIN W = 1..Len(W)
         /\ \A k \in DOMAIN W : W[k].word \in Seq(Nat)
         /\ X[x].path \in Seq(Nat) /\ X[x].lo \in Nat /\ X[x].hi \in Nat
         /\ 1 <= X[x].lo /\ X[x].lo <= X[x].hi /\ X[x].hi <= Len(W) + 1
         /\ x # 1 => X[x].lo < X[x].hi
         /\ Under(W, X[x].path, X[x].lo, X[x].hi)
         /\ t.label[x] \in Nat /\ t.first[x] \in Nat /\ t.count[x] \in Nat /\ t.terminal[x] \in Nat
         /\ Filled(t, X, W, N, x)
         /\ Children(t, x) = t.first[x]..(t.first[x] + t.count[x] - 1)
<1>1. /\ N \in Nat /\ N >= 1 /\ Len(W) \in Nat /\ DOMAIN W = 1..Len(W)
      /\ \A k \in DOMAIN W : W[k].word \in Seq(Nat)
  BY ListIs DEF Finished, Arrays, InOrder
<1>2. Node(X, W, x)
  BY DEF Finished, Placed
<1>3. t.label[x] \in Nat /\ t.first[x] \in Nat /\ t.count[x] \in Nat /\ t.terminal[x] \in Nat
  <2> DEFINE a == t.label
             b == t.first
             c == t.count
             d == t.terminal
  <2>1. /\ a \in Seq(Nat) /\ Len(a) = N /\ b \in Seq(Nat) /\ Len(b) = N
        /\ c \in Seq(Nat) /\ Len(c) = N /\ d \in Seq(Nat) /\ Len(d) = N
    BY DEF Finished, Arrays
  <2> HIDE DEF a, b, c, d
  <2>2. a[x] \in Nat /\ b[x] \in Nat /\ c[x] \in Nat /\ d[x] \in Nat
    BY ONLY <2>1, x \in 1..N
  <2> QED
    BY ONLY <2>2 DEF a, b, c, d
<1>4. Filled(t, X, W, N, x)
  BY DEF Finished
<1> QED
  BY ONLY <1>1, <1>2, <1>3, <1>4 DEF Node, Children

\* A stride leads to the node of the longer path, or to none if no word goes on.
LEMMA StrideIs ==
  ASSUME NEW t, NEW X, NEW W, NEW N, Finished(t, X, W, N), NEW x \in 0..N, NEW c \in Nat,
         NEW p \in Seq(Nat), Reached(x, X, W, N, p)
  PROVE  Stride(t, x, c) \in 0..N /\ Reached(Stride(t, x, c), X, W, N, Append(p, c))
<1>1. N \in Nat /\ N >= 1 /\ \A k \in DOMAIN W : W[k].word \in Seq(Nat)
  BY ListIs DEF Finished, Arrays, InOrder
<1>2. \A k \in DOMAIN W : StartsWith(W[k].word, Append(p, c))
        <=> StartsWith(W[k].word, p) /\ Len(p) < Len(W[k].word) /\ W[k].word[Len(p) + 1] = c
  <2> SUFFICES ASSUME NEW k \in DOMAIN W
               PROVE  StartsWith(W[k].word, Append(p, c))
                 <=> StartsWith(W[k].word, p) /\ Len(p) < Len(W[k].word) /\ W[k].word[Len(p) + 1] = c
    OBVIOUS
  <2> DEFINE w == W[k].word
  <2>1. w \in Seq(Nat)
    BY <1>1
  <2> HIDE DEF w
  <2>2. StartsWith(w, Append(p, c)) <=> StartsWith(w, p) /\ Len(p) < Len(w) /\ w[Len(p) + 1] = c
    BY ONLY <2>1, p \in Seq(Nat), c \in Nat, OneLetterMore
  <2> QED
    BY <2>2 DEF w
<1>3. CASE x = NoNode
  <2>1. Stride(t, x, c) = NoNode
    BY <1>3 DEF Stride
  <2>2. \A k \in DOMAIN W : ~StartsWith(W[k].word, Append(p, c))
    BY <1>2, <1>3 DEF Reached
  <2> QED
    BY <1>1, <2>1, <2>2 DEF Reached, NoNode
<1>4. CASE x # NoNode
  <2>1. x \in 1..N /\ X[x].path = p
    BY <1>4 DEF Reached
  <2> DEFINE lo == X[x].lo
             hi == X[x].hi
             a == t.first[x]
             b == t.first[x] + t.count[x] - 1
             ends == t.terminal[x] # NoWord
             s == IF t.terminal[x] = NoWord THEN lo ELSE lo + 1
             next == {d \in a..b : t.label[d] = c}
  <2>2. /\ lo \in Nat /\ hi \in Nat /\ Under(W, p, lo, hi) /\ DOMAIN W = 1..Len(W)
    BY <2>1, FilledIs
  <2>3. /\ ends => lo \in DOMAIN W /\ W[lo].word = p
        /\ \A d \in a..b : d \in 1..N /\ d # 1 /\ X[d].path = Append(p, t.label[d])
        /\ \A k \in s..(hi - 1) : \E d \in a..b : k \in X[d].lo..(X[d].hi - 1)
    <3>1. Filled(t, X, W, N, x)
      BY <2>1, FilledIs
    <3> QED
      BY <2>1, <3>1 DEF Filled
  <2>4. Stride(t, x, c) = IF next = {} THEN NoNode ELSE CHOOSE d \in next : TRUE
    BY <1>4 DEF Stride, Children
  <2> HIDE DEF lo, hi, a, b
  <2>5. CASE next # {}
    <3>1. PICK d \in next : Stride(t, x, c) = d
      BY <2>4, <2>5
    <3>2. d \in 1..N /\ X[d].path = Append(p, c)
      BY <2>3
    <3> QED
      BY <3>1, <3>2 DEF Reached, NoNode
  <2>6. CASE next = {}
    <3>1. Stride(t, x, c) = NoNode
      BY <2>4, <2>6
    <3>2. ASSUME NEW k \in DOMAIN W, StartsWith(W[k].word, Append(p, c)) PROVE FALSE
      <4>1. StartsWith(W[k].word, p) /\ Len(p) < Len(W[k].word) /\ W[k].word[Len(p) + 1] = c
        BY <1>2, <3>2
      <4>2. k \in lo..(hi - 1)
        BY <2>2, <4>1 DEF Under
      <4>3. k # lo \/ ~ends
        BY <2>3, <4>1
      <4>4. k \in s..(hi - 1)
        BY <2>2, <4>2, <4>3
      <4>5. PICK d \in a..b : k \in X[d].lo..(X[d].hi - 1)
        BY <2>3, <4>4
      <4> DEFINE e == t.label[d]
      <4>6. d \in 1..N /\ X[d].path = Append(p, e)
        BY <2>3
      <4>7. Under(W, X[d].path, X[d].lo, X[d].hi) /\ e \in Nat
        BY <4>6, FilledIs
      <4>8. StartsWith(W[k].word, Append(p, e))
        BY <4>5, <4>6, <4>7 DEF Under
      <4> DEFINE w == W[k].word
      <4>9. w \in Seq(Nat) /\ StartsWith(w, Append(p, e))
        BY <1>1, <4>8
      <4> HIDE DEF e, w
      <4>10. w[Len(p) + 1] = e
        BY ONLY <4>7, <4>9, p \in Seq(Nat), OneLetterMore
      <4>11. e = c
        BY <4>1, <4>10 DEF w
      <4> QED
        BY <2>6, <4>11 DEF e
    <3> QED
      BY <1>1, <3>1, <3>2 DEF Reached, NoNode
  <2> QED
    BY <2>5, <2>6
<1> QED
  BY <1>3, <1>4

\* The walk along a word leads to its node, or to none if no word starts with it.
LEMMA WalkIs ==
  ASSUME NEW t, NEW X, NEW W, NEW N, Finished(t, X, W, N), NEW w \in Seq(Nat)
  PROVE  Walk(t, w) \in 0..N /\ Reached(Walk(t, w), X, W, N, w)
<1> DEFINE n == Len(w)
           D == 0..N
           start == IF t.label = <<>> THEN NoNode ELSE 1
           step == [q \in D \X (1..n) |-> IF Stride(t, q[1], w[q[2]]) \in D
                                          THEN Stride(t, q[1], w[q[2]]) ELSE q[1]]
           along == CHOOSE f : f = [i \in 0..n |-> IF i = 0 THEN start ELSE Stride(t, f[i - 1], w[i])]
           pre(i) == SubSeq(w, 1, i)
           Good(d, i) == d \in D /\ Reached(d, X, W, N, pre(i))
<1>1. Walk(t, w) = along[n]
  BY DEF Walk, Stride
<1>2. n \in Nat /\ \A i \in 1..n : w[i] \in Nat
  OBVIOUS
<1>3. /\ pre(0) = <<>> /\ pre(n) = w
      /\ \A i \in 1..n : pre(i - 1) \in Seq(Nat) /\ pre(i) = Append(pre(i - 1), w[i])
  <2>1. pre(0) = <<>> /\ pre(n) = w
    OBVIOUS
  <2>2. ASSUME NEW i \in 1..n
        PROVE  pre(i - 1) \in Seq(Nat) /\ pre(i) = Append(pre(i - 1), w[i])
    <3> DEFINE u == pre(i)
               v == Append(pre(i - 1), w[i])
    <3>1. u \in Seq(Nat) /\ Len(u) = i /\ \A j \in 1..i : u[j] = w[j]
      OBVIOUS
    <3>2. pre(i - 1) \in Seq(Nat) /\ Len(pre(i - 1)) = i - 1 /\ \A j \in 1..(i - 1) : pre(i - 1)[j] = w[j]
      OBVIOUS
    <3>3. v \in Seq(Nat) /\ Len(v) = i /\ \A j \in 1..i : v[j] = w[j]
      <4> DEFINE r == pre(i - 1)
      <4>1. r \in Seq(Nat) /\ Len(r) = i - 1 /\ (\A j \in 1..(i - 1) : r[j] = w[j]) /\ w[i] \in Nat
        BY <3>2
      <4> HIDE DEF r, n
      <4> QED BY <4>1 DEF r
    <3> HIDE DEF u, v
    <3>4. u = v
      <4>1. i \in Nat
        BY <1>2
      <4>2. Len(u) = Len(v) /\ \A j \in 1..Len(u) : u[j] = v[j]
        BY ONLY <3>1, <3>3, <4>1
      <4> QED
        BY ONLY <3>1, <3>3, <4>2
    <3> QED
      BY <3>2, <3>4 DEF u, v
  <2> QED
    BY <2>1, <2>2
<1>4. N \in Nat /\ N >= 1 /\ t.label # <<>>
  <2>1. t.label \in Seq(Nat) /\ Len(t.label) = N /\ N \in Nat /\ N >= 1
    BY DEF Finished, Arrays
  <2> QED
    BY <2>1
<1>5. Good(start, 0) /\ start \in D
  <2>1. start = 1 /\ X[1].path = <<>>
    BY <1>4 DEF Finished, Placed
  <2> HIDE DEF start, pre
  <2>2. 1 \in D /\ 1 \in 1..N
    BY <1>4
  <2>3. Reached(1, X, W, N, pre(0))
    BY <1>3, <2>1, <2>2 DEF Reached, NoNode
  <2> QED
    BY <2>1, <2>2, <2>3
<1>6. ASSUME NEW i \in 1..n, NEW d, Good(d, i - 1)
      PROVE  Good(Stride(t, d, w[i]), i)
  <2> HIDE DEF pre, n
  <2>1. d \in 0..N /\ Reached(d, X, W, N, pre(i - 1)) /\ w[i] \in Nat /\ pre(i - 1) \in Seq(Nat)
    BY <1>2, <1>3, <1>6
  <2>2. /\ Stride(t, d, w[i]) \in 0..N
        /\ Reached(Stride(t, d, w[i]), X, W, N, Append(pre(i - 1), w[i]))
    BY <2>1, StrideIs
  <2> QED
    BY <1>3, <2>2
<1>7. step \in [D \X (1..n) -> D]
  OBVIOUS
<1>8. PICK f \in [0..n -> D] : f[0] = start /\ \A i \in 1..n : f[i] = step[<<f[i - 1], i>>]
  <2>1. \E f \in [0..n -> D] : Steps(f, start, n, step)
    <3> HIDE DEF step, D, start, n
    <3> QED BY <1>2, <1>5, <1>7, Recursion
  <2> QED
    BY <2>1 DEF Steps
<1>9. ASSUME NEW i \in 1..n, NEW d \in D, Stride(t, d, w[i]) \in D
      PROVE  step[<<d, i>>] = Stride(t, d, w[i])
  BY <1>9
<1> HIDE DEF step, pre, n, start
<1> DEFINE T == {i \in Nat : i <= n => Good(f[i], i)}
<1>10. 0 \in T
  BY <1>5, <1>8
<1>11. ASSUME NEW i \in T, i + 1 <= n
       PROVE  Good(f[i + 1], i + 1) /\ f[i + 1] = Stride(t, f[i], w[i + 1])
  <2>1. i \in Nat /\ i + 1 \in 1..n /\ (i + 1) - 1 = i /\ Good(f[i], i)
    BY <1>2, <1>11
  <2>2. Good(Stride(t, f[i], w[i + 1]), i + 1)
    BY <1>6, <2>1
  <2>3. f[i + 1] = Stride(t, f[i], w[i + 1])
    BY <1>8, <1>9, <2>1, <2>2
  <2> QED
    BY <2>2, <2>3
<1>12. \A i \in T \cap Nat : i + 1 \in T
  BY <1>11
<1>13. Nat \subseteq T
  <2> HIDE DEF T
  <2> QED BY <1>10, <1>12, Induction
<1>14. \A i \in 1..n : f[i] = Stride(t, f[i - 1], w[i])
  <2> SUFFICES ASSUME NEW i \in 1..n PROVE f[i] = Stride(t, f[i - 1], w[i])
    OBVIOUS
  <2>1. i - 1 \in Nat /\ (i - 1) + 1 = i /\ i - 1 \in T /\ i <= n
    BY <1>2, <1>13
  <2> HIDE DEF T
  <2>2. f[(i - 1) + 1] = Stride(t, f[i - 1], w[(i - 1) + 1])
    BY <1>11, <2>1
  <2> QED
    BY <2>1, <2>2
<1>15. f = [i \in 0..n |-> IF i = 0 THEN start ELSE Stride(t, f[i - 1], w[i])]
  <2>1. \A i \in 0..n : i # 0 => i \in 1..n
    BY <1>2
  <2>2. \A i \in 0..n : f[i] = IF i = 0 THEN start ELSE Stride(t, f[i - 1], w[i])
    BY <1>8, <1>14, <2>1
  <2> HIDE DEF D
  <2> QED
    BY <2>2
<1>16. along = [i \in 0..n |-> IF i = 0 THEN start ELSE Stride(t, along[i - 1], w[i])]
  BY <1>15
<1> HIDE DEF along
<1> DEFINE U == {i \in Nat : i <= n => Good(along[i], i)}
<1>17. 0 \in U
  <2>1. 0 \in 0..n
    BY <1>2
  <2>2. along[0] = start
    BY <1>16, <2>1
  <2> QED
    BY <1>5, <2>2
<1>18. ASSUME NEW i \in U, i + 1 <= n
       PROVE  Good(along[i + 1], i + 1)
  <2>1. i \in Nat /\ i + 1 \in 1..n /\ i + 1 \in 0..n /\ (i + 1) - 1 = i /\ i + 1 # 0 /\ Good(along[i], i)
    BY <1>2, <1>18
  <2>2. along[i + 1] = Stride(t, along[i], w[i + 1])
    BY <1>16, <2>1
  <2> QED
    BY <1>6, <2>1, <2>2
<1>19. \A i \in U \cap Nat : i + 1 \in U
  BY <1>18
<1>20. Nat \subseteq U
  <2> HIDE DEF U
  <2> QED BY <1>17, <1>19, Induction
<1> QED
  BY <1>1, <1>2, <1>3, <1>20

\* A word is contained if and only if it is one of the words.
LEMMA ContainsIs ==
  ASSUME NEW t, NEW X, NEW W, NEW N, Finished(t, X, W, N), NEW w \in Seq(Nat)
  PROVE  Contains(t, w) <=> \E k \in DOMAIN W : W[k].word = w
<1> DEFINE x == Walk(t, w)
<1>1. x \in 0..N /\ Reached(x, X, W, N, w)
  BY WalkIs
<1>2. Contains(t, w) <=> x # NoNode /\ t.terminal[x] # NoWord
  BY DEF Contains
<1> HIDE DEF x
<1>3. CASE x = NoNode
  <2>1. \A k \in DOMAIN W : ~StartsWith(W[k].word, w)
    BY <1>1, <1>3 DEF Reached
  <2>2. \A k \in DOMAIN W : W[k].word # w
    BY <2>1, ItsOwnPrefix
  <2> QED
    BY <1>2, <1>3, <2>2
<1>4. CASE x # NoNode
  <2>1. x \in 1..N /\ X[x].path = w
    BY <1>1, <1>4 DEF Reached
  <2>2. Filled(t, X, W, N, x)
    BY <2>1 DEF Finished
  <2>3. /\ t.terminal[x] # NoWord => X[x].lo \in DOMAIN W /\ W[X[x].lo].word = w
        /\ t.terminal[x] = NoWord => \A k \in DOMAIN W : W[k].word # w
    BY <2>1, <2>2 DEF Filled
  <2> QED
    BY <1>2, <1>4, <2>3
<1> QED
  BY <1>3, <1>4

(***************************************************************************)
(* A walk over all the nodes below one: those that wait have runs of words *)
(* that follow one another from the top of the stack down.                 *)
(***************************************************************************)
ChildrenApart(t, X, x) ==
  \A c, d \in Children(t, x) : c < d => X[c].hi <= X[d].lo

\* The runs of the children of a node follow one another.
LEMMA ChildrenAreApart ==
  ASSUME NEW t, NEW X, NEW W, NEW N, Finished(t, X, W, N), NEW x \in 1..N
  PROVE  ChildrenApart(t, X, x)
<1> DEFINE a == t.first[x]
           b == t.first[x] + t.count[x] - 1
<1>1. /\ a \in Nat /\ b \in Int /\ Children(t, x) = a..b
      /\ \A c \in a..b : c \in 1..N /\ c # 1 /\ (c < b => X[c].hi = X[c + 1].lo)
  BY FilledIs DEF Filled
<1>2. \A c \in a..b : X[c].lo \in Nat /\ X[c].hi \in Nat /\ X[c].lo < X[c].hi
  <2> SUFFICES ASSUME NEW c \in a..b PROVE X[c].lo \in Nat /\ X[c].hi \in Nat /\ X[c].lo < X[c].hi
    OBVIOUS
  <2>1. c \in 1..N /\ c # 1
    BY <1>1
  <2> QED
    BY <2>1, FilledIs
<1> HIDE DEF a, b
<1>3. ASSUME NEW c \in a..b PROVE \A d \in a..b : c < d => X[c].hi <= X[d].lo
  <2> DEFINE T == {e \in Nat : c + 1 + e <= b => X[c].hi <= X[c + 1 + e].lo}
  <2>1. 0 \in T
    <3>1. c + 1 + 0 = c + 1 /\ (c + 1 <= b => c < b)
      BY <1>1
    <3>2. c + 1 <= b => X[c].hi <= X[c + 1].lo
      BY <1>1, <1>2, <3>1
    <3> QED
      BY <3>1, <3>2
  <2>2. ASSUME NEW e \in T, c + 1 + (e + 1) <= b PROVE X[c].hi <= X[c + 1 + (e + 1)].lo
    <3> DEFINE d == c + 1 + e
    <3>1. e \in Nat /\ d \in a..b /\ d < b /\ d + 1 = c + 1 + (e + 1) /\ d + 1 \in a..b /\ d <= b
      BY <1>1, <2>2
    <3>2. X[c].hi <= X[d].lo
      BY <2>2, <3>1
    <3> HIDE DEF d
    <3>3. X[d].hi = X[d + 1].lo /\ X[d].lo < X[d].hi
      BY <1>1, <1>2, <3>1
    <3>4. X[c].hi <= X[d + 1].lo
      BY <1>2, <3>1, <3>2, <3>3
    <3> QED
      BY <3>1, <3>4
  <2>3. \A e \in T \cap Nat : e + 1 \in T
    BY <2>2
  <2>4. Nat \subseteq T
    <3> HIDE DEF T
    <3> QED BY <2>1, <2>3, Induction
  <2> SUFFICES ASSUME NEW d \in a..b, c < d PROVE X[c].hi <= X[d].lo
    OBVIOUS
  <2>5. d - c - 1 \in Nat /\ c + 1 + (d - c - 1) = d /\ d <= b
    BY <1>1
  <2> QED
    BY <2>4, <2>5
<1> QED
  BY <1>1, <1>3 DEF ChildrenApart

\* The nodes that wait, top last.
KeptApart(z, X, N) ==
  /\ z \in Seq(1..N)
  /\ \A i, j \in 1..Len(z) : i < j => X[z[j]].hi <= X[z[i]].lo
  /\ \A i \in 1..Len(z) : z[i] = 1 => Len(z) = 1

Linked(z, X, high) ==
  /\ Len(z) > 0 => X[z[1]].hi = high
  /\ \A i \in 1..(Len(z) - 1) : X[z[i + 1]].hi = X[z[i]].lo

\* The top was taken and n nodes from a on were put there, the first on top.
PushedOn(y, z, a, n) ==
  /\ Len(y) = Len(z) - 1 + n /\ y = [i \in 1..Len(y) |-> y[i]]
  /\ \A i \in 1..(Len(z) - 1) : y[i] = z[i]
  /\ \A i \in 1..n : y[Len(z) - 1 + i] = a + n - i

\* The first cells of a sequence.
LEMMA HeadIs ==
  ASSUME NEW D, NEW z \in Seq(D), NEW m \in Nat, m <= Len(z)
  PROVE  /\ SubSeq(z, 1, m) \in Seq(D) /\ Len(SubSeq(z, 1, m)) = m
         /\ \A i \in 1..m : SubSeq(z, 1, m)[i] = z[i]
OBVIOUS

\* The stack after the top was taken and its children were pushed.
LEMMA PushedIsOn ==
  ASSUME NEW N, NEW z \in Seq(1..N), Len(z) > 0, NEW a \in Nat, NEW n \in Nat,
         NEW q, q = [i \in 1..n |-> a + n - i]
  PROVE  PushedOn(SubSeq(z, 1, Len(z) - 1) \o q, z, a, n)
<1> DEFINE m == Len(z) - 1
           s == SubSeq(z, 1, m)
           C == 1..N
           D == C \cup {q[i] : i \in 1..n}
           y == s \o q
<1>0. m \in Nat /\ m <= Len(z) /\ z \in Seq(C)
  OBVIOUS
<1>1. m \in Nat /\ s \in Seq(C) /\ Len(s) = m /\ \A i \in 1..m : s[i] = z[i]
  <2> HIDE DEF m, C
  <2> QED BY ONLY <1>0, HeadIs
<1>2. DOMAIN q = 1..n /\ (\A i \in 1..n : q[i] \in D) /\ \A i \in 1..n : q[i] = a + n - i
  OBVIOUS
<1>3. s \in Seq(D)
  BY <1>1
<1>4. q \in Seq(D) /\ Len(q) = n
  <2>1. q = [i \in 1..n |-> q[i]]
    OBVIOUS
  <2> HIDE DEF D
  <2> QED BY ONLY <1>2, <2>1, n \in Nat
<1> HIDE DEF D, s, C, m
<1>5. y \in Seq(D) /\ JoinedAs(y, s, q)
  BY ONLY <1>3, <1>4, ListsJoined
<1> HIDE DEF y
<1>6. y = [i \in 1..Len(y) |-> y[i]]
  BY ONLY <1>5
<1>7. Len(y) = m + n
  BY ONLY <1>1, <1>4, <1>5 DEF JoinedAs
<1>8. \A i \in 1..m : y[i] = z[i]
  BY ONLY <1>1, <1>5 DEF JoinedAs
<1>9. \A i \in 1..n : y[m + i] = a + n - i
  BY ONLY <1>1, <1>2, <1>4, <1>5 DEF JoinedAs
<1>10. s \o q = y
  BY DEF y
<1> QED
  BY ONLY <1>6, <1>7, <1>8, <1>9, <1>10 DEF PushedOn, m, s

\* Keys ascend from a node to its children and from a run to those after it.
LEMMA KeysAscend ==
  ASSUME NEW t, NEW X, NEW W, NEW N, Finished(t, X, W, N), NEW L, Lettered(L, W),
         NEW c \in 1..N, NEW d \in 1..N, d # 1, X[c].hi <= X[d].lo \/ d \in Children(t, c)
  PROVE  Key(L, X, c) \in Nat /\ Key(L, X, d) \in Nat /\ Key(L, X, c) < Key(L, X, d)
<1> DEFINE a == X[c].lo
           b == X[d].lo
           h == X[c].hi
           n == Len(W)
           j == Key(L, X, c)
           k == Key(L, X, d)
<1>1. InOrder(W) /\ Placed(X, W, N) /\ Lettered(L, W) /\ c \in 1..N /\ d \in 1..N /\ d # 1
  BY DEF Finished
<1>2. N \in Nat /\ N >= 1 /\ n \in Nat /\ h \in Nat
  BY FilledIs
<1>3. L \in [0..n -> Nat] /\ (\A i, l \in 0..n : i <= l => L[i] <= L[l])
  <2> HIDE DEF n
  <2>1. L \in [0..n -> Nat]
    BY DEF Lettered, n
  <2>2. \A i, l \in 0..n : i <= l => L[i] <= L[l]
    BY <1>1, LettersAdded DEF n
  <2> QED
    BY <2>1, <2>2
<1>4. b \in 1..n /\ k \in Nat /\ L[b - 1] < k /\ k = L[b - 1] + Len(X[d].path)
  BY ONLY <1>1, <1>2, KeyIs
<1> HIDE DEF a, b, h, n, j, k
<1>5. b - 1 \in 0..n /\ L[b - 1] \in Nat
  BY ONLY <1>2, <1>3, <1>4
<1>6. CASE c = 1
  <2>1. j = 0
    BY <1>6 DEF Key, j
  <2>2. j \in Nat /\ j < k
    BY ONLY <1>4, <1>5, <2>1
  <2> QED
    BY <1>4, <2>2 DEF j, k
<1>7. CASE c # 1
  <2>1. /\ a \in 1..n /\ a < h /\ j \in Nat /\ j <= L[a] /\ j = L[a - 1] + Len(X[c].path)
    <3> USE DEF a, h, n, j
    <3> QED BY ONLY <1>1, <1>2, <1>7, KeyIs
  <2>2. a \in 0..n /\ a - 1 \in 0..n /\ L[a] \in Nat /\ L[a - 1] \in Nat
    BY ONLY <1>2, <1>3, <2>1
  <2>3. CASE h <= b
    <3>1. a <= b - 1
      BY ONLY <1>2, <1>4, <2>1, <2>3
    <3>2. L[a] <= L[b - 1]
      BY ONLY <1>3, <1>5, <2>2, <3>1
    <3>3. j < k
      BY ONLY <1>4, <1>5, <2>1, <2>2, <3>2
    <3> QED
      BY <1>4, <2>1, <3>3 DEF j, k
  <2>4. CASE d \in Children(t, c)
    <3>1. X[d].path = Append(X[c].path, t.label[d]) /\ a <= b /\ t.label[d] \in Nat
      <4>1. Filled(t, X, W, N, c) /\ Children(t, c) = t.first[c]..(t.first[c] + t.count[c] - 1)
        BY FilledIs
      <4>2. t.label[d] \in Nat
        BY FilledIs
      <4> QED
        BY <2>4, <4>1, <4>2 DEF Filled, a, b
    <3> DEFINE p == X[c].path
               e == t.label[d]
               r == Len(p)
               o == Len(X[d].path)
    <3>2. o = r + 1 /\ r \in Nat
      <4>1. p \in Seq(Nat) /\ e \in Nat /\ X[d].path = Append(p, e)
        BY <3>1, FilledIs
      <4> HIDE DEF p, e
      <4>2. Len(Append(p, e)) = Len(p) + 1 /\ Len(p) \in Nat
        BY <4>1
      <4> QED
        BY <4>1, <4>2
    <3>3. k = L[b - 1] + o /\ j = L[a - 1] + r
      BY <1>4, <2>1
    <3> HIDE DEF p, e, r, o
    <3>4. a - 1 <= b - 1
      BY ONLY <1>4, <1>2, <2>1, <3>1
    <3>5. L[a - 1] <= L[b - 1]
      BY ONLY <1>3, <1>5, <2>2, <3>4
    <3>6. j < k
      BY ONLY <1>5, <2>2, <3>2, <3>3, <3>5
    <3> QED
      BY <1>4, <2>1, <3>6 DEF j, k
  <2> QED
    BY <2>3, <2>4 DEF h, b
<1> QED
  BY <1>6, <1>7

\* V are the k nodes taken so far.
Seen(V, z, L, X, N, k) ==
  /\ V \subseteq 1..N /\ Cardinality(V) = k
  /\ \A y \in V : \A i \in 1..Len(z) : Key(L, X, y) < Key(L, X, z[i])

\* The top is taken and its children, or none of them, come in its place.
Taken(y, z, t) ==
  LET x == z[Len(z)]
  IN  \E n \in {0, t.count[x]} : PushedOn(y, z, t.first[x], n)

\* The nodes on a stack.
LEMMA TopIs ==
  ASSUME NEW X, NEW N, NEW z, KeptApart(z, X, N), Len(z) > 0
  PROVE  /\ Len(z) \in Nat /\ Len(z) \in 1..Len(z) /\ z[Len(z)] \in 1..N
         /\ \A i \in 1..Len(z) : z[i] \in 1..N
<1> DEFINE D == 1..N
           m == Len(z)
<1>1. z \in Seq(D)
  BY DEF KeptApart
<1> HIDE DEF D
<1>2. m \in Nat /\ \A i \in 1..m : z[i] \in D
  BY ONLY <1>1
<1>3. m > 0
  OBVIOUS
<1> HIDE DEF m
<1>4. m \in 1..m
  BY ONLY <1>2, <1>3
<1>5. z[m] \in D
  BY ONLY <1>2, <1>4
<1> QED
  BY ONLY <1>2, <1>4, <1>5 DEF m, D

OldOrChild(i, y, z, X, t, N) ==
  \/ i \in 1..(Len(z) - 1) /\ y[i] = z[i]
  \/ /\ i > Len(z) - 1 /\ y[i] \in Children(t, z[Len(z)]) /\ y[i] \in 1..N /\ y[i] # 1
     /\ y[i] = y[Len(z)] + Len(z) - i
     /\ X[y[i]].path = Append(X[z[Len(z)]].path, t.label[y[i]])

\* A node on the stack was there before or is a child of the one taken.
LEMMA TakenIs ==
  ASSUME NEW t, NEW X, NEW W, NEW N, Finished(t, X, W, N), NEW z, KeptApart(z, X, N), Len(z) > 0,
         NEW y, Taken(y, z, t), NEW i \in 1..Len(y)
  PROVE  OldOrChild(i, y, z, X, t, N)
<1> DEFINE m == Len(z)
           x == z[m]
           a == t.first[x]
<1>1. m \in Nat /\ m \in 1..m /\ x \in 1..N
  BY TopIs
<1>2. PICK n \in {0, t.count[x]} : PushedOn(y, z, a, n)
  BY DEF Taken
<1>3. a \in Nat /\ n \in Nat /\ Children(t, x) = a..(a + t.count[x] - 1) /\ t.count[x] \in Nat
      /\ Filled(t, X, W, N, x)
  BY <1>1, FilledIs
<1> DEFINE h == Len(y)
           g == t.count[x]
<1>4. /\ h = m - 1 + n
      /\ \A l \in 1..(m - 1) : y[l] = z[l]
      /\ \A l \in 1..n : y[m - 1 + l] = a + n - l
  BY <1>2 DEF PushedOn
<1>5. i \in 1..h /\ (n = 0 \/ n = g) /\ g \in Nat
  BY <1>2, <1>3
<1> HIDE DEF a, m, h, g
<1>6. CASE i \in 1..(m - 1)
  BY <1>4, <1>6 DEF m, OldOrChild
<1>7. CASE i \notin 1..(m - 1)
  <2> DEFINE l == i - (m - 1)
  <2>1. l \in 1..n /\ m - 1 + l = i /\ 1 \in 1..n /\ m - 1 + 1 = m /\ i \in Nat /\ i > m - 1
    BY ONLY <1>1, <1>3, <1>4, <1>5, <1>7
  <2>2. y[i] = a + n - l /\ y[m] = a + n - 1 /\ i - (m - 1) = l
    <3> HIDE DEF l
    <3>1. y[m - 1 + l] = a + n - l /\ y[m - 1 + 1] = a + n - 1
      BY ONLY <1>4, <2>1
    <3> QED
      BY ONLY <2>1, <3>1 DEF l
  <2> HIDE DEF l
  <2>3. n = g
    BY ONLY <1>5, <2>1
  <2>4. y[i] \in a..(a + g - 1)
    BY ONLY <1>3, <1>5, <2>1, <2>2, <2>3
  <2>5. y[i] \in 1..N /\ y[i] # 1 /\ X[y[i]].path = Append(X[x].path, t.label[y[i]])
    <3> USE DEF a, m, g
    <3> QED BY <1>3, <2>4 DEF Filled
  <2>6. y[i] = y[m] + m - i
    BY ONLY <1>1, <1>3, <2>1, <2>2
  <2> QED
    BY <1>3, <2>1, <2>4, <2>5, <2>6 DEF a, m, g, OldOrChild
<1> QED
  BY <1>6, <1>7

\* The runs of the nodes on the stack follow one another downwards, and still do.
LEMMA ApartStill ==
  ASSUME NEW t, NEW X, NEW W, NEW N, Finished(t, X, W, N), NEW z, KeptApart(z, X, N), Len(z) > 0,
         NEW y, Taken(y, z, t)
  PROVE  KeptApart(y, X, N)
<1> DEFINE m == Len(z)
           x == z[m]
<1>1. m \in Nat /\ m \in 1..m /\ x \in 1..N /\ \A i \in 1..m : z[i] \in 1..N
  BY TopIs
<1>2. Len(y) \in Nat /\ y = [i \in 1..Len(y) |-> y[i]]
  <2>1. PICK n \in {0, t.count[x]} : PushedOn(y, z, t.first[x], n)
    BY DEF Taken
  <2>2. n \in Nat
    BY <1>1, <2>1, FilledIs
  <2>3. Len(y) = m - 1 + n /\ y = [i \in 1..Len(y) |-> y[i]]
    BY <2>1 DEF PushedOn
  <2> HIDE DEF m
  <2>4. m - 1 + n \in Nat
    BY ONLY <1>1, <2>2
  <2> QED
    BY ONLY <2>3, <2>4
<1>3. \A i \in 1..Len(y) :
         \/ i \in 1..(m - 1) /\ y[i] = z[i]
         \/ /\ i > m - 1 /\ y[i] \in Children(t, x) /\ y[i] \in 1..N /\ y[i] # 1
            /\ y[i] = y[m] + m - i
  <2>1. \A i \in 1..Len(y) : OldOrChild(i, y, z, X, t, N)
    BY TakenIs
  <2> QED
    BY ONLY <2>1 DEF OldOrChild
<1>4. ChildrenApart(t, X, x) /\ \A c \in Children(t, x) : X[c].hi <= X[x].hi
  <2>1. Filled(t, X, W, N, x) /\ Children(t, x) = t.first[x]..(t.first[x] + t.count[x] - 1)
    BY <1>1, FilledIs
  <2>2. \A c \in Children(t, x) : X[c].hi <= X[x].hi
    BY <2>1 DEF Filled
  <2> QED
    BY <1>1, <2>2, ChildrenAreApart
<1>5. \A c \in 1..N : X[c].lo \in Nat /\ X[c].hi \in Nat
  BY FilledIs
<1> HIDE DEF m
<1>6. y \in Seq(1..N) /\ \A l \in 1..Len(y) : y[l] \in 1..N
  <2>1. \A i \in 1..Len(y) : y[i] \in 1..N
    <3> SUFFICES ASSUME NEW i \in 1..Len(y) PROVE y[i] \in 1..N
      OBVIOUS
    <3>1. i \in 1..(m - 1) => i \in 1..m
      BY <1>1
    <3> QED
      BY <1>1, <1>3, <3>1
  <2> DEFINE D == 1..N
  <2>2. \A i \in 1..Len(y) : y[i] \in D
    BY <2>1
  <2> HIDE DEF D
  <2>3. y \in Seq(D)
    BY ONLY <1>2, <2>2
  <2> QED
    BY <2>1, <2>3 DEF D
<1>7. ASSUME NEW i \in 1..Len(y), NEW j \in 1..Len(y), i < j PROVE X[y[j]].hi <= X[y[i]].lo
  <2>0. i \in Nat /\ j \in Nat /\ i < j /\ i >= 1 /\ j <= Len(y)
    BY <1>2, <1>7
  <2>1. CASE j \in 1..(m - 1) /\ y[j] = z[j]
    <3>1. i \in 1..(m - 1) /\ i \in 1..m /\ j \in 1..m /\ ~(i > m - 1)
      BY ONLY <1>1, <2>0, <2>1
    <3>2. y[i] = z[i]
      BY <1>3, <3>1
    <3> QED
      BY <1>7, <2>1, <3>1, <3>2 DEF KeptApart, m
  <2>2. CASE /\ j > m - 1 /\ y[j] \in Children(t, x) /\ y[j] \in 1..N /\ y[j] # 1
             /\ y[j] = y[m] + m - j
    <3>1. CASE i \in 1..(m - 1) /\ y[i] = z[i]
      <4>1. i < m /\ i \in 1..m
        BY <1>1, <3>1
      <4>2. X[x].hi <= X[z[i]].lo
        BY <1>1, <4>1 DEF KeptApart, m
      <4>3. X[y[j]].hi <= X[x].hi
        BY <1>4, <2>2
      <4>4. X[y[j]].hi \in Nat /\ X[x].hi \in Nat /\ X[z[i]].lo \in Nat
        BY <1>1, <1>5, <2>2, <4>1
      <4> QED
        BY ONLY <3>1, <4>2, <4>3, <4>4
    <3>2. CASE /\ i > m - 1 /\ y[i] \in Children(t, x) /\ y[i] = y[m] + m - i
      <4>1. y[m] \in Nat
        <5>1. m \in 1..Len(y)
          BY ONLY <1>1, <1>2, <2>0, <2>2
        <5> QED
          BY ONLY <1>6, <5>1
      <4>2. y[j] < y[i]
        BY ONLY <1>1, <2>0, <2>2, <3>2, <4>1
      <4> QED
        BY <1>4, <2>2, <3>2, <4>2 DEF ChildrenApart
    <3> QED
      BY <1>3, <3>1, <3>2
  <2> QED
    BY <1>3, <2>1, <2>2
<1>8. ASSUME NEW i \in 1..Len(y), y[i] = 1 PROVE FALSE
  <2>1. i \in 1..(m - 1) /\ y[i] = z[i]
    BY <1>3, <1>8
  <2>2. i \in 1..m /\ m = 1
    BY <1>1, <1>8, <2>1 DEF KeptApart, m
  <2> QED
    BY <2>1, <2>2
<1> QED
  BY ONLY <1>6, <1>7, <1>8 DEF KeptApart

\* The node taken was not taken before, and those still to come have greater keys.
LEMMA SeenStill ==
  ASSUME NEW t, NEW X, NEW W, NEW N, Finished(t, X, W, N), NEW L, Lettered(L, W),
         NEW z, KeptApart(z, X, N), Len(z) > 0, NEW y, Taken(y, z, t),
         NEW V, NEW k \in Nat, Seen(V, z, L, X, N, k)
  PROVE  Seen(V \cup {z[Len(z)]}, y, L, X, N, k + 1)
<1> DEFINE m == Len(z)
           x == z[m]
<1>1. m \in Nat /\ m \in 1..m /\ x \in 1..N /\ \A i \in 1..m : z[i] \in 1..N
  BY TopIs
<1>2. N \in Nat /\ N >= 1
  BY <1>1, FilledIs
<1>3. V \subseteq 1..N /\ Cardinality(V) = k
      /\ \A c \in V : \A i \in 1..m : Key(L, X, c) < Key(L, X, z[i])
  BY DEF Seen
<1>4. \A c \in 1..N : Key(L, X, c) \in Nat
  <2> SUFFICES ASSUME NEW c \in 1..N PROVE Key(L, X, c) \in Nat
    OBVIOUS
  <2>1. c = 1 => Key(L, X, c) \in Nat
    BY DEF Key
  <2>2. c # 1 => Key(L, X, c) \in Nat
    BY <1>2, KeyIs DEF Finished
  <2> QED
    BY <2>1, <2>2
<1>5. x \notin V
  BY <1>1, <1>3, <1>4
<1>6. Cardinality(V \cup {x}) = k + 1
  <2>1. IsFiniteSet(V)
    <3>1. IsFiniteSet(1..N) /\ V \in SUBSET (1..N)
      BY <1>2, <1>3, FS_Interval
    <3> QED
      BY ONLY <3>1, FS_Subset
  <2> QED
    BY <1>3, <1>5, <2>1, FS_AddElement
<1>7. ASSUME NEW c \in V \cup {x}, NEW i \in 1..Len(y)
      PROVE  Key(L, X, c) < Key(L, X, y[i])
  <2>1. \/ i \in 1..(m - 1) /\ y[i] = z[i]
        \/ y[i] \in Children(t, x) /\ y[i] \in 1..N /\ y[i] # 1
    <3>1. OldOrChild(i, y, z, X, t, N)
      BY TakenIs
    <3> QED
      BY ONLY <3>1 DEF OldOrChild
  <2>2. c \in 1..N
    BY <1>1, <1>3
  <2> HIDE DEF m, x
  <2>3. CASE i \in 1..(m - 1) /\ y[i] = z[i]
    <3>1. i \in 1..m /\ i < m /\ m # 1
      BY <1>1, <2>3
    <3>2. CASE c \in V
      BY <1>3, <2>3, <3>1, <3>2
    <3>3. CASE c = x
      <4>1. X[x].hi <= X[z[i]].lo /\ z[i] # 1
        BY <1>1, <3>1 DEF KeptApart, m, x
      <4> QED
        BY <1>1, <2>3, <3>1, <3>3, <4>1, KeysAscend
    <3> QED
      BY <3>2, <3>3
  <2>4. CASE y[i] \in Children(t, x) /\ y[i] \in 1..N /\ y[i] # 1
    <3>1. Key(L, X, x) < Key(L, X, y[i]) /\ Key(L, X, x) \in Nat /\ Key(L, X, y[i]) \in Nat
      BY <1>1, <2>4, KeysAscend
    <3>2. c # x => Key(L, X, c) < Key(L, X, x)
      BY <1>1, <1>3 DEF x
    <3> QED
      BY <1>4, <2>2, <3>1, <3>2
  <2> QED
    BY <2>1, <2>3, <2>4
<1>8. V \cup {x} \subseteq 1..N
  BY <1>1, <1>3
<1> HIDE DEF m, x
<1>9. Seen(V \cup {x}, y, L, X, N, k + 1)
  BY ONLY <1>6, <1>7, <1>8 DEF Seen
<1> QED
  BY <1>9 DEF m, x

\* Who has taken all the nodes waits for none.
LEMMA AllSeen ==
  ASSUME NEW t, NEW X, NEW W, NEW N, Finished(t, X, W, N), NEW L, Lettered(L, W),
         NEW z, KeptApart(z, X, N), NEW V, NEW k \in Nat, Seen(V, z, L, X, N, k), k >= N
  PROVE  z = <<>>
<1> SUFFICES ASSUME z # <<>> PROVE FALSE
  OBVIOUS
<1>1. z \in Seq(1..N) /\ Len(z) \in 1..Len(z)
  BY DEF KeptApart
<1> DEFINE x == z[Len(z)]
<1>2. x \in 1..N /\ N \in Nat
  BY <1>1 DEF Finished, Arrays
<1>3. V \in SUBSET (1..N) /\ Cardinality(V) = k /\ \A c \in V : Key(L, X, c) < Key(L, X, x)
  BY <1>1 DEF Seen
<1>4. IsFiniteSet(1..N) /\ Cardinality(1..N) = N
  BY <1>2, FS_Interval
<1>5. Cardinality(V) <= Cardinality(1..N) /\ (Cardinality(1..N) = Cardinality(V) => 1..N = V)
  BY ONLY <1>3, <1>4, FS_Subset
<1>6. x \in V
  BY <1>2, <1>3, <1>4, <1>5
<1>7. Key(L, X, x) \in Nat
  <2>1. x = 1 => Key(L, X, x) \in Nat
    BY DEF Key
  <2>2. x # 1 => Key(L, X, x) \in Nat
    BY <1>2, FilledIs, KeyIs DEF Finished
  <2> QED
    BY <2>1, <2>2
<1> DEFINE h == Key(L, X, x)
<1>8. h < h
  BY ONLY <1>3, <1>6
<1>9. h \in Nat
  BY <1>7
<1> HIDE DEF h
<1> QED
  BY ONLY <1>8, <1>9

\* The runs on the stack still join without a gap, up to the end of the first.
LEMMA LinkedStill ==
  ASSUME NEW t, NEW X, NEW W, NEW N, Finished(t, X, W, N), NEW z, KeptApart(z, X, N), Len(z) > 0,
         NEW high, Linked(z, X, high), NEW x \in 1..N, x = z[Len(z)],
         NEW y, PushedOn(y, z, t.first[x], t.count[x]),
         NEW s, s = IF t.terminal[x] = NoWord THEN X[x].lo ELSE X[x].lo + 1
  PROVE  /\ Linked(y, X, high)
         /\ Len(y) > 0 => X[y[Len(y)]].lo = s
         /\ Len(y) = 0 => s = high
<1> DEFINE m == Len(z)
           a == t.first[x]
           n == t.count[x]
           b == a + n - 1
<1>1. m \in Nat /\ m >= 1
  BY DEF KeptApart
<1>2. a \in Nat /\ n \in Nat
  BY FilledIs
<1>3. /\ n = 0 <=> s = X[x].hi
      /\ n > 0 => X[a].lo = s /\ X[b].hi = X[x].hi
      /\ \A c \in a..b : c < b => X[c].hi = X[c + 1].lo
  <2>1. Filled(t, X, W, N, x)
    BY FilledIs
  <2>2. /\ t.count[x] = 0 <=> s = X[x].hi
        /\ t.count[x] > 0 => X[t.first[x]].lo = s /\ X[t.first[x] + t.count[x] - 1].hi = X[x].hi
        /\ \A c \in t.first[x]..(t.first[x] + t.count[x] - 1) :
             c < t.first[x] + t.count[x] - 1 => X[c].hi = X[c + 1].lo
    BY ONLY <2>1, s = IF t.terminal[x] = NoWord THEN X[x].lo ELSE X[x].lo + 1 DEF Filled
  <2> QED
    BY ONLY <2>2
<1>4. /\ Len(y) = m - 1 + n
      /\ \A i \in 1..(m - 1) : y[i] = z[i]
      /\ \A i \in 1..n : y[m - 1 + i] = a + n - i
  BY DEF PushedOn
<1>5. /\ X[z[1]].hi = high
      /\ \A i \in 1..(m - 1) : X[z[i + 1]].hi = X[z[i]].lo
  BY <1>1 DEF Linked
<1>6. x = z[m]
  OBVIOUS
<1> HIDE DEF m, a, n
<1>7. Len(y) > 0 => X[y[1]].hi = high
  <2> SUFFICES ASSUME Len(y) > 0 PROVE X[y[1]].hi = high
    OBVIOUS
  <2>1. CASE m = 1
    <3>1. 1 \in 1..n /\ m - 1 + 1 = 1 /\ n > 0
      BY <1>1, <1>2, <1>4, <2>1
    <3>2. y[1] = b
      BY <1>4, <3>1
    <3> QED
      BY <1>3, <1>5, <1>6, <2>1, <3>1, <3>2
  <2>2. CASE m # 1
    <3>1. 1 \in 1..(m - 1)
      BY <1>1, <2>2
    <3> QED
      BY <1>4, <1>5, <3>1
  <2> QED
    BY <2>1, <2>2
<1>8. ASSUME NEW i \in 1..(Len(y) - 1) PROVE X[y[i + 1]].hi = X[y[i]].lo
  <2>1. CASE i + 1 <= m - 1
    <3>1. i \in 1..(m - 1) /\ i + 1 \in 1..(m - 1)
      BY <1>1, <1>2, <1>4, <2>1
    <3> QED
      BY <1>4, <1>5, <3>1
  <2>2. CASE i = m - 1
    <3>1. i \in 1..(m - 1) /\ 1 \in 1..n /\ m - 1 + 1 = i + 1 /\ n > 0 /\ i + 1 = m
      BY <1>1, <1>2, <1>4, <2>2
    <3>2. y[i + 1] = b /\ y[i] = z[i]
      BY <1>4, <3>1
    <3>3. X[z[i + 1]].hi = X[z[i]].lo /\ z[i + 1] = x
      BY <1>5, <1>6, <3>1
    <3> QED
      BY <1>3, <3>1, <3>2, <3>3
  <2>3. CASE i > m - 1
    <3> DEFINE l == i - (m - 1)
    <3>1. l \in 1..n /\ l + 1 \in 1..n /\ m - 1 + l = i /\ m - 1 + (l + 1) = i + 1
      BY <1>1, <1>2, <1>4, <2>3
    <3> DEFINE c == a + n - (l + 1)
    <3>2. y[i] = a + n - l /\ y[i + 1] = c
      BY <1>4, <3>1
    <3>3. c \in a..b /\ c < b /\ c + 1 = a + n - l
      <4> HIDE DEF l
      <4>1. l \in 1..n /\ l + 1 \in 1..n
        BY ONLY <3>1
      <4> QED BY ONLY <1>2, <4>1
    <3> HIDE DEF c, l, b
    <3>4. X[c].hi = X[c + 1].lo
      BY ONLY <1>3, <3>3
    <3> QED
      BY <3>2, <3>3, <3>4
  <2> QED
    BY <1>1, <1>2, <1>4, <2>1, <2>2, <2>3
<1>9. ASSUME Len(y) > 0 PROVE X[y[Len(y)]].lo = s
  <2>1. CASE n > 0
    <3>1. n \in 1..n /\ m - 1 + n = Len(y) /\ a + n - n = a
      BY <1>2, <1>4, <2>1
    <3>2. y[Len(y)] = a
      BY <1>4, <3>1
    <3> QED
      BY <1>3, <2>1, <3>2
  <2>2. CASE n = 0
    <3>1. Len(y) = m - 1 /\ m - 1 \in 1..(m - 1) /\ m - 1 + 1 = m
      BY <1>1, <1>4, <1>9, <2>2
    <3>2. y[m - 1] = z[m - 1] /\ X[z[m]].hi = X[z[m - 1]].lo
      BY <1>4, <1>5, <3>1
    <3> QED
      BY <1>3, <1>6, <2>2, <3>1, <3>2
  <2> QED
    BY <1>2, <2>1, <2>2
<1>10. ASSUME Len(y) = 0 PROVE s = high
  <2>1. n = 0 /\ m = 1
    BY <1>1, <1>2, <1>4, <1>10
  <2> QED
    BY <1>3, <1>5, <1>6, <2>1
<1> QED
  BY ONLY <1>7, <1>8, <1>9, <1>10 DEF Linked

(***************************************************************************)
(* find_by_prefix: the words of the run of the node of the prefix.         *)
(***************************************************************************)
\* The words from low up to cur have been found.
Listed(f, W, low, cur) ==
  f \in Seq(Range(W)) /\ Len(f) = cur - low /\ \A j \in 1..(cur - low) : f[j] = W[low + j - 1]

Searching(v, t, X, W, N, L, low, high, k) ==
  \E cur \in low..high :
    /\ Listed(v.found, W, low, cur) /\ KeptApart(v.stack, X, N) /\ Linked(v.stack, X, high)
    /\ Len(v.stack) = 0 => cur = high
    /\ Len(v.stack) > 0 => X[v.stack[Len(v.stack)]].lo = cur
    /\ Len(v.stack) > 0 => \E V : Seen(V, v.stack, L, X, N, k)

Looked(t, v) ==
  LET node == v.stack[Len(v.stack)]
      word == t.terminal[node]
  IN  IF v.stack = <<>> THEN v
      ELSE [stack |-> SubSeq(v.stack, 1, Len(v.stack) - 1) \o Pushed(t, node),
            found |-> IF word = NoWord THEN v.found ELSE Append(v.found, t.words[word])]

\* One more word is listed.
LEMMA ListedMore ==
  ASSUME NEW W, AsList(W), NEW low \in Nat, NEW cur \in DOMAIN W, low <= cur,
         NEW f, Listed(f, W, low, cur)
  PROVE  Listed(Append(f, W[cur]), W, low, cur + 1)
<1> DEFINE w == W[cur]
           D == Range(W)
           g == Append(f, w)
           n == cur - low
<1>1. w \in D /\ cur \in Nat
  BY ListIs
<1>2. f \in Seq(D) /\ Len(f) = n /\ \A j \in 1..n : f[j] = W[low + j - 1]
  BY DEF Listed
<1>3. n \in Nat
  BY <1>1
<1> HIDE DEF w, D
<1>4. g \in Seq(D) /\ Len(g) = n + 1 /\ (\A j \in 1..n : g[j] = f[j]) /\ g[n + 1] = w
  <2> HIDE DEF n
  <2> QED BY ONLY <1>1, <1>2, <1>3
<1> HIDE DEF g
<1>5. n + 1 = (cur + 1) - low /\ low + (n + 1) - 1 = cur
  BY <1>1
<1>6. ASSUME NEW j \in 1..(n + 1) PROVE g[j] = W[low + j - 1]
  <2>1. CASE j = n + 1
    BY <1>4, <1>5, <2>1 DEF w
  <2>2. CASE j # n + 1
    <3>1. j \in 1..n
      BY <1>3, <2>2
    <3> QED
      BY <1>2, <1>4, <3>1
  <2> QED
    BY <2>1, <2>2
<1> HIDE DEF n
<1>7. Listed(g, W, low, cur + 1)
  BY ONLY <1>4, <1>5, <1>6 DEF Listed, D
<1> QED
  BY <1>7 DEF g, w

\* A step of the search lists the word of the node it takes, and goes on below.
LEMMA SearchGoesOn ==
  ASSUME NEW t, NEW X, NEW W, NEW N, Finished(t, X, W, N), NEW L, Lettered(L, W),
         NEW low \in Nat, NEW high \in Nat, NEW k \in Nat,
         NEW v, Searching(v, t, X, W, N, L, low, high, k)
  PROVE  Searching(Looked(t, v), t, X, W, N, L, low, high, k + 1)
<1> DEFINE z == v.stack
           u == Looked(t, v)
           m == Len(z)
           x == z[m]
<1>1. PICK cur \in low..high :
        /\ Listed(v.found, W, low, cur) /\ KeptApart(z, X, N) /\ Linked(z, X, high)
        /\ Len(z) = 0 => cur = high
        /\ Len(z) > 0 => X[z[Len(z)]].lo = cur
        /\ Len(z) > 0 => \E V : Seen(V, z, L, X, N, k)
  BY DEF Searching
<1>2. z \in Seq(1..N) /\ m \in Nat
  BY <1>1 DEF KeptApart
<1>3. CASE m = 0
  <2>1. z = <<>>
    BY <1>2, <1>3
  <2>2. u = v
    BY <2>1 DEF Looked
  <2> QED
    BY <1>1, <1>3, <2>2 DEF Searching
<1>4. CASE m # 0
  <2>1. m > 0 /\ x \in 1..N /\ z # <<>>
    <3>1. m > 0
      <4> HIDE DEF m
      <4> QED BY ONLY <1>2, <1>4
    <3>2. x \in 1..N
      BY <1>1, <3>1, TopIs
    <3>3. Len(<<>>) = 0
      OBVIOUS
    <3> QED
      BY ONLY <3>1, <3>2, <3>3
  <2> DEFINE q == Pushed(t, x)
             y == SubSeq(z, 1, m - 1) \o q
             word == t.terminal[x]
             s == IF word = NoWord THEN X[x].lo ELSE X[x].lo + 1
             f == IF word = NoWord THEN v.found ELSE Append(v.found, t.words[word])
  <2>2. u = [stack |-> y, found |-> f]
    BY <2>1 DEF Looked
  <2>3. u.stack = y /\ u.found = f
    <3> HIDE DEF u, y, f
    <3> QED BY ONLY <2>2
  <2> HIDE DEF u
  <2>4. /\ t.first[x] \in Nat /\ t.count[x] \in Nat /\ X[x].lo = cur /\ t.words = W /\ AsList(W)
        /\ word # NoWord => word = cur /\ cur \in DOMAIN W
        /\ s <= X[x].hi
    <3>1. /\ t.first[x] \in Nat /\ t.count[x] \in Nat /\ Filled(t, X, W, N, x)
      BY <2>1, FilledIs
    <3>2. /\ X[x].lo = cur /\ t.words = W /\ AsList(W)
      BY <1>1, <2>1 DEF Finished, InOrder
    <3>3. /\ word # NoWord => word = cur /\ cur \in DOMAIN W
          /\ s <= X[x].hi
      BY <3>1, <3>2 DEF Filled
    <3> QED
      BY ONLY <3>1, <3>2, <3>3
  <2>5. PushedOn(y, z, t.first[x], t.count[x])
    <3>1. q = [i \in 1..t.count[x] |-> t.first[x] + t.count[x] - i]
      BY DEF Pushed
    <3> HIDE DEF q, x
    <3> QED BY <1>2, <2>1, <2>4, <3>1, PushedIsOn
  <2> HIDE DEF y
  <2>6. Taken(y, z, t)
    BY <2>5 DEF Taken
  <2>7. /\ Linked(y, X, high)
        /\ Len(y) > 0 => X[y[Len(y)]].lo = s
        /\ Len(y) = 0 => s = high
    <3> DEFINE r == s
    <3>1. r = IF t.terminal[x] = NoWord THEN X[x].lo ELSE X[x].lo + 1
      OBVIOUS
    <3>2. x = z[Len(z)]
      OBVIOUS
    <3> HIDE DEF r, x, z
    <3>3. /\ Linked(y, X, high)
          /\ Len(y) > 0 => X[y[Len(y)]].lo = r
          /\ Len(y) = 0 => r = high
      BY ONLY Finished(t, X, W, N), <1>1, <2>1, <2>5, <3>1, <3>2, LinkedStill DEF m
    <3> QED
      BY ONLY <3>3 DEF r
  <2>8. KeptApart(y, X, N)
    BY <1>1, <2>1, <2>6, ApartStill
  <2>9. PICK V : Seen(V, z, L, X, N, k)
    BY <1>1, <2>1
  <2>10. Seen(V \cup {x}, y, L, X, N, k + 1)
    BY <1>1, <2>1, <2>6, <2>9, SeenStill
  <2>11. cur \in Nat /\ low <= cur /\ cur <= high /\ Len(y) \in Nat
    BY <1>1, <2>8 DEF KeptApart
  <2>12. s \in low..high
    <3> DEFINE e == z[1]
               b == X[x].hi
               g == X[e].lo
               h == X[e].hi
    <3>1. 1 \in 1..m /\ m \in 1..m /\ h = high /\ e \in 1..N
      <4>1. m \in Nat /\ m \in 1..m /\ \A i \in 1..m : z[i] \in 1..N
        BY <1>1, <2>1, TopIs
      <4>2. h = high
        BY <1>1, <2>1 DEF Linked
      <4> HIDE DEF m, z
      <4>3. 1 \in 1..m
        BY ONLY <2>1, <4>1
      <4> QED
        BY ONLY <4>1, <4>2, <4>3 DEF e
    <3>2. b \in Nat /\ g \in Nat /\ h \in Nat /\ g <= h
      BY <2>1, <3>1, FilledIs
    <3>3. m # 1 => b <= g
      <4> SUFFICES ASSUME m # 1 PROVE b <= g
        OBVIOUS
      <4>1. 1 < m
        <5> HIDE DEF m
        <5> QED BY ONLY <1>2, <2>1, m # 1
      <4>2. \A i, j \in 1..Len(z) : i < j => X[z[j]].hi <= X[z[i]].lo
        BY <1>1 DEF KeptApart
      <4> QED
        BY ONLY <3>1, <4>1, <4>2
    <3>4. m = 1 => b = h
      OBVIOUS
    <3>5. cur \in Nat /\ low <= cur /\ s <= b /\ (s = cur \/ s = cur + 1)
      BY <2>4, <2>11
    <3> HIDE DEF m, b, g, h, s
    <3> QED
      BY ONLY <3>1, <3>2, <3>3, <3>4, <3>5, low \in Nat, high \in Nat
  <2>13. Listed(f, W, low, s)
    <3>1. CASE word = NoWord
      BY <1>1, <2>4, <3>1
    <3>2. CASE word # NoWord
      <4>1. f = Append(v.found, W[cur]) /\ s = cur + 1 /\ cur \in DOMAIN W
        BY <2>4, <3>2
      <4>2. Listed(Append(v.found, W[cur]), W, low, cur + 1)
        BY <1>1, <2>4, <2>11, <4>1, ListedMore
      <4> QED
        BY ONLY <4>1, <4>2
    <3> QED
      BY <3>1, <3>2
  <2> HIDE DEF s, f, x, m, z
  <2>14. \E e \in low..high :
          /\ Listed(u.found, W, low, e) /\ KeptApart(u.stack, X, N) /\ Linked(u.stack, X, high)
          /\ Len(u.stack) = 0 => e = high
          /\ Len(u.stack) > 0 => X[u.stack[Len(u.stack)]].lo = e
          /\ Len(u.stack) > 0 => \E U : Seen(U, u.stack, L, X, N, k + 1)
    BY ONLY <2>3, <2>7, <2>8, <2>10, <2>12, <2>13
  <2> QED
    BY ONLY <2>14 DEF Searching, u
<1> QED
  BY <1>3, <1>4

SearchedTo(f, t, start, m) ==
  f = [k \in 0..m |-> IF k = 0 THEN start ELSE Looked(t, f[k - 1])]

\* The states of the search, step by step.
LEMMA SearchExists ==
  ASSUME NEW t, NEW start, NEW n \in Nat
  PROVE  \E f : SearchedTo(f, t, start, n)
<1> DEFINE T == {m \in Nat : \E f : SearchedTo(f, t, start, m)}
<1>1. 0 \in T
  <2> DEFINE f == [k \in 0..0 |-> start]
  <2>1. SearchedTo(f, t, start, 0)
    BY DEF SearchedTo
  <2> QED
    BY <2>1
<1>2. ASSUME NEW m \in T PROVE \E f : SearchedTo(f, t, start, m + 1)
  <2>1. PICK f : SearchedTo(f, t, start, m)
    BY <1>2
  <2> DEFINE h == [k \in 0..(m + 1) |-> IF k = m + 1 THEN Looked(t, f[m]) ELSE f[k]]
  <2>2. m \in Nat
    BY <1>2
  <2>4. ASSUME NEW k \in 0..(m + 1)
        PROVE  h[k] = IF k = 0 THEN start ELSE Looked(t, h[k - 1])
    <3>1. CASE k = m + 1
      <4>1. k - 1 = m /\ m \in 0..(m + 1) /\ m # m + 1 /\ k # 0
        BY <2>2, <3>1
      <4>2. h[k] = Looked(t, f[m]) /\ h[m] = f[m]
        BY <3>1, <4>1
      <4> QED
        BY <4>1, <4>2
    <3>2. CASE k # m + 1
      <4>1. k \in 0..m /\ (k # 0 => k - 1 \in 0..m)
        BY <2>2, <3>2
      <4>2. f[k] = IF k = 0 THEN start ELSE Looked(t, f[k - 1])
        BY <2>1, <4>1 DEF SearchedTo
      <4>3. h[k] = f[k] /\ (k # 0 => h[k - 1] = f[k - 1])
        BY <2>2, <3>2, <4>1
      <4> QED
        BY <4>2, <4>3
    <3> QED
      BY <3>1, <3>2
  <2>5. SearchedTo(h, t, start, m + 1)
    <3>1. h = [k \in 0..(m + 1) |-> h[k]]
      OBVIOUS
    <3> HIDE DEF h
    <3> QED
      BY <2>4, <3>1 DEF SearchedTo
  <2> HIDE DEF h
  <2> QED
    BY <2>5
<1>3. \A m \in T \cap Nat : m + 1 \in T
  BY <1>2
<1>4. Nat \subseteq T
  <2> HIDE DEF T
  <2> QED BY <1>1, <1>3, Induction
<1> QED
  BY <1>4

\* What find_by_prefix finds is a run of the words, the run under the prefix.
FoundRun(found, W, p, lo, hi) ==
  /\ lo \in Nat /\ hi \in Nat /\ 1 <= lo /\ lo <= hi /\ hi <= Len(W) + 1
  /\ Under(W, p, lo, hi) /\ Listed(found, W, lo, hi)

\* The search by prefix finds the run of the words under the prefix.
LEMMA FoundIs ==
  ASSUME NEW t, NEW X, NEW W, NEW N, Finished(t, X, W, N), NEW p \in Seq(Nat)
  PROVE  \E lo, hi : FoundRun(FindByPrefix(t, p), W, p, lo, hi)
<1> DEFINE x == Walk(t, p)
           n == Len(t.label)
           start == [stack |-> <<x>>, found |-> <<>>]
           B == CHOOSE f : f = [k \in 0..n |-> IF k = 0 THEN start ELSE Looked(t, f[k - 1])]
           L == CHOOSE f : f = [k \in 0..Len(W) |-> IF k = 0 THEN 0 ELSE f[k - 1] + Len(W[k].word)]
<1>1. x \in 0..N /\ Reached(x, X, W, N, p)
  BY WalkIs
<1>2. FindByPrefix(t, p) = IF x = NoNode THEN <<>> ELSE B[n].found
  BY DEF FindByPrefix, Looked
<1>3. n = N /\ N \in Nat /\ N >= 1 /\ InOrder(W) /\ Len(W) \in Nat /\ DOMAIN W = 1..Len(W)
  BY ListIs DEF Finished, Arrays, InOrder
<1>4. Lettered(L, W)
  <2> HIDE DEF L
  <2>1. L = CHOOSE f : f = [k \in 0..Len(W) |-> IF k = 0 THEN 0 ELSE f[k - 1] + Len(W[k].word)]
    BY DEF L
  <2> QED
    BY ONLY <1>3, <2>1, LettersExist
<1>5. B[0] = start /\ \A k \in 1..N : B[k] = Looked(t, B[k - 1])
  <2>1. B = CHOOSE f : f = [k \in 0..N |-> IF k = 0 THEN start ELSE Looked(t, f[k - 1])]
    BY <1>3 DEF B
  <2> HIDE DEF B, n, start
  <2>2. \E f : SearchedTo(f, t, start, N)
    BY <1>3, SearchExists
  <2>3. B = [k \in 0..N |-> IF k = 0 THEN start ELSE Looked(t, B[k - 1])]
    BY <2>1, <2>2 DEF SearchedTo
  <2>4. 0 \in 0..N /\ \A k \in 1..N : k \in 0..N /\ k # 0
    BY <1>3
  <2> QED
    BY ONLY <2>3, <2>4
<1> HIDE DEF B, L, x
<1>6. CASE x = NoNode
  <2>1. FindByPrefix(t, p) = <<>>
    BY <1>2, <1>6
  <2>2. \A k \in DOMAIN W : ~StartsWith(W[k].word, p)
    BY <1>1, <1>6 DEF Reached
  <2>3. Under(W, p, 1, 1)
    BY <2>2 DEF Under
  <2>4. Listed(<<>>, W, 1, 1)
    BY DEF Listed
  <2>5. FoundRun(<<>>, W, p, 1, 1)
    BY <1>3, <2>3, <2>4 DEF FoundRun
  <2> QED
    BY <2>1, <2>5
<1>7. CASE x # NoNode
  <2>1. x \in 1..N /\ X[x].path = p
    BY <1>1, <1>7 DEF Reached
  <2> DEFINE lo == X[x].lo
             hi == X[x].hi
  <2>2. /\ lo \in Nat /\ hi \in Nat /\ 1 <= lo /\ lo <= hi /\ hi <= Len(W) + 1
        /\ Under(W, p, lo, hi)
    BY <2>1, FilledIs
  <2>3. Searching(start, t, X, W, N, L, lo, hi, 0)
    <3> DEFINE z == <<x>>
               d == <<>>
    <3>1. z \in Seq(1..N) /\ Len(z) = 1 /\ z[1] = x
      BY <2>1
    <3>2. start.stack = z /\ start.found = d
      OBVIOUS
    <3> HIDE DEF z, start, lo, hi
    <3>3. KeptApart(z, X, N)
      BY <3>1 DEF KeptApart
    <3>4. Linked(z, X, hi)
      BY <3>1 DEF Linked, hi
    <3>5. Listed(d, W, lo, lo)
      BY <2>2 DEF Listed
    <3>6. Seen({}, z, L, X, N, 0)
      BY FS_EmptySet DEF Seen
    <3>7. lo \in lo..hi /\ X[z[Len(z)]].lo = lo
      BY <2>2, <3>1 DEF lo
    <3> HIDE DEF d
    <3>8. /\ lo \in lo..hi /\ Listed(d, W, lo, lo) /\ KeptApart(z, X, N) /\ Linked(z, X, hi)
          /\ Len(z) = 0 => lo = hi
          /\ Len(z) > 0 => X[z[Len(z)]].lo = lo
          /\ Len(z) > 0 => \E V : Seen(V, z, L, X, N, 0)
      <4>1. Len(z) # 0
        BY ONLY <3>1
      <4> QED
        BY ONLY <3>3, <3>4, <3>5, <3>6, <3>7, <4>1
    <3>9. /\ lo \in lo..hi
          /\ Listed(start.found, W, lo, lo) /\ KeptApart(start.stack, X, N) /\ Linked(start.stack, X, hi)
          /\ Len(start.stack) = 0 => lo = hi
          /\ Len(start.stack) > 0 => X[start.stack[Len(start.stack)]].lo = lo
          /\ Len(start.stack) > 0 => \E V : Seen(V, start.stack, L, X, N, 0)
      BY ONLY <3>2, <3>8, Zenon
    <3> QED
      BY ONLY <3>9, Zenon DEF Searching
  <2> HIDE DEF lo, hi, start
  <2> DEFINE T == {k \in Nat : k <= N => Searching(B[k], t, X, W, N, L, lo, hi, k)}
  <2>4. 0 \in T
    BY <1>5, <2>3
  <2>5. ASSUME NEW k \in T, k + 1 <= N PROVE Searching(B[k + 1], t, X, W, N, L, lo, hi, k + 1)
    <3>1. k \in Nat /\ k + 1 \in 1..N /\ (k + 1) - 1 = k /\ Searching(B[k], t, X, W, N, L, lo, hi, k)
      BY <1>3, <2>5
    <3>2. B[k + 1] = Looked(t, B[k])
      BY <1>5, <3>1
    <3> QED
      BY <1>4, <2>2, <3>1, <3>2, SearchGoesOn
  <2>6. \A k \in T \cap Nat : k + 1 \in T
    BY <2>5
  <2>7. Nat \subseteq T
    <3> HIDE DEF T
    <3> QED BY <2>4, <2>6, Induction
  <2>8. Searching(B[N], t, X, W, N, L, lo, hi, N)
    BY <1>3, <2>7
  <2> DEFINE v == B[N]
  <2>9. PICK cur \in lo..hi :
          /\ Listed(v.found, W, lo, cur) /\ KeptApart(v.stack, X, N) /\ Linked(v.stack, X, hi)
          /\ Len(v.stack) = 0 => cur = hi
          /\ Len(v.stack) > 0 => X[v.stack[Len(v.stack)]].lo = cur
          /\ Len(v.stack) > 0 => \E V : Seen(V, v.stack, L, X, N, N)
    BY <2>8 DEF Searching
  <2>10. Len(v.stack) = 0
    <3> SUFFICES ASSUME Len(v.stack) > 0 PROVE FALSE
      BY <2>9 DEF KeptApart
    <3>1. PICK V : Seen(V, v.stack, L, X, N, N)
      BY <2>9
    <3> DEFINE z == v.stack
    <3>2. Len(z) > 0 /\ KeptApart(z, X, N) /\ Seen(V, z, L, X, N, N)
      BY <2>9, <3>1
    <3> HIDE DEF z, v
    <3>3. z = <<>>
      BY <1>3, <1>4, <3>2, AllSeen
    <3> QED
      BY <3>2, <3>3
  <2>11. FindByPrefix(t, p) = v.found
    BY <1>2, <1>3, <1>7
  <2>12. FoundRun(FindByPrefix(t, p), W, p, lo, hi)
    BY <2>2, <2>9, <2>10, <2>11 DEF FoundRun
  <2> QED
    BY <2>12
<1> QED
  BY <1>6, <1>7

(***************************************************************************)
(* There is one way to list words in order.                                *)
(***************************************************************************)
WordsInOrder(q, S) ==
  /\ Len(q) \in Nat /\ DOMAIN q = 1..Len(q) /\ q = [k \in 1..Len(q) |-> q[k]]
  /\ \A k \in 1..Len(q) : q[k] \in S
  /\ \A w \in S : \E k \in 1..Len(q) : q[k] = w
  /\ \A k, l \in 1..Len(q) : k < l <=> WordLess(q[k], q[l])

\* Of two sorted lists of the same words neither is behind the other.
LEMMA NotShorter ==
  ASSUME NEW S, NEW q, NEW r, WordsInOrder(q, S), WordsInOrder(r, S),
         NEW n \in Nat, n <= Len(q), n <= Len(r), \A k \in 1..n : q[k] = r[k], n < Len(q)
  PROVE  n < Len(r) /\ ~WordLess(q[n + 1], r[n + 1])
<1>1. /\ Len(q) \in Nat /\ n + 1 \in 1..Len(q) /\ q[n + 1] \in S
      /\ \A k, l \in 1..Len(q) : k < l <=> WordLess(q[k], q[l])
  BY DEF WordsInOrder
<1>2. PICK j \in 1..Len(r) : r[j] = q[n + 1]
  BY <1>1 DEF WordsInOrder
<1>3. Len(r) \in Nat /\ \A k, l \in 1..Len(r) : k < l <=> WordLess(r[k], r[l])
  BY DEF WordsInOrder
<1>4. ASSUME j \in 1..n PROVE FALSE
  <2>1. q[j] = q[n + 1] /\ j \in 1..Len(q) /\ j < n + 1
    BY <1>1, <1>2, <1>4
  <2>2. WordLess(q[j], q[n + 1]) /\ ~WordLess(q[n + 1], q[j])
    BY <1>1, <2>1
  <2> QED
    BY <2>1, <2>2
<1>5. n + 1 <= j /\ n + 1 \in 1..Len(r) /\ n < Len(r)
  BY <1>3, <1>4
<1>6. ~WordLess(r[j], r[n + 1])
  BY <1>3, <1>5
<1> QED
  BY <1>2, <1>5, <1>6

\* So the sorted list of a set of words is one.
LEMMA OneOrder ==
  ASSUME NEW S, S \subseteq Seq(Nat), NEW q, NEW r, WordsInOrder(q, S), WordsInOrder(r, S)
  PROVE  q = r
<1>1. Len(q) \in Nat /\ Len(r) \in Nat
  BY DEF WordsInOrder
<1> DEFINE T == {n \in Nat : (n <= Len(q) \/ n <= Len(r)) =>
                    n <= Len(q) /\ n <= Len(r) /\ \A k \in 1..n : q[k] = r[k]}
<1>2. 0 \in T
  BY <1>1
<1>3. ASSUME NEW n \in T, n + 1 <= Len(q) \/ n + 1 <= Len(r)
      PROVE  n + 1 <= Len(q) /\ n + 1 <= Len(r) /\ \A k \in 1..(n + 1) : q[k] = r[k]
  <2>1. n \in Nat /\ n <= Len(q) /\ n <= Len(r) /\ \A k \in 1..n : q[k] = r[k] /\ r[k] = q[k]
    BY <1>1, <1>3
  <2>2. n < Len(q) => n < Len(r) /\ ~WordLess(q[n + 1], r[n + 1])
    BY <2>1, NotShorter
  <2>3. n < Len(r) => n < Len(q) /\ ~WordLess(r[n + 1], q[n + 1])
    BY <2>1, NotShorter
  <2>4. n < Len(q) /\ n < Len(r) /\ n + 1 \in 1..Len(q) /\ n + 1 \in 1..Len(r)
    BY <1>1, <1>3, <2>1, <2>2, <2>3
  <2>5. q[n + 1] \in Seq(Nat) /\ r[n + 1] \in Seq(Nat)
    BY <2>4 DEF WordsInOrder
  <2>6. q[n + 1] = r[n + 1]
    BY <2>2, <2>3, <2>4, <2>5, WordLessTotal
  <2>7. \A k \in 1..(n + 1) : k \in 1..n \/ k = n + 1
    BY <2>1
  <2> QED
    BY <1>1, <2>1, <2>4, <2>6, <2>7
<1>4. \A n \in T \cap Nat : n + 1 \in T
  BY <1>3
<1>5. Nat \subseteq T
  <2> HIDE DEF T
  <2> QED BY <1>2, <1>4, Induction
<1>6. Len(q) = Len(r) /\ \A k \in 1..Len(q) : q[k] = r[k]
  <2>1. Len(q) \in T /\ Len(r) \in T
    BY <1>1, <1>5
  <2> QED
    BY <1>1, <2>1
<1>7. q = [k \in 1..Len(q) |-> q[k]] /\ r = [k \in 1..Len(r) |-> r[k]]
  BY DEF WordsInOrder
<1> HIDE DEF T
<1> QED
  BY ONLY <1>6, <1>7

\* The words that a trie holds, by its finished arrays.
HoldsWords(t, words) ==
  \E X, W, N : Finished(t, X, W, N) /\ words = {W[k].word : k \in DOMAIN W}

\* The hits under a prefix are the words with the prefix, in their order.
LEMMA HitsAre ==
  ASSUME NEW t, NEW words, HoldsWords(t, words), NEW p \in Seq(Nat),
         NEW hits, hits = FindByPrefix(t, p)
  PROVE  [k \in DOMAIN hits |-> hits[k].word] = Ranked({w \in words : StartsWith(w, p)}, WordLess)
<1>1. PICK X, W, N : Finished(t, X, W, N) /\ words = {W[k].word : k \in DOMAIN W}
  BY DEF HoldsWords
<1>2. PICK lo, hi : FoundRun(hits, W, p, lo, hi)
  BY <1>1, FoundIs
<1> DEFINE S == {w \in words : StartsWith(w, p)}
           n == hi - lo
           q == [k \in DOMAIN hits |-> hits[k].word]
           r == InWordOrder(S)
<1>3. /\ lo \in Nat /\ hi \in Nat /\ 1 <= lo /\ lo <= hi /\ hi <= Len(W) + 1
      /\ \A k \in DOMAIN W : StartsWith(W[k].word, p) <=> k \in lo..(hi - 1)
      /\ hits \in Seq(Range(W)) /\ Len(hits) = n /\ \A j \in 1..n : hits[j] = W[lo + j - 1]
  BY <1>2 DEF FoundRun, Under, Listed
<1>4. /\ Len(W) \in Nat /\ DOMAIN W = 1..Len(W) /\ n \in Nat
      /\ \A k \in DOMAIN W : W[k].word \in Seq(Nat)
      /\ \A k, l \in DOMAIN W : k < l <=> WordLess(W[k].word, W[l].word)
  BY <1>1, <1>3, ListIs DEF Finished, InOrder
<1>5. DOMAIN hits = 1..n
  BY <1>3
<1>6. S \subseteq Seq(Nat) /\ IsFiniteSet(S)
  <2> DEFINE f == [k \in DOMAIN W |-> W[k].word]
  <2>1. IsFiniteSet(DOMAIN f) /\ words = {f[k] : k \in DOMAIN f}
    BY <1>1, <1>4, FS_Interval
  <2> HIDE DEF f
  <2>2. IsFiniteSet(words)
    BY <2>1, FiniteImage
  <2>3. S \in SUBSET words
    OBVIOUS
  <2> HIDE DEF S
  <2>4. IsFiniteSet(S)
    BY <2>2, <2>3, FS_Subset
  <2> QED
    BY <1>1, <1>4, <2>4 DEF S
<1>7. Len(q) = n /\ DOMAIN q = 1..n /\ \A k \in 1..n : q[k] = W[lo + k - 1].word /\ lo + k - 1 \in lo..(hi - 1)
  <2>1. q = [k \in 1..n |-> hits[k].word]
    BY <1>5
  <2>2. \A k \in 1..n : hits[k].word = W[lo + k - 1].word /\ lo + k - 1 \in lo..(hi - 1)
    BY <1>3
  <2>3. Len(q) = n
    BY <1>4, <2>1
  <2> QED
    BY <2>1, <2>2, <2>3
<1>8. WordsInOrder(q, S)
  <2>1. q = [k \in 1..Len(q) |-> q[k]]
    <3>1. q = [k \in DOMAIN q |-> q[k]]
      OBVIOUS
    <3> QED
      BY ONLY <1>7, <3>1
  <2> HIDE DEF q, n
  <2>2. \A k \in 1..n : q[k] \in S
    <3> SUFFICES ASSUME NEW k \in 1..n PROVE q[k] \in S
      OBVIOUS
    <3>1. lo + k - 1 \in DOMAIN W /\ lo + k - 1 \in lo..(hi - 1)
      BY <1>3, <1>4, <1>7
    <3> QED
      BY <1>1, <1>3, <1>7, <3>1
  <2>3. \A w \in S : \E k \in 1..n : q[k] = w
    <3> SUFFICES ASSUME NEW w \in S PROVE \E k \in 1..n : q[k] = w
      OBVIOUS
    <3>1. PICK l \in DOMAIN W : W[l].word = w
      BY <1>1
    <3>2. l \in lo..(hi - 1)
      BY <1>3, <3>1
    <3>3. l - lo + 1 \in 1..n /\ lo + (l - lo + 1) - 1 = l
      BY <1>3, <3>2 DEF n
    <3> QED
      BY <1>7, <3>1, <3>3
  <2>4. \A k, l \in 1..n : k < l <=> WordLess(q[k], q[l])
    <3> SUFFICES ASSUME NEW k \in 1..n, NEW l \in 1..n PROVE k < l <=> WordLess(q[k], q[l])
      OBVIOUS
    <3> DEFINE a == lo + k - 1
               b == lo + l - 1
    <3>1. a \in DOMAIN W /\ b \in DOMAIN W /\ (k < l <=> a < b)
      BY <1>3, <1>4, <1>7
    <3>2. q[k] = W[a].word /\ q[l] = W[b].word
      BY <1>7
    <3> HIDE DEF a, b
    <3> QED
      BY <1>4, <3>1, <3>2
  <2> HIDE DEF S
  <2> QED
    BY ONLY <1>4, <1>7, <2>1, <2>2, <2>3, <2>4 DEF WordsInOrder
<1> HIDE DEF q, S
<1>9. WordsInOrder(r, S)
  <2> HIDE DEF r
  <2>1. /\ r \in Seq(S) /\ Len(r) = Cardinality(S)
        /\ \A x \in S : \E k \in DOMAIN r : r[k] = x
        /\ \A k, l \in DOMAIN r : k < l <=> WordLess(r[k], r[l])
    BY <1>6, WordsRanked DEF r
  <2>2. DOMAIN r = 1..Len(r) /\ Len(r) \in Nat /\ r = [k \in 1..Len(r) |-> r[k]]
        /\ \A k \in 1..Len(r) : r[k] \in S
    BY ONLY <2>1
  <2> QED
    BY ONLY <2>1, <2>2 DEF WordsInOrder
<1>10. q = r
  <2> HIDE DEF r
  <2> QED BY ONLY <1>6, <1>8, <1>9, OneOrder
<1> QED
  BY <1>10, WordsAreRanked DEF q, r, S

\* Membership in a trie that holds the words.
LEMMA HeldAre ==
  ASSUME NEW t, NEW words, HoldsWords(t, words), NEW p \in Seq(Nat)
  PROVE  Contains(t, p) <=> p \in words
<1>1. PICK X, W, N : Finished(t, X, W, N) /\ words = {W[k].word : k \in DOMAIN W}
  BY DEF HoldsWords
<1>2. Contains(t, p) <=> \E k \in DOMAIN W : W[k].word = p
  BY <1>1, ContainsIs
<1> QED
  BY <1>1, <1>2

\* The labels of siblings ascend.
LEMMA LabelsAscend ==
  ASSUME NEW t, NEW words, HoldsWords(t, words), NEW x \in DOMAIN t.label
  PROVE  \A a, b \in Children(t, x) : a < b => t.label[a] < t.label[b]
<1>1. PICK X, W, N : Finished(t, X, W, N)
  BY DEF HoldsWords
<1>2. x \in 1..N
  BY <1>1 DEF Finished, Arrays
<1>3. Filled(t, X, W, N, x) /\ Children(t, x) = t.first[x]..(t.first[x] + t.count[x] - 1)
  BY <1>1, <1>2, FilledIs
<1> QED
  BY <1>3 DEF Filled

\* The trie of what is inserted holds the inserted words.
LEMMA TrieHolds ==
  ASSUME NEW inserted, NEW m \in Nat, DOMAIN inserted = 1..m,
         \A j \in 1..m : inserted[j].word \in Seq(Nat)
  PROVE  HoldsWords(TrieOf(inserted), {inserted[j].word : j \in 1..m})
<1> DEFINE W == SortedWords(inserted)
           t == TrieOfSorted(W)
           words == {inserted[j].word : j \in 1..m}
<1>1. TrieOf(inserted) = t
  BY DEF TrieOf
<1>2. InOrder(W) /\ SortedFrom(W, inserted)
  <2> DEFINE w == W
  <2>1. w = SortedWords(inserted)
    OBVIOUS
  <2> HIDE DEF w
  <2>2. InOrder(w) /\ SortedFrom(w, inserted)
    BY ONLY <2>1, m \in Nat, DOMAIN inserted = 1..m, \A j \in 1..m : inserted[j].word \in Seq(Nat),
            SortedWordsAre
  <2> QED
    BY <2>2 DEF w
<1> HIDE DEF W
<1>3. \E X, N : Finished(t, X, W, N)
  <2> DEFINE u == t
  <2>1. u = TrieOfSorted(W)
    OBVIOUS
  <2> HIDE DEF u
  <2>2. \E X, N : Finished(u, X, W, N)
    BY ONLY <1>2, <2>1, TrieIsGrown
  <2> QED
    BY <2>2 DEF u
<1>4. words = {W[k].word : k \in DOMAIN W}
  <2>1. \A k \in DOMAIN W : W[k].word \in words
    BY <1>2 DEF SortedFrom
  <2>2. \A w \in words : \E k \in DOMAIN W : W[k].word = w
    BY <1>2 DEF SortedFrom
  <2> QED
    BY <2>1, <2>2
<1> HIDE DEF t, words
<1>5. HoldsWords(t, words)
  BY ONLY <1>3, <1>4 DEF HoldsWords
<1> QED
  BY <1>1, <1>5 DEF words

\* A trie without nodes holds nothing.
LEMMA EmptyWalk ==
  ASSUME NEW w \in Seq(Nat)
  PROVE  Walk(EmptyTrie, w) = NoNode
<1> DEFINE n == Len(w)
           t == EmptyTrie
           along == CHOOSE f : f = [i \in 0..n |-> IF i = 0 THEN NoNode ELSE Stride(t, f[i - 1], w[i])]
           f == [i \in 0..n |-> NoNode]
<1>1. t.label = <<>> /\ n \in Nat
  BY DEF EmptyTrie
<1>2. Walk(t, w) = along[n]
  BY <1>1 DEF Walk, Stride
<1>3. \A c : Stride(t, NoNode, c) = NoNode
  BY DEF Stride
<1> HIDE DEF t, n
<1>4. f = [i \in 0..n |-> IF i = 0 THEN NoNode ELSE Stride(t, f[i - 1], w[i])]
  <2>1. \A i \in 0..n : i # 0 => i - 1 \in 0..n
    BY <1>1
  <2> QED
    BY <1>3, <2>1
<1>5. along = [i \in 0..n |-> IF i = 0 THEN NoNode ELSE Stride(t, along[i - 1], w[i])]
  <2> HIDE DEF f
  <2> QED BY <1>4
<1> HIDE DEF along
<1> DEFINE T == {i \in Nat : i <= n => along[i] = NoNode}
<1>6. 0 \in T
  <2>1. 0 \in 0..n
    BY <1>1
  <2> QED BY <1>5, <2>1
<1>7. ASSUME NEW i \in T, i + 1 <= n PROVE along[i + 1] = NoNode
  <2>1. i \in Nat /\ i + 1 \in 0..n /\ (i + 1) - 1 = i /\ i + 1 # 0 /\ along[i] = NoNode
    BY <1>1, <1>7
  <2> QED
    BY <1>3, <1>5, <2>1
<1>8. \A i \in T \cap Nat : i + 1 \in T
  BY <1>7
<1>9. Nat \subseteq T
  <2> HIDE DEF T
  <2> QED BY <1>6, <1>8, Induction
<1> QED
  BY <1>1, <1>2, <1>9 DEF t

(***************************************************************************)
(* A row of the table of distances.                                        *)
(***************************************************************************)
\* The least of some numbers.
LEMMA LeastIs ==
  ASSUME NEW S, S \subseteq Nat, S # {}
  PROVE  Least(S) \in S /\ \A y \in S : Least(S) <= y
BY LeastNumber DEF Least

\* What the cell j + 1 of a row is the least of.
CellChoices(row, j, prev, prev2, cost, turns, gap, swap) ==
  {prev[j] + cost[j], prev[j + 1] + gap, row[j] + gap}
    \cup (IF j \in turns THEN {prev2[j - 1] + swap} ELSE {})

RowIs(row, n, base, prev, prev2, cost, turns, gap, swap) ==
  /\ row \in Seq(Nat) /\ Len(row) = n + 1 /\ row[1] = base
  /\ \A j \in 1..n :
       row[j + 1] = Least(CellChoices(row, j, prev, prev2, cost, turns, gap, swap))

\* What a row is made from.
RowGiven(n, base, prev, prev2, cost, turns, gap, swap) ==
  /\ n \in Nat /\ base \in Nat /\ gap \in Nat /\ swap \in Nat
  /\ prev \in Seq(Nat) /\ Len(prev) = n + 1 /\ prev2 \in Seq(Nat) /\ Len(prev2) = n + 1
  /\ cost \in [1..n -> Nat] /\ turns \subseteq 2..n

CellsTo(f, m, base, prev, prev2, cost, turns, gap, swap) ==
  f = [j \in 0..m |->
         IF j = 0 THEN <<base>>
         ELSE Append(f[j - 1], Least(CellChoices(f[j - 1], j, prev, prev2, cost, turns, gap, swap)))]

\* The cells of a row, one by one.
LEMMA CellsExist ==
  ASSUME NEW n \in Nat, NEW base, NEW prev, NEW prev2, NEW cost, NEW turns, NEW gap, NEW swap
  PROVE  \E f : CellsTo(f, n, base, prev, prev2, cost, turns, gap, swap)
<1> DEFINE T == {m \in Nat : \E f : CellsTo(f, m, base, prev, prev2, cost, turns, gap, swap)}
           Next1(row, j) == Append(row, Least(CellChoices(row, j, prev, prev2, cost, turns, gap, swap)))
<1>1. 0 \in T
  <2> DEFINE f == [k \in 0..0 |-> <<base>>]
  <2>1. CellsTo(f, 0, base, prev, prev2, cost, turns, gap, swap)
    BY DEF CellsTo
  <2> QED
    BY <2>1
<1>2. ASSUME NEW m \in T
      PROVE  \E f : CellsTo(f, m + 1, base, prev, prev2, cost, turns, gap, swap)
  <2>1. PICK f : CellsTo(f, m, base, prev, prev2, cost, turns, gap, swap)
    BY <1>2
  <2> DEFINE h == [k \in 0..(m + 1) |-> IF k = m + 1 THEN Next1(f[m], m + 1) ELSE f[k]]
  <2>2. m \in Nat
    BY <1>2
  <2>3. f = [k \in 0..m |-> IF k = 0 THEN <<base>> ELSE Next1(f[k - 1], k)]
    BY <2>1 DEF CellsTo
  <2> HIDE DEF Next1
  <2>4. ASSUME NEW k \in 0..(m + 1)
        PROVE  h[k] = IF k = 0 THEN <<base>> ELSE Next1(h[k - 1], k)
    <3>1. CASE k = m + 1
      <4>1. k - 1 = m /\ m \in 0..(m + 1) /\ m # m + 1 /\ k # 0
        BY <2>2, <3>1
      <4>2. h[k] = Next1(f[m], k) /\ h[m] = f[m]
        BY <3>1, <4>1
      <4> QED
        BY <4>1, <4>2
    <3>2. CASE k # m + 1
      <4>1. k \in 0..m /\ (k # 0 => k - 1 \in 0..m)
        BY <2>2, <3>2
      <4>2. f[k] = IF k = 0 THEN <<base>> ELSE Next1(f[k - 1], k)
        BY <2>3, <4>1
      <4>3. h[k] = f[k] /\ (k # 0 => h[k - 1] = f[k - 1])
        BY <2>2, <3>2, <4>1
      <4> QED
        BY <4>2, <4>3
    <3> QED
      BY <3>1, <3>2
  <2>5. CellsTo(h, m + 1, base, prev, prev2, cost, turns, gap, swap)
    <3>1. h = [k \in 0..(m + 1) |-> h[k]]
      OBVIOUS
    <3> HIDE DEF h
    <3>2. h = [k \in 0..(m + 1) |-> IF k = 0 THEN <<base>> ELSE Next1(h[k - 1], k)]
      BY <2>4, <3>1
    <3> QED
      BY <3>2 DEF CellsTo, Next1
  <2> HIDE DEF h
  <2> QED
    BY <2>5
<1>3. \A m \in T \cap Nat : m + 1 \in T
  BY <1>2
<1>4. Nat \subseteq T
  <2> HIDE DEF T
  <2> QED BY <1>1, <1>3, Induction
<1> QED
  BY <1>4

\* The choices of a cell are numbers.
LEMMA ChoicesAre ==
  ASSUME NEW n, NEW base, NEW prev, NEW prev2, NEW cost, NEW turns, NEW gap, NEW swap,
         RowGiven(n, base, prev, prev2, cost, turns, gap, swap),
         NEW j \in 1..n, NEW row, row[j] \in Nat,
         NEW S, S = CellChoices(row, j, prev, prev2, cost, turns, gap, swap)
  PROVE  /\ S \subseteq Nat /\ Least(S) \in S /\ Least(S) \in Nat
         /\ \A y \in S : Least(S) <= y
<1>1. /\ j \in Nat /\ prev[j] \in Nat /\ prev[j + 1] \in Nat /\ cost[j] \in Nat
      /\ gap \in Nat /\ swap \in Nat /\ (j \in turns => prev2[j - 1] \in Nat)
  <2>1. /\ n \in Nat /\ gap \in Nat /\ swap \in Nat /\ turns \subseteq 2..n
        /\ prev \in Seq(Nat) /\ Len(prev) = n + 1 /\ prev2 \in Seq(Nat) /\ Len(prev2) = n + 1
        /\ cost \in [1..n -> Nat]
    BY DEF RowGiven
  <2>2. j \in Nat /\ j \in 1..(n + 1) /\ j + 1 \in 1..(n + 1)
    BY <2>1
  <2>3. j \in turns => j - 1 \in 1..(n + 1)
    <3>1. j \in turns => j \in 2..n
      BY ONLY <2>1
    <3> QED
      BY ONLY <2>1, <3>1
  <2>4. prev[j] \in Nat /\ prev[j + 1] \in Nat
    <3>1. prev \in Seq(Nat) /\ Len(prev) = n + 1
      BY <2>1
    <3> QED
      BY ONLY <2>2, <3>1
  <2>5. j \in turns => prev2[j - 1] \in Nat
    <3>1. prev2 \in Seq(Nat) /\ Len(prev2) = n + 1
      BY <2>1
    <3> QED
      BY ONLY <2>3, <3>1
  <2>6. cost[j] \in Nat
    BY <2>1
  <2> QED
    BY ONLY <2>1, <2>2, <2>4, <2>5, <2>6
<1>2. S \subseteq Nat
  <2> DEFINE a == prev[j] + cost[j]
             b == prev[j + 1] + gap
             c == row[j] + gap
             d == prev2[j - 1] + swap
  <2>1. a \in Nat /\ b \in Nat /\ c \in Nat /\ (j \in turns => d \in Nat)
    BY <1>1
  <2>2. S = {a, b, c} \cup (IF j \in turns THEN {d} ELSE {})
    BY DEF CellChoices
  <2> HIDE DEF a, b, c, d
  <2> QED
    BY ONLY <2>1, <2>2
<1>3. row[j] + gap \in S
  BY DEF CellChoices
<1> QED
  BY ONLY <1>2, <1>3, LeastIs

\* The last of them is the row.
LEMMA CellsAreRow ==
  ASSUME NEW n, NEW base, NEW prev, NEW prev2, NEW cost, NEW turns, NEW gap, NEW swap,
         RowGiven(n, base, prev, prev2, cost, turns, gap, swap),
         NEW f, CellsTo(f, n, base, prev, prev2, cost, turns, gap, swap)
  PROVE  RowIs(f[n], n, base, prev, prev2, cost, turns, gap, swap)
<1> DEFINE C(row, j) == CellChoices(row, j, prev, prev2, cost, turns, gap, swap)
           Good(m) == /\ f[m] \in Seq(Nat) /\ Len(f[m]) = m + 1 /\ f[m][1] = base
                      /\ \A j \in 1..m : f[m][j + 1] = Least(C(f[m], j))
           T == {m \in Nat : m <= n => Good(m)}
<1>1. n \in Nat /\ base \in Nat
  BY DEF RowGiven
<1>2. f[0] = <<base>> /\ \A j \in 1..n : f[j] = Append(f[j - 1], Least(C(f[j - 1], j)))
  <2>1. f = [j \in 0..n |-> IF j = 0 THEN <<base>> ELSE Append(f[j - 1], Least(C(f[j - 1], j)))]
    BY DEF CellsTo
  <2>2. 0 \in 0..n /\ \A j \in 1..n : j \in 0..n /\ j # 0
    BY <1>1
  <2> HIDE DEF C
  <2> QED
    BY ONLY <2>1, <2>2
<1>3. 0 \in T
  <2>1. f[0] \in Seq(Nat) /\ Len(f[0]) = 0 + 1 /\ f[0][1] = base /\ 1..0 = {}
    BY <1>1, <1>2
  <2> QED
    BY <2>1
<1>4. ASSUME NEW m \in T, m + 1 <= n PROVE Good(m + 1)
  <2> DEFINE r == f[m]
             e == Least(C(r, m + 1))
             s == f[m + 1]
  <2>1. m \in Nat /\ m + 1 \in 1..n /\ Good(m)
    BY <1>1, <1>4
  <2>2. s = Append(r, e)
    <3>1. (m + 1) - 1 = m
      BY <2>1
    <3> QED
      BY <1>2, <2>1, <3>1
  <2>3. r \in Seq(Nat) /\ Len(r) = m + 1
    BY <2>1
  <2>4. e \in Nat
    <3>1. r[m + 1] \in Nat
      BY <2>1, <2>3
    <3> HIDE DEF r
    <3> QED
      BY <2>1, <3>1, ChoicesAre
  <2>5. \A j \in 1..m : r[j + 1] = Least(C(r, j))
    BY <2>1
  <2>6. r[1] = base
    BY <2>1
  <2> HIDE DEF r, s, e
  <2>7. s \in Seq(Nat) /\ Len(s) = m + 2 /\ (\A j \in 1..(m + 1) : s[j] = r[j]) /\ s[m + 2] = e
    BY ONLY <2>1, <2>2, <2>3, <2>4
  <2>8. \A j \in 1..(m + 1) : C(s, j) = C(r, j)
    BY <2>7 DEF CellChoices
  <2>9. \A j \in 1..(m + 1) : s[j + 1] = Least(C(s, j))
    <3> SUFFICES ASSUME NEW j \in 1..(m + 1) PROVE s[j + 1] = Least(C(s, j))
      OBVIOUS
    <3> HIDE DEF C
    <3>1. CASE j = m + 1
      <4>1. j + 1 = m + 2
        BY <2>1, <3>1
      <4> QED
        BY <2>7, <2>8, <3>1, <4>1 DEF e
    <3>2. CASE j # m + 1
      <4>1. j \in 1..m /\ j + 1 \in 1..(m + 1)
        BY <2>1, <3>2
      <4>2. s[j + 1] = r[j + 1]
        BY ONLY <2>7, <4>1
      <4> QED
        BY <2>5, <2>8, <4>1, <4>2
    <3> QED
      BY <3>1, <3>2
  <2>10. s[1] = base /\ m + 2 = (m + 1) + 1
    BY <2>1, <2>6, <2>7
  <2> HIDE DEF C
  <2> QED
    BY ONLY <2>7, <2>9, <2>10 DEF s
<1>5. \A m \in T \cap Nat : m + 1 \in T
  <2> HIDE DEF Good
  <2> QED BY <1>4
<1>6. Nat \subseteq T
  <2> HIDE DEF T
  <2> QED BY <1>3, <1>5, Induction
<1>7. Good(n)
  BY <1>1, <1>6
<1> QED
  BY <1>7 DEF RowIs
\* There is one row for what it is made from.
LEMMA OneRow ==
  ASSUME NEW n, NEW base, NEW prev, NEW prev2, NEW cost, NEW turns, NEW gap, NEW swap, n \in Nat,
         NEW r, RowIs(r, n, base, prev, prev2, cost, turns, gap, swap),
         NEW s, RowIs(s, n, base, prev, prev2, cost, turns, gap, swap)
  PROVE  r = s
<1> DEFINE C(row, j) == CellChoices(row, j, prev, prev2, cost, turns, gap, swap)
           T == {j \in Nat : j <= n => r[j + 1] = s[j + 1]}
<1>1. /\ r \in Seq(Nat) /\ Len(r) = n + 1 /\ r[1] = base
      /\ \A j \in 1..n : r[j + 1] = Least(C(r, j))
      /\ s \in Seq(Nat) /\ Len(s) = n + 1 /\ s[1] = base
      /\ \A j \in 1..n : s[j + 1] = Least(C(s, j))
  BY DEF RowIs
<1>2. 0 \in T
  BY <1>1
<1>3. ASSUME NEW j \in T, j + 1 <= n PROVE r[(j + 1) + 1] = s[(j + 1) + 1]
  <2>1. j \in Nat /\ j + 1 \in 1..n /\ r[j + 1] = s[j + 1]
    BY <1>3
  <2>2. C(r, j + 1) = C(s, j + 1)
    BY <2>1 DEF CellChoices
  <2> HIDE DEF C
  <2> QED
    BY <1>1, <2>1, <2>2
<1>4. \A j \in T \cap Nat : j + 1 \in T
  BY <1>3
<1>5. Nat \subseteq T
  <2> HIDE DEF T
  <2> QED BY <1>2, <1>4, Induction
<1>6. \A j \in 1..(n + 1) : r[j] = s[j]
  <2> SUFFICES ASSUME NEW j \in 1..(n + 1) PROVE r[j] = s[j]
    OBVIOUS
  <2>1. j - 1 \in T /\ j - 1 <= n /\ (j - 1) + 1 = j
    BY <1>5
  <2> QED
    BY <2>1
<1> HIDE DEF C, T
<1>7. r = [j \in 1..(n + 1) |-> r[j]] /\ s = [j \in 1..(n + 1) |-> s[j]]
  <2>1. r \in Seq(Nat) /\ Len(r) = n + 1 /\ s \in Seq(Nat) /\ Len(s) = n + 1
    BY <1>1
  <2> QED
    BY ONLY <2>1
<1> QED
  BY ONLY <1>6, <1>7

(***************************************************************************)
(* The rows of unit cost.  Row d is about the letters path[d], path[d - 1]. *)
(***************************************************************************)
UnitCosts(c, w) == [j \in 1..Len(w) |-> UnitCost(c, w[j])]

UnitTurns(d, c, p, w) == {j \in 2..Len(w) : d >= 2 /\ c = w[j - 1] /\ p = w[j]}

UnitRow(row, d, c, p, prev, prev2, w) ==
  RowIs(row, Len(w), d, prev, prev2, UnitCosts(c, w), UnitTurns(d, c, p, w), 1, 1)

RowOf(row, w) == row \in Seq(Nat) /\ Len(row) = Len(w) + 1

\* What is needed for a row of unit cost.
LEMMA UnitGiven ==
  ASSUME NEW w \in Seq(Nat), NEW d \in Nat, NEW c, NEW p,
         NEW prev, RowOf(prev, w), NEW prev2, RowOf(prev2, w)
  PROVE  RowGiven(Len(w), d, prev, prev2, UnitCosts(c, w), UnitTurns(d, c, p, w), 1, 1)
<1>1. Len(w) \in Nat
  OBVIOUS
<1>2. UnitCosts(c, w) \in [1..Len(w) -> Nat]
  BY DEF UnitCosts, UnitCost
<1>3. UnitTurns(d, c, p, w) \subseteq 2..Len(w)
  BY DEF UnitTurns
<1>4. 1 \in Nat
  OBVIOUS
<1> QED
  BY ONLY <1>1, <1>2, <1>3, <1>4, d \in Nat, RowOf(prev, w), RowOf(prev2, w) DEF RowOf, RowGiven

\* fuzzy_terminals fills such a row.
LEMMA NextRowIs ==
  ASSUME NEW w \in Seq(Nat), NEW d \in Nat, NEW c, NEW p,
         NEW prev, RowOf(prev, w), NEW prev2, RowOf(prev2, w),
         NEW row, row = NextRow(d, c, p, prev, prev2, w, UnitCost, 1, 1)
  PROVE  UnitRow(row, d, c, p, prev, prev2, w) /\ RowOf(row, w)
<1> DEFINE n == Len(w)
           cost == UnitCosts(c, w)
           turns == UnitTurns(d, c, p, w)
           Choices(r, j) == {prev[j] + UnitCost(c, w[j]), prev[j + 1] + 1, r[j] + 1}
                              \cup (IF d >= 2 /\ j >= 2 /\ c = w[j - 1] /\ p = w[j]
                                    THEN {prev2[j - 1] + 1} ELSE {})
           cells == CHOOSE f : f = [j \in 0..n |->
                      IF j = 0 THEN <<d * 1>> ELSE Append(f[j - 1], Least(Choices(f[j - 1], j)))]
<1>1. row = cells[n]
  BY DEF NextRow
<1>2. n \in Nat
  OBVIOUS
<1>3. \A j \in 1..n : \A r : Choices(r, j) = CellChoices(r, j, prev, prev2, cost, turns, 1, 1)
  <2> SUFFICES ASSUME NEW j \in 1..n, NEW r
               PROVE  Choices(r, j) = CellChoices(r, j, prev, prev2, cost, turns, 1, 1)
    OBVIOUS
  <2>1. cost[j] = UnitCost(c, w[j])
    BY DEF UnitCosts
  <2>2. j \in turns <=> d >= 2 /\ j >= 2 /\ c = w[j - 1] /\ p = w[j]
    BY DEF UnitTurns
  <2> HIDE DEF cost, turns
  <2> QED
    BY <2>1, <2>2 DEF CellChoices
<1>4. d * 1 = d
  OBVIOUS
<1>5. RowGiven(n, d, prev, prev2, cost, turns, 1, 1)
  BY UnitGiven
<1> HIDE DEF Choices, n
<1>6. \A f : (f = [j \in 0..n |-> IF j = 0 THEN <<d * 1>> ELSE Append(f[j - 1], Least(Choices(f[j - 1], j)))])
             <=> CellsTo(f, n, d, prev, prev2, cost, turns, 1, 1)
  <2> SUFFICES ASSUME NEW f
               PROVE (f = [j \in 0..n |-> IF j = 0 THEN <<d * 1>> ELSE Append(f[j - 1], Least(Choices(f[j - 1], j)))])
                      <=> CellsTo(f, n, d, prev, prev2, cost, turns, 1, 1)
    OBVIOUS
  <2> DEFINE C(r, j) == CellChoices(r, j, prev, prev2, cost, turns, 1, 1)
  <2> HIDE DEF C, cost, turns
  <2>1. \A j \in 1..n : \A r : Choices(r, j) = C(r, j)
    BY <1>3 DEF C
  <2>2. [j \in 0..n |-> IF j = 0 THEN <<d * 1>> ELSE Append(f[j - 1], Least(Choices(f[j - 1], j)))]
          = [j \in 0..n |-> IF j = 0 THEN <<d>> ELSE Append(f[j - 1], Least(C(f[j - 1], j)))]
    <3>1. ASSUME NEW j \in 0..n
          PROVE  (IF j = 0 THEN <<d * 1>> ELSE Append(f[j - 1], Least(Choices(f[j - 1], j))))
                   = (IF j = 0 THEN <<d>> ELSE Append(f[j - 1], Least(C(f[j - 1], j))))
      <4>1. j # 0 => j \in 1..n
        BY <1>2
      <4> QED
        BY <1>4, <2>1, <4>1
    <3> QED
      BY ONLY <3>1
  <2> QED
    BY ONLY <2>2 DEF CellsTo, C
<1>7. PICK f : CellsTo(f, n, d, prev, prev2, cost, turns, 1, 1)
  BY <1>2, CellsExist
<1>8. CellsTo(cells, n, d, prev, prev2, cost, turns, 1, 1)
  <2> HIDE DEF cost, turns
  <2> QED
    BY ONLY <1>6, <1>7 DEF cells
<1> HIDE DEF cells, cost, turns
<1>9. RowIs(row, n, d, prev, prev2, cost, turns, 1, 1)
  BY ONLY <1>1, <1>5, <1>8, CellsAreRow
<1> QED
  BY ONLY <1>9 DEF UnitRow, RowOf, RowIs, n, cost, turns
(***************************************************************************)
(* The table of a path and a word: one row for each of the first m letters *)
(* of the path.                                                            *)
(***************************************************************************)
Back(d) == IF d = 1 THEN 1 ELSE d - 1

TableIs(R, path, m, w) ==
  /\ R \in Seq(Seq(Nat)) /\ Len(R) = m + 1
  /\ \A d \in 1..(m + 1) : RowOf(R[d], w)
  /\ R[1] = FirstRow(Len(w), 1)
  /\ \A d \in 1..m : UnitRow(R[d + 1], d, path[d], path[Back(d)], R[d], R[Back(d)], w)

\* The first row is a row.
LEMMA FirstRowIs ==
  ASSUME NEW w \in Seq(Nat), NEW row, row = FirstRow(Len(w), 1)
  PROVE  RowOf(row, w) /\ \A j \in 1..(Len(w) + 1) : row[j] = j - 1
<1> DEFINE n == Len(w)
<1>1. n \in Nat
  OBVIOUS
<1> HIDE DEF n
<1>2. row = [j \in 1..(n + 1) |-> (j - 1) * 1]
  BY DEF FirstRow, n
<1>3. \A j \in 1..(n + 1) : row[j] = j - 1 /\ row[j] \in Nat
  BY ONLY <1>1, <1>2
<1>4. row = [j \in 1..(n + 1) |-> row[j]]
  BY ONLY <1>2
<1>5. row \in Seq(Nat) /\ Len(row) = n + 1
  <2> DEFINE k == n + 1
  <2>1. \A j \in 1..k : row[j] \in Nat
    BY ONLY <1>3
  <2>2. k \in Nat /\ row = [j \in 1..k |-> row[j]]
    BY ONLY <1>1, <1>4
  <2> HIDE DEF k
  <2>3. row \in Seq(Nat) /\ Len(row) = k
    BY ONLY <2>1, <2>2, Sequenced
  <2> QED
    BY ONLY <2>3 DEF k
<1> QED
  BY ONLY <1>3, <1>5 DEF RowOf, n

\* In the first row below the first the letter before does not matter.
LEMMA FirstTurns ==
  ASSUME NEW w, NEW c, NEW p, NEW q
  PROVE  UnitTurns(1, c, p, w) = UnitTurns(1, c, q, w)
BY DEF UnitTurns

\* A table cut back to row d goes on with another letter.
LEMMA TableGrows ==
  ASSUME NEW w \in Seq(Nat), NEW m \in Nat, NEW R, NEW P, TableIs(R, P, m, w),
         NEW d \in 1..(m + 1), NEW Q, \A i \in 1..(d - 1) : Q[i] = P[i],
         NEW row, row = NextRow(d, Q[d], P[Back(d)], R[d], R[Back(d)], w, UnitCost, 1, 1),
         NEW U, U = Append(SubSeq(R, 1, d), row)
  PROVE  TableIs(U, Q, d, w) /\ U[d + 1] = row
<1> DEFINE D == Seq(Nat)
<1>1. R \in Seq(D) /\ Len(R) = m + 1
  BY DEF TableIs
<1>2. d \in Nat /\ d <= m + 1 /\ Back(d) \in 1..d
  BY DEF Back
<1>3. RowOf(R[d], w) /\ RowOf(R[Back(d)], w)
  BY <1>2 DEF TableIs
<1>4. UnitRow(row, d, Q[d], P[Back(d)], R[d], R[Back(d)], w) /\ RowOf(row, w)
  BY <1>2, <1>3, NextRowIs
<1>5. UnitRow(row, d, Q[d], Q[Back(d)], R[d], R[Back(d)], w)
  <2>1. UnitTurns(d, Q[d], P[Back(d)], w) = UnitTurns(d, Q[d], Q[Back(d)], w)
    <3>1. CASE d = 1
      BY <3>1, FirstTurns
    <3>2. CASE d # 1
      <4>1. Back(d) \in 1..(d - 1)
        BY <1>2, <3>2 DEF Back
      <4> QED
        BY <4>1
    <3> QED
      BY <3>1, <3>2
  <2> QED
    BY <1>4, <2>1 DEF UnitRow
<1>6. row \in D
  BY <1>4 DEF RowOf
<1> HIDE DEF D
<1> DEFINE H == SubSeq(R, 1, d)
<1>7. H \in Seq(D) /\ Len(H) = d /\ \A i \in 1..d : H[i] = R[i]
  <2>1. d <= Len(R)
    BY <1>1, <1>2
  <2> QED
    BY ONLY <1>1, <1>2, <2>1, HeadIs
<1> HIDE DEF H
<1>8. U \in Seq(D) /\ Len(U) = d + 1 /\ (\A i \in 1..d : U[i] = H[i]) /\ U[d + 1] = row
  <2>1. U = Append(H, row)
    BY DEF H
  <2> QED
    BY ONLY <1>2, <1>6, <1>7, <2>1
<1>9. \A i \in 1..d : U[i] = R[i]
  BY ONLY <1>7, <1>8
<1>10. \A i \in 1..(d + 1) : RowOf(U[i], w)
  <2> SUFFICES ASSUME NEW i \in 1..(d + 1) PROVE RowOf(U[i], w)
    OBVIOUS
  <2>1. i \in 1..d => i \in 1..(m + 1)
    BY <1>2
  <2>2. i \in 1..d \/ i = d + 1
    BY <1>2
  <2> QED
    BY <1>4, <1>8, <1>9, <2>1, <2>2 DEF TableIs
<1>11. U[1] = FirstRow(Len(w), 1)
  BY <1>2, <1>9 DEF TableIs
<1>12. \A i \in 1..d : UnitRow(U[i + 1], i, Q[i], Q[Back(i)], U[i], U[Back(i)], w)
  <2> SUFFICES ASSUME NEW i \in 1..d PROVE UnitRow(U[i + 1], i, Q[i], Q[Back(i)], U[i], U[Back(i)], w)
    OBVIOUS
  <2>1. Back(i) \in 1..i /\ i \in Nat
    BY <1>2 DEF Back
  <2>2. U[i] = R[i] /\ U[Back(i)] = R[Back(i)]
    BY <1>9, <1>2, <2>1
  <2>3. CASE i = d
    BY <1>5, <1>8, <2>2, <2>3
  <2>4. CASE i # d
    <3>1. i \in 1..(d - 1) /\ i + 1 \in 1..d /\ Back(i) \in 1..(d - 1) /\ i \in 1..m
      BY <1>2, <2>1, <2>4
    <3>2. U[i + 1] = R[i + 1] /\ Q[i] = P[i] /\ Q[Back(i)] = P[Back(i)]
      BY <1>9, <3>1
    <3> QED
      BY <2>2, <3>1, <3>2 DEF TableIs
  <2> QED
    BY <2>3, <2>4
<1> QED
  BY ONLY <1>8, <1>10, <1>11, <1>12 DEF TableIs, D

AgreeTo(R, S, n) == \A i \in 1..n : R[i] = S[i]

\* Two tables agree as far as their paths do.
LEMMA TablesAgree ==
  ASSUME NEW w \in Seq(Nat), NEW m \in Nat, NEW R, NEW P, TableIs(R, P, m, w),
         NEW k \in Nat, NEW S, NEW Q, TableIs(S, Q, k, w),
         NEW e \in Nat, e <= m, e <= k, AgreeTo(P, Q, e)
  PROVE  AgreeTo(R, S, e + 1)
<1> DEFINE T == {i \in Nat : i <= e => AgreeTo(R, S, i + 1)}
<1>1. 0 \in T
  <2>1. R[1] = S[1] /\ \A h \in 1..(0 + 1) : h = 1
    BY DEF TableIs
  <2> QED
    BY <2>1 DEF AgreeTo
<1>2. ASSUME NEW i \in T, i + 1 <= e PROVE AgreeTo(R, S, (i + 1) + 1)
  <2>1. i \in Nat /\ \A l \in 1..(i + 1) : R[l] = S[l]
    BY <1>2 DEF AgreeTo
  <2> DEFINE d == i + 1
  <2>2. d \in 1..m /\ d \in 1..k /\ d \in 1..e /\ Back(d) \in 1..d
    BY <1>2, <2>1 DEF Back
  <2>3. R[d] = S[d] /\ R[Back(d)] = S[Back(d)] /\ P[d] = Q[d] /\ P[Back(d)] = Q[Back(d)]
    <3>1. Back(d) \in 1..e
      BY <2>2
    <3> QED
      BY <2>1, <2>2, <3>1 DEF AgreeTo
  <2>4. /\ UnitRow(R[d + 1], d, P[d], P[Back(d)], R[d], R[Back(d)], w)
        /\ UnitRow(S[d + 1], d, P[d], P[Back(d)], R[d], R[Back(d)], w)
    BY <2>2, <2>3 DEF TableIs
  <2>5. R[d + 1] = S[d + 1]
    <3>1. Len(w) \in Nat
      OBVIOUS
    <3> HIDE DEF d
    <3> QED
      BY ONLY <2>4, <3>1, OneRow DEF UnitRow
  <2>6. \A h \in 1..((i + 1) + 1) : h \in 1..(i + 1) \/ h = d + 1
    BY <2>1
  <2> HIDE DEF d
  <2> QED
    BY ONLY <2>1, <2>5, <2>6 DEF AgreeTo
<1>3. \A i \in T \cap Nat : i + 1 \in T
  BY <1>2
<1>4. Nat \subseteq T
  <2> HIDE DEF T
  <2> QED BY <1>1, <1>3, Induction
<1>5. e \in T
  BY <1>4
<1> QED
  BY <1>5

Lengthened(done, i, v, w) ==
  LET j == IF i = 1 THEN 1 ELSE i - 1
  IN  Append(done, NextRow(i, v[i], v[j], done[i], done[j], w, UnitCost, 1, 1))

TablesTo(f, m, v, w) ==
  f = [i \in 0..m |-> IF i = 0 THEN <<FirstRow(Len(w), 1)>> ELSE Lengthened(f[i - 1], i, v, w)]

\* The tables of the beginnings of a word.
LEMMA TablesExist ==
  ASSUME NEW n \in Nat, NEW v, NEW w
  PROVE  \E f : TablesTo(f, n, v, w)
<1> DEFINE T == {m \in Nat : \E f : TablesTo(f, m, v, w)}
           start == <<FirstRow(Len(w), 1)>>
<1>1. 0 \in T
  <2> DEFINE f == [k \in 0..0 |-> start]
  <2>1. TablesTo(f, 0, v, w)
    BY DEF TablesTo
  <2> QED
    BY <2>1
<1>2. ASSUME NEW m \in T PROVE \E f : TablesTo(f, m + 1, v, w)
  <2>1. PICK f : TablesTo(f, m, v, w)
    BY <1>2
  <2> DEFINE h == [k \in 0..(m + 1) |-> IF k = m + 1 THEN Lengthened(f[m], m + 1, v, w) ELSE f[k]]
  <2>2. m \in Nat
    BY <1>2
  <2>4. ASSUME NEW k \in 0..(m + 1)
        PROVE  h[k] = IF k = 0 THEN start ELSE Lengthened(h[k - 1], k, v, w)
    <3> HIDE DEF start
    <3>1. CASE k = m + 1
      <4>1. k - 1 = m /\ m \in 0..(m + 1) /\ m # m + 1 /\ k # 0
        BY <2>2, <3>1
      <4>2. h[k] = Lengthened(f[m], k, v, w) /\ h[m] = f[m]
        BY <3>1, <4>1
      <4> QED
        BY <4>1, <4>2
    <3>2. CASE k # m + 1
      <4>1. k \in 0..m /\ (k # 0 => k - 1 \in 0..m)
        BY <2>2, <3>2
      <4>2. f[k] = IF k = 0 THEN start ELSE Lengthened(f[k - 1], k, v, w)
        BY <2>1, <4>1 DEF TablesTo, start
      <4>3. h[k] = f[k] /\ (k # 0 => h[k - 1] = f[k - 1])
        BY <2>2, <3>2, <4>1
      <4> QED
        BY <4>2, <4>3
    <3> QED
      BY <3>1, <3>2
  <2>5. TablesTo(h, m + 1, v, w)
    <3>1. h = [k \in 0..(m + 1) |-> h[k]]
      OBVIOUS
    <3> HIDE DEF h
    <3> QED
      BY <2>4, <3>1 DEF TablesTo
  <2> HIDE DEF h
  <2> QED
    BY <2>5
<1>3. \A m \in T \cap Nat : m + 1 \in T
  BY <1>2
<1>4. Nat \subseteq T
  <2> HIDE DEF T
  <2> QED BY <1>1, <1>3, Induction
<1> QED
  BY <1>4

\* The distance of two words is the last cell of their table.
LEMMA UnitDistanceIs ==
  ASSUME NEW v \in Seq(Nat), NEW w \in Seq(Nat)
  PROVE  \E S : /\ TableIs(S, v, Len(v), w)
                /\ UnitDistance(v, w) = S[Len(v) + 1][Len(w) + 1]
<1> DEFINE n == Len(v)
           F == CHOOSE f : f = [i \in 0..n |->
                  IF i = 0 THEN <<FirstRow(Len(w), 1)>> ELSE Lengthened(f[i - 1], i, v, w)]
<1>1. UnitDistance(v, w) = F[n][n + 1][Len(w) + 1]
  BY DEF UnitDistance, Lengthened
<1>2. n \in Nat
  OBVIOUS
<1> HIDE DEF n
<1>3. TablesTo(F, n, v, w)
  <2>1. PICK f : TablesTo(f, n, v, w)
    BY <1>2, TablesExist
  <2>2. f = [i \in 0..n |-> IF i = 0 THEN <<FirstRow(Len(w), 1)>> ELSE Lengthened(f[i - 1], i, v, w)]
    BY ONLY <2>1 DEF TablesTo
  <2>3. F = [i \in 0..n |-> IF i = 0 THEN <<FirstRow(Len(w), 1)>> ELSE Lengthened(F[i - 1], i, v, w)]
    BY ONLY <2>2 DEF F
  <2> QED
    BY ONLY <2>3 DEF TablesTo
<1> HIDE DEF F
<1>4. F[0] = <<FirstRow(Len(w), 1)>> /\ \A i \in 1..n : F[i] = Lengthened(F[i - 1], i, v, w)
  <2>1. 0 \in 0..n /\ \A i \in 1..n : i \in 0..n /\ i # 0
    BY <1>2
  <2> QED
    BY ONLY <1>3, <2>1 DEF TablesTo
<1> DEFINE T == {i \in Nat : i <= n => TableIs(F[i], v, i, w)}
<1>5. 0 \in T
  <2> DEFINE r == FirstRow(Len(w), 1)
             s == F[0]
  <2>1. RowOf(r, w)
    BY FirstRowIs
  <2>2. r \in Seq(Nat)
    BY <2>1 DEF RowOf
  <2>3. s = <<r>>
    BY <1>4
  <2> HIDE DEF r, s
  <2>4. s \in Seq(Seq(Nat)) /\ Len(s) = 0 + 1 /\ s[1] = r
    BY <2>2, <2>3
  <2>5. /\ \A d \in 1..(0 + 1) : d = 1
        /\ \A d \in 1..0 : FALSE
    OBVIOUS
  <2>6. TableIs(s, v, 0, w)
    BY ONLY <2>1, <2>4, <2>5 DEF TableIs, r
  <2> QED
    BY <2>6 DEF s
<1>6. ASSUME NEW i \in T, i + 1 <= n PROVE TableIs(F[i + 1], v, i + 1, w)
  <2> DEFINE R == F[i]
             d == i + 1
             row == NextRow(d, v[d], v[Back(d)], R[d], R[Back(d)], w, UnitCost, 1, 1)
             U == F[i + 1]
  <2>1. i \in Nat /\ TableIs(R, v, i, w) /\ d \in 1..n /\ d \in 1..(i + 1) /\ d - 1 = i
    BY <1>2, <1>6
  <2>2. U = Append(R, row)
    BY <1>4, <2>1 DEF Lengthened, Back
  <2>3. R \in Seq(Seq(Nat)) /\ Len(R) = d
    BY <2>1 DEF TableIs
  <2> DEFINE D == Seq(Nat)
  <2>4. R = SubSeq(R, 1, d)
    <3>1. R \in Seq(D) /\ Len(R) = d /\ d \in Nat
      BY <2>1, <2>3
    <3> HIDE DEF R, d, D
    <3> QED
      BY ONLY <3>1
  <2> HIDE DEF R, U, row
  <2>5. U = Append(SubSeq(R, 1, d), row)
    BY ONLY <2>2, <2>4
  <2>6. row = NextRow(d, v[d], v[Back(d)], R[d], R[Back(d)], w, UnitCost, 1, 1)
    BY DEF row
  <2> HIDE DEF d
  <2>7. \A l \in 1..(d - 1) : v[l] = v[l]
    OBVIOUS
  <2>8. TableIs(U, v, d, w)
    <3>1. i \in Nat /\ TableIs(R, v, i, w) /\ d \in 1..(i + 1)
      BY ONLY <2>1
    <3> QED
      BY ONLY <2>5, <2>6, <2>7, <3>1, w \in Seq(Nat), TableGrows, ZenonT(60)
  <2> QED
    BY <2>8 DEF U, d
<1>7. \A i \in T \cap Nat : i + 1 \in T
  BY <1>6
<1>8. Nat \subseteq T
  <2> HIDE DEF T
  <2> QED BY <1>5, <1>7, Induction
<1>9. TableIs(F[n], v, n, w)
  BY <1>2, <1>8
<1> QED
  BY <1>1, <1>9 DEF n
(***************************************************************************)
(* The pruning: when all the cells of a row are over the limit, all the    *)
(* cells of the next row are.  A transposition reaches back two rows, but  *)
(* the cell it starts from is at most one less than one of the last row.   *)
(***************************************************************************)
AllOver(row, limit) == \A j \in DOMAIN row : row[j] > limit

\* A cell is at most one more than the cell before it in the row before.
LEMMA DiagonalStep ==
  ASSUME NEW w \in Seq(Nat), NEW d \in Nat, NEW c, NEW p, NEW prev, RowOf(prev, w),
         NEW prev2, RowOf(prev2, w), NEW row, RowOf(row, w), UnitRow(row, d, c, p, prev, prev2, w),
         NEW j \in 1..Len(w)
  PROVE  row[j + 1] <= prev[j] + 1 /\ row[j + 1] \in Nat /\ prev[j] \in Nat
<1> DEFINE n == Len(w)
           cost == UnitCosts(c, w)
           turns == UnitTurns(d, c, p, w)
           C == CellChoices(row, j, prev, prev2, cost, turns, 1, 1)
<1>1. /\ n \in Nat /\ row \in Seq(Nat) /\ Len(row) = n + 1
      /\ prev \in Seq(Nat) /\ Len(prev) = n + 1
  BY DEF RowOf
<1>2. row[j + 1] = Least(C)
  BY DEF UnitRow, RowIs
<1>3. RowGiven(n, d, prev, prev2, cost, turns, 1, 1)
  BY UnitGiven
<1>4. cost[j] \in Nat /\ cost[j] <= 1
  BY DEF UnitCosts, UnitCost
<1>5. prev[j] + cost[j] \in C
  BY DEF CellChoices
<1>6. j \in 1..n
  OBVIOUS
<1> HIDE DEF C, cost, turns, n
<1>7. row[j] \in Nat /\ prev[j] \in Nat
  <2>1. j \in 1..(n + 1)
    BY <1>1, <1>6
  <2> QED
    BY ONLY <1>1, <2>1
<1>8. Least(C) \in Nat /\ \A y \in C : Least(C) <= y
  BY ONLY <1>3, <1>6, <1>7, ChoicesAre DEF C
<1>9. Least(C) <= prev[j] + cost[j]
  BY ONLY <1>5, <1>8
<1> QED
  BY ONLY <1>2, <1>4, <1>7, <1>8, <1>9

\* A row after one that is over the limit is over the limit.
LEMMA OverStays ==
  ASSUME NEW w \in Seq(Nat), NEW m \in Nat, NEW R, NEW P, TableIs(R, P, m, w),
         NEW d \in 1..m, NEW limit \in Nat, AllOver(R[d], limit)
  PROVE  AllOver(R[d + 1], limit)
<1> DEFINE n == Len(w)
           row == R[d + 1]
           prev == R[d]
           prev2 == R[Back(d)]
           cost == UnitCosts(P[d], w)
           turns == UnitTurns(d, P[d], P[Back(d)], w)
           C(j) == CellChoices(row, j, prev, prev2, cost, turns, 1, 1)
<1>1. d \in Nat /\ d \in 1..(m + 1) /\ d + 1 \in 1..(m + 1) /\ Back(d) \in 1..(m + 1) /\ n \in Nat
  BY DEF Back
<1>2. RowOf(row, w) /\ RowOf(prev, w) /\ RowOf(prev2, w)
  BY <1>1 DEF TableIs
<1>3. UnitRow(row, d, P[d], P[Back(d)], prev, prev2, w)
  BY DEF TableIs
<1>4. RowGiven(n, d, prev, prev2, cost, turns, 1, 1)
  BY <1>1, <1>2, UnitGiven
<1>5. row[1] = d /\ \A j \in 1..n : row[j + 1] = Least(C(j))
  BY <1>3 DEF UnitRow, RowIs
<1>6. prev[1] = d - 1
  <2>1. CASE d = 1
    <3>1. prev = FirstRow(Len(w), 1) /\ 1 \in 1..(Len(w) + 1)
      BY <2>1, <1>1 DEF TableIs
    <3> QED
      BY <2>1, <3>1, FirstRowIs
  <2>2. CASE d # 1
    <3> DEFINE e == d - 1
    <3>1. e \in 1..m /\ e + 1 = d
      BY <2>2, <1>1
    <3>2. UnitRow(R[e + 1], e, P[e], P[Back(e)], R[e], R[Back(e)], w)
      BY <3>1 DEF TableIs
    <3> HIDE DEF e
    <3>3. prev[1] = e
      BY <3>1, <3>2 DEF UnitRow, RowIs
    <3> QED
      BY <3>3 DEF e
  <2> QED
    BY <2>1, <2>2
<1>7. ASSUME NEW j \in turns PROVE j \in 2..n /\ prev2[j - 1] \in Nat /\ prev[j] \in Nat /\ prev[j] <= prev2[j - 1] + 1
  <2> DEFINE e == d - 1
             i == j - 1
  <2>1. d >= 2 /\ j \in 2..n
    BY <1>7 DEF UnitTurns
  <2>2. e \in 1..m /\ e + 1 = d /\ Back(d) = e /\ e \in Nat /\ Back(e) \in 1..(m + 1)
    BY <2>1, <1>1 DEF Back
  <2>3. i \in 1..n /\ i + 1 = j
    BY <2>1, <1>1
  <2>4. UnitRow(prev, e, P[e], P[Back(e)], prev2, R[Back(e)], w) /\ RowOf(R[Back(e)], w)
    <3>1. UnitRow(R[e + 1], e, P[e], P[Back(e)], R[e], R[Back(e)], w)
      BY <2>2 DEF TableIs
    <3>2. RowOf(R[Back(e)], w)
      BY <2>2 DEF TableIs
    <3> QED
      BY <2>2, <3>1, <3>2
  <2> HIDE DEF e, i, prev, prev2, row
  <2>5. prev[i + 1] <= prev2[i] + 1 /\ prev[i + 1] \in Nat /\ prev2[i] \in Nat
    BY <1>2, <2>2, <2>3, <2>4, DiagonalStep
  <2> QED
    BY <2>1, <2>3, <2>5 DEF i
<1>8. /\ prev \in Seq(Nat) /\ Len(prev) = n + 1 /\ row \in Seq(Nat) /\ Len(row) = n + 1
      /\ \A j \in 1..(n + 1) : prev[j] > limit
  BY <1>2 DEF RowOf, AllOver
<1>9. \A j \in 1..n : cost[j] \in Nat
  BY <1>4 DEF RowGiven
<1> HIDE DEF prev, prev2, row, cost, turns, n
<1> DEFINE T == {j \in Nat : j <= n => row[j + 1] > limit}
<1>10. 0 \in T
  <2>1. 1 \in 1..(n + 1)
    BY <1>1
  <2>2. prev[1] > limit
    BY <1>8, <2>1
  <2>3. row[1] > limit
    BY ONLY <1>1, <1>5, <1>6, <2>2, limit \in Nat
  <2> QED
    BY <2>3
<1>11. ASSUME NEW i \in T, i + 1 <= n PROVE row[(i + 1) + 1] > limit
  <2> DEFINE j == i + 1
  <2>1. i \in Nat /\ j \in 1..n /\ row[j] > limit /\ j \in 1..(n + 1) /\ j + 1 \in 1..(n + 1)
    BY <1>1, <1>11
  <2> HIDE DEF j
  <2>2. row[j] \in Nat /\ prev[j] \in Nat /\ prev[j + 1] \in Nat
    BY ONLY <1>8, <2>1
  <2>3. prev[j] > limit /\ prev[j + 1] > limit
    BY ONLY <1>8, <2>1
  <2>4. Least(C(j)) \in C(j)
    BY ONLY <1>4, <2>1, <2>2, ChoicesAre
  <2>5. \A y \in C(j) : y > limit
    <3> DEFINE a == prev[j] + cost[j]
               b == prev[j + 1] + 1
               c == row[j] + 1
               e == prev2[j - 1] + 1
    <3>1. a > limit
      BY ONLY <1>9, <2>1, <2>2, <2>3, limit \in Nat
    <3>2. b > limit /\ c > limit
      BY ONLY <2>1, <2>2, <2>3, limit \in Nat
    <3>3. j \in turns => e > limit
      BY ONLY <1>7, <2>3, limit \in Nat
    <3>4. \A y \in C(j) : y = a \/ y = b \/ y = c \/ (j \in turns /\ y = e)
      BY DEF CellChoices
    <3> HIDE DEF a, b, c, e, C
    <3> QED
      BY ONLY <3>1, <3>2, <3>3, <3>4
  <2> HIDE DEF C
  <2>6. row[j + 1] > limit
    BY ONLY <1>5, <2>1, <2>4, <2>5
  <2> QED
    BY <2>6 DEF j
<1>12. \A i \in T \cap Nat : i + 1 \in T
  BY <1>11
<1>13. Nat \subseteq T
  <2> HIDE DEF T
  <2> QED BY <1>10, <1>12, Induction
<1>14. \A j \in 1..(n + 1) : row[j] > limit
  <2> SUFFICES ASSUME NEW j \in 1..(n + 1) PROVE row[j] > limit
    OBVIOUS
  <2>1. j - 1 \in Nat /\ j - 1 <= n /\ (j - 1) + 1 = j
    BY <1>1
  <2>2. j - 1 \in T
    <3> HIDE DEF T
    <3> QED BY ONLY <1>13, <2>1
  <2> QED
    BY <2>1, <2>2
<1>15. DOMAIN row = 1..(n + 1)
  BY ONLY <1>8
<1> QED
  BY <1>14, <1>15 DEF AllOver, row

\* What goes on from a path that was pruned is far.
LEMMA PrunedIsFar ==
  ASSUME NEW w \in Seq(Nat), NEW m \in Nat, NEW R, NEW P, TableIs(R, P, m, w),
         NEW limit \in Nat, AllOver(R[m + 1], limit),
         NEW Q \in Seq(Nat), m <= Len(Q), AgreeTo(P, Q, m)
  PROVE  UnitDistance(Q, w) > limit
<1> DEFINE k == Len(Q)
<1>1. PICK S : TableIs(S, Q, k, w) /\ UnitDistance(Q, w) = S[k + 1][Len(w) + 1]
  BY UnitDistanceIs
<1>2. k \in Nat /\ m <= k
  OBVIOUS
<1> HIDE DEF k
<1>3. S[m + 1] = R[m + 1]
  <2>1. AgreeTo(R, S, m + 1)
    BY <1>1, <1>2, TablesAgree
  <2> QED
    BY <2>1 DEF AgreeTo
<1> DEFINE T == {i \in Nat : m + i <= k => AllOver(S[m + i + 1], limit)}
<1>4. 0 \in T
  BY <1>3
<1>5. ASSUME NEW i \in T, m + (i + 1) <= k PROVE AllOver(S[m + (i + 1) + 1], limit)
  <2> DEFINE d == m + i + 1
  <2>1. d \in 1..k /\ AllOver(S[d], limit) /\ d + 1 = m + (i + 1) + 1
    BY <1>2, <1>5
  <2> HIDE DEF d
  <2>2. AllOver(S[d + 1], limit)
    BY <1>1, <1>2, <2>1, OverStays
  <2> QED
    BY <2>1, <2>2
<1>6. \A i \in T \cap Nat : i + 1 \in T
  BY <1>5
<1>7. Nat \subseteq T
  <2> HIDE DEF T
  <2> QED BY <1>4, <1>6, Induction
<1>8. AllOver(S[k + 1], limit)
  <2>1. k - m \in Nat /\ m + (k - m) <= k /\ m + (k - m) + 1 = k + 1
    BY <1>2
  <2>2. k - m \in T
    <3> HIDE DEF T
    <3> QED BY ONLY <1>7, <2>1
  <2> QED
    BY <2>1, <2>2
<1>9. Len(w) + 1 \in DOMAIN S[k + 1]
  <2> DEFINE r == S[k + 1]
             n == Len(w)
  <2>1. r \in Seq(Nat) /\ Len(r) = n + 1 /\ n \in Nat
    BY <1>1, <1>2 DEF TableIs, RowOf
  <2> HIDE DEF r, n
  <2>2. n + 1 \in DOMAIN r
    BY ONLY <2>1
  <2> QED
    BY <2>2 DEF r, n
<1> QED
  BY <1>1, <1>8, <1>9 DEF AllOver
(***************************************************************************)
(* The walk of fuzzy_terminals.                                            *)
(***************************************************************************)
\* A node hangs under the path: its own path leaves it at its last letter.
HangsAt(x, path, X, t) ==
  LET p == X[x].path
  IN  Len(p) \in 1..(Len(path) + 1) /\ AgreeTo(p, path, Len(p) - 1) /\ p[Len(p)] = t.label[x]

\* The nodes that wait hang under the path, the deeper ones above.
Hang(z, path, X, t) ==
  /\ path \in Seq(Nat)
  /\ \A i \in 1..Len(z) : HangsAt(z[i], path, X, t)
  /\ \A i, j \in 1..Len(z) : i < j => Len(X[z[i]].path) <= Len(X[z[j]].path)

\* The first m cells of a sequence and one more.
CutAnd(s, m, e) == Append(SubSeq(s, 1, m), e)

\* A path and how it comes from the path of another node.
PathOf(p, path, d, c) ==
  /\ d \in 1..(Len(path) + 1) /\ p \in Seq(Nat) /\ p[d] = c /\ AgreeTo(p, path, d - 1)
  /\ CutAnd(path, d - 1, c) = p

\* The path, cut back to the parent of a node and lengthened by its label, is the node's.
LEMMA PathIs ==
  ASSUME NEW t, NEW X, NEW W, NEW N, Finished(t, X, W, N), NEW x \in 1..N,
         NEW path \in Seq(Nat), HangsAt(x, path, X, t), NEW d, d = Len(X[x].path)
  PROVE  PathOf(X[x].path, path, d, t.label[x])
<1> DEFINE p == X[x].path
           c == t.label[x]
<1>1. p \in Seq(Nat) /\ c \in Nat
  BY FilledIs
<1>2. d \in 1..(Len(path) + 1) /\ p[d] = c /\ AgreeTo(p, path, d - 1) /\ d = Len(p)
  BY DEF HangsAt
<1>3. \A i \in 1..(d - 1) : p[i] = path[i]
  BY <1>2 DEF AgreeTo
<1> HIDE DEF p, c
<1> DEFINE h == SubSeq(path, 1, d - 1)
<1>4. d \in Nat /\ d >= 1 /\ d - 1 \in Nat /\ d - 1 <= Len(path)
  BY ONLY <1>2, path \in Seq(Nat)
<1>5. h \in Seq(Nat) /\ Len(h) = d - 1 /\ \A i \in 1..(d - 1) : h[i] = path[i]
  BY ONLY <1>4, path \in Seq(Nat), HeadIs
<1> HIDE DEF h
<1>6. Append(h, c) \in Seq(Nat) /\ Len(Append(h, c)) = d /\ Append(h, c)[d] = c
      /\ \A i \in 1..(d - 1) : Append(h, c)[i] = h[i]
  BY ONLY <1>1, <1>4, <1>5
<1>7. Append(h, c) = p
  <2>1. \A i \in 1..d : Append(h, c)[i] = p[i]
    <3> SUFFICES ASSUME NEW i \in 1..d PROVE Append(h, c)[i] = p[i]
      OBVIOUS
    <3>1. i = d \/ i \in 1..(d - 1)
      BY ONLY <1>4, i \in 1..d
    <3> QED
      BY ONLY <1>2, <1>3, <1>5, <1>6, <3>1
  <2> DEFINE q == Append(h, c)
  <2>2. q \in Seq(Nat) /\ Len(q) = d /\ \A i \in 1..d : q[i] = p[i]
    BY <1>6, <2>1
  <2> HIDE DEF q
  <2>3. Len(p) = d /\ \A i \in 1..d : q[i] = p[i]
    BY ONLY <1>2, <2>2
  <2>4. q = [i \in 1..d |-> q[i]] /\ p = [i \in 1..d |-> p[i]]
    BY ONLY <1>1, <2>2, <2>3
  <2>5. [i \in 1..d |-> q[i]] = [i \in 1..d |-> p[i]]
    BY ONLY <2>3
  <2> QED
    BY ONLY <2>4, <2>5 DEF q
<1> QED
  BY <1>1, <1>2, <1>7 DEF p, c, h, CutAnd, PathOf

\* What waits after a step hangs under the path of the node taken.
LEMMA HangStill ==
  ASSUME NEW t, NEW X, NEW W, NEW N, Finished(t, X, W, N), NEW z, KeptApart(z, X, N), Len(z) > 0,
         NEW y, Taken(y, z, t), NEW path, Hang(z, path, X, t), NEW x, x = z[Len(z)]
  PROVE  Hang(y, X[x].path, X, t)
<1> DEFINE m == Len(z)
           p == X[x].path
           d == Len(p)
           P(i) == X[y[i]].path
<1>1. m \in Nat /\ m \in 1..m /\ x \in 1..N /\ \A i \in 1..m : z[i] \in 1..N
  BY TopIs
<1>2. /\ d \in 1..(Len(path) + 1) /\ p \in Seq(Nat) /\ p[d] = t.label[x] /\ AgreeTo(p, path, d - 1)
      /\ d \in Nat /\ path \in Seq(Nat)
  <2>1. HangsAt(x, path, X, t) /\ path \in Seq(Nat)
    BY <1>1 DEF Hang
  <2>2. /\ d \in 1..(Len(path) + 1) /\ p \in Seq(Nat) /\ p[d] = t.label[x]
        /\ AgreeTo(p, path, d - 1)
    <3>1. d = Len(X[x].path) /\ x \in 1..N
      BY <1>1
    <3> HIDE DEF d
    <3>2. PathOf(X[x].path, path, d, t.label[x])
      BY ONLY Finished(t, X, W, N), <2>1, <3>1, PathIs
    <3> QED
      BY ONLY <3>2 DEF PathOf
  <2>3. d \in Nat
    BY <2>2
  <2> QED
    BY ONLY <2>1, <2>2, <2>3
<1>3. KeptApart(y, X, N) /\ Len(y) \in Nat
  BY ApartStill DEF KeptApart
<1>4. ASSUME NEW i \in 1..Len(y)
      PROVE  \/ i \in 1..(m - 1) /\ y[i] = z[i]
             \/ i > m - 1 /\ y[i] \in 1..N /\ P(i) = Append(p, t.label[y[i]])
  <2>1. OldOrChild(i, y, z, X, t, N)
    BY TakenIs
  <2> QED
    BY <2>1 DEF OldOrChild
\* Those that waited below the top.
<1>5. ASSUME NEW i \in 1..(m - 1), y[i] = z[i]
      PROVE  HangsAt(y[i], p, X, t) /\ Len(P(i)) <= d /\ Len(P(i)) \in Nat
  <2> DEFINE b == X[z[i]].path
             l == Len(b)
  <2>1. i \in 1..m /\ m \in 1..m /\ i < m
    BY ONLY <1>1, i \in 1..(m - 1)
  <2>2. HangsAt(z[i], path, X, t) /\ l <= d /\ z[i] \in 1..N
    BY <1>1, <2>1 DEF Hang
  <2>3. l \in 1..(Len(path) + 1) /\ b[l] = t.label[z[i]] /\ AgreeTo(b, path, l - 1)
    BY <2>2 DEF HangsAt
  <2> HIDE DEF d, l, b
  <2>4. l \in 1..(d + 1) /\ l \in Nat /\ \A j \in 1..(l - 1) : j \in 1..(d - 1)
    <3>1. Len(path) \in Nat
      BY ONLY <1>2
    <3>2. l \in Nat /\ 1 <= l /\ l <= d /\ d \in Nat
      BY ONLY <1>2, <2>2, <2>3, <3>1
    <3> QED
      BY ONLY <3>2
  <2>5. AgreeTo(b, p, l - 1)
    BY ONLY <1>2, <2>3, <2>4 DEF AgreeTo
  <2> QED
    BY <1>5, <2>2, <2>3, <2>4, <2>5 DEF HangsAt, l, b, d
\* Those that were pushed.
<1>6. ASSUME NEW i \in 1..Len(y), y[i] \in 1..N, P(i) = Append(p, t.label[y[i]])
      PROVE  HangsAt(y[i], p, X, t) /\ Len(P(i)) = d + 1
  <2> DEFINE c == t.label[y[i]]
             b == Append(p, c)
  <2>1. c \in Nat
    BY <1>6, FilledIs
  <2> HIDE DEF c, p
  <2>2. Len(b) = d + 1 /\ b[d + 1] = c /\ \A j \in 1..d : b[j] = p[j]
    BY ONLY <1>2, <2>1
  <2>3. d \in Nat /\ Len(b) - 1 = d /\ Len(b) \in 1..(d + 1)
    BY ONLY <1>2, <2>2
  <2>4. AgreeTo(b, p, Len(b) - 1)
    BY ONLY <2>2, <2>3 DEF AgreeTo
  <2>5. P(i) = b
    BY <1>6 DEF c
  <2> QED
    BY ONLY <2>2, <2>3, <2>4, <2>5 DEF HangsAt, c
<1>7. \A i \in 1..Len(y) : HangsAt(y[i], p, X, t)
  BY <1>4, <1>5, <1>6
<1>8. ASSUME NEW i \in 1..Len(y), NEW j \in 1..Len(y), i < j PROVE Len(P(i)) <= Len(P(j))
  <2>1. CASE i \in 1..(m - 1) /\ y[i] = z[i] /\ j \in 1..(m - 1) /\ y[j] = z[j]
    <3>1. i \in 1..m /\ j \in 1..m
      BY ONLY <1>1, <2>1
    <3>2. Len(X[z[i]].path) <= Len(X[z[j]].path)
      BY <1>8, <3>1 DEF Hang
    <3> QED
      BY <2>1, <3>2
  <2>2. CASE i > m - 1 /\ ~(j > m - 1)
    BY ONLY <1>1, <1>8, <2>2
  <2>3. CASE i \in 1..(m - 1) /\ y[i] = z[i] /\ Len(P(j)) = d + 1
    <3>1. Len(P(i)) <= d /\ Len(P(i)) \in Nat
      BY <1>5, <2>3
    <3> HIDE DEF P, d
    <3> QED BY ONLY <1>2, <2>3, <3>1
  <2>4. CASE Len(P(i)) = d + 1 /\ Len(P(j)) = d + 1
    <3> HIDE DEF P, d
    <3> QED BY ONLY <1>2, <2>4
  <2>5. j \in 1..(m - 1) => ~(j > m - 1)
    BY ONLY <1>1
  <2> QED
    BY <1>4, <1>6, <2>1, <2>2, <2>3, <2>4, <2>5
<1> QED
  BY <1>2, <1>7, <1>8 DEF Hang
\* A word under a node ends there or is under one of its children.
LEMMA UnderTop ==
  ASSUME NEW t, NEW X, NEW W, NEW N, Finished(t, X, W, N), NEW x \in 1..N,
         NEW k \in DOMAIN W, StartsWith(W[k].word, X[x].path)
  PROVE  \/ t.terminal[x] # NoWord /\ t.terminal[x] = k
         \/ \E c \in Children(t, x) : c \in 1..N /\ StartsWith(W[k].word, X[c].path)
<1> DEFINE lo == X[x].lo
           hi == X[x].hi
           s == IF t.terminal[x] = NoWord THEN lo ELSE lo + 1
           a == t.first[x]
           b == a + t.count[x] - 1
<1>1. /\ lo \in Nat /\ hi \in Nat /\ Under(W, X[x].path, lo, hi) /\ Filled(t, X, W, N, x)
      /\ Children(t, x) = a..b
  BY FilledIs
<1>2. k \in lo..(hi - 1)
  BY <1>1 DEF Under
<1>3. CASE k \in s..(hi - 1)
  <2>1. PICK c \in a..b : k \in X[c].lo..(X[c].hi - 1) /\ c \in 1..N
    BY <1>1, <1>3 DEF Filled
  <2>2. Under(W, X[c].path, X[c].lo, X[c].hi)
    BY <2>1, FilledIs
  <2> QED
    BY <1>1, <2>1, <2>2 DEF Under
<1>4. CASE k \notin s..(hi - 1)
  <2>1. t.terminal[x] # NoWord /\ k = lo
    <3> HIDE DEF lo, hi
    <3> QED BY ONLY <1>1, <1>2, <1>4
  <2> QED
    BY <1>1, <2>1 DEF Filled
<1> QED
  BY <1>3, <1>4

\* A distance is a number.
LEMMA DistanceIsNumber ==
  ASSUME NEW v \in Seq(Nat), NEW w \in Seq(Nat)
  PROVE  UnitDistance(v, w) \in Nat
<1> DEFINE n == Len(v)
           m == Len(w) + 1
<1>1. PICK S : TableIs(S, v, n, w) /\ UnitDistance(v, w) = S[n + 1][m]
  BY UnitDistanceIs
<1>2. n \in Nat /\ n + 1 \in 1..(n + 1) /\ m \in 1..m
  OBVIOUS
<1> HIDE DEF n
<1>3. S[n + 1] \in Seq(Nat) /\ Len(S[n + 1]) = m
  BY <1>1, <1>2 DEF TableIs, RowOf
<1> HIDE DEF m
<1> QED
  BY <1>1, <1>2, <1>3

\* The words near to a query.
NearTo(W, w, limit) == {k \in DOMAIN W : UnitDistance(W[k].word, w) <= limit}

\* Near words are found or under a node that waits, and no other is found.
Gathered(found, z, X, W, w, limit) ==
  /\ found \in Seq({W[k].value : k \in NearTo(W, w, limit)})
  /\ \A k \in NearTo(W, w, limit) :
       \/ \E i \in 1..Len(found) : found[i] = W[k].value
       \/ \E i \in 1..Len(z) : StartsWith(W[k].word, X[z[i]].path)

\* The node taken and the words found.
Reporting(u, found, t, x, X, w, limit) ==
  u = IF t.terminal[x] # NoWord /\ UnitDistance(X[x].path, w) <= limit
      THEN Append(found, t.words[t.terminal[x]].value) ELSE found

FarBelow(x, X, W, w, limit) ==
  \A k \in NearTo(W, w, limit) : ~StartsWith(W[k].word, X[x].path)

\* A step finds the word of the node it takes, and loses none.
LEMMA GatheredStill ==
  ASSUME NEW t, NEW X, NEW W, NEW N, Finished(t, X, W, N), NEW z, KeptApart(z, X, N), Len(z) > 0,
         NEW x, x = z[Len(z)], NEW n \in {0, t.count[x]}, NEW y, PushedOn(y, z, t.first[x], n),
         NEW w, NEW limit, NEW found, Gathered(found, z, X, W, w, limit),
         n # t.count[x] => FarBelow(x, X, W, w, limit),
         NEW u, Reporting(u, found, t, x, X, w, limit)
  PROVE  Gathered(u, y, X, W, w, limit)
<1> DEFINE m == Len(z)
           a == t.first[x]
           F == NearTo(W, w, limit)
           D == {W[k].value : k \in F}
           e == t.terminal[x]
<1>1. m \in Nat /\ m \in 1..m /\ x \in 1..N /\ \A i \in 1..m : z[i] \in 1..N
  BY TopIs
<1>2. /\ a \in Nat /\ t.count[x] \in Nat /\ n \in Nat /\ t.words = W
      /\ Children(t, x) = a..(a + t.count[x] - 1)
      /\ e # NoWord => e \in DOMAIN W /\ W[e].word = X[x].path
  <2>1. /\ a \in Nat /\ t.count[x] \in Nat /\ Filled(t, X, W, N, x)
        /\ Children(t, x) = a..(a + t.count[x] - 1)
    BY <1>1, FilledIs
  <2>2. t.words = W
    BY DEF Finished
  <2>3. e # NoWord => e \in DOMAIN W /\ W[e].word = X[x].path
    BY <2>1 DEF Filled
  <2>4. n \in Nat
    BY <2>1
  <2> QED
    BY ONLY <2>1, <2>2, <2>3, <2>4
<1>3. /\ found \in Seq(D)
      /\ \A k \in F : \/ \E i \in 1..Len(found) : found[i] = W[k].value
                      \/ \E i \in 1..m : StartsWith(W[k].word, X[z[i]].path)
  BY DEF Gathered
<1>4. /\ Len(y) = m - 1 + n
      /\ \A i \in 1..(m - 1) : y[i] = z[i]
      /\ \A i \in 1..n : y[m - 1 + i] = a + n - i
  BY DEF PushedOn
<1>5. /\ u \in Seq(D)
      /\ \A k \in F : (\E i \in 1..Len(found) : found[i] = W[k].value)
                        => \E i \in 1..Len(u) : u[i] = W[k].value
      /\ \A k \in F : e # NoWord /\ e = k => \E i \in 1..Len(u) : u[i] = W[k].value
  <2>1. CASE e # NoWord /\ UnitDistance(X[x].path, w) <= limit
    <3> DEFINE c == W[e].value
    <3>1. u = Append(found, c) /\ e \in F
      BY <1>2, <2>1 DEF Reporting, NearTo
    <3>2. c \in D
      BY <3>1
    <3> HIDE DEF c, D
    <3>3. /\ u \in Seq(D) /\ Len(u) = Len(found) + 1 /\ u[Len(u)] = c /\ Len(found) \in Nat
          /\ \A i \in 1..Len(found) : u[i] = found[i]
      BY ONLY <1>3, <3>1, <3>2
    <3>4. Len(u) \in 1..Len(u) /\ \A i \in 1..Len(found) : i \in 1..Len(u)
      BY ONLY <3>3
    <3> QED
      BY ONLY <3>3, <3>4 DEF c
  <2>2. CASE ~(e # NoWord /\ UnitDistance(X[x].path, w) <= limit)
    <3>1. u = found
      BY <2>2 DEF Reporting
    <3>2. ~(e # NoWord /\ e \in F)
      BY <1>2, <2>2 DEF NearTo
    <3> HIDE DEF F, D, e
    <3> QED
      BY ONLY <1>3, <3>1, <3>2
  <2> QED
    BY <2>1, <2>2
<1>6. ASSUME NEW k \in F, NEW i \in 1..m, StartsWith(W[k].word, X[z[i]].path)
      PROVE  \/ e # NoWord /\ e = k
             \/ \E j \in 1..Len(y) : StartsWith(W[k].word, X[y[j]].path)
  <2>1. CASE i # m
    <3>1. i \in 1..(m - 1) /\ i \in 1..Len(y)
      <4> HIDE DEF m
      <4> QED BY ONLY <1>1, <1>2, <1>4, <2>1, i \in 1..m
    <3> QED
      BY <1>4, <1>6, <3>1
  <2>2. CASE i = m
    <3>1. StartsWith(W[k].word, X[x].path) /\ k \in DOMAIN W
      BY <1>6, <2>2 DEF NearTo
    <3>2. n = t.count[x]
      BY <3>1 DEF FarBelow
    <3>3. ASSUME NEW c \in Children(t, x), StartsWith(W[k].word, X[c].path)
          PROVE  \E j \in 1..Len(y) : StartsWith(W[k].word, X[y[j]].path)
      <4> DEFINE l == a + n - c
                 j == m - 1 + l
      <4>1. c \in a..(a + n - 1)
        BY <1>2, <3>2
      <4>2. l \in 1..n /\ a + n - l = c /\ j \in 1..Len(y)
        <5> HIDE DEF m, a
        <5> QED BY ONLY <1>1, <1>2, <1>4, <4>1
      <4>3. y[j] = c
        <5> HIDE DEF l
        <5> QED BY ONLY <1>4, <4>2
      <4> QED
        BY <3>3, <4>2, <4>3
    <3> QED
      BY <1>1, <3>1, <3>3, UnderTop
  <2> QED
    BY <2>1, <2>2
<1> QED
  <2> HIDE DEF F, D, e, m
  <2>1. \A k \in F : \/ \E i \in 1..Len(u) : u[i] = W[k].value
                     \/ \E j \in 1..Len(y) : StartsWith(W[k].word, X[y[j]].path)
    BY ONLY <1>3, <1>5, <1>6
  <2> QED
    BY ONLY <1>5, <2>1 DEF Gathered, F, D
\* The stack of the walk: nodes with their depths.
StackOf(stack, z, X) ==
  stack = [i \in 1..Len(z) |-> [node |-> z[i], depth |-> Len(X[z[i]].path)]]

Below(t, x, depth, n) ==
  [i \in 1..n |-> [node |-> t.first[x] + n - i, depth |-> depth + 1]]

\* The stack after the top was taken and its children, or none, were pushed.
LEMMA StackStill ==
  ASSUME NEW t, NEW X, NEW W, NEW N, Finished(t, X, W, N), NEW z, KeptApart(z, X, N), Len(z) > 0,
         NEW stack, StackOf(stack, z, X), NEW x, x = z[Len(z)],
         NEW n \in {0, t.count[x]}, NEW y, PushedOn(y, z, t.first[x], n)
  PROVE  StackOf(SubSeq(stack, 1, Len(stack) - 1) \o Below(t, x, Len(X[x].path), n), y, X)
<1> DEFINE m == Len(z)
           a == t.first[x]
           d == Len(X[x].path)
           R(c) == [node |-> c, depth |-> Len(X[c].path)]
           Q == SubSeq(stack, 1, Len(stack) - 1)
           B == Below(t, x, d, n)
           D == {[node |-> c, depth |-> l] : c \in Nat, l \in Nat}
<1>1. m \in Nat /\ m \in 1..m /\ x \in 1..N /\ \A i \in 1..m : z[i] \in 1..N
  BY TopIs
<1>2. a \in Nat /\ n \in Nat /\ d \in Nat
  BY <1>1, FilledIs
<1>3. \A c \in 1..N : R(c) \in D
  <2> SUFFICES ASSUME NEW c \in 1..N PROVE R(c) \in D
    OBVIOUS
  <2>1. c \in Nat /\ Len(X[c].path) \in Nat
    BY FilledIs
  <2> QED
    BY ONLY <2>1
<1>4. /\ Len(y) = m - 1 + n
      /\ \A i \in 1..(m - 1) : y[i] = z[i]
      /\ \A i \in 1..n : y[m - 1 + i] = a + n - i
  BY DEF PushedOn
<1>5. stack \in Seq(D) /\ Len(stack) = m /\ \A i \in 1..m : stack[i] = R(z[i])
  <2>1. stack = [i \in 1..m |-> R(z[i])]
    BY DEF StackOf
  <2>2. \A i \in 1..m : R(z[i]) \in D
    BY <1>1, <1>3
  <2> HIDE DEF R, D, m
  <2>3. stack \in [1..m -> D]
    BY ONLY <2>1, <2>2
  <2>4. stack \in Seq(D) /\ Len(stack) = m
    BY ONLY <1>1, <2>3
  <2> QED
    BY ONLY <2>1, <2>4
<1>6. /\ Q \in Seq(D) /\ Len(Q) = m - 1 /\ m - 1 \in Nat
      /\ \A i \in 1..(m - 1) : Q[i] = stack[i]
  <2> DEFINE h == m - 1
  <2>1. h \in Nat /\ h <= Len(stack) /\ Q = SubSeq(stack, 1, h)
    <3> HIDE DEF m, D, R
    <3>1. h \in Nat /\ h <= Len(stack) /\ Len(stack) - 1 = h
      BY ONLY <1>1, <1>5
    <3> QED
      BY ONLY <3>1
  <2> HIDE DEF m, D, R, h, Q
  <2>2. SubSeq(stack, 1, h) \in Seq(D) /\ Len(SubSeq(stack, 1, h)) = h
        /\ \A i \in 1..h : SubSeq(stack, 1, h)[i] = stack[i]
    BY ONLY <1>5, <2>1, HeadIs
  <2> QED
    BY ONLY <2>1, <2>2 DEF h
<1>7. /\ B \in Seq(D) /\ Len(B) = n
      /\ \A i \in 1..n : B[i] = [node |-> a + n - i, depth |-> d + 1]
  <2> DEFINE E(i) == [node |-> a + n - i, depth |-> d + 1]
  <2>1. B = [i \in 1..n |-> E(i)]
    BY DEF Below
  <2>2. \A i \in 1..n : E(i) \in D
    <3> SUFFICES ASSUME NEW i \in 1..n PROVE E(i) \in D
      OBVIOUS
    <3> HIDE DEF a, d
    <3>1. a + n - i \in Nat /\ d + 1 \in Nat
      BY ONLY <1>2, i \in 1..n
    <3> QED
      BY ONLY <3>1
  <2> HIDE DEF B, D, E
  <2>3. B \in [1..n -> D]
    BY ONLY <2>1, <2>2
  <2>4. B \in Seq(D) /\ Len(B) = n
    BY ONLY <1>2, <2>3
  <2>5. \A i \in 1..n : B[i] = E(i)
    BY ONLY <2>1
  <2> QED
    BY ONLY <2>4, <2>5 DEF E
<1>8. Q \o B \in Seq(D) /\ JoinedAs(Q \o B, Q, B)
  <2> HIDE DEF Q, B, D
  <2> QED BY ONLY <1>6, <1>7, ListsJoined
<1> DEFINE U == Q \o B
           h == m - 1 + n
<1>9. /\ U \in Seq(D) /\ Len(U) = h /\ h \in Nat
      /\ \A i \in 1..(m - 1) : U[i] = stack[i]
      /\ \A i \in 1..n : U[m - 1 + i] = B[i]
  <2> HIDE DEF Q, B, D, m
  <2>1. h \in Nat
    BY ONLY <1>1, <1>2
  <2>2. /\ Len(U) = Len(Q) + Len(B) /\ U \in Seq(D)
        /\ \A j \in 1..Len(Q) : U[j] = Q[j]
        /\ \A j \in 1..Len(B) : U[Len(Q) + j] = B[j]
    BY ONLY <1>8 DEF JoinedAs, U
  <2> HIDE DEF U
  <2> QED
    BY ONLY <1>6, <1>7, <2>1, <2>2
<1> HIDE DEF Q, B, D, U
<1>10. ASSUME NEW i \in 1..h PROVE U[i] = R(y[i])
  <2>1. CASE i \in 1..(m - 1)
    <3>1. i \in 1..m
      <4> HIDE DEF m
      <4> QED BY ONLY <1>1, <2>1
    <3> HIDE DEF R, m
    <3>2. U[i] = stack[i] /\ stack[i] = R(z[i]) /\ y[i] = z[i]
      BY ONLY <1>4, <1>5, <1>9, <2>1, <3>1
    <3> QED
      BY ONLY <3>2
  <2>2. CASE i \notin 1..(m - 1)
    <3> DEFINE l == i - (m - 1)
    <3>1. l \in 1..n /\ m - 1 + l = i
      <4> HIDE DEF m
      <4> QED BY ONLY <1>1, <1>2, <2>2, i \in 1..h
    <3> HIDE DEF l
    <3>2. U[i] = [node |-> a + n - l, depth |-> d + 1]
      <4>1. U[m - 1 + l] = B[l] /\ B[l] = [node |-> a + n - l, depth |-> d + 1]
        <5> HIDE DEF m, a, d
        <5> QED BY ONLY <1>7, <1>9, <3>1
      <4> QED
        BY ONLY <3>1, <4>1
    <3>3. y[i] = a + n - l
      BY <1>4, <3>1
    <3>4. i \in 1..Len(y) /\ ~(i \in 1..(m - 1))
      BY <1>4, <2>2
    <3>5. X[y[i]].path = Append(X[x].path, t.label[y[i]]) /\ y[i] \in 1..N
      <4>1. Taken(y, z, t)
        BY DEF Taken
      <4>2. OldOrChild(i, y, z, X, t, N)
        BY <3>4, <4>1, TakenIs
      <4> QED
        BY <3>4, <4>2 DEF OldOrChild
    <3>6. Len(X[y[i]].path) = d + 1
      <4>1. X[x].path \in Seq(Nat) /\ t.label[y[i]] \in Nat
        BY <1>1, <3>5, FilledIs
      <4> QED
        BY <3>5, <4>1
    <3> QED
      BY <3>2, <3>3, <3>6
  <2> QED
    BY <2>1, <2>2
<1>11. U = [i \in 1..h |-> R(y[i])]
  <2> HIDE DEF R, h
  <2>1. U = [i \in 1..h |-> U[i]]
    BY ONLY <1>9
  <2> QED
    BY ONLY <1>10, <2>1
<1> QED
  BY <1>4, <1>11 DEF StackOf, U, Q, B
\* The row that a path of d letters ends its table with.
RowFor(U, row, p, d, w) ==
  /\ TableIs(U, p, d, w) /\ U[d + 1] = row /\ RowOf(row, w)
  /\ row[Len(w) + 1] = UnitDistance(p, w)

\* The row of a node is the last of the table of its path.
LEMMA RowIsRight ==
  ASSUME NEW t, NEW X, NEW W, NEW N, Finished(t, X, W, N), NEW x \in 1..N,
         NEW w \in Seq(Nat), NEW P \in Seq(Nat), NEW R, TableIs(R, P, Len(P), w),
         HangsAt(x, P, X, t), NEW d, d = Len(X[x].path),
         NEW v, P = v.path, R = v.rows, NEW row, row = TopRow(t, v, d, t.label[x], w),
         NEW U, U = CutAnd(R, d, row)
  PROVE  RowFor(U, row, X[x].path, d, w)
<1> DEFINE Q == X[x].path
           m == Len(P)
           c == t.label[x]
<1>1. d \in 1..(m + 1) /\ Q \in Seq(Nat) /\ Q[d] = c /\ AgreeTo(Q, P, d - 1)
  <2> HIDE DEF c
  <2>1. PathOf(X[x].path, P, d, t.label[x])
    BY PathIs
  <2> QED
    BY <2>1 DEF c, PathOf
<1>2. m \in Nat /\ d \in Nat /\ TableIs(R, P, m, w)
  BY <1>1
<1>3. row = NextRow(d, Q[d], P[Back(d)], R[d], R[Back(d)], w, UnitCost, 1, 1)
  <2>1. row = NextRow(d, c, P[Back(d)], R[d], R[Back(d)], w, UnitCost, 1, 1)
    BY DEF TopRow, Back
  <2>2. Q[d] = c
    BY ONLY <1>1
  <2> HIDE DEF Q, c
  <2> QED
    BY ONLY <2>1, <2>2
<1>4. U = Append(SubSeq(R, 1, d), row) /\ d = Len(Q)
  BY DEF CutAnd
<1> HIDE DEF Q, m, c
<1>5. TableIs(U, Q, d, w) /\ U[d + 1] = row
  <2>1. \A i \in 1..(d - 1) : Q[i] = P[i]
    BY ONLY <1>1 DEF AgreeTo
  <2> QED
    <3>1. U = Append(SubSeq(R, 1, d), row)
      BY ONLY <1>4
    <3>2. d \in 1..(m + 1)
      BY ONLY <1>1
    <3>3. m \in Nat /\ TableIs(R, P, m, w)
      BY ONLY <1>2
    <3>4. TableIs(U, Q, d, w)
      BY ONLY w \in Seq(Nat), <1>3, <2>1, <3>1, <3>2, <3>3, TableGrows, ZenonT(60)
    <3>5. U[d + 1] = row
      <4> DEFINE D == Seq(Nat)
                 h == SubSeq(R, 1, d)
      <4>1. R \in Seq(D) /\ Len(R) = m + 1 /\ d \in Nat /\ d <= m + 1
        BY ONLY <1>2, <3>2, <3>3 DEF TableIs
      <4> HIDE DEF D
      <4>2. h \in Seq(D) /\ Len(h) = d
        BY ONLY <4>1, HeadIs
      <4> HIDE DEF h
      <4>3. Append(h, row)[d + 1] = row
        BY ONLY <4>1, <4>2
      <4> QED
        BY ONLY <3>1, <4>3 DEF h
    <3> QED
      BY ONLY <3>4, <3>5
<1>6. RowOf(row, w)
  <2>1. d + 1 \in 1..(d + 1)
    BY <1>2
  <2>2. RowOf(U[d + 1], w)
    BY ONLY <1>5, <2>1 DEF TableIs
  <2> QED
    BY ONLY <1>5, <2>2
<1>7. row[Len(w) + 1] = UnitDistance(Q, w)
  <2>1. PICK S : /\ TableIs(S, Q, Len(Q), w)
                 /\ UnitDistance(Q, w) = S[Len(Q) + 1][Len(w) + 1]
    BY <1>1, UnitDistanceIs
  <2>2. TableIs(S, Q, d, w) /\ UnitDistance(Q, w) = S[d + 1][Len(w) + 1]
    BY ONLY <1>4, <2>1
  <2>3. AgreeTo(Q, Q, d) /\ d <= d
    BY ONLY <1>2 DEF AgreeTo
  <2>4. AgreeTo(U, S, d + 1)
    BY ONLY w \in Seq(Nat), <1>2, <1>5, <2>2, <2>3, TablesAgree
  <2>5. d + 1 \in 1..(d + 1)
    BY <1>2
  <2>6. S[d + 1] = row
    BY ONLY <1>5, <2>4, <2>5 DEF AgreeTo
  <2> QED
    BY ONLY <2>2, <2>6
<1> QED
  BY ONLY <1>5, <1>6, <1>7 DEF Q, RowFor

\* If its row is over the limit, so are the distances of all the words below it.
LEMMA PrunedBelow ==
  ASSUME NEW t, NEW X, NEW W, NEW N, Finished(t, X, W, N), NEW x \in 1..N,
         NEW w \in Seq(Nat), NEW limit \in Nat, NEW d, d = Len(X[x].path),
         NEW U, TableIs(U, X[x].path, d, w), NEW row, U[d + 1] = row, RowOf(row, w),
         ~\E j \in DOMAIN row : row[j] <= limit
  PROVE  FarBelow(x, X, W, w, limit)
<1> DEFINE Q == X[x].path
<1>1. Q \in Seq(Nat) /\ \A k \in DOMAIN W : W[k].word \in Seq(Nat)
  BY FilledIs
<1>2. d \in Nat
  BY <1>1
<1>3. AllOver(row, limit)
  <2>1. \A j \in DOMAIN row : row[j] \in Nat
    <3>1. row \in Seq(Nat)
      BY DEF RowOf
    <3> QED
      BY ONLY <3>1
  <2>2. \A j \in DOMAIN row : row[j] > limit
    BY <2>1
  <2> QED
    BY ONLY <2>2 DEF AllOver
<1> SUFFICES ASSUME NEW k \in NearTo(W, w, limit), StartsWith(W[k].word, Q) PROVE FALSE
  BY DEF FarBelow
<1> DEFINE p == W[k].word
<1>4. p \in Seq(Nat) /\ UnitDistance(p, w) <= limit
  BY <1>1 DEF NearTo
<1>5. d <= Len(p) /\ AgreeTo(Q, p, d)
  <2>1. Len(Q) <= Len(p) /\ \A j \in 1..Len(Q) : p[j] = Q[j]
    <3> HIDE DEF Q
    <3> QED BY ONLY <1>1, <1>4, StartsWith(W[k].word, Q), StartsWithAt
  <2> QED
    BY <2>1 DEF AgreeTo
<1>6. TableIs(U, Q, d, w) /\ AllOver(U[d + 1], limit)
  BY <1>3
<1> HIDE DEF Q, p
<1>7. UnitDistance(p, w) > limit
  BY ONLY w \in Seq(Nat), limit \in Nat, <1>2, <1>4, <1>5, <1>6, PrunedIsFar
<1>8. UnitDistance(p, w) \in Nat
  BY <1>4, DistanceIsNumber
<1> QED
  BY ONLY <1>4, <1>7, <1>8, limit \in Nat
\* What holds of the walk after k nodes: z are the nodes on its stack.
Hunting(v, t, X, W, N, L, w, limit, k) ==
  \E z : /\ StackOf(v.stack, z, X) /\ KeptApart(z, X, N) /\ Hang(z, v.path, X, t)
         /\ TableIs(v.rows, v.path, Len(v.path), w)
         /\ Gathered(v.found, z, X, W, w, limit)
         /\ Len(z) > 0 => \E V : Seen(V, z, L, X, N, k)

Hunted(t, v, w, limit) == IF v.stack = <<>> THEN v ELSE Visit(t, v, w, limit)

\* A visit, part by part.
VisitedTo(u, v, t, X, x, row, n, w, limit) ==
  /\ u.path = X[x].path
  /\ u.rows = Append(SubSeq(v.rows, 1, Len(X[x].path)), row)
  /\ Reporting(u.found, v.found, t, x, X, w, limit)
  /\ u.stack = SubSeq(v.stack, 1, Len(v.stack) - 1) \o Below(t, x, Len(X[x].path), n)

VisitRight(u, v, t, X, W, x, w, limit) ==
  \E row, n : /\ n \in {0, t.count[x]} /\ VisitedTo(u, v, t, X, x, row, n, w, limit)
              /\ TableIs(u.rows, u.path, Len(u.path), w)
              /\ n # t.count[x] => FarBelow(x, X, W, w, limit)

\* A visit of the node on top, its row and the nodes it pushes.
LEMMA VisitIs ==
  ASSUME NEW t, NEW X, NEW W, NEW N, Finished(t, X, W, N), NEW w \in Seq(Nat), NEW limit \in Nat,
         NEW z, KeptApart(z, X, N), Len(z) > 0, NEW x, x = z[Len(z)],
         NEW v, StackOf(v.stack, z, X), Hang(z, v.path, X, t),
         TableIs(v.rows, v.path, Len(v.path), w), NEW u, u = Visit(t, v, w, limit)
  PROVE  VisitRight(u, v, t, X, W, x, w, limit)
<1>1. x \in 1..N
  BY TopIs
<1>2. PICK P, R : P = v.path /\ R = v.rows
  OBVIOUS
<1>3. P \in Seq(Nat) /\ HangsAt(x, P, X, t) /\ TableIs(R, P, Len(P), w)
  <2>1. Len(z) \in 1..Len(z)
    BY TopIs
  <2> QED
    BY <1>2, <2>1 DEF Hang
<1>4. PICK d : d = Len(X[x].path)
  OBVIOUS
<1>5. PICK row : row = TopRow(t, v, d, t.label[x], w)
  OBVIOUS
<1>6. PICK U : U = CutAnd(R, d, row)
  OBVIOUS
<1>7. /\ TableIs(U, X[x].path, d, w) /\ U[d + 1] = row /\ RowOf(row, w)
      /\ row[Len(w) + 1] = UnitDistance(X[x].path, w)
  <2>1. RowFor(U, row, X[x].path, d, w)
    BY ONLY Finished(t, X, W, N), w \in Seq(Nat), <1>1, <1>2, <1>3, <1>4, <1>5, <1>6, RowIsRight
  <2> QED
    BY ONLY <2>1 DEF RowFor
<1>8. CutAnd(P, d - 1, t.label[x]) = X[x].path
  <2>1. PathOf(X[x].path, P, d, t.label[x])
    BY ONLY Finished(t, X, W, N), <1>1, <1>3, <1>4, PathIs
  <2> QED
    BY ONLY <2>1 DEF PathOf
<1> DEFINE entered == \E j \in DOMAIN row : row[j] <= limit
           reported == row[Len(w) + 1] <= limit
           n == IF entered THEN t.count[x] ELSE 0
           top == [node |-> x, depth |-> d]
<1>9. v.stack[Len(v.stack)] = top
  <2> DEFINE m == Len(z)
             E(i) == [node |-> z[i], depth |-> Len(X[z[i]].path)]
  <2>1. v.stack = [i \in 1..m |-> E(i)]
    BY DEF StackOf
  <2>2. m \in Nat /\ m \in 1..m
    BY TopIs
  <2>3. E(m) = top
    BY <1>4
  <2> HIDE DEF m, E, top
  <2> QED
    BY ONLY <2>1, <2>2, <2>3
<1>10. u = Visited(t, v, top, row, reported, entered)
  <2>1. top.node = x /\ top.depth = d
    OBVIOUS
  <2> HIDE DEF top
  <2> QED
    BY <1>5, <1>9, <2>1 DEF Visit
<1>11. /\ u.path = X[x].path
       /\ u.rows = U
       /\ u.found = IF t.terminal[x] # NoWord /\ reported
                    THEN Append(v.found, t.words[t.terminal[x]].value) ELSE v.found
       /\ u.stack = SubSeq(v.stack, 1, Len(v.stack) - 1)
                      \o (IF entered
                          THEN [i \in 1..t.count[x] |->
                                  [node |-> t.first[x] + t.count[x] - i, depth |-> d + 1]]
                          ELSE <<>>)
  <2> DEFINE H == Append(SubSeq(v.path, 1, d - 1), t.label[x])
             K == Append(SubSeq(v.rows, 1, d), row)
             F == IF t.terminal[x] # NoWord /\ reported
                  THEN Append(v.found, t.words[t.terminal[x]].value) ELSE v.found
             S == SubSeq(v.stack, 1, Len(v.stack) - 1)
                    \o (IF entered
                        THEN [i \in 1..t.count[x] |->
                                [node |-> t.first[x] + t.count[x] - i, depth |-> d + 1]]
                        ELSE <<>>)
  <2>1. top.node = x /\ top.depth = d
    OBVIOUS
  <2> HIDE DEF top, entered, reported
  <2>2. u = [path |-> H, rows |-> K, found |-> F, stack |-> S]
    BY ONLY <1>10, <2>1 DEF Visited, H, K, F, S
  <2>3. H = X[x].path /\ K = U
    BY ONLY <1>2, <1>6, <1>8 DEF CutAnd
  <2> HIDE DEF H, K, F, S
  <2>4. u.path = H /\ u.rows = K /\ u.found = F /\ u.stack = S
    BY ONLY <2>2
  <2> QED
    BY ONLY <2>3, <2>4 DEF F, S
<1>12. (IF entered
        THEN [i \in 1..t.count[x] |-> [node |-> t.first[x] + t.count[x] - i, depth |-> d + 1]]
        ELSE <<>>) = Below(t, x, d, n)
  <2>1. CASE entered
    BY <2>1 DEF Below
  <2>2. CASE ~entered
    <3> DEFINE E(i) == [node |-> t.first[x] + 0 - i, depth |-> d + 1]
    <3>1. Below(t, x, d, n) = [i \in 1..0 |-> E(i)]
      BY <2>2 DEF Below
    <3>2. [i \in 1..0 |-> E(i)] = <<>>
      <4> HIDE DEF E
      <4> QED OBVIOUS
    <3> QED
      BY <2>2, <3>1, <3>2
  <2> QED
    BY <2>1, <2>2
<1>13. VisitedTo(u, v, t, X, x, row, n, w, limit)
  <2>1. u.stack = SubSeq(v.stack, 1, Len(v.stack) - 1) \o Below(t, x, d, n)
    <3> HIDE DEF entered, n
    <3> QED BY ONLY <1>11, <1>12
  <2>2. Reporting(u.found, v.found, t, x, X, w, limit)
    BY <1>7, <1>11 DEF Reporting
  <2>3. u.path = X[x].path /\ u.rows = Append(SubSeq(v.rows, 1, d), row)
    BY ONLY <1>2, <1>6, <1>11 DEF CutAnd
  <2> HIDE DEF entered, n
  <2> QED
    BY ONLY <1>4, <2>1, <2>2, <2>3 DEF VisitedTo
<1>14. TableIs(u.rows, u.path, Len(u.path), w)
  BY <1>4, <1>7, <1>11
<1>15. n # t.count[x] => FarBelow(x, X, W, w, limit)
  <2> SUFFICES ASSUME ~entered PROVE FarBelow(x, X, W, w, limit)
    OBVIOUS
  <2>1. ~\E j \in DOMAIN row : row[j] <= limit
    OBVIOUS
  <2> QED
    BY ONLY Finished(t, X, W, N), w \in Seq(Nat), limit \in Nat, <1>1, <1>4, <1>7, <2>1, PrunedBelow
<1>16. n \in {0, t.count[x]}
  OBVIOUS
<1> HIDE DEF n
<1> QED
  BY <1>13, <1>14, <1>15, <1>16 DEF VisitRight

\* A step of the walk keeps what holds of it.
LEMMA HuntGoesOn ==
  ASSUME NEW t, NEW X, NEW W, NEW N, Finished(t, X, W, N), NEW L, Lettered(L, W),
         NEW w \in Seq(Nat), NEW limit \in Nat, NEW k \in Nat,
         NEW v, Hunting(v, t, X, W, N, L, w, limit, k)
  PROVE  Hunting(Hunted(t, v, w, limit), t, X, W, N, L, w, limit, k + 1)
<1>1. PICK z : /\ StackOf(v.stack, z, X) /\ KeptApart(z, X, N) /\ Hang(z, v.path, X, t)
               /\ TableIs(v.rows, v.path, Len(v.path), w)
               /\ Gathered(v.found, z, X, W, w, limit)
               /\ Len(z) > 0 => \E V : Seen(V, z, L, X, N, k)
  BY DEF Hunting
<1> DEFINE u == Hunted(t, v, w, limit)
           m == Len(z)
           x == z[m]
<1>2. z \in Seq(1..N) /\ m \in Nat
  BY <1>1 DEF KeptApart
<1>3. Len(v.stack) = m
  <2> DEFINE E(i) == [node |-> z[i], depth |-> Len(X[z[i]].path)]
  <2>1. v.stack = [i \in 1..m |-> E(i)]
    BY <1>1 DEF StackOf
  <2> HIDE DEF m, E
  <2> QED BY ONLY <1>2, <2>1
<1>4. CASE m = 0
  <2>1. v.stack = <<>>
    <3> DEFINE E(i) == [node |-> z[i], depth |-> Len(X[z[i]].path)]
    <3>1. v.stack = [i \in 1..0 |-> E(i)]
      BY <1>1, <1>4 DEF StackOf
    <3> HIDE DEF E
    <3> QED BY ONLY <3>1
  <2>2. u = v
    BY <2>1 DEF Hunted
  <2>3. ~(Len(z) > 0)
    BY <1>4
  <2> QED
    BY <1>1, <2>2, <2>3 DEF Hunting
<1>5. CASE m # 0
  <2>1. m > 0 /\ v.stack # <<>>
    <3>1. m > 0
      <4> HIDE DEF m
      <4> QED BY ONLY <1>2, <1>5
    <3>2. Len(<<>>) = 0
      OBVIOUS
    <3> QED
      BY ONLY <1>3, <1>5, <3>1, <3>2
  <2>2. u = Visit(t, v, w, limit) /\ x = z[Len(z)] /\ Len(z) > 0
    BY <2>1 DEF Hunted
  <2>3. x \in 1..N
    BY <1>1, <2>1, TopIs
  <2> HIDE DEF u, x, m
  <2>4. PICK row, n : /\ n \in {0, t.count[x]} /\ VisitedTo(u, v, t, X, x, row, n, w, limit)
                      /\ TableIs(u.rows, u.path, Len(u.path), w)
                      /\ n # t.count[x] => FarBelow(x, X, W, w, limit)
    <3>1. Len(z) > 0
      BY ONLY <2>2
    <3>2. x = z[Len(z)]
      BY ONLY <2>2
    <3>3. u = Visit(t, v, w, limit)
      BY ONLY <2>2
    <3>4. KeptApart(z, X, N) /\ StackOf(v.stack, z, X) /\ Hang(z, v.path, X, t)
          /\ TableIs(v.rows, v.path, Len(v.path), w)
      BY ONLY <1>1
    <3>5. VisitRight(u, v, t, X, W, x, w, limit)
      BY ONLY Finished(t, X, W, N), w \in Seq(Nat), limit \in Nat, <3>1, <3>2, <3>3, <3>4, VisitIs
    <3> QED
      BY ONLY <3>5 DEF VisitRight
  <2>5. t.first[x] \in Nat /\ t.count[x] \in Nat /\ n \in Nat
    BY <2>3, <2>4, FilledIs
  <2> DEFINE q == [i \in 1..n |-> t.first[x] + n - i]
             y == SubSeq(z, 1, Len(z) - 1) \o q
  <2>6. PushedOn(y, z, t.first[x], n)
    <3>1. q = [i \in 1..n |-> t.first[x] + n - i]
      OBVIOUS
    <3> HIDE DEF q
    <3> QED BY ONLY <1>2, <2>2, <2>5, <3>1, PushedIsOn
  <2> HIDE DEF y
  <2>7. Taken(y, z, t)
    BY <2>2, <2>4, <2>6 DEF Taken
  <2>8. KeptApart(y, X, N)
    BY <1>1, <2>2, <2>7, ApartStill
  <2>9. StackOf(u.stack, y, X)
    <3>1. u.stack = SubSeq(v.stack, 1, Len(v.stack) - 1) \o Below(t, x, Len(X[x].path), n)
      BY <2>4 DEF VisitedTo
    <3>2. StackOf(SubSeq(v.stack, 1, Len(v.stack) - 1) \o Below(t, x, Len(X[x].path), n), y, X)
      BY ONLY Finished(t, X, W, N), <1>1, <2>2, <2>4, <2>6, StackStill
    <3> QED
      BY ONLY <3>1, <3>2
  <2>10. Hang(y, u.path, X, t)
    <3>1. u.path = X[x].path
      BY <2>4 DEF VisitedTo
    <3>2. Hang(y, X[x].path, X, t)
      BY ONLY Finished(t, X, W, N), <1>1, <2>2, <2>7, HangStill
    <3> QED
      BY ONLY <3>1, <3>2
  <2>11. Gathered(u.found, y, X, W, w, limit)
    <3>1. Reporting(u.found, v.found, t, x, X, w, limit)
      BY <2>4 DEF VisitedTo
    <3> QED
      BY ONLY Finished(t, X, W, N), <1>1, <2>2, <2>4, <2>6, <3>1, GatheredStill
  <2>12. \E V : Seen(V, y, L, X, N, k + 1)
    <3>1. PICK V : Seen(V, z, L, X, N, k)
      BY <1>1, <2>2
    <3>2. Seen(V \cup {z[Len(z)]}, y, L, X, N, k + 1)
      BY ONLY Finished(t, X, W, N), Lettered(L, W), k \in Nat, <1>1, <2>2, <2>7, <3>1, SeenStill
    <3> QED
      BY <3>2
  <2>13. TableIs(u.rows, u.path, Len(u.path), w)
    BY <2>4
  <2> QED
    BY ONLY <2>8, <2>9, <2>10, <2>11, <2>12, <2>13 DEF Hunting, u
<1> QED
  BY <1>4, <1>5
HuntedTo(f, t, start, w, limit, m) ==
  f = [k \in 0..m |-> IF k = 0 THEN start ELSE Hunted(t, f[k - 1], w, limit)]

\* The states of the walk, step by step.
LEMMA HuntExists ==
  ASSUME NEW t, NEW start, NEW w, NEW limit, NEW n \in Nat
  PROVE  \E f : HuntedTo(f, t, start, w, limit, n)
<1> DEFINE T == {m \in Nat : \E f : HuntedTo(f, t, start, w, limit, m)}
<1>1. 0 \in T
  <2> DEFINE f == [k \in 0..0 |-> start]
  <2>1. HuntedTo(f, t, start, w, limit, 0)
    BY DEF HuntedTo
  <2> QED
    BY <2>1
<1>2. ASSUME NEW m \in T PROVE \E f : HuntedTo(f, t, start, w, limit, m + 1)
  <2>1. PICK f : HuntedTo(f, t, start, w, limit, m)
    BY <1>2
  <2> DEFINE h == [k \in 0..(m + 1) |-> IF k = m + 1 THEN Hunted(t, f[m], w, limit) ELSE f[k]]
  <2>2. m \in Nat
    BY <1>2
  <2>4. ASSUME NEW k \in 0..(m + 1)
        PROVE  h[k] = IF k = 0 THEN start ELSE Hunted(t, h[k - 1], w, limit)
    <3>1. CASE k = m + 1
      <4>1. k - 1 = m /\ m \in 0..(m + 1) /\ m # m + 1 /\ k # 0
        BY <2>2, <3>1
      <4>2. h[k] = Hunted(t, f[m], w, limit) /\ h[m] = f[m]
        BY <3>1, <4>1
      <4> QED
        BY <4>1, <4>2
    <3>2. CASE k # m + 1
      <4>1. k \in 0..m /\ (k # 0 => k - 1 \in 0..m)
        BY <2>2, <3>2
      <4>2. f[k] = IF k = 0 THEN start ELSE Hunted(t, f[k - 1], w, limit)
        BY <2>1, <4>1 DEF HuntedTo
      <4>3. h[k] = f[k] /\ (k # 0 => h[k - 1] = f[k - 1])
        BY <2>2, <3>2, <4>1
      <4> QED
        BY <4>2, <4>3
    <3> QED
      BY <3>1, <3>2
  <2>5. HuntedTo(h, t, start, w, limit, m + 1)
    <3>1. h = [k \in 0..(m + 1) |-> h[k]]
      OBVIOUS
    <3> HIDE DEF h
    <3> QED
      BY <2>4, <3>1 DEF HuntedTo
  <2> HIDE DEF h
  <2> QED
    BY <2>5
<1>3. \A m \in T \cap Nat : m + 1 \in T
  BY <1>2
<1>4. Nat \subseteq T
  <2> HIDE DEF T
  <2> QED BY <1>1, <1>3, Induction
<1> QED
  BY <1>4

FuzzyStart(t, w, limit) ==
  LET row == FirstRow(Len(w), 1)
  IN  [path |-> <<>>, rows |-> <<row>>,
       found |-> IF t.terminal[1] # NoWord /\ row[Len(w) + 1] <= limit
                 THEN <<t.words[t.terminal[1]].value>> ELSE <<>>,
       stack |-> [i \in 1..t.count[1] |->
                    [node |-> t.first[1] + t.count[1] - i, depth |-> 1]]]

\* The table of the empty path is its first row.
LEMMA EmptyTable ==
  ASSUME NEW w \in Seq(Nat), NEW row, row = FirstRow(Len(w), 1)
  PROVE  TableIs(<<row>>, <<>>, 0, w) /\ row[Len(w) + 1] = UnitDistance(<<>>, w)
<1> DEFINE R == <<row>>
           P == <<>>
           D == Seq(Nat)
<1>1. RowOf(row, w) /\ row \in D
  BY FirstRowIs DEF RowOf
<1>2. R \in Seq(D) /\ Len(R) = 1 /\ R[1] = row
  <2> HIDE DEF D
  <2> QED BY ONLY <1>1
<1>3. TableIs(R, P, 0, w)
  <2> HIDE DEF R
  <2>1. Len(R) = 0 + 1 /\ \A d \in 1..(0 + 1) : d = 1
    BY <1>2
  <2>2. \A d \in 1..(0 + 1) : RowOf(R[d], w)
    BY ONLY <1>1, <1>2, <2>1
  <2>3. 1..0 = {}
    OBVIOUS
  <2> QED
    BY ONLY <1>2, <2>1, <2>2, <2>3, row = FirstRow(Len(w), 1) DEF TableIs, D
<1>4. P \in Seq(Nat) /\ Len(P) = 0
  OBVIOUS
<1> HIDE DEF P
<1>5. PICK S : TableIs(S, P, Len(P), w) /\ UnitDistance(P, w) = S[Len(P) + 1][Len(w) + 1]
  BY <1>4, UnitDistanceIs
<1>6. TableIs(S, P, 0, w) /\ UnitDistance(P, w) = S[1][Len(w) + 1]
  BY ONLY <1>4, <1>5
<1>7. S[1] = row
  BY <1>6 DEF TableIs
<1> QED
  BY ONLY <1>3, <1>6, <1>7 DEF P, R

\* The nodes below the root, and what holds when the walk starts with them.
LEMMA HuntStarts ==
  ASSUME NEW t, NEW X, NEW W, NEW N, Finished(t, X, W, N), NEW L, Lettered(L, W),
         NEW w \in Seq(Nat), NEW limit \in Nat, NEW v, v = FuzzyStart(t, w, limit)
  PROVE  Hunting(v, t, X, W, N, L, w, limit, 1)
<1> DEFINE z == <<1>>
           n == t.count[1]
           a == t.first[1]
           q == [i \in 1..n |-> a + n - i]
           y == SubSeq(z, 1, Len(z) - 1) \o q
           row == FirstRow(Len(w), 1)
           stack == <<[node |-> 1, depth |-> 0]>>
<1>1. N \in Nat /\ 1 \in 1..N /\ Placed(X, W, N) /\ X[1].path = <<>>
  BY DEF Finished, Arrays, Placed
<1>2. a \in Nat /\ n \in Nat /\ \A k \in DOMAIN W : W[k].word \in Seq(Nat)
  BY <1>1, FilledIs
<1>3. z \in Seq(1..N) /\ Len(z) = 1 /\ z[1] = 1
  BY <1>1
<1>4. KeptApart(z, X, N)
  <2> HIDE DEF z
  <2> QED BY ONLY <1>3 DEF KeptApart
<1>5. PushedOn(y, z, a, n)
  <2>1. q = [i \in 1..n |-> a + n - i] /\ Len(z) > 0
    OBVIOUS
  <2> HIDE DEF q, a, n, z
  <2> QED BY ONLY <1>2, <1>3, <2>1, PushedIsOn
<1> HIDE DEF y, q
<1>6. Taken(y, z, t)
  BY <1>3, <1>5 DEF Taken
<1>7. 1 = z[Len(z)] /\ Len(z) > 0
  BY <1>3
<1> HIDE DEF z
<1>8. KeptApart(y, X, N) /\ Len(y) \in Nat
  BY <1>4, <1>6, <1>7, ApartStill DEF KeptApart
<1>9. \E V : Seen(V, y, L, X, N, 1)
  <2>1. Seen({}, z, L, X, N, 0)
    BY FS_EmptySet DEF Seen
  <2>2. Seen({} \cup {z[Len(z)]}, y, L, X, N, 0 + 1)
    BY <1>4, <1>6, <1>7, <2>1, SeenStill
  <2> QED
    BY <2>2
\* The stack.
<1>10. StackOf(v.stack, y, X)
  <2>1. StackOf(stack, z, X)
    <3> DEFINE E(i) == [node |-> z[i], depth |-> Len(X[z[i]].path)]
    <3>1. E(1) = [node |-> 1, depth |-> 0]
      BY <1>1, <1>3
    <3>2. stack = [i \in 1..1 |-> E(i)]
      <4> DEFINE e == [node |-> 1, depth |-> 0]
      <4>1. stack = <<e>>
        OBVIOUS
      <4> HIDE DEF e, E, stack
      <4>2. <<e>> = [i \in 1..1 |-> e]
        OBVIOUS
      <4>3. \A i \in 1..1 : E(i) = e
        BY ONLY <3>1 DEF e
      <4> QED
        BY ONLY <4>1, <4>2, <4>3
    <3> QED
      BY <1>3, <3>2 DEF StackOf
  <2>2. StackOf(SubSeq(stack, 1, Len(stack) - 1) \o Below(t, 1, Len(X[1].path), n), y, X)
    <3>1. n \in {0, t.count[1]} /\ PushedOn(y, z, t.first[1], n)
      BY <1>5
    <3> HIDE DEF n, stack
    <3> QED BY ONLY Finished(t, X, W, N), <1>4, <1>7, <2>1, <3>1, StackStill
  <2>3. SubSeq(stack, 1, Len(stack) - 1) = <<>> /\ Len(X[1].path) = 0
    BY <1>1
  <2> DEFINE B == Below(t, 1, 0, n)
             D == {[node |-> c, depth |-> l] : c \in Nat, l \in Nat}
  <2>4. B \in Seq(D)
    <3> DEFINE E(i) == [node |-> a + n - i, depth |-> 0 + 1]
    <3>1. \A i \in 1..n : E(i) \in D
      <4> SUFFICES ASSUME NEW i \in 1..n PROVE E(i) \in D
        OBVIOUS
      <4>1. a + n - i \in Nat /\ 0 + 1 \in Nat
        <5> HIDE DEF a, n
        <5> QED BY ONLY <1>2, i \in 1..n
      <4> QED
        BY ONLY <4>1
    <3>2. B = [i \in 1..n |-> E(i)]
      BY DEF Below
    <3> HIDE DEF B, D, E, n
    <3> QED BY ONLY <1>2, <3>1, <3>2
  <2>5. <<>> \o B = B
    <3> HIDE DEF B, D
    <3> QED BY ONLY <2>4
  <2>6. v.stack = B
    BY DEF FuzzyStart, Below
  <2> HIDE DEF stack, n
  <2> QED
    BY ONLY <2>2, <2>3, <2>5, <2>6 DEF B
\* The paths.
<1>11. v.path = <<>> /\ v.rows = <<row>>
  BY DEF FuzzyStart
<1>12. Hang(y, v.path, X, t)
  <2> DEFINE P == <<>>
  <2>1. P \in Seq(Nat) /\ Len(P) = 0 /\ v.path = P
    BY <1>11
  <2>2. ASSUME NEW i \in 1..Len(y)
        PROVE  Len(X[y[i]].path) = 1 /\ HangsAt(y[i], P, X, t)
    <3>1. OldOrChild(i, y, z, X, t, N)
      BY <1>4, <1>6, <1>7, TakenIs
    <3>2. y[i] \in 1..N /\ X[y[i]].path = Append(<<>>, t.label[y[i]])
      BY <1>1, <1>3, <3>1 DEF OldOrChild
    <3>3. t.label[y[i]] \in Nat
      BY <3>2, FilledIs
    <3> DEFINE p == X[y[i]].path
               c == t.label[y[i]]
    <3>4. Len(p) = 1 /\ p[1] = c
      BY ONLY <3>2, <3>3
    <3> HIDE DEF P
    <3>5. Len(p) \in 1..(Len(P) + 1) /\ Len(p) - 1 = 0
      BY ONLY <2>1, <3>4
    <3>6. AgreeTo(p, P, Len(p) - 1)
      <4>1. AgreeTo(p, P, 0)
        BY DEF AgreeTo
      <4> HIDE DEF p
      <4> QED
        BY ONLY <3>5, <4>1
    <3> QED
      BY ONLY <3>4, <3>5, <3>6 DEF HangsAt
  <2> HIDE DEF P
  <2>3. \A i, j \in 1..Len(y) : i < j => Len(X[y[i]].path) <= Len(X[y[j]].path)
    BY ONLY <2>2
  <2> QED
    BY ONLY <2>1, <2>2, <2>3 DEF Hang
<1>13. /\ TableIs(v.rows, v.path, Len(v.path), w)
       /\ row[Len(w) + 1] = UnitDistance(<<>>, w)
  <2>1. TableIs(<<row>>, <<>>, 0, w) /\ row[Len(w) + 1] = UnitDistance(<<>>, w)
    BY EmptyTable
  <2> QED
    BY <1>11, <2>1
\* What is found.
<1>14. Gathered(v.found, y, X, W, w, limit)
  <2> DEFINE D == {W[k].value : k \in NearTo(W, w, limit)}
             d == <<>>
  <2>1. Gathered(d, z, X, W, w, limit)
    <3>1. d \in Seq(D)
      OBVIOUS
    <3>2. ASSUME NEW k \in NearTo(W, w, limit) PROVE StartsWith(W[k].word, X[z[1]].path)
      <4>1. W[k].word \in Seq(Nat)
        BY <1>2 DEF NearTo
      <4> QED
        BY <1>1, <1>3, <4>1, ItsOwnPrefix
    <3>3. 1 \in 1..Len(z)
      BY <1>3
    <3> HIDE DEF d
    <3>4. \A k \in NearTo(W, w, limit) : \E i \in 1..Len(z) : StartsWith(W[k].word, X[z[i]].path)
      BY ONLY <3>2, <3>3
    <3> QED
      BY ONLY <3>1, <3>4 DEF Gathered, D
  <2>2. Reporting(v.found, d, t, 1, X, w, limit)
    <3> DEFINE c == t.words[t.terminal[1]].value
    <3>1. v.found = IF t.terminal[1] # NoWord /\ row[Len(w) + 1] <= limit THEN <<c>> ELSE <<>>
      BY DEF FuzzyStart
    <3>2. <<c>> = Append(d, c)
      <4> HIDE DEF c
      <4> QED OBVIOUS
    <3> HIDE DEF c, row
    <3> QED
      BY ONLY <1>1, <1>13, <3>1, <3>2 DEF Reporting, c
  <2>3. n \in {0, t.count[1]} /\ PushedOn(y, z, t.first[1], n)
        /\ (n # t.count[1] => FarBelow(1, X, W, w, limit))
    BY <1>5
  <2> HIDE DEF n, d
  <2> QED
    BY ONLY Finished(t, X, W, N), <1>4, <1>7, <2>1, <2>2, <2>3, GatheredStill
<1> HIDE DEF row
<1> QED
  BY ONLY <1>8, <1>9, <1>10, <1>12, <1>13, <1>14 DEF Hunting
\* The values of the near words are found, and no others.
FoundNear(found, W, w, limit) ==
  /\ found \in Seq({W[k].value : k \in NearTo(W, w, limit)})
  /\ \A k \in NearTo(W, w, limit) : \E i \in 1..Len(found) : found[i] = W[k].value

\* A walk that has taken all the nodes has found the near words.
LEMMA HuntEnds ==
  ASSUME NEW t, NEW X, NEW W, NEW N, Finished(t, X, W, N), NEW L, Lettered(L, W), NEW w, NEW limit,
         NEW v, Hunting(v, t, X, W, N, L, w, limit, N + 1)
  PROVE  FoundNear(v.found, W, w, limit)
<1>1. PICK z : /\ KeptApart(z, X, N) /\ Gathered(v.found, z, X, W, w, limit)
               /\ Len(z) > 0 => \E V : Seen(V, z, L, X, N, N + 1)
  BY DEF Hunting
<1>2. N \in Nat /\ N + 1 \in Nat /\ N + 1 >= N
  BY DEF Finished, Arrays
<1>3. Len(z) \in Nat /\ ~(Len(z) > 0)
  <2>1. Len(z) \in Nat
    BY <1>1 DEF KeptApart
  <2> SUFFICES ASSUME Len(z) > 0 PROVE FALSE
    BY <2>1
  <2>2. PICK V : Seen(V, z, L, X, N, N + 1)
    BY <1>1
  <2> DEFINE k == N + 1
  <2>3. k \in Nat /\ k >= N /\ Seen(V, z, L, X, N, k)
    BY <1>2, <2>2
  <2> HIDE DEF k
  <2>4. z = <<>>
    BY ONLY Finished(t, X, W, N), Lettered(L, W), <1>1, <2>3, AllSeen
  <2> QED
    BY <2>4
<1>4. 1..Len(z) = {}
  BY ONLY <1>3
<1> QED
  BY <1>1, <1>4 DEF Gathered, FoundNear

\* fuzzy_terminals finds what was inserted with the words within the limit.
LEMMA FuzzyIs ==
  ASSUME NEW t, NEW X, NEW W, NEW N, Finished(t, X, W, N), NEW w \in Seq(Nat), NEW limit \in Nat
  PROVE  FoundNear(FuzzyTerminals(t, w, limit), W, w, limit)
<1> DEFINE n == Len(t.label)
           start == FuzzyStart(t, w, limit)
           B == CHOOSE f : f = [k \in 0..n |-> IF k = 0 THEN start ELSE Hunted(t, f[k - 1], w, limit)]
           L == CHOOSE f : f = [k \in 0..Len(W) |-> IF k = 0 THEN 0 ELSE f[k - 1] + Len(W[k].word)]
<1>1. FuzzyTerminals(t, w, limit) = IF t.label = <<>> THEN <<>> ELSE B[n].found
  BY DEF FuzzyTerminals, Hunted, FuzzyStart
<1>2. n = N /\ N \in Nat /\ N >= 1 /\ InOrder(W)
  BY DEF Finished, Arrays
<1>3. t.label # <<>>
  BY <1>2
<1>4. Lettered(L, W)
  <2> HIDE DEF L
  <2>1. L = CHOOSE f : f = [k \in 0..Len(W) |-> IF k = 0 THEN 0 ELSE f[k - 1] + Len(W[k].word)]
    BY DEF L
  <2> QED
    BY ONLY <1>2, <2>1, LettersExist
<1>5. B[0] = start /\ \A k \in 1..N : B[k] = Hunted(t, B[k - 1], w, limit)
  <2>1. B = CHOOSE f : f = [k \in 0..N |-> IF k = 0 THEN start ELSE Hunted(t, f[k - 1], w, limit)]
    BY <1>2 DEF B
  <2> HIDE DEF B, n, start
  <2>2. \E f : HuntedTo(f, t, start, w, limit, N)
    BY <1>2, HuntExists
  <2>3. B = [k \in 0..N |-> IF k = 0 THEN start ELSE Hunted(t, B[k - 1], w, limit)]
    BY <2>1, <2>2 DEF HuntedTo
  <2>4. 0 \in 0..N /\ \A k \in 1..N : k \in 0..N /\ k # 0
    BY <1>2
  <2> QED
    BY ONLY <2>3, <2>4
<1> HIDE DEF B, L
<1> DEFINE T == {k \in Nat : k <= N => Hunting(B[k], t, X, W, N, L, w, limit, k + 1)}
<1>6. 0 \in T
  <2>1. Hunting(start, t, X, W, N, L, w, limit, 1)
    <3>1. start = FuzzyStart(t, w, limit)
      OBVIOUS
    <3> HIDE DEF start
    <3> QED BY <1>4, <3>1, HuntStarts
  <2> QED
    BY <1>5, <2>1
<1>7. ASSUME NEW k \in T, k + 1 <= N
      PROVE  Hunting(B[k + 1], t, X, W, N, L, w, limit, (k + 1) + 1)
  <2>1. k \in Nat /\ k + 1 \in 1..N /\ (k + 1) - 1 = k
        /\ Hunting(B[k], t, X, W, N, L, w, limit, k + 1)
    BY <1>2, <1>7
  <2>2. B[k + 1] = Hunted(t, B[k], w, limit)
    BY <1>5, <2>1
  <2> DEFINE l == k + 1
             v == B[k]
  <2>3. l \in Nat /\ Hunting(v, t, X, W, N, L, w, limit, l)
    BY <2>1
  <2> HIDE DEF l, v
  <2>4. Hunting(Hunted(t, v, w, limit), t, X, W, N, L, w, limit, l + 1)
    BY <1>4, <2>3, HuntGoesOn
  <2> QED
    BY <2>2, <2>4 DEF l, v
<1>8. \A k \in T \cap Nat : k + 1 \in T
  BY <1>7
<1>9. Nat \subseteq T
  <2> HIDE DEF T
  <2> QED BY <1>6, <1>8, Induction
<1>10. Hunting(B[N], t, X, W, N, L, w, limit, N + 1)
  BY <1>2, <1>9
<1>11. FoundNear(B[N].found, W, w, limit)
  <2> DEFINE v == B[N]
  <2>1. Hunting(v, t, X, W, N, L, w, limit, N + 1)
    BY <1>10
  <2> HIDE DEF v
  <2>2. FoundNear(v.found, W, w, limit)
    BY ONLY Finished(t, X, W, N), <1>4, <2>1, HuntEnds
  <2> QED
    BY <2>2 DEF v
<1> QED
  BY <1>1, <1>2, <1>3, <1>11
(***************************************************************************)
(* The runs of equal stripped forms, and what the index finds in them.     *)
(***************************************************************************)
\* Each position once, in the order of the forms.
InFormOrder(order, forms, n) ==
  /\ order \in [1..n -> 1..n]
  /\ \A i \in 1..n : \E k \in 1..n : order[k] = i
  /\ \A k, l \in 1..n : k < l => ~WordLess(forms[order[l]], forms[order[k]])

FormOrder(lexicon, forms) == Positions(lexicon, LAMBDA i : forms[i])

\* The positions by stripped form are in the order of the stripped forms.
LEMMA StrippedSorted ==
  ASSUME NEW lexicon, NEW n \in Nat, DOMAIN lexicon = 1..n, NEW forms \in [1..n -> Seq(Nat)],
         NEW order, order = FormOrder(lexicon, forms)
  PROVE  InFormOrder(order, forms, n)
<1> DEFINE other == [i \in 1..n |-> [normalized |-> forms[i]]]
           S == 1..n
           P(a, b) == \/ WordLess(forms[a], forms[b])
                      \/ forms[a] = forms[b] /\ a < b
           p(x, k) == Cardinality({y \in S : P(y, x)}) = k - 1
           q(x, k) == Cardinality({y \in S : FormLess(other, y, x)}) = k - 1
<1>1. DOMAIN other = S /\ \A i \in S : other[i].normalized = forms[i] /\ forms[i] \in Seq(Nat)
  OBVIOUS
<1>2. Formed(other) /\ Len(other) = n
  <2>1. other = [i \in 1..n |-> other[i]] /\ \A i \in 1..n : other[i] \in Range(other)
    BY <1>1 DEF Range
  <2> HIDE DEF other
  <2>2. other \in Seq(Range(other)) /\ Len(other) = n
    BY ONLY <2>1, n \in Nat
  <2> QED
    BY ONLY <1>1, <2>2 DEF Formed, AsList, S
<1>3. order = [k \in 1..Cardinality(S) |-> CHOOSE x \in S : p(x, k)]
  BY DEF FormOrder, Positions, Ranked
<1>4. Sorted(other) = [k \in 1..Cardinality(S) |-> CHOOSE x \in S : q(x, k)]
  <2>1. DOMAIN other = S
    BY <1>1
  <2> HIDE DEF other, S
  <2> QED
    BY ONLY <2>1 DEF Sorted, Positions, Ranked, FormLess, q
<1>5. \A k : \A x \in S : p(x, k) <=> q(x, k)
  <2>1. \A x, y \in S : P(y, x) <=> FormLess(other, y, x)
    <3> HIDE DEF other
    <3> QED BY ONLY <1>1 DEF FormLess, P
  <2> HIDE DEF P, other, S
  <2>2. \A x \in S : {y \in S : P(y, x)} = {y \in S : FormLess(other, y, x)}
    BY ONLY <2>1
  <2> QED
    BY ONLY <2>2 DEF p, q
<1> HIDE DEF p, q
<1>6. \A k : (CHOOSE x \in S : p(x, k)) = (CHOOSE x \in S : q(x, k))
  BY ONLY <1>5, Zenon
<1>7. order = Sorted(other)
  BY ONLY <1>3, <1>4, <1>6
<1> HIDE DEF other, S
<1>8. /\ DOMAIN order = 1..n
      /\ \A k \in 1..n : order[k] \in 1..n
      /\ \A i \in 1..n : \E k \in 1..n : order[k] = i
      /\ \A k, l \in 1..n : k < l <=> FormLess(other, order[k], order[l])
  <2>1. Formed(other) /\ order = Sorted(other)
    BY <1>2, <1>7
  <2>2. /\ DOMAIN order = 1..Len(other)
        /\ \A k \in 1..Len(other) : order[k] \in 1..Len(other)
        /\ \A i \in 1..Len(other) : \E k \in 1..Len(other) : order[k] = i
        /\ \A k, l \in 1..Len(other) : k < l <=> FormLess(other, order[k], order[l])
    BY ONLY <2>1, SortedIs
  <2> QED
    BY ONLY <1>2, <2>2
<1>9. order = [k \in 1..n |-> order[k]]
  BY <1>3, <1>8
<1>10. ASSUME NEW k \in 1..n, NEW l \in 1..n, k < l
       PROVE  ~WordLess(forms[order[l]], forms[order[k]])
  <2> DEFINE a == forms[order[k]]
             b == forms[order[l]]
  <2>1. a \in Seq(Nat) /\ b \in Seq(Nat)
    BY <1>8
  <2>2. WordLess(a, b) \/ a = b
    <3>1. FormLess(other, order[k], order[l]) /\ order[k] \in S /\ order[l] \in S
      BY <1>8, <1>10 DEF S
    <3> QED
      BY <1>1, <3>1 DEF FormLess
  <2> HIDE DEF a, b
  <2>3. ~WordLess(b, a)
    BY <2>1, <2>2, WordLessIrreflexive, WordLessTransitive
  <2> QED
    BY <2>3 DEF a, b
<1> QED
  BY <1>8, <1>9, <1>10 DEF InFormOrder

\* For each form the run of the places that have it, and no other run.
RunsAre(runs, forms, order, n, m) ==
  /\ DOMAIN runs = 1..m
  /\ \A j \in 1..m :
       /\ runs[j].word \in Seq(Nat) /\ runs[j].value.start \in Nat /\ runs[j].value.len \in Nat
       /\ \A k \in runs[j].value.start..(runs[j].value.start + runs[j].value.len - 1) :
            k \in 1..n /\ forms[order[k]] = runs[j].word
  /\ \A k \in 1..n : \E j \in 1..m :
       /\ forms[order[k]] = runs[j].word
       /\ k \in runs[j].value.start..(runs[j].value.start + runs[j].value.len - 1)
  /\ \A i, j \in 1..m : runs[i].word = runs[j].word => i = j

FirstPlace(forms, order, n) ==
  [k \in 1..n |-> Least({j \in 1..n : forms[order[j]] = forms[order[k]]})]

PlacesAre(at, forms, order, n) ==
  /\ at \in [1..n -> Nat]
  /\ \A k, l \in 1..n : at[k] = at[l] <=> forms[order[k]] = forms[order[l]]
  /\ \A k, l \in 1..n : k < l => at[k] <= at[l]

\* The first place with a form does not come down along the order.
LEMMA FirstPlaceIs ==
  ASSUME NEW n \in Nat, NEW forms \in [1..n -> Seq(Nat)], NEW order, InFormOrder(order, forms, n),
         NEW at, at = FirstPlace(forms, order, n)
  PROVE  PlacesAre(at, forms, order, n)
<1>1. \A k \in 1..n : order[k] \in 1..n /\ forms[order[k]] \in Seq(Nat) /\ k \in Nat
  BY DEF InFormOrder
<1>2. DOMAIN at = 1..n /\ at = [k \in 1..n |-> at[k]]
  BY DEF FirstPlace
<1>3. ASSUME NEW k \in 1..n
      PROVE  /\ at[k] \in 1..n /\ forms[order[at[k]]] = forms[order[k]]
             /\ \A j \in 1..n : forms[order[j]] = forms[order[k]] => at[k] <= j
  <2> DEFINE T == {j \in 1..n : forms[order[j]] = forms[order[k]]}
  <2>1. T \subseteq Nat /\ k \in T
    BY <1>1
  <2>2. at[k] = Least(T)
    BY DEF FirstPlace
  <2>3. Least(T) \in T /\ \A y \in T : Least(T) <= y
    <3> HIDE DEF T
    <3> QED BY ONLY <2>1, LeastIs
  <2> QED
    BY ONLY <2>2, <2>3
<1>4. \A k, l \in 1..n : at[k] = at[l] <=> forms[order[k]] = forms[order[l]]
  <2> SUFFICES ASSUME NEW k \in 1..n, NEW l \in 1..n
               PROVE  at[k] = at[l] <=> forms[order[k]] = forms[order[l]]
    OBVIOUS
  <2>1. at[k] = at[l] => forms[order[k]] = forms[order[l]]
    BY ONLY <1>3, k \in 1..n, l \in 1..n
  <2>2. ASSUME forms[order[k]] = forms[order[l]] PROVE at[k] = at[l]
    <3>1. at[k] \in 1..n /\ at[l] \in 1..n /\ at[k] <= at[l] /\ at[l] <= at[k]
      <4>1. forms[order[at[k]]] = forms[order[l]] /\ forms[order[at[l]]] = forms[order[k]]
        BY ONLY <1>3, <2>2, k \in 1..n, l \in 1..n
      <4> QED
        BY ONLY <1>3, <4>1, k \in 1..n, l \in 1..n
    <3> QED
      BY ONLY <3>1, n \in Nat
  <2> QED
    BY <2>1, <2>2
<1>5. ASSUME NEW k \in 1..n, NEW l \in 1..n, k < l PROVE at[k] <= at[l]
  <2>1. CASE forms[order[k]] = forms[order[l]]
    <3>1. at[k] = at[l] /\ at[k] \in Nat
      BY <1>3, <1>4, <2>1
    <3> QED
      BY <3>1
  <2>2. CASE forms[order[k]] # forms[order[l]]
    <3> DEFINE a == at[k]
               b == at[l]
    <3>1. /\ a \in 1..n /\ b \in 1..n
          /\ forms[order[a]] = forms[order[k]] /\ forms[order[b]] = forms[order[l]]
      BY ONLY <1>3, k \in 1..n, l \in 1..n
    <3> HIDE DEF a, b
    <3>2. ~WordLess(forms[order[l]], forms[order[k]])
      BY <1>5 DEF InFormOrder
    <3>3. WordLess(forms[order[k]], forms[order[l]])
      BY <1>1, <2>2, <3>2, WordLessTotal
    <3>4. b < a => ~WordLess(forms[order[a]], forms[order[b]])
      BY <3>1 DEF InFormOrder
    <3>5. a <= b
      BY <3>1, <3>3, <3>4
    <3> QED
      BY <3>5 DEF a, b
  <2> QED
    BY <2>1, <2>2
<1>6. at \in [1..n -> Nat]
  BY <1>2, <1>3
<1> QED
  BY ONLY <1>4, <1>5, <1>6 DEF PlacesAre

\* The runs divide the order by stripped form.
LEMMA RunsDivideForms ==
  ASSUME NEW n \in Nat, NEW forms \in [1..n -> Seq(Nat)], NEW order, InFormOrder(order, forms, n),
         NEW runs, runs = StrippedRuns(forms, order)
  PROVE  \E m \in Nat : RunsAre(runs, forms, order, n, m)
<1> DEFINE S == {k \in 1..n : k = 1 \/ forms[order[k]] # forms[order[k - 1]]}
           ascending == Ascending(S)
           hi == n + 1
<1>1. PICK at : at = FirstPlace(forms, order, n)
  OBVIOUS
<1>2. /\ at \in [1..n -> Nat]
      /\ \A k, l \in 1..n : at[k] = at[l] <=> forms[order[k]] = forms[order[l]]
      /\ \A k, l \in 1..n : k < l => at[k] <= at[l]
  <2>1. PlacesAre(at, forms, order, n)
    BY <1>1, FirstPlaceIs
  <2> QED
    BY ONLY <2>1 DEF PlacesAre
<1>3. /\ 1 \in Nat /\ hi \in Nat /\ 1 <= hi /\ hi - 1 = n /\ DOMAIN order = 1..n
      /\ \A k \in 1..n : order[k] \in 1..n /\ forms[order[k]] \in Seq(Nat)
  <2>1. order \in [1..n -> 1..n]
    BY ONLY InFormOrder(order, forms, n) DEF InFormOrder
  <2>2. \A k \in 1..n : order[k] \in 1..n
    BY ONLY <2>1
  <2>3. \A k \in 1..n : forms[k] \in Seq(Nat)
    OBVIOUS
  <2>4. DOMAIN order = 1..n
    BY ONLY <2>1
  <2>5. 1 \in Nat /\ hi \in Nat /\ 1 <= hi /\ hi - 1 = n
    BY n \in Nat
  <2> QED
    BY ONLY <2>2, <2>3, <2>4, <2>5
<1>4. Len(order) = n
  <2>1. order \in [1..n -> 1..n]
    BY ONLY InFormOrder(order, forms, n) DEF InFormOrder
  <2>2. order = [k \in 1..n |-> order[k]]
    BY ONLY <2>1
  <2> QED
    BY ONLY <2>2, n \in Nat
<1>5. runs = [i \in DOMAIN ascending |->
                [word |-> forms[order[ascending[i]]],
                 value |-> [start |-> ascending[i],
                            len |-> (IF i = Len(ascending) THEN hi ELSE ascending[i + 1])
                                      - ascending[i]]]]
  <2>1. StrippedRuns(forms, order)
          = [i \in DOMAIN ascending |->
               [word |-> forms[order[ascending[i]]],
                value |-> [start |-> ascending[i],
                           len |-> (IF i = Len(ascending) THEN hi ELSE ascending[i + 1])
                                     - ascending[i]]]]
    BY ONLY <1>4 DEF StrippedRuns, Ranked, Ascending
  <2> HIDE DEF ascending
  <2> QED
    BY ONLY <2>1, runs = StrippedRuns(forms, order)
<1>6. S = StartsOf(at, 1, hi)
  <2>1. \A k \in 1..n : k # 1 => k - 1 \in 1..n
    BY <1>3
  <2> QED
    BY ONLY <1>2, <1>3, <2>1 DEF StartsOf
<1>7. PICK g : g = RunsOf(ascending, at, hi)
  OBVIOUS
<1>8. Divided(g, at, 1, hi)
  <2> DEFINE h == RunsOf(Ascending(StartsOf(at, 1, hi)), at, hi)
  <2>1. g = h
    BY ONLY <1>6, <1>7
  <2>2. Divided(h, at, 1, hi)
    <3>1. at \in [1..(hi - 1) -> Nat] /\ \A k, l \in 1..(hi - 1) : k < l => at[k] <= at[l]
      BY ONLY <1>2, <1>3
    <3> HIDE DEF hi
    <3> QED
      BY ONLY <1>3, <3>1, RunsAreDivided
  <2> HIDE DEF h
  <2> QED
    BY ONLY <2>1, <2>2
<1> HIDE DEF S
<1> DEFINE m == Len(g)
<1>9. /\ DOMAIN g = DOMAIN ascending
      /\ \A i \in DOMAIN ascending :
           /\ g[i].label = at[ascending[i]] /\ g[i].lo = ascending[i]
           /\ g[i].hi = IF i = Len(ascending) THEN hi ELSE ascending[i + 1]
  <2> HIDE DEF ascending, hi
  <2> QED BY ONLY <1>7 DEF RunsOf
<1>10. /\ DOMAIN runs = DOMAIN g
       /\ \A i \in DOMAIN g : /\ runs[i].word = forms[order[g[i].lo]]
                              /\ runs[i].value.start = g[i].lo
                              /\ runs[i].value.len = g[i].hi - g[i].lo
                              /\ g[i].label = at[g[i].lo]
  <2> HIDE DEF ascending, hi
  <2> QED BY ONLY <1>5, <1>9
<1> HIDE DEF ascending
<1>11. /\ m \in Nat /\ DOMAIN g = 1..m
       /\ \A i \in 1..m : /\ g[i].lo \in Nat /\ g[i].hi \in Nat
                          /\ 1 <= g[i].lo /\ g[i].lo < g[i].hi /\ g[i].hi <= hi
                          /\ \A k \in 1..n : at[k] = g[i].label <=> k \in g[i].lo..(g[i].hi - 1)
       /\ \A i, j \in 1..m : i < j => g[i].label < g[j].label
       /\ \A i \in 1..m : g[i].label \in Nat
       /\ \A k \in 1..n : \E i \in 1..m : k \in g[i].lo..(g[i].hi - 1)
  <2> HIDE DEF hi
  <2> QED BY ONLY <1>3, <1>8 DEF Divided
<1> HIDE DEF m
<1>12. ASSUME NEW j \in 1..m
       PROVE  /\ g[j].lo \in 1..n
              /\ runs[j].word = forms[order[g[j].lo]]
              /\ runs[j].word \in Seq(Nat)
              /\ runs[j].value.start \in Nat /\ runs[j].value.len \in Nat
              /\ runs[j].value.start = g[j].lo
              /\ runs[j].value.start + runs[j].value.len - 1 = g[j].hi - 1
              /\ \A k \in 1..n : forms[order[k]] = runs[j].word <=> k \in g[j].lo..(g[j].hi - 1)
  <2>1. /\ g[j].lo \in Nat /\ g[j].hi \in Nat /\ 1 <= g[j].lo /\ g[j].lo < g[j].hi /\ g[j].hi <= hi
        /\ \A k \in 1..n : at[k] = g[j].label <=> k \in g[j].lo..(g[j].hi - 1)
    BY ONLY <1>11, j \in 1..m
  <2>2. /\ runs[j].word = forms[order[g[j].lo]]
        /\ runs[j].value.start = g[j].lo
        /\ runs[j].value.len = g[j].hi - g[j].lo
        /\ g[j].label = at[g[j].lo]
    BY ONLY <1>10, <1>11, j \in 1..m
  <2>3. g[j].lo \in 1..n
    BY ONLY <1>3, <2>1, n \in Nat
  <2>4. \A k \in 1..n : forms[order[k]] = runs[j].word <=> k \in g[j].lo..(g[j].hi - 1)
    <3> SUFFICES ASSUME NEW k \in 1..n
                 PROVE  forms[order[k]] = runs[j].word <=> k \in g[j].lo..(g[j].hi - 1)
      OBVIOUS
    <3>1. at[k] = at[g[j].lo] <=> forms[order[k]] = forms[order[g[j].lo]]
      <4>1. \A a, b \in 1..n : at[a] = at[b] <=> forms[order[a]] = forms[order[b]]
        BY ONLY <1>2
      <4> QED
        BY ONLY <2>3, <4>1, k \in 1..n, Zenon
    <3>2. at[k] = g[j].label <=> k \in g[j].lo..(g[j].hi - 1)
      BY ONLY <2>1, k \in 1..n
    <3> QED
      BY ONLY <2>2, <3>1, <3>2
  <2>5. /\ runs[j].value.len \in Nat
        /\ runs[j].value.start + runs[j].value.len - 1 = g[j].hi - 1
    <3>1. PICK a, b, u : a = g[j].lo /\ b = g[j].hi /\ u = runs[j].value
      OBVIOUS
    <3>2. a \in Nat /\ b \in Nat /\ a < b /\ u.start = a /\ u.len = b - a
      BY ONLY <2>1, <2>2, <3>1
    <3>3. u.len \in Nat
      BY ONLY <3>2
    <3>4. a + (b - a) - 1 = b - 1
      BY ONLY <3>2
    <3>5. u.start + u.len - 1 = b - 1
      BY ONLY <3>2, <3>4
    <3> QED
      BY ONLY <3>1, <3>3, <3>5
  <2> QED
    BY ONLY <1>3, <2>1, <2>2, <2>3, <2>4, <2>5
<1>13. ASSUME NEW j \in 1..m,
              NEW k \in runs[j].value.start..(runs[j].value.start + runs[j].value.len - 1)
       PROVE  k \in 1..n /\ forms[order[k]] = runs[j].word
  <2>1. k \in g[j].lo..(g[j].hi - 1)
    BY ONLY <1>12, <1>13
  <2>2. g[j].lo \in Nat /\ g[j].hi \in Nat /\ 1 <= g[j].lo /\ g[j].hi <= n + 1
    BY ONLY <1>11, j \in 1..m DEF hi
  <2>3. k \in 1..n
    BY ONLY <2>1, <2>2, n \in Nat
  <2> QED
    BY ONLY <1>12, <2>1, <2>3, j \in 1..m
<1>14. ASSUME NEW k \in 1..n
       PROVE  \E j \in 1..m :
                /\ forms[order[k]] = runs[j].word
                /\ k \in runs[j].value.start..(runs[j].value.start + runs[j].value.len - 1)
  <2>1. PICK j \in 1..m : k \in g[j].lo..(g[j].hi - 1)
    BY ONLY <1>11, k \in 1..n
  <2> QED
    BY ONLY <1>12, <2>1, k \in 1..n
<1>15. ASSUME NEW i \in 1..m, NEW j \in 1..m, runs[i].word = runs[j].word
       PROVE  i = j
  <2>1. g[i].label = at[g[i].lo] /\ g[j].label = at[g[j].lo]
    BY ONLY <1>10, <1>11, i \in 1..m, j \in 1..m
  <2>2. at[g[i].lo] = at[g[j].lo]
    <3>1. \A a, b \in 1..n : at[a] = at[b] <=> forms[order[a]] = forms[order[b]]
      BY ONLY <1>2
    <3>2. /\ g[i].lo \in 1..n /\ g[j].lo \in 1..n
          /\ forms[order[g[i].lo]] = forms[order[g[j].lo]]
      BY ONLY <1>12, <1>15, i \in 1..m, j \in 1..m
    <3> QED
      BY ONLY <3>1, <3>2, Zenon
  <2>3. g[i].label = g[j].label /\ g[i].label \in Nat /\ ~(i < j) /\ ~(j < i)
    BY ONLY <1>11, <2>1, <2>2, i \in 1..m, j \in 1..m
  <2> QED
    BY ONLY <1>11, <2>3, i \in 1..m, j \in 1..m
<1>16. RunsAre(runs, forms, order, n, m)
  <2>1. DOMAIN runs = 1..m
    BY ONLY <1>10, <1>11
  <2> QED
    BY ONLY <2>1, <1>12, <1>13, <1>14, <1>15 DEF RunsAre
<1> QED
  BY ONLY <1>11, <1>16
PlacesIn(order, found) ==
  UNION {{order[k] : k \in found[r].start..(found[r].start + found[r].len - 1)} :
         r \in DOMAIN found}

NearForms(forms, n, w, limit) == {i \in 1..n : UnitDistance(forms[i], w) <= limit}

\* The runs that a search of their trie finds are those of the near forms.
LEMMA RunsFound ==
  ASSUME NEW n \in Nat, NEW forms \in [1..n -> Seq(Nat)], NEW order, InFormOrder(order, forms, n),
         NEW runs, runs = StrippedRuns(forms, order), NEW w \in Seq(Nat), NEW limit \in Nat,
         NEW found, found = FuzzyTerminals(TrieOf(runs), w, limit)
  PROVE  PlacesIn(order, found) = NearForms(forms, n, w, limit)
<1>1. PICK m \in Nat : RunsAre(runs, forms, order, n, m)
  BY RunsDivideForms
<1>2. /\ DOMAIN runs = 1..m
      /\ \A j \in 1..m : runs[j].word \in Seq(Nat)
      /\ \A j \in 1..m :
           \A k \in runs[j].value.start..(runs[j].value.start + runs[j].value.len - 1) :
             k \in 1..n /\ forms[order[k]] = runs[j].word
      /\ \A k \in 1..n : \E j \in 1..m :
           /\ forms[order[k]] = runs[j].word
           /\ k \in runs[j].value.start..(runs[j].value.start + runs[j].value.len - 1)
      /\ \A i, j \in 1..m : runs[i].word = runs[j].word => i = j
  BY ONLY <1>1 DEF RunsAre
<1>3. PICK W : W = SortedWords(runs)
  OBVIOUS
<1>4. InOrder(W) /\ SortedFrom(W, runs)
  BY ONLY <1>1, <1>2, <1>3, SortedWordsAre
<1>5. PICK t : t = TrieOfSorted(W)
  OBVIOUS
<1>6. TrieOf(runs) = t
  BY ONLY <1>3, <1>5 DEF TrieOf
<1>7. PICK X, N : Finished(t, X, W, N)
  BY ONLY <1>4, <1>5, TrieIsGrown
<1>8. FoundNear(found, W, w, limit)
  <2>1. FoundNear(FuzzyTerminals(t, w, limit), W, w, limit)
    BY <1>7, FuzzyIs
  <2> QED
    BY ONLY <1>6, <2>1, found = FuzzyTerminals(TrieOf(runs), w, limit)
<1>9. \A k \in DOMAIN W : \E j \in 1..m : W[k] = runs[j]
  BY ONLY <1>2, <1>4 DEF SortedFrom
<1>10. \A j \in 1..m : \E k \in DOMAIN W : W[k] = runs[j]
  <2> SUFFICES ASSUME NEW j \in 1..m PROVE \E k \in DOMAIN W : W[k] = runs[j]
    OBVIOUS
  <2>1. PICK k \in DOMAIN W : W[k].word = runs[j].word
    BY ONLY <1>2, <1>4, j \in 1..m DEF SortedFrom
  <2>2. PICK i \in 1..m : W[k] = runs[i]
    BY ONLY <1>9, <2>1
  <2>3. i = j
    BY ONLY <1>2, <2>1, <2>2, j \in 1..m
  <2> QED
    BY ONLY <2>1, <2>2, <2>3
<1>11. \A i \in 1..n : \E k \in 1..n : order[k] = i
  BY ONLY InFormOrder(order, forms, n) DEF InFormOrder
<1>12. \A k \in 1..n : order[k] \in 1..n
  <2>1. order \in [1..n -> 1..n]
    BY ONLY InFormOrder(order, forms, n) DEF InFormOrder
  <2> QED
    BY ONLY <2>1
<1>13. \A r \in DOMAIN found : \E q \in NearTo(W, w, limit) : found[r] = W[q].value
  <2> DEFINE D == {W[q].value : q \in NearTo(W, w, limit)}
  <2>1. found \in Seq(D)
    BY ONLY <1>8 DEF FoundNear
  <2>2. \A d \in D : \E q \in NearTo(W, w, limit) : d = W[q].value
    OBVIOUS
  <2> HIDE DEF D
  <2>3. \A r \in DOMAIN found : found[r] \in D
    BY ONLY <2>1
  <2> QED
    BY ONLY <2>2, <2>3
<1>14. \A q \in NearTo(W, w, limit) : \E r \in DOMAIN found : found[r] = W[q].value
  <2> DEFINE D == {W[q].value : q \in NearTo(W, w, limit)}
  <2>1. found \in Seq(D) /\ \A q \in NearTo(W, w, limit) : \E r \in 1..Len(found) : found[r] = W[q].value
    BY ONLY <1>8 DEF FoundNear
  <2> HIDE DEF D
  <2>2. DOMAIN found = 1..Len(found)
    BY ONLY <2>1
  <2> QED
    BY ONLY <2>1, <2>2
<1>15. ASSUME NEW x \in PlacesIn(order, found)
       PROVE  x \in NearForms(forms, n, w, limit)
  <2>1. PICK r \in DOMAIN found :
          \E k \in found[r].start..(found[r].start + found[r].len - 1) : x = order[k]
    BY ONLY <1>15 DEF PlacesIn
  <2>2. PICK k \in found[r].start..(found[r].start + found[r].len - 1) : x = order[k]
    BY ONLY <2>1
  <2>3. PICK q \in NearTo(W, w, limit) : found[r] = W[q].value
    BY ONLY <1>13, <2>1
  <2>4. q \in DOMAIN W /\ UnitDistance(W[q].word, w) <= limit
    BY ONLY <2>3 DEF NearTo
  <2>5. PICK j \in 1..m : W[q] = runs[j]
    BY ONLY <1>9, <2>4
  <2>6. k \in 1..n /\ forms[order[k]] = runs[j].word
    <3>1. k \in runs[j].value.start..(runs[j].value.start + runs[j].value.len - 1)
      BY ONLY <2>2, <2>3, <2>5
    <3> QED
      BY ONLY <1>2, <2>5, <3>1
  <2>7. x \in 1..n /\ UnitDistance(forms[x], w) <= limit
    BY ONLY <1>12, <2>2, <2>4, <2>5, <2>6
  <2> QED
    BY ONLY <2>7 DEF NearForms
<1>16. ASSUME NEW x \in NearForms(forms, n, w, limit)
       PROVE  x \in PlacesIn(order, found)
  <2>1. x \in 1..n /\ UnitDistance(forms[x], w) <= limit
    BY ONLY <1>16 DEF NearForms
  <2>2. PICK k \in 1..n : order[k] = x
    BY ONLY <1>11, <2>1
  <2>3. PICK j \in 1..m :
          /\ forms[order[k]] = runs[j].word
          /\ k \in runs[j].value.start..(runs[j].value.start + runs[j].value.len - 1)
    BY ONLY <1>2, <2>2
  <2>4. PICK q \in DOMAIN W : W[q] = runs[j]
    BY ONLY <1>10, <2>3
  <2>5. q \in NearTo(W, w, limit)
    BY ONLY <2>1, <2>2, <2>3, <2>4 DEF NearTo
  <2>6. PICK r \in DOMAIN found : found[r] = W[q].value
    BY ONLY <1>14, <2>5
  <2>7. k \in found[r].start..(found[r].start + found[r].len - 1)
    BY ONLY <2>3, <2>4, <2>6
  <2> QED
    BY ONLY <2>2, <2>6, <2>7 DEF PlacesIn
<1> QED
  BY ONLY <1>15, <1>16

\* A set of positions, ranked, is that set.
LEMMA RankedPlaces ==
  ASSUME NEW S, S \subseteq Nat, IsFiniteSet(S), NEW near, near = Ascending(S)
  PROVE  {near[k] : k \in DOMAIN near} = S
<1>1. IsAscending(near, S)
  BY NumbersRanked
<1>2. near \in Seq(S) /\ \A x \in S : \E k \in DOMAIN near : near[k] = x
  BY ONLY <1>1 DEF IsAscending
<1>3. \A k \in DOMAIN near : near[k] \in S
  BY ONLY <1>2
<1> QED
  BY ONLY <1>2, <1>3

\* Taking the diacritics off leaves a word.
LEMMA StripType ==
  ASSUME NEW w \in Seq(Nat)
  PROVE  StripDiacritics(w) \in Seq(Nat)
<1>1. \A c \in Nat : Mapped(BaseOf, c) \in Nat
  BY LettersAssumption DEF Mapped
<1>2. PICK v : v = Normalize(w)
  OBVIOUS
<1>3. v \in Seq(Nat)
  BY <1>2, NormalizeType
<1>4. /\ StripDiacritics(w) = [i \in 1..Len(v) |-> Mapped(BaseOf, v[i])]
      /\ Len(v) \in Nat /\ \A i \in 1..Len(v) : v[i] \in Nat
  BY ONLY <1>2, <1>3 DEF StripDiacritics, Unaccented
<1>5. PICK f, n : n = Len(v) /\ f = [i \in 1..n |-> Mapped(BaseOf, v[i])]
  OBVIOUS
<1>6. n \in Nat /\ f = [i \in 1..n |-> f[i]] /\ \A i \in 1..n : f[i] \in Nat
  BY ONLY <1>1, <1>4, <1>5
<1>7. f \in Seq(Nat)
  BY ONLY <1>6, Sequenced
<1> QED
  BY ONLY <1>4, <1>5, <1>7

\* The index of a lexicon finds the positions of the near forms.
LEMMA IndexFinds ==
  ASSUME NEW lexicon, Formed(lexicon), NEW index, index = IndexOf(lexicon),
         NEW w \in Seq(Nat), NEW limit \in Nat, NEW near, near = NearPositions(index, w, limit)
  PROVE  /\ {near[k] : k \in DOMAIN near}
              = {i \in DOMAIN lexicon : UnitDistance(StripDiacritics(lexicon[i].normalized), w) <= limit}
         /\ near = Ascending({near[k] : k \in DOMAIN near})
<1>1. PICK n : n = Len(lexicon)
  OBVIOUS
<1>2. /\ n \in Nat /\ DOMAIN lexicon = 1..n
      /\ \A i \in 1..n : StripDiacritics(lexicon[i].normalized) \in Seq(Nat)
  <2>1. n \in Nat /\ DOMAIN lexicon = 1..n
    BY <1>1, ListIs DEF Formed
  <2> QED
    BY <2>1, StripType DEF Formed
<1>3. PICK forms : forms = [i \in DOMAIN lexicon |-> StripDiacritics(lexicon[i].normalized)]
  OBVIOUS
<1>4. /\ forms \in [1..n -> Seq(Nat)]
      /\ \A i \in 1..n : forms[i] = StripDiacritics(lexicon[i].normalized)
  BY ONLY <1>2, <1>3
<1>5. PICK order : order = FormOrder(lexicon, forms)
  OBVIOUS
<1>6. PICK runs : runs = StrippedRuns(forms, order)
  OBVIOUS
<1>7. index.byStripped = order /\ index.trie = TrieOf(runs)
  <2>1. index = [byNormalized |-> Sorted(lexicon), byStripped |-> order, trie |-> TrieOf(runs)]
    BY ONLY <1>3, <1>5, <1>6, index = IndexOf(lexicon) DEF IndexOf, FormOrder, Sorted
  <2> QED
    BY ONLY <2>1
<1>8. InFormOrder(order, forms, n)
  BY ONLY <1>2, <1>4, <1>5, StrippedSorted
<1>9. PICK found : found = FuzzyTerminals(index.trie, w, limit)
  OBVIOUS
<1>10. PlacesIn(order, found) = NearForms(forms, n, w, limit)
  BY ONLY <1>2, <1>4, <1>6, <1>7, <1>8, <1>9, w \in Seq(Nat), limit \in Nat, RunsFound
<1>11. near = Ascending(PlacesIn(order, found))
  BY ONLY <1>7, <1>9, near = NearPositions(index, w, limit)
     DEF NearPositions, Ranked, Ascending, PlacesIn
<1>12. NearForms(forms, n, w, limit) \subseteq Nat /\ IsFiniteSet(NearForms(forms, n, w, limit))
  <2> DEFINE S == NearForms(forms, n, w, limit)
  <2>1. S \subseteq 1..n
    BY DEF NearForms
  <2>2. IsFiniteSet(1..n) /\ 1..n \subseteq Nat
    BY <1>2, FS_Interval
  <2> HIDE DEF S
  <2>3. S \subseteq Nat /\ IsFiniteSet(S)
    BY ONLY <2>1, <2>2, FS_Subset
  <2> QED
    BY <2>3 DEF S
<1>13. {near[k] : k \in DOMAIN near} = NearForms(forms, n, w, limit)
  BY ONLY <1>10, <1>11, <1>12, RankedPlaces
<1>14. NearForms(forms, n, w, limit)
         = {i \in DOMAIN lexicon : UnitDistance(StripDiacritics(lexicon[i].normalized), w) <= limit}
  BY ONLY <1>2, <1>4 DEF NearForms
<1> QED
  BY ONLY <1>10, <1>11, <1>13, <1>14

(***************************************************************************)
(* The weighted table, and what it says of the distance at unit cost.      *)
(***************************************************************************)
WeighedCosts(c, w) == [j \in 1..Len(w) |-> SubstitutionCost(c, w[j])]

WeighedRow(row, d, c, p, prev, prev2, w) ==
  RowIs(row, Len(w), d * Gap, prev, prev2, WeighedCosts(c, w), UnitTurns(d, c, p, w), Gap, Swap)

\* What is needed for a weighted row.
LEMMA WeighedGiven ==
  ASSUME NEW w \in Seq(Nat), NEW d \in Nat, NEW c, NEW p,
         NEW prev, RowOf(prev, w), NEW prev2, RowOf(prev2, w)
  PROVE  RowGiven(Len(w), d * Gap, prev, prev2, WeighedCosts(c, w), UnitTurns(d, c, p, w), Gap, Swap)
<1>1. Len(w) \in Nat
  OBVIOUS
<1>2. WeighedCosts(c, w) \in [1..Len(w) -> Nat]
  BY DEF WeighedCosts, SubstitutionCost
<1>3. UnitTurns(d, c, p, w) \subseteq 2..Len(w)
  BY DEF UnitTurns
<1>4. Gap \in Nat /\ Swap \in Nat /\ d * Gap \in Nat
  BY DEF Gap, Swap
<1> QED
  BY ONLY <1>1, <1>2, <1>3, <1>4, RowOf(prev, w), RowOf(prev2, w) DEF RowOf, RowGiven

\* The scorer fills such a row.
LEMMA NextWeighedRowIs ==
  ASSUME NEW w \in Seq(Nat), NEW d \in Nat, NEW c, NEW p,
         NEW prev, RowOf(prev, w), NEW prev2, RowOf(prev2, w),
         NEW row, row = NextRow(d, c, p, prev, prev2, w, SubstitutionCost, Gap, Swap)
  PROVE  WeighedRow(row, d, c, p, prev, prev2, w) /\ RowOf(row, w)
<1> DEFINE n == Len(w)
           cost == WeighedCosts(c, w)
           turns == UnitTurns(d, c, p, w)
           Choices(r, j) == {prev[j] + SubstitutionCost(c, w[j]), prev[j + 1] + Gap, r[j] + Gap}
                              \cup (IF d >= 2 /\ j >= 2 /\ c = w[j - 1] /\ p = w[j]
                                    THEN {prev2[j - 1] + Swap} ELSE {})
           cells == CHOOSE f : f = [j \in 0..n |->
                      IF j = 0 THEN <<d * Gap>> ELSE Append(f[j - 1], Least(Choices(f[j - 1], j)))]
<1>1. row = cells[n]
  BY DEF NextRow
<1>2. n \in Nat
  OBVIOUS
<1>3. \A j \in 1..n : \A r : Choices(r, j) = CellChoices(r, j, prev, prev2, cost, turns, Gap, Swap)
  <2> SUFFICES ASSUME NEW j \in 1..n, NEW r
               PROVE  Choices(r, j) = CellChoices(r, j, prev, prev2, cost, turns, Gap, Swap)
    OBVIOUS
  <2>1. cost[j] = SubstitutionCost(c, w[j])
    BY DEF WeighedCosts
  <2>2. j \in turns <=> d >= 2 /\ j >= 2 /\ c = w[j - 1] /\ p = w[j]
    BY DEF UnitTurns
  <2> HIDE DEF cost, turns
  <2> QED
    BY <2>1, <2>2 DEF CellChoices
<1>5. RowGiven(n, d * Gap, prev, prev2, cost, turns, Gap, Swap)
  BY WeighedGiven
<1> HIDE DEF Choices, n
<1>6. \A f : (f = [j \in 0..n |-> IF j = 0 THEN <<d * Gap>> ELSE Append(f[j - 1], Least(Choices(f[j - 1], j)))])
             <=> CellsTo(f, n, d * Gap, prev, prev2, cost, turns, Gap, Swap)
  <2> SUFFICES ASSUME NEW f
               PROVE (f = [j \in 0..n |-> IF j = 0 THEN <<d * Gap>> ELSE Append(f[j - 1], Least(Choices(f[j - 1], j)))])
                      <=> CellsTo(f, n, d * Gap, prev, prev2, cost, turns, Gap, Swap)
    OBVIOUS
  <2> DEFINE C(r, j) == CellChoices(r, j, prev, prev2, cost, turns, Gap, Swap)
  <2> HIDE DEF C, cost, turns
  <2>1. \A j \in 1..n : \A r : Choices(r, j) = C(r, j)
    BY <1>3 DEF C
  <2>2. [j \in 0..n |-> IF j = 0 THEN <<d * Gap>> ELSE Append(f[j - 1], Least(Choices(f[j - 1], j)))]
          = [j \in 0..n |-> IF j = 0 THEN <<d * Gap>> ELSE Append(f[j - 1], Least(C(f[j - 1], j)))]
    <3>1. ASSUME NEW j \in 0..n
          PROVE  (IF j = 0 THEN <<d * Gap>> ELSE Append(f[j - 1], Least(Choices(f[j - 1], j))))
                   = (IF j = 0 THEN <<d * Gap>> ELSE Append(f[j - 1], Least(C(f[j - 1], j))))
      <4>1. j # 0 => j \in 1..n
        BY <1>2
      <4> QED
        BY <2>1, <4>1
    <3> QED
      BY ONLY <3>1
  <2> QED
    BY ONLY <2>2 DEF CellsTo, C
<1>7. PICK f : CellsTo(f, n, d * Gap, prev, prev2, cost, turns, Gap, Swap)
  BY <1>2, CellsExist
<1>8. CellsTo(cells, n, d * Gap, prev, prev2, cost, turns, Gap, Swap)
  <2> HIDE DEF cost, turns
  <2> QED
    BY ONLY <1>6, <1>7 DEF cells
<1> HIDE DEF cells, cost, turns
<1>9. RowIs(row, n, d * Gap, prev, prev2, cost, turns, Gap, Swap)
  BY ONLY <1>1, <1>5, <1>8, CellsAreRow
<1> QED
  BY ONLY <1>9 DEF WeighedRow, RowOf, RowIs, n, cost, turns

WeighedTable(R, path, m, w) ==
  /\ R \in Seq(Seq(Nat)) /\ Len(R) = m + 1
  /\ \A d \in 1..(m + 1) : RowOf(R[d], w)
  /\ R[1] = FirstRow(Len(w), Gap)
  /\ \A d \in 1..m : WeighedRow(R[d + 1], d, path[d], path[Back(d)], R[d], R[Back(d)], w)

\* The first row is a row.
LEMMA FirstWeighedRowIs ==
  ASSUME NEW w \in Seq(Nat), NEW row, row = FirstRow(Len(w), Gap)
  PROVE  RowOf(row, w) /\ \A j \in 1..(Len(w) + 1) : row[j] = (j - 1) * Gap
<1> DEFINE n == Len(w)
<1>1. n \in Nat
  OBVIOUS
<1> HIDE DEF n
<1>2. row = [j \in 1..(n + 1) |-> (j - 1) * Gap]
  BY DEF FirstRow, n
<1>3. \A j \in 1..(n + 1) : row[j] = (j - 1) * Gap /\ row[j] \in Nat
  BY ONLY <1>1, <1>2 DEF Gap
<1>4. row = [j \in 1..(n + 1) |-> row[j]]
  BY ONLY <1>2
<1>5. row \in Seq(Nat) /\ Len(row) = n + 1
  <2> DEFINE k == n + 1
  <2>1. \A j \in 1..k : row[j] \in Nat
    BY ONLY <1>3
  <2>2. k \in Nat /\ row = [j \in 1..k |-> row[j]]
    BY ONLY <1>1, <1>4
  <2> HIDE DEF k
  <2>3. row \in Seq(Nat) /\ Len(row) = k
    BY ONLY <2>1, <2>2, Sequenced
  <2> QED
    BY ONLY <2>3 DEF k
<1> QED
  BY ONLY <1>3, <1>5 DEF RowOf, n

\* A table goes on with another letter.
LEMMA WeighedTableGrows ==
  ASSUME NEW w \in Seq(Nat), NEW m \in Nat, NEW R, NEW P, WeighedTable(R, P, m, w),
         NEW d \in 1..(m + 1), NEW Q, \A i \in 1..(d - 1) : Q[i] = P[i],
         NEW row, row = NextRow(d, Q[d], P[Back(d)], R[d], R[Back(d)], w, SubstitutionCost, Gap, Swap),
         NEW U, U = Append(SubSeq(R, 1, d), row)
  PROVE  WeighedTable(U, Q, d, w) /\ U[d + 1] = row
<1> DEFINE D == Seq(Nat)
<1>1. R \in Seq(D) /\ Len(R) = m + 1
  BY DEF WeighedTable
<1>2. d \in Nat /\ d <= m + 1 /\ Back(d) \in 1..d
  BY DEF Back
<1>3. RowOf(R[d], w) /\ RowOf(R[Back(d)], w)
  BY <1>2 DEF WeighedTable
<1>4. WeighedRow(row, d, Q[d], P[Back(d)], R[d], R[Back(d)], w) /\ RowOf(row, w)
  BY <1>2, <1>3, NextWeighedRowIs
<1>5. WeighedRow(row, d, Q[d], Q[Back(d)], R[d], R[Back(d)], w)
  <2>1. UnitTurns(d, Q[d], P[Back(d)], w) = UnitTurns(d, Q[d], Q[Back(d)], w)
    <3>1. CASE d = 1
      BY <3>1, FirstTurns
    <3>2. CASE d # 1
      <4>1. Back(d) \in 1..(d - 1)
        BY <1>2, <3>2 DEF Back
      <4> QED
        BY <4>1
    <3> QED
      BY <3>1, <3>2
  <2> QED
    BY <1>4, <2>1 DEF WeighedRow
<1>6. row \in D
  BY <1>4 DEF RowOf
<1> HIDE DEF D
<1> DEFINE H == SubSeq(R, 1, d)
<1>7. H \in Seq(D) /\ Len(H) = d /\ \A i \in 1..d : H[i] = R[i]
  <2>1. d <= Len(R)
    BY <1>1, <1>2
  <2> QED
    BY ONLY <1>1, <1>2, <2>1, HeadIs
<1> HIDE DEF H
<1>8. U \in Seq(D) /\ Len(U) = d + 1 /\ (\A i \in 1..d : U[i] = H[i]) /\ U[d + 1] = row
  <2>1. U = Append(H, row)
    BY DEF H
  <2> QED
    BY ONLY <1>2, <1>6, <1>7, <2>1
<1>9. \A i \in 1..d : U[i] = R[i]
  BY ONLY <1>7, <1>8
<1>10. \A i \in 1..(d + 1) : RowOf(U[i], w)
  <2> SUFFICES ASSUME NEW i \in 1..(d + 1) PROVE RowOf(U[i], w)
    OBVIOUS
  <2>1. i \in 1..d => i \in 1..(m + 1)
    BY <1>2
  <2>2. i \in 1..d \/ i = d + 1
    BY <1>2
  <2> QED
    BY <1>4, <1>8, <1>9, <2>1, <2>2 DEF WeighedTable
<1>11. U[1] = FirstRow(Len(w), Gap)
  BY <1>2, <1>9 DEF WeighedTable
<1>12. \A i \in 1..d : WeighedRow(U[i + 1], i, Q[i], Q[Back(i)], U[i], U[Back(i)], w)
  <2> SUFFICES ASSUME NEW i \in 1..d PROVE WeighedRow(U[i + 1], i, Q[i], Q[Back(i)], U[i], U[Back(i)], w)
    OBVIOUS
  <2>1. Back(i) \in 1..i /\ i \in Nat
    BY <1>2 DEF Back
  <2>2. U[i] = R[i] /\ U[Back(i)] = R[Back(i)]
    BY <1>9, <1>2, <2>1
  <2>3. CASE i = d
    BY <1>5, <1>8, <2>2, <2>3
  <2>4. CASE i # d
    <3>1. i \in 1..(d - 1) /\ i + 1 \in 1..d /\ Back(i) \in 1..(d - 1) /\ i \in 1..m
      BY <1>2, <2>1, <2>4
    <3>2. U[i + 1] = R[i + 1] /\ Q[i] = P[i] /\ Q[Back(i)] = P[Back(i)]
      BY <1>9, <3>1
    <3> QED
      BY <2>2, <3>1, <3>2 DEF WeighedTable
  <2> QED
    BY <2>3, <2>4
<1> QED
  BY ONLY <1>8, <1>10, <1>11, <1>12 DEF WeighedTable, D

WeighedLonger(done, i, v, w) ==
  LET j == IF i = 1 THEN 1 ELSE i - 1
  IN  Append(done, NextRow(i, v[i], v[j], done[i], done[j], w, SubstitutionCost, Gap, Swap))

WeighedTablesTo(f, m, v, w) ==
  f = [i \in 0..m |-> IF i = 0 THEN <<FirstRow(Len(w), Gap)>> ELSE WeighedLonger(f[i - 1], i, v, w)]

\* The tables of the beginnings of a word.
LEMMA WeighedTablesExist ==
  ASSUME NEW n \in Nat, NEW v, NEW w
  PROVE  \E f : WeighedTablesTo(f, n, v, w)
<1> DEFINE T == {m \in Nat : \E f : WeighedTablesTo(f, m, v, w)}
           start == <<FirstRow(Len(w), Gap)>>
<1>1. 0 \in T
  <2> DEFINE f == [k \in 0..0 |-> start]
  <2>1. WeighedTablesTo(f, 0, v, w)
    BY DEF WeighedTablesTo
  <2> QED
    BY <2>1
<1>2. ASSUME NEW m \in T PROVE \E f : WeighedTablesTo(f, m + 1, v, w)
  <2>1. PICK f : WeighedTablesTo(f, m, v, w)
    BY <1>2
  <2> DEFINE h == [k \in 0..(m + 1) |-> IF k = m + 1 THEN WeighedLonger(f[m], m + 1, v, w) ELSE f[k]]
  <2>2. m \in Nat
    BY <1>2
  <2>4. ASSUME NEW k \in 0..(m + 1)
        PROVE  h[k] = IF k = 0 THEN start ELSE WeighedLonger(h[k - 1], k, v, w)
    <3> HIDE DEF start
    <3>1. CASE k = m + 1
      <4>1. k - 1 = m /\ m \in 0..(m + 1) /\ m # m + 1 /\ k # 0
        BY <2>2, <3>1
      <4>2. h[k] = WeighedLonger(f[m], k, v, w) /\ h[m] = f[m]
        BY <3>1, <4>1
      <4> QED
        BY <4>1, <4>2
    <3>2. CASE k # m + 1
      <4>1. k \in 0..m /\ (k # 0 => k - 1 \in 0..m)
        BY <2>2, <3>2
      <4>2. f[k] = IF k = 0 THEN start ELSE WeighedLonger(f[k - 1], k, v, w)
        BY <2>1, <4>1 DEF WeighedTablesTo, start
      <4>3. h[k] = f[k] /\ (k # 0 => h[k - 1] = f[k - 1])
        BY <2>2, <3>2, <4>1
      <4> QED
        BY <4>2, <4>3
    <3> QED
      BY <3>1, <3>2
  <2>5. WeighedTablesTo(h, m + 1, v, w)
    <3>1. h = [k \in 0..(m + 1) |-> h[k]]
      OBVIOUS
    <3> HIDE DEF h
    <3> QED
      BY <2>4, <3>1 DEF WeighedTablesTo
  <2> HIDE DEF h
  <2> QED
    BY <2>5
<1>3. \A m \in T \cap Nat : m + 1 \in T
  BY <1>2
<1>4. Nat \subseteq T
  <2> HIDE DEF T
  <2> QED BY <1>1, <1>3, Induction
<1> QED
  BY <1>4

\* The distance of two words is the last cell of their table.
LEMMA WeightedDistanceIs ==
  ASSUME NEW v \in Seq(Nat), NEW w \in Seq(Nat)
  PROVE  \E S : /\ WeighedTable(S, v, Len(v), w)
                /\ WeightedDistance(v, w) = S[Len(v) + 1][Len(w) + 1]
<1> DEFINE n == Len(v)
           F == CHOOSE f : f = [i \in 0..n |->
                  IF i = 0 THEN <<FirstRow(Len(w), Gap)>> ELSE WeighedLonger(f[i - 1], i, v, w)]
<1>1. WeightedDistance(v, w) = F[n][n + 1][Len(w) + 1]
  BY DEF WeightedDistance, WeighedLonger
<1>2. n \in Nat
  OBVIOUS
<1> HIDE DEF n
<1>3. WeighedTablesTo(F, n, v, w)
  <2>1. PICK f : WeighedTablesTo(f, n, v, w)
    BY <1>2, WeighedTablesExist
  <2>2. f = [i \in 0..n |-> IF i = 0 THEN <<FirstRow(Len(w), Gap)>> ELSE WeighedLonger(f[i - 1], i, v, w)]
    BY ONLY <2>1 DEF WeighedTablesTo
  <2>3. F = [i \in 0..n |-> IF i = 0 THEN <<FirstRow(Len(w), Gap)>> ELSE WeighedLonger(F[i - 1], i, v, w)]
    BY ONLY <2>2 DEF F
  <2> QED
    BY ONLY <2>3 DEF WeighedTablesTo
<1> HIDE DEF F
<1>4. F[0] = <<FirstRow(Len(w), Gap)>> /\ \A i \in 1..n : F[i] = WeighedLonger(F[i - 1], i, v, w)
  <2>1. 0 \in 0..n /\ \A i \in 1..n : i \in 0..n /\ i # 0
    BY <1>2
  <2> QED
    BY ONLY <1>3, <2>1 DEF WeighedTablesTo
<1> DEFINE T == {i \in Nat : i <= n => WeighedTable(F[i], v, i, w)}
<1>5. 0 \in T
  <2> DEFINE r == FirstRow(Len(w), Gap)
             s == F[0]
  <2>1. RowOf(r, w)
    BY FirstWeighedRowIs
  <2>2. r \in Seq(Nat)
    BY <2>1 DEF RowOf
  <2>3. s = <<r>>
    BY <1>4
  <2> HIDE DEF r, s
  <2>4. s \in Seq(Seq(Nat)) /\ Len(s) = 0 + 1 /\ s[1] = r
    BY <2>2, <2>3
  <2>5. /\ \A d \in 1..(0 + 1) : d = 1
        /\ \A d \in 1..0 : FALSE
    OBVIOUS
  <2>6. WeighedTable(s, v, 0, w)
    BY ONLY <2>1, <2>4, <2>5 DEF WeighedTable, r
  <2> QED
    BY <2>6 DEF s
<1>6. ASSUME NEW i \in T, i + 1 <= n PROVE WeighedTable(F[i + 1], v, i + 1, w)
  <2> DEFINE R == F[i]
             d == i + 1
             row == NextRow(d, v[d], v[Back(d)], R[d], R[Back(d)], w, SubstitutionCost, Gap, Swap)
             U == F[i + 1]
  <2>1. i \in Nat /\ WeighedTable(R, v, i, w) /\ d \in 1..n /\ d \in 1..(i + 1) /\ d - 1 = i
    BY <1>2, <1>6
  <2>2. U = Append(R, row)
    BY <1>4, <2>1 DEF WeighedLonger, Back
  <2>3. R \in Seq(Seq(Nat)) /\ Len(R) = d
    BY <2>1 DEF WeighedTable
  <2> DEFINE D == Seq(Nat)
  <2>4. R = SubSeq(R, 1, d)
    <3>1. R \in Seq(D) /\ Len(R) = d /\ d \in Nat
      BY <2>1, <2>3
    <3> HIDE DEF R, d, D
    <3> QED
      BY ONLY <3>1
  <2> HIDE DEF R, U, row
  <2>5. U = Append(SubSeq(R, 1, d), row)
    BY ONLY <2>2, <2>4
  <2>6. row = NextRow(d, v[d], v[Back(d)], R[d], R[Back(d)], w, SubstitutionCost, Gap, Swap)
    BY DEF row
  <2> HIDE DEF d
  <2>7. \A l \in 1..(d - 1) : v[l] = v[l]
    OBVIOUS
  <2>8. WeighedTable(U, v, d, w)
    <3>1. i \in Nat /\ WeighedTable(R, v, i, w) /\ d \in 1..(i + 1)
      BY ONLY <2>1
    <3> QED
      BY ONLY <2>5, <2>6, <2>7, <3>1, w \in Seq(Nat), WeighedTableGrows, ZenonT(60)
  <2> QED
    BY <2>8 DEF U, d
<1>7. \A i \in T \cap Nat : i + 1 \in T
  BY <1>6
<1>8. Nat \subseteq T
  <2> HIDE DEF T
  <2> QED BY <1>5, <1>7, Induction
<1>9. WeighedTable(F[n], v, n, w)
  BY <1>2, <1>8
<1> QED
  BY <1>1, <1>9 DEF n

(***************************************************************************)
(* Three times the distance at unit cost of the stripped words is at most  *)
(* the weighted distance of the words: cell by cell, the one table turned  *)
(* over.  A letter and its base letter cost nothing once they are stripped.*)
(***************************************************************************)
LEMMA CostsCompare ==
  ASSUME NEW a \in Nat, NEW b \in Nat
  PROVE  /\ UnitCost(Mapped(BaseOf, b), Mapped(BaseOf, a)) \in Nat
         /\ SubstitutionCost(a, b) \in Nat
         /\ 3 * UnitCost(Mapped(BaseOf, b), Mapped(BaseOf, a)) <= SubstitutionCost(a, b)
<1> DEFINE u == UnitCost(Mapped(BaseOf, b), Mapped(BaseOf, a))
           s == SubstitutionCost(a, b)
<1>1. \/ u = 0
      \/ u = 1 /\ Mapped(BaseOf, b) # Mapped(BaseOf, a)
  BY DEF UnitCost
<1>2. s \in {0, 1, 3, 4}
  BY DEF SubstitutionCost
<1>3. s \in {0, 1} => Mapped(BaseOf, b) = Mapped(BaseOf, a)
  <2>1. DiacriticPair(a, b) => Mapped(BaseOf, b) = Mapped(BaseOf, a)
    BY LettersAssumption DEF DiacriticPair, Mapped
  <2>2. s \in {0, 1} => a = b \/ DiacriticPair(a, b)
    BY DEF SubstitutionCost
  <2> QED
    BY <2>1, <2>2
<1> HIDE DEF u, s
<1>4. 3 * u <= s /\ u \in Nat /\ s \in Nat
  BY ONLY <1>1, <1>2, <1>3
<1> QED
  BY <1>4 DEF u, s

\* A cell at unit cost is at most each of its choices.
UnitCell(R, y, x, j, i) ==
  /\ {R[j + 1][i + 1], R[j][i], R[j][i + 1], R[j + 1][i]} \subseteq Nat
  /\ R[j + 1][i + 1] <= R[j][i] + UnitCost(y[j], x[i])
  /\ R[j + 1][i + 1] <= R[j][i + 1] + 1
  /\ R[j + 1][i + 1] <= R[j + 1][i] + 1
  /\ j >= 2 /\ i >= 2 /\ y[j] = x[i - 1] /\ y[j - 1] = x[i]
       => R[j - 1][i - 1] \in Nat /\ R[j + 1][i + 1] <= R[j - 1][i - 1] + 1

LEMMA UnitCellIs ==
  ASSUME NEW x \in Seq(Nat), NEW n \in Nat, NEW y, NEW R, TableIs(R, y, n, x),
         NEW j \in 1..n, NEW i \in 1..Len(x)
  PROVE  UnitCell(R, y, x, j, i)
<1> DEFINE m == Len(x)
           row == R[j + 1]
           prev == R[j]
           prev2 == R[Back(j)]
           cost == UnitCosts(y[j], x)
           turns == UnitTurns(j, y[j], y[Back(j)], x)
           C == CellChoices(row, i, prev, prev2, cost, turns, 1, 1)
<1>1. /\ j \in Nat /\ j \in 1..(n + 1) /\ j + 1 \in 1..(n + 1) /\ Back(j) \in 1..(n + 1)
      /\ m \in Nat /\ i \in 1..m /\ i \in 1..(m + 1) /\ i + 1 \in 1..(m + 1)
  BY DEF Back
<1>2. RowOf(row, x) /\ RowOf(prev, x) /\ RowOf(prev2, x)
  BY <1>1 DEF TableIs
<1>3. UnitRow(row, j, y[j], y[Back(j)], prev, prev2, x)
  BY DEF TableIs
<1>4. RowGiven(m, j, prev, prev2, cost, turns, 1, 1)
  BY <1>1, <1>2, UnitGiven
<1>5. row[i + 1] = Least(C)
  BY <1>1, <1>3 DEF UnitRow, RowIs
<1>6. /\ row \in Seq(Nat) /\ Len(row) = m + 1 /\ prev \in Seq(Nat) /\ Len(prev) = m + 1
      /\ prev2 \in Seq(Nat) /\ Len(prev2) = m + 1
  BY <1>2 DEF RowOf
<1>7. cost[i] = UnitCost(y[j], x[i])
  BY DEF UnitCosts
<1>8. /\ j >= 2 /\ i >= 2 /\ y[j] = x[i - 1] /\ y[j - 1] = x[i]
        => i \in turns /\ Back(j) = j - 1 /\ i - 1 \in 1..(m + 1)
  BY <1>1 DEF UnitTurns, Back
<1>9. /\ prev[i] + cost[i] \in C /\ prev[i + 1] + 1 \in C /\ row[i] + 1 \in C
      /\ i \in turns => prev2[i - 1] + 1 \in C
  BY DEF CellChoices
<1> HIDE DEF row, prev, prev2, cost, turns, C, m
<1>10. row[i] \in Nat /\ row[i + 1] \in Nat /\ prev[i] \in Nat /\ prev[i + 1] \in Nat
  <2>1. i \in 1..(m + 1) /\ i + 1 \in 1..(m + 1)
    BY <1>1
  <2>2. row[i] \in Nat /\ row[i + 1] \in Nat
    <3>1. row \in Seq(Nat) /\ Len(row) = m + 1
      BY <1>6
    <3> QED
      BY ONLY <2>1, <3>1
  <2>3. prev[i] \in Nat /\ prev[i + 1] \in Nat
    <3>1. prev \in Seq(Nat) /\ Len(prev) = m + 1
      BY <1>6
    <3> QED
      BY ONLY <2>1, <3>1
  <2> QED
    BY <2>2, <2>3
<1>11. \A c \in C : row[i + 1] <= c
  <2>1. i \in 1..m /\ row[i] \in Nat
    BY ONLY <1>1, <1>10
  <2>2. \A c \in C : Least(C) <= c
    BY ONLY <1>4, <2>1, ChoicesAre DEF C
  <2> QED
    BY ONLY <1>5, <2>2
<1>12. /\ j >= 2 /\ i >= 2 /\ y[j] = x[i - 1] /\ y[j - 1] = x[i]
         => prev2 = R[j - 1] /\ prev2[i - 1] \in Nat /\ row[i + 1] <= prev2[i - 1] + 1
  <2>1. i - 1 \in 1..(m + 1) => prev2[i - 1] \in Nat
    BY ONLY <1>6
  <2>2. Back(j) = j - 1 => prev2 = R[j - 1]
    BY DEF prev2
  <2> QED
    BY ONLY <1>8, <1>9, <1>11, <2>1, <2>2
<1>13. /\ row[i + 1] <= prev[i] + cost[i] /\ row[i + 1] <= prev[i + 1] + 1
       /\ row[i + 1] <= row[i] + 1
  BY ONLY <1>9, <1>11
<1>14. row = R[j + 1] /\ prev = R[j]
  BY DEF row, prev
<1> QED
  BY ONLY <1>7, <1>10, <1>12, <1>13, <1>14 DEF UnitCell

\* A weighted cell is one of its choices.
WeighedCell(S, v, w, i, j) ==
  /\ {S[i + 1][j + 1], S[i][j], S[i][j + 1], S[i + 1][j]} \subseteq Nat
  /\ \/ S[i + 1][j + 1] = S[i][j] + SubstitutionCost(v[i], w[j])
     \/ S[i + 1][j + 1] = S[i][j + 1] + Gap
     \/ S[i + 1][j + 1] = S[i + 1][j] + Gap
     \/ /\ i >= 2 /\ j >= 2 /\ v[i] = w[j - 1] /\ v[i - 1] = w[j]
        /\ S[i - 1][j - 1] \in Nat /\ S[i + 1][j + 1] = S[i - 1][j - 1] + Swap

LEMMA WeighedCellIs ==
  ASSUME NEW w \in Seq(Nat), NEW m \in Nat, NEW v, NEW S, WeighedTable(S, v, m, w),
         NEW i \in 1..m, NEW j \in 1..Len(w)
  PROVE  WeighedCell(S, v, w, i, j)
<1> DEFINE n == Len(w)
           row == S[i + 1]
           prev == S[i]
           prev2 == S[Back(i)]
           cost == WeighedCosts(v[i], w)
           turns == UnitTurns(i, v[i], v[Back(i)], w)
           C == CellChoices(row, j, prev, prev2, cost, turns, Gap, Swap)
<1>1. /\ i \in Nat /\ i \in 1..(m + 1) /\ i + 1 \in 1..(m + 1) /\ Back(i) \in 1..(m + 1)
      /\ n \in Nat /\ j \in 1..n /\ j \in 1..(n + 1) /\ j + 1 \in 1..(n + 1)
  BY DEF Back
<1>2. RowOf(row, w) /\ RowOf(prev, w) /\ RowOf(prev2, w)
  BY <1>1 DEF WeighedTable
<1>3. WeighedRow(row, i, v[i], v[Back(i)], prev, prev2, w)
  BY DEF WeighedTable
<1>4. RowGiven(n, i * Gap, prev, prev2, cost, turns, Gap, Swap)
  BY <1>1, <1>2, WeighedGiven
<1>5. row[j + 1] = Least(C)
  BY <1>1, <1>3 DEF WeighedRow, RowIs
<1>6. /\ row \in Seq(Nat) /\ Len(row) = n + 1 /\ prev \in Seq(Nat) /\ Len(prev) = n + 1
      /\ prev2 \in Seq(Nat) /\ Len(prev2) = n + 1
  BY <1>2 DEF RowOf
<1>7. cost[j] = SubstitutionCost(v[i], w[j])
  BY DEF WeighedCosts
<1>8. j \in turns => /\ i >= 2 /\ j >= 2 /\ v[i] = w[j - 1] /\ v[i - 1] = w[j]
                     /\ Back(i) = i - 1 /\ j - 1 \in 1..(n + 1)
  <2>1. j \in turns => j \in 2..n /\ i >= 2 /\ v[i] = w[j - 1] /\ v[Back(i)] = w[j]
    BY DEF UnitTurns
  <2>2. i >= 2 => Back(i) = i - 1
    BY <1>1 DEF Back
  <2>3. j \in 2..n => j >= 2 /\ j - 1 \in 1..(n + 1)
    BY <1>1
  <2> HIDE DEF turns
  <2> QED
    BY ONLY <2>1, <2>2, <2>3
<1>9. \A c \in C : \/ c = prev[j] + cost[j] \/ c = prev[j + 1] + Gap \/ c = row[j] + Gap
                   \/ j \in turns /\ c = prev2[j - 1] + Swap
  BY DEF CellChoices
<1> HIDE DEF row, prev, prev2, cost, turns, C, n
<1>10. row[j] \in Nat /\ row[j + 1] \in Nat /\ prev[j] \in Nat /\ prev[j + 1] \in Nat
  <2>1. j \in 1..(n + 1) /\ j + 1 \in 1..(n + 1)
    BY <1>1
  <2>2. row[j] \in Nat /\ row[j + 1] \in Nat
    <3>1. row \in Seq(Nat) /\ Len(row) = n + 1
      BY <1>6
    <3> QED
      BY ONLY <2>1, <3>1
  <2>3. prev[j] \in Nat /\ prev[j + 1] \in Nat
    <3>1. prev \in Seq(Nat) /\ Len(prev) = n + 1
      BY <1>6
    <3> QED
      BY ONLY <2>1, <3>1
  <2> QED
    BY <2>2, <2>3
<1>11. row[j + 1] \in C
  BY ONLY <1>1, <1>4, <1>5, <1>10, ChoicesAre DEF C
<1>12. j \in turns => prev2 = S[i - 1] /\ prev2[j - 1] \in Nat
  <2>1. j - 1 \in 1..(n + 1) => prev2[j - 1] \in Nat
    BY ONLY <1>6
  <2> QED
    BY ONLY <1>8, <2>1 DEF prev2
<1>13. \/ row[j + 1] = prev[j] + cost[j] \/ row[j + 1] = prev[j + 1] + Gap
       \/ row[j + 1] = row[j] + Gap
       \/ j \in turns /\ row[j + 1] = prev2[j - 1] + Swap
  BY ONLY <1>9, <1>11
<1>14. row = S[i + 1] /\ prev = S[i]
  BY DEF row, prev
<1> QED
  BY ONLY <1>7, <1>8, <1>10, <1>12, <1>13, <1>14 DEF WeighedCell

\* Taking the diacritics off letter by letter.
LEMMA UnaccentedIs ==
  ASSUME NEW u \in Seq(Nat)
  PROVE  Unaccented(u) \in Seq(Nat) /\ Len(Unaccented(u)) = Len(u)
<1>1. PICK n, f : n = Len(u) /\ f = [i \in 1..n |-> Mapped(BaseOf, u[i])]
  OBVIOUS
<1>2. \A c \in Nat : Mapped(BaseOf, c) \in Nat
  BY LettersAssumption DEF Mapped
<1>3. n \in Nat /\ f = [i \in 1..n |-> f[i]] /\ \A i \in 1..n : f[i] \in Nat
  BY ONLY <1>1, <1>2, u \in Seq(Nat)
<1>4. f \in Seq(Nat) /\ Len(f) = n
  BY ONLY <1>3, Sequenced
<1> QED
  BY ONLY <1>1, <1>4 DEF Unaccented

\* The cells i and j letters in, one of each table.
Within(R, S, j, i) ==
  R[j + 1][i + 1] \in Nat /\ S[i + 1][j + 1] \in Nat /\ 3 * R[j + 1][i + 1] <= S[i + 1][j + 1]

\* A step of the comparison: the cells before it are compared.
LEMMA WithinStep ==
  ASSUME NEW R, NEW S, NEW v \in Seq(Nat), NEW w \in Seq(Nat), NEW x, NEW y,
         NEW i \in 1..Len(v), NEW j \in 1..Len(w),
         x[i] = Mapped(BaseOf, v[i]), y[j] = Mapped(BaseOf, w[j]),
         i >= 2 => x[i - 1] = Mapped(BaseOf, v[i - 1]),
         j >= 2 => y[j - 1] = Mapped(BaseOf, w[j - 1]),
         UnitCell(R, y, x, j, i), WeighedCell(S, v, w, i, j),
         Within(R, S, j - 1, i - 1), Within(R, S, j - 1, i), Within(R, S, j, i - 1),
         i >= 2 /\ j >= 2 => Within(R, S, j - 2, i - 2)
  PROVE  Within(R, S, j, i)
<1> DEFINE r == R[j + 1][i + 1]
           r1 == R[j][i]
           r2 == R[j][i + 1]
           r3 == R[j + 1][i]
           r4 == R[j - 1][i - 1]
           s == S[i + 1][j + 1]
           s1 == S[i][j]
           s2 == S[i][j + 1]
           s3 == S[i + 1][j]
           s4 == S[i - 1][j - 1]
           u == UnitCost(y[j], x[i])
           c == SubstitutionCost(v[i], w[j])
           turn == i >= 2 /\ j >= 2 /\ v[i] = w[j - 1] /\ v[i - 1] = w[j]
<1>1. /\ i \in Nat /\ j \in Nat
      /\ (j - 1) + 1 = j /\ (i - 1) + 1 = i /\ (j - 2) + 1 = j - 1 /\ (i - 2) + 1 = i - 1
  OBVIOUS
<1>2. u \in Nat /\ c \in Nat /\ 3 * u <= c
  <2>1. v[i] \in Nat /\ w[j] \in Nat
    OBVIOUS
  <2> QED
    BY ONLY <2>1, x[i] = Mapped(BaseOf, v[i]), y[j] = Mapped(BaseOf, w[j]), CostsCompare
<1>3. r \in Nat /\ r1 \in Nat /\ r2 \in Nat /\ r3 \in Nat /\ r <= r1 + u /\ r <= r2 + 1 /\ r <= r3 + 1
  BY ONLY UnitCell(R, y, x, j, i) DEF UnitCell
<1>4. turn => r4 \in Nat /\ r <= r4 + 1
  <2>1. turn => y[j] = x[i - 1] /\ y[j - 1] = x[i] /\ i >= 2 /\ j >= 2
    OBVIOUS
  <2> QED
    BY ONLY <2>1, UnitCell(R, y, x, j, i) DEF UnitCell
<1>5. /\ s \in Nat /\ s1 \in Nat /\ s2 \in Nat /\ s3 \in Nat
      /\ s = s1 + c \/ s = s2 + 4 \/ s = s3 + 4 \/ (turn /\ s4 \in Nat /\ s = s4 + 3)
  <2>1. s \in Nat /\ s1 \in Nat /\ s2 \in Nat /\ s3 \in Nat
    BY ONLY WeighedCell(S, v, w, i, j) DEF WeighedCell
  <2>2. s = s1 + c \/ s = s2 + Gap \/ s = s3 + Gap \/ (turn /\ s4 \in Nat /\ s = s4 + Swap)
    BY ONLY WeighedCell(S, v, w, i, j) DEF WeighedCell
  <2> HIDE DEF s, s1, s2, s3, s4, c, turn
  <2> QED
    BY ONLY <2>1, <2>2 DEF Gap, Swap
<1> DEFINE Less(a, b) == 3 * R[a][b] <= S[b][a]
<1>6. 3 * r1 <= s1 /\ 3 * r2 <= s3 /\ 3 * r3 <= s2
  <2>1. \A a, b : Within(R, S, a, b) => Less(a + 1, b + 1)
    BY DEF Within
  <2>2. Less((j - 1) + 1, (i - 1) + 1) /\ Less((j - 1) + 1, i + 1) /\ Less(j + 1, (i - 1) + 1)
    BY ONLY <2>1, Within(R, S, j - 1, i - 1), Within(R, S, j - 1, i), Within(R, S, j, i - 1)
  <2> HIDE DEF Less
  <2>3. Less(j, i) /\ Less(j, i + 1) /\ Less(j + 1, i)
    BY ONLY <1>1, <2>2, Zenon
  <2> QED
    BY <2>3 DEF Less
<1>7. turn => 3 * r4 <= s4
  <2>1. \A a, b : Within(R, S, a, b) => Less(a + 1, b + 1)
    BY DEF Within
  <2>2. turn => Less((j - 2) + 1, (i - 2) + 1)
    BY ONLY <2>1, i >= 2 /\ j >= 2 => Within(R, S, j - 2, i - 2)
  <2> HIDE DEF Less
  <2>3. turn => Less(j - 1, i - 1)
    BY ONLY <1>1, <2>2, Zenon
  <2> QED
    BY <2>3 DEF Less
<1> HIDE DEF r, r1, r2, r3, r4, s, s1, s2, s3, s4, u, c, turn
<1>8. 3 * r <= s
  <2>1. CASE s = s1 + c
    BY ONLY <1>2, <1>3, <1>5, <1>6, <2>1
  <2>2. CASE s = s2 + 4
    BY ONLY <1>3, <1>5, <1>6, <2>2
  <2>3. CASE s = s3 + 4
    BY ONLY <1>3, <1>5, <1>6, <2>3
  <2>4. CASE turn /\ s4 \in Nat /\ s = s4 + 3
    BY ONLY <1>3, <1>4, <1>7, <2>4
  <2> QED
    BY <1>5, <2>1, <2>2, <2>3, <2>4
<1> QED
  BY ONLY <1>3, <1>5, <1>8 DEF Within, r, s

\* The first row and the first column.
LEMMA WithinFirst ==
  ASSUME NEW x \in Seq(Nat), NEW n \in Nat, NEW y, NEW R, TableIs(R, y, n, x),
         NEW w \in Seq(Nat), NEW m \in Nat, NEW v, NEW S, WeighedTable(S, v, m, w),
         Len(x) = m, Len(w) = n
  PROVE  /\ \A j \in 0..n : Within(R, S, j, 0)
         /\ \A i \in 0..m : Within(R, S, 0, i)
<1>1. \A i \in 0..m : R[1][i + 1] = i
  <2>1. R[1] = FirstRow(Len(x), 1)
    BY DEF TableIs
  <2>2. \A k \in 1..(Len(x) + 1) : R[1][k] = k - 1
    BY <2>1, FirstRowIs
  <2>3. \A i \in 0..m : i + 1 \in 1..(Len(x) + 1) /\ (i + 1) - 1 = i
    OBVIOUS
  <2> QED
    BY ONLY <2>2, <2>3
<1>2. \A j \in 0..n : S[1][j + 1] = j * Gap
  <2>1. S[1] = FirstRow(Len(w), Gap)
    BY DEF WeighedTable
  <2>2. \A k \in 1..(Len(w) + 1) : S[1][k] = (k - 1) * Gap
    BY <2>1, FirstWeighedRowIs
  <2>3. \A j \in 0..n : j + 1 \in 1..(Len(w) + 1) /\ (j + 1) - 1 = j
    OBVIOUS
  <2> QED
    BY ONLY <2>2, <2>3
<1>3. \A j \in 1..n : R[j + 1][1] = j
  BY DEF TableIs, UnitRow, RowIs
<1>4. \A i \in 1..m : S[i + 1][1] = i * Gap
  BY DEF WeighedTable, WeighedRow, RowIs
<1>5. /\ \A j \in 0..n : R[j + 1][0 + 1] = j /\ S[0 + 1][j + 1] = j * Gap
      /\ \A i \in 0..m : R[0 + 1][i + 1] = i /\ S[i + 1][0 + 1] = i * Gap
  <2>1. \A j \in 0..n : R[j + 1][1] = j
    <3>1. R[0 + 1][1] = 0
      BY <1>1
    <3> QED
      BY <1>3, <3>1
  <2>2. \A i \in 0..m : S[i + 1][1] = i * Gap
    <3>1. S[0 + 1][1] = 0 * Gap
      BY <1>2
    <3> QED
      BY <1>4, <3>1
  <2> QED
    BY ONLY <1>1, <1>2, <2>1, <2>2
<1>6. ASSUME NEW j \in 0..n PROVE Within(R, S, j, 0)
  <2>1. PICK r, s : r = R[j + 1][0 + 1] /\ s = S[0 + 1][j + 1]
    OBVIOUS
  <2>2. r = j /\ s = j * Gap
    BY <1>5, <2>1
  <2>3. r \in Nat /\ s \in Nat /\ 3 * r <= s
    BY ONLY <2>2, j \in 0..n, n \in Nat DEF Gap
  <2> QED
    BY ONLY <2>1, <2>3 DEF Within
<1>7. ASSUME NEW i \in 0..m PROVE Within(R, S, 0, i)
  <2>1. PICK r, s : r = R[0 + 1][i + 1] /\ s = S[i + 1][0 + 1]
    OBVIOUS
  <2>2. r = i /\ s = i * Gap
    BY <1>5, <2>1
  <2>3. r \in Nat /\ s \in Nat /\ 3 * r <= s
    BY ONLY <2>2, i \in 0..m, m \in Nat DEF Gap
  <2> QED
    BY ONLY <2>1, <2>3 DEF Within
<1> QED
  BY <1>6, <1>7

\* All the cells of the two tables.
LEMMA TablesWithin ==
  ASSUME NEW v \in Seq(Nat), NEW w \in Seq(Nat), NEW m, m = Len(v), NEW n, n = Len(w),
         NEW x, x = Unaccented(v), NEW y, y = Unaccented(w), x \in Seq(Nat),
         NEW R, TableIs(R, y, n, x), NEW S, WeighedTable(S, v, m, w)
  PROVE  \A i \in 0..m : \A j \in 0..n : Within(R, S, j, i)
<1>1. /\ m \in Nat /\ n \in Nat /\ Len(x) = m
      /\ \A i \in 1..m : x[i] = Mapped(BaseOf, v[i])
      /\ \A j \in 1..n : y[j] = Mapped(BaseOf, w[j])
  <2>1. m \in Nat /\ n \in Nat
    OBVIOUS
  <2>2. x = [i \in 1..m |-> Mapped(BaseOf, v[i])]
    BY DEF Unaccented
  <2>3. y = [j \in 1..n |-> Mapped(BaseOf, w[j])]
    BY DEF Unaccented
  <2>4. Len(x) = m
    BY ONLY <2>1, <2>2, x \in Seq(Nat)
  <2> QED
    BY ONLY <2>1, <2>2, <2>3, <2>4
<1>2. /\ \A j \in 0..n : Within(R, S, j, 0)
      /\ \A i \in 0..m : Within(R, S, 0, i)
  BY <1>1, WithinFirst
<1> DEFINE T == {k \in Nat : \A i \in 0..m : \A j \in 0..n : i + j <= k => Within(R, S, j, i)}
<1>3. 0 \in T
  <2>1. \A i \in 0..m : \A j \in 0..n : i + j <= 0 => i = 0
    BY <1>1
  <2> QED
    BY <1>2, <2>1
<1>4. ASSUME NEW k \in T, NEW i \in 0..m, NEW j \in 0..n, i + j <= k + 1
      PROVE  Within(R, S, j, i)
  <2>1. CASE i = 0 \/ j = 0
    BY <1>2, <2>1
  <2>2. CASE i # 0 /\ j # 0
    <3>1. /\ i \in 1..m /\ j \in 1..n /\ i \in 1..Len(v) /\ j \in 1..Len(w) /\ i \in 1..Len(x)
          /\ i - 1 \in 0..m /\ j - 1 \in 0..n /\ k \in Nat
          /\ i >= 2 => i - 1 \in 1..m /\ i - 2 \in 0..m
          /\ j >= 2 => j - 1 \in 1..n /\ j - 2 \in 0..n
          /\ (i - 1) + (j - 1) <= k /\ i + (j - 1) <= k /\ (i - 1) + j <= k
          /\ (i - 2) + (j - 2) <= k
      BY <1>1, <1>4, <2>2
    <3>2. /\ x[i] = Mapped(BaseOf, v[i]) /\ y[j] = Mapped(BaseOf, w[j])
          /\ i >= 2 => x[i - 1] = Mapped(BaseOf, v[i - 1])
          /\ j >= 2 => y[j - 1] = Mapped(BaseOf, w[j - 1])
      BY <1>1, <3>1
    <3>3. /\ Within(R, S, j - 1, i - 1) /\ Within(R, S, j - 1, i) /\ Within(R, S, j, i - 1)
          /\ i >= 2 /\ j >= 2 => Within(R, S, j - 2, i - 2)
      <4>1. \A a \in 0..m : \A b \in 0..n : a + b <= k => Within(R, S, b, a)
        BY <1>4
      <4> QED
        BY ONLY <3>1, <4>1, i \in 0..m, j \in 0..n
    <3>4. UnitCell(R, y, x, j, i)
      BY <1>1, <3>1, UnitCellIs
    <3>5. WeighedCell(S, v, w, i, j)
      BY <1>1, <3>1, WeighedCellIs
    <3> QED
      BY ONLY <3>1, <3>2, <3>3, <3>4, <3>5, v \in Seq(Nat), w \in Seq(Nat), WithinStep
  <2> QED
    BY <2>1, <2>2
<1>5. ASSUME NEW k \in T \cap Nat PROVE k + 1 \in T
  <2>1. \A i \in 0..m : \A j \in 0..n : i + j <= k + 1 => Within(R, S, j, i)
    BY <1>4
  <2>2. k + 1 \in Nat
    OBVIOUS
  <2> QED
    BY ONLY <2>1, <2>2
<1>6. Nat \subseteq T
  <2> HIDE DEF T
  <2> QED BY <1>3, <1>5, Induction
<1> QED
  <2> SUFFICES ASSUME NEW i \in 0..m, NEW j \in 0..n PROVE Within(R, S, j, i)
    OBVIOUS
  <2>1. i + j \in T /\ i + j <= i + j
    <3>1. i + j \in Nat
      BY <1>1
    <3> HIDE DEF T
    <3> QED BY <1>6, <3>1
  <2> QED
    BY <2>1

\* What is near by the weighted distance is near by the stripped one.
LEMMA DistancesCompare ==
  ASSUME NEW v \in Seq(Nat), NEW w \in Seq(Nat), NEW x, x = Unaccented(v), NEW y, y = Unaccented(w)
  PROVE  /\ UnitDistance(y, x) \in Nat /\ WeightedDistance(v, w) \in Nat
         /\ 3 * UnitDistance(y, x) <= WeightedDistance(v, w)
<1>1. x \in Seq(Nat) /\ Len(x) = Len(v) /\ y \in Seq(Nat) /\ Len(y) = Len(w)
  <2>1. \A u \in Seq(Nat) : Unaccented(u) \in Seq(Nat) /\ Len(Unaccented(u)) = Len(u)
    BY UnaccentedIs
  <2> QED
    BY <2>1
<1>2. PICK m, n : m = Len(v) /\ n = Len(w)
  OBVIOUS
<1>3. PICK R : TableIs(R, y, n, x) /\ UnitDistance(y, x) = R[n + 1][m + 1]
  <2>1. \E R : TableIs(R, y, Len(y), x) /\ UnitDistance(y, x) = R[Len(y) + 1][Len(x) + 1]
    BY ONLY <1>1, UnitDistanceIs
  <2> QED
    BY ONLY <1>1, <1>2, <2>1
<1>4. PICK S : WeighedTable(S, v, m, w) /\ WeightedDistance(v, w) = S[m + 1][n + 1]
  BY <1>1, <1>2, WeightedDistanceIs
<1>5. Within(R, S, n, m)
  <2>1. m \in 0..m /\ n \in 0..n
    BY <1>2
  <2>2. \A i \in 0..m : \A j \in 0..n : Within(R, S, j, i)
    BY <1>1, <1>2, <1>3, <1>4, TablesWithin
  <2> QED
    BY <2>1, <2>2
<1> QED
  BY ONLY <1>3, <1>4, <1>5 DEF Within
=============================================================================
