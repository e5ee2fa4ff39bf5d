---------------------------- MODULE EngineProofs ----------------------------
(***************************************************************************)
(* Proofs about the engine: what a pack file can say, for any compiler     *)
(* input and any of the damages of the model, and any entries appended.    *)
(***************************************************************************)
EXTENDS Engine, WordFacts

(***************************************************************************)
(* Recursion along a sequence, as an equation.                             *)
(***************************************************************************)
\* What is defined by the steps stays where the steps stay.
LEMMA RecursionStays ==
  ASSUME NEW D, NEW base \in D, NEW n \in Nat, NEW step \in [D \X (1..n) -> D], NEW f,
         f[0] = base, \A i \in 1..n : f[i - 1] \in D => f[i] = step[<<f[i - 1], i>>]
  PROVE  \A i \in 0..n : f[i] \in D
<1> DEFINE T == {i \in Nat : i <= n => f[i] \in D}
<1>1. 0 \in T
  OBVIOUS
<1>2. ASSUME NEW i \in T, i + 1 <= n PROVE f[i + 1] \in D
  <2>1. i + 1 \in 1..n /\ (i + 1) - 1 = i /\ f[i] \in D
    BY <1>2
  <2>2. f[i + 1] = step[<<f[i], i + 1>>]
    BY <2>1
  <2> QED
    BY <2>1, <2>2
<1>3. \A i \in T \cap Nat : i + 1 \in T
  BY <1>2
<1>4. Nat \subseteq T
  <2> HIDE DEF T
  <2> QED BY <1>1, <1>3, Induction
<1> QED
  BY <1>4

(***************************************************************************)
(* The compiler.                                                           *)
(***************************************************************************)
LEMMA SpelledAre == Spelled \subseteq Seq(Nat)
BY FormatAssumption DEF Spelled, Range

\* An index is that of the last entry with the form.
LEMMA LexiconIndexIs ==
  ASSUME NEW entries, AsList(entries), NEW w, NEW i, i = LexiconIndex(entries, w)
  PROVE  \/ i = Unlisted /\ \A j \in DOMAIN entries : entries[j].normalized # w
         \/ /\ i \in 0..(Len(entries) - 1) /\ i # Unlisted
            /\ entries[i + 1].normalized = w
            /\ \A j \in DOMAIN entries : entries[j].normalized = w => j <= i + 1
<1> DEFINE here == {k \in DOMAIN entries : entries[k].normalized = w}
           n == Len(entries)
<1>1. n \in Nat /\ DOMAIN entries = 1..n
  BY ListIs
<1>2. CASE here = {}
  BY <1>2 DEF LexiconIndex
<1>3. CASE here # {}
  <2> DEFINE T == {n - k : k \in here}
             last == CHOOSE k \in here : \A j \in here : j <= k
  <2>1. T \subseteq Nat /\ T # {}
    BY <1>1, <1>3
  <2>2. PICK m \in T : \A t \in T : m <= t
    <3> HIDE DEF T
    <3> QED BY <2>1, LeastNumber
  <2>3. PICK k \in here : m = n - k
    BY <2>2
  <2>4. \A j \in here : j <= k
    <3> SUFFICES ASSUME NEW j \in here PROVE j <= k
      OBVIOUS
    <3>1. n - k <= n - j
      BY <2>2, <2>3
    <3> QED
      BY <3>1, <1>1
  <2>5. last \in here /\ \A j \in here : j <= last
    BY <2>4
  <2>6. i = last - 1
    BY <1>3 DEF LexiconIndex
  <2> HIDE DEF last
  <2> QED
    BY <1>1, <2>5, <2>6 DEF Unlisted
<1> QED
  BY <1>2, <1>3

LEMMA IndexTellsWord ==
  ASSUME NEW entries, AsList(entries), NEW v, NEW w,
         LexiconIndex(entries, v) = LexiconIndex(entries, w),
         LexiconIndex(entries, v) # Unlisted
  PROVE  v = w
BY LexiconIndexIs

Indices(entries, context) == [i \in DOMAIN context |-> LexiconIndex(entries, context[i])]

LEMMA IndicesTellContext ==
  ASSUME NEW entries, AsList(entries), NEW width \in Nat,
         NEW v \in [1..width -> Spelled], NEW w \in [1..width -> Spelled],
         Indices(entries, v) = Indices(entries, w),
         \A i \in DOMAIN Indices(entries, v) : Indices(entries, v)[i] # Unlisted
  PROVE  v = w
<1>1. ASSUME NEW i \in 1..width PROVE v[i] = w[i]
  <2>1. /\ Indices(entries, v)[i] = LexiconIndex(entries, v[i])
        /\ Indices(entries, w)[i] = LexiconIndex(entries, w[i])
        /\ i \in DOMAIN Indices(entries, v)
    BY DEF Indices
  <2> QED
    BY <2>1, IndexTellsWord
<1> QED
  BY <1>1

GoodRecords(records, width) ==
  /\ AsList(records)
  /\ \A r \in Range(records) : RecordType(r, width)

GroupSet(entries, records, context) ==
  {records[r] : r \in {s \in DOMAIN records :
     /\ Indices(entries, records[s].context) = context
     /\ LexiconIndex(entries, records[s].next) # Unlisted}}

\* The predictions of a context, each one once, best first.
LEMMA GroupIs ==
  ASSUME NEW entries, AsList(entries), NEW width \in Nat, NEW records, GoodRecords(records, width),
         RecordsAccepted(records), NEW context, \A i \in DOMAIN context : context[i] # Unlisted,
         NEW S, S = GroupSet(entries, records, context),
         NEW group, group = Group(entries, records, context)
  PROVE  /\ group \in Seq(S) /\ Len(group) = Cardinality(S) /\ IsFiniteSet(S)
         /\ \A x \in S : \E k \in DOMAIN group : group[k] = x
         /\ \A k, l \in DOMAIN group : k < l <=> PredictionLess(group[k], group[l])
         /\ \A k, l \in DOMAIN group : group[k].next = group[l].next => k = l
<1> DEFINE chosen == {s \in DOMAIN records :
                        /\ Indices(entries, records[s].context) = context
                        /\ LexiconIndex(entries, records[s].next) # Unlisted}
           R == {p \in S \X S : PredictionLess(p[1], p[2])}
           n == Cardinality(S)
           at(k) == CHOOSE x \in S : Cardinality({y \in S : PredictionLess(y, x)}) = k - 1
<1>0. /\ S = {records[r] : r \in chosen}
      /\ \A r \in chosen : /\ r \in DOMAIN records /\ RecordType(records[r], width)
                           /\ Indices(entries, records[r].context) = context
  BY ListIs DEF GroupSet, GoodRecords
<1>a. IsFiniteSet(S)
  <2> DEFINE f == [r \in chosen |-> records[r]]
  <2>1. IsFiniteSet(DOMAIN records)
    BY ListIs DEF GoodRecords
  <2>2. IsFiniteSet(chosen)
    BY <2>1, FS_Subset
  <2>3. DOMAIN f = chosen /\ S = {f[r] : r \in DOMAIN f}
    BY <1>0
  <2> HIDE DEF f, chosen
  <2> QED
    BY <2>2, <2>3, FiniteImage
<1> HIDE DEF chosen
<1>b. \A a \in S : a.count \in Nat /\ a.probability \in Nat /\ a.next \in Seq(Nat)
  BY <1>0, SpelledAre DEF RecordType
<1>c. ASSUME NEW a \in S, NEW b \in S, a.next = b.next PROVE a = b
  <2>1. PICK r \in chosen : a = records[r]
    BY <1>0
  <2>2. PICK s \in chosen : b = records[s]
    BY <1>0
  <2>3. records[r].context = records[s].context
    <3>1. /\ records[r].context \in [1..width -> Spelled]
          /\ records[s].context \in [1..width -> Spelled]
      BY <1>0 DEF RecordType
    <3> QED
      BY <3>1, <1>0, IndicesTellContext
  <2> QED
    BY <2>1, <2>2, <2>3, <1>0, <1>c DEF RecordsAccepted
<1>1. StrictTotalOrder(R, S)
  <2>1. \A x \in S : ~PredictionLess(x, x)
    BY <1>b, WordLessIrreflexive DEF PredictionLess
  <2>2. \A x, y, z \in S : PredictionLess(x, y) /\ PredictionLess(y, z) => PredictionLess(x, z)
    <3> SUFFICES ASSUME NEW x \in S, NEW y \in S, NEW z \in S,
                        PredictionLess(x, y), PredictionLess(y, z)
                 PROVE  PredictionLess(x, z)
      OBVIOUS
    <3>1. WordLess(x.next, y.next) /\ WordLess(y.next, z.next) => WordLess(x.next, z.next)
      BY <1>b, WordLessTransitive
    <3> QED
      BY <1>b, <3>1 DEF PredictionLess
  <2>3. \A x, y \in S : x = y \/ PredictionLess(x, y) \/ PredictionLess(y, x)
    <3> SUFFICES ASSUME NEW x \in S, NEW y \in S, x # y
                 PROVE  PredictionLess(x, y) \/ PredictionLess(y, x)
      OBVIOUS
    <3>1. WordLess(x.next, y.next) \/ WordLess(y.next, x.next)
      BY <1>b, <1>c, WordLessTotal
    <3> QED
      BY <1>b, <3>1 DEF PredictionLess
  <2> QED
    BY <2>1, <2>2, <2>3 DEF StrictTotalOrder
<1>2. \A x \in S : SetLessThan(x, R, S) = {y \in S : PredictionLess(y, x)}
  BY DEF SetLessThan
<1>3. /\ n \in Nat
      /\ \A k \in 1..n : \E x \in S : Cardinality(SetLessThan(x, R, S)) = k - 1
  <2> HIDE DEF R
  <2> QED BY <1>a, <1>1, RanksExist
<1>4. ASSUME NEW k \in 1..n
      PROVE  at(k) \in S /\ Cardinality(SetLessThan(at(k), R, S)) = k - 1
  <2>1. PICK x \in S : Cardinality(SetLessThan(x, R, S)) = k - 1
    BY <1>3
  <2>2. Cardinality({y \in S : PredictionLess(y, x)}) = k - 1
    BY <2>1, <1>2
  <2>3. at(k) \in S /\ Cardinality({y \in S : PredictionLess(y, at(k))}) = k - 1
    BY <2>2
  <2> QED
    BY <2>3, <1>2
<1>5. group = [k \in 1..n |-> at(k)]
  BY DEF Group, Ranked, GroupSet, Indices
<1> HIDE DEF at
<1>6. DOMAIN group = 1..n /\ \A k \in 1..n : group[k] = at(k)
  BY <1>5
<1>7. group \in Seq(S) /\ Len(group) = n
  <2> HIDE DEF n, R
  <2> QED BY <1>3, <1>4, <1>5
<1>8. /\ \A x \in S : \E k \in 1..n : group[k] = x
      /\ \A k, l \in 1..n : k < l <=> PredictionLess(group[k], group[l])
  <2>1. \A k \in 1..n : group[k] \in S /\ Cardinality(SetLessThan(group[k], R, S)) = k - 1
    BY <1>4, <1>6
  <2>2. /\ \A x \in S : \E k \in 1..n : group[k] = x
        /\ \A k, l \in 1..n : k < l <=> <<group[k], group[l]>> \in R
    <3> HIDE DEF R
    <3> QED BY <2>1, <1>a, <1>1, RanksInOrder
  <2>3. \A k, l \in 1..n : <<group[k], group[l]>> \in R <=> PredictionLess(group[k], group[l])
    <3> HIDE DEF n
    <3> QED BY <2>1
  <2> HIDE DEF n, R
  <2> QED
    BY <2>2, <2>3
<1>9. ASSUME NEW k \in 1..n, NEW l \in 1..n, group[k].next = group[l].next PROVE k = l
  <2>1. group[k] \in S /\ group[l] \in S
    BY <1>4, <1>6
  <2>2. group[k] = group[l]
    BY <2>1, <1>9, <1>c
  <2>3. ~(k < l) /\ ~(l < k)
    BY <2>1, <2>2, <1>b, <1>8, WordLessIrreflexive DEF PredictionLess
  <2> QED
    BY <2>3, <1>3
<1> QED
  <2> HIDE DEF n
  <2> QED BY <1>6, <1>7, <1>8, <1>9, <1>a DEF n

ContextOrder(entries, records) == InWordOrder(ListedContexts(entries, records))

\* The contexts of a section, each one once, ascending.
LEMMA ContextsAre ==
  ASSUME NEW entries, AsList(entries), NEW width \in Nat, NEW records, GoodRecords(records, width),
         NEW C, C = ListedContexts(entries, records),
         NEW order, order = ContextOrder(entries, records)
  PROVE  /\ IsFiniteSet(C)
         /\ \A c \in C : /\ c \in [1..width -> 0..(Len(entries) - 1)]
                         /\ c \in Seq(Nat) /\ Len(c) = width
                         /\ \A i \in DOMAIN c : c[i] # Unlisted
                         /\ Group(entries, records, c) # <<>>
         /\ order \in Seq(C) /\ Len(order) = Cardinality(C)
         /\ \A c \in C : \E k \in DOMAIN order : order[k] = c
         /\ \A k, l \in DOMAIN order : k < l <=> WordLess(order[k], order[l])
<1> DEFINE f == [r \in DOMAIN records |-> Indices(entries, records[r].context)]
<1>1. C \subseteq {f[r] : r \in DOMAIN f}
  BY DEF ListedContexts, Indices
<1>2. IsFiniteSet(C)
  <2>1. IsFiniteSet(DOMAIN records) /\ DOMAIN f = DOMAIN records
    BY ListIs DEF GoodRecords
  <2>2. IsFiniteSet({f[r] : r \in DOMAIN f})
    <3> HIDE DEF f
    <3> QED BY <2>1, FiniteImage
  <2> HIDE DEF f
  <2> QED
    BY <1>1, <2>2, FS_Subset
<1>3. ASSUME NEW c \in C
      PROVE  /\ c \in [1..width -> 0..(Len(entries) - 1)]
             /\ \A i \in DOMAIN c : c[i] # Unlisted
             /\ Group(entries, records, c) # <<>>
  <2>1. PICK r \in DOMAIN records : c = Indices(entries, records[r].context)
    BY DEF ListedContexts, Indices
  <2>2. \A i \in DOMAIN c : c[i] # Unlisted
    BY DEF ListedContexts
  <2>3. Group(entries, records, c) # <<>>
    BY DEF ListedContexts
  <2>4. records[r].context \in [1..width -> Spelled]
    BY ListIs DEF GoodRecords, RecordType
  <2>5. c = [i \in 1..width |-> LexiconIndex(entries, records[r].context[i])]
    BY <2>1, <2>4 DEF Indices
  <2>6. \A i \in 1..width : c[i] \in 0..(Len(entries) - 1)
    <3> SUFFICES ASSUME NEW i \in 1..width PROVE c[i] \in 0..(Len(entries) - 1)
      OBVIOUS
    <3>1. c[i] = LexiconIndex(entries, records[r].context[i]) /\ c[i] # Unlisted
      BY <2>2, <2>5
    <3> QED
      BY <3>1, LexiconIndexIs
  <2> QED
    BY <2>2, <2>3, <2>5, <2>6
<1>4. ASSUME NEW c \in C PROVE c \in Seq(Nat) /\ Len(c) = width
  <2>1. Len(entries) \in Nat
    BY ListIs
  <2>2. c \in [1..width -> Nat]
    BY <1>3, <2>1
  <2> QED
    BY <2>2
<1>5. C \subseteq Seq(Nat) /\ order = InWordOrder(C)
  BY <1>4 DEF ContextOrder
<1> QED
  BY <1>2, <1>3, <1>4, <1>5, WordsRanked

LEMMA NumbersAreRanked ==
  ASSUME NEW S
  PROVE  Ranked(S, LAMBDA a, b : a < b) = Ascending(S)
BY DEF Ranked, Ascending

EntryGiven(e) == EntryType(e) /\ IsFiniteSet(e.sources) /\ e.sources \subseteq Nat

LEMMA CellIs ==
  ASSUME NEW w \in Spelled
  PROVE  Cell(w) \in DOMAIN Spelling /\ Cell(w) \in Nat /\ Spelling[Cell(w)] = w
<1>1. \E s \in DOMAIN Spelling : Spelling[s] = w
  BY DEF Spelled, Range
<1>2. DOMAIN Spelling \subseteq Nat
  BY FormatAssumption
<1> QED
  BY <1>1, <1>2 DEF Cell

SourcesOf(e) == Ascending(e.sources)

LEMMA EntryCellsIs ==
  ASSUME NEW e, EntryGiven(e), NEW withFrequencies
  PROVE  LET zipf == IF withFrequencies THEN e.zipf ELSE 0
         IN  /\ SourcesOf(e) \in Seq(Nat) /\ zipf \in Nat
             /\ EntryCells(e, withFrequencies)
                  = <<Cell(e.word), Cell(e.normalized), Len(SourcesOf(e))>> \o SourcesOf(e)
                      \o <<zipf>>
             /\ EntryCells(e, withFrequencies) \in Seq(Nat)
             /\ Len(EntryCells(e, withFrequencies)) = Len(SourcesOf(e)) + 4
<1> DEFINE zipf == IF withFrequencies THEN e.zipf ELSE 0
           sources == SourcesOf(e)
<1>1. sources \in Seq(Nat)
  <2>1. sources \in Seq(e.sources)
    BY NumbersRanked DEF EntryGiven, SourcesOf, IsAscending
  <2> HIDE DEF sources
  <2> QED
    BY <2>1 DEF EntryGiven
<1>2. EntryCells(e, withFrequencies)
        = <<Cell(e.word), Cell(e.normalized), Len(sources)>> \o sources \o <<zipf>>
  BY NumbersAreRanked DEF EntryCells, SourcesOf
<1>3. zipf \in Nat /\ Cell(e.word) \in Nat /\ Cell(e.normalized) \in Nat
  BY CellIs DEF EntryGiven, EntryType
<1> HIDE DEF sources, zipf
<1>4. EntryCells(e, withFrequencies) \in Seq(Nat)
  BY <1>1, <1>2, <1>3
<1>5. Len(EntryCells(e, withFrequencies)) = Len(sources) + 4
  BY <1>1, <1>2, <1>3
<1> QED
  BY <1>1, <1>2, <1>3, <1>4, <1>5 DEF sources, zipf

(***************************************************************************)
(* Cells, one piece after the other.                                       *)
(***************************************************************************)
LEMMA Concatenation ==
  ASSUME NEW n \in Nat, NEW base \in Seq(Nat), NEW piece \in [1..n -> Seq(Nat)]
  PROVE  \E f : f = [k \in 0..n |-> IF k = 0 THEN base ELSE f[k - 1] \o piece[k]]
<1> DEFINE D == Seq(Nat)
           step == [q \in D \X (1..n) |-> q[1] \o piece[q[2]]]
<1>1. step \in [D \X (1..n) -> D]
  OBVIOUS
<1>2. \E f \in [0..n -> D] : Steps(f, base, n, step)
  <2> HIDE DEF D, step
  <2>1. base \in D
    BY DEF D
  <2> QED
    BY <1>1, <2>1, Recursion
<1>3. PICK f \in [0..n -> D] : f[0] = base /\ \A i \in 1..n : f[i] = step[<<f[i - 1], i>>]
  BY <1>2 DEF Steps
<1>4. ASSUME NEW k \in 0..n
      PROVE  f[k] = IF k = 0 THEN base ELSE f[k - 1] \o piece[k]
  <2>1. k # 0 => k - 1 \in 0..n /\ k \in 1..n
    OBVIOUS
  <2>2. k # 0 => f[k - 1] \in D
    BY <2>1
  <2>3. k # 0 => step[<<f[k - 1], k>>] = f[k - 1] \o piece[k]
    BY <2>1, <2>2
  <2> QED
    BY ONLY <1>3, <2>1, <2>3
<1> HIDE DEF step, D
<1>5. f = [k \in 0..n |-> IF k = 0 THEN base ELSE f[k - 1] \o piece[k]]
  BY <1>3, <1>4
<1> QED
  BY <1>5

LEMMA Joined ==
  ASSUME NEW s \in Seq(Nat), NEW t \in Seq(Nat)
  PROVE  /\ s \o t \in Seq(Nat) /\ Len(s \o t) = Len(s) + Len(t)
         /\ Len(s) \in Nat /\ Len(t) \in Nat
         /\ \A j \in 1..Len(s) : (s \o t)[j] = s[j]
         /\ \A j \in 1..Len(t) : (s \o t)[Len(s) + j] = t[j]
OBVIOUS

\* Pieces joined one after the other stay lists of numbers.
LEMMA PiecesJoined ==
  ASSUME NEW n \in Nat, NEW base \in Seq(Nat), NEW piece \in [1..n -> Seq(Nat)], NEW f,
         f[0] = base, \A k \in 1..n : f[k] = f[k - 1] \o piece[k]
  PROVE  \A k \in 0..n : f[k] \in Seq(Nat)
<1> DEFINE T == {k \in Nat : k <= n => f[k] \in Seq(Nat)}
<1>1. 0 \in T
  OBVIOUS
<1>2. ASSUME NEW k \in T, k + 1 <= n PROVE f[k + 1] \in Seq(Nat)
  <2>1. k + 1 \in 1..n /\ (k + 1) - 1 = k /\ f[k] \in Seq(Nat)
    BY <1>2
  <2>2. f[k + 1] = f[k] \o piece[k + 1] /\ piece[k + 1] \in Seq(Nat)
    BY <2>1
  <2> QED
    BY <2>1, <2>2
<1>3. \A k \in T \cap Nat : k + 1 \in T
  BY <1>2
<1>4. Nat \subseteq T
  <2> HIDE DEF T
  <2> QED BY <1>1, <1>3, Induction
<1> QED
  BY <1>4

InPlace(f, n, base, piece) ==
  /\ \A k \in 0..n : f[k] \in Seq(Nat)
  /\ \A k \in 0..n : Len(f[k]) <= Len(f[n]) /\ Len(base) <= Len(f[k])
  /\ \A k \in 0..n : \A j \in 1..Len(f[k]) : f[n][j] = f[k][j]
  /\ \A k \in 1..n : /\ Len(f[k]) = Len(f[k - 1]) + Len(piece[k])
                     /\ \A j \in 1..Len(piece[k]) :
                          f[n][Len(f[k - 1]) + j] = piece[k][j]

\* Where the pieces are found.
LEMMA PiecesInPlace ==
  ASSUME NEW n \in Nat, NEW base \in Seq(Nat), NEW piece \in [1..n -> Seq(Nat)], NEW f,
         f[0] = base, \A k \in 1..n : f[k] = f[k - 1] \o piece[k]
  PROVE  InPlace(f, n, base, piece)
<1>0. \A k \in 1..n : piece[k] \in Seq(Nat)
  OBVIOUS
<1>1. \A k \in 0..n : f[k] \in Seq(Nat)
  BY PiecesJoined
<1>a. \A k \in 1..n : f[k] = f[k - 1] \o piece[k]
  OBVIOUS
<1>2. ASSUME NEW k \in 1..n
      PROVE  /\ f[k - 1] \in Seq(Nat) /\ piece[k] \in Seq(Nat) /\ f[k] \in Seq(Nat)
             /\ Len(f[k - 1]) \in Nat /\ Len(piece[k]) \in Nat
             /\ Len(f[k]) = Len(f[k - 1]) + Len(piece[k])
             /\ \A j \in 1..Len(f[k - 1]) : f[k][j] = f[k - 1][j]
             /\ \A j \in 1..Len(piece[k]) : f[k][Len(f[k - 1]) + j] = piece[k][j]
  <2>1. k \in 0..n /\ k - 1 \in 0..n /\ f[k] = f[k - 1] \o piece[k]
    <3>1. k \in 0..n /\ k - 1 \in 0..n
      BY ONLY n \in Nat, k \in 1..n
    <3> QED
      BY ONLY <1>a, <3>1, k \in 1..n
  <2>2. f[k - 1] \in Seq(Nat) /\ piece[k] \in Seq(Nat)
    BY ONLY <1>0, <1>1, <2>1, k \in 1..n
  <2> DEFINE s == f[k - 1]
             t == piece[k]
  <2>3. /\ s \o t \in Seq(Nat) /\ Len(s \o t) = Len(s) + Len(t)
        /\ Len(s) \in Nat /\ Len(t) \in Nat
        /\ \A j \in 1..Len(s) : (s \o t)[j] = s[j]
        /\ \A j \in 1..Len(t) : (s \o t)[Len(s) + j] = t[j]
    <3> HIDE DEF s, t
    <3>1. s \in Seq(Nat) /\ t \in Seq(Nat)
      BY ONLY <2>2 DEF s, t
    <3> QED
      BY ONLY <3>1, Joined
  <2> QED
    BY ONLY <2>1, <2>2, <2>3
\* A later sequence continues an earlier one.
<1> DEFINE Continues(k, m) == /\ Len(f[k]) <= Len(f[m])
                              /\ \A j \in 1..Len(f[k]) : f[m][j] = f[k][j]
<1>3. ASSUME NEW k \in 0..n, NEW m \in k..n, m + 1 <= n, Continues(k, m)
      PROVE  Continues(k, m + 1)
  <2>1. m + 1 \in 1..n /\ (m + 1) - 1 = m /\ m \in 0..n
    BY <1>3
  <2>2. /\ Len(f[m]) \in Nat /\ Len(piece[m + 1]) \in Nat
        /\ Len(f[m + 1]) = Len(f[m]) + Len(piece[m + 1])
        /\ \A j \in 1..Len(f[m]) : f[m + 1][j] = f[m][j]
    <3> DEFINE l == m + 1
    <3>1. l \in 1..n /\ l - 1 = m
      BY <2>1
    <3>2. /\ Len(f[l - 1]) \in Nat /\ Len(piece[l]) \in Nat
          /\ Len(f[l]) = Len(f[l - 1]) + Len(piece[l])
          /\ \A j \in 1..Len(f[l - 1]) : f[l][j] = f[l - 1][j]
      <4> HIDE DEF l
      <4> QED BY ONLY <1>2, <3>1
    <3> QED
      BY ONLY <3>1, <3>2
  <2>3. /\ Len(f[k]) \in Nat /\ Len(f[k]) <= Len(f[m])
        /\ \A j \in 1..Len(f[k]) : f[m][j] = f[k][j]
    <3>1. f[k] \in Seq(Nat)
      BY ONLY <1>1, k \in 0..n
    <3>2. Len(f[k]) \in Nat
      BY ONLY <3>1
    <3> QED
      BY ONLY <1>3, <3>2
  <2>4. Len(f[k]) <= Len(f[m + 1]) /\ \A j \in 1..Len(f[k]) : j \in 1..Len(f[m])
    <3> DEFINE a == Len(f[k])
               b == Len(f[m])
               c == Len(piece[m + 1])
    <3>1. a \in Nat /\ b \in Nat /\ c \in Nat /\ a <= b /\ Len(f[m + 1]) = b + c
      BY ONLY <2>2, <2>3
    <3> HIDE DEF a, b, c
    <3>2. a <= b + c /\ \A j \in 1..a : j \in 1..b
      BY ONLY <3>1
    <3> QED
      BY ONLY <3>1, <3>2 DEF a, b
  <2>5. \A j \in 1..Len(f[k]) : f[m + 1][j] = f[k][j]
    BY ONLY <2>2, <2>3, <2>4
  <2> QED
    BY <2>4, <2>5
<1>4. ASSUME NEW k \in 0..n PROVE \A m \in k..n : Continues(k, m)
  <2> DEFINE T == {i \in Nat : k + i <= n => Continues(k, k + i)}
  <2>1. 0 \in T
    <3>1. Len(f[k]) \in Nat /\ k + 0 = k
      BY <1>1
    <3> QED
      BY <3>1
  <2>2. \A i \in T \cap Nat : i + 1 \in T
    <3> SUFFICES ASSUME NEW i \in T, i \in Nat, k + (i + 1) <= n PROVE Continues(k, k + (i + 1))
      OBVIOUS
    <3>1. k + i \in k..n /\ (k + i) + 1 <= n /\ k + (i + 1) = (k + i) + 1 /\ k + i <= n
      BY ONLY n \in Nat, k \in 0..n, i \in Nat, k + (i + 1) <= n
    <3> HIDE DEF Continues
    <3>2. Continues(k, k + i)
      BY ONLY <3>1, i \in T
    <3> HIDE DEF T
    <3> QED
      BY <3>1, <3>2, <1>3
  <2>3. Nat \subseteq T
    <3> HIDE DEF T
    <3> QED BY <2>1, <2>2, Induction
  <2>4. ASSUME NEW m \in k..n PROVE Continues(k, m)
    <3>1. m - k \in Nat /\ k + (m - k) = m /\ m <= n
      OBVIOUS
    <3>2. m - k \in T
      BY <2>3, <3>1
    <3> HIDE DEF Continues
    <3> QED
      BY <3>1, <3>2
  <2> QED
    BY <2>4
<1>5. \A k \in 0..n : Continues(k, n)
  <2>1. \A k \in 0..n : n \in k..n
    OBVIOUS
  <2> HIDE DEF Continues
  <2> QED BY <1>4, <2>1
<1>6. \A k \in 0..n : Len(base) <= Len(f[k])
  <2>1. ASSUME NEW k \in 0..n PROVE Continues(0, k)
    <3>1. 0 \in 0..n /\ k \in 0..n
      OBVIOUS
    <3> HIDE DEF Continues
    <3> QED BY <1>4, <3>1
  <2> QED
    BY <2>1
<1>7. ASSUME NEW k \in 1..n, NEW j \in 1..Len(piece[k])
      PROVE  f[n][Len(f[k - 1]) + j] = piece[k][j]
  <2>1. /\ f[k][Len(f[k - 1]) + j] = piece[k][j]
        /\ Len(f[k]) = Len(f[k - 1]) + Len(piece[k])
        /\ Len(f[k - 1]) \in Nat /\ Len(piece[k]) \in Nat
    BY <1>2
  <2>2. Len(f[k - 1]) + j \in 1..Len(f[k])
    BY <2>1
  <2>3. k \in 0..n
    OBVIOUS
  <2> QED
    BY <1>5, <2>1, <2>2, <2>3
<1> QED
  BY ONLY <1>1, <1>2, <1>5, <1>6, <1>7 DEF InPlace

EntryPieces(f, entries, withFrequencies) ==
  /\ f[0] = <<>>
  /\ \A k \in 1..Len(entries) : f[k] = f[k - 1] \o EntryCells(entries[k], withFrequencies)

LEMMA EntriesCellsAre ==
  ASSUME NEW entries, AsList(entries), \A e \in Range(entries) : EntryGiven(e),
         NEW withFrequencies
  PROVE  /\ EntriesCells(entries, withFrequencies) \in Seq(Nat)
         /\ \E f : /\ EntryPieces(f, entries, withFrequencies)
                  /\ EntriesCells(entries, withFrequencies) = f[Len(entries)]
<1> DEFINE n == Len(entries)
           piece == [k \in 1..n |-> EntryCells(entries[k], withFrequencies)]
           upTo == CHOOSE f : f = [k \in 0..n |->
                     IF k = 0 THEN <<>>
                     ELSE f[k - 1] \o EntryCells(entries[k], withFrequencies)]
           base == <<>>
<1>1. n \in Nat /\ \A k \in 1..n : entries[k] \in Range(entries)
  BY ListIs
<1>2. piece \in [1..n -> Seq(Nat)]
  BY <1>1, EntryCellsIs
<1>3. \E f : f = [k \in 0..n |-> IF k = 0 THEN base ELSE f[k - 1] \o piece[k]]
  <2>1. base \in Seq(Nat)
    OBVIOUS
  <2> HIDE DEF n, piece, base
  <2> QED
    BY <1>1, <1>2, <2>1, Concatenation
<1>4. PICK f : f = [k \in 0..n |-> IF k = 0 THEN base ELSE f[k - 1] \o piece[k]]
  BY <1>3
<1>5. f = [k \in 0..n |-> IF k = 0 THEN <<>>
                        ELSE f[k - 1] \o EntryCells(entries[k], withFrequencies)]
  <2>1. \A k \in 0..n : f[k] = IF k = 0 THEN <<>>
                              ELSE f[k - 1] \o EntryCells(entries[k], withFrequencies)
    <3>1. \A k \in 0..n : k # 0 => k \in 1..n
      BY <1>1
    <3>2. \A k \in 1..n : piece[k] = EntryCells(entries[k], withFrequencies)
      OBVIOUS
    <3> HIDE DEF n, piece
    <3> QED
      BY <1>4, <3>1, <3>2
  <2> HIDE DEF n
  <2> QED
    BY <1>4, <2>1
<1>6. upTo = [k \in 0..n |-> IF k = 0 THEN <<>>
                          ELSE upTo[k - 1] \o EntryCells(entries[k], withFrequencies)]
  <2> HIDE DEF n
  <2> QED
    BY <1>5
<1>7. EntriesCells(entries, withFrequencies) = upTo[n]
  BY DEF EntriesCells
<1> HIDE DEF upTo
<1>8. upTo[0] = <<>> /\ \A k \in 1..n : upTo[k] = upTo[k - 1] \o EntryCells(entries[k], withFrequencies)
  BY <1>1, <1>6
<1>9. upTo[n] \in Seq(Nat)
  <2>1. upTo[0] = base /\ \A k \in 1..n : upTo[k] = upTo[k - 1] \o piece[k]
    BY <1>8
  <2>2. base \in Seq(Nat) /\ n \in 0..n
    BY <1>1
  <2> HIDE DEF n, piece, base
  <2> QED
    BY <1>1, <1>2, <2>1, <2>2, PiecesJoined
<1>10. EntryPieces(upTo, entries, withFrequencies)
  BY <1>8 DEF EntryPieces
<1> QED
  BY <1>7, <1>9, <1>10

PredictionPiece(entries, x) == <<LexiconIndex(entries, x.next), x.count, x.probability>>

GroupPieces(f, entries, group) ==
  /\ f[0] = <<Len(group)>>
  /\ \A k \in 1..Len(group) : f[k] = f[k - 1] \o PredictionPiece(entries, group[k])

LEMMA GroupCellsAre ==
  ASSUME NEW entries, NEW group, Len(group) \in Nat,
         \A k \in 1..Len(group) : /\ LexiconIndex(entries, group[k].next) \in Nat
                                 /\ group[k].count \in Nat /\ group[k].probability \in Nat
  PROVE  /\ GroupCells(entries, group) \in Seq(Nat)
         /\ \E f : GroupPieces(f, entries, group) /\ GroupCells(entries, group) = f[Len(group)]
<1> DEFINE n == Len(group)
           piece == [k \in 1..n |-> PredictionPiece(entries, group[k])]
           upTo == CHOOSE f : f = [k \in 0..n |->
                     IF k = 0 THEN <<Len(group)>> ELSE f[k - 1] \o PredictionPiece(entries, group[k])]
           base == <<Len(group)>>
<1>1. n \in Nat
  OBVIOUS
<1>2. piece \in [1..n -> Seq(Nat)]
  BY DEF PredictionPiece
<1>3. \E f : f = [k \in 0..n |-> IF k = 0 THEN base ELSE f[k - 1] \o piece[k]]
  <2>1. base \in Seq(Nat)
    BY <1>1
  <2> HIDE DEF n, piece, base
  <2> QED
    BY <1>1, <1>2, <2>1, Concatenation
<1>4. PICK f : f = [k \in 0..n |-> IF k = 0 THEN base ELSE f[k - 1] \o piece[k]]
  BY <1>3
<1>5. f = [k \in 0..n |-> IF k = 0 THEN <<Len(group)>> ELSE f[k - 1] \o PredictionPiece(entries, group[k])]
  <2>1. \A k \in 0..n : f[k] = IF k = 0 THEN <<Len(group)>> ELSE f[k - 1] \o PredictionPiece(entries, group[k])
    <3>1. \A k \in 0..n : k # 0 => k \in 1..n
      BY <1>1
    <3>2. \A k \in 1..n : piece[k] = PredictionPiece(entries, group[k])
      OBVIOUS
    <3> HIDE DEF n, piece
    <3> QED
      BY <1>4, <3>1, <3>2 DEF n
  <2> HIDE DEF n
  <2> QED
    BY <1>4, <2>1
<1>6. upTo = [k \in 0..n |-> IF k = 0 THEN <<Len(group)>> ELSE upTo[k - 1] \o PredictionPiece(entries, group[k])]
  <2> HIDE DEF n
  <2> QED
    BY <1>5
<1>7. GroupCells(entries, group) = upTo[n]
  BY DEF GroupCells, PredictionPiece
<1> HIDE DEF upTo
<1>8. upTo[0] = <<Len(group)>> /\ \A k \in 1..n : upTo[k] = upTo[k - 1] \o PredictionPiece(entries, group[k])
  <2>1. 0 \in 0..n /\ \A k \in 1..n : k \in 0..n /\ k # 0
    BY <1>1
  <2> HIDE DEF n
  <2> QED
    BY <1>6, <2>1
<1>9. upTo[n] \in Seq(Nat)
  <2>1. upTo[0] = base /\ \A k \in 1..n : upTo[k] = upTo[k - 1] \o piece[k]
    BY <1>8
  <2>2. base \in Seq(Nat) /\ n \in 0..n
    BY <1>1
  <2> HIDE DEF n, piece, base
  <2> QED
    BY <1>1, <1>2, <2>1, <2>2, PiecesJoined
<1>10. GroupPieces(upTo, entries, group)
  BY <1>8 DEF GroupPieces
<1> QED
  BY <1>7, <1>9, <1>10

ContextPieces(f, entries, records, contexts) ==
  /\ f[0] = <<Len(contexts)>>
  /\ \A k \in 1..Len(contexts) :
       f[k] = f[k - 1] \o ContextCells(entries, records, contexts[k])

LEMMA ContextsCellsAre ==
  ASSUME NEW entries, NEW records, NEW contexts, Len(contexts) \in Nat,
         \A k \in 1..Len(contexts) : ContextCells(entries, records, contexts[k]) \in Seq(Nat)
  PROVE  /\ ContextsCells(entries, records, contexts) \in Seq(Nat)
         /\ \E f : /\ ContextPieces(f, entries, records, contexts)
                  /\ ContextsCells(entries, records, contexts) = f[Len(contexts)]
<1> DEFINE n == Len(contexts)
           piece == [k \in 1..n |-> ContextCells(entries, records, contexts[k])]
           upTo == CHOOSE f : f = [k \in 0..n |->
                     IF k = 0 THEN <<Len(contexts)>> ELSE f[k - 1] \o ContextCells(entries, records, contexts[k])]
           base == <<Len(contexts)>>
<1>1. n \in Nat
  OBVIOUS
<1>2. piece \in [1..n -> Seq(Nat)]
  OBVIOUS
<1>3. \E f : f = [k \in 0..n |-> IF k = 0 THEN base ELSE f[k - 1] \o piece[k]]
  <2>1. base \in Seq(Nat)
    BY <1>1
  <2> HIDE DEF n, piece, base
  <2> QED
    BY <1>1, <1>2, <2>1, Concatenation
<1>4. PICK f : f = [k \in 0..n |-> IF k = 0 THEN base ELSE f[k - 1] \o piece[k]]
  BY <1>3
<1>5. f = [k \in 0..n |-> IF k = 0 THEN <<Len(contexts)>> ELSE f[k - 1] \o ContextCells(entries, records, contexts[k])]
  <2>1. \A k \in 0..n : f[k] = IF k = 0 THEN <<Len(contexts)>> ELSE f[k - 1] \o ContextCells(entries, records, contexts[k])
    <3>1. \A k \in 0..n : k # 0 => k \in 1..n
      BY <1>1
    <3>2. \A k \in 1..n : piece[k] = ContextCells(entries, records, contexts[k])
      OBVIOUS
    <3> HIDE DEF n, piece
    <3> QED
      BY <1>4, <3>1, <3>2 DEF n
  <2> HIDE DEF n
  <2> QED
    BY <1>4, <2>1
<1>6. upTo = [k \in 0..n |-> IF k = 0 THEN <<Len(contexts)>> ELSE upTo[k - 1] \o ContextCells(entries, records, contexts[k])]
  <2> HIDE DEF n
  <2> QED
    BY <1>5
<1>7. ContextsCells(entries, records, contexts) = upTo[n]
  BY DEF ContextsCells
<1> HIDE DEF upTo
<1>8. upTo[0] = <<Len(contexts)>> /\ \A k \in 1..n : upTo[k] = upTo[k - 1] \o ContextCells(entries, records, contexts[k])
  BY <1>1, <1>6
<1>9. upTo[n] \in Seq(Nat)
  <2>1. upTo[0] = base /\ \A k \in 1..n : upTo[k] = upTo[k - 1] \o piece[k]
    BY <1>8
  <2>2. base \in Seq(Nat) /\ n \in 0..n
    BY <1>1
  <2> HIDE DEF n, piece, base
  <2> QED
    BY <1>1, <1>2, <2>1, <2>2, PiecesJoined
<1>10. ContextPieces(upTo, entries, records, contexts)
  BY <1>8 DEF ContextPieces
<1> QED
  BY <1>7, <1>9, <1>10

LEMMA ContextCellsAre ==
  ASSUME NEW entries, AsList(entries), NEW width \in Nat, NEW records, GoodRecords(records, width),
         RecordsAccepted(records), NEW c \in ListedContexts(entries, records)
  PROVE  ContextCells(entries, records, c) \in Seq(Nat)
<1> DEFINE group == Group(entries, records, c)
           S == GroupSet(entries, records, c)
<1>1. c \in Seq(Nat) /\ \A i \in DOMAIN c : c[i] # Unlisted
  BY ContextsAre
<1>2. group \in Seq(S)
  BY <1>1, GroupIs
<1>3. ASSUME NEW x \in S
      PROVE  /\ LexiconIndex(entries, x.next) \in Nat
             /\ x.count \in Nat /\ x.probability \in Nat
  <2>1. /\ LexiconIndex(entries, x.next) # Unlisted
        /\ \E r \in DOMAIN records : x = records[r]
    BY DEF GroupSet
  <2>2. LexiconIndex(entries, x.next) \in Nat
    BY <2>1, LexiconIndexIs, ListIs
  <2>3. x \in Range(records)
    BY <2>1, ListIs DEF GoodRecords
  <2> QED
    BY <2>2, <2>3 DEF GoodRecords, RecordType
<1>4. /\ Len(group) \in Nat
      /\ \A k \in 1..Len(group) : /\ LexiconIndex(entries, group[k].next) \in Nat
                                 /\ group[k].count \in Nat /\ group[k].probability \in Nat
  <2> HIDE DEF group, S
  <2>1. Len(group) \in Nat /\ \A k \in 1..Len(group) : group[k] \in S
    BY <1>2
  <2> QED
    BY <1>3, <2>1
<1>5. GroupCells(entries, group) \in Seq(Nat)
  <2> HIDE DEF group
  <2> QED
    BY <1>4, GroupCellsAre
<1> QED
  BY <1>1, <1>5 DEF ContextCells

LEMMA SectionCellsAre ==
  ASSUME NEW entries, AsList(entries), NEW width \in Nat, NEW records, GoodRecords(records, width),
         RecordsAccepted(records)
  PROVE  SectionCells(entries, records) \in Seq(Nat)
<1> DEFINE order == ContextOrder(entries, records)
<1>1. order \in Seq(ListedContexts(entries, records))
  BY ContextsAre
<1>2. SectionCells(entries, records) = ContextsCells(entries, records, order)
  BY WordsAreRanked DEF SectionCells, ContextOrder
<1>3. Len(order) \in Nat /\ \A k \in 1..Len(order) : order[k] \in ListedContexts(entries, records)
  <2> HIDE DEF order
  <2> QED BY <1>1
<1>4. \A k \in 1..Len(order) : ContextCells(entries, records, order[k]) \in Seq(Nat)
  <2> HIDE DEF order
  <2> QED BY <1>3, ContextCellsAre
<1>5. ContextsCells(entries, records, order) \in Seq(Nat)
  <2> HIDE DEF order
  <2> QED BY <1>3, <1>4, ContextsCellsAre
<1> QED
  BY <1>2, <1>5

(***************************************************************************)
(* Files.                                                                  *)
(***************************************************************************)
HeaderFaults == {"TooShort", "InvalidMagicBytes", "UnsupportedVersion", "TruncatedPayload",
                 "IncompatibleLanguage", "InvalidPayload", "ChecksumMismatch"}

GoodPack(pack) ==
  /\ pack.payload \in Seq(Nat)
  /\ HeaderFault(pack) = NoFault => pack.header[4] \in Nat
  /\ HeaderFault(pack) \in HeaderFaults \cup {NoFault}
  /\ Probe(pack) \in {"not a pack", "supported", "unsupported"}
  /\ Probe(pack) = "unsupported"
       <=> HeaderFault(pack) \in {"UnsupportedVersion", "IncompatibleLanguage"}
  /\ HeaderFault(pack) = NoFault => Probe(pack) = "supported"

LEMMA HeadedIsGood ==
  ASSUME NEW count \in Nat, NEW p \in Seq(Nat)
  PROVE  GoodPack(Headed(count, p)) /\ HeaderFault(Headed(count, p)) = NoFault
<1> DEFINE h == <<"KRM1", PackVersion, "ku-Latn", count, Len(p), p>>
           pack == Headed(count, p)
<1>1. pack.header = h /\ pack.payload = p
  BY DEF Headed
<1>2. /\ Len(h) = 6 /\ h[1] = "KRM1" /\ h[2] = PackVersion /\ h[3] = "ku-Latn"
      /\ h[4] = count /\ h[5] = Len(p) /\ h[6] = p
  OBVIOUS
<1> HIDE DEF h, pack
<1>3. HeaderFault(pack) = NoFault
  BY <1>1, <1>2 DEF HeaderFault, CutTag
<1>4. Probe(pack) = "supported"
  BY <1>1, <1>2 DEF Probe, CutTag
<1> QED
  BY <1>1, <1>2, <1>3, <1>4 DEF GoodPack, NoFault, pack

LEMMA CompiledPackIs ==
  ASSUME NEW input \in Inputs, Compiles(input)
  PROVE  \E p \in Seq(Nat) : /\ CompiledPack(input) = Headed(Len(input.entries), p)
                            /\ Len(input.entries) \in Nat
<1> DEFINE entries == input.entries
           a == EntriesCells(entries, input.withFrequencies)
           b == SectionCells(entries, input.bigrams)
           c == SectionCells(entries, input.trigrams)
<1>1. /\ AsList(entries) /\ GoodRecords(input.bigrams, 1) /\ GoodRecords(input.trigrams, 2)
      /\ \A e \in Range(entries) : EntryGiven(e)
  BY InputsAssumption DEF AsList, GoodRecords, EntryGiven
<1>2. RecordsAccepted(input.bigrams) /\ RecordsAccepted(input.trigrams)
  BY DEF Compiles, BigramsCompile, TrigramsCompile, SectionCompiles
<1>3. a \in Seq(Nat)
  BY <1>1, EntriesCellsAre
<1>4. b \in Seq(Nat) /\ c \in Seq(Nat)
  BY <1>1, <1>2, SectionCellsAre
<1>5. Len(entries) \in Nat
  BY <1>1, ListIs
<1>6. CompiledPack(input) = Headed(Len(entries), a \o b \o c)
  BY DEF CompiledPack
<1>7. a \o b \o c \in Seq(Nat)
  <2> HIDE DEF a, b, c
  <2> QED BY <1>3, <1>4
<1> QED
  BY <1>5, <1>6, <1>7

LEMMA CutIs ==
  ASSUME NEW p \in Seq(Nat)
  PROVE  Cut(p) \in Seq(Nat)
<1>1. \A k \in 1..(Len(p) - 1) : p[k] \in Nat
  OBVIOUS
<1>2. CASE p = <<>>
  BY <1>2 DEF Cut
<1>3. CASE p # <<>>
  <2>1. Len(p) - 1 \in Nat
    BY <1>3
  <2> QED
    BY <1>1, <2>1 DEF Cut
<1> QED
  BY <1>2, <1>3

\* Whatever is wrong with a file, its header is judged alike by loading and by probing.
LEMMA FilesAreGood ==
  ASSUME NEW n \in Nat, NEW p \in Seq(Nat), NEW whole, whole = Headed(n, p),
         NEW pack \in Broken(whole) \cup Resealed(whole)
  PROVE  GoodPack(pack)
<1> DEFINE h == <<"KRM1", PackVersion, "ku-Latn", n, Len(p), p>>
<1>1. whole = [header |-> h, payload |-> p]
  BY DEF Headed
<1>2. /\ Len(h) = 6 /\ h[1] = "KRM1" /\ h[2] = PackVersion /\ h[3] = "ku-Latn"
      /\ h[4] = n /\ h[5] = Len(p) /\ h[6] = p /\ DOMAIN h = 1..6
  OBVIOUS
<1> HIDE DEF h
<1>3. CASE pack \in Resealed(whole)
  <2>1. whole.payload = p /\ whole.header[4] = n
    BY <1>1, <1>2
  <2>2. \/ \E k \in DOMAIN p, v \in CellValues : pack = Headed(n, [p EXCEPT ![k] = v])
        \/ pack = Headed(n, Cut(p)) \/ pack = Headed(n, Append(p, 0))
        \/ \E count \in {n - 1, n + 1} \cap Nat : pack = Headed(count, p)
    BY <1>3, <2>1 DEF Resealed
  <2>3. \A k \in DOMAIN p, v \in CellValues : [p EXCEPT ![k] = v] \in Seq(Nat)
    BY BoundsAssumption
  <2>4. Append(p, 0) \in Seq(Nat) /\ Cut(p) \in Seq(Nat)
    BY CutIs
  <2> QED
    BY <2>2, <2>3, <2>4, HeadedIsGood
<1>4. CASE pack \in Broken(whole)
  <2>1. \/ pack = [whole EXCEPT !.payload = Cut(p)]
        \/ pack = [whole EXCEPT !.payload = Append(p, 0)]
        \/ pack = [whole EXCEPT !.payload[Len(p)] = p[Len(p)] + 1]
        \/ pack = [whole EXCEPT !.header[1] = "ELF"]
        \/ pack = [whole EXCEPT !.header[2] = PackVersion + 1]
        \/ pack = [whole EXCEPT !.header[3] = "ku-Arab"]
        \/ pack = [header |-> <<h[1], h[2], CutTag>>, payload |-> <<>>]
        \/ \E k \in 2..5 : pack = [header |-> SubSeq(h, 1, k), payload |-> <<>>]
    BY <1>1, <1>4 DEF Broken
  <2>2. ASSUME NEW q \in Seq(Nat), pack = [header |-> h, payload |-> q]
        PROVE  GoodPack(pack)
    <3>0. pack.header = h /\ pack.payload = q
      BY ONLY <2>2
    <3> DEFINE g == pack.header
    <3>1. /\ Len(g) = 6 /\ g[1] = "KRM1" /\ g[2] = PackVersion /\ g[3] = "ku-Latn"
          /\ g[4] = n /\ g[5] = Len(p) /\ g[6] = p
      BY ONLY <1>2, <3>0
    <3>2. Probe(pack) = "supported"
      BY ONLY <3>1 DEF Probe, CutTag
    <3>3. HeaderFault(pack) \in {"InvalidPayload", "ChecksumMismatch", NoFault}
      BY ONLY <3>1 DEF HeaderFault, CutTag
    <3> QED
      BY ONLY n \in Nat, q \in Seq(Nat), <3>0, <3>1, <3>2, <3>3 DEF GoodPack, HeaderFaults, NoFault
  <2>3. CASE pack = [whole EXCEPT !.payload = Cut(p)]
    <3>1. pack = [header |-> h, payload |-> Cut(p)]
      BY <1>1, <2>3
    <3> QED
      BY <2>2, <3>1, CutIs
  <2>4. CASE pack = [whole EXCEPT !.payload = Append(p, 0)]
    <3>1. pack = [header |-> h, payload |-> Append(p, 0)]
      BY ONLY <1>1, <2>4
    <3>2. Append(p, 0) \in Seq(Nat)
      OBVIOUS
    <3> QED
      BY ONLY <2>2, <3>1, <3>2
  <2>5. CASE pack = [whole EXCEPT !.payload[Len(p)] = p[Len(p)] + 1]
    <3>1. pack = [header |-> h, payload |-> [p EXCEPT ![Len(p)] = p[Len(p)] + 1]]
      BY ONLY <1>1, <2>5
    <3>2. [p EXCEPT ![Len(p)] = p[Len(p)] + 1] \in Seq(Nat)
      <4>1. CASE p = <<>>
        <5> DEFINE r == [p EXCEPT ![Len(p)] = p[Len(p)] + 1]
        <5>1. DOMAIN p = 1..0
          BY <4>1
        <5>2. r = [i \in 1..0 |-> r[i]]
          BY <5>1
        <5> HIDE DEF r
        <5>3. r \in Seq(Nat)
          BY <5>2
        <5> QED
          BY <5>3 DEF r
      <4>2. CASE p # <<>>
        <5> DEFINE k == Len(p)
                   v == p[Len(p)] + 1
        <5>1. k \in DOMAIN p /\ v \in Nat
          BY <4>2
        <5> HIDE DEF k, v
        <5>2. [p EXCEPT ![k] = v] \in Seq(Nat)
          BY <5>1
        <5> QED
          BY <5>2 DEF k, v
      <4> QED
        BY <4>1, <4>2
    <3> QED
      BY ONLY <2>2, <3>1, <3>2
  <2>6. ASSUME NEW g, pack = [header |-> g, payload |-> p], Len(g) = 6,
               \/ g[1] # "KRM1"
               \/ g[1] = "KRM1" /\ g[2] # PackVersion /\ g[3] = "ku-Latn"
               \/ g[1] = "KRM1" /\ g[2] = PackVersion /\ g[3] = "ku-Arab"
        PROVE  GoodPack(pack)
    <3>1. pack.header = g /\ pack.payload = p
      BY ONLY <2>6
    <3>2. CASE g[1] # "KRM1"
      BY ONLY p \in Seq(Nat), <2>6, <3>1, <3>2
      DEF GoodPack, HeaderFaults, HeaderFault, Probe, NoFault
    <3>3. CASE g[1] = "KRM1" /\ g[2] # PackVersion /\ g[3] = "ku-Latn"
      <4> DEFINE h1 == pack.header
      <4>0. Len(h1) = 6 /\ h1[1] = "KRM1" /\ h1[2] # PackVersion /\ h1[3] = "ku-Latn"
        BY ONLY <2>6, <3>1, <3>3
      <4>1. HeaderFault(pack) = "UnsupportedVersion"
        BY ONLY <4>0 DEF HeaderFault, CutTag
      <4>2. Probe(pack) = "unsupported"
        BY ONLY <4>0 DEF Probe, CutTag
      <4> QED
        BY ONLY p \in Seq(Nat), <3>1, <4>1, <4>2 DEF GoodPack, HeaderFaults, NoFault
    <3>4. CASE g[1] = "KRM1" /\ g[2] = PackVersion /\ g[3] = "ku-Arab"
      <4> DEFINE h1 == pack.header
      <4>0. Len(h1) = 6 /\ h1[1] = "KRM1" /\ h1[2] = PackVersion /\ h1[3] = "ku-Arab"
        BY ONLY <2>6, <3>1, <3>4
      <4>1. HeaderFault(pack) = "IncompatibleLanguage"
        BY ONLY <4>0 DEF HeaderFault, CutTag
      <4>2. Probe(pack) = "unsupported"
        BY ONLY <4>0 DEF Probe, CutTag
      <4> QED
        BY ONLY p \in Seq(Nat), <3>1, <4>1, <4>2 DEF GoodPack, HeaderFaults, NoFault
    <3> QED
      BY ONLY <2>6, <3>2, <3>3, <3>4
  <2>7. CASE pack = [whole EXCEPT !.header[1] = "ELF"]
    <3> DEFINE g == [h EXCEPT ![1] = "ELF"]
    <3> HIDE DEF h
    <3>1. pack = [header |-> g, payload |-> p]
      BY ONLY <1>1, <2>7
    <3>2. g[1] # "KRM1" /\ Len(g) = 6
      BY <1>2 DEF h
    <3> HIDE DEF g
    <3> QED
      BY <2>6, <3>1, <3>2
  <2>8. CASE pack = [whole EXCEPT !.header[2] = PackVersion + 1]
    <3> DEFINE g == [h EXCEPT ![2] = PackVersion + 1]
    <3> HIDE DEF h
    <3>1. pack = [header |-> g, payload |-> p]
      BY ONLY <1>1, <2>8
    <3>2. /\ Len(g) = 6
          /\ g[1] = "KRM1" /\ g[2] # PackVersion /\ g[3] = "ku-Latn"
      BY <1>2 DEF PackVersion, h
    <3> HIDE DEF g
    <3> QED
      BY <2>6, <3>1, <3>2
  <2>9. CASE pack = [whole EXCEPT !.header[3] = "ku-Arab"]
    <3> DEFINE g == [h EXCEPT ![3] = "ku-Arab"]
    <3> HIDE DEF h
    <3>1. pack = [header |-> g, payload |-> p]
      BY ONLY <1>1, <2>9
    <3>2. /\ Len(g) = 6
          /\ g[1] = "KRM1" /\ g[2] = PackVersion /\ g[3] = "ku-Arab"
      BY <1>2 DEF h
    <3> HIDE DEF g
    <3> QED
      BY <2>6, <3>1, <3>2
  <2>10. CASE pack = [header |-> <<h[1], h[2], CutTag>>, payload |-> <<>>]
    <3> DEFINE g == <<h[1], h[2], CutTag>>
    <3>1. pack.header = g /\ pack.payload = <<>>
      BY <2>10
    <3>2. Len(g) = 3 /\ g[1] = "KRM1" /\ g[2] = PackVersion /\ g[3] = CutTag
      BY <1>2
    <3> HIDE DEF g
    <3> QED
      BY <3>1, <3>2 DEF GoodPack, HeaderFaults, HeaderFault, Probe, NoFault, CutTag
  <2>11. ASSUME NEW k \in 2..5, pack = [header |-> SubSeq(h, 1, k), payload |-> <<>>]
         PROVE  GoodPack(pack)
    <3> DEFINE g == SubSeq(h, 1, k)
    <3>1. pack.header = g /\ pack.payload = <<>>
      BY <2>11
    <3>2. Len(g) = k /\ \A i \in 1..k : g[i] = h[i]
      BY <1>2 DEF h
    <3>3. Len(g) \in 2..5 /\ (k > 2 => g[1] = "KRM1" /\ g[2] = PackVersion /\ g[3] = "ku-Latn")
      BY <1>2, <3>2
    <3> HIDE DEF g
    <3> QED
      BY <3>1, <3>2, <3>3 DEF GoodPack, HeaderFaults, HeaderFault, Probe, NoFault, CutTag
  <2> QED
    BY <2>1, <2>3, <2>4, <2>5, <2>7, <2>8, <2>9, <2>10, <2>11
<1> QED
  BY <1>3, <1>4

(***************************************************************************)
(* Readings.                                                               *)
(***************************************************************************)
ReadFaults == {"TruncatedPayload", "InvalidPayload"}

Reading(X) == [at : Nat, got : Seq(X), fault : ReadFaults \cup {NoFault}]

Nothing(at) == [at |-> at, got |-> <<>>, fault |-> NoFault]

Onward(next, r) == IF r.fault = NoFault THEN next[r] ELSE r

Follows(f, start, n, next) ==
  f[0] = start /\ \A k \in 1..n : f[k] = Onward(next, f[k - 1])

FollowsWithin(f, D, n, next) ==
  \A k \in 1..n : f[k - 1] \in D => f[k] = Onward(next, f[k - 1])

Grows(next, D, X) ==
  \A r \in D : next[r].fault = NoFault => \E x \in X : next[r].got = Append(r.got, x)

\* What is read step by step exists, stays in its type, and is n items unless it fails.
LEMMA ReadingExists ==
  ASSUME NEW D, NEW n \in Nat, NEW start \in D, NEW next \in [D -> D]
  PROVE  \E f \in [0..n -> D] : Follows(f, start, n, next)
<1> DEFINE step == [q \in D \X (1..n) |->
                      Onward(next, q[1])]
<1>1. step \in [D \X (1..n) -> D]
  BY DEF Onward
<1>2. \E f \in [0..n -> D] : Steps(f, start, n, step)
  <2> HIDE DEF step
  <2> QED BY <1>1, Recursion
<1>3. PICK f \in [0..n -> D] : f[0] = start /\ \A i \in 1..n : f[i] = step[<<f[i - 1], i>>]
  BY <1>2 DEF Steps
<1>4. ASSUME NEW k \in 1..n
      PROVE  f[k] = Onward(next, f[k - 1])
  <2>1. k - 1 \in 0..n /\ f[k - 1] \in D
    OBVIOUS
  <2>2. step[<<f[k - 1], k>>]
          = Onward(next, f[k - 1])
    BY <2>1
  <2> QED
    BY <1>3, <2>2
<1> QED
  BY <1>3, <1>4 DEF Follows

LEMMA ReadingStays ==
  ASSUME NEW X, NEW D, D \subseteq Reading(X), NEW n \in Nat, NEW start \in D, start.got = <<>>,
         NEW next \in [D -> D], Grows(next, D, X),
         NEW f, f[0] = start, FollowsWithin(f, D, n, next)
  PROVE  f[n] \in D /\ (f[n].fault = NoFault => Len(f[n].got) = n)
<1> DEFINE T == {k \in Nat : k <= n =>
                   f[k] \in D /\ (f[k].fault = NoFault => Len(f[k].got) = k)}
<1>1. 0 \in T
  OBVIOUS
<1>2. ASSUME NEW k \in T, k + 1 <= n
      PROVE  f[k + 1] \in D /\ (f[k + 1].fault = NoFault => Len(f[k + 1].got) = k + 1)
  <2>1. k \in Nat /\ f[k] \in D /\ (f[k].fault = NoFault => Len(f[k].got) = k)
    BY <1>2
  <2> DEFINE l == k + 1
             r == f[k]
  <2>2. l \in 1..n /\ l - 1 = k
    BY <1>2, <2>1
  <2>3. f[l] = IF r.fault = NoFault THEN next[r] ELSE r
    <3> HIDE DEF l
    <3> QED BY <2>1, <2>2 DEF Onward, FollowsWithin
  <2>4. CASE r.fault # NoFault
    BY <2>1, <2>3, <2>4
  <2>5. CASE r.fault = NoFault
    <3>1. f[l] = next[r] /\ next[r] \in D /\ Len(r.got) = k
      BY <2>1, <2>3, <2>5
    <3>2. r.got \in Seq(X)
      BY <2>1 DEF Reading
    <3>3. next[r].fault = NoFault => \E x \in X : next[r].got = Append(r.got, x)
      BY <2>1 DEF Grows
    <3> HIDE DEF r
    <3>4. next[r].fault = NoFault => Len(next[r].got) = Len(r.got) + 1
      BY <3>2, <3>3
    <3> QED
      BY <3>1, <3>4
  <2> QED
    BY <2>4, <2>5
<1>3. \A k \in T \cap Nat : k + 1 \in T
  BY <1>2
<1>4. Nat \subseteq T
  <2> HIDE DEF T
  <2> QED BY <1>1, <1>3, Induction
<1> QED
  BY <1>4

(***************************************************************************)
(* The entries.                                                            *)
(***************************************************************************)
EntryRead == [word : Spelled, normalized : Spelled, sources : Seq(Nat), zipf : Nat]

TextPiece(e) ==
  Len(e.word) + (IF e.normalized = e.word THEN 0 ELSE Len(e.normalized))

Forms(entries) ==
  /\ Len(entries) \in Nat
  /\ \A k \in 1..Len(entries) : entries[k].word \in Spelled /\ entries[k].normalized \in Spelled

LEMMA TextIs ==
  ASSUME NEW entries, Forms(entries)
  PROVE  TextOf(entries) \in Nat /\ (Len(entries) = 0 => TextOf(entries) = 0)
<1> DEFINE n == Len(entries)
           upTo == CHOOSE f : f = [k \in 0..n |->
                     IF k = 0 THEN 0
                     ELSE f[k - 1] + Len(entries[k].word)
                          + (IF entries[k].normalized = entries[k].word THEN 0
                             ELSE Len(entries[k].normalized))]
           step == [q \in Nat \X (1..n) |-> q[1] + Len(entries[q[2]].word)
                          + (IF entries[q[2]].normalized = entries[q[2]].word THEN 0
                             ELSE Len(entries[q[2]].normalized))]
<1>1. n \in Nat /\ \A k \in 1..n : /\ Len(entries[k].word) \in Nat
                                  /\ Len(entries[k].normalized) \in Nat
  BY SpelledAre DEF Forms
<1>2. step \in [Nat \X (1..n) -> Nat]
  <2> DEFINE next(m, k) == m + Len(entries[k].word)
                             + (IF entries[k].normalized = entries[k].word THEN 0
                                ELSE Len(entries[k].normalized))
  <2> HIDE DEF n
  <2>1. ASSUME NEW m \in Nat, NEW k \in 1..n PROVE next(m, k) \in Nat
    <3> DEFINE a == Len(entries[k].word)
               b == IF entries[k].normalized = entries[k].word THEN 0
                    ELSE Len(entries[k].normalized)
    <3>1. a \in Nat /\ b \in Nat
      BY ONLY <1>1, k \in 1..n
    <3>2. next(m, k) = m + a + b
      OBVIOUS
    <3> HIDE DEF a, b, next
    <3> QED
      BY ONLY <3>1, <3>2, m \in Nat
  <2>2. step = [q \in Nat \X (1..n) |-> next(q[1], q[2])]
    OBVIOUS
  <2> HIDE DEF next, step
  <2> QED BY ONLY <2>1, <2>2
<1>3. \E f \in [0..n -> Nat] : Steps(f, 0, n, step)
  <2> HIDE DEF n, step
  <2> QED BY <1>1, <1>2, Recursion
<1>4. PICK f \in [0..n -> Nat] : f[0] = 0 /\ \A i \in 1..n : f[i] = step[<<f[i - 1], i>>]
  BY <1>3 DEF Steps
<1>5. ASSUME NEW k \in 1..n, NEW m \in Nat
      PROVE  step[<<m, k>>] = m + Len(entries[k].word)
                                + (IF entries[k].normalized = entries[k].word THEN 0
                                   ELSE Len(entries[k].normalized))
  <2> HIDE DEF n
  <2> QED OBVIOUS
<1>6. f = [k \in 0..n |-> IF k = 0 THEN 0
                        ELSE f[k - 1] + Len(entries[k].word)
                          + (IF entries[k].normalized = entries[k].word THEN 0
                             ELSE Len(entries[k].normalized))]
  <2>1. ASSUME NEW k \in 0..n
        PROVE  f[k] = IF k = 0 THEN 0
                      ELSE f[k - 1] + Len(entries[k].word)
                          + (IF entries[k].normalized = entries[k].word THEN 0
                             ELSE Len(entries[k].normalized))
    <3> HIDE DEF n, step
    <3>1. k # 0 => k \in 1..n /\ f[k - 1] \in Nat
      BY ONLY <1>1, f \in [0..n -> Nat], k \in 0..n
    <3>2. CASE k = 0
      BY ONLY <1>4, <3>2
    <3>3. CASE k # 0
      <4>1. f[k] = step[<<f[k - 1], k>>]
        BY ONLY <1>4, <3>1, <3>3
      <4> QED
        BY <1>5, <3>1, <3>3, <4>1
    <3> QED
      BY ONLY <3>2, <3>3
  <2> HIDE DEF n
  <2> QED
    BY <1>4, <2>1
<1>7. upTo = [k \in 0..n |-> IF k = 0 THEN 0
                          ELSE upTo[k - 1] + Len(entries[k].word)
                          + (IF entries[k].normalized = entries[k].word THEN 0
                             ELSE Len(entries[k].normalized))]
  <2> HIDE DEF n
  <2> QED BY <1>6
<1>8. TextOf(entries) = upTo[n]
  BY DEF TextOf
<1> HIDE DEF upTo
<1>9. \A i \in 1..n : upTo[i - 1] \in Nat => upTo[i] = step[<<upTo[i - 1], i>>]
  <2> HIDE DEF n, step
  <2>1. \A i \in 1..n : i \in 0..n /\ i # 0
    BY <1>1
  <2> QED BY <1>5, <1>7, <2>1
<1>10. upTo[0] = 0
  <2> DEFINE rest(k) == upTo[k - 1] + Len(entries[k].word)
                          + (IF entries[k].normalized = entries[k].word THEN 0
                             ELSE Len(entries[k].normalized))
  <2>1. upTo = [k \in 0..n |-> IF k = 0 THEN 0 ELSE rest(k)]
    BY <1>7
  <2> HIDE DEF n, rest
  <2>2. 0 \in 0..n
    BY <1>1
  <2> QED BY <2>1, <2>2
<1>11. \A i \in 0..n : upTo[i] \in Nat
  <2> DEFINE D == Nat
             base == 0
  <2>1. /\ base \in D /\ step \in [D \X (1..n) -> D] /\ upTo[0] = base
        /\ \A i \in 1..n : upTo[i - 1] \in D => upTo[i] = step[<<upTo[i - 1], i>>]
    BY <1>2, <1>9, <1>10
  <2>2. n \in Nat
    BY <1>1
  <2> HIDE DEF D, base, n, step
  <2>3. \A i \in 0..n : upTo[i] \in D
    BY ONLY <2>1, <2>2, RecursionStays
  <2> QED
    BY <2>3 DEF D
<1> QED
  BY <1>1, <1>8, <1>10, <1>11

EntriesSoFar ==
  {r \in Reading(EntryRead) : TextOf(r.got) <= TextLimit}

LEMMA EntryIsRead ==
  ASSUME NEW p \in Seq(Nat), NEW r \in EntriesSoFar, NEW s, s = ReadEntry(p, r)
  PROVE  /\ s \in EntriesSoFar
         /\ s.fault = NoFault => \E e \in EntryRead : s.got = Append(r.got, e)
<1> DEFINE at == r.at
           after == at + 3 + p[at + 3]
           unspelled == \E k \in {at + 1, at + 2} : k <= Len(p) /\ p[k] \notin DOMAIN Spelling
           entry == [word       |-> Spelling[p[at + 1]],
                     normalized |-> Spelling[p[at + 2]],
                     sources    |-> SubSeq(p, at + 4, after),
                     zipf       |-> p[after + 1]]
<1>1. r \in Reading(EntryRead) /\ TextOf(r.got) <= TextLimit /\ at \in Nat
  BY DEF EntriesSoFar, Reading
<1>2. ASSUME NEW fault \in ReadFaults, s = Failed(r, fault)
      PROVE  s \in EntriesSoFar /\ s.fault # NoFault
  <2>1. s.at = r.at /\ s.got = r.got /\ s.fault = fault /\ s = [at |-> s.at, got |-> s.got, fault |-> s.fault]
    BY <1>1, <1>2 DEF Failed, Reading
  <2> QED
    BY <1>1, <2>1 DEF EntriesSoFar, Reading, ReadFaults, NoFault
<1>b. s = IF unspelled THEN Failed(r, "InvalidPayload")
          ELSE IF Len(p) < at + 3 \/ Len(p) <= after THEN Failed(r, "TruncatedPayload")
          ELSE IF TextOf(Append(r.got, entry)) > TextLimit THEN Failed(r, "InvalidPayload")
          ELSE Found(r, after + 1, entry)
  BY DEF ReadEntry
<1>3. CASE \/ unspelled
           \/ Len(p) < at + 3 \/ Len(p) <= after
           \/ TextOf(Append(r.got, entry)) > TextLimit
  <2>1. s = Failed(r, "InvalidPayload") \/ s = Failed(r, "TruncatedPayload")
    <3> HIDE DEF unspelled, entry, after, at
    <3> QED BY <1>3, <1>b
  <2> QED
    BY <1>2, <2>1 DEF ReadFaults
<1>4. CASE /\ ~unspelled
           /\ ~(Len(p) < at + 3) /\ ~(Len(p) <= after)
           /\ ~(TextOf(Append(r.got, entry)) > TextLimit)
  <2>1. s = Found(r, after + 1, entry)
    <3> HIDE DEF unspelled, entry, after, at
    <3> QED BY <1>4, <1>b
  <2>2. Len(p) \in Nat /\ at + 3 \in 1..Len(p) /\ p[at + 3] \in Nat
    <3> HIDE DEF unspelled, entry, after, at
    <3>1. Len(p) \in Nat
      OBVIOUS
    <3>2. at + 3 \in 1..Len(p)
      BY ONLY <1>1, <1>4, <3>1
    <3> QED
      BY <3>1, <3>2
  <2>3. after \in Nat /\ after + 1 \in 1..Len(p) /\ at + 3 <= after /\ p[after + 1] \in Nat
    <3> DEFINE x == p[at + 3]
    <3>a. at \in Nat /\ x \in Nat
      BY ONLY <1>1, <2>2
    <3>b. after = at + 3 + x
      OBVIOUS
    <3> HIDE DEF after, at, x
    <3>1. after \in Nat /\ at + 3 <= after
      BY ONLY <3>a, <3>b
    <3>2. after + 1 \in 1..Len(p)
      BY <1>4, <2>2, <3>1
    <3> QED
      BY <3>1, <3>2
  <2>4. Spelling[p[at + 1]] \in Spelled /\ Spelling[p[at + 2]] \in Spelled
    <3>1. at + 1 <= Len(p) /\ at + 2 <= Len(p)
      BY <1>1, <2>2
    <3>2. p[at + 1] \in DOMAIN Spelling /\ p[at + 2] \in DOMAIN Spelling
      BY <1>4, <3>1
    <3> QED
      BY <3>2 DEF Spelled, Range
  <2>5. SubSeq(p, at + 4, after) \in Seq(Nat)
    <3> HIDE DEF after, at
    <3>1. at + 4 \in 1..(Len(p) + 1) /\ after \in 0..Len(p)
      BY <1>1, <2>2, <2>3
    <3>2. \A k \in (at + 4)..after : p[k] \in Nat
      BY <1>1, <2>2, <2>3
    <3> QED
      BY <1>1, <2>3, <3>1, <3>2
  <2>6. entry \in EntryRead
    BY <2>3, <2>4, <2>5 DEF EntryRead
  <2> HIDE DEF entry, after
  <2>7. Append(r.got, entry) \in Seq(EntryRead)
    BY <1>1, <2>6 DEF Reading
  <2>8. s = [at |-> after + 1, got |-> Append(r.got, entry), fault |-> NoFault]
    BY <2>1 DEF Found
  <2>9. TextOf(Append(r.got, entry)) \in Nat
    <3> DEFINE all == Append(r.got, entry)
    <3>1. Len(all) \in Nat /\ \A k \in 1..Len(all) : all[k] \in EntryRead
      <4>1. all \in Seq(EntryRead)
        BY <2>7
      <4> HIDE DEF all
      <4> QED
        BY ONLY <4>1
    <3>2. Forms(all)
      <4> HIDE DEF all
      <4> QED
        BY <3>1 DEF Forms, EntryRead
    <3> QED
      BY <3>2, TextIs
  <2>10. TextOf(Append(r.got, entry)) <= TextLimit
    <3> DEFINE text == TextOf(Append(r.got, entry))
    <3>1. text \in Nat /\ ~(text > TextLimit) /\ TextLimit \in Nat
      BY <1>4, <2>9, FormatAssumption
    <3> HIDE DEF text
    <3>2. text <= TextLimit
      BY <3>1
    <3> QED
      BY <3>2 DEF text
  <2>11. s.got = Append(r.got, entry) /\ after + 1 \in Nat
    BY <2>3, <2>8
  <2>12. s \in Reading(EntryRead)
    BY ONLY <2>7, <2>8, <2>11 DEF Reading
  <2> QED
    BY ONLY <2>6, <2>10, <2>11, <2>12 DEF EntriesSoFar
<1> QED
  BY <1>3, <1>4

EntriesOf(p, n) == Repeat(n, 0, LAMBDA r : ReadEntry(p, r))

EntrySteps(f, p, n) ==
  /\ f[0] = Nothing(0)
  /\ \A k \in 1..n : f[k] = IF f[k - 1].fault = NoFault
                            THEN ReadEntry(p, f[k - 1]) ELSE f[k - 1]

EntriesStepwise(s, p, n) == \E f : EntrySteps(f, p, n) /\ s = f[n]

LEMMA EntriesAreRead ==
  ASSUME NEW p \in Seq(Nat), NEW n \in Nat,
         NEW s, s = EntriesOf(p, n)
  PROVE  /\ s \in EntriesSoFar /\ (s.fault = NoFault => Len(s.got) = n)
         /\ EntriesStepwise(s, p, n)
<1> DEFINE D == EntriesSoFar
           X == EntryRead
           start == Nothing(0)
           next == [r \in D |-> ReadEntry(p, r)]
           read == CHOOSE f : f = [k \in 0..n |->
                     IF k = 0 THEN [at |-> 0, got |-> <<>>, fault |-> NoFault]
                     ELSE LET before == f[k - 1]
                          IN  IF before.fault = NoFault THEN ReadEntry(p, before) ELSE before]
<1>1. s = read[n]
  BY DEF EntriesOf, Repeat
<1>2. start \in D /\ start.got = <<>> /\ D \subseteq Reading(X)
  <2>1. TextOf(<<>>) = 0
    BY TextIs DEF Forms
  <2> QED
    BY <2>1, FormatAssumption DEF Nothing, EntriesSoFar, Reading
<1>3. ASSUME NEW r \in D
      PROVE  /\ next[r] = ReadEntry(p, r) /\ next[r] \in D
             /\ next[r].fault = NoFault => \E x \in X : next[r].got = Append(r.got, x)
  BY <1>3, EntryIsRead
<1>4. next \in [D -> D]
  BY <1>3
<1>5. PICK f \in [0..n -> D] :
        f[0] = start /\ \A k \in 1..n : f[k] = Onward(next, f[k - 1])
  <2>1. \E f \in [0..n -> D] : Follows(f, start, n, next)
    <3> HIDE DEF next, D, start
    <3> QED BY ONLY n \in Nat, <1>2, <1>4, ReadingExists
  <2> HIDE DEF next, D, start
  <2> QED
    BY ONLY <2>1 DEF Follows
<1>6. f = [k \in 0..n |->
             IF k = 0 THEN [at |-> 0, got |-> <<>>, fault |-> NoFault]
             ELSE LET before == f[k - 1]
                  IN  IF before.fault = NoFault THEN ReadEntry(p, before) ELSE before]
  <2>1. ASSUME NEW k \in 0..n
        PROVE  f[k] = IF k = 0 THEN [at |-> 0, got |-> <<>>, fault |-> NoFault]
                      ELSE IF f[k - 1].fault = NoFault THEN ReadEntry(p, f[k - 1]) ELSE f[k - 1]
    <3>1. k # 0 => k \in 1..n /\ k - 1 \in 0..n
      BY ONLY n \in Nat, TRUE
    <3>2. k # 0 => f[k - 1] \in D
      <4> HIDE DEF D
      <4> QED BY ONLY <3>1, f \in [0..n -> D]
    <3>3. k # 0 => next[f[k - 1]] = ReadEntry(p, f[k - 1])
      <4> HIDE DEF D, next, X
      <4> QED BY ONLY <3>2, <1>3
    <3> HIDE DEF next, D
    <3> QED
      BY ONLY <1>5, <3>1, <3>3 DEF Nothing, Onward
  <2> HIDE DEF D
  <2> QED
    BY ONLY <2>1, f \in [0..n -> D]
<1>7. read = [k \in 0..n |->
                IF k = 0 THEN [at |-> 0, got |-> <<>>, fault |-> NoFault]
                ELSE LET before == read[k - 1]
                     IN  IF before.fault = NoFault THEN ReadEntry(p, before) ELSE before]
  BY <1>6
<1> HIDE DEF read
<1>8. /\ read[0] = start
      /\ \A k \in 1..n : read[k] = IF read[k - 1].fault = NoFault
                                   THEN ReadEntry(p, read[k - 1]) ELSE read[k - 1]
  <2>1. 0 \in 0..n /\ \A k \in 1..n : k \in 0..n /\ k # 0
    BY ONLY n \in Nat, TRUE
  <2> QED
    BY ONLY <1>7, <2>1 DEF Nothing
<1>9. FollowsWithin(read, D, n, next)
  <2> HIDE DEF D, next, X
  <2> QED BY ONLY <1>3, <1>8 DEF Onward, FollowsWithin
<1> HIDE DEF D, X, next, start
<1>10. read[n] \in D /\ (read[n].fault = NoFault => Len(read[n].got) = n)
  <2>1. /\ D \subseteq Reading(X) /\ start \in D /\ start.got = <<>> /\ next \in [D -> D]
        /\ Grows(next, D, X) /\ read[0] = start
    BY ONLY <1>2, <1>3, <1>4, <1>8 DEF Grows
  <2> QED
    BY ONLY n \in Nat, <2>1, <1>9, ReadingStays
<1>11. EntriesStepwise(s, p, n)
  <2>1. EntrySteps(read, p, n)
    BY ONLY <1>8 DEF EntrySteps, start
  <2> QED
    BY ONLY <1>1, <2>1 DEF EntriesStepwise
<1> QED
  BY ONLY <1>1, <1>10, <1>11 DEF D

(***************************************************************************)
(* The predictions of a context, then the contexts.                        *)
(***************************************************************************)
PredictionRead(n) == [next : 1..n, count : Nat, probability : Nat]

EachOnce(predictions) ==
  \A k, l \in DOMAIN predictions : predictions[k].next = predictions[l].next => k = l

PredictionsSoFar(n) == {r \in Reading(PredictionRead(n)) : EachOnce(r.got)}

LEMMA FailedStays ==
  ASSUME NEW X, NEW r \in Reading(X), NEW fault \in ReadFaults, NEW s, s = Failed(r, fault)
  PROVE  s \in Reading(X) /\ s.got = r.got /\ s.fault # NoFault
<1>1. /\ s.at = r.at /\ s.got = r.got /\ s.fault = fault
      /\ s = [at |-> s.at, got |-> s.got, fault |-> s.fault]
  BY DEF Failed, Reading
<1> QED
  BY <1>1 DEF Reading, ReadFaults, NoFault

\* h is g with x after it.
Longer(g, h, x) ==
  /\ Len(g) \in Nat /\ DOMAIN g = 1..Len(g)
  /\ DOMAIN h = 1..(Len(g) + 1) /\ h[Len(g) + 1] = x
  /\ \A k \in DOMAIN g : h[k] = g[k]

LEMMA FoundStays ==
  ASSUME NEW X, NEW r \in Reading(X), NEW at \in Nat, NEW x \in X, NEW s, s = Found(r, at, x)
  PROVE  s \in Reading(X) /\ Longer(r.got, s.got, x)
<1>1. r.got \in Seq(X)
  BY DEF Reading
<1>2. s = [at |-> at, got |-> Append(r.got, x), fault |-> NoFault]
  BY DEF Found
<1>3. Append(r.got, x) \in Seq(X)
  BY ONLY <1>1, x \in X
<1>4. s.at = at /\ s.got = Append(r.got, x) /\ s.fault = NoFault
  BY ONLY <1>2
<1>5. s \in Reading(X)
  BY ONLY <1>2, <1>3, at \in Nat DEF Reading
<1> DEFINE g == r.got
<1>6. /\ DOMAIN g = 1..Len(g) /\ Len(g) \in Nat
      /\ DOMAIN Append(g, x) = 1..(Len(g) + 1) /\ Append(g, x)[Len(g) + 1] = x
      /\ \A k \in DOMAIN g : Append(g, x)[k] = g[k]
  <2>1. g \in Seq(X)
    BY <1>1
  <2> HIDE DEF g
  <2> QED BY ONLY <2>1, x \in X
<1> QED
  BY ONLY <1>4, <1>5, <1>6 DEF Longer

LEMMA PredictionIsRead ==
  ASSUME NEW p \in Seq(Nat), NEW n \in Nat, NEW r \in PredictionsSoFar(n),
         NEW s, s = ReadPrediction(p, n, r)
  PROVE  /\ s \in PredictionsSoFar(n)
         /\ s.fault = NoFault => \E x \in PredictionRead(n) : s.got = Append(r.got, x)
<1> DEFINE at == r.at
           next == p[at + 1]
           count == p[at + 2]
           probability == p[at + 3]
           short == Len(p) < at + PredictionCells
           told == \E k \in DOMAIN r.got : r.got[k].next = next + 1
           x == [next |-> next + 1, count |-> count, probability |-> probability]
<1>1. r \in Reading(PredictionRead(n)) /\ at \in Nat /\ EachOnce(r.got)
  BY DEF PredictionsSoFar, Reading
<1>2. s = IF short THEN Failed(r, "TruncatedPayload")
          ELSE IF next >= n \/ told \/ count = 0 \/ probability > ProbabilityScale
          THEN Failed(r, "InvalidPayload")
          ELSE Found(r, at + PredictionCells, x)
  BY DEF ReadPrediction
<1>3. ASSUME NEW fault \in ReadFaults, s = Failed(r, fault)
      PROVE  s \in PredictionsSoFar(n) /\ s.fault # NoFault
  BY <1>1, <1>3, FailedStays DEF PredictionsSoFar
<1>4. CASE short \/ next >= n \/ told \/ count = 0 \/ probability > ProbabilityScale
  <2>1. s = Failed(r, "InvalidPayload") \/ s = Failed(r, "TruncatedPayload")
    <3> HIDE DEF short, told, next, count, probability, x, at
    <3> QED BY <1>2, <1>4
  <2> QED
    BY <1>3, <2>1 DEF ReadFaults
<1>5. CASE ~(short \/ next >= n \/ told \/ count = 0 \/ probability > ProbabilityScale)
  <2>1. s = Found(r, at + PredictionCells, x)
    <3> HIDE DEF short, told, next, count, probability, x, at
    <3> QED BY <1>2, <1>5
  <2>2. Len(p) \in Nat /\ at + 1 \in 1..Len(p) /\ at + 2 \in 1..Len(p) /\ at + 3 \in 1..Len(p)
    <3>1. Len(p) \in Nat /\ ~(Len(p) < at + PredictionCells)
      BY <1>5
    <3> HIDE DEF short, told, next, count, probability, x, at
    <3> QED BY ONLY <1>1, <3>1 DEF PredictionCells
  <2>3. next \in Nat /\ count \in Nat /\ probability \in Nat
    <3>1. \A k \in 1..Len(p) : p[k] \in Nat
      OBVIOUS
    <3> HIDE DEF at
    <3> QED BY ONLY <2>2, <3>1
  <2>4. x \in PredictionRead(n)
    <3> HIDE DEF short, told, next, count, probability, at
    <3>1. next + 1 \in 1..n
      BY ONLY <1>5, <2>3, n \in Nat
    <3> QED BY ONLY <2>3, <3>1 DEF PredictionRead, x
  <2>5. at + PredictionCells \in Nat
    BY <1>1 DEF PredictionCells
  <2>6. /\ s \in Reading(PredictionRead(n)) /\ s.got = Append(r.got, x)
        /\ Longer(r.got, s.got, x)
    <3> DEFINE X == PredictionRead(n)
               end == at + PredictionCells
    <3>1. r \in Reading(X) /\ x \in X /\ end \in Nat /\ s = Found(r, end, x)
      BY ONLY <1>1, <2>1, <2>4, <2>5
    <3> HIDE DEF at, x, X, end
    <3>2. s \in Reading(X) /\ Longer(r.got, s.got, x)
      BY ONLY <3>1, FoundStays
    <3>3. s.got = Append(r.got, x)
      BY ONLY <3>1 DEF Found
    <3> QED
      BY ONLY <3>2, <3>3 DEF X
  <2>7. \A k \in DOMAIN r.got : r.got[k].next # x.next
    <3>1. x.next = next + 1
      OBVIOUS
    <3>2. ~(\E k \in DOMAIN r.got : r.got[k].next = next + 1)
      BY <1>5
    <3> HIDE DEF x, next
    <3> QED BY <3>1, <3>2
  <2>8. EachOnce(s.got)
    <3> HIDE DEF x, at
    <3> QED BY ONLY <1>1, <2>6, <2>7 DEF EachOnce, Longer
  <2> HIDE DEF x
  <2> QED
    BY <2>4, <2>6, <2>8 DEF PredictionsSoFar
<1> QED
  BY <1>4, <1>5

PredictionsOf(p, n, m, at) == Repeat(m, at, LAMBDA q : ReadPrediction(p, n, q))

PredictionSteps(f, p, n, m, at) ==
  /\ f[0] = Nothing(at)
  /\ \A k \in 1..m : f[k] = IF f[k - 1].fault = NoFault
                            THEN ReadPrediction(p, n, f[k - 1]) ELSE f[k - 1]

PredictionsStepwise(s, p, n, m, at) == \E f : PredictionSteps(f, p, n, m, at) /\ s = f[m]

LEMMA PredictionsAreRead ==
  ASSUME NEW p \in Seq(Nat), NEW n \in Nat, NEW m \in Nat, NEW at \in Nat,
         NEW s, s = PredictionsOf(p, n, m, at)
  PROVE  /\ s \in PredictionsSoFar(n) /\ (s.fault = NoFault => Len(s.got) = m)
         /\ PredictionsStepwise(s, p, n, m, at)
<1> DEFINE D == PredictionsSoFar(n)
           X == PredictionRead(n)
           start == Nothing(at)
           next == [r \in D |-> ReadPrediction(p, n, r)]
           read == CHOOSE f : f = [k \in 0..m |->
                     IF k = 0 THEN [at |-> at, got |-> <<>>, fault |-> NoFault]
                     ELSE LET before == f[k - 1]
                          IN  IF before.fault = NoFault THEN ReadPrediction(p, n, before) ELSE before]
<1>1. s = read[m]
  BY DEF PredictionsOf, Repeat
<1>2. start \in D /\ start.got = <<>> /\ D \subseteq Reading(X)
  BY DEF Nothing, PredictionsSoFar, Reading, EachOnce
<1>3. ASSUME NEW r \in D
      PROVE  /\ next[r] = ReadPrediction(p, n, r) /\ next[r] \in D
             /\ next[r].fault = NoFault => \E x \in X : next[r].got = Append(r.got, x)
  BY <1>3, PredictionIsRead
<1>4. next \in [D -> D]
  BY <1>3
<1>5. PICK f \in [0..m -> D] :
        f[0] = start /\ \A k \in 1..m : f[k] = Onward(next, f[k - 1])
  <2>1. \E f \in [0..m -> D] : Follows(f, start, m, next)
    <3> HIDE DEF next, D, start
    <3> QED BY ONLY m \in Nat, <1>2, <1>4, ReadingExists
  <2> HIDE DEF next, D, start
  <2> QED
    BY ONLY <2>1 DEF Follows
<1>6. f = [k \in 0..m |->
             IF k = 0 THEN [at |-> at, got |-> <<>>, fault |-> NoFault]
             ELSE LET before == f[k - 1]
                  IN  IF before.fault = NoFault THEN ReadPrediction(p, n, before) ELSE before]
  <2>1. ASSUME NEW k \in 0..m
        PROVE  f[k] = IF k = 0 THEN [at |-> at, got |-> <<>>, fault |-> NoFault]
                      ELSE IF f[k - 1].fault = NoFault THEN ReadPrediction(p, n, f[k - 1]) ELSE f[k - 1]
    <3>1. k # 0 => k \in 1..m /\ k - 1 \in 0..m
      BY ONLY m \in Nat, TRUE
    <3>2. k # 0 => f[k - 1] \in D
      <4> HIDE DEF D
      <4> QED BY ONLY <3>1, f \in [0..m -> D]
    <3>3. k # 0 => next[f[k - 1]] = ReadPrediction(p, n, f[k - 1])
      <4> HIDE DEF D, next, X
      <4> QED BY ONLY <3>2, <1>3
    <3> HIDE DEF next, D
    <3> QED
      BY ONLY <1>5, <3>1, <3>3 DEF Nothing, Onward
  <2> HIDE DEF D
  <2> QED
    BY ONLY <2>1, f \in [0..m -> D]
<1>7. read = [k \in 0..m |->
                IF k = 0 THEN [at |-> at, got |-> <<>>, fault |-> NoFault]
                ELSE LET before == read[k - 1]
                     IN  IF before.fault = NoFault THEN ReadPrediction(p, n, before) ELSE before]
  BY <1>6
<1> HIDE DEF read
<1>8. /\ read[0] = start
      /\ \A k \in 1..m : read[k] = IF read[k - 1].fault = NoFault
                                   THEN ReadPrediction(p, n, read[k - 1]) ELSE read[k - 1]
  <2>1. 0 \in 0..m /\ \A k \in 1..m : k \in 0..m /\ k # 0
    BY ONLY m \in Nat, TRUE
  <2> QED
    BY ONLY <1>7, <2>1 DEF Nothing
<1>9. FollowsWithin(read, D, m, next)
  <2> HIDE DEF D, next, X
  <2> QED BY ONLY <1>3, <1>8 DEF Onward, FollowsWithin
<1> HIDE DEF D, X, next, start
<1>10. read[m] \in D /\ (read[m].fault = NoFault => Len(read[m].got) = m)
  <2>1. /\ D \subseteq Reading(X) /\ start \in D /\ start.got = <<>> /\ next \in [D -> D]
        /\ Grows(next, D, X) /\ read[0] = start
    BY ONLY <1>2, <1>3, <1>4, <1>8 DEF Grows
  <2> QED
    BY ONLY m \in Nat, <2>1, <1>9, ReadingStays
<1>11. PredictionsStepwise(s, p, n, m, at)
  <2>1. PredictionSteps(read, p, n, m, at)
    BY ONLY <1>8 DEF PredictionSteps, start
  <2> QED
    BY ONLY <1>1, <2>1 DEF PredictionsStepwise
<1> QED
  BY ONLY <1>1, <1>10, <1>11 DEF D

ContextRead(n, width, maximum) ==
  {c \in [context : [1..width -> 1..n], predictions : Seq(PredictionRead(n))] :
     Len(c.predictions) \in 1..maximum /\ EachOnce(c.predictions)}

LEMMA CellsRead ==
  ASSUME NEW p \in Seq(Nat), NEW at \in Nat, NEW width \in Nat, at + width <= Len(p),
         NEW cells, cells = SubSeq(p, at + 1, at + width)
  PROVE  /\ DOMAIN cells = 1..width /\ Len(cells) = width
         /\ \A i \in 1..width : cells[i] = p[at + i] /\ cells[i] \in Nat
<1>1. Len(p) \in Nat /\ \A k \in 1..Len(p) : p[k] \in Nat
  OBVIOUS
<1>2. \A k \in (at + 1)..(at + width) : k \in 1..Len(p) /\ p[k] \in Nat
  BY <1>1
<1>3. DOMAIN cells = 1..width /\ Len(cells) = width
  BY <1>1, <1>2
<1>4. ASSUME NEW i \in 1..width PROVE cells[i] = p[at + i] /\ cells[i] \in Nat
  <2>1. at + i \in (at + 1)..(at + width) /\ (at + 1) + i - 1 = at + i
    OBVIOUS
  <2>2. cells[i] = p[at + i]
    BY <1>2, <2>1
  <2> QED
    BY <1>2, <2>1, <2>2
<1> QED
  BY <1>3, <1>4

LEMMA ContextIsRead ==
  ASSUME NEW p \in Seq(Nat), NEW n \in Nat, NEW width \in Nat, NEW maximum \in Nat,
         NEW r \in Reading(ContextRead(n, width, maximum)),
         NEW s, s = ReadContext(p, n, width, maximum, r)
  PROVE  /\ s \in Reading(ContextRead(n, width, maximum))
         /\ s.fault = NoFault =>
              \E x \in ContextRead(n, width, maximum) : s.got = Append(r.got, x)
<1> DEFINE X == ContextRead(n, width, maximum)
           at == r.at
           cells == SubSeq(p, at + 1, at + width)
           context == [i \in DOMAIN cells |-> cells[i] + 1]
           count == p[at + width + 1]
           predictions == PredictionsOf(p, n, count, at + width + 1)
           short == Len(p) < at + width + 1
           bad == \/ \E i \in DOMAIN cells : cells[i] >= n
                  \/ \E k \in DOMAIN r.got : r.got[k].context = context
                  \/ count = 0
                  \/ count > maximum
           x == [context |-> context, predictions |-> predictions.got]
<1>1. r \in Reading(X) /\ at \in Nat
  BY DEF Reading
<1>2. s = IF short THEN Failed(r, "TruncatedPayload")
          ELSE IF bad THEN Failed(r, "InvalidPayload")
          ELSE IF predictions.fault # NoFault THEN Failed(r, predictions.fault)
          ELSE Found(r, predictions.at, x)
  BY DEF ReadContext, PredictionsOf
<1>3. ASSUME NEW fault \in ReadFaults, s = Failed(r, fault)
      PROVE  s \in Reading(X) /\ s.fault # NoFault
  <2> HIDE DEF X
  <2> QED BY <1>1, <1>3, FailedStays
<1>4. CASE short \/ bad
  <2>1. s = Failed(r, "InvalidPayload") \/ s = Failed(r, "TruncatedPayload")
    <3> HIDE DEF short, bad, predictions, x, at, X
    <3> QED BY <1>2, <1>4
  <2> QED
    BY <1>3, <2>1 DEF ReadFaults
<1>5. CASE ~short /\ ~bad
  <2>1. /\ Len(p) \in Nat /\ at + width + 1 \in 1..Len(p) /\ at + width <= Len(p)
        /\ count \in Nat
    <3>1. Len(p) \in Nat /\ \A k \in 1..Len(p) : p[k] \in Nat
      OBVIOUS
    <3>2. at + width + 1 \in 1..Len(p) /\ at + width <= Len(p)
      <4>1. ~(Len(p) < at + width + 1)
        BY <1>5
      <4> HIDE DEF at
      <4> QED BY ONLY <1>1, <3>1, <4>1, width \in Nat
    <3> QED
      BY <3>1, <3>2
  <2>2. /\ DOMAIN cells = 1..width
        /\ \A i \in 1..width : cells[i] \in Nat
    <3> HIDE DEF at
    <3> QED BY <1>1, <2>1, CellsRead
  <2>3. /\ \A i \in DOMAIN cells : ~(cells[i] >= n)
        /\ count # 0 /\ ~(count > maximum)
    BY <1>5
  <2>4. context \in [1..width -> 1..n]
    <3> HIDE DEF cells
    <3>1. \A i \in 1..width : cells[i] + 1 \in 1..n
      BY ONLY <2>2, <2>3, n \in Nat
    <3> QED
      BY ONLY <2>2, <3>1 DEF context
  <2>5. count \in 1..maximum
    <3> HIDE DEF count
    <3> QED BY ONLY <2>1, <2>3, maximum \in Nat
  <2>6. /\ predictions \in PredictionsSoFar(n)
        /\ predictions.fault = NoFault => Len(predictions.got) = count
    <3> DEFINE start == at + width + 1
    <3>1. start \in Nat
      BY <1>1
    <3>2. predictions = PredictionsOf(p, n, count, start)
      OBVIOUS
    <3> HIDE DEF count, at, start, predictions
    <3> QED BY ONLY p \in Seq(Nat), n \in Nat, <2>1, <3>1, <3>2, PredictionsAreRead
  <2>7. /\ predictions \in Reading(PredictionRead(n)) /\ EachOnce(predictions.got)
        /\ predictions.at \in Nat /\ predictions.got \in Seq(PredictionRead(n))
        /\ predictions.fault \in ReadFaults \cup {NoFault}
    <3> HIDE DEF predictions
    <3> QED BY <2>6 DEF PredictionsSoFar, Reading
  <2>8. CASE predictions.fault # NoFault
    <3>1. s = Failed(r, predictions.fault)
      <4> HIDE DEF short, bad, predictions, x, at, X
      <4> QED BY <1>2, <1>5, <2>8
    <3> DEFINE f == predictions.fault
    <3>2. f \in ReadFaults /\ s = Failed(r, f)
      <4> HIDE DEF predictions
      <4> QED BY ONLY <2>7, <2>8, <3>1
    <3> HIDE DEF predictions, X, f
    <3>3. s \in Reading(X) /\ s.fault # NoFault
      BY ONLY <1>3, <3>2
    <3> QED
      BY ONLY <3>3 DEF X
  <2>9. CASE predictions.fault = NoFault
    <3>1. s = Found(r, predictions.at, x)
      <4> HIDE DEF short, bad, predictions, x, at, X
      <4> QED BY <1>2, <1>5, <2>9
    <3>2. x \in X
      <4> HIDE DEF predictions, context, count
      <4>1. Len(predictions.got) \in 1..maximum
        BY ONLY <2>5, <2>6, <2>9
      <4>2. /\ x.context = context /\ x.predictions = predictions.got
            /\ x \in [context : [1..width -> 1..n], predictions : Seq(PredictionRead(n))]
        BY ONLY <2>4, <2>7
      <4> HIDE DEF x
      <4> QED
        BY ONLY <2>7, <4>1, <4>2 DEF ContextRead, X
    <3>3. s \in Reading(X)
      <4> DEFINE end == predictions.at
      <4>1. end \in Nat
        BY <2>7
      <4> HIDE DEF end, X, x, at
      <4>2. s = Found(r, end, x)
        BY <3>1 DEF end
      <4> QED
        BY ONLY <1>1, <3>2, <4>1, <4>2, FoundStays
    <3>4. s.got = Append(r.got, x) /\ s.fault = NoFault
      <4> HIDE DEF x, predictions
      <4> QED BY ONLY <3>1 DEF Found
    <3> HIDE DEF x
    <3> QED
      BY <3>2, <3>3, <3>4
  <2> QED
    BY <2>8, <2>9
<1> QED
  BY <1>4, <1>5

ContextsOf(p, n, width, maximum, m, at) ==
  Repeat(m, at, LAMBDA q : ReadContext(p, n, width, maximum, q))

ContextSteps(f, p, n, width, maximum, m, at) ==
  /\ f[0] = Nothing(at)
  /\ \A k \in 1..m : f[k] = IF f[k - 1].fault = NoFault
                            THEN ReadContext(p, n, width, maximum, f[k - 1]) ELSE f[k - 1]

ContextsStepwise(s, p, n, width, maximum, m, at) == \E f : ContextSteps(f, p, n, width, maximum, m, at) /\ s = f[m]

LEMMA ContextsAreRead ==
  ASSUME NEW p \in Seq(Nat), NEW n \in Nat, NEW width \in Nat, NEW maximum \in Nat,
         NEW m \in Nat, NEW at \in Nat,
         NEW s, s = ContextsOf(p, n, width, maximum, m, at)
  PROVE  /\ s \in Reading(ContextRead(n, width, maximum)) /\ (s.fault = NoFault => Len(s.got) = m)
         /\ ContextsStepwise(s, p, n, width, maximum, m, at)
<1> DEFINE D == Reading(ContextRead(n, width, maximum))
           X == ContextRead(n, width, maximum)
           start == Nothing(at)
           next == [r \in D |-> ReadContext(p, n, width, maximum, r)]
           read == CHOOSE f : f = [k \in 0..m |->
                     IF k = 0 THEN [at |-> at, got |-> <<>>, fault |-> NoFault]
                     ELSE LET before == f[k - 1]
                          IN  IF before.fault = NoFault THEN ReadContext(p, n, width, maximum, before) ELSE before]
<1>1. s = read[m]
  BY DEF ContextsOf, Repeat
<1>2. start \in D /\ start.got = <<>> /\ D \subseteq Reading(X)
  BY DEF Nothing, Reading
<1>3. ASSUME NEW r \in D
      PROVE  /\ next[r] = ReadContext(p, n, width, maximum, r) /\ next[r] \in D
             /\ next[r].fault = NoFault => \E x \in X : next[r].got = Append(r.got, x)
  <2> DEFINE q == ReadContext(p, n, width, maximum, r)
  <2>1. next[r] = q
    OBVIOUS
  <2>2. q \in D /\ (q.fault = NoFault => \E x \in X : q.got = Append(r.got, x))
    BY ContextIsRead
  <2> HIDE DEF next, D, X, q
  <2> QED
    BY ONLY <2>1, <2>2 DEF q
<1>4. next \in [D -> D]
  BY <1>3
<1>5. PICK f \in [0..m -> D] :
        f[0] = start /\ \A k \in 1..m : f[k] = Onward(next, f[k - 1])
  <2>1. \E f \in [0..m -> D] : Follows(f, start, m, next)
    <3> HIDE DEF next, D, start
    <3> QED BY ONLY m \in Nat, <1>2, <1>4, ReadingExists
  <2> HIDE DEF next, D, start
  <2> QED
    BY ONLY <2>1 DEF Follows
<1>6. f = [k \in 0..m |->
             IF k = 0 THEN [at |-> at, got |-> <<>>, fault |-> NoFault]
             ELSE LET before == f[k - 1]
                  IN  IF before.fault = NoFault THEN ReadContext(p, n, width, maximum, before) ELSE before]
  <2>1. ASSUME NEW k \in 0..m
        PROVE  f[k] = IF k = 0 THEN [at |-> at, got |-> <<>>, fault |-> NoFault]
                      ELSE IF f[k - 1].fault = NoFault THEN ReadContext(p, n, width, maximum, f[k - 1]) ELSE f[k - 1]
    <3>1. k # 0 => k \in 1..m /\ k - 1 \in 0..m
      BY ONLY m \in Nat, TRUE
    <3>2. k # 0 => f[k - 1] \in D
      <4> HIDE DEF D
      <4> QED BY ONLY <3>1, f \in [0..m -> D]
    <3>3. k # 0 => next[f[k - 1]] = ReadContext(p, n, width, maximum, f[k - 1])
      <4> HIDE DEF D, next, X
      <4> QED BY ONLY <3>2, <1>3
    <3> HIDE DEF next, D
    <3> QED
      BY ONLY <1>5, <3>1, <3>3 DEF Nothing, Onward
  <2> HIDE DEF D
  <2> QED
    BY ONLY <2>1, f \in [0..m -> D]
<1>7. read = [k \in 0..m |->
                IF k = 0 THEN [at |-> at, got |-> <<>>, fault |-> NoFault]
                ELSE LET before == read[k - 1]
                     IN  IF before.fault = NoFault THEN ReadContext(p, n, width, maximum, before) ELSE before]
  BY <1>6
<1> HIDE DEF read
<1>8. /\ read[0] = start
      /\ \A k \in 1..m : read[k] = IF read[k - 1].fault = NoFault
                                   THEN ReadContext(p, n, width, maximum, read[k - 1]) ELSE read[k - 1]
  <2>1. 0 \in 0..m /\ \A k \in 1..m : k \in 0..m /\ k # 0
    BY ONLY m \in Nat, TRUE
  <2> QED
    BY ONLY <1>7, <2>1 DEF Nothing
<1>9. FollowsWithin(read, D, m, next)
  <2> HIDE DEF D, next, X
  <2> QED BY ONLY <1>3, <1>8 DEF Onward, FollowsWithin
<1> HIDE DEF D, X, next, start
<1>10. read[m] \in D /\ (read[m].fault = NoFault => Len(read[m].got) = m)
  <2>1. /\ D \subseteq Reading(X) /\ start \in D /\ start.got = <<>> /\ next \in [D -> D]
        /\ Grows(next, D, X) /\ read[0] = start
    BY ONLY <1>2, <1>3, <1>4, <1>8 DEF Grows
  <2> QED
    BY ONLY m \in Nat, <2>1, <1>9, ReadingStays
<1>11. ContextsStepwise(s, p, n, width, maximum, m, at)
  <2>1. ContextSteps(read, p, n, width, maximum, m, at)
    BY ONLY <1>8 DEF ContextSteps, start
  <2> QED
    BY ONLY <1>1, <2>1 DEF ContextsStepwise
<1> QED
  BY ONLY <1>1, <1>10, <1>11 DEF D

(***************************************************************************)
(* The sections and the payload.                                           *)
(***************************************************************************)
SectionRead(p, n, possible, width, maximum, at) ==
  IF Len(p) <= at THEN Failed(Nothing(at), "TruncatedPayload")
  ELSE IF \/ p[at + 1] > possible
          \/ p[at + 1] > (Len(p) - (at + 1)) \div (width + 1 + PredictionCells)
  THEN Failed(Nothing(at), "InvalidPayload")
  ELSE ContextsOf(p, n, width, maximum, p[at + 1], at + 1)

LEMMA SectionsAreRead ==
  ASSUME NEW p, NEW n, NEW at
  PROVE  /\ BigramSection(p, n, at) = SectionRead(p, n, n, 1, MaxBigramPredictions, at)
         /\ TrigramSection(p, n, at) = SectionRead(p, n, n * n, 2, MaxTrigramPredictions, at)
<1>1. BigramSection(p, n, at) = SectionRead(p, n, n, 1, MaxBigramPredictions, at)
  BY DEF BigramSection, ReadSection, ReadBigramContext, SectionRead, ContextsOf, Nothing
<1>2. TrigramSection(p, n, at) = SectionRead(p, n, n * n, 2, MaxTrigramPredictions, at)
  BY DEF TrigramSection, ReadSection, ReadTrigramContext, SectionRead, ContextsOf, Nothing
<1> QED
  BY <1>1, <1>2

LEMMA SectionIsRead ==
  ASSUME NEW p \in Seq(Nat), NEW n \in Nat, NEW possible, NEW width \in Nat,
         NEW maximum \in Nat, NEW at \in Nat,
         NEW s, s = SectionRead(p, n, possible, width, maximum, at)
  PROVE  s \in Reading(ContextRead(n, width, maximum))
<1> DEFINE X == ContextRead(n, width, maximum)
<1>1. Nothing(at) \in Reading(X)
  BY DEF Nothing, Reading
<1>2. ASSUME NEW fault \in ReadFaults, s = Failed(Nothing(at), fault)
      PROVE  s \in Reading(X)
  <2> DEFINE r == Nothing(at)
  <2> HIDE DEF X, r
  <2>1. r \in Reading(X) /\ s = Failed(r, fault)
    BY ONLY <1>1, <1>2 DEF r
  <2> QED
    BY ONLY fault \in ReadFaults, <2>1, FailedStays
<1>3. CASE Len(p) <= at
  BY <1>2, <1>3 DEF SectionRead, ReadFaults
<1>4. CASE ~(Len(p) <= at)
  <2> DEFINE count == p[at + 1]
             start == at + 1
  <2>1. count \in Nat /\ start \in Nat
    <3>1. at + 1 \in 1..Len(p)
      BY <1>4
    <3> QED
      BY <3>1
  <2>2. \/ s = Failed(Nothing(at), "InvalidPayload")
        \/ s = ContextsOf(p, n, width, maximum, count, start)
    BY <1>4 DEF SectionRead
  <2>3. ASSUME s = ContextsOf(p, n, width, maximum, count, start)
        PROVE  s \in Reading(X)
    <3> HIDE DEF count, start
    <3> QED
      BY <2>1, <2>3, ContextsAreRead DEF X
  <2> QED
    BY <1>2, <2>2, <2>3 DEF ReadFaults
<1> QED
  BY <1>3, <1>4

GoodIndex(index, n, width, maximum) ==
  \A c \in DOMAIN index :
    /\ c \in [1..width -> 1..n]
    /\ index[c] \in Seq(PredictionRead(n)) /\ Len(index[c]) \in 1..maximum
    /\ EachOnce(index[c])

LEMMA SectionIndexIsGood ==
  ASSUME NEW n \in Nat, NEW width \in Nat, NEW maximum \in Nat,
         NEW section \in Seq(ContextRead(n, width, maximum))
  PROVE  GoodIndex(SectionIndex(section), n, width, maximum)
<1> DEFINE index == SectionIndex(section)
           at(c) == CHOOSE k \in DOMAIN section : section[k].context = c
<1>1. \A k \in DOMAIN section : section[k] \in ContextRead(n, width, maximum)
  OBVIOUS
<1>2. index = [c \in {section[k].context : k \in DOMAIN section} |-> section[at(c)].predictions]
  BY DEF SectionIndex
<1>3. ASSUME NEW c \in DOMAIN index
      PROVE  /\ c \in [1..width -> 1..n]
             /\ index[c] \in Seq(PredictionRead(n)) /\ Len(index[c]) \in 1..maximum
             /\ EachOnce(index[c])
  <2>1. \E k \in DOMAIN section : section[k].context = c
    BY <1>2
  <2>2. at(c) \in DOMAIN section /\ section[at(c)].context = c
    BY <2>1
  <2>3. index[c] = section[at(c)].predictions
    BY <1>2
  <2> DEFINE x == section[at(c)]
  <2>4. x \in ContextRead(n, width, maximum) /\ x.context = c /\ index[c] = x.predictions
    BY <1>1, <2>2, <2>3
  <2> HIDE DEF x, index
  <2> QED
    BY ONLY <2>4 DEF ContextRead
<1> QED
  BY <1>3 DEF GoodIndex

DecodedWell(d, n) ==
  /\ d.fault = NoFault
  /\ d.lexicon \in Seq(EntryRead) /\ Len(d.lexicon) = n /\ TextOf(d.lexicon) <= TextLimit
  /\ GoodIndex(d.bigrams, n, 1, MaxBigramPredictions)
  /\ GoodIndex(d.trigrams, n, 2, MaxTrigramPredictions)

LEMMA PayloadIsRead ==
  ASSUME NEW p \in Seq(Nat), NEW n \in Nat, NEW d, d = ReadPayload(p, n)
  PROVE  d.fault \in ReadFaults \/ DecodedWell(d, n)
<1> DEFINE nothing == Nothing(0)
           entries == IF n > Len(p) \div MinEntryCells THEN Failed(nothing, "InvalidPayload")
                      ELSE EntriesOf(p, n)
           bigrams == IF entries.fault # NoFault THEN entries
                      ELSE BigramSection(p, n, entries.at)
           trigrams == IF bigrams.fault # NoFault THEN bigrams
                       ELSE TrigramSection(p, n, bigrams.at)
<1>1. d = IF trigrams.fault # NoFault THEN [fault |-> trigrams.fault]
          ELSE IF trigrams.at # Len(p) THEN [fault |-> "InvalidPayload"]
          ELSE [fault |-> NoFault, lexicon |-> entries.got,
                bigrams |-> SectionIndex(bigrams.got), trigrams |-> SectionIndex(trigrams.got)]
  BY DEF ReadPayload, EntriesOf, Nothing
<1>2. /\ entries \in EntriesSoFar
      /\ entries.fault = NoFault => Len(entries.got) = n
  <2>1. CASE n > Len(p) \div MinEntryCells
    <3>1. nothing \in EntriesSoFar
      <4>1. TextOf(<<>>) = 0
        BY TextIs DEF Forms
      <4> QED
        BY <4>1, FormatAssumption DEF Nothing, EntriesSoFar, Reading
    <3>2. entries = Failed(nothing, "InvalidPayload")
      BY <2>1
    <3> HIDE DEF nothing, entries
    <3>3. nothing \in Reading(EntryRead) /\ TextOf(nothing.got) <= TextLimit
      BY ONLY <3>1 DEF EntriesSoFar
    <3>4. entries \in Reading(EntryRead) /\ entries.got = nothing.got /\ entries.fault # NoFault
      BY ONLY <3>2, <3>3, FailedStays DEF ReadFaults
    <3> QED
      BY ONLY <3>3, <3>4 DEF EntriesSoFar
  <2>2. CASE ~(n > Len(p) \div MinEntryCells)
    <3>1. entries = EntriesOf(p, n)
      BY <2>2
    <3> HIDE DEF entries
    <3> QED
      BY <3>1, EntriesAreRead
  <2> QED
    BY <2>1, <2>2
<1>3. /\ entries.at \in Nat /\ entries.fault \in ReadFaults \cup {NoFault}
      /\ entries.got \in Seq(EntryRead) /\ TextOf(entries.got) <= TextLimit
  <2> HIDE DEF entries
  <2> QED BY <1>2 DEF EntriesSoFar, Reading
<1> HIDE DEF entries
<1>4. /\ bigrams.at \in Nat /\ bigrams.fault \in ReadFaults \cup {NoFault}
      /\ bigrams.fault = NoFault =>
           /\ entries.fault = NoFault
           /\ bigrams.got \in Seq(ContextRead(n, 1, MaxBigramPredictions))
  <2>1. CASE entries.fault # NoFault
    BY <1>3, <2>1
  <2>2. CASE entries.fault = NoFault
    <3> DEFINE at == entries.at
    <3>1. bigrams = SectionRead(p, n, n, 1, MaxBigramPredictions, at)
      BY <2>2, SectionsAreRead
    <3>2. at \in Nat
      BY <1>3
    <3> HIDE DEF bigrams, at
    <3>3. bigrams \in Reading(ContextRead(n, 1, MaxBigramPredictions))
      BY <3>1, <3>2, FormatAssumption, SectionIsRead
    <3> QED
      BY ONLY <2>2, <3>3 DEF Reading
  <2> QED
    BY <2>1, <2>2
<1> HIDE DEF bigrams
<1>5. /\ trigrams.fault \in ReadFaults \cup {NoFault}
      /\ trigrams.fault = NoFault =>
           /\ bigrams.fault = NoFault
           /\ trigrams.got \in Seq(ContextRead(n, 2, MaxTrigramPredictions))
  <2>1. CASE bigrams.fault # NoFault
    BY <1>4, <2>1
  <2>2. CASE bigrams.fault = NoFault
    <3> DEFINE at == bigrams.at
               possible == n * n
    <3>1. trigrams = SectionRead(p, n, possible, 2, MaxTrigramPredictions, at)
      BY <2>2, SectionsAreRead
    <3>2. at \in Nat
      BY <1>4
    <3> HIDE DEF trigrams, at, possible
    <3>3. trigrams \in Reading(ContextRead(n, 2, MaxTrigramPredictions))
      BY <3>1, <3>2, FormatAssumption, SectionIsRead
    <3> QED
      BY ONLY <2>2, <3>3 DEF Reading
  <2> QED
    BY <2>1, <2>2
<1> HIDE DEF trigrams
<1>6. CASE trigrams.fault # NoFault \/ trigrams.at # Len(p)
  BY <1>1, <1>5, <1>6 DEF ReadFaults
<1>7. CASE trigrams.fault = NoFault /\ trigrams.at = Len(p)
  <2>1. /\ d.fault = NoFault /\ d.lexicon = entries.got
        /\ d.bigrams = SectionIndex(bigrams.got) /\ d.trigrams = SectionIndex(trigrams.got)
    BY <1>1, <1>7
  <2>2. GoodIndex(d.bigrams, n, 1, MaxBigramPredictions)
    BY <1>4, <1>5, <1>7, <2>1, FormatAssumption, SectionIndexIsGood
  <2>3. GoodIndex(d.trigrams, n, 2, MaxTrigramPredictions)
    BY <1>5, <1>7, <2>1, FormatAssumption, SectionIndexIsGood
  <2> QED
    BY <1>2, <1>3, <1>4, <1>5, <1>7, <2>1, <2>2, <2>3 DEF DecodedWell
<1> QED
  BY <1>6, <1>7

(***************************************************************************)
(* Looking a word up in the index.                                         *)
(***************************************************************************)
GoodLexicon(lexicon) ==
  /\ AsList(lexicon)
  /\ \A i \in DOMAIN lexicon : /\ lexicon[i].word \in Spelled /\ lexicon[i].normalized \in Spelled
                               /\ lexicon[i].zipf \in Nat

LEMMA GoodIsFormed ==
  ASSUME NEW lexicon, GoodLexicon(lexicon)
  PROVE  Formed(lexicon)
BY SpelledAre DEF GoodLexicon, Formed

\* find_normalized finds the first entry with the form, as the linear search does.
LEMMA FindIs ==
  ASSUME NEW lexicon, GoodLexicon(lexicon), NEW index, index.byNormalized = Sorted(lexicon),
         NEW w \in Seq(Nat), NEW f, f = FindNormalized(index, lexicon, w)
  PROVE  \/ f = NotFound /\ \A i \in DOMAIN lexicon : lexicon[i].normalized # w
         \/ /\ f \in DOMAIN lexicon /\ lexicon[f].normalized = w
            /\ \A i \in DOMAIN lexicon : lexicon[i].normalized = w => f <= i
<1> DEFINE n == Len(lexicon)
           order == Sorted(lexicon)
           form(k) == lexicon[order[k]].normalized
           less == {k \in DOMAIN order : WordLess(form(k), w)}
           first == Cardinality(less) + 1
<1>1. /\ n \in Nat /\ DOMAIN lexicon = 1..n /\ DOMAIN order = 1..n
      /\ \A k \in 1..n : order[k] \in 1..n
      /\ \A i \in 1..n : \E k \in 1..n : order[k] = i
      /\ \A k, l \in 1..n : k < l <=> FormLess(lexicon, order[k], order[l])
  BY GoodIsFormed, SortedIs
<1>2. \A i \in 1..n : lexicon[i].normalized \in Seq(Nat)
  BY <1>1, SpelledAre DEF GoodLexicon
<1>3. f = IF first \in DOMAIN order /\ lexicon[order[first]].normalized = w
          THEN order[first] ELSE NotFound
  BY DEF FindNormalized
<1>4. CASE \A i \in 1..n : lexicon[i].normalized # w
  <2> HIDE DEF n, order, less, first
  <2>1. first \in 1..n => order[first] \in 1..n
    BY <1>1
  <2>2. f = NotFound
    BY ONLY <1>1, <1>3, <1>4, <2>1
  <2> QED
    BY ONLY <1>1, <1>4, <2>2
<1>5. CASE \E i \in 1..n : lexicon[i].normalized = w
  <2> DEFINE T == {i \in 1..n : lexicon[i].normalized = w}
  <2>1. T \subseteq Nat /\ T # {}
    <3>1. n \in Nat
      BY <1>1
    <3> HIDE DEF n, order
    <3>2. T \subseteq 1..n /\ T # {}
      BY ONLY <1>5
    <3> HIDE DEF T
    <3> QED BY ONLY <3>1, <3>2
  <2>2. PICK g \in T : \A i \in T : g <= i
    <3> HIDE DEF T
    <3> QED BY <2>1, LeastNumber
  <2>3. g \in 1..n /\ lexicon[g].normalized = w
        /\ \A i \in 1..n : lexicon[i].normalized = w => g <= i
    BY <2>2
  <2>4. PICK k0 \in 1..n : order[k0] = g
    BY <1>1, <2>3
  <2> HIDE DEF T, n, order
  <2>5. \A k \in 1..n : k < k0 <=> FormLess(lexicon, order[k], g)
    BY ONLY <1>1, <2>4
  <2>6. \A k \in 1..n : order[k] \in 1..n /\ form(k) \in Seq(Nat)
    BY <1>1, <1>2
  <2>7. ASSUME NEW k \in 1..n PROVE FormLess(lexicon, order[k], g) <=> WordLess(form(k), w)
    <3>1. FormLess(lexicon, order[k], g) <=>
            WordLess(form(k), w) \/ (form(k) = w /\ order[k] < g)
      BY ONLY <2>3 DEF FormLess
    <3>2. form(k) = w => g <= order[k]
      BY ONLY <2>3, <2>6, k \in 1..n
    <3>3. g \in Nat /\ order[k] \in Nat
      <4>1. n \in Nat /\ g \in 1..n /\ order[k] \in 1..n
        BY <1>1, <2>3
      <4> HIDE DEF form
      <4> QED
        BY ONLY <4>1
    <3>4. ~(g <= order[k] /\ order[k] < g)
      BY ONLY <3>3
    <3>5. CASE form(k) = w
      <4>1. ~(order[k] < g)
        BY ONLY <3>2, <3>4, <3>5
      <4> QED
        BY ONLY <3>1, <4>1
    <3>6. CASE form(k) # w
      BY ONLY <3>1, <3>6
    <3> QED
      BY ONLY <3>5, <3>6
  <2>8. less = 1..(k0 - 1)
    <3>1. \A k \in 1..n : WordLess(form(k), w) <=> k < k0
      BY ONLY <2>5, <2>7
    <3>2. less = {k \in 1..n : k < k0}
      BY ONLY <1>1, <3>1
    <3> HIDE DEF less
    <3> QED
      BY ONLY <3>2, <1>1, k0 \in 1..n
  <2>9. first = k0
    <3>1. Cardinality(1..(k0 - 1)) = k0 - 1
      BY <1>1, FS_Interval
    <3> HIDE DEF less
    <3> QED
      BY <1>1, <2>8, <3>1
  <2> HIDE DEF first
  <2>10. f = g
    BY ONLY <1>1, <1>3, <2>3, <2>4, <2>9, k0 \in 1..n
  <2> QED
    BY ONLY <1>1, <2>3, <2>10
<1> QED
  BY <1>4, <1>5

(***************************************************************************)
(* The invariant.                                                          *)
(***************************************************************************)
\* What probing a file says of the fault, when there is one.
Explains(probe, fault) ==
  /\ probe \in {"not a pack", "supported", "unsupported"}
  /\ probe = "unsupported" <=> fault \in {"UnsupportedVersion", "IncompatibleLanguage"}

LEMMA DecodedIs ==
  ASSUME NEW pack, GoodPack(pack), NEW d, d = Decoded(pack)
  PROVE  \/ d.fault \in HeaderFaults /\ Explains(Probe(pack), d.fault)
         \/ Probe(pack) = "supported" /\ \E n \in Nat : DecodedWell(d, n)
<1> DEFINE header == HeaderFault(pack)
           n == pack.header[4]
<1>1. /\ pack.payload \in Seq(Nat) /\ header \in HeaderFaults \cup {NoFault}
      /\ header = NoFault => n \in Nat /\ Probe(pack) = "supported"
      /\ Explains(Probe(pack), header)
  BY DEF GoodPack, Explains
<1>2. d = IF header # NoFault THEN [fault |-> header] ELSE ReadPayload(pack.payload, n)
  BY DEF Decoded
<1> HIDE DEF header, n
<1>3. CASE header # NoFault
  <2>1. d.fault = header /\ header \in HeaderFaults
    BY ONLY <1>1, <1>2, <1>3
  <2> QED
    BY ONLY <1>1, <2>1
<1>4. CASE header = NoFault
  <2>1. d.fault \in ReadFaults \/ DecodedWell(d, n)
    BY <1>1, <1>2, <1>4, PayloadIsRead
  <2>2. CASE DecodedWell(d, n)
    BY ONLY <1>1, <1>4, <2>2
  <2>3. CASE d.fault \in ReadFaults
    <3>1. d.fault \in HeaderFaults
      BY ONLY <2>3 DEF ReadFaults, HeaderFaults
    <3>2. Explains(Probe(pack), d.fault)
      BY ONLY <1>1, <1>4, <2>3 DEF Explains, ReadFaults
    <3> QED
      BY ONLY <3>1, <3>2
  <2> QED
    BY ONLY <2>1, <2>2, <2>3
<1> QED
  BY ONLY <1>3, <1>4

LEMMA FailureClassIs ==
  ASSUME NEW fault \in HeaderFaults
  PROVE  /\ FailureClass(fault) \in {"Truncated", "UnsupportedSchema", "WrongLanguage", "Corrupt"}
         /\ FailureClass(fault) \in {"UnsupportedSchema", "WrongLanguage"}
              <=> fault \in {"UnsupportedVersion", "IncompatibleLanguage"}
<1>1. CASE fault \in {"TooShort", "TruncatedPayload"}
  BY <1>1 DEF FailureClass
<1>2. CASE fault = "UnsupportedVersion"
  BY <1>2 DEF FailureClass
<1>3. CASE fault = "IncompatibleLanguage"
  BY <1>3 DEF FailureClass
<1>4. CASE fault \in {"InvalidMagicBytes", "ChecksumMismatch", "InvalidPayload"}
  BY <1>4 DEF FailureClass
<1> QED
  BY <1>1, <1>2, <1>3, <1>4 DEF HeaderFaults

WellFormed(e) ==
  /\ DOMAIN e = {"lexicon", "trie", "index", "bigrams", "trigrams"}
  /\ GoodLexicon(e.lexicon) /\ TextOf(e.lexicon) <= TextLimit
  /\ e.index.byNormalized = Sorted(e.lexicon)
  /\ GoodIndex(e.bigrams, Len(e.lexicon), 1, MaxBigramPredictions)
  /\ GoodIndex(e.trigrams, Len(e.lexicon), 2, MaxTrigramPredictions)

Explained(r) ==
  /\ r.class \in {"None", "Loaded", "Panic", "Truncated", "UnsupportedSchema",
                  "WrongLanguage", "Corrupt"}
  /\ r.probe \in {"none", "not a pack", "supported", "unsupported"}
  /\ r.probe # "none" =>
       /\ r.probe = "unsupported" <=> r.class \in {"UnsupportedSchema", "WrongLanguage"}
       /\ r.class = "Loaded" => r.probe = "supported"

Inv ==
  /\ WellFormed(engine)
  /\ built \in Inputs \cup {NoInput}
  /\ Explained(report)
  /\ loads \in 0..MaxLoads

LEMMA SortedAgain ==
  ASSUME NEW lexicon
  PROVE  IndexOf(lexicon).byNormalized = Sorted(lexicon)
BY DEF IndexOf, Sorted

LEMMA EmptyIsWellFormed == WellFormed(EmptyEngine)
<1> DEFINE e == EmptyEngine
<1>1. /\ DOMAIN e = {"lexicon", "trie", "index", "bigrams", "trigrams"}
      /\ e.lexicon = <<>> /\ e.index = EmptyIndex
      /\ e.bigrams = [c \in {} |-> 0] /\ e.trigrams = [c \in {} |-> 0]
  BY DEF EmptyEngine
<1> HIDE DEF e
<1>2. GoodLexicon(e.lexicon)
  BY <1>1 DEF GoodLexicon, AsList, Range
<1>3. TextOf(e.lexicon) <= TextLimit
  <2>1. Len(e.lexicon) = 0
    BY <1>1
  <2>2. TextOf(e.lexicon) = 0
    BY <2>1, TextIs DEF Forms
  <2> QED
    BY <2>2, FormatAssumption
<1>4. e.index.byNormalized = Sorted(e.lexicon)
  <2> DEFINE lexicon == e.lexicon
             S == DOMAIN lexicon
             at(k) == CHOOSE x \in S : Cardinality({y \in S : FormLess(lexicon, y, x)}) = k - 1
             order == Sorted(lexicon)
  <2>1. S = {}
    BY <1>1
  <2>2. Cardinality(S) = 0
    BY <2>1, FS_EmptySet
  <2>3. order = [k \in 1..Cardinality(S) |-> at(k)]
    BY DEF Sorted, Positions, Ranked, FormLess
  <2>4. e.index.byNormalized = <<>>
    BY <1>1 DEF EmptyIndex
  <2> HIDE DEF order, at, S
  <2>5. order = <<>>
    BY <2>2, <2>3
  <2> QED
    BY <2>4, <2>5 DEF order
<1>5. /\ GoodIndex(e.bigrams, Len(e.lexicon), 1, MaxBigramPredictions)
      /\ GoodIndex(e.trigrams, Len(e.lexicon), 2, MaxTrigramPredictions)
  BY <1>1 DEF GoodIndex
<1> QED
  BY <1>1, <1>2, <1>3, <1>4, <1>5 DEF WellFormed, e

LEMMA BothIndexesStay ==
  ASSUME NEW index, NEW n \in Nat, NEW m \in Nat, n <= m, NEW width, NEW maximum,
         GoodIndex(index, n, width, maximum)
  PROVE  GoodIndex(index, m, width, maximum)
<1>1. 1..n \subseteq 1..m
  OBVIOUS
<1>2. PredictionRead(n) \subseteq PredictionRead(m)
  BY <1>1 DEF PredictionRead
<1>3. ASSUME NEW c \in DOMAIN index
      PROVE  /\ c \in [1..width -> 1..m]
             /\ index[c] \in Seq(PredictionRead(m)) /\ Len(index[c]) \in 1..maximum
             /\ EachOnce(index[c])
  <2>1. /\ c \in [1..width -> 1..n]
        /\ index[c] \in Seq(PredictionRead(n)) /\ Len(index[c]) \in 1..maximum
        /\ EachOnce(index[c])
    BY DEF GoodIndex
  <2>2. c \in [1..width -> 1..m]
    BY <1>1, <2>1
  <2>3. index[c] \in Seq(PredictionRead(m))
    BY <1>2, <2>1
  <2> QED
    BY <2>1, <2>2, <2>3
<1> QED
  BY <1>3 DEF GoodIndex

\* Entries appended to a lexicon leave its own where they are.
LEMMA AppendedIs ==
  ASSUME NEW lexicon, GoodLexicon(lexicon), NEW entries \in Batches
  PROVE  /\ GoodLexicon(lexicon \o entries)
         /\ Len(lexicon) \in Nat /\ Len(lexicon \o entries) \in Nat
         /\ Len(lexicon) <= Len(lexicon \o entries)
         /\ \A i \in 1..Len(lexicon) : (lexicon \o entries)[i] = lexicon[i]
<1> DEFINE X == Range(lexicon) \cup Range(entries)
           longer == lexicon \o entries
           n == Len(lexicon)
           m == Len(entries)
<1>1. /\ AsList(lexicon) /\ AsList(entries)
      /\ \A i \in DOMAIN lexicon : /\ lexicon[i].word \in Spelled /\ lexicon[i].normalized \in Spelled
                                   /\ lexicon[i].zipf \in Nat
      /\ \A i \in DOMAIN entries : /\ entries[i].word \in Spelled /\ entries[i].normalized \in Spelled
                                   /\ entries[i].zipf \in Nat
  <2>1. \A e \in Range(entries) : EntryType(e)
    BY InputsAssumption
  <2>2. AsList(entries)
    BY InputsAssumption DEF AsList
  <2> QED
    BY <2>1, <2>2 DEF GoodLexicon, EntryType, Range
<1>2. /\ n \in Nat /\ DOMAIN lexicon = 1..n /\ m \in Nat /\ DOMAIN entries = 1..m
  BY <1>1, ListIs
<1>3. lexicon \in Seq(X) /\ entries \in Seq(X)
  <2>1. Range(lexicon) \subseteq X /\ Range(entries) \subseteq X
    OBVIOUS
  <2>2. lexicon \in Seq(Range(lexicon)) /\ entries \in Seq(Range(entries))
    BY <1>1 DEF AsList
  <2> HIDE DEF X
  <2> QED
    BY <2>1, <2>2
<1>4. /\ Len(longer) = n + m /\ DOMAIN longer = 1..(n + m)
      /\ \A i \in 1..n : longer[i] = lexicon[i]
      /\ \A i \in (n + 1)..(n + m) : longer[i] = entries[i - n]
  <2> HIDE DEF X
  <2> QED
    BY <1>3
<1>5. longer \in Seq(Range(longer))
  <2>1. longer \in Seq(X)
    <3> HIDE DEF X
    <3> QED BY <1>3
  <2>2. \A i \in 1..Len(longer) : longer[i] \in Range(longer)
    <3>1. DOMAIN longer = 1..Len(longer)
      BY ONLY <1>4
    <3> HIDE DEF longer
    <3> QED BY ONLY <3>1 DEF Range
  <2> HIDE DEF longer, X
  <2> QED
    BY <2>1, <2>2
<1>6. \A i \in DOMAIN longer : /\ longer[i].word \in Spelled /\ longer[i].normalized \in Spelled
                              /\ longer[i].zipf \in Nat
  <2> HIDE DEF longer, n, m
  <2> TAKE i \in DOMAIN longer
  <2>1. CASE i \in 1..n
    BY <1>1, <1>2, <1>4, <2>1
  <2>2. CASE i \in (n + 1)..(n + m)
    <3>1. i - n \in 1..m
      BY <1>2, <2>2
    <3> QED
      BY <1>1, <1>2, <1>4, <2>2, <3>1
  <2> QED
    BY <1>2, <1>4, <2>1, <2>2
<1> QED
  <2>1. GoodLexicon(longer)
    BY <1>5, <1>6 DEF GoodLexicon, AsList
  <2> HIDE DEF longer
  <2>2. n \in Nat /\ Len(longer) \in Nat /\ n <= Len(longer)
    BY <1>2, <1>4
  <2> QED
    BY <2>1, <2>2, <1>4 DEF longer

\* A load of a file says why it was refused, or the engine is what the file held.
LEMMA LoadKeepsInv ==
  ASSUME Inv, NEW pack, GoodPack(pack), NEW input \in Inputs \cup {NoInput},
         LoadBinaryPack(pack, input)
  PROVE  /\ WellFormed(engine)' /\ Explained(report)'
         /\ built' \in Inputs \cup {NoInput}
<1> DEFINE d == Decoded(pack)
<1>1. CASE d.fault # NoFault
  <2>1. /\ report' = Report(FailureClass(d.fault), Probe(pack))
        /\ engine' = engine /\ built' = built
    BY <1>1 DEF LoadBinaryPack
  <2>2. d.fault \in HeaderFaults /\ Explains(Probe(pack), d.fault)
    <3> HIDE DEF d
    <3> QED BY <1>1, DecodedIs DEF DecodedWell, d
  <2>3. Explained(report')
    <3>1. report'.class = FailureClass(d.fault) /\ report'.probe = Probe(pack)
      BY <2>1 DEF Report
    <3>2. /\ report'.class \in {"Truncated", "UnsupportedSchema", "WrongLanguage", "Corrupt"}
          /\ report'.class \in {"UnsupportedSchema", "WrongLanguage"}
               <=> d.fault \in {"UnsupportedVersion", "IncompatibleLanguage"}
      <4> HIDE DEF d
      <4> QED BY <2>2, <3>1, FailureClassIs
    <3> HIDE DEF d
    <3> QED
      BY <2>2, <3>1, <3>2 DEF Explains, Explained
  <2> QED
    BY <2>1, <2>3 DEF Inv
<1>2. CASE d.fault = NoFault
  <2>1. /\ report' = Report("Loaded", Probe(pack))
        /\ engine' = [lexicon  |-> d.lexicon,
                      trie     |-> LexiconTrie(d.lexicon),
                      index    |-> IndexOf(d.lexicon),
                      bigrams  |-> d.bigrams,
                      trigrams |-> d.trigrams]
        /\ built' = input
    BY <1>2 DEF LoadBinaryPack
  <2>2. NoFault \notin HeaderFaults
    BY DEF NoFault, HeaderFaults
  <2> HIDE DEF d
  <2>3. Probe(pack) = "supported" /\ \E n \in Nat : DecodedWell(d, n)
    BY <1>2, <2>2, DecodedIs DEF d
  <2>4. PICK n \in Nat : DecodedWell(d, n)
    BY <2>3
  <2>5. Explained(report')
    BY <2>1, <2>3 DEF Explained, Report
  <2>6. /\ DOMAIN engine' = {"lexicon", "trie", "index", "bigrams", "trigrams"}
        /\ engine'.lexicon = d.lexicon /\ engine'.index = IndexOf(d.lexicon)
        /\ engine'.bigrams = d.bigrams /\ engine'.trigrams = d.trigrams
    BY <2>1
  <2>7. engine'.index.byNormalized = Sorted(engine'.lexicon)
    BY <2>6, SortedAgain
  <2>8. GoodLexicon(engine'.lexicon) /\ Len(engine'.lexicon) = n
    <3>1. d.lexicon \in Seq(EntryRead) /\ Len(d.lexicon) = n
      BY <2>4 DEF DecodedWell
    <3>2. \A i \in DOMAIN d.lexicon : d.lexicon[i] \in EntryRead
      <4> HIDE DEF EntryRead
      <4> QED BY <3>1
    <3>3. \A i \in DOMAIN d.lexicon :
            /\ d.lexicon[i].word \in Spelled /\ d.lexicon[i].normalized \in Spelled
            /\ d.lexicon[i].zipf \in Nat
      BY <3>2 DEF EntryRead
    <3>4. d.lexicon \in Seq(Range(d.lexicon))
      <4> HIDE DEF EntryRead
      <4> QED BY <3>1 DEF Range
    <3> QED
      BY <2>6, <3>1, <3>3, <3>4 DEF GoodLexicon, AsList
  <2>9. WellFormed(engine')
    BY <2>4, <2>6, <2>7, <2>8 DEF DecodedWell, WellFormed
  <2> QED
    BY <2>1, <2>5, <2>9
<1> QED
  BY <1>1, <1>2

LEMMA AppendKeepsInv ==
  ASSUME Inv, NEW entries \in Batches, LoadLexicon(entries)
  PROVE  Inv'
<1> DEFINE lexicon == engine.lexicon \o entries
<1>1. GoodLexicon(lexicon) /\ Len(engine.lexicon) \in Nat /\ Len(lexicon) \in Nat
      /\ Len(engine.lexicon) <= Len(lexicon)
  BY AppendedIs DEF Inv, WellFormed
<1>2. built' = built /\ loads' \in 0..MaxLoads
  BY BoundsAssumption DEF LoadLexicon, Inv
<1>3. CASE TextOf(lexicon) > TextLimit
  <2>1. report' = Report("Panic", "none") /\ engine' = engine
    BY <1>3 DEF LoadLexicon
  <2>2. Explained(report')
    BY <2>1 DEF Explained, Report
  <2> QED
    BY <1>2, <2>1, <2>2 DEF Inv
<1>4. CASE ~(TextOf(lexicon) > TextLimit)
  <2>1. /\ report' = Report("Loaded", "none")
        /\ engine' = [engine EXCEPT !.lexicon = lexicon,
                                    !.trie = LexiconTrie(lexicon),
                                    !.index = IndexOf(lexicon)]
    BY <1>4 DEF LoadLexicon
  <2> HIDE DEF lexicon
  <2>2. Explained(report')
    BY <2>1 DEF Explained, Report
  <2>3. DOMAIN engine = {"lexicon", "trie", "index", "bigrams", "trigrams"}
    BY DEF Inv, WellFormed
  <2>4. /\ DOMAIN engine' = {"lexicon", "trie", "index", "bigrams", "trigrams"}
        /\ engine'.lexicon = lexicon /\ engine'.index = IndexOf(lexicon)
        /\ engine'.bigrams = engine.bigrams /\ engine'.trigrams = engine.trigrams
    BY <2>1, <2>3
  <2>5. TextOf(lexicon) <= TextLimit
    <3>1. Forms(lexicon)
      BY <1>1, ListIs DEF Forms, GoodLexicon
    <3>2. TextOf(lexicon) \in Nat /\ TextLimit \in Nat
      BY <3>1, TextIs, FormatAssumption
    <3> QED
      BY <1>4, <3>2
  <2>6. /\ GoodIndex(engine.bigrams, Len(lexicon), 1, MaxBigramPredictions)
        /\ GoodIndex(engine.trigrams, Len(lexicon), 2, MaxTrigramPredictions)
    <3>1. /\ GoodIndex(engine.bigrams, Len(engine.lexicon), 1, MaxBigramPredictions)
          /\ GoodIndex(engine.trigrams, Len(engine.lexicon), 2, MaxTrigramPredictions)
      BY DEF Inv, WellFormed
    <3> QED
      BY <1>1, <3>1, BothIndexesStay
  <2>7. engine'.index.byNormalized = Sorted(engine'.lexicon)
    BY <2>4, SortedAgain
  <2>8. WellFormed(engine')
    BY <1>1, <2>4, <2>5, <2>6, <2>7 DEF WellFormed
  <2> QED
    BY <1>2, <2>2, <2>8 DEF Inv
<1> QED
  BY <1>3, <1>4

\* The files a load can be given, whole or damaged.
LEMMA CompiledIsGood ==
  ASSUME NEW input \in Inputs, Compiles(input)
  PROVE  /\ GoodPack(CompiledPack(input))
         /\ \A pack \in Broken(CompiledPack(input)) \cup Resealed(CompiledPack(input)) :
              GoodPack(pack)
<1>1. PICK p \in Seq(Nat) : /\ CompiledPack(input) = Headed(Len(input.entries), p)
                           /\ Len(input.entries) \in Nat
  BY CompiledPackIs
<1> QED
  BY <1>1, HeadedIsGood, FilesAreGood

LEMMA InvHolds == Spec => []Inv
<1>1. Init => Inv
  <2> SUFFICES ASSUME Init PROVE Inv
    OBVIOUS
  <2>1. engine = EmptyEngine /\ built = NoInput /\ loads = 0
    BY DEF Init
  <2>2. WellFormed(engine)
    BY <2>1, EmptyIsWellFormed
  <2>3. Explained(report)
    BY DEF Init, Explained, Report
  <2>4. loads \in 0..MaxLoads
    BY <2>1, BoundsAssumption
  <2> QED
    BY <2>1, <2>2, <2>3, <2>4 DEF Inv
<1>2. Inv /\ [Next]_vars => Inv'
  <2> SUFFICES ASSUME Inv, [Next]_vars PROVE Inv'
    OBVIOUS
  <2>1. CASE LoadIntact
    <3>1. PICK input \in Inputs :
            Compiles(input) /\ LoadBinaryPack(CompiledPack(input), input)
      BY <2>1 DEF LoadIntact
    <3>2. GoodPack(CompiledPack(input))
      BY <3>1, CompiledIsGood
    <3>3. /\ WellFormed(engine)' /\ Explained(report)' /\ built' \in Inputs \cup {NoInput}
      BY <3>1, <3>2, LoadKeepsInv
    <3>4. loads' \in 0..MaxLoads
      BY <2>1, BoundsAssumption DEF LoadIntact, Inv
    <3> QED
      BY <3>3, <3>4 DEF Inv
  <2>2. CASE LoadDamaged
    <3>1. PICK input \in Inputs :
            /\ Compiles(input)
            /\ \E pack \in Broken(CompiledPack(input)) \cup Resealed(CompiledPack(input)) :
                 LoadBinaryPack(pack, NoInput)
      BY <2>2 DEF LoadDamaged
    <3>2. PICK pack \in Broken(CompiledPack(input)) \cup Resealed(CompiledPack(input)) :
            LoadBinaryPack(pack, NoInput)
      BY <3>1
    <3>3. /\ WellFormed(engine)' /\ Explained(report)' /\ built' \in Inputs \cup {NoInput}
      BY <3>1, <3>2, CompiledIsGood, LoadKeepsInv
    <3>4. loads' \in 0..MaxLoads
      BY <2>2, BoundsAssumption DEF LoadDamaged, Inv
    <3> QED
      BY <3>3, <3>4 DEF Inv
  <2>3. ASSUME NEW entries \in Batches, LoadLexicon(entries) PROVE Inv'
    BY <2>3, AppendKeepsInv
  <2>4. CASE UNCHANGED vars
    BY <2>4 DEF vars, Inv
  <2> QED
    BY <2>1, <2>2, <2>3, <2>4 DEF Next
<1> QED
  BY <1>1, <1>2, PTL DEF Spec

(***************************************************************************)
(* What follows from it.                                                   *)
(***************************************************************************)
\* Whatever is loaded or appended, the lexicon stays one of words the format can
\* spell within its text limit, and each load ends in one of the known classes.
THEOREM TypeCorrect == Spec => []TypeOK
<1>1. Inv => TypeOK
  BY DEF Inv, WellFormed, GoodLexicon, Explained, TypeOK
<1> QED
  BY <1>1, InvHolds, PTL

\* probe_pack_header and the loader agree on every file: a schema or language this
\* engine does not load is told by the probe, and no other failure is.
THEOREM ProbeAgreesWithLoad == Spec => []ProbeExplainsRefusal
<1>1. Inv => ProbeExplainsRefusal
  BY DEF Inv, Explained, ProbeExplainsRefusal
<1> QED
  BY <1>1, InvHolds, PTL

NamesWords(index, n, width, maximum) ==
  \A c \in DOMAIN index :
    /\ Len(c) = width /\ \A i \in DOMAIN c : c[i] \in 1..n
    /\ Len(index[c]) \in 1..maximum
    /\ \A k, l \in DOMAIN index[c] :
         /\ index[c][k].next \in 1..n
         /\ index[c][k].next = index[c][l].next => k = l

\* No file, however damaged, and no appended entry leaves a prediction of a word the
\* lexicon does not have, or one prediction twice.
THEOREM PredictionsAreWords == Spec => []PredictionsNameWords
<1>1. ASSUME NEW index, NEW n \in Nat, NEW width \in Nat, NEW maximum \in Nat,
             GoodIndex(index, n, width, maximum)
      PROVE  NamesWords(index, n, width, maximum)
  <2>1. ASSUME NEW c \in DOMAIN index
        PROVE  /\ Len(c) = width /\ \A i \in DOMAIN c : c[i] \in 1..n
               /\ Len(index[c]) \in 1..maximum
               /\ \A k, l \in DOMAIN index[c] :
                    /\ index[c][k].next \in 1..n
                    /\ index[c][k].next = index[c][l].next => k = l
    <3> DEFINE predictions == index[c]
    <3>1. /\ c \in [1..width -> 1..n]
          /\ predictions \in Seq(PredictionRead(n)) /\ Len(predictions) \in 1..maximum
          /\ EachOnce(predictions)
      BY <1>1 DEF GoodIndex
    <3>2. Len(c) = width /\ \A i \in DOMAIN c : c[i] \in 1..n
      BY <3>1
    <3> HIDE DEF predictions
    <3>3. \A k \in DOMAIN predictions : predictions[k] \in PredictionRead(n)
      BY <3>1
    <3>4. \A k \in DOMAIN predictions : predictions[k].next \in 1..n
      BY <3>3 DEF PredictionRead
    <3> QED
      BY <3>1, <3>2, <3>4 DEF EachOnce, predictions
  <2> QED
    BY <2>1 DEF NamesWords
<1>2. Inv => PredictionsNameWords
  <2> SUFFICES ASSUME Inv PROVE PredictionsNameWords
    OBVIOUS
  <2> DEFINE n == Len(engine.lexicon)
  <2>1. n \in Nat /\ DOMAIN engine.lexicon = 1..n
    BY ListIs DEF Inv, WellFormed, GoodLexicon
  <2>2. /\ GoodIndex(engine.bigrams, n, 1, MaxBigramPredictions)
        /\ GoodIndex(engine.trigrams, n, 2, MaxTrigramPredictions)
        /\ MaxBigramPredictions \in Nat /\ MaxTrigramPredictions \in Nat
    BY FormatAssumption DEF Inv, WellFormed
  <2> HIDE DEF n
  <2>3. /\ NamesWords(engine.bigrams, n, 1, MaxBigramPredictions)
        /\ NamesWords(engine.trigrams, n, 2, MaxTrigramPredictions)
    BY <1>1, <2>1, <2>2
  <2> QED
    BY ONLY <2>1, <2>3 DEF PredictionsNameWords, NamesWords
<1> QED
  BY <1>2, InvHolds, PTL

(***************************************************************************)
(* Appending.                                                              *)
(***************************************************************************)
Extends(e, longer) ==
  /\ WellFormed(e) /\ WellFormed(longer)
  /\ Len(e.lexicon) <= Len(longer.lexicon)
  /\ \A i \in 1..Len(e.lexicon) : longer.lexicon[i] = e.lexicon[i]
  /\ longer.bigrams = e.bigrams /\ longer.trigrams = e.trigrams

\* Two positions the predictions made for n entries do not tell apart.
Alike(n, i, j) == i = j \/ (i \notin 1..n /\ j \notin 1..n)

\* A word is found where it was, or the predictions do not know it before or after.
LEMMA FoundAgain ==
  ASSUME NEW e, NEW longer, Extends(e, longer), NEW w \in Seq(Nat)
  PROVE  Alike(Len(e.lexicon), FindLexiconIndex(e, w), FindLexiconIndex(longer, w))
<1> DEFINE n == Len(e.lexicon)
           m == Len(longer.lexicon)
           f == FindNormalized(e.index, e.lexicon, w)
           g == FindNormalized(longer.index, longer.lexicon, w)
<1>1. /\ n \in Nat /\ DOMAIN e.lexicon = 1..n
      /\ m \in Nat /\ DOMAIN longer.lexicon = 1..m /\ n <= m
  BY ListIs DEF Extends, WellFormed, GoodLexicon
<1>2. \/ f = NotFound /\ \A i \in 1..n : e.lexicon[i].normalized # w
      \/ /\ f \in 1..n /\ e.lexicon[f].normalized = w
         /\ \A i \in 1..n : e.lexicon[i].normalized = w => f <= i
  <2>1. GoodLexicon(e.lexicon) /\ e.index.byNormalized = Sorted(e.lexicon)
    BY DEF Extends, WellFormed
  <2> QED
    BY <1>1, <2>1, FindIs
<1>3. \/ g = NotFound /\ \A i \in 1..m : longer.lexicon[i].normalized # w
      \/ /\ g \in 1..m /\ longer.lexicon[g].normalized = w
         /\ \A i \in 1..m : longer.lexicon[i].normalized = w => g <= i
  <2>1. GoodLexicon(longer.lexicon) /\ longer.index.byNormalized = Sorted(longer.lexicon)
    BY DEF Extends, WellFormed
  <2> QED
    BY <1>1, <2>1, FindIs
<1>4. /\ NotFound \notin 1..n
      /\ 1..n \subseteq 1..m
      /\ \A i \in 1..n : longer.lexicon[i] = e.lexicon[i]
  BY <1>1 DEF NotFound, Extends
<1> HIDE DEF n, m, f, g
<1>5. Alike(n, f, g)
  <2>1. CASE f = NotFound /\ \A i \in 1..n : e.lexicon[i].normalized # w
    <3>1. g \notin 1..n
      BY ONLY <1>3, <1>4, <2>1
    <3> QED
      BY ONLY <1>4, <2>1, <3>1 DEF Alike
  <2>2. CASE /\ f \in 1..n /\ e.lexicon[f].normalized = w
             /\ \A i \in 1..n : e.lexicon[i].normalized = w => f <= i
    <3>1. f \in 1..m /\ longer.lexicon[f].normalized = w
      BY ONLY <1>4, <2>2
    <3>2. g \in 1..m /\ longer.lexicon[g].normalized = w /\ g <= f
      BY ONLY <1>3, <3>1
    <3>3. g \in 1..n
      BY ONLY <1>1, <2>2, <3>2
    <3>4. f <= g
      BY ONLY <1>4, <2>2, <3>2, <3>3
    <3>5. f = g
      BY ONLY <1>1, <2>2, <3>2, <3>3, <3>4
    <3> QED
      BY ONLY <3>5 DEF Alike
  <2> QED
    BY ONLY <1>2, <2>1, <2>2
<1>6. CASE w = <<>>
  BY <1>6 DEF FindLexiconIndex, Alike
<1>7. CASE w # <<>>
  BY <1>5, <1>7 DEF FindLexiconIndex, n, f, g
<1> QED
  BY <1>6, <1>7

LEMMA ToldAgain ==
  ASSUME NEW e, NEW longer, Extends(e, longer), NEW limit \in Nat,
         NEW predictions \in Seq(PredictionRead(Len(e.lexicon)))
  PROVE  Told(longer, predictions, limit) = Told(e, predictions, limit)
<1> DEFINE n == Len(e.lexicon)
           kept == IF Len(predictions) < limit THEN Len(predictions) ELSE limit
<1>1. /\ Len(predictions) \in Nat /\ kept \in 0..Len(predictions)
      /\ \A k \in 1..kept : predictions[k] \in PredictionRead(n)
  <2> HIDE DEF n
  <2> QED BY DEF n
<1>2. \A k \in 1..kept : predictions[k].next \in 1..n
  <2> HIDE DEF n, kept
  <2> QED BY <1>1 DEF PredictionRead
<1>3. \A k \in 1..kept : longer.lexicon[predictions[k].next] = e.lexicon[predictions[k].next]
  BY <1>2 DEF Extends
<1> HIDE DEF kept
<1> QED
  BY <1>3 DEF Told, kept

SameContext(index, c, d) == c = d \/ (c \notin DOMAIN index /\ d \notin DOMAIN index)

SameTold(e, longer, limit, source, index, c, d) ==
  NextAfter(longer, source, index, d, limit) = NextAfter(e, source, index, c, limit)

LEMMA ToldAfterAgain ==
  ASSUME NEW e, NEW longer, Extends(e, longer), NEW limit \in Nat, NEW source, NEW index,
         NEW n, n = Len(e.lexicon), NEW width, NEW maximum, GoodIndex(index, n, width, maximum),
         NEW c, NEW d, SameContext(index, c, d)
  PROVE  SameTold(e, longer, limit, source, index, c, d)
<1>1. CASE c \notin DOMAIN index
  BY <1>1 DEF NextAfter, SameContext, SameTold
<1>2. CASE c \in DOMAIN index
  <2>1. index[c] \in Seq(PredictionRead(n)) /\ c = d
    BY <1>2 DEF GoodIndex, SameContext
  <2>2. Told(longer, index[c], limit) = Told(e, index[c], limit)
    BY <2>1, ToldAgain
  <2> QED
    BY <1>2, <2>1, <2>2 DEF NextAfter, SameTold
<1> QED
  BY <1>1, <1>2

LEMMA BackOffAgain ==
  ASSUME NEW e, NEW longer, Extends(e, longer), NEW limit \in Nat,
         NEW i1, NEW i2, NEW j1, NEW j2,
         Alike(Len(e.lexicon), i1, j1), Alike(Len(e.lexicon), i2, j2)
  PROVE  /\ BackOff(longer, <<j2, j1>>, j1, limit) = BackOff(e, <<i2, i1>>, i1, limit)
         /\ NextAfter(longer, "Bigram", longer.bigrams, <<j1>>, limit)
              = NextAfter(e, "Bigram", e.bigrams, <<i1>>, limit)
<1> DEFINE n == Len(e.lexicon)
           b == e.bigrams
           t == e.trigrams
<1>1. /\ GoodIndex(b, n, 1, MaxBigramPredictions)
      /\ GoodIndex(t, n, 2, MaxTrigramPredictions)
      /\ longer.bigrams = b /\ longer.trigrams = t
  BY DEF Extends, WellFormed
<1> HIDE DEF n, b, t
<1>2. /\ \A c \in DOMAIN b : c[1] \in 1..n
      /\ \A c \in DOMAIN t : c[1] \in 1..n /\ c[2] \in 1..n
  <2>1. \A c \in DOMAIN b : c \in [1..1 -> 1..n]
    BY <1>1 DEF GoodIndex
  <2>2. \A c \in DOMAIN t : c \in [1..2 -> 1..n]
    BY <1>1 DEF GoodIndex
  <2> QED
    BY ONLY <2>1, <2>2
<1>3. <<i1>> = <<j1>> \/ (<<i1>> \notin DOMAIN b /\ <<j1>> \notin DOMAIN b)
  BY <1>2 DEF Alike, n
<1>4. \/ <<i2, i1>> = <<j2, j1>>
      \/ <<i2, i1>> \notin DOMAIN t /\ <<j2, j1>> \notin DOMAIN t
  BY <1>2 DEF Alike, n
<1>5. \A source :
        NextAfter(longer, source, b, <<j1>>, limit) = NextAfter(e, source, b, <<i1>>, limit)
  <2> DEFINE c == <<i1>>
             d == <<j1>>
             width == 1
  <2>1. SameContext(b, c, d) /\ GoodIndex(b, n, width, MaxBigramPredictions)
    BY ONLY <1>1, <1>3 DEF SameContext
  <2> HIDE DEF c, d, width
  <2>2. \A source : SameTold(e, longer, limit, source, b, c, d)
    BY <2>1, ToldAfterAgain DEF n
  <2> QED
    BY <2>2 DEF c, d, SameTold
<1>6. NextAfter(longer, "Trigram", t, <<j2, j1>>, limit)
        = NextAfter(e, "Trigram", t, <<i2, i1>>, limit)
  <2> DEFINE c == <<i2, i1>>
             d == <<j2, j1>>
             width == 2
  <2>1. SameContext(t, c, d) /\ GoodIndex(t, n, width, MaxTrigramPredictions)
    BY ONLY <1>1, <1>4 DEF SameContext
  <2> HIDE DEF c, d, width
  <2>2. SameTold(e, longer, limit, "Trigram", t, c, d)
    BY <2>1, ToldAfterAgain DEF n
  <2> QED
    BY <2>2 DEF c, d, SameTold
<1>7. <<i2, i1>> \in DOMAIN t <=> <<j2, j1>> \in DOMAIN t
  BY ONLY <1>4
<1>8. <<i1>> \in DOMAIN b <=> <<j1>> \in DOMAIN b
  BY ONLY <1>3
<1>9. BackOff(longer, <<j2, j1>>, j1, limit) = BackOff(e, <<i2, i1>>, i1, limit)
  <2>1. CASE <<i2, i1>> \in DOMAIN t
    BY <1>1, <1>6, <1>7, <2>1 DEF BackOff, t
  <2>2. CASE <<i2, i1>> \notin DOMAIN t /\ <<i1>> \in DOMAIN b
    BY <1>1, <1>5, <1>7, <1>8, <2>2 DEF BackOff, t, b
  <2>3. CASE <<i2, i1>> \notin DOMAIN t /\ <<i1>> \notin DOMAIN b
    BY <1>1, <1>5, <1>7, <1>8, <2>3 DEF BackOff, t, b
  <2> QED
    BY <2>1, <2>2, <2>3
<1> QED
  BY <1>1, <1>5, <1>9 DEF b

\* Entries appended to the lexicon change no prediction: the words the predictions
\* know are found where they were, and a word found anew is in no context.
THEOREM AppendLeavesPredictions == Spec => AppendKeepsPredictions
<1> DEFINE Kept ==
      \A entries \in Batches : LoadLexicon(entries) =>
        \A q \in Queries, r \in Queries :
          /\ PredictNext(engine, q, MaxResults) = PredictNext(engine', q, MaxResults)
          /\ PredictNextWithContext(engine, r, q, MaxResults)
               = PredictNextWithContext(engine', r, q, MaxResults)
<1>1. ASSUME Inv, Inv' PROVE Kept
  <2> SUFFICES ASSUME NEW entries \in Batches, LoadLexicon(entries),
                      NEW q \in Queries, NEW r \in Queries
               PROVE  /\ PredictNext(engine, q, MaxResults)
                           = PredictNext(engine', q, MaxResults)
                      /\ PredictNextWithContext(engine, r, q, MaxResults)
                           = PredictNextWithContext(engine', r, q, MaxResults)
    OBVIOUS
  <2>1. CASE engine' = engine
    BY <2>1 DEF PredictNext, PredictNextWithContext
  <2>2. CASE engine' # engine
    <3> DEFINE lexicon == engine.lexicon \o entries
               n == Len(engine.lexicon)
    <3>1. engine' = [engine EXCEPT !.lexicon = lexicon,
                                   !.trie = LexiconTrie(lexicon),
                                   !.index = IndexOf(lexicon)]
      BY <2>2 DEF LoadLexicon
    <3>2. DOMAIN engine = {"lexicon", "trie", "index", "bigrams", "trigrams"}
      BY <1>1 DEF Inv, WellFormed
    <3> HIDE DEF lexicon
    <3>3. /\ engine'.lexicon = lexicon
          /\ engine'.bigrams = engine.bigrams /\ engine'.trigrams = engine.trigrams
      BY <3>1, <3>2
    <3>4. n <= Len(lexicon) /\ \A i \in 1..n : lexicon[i] = engine.lexicon[i]
      BY <1>1, AppendedIs DEF Inv, WellFormed, lexicon
    <3>5. Extends(engine, engine')
      BY <1>1, <3>3, <3>4 DEF Extends, Inv
    <3> DEFINE i1 == FindLexiconIndex(engine, Normalize(q))
               i2 == FindLexiconIndex(engine, Normalize(r))
               j1 == FindLexiconIndex(engine', Normalize(q))
               j2 == FindLexiconIndex(engine', Normalize(r))
    <3>6. Normalize(q) \in Seq(Nat) /\ Normalize(r) \in Seq(Nat)
      BY NormalizeType, BoundsAssumption
    <3>7. Alike(n, i1, j1) /\ Alike(n, i2, j2)
      BY <3>5, <3>6, FoundAgain
    <3> HIDE DEF i1, i2, j1, j2
    <3>8. /\ BackOff(engine', <<j2, j1>>, j1, MaxResults)
               = BackOff(engine, <<i2, i1>>, i1, MaxResults)
          /\ NextAfter(engine', "Bigram", (engine').bigrams, <<j1>>, MaxResults)
               = NextAfter(engine, "Bigram", engine.bigrams, <<i1>>, MaxResults)
      BY <3>5, <3>7, BackOffAgain, BoundsAssumption
    <3> QED
      BY <3>8 DEF PredictNext, PredictNextWithContext, i1, i2, j1, j2
  <2> QED
    BY <2>1, <2>2
<1>2. Inv /\ Inv' /\ [Next]_vars => [Kept]_vars
  BY <1>1
<1> HIDE DEF Kept
<1>3. Spec => [][Kept]_vars
  BY <1>2, InvHolds, PTL DEF Spec
<1> QED
  BY <1>3 DEF AppendKeepsPredictions, Kept

(***************************************************************************)
(* Reading back what was written.                                          *)
(***************************************************************************)
\* The cells s stand in p after position at.
Holds(p, at, s) ==
  /\ at + Len(s) <= Len(p)
  /\ \A j \in 1..Len(s) : p[at + j] = s[j]

\* Of what is joined, each part is in place.
LEMMA HoldsJoined ==
  ASSUME NEW p \in Seq(Nat), NEW at \in Nat, NEW s \in Seq(Nat), NEW t \in Seq(Nat),
         Holds(p, at, s \o t)
  PROVE  Holds(p, at, s) /\ Holds(p, at + Len(s), t)
<1> DEFINE a == Len(s)
           b == Len(t)
           u == s \o t
<1>1. /\ a \in Nat /\ b \in Nat /\ Len(u) = a + b
      /\ \A j \in 1..a : u[j] = s[j]
      /\ \A j \in 1..b : u[a + j] = t[j]
  BY Joined
<1>2. /\ at + (a + b) <= Len(p) /\ Len(p) \in Nat
      /\ \A j \in 1..(a + b) : p[at + j] = u[j]
  BY <1>1 DEF Holds
<1> HIDE DEF a, b, u
<1>3. /\ at + a <= Len(p) /\ (at + a) + b <= Len(p)
      /\ 1..a \subseteq 1..(a + b)
      /\ \A j \in 1..b : a + j \in 1..(a + b) /\ (at + a) + j = at + (a + j)
  BY ONLY <1>1, <1>2, at \in Nat
<1>4. /\ \A j \in 1..a : p[at + j] = s[j]
      /\ \A j \in 1..b : p[(at + a) + j] = t[j]
  BY ONLY <1>1, <1>2, <1>3
<1> QED
  BY ONLY <1>3, <1>4 DEF Holds, a, b

PiecesHeld(f, n, base, piece, p, at) ==
  /\ Holds(p, at, base)
  /\ \A k \in 0..n : Len(f[k]) \in Nat
  /\ \A k \in 1..n : /\ Len(f[k]) = Len(f[k - 1]) + Len(piece[k])
                     /\ Holds(p, at + Len(f[k - 1]), piece[k])

\* Pieces joined one after the other, all in place.
LEMMA HoldsPieces ==
  ASSUME NEW n \in Nat, NEW base \in Seq(Nat), NEW piece \in [1..n -> Seq(Nat)], NEW f,
         f[0] = base, \A k \in 1..n : f[k] = f[k - 1] \o piece[k],
         NEW p \in Seq(Nat), NEW at \in Nat, Holds(p, at, f[n])
  PROVE  PiecesHeld(f, n, base, piece, p, at)
<1>1. /\ \A k \in 0..n : f[k] \in Seq(Nat)
      /\ \A k \in 0..n : Len(f[k]) <= Len(f[n]) /\ Len(base) <= Len(f[k])
      /\ \A k \in 0..n : \A j \in 1..Len(f[k]) : f[n][j] = f[k][j]
      /\ \A k \in 1..n : /\ Len(f[k]) = Len(f[k - 1]) + Len(piece[k])
                         /\ \A j \in 1..Len(piece[k]) :
                              f[n][Len(f[k - 1]) + j] = piece[k][j]
  <2>1. InPlace(f, n, base, piece)
    BY PiecesInPlace
  <2> QED
    BY ONLY <2>1 DEF InPlace
<1>2. \A k \in 0..n : Len(f[k]) \in Nat
  BY ONLY <1>1
<1>3. /\ at + Len(f[n]) <= Len(p) /\ Len(p) \in Nat
      /\ \A j \in 1..Len(f[n]) : p[at + j] = f[n][j]
  BY ONLY p \in Seq(Nat), Holds(p, at, f[n]) DEF Holds
<1>4. n \in 0..n /\ 0 \in 0..n /\ Len(f[n]) \in Nat
  BY ONLY <1>2, n \in Nat
<1>5. Holds(p, at, base)
  <2> DEFINE a == Len(base)
             m == Len(f[n])
  <2>1. a \in Nat /\ a <= m /\ \A j \in 1..a : f[n][j] = base[j]
    BY <1>1, <1>2, <1>4
  <2>2. m \in Nat /\ at + m <= Len(p) /\ Len(p) \in Nat /\ \A j \in 1..m : p[at + j] = f[n][j]
    BY ONLY <1>3, <1>4
  <2> HIDE DEF a, m
  <2>3. at + a <= Len(p) /\ \A j \in 1..a : j \in 1..m
    BY ONLY <2>1, <2>2, at \in Nat
  <2> QED
    BY ONLY <2>1, <2>2, <2>3 DEF Holds, a
<1>6. ASSUME NEW k \in 1..n PROVE Holds(p, at + Len(f[k - 1]), piece[k])
  <2> DEFINE a == Len(f[k - 1])
             b == Len(piece[k])
             m == Len(f[n])
  <2>1. k \in 0..n /\ k - 1 \in 0..n /\ piece[k] \in Seq(Nat)
    OBVIOUS
  <2>2. /\ a \in Nat /\ b \in Nat /\ m \in Nat /\ a + b <= m
        /\ \A j \in 1..b : f[n][a + j] = piece[k][j]
    BY <1>1, <1>2, <1>4, <2>1
  <2>3. at + m <= Len(p) /\ Len(p) \in Nat /\ \A j \in 1..m : p[at + j] = f[n][j]
    BY ONLY <1>3
  <2> HIDE DEF a, b, m
  <2>4. /\ (at + a) + b <= Len(p)
        /\ \A j \in 1..b : a + j \in 1..m /\ (at + a) + j = at + (a + j)
    BY ONLY <2>2, <2>3, at \in Nat
  <2> QED
    BY ONLY <2>2, <2>3, <2>4 DEF Holds, a, b
<1> QED
  BY ONLY <1>1, <1>2, <1>5, <1>6 DEF PiecesHeld

IsReading(r) == r = [at |-> r.at, got |-> r.got, fault |-> r.fault]

\* One item read after the other: an error stays, and without one the next item is read.
ReadsOn(f, n, off, item) ==
  /\ f[0] = Nothing(off[0])
  /\ \A k \in 1..n : f[k - 1].fault # NoFault => f[k] = f[k - 1]
  /\ \A k \in 1..n :
       /\ f[k - 1].fault = NoFault /\ f[k].fault = NoFault
       /\ IsReading(f[k - 1]) /\ f[k - 1].at = off[k - 1]
       => f[k] = Found(f[k - 1], off[k], item[k])

ReadTo(f, n, off, item) == f[n].at = off[n] /\ f[n].got = item

\* What ends without an error has read every item where it stands.
LEMMA ItemsAreRead ==
  ASSUME NEW n \in Nat, NEW X, NEW item \in [1..n -> X], NEW off, NEW f,
         ReadsOn(f, n, off, item), f[n].fault = NoFault
  PROVE  ReadTo(f, n, off, item)
<1>1. \A k \in 0..n : f[k].fault = NoFault
  <2> DEFINE T == {i \in Nat : i <= n => f[n - i].fault = NoFault}
  <2>1. 0 \in T
    BY n - 0 = n
  <2>2. ASSUME NEW i \in T \cap Nat PROVE i + 1 \in T
    <3> SUFFICES ASSUME i + 1 <= n PROVE f[n - (i + 1)].fault = NoFault
      BY i + 1 \in Nat
    <3> DEFINE k == n - i
    <3>1. k \in 1..n /\ n - (i + 1) = k - 1 /\ i <= n /\ i \in T
      OBVIOUS
    <3>2. f[k].fault = NoFault
      BY <3>1
    <3>3. f[k - 1].fault # NoFault => f[k] = f[k - 1]
      <4> HIDE DEF k
      <4> QED BY <3>1 DEF ReadsOn
    <3> HIDE DEF k, T
    <3>4. f[k - 1].fault = NoFault
      BY ONLY <3>2, <3>3
    <3> QED
      BY ONLY <3>1, <3>4
  <2>3. Nat \subseteq T
    <3> HIDE DEF T
    <3> QED BY <2>1, <2>2, Induction
  <2>4. ASSUME NEW k \in 0..n PROVE f[k].fault = NoFault
    <3>1. n - k \in Nat /\ n - (n - k) = k /\ n - k <= n
      OBVIOUS
    <3> DEFINE i == n - k
    <3>2. i \in T
      BY <2>3, <3>1
    <3>3. f[n - i].fault = NoFault
      BY <3>1, <3>2
    <3> QED
      BY <3>1, <3>3
  <2> QED
    BY <2>4
<1> DEFINE Right(k) ==
      /\ IsReading(f[k]) /\ f[k].at = off[k]
      /\ f[k].got \in Seq(X) /\ Len(f[k].got) = k
      /\ \A j \in 1..k : f[k].got[j] = item[j]
<1>2. Right(0)
  <2>1. f[0] = [at |-> off[0], got |-> <<>>, fault |-> NoFault]
    BY DEF ReadsOn, Nothing
  <2>2. <<>> \in Seq(X) /\ Len(<<>>) = 0
    OBVIOUS
  <2>3. f[0].at = off[0] /\ f[0].got = <<>> /\ f[0].fault = NoFault
    BY ONLY <2>1
  <2> QED
    BY ONLY <2>1, <2>2, <2>3 DEF IsReading
<1>3. ASSUME NEW k \in 0..n, k + 1 <= n, Right(k) PROVE Right(k + 1)
  <2> DEFINE l == k + 1
             x == item[l]
             g == f[k].got
  <2>1. l \in 1..n /\ l - 1 = k /\ l \in 0..n
    BY <1>3
  <2>2. f[l] = Found(f[k], off[l], x)
    <3> HIDE DEF l, x
    <3> QED BY ONLY <1>1, <1>3, <2>1, k \in 0..n, ReadsOn(f, n, off, item) DEF ReadsOn, x
  <2>3. f[l] = [at |-> off[l], got |-> Append(g, x), fault |-> NoFault]
    BY ONLY <2>2 DEF Found
  <2>4. x \in X
    <3> HIDE DEF l
    <3> QED BY ONLY <2>1, item \in [1..n -> X]
  <2>5. g \in Seq(X) /\ Len(g) = k
    BY <1>3
  <2> HIDE DEF g, x, l
  <2>6. /\ Append(g, x) \in Seq(X) /\ Len(Append(g, x)) = k + 1
        /\ Append(g, x)[k + 1] = x /\ \A j \in 1..k : Append(g, x)[j] = g[j]
    BY ONLY <2>4, <2>5
  <2>7. /\ f[l].at = off[l] /\ f[l].got = Append(g, x) /\ f[l].fault = NoFault
        /\ IsReading(f[l])
    BY ONLY <2>3 DEF IsReading
  <2>8. \A j \in 1..l : j \in 1..k \/ j = k + 1
    BY ONLY <2>1, k \in 0..n, n \in Nat
  <2>9. \A j \in 1..k : g[j] = item[j]
    BY <1>3 DEF g
  <2>10. \A j \in 1..l : f[l].got[j] = item[j]
    BY ONLY <2>6, <2>7, <2>8, <2>9 DEF x, l
  <2> QED
    BY ONLY <2>6, <2>7, <2>10 DEF l
<1>4. Right(n)
  <2> DEFINE T == {i \in Nat : i <= n => Right(i)}
  <2> HIDE DEF Right
  <2>1. 0 \in T
    BY <1>2
  <2>2. \A i \in T \cap Nat : i + 1 \in T
    <3> SUFFICES ASSUME NEW i \in Nat, i \in T, i + 1 <= n PROVE Right(i + 1)
      OBVIOUS
    <3>1. i \in 0..n /\ i <= n
      OBVIOUS
    <3>2. Right(i)
      BY <3>1
    <3> QED
      BY ONLY <1>3, <3>1, <3>2, i + 1 <= n
  <2>3. Nat \subseteq T
    <3> HIDE DEF T
    <3> QED BY <2>1, <2>2, Induction
  <2> QED
    BY <2>3
<1>5. f[n].got = item
  <2> DEFINE g == f[n].got
  <2>1. g \in Seq(X) /\ Len(g) = n /\ \A j \in 1..n : g[j] = item[j]
    BY <1>4
  <2>2. item = [j \in 1..n |-> item[j]]
    OBVIOUS
  <2> HIDE DEF g
  <2>3. g = [j \in 1..n |-> g[j]]
    BY ONLY <2>1
  <2> QED
    BY ONLY <2>1, <2>2, <2>3 DEF g
<1> QED
  BY <1>4, <1>5 DEF ReadTo

LEMMA FaultIs ==
  ASSUME NEW r, IsReading(r), NEW fault
  PROVE  Failed(r, fault).fault = fault
<1> DEFINE a == r.at
           g == r.got
           e == r.fault
<1>1. r = [at |-> a, got |-> g, fault |-> e]
  BY DEF IsReading
<1> HIDE DEF a, g, e
<1> QED
  BY ONLY <1>1 DEF Failed

\* The entry whose cells begin after position at.
EntryAt(p, at) ==
  [word       |-> Spelling[p[at + 1]],
   normalized |-> Spelling[p[at + 2]],
   sources    |-> SubSeq(p, at + 4, at + 3 + p[at + 3]),
   zipf       |-> p[at + 3 + p[at + 3] + 1]]

\* The cells written for an entry are read as an entry with its word and its form.
LEMMA EntryReadBack ==
  ASSUME NEW p \in Seq(Nat), NEW e, EntryGiven(e), NEW withFrequencies,
         NEW r, IsReading(r), r.at \in Nat,
         NEW cells, cells = EntryCells(e, withFrequencies), Holds(p, r.at, cells)
  PROVE  /\ ReadEntry(p, r).fault = NoFault
              => ReadEntry(p, r) = Found(r, r.at + Len(cells), EntryAt(p, r.at))
         /\ EntryAt(p, r.at).word = e.word /\ EntryAt(p, r.at).normalized = e.normalized
<1> DEFINE at == r.at
           m == Len(SourcesOf(e))
           zipf == IF withFrequencies THEN e.zipf ELSE 0
           sources == SourcesOf(e)
           head == <<Cell(e.word), Cell(e.normalized), Len(sources)>>
<1>1. /\ sources \in Seq(Nat) /\ zipf \in Nat
      /\ cells = head \o sources \o <<zipf>>
      /\ Len(cells) = m + 4 /\ m \in Nat
  <2>1. /\ sources \in Seq(Nat) /\ zipf \in Nat
        /\ cells = head \o sources \o <<zipf>>
        /\ Len(cells) = m + 4
    BY EntryCellsIs
  <2>2. m \in Nat
    <3> HIDE DEF sources
    <3>1. Len(sources) \in Nat
      BY ONLY <2>1
    <3> QED
      BY ONLY <3>1 DEF sources
  <2> QED
    BY ONLY <2>1, <2>2
<1>2. /\ Cell(e.word) \in Nat /\ Spelling[Cell(e.word)] = e.word
      /\ Cell(e.normalized) \in Nat /\ Spelling[Cell(e.normalized)] = e.normalized
  BY CellIs DEF EntryGiven, EntryType
<1>3. cells[1] = Cell(e.word) /\ cells[2] = Cell(e.normalized) /\ cells[3] = m
  <2>1. head \in Seq(Nat) /\ Len(head) = 3
    BY <1>1, <1>2
  <2> HIDE DEF sources, zipf
  <2> DEFINE u == Cell(e.word)
             v == Cell(e.normalized)
             l == Len(sources)
  <2>2. u \in Nat /\ v \in Nat /\ l \in Nat
    BY <1>1, <1>2
  <2>3. cells = <<u, v, l>> \o sources \o <<zipf>>
    BY <1>1
  <2> HIDE DEF u, v, l
  <2>4. cells[1] = u /\ cells[2] = v /\ cells[3] = l
    BY ONLY <1>1, <2>2, <2>3
  <2> QED
    BY ONLY <2>4 DEF u, v, l, sources
<1>4. p[at + 1] = Cell(e.word) /\ p[at + 2] = Cell(e.normalized) /\ p[at + 3] = m
  <2>1. \A j \in 1..(m + 4) : p[at + j] = cells[j]
    BY <1>1 DEF Holds
  <2>2. 1 \in 1..(m + 4) /\ 2 \in 1..(m + 4) /\ 3 \in 1..(m + 4)
    BY ONLY <1>1
  <2> QED
    BY ONLY <1>3, <2>1, <2>2
<1> DEFINE after == at + 3 + p[at + 3]
           unspelled == \E k \in {at + 1, at + 2} : k <= Len(p) /\ p[k] \notin DOMAIN Spelling
           short == Len(p) < at + 3 \/ Len(p) <= after
           long == TextOf(Append(r.got, EntryAt(p, at))) > TextLimit
<1>5. ReadEntry(p, r)
        = IF unspelled THEN Failed(r, "InvalidPayload")
          ELSE IF short THEN Failed(r, "TruncatedPayload")
          ELSE IF long THEN Failed(r, "InvalidPayload")
          ELSE Found(r, after + 1, EntryAt(p, at))
  BY DEF ReadEntry, EntryAt
<1>6. /\ Failed(r, "InvalidPayload").fault = "InvalidPayload"
      /\ Failed(r, "TruncatedPayload").fault = "TruncatedPayload"
  BY FaultIs
<1> HIDE DEF unspelled, short, long
<1>7. ReadEntry(p, r).fault = NoFault => ReadEntry(p, r) = Found(r, after + 1, EntryAt(p, at))
  BY ONLY <1>5, <1>6 DEF NoFault
<1>8. after + 1 = at + Len(cells)
  <2>1. at \in Nat
    OBVIOUS
  <2> HIDE DEF at
  <2> QED
    BY ONLY <1>1, <1>4, <2>1
<1>9. EntryAt(p, at).word = e.word /\ EntryAt(p, at).normalized = e.normalized
  BY ONLY <1>2, <1>4 DEF EntryAt
<1> QED
  BY ONLY <1>7, <1>8, <1>9

PredictionAt(entries, x) ==
  [next |-> LexiconIndex(entries, x.next) + 1, count |-> x.count, probability |-> x.probability]

\* The cells of a prediction are read as that prediction.
LEMMA PredictionReadBack ==
  ASSUME NEW p \in Seq(Nat), NEW n, NEW entries, NEW x, NEW r, IsReading(r), r.at \in Nat,
         Holds(p, r.at, PredictionPiece(entries, x)),
         ReadPrediction(p, n, r).fault = NoFault
  PROVE  ReadPrediction(p, n, r) = Found(r, r.at + 3, PredictionAt(entries, x))
<1> DEFINE at == r.at
           next == p[at + 1]
           count == p[at + 2]
           probability == p[at + 3]
           short == Len(p) < at + PredictionCells
           bad == \/ next >= n
                  \/ \E k \in DOMAIN r.got : r.got[k].next = next + 1
                  \/ count = 0
                  \/ probability > ProbabilityScale
           y == [next |-> next + 1, count |-> count, probability |-> probability]
<1>1. ReadPrediction(p, n, r)
        = IF short THEN Failed(r, "TruncatedPayload")
          ELSE IF bad THEN Failed(r, "InvalidPayload")
          ELSE Found(r, at + PredictionCells, y)
  BY DEF ReadPrediction
<1>2. /\ Failed(r, "InvalidPayload").fault = "InvalidPayload"
      /\ Failed(r, "TruncatedPayload").fault = "TruncatedPayload"
  BY FaultIs
<1>3. y = PredictionAt(entries, x)
  <2> DEFINE s == PredictionPiece(entries, x)
  <2>1. s = <<LexiconIndex(entries, x.next), x.count, x.probability>>
    BY DEF PredictionPiece
  <2>2. Len(s) = 3 /\ s[1] = LexiconIndex(entries, x.next) /\ s[2] = x.count /\ s[3] = x.probability
    BY ONLY <2>1
  <2>3. \A j \in 1..3 : p[at + j] = s[j]
    BY <2>2 DEF Holds
  <2>4. next = LexiconIndex(entries, x.next) /\ count = x.count /\ probability = x.probability
    BY ONLY <2>2, <2>3
  <2> QED
    BY ONLY <2>4 DEF PredictionAt
<1> HIDE DEF short, bad, y
<1>4. ReadPrediction(p, n, r) = Found(r, at + PredictionCells, y)
  BY ONLY <1>1, <1>2, ReadPrediction(p, n, r).fault = NoFault DEF NoFault
<1> QED
  BY ONLY <1>3, <1>4 DEF PredictionCells

\* A list of predictions that can be written.
Writable(entries, group) ==
  /\ Len(group) \in Nat
  /\ \A k \in 1..Len(group) : /\ LexiconIndex(entries, group[k].next) \in Nat
                             /\ group[k].count \in Nat /\ group[k].probability \in Nat

PredictionsIn(entries, group) == [k \in 1..Len(group) |-> PredictionAt(entries, group[k])]

\* The cells of a group begin with the number of its predictions.
LEMMA GroupCountBack ==
  ASSUME NEW p \in Seq(Nat), NEW entries, NEW group, Writable(entries, group),
         NEW at \in Nat, Holds(p, at, GroupCells(entries, group))
  PROVE  p[at + 1] = Len(group)
<1> DEFINE m == Len(group)
           base == <<m>>
           piece == [k \in 1..m |-> PredictionPiece(entries, group[k])]
<1>1. m \in Nat
  BY DEF Writable
<1>2. PICK f : GroupPieces(f, entries, group) /\ GroupCells(entries, group) = f[Len(group)]
  <2>1. /\ Len(group) \in Nat
        /\ \A k \in 1..Len(group) : /\ LexiconIndex(entries, group[k].next) \in Nat
                                   /\ group[k].count \in Nat /\ group[k].probability \in Nat
    BY DEF Writable
  <2> QED
    BY ONLY <2>1, GroupCellsAre
<1>3. base \in Seq(Nat) /\ piece \in [1..m -> Seq(Nat)] /\ Len(base) = 1 /\ base[1] = m
  <2>1. \A k \in 1..m : PredictionPiece(entries, group[k]) \in Seq(Nat)
    BY DEF Writable, PredictionPiece
  <2> HIDE DEF m
  <2>2. base \in Seq(Nat) /\ Len(base) = 1 /\ base[1] = m
    BY ONLY <1>1
  <2> QED
    BY ONLY <2>1, <2>2
<1>4. Holds(p, at, base)
  <2>1. f[0] = base /\ \A k \in 1..m : f[k] = f[k - 1] \o piece[k]
    BY <1>2 DEF GroupPieces
  <2>2. Holds(p, at, f[m])
    BY ONLY <1>2, Holds(p, at, GroupCells(entries, group))
  <2> HIDE DEF m, base, piece
  <2>3. PiecesHeld(f, m, base, piece, p, at)
    BY ONLY <1>1, <1>3, <2>1, <2>2, p \in Seq(Nat), at \in Nat, HoldsPieces
  <2> QED
    BY ONLY <2>3 DEF PiecesHeld
<1>5. 1 \in 1..1
  OBVIOUS
<1> HIDE DEF base, m
<1>6. p[at + 1] = m
  BY ONLY <1>3, <1>4, <1>5 DEF Holds
<1> QED
  BY ONLY <1>6 DEF m

\* The cells of a group are read as its predictions, and all of them.
LEMMA GroupReadBack ==
  ASSUME NEW p \in Seq(Nat), NEW n \in Nat, NEW entries, NEW group, Writable(entries, group),
         NEW at \in Nat, Holds(p, at, GroupCells(entries, group)),
         NEW s, s = PredictionsOf(p, n, Len(group), at + 1), s.fault = NoFault
  PROVE  /\ s.at = at + Len(GroupCells(entries, group))
         /\ s.got = PredictionsIn(entries, group)
<1> DEFINE m == Len(group)
           base == <<m>>
           piece == [k \in 1..m |-> PredictionPiece(entries, group[k])]
           item == PredictionsIn(entries, group)
           X == {item[k] : k \in 1..m}
<1>1. m \in Nat
  BY DEF Writable
<1>2. PICK f : GroupPieces(f, entries, group) /\ GroupCells(entries, group) = f[Len(group)]
  <2>1. /\ Len(group) \in Nat
        /\ \A k \in 1..Len(group) : /\ LexiconIndex(entries, group[k].next) \in Nat
                                   /\ group[k].count \in Nat /\ group[k].probability \in Nat
    BY DEF Writable
  <2> QED
    BY ONLY <2>1, GroupCellsAre
<1>a. f[0] = base /\ GroupCells(entries, group) = f[m]
  BY ONLY <1>2 DEF GroupPieces
<1>3. base \in Seq(Nat) /\ piece \in [1..m -> Seq(Nat)] /\ Len(base) = 1 /\ base[1] = m
  <2>1. \A k \in 1..m : PredictionPiece(entries, group[k]) \in Seq(Nat)
    BY DEF Writable, PredictionPiece
  <2> HIDE DEF m
  <2>2. base \in Seq(Nat) /\ Len(base) = 1 /\ base[1] = m
    BY ONLY <1>1
  <2> QED
    BY ONLY <2>1, <2>2
<1>4. /\ Holds(p, at, base)
      /\ \A k \in 0..m : Len(f[k]) \in Nat
      /\ \A k \in 1..m : /\ Len(f[k]) = Len(f[k - 1]) + Len(piece[k])
                         /\ Holds(p, at + Len(f[k - 1]), piece[k])
  <2>1. f[0] = base /\ \A k \in 1..m : f[k] = f[k - 1] \o piece[k]
    BY <1>2 DEF GroupPieces
  <2>2. Holds(p, at, f[m])
    <3> HIDE DEF m
    <3> QED BY ONLY <1>a, Holds(p, at, GroupCells(entries, group))
  <2> HIDE DEF m, base, piece
  <2> QED
    <3>1. PiecesHeld(f, m, base, piece, p, at)
      BY ONLY <1>1, <1>3, <2>1, <2>2, p \in Seq(Nat), at \in Nat, HoldsPieces
    <3> QED
      BY ONLY <3>1 DEF PiecesHeld
<1> DEFINE start == at + 1
<1>6. PICK g : PredictionSteps(g, p, n, m, start) /\ s = g[m]
  <2>1. start \in Nat /\ s = PredictionsOf(p, n, m, start)
    OBVIOUS
  <2> HIDE DEF m
  <2> HIDE DEF start
  <2> QED
    <3>1. PredictionsStepwise(s, p, n, m, start)
      BY ONLY <1>1, <2>1, p \in Seq(Nat), n \in Nat, PredictionsAreRead
    <3> QED
      BY ONLY <3>1 DEF PredictionsStepwise
<1> DEFINE off == [k \in 0..m |-> at + Len(f[k])]
<1>7. ReadsOn(g, m, off, item)
  <2>1. g[0] = Nothing(off[0])
    <3>1. off[0] = at + Len(f[0]) /\ Len(f[0]) = 1
      <4>1. 0 \in 0..m /\ off[0] = at + Len(f[0])
        BY ONLY <1>1
      <4> HIDE DEF off, base
      <4> QED
        BY ONLY <1>3, <1>a, <4>1
    <3> QED
      BY <1>6, <3>1 DEF PredictionSteps
  <2>2. ASSUME NEW k \in 1..m
        PROVE  g[k] = IF g[k - 1].fault = NoFault THEN ReadPrediction(p, n, g[k - 1]) ELSE g[k - 1]
    BY <1>6 DEF PredictionSteps
  <2>3. ASSUME NEW k \in 1..m, g[k - 1].fault = NoFault, g[k].fault = NoFault,
               IsReading(g[k - 1]), g[k - 1].at = off[k - 1]
        PROVE  g[k] = Found(g[k - 1], off[k], item[k])
    <3> DEFINE r == g[k - 1]
               x == group[k]
               a == Len(f[k - 1])
    <3>1. k - 1 \in 0..m /\ k \in 0..m
      BY <1>1
    <3>2. r.at = at + a /\ a \in Nat /\ off[k] = at + Len(f[k])
      BY <1>4, <2>3, <3>1
    <3>3. ReadPrediction(p, n, r) = g[k] /\ ReadPrediction(p, n, r).fault = NoFault
      BY <2>2, <2>3
    <3>4. piece[k] = PredictionPiece(entries, x) /\ Len(piece[k]) = 3
      BY DEF PredictionPiece
    <3>5. Holds(p, r.at, PredictionPiece(entries, x)) /\ Len(f[k]) = a + 3
      <4>1. Holds(p, at + a, piece[k]) /\ Len(f[k]) = a + Len(piece[k])
        BY ONLY <1>4, k \in 1..m
      <4> HIDE DEF r, x, piece, a
      <4> QED
        BY ONLY <3>2, <3>4, <4>1
    <3>6. item[k] = PredictionAt(entries, x)
      BY DEF PredictionsIn
    <3>7. r.at \in Nat /\ r.at + 3 = off[k]
      <4> HIDE DEF r, a, off
      <4> QED BY ONLY <3>2, <3>5, at \in Nat
    <3>8. IsReading(r)
      BY <2>3
    <3> HIDE DEF r, x, off, item
    <3>9. ReadPrediction(p, n, r) = Found(r, r.at + 3, PredictionAt(entries, x))
      BY ONLY <3>3, <3>5, <3>7, <3>8, p \in Seq(Nat), PredictionReadBack
    <3> QED
      BY ONLY <3>3, <3>6, <3>7, <3>9 DEF r
  <2>4. \A k \in 1..m : g[k - 1].fault # NoFault => g[k] = g[k - 1]
    BY <2>2
  <2> HIDE DEF off, item, m
  <2> QED
    BY ONLY <2>1, <2>3, <2>4 DEF ReadsOn
<1>8. item \in [1..m -> X]
  BY DEF PredictionsIn
<1>9. g[m].at = off[m] /\ g[m].got = item
  <2>1. g[m].fault = NoFault
    BY <1>6
  <2> HIDE DEF off, item, m, X
  <2> QED
    <3>1. ReadTo(g, m, off, item)
      BY ONLY <1>1, <1>7, <1>8, <2>1, ItemsAreRead
    <3> QED
      BY ONLY <3>1 DEF ReadTo
<1>10. off[m] = at + Len(GroupCells(entries, group))
  <2>1. m \in 0..m /\ off[m] = at + Len(f[m])
    BY ONLY <1>1
  <2> HIDE DEF off
  <2> QED
    BY ONLY <1>a, <2>1
<1> QED
  BY <1>6, <1>9, <1>10

Shifted(c) == [i \in DOMAIN c |-> c[i] + 1]

ContextIn(entries, records, c) ==
  [context |-> Shifted(c), predictions |-> PredictionsIn(entries, Group(entries, records, c))]

\* A context written where the reading has come to.
WrittenContext(p, entries, records, width, c, r) ==
  /\ c \in Seq(Nat) /\ Len(c) = width /\ Writable(entries, Group(entries, records, c))
  /\ IsReading(r) /\ r.at \in Nat /\ Holds(p, r.at, ContextCells(entries, records, c))

\* The cells of a context are read as that context with its group.
LEMMA ContextReadBack ==
  ASSUME NEW p \in Seq(Nat), NEW n \in Nat, NEW entries, NEW records, NEW width \in Nat,
         NEW maximum, NEW c, NEW r, WrittenContext(p, entries, records, width, c, r),
         ReadContext(p, n, width, maximum, r).fault = NoFault
  PROVE  ReadContext(p, n, width, maximum, r)
           = Found(r, r.at + Len(ContextCells(entries, records, c)), ContextIn(entries, records, c))
<1> DEFINE written == ContextCells(entries, records, c)
           s == ReadContext(p, n, width, maximum, r)
           at == r.at
           group == Group(entries, records, c)
           listed == GroupCells(entries, group)
           cells == SubSeq(p, at + 1, at + width)
           context == [i \in DOMAIN cells |-> cells[i] + 1]
           count == p[at + width + 1]
           short == Len(p) < at + width + 1
           bad == \/ \E i \in DOMAIN cells : cells[i] >= n
                  \/ \E k \in DOMAIN r.got : r.got[k].context = context
                  \/ count = 0
                  \/ count > maximum
           start == at + width + 1
           predictions == PredictionsOf(p, n, count, start)
<1>a. /\ c \in Seq(Nat) /\ Len(c) = width /\ Writable(entries, Group(entries, records, c))
      /\ IsReading(r) /\ r.at \in Nat /\ Holds(p, r.at, written) /\ s.fault = NoFault
  BY DEF WrittenContext
<1>1. s = IF short THEN Failed(r, "TruncatedPayload")
          ELSE IF bad THEN Failed(r, "InvalidPayload")
          ELSE IF predictions.fault # NoFault THEN Failed(r, predictions.fault)
          ELSE Found(r, predictions.at, [context |-> context, predictions |-> predictions.got])
  BY DEF ReadContext, PredictionsOf
<1>2. \A fault : Failed(r, fault).fault = fault
  BY ONLY <1>a, FaultIs
<1>b. Writable(entries, group)
  BY <1>a
<1>3. /\ predictions.fault = NoFault
      /\ s = Found(r, predictions.at, [context |-> context, predictions |-> predictions.got])
  <2>1. s.fault = NoFault
    BY ONLY <1>a
  <2> HIDE DEF s, short, bad, predictions, context
  <2> QED
    BY ONLY <1>1, <1>2, <2>1 DEF NoFault
<1>4. listed \in Seq(Nat) /\ written = c \o listed
  <2>1. /\ Len(group) \in Nat
        /\ \A k \in 1..Len(group) : /\ LexiconIndex(entries, group[k].next) \in Nat
                                   /\ group[k].count \in Nat /\ group[k].probability \in Nat
    BY ONLY <1>b DEF Writable
  <2>2. listed \in Seq(Nat)
    <3> HIDE DEF group
    <3> QED BY ONLY <2>1, GroupCellsAre
  <2> QED
    BY <2>2 DEF ContextCells
<1>5. at \in Nat
  BY <1>a
<1>6. /\ Holds(p, at, c) /\ Holds(p, at + width, listed)
      /\ Len(written) = width + Len(listed) /\ Len(listed) \in Nat
  <2>1. Holds(p, at, c \o listed)
    BY ONLY <1>4, <1>a
  <2> HIDE DEF listed, at
  <2>2. Holds(p, at, c) /\ Holds(p, at + Len(c), listed)
    BY ONLY <1>4, <1>5, <2>1, <1>a, p \in Seq(Nat), HoldsJoined
  <2>3. Len(written) = Len(c) + Len(listed) /\ Len(listed) \in Nat
    BY ONLY <1>4, <1>a, Joined
  <2> QED
    BY ONLY <2>2, <2>3, <1>a
<1>7. context = Shifted(c)
  <2>1. /\ at + width <= Len(p)
        /\ \A i \in 1..width : p[at + i] = c[i]
    <3>1. Holds(p, at, c) /\ Len(c) = width
      BY ONLY <1>6, <1>a
    <3> HIDE DEF at
    <3> QED BY ONLY <3>1 DEF Holds
  <2>2. DOMAIN cells = 1..width /\ \A i \in 1..width : cells[i] = p[at + i]
    <3>1. cells = SubSeq(p, at + 1, at + width)
      OBVIOUS
    <3>2. at + width <= Len(p)
      BY ONLY <2>1
    <3> HIDE DEF at, cells
    <3> QED BY ONLY <1>5, <3>1, <3>2, p \in Seq(Nat), width \in Nat, CellsRead
  <2>3. DOMAIN c = 1..width
    <3>1. c \in Seq(Nat) /\ Len(c) = width
      BY ONLY <1>a
    <3> QED
      BY ONLY <3>1
  <2> HIDE DEF cells
  <2> QED
    BY ONLY <2>1, <2>2, <2>3 DEF Shifted
<1>8. /\ count = Len(group) /\ predictions.at = (at + width) + Len(listed)
      /\ predictions.got = PredictionsIn(entries, group)
  <2> DEFINE here == at + width
             m == Len(group)
             found == PredictionsOf(p, n, m, here + 1)
  <2>1. here \in Nat
    BY ONLY <1>5, width \in Nat
  <2>2. Holds(p, here, GroupCells(entries, group))
    BY ONLY <1>6
  <2>3. count = m
    <3>1. p[here + 1] = Len(group)
      <4> HIDE DEF here, group
      <4> QED BY ONLY <1>b, <2>1, <2>2, p \in Seq(Nat), GroupCountBack
    <3> QED
      BY ONLY <3>1
  <2>4. predictions = found
    BY <2>3
  <2>5. found.fault = NoFault
    BY ONLY <1>3, <2>4
  <2> HIDE DEF here, found, group, predictions, m, count
  <2>6. found.at = here + Len(GroupCells(entries, group)) /\ found.got = PredictionsIn(entries, group)
    BY ONLY <1>b, <2>1, <2>2, <2>5, p \in Seq(Nat), n \in Nat, GroupReadBack DEF found, m
  <2> QED
    BY ONLY <2>3, <2>4, <2>6 DEF m, here
<1>9. predictions.at = at + Len(written)
  <2> HIDE DEF predictions, listed, at
  <2> QED
    BY ONLY <1>5, <1>6, <1>8, width \in Nat
<1> HIDE DEF predictions, context
<1> QED
  BY ONLY <1>3, <1>7, <1>8, <1>9 DEF ContextIn

\* The group of a listed context can be written.
LEMMA GroupIsWritable ==
  ASSUME NEW entries, AsList(entries), NEW width \in Nat, NEW records, GoodRecords(records, width),
         RecordsAccepted(records), NEW c \in ListedContexts(entries, records)
  PROVE  /\ Writable(entries, Group(entries, records, c))
         /\ c \in Seq(Nat) /\ Len(c) = width /\ DOMAIN c = 1..width
         /\ ContextCells(entries, records, c) \in Seq(Nat)
<1> DEFINE group == Group(entries, records, c)
           S == GroupSet(entries, records, c)
<1>1. c \in Seq(Nat) /\ Len(c) = width /\ \A i \in DOMAIN c : c[i] # Unlisted
  BY ContextsAre
<1>2. group \in Seq(S)
  BY <1>1, GroupIs
<1>3. ASSUME NEW x \in S
      PROVE  /\ LexiconIndex(entries, x.next) \in Nat
             /\ x.count \in Nat /\ x.probability \in Nat
  <2>1. /\ LexiconIndex(entries, x.next) # Unlisted
        /\ \E r \in DOMAIN records : x = records[r]
    BY DEF GroupSet
  <2>2. LexiconIndex(entries, x.next) \in Nat
    BY <2>1, LexiconIndexIs, ListIs
  <2>3. x \in Range(records)
    BY <2>1, ListIs DEF GoodRecords
  <2> QED
    BY <2>2, <2>3 DEF GoodRecords, RecordType
<1>4. Writable(entries, group)
  <2> HIDE DEF group, S
  <2>1. Len(group) \in Nat /\ \A k \in 1..Len(group) : group[k] \in S
    BY <1>2
  <2> QED
    BY <1>3, <2>1 DEF Writable
<1>5. ContextCells(entries, records, c) \in Seq(Nat)
  BY ContextCellsAre
<1>6. DOMAIN c = 1..width
  BY ONLY <1>1
<1> QED
  BY <1>1, <1>4, <1>5, <1>6

ContextsIn(entries, records, order) ==
  [k \in 1..Len(order) |-> ContextIn(entries, records, order[k])]

\* How the contexts of a section lie in a payload.
SectionPieces(f, m, entries, records, order, p, at) ==
  /\ Len(f[0]) = 1
  /\ \A k \in 0..m : Len(f[k]) \in Nat
  /\ \A k \in 1..m :
       LET cells == ContextCells(entries, records, order[k])
       IN  /\ Len(f[k]) = Len(f[k - 1]) + Len(cells)
           /\ Holds(p, at + Len(f[k - 1]), cells)
  /\ Len(f[m]) = Len(SectionCells(entries, records))

\* The cells of a section begin with the number of its contexts.
LEMMA SectionCountBack ==
  ASSUME NEW p \in Seq(Nat), NEW entries, AsList(entries), NEW width \in Nat,
         NEW records, GoodRecords(records, width), RecordsAccepted(records),
         NEW order, order = ContextOrder(entries, records),
         NEW at \in Nat, Holds(p, at, SectionCells(entries, records)), NEW m, m = Len(order)
  PROVE  /\ m \in Nat /\ p[at + 1] = m
         /\ \A k \in 1..m : order[k] \in ListedContexts(entries, records)
         /\ \E f : SectionPieces(f, m, entries, records, order, p, at)
<1> DEFINE C == ListedContexts(entries, records)
           base == <<m>>
           piece == [k \in 1..m |-> ContextCells(entries, records, order[k])]
<1>1. order \in Seq(C)
  BY ContextsAre
<1>2. m \in Nat /\ \A k \in 1..m : order[k] \in C
  <2> HIDE DEF C
  <2>1. Len(order) \in Nat /\ \A k \in 1..Len(order) : order[k] \in C
    BY ONLY <1>1
  <2> QED
    BY ONLY <2>1, m = Len(order)
<1>3. \A k \in 1..m : ContextCells(entries, records, order[k]) \in Seq(Nat)
  BY <1>2, ContextCellsAre
<1>4. SectionCells(entries, records) = ContextsCells(entries, records, order)
  BY WordsAreRanked DEF SectionCells, ContextOrder
<1>5. PICK f : ContextPieces(f, entries, records, order)
              /\ ContextsCells(entries, records, order) = f[Len(order)]
  <2>1. Len(order) \in Nat
        /\ \A k \in 1..Len(order) : ContextCells(entries, records, order[k]) \in Seq(Nat)
    BY ONLY <1>2, <1>3, m = Len(order)
  <2> QED
    BY ONLY <2>1, ContextsCellsAre
<1>6. /\ f[0] = base /\ \A k \in 1..m : f[k] = f[k - 1] \o piece[k]
      /\ f[m] = SectionCells(entries, records)
  BY ONLY <1>4, <1>5, m = Len(order) DEF ContextPieces
<1>7. base \in Seq(Nat) /\ piece \in [1..m -> Seq(Nat)] /\ Len(base) = 1 /\ base[1] = m
  <2>1. base \in Seq(Nat) /\ Len(base) = 1 /\ base[1] = m
    BY ONLY <1>2
  <2> QED
    BY ONLY <1>3, <2>1
<1>8. PiecesHeld(f, m, base, piece, p, at)
  <2>1. Holds(p, at, f[m])
    BY ONLY <1>6, Holds(p, at, SectionCells(entries, records))
  <2> HIDE DEF base, piece
  <2> QED
    BY ONLY <1>2, <1>6, <1>7, <2>1, p \in Seq(Nat), at \in Nat, HoldsPieces
<1>9. p[at + 1] = m
  <2>1. Holds(p, at, base)
    BY ONLY <1>8 DEF PiecesHeld
  <2>2. 1 \in 1..1
    OBVIOUS
  <2> HIDE DEF base
  <2> QED
    BY ONLY <1>7, <2>1, <2>2 DEF Holds
<1>10. /\ Len(f[0]) = 1
       /\ \A k \in 0..m : Len(f[k]) \in Nat
       /\ \A k \in 1..m : /\ Len(f[k]) = Len(f[k - 1]) + Len(piece[k])
                          /\ Holds(p, at + Len(f[k - 1]), piece[k])
       /\ Len(f[m]) = Len(SectionCells(entries, records))
  <2> HIDE DEF base, piece
  <2> QED
    BY ONLY <1>6, <1>7, <1>8 DEF PiecesHeld
<1>11. \A k \in 1..m : piece[k] = ContextCells(entries, records, order[k])
  OBVIOUS
<1> HIDE DEF piece, base, C
<1>12. \A k \in 1..m :
         LET cells == ContextCells(entries, records, order[k])
         IN  /\ Len(f[k]) = Len(f[k - 1]) + Len(cells)
             /\ Holds(p, at + Len(f[k - 1]), cells)
  BY ONLY <1>10, <1>11
<1>13. SectionPieces(f, m, entries, records, order, p, at)
  BY ONLY <1>10, <1>12 DEF SectionPieces
<1> QED
  BY ONLY <1>2, <1>9, <1>13 DEF C

\* The cells of a section are read as its contexts.
LEMMA SectionReadBack ==
  ASSUME NEW p \in Seq(Nat), NEW n \in Nat, NEW entries, AsList(entries), NEW width \in Nat,
         NEW records, GoodRecords(records, width), RecordsAccepted(records),
         NEW possible, NEW maximum \in Nat,
         NEW order, order = ContextOrder(entries, records),
         NEW at \in Nat, Holds(p, at, SectionCells(entries, records)),
         NEW s, s = SectionRead(p, n, possible, width, maximum, at), s.fault = NoFault
  PROVE  /\ s.at = at + Len(SectionCells(entries, records))
         /\ s.got = ContextsIn(entries, records, order)
<1> DEFINE m == Len(order)
           start == at + 1
           item == ContextsIn(entries, records, order)
           X == {item[k] : k \in 1..m}
           C == ListedContexts(entries, records)
           cells(k) == ContextCells(entries, records, order[k])
<1>1. /\ m \in Nat /\ p[at + 1] = m
      /\ \A k \in 1..m : order[k] \in C
      /\ \E f : SectionPieces(f, m, entries, records, order, p, at)
  <2> HIDE DEF m
  <2>1. m = Len(order)
    BY DEF m
  <2> QED
    BY ONLY <2>1, p \in Seq(Nat), AsList(entries), width \in Nat, GoodRecords(records, width),
            RecordsAccepted(records), order = ContextOrder(entries, records), at \in Nat,
            Holds(p, at, SectionCells(entries, records)), SectionCountBack DEF C
<1>2. PICK f : /\ Len(f[0]) = 1
               /\ \A k \in 0..m : Len(f[k]) \in Nat
               /\ \A k \in 1..m : /\ Len(f[k]) = Len(f[k - 1]) + Len(cells(k))
                                  /\ Holds(p, at + Len(f[k - 1]), cells(k))
               /\ Len(f[m]) = Len(SectionCells(entries, records))
  BY ONLY <1>1 DEF SectionPieces
<1>3. s = ContextsOf(p, n, width, maximum, m, start)
  <2> DEFINE r == Nothing(at)
  <2>1. \A fault : Failed(r, fault).fault = fault
    <3>1. IsReading(r)
      BY DEF IsReading, Nothing
    <3> HIDE DEF r
    <3> QED BY ONLY <3>1, FaultIs
  <2>2. s = Failed(r, "TruncatedPayload") \/ s = Failed(r, "InvalidPayload")
          \/ s = ContextsOf(p, n, width, maximum, p[at + 1], at + 1)
    BY DEF SectionRead
  <2> HIDE DEF r
  <2> QED
    BY ONLY <1>1, <2>1, <2>2, s.fault = NoFault DEF NoFault
<1>4. PICK g : ContextSteps(g, p, n, width, maximum, m, start) /\ s = g[m]
  <2>1. start \in Nat
    OBVIOUS
  <2> HIDE DEF m, start
  <2>2. ContextsStepwise(s, p, n, width, maximum, m, start)
    BY ONLY <1>1, <1>3, <2>1, p \in Seq(Nat), n \in Nat, width \in Nat, maximum \in Nat, ContextsAreRead
  <2> QED
    BY ONLY <2>2 DEF ContextsStepwise
<1> DEFINE off == [k \in 0..m |-> at + Len(f[k])]
<1>5. g[0] = Nothing(off[0])
  <2>1. 0 \in 0..m /\ off[0] = at + Len(f[0])
    BY ONLY <1>1
  <2> HIDE DEF off
  <2>2. off[0] = start
    BY ONLY <1>2, <2>1
  <2> QED
    BY ONLY <1>4, <2>2 DEF ContextSteps
<1>6. \A k \in 1..m : g[k] = IF g[k - 1].fault = NoFault
                            THEN ReadContext(p, n, width, maximum, g[k - 1]) ELSE g[k - 1]
  BY ONLY <1>4 DEF ContextSteps
<1>7. ASSUME NEW k \in 1..m, g[k - 1].fault = NoFault, g[k].fault = NoFault,
             IsReading(g[k - 1]), g[k - 1].at = off[k - 1]
      PROVE  g[k] = Found(g[k - 1], off[k], item[k])
  <2> DEFINE r == g[k - 1]
             c == order[k]
             a == Len(f[k - 1])
             x == g[k]
             written == cells(k)
  <2>1. k - 1 \in 0..m /\ k \in 0..m
    BY ONLY <1>1, k \in 1..m
  <2>2. off[k] = at + Len(f[k]) /\ off[k - 1] = at + a
    BY ONLY <2>1
  <2>3. x = ReadContext(p, n, width, maximum, r) /\ x.fault = NoFault
    <3> HIDE DEF m
    <3> QED BY ONLY <1>6, <1>7, k \in 1..m
  <2>4. c \in C
    <3> HIDE DEF C, m
    <3> QED BY ONLY <1>1, k \in 1..m
  <2>5. /\ Writable(entries, Group(entries, records, c))
        /\ c \in Seq(Nat) /\ Len(c) = width /\ written \in Seq(Nat)
    <3> HIDE DEF c
    <3> QED BY <2>4, GroupIsWritable DEF c
  <2>6. /\ Len(f[k]) = a + Len(written) /\ Holds(p, at + a, written) /\ a \in Nat
        /\ Len(written) \in Nat
    <3>1. Len(f[k]) = a + Len(written) /\ Holds(p, at + a, written) /\ a \in Nat
      <4> HIDE DEF cells, m
      <4> QED BY ONLY <1>2, <2>1, k \in 1..m
    <3>2. Len(written) \in Nat
      <4> HIDE DEF written
      <4> QED BY ONLY <2>5
    <3> QED
      BY ONLY <3>1, <3>2
  <2>7. IsReading(r) /\ r.at = at + a /\ r.at \in Nat /\ Holds(p, r.at, written)
    <3>1. IsReading(r) /\ r.at = at + a
      <4> HIDE DEF off
      <4> QED BY ONLY <1>7, <2>2
    <3>2. at + a \in Nat
      <4> HIDE DEF a
      <4> QED BY ONLY <2>6, at \in Nat
    <3> HIDE DEF r, a, written
    <3> QED
      BY ONLY <2>6, <3>1, <3>2
  <2>8. x = Found(r, r.at + Len(written), ContextIn(entries, records, c))
    <3>1. written = ContextCells(entries, records, c)
      OBVIOUS
    <3>2. /\ Writable(entries, Group(entries, records, c))
          /\ c \in Seq(Nat) /\ Len(c) = width
      BY ONLY <2>5
    <3>3. IsReading(r) /\ r.at \in Nat /\ Holds(p, r.at, written)
      <4> HIDE DEF r
      <4> QED BY ONLY <2>7
    <3> HIDE DEF x, r, written, c
    <3>4. WrittenContext(p, entries, records, width, c, r)
      BY ONLY <3>1, <3>2, <3>3 DEF WrittenContext
    <3>5. /\ ReadContext(p, n, width, maximum, r).fault = NoFault
          /\ x = ReadContext(p, n, width, maximum, r)
      BY ONLY <2>3
    <3>6. ReadContext(p, n, width, maximum, r)
            = Found(r, r.at + Len(ContextCells(entries, records, c)), ContextIn(entries, records, c))
      BY ONLY <3>4, <3>5, p \in Seq(Nat), n \in Nat, width \in Nat, ContextReadBack
    <3> QED
      BY ONLY <3>1, <3>5, <3>6
  <2>9. item[k] = ContextIn(entries, records, c)
    BY DEF ContextsIn
  <2>10. r.at + Len(written) = off[k]
    <3> HIDE DEF r, a, written, off
    <3> QED BY ONLY <2>2, <2>6, <2>7, at \in Nat
  <2> HIDE DEF item, off, written, c
  <2> QED
    BY ONLY <2>8, <2>9, <2>10
<1>8. ReadsOn(g, m, off, item)
  <2>1. \A k \in 1..m : g[k - 1].fault # NoFault => g[k] = g[k - 1]
    <3> HIDE DEF m
    <3> QED BY ONLY <1>6
  <2> HIDE DEF off, item, m
  <2> QED
    BY ONLY <1>5, <1>7, <2>1 DEF ReadsOn
<1>9. item \in [1..m -> X]
  BY DEF ContextsIn
<1>10. g[m].at = off[m] /\ g[m].got = item
  <2>1. g[m].fault = NoFault
    BY ONLY <1>4, s.fault = NoFault
  <2> HIDE DEF off, item, m, X
  <2>2. ReadTo(g, m, off, item)
    BY ONLY <1>1, <1>8, <1>9, <2>1, ItemsAreRead
  <2> QED
    BY ONLY <2>2 DEF ReadTo
<1>11. off[m] = at + Len(SectionCells(entries, records))
  <2>1. m \in 0..m /\ off[m] = at + Len(f[m])
    BY ONLY <1>1
  <2> HIDE DEF off
  <2> QED
    BY ONLY <1>2, <2>1
<1> HIDE DEF off, item
<1> QED
  BY ONLY <1>4, <1>10, <1>11 DEF item

\* What an index holds: under every listed context, one up, the predictions of its group.
Holding(index, entries, records) ==
  /\ DOMAIN index = {Shifted(c) : c \in ListedContexts(entries, records)}
  /\ \A c \in ListedContexts(entries, records) :
       index[Shifted(c)] = PredictionsIn(entries, Group(entries, records, c))

LEMMA ShiftedOnce ==
  ASSUME NEW width \in Nat, NEW c \in [1..width -> Nat], NEW d \in [1..width -> Nat],
         Shifted(c) = Shifted(d)
  PROVE  c = d
<1>1. DOMAIN c = 1..width /\ DOMAIN d = 1..width
  OBVIOUS
<1>2. ASSUME NEW i \in 1..width PROVE c[i] = d[i]
  <2>1. Shifted(c)[i] = c[i] + 1 /\ Shifted(d)[i] = d[i] + 1
    BY <1>1 DEF Shifted
  <2>2. c[i] \in Nat /\ d[i] \in Nat
    OBVIOUS
  <2>3. c[i] + 1 = d[i] + 1
    BY ONLY <2>1, Shifted(c) = Shifted(d)
  <2> QED
    BY ONLY <2>2, <2>3
<1> QED
  BY <1>1, <1>2

\* The index made of a section has every context of it, and no other.
LEMMA SectionIndexHolds ==
  ASSUME NEW entries, AsList(entries), NEW width \in Nat, NEW records, GoodRecords(records, width),
         NEW order, order = ContextOrder(entries, records),
         NEW section, section = ContextsIn(entries, records, order)
  PROVE  Holding(SectionIndex(section), entries, records)
<1> DEFINE C == ListedContexts(entries, records)
           m == Len(order)
           index == SectionIndex(section)
           chosen(x) == CHOOSE k \in DOMAIN section : section[k].context = x
<1>1. /\ order \in Seq(C)
      /\ \A c \in C : c \in [1..width -> Nat]
      /\ \A c \in C : \E k \in DOMAIN order : order[k] = c
  <2>1. /\ order \in Seq(C)
        /\ \A c \in C : \E k \in DOMAIN order : order[k] = c
        /\ \A c \in C : c \in [1..width -> 0..(Len(entries) - 1)]
    BY ContextsAre
  <2>2. Len(entries) \in Nat
    BY ListIs
  <2>3. 0..(Len(entries) - 1) \subseteq Nat
    BY ONLY <2>2
  <2> HIDE DEF C
  <2> QED
    BY ONLY <2>1, <2>3
<1>2. /\ m \in Nat /\ DOMAIN order = 1..m /\ \A k \in 1..m : order[k] \in C
  <2> HIDE DEF C
  <2> QED BY ONLY <1>1
<1>3. /\ DOMAIN section = 1..m
      /\ \A k \in 1..m : /\ section[k].context = Shifted(order[k])
                         /\ section[k].predictions
                              = PredictionsIn(entries, Group(entries, records, order[k]))
  BY DEF ContextsIn, ContextIn
<1>4. {section[k].context : k \in DOMAIN section} = {Shifted(c) : c \in C}
  <2> HIDE DEF m, C
  <2>1. ASSUME NEW k \in DOMAIN section PROVE \E c \in C : section[k].context = Shifted(c)
    <3>1. k \in 1..m
      BY ONLY <1>3
    <3>2. order[k] \in C /\ section[k].context = Shifted(order[k])
      BY ONLY <1>2, <1>3, <3>1
    <3> QED
      BY ONLY <3>2
  <2>2. ASSUME NEW c \in C PROVE \E k \in DOMAIN section : section[k].context = Shifted(c)
    <3>1. PICK k \in DOMAIN order : order[k] = c
      BY ONLY <1>1
    <3>2. k \in DOMAIN section /\ section[k].context = Shifted(c)
      BY ONLY <1>2, <1>3, <3>1
    <3> QED
      BY ONLY <3>2
  <2> QED
    BY ONLY <2>1, <2>2
<1>5. /\ DOMAIN index = {section[k].context : k \in DOMAIN section}
      /\ \A x \in DOMAIN index : index[x] = section[chosen(x)].predictions
  BY DEF SectionIndex
<1>6. ASSUME NEW c \in C
      PROVE  index[Shifted(c)] = PredictionsIn(entries, Group(entries, records, c))
  <2> DEFINE x == Shifted(c)
             k == chosen(x)
  <2>1. x \in DOMAIN index
    BY <1>4, <1>5
  <2>2. \E l \in DOMAIN section : section[l].context = x
    <3> HIDE DEF x, chosen, index, C
    <3> QED BY ONLY <1>5, <2>1
  <2>3. k \in DOMAIN section /\ section[k].context = x
    <3> HIDE DEF x
    <3> QED BY ONLY <2>2 DEF chosen
  <2> HIDE DEF k, chosen
  <2>4. k \in 1..m /\ Shifted(order[k]) = x
    <3> HIDE DEF m, x
    <3> QED BY ONLY <1>3, <2>3
  <2>5. order[k] = c
    <3>1. order[k] \in C
      <4> HIDE DEF C, m, x
      <4> QED BY ONLY <1>2, <2>4
    <3>2. order[k] \in [1..width -> Nat] /\ c \in [1..width -> Nat]
      <4> HIDE DEF C
      <4> QED BY ONLY <1>1, <3>1, c \in C
    <3> DEFINE d == order[k]
    <3>3. Shifted(d) = Shifted(c)
      BY ONLY <2>4
    <3> HIDE DEF d
    <3>4. d = c
      BY ONLY <3>2, <3>3, width \in Nat, ShiftedOnce DEF d
    <3> QED
      BY ONLY <3>4 DEF d
  <2>6. index[x] = section[k].predictions
    BY ONLY <1>5, <2>1 DEF k
  <2>7. section[k].predictions = PredictionsIn(entries, Group(entries, records, order[k]))
    <3> HIDE DEF m, x
    <3> QED BY ONLY <1>3, <2>4
  <2> QED
    BY ONLY <2>5, <2>6, <2>7
<1>7. DOMAIN index = {Shifted(c) : c \in C}
  BY ONLY <1>4, <1>5
<1> QED
  BY ONLY <1>6, <1>7 DEF Holding

\* The entries of a payload that begins with what was written for them.
LEMMA EntriesReadBack ==
  ASSUME NEW p \in Seq(Nat), NEW entries, AsList(entries),
         \A e \in Range(entries) : EntryGiven(e), NEW withFrequencies,
         Holds(p, 0, EntriesCells(entries, withFrequencies)),
         NEW s, s = EntriesOf(p, Len(entries)), s.fault = NoFault
  PROVE  /\ s.at = Len(EntriesCells(entries, withFrequencies))
         /\ Len(s.got) = Len(entries)
         /\ \A k \in 1..Len(entries) : /\ s.got[k].word = entries[k].word
                                      /\ s.got[k].normalized = entries[k].normalized
<1> DEFINE m == Len(entries)
           base == <<>>
           piece == [k \in 1..m |-> EntryCells(entries[k], withFrequencies)]
<1>1. m \in Nat /\ \A k \in 1..m : EntryGiven(entries[k])
  BY ListIs
<1>2. \A k \in 1..m : EntryCells(entries[k], withFrequencies) \in Seq(Nat)
  BY <1>1, EntryCellsIs
<1>3. PICK f : /\ f[0] = base /\ \A k \in 1..m : f[k] = f[k - 1] \o piece[k]
               /\ EntriesCells(entries, withFrequencies) = f[m]
  <2>1. \E f : EntryPieces(f, entries, withFrequencies)
               /\ EntriesCells(entries, withFrequencies) = f[m]
    BY EntriesCellsAre
  <2> QED
    BY ONLY <2>1 DEF EntryPieces
<1>4. base \in Seq(Nat) /\ piece \in [1..m -> Seq(Nat)] /\ Len(base) = 0
  BY ONLY <1>2
<1>5. /\ Len(f[0]) = 0
      /\ \A k \in 0..m : Len(f[k]) \in Nat
      /\ \A k \in 1..m : Len(f[k]) = Len(f[k - 1]) + Len(piece[k]) /\ Holds(p, 0 + Len(f[k - 1]), piece[k])
  <2>1. Holds(p, 0, f[m])
    BY ONLY <1>3, Holds(p, 0, EntriesCells(entries, withFrequencies))
  <2>2. 0 \in Nat
    OBVIOUS
  <2> HIDE DEF base, piece, m
  <2>3. PiecesHeld(f, m, base, piece, p, 0)
    BY ONLY <1>1, <1>3, <1>4, <2>1, <2>2, p \in Seq(Nat), HoldsPieces
  <2> QED
    BY ONLY <1>3, <1>4, <2>3 DEF PiecesHeld
<1>6. \A k \in 1..m : piece[k] = EntryCells(entries[k], withFrequencies)
  OBVIOUS
<1> HIDE DEF piece, base
<1>7. PICK g : EntrySteps(g, p, m) /\ s = g[m]
  <2> HIDE DEF m
  <2>1. EntriesStepwise(s, p, m)
    BY ONLY <1>1, p \in Seq(Nat), s = EntriesOf(p, Len(entries)), EntriesAreRead DEF m
  <2> QED
    BY ONLY <2>1 DEF EntriesStepwise
<1> DEFINE off == [k \in 0..m |-> Len(f[k])]
           item == [k \in 1..m |-> EntryAt(p, off[k - 1])]
           X == {item[k] : k \in 1..m}
<1>8. g[0] = Nothing(off[0])
  <2>1. 0 \in 0..m /\ off[0] = Len(f[0])
    BY ONLY <1>1
  <2> HIDE DEF off
  <2>2. off[0] = 0
    BY ONLY <1>5, <2>1
  <2> QED
    BY ONLY <1>7, <2>2 DEF EntrySteps
<1>9. \A k \in 1..m : g[k] = IF g[k - 1].fault = NoFault
                            THEN ReadEntry(p, g[k - 1]) ELSE g[k - 1]
  BY ONLY <1>7 DEF EntrySteps
<1>10. \A k \in 1..m : /\ k - 1 \in 0..m /\ off[k] = Len(f[k]) /\ off[k - 1] = Len(f[k - 1])
                       /\ off[k - 1] \in Nat /\ Holds(p, off[k - 1], piece[k])
                       /\ off[k] = off[k - 1] + Len(piece[k])
  <2> SUFFICES ASSUME NEW k \in 1..m
               PROVE  /\ k - 1 \in 0..m /\ off[k] = Len(f[k]) /\ off[k - 1] = Len(f[k - 1])
                      /\ off[k - 1] \in Nat /\ Holds(p, off[k - 1], piece[k])
                      /\ off[k] = off[k - 1] + Len(piece[k])
    OBVIOUS
  <2> DEFINE a == Len(f[k - 1])
  <2>1. k - 1 \in 0..m /\ k \in 0..m
    BY ONLY <1>1
  <2>2. off[k] = Len(f[k]) /\ off[k - 1] = a
    BY ONLY <2>1
  <2>3. a \in Nat /\ Len(f[k]) = a + Len(piece[k]) /\ Holds(p, 0 + a, piece[k])
    BY ONLY <1>5, <2>1
  <2> HIDE DEF a, off
  <2>4. 0 + a = a
    BY ONLY <2>3
  <2> QED
    BY ONLY <2>1, <2>2, <2>3, <2>4 DEF a
<1>11. ASSUME NEW k \in 1..m, NEW r, IsReading(r), r.at = off[k - 1]
       PROVE  /\ ReadEntry(p, r).fault = NoFault
                   => ReadEntry(p, r) = Found(r, off[k], EntryAt(p, off[k - 1]))
              /\ EntryAt(p, off[k - 1]).word = entries[k].word
              /\ EntryAt(p, off[k - 1]).normalized = entries[k].normalized
  <2> DEFINE e == entries[k]
             cells == piece[k]
  <2>1. EntryGiven(e) /\ cells = EntryCells(e, withFrequencies)
    BY ONLY <1>1, <1>6
  <2>2. r.at \in Nat /\ Holds(p, r.at, cells) /\ off[k] = r.at + Len(cells)
    <3> HIDE DEF off
    <3> QED BY ONLY <1>10, <1>11
  <2> HIDE DEF e, cells, off
  <2>3. /\ ReadEntry(p, r).fault = NoFault
             => ReadEntry(p, r) = Found(r, r.at + Len(cells), EntryAt(p, r.at))
        /\ EntryAt(p, r.at).word = e.word /\ EntryAt(p, r.at).normalized = e.normalized
    <3>1. IsReading(r) /\ r.at \in Nat /\ Holds(p, r.at, cells)
      BY ONLY <1>11, <2>2
    <3> QED
      BY ONLY <2>1, <3>1, p \in Seq(Nat), EntryReadBack
  <2> QED
    BY ONLY <1>11, <2>2, <2>3 DEF e
<1>12. ReadsOn(g, m, off, item)
  <2>1. \A k \in 1..m : g[k - 1].fault # NoFault => g[k] = g[k - 1]
    <3> HIDE DEF m
    <3> QED BY ONLY <1>9
  <2>2. ASSUME NEW k \in 1..m, g[k - 1].fault = NoFault, g[k].fault = NoFault,
               IsReading(g[k - 1]), g[k - 1].at = off[k - 1]
        PROVE  g[k] = Found(g[k - 1], off[k], item[k])
    <3> DEFINE r == g[k - 1]
    <3>1. g[k] = ReadEntry(p, r)
      <4> HIDE DEF m
      <4> QED BY ONLY <1>9, <2>2
    <3>2. IsReading(r) /\ r.at = off[k - 1] /\ ReadEntry(p, r).fault = NoFault
      BY ONLY <2>2, <3>1
    <3>3. item[k] = EntryAt(p, off[k - 1])
      <4> HIDE DEF off
      <4> QED OBVIOUS
    <3> HIDE DEF r, off, item, m
    <3>4. ReadEntry(p, r) = Found(r, off[k], EntryAt(p, off[k - 1]))
      BY ONLY <1>11, <2>2, <3>2
    <3> QED
      BY ONLY <3>1, <3>3, <3>4 DEF r
  <2> HIDE DEF off, item, m
  <2> QED
    BY ONLY <1>8, <2>1, <2>2 DEF ReadsOn
<1>13. item \in [1..m -> X]
  <2> HIDE DEF off
  <2> QED OBVIOUS
<1>14. g[m].at = off[m] /\ g[m].got = item /\ g[m].fault = NoFault
  <2>1. g[m].fault = NoFault
    BY ONLY <1>7, s.fault = NoFault
  <2> HIDE DEF off, item, m, X
  <2>2. ReadTo(g, m, off, item)
    BY ONLY <1>1, <1>12, <1>13, <2>1, ItemsAreRead
  <2> QED
    BY ONLY <2>1, <2>2 DEF ReadTo
<1>15. off[m] = Len(EntriesCells(entries, withFrequencies))
  <2>1. m \in 0..m
    BY ONLY <1>1
  <2>2. off[m] = Len(f[m])
    BY ONLY <2>1
  <2> HIDE DEF off
  <2> QED
    BY ONLY <1>3, <2>2
<1>16. \A k \in 1..m : /\ item[k].word = entries[k].word
                       /\ item[k].normalized = entries[k].normalized
  <2> SUFFICES ASSUME NEW k \in 1..m
               PROVE  item[k].word = entries[k].word /\ item[k].normalized = entries[k].normalized
    OBVIOUS
  <2> DEFINE r == Nothing(off[k - 1])
  <2>1. IsReading(r) /\ r.at = off[k - 1]
    BY DEF IsReading, Nothing
  <2>2. item[k] = EntryAt(p, off[k - 1])
    <3> HIDE DEF off
    <3> QED OBVIOUS
  <2> HIDE DEF r, off, item, m
  <2>3. /\ EntryAt(p, off[k - 1]).word = entries[k].word
        /\ EntryAt(p, off[k - 1]).normalized = entries[k].normalized
    BY ONLY <1>11, <2>1
  <2> QED
    BY ONLY <2>2, <2>3
<1>17. Len(s.got) = m
  BY EntriesAreRead
<1> HIDE DEF off, item
<1> QED
  BY ONLY <1>7, <1>14, <1>15, <1>16, <1>17

BeginsWith(lexicon, entries) ==
  /\ Len(entries) \in Nat /\ Len(lexicon) \in Nat /\ Len(entries) <= Len(lexicon)
  /\ \A k \in 1..Len(entries) : /\ lexicon[k].word = entries[k].word
                               /\ lexicon[k].normalized = entries[k].normalized

\* A lexicon that begins with the entries of an input, and the indexes of its records.
DerivedFrom(input, lexicon, bigrams, trigrams) ==
  /\ input \in Inputs /\ Compiles(input)
  /\ BeginsWith(lexicon, input.entries)
  /\ Holding(bigrams, input.entries, input.bigrams)
  /\ Holding(trigrams, input.entries, input.trigrams)

LEMMA InputIs ==
  ASSUME NEW input \in Inputs, Compiles(input)
  PROVE  /\ AsList(input.entries) /\ \A e \in Range(input.entries) : EntryGiven(e)
         /\ GoodRecords(input.bigrams, 1) /\ GoodRecords(input.trigrams, 2)
         /\ RecordsAccepted(input.bigrams) /\ RecordsAccepted(input.trigrams)
<1>1. /\ AsList(input.entries) /\ \A e \in Range(input.entries) : EntryGiven(e)
      /\ GoodRecords(input.bigrams, 1) /\ GoodRecords(input.trigrams, 2)
  BY InputsAssumption DEF AsList, GoodRecords, EntryGiven
<1>2. RecordsAccepted(input.bigrams) /\ RecordsAccepted(input.trigrams)
  BY DEF Compiles, BigramsCompile, TrigramsCompile, SectionCompiles
<1> QED
  BY <1>1, <1>2

\* What the loader decodes of a whole pack is what the pack was compiled from.
LEMMA CompiledReadBack ==
  ASSUME NEW input \in Inputs, Compiles(input),
         NEW d, d = Decoded(CompiledPack(input)), d.fault = NoFault
  PROVE  /\ DerivedFrom(input, d.lexicon, d.bigrams, d.trigrams)
         /\ Len(d.lexicon) = Len(input.entries)
<1> DEFINE listed == input.entries
           a == EntriesCells(listed, input.withFrequencies)
           b == SectionCells(listed, input.bigrams)
           c == SectionCells(listed, input.trigrams)
           p == (a \o b) \o c
           n == Len(listed)
<1>1. /\ AsList(listed) /\ \A e \in Range(listed) : EntryGiven(e)
      /\ GoodRecords(input.bigrams, 1) /\ GoodRecords(input.trigrams, 2)
      /\ RecordsAccepted(input.bigrams) /\ RecordsAccepted(input.trigrams)
  BY InputIs
<1>2. a \in Seq(Nat) /\ b \in Seq(Nat) /\ c \in Seq(Nat) /\ n \in Nat
  <2>1. b \in Seq(Nat)
    BY ONLY <1>1, SectionCellsAre
  <2>2. c \in Seq(Nat)
    BY ONLY <1>1, SectionCellsAre
  <2>3. a \in Seq(Nat)
    BY ONLY <1>1, EntriesCellsAre
  <2>4. n \in Nat
    BY ONLY <1>1, ListIs
  <2> QED
    BY ONLY <2>1, <2>2, <2>3, <2>4
<1>3. CompiledPack(input) = Headed(n, p)
  BY DEF CompiledPack
<1> HIDE DEF a, b, c, n
<1>4. p \in Seq(Nat) /\ a \o b \in Seq(Nat) /\ Len(a) \in Nat /\ Len(a \o b) = Len(a) + Len(b)
      /\ Len(b) \in Nat
  BY ONLY <1>2
<1>5. Holds(p, 0, a) /\ Holds(p, Len(a), b) /\ Holds(p, Len(a) + Len(b), c)
  <2> DEFINE u == a \o b
  <2>1. Holds(p, 0, u \o c)
    <3>1. Len(p) \in Nat
      BY ONLY <1>4
    <3>2. 0 + Len(p) <= Len(p) /\ \A j \in 1..Len(p) : 0 + j = j
      BY ONLY <3>1
    <3>3. \A j \in 1..Len(p) : p[0 + j] = p[j]
      BY ONLY <3>2
    <3> HIDE DEF p
    <3>4. Holds(p, 0, p)
      BY ONLY <3>2, <3>3 DEF Holds
    <3> QED
      BY ONLY <3>4 DEF p
  <2>2. u \in Seq(Nat) /\ 0 \in Nat
    BY ONLY <1>4
  <2> HIDE DEF u
  <2>3. Holds(p, 0, u) /\ Holds(p, 0 + Len(u), c)
    <3> HIDE DEF p
    <3> QED BY ONLY <1>2, <1>4, <2>1, <2>2, HoldsJoined DEF p
  <2>4. Holds(p, 0, a) /\ Holds(p, 0 + Len(a), b)
    <3>1. Holds(p, 0, a \o b)
      BY ONLY <2>3 DEF u
    <3> HIDE DEF p
    <3> QED BY ONLY <1>2, <1>4, <2>2, <3>1, HoldsJoined
  <2>5. 0 + Len(u) = Len(a) + Len(b) /\ 0 + Len(a) = Len(a)
    BY ONLY <1>4 DEF u
  <2> QED
    BY ONLY <2>3, <2>4, <2>5
<1>6. d = ReadPayload(p, n)
  <2> DEFINE pack == Headed(n, p)
  <2>1. HeaderFault(pack) = NoFault
    <3> HIDE DEF p
    <3> QED BY <1>2, <1>4, HeadedIsGood
  <2>2. pack.payload = p /\ pack.header[4] = n
    BY DEF Headed
  <2> HIDE DEF pack, p
  <2> QED
    BY <1>3, <2>1, <2>2 DEF Decoded, pack
<1> HIDE DEF p
<1> DEFINE nothing == Nothing(0)
           entries == IF n > Len(p) \div MinEntryCells THEN Failed(nothing, "InvalidPayload")
                      ELSE EntriesOf(p, n)
           bigrams == IF entries.fault # NoFault THEN entries
                      ELSE BigramSection(p, n, entries.at)
           trigrams == IF bigrams.fault # NoFault THEN bigrams
                       ELSE TrigramSection(p, n, bigrams.at)
<1>7. d = IF trigrams.fault # NoFault THEN [fault |-> trigrams.fault]
          ELSE IF trigrams.at # Len(p) THEN [fault |-> "InvalidPayload"]
          ELSE [fault |-> NoFault, lexicon |-> entries.got,
                bigrams |-> SectionIndex(bigrams.got), trigrams |-> SectionIndex(trigrams.got)]
  BY <1>6 DEF ReadPayload, EntriesOf, Nothing
<1>8. /\ trigrams.fault = NoFault
      /\ d.lexicon = entries.got /\ d.bigrams = SectionIndex(bigrams.got)
      /\ d.trigrams = SectionIndex(trigrams.got)
  <2> HIDE DEF trigrams, bigrams, entries
  <2>1. d.fault = IF trigrams.fault # NoFault THEN trigrams.fault
                  ELSE IF trigrams.at # Len(p) THEN "InvalidPayload" ELSE NoFault
    BY ONLY <1>7
  <2>2. trigrams.fault = NoFault /\ trigrams.at = Len(p)
    BY ONLY <2>1, d.fault = NoFault DEF NoFault
  <2> QED
    BY ONLY <1>7, <2>2
<1>9. bigrams.fault = NoFault /\ trigrams = TrigramSection(p, n, bigrams.at)
  <2> HIDE DEF bigrams
  <2> QED BY ONLY <1>8
<1>10. entries.fault = NoFault /\ bigrams = BigramSection(p, n, entries.at)
  <2> HIDE DEF entries
  <2> QED BY ONLY <1>9
<1>11. entries = EntriesOf(p, n)
  <2>1. IsReading(nothing)
    BY DEF IsReading, Nothing
  <2> DEFINE bad == Failed(nothing, "InvalidPayload")
  <2>2. bad.fault # NoFault
    <3> HIDE DEF nothing
    <3>1. bad.fault = "InvalidPayload"
      BY ONLY <2>1, FaultIs
    <3> HIDE DEF bad
    <3> QED BY ONLY <3>1 DEF NoFault
  <2> HIDE DEF bad
  <2>3. entries = bad \/ entries = EntriesOf(p, n)
    BY DEF bad
  <2> HIDE DEF entries
  <2> QED BY ONLY <1>10, <2>2, <2>3
<1> HIDE DEF trigrams, bigrams, entries
<1>12. entries.at = Len(a) /\ BeginsWith(entries.got, listed) /\ Len(entries.got) = Len(listed)
  <2>1. /\ entries.at = Len(a) /\ Len(entries.got) = Len(listed)
        /\ \A k \in 1..Len(listed) : /\ entries.got[k].word = listed[k].word
                                    /\ entries.got[k].normalized = listed[k].normalized
    <3>1. Holds(p, 0, EntriesCells(listed, input.withFrequencies))
      BY ONLY <1>5 DEF a
    <3>2. entries = EntriesOf(p, Len(listed))
      BY ONLY <1>11 DEF n
    <3> DEFINE g == input.withFrequencies
    <3>3. Holds(p, 0, EntriesCells(listed, g)) /\ a = EntriesCells(listed, g)
      BY ONLY <3>1 DEF a
    <3> HIDE DEF listed, g
    <3>4. AsList(listed) /\ \A e \in Range(listed) : EntryGiven(e)
      BY ONLY <1>1
    <3>5. p \in Seq(Nat)
      BY ONLY <1>4
    <3>6. entries.fault = NoFault
      BY ONLY <1>10
    <3> QED
      BY ONLY <3>2, <3>3, <3>4, <3>5, <3>6, EntriesReadBack
  <2>2. Len(listed) \in Nat
    BY ONLY <1>2 DEF n
  <2> HIDE DEF listed
  <2> QED
    BY ONLY <2>1, <2>2 DEF BeginsWith
<1>13. bigrams.at = Len(a) + Len(b) /\ Holding(SectionIndex(bigrams.got), listed, input.bigrams)
  <2> DEFINE records == input.bigrams
             order == ContextOrder(listed, records)
             at == Len(a)
             section == bigrams.got
  <2>1. bigrams = SectionRead(p, n, n, 1, MaxBigramPredictions, at)
    BY ONLY <1>10, <1>12, SectionsAreRead
  <2>2. Holds(p, at, SectionCells(listed, records)) /\ at \in Nat
    BY ONLY <1>4, <1>5 DEF b
  <2>3. GoodRecords(records, 1) /\ RecordsAccepted(records)
    BY ONLY <1>1
  <2>4. MaxBigramPredictions \in Nat /\ 1 \in Nat
    BY FormatAssumption
  <2> HIDE DEF records, at, listed, section
  <2>5. bigrams.at = at + Len(SectionCells(listed, records))
        /\ bigrams.got = ContextsIn(listed, records, order)
    BY ONLY <1>1, <1>2, <1>4, <1>9, <2>1, <2>2, <2>3, <2>4, SectionReadBack
  <2>6. Holding(SectionIndex(section), listed, records)
    BY ONLY <1>1, <2>3, <2>4, <2>5, SectionIndexHolds DEF section
  <2> QED
    BY ONLY <2>5, <2>6 DEF records, at, listed, section, b
<1>14. Holding(SectionIndex(trigrams.got), listed, input.trigrams)
  <2> DEFINE records == input.trigrams
             order == ContextOrder(listed, records)
             at == Len(a) + Len(b)
             section == trigrams.got
             possible == n * n
  <2>1. trigrams = SectionRead(p, n, possible, 2, MaxTrigramPredictions, at)
    BY ONLY <1>9, <1>13, SectionsAreRead
  <2>2. Holds(p, at, SectionCells(listed, records)) /\ at \in Nat
    BY ONLY <1>4, <1>5 DEF c
  <2>3. GoodRecords(records, 2) /\ RecordsAccepted(records)
    BY ONLY <1>1
  <2>4. MaxTrigramPredictions \in Nat /\ 2 \in Nat
    BY FormatAssumption
  <2> HIDE DEF records, at, listed, section, possible
  <2>5. trigrams.got = ContextsIn(listed, records, order)
    BY ONLY <1>1, <1>2, <1>4, <1>8, <2>1, <2>2, <2>3, <2>4, SectionReadBack
  <2>6. Holding(SectionIndex(section), listed, records)
    BY ONLY <1>1, <2>3, <2>4, <2>5, SectionIndexHolds DEF section
  <2> QED
    BY ONLY <2>6 DEF records, listed, section
<1> QED
  BY ONLY <1>8, <1>12, <1>13, <1>14, input \in Inputs, Compiles(input) DEF DerivedFrom

\* The engine holds what the pack loaded last was compiled from.
Derived ==
  built # NoInput => DerivedFrom(built, engine.lexicon, engine.bigrams, engine.trigrams)

\* A load that fails leaves what is held; a damaged file is not taken for an input.
LEMMA LoadKeepsDerived ==
  ASSUME Derived, NEW pack, NEW input, LoadBinaryPack(pack, input),
         input # NoInput => input \in Inputs /\ Compiles(input) /\ pack = CompiledPack(input)
  PROVE  Derived'
<1> DEFINE d == Decoded(pack)
<1>1. CASE d.fault # NoFault
  <2>1. engine' = engine /\ built' = built
    BY <1>1 DEF LoadBinaryPack
  <2> QED
    BY <2>1 DEF Derived
<1>2. CASE d.fault = NoFault
  <2>1. /\ engine' = [lexicon  |-> d.lexicon,
                      trie     |-> LexiconTrie(d.lexicon),
                      index    |-> IndexOf(d.lexicon),
                      bigrams  |-> d.bigrams,
                      trigrams |-> d.trigrams]
        /\ built' = input
    BY <1>2 DEF LoadBinaryPack
  <2>2. /\ engine'.lexicon = d.lexicon
        /\ engine'.bigrams = d.bigrams /\ engine'.trigrams = d.trigrams
    <3> HIDE DEF d
    <3> QED BY ONLY <2>1
  <2>3. CASE input = NoInput
    BY <2>1, <2>3 DEF Derived
  <2>4. CASE input # NoInput
    <3>1. input \in Inputs /\ Compiles(input) /\ d = Decoded(CompiledPack(input))
      BY <2>4
    <3> HIDE DEF d
    <3>2. DerivedFrom(input, d.lexicon, d.bigrams, d.trigrams)
      BY ONLY <1>2, <3>1, CompiledReadBack
    <3> QED
      BY ONLY <2>1, <2>2, <3>2 DEF Derived
  <2> QED
    BY <2>3, <2>4
<1> QED
  BY <1>1, <1>2

\* Appending moves no entry, so what is held still begins with the input's.
LEMMA AppendKeepsDerived ==
  ASSUME Inv, Derived, NEW entries \in Batches, LoadLexicon(entries)
  PROVE  Derived'
<1> DEFINE lexicon == engine.lexicon \o entries
           held == engine.lexicon
<1>1. built' = built
  BY DEF LoadLexicon
<1>2. CASE TextOf(lexicon) > TextLimit
  <2>1. engine' = engine
    BY <1>2 DEF LoadLexicon
  <2> QED
    BY <1>1, <2>1 DEF Derived
<1>3. CASE ~(TextOf(lexicon) > TextLimit)
  <2>1. engine' = [engine EXCEPT !.lexicon = lexicon,
                                 !.trie = LexiconTrie(lexicon),
                                 !.index = IndexOf(lexicon)]
    BY <1>3 DEF LoadLexicon
  <2>2. DOMAIN engine = {"lexicon", "trie", "index", "bigrams", "trigrams"}
    BY DEF Inv, WellFormed
  <2>3. /\ Len(held) \in Nat /\ Len(lexicon) \in Nat /\ Len(held) <= Len(lexicon)
        /\ \A i \in 1..Len(held) : lexicon[i] = held[i]
    <3>1. GoodLexicon(held)
      BY DEF Inv, WellFormed
    <3> HIDE DEF held
    <3> QED BY <3>1, AppendedIs DEF held
  <2> HIDE DEF lexicon
  <2>4. /\ engine'.lexicon = lexicon
        /\ engine'.bigrams = engine.bigrams /\ engine'.trigrams = engine.trigrams
    BY ONLY <2>1, <2>2
  <2>5. ASSUME NEW listed, BeginsWith(held, listed) PROVE BeginsWith(lexicon, listed)
    <3> DEFINE m == Len(listed)
               n == Len(held)
    <3>1. /\ m \in Nat /\ n \in Nat /\ m <= n
          /\ \A k \in 1..m : /\ held[k].word = listed[k].word
                             /\ held[k].normalized = listed[k].normalized
      BY ONLY <2>5 DEF BeginsWith
    <3>2. Len(lexicon) \in Nat /\ n <= Len(lexicon) /\ \A i \in 1..n : lexicon[i] = held[i]
      BY ONLY <2>3
    <3> HIDE DEF m, n, held
    <3>3. m <= Len(lexicon) /\ \A k \in 1..m : k \in 1..n
      BY ONLY <3>1, <3>2
    <3>4. \A k \in 1..m : /\ lexicon[k].word = listed[k].word
                          /\ lexicon[k].normalized = listed[k].normalized
      BY ONLY <3>1, <3>2, <3>3
    <3> QED
      BY ONLY <3>1, <3>2, <3>3, <3>4 DEF BeginsWith, m
  <2>6. ASSUME built # NoInput
        PROVE  DerivedFrom(built, lexicon, engine.bigrams, engine.trigrams)
    <3>1. DerivedFrom(built, held, engine.bigrams, engine.trigrams)
      BY <2>6 DEF Derived
    <3> HIDE DEF held
    <3> QED BY ONLY <2>5, <3>1 DEF DerivedFrom
  <2> QED
    BY ONLY <1>1, <2>4, <2>6 DEF Derived
<1> QED
  BY <1>2, <1>3

LEMMA DerivedHolds == Spec => []Derived
<1>1. Init => Derived
  BY DEF Init, Derived
<1>2. Inv /\ Derived /\ [Next]_vars => Derived'
  <2> SUFFICES ASSUME Inv, Derived, [Next]_vars PROVE Derived'
    OBVIOUS
  <2>1. CASE LoadIntact
    <3>1. PICK input \in Inputs :
            Compiles(input) /\ LoadBinaryPack(CompiledPack(input), input)
      BY <2>1 DEF LoadIntact
    <3> QED
      BY <3>1, LoadKeepsDerived
  <2>2. CASE LoadDamaged
    <3>1. PICK input \in Inputs :
            \E pack \in Broken(CompiledPack(input)) \cup Resealed(CompiledPack(input)) :
              LoadBinaryPack(pack, NoInput)
      BY <2>2 DEF LoadDamaged
    <3> QED
      BY <3>1, LoadKeepsDerived
  <2>3. ASSUME NEW entries \in Batches, LoadLexicon(entries) PROVE Derived'
    BY <2>3, AppendKeepsDerived
  <2>4. CASE UNCHANGED vars
    BY <2>4 DEF vars, Derived
  <2> QED
    BY <2>1, <2>2, <2>3, <2>4 DEF Next
<1> QED
  BY <1>1, <1>2, InvHolds, PTL DEF Spec

(***************************************************************************)
(* What is told of a compiled pack.                                        *)
(***************************************************************************)
UniqueForms(entries) ==
  \A i, j \in DOMAIN entries : entries[i].normalized = entries[j].normalized => i = j

\* Where a word is found: at its entry, or at none of the entries.
Points(entries, w, f) ==
  IF LexiconIndex(entries, w) = Unlisted THEN f \notin 1..Len(entries)
  ELSE f = LexiconIndex(entries, w) + 1

\* The compiler numbers a form by its last entry and the engine finds the first: the
\* same one when forms are unique.
LEMMA WordIsFound ==
  ASSUME NEW e, WellFormed(e), NEW entries, AsList(entries), BeginsWith(e.lexicon, entries),
         UniqueForms(entries), NEW w \in Spelled, w # <<>>
  PROVE  Points(entries, w, FindLexiconIndex(e, w))
<1> DEFINE n == Len(entries)
           N == Len(e.lexicon)
           f == FindLexiconIndex(e, w)
           i == LexiconIndex(entries, w)
<1>1. /\ n \in Nat /\ N \in Nat /\ n <= N /\ DOMAIN entries = 1..n /\ DOMAIN e.lexicon = 1..N
      /\ \A k \in 1..n : e.lexicon[k].normalized = entries[k].normalized
  <2>1. n \in Nat /\ N \in Nat /\ n <= N
        /\ \A k \in 1..n : e.lexicon[k].normalized = entries[k].normalized
    BY DEF BeginsWith
  <2>2. DOMAIN entries = 1..n
    BY ListIs
  <2>3. DOMAIN e.lexicon = 1..N
    BY ListIs DEF WellFormed, GoodLexicon
  <2> QED
    BY ONLY <2>1, <2>2, <2>3
<1>2. \/ f = NotFound /\ \A k \in 1..N : e.lexicon[k].normalized # w
      \/ /\ f \in 1..N /\ e.lexicon[f].normalized = w
         /\ \A k \in 1..N : e.lexicon[k].normalized = w => f <= k
  <2>1. w \in Seq(Nat)
    BY SpelledAre
  <2>2. f = FindNormalized(e.index, e.lexicon, w)
    BY DEF FindLexiconIndex
  <2>3. GoodLexicon(e.lexicon) /\ e.index.byNormalized = Sorted(e.lexicon)
    BY DEF WellFormed
  <2> DEFINE lexicon == e.lexicon
             index == e.index
  <2>4. /\ GoodLexicon(lexicon) /\ index.byNormalized = Sorted(lexicon)
        /\ f = FindNormalized(index, lexicon, w)
    BY ONLY <2>2, <2>3
  <2>5. DOMAIN lexicon = 1..N
    BY ONLY <1>1
  <2> HIDE DEF f, lexicon, index, N
  <2>6. \/ f = NotFound /\ \A k \in DOMAIN lexicon : lexicon[k].normalized # w
        \/ /\ f \in DOMAIN lexicon /\ lexicon[f].normalized = w
           /\ \A k \in DOMAIN lexicon : lexicon[k].normalized = w => f <= k
    BY ONLY <2>1, <2>4, FindIs
  <2> QED
    BY ONLY <2>5, <2>6 DEF lexicon
<1>3. \/ i = Unlisted /\ \A j \in 1..n : entries[j].normalized # w
      \/ /\ i \in 0..(n - 1) /\ i # Unlisted /\ entries[i + 1].normalized = w
         /\ \A j \in 1..n : entries[j].normalized = w => j <= i + 1
  <2> HIDE DEF i, n
  <2>1. \/ i = Unlisted /\ \A j \in DOMAIN entries : entries[j].normalized # w
        \/ /\ i \in 0..(Len(entries) - 1) /\ i # Unlisted /\ entries[i + 1].normalized = w
           /\ \A j \in DOMAIN entries : entries[j].normalized = w => j <= i + 1
    BY LexiconIndexIs DEF i
  <2> QED
    BY ONLY <1>1, <2>1 DEF n
<1> HIDE DEF f, i, n, N
<1>4. CASE i = Unlisted
  <2>1. \A j \in 1..n : entries[j].normalized # w
    BY ONLY <1>3, <1>4
  <2>2. f \notin 1..n
    BY ONLY <1>1, <1>2, <2>1 DEF NotFound
  <2> QED
    BY ONLY <1>4, <2>2 DEF Points, i, f, n
<1>5. CASE i # Unlisted
  <2> DEFINE j == i + 1
  <2>1. j \in 1..n /\ j \in 1..N /\ entries[j].normalized = w
    BY ONLY <1>1, <1>3, <1>5
  <2> HIDE DEF j
  <2>2. e.lexicon[j].normalized = w
    BY ONLY <1>1, <2>1
  <2>3. f \in 1..N /\ e.lexicon[f].normalized = w /\ f <= j
    BY ONLY <1>2, <2>1, <2>2
  <2>4. f \in 1..n
    BY ONLY <1>1, <2>1, <2>3
  <2>5. entries[f].normalized = w
    BY ONLY <1>1, <2>3, <2>4
  <2>6. f = j
    BY ONLY <1>1, <2>1, <2>4, <2>5, UniqueForms(entries) DEF UniqueForms
  <2> QED
    BY ONLY <1>5, <2>6 DEF Points, i, f, j
<1> QED
  BY ONLY <1>4, <1>5

\* The records of a context are the group the compiler wrote for it.
LEMMA RecordsAreGroup ==
  ASSUME NEW entries, AsList(entries), NEW width \in Nat, NEW records, GoodRecords(records, width),
         RecordsAccepted(records), NEW ws \in [1..width -> Spelled],
         NEW R, R = RecordsOf(entries, records, ws), NEW c, c = Indices(entries, ws)
  PROVE  /\ R # {} <=> c \in ListedContexts(entries, records)
         /\ c \in ListedContexts(entries, records) =>
              /\ GroupSet(entries, records, c) = {records[r] : r \in R}
              /\ Cardinality(GroupSet(entries, records, c)) = Cardinality(R)
<1> DEFINE forms == {entries[i].normalized : i \in DOMAIN entries}
           C == ListedContexts(entries, records)
           S == GroupSet(entries, records, c)
           group == Group(entries, records, c)
           known == \A i \in DOMAIN c : c[i] # Unlisted
<1>1. \A w : LexiconIndex(entries, w) # Unlisted <=> w \in forms
  <2> SUFFICES ASSUME NEW w PROVE LexiconIndex(entries, w) # Unlisted <=> w \in forms
    OBVIOUS
  <2> DEFINE i == LexiconIndex(entries, w)
  <2>1. \/ i = Unlisted /\ \A j \in DOMAIN entries : entries[j].normalized # w
        \/ i \in 0..(Len(entries) - 1) /\ i # Unlisted /\ entries[i + 1].normalized = w
    BY LexiconIndexIs
  <2>2. DOMAIN entries = 1..Len(entries) /\ Len(entries) \in Nat
    BY ListIs
  <2> HIDE DEF i
  <2>3. i \in 0..(Len(entries) - 1) => i + 1 \in DOMAIN entries
    BY ONLY <2>2
  <2> QED
    BY ONLY <2>1, <2>3 DEF i
<1>2. DOMAIN c = 1..width /\ \A i \in 1..width : c[i] = LexiconIndex(entries, ws[i])
  BY DEF Indices
<1>3. /\ IsFiniteSet(DOMAIN records)
      /\ \A r \in DOMAIN records : /\ RecordType(records[r], width)
                                   /\ records[r].context \in [1..width -> Spelled]
  BY ListIs DEF GoodRecords, RecordType
<1>4. R = {r \in DOMAIN records : /\ records[r].context = ws /\ records[r].next \in forms
                                  /\ \A i \in DOMAIN ws : ws[i] \in forms}
  BY DEF RecordsOf
<1>5. DOMAIN ws = 1..width
  OBVIOUS
<1>6. S = {records[r] : r \in {s \in DOMAIN records :
             /\ Indices(entries, records[s].context) = c
             /\ LexiconIndex(entries, records[s].next) # Unlisted}}
  BY DEF GroupSet
<1> HIDE DEF forms, S
<1>7. known => S = {records[r] : r \in R}
  <2> SUFFICES ASSUME known PROVE S = {records[r] : r \in R}
    OBVIOUS
  <2>1. \A i \in DOMAIN ws : ws[i] \in forms
    BY ONLY <1>1, <1>2, <1>5, known
  <2>2. ASSUME NEW s \in DOMAIN records
        PROVE  (Indices(entries, records[s].context) = c
                /\ LexiconIndex(entries, records[s].next) # Unlisted) <=> s \in R
    <3> DEFINE v == records[s].context
    <3>1. v \in [1..width -> Spelled]
      BY ONLY <1>3, <2>2
    <3>2. Indices(entries, v) = c => v = ws
      <4> HIDE DEF v
      <4> QED BY <1>2, <3>1, IndicesTellContext
    <3>3. v = ws => Indices(entries, v) = c
      OBVIOUS
    <3> QED
      BY ONLY <1>1, <1>4, <2>1, <2>2, <3>2, <3>3
  <2> DEFINE chosen == {s \in DOMAIN records :
                          /\ Indices(entries, records[s].context) = c
                          /\ LexiconIndex(entries, records[s].next) # Unlisted}
  <2>3. R \subseteq DOMAIN records
    BY ONLY <1>4
  <2>4. chosen = R
    BY ONLY <2>2, <2>3
  <2>5. S = {records[r] : r \in chosen}
    BY ONLY <1>6
  <2> HIDE DEF chosen
  <2> QED
    BY ONLY <2>4, <2>5
<1>8. known => /\ group \in Seq(S) /\ Len(group) = Cardinality(S) /\ IsFiniteSet(S)
                /\ \A x \in S : \E k \in DOMAIN group : group[k] = x
  <2> SUFFICES ASSUME known
               PROVE  /\ group \in Seq(S) /\ Len(group) = Cardinality(S) /\ IsFiniteSet(S)
                      /\ \A x \in S : \E k \in DOMAIN group : group[k] = x
    OBVIOUS
  <2>1. S = GroupSet(entries, records, c)
    BY DEF S
  <2> QED
    BY <2>1, GroupIs
<1> HIDE DEF group
<1>9. c \in C => known /\ group # <<>>
  BY DEF ListedContexts, group
<1>10. c \in C => R # {}
  <2> SUFFICES ASSUME c \in C PROVE R # {}
    OBVIOUS
  <2>1. group \in Seq(S) /\ group # <<>> /\ S = {records[r] : r \in R}
    BY ONLY <1>7, <1>8, <1>9, c \in C
  <2>2. group[1] \in S
    BY ONLY <2>1
  <2> QED
    BY ONLY <2>1, <2>2
<1>11. R # {} => c \in C
  <2> SUFFICES ASSUME R # {} PROVE c \in C
    OBVIOUS
  <2>1. PICK r : r \in R
    OBVIOUS
  <2>2. /\ r \in DOMAIN records /\ records[r].context = ws
        /\ \A i \in DOMAIN ws : ws[i] \in forms
    BY ONLY <1>4, <2>1
  <2>3. known
    BY ONLY <1>1, <1>2, <1>5, <2>2
  <2>4. records[r] \in S
    BY ONLY <1>7, <2>1, <2>3
  <2>5. \E k \in DOMAIN group : group[k] = records[r]
    BY ONLY <1>8, <2>3, <2>4
  <2>6. group # <<>>
    BY ONLY <2>5
  <2>7. c = Indices(entries, records[r].context)
    BY ONLY <2>2, c = Indices(entries, ws)
  <2> QED
    <3> DEFINE given == [i \in DOMAIN records[r].context |->
                           LexiconIndex(entries, records[r].context[i])]
    <3>1. c = given
      BY ONLY <2>7 DEF Indices
    <3>2. c \in {[i \in DOMAIN records[s].context |-> LexiconIndex(entries, records[s].context[i])] :
                  s \in DOMAIN records}
      BY ONLY <2>2, <3>1
    <3>3. /\ \A i \in DOMAIN c : c[i] # Unlisted
          /\ Group(entries, records, c) # <<>>
      BY ONLY <2>3, <2>6 DEF group
    <3> QED
      BY ONLY <3>2, <3>3 DEF ListedContexts
<1>12. known => Cardinality(S) = Cardinality(R)
  <2> SUFFICES ASSUME known PROVE Cardinality(S) = Cardinality(R)
    OBVIOUS
  <2> DEFINE f == [r \in R |-> records[r]]
  <2>1. IsFiniteSet(R)
    <3>1. R \subseteq DOMAIN records
      BY ONLY <1>4
    <3> QED
      BY ONLY <1>3, <3>1, FS_Subset
  <2>2. \A r, s \in R : records[r] = records[s] => r = s
    <3>1. \A r, s \in DOMAIN records :
            records[r].context = records[s].context /\ records[r].next = records[s].next => r = s
      BY ONLY RecordsAccepted(records) DEF RecordsAccepted
    <3>2. R \subseteq DOMAIN records
      BY ONLY <1>4
    <3> QED
      BY ONLY <3>1, <3>2
  <2>3. S = {records[r] : r \in R}
    BY <1>7
  <2>4. f \in Surjection(R, S)
    BY ONLY <2>3 DEF Surjection
  <2>5. f \in Injection(R, S)
    BY ONLY <2>2, <2>3 DEF Injection, IsInjective
  <2> HIDE DEF f
  <2> QED
    BY ONLY <2>1, <2>4, <2>5, FS_Surjection
<1> HIDE DEF C, known
<1> QED
  BY ONLY <1>7, <1>9, <1>10, <1>11, <1>12 DEF C, S

PointsAt(entries, width, ws, found) == \A i \in 1..width : Points(entries, ws[i], found[i])

FoundAs(index, entries, records, c, found) ==
  /\ found \in DOMAIN index <=> c \in ListedContexts(entries, records)
  /\ c \in ListedContexts(entries, records) => found = Shifted(c)

\* The context found for some words is in the index when the compiler listed theirs.
LEMMA ContextIsFound ==
  ASSUME NEW entries, AsList(entries), NEW width \in Nat, NEW records, GoodRecords(records, width),
         NEW index, Holding(index, entries, records),
         NEW ws \in [1..width -> Spelled], NEW c, c = Indices(entries, ws),
         NEW V, NEW found \in [1..width -> V], PointsAt(entries, width, ws, found)
  PROVE  FoundAs(index, entries, records, c, found)
<1> DEFINE C == ListedContexts(entries, records)
           n == Len(entries)
<1>1. \A d \in C : d \in [1..width -> 0..(n - 1)] /\ \A i \in 1..width : d[i] # Unlisted
  <2> SUFFICES ASSUME NEW d \in C
               PROVE  d \in [1..width -> 0..(n - 1)] /\ \A i \in 1..width : d[i] # Unlisted
    OBVIOUS
  <2>1. d \in [1..width -> 0..(n - 1)] /\ \A i \in DOMAIN d : d[i] # Unlisted
    BY ContextsAre
  <2> QED
    BY ONLY <2>1
<1>2. DOMAIN index = {Shifted(d) : d \in C}
  BY DEF Holding
<1>3. DOMAIN c = 1..width /\ \A i \in 1..width : c[i] = LexiconIndex(entries, ws[i])
  BY DEF Indices
<1>4. n \in Nat
  BY ListIs
<1>5. \A i \in 1..width : c[i] = Unlisted \/ c[i] \in 0..(n - 1)
  <2> SUFFICES ASSUME NEW i \in 1..width PROVE c[i] = Unlisted \/ c[i] \in 0..(n - 1)
    OBVIOUS
  <2> DEFINE w == ws[i]
             x == LexiconIndex(entries, w)
  <2>1. x = Unlisted \/ x \in 0..(n - 1)
    <3> HIDE DEF w
    <3> QED BY LexiconIndexIs
  <2> QED
    BY ONLY <1>3, <2>1
<1>6. \A i \in 1..width : IF c[i] = Unlisted THEN found[i] \notin 1..n ELSE found[i] = c[i] + 1
  BY ONLY <1>3, PointsAt(entries, width, ws, found) DEF PointsAt, Points
<1> HIDE DEF C, n
<1>7. c \in C => found = Shifted(c)
  <2> SUFFICES ASSUME c \in C PROVE found = Shifted(c)
    OBVIOUS
  <2>1. \A i \in 1..width : found[i] = c[i] + 1
    BY ONLY <1>1, <1>6, c \in C
  <2>2. DOMAIN found = 1..width /\ found = [i \in 1..width |-> found[i]]
    OBVIOUS
  <2> QED
    BY ONLY <1>3, <2>1, <2>2 DEF Shifted
<1>8. ASSUME found \in DOMAIN index PROVE c \in C
  <2>1. PICK d \in C : found = Shifted(d)
    BY ONLY <1>2, <1>8
  <2>2. d \in [1..width -> 0..(n - 1)] /\ DOMAIN d = 1..width
    BY ONLY <1>1, <2>1
  <2>3. ASSUME NEW i \in 1..width PROVE d[i] = c[i]
    <3>1. found[i] = d[i] + 1
      BY ONLY <2>1, <2>2, <2>3 DEF Shifted
    <3> DEFINE x == d[i]
               y == c[i]
               z == found[i]
    <3>2. x \in 0..(n - 1)
      BY ONLY <2>2, <2>3
    <3>3. y = Unlisted \/ y \in 0..(n - 1)
      BY ONLY <1>5, <2>3
    <3>4. IF y = Unlisted THEN z \notin 1..n ELSE z = y + 1
      BY ONLY <1>6, <2>3
    <3>5. z = x + 1
      BY ONLY <3>1
    <3> HIDE DEF x, y, z
    <3>6. x = y
      BY ONLY <1>4, <3>2, <3>3, <3>4, <3>5
    <3> QED
      BY ONLY <3>6 DEF x, y
  <2>4. c = [i \in 1..width |-> c[i]] /\ d = [i \in 1..width |-> d[i]]
    <3>1. c = [i \in DOMAIN ws |-> LexiconIndex(entries, ws[i])]
      BY DEF Indices
    <3>2. c = [i \in DOMAIN c |-> c[i]]
      BY ONLY <3>1
    <3> QED
      BY ONLY <1>3, <2>2, <3>2
  <2>5. c = d
    BY ONLY <2>3, <2>4
  <2> QED
    BY ONLY <2>1, <2>5
<1>9. c \in C => found \in DOMAIN index
  BY ONLY <1>2, <1>7
<1> QED
  BY ONLY <1>7, <1>8, <1>9 DEF FoundAs, C

\* Every prediction of a context is told, with the word of its entry.
LEMMA GroupIsTold ==
  ASSUME NEW e, NEW entries, AsList(entries), BeginsWith(e.lexicon, entries), UniqueForms(entries),
         NEW group, Writable(entries, group),
         NEW limit \in Nat, Len(group) <= limit,
         NEW told, told = Told(e, PredictionsIn(entries, group), limit)
  PROVE  told = [k \in 1..Len(group) |-> ToldOf(entries, group[k])]
<1> DEFINE m == Len(group)
           n == Len(entries)
           predictions == PredictionsIn(entries, group)
<1>1. m \in Nat /\ m <= limit
  BY DEF Writable
<1>2. /\ Len(predictions) = m /\ DOMAIN predictions = 1..m
      /\ \A k \in 1..m : predictions[k] = PredictionAt(entries, group[k])
  <2>1. predictions = [k \in 1..m |-> PredictionAt(entries, group[k])]
    BY DEF PredictionsIn
  <2>2. DOMAIN predictions = 1..m
        /\ \A k \in 1..m : predictions[k] = PredictionAt(entries, group[k])
    BY ONLY <2>1
  <2>3. Len(predictions) = m
    <3> DEFINE at == [k \in 1..m |-> PredictionAt(entries, group[k])]
               X == {at[k] : k \in 1..m}
    <3>1. at \in [1..m -> X]
      OBVIOUS
    <3> HIDE DEF at, X, m
    <3>2. Len(at) = m
      BY ONLY <1>1, <3>1
    <3> QED
      BY ONLY <2>1, <3>2 DEF at
  <2> QED
    BY ONLY <2>2, <2>3
<1>3. (IF Len(predictions) < limit THEN Len(predictions) ELSE limit) = m
  <2> HIDE DEF m, predictions
  <2> QED
    BY ONLY <1>1, <1>2, limit \in Nat
<1>4. told = [k \in 1..m |-> [word |-> e.lexicon[predictions[k].next].word,
                             count |-> predictions[k].count,
                             probability |-> predictions[k].probability]]
  <2> HIDE DEF m, predictions
  <2> QED
    BY <1>3 DEF Told, predictions
<1>5. ASSUME NEW k \in 1..m
      PROVE  [word |-> e.lexicon[predictions[k].next].word,
              count |-> predictions[k].count, probability |-> predictions[k].probability]
               = ToldOf(entries, group[k])
  <2> DEFINE x == group[k]
             i == LexiconIndex(entries, x.next)
             j == i + 1
  <2>1. i \in Nat
    BY DEF Writable
  <2>2. DOMAIN entries = 1..n /\ n \in Nat
    BY ListIs
  <2>3. j \in 1..n /\ entries[j].normalized = x.next
    <3> DEFINE w == x.next
    <3>1. \/ i = Unlisted
          \/ i \in 0..(n - 1) /\ entries[j].normalized = w
      <4>1. i = LexiconIndex(entries, w)
        OBVIOUS
      <4> HIDE DEF w, i
      <4> QED BY ONLY <4>1, AsList(entries), LexiconIndexIs
    <3> HIDE DEF i
    <3>2. i # Unlisted
      BY ONLY <2>1 DEF Unlisted
    <3> HIDE DEF n
    <3> QED
      BY ONLY <2>2, <3>1, <3>2
  <2>4. predictions[k] = [next |-> j, count |-> x.count, probability |-> x.probability]
    BY <1>2 DEF PredictionAt
  <2>5. e.lexicon[j].word = entries[j].word
    <3> HIDE DEF j
    <3> QED BY <2>3 DEF BeginsWith
  <2>6. (CHOOSE l \in DOMAIN entries : entries[l].normalized = x.next) = j
    <3> DEFINE w == x.next
               chosen == CHOOSE l \in DOMAIN entries : entries[l].normalized = w
    <3>1. j \in DOMAIN entries /\ entries[j].normalized = w
      <4> HIDE DEF j, n
      <4> QED BY ONLY <2>2, <2>3
    <3> HIDE DEF w, j
    <3>2. chosen \in DOMAIN entries /\ entries[chosen].normalized = w
      BY ONLY <3>1
    <3> HIDE DEF chosen
    <3>3. chosen = j
      BY ONLY <3>1, <3>2, UniqueForms(entries) DEF UniqueForms
    <3> QED
      BY ONLY <3>3 DEF chosen, w
  <2>7. ToldOf(entries, x) = [word |-> entries[j].word, count |-> x.count,
                              probability |-> x.probability]
    <3> HIDE DEF j, x
    <3> QED BY ONLY <2>6 DEF ToldOf
  <2> HIDE DEF j, x, predictions
  <2> QED
    BY ONLY <2>4, <2>5, <2>7 DEF x
<1> HIDE DEF predictions
<1> QED
  BY ONLY <1>4, <1>5

\* The answer for a context tells its records, each once, most probable first.
LEMMA AnswerTells ==
  ASSUME NEW e, NEW entries, AsList(entries), BeginsWith(e.lexicon, entries), UniqueForms(entries),
         NEW width \in Nat, NEW records, GoodRecords(records, width), RecordsAccepted(records),
         NEW index, Holding(index, entries, records),
         NEW limit \in Nat,
         \A c \in ListedContexts(entries, records) : Len(Group(entries, records, c)) <= limit,
         NEW ws \in [1..width -> Spelled],
         NEW V, NEW found \in [1..width -> V], PointsAt(entries, width, ws, found),
         NEW source, NEW said, found \in DOMAIN index => said = source
  PROVE  /\ found \in DOMAIN index <=> RecordsOf(entries, records, ws) # {}
         /\ Tells(NextAfter(e, said, index, found, limit), source, entries, records, ws)
<1> DEFINE R == RecordsOf(entries, records, ws)
           c == Indices(entries, ws)
           C == ListedContexts(entries, records)
           S == GroupSet(entries, records, c)
           group == Group(entries, records, c)
           answer == NextAfter(e, said, index, found, limit)
           told == answer.predictions
<1>1. /\ R # {} <=> c \in C
      /\ c \in C => S = {records[r] : r \in R} /\ Cardinality(S) = Cardinality(R)
  BY RecordsAreGroup
<1>2. /\ found \in DOMAIN index <=> c \in C
      /\ c \in C => found = Shifted(c)
  <2>1. FoundAs(index, entries, records, c, found)
    <3> HIDE DEF c
    <3>1. c = Indices(entries, ws)
      BY DEF c
    <3> QED
      BY ONLY <3>1, AsList(entries), width \in Nat, GoodRecords(records, width),
              Holding(index, entries, records), ws \in [1..width -> Spelled],
              found \in [1..width -> V], PointsAt(entries, width, ws, found), ContextIsFound
  <2> HIDE DEF c
  <2> QED
    BY ONLY <2>1 DEF FoundAs, C
<1>3. found \in DOMAIN index <=> R # {}
  <2> HIDE DEF R, c, C
  <2> QED BY ONLY <1>1, <1>2
<1>4. answer.source = said
      /\ told = IF found \in DOMAIN index THEN Told(e, index[found], limit) ELSE <<>>
  BY DEF NextAfter
<1>5. CASE R = {}
  <2>1. told = <<>>
    <3> HIDE DEF R, told
    <3> QED BY ONLY <1>3, <1>4, <1>5
  <2>2. Cardinality(R) = 0
    BY <1>5, FS_EmptySet
  <2> HIDE DEF told, R, answer
  <2>3. /\ {told[k] : k \in DOMAIN told} = {ToldOf(entries, records[r]) : r \in R}
        /\ Len(told) = Cardinality(R)
        /\ \A k, l \in DOMAIN told : k < l => told[k].probability >= told[l].probability
    BY ONLY <1>5, <2>1, <2>2
  <2>4. Tells(answer, source, entries, records, ws)
    BY ONLY <1>5, <2>3 DEF Tells, R, told
  <2> QED
    BY ONLY <1>3, <2>4 DEF R, answer
<1>6. CASE R # {}
  <2>1. c \in C /\ found \in DOMAIN index /\ found = Shifted(c) /\ said = source
    <3> HIDE DEF R, c, C
    <3> QED BY <1>1, <1>2, <1>6
  <2>2. index[found] = PredictionsIn(entries, group)
    BY <2>1 DEF Holding
  <2>3. Writable(entries, group) /\ Len(group) <= limit
    <3>1. Len(group) <= limit
      BY <2>1
    <3> HIDE DEF c
    <3> QED BY <2>1, <3>1, GroupIsWritable
  <2>4. /\ group \in Seq(S) /\ Len(group) = Cardinality(S)
        /\ \A x \in S : \E k \in DOMAIN group : group[k] = x
        /\ \A k, l \in DOMAIN group : k < l <=> PredictionLess(group[k], group[l])
    <3>1. \A i \in DOMAIN c : c[i] # Unlisted
      BY <2>1 DEF ListedContexts
    <3> HIDE DEF c
    <3> QED BY <3>1, GroupIs
  <2>5. told = [k \in 1..Len(group) |-> ToldOf(entries, group[k])]
    <3>1. told = Told(e, PredictionsIn(entries, group), limit)
      <4> HIDE DEF told, group
      <4> QED BY ONLY <1>4, <2>1, <2>2
    <3> HIDE DEF told, group
    <3> QED BY <2>3, <3>1, GroupIsTold
  <2>6. S = {records[r] : r \in R} /\ Cardinality(S) = Cardinality(R)
    BY ONLY <1>1, <2>1
  <2> DEFINE m == Len(group)
  <2>7. m \in Nat /\ DOMAIN group = 1..m /\ \A k \in 1..m : group[k] \in S
    <3> HIDE DEF group, S
    <3> QED BY ONLY <2>4
  <2>8. /\ DOMAIN told = 1..m /\ \A k \in 1..m : told[k] = ToldOf(entries, group[k])
        /\ Len(told) = m
    <3> DEFINE at == [k \in 1..m |-> ToldOf(entries, group[k])]
               X == {at[k] : k \in 1..m}
    <3>1. at \in [1..m -> X] /\ DOMAIN at = 1..m /\ \A k \in 1..m : at[k] = ToldOf(entries, group[k])
      OBVIOUS
    <3> HIDE DEF at, X, m, told
    <3>2. Len(at) = m
      BY ONLY <2>7, <3>1
    <3> QED
      BY ONLY <2>5, <3>1, <3>2 DEF at, m
  <2>9. \A x \in S : x.probability \in Nat
    <3>1. \A r \in DOMAIN records : records[r].probability \in Nat
      BY ListIs DEF GoodRecords, RecordType
    <3>2. R \subseteq DOMAIN records
      BY DEF RecordsOf
    <3> HIDE DEF R, S
    <3> QED BY ONLY <2>6, <3>1, <3>2
  <2>10. \A x, y \in S : PredictionLess(x, y) => x.probability >= y.probability
    <3> HIDE DEF S
    <3> QED BY ONLY <2>9 DEF PredictionLess
  <2> HIDE DEF told, group, S, m, answer, c
  <2>11. {told[k] : k \in DOMAIN told} = {ToldOf(entries, records[r]) : r \in R}
    <3>1. ASSUME NEW k \in DOMAIN told PROVE \E r \in R : told[k] = ToldOf(entries, records[r])
      <4>1. k \in 1..m /\ group[k] \in S /\ told[k] = ToldOf(entries, group[k])
        BY ONLY <2>7, <2>8, <3>1
      <4>2. PICK r \in R : group[k] = records[r]
        BY ONLY <2>6, <4>1
      <4> QED
        BY ONLY <4>1, <4>2
    <3>2. ASSUME NEW r \in R PROVE \E k \in DOMAIN told : told[k] = ToldOf(entries, records[r])
      <4>1. records[r] \in S
        BY ONLY <2>6, <3>2
      <4>2. PICK k \in DOMAIN group : group[k] = records[r]
        BY ONLY <2>4, <4>1
      <4>3. k \in DOMAIN told /\ told[k] = ToldOf(entries, records[r])
        BY ONLY <2>7, <2>8, <4>2
      <4> QED
        BY ONLY <4>3
    <3> HIDE DEF R
    <3> QED
      BY ONLY <3>1, <3>2
  <2>12. Len(told) = Cardinality(R)
    BY ONLY <2>4, <2>6, <2>8 DEF m
  <2>13. \A k, l \in DOMAIN told : k < l => told[k].probability >= told[l].probability
    <3> SUFFICES ASSUME NEW k \in DOMAIN told, NEW l \in DOMAIN told, k < l
                 PROVE  told[k].probability >= told[l].probability
      OBVIOUS
    <3>1. k \in 1..m /\ l \in 1..m
      BY ONLY <2>8, k \in DOMAIN told, l \in DOMAIN told
    <3>2. group[k] \in S /\ group[l] \in S /\ PredictionLess(group[k], group[l])
      BY ONLY <2>4, <2>7, <3>1, k < l
    <3>3. group[k].probability >= group[l].probability
      BY ONLY <2>10, <3>2
    <3>4. /\ told[k].probability = group[k].probability
          /\ told[l].probability = group[l].probability
      BY ONLY <2>8, <3>1 DEF ToldOf
    <3> QED
      BY ONLY <3>3, <3>4
  <2>14. Tells(answer, source, entries, records, ws)
    <3> HIDE DEF R
    <3>1. /\ R # {} => answer.source = source
          /\ {told[k] : k \in DOMAIN told} = {ToldOf(entries, records[r]) : r \in R}
          /\ Len(told) = Cardinality(R)
          /\ \A k, l \in DOMAIN told : k < l => told[k].probability >= told[l].probability
      BY ONLY <1>4, <2>1, <2>11, <2>12, <2>13
    <3> QED
      BY ONLY <3>1 DEF Tells, told, R
  <2> QED
    BY ONLY <1>3, <2>14 DEF R, answer
<1> QED
  BY ONLY <1>5, <1>6

\* The groups of a section fit an answer.
LEMMA GroupsFit ==
  ASSUME NEW entries, AsList(entries), NEW width \in Nat, NEW records, GoodRecords(records, width),
         NEW maximum \in Nat, SectionCompiles(entries, records, maximum), maximum <= MaxResults
  PROVE  \A c \in ListedContexts(entries, records) : Len(Group(entries, records, c)) <= MaxResults
<1> SUFFICES ASSUME NEW c \in ListedContexts(entries, records)
             PROVE  Len(Group(entries, records, c)) <= MaxResults
  OBVIOUS
<1> DEFINE m == Len(Group(entries, records, c))
<1>1. m <= maximum /\ RecordsAccepted(records)
  BY DEF SectionCompiles
<1>2. m \in Nat
  <2>1. Writable(entries, Group(entries, records, c))
    BY <1>1, GroupIsWritable
  <2> QED
    BY <2>1 DEF Writable
<1> HIDE DEF m
<1>3. m <= MaxResults
  BY ONLY <1>1, <1>2, maximum \in Nat, maximum <= MaxResults, BoundsAssumption
<1> QED
  BY ONLY <1>3 DEF m

\* What predict_next asks for a text of one or three normalized words.
LEMMA AskedFor ==
  ASSUME NEW e, NEW v, NEW w, Normalize(v) = v, Normalize(w) = w,
         NEW i, i = FindLexiconIndex(e, v), NEW j, j = FindLexiconIndex(e, w)
  PROVE  /\ ApiPredictNext(e, <<w>>, MaxResults)
              = NextAfter(e, "Bigram", e.bigrams, <<j>>, MaxResults)
         /\ ApiPredictNext(e, <<w, v, w>>, MaxResults) = BackOff(e, <<i, j>>, j, MaxResults)
<1>1. Clamp(MaxResults) = MaxResults /\ MaxResults # 0
  BY BoundsAssumption DEF Clamp
<1>2. Len(<<w>>) = 1 /\ <<w>>[1] = w /\ Len(<<w, v, w>>) = 3
      /\ <<w, v, w>>[2] = v /\ <<w, v, w>>[3] = w
  OBVIOUS
<1>3. ApiPredictNext(e, <<w>>, MaxResults) = PredictNext(e, w, MaxResults)
  BY <1>1, <1>2 DEF ApiPredictNext
<1>4. ApiPredictNext(e, <<w, v, w>>, MaxResults) = PredictNextWithContext(e, v, w, MaxResults)
  BY <1>1, <1>2 DEF ApiPredictNext
<1>5. PredictNext(e, w, MaxResults) = NextAfter(e, "Bigram", e.bigrams, <<j>>, MaxResults)
  BY DEF PredictNext
<1>6. PredictNextWithContext(e, v, w, MaxResults) = BackOff(e, <<i, j>>, j, MaxResults)
  BY DEF PredictNextWithContext
<1> QED
  BY <1>3, <1>4, <1>5, <1>6

\* A pack that was compiled, loaded and perhaps appended to predicts the records it was
\* compiled from: all of them and no other, each one once, most probable first, the
\* trigrams of two words before the bigrams of the last.
THEOREM CompiledRecordsArePredicted == Spec => []CompiledIsPredicted
<1>1. ASSUME Inv, Derived, built # NoInput, UniqueForms(built.entries),
             NEW v \in Spelled, v # <<>>, Normalize(v) = v,
             NEW w \in Spelled, w # <<>>, Normalize(w) = w
      PROVE  /\ Tells(ApiPredictNext(engine, <<w>>, MaxResults), "Bigram", built.entries,
                      built.bigrams, <<w>>)
             /\ IF RecordsOf(built.entries, built.trigrams, <<v, w>>) # {}
                THEN Tells(ApiPredictNext(engine, <<w, v, w>>, MaxResults), "Trigram",
                           built.entries, built.trigrams, <<v, w>>)
                ELSE Tells(ApiPredictNext(engine, <<w, v, w>>, MaxResults), "BigramBackoff",
                           built.entries, built.bigrams, <<w>>)
  <2> DEFINE entries == built.entries
             bigrams == built.bigrams
             trigrams == built.trigrams
             pairs == engine.bigrams
             triples == engine.trigrams
             i == FindLexiconIndex(engine, v)
             j == FindLexiconIndex(engine, w)
             V == {i, j}
             last == <<w>>
             both == <<v, w>>
             one == <<j>>
             two == <<i, j>>
  <2>1. /\ built \in Inputs /\ Compiles(built) /\ BeginsWith(engine.lexicon, entries)
        /\ Holding(pairs, entries, bigrams) /\ Holding(triples, entries, trigrams)
    BY <1>1 DEF Derived, DerivedFrom
  <2>2. /\ AsList(entries) /\ GoodRecords(bigrams, 1) /\ GoodRecords(trigrams, 2)
        /\ RecordsAccepted(bigrams) /\ RecordsAccepted(trigrams)
    BY <2>1, InputIs
  <2>3. /\ SectionCompiles(entries, bigrams, MaxBigramPredictions)
        /\ SectionCompiles(entries, trigrams, MaxTrigramPredictions)
    BY <2>1 DEF Compiles, BigramsCompile, TrigramsCompile
  <2>4. MaxBigramPredictions \in Nat /\ MaxTrigramPredictions \in Nat
        /\ 1 \in Nat /\ 2 \in Nat /\ MaxResults \in Nat
        /\ MaxBigramPredictions <= MaxResults /\ MaxTrigramPredictions <= MaxResults
    BY FormatAssumption, BoundsAssumption
  <2>5. UniqueForms(entries) /\ WellFormed(engine)
    BY <1>1 DEF Inv
  <2> HIDE DEF entries, bigrams, trigrams, pairs, triples
  <2>6. \A c \in ListedContexts(entries, bigrams) : Len(Group(entries, bigrams, c)) <= MaxResults
    BY ONLY <2>2, <2>3, <2>4, GroupsFit
  <2>7. \A c \in ListedContexts(entries, trigrams) : Len(Group(entries, trigrams, c)) <= MaxResults
    BY ONLY <2>2, <2>3, <2>4, GroupsFit
  <2>8. Points(entries, v, i) /\ Points(entries, w, j)
    BY ONLY <1>1, <2>1, <2>2, <2>5, WordIsFound
  <2>9. /\ ApiPredictNext(engine, <<w>>, MaxResults) = NextAfter(engine, "Bigram", pairs, one, MaxResults)
        /\ ApiPredictNext(engine, <<w, v, w>>, MaxResults) = BackOff(engine, two, j, MaxResults)
    <3>1. Normalize(v) = v /\ Normalize(w) = w
      BY ONLY <1>1
    <3>2. i = FindLexiconIndex(engine, v) /\ j = FindLexiconIndex(engine, w)
      OBVIOUS
    <3> HIDE DEF i, j
    <3> QED
      BY ONLY <3>1, <3>2, AskedFor DEF pairs
  <2> HIDE DEF i, j
  <2>10. /\ last \in [1..1 -> Spelled] /\ one \in [1..1 -> V]
         /\ both \in [1..2 -> Spelled] /\ two \in [1..2 -> V]
         /\ PointsAt(entries, 1, last, one) /\ PointsAt(entries, 2, both, two)
    <3>1. last \in [1..1 -> Spelled] /\ both \in [1..2 -> Spelled]
      BY <1>1
    <3>2. one \in [1..1 -> V] /\ two \in [1..2 -> V]
      OBVIOUS
    <3>3. PointsAt(entries, 1, last, one)
      BY ONLY <2>8 DEF PointsAt
    <3>4. PointsAt(entries, 2, both, two)
      BY ONLY <2>8 DEF PointsAt
    <3> QED
      BY ONLY <3>1, <3>2, <3>3, <3>4
  <2> HIDE DEF V, last, both, one, two
  <2>11. ASSUME NEW said, NEW source, one \in DOMAIN pairs => said = source
         PROVE  Tells(NextAfter(engine, said, pairs, one, MaxResults), source, entries, bigrams, last)
    BY ONLY <2>1, <2>2, <2>4, <2>5, <2>6, <2>10, <2>11, AnswerTells
  <2>12. /\ two \in DOMAIN triples <=> RecordsOf(entries, trigrams, both) # {}
         /\ Tells(NextAfter(engine, "Trigram", triples, two, MaxResults), "Trigram", entries,
                  trigrams, both)
    BY ONLY <2>1, <2>2, <2>4, <2>5, <2>7, <2>10, AnswerTells
  <2>13. BackOff(engine, two, j, MaxResults)
           = IF two \in DOMAIN triples THEN NextAfter(engine, "Trigram", triples, two, MaxResults)
             ELSE NextAfter(engine, IF one \in DOMAIN pairs THEN "BigramBackoff" ELSE "None",
                            pairs, one, MaxResults)
    BY DEF BackOff, triples, pairs, one
  <2>14. Tells(ApiPredictNext(engine, <<w>>, MaxResults), "Bigram", entries, bigrams, last)
    BY ONLY <2>9, <2>11
  <2>15. CASE two \in DOMAIN triples
    <3>1. ApiPredictNext(engine, <<w, v, w>>, MaxResults)
            = NextAfter(engine, "Trigram", triples, two, MaxResults)
      BY ONLY <2>9, <2>13, <2>15
    <3>2. RecordsOf(entries, trigrams, both) # {}
      BY ONLY <2>12, <2>15
    <3> QED
      BY ONLY <2>12, <2>14, <3>1, <3>2 DEF entries, bigrams, trigrams, last, both
  <2>16. CASE two \notin DOMAIN triples
    <3> DEFINE said == IF one \in DOMAIN pairs THEN "BigramBackoff" ELSE "None"
    <3>1. ApiPredictNext(engine, <<w, v, w>>, MaxResults)
            = NextAfter(engine, said, pairs, one, MaxResults)
      BY ONLY <2>9, <2>13, <2>16
    <3>2. RecordsOf(entries, trigrams, both) = {}
      BY ONLY <2>12, <2>16
    <3>3. one \in DOMAIN pairs => said = "BigramBackoff"
      OBVIOUS
    <3> HIDE DEF said
    <3>4. Tells(NextAfter(engine, said, pairs, one, MaxResults), "BigramBackoff", entries,
                bigrams, last)
      BY ONLY <2>11, <3>3
    <3> QED
      BY ONLY <2>14, <3>1, <3>2, <3>4 DEF entries, bigrams, trigrams, last, both
  <2> QED
    BY ONLY <2>15, <2>16
<1>2. Inv /\ Derived => CompiledIsPredicted
  BY ONLY <1>1 DEF CompiledIsPredicted, UniqueForms
<1> QED
  BY <1>2, InvHolds, DerivedHolds, PTL

(***************************************************************************)
(* The trie and the index are those of the lexicon.                        *)
(***************************************************************************)
Rebuilt ==
  \/ engine.trie = LexiconTrie(engine.lexicon) /\ engine.index = IndexOf(engine.lexicon)
  \/ engine.lexicon = <<>> /\ engine.trie = EmptyTrie /\ engine.index = EmptyIndex

\* A load of a pack rebuilds the trie and the index or leaves all as it was.
LEMMA LoadKeepsRebuilt ==
  ASSUME Rebuilt, NEW pack, NEW input, LoadBinaryPack(pack, input)
  PROVE  Rebuilt'
<1> DEFINE d == Decoded(pack)
<1>1. CASE d.fault # NoFault
  BY <1>1 DEF LoadBinaryPack, Rebuilt
<1>2. CASE d.fault = NoFault
  <2>1. engine' = [lexicon  |-> d.lexicon,
                   trie     |-> LexiconTrie(d.lexicon),
                   index    |-> IndexOf(d.lexicon),
                   bigrams  |-> d.bigrams,
                   trigrams |-> d.trigrams]
    BY <1>2 DEF LoadBinaryPack
  <2> HIDE DEF d
  <2>2. /\ engine'.lexicon = d.lexicon /\ engine'.trie = LexiconTrie(d.lexicon)
        /\ engine'.index = IndexOf(d.lexicon)
    BY ONLY <2>1
  <2> QED
    BY ONLY <2>2 DEF Rebuilt
<1> QED
  BY <1>1, <1>2

\* An append of entries rebuilds them, or leaves all as it was.
LEMMA AppendKeepsRebuilt ==
  ASSUME Inv, Rebuilt, NEW entries \in Batches, LoadLexicon(entries)
  PROVE  Rebuilt'
<1> DEFINE lexicon == engine.lexicon \o entries
<1>1. CASE TextOf(lexicon) > TextLimit
  BY <1>1 DEF LoadLexicon, Rebuilt
<1>2. CASE ~(TextOf(lexicon) > TextLimit)
  <2>1. engine' = [engine EXCEPT !.lexicon = lexicon,
                                 !.trie = LexiconTrie(lexicon),
                                 !.index = IndexOf(lexicon)]
    BY <1>2 DEF LoadLexicon
  <2>2. DOMAIN engine = {"lexicon", "trie", "index", "bigrams", "trigrams"}
    BY DEF Inv, WellFormed
  <2> HIDE DEF lexicon
  <2>3. /\ engine'.lexicon = lexicon /\ engine'.trie = LexiconTrie(lexicon)
        /\ engine'.index = IndexOf(lexicon)
    BY ONLY <2>1, <2>2
  <2> QED
    BY ONLY <2>3 DEF Rebuilt
<1> QED
  BY <1>1, <1>2

\* The trie and the index are those of the lexicon in every state.
LEMMA RebuiltHolds == Spec => []Rebuilt
<1>1. Init => Rebuilt
  BY DEF Init, Rebuilt, EmptyEngine
<1>2. Inv /\ Rebuilt /\ [Next]_vars => Rebuilt'
  <2> SUFFICES ASSUME Inv, Rebuilt, [Next]_vars PROVE Rebuilt'
    OBVIOUS
  <2>1. CASE LoadIntact
    BY <2>1, LoadKeepsRebuilt DEF LoadIntact
  <2>2. CASE LoadDamaged
    BY <2>2, LoadKeepsRebuilt DEF LoadDamaged
  <2>3. ASSUME NEW entries \in Batches, LoadLexicon(entries) PROVE Rebuilt'
    BY <2>3, AppendKeepsRebuilt
  <2>4. CASE UNCHANGED vars
    BY <2>4 DEF vars, Rebuilt
  <2> QED
    BY <2>1, <2>2, <2>3, <2>4 DEF Next
<1> QED
  BY <1>1, <1>2, InvHolds, PTL DEF Spec

\* Membership, search by prefix and the order of the labels, in every state.
THEOREM TrieHoldsLexicon == Spec => []TrieIsItsLexicon
<1>1. ASSUME Inv, Rebuilt PROVE TrieIsItsLexicon
  <2> DEFINE words == {engine.lexicon[i].normalized : i \in DOMAIN engine.lexicon}
             t == engine.trie
  <2>1. \A s \in DOMAIN Spelling : Spelling[s] \in Seq(Nat)
    BY SpelledAre DEF Spelled, Range
  <2>2. CASE engine.trie = LexiconTrie(engine.lexicon)
    <3> DEFINE lexicon == engine.lexicon
               m == Len(lexicon)
               inserted == [i \in DOMAIN lexicon |-> [word |-> lexicon[i].normalized, value |-> lexicon[i].zipf]]
    <3>1. AsList(lexicon) /\ \A i \in DOMAIN lexicon : lexicon[i].normalized \in Seq(Nat)
      <4>1. GoodLexicon(lexicon)
        BY <1>1 DEF Inv, WellFormed
      <4> HIDE DEF lexicon
      <4>2. AsList(lexicon) /\ \A i \in DOMAIN lexicon : lexicon[i].normalized \in Spelled
        BY <4>1 DEF GoodLexicon
      <4> QED
        BY <4>2, SpelledAre
    <3>2. m \in Nat /\ DOMAIN lexicon = 1..m
      BY <3>1, ListIs
    <3>3. DOMAIN inserted = 1..m /\ \A j \in 1..m : inserted[j].word = lexicon[j].normalized
      BY <3>2
    <3>4. t = TrieOf(inserted)
      BY <2>2 DEF LexiconTrie
    <3>5. words = {inserted[j].word : j \in 1..m}
      BY <3>2, <3>3
    <3> HIDE DEF inserted, m, lexicon
    <3>6. \A j \in 1..m : inserted[j].word \in Seq(Nat)
      BY ONLY <3>1, <3>2, <3>3
    <3> HIDE DEF words, t
    <3>7. HoldsWords(t, words)
      BY ONLY <3>2, <3>3, <3>4, <3>5, <3>6, TrieHolds
    <3>8. \A s \in DOMAIN Spelling :
            LET hits == FindByPrefix(t, Spelling[s])
            IN  /\ Contains(t, Spelling[s]) <=> Spelling[s] \in words
                /\ [k \in DOMAIN hits |-> hits[k].word]
                     = Ranked({w \in words : StartsWith(w, Spelling[s])}, WordLess)
      BY <2>1, <3>7, HeldAre, HitsAre
    <3>9. \A x \in DOMAIN t.label : \A a, b \in Children(t, x) : a < b => t.label[a] < t.label[b]
      BY <3>7, LabelsAscend
    <3> QED
      BY <3>8, <3>9 DEF TrieIsItsLexicon, words, t
  <2>3. CASE engine.lexicon = <<>> /\ engine.trie = EmptyTrie
    <3>1. words = {} /\ t = EmptyTrie /\ DOMAIN t.label = {}
      BY <2>3 DEF EmptyTrie
    <3> HIDE DEF words, t
    <3>2. ASSUME NEW s \in DOMAIN Spelling
          PROVE  /\ ~Contains(t, Spelling[s])
                 /\ FindByPrefix(t, Spelling[s]) = <<>>
      <4>1. Walk(EmptyTrie, Spelling[s]) = NoNode
        BY <2>1, EmptyWalk
      <4> QED
        BY <3>1, <4>1 DEF Contains, FindByPrefix
    <3>3. \A s \in DOMAIN Spelling : Ranked({w \in words : StartsWith(w, Spelling[s])}, WordLess) = <<>>
      <4> SUFFICES ASSUME NEW s \in DOMAIN Spelling
                   PROVE  Ranked({w \in words : StartsWith(w, Spelling[s])}, WordLess) = <<>>
        OBVIOUS
      <4> DEFINE S == {w \in words : StartsWith(w, Spelling[s])}
      <4>1. S = {} /\ Cardinality(S) = 0
        BY <3>1, FS_EmptySet
      <4> HIDE DEF S
      <4>2. InWordOrder(S) = <<>>
        <5>1. 1..Cardinality(S) = {}
          BY <4>1
        <5> QED
          BY <5>1 DEF InWordOrder
      <4> QED
        BY <4>2, WordsAreRanked DEF S
    <3>4. \A s \in DOMAIN Spelling :
            LET hits == FindByPrefix(t, Spelling[s])
            IN  /\ Contains(t, Spelling[s]) <=> Spelling[s] \in words
                /\ [k \in DOMAIN hits |-> hits[k].word]
                     = Ranked({w \in words : StartsWith(w, Spelling[s])}, WordLess)
      <4>1. \A e : e \notin words
        BY <3>1
      <4>2. [k \in DOMAIN (<<>>) |-> (<<>>)[k].word] = <<>>
        OBVIOUS
      <4> QED
        BY <3>2, <3>3, <4>1, <4>2
    <3> QED
      BY <3>1, <3>4 DEF TrieIsItsLexicon, words, t
  <2> QED
    BY <1>1, <2>2, <2>3 DEF Rebuilt
<1> QED
  BY <1>1, InvHolds, RebuiltHolds, PTL

\* The positions whose stripped form is near, each once, in ascending order.
NearAre(near, lexicon, w, limit) ==
  /\ {near[k] : k \in DOMAIN near}
       = {i \in DOMAIN lexicon : UnitDistance(StripDiacritics(lexicon[i].normalized), w) <= limit}
  /\ near = Ascending({near[k] : k \in DOMAIN near})

\* The positions the index finds, of the lexicon it was built from.
LEMMA NearPositionsAre ==
  ASSUME Inv, Rebuilt, NEW w \in Seq(Nat), NEW limit \in Nat,
         NEW lexicon, lexicon = engine.lexicon,
         NEW near, near = NearPositions(engine.index, w, limit)
  PROVE  NearAre(near, lexicon, w, limit)
<1>1. Formed(lexicon)
  BY GoodIsFormed DEF Inv, WellFormed
<1>2. PICK index : index = engine.index
  OBVIOUS
<1>3. CASE index = IndexOf(lexicon)
  <2>1. near = NearPositions(index, w, limit)
    BY <1>2
  <2> QED
    BY ONLY <1>1, <1>3, <2>1, w \in Seq(Nat), limit \in Nat, IndexFinds DEF NearAre
<1>4. CASE lexicon = <<>> /\ index = EmptyIndex
  <2>1. FuzzyTerminals(index.trie, w, limit) = <<>>
    BY <1>4 DEF EmptyIndex, EmptyTrie, FuzzyTerminals
  <2>2. near = Ascending({})
    <3>1. near = Ascending(PlacesIn(index.byStripped, <<>>))
      <4>1. near = NearPositions(index, w, limit)
        BY <1>2
      <4> QED
        BY ONLY <2>1, <4>1 DEF NearPositions, Ranked, Ascending, PlacesIn
    <3>2. PlacesIn(index.byStripped, <<>>) = {}
      BY DEF PlacesIn
    <3> QED
      BY ONLY <3>1, <3>2
  <2>3. {near[k] : k \in DOMAIN near} = {}
    BY ONLY <2>2, RankedPlaces, FS_EmptySet
  <2>4. \A i : i \notin DOMAIN lexicon
    BY <1>4
  <2> QED
    BY ONLY <2>2, <2>3, <2>4 DEF NearAre
<1> QED
  BY <1>2, <1>3, <1>4 DEF Rebuilt

\* The trie search finds exactly the stripped forms within the radius, in every state.
THEOREM FuzzySearchFindsNear == Spec => []FuzzySearchIsExact
<1>1. ASSUME Inv, Rebuilt PROVE FuzzySearchIsExact
  <2>1. Formed(engine.lexicon)
    BY <1>1, GoodIsFormed DEF Inv, WellFormed
  <2>2. ASSUME NEW q \in Queries
        PROVE  LET near == NearPositions(engine.index, StripDiacritics(q), MaxStrippedUnitDistance)
               IN  {near[k] : k \in DOMAIN near}
                     = {i \in DOMAIN engine.lexicon :
                          UnitDistance(StripDiacritics(engine.lexicon[i].normalized), StripDiacritics(q))
                            <= MaxStrippedUnitDistance}
    <3>1. PICK w : w = StripDiacritics(q)
      OBVIOUS
    <3>2. PICK limit : limit = MaxStrippedUnitDistance
      OBVIOUS
    <3>3. w \in Seq(Nat) /\ limit \in Nat
      BY <3>1, <3>2, StripType, BoundsAssumption DEF MaxStrippedUnitDistance
    <3>4. PICK index, lexicon : index = engine.index /\ lexicon = engine.lexicon
      OBVIOUS
    <3>5. PICK near : near = NearPositions(index, w, limit)
      OBVIOUS
    <3>6. {near[k] : k \in DOMAIN near}
            = {i \in DOMAIN lexicon :
                 UnitDistance(StripDiacritics(lexicon[i].normalized), w) <= limit}
      <4>1. near = NearPositions(engine.index, w, limit)
        BY <3>4, <3>5
      <4>2. lexicon = engine.lexicon
        BY <3>4
      <4>3. NearAre(near, lexicon, w, limit)
        BY ONLY <1>1, <3>3, <4>1, <4>2, NearPositionsAre
      <4> QED
        BY ONLY <4>3 DEF NearAre
    <3> QED
      BY ONLY <3>1, <3>2, <3>4, <3>5, <3>6
  <2> QED
    BY <2>2 DEF FuzzySearchIsExact
<1> QED
  BY <1>1, InvHolds, RebuiltHolds, PTL

(***************************************************************************)
(* What the index leaves out scores nothing.                               *)
(***************************************************************************)
\* A word is at no distance from itself.
LEMMA NoDistance ==
  ASSUME NEW v \in Seq(Nat)
  PROVE  UnitDistance(v, v) = 0
<1> DEFINE n == Len(v)
<1>1. PICK R : TableIs(R, v, n, v) /\ UnitDistance(v, v) = R[n + 1][n + 1]
  BY UnitDistanceIs
<1>2. n \in Nat
  OBVIOUS
<1> DEFINE T == {i \in Nat : i <= n => R[i + 1][i + 1] = 0}
<1>3. 0 \in T
  <2>1. R[1] = FirstRow(Len(v), 1) /\ 1 \in 1..(Len(v) + 1)
    BY <1>1 DEF TableIs
  <2>2. R[1][1] = 1 - 1
    BY <2>1, FirstRowIs
  <2> QED
    BY <2>2
<1>4. ASSUME NEW i \in T, i + 1 <= n PROVE R[(i + 1) + 1][(i + 1) + 1] = 0
  <2> DEFINE k == i + 1
  <2>1. i \in Nat /\ k \in 1..n /\ R[k][k] = 0
    BY <1>4
  <2>2. UnitCell(R, v, v, k, k)
    <3>1. k \in 1..Len(v)
      BY <2>1
    <3> HIDE DEF k
    <3> QED
      BY <1>1, <1>2, <2>1, <3>1, UnitCellIs
  <2> HIDE DEF k
  <2>3. R[k + 1][k + 1] \in Nat /\ R[k + 1][k + 1] <= R[k][k] + UnitCost(v[k], v[k])
    BY <2>2 DEF UnitCell
  <2>4. UnitCost(v[k], v[k]) = 0
    BY DEF UnitCost
  <2>5. R[k + 1][k + 1] = 0
    BY ONLY <2>1, <2>3, <2>4
  <2> QED
    BY <2>5 DEF k
<1>5. \A i \in T \cap Nat : i + 1 \in T
  BY <1>4
<1>6. Nat \subseteq T
  <2> HIDE DEF T
  <2> QED BY <1>3, <1>5, Induction
<1>7. R[n + 1][n + 1] = 0
  BY <1>2, <1>6
<1> QED
  BY <1>1, <1>7

AddsNothing(lexicon, i, query, u) == \A r : ScoreEntry(lexicon, i, query, u, r) = r

\* The radius: what the index does not visit is neither restored nor near enough.
LEMMA FarIsSkipped ==
  ASSUME NEW lexicon, NEW i, NEW w \in Seq(Nat), w = lexicon[i].normalized, Normalize(w) = w,
         NEW query \in Seq(Nat), Normalize(query) = query,
         ~(UnitDistance(StripDiacritics(w), StripDiacritics(query)) <= MaxStrippedUnitDistance),
         NEW u
  PROVE  AddsNothing(lexicon, i, query, u)
<1>1. PICK x, y : x = Unaccented(query) /\ y = Unaccented(w)
  OBVIOUS
<1>2. StripDiacritics(w) = y /\ StripDiacritics(query) = x
  BY <1>1 DEF StripDiacritics
<1>3. x \in Seq(Nat) /\ y \in Seq(Nat)
  BY <1>1, UnaccentedIs
<1>4. ~(UnitDistance(y, x) <= 2)
  BY <1>2 DEF MaxStrippedUnitDistance
<1>5. y # x
  <2> SUFFICES ASSUME y = x PROVE FALSE
    OBVIOUS
  <2>1. UnitDistance(y, x) = 0
    BY <1>3, NoDistance
  <2> QED
    BY ONLY <1>4, <2>1
<1>6. ~(WeightedDistance(query, w) <= MaxEdit)
  <2>1. PICK d, e : d = UnitDistance(y, x) /\ e = WeightedDistance(query, w)
    OBVIOUS
  <2>2. d \in Nat /\ e \in Nat /\ 3 * d <= e
    BY <1>1, <2>1, DistancesCompare
  <2>3. ~(d <= 2)
    BY ONLY <1>4, <2>1
  <2>4. ~(e <= 8)
    BY ONLY <2>2, <2>3
  <2> QED
    BY ONLY <2>1, <2>4 DEF MaxEdit
<1> QED
  BY ONLY <1>2, <1>5, <1>6, w = lexicon[i].normalized, Zenon DEF ScoreEntry, AddsNothing

ScoredTo(f, m, lexicon, order, query, u, ranks) ==
  f = [k \in 0..m |-> IF k = 0 THEN ranks ELSE ScoreEntry(lexicon, order[k], query, u, f[k - 1])]

\* The scores, one position after the other.
LEMMA ScoresExist ==
  ASSUME NEW n \in Nat, NEW lexicon, NEW order, NEW query, NEW u, NEW ranks
  PROVE  \E f : ScoredTo(f, n, lexicon, order, query, u, ranks)
<1> DEFINE Next1(r, k) == ScoreEntry(lexicon, order[k], query, u, r)
           T == {m \in Nat : \E f : ScoredTo(f, m, lexicon, order, query, u, ranks)}
<1>1. 0 \in T
  <2> DEFINE f == [k \in 0..0 |-> ranks]
  <2>1. ScoredTo(f, 0, lexicon, order, query, u, ranks)
    BY DEF ScoredTo
  <2> QED
    BY <2>1
<1>2. ASSUME NEW m \in T PROVE \E f : ScoredTo(f, m + 1, lexicon, order, query, u, ranks)
  <2>1. PICK f : ScoredTo(f, m, lexicon, order, query, u, ranks)
    BY <1>2
  <2> DEFINE h == [k \in 0..(m + 1) |-> IF k = m + 1 THEN Next1(f[m], m + 1) ELSE f[k]]
  <2>2. m \in Nat
    BY <1>2
  <2>3. f = [k \in 0..m |-> IF k = 0 THEN ranks ELSE Next1(f[k - 1], k)]
    BY <2>1 DEF ScoredTo
  <2> HIDE DEF Next1
  <2>4. ASSUME NEW k \in 0..(m + 1)
        PROVE  h[k] = IF k = 0 THEN ranks ELSE Next1(h[k - 1], k)
    <3>1. CASE k = m + 1
      <4>1. k - 1 = m /\ m \in 0..(m + 1) /\ m # m + 1 /\ k # 0
        BY <2>2, <3>1
      <4>2. h[k] = Next1(f[m], k) /\ h[m] = f[m]
        BY <3>1, <4>1
      <4> QED
        BY <4>1, <4>2
    <3>2. CASE k # m + 1
      <4>1. k \in 0..m /\ (k # 0 => k - 1 \in 0..m)
        BY <2>2, <3>2
      <4>2. f[k] = IF k = 0 THEN ranks ELSE Next1(f[k - 1], k)
        BY <2>3, <4>1
      <4>3. h[k] = f[k] /\ (k # 0 => h[k - 1] = f[k - 1])
        BY <2>2, <3>2, <4>1
      <4> QED
        BY <4>2, <4>3
    <3> QED
      BY <3>1, <3>2
  <2>5. ScoredTo(h, m + 1, lexicon, order, query, u, ranks)
    <3>1. h = [k \in 0..(m + 1) |-> h[k]]
      OBVIOUS
    <3> HIDE DEF h
    <3>2. h = [k \in 0..(m + 1) |-> IF k = 0 THEN ranks ELSE Next1(h[k - 1], k)]
      BY <2>4, <3>1
    <3> QED
      BY <3>2 DEF ScoredTo, Next1
  <2> HIDE DEF h
  <2> QED
    BY <2>5
<1>3. \A m \in T \cap Nat : m + 1 \in T
  BY <1>2
<1>4. Nat \subseteq T
  <2> HIDE DEF T
  <2> QED BY <1>1, <1>3, Induction
<1> QED
  BY <1>4

\* f holds the candidates after each of the n positions of order.
ScoredBy(f, n, lexicon, order, query, u, ranks) ==
  /\ ScoreAll(lexicon, order, query, u, ranks) = f[n]
  /\ f[0] = ranks
  /\ \A k \in 1..n : f[k] = ScoreEntry(lexicon, order[k], query, u, f[k - 1])

LEMMA ScoreAllIs ==
  ASSUME NEW lexicon, NEW order, NEW n \in Nat, Len(order) = n, NEW query, NEW u, NEW ranks
  PROVE  \E f : ScoredBy(f, n, lexicon, order, query, u, ranks)
<1> DEFINE F == CHOOSE f : f = [k \in 0..n |->
                  IF k = 0 THEN ranks ELSE ScoreEntry(lexicon, order[k], query, u, f[k - 1])]
<1>1. ScoreAll(lexicon, order, query, u, ranks) = F[n]
  BY DEF ScoreAll
<1>2. PICK f : ScoredTo(f, n, lexicon, order, query, u, ranks)
  BY ScoresExist
<1>3. f = [k \in 0..n |-> IF k = 0 THEN ranks ELSE ScoreEntry(lexicon, order[k], query, u, f[k - 1])]
  BY ONLY <1>2 DEF ScoredTo
<1>4. F = [k \in 0..n |-> IF k = 0 THEN ranks ELSE ScoreEntry(lexicon, order[k], query, u, F[k - 1])]
  BY ONLY <1>3 DEF F
<1> HIDE DEF F
<1>5. F[0] = ranks /\ \A k \in 1..n : F[k] = ScoreEntry(lexicon, order[k], query, u, F[k - 1])
  <2>1. 0 \in 0..n /\ \A k \in 1..n : k \in 0..n /\ k # 0
    OBVIOUS
  <2> QED
    BY ONLY <1>4, <2>1
<1>6. ScoredBy(F, n, lexicon, order, query, u, ranks)
  BY <1>1, <1>5 DEF ScoredBy
<1> QED
  BY <1>6

Covers(near, lexicon, n, query, u) ==
  near \subseteq 1..n /\ \A i \in 1..n : i \notin near => AddsNothing(lexicon, i, query, u)

EveryPosition(all, n) == Len(all) = n /\ \A i \in 1..n : all[i] = i

\* Scoring some of the positions in their order is scoring all, when the others add nothing.
LEMMA SkippedScores ==
  ASSUME NEW lexicon, NEW n \in Nat, NEW query, NEW u, NEW ranks,
         NEW near, Covers(near, lexicon, n, query, u), NEW all, EveryPosition(all, n),
         NEW some, some = Ascending(near)
  PROVE  ScoreAll(lexicon, all, query, u, ranks) = ScoreAll(lexicon, some, query, u, ranks)
<1>1. some = Ascending(near)
  OBVIOUS
<1>2. /\ Len(all) = n /\ \A i \in 1..n : all[i] = i
      /\ near \subseteq 1..n
      /\ \A i \in 1..n : i \notin near => AddsNothing(lexicon, i, query, u)
  BY DEF EveryPosition, Covers
<1>3. PICK c : c = Len(some)
  OBVIOUS
<1>4. /\ c \in Nat /\ \A l \in 1..c : some[l] \in near /\ some[l] \in 1..n
      /\ \A x \in near : \E l \in 1..c : some[l] = x
      /\ \A k, l \in 1..c : k < l <=> some[k] < some[l]
  <2>1. IsFiniteSet(near) /\ near \subseteq Nat
    <3>1. IsFiniteSet(1..n) /\ 1..n \subseteq Nat
      BY FS_Interval
    <3> QED
      BY <1>2, <3>1, FS_Subset
  <2>2. IsAscending(some, near)
    BY <1>1, <2>1, NumbersRanked
  <2>3. some \in Seq(near)
    BY <2>2 DEF IsAscending
  <2>4. c \in Nat /\ DOMAIN some = 1..c /\ \A l \in 1..c : some[l] \in near
    BY ONLY <1>3, <2>3
  <2> QED
    BY ONLY <1>2, <2>2, <2>4 DEF IsAscending
<1>5. PICK F : /\ ScoreAll(lexicon, all, query, u, ranks) = F[n]
               /\ F[0] = ranks
               /\ \A k \in 1..n : F[k] = ScoreEntry(lexicon, all[k], query, u, F[k - 1])
  <2>1. Len(all) = n
    BY <1>2
  <2>2. \E f : ScoredBy(f, n, lexicon, all, query, u, ranks)
    BY ONLY <2>1, n \in Nat, ScoreAllIs, ZenonT(60)
  <2> QED
    BY <2>2 DEF ScoredBy
<1>6. PICK G : /\ ScoreAll(lexicon, some, query, u, ranks) = G[c]
               /\ G[0] = ranks
               /\ \A k \in 1..c : G[k] = ScoreEntry(lexicon, some[k], query, u, G[k - 1])
  <2>1. Len(some) = c /\ c \in Nat
    BY <1>3, <1>4
  <2>2. \E f : ScoredBy(f, c, lexicon, some, query, u, ranks)
    BY ONLY <2>1, ScoreAllIs, ZenonT(60)
  <2> QED
    BY <2>2 DEF ScoredBy
<1> DEFINE At(k, j) == /\ F[k] = G[j]
                       /\ \A l \in 1..j : some[l] <= k
                       /\ \A l \in (j + 1)..c : some[l] > k
           T == {k \in Nat : k <= n => \E j \in 0..c : At(k, j)}
<1>7. 0 \in T
  <2>1. \A l \in 1..c : some[l] > 0
    <3>1. \A l \in 1..c : some[l] \in 1..n
      BY <1>4
    <3> QED
      BY ONLY <3>1, n \in Nat
  <2>2. At(0, 0)
    BY <1>4, <1>5, <1>6, <2>1
  <2>3. 0 \in 0..c
    BY <1>4
  <2> QED
    BY <2>2, <2>3
<1>8. ASSUME NEW k \in T, k + 1 <= n PROVE \E j \in 0..c : At(k + 1, j)
  <2> DEFINE i == k + 1
  <2>1. k \in Nat /\ i \in 1..n /\ i - 1 = k
    BY <1>8
  <2>2. PICK j \in 0..c : At(k, j)
    BY <1>8
  <2> HIDE DEF i
  <2>3. F[i] = ScoreEntry(lexicon, i, query, u, F[k])
    BY <1>2, <1>5, <2>1
  <2>4. CASE i \notin near
    <3>1. F[i] = G[j]
      BY <1>2, <2>1, <2>2, <2>3, <2>4 DEF AddsNothing
    <3>2. \A l \in 1..j : some[l] <= i
      <4> SUFFICES ASSUME NEW l \in 1..j PROVE some[l] <= i
        OBVIOUS
      <4>1. l \in 1..c /\ some[l] <= k
        BY <1>4, <2>2
      <4>2. some[l] \in 1..n
        BY <1>4, <4>1
      <4> QED
        BY <2>1, <4>1, <4>2 DEF i
    <3>3. \A l \in (j + 1)..c : some[l] > i
      <4> SUFFICES ASSUME NEW l \in (j + 1)..c PROVE some[l] > i
        OBVIOUS
      <4>1. l \in 1..c /\ some[l] > k
        BY <1>4, <2>2
      <4>2. some[l] \in near /\ some[l] \in 1..n
        BY <1>4, <4>1
      <4>3. some[l] # i
        BY <2>4, <4>2
      <4> QED
        BY <2>1, <4>1, <4>2, <4>3 DEF i
    <3>4. At(i, j)
      BY ONLY <3>1, <3>2, <3>3
    <3> QED
      BY <3>4 DEF i
  <2>5. CASE i \in near
    <3> DEFINE m == j + 1
    <3>1. PICK p \in 1..c : some[p] = i
      BY <1>4, <2>5
    <3>2. p \in Nat /\ j \in Nat /\ c \in Nat /\ i > k
      BY <1>4, <2>1 DEF i
    <3>3. ~(p <= j)
      <4> SUFFICES ASSUME p <= j PROVE FALSE
        OBVIOUS
      <4>1. p \in 1..j
        BY <3>2
      <4> QED
        BY <2>1, <2>2, <3>1, <3>2, <4>1
    <3>4. m \in 1..c /\ m <= p
      BY <3>2, <3>3
    <3>5. some[m] > k /\ some[m] \in 1..n
      <4>1. m \in (j + 1)..c
        BY <3>2, <3>4
      <4> HIDE DEF m
      <4> QED
        BY <1>4, <2>2, <3>4, <4>1
    <3>6. m = p
      <4> SUFFICES ASSUME m < p PROVE FALSE
        BY <3>2, <3>4
      <4>1. some[m] < some[p]
        BY <1>4, <3>4
      <4>2. some[m] < k + 1
        BY <3>1, <4>1 DEF i
      <4> HIDE DEF m
      <4> QED
        BY <2>1, <3>5, <4>2
    <3>7. some[m] = i /\ m - 1 = j
      BY <3>1, <3>2, <3>6
    <3> HIDE DEF m
    <3>8. F[i] = G[m]
      BY <1>6, <2>2, <2>3, <3>4, <3>7
    <3>9. \A l \in 1..m : some[l] <= i
      <4> SUFFICES ASSUME NEW l \in 1..m PROVE some[l] <= i
        OBVIOUS
      <4>1. l \in 1..c /\ (l = m \/ l < m)
        BY <3>2, <3>4
      <4>2. some[l] \in 1..n
        BY <1>4, <4>1
      <4>3. l < m => some[l] < some[m]
        BY <1>4, <3>4, <4>1
      <4> QED
        BY <2>1, <3>7, <4>1, <4>2, <4>3
    <3>10. \A l \in (m + 1)..c : some[l] > i
      <4> SUFFICES ASSUME NEW l \in (m + 1)..c PROVE some[l] > i
        OBVIOUS
      <4>1. l \in 1..c /\ m < l
        BY <3>2, <3>4
      <4>2. some[m] < some[l]
        BY <1>4, <3>4, <4>1
      <4>3. some[l] \in 1..n
        BY <1>4, <4>1
      <4> QED
        BY <2>1, <3>7, <4>2, <4>3
    <3>11. At(i, m) /\ m \in 0..c
      BY <3>4, <3>8, <3>9, <3>10
    <3> QED
      BY <3>11 DEF i
  <2> QED
    BY <2>4, <2>5
<1>9. \A k \in T \cap Nat : k + 1 \in T
  <2> HIDE DEF At
  <2> QED BY <1>8
<1>10. Nat \subseteq T
  <2> HIDE DEF T
  <2> QED BY <1>7, <1>9, Induction
<1>11. PICK j \in 0..c : At(n, j)
  BY <1>10
<1>12. j = c
  <2> SUFFICES ASSUME j # c PROVE FALSE
    OBVIOUS
  <2>1. c \in (j + 1)..c /\ c \in 1..c
    BY <1>4
  <2>2. some[c] > n /\ some[c] \in 1..n
    BY <1>4, <1>11, <2>1
  <2> QED
    BY <2>2
<1> QED
  BY <1>1, <1>5, <1>6, <1>11, <1>12

\* Both look-ups give the first entry of a form.
LEMMA FindsAsScan ==
  ASSUME NEW lexicon, GoodLexicon(lexicon), NEW index, index.byNormalized = Sorted(lexicon),
         NEW w \in Seq(Nat)
  PROVE  FindNormalized(index, lexicon, w) = PositionNormalized(lexicon, w)
<1>1. PICK f, p : f = FindNormalized(index, lexicon, w) /\ p = PositionNormalized(lexicon, w)
  OBVIOUS
<1>2. PICK here : here = {i \in DOMAIN lexicon : lexicon[i].normalized = w}
  OBVIOUS
<1>3. here \subseteq Nat
  <2>1. DOMAIN lexicon \subseteq Nat
    BY ListIs DEF GoodLexicon
  <2> QED
    BY <1>2, <2>1
<1>4. p = IF here = {} THEN NotFound ELSE Least(here)
  BY ONLY <1>1, <1>2 DEF PositionNormalized
<1>5. \/ f = NotFound /\ here = {}
      \/ f \in here /\ \A i \in here : f <= i
  <2>1. \/ f = NotFound /\ \A i \in DOMAIN lexicon : lexicon[i].normalized # w
        \/ /\ f \in DOMAIN lexicon /\ lexicon[f].normalized = w
           /\ \A i \in DOMAIN lexicon : lexicon[i].normalized = w => f <= i
    BY <1>1, FindIs
  <2> QED
    BY ONLY <1>2, <2>1
<1>6. here # {} => f = Least(here)
  <2> SUFFICES ASSUME here # {} PROVE f = Least(here)
    OBVIOUS
  <2>1. PICK l : l = Least(here)
    OBVIOUS
  <2>2. l \in here /\ \A i \in here : l <= i
    BY <1>3, <2>1, LeastIs
  <2>3. f \in here /\ \A i \in here : f <= i
    BY <1>5
  <2>4. f \in Nat /\ l \in Nat /\ f <= l /\ l <= f
    BY ONLY <1>3, <2>2, <2>3
  <2> QED
    BY ONLY <2>1, <2>4
<1> QED
  BY ONLY <1>1, <1>4, <1>5, <1>6

\* What is found under a prefix is among the words.
LEMMA HitsAreWords ==
  ASSUME NEW t, NEW words, HoldsWords(t, words), NEW p \in Seq(Nat)
  PROVE  HitWords(t, p) \subseteq words
<1>1. PICK X, W, N : Finished(t, X, W, N) /\ words = {W[k].word : k \in DOMAIN W}
  BY DEF HoldsWords
<1>2. PICK hits : hits = FindByPrefix(t, p)
  OBVIOUS
<1>3. PICK lo, hi : FoundRun(hits, W, p, lo, hi)
  BY <1>1, <1>2, FoundIs
<1>4. hits \in Seq(Range(W))
  BY <1>3 DEF FoundRun, Listed
<1>5. \A k \in DOMAIN hits : hits[k] \in Range(W)
  <2> DEFINE S == Range(W)
  <2>1. hits \in Seq(S)
    BY <1>4
  <2> HIDE DEF S
  <2>2. \A k \in DOMAIN hits : hits[k] \in S
    BY ONLY <2>1
  <2> QED
    BY <2>2 DEF S
<1>6. \A k \in DOMAIN hits : \E j \in DOMAIN W : hits[k] = W[j]
  BY <1>5 DEF Range
<1>7. HitWords(t, p) = {hits[k].word : k \in DOMAIN hits}
  BY <1>2 DEF HitWords
<1> QED
  BY ONLY <1>1, <1>6, <1>7

\* The engine finds forms under a prefix.
LEMMA HitsAreForms ==
  ASSUME Inv, Rebuilt, NEW p \in Seq(Nat)
  PROVE  /\ HitWords(engine.trie, p) \subseteq Seq(Nat)
         /\ HitWords(engine.trie, p) \subseteq {engine.lexicon[i].normalized : i \in DOMAIN engine.lexicon}
<1>1. PICK t, lexicon : t = engine.trie /\ lexicon = engine.lexicon
  OBVIOUS
<1>2. Formed(lexicon)
  BY <1>1, GoodIsFormed DEF Inv, WellFormed
<1>3. PICK n : n = Len(lexicon)
  OBVIOUS
<1>4. /\ n \in Nat /\ DOMAIN lexicon = 1..n
      /\ \A i \in DOMAIN lexicon : lexicon[i].normalized \in Seq(Nat)
  BY <1>2, <1>3, ListIs DEF Formed
<1>5. CASE t = LexiconTrie(lexicon)
  <2>1. PICK inserted : inserted = [i \in DOMAIN lexicon |-> [word |-> lexicon[i].normalized, value |-> lexicon[i].zipf]]
    OBVIOUS
  <2>2. t = TrieOf(inserted)
    BY ONLY <1>5, <2>1 DEF LexiconTrie
  <2>3. DOMAIN inserted = 1..n /\ \A j \in 1..n : inserted[j].word \in Seq(Nat)
    BY ONLY <1>4, <2>1
  <2>4. HoldsWords(t, {inserted[j].word : j \in 1..n})
    BY ONLY <1>4, <2>2, <2>3, TrieHolds
  <2>5. HitWords(t, p) \subseteq {inserted[j].word : j \in 1..n}
    BY <2>4, HitsAreWords
  <2>6. {inserted[j].word : j \in 1..n} \subseteq {lexicon[i].normalized : i \in DOMAIN lexicon}
    BY ONLY <1>4, <2>1
  <2>7. {inserted[j].word : j \in 1..n} \subseteq Seq(Nat)
    BY ONLY <2>3
  <2> QED
    BY ONLY <1>1, <2>5, <2>6, <2>7
<1>6. CASE t = EmptyTrie
  <2>1. Walk(t, p) = NoNode
    BY <1>6, EmptyWalk
  <2>2. FindByPrefix(t, p) = <<>>
    BY <2>1 DEF FindByPrefix
  <2>3. HitWords(t, p) = {}
    BY <2>2 DEF HitWords
  <2> QED
    BY <1>1, <2>3
<1> QED
  BY <1>1, <1>5, <1>6 DEF Rebuilt

\* Forms as normalize returns them. A damaged pack may hold others.
FormsAreNormal ==
  \A i \in DOMAIN engine.lexicon :
    Normalize(engine.lexicon[i].normalized) = engine.lexicon[i].normalized

\* A query answered through the index has the candidates a scan of every entry gives, with
\* or without frequency, in every state whose forms are normalized: an entry outside the
\* radius is neither restored nor within MaxEdit, so leaving it out changes no candidate.
THEOREM IndexLosesNothing == Spec => [](FormsAreNormal => IndexAnswersAsScan)
<1>1. ASSUME Inv, Rebuilt, FormsAreNormal PROVE IndexAnswersAsScan
  <2>1. PICK lexicon, t, index : lexicon = engine.lexicon /\ t = engine.trie /\ index = engine.index
    OBVIOUS
  <2>2. /\ GoodLexicon(lexicon) /\ index.byNormalized = Sorted(lexicon)
        /\ \A i \in DOMAIN lexicon : Normalize(lexicon[i].normalized) = lexicon[i].normalized
    BY <1>1, <2>1 DEF Inv, WellFormed, FormsAreNormal
  <2>3. PICK n : n = Len(lexicon)
    OBVIOUS
  <2>4. /\ n \in Nat /\ DOMAIN lexicon = 1..n
        /\ \A i \in 1..n : lexicon[i].normalized \in Seq(Nat)
    BY <2>2, <2>3, GoodIsFormed, ListIs DEF Formed
  <2>5. ASSUME NEW q \in Queries, NEW u \in BOOLEAN
        PROVE  IndexedCandidates(lexicon, t, index, q, u) = ScannedCandidates(lexicon, t, q, u)
    <3>1. PICK query : query = Normalize(q)
      OBVIOUS
    <3>2. query \in Seq(Nat) /\ Normalize(query) = query
      BY <3>1, BoundsAssumption, QueriesAssumption, NormalizeType
    <3>3. PICK near : near = NearPositions(index, StripDiacritics(query), MaxStrippedUnitDistance)
      OBVIOUS
    <3>4. PICK S : S = {near[k] : k \in DOMAIN near}
      OBVIOUS
    <3>5. PICK w : w = StripDiacritics(query)
      OBVIOUS
    <3>6. /\ S = {i \in DOMAIN lexicon :
                    UnitDistance(StripDiacritics(lexicon[i].normalized), w) <= MaxStrippedUnitDistance}
          /\ near = Ascending(S)
      <4>1. w \in Seq(Nat) /\ MaxStrippedUnitDistance \in Nat
        BY <3>2, <3>5, StripType DEF MaxStrippedUnitDistance
      <4>2. near = NearPositions(engine.index, w, MaxStrippedUnitDistance)
        BY <2>1, <3>3, <3>5
      <4>3. NearAre(near, lexicon, w, MaxStrippedUnitDistance)
        BY ONLY <1>1, <2>1, <4>1, <4>2, NearPositionsAre
      <4> QED
        BY ONLY <3>4, <4>3 DEF NearAre
    <3>7. \A i \in 1..n : i \notin S => AddsNothing(lexicon, i, query, u)
      <4> SUFFICES ASSUME NEW i \in 1..n, i \notin S PROVE AddsNothing(lexicon, i, query, u)
        OBVIOUS
      <4>1. PICK v : v = lexicon[i].normalized
        OBVIOUS
      <4>2. v \in Seq(Nat) /\ Normalize(v) = v
        BY <2>2, <2>4, <4>1
      <4>3. ~(UnitDistance(StripDiacritics(v), StripDiacritics(query)) <= MaxStrippedUnitDistance)
        BY <2>4, <3>5, <3>6, <4>1
      <4> QED
        BY ONLY <3>2, <4>1, <4>2, <4>3, FarIsSkipped, ZenonT(60)
    <3>8. PICK found, told : /\ found = [w1 \in HitWords(t, query) |-> FindNormalized(index, lexicon, w1)]
                             /\ told = [w1 \in HitWords(t, query) |-> PositionNormalized(lexicon, w1)]
      OBVIOUS
    <3>9. found = told
      <4>1. HitWords(t, query) \subseteq Seq(Nat)
        BY <1>1, <2>1, <3>2, HitsAreForms
      <4>2. \A w1 \in HitWords(t, query) :
              FindNormalized(index, lexicon, w1) = PositionNormalized(lexicon, w1)
        BY ONLY <2>2, <4>1, FindsAsScan
      <4> QED
        BY ONLY <3>8, <4>2
    <3>10. PICK ranks : ranks = PrefixStage(lexicon, query, found)
      OBVIOUS
    <3>11. PICK all : all = [i \in 1..n |-> i]
      OBVIOUS
    <3>12. ScoreAll(lexicon, all, query, u, ranks) = ScoreAll(lexicon, near, query, u, ranks)
      <4>1. S \subseteq 1..n
        BY <2>4, <3>6
      <4>2. n \in Nat
        BY <2>4
      <4>3. near = Ascending(S)
        BY <3>6
      <4> QED
        <5>1. EveryPosition(all, n)
          BY ONLY <3>11, <4>2 DEF EveryPosition
        <5>2. Covers(S, lexicon, n, query, u)
          BY ONLY <3>7, <4>1 DEF Covers
        <5> QED
          BY ONLY <4>2, <4>3, <5>1, <5>2, SkippedScores
    <3>13. IndexedCandidates(lexicon, t, index, q, u)
             = IF query = <<>> THEN NoCandidates ELSE ScoreAll(lexicon, near, query, u, ranks)
      BY ONLY <3>1, <3>3, <3>8, <3>10 DEF IndexedCandidates
    <3>14. ScannedCandidates(lexicon, t, q, u)
             = IF query = <<>> THEN NoCandidates
               ELSE ScoreAll(lexicon, all, query, u, ranks)
      BY ONLY <2>4, <3>1, <3>8, <3>9, <3>10, <3>11 DEF ScannedCandidates
    <3> QED
      BY ONLY <3>12, <3>13, <3>14
  <2> QED
    BY <2>1, <2>5 DEF IndexAnswersAsScan
<1> QED
  BY <1>1, InvHolds, RebuiltHolds, PTL

(***************************************************************************)
(* What a pack holds that was not damaged.                                 *)
(***************************************************************************)
NormalForms(entries) ==
  \A i \in 1..Len(entries) : Normalize(entries[i].normalized) = entries[i].normalized

\* The entries given to the compiler, and those appended, have forms that are normalized.
NormalInputs ==
  /\ \A input \in Inputs : NormalForms(input.entries)
  /\ \A entries \in Batches : NormalForms(entries)

UndamagedIsNormal == built # NoInput => NormalForms(engine.lexicon)

LEMMA LoadKeepsNormal ==
  ASSUME NormalInputs, UndamagedIsNormal, NEW pack, NEW input, LoadBinaryPack(pack, input),
         input # NoInput => input \in Inputs /\ Compiles(input) /\ pack = CompiledPack(input)
  PROVE  UndamagedIsNormal'
<1>1. PICK d : d = Decoded(pack)
  OBVIOUS
<1>2. CASE d.fault # NoFault
  <2>1. engine' = engine /\ built' = built
    BY <1>1, <1>2 DEF LoadBinaryPack
  <2> QED
    BY <2>1 DEF UndamagedIsNormal
<1>3. CASE d.fault = NoFault
  <2>1. /\ engine' = [lexicon  |-> d.lexicon,
                      trie     |-> LexiconTrie(d.lexicon),
                      index    |-> IndexOf(d.lexicon),
                      bigrams  |-> d.bigrams,
                      trigrams |-> d.trigrams]
        /\ built' = input
    BY <1>1, <1>3 DEF LoadBinaryPack
  <2>2. engine'.lexicon = d.lexicon /\ built' = input
    BY ONLY <2>1
  <2>3. CASE input = NoInput
    BY <2>2, <2>3 DEF UndamagedIsNormal
  <2>4. CASE input # NoInput
    <3>1. input \in Inputs /\ Compiles(input) /\ d = Decoded(CompiledPack(input))
      BY <1>1, <2>4
    <3>2. /\ DerivedFrom(input, d.lexicon, d.bigrams, d.trigrams)
          /\ Len(d.lexicon) = Len(input.entries)
      BY ONLY <1>3, <3>1, CompiledReadBack
    <3>3. PICK lexicon, entries : lexicon = d.lexicon /\ entries = input.entries
      OBVIOUS
    <3>4. BeginsWith(lexicon, entries) /\ Len(lexicon) = Len(entries)
      BY ONLY <3>2, <3>3 DEF DerivedFrom
    <3>5. NormalForms(entries)
      BY <3>1, <3>3 DEF NormalInputs
    <3>6. NormalForms(lexicon)
      BY ONLY <3>4, <3>5 DEF BeginsWith, NormalForms
    <3> QED
      BY <2>2, <3>3, <3>6 DEF UndamagedIsNormal
  <2> QED
    BY <2>3, <2>4
<1> QED
  BY <1>2, <1>3

LEMMA AppendKeepsNormal ==
  ASSUME NormalInputs, Inv, UndamagedIsNormal, NEW entries \in Batches, LoadLexicon(entries)
  PROVE  UndamagedIsNormal'
<1>1. PICK held, lexicon : held = engine.lexicon /\ lexicon = held \o entries
  OBVIOUS
<1>2. built' = built
  BY DEF LoadLexicon
<1>3. CASE TextOf(lexicon) > TextLimit
  <2>1. engine' = engine
    BY <1>1, <1>3 DEF LoadLexicon
  <2> QED
    BY <1>2, <2>1 DEF UndamagedIsNormal
<1>4. CASE ~(TextOf(lexicon) > TextLimit)
  <2>1. engine' = [engine EXCEPT !.lexicon = lexicon,
                                 !.trie = LexiconTrie(lexicon),
                                 !.index = IndexOf(lexicon)]
    BY <1>1, <1>4 DEF LoadLexicon
  <2>2. DOMAIN engine = {"lexicon", "trie", "index", "bigrams", "trigrams"}
    BY DEF Inv, WellFormed
  <2>3. engine'.lexicon = lexicon
    BY ONLY <2>1, <2>2
  <2>4. AsList(held) /\ AsList(entries)
    <3>1. AsList(held)
      BY <1>1 DEF Inv, WellFormed, GoodLexicon
    <3>2. AsList(entries)
      BY InputsAssumption DEF AsList
    <3> QED
      BY <3>1, <3>2
  <2>5. JoinedAs(lexicon, held, entries)
    <3>1. PICK D : D = Range(held) \cup Range(entries)
      OBVIOUS
    <3>2. held \in Seq(Range(held)) /\ Range(held) \subseteq D
      BY ONLY <2>4, <3>1 DEF AsList
    <3>3. entries \in Seq(Range(entries)) /\ Range(entries) \subseteq D
      BY ONLY <2>4, <3>1 DEF AsList
    <3>4. held \in Seq(D)
      BY ONLY <3>2
    <3>5. entries \in Seq(D)
      BY ONLY <3>3
    <3>6. JoinedAs(held \o entries, held, entries)
      BY ONLY <3>4, <3>5, ListsJoined
    <3> QED
      BY ONLY <1>1, <3>6
  <2>6. built # NoInput => NormalForms(lexicon)
    <3> SUFFICES ASSUME built # NoInput, NEW i \in 1..Len(lexicon)
                 PROVE  Normalize(lexicon[i].normalized) = lexicon[i].normalized
      BY DEF NormalForms
    <3>1. NormalForms(held) /\ NormalForms(entries)
      BY <1>1 DEF UndamagedIsNormal, NormalInputs
    <3>2. PICK m, n : m = Len(held) /\ n = Len(entries)
      OBVIOUS
    <3>3. m \in Nat /\ n \in Nat
      BY <2>4, <3>2, ListIs
    <3>4. /\ i \in 1..(m + n)
          /\ \A j \in 1..m : lexicon[j] = held[j]
          /\ \A j \in 1..n : lexicon[m + j] = entries[j]
      BY ONLY <2>5, <3>2, i \in 1..Len(lexicon) DEF JoinedAs
    <3>5. CASE i \in 1..m
      BY ONLY <3>1, <3>2, <3>4, <3>5 DEF NormalForms
    <3>6. CASE i \notin 1..m
      <4>1. PICK j : j = i - m
        OBVIOUS
      <4>2. j \in 1..n /\ i = m + j
        BY ONLY <3>3, <3>4, <3>6, <4>1
      <4> QED
        BY ONLY <3>1, <3>2, <3>4, <4>2 DEF NormalForms
    <3> QED
      BY <3>5, <3>6
  <2> QED
    BY <1>2, <2>3, <2>6 DEF UndamagedIsNormal
<1> QED
  BY <1>3, <1>4

\* The radius loses nothing in an engine that holds an undamaged pack, whatever was
\* appended to it, when the forms given to the compiler are those of normalize.
THEOREM UndamagedIndexLosesNothing ==
  ASSUME NormalInputs
  PROVE  Spec => [](built # NoInput => IndexAnswersAsScan)
<1>1. Init => UndamagedIsNormal
  BY DEF Init, UndamagedIsNormal
<1>2. Inv /\ UndamagedIsNormal /\ [Next]_vars => UndamagedIsNormal'
  <2> SUFFICES ASSUME Inv, UndamagedIsNormal, [Next]_vars PROVE UndamagedIsNormal'
    OBVIOUS
  <2>1. CASE LoadIntact
    <3>1. PICK input \in Inputs :
            Compiles(input) /\ LoadBinaryPack(CompiledPack(input), input)
      BY <2>1 DEF LoadIntact
    <3> QED
      BY <3>1, LoadKeepsNormal
  <2>2. CASE LoadDamaged
    <3>1. PICK input \in Inputs :
            \E pack \in Broken(CompiledPack(input)) \cup Resealed(CompiledPack(input)) :
              LoadBinaryPack(pack, NoInput)
      BY <2>2 DEF LoadDamaged
    <3> QED
      BY <3>1, LoadKeepsNormal
  <2>3. ASSUME NEW entries \in Batches, LoadLexicon(entries) PROVE UndamagedIsNormal'
    BY <2>3, AppendKeepsNormal
  <2>4. CASE UNCHANGED vars
    BY <2>4 DEF vars, UndamagedIsNormal
  <2> QED
    BY <2>1, <2>2, <2>3, <2>4 DEF Next
<1>3. Inv /\ UndamagedIsNormal /\ (FormsAreNormal => IndexAnswersAsScan)
        => (built # NoInput => IndexAnswersAsScan)
  <2> SUFFICES ASSUME Inv, UndamagedIsNormal, built # NoInput PROVE FormsAreNormal
    OBVIOUS
  <2>1. DOMAIN engine.lexicon = 1..Len(engine.lexicon)
    BY ListIs DEF Inv, WellFormed, GoodLexicon
  <2> QED
    BY <2>1 DEF UndamagedIsNormal, NormalForms, FormsAreNormal
<1> QED
  BY <1>1, <1>2, <1>3, InvHolds, IndexLosesNothing, PTL DEF Spec

(***************************************************************************)
(* The order of candidates.                                                *)
(***************************************************************************)
IsCandidate(c) ==
  /\ c.word \in Seq(Nat) /\ c.cost \in Nat /\ c.quality \in Nat /\ c.zipf \in Nat
  /\ c.kind \in {"Exact", "DiacriticCorrection", "Completion", "Correction"}

\* What candidates are ranked by, before their text: four numbers.
IsKey(k) == k[1] \in Int /\ k[2] \in Int /\ k[3] \in Int /\ k[4] \in Int

KeyLess(k, l) == \E i \in 1..4 : k[i] < l[i] /\ \A j \in 1..(i - 1) : k[j] = l[j]

SameKey(k, l) == k[1] = l[1] /\ k[2] = l[2] /\ k[3] = l[3] /\ k[4] = l[4]

LEMMA KeyOfCandidate ==
  ASSUME NEW c, IsCandidate(c), NEW u
  PROVE  \E p, q, r, s \in Int : RankKey(c, u) = <<p, q, r, s>>
<1>1. PICK z : z = IF u THEN 0 - c.zipf ELSE 0
  OBVIOUS
<1>2. PICK p : p = KindPriority(c.kind)
  OBVIOUS
<1>3. z \in Int /\ p \in Int
  <2>1. z \in Int
    <3>1. CASE u
      BY <1>1, <3>1 DEF IsCandidate
    <3>2. CASE ~u
      BY <1>1, <3>2
    <3> QED
      BY <3>1, <3>2
  <2>2. p \in Int
    BY <1>2 DEF IsCandidate, KindPriority
  <2> QED
    BY <2>1, <2>2
<1>4. PICK n : n = Len(c.word)
  OBVIOUS
<1>5. n \in Int
  BY <1>4 DEF IsCandidate
<1>6. PICK t : t = IF c.kind = "Completion" THEN <<0 - c.quality, z, n>>
                   ELSE <<c.cost, IF c.diacritic THEN 0 ELSE 1, z>>
  OBVIOUS
<1>7. \E a, b, d \in Int : t = <<a, b, d>>
  <2>1. CASE c.kind = "Completion"
    <3>1. t = <<0 - c.quality, z, n>>
      BY <1>6, <2>1
    <3>2. 0 - c.quality \in Int
      BY DEF IsCandidate
    <3> QED
      BY <1>3, <1>5, <3>1, <3>2
  <2>2. CASE c.kind # "Completion"
    <3>1. PICK e : e = IF c.diacritic THEN 0 ELSE 1
      OBVIOUS
    <3>2. e \in Int /\ c.cost \in Int
      BY <3>1 DEF IsCandidate
    <3>3. t = <<c.cost, e, z>>
      BY <1>6, <2>2, <3>1
    <3> QED
      BY <1>3, <3>2, <3>3
  <2> QED
    BY <2>1, <2>2
<1>8. PICK a, b, d \in Int : t = <<a, b, d>>
  BY <1>7
<1>9. RankKey(c, u) = <<p>> \o t
  BY <1>1, <1>2, <1>4, <1>6 DEF RankKey
<1>10. <<p>> \o <<a, b, d>> = <<p, a, b, d>>
  <2>1. PICK x, y : x = <<p>> /\ y = <<a, b, d>>
    OBVIOUS
  <2>2. x \in Seq(Int) /\ Len(x) = 1 /\ x[1] = p
    BY ONLY <1>3, <2>1
  <2>3. y \in Seq(Int) /\ Len(y) = 3 /\ y[1] = a /\ y[2] = b /\ y[3] = d
    BY ONLY <2>1, a \in Int, b \in Int, d \in Int
  <2>4. PICK w : w = x \o y
    OBVIOUS
  <2>5. w \in Seq(Int) /\ JoinedAs(w, x, y)
    <3>1. x \in Seq(Int) /\ y \in Seq(Int)
      BY <2>2, <2>3
    <3> QED
      BY ONLY <2>4, <3>1, ListsJoined
  <2>6. Len(w) = 4 /\ w[1] = p /\ w[2] = a /\ w[3] = b /\ w[4] = d
    <3>1. /\ Len(x) = 1 /\ x[1] = p
          /\ Len(y) = 3 /\ y[1] = a /\ y[2] = b /\ y[3] = d
      BY <2>2, <2>3
    <3>2. /\ Len(w) = 1 + 3
          /\ \A j \in 1..1 : w[j] = x[j]
          /\ \A j \in 1..3 : w[1 + j] = y[j]
      BY ONLY <2>5, <3>1 DEF JoinedAs
    <3>3. w[1] = x[1] /\ w[1 + 1] = y[1] /\ w[1 + 2] = y[2] /\ w[1 + 3] = y[3]
      BY ONLY <3>2
    <3> QED
      BY ONLY <3>1, <3>2, <3>3
  <2>7. w \in Seq(Int)
    BY <2>5
  <2>8. w = <<p, a, b, d>>
    BY ONLY <2>6, <2>7
  <2> QED
    BY ONLY <2>1, <2>4, <2>8
<1> QED
  BY ONLY <1>3, <1>8, <1>9, <1>10, a \in Int, b \in Int, d \in Int

LEMMA KeyIsFour ==
  ASSUME NEW c, IsCandidate(c), NEW u, NEW k, k = RankKey(c, u)
  PROVE  IsKey(k)
<1>1. PICK p, q, r, s \in Int : k = <<p, q, r, s>>
  BY KeyOfCandidate
<1> QED
  BY ONLY <1>1, p \in Int, q \in Int, r \in Int, s \in Int DEF IsKey

LEMMA SameKeyIs ==
  ASSUME NEW c, IsCandidate(c), NEW d, IsCandidate(d), NEW u,
         SameKey(RankKey(c, u), RankKey(d, u))
  PROVE  RankKey(c, u) = RankKey(d, u)
<1>1. PICK p, q, r, s \in Int : RankKey(c, u) = <<p, q, r, s>>
  BY KeyOfCandidate
<1>2. PICK p1, q1, r1, s1 \in Int : RankKey(d, u) = <<p1, q1, r1, s1>>
  BY KeyOfCandidate
<1>3. p = p1 /\ q = q1 /\ r = r1 /\ s = s1
  <2>1. SameKey(<<p, q, r, s>>, <<p1, q1, r1, s1>>)
    BY ONLY <1>1, <1>2, SameKey(RankKey(c, u), RankKey(d, u))
  <2> QED
    BY ONLY <2>1 DEF SameKey
<1> QED
  BY ONLY <1>1, <1>2, <1>3

LEMMA KeyLessIs ==
  ASSUME NEW k, IsKey(k), NEW l, IsKey(l)
  PROVE  KeyLess(k, l) <=> \/ k[1] < l[1]
                           \/ k[1] = l[1] /\ k[2] < l[2]
                           \/ k[1] = l[1] /\ k[2] = l[2] /\ k[3] < l[3]
                           \/ k[1] = l[1] /\ k[2] = l[2] /\ k[3] = l[3] /\ k[4] < l[4]
<1>1. KeyLess(k, l) => \/ k[1] < l[1]
                       \/ k[1] = l[1] /\ k[2] < l[2]
                       \/ k[1] = l[1] /\ k[2] = l[2] /\ k[3] < l[3]
                       \/ k[1] = l[1] /\ k[2] = l[2] /\ k[3] = l[3] /\ k[4] < l[4]
  <2> SUFFICES ASSUME NEW i \in 1..4, k[i] < l[i], \A j \in 1..(i - 1) : k[j] = l[j]
               PROVE  \/ k[1] < l[1]
                      \/ k[1] = l[1] /\ k[2] < l[2]
                      \/ k[1] = l[1] /\ k[2] = l[2] /\ k[3] < l[3]
                      \/ k[1] = l[1] /\ k[2] = l[2] /\ k[3] = l[3] /\ k[4] < l[4]
    BY DEF KeyLess
  <2>1. i = 1 \/ i = 2 \/ i = 3 \/ i = 4
    OBVIOUS
  <2>2. /\ 1 < i => k[1] = l[1]
        /\ 2 < i => k[2] = l[2]
        /\ 3 < i => k[3] = l[3]
    OBVIOUS
  <2> QED
    BY ONLY <2>1, <2>2, k[i] < l[i]
<1>2. k[1] < l[1] => KeyLess(k, l)
  <2>1. \A j \in 1..(1 - 1) : k[j] = l[j]
    OBVIOUS
  <2> QED
    BY <2>1 DEF KeyLess
<1>3. k[1] = l[1] /\ k[2] < l[2] => KeyLess(k, l)
  <2> HAVE k[1] = l[1] /\ k[2] < l[2]
  <2>1. \A j \in 1..(2 - 1) : k[j] = l[j]
    OBVIOUS
  <2> QED
    BY <2>1 DEF KeyLess
<1>4. k[1] = l[1] /\ k[2] = l[2] /\ k[3] < l[3] => KeyLess(k, l)
  <2> HAVE k[1] = l[1] /\ k[2] = l[2] /\ k[3] < l[3]
  <2>1. \A j \in 1..(3 - 1) : k[j] = l[j]
    OBVIOUS
  <2> QED
    BY <2>1 DEF KeyLess
<1>5. k[1] = l[1] /\ k[2] = l[2] /\ k[3] = l[3] /\ k[4] < l[4] => KeyLess(k, l)
  <2> HAVE k[1] = l[1] /\ k[2] = l[2] /\ k[3] = l[3] /\ k[4] < l[4]
  <2>1. \A j \in 1..(4 - 1) : k[j] = l[j]
    OBVIOUS
  <2> QED
    BY <2>1 DEF KeyLess
<1> QED
  BY <1>1, <1>2, <1>3, <1>4, <1>5

LEMMA KeysOrdered ==
  ASSUME NEW k, IsKey(k), NEW l, IsKey(l), NEW m, IsKey(m)
  PROVE  /\ ~KeyLess(k, k)
         /\ KeyLess(k, l) \/ SameKey(k, l) \/ KeyLess(l, k)
         /\ KeyLess(k, l) => ~SameKey(k, l) /\ ~KeyLess(l, k)
         /\ KeyLess(k, l) /\ KeyLess(l, m) => KeyLess(k, m)
         /\ KeyLess(k, l) /\ SameKey(l, m) => KeyLess(k, m)
         /\ SameKey(k, l) /\ KeyLess(l, m) => KeyLess(k, m)
         /\ SameKey(k, l) /\ SameKey(l, m) => SameKey(k, m)
<1>1. ~KeyLess(k, k)
  BY KeyLessIs DEF IsKey
<1>2. KeyLess(k, l) \/ SameKey(k, l) \/ KeyLess(l, k)
  BY KeyLessIs DEF IsKey, SameKey
<1>3. KeyLess(k, l) => ~SameKey(k, l) /\ ~KeyLess(l, k)
  BY KeyLessIs DEF IsKey, SameKey
<1>4. KeyLess(k, l) /\ KeyLess(l, m) => KeyLess(k, m)
  BY KeyLessIs DEF IsKey
<1>5. KeyLess(k, l) /\ SameKey(l, m) => KeyLess(k, m)
  BY KeyLessIs DEF IsKey, SameKey
<1>6. SameKey(k, l) /\ KeyLess(l, m) => KeyLess(k, m)
  BY KeyLessIs DEF IsKey, SameKey
<1>7. SameKey(k, l) /\ SameKey(l, m) => SameKey(k, m)
  BY DEF SameKey
<1> QED
  BY <1>1, <1>2, <1>3, <1>4, <1>5, <1>6, <1>7

LEMMA CandidateLessIs ==
  ASSUME NEW c, IsCandidate(c), NEW d, IsCandidate(d), NEW u,
         NEW k, k = RankKey(c, u), NEW l, l = RankKey(d, u)
  PROVE  CandidateLess(c, d, u) <=> \/ KeyLess(k, l)
                                    \/ SameKey(k, l) /\ WordLess(c.word, d.word)
<1>1. CandidateLess(c, d, u) <=> KeyLess(k, l) \/ (k = l /\ WordLess(c.word, d.word))
  BY ONLY k = RankKey(c, u), l = RankKey(d, u) DEF CandidateLess, KeyLess
<1>2. k = l <=> SameKey(k, l)
  <2>1. SameKey(k, l) => k = l
    BY SameKeyIs
  <2>2. k = l => SameKey(k, l)
    BY DEF SameKey
  <2> QED
    BY <2>1, <2>2
<1> QED
  BY ONLY <1>1, <1>2

LEMMA CandidatesOrdered ==
  ASSUME NEW S, \A c \in S : IsCandidate(c),
         \A c, d \in S : c # d => c.word # d.word, NEW u,
         NEW R, R = {p \in S \X S : CandidateLess(p[1], p[2], u)}
  PROVE  StrictTotalOrder(R, S)
<1>1. \A c, d \in S : <<c, d>> \in R <=> CandidateLess(c, d, u)
  BY ONLY R = {p \in S \X S : CandidateLess(p[1], p[2], u)}
<1>2. ASSUME NEW c \in S PROVE <<c, c>> \notin R
  <2>1. PICK k : k = RankKey(c, u)
    OBVIOUS
  <2>2. IsKey(k)
    BY <2>1, KeyIsFour
  <2>3. ~KeyLess(k, k)
    BY <2>2, KeysOrdered
  <2>4. ~WordLess(c.word, c.word)
    BY WordLessIrreflexive DEF IsCandidate
  <2>5. ~CandidateLess(c, c, u)
    BY <2>1, <2>3, <2>4, CandidateLessIs
  <2> QED
    BY <1>1, <2>5
<1>3. ASSUME NEW c \in S, NEW d \in S, NEW e \in S, <<c, d>> \in R, <<d, e>> \in R
      PROVE  <<c, e>> \in R
  <2>1. PICK k, l, m : k = RankKey(c, u) /\ l = RankKey(d, u) /\ m = RankKey(e, u)
    OBVIOUS
  <2>2. IsKey(k) /\ IsKey(l) /\ IsKey(m)
    BY <2>1, KeyIsFour
  <2>3. KeyLess(k, l) \/ (SameKey(k, l) /\ WordLess(c.word, d.word))
    BY <1>1, <1>3, <2>1, CandidateLessIs
  <2>4. KeyLess(l, m) \/ (SameKey(l, m) /\ WordLess(d.word, e.word))
    BY <1>1, <1>3, <2>1, CandidateLessIs
  <2>5. WordLess(c.word, d.word) /\ WordLess(d.word, e.word) => WordLess(c.word, e.word)
    BY WordLessTransitive DEF IsCandidate
  <2>6. KeyLess(k, m) \/ (SameKey(k, m) /\ WordLess(c.word, e.word))
    <3>1. /\ KeyLess(k, l) /\ KeyLess(l, m) => KeyLess(k, m)
          /\ KeyLess(k, l) /\ SameKey(l, m) => KeyLess(k, m)
          /\ SameKey(k, l) /\ KeyLess(l, m) => KeyLess(k, m)
          /\ SameKey(k, l) /\ SameKey(l, m) => SameKey(k, m)
      BY ONLY <2>2, KeysOrdered
    <3> QED
      BY ONLY <2>3, <2>4, <2>5, <3>1
  <2>7. CandidateLess(c, e, u)
    BY <2>1, <2>6, CandidateLessIs
  <2> QED
    BY <1>1, <2>7
<1>4. ASSUME NEW c \in S, NEW d \in S, c # d PROVE <<c, d>> \in R \/ <<d, c>> \in R
  <2>1. PICK k, l : k = RankKey(c, u) /\ l = RankKey(d, u)
    OBVIOUS
  <2>2. IsKey(k) /\ IsKey(l)
    BY <2>1, KeyIsFour
  <2>3. KeyLess(k, l) \/ SameKey(k, l) \/ KeyLess(l, k)
    BY ONLY <2>2, KeysOrdered
  <2>4. WordLess(c.word, d.word) \/ WordLess(d.word, c.word)
    BY <1>4, WordLessTotal DEF IsCandidate
  <2>5. SameKey(k, l) => SameKey(l, k)
    BY DEF SameKey
  <2>6. CandidateLess(c, d, u) \/ CandidateLess(d, c, u)
    <3>1. CandidateLess(c, d, u) <=> KeyLess(k, l) \/ (SameKey(k, l) /\ WordLess(c.word, d.word))
      BY <2>1, CandidateLessIs
    <3>2. CandidateLess(d, c, u) <=> KeyLess(l, k) \/ (SameKey(l, k) /\ WordLess(d.word, c.word))
      BY <2>1, CandidateLessIs
    <3> QED
      BY ONLY <2>3, <2>4, <2>5, <3>1, <3>2
  <2> QED
    BY <1>1, <2>6
<1> QED
  BY ONLY <1>2, <1>3, <1>4 DEF StrictTotalOrder

(***************************************************************************)
(* The candidates of a query.                                              *)
(***************************************************************************)
\* A lexicon as the builder makes it: each form is that of its word.
FormsOfWords(lexicon) ==
  /\ GoodLexicon(lexicon)
  /\ \A i \in DOMAIN lexicon : lexicon[i].normalized = Normalize(lexicon[i].word)

FormsIn(lexicon) == {lexicon[i].normalized : i \in DOMAIN lexicon}

\* A candidate is kept under the form of its text.
KeptUnder(c, w) == IsCandidate(c) /\ c.word \in Spelled /\ Normalize(c.word) = w

CandidatesOf(ranks, lexicon) ==
  DOMAIN ranks \subseteq FormsIn(lexicon) /\ \A w \in DOMAIN ranks : KeptUnder(ranks[w], w)

LEMMA PutKeeps ==
  ASSUME NEW lexicon, NEW ranks, CandidatesOf(ranks, lexicon),
         NEW w \in FormsIn(lexicon), NEW c, KeptUnder(c, w)
  PROVE  CandidatesOf(Put(ranks, w, c), lexicon)
<1>1. PICK put : put = Put(ranks, w, c)
  OBVIOUS
<1>2. put = [k \in DOMAIN ranks \cup {w} |-> IF k = w THEN c ELSE ranks[k]]
  BY ONLY <1>1 DEF Put
<1>3. DOMAIN put = DOMAIN ranks \cup {w} /\ \A k \in DOMAIN put : put[k] = IF k = w THEN c ELSE ranks[k]
  BY ONLY <1>2
<1>4. \A k \in DOMAIN put : KeptUnder(put[k], k)
  BY <1>3 DEF CandidatesOf
<1>5. DOMAIN put \subseteq FormsIn(lexicon)
  BY <1>3 DEF CandidatesOf
<1> QED
  BY ONLY <1>1, <1>4, <1>5 DEF CandidatesOf

LEMMA EntryIsKept ==
  ASSUME NEW lexicon, FormsOfWords(lexicon), NEW i \in DOMAIN lexicon,
         NEW c, c.word = lexicon[i].word, c.zipf = lexicon[i].zipf,
         c.cost \in Nat, c.quality \in Nat,
         c.kind \in {"Exact", "DiacriticCorrection", "Completion", "Correction"}
  PROVE  KeptUnder(c, lexicon[i].normalized)
<1>1. /\ lexicon[i].word \in Spelled /\ lexicon[i].zipf \in Nat
      /\ lexicon[i].normalized = Normalize(lexicon[i].word)
  BY DEF FormsOfWords, GoodLexicon
<1>2. c.word \in Seq(Nat)
  BY <1>1, SpelledAre
<1> QED
  BY <1>1, <1>2 DEF KeptUnder, IsCandidate

\* Scoring an entry puts at most that entry among the candidates.
LEMMA ScoreEntryKeeps ==
  ASSUME NEW lexicon, FormsOfWords(lexicon), NEW i \in DOMAIN lexicon, NEW query \in Seq(Nat),
         NEW u, NEW ranks, CandidatesOf(ranks, lexicon)
  PROVE  CandidatesOf(ScoreEntry(lexicon, i, query, u, ranks), lexicon)
<1>1. PICK entry, norm : entry = lexicon[i] /\ norm = lexicon[i].normalized
  OBVIOUS
<1>2. norm \in FormsIn(lexicon) /\ norm \in Seq(Nat)
  BY <1>1, GoodIsFormed DEF FormsOfWords, FormsIn, Formed
<1>3. PICK d : d = WeightedDistance(query, norm)
  OBVIOUS
<1>4. d \in Nat
  <2>1. PICK x, y : x = Unaccented(query) /\ y = Unaccented(norm)
    OBVIOUS
  <2> QED
    BY <1>2, <1>3, <2>1, DistancesCompare
<1>5. PICK restored : restored = (StripDiacritics(norm) = StripDiacritics(query))
  OBVIOUS
<1>6. PICK best, found : best = Restored(entry) /\ found = Scored(entry, query, restored, d)
  OBVIOUS
<1>7. KeptUnder(best, norm)
  <2>1. /\ best.word = lexicon[i].word /\ best.zipf = lexicon[i].zipf
        /\ best.cost \in Nat /\ best.quality \in Nat /\ best.kind = "DiacriticCorrection"
    BY <1>1, <1>6 DEF Restored
  <2> QED
    BY <1>1, <2>1, EntryIsKept
<1>8. KeptUnder(found, norm)
  <2>1. /\ found.word = lexicon[i].word /\ found.zipf = lexicon[i].zipf
        /\ found.cost = (IF norm = query THEN 0 ELSE EditCost(d))
        /\ found.quality = (IF StartsWith(norm, query) THEN Len(query) ELSE 0)
        /\ found.kind \in {"Exact", "Completion", "Correction"}
    BY ONLY <1>1, <1>6 DEF Scored
  <2>2. EditCost(d) \in Nat
    BY <1>4 DEF EditCost
  <2>3. Len(query) \in Nat
    OBVIOUS
  <2>4. /\ found.cost \in Nat /\ found.quality \in Nat
        /\ found.kind \in {"Exact", "DiacriticCorrection", "Completion", "Correction"}
    BY ONLY <2>1, <2>2, <2>3
  <2> QED
    BY <1>1, <2>1, <2>4, EntryIsKept
<1>9. \/ ScoreEntry(lexicon, i, query, u, ranks) = ranks
      \/ ScoreEntry(lexicon, i, query, u, ranks) = Put(ranks, norm, best)
      \/ ScoreEntry(lexicon, i, query, u, ranks) = Put(ranks, norm, found)
  BY ONLY <1>1, <1>3, <1>5, <1>6 DEF ScoreEntry
<1>10. CandidatesOf(Put(ranks, norm, best), lexicon) /\ CandidatesOf(Put(ranks, norm, found), lexicon)
  BY <1>2, <1>7, <1>8, PutKeeps
<1> QED
  BY ONLY <1>9, <1>10, CandidatesOf(ranks, lexicon)

LEMMA ScoreAllKeeps ==
  ASSUME NEW lexicon, FormsOfWords(lexicon), NEW order, NEW n \in Nat, Len(order) = n,
         \A k \in 1..n : order[k] \in DOMAIN lexicon, NEW query \in Seq(Nat),
         NEW u, NEW ranks, CandidatesOf(ranks, lexicon)
  PROVE  CandidatesOf(ScoreAll(lexicon, order, query, u, ranks), lexicon)
<1>1. PICK f : ScoredBy(f, n, lexicon, order, query, u, ranks)
  BY ONLY Len(order) = n, n \in Nat, ScoreAllIs, ZenonT(60)
<1> DEFINE T == {k \in Nat : k <= n => CandidatesOf(f[k], lexicon)}
<1>2. 0 \in T
  BY <1>1 DEF ScoredBy
<1>3. ASSUME NEW k \in T, k + 1 <= n PROVE CandidatesOf(f[k + 1], lexicon)
  <2>1. PICK m : m = k + 1
    OBVIOUS
  <2>2. m \in 1..n /\ m - 1 = k /\ k <= n
    BY <1>3, <2>1
  <2>3. CandidatesOf(f[k], lexicon)
    BY <1>3, <2>2
  <2>4. f[m] = ScoreEntry(lexicon, order[m], query, u, f[m - 1])
    BY <1>1, <2>2 DEF ScoredBy
  <2>5. order[m] \in DOMAIN lexicon
    BY <2>2
  <2>6. f[m] = ScoreEntry(lexicon, order[m], query, u, f[k])
    BY ONLY <2>2, <2>4
  <2>7. CandidatesOf(f[m], lexicon)
    BY <2>3, <2>5, <2>6, ScoreEntryKeeps
  <2> QED
    BY ONLY <2>1, <2>7
<1>4. \A k \in T \cap Nat : k + 1 \in T
  BY <1>3
<1>5. Nat \subseteq T
  <2> HIDE DEF T
  <2> QED BY <1>2, <1>4, Induction
<1>6. CandidatesOf(f[n], lexicon)
  BY <1>5
<1> QED
  BY <1>1, <1>6 DEF ScoredBy

\* Every word under a query is a form of the lexicon, so its entry is found.
LEMMA PrefixStageIs ==
  ASSUME NEW lexicon, FormsOfWords(lexicon), NEW index, index.byNormalized = Sorted(lexicon),
         NEW hits, hits \subseteq FormsIn(lexicon), hits \subseteq Seq(Nat), NEW query \in Seq(Nat),
         NEW position, position = [w \in hits |-> FindNormalized(index, lexicon, w)]
  PROVE  CandidatesOf(PrefixStage(lexicon, query, position), lexicon)
<1>1. PICK ranks : ranks = PrefixStage(lexicon, query, position)
  OBVIOUS
<1>2. DOMAIN position = hits /\ \A w \in hits : position[w] = FindNormalized(index, lexicon, w)
  BY ONLY position = [w \in hits |-> FindNormalized(index, lexicon, w)]
<1>3. ASSUME NEW w \in hits
      PROVE  KeptUnder(ranks[w], w)
  <2>1. PICK i : i = position[w]
    OBVIOUS
  <2>2. i = FindNormalized(index, lexicon, w) /\ w \in Seq(Nat)
    BY <1>2, <2>1
  <2>3. i \in DOMAIN lexicon /\ lexicon[i].normalized = w
    <3>1. \E j \in DOMAIN lexicon : lexicon[j].normalized = w
      BY DEF FormsIn
    <3>2. GoodLexicon(lexicon)
      BY DEF FormsOfWords
    <3>3. \/ i = NotFound /\ \A j \in DOMAIN lexicon : lexicon[j].normalized # w
          \/ /\ i \in DOMAIN lexicon /\ lexicon[i].normalized = w
             /\ \A j \in DOMAIN lexicon : lexicon[j].normalized = w => i <= j
      BY <2>2, <3>2, FindIs
    <3> QED
      BY ONLY <3>1, <3>3
  <2>4. i # NotFound
    <3>1. 0 \notin DOMAIN lexicon
      BY ListIs DEF FormsOfWords, GoodLexicon
    <3> QED
      BY <2>3, <3>1 DEF NotFound
  <2>5. PICK c : c = ranks[w]
    OBVIOUS
  <2>6. /\ c.word = lexicon[i].word /\ c.zipf = lexicon[i].zipf
        /\ c.cost = (IF w = query THEN 0 ELSE 1)
        /\ c.quality = (IF w = query THEN 100 ELSE Len(query))
        /\ c.kind = (IF w = query THEN "Exact" ELSE "Completion")
    BY ONLY <1>1, <1>2, <2>1, <2>4, <2>5, w \in hits DEF PrefixStage
  <2>7. Len(query) \in Nat
    OBVIOUS
  <2>8. /\ c.cost \in Nat /\ c.quality \in Nat
        /\ c.kind \in {"Exact", "DiacriticCorrection", "Completion", "Correction"}
    BY ONLY <2>6, <2>7
  <2>9. KeptUnder(c, lexicon[i].normalized)
    BY <2>3, <2>6, <2>8, EntryIsKept
  <2> QED
    BY ONLY <2>3, <2>5, <2>9
<1>4. DOMAIN ranks = hits
  BY ONLY <1>1, <1>2 DEF PrefixStage
<1> QED
  BY <1>1, <1>3, <1>4 DEF CandidatesOf

(***************************************************************************)
(* The answer.                                                             *)
(***************************************************************************)
\* Candidates in their order, the best one first.
BestFirst(S, u) ==
  [k \in 1..Cardinality(S) |->
     CHOOSE x \in S : Cardinality({y \in S : CandidateLess(y, x, u)}) = k - 1]

LEMMA EachRankedOnce ==
  ASSUME NEW S, IsFiniteSet(S), \A c \in S : IsCandidate(c),
         \A c, d \in S : c # d => c.word # d.word, NEW u,
         NEW best, best = BestFirst(S, u), NEW n, n = Cardinality(S)
  PROVE  /\ n \in Nat /\ DOMAIN best = 1..n /\ Len(best) = n
         /\ \A k \in 1..n : best[k] \in S
         /\ \A k, l \in 1..n : best[k] = best[l] => k = l
<1>1. PICK R : R = {p \in S \X S : CandidateLess(p[1], p[2], u)}
  OBVIOUS
<1>2. StrictTotalOrder(R, S)
  BY <1>1, CandidatesOrdered
<1>3. ASSUME NEW x \in S PROVE SetLessThan(x, R, S) = {y \in S : CandidateLess(y, x, u)}
  BY <1>1 DEF SetLessThan
<1>4. n \in Nat /\ \A k \in 1..n : \E x \in S : Cardinality(SetLessThan(x, R, S)) = k - 1
  BY <1>2, RanksExist
<1> DEFINE below(x) == Cardinality({y \in S : CandidateLess(y, x, u)})
<1>5. \A k \in 1..n : \E x \in S : below(x) = k - 1
  BY <1>3, <1>4
<1>6. best = [k \in 1..n |-> CHOOSE x \in S : below(x) = k - 1]
  BY DEF BestFirst
<1> HIDE DEF below
<1>7. \A k \in 1..n : best[k] \in S /\ below(best[k]) = k - 1
  <2> SUFFICES ASSUME NEW k \in 1..n PROVE best[k] \in S /\ below(best[k]) = k - 1
    OBVIOUS
  <2>1. best[k] = CHOOSE x \in S : below(x) = k - 1
    BY ONLY <1>6, k \in 1..n
  <2> QED
    BY ONLY <1>5, <2>1, k \in 1..n
<1>8. \A k, l \in 1..n : best[k] = best[l] => k = l
  <2> SUFFICES ASSUME NEW k \in 1..n, NEW l \in 1..n, best[k] = best[l] PROVE k = l
    OBVIOUS
  <2>1. below(best[k]) = k - 1 /\ below(best[l]) = l - 1
    BY ONLY <1>7, k \in 1..n, l \in 1..n
  <2>2. k - 1 = l - 1
    BY ONLY <2>1, best[k] = best[l]
  <2> QED
    BY ONLY <1>4, <2>2, k \in 1..n, l \in 1..n
<1>9. DOMAIN best = 1..n /\ Len(best) = n
  <2>1. best \in [1..n -> S]
    BY ONLY <1>6, <1>7
  <2>2. best \in Seq(S)
    BY ONLY <1>4, <2>1
  <2> QED
    BY ONLY <1>4, <2>1, <2>2
<1> QED
  BY ONLY <1>4, <1>7, <1>8, <1>9

\* The candidates of a lexicon are finitely many, and their texts have different forms.
LEMMA CandidatesAreApart ==
  ASSUME NEW lexicon, FormsOfWords(lexicon), NEW ranks, CandidatesOf(ranks, lexicon),
         NEW S, S = {ranks[w] : w \in DOMAIN ranks}
  PROVE  /\ IsFiniteSet(S)
         /\ \A c \in S : IsCandidate(c) /\ c.word \in Spelled
         /\ \A c, d \in S : c # d => Normalize(c.word) # Normalize(d.word)
<1>1. PICK n : n = Len(lexicon)
  OBVIOUS
<1>2. n \in Nat /\ DOMAIN lexicon = 1..n
  BY <1>1, ListIs DEF FormsOfWords, GoodLexicon
<1>3. IsFiniteSet(1..n)
  BY <1>2, FS_Interval
<1>4. IsFiniteSet(FormsIn(lexicon))
  <2>1. PICK f : f = [i \in 1..n |-> lexicon[i].normalized]
    OBVIOUS
  <2>2. DOMAIN f = 1..n /\ \A i \in 1..n : f[i] = lexicon[i].normalized
    BY ONLY <2>1
  <2>3. FormsIn(lexicon) = {f[i] : i \in DOMAIN f}
    BY ONLY <1>2, <2>2 DEF FormsIn
  <2> QED
    BY ONLY <1>3, <2>2, <2>3, FiniteImage
<1>5. IsFiniteSet(DOMAIN ranks)
  <2>1. DOMAIN ranks \subseteq FormsIn(lexicon)
    BY DEF CandidatesOf
  <2> QED
    BY ONLY <1>4, <2>1, FS_Subset
<1>6. IsFiniteSet(S)
  BY ONLY <1>5, S = {ranks[w] : w \in DOMAIN ranks}, FiniteImage
<1>7. \A w \in DOMAIN ranks : IsCandidate(ranks[w]) /\ ranks[w].word \in Spelled /\ Normalize(ranks[w].word) = w
  BY DEF CandidatesOf, KeptUnder
<1>8. \A c \in S : IsCandidate(c) /\ c.word \in Spelled
  BY <1>7
<1>9. \A c, d \in S : c # d => Normalize(c.word) # Normalize(d.word)
  BY <1>7
<1> QED
  BY <1>6, <1>8, <1>9

\* No text is told twice: the case that is shown is not part of a form.
LEMMA AnswerIsApart ==
  ASSUME NEW lexicon, FormsOfWords(lexicon), NEW ranks, CandidatesOf(ranks, lexicon),
         NEW text, NEW limit \in Nat, NEW u, NEW answer, answer = Finish(ranks, text, limit, u)
  PROVE  \A i, j \in DOMAIN answer : i # j => answer[i].text # answer[j].text
<1>1. PICK S : S = {ranks[w] : w \in DOMAIN ranks}
  OBVIOUS
<1>2. /\ IsFiniteSet(S)
      /\ \A c \in S : IsCandidate(c) /\ c.word \in Spelled
      /\ \A c, d \in S : c # d => Normalize(c.word) # Normalize(d.word)
  BY <1>1, CandidatesAreApart
<1>3. PICK best, n : best = BestFirst(S, u) /\ n = Cardinality(S)
  OBVIOUS
<1>4. /\ n \in Nat /\ DOMAIN best = 1..n /\ Len(best) = n
      /\ \A k \in 1..n : best[k] \in S
      /\ \A k, l \in 1..n : best[k] = best[l] => k = l
  <2>1. /\ \A c \in S : IsCandidate(c)
        /\ \A c, d \in S : c # d => c.word # d.word
    BY <1>2
  <2> QED
    BY ONLY <1>2, <1>3, <2>1, EachRankedOnce
<1>5. PICK lower : lower = IsAllLowercase(text)
  OBVIOUS
<1> DEFINE shown(w) == IF lower /\ IsTitleCaseLike(w) THEN ToLowerCase(w) ELSE w
<1>6. \A w \in Spelled : Normalize(shown(w)) = Normalize(w)
  BY CaseAssumption
<1>7. PICK m : m = IF n < limit THEN n ELSE limit
  OBVIOUS
<1>8. m \in Nat /\ m <= n
  BY ONLY <1>4, <1>7, limit \in Nat
<1>9. answer = [k \in 1..m |-> [text |-> shown(best[k].word), kind |-> best[k].kind, cost |-> best[k].cost]]
  <2>1. Ranked(S, LAMBDA a, b : CandidateLess(a, b, u)) = best
    BY ONLY <1>3 DEF Ranked, BestFirst
  <2>2. Ranked({ranks[w] : w \in DOMAIN ranks}, LAMBDA a, b : CandidateLess(a, b, u)) = best
    BY ONLY <1>1, <2>1
  <2> QED
    BY ONLY <1>4, <1>5, <1>7, <2>2, answer = Finish(ranks, text, limit, u) DEF Finish
<1> HIDE DEF shown
<1>10. DOMAIN answer = 1..m /\ \A k \in 1..m : answer[k].text = shown(best[k].word)
  BY ONLY <1>9
<1>11. ASSUME NEW i \in 1..m, NEW j \in 1..m, i # j PROVE answer[i].text # answer[j].text
  <2>1. i \in 1..n /\ j \in 1..n
    BY ONLY <1>4, <1>8, i \in 1..m, j \in 1..m
  <2>2. PICK c, d : c = best[i] /\ d = best[j]
    OBVIOUS
  <2>3. c \in S /\ d \in S /\ c # d
    BY ONLY <1>4, <1>11, <2>1, <2>2
  <2>4. Normalize(c.word) # Normalize(d.word) /\ c.word \in Spelled /\ d.word \in Spelled
    BY ONLY <1>2, <2>3
  <2>5. Normalize(shown(c.word)) # Normalize(shown(d.word))
    BY ONLY <1>6, <2>4
  <2>6. answer[i].text = shown(c.word) /\ answer[j].text = shown(d.word)
    BY <1>10, <2>2
  <2> QED
    BY ONLY <2>5, <2>6
<1> QED
  BY ONLY <1>10, <1>11

\* Candidates are totally ordered and no text is told twice, whatever was asked.
THEOREM AnswersAreOrdered == Spec => []AnswersAreDetermined
<1>1. ASSUME Inv, Rebuilt PROVE AnswersAreDetermined
  <2>1. PICK lexicon, t, index : lexicon = engine.lexicon /\ t = engine.trie /\ index = engine.index
    OBVIOUS
  <2>2. ASSUME \A i \in DOMAIN lexicon : lexicon[i].normalized = Normalize(lexicon[i].word),
               NEW q \in Queries, NEW u \in BOOLEAN, NEW ranks,
               ranks = IndexedCandidates(lexicon, t, index, q, u)
        PROVE  CandidatesOf(ranks, lexicon)
    <3>1. FormsOfWords(lexicon) /\ index.byNormalized = Sorted(lexicon)
      BY <1>1, <2>1, <2>2 DEF Inv, WellFormed, FormsOfWords
    <3>2. PICK query : query = Normalize(q)
      OBVIOUS
    <3>3. query \in Seq(Nat)
      BY <3>2, BoundsAssumption, NormalizeType
    <3>4. PICK hits : hits = HitWords(t, query)
      OBVIOUS
    <3>5. hits \subseteq FormsIn(lexicon) /\ hits \subseteq Seq(Nat)
      BY <1>1, <2>1, <3>3, <3>4, HitsAreForms DEF FormsIn
    <3>6. PICK position : position = [w \in hits |-> FindNormalized(index, lexicon, w)]
      OBVIOUS
    <3>7. PICK first : first = PrefixStage(lexicon, query, position)
      OBVIOUS
    <3>8. CandidatesOf(first, lexicon)
      BY ONLY <3>1, <3>3, <3>5, <3>6, <3>7, PrefixStageIs
    <3>9. PICK w, near : w = StripDiacritics(query) /\ near = NearPositions(index, w, MaxStrippedUnitDistance)
      OBVIOUS
    <3>10. PICK S : S = {near[k] : k \in DOMAIN near}
      OBVIOUS
    <3>11. S \subseteq DOMAIN lexicon /\ near = Ascending(S)
      <4>1. w \in Seq(Nat) /\ MaxStrippedUnitDistance \in Nat
        BY <3>3, <3>9, StripType DEF MaxStrippedUnitDistance
      <4>2. near = NearPositions(engine.index, w, MaxStrippedUnitDistance)
        BY <2>1, <3>9
      <4>3. NearAre(near, lexicon, w, MaxStrippedUnitDistance)
        BY ONLY <1>1, <2>1, <4>1, <4>2, NearPositionsAre
      <4> QED
        BY ONLY <3>10, <4>3 DEF NearAre
    <3>12. PICK n : n = Len(near)
      OBVIOUS
    <3>13. n \in Nat /\ \A k \in 1..n : near[k] \in DOMAIN lexicon
      <4>1. PICK m : m = Len(lexicon)
        OBVIOUS
      <4>2. m \in Nat /\ DOMAIN lexicon = 1..m
        BY <3>1, <4>1, ListIs DEF FormsOfWords, GoodLexicon
      <4>3. IsFiniteSet(S) /\ S \subseteq Nat
        <5>1. IsFiniteSet(1..m) /\ 1..m \subseteq Nat
          BY <4>2, FS_Interval
        <5> QED
          BY <3>11, <4>2, <5>1, FS_Subset
      <4>4. near \in Seq(S)
        <5>1. IsAscending(near, S)
          BY <3>11, <4>3, NumbersRanked
        <5> QED
          BY ONLY <5>1 DEF IsAscending
      <4>5. n \in Nat /\ \A k \in 1..n : near[k] \in S
        BY ONLY <3>12, <4>4
      <4> QED
        BY ONLY <3>11, <4>5
    <3>14. PICK all : all = ScoreAll(lexicon, near, query, u, first)
      OBVIOUS
    <3>15. CandidatesOf(all, lexicon)
      BY ONLY <3>1, <3>3, <3>8, <3>12, <3>13, <3>14, ScoreAllKeeps
    <3>16. CandidatesOf(NoCandidates, lexicon)
      BY DEF CandidatesOf, NoCandidates
    <3>17. ranks = IF query = <<>> THEN NoCandidates ELSE all
      BY ONLY <2>2, <3>2, <3>4, <3>6, <3>7, <3>9, <3>14 DEF IndexedCandidates
    <3> QED
      BY ONLY <3>15, <3>16, <3>17
  <2>3. ASSUME \A i \in DOMAIN lexicon : lexicon[i].normalized = Normalize(lexicon[i].word),
               NEW q \in Queries, NEW u \in BOOLEAN, NEW ranks,
               ranks = IndexedCandidates(lexicon, t, index, q, u)
        PROVE  /\ \A v, w \in DOMAIN ranks :
                    v # w => (CandidateLess(ranks[v], ranks[w], u) <=> ~CandidateLess(ranks[w], ranks[v], u))
               /\ LET answer == Suggest(engine, q, MaxResults, u)
                  IN  \A i, j \in DOMAIN answer : i # j => answer[i].text # answer[j].text
    <3>1. CandidatesOf(ranks, lexicon)
      BY <2>2, <2>3
    <3>2. FormsOfWords(lexicon)
      BY <1>1, <2>1, <2>3 DEF Inv, WellFormed, FormsOfWords
    <3>3. ASSUME NEW v \in DOMAIN ranks, NEW w \in DOMAIN ranks, v # w
          PROVE  CandidateLess(ranks[v], ranks[w], u) <=> ~CandidateLess(ranks[w], ranks[v], u)
      <4>1. PICK c, d : c = ranks[v] /\ d = ranks[w]
        OBVIOUS
      <4>2. IsCandidate(c) /\ IsCandidate(d) /\ c.word # d.word
        BY <3>1, <3>3, <4>1 DEF CandidatesOf, KeptUnder
      <4>3. PICK k, l : k = RankKey(c, u) /\ l = RankKey(d, u)
        OBVIOUS
      <4>4. IsKey(k) /\ IsKey(l)
        BY <4>2, <4>3, KeyIsFour
      <4>5. /\ CandidateLess(c, d, u) <=> KeyLess(k, l) \/ (SameKey(k, l) /\ WordLess(c.word, d.word))
            /\ CandidateLess(d, c, u) <=> KeyLess(l, k) \/ (SameKey(l, k) /\ WordLess(d.word, c.word))
        BY <4>2, <4>3, CandidateLessIs
      <4>6. /\ KeyLess(k, l) \/ SameKey(k, l) \/ KeyLess(l, k)
            /\ KeyLess(k, l) => ~SameKey(k, l) /\ ~KeyLess(l, k)
            /\ KeyLess(l, k) => ~SameKey(l, k) /\ ~KeyLess(k, l)
        BY ONLY <4>4, KeysOrdered
      <4>7. SameKey(k, l) <=> SameKey(l, k)
        BY DEF SameKey
      <4>8. WordLess(c.word, d.word) <=> ~WordLess(d.word, c.word)
        <5>1. c.word \in Seq(Nat) /\ d.word \in Seq(Nat)
          BY <4>2 DEF IsCandidate
        <5>2. WordLess(c.word, d.word) \/ WordLess(d.word, c.word)
          BY ONLY <4>2, <5>1, WordLessTotal
        <5>3. ~(WordLess(c.word, d.word) /\ WordLess(d.word, c.word))
          <6>1. ~WordLess(c.word, c.word)
            BY ONLY <5>1, WordLessIrreflexive
          <6> QED
            BY ONLY <5>1, <6>1, WordLessTransitive
        <5> QED
          BY ONLY <5>2, <5>3
      <4> QED
        BY ONLY <4>1, <4>5, <4>6, <4>7, <4>8
    <3>4. PICK answer : answer = Suggest(engine, q, MaxResults, u)
      OBVIOUS
    <3>5. answer = Finish(ranks, q, MaxResults, u)
      <4>1. Clamp(MaxResults) = MaxResults
        BY BoundsAssumption DEF Clamp
      <4> QED
        BY ONLY <2>1, <2>3, <3>4, <4>1 DEF Suggest
    <3>6. MaxResults \in Nat
      BY BoundsAssumption
    <3>7. \A i, j \in DOMAIN answer : i # j => answer[i].text # answer[j].text
      BY ONLY <3>1, <3>2, <3>5, <3>6, AnswerIsApart
    <3> QED
      BY ONLY <3>3, <3>4, <3>7
  <2> QED
    BY ONLY <2>1, <2>3 DEF AnswersAreDetermined
<1> QED
  BY <1>1, InvHolds, RebuiltHolds, PTL
=============================================================================
