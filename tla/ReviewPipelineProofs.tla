------------------------ MODULE ReviewPipelineProofs ------------------------
(***************************************************************************)
(* Proofs about the review pipeline.                                       *)
(***************************************************************************)
EXTENDS ReviewPipeline, WordFacts

USE DEF Command, Locking

LEMMA Started ==
  ASSUME NEW c \in Command, NEW job, Begin(c, job), DOMAIN jobs = Command
  PROVE  /\ jobs'[c] = job
         /\ \A d \in Command : d # c => jobs'[d] = jobs[d]
         /\ DOMAIN jobs' = Command
         /\ started < MaxCommands /\ started' = started + 1
         /\ locks' = locks \cup ({c} \cap Locking)
BY DEF Begin

LEMMA Moved ==
  ASSUME NEW c \in Command, NEW job, Goto(c, job), DOMAIN jobs = Command
  PROVE  /\ jobs'[c] = job
         /\ \A d \in Command : d # c => jobs'[d] = jobs[d]
         /\ DOMAIN jobs' = Command
BY DEF Goto

LEMMA Ended ==
  ASSUME NEW c \in Command, End(c), DOMAIN jobs = Command
  PROVE  /\ jobs'[c] = Idle
         /\ \A d \in Command : d # c => jobs'[d] = jobs[d]
         /\ DOMAIN jobs' = Command
         /\ locks' = locks \ {c}
BY DEF End

LEMMA FirstRevision == 1 \in DOMAIN Dictionary /\ 1 \in DOMAIN DecisionFiles
BY PipelineAssumption, DecisionsAssumption DEF List

LEMMA InitTyped == Init => TypeOK
<1> SUFFICES ASSUME Init PROVE TypeOK
  OBVIOUS
<1>1. \A v : DOMAIN Import(Dictionary[v]) = Range(ReportOrder)
  BY DEF Import, Range, ReportOrder
<1>2. 0 \in 0..MaxCommands
  BY PipelineAssumption
<1> QED
  BY <1>1, <1>2, FirstRevision DEF Init, TypeOK

\* What a step of a command does to the type invariant.
LEMMA BeginTyped ==
  ASSUME TypeOK, NEW c \in Command, NEW job, Begin(c, job), UNCHANGED files
  PROVE  TypeOK'
<1>1. started + 1 \in 0..MaxCommands
  BY PipelineAssumption DEF TypeOK, Begin
<1> QED
  BY <1>1, Started DEF TypeOK, Begin, files, people

LEMMA GotoTyped ==
  ASSUME TypeOK, NEW c \in Command, NEW job, Goto(c, job), jobs[c] # Idle,
         DOMAIN reports' = DOMAIN reports
  PROVE  TypeOK'
BY Moved DEF TypeOK, Goto, people

LEMMA EndTyped ==
  ASSUME TypeOK, NEW c \in Command, End(c), DOMAIN reports' = DOMAIN reports
  PROVE  TypeOK'
BY Ended DEF TypeOK, End, people

LEMMA NextTyped == TypeOK /\ [Next]_vars => TypeOK'
<1> SUFFICES ASSUME TypeOK, [Next]_vars PROVE TypeOK'
  OBVIOUS
<1>1. ASSUME NEW c \in Command, Fail(c) PROVE TypeOK'
  BY <1>1, EndTyped DEF Fail, files
<1>2. ASSUME NEW c \in Command, Crash(c) PROVE TypeOK'
  BY <1>2 DEF Crash, TypeOK, files, people
<1>3. ASSUME NEW c \in Command, RemoveLock(c) PROVE TypeOK'
  BY <1>3 DEF RemoveLock, TypeOK, files, people
<1>4. CASE StartImport
  BY <1>4, BeginTyped DEF StartImport
<1>5. ASSUME NEW i \in DOMAIN ReportOrder, WriteReport(i) PROVE TypeOK'
  <2>1. DOMAIN reports' = DOMAIN reports
    BY <1>5 DEF WriteReport
  <2>2. jobs["import"] # Idle
    BY <1>5 DEF WriteReport, At
  <2> QED
    BY <1>5, <2>1, <2>2, GotoTyped, EndTyped DEF WriteReport
<1>6. CASE StartAudit
  BY <1>6, BeginTyped DEF StartAudit
<1>7. CASE ReplayDictionary
  BY <1>7, GotoTyped DEF ReplayDictionary, Computed, At, files
<1>8. CASE ParkAudit
  BY <1>8, GotoTyped DEF ParkAudit, At
<1>9. CASE InstallAudit
  BY <1>9, EndTyped DEF InstallAudit
<1>10. CASE StartQueues
  BY <1>10, BeginTyped DEF StartQueues
<1>11. CASE LoadInputs
  BY <1>11, GotoTyped DEF LoadInputs, Computed, At, files
<1>12. CASE ParkQueues
  BY <1>12, GotoTyped DEF ParkQueues, At
<1>13. CASE InstallQueues
  BY <1>13, EndTyped DEF InstallQueues
<1>14. CASE StartBatch
  BY <1>14, BeginTyped DEF StartBatch
<1>15. CASE RankPool
  BY <1>15, GotoTyped DEF RankPool, At, files
<1>16. CASE WriteBatch
  BY <1>16, EndTyped DEF WriteBatch, files
<1>17. CASE StartValidation
  BY <1>17, BeginTyped DEF StartValidation
<1>18. CASE HashInputs
  BY <1>18, GotoTyped DEF HashInputs, Computed, At, files
<1>19. CASE ParkReport
  BY <1>19, GotoTyped DEF ParkReport, At
<1>20. CASE InstallReport
  BY <1>20, EndTyped DEF InstallReport
<1>21. ASSUME NEW pack \in Packs \ {"seed"}, StartBuild(pack) PROVE TypeOK'
  BY <1>21, BeginTyped DEF StartBuild
<1>22. CASE ReadQueues
  BY <1>22, GotoTyped DEF ReadQueues, At, files
<1>23. CASE ResolvePack
  BY <1>23, GotoTyped DEF ResolvePack, At, files
<1>24. CASE FinishBuild
  BY <1>24, EndTyped DEF FinishBuild, files
<1>25. CASE FetchDictionary \/ RegisterRevision
  <2>1. \A v \in 2..Len(Dictionary) : v \in DOMAIN Dictionary
    BY PipelineAssumption
  <2> QED
    BY <1>25, <2>1 DEF FetchDictionary, RegisterRevision, TypeOK, files
<1>26. CASE EditDecisions
  <2>1. decisions + 1 \in DOMAIN DecisionFiles
    <3>1. DecisionFiles \in Seq(Range(DecisionFiles))
      BY DecisionsAssumption DEF List
    <3> QED
      BY <1>26, <3>1 DEF EditDecisions, TypeOK
  <2> QED
    BY <1>26, <2>1 DEF EditDecisions, TypeOK, files
<1>27. CASE UNCHANGED vars
  BY <1>27 DEF TypeOK, vars
<1> QED
  BY <1>1, <1>2, <1>3, <1>4, <1>5, <1>6, <1>7, <1>8, <1>9, <1>10, <1>11, <1>12, <1>13, <1>14,
     <1>15, <1>16, <1>17, <1>18, <1>19, <1>20, <1>21, <1>22, <1>23, <1>24, <1>25, <1>26, <1>27
     DEF Next

\* The type invariant: who stands where, and which lock files there are.
THEOREM TypeCorrect == Spec => []TypeOK
BY InitTyped, NextTyped, PTL DEF Spec

(***************************************************************************)
(* What an import is made of: the lines it reads, their records, and the   *)
(* first record of each form.                                              *)
(***************************************************************************)
Words == Seq(Nat)
Files == Seq({Blank, BadUtf8} \cup Lines)

Counted(file) == file # <<>> /\ IsCount(file[1])
TextLines(file) == {i \in DOMAIN file : file[i] \notin {Blank, BadUtf8}
                                          /\ ~(Counted(file) /\ i = 1)}
AcceptedLines(file) == {i \in TextLines(file) : RefusalOf(file[i]) = ""}
Records(file) == {RecordOf(file[i], i) : i \in AcceptedLines(file)}
FirstRecord(r, records) == \A s \in records : s.normalized = r.normalized => r.line <= s.line
Kept(file) == {r \in Records(file) : FirstRecord(r, Records(file))}
Later(file) == {p \in Kept(file) \X (Records(file) \ Kept(file)) :
                  p[1].normalized = p[2].normalized}
Pairs(file) == {p \in Later(file) : ~Same(p[1], p[2])}
RefusedLines(file) == {i \in DOMAIN file : \/ file[i] = BadUtf8
                                          \/ i \in TextLines(file) \ AcceptedLines(file)}
ConflictOf(p) ==
  [normalized |-> p[1].normalized,
   a |-> [word |-> p[1].word, line |-> p[1].line, flags |-> p[1].flags],
   b |-> [word |-> p[2].word, line |-> p[2].line, flags |-> p[2].flags]]

LEMMA ImportIs ==
  ASSUME NEW file \in Files
  PROVE  /\ Import(file).lexicon = Kept(file)
         /\ Import(file).rejected = {RejectionOf(file[i], i) : i \in RefusedLines(file)}
         /\ Import(file).conflicts = {ConflictOf(p) : p \in Pairs(file)}
         /\ Import(file).summary.physical = Len(file)
         /\ Import(file).summary.parsed = Cardinality(TextLines(file))
         /\ Import(file).summary.accepted = Cardinality(Kept(file))
         /\ Import(file).summary.rejected = Cardinality(Import(file).rejected)
         /\ Import(file).summary.duplicates
              = Cardinality(Later(file)) - Cardinality(Pairs(file))
         /\ Import(file).summary.conflicting = Cardinality(Pairs(file))
<1> DEFINE head == file # <<>> /\ IsCount(file[1])
           lines == {i \in DOMAIN file : file[i] # Blank /\ ~(head /\ i = 1)}
           texts == {i \in lines : file[i] # BadUtf8}
           records == {RecordOf(file[i], i) : i \in {j \in texts : RefusalOf(file[j]) = ""}}
           first(r) == \A s \in records : s.normalized = r.normalized => r.line <= s.line
           kept == {r \in records : first(r)}
           later == {p \in kept \X (records \ kept) : p[1].normalized = p[2].normalized}
           conflicts == {p \in later : ~Same(p[1], p[2])}
           rejected == {RejectionOf(file[i], i) : i \in
                          {j \in lines : j \notin texts \/ RefusalOf(file[j]) # ""}}
<1>1. texts = TextLines(file)
  BY DEF TextLines, Counted
<1>2. records = Records(file)
  BY <1>1 DEF Records, AcceptedLines
<1>3. kept = Kept(file)
  BY <1>2 DEF Kept, FirstRecord
<1>4. later = Later(file)
  BY <1>2, <1>3 DEF Later
<1>5. conflicts = Pairs(file)
  BY <1>4 DEF Pairs
<1>6. {j \in lines : j \notin texts \/ RefusalOf(file[j]) # ""} = RefusedLines(file)
  <2>1. \A j \in DOMAIN file : file[j] = BadUtf8 => j \in lines /\ j \notin texts
    BY LineAssumption DEF IsCount, TextLine
  <2>2. \A j \in lines : j \notin texts <=> file[j] = BadUtf8
    OBVIOUS
  <2> QED
    BY <2>1, <2>2, <1>1 DEF RefusedLines, AcceptedLines
<1>7. rejected = {RejectionOf(file[i], i) : i \in RefusedLines(file)}
  BY <1>6
<1>8. /\ Import(file).lexicon = kept
      /\ Import(file).rejected = rejected
      /\ Import(file).conflicts =
           {[normalized |-> p[1].normalized,
             a |-> [word |-> p[1].word, line |-> p[1].line, flags |-> p[1].flags],
             b |-> [word |-> p[2].word, line |-> p[2].line, flags |-> p[2].flags]] :
              p \in conflicts}
      /\ Import(file).summary =
           [physical |-> Len(file), parsed |-> Cardinality(texts),
            accepted |-> Cardinality(kept), rejected |-> Cardinality(rejected),
            duplicates |-> Cardinality(later) - Cardinality(conflicts),
            conflicting |-> Cardinality(conflicts),
            mismatch |-> head /\ CountOf(file[1]) # Cardinality(texts)]
  BY DEF Import
<1> HIDE DEF kept, rejected, later, conflicts, texts, head
<1> QED
  BY <1>1, <1>3, <1>4, <1>5, <1>7, <1>8 DEF ConflictOf

RecordType(r) ==
  /\ r.word \in Words /\ r.normalized \in Words /\ r.flags \in Words /\ r.morphology \in Words
  /\ r.line \in Nat
  /\ r.normalized = NormalizeText(r.word)

LEMMA LinesType ==
  ASSUME NEW file \in Files
  PROVE  /\ DOMAIN file = 1..Len(file) /\ Len(file) \in Nat
         /\ IsFiniteSet(DOMAIN file)
         /\ \A i \in TextLines(file) : i \in Nat /\ file[i] \in Lines
         /\ \A i \in RefusedLines(file) : i \in Nat /\ RawLine(file[i]) \in Words
<1>1. DOMAIN file = 1..Len(file) /\ Len(file) \in Nat
  BY DEF Files
<1>2. IsFiniteSet(DOMAIN file)
  BY <1>1, FS_Interval
<1>3. \A i \in DOMAIN file : file[i] \in {Blank, BadUtf8} \cup Lines
  BY DEF Files
<1>4. \A i \in TextLines(file) : i \in Nat /\ file[i] \in Lines
  BY <1>1, <1>3 DEF TextLines
<1>5. ASSUME NEW i \in RefusedLines(file) PROVE i \in Nat /\ RawLine(file[i]) \in Words
  <2>1. CASE file[i] = BadUtf8
    BY <2>1, <1>1, <1>5 DEF RawLine, RefusedLines, Words
  <2>2. CASE i \in TextLines(file)
    <3>1. file[i] \in Lines /\ file[i] # BadUtf8
      BY <2>2, <1>4 DEF TextLines
    <3>2. file[i].word \in Seq(Nat) /\ file[i].flags \in Seq(Nat) /\ file[i].morphology \in Seq(Nat)
      BY <3>1 DEF Lines
    <3>3. <<Slash>> \o file[i].flags \in Seq(Nat)
      BY <3>2, LineAssumption
    <3> QED
      BY <3>1, <3>2, <3>3, <2>2, <1>4 DEF RawLine, Words
  <2> QED
    BY <2>1, <2>2, <1>5 DEF RefusedLines
<1> QED
  BY <1>1, <1>2, <1>4, <1>5

LEMMA RecordOfType ==
  ASSUME NEW line \in Lines, NEW i \in Nat
  PROVE  RecordType(RecordOf(line, i)) /\ RecordOf(line, i).line = i
<1>1. line.word \in Seq(Nat) /\ line.flags \in Seq(Nat) /\ line.morphology \in Seq(Nat)
  BY DEF Lines
<1>2. NormalizeText(line.word) \in Seq(Nat)
  BY <1>1, NormalizeType DEF NormalizeText
<1> QED
  BY <1>1, <1>2 DEF RecordType, RecordOf, Words

\* The records of an import: there are finitely many, one of a line.
LEMMA RecordsType ==
  ASSUME NEW file \in Files
  PROVE  /\ IsFiniteSet(Records(file))
         /\ \A r \in Records(file) : RecordType(r) /\ r.line \in AcceptedLines(file)
         /\ \A r, s \in Records(file) : r.line = s.line => r = s
<1>1. /\ \A i \in TextLines(file) : i \in Nat /\ file[i] \in Lines
      /\ IsFiniteSet(DOMAIN file)
  BY LinesType
<1>2. AcceptedLines(file) \subseteq TextLines(file) /\ AcceptedLines(file) \subseteq DOMAIN file
  BY DEF AcceptedLines, TextLines
<1>3. \A i \in AcceptedLines(file) : /\ RecordType(RecordOf(file[i], i))
                                     /\ RecordOf(file[i], i).line = i
  BY <1>1, <1>2, RecordOfType
<1>4. IsFiniteSet(AcceptedLines(file))
  BY <1>1, <1>2, FS_Subset
<1>5. IsFiniteSet(Records(file))
  <2> DEFINE f == [i \in AcceptedLines(file) |-> RecordOf(file[i], i)]
  <2>1. DOMAIN f = AcceptedLines(file) /\ {f[i] : i \in DOMAIN f} = Records(file)
    BY DEF Records
  <2> HIDE DEF f
  <2> QED
    BY <2>1, <1>4, FiniteImage
<1> QED
  BY <1>3, <1>5 DEF Records

\* What the replay has of the same line.
LEMMA ReplayedType ==
  ASSUME NEW file \in Files
  PROVE  /\ IsFiniteSet(Replayed(file).parsed)
         /\ \A r \in Replayed(file).parsed :
              /\ RecordType(r)
              /\ r.line \in DOMAIN file /\ TextLine(file[r.line])
              /\ r = RecordOf(file[r.line], r.line)
<1> DEFINE decoded == {i \in DOMAIN file : file[i] # BadUtf8}
           head(i) == /\ i \in decoded
                      /\ \A j \in decoded : j >= i
                      /\ IsCount(file[i])
           entry(i) == file[i] # Blank /\ ~head(i)
           lines == {j \in decoded : entry(j) /\ RefusalOf(file[j]) = ""}
           f == [i \in lines |-> RecordOf(file[i], i)]
<1>1. Replayed(file).parsed = {RecordOf(file[i], i) : i \in lines}
  BY DEF Replayed
<1>2. \A i \in lines : /\ i \in DOMAIN file /\ i \in Nat
                       /\ file[i] \in Lines /\ TextLine(file[i])
  <2>1. \A i \in DOMAIN file : file[i] \in {Blank, BadUtf8} \cup Lines
    BY DEF Files
  <2>2. \A i \in lines : i \in DOMAIN file /\ file[i] # BadUtf8 /\ file[i] # Blank
    OBVIOUS
  <2>3. \A i \in DOMAIN file : i \in Nat
    BY LinesType
  <2> HIDE DEF lines
  <2> QED
    BY <2>1, <2>2, <2>3 DEF TextLine
<1>3. lines \subseteq DOMAIN file
  OBVIOUS
<1> HIDE DEF lines
<1>4. IsFiniteSet(lines)
  BY <1>3, LinesType, FS_Subset
<1>5. DOMAIN f = lines /\ {f[i] : i \in DOMAIN f} = Replayed(file).parsed
  BY <1>1
<1>6. IsFiniteSet(Replayed(file).parsed)
  <2> HIDE DEF f
  <2> QED BY <1>4, <1>5, FiniteImage
<1> QED
  BY <1>1, <1>2, <1>6, RecordOfType

(***************************************************************************)
(* The audit.                                                              *)
(***************************************************************************)
First(file, r) == FirstOf(ByForm(Records(file), r.normalized))

\* Every record has one record that is kept for its form.
LEMMA FirstIsKept ==
  ASSUME NEW file \in Files, NEW r \in Records(file)
  PROVE  /\ First(file, r) \in Kept(file)
         /\ First(file, r).normalized = r.normalized
         /\ \A k \in Kept(file) : k.normalized = r.normalized => k = First(file, r)
<1> DEFINE group == ByForm(Records(file), r.normalized)
           numbers == {s.line : s \in group}
<1>1. /\ \A s \in Records(file) : s.line \in Nat
      /\ \A s, t \in Records(file) : s.line = t.line => s = t
  BY RecordsType DEF RecordType
<1>2. \A s : s \in group <=> s \in Records(file) /\ s.normalized = r.normalized
  BY DEF ByForm
<1>3. \E k \in group : \A s \in group : k.line <= s.line
  <2>1. numbers \subseteq Nat /\ numbers # {}
    BY <1>1, <1>2
  <2>2. PICK n \in numbers : \A m \in numbers : n <= m
    <3> HIDE DEF numbers
    <3> QED BY <2>1, LeastNumber
  <2> QED
    BY <2>2
<1>4. First(file, r) = CHOOSE k \in group : \A s \in group : k.line <= s.line
  BY DEF First, FirstOf
<1>5. First(file, r) \in group /\ \A s \in group : First(file, r).line <= s.line
  <2> HIDE DEF group
  <2> QED BY <1>3, <1>4
<1>6. First(file, r) \in Kept(file)
  BY <1>2, <1>5 DEF Kept, FirstRecord
<1>7. ASSUME NEW k \in Kept(file), k.normalized = r.normalized PROVE k = First(file, r)
  <2>1. k \in group /\ k.line <= First(file, r).line
    BY <1>2, <1>5, <1>7 DEF Kept, FirstRecord
  <2> QED
    BY <2>1, <1>1, <1>2, <1>5
<1> QED
  BY <1>2, <1>5, <1>6, <1>7

\* The importer keeps the first record of a form and counts every other one.
LEMMA KeptAndLater ==
  ASSUME NEW file \in Files
  PROVE  /\ Cardinality(Kept(file)) \in Nat /\ Cardinality(Later(file)) \in Nat
         /\ Cardinality(Pairs(file)) \in Nat /\ Cardinality(Records(file)) \in Nat
         /\ Cardinality(Kept(file)) + Cardinality(Later(file)) = Cardinality(Records(file))
         /\ Cardinality(Kept(file)) = Cardinality(Forms(Records(file)))
         /\ Cardinality(Pairs(file)) = Cardinality({r \in Records(file) \ Kept(file) :
                                                     ~Same(First(file, r), r)})
<1> DEFINE R == Records(file)
           K == Kept(file)
           others == R \ K
           differ == {r \in others : ~Same(First(file, r), r)}
           f == [r \in others |-> <<First(file, r), r>>]
           g == [r \in differ |-> <<First(file, r), r>>]
           h == [r \in K |-> r.normalized]
<1>1. IsFiniteSet(R) /\ K \subseteq R /\ others \subseteq R /\ differ \subseteq R
  BY RecordsType DEF Kept
<1>2. \A r \in R : /\ First(file, r) \in K
                   /\ First(file, r).normalized = r.normalized
                   /\ \A k \in K : k.normalized = r.normalized => k = First(file, r)
  BY FirstIsKept
<1>3. Later(file) = {<<First(file, r), r>> : r \in others}
  <2>1. \A p \in Later(file) : p[2] \in others /\ p = <<First(file, p[2]), p[2]>>
    BY <1>2 DEF Later
  <2>2. \A r \in others : <<First(file, r), r>> \in Later(file)
    BY <1>2 DEF Later
  <2> QED
    BY <2>1, <2>2
<1>4. Pairs(file) = {<<First(file, r), r>> : r \in differ}
  BY <1>3 DEF Pairs
<1> HIDE DEF R, K
<1>5. /\ IsFiniteSet(K) /\ IsFiniteSet(others) /\ IsFiniteSet(differ)
      /\ Cardinality(R) = Cardinality(K) + Cardinality(others)
  <2>1. IsFiniteSet(K) /\ IsFiniteSet(others) /\ IsFiniteSet(differ)
    BY <1>1, FS_Subset
  <2>2. Cardinality(others) = Cardinality(R) - Cardinality(R \cap K)
    BY <1>1, FS_Difference
  <2>3. R \cap K = K
    BY <1>1
  <2>4. Cardinality(R) \in Nat /\ Cardinality(K) \in Nat
    BY <1>1, <2>1, FS_CardinalityType
  <2>5. Cardinality(R \cap K) = Cardinality(K)
    BY <2>3
  <2>6. Cardinality(R) = Cardinality(K) + Cardinality(others)
    <3> HIDE DEF others
    <3> QED BY <2>2, <2>4, <2>5
  <2> QED
    BY <2>1, <2>6
<1>6. Cardinality(Later(file)) = Cardinality(others)
  <2>1. DOMAIN f = others /\ {f[r] : r \in DOMAIN f} = Later(file)
    BY <1>3
  <2>2. \A x, y \in DOMAIN f : f[x] = f[y] => x = y
    OBVIOUS
  <2> HIDE DEF f
  <2> QED
    BY <2>1, <2>2, <1>5, ImageCardinality
<1>7. Cardinality(Pairs(file)) = Cardinality(differ)
  <2>1. DOMAIN g = differ /\ {g[r] : r \in DOMAIN g} = Pairs(file)
    BY <1>4
  <2>2. \A x, y \in DOMAIN g : g[x] = g[y] => x = y
    OBVIOUS
  <2> HIDE DEF g
  <2> QED
    BY <2>1, <2>2, <1>5, ImageCardinality
<1>8. Cardinality(K) = Cardinality(Forms(R))
  <2>1. DOMAIN h = K /\ {h[r] : r \in DOMAIN h} = Forms(R)
    BY <1>1, <1>2 DEF Forms
  <2>2. \A x, y \in DOMAIN h : h[x] = h[y] => x = y
    BY <1>1, <1>2
  <2> HIDE DEF h
  <2> QED
    BY <2>1, <2>2, <1>5, ImageCardinality
<1> QED
  BY <1>1, <1>5, <1>6, <1>7, <1>8, FS_CardinalityType DEF R, K

\* A record or a refusal for each line that is read, and a refusal for each that
\* cannot be decoded.
BadLines(file) == {i \in DOMAIN file : file[i] = BadUtf8}

LEMMA LinesCounted ==
  ASSUME NEW file \in Files
  PROVE  /\ Cardinality(TextLines(file)) \in Nat /\ Cardinality(BadLines(file)) \in Nat
         /\ Cardinality(Import(file).rejected) = Cardinality(RefusedLines(file))
         /\ Cardinality(RefusedLines(file)) \in Nat
         /\ Cardinality(Records(file)) + Cardinality(RefusedLines(file))
              = Cardinality(TextLines(file)) + Cardinality(BadLines(file))
<1> DEFINE T == TextLines(file)
           A == AcceptedLines(file)
           B == BadLines(file)
           J == RefusedLines(file)
           f == [i \in A |-> RecordOf(file[i], i)]
           g == [i \in J |-> RejectionOf(file[i], i)]
<1>1. A \subseteq T /\ T \subseteq DOMAIN file /\ B \subseteq DOMAIN file
      /\ J = B \cup (T \ A) /\ B \cap (T \ A) = {}
  BY DEF TextLines, AcceptedLines, BadLines, RefusedLines
<1>2. IsFiniteSet(T) /\ IsFiniteSet(A) /\ IsFiniteSet(B) /\ IsFiniteSet(T \ A) /\ IsFiniteSet(J)
  <2>1. IsFiniteSet(DOMAIN file)
    BY LinesType
  <2>2. IsFiniteSet(T) /\ IsFiniteSet(A) /\ IsFiniteSet(B) /\ IsFiniteSet(T \ A)
    <3> HIDE DEF T, A, B
    <3> QED BY <1>1, <2>1, FS_Subset
  <2> QED
    BY <1>1, <2>2, FS_Union
<1>3. Cardinality(Records(file)) = Cardinality(A)
  <2>1. DOMAIN f = A /\ {f[i] : i \in DOMAIN f} = Records(file)
    BY DEF Records
  <2>2. \A x, y \in DOMAIN f : f[x] = f[y] => x = y
    BY DEF RecordOf
  <2> HIDE DEF f
  <2> QED BY <2>1, <2>2, <1>2, ImageCardinality
<1>4. Cardinality(Import(file).rejected) = Cardinality(J)
  <2>1. DOMAIN g = J /\ {g[i] : i \in DOMAIN g} = Import(file).rejected
    BY ImportIs
  <2>2. \A x, y \in DOMAIN g : g[x] = g[y] => x = y
    BY DEF RejectionOf
  <2> HIDE DEF g
  <2> QED BY <2>1, <2>2, <1>2, ImageCardinality
<1> HIDE DEF T, A, B, J
<1>5. /\ Cardinality(T) \in Nat /\ Cardinality(A) \in Nat /\ Cardinality(B) \in Nat
      /\ Cardinality(J) \in Nat /\ Cardinality(T \ A) \in Nat
  BY <1>2, FS_CardinalityType
<1>6. Cardinality(T \ A) = Cardinality(T) - Cardinality(A)
  <2>1. T \cap A = A
    BY <1>1
  <2> QED
    BY <2>1, <1>2, FS_Difference
<1>7. Cardinality(J) = Cardinality(B) + Cardinality(T \ A)
  <2>1. Cardinality(J) = Cardinality(B) + Cardinality(T \ A) - Cardinality({})
    BY <1>1, <1>2, FS_Union
  <2> QED
    BY <2>1, <1>5, FS_EmptySet
<1>8. Cardinality(A) + Cardinality(J) = Cardinality(T) + Cardinality(B)
  BY <1>5, <1>6, <1>7
<1> QED
  BY <1>3, <1>4, <1>5, <1>8 DEF T, A, B, J

ConflictingRecords(records) == UNION {Conflicting(records, f) : f \in Forms(records)}

\* The replay's counts, whatever the dictionary is.
LEMMA ReplayCounted ==
  ASSUME NEW file \in Files
  PROVE  LET replay == Replayed(file)
             counts == ReplayedCounts(replay)
         IN  /\ counts.physical = Len(file)
             /\ counts.parsed = Cardinality(replay.parsed) + Cardinality(replay.rejected)
             /\ counts.rejected = Cardinality(replay.rejected)
             /\ counts.accepted + counts.duplicates + counts.conflicting
                  = Cardinality(replay.parsed)
             /\ Cardinality(replay.parsed) \in Nat
             /\ counts.accepted = Cardinality(Forms(replay.parsed))
             /\ counts.conflicting = Cardinality(ConflictingRecords(replay.parsed))
             /\ DOMAIN counts = {"physical", "parsed", "accepted", "rejected", "duplicates",
                                 "conflicting"}
<1> DEFINE records == Replayed(file).parsed
           f == [r \in records |-> r.normalized]
<1>1. IsFiniteSet(records)
  BY ReplayedType
<1>2. IsFiniteSet(Forms(records))
  <2>1. DOMAIN f = records /\ {f[r] : r \in DOMAIN f} = Forms(records)
    BY DEF Forms
  <2> HIDE DEF f, records
  <2> QED
    BY <2>1, <1>1, FiniteImage
<1>3. ConflictingRecords(records) \subseteq records
  BY DEF ConflictingRecords, Conflicting, Additional, ByForm
<1>4. /\ Cardinality(records) \in Nat /\ Cardinality(Forms(records)) \in Nat
      /\ Cardinality(ConflictingRecords(records)) \in Nat
  <2> HIDE DEF records
  <2> QED
    BY <1>1, <1>2, <1>3, FS_Subset, FS_CardinalityType
<1>5. ReplayedCounts(Replayed(file)) =
        [physical |-> Replayed(file).physical,
         parsed |-> Cardinality(records) + Cardinality(Replayed(file).rejected),
         accepted |-> Cardinality(Forms(records)),
         rejected |-> Cardinality(Replayed(file).rejected),
         duplicates |-> Cardinality(records) - Cardinality(Forms(records))
                          - Cardinality(ConflictingRecords(records)),
         conflicting |-> Cardinality(ConflictingRecords(records))]
  BY DEF ReplayedCounts, ConflictingRecords
<1>6. Replayed(file).physical = Len(file)
  BY DEF Replayed
<1> HIDE DEF records
<1> QED
  BY <1>4, <1>5, <1>6 DEF records

\* Without an undecodable line the replay has what the importer has.
LEMMA ReplayAgrees ==
  ASSUME NEW file \in Files, BadLines(file) = {}
  PROVE  /\ Replayed(file).parsed = Records(file)
         /\ Replayed(file).rejected = Import(file).rejected
<1> DEFINE decoded == {i \in DOMAIN file : file[i] # BadUtf8}
           head(i) == /\ i \in decoded
                      /\ \A j \in decoded : j >= i
                      /\ IsCount(file[i])
           entry(i) == file[i] # Blank /\ ~head(i)
<1>1. decoded = DOMAIN file
  BY DEF BadLines
<1>2. \A i \in DOMAIN file : head(i) <=> Counted(file) /\ i = 1
  <2>1. DOMAIN file = 1..Len(file) /\ Len(file) \in Nat
    BY LinesType
  <2>2. file # <<>> <=> Len(file) > 0
    BY <2>1 DEF Files
  <2> QED
    BY <1>1, <2>1, <2>2 DEF Counted
<1>3. \A i \in DOMAIN file : i \in decoded /\ (entry(i) <=> i \in TextLines(file))
  BY <1>1, <1>2 DEF TextLines
<1> HIDE DEF decoded, entry, head
<1>4. {j \in decoded : entry(j) /\ RefusalOf(file[j]) = ""} = AcceptedLines(file)
  BY <1>1, <1>3 DEF AcceptedLines, TextLines
<1>5. {j \in DOMAIN file : j \notin decoded \/ (entry(j) /\ RefusalOf(file[j]) # "")}
        = RefusedLines(file)
  BY <1>1, <1>3 DEF AcceptedLines, RefusedLines, BadLines
<1> USE DEF decoded, entry, head
<1>6. /\ Replayed(file).parsed =
           {RecordOf(file[i], i) : i \in {j \in decoded : entry(j) /\ RefusalOf(file[j]) = ""}}
      /\ Replayed(file).rejected =
           {RejectionOf(file[i], i) : i \in {j \in DOMAIN file : j \notin decoded
                                                \/ (entry(j) /\ RefusalOf(file[j]) # "")}}
  BY DEF Replayed
<1> HIDE DEF decoded, entry, head
<1> QED
  BY <1>4, <1>5, <1>6, ImportIs DEF Records

\* The records that conflict are those the importer counts.
LEMMA ConflictingAre ==
  ASSUME NEW file \in Files
  PROVE  ConflictingRecords(Records(file))
           = {r \in Records(file) \ Kept(file) : ~Same(First(file, r), r)}
<1> DEFINE R == Records(file)
<1>1. \A r : r \in ConflictingRecords(R) <=>
             r \in R /\ r # First(file, r) /\ ~Same(First(file, r), r)
  <2>1. \A f : \A r : r \in Conflicting(R, f) <=>
                       /\ r \in R /\ r.normalized = f /\ r # FirstOf(ByForm(R, f))
                       /\ ~Same(FirstOf(ByForm(R, f)), r)
    BY DEF Conflicting, Additional, ByForm
  <2>2. \A r \in R : r.normalized \in Forms(R)
    BY DEF Forms
  <2> HIDE DEF R
  <2>3. \A r : r \in ConflictingRecords(R) <=> \E f \in Forms(R) : r \in Conflicting(R, f)
    BY DEF ConflictingRecords
  <2> QED
    BY <2>1, <2>2, <2>3 DEF First, R
<1>2. \A r \in R : r = First(file, r) <=> r \in Kept(file)
  BY FirstIsKept
<1> QED
  BY <1>1, <1>2

LEMMA AuditOutcome ==
  ASSUME NEW file \in Files
  PROVE  AuditFails(Import(file), file) <=> BadUtf8 \in Range(file)
<1> DEFINE counts == ReplayedCounts(Replayed(file))
           summary == Import(file).summary
           records == Cardinality(Replayed(file).parsed)
           rejected == Cardinality(Replayed(file).rejected)
<1>0. BadUtf8 \in Range(file) <=> BadLines(file) # {}
  BY DEF Range, BadLines
<1>1. AuditFails(Import(file), file) <=> ~(\A f \in DOMAIN counts : counts[f] = summary[f])
  BY DEF AuditFails, CrossChecked
<1>2. /\ counts.physical = Len(file)
      /\ counts.parsed = records + rejected
      /\ counts.rejected = rejected
      /\ counts.accepted + counts.duplicates + counts.conflicting = records
      /\ records \in Nat
      /\ counts.accepted = Cardinality(Forms(Replayed(file).parsed))
      /\ counts.conflicting = Cardinality(ConflictingRecords(Replayed(file).parsed))
      /\ DOMAIN counts = {"physical", "parsed", "accepted", "rejected", "duplicates",
                          "conflicting"}
  BY ReplayCounted
<1>3. /\ summary.physical = Len(file)
      /\ summary.parsed = Cardinality(TextLines(file))
      /\ summary.accepted = Cardinality(Kept(file))
      /\ summary.rejected = Cardinality(RefusedLines(file))
      /\ summary.duplicates = Cardinality(Later(file)) - Cardinality(Pairs(file))
      /\ summary.conflicting = Cardinality(Pairs(file))
  BY ImportIs, LinesCounted
<1>4. /\ Cardinality(Kept(file)) \in Nat /\ Cardinality(Later(file)) \in Nat
      /\ Cardinality(Pairs(file)) \in Nat /\ Cardinality(Records(file)) \in Nat
      /\ Cardinality(Kept(file)) + Cardinality(Later(file)) = Cardinality(Records(file))
  BY KeptAndLater
<1>5. /\ Cardinality(TextLines(file)) \in Nat /\ Cardinality(BadLines(file)) \in Nat
      /\ Cardinality(RefusedLines(file)) \in Nat
      /\ Cardinality(Records(file)) + Cardinality(RefusedLines(file))
           = Cardinality(TextLines(file)) + Cardinality(BadLines(file))
  BY LinesCounted
<1> HIDE DEF counts, summary, records, rejected
<1>6. ASSUME \A f \in DOMAIN counts : counts[f] = summary[f]
      PROVE  BadLines(file) = {}
  <2>1. /\ counts.physical = summary.physical /\ counts.parsed = summary.parsed
        /\ counts.accepted = summary.accepted /\ counts.rejected = summary.rejected
        /\ counts.duplicates = summary.duplicates
        /\ counts.conflicting = summary.conflicting
    BY <1>6, <1>2
  <2>2. records = Cardinality(Records(file))
    <3>1. /\ counts.accepted = Cardinality(Kept(file))
          /\ counts.duplicates = Cardinality(Later(file)) - Cardinality(Pairs(file))
          /\ counts.conflicting = Cardinality(Pairs(file))
          /\ counts.accepted + counts.duplicates + counts.conflicting = records
      BY <2>1, <1>2, <1>3
    <3> QED
      BY <3>1, <1>4
  <2>3. rejected = Cardinality(RefusedLines(file))
    BY <2>1, <1>2, <1>3
  <2>4. Cardinality(BadLines(file)) = 0
    <3>1. Cardinality(Records(file)) + Cardinality(RefusedLines(file))
            = Cardinality(TextLines(file))
      BY <2>1, <2>2, <2>3, <1>2, <1>3
    <3> QED
      BY <3>1, <1>5
  <2>5. IsFiniteSet(BadLines(file))
    <3>1. BadLines(file) \subseteq DOMAIN file
      BY DEF BadLines
    <3> QED
      BY <3>1, LinesType, FS_Subset
  <2> QED
    BY <2>4, <2>5, FS_EmptySet
<1>7. ASSUME BadLines(file) = {}
      PROVE  \A f \in DOMAIN counts : counts[f] = summary[f]
  <2>1. Replayed(file).parsed = Records(file) /\ Replayed(file).rejected = Import(file).rejected
    BY <1>7, ReplayAgrees
  <2>2. records = Cardinality(Records(file)) /\ rejected = Cardinality(RefusedLines(file))
    BY <2>1, LinesCounted DEF records, rejected
  <2>3. Cardinality(BadLines(file)) = 0
    BY <1>7, FS_EmptySet
  <2>4. /\ counts.accepted = Cardinality(Kept(file))
        /\ counts.conflicting = Cardinality(Pairs(file))
    BY <2>1, <1>2, KeptAndLater, ConflictingAre
  <2>5. counts.duplicates = summary.duplicates
    <3>1. counts.duplicates \in Int
      <4>1. counts.duplicates = Cardinality(Replayed(file).parsed)
              - Cardinality(Forms(Replayed(file).parsed))
              - Cardinality(ConflictingRecords(Replayed(file).parsed))
        BY DEF counts, ReplayedCounts, ConflictingRecords
      <4> QED
        BY <4>1, <2>4, <1>2, <1>4 DEF records
    <3>2. /\ Cardinality(Kept(file)) + counts.duplicates + Cardinality(Pairs(file))
               = Cardinality(Records(file))
          /\ summary.duplicates = Cardinality(Later(file)) - Cardinality(Pairs(file))
      BY <2>2, <2>4, <1>2, <1>3
    <3> QED
      BY <3>1, <3>2, <1>4
  <2>6. counts.parsed = summary.parsed
    BY <2>2, <2>3, <1>2, <1>3, <1>5
  <2> QED
    BY <2>2, <2>4, <2>5, <2>6, <1>2, <1>3
<1> QED
  BY <1>0, <1>1, <1>6, <1>7

(***************************************************************************)
(* The queues.                                                             *)
(***************************************************************************)
LEMMA DictionaryFiles ==
  ASSUME NEW v \in DOMAIN Dictionary
  PROVE  Dictionary[v] \in Files
BY PipelineAssumption DEF Files

Settled(r) == NormalizeText(r.normalized) = r.normalized

\* The reports of an import that may have been half overwritten by another one.
GoodReports(r) ==
  \A f \in Range(ReportOrder) : \E v \in DOMAIN Dictionary : r[f] = Import(Dictionary[v])[f]

LEMMA ReportsType ==
  ASSUME NEW r, GoodReports(r)
  PROVE  /\ \E v \in DOMAIN Dictionary : r.lexicon = Kept(Dictionary[v])
         /\ \E v \in DOMAIN Dictionary : r.conflicts = {ConflictOf(p) : p \in Pairs(Dictionary[v])}
         /\ \E v \in DOMAIN Dictionary :
              r.rejected = {RejectionOf(Dictionary[v][i], i) : i \in RefusedLines(Dictionary[v])}
<1>1. {"lexicon", "conflicts", "rejected"} \subseteq Range(ReportOrder)
  <2>1. /\ ReportOrder[1] = "lexicon" /\ ReportOrder[2] = "rejected"
        /\ ReportOrder[3] = "conflicts" /\ DOMAIN ReportOrder = 1..4
    BY DEF ReportOrder
  <2> QED
    BY <2>1 DEF Range
<1>2. /\ \E v \in DOMAIN Dictionary : r.lexicon = Import(Dictionary[v]).lexicon
      /\ \E v \in DOMAIN Dictionary : r.conflicts = Import(Dictionary[v]).conflicts
      /\ \E v \in DOMAIN Dictionary : r.rejected = Import(Dictionary[v]).rejected
  BY <1>1 DEF GoodReports
<1> QED
  BY <1>2, ImportIs, DictionaryFiles

\* The lexicon, the conflicts and the refused lines are finite sets of typed records.
LEMMA LexiconType ==
  ASSUME NEW r, GoodReports(r)
  PROVE  /\ IsFiniteSet(r.lexicon)
         /\ \A e \in r.lexicon : RecordType(e) /\ Settled(e)
         /\ \A e, f \in r.lexicon : e.line = f.line \/ e.normalized = f.normalized => e = f
<1>1. PICK v \in DOMAIN Dictionary : r.lexicon = Kept(Dictionary[v])
  BY ReportsType
<1> DEFINE file == Dictionary[v]
<1>2. file \in Files
  BY DictionaryFiles
<1>3. /\ IsFiniteSet(Records(file))
      /\ \A e \in Records(file) : RecordType(e) /\ e.line \in AcceptedLines(file)
      /\ \A e, f \in Records(file) : e.line = f.line => e = f
  BY <1>2, RecordsType
<1>4. Kept(file) \subseteq Records(file)
  BY DEF Kept
<1>5. \A e, f \in Kept(file) : e.normalized = f.normalized => e = f
  BY <1>2, <1>4, FirstIsKept
<1>6. \A e \in Records(file) : Settled(e)
  <2>1. SUFFICES ASSUME NEW i \in AcceptedLines(file) PROVE Settled(RecordOf(file[i], i))
    BY DEF Records
  <2>2. i \in DOMAIN file /\ TextLine(file[i])
    BY DEF AcceptedLines, TextLines, TextLine
  <2>3. NormalizeText(NormalizeText(file[i].word)) = NormalizeText(file[i].word)
    BY <2>2, SettledAssumption DEF Range
  <2> QED
    BY <2>3 DEF Settled, RecordOf
<1>7. IsFiniteSet(Kept(file))
  BY <1>3, <1>4, FS_Subset
<1> QED
  BY <1>1, <1>3, <1>4, <1>5, <1>6, <1>7

LEMMA ConflictsType ==
  ASSUME NEW r, GoodReports(r)
  PROVE  IsFiniteSet(r.conflicts)
<1>1. PICK v \in DOMAIN Dictionary : r.conflicts = {ConflictOf(p) : p \in Pairs(Dictionary[v])}
  BY ReportsType
<1> DEFINE file == Dictionary[v]
           f == [p \in Pairs(file) |-> ConflictOf(p)]
<1>2. IsFiniteSet(Records(file))
  BY DictionaryFiles, RecordsType
<1>3. Kept(file) \subseteq Records(file)
  BY DEF Kept
<1>4. IsFiniteSet(Kept(file)) /\ IsFiniteSet(Records(file) \ Kept(file))
  BY <1>2, <1>3, FS_Subset
<1>5. IsFiniteSet(Kept(file) \X (Records(file) \ Kept(file)))
  BY <1>4, FS_Product
<1>6. IsFiniteSet(Pairs(file))
  <2>1. Pairs(file) \subseteq Kept(file) \X (Records(file) \ Kept(file))
    BY DEF Pairs, Later
  <2> QED
    BY <2>1, <1>5, FS_Subset
<1>7. DOMAIN f = Pairs(file) /\ {f[p] : p \in DOMAIN f} = r.conflicts
  BY <1>1
<1> HIDE DEF f
<1> QED
  BY <1>6, <1>7, FiniteImage

LEMMA RejectedType ==
  ASSUME NEW r, GoodReports(r)
  PROVE  /\ IsFiniteSet(r.rejected)
         /\ \A j \in r.rejected : j.raw \in Words /\ j.line \in Nat
<1>1. PICK v \in DOMAIN Dictionary :
        r.rejected = {RejectionOf(Dictionary[v][i], i) : i \in RefusedLines(Dictionary[v])}
  BY ReportsType
<1> DEFINE file == Dictionary[v]
           f == [i \in RefusedLines(file) |-> RejectionOf(file[i], i)]
<1>2. /\ IsFiniteSet(DOMAIN file)
      /\ \A i \in RefusedLines(file) : i \in Nat /\ RawLine(file[i]) \in Words
  BY DictionaryFiles, LinesType
<1>3. RefusedLines(file) \subseteq DOMAIN file
  BY DEF RefusedLines, TextLines
<1>4. IsFiniteSet(RefusedLines(file))
  BY <1>2, <1>3, FS_Subset
<1>5. DOMAIN f = RefusedLines(file) /\ {f[i] : i \in DOMAIN f} = r.rejected
  BY <1>1
<1>6. IsFiniteSet(r.rejected)
  <2> HIDE DEF f
  <2> QED BY <1>4, <1>5, FiniteImage
<1> QED
  BY <1>1, <1>2, <1>6 DEF RejectionOf

\* The fields of an entry or of a member are those its identifier was made of.
Identified(id, display, e) ==
  /\ id = EntryId(id.origin, display, e.normalized, e.flags, e.morphology)
  /\ display \in Words /\ e.normalized \in Words
  /\ e.flags \in Words /\ e.morphology \in Words /\ e.line \in Nat

GoodGroup(g) ==
  /\ g.target = GroupId(g.normalized, g.members)
  /\ IsFiniteSet(g.members)
  /\ \A m \in g.members : /\ Identified(m.id, m.display, m)
                           /\ m.normalized = NormalizeText(m.display)
                           /\ Settled(m)

SameFields(e, f) ==
  /\ e.target = f.target /\ e.display = f.display /\ e.normalized = f.normalized
  /\ e.flags = f.flags /\ e.morphology = f.morphology /\ e.pos = f.pos /\ e.line = f.line

GoodQueues(q) ==
  /\ IsFiniteSet(q.groups)
  /\ \A g \in q.groups : GoodGroup(g)
  /\ \A g, h \in q.groups : g.normalized = h.normalized => g = h
  /\ IsFiniteSet(EntryRecords(q))
  /\ \A e \in EntryRecords(q) : Identified(e.target, e.display, e)
  /\ DOMAIN q.entries = EntryQueues
  /\ \A e \in q.entries["hunspell_only"] : Eligible(e.normalized) /\ ~Held(e.normalized)
  /\ \A e, f \in q.entries["hunspell_only"] : e.line = f.line => e = f
  /\ \A e, f \in UNION Range(q.entries) : e.target = f.target \/ e.line = f.line => SameFields(e, f)

LEMMA EntryQueuesFinite == IsFiniteSet(EntryQueues)
<1> DEFINE f == <<"suspicious", "unusual_script", "mixed_script", "punctuation_only",
                  "symbol_only", "digit_only", "no_letter", "capitalization", "multiword",
                  "rare_code_point", "unexpected_code_point", "short_or_long",
                  "alphabet_policy_excluded", "punctuation_held", "hunspell_only">>
<1>1. PICK n \in Int : n = 15
  OBVIOUS
<1>2. DOMAIN f = 1..n /\ {f[i] : i \in 1..n} = EntryQueues
  BY <1>1 DEF EntryQueues
<1>3. IsFiniteSet(1..n)
  BY FS_Interval
<1> HIDE DEF f
<1> QED
  BY <1>2, <1>3, FiniteImage

\* The members of a group are records of the dictionary.
LEMMA GroupType ==
  ASSUME NEW v \in DOMAIN Dictionary, NEW revision, NEW conflicts, NEW form
  PROVE  GoodGroup(ConflictGroup(revision, Replayed(Dictionary[v]).parsed, conflicts, form))
<1> DEFINE parsed == Replayed(Dictionary[v]).parsed
           lines == ConflictLines(conflicts, form)
           found == {s \in parsed : s.line \in lines}
           member(r) == [id |-> RecordId(revision, r), line |-> r.line, display |-> r.word,
                         normalized |-> r.normalized, flags |-> r.flags,
                         morphology |-> r.morphology, pos |-> r.pos]
           f == [r \in found |-> member(r)]
           members == GroupMembers(revision, parsed, lines)
           g == ConflictGroup(revision, parsed, conflicts, form)
<1>1. /\ IsFiniteSet(parsed)
      /\ \A r \in parsed : /\ RecordType(r) /\ r.line \in DOMAIN Dictionary[v]
                            /\ TextLine(Dictionary[v][r.line])
                            /\ r = RecordOf(Dictionary[v][r.line], r.line)
  BY DictionaryFiles, ReplayedType
<1>2. members = {member(r) : r \in found}
  BY DEF GroupMembers
<1>3. \A r \in parsed : Settled(r)
  <2>1. SUFFICES ASSUME NEW r \in parsed PROVE Settled(r)
    OBVIOUS
  <2> DEFINE line == Dictionary[v][r.line]
  <2>2. line \in Range(Dictionary[v]) /\ r.normalized = NormalizeText(line.word)
    <3>1. line \in Range(Dictionary[v])
      BY <1>1 DEF Range
    <3>2. r = RecordOf(line, r.line)
      BY <1>1
    <3>3. RecordOf(line, r.line).normalized = NormalizeText(line.word)
      BY DEF RecordOf
    <3> QED
      BY <3>1, <3>2, <3>3
  <2>3. TextLine(line)
    BY <1>1
  <2> QED
    BY <2>2, <2>3, SettledAssumption DEF Settled
<1>4. \A r \in found : /\ Identified(member(r).id, member(r).display, member(r))
                       /\ member(r).normalized = NormalizeText(member(r).display)
                       /\ Settled(member(r))
  <2>1. SUFFICES ASSUME NEW r \in found
                 PROVE  /\ Identified(member(r).id, member(r).display, member(r))
                        /\ member(r).normalized = NormalizeText(member(r).display)
                        /\ Settled(member(r))
    OBVIOUS
  <2>2. RecordType(r) /\ Settled(r)
    BY <1>1, <1>3
  <2>3. RecordId(revision, r).origin = Hunspell(revision)
    BY DEF RecordId, EntryId
  <2> QED
    BY <2>2, <2>3 DEF Identified, RecordId, RecordType, Settled
<1>5. IsFiniteSet(members)
  <2>1. IsFiniteSet(found)
    <3> HIDE DEF parsed
    <3> QED BY <1>1, FS_Subset
  <2>2. DOMAIN f = found /\ {f[r] : r \in DOMAIN f} = members
    BY <1>2
  <2> HIDE DEF f, found, members
  <2> QED
    BY <2>1, <2>2, FiniteImage
<1>6. g.members = members /\ g.normalized = form /\ g.target = GroupId(form, members)
  BY DEF ConflictGroup
<1> HIDE DEF g, members, member, found
<1>7. \A m \in members : /\ Identified(m.id, m.display, m)
                         /\ m.normalized = NormalizeText(m.display)
                         /\ Settled(m)
  BY <1>2, <1>4
<1> QED
  BY <1>5, <1>6, <1>7 DEF GoodGroup, g

\* What generate-review-queues makes, field by field.
LEMMA QueuesAre ==
  ASSUME NEW revision, NEW file, NEW r, NEW aud
  PROVE  LET q == GenerateQueues(revision, file, r, aud)
         IN  /\ q.groups = {ConflictGroup(revision, Replayed(file).parsed, r.conflicts,
                                          c.normalized) : c \in r.conflicts}
             /\ q.rejections = {RejectionRecord(revision, j) : j \in r.rejected}
             /\ DOMAIN q.entries = EntryQueues
             /\ \A k \in EntryQueues :
                  q.entries[k] = {QueueRecord(revision, k, e, r.lexicon, aud) :
                                    e \in {s \in r.lexicon : k \in QueuesOf(s, aud)}}
<1> DEFINE queuesOf == [e \in r.lexicon |-> QueuesOf(e, aud)]
           entries == [k \in EntryQueues |->
                         {QueueRecord(revision, k, e, r.lexicon, aud) :
                            e \in {s \in r.lexicon : k \in queuesOf[s]}}]
           groups == {ConflictGroup(revision, Replayed(file).parsed, r.conflicts,
                                    c.normalized) : c \in r.conflicts}
           rejections == {RejectionRecord(revision, j) : j \in r.rejected}
<1>1. GenerateQueues(revision, file, r, aud)
        = [groups |-> groups, rejections |-> rejections, entries |-> entries]
  BY DEF GenerateQueues
<1>2. /\ DOMAIN entries = EntryQueues
      /\ \A k \in EntryQueues :
           entries[k] = {QueueRecord(revision, k, e, r.lexicon, aud) :
                           e \in {s \in r.lexicon : k \in QueuesOf(s, aud)}}
  <2>1. \A k : {s \in r.lexicon : k \in queuesOf[s]} = {s \in r.lexicon : k \in QueuesOf(s, aud)}
    OBVIOUS
  <2> HIDE DEF queuesOf
  <2> QED
    BY <2>1
<1> HIDE DEF entries, groups, rejections
<1>3. /\ GenerateQueues(revision, file, r, aud).groups = groups
      /\ GenerateQueues(revision, file, r, aud).rejections = rejections
      /\ GenerateQueues(revision, file, r, aud).entries = entries
  BY <1>1
<1> QED
  BY <1>2, <1>3 DEF groups, rejections

LEMMA OfferedForms ==
  ASSUME NEW r, NEW aud, "hunspell_only" \in QueuesOf(r, aud)
  PROVE  Eligible(r.normalized) /\ ~Held(r.normalized)
BY DEF QueuesOf

LEMMA QueueRecordIs ==
  ASSUME NEW revision, NEW k, NEW r, NEW lexicon, NEW aud, RecordType(r)
  PROVE  LET e == QueueRecord(revision, k, r, lexicon, aud)
         IN  /\ e.target = RecordId(revision, r) /\ e.display = r.word
             /\ e.normalized = r.normalized /\ e.flags = r.flags
             /\ e.morphology = r.morphology /\ e.pos = r.pos /\ e.line = r.line
             /\ Identified(e.target, e.display, e)
<1> DEFINE e == QueueRecord(revision, k, r, lexicon, aud)
<1>1. /\ e.target = RecordId(revision, r) /\ e.display = r.word
      /\ e.normalized = r.normalized /\ e.flags = r.flags
      /\ e.morphology = r.morphology /\ e.pos = r.pos /\ e.line = r.line
  BY DEF QueueRecord
<1>2. RecordId(revision, r).origin = Hunspell(revision)
  BY DEF RecordId, EntryId
<1> HIDE DEF e
<1>3. Identified(e.target, e.display, e)
  BY <1>1, <1>2 DEF Identified, RecordId, RecordType
<1> QED
  BY <1>1, <1>3 DEF e

LEMMA RejectionRecordIs ==
  ASSUME NEW revision, NEW j, j.raw \in Words, j.line \in Nat
  PROVE  LET e == RejectionRecord(revision, j)
         IN  Identified(e.target, e.display, e)
<1>1. <<>> \in Words
  BY DEF Words
<1> QED
  BY <1>1 DEF RejectionRecord, Identified, EntryId

\* No two records of the lexicon have one identifier, or the generator refuses.
LEMMA IdentifiersDiffer ==
  ASSUME NEW r, GoodReports(r), NEW revision, NEW file, NEW aud,
         ~QueuesFail(revision, file, r, aud)
  PROVE  \A e, f \in r.lexicon : RecordId(revision, e) = RecordId(revision, f) => e = f
<1> DEFINE ids == {RecordId(revision, e) : e \in r.lexicon}
           f == [e \in r.lexicon |-> RecordId(revision, e)]
<1>1. IsFiniteSet(r.lexicon)
  BY LexiconType
<1>2. f \in Surjection(r.lexicon, ids)
  BY DEF Surjection
<1>3. ~(Cardinality(ids) < Cardinality(r.lexicon))
  BY DEF QueuesFail
<1> HIDE DEF ids
<1>4. f \in Injection(r.lexicon, ids)
  <2> HIDE DEF f
  <2>1. /\ IsFiniteSet(ids) /\ Cardinality(ids) <= Cardinality(r.lexicon)
        /\ Cardinality(ids) = Cardinality(r.lexicon) <=> f \in Injection(r.lexicon, ids)
    BY <1>1, <1>2, FS_Surjection
  <2>2. Cardinality(ids) \in Nat /\ Cardinality(r.lexicon) \in Nat
    BY <2>1, <1>1, FS_CardinalityType
  <2> QED
    BY <2>1, <2>2, <1>3
<1> QED
  BY <1>4 DEF Injection, IsInjective

LEMMA QueuesType ==
  ASSUME NEW v \in DOMAIN Dictionary, NEW r, GoodReports(r), NEW revision, NEW aud,
         ~QueuesFail(revision, Dictionary[v], r, aud)
  PROVE  GoodQueues(GenerateQueues(revision, Dictionary[v], r, aud))
<1> DEFINE q == GenerateQueues(revision, Dictionary[v], r, aud)
           parsed == Replayed(Dictionary[v]).parsed
           group(form) == ConflictGroup(revision, parsed, r.conflicts, form)
           fg == [c \in r.conflicts |-> group(c.normalized)]
           fj == [j \in r.rejected |-> RejectionRecord(revision, j)]
           record(k, e) == QueueRecord(revision, k, e, r.lexicon, aud)
           queued(k) == {s \in r.lexicon : k \in QueuesOf(s, aud)}
<1>1. /\ q.groups = {group(c.normalized) : c \in r.conflicts}
      /\ q.rejections = {RejectionRecord(revision, j) : j \in r.rejected}
      /\ DOMAIN q.entries = EntryQueues
      /\ \A k \in EntryQueues : q.entries[k] = {record(k, e) : e \in queued(k)}
  BY QueuesAre
<1> HIDE DEF q
<1>2. /\ IsFiniteSet(r.lexicon)
      /\ \A e \in r.lexicon : RecordType(e) /\ Settled(e)
      /\ \A e, f \in r.lexicon : e.line = f.line \/ e.normalized = f.normalized => e = f
  BY LexiconType
<1>3. IsFiniteSet(q.groups)
  <2>1. DOMAIN fg = r.conflicts /\ {fg[c] : c \in DOMAIN fg} = q.groups
    BY <1>1
  <2> HIDE DEF fg
  <2> QED
    BY <2>1, ConflictsType, FiniteImage
<1>4. \A g \in q.groups : GoodGroup(g)
  BY <1>1, GroupType
<1>5. \A g, h \in q.groups : g.normalized = h.normalized => g = h
  <2>1. \A form : group(form).normalized = form
    BY DEF ConflictGroup
  <2> HIDE DEF group
  <2> QED
    BY <1>1, <2>1
<1>6. IsFiniteSet(q.rejections) /\ \A e \in q.rejections : Identified(e.target, e.display, e)
  <2>1. DOMAIN fj = r.rejected /\ {fj[j] : j \in DOMAIN fj} = q.rejections
    BY <1>1
  <2>2. IsFiniteSet(q.rejections)
    <3> HIDE DEF fj
    <3> QED
      BY <2>1, RejectedType, FiniteImage
  <2>3. \A e \in q.rejections : Identified(e.target, e.display, e)
    BY <1>1, RejectedType, RejectionRecordIs
  <2> QED
    BY <2>2, <2>3
<1> DEFINE all == UNION Range(q.entries)
<1>7. \A x : x \in all <=> \E k \in EntryQueues : \E e \in queued(k) : x = record(k, e)
  <2>1. \A x : x \in all <=> \E k \in EntryQueues : x \in q.entries[k]
    BY <1>1 DEF Range
  <2> HIDE DEF record, queued, all
  <2> QED
    BY <2>1, <1>1
<1>8. IsFiniteSet(all)
  <2> DEFINE P == EntryQueues \X r.lexicon
             h == [p \in P |-> record(p[1], p[2])]
  <2>1. IsFiniteSet(P)
    BY <1>2, EntryQueuesFinite, FS_Product
  <2>2. IsFiniteSet({h[p] : p \in DOMAIN h})
    <3>1. DOMAIN h = P
      OBVIOUS
    <3> HIDE DEF h, P
    <3> QED BY <3>1, <2>1, FiniteImage
  <2>3. all \subseteq {h[p] : p \in DOMAIN h}
    <3>1. ASSUME NEW k \in EntryQueues, NEW e \in queued(k) PROVE record(k, e) \in {h[p] : p \in DOMAIN h}
      <4>1. <<k, e>> \in P /\ DOMAIN h = P /\ h[<<k, e>>] = record(k, e)
        BY <3>1
      <4> HIDE DEF h, P, record
      <4> QED BY <4>1
    <3> HIDE DEF h, all, record, queued
    <3> QED BY <3>1, <1>7
  <2> HIDE DEF all, h
  <2> QED
    BY <2>2, <2>3, FS_Subset
<1>9. \A k : \A e \in queued(k) :
        /\ e \in r.lexicon /\ k \in QueuesOf(e, aud)
        /\ record(k, e).target = RecordId(revision, e) /\ record(k, e).display = e.word
        /\ record(k, e).normalized = e.normalized /\ record(k, e).flags = e.flags
        /\ record(k, e).morphology = e.morphology /\ record(k, e).pos = e.pos
        /\ record(k, e).line = e.line
        /\ Identified(record(k, e).target, record(k, e).display, record(k, e))
  BY <1>2, QueueRecordIs
<1> HIDE DEF record, queued, all
<1>10. EntryRecords(q) = q.rejections \cup all
  BY DEF EntryRecords, all
<1>11. IsFiniteSet(EntryRecords(q))
  BY <1>6, <1>8, <1>10, FS_Union
<1>12. \A e \in EntryRecords(q) : Identified(e.target, e.display, e)
  BY <1>6, <1>7, <1>9, <1>10
<1>13. \A e \in q.entries["hunspell_only"] : Eligible(e.normalized) /\ ~Held(e.normalized)
  <2>1. "hunspell_only" \in EntryQueues
    BY DEF EntryQueues
  <2> QED
    BY <2>1, <1>1, <1>9, OfferedForms
<1>14. \A x, y \in all : x.target = y.target \/ x.line = y.line => SameFields(x, y)
  <2>1. SUFFICES ASSUME NEW k \in EntryQueues, NEW e \in queued(k), NEW j \in EntryQueues,
                        NEW f \in queued(j),
                        \/ record(k, e).target = record(j, f).target
                        \/ record(k, e).line = record(j, f).line
                 PROVE  SameFields(record(k, e), record(j, f))
    BY <1>7
  <2>2. RecordId(revision, e) = RecordId(revision, f) \/ e.line = f.line
    BY <2>1, <1>9
  <2>3. e = f
    BY <2>2, <1>2, <1>9, IdentifiersDiffer
  <2> QED
    BY <2>3, <1>9 DEF SameFields
<1>15. \A x, y \in q.entries["hunspell_only"] : x.line = y.line => x = y
  <2>1. "hunspell_only" \in EntryQueues
    BY DEF EntryQueues
  <2> QED
    BY <2>1, <1>1, <1>2, <1>9
<1>16. GoodQueues(q)
  BY <1>1, <1>3, <1>4, <1>5, <1>11, <1>12, <1>13, <1>14, <1>15 DEF GoodQueues, all
<1> QED
  BY <1>16 DEF q

(***************************************************************************)
(* The selection.                                                          *)
(***************************************************************************)
CandidateType(c) ==
  /\ c.population \in Nat /\ c.line \in Nat
  /\ c.display \in Words /\ c.flags \in Words /\ c.morphology \in Words

LEMMA PrecedesIs ==
  ASSUME NEW c, NEW d
  PROVE  Precedes(c, d) <=>
           \/ c.population < d.population
           \/ /\ c.population = d.population
              /\ \/ c.line < d.line
                 \/ /\ c.line = d.line
                    /\ \/ WordLess(c.display, d.display)
                       \/ /\ c.display = d.display
                          /\ \/ WordLess(c.flags, d.flags)
                             \/ /\ c.flags = d.flags
                                /\ WordLess(c.morphology, d.morphology)
<1> DEFINE less == <<c.population < d.population, c.line < d.line, WordLess(c.display, d.display),
                     WordLess(c.flags, d.flags), WordLess(c.morphology, d.morphology)>>
           same == <<c.population = d.population, c.line = d.line, c.display = d.display,
                     c.flags = d.flags, TRUE>>
           first(k) == less[k] /\ \A j \in 1..(k - 1) : same[j]
<1>1. Precedes(c, d) <=> \E k \in 1..5 : first(k)
  BY DEF Precedes
<1>2. /\ less[1] = (c.population < d.population) /\ less[2] = (c.line < d.line)
      /\ less[3] = WordLess(c.display, d.display) /\ less[4] = WordLess(c.flags, d.flags)
      /\ less[5] = WordLess(c.morphology, d.morphology)
  OBVIOUS
<1>3. /\ same[1] = (c.population = d.population) /\ same[2] = (c.line = d.line)
      /\ same[3] = (c.display = d.display) /\ same[4] = (c.flags = d.flags)
  OBVIOUS
<1> HIDE DEF less, same
<1>4. /\ 1..(1 - 1) = {} /\ 1..(2 - 1) = {1} /\ 1..(3 - 1) = {1, 2}
      /\ 1..(4 - 1) = {1, 2, 3} /\ 1..(5 - 1) = {1, 2, 3, 4} /\ 1..5 = {1, 2, 3, 4, 5}
  OBVIOUS
<1>5. /\ first(1) <=> less[1]
      /\ first(2) <=> less[2] /\ same[1]
      /\ first(3) <=> less[3] /\ same[1] /\ same[2]
      /\ first(4) <=> less[4] /\ same[1] /\ same[2] /\ same[3]
      /\ first(5) <=> less[5] /\ same[1] /\ same[2] /\ same[3] /\ same[4]
  BY <1>4
<1> HIDE DEF first
<1>6. (\E k \in 1..5 : first(k)) <=> first(1) \/ first(2) \/ first(3) \/ first(4) \/ first(5)
  BY <1>4
<1> QED
  BY <1>1, <1>2, <1>3, <1>5, <1>6

LEMMA PrecedesIrreflexive ==
  ASSUME NEW c, CandidateType(c)
  PROVE  ~Precedes(c, c)
<1>1. ~WordLess(c.display, c.display) /\ ~WordLess(c.flags, c.flags)
      /\ ~WordLess(c.morphology, c.morphology)
  BY WordLessIrreflexive DEF CandidateType, Words
<1> QED
  BY <1>1, PrecedesIs DEF CandidateType

LEMMA PrecedesTransitive ==
  ASSUME NEW c, NEW d, NEW e, CandidateType(c), CandidateType(d), CandidateType(e),
         Precedes(c, d), Precedes(d, e)
  PROVE  Precedes(c, e)
<1>1. \A u, v, w \in Words : WordLess(u, v) /\ WordLess(v, w) => WordLess(u, w)
  BY WordLessTransitive DEF Words
<1>2. /\ WordLess(c.display, d.display) /\ WordLess(d.display, e.display)
           => WordLess(c.display, e.display)
      /\ WordLess(c.flags, d.flags) /\ WordLess(d.flags, e.flags)
           => WordLess(c.flags, e.flags)
      /\ WordLess(c.morphology, d.morphology) /\ WordLess(d.morphology, e.morphology)
           => WordLess(c.morphology, e.morphology)
  BY <1>1 DEF CandidateType
<1>3. /\ c.population \in Nat /\ d.population \in Nat /\ e.population \in Nat
      /\ c.line \in Nat /\ d.line \in Nat /\ e.line \in Nat
  BY DEF CandidateType
<1> QED
  BY <1>2, <1>3, PrecedesIs

\* Of finitely many candidates one comes first, so what is chosen is one of them.
LEMMA TopExists ==
  ASSUME NEW K, IsFiniteSet(K), K # {}, \A c \in K : CandidateType(c)
  PROVE  Top(K) # {} /\ Top(K) \subseteq K
<1> DEFINE R == {p \in K \X K : Precedes(p[1], p[2])}
<1>1. \A c, d \in K : <<c, d>> \in R <=> Precedes(c, d)
  OBVIOUS
<1>2. \A c \in K : <<c, c>> \notin R
  BY <1>1, PrecedesIrreflexive
<1>3. \A c, d, e \in K : <<c, d>> \in R /\ <<d, e>> \in R => <<c, e>> \in R
  BY <1>1, PrecedesTransitive
<1>4. PICK m \in K : \A c \in K : <<c, m>> \notin R
  <2> HIDE DEF R
  <2> QED BY <1>2, <1>3, MinimalElement
<1> QED
  BY <1>1, <1>4 DEF Top

LEMMA ResolvedAre ==
  ASSUME NEW K, IsFiniteSet(K), \A c \in K : CandidateType(c)
  PROVE  /\ ResolveCollisions(K) \subseteq K
         /\ Forms(ResolveCollisions(K)) = Forms(K)
<1>1. ASSUME NEW f \in Forms(K)
      PROVE  LET c == CHOOSE c \in Top(Competing(K, f)) : TRUE
             IN  c \in K /\ c.normalized = f
  <2>1. Competing(K, f) \subseteq K /\ Competing(K, f) # {}
        /\ \A c \in Competing(K, f) : c.normalized = f
    BY DEF Competing, Forms
  <2>2. IsFiniteSet(Competing(K, f))
    BY <2>1, FS_Subset
  <2>3. Top(Competing(K, f)) # {} /\ Top(Competing(K, f)) \subseteq Competing(K, f)
    BY <2>1, <2>2, TopExists
  <2> QED
    BY <2>1, <2>3
<1> QED
  BY <1>1 DEF ResolveCollisions, Forms

(***************************************************************************)
(* The candidates of a pack, of queues and decisions that are well formed. *)
(***************************************************************************)
GoodDecisions(ds) ==
  /\ List(ds)
  /\ \A d \in Range(ds) : ValidDecision(d) /\ DecisionType(d)

LEMMA ListType ==
  ASSUME NEW s, List(s)
  PROVE  /\ DOMAIN s = 1..Len(s) /\ Len(s) \in Nat
         /\ IsFiniteSet(DOMAIN s) /\ IsFiniteSet(Range(s))
<1>1. DOMAIN s = 1..Len(s) /\ Len(s) \in Nat
  BY DEF List
<1>2. IsFiniteSet(DOMAIN s)
  BY <1>1, FS_Interval
<1> QED
  BY <1>1, <1>2, FiniteImage DEF Range

\* The last decision on a target is a decision of the file, or there is none.
LEMMA DecisionFound ==
  ASSUME NEW ds, List(ds), NEW q, NEW target
  PROVE  LET d == DecisionOn(ds, q, target)
         IN  d = Undecided \/ (d \in Range(ds) /\ Targeted(d) = target)
<1> DEFINE on == {i \in DOMAIN ds : Targeted(ds[i]) = target}
           n == Len(ds)
           back == {n - i : i \in on}
<1>1. SUFFICES ASSUME on # {}
               PROVE  \E i \in on : \A j \in on : j <= i
  <2> DEFINE last == CHOOSE i \in on : \A j \in on : j <= i
  <2>1. DecisionOn(ds, q, target) \in {Undecided, ds[last]}
    BY DEF DecisionOn
  <2>2. DecisionOn(ds, q, target) # Undecided => on # {}
    BY DEF DecisionOn
  <2>3. ASSUME on # {} PROVE last \in on
    <3>1. \E i \in on : \A j \in on : j <= i
      BY <1>1, <2>3
    <3> HIDE DEF on
    <3> QED BY <3>1
  <2>4. \A i \in on : ds[i] \in Range(ds) /\ Targeted(ds[i]) = target
    BY DEF Range
  <2> HIDE DEF on, last
  <2> QED
    BY <2>1, <2>2, <2>3, <2>4
<1>2. on \subseteq 1..n /\ n \in Nat
  BY ListType
<1>3. back \subseteq Nat /\ back # {}
  BY <1>1, <1>2
<1>4. PICK m \in back : \A k \in back : m <= k
  <2> HIDE DEF back
  <2> QED BY <1>3, LeastNumber
<1>5. PICK i \in on : m = n - i
  OBVIOUS
<1>6. \A j \in on : n - i <= n - j
  BY <1>4, <1>5
<1> QED
  BY <1>2, <1>5, <1>6

\* Who may have decided what of a conflict group.
FromMember(pack, d, g, c) ==
  \E m \in g.members :
    \/ /\ d.status = "Approved" /\ d.resolution.kind = "select_member"
       /\ m.id = d.resolution.member /\ c = MemberCandidate(ExternalApproved, m)
    \/ /\ pack = "experimental-full" /\ d.status = "ExperimentalOnly"
       /\ c = MemberCandidate(Experimental, m)
    \/ /\ pack = "experimental-full" /\ d.status = "Unreviewed"
       /\ c = MemberCandidate(Unreviewed, m)

FromReplacement(d, g, c) ==
  /\ d.status = "Approved" /\ d.resolution.kind = "replace_group"
  /\ c = Replaced(g.target, "hunspell", d.resolution.replacement,
                  [NoFields(<<>>) EXCEPT !.pos = NoPos])

LEMMA MemberCandidateType ==
  ASSUME NEW g, GoodGroup(g), NEW m \in g.members, NEW p \in Nat
  PROVE  CandidateType(MemberCandidate(p, m))
BY DEF GoodGroup, Identified, MemberCandidate, Candidate, CandidateType

LEMMA ReplacedType ==
  ASSUME NEW target, NEW from, NEW replacement, ReplacementType(replacement), NEW r,
         r.line \in Nat, r.flags \in Words, r.morphology \in Words
  PROVE  CandidateType(Replaced(target, from, replacement, r))
<1>1. /\ replacement.display \in Words
      /\ Or(replacement.flags, <<>>) \in Words /\ Or(replacement.morphology, <<>>) \in Words
  BY DEF ReplacementType, Words
<1>2. Or(replacement.flags, r.flags) \in Words /\ Or(replacement.morphology, r.morphology) \in Words
  BY <1>1 DEF Or
<1>3. MetadataChange \in Nat
  BY DEF MetadataChange
<1> QED
  BY <1>1, <1>2, <1>3 DEF Replaced, Candidate, CandidateType

LEMMA GroupCandidatesAre ==
  ASSUME NEW pack, NEW d, NEW g, GoodGroup(g), ~GroupRefused(d, g)
  PROVE  \A c \in GroupCandidates(pack, d, g) :
           FromMember(pack, d, g, c) \/ FromReplacement(d, g, c)
<1> SUFFICES ASSUME NEW c \in GroupCandidates(pack, d, g)
             PROVE  FromMember(pack, d, g, c) \/ FromReplacement(d, g, c)
  OBVIOUS
<1> DEFINE S == Selected(d, g)
           numbers == {m.line : m \in S}
           chosen == CHOOSE m \in S : \A n \in S : m.line <= n.line
<1>1. CASE d.status = "Approved" /\ d.resolution.kind = "select_member"
  <2>1. S # {} /\ S \subseteq g.members /\ \A m \in S : m.id = d.resolution.member
    BY <1>1 DEF GroupRefused, Selected
  <2>2. \A m \in S : m.line \in Nat
    BY <2>1 DEF GoodGroup, Identified
  <2>3. \E m \in S : \A n \in S : m.line <= n.line
    <3>1. numbers \subseteq Nat /\ numbers # {}
      BY <2>1, <2>2
    <3>2. PICK k \in numbers : \A j \in numbers : k <= j
      <4> HIDE DEF numbers
      <4> QED BY <3>1, LeastNumber
    <3> QED
      BY <3>2
  <2>4. chosen \in S
    <3> HIDE DEF S
    <3> QED BY <2>3
  <2>5. c = MemberCandidate(ExternalApproved, chosen)
    BY <1>1 DEF GroupCandidates
  <2> HIDE DEF chosen, S
  <2> QED
    BY <1>1, <2>1, <2>4, <2>5 DEF FromMember
<1>2. CASE d.status = "Approved" /\ d.resolution.kind # "select_member"
  BY <1>2 DEF GroupCandidates, FromReplacement
<1>3. CASE d.status # "Approved"
  BY <1>3 DEF GroupCandidates, FromMember
<1> QED
  BY <1>1, <1>2, <1>3

LEMMA GroupCandidatesType ==
  ASSUME NEW pack, NEW d, NEW g, GoodGroup(g), ~GroupRefused(d, g),
         d = Undecided \/ (DecisionType(d) /\ ValidDecision(d) /\ d.type = "conflict_group")
  PROVE  /\ IsFiniteSet(GroupCandidates(pack, d, g))
         /\ \A c \in GroupCandidates(pack, d, g) : CandidateType(c)
<1>1. ASSUME NEW p
      PROVE  IsFiniteSet({MemberCandidate(p, m) : m \in g.members})
  <2> DEFINE f == [m \in g.members |-> MemberCandidate(p, m)]
  <2>1. DOMAIN f = g.members /\ {f[m] : m \in DOMAIN f} = {MemberCandidate(p, m) : m \in g.members}
    OBVIOUS
  <2> HIDE DEF f
  <2> QED
    BY <2>1, FiniteImage DEF GoodGroup
<1>2. \/ \E x : GroupCandidates(pack, d, g) = {x}
      \/ \E p : GroupCandidates(pack, d, g) = {MemberCandidate(p, m) : m \in g.members}
      \/ GroupCandidates(pack, d, g) = {}
  BY DEF GroupCandidates
<1>3. IsFiniteSet(GroupCandidates(pack, d, g))
  <2>1. \A x : IsFiniteSet({x})
    BY FS_Singleton
  <2>2. IsFiniteSet({})
    BY FS_EmptySet
  <2> QED
    BY <1>1, <1>2, <2>1, <2>2
<1>4. ASSUME NEW c \in GroupCandidates(pack, d, g) PROVE CandidateType(c)
  <2>1. CASE FromMember(pack, d, g, c)
    BY <2>1, MemberCandidateType DEF FromMember, ExternalApproved, Experimental, Unreviewed
  <2>2. CASE FromReplacement(d, g, c)
    <3>1. d # Undecided
      BY <2>2 DEF Undecided, FromReplacement
    <3>2. d.resolution # None
      BY <2>2, <3>1 DEF FromReplacement, ValidDecision, GroupRules
    <3>3. ReplacementType(d.resolution.replacement)
      BY <2>2, <3>1, <3>2 DEF FromReplacement, DecisionType
    <3> DEFINE r == [NoFields(<<>>) EXCEPT !.pos = NoPos]
    <3>4. r.line \in Nat /\ r.flags \in Words /\ r.morphology \in Words
      BY DEF NoFields, Words
    <3> HIDE DEF r
    <3>5. CandidateType(Replaced(g.target, "hunspell", d.resolution.replacement, r))
      BY <3>3, <3>4, ReplacedType
    <3> QED
      BY <2>2, <3>5 DEF FromReplacement, r
  <2> QED
    BY <2>1, <2>2, GroupCandidatesAre
<1> QED
  BY <1>3, <1>4

FromEntry(pack, d, e, c) ==
  \/ d.status = "Approved"
     /\ c = Candidate(ExternalApproved, e.target, "hunspell", e.normalized, e)
  \/ d.status = "ApprovedWithMetadataChange"
     /\ c = Replaced(e.target, "hunspell", d.replacement, e)
  \/ /\ pack = "experimental-full" /\ d.status = "ExperimentalOnly"
     /\ c = Candidate(Experimental, e.target, "hunspell", e.normalized, e)
  \/ /\ pack = "experimental-full" /\ d.status = "Unreviewed"
     /\ c = Candidate(Unreviewed, e.target, "hunspell", e.normalized, e)

LEMMA EntryCandidatesAre ==
  ASSUME NEW pack, NEW d, NEW e
  PROVE  /\ \A c \in EntryCandidates(pack, d, e) : FromEntry(pack, d, e, c)
         /\ IsFiniteSet(EntryCandidates(pack, d, e))
<1>1. \A c \in EntryCandidates(pack, d, e) : FromEntry(pack, d, e, c)
  BY DEF EntryCandidates, FromEntry
<1>2. EntryCandidates(pack, d, e) = {} \/ \E c : EntryCandidates(pack, d, e) = {c}
  BY DEF EntryCandidates
<1>3. IsFiniteSet({}) /\ \A c : IsFiniteSet({c})
  BY FS_EmptySet, FS_Singleton
<1> QED
  BY <1>1, <1>2, <1>3

LEMMA EntryCandidatesType ==
  ASSUME NEW pack, NEW d, NEW e, Identified(e.target, e.display, e),
         d = Undecided \/ (DecisionType(d) /\ ValidDecision(d))
  PROVE  \A c \in EntryCandidates(pack, d, e) : CandidateType(c)
<1> SUFFICES ASSUME NEW c, FromEntry(pack, d, e, c) PROVE CandidateType(c)
  BY EntryCandidatesAre
<1>1. \A p \in Nat : CandidateType(Candidate(p, e.target, "hunspell", e.normalized, e))
  BY DEF Candidate, CandidateType, Identified
<1>2. CASE d.status = "ApprovedWithMetadataChange"
                /\ c = Replaced(e.target, "hunspell", d.replacement, e)
  <2>1. d # Undecided
    BY <1>2 DEF Undecided
  <2>2. ReplacementType(d.replacement)
    BY <1>2, <2>1 DEF ValidDecision, DecisionType
  <2> QED
    BY <1>2, <2>2, ReplacedType DEF Identified
<1> QED
  BY <1>1, <1>2 DEF FromEntry, ExternalApproved, Experimental, Unreviewed

\* A Kuwiki batch: its decided candidates, under its own name.
KuwikiOf(pack, b, c) ==
  LET d == CHOOSE d \in Range(b.decisions) : d.target = KuwikiTarget(b.batch, c)
      Word(p) == Candidate(p, d.target, b.batch[1], c.normalized, NoFields(c.token))
  IN  CASE d.status = "Approved" -> {Word(ExternalApproved)}
        [] d.status = "ApprovedWithMetadataChange" ->
             {Replaced(d.target, b.batch[1], d.replacement, NoFields(c.token))}
        [] d.status = "ExperimentalOnly" /\ pack = "experimental-full" -> {Word(Experimental)}
        [] OTHER -> {}

LEMMA KuwikiAre ==
  ASSUME NEW pack, NEW b
  PROVE  SelectKuwiki(pack, b) = UNION {KuwikiOf(pack, b, c) : c \in Range(b.candidates)}
BY DEF SelectKuwiki, KuwikiOf

LEMMA KuwikiType ==
  ASSUME NEW pack, NEW b \in Kuwiki
  PROVE  /\ IsFiniteSet(SelectKuwiki(pack, b))
         /\ \A x \in SelectKuwiki(pack, b) : CandidateType(x) /\ x.source # "hunspell"
<1>1. /\ b.batch[1] # "hunspell" /\ List(b.candidates) /\ List(b.decisions)
      /\ \A c \in Range(b.candidates) :
           /\ c.token \in Seq(Nat)
           /\ \E d \in Range(b.decisions) : d.target = KuwikiTarget(b.batch, c)
      /\ \A d \in Range(b.decisions) :
           d.status = "ApprovedWithMetadataChange" => ReplacementType(d.replacement)
  BY SourcesAssumption
<1>2. ASSUME NEW c \in Range(b.candidates)
      PROVE  /\ IsFiniteSet(KuwikiOf(pack, b, c))
             /\ \A x \in KuwikiOf(pack, b, c) : CandidateType(x) /\ x.source # "hunspell"
  <2> DEFINE d == CHOOSE d \in Range(b.decisions) : d.target = KuwikiTarget(b.batch, c)
             Word(p) == Candidate(p, d.target, b.batch[1], c.normalized, NoFields(c.token))
             changed == Replaced(d.target, b.batch[1], d.replacement, NoFields(c.token))
  <2>1. d \in Range(b.decisions)
    BY <1>1
  <2>2. KuwikiOf(pack, b, c) =
          CASE d.status = "Approved" -> {Word(ExternalApproved)}
            [] d.status = "ApprovedWithMetadataChange" -> {changed}
            [] d.status = "ExperimentalOnly" /\ pack = "experimental-full" -> {Word(Experimental)}
            [] OTHER -> {}
    BY DEF KuwikiOf
  <2> HIDE DEF d
  <2>3. KuwikiOf(pack, b, c) = {} \/ \E x : KuwikiOf(pack, b, c) = {x}
    BY <2>2
  <2>4. IsFiniteSet({}) /\ \A x : IsFiniteSet({x})
    BY FS_EmptySet, FS_Singleton
  <2>5. /\ NoFields(c.token).line \in Nat /\ NoFields(c.token).flags \in Words
        /\ NoFields(c.token).morphology \in Words /\ NoFields(c.token).display \in Words
    BY <1>1, <1>2 DEF NoFields, Words
  <2>6. \A p \in Nat : CandidateType(Word(p)) /\ Word(p).source # "hunspell"
    BY <2>5, <1>1 DEF Candidate, CandidateType
  <2>7. ASSUME d.status = "ApprovedWithMetadataChange"
        PROVE  CandidateType(changed) /\ changed.source # "hunspell"
    <3>1. ReplacementType(d.replacement)
      BY <2>1, <2>7, <1>1
    <3>2. changed.source # "hunspell"
      BY <1>1 DEF Replaced, Candidate
    <3> QED
      BY <3>1, <3>2, <2>5, ReplacedType
  <2> HIDE DEF Word, changed
  <2>8. \A x \in KuwikiOf(pack, b, c) : CandidateType(x) /\ x.source # "hunspell"
    BY <2>2, <2>6, <2>7 DEF ExternalApproved, Experimental
  <2> QED
    BY <2>3, <2>4, <2>8
<1> DEFINE f == [c \in Range(b.candidates) |-> KuwikiOf(pack, b, c)]
<1>3. /\ DOMAIN f = Range(b.candidates)
      /\ UNION {f[c] : c \in DOMAIN f} = SelectKuwiki(pack, b)
  BY KuwikiAre
<1>4. IsFiniteSet(SelectKuwiki(pack, b))
  <2>1. \A c \in DOMAIN f : IsFiniteSet(f[c])
    BY <1>2
  <2> HIDE DEF f
  <2> QED
    BY <1>1, <1>3, <2>1, ListType, FiniteUnion
<1> QED
  BY <1>2, <1>4, KuwikiAre

GroupsAccepted(q, ds) == \A g \in q.groups : ~GroupRefused(DecisionOnGroup(ds, q, g), g)

LEMMA SeedType ==
  /\ IsFiniteSet(SeedCandidates(Seed))
  /\ \A c \in SeedCandidates(Seed) : CandidateType(c) /\ c.source = "manual-seed"
<1> DEFINE word(s) == Candidate(ManualSeed, [seed |-> NormalizeText(s)], "manual-seed",
                                NormalizeText(s), NoFields(s))
           f == [s \in Seed |-> word(s)]
<1>1. DOMAIN f = Seed /\ {f[s] : s \in DOMAIN f} = SeedCandidates(Seed)
  BY DEF SeedCandidates
<1>2. IsFiniteSet(SeedCandidates(Seed))
  <2> HIDE DEF f
  <2> QED
    BY <1>1, SourcesAssumption, FiniteImage
<1>3. \A s \in Seed : CandidateType(word(s)) /\ word(s).source = "manual-seed"
  BY SourcesAssumption DEF CandidateType, Candidate, NoFields, Words, ManualSeed
<1> QED
  BY <1>2, <1>3 DEF SeedCandidates

LEMMA DecisionsFound ==
  ASSUME NEW q, NEW ds, GoodDecisions(ds)
  PROVE  /\ \A g : LET d == DecisionOnGroup(ds, q, g)
                   IN  d = Undecided \/ (/\ d \in Range(ds) /\ DecisionType(d) /\ ValidDecision(d)
                                         /\ d.type = "conflict_group" /\ d.target = g.target)
         /\ \A e : LET d == DecisionOnEntry(ds, q, e)
                   IN  d = Undecided \/ (/\ d \in Range(ds) /\ DecisionType(d) /\ ValidDecision(d)
                                         /\ d.type = "entry" /\ d.target = e.target)
<1>1. \A target : LET d == DecisionOn(ds, q, target)
                  IN  d = Undecided \/ (d \in Range(ds) /\ Targeted(d) = target)
  BY DecisionFound DEF GoodDecisions
<1> QED
  BY <1>1 DEF DecisionOnGroup, DecisionOnEntry, GoodDecisions, Targeted

LEMMA ExternalAre ==
  ASSUME NEW pack, NEW q, NEW ds, NEW kuwiki
  PROVE  \A c : c \in External(pack, q, ds, kuwiki) <=>
           \/ \E g \in q.groups : c \in GroupCandidates(pack, DecisionOnGroup(ds, q, g), g)
           \/ \E e \in Items(q) : c \in EntryCandidates(pack, DecisionOnEntry(ds, q, e), e)
           \/ \E b \in kuwiki : c \in SelectKuwiki(pack, b)
<1> DEFINE G == UNION {GroupCandidates(pack, DecisionOnGroup(ds, q, g), g) : g \in q.groups}
           E == UNION {EntryCandidates(pack, DecisionOnEntry(ds, q, e), e) : e \in Items(q)}
           K == UNION {SelectKuwiki(pack, s) : s \in kuwiki}
<1>1. \A c : c \in G <=> \E g \in q.groups :
                           c \in GroupCandidates(pack, DecisionOnGroup(ds, q, g), g)
  OBVIOUS
<1>2. \A c : c \in E <=> \E e \in Items(q) :
                           c \in EntryCandidates(pack, DecisionOnEntry(ds, q, e), e)
  OBVIOUS
<1>3. \A c : c \in K <=> \E b \in kuwiki : c \in SelectKuwiki(pack, b)
  OBVIOUS
<1>4. External(pack, q, ds, kuwiki) = G \cup E \cup K
  BY DEF External
<1> HIDE DEF G, E, K
<1> QED
  BY <1>1, <1>2, <1>3, <1>4

LEMMA CandidatesType ==
  ASSUME NEW pack \in Packs, NEW q, GoodQueues(q), NEW ds, GoodDecisions(ds),
         GroupsAccepted(q, ds), NEW kuwiki \in SUBSET Kuwiki
  PROVE  /\ IsFiniteSet(Candidates(pack, Seed, q, ds, kuwiki))
         /\ \A c \in Candidates(pack, Seed, q, ds, kuwiki) : CandidateType(c)
<1> DEFINE fg == [g \in q.groups |-> GroupCandidates(pack, DecisionOnGroup(ds, q, g), g)]
           fe == [e \in Items(q) |-> EntryCandidates(pack, DecisionOnEntry(ds, q, e), e)]
           fk == [b \in kuwiki |-> SelectKuwiki(pack, b)]
           G == UNION {fg[g] : g \in DOMAIN fg}
           E == UNION {fe[e] : e \in DOMAIN fe}
           K == UNION {fk[b] : b \in DOMAIN fk}
<1>1. External(pack, q, ds, kuwiki) = G \cup E \cup K
  <2>1. \A c : c \in G <=> \E g \in q.groups :
                             c \in GroupCandidates(pack, DecisionOnGroup(ds, q, g), g)
    OBVIOUS
  <2>2. \A c : c \in E <=> \E e \in Items(q) :
                             c \in EntryCandidates(pack, DecisionOnEntry(ds, q, e), e)
    OBVIOUS
  <2>3. \A c : c \in K <=> \E b \in kuwiki : c \in SelectKuwiki(pack, b)
    OBVIOUS
  <2> HIDE DEF G, E, K
  <2> QED
    BY <2>1, <2>2, <2>3, ExternalAre
<1>2. DOMAIN fg = q.groups /\ DOMAIN fe = Items(q) /\ DOMAIN fk = kuwiki
  OBVIOUS
<1>3. \A g \in q.groups : /\ IsFiniteSet(fg[g])
                          /\ \A c \in fg[g] : CandidateType(c)
  BY DecisionsFound, GroupCandidatesType DEF GoodQueues, GroupsAccepted
<1>4. IsFiniteSet(Items(q)) /\ \A e \in Items(q) : Identified(e.target, e.display, e)
  <2>1. Items(q) \subseteq EntryRecords(q)
    BY DEF Items
  <2> QED
    BY <2>1, FS_Subset DEF GoodQueues
<1>5. \A e \in Items(q) : /\ IsFiniteSet(fe[e])
                          /\ \A c \in fe[e] : CandidateType(c)
  BY <1>4, DecisionsFound, EntryCandidatesAre, EntryCandidatesType
<1>6. \A b \in kuwiki : /\ IsFiniteSet(fk[b])
                        /\ \A c \in fk[b] : CandidateType(c)
  BY KuwikiType
<1>7. IsFiniteSet(kuwiki) /\ IsFiniteSet(q.groups)
  BY SourcesAssumption, FS_Subset DEF GoodQueues
<1> HIDE DEF fg, fe, fk
<1>8. /\ IsFiniteSet(G) /\ IsFiniteSet(E) /\ IsFiniteSet(K)
      /\ \A c \in G \cup E \cup K : CandidateType(c)
  BY <1>2, <1>3, <1>4, <1>5, <1>6, <1>7, FiniteUnion
<1> HIDE DEF G, E, K
<1>9. IsFiniteSet(G \cup E \cup K) /\ IsFiniteSet({})
  BY <1>8, FS_Union, FS_EmptySet
<1>10. Candidates(pack, Seed, q, ds, kuwiki) \in {SeedCandidates(Seed) \cup {},
                                                  SeedCandidates(Seed) \cup (G \cup E \cup K)}
  BY <1>1 DEF Candidates
<1> QED
  BY <1>8, <1>9, <1>10, SeedType, FS_Union

(***************************************************************************)
(* What the reviewed and the experimental pack have of one another.        *)
(***************************************************************************)
Approved(candidates) == {c \in candidates : c.population <= ExternalApproved}

LEMMA ApprovedParts ==
  /\ \A d, g : GroupCandidates("reviewed", d, g)
                = Approved(GroupCandidates("experimental-full", d, g))
  /\ \A d, e : EntryCandidates("reviewed", d, e)
                = Approved(EntryCandidates("experimental-full", d, e))
  /\ \A b : SelectKuwiki("reviewed", b) = Approved(SelectKuwiki("experimental-full", b))
  /\ Approved(SeedCandidates(Seed)) = SeedCandidates(Seed)
<1> USE DEF ExternalApproved, Experimental, Unreviewed, MetadataChange, ManualSeed
<1>1. ASSUME NEW d, NEW g
      PROVE  GroupCandidates("reviewed", d, g)
               = Approved(GroupCandidates("experimental-full", d, g))
  <2>1. \A p, m : MemberCandidate(p, m).population = p
    BY DEF MemberCandidate, Candidate
  <2>2. \A t, s, r, n : Replaced(t, s, r, n).population = MetadataChange
    BY DEF Replaced, Candidate
  <2> QED
    BY <2>1, <2>2 DEF GroupCandidates, Approved
<1>2. ASSUME NEW d, NEW e
      PROVE  EntryCandidates("reviewed", d, e)
               = Approved(EntryCandidates("experimental-full", d, e))
  BY DEF EntryCandidates, Approved, Candidate, Replaced
<1>3. ASSUME NEW b
      PROVE  SelectKuwiki("reviewed", b) = Approved(SelectKuwiki("experimental-full", b))
  <2>1. \A c : KuwikiOf("reviewed", b, c) = Approved(KuwikiOf("experimental-full", b, c))
    BY DEF KuwikiOf, Approved, Candidate, Replaced
  <2> QED
    BY <2>1, KuwikiAre DEF Approved
<1>4. Approved(SeedCandidates(Seed)) = SeedCandidates(Seed)
  BY DEF Approved, SeedCandidates, Candidate
<1> QED
  BY <1>1, <1>2, <1>3, <1>4

LEMMA ReviewedIsApproved ==
  ASSUME NEW q, NEW ds, NEW kuwiki
  PROVE  Candidates("reviewed", Seed, q, ds, kuwiki)
           = Approved(Candidates("experimental-full", Seed, q, ds, kuwiki))
<1> DEFINE full == "experimental-full"
<1>1. ASSUME NEW c, NEW d, NEW g
      PROVE  c \in GroupCandidates("reviewed", d, g) <=>
               c \in GroupCandidates(full, d, g) /\ c.population <= ExternalApproved
  BY ApprovedParts DEF Approved
<1>2. ASSUME NEW c, NEW d, NEW e
      PROVE  c \in EntryCandidates("reviewed", d, e) <=>
               c \in EntryCandidates(full, d, e) /\ c.population <= ExternalApproved
  BY ApprovedParts DEF Approved
<1>3. ASSUME NEW c, NEW b
      PROVE  c \in SelectKuwiki("reviewed", b) <=>
               c \in SelectKuwiki(full, b) /\ c.population <= ExternalApproved
  BY ApprovedParts DEF Approved
<1>4. \A c : c \in External("reviewed", q, ds, kuwiki) <=>
               c \in External(full, q, ds, kuwiki) /\ c.population <= ExternalApproved
  BY <1>1, <1>2, <1>3, ExternalAre
<1>5. \A c : c \in SeedCandidates(Seed) => c.population <= ExternalApproved
  BY ApprovedParts DEF Approved
<1> QED
  BY <1>4, <1>5 DEF Approved, Candidates

\* Where the reviewed pack is built, the experimental one is built and has its words.
LEMMA ReviewedIsInExperimental ==
  ASSUME NEW q, GoodQueues(q), NEW ds, GoodDecisions(ds), NEW kuwiki \in SUBSET Kuwiki,
         ~PackRefused("reviewed", Seed, q, ds, kuwiki)
  PROVE  /\ ~PackRefused("experimental-full", Seed, q, ds, kuwiki)
         /\ PackEntries("reviewed", Seed, q, ds, kuwiki)
              \subseteq PackEntries("experimental-full", Seed, q, ds, kuwiki)
<1> DEFINE full == Candidates("experimental-full", Seed, q, ds, kuwiki)
           some == Candidates("reviewed", Seed, q, ds, kuwiki)
<1>1. GroupsAccepted(q, ds)
  BY DEF PackRefused, GroupsAccepted
<1>2. IsFiniteSet(full) /\ \A c \in full : CandidateType(c)
  BY <1>1, CandidatesType DEF Packs
<1>3. some = Approved(full)
  BY ReviewedIsApproved
<1>4. ~CandidatesRefused("reviewed", some)
  BY DEF PackRefused
<1> HIDE DEF full, some
<1>5. Gated("reviewed", some) = some /\ Gated("experimental-full", full) = some
  BY <1>3 DEF Gated, Approved
<1>6. ~CandidatesRefused("experimental-full", full)
  BY <1>4, <1>5 DEF CandidatesRefused
<1>7. ~PackRefused("experimental-full", Seed, q, ds, kuwiki)
  BY <1>1, <1>6 DEF PackRefused, GroupsAccepted, full
<1>8. ASSUME NEW f \in Forms(some)
      PROVE  f \in Forms(full) /\ Top(Competing(some, f)) = Top(Competing(full, f))
  <2> DEFINE A == Competing(some, f)
             F == Competing(full, f)
  <2>1. A \subseteq F /\ A # {} /\ \A c \in F : c \in A <=> c.population <= ExternalApproved
    BY <1>3 DEF Competing, Forms, Approved
  <2>2. F \subseteq full
    BY DEF Competing
  <2>3. \A c \in F : CandidateType(c)
    BY <2>2, <1>2
  <2>4. \A c \in A, d \in F : d \notin A => Precedes(c, d) /\ ~Precedes(d, c)
    <3>1. \A c \in A, d \in F : d \notin A => c.population < d.population
      BY <2>1, <2>3 DEF CandidateType, ExternalApproved
    <3> QED
      BY <3>1, <2>1, <2>3, PrecedesIs DEF CandidateType
  <2>5. Top(A) \subseteq Top(F) /\ Top(F) \subseteq Top(A)
    BY <2>1, <2>4 DEF Top
  <2>6. f \in Forms(full)
    BY <2>1, <2>2, <1>3 DEF Forms, Competing
  <2> QED
    BY <2>5, <2>6
<1>9. ResolveCollisions(some) \subseteq ResolveCollisions(full)
  BY <1>8 DEF ResolveCollisions
<1> QED
  BY <1>7, <1>9 DEF PackEntries, some, full

(***************************************************************************)
(* The inductive invariant: the files under data/, and what each process   *)
(* holds of what it read.                                                  *)
(***************************************************************************)
GoodSource(s) == s \in [dic : DOMAIN Dictionary, revision : DOMAIN Dictionary]

MissingOrGood(q) == q = Missing \/ GoodQueues(q)

ImportHolds(job) == job # Idle => \E v \in DOMAIN Dictionary : job.result = Import(Dictionary[v])

\* Whether the audit failed is decided by what it read.
AuditHolds(job) ==
  job # Idle =>
    /\ job.at = "replay" => GoodReports(job.imported)
    /\ job.at \in {"failed", "park"} =>
         /\ job.inputs.dic \in DOMAIN Dictionary
         /\ job.at = "failed" <=> AuditFails(job.inputs.imported, Dictionary[job.inputs.dic])

QueuesDone(at, inputs) ==
  /\ GoodSource(inputs.source)
  /\ GoodReports(inputs.imported)
  /\ at = "failed" <=> \/ inputs.audit = Missing
                       \/ QueuesFail(inputs.source.revision, Dictionary[inputs.source.dic],
                                     inputs.imported, inputs.audit)

QueuesHolds(job) ==
  job # Idle =>
    /\ job.at = "inputs" => GoodSource(job.source)
    /\ job.at \in {"failed", "park"} => QueuesDone(job.at, job.inputs)
    /\ job.at = "park" =>
         job.result = GenerateQueues(job.inputs.source.revision, Dictionary[job.inputs.source.dic],
                                     job.inputs.imported, job.inputs.audit)
    /\ job.at = "install" => GoodQueues(job.result) /\ MissingOrGood(job.backup)

BatchHolds(job) ==
  job # Idle =>
    /\ job.at \in {"pool", "ranked"} => GoodQueues(job.read) /\ job.flags = Flagged(job.read)
    /\ job.at = "pool" =>
         \E v \in DOMAIN DecisionFiles : job.decided = DecidedTargets(DecisionFiles[v])
    /\ job.at = "ranked" =>
         /\ GoodQueues(job.queues)
         /\ \E v \in DOMAIN DecisionFiles :
              job.offers = Offers(job.queues.entries["hunspell_only"],
                                  DecidedTargets(DecisionFiles[v]), job.flags)

BuildHolds(job) ==
  job # Idle /\ job.at # "failed" =>
    /\ job.pack \in Packs \ {"seed"}
    /\ job.at \in {"decisions", "resolved"} => GoodQueues(job.queues)
    /\ job.at = "resolved" =>
         /\ job.decisions \in Range(DecisionFiles)
         /\ job.entries = Resolve(job.pack, Seed, job.queues, job.decisions, Kuwiki)

FilesHold == GoodReports(reports) /\ MissingOrGood(queues)

JobsHold ==
  /\ ImportHolds(jobs["import"])
  /\ AuditHolds(jobs["audit"])
  /\ QueuesHolds(jobs["queues"])
  /\ BatchHolds(jobs["batch"])
  /\ BuildHolds(jobs["build"])

Inv == TypeOK /\ FilesHold /\ JobsHold

LEMMA ImportIsGood ==
  ASSUME NEW v \in DOMAIN Dictionary
  PROVE  GoodReports(Import(Dictionary[v]))
BY DEF GoodReports

LEMMA InitHolds == Init => Inv
<1> SUFFICES ASSUME Init PROVE FilesHold /\ JobsHold
  BY InitTyped DEF Inv
<1>1. GoodReports(reports)
  BY ImportIsGood DEF Init
<1>2. GoodQueues(queues)
  BY FirstRevision, ImportIsGood, QueuesType DEF Init
<1>3. \A c \in Command : jobs[c] = Idle
  BY DEF Init
<1> QED
  BY <1>1, <1>2, <1>3 DEF FilesHold, JobsHold, MissingOrGood, ImportHolds, AuditHolds,
     QueuesHolds, BatchHolds, BuildHolds

\* A job that ends or is killed holds nothing.
LEMMA IdleHolds ==
  /\ ImportHolds(Idle) /\ AuditHolds(Idle) /\ QueuesHolds(Idle) /\ BatchHolds(Idle)
  /\ BuildHolds(Idle)
BY DEF ImportHolds, AuditHolds, QueuesHolds, BatchHolds, BuildHolds

Holds(c, job) ==
  /\ c = "import" => ImportHolds(job)
  /\ c = "audit" => AuditHolds(job)
  /\ c = "queues" => QueuesHolds(job)
  /\ c = "batch" => BatchHolds(job)
  /\ c = "build" => BuildHolds(job)

\* A step of one command leaves what the others hold.
LEMMA OneJob ==
  ASSUME JobsHold, NEW c \in Command, \A d \in Command : d # c => jobs'[d] = jobs[d],
         Holds(c, jobs'[c])
  PROVE  JobsHold'
BY DEF JobsHold, Holds

LEMMA OneStep ==
  ASSUME Inv, NEW c \in Command, NEW job, Holds(c, job),
         Begin(c, job) \/ Goto(c, job) \/ (End(c) /\ job = Idle)
  PROVE  JobsHold'
BY OneJob, Started, Moved, Ended DEF Inv, TypeOK

LEMMA FilesUnchanged ==
  ASSUME Inv, UNCHANGED <<reports, queues>>
  PROVE  FilesHold'
BY DEF Inv, FilesHold

LEMMA ImportStep ==
  ASSUME Inv, StartImport \/ \E i \in DOMAIN ReportOrder : WriteReport(i)
  PROVE  FilesHold' /\ JobsHold'
<1>1. CASE StartImport
  <2>1. source.dic \in DOMAIN Dictionary
    BY DEF Inv, TypeOK
  <2> DEFINE job == [at |-> ReportOrder[1], result |-> Import(Dictionary[source.dic])]
  <2>2. Holds("import", job)
    BY <2>1 DEF Holds, ImportHolds
  <2>3. Begin("import", job) /\ UNCHANGED <<reports, queues>>
    BY <1>1 DEF StartImport, files
  <2> HIDE DEF job
  <2> QED
    BY <2>2, <2>3, OneStep, FilesUnchanged
<1>2. ASSUME NEW i \in DOMAIN ReportOrder, WriteReport(i) PROVE FilesHold' /\ JobsHold'
  <2> DEFINE job == jobs["import"]
             o == ReportOrder[i]
  <2>1. PICK v \in DOMAIN Dictionary : job.result = Import(Dictionary[v])
    BY <1>2 DEF WriteReport, At, Inv, JobsHold, ImportHolds
  <2>2. reports' = [reports EXCEPT ![o] = job.result[o]] /\ UNCHANGED queues
    BY <1>2 DEF WriteReport
  <2>3. GoodReports(reports')
    BY <2>1, <2>2 DEF Inv, FilesHold, GoodReports, TypeOK
  <2>4. CASE Goto("import", [job EXCEPT !.at = ReportOrder[i + 1]])
    <3>1. Holds("import", [job EXCEPT !.at = ReportOrder[i + 1]])
      <4>1. [job EXCEPT !.at = ReportOrder[i + 1]].result = job.result
        OBVIOUS
      <4> QED
        BY <4>1, <2>1 DEF Holds, ImportHolds
    <3> QED
      BY <3>1, <2>2, <2>3, <2>4, OneStep DEF FilesHold, Inv
  <2>5. CASE End("import")
    BY <2>2, <2>3, <2>5, OneStep, IdleHolds DEF FilesHold, Inv, Holds
  <2> QED
    BY <1>2, <2>4, <2>5 DEF WriteReport
<1> QED
  BY <1>1, <1>2

LEMMA AuditStep ==
  ASSUME Inv, StartAudit \/ ReplayDictionary \/ ParkAudit \/ InstallAudit
  PROVE  FilesHold' /\ JobsHold'
<1>0. UNCHANGED <<reports, queues>>
  BY DEF StartAudit, ReplayDictionary, ParkAudit, InstallAudit, files
<1>1. CASE StartAudit
  <2>1. Holds("audit", [at |-> "replay", imported |-> reports])
    BY DEF Holds, AuditHolds, Inv, FilesHold
  <2> QED
    BY <1>0, <1>1, <2>1, OneStep, FilesUnchanged DEF StartAudit
<1>2. CASE ReplayDictionary
  <2> DEFINE imported == jobs["audit"].imported
             file == Dictionary[source.dic]
             inputs == [imported |-> imported, dic |-> source.dic]
             job == IF AuditFails(imported, file) THEN [at |-> "failed", inputs |-> inputs]
                    ELSE [at |-> "park", inputs |-> inputs, result |-> Audit(imported, file, Seed)]
  <2>1. Goto("audit", job)
    BY <1>2 DEF ReplayDictionary, Computed
  <2>2. /\ job.at \in {"failed", "park"}
        /\ job.at = "failed" <=> AuditFails(imported, file)
        /\ job.inputs.dic = source.dic /\ job.inputs.imported = imported
    OBVIOUS
  <2>3. source.dic \in DOMAIN Dictionary
    BY DEF Inv, TypeOK
  <2> HIDE DEF job
  <2>4. Holds("audit", job)
    BY <2>2, <2>3 DEF Holds, AuditHolds
  <2> QED
    BY <1>0, <2>1, <2>4, OneStep, FilesUnchanged
<1>3. CASE ParkAudit
  <2> DEFINE job == [at |-> "install", result |-> jobs["audit"].result, backup |-> audit]
  <2>1. Holds("audit", job)
    BY DEF Holds, AuditHolds
  <2>2. Goto("audit", job)
    BY <1>3 DEF ParkAudit
  <2> HIDE DEF job
  <2> QED
    BY <1>0, <2>1, <2>2, OneStep, FilesUnchanged
<1>4. CASE InstallAudit
  BY <1>0, <1>4, OneStep, IdleHolds, FilesUnchanged DEF InstallAudit, Holds
<1> QED
  BY <1>1, <1>2, <1>3, <1>4

LEMMA QueuesStep ==
  ASSUME Inv, StartQueues \/ LoadInputs \/ ParkQueues \/ InstallQueues
  PROVE  FilesHold' /\ JobsHold'
<1>1. CASE StartQueues
  <2>1. Holds("queues", [at |-> "inputs", source |-> source])
    BY DEF Holds, QueuesHolds, Inv, TypeOK, GoodSource
  <2> QED
    BY <1>1, <2>1, OneStep, FilesUnchanged DEF StartQueues, files
<1>2. CASE LoadInputs
  <2> DEFINE read == jobs["queues"].source
             file == Dictionary[read.dic]
             inputs == [source |-> read, imported |-> reports, audit |-> audit]
             fails == audit = Missing \/ QueuesFail(read.revision, file, reports, audit)
             result == GenerateQueues(read.revision, file, reports, audit)
             job == IF fails THEN [at |-> "failed", inputs |-> inputs]
                    ELSE [at |-> "park", inputs |-> inputs, result |-> result]
  <2>1. Goto("queues", job) /\ UNCHANGED files
    BY <1>2 DEF LoadInputs, Computed
  <2>2. /\ job.at \in {"failed", "park"}
        /\ job.at = "failed" <=> fails
        /\ job.at = "park" => job.result = result
        /\ job.inputs.source = read /\ job.inputs.imported = reports /\ job.inputs.audit = audit
    OBVIOUS
  <2>3. GoodSource(read)
    BY <1>2 DEF LoadInputs, At, Inv, JobsHold, QueuesHolds
  <2> HIDE DEF job
  <2>4. Holds("queues", job)
    BY <2>2, <2>3 DEF Holds, QueuesHolds, QueuesDone, Inv, FilesHold
  <2> QED
    BY <2>1, <2>4, OneStep, FilesUnchanged DEF files
<1>3. CASE ParkQueues
  <2> DEFINE old == jobs["queues"]
             job == [at |-> "install", result |-> old.result, backup |-> queues]
  <2>1. QueuesHolds(old) /\ old # Idle /\ old.at = "park"
    BY <1>3 DEF ParkQueues, At, Inv, JobsHold
  <2>2. GoodQueues(old.result)
    <3> DEFINE rev == old.inputs.source.revision
               v == old.inputs.source.dic
               r == old.inputs.imported
               aud == old.inputs.audit
    <3>1. v \in DOMAIN Dictionary /\ GoodReports(r) /\ ~QueuesFail(rev, Dictionary[v], r, aud)
          /\ old.result = GenerateQueues(rev, Dictionary[v], r, aud)
      BY <2>1 DEF QueuesHolds, QueuesDone, GoodSource
    <3> HIDE DEF rev, v, r, aud
    <3> QED
      BY <3>1, QueuesType
  <2>3. Holds("queues", job)
    BY <2>2 DEF Holds, QueuesHolds, Inv, FilesHold
  <2>4. Goto("queues", job) /\ queues' = Missing /\ reports' = reports
    BY <1>3 DEF ParkQueues
  <2> HIDE DEF job
  <2> QED
    BY <2>3, <2>4, OneStep DEF Inv, FilesHold, MissingOrGood
<1>4. CASE InstallQueues
  <2>1. MissingOrGood(queues')
    BY <1>4 DEF InstallQueues, Renamed, At, Inv, JobsHold, QueuesHolds, MissingOrGood
  <2>2. JobsHold'
    BY <1>4, OneStep, IdleHolds DEF InstallQueues, Holds
  <2> QED
    BY <1>4, <2>1, <2>2 DEF InstallQueues, Inv, FilesHold
<1> QED
  BY <1>1, <1>2, <1>3, <1>4

LEMMA BatchStep ==
  ASSUME Inv, StartBatch \/ RankPool \/ WriteBatch
  PROVE  FilesHold' /\ JobsHold'
<1>0. UNCHANGED <<reports, queues>>
  BY DEF StartBatch, RankPool, WriteBatch, files
<1>1. CASE StartBatch
  <2> DEFINE job == [at |-> "pool", decided |-> DecidedTargets(DecisionFiles[decisions]),
                     flags |-> Flagged(queues), read |-> queues]
  <2>1. Holds("batch", job)
    BY <1>1 DEF Holds, BatchHolds, StartBatch, Inv, FilesHold, MissingOrGood, TypeOK
  <2>2. Begin("batch", job)
    BY <1>1 DEF StartBatch
  <2> HIDE DEF job
  <2> QED
    BY <1>0, <2>1, <2>2, OneStep, FilesUnchanged
<1>2. CASE RankPool
  <2> DEFINE old == jobs["batch"]
             job == [at |-> "ranked", flags |-> old.flags, read |-> old.read, queues |-> queues,
                     offers |-> Offers(queues.entries["hunspell_only"], old.decided, old.flags)]
  <2>1. BatchHolds(old) /\ old # Idle /\ old.at = "pool"
    BY <1>2 DEF RankPool, At, Inv, JobsHold
  <2>2. CASE queues = Missing
    <3>1. Holds("batch", [at |-> "failed"])
      BY DEF Holds, BatchHolds
    <3> QED
      BY <1>0, <1>2, <2>2, <3>1, OneStep, FilesUnchanged DEF RankPool
  <2>3. CASE queues # Missing
    <3>1. GoodQueues(queues)
      BY <2>3 DEF Inv, FilesHold, MissingOrGood
    <3>2. Holds("batch", job)
      BY <2>1, <3>1 DEF Holds, BatchHolds
    <3>3. Goto("batch", job)
      BY <1>2, <2>3 DEF RankPool
    <3> HIDE DEF job
    <3> QED
      BY <1>0, <3>2, <3>3, OneStep, FilesUnchanged
  <2> QED
    BY <2>2, <2>3
<1>3. CASE WriteBatch
  BY <1>0, <1>3, OneStep, IdleHolds, FilesUnchanged DEF WriteBatch, Holds
<1> QED
  BY <1>1, <1>2, <1>3

LEMMA BuildStep ==
  ASSUME Inv, \/ \E pack \in Packs \ {"seed"} : StartBuild(pack)
              \/ ReadQueues \/ ResolvePack \/ FinishBuild
  PROVE  FilesHold' /\ JobsHold'
<1>0. UNCHANGED <<reports, queues>>
  BY DEF StartBuild, ReadQueues, ResolvePack, FinishBuild, files
<1>1. ASSUME NEW pack \in Packs \ {"seed"}, StartBuild(pack) PROVE JobsHold'
  <2>1. Holds("build", [at |-> "queues", pack |-> pack])
    BY DEF Holds, BuildHolds
  <2> QED
    BY <1>1, <2>1, OneStep DEF StartBuild
<1>2. ASSUME ReadQueues PROVE JobsHold'
  <2> DEFINE old == jobs["build"]
             job == [at |-> "decisions", pack |-> old.pack, queues |-> queues]
  <2>1. BuildHolds(old) /\ old # Idle /\ old.at = "queues"
    BY <1>2 DEF ReadQueues, At, Inv, JobsHold
  <2>2. CASE queues = Missing
    <3>1. Holds("build", [at |-> "failed"])
      BY DEF Holds, BuildHolds
    <3> QED
      BY <1>2, <2>2, <3>1, OneStep DEF ReadQueues
  <2>3. CASE queues # Missing
    <3>1. Holds("build", job)
      BY <2>1, <2>3 DEF Holds, BuildHolds, Inv, FilesHold, MissingOrGood
    <3>2. Goto("build", job)
      BY <1>2, <2>3 DEF ReadQueues
    <3> HIDE DEF job
    <3> QED
      BY <3>1, <3>2, OneStep
  <2> QED
    BY <2>2, <2>3
<1>3. ASSUME ResolvePack PROVE JobsHold'
  <2> DEFINE old == jobs["build"]
             file == DecisionFiles[decisions]
             job == [at |-> "resolved", pack |-> old.pack, queues |-> old.queues,
                     decisions |-> file,
                     entries |-> Resolve(old.pack, Seed, old.queues, file, Kuwiki)]
  <2>1. BuildHolds(old) /\ old # Idle /\ old.at = "decisions"
    BY <1>3 DEF ResolvePack, At, Inv, JobsHold
  <2>2. file \in Range(DecisionFiles)
    BY DEF Inv, TypeOK, Range
  <2>3. Holds("build", job)
    BY <2>1, <2>2 DEF Holds, BuildHolds
  <2>4. Goto("build", job)
    BY <1>3 DEF ResolvePack
  <2> HIDE DEF job
  <2> QED
    BY <2>3, <2>4, OneStep
<1>4. ASSUME FinishBuild PROVE JobsHold'
  BY <1>4, OneStep, IdleHolds DEF FinishBuild, Holds
<1> QED
  BY <1>0, <1>1, <1>2, <1>3, <1>4, FilesUnchanged

\* The other steps: of validation, of people, and the end of a process.
LEMMA OtherStep ==
  ASSUME Inv,
         \/ \E c \in Command : Fail(c) \/ Crash(c) \/ RemoveLock(c)
         \/ StartValidation \/ HashInputs \/ ParkReport \/ InstallReport
         \/ FetchDictionary \/ RegisterRevision \/ EditDecisions \/ UNCHANGED vars
  PROVE  FilesHold' /\ JobsHold'
<1>0. UNCHANGED <<reports, queues>>
  BY DEF Fail, Crash, RemoveLock, StartValidation, HashInputs, ParkReport, InstallReport,
     FetchDictionary, RegisterRevision, EditDecisions, files, vars
<1>1. ASSUME NEW c \in Command, Fail(c) \/ Crash(c) \/ RemoveLock(c) PROVE JobsHold'
  <2>1. Holds(c, Idle)
    BY IdleHolds DEF Holds
  <2>2. CASE Fail(c)
    BY <2>1, <2>2, OneStep DEF Fail
  <2>3. CASE Crash(c)
    <3>1. jobs'[c] = Idle /\ \A d \in Command : d # c => jobs'[d] = jobs[d]
      BY <2>3 DEF Crash, Inv, TypeOK
    <3> QED
      BY <2>1, <3>1, OneJob DEF Inv
  <2>4. CASE RemoveLock(c)
    BY <2>4 DEF RemoveLock, Inv, JobsHold
  <2> QED
    BY <1>1, <2>2, <2>3, <2>4
<1>2. ASSUME StartValidation \/ HashInputs \/ ParkReport \/ InstallReport PROVE JobsHold'
  <2>1. \A job : Holds("validate", job)
    BY DEF Holds
  <2>2. (\E job : Begin("validate", job) \/ Goto("validate", job)) \/ End("validate")
    BY <1>2 DEF StartValidation, HashInputs, ParkReport, InstallReport, Computed
  <2> QED
    BY <2>1, <2>2, OneStep
<1>3. ASSUME FetchDictionary \/ RegisterRevision \/ EditDecisions \/ UNCHANGED vars PROVE JobsHold'
  BY <1>3 DEF FetchDictionary, RegisterRevision, EditDecisions, vars, Inv, JobsHold
<1> QED
  BY <1>0, <1>1, <1>2, <1>3, FilesUnchanged

LEMMA NextHolds == Inv /\ [Next]_vars => Inv'
<1> SUFFICES ASSUME Inv, [Next]_vars PROVE FilesHold' /\ JobsHold'
  BY NextTyped DEF Inv
<1> QED
  BY ImportStep, AuditStep, QueuesStep, BatchStep, BuildStep, OtherStep DEF Next

LEMMA AlwaysHolds == Spec => []Inv
BY InitHolds, NextHolds, PTL DEF Spec

(***************************************************************************)
(* The properties of the packs.                                            *)
(***************************************************************************)
LEMMA DecisionFilesType ==
  ASSUME NEW ds \in Range(DecisionFiles)
  PROVE  /\ GoodDecisions(ds)
         /\ \A d \in Range(ds) : NamesWhatWasSeen(d)
BY DecisionsAssumption DEF Range, GoodDecisions, WellFormed

LEMMA ResolvedBuild ==
  ASSUME Inv, NEW pack, Resolved(pack)
  PROVE  LET job == jobs["build"]
         IN  /\ pack \in Packs \ {"seed"}
             /\ GoodQueues(job.queues) /\ job.decisions \in Range(DecisionFiles)
             /\ ~PackRefused(pack, Seed, job.queues, job.decisions, Kuwiki)
             /\ GroupsAccepted(job.queues, job.decisions)
             /\ job.entries = PackEntries(pack, Seed, job.queues, job.decisions, Kuwiki)
<1> DEFINE job == jobs["build"]
<1>1. job # Idle /\ job.at = "resolved" /\ job.pack = pack /\ job.entries # Refused
  BY DEF Resolved, At
<1>2. BuildHolds(job)
  BY DEF Inv, JobsHold
<1> HIDE DEF job
<1>3. /\ pack \in Packs \ {"seed"}
      /\ GoodQueues(job.queues) /\ job.decisions \in Range(DecisionFiles)
      /\ job.entries = Resolve(pack, Seed, job.queues, job.decisions, Kuwiki)
  BY <1>1, <1>2 DEF BuildHolds
<1>4. /\ ~PackRefused(pack, Seed, job.queues, job.decisions, Kuwiki)
      /\ job.entries = PackEntries(pack, Seed, job.queues, job.decisions, Kuwiki)
  BY <1>1, <1>3 DEF Resolve
<1>5. GroupsAccepted(job.queues, job.decisions)
  BY <1>3, <1>4 DEF PackRefused, GroupsAccepted
<1> QED
  BY <1>3, <1>4, <1>5 DEF job

\* Where a word of the dictionary in a pack comes from.
LEMMA HunspellFrom ==
  ASSUME NEW pack \in Packs \ {"seed"}, NEW q, GoodQueues(q), NEW ds, GoodDecisions(ds),
         GroupsAccepted(q, ds),
         NEW c \in PackEntries(pack, Seed, q, ds, Kuwiki), c.source = "hunspell"
  PROVE  \/ \E g \in q.groups : \/ FromMember(pack, DecisionOnGroup(ds, q, g), g, c)
                                \/ FromReplacement(DecisionOnGroup(ds, q, g), g, c)
         \/ \E e \in Items(q) : FromEntry(pack, DecisionOnEntry(ds, q, e), e, c)
<1> DEFINE all == Candidates(pack, Seed, q, ds, Kuwiki)
<1>1. IsFiniteSet(all) /\ \A x \in all : CandidateType(x)
  BY CandidatesType
<1>2. c \in all
  <2> HIDE DEF all
  <2>1. ResolveCollisions(all) \subseteq all
    BY <1>1, ResolvedAre
  <2> QED
    BY <2>1 DEF PackEntries, all
<1>3. c \in External(pack, q, ds, Kuwiki)
  BY <1>2, SeedType DEF Candidates
<1>4. \A b \in Kuwiki : c \notin SelectKuwiki(pack, b)
  BY KuwikiType
<1>5. CASE \E g \in q.groups : c \in GroupCandidates(pack, DecisionOnGroup(ds, q, g), g)
  BY <1>5, GroupCandidatesAre DEF GoodQueues, GroupsAccepted
<1>6. CASE \E e \in Items(q) : c \in EntryCandidates(pack, DecisionOnEntry(ds, q, e), e)
  BY <1>6, EntryCandidatesAre
<1> QED
  BY <1>3, <1>4, <1>5, <1>6, ExternalAre

LEMMA SubsetsHold == Inv => TrustSubsets
<1> SUFFICES ASSUME Inv, Resolved("reviewed")
             PROVE  LET job == jobs["build"]
                        full == "experimental-full"
                    IN  /\ ~PackRefused(full, Seed, job.queues, job.decisions, Kuwiki)
                        /\ job.entries \subseteq
                             PackEntries(full, Seed, job.queues, job.decisions, Kuwiki)
  BY DEF TrustSubsets
<1> QED
  BY ResolvedBuild, DecisionFilesType, ReviewedIsInExperimental

\* An entry or a member that has the identifier of what was seen reads as it.
LEMMA IdentifierReads ==
  ASSUME NEW e, NEW display, NEW seen, NEW id, NEW origin, Identified(id, display, e),
         id = EntryId(origin, seen.display, seen.normalized, seen.flags, seen.morphology)
  PROVE  /\ Compose(display) = Compose(seen.display)
         /\ NormalizeText(e.normalized) = NormalizeText(seen.normalized)
         /\ e.flags = seen.flags
         /\ BagOfSeq(e.morphology) = BagOfSeq(seen.morphology)
BY DEF Identified, EntryId

LEMMA ItemIdentified ==
  ASSUME NEW q, GoodQueues(q), NEW e \in Items(q)
  PROVE  Identified(e.target, e.display, e) /\ e.target \notin Consumed(q)
BY DEF Items, GoodQueues

LEMMA SeenHolds == Inv => ReviewedAsSeen
<1> DEFINE job == jobs["build"]
           ds == job.decisions
           q == job.queues
<1> SUFFICES ASSUME Inv, Resolved("reviewed"), NEW c \in job.entries, c.source = "hunspell"
             PROVE  \E d \in Range(ds) : Approves(d, c)
  BY DEF ReviewedAsSeen
<1>1. /\ GoodQueues(q) /\ ds \in Range(DecisionFiles) /\ GroupsAccepted(q, ds)
      /\ job.entries = PackEntries("reviewed", Seed, q, ds, Kuwiki)
      /\ "reviewed" \in Packs \ {"seed"}
  BY ResolvedBuild
<1> HIDE DEF job, ds, q
<1>2. GoodDecisions(ds) /\ \A d \in Range(ds) : NamesWhatWasSeen(d)
  BY <1>1, DecisionFilesType
<1>3. ASSUME NEW g \in q.groups, FromMember("reviewed", DecisionOnGroup(ds, q, g), g, c)
      PROVE  \E d \in Range(ds) : Approves(d, c)
  <2> DEFINE d == DecisionOnGroup(ds, q, g)
  <2>1. PICK m \in g.members : /\ d.status = "Approved" /\ d.resolution.kind = "select_member"
                               /\ m.id = d.resolution.member
                               /\ c = MemberCandidate(ExternalApproved, m)
    BY <1>3 DEF FromMember
  <2>2. d \in Range(ds) /\ ValidDecision(d) /\ d.type = "conflict_group"
    BY <2>1, <1>2, DecisionsFound DEF Undecided
  <2> HIDE DEF d
  <2>3. d.resolution # None
    BY <2>1, <2>2 DEF ValidDecision, GroupRules
  <2>4. m.id = EntryId(m.id.origin, d.seen.display, d.seen.normalized, d.seen.flags,
                       d.seen.morphology)
    BY <2>1, <2>2, <2>3, <1>2 DEF NamesWhatWasSeen
  <2>5. Identified(m.id, m.display, m) /\ m.normalized = NormalizeText(m.display)
    BY <1>1 DEF GoodQueues, GoodGroup
  <2>6. /\ c.display = m.display /\ c.normalized = m.normalized
        /\ c.flags = m.flags /\ c.morphology = m.morphology
    BY <2>1, <2>5 DEF MemberCandidate, Candidate
  <2>7. ReadsAs(c, d.seen)
    BY <2>4, <2>5, <2>6, IdentifierReads DEF ReadsAs
  <2> QED
    BY <2>1, <2>2, <2>7 DEF Approves
<1>4. ASSUME NEW g \in q.groups, FromReplacement(DecisionOnGroup(ds, q, g), g, c)
      PROVE  \E d \in Range(ds) : Approves(d, c)
  <2> DEFINE d == DecisionOnGroup(ds, q, g)
  <2>1. /\ d.status = "Approved" /\ d.resolution.kind = "replace_group"
        /\ c = Replaced(g.target, "hunspell", d.resolution.replacement,
                        [NoFields(<<>>) EXCEPT !.pos = NoPos])
    BY <1>4 DEF FromReplacement
  <2>2. d \in Range(ds) /\ d.type = "conflict_group"
    BY <2>1, <1>2, DecisionsFound DEF Undecided
  <2> HIDE DEF d
  <2>3. ReadsAs(c, ChangedTo(d.resolution.replacement, NoFields(<<>>)))
    BY <2>1 DEF ReadsAs, ChangedTo, Replaced, Candidate, NoFields
  <2> QED
    BY <2>1, <2>2, <2>3 DEF Approves
<1>5. ASSUME NEW e \in Items(q), FromEntry("reviewed", DecisionOnEntry(ds, q, e), e, c)
      PROVE  \E d \in Range(ds) : Approves(d, c)
  <2> DEFINE d == DecisionOnEntry(ds, q, e)
  <2>1. \/ d.status = "Approved"
             /\ c = Candidate(ExternalApproved, e.target, "hunspell", e.normalized, e)
        \/ d.status = "ApprovedWithMetadataChange"
             /\ c = Replaced(e.target, "hunspell", d.replacement, e)
    BY <1>5 DEF FromEntry
  <2>2. d \in Range(ds) /\ d.type = "entry" /\ d.target = e.target
    BY <2>1, <1>2, DecisionsFound DEF Undecided
  <2> HIDE DEF d
  <2>3. e.target = EntryId(e.target.origin, d.seen.display, d.seen.normalized, d.seen.flags,
                           d.seen.morphology)
    BY <2>2, <1>2 DEF NamesWhatWasSeen
  <2>4. /\ Compose(e.display) = Compose(d.seen.display)
        /\ NormalizeText(e.normalized) = NormalizeText(d.seen.normalized)
        /\ e.flags = d.seen.flags
        /\ BagOfSeq(e.morphology) = BagOfSeq(d.seen.morphology)
    <3>1. Identified(e.target, e.display, e)
      BY <1>1, ItemIdentified
    <3> QED
      BY <2>3, <3>1, IdentifierReads
  <2>5. CASE d.status = "Approved"
    <3>1. /\ c.display = e.display /\ c.normalized = e.normalized
          /\ c.flags = e.flags /\ c.morphology = e.morphology
      BY <2>1, <2>5 DEF Candidate
    <3> QED
      BY <2>2, <2>4, <2>5, <3>1 DEF Approves, ReadsAs
  <2>6. CASE d.status = "ApprovedWithMetadataChange"
    <3> DEFINE r == d.replacement
               changed == ChangedTo(r, d.seen)
    <3>1. /\ c.display = r.display /\ c.normalized = r.normalized
          /\ c.flags = Or(r.flags, e.flags) /\ c.morphology = Or(r.morphology, e.morphology)
      BY <2>1, <2>6 DEF Replaced, Candidate
    <3>2. /\ changed.display = r.display /\ changed.normalized = r.normalized
          /\ changed.flags = Or(r.flags, d.seen.flags)
          /\ changed.morphology = Or(r.morphology, d.seen.morphology)
      BY DEF ChangedTo
    <3>3. BagOfSeq(c.morphology) = BagOfSeq(changed.morphology)
      BY <3>1, <3>2, <2>4 DEF Or
    <3> HIDE DEF changed
    <3>4. ReadsAs(c, changed)
      BY <3>1, <3>2, <3>3, <2>4 DEF ReadsAs
    <3> QED
      BY <2>2, <2>6, <3>4 DEF Approves, changed
  <2> QED
    BY <2>1, <2>5, <2>6
<1> QED
  BY <1>1, <1>2, <1>3, <1>4, <1>5, HunspellFrom

\* Groups that have the forms of their members share none.
LEMMA GroupsShareNothing ==
  ASSUME NEW q, GoodQueues(q), NEW g \in q.groups, NEW h \in q.groups, NEW id,
         Belongs(id, g), Belongs(id, h), SoundGroup(g), SoundGroup(h)
  PROVE  h = g
<1>1. PICK m \in g.members, n \in h.members : m.id = id /\ n.id = id
  BY DEF Belongs
<1>2. /\ Identified(m.id, m.display, m) /\ Settled(m)
      /\ Identified(n.id, n.display, n) /\ Settled(n)
  BY DEF GoodQueues, GoodGroup
<1>3. NormalizeText(m.normalized) = NormalizeText(n.normalized)
  BY <1>1, <1>2 DEF Identified, EntryId
<1>4. g.normalized = h.normalized
  BY <1>2, <1>3 DEF Settled, SoundGroup
<1> QED
  BY <1>4 DEF GoodQueues

LEMMA FollowHolds == Inv => MembersFollowTheGroup
<1> DEFINE job == jobs["build"]
           ds == job.decisions
           q == job.queues
<1> SUFFICES ASSUME Inv, NEW pack \in Packs, Resolved(pack),
                    NEW c \in job.entries, c.source = "hunspell", c.target \in Consumed(q)
             PROVE  \E g \in q.groups :
                      /\ Belongs(c.target, g)
                      /\ LetsIn(pack, DecisionOnGroup(ds, q, g), c.target)
                      /\ \A h \in q.groups :
                           Belongs(c.target, h) /\ SoundGroup(g) /\ SoundGroup(h) => h = g
  BY DEF MembersFollowTheGroup
<1>1. /\ GoodQueues(q) /\ ds \in Range(DecisionFiles) /\ GroupsAccepted(q, ds)
      /\ job.entries = PackEntries(pack, Seed, q, ds, Kuwiki)
      /\ pack \in Packs \ {"seed"}
  BY ResolvedBuild
<1> HIDE DEF job, ds, q
<1>2. GoodDecisions(ds)
  BY <1>1, DecisionFilesType
<1>3. ASSUME NEW g \in q.groups, FromMember(pack, DecisionOnGroup(ds, q, g), g, c)
      PROVE  Belongs(c.target, g) /\ LetsIn(pack, DecisionOnGroup(ds, q, g), c.target)
  <2>1. PICK m \in g.members :
          LET d == DecisionOnGroup(ds, q, g)
          IN  /\ \E p : c = MemberCandidate(p, m)
              /\ \/ d.status = "Approved" /\ m.id = d.resolution.member
                 \/ pack = "experimental-full" /\ d.status \in {"ExperimentalOnly", "Unreviewed"}
    BY <1>3 DEF FromMember
  <2>2. c.target = m.id
    BY <2>1 DEF MemberCandidate, Candidate
  <2> QED
    BY <2>1, <2>2 DEF Belongs, LetsIn
<1>4. ASSUME NEW g \in q.groups, FromReplacement(DecisionOnGroup(ds, q, g), g, c)
      PROVE  FALSE
  <2>1. c.target = g.target
    BY <1>4 DEF FromReplacement, Replaced, Candidate
  <2>2. PICK h \in q.groups : \E m \in h.members : c.target = m.id
    BY DEF Consumed
  <2>3. \E origin, display, normalized, flags, morphology :
          c.target = EntryId(origin, display, normalized, flags, morphology)
    BY <2>2, <1>1 DEF GoodQueues, GoodGroup, Identified
  <2>4. \E normalized, ids : c.target = GroupId(normalized, ids)
    BY <2>1, <1>1 DEF GoodQueues, GoodGroup
  <2>5. "origin" \in DOMAIN c.target
    BY <2>3 DEF EntryId
  <2>6. DOMAIN c.target = {"normalized", "members"}
    BY <2>4 DEF GroupId
  <2> QED
    BY <2>5, <2>6
<1>5. ASSUME NEW e \in Items(q), FromEntry(pack, DecisionOnEntry(ds, q, e), e, c)
      PROVE  FALSE
  <2>1. c.target = e.target
    BY <1>5 DEF FromEntry, Replaced, Candidate
  <2> QED
    BY <2>1, <1>1, ItemIdentified
<1>6. PICK g \in q.groups : Belongs(c.target, g) /\ LetsIn(pack, DecisionOnGroup(ds, q, g), c.target)
  BY <1>1, <1>2, <1>3, <1>4, <1>5, HunspellFrom
<1> QED
  BY <1>1, <1>6, GroupsShareNothing

(***************************************************************************)
(* The properties of the audit and of the generator.                       *)
(***************************************************************************)
LEMMA AuditHoldsIt == Inv => OnlyUndecodableLinesFailTheAudit
<1> DEFINE job == jobs["audit"]
           file == Dictionary[job.inputs.dic]
<1> SUFFICES ASSUME Inv, NEW at \in {"failed", "park"}, At("audit", at),
                    job.inputs.imported = Import(file)
             PROVE  at = "failed" <=> BadUtf8 \in Range(file)
  BY DEF OnlyUndecodableLinesFailTheAudit
<1>1. AuditHolds(job) /\ job # Idle /\ job.at = at
  BY DEF Inv, JobsHold, At
<1> HIDE DEF job
<1>2. job.inputs.dic \in DOMAIN Dictionary /\ (at = "failed" <=> AuditFails(Import(file), file))
  BY <1>1 DEF AuditHolds
<1>3. file \in Files
  BY <1>2, DictionaryFiles
<1> HIDE DEF file
<1> QED
  BY <1>2, <1>3, AuditOutcome

\* The lines of a conflict of the dictionary have the form of the conflict.
LEMMA ConflictLinesOf ==
  ASSUME NEW file \in Files, NEW form, NEW n \in ConflictLines(Import(file).conflicts, form)
  PROVE  \E r \in Records(file) : r.line = n /\ r.normalized = form
<1>1. PICK p \in Pairs(file) : ConflictOf(p).normalized = form
                               /\ n \in {ConflictOf(p).a.line, ConflictOf(p).b.line}
  BY ImportIs DEF ConflictLines
<1>2. /\ p[1] \in Records(file) /\ p[2] \in Records(file)
      /\ p[1].normalized = p[2].normalized
  BY DEF Pairs, Later, Kept
<1>3. /\ p[1].normalized = form
      /\ n \in {p[1].line, p[2].line}
  BY <1>1 DEF ConflictOf
<1> QED
  BY <1>2, <1>3

LEMMA GroupsSound ==
  ASSUME NEW file \in Files, NEW revision, NEW r, NEW aud,
         r.conflicts = Import(file).conflicts
  PROVE  \A g \in GenerateQueues(revision, file, r, aud).groups : SoundGroup(g)
<1> SUFFICES ASSUME NEW g, NEW form,
                    g = ConflictGroup(revision, Replayed(file).parsed, Import(file).conflicts, form)
             PROVE  SoundGroup(g)
  BY QueuesAre
<1> DEFINE parsed == Replayed(file).parsed
           lines == ConflictLines(Import(file).conflicts, form)
<1>1. g.normalized = form /\ g.members = GroupMembers(revision, parsed, lines)
  BY DEF ConflictGroup
<1>2. ASSUME NEW r0 \in parsed, r0.line \in lines
      PROVE  r0.normalized = form
  <2>1. PICK k \in Records(file) : k.line = r0.line /\ k.normalized = form
    BY <1>2, ConflictLinesOf
  <2>2. PICK j \in AcceptedLines(file) : k = RecordOf(file[j], j)
    BY DEF Records
  <2>3. r0 = RecordOf(file[r0.line], r0.line)
    BY ReplayedType
  <2>4. j = r0.line
    BY <2>1, <2>2 DEF RecordOf
  <2> QED
    BY <2>1, <2>2, <2>3, <2>4
<1> HIDE DEF parsed, lines
<1>3. \A m \in GroupMembers(revision, parsed, lines) : m.normalized = form
  BY <1>2 DEF GroupMembers
<1> QED
  BY <1>1, <1>3 DEF SoundGroup

LEMMA SoundHolds == Inv => SoundGroups
<1> DEFINE job == jobs["queues"]
           file == Dictionary[job.inputs.source.dic]
<1> SUFFICES ASSUME Inv, At("queues", "park"),
                    job.inputs.imported.conflicts = Import(file).conflicts
             PROVE  \A g \in job.result.groups : SoundGroup(g)
  BY DEF SoundGroups
<1>1. QueuesHolds(job) /\ job # Idle /\ job.at = "park"
  BY DEF Inv, JobsHold, At
<1> HIDE DEF job
<1>2. /\ job.result = GenerateQueues(job.inputs.source.revision, file, job.inputs.imported,
                                     job.inputs.audit)
      /\ job.inputs.source.dic \in DOMAIN Dictionary
  BY <1>1 DEF QueuesHolds, QueuesDone, GoodSource
<1>3. file \in Files
  BY <1>2, DictionaryFiles
<1> HIDE DEF file
<1> QED
  BY <1>2, <1>3, GroupsSound

(***************************************************************************)
(* The counts the generator compares with those of the audit.              *)
(***************************************************************************)
LEMMA AuditIs ==
  ASSUME NEW imported, NEW file, NEW seed
  PROVE  LET a == Audit(imported, file, seed)
             found == SuspiciousEntries(imported.lexicon)
         IN  /\ a.summary.suspicious_entries = Cardinality(found)
             /\ a.summary.conflict_groups = Cardinality(ConflictForms(Replayed(file).parsed))
             /\ a.summary.rejected = imported.summary.rejected
             /\ a.summary.no_letters
                  = Cardinality({r \in imported.lexicon :
                                   ClassifyShape(r.word, r.normalized).no_letters})
<1> DEFINE L == imported.lexicon
           shape == [r \in L |-> ClassifyShape(r.word, r.normalized)]
           all == ShapeAnalysis(L)
<1>1. all.no_letters = Cardinality({r \in L : ClassifyShape(r.word, r.normalized).no_letters})
  <2>1. "no_letters" \in DOMAIN ClassifyShape(<<>>, <<>>)
    BY DEF ClassifyShape
  <2>2. all = [x \in DOMAIN ClassifyShape(<<>>, <<>>) |-> Cardinality({r \in L : shape[r][x]})]
    BY DEF ShapeAnalysis
  <2>3. all["no_letters"] = Cardinality({r \in L : shape[r]["no_letters"]})
    <3> HIDE DEF all, shape
    <3> QED BY <2>1, <2>2
  <2>4. {r \in L : shape[r]["no_letters"]}
          = {r \in L : ClassifyShape(r.word, r.normalized).no_letters}
    OBVIOUS
  <2> QED
    BY <2>3, <2>4
<1> HIDE DEF all
<1> QED
  BY <1>1 DEF Audit, AuditSummary, all

LEMMA AuditSuspects ==
  ASSUME NEW imported, NEW file, NEW seed, NEW x
  PROVE  x \in Audit(imported, file, seed).suspicious
           <=> \E e \in SuspiciousEntries(imported.lexicon) : x = <<e[2].word, e[2].normalized>>
BY DEF Audit

LEMMA AuditGroups ==
  ASSUME NEW imported, NEW file, NEW seed
  PROVE  Audit(imported, file, seed).summary.conflict_groups
           = Cardinality(ConflictForms(Replayed(file).parsed))
BY DEF Audit, AuditSummary

LEMMA AuditRejected ==
  ASSUME NEW imported, NEW file, NEW seed
  PROVE  Audit(imported, file, seed).summary.rejected = imported.summary.rejected
BY DEF Audit, AuditSummary

\* The queues the generator compares, and when a record is in them.
LEMMA QueuedWhen ==
  ASSUME NEW r, NEW a
  PROVE  LET shape == ClassifyShape(r.word, r.normalized)
             one == shape.punctuation_only \/ shape.symbol_only \/ shape.digit_only
         IN  /\ "suspicious" \in QueuesOf(r, a) <=> <<r.word, r.normalized>> \in a.suspicious
             /\ "punctuation_only" \in QueuesOf(r, a) <=> shape.punctuation_only
             /\ "symbol_only" \in QueuesOf(r, a) <=> shape.symbol_only
             /\ "digit_only" \in QueuesOf(r, a) <=> shape.digit_only
             /\ "no_letter" \in QueuesOf(r, a) <=> shape.no_letters /\ ~one
BY DEF QueuesOf

\* A word of one class of signs has no letter, and no other class.
LEMMA OneClass ==
  ASSUME NEW word, NEW normalized
  PROVE  LET shape == ClassifyShape(word, normalized)
         IN  /\ shape.punctuation_only => /\ shape.no_letters /\ ~shape.symbol_only
                                          /\ ~shape.digit_only
             /\ shape.symbol_only => shape.no_letters /\ ~shape.digit_only
             /\ shape.digit_only => shape.no_letters
<1> DEFINE classes == {Category[c] : c \in Chars(normalized)} \ Blanks
           only(set) == classes # {} /\ classes \subseteq set
           shape == ClassifyShape(word, normalized)
<1>1. /\ shape.punctuation_only = only(Punctuation)
      /\ shape.symbol_only = only(Symbols)
      /\ shape.digit_only = only(Numbers)
      /\ shape.no_letters = ~(classes \cap Letters # {})
  BY DEF ClassifyShape
<1> HIDE DEF classes, shape
<1>2. /\ Punctuation \cap Symbols = {} /\ Punctuation \cap Numbers = {}
      /\ Symbols \cap Numbers = {} /\ Punctuation \cap Letters = {}
      /\ Symbols \cap Letters = {} /\ Numbers \cap Letters = {}
  BY DEF Punctuation, Symbols, Numbers, Letters
<1> QED
  BY <1>1, <1>2 DEF shape

LEMMA DisjointCount ==
  ASSUME NEW S, NEW T, IsFiniteSet(S), IsFiniteSet(T), S \cap T = {}
  PROVE  /\ IsFiniteSet(S \cup T)
         /\ Cardinality(S \cup T) = Cardinality(S) + Cardinality(T)
<1>1. /\ Cardinality(S) \in Nat /\ Cardinality(T) \in Nat /\ Cardinality(S \cap T) = 0
  BY FS_CardinalityType, FS_EmptySet
<1>2. /\ IsFiniteSet(S \cup T)
      /\ Cardinality(S \cup T) = Cardinality(S) + Cardinality(T) - Cardinality(S \cap T)
  BY FS_Union
<1> QED
  BY <1>1, <1>2

LEMMA LettersCounted ==
  ASSUME NEW L, IsFiniteSet(L), NEW a
  PROVE  LET count(k) == Cardinality({r \in L : k \in QueuesOf(r, a)})
         IN  count("punctuation_only") + count("symbol_only") + count("digit_only")
               + count("no_letter")
               = Cardinality({r \in L : ClassifyShape(r.word, r.normalized).no_letters})
<1> DEFINE S(k) == {r \in L : k \in QueuesOf(r, a)}
           P == S("punctuation_only")
           Y == S("symbol_only")
           D == S("digit_only")
           N == S("no_letter")
           all == {r \in L : ClassifyShape(r.word, r.normalized).no_letters}
<1>1. /\ P \subseteq L /\ Y \subseteq L /\ D \subseteq L /\ N \subseteq L
      /\ all = ((P \cup Y) \cup D) \cup N
      /\ P \cap Y = {} /\ (P \cup Y) \cap D = {} /\ ((P \cup Y) \cup D) \cap N = {}
  BY QueuedWhen, OneClass
<1> HIDE DEF P, Y, D, N, all
<1>2. IsFiniteSet(P) /\ IsFiniteSet(Y) /\ IsFiniteSet(D) /\ IsFiniteSet(N)
  BY <1>1, FS_Subset
<1>3. IsFiniteSet(P \cup Y) /\ Cardinality(P \cup Y) = Cardinality(P) + Cardinality(Y)
  BY <1>1, <1>2, DisjointCount
<1>4. /\ IsFiniteSet((P \cup Y) \cup D)
      /\ Cardinality((P \cup Y) \cup D) = Cardinality(P \cup Y) + Cardinality(D)
  BY <1>1, <1>2, <1>3, DisjointCount
<1>5. Cardinality(all) = Cardinality((P \cup Y) \cup D) + Cardinality(N)
  BY <1>1, <1>2, <1>4, DisjointCount
<1>6. Cardinality(all) = Cardinality(P) + Cardinality(Y) + Cardinality(D) + Cardinality(N)
  BY <1>3, <1>4, <1>5
<1> QED
  BY <1>6 DEF P, Y, D, N, all

\* A queue has one record for each record of the lexicon that is in it.
LEMMA EntriesCounted ==
  ASSUME NEW revision, NEW file, NEW r, GoodReports(r), NEW a, NEW k \in EntryQueues
  PROVE  Cardinality(GenerateQueues(revision, file, r, a).entries[k])
           = Cardinality({e \in r.lexicon : k \in QueuesOf(e, a)})
<1> DEFINE S == {e \in r.lexicon : k \in QueuesOf(e, a)}
           f == [e \in S |-> QueueRecord(revision, k, e, r.lexicon, a)]
<1>1. /\ IsFiniteSet(r.lexicon)
      /\ \A e \in r.lexicon : RecordType(e)
      /\ \A e, g \in r.lexicon : e.line = g.line => e = g
  BY LexiconType
<1>2. S \subseteq r.lexicon
  OBVIOUS
<1>3. DOMAIN f = S /\ {f[e] : e \in DOMAIN f} = GenerateQueues(revision, file, r, a).entries[k]
  <2>1. GenerateQueues(revision, file, r, a).entries[k]
          = {QueueRecord(revision, k, e, r.lexicon, a) : e \in S}
    BY QueuesAre
  <2>2. DOMAIN f = S /\ \A e \in S : f[e] = QueueRecord(revision, k, e, r.lexicon, a)
    OBVIOUS
  <2> HIDE DEF S, f
  <2> QED
    BY <2>1, <2>2
<1>4. \A e \in S : f[e].line = e.line
  BY <1>1, QueueRecordIs
<1> HIDE DEF S, f
<1>5. \A e, g \in DOMAIN f : f[e] = f[g] => e = g
  BY <1>1, <1>2, <1>3, <1>4
<1>6. IsFiniteSet(S)
  BY <1>1, <1>2, FS_Subset
<1> QED
  BY <1>3, <1>5, <1>6, ImageCardinality DEF S

Reasons == {"PUNCTUATION_ONLY", "SYMBOL_ONLY", "DIGIT_ONLY", "NO_LETTERS", "MIXED_SCRIPT",
            "VERY_LONG", "RARE_CODEPOINT"}

LEMMA ReasonsAre ==
  /\ IsFiniteSet(Reasons)
  /\ \A L, r : SuspicionsOf(L, r) \subseteq Reasons
<1> DEFINE f == <<"PUNCTUATION_ONLY", "SYMBOL_ONLY", "DIGIT_ONLY", "NO_LETTERS", "MIXED_SCRIPT",
                  "VERY_LONG", "RARE_CODEPOINT">>
<1>1. PICK n \in Int : n = 7
  OBVIOUS
<1>2. DOMAIN f = 1..n /\ {f[i] : i \in 1..n} = Reasons
  BY <1>1 DEF Reasons
<1>3. IsFiniteSet(1..n)
  BY FS_Interval
<1>4. IsFiniteSet(Reasons)
  <2> HIDE DEF f
  <2> QED BY <1>2, <1>3, FiniteImage
<1>5. \A L, r : SuspicionsOf(L, r) \subseteq Reasons
  BY DEF SuspicionsOf, Reasons
<1> QED
  BY <1>4, <1>5

LEMMA MoreThanOne ==
  ASSUME NEW S, IsFiniteSet(S)
  PROVE  Cardinality(S) > 1 <=> \E x, y \in S : x # y
<1>1. Cardinality(S) \in Nat
  BY FS_CardinalityType
<1>2. Cardinality(S) = 0 <=> S = {}
  BY FS_EmptySet
<1>3. Cardinality(S) = 1 <=> \E x : S = {x}
  BY FS_Singleton
<1>4. (\E x, y \in S : x # y) <=> S # {} /\ ~\E x : S = {x}
  OBVIOUS
<1> QED
  BY <1>1, <1>2, <1>3, <1>4

\* The audit has an entry for each reason, the queue one for each record.
LEMMA SuspicionsCounted ==
  ASSUME NEW r, GoodReports(r), NEW file, NEW seed
  PROVE  LET L == r.lexicon
             a == Audit(r, file, seed)
         IN  Cardinality({e \in L : "suspicious" \in QueuesOf(e, a)})
               = a.summary.suspicious_entries
               <=> \A e \in L : ~(Cardinality(SuspicionsOf(L, e)) > 1)
<1> DEFINE L == r.lexicon
           a == Audit(r, file, seed)
           E == SuspiciousEntries(L)
           S == {e \in L : "suspicious" \in QueuesOf(e, a)}
           f == [p \in E |-> p[2]]
<1>1. IsFiniteSet(L) /\ \A e, g \in L : e.normalized = g.normalized => e = g
  BY LexiconType
<1>2. \A p : p \in E <=> \E e \in L : \E reason \in SuspicionsOf(L, e) : p = <<reason, e>>
  <2> HIDE DEF L
  <2> QED
    BY DEF SuspiciousEntries
<1>3. \A x : x \in a.suspicious <=> \E e \in E : x = <<e[2].word, e[2].normalized>>
  BY AuditSuspects
<1>13. a.summary.suspicious_entries = Cardinality(E)
  BY AuditIs
<1>4. S \subseteq L /\ \A e \in L : e \in S <=> <<e.word, e.normalized>> \in a.suspicious
  BY QueuedWhen
<1> HIDE DEF L, a, E, S
<1>5. \A e \in L : e \in S <=> \E p \in E : p[2] = e
  <2>1. \A p \in E : p[2] \in L
    BY <1>2
  <2>2. ASSUME NEW e \in L, NEW p \in E, <<e.word, e.normalized>> = <<p[2].word, p[2].normalized>>
        PROVE  p[2] = e
    <3>1. e.normalized = p[2].normalized
      BY <2>2
    <3> QED
      BY <2>1, <3>1, <1>1
  <2>3. ASSUME NEW e \in L, e \in S PROVE \E p \in E : p[2] = e
    <3>1. PICK p \in E : <<e.word, e.normalized>> = <<p[2].word, p[2].normalized>>
      BY <2>3, <1>3, <1>4
    <3> QED
      BY <3>1, <2>2
  <2>4. ASSUME NEW p \in E PROVE p[2] \in S
    <3>1. <<p[2].word, p[2].normalized>> \in a.suspicious
      BY <1>3
    <3> QED
      BY <2>1, <3>1, <1>4
  <2> QED
    BY <2>3, <2>4
<1>6. IsFiniteSet(E)
  <2>1. IsFiniteSet(Reasons \X L)
    BY <1>1, ReasonsAre, FS_Product
  <2>2. E \subseteq Reasons \X L
    BY <1>2, ReasonsAre
  <2> QED
    BY <2>1, <2>2, FS_Subset
<1>7. f \in Surjection(E, S)
  <2>1. \A p \in E : p[2] \in S
    BY <1>2, <1>5
  <2>2. \A e \in S : \E p \in E : p[2] = e
    BY <1>4, <1>5
  <2> QED
    BY <2>1, <2>2 DEF Surjection
<1>8. Cardinality(S) = Cardinality(E) <=> f \in Injection(E, S)
  <2> HIDE DEF f
  <2> QED
    BY <1>6, <1>7, FS_Surjection
<1>9. f \in Injection(E, S) <=> \A p, q \in E : p[2] = q[2] => p = q
  <2>1. f \in [E -> S] /\ \A p \in E : f[p] = p[2]
    BY <1>7 DEF Surjection
  <2> HIDE DEF f
  <2> QED
    BY <2>1 DEF Injection, IsInjective
<1>10. \A e \in L : Cardinality(SuspicionsOf(L, e)) > 1
                      <=> \E x, y \in SuspicionsOf(L, e) : x # y
  BY ReasonsAre, FS_Subset, MoreThanOne
<1>11. (\A p, q \in E : p[2] = q[2] => p = q)
         <=> \A e \in L : \A x, y \in SuspicionsOf(L, e) : x = y
  <2>1. ASSUME \A p, q \in E : p[2] = q[2] => p = q,
               NEW e \in L, NEW x \in SuspicionsOf(L, e), NEW y \in SuspicionsOf(L, e)
        PROVE  x = y
    <3>1. <<x, e>> \in E /\ <<y, e>> \in E
      BY <1>2
    <3>2. <<x, e>> = <<y, e>>
      BY <2>1, <3>1
    <3> QED
      BY <3>2
  <2>2. ASSUME \A e \in L : \A x, y \in SuspicionsOf(L, e) : x = y,
               NEW p \in E, NEW q \in E, p[2] = q[2]
        PROVE  p = q
    BY <2>2, <1>2
  <2> QED
    BY <2>1, <2>2
<1>12. Cardinality(S) = a.summary.suspicious_entries
         <=> \A e \in L : ~(Cardinality(SuspicionsOf(L, e)) > 1)
  BY <1>13, <1>8, <1>9, <1>10, <1>11
<1> QED
  BY <1>12 DEF L, a, S

\* One group for each form the audit finds in conflict, when both read the same lines.
LEMMA GroupsCounted ==
  ASSUME NEW v \in DOMAIN Dictionary, NEW revision, NEW a,
         BadLines(Dictionary[v]) = {}
  PROVE  Cardinality(GenerateQueues(revision, Dictionary[v], Import(Dictionary[v]), a).groups)
           = Cardinality(ConflictForms(Replayed(Dictionary[v]).parsed))
<1> DEFINE file == Dictionary[v]
           R == Records(file)
           conflicts == Import(file).conflicts
           C == ConflictForms(R)
           group(form) == ConflictGroup(revision, Replayed(file).parsed, conflicts, form)
           f == [form \in C |-> group(form)]
           groups == GenerateQueues(revision, file, Import(file), a).groups
<1>0. file \in Files
  BY DictionaryFiles
<1>1. Replayed(file).parsed = R
  BY <1>0, ReplayAgrees
<1>2. \A form : form \in C <=> \E c \in conflicts : c.normalized = form
  <2>1. \A form : form \in C <=> \E r \in R \ Kept(file) :
                                    r.normalized = form /\ ~Same(First(file, r), r)
    <3>1. ConflictingRecords(R) = {r \in R \ Kept(file) : ~Same(First(file, r), r)}
      BY <1>0, ConflictingAre
    <3>2. \A form : \A r : r \in Conflicting(R, form) => r \in R /\ r.normalized = form
      BY DEF Conflicting, Additional, ByForm
    <3>3. \A r \in R : r.normalized \in Forms(R)
      BY DEF Forms
    <3> HIDE DEF R
    <3>4. \A form : form \in C <=> form \in Forms(R) /\ Conflicting(R, form) # {}
      BY DEF ConflictForms
    <3>5. \A r : r \in ConflictingRecords(R) <=> \E form \in Forms(R) : r \in Conflicting(R, form)
      BY DEF ConflictingRecords
    <3>6. ASSUME NEW form \in C
          PROVE  \E r \in R \ Kept(file) : r.normalized = form /\ ~Same(First(file, r), r)
      BY <3>1, <3>2, <3>4, <3>5, <3>6
    <3>7. ASSUME NEW r \in R \ Kept(file), ~Same(First(file, r), r)
          PROVE  r.normalized \in C
      <4>1. PICK form \in Forms(R) : r \in Conflicting(R, form)
        BY <3>1, <3>5, <3>7
      <4> QED
        BY <4>1, <3>2, <3>4
    <3> QED
      BY <3>6, <3>7
  <2>2. conflicts = {ConflictOf(p) : p \in Pairs(file)}
    BY <1>0, ImportIs
  <2>3. \A p : ConflictOf(p).normalized = p[1].normalized
    BY DEF ConflictOf
  <2>4. \A p \in Pairs(file) : /\ p[2] \in R \ Kept(file) /\ p[1] \in Kept(file)
                               /\ p[1].normalized = p[2].normalized /\ ~Same(p[1], p[2])
    BY DEF Pairs, Later
  <2>5. \A p \in Pairs(file) : p[1] = First(file, p[2])
    BY <2>4, <1>0, FirstIsKept
  <2>6. ASSUME NEW r \in R \ Kept(file), ~Same(First(file, r), r)
        PROVE  /\ <<First(file, r), r>> \in Pairs(file)
               /\ First(file, r).normalized = r.normalized
    BY <2>6, <1>0, FirstIsKept DEF Pairs, Later
  <2> HIDE DEF file, R, C, conflicts
  <2>7. ASSUME NEW form, NEW r \in R \ Kept(file), r.normalized = form, ~Same(First(file, r), r)
        PROVE  \E c \in conflicts : c.normalized = form
    <3> DEFINE p == <<First(file, r), r>>
    <3>1. p \in Pairs(file) /\ p[1].normalized = form
      BY <2>6, <2>7
    <3> HIDE DEF p
    <3>2. ConflictOf(p) \in conflicts /\ ConflictOf(p).normalized = form
      BY <3>1, <2>2, <2>3
    <3> QED
      BY <3>2
  <2>8. ASSUME NEW c \in conflicts
        PROVE  \E r \in R \ Kept(file) : r.normalized = c.normalized /\ ~Same(First(file, r), r)
    <3>1. PICK p \in Pairs(file) : c = ConflictOf(p)
      BY <2>2
    <3> QED
      BY <3>1, <2>3, <2>4, <2>5
  <2> QED
    BY <2>1, <2>7, <2>8
<1>3. \A x : x \in groups <=> \E c \in conflicts : x = group(c.normalized)
  BY QueuesAre
<1>4. \A form : group(form).normalized = form
  BY DEF ConflictGroup
<1>5. IsFiniteSet(C)
  <2> DEFINE g == [c \in conflicts |-> c.normalized]
  <2>1. IsFiniteSet(conflicts)
    BY ImportIsGood, ConflictsType
  <2>2. DOMAIN g = conflicts /\ {g[c] : c \in DOMAIN g} = C
    <3> HIDE DEF C, conflicts
    <3> QED BY <1>2
  <2> HIDE DEF g
  <2> QED
    BY <2>1, <2>2, FiniteImage
<1> HIDE DEF file, R, conflicts, C, groups, group
<1>6. DOMAIN f = C /\ {f[form] : form \in DOMAIN f} = groups
  BY <1>2, <1>3
<1>7. \A x, y \in DOMAIN f : f[x] = f[y] => x = y
  BY <1>4
<1> HIDE DEF f
<1>8. Cardinality(groups) = Cardinality(C)
  BY <1>5, <1>6, <1>7, ImageCardinality
<1> QED
  BY <1>1, <1>8 DEF file, groups, C, R, conflicts

LEMMA RejectionsCounted ==
  ASSUME NEW v \in DOMAIN Dictionary, NEW revision, NEW a
  PROVE  LET reports0 == Import(Dictionary[v])
         IN  Cardinality(GenerateQueues(revision, Dictionary[v], reports0, a).rejections)
               = reports0.summary.rejected
<1> DEFINE file == Dictionary[v]
           J == Import(file).rejected
           f == [j \in J |-> RejectionRecord(revision, j)]
           rejections == GenerateQueues(revision, file, Import(file), a).rejections
<1>1. J = {RejectionOf(file[i], i) : i \in RefusedLines(file)}
      /\ Import(file).summary.rejected = Cardinality(J)
  BY DictionaryFiles, ImportIs
<1>2. IsFiniteSet(J)
  BY ImportIsGood, RejectedType
<1>3. \A x : x \in rejections <=> \E j \in J : x = RejectionRecord(revision, j)
  BY QueuesAre
<1>4. \A j, k \in J : j.line = k.line => j = k
  BY <1>1 DEF RejectionOf
<1>5. \A j : RejectionRecord(revision, j).line = j.line
  BY DEF RejectionRecord
<1> HIDE DEF J, rejections
<1>6. DOMAIN f = J /\ {f[j] : j \in DOMAIN f} = rejections
  BY <1>3
<1>7. \A x, y \in DOMAIN f : f[x] = f[y] => x = y
  BY <1>4, <1>5
<1> HIDE DEF f
<1>8. Cardinality(rejections) = Cardinality(J)
  BY <1>2, <1>6, <1>7, ImageCardinality
<1> QED
  BY <1>1, <1>8 DEF rejections

\* The import's own dictionary has the lines of its conflicts, and no two identifiers agree.
LEMMA NothingElseRefused ==
  ASSUME NEW v \in DOMAIN Dictionary, NEW revision, BadLines(Dictionary[v]) = {}
  PROVE  LET r == Import(Dictionary[v])
         IN  /\ MembersFound(Replayed(Dictionary[v]).parsed, r.conflicts)
             /\ ~(Cardinality({RecordId(revision, e) : e \in r.lexicon}) < Cardinality(r.lexicon))
<1> DEFINE file == Dictionary[v]
           L == Import(file).lexicon
           f == [e \in L |-> RecordId(revision, e)]
<1>1. file \in Files /\ Replayed(file).parsed = Records(file)
  BY DictionaryFiles, ReplayAgrees
<1>2. MembersFound(Replayed(file).parsed, Import(file).conflicts)
  <2>1. SUFFICES ASSUME NEW p \in Pairs(file)
                 PROVE  {ConflictOf(p).a.line, ConflictOf(p).b.line}
                          \subseteq {r.line : r \in Records(file)}
    BY <1>1, ImportIs DEF MembersFound
  <2>2. p[1] \in Records(file) /\ p[2] \in Records(file)
    BY DEF Pairs, Later, Kept
  <2>3. ConflictOf(p).a.line = p[1].line /\ ConflictOf(p).b.line = p[2].line
    BY DEF ConflictOf
  <2> HIDE DEF file
  <2> QED
    BY <2>2, <2>3
<1>3. /\ IsFiniteSet(L) /\ \A e \in L : Settled(e)
      /\ \A e, g \in L : e.normalized = g.normalized => e = g
  BY ImportIsGood, LexiconType
<1>4. \A e, g \in L : RecordId(revision, e) = RecordId(revision, g) => e = g
  BY <1>3 DEF RecordId, EntryId, Settled
<1> HIDE DEF L
<1>5. DOMAIN f = L /\ {f[e] : e \in DOMAIN f} = {RecordId(revision, e) : e \in L}
  OBVIOUS
<1>6. \A x, y \in DOMAIN f : f[x] = f[y] => x = y
  BY <1>4
<1> HIDE DEF f
<1>7. Cardinality({RecordId(revision, e) : e \in L}) = Cardinality(L)
  BY <1>3, <1>5, <1>6, ImageCardinality
<1>8. Cardinality(L) \in Nat
  BY <1>3, FS_CardinalityType
<1> QED
  BY <1>2, <1>7, <1>8 DEF L

\* Only a word that is suspicious for two reasons makes the counts differ.
LEMMA QueuesOutcome ==
  ASSUME NEW v \in DOMAIN Dictionary, NEW revision,
         ~AuditFails(Import(Dictionary[v]), Dictionary[v])
  PROVE  LET r == Import(Dictionary[v])
         IN  QueuesFail(revision, Dictionary[v], r, Audit(r, Dictionary[v], Seed))
               <=> \E e \in r.lexicon : Cardinality(SuspicionsOf(r.lexicon, e)) > 1
<1> DEFINE file == Dictionary[v]
           r == Import(file)
           a == Audit(r, file, Seed)
           q == GenerateQueues(revision, file, r, a)
           s == a.summary
           count(k) == Cardinality(q.entries[k])
           twofold == \E e \in r.lexicon : Cardinality(SuspicionsOf(r.lexicon, e)) > 1
<1>1. BadLines(file) = {}
  BY DictionaryFiles, AuditOutcome DEF BadLines, Range
<1>2. GoodReports(r)
  BY ImportIsGood
<1>3. count("suspicious") = s.suspicious_entries <=> ~twofold
  <2>1. "suspicious" \in EntryQueues
    BY DEF EntryQueues
  <2>2. count("suspicious") = Cardinality({e \in r.lexicon : "suspicious" \in QueuesOf(e, a)})
    BY <1>2, <2>1, EntriesCounted
  <2>3. Cardinality({e \in r.lexicon : "suspicious" \in QueuesOf(e, a)}) = s.suspicious_entries
          <=> \A e \in r.lexicon : ~(Cardinality(SuspicionsOf(r.lexicon, e)) > 1)
    BY <1>2, SuspicionsCounted
  <2> HIDE DEF r, a, q, s
  <2> QED
    BY <2>2, <2>3
<1>4. Cardinality(q.groups) = s.conflict_groups
  <2>1. Cardinality(q.groups) = Cardinality(ConflictForms(Replayed(file).parsed))
    BY <1>1, GroupsCounted
  <2>2. s.conflict_groups = Cardinality(ConflictForms(Replayed(file).parsed))
    <3> HIDE DEF file, r
    <3> QED BY AuditGroups
  <2> QED
    BY <2>1, <2>2
<1>5. Cardinality(q.rejections) = s.rejected
  <2>1. Cardinality(q.rejections) = r.summary.rejected
    BY RejectionsCounted
  <2>2. s.rejected = r.summary.rejected
    <3> HIDE DEF file, r
    <3> QED BY AuditRejected
  <2> QED
    BY <2>1, <2>2
<1>6. count("punctuation_only") + count("symbol_only") + count("digit_only") + count("no_letter")
        = s.no_letters
  <2> DEFINE size(k) == Cardinality({e \in r.lexicon : k \in QueuesOf(e, a)})
  <2>1. {"punctuation_only", "symbol_only", "digit_only", "no_letter"} \subseteq EntryQueues
    BY DEF EntryQueues
  <2>2. /\ count("punctuation_only") = size("punctuation_only")
        /\ count("symbol_only") = size("symbol_only")
        /\ count("digit_only") = size("digit_only")
        /\ count("no_letter") = size("no_letter")
    BY <1>2, <2>1, EntriesCounted
  <2>3. IsFiniteSet(r.lexicon)
    BY <1>2, LexiconType
  <2>4. size("punctuation_only") + size("symbol_only") + size("digit_only") + size("no_letter")
          = Cardinality({e \in r.lexicon : ClassifyShape(e.word, e.normalized).no_letters})
    BY <2>3, LettersCounted
  <2>5. s.no_letters = Cardinality({e \in r.lexicon : ClassifyShape(e.word, e.normalized).no_letters})
    BY AuditIs
  <2> HIDE DEF count, size, r, a, s
  <2> QED
    BY <2>2, <2>4, <2>5
<1>7. /\ MembersFound(Replayed(file).parsed, r.conflicts)
      /\ ~(Cardinality({RecordId(revision, e) : e \in r.lexicon}) < Cardinality(r.lexicon))
  BY <1>1, NothingElseRefused
<1>8. CountsAgree(q, s) <=> /\ count("suspicious") = s.suspicious_entries
                            /\ Cardinality(q.groups) = s.conflict_groups
                            /\ Cardinality(q.rejections) = s.rejected
                            /\ count("punctuation_only") + count("symbol_only")
                                 + count("digit_only") + count("no_letter") = s.no_letters
  <2> HIDE DEF q, s
  <2> QED
    BY DEF CountsAgree
<1>9. QueuesFail(revision, file, r, a) <=>
        \/ ~MembersFound(Replayed(file).parsed, r.conflicts)
        \/ Cardinality({RecordId(revision, e) : e \in r.lexicon}) < Cardinality(r.lexicon)
        \/ ~CountsAgree(q, s)
  <2> HIDE DEF r, a, file
  <2> QED
    BY DEF QueuesFail
<1> HIDE DEF file, r, a, q, s, count, twofold
<1>10. QueuesFail(revision, file, r, a) <=> twofold
  BY <1>3, <1>4, <1>5, <1>6, <1>7, <1>8, <1>9
<1> QED
  BY <1>10 DEF file, r, a, twofold

LEMMA TwofoldHolds == Inv => OnlyTwofoldSuspicionFailsQueues
<1> DEFINE job == jobs["queues"]
           inputs == job.inputs
           file == Dictionary[inputs.source.dic]
           words == inputs.imported.lexicon
<1> SUFFICES ASSUME Inv, NEW at \in {"failed", "park"}, At("queues", at),
                    inputs.imported = Import(file),
                    inputs.audit # Missing,
                    inputs.audit = Audit(inputs.imported, file, Seed),
                    ~AuditFails(inputs.imported, file)
             PROVE  at = "failed" <=> \E r \in words : Cardinality(SuspicionsOf(words, r)) > 1
  BY DEF OnlyTwofoldSuspicionFailsQueues
<1>1. QueuesHolds(job) /\ job # Idle /\ job.at = at
  BY DEF Inv, JobsHold, At
<1> HIDE DEF job
<1>2. QueuesDone(at, inputs)
  BY <1>1 DEF QueuesHolds
<1>3. inputs.source.dic \in DOMAIN Dictionary
  BY <1>2 DEF QueuesDone, GoodSource
<1>4. at = "failed" <=> QueuesFail(inputs.source.revision, file, inputs.imported, inputs.audit)
  BY <1>2 DEF QueuesDone
<1> HIDE DEF inputs
<1> QED
  BY <1>3, <1>4, QueuesOutcome

(***************************************************************************)
(* The offers of a vocabulary batch.  The ranking is a strict total order  *)
(* of the pool, so that an offer is an entry of the pool.                  *)
(***************************************************************************)
Clean(flags, e) == IF e.target \notin flags THEN 1 ELSE 0
Documents(e)    == CorpusOf(e.normalized)[1]
Tokens(e)       == CorpusOf(e.normalized)[2]

LEMMA CorpusType ==
  ASSUME NEW e
  PROVE  /\ Documents(e) \in Nat /\ Tokens(e) \in Nat
         /\ CorpusOf(e.normalized) = <<Documents(e), Tokens(e)>>
<1>1. CorpusOf(e.normalized) \in Nat \X Nat
  BY SourcesAssumption DEF CorpusOf
<1> QED
  BY <1>1 DEF Documents, Tokens

LEMMA RankedBeforeIs ==
  ASSUME NEW flags, NEW e, NEW f
  PROVE  RankedBefore(flags, e, f) <=>
           \/ Clean(flags, e) > Clean(flags, f)
           \/ /\ Clean(flags, e) = Clean(flags, f)
              /\ \/ Documents(e) > Documents(f)
                 \/ /\ Documents(e) = Documents(f)
                    /\ \/ Tokens(e) > Tokens(f)
                       \/ Tokens(e) = Tokens(f) /\ e.line < f.line
<1> DEFINE key(x) == <<IF x.target \notin flags THEN 1 ELSE 0>> \o CorpusOf(x.normalized)
<1>1. ASSUME NEW x PROVE key(x) = <<Clean(flags, x), Documents(x), Tokens(x)>>
  <2>1. Clean(flags, x) \in Nat
    BY DEF Clean
  <2>2. ASSUME NEW a \in Nat, NEW b \in Nat, NEW c \in Nat
        PROVE  <<a>> \o <<b, c>> = <<a, b, c>>
    <3> DEFINE s == <<a>> \o <<b, c>>
    <3>1. /\ <<a>> \in Seq(Nat) /\ Len(<<a>>) = 1
          /\ <<b, c>> \in Seq(Nat) /\ Len(<<b, c>>) = 2
      OBVIOUS
    <3>2. s \in Seq(Nat) /\ Len(s) = 3
      BY <3>1
    <3>3. s[1] = a /\ s[2] = b /\ s[3] = c
      BY <3>1
    <3> HIDE DEF s
    <3>4. s = <<a, b, c>>
      BY <3>2, <3>3
    <3> QED
      BY <3>4 DEF s
  <2> QED
    BY <2>1, <2>2, CorpusType DEF Clean
<1>2. RankedBefore(flags, e, f) <=>
        \/ \E k \in 1..3 : /\ key(e)[k] > key(f)[k]
                           /\ \A j \in 1..(k - 1) : key(e)[j] = key(f)[j]
        \/ key(e) = key(f) /\ e.line < f.line
  BY DEF RankedBefore
<1>3. 1..(1 - 1) = {} /\ 1..(2 - 1) = {1} /\ 1..(3 - 1) = {1, 2} /\ 1..3 = {1, 2, 3}
  OBVIOUS
<1> HIDE DEF key
<1>4. /\ key(e)[1] = Clean(flags, e) /\ key(e)[2] = Documents(e) /\ key(e)[3] = Tokens(e)
      /\ key(f)[1] = Clean(flags, f) /\ key(f)[2] = Documents(f) /\ key(f)[3] = Tokens(f)
      /\ key(e) = key(f) <=> /\ Clean(flags, e) = Clean(flags, f)
                             /\ Documents(e) = Documents(f) /\ Tokens(e) = Tokens(f)
  BY <1>1
<1> DEFINE more(k) == /\ key(e)[k] > key(f)[k]
                      /\ \A j \in 1..(k - 1) : key(e)[j] = key(f)[j]
<1>5. /\ more(1) <=> Clean(flags, e) > Clean(flags, f)
      /\ more(2) <=> /\ Clean(flags, e) = Clean(flags, f)
                     /\ Documents(e) > Documents(f)
      /\ more(3) <=> /\ Clean(flags, e) = Clean(flags, f)
                     /\ Documents(e) = Documents(f)
                     /\ Tokens(e) > Tokens(f)
  BY <1>3, <1>4
<1>6. (\E k \in 1..3 : more(k)) <=> more(1) \/ more(2) \/ more(3)
  <2> HIDE DEF more
  <2> QED BY <1>3
<1> QED
  BY <1>2, <1>4, <1>5, <1>6

LEMMA RankingIsTotal ==
  ASSUME NEW flags, NEW S, \A e \in S : e.line \in Nat,
         \A e, f \in S : e.line = f.line => e = f
  PROVE  StrictTotalOrder({p \in S \X S : RankedBefore(flags, p[1], p[2])}, S)
<1> DEFINE R == {p \in S \X S : RankedBefore(flags, p[1], p[2])}
<1>1. \A e, f \in S : <<e, f>> \in R <=> RankedBefore(flags, e, f)
  OBVIOUS
<1>2. \A e : Clean(flags, e) \in Nat /\ Documents(e) \in Nat /\ Tokens(e) \in Nat
  BY CorpusType DEF Clean
<1>3. \A e \in S : ~RankedBefore(flags, e, e)
  BY <1>2, RankedBeforeIs
<1>4. \A e, f, g \in S : RankedBefore(flags, e, f) /\ RankedBefore(flags, f, g)
                            => RankedBefore(flags, e, g)
  BY <1>2, RankedBeforeIs
<1>5. \A e, f \in S : e = f \/ RankedBefore(flags, e, f) \/ RankedBefore(flags, f, e)
  BY <1>2, RankedBeforeIs
<1> HIDE DEF R
<1>6. StrictTotalOrder(R, S)
  BY <1>1, <1>3, <1>4, <1>5 DEF StrictTotalOrder
<1> QED
  BY <1>6 DEF R

LEMMA OffersAreOfThePool ==
  ASSUME NEW pool, IsFiniteSet(pool), \A e \in pool : e.line \in Nat,
         \A e, f \in pool : e.line = f.line => e = f,
         NEW decided, NEW flags, NEW o \in Range(Offers(pool, decided, flags))
  PROVE  o \in pool
<1> DEFINE S == {e \in pool : e.target \notin decided}
           R == {p \in S \X S : RankedBefore(flags, p[1], p[2])}
           n == Cardinality(S)
           at(k) == CHOOSE x \in S : Cardinality({y \in S : RankedBefore(flags, y, x)}) = k - 1
           ranked == [k \in 1..n |-> at(k)]
           size == IF Len(ranked) < BatchSize THEN Len(ranked) ELSE BatchSize
<1>1. IsFiniteSet(S) /\ S \subseteq pool
  BY FS_Subset
<1>2. StrictTotalOrder(R, S)
  <2>1. (\A e \in S : e.line \in Nat) /\ (\A e, f \in S : e.line = f.line => e = f)
    BY <1>1
  <2> HIDE DEF S
  <2> QED
    BY <2>1, RankingIsTotal
<1>3. \A x \in S : SetLessThan(x, R, S) = {y \in S : RankedBefore(flags, y, x)}
  BY DEF SetLessThan
<1>4. /\ n \in Nat
      /\ \A k \in 1..n : \E x \in S : Cardinality(SetLessThan(x, R, S)) = k - 1
  <2> HIDE DEF S, R
  <2> QED BY <1>1, <1>2, RanksExist
<1>5. \A k \in 1..n : at(k) \in S
  <2> SUFFICES ASSUME NEW k \in 1..n
               PROVE  \E x \in S : Cardinality({y \in S : RankedBefore(flags, y, x)}) = k - 1
    OBVIOUS
  <2>1. PICK x \in S : Cardinality(SetLessThan(x, R, S)) = k - 1
    BY <1>4
  <2> HIDE DEF S, R
  <2> QED
    BY <2>1, <1>3
<1>6. Offers(pool, decided, flags) = SubSeq(ranked, 1, size)
  BY DEF Offers, Ranked
<1> HIDE DEF S, R, n, at
<1>7. ranked \in Seq(S) /\ Len(ranked) = n
  BY <1>4, <1>5
<1> HIDE DEF ranked
<1>8. size \in Nat /\ size <= Len(ranked)
  BY <1>4, <1>7, PipelineAssumption
<1> HIDE DEF size
<1>9. SubSeq(ranked, 1, size) \in Seq(S)
  BY <1>7, <1>8
<1>10. o \in S
  BY <1>6, <1>9 DEF Range
<1> QED
  BY <1>1, <1>10

\* A word without hyphen or apostrophe is its own stripped form.
LEMMA NothingStripped ==
  ASSUME NEW w \in Words, ~Held(w)
  PROVE  PunctuationStrippedForm(w) = w
<1>1. \A i \in DOMAIN w : w[i] \notin WordInternalPunctuation
  BY DEF Held, WordPunctuationChars, Chars, Words
<1>2. {i \in DOMAIN w : w[i] \notin WordInternalPunctuation} = DOMAIN w
  BY <1>1
<1> QED
  BY <1>2, SublistOfAll DEF PunctuationStrippedForm, Words

\* The words of the seed satisfy both policies, and no two of them collide.
LEMMA SeedAccepted ==
  /\ \A c \in SeedCandidates(Seed) : /\ c.normalized \in Words
                                     /\ Eligible(c.normalized) /\ ~Held(c.normalized)
                                     /\ c.population = ManualSeed
  /\ \A c, d \in SeedCandidates(Seed) : c.normalized = d.normalized => c = d
<1> DEFINE word(s) == Candidate(ManualSeed, [seed |-> NormalizeText(s)], "manual-seed",
                                NormalizeText(s), NoFields(s))
<1>1. \A c : c \in SeedCandidates(Seed) <=> \E s \in Seed : c = word(s)
  BY DEF SeedCandidates
<1>2. \A s \in Seed : /\ word(s).normalized = NormalizeText(s)
                      /\ word(s).population = ManualSeed
  BY DEF Candidate
<1>3. \A s \in Seed : NormalizeText(s) \in Words
  BY SourcesAssumption, NormalizeType DEF NormalizeText, Words
<1> HIDE DEF word
<1> QED
  BY <1>1, <1>2, <1>3, SourcesAssumption

\* An entry without a flag is an item, and the only one with its identifier.
LEMMA OfferIsAnItem ==
  ASSUME NEW q, GoodQueues(q), NEW o \in q.entries["hunspell_only"], o.target \notin Flagged(q)
  PROVE  /\ o \in Items(q)
         /\ \A e \in Items(q) : e.target = o.target => SameFields(e, o)
         /\ <<"entry", o.target>> \in TargetsOf(q)
<1> DEFINE all == UNION Range(q.entries)
           flagged == q.rejections \cup UNION {q.entries[k] : k \in FlagQueues}
<1>1. o \in all
  <2>1. "hunspell_only" \in DOMAIN q.entries
    BY DEF GoodQueues, EntryQueues
  <2> QED
    BY <2>1 DEF Range
<1>2. \A e \in q.rejections : e.target # o.target
  <2>1. \A e \in flagged : e.target \in Flagged(q)
    BY DEF Flagged
  <2>2. q.rejections \subseteq flagged
    OBVIOUS
  <2> HIDE DEF flagged
  <2> QED
    BY <2>1, <2>2
<1>3. o.target \notin Consumed(q)
  BY DEF Flagged
<1>4. EntryRecords(q) = q.rejections \cup all
  BY DEF EntryRecords
<1>5. \A e, f \in all : e.target = f.target => SameFields(e, f)
  BY DEF GoodQueues
<1>6. \A e \in EntryRecords(q) : e.target = o.target => SameFields(e, o)
  <2> HIDE DEF all
  <2> QED BY <1>1, <1>2, <1>4, <1>5
<1>7. o \in EntryRecords(q) /\ o.line \in Nat
  BY <1>1, <1>4 DEF GoodQueues, Identified
<1>8. \A f \in EntryRecords(q) : f.target = o.target => f.line <= o.line
  BY <1>6, <1>7 DEF SameFields
<1>9. o \in Items(q)
  BY <1>3, <1>7, <1>8 DEF Items
<1>10. \A e \in Items(q) : e \in EntryRecords(q)
  BY DEF Items
<1>11. <<"entry", o.target>> \in TargetsOf(q)
  BY <1>7 DEF TargetsOf
<1> QED
  BY <1>6, <1>9, <1>10, <1>11

\* With the approval of one entry alone everything else is undecided.
LEMMA OnlyApproval ==
  ASSUME NEW q, NEW o, <<"entry", o.target>> \in TargetsOf(q)
  PROVE  LET ds == <<ApprovalOf(o)>>
         IN  /\ \A g : DecisionOnGroup(ds, q, g) = Undecided
             /\ \A e : DecisionOnEntry(ds, q, e)
                         = IF e.target = o.target THEN ApprovalOf(o) ELSE Undecided
<1> DEFINE ds == <<ApprovalOf(o)>>
           on(t) == {i \in DOMAIN ds : Targeted(ds[i]) = t}
<1>1. DOMAIN ds = {1} /\ ds[1] = ApprovalOf(o)
  OBVIOUS
<1>2. Targeted(ApprovalOf(o)) = <<"entry", o.target>>
  BY DEF Targeted, ApprovalOf
<1> HIDE DEF ds
<1>3. \A t : on(t) = IF t = <<"entry", o.target>> THEN {1} ELSE {}
  BY <1>1, <1>2
<1>4. \A t : DecisionOn(ds, q, t) = IF on(t) = {} \/ t \notin TargetsOf(q) THEN Undecided
                                   ELSE ds[CHOOSE i \in on(t) : \A j \in on(t) : j <= i]
  BY DEF DecisionOn
<1>5. (CHOOSE i \in {1} : \A j \in {1} : j <= i) = 1
  OBVIOUS
<1> HIDE DEF on
<1>6. \A t : t # <<"entry", o.target>> => DecisionOn(ds, q, t) = Undecided
  BY <1>3, <1>4
<1>7. DecisionOn(ds, q, <<"entry", o.target>>) = ApprovalOf(o)
  <2>1. on(<<"entry", o.target>>) = {1}
    BY <1>3
  <2>2. DecisionOn(ds, q, <<"entry", o.target>>)
          = ds[CHOOSE i \in {1} : \A j \in {1} : j <= i]
    BY <2>1, <1>4
  <2> QED
    BY <2>2, <1>1, <1>5
<1>8. \A g : DecisionOnGroup(ds, q, g) = Undecided
  BY <1>6 DEF DecisionOnGroup
<1>9. \A e : DecisionOnEntry(ds, q, e)
               = IF e.target = o.target THEN ApprovalOf(o) ELSE Undecided
  <2>1. ASSUME NEW e, e.target = o.target PROVE DecisionOnEntry(ds, q, e) = ApprovalOf(o)
    BY <2>1, <1>7 DEF DecisionOnEntry
  <2>2. ASSUME NEW e, e.target # o.target PROVE DecisionOnEntry(ds, q, e) = Undecided
    BY <2>2, <1>6 DEF DecisionOnEntry
  <2> QED
    BY <2>1, <2>2
<1> QED
  BY <1>8, <1>9 DEF ds

LEMMA OneMoreCandidate ==
  ASSUME NEW q, GoodQueues(q), NEW o \in q.entries["hunspell_only"], o.target \notin Flagged(q)
  PROVE  Candidates("reviewed", Seed, q, <<ApprovalOf(o)>>, {})
           = SeedCandidates(Seed)
               \cup {Candidate(ExternalApproved, o.target, "hunspell", o.normalized, o)}
<1> DEFINE ds == <<ApprovalOf(o)>>
           one == Candidate(ExternalApproved, o.target, "hunspell", o.normalized, o)
<1>1. /\ o \in Items(q)
      /\ \A e \in Items(q) : e.target = o.target => SameFields(e, o)
      /\ <<"entry", o.target>> \in TargetsOf(q)
  BY OfferIsAnItem
<1>2. /\ \A g : DecisionOnGroup(ds, q, g) = Undecided
      /\ \A e : DecisionOnEntry(ds, q, e)
                  = IF e.target = o.target THEN ApprovalOf(o) ELSE Undecided
  BY <1>1, OnlyApproval
<1>3. \A g : GroupCandidates("reviewed", Undecided, g) = {}
  BY DEF GroupCandidates, Undecided
<1>4. \A e : EntryCandidates("reviewed", Undecided, e) = {}
  BY DEF EntryCandidates, Undecided
<1>5. \A e \in Items(q) : e.target = o.target
                            => EntryCandidates("reviewed", ApprovalOf(o), e) = {one}
  <2>1. \A e : EntryCandidates("reviewed", ApprovalOf(o), e)
                 = {Candidate(ExternalApproved, e.target, "hunspell", e.normalized, e)}
    BY DEF EntryCandidates, ApprovalOf
  <2>2. \A e : SameFields(e, o) =>
          Candidate(ExternalApproved, e.target, "hunspell", e.normalized, e) = one
    BY DEF SameFields, Candidate
  <2> HIDE DEF one
  <2> QED
    BY <2>1, <2>2, <1>1
<1> HIDE DEF ds, one
<1>6. \A c : c \in External("reviewed", q, ds, {}) <=> c = one
  BY <1>1, <1>2, <1>3, <1>4, <1>5, ExternalAre
<1>7. External("reviewed", q, ds, {}) = {one}
  BY <1>6
<1>8. Candidates("reviewed", Seed, q, ds, {}) = SeedCandidates(Seed) \cup {one}
  BY <1>7 DEF Candidates
<1> QED
  BY <1>8 DEF ds, one

LEMMA ApprovalTakesEffect ==
  ASSUME NEW q, GoodQueues(q), NEW o \in q.entries["hunspell_only"], o.target \notin Flagged(q)
  PROVE  /\ ~PackRefused("reviewed", Seed, q, <<ApprovalOf(o)>>, {})
         /\ o.normalized \in Forms(PackEntries("reviewed", Seed, q, <<ApprovalOf(o)>>, {}))
<1> DEFINE ds == <<ApprovalOf(o)>>
           one == Candidate(ExternalApproved, o.target, "hunspell", o.normalized, o)
           all == Candidates("reviewed", Seed, q, ds, {})
<1>1. all = SeedCandidates(Seed) \cup {one}
  BY OneMoreCandidate
<1>2. Identified(o.target, o.display, o) /\ Eligible(o.normalized) /\ ~Held(o.normalized)
  <2>1. o \in EntryRecords(q)
    BY OfferIsAnItem DEF Items
  <2> QED
    BY <2>1 DEF GoodQueues
<1>3. /\ one.population = ExternalApproved /\ one.normalized = o.normalized
      /\ CandidateType(one)
  BY <1>2 DEF Candidate, CandidateType, Identified, ExternalApproved
<1> HIDE DEF one, all
<1>4. \A c \in all : c.normalized \in Words /\ Eligible(c.normalized) /\ ~Held(c.normalized)
  BY <1>1, <1>2, <1>3, SeedAccepted DEF Identified
<1>5. Gated("reviewed", all) = all
  BY DEF Gated
<1>6. AlphabetPolicy(all) /\ WordPunctuationPolicy(all)
  BY <1>4, NothingStripped DEF AlphabetPolicy, WordPunctuationPolicy
<1>7. \A c, d \in all : c.normalized = d.normalized /\ c.population = d.population => c = d
  BY <1>1, <1>3, SeedAccepted DEF ExternalApproved, ManualSeed
<1>8. \A f : ~EqualPriority(Competing(all, f))
  BY <1>7 DEF EqualPriority, Competing
<1>9. ~CandidatesRefused("reviewed", all)
  BY <1>5, <1>6, <1>8 DEF CandidatesRefused
<1>10. \A g : ~GroupRefused(DecisionOnGroup(ds, q, g), g)
  <2>1. \A g : DecisionOnGroup(ds, q, g) = Undecided
    BY OfferIsAnItem, OnlyApproval
  <2> HIDE DEF ds
  <2> QED
    BY <2>1 DEF GroupRefused, Undecided
<1>11. ~PackRefused("reviewed", Seed, q, ds, {})
  BY <1>9, <1>10 DEF PackRefused, all
<1>12. IsFiniteSet(all) /\ \A c \in all : CandidateType(c)
  <2>1. IsFiniteSet({one})
    BY FS_Singleton
  <2> QED
    BY <2>1, <1>1, <1>3, SeedType, FS_Union
<1>13. o.normalized \in Forms(all)
  BY <1>1, <1>3 DEF Forms
<1>14. o.normalized \in Forms(ResolveCollisions(all))
  BY <1>12, <1>13, ResolvedAre
<1> QED
  BY <1>11, <1>14 DEF PackEntries, all

LEMMA CleanHolds == Inv => CleanOffersTakeEffect
<1> DEFINE job == jobs["batch"]
<1> SUFFICES ASSUME Inv, At("batch", "ranked"), job.read = job.queues,
                    NEW o \in Range(job.offers), o.target \notin job.flags
             PROVE  /\ ~PackRefused("reviewed", Seed, job.queues, <<ApprovalOf(o)>>, {})
                    /\ o.normalized \in
                         Forms(PackEntries("reviewed", Seed, job.queues, <<ApprovalOf(o)>>, {}))
  BY DEF CleanOffersTakeEffect
<1>1. BatchHolds(job) /\ job # Idle /\ job.at = "ranked"
  BY DEF Inv, JobsHold, At
<1> HIDE DEF job
<1>2. GoodQueues(job.queues) /\ job.flags = Flagged(job.queues)
  BY <1>1 DEF BatchHolds
<1> DEFINE pool == job.queues.entries["hunspell_only"]
<1>3. PICK v \in DOMAIN DecisionFiles :
        job.offers = Offers(pool, DecidedTargets(DecisionFiles[v]), job.flags)
  BY <1>1 DEF BatchHolds
<1>4. pool \subseteq EntryRecords(job.queues)
  <2>1. "hunspell_only" \in DOMAIN job.queues.entries
    BY <1>2 DEF GoodQueues, EntryQueues
  <2> QED
    BY <2>1 DEF EntryRecords, Range
<1>5. /\ IsFiniteSet(pool) /\ \A e \in pool : e.line \in Nat
      /\ \A e, f \in pool : e.line = f.line => e = f
  BY <1>2, <1>4, FS_Subset DEF GoodQueues, Identified
<1>6. o \in pool
  <2> HIDE DEF pool
  <2> QED BY <1>3, <1>5, OffersAreOfThePool
<1> QED
  BY <1>2, <1>6, ApprovalTakesEffect

(***************************************************************************)
(* The theorems: what holds of every dictionary, every file of decisions,  *)
(* every number of commands and every number running beside each other.    *)
(***************************************************************************)
\* The experimental pack can be built where the reviewed one can (pack/builder.rs),
\* and has its words unchanged.
THEOREM ReviewedIsPartOfExperimental == Spec => []TrustSubsets
BY AlwaysHolds, SubsetsHold, PTL

\* A dictionary word of the reviewed pack reads as a reviewer approved it
\* (review/merger.rs, pack/builder.rs), though nothing the build reads is locked.
THEOREM WordsReadAsApproved == Spec => []ReviewedAsSeen
BY AlwaysHolds, SeenHolds, PTL

\* A member of a conflict group gets into a pack through the decision on its group.
THEOREM GroupsDecideTheirMembers == Spec => []MembersFollowTheGroup
BY AlwaysHolds, FollowHolds, PTL

\* The cross-check of audit/analysis.rs fails just where a line cannot be decoded.
THEOREM AuditRefusesOnlyBadLines == Spec => []OnlyUndecodableLinesFailTheAudit
BY AlwaysHolds, AuditHoldsIt, PTL

\* The count check of review/queues.rs fails just where one word has two suspicions.
THEOREM QueuesRefuseOnlyTwofoldSuspicion == Spec => []OnlyTwofoldSuspicionFailsQueues
BY AlwaysHolds, TwofoldHolds, PTL

\* The groups of review/queues.rs hold what their form says when the inputs agree.
THEOREM GroupsHaveTheirForm == Spec => []SoundGroups
BY AlwaysHolds, SoundHolds, PTL

\* What review/vocabulary_batch.rs offers without a flag can be approved as it stands.
THEOREM CleanOffersCanBeApproved == Spec => []CleanOffersTakeEffect
BY AlwaysHolds, CleanHolds, PTL

=============================================================================
