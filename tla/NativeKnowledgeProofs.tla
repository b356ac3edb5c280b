------------------------- MODULE NativeKnowledgeProofs -------------------------
(***************************************************************************)
(* Proofs about NativeKnowledge, for any processes, requests, command lines *)
(* and cut writes.                                                          *)
(***************************************************************************)
EXTENDS NativeKnowledge, TLAPS, WellFoundedInduction

(***************************************************************************)
(* What an append to a journal file can do (JournalFile).                   *)
(***************************************************************************)
(* An append leaves a well-formed file.                                     *)
LEMMA WriteType ==
    ASSUME NEW Row, NEW f \in File(Row), NEW row \in Row, NEW outcome \in Outcomes
    PROVE  Write(f, row, outcome) \in File(Row)
<1>1. SubSeq(f.rows, 1, Len(f.rows) - 1) \in Seq(Row)
  <2>1. f.rows \in Seq(Row)
    BY DEF File
  <2>2. \A i \in 1 .. (Len(f.rows) - 1) : f.rows[i] \in Row
    BY <2>1
  <2>. QED
    BY <2>1, <2>2
<1>2. Append(f.rows, row) \in Seq(Row)
  BY DEF File
<1>. QED
  BY <1>1, <1>2 DEF Write, File, Outcomes

(* An append does one of three things: nothing, when it never started; it   *)
(* adds the record; or it leaves a file that no longer parses, whose        *)
(* records are a prefix of what they were.                                  *)
LEMMA WriteCases ==
    ASSUME NEW Row, NEW f \in File(Row), NEW row \in Row, NEW outcome \in Outcomes
    PROVE  LET g == Write(f, row, outcome) IN
           \/ outcome = "none" /\ g = f
           \/ /\ g.rows = Append(f.rows, row)
              /\ Readable(g)
           \/ /\ ~Readable(g)
              /\ Len(g.rows) \in 0 .. Len(f.rows)
              /\ \A i \in 1 .. Len(g.rows) : g.rows[i] = f.rows[i]
<1>. DEFINE g == Write(f, row, outcome)
<1>1. CASE outcome = "none"
  BY <1>1 DEF Write
<1>2. CASE outcome # "none" /\ f.open
  <2>1. g.rows = SubSeq(f.rows, 1, Len(f.rows) - 1) /\ ~Readable(g)
    BY <1>2 DEF Write, Readable
  <2>2. f.rows \in Seq(Row)
    BY DEF File
  <2>3. Len(g.rows) \in 0 .. Len(f.rows)
    BY <2>1, <2>2
  <2>4. \A i \in 1 .. Len(g.rows) : g.rows[i] = f.rows[i]
    BY <2>1, <2>2
  <2>. QED
    BY <2>1, <2>3, <2>4
<1>3. CASE outcome = "partial" /\ ~f.open
  <2>1. g.rows = f.rows /\ ~Readable(g)
    BY <1>3 DEF Write, Readable
  <2>2. f.rows \in Seq(Row)
    BY DEF File
  <2>. QED
    BY <2>1, <2>2
<1>4. CASE outcome \in {"no_newline", "full"} /\ ~f.open
  BY <1>4 DEF Write, Readable, File
<1>. QED
  BY <1>1, <1>2, <1>3, <1>4 DEF Outcomes

(* What the only step that changes the journal does: a validated process    *)
(* writes a new generation against the latest one, and the caller is told,  *)
(* or the process dies first.                                               *)
Appends(p) ==
    /\ pc[p] = "validated"
    /\ Readable(journal)
    /\ SameGeneration(work[p]) = {}
    /\ work[p].base = LatestGeneration
    /\ \E outcome \in {"full"} \cup Cuts : journal' = Write(journal, work[p], outcome)
    /\ \/ applied' = [applied EXCEPT ![work[p].request] = @ + 1]
       \/ applied' = applied

LEMMA JournalSteps ==
    ASSUME [Next]_vars
    PROVE  \/ journal' = journal /\ applied' = applied
           \/ \E p \in Procs : Appends(p)
<1>1. CASE UNCHANGED vars
  BY <1>1 DEF vars
<1>2. CASE Next
  <2>1. PICK p \in Procs :
           \/ \E r \in Requests : StartPreview(p, r)
           \/ BuildPreview(p)
           \/ \E v \in pending[p] : Discard(p, v) \/ Consume(p, v) \/ ApplyFile(p, v)
           \/ Validate(p)
           \/ Commit(p)
           \/ Crash(p)
    BY <1>2 DEF Next
  <2>2. CASE Commit(p)
    BY <2>2 DEF Commit, Replay, AppendGeneration, RefuseBase, Appends
  <2>3. CASE Crash(p)
    BY <2>3 DEF Crash, Appends
  <2>. QED
    BY <2>1, <2>2, <2>3 DEF StartPreview, BuildPreview, Discard, Consume, ApplyFile, Validate
<1>. QED
  BY <1>1, <1>2

(* A process at work holds a preview.                                       *)
LEMMA WorkType ==
    ASSUME TypeOK, NEW p \in Procs, pc[p] # "idle"
    PROVE  work[p] \in Preview
  BY DEF TypeOK

LEMMA BaseType == ASSUME TypeOK PROVE LatestGeneration \in Base
<1>1. journal.rows \in Seq(Preview)
  BY DEF TypeOK, File
<1>2. journal.rows # << >> => journal.rows[Len(journal.rows)] \in Preview
  BY <1>1
<1>. QED
  BY <1>2, ConstantsAssumption DEF LatestGeneration, Generation, Preview, Base

(* The journal, or what a commit made of it, is well formed.                *)
LEMMA JournalType ==
    ASSUME TypeOK, [Next]_vars
    PROVE  /\ journal' \in File(Preview)
           /\ applied' \in [Requests -> Nat]
<1>1. CASE journal' = journal /\ applied' = applied
  BY <1>1 DEF TypeOK
<1>2. ASSUME NEW p \in Procs, Appends(p)
      PROVE  /\ journal' \in File(Preview)
             /\ applied' \in [Requests -> Nat]
  <2>1. work[p] \in Preview
    BY <1>2, WorkType DEF Appends
  <2>2. PICK outcome \in {"full"} \cup Cuts : journal' = Write(journal, work[p], outcome)
    BY <1>2 DEF Appends
  <2>3. outcome \in Outcomes
    BY ConstantsAssumption DEF Outcomes
  <2>4. journal' \in File(Preview)
    BY <2>1, <2>2, <2>3, WriteType DEF TypeOK
  <2>5. applied' \in [Requests -> Nat]
    BY <1>2, <2>1 DEF Appends, TypeOK, Preview
  <2>. QED
    BY <2>4, <2>5
<1>. QED
  BY <1>1, <1>2, JournalSteps

--------------------------------------------------------------------------------
(* Type correctness.                                                        *)

(* The parts of the state only previews and applies keep.                   *)
Working ==
    /\ pc \in [Procs -> {"idle", "new", "approved", "validated"}]
    /\ work \in [Procs -> Preview \cup {NoWork}]
    /\ \A p \in Procs : pc[p] = "idle" <=> work[p] = NoWork
    /\ pending \in [Procs -> SUBSET Preview]

LEMMA FinishWorking ==
    ASSUME TypeOK, NEW p \in Procs, Finish(p), pending' \in [Procs -> SUBSET Preview]
    PROVE  Working'
  BY DEF TypeOK, Finish, Working

LEMMA TakeWorking ==
    ASSUME TypeOK, NEW p \in Procs, NEW v \in Preview,
           NEW s \in {"new", "approved", "validated"},
           pc' = [pc EXCEPT ![p] = s], work' = [work EXCEPT ![p] = v],
           pending' \in [Procs -> SUBSET Preview]
    PROVE  Working'
  BY ConstantsAssumption DEF TypeOK, Working

LEMMA WorkingStep ==
    ASSUME TypeOK, [Next]_vars
    PROVE  Working'
<1>1. CASE UNCHANGED vars
  BY <1>1 DEF vars, TypeOK, Working
<1>2. ASSUME NEW p \in Procs, NEW r \in Requests, StartPreview(p, r)
      PROVE  Working'
  <2>. DEFINE v == [request |-> r, base |-> NoGeneration]
  <2>1. v \in Preview
    BY DEF Preview, Base
  <2>2. pending' \in [Procs -> SUBSET Preview]
    BY <1>2 DEF StartPreview, TypeOK
  <2>. QED
    BY <1>2, <2>1, <2>2, TakeWorking DEF StartPreview
<1>3. ASSUME NEW p \in Procs, BuildPreview(p)
      PROVE  Working'
  <2>1. [work[p] EXCEPT !.base = LatestGeneration] \in Preview
    BY <1>3, WorkType, BaseType DEF BuildPreview, Preview
  <2>2. pending' \in [Procs -> SUBSET Preview]
    BY <1>3, <2>1 DEF BuildPreview, TypeOK
  <2>. QED
    BY <1>3, <2>2, FinishWorking DEF BuildPreview
<1>4. ASSUME NEW p \in Procs, NEW v \in pending[p],
             Discard(p, v) \/ Consume(p, v) \/ ApplyFile(p, v)
      PROVE  Working'
  <2>1. v \in Preview /\ pending' \in [Procs -> SUBSET Preview]
    BY <1>4 DEF Discard, Consume, ApplyFile, TypeOK
  <2>2. CASE UNCHANGED <<pc, work>>
    BY <2>1, <2>2 DEF TypeOK, Working
  <2>3. CASE pc' = [pc EXCEPT ![p] = "approved"] /\ work' = [work EXCEPT ![p] = v]
    BY <2>1, <2>3, TakeWorking
  <2>. QED
    BY <1>4, <2>2, <2>3 DEF Discard, Consume, ApplyFile
<1>5. ASSUME NEW p \in Procs, Validate(p)
      PROVE  Working'
  <2>1. pending' \in [Procs -> SUBSET Preview]
    BY <1>5 DEF Validate, TypeOK
  <2>2. CASE Finish(p)
    BY <2>1, <2>2, FinishWorking
  <2>3. CASE pc' = [pc EXCEPT ![p] = "validated"] /\ UNCHANGED work
    <3>1. pc[p] # "idle"
      BY <1>5 DEF Validate
    <3>. QED
      BY <2>1, <2>3, <3>1 DEF TypeOK, Working
  <2>. QED
    BY <1>5, <2>2, <2>3 DEF Validate
<1>6. ASSUME NEW p \in Procs, Commit(p)
      PROVE  Working'
  <2>1. pending' \in [Procs -> SUBSET Preview]
    BY <1>6 DEF Commit, TypeOK
  <2>. QED
    BY <1>6, <2>1, FinishWorking DEF Commit
<1>7. ASSUME NEW p \in Procs, Crash(p)
      PROVE  Working'
  <2>1. pending' \in [Procs -> SUBSET Preview]
    BY <1>7 DEF Crash, TypeOK
  <2>. QED
    BY <1>7, <2>1, FinishWorking DEF Crash
<1>. QED
  BY <1>1, <1>2, <1>3, <1>4, <1>5, <1>6, <1>7 DEF Next

LEMMA TypeStep ==
    ASSUME TypeOK, [Next]_vars
    PROVE  TypeOK'
  BY JournalType, WorkingStep DEF TypeOK, Working

LEMMA TypeInit == Init => TypeOK
<1>. SUFFICES ASSUME Init PROVE TypeOK
  OBVIOUS
<1>1. EmptyFile \in File(Preview)
  BY DEF EmptyFile, File
<1>. QED
  BY <1>1 DEF Init, TypeOK

(* Every variable of NativeKnowledge stays in its domain.                   *)
THEOREM TypeCorrect == Spec => []TypeOK
<1>1. Init => TypeOK
  BY TypeInit
<1>2. TypeOK /\ [Next]_vars => TypeOK'
  BY TypeStep
<1>. QED
  BY <1>1, <1>2, PTL DEF Spec

--------------------------------------------------------------------------------
(* The history of the generations.                                          *)

(* LinearHistory, of any sequence of rows.                                  *)
Linear(rows) ==
    /\ \A i \in 1 .. Len(rows) :
           rows[i].base = IF i = 1 THEN NoGeneration ELSE Generation(rows[i - 1])
    /\ \A i, j \in 1 .. Len(rows) :
           Generation(rows[i]) = Generation(rows[j]) => i = j

LEMMA LinearAppend ==
    ASSUME NEW rows \in Seq(Preview), NEW row \in Preview, Linear(rows),
           \A i \in 1 .. Len(rows) : Generation(rows[i]) # Generation(row),
           row.base = IF rows = << >> THEN NoGeneration ELSE Generation(rows[Len(rows)])
    PROVE  Linear(Append(rows, row))
<1>. DEFINE n == Len(rows)
            longer == Append(rows, row)
<1>1. /\ n \in Nat
      /\ Len(longer) = n + 1
      /\ longer[n + 1] = row
      /\ \A i \in 1 .. n : longer[i] = rows[i]
      /\ rows = << >> <=> n = 0
  OBVIOUS
<1>. HIDE DEF n, longer
<1>2. ASSUME NEW i \in 1 .. Len(longer)
      PROVE  longer[i].base = IF i = 1 THEN NoGeneration ELSE Generation(longer[i - 1])
  <2>1. CASE i = n + 1 /\ n = 0
    BY <1>1, <2>1 DEF n
  <2>2. CASE i = n + 1 /\ n # 0
    <3>1. longer[i - 1] = rows[n] /\ longer[i] = row /\ i # 1
      BY <1>1, <2>2
    <3>. QED
      BY <1>1, <2>2, <3>1 DEF n
  <2>3. CASE i \in 1 .. n
    <3>1. longer[i] = rows[i] /\ (i # 1 => longer[i - 1] = rows[i - 1])
      BY <1>1, <2>3
    <3>. QED
      BY <2>3, <3>1 DEF Linear, n
  <2>. QED
    BY <1>1, <2>1, <2>2, <2>3
<1>3. ASSUME NEW i \in 1 .. Len(longer), NEW j \in 1 .. Len(longer),
             Generation(longer[i]) = Generation(longer[j])
      PROVE  i = j
  <2>1. i \in 1 .. n \/ i = n + 1
    BY <1>1
  <2>2. j \in 1 .. n \/ j = n + 1
    BY <1>1
  <2>3. CASE i \in 1 .. n /\ j \in 1 .. n
    BY <1>1, <1>3, <2>3 DEF Linear, n
  <2>4. CASE i \in 1 .. n /\ j = n + 1
    BY <1>1, <1>3, <2>4 DEF n
  <2>5. CASE i = n + 1 /\ j \in 1 .. n
    BY <1>1, <1>3, <2>5 DEF n
  <2>. QED
    BY <2>1, <2>2, <2>3, <2>4, <2>5
<1>. QED
  BY <1>2, <1>3 DEF Linear, longer

LEMMA LinearPrefix ==
    ASSUME NEW rows \in Seq(Preview), NEW shorter \in Seq(Preview), Linear(rows),
           Len(shorter) <= Len(rows),
           \A i \in 1 .. Len(shorter) : shorter[i] = rows[i]
    PROVE  Linear(shorter)
<1>1. ASSUME NEW i \in 1 .. Len(shorter)
      PROVE  shorter[i].base = IF i = 1 THEN NoGeneration ELSE Generation(shorter[i - 1])
  <2>1. /\ i \in 1 .. Len(rows)
        /\ shorter[i] = rows[i]
        /\ i # 1 => shorter[i - 1] = rows[i - 1]
    OBVIOUS
  <2>. QED
    BY <2>1 DEF Linear
<1>2. ASSUME NEW i \in 1 .. Len(shorter), NEW j \in 1 .. Len(shorter),
             Generation(shorter[i]) = Generation(shorter[j])
      PROVE  i = j
  <2>1. /\ i \in 1 .. Len(rows) /\ shorter[i] = rows[i]
        /\ j \in 1 .. Len(rows) /\ shorter[j] = rows[j]
    OBVIOUS
  <2>. QED
    BY <1>2, <2>1 DEF Linear
<1>. QED
  BY <1>1, <1>2 DEF Linear

LEMMA LinearIsLinear ==
    ASSUME journal.rows \in Seq(Preview)
    PROVE  LinearHistory <=> Linear(journal.rows)
  BY DEF LinearHistory, Linear

LEMMA LinearStep ==
    ASSUME TypeOK, LinearHistory, [Next]_vars
    PROVE  LinearHistory'
<1>1. /\ journal.rows \in Seq(Preview)
      /\ journal'.rows \in Seq(Preview)
  BY JournalType DEF TypeOK, File
<1>2. Linear(journal.rows)
  BY <1>1, LinearIsLinear
<1>3. Linear(journal'.rows)
  <2>1. CASE journal' = journal
    BY <1>2, <2>1
  <2>2. ASSUME NEW p \in Procs, Appends(p)
        PROVE  Linear(journal'.rows)
    <3>1. work[p] \in Preview
      BY <2>2, WorkType DEF Appends
    <3>2. PICK outcome \in {"full"} \cup Cuts : journal' = Write(journal, work[p], outcome)
      BY <2>2 DEF Appends
    <3>3. outcome \in Outcomes \ {"none"}
      BY ConstantsAssumption DEF Outcomes
    <3>4. CASE journal'.rows = Append(journal.rows, work[p])
      <4>1. \A i \in 1 .. Len(journal.rows) : Generation(journal.rows[i]) # Generation(work[p])
        BY <1>1, <2>2 DEF Appends, SameGeneration, Generation
      <4>2. work[p].base = IF journal.rows = << >> THEN NoGeneration
                           ELSE Generation(journal.rows[Len(journal.rows)])
        BY <2>2 DEF Appends, LatestGeneration
      <4>. QED
        BY <1>1, <1>2, <3>1, <3>4, <4>1, <4>2, LinearAppend
    <3>5. CASE /\ Len(journal'.rows) \in 0 .. Len(journal.rows)
               /\ \A i \in 1 .. Len(journal'.rows) : journal'.rows[i] = journal.rows[i]
      <4>1. Len(journal'.rows) <= Len(journal.rows)
        BY <1>1, <3>5
      <4>. QED
        BY <1>1, <1>2, <3>5, <4>1, LinearPrefix
    <3>. QED
      BY <3>1, <3>2, <3>3, <3>4, <3>5, WriteCases DEF TypeOK
  <2>. QED
    BY <2>1, <2>2, JournalSteps
<1>. QED
  BY <1>1, <1>3 DEF LinearHistory, Linear

(* Every generation was written against the one right before it, and no     *)
(* generation is in the journal twice, whoever previews and applies when.   *)
THEOREM HistoryIsLinear == Spec => []LinearHistory
<1>1. Init => TypeOK /\ LinearHistory
  BY TypeInit DEF Init, LinearHistory, EmptyFile
<1>2. (TypeOK /\ LinearHistory) /\ [Next]_vars => (TypeOK /\ LinearHistory)'
  BY TypeStep, LinearStep
<1>. QED
  BY <1>1, <1>2, PTL DEF Spec

--------------------------------------------------------------------------------
(* What callers were told.                                                  *)

(* A journal that parses holds what it held before, and what was just       *)
(* appended.                                                                *)
LEMMA RowsKept ==
    ASSUME TypeOK, [Next]_vars, Readable(journal')
    PROVE  /\ Readable(journal)
           /\ \A i \in DOMAIN journal.rows :
                  i \in DOMAIN journal'.rows /\ journal'.rows[i] = journal.rows[i]
           /\ \/ applied' = applied
              \/ \E p \in Procs :
                    /\ work[p] \in Preview
                    /\ SameGeneration(work[p]) = {}
                    /\ applied' = [applied EXCEPT ![work[p].request] = @ + 1]
                    /\ Len(journal.rows) + 1 \in DOMAIN journal'.rows
                    /\ journal'.rows[Len(journal.rows) + 1] = work[p]
<1>1. CASE journal' = journal /\ applied' = applied
  BY <1>1
<1>2. CASE \E p \in Procs : Appends(p)
  <2>1. PICK p \in Procs : Appends(p)
    BY <1>2
  <2>2. work[p] \in Preview
    BY <2>1, WorkType DEF Appends
  <2>3. PICK outcome \in {"full"} \cup Cuts : journal' = Write(journal, work[p], outcome)
    BY <2>1 DEF Appends
  <2>4. outcome \in Outcomes \ {"none"}
    BY ConstantsAssumption DEF Outcomes
  <2>5. journal'.rows = Append(journal.rows, work[p])
    BY <2>2, <2>3, <2>4, WriteCases DEF TypeOK
  <2>6. journal.rows \in Seq(Preview)
    BY DEF TypeOK, File
  <2>. QED
    BY <2>1, <2>2, <2>5, <2>6 DEF Appends
<1>. QED
  BY <1>1, <1>2, JournalSteps

LEMMA KeptStep ==
    ASSUME TypeOK, AppliedIsKept, [Next]_vars
    PROVE  AppliedIsKept'
<1>. SUFFICES ASSUME Readable(journal'), NEW r \in Requests, applied'[r] > 0
              PROVE  \E i \in DOMAIN journal'.rows : journal'.rows[i].request = r
  BY DEF AppliedIsKept
<1>1. CASE applied'[r] = applied[r]
  <2>1. PICK i \in DOMAIN journal.rows : journal.rows[i].request = r
    BY <1>1, RowsKept DEF AppliedIsKept
  <2>. QED
    BY <2>1, RowsKept
<1>2. CASE applied'[r] # applied[r]
  <2>1. PICK p \in Procs :
           /\ work[p] \in Preview
           /\ applied' = [applied EXCEPT ![work[p].request] = @ + 1]
           /\ Len(journal.rows) + 1 \in DOMAIN journal'.rows
           /\ journal'.rows[Len(journal.rows) + 1] = work[p]
    BY <1>2, RowsKept
  <2>2. work[p].request = r
    BY <1>2, <2>1 DEF TypeOK
  <2>. QED
    BY <2>1, <2>2
<1>. QED
  BY <1>1, <1>2

(* As long as the journal parses, every generation a caller was told of is  *)
(* in it, whatever appends were cut.                                        *)
THEOREM AppliedStays == Spec => []AppliedIsKept
<1>1. Init => TypeOK /\ AppliedIsKept
  BY TypeInit DEF Init, AppliedIsKept
<1>2. (TypeOK /\ AppliedIsKept) /\ [Next]_vars => (TypeOK /\ AppliedIsKept)'
  BY TypeStep, KeptStep
<1>. QED
  BY <1>1, <1>2, PTL DEF Spec

(* Nobody was told of a generation that is still to be appended.            *)
LEMMA UntoldBefore ==
    ASSUME TypeOK, AppliedIsKept, Readable(journal),
           NEW v \in Preview, SameGeneration(v) = {},
           NEW t \in Requests, GenerationOf[t] = GenerationOf[v.request]
    PROVE  applied[t] = 0
<1>1. applied[t] \in Nat
  BY DEF TypeOK
<1>2. ASSUME applied[t] > 0 PROVE FALSE
  <2>1. PICK i \in DOMAIN journal.rows : journal.rows[i].request = t
    BY <1>2 DEF AppliedIsKept
  <2>2. i \in SameGeneration(v)
    BY <2>1 DEF SameGeneration, Generation
  <2>. QED
    BY <2>2
<1>. QED
  BY <1>1, <1>2

LEMMA OnceStep ==
    ASSUME TypeOK, AppliedIsKept, AppliedOnce, [Next]_vars
    PROVE  AppliedOnce'
<1>1. CASE applied' = applied
  BY <1>1 DEF AppliedOnce
<1>2. ASSUME NEW p \in Procs, Appends(p),
             applied' = [applied EXCEPT ![work[p].request] = @ + 1]
      PROVE  AppliedOnce'
  <2>1. work[p] \in Preview /\ work[p].request \in Requests
    BY <1>2, WorkType DEF Appends, Preview
  <2>2. SUFFICES ASSUME NEW g \in Generations,
                        NEW r \in Requests, GenerationOf[r] = g,
                        NEW s \in Requests, GenerationOf[s] = g
                 PROVE  applied'[r] + (IF r = s THEN 0 ELSE applied'[s]) <= 1
    BY DEF AppliedOnce
  <2>3. /\ applied[r] \in Nat
        /\ applied[s] \in Nat
        /\ applied'[r] = IF r = work[p].request THEN applied[r] + 1 ELSE applied[r]
        /\ applied'[s] = IF s = work[p].request THEN applied[s] + 1 ELSE applied[s]
    BY <1>2, <2>1 DEF TypeOK
  <2>4. applied[r] + (IF r = s THEN 0 ELSE applied[s]) <= 1
    BY <2>2 DEF AppliedOnce
  <2>5. CASE g = GenerationOf[work[p].request]
    <3>1. applied[r] = 0 /\ applied[s] = 0
      BY <1>2, <2>1, <2>2, <2>5, UntoldBefore DEF Appends
    <3>. QED
      BY <2>3, <3>1
  <2>6. CASE g # GenerationOf[work[p].request]
    BY <2>2, <2>3, <2>4, <2>6
  <2>. QED
    BY <2>5, <2>6
<1>. QED
  BY <1>1, <1>2, JournalSteps DEF Appends

(* A generation is reported applied at most once, whichever requests carry  *)
(* its id and whoever applies them.                                         *)
THEOREM ReportedOnce == Spec => []AppliedOnce
<1>1. Init => TypeOK /\ AppliedIsKept /\ AppliedOnce
  BY TypeInit DEF Init, AppliedIsKept, AppliedOnce
<1>2. (TypeOK /\ AppliedIsKept /\ AppliedOnce) /\ [Next]_vars
      => (TypeOK /\ AppliedIsKept /\ AppliedOnce)'
  BY TypeStep, KeptStep, OnceStep
<1>. QED
  BY <1>1, <1>2, PTL DEF Spec

--------------------------------------------------------------------------------
(* What the overlay serves.                                                 *)

(* Only validated requests are previewed, applied and journalled.           *)
AllValid ==
    /\ \A p \in Procs : pc[p] # "idle" => Valid(work[p].request)
    /\ \A p \in Procs : \A v \in pending[p] : Valid(v.request)
    /\ \A i \in DOMAIN journal.rows : Valid(journal.rows[i].request)

LEMMA RowsValidStep ==
    ASSUME TypeOK, AllValid, [Next]_vars
    PROVE  \A i \in DOMAIN journal'.rows : Valid(journal'.rows[i].request)
<1>1. CASE journal' = journal
  BY <1>1 DEF AllValid
<1>2. ASSUME NEW p \in Procs, Appends(p)
      PROVE  \A i \in DOMAIN journal'.rows : Valid(journal'.rows[i].request)
  <2>1. work[p] \in Preview /\ Valid(work[p].request)
    BY <1>2, WorkType DEF Appends, AllValid
  <2>2. PICK outcome \in {"full"} \cup Cuts : journal' = Write(journal, work[p], outcome)
    BY <1>2 DEF Appends
  <2>3. outcome \in Outcomes \ {"none"}
    BY ConstantsAssumption DEF Outcomes
  <2>4. journal.rows \in Seq(Preview) /\ journal'.rows \in Seq(Preview)
    BY JournalType DEF TypeOK, File
  <2>5. CASE journal'.rows = Append(journal.rows, work[p])
    BY <2>1, <2>4, <2>5 DEF AllValid
  <2>6. CASE /\ Len(journal'.rows) \in 0 .. Len(journal.rows)
             /\ \A i \in 1 .. Len(journal'.rows) : journal'.rows[i] = journal.rows[i]
    BY <2>4, <2>6 DEF AllValid
  <2>. QED
    BY <2>1, <2>2, <2>3, <2>5, <2>6, WriteCases DEF TypeOK
<1>. QED
  BY <1>1, <1>2, JournalSteps

LEMMA ValidStep ==
    ASSUME TypeOK, AllValid, [Next]_vars
    PROVE  AllValid'
<1>. USE DEF Valid
<1>1. SUFFICES ASSUME NEW p \in Procs
               PROVE  /\ pc'[p] # "idle" => Valid(work'[p].request)
                      /\ \A v \in pending'[p] : Valid(v.request)
  BY RowsValidStep DEF AllValid
<1>2. /\ pc[p] # "idle" => Valid(work[p].request) /\ work[p] \in Preview
      /\ \A v \in pending[p] : Valid(v.request)
  BY WorkType DEF AllValid
<1>3. CASE UNCHANGED vars
  BY <1>2, <1>3 DEF vars
<1>4. CASE Next
  <2>. USE DEF TypeOK, Finish
  <2>1. PICK q \in Procs :
           \/ \E r \in Requests : StartPreview(q, r)
           \/ BuildPreview(q)
           \/ \E v \in pending[q] : Discard(q, v) \/ Consume(q, v) \/ ApplyFile(q, v)
           \/ Validate(q)
           \/ Commit(q)
           \/ Crash(q)
    BY <1>4 DEF Next
  <2>2. CASE \E r \in Requests : StartPreview(q, r)
    BY <1>2, <2>2 DEF StartPreview
  <2>3. CASE BuildPreview(q)
    BY <1>2, <2>3 DEF BuildPreview, Preview
  <2>4. CASE \E v \in pending[q] : Discard(q, v) \/ Consume(q, v) \/ ApplyFile(q, v)
    <3>1. PICK v \in pending[q] : Discard(q, v) \/ Consume(q, v) \/ ApplyFile(q, v)
      BY <2>4
    <3>2. Valid(v.request)
      BY DEF AllValid
    <3>. QED
      BY <1>2, <3>1, <3>2 DEF Discard, Consume, ApplyFile
  <2>5. CASE Validate(q)
    BY <1>2, <2>5 DEF Validate
  <2>6. CASE Commit(q)
    BY <1>2, <2>6 DEF Commit
  <2>7. CASE Crash(q)
    BY <1>2, <2>7 DEF Crash
  <2>. QED
    BY <2>1, <2>2, <2>3, <2>4, <2>5, <2>6, <2>7
<1>. QED
  BY <1>3, <1>4

(* The greatest element of a bounded set of positions.                      *)
LEMMA GreatestExists ==
    ASSUME NEW n \in Nat, NEW S, S \subseteq 1 .. n, S # {}
    PROVE  \E m \in S : \A j \in S : j <= m
<1>. DEFINE T == {n - i : i \in S}
<1>1. T \subseteq Nat /\ T # {}
  <2>1. \A i \in S : n - i \in Nat
    OBVIOUS
  <2>2. PICK i \in S : TRUE
    OBVIOUS
  <2>3. n - i \in T
    BY <2>2
  <2>. QED
    BY <2>1, <2>3
<1>2. IsWellFoundedOn(OpToRel(<, Nat), Nat)
  BY NatLessThanWellFounded
<1>. HIDE DEF T
<1>3. PICK k \in T : \A j \in T : ~ (<<j, k>> \in OpToRel(<, Nat))
  BY <1>1, <1>2, WFMin, Zenon
<1>4. \A j \in T : ~ (j < k)
  BY <1>1, <1>3, Zenon DEF OpToRel
<1>5. PICK m \in S : k = n - m
  BY <1>3 DEF T
<1>6. \A j \in S : ~ (n - j < n - m)
  BY <1>4, <1>5 DEF T
<1>. QED
  BY <1>6

LEMMA LastMentionIsOne ==
    ASSUME TypeOK, NEW claim \in OverlayClaims
    PROVE  LastMention(claim) \in DOMAIN journal.rows
<1>. DEFINE S == {i \in DOMAIN journal.rows : Mentions(journal.rows[i], claim)}
<1>1. journal.rows \in Seq(Preview)
  BY DEF TypeOK, File
<1>2. S \subseteq 1 .. Len(journal.rows) /\ S # {}
  BY <1>1 DEF OverlayClaims
<1>3. Len(journal.rows) \in Nat
  BY <1>1
<1>. HIDE DEF S
<1>4. \E m \in S : \A j \in S : j <= m
  BY <1>2, <1>3, GreatestExists
<1>5. \E m \in DOMAIN journal.rows :
         /\ Mentions(journal.rows[m], claim)
         /\ \A j \in DOMAIN journal.rows : Mentions(journal.rows[j], claim) => j <= m
  BY <1>4 DEF S
<1>. QED
  BY <1>5 DEF LastMention

(* Every claim the overlay serves cites evidence that it serves too.        *)
THEOREM ClaimsAreSupported == Spec => []ClaimsSupported
<1>1. Init => TypeOK /\ AllValid
  BY TypeInit DEF Init, AllValid, EmptyFile
<1>2. (TypeOK /\ AllValid) /\ [Next]_vars => (TypeOK /\ AllValid)'
  BY TypeStep, ValidStep
<1>3. TypeOK /\ AllValid => ClaimsSupported
  <2>. SUFFICES ASSUME TypeOK, AllValid, NEW claim \in OverlayClaims,
                       NEW item \in Cited(claim)
                PROVE  item \in OverlayEvidence
    BY DEF ClaimsSupported
  <2>. DEFINE i == LastMention(claim)
              r == journal.rows[i].request
  <2>1. i \in DOMAIN journal.rows
    BY LastMentionIsOne
  <2>. HIDE DEF i
  <2>2. <<claim, item>> \in ClaimsOf[r]
    BY DEF Cited, i
  <2>3. item \in EvidenceOf[r]
    BY <2>1, <2>2 DEF AllValid, Valid
  <2>. QED
    BY <2>1, <2>3 DEF OverlayEvidence
<1>. QED
  BY <1>1, <1>2, <1>3, PTL DEF Spec
================================================================================
