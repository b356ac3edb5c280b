--------------------------- MODULE NativeWriteProofs ---------------------------
(***************************************************************************)
(* Proofs about NativeWrite, for any processes, users, previews, grants,    *)
(* lifetimes and cut writes.                                                *)
(***************************************************************************)
EXTENDS NativeWrite, TLAPS, WellFoundedInduction

(***************************************************************************)
(* What an append to a journal file can do (JournalFile).                   *)
(***************************************************************************)
(* An append leaves a well-formed file.                                     *)
LEMMA WriteType ==
    ASSUME NEW Row, NEW f \in File(Row), NEW row \in Row, NEW outcome \in Outcomes
    PROVE  Write(f, row, outcome) \in File(Row)
<1>1. SubSeq(f.rows, 1, Len(f.rows) - 1) \in Seq(Row)
  <2>1. f.rows \in Seq(Row)
    BY DEF File
  <2>2. \A i \in 1 .. (Len(f.rows) - 1) : f.rows[i] \in Row
    BY <2>1
  <2>. QED
    BY <2>1, <2>2
<1>2. Append(f.rows, row) \in Seq(Row)
  BY DEF File
<1>. QED
  BY <1>1, <1>2 DEF Write, File, Outcomes

(* An append does one of three things: nothing, when it never started; it   *)
(* adds the record; or it leaves a file that no longer parses, whose        *)
(* records are a prefix of what they were.                                  *)
LEMMA WriteCases ==
    ASSUME NEW Row, NEW f \in File(Row), NEW row \in Row, NEW outcome \in Outcomes
    PROVE  LET g == Write(f, row, outcome) IN
           \/ outcome = "none" /\ g = f
           \/ /\ g.rows = Append(f.rows, row)
              /\ Readable(g)
           \/ /\ ~Readable(g)
              /\ Len(g.rows) \in 0 .. Len(f.rows)
              /\ \A i \in 1 .. Len(g.rows) : g.rows[i] = f.rows[i]
<1>. DEFINE g == Write(f, row, outcome)
<1>1. CASE outcome = "none"
  BY <1>1 DEF Write
<1>2. CASE outcome # "none" /\ f.open
  <2>1. g.rows = SubSeq(f.rows, 1, Len(f.rows) - 1) /\ ~Readable(g)
    BY <1>2 DEF Write, Readable
  <2>2. f.rows \in Seq(Row)
    BY DEF File
  <2>3. Len(g.rows) \in 0 .. Len(f.rows)
    BY <2>1, <2>2
  <2>4. \A i \in 1 .. Len(g.rows) : g.rows[i] = f.rows[i]
    BY <2>1, <2>2
  <2>. QED
    BY <2>1, <2>3, <2>4
<1>3. CASE outcome = "partial" /\ ~f.open
  <2>1. g.rows = f.rows /\ ~Readable(g)
    BY <1>3 DEF Write, Readable
  <2>2. f.rows \in Seq(Row)
    BY DEF File
  <2>. QED
    BY <2>1, <2>2
<1>4. CASE outcome \in {"no_newline", "full"} /\ ~f.open
  BY <1>4 DEF Write, Readable, File
<1>. QED
  BY <1>1, <1>2, <1>3, <1>4 DEF Outcomes

(* The least element of a set of journal positions.                         *)
LEMMA FirstIsLeast ==
    ASSUME NEW S, S \subseteq Nat, S # {}
    PROVE  /\ First(S) \in S
           /\ \A j \in S : First(S) <= j
<1>1. IsWellFoundedOn(OpToRel(<, Nat), Nat)
  BY NatLessThanWellFounded
<1>2. PICK i \in S : \A j \in S : ~ (<<j, i>> \in OpToRel(<, Nat))
  BY <1>1, WFMin, Zenon
<1>3. \A j \in S : ~ (j < i)
  BY <1>2, Zenon DEF OpToRel
<1>4. \E m \in S : \A j \in S : m <= j
  BY <1>3
<1>. QED
  BY <1>4 DEF First

(* The first row of the journal among those a set of positions names.       *)
LEMMA FirstWithIdentity ==
    ASSUME TypeOK, NEW identity, RowsWithIdentity(identity) # {}
    PROVE  LET i == First(RowsWithIdentity(identity)) IN
           /\ i \in 1 .. Len(journal.rows)
           /\ journal.rows[i] \in WriteRow
           /\ identity # NoIdentity
           /\ journal.rows[i].identity = identity
           /\ \A j \in RowsWithIdentity(identity) : i <= j
<1>1. journal.rows \in Seq(WriteRow)
  BY DEF TypeOK, File
<1>2. RowsWithIdentity(identity) \subseteq Nat
  BY <1>1 DEF RowsWithIdentity
<1>3. /\ First(RowsWithIdentity(identity)) \in RowsWithIdentity(identity)
      /\ \A j \in RowsWithIdentity(identity) : First(RowsWithIdentity(identity)) <= j
  BY <1>2, FirstIsLeast
<1>4. \A i \in RowsWithIdentity(identity) :
         /\ i \in 1 .. Len(journal.rows)
         /\ identity # NoIdentity
         /\ journal.rows[i].identity = identity
  BY <1>1 DEF RowsWithIdentity
<1>5. \A i \in 1 .. Len(journal.rows) : journal.rows[i] \in WriteRow
  BY <1>1
<1>. QED
  BY <1>3, <1>4, <1>5

LEMMA FirstWithKey ==
    ASSUME TypeOK, NEW k, RowsWithKey(k) # {}
    PROVE  LET i == First(RowsWithKey(k)) IN
           /\ i \in 1 .. Len(journal.rows)
           /\ journal.rows[i] \in WriteRow
           /\ journal.rows[i].key = k
<1>1. journal.rows \in Seq(WriteRow)
  BY DEF TypeOK, File
<1>2. RowsWithKey(k) \subseteq Nat
  BY <1>1 DEF RowsWithKey
<1>3. First(RowsWithKey(k)) \in RowsWithKey(k)
  BY <1>2, FirstIsLeast
<1>4. \A i \in RowsWithKey(k) :
         /\ i \in 1 .. Len(journal.rows)
         /\ journal.rows[i].key = k
  BY <1>1 DEF RowsWithKey
<1>5. \A i \in 1 .. Len(journal.rows) : journal.rows[i] \in WriteRow
  BY <1>1
<1>. QED
  BY <1>3, <1>4, <1>5

(* The identity a payload reports is one.                                   *)
LEMMA IdentityType ==
    ASSUME NEW payload \in Payload
    PROVE  TransactionIdentity(payload) \in Identity \cup {NoIdentity}
  BY ConstantsAssumption DEF TransactionIdentity, Payload, Identity

(* What a validated process appends is a well-formed row.                   *)
LEMMA CommitRowType ==
    ASSUME TypeOK, NEW p \in Procs, pc[p] = "validated"
    PROVE  CommitRow(p) \in WriteRow
<1>. DEFINE v == job[p].preview
            identity == TransactionIdentity(PayloadOf[v])
            duplicate == RowsWithIdentity(identity)
<1>1. /\ job[p] \in Job
      /\ current[p] \in Nat
  BY DEF TypeOK, Times
<1>2. /\ v \in Previews
      /\ job[p].user \in Users
      /\ job[p].approval \in Nat
  BY <1>1 DEF Job
<1>3. /\ KeyOf[v] \in Keys
      /\ PayloadOf[v] \in Payload
  BY <1>2, ConstantsAssumption
<1>4. identity \in Identity \cup {NoIdentity}
  BY <1>3, IdentityType
<1>5. Len(journal.rows) + 1 \in Nat
  BY DEF TypeOK, File
<1>6. CASE duplicate = {}
  BY <1>1, <1>2, <1>3, <1>4, <1>5, <1>6 DEF CommitRow, WriteRow
<1>7. CASE duplicate # {}
  <2>1. /\ First(duplicate) \in Nat
        /\ journal.rows[First(duplicate)].resource \in Previews
    BY <1>7, FirstWithIdentity DEF WriteRow
  <2>. QED
    BY <1>1, <1>2, <1>3, <1>4, <1>7, <2>1 DEF CommitRow, WriteRow
<1>. QED
  BY <1>6, <1>7

--------------------------------------------------------------------------------
(* Type correctness.                                                        *)

LEMMA FinishType ==
    ASSUME TypeOK, NEW p \in Procs, Finish(p)
    PROVE  /\ pc' \in [Procs -> {"idle", "sampled", "validated"}]
           /\ current' \in [Procs -> Times]
           /\ job' \in [Procs -> Job \cup {NoJob}]
           /\ \A q \in Procs : pc'[q] = "validated" => job'[q] \in Job
  BY ConstantsAssumption DEF TypeOK, Finish, Times

LEMMA IssueRowType ==
    ASSUME TypeOK, NEW u \in Users, NEW v \in Previews, NEW t \in Nat
    PROVE  IssueRow(u, v, t) \in ApprovalRow
<1>1. Len(approvals.rows) + 1 \in Nat
  BY DEF TypeOK, File
<1>2. /\ expiry[v] \in Nat
      /\ GrantOf[u].expires \in Nat
      /\ t + ApprovalTtl \in Nat
  BY ConstantsAssumption DEF TypeOK, Grant
<1>3. Lesser(Lesser(t + ApprovalTtl, expiry[v]), GrantOf[u].expires) \in Nat
  BY <1>2 DEF Lesser
<1>. QED
  BY <1>1, <1>3 DEF IssueRow, ApprovalRow

(* A journal append by a process past validation keeps the journal well     *)
(* formed.                                                                  *)
LEMMA AppendType ==
    ASSUME TypeOK, NEW p \in Procs, pc[p] = "validated",
           NEW outcome \in {"full"} \cup Cuts,
           journal' = Write(journal, CommitRow(p), outcome)
    PROVE  journal' \in File(WriteRow)
<1>1. outcome \in Outcomes
  BY ConstantsAssumption DEF Outcomes
<1>2. journal \in File(WriteRow)
  BY DEF TypeOK
<1>3. CommitRow(p) \in WriteRow
  BY CommitRowType
<1>. QED
  BY <1>1, <1>2, <1>3, WriteType

LEMMA ReceiptType ==
    ASSUME NEW row \in WriteRow
    PROVE  ReceiptOf(row) \in Receipt
  BY DEF ReceiptOf, Receipt, WriteRow

LEMMA InitType == Init => TypeOK
<1>. SUFFICES ASSUME Init PROVE TypeOK
  OBVIOUS
<1>1. EmptyFile \in File(ApprovalRow) /\ EmptyFile \in File(WriteRow)
  BY DEF EmptyFile, File
<1>2. 0 \in Times
  BY ConstantsAssumption DEF Times
<1>. QED
  BY <1>1, <1>2 DEF Init, TypeOK

LEMMA NextType == TypeOK /\ [Next]_vars => TypeOK'
<1>. SUFFICES ASSUME TypeOK, [Next]_vars PROVE TypeOK'
  OBVIOUS
<1>1. CASE UNCHANGED vars
  BY <1>1 DEF vars, TypeOK
<1>2. CASE Tick
  BY <1>2, ConstantsAssumption DEF Tick, TypeOK, Times
<1>3. ASSUME NEW v \in Previews, BuildPreview(v)
      PROVE  TypeOK'
  BY <1>3, ConstantsAssumption DEF BuildPreview, TypeOK, Times
<1>4. ASSUME NEW u \in Users, NEW a \in 1 .. MaxApprovalRows, Revoke(u, a)
      PROVE  TypeOK'
  <2>. DEFINE row == [approvals.rows[a] EXCEPT !.event = "approval_revoked"]
  <2>1. PICK outcome \in {"full"} \cup Cuts : approvals' = Write(approvals, row, outcome)
    BY <1>4 DEF Revoke
  <2>2. approvals.rows[a] \in ApprovalRow
    BY <1>4 DEF Revoke, Issued, TypeOK, File
  <2>3. row \in ApprovalRow
    BY <2>2 DEF ApprovalRow
  <2>4. outcome \in Outcomes /\ approvals \in File(ApprovalRow)
    BY ConstantsAssumption DEF Outcomes, TypeOK
  <2>5. approvals' \in File(ApprovalRow)
    BY <2>1, <2>3, <2>4, WriteType
  <2>. QED
    BY <1>4, <2>5 DEF Revoke, TypeOK
<1>5. ASSUME NEW p \in Procs, Sample(p)
      PROVE  TypeOK'
  BY <1>5 DEF Sample, TypeOK
<1>6. ASSUME NEW p \in Procs, NEW u \in Users, NEW v \in Previews, Issue(p, u, v)
      PROVE  TypeOK'
  <2>. DEFINE row == IssueRow(u, v, current[p])
  <2>1. PICK outcome \in {"full"} \cup Cuts : approvals' = Write(approvals, row, outcome)
    BY <1>6 DEF Issue
  <2>2. row \in ApprovalRow
    <3>1. current[p] \in Nat
      BY DEF TypeOK, Times
    <3>. QED
      BY <3>1, IssueRowType
  <2>3. outcome \in Outcomes /\ approvals \in File(ApprovalRow)
    BY ConstantsAssumption DEF Outcomes, TypeOK
  <2>4. approvals' \in File(ApprovalRow)
    BY <2>1, <2>2, <2>3, WriteType
  <2>. QED
    BY <1>6, <2>4, FinishType DEF Issue, TypeOK
<1>7. ASSUME NEW p \in Procs, NEW u \in Users, NEW v \in Previews,
             NEW a \in 0 .. MaxApprovalRows, Validate(p, u, v, a)
      PROVE  TypeOK'
  <2>1. CASE Finish(p)
    BY <1>7, <2>1, FinishType DEF Validate, TypeOK
  <2>2. CASE ~ Finish(p)
    <3>1. [user |-> u, preview |-> v, approval |-> a] \in Job
      BY ConstantsAssumption DEF Job
    <3>. QED
      BY <1>7, <2>2, <3>1 DEF Validate, TypeOK
  <2>. QED
    BY <2>1, <2>2
<1>8. ASSUME NEW p \in Procs, Commit(p)
      PROVE  TypeOK'
  <2>1. pc[p] = "validated"
    BY <1>8 DEF Commit
  <2>2. CommitRow(p) \in WriteRow
    BY <2>1, CommitRowType
  <2>3. CASE Replay(p)
    <3>. DEFINE same == RowsWithKey(KeyOf[job[p].preview])
    <3>1. \/ receipts' = receipts
          \/ receipts' = receipts \cup {ReceiptOf(journal.rows[First(same)])}
      BY <2>3 DEF Replay
    <3>2. journal.rows[First(same)] \in WriteRow
      BY <2>3, FirstWithKey DEF Replay
    <3>3. receipts' \subseteq Receipt
      BY <3>1, <3>2, ReceiptType DEF TypeOK
    <3>4. journal' = journal
      BY <2>3 DEF Replay
    <3>. QED
      BY <1>8, <3>3, <3>4, FinishType DEF Commit, TypeOK
  <2>4. CASE AppendRow(p)
    <3>1. receipts' \subseteq Receipt
      BY <2>2, <2>4, ReceiptType DEF AppendRow, TypeOK
    <3>2. journal' \in File(WriteRow)
      BY <2>1, <2>4, AppendType DEF AppendRow
    <3>. QED
      BY <1>8, <3>1, <3>2, FinishType DEF Commit, TypeOK
  <2>5. CASE UNCHANGED <<journal, receipts>>
    BY <1>8, <2>5, FinishType DEF Commit, TypeOK
  <2>. QED
    BY <1>8, <2>3, <2>4, <2>5 DEF Commit, RefuseIdentity
<1>9. ASSUME NEW p \in Procs, Crash(p)
      PROVE  TypeOK'
  <2>1. journal' \in File(WriteRow)
    BY <1>9, AppendType DEF Crash, TypeOK
  <2>. QED
    BY <1>9, <2>1, FinishType DEF Crash, TypeOK
<1>. QED
  BY <1>1, <1>2, <1>3, <1>4, <1>5, <1>6, <1>7, <1>8, <1>9 DEF Next

(* The write path keeps every variable in its type.                         *)
THEOREM TypeCorrect == Spec => []TypeOK
  BY InitType, NextType, PTL DEF Spec

--------------------------------------------------------------------------------
(* What a step does to the journals.                                        *)

(* Process p completed its row.                                             *)
Appends(p) ==
    /\ pc[p] = "validated"
    /\ Readable(journal)
    /\ RowsWithKey(KeyOf[job[p].preview]) = {}
    /\ ~IdentityConflict(job[p].preview)
    /\ journal'.rows = Append(journal.rows, CommitRow(p))
    /\ UNCHANGED approvals

(* An append was cut: the file is lost to every reader.                     *)
Damaged(f, g) ==
    /\ ~Readable(g)
    /\ Len(g.rows) \in 0 .. Len(f.rows)
    /\ \A i \in 1 .. Len(g.rows) : g.rows[i] = f.rows[i]

LEMMA AppendStep ==
    ASSUME TypeOK, NEW p \in Procs, pc[p] = "validated", Readable(journal),
           RowsWithKey(KeyOf[job[p].preview]) = {}, ~IdentityConflict(job[p].preview),
           UNCHANGED approvals,
           NEW outcome \in {"full"} \cup Cuts,
           journal' = Write(journal, CommitRow(p), outcome)
    PROVE  \/ Appends(p)
           \/ Damaged(journal, journal')
<1>1. outcome \in Outcomes \ {"none"}
  BY ConstantsAssumption DEF Outcomes
<1>2. journal \in File(WriteRow)
  BY DEF TypeOK
<1>3. CommitRow(p) \in WriteRow
  BY CommitRowType
<1>4. \/ journal'.rows = Append(journal.rows, CommitRow(p))
      \/ Damaged(journal, journal')
  BY <1>1, <1>2, <1>3, WriteCases DEF Damaged
<1>. QED
  BY <1>4 DEF Appends

LEMMA JournalStep ==
    ASSUME TypeOK, [Next]_vars
    PROVE  \/ UNCHANGED journal
           \/ \E p \in Procs : Appends(p)
           \/ Damaged(journal, journal')
<1>1. CASE \/ UNCHANGED vars
           \/ Tick
           \/ \E v \in Previews : BuildPreview(v)
           \/ \E u \in Users, a \in 1 .. MaxApprovalRows : Revoke(u, a)
           \/ \E p \in Procs : Sample(p)
  BY <1>1 DEF vars, Tick, BuildPreview, Revoke, Sample
<1>2. CASE \E p \in Procs, u \in Users, v \in Previews :
              \/ Issue(p, u, v)
              \/ \E a \in 0 .. MaxApprovalRows : Validate(p, u, v, a)
  BY <1>2 DEF Issue, Validate
<1>3. ASSUME NEW p \in Procs, Commit(p), journal' # journal
      PROVE  Appends(p) \/ Damaged(journal, journal')
  <2>1. /\ pc[p] = "validated"
        /\ Readable(journal)
        /\ AppendRow(p)
        /\ UNCHANGED approvals
    BY <1>3 DEF Commit, Replay, RefuseIdentity
  <2>. QED
    BY <2>1, AppendStep DEF AppendRow
<1>4. ASSUME NEW p \in Procs, Crash(p), journal' # journal
      PROVE  Appends(p) \/ Damaged(journal, journal')
  BY <1>4, AppendStep DEF Crash
<1>. QED
  BY <1>1, <1>2, <1>3, <1>4 DEF Next

(* The rows of a damaged journal are rows it had.                           *)
LEMMA DamagedRows ==
    ASSUME NEW Row, NEW f \in File(Row), NEW g \in File(Row), Damaged(f, g)
    PROVE  \A i \in DOMAIN g.rows : i \in DOMAIN f.rows /\ g.rows[i] = f.rows[i]
<1>1. f.rows \in Seq(Row) /\ g.rows \in Seq(Row)
  BY DEF File
<1>. QED
  BY <1>1 DEF Damaged

(* The rows of a journal process p appended to.                             *)
LEMMA AppendedRows ==
    ASSUME TypeOK, NEW p \in Procs, Appends(p)
    PROVE  /\ DOMAIN journal'.rows = 1 .. (Len(journal.rows) + 1)
           /\ DOMAIN journal.rows = 1 .. Len(journal.rows)
           /\ Len(journal.rows) \in Nat
           /\ journal'.rows[Len(journal.rows) + 1] = CommitRow(p)
           /\ \A i \in 1 .. Len(journal.rows) : journal'.rows[i] = journal.rows[i]
<1>1. journal.rows \in Seq(WriteRow)
  BY DEF TypeOK, File
<1>2. CommitRow(p) \in WriteRow
  BY CommitRowType DEF Appends
<1>. QED
  BY <1>1, <1>2 DEF Appends

--------------------------------------------------------------------------------
(* The invariants of the write journal.                                     *)

LEMMA OneRowPerKeyStep ==
    ASSUME TypeOK, TypeOK', OneRowPerKey, [Next]_vars
    PROVE  OneRowPerKey'
<1>1. CASE UNCHANGED journal
  BY <1>1 DEF OneRowPerKey
<1>2. ASSUME NEW p \in Procs, Appends(p)
      PROVE  OneRowPerKey'
  <2>1. CommitRow(p).key = KeyOf[job[p].preview]
    BY DEF CommitRow
  <2>2. \A i \in 1 .. Len(journal.rows) : journal.rows[i].key # CommitRow(p).key
    BY <1>2, <2>1, AppendedRows DEF Appends, RowsWithKey
  <2>. DEFINE n == Len(journal.rows) + 1
  <2>3. /\ DOMAIN journal.rows = 1 .. (n - 1)
        /\ DOMAIN journal'.rows = 1 .. n
        /\ n \in Nat \ {0}
        /\ journal'.rows[n].key = CommitRow(p).key
        /\ \A i \in 1 .. (n - 1) : journal'.rows[i] = journal.rows[i]
    BY <1>2, AppendedRows
  <2>4. ASSUME NEW i \in 1 .. n, NEW j \in 1 .. n,
               journal'.rows[i].key = journal'.rows[j].key
        PROVE  i = j
    <3>1. CASE i < n /\ j < n
      <4>1. i \in 1 .. (n - 1) /\ j \in 1 .. (n - 1)
        BY <2>3, <3>1
      <4>2. journal'.rows[i] = journal.rows[i] /\ journal'.rows[j] = journal.rows[j]
        BY <2>3, <4>1
      <4>. HIDE DEF n
      <4>. QED
        BY <2>3, <2>4, <4>1, <4>2 DEF OneRowPerKey
    <3>2. CASE i = n /\ j < n
      BY <2>2, <2>3, <2>4, <3>2
    <3>3. CASE i < n /\ j = n
      BY <2>2, <2>3, <2>4, <3>3
    <3>4. \/ i < n /\ j < n
          \/ i = n /\ j < n
          \/ i < n /\ j = n
          \/ i = n /\ j = n
      BY <2>3
    <3>. QED
      BY <3>1, <3>2, <3>3, <3>4
  <2>. HIDE DEF n
  <2>. QED
    BY <2>3, <2>4 DEF OneRowPerKey
<1>3. CASE Damaged(journal, journal')
  BY <1>3, DamagedRows DEF OneRowPerKey, TypeOK
<1>. QED
  BY <1>1, <1>2, <1>3, JournalStep

LEMMA OneResourcePerIdentityStep ==
    ASSUME TypeOK, TypeOK', OneResourcePerIdentity, [Next]_vars
    PROVE  OneResourcePerIdentity'
<1>1. CASE UNCHANGED journal
  BY <1>1 DEF OneResourcePerIdentity
<1>2. ASSUME NEW p \in Procs, Appends(p)
      PROVE  OneResourcePerIdentity'
  <2>. DEFINE identity == TransactionIdentity(PayloadOf[job[p].preview])
  <2>1. /\ CommitRow(p).identity = identity
        /\ CommitRow(p).event = "resource_commit" => RowsWithIdentity(identity) = {}
    BY DEF CommitRow
  <2>2. ASSUME CommitRow(p).event = "resource_commit", identity # NoIdentity
        PROVE  \A i \in 1 .. Len(journal.rows) : journal.rows[i].identity # identity
    BY <1>2, <2>1, <2>2, AppendedRows DEF RowsWithIdentity
  <2>. DEFINE n == Len(journal.rows) + 1
  <2>3. /\ DOMAIN journal.rows = 1 .. (n - 1)
        /\ DOMAIN journal'.rows = 1 .. n
        /\ n \in Nat \ {0}
        /\ journal'.rows[n] = CommitRow(p)
        /\ \A i \in 1 .. (n - 1) : journal'.rows[i] = journal.rows[i]
    BY <1>2, AppendedRows
  <2>4. ASSUME NEW i \in 1 .. n, NEW j \in 1 .. n,
               journal'.rows[i].event = "resource_commit",
               journal'.rows[j].event = "resource_commit",
               journal'.rows[i].identity # NoIdentity,
               journal'.rows[i].identity = journal'.rows[j].identity
        PROVE  i = j
    <3>1. CASE i < n /\ j < n
      <4>1. i \in 1 .. (n - 1) /\ j \in 1 .. (n - 1)
        BY <2>3, <3>1
      <4>2. journal'.rows[i] = journal.rows[i] /\ journal'.rows[j] = journal.rows[j]
        BY <2>3, <4>1
      <4>. HIDE DEF n
      <4>. QED
        BY <2>3, <2>4, <4>1, <4>2 DEF OneResourcePerIdentity
    <3>2. CASE i = n /\ j < n
      BY <2>1, <2>2, <2>3, <2>4, <3>2
    <3>3. CASE i < n /\ j = n
      BY <2>1, <2>2, <2>3, <2>4, <3>3
    <3>4. \/ i < n /\ j < n
          \/ i = n /\ j < n
          \/ i < n /\ j = n
          \/ i = n /\ j = n
      BY <2>3
    <3>. QED
      BY <3>1, <3>2, <3>3, <3>4
  <2>. HIDE DEF n
  <2>. QED
    BY <2>3, <2>4 DEF OneResourcePerIdentity
<1>3. CASE Damaged(journal, journal')
  BY <1>3, DamagedRows DEF OneResourcePerIdentity, TypeOK
<1>. QED
  BY <1>1, <1>2, <1>3, JournalStep

(* In a journal whose rows point back, the first row with an identity made  *)
(* the resource: a deduplicated row would point at an earlier one.          *)
LEMMA FirstMadeTheResource ==
    ASSUME TypeOK, RowsPointBack, NEW identity, RowsWithIdentity(identity) # {}
    PROVE  journal.rows[First(RowsWithIdentity(identity))].event = "resource_commit"
<1>. DEFINE i == First(RowsWithIdentity(identity))
            n == journal.rows[i].version
<1>1. /\ i \in DOMAIN journal.rows
      /\ identity # NoIdentity
      /\ journal.rows[i].identity = identity
      /\ \A j \in RowsWithIdentity(identity) : i <= j
  BY FirstWithIdentity DEF TypeOK, File
<1>2. ASSUME journal.rows[i].event # "resource_commit" PROVE FALSE
  <2>1. n \in 1 .. (i - 1) /\ journal.rows[n].identity = identity
    BY <1>1, <1>2 DEF RowsPointBack
  <2>2. n \in DOMAIN journal.rows /\ i \in Nat
    <3>1. DOMAIN journal.rows = 1 .. Len(journal.rows) /\ Len(journal.rows) \in Nat
      BY DEF TypeOK, File
    <3>. QED
      BY <1>1, <2>1, <3>1
  <2>3. n \in RowsWithIdentity(identity)
    BY <1>1, <2>1, <2>2 DEF RowsWithIdentity
  <2>. QED
    BY <1>1, <2>1, <2>2, <2>3
<1>. QED
  BY <1>2

LEMMA RowsPointBackStep ==
    ASSUME TypeOK, TypeOK', RowsPointBack, [Next]_vars
    PROVE  RowsPointBack'
<1>1. CASE UNCHANGED journal
  BY <1>1 DEF RowsPointBack
<1>2. ASSUME NEW p \in Procs, Appends(p)
      PROVE  RowsPointBack'
  <2>. DEFINE v == job[p].preview
              identity == TransactionIdentity(PayloadOf[v])
              duplicate == RowsWithIdentity(identity)
              n == Len(journal.rows) + 1
              PointsBack(rows, i) ==
                  IF rows[i].event = "resource_commit" THEN rows[i].version = i
                  ELSE /\ rows[i].version \in 1 .. (i - 1)
                       /\ LET origin == rows[rows[i].version] IN
                          /\ origin.event = "resource_commit"
                          /\ origin.identity = rows[i].identity
                          /\ origin.payload = rows[i].payload
                          /\ origin.resource = rows[i].resource
  <2>0. /\ DOMAIN journal.rows = 1 .. (n - 1)
        /\ DOMAIN journal'.rows = 1 .. n
        /\ n \in Nat \ {0}
        /\ journal'.rows[n] = CommitRow(p)
        /\ \A i \in 1 .. (n - 1) : journal'.rows[i] = journal.rows[i]
    BY <1>2, AppendedRows
  <2>1. ASSUME duplicate = {} PROVE PointsBack(journal'.rows, n)
    <3>1. CommitRow(p).event = "resource_commit" /\ CommitRow(p).version = n
      BY <2>1 DEF CommitRow
    <3>. QED
      BY <2>0, <3>1
  <2>2. ASSUME duplicate # {} PROVE PointsBack(journal'.rows, n)
    <3>. DEFINE i == First(duplicate)
    <3>1. /\ CommitRow(p).event = "operation_deduplicated"
          /\ CommitRow(p).version = i
          /\ CommitRow(p).identity = identity
          /\ CommitRow(p).payload = PayloadOf[v]
          /\ CommitRow(p).resource = journal.rows[i].resource
      BY <2>2 DEF CommitRow
    <3>2. /\ i \in 1 .. Len(journal.rows)
          /\ journal.rows[i].identity = identity
          /\ journal.rows[i].event = "resource_commit"
      BY <2>2, FirstWithIdentity, FirstMadeTheResource
    <3>3. journal.rows[i].payload = PayloadOf[v]
      BY <1>2, <2>2 DEF Appends, IdentityConflict
    <3>4. i \in 1 .. (n - 1) /\ journal'.rows[i] = journal.rows[i]
      BY <2>0, <3>2
    <3>. HIDE DEF i, n
    <3>. QED
      BY <2>0, <3>1, <3>2, <3>3, <3>4
  <2>3. \A i \in 1 .. (n - 1) : PointsBack(journal.rows, i)
    BY <2>0 DEF RowsPointBack
  <2>4. ASSUME NEW i \in 1 .. (n - 1) PROVE PointsBack(journal'.rows, i)
    <3>1. PointsBack(journal.rows, i)
      BY <2>3
    <3>2. CASE journal.rows[i].event = "resource_commit"
      BY <2>0, <3>1, <3>2
    <3>3. CASE journal.rows[i].event # "resource_commit"
      <4>. DEFINE m == journal.rows[i].version
      <4>1. m \in 1 .. (i - 1) /\ m \in 1 .. (n - 1)
        BY <2>0, <3>1, <3>3
      <4>2. journal'.rows[m] = journal.rows[m] /\ journal'.rows[i] = journal.rows[i]
        BY <2>0, <4>1
      <4>. QED
        BY <3>1, <3>3, <4>1, <4>2
    <3>. QED
      BY <3>2, <3>3
  <2>5. \A i \in DOMAIN journal'.rows : PointsBack(journal'.rows, i)
    <3>1. PointsBack(journal'.rows, n)
      BY <2>1, <2>2
    <3>. HIDE DEF PointsBack, n
    <3>. QED
      BY <2>0, <2>4, <3>1
  <2>. QED
    BY <2>5 DEF RowsPointBack
<1>3. CASE Damaged(journal, journal')
  <2>1. \A i \in DOMAIN journal'.rows :
           /\ i \in DOMAIN journal.rows
           /\ journal'.rows[i] = journal.rows[i]
           /\ \A j \in 1 .. (i - 1) : journal'.rows[j] = journal.rows[j]
    BY <1>3, DamagedRows DEF TypeOK, File
  <2>. QED
    BY <2>1 DEF RowsPointBack
<1>. QED
  BY <1>1, <1>2, <1>3, JournalStep

--------------------------------------------------------------------------------
(* The approvals behind the writes.                                         *)

(* While the approval journal can be read its rows only accumulate.         *)
LEMMA ApprovalsKept ==
    ASSUME TypeOK, [Next]_vars, Readable(approvals)'
    PROVE  /\ Readable(approvals)
           /\ \A i \in DOMAIN approvals.rows :
                 /\ i \in DOMAIN approvals'.rows
                 /\ approvals'.rows[i] = approvals.rows[i]
<1>. DEFINE Kept == /\ Readable(approvals)
                    /\ \A i \in DOMAIN approvals.rows :
                          /\ i \in DOMAIN approvals'.rows
                          /\ approvals'.rows[i] = approvals.rows[i]
<1>1. ASSUME NEW row \in ApprovalRow, NEW outcome \in {"full"} \cup Cuts,
             Readable(approvals), approvals' = Write(approvals, row, outcome)
      PROVE  Kept
  <2>1. outcome \in Outcomes \ {"none"} /\ approvals \in File(ApprovalRow)
    BY ConstantsAssumption DEF Outcomes, TypeOK
  <2>2. approvals'.rows = Append(approvals.rows, row)
    BY <1>1, <2>1, WriteCases
  <2>3. approvals.rows \in Seq(ApprovalRow)
    BY DEF TypeOK, File
  <2>. QED
    BY <1>1, <2>2, <2>3
<1>2. CASE UNCHANGED approvals
  BY <1>2
<1>3. ASSUME NEW u \in Users, NEW a \in 1 .. MaxApprovalRows, Revoke(u, a)
      PROVE  Kept
  <2>1. approvals.rows[a] \in ApprovalRow
    BY <1>3 DEF Revoke, Issued, TypeOK, File
  <2>2. [approvals.rows[a] EXCEPT !.event = "approval_revoked"] \in ApprovalRow
    BY <2>1 DEF ApprovalRow
  <2>. QED
    BY <1>1, <1>3, <2>2 DEF Revoke
<1>4. ASSUME NEW p \in Procs, NEW u \in Users, NEW v \in Previews, Issue(p, u, v)
      PROVE  Kept
  <2>1. IssueRow(u, v, current[p]) \in ApprovalRow
    <3>1. current[p] \in Nat
      BY DEF TypeOK, Times
    <3>. QED
      BY <3>1, IssueRowType
  <2>. QED
    BY <1>1, <1>4, <2>1 DEF Issue
<1>5. \/ UNCHANGED approvals
      \/ \E u \in Users, a \in 1 .. MaxApprovalRows : Revoke(u, a)
      \/ \E p \in Procs, u \in Users, v \in Previews : Issue(p, u, v)
  BY DEF Next, vars, Tick, BuildPreview, Sample, Validate, Commit, Crash
<1>. QED
  BY <1>2, <1>3, <1>4, <1>5

(* An approval that backs an operation keeps backing it, as read at that    *)
(* operation's time.                                                        *)
LEMMA BackedKept ==
    ASSUME TypeOK, [Next]_vars, Readable(approvals)',
           NEW a, NEW u, NEW v, NEW t, Backed(a, u, v, t)
    PROVE  /\ a \in DOMAIN approvals'.rows
           /\ approvals'.rows[a].event = "approval_issued"
           /\ approvals'.rows[a].user = u
           /\ approvals'.rows[a].preview = v
           /\ approvals'.rows[a].at <= t
           /\ t < approvals'.rows[a].expires
  BY ApprovalsKept DEF Backed, Issued

LEMMA JobsApprovedStep ==
    ASSUME TypeOK, JobsApproved, [Next]_vars
    PROVE  JobsApproved'
<1>. SUFFICES ASSUME Readable(approvals)', NEW p \in Procs, pc'[p] = "validated"
              PROVE  Backed(job[p].approval, job[p].user, job[p].preview, current[p])'
  BY DEF JobsApproved
<1>1. CASE /\ pc[p] = "validated"
           /\ job'[p] = job[p]
           /\ current'[p] = current[p]
  <2>1. Backed(job[p].approval, job[p].user, job[p].preview, current[p])
    BY <1>1, ApprovalsKept DEF JobsApproved
  <2>. QED
    BY <1>1, <2>1, BackedKept DEF Backed, Issued
<1>2. ASSUME NEW u \in Users, NEW v \in Previews, NEW a \in 0 .. MaxApprovalRows,
             Validate(p, u, v, a)
      PROVE  Backed(job[p].approval, job[p].user, job[p].preview, current[p])'
  <2>1. ~ Finish(p)
    BY DEF Finish, TypeOK
  <2>2. /\ Allowed(u, v, a, current[p])
        /\ job'[p] = [user |-> u, preview |-> v, approval |-> a]
        /\ UNCHANGED <<current, approvals>>
    BY <1>2, <2>1 DEF Validate, TypeOK
  <2>3. Backed(a, u, v, current[p])
    BY <2>2 DEF Allowed, Verified, Backed
  <2>. QED
    BY <2>2, <2>3 DEF Backed, Issued
<1>3. ASSUME NEW q \in Procs,
             \/ Sample(q)
             \/ \E u \in Users, v \in Previews : Issue(q, u, v)
             \/ Commit(q)
             \/ Crash(q)
      PROVE  /\ pc[p] = "validated"
             /\ job'[p] = job[p]
             /\ current'[p] = current[p]
  BY <1>3 DEF Sample, Issue, Commit, Crash, Finish, TypeOK
<1>4. ASSUME NEW q \in Procs, q # p,
             NEW u \in Users, NEW v \in Previews, NEW a \in 0 .. MaxApprovalRows,
             Validate(q, u, v, a)
      PROVE  /\ pc[p] = "validated"
             /\ job'[p] = job[p]
             /\ current'[p] = current[p]
  BY <1>4 DEF Validate, Finish, TypeOK
<1>5. CASE \/ UNCHANGED vars
           \/ Tick
           \/ \E v \in Previews : BuildPreview(v)
           \/ \E u \in Users, a \in 1 .. MaxApprovalRows : Revoke(u, a)
  BY <1>1, <1>5 DEF vars, Tick, BuildPreview, Revoke
<1>. QED
  BY <1>1, <1>2, <1>3, <1>4, <1>5 DEF Next

LEMMA WritesApprovedStep ==
    ASSUME TypeOK, TypeOK', JobsApproved, WritesApproved, [Next]_vars
    PROVE  WritesApproved'
<1>. DEFINE Approved(row) ==
        \E v : /\ Backed(row.approval, row.user, v, row.at)
              /\ PayloadOf[v] = row.payload
              /\ KeyOf[v] = row.key
<1>. SUFFICES ASSUME Readable(approvals)', NEW i \in DOMAIN journal'.rows
              PROVE  Approved(journal.rows[i])'
  BY DEF WritesApproved, Backed
<1>1. Readable(approvals)
  BY ApprovalsKept
<1>2. ASSUME i \in DOMAIN journal.rows, journal'.rows[i] = journal.rows[i]
      PROVE  Approved(journal.rows[i])'
  <2>1. Approved(journal.rows[i])
    BY <1>1, <1>2 DEF WritesApproved, Backed
  <2>2. PICK v : /\ Backed(journal.rows[i].approval, journal.rows[i].user, v,
                           journal.rows[i].at)
                 /\ PayloadOf[v] = journal.rows[i].payload
                 /\ KeyOf[v] = journal.rows[i].key
    BY <2>1
  <2>3. Backed(journal.rows[i].approval, journal.rows[i].user, v, journal.rows[i].at)'
    BY <1>2, <2>2, BackedKept DEF Backed, Issued
  <2>. QED
    BY <1>2, <2>2, <2>3
<1>3. CASE UNCHANGED journal
  BY <1>2, <1>3
<1>4. ASSUME NEW p \in Procs, Appends(p)
      PROVE  Approved(journal.rows[i])'
  <2>. DEFINE n == Len(journal.rows) + 1
  <2>1. CASE i = n
    <3>1. journal'.rows[i] = CommitRow(p)
      BY <1>4, <2>1, AppendedRows
    <3>2. Backed(job[p].approval, job[p].user, job[p].preview, current[p])
      BY <1>1, <1>4 DEF JobsApproved, Appends
    <3>3. /\ CommitRow(p).approval = job[p].approval
          /\ CommitRow(p).user = job[p].user
          /\ CommitRow(p).at = current[p]
          /\ CommitRow(p).payload = PayloadOf[job[p].preview]
          /\ CommitRow(p).key = KeyOf[job[p].preview]
      BY DEF CommitRow
    <3>4. approvals' = approvals
      BY <1>4 DEF Appends
    <3>. QED
      BY <3>1, <3>2, <3>3, <3>4 DEF Backed, Issued
  <2>2. CASE i # n
    <3>1. i \in DOMAIN journal.rows /\ journal'.rows[i] = journal.rows[i]
      BY <1>4, <2>2, AppendedRows
    <3>. QED
      BY <1>2, <3>1
  <2>. QED
    BY <2>1, <2>2
<1>5. CASE Damaged(journal, journal')
  BY <1>2, <1>5, DamagedRows DEF TypeOK
<1>. QED
  BY <1>3, <1>4, <1>5, JournalStep

--------------------------------------------------------------------------------
(* The receipts handed to callers.                                          *)

LEMMA ReceiptStep ==
    ASSUME TypeOK, [Next]_vars
    PROVE  \/ UNCHANGED receipts
           \/ \E i \in DOMAIN journal.rows :
                 /\ Readable(journal)
                 /\ UNCHANGED journal
                 /\ receipts' = receipts \cup {ReceiptOf(journal.rows[i])}
           \/ \E p \in Procs :
                 /\ Readable(journal)
                 /\ RowsWithKey(KeyOf[job[p].preview]) = {}
                 /\ Appends(p) \/ Damaged(journal, journal')
                 /\ receipts' = receipts \cup {ReceiptOf(CommitRow(p))}
<1>1. ASSUME NEW p \in Procs, Commit(p), Replay(p), receipts' # receipts
      PROVE  \E i \in DOMAIN journal.rows :
                /\ Readable(journal)
                /\ UNCHANGED journal
                /\ receipts' = receipts \cup {ReceiptOf(journal.rows[i])}
  <2>. DEFINE i == First(RowsWithKey(KeyOf[job[p].preview]))
  <2>1. i \in DOMAIN journal.rows
    BY <1>1, FirstWithKey DEF Replay, TypeOK, File
  <2>2. Readable(journal)
    BY <1>1 DEF Commit
  <2>3. /\ UNCHANGED journal
        /\ receipts' = receipts \cup {ReceiptOf(journal.rows[i])}
    BY <1>1 DEF Replay
  <2>. QED
    BY <2>1, <2>2, <2>3
<1>2. ASSUME NEW p \in Procs, Commit(p), AppendRow(p), receipts' # receipts
      PROVE  /\ Readable(journal)
             /\ RowsWithKey(KeyOf[job[p].preview]) = {}
             /\ Appends(p) \/ Damaged(journal, journal')
             /\ receipts' = receipts \cup {ReceiptOf(CommitRow(p))}
  <2>1. /\ pc[p] = "validated"
        /\ Readable(journal)
        /\ UNCHANGED approvals
    BY <1>2 DEF Commit, AppendRow
  <2>. QED
    BY <1>2, <2>1, AppendStep DEF AppendRow
<1>3. \/ UNCHANGED receipts
      \/ \E p \in Procs : Commit(p)
  BY DEF Next, vars, Tick, BuildPreview, Revoke, Sample, Issue, Validate, Crash
<1>4. \A p \in Procs : Commit(p) => \/ Replay(p)
                                    \/ AppendRow(p)
                                    \/ UNCHANGED receipts
  BY DEF Commit, RefuseIdentity
<1>. QED
  BY <1>1, <1>2, <1>3, <1>4

LEMMA ReceiptsDurableStep ==
    ASSUME TypeOK, TypeOK', ReceiptsDurableWhileReadable, [Next]_vars
    PROVE  ReceiptsDurableWhileReadable'
<1>. DEFINE Recorded(r) == \E i \in DOMAIN journal.rows : ReceiptOf(journal.rows[i]) = r
<1>. SUFFICES ASSUME Readable(journal)', NEW r \in receipts'
              PROVE  Recorded(r)'
  BY DEF ReceiptsDurableWhileReadable, ReceiptsDurable
<1>1. ~ Damaged(journal, journal')
  BY DEF Damaged
<1>2. /\ Readable(journal)
      /\ \A i \in DOMAIN journal.rows :
            i \in DOMAIN journal'.rows /\ journal'.rows[i] = journal.rows[i]
  <2>1. CASE UNCHANGED journal
    BY <2>1
  <2>2. ASSUME NEW p \in Procs, Appends(p)
        PROVE  /\ Readable(journal)
               /\ \A i \in DOMAIN journal.rows :
                     i \in DOMAIN journal'.rows /\ journal'.rows[i] = journal.rows[i]
    BY <2>2, AppendedRows DEF Appends
  <2>. QED
    BY <1>1, <2>1, <2>2, JournalStep
<1>3. ASSUME Recorded(r) PROVE Recorded(r)'
  BY <1>2, <1>3 DEF ReceiptOf
<1>4. CASE r \in receipts
  BY <1>2, <1>3, <1>4 DEF ReceiptsDurableWhileReadable, ReceiptsDurable
<1>5. ASSUME NEW i \in DOMAIN journal.rows, r = ReceiptOf(journal.rows[i])
      PROVE  Recorded(r)'
  BY <1>3, <1>5
<1>6. ASSUME NEW p \in Procs, Appends(p), r = ReceiptOf(CommitRow(p))
      PROVE  Recorded(r)'
  <2>. DEFINE n == Len(journal.rows) + 1
  <2>1. n \in DOMAIN journal'.rows /\ journal'.rows[n] = CommitRow(p)
    BY <1>6, AppendedRows
  <2>. QED
    BY <1>6, <2>1 DEF ReceiptOf
<1>. QED
  BY <1>1, <1>4, <1>5, <1>6, ReceiptStep

LEMMA ReceiptsAgreeStep ==
    ASSUME TypeOK, OneRowPerKey, ReceiptsDurableWhileReadable, ReceiptsAgree, [Next]_vars
    PROVE  ReceiptsAgree'
<1>1. CASE UNCHANGED receipts
  BY <1>1 DEF ReceiptsAgree
<1>2. ASSUME NEW new, Readable(journal), receipts' = receipts \cup {new},
             \A r \in receipts : r.key = new.key => r = new
      PROVE  ReceiptsAgree'
  BY <1>2 DEF ReceiptsAgree
<1>3. ASSUME Readable(journal), NEW r \in receipts
      PROVE  \E j \in DOMAIN journal.rows : ReceiptOf(journal.rows[j]) = r
  BY <1>3 DEF ReceiptsDurableWhileReadable, ReceiptsDurable
<1>4. ASSUME NEW i \in DOMAIN journal.rows, Readable(journal),
             receipts' = receipts \cup {ReceiptOf(journal.rows[i])}
      PROVE  ReceiptsAgree'
  <2>. DEFINE new == ReceiptOf(journal.rows[i])
  <2>1. ASSUME NEW r \in receipts, r.key = new.key
        PROVE  r = new
    <3>1. PICK j \in DOMAIN journal.rows : ReceiptOf(journal.rows[j]) = r
      BY <1>3, <1>4
    <3>2. journal.rows[j].key = journal.rows[i].key
      BY <2>1, <3>1 DEF ReceiptOf
    <3>. QED
      BY <3>1, <3>2 DEF OneRowPerKey
  <2>. QED
    BY <1>2, <1>4, <2>1
<1>5. ASSUME NEW p \in Procs, Readable(journal),
             RowsWithKey(KeyOf[job[p].preview]) = {},
             receipts' = receipts \cup {ReceiptOf(CommitRow(p))}
      PROVE  ReceiptsAgree'
  <2>. DEFINE new == ReceiptOf(CommitRow(p))
  <2>1. new.key = KeyOf[job[p].preview]
    BY DEF ReceiptOf, CommitRow
  <2>2. ASSUME NEW r \in receipts, r.key = new.key
        PROVE  FALSE
    <3>1. PICK j \in DOMAIN journal.rows : ReceiptOf(journal.rows[j]) = r
      BY <1>3, <1>5
    <3>2. journal.rows[j].key = KeyOf[job[p].preview]
      BY <2>1, <2>2, <3>1 DEF ReceiptOf
    <3>. QED
      BY <1>5, <3>1, <3>2 DEF RowsWithKey
  <2>. QED
    BY <1>2, <1>5, <2>2
<1>. QED
  BY <1>1, <1>4, <1>5, ReceiptStep

--------------------------------------------------------------------------------
(* The inductive invariant.  WritesApproved needs what a validated apply    *)
(* knows of its approval; agreement of the receipts needs that they are in  *)
(* the journal, once per key.                                               *)
IInv ==
    /\ TypeOK
    /\ JobsApproved
    /\ WritesApproved
    /\ OneRowPerKey
    /\ OneResourcePerIdentity
    /\ RowsPointBack
    /\ ReceiptsDurableWhileReadable
    /\ ReceiptsAgree

LEMMA InitIInv == Init => IInv
<1>. SUFFICES ASSUME Init PROVE IInv
  OBVIOUS
<1>1. DOMAIN journal.rows = {} /\ receipts = {}
  BY DEF Init, EmptyFile
<1>2. JobsApproved
  BY DEF Init, JobsApproved
<1>. QED
  BY <1>1, <1>2, InitType
     DEF IInv, WritesApproved, OneRowPerKey, OneResourcePerIdentity, RowsPointBack,
         ReceiptsDurableWhileReadable, ReceiptsDurable, ReceiptsAgree

LEMMA NextIInv == IInv /\ [Next]_vars => IInv'
<1>. SUFFICES ASSUME IInv, [Next]_vars PROVE IInv'
  OBVIOUS
<1>1. TypeOK'
  BY NextType DEF IInv
<1>2. JobsApproved' /\ WritesApproved'
  BY <1>1, JobsApprovedStep, WritesApprovedStep DEF IInv
<1>3. OneRowPerKey' /\ OneResourcePerIdentity' /\ RowsPointBack'
  BY <1>1, OneRowPerKeyStep, OneResourcePerIdentityStep, RowsPointBackStep DEF IInv
<1>4. ReceiptsDurableWhileReadable' /\ ReceiptsAgree'
  BY <1>1, ReceiptsDurableStep, ReceiptsAgreeStep DEF IInv
<1>. QED
  BY <1>1, <1>2, <1>3, <1>4 DEF IInv

LEMMA Inductive == Spec => []IInv
  BY InitIInv, NextIInv, PTL DEF Spec

(* What an apply verified before it takes the write lock still holds when   *)
(* it has it.                                                               *)
THEOREM JobsAreApproved == Spec => []JobsApproved
<1>1. IInv => JobsApproved
  BY DEF IInv
<1>. QED
  BY <1>1, Inductive, PTL

(* No write is journalled without an approval that was issued to its user   *)
(* for its payload and was in force when the write sampled its time.        *)
THEOREM WritesAreApproved == Spec => []WritesApproved
<1>1. IInv => WritesApproved
  BY DEF IInv
<1>. QED
  BY <1>1, Inductive, PTL

(* An idempotency key reaches the journal once.                             *)
THEOREM KeysAreUnique == Spec => []OneRowPerKey
<1>1. IInv => OneRowPerKey
  BY DEF IInv
<1>. QED
  BY <1>1, Inductive, PTL

(* An execution becomes at most one canonical resource.                     *)
THEOREM IdentitiesAreUnique == Spec => []OneResourcePerIdentity
<1>1. IInv => OneResourcePerIdentity
  BY DEF IInv
<1>. QED
  BY <1>1, Inductive, PTL

(* A deduplicated row refers to the earlier row that made its resource.     *)
THEOREM RowsDoPointBack == Spec => []RowsPointBack
<1>1. IInv => RowsPointBack
  BY DEF IInv
<1>. QED
  BY <1>1, Inductive, PTL

(* Every caller is told the same of a key, torn journals included.          *)
THEOREM ReceiptsDoAgree == Spec => []ReceiptsAgree
<1>1. IInv => ReceiptsAgree
  BY DEF IInv
<1>. QED
  BY <1>1, Inductive, PTL

(* While the journal can be read, it holds every operation reported done.   *)
THEOREM ReceiptsAreDurable == Spec => []ReceiptsDurableWhileReadable
<1>1. IInv => ReceiptsDurableWhileReadable
  BY DEF IInv
<1>. QED
  BY <1>1, Inductive, PTL

--------------------------------------------------------------------------------
(* What a step may never do.                                                *)

(* No step touches a journal that does not parse.                           *)
THEOREM DamageStaysPut == Spec => CorruptStaysPut
<1>1. [Next]_vars =>
         [ /\ ~Readable(journal) => UNCHANGED journal
           /\ ~Readable(approvals) => UNCHANGED approvals ]_vars
  BY DEF Next, vars, Tick, BuildPreview, Revoke, Sample, Issue, Validate, Commit, Crash
<1>. QED
  BY <1>1, PTL DEF Spec, CorruptStaysPut

(* After its revocation is journalled an approval is adopted by no apply,   *)
(* and once no apply holds it, it backs no further row.                     *)
THEOREM RevocationsAreFinal == Spec => RevocationIsFinal
<1>. DEFINE Spent(a) ==
        /\ Revoked(a)
        /\ \A p \in Procs : pc[p] = "validated" => job[p].approval # a
            Unused(a) ==
        /\ \A p \in Procs : pc'[p] = "validated" => job'[p].approval # a
        /\ \A i \in DOMAIN journal'.rows \ DOMAIN journal.rows :
              journal'.rows[i].approval # a
<1>1. ASSUME TypeOK, Next, NEW a \in 1 .. MaxApprovalRows, Spent(a)
      PROVE  Unused(a)
  <2>1. ASSUME NEW p \in Procs, pc'[p] = "validated"
        PROVE  job'[p].approval # a
    <3>1. CASE pc[p] = "validated" /\ job'[p] = job[p]
      BY <1>1, <3>1
    <3>2. ASSUME NEW u \in Users, NEW v \in Previews, NEW b \in 0 .. MaxApprovalRows,
                 Validate(p, u, v, b)
          PROVE  job'[p].approval # a
      <4>1. ~ Finish(p)
        BY <1>1, <2>1 DEF Finish, TypeOK
      <4>2. /\ Allowed(u, v, b, current[p])
            /\ job'[p] = [user |-> u, preview |-> v, approval |-> b]
        BY <1>1, <3>2, <4>1 DEF Validate, TypeOK
      <4>3. ~ Revoked(b)
        BY <4>2 DEF Allowed, Verified
      <4>. QED
        BY <1>1, <4>2, <4>3
    <3>3. ASSUME NEW q \in Procs,
                 \/ Sample(q)
                 \/ \E u \in Users, v \in Previews : Issue(q, u, v)
                 \/ Commit(q)
                 \/ Crash(q)
          PROVE  pc[p] = "validated" /\ job'[p] = job[p]
      BY <1>1, <2>1, <3>3 DEF Sample, Issue, Commit, Crash, Finish, TypeOK
    <3>4. ASSUME NEW q \in Procs, q # p,
                 NEW u \in Users, NEW v \in Previews, NEW b \in 0 .. MaxApprovalRows,
                 Validate(q, u, v, b)
          PROVE  pc[p] = "validated" /\ job'[p] = job[p]
      BY <1>1, <2>1, <3>4 DEF Validate, Finish, TypeOK
    <3>5. CASE \/ Tick
               \/ \E v \in Previews : BuildPreview(v)
               \/ \E u \in Users, b \in 1 .. MaxApprovalRows : Revoke(u, b)
      BY <2>1, <3>1, <3>5 DEF Tick, BuildPreview, Revoke
    <3>. QED
      BY <1>1, <3>1, <3>2, <3>3, <3>4, <3>5 DEF Next
  <2>2. ASSUME NEW i \in DOMAIN journal'.rows \ DOMAIN journal.rows
        PROVE  journal'.rows[i].approval # a
    <3>1. CASE UNCHANGED journal
      BY <2>2, <3>1
    <3>2. ASSUME NEW p \in Procs, Appends(p)
          PROVE  journal'.rows[i].approval # a
      <4>1. journal'.rows[i] = CommitRow(p)
        BY <1>1, <2>2, <3>2, AppendedRows
      <4>2. CommitRow(p).approval = job[p].approval
        BY DEF CommitRow
      <4>. QED
        BY <1>1, <3>2, <4>1, <4>2 DEF Appends
    <3>3. CASE Damaged(journal, journal')
      <4>1. TypeOK'
        BY <1>1, NextType
      <4>. QED
        BY <1>1, <2>2, <3>3, <4>1, DamagedRows DEF TypeOK
    <3>. QED
      BY <1>1, <3>1, <3>2, <3>3, JournalStep
  <2>. QED
    BY <2>1, <2>2
<1>2. TypeOK /\ [Next]_vars =>
         [\A a \in 1 .. MaxApprovalRows : Spent(a) => Unused(a)]_vars
  BY <1>1
<1>. QED
  BY <1>2, TypeCorrect, PTL DEF Spec, RevocationIsFinal

--------------------------------------------------------------------------------
(* The write path implements the ledger, for any processes, previews and    *)
(* approvals, as long as no append is cut.                                  *)

(* What a row says of the resource it created is what its preview said.     *)
RowsNamed ==
    \A i \in DOMAIN journal.rows :
        LET row == journal.rows[i] IN
        /\ row.identity = TransactionIdentity(row.payload)
        /\ row.event = "resource_commit" =>
               /\ row.key = KeyOf[row.resource]
               /\ row.payload = PayloadOf[row.resource]

(* The journal can be read and its last record is complete.                 *)
Whole == Readable(journal) /\ ~journal.open

LInv == IInv /\ RowsNamed /\ Whole

LEMMA CommitRowNamed ==
    ASSUME NEW p \in Procs
    PROVE  LET row == CommitRow(p) IN
           /\ row.identity = TransactionIdentity(row.payload)
           /\ row.event = "resource_commit" =>
                  /\ row.key = KeyOf[row.resource]
                  /\ row.payload = PayloadOf[row.resource]
  BY DEF CommitRow

LEMMA WholeStep ==
    ASSUME Cuts = {}, TypeOK, Whole, [Next]_vars
    PROVE  Whole' /\ (UNCHANGED journal \/ \E p \in Procs : Appends(p))
<1>1. \/ UNCHANGED journal
      \/ \E p \in Procs : journal' = Write(journal, CommitRow(p), "full")
  BY DEF Next, vars, Tick, BuildPreview, Revoke, Sample, Issue, Validate, Commit,
         Replay, AppendRow, RefuseIdentity, Crash
<1>2. Whole'
  <2>1. CASE UNCHANGED journal
    BY <2>1 DEF Whole, Readable
  <2>2. ASSUME NEW p \in Procs, journal' = Write(journal, CommitRow(p), "full")
        PROVE  Whole'
    <3>1. /\ journal'.torn = (journal.open \/ "full" = "partial")
          /\ journal'.open = (~journal.open /\ "full" = "no_newline")
      BY <2>2, Zenon DEF Write
    <3>. QED
      BY <3>1, Zenon DEF Whole, Readable
  <2>. QED
    BY <1>1, <2>1, <2>2
<1>3. ~ Damaged(journal, journal')
  BY <1>2 DEF Damaged, Whole, Readable
<1>. QED
  BY <1>2, <1>3, JournalStep

LEMMA LInvInductive ==
    ASSUME Cuts = {}
    PROVE  Spec => []LInv
<1>1. Init => LInv
  BY InitIInv DEF Init, EmptyFile, LInv, RowsNamed, Whole, Readable
<1>2. LInv /\ [Next]_vars => LInv'
  <2>. SUFFICES ASSUME LInv, [Next]_vars PROVE RowsNamed'
    BY NextIInv, WholeStep DEF LInv, IInv
  <2>1. CASE UNCHANGED journal
    BY <2>1 DEF LInv, RowsNamed
  <2>2. ASSUME NEW p \in Procs, Appends(p)
        PROVE  RowsNamed'
    <3>. DEFINE n == Len(journal.rows)
    <3>1. /\ DOMAIN journal'.rows = 1 .. (n + 1)
          /\ DOMAIN journal.rows = 1 .. n
          /\ n \in Nat
          /\ journal'.rows[n + 1] = CommitRow(p)
          /\ \A i \in 1 .. n : journal'.rows[i] = journal.rows[i]
      BY <2>2, AppendedRows DEF LInv, IInv
    <3>. HIDE DEF n
    <3>. SUFFICES ASSUME NEW i \in 1 .. (n + 1)
                  PROVE  LET row == journal'.rows[i] IN
                         /\ row.identity = TransactionIdentity(row.payload)
                         /\ row.event = "resource_commit" =>
                                /\ row.key = KeyOf[row.resource]
                                /\ row.payload = PayloadOf[row.resource]
      BY <3>1 DEF RowsNamed
    <3>2. CASE i = n + 1
      BY <3>1, <3>2, CommitRowNamed
    <3>3. CASE i \in 1 .. n
      BY <3>1, <3>3 DEF LInv, RowsNamed
    <3>. QED
      BY <3>1, <3>2, <3>3
  <2>. QED
    BY <2>1, <2>2, WholeStep DEF LInv, IInv
<1>. QED
  BY <1>1, <1>2, PTL DEF Spec

--------------------------------------------------------------------------------
(* A canonical resource of the ledger is one a row created, under its own   *)
(* key, payload and execution.                                              *)
LEMMA CanonicalRow ==
    ASSUME LInv, NEW w \in CanonicalResources
    PROVE  /\ w \in Previews
           /\ RowsWithKey(KeyOf[w]) # {}
           /\ TransactionIdentity(PayloadOf[w]) # NoIdentity =>
                  RowsWithIdentity(TransactionIdentity(PayloadOf[w])) # {}
<1>1. PICK i \in DOMAIN journal.rows :
         journal.rows[i].event = "resource_commit" /\ journal.rows[i].resource = w
  BY DEF CanonicalResources
<1>2. journal.rows \in Seq(WriteRow)
  BY DEF LInv, IInv, TypeOK, File
<1>3. w \in Previews
  <2>1. journal.rows[i] \in WriteRow
    BY <1>2
  <2>. QED
    BY <1>1, <2>1 DEF WriteRow
<1>4. /\ journal.rows[i].key = KeyOf[w]
      /\ journal.rows[i].identity = TransactionIdentity(PayloadOf[w])
  BY <1>1 DEF LInv, RowsNamed
<1>5. i \in RowsWithKey(KeyOf[w])
  BY <1>4 DEF RowsWithKey
<1>6. TransactionIdentity(PayloadOf[w]) # NoIdentity =>
          i \in RowsWithIdentity(TransactionIdentity(PayloadOf[w]))
  BY <1>4 DEF RowsWithIdentity
<1>. QED
  BY <1>3, <1>5, <1>6

(* The outcomes of the keys after an append: the key of the row is settled  *)
(* on its resource, the others are as they were.                            *)
LEMMA OutcomeStep ==
    ASSUME LInv, NEW p \in Procs, Appends(p), NEW k, k = KeyOf[job[p].preview]
    PROVE  /\ k \in Keys
           /\ Outcome[k] = NoJob
           /\ Outcome' = [Outcome EXCEPT ![k] = CommitRow(p).resource]
<1>. DEFINE n == Len(journal.rows)
<1>1. /\ DOMAIN journal'.rows = 1 .. (n + 1)
      /\ DOMAIN journal.rows = 1 .. n
      /\ n \in Nat
      /\ journal'.rows[n + 1] = CommitRow(p)
      /\ \A i \in 1 .. n : journal'.rows[i] = journal.rows[i]
  BY AppendedRows DEF LInv, IInv
<1>2. k \in Keys
  <2>1. job[p].preview \in Previews
    BY DEF LInv, IInv, TypeOK, Appends, Job
  <2>. QED
    BY <2>1, ConstantsAssumption
<1>3. RowsWithKey(k) = {}
  BY DEF Appends
<1>4. CommitRow(p).key = k
  BY DEF CommitRow
<1>. HIDE DEF n
<1>5. RowsWithKey(k)' = {n + 1}
  <2>1. \A i \in 1 .. n : journal.rows[i].key # k
    BY <1>1, <1>3 DEF RowsWithKey
  <2>2. RowsWithKey(k)' = {i \in 1 .. (n + 1) : journal'.rows[i].key = k}
    BY <1>1 DEF RowsWithKey
  <2>3. \A i \in 1 .. n : journal'.rows[i].key # k
    BY <1>1, <2>1
  <2>4. journal'.rows[n + 1].key = k
    BY <1>1, <1>4
  <2>5. n + 1 \in 1 .. (n + 1) /\ \A i \in 1 .. (n + 1) : i \in 1 .. n \/ i = n + 1
    BY <1>1
  <2>. QED
    BY <2>2, <2>3, <2>4, <2>5
<1>6. ASSUME NEW j \in Keys, j # k
      PROVE  {i \in DOMAIN journal'.rows : journal'.rows[i].key = j} = RowsWithKey(j)
  BY <1>1, <1>4, <1>6 DEF RowsWithKey
<1>7. ASSUME NEW j \in Keys
      PROVE  Outcome'[j] = IF j = k THEN CommitRow(p).resource ELSE Outcome[j]
  <2>1. Outcome'[j] =
            IF RowsWithKey(j)' = {} THEN NoJob
            ELSE journal'.rows[First(RowsWithKey(j)')].resource
    BY DEF Outcome
  <2>2. CASE j = k
    <3>1. First({n + 1}) = n + 1
      BY <1>1 DEF First
    <3>2. RowsWithKey(j)' = {n + 1}
      BY <1>5, <2>2
    <3>. QED
      BY <1>1, <2>1, <2>2, <3>1, <3>2
  <2>3. CASE j # k
    <3>1. RowsWithKey(j)' = RowsWithKey(j)
      BY <1>6, <2>3 DEF RowsWithKey
    <3>2. RowsWithKey(j) # {} => First(RowsWithKey(j)) \in 1 .. n
      BY <1>1, FirstWithKey DEF LInv, IInv, n
    <3>3. Outcome[j] = IF RowsWithKey(j) = {} THEN NoJob
                       ELSE journal.rows[First(RowsWithKey(j))].resource
      BY DEF Outcome
    <3>. QED
      BY <1>1, <2>1, <2>3, <3>1, <3>2, <3>3
  <2>. QED
    BY <2>2, <2>3
<1>8. Outcome[k] = NoJob
  BY <1>2, <1>3 DEF Outcome
<1>9. Outcome' = [Outcome EXCEPT ![k] = CommitRow(p).resource]
  <2>1. DOMAIN Outcome = Keys /\ DOMAIN Outcome' = Keys
    BY DEF Outcome
  <2>2. Outcome = [j \in Keys |-> Outcome[j]] /\ Outcome' = [j \in Keys |-> Outcome'[j]]
    BY DEF Outcome
  <2>. QED
    BY <1>2, <1>7, <2>1, <2>2
<1>. QED
  BY <1>2, <1>8, <1>9

(* The resources after an append: a fresh one is added, or none.            *)
LEMMA CanonicalStep ==
    ASSUME LInv, NEW p \in Procs, Appends(p)
    PROVE  CanonicalResources' =
               IF CommitRow(p).event = "resource_commit"
               THEN CanonicalResources \cup {CommitRow(p).resource}
               ELSE CanonicalResources
<1>. DEFINE n == Len(journal.rows)
<1>1. /\ DOMAIN journal'.rows = 1 .. (n + 1)
      /\ DOMAIN journal.rows = 1 .. n
      /\ n \in Nat
      /\ journal'.rows[n + 1] = CommitRow(p)
      /\ \A i \in 1 .. n : journal'.rows[i] = journal.rows[i]
  BY AppendedRows DEF LInv, IInv
<1>. HIDE DEF n
<1>2. ASSUME NEW w
      PROVE  w \in CanonicalResources' <=>
                 \/ w \in CanonicalResources
                 \/ CommitRow(p).event = "resource_commit" /\ w = CommitRow(p).resource
  <2>1. w \in CanonicalResources <=>
            \E i \in 1 .. n : journal.rows[i].event = "resource_commit"
                             /\ journal.rows[i].resource = w
    BY <1>1 DEF CanonicalResources
  <2>2. w \in CanonicalResources' <=>
            \E i \in 1 .. (n + 1) : journal'.rows[i].event = "resource_commit"
                                   /\ journal'.rows[i].resource = w
    BY <1>1 DEF CanonicalResources
  <2>3. \A i : i \in 1 .. (n + 1) <=> i \in 1 .. n \/ i = n + 1
    BY <1>1
  <2>. QED
    BY <1>1, <2>1, <2>2, <2>3
<1>. QED
  BY <1>2

(* A fresh row creates a resource of the ledger.                            *)
LEMMA FreshCreates ==
    ASSUME LInv, NEW p \in Procs, Appends(p),
           NEW v \in Previews, v = job[p].preview,
           RowsWithIdentity(TransactionIdentity(PayloadOf[v])) = {}
    PROVE  Ledger!Create(v)
<1>1. CommitRow(p).event = "resource_commit" /\ CommitRow(p).resource = v
  BY DEF CommitRow
<1>2. v \notin CanonicalResources
  BY CanonicalRow DEF Appends
<1>3. \A w \in CanonicalResources : ~Ledger!SameExecution(v, w)
  BY CanonicalRow DEF Ledger!SameExecution
<1>4. Ledger!Settle(v, v)
  BY <1>1, OutcomeStep DEF Ledger!Settle
<1>5. CanonicalResources' = CanonicalResources \cup {v}
  BY <1>1, CanonicalStep
<1>. QED
  BY <1>2, <1>3, <1>4, <1>5 DEF Ledger!Create

(* A deduplicated row reuses a resource of the ledger.                      *)
LEMMA DuplicateReuses ==
    ASSUME LInv, NEW p \in Procs, Appends(p),
           NEW v \in Previews, v = job[p].preview,
           RowsWithIdentity(TransactionIdentity(PayloadOf[v])) # {}
    PROVE  \E w \in Previews : Ledger!Reuse(v, w)
<1>. DEFINE identity == TransactionIdentity(PayloadOf[v])
            row == journal.rows[First(RowsWithIdentity(identity))]
            w == row.resource
<1>1. /\ First(RowsWithIdentity(identity)) \in DOMAIN journal.rows
      /\ row \in WriteRow
      /\ identity # NoIdentity
      /\ row.identity = identity
  <2>1. journal.rows \in Seq(WriteRow)
    BY DEF LInv, IInv, TypeOK, File
  <2>. QED
    BY <2>1, FirstWithIdentity DEF LInv, IInv
<1>2. row.event = "resource_commit"
  BY FirstMadeTheResource DEF LInv, IInv
<1>3. row.payload = PayloadOf[v]
  BY DEF Appends, IdentityConflict
<1>4. /\ CommitRow(p).event = "operation_deduplicated"
      /\ CommitRow(p).resource = w
  BY DEF CommitRow
<1>5. w \in CanonicalResources
  BY <1>1, <1>2 DEF CanonicalResources
<1>6. w \in Previews /\ PayloadOf[w] = PayloadOf[v]
  BY <1>1, <1>2, <1>3 DEF LInv, RowsNamed, WriteRow
<1>. HIDE DEF w, row
<1>7. Ledger!SameExecution(v, w)
  BY <1>1, <1>6 DEF Ledger!SameExecution
<1>8. Ledger!Settle(v, w)
  BY <1>4, OutcomeStep DEF Ledger!Settle
<1>9. CanonicalResources' = CanonicalResources
  BY <1>4, CanonicalStep
<1>. QED
  BY <1>5, <1>6, <1>7, <1>8, <1>9 DEF Ledger!Reuse

(* With no cut appends, under every interleaving and crash, the journal     *)
(* settles keys and creates resources only as the ledger allows.            *)
THEOREM JournalImplementsLedger ==
    ASSUME Cuts = {}
    PROVE  Spec => ImplementsLedger
<1>1. Init => Ledger!Init
  BY DEF Init, EmptyFile, Ledger!Init, CanonicalResources, Outcome, RowsWithKey
<1>2. LInv /\ [Next]_vars => [Ledger!Next]_<<CanonicalResources, Outcome>>
  <2>. SUFFICES ASSUME LInv, [Next]_vars
                PROVE  [Ledger!Next]_<<CanonicalResources, Outcome>>
    OBVIOUS
  <2>1. CASE UNCHANGED journal
    BY <2>1 DEF CanonicalResources, Outcome, RowsWithKey
  <2>2. ASSUME NEW p \in Procs, Appends(p)
        PROVE  Ledger!Next
    <3>1. PICK v \in Previews : v = job[p].preview
      BY <2>2 DEF LInv, IInv, TypeOK, Appends, Job
    <3>. QED
      BY <2>2, <3>1, FreshCreates, DuplicateReuses DEF Ledger!Next
  <2>. QED
    BY <2>1, <2>2, WholeStep DEF LInv, IInv
<1>. QED
  BY <1>1, <1>2, LInvInductive, PTL DEF Spec, ImplementsLedger, Ledger!Spec
================================================================================
