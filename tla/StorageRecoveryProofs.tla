-------------------------- MODULE StorageRecoveryProofs --------------------------
(***************************************************************************)
(* Proofs about StorageRecovery, for any writers, backups, bounds and cut   *)
(* writes.                                                                  *)
(***************************************************************************)
EXTENDS StorageRecovery, TLAPS

(***************************************************************************)
(* What an append to a journal file can do (JournalFile).                   *)
(***************************************************************************)
(* An append leaves a well-formed file.                                     *)
LEMMA WriteType ==
    ASSUME NEW Records, NEW f \in File(Records), NEW row \in Records, NEW outcome \in Outcomes
    PROVE  Write(f, row, outcome) \in File(Records)
<1>1. SubSeq(f.rows, 1, Len(f.rows) - 1) \in Seq(Records)
  <2>1. f.rows \in Seq(Records)
    BY DEF File
  <2>2. \A i \in 1 .. (Len(f.rows) - 1) : f.rows[i] \in Records
    BY <2>1
  <2>. QED
    BY <2>1, <2>2
<1>2. Append(f.rows, row) \in Seq(Records)
  BY DEF File
<1>. QED
  BY <1>1, <1>2 DEF Write, File, Outcomes

(* An append does one of three things: nothing, when it never started; it   *)
(* adds the record; or it leaves a file that no longer parses, whose        *)
(* records are a prefix of what they were.                                  *)
LEMMA WriteCases ==
    ASSUME NEW Records, NEW f \in File(Records), NEW row \in Records, NEW outcome \in Outcomes
    PROVE  LET g == Write(f, row, outcome) IN
           \/ outcome = "none" /\ g = f
           \/ /\ g.rows = Append(f.rows, row)
              /\ Readable(g)
           \/ /\ ~Readable(g)
              /\ Len(g.rows) \in 0 .. Len(f.rows)
              /\ \A i \in 1 .. Len(g.rows) : g.rows[i] = f.rows[i]
<1>. DEFINE g == Write(f, row, outcome)
<1>1. CASE outcome = "none"
  BY <1>1 DEF Write
<1>2. CASE outcome # "none" /\ f.open
  <2>1. g.rows = SubSeq(f.rows, 1, Len(f.rows) - 1) /\ ~Readable(g)
    BY <1>2 DEF Write, Readable
  <2>2. f.rows \in Seq(Records)
    BY DEF File
  <2>3. Len(g.rows) \in 0 .. Len(f.rows)
    BY <2>1, <2>2
  <2>4. \A i \in 1 .. Len(g.rows) : g.rows[i] = f.rows[i]
    BY <2>1, <2>2
  <2>. QED
    BY <2>1, <2>3, <2>4
<1>3. CASE outcome = "partial" /\ ~f.open
  <2>1. g.rows = f.rows /\ ~Readable(g)
    BY <1>3 DEF Write, Readable
  <2>2. f.rows \in Seq(Records)
    BY DEF File
  <2>. QED
    BY <2>1, <2>2
<1>4. CASE outcome \in {"no_newline", "full"} /\ ~f.open
  BY <1>4 DEF Write, Readable, File
<1>. QED
  BY <1>1, <1>2, <1>3, <1>4 DEF Outcomes

(* What a backup has read is what the journals say: it holds every lock     *)
(* from its first read on, so nobody has written since.                     *)
CopiesCurrent ==
    \A b \in Backups :
        /\ Len(copied[b]) <= Len(LockOrder)
        /\ \A i \in 1 .. Len(copied[b]) : copied[b][i] = root[LockOrder[i]]

(* Every backup was valid when it was taken.                                *)
SnapshotsValid == \A n \in DOMAIN snapshots : Valid(snapshots[n].sums)

(* What a restore has staged is valid, and what the backup took unless the  *)
(* backup changed after it was verified.                                    *)
StagedWhole ==
    restore # Nothing =>
        /\ restore.backup \in DOMAIN snapshots
        /\ ~restore.touched =>
               snapshots[restore.backup].files = snapshots[restore.backup].sums
        /\ restore.files # Nothing =>
               /\ Valid(restore.files)
               /\ ~restore.touched => restore.files = snapshots[restore.backup].sums

TargetKnown == target \notin {Nothing, InUse} => target.backup \in DOMAIN snapshots

(* Only the keeper writes checkpoints, and all of each.                     *)
CheckpointsComplete == ~root["checkpoint"].torn /\ ~root["checkpoint"].open

(* While the approvals can be read, every row and every approval a writer   *)
(* holds is among them.                                                     *)
ApprovalsCover ==
    Readable(root["approval"]) =>
        /\ \A w \in Writers :
               holding[w] # Nothing => holding[w] \in DOMAIN Rows("approval")
        /\ \A j \in {"write", "knowledge"} :
               \A i \in DOMAIN Rows(j) : Rows(j)[i].ref \in DOMAIN Rows("approval")

(* While the writes can be read, every checkpoint and the cursor about to   *)
(* be written stay within them.                                             *)
WritesCover ==
    Readable(root["write"]) =>
        /\ \A i \in DOMAIN Rows("checkpoint") : Rows("checkpoint")[i].ref <= Len(Rows("write"))
        /\ cursor # Nothing => cursor <= Len(Rows("write"))

(* Cursors do not go back, the one about to be written included.            *)
CursorsAdvance ==
    /\ cursor # Nothing =>
           \A i \in DOMAIN Rows("checkpoint") : Rows("checkpoint")[i].ref <= cursor
    /\ \A i \in DOMAIN Rows("checkpoint") :
           i > 1 => Rows("checkpoint")[i - 1].ref <= Rows("checkpoint")[i].ref

(* A backup is refused only for a journal that is damaged, or one with a    *)
(* row that quotes a separator.                                             *)
RefusedForItsLines ==
    \A b \in Backups : refused[b] => \E j \in Journals : ~Parses(root[j])

(* What backups and restores rest on.                                       *)
BackupsHold ==
    /\ CopiesCurrent /\ SnapshotsValid /\ StagedWhole /\ TargetKnown /\ RestoredWhole
    /\ RefusedForItsLines

(* What the journals say of each other.                                     *)
JournalsAgree == CheckpointsComplete /\ ApprovalsCover /\ WritesCover /\ CursorsAdvance

IInv == TypeOK /\ BackupsHold /\ JournalsAgree

--------------------------------------------------------------------------------
(* Where writers may write, no backup has read anything.                    *)
LEMMA NobodyHasRead ==
    ASSUME TypeOK, NEW j \in Journals, Free(j), NEW b \in Backups
    PROVE  copied[b] = << >>
<1>1. \E i \in 1 .. Len(LockOrder) : LockOrder[i] = j
  BY DEF Journals, LockOrder
<1>2. j \notin {LockOrder[i] : i \in 1 .. locked[b]}
  BY DEF Free
<1>3. locked[b] # Len(LockOrder)
  BY <1>1, <1>2
<1>. QED
  BY <1>3 DEF TypeOK

(* What four copies of the journals make up is the root.                    *)
LEMMA FourCopiesAreTheRoot ==
    ASSUME TypeOK, CopiesCurrent, NEW b \in Backups, Len(copied[b]) = Len(LockOrder)
    PROVE  FilesOf(copied[b]) = root
<1>. DEFINE place(j) == CHOOSE i \in DOMAIN LockOrder : LockOrder[i] = j
<1>1. ASSUME NEW j \in Journals
      PROVE  copied[b][place(j)] = root[j]
  <2>1. \E i \in DOMAIN LockOrder : LockOrder[i] = j
    BY DEF Journals, LockOrder
  <2>2. place(j) \in DOMAIN LockOrder /\ LockOrder[place(j)] = j
    BY <2>1
  <2>3. DOMAIN LockOrder = 1 .. Len(copied[b])
    BY DEF LockOrder
  <2>. HIDE DEF place
  <2>. QED
    BY <2>2, <2>3 DEF CopiesCurrent
<1>2. FilesOf(copied[b]) = [j \in Journals |-> copied[b][place(j)]]
  BY DEF FilesOf
<1>3. root = [j \in Journals |-> root[j]]
  BY DEF TypeOK, Files
<1>. QED
  BY <1>1, <1>2, <1>3

(* An append adds the row or leaves a journal that does not parse.          *)
LEMMA AppendedOrTorn ==
    ASSUME NEW f \in File(Row), NEW row \in Row,
           NEW outcome \in {"partial", "no_newline", "full"}
    PROVE  LET g == Write(f, row, outcome) IN
           /\ g \in File(Row)
           /\ Readable(g) => g.rows = Append(f.rows, row)
           /\ \A i \in DOMAIN g.rows :
                  g.rows[i] = row \/ (i \in DOMAIN f.rows /\ g.rows[i] = f.rows[i])
<1>. DEFINE g == Write(f, row, outcome)
<1>1. g \in File(Row) /\ f.rows \in Seq(Row) /\ g.rows \in Seq(Row)
  BY WriteType DEF Outcomes, File
<1>2. \/ g.rows = Append(f.rows, row) /\ Readable(g)
      \/ /\ ~Readable(g)
         /\ Len(g.rows) \in 0 .. Len(f.rows)
         /\ \A i \in 1 .. Len(g.rows) : g.rows[i] = f.rows[i]
  BY WriteCases DEF Outcomes
<1>3. /\ Readable(g) => g.rows = Append(f.rows, row)
      /\ \A i \in DOMAIN g.rows :
             g.rows[i] = row \/ (i \in DOMAIN f.rows /\ g.rows[i] = f.rows[i])
  <2>. HIDE DEF g
  <2>1. CASE g.rows = Append(f.rows, row)
    <3>1. \A i \in DOMAIN Append(f.rows, row) :
              \/ Append(f.rows, row)[i] = row
              \/ i \in DOMAIN f.rows /\ Append(f.rows, row)[i] = f.rows[i]
      BY <1>1
    <3>. QED
      BY <2>1, <3>1
  <2>2. CASE /\ ~Readable(g)
             /\ Len(g.rows) \in 0 .. Len(f.rows)
             /\ \A i \in 1 .. Len(g.rows) : g.rows[i] = f.rows[i]
    <3>1. /\ DOMAIN g.rows = 1 .. Len(g.rows)
          /\ DOMAIN f.rows = 1 .. Len(f.rows) /\ Len(f.rows) \in Nat
      BY <1>1
    <3>2. DOMAIN g.rows \subseteq DOMAIN f.rows
      BY <2>2, <3>1
    <3>. QED
      BY <2>2, <3>1, <3>2
  <2>. QED
    BY <1>2, <2>1, <2>2
<1>. QED
  BY <1>1, <1>3

(* A row that a journal can take is a row, with its reference.              *)
LEMMA RowHolds ==
    ASSUME NEW j, NEW ref \in Nat, NEW row \in RowsOf(j, ref)
    PROVE  row \in Row /\ row.ref = ref
  BY DEF RowsOf, Row

(* The step of a writer that appends: its journal grows or is torn, the     *)
(* others are as they were.                                                 *)
LEMMA AppendStep ==
    ASSUME TypeOK, NEW j \in Journals, NEW ref \in Nat, AppendTo(j, ref)
    PROVE  /\ root' \in Files
           /\ \A k \in Journals : k # j => root'[k] = root[k]
           /\ Readable(root[j])
           /\ Readable(root'[j]) => Len(root'[j].rows) = Len(root[j].rows) + 1
           /\ Parses(root'[j]) => Parses(root[j])
           /\ \A i \in DOMAIN root'[j].rows :
                  \/ root'[j].rows[i].ref = ref
                  \/ i \in DOMAIN root[j].rows /\ root'[j].rows[i] = root[j].rows[i]
<1>1. PICK row \in RowsOf(j, ref), outcome \in {"partial", "no_newline", "full"} :
          root' = [root EXCEPT ![j] = Write(@, row, outcome)]
  BY ConstantsAssumption DEF AppendTo
<1>2. root[j] \in File(Row) /\ row \in Row /\ row.ref = ref
  BY RowHolds DEF TypeOK, Files
<1>. DEFINE g == Write(root[j], row, outcome)
<1>3. /\ g \in File(Row)
      /\ Readable(g) => g.rows = Append(root[j].rows, row)
      /\ \A i \in DOMAIN g.rows :
             g.rows[i] = row \/ (i \in DOMAIN root[j].rows /\ g.rows[i] = root[j].rows[i])
  BY <1>2, AppendedOrTorn
<1>4. root' = [root EXCEPT ![j] = g]
  BY <1>1
<1>. HIDE DEF g
<1>5. Readable(root[j])
  BY DEF AppendTo
<1>6. Len(Append(root[j].rows, row)) = Len(root[j].rows) + 1
  BY <1>2 DEF File
<1>8. Parses(g) => Parses(root[j])
  <2>1. \A i \in DOMAIN root[j].rows :
            /\ i \in DOMAIN Append(root[j].rows, row)
            /\ Append(root[j].rows, row)[i] = root[j].rows[i]
    BY <1>2 DEF File
  <2>. QED
    BY <1>3, <1>5, <2>1 DEF Parses
<1>7. root' \in Files /\ root'[j] = g /\ \A k \in Journals : k # j => root'[k] = root[k]
  BY <1>3, <1>4 DEF TypeOK, Files
<1>. QED
  BY <1>2, <1>3, <1>5, <1>6, <1>7, <1>8

(* A checkpoint is written whole.                                           *)
LEMMA CheckpointStep ==
    ASSUME TypeOK, CheckpointsComplete, AppendCheckpoint
    PROVE  /\ root' \in Files
           /\ \A k \in Journals : k # "checkpoint" => root'[k] = root[k]
           /\ \E row \in Row :
                  /\ row.ref = cursor
                  /\ root'["checkpoint"] = [rows |-> Append(Rows("checkpoint"), row),
                                            torn |-> FALSE, open |-> FALSE]
           /\ Parses(root'["checkpoint"]) => Parses(root["checkpoint"])
           /\ cursor \in Nat
<1>1. cursor \in Nat /\ root["checkpoint"] \in File(Row)
  BY DEF TypeOK, AppendCheckpoint, Files, Journals
<1>2. PICK row \in RowsOf("checkpoint", cursor) :
          root' = [root EXCEPT !["checkpoint"] = Write(@, row, "full")]
  BY DEF AppendCheckpoint
<1>3. row \in Row /\ row.ref = cursor
  BY <1>1, RowHolds
<1>. DEFINE g == Write(root["checkpoint"], row, "full")
<1>4. root' = [root EXCEPT !["checkpoint"] = g]
  BY <1>2
<1>5. g = [rows |-> Append(Rows("checkpoint"), row), torn |-> FALSE, open |-> FALSE]
  BY DEF Write, CheckpointsComplete, Rows
<1>6. g \in File(Row)
  BY <1>1, <1>3, WriteType DEF Outcomes
<1>. HIDE DEF g
<1>7. root' \in Files /\ root'["checkpoint"] = g
      /\ \A k \in Journals : k # "checkpoint" => root'[k] = root[k]
  BY <1>4, <1>6 DEF TypeOK, Files, Journals
<1>8. Parses(g) => Parses(root["checkpoint"])
  <2>1. \A i \in DOMAIN Rows("checkpoint") :
            /\ i \in DOMAIN Append(Rows("checkpoint"), row)
            /\ Append(Rows("checkpoint"), row)[i] = Rows("checkpoint")[i]
    BY <1>1 DEF File, Rows
  <2>2. Readable(root["checkpoint"])
    BY DEF CheckpointsComplete, Readable
  <2>. QED
    BY <1>5, <2>1, <2>2 DEF Parses, Rows
<1>. QED
  BY <1>1, <1>3, <1>5, <1>7, <1>8

--------------------------------------------------------------------------------
backupVars == <<locked, copied, refused, snapshots, restore, target>>

(* A writer that appends where it may takes nothing from a backup, when a   *)
(* journal that does not parse stays so.                                    *)
LEMMA WritersKeepBackups ==
    ASSUME TypeOK, BackupsHold, UNCHANGED backupVars,
           NEW j \in Journals, Free(j),
           Parses(root'[j]) => Parses(root[j]),
           \A k \in Journals : k # j => root'[k] = root[k]
    PROVE  BackupsHold'
<1>1. CopiesCurrent'
  BY NobodyHasRead DEF CopiesCurrent, backupVars, LockOrder
<1>2. SnapshotsValid' /\ StagedWhole' /\ TargetKnown' /\ RestoredWhole'
  BY DEF BackupsHold, SnapshotsValid, StagedWhole, TargetKnown, RestoredWhole, backupVars
<1>3. RefusedForItsLines'
  <2>1. \A k \in Journals : ~Parses(root[k]) => ~Parses(root'[k])
    OBVIOUS
  <2>. QED
    BY <2>1 DEF BackupsHold, RefusedForItsLines, backupVars
<1>. QED
  BY <1>1, <1>2, <1>3 DEF BackupsHold

LEMMA SameRootKeepsAgreement ==
    ASSUME TypeOK, JournalsAgree, UNCHANGED <<root, holding, cursor>>
    PROVE  JournalsAgree'
  BY DEF JournalsAgree, CheckpointsComplete, ApprovalsCover, WritesCover, CursorsAdvance, Rows

--------------------------------------------------------------------------------
(* The writers' steps.                                                      *)
LEMMA IssueHolds ==
    ASSUME IInv, NEW w \in Writers, Issue(w)
    PROVE  IInv'
<1>. USE DEF IInv
<1>1. AppendTo("approval", 0) /\ Free("approval")
  BY DEF Issue, AppendTo
<1>2. /\ root' \in Files
      /\ \A k \in Journals : k # "approval" => root'[k] = root[k]
      /\ Readable(root["approval"])
      /\ Readable(root'["approval"]) =>
             Len(root'["approval"].rows) = Len(root["approval"].rows) + 1
      /\ Parses(root'["approval"]) => Parses(root["approval"])
  BY <1>1, AppendStep DEF Journals
<1>3. BackupsHold'
  <2>1. UNCHANGED backupVars
    BY DEF Issue, backupVars
  <2>. QED
    BY <1>1, <1>2, <2>1, WritersKeepBackups DEF Journals
<1>. DEFINE held == IF Readable(root'["approval"]) THEN Len(root'["approval"].rows) ELSE Nothing
<1>4. holding' = [holding EXCEPT ![w] = held]
  BY DEF Issue
<1>5. root["approval"].rows \in Seq(Row) /\ root'["approval"].rows \in Seq(Row)
  BY <1>2 DEF TypeOK, Files, File, Journals
<1>6. held \in Nat \cup {Nothing}
  BY <1>5
<1>7. Readable(root'["approval"]) =>
          /\ DOMAIN root["approval"].rows \subseteq DOMAIN root'["approval"].rows
          /\ held \in DOMAIN root'["approval"].rows
  BY <1>2, <1>5
<1>. HIDE DEF held
<1>8. TypeOK'
  BY <1>2, <1>4, <1>6 DEF Issue, TypeOK
<1>9. ApprovalsCover'
  <2>. SUFFICES ASSUME Readable(root'["approval"])
                PROVE  /\ \A v \in Writers :
                              holding'[v] # Nothing => holding'[v] \in DOMAIN root'["approval"].rows
                       /\ \A j \in {"write", "knowledge"} :
                              \A i \in DOMAIN root'[j].rows :
                                  root'[j].rows[i].ref \in DOMAIN root'["approval"].rows
    BY DEF ApprovalsCover, Rows
  <2>1. ApprovalsCover /\ Readable(root["approval"])
    BY <1>2 DEF JournalsAgree
  <2>2. ASSUME NEW v \in Writers, holding'[v] # Nothing
        PROVE  holding'[v] \in DOMAIN root'["approval"].rows
    BY <1>4, <1>7, <2>1, <2>2 DEF ApprovalsCover, Rows, TypeOK
  <2>3. ASSUME NEW j \in {"write", "knowledge"}, NEW i \in DOMAIN root'[j].rows
        PROVE  root'[j].rows[i].ref \in DOMAIN root'["approval"].rows
    BY <1>2, <1>7, <2>1 DEF ApprovalsCover, Rows, Journals
  <2>. QED
    BY <2>2, <2>3
<1>10. CheckpointsComplete' /\ WritesCover' /\ CursorsAdvance'
  BY <1>2 DEF Issue, JournalsAgree, CheckpointsComplete, WritesCover, CursorsAdvance, Rows, Journals
<1>. QED
  BY <1>3, <1>8, <1>9, <1>10 DEF JournalsAgree

LEMMA CommitHolds ==
    ASSUME IInv, NEW w \in Writers, NEW j \in {"write", "knowledge"}, Commit(w, j)
    PROVE  IInv'
<1>. USE DEF IInv
<1>1. /\ holding[w] \in Nat
      /\ holding[w] # Nothing
      /\ AppendTo(j, holding[w]) /\ Free(j)
  BY DEF Commit, AppendTo, TypeOK
<1>2. /\ root' \in Files
      /\ \A k \in Journals : k # j => root'[k] = root[k]
      /\ Readable(root[j])
      /\ Readable(root'[j]) => Len(root'[j].rows) = Len(root[j].rows) + 1
      /\ Parses(root'[j]) => Parses(root[j])
  BY <1>1, AppendStep DEF Journals
<1>3. BackupsHold'
  <2>1. UNCHANGED backupVars
    BY DEF Commit, backupVars
  <2>. QED
    BY <1>1, <1>2, <2>1, WritersKeepBackups DEF Journals
<1>4. holding' = [holding EXCEPT ![w] = Nothing]
  BY DEF Commit
<1>5. TypeOK'
  BY <1>2, <1>4 DEF Commit, TypeOK
<1>. DEFINE before == root[j].rows
            after == root'[j].rows
<1>6. before \in Seq(Row) /\ after \in Seq(Row)
  BY <1>2 DEF TypeOK, Files, File, Journals
<1>7. root'["approval"] = root["approval"] /\ root'["checkpoint"] = root["checkpoint"]
  BY <1>2 DEF Journals
<1>8. \A i \in DOMAIN after :
          after[i].ref = holding[w] \/ (i \in DOMAIN before /\ after[i] = before[i])
  BY <1>1, AppendStep DEF Journals
<1>9. CheckpointsComplete' /\ CursorsAdvance'
  BY <1>7 DEF Commit, JournalsAgree, CheckpointsComplete, CursorsAdvance, Rows
<1>10. ApprovalsCover'
  <2>. SUFFICES ASSUME Readable(root["approval"])
                PROVE  /\ \A v \in Writers :
                              holding'[v] # Nothing => holding'[v] \in DOMAIN Rows("approval")
                       /\ \A k \in {"write", "knowledge"} :
                              \A i \in DOMAIN root'[k].rows :
                                  root'[k].rows[i].ref \in DOMAIN Rows("approval")
    BY <1>7 DEF ApprovalsCover, Rows
  <2>1. ApprovalsCover
    BY DEF JournalsAgree
  <2>2. holding[w] \in DOMAIN Rows("approval")
    BY <1>1, <2>1 DEF ApprovalsCover
  <2>3. ASSUME NEW v \in Writers, holding'[v] # Nothing
        PROVE  holding'[v] \in DOMAIN Rows("approval")
    BY <1>4, <2>1, <2>3 DEF ApprovalsCover, TypeOK
  <2>4. ASSUME NEW k \in {"write", "knowledge"}, NEW i \in DOMAIN root'[k].rows
        PROVE  root'[k].rows[i].ref \in DOMAIN Rows("approval")
    <3>1. CASE k = j
      BY <1>8, <2>1, <2>2, <2>4, <3>1 DEF ApprovalsCover, Rows
    <3>2. CASE k # j
      BY <1>2, <2>1, <2>4, <3>2 DEF ApprovalsCover, Rows, Journals
    <3>. QED
      BY <3>1, <3>2
  <2>. QED
    BY <2>3, <2>4
<1>11. WritesCover'
  <2>1. CASE j = "knowledge"
    BY <1>2, <1>7, <2>1 DEF Commit, JournalsAgree, WritesCover, Rows, Journals
  <2>2. CASE j = "write"
    <3>. SUFFICES ASSUME Readable(root'["write"])
                  PROVE  /\ \A i \in DOMAIN Rows("checkpoint") :
                                Rows("checkpoint")[i].ref <= Len(after)
                         /\ cursor # Nothing => cursor <= Len(after)
      BY <1>7, <2>2 DEF Commit, WritesCover, Rows
    <3>1. Len(after) = Len(before) + 1
      BY <1>2, <2>2
    <3>2. /\ Len(before) \in Nat /\ cursor \in Nat \cup {Nothing}
          /\ \A i \in DOMAIN Rows("checkpoint") : Rows("checkpoint")[i].ref \in Nat
      <4>1. Rows("checkpoint") \in Seq(Row)
        BY DEF TypeOK, Files, File, Journals, Rows
      <4>2. \A i \in DOMAIN Rows("checkpoint") : Rows("checkpoint")[i] \in Row
        BY <4>1
      <4>. QED
        BY <1>6, <4>2 DEF TypeOK, Row
    <3>3. /\ \A i \in DOMAIN Rows("checkpoint") : Rows("checkpoint")[i].ref <= Len(before)
          /\ cursor # Nothing => cursor <= Len(before)
      BY <1>2, <2>2 DEF JournalsAgree, WritesCover, Rows
    <3>. HIDE DEF before, after
    <3>. QED
      BY <3>1, <3>2, <3>3
  <2>. QED
    BY <2>1, <2>2
<1>. QED
  BY <1>3, <1>5, <1>9, <1>10, <1>11 DEF JournalsAgree

LEMMA CheckCursorHolds ==
    ASSUME IInv, CheckCursor
    PROVE  IInv'
<1>. USE DEF IInv
<1>1. PICK n \in 0 .. Len(Rows("write")) :
          /\ \A i \in DOMAIN Rows("checkpoint") : Rows("checkpoint")[i].ref <= n
          /\ cursor' = n
  BY DEF CheckCursor
<1>2. n \in Nat /\ n <= Len(Rows("write"))
  <2>1. Rows("write") \in Seq(Row)
    BY DEF TypeOK, Files, File, Journals, Rows
  <2>. QED
    BY <2>1
<1>3. TypeOK'
  BY <1>1, <1>2 DEF CheckCursor, TypeOK
<1>4. BackupsHold'
  BY DEF CheckCursor, BackupsHold, CopiesCurrent, SnapshotsValid, StagedWhole, TargetKnown,
         RestoredWhole, RefusedForItsLines
<1>5. JournalsAgree'
  BY <1>1, <1>2 DEF CheckCursor, JournalsAgree, CheckpointsComplete, ApprovalsCover,
                    WritesCover, CursorsAdvance, Rows
<1>. QED
  BY <1>3, <1>4, <1>5

LEMMA AppendCheckpointHolds ==
    ASSUME IInv, AppendCheckpoint
    PROVE  IInv'
<1>. USE DEF IInv
<1>. DEFINE before == Rows("checkpoint")
<1>1. /\ root' \in Files
      /\ \A k \in Journals : k # "checkpoint" => root'[k] = root[k]
      /\ \E row \in Row :
             /\ row.ref = cursor
             /\ root'["checkpoint"] = [rows |-> Append(before, row), torn |-> FALSE, open |-> FALSE]
      /\ Parses(root'["checkpoint"]) => Parses(root["checkpoint"])
      /\ cursor \in Nat
  BY CheckpointStep DEF JournalsAgree
<1>a. PICK row \in Row :
          /\ row.ref = cursor
          /\ root'["checkpoint"] = [rows |-> Append(before, row), torn |-> FALSE, open |-> FALSE]
  BY <1>1
<1>2. BackupsHold'
  <2>1. UNCHANGED backupVars /\ Free("checkpoint")
    BY DEF AppendCheckpoint, backupVars
  <2>. QED
    BY <1>1, <2>1, WritersKeepBackups DEF Journals
<1>3. TypeOK'
  BY <1>1 DEF AppendCheckpoint, TypeOK
<1>4. before \in Seq(Row)
  BY DEF TypeOK, Files, File, Journals, Rows
<1>5. /\ cursor # Nothing /\ cursor' = Nothing /\ holding' = holding
      /\ root'["write"] = root["write"]
      /\ root'["knowledge"] = root["knowledge"]
      /\ root'["approval"] = root["approval"]
  BY <1>1 DEF AppendCheckpoint, Journals
<1>6. CheckpointsComplete' /\ ApprovalsCover'
  BY <1>a, <1>5 DEF JournalsAgree, CheckpointsComplete, ApprovalsCover, Rows
<1>. DEFINE after == Append(before, row)
<1>7. /\ \A i \in DOMAIN after :
             \/ i \in DOMAIN before /\ after[i] = before[i]
             \/ i = Len(before) + 1 /\ after[i].ref = cursor
      /\ DOMAIN before = 1 .. Len(before) /\ Len(before) \in Nat
      /\ \A i \in DOMAIN before : before[i].ref \in Nat
  <2>. HIDE DEF before
  <2>1. \A i \in DOMAIN after :
            \/ i \in DOMAIN before /\ after[i] = before[i]
            \/ i = Len(before) + 1 /\ after[i] = row
    BY <1>4
  <2>2. \A i \in DOMAIN before : before[i] \in Row
    BY <1>4
  <2>. QED
    BY <1>a, <1>4, <2>1, <2>2 DEF Row
<1>8. Rows("checkpoint")' = after
  BY <1>a DEF Rows
<1>9. WritesCover'
  <2>1. Readable(root["write"]) =>
            \A i \in DOMAIN after : after[i].ref <= Len(Rows("write"))
    BY <1>5, <1>7 DEF JournalsAgree, WritesCover
  <2>. QED
    BY <1>5, <1>8, <2>1 DEF WritesCover, Rows
<1>10. CursorsAdvance'
  <2>1. ASSUME NEW i \in DOMAIN after, i > 1
        PROVE  after[i - 1].ref <= after[i].ref
    <3>1. i \in Nat /\ i - 1 \in DOMAIN before /\ after[i - 1] = before[i - 1]
      BY <1>a, <1>4, <2>1
    <3>2. CASE i \in DOMAIN before /\ after[i] = before[i]
      BY <2>1, <3>1, <3>2 DEF JournalsAgree, CursorsAdvance
    <3>3. CASE after[i].ref = cursor
      BY <1>5, <3>1, <3>3 DEF JournalsAgree, CursorsAdvance
    <3>. QED
      BY <1>7, <3>2, <3>3
  <2>. QED
    BY <1>5, <1>8, <2>1 DEF CursorsAdvance
<1>. QED
  BY <1>2, <1>3, <1>6, <1>9, <1>10 DEF JournalsAgree

LEMMA CrashWriterHolds ==
    ASSUME IInv, NEW w \in Writers, CrashWriter(w)
    PROVE  IInv'
<1>. USE DEF IInv
<1>1. TypeOK'
  BY DEF CrashWriter, TypeOK
<1>2. BackupsHold'
  BY DEF CrashWriter, BackupsHold, CopiesCurrent, SnapshotsValid, StagedWhole, TargetKnown,
         RestoredWhole, RefusedForItsLines
<1>3. CheckpointsComplete' /\ WritesCover' /\ CursorsAdvance'
  BY DEF CrashWriter, JournalsAgree, CheckpointsComplete, WritesCover, CursorsAdvance, Rows
<1>4. ApprovalsCover'
  BY DEF CrashWriter, JournalsAgree, ApprovalsCover, Rows, TypeOK
<1>. QED
  BY <1>1, <1>2, <1>3, <1>4 DEF JournalsAgree

--------------------------------------------------------------------------------
(* The steps of a backup.                                                   *)
LEMMA TakeLockHolds ==
    ASSUME IInv, NEW b \in Backups, TakeLock(b)
    PROVE  IInv'
<1>. USE DEF IInv
<1>1. locked[b] \in 0 .. 3 /\ locked' = [locked EXCEPT ![b] = locked[b] + 1]
  BY DEF TakeLock, TypeOK, LockOrder
<1>2. TypeOK'
  BY <1>1 DEF TakeLock, TypeOK, LockOrder
<1>3. BackupsHold'
  BY DEF TakeLock, TypeOK, BackupsHold, CopiesCurrent, SnapshotsValid, StagedWhole, TargetKnown,
         RestoredWhole, RefusedForItsLines
<1>. QED
  BY <1>2, <1>3, SameRootKeepsAgreement DEF TakeLock

LEMMA ReadJournalHolds ==
    ASSUME IInv, NEW b \in Backups, ReadJournal(b)
    PROVE  IInv'
<1>. USE DEF IInv
<1>. DEFINE next == Len(copied[b]) + 1
            file == root[LockOrder[next]]
<1>1. copied[b] \in Seq(File(Row)) /\ Len(copied[b]) \in Nat /\ next \in 1 .. Len(LockOrder)
  BY DEF ReadJournal, TypeOK, LockOrder
<1>2. file \in File(Row)
  BY <1>1 DEF TypeOK, Files, Journals, LockOrder
<1>3. copied' = [copied EXCEPT ![b] = Append(copied[b], file)]
  BY DEF ReadJournal
<1>4. Append(copied[b], file) \in Seq(File(Row))
  BY <1>1, <1>2
<1>5. TypeOK'
  <2>. HIDE DEF file, next
  <2>1. copied' \in [Backups -> Seq(File(Row))]
    BY <1>3, <1>4 DEF TypeOK
  <2>2. \A c \in Backups : copied'[c] # << >> => locked[c] = Len(LockOrder)
    BY <1>3 DEF TypeOK, ReadJournal
  <2>. QED
    BY <2>1, <2>2 DEF TypeOK, ReadJournal
<1>6. CopiesCurrent'
  <2>1. /\ Len(Append(copied[b], file)) <= Len(LockOrder)
        /\ \A i \in 1 .. Len(Append(copied[b], file)) :
               Append(copied[b], file)[i] = root[LockOrder[i]]
    BY <1>1, <1>2 DEF BackupsHold, CopiesCurrent
  <2>. HIDE DEF file, next
  <2>2. ASSUME NEW c \in Backups
        PROVE  /\ Len(copied'[c]) <= Len(LockOrder)
               /\ \A i \in 1 .. Len(copied'[c]) : copied'[c][i] = root[LockOrder[i]]
    BY <1>3, <2>1 DEF BackupsHold, CopiesCurrent, TypeOK
  <2>. QED
    BY <2>2 DEF CopiesCurrent, ReadJournal
<1>7. BackupsHold'
  BY <1>6 DEF ReadJournal, BackupsHold, SnapshotsValid, StagedWhole, TargetKnown,
              RestoredWhole, RefusedForItsLines
<1>. QED
  BY <1>5, <1>7, SameRootKeepsAgreement DEF ReadJournal

(* A backup that lets go of its locks has read nothing any more.            *)
LEMMA ReleaseKeepsCopies ==
    ASSUME TypeOK, CopiesCurrent, NEW b \in Backups, Release(b), UNCHANGED root
    PROVE  /\ locked' \in [Backups -> 0 .. Len(LockOrder)]
           /\ copied' \in [Backups -> Seq(File(Row))]
           /\ \A c \in Backups : copied'[c] # << >> => locked'[c] = Len(LockOrder)
           /\ CopiesCurrent'
  BY DEF Release, TypeOK, CopiesCurrent, LockOrder

LEMMA CrashBackupHolds ==
    ASSUME IInv, NEW b \in Backups, CrashBackup(b)
    PROVE  IInv'
<1>. USE DEF IInv
<1>1. /\ locked' \in [Backups -> 0 .. Len(LockOrder)]
      /\ copied' \in [Backups -> Seq(File(Row))]
      /\ \A c \in Backups : copied'[c] # << >> => locked'[c] = Len(LockOrder)
      /\ CopiesCurrent'
  BY ReleaseKeepsCopies DEF CrashBackup, BackupsHold
<1>2. TypeOK'
  BY <1>1 DEF CrashBackup, TypeOK
<1>3. BackupsHold'
  BY <1>1 DEF CrashBackup, TypeOK, BackupsHold, SnapshotsValid, StagedWhole, TargetKnown,
              RestoredWhole, RefusedForItsLines
<1>. QED
  BY <1>2, <1>3, SameRootKeepsAgreement DEF CrashBackup

(* A root that can be read refers to itself as it must.                     *)
RootSound == (\A j \in Journals : Readable(root[j])) => Linked(root)

LEMMA AgreementIsSound ==
    ASSUME JournalsAgree
    PROVE  RootSound
  BY DEF RootSound, Linked, JournalsAgree, ApprovalsCover, WritesCover, CursorsAdvance, Rows,
         Journals

(* New backups leave the old ones where they are.                           *)
LEMMA OldSnapshotsStay ==
    ASSUME NEW S, NEW s \in Seq(S), NEW e \in S
    PROVE  /\ Append(s, e) \in Seq(S)
           /\ DOMAIN Append(s, e) = DOMAIN s \cup {Len(s) + 1}
           /\ Len(Append(s, e)) = Len(s) + 1
           /\ Append(s, e)[Len(s) + 1] = e
           /\ \A n \in DOMAIN s : Append(s, e)[n] = s[n]
  OBVIOUS

LEMMA PublishHolds ==
    ASSUME IInv, NEW b \in Backups, Publish(b)
    PROVE  IInv'
<1>. USE DEF IInv
<1>1. FilesOf(copied[b]) = root
  BY FourCopiesAreTheRoot DEF Publish, BackupsHold
<1>2. /\ locked' \in [Backups -> 0 .. Len(LockOrder)]
      /\ copied' \in [Backups -> Seq(File(Row))]
      /\ \A c \in Backups : copied'[c] # << >> => locked'[c] = Len(LockOrder)
      /\ CopiesCurrent'
  BY ReleaseKeepsCopies DEF Publish, BackupsHold
<1>3. UNCHANGED <<root, holding, cursor, restore, target>>
  BY DEF Publish
<1>4. JournalsAgree'
  BY <1>3, SameRootKeepsAgreement
<1>5. CASE Valid(root)
  <2>. DEFINE made == [files |-> root, sums |-> root]
              Snapshot == [files: Files, sums: Files]
  <2>1. /\ snapshots' = Append(snapshots, made)
        /\ Len(snapshots) < MaxSnapshots
        /\ refused' = refused
    BY <1>1, <1>5 DEF Publish
  <2>2. made \in Snapshot /\ snapshots \in Seq(Snapshot)
    BY DEF TypeOK
  <2>3. made.sums = root
    OBVIOUS
  <2>. HIDE DEF made, Snapshot
  <2>4. /\ snapshots' \in Seq(Snapshot)
        /\ DOMAIN snapshots' = DOMAIN snapshots \cup {Len(snapshots) + 1}
        /\ Len(snapshots') = Len(snapshots) + 1
        /\ snapshots'[Len(snapshots) + 1] = made
        /\ \A n \in DOMAIN snapshots : snapshots'[n] = snapshots[n]
    BY <2>1, <2>2, OldSnapshotsStay
  <2>5. Len(snapshots') <= MaxSnapshots
    BY <2>1, <2>2, <2>4, ConstantsAssumption
  <2>6. TypeOK'
    BY <1>2, <1>3, <2>1, <2>4, <2>5 DEF TypeOK, Snapshot
  <2>7. SnapshotsValid'
    BY <1>5, <2>3, <2>4 DEF BackupsHold, SnapshotsValid
  <2>8. StagedWhole' /\ TargetKnown' /\ RestoredWhole'
    BY <1>3, <2>4 DEF BackupsHold, StagedWhole, TargetKnown, RestoredWhole
  <2>9. RefusedForItsLines'
    BY <1>3, <2>1 DEF BackupsHold, RefusedForItsLines
  <2>. QED
    BY <1>2, <1>4, <2>6, <2>7, <2>8, <2>9 DEF BackupsHold
<1>6. CASE ~Valid(root)
  <2>1. snapshots' = snapshots /\ refused' = [refused EXCEPT ![b] = TRUE]
    BY <1>1, <1>6 DEF Publish
  <2>2. \E j \in Journals : ~Parses(root[j])
    BY <1>6, AgreementIsSound DEF RootSound, Valid, Parses
  <2>3. TypeOK'
    BY <1>2, <1>3, <2>1 DEF TypeOK
  <2>4. SnapshotsValid' /\ StagedWhole' /\ TargetKnown' /\ RestoredWhole'
    BY <1>3, <2>1 DEF BackupsHold, SnapshotsValid, StagedWhole, TargetKnown, RestoredWhole
  <2>5. RefusedForItsLines'
    BY <1>3, <2>1, <2>2 DEF BackupsHold, RefusedForItsLines
  <2>. QED
    BY <1>2, <1>4, <2>3, <2>4, <2>5 DEF BackupsHold
<1>. QED
  BY <1>5, <1>6

--------------------------------------------------------------------------------
(* Damage to a backup, and the steps of a restore.                          *)
LEMMA RotStep ==
    ASSUME TypeOK, NEW n \in DOMAIN snapshots, NEW j \in Journals, Rot(n, j)
    PROVE  /\ snapshots' \in Seq([files: Files, sums: Files])
           /\ DOMAIN snapshots' = DOMAIN snapshots
           /\ Len(snapshots') = Len(snapshots)
           /\ \A m \in DOMAIN snapshots :
                  /\ snapshots'[m].sums = snapshots[m].sums
                  /\ m # n => snapshots'[m] = snapshots[m]
<1>. DEFINE Snapshot == [files: Files, sums: Files]
            s == snapshots[n]
            f == s.files[j]
            shorter == SubSeq(f.rows, 1, Len(f.rows) - 1)
            g == [f EXCEPT !.rows = shorter]
            files == [s.files EXCEPT ![j] = g]
            t == [s EXCEPT !.files = files]
<1>1. snapshots \in Seq(Snapshot) /\ s \in Snapshot
  <2>1. snapshots \in Seq(Snapshot)
    BY DEF TypeOK
  <2>. HIDE DEF Snapshot
  <2>. QED
    BY <2>1
<1>2. s.files \in Files /\ f \in File(Row) /\ f.rows \in Seq(Row)
  BY <1>1 DEF Files, File
<1>3. shorter \in Seq(Row)
  <2>. HIDE DEF f
  <2>1. f.rows # << >>
    BY DEF Rot, f
  <2>. QED
    BY <1>2, <2>1
<1>4. g \in File(Row)
  <2>. HIDE DEF shorter
  <2>. QED
    BY <1>2, <1>3 DEF File
<1>5. files \in Files
  <2>. HIDE DEF g
  <2>. QED
    BY <1>2, <1>4 DEF Files
<1>6. t \in Snapshot /\ t.sums = s.sums
  <2>. HIDE DEF files
  <2>. QED
    BY <1>1, <1>5
<1>7. snapshots' = [snapshots EXCEPT ![n] = t]
  BY DEF Rot
<1>. HIDE DEF t, Snapshot
<1>8. /\ snapshots' \in Seq(Snapshot)
      /\ DOMAIN snapshots' = DOMAIN snapshots
      /\ Len(snapshots') = Len(snapshots)
  BY <1>1, <1>6, <1>7
<1>9. \A m \in DOMAIN snapshots : snapshots'[m] = IF m = n THEN t ELSE snapshots[m]
  BY <1>1, <1>7
<1>. QED
  BY <1>6, <1>8, <1>9 DEF Snapshot

LEMMA RotHolds ==
    ASSUME IInv, NEW n \in DOMAIN snapshots, NEW j \in Journals, Rot(n, j)
    PROVE  IInv'
<1>. USE DEF IInv
<1>1. /\ snapshots' \in Seq([files: Files, sums: Files])
      /\ DOMAIN snapshots' = DOMAIN snapshots
      /\ Len(snapshots') = Len(snapshots)
      /\ \A m \in DOMAIN snapshots :
             /\ snapshots'[m].sums = snapshots[m].sums
             /\ m # n => snapshots'[m] = snapshots[m]
  BY RotStep
<1>2. UNCHANGED <<root, holding, cursor, locked, copied, refused, target>>
  BY DEF Rot
<1>3. restore' \in Restores \cup {Nothing}
  BY DEF Rot, TypeOK, Restores
<1>4. \/ restore' = restore /\ (restore # Nothing => restore.backup # n)
      \/ /\ restore # Nothing /\ restore.backup = n
         /\ restore' = [restore EXCEPT !.touched = TRUE]
  BY DEF Rot
<1>5. restore' # Nothing =>
          /\ restore # Nothing
          /\ restore'.backup = restore.backup
          /\ restore'.files = restore.files
          /\ ~restore'.touched => ~restore.touched /\ restore.backup # n
  BY <1>4 DEF TypeOK, Restores
<1>6. TypeOK'
  BY <1>1, <1>2, <1>3, <1>5 DEF TypeOK
<1>7. StagedWhole'
  BY <1>1, <1>5 DEF BackupsHold, StagedWhole
<1>8. CopiesCurrent' /\ SnapshotsValid' /\ TargetKnown' /\ RestoredWhole' /\ RefusedForItsLines'
  BY <1>1, <1>2 DEF BackupsHold, CopiesCurrent, SnapshotsValid, TargetKnown, RestoredWhole,
                    RefusedForItsLines
<1>. QED
  BY <1>2, <1>6, <1>7, <1>8, SameRootKeepsAgreement DEF BackupsHold

LEMMA VerifyBackupHolds ==
    ASSUME IInv, NEW n \in DOMAIN snapshots, VerifyBackup(n)
    PROVE  IInv'
<1>. USE DEF IInv
<1>. DEFINE started == [backup |-> n, files |-> Nothing, touched |-> FALSE]
<1>1. restore' = started /\ snapshots[n].files = snapshots[n].sums
  BY DEF VerifyBackup, Verified
<1>2. started \in Restores
  <2>1. n \in 1 .. MaxSnapshots
    BY ConstantsAssumption DEF TypeOK
  <2>. QED
    BY <2>1 DEF Restores
<1>3. started.backup = n /\ started.files = Nothing
  OBVIOUS
<1>. HIDE DEF started
<1>4. UNCHANGED <<root, holding, cursor, locked, copied, refused, snapshots, target>>
  BY DEF VerifyBackup
<1>5. TypeOK'
  BY <1>1, <1>2, <1>3, <1>4 DEF TypeOK
<1>6. StagedWhole'
  BY <1>1, <1>3, <1>4 DEF StagedWhole
<1>7. CopiesCurrent' /\ SnapshotsValid' /\ TargetKnown' /\ RestoredWhole' /\ RefusedForItsLines'
  BY <1>4 DEF BackupsHold, CopiesCurrent, SnapshotsValid, TargetKnown, RestoredWhole,
              RefusedForItsLines
<1>. QED
  BY <1>4, <1>5, <1>6, <1>7, SameRootKeepsAgreement DEF BackupsHold

LEMMA StageHolds ==
    ASSUME IInv, Stage
    PROVE  IInv'
<1>. USE DEF IInv
<1>. DEFINE files == snapshots[restore.backup].files
<1>1. restore \in Restores /\ restore.backup \in DOMAIN snapshots
  BY DEF Stage, TypeOK
<1>2. files \in Files
  <2>. DEFINE Snapshot == [files: Files, sums: Files]
  <2>1. snapshots \in Seq(Snapshot)
    BY DEF TypeOK
  <2>2. snapshots[restore.backup] \in Snapshot
    <3>. HIDE DEF Snapshot
    <3>. QED
      BY <1>1, <2>1
  <2>. QED
    BY <2>2
<1>3. \/ restore' = Nothing
      \/ restore' = [restore EXCEPT !.files = files] /\ Valid(files)
  BY DEF Stage
<1>4. ~restore.touched => files = snapshots[restore.backup].sums
  BY DEF Stage, BackupsHold, StagedWhole
<1>5. UNCHANGED <<root, holding, cursor, locked, copied, refused, snapshots, target>>
  BY DEF Stage
<1>. HIDE DEF files
<1>6. restore' # Nothing =>
          /\ restore' \in Restores
          /\ restore'.backup = restore.backup
          /\ restore'.files = files
          /\ restore'.touched = restore.touched
          /\ Valid(files)
  BY <1>1, <1>2, <1>3 DEF Restores
<1>7. TypeOK'
  BY <1>1, <1>5, <1>6 DEF TypeOK
<1>8. StagedWhole'
  BY <1>1, <1>4, <1>5, <1>6 DEF StagedWhole, files
<1>9. CopiesCurrent' /\ SnapshotsValid' /\ TargetKnown' /\ RestoredWhole' /\ RefusedForItsLines'
  BY <1>5 DEF BackupsHold, CopiesCurrent, SnapshotsValid, TargetKnown, RestoredWhole,
              RefusedForItsLines
<1>. QED
  BY <1>5, <1>7, <1>8, <1>9, SameRootKeepsAgreement DEF BackupsHold

LEMMA InstallHolds ==
    ASSUME IInv, Install
    PROVE  IInv'
<1>. USE DEF IInv
<1>1. UNCHANGED <<root, holding, cursor, locked, copied, refused, snapshots>>
  BY DEF Install
<1>2. restore # Nothing /\ restore.files # Nothing /\ restore' = Nothing
  BY DEF Install
<1>3. target' = restore \/ target' = target
  BY DEF Install
<1>4. TypeOK'
  BY <1>1, <1>2, <1>3 DEF TypeOK
<1>5. TargetKnown' /\ RestoredWhole'
  BY <1>1, <1>2, <1>3 DEF BackupsHold, StagedWhole, TargetKnown, RestoredWhole
<1>6. CopiesCurrent' /\ SnapshotsValid' /\ StagedWhole' /\ RefusedForItsLines'
  BY <1>1, <1>2 DEF BackupsHold, CopiesCurrent, SnapshotsValid, StagedWhole, RefusedForItsLines
<1>. QED
  BY <1>1, <1>4, <1>5, <1>6, SameRootKeepsAgreement DEF BackupsHold

LEMMA AbandonRestoreHolds ==
    ASSUME IInv, AbandonRestore
    PROVE  IInv'
<1>. USE DEF IInv
<1>1. TypeOK'
  BY DEF AbandonRestore, TypeOK
<1>2. BackupsHold'
  BY DEF AbandonRestore, BackupsHold, CopiesCurrent, SnapshotsValid, StagedWhole, TargetKnown,
         RestoredWhole, RefusedForItsLines
<1>. QED
  BY <1>1, <1>2, SameRootKeepsAgreement DEF AbandonRestore

LEMMA OccupyHolds ==
    ASSUME IInv, Occupy
    PROVE  IInv'
<1>. USE DEF IInv
<1>1. TypeOK'
  BY DEF Occupy, TypeOK
<1>2. BackupsHold'
  BY DEF Occupy, BackupsHold, CopiesCurrent, SnapshotsValid, StagedWhole, TargetKnown,
         RestoredWhole, RefusedForItsLines
<1>. QED
  BY <1>1, <1>2, SameRootKeepsAgreement DEF Occupy

--------------------------------------------------------------------------------
LEMMA InitHolds == Init => IInv
<1>. SUFFICES ASSUME Init
              PROVE  IInv
  OBVIOUS
<1>1. EmptyFile \in File(Row)
  BY DEF EmptyFile, File
<1>2. TypeOK
  BY <1>1, ConstantsAssumption DEF Init, TypeOK, Files, LockOrder
<1>3. BackupsHold
  BY DEF Init, BackupsHold, CopiesCurrent, SnapshotsValid, StagedWhole, TargetKnown,
         RestoredWhole, RefusedForItsLines, LockOrder
<1>4. JournalsAgree
  BY DEF Init, JournalsAgree, CheckpointsComplete, ApprovalsCover, WritesCover,
         CursorsAdvance, Rows, EmptyFile, Journals
<1>. QED
  BY <1>2, <1>3, <1>4 DEF IInv

LEMMA NextHolds == IInv /\ [Next]_vars => IInv'
<1>. SUFFICES ASSUME IInv, [Next]_vars
              PROVE  IInv'
  OBVIOUS
<1>1. CASE UNCHANGED vars
  <2>. USE <1>1 DEF vars
  <2>1. TypeOK'
    BY DEF IInv, TypeOK
  <2>2. BackupsHold'
    BY DEF IInv, BackupsHold, CopiesCurrent, SnapshotsValid, StagedWhole, TargetKnown,
           RestoredWhole, RefusedForItsLines
  <2>. QED
    BY <2>1, <2>2, SameRootKeepsAgreement DEF IInv
<1>2. CASE Next
  BY <1>2, IssueHolds, CommitHolds, CrashWriterHolds, CheckCursorHolds, AppendCheckpointHolds,
     TakeLockHolds, ReadJournalHolds, PublishHolds, CrashBackupHolds, RotHolds,
     VerifyBackupHolds, StageHolds, InstallHolds, AbandonRestoreHolds, OccupyHolds DEF Next
<1>. QED
  BY <1>1, <1>2

(* The inductive invariant.                                                 *)
THEOREM RecoveryInvariant == Spec => []IInv
  BY InitHolds, NextHolds, PTL DEF Spec

(* Every variable of a backup or a restore stays in its domain, and nothing *)
(* is read before all four locks are held.                                  *)
THEOREM RecoveryTypes == Spec => []TypeOK
<1>1. IInv => TypeOK
  BY DEF IInv
<1>. QED
  BY <1>1, RecoveryInvariant, PTL

(* restore_backup leaves a root whose rows have their approvals and whose   *)
(* checkpoints have their write rows; it is all of what the backup took     *)
(* unless a file of the backup changed after it was verified.               *)
THEOREM RestoresAreWhole == Spec => []RestoredWhole
<1>1. IInv => RestoredWhole
  BY DEF IInv, BackupsHold
<1>. QED
  BY <1>1, RecoveryInvariant, PTL

(* The four files of create_backup are the journals at one instant.         *)
THEOREM BackupsAreOneInstant == Spec => BackupsAreCurrent
<1>1. IInv /\ [Next]_vars =>
          [\A b \in Backups :
               Len(copied[b]) = Len(LockOrder) => FilesOf(copied[b]) = root]_vars
  BY FourCopiesAreTheRoot DEF IInv, BackupsHold
<1>. QED
  BY <1>1, RecoveryInvariant, PTL DEF Spec, BackupsAreCurrent

(* A target that is in use, or was restored, is not replaced.               *)
THEOREM RootsAreNeverReplaced == Spec => NeverOverwritten
<1>1. [Next]_vars => [target # Nothing => UNCHANGED target]_vars
  BY DEF Next, vars, Issue, Commit, CrashWriter, CheckCursor, AppendCheckpoint, TakeLock,
         ReadJournal, Publish, CrashBackup, Rot, VerifyBackup, Stage, Install,
         AbandonRestore, Occupy
<1>. QED
  BY <1>1, PTL DEF Spec, NeverOverwritten

(* Whatever writers, crashes and cut appends do, the four journals refer to *)
(* each other as _validate_journals demands as long as the stores can read  *)
(* them (checkpoints having one writer).  create_backup refuses a root only *)
(* when one of them is damaged, or holds a row that quotes a separator of   *)
(* lines, which the stores read as one line and the backup as two.         *)
THEOREM ReadableRootsAreSound == Spec => [](RootSound /\ RefusedForItsLines)
<1>1. IInv => RootSound /\ RefusedForItsLines
  BY AgreementIsSound DEF IInv, BackupsHold
<1>. QED
  BY <1>1, RecoveryInvariant, PTL
================================================================================
