---------------------------- MODULE StorageRecovery ----------------------------
(***************************************************************************)
(* Backup and restore of the four journals of a state root, while the       *)
(* processes that write them go on.                                         *)
(*                                                                         *)
(*   runtime/storage_recovery.py   create_backup, verify_backup,            *)
(*                                 restore_backup                           *)
(*                                                                         *)
(* A writer takes one exclusive journal lock at a time, for one append.     *)
(* A backup takes the four locks shared, one after the other, and keeps     *)
(* them until it has published.  What the journals say is abstracted to how *)
(* they refer to each other: a write or knowledge row has the number of the *)
(* approval it rests on, a checkpoint row the number of write rows it       *)
(* includes.  A row is one line to the stores, which split a journal at its *)
(* newlines; a backup splits it with str.splitlines(), so a row that quotes *)
(* a U+2028, U+2029 or U+0085 (records are written ensure_ascii=False) is   *)
(* two lines to it, neither of which parses.  How rows are written short is *)
(* JournalFile's.                                                           *)
(***************************************************************************)
EXTENDS JournalFile

CONSTANTS
    Writers,
    Keeper,         \* the one writer that appends checkpoints
    Backups,        \* processes that make backups
    MaxRows,        \* bound on the rows of each journal
    MaxSnapshots,   \* bound on the backups kept
    Cuts,           \* the cut writes the environment can cause
    Quoting,        \* journals whose rows can quote such a separator
    Nothing,
    InUse           \* of a root: another process has files there

Journals == {"write", "knowledge", "approval", "checkpoint"}

(* The stable global order of the locks.                                    *)
LockOrder == <<"write", "knowledge", "approval", "checkpoint">>

ASSUME ConstantsAssumption ==
    /\ Keeper \in Writers
    /\ MaxRows \in [Journals -> Nat]
    /\ MaxSnapshots \in Nat
    /\ Cuts \subseteq {"partial", "no_newline"}
    /\ Quoting \subseteq Journals

Row == [ref: Nat, splits: BOOLEAN]

(* The rows with this reference that a journal can take.                    *)
RowsOf(j, ref) ==
    [ref: {ref}, splits: IF j \in Quoting THEN BOOLEAN ELSE {FALSE}]

VARIABLES
    root,       \* [Journals -> File(Row)]: the journals of the state root
    holding,    \* [Writers -> Nat or Nothing]: an approval it has verified
    cursor,     \* the cursor of the checkpoint the keeper has checked
    locked,     \* [Backups -> 0 .. 4]: the shared locks it holds, in order
    copied,     \* [Backups -> sequence of files]: what it has read, in order
    refused,    \* [Backups -> BOOLEAN]: its last snapshot did not validate
    snapshots,  \* sequence of published backups: [files, sums]
    restore,    \* the restore in progress, or Nothing: [backup, files, touched]
    target      \* the root restored into: Nothing, InUse, or a finished restore

vars == <<root, holding, cursor, locked, copied, refused, snapshots, restore, target>>

Init ==
    /\ root = [j \in Journals |-> EmptyFile]
    /\ holding = [w \in Writers |-> Nothing]
    /\ cursor = Nothing
    /\ locked = [b \in Backups |-> 0]
    /\ copied = [b \in Backups |-> << >>]
    /\ refused = [b \in Backups |-> FALSE]
    /\ snapshots = << >>
    /\ restore = Nothing
    /\ target = Nothing

Rows(j) == root[j].rows

--------------------------------------------------------------------------------
(* The writers.  An exclusive lock is granted when no backup holds it; the  *)
(* read and the append it protects are one step.                            *)
Free(j) == \A b \in Backups : j \notin {LockOrder[i] : i \in 1 .. locked[b]}

AppendTo(j, ref) ==
    /\ Free(j)
    /\ Readable(root[j])
    /\ Len(Rows(j)) < MaxRows[j]
    /\ \E row \in RowsOf(j, ref), outcome \in {"full"} \cup Cuts :
           root' = [root EXCEPT ![j] = Write(@, row, outcome)]

(* An approval is issued, and its holder verifies it: read back it is in    *)
(* the journal or the journal does not parse.                               *)
Issue(w) ==
    /\ holding[w] = Nothing
    /\ AppendTo("approval", 0)
    /\ holding' = [holding EXCEPT ![w] =
           IF Readable(root'["approval"]) THEN Len(root'["approval"].rows) ELSE Nothing]
    /\ UNCHANGED <<cursor, locked, copied, refused, snapshots, restore, target>>

(* A Decision, Transaction or knowledge generation rests on that approval.  *)
Commit(w, j) ==
    /\ holding[w] # Nothing
    /\ AppendTo(j, holding[w])
    /\ holding' = [holding EXCEPT ![w] = Nothing]
    /\ UNCHANGED <<cursor, locked, copied, refused, snapshots, restore, target>>

(* persist_checkpoint checks a cursor against the write journal and the     *)
(* latest checkpoint ...                                                    *)
CheckCursor ==
    /\ cursor = Nothing
    /\ Readable(root["write"]) /\ Readable(root["checkpoint"])
    /\ \E n \in 0 .. Len(Rows("write")) :
          /\ \A i \in DOMAIN Rows("checkpoint") : Rows("checkpoint")[i].ref <= n
          /\ cursor' = n
    /\ UNCHANGED <<root, holding, locked, copied, refused, snapshots, restore, target>>

(* ... and appends the checkpoint, every byte of it.                        *)
AppendCheckpoint ==
    /\ cursor # Nothing
    /\ Free("checkpoint")
    /\ Len(Rows("checkpoint")) < MaxRows["checkpoint"]
    /\ \E row \in RowsOf("checkpoint", cursor) :
           root' = [root EXCEPT !["checkpoint"] = Write(@, row, "full")]
    /\ cursor' = Nothing
    /\ UNCHANGED <<holding, locked, copied, refused, snapshots, restore, target>>

(* A writer dies, with what it was about to write.                          *)
CrashWriter(w) ==
    /\ holding' = [holding EXCEPT ![w] = Nothing]
    /\ cursor' = IF w = Keeper THEN Nothing ELSE cursor
    /\ UNCHANGED <<root, locked, copied, refused, snapshots, restore, target>>

--------------------------------------------------------------------------------
(* _jsonl_rows: every line that splitlines() makes of the file is JSON.     *)
Parses(file) ==
    /\ Readable(file)
    /\ \A i \in DOMAIN file.rows : ~file.rows[i].splits

(* Every row rests on an approval there is; checkpoint cursors do not go    *)
(* back and stay within the write journal.                                  *)
Linked(files) ==
    /\ \A j \in {"write", "knowledge"} :
           \A i \in DOMAIN files[j].rows :
               files[j].rows[i].ref \in DOMAIN files["approval"].rows
    /\ \A i \in DOMAIN files["checkpoint"].rows :
           /\ files["checkpoint"].rows[i].ref <= Len(files["write"].rows)
           /\ i > 1 => files["checkpoint"].rows[i - 1].ref <= files["checkpoint"].rows[i].ref

(* _validate_journals                                                       *)
Valid(files) == (\A j \in Journals : Parses(files[j])) /\ Linked(files)

FilesOf(copies) ==
    [j \in Journals |-> copies[CHOOSE i \in DOMAIN LockOrder : LockOrder[i] = j]]

(* Mutant: a lock is taken for the read of its journal only.                *)
TakeAndRead(b) ==
    /\ locked[b] = 0
    /\ Len(copied[b]) < Len(LockOrder)
    /\ locked' = IF Len(copied[b]) + 1 = Len(LockOrder)
                 THEN [locked EXCEPT ![b] = Len(LockOrder)] ELSE locked
    /\ copied' = [copied EXCEPT ![b] = Append(@, root[LockOrder[Len(copied[b]) + 1]])]
    /\ refused' = [refused EXCEPT ![b] = FALSE]
    /\ UNCHANGED <<root, holding, cursor, snapshots, restore, target>>

(* _state_shared_lock takes the next lock.                                  *)
TakeLock(b) ==
    /\ locked[b] < Len(LockOrder)
    /\ locked' = [locked EXCEPT ![b] = @ + 1]
    /\ refused' = [refused EXCEPT ![b] = FALSE]
    /\ UNCHANGED <<root, holding, cursor, copied, snapshots, restore, target>>

(* create_backup reads one journal after the other.                         *)
ReadJournal(b) ==
    /\ locked[b] = Len(LockOrder)
    /\ Len(copied[b]) < Len(LockOrder)
    /\ copied' = [copied EXCEPT ![b] = Append(@, root[LockOrder[Len(copied[b]) + 1]])]
    /\ UNCHANGED <<root, holding, cursor, locked, refused, snapshots, restore, target>>

Release(b) ==
    /\ locked' = [locked EXCEPT ![b] = 0]
    /\ copied' = [copied EXCEPT ![b] = << >>]

(* It validates what it read, and stages and renames a directory: the       *)
(* backup appears whole, with the digests of its files, or not at all.      *)
Publish(b) ==
    LET files == FilesOf(copied[b])
    IN  /\ Len(copied[b]) = Len(LockOrder)
        /\ IF Valid(files)
           THEN /\ Len(snapshots) < MaxSnapshots
                /\ snapshots' = Append(snapshots, [files |-> files, sums |-> files])
                /\ UNCHANGED refused
           ELSE /\ refused' = [refused EXCEPT ![b] = TRUE]
                /\ UNCHANGED snapshots
        /\ Release(b)
        /\ UNCHANGED <<root, holding, cursor, restore, target>>

(* A backup dies: its locks go, its staging directory is never a backup.    *)
CrashBackup(b) ==
    /\ Release(b)
    /\ refused' = [refused EXCEPT ![b] = FALSE]
    /\ UNCHANGED <<root, holding, cursor, snapshots, restore, target>>

(* A file of backup n loses its last row while it is kept (external).       *)
(* touched is a history variable: it happened since a restore verified it.  *)
Rot(n, j) ==
    /\ snapshots[n].files[j].rows # << >>
    /\ snapshots' = [snapshots EXCEPT ![n].files[j].rows = SubSeq(@, 1, Len(@) - 1)]
    /\ restore' = IF restore # Nothing /\ restore.backup = n
                  THEN [restore EXCEPT !.touched = TRUE] ELSE restore
    /\ UNCHANGED <<root, holding, cursor, locked, copied, refused, target>>

--------------------------------------------------------------------------------
(* Mutant: the rows are validated, the digests are not compared.            *)
VerifiedRows(s) == Valid(s.files)

(* verify_backup                                                            *)
Verified(s) == s.files = s.sums /\ Valid(s.files)

(* restore_backup verifies backup n and finds the target empty ...          *)
VerifyBackup(n) ==
    /\ restore = Nothing
    /\ target = Nothing
    /\ Verified(snapshots[n])
    /\ restore' = [backup |-> n, files |-> Nothing, touched |-> FALSE]
    /\ UNCHANGED <<root, holding, cursor, locked, copied, refused, snapshots, target>>

(* ... reads its files again into a staging directory and validates what it *)
(* has copied, without its digests ...                                      *)
Stage ==
    /\ restore # Nothing
    /\ restore.files = Nothing
    /\ restore' = LET files == snapshots[restore.backup].files
                  IN  IF Valid(files) THEN [restore EXCEPT !.files = files] ELSE Nothing
    /\ UNCHANGED <<root, holding, cursor, locked, copied, refused, snapshots, target>>

(* Mutant: whatever is in the target by now is replaced.                    *)
InstallOver ==
    /\ restore # Nothing
    /\ restore.files # Nothing
    /\ target' = restore
    /\ restore' = Nothing
    /\ UNCHANGED <<root, holding, cursor, locked, copied, refused, snapshots>>

(* ... and renames it onto the target, which fails unless that is still     *)
(* empty.  A restore that dies or fails leaves only its staging directory.  *)
Install ==
    /\ restore # Nothing
    /\ restore.files # Nothing
    /\ target' = IF target = Nothing THEN restore ELSE target
    /\ restore' = Nothing
    /\ UNCHANGED <<root, holding, cursor, locked, copied, refused, snapshots>>

AbandonRestore ==
    /\ restore # Nothing
    /\ restore' = Nothing
    /\ UNCHANGED <<root, holding, cursor, locked, copied, refused, snapshots, target>>

(* Another process is started on the target and creates its files there     *)
(* (external).                                                              *)
Occupy ==
    /\ target = Nothing
    /\ target' = InUse
    /\ UNCHANGED <<root, holding, cursor, locked, copied, refused, snapshots, restore>>

Next ==
    \/ \E w \in Writers :
        \/ Issue(w)
        \/ \E j \in {"write", "knowledge"} : Commit(w, j)
        \/ CrashWriter(w)
    \/ CheckCursor
    \/ AppendCheckpoint
    \/ \E b \in Backups :
        \/ TakeLock(b)
        \/ ReadJournal(b)
        \/ Publish(b)
        \/ CrashBackup(b)
    \/ \E n \in DOMAIN snapshots :
        \/ \E j \in Journals : Rot(n, j)
        \/ VerifyBackup(n)
    \/ Stage
    \/ Install
    \/ AbandonRestore
    \/ Occupy

Spec == Init /\ [][Next]_vars

--------------------------------------------------------------------------------
Files == [Journals -> File(Row)]

Restores == [backup: 1 .. MaxSnapshots, files: Files \cup {Nothing}, touched: BOOLEAN]

(* Every variable stays in its domain, and a backup holds all four locks    *)
(* from its first read to its last.                                         *)
TypeOK ==
    /\ root \in Files
    /\ holding \in [Writers -> Nat \cup {Nothing}]
    /\ cursor \in Nat \cup {Nothing}
    /\ locked \in [Backups -> 0 .. Len(LockOrder)]
    /\ copied \in [Backups -> Seq(File(Row))]
    /\ \A b \in Backups : copied[b] # << >> => locked[b] = Len(LockOrder)
    /\ refused \in [Backups -> BOOLEAN]
    /\ snapshots \in Seq([files: Files, sums: Files])
    /\ Len(snapshots) <= MaxSnapshots
    /\ restore \in Restores \cup {Nothing}
    /\ restore # Nothing => restore.backup \in DOMAIN snapshots
    /\ target \in Restores \cup {Nothing, InUse}

(* A backup is one instant of the system: when it appears, its four files   *)
(* are the four journals as they are, although it read them one by one and  *)
(* writers wait for each journal on its own.                                *)
BackupsAreCurrent ==
    [][\A b \in Backups :
           Len(copied[b]) = Len(LockOrder) => FilesOf(copied[b]) = root]_vars

(* What a restore leaves refers to itself as a root must, whatever happened *)
(* to the backup's files: rows with their approvals, checkpoints with their *)
(* write rows, nothing cut.  And it is the whole of what the backup took,   *)
(* unless a file changed after the restore had verified it.                 *)
RestoredWhole ==
    target \notin {Nothing, InUse} =>
        /\ Valid(target.files)
        /\ ~target.touched => target.files = snapshots[target.backup].sums

(* A root in use is never replaced by a restore, and neither is a restored  *)
(* one.                                                                     *)
NeverOverwritten == [][target # Nothing => UNCHANGED target]_vars
================================================================================
