------------------------------ MODULE JournalFile ------------------------------
(***************************************************************************)
(* An append-only JSONL journal as the stores of protocol/v1 keep it on     *)
(* disk.  A record is canonical JSON plus a newline, handed to the kernel   *)
(* by one os.write on an O_APPEND descriptor whose return value is not      *)
(* looked at, then fsynced.  The write can end before the last byte (the    *)
(* file system is full, the host stops), and what is missing decides what   *)
(* the next reader finds:                                                   *)
(*   "partial"     the record is cut inside its JSON: the line never parses *)
(*   "no_newline"  only the newline is missing: the record still parses,    *)
(*                 but the next append lands on the same line, and from     *)
(*                 then on that line never parses.                          *)
(* A reader rejects the whole file when one line does not parse, and every  *)
(* writer reads the file before it appends, so the bytes after a bad line   *)
(* are irrelevant: `rows' are the records before it.                        *)
(***************************************************************************)
EXTENDS Naturals, Sequences

(* The ways an append can leave the file.  "none" is a write that never     *)
(* started, "full" the normal outcome.                                      *)
Outcomes == {"none", "partial", "no_newline", "full"}

File(Row) == [rows: Seq(Row), torn: BOOLEAN, open: BOOLEAN]

EmptyFile == [rows |-> << >>, torn |-> FALSE, open |-> FALSE]

(* Mutant: lines that do not parse are skipped.                             *)
ReadableAnyway(f) == TRUE

(* _read_unlocked: a line that does not parse raises StoreCorrupt.          *)
Readable(f) == ~f.torn

(* os.write of one encoded record, ended in one of the Outcomes.  When the  *)
(* previous record lost its newline the new bytes join its line.            *)
Write(f, row, outcome) ==
    IF outcome = "none" THEN f
    ELSE [rows |-> IF f.open THEN SubSeq(f.rows, 1, Len(f.rows) - 1)
                   ELSE IF outcome = "partial" THEN f.rows
                   ELSE Append(f.rows, row),
          torn |-> f.open \/ outcome = "partial",
          open |-> ~f.open /\ outcome = "no_newline"]
================================================================================
