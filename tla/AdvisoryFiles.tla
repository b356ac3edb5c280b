------------------------------ MODULE AdvisoryFiles ------------------------------
(* What the two advisory stores have in common: the processes that preview  *)
(* and apply, and files that may not parse.                                 *)
EXTENDS Naturals, Sequences, FiniteSets, SequencesExt

CONSTANTS
    Procs,
    MaxPreviews,    \* bound on the previews a process keeps
    Damaged,        \* the contents of a file that does not parse
    NoOne,          \* the holder of a lock that is free
    NoWork          \* what a process at rest works on

ASSUME FilesAssumption ==
    /\ MaxPreviews \in Nat
    /\ NoOne \notin Procs
================================================================================
