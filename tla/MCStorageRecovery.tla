--------------------------- MODULE MCStorageRecovery ---------------------------
(* Instances of StorageRecovery for TLC.                                    *)
EXTENDS StorageRecovery

CONSTANTS w1, w2, b1

(* One write row and one knowledge row with an approval each, and two       *)
(* checkpoints, so that a cursor can advance, stay or fall behind.          *)
FewRows ==
    [j \in Journals |-> IF j \in {"write", "knowledge"} THEN 1 ELSE 2]
================================================================================
