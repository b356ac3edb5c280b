------------------------------ MODULE OneUpdater ------------------------------
(***************************************************************************)
(* PortfolioUpdates with one process at work: a connector, or a person at   *)
(* the command line.  Nothing in the code keeps a second one out: two at    *)
(* once can break CheckpointsAdvance and NothingForgotten, where RaceSpec   *)
(* of MCPortfolioUpdates has every process at work.                         *)
(***************************************************************************)
EXTENDS PortfolioUpdates

VARIABLE only   \* the process at work

OnlyInit == Init /\ only \in Procs

OnlyNext ==
    /\ Next
    /\ UNCHANGED only
    /\ \A p \in Procs \ {only} : pc'[p] = "idle" /\ pending'[p] = {}

OnlySpec == OnlyInit /\ [][OnlyNext]_<<vars, only>>

(* Once one recorded transaction is not after the latest checkpoint, the    *)
(* portfolio is never served again by the connector's doing: no update it   *)
(* accepts moves the checkpoint past that transaction, because building the *)
(* update projects it too.  (An older candidate file may still be accepted.)*)
UnavailableForGood ==
    [][only \notin Cli /\ ~Available => ~Available']_<<vars, only>>
================================================================================
