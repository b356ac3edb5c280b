--------------------------- MODULE MCPortfolioUpdates ---------------------------
(* Instances of OneUpdater for TLC: one trade in each account.  With days   *)
(* of two instants, both trades happen within a day, x on the first and z   *)
(* on the second.                                                           *)
EXTENDS OneUpdater, TLC

CONSTANTS p1, p2, a, b, x, z

TwoTrades == x :> a @@ z :> b

(* z at the start of its day, or in the middle of it.                       *)
EarlyTrade == x :> 1 @@ z :> 2
LateTrade  == x :> 1 @@ z :> 3

(* Further bounds: no preview for the seed checkpoint's own instant or date *)
(* (its candidate follows no checkpoint), one preview in memory at a time,  *)
(* and, with files, three checkpoints and rows committed when sampled.      *)
Bounds ==
    /\ draft'[only] # NoCandidate => draft'[only].time.at > 0
    /\ only \notin Cli => Cardinality(pending'[only]) <= 1
    /\ only \in Cli =>
           /\ Len(checkpoints') <= 3
           /\ Len(writes') > Len(writes) => writes'[Len(writes')].at = now

BoundedSpec == OnlyInit /\ [][OnlyNext /\ Bounds]_<<vars, only>>

(* Every process at work.  Bound: no preview for the own instant of the seed.*)
RaceBounds ==
    \A p \in Procs : draft'[p] # NoCandidate => draft'[p].time.at > 0

RaceSpec == OnlyInit /\ [][Next /\ UNCHANGED only /\ RaceBounds]_<<vars, only>>
================================================================================
