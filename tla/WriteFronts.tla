------------------------------ MODULE WriteFronts ------------------------------
(***************************************************************************)
(* The confirmed writes over MCP and the chat bridge, over the same         *)
(* journals: two processes that share no lock but the journals' own.        *)
(***************************************************************************)
EXTENDS ConfirmedWrites, AdvisoryBridge

(* Tickets and handles are random.                                          *)
ASSUME DistinctAssumption == Tickets \intersect Handles = {}

vars == <<surfaceVars, bridgeVars, journal, answers>>

Init ==
    /\ SurfaceInit
    /\ BridgeInit
    /\ journal = [kind \in Kinds |-> <<>>]
    /\ answers = {}

Next ==
    \/ SurfaceNext /\ UNCHANGED bridgeVars
    \/ BridgeNext /\ UNCHANGED surfaceVars

Spec == Init /\ [][Next]_vars

TypeOK ==
    /\ SurfaceTypeOK
    /\ BridgeTypeOK
    /\ journal \in [Kinds -> Seq([request: Requests, by: Tickets \union Handles])]
    /\ answers \subseteq [by: Tickets \union Handles, matches: BOOLEAN]

(* An "applied" answer holds whatever the other front does: its write is in *)
(* the journal once, and a read-back that does not match means that another *)
(* write came after it, never that it was lost.                             *)
AppliedAnswersHold ==
    \A a \in answers : \E p \in RowsBy(a.by) :
        /\ RowsBy(a.by) = {p}
        /\ ~a.matches => p[2] < Version(p[1])
================================================================================
