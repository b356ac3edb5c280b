------------------------------ MODULE WriteLedger ------------------------------
(***************************************************************************)
(* What the write path promises, with no journal, no processes and no       *)
(* clock: an operation key is settled at most once and for good; it settles *)
(* on a canonical resource; and two resources never record one execution.   *)
(* NativeWrite implements this specification.                               *)
(***************************************************************************)
CONSTANTS
    Previews,       \* operations; each would create the resource it names
    Keys, KeyOf,    \* the idempotency key of an operation
    PayloadOf,      \* what an operation records
    ExecutionOf,    \* the execution it reports, or NoExecution
    NoExecution,
    Unsettled       \* a key without an outcome

VARIABLES
    canonical,      \* the previews whose resource exists
    settled         \* [Keys -> Previews \cup {Unsettled}]

Init ==
    /\ canonical = {}
    /\ settled = [k \in Keys |-> Unsettled]

SameExecution(v, w) ==
    /\ ExecutionOf[v] # NoExecution
    /\ ExecutionOf[v] = ExecutionOf[w]

Settle(v, w) ==
    /\ settled[KeyOf[v]] = Unsettled
    /\ settled' = [settled EXCEPT ![KeyOf[v]] = w]

(* The operation records something new.                                     *)
Create(v) ==
    /\ v \notin canonical
    /\ \A w \in canonical : ~SameExecution(v, w)
    /\ Settle(v, v)
    /\ canonical' = canonical \cup {v}

(* The operation reports what is already recorded, in the same words.       *)
Reuse(v, w) ==
    /\ w \in canonical
    /\ SameExecution(v, w)
    /\ PayloadOf[v] = PayloadOf[w]
    /\ Settle(v, w)
    /\ UNCHANGED canonical

Next ==
    \/ \E v \in Previews : Create(v)
    \/ \E v, w \in Previews : Reuse(v, w)

Spec == Init /\ [][Next]_<<canonical, settled>>
================================================================================
