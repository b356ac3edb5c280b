------------------------- MODULE MCAccountObservations -------------------------
(* The timer's worker, a gateway with credentials and one without.          *)
EXTENDS AccountObservations

(* A behaviour is about one of two questions: refreshing, by the worker and *)
(* the gateway with one change of the policy or one death, or consent, with *)
(* two changes and what either gateway then shows.                          *)
VARIABLE question

MCInit == Init /\ question \in {"refresh", "consent"}

Bounds ==
    /\ question = "refresh" =>
           /\ policy'.changes + deaths' <= 1
           /\ \A p \in Consumers : calls'[p] = None
    /\ question = "consent" => deaths' = 0 /\ calls'[Worker] = None

MCNext == Next /\ Bounds /\ UNCHANGED question

MCSpec == MCInit /\ [][MCNext]_<<vars, question>> /\ Fairness
================================================================================
