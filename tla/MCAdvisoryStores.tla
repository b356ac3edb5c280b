---------------------------- MODULE MCAdvisoryStores ----------------------------
(* Instances of AdvisoryPlans and AdvisorySettings for TLC: a behaviour is   *)
(* about one of the three stores, since they share no file, lock or preview  *)
(* and a behaviour of all is one of each.                                    *)
EXTENDS AdvisoryPlans, AdvisorySettings, TLC

CONSTANTS s1, s2, t1, t2, t3, f, g, i1, i2, i3, i4,     \* plans
          p1, p2, u1, u2, u3, f1, f2                    \* settings

(* A server with two threads, and a second one.                              *)
TwoServers == t1 :> s1 @@ t2 :> s1 @@ t3 :> s2

(* The imported plan of portfolio f.                                         *)
Baseline == {[id |-> i1, portfolio |-> f, status |-> "active"]}

Symmetry == Permutations({i2, i3, i4}) \cup Permutations({t1, t2})

VARIABLE store

MCInit == /\ Init /\ W!Init /\ P!Init
          /\ store \in {"plans", "opinion", "policies"}

MCNext ==
    /\ UNCHANGED store
    /\ \/ store = "plans" /\ Next /\ UNCHANGED <<configVars, policyVars>>
       \/ store = "opinion" /\ W!Next /\ UNCHANGED <<vars, policyVars>>
       \/ store = "policies" /\ P!Next /\ UNCHANGED <<vars, configVars>>

MCSpec == MCInit /\ [][MCNext]_<<store, vars, policyVars, configVars>>
================================================================================
