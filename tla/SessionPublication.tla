--------------------------- MODULE SessionPublication ---------------------------
(***************************************************************************)
(* Source registration and exchange publication together.                   *)
(*                                                                         *)
(*   deployment/session_source_registration_cli.py   register and publish   *)
(*   deployment/session_authority_cli.py             publish                *)
(*                                                                         *)
(* Two commands publish into the same exchange.  The guarded one validates  *)
(* the bundle against the registration store first; the other one checks    *)
(* the payloads only.                                                       *)
(***************************************************************************)
EXTENDS SessionExchange, SourceRegistrations

CONSTANTS
    Guarded         \* the publishers that run the guarded command

ASSUME GuardedAssumption == Guarded \subseteq Publishers

VARIABLES
    bundle,     \* [Publishers -> the bundle each is publishing, or Unset]
    released    \* the bundles the guarded command has reported published

vars == <<exchangeVars, registrationVars, bundle, released>>

Init ==
    /\ ExchangeInit
    /\ RegistrationInit
    /\ bundle = [p \in Publishers |-> Unset]
    /\ released = {}

(* publish_registered_bundle validates and then publishes what it           *)
(* validated; nothing is locked in between.                                 *)
PlanGuarded(p) ==
    /\ p \in Guarded
    /\ \E b \in Bundles : /\ Registered(b)
                          /\ Plan(p, b)
                          /\ bundle' = [bundle EXCEPT ![p] = b]
    /\ UNCHANGED <<registrationVars, released>>

PlanUnguarded(p) ==
    /\ p \notin Guarded
    /\ \E b \in Bundles : /\ Plan(p, b)
                          /\ bundle' = [bundle EXCEPT ![p] = b]
    /\ UNCHANGED <<registrationVars, released>>

(* A call that ends is rid of its bundle.                                   *)
Drop(p) == bundle' = [bundle EXCEPT ![p] = IF pub'[p].step = "idle" THEN Unset ELSE @]

WorkStep(p) ==
    /\ Work(p)
    /\ Drop(p)
    /\ UNCHANGED <<registrationVars, released>>

(* The answer of the guarded command is the answer of the publication.      *)
AnswerStep(p) ==
    /\ Answer(p)
    /\ Drop(p)
    /\ released' = IF p \in Guarded THEN released \union {bundle[p]} ELSE released
    /\ UNCHANGED registrationVars

PublisherFault(p) ==
    /\ WriteFails(p) \/ Die(p)
    /\ Drop(p)
    /\ UNCHANGED <<registrationVars, released>>

Next ==
    \/ \E p \in Publishers :
          \/ PlanGuarded(p) \/ PlanUnguarded(p)
          \/ WorkStep(p) \/ AnswerStep(p) \/ PublisherFault(p)
    \/ RegistrationNext /\ UNCHANGED <<exchangeVars, bundle, released>>

Spec == Init /\ [][Next]_vars

TypeOK ==
    /\ ExchangeTypeOK
    /\ RegistrationTypeOK
    /\ bundle \in [Publishers -> Bundles \union {Unset}]
    /\ released \subseteq Bundles

(* What the guarded command publishes rests on registered bytes: every      *)
(* document the bundle names is in the store, for that bundle.  As a        *)
(* document is bound to one bundle, two published bundles that share a      *)
(* document are the same: the guarded command publishes a session once, and *)
(* a bundle extended by an amendment does not get through it.               *)
ReleasedOnce ==
    /\ BoundOnce
    /\ \A b \in released : ProvenanceDocs(b) \subseteq {e.doc : e \in EntriesFor(b)}
    /\ \A b, c \in released : ProvenanceDocs(b) \intersect ProvenanceDocs(c) # {} => b = c
================================================================================
