-------------------------- MODULE SourceRegistrations --------------------------
(***************************************************************************)
(* The private store of raw session sources.                                *)
(*                                                                         *)
(*   session_authority/source_registration.py   register_source,            *)
(*          register_provenance_source, validate_registered_bundle          *)
(*                                                                         *)
(* A registration binds a document to its bytes and to one bundle.  The     *)
(* bundle is identified by its digest, that is, by all of its rows.  A      *)
(* registrar compares what it adds with every entry of the store and then   *)
(* renames a staging directory into place, all under one lock; a validation *)
(* takes no lock.                                                           *)
(***************************************************************************)
EXTENDS SessionContracts, FiniteSets

CONSTANTS
    Offered,        \* the [bundle, source] pairs registrars are given
    Registrars,     \* processes that register
    MaxDeaths       \* bound on the registrars that die

ASSUME DeathsAssumption == MaxDeaths \in Nat

VARIABLES
    registrations,  \* the entries of the store: [doc, raw, bundle]
    leftovers,      \* staging directories whose registrar may be gone
    adding,         \* [Registrars -> the entry each is writing, or Unset]
    registered,     \* the entries a caller was told are registered
    deaths          \* the deaths so far

registrationVars == <<registrations, leftovers, adding, registered, deaths>>

Entry(bundle, source) == [doc |-> source.doc, raw |-> source.raw, bundle |-> bundle]

(* Null is not an entry.                                                    *)
ASSUME EntryAssumption == \A o \in Offered : Unset # Entry(o.bundle, o.source)

RegistrationInit ==
    /\ registrations = {}
    /\ leftovers = {}
    /\ adding = [r \in Registrars |-> Unset]
    /\ registered = {}
    /\ deaths = 0

(* The store can be read only when every entry is complete; the staging     *)
(* directory of a registration is an entry that is not.  A registrar that   *)
(* dies leaves it there, and nothing is registered or validated again until *)
(* somebody removes it by hand.                                             *)
StoreReadable == leftovers = {}

(***************************************************************************)
(* What may be registered with a bundle.                                    *)
(***************************************************************************)
(* register_source: a source the bundle authorizes, wherever it names the   *)
(* document, with these very bytes.                                         *)
MatchesSource(rows, source) ==
    LET same == {s \in RegistrationSources(rows) : s.doc = source.doc}
    IN  same # {} /\ \A s \in same : s.raw = source.raw /\ SourceValid(s)

(* register_provenance_source: a document the bundle only cites, with a     *)
(* source document of its own that has the authority.                       *)
MatchesProvenance(rows, source) ==
    /\ source.doc \in ProvenanceDocs(rows) \ DocsOf(RegistrationSources(rows))
    /\ SourceValid(source)

MayRegister(rows, source) ==
    /\ Publishable(rows)
    /\ MatchesSource(rows, source) \/ MatchesProvenance(rows, source)

Accepted == {o \in Offered : MayRegister(o.bundle, o.source)}

(* Mutant: the same bytes may be registered for a bundle after another.     *)
BoundToOtherBytes(entry) ==
    \E e \in registrations : e.doc = entry.doc /\ e.raw # entry.raw

(* A document, and the bytes of a document, are bound once.                 *)
BoundElsewhere(entry) ==
    \E e \in registrations : e # entry /\ (e.doc = entry.doc \/ e.raw = entry.raw)

(* Taking the lock, reading the store, and making the staging directory.    *)
BeginRegistration(r, bundle, source) ==
    LET entry == Entry(bundle, source) IN
    /\ adding[r] = Unset
    /\ \A q \in Registrars : adding[q] = Unset
    /\ StoreReadable
    /\ ~BoundElsewhere(entry)
    /\ IF entry \in registrations
       THEN registered' = registered \union {entry} /\ UNCHANGED <<leftovers, adding>>
       ELSE /\ leftovers' = leftovers \union {entry}
            /\ adding' = [adding EXCEPT ![r] = entry]
            /\ UNCHANGED registered
    /\ UNCHANGED <<registrations, deaths>>

(* The staging directory is renamed and the caller told.                    *)
CommitRegistration(r) ==
    /\ adding[r] # Unset
    /\ leftovers' = leftovers \ {adding[r]}
    /\ registrations' = registrations \union {adding[r]}
    /\ registered' = registered \union {adding[r]}
    /\ adding' = [adding EXCEPT ![r] = Unset]
    /\ UNCHANGED deaths

RegistrarDies(r) ==
    /\ deaths < MaxDeaths
    /\ adding[r] # Unset
    /\ deaths' = deaths + 1
    /\ adding' = [adding EXCEPT ![r] = Unset]
    /\ UNCHANGED <<registrations, leftovers, registered>>

RegistrationNext ==
    \E r \in Registrars :
        \/ \E o \in Accepted : BeginRegistration(r, o.bundle, o.source)
        \/ CommitRegistration(r)
        \/ RegistrarDies(r)

(***************************************************************************)
(* validate_registered_bundle: every document the bundle names is           *)
(* registered for this bundle, and those that authorize it with the bytes   *)
(* they declare.  That the producer accepts the bundle is part of the call. *)
(***************************************************************************)
EntriesFor(bundle) == {e \in registrations : e.bundle = bundle}

Registered(bundle) ==
    /\ StoreReadable
    /\ \A s \in RegistrationSources(bundle) : Entry(bundle, s) \in registrations
    /\ ProvenanceDocs(bundle) \subseteq {e.doc : e \in EntriesFor(bundle)}

(***************************************************************************)
(* Properties of the store.                                                 *)
(***************************************************************************)
RegistrationTypeOK ==
    LET Entries == {Entry(o.bundle, o.source) : o \in Offered} IN
    /\ registrations \subseteq Entries
    /\ leftovers \subseteq Entries
    /\ adding \in [Registrars -> Entries \union {Unset}]
    /\ registered \subseteq Entries
    /\ deaths \in 0 .. MaxDeaths

(* Each registered document is bound to one bundle and one content, and     *)
(* what a caller was told is registered is there.                           *)
BoundOnce ==
    /\ \A e, f \in registrations : e.doc = f.doc \/ e.raw = f.raw => e = f
    /\ registered \subseteq registrations
================================================================================
