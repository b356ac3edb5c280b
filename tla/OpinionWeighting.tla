---------------------------- MODULE OpinionWeighting ----------------------------
(***************************************************************************)
(* The opinion-weighting policy: a config file, and a manifest that records *)
(* the digest of the config, replaced one after the other under one lock.   *)
(*                                                                         *)
(*   runtime/opinion_weighting.py       the store, previews and applies     *)
(*   runtime/reference_composition.py   the connector's two actions         *)
(*                                                                         *)
(* An update is a patch merged into the whole config, so what a preview     *)
(* proposes is what it read plus its patch.  A config is abstracted to the  *)
(* patches merged into it, in order, as its revision_history has them, and  *)
(* its policy_version: a digest over the digest of the base, so that it     *)
(* never repeats along a chain of bases, abstracted to the chain's length.  *)
(* A config's digest is its contents.  Every read validates the manifest    *)
(* against the config under the lock first, and then takes the config or    *)
(* its digest in a second look; the two are one step here.  What the second *)
(* look could see in between is a config between another process's two      *)
(* replacements: either its manifest is about to record it, and the step    *)
(* comes after that, or it never validates again and neither does the apply.*)
(***************************************************************************)
EXTENDS AdvisoryFiles

CONSTANTS
    Updates,        \* patches of the config
    MaxVersion      \* bound on the length of a chain of bases

Config == [patches: Seq(Updates), version: Nat]

First == [patches |-> << >>, version |-> 0]

Merged(c) == ToSet(c.patches)

(* What a preview read first and then, its patch, and its base digest.      *)
Preview == [update: Updates, seen: Config, base: Config]

VARIABLES
    config,     \* contents of config.json
    manifest,   \* the config_sha256 in manifest.json
    lock,       \* who holds .opinion-weighting.lock exclusively
    pc,         \* [Procs -> where a process is in a preview or an apply]
    work,       \* [Procs -> Preview or NoWork]
    pending,    \* [Procs -> SUBSET Preview]: waiting for their confirmation
    reply       \* [Procs -> Updates answered "applied", or NoWork]

vars == <<config, manifest, lock, pc, work, pending, reply>>

Init ==
    /\ config = First
    /\ manifest = First
    /\ lock = NoOne
    /\ pc = [p \in Procs |-> "idle"]
    /\ work = [p \in Procs |-> NoWork]
    /\ pending = [p \in Procs |-> {}]
    /\ reply = [p \in Procs |-> NoWork]

(* validate: both files parse and the manifest records this config.         *)
Usable == config # Damaged /\ manifest = config

(* _deep_merge of the patch into what the preview read, as a version that   *)
(* follows its base.                                                        *)
Proposed(v) == [patches |-> Append(v.seen.patches, v.update), version |-> v.base.version + 1]

Finish(p) ==
    /\ pc' = [pc EXCEPT ![p] = "idle"]
    /\ work' = [work EXCEPT ![p] = NoWork]

--------------------------------------------------------------------------------
(* build_weighting_update_preview reads the config; a patch already in      *)
(* force is refused.                                                        *)
StartPreview(p, u) ==
    /\ pc[p] = "idle"
    /\ lock = NoOne
    /\ Usable
    /\ u \notin Merged(config)
    /\ config.version < MaxVersion
    /\ Cardinality(pending[p]) < MaxPreviews
    /\ work' = [work EXCEPT ![p] = [update |-> u, seen |-> config, base |-> First]]
    /\ pc' = [pc EXCEPT ![p] = "read"]
    /\ reply' = [reply EXCEPT ![p] = NoWork]
    /\ UNCHANGED <<config, manifest, lock, pending>>

(* Then it takes the digest of the config there is by now as its base.      *)
Register(p) ==
    /\ pc[p] = "read"
    /\ lock = NoOne
    /\ pending' = IF Usable
                  THEN [pending EXCEPT ![p] = @ \cup {[work[p] EXCEPT !.base = config]}]
                  ELSE pending
    /\ Finish(p)
    /\ UNCHANGED <<config, manifest, lock, reply>>

(* apply_weighting_update: consumed, and stale when the digest has changed. *)
Consume(p, v) ==
    /\ pc[p] = "idle"
    /\ lock = NoOne
    /\ pending' = [pending EXCEPT ![p] = @ \ {v}]
    /\ IF Usable /\ config = v.base
       THEN /\ pc' = [pc EXCEPT ![p] = "checked"]
            /\ work' = [work EXCEPT ![p] = v]
       ELSE UNCHANGED <<pc, work>>
    /\ reply' = [reply EXCEPT ![p] = NoWork]
    /\ UNCHANGED <<config, manifest, lock>>

(* Mutant: the digest was compared by apply_weighting_update already.       *)
ReplaceUnchecked(p) ==
    /\ pc[p] = "checked"
    /\ lock = NoOne
    /\ config' \in {Proposed(work[p]), Damaged}
    /\ lock' = p
    /\ pc' = [pc EXCEPT ![p] = "replaced"]
    /\ UNCHANGED <<manifest, work, pending, reply>>

(* replace takes the lock, compares the digest again and replaces the       *)
(* config by a temporary file whose length is not looked at ...             *)
ReplaceConfig(p) ==
    /\ pc[p] = "checked"
    /\ lock = NoOne
    /\ IF manifest # Damaged /\ config = work[p].base
       THEN /\ config' \in {Proposed(work[p]), Damaged}
            /\ lock' = p
            /\ pc' = [pc EXCEPT ![p] = "replaced"]
            /\ UNCHANGED work
       ELSE Finish(p) /\ UNCHANGED <<config, lock>>
    /\ UNCHANGED <<manifest, pending, reply>>

(* ... and then the manifest, still under the lock.                         *)
ReplaceManifest(p) ==
    /\ pc[p] = "replaced"
    /\ manifest' \in {config, Damaged}
    /\ lock' = NoOne
    /\ pc' = [pc EXCEPT ![p] = "written"]
    /\ UNCHANGED <<config, work, pending, reply>>

(* The config is validated and read back; another version is an error.      *)
ReadBack(p) ==
    /\ pc[p] = "written"
    /\ lock = NoOne
    /\ reply' = IF Usable /\ config = Proposed(work[p])
                THEN [reply EXCEPT ![p] = work[p].update]
                ELSE reply
    /\ Finish(p)
    /\ UNCHANGED <<config, manifest, lock, pending>>

(* A process dies, its lock and its pending previews with it.               *)
Crash(p) ==
    /\ lock' = IF lock = p THEN NoOne ELSE lock
    /\ Finish(p)
    /\ pending' = [pending EXCEPT ![p] = {}]
    /\ reply' = [reply EXCEPT ![p] = NoWork]
    /\ UNCHANGED <<config, manifest>>

Next ==
    \E p \in Procs :
        \/ \E u \in Updates : StartPreview(p, u)
        \/ Register(p)
        \/ \E v \in pending[p] : Consume(p, v)
        \/ ReplaceConfig(p)
        \/ ReplaceManifest(p)
        \/ ReadBack(p)
        \/ Crash(p)

Spec == Init /\ [][Next]_vars

--------------------------------------------------------------------------------
(* Every variable stays in its domain; a process holds the lock exactly     *)
(* between its two replacements, and a preview exactly while it works.      *)
TypeOK ==
    /\ config \in Config \cup {Damaged}
    /\ manifest \in Config \cup {Damaged}
    /\ lock \in Procs \cup {NoOne}
    /\ pc \in [Procs -> {"idle", "read", "checked", "replaced", "written"}]
    /\ work \in [Procs -> Preview \cup {NoWork}]
    /\ \A p \in Procs : lock = p <=> pc[p] = "replaced"
    /\ \A p \in Procs : pc[p] = "idle" <=> work[p] = NoWork
    /\ pending \in [Procs -> SUBSET Preview]
    /\ reply \in [Procs -> Updates \cup {NoWork}]

(* A crash or a short write between the two replacements disables the       *)
(* policy for good: an update that validated before cannot complete either, *)
(* so the damage is neither served nor covered up.                          *)
UnusableForGood == [][lock = NoOne /\ ~Usable => ~Usable']_vars
================================================================================
