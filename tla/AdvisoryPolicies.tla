---------------------------- MODULE AdvisoryPolicies ----------------------------
(***************************************************************************)
(* The advisory policies: a file of policy rows, and a manifest that records*)
(* its digest, written in place one after the other under one lock.         *)
(*                                                                         *)
(*   runtime/advisory_state_store.py     AdvisoryPolicyStore                *)
(*   runtime/advisory_policy_update.py   previews and applies               *)
(*   runtime/reference_composition.py    the connector's two actions        *)
(*                                                                         *)
(* An update patches the rules of one portfolio's active policy and puts    *)
(* the result in its place, the old one staying as "superseded".  A policy  *)
(* is abstracted to the changes its rules have taken, oldest first: what it *)
(* supersedes is that without the last, and its id, a digest of portfolio,  *)
(* rules and superseded id, is all of it.  The file's digest is its         *)
(* contents.  Every read validates under the lock and looks again under     *)
(* another; the two are one step: a file only ever replaced by a later one  *)
(* cannot be seen before and after with another in between.                 *)
(***************************************************************************)
EXTENDS AdvisoryFiles

CONSTANTS
    Portfolios,
    Changes         \* patches of a policy's rules

VARIABLES
    policies,   \* the rows of policies.json: portfolio, changes and status
    manifest,   \* the policies_sha256 of manifest.json
    lock,       \* who holds .policy-store.lock exclusively
    pc,         \* [Procs -> where a process is in a preview or an apply]
    work,       \* [Procs -> its preview, with the rows it listed, or NoWork]
    pending,    \* [Procs -> previews waiting for their confirmation]
    reply       \* [Procs -> the policy answered "applied", or NoWork]

vars == <<policies, manifest, lock, pc, work, pending, reply>>

(* The imported store has one active policy for each portfolio.             *)
Migrated == {[portfolio |-> f, changes |-> << >>, status |-> "active"] : f \in Portfolios}

Init ==
    /\ policies = Migrated
    /\ manifest = Migrated
    /\ lock = NoOne
    /\ pc = [p \in Procs |-> "idle"]
    /\ work = [p \in Procs |-> NoWork]
    /\ pending = [p \in Procs |-> {}]
    /\ reply = [p \in Procs |-> NoWork]

ActiveOf(rows, f) == {row \in rows : row.portfolio = f /\ row.status = "active"}

(* _validate_rows: no id twice, at most one active policy a portfolio.      *)
RowsValid(rows) ==
    /\ rows # {}
    /\ \A r, s \in rows : r.portfolio = s.portfolio /\ r.changes = s.changes => r = s
    /\ \A r, s \in rows : r.portfolio = s.portfolio /\ r.status = "active"
                          /\ s.status = "active" => r = s

(* validate: both files parse and the manifest records these rows.          *)
Usable == policies # Damaged /\ manifest = policies /\ RowsValid(policies)

(* What _private_write may leave of a file.                                *)
Written(contents) == {contents, Damaged}

Finish(p) ==
    /\ pc' = [pc EXCEPT ![p] = "idle"]
    /\ work' = [work EXCEPT ![p] = NoWork]

--------------------------------------------------------------------------------
(* build_policy_update_preview: the portfolio's current policy with the     *)
(* patch merged in; a patch without effect is refused.                      *)
StartPreview(p, f, c) ==
    /\ pc[p] = "idle"
    /\ lock = NoOne
    /\ Usable
    /\ Cardinality(pending[p]) < MaxPreviews
    /\ \E current \in ActiveOf(policies, f) :
           /\ c \notin ToSet(current.changes)
           /\ work' = [work EXCEPT ![p] =
                  [next |-> [current EXCEPT !.changes = Append(@, c)],
                   base |-> {}, rows |-> {}]]
    /\ pc' = [pc EXCEPT ![p] = "read"]
    /\ reply' = [reply EXCEPT ![p] = NoWork]
    /\ UNCHANGED <<policies, manifest, lock, pending>>

(* Then revision_digest: the base is the store as it is by now.             *)
Register(p) ==
    /\ pc[p] = "read"
    /\ lock = NoOne
    /\ pending' = IF Usable
                  THEN [pending EXCEPT ![p] = @ \cup {[work[p] EXCEPT !.base = policies]}]
                  ELSE pending
    /\ Finish(p)
    /\ UNCHANGED <<policies, manifest, lock, reply>>

(* Mutant: whichever policy is current is the one to supersede.             *)
ConsumeAny(p, v) ==
    /\ pc[p] = "idle"
    /\ lock = NoOne
    /\ pending' = [pending EXCEPT ![p] = @ \ {v}]
    /\ IF Usable
       THEN /\ pc' = [pc EXCEPT ![p] = "current"]
            /\ work' = [work EXCEPT ![p] = v]
       ELSE UNCHANGED <<pc, work>>
    /\ reply' = [reply EXCEPT ![p] = NoWork]
    /\ UNCHANGED <<policies, manifest, lock>>

(* apply_policy_update: the preview is consumed, and is stale when the      *)
(* portfolio's current policy is no longer the one it read ...              *)
Consume(p, v) ==
    /\ pc[p] = "idle"
    /\ lock = NoOne
    /\ pending' = [pending EXCEPT ![p] = @ \ {v}]
    /\ IF Usable /\ \E current \in ActiveOf(policies, v.next.portfolio) :
                        current.changes = Front(v.next.changes)
       THEN /\ pc' = [pc EXCEPT ![p] = "current"]
            /\ work' = [work EXCEPT ![p] = v]
       ELSE UNCHANGED <<pc, work>>
    /\ reply' = [reply EXCEPT ![p] = NoWork]
    /\ UNCHANGED <<policies, manifest, lock>>

(* ... or the store is no longer at its base.                               *)
CheckBase(p) ==
    /\ pc[p] = "current"
    /\ lock = NoOne
    /\ IF Usable /\ policies = work[p].base
       THEN pc' = [pc EXCEPT ![p] = "fresh"] /\ UNCHANGED work
       ELSE Finish(p)
    /\ UNCHANGED <<policies, manifest, lock, pending, reply>>

(* The rows are listed again, the active one superseded, the next appended. *)
Succeeded(rows, next) ==
    {IF row \in ActiveOf(rows, next.portfolio)
     THEN [row EXCEPT !.status = "superseded"] ELSE row : row \in rows} \cup {next}

ListPolicies(p) ==
    /\ pc[p] = "fresh"
    /\ lock = NoOne
    /\ IF Usable
       THEN /\ work' = [work EXCEPT ![p].rows = Succeeded(policies, work[p].next)]
            /\ pc' = [pc EXCEPT ![p] = "listed"]
       ELSE Finish(p)
    /\ UNCHANGED <<policies, manifest, lock, pending, reply>>

(* Mutant: the digest was compared before the rows were listed.             *)
ReplaceUnchecked(p) ==
    /\ pc[p] = "listed"
    /\ lock = NoOne
    /\ policies' \in Written(work[p].rows)
    /\ lock' = p
    /\ pc' = [pc EXCEPT ![p] = "replaced"]
    /\ UNCHANGED <<manifest, work, pending, reply>>

(* replace_policies takes the lock, compares the digest once more, and      *)
(* _private_write truncates the file and writes the rows in its place: what *)
(* a crash in between or a short write leaves does not parse ...            *)
ReplacePolicies(p) ==
    /\ pc[p] = "listed"
    /\ lock = NoOne
    /\ IF RowsValid(work[p].rows) /\ manifest # Damaged /\ policies = work[p].base
       THEN /\ policies' \in Written(work[p].rows)
            /\ lock' = p
            /\ pc' = [pc EXCEPT ![p] = "replaced"]
            /\ UNCHANGED work
       ELSE Finish(p) /\ UNCHANGED <<policies, lock>>
    /\ UNCHANGED <<manifest, pending, reply>>

(* ... then the manifest, with the digest of what the file is now.          *)
ReplaceManifest(p) ==
    /\ pc[p] = "replaced"
    /\ manifest' \in Written(policies)
    /\ lock' = NoOne
    /\ pc' = [pc EXCEPT ![p] = "written"]
    /\ UNCHANGED <<policies, work, pending, reply>>

(* The store is validated and the portfolio's current policy read back.     *)
ReadBack(p) ==
    /\ pc[p] = "written"
    /\ lock = NoOne
    /\ reply' = IF Usable /\ work[p].next \in policies
                THEN [reply EXCEPT ![p] = work[p].next]
                ELSE reply
    /\ Finish(p)
    /\ UNCHANGED <<policies, manifest, lock, pending>>

(* A process dies, its lock and its pending previews with it.               *)
Crash(p) ==
    /\ lock' = IF lock = p THEN NoOne ELSE lock
    /\ Finish(p)
    /\ pending' = [pending EXCEPT ![p] = {}]
    /\ reply' = [reply EXCEPT ![p] = NoWork]
    /\ UNCHANGED <<policies, manifest>>

Next ==
    \E p \in Procs :
        \/ \E f \in Portfolios, c \in Changes : StartPreview(p, f, c)
        \/ Register(p)
        \/ \E v \in pending[p] : Consume(p, v)
        \/ CheckBase(p)
        \/ ListPolicies(p)
        \/ ReplacePolicies(p)
        \/ ReplaceManifest(p)
        \/ ReadBack(p)
        \/ Crash(p)

Spec == Init /\ [][Next]_vars

--------------------------------------------------------------------------------
(* While the store is usable the policies of a portfolio are one line of    *)
(* succession with only the last in force, and a policy a process was told  *)
(* was applied is in it: no update is merged into rules that another had    *)
(* replaced, though a preview reads them and takes its base digest at       *)
(* different times, and the rows are listed again after both were compared. *)
PoliciesSucceed ==
    Usable =>
        /\ \A f \in Portfolios : \E last \in ActiveOf(policies, f) :
               \A row \in policies :
                   row.portfolio = f => IsPrefix(row.changes, last.changes)
        /\ \A p \in Procs : reply[p] # NoWork =>
               \E row \in policies : row.portfolio = reply[p].portfolio
                                     /\ row.changes = reply[p].changes

(* A crash between the two writes, or inside either, disables the store for *)
(* good: an update already under way cannot complete, so that the policies  *)
(* in place before are neither served again nor silently replaced.          *)
PoliciesUnusableForGood == [][lock = NoOne /\ ~Usable => ~Usable']_vars
================================================================================
