------------------------------ MODULE AdvisoryPlans ------------------------------
(***************************************************************************)
(* Advisory plans: one file that holds the plans and the history that led   *)
(* to them, replaced as a whole by a rename under a lock.                   *)
(*                                                                         *)
(*   runtime/advisory_plan_store.py     AdvisoryPlanStore                   *)
(*   runtime/advisory_plan_update.py    previews, applies, the coordinator  *)
(*                                                                         *)
(* A server handles requests in several threads (workers) that share its    *)
(* pending previews; several servers share the file.  A reader takes no     *)
(* lock: the rename gives it one state or the next.  A preview id and the   *)
(* id of the plan it would create are drawn together, so one value stands   *)
(* for both.  Digests are abstracted to what they are digests of.           *)
(***************************************************************************)
EXTENDS Naturals, Sequences, FiniteSets

CONSTANTS
    Servers,
    Workers,        \* the threads that handle applies
    HostOf,         \* [Workers -> Servers]
    Portfolios,
    Ids,            \* previews, and the plans they create
    Imported,       \* the imported baseline: a set of Row
    MaxPending,     \* bound on the previews of a server (100 in the code)
    NoPlan

Operations == {"create", "replace", "close"}

Row == [id: Ids, portfolio: Portfolios, status: {"active", "superseded", "closed"}]

(* An event also records the row it ended; the row follows from `target'.   *)
Event == [id: Ids, operation: Operations, portfolio: Portfolios,
          target: Ids \cup {NoPlan}]

State == [plans: SUBSET Row, history: Seq(Event)]

(* A reviewed change and the state it was reviewed against.                 *)
Candidate == [change: Event, base: State]

(* A candidate at work, and the rows its apply will publish.                *)
Work == [candidate: Candidate, rows: SUBSET Row]

ASSUME ConstantsAssumption ==
    /\ HostOf \in [Workers -> Servers]
    /\ Imported \subseteq Row
    /\ MaxPending \in Nat
    /\ NoPlan \notin Ids
    /\ NoPlan \notin Work

VARIABLES
    state,      \* the plan file
    drawn,      \* the ids drawn so far
    pending,    \* [Servers -> SUBSET Candidate]
    pc,         \* [Workers -> where the worker is in an apply]
    work,       \* [Workers -> Work or NoPlan]
    reply       \* [Ids -> the answers given to applies of this preview]

vars == <<state, drawn, pending, pc, work, reply>>

Init ==
    /\ state = [plans |-> Imported, history |-> << >>]
    /\ drawn = {r.id : r \in Imported}
    /\ pending = [s \in Servers |-> {}]
    /\ pc = [w \in Workers |-> "idle"]
    /\ work = [w \in Workers |-> NoPlan]
    /\ reply = [v \in Ids |-> {}]

ActivePlans(plans, portfolio) ==
    {r.id : r \in {q \in plans : q.portfolio = portfolio /\ q.status = "active"}}

(* _validate_rows                                                           *)
ValidRows(plans) ==
    /\ \A r, q \in plans : r.id = q.id => r = q
    /\ \A f \in Portfolios : \A a, b \in ActivePlans(plans, f) : a = b

(* A baseline that is not valid is rejected by every read.                  *)
ASSUME BaselineAssumption == ValidRows(Imported)

(* Mutant: a closed plan is taken out of the file.                          *)
RowsWithoutClosed(change, plans) ==
    {r \in plans : r.id # change.target}
    \cup (IF change.operation = "close" THEN {}
          ELSE {[id |-> change.id, portfolio |-> change.portfolio, status |-> "active"]})

(* The plans after a change: its target ends, and it creates a plan unless  *)
(* it closes one.                                                           *)
RowsAfter(change, plans) ==
    {IF r.id # change.target THEN r
     ELSE [r EXCEPT !.status = IF change.operation = "close" THEN "closed" ELSE "superseded"]
        : r \in plans}
    \cup (IF change.operation = "close" THEN {}
          ELSE {[id |-> change.id, portfolio |-> change.portfolio, status |-> "active"]})

Finish(w) ==
    /\ pc' = [pc EXCEPT ![w] = "idle"]
    /\ work' = [work EXCEPT ![w] = NoPlan]

Answer(w, answer) ==
    /\ reply' = [reply EXCEPT ![work[w].candidate.change.id] = @ \cup {answer}]
    /\ Finish(w)

--------------------------------------------------------------------------------
(* build_plan_update_preview looks at one state; what it returns depends on *)
(* nothing after that, so registering it is the same step.                  *)
Target(operation, portfolio) ==
    LET active == ActivePlans(state.plans, portfolio)
    IN  IF operation = "create"
        THEN IF active = {} THEN {NoPlan} ELSE {}    \* plan_active_exists_...
        ELSE active                                  \* plan_target_not_active

Preview(s, v, operation, portfolio) ==
    /\ v \notin drawn
    /\ drawn' = drawn \cup {v}
    /\ Cardinality(pending[s]) < MaxPending
    /\ \E target \in Target(operation, portfolio) :
           pending' = [pending EXCEPT ![s] = @ \cup
               {[change |-> [id |-> v, operation |-> operation,
                             portfolio |-> portfolio, target |-> target],
                 base |-> state]}]
    /\ UNCHANGED <<state, pc, work, reply>>

(* A preview is discarded, or purged when it has expired.                   *)
Discard(s, c) ==
    /\ pending' = [pending EXCEPT ![s] = @ \ {c}]
    /\ UNCHANGED <<state, drawn, pc, work, reply>>

--------------------------------------------------------------------------------
(* Mutant: the preview stays for another attempt.                           *)
ConsumeKeeping(w, c) ==
    /\ pc[w] = "idle"
    /\ work' = [work EXCEPT ![w] = [candidate |-> c, rows |-> {}]]
    /\ pc' = [pc EXCEPT ![w] = "consumed"]
    /\ UNCHANGED <<state, drawn, pending, reply>>

(* PlanUpdateCoordinator.apply: the preview is popped under the server's    *)
(* mutex, whatever comes of it.                                             *)
Consume(w, c) ==
    /\ pc[w] = "idle"
    /\ pending' = [pending EXCEPT ![HostOf[w]] = @ \ {c}]
    /\ work' = [work EXCEPT ![w] = [candidate |-> c, rows |-> {}]]
    /\ pc' = [pc EXCEPT ![w] = "consumed"]
    /\ UNCHANGED <<state, drawn, reply>>

(* There is no such preview (plan_preview_not_found_or_consumed): it was    *)
(* popped, by another thread that may be at its apply now or by an earlier  *)
(* try, discarded or expired, lost in a restart, or it is another server's. *)
FindNone(w, v) ==
    /\ pc[w] = "idle"
    /\ v \in drawn
    /\ \A c \in pending[HostOf[w]] : c.change.id # v
    /\ reply' = [reply EXCEPT ![v] = @ \cup {"gone"}]
    /\ UNCHANGED <<state, drawn, pending, pc, work>>

(* Its confirmation is wrong, its authority or its approval is missing,     *)
(* expired or revoked.                                                      *)
Refuse(w) ==
    /\ pc[w] = "consumed"
    /\ Answer(w, "refused")
    /\ UNCHANGED <<state, drawn, pending>>

(* apply_plan_update: the state must be the reviewed one; the rows to       *)
(* publish are derived from it.                                             *)
Check(w) ==
    LET c == work[w].candidate
    IN  /\ pc[w] = "consumed"
        /\ IF state = c.base
           THEN /\ pc' = [pc EXCEPT ![w] = "checked"]
                /\ work' = [work EXCEPT ![w].rows = RowsAfter(c.change, state.plans)]
                /\ UNCHANGED reply
           ELSE Answer(w, "refused")
        /\ UNCHANGED <<state, drawn, pending>>

Replayed(v) == \E i \in DOMAIN state.history : state.history[i].id = v

Published(w) ==
    [plans |-> work[w].rows,
     history |-> Append(state.history, work[w].candidate.change)]

(* Mutant: the state was compared before the lock was taken.                *)
PublishUnchecked(w) ==
    LET c == work[w].candidate
    IN  /\ pc[w] = "checked"
        /\ state' = Published(w)
        /\ pc' = [pc EXCEPT ![w] = "published"]
        /\ UNCHANGED <<work, reply, drawn, pending>>

(* replace_plans, under the store's lock: compare again, write a temporary  *)
(* file and rename it.                                                      *)
Publish(w) ==
    LET c == work[w].candidate
    IN  /\ pc[w] = "checked"
        /\ IF ValidRows(work[w].rows) /\ ~Replayed(c.change.id) /\ state = c.base
           THEN /\ state' = Published(w)
                /\ pc' = [pc EXCEPT ![w] = "published"]
                /\ UNCHANGED <<work, reply>>
           ELSE /\ Answer(w, "refused")
                /\ UNCHANGED state
        /\ UNCHANGED <<drawn, pending>>

(* Writing the temporary file fails, or the fsync of the directory after    *)
(* the rename.                                                              *)
FailToPublish(w) ==
    /\ pc[w] \in {"checked", "published"}
    /\ Answer(w, "failed")
    /\ UNCHANGED <<state, drawn, pending>>

(* A fresh read must show what was published; another update in between is  *)
(* a plan_readback_mismatch.                                                *)
ReadBack(w) ==
    LET c == work[w].candidate
    IN  /\ pc[w] = "published"
        /\ Answer(w, IF /\ state.plans = work[w].rows
                        /\ state.history = Append(c.base.history, c.change)
                     THEN "applied" ELSE "failed")
        /\ UNCHANGED <<state, drawn, pending>>

(* A server dies, and its pending previews and workers with it.             *)
Crash(s) ==
    /\ pending' = [pending EXCEPT ![s] = {}]
    /\ pc' = [w \in Workers |-> IF HostOf[w] = s THEN "idle" ELSE pc[w]]
    /\ work' = [w \in Workers |-> IF HostOf[w] = s THEN NoPlan ELSE work[w]]
    /\ UNCHANGED <<state, drawn, reply>>

Next ==
    \/ \E s \in Servers :
        \/ \E v \in Ids, operation \in Operations, portfolio \in Portfolios :
               Preview(s, v, operation, portfolio)
        \/ \E c \in pending[s] : Discard(s, c)
        \/ Crash(s)
    \/ \E w \in Workers :
        \/ \E c \in pending[HostOf[w]] : Consume(w, c)
        \/ \E v \in Ids : FindNone(w, v)
        \/ Refuse(w)
        \/ Check(w)
        \/ Publish(w)
        \/ FailToPublish(w)
        \/ ReadBack(w)

Spec == Init /\ [][Next]_vars

--------------------------------------------------------------------------------
(* Every variable stays in its domain, and exactly the workers at an apply  *)
(* hold a candidate.                                                        *)
TypeOK ==
    /\ state \in State
    /\ drawn \subseteq Ids
    /\ pending \in [Servers -> SUBSET Candidate]
    /\ pc \in [Workers -> {"idle", "consumed", "checked", "published"}]
    /\ work \in [Workers -> Work \cup {NoPlan}]
    /\ \A w \in Workers : pc[w] = "idle" <=> work[w] = NoPlan
    /\ reply \in [Ids -> SUBSET {"applied", "refused", "failed", "gone"}]

EventsOf(portfolio) ==
    {i \in DOMAIN state.history : state.history[i].portfolio = portfolio}

(* The plan in force is the one the history says: of a portfolio, the plan  *)
(* its last event created, or none when it closed one; so never two of one  *)
(* portfolio, although changes of all portfolios replace the same file.     *)
ActiveIsLatest ==
    \A f \in Portfolios :
        /\ EventsOf(f) = {} => ActivePlans(state.plans, f) = ActivePlans(Imported, f)
        /\ \A last \in EventsOf(f) :
               (\A j \in EventsOf(f) : j <= last) =>
                   ActivePlans(state.plans, f) =
                       IF state.history[last].operation = "close" THEN {}
                       ELSE {state.history[last].id}

(* Versions are retained (docs/native-plan-lifecycle.md): whatever the      *)
(* servers do, a plan never leaves the file, an ended plan is never changed *)
(* again, and the history only grows.                                       *)
PlansRetained ==
    [][ /\ \A r \in state.plans :
               \E q \in state'.plans :
                   q.id = r.id /\ q.portfolio = r.portfolio
                   /\ (r.status # "active" => q.status = r.status)
        /\ \A i \in DOMAIN state.history :
               i \in DOMAIN state'.history /\ state'.history[i] = state.history[i] ]_vars

(* An answer of the apply that had the preview can be relied on: answered   *)
(* "applied" it is in the history, and refused it is not and never will be. *)
(* It is the only such answer: an apply of the same preview at the same     *)
(* time, a retry or another server is told "gone" and no more (apply is     *)
(* single-use, docs/native-plan-lifecycle.md).  "gone" leaves open what the *)
(* apply that had the preview does or did, also that it publishes later; so *)
(* does a failure ("persistence may have completed before a read-back       *)
(* error").                                                                 *)
AnswersHold ==
    \A v \in Ids :
        /\ "applied" \in reply[v] => Replayed(v)
        /\ "refused" \in reply[v] => ~Replayed(v)
        /\ \A a, b \in reply[v] \ {"gone"} : a = b
================================================================================
