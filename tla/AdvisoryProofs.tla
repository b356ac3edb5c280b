----------------------------- MODULE AdvisoryProofs -----------------------------
(***************************************************************************)
(* Proofs about the three advisory stores, for any processes and portfolios.*)
(*                                                                         *)
(*   AdvisoryPlans      the plans: any servers, workers and previews        *)
(*   AdvisoryPolicies   (as P) the policies: any patches of their rules     *)
(*   OpinionWeighting   (as W) the weighting config: any patches of it      *)
(*                                                                         *)
(* The stores share no file.                                                *)
(***************************************************************************)
EXTENDS AdvisoryPlans, AdvisorySettings, TLAPS

--------------------------------------------------------------------------------
(***************************************************************************)
(* AdvisoryPlans.                                                           *)
(***************************************************************************)

(* A worker at an apply holds a candidate.                                  *)
LEMMA WorkType ==
    ASSUME TypeOK, NEW w \in Workers, pc[w] # "idle"
    PROVE  /\ work[w] \in Work
           /\ work[w].candidate \in Candidate
           /\ work[w].candidate.change \in Event
           /\ work[w].candidate.change.id \in Ids
           /\ work[w].rows \subseteq Row
<1>1. work[w] \in Work
  BY DEF TypeOK
<1>. QED
  BY <1>1 DEF Work, Candidate, Event

LEMMA FinishType ==
    ASSUME TypeOK, NEW w \in Workers, Finish(w)
    PROVE  /\ pc' \in [Workers -> {"idle", "consumed", "checked", "published"}]
           /\ work' \in [Workers -> Work \cup {NoPlan}]
           /\ \A t \in Workers : pc'[t] = "idle" <=> work'[t] = NoPlan
  BY DEF Finish, TypeOK

LEMMA AnswerType ==
    ASSUME TypeOK, NEW w \in Workers, pc[w] # "idle",
           NEW answer \in {"applied", "refused", "failed"}, Answer(w, answer)
    PROVE  /\ pc' \in [Workers -> {"idle", "consumed", "checked", "published"}]
           /\ work' \in [Workers -> Work \cup {NoPlan}]
           /\ \A t \in Workers : pc'[t] = "idle" <=> work'[t] = NoPlan
           /\ reply' \in [Ids -> SUBSET {"applied", "refused", "failed", "gone"}]
<1>1. Finish(w)
  BY DEF Answer
<1>2. reply' \in [Ids -> SUBSET {"applied", "refused", "failed", "gone"}]
  BY DEF Answer, TypeOK
<1>. QED
  BY <1>1, <1>2, FinishType

LEMMA RowsAfterType ==
    ASSUME NEW change \in Event, NEW plans, plans \subseteq Row
    PROVE  RowsAfter(change, plans) \subseteq Row
<1>1. ASSUME NEW r \in plans, NEW status \in {"active", "superseded", "closed"}
      PROVE  [r EXCEPT !.status = status] \in Row
  BY <1>1 DEF Row
<1>2. [id |-> change.id, portfolio |-> change.portfolio, status |-> "active"] \in Row
  BY DEF Event, Row
<1>. QED
  BY <1>1, <1>2 DEF RowsAfter

(* The only step that changes the state publishes a checked candidate under *)
(* the lock.                                                                *)
Publishes(w) ==
    /\ pc[w] = "checked"
    /\ ValidRows(work[w].rows)
    /\ ~Replayed(work[w].candidate.change.id)
    /\ state = work[w].candidate.base
    /\ state' = Published(w)
    /\ pc' = [pc EXCEPT ![w] = "published"]
    /\ UNCHANGED <<work, reply, drawn, pending>>

LEMMA StateSteps ==
    ASSUME [Next]_vars
    PROVE  state' = state \/ \E w \in Workers : Publishes(w)
<1>1. CASE UNCHANGED vars
  BY <1>1 DEF vars
<1>2. ASSUME NEW w \in Workers, Publish(w) PROVE state' = state \/ Publishes(w)
  BY <1>2 DEF Publish, Publishes
<1>. QED
  BY <1>1, <1>2 DEF Next, Preview, Discard, Crash, Consume, FindNone, Refuse, Check,
     FailToPublish, ReadBack

LEMMA PublishedType ==
    ASSUME TypeOK, NEW w \in Workers, Publishes(w)
    PROVE  /\ state' \in State
           /\ state'.plans = work[w].rows
           /\ state'.history = Append(state.history, work[w].candidate.change)
<1>1. work[w].rows \subseteq Row /\ work[w].candidate.change \in Event
  BY WorkType DEF Publishes
<1>2. state.history \in Seq(Event)
  BY DEF TypeOK, State
<1>3. Append(state.history, work[w].candidate.change) \in Seq(Event)
  BY <1>1, <1>2
<1>. QED
  BY <1>1, <1>3 DEF Publishes, Published, State

LEMMA TypeInit == Init => TypeOK
<1>. SUFFICES ASSUME Init PROVE TypeOK
  OBVIOUS
<1>1. state \in State /\ drawn \subseteq Ids
  BY ConstantsAssumption DEF Init, State, Row
<1>2. work \in [Workers -> Work \cup {NoPlan}] /\ pending \in [Servers -> SUBSET Candidate]
  BY DEF Init
<1>. QED
  BY <1>1, <1>2 DEF Init, TypeOK

LEMMA TypeStep ==
    ASSUME TypeOK, [Next]_vars
    PROVE  TypeOK'
<1>1. CASE UNCHANGED vars
  BY <1>1 DEF vars, TypeOK
<1>2. ASSUME NEW s \in Servers, NEW v \in Ids, NEW operation \in Operations,
             NEW portfolio \in Portfolios, Preview(s, v, operation, portfolio)
      PROVE  TypeOK'
  <2>1. PICK target \in Target(operation, portfolio) :
           pending' = [pending EXCEPT ![s] = @ \cup
               {[change |-> [id |-> v, operation |-> operation,
                             portfolio |-> portfolio, target |-> target],
                 base |-> state]}]
    BY <1>2 DEF Preview
  <2>2. target \in Ids \cup {NoPlan}
    BY <2>1 DEF Target, ActivePlans, TypeOK, State, Row
  <2>3. [change |-> [id |-> v, operation |-> operation,
                     portfolio |-> portfolio, target |-> target],
         base |-> state] \in Candidate
    BY <2>2 DEF Candidate, Event, TypeOK
  <2>4. pending' \in [Servers -> SUBSET Candidate]
    BY <2>1, <2>3 DEF TypeOK
  <2>. QED
    BY <1>2, <2>4 DEF Preview, TypeOK
<1>3. ASSUME NEW s \in Servers, NEW c \in pending[s], Discard(s, c)
      PROVE  TypeOK'
  BY <1>3 DEF Discard, TypeOK
<1>4. ASSUME NEW s \in Servers, Crash(s) PROVE TypeOK'
  BY <1>4 DEF Crash, TypeOK
<1>5. ASSUME NEW w \in Workers, NEW c \in pending[HostOf[w]], Consume(w, c)
      PROVE  TypeOK'
  <2>1. HostOf[w] \in Servers /\ c \in Candidate
    BY ConstantsAssumption DEF TypeOK
  <2>2. [candidate |-> c, rows |-> {}] \in Work
    BY <2>1 DEF Work
  <2>3. work' \in [Workers -> Work \cup {NoPlan}]
    BY <1>5, <2>2 DEF Consume, TypeOK
  <2>4. pc' \in [Workers -> {"idle", "consumed", "checked", "published"}]
    BY <1>5 DEF Consume, TypeOK
  <2>5. \A t \in Workers : pc'[t] = "idle" <=> work'[t] = NoPlan
    BY <1>5, <2>2, ConstantsAssumption DEF Consume, TypeOK
  <2>6. pending' \in [Servers -> SUBSET Candidate]
    BY <1>5 DEF Consume, TypeOK
  <2>. QED
    BY <1>5, <2>3, <2>4, <2>5, <2>6 DEF Consume, TypeOK
<1>6. ASSUME NEW w \in Workers, Refuse(w) PROVE TypeOK'
  <2>1. pc[w] # "idle" /\ Answer(w, "refused")
    BY <1>6 DEF Refuse
  <2>. QED
    BY <1>6, <2>1, AnswerType DEF Refuse, TypeOK
<1>7. ASSUME NEW w \in Workers, Check(w) PROVE TypeOK'
  <2>1. CASE state = work[w].candidate.base
    <3>1. work[w] \in Work /\ work[w].candidate.change \in Event
      BY <1>7, WorkType DEF Check
    <3>2. RowsAfter(work[w].candidate.change, state.plans) \subseteq Row
      BY <3>1, RowsAfterType DEF TypeOK, State
    <3>3. [work[w] EXCEPT !.rows = RowsAfter(work[w].candidate.change, state.plans)] \in Work
      BY <3>1, <3>2 DEF Work
    <3>4. work' = [work EXCEPT ![w] =
              [work[w] EXCEPT !.rows = RowsAfter(work[w].candidate.change, state.plans)]]
      BY <1>7, <2>1 DEF Check
    <3>5. work' \in [Workers -> Work \cup {NoPlan}]
      BY <3>3, <3>4 DEF TypeOK
    <3>6. pc' = [pc EXCEPT ![w] = "checked"] /\ reply' = reply
      BY <1>7, <2>1 DEF Check
    <3>7. \A t \in Workers : pc'[t] = "idle" <=> work'[t] = NoPlan
      BY <3>3, <3>4, <3>6, ConstantsAssumption DEF TypeOK
    <3>. QED
      BY <1>7, <3>5, <3>6, <3>7 DEF Check, TypeOK
  <2>2. CASE state # work[w].candidate.base
    <3>1. pc[w] # "idle" /\ Answer(w, "refused")
      BY <1>7, <2>2 DEF Check
    <3>. QED
      BY <1>7, <3>1, AnswerType DEF Check, TypeOK
  <2>. QED
    BY <2>1, <2>2
<1>8. ASSUME NEW w \in Workers, Publish(w) PROVE TypeOK'
  <2>1. CASE Publishes(w)
    <3>1. state' \in State
      BY <2>1, PublishedType
    <3>. QED
      BY <2>1, <3>1 DEF Publishes, TypeOK
  <2>2. CASE ~Publishes(w)
    <3>1. pc[w] # "idle" /\ Answer(w, "refused") /\ state' = state
      BY <1>8, <2>2 DEF Publish, Publishes
    <3>. QED
      BY <1>8, <3>1, AnswerType DEF Publish, TypeOK
  <2>. QED
    BY <2>1, <2>2
<1>9. ASSUME NEW w \in Workers, FailToPublish(w) PROVE TypeOK'
  <2>1. pc[w] # "idle" /\ Answer(w, "failed")
    BY <1>9 DEF FailToPublish
  <2>. QED
    BY <1>9, <2>1, AnswerType DEF FailToPublish, TypeOK
<1>10. ASSUME NEW w \in Workers, ReadBack(w) PROVE TypeOK'
  <2>1. pc[w] # "idle" /\ \E answer \in {"applied", "failed"} : Answer(w, answer)
    BY <1>10 DEF ReadBack
  <2>. QED
    BY <1>10, <2>1, AnswerType DEF ReadBack, TypeOK
<1>11. ASSUME NEW w \in Workers, NEW v \in Ids, FindNone(w, v) PROVE TypeOK'
  BY <1>11 DEF FindNone, TypeOK
<1>. QED
  BY <1>1, <1>2, <1>3, <1>4, <1>5, <1>6, <1>7, <1>8, <1>9, <1>10, <1>11 DEF Next

(* Every variable stays in its domain (AdvisoryPlanStore and                *)
(* PlanUpdateCoordinator).                                                  *)
THEOREM TypeCorrect == Spec => []TypeOK
<1>1. Init => TypeOK
  BY TypeInit
<1>2. TypeOK /\ [Next]_vars => TypeOK'
  BY TypeStep
<1>. QED
  BY <1>1, <1>2, PTL DEF Spec

--------------------------------------------------------------------------------
(* What a candidate was reviewed against: a valid state in which its target *)
(* is the active plan, or in which there is none to create a second one.    *)
Sound(c) ==
    /\ ValidRows(c.base.plans)
    /\ IF c.change.operation = "create"
       THEN c.change.target = NoPlan /\ ActivePlans(c.base.plans, c.change.portfolio) = {}
       ELSE c.change.target \in ActivePlans(c.base.plans, c.change.portfolio)

(* The rows an apply will publish are those of its candidate.               *)
AllSound ==
    /\ ValidRows(state.plans)
    /\ \A s \in Servers : \A c \in pending[s] : Sound(c)
    /\ \A w \in Workers :
           pc[w] # "idle" =>
               /\ Sound(work[w].candidate)
               /\ pc[w] = "checked" =>
                      work[w].rows = RowsAfter(work[w].candidate.change,
                                               work[w].candidate.base.plans)

LEMMA SoundInit == Init => AllSound
  BY BaselineAssumption DEF Init, AllSound

(* How one step changes what a worker is at.                                *)
LEMMA WorkSteps ==
    ASSUME TypeOK, [Next]_vars, NEW w \in Workers, pc'[w] # "idle"
    PROVE  \/ pc'[w] = pc[w] /\ work'[w] = work[w]
           \/ \E c \in pending[HostOf[w]] : Consume(w, c)
           \/ pc[w] = "consumed" /\ Check(w) /\ pc'[w] = "checked"
           \/ Publishes(w)
<1>1. CASE UNCHANGED vars
  BY <1>1 DEF vars
<1>2. ASSUME NEW t \in Workers, Finish(t) PROVE pc'[w] = pc[w] /\ work'[w] = work[w]
  BY <1>2 DEF Finish, TypeOK
<1>3. ASSUME NEW s \in Servers, NEW v \in Ids, NEW operation \in Operations,
             NEW portfolio \in Portfolios, Preview(s, v, operation, portfolio)
      PROVE  pc'[w] = pc[w] /\ work'[w] = work[w]
  BY <1>3 DEF Preview
<1>4. ASSUME NEW s \in Servers, NEW c \in pending[s], Discard(s, c)
      PROVE  pc'[w] = pc[w] /\ work'[w] = work[w]
  BY <1>4 DEF Discard
<1>5. ASSUME NEW s \in Servers, Crash(s) PROVE pc'[w] = pc[w] /\ work'[w] = work[w]
  BY <1>5 DEF Crash, TypeOK
<1>6. ASSUME NEW t \in Workers, NEW c \in pending[HostOf[t]], Consume(t, c), t # w
      PROVE  pc'[w] = pc[w] /\ work'[w] = work[w]
  BY <1>6 DEF Consume, TypeOK
<1>7. ASSUME NEW t \in Workers, Refuse(t) \/ FailToPublish(t) \/ ReadBack(t)
      PROVE  pc'[w] = pc[w] /\ work'[w] = work[w]
  BY <1>2, <1>7 DEF Refuse, FailToPublish, ReadBack, Answer
<1>8. ASSUME NEW t \in Workers, Check(t)
      PROVE  \/ pc'[w] = pc[w] /\ work'[w] = work[w]
             \/ t = w /\ pc[w] = "consumed" /\ pc'[w] = "checked"
  <2>1. CASE state = work[t].candidate.base
    BY <1>8, <2>1 DEF Check, TypeOK
  <2>2. CASE state # work[t].candidate.base
    BY <1>2, <1>8, <2>2 DEF Check, Answer
  <2>. QED
    BY <2>1, <2>2
<1>9. ASSUME NEW t \in Workers, Publish(t)
      PROVE  \/ pc'[w] = pc[w] /\ work'[w] = work[w]
             \/ t = w /\ Publishes(w)
  <2>1. CASE Publishes(t)
    BY <2>1 DEF Publishes, TypeOK
  <2>2. CASE ~Publishes(t)
    BY <1>2, <1>9, <2>2 DEF Publish, Publishes, Answer
  <2>. QED
    BY <2>1, <2>2
<1>10. ASSUME NEW t \in Workers, NEW v \in Ids, FindNone(t, v)
       PROVE  pc'[w] = pc[w] /\ work'[w] = work[w]
  BY <1>10 DEF FindNone
<1>. QED
  BY <1>1, <1>3, <1>4, <1>5, <1>6, <1>7, <1>8, <1>9, <1>10 DEF Next

(* A preview enters a server's pending set only as Preview makes it.        *)
LEMMA PendingSteps ==
    ASSUME TypeOK, [Next]_vars, NEW s \in Servers, NEW c \in pending'[s]
    PROVE  \/ c \in pending[s]
           \/ /\ \E operation \in Operations, portfolio \in Portfolios :
                    \E target \in Target(operation, portfolio) :
                       c = [change |-> [id |-> c.change.id, operation |-> operation,
                                        portfolio |-> portfolio, target |-> target],
                            base |-> state]
              /\ c.change.id \in Ids \ drawn
              /\ drawn' = drawn \cup {c.change.id}
              /\ pending' = [pending EXCEPT ![s] = @ \cup {c}]
              /\ UNCHANGED <<state, pc, work, reply>>
<1>1. ASSUME NEW t \in Servers, NEW v \in Ids, NEW operation \in Operations,
             NEW portfolio \in Portfolios, Preview(t, v, operation, portfolio),
             c \notin pending[s]
      PROVE  /\ \E target \in Target(operation, portfolio) :
                   c = [change |-> [id |-> c.change.id, operation |-> operation,
                                    portfolio |-> portfolio, target |-> target],
                        base |-> state]
             /\ c.change.id \in Ids \ drawn
             /\ drawn' = drawn \cup {c.change.id}
             /\ pending' = [pending EXCEPT ![s] = @ \cup {c}]
             /\ UNCHANGED <<state, pc, work, reply>>
  <2>1. PICK target \in Target(operation, portfolio) :
           pending' = [pending EXCEPT ![t] = @ \cup
               {[change |-> [id |-> v, operation |-> operation,
                             portfolio |-> portfolio, target |-> target],
                 base |-> state]}]
    BY <1>1 DEF Preview
  <2>2. s = t /\ c = [change |-> [id |-> v, operation |-> operation,
                                  portfolio |-> portfolio, target |-> target],
                      base |-> state]
    BY <1>1, <2>1 DEF TypeOK
  <2>3. c.change.id = v
    BY <2>2
  <2>. QED
    BY <1>1, <2>1, <2>2, <2>3 DEF Preview
<1>2. ASSUME \/ UNCHANGED pending
             \/ \E t \in Servers, d \in Candidate : pending' = [pending EXCEPT ![t] = @ \ {d}]
             \/ \E t \in Servers : pending' = [pending EXCEPT ![t] = {}]
      PROVE  c \in pending[s]
  BY <1>2 DEF TypeOK
<1>3. ASSUME NEW t \in Servers, NEW d \in pending[t], Discard(t, d)
      PROVE  c \in pending[s]
  BY <1>2, <1>3 DEF Discard, TypeOK
<1>4. ASSUME NEW w \in Workers, NEW d \in pending[HostOf[w]], Consume(w, d)
      PROVE  c \in pending[s]
  BY <1>2, <1>4, ConstantsAssumption DEF Consume, TypeOK
<1>5. ASSUME NEW w \in Workers,
             Refuse(w) \/ Check(w) \/ Publish(w) \/ FailToPublish(w) \/ ReadBack(w)
      PROVE  c \in pending[s]
  BY <1>2, <1>5 DEF Refuse, Check, Publish, FailToPublish, ReadBack
<1>6. ASSUME NEW t \in Servers, Crash(t) PROVE c \in pending[s]
  BY <1>2, <1>6 DEF Crash
<1>7. CASE UNCHANGED vars
  BY <1>2, <1>7 DEF vars
<1>8. ASSUME NEW w \in Workers, NEW v \in Ids, FindNone(w, v) PROVE c \in pending[s]
  BY <1>2, <1>8 DEF FindNone
<1>. QED
  BY <1>1, <1>3, <1>4, <1>5, <1>6, <1>7, <1>8 DEF Next

LEMMA SoundStep ==
    ASSUME TypeOK, AllSound, [Next]_vars
    PROVE  AllSound'
<1>1. ValidRows(state.plans)'
  <2>1. ASSUME NEW w \in Workers, Publishes(w) PROVE ValidRows(state'.plans)
    BY <2>1, PublishedType DEF Publishes
  <2>. QED
    BY <2>1, StateSteps DEF AllSound, ValidRows, ActivePlans
<1>2. ASSUME NEW s \in Servers, NEW c \in pending'[s] PROVE Sound(c)
  <2>1. ASSUME NEW operation \in Operations, NEW portfolio \in Portfolios,
               NEW target \in Target(operation, portfolio), NEW v,
               c = [change |-> [id |-> v, operation |-> operation,
                                portfolio |-> portfolio, target |-> target],
                    base |-> state]
        PROVE  Sound(c)
    <3>1. /\ c.base = state
          /\ c.change.operation = operation
          /\ c.change.portfolio = portfolio
          /\ c.change.target = target
      BY <2>1
    <3>2. ValidRows(c.base.plans)
      BY <3>1 DEF AllSound
    <3>3. CASE operation = "create"
      BY <3>1, <3>2, <3>3 DEF Sound, Target
    <3>4. CASE operation # "create"
      BY <3>1, <3>2, <3>4 DEF Sound, Target
    <3>. QED
      BY <3>3, <3>4
  <2>2. c \in pending[s] => Sound(c)
    BY DEF AllSound
  <2>. QED
    BY <2>1, <2>2, PendingSteps
<1>3. ASSUME NEW w \in Workers, pc'[w] # "idle"
      PROVE  /\ Sound(work'[w].candidate)
             /\ pc'[w] = "checked" =>
                    work'[w].rows = RowsAfter(work'[w].candidate.change,
                                              work'[w].candidate.base.plans)
  <2>1. CASE pc'[w] = pc[w] /\ work'[w] = work[w]
    BY <1>3, <2>1 DEF AllSound
  <2>2. ASSUME NEW c \in pending[HostOf[w]], Consume(w, c)
        PROVE  Sound(work'[w].candidate) /\ pc'[w] = "consumed"
    <3>1. HostOf[w] \in Servers
      BY ConstantsAssumption
    <3>2. Sound(c)
      BY <2>2, <3>1 DEF AllSound
    <3>3. work'[w].candidate = c /\ pc'[w] = "consumed"
      BY <2>2 DEF Consume, TypeOK
    <3>. QED
      BY <3>2, <3>3
  <2>3. CASE pc[w] = "consumed" /\ Check(w) /\ pc'[w] = "checked"
    <3>1. state = work[w].candidate.base
      BY <2>3 DEF Check, Answer, Finish, TypeOK
    <3>2. work[w] \in Work
      BY <2>3, WorkType
    <3>3. work'[w] = [work[w] EXCEPT !.rows =
                         RowsAfter(work[w].candidate.change, state.plans)]
      BY <2>3, <3>1 DEF Check, TypeOK
    <3>4. /\ work'[w].candidate = work[w].candidate
          /\ work'[w].rows = RowsAfter(work[w].candidate.change, state.plans)
      BY <3>2, <3>3 DEF Work
    <3>5. Sound(work[w].candidate)
      BY <2>3 DEF AllSound
    <3>. QED
      BY <3>1, <3>4, <3>5
  <2>4. CASE Publishes(w)
    <3>1. pc'[w] = "published" /\ work'[w] = work[w] /\ pc[w] # "idle"
      BY <2>4 DEF Publishes, TypeOK
    <3>. QED
      BY <3>1 DEF AllSound
  <2>. QED
    BY <1>3, <2>1, <2>2, <2>3, <2>4, WorkSteps
<1>. QED
  BY <1>1, <1>2, <1>3 DEF AllSound, Sound

(* What a candidate leaves of the rows it was reviewed against.             *)
LEMMA RowsKept ==
    ASSUME NEW c \in Candidate, Sound(c), NEW r \in c.base.plans
    PROVE  \E q \in RowsAfter(c.change, c.base.plans) :
              /\ q.id = r.id
              /\ q.portfolio = r.portfolio
              /\ r.status # "active" => q.status = r.status
<1>0. r \in Row
  BY DEF Candidate, State
<1>1. CASE r.id # c.change.target
  <2>1. r \in RowsAfter(c.change, c.base.plans)
    BY <1>1 DEF RowsAfter
  <2>. QED
    BY <2>1
<1>2. CASE r.id = c.change.target
  <2>1. r.id \in Ids
    BY <1>0 DEF Row
  <2>2. c.change.target \in ActivePlans(c.base.plans, c.change.portfolio)
    BY <1>2, <2>1, ConstantsAssumption DEF Sound
  <2>3. PICK q \in c.base.plans : q.id = c.change.target /\ q.status = "active"
    BY <2>2 DEF ActivePlans
  <2>4. r.status = "active"
    BY <1>2, <2>3 DEF Sound, ValidRows
  <2>5. PICK status : [r EXCEPT !.status = status] \in RowsAfter(c.change, c.base.plans)
    BY <1>2 DEF RowsAfter
  <2>. QED
    BY <1>0, <2>4, <2>5 DEF Row
<1>. QED
  BY <1>1, <1>2

(* Versions are retained: a plan never leaves the file, an ended plan never *)
(* changes, the history only grows.                                         *)
THEOREM VersionsRetained == Spec => PlansRetained
<1>. DEFINE Kept ==
       /\ \A r \in state.plans :
              \E q \in state'.plans :
                  q.id = r.id /\ q.portfolio = r.portfolio
                  /\ (r.status # "active" => q.status = r.status)
       /\ \A i \in DOMAIN state.history :
              i \in DOMAIN state'.history /\ state'.history[i] = state.history[i]
<1>1. TypeOK /\ AllSound /\ [Next]_vars => [Kept]_vars
  <2>. SUFFICES ASSUME TypeOK, AllSound, [Next]_vars PROVE Kept
    OBVIOUS
  <2>1. CASE state' = state
    BY <2>1
  <2>2. ASSUME NEW w \in Workers, Publishes(w) PROVE Kept
    <3>1. /\ state'.plans = work[w].rows
          /\ state'.history = Append(state.history, work[w].candidate.change)
      BY <2>2, PublishedType
    <3>2. pc[w] = "checked" /\ state = work[w].candidate.base
      BY <2>2 DEF Publishes
    <3>3. /\ Sound(work[w].candidate)
          /\ work[w].rows = RowsAfter(work[w].candidate.change, state.plans)
      BY <3>2 DEF AllSound
    <3>4. work[w].candidate \in Candidate
      BY <3>2, WorkType
    <3>5. \A r \in state.plans :
             \E q \in state'.plans :
                 q.id = r.id /\ q.portfolio = r.portfolio
                 /\ (r.status # "active" => q.status = r.status)
      BY <3>1, <3>2, <3>3, <3>4, RowsKept
    <3>6. state.history \in Seq(Event)
      BY DEF TypeOK, State
    <3>7. \A i \in DOMAIN state.history :
             i \in DOMAIN state'.history /\ state'.history[i] = state.history[i]
      BY <3>1, <3>6
    <3>. QED
      BY <3>5, <3>7
  <2>. QED
    BY <2>1, <2>2, StateSteps
<1>. QED
  BY <1>1, TypeInit, TypeStep, SoundInit, SoundStep, PTL DEF Spec, PlansRetained

--------------------------------------------------------------------------------
(* The plan in force after a change, in its portfolio and in the others.    *)
LEMMA ActiveAfter ==
    ASSUME NEW c \in Candidate, Sound(c), NEW f \in Portfolios
    PROVE  ActivePlans(RowsAfter(c.change, c.base.plans), f) =
               IF f # c.change.portfolio THEN ActivePlans(c.base.plans, f)
               ELSE IF c.change.operation = "close" THEN {} ELSE {c.change.id}
<1>. DEFINE change == c.change
            plans == c.base.plans
            after == RowsAfter(change, plans)
            created == [id |-> change.id, portfolio |-> change.portfolio, status |-> "active"]
<1>1. plans \subseteq Row /\ change \in Event /\ ValidRows(plans)
  BY DEF Candidate, State, Sound
<1>2. ASSUME NEW q \in after, q.status = "active"
      PROVE  \/ q \in plans /\ q.id # change.target
             \/ q = created /\ change.operation # "close"
  <2>1. ASSUME NEW r \in plans, r.id = change.target,
               q = [r EXCEPT !.status =
                       IF change.operation = "close" THEN "closed" ELSE "superseded"]
        PROVE  FALSE
    <3>1. r \in Row
      BY <1>1
    <3>2. q.status = IF change.operation = "close" THEN "closed" ELSE "superseded"
      BY <2>1, <3>1 DEF Row
    <3>. QED
      BY <1>2, <3>2
  <2>. QED
    BY <1>2, <2>1 DEF RowsAfter
<1>3. \A r \in plans : r.id # change.target => r \in after
  BY DEF RowsAfter
<1>4. change.operation # "close" => created \in after
  BY DEF RowsAfter
<1>5. CASE f # change.portfolio
  <2>1. \A r \in plans : r.portfolio = f => r.id # change.target
    <3>1. CASE change.operation = "create"
      BY <1>1, <3>1, ConstantsAssumption DEF Sound, Row
    <3>2. CASE change.operation # "create"
      <4>1. PICK q \in plans : q.id = change.target /\ q.portfolio = change.portfolio
        BY <3>2 DEF Sound, ActivePlans
      <4>. QED
        BY <1>1, <1>5, <4>1 DEF ValidRows
    <3>. QED
      BY <3>1, <3>2
  <2>2. created.portfolio # f
    BY <1>5
  <2>3. ASSUME NEW x \in ActivePlans(after, f) PROVE x \in ActivePlans(plans, f)
    <3>1. PICK q \in after : q.portfolio = f /\ q.status = "active" /\ q.id = x
      BY <2>3 DEF ActivePlans
    <3>. QED
      BY <1>2, <2>2, <3>1 DEF ActivePlans
  <2>4. ASSUME NEW x \in ActivePlans(plans, f) PROVE x \in ActivePlans(after, f)
    <3>1. PICK q \in plans : q.portfolio = f /\ q.status = "active" /\ q.id = x
      BY <2>4 DEF ActivePlans
    <3>. QED
      BY <1>3, <2>1, <3>1 DEF ActivePlans
  <2>. QED
    BY <1>5, <2>3, <2>4
<1>6. CASE f = change.portfolio
  <2>1. \A r \in plans : r.portfolio = f /\ r.status = "active" => r.id = change.target
    <3>1. CASE change.operation = "create"
      BY <1>6, <3>1 DEF Sound, ActivePlans
    <3>2. CASE change.operation # "create"
      BY <1>1, <1>6, <3>2 DEF Sound, ValidRows, ActivePlans
    <3>. QED
      BY <3>1, <3>2
  <2>2. created.portfolio = f /\ created.status = "active" /\ created.id = change.id
    BY <1>6
  <2>3. ASSUME NEW x \in ActivePlans(after, f)
        PROVE  x = change.id /\ change.operation # "close"
    <3>1. PICK q \in after : q.portfolio = f /\ q.status = "active" /\ q.id = x
      BY <2>3 DEF ActivePlans
    <3>. QED
      BY <1>2, <2>1, <2>2, <3>1
  <2>4. change.operation # "close" => change.id \in ActivePlans(after, f)
    <3>1. ASSUME change.operation # "close"
          PROVE  created \in {q \in after : q.portfolio = f /\ q.status = "active"}
      BY <1>4, <2>2, <3>1
    <3>. QED
      BY <2>2, <3>1 DEF ActivePlans
  <2>. QED
    BY <1>6, <2>3, <2>4
<1>. QED
  BY <1>5, <1>6

LEMMA ActiveStep ==
    ASSUME TypeOK, AllSound, ActiveIsLatest, [Next]_vars
    PROVE  ActiveIsLatest'
<1>1. CASE state' = state
  BY <1>1 DEF ActiveIsLatest, EventsOf, ActivePlans
<1>2. ASSUME NEW w \in Workers, Publishes(w) PROVE ActiveIsLatest'
  <2>. DEFINE c == work[w].candidate
              n == Len(state.history) + 1
  <2>1. /\ state'.plans = work[w].rows
        /\ state'.history = Append(state.history, c.change)
    BY <1>2, PublishedType
  <2>2. pc[w] = "checked" /\ state = c.base
    BY <1>2 DEF Publishes
  <2>3. Sound(c) /\ state'.plans = RowsAfter(c.change, c.base.plans)
    BY <2>1, <2>2 DEF AllSound
  <2>4. c \in Candidate /\ c.change \in Event
    BY <2>2, WorkType
  <2>5. state.history \in Seq(Event)
    BY DEF TypeOK, State
  <2>6. /\ DOMAIN state.history = 1 .. (n - 1)
        /\ DOMAIN state'.history = 1 .. n
        /\ n \in Nat
        /\ \A i \in 1 .. (n - 1) : state'.history[i] = state.history[i]
        /\ state'.history[n] = c.change
    BY <2>1, <2>5
  <2>7. SUFFICES ASSUME NEW f \in Portfolios
        PROVE  /\ EventsOf(f)' = {} => ActivePlans(state'.plans, f) = ActivePlans(Imported, f)
               /\ \A last \in EventsOf(f)' :
                     (\A j \in EventsOf(f)' : j <= last) =>
                         ActivePlans(state'.plans, f) =
                             IF state'.history[last].operation = "close" THEN {}
                             ELSE {state'.history[last].id}
    BY DEF ActiveIsLatest, ActivePlans
  <2>8. CASE f # c.change.portfolio
    <3>1. EventsOf(f)' = EventsOf(f)
      BY <2>6, <2>8 DEF EventsOf
    <3>2. ActivePlans(state'.plans, f) = ActivePlans(state.plans, f)
      BY <2>2, <2>3, <2>4, <2>8, ActiveAfter
    <3>3. \A i \in EventsOf(f) : state'.history[i] = state.history[i]
      BY <2>6 DEF EventsOf
    <3>. QED
      BY <3>1, <3>2, <3>3 DEF ActiveIsLatest
  <2>9. CASE f = c.change.portfolio
    <3>1. n \in EventsOf(f)'
      BY <2>6, <2>9 DEF EventsOf
    <3>2. ASSUME NEW last \in EventsOf(f)', \A j \in EventsOf(f)' : j <= last
          PROVE  last = n
      BY <2>6, <3>1, <3>2 DEF EventsOf
    <3>3. ActivePlans(state'.plans, f) =
              IF c.change.operation = "close" THEN {} ELSE {c.change.id}
      BY <2>3, <2>4, <2>9, ActiveAfter
    <3>. QED
      BY <2>6, <3>1, <3>2, <3>3
  <2>. QED
    BY <2>8, <2>9
<1>. QED
  BY <1>1, <1>2, StateSteps

(* The plan in force is the one the history says, of every portfolio.       *)
THEOREM HistoryRules == Spec => []ActiveIsLatest
<1>1. Init => ActiveIsLatest
  BY DEF Init, ActiveIsLatest, EventsOf
<1>. QED
  BY <1>1, TypeInit, TypeStep, SoundInit, SoundStep, ActiveStep, PTL DEF Spec

--------------------------------------------------------------------------------
(* A preview is at one place: waiting at one server, with one worker, or    *)
(* done with.                                                               *)
IdOf(w) == work[w].candidate.change.id

Unanswered(v) == v \in drawn /\ reply[v] \subseteq {"gone"}

Owned ==
    /\ \A v \in Ids : Replayed(v) \/ reply[v] # {} => v \in drawn
    /\ \A s \in Servers : \A c \in pending[s] :
           /\ Unanswered(c.change.id)
           /\ ~Replayed(c.change.id)
           /\ \A t \in Servers : \A d \in pending[t] :
                  d.change.id = c.change.id => t = s /\ d = c
           /\ \A w \in Workers : pc[w] # "idle" => IdOf(w) # c.change.id
    /\ \A w \in Workers :
           pc[w] # "idle" =>
               /\ Unanswered(IdOf(w))
               /\ pc[w] # "published" => ~Replayed(IdOf(w))
               /\ \A u \in Workers : pc[u] # "idle" /\ IdOf(u) = IdOf(w) => u = w

LEMMA OwnedInit == Init => Owned /\ AnswersHold
  BY DEF Init, Owned, AnswersHold, Replayed

(* The steps that leave what was asked and answered as it is.               *)
LEMMA OwnedFewer ==
    ASSUME TypeOK, Owned, AnswersHold,
           UNCHANGED <<state, drawn, reply>>,
           \A s \in Servers : pending'[s] \subseteq pending[s],
           \A w \in Workers : pc'[w] # "idle" =>
               /\ pc[w] # "idle"
               /\ work'[w].candidate = work[w].candidate
               /\ pc'[w] # "published" => pc[w] # "published"
    PROVE  Owned' /\ AnswersHold'
<1>1. \A v : (Unanswered(v)' <=> Unanswered(v)) /\ (Replayed(v)' <=> Replayed(v))
  BY DEF Unanswered, Replayed
<1>2. \A w \in Workers : pc'[w] # "idle" => IdOf(w)' = IdOf(w)
  BY DEF IdOf
<1>3. \A v \in Ids : Replayed(v)' \/ reply'[v] # {} => v \in drawn'
  BY <1>1 DEF Owned
<1>4. \A s \in Servers : \A c \in pending'[s] :
          /\ Unanswered(c.change.id)'
          /\ ~Replayed(c.change.id)'
          /\ \A t \in Servers : \A d \in pending'[t] :
                 d.change.id = c.change.id => t = s /\ d = c
          /\ \A w \in Workers : pc'[w] # "idle" => IdOf(w)' # c.change.id
  BY <1>1, <1>2 DEF Owned
<1>5. \A w \in Workers :
          pc'[w] # "idle" =>
              /\ Unanswered(IdOf(w))'
              /\ pc'[w] # "published" => ~Replayed(IdOf(w))'
              /\ \A u \in Workers : pc'[u] # "idle" /\ IdOf(u)' = IdOf(w)' => u = w
  <2>. SUFFICES ASSUME NEW w \in Workers, pc'[w] # "idle"
       PROVE  /\ Unanswered(IdOf(w))'
              /\ pc'[w] # "published" => ~Replayed(IdOf(w))'
              /\ \A u \in Workers : pc'[u] # "idle" /\ IdOf(u)' = IdOf(w)' => u = w
    OBVIOUS
  <2>1. /\ Unanswered(IdOf(w))
        /\ pc'[w] # "published" => ~Replayed(IdOf(w))
        /\ \A u \in Workers : pc[u] # "idle" /\ IdOf(u) = IdOf(w) => u = w
    BY DEF Owned
  <2>2. Unanswered(IdOf(w))' /\ (pc'[w] # "published" => ~Replayed(IdOf(w))')
    BY <2>1 DEF Unanswered, Replayed, IdOf
  <2>. QED
    BY <1>2, <2>1, <2>2
<1>6. AnswersHold'
  BY DEF AnswersHold, Replayed
<1>. QED
  BY <1>3, <1>4, <1>5, <1>6 DEF Owned

(* A worker answers.                                                        *)
LEMMA OwnedAnswer ==
    ASSUME TypeOK, Owned, AnswersHold, NEW w \in Workers, pc[w] # "idle",
           NEW answer \in {"applied", "refused", "failed"}, Answer(w, answer),
           answer = "applied" => Replayed(IdOf(w)),
           answer = "refused" => ~Replayed(IdOf(w)),
           UNCHANGED <<state, drawn, pending>>
    PROVE  Owned' /\ AnswersHold'
<1>1. IdOf(w) \in Ids /\ IdOf(w) \in drawn
  BY WorkType DEF Owned, Unanswered, IdOf
<1>2. reply' = [reply EXCEPT ![IdOf(w)] = @ \cup {answer}]
  BY DEF Answer, IdOf
<1>3. pc' = [pc EXCEPT ![w] = "idle"] /\ work' = [work EXCEPT ![w] = NoPlan]
  BY DEF Answer, Finish
<1>4. \A v \in Ids : reply'[v] = IF v = IdOf(w) THEN reply[v] \cup {answer} ELSE reply[v]
  BY <1>2 DEF TypeOK
<1>5. \A u \in Workers : pc'[u] # "idle" => u # w /\ pc[u] # "idle" /\ pc'[u] = pc[u]
                                            /\ work'[u] = work[u]
  BY <1>3 DEF TypeOK
<1>6. \A v : Replayed(v)' <=> Replayed(v)
  BY DEF Replayed
<1>7. \A u \in Workers : pc'[u] # "idle" => IdOf(u)' = IdOf(u) /\ IdOf(u) # IdOf(w)
  BY <1>5 DEF Owned, IdOf
<1>8. \A s \in Servers : \A c \in pending[s] : c.change.id # IdOf(w)
  BY DEF Owned
<1>9. \A v : v # IdOf(w) /\ v \in Ids /\ Unanswered(v) => Unanswered(v)'
  BY <1>4 DEF Unanswered
<1>10. \A s \in Servers : \A c \in pending[s] : c.change.id \in Ids
  BY DEF TypeOK, Candidate, Event
<1>11. \A u \in Workers : pc[u] # "idle" => IdOf(u) \in Ids
  BY WorkType DEF IdOf
<1>12. \A v \in Ids : Replayed(v)' \/ reply'[v] # {} => v \in drawn'
  BY <1>1, <1>4, <1>6 DEF Owned
<1>13. \A s \in Servers : \A c \in pending'[s] :
           /\ Unanswered(c.change.id)'
           /\ ~Replayed(c.change.id)'
           /\ \A t \in Servers : \A d \in pending'[t] :
                  d.change.id = c.change.id => t = s /\ d = c
           /\ \A u \in Workers : pc'[u] # "idle" => IdOf(u)' # c.change.id
  BY <1>5, <1>6, <1>7, <1>8, <1>9, <1>10 DEF Owned
<1>14. \A u \in Workers :
           pc'[u] # "idle" =>
               /\ Unanswered(IdOf(u))'
               /\ pc'[u] # "published" => ~Replayed(IdOf(u))'
               /\ \A x \in Workers : pc'[x] # "idle" /\ IdOf(x)' = IdOf(u)' => x = u
  <2>. SUFFICES ASSUME NEW u \in Workers, pc'[u] # "idle"
       PROVE  /\ Unanswered(IdOf(u))'
              /\ pc'[u] # "published" => ~Replayed(IdOf(u))'
              /\ \A x \in Workers : pc'[x] # "idle" /\ IdOf(x)' = IdOf(u)' => x = u
    OBVIOUS
  <2>1. pc[u] # "idle" /\ pc'[u] = pc[u] /\ IdOf(u)' = IdOf(u) /\ IdOf(u) # IdOf(w)
    BY <1>5, <1>7
  <2>2. Unanswered(IdOf(u)) /\ (pc[u] # "published" => ~Replayed(IdOf(u)))
    BY <2>1 DEF Owned
  <2>3. Unanswered(IdOf(u))'
    BY <1>4, <1>11, <2>1, <2>2 DEF Unanswered
  <2>4. pc'[u] # "published" => ~Replayed(IdOf(u))'
    BY <2>1, <2>2 DEF Replayed
  <2>5. \A x \in Workers : pc'[x] # "idle" /\ IdOf(x)' = IdOf(u)' => x = u
    BY <1>5, <1>7, <2>1 DEF Owned
  <2>. QED
    BY <2>3, <2>4, <2>5
<1>15. AnswersHold'
  <2>1. reply[IdOf(w)] \subseteq {"gone"}
    BY DEF Owned, Unanswered
  <2>2. IdOf(w) \in Ids => reply'[IdOf(w)] \ {"gone"} = {answer}
    BY <1>4, <2>1
  <2>. SUFFICES ASSUME NEW v \in Ids
       PROVE  /\ "applied" \in reply'[v] => Replayed(v)'
              /\ "refused" \in reply'[v] => ~Replayed(v)'
              /\ \A a, b \in reply'[v] \ {"gone"} : a = b
    BY DEF AnswersHold
  <2>3. CASE v = IdOf(w)
    <3>1. \A a \in reply'[v] \ {"gone"} : a = answer
      BY <2>2, <2>3
    <3>2. \A a \in {"applied", "refused"} : a \in reply'[v] => a = answer
      BY <3>1
    <3>. QED
      BY <1>6, <2>3, <3>1, <3>2
  <2>4. CASE v # IdOf(w)
    <3>1. reply'[v] = reply[v]
      BY <1>4, <2>4
    <3>. QED
      BY <1>6, <3>1 DEF AnswersHold
  <2>. QED
    BY <2>3, <2>4
<1>. QED
  BY <1>12, <1>13, <1>14, <1>15 DEF Owned

LEMMA OwnedPreview ==
    ASSUME TypeOK, Owned, AnswersHold, NEW s \in Servers, NEW v \in Ids,
           NEW operation \in Operations, NEW portfolio \in Portfolios,
           Preview(s, v, operation, portfolio)
    PROVE  Owned' /\ AnswersHold'
<1>1. PICK c \in Candidate : /\ c.change.id = v
                            /\ pending' = [pending EXCEPT ![s] = @ \cup {c}]
  <2>1. PICK target \in Target(operation, portfolio) :
           pending' = [pending EXCEPT ![s] = @ \cup
               {[change |-> [id |-> v, operation |-> operation,
                             portfolio |-> portfolio, target |-> target],
                 base |-> state]}]
    BY DEF Preview
  <2>2. target \in Ids \cup {NoPlan}
    BY <2>1 DEF Target, ActivePlans, TypeOK, State, Row
  <2>3. [change |-> [id |-> v, operation |-> operation,
                     portfolio |-> portfolio, target |-> target],
         base |-> state] \in Candidate
    BY <2>2 DEF Candidate, Event, TypeOK
  <2>. QED
    BY <2>1, <2>3
<1>2. /\ v \notin drawn
      /\ drawn' = drawn \cup {v}
      /\ UNCHANGED <<state, pc, work, reply>>
  BY DEF Preview
<1>3. \A t \in Servers : \A d \in pending'[t] : d \in pending[t] \/ (t = s /\ d = c)
  BY <1>1 DEF TypeOK
<1>4. ~Replayed(v) /\ reply[v] = {}
  BY <1>2 DEF Owned
<1>5. \A t \in Servers : \A d \in pending[t] : d.change.id \in drawn
  BY DEF Owned, Unanswered
<1>6. \A w \in Workers : pc[w] # "idle" => IdOf(w) \in drawn
  BY DEF Owned, Unanswered
<1>7. \A x : (Replayed(x)' <=> Replayed(x)) /\ (Unanswered(x) => Unanswered(x)')
  BY <1>2 DEF Replayed, Unanswered
<1>8. Unanswered(v)'
  BY <1>2, <1>4 DEF Unanswered
<1>9. \A w \in Workers : IdOf(w)' = IdOf(w)
  BY <1>2 DEF IdOf
<1>10. \A x \in Ids : Replayed(x)' \/ reply'[x] # {} => x \in drawn'
  BY <1>2, <1>7 DEF Owned
<1>11. ASSUME NEW t \in Servers, NEW d \in pending'[t]
       PROVE  /\ Unanswered(d.change.id)'
              /\ ~Replayed(d.change.id)'
              /\ \A u \in Servers : \A e \in pending'[u] :
                     e.change.id = d.change.id => u = t /\ e = d
              /\ \A w \in Workers : pc'[w] # "idle" => IdOf(w)' # d.change.id
  <2>1. CASE d \in pending[t]
    BY <1>1, <1>2, <1>3, <1>5, <1>7, <1>9, <2>1 DEF Owned
  <2>2. CASE t = s /\ d = c
    BY <1>1, <1>2, <1>3, <1>4, <1>5, <1>6, <1>7, <1>8, <1>9, <2>2
  <2>. QED
    BY <1>3, <2>1, <2>2
<1>12. \A w \in Workers :
           pc'[w] # "idle" =>
               /\ Unanswered(IdOf(w))'
               /\ pc'[w] # "published" => ~Replayed(IdOf(w))'
               /\ \A u \in Workers : pc'[u] # "idle" /\ IdOf(u)' = IdOf(w)' => u = w
  <2>. SUFFICES ASSUME NEW w \in Workers, pc'[w] # "idle"
       PROVE  /\ Unanswered(IdOf(w))'
              /\ pc'[w] # "published" => ~Replayed(IdOf(w))'
              /\ \A u \in Workers : pc'[u] # "idle" /\ IdOf(u)' = IdOf(w)' => u = w
    OBVIOUS
  <2>1. pc' = pc /\ pc[w] # "idle" /\ work' = work
    BY <1>2
  <2>2. Unanswered(IdOf(w)) /\ (pc[w] # "published" => ~Replayed(IdOf(w)))
    BY <2>1 DEF Owned
  <2>3. Unanswered(IdOf(w))' /\ (pc'[w] # "published" => ~Replayed(IdOf(w))')
    BY <1>2, <2>1, <2>2 DEF Unanswered, Replayed, IdOf
  <2>4. \A u \in Workers : pc'[u] # "idle" /\ IdOf(u)' = IdOf(w)' => u = w
    BY <1>9, <2>1 DEF Owned
  <2>. QED
    BY <2>3, <2>4
<1>13. AnswersHold'
  BY <1>2, <1>7 DEF AnswersHold
<1>. QED
  BY <1>10, <1>11, <1>12, <1>13 DEF Owned

LEMMA OwnedConsume ==
    ASSUME TypeOK, Owned, AnswersHold, NEW w \in Workers,
           NEW c \in pending[HostOf[w]], Consume(w, c)
    PROVE  Owned' /\ AnswersHold'
<1>1. HostOf[w] \in Servers
  BY ConstantsAssumption
<1>2. /\ pc[w] = "idle"
      /\ pending' = [pending EXCEPT ![HostOf[w]] = @ \ {c}]
      /\ work' = [work EXCEPT ![w] = [candidate |-> c, rows |-> {}]]
      /\ pc' = [pc EXCEPT ![w] = "consumed"]
      /\ UNCHANGED <<state, drawn, reply>>
  BY DEF Consume
<1>3. \A s \in Servers : \A d \in pending'[s] :
          d \in pending[s] /\ ~(s = HostOf[w] /\ d = c)
  BY <1>1, <1>2 DEF TypeOK
<1>4. \A s \in Servers : \A d \in pending'[s] : d.change.id # c.change.id
  BY <1>1, <1>3 DEF Owned
<1>5. pc'[w] = "consumed" /\ IdOf(w)' = c.change.id
  BY <1>2 DEF TypeOK, IdOf
<1>6. \A u \in Workers : u # w => pc'[u] = pc[u] /\ IdOf(u)' = IdOf(u)
  BY <1>2 DEF TypeOK, IdOf
<1>7. /\ Unanswered(c.change.id)
      /\ ~Replayed(c.change.id)
      /\ \A u \in Workers : pc[u] # "idle" => IdOf(u) # c.change.id
  BY <1>1 DEF Owned
<1>8. \A x : (Replayed(x)' <=> Replayed(x)) /\ (Unanswered(x)' <=> Unanswered(x))
  BY <1>2 DEF Replayed, Unanswered
<1>9. \A x \in Ids : Replayed(x)' \/ reply'[x] # {} => x \in drawn'
  BY <1>2, <1>8 DEF Owned
<1>10. \A s \in Servers : \A d \in pending'[s] :
           /\ Unanswered(d.change.id)'
           /\ ~Replayed(d.change.id)'
           /\ \A t \in Servers : \A e \in pending'[t] :
                  e.change.id = d.change.id => t = s /\ e = d
           /\ \A u \in Workers : pc'[u] # "idle" => IdOf(u)' # d.change.id
  <2>. SUFFICES ASSUME NEW s \in Servers, NEW d \in pending'[s]
       PROVE  /\ Unanswered(d.change.id)'
              /\ ~Replayed(d.change.id)'
              /\ \A t \in Servers : \A e \in pending'[t] :
                     e.change.id = d.change.id => t = s /\ e = d
              /\ \A u \in Workers : pc'[u] # "idle" => IdOf(u)' # d.change.id
    OBVIOUS
  <2>1. d \in pending[s]
    BY <1>3
  <2>2. \A u \in Workers : pc'[u] # "idle" => IdOf(u)' # d.change.id
    BY <1>4, <1>5, <1>6, <2>1 DEF Owned
  <2>. QED
    BY <1>3, <1>8, <2>1, <2>2 DEF Owned
<1>11. \A u \in Workers :
           pc'[u] # "idle" =>
               /\ Unanswered(IdOf(u))'
               /\ pc'[u] # "published" => ~Replayed(IdOf(u))'
               /\ \A x \in Workers : pc'[x] # "idle" /\ IdOf(x)' = IdOf(u)' => x = u
  <2>. SUFFICES ASSUME NEW u \in Workers, pc'[u] # "idle"
       PROVE  /\ Unanswered(IdOf(u))'
              /\ pc'[u] # "published" => ~Replayed(IdOf(u))'
              /\ \A x \in Workers : pc'[x] # "idle" /\ IdOf(x)' = IdOf(u)' => x = u
    OBVIOUS
  <2>1. CASE u = w
    <3>1. Unanswered(IdOf(u))' /\ ~Replayed(IdOf(u))'
      BY <1>2, <1>5, <1>7, <2>1 DEF Unanswered, Replayed
    <3>. QED
      BY <1>5, <1>6, <1>7, <2>1, <3>1
  <2>2. CASE u # w
    <3>1. pc'[u] = pc[u] /\ IdOf(u)' = IdOf(u)
      BY <1>6, <2>2
    <3>2. Unanswered(IdOf(u)) /\ (pc[u] # "published" => ~Replayed(IdOf(u)))
      BY <3>1 DEF Owned
    <3>3. Unanswered(IdOf(u))' /\ (pc'[u] # "published" => ~Replayed(IdOf(u))')
      BY <1>2, <3>1, <3>2 DEF Unanswered, Replayed
    <3>4. \A x \in Workers : pc'[x] # "idle" /\ IdOf(x)' = IdOf(u)' => x = u
      BY <1>5, <1>6, <1>7, <2>2, <3>1 DEF Owned
    <3>. QED
      BY <3>3, <3>4
  <2>. QED
    BY <2>1, <2>2
<1>12. AnswersHold'
  BY <1>2, <1>8 DEF AnswersHold
<1>. QED
  BY <1>9, <1>10, <1>11, <1>12 DEF Owned

(* Whoever is told "gone" has not got the preview.                          *)
LEMMA OwnedFindNone ==
    ASSUME TypeOK, Owned, AnswersHold, NEW w \in Workers, NEW v \in Ids, FindNone(w, v)
    PROVE  Owned' /\ AnswersHold'
<1>1. /\ v \in drawn /\ reply' = [reply EXCEPT ![v] = @ \cup {"gone"}]
      /\ UNCHANGED <<state, drawn, pending, pc, work>>
  BY DEF FindNone
<1>2. \A x \in Ids : reply'[x] \ {"gone"} = reply[x] \ {"gone"}
  BY <1>1 DEF TypeOK
<1>3. \A x \in Ids : Unanswered(x) => Unanswered(x)'
  BY <1>1, <1>2 DEF Unanswered
<1>4. \A x : Replayed(x)' <=> Replayed(x)
  BY <1>1 DEF Replayed
<1>5. \A u \in Workers : IdOf(u)' = IdOf(u) /\ (pc[u] # "idle" => IdOf(u) \in Ids)
  BY <1>1, WorkType DEF IdOf
<1>6. \A s \in Servers : \A c \in pending[s] : c.change.id \in Ids
  BY DEF TypeOK, Candidate, Event
<1>7. \A x \in Ids : Replayed(x)' \/ reply'[x] # {} => x \in drawn'
  BY <1>1, <1>4 DEF Owned, TypeOK
<1>8. \A s \in Servers : \A c \in pending'[s] :
          /\ Unanswered(c.change.id)'
          /\ ~Replayed(c.change.id)'
          /\ \A t \in Servers : \A d \in pending'[t] :
                 d.change.id = c.change.id => t = s /\ d = c
          /\ \A u \in Workers : pc'[u] # "idle" => IdOf(u)' # c.change.id
  BY <1>1, <1>3, <1>4, <1>5, <1>6 DEF Owned
<1>9. \A u \in Workers :
          pc'[u] # "idle" =>
              /\ Unanswered(IdOf(u))'
              /\ pc'[u] # "published" => ~Replayed(IdOf(u))'
              /\ \A x \in Workers : pc'[x] # "idle" /\ IdOf(x)' = IdOf(u)' => x = u
  <2>. SUFFICES ASSUME NEW u \in Workers, pc'[u] # "idle"
       PROVE  /\ Unanswered(IdOf(u))'
              /\ pc'[u] # "published" => ~Replayed(IdOf(u))'
              /\ \A x \in Workers : pc'[x] # "idle" /\ IdOf(x)' = IdOf(u)' => x = u
    OBVIOUS
  <2>1. pc[u] # "idle" /\ pc' = pc /\ IdOf(u) \in Ids
    BY <1>1, <1>5
  <2>2. Unanswered(IdOf(u)) /\ (pc[u] # "published" => ~Replayed(IdOf(u)))
    BY <2>1 DEF Owned
  <2>3. Unanswered(IdOf(u))'
    BY <1>1, <1>2, <2>1, <2>2 DEF Unanswered, IdOf
  <2>4. pc'[u] # "published" => ~Replayed(IdOf(u))'
    BY <1>1, <2>1, <2>2 DEF Replayed, IdOf
  <2>5. \A x \in Workers : pc'[x] # "idle" /\ IdOf(x)' = IdOf(u)' => x = u
    BY <1>5, <2>1 DEF Owned
  <2>. QED
    BY <2>3, <2>4, <2>5
<1>10. AnswersHold'
  BY <1>2, <1>4 DEF AnswersHold
<1>. QED
  BY <1>7, <1>8, <1>9, <1>10 DEF Owned

LEMMA OwnedPublish ==
    ASSUME TypeOK, Owned, AnswersHold, NEW w \in Workers, Publishes(w)
    PROVE  Owned' /\ AnswersHold'
<1>1. /\ pc[w] = "checked"
      /\ pc' = [pc EXCEPT ![w] = "published"]
      /\ UNCHANGED <<work, reply, drawn, pending>>
  BY DEF Publishes
<1>2. state'.history = Append(state.history, work[w].candidate.change)
  BY PublishedType
<1>3. state.history \in Seq(Event)
  BY DEF TypeOK, State
<1>4. \A x : Replayed(x)' <=> Replayed(x) \/ x = IdOf(w)
  BY <1>2, <1>3 DEF Replayed, IdOf
<1>5. Unanswered(IdOf(w)) /\ IdOf(w) \in Ids
  BY <1>1, WorkType DEF Owned, IdOf
<1>6. \A x : Unanswered(x)' <=> Unanswered(x)
  BY <1>1 DEF Unanswered
<1>7. \A u \in Workers : /\ IdOf(u)' = IdOf(u)
                         /\ pc'[u] # "idle" <=> pc[u] # "idle"
                         /\ u # w => pc'[u] = pc[u]
                         /\ u = w => pc'[u] = "published"
  BY <1>1 DEF IdOf, TypeOK
<1>8. \A x \in Ids : Replayed(x)' \/ reply'[x] # {} => x \in drawn'
  BY <1>1, <1>4, <1>5 DEF Owned, Unanswered
<1>9. \A s \in Servers : \A d \in pending'[s] :
          /\ Unanswered(d.change.id)'
          /\ ~Replayed(d.change.id)'
          /\ \A t \in Servers : \A e \in pending'[t] :
                 e.change.id = d.change.id => t = s /\ e = d
          /\ \A u \in Workers : pc'[u] # "idle" => IdOf(u)' # d.change.id
  BY <1>1, <1>4, <1>6, <1>7 DEF Owned
<1>10. \A u \in Workers :
           pc'[u] # "idle" =>
               /\ Unanswered(IdOf(u))'
               /\ pc'[u] # "published" => ~Replayed(IdOf(u))'
               /\ \A x \in Workers : pc'[x] # "idle" /\ IdOf(x)' = IdOf(u)' => x = u
  <2>. SUFFICES ASSUME NEW u \in Workers, pc'[u] # "idle"
       PROVE  /\ Unanswered(IdOf(u))'
              /\ pc'[u] # "published" => ~Replayed(IdOf(u))'
              /\ \A x \in Workers : pc'[x] # "idle" /\ IdOf(x)' = IdOf(u)' => x = u
    OBVIOUS
  <2>1. pc[u] # "idle" /\ pc[w] # "idle" /\ work' = work
    BY <1>1, <1>7
  <2>2. Unanswered(IdOf(u)) /\ (pc[u] # "published" => ~Replayed(IdOf(u)))
    BY <2>1 DEF Owned
  <2>3. Unanswered(IdOf(u))'
    BY <1>1, <2>1, <2>2 DEF Unanswered, IdOf
  <2>4. ASSUME pc'[u] # "published" PROVE ~Replayed(IdOf(u))'
    <3>1. u # w /\ pc[u] # "published"
      BY <1>7, <2>4
    <3>2. IdOf(u) # IdOf(w)
      BY <2>1, <3>1 DEF Owned
    <3>3. ~Replayed(IdOf(u))
      BY <2>2, <3>1
    <3>. QED
      BY <1>2, <1>3, <2>1, <3>2, <3>3 DEF Replayed, IdOf
  <2>5. \A x \in Workers : pc'[x] # "idle" /\ IdOf(x)' = IdOf(u)' => x = u
    BY <1>7, <2>1 DEF Owned
  <2>. QED
    BY <2>3, <2>4, <2>5
<1>11. AnswersHold'
  BY <1>1, <1>4, <1>5 DEF AnswersHold, Unanswered
<1>. QED
  BY <1>8, <1>9, <1>10, <1>11 DEF Owned

LEMMA OwnedStep ==
    ASSUME TypeOK, Owned, AnswersHold, [Next]_vars
    PROVE  Owned' /\ AnswersHold'
<1>1. CASE UNCHANGED vars
  BY <1>1, OwnedFewer DEF vars
<1>2. ASSUME NEW s \in Servers, NEW c \in pending[s], Discard(s, c)
      PROVE  Owned' /\ AnswersHold'
  <2>1. \A t \in Servers : pending'[t] \subseteq pending[t]
    BY <1>2 DEF Discard, TypeOK
  <2>. QED
    BY <1>2, <2>1, OwnedFewer DEF Discard
<1>3. ASSUME NEW s \in Servers, Crash(s) PROVE Owned' /\ AnswersHold'
  <2>1. \A t \in Servers : pending'[t] \subseteq pending[t]
    BY <1>3 DEF Crash, TypeOK
  <2>2. \A w \in Workers : pc'[w] # "idle" => pc'[w] = pc[w] /\ work'[w] = work[w]
    BY <1>3 DEF Crash
  <2>. QED
    BY <1>3, <2>1, <2>2, OwnedFewer DEF Crash
<1>4. ASSUME NEW w \in Workers, Refuse(w) PROVE Owned' /\ AnswersHold'
  <2>1. pc[w] # "idle" /\ ~Replayed(IdOf(w))
    BY <1>4 DEF Refuse, Owned
  <2>. QED
    BY <1>4, <2>1, OwnedAnswer DEF Refuse
<1>5. ASSUME NEW w \in Workers, Check(w) PROVE Owned' /\ AnswersHold'
  <2>1. pc[w] = "consumed" /\ ~Replayed(IdOf(w))
    BY <1>5 DEF Check, Owned
  <2>2. CASE state = work[w].candidate.base
    <3>1. work[w] \in Work
      BY <2>1, WorkType
    <3>2. work' = [work EXCEPT ![w] = [work[w] EXCEPT !.rows =
                      RowsAfter(work[w].candidate.change, state.plans)]]
      BY <1>5, <2>2 DEF Check
    <3>3. \A u \in Workers : work'[u] = IF u = w
              THEN [work[w] EXCEPT !.rows = RowsAfter(work[w].candidate.change, state.plans)]
              ELSE work[u]
      BY <3>2 DEF TypeOK
    <3>4. \A u \in Workers : work'[u].candidate = work[u].candidate
      BY <3>1, <3>3 DEF Work
    <3>5. pc' = [pc EXCEPT ![w] = "checked"] /\ UNCHANGED <<state, drawn, pending, reply>>
      BY <1>5, <2>2 DEF Check
    <3>6. \A u \in Workers : pc'[u] # "idle" =>
              pc[u] # "idle" /\ (pc'[u] # "published" => pc[u] # "published")
      BY <2>1, <3>5 DEF TypeOK
    <3>. QED
      BY <3>4, <3>5, <3>6, OwnedFewer
  <2>3. CASE state # work[w].candidate.base
    BY <1>5, <2>1, <2>3, OwnedAnswer DEF Check
  <2>. QED
    BY <2>2, <2>3
<1>6. ASSUME NEW w \in Workers, Publish(w) PROVE Owned' /\ AnswersHold'
  <2>1. CASE Publishes(w)
    BY <2>1, OwnedPublish
  <2>2. CASE ~Publishes(w)
    <3>1. /\ pc[w] = "checked"
          /\ Answer(w, "refused")
          /\ UNCHANGED <<state, drawn, pending>>
      BY <1>6, <2>2 DEF Publish, Publishes
    <3>2. ~Replayed(IdOf(w))
      BY <3>1 DEF Owned
    <3>. QED
      BY <3>1, <3>2, OwnedAnswer
  <2>. QED
    BY <2>1, <2>2
<1>7. ASSUME NEW w \in Workers, FailToPublish(w) PROVE Owned' /\ AnswersHold'
  BY <1>7, OwnedAnswer DEF FailToPublish
<1>8. ASSUME NEW w \in Workers, ReadBack(w) PROVE Owned' /\ AnswersHold'
  <2>. DEFINE c == work[w].candidate
              answer == IF /\ state.plans = work[w].rows
                           /\ state.history = Append(c.base.history, c.change)
                        THEN "applied" ELSE "failed"
  <2>1. /\ pc[w] = "published"
        /\ Answer(w, answer)
        /\ UNCHANGED <<state, drawn, pending>>
    BY <1>8 DEF ReadBack
  <2>2. c.base.history \in Seq(Event) /\ c.change \in Event
    BY <2>1, WorkType DEF Candidate, State
  <2>3. answer = "applied" => Replayed(IdOf(w))
    <3>. SUFFICES ASSUME state.history = Append(c.base.history, c.change)
         PROVE  Replayed(IdOf(w))
      OBVIOUS
    <3>1. \A history \in Seq(Event), event \in Event :
              /\ Len(history) + 1 \in DOMAIN Append(history, event)
              /\ Append(history, event)[Len(history) + 1] = event
      OBVIOUS
    <3>2. /\ Len(c.base.history) + 1 \in DOMAIN state.history
          /\ state.history[Len(c.base.history) + 1] = c.change
      BY <2>2, <3>1
    <3>. QED
      BY <3>2 DEF Replayed, IdOf
  <2>. QED
    BY <2>1, <2>3, OwnedAnswer
<1>. QED
  BY <1>1, <1>2, <1>3, <1>4, <1>5, <1>6, <1>7, <1>8, OwnedPreview, OwnedConsume,
     OwnedFindNone DEF Next

(* What the apply that had the preview answers can be relied on, whatever   *)
(* other applies of it are told: applied it is in the history, refused it   *)
(* is not and never will be, and there is one such answer.                  *)
THEOREM AnswersReliable == Spec => []AnswersHold
<1>1. TypeOK /\ Owned /\ AnswersHold /\ [Next]_vars => Owned' /\ AnswersHold'
  BY OwnedStep
<1>. QED
  BY <1>1, TypeInit, TypeStep, OwnedInit, PTL DEF Spec

--------------------------------------------------------------------------------
(***************************************************************************)
(* AdvisoryPolicies.                                                        *)
(*                                                                         *)
(* The store only grows while it parses: what a process took for its base   *)
(* is the store or has fewer policies.  So the manifest, which is of the    *)
(* past once the policies were replaced without it, never fits again.       *)
(***************************************************************************)
PolicyRow == [portfolio : PolicyPortfolios, changes : Seq(Changes), status : {"active", "superseded"}]

PolicyUpdate == [next : PolicyRow, base : SUBSET PolicyRow, rows : SUBSET PolicyRow]

(***************************************************************************)
(* Sequences of changes.                                                    *)
(***************************************************************************)
LEMMA FrontOfAppend ==
    ASSUME NEW s \in Seq(Changes), NEW c \in Changes
    PROVE  /\ Append(s, c) \in Seq(Changes) /\ Append(s, c) # << >>
           /\ P!Front(Append(s, c)) = s
<1>1. /\ Append(s, c) \in Seq(Changes) /\ Len(Append(s, c)) = Len(s) + 1 /\ Len(s) \in Nat
      /\ \A i \in 1 .. Len(s) : Append(s, c)[i] = s[i]
  OBVIOUS
<1>2. P!Front(Append(s, c)) = SubSeq(Append(s, c), 1, Len(s))
  BY <1>1 DEF P!Front
<1>. QED
  BY <1>1, <1>2

LEMMA FrontIsShorter ==
    ASSUME NEW s \in Seq(Changes), s # << >>
    PROVE  /\ P!Front(s) \in Seq(Changes) /\ Len(s) = Len(P!Front(s)) + 1
           /\ Len(P!Front(s)) \in Nat /\ P!IsPrefix(P!Front(s), s)
<1>1. Len(s) \in Nat /\ Len(s) # 0
  OBVIOUS
<1>2. P!Front(s) = SubSeq(s, 1, Len(s) - 1)
  BY DEF P!Front
<1>3. \A i \in 1 .. Len(s) - 1 : s[i] \in Changes
  BY <1>1
<1>4. P!Front(s) \in Seq(Changes) /\ Len(P!Front(s)) = Len(s) - 1
  <2>1. Len(s) - 1 \in Nat /\ Len(s) - 1 <= Len(s)
    BY <1>1
  <2>2. SubSeq(s, 1, Len(s) - 1) \in Seq(Changes)
    BY <2>1, <1>3
  <2>3. \A n \in 0 .. Len(s) : Len(SubSeq(s, 1, n)) = n
    BY <1>1
  <2>. QED
    <3>1. Len(s) - 1 \in 0 .. Len(s)
      BY <2>1, <1>1
    <3>2. Len(SubSeq(s, 1, Len(s) - 1)) = Len(s) - 1
      BY <2>3, <3>1
    <3>. QED
      BY <1>2, <2>2, <3>2
<1>5. SubSeq(P!Front(s), 1, Len(P!Front(s))) = P!Front(s)
  BY <1>4
<1>. QED
  BY <1>1, <1>2, <1>4, <1>5 DEF P!IsPrefix

LEMMA WholeIsPrefix ==
    ASSUME NEW s \in Seq(Changes)
    PROVE  P!IsPrefix(s, s)
BY DEF P!IsPrefix

LEMMA PrefixesBothWays ==
    ASSUME NEW s \in Seq(Changes), NEW t \in Seq(Changes), P!IsPrefix(s, t), P!IsPrefix(t, s)
    PROVE  s = t
<1>1. Len(s) \in Nat /\ Len(t) \in Nat /\ Len(s) = Len(t)
  BY DEF P!IsPrefix
<1>2. SubSeq(s, 1, Len(s)) = SubSeq(t, 1, Len(t))
  BY <1>1 DEF P!IsPrefix
<1>3. SubSeq(s, 1, Len(s)) = s /\ SubSeq(t, 1, Len(t)) = t
  OBVIOUS
<1>. QED
  BY <1>2, <1>3

LEMMA PrefixOfPrefix ==
    ASSUME NEW s \in Seq(Changes), NEW t \in Seq(Changes), NEW u \in Seq(Changes),
           P!IsPrefix(s, t), P!IsPrefix(t, u)
    PROVE  P!IsPrefix(s, u)
<1>1. /\ Len(s) \in Nat /\ Len(t) \in Nat /\ Len(u) \in Nat
      /\ Len(s) <= Len(t) /\ Len(t) <= Len(u)
  BY DEF P!IsPrefix
<1>2. \A i \in 1 .. Len(s) : SubSeq(s, 1, Len(s))[i] = s[i] /\ SubSeq(t, 1, Len(s))[i] = t[i]
  BY <1>1
<1>3. \A i \in 1 .. Len(s) : s[i] = t[i]
  BY <1>2 DEF P!IsPrefix
<1>4. \A i \in 1 .. Len(t) : SubSeq(t, 1, Len(t))[i] = t[i] /\ SubSeq(u, 1, Len(t))[i] = u[i]
  BY <1>1
<1>5. \A i \in 1 .. Len(s) : s[i] = u[i]
  BY <1>1, <1>3, <1>4 DEF P!IsPrefix
<1>6. /\ SubSeq(s, 1, Len(s)) \in Seq(Changes) /\ SubSeq(u, 1, Len(s)) \in Seq(Changes)
      /\ Len(SubSeq(s, 1, Len(s))) = Len(s) /\ Len(SubSeq(u, 1, Len(s))) = Len(s)
  <2>1. \A i \in 1 .. Len(s) : s[i] \in Changes /\ u[i] \in Changes
    BY <1>1
  <2>. QED
    BY <1>1, <2>1
<1>7. \A i \in 1 .. Len(s) : SubSeq(u, 1, Len(s))[i] = u[i]
  BY <1>1
<1>8. SubSeq(s, 1, Len(s)) = SubSeq(u, 1, Len(s))
  BY <1>2, <1>5, <1>6, <1>7
<1>. QED
  BY <1>1, <1>8 DEF P!IsPrefix

(***************************************************************************)
(* Rows in one line of succession.                                          *)
(***************************************************************************)
PolicyId(row) == <<row.portfolio, row.changes>>

PolicyIds(rows) == {PolicyId(row) : row \in rows}

Line(rows) ==
    \A f \in PolicyPortfolios : \E last \in P!ActiveOf(rows, f) :
        \A row \in rows : row.portfolio = f => P!IsPrefix(row.changes, last.changes)

InLine(rows) ==
    /\ \A r, s \in rows : r.portfolio = s.portfolio /\ r.changes = s.changes => r = s
    /\ \A r, s \in rows : r.portfolio = s.portfolio /\ r.status = "active"
                          /\ s.status = "active" => r = s
    /\ Line(rows)

(* The update's next policy comes after the one in force.                   *)
Follows(next, rows) ==
    \E last \in P!ActiveOf(rows, next.portfolio) : last.changes = P!Front(next.changes)

Grown(old, rows) ==
    /\ PolicyIds(old) \subseteq PolicyIds(rows)
    /\ PolicyIds(old) # PolicyIds(rows)

LEMMA ImportedIsGood == P!Migrated \in SUBSET PolicyRow /\ InLine(P!Migrated)
<1>1. << >> \in Seq(Changes)
  OBVIOUS
<1>. DEFINE first(f) == [portfolio |-> f, changes |-> << >>, status |-> "active"]
<1>2. P!Migrated \in SUBSET PolicyRow
  <2>1. \A f \in PolicyPortfolios : first(f) \in PolicyRow
    BY <1>1 DEF PolicyRow
  <2>. QED
    BY <2>1 DEF P!Migrated
<1>3. Line(P!Migrated)
  <2>1. P!IsPrefix(<< >>, << >>)
    BY <1>1, WholeIsPrefix
  <2>2. \A row \in P!Migrated : row = first(row.portfolio)
    BY DEF P!Migrated
  <2>3. \A f \in PolicyPortfolios : first(f) \in P!ActiveOf(P!Migrated, f) /\ first(f).changes = << >>
    BY DEF P!Migrated, P!ActiveOf
  <2>. QED
    BY <2>1, <2>2, <2>3 DEF Line
<1>. QED
  BY <1>2, <1>3 DEF InLine, P!Migrated

LEMMA SucceededIsGood ==
    ASSUME NEW rows \in SUBSET PolicyRow, InLine(rows), NEW next \in PolicyRow,
           next.status = "active",
           next.changes # << >>, Follows(next, rows)
    PROVE  /\ P!Succeeded(rows, next) \in SUBSET PolicyRow
           /\ InLine(P!Succeeded(rows, next))
           /\ Grown(rows, P!Succeeded(rows, next))
<1>. DEFINE f == next.portfolio
            after(row) == IF row \in P!ActiveOf(rows, f) THEN [row EXCEPT !.status = "superseded"]
                          ELSE row
            new == P!Succeeded(rows, next)
<1>1. PICK last \in P!ActiveOf(rows, f) : last.changes = P!Front(next.changes)
  BY DEF Follows
<1>2. /\ last \in rows /\ last.portfolio = f /\ last.status = "active"
      /\ f \in PolicyPortfolios
      /\ next.changes \in Seq(Changes) /\ last.changes \in Seq(Changes)
  BY <1>1 DEF P!ActiveOf, PolicyRow
<1>3. \A row \in rows : row.portfolio = f => P!IsPrefix(row.changes, last.changes)
  <2>1. PICK l \in P!ActiveOf(rows, f) :
            \A row \in rows : row.portfolio = f => P!IsPrefix(row.changes, l.changes)
    BY <1>2 DEF InLine, Line
  <2>2. l = last
    BY <1>2, <2>1 DEF InLine, P!ActiveOf
  <2>. QED
    BY <2>1, <2>2
<1>4. /\ Len(next.changes) = Len(last.changes) + 1 /\ Len(last.changes) \in Nat
      /\ P!IsPrefix(last.changes, next.changes)
  BY <1>1, <1>2, FrontIsShorter
<1>5. \A row \in rows : row.portfolio = f => /\ row.changes # next.changes
                                            /\ P!IsPrefix(row.changes, next.changes)
  <2>. SUFFICES ASSUME NEW row \in rows, row.portfolio = f
                PROVE  row.changes # next.changes /\ P!IsPrefix(row.changes, next.changes)
    OBVIOUS
  <2>1. row.changes \in Seq(Changes) /\ P!IsPrefix(row.changes, last.changes)
    BY <1>3 DEF PolicyRow
  <2>2. P!IsPrefix(row.changes, next.changes)
    BY <1>2, <1>4, <2>1, PrefixOfPrefix
  <2>3. Len(row.changes) <= Len(last.changes)
    BY <2>1 DEF P!IsPrefix
  <2>. QED
    BY <1>4, <2>1, <2>2, <2>3
<1>6. new = {after(row) : row \in rows} \union {next}
  BY DEF P!Succeeded
<1>7. \A row \in rows :
         /\ after(row) \in PolicyRow /\ after(row).portfolio = row.portfolio
         /\ after(row).changes = row.changes
         /\ after(row).status = "active" => after(row) = row /\ row.portfolio # f
         /\ row.portfolio # f => after(row) = row
  BY DEF PolicyRow, P!ActiveOf
<1>. HIDE DEF f, after, new
<1>8. new \in SUBSET PolicyRow
  BY <1>6, <1>7
<1>9. \A r, s \in new : r.portfolio = s.portfolio /\ r.changes = s.changes => r = s
  <2>. SUFFICES ASSUME NEW r \in new, NEW s \in new, r.portfolio = s.portfolio,
                       r.changes = s.changes
                PROVE  r = s
    OBVIOUS
  <2>1. \A x \in new : x = next \/ \E row \in rows : x = after(row)
    BY <1>6
  <2>2. ASSUME NEW x \in rows, NEW y \in rows, r = after(x), s = after(y) PROVE r = s
    BY <1>7, <2>2 DEF InLine
  <2>3. ASSUME NEW x \in rows
        PROVE  ~(after(x).portfolio = next.portfolio /\ after(x).changes = next.changes)
    BY <1>5, <1>7 DEF f
  <2>. QED
    BY <2>1, <2>2, <2>3
<1>10. \A r, s \in new : r.portfolio = s.portfolio /\ r.status = "active"
                         /\ s.status = "active" => r = s
  <2>. SUFFICES ASSUME NEW r \in new, NEW s \in new, r.portfolio = s.portfolio,
                       r.status = "active", s.status = "active"
                PROVE  r = s
    OBVIOUS
  <2>1. \A x \in new : x.status = "active" => x = next \/ (x \in rows /\ x.portfolio # f)
    BY <1>6, <1>7
  <2>. QED
    BY <2>1 DEF InLine, f
<1>11. Line(new)
  <2>. SUFFICES ASSUME NEW g \in PolicyPortfolios
                PROVE  \E l \in P!ActiveOf(new, g) :
                           \A row \in new : row.portfolio = g => P!IsPrefix(row.changes, l.changes)
    BY DEF Line
  <2>1. CASE g = f
    <3>1. next \in P!ActiveOf(new, g)
      BY <1>6, <2>1 DEF P!ActiveOf, f
    <3>2. \A row \in new : row.portfolio = g => P!IsPrefix(row.changes, next.changes)
      BY <1>2, <1>5, <1>6, <1>7, <2>1, WholeIsPrefix
    <3>. QED
      BY <3>1, <3>2
  <2>2. CASE g # f
    <3>1. PICK l \in P!ActiveOf(rows, g) :
              \A row \in rows : row.portfolio = g => P!IsPrefix(row.changes, l.changes)
      BY DEF InLine, Line
    <3>2. l \in P!ActiveOf(new, g)
      BY <1>6, <1>7, <2>2, <3>1 DEF P!ActiveOf
    <3>3. \A row \in new : row.portfolio = g => row \in rows
      BY <1>6, <1>7, <2>2 DEF f
    <3>. QED
      BY <3>1, <3>2, <3>3
  <2>. QED
    BY <2>1, <2>2
<1>12. PolicyIds(new) = PolicyIds(rows) \union {PolicyId(next)}
  BY <1>6, <1>7 DEF PolicyIds, PolicyId
<1>13. PolicyId(next) \notin PolicyIds(rows)
  BY <1>5 DEF PolicyIds, PolicyId, f
<1>. QED
  BY <1>8, <1>9, <1>10, <1>11, <1>12, <1>13 DEF InLine, Grown, new

(***************************************************************************)
(* The invariant.                                                           *)
(***************************************************************************)
PolicySteps == {"idle", "read", "current", "fresh", "listed", "replaced", "written"}

PolicyTypes ==
    /\ policies \in (SUBSET PolicyRow) \union {Damaged}
    /\ manifestP \in (SUBSET PolicyRow) \union {Damaged}
    /\ lockP \in Procs \union {NoOne}
    /\ pcP \in [Procs -> PolicySteps]
    /\ workP \in [Procs -> PolicyUpdate \union {NoWork}]
    /\ \A p \in Procs : pcP[p] # "idle" => workP[p] \in PolicyUpdate
    /\ pendingP \in [Procs -> SUBSET PolicyUpdate]
    /\ replyP \in [Procs -> PolicyRow \union {NoWork}]
    /\ \A p \in Procs : lockP = p <=> pcP[p] = "replaced"

(* The store is good as long as it parses, the manifest is of it or of one  *)
(* before.                                                                  *)
PoliciesFit ==
    policies # Damaged =>
        /\ InLine(policies)
        /\ manifestP # Damaged => PolicyIds(manifestP) \subseteq PolicyIds(policies)

(* What a preview reads is in the store from then on.                       *)
Drafted(u) == u.next.status = "active" /\ u.next.changes # << >>

ReadIn(u, rows) == <<u.next.portfolio, P!Front(u.next.changes)>> \in PolicyIds(rows)

Before(base, rows) == base = rows \/ Grown(base, rows)

(* A preview's base is the store as it is, or one of its past.              *)
Based(u, now) ==
    /\ Drafted(u)
    /\ u.base # {} /\ u.base # Damaged
    /\ InLine(u.base)
    /\ ReadIn(u, u.base)
    /\ now # Damaged => Before(u.base, now)

(* What a process at work rests on.                                         *)
WorkFits(u, at, now) ==
    /\ at = "read" => Drafted(u) /\ (now # Damaged => ReadIn(u, now))
    /\ at \in {"current", "fresh", "listed"} => Based(u, now) /\ Follows(u.next, u.base)
    /\ at = "listed" /\ now = u.base => u.rows = P!Succeeded(u.base, u.next)

RepliesKept ==
    policies # Damaged =>
        \A p \in Procs : replyP[p] # NoWork => PolicyId(replyP[p]) \in PolicyIds(policies)

PolicyInv ==
    /\ PolicyTypes
    /\ PoliciesFit
    /\ \A p \in Procs : \A v \in pendingP[p] : Based(v, policies)
    /\ \A p \in Procs : WorkFits(workP[p], pcP[p], policies)
    /\ RepliesKept

(* A base with the policy a preview read, when that policy is in force now, *)
(* has it in force as well.                                                 *)
LEMMA ReadInForce ==
    ASSUME NEW u \in PolicyUpdate, NEW rows \in SUBSET PolicyRow, Damaged # rows,
           InLine(rows), Based(u, rows),
           NEW current \in P!ActiveOf(rows, u.next.portfolio),
           current.changes = P!Front(u.next.changes)
    PROVE  Follows(u.next, u.base)
<1>. DEFINE f == u.next.portfolio
            read == P!Front(u.next.changes)
<1>1. /\ u.base \in SUBSET PolicyRow /\ f \in PolicyPortfolios /\ current \in rows
      /\ current.portfolio = f /\ current.status = "active" /\ current.changes = read
      /\ current.changes \in Seq(Changes)
  BY DEF PolicyUpdate, PolicyRow, P!ActiveOf
<1>2. PICK last \in P!ActiveOf(u.base, f) :
          \A row \in u.base : row.portfolio = f => P!IsPrefix(row.changes, last.changes)
  BY <1>1 DEF Based, InLine, Line
<1>3. last \in u.base /\ last.portfolio = f /\ last.changes \in Seq(Changes)
  BY <1>1, <1>2 DEF P!ActiveOf, PolicyRow
<1>4. PolicyIds(u.base) \subseteq PolicyIds(rows)
  BY DEF Based, Before, Grown
<1>5. PICK same \in rows : same.portfolio = f /\ same.changes = last.changes
  <2>1. PolicyId(last) \in PolicyIds(rows)
    BY <1>3, <1>4 DEF PolicyIds
  <2>2. PICK same \in rows : PolicyId(last) = PolicyId(same)
    BY <2>1 DEF PolicyIds
  <2>. QED
    BY <1>3, <2>2 DEF PolicyId
<1>6. P!IsPrefix(last.changes, read)
  <2>1. PICK top \in P!ActiveOf(rows, f) :
            \A row \in rows : row.portfolio = f => P!IsPrefix(row.changes, top.changes)
    BY <1>1 DEF InLine, Line
  <2>2. top = current
    BY <1>1, <2>1 DEF InLine, P!ActiveOf
  <2>. QED
    BY <1>1, <1>5, <2>1, <2>2
<1>7. PICK seen \in u.base : seen.portfolio = f /\ seen.changes = read
  BY DEF Based, ReadIn, PolicyIds, PolicyId
<1>8. P!IsPrefix(read, last.changes)
  BY <1>2, <1>7
<1>9. last.changes = read
  BY <1>1, <1>3, <1>6, <1>8, PrefixesBothWays
<1>. QED
  BY <1>2, <1>9 DEF Follows

(* A store that grows, or no longer parses, has what it had.                *)
LEMMA GrowthFits ==
    ASSUME NEW u \in PolicyUpdate, NEW at, NEW old, NEW rows, old # Damaged,
           rows = Damaged \/ Grown(old, rows)
    PROVE  /\ Based(u, old) => Based(u, rows)
           /\ WorkFits(u, at, old) => WorkFits(u, at, rows)
<1>1. ASSUME Based(u, old) PROVE Based(u, rows)
  BY <1>1 DEF Based, Before, Grown
<1>2. ASSUME WorkFits(u, at, old),
             at = "read" PROVE Drafted(u) /\ (rows # Damaged => ReadIn(u, rows))
  BY <1>2 DEF WorkFits, ReadIn, Grown
<1>3. ASSUME WorkFits(u, at, old), at \in {"current", "fresh", "listed"}, rows # Damaged
      PROVE  rows # u.base
  BY <1>3 DEF WorkFits, Based, Before, Grown
<1>4. ASSUME WorkFits(u, at, old), at = "listed", rows = Damaged, Damaged = u.base
      PROVE  FALSE
  BY <1>4 DEF WorkFits, Based
<1>. QED
  BY <1>1, <1>2, <1>3, <1>4 DEF WorkFits

LEMMA PolicyInit ==
    ASSUME P!Init
    PROVE  PolicyInv
<1>1. P!Migrated \in SUBSET PolicyRow /\ InLine(P!Migrated)
  BY ImportedIsGood
<1>2. PolicyTypes
  BY <1>1, FilesAssumption DEF P!Init, PolicyTypes, PolicySteps
<1>3. PoliciesFit
  BY <1>1 DEF P!Init, PoliciesFit
<1>. QED
  BY <1>2, <1>3 DEF P!Init, PolicyInv, WorkFits, RepliesKept

LEMMA PoliciesParse ==
    ASSUME PolicyInv, policies # Damaged
    PROVE  /\ policies \in SUBSET PolicyRow /\ InLine(policies)
           /\ \A row \in policies : row \in PolicyRow
<1>1. policies \in SUBSET PolicyRow \/ policies \in {Damaged}
  BY DEF PolicyInv, PolicyTypes
<1>. QED
  BY <1>1 DEF PolicyInv, PoliciesFit

(* A step of one process that leaves the store as it is.                    *)
LEMMA OneMoves ==
    ASSUME PolicyInv, NEW p \in Procs, UNCHANGED policies, PolicyTypes', PoliciesFit',
           \A q \in Procs \ {p} : /\ pcP'[q] = pcP[q] /\ workP'[q] = workP[q]
                                  /\ pendingP'[q] = pendingP[q] /\ replyP'[q] = replyP[q],
           WorkFits(workP'[p], pcP'[p], policies),
           \A v \in pendingP'[p] : Based(v, policies),
           policies # Damaged /\ replyP'[p] # NoWork => PolicyId(replyP'[p]) \in PolicyIds(policies)
    PROVE  PolicyInv'
<1>1. \A q \in Procs : WorkFits(workP'[q], pcP'[q], policies')
  BY DEF PolicyInv
<1>2. \A q \in Procs : \A v \in pendingP'[q] : Based(v, policies')
  BY DEF PolicyInv
<1>3. RepliesKept'
  BY DEF PolicyInv, RepliesKept
<1>. QED
  BY <1>1, <1>2, <1>3 DEF PolicyInv

LEMMA PoliciesSame ==
    ASSUME PolicyInv, UNCHANGED <<policies, manifestP>>
    PROVE  PoliciesFit'
BY DEF PolicyInv, PoliciesFit

LEMMA PolicyStartFits ==
    ASSUME PolicyInv, NEW p \in Procs, NEW f \in PolicyPortfolios, NEW c \in Changes,
           P!StartPreview(p, f, c)
    PROVE  PolicyInv'
<1>1. PICK current \in P!ActiveOf(policies, f) :
          workP' = [workP EXCEPT ![p] = [next |-> [current EXCEPT !.changes = Append(@, c)],
                                       base |-> {}, rows |-> {}]]
  BY DEF P!StartPreview
<1>. DEFINE next == [current EXCEPT !.changes = Append(@, c)]
            u == [next |-> next, base |-> {}, rows |-> {}]
<1>2. /\ pcP[p] = "idle" /\ lockP = NoOne /\ policies # Damaged
      /\ pcP' = [pcP EXCEPT ![p] = "read"] /\ replyP' = [replyP EXCEPT ![p] = NoWork]
      /\ UNCHANGED <<policies, manifestP, lockP, pendingP>>
  BY DEF P!StartPreview, P!Usable
<1>3. /\ current \in policies /\ current \in PolicyRow /\ current.status = "active"
      /\ current.changes \in Seq(Changes)
  BY <1>1, <1>2, PoliciesParse DEF P!ActiveOf, PolicyRow
<1>4. /\ Append(current.changes, c) \in Seq(Changes) /\ Append(current.changes, c) # << >>
      /\ P!Front(Append(current.changes, c)) = current.changes
  BY <1>3, FrontOfAppend
<1>5. /\ next \in PolicyRow /\ next.status = "active" /\ next.portfolio = current.portfolio
      /\ next.changes = Append(current.changes, c)
  BY <1>3, <1>4 DEF PolicyRow
<1>. HIDE DEF next
<1>6. u \in PolicyUpdate /\ u.next = next
  BY <1>5 DEF PolicyUpdate
<1>7. ReadIn(u, policies)
  BY <1>3, <1>4, <1>5, <1>6 DEF ReadIn, PolicyIds, PolicyId
<1>8. Drafted(u)
  BY <1>4, <1>5, <1>6 DEF Drafted
<1>9. workP' = [workP EXCEPT ![p] = u]
  BY <1>1 DEF next
<1>. HIDE DEF u
<1>10. PolicyTypes'
  BY <1>2, <1>6, <1>9 DEF PolicyInv, PolicyTypes, PolicySteps
<1>11. /\ pcP'[p] = "read" /\ workP'[p] = u /\ replyP'[p] = NoWork /\ pendingP'[p] = pendingP[p]
       /\ \A q \in Procs \ {p} : /\ pcP'[q] = pcP[q] /\ workP'[q] = workP[q]
                                  /\ pendingP'[q] = pendingP[q] /\ replyP'[q] = replyP[q]
  BY <1>2, <1>9 DEF PolicyInv, PolicyTypes
<1>12. WorkFits(workP'[p], pcP'[p], policies)
  BY <1>7, <1>8, <1>11 DEF WorkFits
<1>. QED
  BY <1>2, <1>10, <1>11, <1>12, PoliciesSame, OneMoves DEF PolicyInv

(* A process whose call ends keeps nothing to work on.                      *)
LEMMA PolicyFinishFits ==
    ASSUME PolicyInv, NEW p \in Procs, P!Finish(p), UNCHANGED <<policies, manifestP>>,
           lockP' = IF lockP = p THEN NoOne ELSE lockP,
           pendingP' \in [Procs -> SUBSET PolicyUpdate], replyP' \in [Procs -> PolicyRow \union {NoWork}],
           \A q \in Procs \ {p} : pendingP'[q] = pendingP[q] /\ replyP'[q] = replyP[q],
           \A v \in pendingP'[p] : Based(v, policies),
           policies # Damaged /\ replyP'[p] # NoWork => PolicyId(replyP'[p]) \in PolicyIds(policies)
    PROVE  PolicyInv'
<1>1. /\ pcP'[p] = "idle" /\ workP'[p] = NoWork
      /\ \A q \in Procs \ {p} : pcP'[q] = pcP[q] /\ workP'[q] = workP[q]
      /\ pcP' \in [Procs -> PolicySteps] /\ workP' \in [Procs -> PolicyUpdate \union {NoWork}]
  BY DEF P!Finish, PolicyInv, PolicyTypes, PolicySteps
<1>2. \A q \in Procs : lockP' = q <=> pcP'[q] = "replaced"
  BY <1>1, FilesAssumption DEF PolicyInv, PolicyTypes
<1>3. PolicyTypes'
  BY <1>1, <1>2 DEF PolicyInv, PolicyTypes
<1>4. WorkFits(workP'[p], pcP'[p], policies)
  BY <1>1 DEF WorkFits
<1>. QED
  BY <1>1, <1>3, <1>4, PoliciesSame, OneMoves

LEMMA PolicyRegisterFits ==
    ASSUME PolicyInv, NEW p \in Procs, P!Register(p)
    PROVE  PolicyInv'
<1>. DEFINE u == [workP[p] EXCEPT !.base = policies]
<1>1. /\ pcP[p] = "read" /\ lockP = NoOne /\ P!Finish(p)
      /\ pendingP' = IF P!Usable THEN [pendingP EXCEPT ![p] = @ \cup {u}] ELSE pendingP
      /\ UNCHANGED <<policies, manifestP, lockP, replyP>>
  BY DEF P!Register
<1>2. workP[p] \in PolicyUpdate /\ pendingP \in [Procs -> SUBSET PolicyUpdate]
      /\ replyP \in [Procs -> PolicyRow \union {NoWork}]
  BY <1>1 DEF PolicyInv, PolicyTypes
<1>3. ASSUME P!Usable
      PROVE  /\ u \in PolicyUpdate /\ u.next = workP[p].next /\ u.base = policies
             /\ policies # {} /\ policies # Damaged
  <2>1. policies \in SUBSET PolicyRow /\ policies # {} /\ policies # Damaged
    BY <1>3, PoliciesParse DEF P!Usable, P!RowsValid
  <2>. QED
    BY <1>2, <2>1 DEF PolicyUpdate
<1>4. ASSUME P!Usable PROVE Based(u, policies)
  <2>1. Drafted(workP[p]) /\ ReadIn(workP[p], policies) /\ InLine(policies)
    BY <1>1, <1>4 DEF PolicyInv, WorkFits, PoliciesFit, P!Usable
  <2>. HIDE DEF u
  <2>. QED
    BY <1>3, <1>4, <2>1 DEF Based, Drafted, ReadIn, Before
<1>. HIDE DEF u
<1>5. /\ pendingP' \in [Procs -> SUBSET PolicyUpdate]
      /\ \A q \in Procs \ {p} : pendingP'[q] = pendingP[q] /\ replyP'[q] = replyP[q]
      /\ replyP' \in [Procs -> PolicyRow \union {NoWork}] /\ replyP'[p] = replyP[p]
      /\ pendingP'[p] = IF P!Usable THEN pendingP[p] \union {u} ELSE pendingP[p]
  BY <1>1, <1>2, <1>3
<1>6. \A v \in pendingP'[p] : Based(v, policies)
  BY <1>4, <1>5 DEF PolicyInv
<1>7. policies # Damaged /\ replyP'[p] # NoWork => PolicyId(replyP'[p]) \in PolicyIds(policies)
  BY <1>5 DEF PolicyInv, RepliesKept
<1>8. lockP' = IF lockP = p THEN NoOne ELSE lockP
  BY <1>1
<1>. QED
  BY <1>1, <1>5, <1>6, <1>7, <1>8, PolicyFinishFits

LEMMA PolicyConsumeFits ==
    ASSUME PolicyInv, NEW p \in Procs, NEW v \in pendingP[p], P!Consume(p, v)
    PROVE  PolicyInv'
<1>1. /\ pcP[p] = "idle" /\ lockP = NoOne
      /\ pendingP' = [pendingP EXCEPT ![p] = @ \ {v}]
      /\ replyP' = [replyP EXCEPT ![p] = NoWork]
      /\ UNCHANGED <<policies, manifestP, lockP>>
  BY DEF P!Consume
<1>2. /\ v \in PolicyUpdate /\ Based(v, policies)
      /\ pendingP' \in [Procs -> SUBSET PolicyUpdate]
      /\ replyP' \in [Procs -> PolicyRow \union {NoWork}]
      /\ pendingP'[p] \subseteq pendingP[p] /\ replyP'[p] = NoWork
      /\ \A q \in Procs \ {p} : pendingP'[q] = pendingP[q] /\ replyP'[q] = replyP[q]
  BY <1>1 DEF PolicyInv, PolicyTypes
<1>3. CASE UNCHANGED <<pcP, workP>>
  <2>1. PolicyTypes'
    BY <1>1, <1>2, <1>3 DEF PolicyInv, PolicyTypes
  <2>2. WorkFits(workP'[p], pcP'[p], policies)
    BY <1>1, <1>3 DEF WorkFits
  <2>3. /\ \A q \in Procs \ {p} : /\ pcP'[q] = pcP[q] /\ workP'[q] = workP[q]
                                  /\ pendingP'[q] = pendingP[q] /\ replyP'[q] = replyP[q]
        /\ \A u \in pendingP'[p] : Based(u, policies)
    BY <1>2, <1>3 DEF PolicyInv
  <2>. QED
    BY <1>1, <1>2, <2>1, <2>2, <2>3, PoliciesSame, OneMoves
<1>4. CASE /\ P!Usable /\ pcP' = [pcP EXCEPT ![p] = "current"]
           /\ workP' = [workP EXCEPT ![p] = v]
           /\ \E current \in P!ActiveOf(policies, v.next.portfolio) :
                  current.changes = P!Front(v.next.changes)
  <2>1. policies \in SUBSET PolicyRow /\ policies # Damaged /\ InLine(policies)
    BY <1>4, PoliciesParse DEF P!Usable
  <2>2. Follows(v.next, v.base)
    BY <1>2, <1>4, <2>1, ReadInForce
  <2>3. /\ pcP'[p] = "current" /\ workP'[p] = v
        /\ \A q \in Procs \ {p} : pcP'[q] = pcP[q] /\ workP'[q] = workP[q]
    BY <1>4 DEF PolicyInv, PolicyTypes
  <2>4. WorkFits(workP'[p], pcP'[p], policies)
    BY <1>2, <2>2, <2>3 DEF WorkFits
  <2>5. PolicyTypes'
    BY <1>1, <1>2, <1>4 DEF PolicyInv, PolicyTypes, PolicySteps
  <2>6. \A u \in pendingP'[p] : Based(u, policies)
    BY <1>2 DEF PolicyInv
  <2>. QED
    BY <1>1, <1>2, <2>3, <2>4, <2>5, <2>6, PoliciesSame, OneMoves
<1>. QED
  BY <1>3, <1>4 DEF P!Consume

(* The end of a call that answers nothing.                                  *)
LEMMA GiveUpFits ==
    ASSUME PolicyInv, NEW p \in Procs, P!Finish(p), lockP = NoOne,
           UNCHANGED <<policies, manifestP, lockP, pendingP, replyP>>
    PROVE  PolicyInv'
<1>1. lockP' = IF lockP = p THEN NoOne ELSE lockP
  OBVIOUS
<1>2. /\ pendingP' \in [Procs -> SUBSET PolicyUpdate]
      /\ replyP' \in [Procs -> PolicyRow \union {NoWork}]
      /\ \A v \in pendingP'[p] : Based(v, policies)
      /\ policies # Damaged /\ replyP'[p] # NoWork
           => PolicyId(replyP'[p]) \in PolicyIds(policies)
  BY DEF PolicyInv, PolicyTypes, RepliesKept
<1>. QED
  BY <1>1, <1>2, PolicyFinishFits

LEMMA CheckBaseFits ==
    ASSUME PolicyInv, NEW p \in Procs, P!CheckBase(p)
    PROVE  PolicyInv'
<1>1. /\ pcP[p] = "current" /\ lockP = NoOne
      /\ UNCHANGED <<policies, manifestP, lockP, pendingP, replyP>>
  BY DEF P!CheckBase
<1>2. CASE P!Finish(p)
  BY <1>1, <1>2, GiveUpFits
<1>3. CASE pcP' = [pcP EXCEPT ![p] = "fresh"] /\ UNCHANGED workP
  <2>1. PolicyTypes'
    BY <1>1, <1>3 DEF PolicyInv, PolicyTypes, PolicySteps
  <2>2. pcP'[p] = "fresh" /\ \A q \in Procs \ {p} : pcP'[q] = pcP[q]
    BY <1>3 DEF PolicyInv, PolicyTypes
  <2>3. WorkFits(workP'[p], pcP'[p], policies)
    BY <1>1, <1>3, <2>2 DEF PolicyInv, WorkFits
  <2>. QED
    BY <1>1, <1>3, <2>1, <2>2, <2>3, PoliciesSame, OneMoves DEF PolicyInv, RepliesKept
<1>. QED
  BY <1>2, <1>3 DEF P!CheckBase

LEMMA ListFits ==
    ASSUME PolicyInv, NEW p \in Procs, P!ListPolicies(p)
    PROVE  PolicyInv'
<1>1. /\ pcP[p] = "fresh" /\ lockP = NoOne
      /\ UNCHANGED <<policies, manifestP, lockP, pendingP, replyP>>
  BY DEF P!ListPolicies
<1>2. CASE P!Finish(p)
  BY <1>1, <1>2, GiveUpFits
<1>3. CASE /\ P!Usable /\ pcP' = [pcP EXCEPT ![p] = "listed"]
           /\ workP' = [workP EXCEPT ![p].rows = P!Succeeded(policies, workP[p].next)]
  <2>. DEFINE rows == P!Succeeded(policies, workP[p].next)
              u == [workP[p] EXCEPT !.rows = rows]
  <2>1. policies \in SUBSET PolicyRow /\ workP[p] \in PolicyUpdate
    BY <1>1, <1>3, PoliciesParse DEF P!Usable, PolicyInv, PolicyTypes
  <2>2. rows \in SUBSET PolicyRow
    BY <2>1 DEF P!Succeeded, P!ActiveOf, PolicyRow, PolicyUpdate
  <2>3. workP' = [workP EXCEPT ![p] = u]
    BY <1>3
  <2>4. /\ u \in PolicyUpdate /\ u.next = workP[p].next /\ u.base = workP[p].base
        /\ u.rows = rows
        /\ policies = u.base => u.rows = P!Succeeded(u.base, u.next)
    <3>. HIDE DEF rows
    <3>1. u \in PolicyUpdate /\ u.next = workP[p].next /\ u.base = workP[p].base /\ u.rows = rows
      BY <2>1, <2>2 DEF PolicyUpdate
    <3>. QED
      BY <3>1 DEF rows
  <2>. HIDE DEF rows, u
  <2>5. PolicyTypes'
    BY <1>1, <1>3, <2>3, <2>4 DEF PolicyInv, PolicyTypes, PolicySteps
  <2>6. /\ pcP'[p] = "listed" /\ workP'[p] = u
        /\ \A q \in Procs \ {p} : pcP'[q] = pcP[q] /\ workP'[q] = workP[q]
    BY <1>3, <2>3 DEF PolicyInv, PolicyTypes
  <2>7. Based(workP[p], policies) /\ Follows(workP[p].next, workP[p].base)
    BY <1>1 DEF PolicyInv, WorkFits
  <2>8. Based(u, policies) /\ Follows(u.next, u.base)
    BY <2>4, <2>7 DEF Based, Drafted, ReadIn
  <2>9. WorkFits(workP'[p], pcP'[p], policies)
    BY <2>4, <2>6, <2>8 DEF WorkFits
  <2>. QED
    BY <1>1, <2>5, <2>6, <2>9, PoliciesSame, OneMoves DEF PolicyInv, RepliesKept
<1>. QED
  BY <1>2, <1>3 DEF P!ListPolicies

(* What ReplacePolicies puts in place of the base has grown by one policy.  *)
LEMMA ReplacedGrows ==
    ASSUME PolicyInv, NEW p \in Procs, pcP[p] = "listed", policies = workP[p].base
    PROVE  /\ workP[p] \in PolicyUpdate /\ workP[p].rows \in SUBSET PolicyRow
           /\ policies # Damaged
           /\ InLine(workP[p].rows) /\ Grown(policies, workP[p].rows)
<1>1. workP[p] \in PolicyUpdate
  BY DEF PolicyInv, PolicyTypes
<1>2. /\ policies \in SUBSET PolicyRow /\ workP[p].next \in PolicyRow
      /\ workP[p].rows \in SUBSET PolicyRow
  BY <1>1 DEF PolicyUpdate
<1>3. /\ Based(workP[p], policies) /\ Follows(workP[p].next, policies)
      /\ workP[p].rows = P!Succeeded(policies, workP[p].next)
  BY DEF PolicyInv, WorkFits
<1>4. /\ InLine(policies) /\ policies # Damaged
      /\ workP[p].next.status = "active" /\ workP[p].next.changes # << >>
  BY <1>3 DEF Based, Drafted
<1>. QED
  BY <1>1, <1>2, <1>3, <1>4, SucceededIsGood

LEMMA ReplaceFits ==
    ASSUME PolicyInv, NEW p \in Procs, P!ReplacePolicies(p)
    PROVE  PolicyInv'
<1>1. pcP[p] = "listed" /\ lockP = NoOne /\ UNCHANGED <<manifestP, pendingP, replyP>>
  BY DEF P!ReplacePolicies
<1>2. CASE P!Finish(p) /\ UNCHANGED <<policies, lockP>>
  BY <1>1, <1>2, GiveUpFits
<1>3. CASE /\ policies = workP[p].base /\ policies' \in P!Written(workP[p].rows)
           /\ lockP' = p /\ pcP' = [pcP EXCEPT ![p] = "replaced"] /\ UNCHANGED workP
  <2>1. /\ workP[p] \in PolicyUpdate /\ workP[p].rows \in SUBSET PolicyRow /\ policies # Damaged
        /\ InLine(workP[p].rows) /\ Grown(policies, workP[p].rows)
    BY <1>1, <1>3, ReplacedGrows
  <2>2. policies' = workP[p].rows \/ policies' = Damaged
    BY <1>3 DEF P!Written
  <2>3. policies' # Damaged => InLine(policies') /\ Grown(policies, policies')
    BY <2>1, <2>2
  <2>4. \A q \in Procs : pcP'[q] = IF q = p THEN "replaced" ELSE pcP[q]
    BY <1>3 DEF PolicyInv, PolicyTypes
  <2>5. PolicyTypes'
    <3>1. policies' \in (SUBSET PolicyRow) \union {Damaged}
      BY <2>1, <2>2
    <3>2. \A q \in Procs : lockP' = q <=> pcP'[q] = "replaced"
      BY <1>1, <1>3, <2>4, FilesAssumption DEF PolicyInv, PolicyTypes
    <3>3. pcP' \in [Procs -> PolicySteps]
      BY <1>3 DEF PolicyInv, PolicyTypes, PolicySteps
    <3>. QED
      BY <1>1, <1>3, <2>4, <3>1, <3>2, <3>3 DEF PolicyInv, PolicyTypes
  <2>6. PoliciesFit'
    BY <1>1, <2>1, <2>3 DEF PolicyInv, PoliciesFit, Grown
  <2>7. policies' = Damaged \/ Grown(policies, policies')
    BY <2>3
  <2>8. \A q \in Procs : \A v \in pendingP'[q] : Based(v, policies')
    <3>1. \A q \in Procs : \A v \in pendingP[q] : v \in PolicyUpdate /\ Based(v, policies)
      BY DEF PolicyInv, PolicyTypes
    <3>. QED
      BY <1>1, <2>1, <2>7, <3>1, GrowthFits
  <2>9. \A q \in Procs : WorkFits(workP'[q], pcP'[q], policies')
    <3>. SUFFICES ASSUME NEW q \in Procs PROVE WorkFits(workP[q], pcP'[q], policies')
      BY <1>3
    <3>1. CASE q = p
      BY <2>4, <3>1 DEF WorkFits
    <3>2. CASE q # p /\ pcP[q] = "idle"
      BY <2>4, <3>2 DEF WorkFits
    <3>3. CASE q # p /\ pcP[q] # "idle"
      <4>1. workP[q] \in PolicyUpdate /\ WorkFits(workP[q], pcP[q], policies) /\ pcP'[q] = pcP[q]
        BY <2>4, <3>3 DEF PolicyInv, PolicyTypes
      <4>. QED
        BY <2>1, <2>7, <4>1, GrowthFits
    <3>. QED
      BY <3>1, <3>2, <3>3
  <2>10. RepliesKept'
    BY <1>1, <2>1, <2>3 DEF PolicyInv, RepliesKept, Grown
  <2>. QED
    BY <2>5, <2>6, <2>8, <2>9, <2>10 DEF PolicyInv
<1>. QED
  BY <1>2, <1>3 DEF P!ReplacePolicies

LEMMA ManifestFits ==
    ASSUME PolicyInv, NEW p \in Procs, P!ReplaceManifest(p)
    PROVE  PolicyInv'
<1>1. /\ pcP[p] = "replaced" /\ manifestP' \in {policies, Damaged} /\ lockP' = NoOne
      /\ pcP' = [pcP EXCEPT ![p] = "written"]
      /\ UNCHANGED <<policies, workP, pendingP, replyP>>
  BY DEF P!ReplaceManifest, P!Written
<1>2. \A q \in Procs : pcP'[q] = IF q = p THEN "written" ELSE pcP[q]
  BY <1>1 DEF PolicyInv, PolicyTypes
<1>3. PolicyTypes'
  <2>1. \A q \in Procs : lockP' = q <=> pcP'[q] = "replaced"
    BY <1>1, <1>2, FilesAssumption DEF PolicyInv, PolicyTypes
  <2>2. pcP' \in [Procs -> PolicySteps] /\ manifestP' \in (SUBSET PolicyRow) \union {Damaged}
    BY <1>1 DEF PolicyInv, PolicyTypes, PolicySteps
  <2>. QED
    BY <1>1, <1>2, <2>1, <2>2 DEF PolicyInv, PolicyTypes
<1>4. PoliciesFit'
  BY <1>1 DEF PolicyInv, PoliciesFit
<1>5. WorkFits(workP'[p], pcP'[p], policies)
  BY <1>2 DEF WorkFits
<1>6. /\ \A q \in Procs \ {p} : /\ pcP'[q] = pcP[q] /\ workP'[q] = workP[q]
                                 /\ pendingP'[q] = pendingP[q] /\ replyP'[q] = replyP[q]
      /\ \A v \in pendingP'[p] : Based(v, policies)
      /\ policies # Damaged /\ replyP'[p] # NoWork
           => PolicyId(replyP'[p]) \in PolicyIds(policies)
  BY <1>1, <1>2 DEF PolicyInv, RepliesKept
<1>. QED
  BY <1>1, <1>3, <1>4, <1>5, <1>6, OneMoves

LEMMA PolicyReadBackFits ==
    ASSUME PolicyInv, NEW p \in Procs, P!ReadBack(p)
    PROVE  PolicyInv'
<1>1. /\ pcP[p] = "written" /\ lockP = NoOne /\ P!Finish(p)
      /\ replyP' = IF P!Usable /\ workP[p].next \in policies
                  THEN [replyP EXCEPT ![p] = workP[p].next] ELSE replyP
      /\ UNCHANGED <<policies, manifestP, lockP, pendingP>>
  BY DEF P!ReadBack
<1>2. workP[p] \in PolicyUpdate /\ workP[p].next \in PolicyRow
  BY <1>1 DEF PolicyInv, PolicyTypes, PolicyUpdate
<1>3. /\ replyP' \in [Procs -> PolicyRow \union {NoWork}]
      /\ \A q \in Procs \ {p} : replyP'[q] = replyP[q]
      /\ replyP'[p] = replyP[p] \/ (replyP'[p] = workP[p].next /\ workP[p].next \in policies)
  BY <1>1, <1>2 DEF PolicyInv, PolicyTypes
<1>4. policies # Damaged /\ replyP'[p] # NoWork => PolicyId(replyP'[p]) \in PolicyIds(policies)
  BY <1>3 DEF PolicyInv, RepliesKept, PolicyIds
<1>5. /\ pendingP' \in [Procs -> SUBSET PolicyUpdate]
      /\ \A v \in pendingP'[p] : Based(v, policies)
      /\ lockP' = IF lockP = p THEN NoOne ELSE lockP
      /\ \A q \in Procs \ {p} : pendingP'[q] = pendingP[q]
  BY <1>1 DEF PolicyInv, PolicyTypes
<1>. QED
  BY <1>1, <1>3, <1>4, <1>5, PolicyFinishFits

LEMMA PolicyCrashFits ==
    ASSUME PolicyInv, NEW p \in Procs, P!Crash(p)
    PROVE  PolicyInv'
<1>1. /\ P!Finish(p) /\ UNCHANGED <<policies, manifestP>>
      /\ lockP' = IF lockP = p THEN NoOne ELSE lockP
      /\ pendingP' = [pendingP EXCEPT ![p] = {}] /\ replyP' = [replyP EXCEPT ![p] = NoWork]
  BY DEF P!Crash
<1>2. /\ pendingP' \in [Procs -> SUBSET PolicyUpdate]
      /\ replyP' \in [Procs -> PolicyRow \union {NoWork}]
      /\ pendingP'[p] = {} /\ replyP'[p] = NoWork
      /\ \A q \in Procs \ {p} : pendingP'[q] = pendingP[q] /\ replyP'[q] = replyP[q]
  BY <1>1 DEF PolicyInv, PolicyTypes
<1>. QED
  BY <1>1, <1>2, PolicyFinishFits

LEMMA PolicyStutterFits ==
    ASSUME PolicyInv, UNCHANGED P!vars
    PROVE  PolicyInv'
<1>1. PolicyTypes'
  BY DEF PolicyInv, PolicyTypes, P!vars
<1>2. PoliciesFit' /\ RepliesKept'
  BY DEF PolicyInv, PoliciesFit, RepliesKept, P!vars
<1>3. /\ \A p \in Procs : \A v \in pendingP'[p] : Based(v, policies')
      /\ \A p \in Procs : WorkFits(workP'[p], pcP'[p], policies')
  BY DEF PolicyInv, P!vars
<1>. QED
  BY <1>1, <1>2, <1>3 DEF PolicyInv

LEMMA PolicyStep ==
    ASSUME PolicyInv, [P!Next]_(P!vars)
    PROVE  PolicyInv'
BY PolicyStartFits, PolicyRegisterFits, PolicyConsumeFits, CheckBaseFits, ListFits,
   ReplaceFits, ManifestFits,
   PolicyReadBackFits, PolicyCrashFits, PolicyStutterFits DEF P!Next

(* The store parses in one line of succession for each portfolio or not at  *)
(* all, and every preview and apply under way rests on it or on its past:   *)
(* AdvisoryPolicyStore and the previews of advisory_policy_update.py.       *)
THEOREM PoliciesInvariant == P!Spec => []PolicyInv
<1>1. P!Init => PolicyInv
  BY PolicyInit
<1>2. PolicyInv /\ [P!Next]_(P!vars) => PolicyInv'
  BY PolicyStep
<1>. QED
  BY <1>1, <1>2, PTL DEF P!Spec

(* While the policies are usable, those of a portfolio are one line of      *)
(* succession with the last in force, and what was answered "applied" is in *)
(* it: apply_policy_update never merges into rules that were replaced.      *)
THEOREM PoliciesAreALine == P!Spec => []PoliciesSucceed
<1>1. PolicyInv => PoliciesSucceed
  <2>. SUFFICES ASSUME PolicyInv, P!Usable PROVE PoliciesSucceed
    BY DEF PoliciesSucceed, P!PoliciesSucceed
  <2>1. policies # Damaged /\ InLine(policies)
    BY DEF P!Usable, PolicyInv, PoliciesFit
  <2>2. \A f \in PolicyPortfolios : \E last \in P!ActiveOf(policies, f) :
            \A row \in policies : row.portfolio = f => P!IsPrefix(row.changes, last.changes)
    BY <2>1 DEF InLine, Line
  <2>3. \A p \in Procs : replyP[p] # NoWork =>
            \E row \in policies : row.portfolio = replyP[p].portfolio
                                  /\ row.changes = replyP[p].changes
    BY <2>1 DEF PolicyInv, RepliesKept, PolicyIds, PolicyId
  <2>. QED
    BY <2>2, <2>3 DEF PoliciesSucceed, P!PoliciesSucceed
<1>. QED
  BY <1>1, PoliciesInvariant, PTL

(* Policies that do not validate, with nobody writing, never will again:    *)
(* an update of replace_policies under way cannot cover the damage up.      *)
THEOREM PoliciesStayUnusable == P!Spec => PoliciesUnusableForGood
<1>1. ASSUME PolicyInv, NEW p \in Procs,
             P!ReplacePolicies(p) PROVE ~P!Usable' \/ UNCHANGED <<policies, manifestP>>
  <2>1. CASE UNCHANGED <<policies, manifestP>>
    BY <2>1
  <2>2. CASE /\ pcP[p] = "listed" /\ manifestP # Damaged /\ policies = workP[p].base
             /\ policies' \in P!Written(workP[p].rows) /\ UNCHANGED manifestP
    <3>1. policies # Damaged /\ Grown(policies, workP[p].rows)
      BY <1>1, <2>2, ReplacedGrows
    <3>2. PolicyIds(manifestP) \subseteq PolicyIds(policies)
      BY <1>1, <2>2, <3>1 DEF PolicyInv, PoliciesFit
    <3>3. manifestP # workP[p].rows
      BY <3>1, <3>2 DEF Grown
    <3>. QED
      BY <2>2, <3>3 DEF P!Usable, P!Written
  <2>. QED
    BY <1>1, <2>1, <2>2 DEF P!ReplacePolicies
<1>2. ASSUME UNCHANGED <<policies, manifestP>> PROVE P!Usable' = P!Usable
  BY <1>2 DEF P!Usable
<1>3. ASSUME PolicyInv, [P!Next]_(P!vars), lockP = NoOne, ~P!Usable
      PROVE  ~P!Usable'
  <2>1. CASE \E p \in Procs : P!ReplacePolicies(p)
    BY <1>1, <1>2, <1>3, <2>1
  <2>2. CASE \E p \in Procs : P!ReplaceManifest(p)
    BY <1>3, <2>2, FilesAssumption DEF P!ReplaceManifest, PolicyInv, PolicyTypes
  <2>3. CASE UNCHANGED <<policies, manifestP>>
    BY <1>2, <1>3, <2>3
  <2>. QED
    BY <1>3, <2>1, <2>2, <2>3 DEF P!Next, P!vars, P!StartPreview, P!Register, P!Consume,
       P!CheckBase,
       P!ListPolicies, P!ReadBack, P!Crash
<1>4. PolicyInv /\ [P!Next]_(P!vars) => [lockP = NoOne /\ ~P!Usable => ~P!Usable']_(P!vars)
  BY <1>3
<1>. QED
  BY <1>4, PoliciesInvariant, PTL DEF P!Spec, PoliciesUnusableForGood, P!PoliciesUnusableForGood

--------------------------------------------------------------------------------
(***************************************************************************)
(* OpinionWeighting.                                                        *)
(*                                                                         *)
(* A config that is replaced is a version later than the one the manifest   *)
(* can be of, so the two do not fit until the manifest is replaced too.     *)
(***************************************************************************)
ManifestOfPast ==
    config # Damaged /\ manifestW # Damaged => manifestW.version <= config.version

(* A preview that a process works on has a config for its base.             *)
LEMMA ProposedIsLater ==
    ASSUME NEW v \in W!Preview
    PROVE  W!Proposed(v) \in W!Config /\ W!Proposed(v).version = v.base.version + 1
           /\ v.base.version \in Nat
<1>1. /\ v.seen.patches \in Seq(Updates) /\ v.update \in Updates /\ v.base.version \in Nat
  BY DEF W!Preview, W!Config
<1>2. Append(v.seen.patches, v.update) \in Seq(Updates)
  BY <1>1
<1>. QED
  BY <1>1, <1>2 DEF W!Proposed, W!Config

LEMMA WeightingInit == W!Init => W!TypeOK /\ ManifestOfPast
<1>1. W!First \in W!Config
  BY DEF W!First, W!Config
<1>. QED
  BY <1>1, FilesAssumption DEF W!Init, W!TypeOK, ManifestOfPast, W!First

LEMMA WeightingFinishes ==
    ASSUME W!TypeOK, NEW p \in Procs, W!Finish(p),
           lockW' = IF lockW = p THEN NoOne ELSE lockW
    PROVE  /\ pcW' \in [Procs -> {"idle", "read", "checked", "replaced", "written"}]
           /\ workW' \in [Procs -> W!Preview \cup {NoWork}]
           /\ lockW' \in Procs \cup {NoOne}
           /\ \A q \in Procs : lockW' = q <=> pcW'[q] = "replaced"
           /\ \A q \in Procs : pcW'[q] = "idle" <=> workW'[q] = NoWork
BY FilesAssumption DEF W!TypeOK, W!Finish

LEMMA WeightingWork ==
    ASSUME W!TypeOK, NEW p \in Procs, pcW[p] # "idle"
    PROVE  workW[p] \in W!Preview
BY DEF W!TypeOK

LEMMA WeightingStep ==
    ASSUME W!TypeOK, ManifestOfPast, [W!Next]_(W!vars)
    PROVE  W!TypeOK' /\ ManifestOfPast'
<1>1. ASSUME NEW p \in Procs, NEW u \in Updates, W!StartPreview(p, u)
      PROVE  W!TypeOK' /\ ManifestOfPast'
  <2>1. config \in W!Config /\ W!First \in W!Config
    BY <1>1 DEF W!StartPreview, W!Usable, W!TypeOK, W!First, W!Config
  <2>2. [update |-> u, seen |-> config, base |-> W!First] \in W!Preview
    BY <2>1 DEF W!Preview
  <2>3. [update |-> u, seen |-> config, base |-> W!First] # NoWork
    BY <2>2, SettingsAssumption
  <2>. QED
    BY <1>1, <2>2, <2>3 DEF W!StartPreview, W!TypeOK, ManifestOfPast
<1>2. ASSUME NEW p \in Procs, W!Register(p)
      PROVE  W!TypeOK' /\ ManifestOfPast'
  <2>1. workW[p] \in W!Preview
    BY <1>2, WeightingWork DEF W!Register
  <2>2. W!Usable => [workW[p] EXCEPT !.base = config] \in W!Preview
    BY <2>1 DEF W!Usable, W!TypeOK, W!Preview
  <2>3. pendingW' \in [Procs -> SUBSET W!Preview]
    BY <1>2, <2>2 DEF W!Register, W!TypeOK
  <2>4. W!Finish(p) /\ lockW' = (IF lockW = p THEN NoOne ELSE lockW)
    BY <1>2 DEF W!Register
  <2>5. replyW' \in [Procs -> Updates \cup {NoWork}] /\ UNCHANGED <<config, manifestW>>
    BY <1>2 DEF W!Register, W!TypeOK
  <2>. QED
    BY <2>3, <2>4, <2>5, WeightingFinishes DEF W!TypeOK, ManifestOfPast
<1>3. ASSUME NEW p \in Procs, NEW v \in pendingW[p], W!Consume(p, v)
      PROVE  W!TypeOK' /\ ManifestOfPast'
  <2>1. v \in W!Preview /\ v # NoWork
    BY SettingsAssumption DEF W!TypeOK
  <2>2. pendingW' \in [Procs -> SUBSET W!Preview]
    BY <1>3 DEF W!Consume, W!TypeOK
  <2>. QED
    BY <1>3, <2>1, <2>2 DEF W!Consume, W!TypeOK, ManifestOfPast
<1>4. ASSUME NEW p \in Procs, W!ReplaceConfig(p)
      PROVE  W!TypeOK' /\ ManifestOfPast'
  <2>1. CASE /\ manifestW # Damaged /\ config = workW[p].base
             /\ config' \in {W!Proposed(workW[p]), Damaged}
             /\ lockW' = p /\ pcW' = [pcW EXCEPT ![p] = "replaced"] /\ UNCHANGED workW
    <3>1. workW[p] \in W!Preview
      BY <1>4, WeightingWork DEF W!ReplaceConfig
    <3>2. /\ config' \in W!Config \cup {Damaged}
          /\ config' # Damaged => config'.version = config.version + 1
          /\ config # Damaged /\ config.version \in Nat
      BY <2>1, <3>1, ProposedIsLater, SettingsAssumption DEF W!Preview
    <3>3. manifestW.version \in Nat /\ manifestW.version <= config.version
      BY <2>1, <3>2 DEF W!TypeOK, ManifestOfPast, W!Config
    <3>4. ManifestOfPast'
      BY <1>4, <3>2, <3>3 DEF W!ReplaceConfig, ManifestOfPast
    <3>. QED
      BY <1>4, <2>1, <3>2, <3>4, FilesAssumption DEF W!ReplaceConfig, W!TypeOK
  <2>2. CASE W!Finish(p) /\ UNCHANGED <<config, lockW>>
    <3>1. lockW' = (IF lockW = p THEN NoOne ELSE lockW)
      BY <1>4, <2>2 DEF W!ReplaceConfig
    <3>. QED
      BY <1>4, <2>2, <3>1, WeightingFinishes DEF W!ReplaceConfig, W!TypeOK, ManifestOfPast
  <2>. QED
    BY <1>4, <2>1, <2>2 DEF W!ReplaceConfig
<1>5. ASSUME NEW p \in Procs, W!ReplaceManifest(p)
      PROVE  W!TypeOK' /\ ManifestOfPast'
  <2>1. ManifestOfPast'
    BY <1>5 DEF W!ReplaceManifest, ManifestOfPast, W!TypeOK, W!Config
  <2>2. \A q \in Procs : lockW' = q <=> pcW'[q] = "replaced"
    BY <1>5, FilesAssumption DEF W!ReplaceManifest, W!TypeOK
  <2>. QED
    BY <1>5, <2>1, <2>2 DEF W!ReplaceManifest, W!TypeOK
<1>6. ASSUME NEW p \in Procs, W!ReadBack(p)
      PROVE  W!TypeOK' /\ ManifestOfPast'
  <2>1. workW[p].update \in Updates
    BY <1>6, WeightingWork DEF W!ReadBack, W!Preview
  <2>2. replyW' \in [Procs -> Updates \cup {NoWork}]
    BY <1>6, <2>1 DEF W!ReadBack, W!TypeOK
  <2>3. W!Finish(p) /\ lockW' = (IF lockW = p THEN NoOne ELSE lockW)
    BY <1>6 DEF W!ReadBack
  <2>. QED
    BY <1>6, <2>2, <2>3, WeightingFinishes DEF W!ReadBack, W!TypeOK, ManifestOfPast
<1>7. ASSUME NEW p \in Procs, W!Crash(p)
      PROVE  W!TypeOK' /\ ManifestOfPast'
  <2>1. /\ pendingW' \in [Procs -> SUBSET W!Preview]
        /\ replyW' \in [Procs -> Updates \cup {NoWork}]
    BY <1>7 DEF W!Crash, W!TypeOK
  <2>. QED
    BY <1>7, <2>1, WeightingFinishes DEF W!Crash, W!TypeOK, ManifestOfPast
<1>8. CASE UNCHANGED W!vars
  BY <1>8 DEF W!vars, W!TypeOK, ManifestOfPast
<1>. QED
  BY <1>1, <1>2, <1>3, <1>4, <1>5, <1>6, <1>7, <1>8 DEF W!Next

(* The files, the lock and the previews of the weighting store stay in      *)
(* their domains; a process holds the lock exactly between the two          *)
(* replacements of replace.                                                 *)
THEOREM WeightingTypes == W!Spec => []W!TypeOK
<1>1. W!Init => W!TypeOK /\ ManifestOfPast
  BY WeightingInit
<1>2. W!TypeOK /\ ManifestOfPast /\ [W!Next]_(W!vars) => W!TypeOK' /\ ManifestOfPast'
  BY WeightingStep
<1>. QED
  BY <1>1, <1>2, PTL DEF W!Spec

(* A weighting config that does not validate, with nobody writing, never    *)
(* will again: an update of replace under way cannot cover the damage up.   *)
THEOREM WeightingStaysUnusable == W!Spec => UnusableForGood
<1>1. W!Init => W!TypeOK /\ ManifestOfPast
  BY WeightingInit
<1>2. W!TypeOK /\ ManifestOfPast /\ [W!Next]_(W!vars) => W!TypeOK' /\ ManifestOfPast'
  BY WeightingStep
<1>3. ASSUME W!TypeOK, ManifestOfPast, NEW p \in Procs, W!ReplaceConfig(p), ~W!Usable
      PROVE  ~W!Usable'
  <2>1. CASE UNCHANGED config
    BY <1>3, <2>1 DEF W!ReplaceConfig, W!Usable
  <2>2. CASE /\ manifestW # Damaged /\ config = workW[p].base
             /\ config' \in {W!Proposed(workW[p]), Damaged}
    <3>1. workW[p] \in W!Preview
      BY <1>3, WeightingWork DEF W!ReplaceConfig
    <3>2. /\ config' # Damaged => config'.version = config.version + 1
          /\ config # Damaged /\ config.version \in Nat
      BY <2>2, <3>1, ProposedIsLater, SettingsAssumption DEF W!Preview
    <3>3. manifestW.version \in Nat /\ manifestW.version <= config.version
      BY <1>3, <2>2, <3>2 DEF W!TypeOK, ManifestOfPast, W!Config
    <3>. QED
      BY <1>3, <3>2, <3>3 DEF W!ReplaceConfig, W!Usable
  <2>. QED
    BY <1>3, <2>1, <2>2 DEF W!ReplaceConfig
<1>4. ASSUME W!TypeOK, ManifestOfPast, [W!Next]_(W!vars), lockW = NoOne, ~W!Usable
      PROVE  ~W!Usable'
  <2>1. ASSUME NEW p \in Procs PROVE ~W!ReplaceManifest(p)
    BY <1>4, FilesAssumption DEF W!ReplaceManifest, W!TypeOK
  <2>2. CASE UNCHANGED <<config, manifestW>>
    BY <1>4, <2>2 DEF W!Usable
  <2>. QED
    BY <1>3, <1>4, <2>1, <2>2 DEF W!Next, W!vars, W!StartPreview, W!Register, W!Consume,
       W!ReadBack, W!Crash
<1>5. W!TypeOK /\ ManifestOfPast /\ [W!Next]_(W!vars)
      => [lockW = NoOne /\ ~W!Usable => ~W!Usable']_(W!vars)
  BY <1>4
<1>. QED
  BY <1>1, <1>2, <1>5, PTL DEF W!Spec, UnusableForGood, W!UnusableForGood
================================================================================
