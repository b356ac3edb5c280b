----------------------------- MODULE AccountProofs -----------------------------
(***************************************************************************)
(* Proofs about what is seen of the owner's accounts: AccountObservations,  *)
(* for any processes, lifetimes and bounds, and PortfolioContents, for any  *)
(* accounts, assets, events and bounds.                                     *)
(*                                                                         *)
(* Of an observation: what a call rests on is stated of one call c of       *)
(* process p, the policy pol, the stored row r and the holder l of the      *)
(* lock.  Of a portfolio: it is true through some rows of the journal, and  *)
(* the transaction of one row more, later than the checkpoint, keeps it     *)
(* so, in the order of the materializer's fold.                             *)
(***************************************************************************)
EXTENDS AccountObservations, PortfolioContents, FiniteSetTheorems, WellFoundedInduction, TLAPS

(***************************************************************************)
(* AccountObservations.                                                     *)
(***************************************************************************)

(* An identity for each approval, and not more changes than faults.         *)
FaultsCounted ==
    /\ policy.id <= policy.changes + 1
    /\ policy.changes + deaths <= MaxFaults

(* The call began under the policy in force or an earlier one, with         *)
(* consent; without consent now, it has met its one change of the policy.   *)
Began(c, pol) ==
    /\ c.began \in 1 .. pol.id
    /\ c.changes \in 0 .. pol.changes
    /\ c.changes = pol.changes => pol.state = "on"

(* Beyond the lock it holds the lock, or entered without consent: consent   *)
(* cannot come back before it ends, so it never writes.                     *)
Protected(c, p, pol, l) ==
    c.at \in {"locked", "calling", "saving", "writing"} /\ l # p =>
        c.at # "writing" /\ pol.state # "on"

(* It has a row when it saves one, and none before it has loaded.           *)
RowInTime(c) ==
    /\ c.at \in {"saving", "writing"} => c.row # None
    /\ c.at \in {"waiting", "locked", "viewing"} => c.row = None

(* A row it has loaded was stored under a policy no older than the call,    *)
(* and is still the stored one for who holds the lock.                      *)
LoadedIsStored(c, p, pol, r, l) ==
    c.row # None /\ (c.at = "calling" \/ c.row.failed # None) =>
        /\ c.row.policy \in c.began .. pol.id
        /\ l = p => r # None /\ c.row.stored = r.stored

(* A row it has fetched is not older than the call, but for the age the     *)
(* broker gave it, and for who holds the lock not older than the stored one.*)
FetchedIsNewer(c, p, r, l) ==
    c.row # None /\ c.at # "calling" /\ c.row.failed = None =>
        /\ c.row.age <= MaxAge + c.lag
        /\ l = p /\ r # None => c.row.stored <= r.stored

CallHolds(c, p, pol, r, l) ==
    /\ Began(c, pol)
    /\ Protected(c, p, pol, l)
    /\ RowInTime(c)
    /\ LoadedIsStored(c, p, pol, r, l)
    /\ FetchedIsNewer(c, p, r, l)

EveryCallHolds ==
    \A p \in Processes : calls[p] # None => CallHolds(calls[p], p, policy, row, lock)

SaidHolds == NotOlderThanSaid /\ ConsentHolds

IInv == TypeOK /\ FaultsCounted /\ EveryCallHolds /\ SaidHolds

--------------------------------------------------------------------------------
(* Time.                                                                    *)
LEMMA LaterOrders ==
    /\ Cap \in Nat /\ 0 \in Ages /\ MaxAge \in Ages /\ MaxStale \in Ages
    /\ \A n \in Ages : n \in Nat /\ Later(n) \in Ages /\ n <= Later(n) /\ Later(n) <= n + 1
    /\ \A m, n \in Ages : m <= n => Later(m) <= Later(n)
  BY ObservationsAssumption DEF Later, Ages, Cap

LEMMA NoneIsNothing ==
    /\ None \notin Nat /\ None \notin Ages /\ None \notin Processes
    /\ None \notin Row /\ None \notin Call /\ None \notin Answer /\ None \notin Snapshot
<1>1. Ages \subseteq Nat
  BY LaterOrders
<1>. QED
  BY <1>1, NoneAssumption

LEMMA AgedRow ==
    ASSUME NEW r \in Row
    PROVE  /\ Aged(r) \in Row /\ Aged(r) # None
           /\ Aged(r).policy = r.policy
           /\ Aged(r).stored = Later(r.stored)
           /\ Aged(r).age = Later(r.age)
           /\ Aged(r).failed = None <=> r.failed = None
<1>1. r # None
  BY NoneIsNothing
<1>2. r.age \in Ages /\ r.stored \in Ages /\ r.failed \in Ages \union {None}
  BY DEF Row
<1>. DEFINE age == Later(r.age)
            stored == Later(r.stored)
            failed == IF r.failed = None THEN None ELSE Later(r.failed)
<1>3. /\ age \in Ages /\ stored \in Ages /\ failed \in Ages \union {None}
      /\ failed = None <=> r.failed = None
  BY <1>2, LaterOrders, NoneIsNothing
<1>4. Aged(r) = [r EXCEPT !.age = age, !.stored = stored, !.failed = failed]
  BY <1>1 DEF Aged
<1>. HIDE DEF age, stored, failed
<1>5. /\ Aged(r) \in Row
      /\ Aged(r).policy = r.policy /\ Aged(r).age = age
      /\ Aged(r).stored = stored /\ Aged(r).failed = failed
  BY <1>3, <1>4 DEF Row
<1>. QED
  BY <1>3, <1>5, NoneIsNothing DEF age, stored

(* A tick takes nothing from a call.                                        *)
LEMMA AgedCallHolds ==
    ASSUME NEW c \in Call, NEW p, NEW pol, NEW r \in Row \union {None}, NEW l,
           CallHolds(c, p, pol, r, l), c.lag < MaxWait
    PROVE  LET d == [c EXCEPT !.lag = @ + 1, !.row = Aged(@)] IN
           d \in Call /\ CallHolds(d, p, pol, Aged(r), l)
<1>. DEFINE kept == Aged(c.row)
            lag == c.lag + 1
            d == [c EXCEPT !.lag = lag, !.row = kept]
<1>1. c.row \in Row \union {None} /\ c.lag \in 0 .. MaxWait
  BY DEF Call
<1>2. /\ kept \in Row \union {None}
      /\ kept = None <=> c.row = None
      /\ c.row # None =>
             /\ kept.policy = c.row.policy
             /\ kept.stored = Later(c.row.stored) /\ kept.age = Later(c.row.age)
             /\ kept.failed = None <=> c.row.failed = None
  BY <1>1, AgedRow DEF Aged
<1>3. lag \in 0 .. MaxWait
  BY <1>1, ObservationsAssumption
<1>. HIDE DEF kept, lag
<1>4. /\ d \in Call
      /\ d.at = c.at /\ d.began = c.began /\ d.changes = c.changes
      /\ d.row = kept /\ d.lag = lag
  BY <1>2, <1>3 DEF Call
<1>5. /\ r = None => Aged(r) = None
      /\ r # None => Aged(r) # None /\ Aged(r).stored = Later(r.stored)
  BY AgedRow DEF Aged
<1>6. /\ c.row # None => c.row.stored \in Ages /\ c.row.age \in Ages
      /\ r # None => r.stored \in Ages
  BY <1>1 DEF Row
<1>. HIDE DEF d
<1>7. Began(d, pol) /\ Protected(d, p, pol, l) /\ RowInTime(d)
  BY <1>2, <1>4 DEF CallHolds, Began, Protected, RowInTime
<1>8. LoadedIsStored(d, p, pol, Aged(r), l)
  BY <1>2, <1>4, <1>5 DEF CallHolds, LoadedIsStored
<1>9. FetchedIsNewer(d, p, Aged(r), l)
  <2>. SUFFICES ASSUME c.row # None, c.at # "calling", c.row.failed = None
                PROVE  /\ kept.age <= MaxAge + lag
                       /\ l = p /\ Aged(r) # None => kept.stored <= Aged(r).stored
    BY <1>2, <1>4 DEF FetchedIsNewer
  <2>1. /\ c.row.age <= MaxAge + c.lag
        /\ l = p /\ r # None => c.row.stored <= r.stored
    BY DEF CallHolds, FetchedIsNewer
  <2>2. kept.age <= MaxAge + lag
    <3>1. /\ c.row.age \in Nat /\ kept.age \in Nat /\ kept.age <= c.row.age + 1
          /\ c.lag \in Nat /\ MaxAge \in Nat
      <4>1. c.row.age \in Ages /\ kept.age = Later(c.row.age)
        BY <1>2, <1>6
      <4>2. c.row.age \in Nat /\ kept.age \in Nat /\ kept.age <= c.row.age + 1
        <5>. DEFINE age == c.row.age
        <5>1. age \in Ages /\ kept.age = Later(age)
          BY <4>1
        <5>. HIDE DEF age
        <5>2. age \in Nat /\ Later(age) \in Nat /\ Later(age) <= age + 1
          BY <5>1, LaterOrders
        <5>. QED
          BY <5>1, <5>2 DEF age
      <4>3. c.lag \in Nat /\ MaxAge \in Nat
        BY <1>1, ObservationsAssumption
      <4>. QED
        BY <4>2, <4>3
    <3>. QED
      BY <2>1, <3>1 DEF lag
  <2>3. l = p /\ Aged(r) # None => kept.stored <= Aged(r).stored
    BY <1>2, <1>5, <1>6, <2>1, LaterOrders
  <2>. QED
    BY <2>2, <2>3
<1>10. CallHolds(d, p, pol, Aged(r), l)
  BY <1>7, <1>8, <1>9 DEF CallHolds
<1>. QED
  BY <1>4, <1>10 DEF d, kept, lag

(* What a call rests on asks of the lock only whether the call holds it.    *)
LEMMA LockOfOthers ==
    ASSUME NEW c, NEW p, NEW pol, NEW r, NEW l, NEW m, l = p <=> m = p,
           CallHolds(c, p, pol, r, l)
    PROVE  CallHolds(c, p, pol, r, m)
  BY DEF CallHolds, Began, Protected, RowInTime, LoadedIsStored, FetchedIsNewer

(* A step of one call that changes neither policy nor row.                  *)
LEMMA OneCallSteps ==
    ASSUME TypeOK, EveryCallHolds, NEW p \in Processes, NEW e \in Call \union {None},
           calls' = [calls EXCEPT ![p] = e], UNCHANGED <<policy, row>>,
           \A q \in Processes : q # p => (lock' = q <=> lock = q),
           e # None => CallHolds(e, p, policy, row, lock')
    PROVE  calls' \in [Processes -> Call \union {None}] /\ EveryCallHolds'
<1>1. calls' \in [Processes -> Call \union {None}]
  BY DEF TypeOK
<1>2. ASSUME NEW q \in Processes, calls'[q] # None
      PROVE  CallHolds(calls'[q], q, policy', row', lock')
  <2>1. CASE q = p
    BY <1>2, <2>1 DEF TypeOK
  <2>2. CASE q # p
    <3>1. calls'[q] = calls[q] /\ (lock' = q <=> lock = q)
      BY <2>2 DEF TypeOK
    <3>2. CallHolds(calls[q], q, policy, row, lock)
      BY <1>2, <3>1 DEF EveryCallHolds
    <3>3. CallHolds(calls[q], q, policy, row, lock')
      BY <3>1, <3>2, LockOfOthers
    <3>. QED
      BY <3>1, <3>3
  <2>. QED
    BY <2>1, <2>2
<1>. QED
  BY <1>1, <1>2 DEF EveryCallHolds

(* The end of a call frees the lock if the call held it.                    *)
LEMMA EndHolds ==
    ASSUME TypeOK, EveryCallHolds, NEW p \in Processes, End(p), UNCHANGED <<policy, row>>
    PROVE  /\ lock' \in Refreshers \union {None}
           /\ calls' \in [Processes -> Call \union {None}]
           /\ EveryCallHolds'
<1>1. calls' = [calls EXCEPT ![p] = None] /\ lock' = IF lock = p THEN None ELSE lock
  BY DEF End
<1>2. \A q \in Processes : q # p => (lock' = q <=> lock = q)
  BY <1>1, NoneIsNothing
<1>3. lock' \in Refreshers \union {None}
  BY <1>1 DEF TypeOK
<1>. QED
  BY <1>1, <1>2, <1>3, OneCallSteps

--------------------------------------------------------------------------------
(* Answers.                                                                 *)
LEMMA NothingSaid ==
    ASSUME said' = None
    PROVE  said' \in Answer \union {None} /\ SaidHolds'
  BY DEF SaidHolds, NotOlderThanSaid, ConsentHolds

LEMMA TellHolds ==
    ASSUME NEW label \in {"current", "stale", "none"}, NEW age \in Ages,
           NEW from \in {"store", "memory", "broker", "nothing"},
           NEW under \in Nat \union {None}, NEW began \in Nat \union {None},
           Tell(label, age, from, under, began),
           label = "current" => age <= MaxAge + MaxWait,
           label = "stale" => age <= MaxStale + MaxWait,
           under # None /\ began # None =>
               under >= began \/ (from = "memory" /\ label = "stale")
    PROVE  said' \in Answer \union {None} /\ SaidHolds'
<1>1. said' = [label |-> label, age |-> age, from |-> from, under |-> under, began |-> began]
  BY DEF Tell
<1>. QED
  BY <1>1 DEF Answer, SaidHolds, NotOlderThanSaid, ConsentHolds

LEMMA SayHolds ==
    ASSUME NEW p, NEW label \in {"current", "stale", "none"}, NEW age \in Ages,
           NEW from \in {"store", "memory", "broker", "nothing"},
           NEW under \in Nat \union {None}, calls[p] \in Call,
           Say(p, label, age, from, under),
           label = "current" => age <= MaxAge + MaxWait,
           label = "stale" => age <= MaxStale + MaxWait,
           under # None =>
               under >= calls[p].began \/ (from = "memory" /\ label = "stale")
    PROVE  said' \in Answer \union {None} /\ SaidHolds'
<1>1. calls[p].began \in Nat
  BY DEF Call
<1>. QED
  BY <1>1, TellHolds DEF Say

LEMMA SayNothingHolds ==
    ASSUME NEW p, calls[p] \in Call, SayNothing(p)
    PROVE  said' \in Answer \union {None} /\ SaidHolds'
<1>1. Say(p, "none", 0, "nothing", None) /\ 0 \in Ages
  BY LaterOrders DEF SayNothing
<1>. QED
  BY <1>1, SayHolds

(* What is not older than n, less the lag of the call, is not older than n  *)
(* plus the longest a call lasts.                                           *)
LEMMA LagIsBounded ==
    ASSUME NEW c \in Call, NEW age \in Ages, NEW n \in Nat, age - c.lag \in 0 .. n
    PROVE  age <= n + MaxWait
<1>1. c.lag \in 0 .. MaxWait
  BY DEF Call
<1>. QED
  BY <1>1, LaterOrders, ObservationsAssumption

LEMMA SayFailedHolds ==
    ASSUME NEW p, calls[p] \in Call, NEW r \in Row \union {None}, SayFailed(p, r),
           r # None => r.policy >= calls[p].began
    PROVE  said' \in Answer \union {None} /\ SaidHolds'
<1>1. CASE r # None /\ Usable(r, calls[p].lag)
  <2>1. r.age \in Ages /\ r.policy \in Nat
    BY <1>1 DEF Row
  <2>2. r.age <= MaxStale + MaxWait
    BY <1>1, <2>1, LagIsBounded, ObservationsAssumption DEF Usable
  <2>3. Say(p, "stale", r.age, "store", r.policy)
    BY <1>1 DEF SayFailed
  <2>. QED
    BY <1>1, <2>1, <2>2, <2>3, SayHolds
<1>2. CASE ~(r # None /\ Usable(r, calls[p].lag))
  <2>1. SayNothing(p)
    BY <1>2 DEF SayFailed
  <2>. QED
    BY <2>1, SayNothingHolds
<1>. QED
  BY <1>1, <1>2

(* load answers with a row stored under the policy in force.                *)
LEMMA LoadedIsCurrent ==
    ASSUME TypeOK
    PROVE  /\ Loaded \in Row \union {None}
           /\ Loaded # None => Loaded = row /\ row # None /\ Loaded.policy = policy.id /\ On
  BY DEF Loaded, TypeOK

--------------------------------------------------------------------------------
(* Time and the policy.                                                     *)
LEMMA TickHolds ==
    ASSUME IInv, Tick
    PROVE  IInv'
<1>. USE DEF IInv
<1>1. /\ row' = Aged(row) /\ said' = None /\ UNCHANGED <<policy, lock, deaths>>
      /\ \A p \in Processes : calls[p] # None => calls[p].lag < MaxWait
  BY DEF Tick
<1>2. /\ row' \in Row \union {None}
      /\ row' # None => row # None /\ row'.policy = row.policy
  BY <1>1, AgedRow DEF TypeOK, Aged
<1>. DEFINE later(p) == [calls[p] EXCEPT !.lag = @ + 1, !.row = Aged(@)]
<1>3. calls' = [p \in Processes |-> IF calls[p] = None THEN None ELSE later(p)]
  BY DEF Tick
<1>4. ASSUME NEW p \in Processes, calls[p] # None
      PROVE  later(p) \in Call /\ CallHolds(later(p), p, policy', row', lock')
  <2>1. calls[p] \in Call /\ CallHolds(calls[p], p, policy, row, lock) /\ calls[p].lag < MaxWait
    BY <1>1, <1>4 DEF TypeOK, EveryCallHolds
  <2>2. row \in Row \union {None}
    BY DEF TypeOK
  <2>3. later(p) \in Call /\ CallHolds(later(p), p, policy, Aged(row), lock)
    BY <2>1, <2>2, AgedCallHolds
  <2>. HIDE DEF later
  <2>. QED
    BY <1>1, <2>3
<1>. HIDE DEF later
<1>5. calls' \in [Processes -> Call \union {None}]
  BY <1>3, <1>4
<1>6. EveryCallHolds'
  BY <1>3, <1>4 DEF EveryCallHolds
<1>7. memory' \in [Gateways -> Snapshot \union {None}]
  <2>. SUFFICES ASSUME NEW g \in Gateways, memory[g] # None
                PROVE  [memory[g] EXCEPT !.age = Later(@)] \in Snapshot
    BY DEF Tick
  <2>. DEFINE kept == memory[g]
              age == Later(kept.age)
  <2>1. kept \in Snapshot
    BY DEF TypeOK
  <2>. HIDE DEF kept
  <2>2. age \in Ages
    BY <2>1, LaterOrders DEF Snapshot
  <2>. HIDE DEF age
  <2>3. [kept EXCEPT !.age = age] \in Snapshot
    BY <2>1, <2>2 DEF Snapshot
  <2>. QED
    BY <2>3 DEF age, kept
<1>8. TypeOK'
  BY <1>1, <1>2, <1>5, <1>7 DEF TypeOK
<1>9. FaultsCounted' /\ SaidHolds'
  BY <1>1, NothingSaid DEF FaultsCounted
<1>. QED
  BY <1>6, <1>8, <1>9

(* A change of the policy falls into calls that have not met one.           *)
LEMMA ChangeHolds ==
    ASSUME IInv, NEW id \in {policy.id, policy.id + 1}, NEW state \in {"on", "off", "other"},
           Change(id, state), id = policy.id => state # "on"
    PROVE  IInv'
<1>. USE DEF IInv
<1>1. /\ policy' = [id |-> id, state |-> state, changes |-> policy.changes + 1]
      /\ said' = None /\ UNCHANGED <<row, lock, calls, memory, deaths>>
      /\ policy.changes + deaths < MaxFaults
      /\ \A p \in Processes : calls[p] # None => calls[p].changes = policy.changes
  BY DEF Change
<1>2. /\ policy.id \in 1 .. MaxFaults + 1 /\ policy.changes \in 0 .. MaxFaults
      /\ deaths \in 0 .. MaxFaults /\ MaxFaults \in Nat
  BY ObservationsAssumption DEF TypeOK
<1>3. /\ policy'.id = id /\ policy'.state = state /\ policy'.changes = policy.changes + 1
  BY <1>1
<1>4. FaultsCounted'
  BY <1>1, <1>2, <1>3 DEF FaultsCounted
<1>5. id \in 1 .. MaxFaults + 1 /\ policy.changes + 1 \in 0 .. MaxFaults
  BY <1>1, <1>2 DEF FaultsCounted
<1>6. TypeOK'
  <2>1. policy' \in [id: 1 .. MaxFaults + 1, state: {"on", "off", "other"},
                     changes: 0 .. MaxFaults]
    BY <1>1, <1>5
  <2>2. row # None => row.policy \in 1 .. id
    BY <1>2 DEF TypeOK
  <2>. QED
    BY <1>1, <1>3, <2>1, <2>2 DEF TypeOK
<1>7. ASSUME NEW p \in Processes, calls[p] # None
      PROVE  CallHolds(calls[p], p, policy', row, lock)
  <2>. DEFINE c == calls[p]
  <2>1. c \in Call /\ CallHolds(c, p, policy, row, lock) /\ c.changes = policy.changes
    BY <1>1, <1>7 DEF TypeOK, EveryCallHolds
  <2>. HIDE DEF c
  <2>2. policy.state = "on"
    BY <2>1 DEF CallHolds, Began
  <2>3. Began(c, policy')
    BY <1>2, <1>3, <2>1 DEF CallHolds, Began
  <2>4. Protected(c, p, policy', lock) /\ RowInTime(c) /\ FetchedIsNewer(c, p, row, lock)
    BY <2>1, <2>2 DEF CallHolds, Protected
  <2>5. LoadedIsStored(c, p, policy', row, lock)
    <3>. SUFFICES ASSUME c.row # None, c.at = "calling" \/ c.row.failed # None
                  PROVE  /\ c.row.policy \in c.began .. id
                         /\ lock = p => row # None /\ c.row.stored = row.stored
      BY <1>3 DEF LoadedIsStored
    <3>1. c.row.policy \in c.began .. policy.id /\ c.began \in 1 .. policy.id
      BY <2>1 DEF CallHolds, LoadedIsStored, Began
    <3>2. lock = p => row # None /\ c.row.stored = row.stored
      BY <2>1 DEF CallHolds, LoadedIsStored
    <3>. QED
      BY <1>2, <3>1, <3>2
  <2>. QED
    BY <2>3, <2>4, <2>5 DEF CallHolds, c
<1>8. EveryCallHolds'
  BY <1>1, <1>7 DEF EveryCallHolds
<1>. QED
  BY <1>1, <1>4, <1>6, <1>8, NothingSaid

LEMMA PolicyHolds ==
    ASSUME IInv, Approve \/ Disable \/ Rebind
    PROVE  IInv'
<1>1. policy.id \in Nat /\ policy.id # policy.id + 1
  BY DEF IInv, TypeOK
<1>. QED
  BY <1>1, ChangeHolds DEF Approve, Disable, Rebind

--------------------------------------------------------------------------------
(* The steps of a call.                                                     *)
LEMMA StartHolds ==
    ASSUME IInv, NEW p \in Processes, NEW at \in {"waiting", "viewing"},
           NEW refresh \in BOOLEAN, Start(p, at, refresh)
    PROVE  IInv'
<1>. USE DEF IInv
<1>. DEFINE e == [at |-> at, refresh |-> refresh, lag |-> 0, row |-> None,
                  began |-> policy.id, changes |-> policy.changes]
<1>1. /\ calls' = [calls EXCEPT ![p] = e] /\ said' = None
      /\ UNCHANGED <<policy, row, lock, memory, deaths>> /\ policy.state = "on"
  BY DEF Start, On
<1>2. e \in Call
  BY ObservationsAssumption DEF Call, TypeOK
<1>3. CallHolds(e, p, policy, row, lock)
  BY DEF CallHolds, Began, Protected, RowInTime, LoadedIsStored, FetchedIsNewer, TypeOK,
         Start, On
<1>. HIDE DEF e
<1>4. calls' \in [Processes -> Call \union {None}] /\ EveryCallHolds'
  BY <1>1, <1>2, <1>3, OneCallSteps
<1>5. TypeOK'
  BY <1>1, <1>4 DEF TypeOK
<1>. QED
  BY <1>1, <1>4, <1>5, NothingSaid DEF FaultsCounted

LEMMA EnterHolds ==
    ASSUME IInv, NEW p \in Refreshers, Enter(p)
    PROVE  IInv'
<1>. USE DEF IInv
<1>. DEFINE c == calls[p]
            e == [c EXCEPT !.at = "locked"]
<1>1. /\ calls' = [calls EXCEPT ![p] = e] /\ said' = None
      /\ UNCHANGED <<policy, row, memory, deaths>>
      /\ IF On THEN lock = None /\ lock' = p ELSE lock' = lock
      /\ c.at = "waiting" /\ c # None
  BY DEF Enter
<1>2. p \in Processes /\ c \in Call /\ CallHolds(c, p, policy, row, lock)
  BY <1>1 DEF TypeOK, EveryCallHolds, Processes
<1>. HIDE DEF c
<1>3. /\ e \in Call /\ e.at = "locked" /\ e.row = None
      /\ e.began = c.began /\ e.changes = c.changes
  BY <1>1, <1>2 DEF Call, CallHolds, RowInTime
<1>. HIDE DEF e
<1>4. CallHolds(e, p, policy, row, lock')
  BY <1>1, <1>2, <1>3
     DEF CallHolds, Began, Protected, RowInTime, LoadedIsStored, FetchedIsNewer, On
<1>5. \A q \in Processes : q # p => (lock' = q <=> lock = q)
  BY <1>1, NoneIsNothing
<1>6. calls' \in [Processes -> Call \union {None}] /\ EveryCallHolds'
  BY <1>1, <1>2, <1>3, <1>4, <1>5, OneCallSteps
<1>7. TypeOK'
  BY <1>1, <1>6 DEF TypeOK
<1>. QED
  BY <1>1, <1>6, <1>7, NothingSaid DEF FaultsCounted

(* A call that ends with an answer, and changes nothing that is stored.     *)
LEMMA AnsweredHolds ==
    ASSUME IInv, NEW p \in Processes, End(p), UNCHANGED <<policy, row, memory, deaths>>,
           said' \in Answer \union {None} /\ SaidHolds'
    PROVE  IInv'
<1>. USE DEF IInv
<1>1. /\ lock' \in Refreshers \union {None}
      /\ calls' \in [Processes -> Call \union {None}]
      /\ EveryCallHolds'
  BY EndHolds
<1>2. TypeOK'
  BY <1>1 DEF TypeOK
<1>. QED
  BY <1>1, <1>2 DEF FaultsCounted

LEMMA ReuseHolds ==
    ASSUME IInv, NEW p \in Refreshers, ReuseFailure(p) \/ Reuse(p)
    PROVE  IInv'
<1>1. /\ End(p) /\ UNCHANGED <<policy, row, memory, deaths>> /\ p \in Processes
      /\ calls[p] \in Call /\ CallHolds(calls[p], p, policy, row, lock)
  BY DEF ReuseFailure, Reuse, AtLoad, IInv, TypeOK, EveryCallHolds, Processes
<1>2. /\ Loaded \in Row \union {None}
      /\ Loaded # None => Loaded.policy >= calls[p].began
  BY <1>1, LoadedIsCurrent DEF IInv, TypeOK, CallHolds, Began
<1>3. CASE ReuseFailure(p)
  BY <1>1, <1>2, <1>3, SayFailedHolds, AnsweredHolds DEF ReuseFailure
<1>4. CASE Reuse(p)
  <2>1. /\ Loaded # None /\ Loaded \in Row
        /\ Loaded.age - calls[p].lag \in 0 .. MaxAge
        /\ Say(p, "current", Loaded.age, "store", Loaded.policy)
    BY <1>2, <1>4 DEF Reuse, Reusable
  <2>2. Loaded.age \in Ages /\ Loaded.policy \in Nat
    BY <2>1 DEF Row
  <2>3. Loaded.age <= MaxAge + MaxWait
    BY <1>1, <2>1, <2>2, LagIsBounded, ObservationsAssumption
  <2>4. said' \in Answer \union {None} /\ SaidHolds'
    BY <1>1, <1>2, <2>1, <2>2, <2>3, SayHolds
  <2>. QED
    BY <1>1, <2>4, AnsweredHolds
<1>. QED
  BY <1>3, <1>4

(* A call that goes on, and keeps its hold on the lock.                     *)
LEMMA GoesOnHolds ==
    ASSUME IInv, NEW p \in Processes, NEW e \in Call, calls' = [calls EXCEPT ![p] = e],
           said' = None, UNCHANGED <<policy, row, lock, deaths>>,
           memory' \in [Gateways -> Snapshot \union {None}],
           CallHolds(e, p, policy, row, lock)
    PROVE  IInv'
<1>. USE DEF IInv
<1>1. calls' \in [Processes -> Call \union {None}] /\ EveryCallHolds'
  BY OneCallSteps
<1>2. TypeOK'
  BY <1>1 DEF TypeOK
<1>. QED
  BY <1>1, <1>2, NothingSaid DEF FaultsCounted

LEMMA AskHolds ==
    ASSUME IInv, NEW p \in Refreshers, Ask(p)
    PROVE  IInv'
<1>. DEFINE c == calls[p]
            e == [c EXCEPT !.at = "calling", !.row = Loaded]
<1>1. /\ calls' = [calls EXCEPT ![p] = e] /\ said' = None
      /\ UNCHANGED <<policy, row, lock, deaths>>
      /\ c.at = "locked" /\ c # None
      /\ memory' \in [Gateways -> Snapshot \union {None}]
  BY DEF Ask, AtLoad, IInv, TypeOK
<1>2. p \in Processes /\ c \in Call /\ CallHolds(c, p, policy, row, lock)
  BY <1>1 DEF IInv, TypeOK, EveryCallHolds, Processes
<1>3. /\ Loaded \in Row \union {None}
      /\ Loaded # None => Loaded = row /\ row # None /\ Loaded.policy = policy.id /\ On
  BY LoadedIsCurrent DEF IInv
<1>. HIDE DEF c
<1>4. /\ e \in Call /\ e.at = "calling" /\ e.row = Loaded
      /\ e.began = c.began /\ e.changes = c.changes
  BY <1>2, <1>3 DEF Call
<1>. HIDE DEF e
<1>5. Began(e, policy) /\ Protected(e, p, policy, lock) /\ RowInTime(e)
  BY <1>1, <1>2, <1>4 DEF CallHolds, Began, Protected, RowInTime
<1>6. LoadedIsStored(e, p, policy, row, lock)
  BY <1>2, <1>3, <1>4 DEF CallHolds, Began, LoadedIsStored, IInv, TypeOK
<1>7. FetchedIsNewer(e, p, row, lock)
  BY <1>4 DEF FetchedIsNewer
<1>. QED
  BY <1>1, <1>2, <1>4, <1>5, <1>6, <1>7, GoesOnHolds DEF CallHolds

LEMMA FetchHolds ==
    ASSUME IInv, NEW p \in Refreshers, Fetch(p)
    PROVE  IInv'
<1>. DEFINE c == calls[p]
<1>1. PICK a \in {0, MaxAge} :
          /\ calls' = [calls EXCEPT ![p].at = "saving", ![p].row =
                 [policy |-> 0, age |-> a, stored |-> 0, failed |-> None, invalid |-> FALSE]]
          /\ memory' = [g \in Gateways |->
                 IF g = p THEN [age |-> a, under |-> policy.id] ELSE memory[g]]
  BY DEF Fetch
<1>. DEFINE fetched == [policy |-> 0, age |-> a, stored |-> 0, failed |-> None, invalid |-> FALSE]
            e == [c EXCEPT !.at = "saving", !.row = fetched]
<1>2. /\ said' = None /\ UNCHANGED <<policy, row, lock, deaths>>
      /\ c.at = "calling" /\ c # None
  BY DEF Fetch
<1>3. p \in Processes /\ c \in Call /\ CallHolds(c, p, policy, row, lock)
  BY <1>2 DEF IInv, TypeOK, EveryCallHolds, Processes
<1>4. calls' = [calls EXCEPT ![p] = e]
  BY <1>1, <1>3 DEF IInv, TypeOK
<1>5. /\ fetched \in Row /\ fetched # None /\ fetched.failed = None
      /\ fetched.stored = 0 /\ fetched.age = a
  <2>1. a \in Ages /\ 0 \in Ages
    BY LaterOrders
  <2>2. fetched \in Row
    BY <2>1 DEF Row
  <2>. QED
    BY <2>2, NoneIsNothing
<1>0. memory' \in [Gateways -> Snapshot \union {None}]
  <2>1. a \in Ages /\ policy.id \in Nat
    BY LaterOrders DEF IInv, TypeOK
  <2>2. [age |-> a, under |-> policy.id] \in Snapshot
    BY <2>1 DEF Snapshot
  <2>. QED
    BY <1>1, <2>2 DEF IInv, TypeOK
<1>. HIDE DEF fetched, c
<1>6. /\ e \in Call /\ e.at = "saving" /\ e.row = fetched
      /\ e.began = c.began /\ e.changes = c.changes /\ e.lag = c.lag
  BY <1>3, <1>5 DEF Call
<1>. HIDE DEF e
<1>7. Began(e, policy) /\ Protected(e, p, policy, lock) /\ RowInTime(e)
      /\ LoadedIsStored(e, p, policy, row, lock)
  BY <1>2, <1>3, <1>5, <1>6 DEF CallHolds, Began, Protected, RowInTime, LoadedIsStored
<1>8. FetchedIsNewer(e, p, row, lock)
  <2>1. c.lag \in Nat /\ MaxAge \in Nat /\ a <= MaxAge
    BY <1>3, ObservationsAssumption DEF Call
  <2>2. row # None => row.stored \in Nat
    BY LaterOrders DEF IInv, TypeOK, Row
  <2>. QED
    BY <1>5, <1>6, <2>1, <2>2 DEF FetchedIsNewer
<1>. QED
  BY <1>0, <1>2, <1>3, <1>4, <1>6, <1>7, <1>8, GoesOnHolds DEF CallHolds

LEMMA FetchPartHolds ==
    ASSUME IInv, NEW p \in Refreshers, FetchPart(p)
    PROVE  IInv'
<1>1. /\ End(p) /\ UNCHANGED <<policy, row, memory, deaths>> /\ p \in Processes
      /\ calls[p] \in Call /\ Say(p, "current", 0, "broker", None)
  BY DEF FetchPart, IInv, TypeOK, Processes
<1>2. "current" \in {"current", "stale", "none"} /\ 0 \in Ages /\ None \in Nat \union {None}
  BY LaterOrders
<1>3. 0 <= MaxAge + MaxWait
  BY ObservationsAssumption
<1>4. said' \in Answer \union {None} /\ SaidHolds'
  BY <1>1, <1>2, <1>3, SayHolds
<1>. QED
  BY <1>1, <1>4, AnsweredHolds

LEMMA FetchFailsHolds ==
    ASSUME IInv, NEW p \in Refreshers, FetchFails(p)
    PROVE  IInv'
<1>. DEFINE c == calls[p]
<1>1. /\ UNCHANGED <<policy, row, lock, deaths>> /\ said' = None
      /\ memory' \in [Gateways -> Snapshot \union {None}]
      /\ c.at = "calling" /\ c # None /\ c.row # None
      /\ p \in Processes /\ c \in Call /\ CallHolds(c, p, policy, row, lock)
  BY DEF FetchFails, IInv, TypeOK, EveryCallHolds, Processes
<1>2. PICK invalid \in BOOLEAN :
          calls' = [calls EXCEPT ![p].at = "saving", ![p].lag = 0, ![p].row =
              [calls[p].row EXCEPT !.failed = 0, !.invalid = invalid]]
  BY DEF FetchFails
<1>. DEFINE noted == [c.row EXCEPT !.failed = 0, !.invalid = invalid]
            e == [c EXCEPT !.at = "saving", !.lag = 0, !.row = noted]
<1>3. calls' = [calls EXCEPT ![p] = e]
  BY <1>1, <1>2 DEF IInv, TypeOK
<1>4. /\ noted \in Row /\ noted.policy = c.row.policy /\ noted.stored = c.row.stored
      /\ noted.failed = 0
  BY <1>1, LaterOrders DEF Call, Row
<1>5. noted # None /\ noted.failed # None
  BY <1>4, NoneIsNothing
<1>. HIDE DEF noted, c
<1>6. /\ e \in Call /\ e.at = "saving" /\ e.row = noted
      /\ e.began = c.began /\ e.changes = c.changes
  <2>1. 0 \in 0 .. MaxWait
    BY ObservationsAssumption
  <2>. QED
    BY <1>1, <1>4, <2>1 DEF Call
<1>. HIDE DEF e
<1>7. Began(e, policy) /\ Protected(e, p, policy, lock) /\ RowInTime(e)
      /\ FetchedIsNewer(e, p, row, lock)
  BY <1>1, <1>5, <1>6 DEF CallHolds, Began, Protected, RowInTime, FetchedIsNewer
<1>8. LoadedIsStored(e, p, policy, row, lock)
  BY <1>1, <1>4, <1>6 DEF CallHolds, LoadedIsStored
<1>. QED
  BY <1>1, <1>3, <1>6, <1>7, <1>8, GoesOnHolds DEF CallHolds

(* What a gateway has in memory is shown as stale, whatever it was fetched  *)
(* under.                                                                   *)
LEMMA FetchFailsUnstoredHolds ==
    ASSUME IInv, NEW p \in Refreshers, FetchFailsUnstored(p)
    PROVE  IInv'
<1>1. /\ End(p) /\ UNCHANGED <<policy, row, memory, deaths>> /\ p \in Processes
      /\ calls[p] \in Call
  BY DEF FetchFailsUnstored, IInv, TypeOK, Processes
<1>2. CASE SayNothing(p)
  BY <1>1, <1>2, SayNothingHolds, AnsweredHolds
<1>3. CASE /\ p \in Gateways /\ memory[p] # None
           /\ \E passed \in 0 .. calls[p].lag : memory[p].age - passed \in 0 .. MaxStale
           /\ Say(p, "stale", memory[p].age, "memory", memory[p].under)
  <2>1. PICK age \in Ages, under \in Nat : age = memory[p].age /\ under = memory[p].under
    BY <1>3 DEF IInv, TypeOK, Snapshot
  <2>2. PICK lag \in 0 .. MaxWait : lag = calls[p].lag
    BY <1>1 DEF Call
  <2>3. PICK passed \in 0 .. lag : age - passed \in 0 .. MaxStale
    BY <1>3, <2>1, <2>2
  <2>4. age <= MaxStale + MaxWait
    <3>1. age \in Nat /\ MaxStale \in Nat /\ MaxWait \in Nat
      BY LaterOrders, ObservationsAssumption
    <3>. QED
      BY <2>2, <2>3, <3>1
  <2>5. Say(p, "stale", age, "memory", under)
    BY <1>3, <2>1
  <2>6. said' \in Answer \union {None} /\ SaidHolds'
    BY <1>1, <2>4, <2>5, SayHolds
  <2>. QED
    BY <1>1, <2>6, AnsweredHolds
<1>. QED
  BY <1>2, <1>3 DEF FetchFailsUnstored

(* Without consent: no call, and no claim to one.                           *)
LEMMA ReadDirectlyHolds ==
    ASSUME IInv, NEW g \in Gateways, ReadDirectly(g)
    PROVE  IInv'
<1>1. UNCHANGED <<policy, row, lock, calls, deaths>>
  BY DEF ReadDirectly
<1>2. MaxAge \in Nat /\ MaxStale \in Nat /\ MaxWait \in Nat /\ 0 \in Ages /\ MaxAge \in Ages
  BY LaterOrders, ObservationsAssumption
<1>3. CASE /\ memory[g] # None /\ memory' = memory
           /\ \/ /\ memory[g].age <= MaxAge
                 /\ Tell("current", memory[g].age, "memory", memory[g].under, None)
              \/ /\ memory[g].age <= MaxStale
                 /\ Tell("stale", memory[g].age, "memory", memory[g].under, None)
  <2>1. memory' \in [Gateways -> Snapshot \union {None}]
    BY <1>3 DEF IInv, TypeOK
  <2>2. PICK age \in Ages, under \in Nat : age = memory[g].age /\ under = memory[g].under
    BY <1>3 DEF IInv, TypeOK, Snapshot
  <2>3. \/ age <= MaxAge /\ Tell("current", age, "memory", under, None)
        \/ age <= MaxStale /\ Tell("stale", age, "memory", under, None)
    BY <1>3, <2>2
  <2>4. age \in Nat
    BY LaterOrders
  <2>5. said' \in Answer \union {None} /\ SaidHolds'
    <3>1. CASE age <= MaxAge /\ Tell("current", age, "memory", under, None)
      <4>1. age <= MaxAge + MaxWait
        BY <1>2, <2>4, <3>1
      <4>. QED
        BY <3>1, <4>1, TellHolds
    <3>2. CASE age <= MaxStale /\ Tell("stale", age, "memory", under, None)
      <4>1. age <= MaxStale + MaxWait
        BY <1>2, <2>4, <3>2
      <4>. QED
        BY <3>2, <4>1, TellHolds
    <3>. QED
      BY <2>3, <3>1, <3>2
  <2>. QED
    BY <1>1, <2>1, <2>5 DEF IInv, TypeOK, FaultsCounted, EveryCallHolds
<1>4. ASSUME NEW a \in {0, MaxAge}, Tell("current", a, "broker", None, None),
             memory' = [memory EXCEPT ![g] = [age |-> a, under |-> policy.id]]
      PROVE  IInv'
  <2>1. a \in Ages /\ a <= MaxAge + MaxWait
    BY <1>2
  <2>2. [age |-> a, under |-> policy.id] \in Snapshot
    BY <2>1 DEF Snapshot, IInv, TypeOK
  <2>3. memory' \in [Gateways -> Snapshot \union {None}]
    BY <1>4, <2>2 DEF IInv, TypeOK
  <2>4. said' \in Answer \union {None} /\ SaidHolds'
    <3>1. PICK age \in Ages : age = a /\ age <= MaxAge + MaxWait
      BY <2>1
    <3>2. Tell("current", age, "broker", None, None)
      BY <1>4, <3>1
    <3>. QED
      BY <3>1, <3>2, TellHolds
  <2>. QED
    BY <1>1, <2>3, <2>4 DEF IInv, TypeOK, FaultsCounted, EveryCallHolds
<1>5. CASE /\ memory' = memory
           /\ \/ Tell("current", 0, "broker", None, None)
              \/ Tell("none", 0, "nothing", None, None)
  <2>1. memory' \in [Gateways -> Snapshot \union {None}]
    BY <1>5 DEF IInv, TypeOK
  <2>2. 0 <= MaxAge + MaxWait
    BY <1>2
  <2>3. said' \in Answer \union {None} /\ SaidHolds'
    BY <1>2, <1>5, <2>2, TellHolds
  <2>. QED
    BY <1>1, <2>1, <2>3 DEF IInv, TypeOK, FaultsCounted, EveryCallHolds
<1>. QED
  BY <1>3, <1>4, <1>5 DEF ReadDirectly

LEMMA AuthorizeHolds ==
    ASSUME IInv, NEW p \in Refreshers, Authorize(p)
    PROVE  IInv'
<1>. DEFINE c == calls[p]
            e == [c EXCEPT !.at = "writing"]
<1>1. /\ calls' = [calls EXCEPT ![p] = e] /\ said' = None
      /\ UNCHANGED <<policy, row, lock, deaths>>
      /\ c.at = "saving" /\ c # None /\ policy.state = "on"
      /\ memory' \in [Gateways -> Snapshot \union {None}]
  BY DEF Authorize, On, IInv, TypeOK
<1>2. p \in Processes /\ c \in Call /\ CallHolds(c, p, policy, row, lock)
  BY <1>1 DEF IInv, TypeOK, EveryCallHolds, Processes
<1>. HIDE DEF c
<1>3. /\ e \in Call /\ e.at = "writing" /\ e.row = c.row
      /\ e.began = c.began /\ e.changes = c.changes /\ e.lag = c.lag
  BY <1>2 DEF Call
<1>. HIDE DEF e
<1>4. CallHolds(e, p, policy, row, lock)
  BY <1>1, <1>2, <1>3
     DEF CallHolds, Began, Protected, RowInTime, LoadedIsStored, FetchedIsNewer
<1>. QED
  BY <1>1, <1>2, <1>3, <1>4, GoesOnHolds

(* Who writes holds the lock, so what the other calls rest on stays.        *)
LEMMA WritersAreAlone ==
    ASSUME IInv, NEW p \in Processes, calls[p] # None, calls[p].at = "writing",
           NEW q \in Processes, q # p, calls[q] # None,
           NEW r, NEW m, m = None
    PROVE  CallHolds(calls[q], q, policy, r, m)
<1>1. lock = p /\ CallHolds(calls[q], q, policy, row, lock)
  BY DEF IInv, EveryCallHolds, CallHolds, Protected
<1>2. lock # q /\ m # q
  BY <1>1, NoneIsNothing
<1>. QED
  BY <1>1, <1>2 DEF CallHolds, Began, Protected, RowInTime, LoadedIsStored, FetchedIsNewer

LEMMA WriteHolds ==
    ASSUME IInv, NEW p \in Refreshers, Write(p)
    PROVE  IInv'
<1>. DEFINE c == calls[p]
            next == c.row
<1>1. /\ c.at = "writing" /\ c # None /\ UNCHANGED <<policy, memory, deaths>> /\ End(p)
      /\ \/ /\ next.failed = None
            /\ row' = [next EXCEPT !.policy = policy.id]
            /\ Say(p, "current", next.age, "broker", None)
         \/ next.failed # None /\ row' = next /\ SayFailed(p, next)
  BY DEF Write
<1>2. p \in Processes /\ c \in Call /\ CallHolds(c, p, policy, row, lock)
  BY <1>1 DEF IInv, TypeOK, EveryCallHolds, Processes
<1>3. lock = p /\ next # None /\ next \in Row
  BY <1>1, <1>2 DEF CallHolds, Protected, RowInTime, Call
<1>4. calls' = [calls EXCEPT ![p] = None] /\ lock' = None
  BY <1>1, <1>3 DEF End
<1>5. calls' \in [Processes -> Call \union {None}]
  BY <1>4 DEF IInv, TypeOK
<1>6. EveryCallHolds'
  <2>. SUFFICES ASSUME NEW q \in Processes, calls'[q] # None
                PROVE  CallHolds(calls'[q], q, policy', row', lock')
    BY DEF EveryCallHolds
  <2>1. q # p /\ calls'[q] = calls[q]
    BY <1>2, <1>4 DEF IInv, TypeOK
  <2>2. CallHolds(calls[q], q, policy, row', lock')
    BY <1>1, <1>2, <1>4, <2>1, WritersAreAlone
  <2>. QED
    BY <1>1, <2>1, <2>2
<1>7. row' \in Row /\ row'.policy \in 1 .. policy.id /\ said' \in Answer \union {None} /\ SaidHolds'
  <2>0. policy.id \in Nat /\ policy.id >= 1
    BY DEF IInv, TypeOK
  <2>1. CASE next.failed = None
    <3>1. /\ row' = [next EXCEPT !.policy = policy.id]
          /\ Say(p, "current", next.age, "broker", None)
      BY <1>1, <2>1
    <3>2. next.age \in Ages /\ next.age <= MaxAge + c.lag
      BY <1>1, <1>2, <1>3, <2>1 DEF CallHolds, FetchedIsNewer, Row
    <3>3. c.lag \in 0 .. MaxWait
      BY <1>2 DEF Call
    <3>4. next.age <= MaxAge + MaxWait
      <4>. DEFINE age == next.age
                  lag == c.lag
      <4>1. age \in Ages /\ age <= MaxAge + lag /\ lag \in 0 .. MaxWait
        BY <3>2, <3>3
      <4>. HIDE DEF age, lag
      <4>2. age \in Nat /\ MaxAge \in Nat /\ MaxWait \in Nat
        BY <4>1, LaterOrders, ObservationsAssumption
      <4>3. age <= MaxAge + MaxWait
        BY <4>1, <4>2
      <4>. QED
        BY <4>3 DEF age
    <3>5. said' \in Answer \union {None} /\ SaidHolds'
      BY <1>2, <3>1, <3>2, <3>4, SayHolds
    <3>6. row' \in Row /\ row'.policy = policy.id
      BY <1>3, <2>0, <3>1 DEF Row
    <3>. QED
      BY <2>0, <3>5, <3>6
  <2>2. CASE next.failed # None
    <3>1. row' = next /\ SayFailed(p, next)
      BY <1>1, <2>2
    <3>2. next.policy \in c.began .. policy.id /\ c.began \in 1 .. policy.id
      BY <1>2, <1>3, <2>2 DEF CallHolds, LoadedIsStored, Began
    <3>3. said' \in Answer \union {None} /\ SaidHolds'
      BY <1>2, <1>3, <3>1, <3>2, SayFailedHolds
    <3>. QED
      BY <1>3, <2>0, <3>1, <3>2, <3>3
  <2>. QED
    BY <2>1, <2>2
<1>8. TypeOK'
  BY <1>1, <1>4, <1>5, <1>7 DEF IInv, TypeOK
<1>. QED
  BY <1>1, <1>6, <1>7, <1>8 DEF IInv, FaultsCounted

LEMMA BlockedHolds ==
    ASSUME IInv, NEW p \in Refreshers, Blocked(p)
    PROVE  IInv'
<1>1. /\ End(p) /\ UNCHANGED <<policy, row, memory, deaths>> /\ p \in Processes
      /\ calls[p] \in Call /\ SayNothing(p)
  BY DEF Blocked, IInv, TypeOK, Processes
<1>2. said' \in Answer \union {None} /\ SaidHolds'
  BY <1>1, SayNothingHolds
<1>. QED
  BY <1>1, <1>2, AnsweredHolds

LEMMA ComposeHolds ==
    ASSUME IInv, NEW p \in Consumers, Compose(p)
    PROVE  IInv'
<1>1. /\ End(p) /\ UNCHANGED <<policy, row, memory, deaths>> /\ p \in Processes
      /\ calls[p] \in Call /\ CallHolds(calls[p], p, policy, row, lock)
  BY DEF Compose, IInv, TypeOK, EveryCallHolds, Processes
<1>2. /\ Loaded \in Row \union {None}
      /\ Loaded # None => Loaded.policy >= calls[p].began
  BY <1>1, LoadedIsCurrent DEF IInv, TypeOK, CallHolds, Began
<1>3. CASE SayFailed(p, Loaded)
  BY <1>1, <1>2, <1>3, SayFailedHolds, AnsweredHolds
<1>4. CASE /\ Loaded # None /\ Loaded.age - calls[p].lag \in 0 .. MaxAge
           /\ Say(p, "current", Loaded.age, "store", Loaded.policy)
  <2>1. Loaded.age \in Ages /\ Loaded.policy \in Nat
    BY <1>2, <1>4 DEF Row
  <2>2. Loaded.age <= MaxAge + MaxWait
    BY <1>1, <1>4, <2>1, LagIsBounded, ObservationsAssumption
  <2>3. said' \in Answer \union {None} /\ SaidHolds'
    BY <1>1, <1>2, <1>4, <2>1, <2>2, SayHolds
  <2>. QED
    BY <1>1, <2>3, AnsweredHolds
<1>. QED
  BY <1>3, <1>4 DEF Compose

LEMMA DieHolds ==
    ASSUME IInv, NEW p \in Refreshers, Die(p)
    PROVE  IInv'
<1>. USE DEF IInv
<1>1. /\ End(p) /\ UNCHANGED <<policy, row>> /\ p \in Processes /\ said' = None
      /\ deaths' = deaths + 1 /\ policy.changes + deaths < MaxFaults
  BY DEF Die, Processes
<1>2. /\ lock' \in Refreshers \union {None}
      /\ calls' \in [Processes -> Call \union {None}]
      /\ EveryCallHolds'
  BY <1>1, EndHolds
<1>3. policy.changes \in Nat /\ deaths \in Nat /\ MaxFaults \in Nat
  BY ObservationsAssumption DEF TypeOK
<1>4. FaultsCounted' /\ deaths' \in 0 .. MaxFaults
  BY <1>1, <1>3 DEF FaultsCounted
<1>5. memory' \in [Gateways -> Snapshot \union {None}]
  BY DEF Die, TypeOK
<1>6. TypeOK'
  BY <1>1, <1>2, <1>4, <1>5 DEF TypeOK
<1>. QED
  BY <1>1, <1>2, <1>4, <1>6, NothingSaid

--------------------------------------------------------------------------------
LEMMA InitHolds == Init => IInv
<1>. SUFFICES ASSUME Init
              PROVE  IInv
  OBVIOUS
<1>1. TypeOK
  BY ObservationsAssumption DEF Init, TypeOK
<1>2. FaultsCounted /\ EveryCallHolds /\ SaidHolds
  BY ObservationsAssumption
     DEF Init, FaultsCounted, EveryCallHolds, SaidHolds, NotOlderThanSaid, ConsentHolds
<1>. QED
  BY <1>1, <1>2 DEF IInv

LEMMA NextHolds == IInv /\ [Next]_vars => IInv'
<1>. SUFFICES ASSUME IInv, [Next]_vars
              PROVE  IInv'
  OBVIOUS
<1>1. CASE UNCHANGED vars
  BY <1>1 DEF vars, IInv, TypeOK, FaultsCounted, EveryCallHolds, SaidHolds, NotOlderThanSaid,
              ConsentHolds
<1>2. CASE Tick \/ Approve \/ Disable \/ Rebind
  BY <1>2, TickHolds, PolicyHolds
<1>3. CASE Due
  BY <1>3, StartHolds, ObservationsAssumption DEF Due, Processes
<1>4. ASSUME NEW p \in Refreshers, Read(p) \/ Enter(p) \/ Proceed(p)
      PROVE  IInv'
  BY <1>4, StartHolds, EnterHolds, ReuseHolds, AskHolds, BlockedHolds, FetchHolds,
     FetchPartHolds, FetchFailsHolds, FetchFailsUnstoredHolds, AuthorizeHolds, WriteHolds
     DEF Read, Proceed, Processes
<1>5. ASSUME NEW p \in Consumers, View(p) \/ Compose(p)
      PROVE  IInv'
  BY <1>5, StartHolds, ComposeHolds DEF View, Processes
<1>6. ASSUME NEW p \in Refreshers, Die(p)
      PROVE  IInv'
  BY <1>6, DieHolds
<1>7. ASSUME NEW g \in Gateways, ReadDirectly(g)
      PROVE  IInv'
  BY <1>7, ReadDirectlyHolds
<1>. QED
  BY <1>1, <1>2, <1>3, <1>4, <1>5, <1>6, <1>7 DEF Next

(* The inductive invariant.                                                 *)
THEOREM ObservationsInvariant == Spec => []IInv
  BY InitHolds, NextHolds, PTL DEF Spec

(* Every variable stays in its domain, and the stored observation was       *)
(* stored under a policy there has been.                                    *)
THEOREM ObservationsTypes == Spec => []TypeOK
<1>1. IInv => TypeOK
  BY DEF IInv
<1>. QED
  BY <1>1, ObservationsInvariant, PTL

(* What CurrentAccountService and the overlay call current or stale is no   *)
(* older than max_age or max_stale, but for the time the call took.         *)
THEOREM AgesAreHonest == Spec => []NotOlderThanSaid
<1>1. IInv => NotOlderThanSaid
  BY DEF IInv, SaidHolds
<1>. QED
  BY <1>1, ObservationsInvariant, PTL

(* What the owner consented to storing is not shown from the store to a     *)
(* call that began after that policy was disabled or replaced; what         *)
(* outlives it is the memory of the gateway that asked the broker, and that *)
(* is never called current.                                                 *)
THEOREM ConsentEndsAtOnce == Spec => []ConsentHolds
<1>1. IInv => ConsentHolds
  BY DEF IInv, SaidHolds
<1>. QED
  BY <1>1, ObservationsInvariant, PTL

(* What a step may do to the stored observation.                            *)
RowStep ==
    row # None /\ row' # None =>
        /\ row'.stored < row.stored => row'.failed = None
        /\ row'.stored > row.stored =>
               row'.stored = Later(row.stored) /\ lock' = lock /\ said' = None

LEMMA TickKeepsRow ==
    ASSUME IInv, Tick
    PROVE  RowStep
<1>. SUFFICES ASSUME row # None
              PROVE  RowStep
  BY DEF RowStep
<1>1. row' = Aged(row) /\ said' = None /\ lock' = lock /\ row \in Row
  BY DEF Tick, IInv, TypeOK
<1>2. row'.stored = Later(row.stored)
  BY <1>1, AgedRow
<1>3. row.stored \in Ages
  BY <1>1 DEF Row
<1>4. row.stored \in Nat /\ row'.stored \in Nat /\ row.stored <= row'.stored
  BY <1>2, <1>3, LaterOrders
<1>. QED
  BY <1>1, <1>2, <1>4 DEF RowStep

LEMMA WriteKeepsRow ==
    ASSUME IInv, NEW p \in Refreshers, Write(p)
    PROVE  RowStep
<1>. DEFINE c == calls[p]
            next == c.row
<1>. SUFFICES ASSUME row # None
              PROVE  RowStep
  BY DEF RowStep
<1>1. /\ c.at = "writing" /\ c # None
      /\ \/ next.failed = None /\ row' = [next EXCEPT !.policy = policy.id]
         \/ next.failed # None /\ row' = next
  BY DEF Write
<1>2. c \in Call /\ CallHolds(c, p, policy, row, lock)
  BY <1>1 DEF IInv, TypeOK, EveryCallHolds, Processes
<1>3. lock = p /\ next # None /\ next \in Row
  BY <1>1, <1>2 DEF CallHolds, Protected, RowInTime, Call
<1>4. row'.stored = next.stored /\ row'.failed = next.failed
  BY <1>1, <1>3 DEF Row
<1>5. next.stored \in Nat /\ row.stored \in Nat
  BY <1>3, LaterOrders DEF IInv, TypeOK, Row
<1>6. CASE next.failed = None
  <2>1. next.stored <= row.stored
    BY <1>1, <1>2, <1>3, <1>6 DEF CallHolds, FetchedIsNewer
  <2>. QED
    BY <1>4, <1>5, <1>6, <2>1 DEF RowStep
<1>7. CASE next.failed # None
  <2>1. next.stored = row.stored
    BY <1>2, <1>3, <1>7 DEF CallHolds, LoadedIsStored
  <2>. QED
    BY <1>4, <1>5, <2>1 DEF RowStep
<1>. QED
  BY <1>6, <1>7

(* A failed refresh does not touch the time an observation was stored, and  *)
(* no refresh puts an older one in the place of a newer one: whatever two   *)
(* processes do, a newly fetched row replaces the stored one or it ages.    *)
THEOREM FailuresNeverLose == Spec => FailuresLoseNothing
<1>1. IInv /\ [Next]_vars => [RowStep]_row
  <2>. SUFFICES ASSUME IInv, [Next]_vars, row' # row
                PROVE  RowStep
    OBVIOUS
  <2>1. CASE Tick
    BY <2>1, TickKeepsRow
  <2>2. ASSUME NEW p \in Refreshers, Write(p)
        PROVE  RowStep
    BY <2>2, WriteKeepsRow
  <2>. QED
    BY <2>1, <2>2
       DEF Next, vars, Approve, Disable, Rebind, Change, Due, Start, Read, Enter, Proceed,
           ReadDirectly, ReuseFailure, Reuse, Ask, Blocked, Fetch, FetchPart, FetchFails,
           FetchFailsUnstored, Authorize, View, Compose, Die
<1>2. [RowStep]_row =>
          [row # None /\ row' # None =>
               /\ row'.stored < row.stored => row'.failed = None
               /\ row'.stored > row.stored =>
                      row'.stored = Later(row.stored) /\ lock' = lock /\ said' = None]_row
  BY DEF RowStep
<1>. QED
  BY <1>1, <1>2, ObservationsInvariant, PTL DEF Spec, FailuresLoseNothing

(***************************************************************************)
(* PortfolioContents: sums, and folds over parts of 1 .. n.                 *)
(***************************************************************************)
(* A set of numbers that is not empty has a least one.                      *)
LEMMA Least ==
    ASSUME NEW S \in SUBSET Nat, S # {}
    PROVE  \E n \in S : \A m \in S : n <= m
<1>1. IsWellFoundedOn(OpToRel(<, Nat), Nat)
    BY NatLessThanWellFounded
<1>2. PICK n \in S : \A m \in S : ~ (<<m, n>> \in OpToRel(<, Nat))
    BY <1>1, WFMin, Zenon
<1>3. \A m \in S : ~ (m < n)
    BY <1>2 DEF OpToRel
<1> QED
    BY <1>3

Sums(h, n) == {g \in [SUBSET (1 .. n) -> Int] :
    /\ g[{}] = 0
    /\ \A S \in SUBSET (1 .. n) : \A i \in S : g[S] = g[S \ {i}] + h[i]}

(* Every list of effects has a sum over each part of it, whatever is taken  *)
(* first.                                                                   *)
LEMMA SumsExist ==
    ASSUME NEW n \in Nat, NEW h \in [1 .. n -> Int]
    PROVE  Sums(h, n) # {}
<1> DEFINE Bad == {m \in 0 .. n : Sums(h, m) = {}}
<1>1. SUFFICES ASSUME Bad # {} PROVE FALSE
    OBVIOUS
<1>2. PICK m \in Bad : \A k \in Bad : m <= k
    <2>1. Bad \in SUBSET Nat
        OBVIOUS
    <2> HIDE DEF Bad
    <2> QED
        BY <2>1, <1>1, Least
<1>3. m # 0
  <2>1. [S \in SUBSET (1 .. 0) |-> 0] \in Sums(h, 0)
      BY DEF Sums
  <2> QED
      BY <2>1, <1>2
<1>4. PICK g : g \in Sums(h, m - 1)
    BY <1>2, <1>3
<1> DEFINE f == [S \in SUBSET (1 .. m) |-> IF m \in S THEN g[S \ {m}] + h[m] ELSE g[S]]
<1>5. \A S \in SUBSET (1 .. m) : m \notin S => S \in SUBSET (1 .. m - 1)
    BY <1>2
<1>6. f \in Sums(h, m)
  <2>1. f \in [SUBSET (1 .. m) -> Int]
      BY <1>4, <1>5, <1>2, <1>3 DEF Sums
  <2>2. f[{}] = 0
      BY <1>4, <1>5 DEF Sums
  <2>3. \A S \in SUBSET (1 .. m - 1) : \A i \in S : g[S] = g[S \ {i}] + h[i]
    <3> HIDE DEF f
    <3> QED
        BY <1>4 DEF Sums
  <2>4. ASSUME NEW S \in SUBSET (1 .. m), NEW i \in S
        PROVE  f[S] = f[S \ {i}] + h[i]
    <3>1. CASE m \notin S
      <4>1. S \in SUBSET (1 .. m - 1) /\ S \ {i} \in SUBSET (1 .. m)
          BY <3>1, <1>5
      <4>2. f[S] = g[S] /\ f[S \ {i}] = g[S \ {i}]
          BY <3>1, <4>1
      <4> HIDE DEF f
      <4> QED
          BY <4>1, <4>2, <2>3
    <3>2. CASE m \in S /\ i = m
      <4>1. S \ {i} \in SUBSET (1 .. m)
          OBVIOUS
      <4>2. f[S] = g[S \ {m}] + h[m] /\ f[S \ {i}] = g[S \ {i}]
          BY <3>2, <4>1
      <4> QED
          BY <4>2, <3>2
    <3>3. CASE m \in S /\ i # m
      <4>1. /\ S \ {i} \in SUBSET (1 .. m)
            /\ S \ {m} \in SUBSET (1 .. m - 1) /\ (S \ {m}) \ {i} \in SUBSET (1 .. m - 1)
            /\ i \in S \ {m}
          BY <3>3, <1>5
      <4>2. (S \ {i}) \ {m} = (S \ {m}) \ {i}
          OBVIOUS
      <4>3. f[S] = g[S \ {m}] + h[m] /\ f[S \ {i}] = g[(S \ {m}) \ {i}] + h[m]
          BY <3>3, <4>1, <4>2
      <4>4. g[S \ {m}] = g[(S \ {m}) \ {i}] + h[i]
        <5> HIDE DEF f
        <5> QED
            BY <4>1, <2>3
      <4>5. g[(S \ {m}) \ {i}] \in Int /\ h[i] \in Int /\ h[m] \in Int
          BY <4>1, <1>4, <1>2, <1>3 DEF Sums
      <4> QED
          BY <4>3, <4>4, <4>5
    <3> QED
        BY <3>1, <3>2, <3>3
  <2> HIDE DEF f
  <2> QED
      BY <2>1, <2>2, <2>4 DEF Sums
<1> QED
    BY <1>6, <1>2

(* The size of a part of 1 .. n, and of the part without one of its         *)
(* members.                                                                 *)
LEMMA PartSizes ==
    ASSUME NEW n \in Nat, NEW S \in SUBSET (1 .. n)
    PROVE  /\ Cardinality(S) \in 0 .. n
           /\ Cardinality(S) = 0 => S = {}
           /\ \A i \in S : Cardinality(S \ {i}) = Cardinality(S) - 1
<1>1. IsFiniteSet(1 .. n) /\ Cardinality(1 .. n) = n
    BY FS_Interval
<1>2. IsFiniteSet(S) /\ Cardinality(S) <= Cardinality(1 .. n)
    BY <1>1, FS_Subset
<1>3. Cardinality(S) \in Nat
    BY <1>2, FS_CardinalityType
<1>4. Cardinality(S) = 0 => S = {}
    BY <1>2, FS_EmptySet
<1>5. \A i \in S : Cardinality(S \ {i}) = Cardinality(S) - 1
    BY <1>2, FS_RemoveElement
<1> QED
    BY <1>1, <1>2, <1>3, <1>4, <1>5

(* What holds of nothing, and of a part when it holds without one of its    *)
(* members, holds of every part.                                            *)
LEMMA PartByPart ==
    ASSUME NEW n \in Nat, NEW Good, {} \in Good,
           \A S \in SUBSET (1 .. n) : S # {} /\ (\A i \in S : S \ {i} \in Good) => S \in Good
    PROVE  \A S \in SUBSET (1 .. n) : S \in Good
<1> DEFINE Bad == {m \in Nat : \E S \in SUBSET (1 .. n) : Cardinality(S) = m /\ S \notin Good}
<1>1. SUFFICES ASSUME NEW T \in SUBSET (1 .. n), T \notin Good PROVE FALSE
    OBVIOUS
<1>2. Bad # {}
  <2>1. Cardinality(T) \in Nat
      BY PartSizes
  <2> QED
      BY <1>1, <2>1
<1>3. PICK m \in Bad : \A k \in Bad : m <= k
  <2>1. Bad \in SUBSET Nat
      OBVIOUS
  <2> HIDE DEF Bad
  <2> QED
      BY <1>2, <2>1, Least
<1>4. PICK S \in SUBSET (1 .. n) : Cardinality(S) = m /\ S \notin Good
    BY <1>3
<1>0. S # {}
    BY <1>4
<1>5. PICK i \in S : TRUE
    BY <1>0
<1>6. Cardinality(S \ {i}) = m - 1 /\ m - 1 \in Nat
  <2>1. Cardinality(S \ {i}) = Cardinality(S) - 1
      BY <1>5, PartSizes
  <2>2. S \ {i} \in SUBSET (1 .. n)
      OBVIOUS
  <2>3. Cardinality(S \ {i}) \in Nat
    <3> DEFINE Z == S \ {i}
    <3>1. Z \in SUBSET (1 .. n)
        OBVIOUS
    <3> HIDE DEF Z
    <3>2. Cardinality(Z) \in 0 .. n
        BY <3>1, PartSizes, Zenon
    <3> QED
        BY <3>2 DEF Z
  <2> QED
      BY <1>4, <2>1, <2>3
<1>7. ASSUME NEW j \in S PROVE S \ {j} \in Good
  <2>1. Cardinality(S \ {j}) = Cardinality(S) - 1 /\ m \in Nat
      BY PartSizes, <1>3
  <2>2. S \ {j} \in SUBSET (1 .. n)
      OBVIOUS
  <2>3. Cardinality(S \ {j}) = m - 1
      BY <1>4, <2>1
  <2>4. m - 1 \notin Bad
      BY <1>3, <1>6, <2>1
  <2> QED
      BY <1>6, <2>2, <2>3, <2>4
<1> QED
    BY <1>0, <1>4, <1>7

SumOf(events, S) ==
    FoldFunctionOnSet(LAMBDA m, n : m + n, 0, [i \in S |-> events[i].effect], S)

(* The fold of the model is that sum.                                       *)
LEMMA SumIs ==
    ASSUME NEW n \in Nat, NEW h \in [1 .. n -> Int], NEW g \in Sums(h, n),
           NEW events, \A i \in 1 .. n : events[i].effect = h[i],
           NEW S \in SUBSET (1 .. n)
    PROVE  SumOf(events, S) = g[S]
<1> DEFINE F == [i \in S |-> events[i].effect]
           Some(s) == CHOOSE x \in s : TRUE
           Is(f) == f = [s \in SUBSET S |->
                            IF s = {} THEN 0 ELSE F[Some(s)] + f[s \ {Some(s)}]]
           It == CHOOSE f : Is(f)
           r == [s \in SUBSET S |-> g[s]]
<1>1. SumOf(events, S) = It[S]
    BY DEF SumOf, FoldFunctionOnSet, MapThenFoldSet
<1>2. \A s \in SUBSET S : s # {} => Some(s) \in s
    OBVIOUS
<1>3. Is(r)
  <2>1. ASSUME NEW s \in SUBSET S, s # {}
        PROVE  g[s] = F[Some(s)] + r[s \ {Some(s)}]
    <3>1. Some(s) \in s /\ s \ {Some(s)} \in SUBSET S
        BY <2>1, <1>2
    <3> HIDE DEF Some
    <3>2. g[s] = g[s \ {Some(s)}] + h[Some(s)]
        BY <3>1 DEF Sums
    <3>3. g[s \ {Some(s)}] \in Int /\ h[Some(s)] \in Int /\ F[Some(s)] = h[Some(s)]
        BY <3>1 DEF Sums
    <3> QED
        BY <3>1, <3>2, <3>3
  <2>2. g[{}] = 0
      BY DEF Sums
  <2> HIDE DEF F, Some
  <2> QED
      BY <2>1, <2>2
<1>4. Is(It)
    <2> HIDE DEF Is, r
    <2> QED
        BY <1>3
<1> HIDE DEF It
<1> DEFINE Bad == {m \in Nat : \E s \in SUBSET S : Cardinality(s) = m /\ It[s] # g[s]}
<1>5. SUFFICES ASSUME Bad # {} PROVE FALSE
    <2>1. Cardinality(S) \in Nat
        BY PartSizes
    <2> QED
        BY <1>1, <2>1
<1>6. PICK m \in Bad : \A k \in Bad : m <= k
    <2>1. Bad \in SUBSET Nat
        OBVIOUS
    <2> HIDE DEF Bad
    <2> QED
        BY <2>1, <1>5, Least
<1>7. PICK s \in SUBSET S : Cardinality(s) = m /\ It[s] # g[s]
    BY <1>6
<1>8. s # {}
    BY <1>4, <1>7 DEF Sums
<1>9. Some(s) \in s /\ s \ {Some(s)} \in SUBSET S
    BY <1>2, <1>8
<1>10. It[s] = F[Some(s)] + It[s \ {Some(s)}]
    BY <1>4, <1>8
<1> HIDE DEF Some, Is
<1>11. It[s \ {Some(s)}] = g[s \ {Some(s)}]
  <2>1. Cardinality(s \ {Some(s)}) = m - 1 /\ m \in Nat /\ m - 1 \in Nat
    <3>1. m \in Nat /\ s \in SUBSET (1 .. n)
        BY <1>6
    <3>2. /\ Cardinality(s) = 0 => s = {}
          /\ Cardinality(s \ {Some(s)}) = Cardinality(s) - 1
        BY <3>1, <1>9, PartSizes
    <3>3. Cardinality(s) = m
        BY <1>7
    <3>4. m # 0
        BY <3>2, <3>3, <1>8
    <3> HIDE DEF Bad, r, F
    <3>5. m - 1 \in Nat
        BY <3>1, <3>4
    <3>6. Cardinality(s \ {Some(s)}) = m - 1
        BY <3>2, <3>3
    <3> QED
        BY <3>1, <3>5, <3>6
  <2> QED
      BY <1>6, <1>9, <2>1
<1>12. g[s] = g[s \ {Some(s)}] + h[Some(s)]
    BY <1>9 DEF Sums
<1>13. g[s \ {Some(s)}] \in Int /\ h[Some(s)] \in Int /\ F[Some(s)] = h[Some(s)]
    BY <1>9 DEF Sums
<1> QED
    BY <1>7, <1>10, <1>11, <1>12, <1>13

(* A sum of effects does not depend on the order in which they are taken.   *)
LEMMA SumRules ==
    ASSUME NEW n \in Nat, NEW events, \A i \in 1 .. n : events[i].effect \in Int
    PROVE  /\ SumOf(events, {}) = 0
           /\ \A S \in SUBSET (1 .. n) :
                 /\ SumOf(events, S) \in Int
                 /\ \A i \in S : SumOf(events, S) = SumOf(events, S \ {i}) + events[i].effect
<1> DEFINE h == [i \in 1 .. n |-> events[i].effect]
<1>1. h \in [1 .. n -> Int] /\ \A i \in 1 .. n : events[i].effect = h[i]
    OBVIOUS
<1> HIDE DEF h
<1>2. PICK g : g \in Sums(h, n)
    BY <1>1, SumsExist
<1>3. \A S \in SUBSET (1 .. n) : SumOf(events, S) = g[S]
    BY <1>1, <1>2, SumIs
<1>4. {} \in SUBSET (1 .. n)
    OBVIOUS
<1>5. ASSUME NEW S \in SUBSET (1 .. n)
      PROVE  /\ SumOf(events, S) \in Int
             /\ \A i \in S : SumOf(events, S) = SumOf(events, S \ {i}) + events[i].effect
  <2>1. \A i \in S : S \ {i} \in SUBSET (1 .. n) /\ events[i].effect = h[i]
      BY <1>1
  <2> QED
      BY <1>2, <1>3, <2>1 DEF Sums
<1> QED
    BY <1>2, <1>3, <1>4, <1>5 DEF Sums

(* A delta of n transactions.                                               *)
Listed(delta, n) == DOMAIN delta = 1 .. n /\ \A i \in 1 .. n : delta[i] \in Transaction

(* _transaction_sort_key orders transactions, and what is sooner is not     *)
(* preceded by what is later.                                               *)
LEMMA PrecedesOrders ==
    ASSUME NEW t \in Transaction, NEW u \in Transaction, NEW v \in Transaction
    PROVE  /\ ~Precedes(t, t)
           /\ Sooner(t, u) => Precedes(t, u)
           /\ Precedes(t, u) /\ Precedes(u, v) => Precedes(t, v)
<1>1. /\ t.at \in Int /\ u.at \in Int /\ v.at \in Int
      /\ t.precision \in Int /\ u.precision \in Int /\ v.precision \in Int
      /\ t.recorded \in Int /\ u.recorded \in Int /\ v.recorded \in Int
      /\ t.id \in Int /\ u.id \in Int /\ v.id \in Int
    BY DEF Transaction
<1>2. ~Precedes(t, t)
    BY <1>1 DEF Precedes, Sooner
<1>3. ASSUME Precedes(t, u), Precedes(u, v) PROVE Precedes(t, v)
    BY <1>1, <1>3 DEF Precedes, Sooner
<1> QED
    BY <1>2, <1>3 DEF Precedes

(* The latest transaction of a part is one of it, and precedes none.        *)
LEMMA LatestIsLast ==
    ASSUME NEW n \in Nat, NEW delta, Listed(delta, n),
           NEW S \in SUBSET (1 .. n), S # {}
    PROVE  /\ Latest(delta, S) \in S
           /\ \A j \in S : ~Precedes(delta[Latest(delta, S)], delta[j])
<1> DEFINE Unfollowed(T, i) == \A j \in T : ~Precedes(delta[i], delta[j])
           Good == {T \in SUBSET (1 .. n) : T = {} \/ \E i \in T : Unfollowed(T, i)}
<1>1. \A i, j, k \in 1 .. n :
         /\ ~Precedes(delta[i], delta[i])
         /\ Precedes(delta[i], delta[j]) /\ Precedes(delta[j], delta[k])
               => Precedes(delta[i], delta[k])
    BY PrecedesOrders DEF Listed
<1>2. ASSUME NEW T \in SUBSET (1 .. n), T # {}, \A i \in T : T \ {i} \in Good
      PROVE  T \in Good
  <2>1. PICK i \in T : T \ {i} \in Good
      BY <1>2
  <2>2. CASE T \ {i} = {}
    <3>1. Unfollowed(T, i)
        BY <1>1, <2>2
    <3> QED
        BY <3>1
  <2>3. CASE T \ {i} # {}
    <3>1. PICK k \in T \ {i} : Unfollowed(T \ {i}, k)
        BY <2>1, <2>3
    <3>2. CASE ~Precedes(delta[k], delta[i])
      <4>1. Unfollowed(T, k)
          BY <3>1, <3>2
      <4> QED
          BY <4>1
    <3>3. CASE Precedes(delta[k], delta[i])
      <4>1. Unfollowed(T, i)
          BY <1>1, <3>1, <3>3
      <4> QED
          BY <4>1
    <3> QED
        BY <3>2, <3>3
  <2> QED
      BY <2>2, <2>3
<1>3. S \in Good
  <2>1. {} \in Good
      OBVIOUS
  <2> HIDE DEF Good
  <2> QED
      BY <1>2, <2>1, PartByPart
<1>4. \E i \in S : Unfollowed(S, i)
    BY <1>3
<1> QED
    BY <1>4 DEF Latest

(* What the first transactions S make of a base.                            *)
Opening(base) == Result(base, \E a \in Basis : base.cash[a] = Absent)

Folds(f, D, base, delta) ==
    f = [s \in D |-> IF s = {} THEN Opening(base)
                     ELSE Step(f[s \ {Latest(delta, s)}], delta[Latest(delta, s)])]

Folded(base, delta) == CHOOSE f : Folds(f, SUBSET DOMAIN delta, base, delta)

(* What is materialized is what the fold makes of the whole delta.          *)
LEMMA MaterializedIsFolded ==
    ASSUME NEW base, NEW delta
    PROVE  Materialized(base, delta) = Folded(base, delta)[DOMAIN delta]
BY DEF Materialized, MapThenFoldSet, Folded, Folds, Opening

(* The fold is defined over every part of the delta, however the latest is  *)
(* chosen.                                                                  *)
LEMMA FoldExists ==
    ASSUME NEW n \in Nat, NEW delta, Listed(delta, n), NEW base
    PROVE  \E f : Folds(f, SUBSET (1 .. n), base, delta)
<1> DEFINE Small(m) == {s \in SUBSET (1 .. n) : Cardinality(s) <= m}
           Bad == {m \in 0 .. n : ~ \E f : Folds(f, Small(m), base, delta)}
<1>1. Small(n) = SUBSET (1 .. n)
    BY PartSizes
<1>a. SUFFICES ASSUME ~ \E f : Folds(f, Small(n), base, delta) PROVE FALSE
    BY <1>1
<1>2. Bad # {}
  <2>1. n \in 0 .. n
      OBVIOUS
  <2> HIDE DEF Small
  <2> QED
      BY <1>a, <2>1
<1>3. PICK m \in Bad : \A k \in Bad : m <= k
  <2>1. Bad \in SUBSET Nat
      OBVIOUS
  <2> HIDE DEF Bad
  <2> QED
      BY <1>2, <2>1, Least
<1>4. m \in 0 .. n /\ ~ \E f : Folds(f, Small(m), base, delta)
    BY <1>3
<1>5. CASE m = 0
  <2>1. \A s \in Small(0) : s = {}
      BY PartSizes
  <2> DEFINE f == [s \in Small(0) |-> Opening(base)]
  <2>2. Folds(f, Small(0), base, delta)
      BY <2>1 DEF Folds
  <2> QED
      BY <1>4, <1>5, <2>2
<1>6. CASE m # 0
  <2>1. PICK g : Folds(g, Small(m - 1), base, delta)
    <3>1. m - 1 \in 0 .. n /\ ~ (m <= m - 1)
        BY <1>4, <1>6
    <3> HIDE DEF Small
    <3>2. m - 1 \notin Bad
        BY <1>3, <3>1
    <3> QED
        BY <3>1, <3>2
  <2> DEFINE L(s) == Latest(delta, s)
             Value(s) == IF s = {} THEN Opening(base) ELSE Step(g[s \ {L(s)}], delta[L(s)])
             f == [s \in Small(m) |-> Value(s)]
  <2>2. \A s \in Small(m - 1) : g[s] = Value(s)
      BY <2>1 DEF Folds
  <2>3. \A s \in Small(m) : s # {} => s \ {L(s)} \in Small(m - 1)
    <3>1. ASSUME NEW s \in Small(m), s # {}
          PROVE  s \ {L(s)} \in Small(m - 1)
      <4>1. L(s) \in s
          BY <3>1, LatestIsLast
      <4>2. s \in SUBSET (1 .. n) /\ Cardinality(s) <= m
          OBVIOUS
      <4> HIDE DEF L, Small
      <4>3. Cardinality(s \ {L(s)}) = Cardinality(s) - 1 /\ Cardinality(s) \in 0 .. n
          BY <4>1, <4>2, PartSizes
      <4>4. s \ {L(s)} \in SUBSET (1 .. n)
          BY <4>2
      <4>5. Cardinality(s \ {L(s)}) <= m - 1
          BY <4>2, <4>3, <1>4
      <4> QED
          BY <4>4, <4>5 DEF Small
    <3> QED
        BY <3>1
  <2>4. \A s \in Small(m - 1) : s \in Small(m)
    <3>1. ASSUME NEW s \in Small(m - 1) PROVE s \in Small(m)
      <4>1. s \in SUBSET (1 .. n) /\ Cardinality(s) <= m - 1
          OBVIOUS
      <4>2. Cardinality(s) \in 0 .. n
          BY <4>1, PartSizes
      <4> QED
          BY <4>1, <4>2, <1>4
    <3> QED
        BY <3>1
  <2> HIDE DEF Small, L
  <2>5. \A s \in Small(m) : s # {} => f[s \ {L(s)}] = g[s \ {L(s)}]
      BY <2>2, <2>3, <2>4
  <2>6. \A s \in Small(m) :
           Value(s) = IF s = {} THEN Opening(base) ELSE Step(f[s \ {L(s)}], delta[L(s)])
      BY <2>5
  <2>7. f = [s \in Small(m) |->
               IF s = {} THEN Opening(base) ELSE Step(f[s \ {L(s)}], delta[L(s)])]
      <3> HIDE DEF Value
      <3> QED
          BY <2>6
  <2>8. Folds(f, Small(m), base, delta)
      BY <2>7 DEF Folds, L
  <2> QED
      BY <2>8, <1>4
<1> QED
    BY <1>5, <1>6

(* The transactions S are applied in their order.                           *)
LEMMA FoldRules ==
    ASSUME NEW n \in Nat, NEW delta, Listed(delta, n), NEW base
    PROVE  /\ Folded(base, delta)[{}] = Opening(base)
           /\ Materialized(base, delta) = Folded(base, delta)[1 .. n]
<1>1. DOMAIN delta = 1 .. n
    BY DEF Listed
<1>2. Folds(Folded(base, delta), SUBSET (1 .. n), base, delta)
    BY <1>1, FoldExists DEF Folded
<1>3. Materialized(base, delta) = Folded(base, delta)[1 .. n]
    BY <1>1, MaterializedIsFolded
<1> QED
    BY <1>2, <1>3 DEF Folds

(* The latest transaction of a part is applied last.                        *)
LEMMA FoldStep ==
    ASSUME NEW n \in Nat, NEW delta, Listed(delta, n), NEW base,
           NEW S \in SUBSET (1 .. n), S # {}, NEW i, i = Latest(delta, S)
    PROVE  Folded(base, delta)[S] = Step(Folded(base, delta)[S \ {i}], delta[i])
<1>1. DOMAIN delta = 1 .. n
    BY DEF Listed
<1>2. Folds(Folded(base, delta), SUBSET (1 .. n), base, delta)
    BY <1>1, FoldExists DEF Folded
<1> QED
    BY <1>2 DEF Folds

--------------------------------------------------------------------------------
(* One transaction.                                                         *)
Blocks(pos, t) ==
    /\ t.confirmed
    /\ \/ ~t.supported
       \/ t.asset # Absent /\ ((pos # Absent /\ ~pos.known) \/ Quantity(pos) + t.effect < 0)

(* A row after a trade.                                                     *)
Moved(pos, t) == [quantity |-> Quantity(pos) + t.effect, known |-> TRUE, valued |-> Absent]

Books(a, t) == t.confirmed /\ a = t.account /\ t.priced /\ a \in Basis

(* What is not there is no asset, amount, quantity or position.             *)
LEMMA AbsentIsNothing ==
    /\ Absent \notin Assets /\ Absent \notin Int /\ Absent \notin Nat /\ Absent \notin Position
    /\ Begin \in Portfolio
BY FactsAssumption

(* _cash_effect: a transaction moves cash if it has an amount.              *)
LEMMA CashEffectIs ==
    ASSUME NEW t \in Transaction
    PROVE  /\ CashEffect(t) # Absent <=> t.priced
           /\ t.priced => CashEffect(t) = IF t.asset = Absent THEN t.effect ELSE 0 - t.effect
           /\ t.priced => CashEffect(t) \in Int
BY AbsentIsNothing DEF CashEffect, Transaction

(* A trade changes one position, and blocks if its quantity is not          *)
(* confirmed or would go below zero.                                        *)
LEMMA TradedRules ==
    ASSUME NEW p \in Portfolio, NEW t \in Transaction, t.asset \in Assets,
           NEW pos, pos = p.positions[t.account][t.asset],
           NEW q, q = Traded(p, t)
    PROVE  /\ q.blocked \in BOOLEAN
           /\ q.blocked <=> (pos # Absent /\ ~pos.known) \/ Quantity(pos) + t.effect < 0
           /\ ~q.blocked => q.portfolio \in Portfolio
           /\ q.portfolio.cash = p.cash /\ q.portfolio.money = p.money
           /\ \A a \in Accounts, x \in Assets :
                 q.portfolio.positions[a][x] =
                    IF a = t.account /\ x = t.asset THEN Moved(pos, t) ELSE p.positions[a][x]
<1> DEFINE new == Moved(pos, t)
           positions == [p.positions EXCEPT ![t.account] =
                            [p.positions[t.account] EXCEPT ![t.asset] = new]]
<1>1. /\ p.positions \in [Accounts -> [Assets -> Position \union {Absent}]]
      /\ p.cash \in [Accounts -> Int \union {Absent}]
      /\ p.holdings \in [Accounts -> Labels] /\ p.money \in [Accounts -> Labels]
      /\ p = [positions |-> p.positions, cash |-> p.cash, holdings |-> p.holdings,
              money |-> p.money]
    BY DEF Portfolio
<1>2. t.account \in Accounts /\ t.asset \in Assets /\ t.effect \in Int
    BY DEF Transaction
<1>3. Adjusted(p, t) = [p EXCEPT !.positions = positions]
    BY <1>1 DEF Adjusted, Moved
<1>4. \A v : [p EXCEPT !.positions = v] =
         [positions |-> v, cash |-> p.cash, holdings |-> p.holdings, money |-> p.money]
    BY <1>1
<1>5. q.portfolio = [positions |-> positions, cash |-> p.cash, holdings |-> p.holdings,
                     money |-> p.money]
    BY <1>3, <1>4 DEF Traded, Result
<1>6. q.blocked <=> (pos # Absent /\ ~pos.known) \/ Quantity(pos) + t.effect < 0
    BY DEF Traded, Result
<1>7. q.blocked \in BOOLEAN
    BY DEF Traded, Result
<1>8. \A a \in Accounts, x \in Assets :
         positions[a][x] = IF a = t.account /\ x = t.asset THEN new ELSE p.positions[a][x]
    BY <1>1, <1>2
<1>9. ASSUME ~q.blocked PROVE q.portfolio \in Portfolio
  <2>1. Quantity(pos) \in Nat
      BY <1>1, <1>2 DEF Quantity, Position
  <2>2. new \in Position
      BY <2>1, <1>2, <1>6, <1>9 DEF Position, Moved
  <2> HIDE DEF new
  <2>3. positions \in [Accounts -> [Assets -> Position \union {Absent}]]
      BY <1>1, <1>2, <2>2
  <2> QED
      BY <1>1, <1>5, <2>3 DEF Portfolio
<1> HIDE DEF positions
<1>10. q.portfolio.positions = positions /\ q.portfolio.cash = p.cash
       /\ q.portfolio.money = p.money
    BY <1>5
<1> QED
    BY <1>6, <1>7, <1>8, <1>9, <1>10

(* A transaction is booked to the cash of its account, or the cash is no    *)
(* longer complete.                                                         *)
LEMMA PaidRules ==
    ASSUME NEW p \in Portfolio, NEW t \in Transaction, t.confirmed, NEW q, q = Paid(p, t)
    PROVE  /\ q \in Portfolio /\ q.positions = p.positions
           /\ \A a \in Accounts :
                 /\ q.cash[a] =
                       IF Books(a, t) /\ p.cash[a] # Absent THEN p.cash[a] + CashEffect(t)
                       ELSE p.cash[a]
                 /\ q.money[a] =
                       IF a = t.account /\ ~Books(a, t) THEN "partial" ELSE p.money[a]
<1>1. /\ p.positions \in [Accounts -> [Assets -> Position \union {Absent}]]
      /\ p.cash \in [Accounts -> Int \union {Absent}]
      /\ p.holdings \in [Accounts -> Labels] /\ p.money \in [Accounts -> Labels]
      /\ p = [positions |-> p.positions, cash |-> p.cash, holdings |-> p.holdings,
              money |-> p.money]
    BY DEF Portfolio
<1>2. t.account \in Accounts /\ t.priced \in BOOLEAN
    BY DEF Transaction
<1>3. CASE t.priced /\ t.account \in Basis
  <2> DEFINE cash == [p.cash EXCEPT ![t.account] =
                         IF p.cash[t.account] = Absent THEN Absent
                         ELSE p.cash[t.account] + CashEffect(t)]
  <2>1. q = [positions |-> p.positions, cash |-> cash, holdings |-> p.holdings,
             money |-> p.money]
      BY <1>1, <1>3, CashEffectIs DEF Paid, Booked
  <2>2. cash \in [Accounts -> Int \union {Absent}]
      BY <1>1, <1>2, <1>3, CashEffectIs
  <2>3. \A a \in Accounts :
           cash[a] = IF a = t.account /\ p.cash[a] # Absent THEN p.cash[a] + CashEffect(t)
                     ELSE p.cash[a]
      BY <1>1
  <2>4. \A a \in Accounts : Books(a, t) <=> a = t.account
      BY <1>3 DEF Books
  <2> HIDE DEF cash
  <2> QED
      BY <1>1, <2>1, <2>2, <2>3, <2>4 DEF Portfolio
<1>4. CASE ~ (t.priced /\ t.account \in Basis)
  <2> DEFINE money == [p.money EXCEPT ![t.account] = "partial"]
  <2>1. q = [positions |-> p.positions, cash |-> p.cash, holdings |-> p.holdings,
             money |-> money]
      BY <1>1, <1>4, CashEffectIs DEF Paid
  <2>2. money \in [Accounts -> Labels]
      BY <1>1, <1>2 DEF Labels
  <2>3. \A a \in Accounts : money[a] = IF a = t.account THEN "partial" ELSE p.money[a]
      BY <1>1
  <2>4. \A a \in Accounts : ~Books(a, t)
      BY <1>4 DEF Books
  <2> HIDE DEF money
  <2> QED
      BY <1>1, <2>1, <2>2, <2>3, <2>4 DEF Portfolio
<1> QED
    BY <1>3, <1>4

(* One step of the materializer, of a result that may be blocked.           *)
LEMMA StepRules ==
    ASSUME NEW r, r.portfolio \in Portfolio, r.blocked \in BOOLEAN,
           NEW t \in Transaction, NEW q, q = Step(r, t)
    PROVE  /\ q.blocked \in BOOLEAN
           /\ q.blocked <=> r.blocked \/ Blocks(r.portfolio.positions[t.account][t.asset], t)
           /\ ~q.blocked =>
                 /\ q.portfolio \in Portfolio
                 /\ \A a \in Accounts, x \in Assets :
                       q.portfolio.positions[a][x] =
                          IF t.confirmed /\ a = t.account /\ x = t.asset
                          THEN Moved(r.portfolio.positions[a][x], t)
                          ELSE r.portfolio.positions[a][x]
                 /\ \A a \in Accounts :
                       /\ q.portfolio.cash[a] =
                             IF Books(a, t) /\ r.portfolio.cash[a] # Absent
                             THEN r.portfolio.cash[a] + CashEffect(t)
                             ELSE r.portfolio.cash[a]
                       /\ q.portfolio.money[a] =
                             IF t.confirmed /\ a = t.account /\ ~Books(a, t) THEN "partial"
                             ELSE r.portfolio.money[a]
<1> DEFINE p == r.portfolio
           traded == IF t.asset = Absent THEN Result(p, FALSE) ELSE Traded(p, t)
<1>1. CASE ~t.confirmed
    BY <1>1 DEF Step, Blocks, Books
<1>4. CASE t.confirmed /\ ~t.supported
    BY <1>4 DEF Step, Blocks, Result
<1>2. CASE t.confirmed /\ t.supported
  <2>1. q.portfolio = Paid(traded.portfolio, t) /\ q.blocked = (r.blocked \/ traded.blocked)
      BY <1>2 DEF Step, Result
  <2>2. /\ traded.blocked \in BOOLEAN
        /\ traded.blocked <=> Blocks(p.positions[t.account][t.asset], t)
        /\ ~traded.blocked =>
              /\ traded.portfolio \in Portfolio
              /\ traded.portfolio.cash = p.cash /\ traded.portfolio.money = p.money
              /\ \A a \in Accounts, x \in Assets :
                    traded.portfolio.positions[a][x] =
                       IF a = t.account /\ x = t.asset THEN Moved(p.positions[a][x], t)
                       ELSE p.positions[a][x]
    <3>1. CASE t.asset = Absent
        BY <3>1, <1>2, AbsentIsNothing DEF Result, Blocks
    <3>2. CASE t.asset # Absent
      <4>1. t.asset \in Assets /\ traded = Traded(p, t)
          BY <3>2 DEF Transaction
      <4> DEFINE pos == p.positions[t.account][t.asset]
      <4>2. Blocks(pos, t) <=> (pos # Absent /\ ~pos.known) \/ Quantity(pos) + t.effect < 0
          BY <3>2, <1>2 DEF Blocks
      <4> HIDE DEF traded
      <4>3. /\ traded.blocked \in BOOLEAN
            /\ traded.blocked <=> (pos # Absent /\ ~pos.known) \/ Quantity(pos) + t.effect < 0
            /\ ~traded.blocked => traded.portfolio \in Portfolio
            /\ traded.portfolio.cash = p.cash /\ traded.portfolio.money = p.money
            /\ \A a \in Accounts, x \in Assets :
                  traded.portfolio.positions[a][x] =
                     IF a = t.account /\ x = t.asset THEN Moved(pos, t) ELSE p.positions[a][x]
        <5>1. PICK P, q1, pos1 : P = p /\ q1 = traded /\ pos1 = pos
            OBVIOUS
        <5>2. /\ P \in Portfolio /\ pos1 = P.positions[t.account][t.asset]
              /\ q1 = Traded(P, t) /\ t.asset \in Assets
            BY <4>1, <5>1
        <5> HIDE DEF p, pos
        <5>3. /\ q1.blocked \in BOOLEAN
              /\ q1.blocked <=> (pos1 # Absent /\ ~pos1.known) \/ Quantity(pos1) + t.effect < 0
              /\ ~q1.blocked => q1.portfolio \in Portfolio
              /\ q1.portfolio.cash = P.cash /\ q1.portfolio.money = P.money
              /\ \A a \in Accounts, x \in Assets :
                    q1.portfolio.positions[a][x] =
                       IF a = t.account /\ x = t.asset THEN Moved(pos1, t)
                       ELSE P.positions[a][x]
            BY <5>2, TradedRules
        <5> QED
            BY <5>1, <5>3
      <4> QED
          BY <4>2, <4>3
    <3> QED
        BY <3>1, <3>2
  <2> HIDE DEF traded
  <2>3. CASE q.blocked
      BY <2>1, <2>2, <2>3
  <2>4. CASE ~q.blocked
    <3>1. ~traded.blocked /\ ~r.blocked
        BY <2>1, <2>2, <2>4
    <3>2. /\ q.portfolio \in Portfolio /\ q.portfolio.positions = traded.portfolio.positions
          /\ \A a \in Accounts :
                /\ q.portfolio.cash[a] =
                      IF Books(a, t) /\ p.cash[a] # Absent THEN p.cash[a] + CashEffect(t)
                      ELSE p.cash[a]
                /\ q.portfolio.money[a] =
                      IF a = t.account /\ ~Books(a, t) THEN "partial" ELSE p.money[a]
        BY <1>2, <2>1, <2>2, <3>1, PaidRules
    <3> QED
        BY <1>2, <2>1, <2>2, <3>1, <3>2
  <2> QED
      BY <2>3, <2>4
<1>3. t.confirmed \in BOOLEAN /\ t.supported \in BOOLEAN
    BY DEF Transaction
<1> QED
    BY <1>1, <1>2, <1>3, <1>4

--------------------------------------------------------------------------------
(* The invariant.                                                           *)

(* What happens in the accounts, in its order.                              *)
EventRow == [account: Accounts, asset: Assets \union {Absent}, effect: {-1, 1}, at: Nat]
RowKind == [precision: {0, 1}, priced: BOOLEAN, confirmed: BOOLEAN, supported: BOOLEAN]
JournalRow == [event: Nat, at: Nat, id: Nat, kind: RowKind]

Happened ==
    /\ happened \in Seq(EventRow) /\ updates \in 0 .. MaxUpdates
    /\ \A i \in DOMAIN happened : happened[i].at \in 1 .. Now
    /\ \A i, j \in DOMAIN happened : i < j => happened[i].at < happened[j].at

(* A row is recorded after its event, once, and the rows are in the order   *)
(* of their times.                                                          *)
Journalled ==
    /\ journal \in Seq(JournalRow)
    /\ \A k \in DOMAIN journal :
           /\ journal[k].event \in DOMAIN happened
           /\ happened[journal[k].event].at <= journal[k].at /\ journal[k].at <= Now
    /\ \A k, l \in DOMAIN journal :
           k < l => journal[k].at <= journal[l].at /\ journal[k].event # journal[l].event

(* Events that are accounted for by an observation or by the rows R.        *)
CountedBy(a, since, R) ==
    {i \in Payments(a) : happened[i].at <= since \/ \E k \in R :
        journal[k].event = i /\ journal[k].kind.confirmed}

TradedBy(a, x, since, R) == Total(CountedBy(a, since, R) \intersect Moves(a, x))
PaidBy(a, since, R) == Total(CountedBy(a, since, R) \ Bought(a))
                       - Total(CountedBy(a, since, R) \intersect Bought(a))

(* A row, and an account's cash, when the position was last observed at     *)
(* time since, or was not.                                                  *)
PositionHolds(a, x, pos, R, since) ==
    /\ pos # Absent /\ pos.valued # Absent => pos.valued = pos.quantity
    /\ since # Absent =>
          /\ pos # Absent => pos.known
          /\ Quantity(pos) = HeldAtFirst[a][x] + TradedBy(a, x, since, R)

CashHolds(a, cash, R, since) == Amount(cash) = MoneyAtFirst[a] + PaidBy(a, since, R)

(* When positions, and cash, were last observed, until a time.              *)
Tables(S, P, t) ==
    /\ S \in [Accounts -> [Assets -> (0 .. t) \union {Absent}]]
    /\ P \in [Accounts -> (0 .. t) \union {Absent}]

(* A portfolio that is true through the rows R, by those times.             *)
PortfolioHolds(p, R, S, P) ==
    /\ p \in Portfolio
    /\ \A a \in Accounts :
          /\ \A x \in Assets : PositionHolds(a, x, p.positions[a][x], R, S[a][x])
          /\ p.money[a] = "complete" /\ P[a] # Absent => CashHolds(a, p.cash[a], R, P[a])

RecordedUntil(n, t) == \A k \in 1 .. n : journal[k].at <= t

CheckpointHolds ==
    /\ checkpoint \in [base: Portfolio, at: 0 .. Now, through: 0 .. Len(journal)]
    /\ PortfolioHolds(checkpoint.base, 1 .. checkpoint.through, seen, paid)
    /\ RecordedUntil(checkpoint.through, checkpoint.at)
    /\ Tables(seen, paid, checkpoint.at)

--------------------------------------------------------------------------------
(* The transaction of a row.                                                *)
TransactionOf(k) ==
    LET rec == journal[k]
        event == happened[rec.event]
    IN  [account |-> event.account, asset |-> event.asset, effect |-> event.effect,
         at |-> Effective(rec), precision |-> rec.kind.precision,
         recorded |-> rec.at, id |-> rec.id, priced |-> rec.kind.priced,
         confirmed |-> rec.kind.confirmed, supported |-> rec.kind.supported]

(* The types of what happened.                                              *)
LEMMA EventTypes ==
    ASSUME Happened
    PROVE  /\ Len(happened) \in Nat /\ DOMAIN happened = 1 .. Len(happened)
           /\ Now \in Nat /\ Len(happened) <= Now
           /\ \A i \in DOMAIN happened :
                 /\ happened[i] \in EventRow /\ happened[i].effect \in Int
                 /\ happened[i].at \in Nat /\ happened[i].at <= Now
<1>1. happened \in Seq(EventRow) /\ updates \in Nat
    BY ContentsAssumption DEF Happened
<1>2. Len(happened) \in Nat /\ DOMAIN happened = 1 .. Len(happened)
    BY <1>1
<1>3. \A i \in DOMAIN happened : happened[i] \in EventRow
    BY <1>1, <1>2
<1>4. \A i \in DOMAIN happened : happened[i].effect \in Int /\ happened[i].at \in Nat
    BY <1>3 DEF EventRow
<1> QED
    BY <1>1, <1>2, <1>3, <1>4 DEF Happened, Now

(* A day begins with it, or before.                                         *)
LEMMA DayBegins ==
    ASSUME NEW t \in Nat \ {0}
    PROVE  DayOf(t) \in Nat /\ DayOf(t) <= t
<1> DEFINE d == (t - 1) \div Day
           r == (t - 1) % Day
<1>1. t - 1 \in Nat /\ Day \in Nat \ {0}
    BY ContentsAssumption
<1>2. d \in Nat /\ r \in Nat /\ t - 1 = Day * d + r
    BY <1>1
<1> HIDE DEF d, r
<1>3. Day * d \in Nat
    BY <1>1, <1>2
<1>4. DayOf(t) = t - r
    BY DEF DayOf, r
<1> QED
    BY <1>2, <1>3, <1>4

(* The types of a transaction, and where its parts come from: it is         *)
(* effective when its event happened, or on that day.                       *)
LEMMA TransactionTypes ==
    ASSUME Happened, Journalled, NEW k \in DOMAIN journal
    PROVE  /\ TransactionOf(k) \in Transaction
           /\ TransactionOf(k).confirmed = journal[k].kind.confirmed
           /\ TransactionOf(k).account = happened[journal[k].event].account
           /\ TransactionOf(k).asset = happened[journal[k].event].asset
           /\ TransactionOf(k).effect = happened[journal[k].event].effect
           /\ TransactionOf(k).at <= happened[journal[k].event].at
           /\ TransactionOf(k).at \in 0 .. Now
<1>1. journal \in Seq(JournalRow) /\ journal[k].event \in DOMAIN happened
    BY DEF Journalled
<1>2. journal[k] \in JournalRow
    BY <1>1
<1>3. /\ happened[journal[k].event] \in EventRow
      /\ happened[journal[k].event].at \in 1 .. Now /\ Now \in Nat
    BY <1>1, EventTypes DEF Happened
<1> DEFINE e == happened[journal[k].event]
           at == Effective(journal[k])
<1>4. e \in EventRow /\ e.at \in 1 .. Now
    BY <1>3
<1>5. TransactionOf(k) =
         [account |-> e.account, asset |-> e.asset, effect |-> e.effect,
          at |-> at, precision |-> journal[k].kind.precision,
          recorded |-> journal[k].at, id |-> journal[k].id, priced |-> journal[k].kind.priced,
          confirmed |-> journal[k].kind.confirmed, supported |-> journal[k].kind.supported]
    BY DEF TransactionOf
<1>6. at = e.at \/ at = DayOf(e.at)
    BY DEF Effective
<1> HIDE DEF e, at
<1>7. DayOf(e.at) \in Nat /\ DayOf(e.at) <= e.at
    BY <1>3, <1>4, DayBegins
<1>8. at \in Nat /\ at <= e.at /\ at <= Now
    BY <1>3, <1>4, <1>6, <1>7
<1>9. /\ journal[k].kind \in RowKind /\ journal[k].at \in Nat /\ journal[k].id \in Nat
      /\ e.account \in Accounts /\ e.asset \in Assets \union {Absent} /\ e.effect \in {-1, 1}
    BY <1>2, <1>4 DEF JournalRow, EventRow
<1>10. TransactionOf(k) \in Transaction
    BY <1>5, <1>8, <1>9 DEF RowKind, Transaction
<1> QED
    BY <1>3, <1>5, <1>8, <1>10 DEF e

(* What a set of events moves.                                              *)
LEMMA TotalRules ==
    ASSUME Happened
    PROVE  /\ Total({}) = 0
           /\ \A S \in SUBSET DOMAIN happened :
                 /\ Total(S) \in Int
                 /\ \A i \in S : Total(S) = Total(S \ {i}) + happened[i].effect
<1>1. \A S : Total(S) = SumOf(happened, S)
    BY DEF Total, SumOf
<1>2. /\ Len(happened) \in Nat /\ DOMAIN happened = 1 .. Len(happened)
      /\ \A i \in 1 .. Len(happened) : happened[i].effect \in Int
    BY EventTypes
<1> QED
    BY <1>1, <1>2, SumRules

(* One event more moves its effect more.                                    *)
LEMMA TotalOneMore ==
    ASSUME Happened, NEW S \in SUBSET DOMAIN happened, NEW i \in DOMAIN happened, i \notin S
    PROVE  Total(S \union {i}) = Total(S) + happened[i].effect
<1>1. S \union {i} \in SUBSET DOMAIN happened /\ (S \union {i}) \ {i} = S
    OBVIOUS
<1> QED
    BY <1>1, TotalRules

(* A row that is not one of R, of an event later than a time.               *)
NewRow(k, R, since) ==
    /\ R \in SUBSET DOMAIN journal /\ k \in DOMAIN journal /\ k \notin R
    /\ happened[journal[k].event].at > since

(* A row of a later event counts that event, and once.                      *)
LEMMA CountOneMore ==
    ASSUME Happened, Journalled, NEW a \in Accounts, NEW since \in Int,
           NEW R, NEW k, NewRow(k, R, since), NEW e, e = journal[k].event,
           NEW t, t = TransactionOf(k)
    PROVE  IF t.confirmed /\ a = t.account
           THEN /\ CountedBy(a, since, R \union {k}) = CountedBy(a, since, R) \union {e}
                /\ e \notin CountedBy(a, since, R)
           ELSE CountedBy(a, since, R \union {k}) = CountedBy(a, since, R)
<1>0. R \in SUBSET DOMAIN journal /\ k \in DOMAIN journal /\ k \notin R
    BY DEF NewRow
<1>1. t.confirmed = journal[k].kind.confirmed /\ t.account = happened[e].account
    BY <1>0, TransactionTypes
<1>2. e \in DOMAIN happened
    BY <1>0 DEF Journalled
<1>3. \A l \in R : journal[l].event # e
  <2>1. \A l, m \in DOMAIN journal : l # m => journal[l].event # journal[m].event
    <3>1. DOMAIN journal = 1 .. Len(journal) /\ Len(journal) \in Nat
        BY DEF Journalled
    <3>2. \A l, m \in DOMAIN journal : l # m => l < m \/ m < l
        BY <3>1
    <3> QED
        BY <3>2 DEF Journalled
  <2> QED
      BY <1>0, <2>1
<1>4. e \in Payments(a) <=> a = happened[e].account
    BY <1>2 DEF Payments
<1>5. ~ (happened[e].at <= since)
  <2>1. happened[e].at \in Int
      BY <1>2, EventTypes
  <2> QED
      BY <2>1 DEF NewRow
<1> QED
    BY <1>1, <1>3, <1>4, <1>5 DEF CountedBy

(* Whatever is counted is among what happened.                              *)
LEMMA CountedAreEvents ==
    ASSUME NEW a, NEW x, NEW since, NEW R
    PROVE  /\ CountedBy(a, since, R) \in SUBSET DOMAIN happened
           /\ CountedBy(a, since, R) \ Bought(a) \in SUBSET DOMAIN happened
           /\ CountedBy(a, since, R) \intersect Bought(a) \in SUBSET DOMAIN happened
           /\ CountedBy(a, since, R) \intersect Moves(a, x) \in SUBSET DOMAIN happened
BY DEF CountedBy, Payments

(* A row of a later event counts its trade, and once.                       *)
LEMMA TradeOneMore ==
    ASSUME Happened, Journalled, NEW a \in Accounts, NEW x \in Assets, NEW since \in Int,
           NEW R, NEW k, NewRow(k, R, since), NEW t, t = TransactionOf(k)
    PROVE  /\ TradedBy(a, x, since, R) \in Int
           /\ TradedBy(a, x, since, R \union {k}) =
                 IF t.confirmed /\ a = t.account /\ x = t.asset
                 THEN TradedBy(a, x, since, R) + t.effect ELSE TradedBy(a, x, since, R)
<1> DEFINE e == journal[k].event
           C == CountedBy(a, since, R)
           D == CountedBy(a, since, R \union {k})
<1>0. k \in DOMAIN journal
    BY DEF NewRow
<1>1. /\ t.account = happened[e].account /\ t.asset = happened[e].asset
      /\ t.effect = happened[e].effect
    BY <1>0, TransactionTypes
<1>2. e \in DOMAIN happened
    BY <1>0 DEF Journalled
<1>3. IF t.confirmed /\ a = t.account THEN D = C \union {e} /\ e \notin C ELSE D = C
  <2>1. PICK f, before, after : f = e /\ before = C /\ after = D
      OBVIOUS
  <2>2. /\ f = journal[k].event /\ before = CountedBy(a, since, R)
        /\ after = CountedBy(a, since, R \union {k})
      BY <2>1
  <2> HIDE DEF e, C, D
  <2>3. IF t.confirmed /\ a = t.account
        THEN after = before \union {f} /\ f \notin before ELSE after = before
      BY <2>2, CountOneMore
  <2> QED
      BY <2>1, <2>3
<1>4. e \in Moves(a, x) <=> a = t.account /\ x = t.asset
    BY <1>1, <1>2 DEF Moves, Payments
<1>5. C \intersect Moves(a, x) \in SUBSET DOMAIN happened
    BY CountedAreEvents
<1> HIDE DEF C, D, e
<1>6. CASE t.confirmed /\ a = t.account /\ x = t.asset
  <2>1. D \intersect Moves(a, x) = (C \intersect Moves(a, x)) \union {e}
      BY <1>3, <1>4, <1>6
  <2>2. Total(D \intersect Moves(a, x)) = Total(C \intersect Moves(a, x)) + happened[e].effect
      BY <1>2, <1>3, <1>5, <1>6, <2>1, TotalOneMore
  <2> QED
      BY <1>1, <1>5, <1>6, <2>2, TotalRules DEF TradedBy, C, D
<1>7. CASE ~ (t.confirmed /\ a = t.account /\ x = t.asset)
  <2>1. D \intersect Moves(a, x) = C \intersect Moves(a, x)
      BY <1>3, <1>4, <1>7
  <2> QED
      BY <1>5, <1>7, <2>1, TotalRules DEF TradedBy, C, D
<1> QED
    BY <1>6, <1>7

(* What a transaction pays into its account, or out of it.                  *)
Flow(t) == IF t.asset = Absent THEN t.effect ELSE 0 - t.effect

(* A row of a later event counts its payment, and once.                     *)
LEMMA PaymentOneMore ==
    ASSUME Happened, Journalled, NEW a \in Accounts, NEW since \in Int,
           NEW R, NEW k, NewRow(k, R, since), NEW t, t = TransactionOf(k)
    PROVE  /\ PaidBy(a, since, R) \in Int
           /\ PaidBy(a, since, R \union {k}) =
                 IF t.confirmed /\ a = t.account
                 THEN PaidBy(a, since, R) + Flow(t) ELSE PaidBy(a, since, R)
<1> DEFINE e == journal[k].event
           C == CountedBy(a, since, R)
           D == CountedBy(a, since, R \union {k})
<1>0. k \in DOMAIN journal
    BY DEF NewRow
<1>1. /\ t.account = happened[e].account /\ t.asset = happened[e].asset
      /\ t.effect = happened[e].effect
    BY <1>0, TransactionTypes
<1>2. e \in DOMAIN happened /\ happened[e].effect \in Int
    BY <1>0, EventTypes DEF Journalled
<1>3. IF t.confirmed /\ a = t.account THEN D = C \union {e} /\ e \notin C ELSE D = C
  <2>1. PICK f, before, after : f = e /\ before = C /\ after = D
      OBVIOUS
  <2>2. /\ f = journal[k].event /\ before = CountedBy(a, since, R)
        /\ after = CountedBy(a, since, R \union {k})
      BY <2>1
  <2> HIDE DEF e, C, D
  <2>3. IF t.confirmed /\ a = t.account
        THEN after = before \union {f} /\ f \notin before ELSE after = before
      BY <2>2, CountOneMore
  <2> QED
      BY <2>1, <2>3
<1>4. a = t.account => (e \in Bought(a) <=> t.asset # Absent)
    BY <1>1, <1>2 DEF Bought, Payments
<1>5. /\ C \ Bought(a) \in SUBSET DOMAIN happened
      /\ C \intersect Bought(a) \in SUBSET DOMAIN happened
    BY CountedAreEvents
<1>6. Total(C \ Bought(a)) \in Int /\ Total(C \intersect Bought(a)) \in Int
    BY <1>5, TotalRules
<1>p. /\ PaidBy(a, since, R) = Total(C \ Bought(a)) - Total(C \intersect Bought(a))
      /\ PaidBy(a, since, R \union {k}) = Total(D \ Bought(a)) - Total(D \intersect Bought(a))
    BY DEF PaidBy
<1>q. PaidBy(a, since, R) \in Int
    BY <1>6, <1>p
<1> HIDE DEF C, D, e
<1>7. CASE t.confirmed /\ a = t.account /\ t.asset = Absent
  <2>1. D \ Bought(a) = (C \ Bought(a)) \union {e} /\ D \intersect Bought(a) = C \intersect Bought(a)
      BY <1>3, <1>4, <1>7
  <2>2. Total(D \ Bought(a)) = Total(C \ Bought(a)) + happened[e].effect
      BY <1>2, <1>3, <1>5, <1>7, <2>1, TotalOneMore
  <2>3. Flow(t) = happened[e].effect
      BY <1>1, <1>7 DEF Flow
  <2>5. Total(D \intersect Bought(a)) = Total(C \intersect Bought(a))
      BY <2>1, Zenon
  <2>4. PaidBy(a, since, R \union {k}) = PaidBy(a, since, R) + Flow(t)
      BY <1>2, <1>6, <1>p, <2>5, <2>2, <2>3
  <2> QED
      BY <1>7, <1>q, <2>4
<1>8. CASE t.confirmed /\ a = t.account /\ t.asset # Absent
  <2>1. /\ D \ Bought(a) = C \ Bought(a)
        /\ D \intersect Bought(a) = (C \intersect Bought(a)) \union {e}
      BY <1>3, <1>4, <1>8
  <2>2. Total(D \intersect Bought(a)) = Total(C \intersect Bought(a)) + happened[e].effect
      BY <1>2, <1>3, <1>5, <1>8, <2>1, TotalOneMore
  <2>3. Flow(t) = 0 - happened[e].effect
      BY <1>1, <1>8 DEF Flow
  <2>5. Total(D \ Bought(a)) = Total(C \ Bought(a))
      BY <2>1, Zenon
  <2>4. PaidBy(a, since, R \union {k}) = PaidBy(a, since, R) + Flow(t)
      BY <1>2, <1>6, <1>p, <2>5, <2>2, <2>3
  <2> QED
      BY <1>8, <1>q, <2>4
<1>9. CASE ~ (t.confirmed /\ a = t.account)
    BY <1>3, <1>9, <1>p, <1>q
<1> QED
    BY <1>7, <1>8, <1>9

(* A position that a trade did not block.                                   *)
LEMMA MovedRules ==
    ASSUME NEW pos \in Position \union {Absent}, NEW t \in Transaction, t.confirmed,
           t.asset # Absent, ~Blocks(pos, t)
    PROVE  /\ Moved(pos, t) \in Position /\ Moved(pos, t) # Absent
           /\ Moved(pos, t).known /\ Moved(pos, t).valued = Absent
           /\ Quantity(Moved(pos, t)) = Quantity(pos) + t.effect
           /\ pos # Absent => pos.known
<1>1. Quantity(pos) + t.effect >= 0 /\ (pos # Absent => pos.known)
  <2>1. Quantity(pos) \in Nat /\ t.effect \in Int
      BY DEF Quantity, Position, Transaction
  <2>2. ~ (Quantity(pos) + t.effect < 0) /\ ~ (pos # Absent /\ ~pos.known)
      BY DEF Blocks
  <2> QED
      BY <2>1, <2>2
<1>2. Quantity(pos) + t.effect \in Nat
  <2>1. Quantity(pos) \in Nat /\ t.effect \in Int
      BY DEF Quantity, Position, Transaction
  <2> QED
      BY <1>1, <2>1
<1> DEFINE n == Quantity(pos) + t.effect
<1>3. Moved(pos, t) = [quantity |-> n, known |-> TRUE, valued |-> Absent]
    BY DEF Moved
<1> HIDE DEF n
<1>4. n \in Nat
    BY <1>2 DEF n
<1>5. Moved(pos, t) \in Position
    BY <1>3, <1>4 DEF Position
<1>6. Moved(pos, t) # Absent
    BY <1>5, AbsentIsNothing
<1>7. Quantity(Moved(pos, t)) = n
    BY <1>3, <1>6 DEF Quantity
<1> QED
    BY <1>1, <1>3, <1>5, <1>6, <1>7 DEF n

BasisHolds(p) == \A a \in Basis : p.cash[a] # Absent

(* A result that is blocked stays blocked.                                  *)
LEMMA StaysBlocked ==
    ASSUME NEW r, r.blocked = TRUE, NEW t
    PROVE  Step(r, t).blocked = TRUE
BY DEF Step, Result

(* A result that is true through the rows R, or blocked.                    *)
HoldsThrough(r, R) ==
    /\ r.blocked \in BOOLEAN
    /\ ~r.blocked => PortfolioHolds(r.portfolio, R, seen, paid) /\ BasisHolds(r.portfolio)

(* A transaction after every observation keeps a portfolio true.            *)
LEMMA StepHolds ==
    ASSUME Happened, Journalled, CheckpointHolds,
           NEW R \in SUBSET DOMAIN journal, NEW k \in DOMAIN journal, k \notin R,
           TransactionOf(k).at > checkpoint.at,
           NEW r, HoldsThrough(r, R)
    PROVE  HoldsThrough(Step(r, TransactionOf(k)), R \union {k})
<1> DEFINE t == TransactionOf(k)
           q == Step(r, t)
           p == r.portfolio
           p2 == q.portfolio
<1>a. t = TransactionOf(k) /\ t.at > checkpoint.at /\ q = Step(r, t)
    OBVIOUS
<1> HIDE DEF t, q
<1>b. CASE r.blocked
  <2>1. r.blocked = TRUE
      BY <1>b DEF HoldsThrough
  <2>2. q.blocked = TRUE
      BY <1>a, <2>1, StaysBlocked
  <2> QED
      BY <2>2 DEF HoldsThrough, q, t
<1>c. ASSUME ~r.blocked
      PROVE  PortfolioHolds(p, R, seen, paid) /\ BasisHolds(p) /\ r.blocked \in BOOLEAN
    BY <1>c DEF HoldsThrough
<1>d. ASSUME ~r.blocked
      PROVE  q.blocked \in BOOLEAN /\ p \in Portfolio /\ t \in Transaction
    <2>1. p \in Portfolio /\ t \in Transaction
        BY <1>a, <1>c, <1>d, TransactionTypes DEF PortfolioHolds
    <2> QED
        BY <1>a, <1>c, <1>d, <2>1, StepRules
<1>e. SUFFICES ASSUME ~r.blocked, ~q.blocked
               PROVE  PortfolioHolds(p2, R \union {k}, seen, paid) /\ BasisHolds(p2)
    BY <1>b, <1>d DEF HoldsThrough, q, t
<1>1. p \in Portfolio /\ t \in Transaction
    BY <1>d, <1>e
<1>2. /\ ~Blocks(p.positions[t.account][t.asset], t)
      /\ p2 \in Portfolio
      /\ \A a \in Accounts, x \in Assets :
            p2.positions[a][x] =
               IF t.confirmed /\ a = t.account /\ x = t.asset
               THEN Moved(p.positions[a][x], t) ELSE p.positions[a][x]
      /\ \A a \in Accounts :
            /\ p2.cash[a] = IF Books(a, t) /\ p.cash[a] # Absent
                            THEN p.cash[a] + CashEffect(t) ELSE p.cash[a]
            /\ p2.money[a] = IF t.confirmed /\ a = t.account /\ ~Books(a, t) THEN "partial"
                             ELSE p.money[a]
    BY <1>1, <1>a, <1>c, <1>e, StepRules
<1>3. \A a \in Accounts, x \in Assets : p.positions[a][x] \in Position \union {Absent}
    BY <1>1 DEF Portfolio
<1>4. /\ \A a \in Accounts, x \in Assets : PositionHolds(a, x, p.positions[a][x], R, seen[a][x])
      /\ \A a \in Accounts :
            p.money[a] = "complete" /\ paid[a] # Absent => CashHolds(a, p.cash[a], R, paid[a])
    BY <1>c, <1>e DEF PortfolioHolds
<1>5. /\ checkpoint.at \in Nat
      /\ \A a \in Accounts, x \in Assets :
            seen[a][x] # Absent => seen[a][x] \in Int /\ seen[a][x] <= checkpoint.at
      /\ \A a \in Accounts :
            paid[a] # Absent => paid[a] \in Int /\ paid[a] <= checkpoint.at
    BY DEF CheckpointHolds, Tables
<1>6. /\ happened[journal[k].event].at \in Nat
      /\ happened[journal[k].event].at > checkpoint.at
  <2>1. /\ t.at \in 0 .. Now /\ t.at <= happened[journal[k].event].at /\ Now \in Nat
        /\ happened[journal[k].event].at \in Nat
      BY <1>a, TransactionTypes, EventTypes DEF Journalled
  <2> QED
      BY <1>a, <1>5, <2>1
<1>7. \A a \in Accounts : p.cash[a] \in Int \union {Absent}
    BY <1>1 DEF Portfolio
<1>8. BasisHolds(p)
    BY <1>c, <1>e
<1> HIDE DEF p, p2
<1>9. ASSUME NEW a \in Accounts, NEW x \in Assets
      PROVE  PositionHolds(a, x, p2.positions[a][x], R \union {k}, seen[a][x])
  <2> DEFINE pos == p.positions[a][x]
             new == p2.positions[a][x]
  <2>1. PositionHolds(a, x, pos, R, seen[a][x]) /\ pos \in Position \union {Absent}
      BY <1>3, <1>4
  <2>2. seen[a][x] # Absent => seen[a][x] \in Int /\ NewRow(k, R, seen[a][x])
      BY <1>5, <1>6 DEF NewRow
  <2>3. CASE t.confirmed /\ a = t.account /\ x = t.asset
    <3>1. new = Moved(pos, t) /\ ~Blocks(pos, t)
        BY <1>2, <2>3
    <3> HIDE DEF pos, new
    <3>2. t.asset # Absent
        BY <2>3, AbsentIsNothing
    <3>3. /\ new # Absent /\ new.known /\ new.valued = Absent
          /\ Quantity(new) = Quantity(pos) + t.effect
        BY <1>1, <2>1, <2>3, <3>1, <3>2, MovedRules
    <3>4. ASSUME seen[a][x] # Absent
          PROVE  Quantity(new) = HeldAtFirst[a][x] + TradedBy(a, x, seen[a][x], R \union {k})
      <4>1. /\ TradedBy(a, x, seen[a][x], R) \in Int
            /\ TradedBy(a, x, seen[a][x], R \union {k})
                  = TradedBy(a, x, seen[a][x], R) + t.effect
        <5>1. /\ TradedBy(a, x, seen[a][x], R) \in Int
              /\ TradedBy(a, x, seen[a][x], R \union {k}) =
                    IF t.confirmed /\ a = t.account /\ x = t.asset
                    THEN TradedBy(a, x, seen[a][x], R) + t.effect
                    ELSE TradedBy(a, x, seen[a][x], R)
          <6>1. PICK since : since = seen[a][x] /\ since \in Int /\ NewRow(k, R, since)
              BY <2>2, <3>4
          <6>2. \A u : u = TransactionOf(k) =>
                   /\ TradedBy(a, x, since, R) \in Int
                   /\ TradedBy(a, x, since, R \union {k}) =
                         IF u.confirmed /\ a = u.account /\ x = u.asset
                         THEN TradedBy(a, x, since, R) + u.effect
                         ELSE TradedBy(a, x, since, R)
              BY <6>1, TradeOneMore
          <6> QED
              BY <1>a, <6>1, <6>2
        <5> QED
            BY <2>3, <5>1
      <4>2. Quantity(pos) = HeldAtFirst[a][x] + TradedBy(a, x, seen[a][x], R)
          BY <2>1, <3>4 DEF PositionHolds
      <4>3. HeldAtFirst[a][x] \in Int /\ t.effect \in Int
          BY <1>1, ContentsAssumption DEF Transaction
      <4> QED
          BY <3>3, <4>1, <4>2, <4>3
    <3>5. PositionHolds(a, x, new, R \union {k}, seen[a][x])
        BY <3>3, <3>4 DEF PositionHolds
    <3> QED
        BY <3>5 DEF new
  <2>4. CASE ~ (t.confirmed /\ a = t.account /\ x = t.asset)
    <3>1. new = pos
        BY <1>2, <2>4
    <3>2. ASSUME seen[a][x] # Absent
          PROVE  TradedBy(a, x, seen[a][x], R \union {k}) = TradedBy(a, x, seen[a][x], R)
        BY <2>2, <2>4, <3>2, TradeOneMore, <1>a
    <3> QED
        BY <2>1, <3>1, <3>2 DEF PositionHolds
  <2> QED
      BY <2>3, <2>4
<1>10. ASSUME NEW a \in Accounts, p2.money[a] = "complete", paid[a] # Absent
       PROVE  CashHolds(a, p2.cash[a], R \union {k}, paid[a])
  <2>1. ~ (t.confirmed /\ a = t.account /\ ~Books(a, t)) /\ p.money[a] = "complete"
      BY <1>2, <1>10
  <2>2. CashHolds(a, p.cash[a], R, paid[a])
      BY <1>4, <1>10, <2>1
  <2>3. paid[a] \in Int /\ NewRow(k, R, paid[a])
      BY <1>5, <1>6, <1>10 DEF NewRow
  <2>4. CASE t.confirmed /\ a = t.account
    <3>1. Books(a, t)
        BY <2>1, <2>4
    <3>2. t.priced /\ p.cash[a] # Absent /\ p.cash[a] \in Int
        BY <1>7, <1>8, <3>1 DEF Books, BasisHolds
    <3>3. CashEffect(t) = Flow(t) /\ CashEffect(t) \in Int
        BY <1>1, <3>2, CashEffectIs DEF Flow
    <3>4. p2.cash[a] = p.cash[a] + Flow(t) /\ p2.cash[a] \in Int /\ p2.cash[a] # Absent
        BY <1>2, <3>1, <3>2, <3>3, AbsentIsNothing
    <3>5. Amount(p2.cash[a]) = Amount(p.cash[a]) + Flow(t) /\ Amount(p.cash[a]) \in Int
        BY <3>2, <3>4 DEF Amount
    <3>6. /\ PaidBy(a, paid[a], R) \in Int
          /\ PaidBy(a, paid[a], R \union {k}) = PaidBy(a, paid[a], R) + Flow(t)
      <4>1. /\ PaidBy(a, paid[a], R) \in Int
            /\ PaidBy(a, paid[a], R \union {k}) =
                  IF t.confirmed /\ a = t.account
                  THEN PaidBy(a, paid[a], R) + Flow(t) ELSE PaidBy(a, paid[a], R)
        <5>1. PICK since : since = paid[a] /\ since \in Int /\ NewRow(k, R, since)
            BY <2>3
        <5>2. /\ PaidBy(a, since, R) \in Int
              /\ PaidBy(a, since, R \union {k}) =
                    IF t.confirmed /\ a = t.account
                    THEN PaidBy(a, since, R) + Flow(t) ELSE PaidBy(a, since, R)
          <6>1. \A u : u = TransactionOf(k) =>
                   /\ PaidBy(a, since, R) \in Int
                   /\ PaidBy(a, since, R \union {k}) =
                         IF u.confirmed /\ a = u.account
                         THEN PaidBy(a, since, R) + Flow(u) ELSE PaidBy(a, since, R)
              BY <5>1, PaymentOneMore
          <6> QED
              BY <1>a, <6>1
        <5> QED
            BY <5>1, <5>2
      <4> QED
          BY <2>4, <4>1
    <3>7. MoneyAtFirst[a] \in Int
        BY ContentsAssumption
    <3> QED
        BY <2>2, <3>3, <3>5, <3>6, <3>7 DEF CashHolds
  <2>5. CASE ~ (t.confirmed /\ a = t.account)
    <3>1. p2.cash[a] = p.cash[a]
        BY <1>2, <2>5 DEF Books
    <3>2. PaidBy(a, paid[a], R \union {k}) = PaidBy(a, paid[a], R)
        BY <2>3, <2>5, PaymentOneMore, <1>a
    <3> QED
        BY <2>2, <3>1, <3>2 DEF CashHolds
  <2> QED
      BY <2>4, <2>5
<1>11. PortfolioHolds(p2, R \union {k}, seen, paid)
    BY <1>2, <1>9, <1>10 DEF PortfolioHolds
<1>12. ASSUME NEW a \in Basis PROVE p2.cash[a] # Absent
  <2>1. a \in Accounts /\ p.cash[a] # Absent /\ p.cash[a] \in Int
      BY <1>7, <1>8, FactsAssumption DEF Basis, BasisHolds
  <2>2. CASE Books(a, t)
    <3>1. CashEffect(t) \in Int
        BY <1>1, <2>2, CashEffectIs DEF Books
    <3> QED
        BY <1>2, <2>1, <2>2, <3>1, AbsentIsNothing
  <2>3. CASE ~Books(a, t)
      BY <1>2, <2>1, <2>3
  <2> QED
      BY <2>2, <2>3
<1> QED
    BY <1>11, <1>12 DEF BasisHolds

(* The types of the journal.                                                *)
LEMMA JournalTypes ==
    ASSUME Journalled
    PROVE  /\ Len(journal) \in Nat /\ DOMAIN journal = 1 .. Len(journal)
           /\ \A k \in DOMAIN journal : journal[k] \in JournalRow /\ journal[k].at \in Nat
<1>1. journal \in Seq(JournalRow)
    BY DEF Journalled
<1>2. Len(journal) \in Nat /\ DOMAIN journal = 1 .. Len(journal)
    BY <1>1
<1>3. \A k \in DOMAIN journal : journal[k] \in JournalRow
    BY <1>1, <1>2
<1> QED
    BY <1>2, <1>3 DEF JournalRow

(* The rows of a delta: the checkpoint's and those after it.                *)
Rows(S) == (1 .. checkpoint.through) \union {checkpoint.through + i : i \in S}

(* The delta through a row has the transactions of the rows after the       *)
(* checkpoint.                                                              *)
LEMMA DeltaIs ==
    ASSUME Happened, Journalled, CheckpointHolds,
           NEW n \in checkpoint.through .. Len(journal), NEW m, m = n - checkpoint.through
    PROVE  /\ m \in Nat /\ Listed(Delta(n), m)
           /\ checkpoint.through \in Nat
           /\ \A i \in 1 .. m : /\ Delta(n)[i] = TransactionOf(checkpoint.through + i)
                                /\ checkpoint.through + i \in DOMAIN journal
           /\ Rows({}) = 1 .. checkpoint.through
           /\ Rows(1 .. m) = 1 .. n
<1>1. /\ checkpoint.through \in Nat /\ checkpoint.through <= Len(journal)
      /\ Len(journal) \in Nat /\ DOMAIN journal = 1 .. Len(journal)
    BY JournalTypes DEF CheckpointHolds
<1>2. m \in Nat /\ n \in Nat /\ n <= Len(journal)
    BY <1>1
<1>3. DOMAIN Delta(n) = 1 .. m
    BY DEF Delta
<1>4. \A i \in 1 .. m : Delta(n)[i] = TransactionOf(checkpoint.through + i)
    BY DEF Delta, TransactionOf
<1>5. \A i \in 1 .. m : checkpoint.through + i \in DOMAIN journal
    BY <1>1, <1>2
<1>6. Listed(Delta(n), m)
    BY <1>3, <1>4, <1>5, TransactionTypes DEF Listed
<1>7. Rows({}) = 1 .. checkpoint.through
    BY DEF Rows
<1>8. Rows(1 .. m) = 1 .. n
  <2>1. \A k \in 1 .. n : k \in 1 .. checkpoint.through \/
                          (k - checkpoint.through \in 1 .. m
                           /\ k = checkpoint.through + (k - checkpoint.through))
      BY <1>1, <1>2
  <2>2. \A i \in 1 .. m : checkpoint.through + i \in 1 .. n
      BY <1>1, <1>2
  <2>3. \A k \in 1 .. checkpoint.through : k \in 1 .. n
      BY <1>1, <1>2
  <2> QED
      BY <2>1, <2>2, <2>3 DEF Rows
<1> QED
    BY <1>1, <1>2, <1>4, <1>5, <1>6, <1>7, <1>8

(* Each transaction of a delta stands for one row.                          *)
LEMMA OneRowMore ==
    ASSUME Happened, Journalled, CheckpointHolds,
           NEW n \in checkpoint.through .. Len(journal), NEW m, m = n - checkpoint.through,
           NEW S \in SUBSET (1 .. m), NEW i \in S, NEW k, k = checkpoint.through + i
    PROVE  /\ Rows(S \ {i}) \in SUBSET DOMAIN journal
           /\ k \notin Rows(S \ {i})
           /\ Rows(S) = Rows(S \ {i}) \union {k}
<1>1. /\ checkpoint.through \in Nat /\ checkpoint.through <= Len(journal)
      /\ Len(journal) \in Nat /\ DOMAIN journal = 1 .. Len(journal) /\ m \in Nat
    BY JournalTypes, DeltaIs DEF CheckpointHolds
<1>2. \A j \in 1 .. m : checkpoint.through + j \in DOMAIN journal
    BY DeltaIs
<1>3. \A j \in 1 .. checkpoint.through : j \in DOMAIN journal
    BY <1>1
<1>4. ASSUME k \in Rows(S \ {i}) PROVE FALSE
  <2>1. k \notin 1 .. checkpoint.through
      BY <1>1
  <2>2. PICK j \in S \ {i} : k = checkpoint.through + j
      BY <1>4, <2>1 DEF Rows
  <2>3. i = j
      BY <1>1, <2>2
  <2> QED
      BY <2>3
<1> QED
    BY <1>2, <1>3, <1>4 DEF Rows

(* A base is blocked when a declared basis has no row.                      *)
LEMMA OpeningIs ==
    ASSUME NEW base
    PROVE  /\ Opening(base).portfolio = base /\ Opening(base).blocked \in BOOLEAN
           /\ ~Opening(base).blocked => BasisHolds(base)
BY DEF Opening, Result, BasisHolds

(* What is projected from a checkpoint without being blocked is true.       *)
LEMMA FoldHolds ==
    ASSUME Happened, Journalled, CheckpointHolds,
           NEW n \in checkpoint.through .. Len(journal), InTime(n),
           NEW m, m = n - checkpoint.through,
           NEW S \in SUBSET (1 .. m)
    PROVE  HoldsThrough(Folded(checkpoint.base, Delta(n))[S], Rows(S))
<1> DEFINE F == Folded(checkpoint.base, Delta(n))
           Good == {T \in SUBSET (1 .. m) : HoldsThrough(F[T], Rows(T))}
<1>1. /\ m \in Nat /\ Listed(Delta(n), m)
      /\ Rows({}) = 1 .. checkpoint.through
      /\ \A i \in 1 .. m : /\ Delta(n)[i] = TransactionOf(checkpoint.through + i)
                           /\ checkpoint.through + i \in DOMAIN journal
    BY DeltaIs
<1>2. {} \in Good
  <2>1. F[{}] = Opening(checkpoint.base)
      BY <1>1, FoldRules
  <2>2. PortfolioHolds(checkpoint.base, Rows({}), seen, paid)
      BY <1>1 DEF CheckpointHolds
  <2>3. HoldsThrough(F[{}], Rows({}))
      BY <2>1, <2>2, OpeningIs DEF HoldsThrough
  <2> HIDE DEF F
  <2> QED
      BY <2>3
<1>3. ASSUME NEW T \in SUBSET (1 .. m), T # {}, \A j \in T : T \ {j} \in Good
      PROVE  T \in Good
  <2> DEFINE i == Latest(Delta(n), T)
             k == checkpoint.through + i
             R == Rows(T \ {i})
             r == F[T \ {i}]
  <2>1. i \in T
      BY <1>1, <1>3, LatestIsLast
  <2>2. F[T] = Step(r, Delta(n)[i])
    <3> HIDE DEF Good
    <3> QED
        BY <1>1, <1>3, FoldStep
  <2>3. HoldsThrough(r, R)
    <3> HIDE DEF F, i
    <3> QED
        BY <1>3, <2>1
  <2>4. k = checkpoint.through + i
      OBVIOUS
  <2>5. /\ k \in DOMAIN journal /\ Delta(n)[i] = TransactionOf(k) 
        /\ TransactionOf(k).at > checkpoint.at
    <3>1. DOMAIN Delta(n) = 1 .. m
        BY <1>1 DEF Listed
    <3> HIDE DEF i, Good, F
    <3> QED
        BY <1>1, <2>1, <3>1 DEF InTime
  <2> HIDE DEF i, k, r, F, Good
  <2>6. R \in SUBSET DOMAIN journal /\ k \notin R /\ Rows(T) = R \union {k}
    <3>1. \A j \in T : \A l : l = checkpoint.through + j =>
             /\ Rows(T \ {j}) \in SUBSET DOMAIN journal
             /\ l \notin Rows(T \ {j})
             /\ Rows(T) = Rows(T \ {j}) \union {l}
        BY OneRowMore
    <3> QED
        BY <2>1, <2>4, <3>1
  <2> HIDE DEF R
  <2>7. HoldsThrough(Step(r, TransactionOf(k)), R \union {k})
      BY <2>3, <2>5, <2>6, StepHolds
  <2>8. HoldsThrough(F[T], Rows(T))
      BY <2>2, <2>5, <2>6, <2>7
  <2> QED
      BY <2>8 DEF Good
<1> HIDE DEF Good
<1>4. S \in Good
    BY <1>1, <1>2, <1>3, PartByPart
<1> QED
    BY <1>4 DEF Good

(* A projection that is not blocked is true through its rows.               *)
LEMMA ProjectionHolds ==
    ASSUME Happened, Journalled, CheckpointHolds,
           NEW n \in checkpoint.through .. Len(journal), InTime(n)
    PROVE  HoldsThrough(Projection(n), 1 .. n)
<1> DEFINE m == n - checkpoint.through
<1>1. m \in Nat /\ Listed(Delta(n), m) /\ Rows(1 .. m) = 1 .. n
    BY DeltaIs
<1>2. Projection(n) = Folded(checkpoint.base, Delta(n))[1 .. m]
    BY <1>1, FoldRules DEF Projection
<1>3. 1 .. m \in SUBSET (1 .. m) /\ m = n - checkpoint.through
    OBVIOUS
<1> HIDE DEF m
<1>4. HoldsThrough(Folded(checkpoint.base, Delta(n))[1 .. m], Rows(1 .. m))
    BY <1>3, FoldHolds
<1> QED
    BY <1>1, <1>2, <1>4

(* The longest prefix of rows that are covered at a time.                   *)
LEMMA CursorIs ==
    ASSUME Journalled, NEW t \in Int
    PROVE  /\ SafeCursor(t) \in 0 .. Len(journal)
           /\ RecordedUntil(SafeCursor(t), t)
<1> DEFINE L == Len(journal)
           Ends == {n \in 0 .. L : n = L \/ ~Covered(journal[n + 1], t)}
           Safe(n) == /\ \A k \in 1 .. n : Covered(journal[k], t)
                      /\ n < L => ~Covered(journal[n + 1], t)
<1>1. L \in Nat
    BY JournalTypes
<1> HIDE DEF L
<1>2. PICK n \in Ends : \A m \in Ends : n <= m
  <2>1. Ends \in SUBSET Nat /\ L \in Ends
      BY <1>1
  <2> HIDE DEF Ends
  <2> QED
      BY <2>1, Least
<1>3. ASSUME NEW k \in 1 .. n PROVE Covered(journal[k], t)
  <2>1. k - 1 \in 0 .. L /\ ~ (n <= k - 1) /\ k - 1 # L /\ (k - 1) + 1 = k
      BY <1>1, <1>2
  <2>2. k - 1 \notin Ends
      BY <1>2, <2>1
  <2> QED
      BY <2>1, <2>2
<1>4. n \in 0 .. L /\ Safe(n)
    BY <1>1, <1>2, <1>3
<1>5. SafeCursor(t) = CHOOSE m \in 0 .. L : Safe(m)
    BY DEF SafeCursor, L
<1> HIDE DEF Safe
<1>6. SafeCursor(t) \in 0 .. L /\ Safe(SafeCursor(t))
    BY <1>4, <1>5
<1> QED
    BY <1>6 DEF Safe, RecordedUntil, Covered, L

--------------------------------------------------------------------------------
(* What is true of the accounts at a time stays true: events and rows are   *)
(* only added, and later.                                                   *)
Extended ==
    /\ \A i \in DOMAIN happened : i \in DOMAIN happened' /\ happened'[i] = happened[i]
    /\ \A i \in DOMAIN happened' : i \in DOMAIN happened \/ happened'[i].at = Now + 1
    /\ \A k \in DOMAIN journal : k \in DOMAIN journal' /\ journal'[k] = journal[k]

(* A sum depends on the events it is over only.                             *)
LEMMA SumsAgree ==
    ASSUME NEW f, NEW g, NEW S, \A i \in S : f[i] = g[i]
    PROVE  SumOf(f, S) = SumOf(g, S)
<1>1. [i \in S |-> f[i].effect] = [i \in S |-> g[i].effect]
    OBVIOUS
<1> QED
    BY <1>1 DEF SumOf

(* The total of the model is a sum of the events that happened, ...         *)
LEMMA TotalIs ==
    ASSUME NEW S PROVE Total(S) = SumOf(happened, S)
BY DEF Total, SumOf

(* ... after a step, too.                                                   *)
LEMMA TotalThen ==
    ASSUME NEW S PROVE Total(S)' = SumOf(happened', S)
BY DEF Total, SumOf, FoldFunctionOnSet, MapThenFoldSet

(* Events that are added do not change a sum of earlier ones, ...           *)
LEMMA SumStays ==
    ASSUME Extended, NEW S \in SUBSET DOMAIN happened
    PROVE  SumOf(happened', S) = SumOf(happened, S)
<1>1. \A i \in S : happened'[i] = happened[i]
    BY DEF Extended
<1> QED
    BY <1>1, SumsAgree

(* ... nor what had happened by a time that has come, ...                   *)
LEMMA EventsStay ==
    ASSUME Happened, Extended, NEW a \in Accounts, NEW x, NEW t \in Int, t <= Now
    PROVE  /\ (Moves(a, x) \intersect Until(t))' = Moves(a, x) \intersect Until(t)
           /\ ((Payments(a) \ Bought(a)) \intersect Until(t))'
                 = (Payments(a) \ Bought(a)) \intersect Until(t)
           /\ (Bought(a) \intersect Until(t))' = Bought(a) \intersect Until(t)
<1>1. \A i : i \in DOMAIN happened' /\ happened'[i].at <= t
             <=> i \in DOMAIN happened /\ happened[i].at <= t
    BY EventTypes DEF Extended
<1>2. \A i \in DOMAIN happened : happened'[i] = happened[i]
    BY DEF Extended
<1> QED
    BY <1>1, <1>2 DEF Moves, Payments, Bought, Until

(* ... nor what was held and paid by then, ...                              *)
LEMMA AccountsStay ==
    ASSUME Happened, Extended, NEW a \in Accounts, NEW x, NEW t \in Int, t <= Now
    PROVE  Held(a, x, t)' = Held(a, x, t) /\ Money(a, t)' = Money(a, t)
<1> DEFINE M == Moves(a, x) \intersect Until(t)
           P == (Payments(a) \ Bought(a)) \intersect Until(t)
           B == Bought(a) \intersect Until(t)
<1>1. M' = M /\ P' = P /\ B' = B
    BY EventsStay
<1>2. M \in SUBSET DOMAIN happened /\ P \in SUBSET DOMAIN happened
      /\ B \in SUBSET DOMAIN happened
    BY DEF Until
<1>3. /\ Held(a, x, t) = HeldAtFirst[a][x] + SumOf(happened, M)
      /\ Money(a, t) = MoneyAtFirst[a] + SumOf(happened, P) - SumOf(happened, B)
    BY TotalIs DEF Held, Money
<1>4. /\ Held(a, x, t)' = HeldAtFirst[a][x] + SumOf(happened', M')
      /\ Money(a, t)' = MoneyAtFirst[a] + SumOf(happened', P') - SumOf(happened', B')
  <2>1. /\ Held(a, x, t)' = HeldAtFirst[a][x] + Total(M)'
        /\ Money(a, t)' = MoneyAtFirst[a] + Total(P)' - Total(B)'
      BY DEF Held, Money
  <2> HIDE DEF M, P, B
  <2>2. Total(M)' = SumOf(happened', M') /\ Total(P)' = SumOf(happened', P')
        /\ Total(B)' = SumOf(happened', B')
      BY TotalThen
  <2> QED
      BY <2>1, <2>2
<1> HIDE DEF M, P, B
<1> QED
    BY <1>1, <1>2, <1>3, <1>4, SumStays

(* ... nor what the rows that there were count.                             *)
LEMMA CountsStay ==
    ASSUME Happened, Journalled, Extended, NEW a \in Accounts, NEW x,
           NEW since \in Int, since <= Now, NEW R \in SUBSET DOMAIN journal
    PROVE  /\ TradedBy(a, x, since, R)' = TradedBy(a, x, since, R)
           /\ PaidBy(a, since, R)' = PaidBy(a, since, R)
<1> DEFINE C == CountedBy(a, since, R)
           M == C \intersect Moves(a, x)
           P == C \ Bought(a)
           B == C \intersect Bought(a)
<1>1. \A i : i \in DOMAIN happened' /\ happened'[i].at <= since
             <=> i \in DOMAIN happened /\ happened[i].at <= since
    BY EventTypes DEF Extended
<1>2. \A i \in DOMAIN happened : i \in DOMAIN happened' /\ happened'[i] = happened[i]
    BY DEF Extended
<1>3. \A k \in R : journal'[k] = journal[k] /\ journal[k].event \in DOMAIN happened
    BY DEF Extended, Journalled
<1>4. C' = C
    BY <1>1, <1>2, <1>3 DEF CountedBy, Payments
<1>5. C \in SUBSET DOMAIN happened
    BY DEF CountedBy, Payments
<1> HIDE DEF C
<1>6. M' = M /\ P' = P /\ B' = B
    BY <1>2, <1>4, <1>5 DEF Moves, Payments, Bought
<1>7. M \in SUBSET DOMAIN happened /\ P \in SUBSET DOMAIN happened
      /\ B \in SUBSET DOMAIN happened
    BY <1>5
<1>8. /\ TradedBy(a, x, since, R) = SumOf(happened, M)
      /\ PaidBy(a, since, R) = SumOf(happened, P) - SumOf(happened, B)
    BY TotalIs DEF TradedBy, PaidBy, C
<1>9. /\ TradedBy(a, x, since, R)' = SumOf(happened', M')
      /\ PaidBy(a, since, R)' = SumOf(happened', P') - SumOf(happened', B')
  <2>1. /\ TradedBy(a, x, since, R)' = Total(M)'
        /\ PaidBy(a, since, R)' = Total(P)' - Total(B)'
      BY DEF TradedBy, PaidBy, C
  <2> HIDE DEF M, P, B
  <2>2. Total(M)' = SumOf(happened', M') /\ Total(P)' = SumOf(happened', P')
        /\ Total(B)' = SumOf(happened', B')
      BY TotalThen
  <2> QED
      BY <2>1, <2>2
<1> HIDE DEF M, P, B
<1> QED
    BY <1>6, <1>7, <1>8, <1>9, SumStays

(* What is true of a portfolio stays true, too.                             *)
LEMMA PortfolioStays ==
    ASSUME Happened, Journalled, Extended, NEW S, NEW P, NEW t \in Int, t <= Now, Tables(S, P, t),
           NEW p, NEW R \in SUBSET DOMAIN journal, PortfolioHolds(p, R, S, P)
    PROVE  PortfolioHolds(p, R, S, P)'
<1>1. /\ Now \in Nat
      /\ \A a \in Accounts, x \in Assets : S[a][x] # Absent => S[a][x] \in Int /\ S[a][x] <= Now
      /\ \A a \in Accounts : P[a] # Absent => P[a] \in Int /\ P[a] <= Now
    BY EventTypes DEF Tables
<1>2. ASSUME NEW a \in Accounts, NEW x \in Assets
      PROVE  PositionHolds(a, x, p.positions[a][x], R, S[a][x])'
  <2>1. PositionHolds(a, x, p.positions[a][x], R, S[a][x])
      BY DEF PortfolioHolds
  <2>2. S[a][x] # Absent => TradedBy(a, x, S[a][x], R)' = TradedBy(a, x, S[a][x], R)
      BY <1>1, CountsStay
  <2> QED
      BY <2>1, <2>2 DEF PositionHolds
<1>3. ASSUME NEW a \in Accounts, p.money[a] = "complete", P[a] # Absent
      PROVE  CashHolds(a, p.cash[a], R, P[a])'
  <2>1. CashHolds(a, p.cash[a], R, P[a])
      BY <1>3 DEF PortfolioHolds
  <2>2. PaidBy(a, P[a], R)' = PaidBy(a, P[a], R)
    <3>1. \A x : PaidBy(a, P[a], R)' = PaidBy(a, P[a], R)
        BY <1>1, <1>3, CountsStay
    <3> QED
        BY <3>1
  <2> QED
      BY <2>1, <2>2 DEF CashHolds
<1> QED
    BY <1>2, <1>3 DEF PortfolioHolds

NeverShort == \A a \in Accounts, x \in Assets, t \in 0 .. Now : Held(a, x, t) >= 0

(* What an observation says of a row, and of an account.                    *)
RowSeen(a, x, pos, old, o, measured) ==
    IF pos = Absent THEN o.holdings[a] = "complete" => Held(a, x, o.at) = 0
    ELSE /\ pos.valued # Absent => pos.valued = pos.quantity
         /\ pos.known => IF measured THEN pos.quantity = Held(a, x, o.at)
                         ELSE old # Absent /\ old.known /\ pos.quantity = old.quantity

Observed(o, current, measured) ==
    /\ o \in Observation
    /\ \A a \in o.scope :
          /\ \A x \in Assets :
                RowSeen(a, x, o.positions[a][x], current.positions[a][x], o, measured)
          /\ o.money[a] = "complete" => Amount(o.cash[a]) = Money(a, o.at)

CandidateTrue(c) ==
    /\ c.through \in 0 .. Len(journal) /\ c.observed.at \in 0 .. Now
    /\ RecordedUntil(c.through, c.observed.at)
    /\ Tables(c.seen, c.paid, c.observed.at)
    /\ PortfolioHolds(c.current, 1 .. c.through, c.seen, c.paid)
    /\ Observed(c.observed, c.current, c.measured)

CandidatesHold == \A c \in candidates : CandidateTrue(c)

ContentsInv == Happened /\ Journalled /\ NeverShort /\ CheckpointHolds /\ CandidatesHold

(* An observation stays true: it is of a time that has come.                *)
LEMMA ObservedStays ==
    ASSUME Happened, Extended, NEW o, o.at \in Int, o.at <= Now, NEW p, NEW measured,
           Observed(o, p, measured)
    PROVE  Observed(o, p, measured)'
<1>1. o \in Observation
    BY DEF Observed
<1>2. o.scope \in SUBSET Accounts
    BY <1>1 DEF Observation
<1>3. \A a \in Accounts, x \in Assets : Held(a, x, o.at)' = Held(a, x, o.at)
    BY AccountsStay
<1>4. \A a \in Accounts : Money(a, o.at)' = Money(a, o.at)
    BY AccountsStay
<1> QED
    BY <1>1, <1>2, <1>3, <1>4 DEF Observed, RowSeen

(* Events and rows that are added leave a checkpoint and a candidate true.  *)
LEMMA CheckpointStays ==
    ASSUME Happened, Journalled, CheckpointHolds, Extended, UNCHANGED <<checkpoint, seen, paid>>,
           Now' \in Nat, Now' >= Now, Len(journal') \in Nat, Len(journal') >= Len(journal)
    PROVE  CheckpointHolds'
<1>1. /\ checkpoint' = checkpoint /\ seen' = seen /\ paid' = paid
      /\ Now \in Nat /\ Len(journal) \in Nat /\ DOMAIN journal = 1 .. Len(journal)
    BY EventTypes, JournalTypes
<1>2. checkpoint \in [base: Portfolio, at: 0 .. Now', through: 0 .. Len(journal')]
    BY <1>1 DEF CheckpointHolds
<1>3. /\ 1 .. checkpoint.through \in SUBSET DOMAIN journal
      /\ checkpoint.at \in Int /\ checkpoint.at <= Now
    BY <1>1 DEF CheckpointHolds
<1>4. PortfolioHolds(checkpoint.base, 1 .. checkpoint.through, seen, paid)'
  <2>1. PICK p, R, S, P : p = checkpoint.base /\ R = 1 .. checkpoint.through
                          /\ S = seen /\ P = paid
      OBVIOUS
  <2>2. PortfolioHolds(p, R, S, P)'
      BY <1>3, <2>1, PortfolioStays DEF CheckpointHolds
  <2>3. checkpoint'.base = p /\ 1 .. checkpoint'.through = R /\ seen' = S /\ paid' = P
      BY <1>1, <2>1
  <2> QED
      BY <2>2, <2>3 DEF PortfolioHolds
<1>5. RecordedUntil(checkpoint.through, checkpoint.at)'
    BY <1>1, <1>3 DEF CheckpointHolds, RecordedUntil, Extended
<1>6. Tables(seen, paid, checkpoint.at)'
    BY <1>1 DEF CheckpointHolds, Tables
<1> QED
    BY <1>1, <1>2, <1>4, <1>5, <1>6 DEF CheckpointHolds

(* And so does a candidate, whatever is the checkpoint by now.              *)
LEMMA CandidateStays ==
    ASSUME Happened, Journalled, Extended,
           Now' \in Nat, Now' >= Now, Len(journal') \in Nat, Len(journal') >= Len(journal),
           NEW c, CandidateTrue(c)
    PROVE  CandidateTrue(c)'
<1>1. Now \in Nat /\ Len(journal) \in Nat /\ DOMAIN journal = 1 .. Len(journal)
    BY EventTypes, JournalTypes
<1>2. c.through \in 0 .. Len(journal) /\ c.observed.at \in 0 .. Now
    BY DEF CandidateTrue
<1>3. /\ 1 .. c.through \in SUBSET DOMAIN journal
      /\ c.observed.at \in Int /\ c.observed.at <= Now
    BY <1>1, <1>2
<1>4. PortfolioHolds(c.current, 1 .. c.through, c.seen, c.paid)'
  <2>1. PICK p, R, S, P : p = c.current /\ R = 1 .. c.through /\ S = c.seen /\ P = c.paid
      OBVIOUS
  <2>2. PortfolioHolds(p, R, S, P)'
      BY <1>3, <2>1, PortfolioStays DEF CandidateTrue
  <2> QED
      BY <2>1, <2>2
<1>5. RecordedUntil(c.through, c.observed.at)'
    BY <1>1, <1>3 DEF CandidateTrue, RecordedUntil, Extended
<1>6. Observed(c.observed, c.current, c.measured)'
    BY <1>3, ObservedStays DEF CandidateTrue
<1>7. Tables(c.seen, c.paid, c.observed.at)'
    BY DEF CandidateTrue, Tables
<1> QED
    BY <1>1, <1>2, <1>4, <1>5, <1>6, <1>7 DEF CandidateTrue

(* Candidates that there were stay true.                                    *)
LEMMA CandidatesStay ==
    ASSUME Happened, Journalled, Extended, CandidatesHold, candidates' \subseteq candidates,
           Now' \in Nat, Now' >= Now, Len(journal') \in Nat, Len(journal') >= Len(journal)
    PROVE  CandidatesHold'
<1>1. \A c \in candidates : CandidateTrue(c)'
    BY CandidateStays DEF CandidatesHold
<1> QED
    BY <1>1 DEF CandidatesHold

(* Something happens.                                                       *)
LEMMA HappenKeeps ==
    ASSUME ContentsInv, NEW e \in Events, Happen(e)
    PROVE  ContentsInv'
<1> DEFINE L == Len(happened)
           evt == [account |-> e.account, asset |-> e.asset, effect |-> e.effect, at |-> Now + 1]
<1>1. Happened /\ Journalled /\ NeverShort /\ CheckpointHolds /\ CandidatesHold
    BY DEF ContentsInv
<1>2. /\ happened' = Append(happened, evt)
      /\ UNCHANGED <<journal, checkpoint, candidates, updates, seen, paid>>
      /\ e.asset # Absent => Held(e.account, e.asset, Now) + e.effect >= 0
    BY DEF Happen
<1>3. /\ L \in Nat /\ DOMAIN happened = 1 .. L /\ Now \in Nat /\ updates \in Nat
      /\ happened \in Seq(EventRow)
    BY <1>1, EventTypes, ContentsAssumption DEF Happened
<1>4. e.account \in Accounts /\ e.asset \in Assets \union {Absent} /\ e.effect \in {-1, 1}
    BY ContentsAssumption
<1>5. evt \in EventRow
    BY <1>3, <1>4 DEF EventRow
<1>6. /\ evt.at = Now + 1 /\ evt.account = e.account /\ evt.asset = e.asset
      /\ evt.effect = e.effect
    OBVIOUS
<1> HIDE DEF evt, L
<1>7. /\ happened' \in Seq(EventRow) /\ Len(happened') = L + 1 /\ DOMAIN happened' = 1 .. L + 1
      /\ \A i \in 1 .. L : happened'[i] = happened[i]
      /\ happened'[L + 1] = evt
    BY <1>2, <1>3, <1>5 DEF L
<1>8. Now' = Now + 1
    BY <1>2, <1>3, <1>7 DEF Now, L
<1>9. \A i \in 1 .. L + 1 : i \in 1 .. L \/ i = L + 1
    BY <1>3
<1>10. Extended
    BY <1>2, <1>3, <1>6, <1>7, <1>9 DEF Extended
<1>11. Happened'
  <2>1. \A i \in DOMAIN happened' : happened'[i].at \in 1 .. Now'
      BY <1>1, <1>3, <1>6, <1>7, <1>8, <1>9 DEF Happened
  <2>2. \A i, j \in DOMAIN happened' : i < j => happened'[i].at < happened'[j].at
    <3>1. ASSUME NEW i \in 1 .. L + 1, NEW j \in 1 .. L + 1, i < j
          PROVE  happened'[i].at < happened'[j].at
      <4>1. i \in 1 .. L
          BY <1>3, <3>1
      <4>2. happened'[i].at = happened[i].at /\ happened[i].at <= Now /\ happened[i].at \in Nat
          BY <1>1, <1>3, <1>7, <4>1, EventTypes
      <4>3. CASE j \in 1 .. L
          BY <1>1, <1>3, <1>7, <3>1, <4>1, <4>2, <4>3 DEF Happened
      <4>4. CASE j = L + 1
          BY <1>3, <1>6, <1>7, <4>2, <4>4
      <4> QED
          BY <1>9, <4>3, <4>4
    <3> QED
        BY <1>7, <3>1
  <2> QED
      BY <1>1, <1>2, <1>7, <2>1, <2>2 DEF Happened
<1>12. Journalled'
  <2>1. \A i \in DOMAIN happened : i \in DOMAIN happened' /\ happened'[i] = happened[i]
      BY <1>10 DEF Extended
  <2>2. \A k \in DOMAIN journal :
           /\ journal[k].event \in DOMAIN happened' /\ journal[k].event \in DOMAIN happened
           /\ happened'[journal[k].event].at <= journal[k].at /\ journal[k].at <= Now'
    <3>1. \A k \in DOMAIN journal : journal[k].at \in Nat
        BY <1>1, JournalTypes
    <3> QED
        BY <1>1, <1>3, <1>8, <2>1, <3>1 DEF Journalled
  <2> QED
      BY <1>1, <1>2, <2>2 DEF Journalled
<1>13. NeverShort'
  <2>1. SUFFICES ASSUME NEW a \in Accounts, NEW x \in Assets, NEW t \in 0 .. Now'
                 PROVE  Held(a, x, t)' >= 0
      BY DEF NeverShort
  <2>2. CASE t <= Now
    <3>1. t \in 0 .. Now /\ t \in Int
        BY <1>3, <1>8, <2>2
    <3> QED
        BY <1>1, <1>10, <2>2, <3>1, AccountsStay DEF NeverShort
  <2>3. CASE t = Now + 1
    <3> DEFINE M == Moves(a, x) \intersect Until(Now)
               M2 == Moves(a, x) \intersect Until(t)
    <3>1. M \in SUBSET DOMAIN happened /\ L + 1 \notin M
        BY <1>3 DEF Until
    <3>2. \A i \in 1 .. L : happened[i].at <= Now /\ happened[i].at \in Nat
        BY <1>1, <1>3, EventTypes
    <3>3. M2' = IF a = e.account /\ x = e.asset THEN M \union {L + 1} ELSE M
      <4>1. \A i \in 1 .. L : happened'[i].at <= Now + 1 /\ happened'[i].at <= Now
          BY <1>3, <1>7, <3>2
      <4>2. M2' = {i \in 1 .. L + 1 : happened'[i].account = a /\ happened'[i].asset = x
                                     /\ happened'[i].at <= Now + 1}
          BY <1>7, <2>3 DEF Moves, Payments, Until
      <4>3. M = {i \in 1 .. L : happened[i].account = a /\ happened[i].asset = x
                                 /\ happened[i].at <= Now}
          BY <1>3 DEF Moves, Payments, Until
      <4>4. L + 1 \notin 1 .. L /\ evt.at <= Now + 1
          BY <1>3, <1>6
      <4> HIDE DEF M, M2
      <4>5. \A i \in 1 .. L : i \in M2' <=> i \in M
        <5>1. ASSUME NEW i \in 1 .. L PROVE i \in M2' <=> i \in M
          <6>1. i \in 1 .. L + 1 /\ happened'[i] = happened[i]
              BY <1>3, <1>7
          <6>2. happened[i].at <= Now + 1 /\ happened[i].at <= Now
              BY <1>3, <3>2
          <6>3. i \in M2' <=> happened'[i].account = a /\ happened'[i].asset = x
                              /\ happened'[i].at <= Now + 1
              BY <4>2, <6>1
          <6>4. i \in M <=> happened[i].account = a /\ happened[i].asset = x
                            /\ happened[i].at <= Now
              BY <4>3
          <6> QED
              BY <6>1, <6>2, <6>3, <6>4
        <5> QED
            BY <5>1
      <4>6. L + 1 \in M2' <=> a = e.account /\ x = e.asset
          BY <1>3, <1>6, <1>7, <4>2, <4>4
      <4>7. M2' \in SUBSET (1 .. L + 1) /\ M \in SUBSET (1 .. L)
          BY <4>2, <4>3
      <4>8. CASE a = e.account /\ x = e.asset
          BY <1>9, <4>4, <4>5, <4>6, <4>7, <4>8
      <4>9. CASE ~ (a = e.account /\ x = e.asset)
        <5>1. \A i : i \in M2' <=> i \in M
            BY <1>9, <4>4, <4>5, <4>6, <4>7, <4>9
        <5>2. M2' = M
            BY <5>1
        <5> QED
            BY <4>9, <5>2
      <4> QED
          BY <4>8, <4>9
    <3> HIDE DEF M, M2
    <3>4. Held(a, x, t)' = HeldAtFirst[a][x] + SumOf(happened', M2')
      <4>1. Held(a, x, t)' = HeldAtFirst[a][x] + Total(M2)'
          BY DEF Held, M2
      <4> QED
          BY <4>1, TotalThen
    <3>5. Held(a, x, Now) = HeldAtFirst[a][x] + SumOf(happened, M)
        BY TotalIs DEF Held, M
    <3>6. SumOf(happened', M) = SumOf(happened, M)
        BY <1>10, <3>1, SumStays
    <3>7. Held(a, x, Now) >= 0
        BY <1>1, <1>3 DEF NeverShort
    <3>8. CASE a = e.account /\ x = e.asset
      <4>1. M \union {L + 1} \in SUBSET (1 .. L + 1) /\ (M \union {L + 1}) \ {L + 1} = M
          BY <1>3, <3>1
      <4>2. \A i \in 1 .. L + 1 : happened'[i].effect \in Int
        <5>1. \A i \in 1 .. L + 1 : happened'[i] \in EventRow
            BY <1>7
        <5> QED
            BY <5>1 DEF EventRow
      <4> DEFINE W == M \union {L + 1}
      <4>3. W \in SUBSET (1 .. L + 1) /\ L + 1 \in W /\ W \ {L + 1} = M
          BY <4>1
      <4> HIDE DEF W
      <4>4. SumOf(happened', W) = SumOf(happened', W \ {L + 1}) + happened'[L + 1].effect
        <5>1. L + 1 \in Nat
            BY <1>3
        <5>2. \A S \in SUBSET (1 .. L + 1) : \A i \in S :
                 SumOf(happened', S) = SumOf(happened', S \ {i}) + happened'[i].effect
            BY <4>2, <5>1, SumRules
        <5> QED
            BY <4>3, <5>2, Zenon
      <4>5. SumOf(happened', M2') = SumOf(happened, M) + e.effect
          BY <1>6, <1>7, <3>3, <3>6, <3>8, <4>3, <4>4 DEF W
      <4>6. e.asset # Absent
          BY <3>8, AbsentIsNothing
      <4>7. SumOf(happened, M) \in Int /\ e.effect \in Int /\ HeldAtFirst[a][x] \in Int
        <5>1. SumOf(happened, M) \in Int
            BY <1>1, <3>1, TotalRules, TotalIs
        <5> QED
            BY <1>4, <5>1, ContentsAssumption
      <4> QED
          BY <1>2, <3>4, <3>5, <3>8, <4>5, <4>6, <4>7
    <3>9. CASE ~ (a = e.account /\ x = e.asset)
        BY <3>3, <3>4, <3>5, <3>6, <3>7, <3>9
    <3> QED
        BY <3>8, <3>9
  <2> QED
      BY <1>3, <1>8, <2>2, <2>3
<1>14. /\ Now' \in Nat /\ Now' >= Now /\ Len(journal') \in Nat /\ Len(journal') >= Len(journal)
       /\ UNCHANGED <<checkpoint, seen, paid>>
    BY <1>1, <1>2, <1>3, <1>8, JournalTypes
<1>15. CheckpointHolds'
    BY <1>1, <1>10, <1>14, CheckpointStays
<1>16. CandidatesHold'
    BY <1>1, <1>2, <1>10, <1>14, CandidatesStay
<1> QED
    BY <1>11, <1>12, <1>13, <1>15, <1>16 DEF ContentsInv

(* When the clock stays, no account goes short.                             *)
LEMMA HeldStays ==
    ASSUME Happened, NeverShort, Extended, Now' = Now
    PROVE  NeverShort'
<1>1. SUFFICES ASSUME NEW a \in Accounts, NEW x \in Assets, NEW t \in 0 .. Now'
               PROVE  Held(a, x, t)' >= 0
    BY DEF NeverShort
<1>2. t \in 0 .. Now /\ t \in Int /\ t <= Now
    BY EventTypes
<1> QED
    BY <1>2, AccountsStay DEF NeverShort

(* Something that happened is recorded.                                     *)
LEMMA RecordKeeps ==
    ASSUME ContentsInv, NEW i \in DOMAIN happened, NEW kind \in Kinds, NEW id \in Ids,
           Record(i, kind, id)
    PROVE  ContentsInv'
<1> DEFINE L == Len(journal)
           rec == [event |-> i, at |-> Now, id |-> id, kind |-> kind]
<1>1. Happened /\ Journalled /\ NeverShort /\ CheckpointHolds /\ CandidatesHold
    BY DEF ContentsInv
<1>2. /\ journal' = Append(journal, rec) /\ i \notin Recorded
      /\ UNCHANGED <<happened, checkpoint, candidates, updates, seen, paid>>
    BY DEF Record
<1>3. /\ L \in Nat /\ DOMAIN journal = 1 .. L /\ Now \in Nat /\ journal \in Seq(JournalRow)
    BY <1>1, EventTypes, JournalTypes DEF Journalled
<1>4. rec \in JournalRow
  <2>1. i \in Nat
      BY <1>1, EventTypes
  <2>2. kind \in RowKind /\ id \in Nat
      BY ContentsAssumption DEF RowKind
  <2> QED
      BY <1>3, <2>1, <2>2 DEF JournalRow
<1>5. rec.event = i /\ rec.at = Now
    OBVIOUS
<1> HIDE DEF rec, L
<1>6. /\ journal' \in Seq(JournalRow) /\ Len(journal') = L + 1 /\ DOMAIN journal' = 1 .. L + 1
      /\ \A k \in 1 .. L : journal'[k] = journal[k]
      /\ journal'[L + 1] = rec
    BY <1>2, <1>3, <1>4 DEF L
<1>7. Now' = Now /\ happened' = happened
    BY <1>2 DEF Now
<1>8. \A k \in 1 .. L + 1 : k \in 1 .. L \/ k = L + 1
    BY <1>3
<1>9. Extended
    BY <1>3, <1>6, <1>7 DEF Extended
<1>10. Happened'
    BY <1>1, <1>2, <1>7 DEF Happened
<1>11. Journalled'
  <2>1. \A k \in 1 .. L :
           /\ journal[k].event \in DOMAIN happened /\ journal[k].event # i
           /\ happened[journal[k].event].at <= journal[k].at /\ journal[k].at <= Now
      BY <1>1, <1>2, <1>3 DEF Journalled, Recorded
  <2>2. happened[i].at <= Now
      BY <1>1, EventTypes
  <2>3. \A k \in 1 .. L + 1 :
           /\ journal'[k].event \in DOMAIN happened
           /\ happened[journal'[k].event].at <= journal'[k].at /\ journal'[k].at <= Now
      BY <1>3, <1>5, <1>6, <1>8, <2>1, <2>2
  <2>4. ASSUME NEW k \in 1 .. L + 1, NEW l \in 1 .. L + 1, k < l
        PROVE  journal'[k].at <= journal'[l].at /\ journal'[k].event # journal'[l].event
    <3>1. k \in 1 .. L
        BY <1>3, <2>4
    <3>2. CASE l \in 1 .. L
        BY <1>1, <1>3, <1>6, <2>4, <3>1, <3>2 DEF Journalled
    <3>3. CASE l = L + 1
        BY <1>5, <1>6, <2>1, <3>1, <3>3
    <3> QED
        BY <1>8, <3>2, <3>3
  <2> QED
      BY <1>6, <1>7, <2>3, <2>4 DEF Journalled
<1>12. /\ Now' \in Nat /\ Now' >= Now /\ Len(journal') \in Nat /\ Len(journal') >= Len(journal)
       /\ UNCHANGED <<checkpoint, seen, paid>>
    BY <1>1, <1>2, <1>3, <1>6, <1>7 DEF L
<1>13. CheckpointHolds'
    BY <1>1, <1>9, <1>12, CheckpointStays
<1>14. CandidatesHold'
    BY <1>1, <1>2, <1>9, <1>12, CandidatesStay
<1>15. NeverShort'
    BY <1>1, <1>7, <1>9, HeldStays
<1> QED
    BY <1>10, <1>11, <1>13, <1>14, <1>15 DEF ContentsInv

(* Candidates come, or go, and nothing else changes.                        *)
LEMMA CandidatesKeep ==
    ASSUME ContentsInv, UNCHANGED <<happened, journal, checkpoint, updates, seen, paid>>,
           \A c \in candidates' : CandidateTrue(c)
    PROVE  ContentsInv'
<1>1. Happened /\ Journalled /\ NeverShort /\ CheckpointHolds
    BY DEF ContentsInv
<1>2. Now' = Now /\ happened' = happened /\ journal' = journal /\ updates' = updates
    BY DEF Now
<1>3. Extended
    BY <1>2 DEF Extended
<1>4. Now' \in Nat /\ Now' >= Now /\ Len(journal') \in Nat /\ Len(journal') >= Len(journal)
    BY <1>1, <1>2, EventTypes, JournalTypes
<1>5. Happened' /\ Journalled'
    BY <1>1, <1>2 DEF Happened, Journalled
<1>6. NeverShort'
    BY <1>1, <1>2, <1>3, HeldStays
<1>7. CheckpointHolds'
    BY <1>1, <1>3, <1>4, CheckpointStays
<1>8. \A c : CandidateTrue(c) => CandidateTrue(c)'
    BY <1>1, <1>3, <1>4, CandidateStays
<1>9. CandidatesHold'
    BY <1>8 DEF CandidatesHold
<1> QED
    BY <1>5, <1>6, <1>7, <1>9 DEF ContentsInv

(* A candidate is discarded.                                                *)
LEMMA DiscardKeeps ==
    ASSUME ContentsInv, NEW c \in candidates, Discard(c)
    PROVE  ContentsInv'
<1>1. \A d \in candidates' : CandidateTrue(d)
    BY DEF Discard, ContentsInv, CandidatesHold
<1> QED
    BY <1>1, CandidatesKeep DEF Discard

(* Nothing changes.                                                         *)
LEMMA StutterKeeps ==
    ASSUME ContentsInv, UNCHANGED contents
    PROVE  ContentsInv'
<1>1. \A c \in candidates' : CandidateTrue(c)
    BY DEF contents, ContentsInv, CandidatesHold
<1> QED
    BY <1>1, CandidatesKeep DEF contents

(* What is projected for a candidate.                                       *)
LEMMA CurrentHolds ==
    ASSUME ContentsInv, NEW t \in Int, Projects(SafeCursor(t))
    PROVE  /\ SafeCursor(t) \in 0 .. Len(journal)
           /\ RecordedUntil(SafeCursor(t), t)
           /\ PortfolioHolds(Current(t), 1 .. SafeCursor(t), seen, paid)
           /\ Current(t) \in Portfolio
<1>1. Happened /\ Journalled /\ CheckpointHolds
    BY DEF ContentsInv
<1>2. SafeCursor(t) \in 0 .. Len(journal) /\ RecordedUntil(SafeCursor(t), t)
    BY <1>1, CursorIs
<1>3. /\ InTime(SafeCursor(t)) /\ ~Projection(SafeCursor(t)).blocked
      /\ SafeCursor(t) >= checkpoint.through
    BY DEF Projects
<1>4. SafeCursor(t) \in checkpoint.through .. Len(journal)
    BY <1>1, <1>2, <1>3, JournalTypes DEF CheckpointHolds
<1>5. HoldsThrough(Projection(SafeCursor(t)), 1 .. SafeCursor(t))
    BY <1>1, <1>3, <1>4, ProjectionHolds
<1>6. PortfolioHolds(Current(t), 1 .. SafeCursor(t), seen, paid)
    BY <1>3, <1>5 DEF HoldsThrough, Current
<1> QED
    BY <1>2, <1>6 DEF PortfolioHolds

(* A candidate that observes the truth may be prepared.                     *)
LEMMA PrepareKeeps ==
    ASSUME ContentsInv, NEW t \in Int, t > checkpoint.at, t <= Now,
           Projects(SafeCursor(t)), NEW o, o.at = t, NEW measured,
           Observed(o, Current(t), measured), Prepare(o, measured)
    PROVE  ContentsInv'
<1> DEFINE c == [observed |-> o, through |-> SafeCursor(o.at), current |-> Current(o.at),
                 measured |-> measured, seen |-> seen, paid |-> paid]
<1>1. /\ candidates' = candidates \union {c}
      /\ UNCHANGED <<happened, journal, checkpoint, updates, seen, paid>>
    BY DEF Prepare
<1>2. /\ c.observed = o /\ c.through = SafeCursor(t) /\ c.current = Current(t)
      /\ c.measured = measured /\ c.seen = seen /\ c.paid = paid
    OBVIOUS
<1> HIDE DEF c
<1>3. checkpoint.at \in Nat /\ Now \in Nat /\ Tables(seen, paid, checkpoint.at)
    BY EventTypes DEF ContentsInv, CheckpointHolds
<1>4. Tables(seen, paid, t)
  <2>1. 0 .. checkpoint.at \subseteq 0 .. t
      BY <1>3
  <2> QED
      BY <1>3, <2>1 DEF Tables
<1>5. t \in 0 .. Now
    BY <1>3
<1>6. /\ SafeCursor(t) \in 0 .. Len(journal) /\ RecordedUntil(SafeCursor(t), t)
      /\ PortfolioHolds(Current(t), 1 .. SafeCursor(t), seen, paid)
    BY CurrentHolds
<1>7. CandidateTrue(c)
    BY <1>2, <1>4, <1>5, <1>6 DEF CandidateTrue
<1>8. \A d \in candidates' : CandidateTrue(d)
    BY <1>1, <1>7 DEF ContentsInv, CandidatesHold
<1> QED
    BY <1>1, <1>8, CandidatesKeep

(* What an account holds is a quantity, and what it was paid an amount.     *)
LEMMA WhatThereIs ==
    ASSUME ContentsInv, NEW a \in Accounts, NEW t \in 0 .. Now
    PROVE  /\ Money(a, t) \in Int
           /\ \A x \in Assets : Held(a, x, t) \in Nat
<1>1. Happened /\ NeverShort
    BY DEF ContentsInv
<1>2. \A S \in SUBSET DOMAIN happened : Total(S) \in Int
    BY <1>1, TotalRules
<1>3. \A S : S \intersect Until(t) \in SUBSET DOMAIN happened
    BY DEF Until
<1>4. Money(a, t) \in Int
    BY <1>2, <1>3, ContentsAssumption DEF Money
<1>5. ASSUME NEW x \in Assets PROVE Held(a, x, t) \in Nat
  <2>1. Held(a, x, t) \in Int
      BY <1>2, <1>3, ContentsAssumption DEF Held
  <2>2. Held(a, x, t) >= 0
      BY <1>1 DEF NeverShort
  <2> QED
      BY <2>1, <2>2
<1> QED
    BY <1>4, <1>5

(* An account that is seen as a whole.                                      *)
Whole(a, t, P, c, h, m) ==
    [Blank({a}, t) EXCEPT !.positions[a] = P, !.cash[a] = c, !.holdings[a] = h, !.money[a] = m]

(* The parts of such an observation.                                        *)
LEMMA FilledIs ==
    ASSUME NEW a \in Accounts, NEW t \in Nat,
           NEW P \in [Assets -> Position \union {Absent}], NEW c \in Int \union {Absent},
           NEW h \in Labels, NEW m \in Labels,
           NEW o, o = Whole(a, t, P, c, h, m)
    PROVE  /\ o \in Observation /\ o.scope = {a} /\ o.at = t
           /\ o.positions[a] = P /\ o.cash[a] = c /\ o.holdings[a] = h /\ o.money[a] = m
<1> DEFINE positions == [b \in Accounts |-> IF b = a THEN P ELSE [x \in Assets |-> Absent]]
           cash == [b \in Accounts |-> IF b = a THEN c ELSE Absent]
           holdings == [b \in Accounts |-> IF b = a THEN h ELSE "unknown"]
           money == [b \in Accounts |-> IF b = a THEN m ELSE "unknown"]
<1>1. o = [scope |-> {a}, at |-> t, positions |-> positions, cash |-> cash,
           holdings |-> holdings, money |-> money]
    BY DEF Whole, Blank
<1>2. /\ positions \in [Accounts -> [Assets -> Position \union {Absent}]] /\ positions[a] = P
      /\ cash \in [Accounts -> Int \union {Absent}] /\ cash[a] = c
      /\ holdings \in [Accounts -> Labels] /\ holdings[a] = h
      /\ money \in [Accounts -> Labels] /\ money[a] = m
    BY DEF Labels
<1> HIDE DEF positions, cash, holdings, money
<1> QED
    BY <1>1, <1>2 DEF Observation

(* One row that is stated, ...                                              *)
OneRow(a, t, x, pos) ==
    [Blank({a}, t) EXCEPT !.positions[a][x] = pos, !.holdings[a] = "partial"]

(* The parts of such an observation.                                        *)
LEMMA RowStated ==
    ASSUME NEW a \in Accounts, NEW t \in Nat, NEW x \in Assets, NEW pos \in Position,
           NEW o, o = OneRow(a, t, x, pos)
    PROVE  /\ o \in Observation /\ o.scope = {a} /\ o.at = t
           /\ \A y \in Assets : o.positions[a][y] = IF y = x THEN pos ELSE Absent
           /\ o.holdings[a] = "partial" /\ o.money[a] = "unknown"
<1> DEFINE none == [y \in Assets |-> Absent]
           positions == [[b \in Accounts |-> none] EXCEPT ![a] = [none EXCEPT ![x] = pos]]
           cash == [b \in Accounts |-> Absent]
           holdings == [b \in Accounts |-> IF b = a THEN "partial" ELSE "unknown"]
           money == [b \in Accounts |-> "unknown"]
<1>1. o = [scope |-> {a}, at |-> t, positions |-> positions, cash |-> cash,
           holdings |-> holdings, money |-> money]
    BY DEF OneRow, Blank
<1>2. /\ positions \in [Accounts -> [Assets -> Position \union {Absent}]]
      /\ \A y \in Assets : positions[a][y] = IF y = x THEN pos ELSE Absent
      /\ cash \in [Accounts -> Int \union {Absent}]
      /\ holdings \in [Accounts -> Labels] /\ holdings[a] = "partial"
      /\ money \in [Accounts -> Labels] /\ money[a] = "unknown"
    BY DEF Labels
<1> HIDE DEF positions, cash, holdings, money
<1> QED
    BY <1>1, <1>2 DEF Observation

(* ... or an amount of cash.                                                *)
LEMMA CashStated ==
    ASSUME NEW a \in Accounts, NEW t \in Nat, NEW c \in Int, NEW o, o = StatedCash(t, a, c)
    PROVE  /\ o \in Observation /\ o.scope = {a} /\ o.at = t
           /\ \A y \in Assets : o.positions[a][y] = Absent
           /\ o.holdings[a] = "unknown" /\ o.money[a] = "partial"
<1> DEFINE positions == [b \in Accounts |-> [y \in Assets |-> Absent]]
           cash == [b \in Accounts |-> IF b = a THEN c ELSE Absent]
           holdings == [b \in Accounts |-> "unknown"]
           money == [b \in Accounts |-> IF b = a THEN "partial" ELSE "unknown"]
<1>1. o = [scope |-> {a}, at |-> t, positions |-> positions, cash |-> cash,
           holdings |-> holdings, money |-> money]
    BY DEF Blank, StatedCash
<1>2. /\ positions \in [Accounts -> [Assets -> Position \union {Absent}]]
      /\ \A y \in Assets : positions[a][y] = Absent
      /\ cash \in [Accounts -> Int \union {Absent}]
      /\ holdings \in [Accounts -> Labels] /\ holdings[a] = "unknown"
      /\ money \in [Accounts -> Labels] /\ money[a] = "partial"
    BY DEF Labels
<1> HIDE DEF positions, cash, holdings, money
<1> QED
    BY <1>1, <1>2 DEF Observation

(* The rows of the current portfolio that a preview starts from.            *)
LEMMA CurrentRows ==
    ASSUME NEW p, NEW R, NEW S, NEW P, PortfolioHolds(p, R, S, P),
           NEW a \in Accounts, NEW x \in Assets, NEW pos, pos = p.positions[a][x]
    PROVE  /\ pos \in Position \union {Absent}
           /\ pos # Absent => pos \in Position /\ (pos.valued # Absent => pos.valued = pos.quantity)
<1>1. p \in Portfolio /\ PositionHolds(a, x, pos, R, S[a][x])
    BY DEF PortfolioHolds
<1>2. pos \in Position \union {Absent}
    BY <1>1 DEF Portfolio
<1> QED
    BY <1>1, <1>2 DEF PositionHolds

(* account_snapshot_to_observed_portfolio: a row has the quantity that was  *)
(* seen, and a valuation only for it.                                       *)
LEMMA SeenRowIs ==
    ASSUME NEW pos, pos # Absent => pos \in Position /\ (pos.valued # Absent => pos.valued = pos.quantity),
           NEW quantity \in Nat, NEW valued \in BOOLEAN, NEW r, r = SeenRow(pos, quantity, valued)
    PROVE  /\ r \in Position /\ r # Absent
           /\ r.quantity = quantity /\ r.known
           /\ r.valued # Absent => r.valued = quantity
<1> DEFINE v == IF valued THEN quantity
                ELSE IF pos # Absent /\ pos.quantity = quantity THEN pos.valued ELSE Absent
<1>1. r = [quantity |-> quantity, known |-> TRUE, valued |-> v]
    BY DEF SeenRow
<1>2. v # Absent => v = quantity
    OBVIOUS
<1>3. v \in Nat \union {Absent}
    BY <1>2
<1> HIDE DEF v
<1>4. r \in Position
    BY <1>1, <1>3 DEF Position
<1>5. r # Absent
    BY <1>4, AbsentIsNothing
<1>6. r.quantity = quantity /\ r.known = TRUE /\ r.valued = v
    BY <1>1
<1> QED
    BY <1>2, <1>4, <1>5, <1>6

(* A row that the owner states, or states a value for.                      *)
Stated(a, t, x, pos, old, measured) ==
    /\ pos \in Position /\ (pos.valued # Absent => pos.valued = pos.quantity)
    /\ pos.known => IF measured THEN pos.quantity = Held(a, x, t)
                    ELSE old # Absent /\ old.known /\ pos.quantity = old.quantity

(* A row that is stated is observed, and nothing else is.                   *)
LEMMA RowObserved ==
    ASSUME ContentsInv, NEW t \in 0 .. Now, NEW p, NEW a \in Accounts, NEW x \in Assets,
           NEW pos, NEW measured, Stated(a, t, x, pos, p.positions[a][x], measured),
           NEW o, o = OneRow(a, t, x, pos)
    PROVE  Observed(o, p, measured) /\ o.at = t
<1>0. pos \in Position
    BY DEF Stated
<1>1. t \in Nat
    OBVIOUS
<1>2. /\ o \in Observation /\ o.scope = {a} /\ o.at = t
      /\ \A y \in Assets : o.positions[a][y] = IF y = x THEN pos ELSE Absent
      /\ o.holdings[a] = "partial" /\ o.money[a] = "unknown"
    BY <1>0, <1>1, RowStated
<1>3. ASSUME NEW y \in Assets
      PROVE  RowSeen(a, y, o.positions[a][y], p.positions[a][y], o, measured)
    BY <1>0, <1>2, AbsentIsNothing DEF RowSeen, Stated
<1> QED
    BY <1>2, <1>3 DEF Observed

(* What a preview may be prepared from.                                     *)
Prepares(t) ==
    /\ t \in 0 .. Now /\ t \in Int /\ t > checkpoint.at /\ t <= Now
    /\ Projects(SafeCursor(t))

(* A preview starts from a projection that is true, and may prepare what    *)
(* is.                                                                      *)
LEMMA PreparedFrom ==
    ASSUME ContentsInv, NEW t, Prepares(t)
    PROVE  /\ PortfolioHolds(Current(t), 1 .. SafeCursor(t), seen, paid) /\ Current(t) \in Portfolio
           /\ \A o, measured : Observed(o, Current(t), measured) /\ o.at = t
                                  /\ Prepare(o, measured) => ContentsInv'
<1>1. t \in Int /\ t > checkpoint.at /\ t <= Now /\ Projects(SafeCursor(t))
    BY DEF Prepares
<1> QED
    BY <1>1, CurrentHolds, PrepareKeeps

(* What the broker or a full observation says of an account is true.        *)
Answered(a, t, S, valued, zeroes, c, h, m) ==
    /\ valued \in BOOLEAN /\ zeroes \in BOOLEAN
    /\ S \in SUBSET Assets /\ c \in Int \union {Absent} /\ h \in Labels /\ m \in Labels
    /\ h = "complete" => S = Assets
    /\ m = "complete" => Amount(c) = Money(a, t)

(* A whole account that was answered for may be prepared.                   *)
LEMMA AnswerKeeps ==
    ASSUME ContentsInv, NEW a \in Accounts, NEW t, Prepares(t), NEW S, NEW valued, NEW zeroes,
           NEW c, NEW h, NEW m, Answered(a, t, S, valued, zeroes, c, h, m),
           Prepare(Whole(a, t, SeenPositions(a, t, S, valued, zeroes), c, h, m), TRUE)
    PROVE  ContentsInv'
<1>a. /\ valued \in BOOLEAN /\ zeroes \in BOOLEAN
      /\ S \in SUBSET Assets /\ c \in Int \union {Absent} /\ h \in Labels /\ m \in Labels
      /\ h = "complete" => S = Assets
      /\ m = "complete" => Amount(c) = Money(a, t)
    BY DEF Answered
<1> DEFINE P == SeenPositions(a, t, S, valued, zeroes)
           p == Current(t)
           o == Whole(a, t, P, c, h, m)
<1>o. Prepare(o, TRUE)
    OBVIOUS
<1>b. valued \in BOOLEAN /\ c \in Int \union {Absent} /\ h \in Labels /\ m \in Labels
    BY <1>a
<1>1. t \in Nat /\ t \in 0 .. Now
    BY DEF Prepares
<1>2. \A x \in Assets : Held(a, x, t) \in Nat
    BY <1>1, WhatThereIs
<1>3. \A x \in Assets :
         P[x] = IF x \in S /\ (Held(a, x, t) > 0 \/ zeroes)
                THEN SeenRow(p.positions[a][x], Held(a, x, t), valued) ELSE Absent
    BY DEF SeenPositions
<1>4. DOMAIN P = Assets /\ P = [x \in Assets |-> P[x]]
    BY DEF SeenPositions
<1> HIDE DEF P, p
<1>5. ASSUME NEW x \in Assets
      PROVE  IF P[x] = Absent THEN x \notin S \/ Held(a, x, t) = 0
             ELSE /\ P[x] \in Position /\ P[x].quantity = Held(a, x, t)
                  /\ P[x].valued # Absent => P[x].valued = P[x].quantity
  <2>1. CASE x \in S /\ (Held(a, x, t) > 0 \/ zeroes)
    <3> DEFINE pos == p.positions[a][x]
               q == Held(a, x, t)
    <3>1. pos # Absent => pos \in Position /\ (pos.valued # Absent => pos.valued = pos.quantity)
        BY PreparedFrom, CurrentRows DEF p
    <3>2. P[x] = SeenRow(pos, q, valued) /\ q \in Nat
        BY <1>2, <1>3, <2>1
    <3> HIDE DEF pos, q
    <3>3. /\ P[x] \in Position /\ P[x] # Absent /\ P[x].quantity = q
          /\ P[x].valued # Absent => P[x].valued = q
      <4>1. \A r : r = SeenRow(pos, q, valued) =>
               /\ r \in Position /\ r # Absent /\ r.quantity = q
               /\ r.valued # Absent => r.valued = q
          BY <1>b, <3>1, <3>2, SeenRowIs
      <4> QED
          BY <3>2, <4>1
    <3> QED
        BY <3>3 DEF q
  <2>2. CASE ~ (x \in S /\ (Held(a, x, t) > 0 \/ zeroes))
      BY <1>2, <1>3, <2>2
  <2> QED
      BY <2>1, <2>2
<1>6. P \in [Assets -> Position \union {Absent}]
  <2>1. \A x \in Assets : P[x] \in Position \union {Absent}
      BY <1>5
  <2> QED
      BY <1>4, <2>1
<1>7. /\ o \in Observation /\ o.scope = {a} /\ o.at = t
      /\ o.positions[a] = P /\ o.cash[a] = c /\ o.holdings[a] = h /\ o.money[a] = m
  <2>1. o = Whole(a, t, P, c, h, m)
      BY DEF P
  <2>2. PICK r, Q : r = o /\ Q = P
      OBVIOUS
  <2>3. /\ t \in Nat /\ Q \in [Assets -> Position \union {Absent}]
        /\ r = Whole(a, t, Q, c, h, m)
      BY <1>1, <1>6, <2>1, <2>2
  <2> HIDE DEF o
  <2>4. /\ r \in Observation /\ r.scope = {a} /\ r.at = t
        /\ r.positions[a] = Q /\ r.cash[a] = c /\ r.holdings[a] = h /\ r.money[a] = m
      BY <1>b, <2>3, FilledIs
  <2> QED
      BY <2>2, <2>4
<1> HIDE DEF o
<1>8. ASSUME NEW x \in Assets
      PROVE  RowSeen(a, x, o.positions[a][x], Current(t).positions[a][x], o, TRUE)
    BY <1>a, <1>5, <1>7 DEF RowSeen
<1>9. Observed(o, Current(t), TRUE) /\ o.at = t
    BY <1>a, <1>7, <1>8 DEF Observed
<1> QED
    BY <1>o, <1>9, PreparedFrom

(* A row that was stated may be prepared.                                   *)
LEMMA StatementKeeps ==
    ASSUME ContentsInv, NEW a \in Accounts, NEW t, Prepares(t), NEW x \in Assets,
           NEW pos, NEW measured, Stated(a, t, x, pos, Current(t).positions[a][x], measured),
           Prepare(OneRow(a, t, x, pos), measured)
    PROVE  ContentsInv'
<1> DEFINE o == OneRow(a, t, x, pos)
           p == Current(t)
<1>1. o = OneRow(a, t, x, pos) /\ Prepare(o, measured) /\ t \in 0 .. Now
      /\ Stated(a, t, x, pos, p.positions[a][x], measured)
    BY DEF Prepares
<1> HIDE DEF o, p
<1>2. Observed(o, p, measured) /\ o.at = t
    BY <1>1, RowObserved
<1> QED
    BY <1>1, <1>2, PreparedFrom DEF p

(* build_account_sync_preview.                                              *)
LEMMA SyncKeeps ==
    ASSUME ContentsInv, NEW s \in Snapshots, SyncPreview(s)
    PROVE  ContentsInv'
<1> DEFINE a == s.account
           t == s.at
           o == ObservedBy(s)
           label(state) == IF state = "complete" THEN "complete" ELSE "unknown"
           S == IF s.holdings = "complete" THEN Assets ELSE {}
           c == IF s.money = "complete" /\ (s.listed \/ Money(a, t) # 0) THEN Money(a, t)
                ELSE Absent
           h == label(s.holdings)
           m == label(s.money)
           valued == s.valued
           zeroes == s.zeroes
<1>1. /\ a \in Accounts /\ t \in 0 .. Now + 1 /\ valued \in BOOLEAN /\ zeroes \in BOOLEAN
    BY DEF Snapshots
<1>2. /\ t <= Now /\ t > checkpoint.at /\ Projects(SafeCursor(t)) /\ Prepare(o, TRUE)
    BY DEF SyncPreview, Valid
<1>3. Prepares(t)
  <2>1. Now \in Nat /\ checkpoint.at \in Nat
      BY EventTypes DEF ContentsInv, CheckpointHolds
  <2> QED
      BY <1>1, <1>2, <2>1 DEF Prepares
<1>4. o = Whole(a, t, SeenPositions(a, t, S, valued, zeroes), c, h, m)
    BY DEF ObservedBy, Whole
<1>5. Money(a, t) \in Int
    BY <1>1, <1>3, WhatThereIs DEF Prepares
<1>6. /\ h \in Labels /\ m \in Labels /\ S \in SUBSET Assets
      /\ h = "complete" => S = Assets
      /\ m = "complete" => s.money = "complete"
    BY DEF Labels
<1>7. c \in Int \union {Absent}
    BY <1>5
<1>8. s.money = "complete" => Amount(c) = Money(a, t)
    BY <1>5, AbsentIsNothing DEF Amount
<1>9. Answered(a, t, S, valued, zeroes, c, h, m)
    BY <1>1, <1>6, <1>7, <1>8 DEF Answered
<1>10. Prepare(Whole(a, t, SeenPositions(a, t, S, valued, zeroes), c, h, m), TRUE)
    BY <1>2, <1>4
<1> HIDE DEF a, t, o, S, c, h, m, valued, zeroes
<1> QED
    BY <1>1, <1>3, <1>9, <1>10, AnswerKeeps

(* build_portfolio_update_preview, from a full observation, ...             *)
LEMMA ObservationKeeps ==
    ASSUME ContentsInv, NEW a \in Accounts, NEW t, Prepares(t), ObservationPreview(a, t)
    PROVE  ContentsInv'
<1>1. PICK holdings \in Labels, money \in Labels, valued \in BOOLEAN, S \in SUBSET Assets :
         /\ holdings = "complete" => S = Assets
         /\ holdings = "unknown" => S = {}
         /\ Prepare([Blank({a}, t) EXCEPT
                !.positions[a] = SeenPositions(a, t, S, valued, FALSE),
                !.cash[a] = IF money = "unknown" THEN Absent ELSE Money(a, t),
                !.holdings[a] = holdings, !.money[a] = money], TRUE)
    BY Zenon DEF ObservationPreview
<1> DEFINE c == IF money = "unknown" THEN Absent ELSE Money(a, t)
<1>2. Prepare(Whole(a, t, SeenPositions(a, t, S, valued, FALSE), c, holdings, money), TRUE)
    BY <1>1, Zenon DEF Whole
<1>3. t \in 0 .. Now
    BY DEF Prepares
<1>4. Money(a, t) \in Int
    BY <1>3, WhatThereIs
<1>5. c \in Int \union {Absent} /\ (money = "complete" => Amount(c) = Money(a, t))
    BY <1>4, AbsentIsNothing DEF Amount
<1>6. Answered(a, t, S, valued, FALSE, c, holdings, money)
    BY <1>1, <1>5 DEF Answered
<1> HIDE DEF c
<1> QED
    BY <1>2, <1>6, AnswerKeeps

(* ... from an amount of cash, ...                                          *)
LEMMA CashKeeps ==
    ASSUME ContentsInv, NEW a \in Accounts, NEW t, Prepares(t), CashPreview(a, t)
    PROVE  ContentsInv'
<1> DEFINE o == StatedCash(t, a, Money(a, t))
<1>1. Prepare(o, TRUE)
    BY DEF CashPreview
<1>2. t \in 0 .. Now /\ t \in Nat
    BY DEF Prepares
<1>3. Money(a, t) \in Int
    BY <1>2, WhatThereIs
<1>4. /\ o \in Observation /\ o.scope = {a} /\ o.at = t
      /\ \A y \in Assets : o.positions[a][y] = Absent
      /\ o.holdings[a] = "unknown" /\ o.money[a] = "partial"
    BY <1>2, <1>3, CashStated
<1> HIDE DEF o
<1>5. ASSUME NEW x \in Assets
      PROVE  RowSeen(a, x, o.positions[a][x], Current(t).positions[a][x], o, TRUE)
    BY <1>4 DEF RowSeen
<1>6. Observed(o, Current(t), TRUE)
    BY <1>4, <1>5 DEF Observed
<1> QED
    BY <1>1, <1>4, <1>6, PreparedFrom

(* ... and from what the owner states of a position.                        *)
LEMMA NarrowKeeps ==
    ASSUME ContentsInv, NEW a \in Accounts, NEW t, Prepares(t), NEW x \in Assets,
           NarrowPreview(a, t, x)
    PROVE  ContentsInv'
<1> DEFINE p == Current(t)
           pos == p.positions[a][x]
           held == Held(a, x, t)
<1>1. t \in 0 .. Now /\ t \in Nat
    BY DEF Prepares
<1>2. held \in Nat
    BY <1>1, WhatThereIs
<1>3. /\ pos \in Position \union {Absent}
      /\ pos # Absent => pos \in Position /\ (pos.valued # Absent => pos.valued = pos.quantity)
    BY PreparedFrom, CurrentRows
<1>4. ASSUME NEW new \in Position, NEW measured, Prepare(OneRow(a, t, x, new), measured),
             new.valued # Absent => new.valued = new.quantity,
             new.known => IF measured THEN new.quantity = held
                          ELSE pos # Absent /\ pos.known /\ new.quantity = pos.quantity
      PROVE  ContentsInv'
  <2>1. Stated(a, t, x, new, Current(t).positions[a][x], measured)
      BY <1>4 DEF Stated
  <2> QED
      BY <1>4, <2>1, StatementKeeps
<1>5. CASE Prepare(StatedQuantity(t, a, x, held), TRUE)
  <2> DEFINE new == [quantity |-> held, known |-> TRUE, valued |-> Absent]
  <2>1. Prepare(OneRow(a, t, x, new), TRUE)
      BY <1>5 DEF StatedQuantity, OneRow
  <2>2. new \in Position
      BY <1>2 DEF Position
  <2>3. new.valued = Absent /\ new.quantity = held
      OBVIOUS
  <2> HIDE DEF new
  <2> QED
      BY <2>1, <2>2, <2>3, <1>4
<1>6. ASSUME NEW quantity \in {Absent, held}, NEW valued \in BOOLEAN, pos # Absent,
             Prepare(StatedValues(pos, t, a, x, quantity, valued), quantity # Absent)
      PROVE  ContentsInv'
  <2> DEFINE next == IF quantity = Absent THEN pos.quantity ELSE quantity
             known == quantity # Absent \/ pos.known
             v == IF valued THEN next ELSE IF next = pos.quantity THEN pos.valued ELSE Absent
             new == [quantity |-> next, known |-> known, valued |-> v]
  <2>1. Prepare(OneRow(a, t, x, new), quantity # Absent)
      BY <1>6 DEF StatedValues, OneRow
  <2>2. pos \in Position /\ (pos.valued # Absent => pos.valued = pos.quantity)
      BY <1>3, <1>6
  <2>3. next \in Nat /\ known \in BOOLEAN /\ v \in Nat \union {Absent}
      BY <1>2, <2>2 DEF Position
  <2>4. v # Absent => v = next
      BY <2>2
  <2>5. known => IF quantity # Absent THEN next = held
                 ELSE pos # Absent /\ pos.known /\ next = pos.quantity
      BY <1>6
  <2> HIDE DEF next, known, v
  <2>6. new \in Position /\ new.quantity = next /\ new.known = known /\ new.valued = v
      BY <2>3 DEF Position
  <2> HIDE DEF new, pos
  <2>7. /\ new.valued # Absent => new.valued = new.quantity
        /\ new.known => IF quantity # Absent THEN new.quantity = held
                        ELSE pos # Absent /\ pos.known /\ new.quantity = pos.quantity
      BY <2>4, <2>5, <2>6
  <2> QED
      BY <2>1, <2>6, <2>7, <1>4
<1>7. ASSUME NEW quantity \in {Absent, held}, NEW valued \in BOOLEAN,
             Prepare(Added(t, a, x, quantity, valued), quantity # Absent)
      PROVE  ContentsInv'
  <2> DEFINE next == IF quantity = Absent THEN 0 ELSE quantity
             v == IF ~valued THEN Absent ELSE IF quantity = Absent THEN 0 ELSE quantity
             new == [quantity |-> next, known |-> quantity # Absent, valued |-> v]
  <2>1. Prepare(OneRow(a, t, x, new), quantity # Absent)
      BY <1>7 DEF Added, OneRow
  <2>2. next \in Nat /\ v \in Nat \union {Absent} /\ (v # Absent => v = next)
      BY <1>2
  <2>3. quantity # Absent => next = held
      BY <1>7
  <2> HIDE DEF next, v
  <2>4. new \in Position /\ new.quantity = next /\ (new.known <=> quantity # Absent)
        /\ new.valued = v
      BY <2>2 DEF Position
  <2> HIDE DEF new, pos
  <2>5. /\ new.valued # Absent => new.valued = new.quantity
        /\ new.known => IF quantity # Absent THEN new.quantity = held
                        ELSE pos # Absent /\ pos.known /\ new.quantity = pos.quantity
      BY <2>2, <2>3, <2>4
  <2> QED
      BY <2>1, <2>4, <2>5, <1>4
<1> QED
    BY <1>5, <1>6, <1>7 DEF NarrowPreview

(* A preview.                                                               *)
LEMMA PreviewKeeps ==
    ASSUME ContentsInv, Preview
    PROVE  ContentsInv'
<1>1. ASSUME NEW s \in Snapshots, SyncPreview(s) PROVE ContentsInv'
    BY <1>1, SyncKeeps
<1>2. ASSUME NEW a \in Accounts, NEW t \in Now - Lag .. Now, UpdatePreview(a, t)
      PROVE  ContentsInv'
  <2>1. Now \in Nat /\ checkpoint.at \in Nat /\ Lag \in Nat
      BY EventTypes, ContentsAssumption DEF ContentsInv, CheckpointHolds
  <2>2. t > checkpoint.at /\ Projects(SafeCursor(t))
      BY <1>2 DEF UpdatePreview
  <2>3. Prepares(t)
      BY <2>1, <2>2 DEF Prepares
  <2> QED
      BY <1>2, <2>3, ObservationKeeps, CashKeeps, NarrowKeeps DEF UpdatePreview
<1> QED
    BY <1>1, <1>2 DEF Preview

(* What was recorded until a time is of what had happened by then.          *)
LEMMA CountedUntil ==
    ASSUME Happened, Journalled, NEW a \in Accounts, NEW x, NEW t \in Int, NEW n \in 0 .. Len(journal),
           RecordedUntil(n, t)
    PROVE  /\ HeldAtFirst[a][x] + TradedBy(a, x, t, 1 .. n) = Held(a, x, t)
           /\ MoneyAtFirst[a] + PaidBy(a, t, 1 .. n) = Money(a, t)
<1> DEFINE C == CountedBy(a, t, 1 .. n)
<1>1. \A k \in 1 .. n : k \in DOMAIN journal /\ journal[k].at <= t
    BY JournalTypes DEF RecordedUntil
<1>2. \A k \in 1 .. n : happened[journal[k].event].at <= t
  <2>1. ASSUME NEW k \in 1 .. n PROVE happened[journal[k].event].at <= t
    <3>1. /\ k \in DOMAIN journal /\ journal[k].at <= t /\ journal[k].at \in Nat
          /\ journal[k].event \in DOMAIN happened
          /\ happened[journal[k].event].at <= journal[k].at
        BY <1>1, JournalTypes DEF Journalled
    <3>2. happened[journal[k].event].at \in Nat
        BY <3>1, EventTypes
    <3> QED
        BY <3>1, <3>2
  <2> QED
      BY <2>1
<1>3. C = Payments(a) \intersect Until(t)
    BY <1>2 DEF CountedBy, Payments, Until
<1> HIDE DEF C
<1>4. /\ C \intersect Moves(a, x) = Moves(a, x) \intersect Until(t)
      /\ C \ Bought(a) = (Payments(a) \ Bought(a)) \intersect Until(t)
      /\ C \intersect Bought(a) = Bought(a) \intersect Until(t)
    BY <1>3 DEF Moves, Bought
<1>5. /\ TradedBy(a, x, t, 1 .. n) = Total(C \intersect Moves(a, x))
      /\ PaidBy(a, t, 1 .. n) = Total(C \ Bought(a)) - Total(C \intersect Bought(a))
    BY DEF TradedBy, PaidBy, C
<1>6. /\ C \ Bought(a) \in SUBSET DOMAIN happened
      /\ C \intersect Bought(a) \in SUBSET DOMAIN happened
    BY CountedAreEvents DEF C
<1>7. Total(C \ Bought(a)) \in Int /\ Total(C \intersect Bought(a)) \in Int
      /\ MoneyAtFirst[a] \in Int
    BY <1>6, TotalRules, ContentsAssumption
<1>8. /\ Total(C \intersect Moves(a, x)) = Total(Moves(a, x) \intersect Until(t))
      /\ Total(C \ Bought(a)) = Total((Payments(a) \ Bought(a)) \intersect Until(t))
      /\ Total(C \intersect Bought(a)) = Total(Bought(a) \intersect Until(t))
    BY <1>4, Zenon
<1> QED
    BY <1>5, <1>7, <1>8 DEF Held, Money

(* The first portfolio.                                                     *)
LEMMA ContentsStart ==
    ASSUME ContentsInit
    PROVE  ContentsInv
<1>1. /\ happened = << >> /\ journal = << >> /\ candidates = {} /\ updates = 0
      /\ checkpoint = [base |-> Begin, at |-> 0, through |-> 0]
      /\ seen = [a \in Accounts |-> [x \in Assets |-> IF BeginSeen[a][x] THEN 0 ELSE Absent]]
      /\ paid = [a \in Accounts |-> IF Begin.money[a] = "complete" THEN 0 ELSE Absent]
    BY DEF ContentsInit
<1>2. Len(happened) = 0 /\ Len(journal) = 0 /\ Now = 0 /\ DOMAIN happened = {}
      /\ DOMAIN journal = {} /\ MaxUpdates \in Nat
    BY <1>1, ContentsAssumption DEF Now
<1>3. Happened
    BY <1>1, <1>2 DEF Happened
<1>4. Journalled
    BY <1>1, <1>2 DEF Journalled
<1>5. \A S : S \in SUBSET DOMAIN happened => Total(S) = 0
  <2>1. \A S : S \in SUBSET DOMAIN happened => S = {}
      BY <1>2
  <2> QED
      BY <1>3, <2>1, TotalRules
<1>6. NeverShort
  <2>1. \A a \in Accounts, x \in Assets, t \in 0 .. Now : Held(a, x, t) = HeldAtFirst[a][x] + 0
    <3>1. \A a, x, t : Moves(a, x) \intersect Until(t) \in SUBSET DOMAIN happened
        BY DEF Until
    <3> QED
        BY <1>5, <3>1 DEF Held
  <2> QED
      BY <2>1, ContentsAssumption DEF NeverShort
<1>7. CheckpointHolds
  <2>1. checkpoint.base = Begin /\ checkpoint.at = 0 /\ checkpoint.through = 0
        /\ Begin \in Portfolio
      BY <1>1, FactsAssumption
  <2>2. checkpoint \in [base: Portfolio, at: 0 .. Now, through: 0 .. Len(journal)]
      BY <1>1, <1>2, <2>1
  <2>3. ASSUME NEW a \in Accounts, NEW x \in Assets
        PROVE  PositionHolds(a, x, Begin.positions[a][x], 1 .. 0, seen[a][x])
    <3>1. TradedBy(a, x, seen[a][x], 1 .. 0) = 0
        BY <1>5, CountedAreEvents DEF TradedBy
    <3>2. seen[a][x] # Absent => BeginSeen[a][x]
        BY <1>1
    <3> DEFINE pos == Begin.positions[a][x]
    <3>3. /\ BeginSeen[a][x] => /\ pos # Absent => pos.known
                                /\ Quantity(pos) = HeldAtFirst[a][x]
          /\ pos # Absent /\ pos.valued # Absent => pos.valued = pos.quantity
        BY BeginAssumption
    <3> HIDE DEF pos
    <3>4. HeldAtFirst[a][x] \in Int
        BY ContentsAssumption
    <3>5. PositionHolds(a, x, pos, 1 .. 0, seen[a][x])
        BY <3>1, <3>2, <3>3, <3>4 DEF PositionHolds
    <3> QED
        BY <3>5 DEF pos
  <2>4. ASSUME NEW a \in Accounts, Begin.money[a] = "complete"
        PROVE  CashHolds(a, Begin.cash[a], 1 .. 0, paid[a])
    <3>1. PaidBy(a, paid[a], 1 .. 0) = 0 - 0
      <4> DEFINE C == CountedBy(a, paid[a], 1 .. 0)
      <4>1. C \ Bought(a) \in SUBSET DOMAIN happened
            /\ C \intersect Bought(a) \in SUBSET DOMAIN happened
          BY DEF CountedBy, Payments
      <4>2. PaidBy(a, paid[a], 1 .. 0) = Total(C \ Bought(a)) - Total(C \intersect Bought(a))
          BY DEF PaidBy
      <4> QED
          BY <1>5, <4>1, <4>2
    <3>2. Amount(Begin.cash[a]) = MoneyAtFirst[a] /\ MoneyAtFirst[a] \in Int
        BY <2>4, BeginAssumption, ContentsAssumption
    <3> QED
        BY <3>1, <3>2 DEF CashHolds
  <2>5. PortfolioHolds(Begin, 1 .. 0, seen, paid)
      BY <2>1, <2>3, <2>4 DEF PortfolioHolds
  <2>6. RecordedUntil(0, 0)
      BY DEF RecordedUntil
  <2> QED
      BY <1>1, <2>1, <2>2, <2>5, <2>6 DEF CheckpointHolds, Tables
<1>8. CandidatesHold
    BY <1>1 DEF CandidatesHold
<1> QED
    BY <1>3, <1>4, <1>6, <1>7, <1>8 DEF ContentsInv

(* A candidate that is applied.                                             *)
LEMMA MergedIs ==
    ASSUME NEW pos, pos # Absent => (pos.valued # Absent => pos.valued = pos.quantity),
           NEW new \in Position, new.valued # Absent => new.valued = new.quantity,
           pos \in Position \union {Absent},
           NEW r, r = Merged(pos, new)
    PROVE  /\ r \in Position /\ r # Absent
           /\ r.quantity = new.quantity /\ r.known = new.known
           /\ r.valued # Absent => r.valued = r.quantity
<1>1. new \in Position
    OBVIOUS
<1>2. CASE pos = Absent
    BY <1>2, AbsentIsNothing DEF Merged
<1>3. CASE pos # Absent
  <2> DEFINE v == IF new.valued = Absent /\ pos.quantity = new.quantity THEN pos.valued
                  ELSE new.valued
  <2>1. /\ new = [quantity |-> new.quantity, known |-> new.known, valued |-> new.valued]
        /\ new.quantity \in Nat /\ new.known \in BOOLEAN /\ new.valued \in Nat \union {Absent}
      BY DEF Position
  <2>2. r = [quantity |-> new.quantity, known |-> new.known, valued |-> v]
    <3>1. \A w : [new EXCEPT !.valued = w] =
             [quantity |-> new.quantity, known |-> new.known, valued |-> w]
        BY <2>1
    <3>2. r = [new EXCEPT !.valued = v]
        BY <1>3 DEF Merged
    <3> QED
        BY <3>1, <3>2
  <2>3. v \in Nat \union {Absent}
      BY <1>3, <2>1 DEF Position
  <2>4. v # Absent => v = new.quantity
      BY <1>3
  <2> HIDE DEF v
  <2>5. r \in Position
      BY <2>1, <2>2, <2>3 DEF Position
  <2>6. r # Absent
      BY <2>5, AbsentIsNothing
  <2> QED
      BY <2>2, <2>4, <2>5, <2>6
<1> QED
    BY <1>2, <1>3

(* When a position, and an account's cash, was last seen.                   *)
SeenThen(a, x, o, measured, old) ==
    IF a \notin o.scope THEN old
    ELSE IF o.positions[a][x] = Absent
         THEN IF o.holdings[a] = "complete" THEN o.at ELSE old
    ELSE IF ~o.positions[a][x].known THEN Absent
    ELSE IF measured THEN o.at ELSE old

PaidThen(a, o, old) ==
    IF a \in o.scope /\ (o.cash[a] # Absent \/ o.money[a] = "complete") THEN o.at ELSE old

(* A row of the base that a candidate makes.                                *)
LEMMA RowAfter ==
    ASSUME Happened, Journalled, NEW c, CandidateTrue(c),
           NEW o, o = c.observed, NEW p, p = c.current, NEW n, n = c.through,
           NEW measured, measured = c.measured,
           NEW a \in Accounts, NEW x \in Assets,
           NEW before, before = c.seen[a][x],
           NEW since, since = SeenThen(a, x, o, measured, before),
           NEW pos, pos = Reconciled(p, o).positions[a][x]
    PROVE  /\ pos \in Position \union {Absent}
           /\ since \in (0 .. o.at) \union {Absent}
           /\ pos # Absent /\ pos.valued # Absent => pos.valued = pos.quantity
           /\ since # Absent =>
                 /\ pos # Absent => pos.known
                 /\ Quantity(pos) = HeldAtFirst[a][x] + TradedBy(a, x, since, 1 .. n)
<1> DEFINE old == p.positions[a][x]
           new == o.positions[a][x]
<1>1. /\ n \in 0 .. Len(journal) /\ o.at \in 0 .. Now /\ RecordedUntil(n, o.at)
      /\ PortfolioHolds(p, 1 .. n, c.seen, c.paid) /\ Observed(o, p, measured)
      /\ Tables(c.seen, c.paid, o.at)
    BY DEF CandidateTrue
<1>3. n \in 0 .. Len(journal) /\ o.at \in Nat
    BY <1>1
<1>4. o \in Observation /\ p \in Portfolio /\ PositionHolds(a, x, old, 1 .. n, before)
    BY <1>1 DEF Observed, PortfolioHolds
<1>5. old \in Position \union {Absent} /\ new \in Position \union {Absent}
    BY <1>4 DEF Observation, Portfolio
<1>6. HeldAtFirst[a][x] + TradedBy(a, x, o.at, 1 .. n) = Held(a, x, o.at)
    BY <1>1, <1>3, CountedUntil
<1>7. /\ old # Absent /\ old.valued # Absent => old.valued = old.quantity
      /\ before # Absent =>
            /\ old # Absent => old.known
            /\ Quantity(old) = HeldAtFirst[a][x] + TradedBy(a, x, before, 1 .. n)
    BY <1>4 DEF PositionHolds
<1>8. before \in (0 .. o.at) \union {Absent}
    BY <1>1 DEF Tables
<1>9. pos = IF a \notin o.scope THEN old
            ELSE IF new = Absent THEN Remaining(o.holdings[a], old) ELSE Merged(old, new)
    BY DEF Reconciled, PositionsAfter
<1>10. a \in o.scope => RowSeen(a, x, new, old, o, measured)
    BY <1>1 DEF Observed
<1>11. since = IF a \notin o.scope THEN before
               ELSE IF new = Absent
                    THEN IF o.holdings[a] = "complete" THEN o.at ELSE before
               ELSE IF ~new.known THEN Absent
               ELSE IF measured THEN o.at ELSE before
    BY DEF SeenThen
<1> HIDE DEF old, new
<1>12. CASE a \notin o.scope
    BY <1>5, <1>7, <1>8, <1>9, <1>11, <1>12
<1>13. CASE a \in o.scope /\ new = Absent /\ o.holdings[a] = "complete"
  <2>1. pos = Absent /\ since = o.at
      BY <1>9, <1>11, <1>13 DEF Remaining
  <2>2. Quantity(pos) = 0 /\ Held(a, x, o.at) = 0
      BY <1>10, <1>13, <2>1 DEF RowSeen, Quantity
  <2> QED
      BY <1>3, <1>6, <2>1, <2>2
<1>14. CASE a \in o.scope /\ new = Absent /\ o.holdings[a] # "complete"
    BY <1>5, <1>7, <1>8, <1>9, <1>11, <1>14 DEF Remaining
<1>15. CASE a \in o.scope /\ new # Absent
  <2>1. new \in Position /\ (new.valued # Absent => new.valued = new.quantity)
        /\ (new.known => IF measured THEN new.quantity = Held(a, x, o.at)
                         ELSE old # Absent /\ old.known /\ new.quantity = old.quantity)
      BY <1>5, <1>10, <1>15 DEF RowSeen
  <2>2. pos = Merged(old, new)
      BY <1>9, <1>15
  <2>3. /\ pos \in Position /\ pos # Absent
        /\ pos.quantity = new.quantity /\ pos.known = new.known
        /\ pos.valued # Absent => pos.valued = pos.quantity
      BY <1>5, <1>7, <2>1, <2>2, MergedIs
  <2>4. Quantity(pos) = new.quantity /\ (old # Absent => Quantity(old) = old.quantity)
      BY <2>3 DEF Quantity
  <2>5. CASE ~new.known
      BY <1>11, <1>15, <2>3, <2>5
  <2>6. CASE new.known /\ measured
      BY <1>3, <1>6, <1>11, <1>15, <2>1, <2>3, <2>4, <2>6
  <2>7. CASE new.known /\ ~measured
      BY <1>7, <1>8, <1>11, <1>15, <2>1, <2>3, <2>4, <2>7
  <2> QED
      BY <2>5, <2>6, <2>7
<1> QED
    BY <1>12, <1>13, <1>14, <1>15

(* The cash of the base that a candidate makes.                             *)
LEMMA CashThen ==
    ASSUME Happened, Journalled, NEW c, CandidateTrue(c),
           NEW o, o = c.observed, NEW p, p = c.current, NEW n, n = c.through,
           NEW a \in Accounts, NEW before, before = c.paid[a],
           NEW since, since = PaidThen(a, o, before),
           NEW q, q = Reconciled(p, o)
    PROVE  /\ q.cash[a] \in Int \union {Absent}
           /\ q.holdings[a] \in Labels /\ q.money[a] \in Labels
           /\ since \in (0 .. o.at) \union {Absent}
           /\ q.money[a] = "complete" /\ since # Absent =>
                 Amount(q.cash[a]) = MoneyAtFirst[a] + PaidBy(a, since, 1 .. n)
<1>1. /\ n \in 0 .. Len(journal) /\ o.at \in 0 .. Now /\ RecordedUntil(n, o.at)
      /\ PortfolioHolds(p, 1 .. n, c.seen, c.paid)
      /\ \E measured : Observed(o, p, measured)
      /\ Tables(c.seen, c.paid, o.at)
    BY DEF CandidateTrue
<1>3. n \in 0 .. Len(journal) /\ o.at \in Nat
    BY <1>1
<1>4. /\ o \in Observation /\ p \in Portfolio
      /\ p.money[a] = "complete" /\ before # Absent => CashHolds(a, p.cash[a], 1 .. n, before)
      /\ a \in o.scope /\ o.money[a] = "complete" => Amount(o.cash[a]) = Money(a, o.at)
    BY <1>1 DEF Observed, PortfolioHolds
<1>5. /\ p.cash[a] \in Int \union {Absent} /\ o.cash[a] \in Int \union {Absent}
      /\ p.holdings[a] \in Labels /\ o.holdings[a] \in Labels
      /\ p.money[a] \in Labels /\ o.money[a] \in Labels
    BY <1>4 DEF Observation, Portfolio
<1>6. MoneyAtFirst[a] + PaidBy(a, o.at, 1 .. n) = Money(a, o.at)
  <2>1. \A x : /\ HeldAtFirst[a][x] + TradedBy(a, x, o.at, 1 .. n) = Held(a, x, o.at)
               /\ MoneyAtFirst[a] + PaidBy(a, o.at, 1 .. n) = Money(a, o.at)
    <3>1. n \in 0 .. Len(journal) /\ o.at \in Int /\ RecordedUntil(n, o.at)
        BY <1>1, <1>3
    <3> QED
        BY <3>1, CountedUntil
  <2> QED
      BY <2>1
<1>7. before \in (0 .. o.at) \union {Absent}
    BY <1>1 DEF Tables
<1>8. /\ q.cash[a] = IF a \notin o.scope THEN p.cash[a]
                     ELSE IF o.cash[a] = Absent THEN Remaining(o.money[a], p.cash[a])
                     ELSE o.cash[a]
      /\ q.holdings[a] = IF a \in o.scope THEN o.holdings[a] ELSE p.holdings[a]
      /\ q.money[a] = IF a \in o.scope THEN o.money[a] ELSE p.money[a]
    BY DEF Reconciled, CashAfter, LabelsAfter
<1>9. since = IF a \in o.scope /\ (o.cash[a] # Absent \/ o.money[a] = "complete") THEN o.at
              ELSE before
    BY DEF PaidThen
<1>10. since \in (0 .. o.at) \union {Absent}
    BY <1>3, <1>7, <1>9
<1>11. /\ q.cash[a] \in Int \union {Absent} /\ q.holdings[a] \in Labels
       /\ q.money[a] \in Labels
    BY <1>5, <1>8 DEF Remaining
<1>12. ASSUME q.money[a] = "complete", since # Absent
       PROVE  Amount(q.cash[a]) = MoneyAtFirst[a] + PaidBy(a, since, 1 .. n)
  <2>1. CASE a \notin o.scope
      BY <1>4, <1>8, <1>9, <1>12, <2>1 DEF CashHolds
  <2>2. CASE a \in o.scope
    <3>1. o.money[a] = "complete" /\ since = o.at
        BY <1>8, <1>9, <1>12, <2>2
    <3>2. Amount(q.cash[a]) = Amount(o.cash[a])
        BY <1>8, <2>2, <3>1 DEF Remaining, Amount
    <3> QED
        BY <1>4, <1>6, <2>2, <3>1, <3>2
  <2> QED
      BY <2>1, <2>2
<1> QED
    BY <1>10, <1>11, <1>12

(* A candidate that is applied.                                             *)
LEMMA ApplyKeeps ==
    ASSUME ContentsInv, NEW c \in candidates, Apply(c)
    PROVE  ContentsInv'
<1>1. Happened /\ Journalled /\ NeverShort
    BY DEF ContentsInv
<1>3. PICK o : o = c.observed
    OBVIOUS
<1>4. PICK p : p = c.current
    OBVIOUS
<1>5. PICK n : n = c.through
    OBVIOUS
<1>6. PICK measured : measured = c.measured
    OBVIOUS
<1>7. PICK q : q = Reconciled(p, o)
    OBVIOUS
<1>8. /\ updates < MaxUpdates /\ candidates' = candidates \ {c} /\ updates' = updates + 1
      /\ checkpoint' = [base |-> q, at |-> o.at, through |-> n]
      /\ Known(c) /\ happened' = happened /\ journal' = journal
    BY <1>3, <1>4, <1>5, <1>6, <1>7 DEF Apply, Install
<1>9. /\ seen' = [a \in Accounts |-> [x \in Assets |->
                      SeenThen(a, x, o, measured, c.seen[a][x])]]
      /\ paid' = [a \in Accounts |-> PaidThen(a, o, c.paid[a])]
    BY <1>3, <1>6, <1>8 DEF Known, SeenThen, PaidThen
<1>10. CandidateTrue(c)
    BY DEF ContentsInv, CandidatesHold
<1>11. Now' = Now + 1 /\ Now \in Nat /\ Extended /\ updates \in 0 .. MaxUpdates /\ MaxUpdates \in Nat
    BY <1>1, <1>8, EventTypes, ContentsAssumption DEF Now, Extended, Happened
<1>12. /\ \A i \in DOMAIN happened : happened[i].at \in Nat /\ happened[i].at <= Now
       /\ \A k \in DOMAIN journal : journal[k].at \in Nat
       /\ Len(journal) \in Nat /\ DOMAIN journal = 1 .. Len(journal)
    BY <1>1, EventTypes, JournalTypes
<1>13. Happened'
    BY <1>1, <1>8, <1>11, <1>12 DEF Happened
<1>14. Journalled'
    BY <1>1, <1>8, <1>11, <1>12 DEF Journalled
<1>15. NeverShort'
  <2>1. SUFFICES ASSUME NEW a \in Accounts, NEW x \in Assets, NEW t \in 0 .. Now'
                 PROVE  Held(a, x, t)' >= 0
      BY DEF NeverShort
  <2>2. CASE t <= Now
    <3>1. t \in 0 .. Now /\ t \in Int
        BY <1>11, <2>2
    <3> QED
        BY <1>1, <1>11, <2>2, <3>1, AccountsStay DEF NeverShort
  <2>3. CASE t = Now + 1
    <3>1. Held(a, x, Now) >= 0
        BY <1>1, <1>11 DEF NeverShort
    <3>2. Until(t) = Until(Now)
        BY <1>11, <1>12, <2>3 DEF Until
    <3>3. Held(a, x, t) = Held(a, x, Now)
        BY <3>2 DEF Held
    <3>4. Held(a, x, t)' = Held(a, x, t)
      <4>1. Moves(a, x)' = Moves(a, x) /\ Until(t)' = Until(t)
          BY <1>8 DEF Moves, Payments, Until
      <4>2. \A S : Total(S)' = Total(S)
          BY <1>8, TotalThen, TotalIs
      <4> DEFINE S == Moves(a, x) \intersect Until(t)
      <4>3. Held(a, x, t)' = HeldAtFirst[a][x] + Total(S)' /\ S' = S
          BY <4>1 DEF Held
      <4>4. Held(a, x, t) = HeldAtFirst[a][x] + Total(S)
          BY DEF Held
      <4> HIDE DEF S
      <4> QED
          BY <1>8, <4>3, <4>4, TotalThen, TotalIs
    <3> QED
        BY <3>1, <3>3, <3>4
  <2> QED
      BY <1>11, <2>2, <2>3
<1>16. CheckpointHolds'
  <2>1. /\ n \in 0 .. Len(journal) /\ o.at \in 0 .. Now
        /\ RecordedUntil(n, o.at) /\ o \in Observation
      BY <1>3, <1>5, <1>10 DEF CandidateTrue, Observed
  <2>2. /\ n \in 0 .. Len(journal) /\ o.at \in 0 .. Now /\ o.at \in 0 .. Now'
        /\ 1 .. n \in SUBSET DOMAIN journal
      BY <1>11, <1>12, <2>1
  <2>3. ASSUME NEW a \in Accounts, NEW x \in Assets, NEW pos, pos = q.positions[a][x],
               NEW since, since = SeenThen(a, x, o, measured, c.seen[a][x])
        PROVE  /\ pos \in Position \union {Absent}
               /\ since \in (0 .. o.at) \union {Absent}
               /\ pos # Absent /\ pos.valued # Absent => pos.valued = pos.quantity
               /\ since # Absent =>
                     /\ pos # Absent => pos.known
                     /\ Quantity(pos) = HeldAtFirst[a][x] + TradedBy(a, x, since, 1 .. n)
      BY <1>1, <1>3, <1>4, <1>5, <1>6, <1>7, <1>10, <2>3, RowAfter
  <2>4. ASSUME NEW a \in Accounts, NEW since, since = PaidThen(a, o, c.paid[a])
        PROVE  /\ q.cash[a] \in Int \union {Absent}
               /\ q.holdings[a] \in Labels /\ q.money[a] \in Labels
               /\ since \in (0 .. o.at) \union {Absent}
               /\ q.money[a] = "complete" /\ since # Absent =>
                     Amount(q.cash[a]) = MoneyAtFirst[a] + PaidBy(a, since, 1 .. n)
      BY <1>1, <1>3, <1>4, <1>5, <1>7, <1>10, <2>4, CashThen
  <2>5. q \in Portfolio
    <3>1. /\ \A a \in Accounts, x \in Assets : q.positions[a][x] \in Position \union {Absent}
          /\ \A a \in Accounts : /\ q.cash[a] \in Int \union {Absent}
                                 /\ q.holdings[a] \in Labels /\ q.money[a] \in Labels
        BY <2>3, <2>4
    <3>2. /\ q = [positions |-> q.positions, cash |-> q.cash, holdings |-> q.holdings,
                  money |-> q.money]
          /\ q.positions = [a \in Accounts |-> [x \in Assets |-> q.positions[a][x]]]
          /\ q.cash = [a \in Accounts |-> q.cash[a]]
          /\ q.holdings = [a \in Accounts |-> q.holdings[a]]
          /\ q.money = [a \in Accounts |-> q.money[a]]
        BY <1>7 DEF Reconciled, PositionsAfter, CashAfter, LabelsAfter
    <3> QED
        BY <3>1, <3>2 DEF Portfolio
  <2>6. /\ seen' \in [Accounts -> [Assets -> (0 .. o.at) \union {Absent}]]
        /\ paid' \in [Accounts -> (0 .. o.at) \union {Absent}]
      BY <1>9, <2>3, <2>4
  <2>7. ASSUME NEW a \in Accounts, NEW x \in Assets
        PROVE  PositionHolds(a, x, q.positions[a][x], 1 .. n, seen[a][x])'
    <3>1. PICK s : s = SeenThen(a, x, o, measured, c.seen[a][x])
        OBVIOUS
    <3>2. seen'[a][x] = s
        BY <1>9, <3>1
    <3>3. s # Absent => s \in Int /\ s <= Now
        BY <1>11, <2>2, <2>3, <3>1
    <3>4. s # Absent => TradedBy(a, x, s, 1 .. n)' = TradedBy(a, x, s, 1 .. n)
        BY <1>1, <1>11, <2>2, <3>3, CountsStay
    <3> QED
        BY <2>3, <3>1, <3>2, <3>4 DEF PositionHolds
  <2>8. ASSUME NEW a \in Accounts, q.money[a] = "complete", paid'[a] # Absent
        PROVE  CashHolds(a, q.cash[a], 1 .. n, paid[a])'
    <3>1. PICK s : s = PaidThen(a, o, c.paid[a])
        OBVIOUS
    <3>2. paid'[a] = s
        BY <1>9, <3>1
    <3>3. s # Absent => s \in Int /\ s <= Now
        BY <1>11, <2>2, <2>4, <3>1
    <3>4. PaidBy(a, s, 1 .. n)' = PaidBy(a, s, 1 .. n)
      <4>1. \A x : /\ TradedBy(a, x, s, 1 .. n)' = TradedBy(a, x, s, 1 .. n)
                   /\ PaidBy(a, s, 1 .. n)' = PaidBy(a, s, 1 .. n)
          BY <1>1, <1>11, <2>2, <2>8, <3>2, <3>3, CountsStay
      <4> QED
          BY <4>1
    <3> QED
        BY <2>4, <2>8, <3>1, <3>2, <3>4 DEF CashHolds
  <2>9. PortfolioHolds(q, 1 .. n, seen, paid)'
      BY <2>5, <2>7, <2>8 DEF PortfolioHolds
  <2>10. RecordedUntil(n, o.at)'
      BY <1>8, <2>1 DEF RecordedUntil
  <2>11. /\ checkpoint' \in [base: Portfolio, at: 0 .. Now', through: 0 .. Len(journal')]
         /\ checkpoint'.base = q /\ checkpoint'.at = o.at /\ checkpoint'.through = n
      BY <1>8, <2>2, <2>5
  <2> QED
      BY <2>6, <2>9, <2>10, <2>11 DEF CheckpointHolds, Tables
<1>17. CandidatesHold'
  <2>1. Len(journal') \in Nat /\ Len(journal') >= Len(journal) /\ Now' \in Nat /\ Now' >= Now
      BY <1>8, <1>11, <1>12
  <2>2. candidates' \subseteq candidates /\ CandidatesHold
      BY <1>8 DEF ContentsInv
  <2> QED
      BY <1>1, <1>11, <2>1, <2>2, CandidatesStay
<1> QED
    BY <1>13, <1>14, <1>15, <1>16, <1>17 DEF ContentsInv

(* Every step keeps the invariant.                                          *)
LEMMA ContentsKeeps ==
    ASSUME ContentsInv, [ContentsNext]_contents
    PROVE  ContentsInv'
<1>1. CASE \E e \in Events : Happen(e)
    BY <1>1, HappenKeeps
<1>2. CASE \E i \in DOMAIN happened, kind \in Kinds, id \in Ids : Record(i, kind, id)
    BY <1>2, RecordKeeps
<1>3. CASE Preview
    BY <1>3, PreviewKeeps
<1>4. ASSUME NEW c \in candidates, Apply(c) \/ Discard(c) PROVE ContentsInv'
    BY <1>4, ApplyKeeps, DiscardKeeps
<1>5. CASE UNCHANGED contents
    BY <1>5, StutterKeeps
<1> QED
    BY <1>1, <1>2, <1>3, <1>4, <1>5 DEF ContentsNext

(* Every checkpoint and every candidate is true of the accounts: each       *)
(* position that was observed holds what was seen and every confirmed trade *)
(* of its rows since, complete cash what was paid, and no account is short. *)
THEOREM ContentsInvariant == ContentsSpec => []ContentsInv
<1>1. ContentsInit => ContentsInv
    BY ContentsStart
<1>2. ContentsInv /\ [ContentsNext]_contents => ContentsInv'
    BY ContentsKeeps
<1> QED
    BY <1>1, <1>2, PTL DEF ContentsSpec

(* What is served is a portfolio that is true through the whole journal.    *)
LEMMA ServedHolds ==
    ASSUME ContentsInv, Served
    PROVE  PortfolioHolds(Shown, DOMAIN journal, seen, paid)
<1>1. Happened /\ Journalled /\ CheckpointHolds
    BY DEF ContentsInv
<1>2. /\ Len(journal) \in checkpoint.through .. Len(journal)
      /\ 1 .. Len(journal) = DOMAIN journal
    BY <1>1, JournalTypes DEF CheckpointHolds
<1>3. InTime(Len(journal)) /\ ~Projection(Len(journal)).blocked
    BY DEF Served, Projects
<1>4. HoldsThrough(Projection(Len(journal)), 1 .. Len(journal))
    BY <1>1, <1>2, <1>3, ProjectionHolds
<1> QED
    BY <1>2, <1>3, <1>4 DEF HoldsThrough, Shown

(* What is accounted for is what is counted by the whole journal.           *)
LEMMA CountedAll ==
    ASSUME NEW a, NEW since
    PROVE  Counted(a, since) = CountedBy(a, since, DOMAIN journal)
BY DEF Counted, CountedBy

(* The invariant implies PositionsExplained, ...                            *)
LEMMA PositionsAre ==
    ASSUME ContentsInv
    PROVE  PositionsExplained
<1>1. SUFFICES ASSUME Served, NEW a \in Accounts, NEW x \in Assets, seen[a][x] # Absent
               PROVE  Quantity(Shown.positions[a][x]) =
                         HeldAtFirst[a][x] + Total(Counted(a, seen[a][x]) \intersect Moves(a, x))
    BY DEF PositionsExplained
<1>2. PositionHolds(a, x, Shown.positions[a][x], DOMAIN journal, seen[a][x])
    BY <1>1, ServedHolds DEF PortfolioHolds
<1> QED
    BY <1>1, <1>2, CountedAll DEF PositionHolds, TradedBy

(* ... CashExplained, ...                                                   *)
LEMMA CashIs ==
    ASSUME ContentsInv
    PROVE  CashExplained
<1>1. SUFFICES ASSUME Served, NEW a \in Accounts, Shown.money[a] = "complete", paid[a] # Absent,
                      NEW counted, counted = Counted(a, paid[a])
               PROVE  Amount(Shown.cash[a]) = MoneyAtFirst[a] + Total(counted \ Bought(a))
                                              - Total(counted \intersect Bought(a))
    BY DEF CashExplained
<1>2. CashHolds(a, Shown.cash[a], DOMAIN journal, paid[a])
    BY <1>1, ServedHolds DEF PortfolioHolds
<1>3. counted = CountedBy(a, paid[a], DOMAIN journal)
    BY <1>1, CountedAll
<1>4. Amount(Shown.cash[a]) = MoneyAtFirst[a] +
         (Total(counted \ Bought(a)) - Total(counted \intersect Bought(a)))
    BY <1>2, <1>3 DEF CashHolds, PaidBy
<1>5. Total(counted \ Bought(a)) \in Int /\ Total(counted \intersect Bought(a)) \in Int
      /\ MoneyAtFirst[a] \in Int
  <2>1. /\ counted \ Bought(a) \in SUBSET DOMAIN happened
        /\ counted \intersect Bought(a) \in SUBSET DOMAIN happened
      BY <1>1 DEF Counted, Payments
  <2> QED
      BY <2>1, TotalRules, ContentsAssumption DEF ContentsInv
<1> QED
    BY <1>4, <1>5

(* ... ValuesFit ...                                                        *)
LEMMA ValuesAre ==
    ASSUME ContentsInv
    PROVE  ValuesFit
<1>1. ASSUME Served, NEW a \in Accounts, NEW x \in Assets
      PROVE  PositionHolds(a, x, Shown.positions[a][x], DOMAIN journal, seen[a][x])
    BY <1>1, ServedHolds DEF PortfolioHolds
<1> QED
    BY <1>1 DEF ValuesFit, PositionHolds

(* ... and ContentsTypes.                                                   *)
LEMMA ContentsAre ==
    ASSUME ContentsInv
    PROVE  ContentsTypes
<1>1. /\ \A i \in DOMAIN journal : journal[i].event \in DOMAIN happened
      /\ checkpoint.base \in Portfolio /\ updates \in 0 .. MaxUpdates
    BY DEF ContentsInv, Journalled, CheckpointHolds, Happened
<1>2. \A c \in candidates : c.observed \in Observation /\ c.current \in Portfolio
    BY DEF ContentsInv, CandidatesHold, CandidateTrue, Observed, PortfolioHolds
<1> QED
    BY <1>1, <1>2 DEF ContentsTypes

(* No checkpoint and no candidate ever holds a negative quantity, and every *)
(* row of the journal is of something that happened.                        *)
THEOREM ContentsAreTyped == ContentsSpec => []ContentsTypes
BY ContentsInvariant, ContentsAre, PTL

(* Whatever is recorded late, unconfirmed or not at all, and in whatever    *)
(* order updates are prepared and applied: a position that was observed in  *)
(* one of the updates the checkpoint is built on shows what was last        *)
(* observed there and every confirmed trade since, each once.               *)
THEOREM PositionsAreExplained == ContentsSpec => []PositionsExplained
BY ContentsInvariant, PositionsAre, PTL

(* Cash that is called complete is what was observed and every confirmed    *)
(* transaction since: one that could not be booked takes the word away, in  *)
(* any order of recording.                                                  *)
THEOREM CashIsExplained == ContentsSpec => []CashExplained
BY ContentsInvariant, CashIs, PTL

(* No sequence of trades and updates shows a valuation with another         *)
(* quantity than the one it was observed for.                               *)
THEOREM ValuesAlwaysFit == ContentsSpec => []ValuesFit
BY ContentsInvariant, ValuesAre, PTL

(* Transactions T of the delta are applied before all the others.           *)
Early(n, T) ==
    \A i \in T, j \in (1 .. n - checkpoint.through) \ T : ~Precedes(Delta(n)[j], Delta(n)[i])

(* Transaction i is applied last of T.                                      *)
LastOf(n, T, i) == i \in T /\ \A j \in T : ~Precedes(Delta(n)[i], Delta(n)[j])

(* Without the last of them the others are still before the rest.           *)
LEMMA EarlyOneLess ==
    ASSUME NEW n, NEW T, Early(n, T), NEW i, LastOf(n, T, i)
    PROVE  Early(n, T \ {i})
BY DEF Early, LastOf

(* What a checkpoint and a journal have to cover.                           *)
AllCovered ==
    /\ \A a \in Basis : checkpoint.base.cash[a] # Absent
    /\ \A a \in Accounts, x \in Assets :
           IF seen[a][x] = Absent THEN Moves(a, x) = {}
           ELSE Moves(a, x) \subseteq Counted(a, seen[a][x])
    /\ \A i \in DOMAIN Delta(Len(journal)) :
           Delta(Len(journal))[i].confirmed => Delta(Len(journal))[i].supported
    /\ InTime(Len(journal)) /\ OrderTold

(* Confirmed rows of one position precede each other as their events do.    *)
LEMMA OrderIs ==
    ASSUME Happened, Journalled, CheckpointHolds, AllCovered,
           NEW n, n = Len(journal), NEW m, m = n - checkpoint.through,
           NEW i \in 1 .. m, NEW j \in 1 .. m,
           NEW e, e = journal[checkpoint.through + i].event,
           NEW f, f = journal[checkpoint.through + j].event,
           journal[checkpoint.through + i].kind.confirmed,
           journal[checkpoint.through + j].kind.confirmed,
           happened[e].account = happened[f].account, happened[e].asset = happened[f].asset,
           happened[e].at < happened[f].at
    PROVE  Precedes(Delta(n)[i], Delta(n)[j])
<1> DEFINE c == checkpoint.through
           t == Delta(n)[i]
           u == Delta(n)[j]
<1>1. n \in c .. Len(journal)
    BY JournalTypes DEF CheckpointHolds
<1>2. /\ DOMAIN Delta(n) = 1 .. m
      /\ t = TransactionOf(c + i) /\ c + i \in DOMAIN journal
      /\ u = TransactionOf(c + j) /\ c + j \in DOMAIN journal
  <2>1. /\ Listed(Delta(n), m)
        /\ \A h \in 1 .. m : /\ Delta(n)[h] = TransactionOf(checkpoint.through + h)
                             /\ checkpoint.through + h \in DOMAIN journal
      BY <1>1, DeltaIs
  <2> QED
      BY <2>1 DEF Listed
<1>3. e \in DOMAIN happened /\ f \in DOMAIN happened
    BY <1>2 DEF Journalled
<1>4. e < f
  <2>1. /\ DOMAIN happened = 1 .. Len(happened) /\ Len(happened) \in Nat
        /\ happened[e].at \in Nat /\ happened[f].at \in Nat
      BY <1>3, EventTypes
  <2>2. CASE f < e
    <3>1. happened[f].at < happened[e].at
        BY <1>3, <2>2 DEF Happened
    <3> QED
        BY <2>1, <3>1
  <2>3. CASE f = e
      BY <2>1, <2>3
  <2> QED
      BY <1>3, <2>1, <2>2, <2>3
<1>5. /\ t \in Transaction /\ t.confirmed /\ t.account = happened[e].account
      /\ t.asset = happened[e].asset
    BY <1>2, TransactionTypes
<1>6. /\ u \in Transaction /\ u.confirmed /\ u.account = happened[f].account
      /\ u.asset = happened[f].asset
    BY <1>2, TransactionTypes
<1>7. t.account = u.account /\ t.asset = u.asset
    BY <1>5, <1>6
<1>8. Sooner(Delta(n)[i], Delta(n)[j])
  <2>1. OrderTold
      BY DEF AllCovered
  <2>2. i \in DOMAIN Delta(Len(journal)) /\ j \in DOMAIN Delta(Len(journal))
      BY <1>2
  <2> QED
      BY <1>4, <1>5, <1>6, <1>7, <2>1, <2>2 DEF OrderTold
<1> QED
    BY <1>8 DEF Precedes

(* When all that moved a position is counted, what is counted by its latest *)
(* transaction is what had happened by then.                                *)
LEMMA CountedByThen ==
    ASSUME Happened, Journalled, CheckpointHolds, AllCovered,
           NEW n, n = Len(journal), NEW m, m = n - checkpoint.through,
           NEW T \in SUBSET (1 .. m), Early(n, T), NEW i, LastOf(n, T, i),
           NEW g, g = journal[checkpoint.through + i].event,
           journal[checkpoint.through + i].kind.confirmed,
           NEW a \in Accounts, NEW x \in Assets, g \in Moves(a, x),
           NEW t, t = happened[g].at, t > checkpoint.at,
           NEW s, s = seen[a][x], s # Absent
    PROVE  CountedBy(a, s, Rows(T)) \intersect Moves(a, x) = Moves(a, x) \intersect Until(t)
<1> DEFINE c == checkpoint.through
<1>1. /\ m \in Nat /\ c \in Nat /\ n \in Nat /\ DOMAIN journal = 1 .. n /\ c <= n
      /\ \A j \in 1 .. m : c + j \in DOMAIN journal
  <2>1. n \in Nat /\ c \in 0 .. n /\ DOMAIN journal = 1 .. n
      BY JournalTypes DEF CheckpointHolds
  <2>2. n \in c .. Len(journal)
      BY <2>1
  <2> QED
      BY <2>1, <2>2, DeltaIs
<1>2. /\ g \in DOMAIN happened /\ i \in T /\ i \in 1 .. m
      /\ happened[g].account = a /\ happened[g].asset = x
    BY DEF LastOf, Moves, Payments
<1>3. \A e \in DOMAIN happened : happened[e].at \in Nat
    BY EventTypes
<1>4. t \in Nat /\ checkpoint.at \in Nat /\ s \in Nat /\ s <= checkpoint.at
    BY <1>2, <1>3, EventTypes DEF CheckpointHolds, Tables
<1>5. ASSUME NEW l \in 1 .. c
      PROVE  /\ l \in Rows(T) /\ l \in DOMAIN journal
             /\ happened[journal[l].event].at <= t
  <2>1. l \in DOMAIN journal /\ l \in Rows(T)
      BY <1>1 DEF Rows
  <2>2. /\ journal[l].event \in DOMAIN happened /\ journal[l].at \in Nat
        /\ happened[journal[l].event].at <= journal[l].at
      BY <2>1, JournalTypes DEF Journalled
  <2>3. journal[l].at <= checkpoint.at
      BY DEF CheckpointHolds, RecordedUntil
  <2> QED
      BY <1>3, <1>4, <2>1, <2>2, <2>3
<1>6. ASSUME NEW j \in 1 .. m, NEW e, e = journal[c + j].event, e \in Moves(a, x),
             journal[c + j].kind.confirmed
      PROVE  j \in T <=> happened[e].at <= t
  <2>1. e \in DOMAIN happened /\ happened[e].account = a /\ happened[e].asset = x
        /\ happened[e].at \in Nat
      BY <1>3, <1>6 DEF Moves, Payments
  <2>2. ASSUME j \in T, t < happened[e].at PROVE FALSE
    <3>1. Precedes(Delta(n)[i], Delta(n)[j])
        BY <1>2, <1>6, <2>1, <2>2, OrderIs
    <3> QED
        BY <2>2, <3>1 DEF LastOf
  <2>3. ASSUME j \notin T, happened[e].at < t PROVE FALSE
    <3>1. Precedes(Delta(n)[j], Delta(n)[i])
        BY <1>2, <1>6, <2>1, <2>3, OrderIs
    <3> QED
        BY <1>2, <2>3, <3>1 DEF Early
  <2>4. ASSUME j \notin T, happened[e].at = t PROVE FALSE
    <3>1. i # j /\ c + i # c + j /\ (c + i < c + j \/ c + j < c + i)
        BY <1>1, <1>2, <2>4
    <3>2. c + i \in DOMAIN journal /\ c + j \in DOMAIN journal
        BY <1>1, <1>2
    <3>3. e # g
        BY <1>6, <3>1, <3>2 DEF Journalled
    <3>4. e < g \/ g < e
      <4>1. DOMAIN happened = 1 .. Len(happened) /\ Len(happened) \in Nat
          BY EventTypes
      <4> QED
          BY <1>2, <2>1, <3>3, <4>1
    <3>5. happened[e].at # happened[g].at
        BY <1>2, <1>3, <2>1, <3>4 DEF Happened
    <3> QED
        BY <2>4, <3>5
  <2> QED
      BY <1>4, <2>1, <2>2, <2>3, <2>4
<1>7. ASSUME NEW l \in DOMAIN journal
      PROVE  \/ l \in 1 .. c
             \/ \E j \in 1 .. m : l = c + j
  <2>1. CASE ~ (l <= c)
    <3>1. l - c \in 1 .. m /\ l = c + (l - c)
        BY <1>1, <2>1
    <3> QED
        BY <3>1
  <2> QED
      BY <1>1, <2>1
<1>8. ASSUME NEW e \in CountedBy(a, s, Rows(T)) \intersect Moves(a, x)
      PROVE  e \in Moves(a, x) \intersect Until(t)
  <2>1. /\ e \in DOMAIN happened
        /\ \/ happened[e].at <= s
           \/ \E l \in Rows(T) : journal[l].event = e /\ journal[l].kind.confirmed
      BY DEF CountedBy, Payments
  <2>2. CASE happened[e].at <= s
    <3>1. happened[e].at <= t
        BY <1>3, <1>4, <2>1, <2>2
    <3> QED
        BY <2>1, <3>1 DEF Until
  <2>3. ASSUME NEW l \in Rows(T), journal[l].event = e, journal[l].kind.confirmed
        PROVE  happened[e].at <= t
    <3>1. CASE l \in 1 .. c
        BY <1>5, <2>3, <3>1
    <3>2. ASSUME NEW j \in T, l = c + j PROVE happened[e].at <= t
        BY <1>6, <2>3, <3>2
    <3> QED
        BY <3>1, <3>2 DEF Rows
  <2> QED
      BY <2>1, <2>2, <2>3 DEF Until
<1>9. ASSUME NEW e \in Moves(a, x) \intersect Until(t)
      PROVE  e \in CountedBy(a, s, Rows(T)) \intersect Moves(a, x)
  <2>1. e \in Counted(a, s)
      BY DEF AllCovered
  <2>2. /\ e \in Payments(a) /\ happened[e].at <= t
        /\ \/ happened[e].at <= s
           \/ \E l \in DOMAIN journal : journal[l].event = e /\ journal[l].kind.confirmed
      BY <2>1 DEF Counted, Until
  <2>3. ASSUME NEW l \in DOMAIN journal, journal[l].event = e, journal[l].kind.confirmed
        PROVE  l \in Rows(T)
    <3>1. CASE l \in 1 .. c
        BY <1>5, <3>1
    <3>2. ASSUME NEW j \in 1 .. m, l = c + j PROVE l \in Rows(T)
      <4>1. j \in T
          BY <1>6, <2>2, <2>3, <3>2
      <4> QED
          BY <3>2, <4>1 DEF Rows
    <3> QED
        BY <1>7, <3>1, <3>2
  <2> QED
      BY <2>2, <2>3 DEF CountedBy
<1> QED
    BY <1>8, <1>9

(* The latest of the first transactions does not block: the quantity it     *)
(* leaves is what the account held when its event had happened.             *)
LEMMA LatestPasses ==
    ASSUME Happened, Journalled, NeverShort, CheckpointHolds, AllCovered,
           NEW n, n = Len(journal), NEW m, m = n - checkpoint.through,
           NEW T \in SUBSET (1 .. m), Early(n, T), NEW i, LastOf(n, T, i),
           NEW r, HoldsThrough(r, Rows(T \ {i})), ~r.blocked
    PROVE  ~Step(r, Delta(n)[i]).blocked
<1> DEFINE k == checkpoint.through + i
           R == Rows(T \ {i})
           t == Delta(n)[i]
           e == journal[k].event
<1>0. n \in checkpoint.through .. Len(journal) /\ i \in T /\ i \in 1 .. m
    BY JournalTypes DEF CheckpointHolds, LastOf
<1>1. /\ t = TransactionOf(k) /\ k \in DOMAIN journal /\ DOMAIN Delta(n) = 1 .. m
      /\ k = checkpoint.through + i
  <2>1. /\ Listed(Delta(n), m)
        /\ \A h \in 1 .. m : /\ Delta(n)[h] = TransactionOf(checkpoint.through + h)
                             /\ checkpoint.through + h \in DOMAIN journal
      BY <1>0, DeltaIs
  <2> QED
      BY <1>0, <2>1 DEF Listed
<1>2. R \in SUBSET DOMAIN journal /\ k \notin R /\ Rows(T) = R \union {k}
  <2>1. \A u \in checkpoint.through .. Len(journal) : \A v : v = u - checkpoint.through =>
           \A S \in SUBSET (1 .. v) : \A j \in S : \A l : l = checkpoint.through + j =>
              /\ Rows(S \ {j}) \in SUBSET DOMAIN journal
              /\ l \notin Rows(S \ {j})
              /\ Rows(S) = Rows(S \ {j}) \union {l}
      BY OneRowMore
  <2> HIDE DEF k, R, t, e
  <2>2. \A v : v = n - checkpoint.through =>
           \A S \in SUBSET (1 .. v) : \A j \in S : \A l : l = checkpoint.through + j =>
              /\ Rows(S \ {j}) \in SUBSET DOMAIN journal
              /\ l \notin Rows(S \ {j})
              /\ Rows(S) = Rows(S \ {j}) \union {l}
      BY <1>0, <2>1, Zenon
  <2>3. \A S \in SUBSET (1 .. m) : \A j \in S : \A l : l = checkpoint.through + j =>
           /\ Rows(S \ {j}) \in SUBSET DOMAIN journal
           /\ l \notin Rows(S \ {j})
           /\ Rows(S) = Rows(S \ {j}) \union {l}
      BY <2>2, Zenon
  <2>4. \A j \in T : \A l : l = checkpoint.through + j =>
           /\ Rows(T \ {j}) \in SUBSET DOMAIN journal
           /\ l \notin Rows(T \ {j})
           /\ Rows(T) = Rows(T \ {j}) \union {l}
      BY <2>3, Zenon
  <2>5. /\ Rows(T \ {i}) \in SUBSET DOMAIN journal /\ k \notin Rows(T \ {i})
        /\ Rows(T) = Rows(T \ {i}) \union {k}
      BY <1>0, <1>1, <2>4
  <2> QED
      BY <2>5 DEF R
<1>3. t.at > checkpoint.at
    BY <1>0, <1>1 DEF AllCovered, InTime
<1>4. /\ t \in Transaction /\ t.confirmed = journal[k].kind.confirmed
      /\ t.account = happened[e].account /\ t.asset = happened[e].asset
      /\ t.at <= happened[e].at /\ e \in DOMAIN happened
    BY <1>1, TransactionTypes DEF Journalled
<1>5. /\ happened[e].at \in Nat /\ happened[e].at \in 0 .. Now /\ checkpoint.at \in Nat
      /\ t.at \in Nat
  <2> HIDE DEF k, R, t, e
  <2>1. happened[e].at \in Nat /\ happened[e].at <= Now /\ Now \in Nat
      BY <1>4, EventTypes
  <2>2. checkpoint.at \in 0 .. Now
      BY DEF CheckpointHolds
  <2>3. t.at \in Nat
      BY <1>4 DEF Transaction
  <2> QED
      BY <2>1, <2>2, <2>3
<1>6. happened[e].at > checkpoint.at
    BY <1>3, <1>4, <1>5
<1>7. r.portfolio \in Portfolio /\ PortfolioHolds(r.portfolio, R, seen, paid)
      /\ r.blocked \in BOOLEAN
    BY DEF HoldsThrough, PortfolioHolds
<1>8. t.confirmed => t.supported
    BY <1>0, <1>1 DEF AllCovered
<1>c. t = Delta(n)[i] /\ e = journal[k].event
    OBVIOUS
<1> HIDE DEF k, R, t, e
<1>9. Step(r, t).blocked <=> Blocks(r.portfolio.positions[t.account][t.asset], t)
  <2>1. \A q : q = Step(r, t) =>
           (q.blocked <=> r.blocked \/ Blocks(r.portfolio.positions[t.account][t.asset], t))
      BY <1>4, <1>7, StepRules
  <2> QED
      BY <2>1
<1>10. SUFFICES ASSUME Blocks(r.portfolio.positions[t.account][t.asset], t) PROVE FALSE
    BY <1>9, <1>c
<1>11. PICK a, x, pos : a = t.account /\ x = t.asset /\ pos = r.portfolio.positions[a][x]
    OBVIOUS
<1>12. /\ a \in Accounts /\ x \in Assets /\ t.confirmed /\ t.effect \in Int
       /\ (pos # Absent /\ ~pos.known) \/ Quantity(pos) + t.effect < 0
    BY <1>4, <1>8, <1>10, <1>11 DEF Blocks, Transaction
<1>13. e \in Moves(a, x)
    BY <1>4, <1>11 DEF Moves, Payments
<1>14. PICK s : s = seen[a][x]
    OBVIOUS
<1>15. s # Absent
    BY <1>12, <1>13, <1>14 DEF AllCovered
<1>16. s \in Int /\ happened[e].at > s
  <2>1. s \in 0 .. checkpoint.at
      BY <1>12, <1>14, <1>15 DEF CheckpointHolds, Tables
  <2> QED
      BY <1>5, <1>6, <2>1
<1>17. /\ pos # Absent => pos.known
       /\ Quantity(pos) = HeldAtFirst[a][x] + TradedBy(a, x, s, R)
    BY <1>7, <1>11, <1>12, <1>14, <1>15 DEF PortfolioHolds, PositionHolds
<1>18. /\ TradedBy(a, x, s, R) \in Int
       /\ TradedBy(a, x, s, Rows(T)) = TradedBy(a, x, s, R) + t.effect
  <2>1. NewRow(k, R, s)
      BY <1>1, <1>2, <1>16, <1>c DEF NewRow
  <2>2. /\ TradedBy(a, x, s, R) \in Int
        /\ TradedBy(a, x, s, R \union {k}) = TradedBy(a, x, s, R) + t.effect
    <3>1. PICK since : since = s /\ since \in Int /\ NewRow(k, R, since)
        BY <1>16, <2>1
    <3>2. \A u : u = TransactionOf(k) =>
             /\ TradedBy(a, x, since, R) \in Int
             /\ TradedBy(a, x, since, R \union {k}) =
                   IF u.confirmed /\ a = u.account /\ x = u.asset
                   THEN TradedBy(a, x, since, R) + u.effect
                   ELSE TradedBy(a, x, since, R)
        BY <1>12, <3>1, TradeOneMore
    <3> QED
        BY <1>1, <1>11, <1>12, <3>1, <3>2
  <2> QED
      BY <1>2, <2>2
<1>19. TradedBy(a, x, s, Rows(T)) = Total(Moves(a, x) \intersect Until(happened[e].at))
  <2>1. PICK g, u : g = e /\ u = happened[e].at
      OBVIOUS
  <2>2. /\ g = journal[checkpoint.through + i].event
        /\ journal[checkpoint.through + i].kind.confirmed
      BY <1>1, <1>4, <1>12, <1>c, <2>1
  <2>3. CountedBy(a, s, Rows(T)) \intersect Moves(a, x) = Moves(a, x) \intersect Until(u)
      BY <1>6, <1>12, <1>13, <1>14, <1>15, <2>1, <2>2, CountedByThen
  <2> QED
      BY <2>1, <2>3 DEF TradedBy
<1>20. Held(a, x, happened[e].at) >= 0
    BY <1>5, <1>12 DEF NeverShort
<1>21. HeldAtFirst[a][x] \in Int
    BY <1>12, ContentsAssumption
<1>22. ~ (Quantity(pos) + t.effect < 0)
  <2>1. PICK first, counted, effect :
           /\ first = HeldAtFirst[a][x] /\ counted = TradedBy(a, x, s, R) /\ effect = t.effect
      OBVIOUS
  <2>2. Held(a, x, happened[e].at) = first + (counted + effect)
      BY <1>18, <1>19, <2>1 DEF Held
  <2>3. first \in Int /\ counted \in Int /\ effect \in Int /\ first + (counted + effect) >= 0
      BY <1>12, <1>18, <1>20, <1>21, <2>1, <2>2
  <2>4. Quantity(pos) + t.effect = (first + counted) + effect
      BY <1>17, <2>1
  <2>5. ~ ((first + counted) + effect < 0)
      BY <2>3
  <2> QED
      BY <2>4, <2>5
<1> QED
    BY <1>12, <1>17, <1>22

(* The invariant implies RecordedIsServed: by induction over the            *)
(* transactions in the order of their times, none of them blocks.           *)
LEMMA CoveredIsServed ==
    ASSUME ContentsInv
    PROVE  RecordedIsServed
<1>1. SUFFICES ASSUME AllCovered PROVE Served
    BY DEF RecordedIsServed, AllCovered
<1>2. Happened /\ Journalled /\ NeverShort /\ CheckpointHolds
    BY DEF ContentsInv
<1>3. PICK n : n = Len(journal)
    OBVIOUS
<1>4. PICK m : m = n - checkpoint.through
    OBVIOUS
<1>5. n \in checkpoint.through .. Len(journal) /\ n >= checkpoint.through /\ InTime(n)
    BY <1>1, <1>2, <1>3, JournalTypes DEF CheckpointHolds, AllCovered
<1>6. m \in Nat /\ Listed(Delta(n), m)
    BY <1>2, <1>4, <1>5, DeltaIs
<1> DEFINE F == Folded(checkpoint.base, Delta(n))
           Good == {T \in SUBSET (1 .. m) : Early(n, T) => ~F[T].blocked}
<1>7. {} \in Good
  <2>1. F[{}] = Opening(checkpoint.base)
      BY <1>6, FoldRules
  <2>2. ~F[{}].blocked
      BY <1>1, <2>1 DEF Opening, Result, AllCovered
  <2> HIDE DEF F
  <2> QED
      BY <2>2
<1>8. ASSUME NEW T \in SUBSET (1 .. m), T # {}, \A j \in T : T \ {j} \in Good
      PROVE  T \in Good
  <2>1. SUFFICES ASSUME Early(n, T) PROVE ~F[T].blocked
      OBVIOUS
  <2>2. PICK i : i = Latest(Delta(n), T)
      OBVIOUS
  <2>3. i \in T /\ LastOf(n, T, i)
      BY <1>6, <1>8, <2>2, LatestIsLast DEF LastOf
  <2>4. F[T] = Step(F[T \ {i}], Delta(n)[i])
    <3> HIDE DEF Good
    <3> QED
        BY <1>6, <1>8, <2>2, FoldStep
  <2>5. Early(n, T \ {i})
      BY <2>1, <2>3, EarlyOneLess
  <2>6. ~F[T \ {i}].blocked
      BY <1>8, <2>3, <2>5
  <2>7. HoldsThrough(F[T \ {i}], Rows(T \ {i}))
    <3>1. \A S \in SUBSET (1 .. m) : HoldsThrough(F[S], Rows(S))
        BY <1>2, <1>4, <1>5, FoldHolds
    <3>2. T \ {i} \in SUBSET (1 .. m)
        OBVIOUS
    <3> HIDE DEF F, Good
    <3> QED
        BY <3>1, <3>2
  <2> HIDE DEF F, Good
  <2>8. ~Step(F[T \ {i}], Delta(n)[i]).blocked
      BY <1>1, <1>2, <1>3, <1>4, <2>1, <2>3, <2>6, <2>7, LatestPasses
  <2> QED
      BY <2>4, <2>8
<1> HIDE DEF Good
<1>9. 1 .. m \in Good
    BY <1>6, <1>7, <1>8, PartByPart
<1>10. Early(n, 1 .. m)
    BY <1>4 DEF Early
<1>11. ~F[1 .. m].blocked
    BY <1>9, <1>10 DEF Good
<1>12. Projection(n) = F[1 .. m]
    BY <1>6, FoldRules DEF Projection
<1> QED
    BY <1>3, <1>5, <1>11, <1>12 DEF Served, Projects

(* Once everything that happened is recorded or covered by an observation,  *)
(* the projection is not blocked, in whatever order it was recorded, if the *)
(* times of the rows tell the order of each position's trades, all are of a *)
(* supported type and none is from before the checkpoint: a sale is applied *)
(* after the purchase it needs.                                             *)
THEOREM RecordedAreServed == ContentsSpec => []RecordedIsServed
BY ContentsInvariant, CoveredIsServed, PTL
================================================================================
