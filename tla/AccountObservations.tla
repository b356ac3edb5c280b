-------------------------- MODULE AccountObservations --------------------------
(***************************************************************************)
(* The latest broker observation of an account, kept with the owner's       *)
(* consent and shared between processes.                                    *)
(*                                                                         *)
(*   runtime/account_observations.py          store, service, overlay       *)
(*   runtime/account_state.py                 the broker read behind them   *)
(*   deployment/account_observation_cli.py    authorize, disable, tick      *)
(*                                                                         *)
(* Times are ages, in ticks, that grow together and stop at Cap.  A process *)
(* reads the clock before it waits for the lock of the account: what it     *)
(* then takes for the age of something is less by the ticks since, its lag, *)
(* and may be negative.  The signed policy is read again at every step that *)
(* needs it.  One account; a policy that no longer lists it, or is          *)
(* disabled, is "off", one that approves another binding of it "other".     *)
(* A gateway that asks the broker also keeps what it got in its memory,     *)
(* whatever becomes of the consent.                                         *)
(***************************************************************************)
EXTENDS Integers, FiniteSets

CONSTANTS
    Refreshers,     \* processes with the broker's credentials
    Worker,         \* the one the timer starts
    Consumers,      \* read-only processes that overlay the portfolio view
    Ttl, Interval,  \* cache_ttl_seconds and interval_seconds of the policy
    MaxAge, MaxStale,
    Backoff,        \* how long a failure keeps others from retrying
    MaxWait,        \* bound on the ticks a call lasts
    MaxFaults,      \* bound on the changes of the policy and the deaths, together
    None

Cap == MaxStale + MaxWait + 1
Ages == 0 .. Cap

Row == [policy: Nat, age: Ages, stored: Ages, failed: Ages \union {None}, invalid: BOOLEAN]

(* A call keeps the row it loaded, and then the one it is going to write.   *)
Call == [at: {"waiting", "locked", "calling", "saving", "writing", "viewing"},
         refresh: BOOLEAN, lag: 0 .. MaxWait, row: Row \union {None}, began: Nat,
         changes: Nat]

(* What a gateway keeps in memory, and the policy in force when it got it.  *)
Snapshot == [age: Ages, under: Nat]

(* What was shown: how old it is, where from, the policy it was stored or   *)
(* fetched under when it is not fresh from the broker, and the policy the   *)
(* call began under, if there was consent.                                  *)
Answer == [label: {"current", "stale", "none"}, age: Ages,
           from: {"store", "memory", "broker", "nothing"},
           under: Nat \union {None}, began: Nat \union {None}]

Processes == Refreshers \union Consumers

Gateways == Refreshers \ {Worker}

ASSUME ObservationsAssumption ==
    /\ Worker \in Refreshers /\ Refreshers \cap Consumers = {}
    /\ Ttl \in Nat /\ Interval \in Nat /\ Ttl <= Interval
    /\ MaxAge \in Nat /\ MaxStale \in Nat /\ MaxAge <= MaxStale /\ Ttl <= MaxStale
    /\ Backoff \in Nat /\ Backoff <= MaxStale
    /\ MaxWait \in Nat /\ MaxFaults \in Nat

(* "Nothing" is none of the things there can be.                            *)
ASSUME NoneAssumption ==
    None \notin Nat \union Processes \union Row \union Call \union Answer \union Snapshot

VARIABLES
    policy,     \* [id, state, changes]
    row,        \* the stored observation, or None
    lock,       \* who holds the account's lock, or None
    calls,      \* [Processes -> the call it is in, or None]
    memory,     \* [Gateways -> the last complete answer of the broker, or None]
    said,       \* the answer just given, or None
    deaths

vars == <<policy, row, lock, calls, memory, said, deaths>>

Init ==
    /\ policy = [id |-> 1, state |-> "on", changes |-> 0]
    /\ row = None /\ lock = None /\ said = None
    /\ calls = [p \in Processes |-> None]
    /\ memory = [g \in Gateways |-> None]
    /\ deaths = 0

--------------------------------------------------------------------------------
(* Time.                                                                    *)
Later(n) == IF n < Cap THEN n + 1 ELSE n

Aged(r) ==
    IF r = None THEN None
    ELSE [r EXCEPT !.age = Later(@), !.stored = Later(@),
                   !.failed = IF @ = None THEN None ELSE Later(@)]

Tick ==
    /\ \A p \in Processes : calls[p] # None => calls[p].lag < MaxWait
    /\ row' = Aged(row)
    /\ calls' = [p \in Processes |->
           IF calls[p] = None THEN None
           ELSE [calls[p] EXCEPT !.lag = @ + 1, !.row = Aged(@)]]
    /\ memory' = [g \in Gateways |->
           IF memory[g] = None THEN None ELSE [memory[g] EXCEPT !.age = Later(@)]]
    /\ said' = None
    /\ UNCHANGED <<policy, lock, deaths>>

--------------------------------------------------------------------------------
(* The policy.  At most one change falls into any call: an approval is      *)
(* typed at a terminal, a call lasts about a minute at most.                *)
Change(id, state) ==
    /\ policy.changes + deaths < MaxFaults
    /\ \A p \in Processes : calls[p] # None => calls[p].changes = policy.changes
    /\ policy' = [id |-> id, state |-> state, changes |-> policy.changes + 1]
    /\ said' = None
    /\ UNCHANGED <<row, lock, calls, memory, deaths>>

(* A new policy has a new identity; disabling or narrowing one keeps it.    *)
Approve == Change(policy.id + 1, "on")
Disable == policy.state = "on" /\ Change(policy.id, "off")

(* The registry binds the account to something the policy did not approve.  *)
Rebind == policy.state = "on" /\ Change(policy.id, "other")

(* authorize, for the bound account.                                        *)
On == policy.state = "on"

(* Mutant: an observation is used whatever consent it was stored under.     *)
LoadedAnyway == IF On THEN row ELSE None

(* load: only what was stored under the policy in force.                    *)
Loaded == IF On /\ row # None /\ row.policy = policy.id THEN row ELSE None

--------------------------------------------------------------------------------
(* Answers: current, stale or none, and what was shown.                     *)
Tell(label, age, from, under, began) ==
    said' = [label |-> label, age |-> age, from |-> from, under |-> under, began |-> began]

Say(p, label, age, from, under) == Tell(label, age, from, under, calls[p].began)

SayNothing(p) == Say(p, "none", 0, "nothing", None)

(* _failed_result                                                           *)
Usable(r, lag) == ~r.invalid /\ r.age - lag \in 0 .. MaxStale

SayFailed(p, r) ==
    IF r # None /\ Usable(r, calls[p].lag)
    THEN Say(p, "stale", r.age, "store", r.policy)
    ELSE SayNothing(p)

(* The call ends, and with it its hold on the lock.                         *)
End(p) ==
    /\ calls' = [calls EXCEPT ![p] = None]
    /\ lock' = IF lock = p THEN None ELSE lock

Start(p, at, refresh) ==
    /\ calls[p] = None
    /\ On
    /\ calls' = [calls EXCEPT ![p] =
           [at |-> at, refresh |-> refresh, lag |-> 0, row |-> None,
            began |-> policy.id, changes |-> policy.changes]]
    /\ said' = None
    /\ UNCHANGED <<policy, row, lock, memory, deaths>>

(* CurrentAccountService.read of a gateway, forced or not, with consent.    *)
Read(p) == p \in Gateways /\ \E refresh \in BOOLEAN : Start(p, "waiting", refresh)

(* Without consent it is AccountStateReader.read alone, which stores        *)
(* nothing and takes no lock of the account: what is in memory is used      *)
(* again while it is recent, the broker is asked, or it fails and what is   *)
(* in memory is shown as stale.                                             *)
ReadDirectly(g) ==
    /\ calls[g] = None /\ policy.state = "off"
    /\ \/ /\ memory[g] # None
          /\ \/ /\ memory[g].age <= MaxAge
                /\ Tell("current", memory[g].age, "memory", memory[g].under, None)
             \/ /\ memory[g].age <= MaxStale
                /\ Tell("stale", memory[g].age, "memory", memory[g].under, None)
          /\ UNCHANGED memory
       \/ \E a \in {0, MaxAge} :
             /\ Tell("current", a, "broker", None, None)
             /\ memory' = [memory EXCEPT ![g] = [age |-> a, under |-> policy.id]]
       \/ /\ \/ Tell("current", 0, "broker", None, None)      \* holdings in part
             \/ Tell("none", 0, "nothing", None, None)
          /\ UNCHANGED memory
    /\ UNCHANGED <<policy, row, lock, calls, deaths>>

(* refresh_due: what was stored within the interval is skipped.             *)
Due == /\ ~(Loaded # None /\ Loaded.stored < Interval)
       /\ Start(Worker, "waiting", FALSE)

(* Mutant: the lock does not keep others out.                               *)
EnterAnyway(p) ==
    /\ calls[p] # None /\ calls[p].at = "waiting" /\ policy.state # "other"
    /\ lock' = p
    /\ calls' = [calls EXCEPT ![p].at = "locked"]
    /\ said' = None
    /\ UNCHANGED <<policy, row, memory, deaths>>

(* locked: without consent, no lock is taken.                               *)
Enter(p) ==
    /\ calls[p] # None /\ calls[p].at = "waiting" /\ policy.state # "other"
    /\ IF On THEN lock = None /\ lock' = p ELSE UNCHANGED lock
    /\ calls' = [calls EXCEPT ![p].at = "locked"]
    /\ said' = None
    /\ UNCHANGED <<policy, row, memory, deaths>>

(* Mutant: a failure is remembered for ever.                                *)
BackedOffForGood(r, lag) == r # None /\ r.failed # None

BackedOff(r, lag) == r # None /\ r.failed # None /\ r.failed - lag \in 0 .. Backoff - 1

(* Mutant: only the time of storing counts.                                 *)
ReusableAtAnyAge(r, lag) == r # None /\ r.stored - lag \in 0 .. Ttl - 1

Reusable(r, lag) ==
    /\ r # None
    /\ r.stored - lag \in 0 .. Ttl - 1
    /\ r.age - lag \in 0 .. MaxAge

AtLoad(p) == calls[p] # None /\ calls[p].at = "locked"

ReuseFailure(p) ==
    /\ AtLoad(p) /\ policy.state # "other"
    /\ ~calls[p].refresh /\ BackedOff(Loaded, calls[p].lag)
    /\ SayFailed(p, Loaded)
    /\ End(p)
    /\ UNCHANGED <<policy, row, memory, deaths>>

Reuse(p) ==
    /\ AtLoad(p) /\ policy.state # "other"
    /\ ~calls[p].refresh /\ ~BackedOff(Loaded, calls[p].lag)
    /\ Reusable(Loaded, calls[p].lag)
    /\ Say(p, "current", Loaded.age, "store", Loaded.policy)
    /\ End(p)
    /\ UNCHANGED <<policy, row, memory, deaths>>

Ask(p) ==
    /\ AtLoad(p) /\ policy.state # "other"
    /\ \/ calls[p].refresh
       \/ ~BackedOff(Loaded, calls[p].lag) /\ ~Reusable(Loaded, calls[p].lag)
    /\ calls' = [calls EXCEPT ![p].at = "calling", ![p].row = Loaded]
    /\ said' = None
    /\ UNCHANGED <<policy, row, lock, memory, deaths>>

(* The broker answers with an observation that is complete and recent: a    *)
(* gateway keeps it in memory, and it is to be stored.                      *)
Fetch(p) ==
    /\ calls[p] # None /\ calls[p].at = "calling"
    /\ \E a \in {0, MaxAge} :
         /\ calls' = [calls EXCEPT ![p].at = "saving", ![p].row =
               [policy |-> 0, age |-> a, stored |-> 0, failed |-> None, invalid |-> FALSE]]
         /\ memory' = [g \in Gateways |->
               IF g = p THEN [age |-> a, under |-> policy.id] ELSE memory[g]]
    /\ said' = None
    /\ UNCHANGED <<policy, row, lock, deaths>>

(* It answers with part of the holdings: shown, not kept.                   *)
FetchPart(p) ==
    /\ calls[p] # None /\ calls[p].at = "calling"
    /\ Say(p, "current", 0, "broker", None)
    /\ End(p)
    /\ UNCHANGED <<policy, row, memory, deaths>>

(* It fails, or answers with something invalid: noted, if there is an       *)
(* observation to note it on, whose times stay, and the clock is read       *)
(* again.                                                                   *)
FetchFails(p) ==
    /\ calls[p] # None /\ calls[p].at = "calling"
    /\ calls[p].row # None
    /\ \E invalid \in BOOLEAN :
         calls' = [calls EXCEPT ![p].at = "saving", ![p].lag = 0, ![p].row =
             [calls[p].row EXCEPT !.failed = 0, !.invalid = invalid]]
    /\ said' = None
    /\ UNCHANGED <<policy, row, lock, memory, deaths>>

(* If there is none, a gateway shows as stale what it has in memory, under  *)
(* whatever policy it was fetched and stored; it had read the clock before  *)
(* it asked.                                                                *)
FetchFailsUnstored(p) ==
    /\ calls[p] # None /\ calls[p].at = "calling"
    /\ calls[p].row = None
    /\ \/ SayNothing(p)
       \/ /\ p \in Gateways /\ memory[p] # None
          /\ \E passed \in 0 .. calls[p].lag : memory[p].age - passed \in 0 .. MaxStale
          /\ Say(p, "stale", memory[p].age, "memory", memory[p].under)
    /\ End(p)
    /\ UNCHANGED <<policy, row, memory, deaths>>

(* save and note_failure authorize first, and write then.                   *)
Authorize(p) ==
    /\ calls[p] # None /\ calls[p].at = "saving"
    /\ On
    /\ calls' = [calls EXCEPT ![p].at = "writing"]
    /\ said' = None
    /\ UNCHANGED <<policy, row, lock, memory, deaths>>

Write(p) ==
    /\ calls[p] # None /\ calls[p].at = "writing"
    /\ LET next == calls[p].row IN
       IF next.failed = None
       THEN /\ row' = [next EXCEPT !.policy = policy.id]
            /\ Say(p, "current", next.age, "broker", None)
       ELSE row' = next /\ SayFailed(p, next)
    /\ End(p)
    /\ UNCHANGED <<policy, memory, deaths>>

(* A consent error anywhere: the call is blocked.                           *)
Blocked(p) ==
    /\ calls[p] # None
    /\ \/ calls[p].at = "locked" /\ policy.state = "other"
       \/ calls[p].at = "waiting" /\ policy.state = "other"
       \/ calls[p].at = "saving" /\ ~On
    /\ SayNothing(p)
    /\ End(p)
    /\ UNCHANGED <<policy, row, memory, deaths>>

--------------------------------------------------------------------------------
(* overlay_current_accounts in a read-only process: the scopes and the      *)
(* clock, then the stored observation and the consent once more before it   *)
(* replaces the account's saved facts; else they are kept.                  *)
View(c) == Start(c, "viewing", FALSE)

Compose(c) ==
    /\ calls[c] # None /\ calls[c].at = "viewing"
    /\ IF /\ Loaded # None /\ Loaded.failed = None
          /\ Loaded.age - calls[c].lag \in 0 .. MaxAge
       THEN Say(c, "current", Loaded.age, "store", Loaded.policy)
       ELSE SayFailed(c, Loaded)
    /\ End(c)
    /\ UNCHANGED <<policy, row, memory, deaths>>

(* A process dies in a call; a lock it holds is free then, and its memory   *)
(* is gone.                                                                 *)
Die(p) ==
    /\ calls[p] # None /\ policy.changes + deaths < MaxFaults
    /\ deaths' = deaths + 1
    /\ memory' = [g \in Gateways |-> IF g = p THEN None ELSE memory[g]]
    /\ End(p)
    /\ said' = None
    /\ UNCHANGED <<policy, row>>

(* What a call does once it is in: it returns, whatever the broker does.    *)
Proceed(p) ==
    \/ ReuseFailure(p) \/ Reuse(p) \/ Ask(p) \/ Blocked(p)
    \/ Fetch(p) \/ FetchPart(p) \/ FetchFails(p) \/ FetchFailsUnstored(p)
    \/ Authorize(p) \/ Write(p)

Next ==
    \/ Tick \/ Approve \/ Disable \/ Rebind \/ Due
    \/ \E p \in Refreshers : Read(p) \/ Enter(p) \/ Proceed(p)
    \/ \E g \in Gateways : ReadDirectly(g)
    \/ \E c \in Consumers : View(c) \/ Compose(c)
    \/ \E p \in Refreshers : Die(p)

Spec == Init /\ [][Next]_vars

(* The timer starts the worker again and again, time passes, a call goes on *)
(* whatever the broker does (it is asked in a subprocess with a time limit),*)
(* a process that waits gets its turn at the lock,                          *)
(* and a broker that is asked over and over answers completely some time.   *)
Fairness ==
    /\ WF_vars(Tick)
    /\ WF_vars(Due)
    /\ \A p \in Refreshers : SF_vars(Enter(p)) /\ WF_vars(Proceed(p))
    /\ \A c \in Consumers : WF_vars(Compose(c))
    /\ SF_vars(\E p \in Refreshers : Fetch(p))

FairSpec == Spec /\ Fairness

--------------------------------------------------------------------------------
TypeOK ==
    /\ policy \in [id: 1 .. MaxFaults + 1, state: {"on", "off", "other"},
                   changes: 0 .. MaxFaults]
    /\ row \in Row \union {None} /\ (row # None => row.policy \in 1 .. policy.id)
    /\ lock \in Refreshers \union {None}
    /\ calls \in [Processes -> Call \union {None}]
    /\ memory \in [Gateways -> Snapshot \union {None}]
    /\ said \in Answer \union {None}
    /\ deaths \in 0 .. MaxFaults

(* What is presented as current or as stale is no older than that, but for  *)
(* the time the call itself took: the clock is read before the lock and the *)
(* consent are waited for, and not again.                                   *)
NotOlderThanSaid ==
    said # None =>
        /\ said.label = "current" => said.age <= MaxAge + MaxWait
        /\ said.label = "stale" => said.age <= MaxStale + MaxWait

(* Consent ends at once, as far as the shared store goes: a call that       *)
(* starts after the owner disabled or replaced the policy never shows an    *)
(* observation that was stored under it, not even after a new approval.     *)
(* Only a gateway's own memory outlives it (account_state.py:175): what it  *)
(* fetched itself under an earlier consent it may still show, but as stale  *)
(* and never as current.                                                    *)
ConsentHolds ==
    said # None /\ said.under # None /\ said.began # None =>
        \/ said.under >= said.began
        \/ said.from = "memory" /\ said.label = "stale"

(* A failed refresh is not a refresh and loses none: the time an            *)
(* observation was stored only goes back when a newly fetched one replaces  *)
(* it, and only time makes it older.                                        *)
FailuresLoseNothing ==
    [][row # None /\ row' # None =>
           /\ row'.stored < row.stored => row'.failed = None
           /\ row'.stored > row.stored => row'.stored = Later(row.stored) /\ lock' = lock
                                          /\ said' = None]_row

(* While consent stays, the account is refreshed again and again, whatever  *)
(* failures, back-offs and forced reads come in between.                    *)
RefreshedAgain ==
    <>[]On => []<>(Loaded # None /\ Loaded.failed = None /\ Loaded.stored < Interval)

================================================================================
