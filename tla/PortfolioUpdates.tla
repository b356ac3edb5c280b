---------------------------- MODULE PortfolioUpdates ----------------------------
(***************************************************************************)
(* Portfolio checkpoints and the observations reconciled into them.         *)
(*                                                                         *)
(*   runtime/portfolio_checkpoint.py       the checkpoint journal           *)
(*   runtime/portfolio_reconciliation.py   candidates and their acceptance  *)
(*   runtime/portfolio_update_service.py   preview and accept               *)
(*   runtime/reference_composition.py      preview / apply over a connector *)
(*   deployment/portfolio_update_cli.py    preview / accept over a file     *)
(*                                                                         *)
(* A checkpoint is a snapshot of the portfolio, the time it describes and   *)
(* a cursor: the number of write-journal rows it already includes.  The     *)
(* portfolio is the latest checkpoint plus the transactions after its       *)
(* cursor (its delta).  An update observes one account at some time, keeps  *)
(* every other account as projected, and appends the next checkpoint.       *)
(*                                                                         *)
(* A portfolio is abstracted to how often each trade is counted in it: 0,   *)
(* 1, or more when something went wrong.  An account stands for whatever    *)
(* one observation covers completely.  The write journal holds the trades   *)
(* of one portfolio; NativeWrite shows it takes each execution once.        *)
(* Journals are read under their locks one read at a time, and nothing      *)
(* holds a lock from one read to the next.                                  *)
(***************************************************************************)
EXTENDS Naturals, Sequences, FiniteSets

CONSTANTS
    Procs,          \* processes that prepare and apply updates
    Cli,            \* those that keep candidates in files: the command lines
    Accounts,
    Trades,         \* trades of the portfolio, recorded or not
    AccountOf,      \* [Trades -> Accounts]
    HappenedAt,     \* [Trades -> Nat]: when the broker executed the trade
    Dated,          \* trades whose effective_at is only a date
    Day,            \* instants in a calendar day
    MaxTime,        \* bound on the clock
    CommitLag,      \* how much earlier than its append a committed_at can be
    MaxPending,     \* bound on the candidates a process keeps
    NoCandidate

(* A timepoint: an instant, or a date, kept as the first instant of the day. *)
Point == [at: Nat, dated: BOOLEAN]

Instant(t) == [at |-> t, dated |-> FALSE]
Date(t) == [at |-> t - (t % Day), dated |-> TRUE]

(* transaction.effective_at, as the owner records it.                       *)
EffectiveOf(x) == IF x \in Dated THEN Date(HappenedAt[x]) ELSE Instant(HappenedAt[x])

Counts == [Trades -> Nat]

Checkpoint == [time: Point, through: Nat, base: Counts]

(* A reconciliation candidate: what was observed, the cursor computed for   *)
(* it, the checkpoint (by position) and the projected portfolio it was      *)
(* compared with, and the checkpoint the connector registered it against.   *)
Candidate == [account: Accounts, time: Point, observed: SUBSET Trades,
              through: Nat, basis: Nat, current: Counts, registered: Nat]

ASSUME ConstantsAssumption ==
    /\ Cli \subseteq Procs
    /\ AccountOf \in [Trades -> Accounts]
    /\ HappenedAt \in [Trades -> Nat]
    /\ Dated \subseteq Trades
    /\ Day \in Nat \ {0}
    /\ MaxTime \in Nat
    /\ CommitLag \in Nat
    /\ MaxPending \in Nat
    /\ NoCandidate \notin Candidate

VARIABLES
    now,         \* the wall clock
    writes,      \* transaction rows of the write journal: [trade, at]
    checkpoints, \* the checkpoint journal
    pc,          \* [Procs -> where a process is in a preview or an apply]
    draft,       \* [Procs -> the candidate it works on, or NoCandidate]
    pending,     \* [Procs -> candidates waiting for their confirmation]
    reply        \* [Procs -> what its last apply answered]

vars == <<now, writes, checkpoints, pc, draft, pending, reply>>

SameDay(p, q) == p.at \div Day = q.at \div Day

(* Two points that share a day cannot be ordered when one is only a date.   *)
Ambiguous(p, q) == (p.dated \/ q.dated) /\ SameDay(p, q)

(* Mutant: a date is taken for the first instant of the day.                *)
AfterItsFirstInstant(p, q) == p.at > q.at

(* _point_is_after, _strictly_after_timepoint, ..._is_after_checkpoint.     *)
After(p, q) == ~Ambiguous(p, q) /\ p.at > q.at

(* _point_is_unambiguously_at_or_before.                                    *)
AtOrBefore(p, q) == ~Ambiguous(p, q) /\ p.at <= q.at

--------------------------------------------------------------------------------
(* The safe prefix of the write journal for a snapshot time.                *)
Covered(i, time) ==
    /\ AtOrBefore(Instant(writes[i].at), time)
    /\ AtOrBefore(EffectiveOf(writes[i].trade), time)

(* _journal_cursor_for_snapshot: the longest prefix of covered rows.        *)
SafeCursor(time) ==
    CHOOSE n \in 0 .. Len(writes) :
        /\ \A i \in 1 .. n : Covered(i, time)
        /\ n < Len(writes) => ~Covered(n + 1, time)

(* It raises when commit times go back before its scan of the journal ends. *)
CursorFails(time) ==
    \E i \in 2 .. Len(writes) :
        /\ writes[i].at < writes[i - 1].at
        /\ i <= SafeCursor(time) + 1

(* transactions_between_cursors, transactions_after_cursor.                 *)
TradesBetween(after, through) == {writes[i].trade : i \in after + 1 .. through}

Recorded == TradesBetween(0, Len(writes))

(* A projection fails when its cursor is before the checkpoint's, or a      *)
(* transaction of the delta is not strictly after the checkpoint.           *)
Projects(checkpoint, through) ==
    /\ through >= checkpoint.through
    /\ \A x \in TradesBetween(checkpoint.through, through) :
           After(EffectiveOf(x), checkpoint.time)

(* materialize_portfolio: the snapshot plus the delta.                      *)
Projection(checkpoint, through) ==
    [x \in Trades |->
        checkpoint.base[x]
        + IF x \in TradesBetween(checkpoint.through, through) THEN 1 ELSE 0]

Latest == checkpoints[Len(checkpoints)]

(* get_materialized_portfolio_state: served, or unavailable.                *)
Available == Projects(Latest, Len(writes))
Portfolio == Projection(Latest, Len(writes))

(* build_reconciliation_candidate: the observed account is replaced by the  *)
(* observation, the others stay as projected.                               *)
Reconciled(c) ==
    [x \in Trades |->
        IF AccountOf[x] # c.account THEN c.current[x]
        ELSE IF x \in c.observed THEN 1 ELSE 0]

(* What the broker shows of an account at an instant (external).            *)
Shown(account, t) == {x \in Trades : AccountOf[x] = account /\ HappenedAt[x] <= t}

(* The instants a snapshot with this time may have been taken at.           *)
TakenAt(time) ==
    IF time.dated THEN {t \in time.at .. time.at + Day - 1 : t <= now}
    ELSE {time.at}

SnapshotTimes == {Instant(t) : t \in 0 .. now} \cup {Date(t) : t \in 0 .. now}

(* The seed checkpoint of a migrated portfolio, taken at time 0.            *)
Seed == [time |-> Instant(0), through |-> 0,
         base |-> [x \in Trades |-> IF HappenedAt[x] = 0 THEN 1 ELSE 0]]

Init ==
    /\ now = 0
    /\ writes = << >>
    /\ checkpoints = <<Seed>>
    /\ pc = [p \in Procs |-> "idle"]
    /\ draft = [p \in Procs |-> NoCandidate]
    /\ pending = [p \in Procs |-> {}]
    /\ reply = [p \in Procs |-> "none"]

(* A process is done with its candidate, for better or worse.               *)
Idle(p) ==
    /\ pc' = [pc EXCEPT ![p] = "idle"]
    /\ draft' = [draft EXCEPT ![p] = NoCandidate]

--------------------------------------------------------------------------------
Tick ==
    /\ now < MaxTime
    /\ now' = now + 1
    /\ UNCHANGED <<writes, checkpoints, pc, draft, pending, reply>>

(* The write path of NativeWrite commits a transaction.  Its committed_at   *)
(* was sampled before the journal lock was taken.                           *)
Record(x) ==
    /\ x \notin Recorded
    /\ \E at \in {t \in 0 .. now : t + CommitLag >= now} :
           writes' = Append(writes, [trade |-> x, at |-> at])
    /\ UNCHANGED <<now, checkpoints, pc, draft, pending, reply>>

(* A preview starts: an observation, and the cursor for its time.           *)
StartPreview(p, account, time) ==
    /\ pc[p] = "idle"
    /\ Cardinality(pending[p]) < MaxPending
    /\ ~CursorFails(time)
    /\ \E t \in TakenAt(time) :
           draft' = [draft EXCEPT ![p] =
               [account |-> account, time |-> time,
                observed |-> Shown(account, t), through |-> SafeCursor(time),
                basis |-> 0, current |-> [x \in Trades |-> 0],
                registered |-> 0]]
    /\ pc' = [pc EXCEPT ![p] = "cursored"]
    /\ reply' = [reply EXCEPT ![p] = "none"]
    /\ UNCHANGED <<now, writes, checkpoints, pending>>

(* The projection through that cursor; one that fails ends the preview.     *)
Project(p) ==
    /\ pc[p] = "cursored"
    /\ IF Projects(Latest, draft[p].through)
       THEN /\ draft' = [draft EXCEPT
                   ![p].basis = Len(checkpoints),
                   ![p].current = Projection(Latest, draft[p].through)]
            /\ pc' = [pc EXCEPT ![p] = "built"]
       ELSE Idle(p)
    /\ UNCHANGED <<now, writes, checkpoints, pending, reply>>

(* The cursor is computed again and must not have moved; then the candidate *)
(* is registered against the checkpoint that is the latest by now.          *)
Register(p) ==
    /\ pc[p] = "built"
    /\ IF ~CursorFails(draft[p].time) /\ SafeCursor(draft[p].time) = draft[p].through
       THEN pending' = [pending EXCEPT ![p] =
                @ \cup {[draft[p] EXCEPT !.registered = Len(checkpoints)]}]
       ELSE UNCHANGED pending
    /\ Idle(p)
    /\ UNCHANGED <<now, writes, checkpoints, reply>>

(* A preview expires, or its file is removed.                               *)
Discard(p, c) ==
    /\ pending' = [pending EXCEPT ![p] = @ \ {c}]
    /\ UNCHANGED <<now, writes, checkpoints, pc, draft, reply>>

--------------------------------------------------------------------------------
(* apply_portfolio / apply_account_sync: the preview is consumed whatever   *)
(* comes of it, and is stale when the checkpoint has changed.               *)
Consume(p, c) ==
    /\ p \notin Cli
    /\ pc[p] = "idle"
    /\ pending' = [pending EXCEPT ![p] = @ \ {c}]
    /\ IF c.registered = Len(checkpoints)
       THEN /\ pc' = [pc EXCEPT ![p] = "consumed"]
            /\ draft' = [draft EXCEPT ![p] = c]
       ELSE UNCHANGED <<pc, draft>>
    /\ reply' = [reply EXCEPT ![p] = "none"]
    /\ UNCHANGED <<now, writes, checkpoints>>

(* It is stale too when the cursor for its time has moved, or the portfolio *)
(* it was compared with is not the projected one any more.  A checkpoint    *)
(* stamps the account it observed with its time, so the projections of two  *)
(* checkpoints never have the same digest.                                  *)
Recheck(p) ==
    LET c == draft[p]
    IN  /\ pc[p] = "consumed"
        /\ IF /\ ~CursorFails(c.time)
              /\ SafeCursor(c.time) = c.through
              /\ Projects(Latest, c.through)
              /\ Len(checkpoints) = c.basis
              /\ Projection(Latest, c.through) = c.current
           THEN /\ pc' = [pc EXCEPT ![p] = "accepted"]
                /\ UNCHANGED draft
           ELSE Idle(p)
        /\ UNCHANGED <<now, writes, checkpoints, pending, reply>>

(* The command lines accept a candidate read back from its file: only its   *)
(* own digests are checked, and the file stays.                             *)
AcceptFile(p, c) ==
    /\ p \in Cli
    /\ pc[p] = "idle"
    /\ pc' = [pc EXCEPT ![p] = "accepted"]
    /\ draft' = [draft EXCEPT ![p] = c]
    /\ reply' = [reply EXCEPT ![p] = "none"]
    /\ UNCHANGED <<now, writes, checkpoints, pending>>

Follows(c, checkpoint) ==
    /\ After(c.time, checkpoint.time)
    /\ c.through >= checkpoint.through

(* persist_checkpoint: the draft must follow the latest checkpoint.         *)
CheckOrder(p) ==
    /\ pc[p] = "accepted"
    /\ IF Follows(draft[p], Latest)
       THEN pc' = [pc EXCEPT ![p] = "ordered"] /\ UNCHANGED draft
       ELSE Idle(p)
    /\ UNCHANGED <<now, writes, checkpoints, pending, reply>>

(* Mutant: the checkpoint claims the whole journal.                         *)
AppendAtTail(p) ==
    LET c == draft[p]
    IN  /\ pc[p] = "ordered"
        /\ checkpoints' = Append(checkpoints,
               [time |-> c.time, through |-> Len(writes), base |-> Reconciled(c)])
        /\ IF p \in Cli
           THEN Idle(p) /\ reply' = [reply EXCEPT ![p] = "applied"]
           ELSE /\ pc' = [pc EXCEPT ![p] = "appended"]
                /\ UNCHANGED <<draft, reply>>
        /\ UNCHANGED <<now, writes, pending>>

(* PortfolioCheckpointStore.append: under its lock it looks for nothing but *)
(* a checkpoint with the same id, which the fresh verification_ref excludes.*)
AppendCheckpoint(p) ==
    LET c == draft[p]
    IN  /\ pc[p] = "ordered"
        /\ checkpoints' = Append(checkpoints,
               [time |-> c.time, through |-> c.through, base |-> Reconciled(c)])
        /\ IF p \in Cli
           THEN Idle(p) /\ reply' = [reply EXCEPT ![p] = "applied"]
           ELSE /\ pc' = [pc EXCEPT ![p] = "appended"]
                /\ UNCHANGED <<draft, reply>>
        /\ UNCHANGED <<now, writes, pending>>

(* Mutant: the read-back projects everything recorded so far.               *)
ReadsBackEverything(c) ==
    /\ Projects(Latest, Len(writes))
    /\ Projection(Latest, Len(writes)) = Reconciled(c)

ReadsBack(c) ==
    /\ Projects(Latest, c.through)
    /\ Projection(Latest, c.through) = Reconciled(c)

(* The portfolio is projected again through the candidate's cursor, and a   *)
(* difference is reported as a failure of the apply.                        *)
ReadBack(p) ==
    /\ pc[p] = "appended"
    /\ reply' = [reply EXCEPT ![p] =
           IF ReadsBack(draft[p]) THEN "applied" ELSE "mismatch"]
    /\ Idle(p)
    /\ UNCHANGED <<now, writes, checkpoints, pending>>

(* A process dies: files stay, pending previews of a connector are lost.    *)
Crash(p) ==
    /\ Idle(p)
    /\ pending' = [pending EXCEPT ![p] = IF p \in Cli THEN @ ELSE {}]
    /\ reply' = [reply EXCEPT ![p] = "none"]
    /\ UNCHANGED <<now, writes, checkpoints>>

Next ==
    \/ Tick
    \/ \E x \in Trades : Record(x)
    \/ \E p \in Procs :
        \/ \E account \in Accounts, time \in SnapshotTimes :
               StartPreview(p, account, time)
        \/ Project(p)
        \/ Register(p)
        \/ \E c \in pending[p] :
               Discard(p, c) \/ Consume(p, c) \/ AcceptFile(p, c)
        \/ Recheck(p)
        \/ CheckOrder(p)
        \/ AppendCheckpoint(p)
        \/ ReadBack(p)
        \/ Crash(p)

Spec == Init /\ [][Next]_vars

--------------------------------------------------------------------------------
(* Every variable stays in its domain, cursors lie within the write journal *)
(* and exactly the processes at work hold a candidate.                      *)
TypeOK ==
    /\ now \in 0 .. MaxTime
    /\ writes \in Seq([trade: Trades, at: 0 .. MaxTime])
    /\ checkpoints \in Seq(Checkpoint) \ {<< >>}
    /\ pc \in [Procs -> {"idle", "cursored", "built", "consumed", "accepted",
                         "ordered", "appended"}]
    /\ draft \in [Procs -> Candidate \cup {NoCandidate}]
    /\ \A p \in Procs : draft[p] = NoCandidate <=> pc[p] = "idle"
    /\ \A i \in DOMAIN checkpoints : checkpoints[i].through <= Len(writes)
    /\ pending \in [Procs -> SUBSET Candidate]
    /\ reply \in [Procs -> {"none", "applied", "mismatch"}]

(* While the portfolio is served, a recorded trade counts exactly once in   *)
(* it, however observations, back-dated records and date-only timepoints    *)
(* interleave, and one that is only observed at most once: the cursor and   *)
(* the strictly-after test together neither add nor lose a trade.           *)
CountedOnce ==
    Available => \A x \in Trades :
        IF x \in Recorded THEN Portfolio[x] = 1 ELSE Portfolio[x] <= 1

(* The checkpoint journal is one that validate_checkpoint_journal_rows, the *)
(* check of backups and restores, accepts: snapshot times strictly increase *)
(* and cursors never go back.  Two processes at work break it: each checks  *)
(* the order against the latest checkpoint it read, and the append that     *)
(* follows under the lock does not (portfolio_checkpoint.py:303-326, 215).  *)
CheckpointsAdvance ==
    \A i \in 2 .. Len(checkpoints) :
        /\ After(checkpoints[i].time, checkpoints[i - 1].time)
        /\ checkpoints[i].through >= checkpoints[i - 1].through

(* An update of one account forgets nothing about the others: a trade that  *)
(* the portfolio shows is still shown by the next portfolio that is served. *)
(* A candidate file that waited breaks it, and so do two connectors whose   *)
(* applies overlap: both compare with the same checkpoint, then append.     *)
NothingForgotten ==
    [][Available /\ Available' =>
           \A x \in Trades : Portfolio'[x] >= Portfolio[x]]_vars

(* An apply whose checkpoint was appended is not reported as a read-back    *)
(* mismatch, whatever is recorded meanwhile.                                *)
NoFalseFailure == \A p \in Procs : reply[p] # "mismatch"
================================================================================
