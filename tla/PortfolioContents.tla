--------------------------- MODULE PortfolioContents ---------------------------
(***************************************************************************)
(* A portfolio and the accounts it describes.                               *)
(*                                                                         *)
(* Things happen in the accounts; the owner records them, in any order,     *)
(* some never, some by their date, without an amount, or unconfirmed; the   *)
(* broker and the owner are asked what there is, or was.  PortfolioUpdates  *)
(* has the processes and the checkpoint journal; here preparing an update   *)
(* is one step and applying it another, and the clock counts what has       *)
(* happened and been applied.                                               *)
(***************************************************************************)
EXTENDS PortfolioFacts

CONSTANTS
    Events,         \* what may happen in an account: [account, asset, effect]
    BeginSeen,      \* [Accounts -> [Assets -> BOOLEAN]]: what it shows of them is true
    HeldAtFirst,    \* [Accounts -> [Assets -> Nat]]
    MoneyAtFirst,   \* [Accounts -> Int]
    Kinds,          \* the rows that are recorded
    Ids,            \* the digests that identify them, in their order
    Day,            \* instants in a calendar day
    Lag,            \* how old an observation may be (300 seconds for an account's)
    MaxEvents, MaxRecords, MaxUpdates, MaxCandidates,
    MaxSteps        \* events, records and updates together

ASSUME ContentsAssumption ==
    /\ Events \subseteq [account: Accounts, asset: Assets \union {Absent}, effect: {-1, 1}]
    /\ Kinds \subseteq [precision: {0, 1}, priced: BOOLEAN, confirmed: BOOLEAN,
                        supported: BOOLEAN]
    /\ Ids \subseteq Nat /\ Day \in Nat \ {0}
    /\ HeldAtFirst \in [Accounts -> [Assets -> Nat]] /\ MoneyAtFirst \in [Accounts -> Int]
    /\ Lag \in Nat /\ MaxUpdates \in Nat

(* What the first portfolio says of what was seen, of complete cash and of  *)
(* valuations is true.                                                      *)
ASSUME BeginAssumption ==
    \A a \in Accounts :
        /\ Begin.money[a] = "complete" => Amount(Begin.cash[a]) = MoneyAtFirst[a]
        /\ \A x \in Assets :
              LET row == Begin.positions[a][x]
              IN  /\ BeginSeen[a][x] => /\ row # Absent => row.known
                                        /\ Quantity(row) = HeldAtFirst[a][x]
                  /\ row # Absent /\ row.valued # Absent => row.valued = row.quantity

VARIABLES
    happened,       \* events and their times, in their order
    journal,        \* [event, kind, id, at] in the order of recording
    checkpoint,     \* [base, at, through]: the latest
    candidates,     \* prepared: [observed, through, current, measured, seen, paid]
    updates,        \* how many were applied
    seen,           \* when each position's quantity was last observed, and each
    paid            \* account's cash, in the updates the checkpoint is built on,
                    \* or Absent (history variables)

contents == <<happened, journal, checkpoint, candidates, updates, seen, paid>>

ContentsInit ==
    /\ happened = << >> /\ journal = << >>
    /\ checkpoint = [base |-> Begin, at |-> 0, through |-> 0]
    /\ seen = [a \in Accounts |-> [x \in Assets |-> IF BeginSeen[a][x] THEN 0 ELSE Absent]]
    /\ paid = [a \in Accounts |-> IF Begin.money[a] = "complete" THEN 0 ELSE Absent]
    /\ candidates = {} /\ updates = 0

--------------------------------------------------------------------------------
(* The accounts as they are, and were at a time (external).                 *)
Now == Len(happened) + updates

Steps == Now + Len(journal)

Total(S) == FoldFunctionOnSet(LAMBDA m, n : m + n, 0,
                              [i \in S |-> happened[i].effect], S)

Until(t) == {i \in DOMAIN happened : happened[i].at <= t}
Payments(a) == {i \in DOMAIN happened : happened[i].account = a}
Moves(a, x) == {i \in Payments(a) : happened[i].asset = x}
Bought(a) == {i \in Payments(a) : happened[i].asset # Absent}

Held(a, x, t) == HeldAtFirst[a][x] + Total(Moves(a, x) \intersect Until(t))
Money(a, t) == MoneyAtFirst[a] + Total((Payments(a) \ Bought(a)) \intersect Until(t))
                               - Total(Bought(a) \intersect Until(t))

Happen(e) ==
    /\ Len(happened) < MaxEvents /\ Steps < MaxSteps
    /\ e.asset # Absent => Held(e.account, e.asset, Now) + e.effect >= 0
    /\ happened' = Append(happened, [account |-> e.account, asset |-> e.asset,
                                    effect |-> e.effect, at |-> Now + 1])
    /\ UNCHANGED <<journal, checkpoint, candidates, updates, seen, paid>>

Recorded == {journal[i].event : i \in DOMAIN journal}

Record(i, kind, id) ==
    /\ i \in DOMAIN happened \ Recorded
    /\ \A k \in DOMAIN journal : journal[k].id # id
    /\ Len(journal) < MaxRecords /\ Steps < MaxSteps
    /\ journal' = Append(journal, [event |-> i, at |-> Now, id |-> id, kind |-> kind])
    /\ UNCHANGED <<happened, checkpoint, candidates, updates, seen, paid>>

(* The first instant of a day; the first checkpoint is the last of one.     *)
DayOf(t) == t - ((t - 1) % Day)

(* effective_at, as the owner records it.                                   *)
Effective(row) ==
    IF row.kind.precision = 1 THEN happened[row.event].at ELSE DayOf(happened[row.event].at)

--------------------------------------------------------------------------------
(* What was recorded by then and is not a date on the same day, where one   *)
(* cannot tell.                                                             *)
Covered(row, t) ==
    row.at <= t /\ (row.kind.precision = 1 \/ Effective(row) + Day <= t)

(* _journal_cursor_for_snapshot: the longest prefix of such rows.           *)
SafeCursor(t) ==
    CHOOSE n \in 0 .. Len(journal) :
        /\ \A k \in 1 .. n : Covered(journal[k], t)
        /\ n < Len(journal) => ~Covered(journal[n + 1], t)

(* transactions_between_cursors.                                            *)
Delta(through) == [i \in 1 .. through - checkpoint.through |->
    LET row == journal[checkpoint.through + i]
        event == happened[row.event]
    IN  [account |-> event.account, asset |-> event.asset, effect |-> event.effect,
         at |-> Effective(row), precision |-> row.kind.precision,
         recorded |-> row.at, id |-> row.id, priced |-> row.kind.priced,
         confirmed |-> row.kind.confirmed, supported |-> row.kind.supported]]

(* project_from_latest_checkpoint_through_cursor: what was recorded after   *)
(* the checkpoint has to have happened after it, too.                       *)
InTime(through) == \A i \in DOMAIN Delta(through) : Delta(through)[i].at > checkpoint.at

Projection(through) == Materialized(checkpoint.base, Delta(through))

Projects(through) ==
    through >= checkpoint.through /\ InTime(through) /\ ~Projection(through).blocked

(* project_from_latest_checkpoint.                                          *)
Served == Projects(Len(journal))
Shown == Projection(Len(journal)).portfolio

(* _current_as_of_snapshot, _current_at_snapshot.                           *)
Current(t) == Projection(SafeCursor(t)).portfolio

(* A candidate is prepared against what there was at its time, and rests on *)
(* what was observed before.  It is measured unless the quantity in it is   *)
(* the one that was projected.                                              *)
Prepare(o, measured) ==
    /\ candidates' = candidates \union
           {[observed |-> o, through |-> SafeCursor(o.at), current |-> Current(o.at),
             measured |-> measured, seen |-> seen, paid |-> paid]}
    /\ UNCHANGED <<happened, journal, checkpoint, updates, seen, paid>>

(* What an applied candidate makes known, and what it makes unknown.        *)
Known(c) ==
    LET o == c.observed IN
    /\ seen' = [a \in Accounts |-> [x \in Assets |->
           IF a \notin o.scope THEN c.seen[a][x]
           ELSE IF o.positions[a][x] = Absent
                THEN IF o.holdings[a] = "complete" THEN o.at ELSE c.seen[a][x]
           ELSE IF ~o.positions[a][x].known THEN Absent
           ELSE IF c.measured THEN o.at ELSE c.seen[a][x]]]
    /\ paid' = [a \in Accounts |->
           IF a \in o.scope /\ (o.cash[a] # Absent \/ o.money[a] = "complete")
           THEN o.at ELSE c.paid[a]]

(* The checkpoint of a candidate, which has to follow the latest.           *)
Install(c, through) ==
    /\ updates < MaxUpdates
    /\ c.observed.at > checkpoint.at /\ c.through >= checkpoint.through
    /\ checkpoint' = [base |-> Reconciled(c.current, c.observed),
                      at |-> c.observed.at, through |-> through]
    /\ Known(c)
    /\ candidates' = candidates \ {c} /\ updates' = updates + 1
    /\ UNCHANGED <<happened, journal>>

(* Mutant: what is recorded while the preview waits is taken for included.  *)
ApplyAtTail(c) == Install(c, Len(journal))

(* accept_portfolio_update and accept_account_sync, at the command line: a  *)
(* candidate is not compared with the checkpoint that is the latest by now, *)
(* and the checkpoint goes through what the candidate includes.  A          *)
(* connector does compare, and refuses some that are applied here.          *)
Apply(c) == Install(c, c.through)

(* The preview expires, or its file is removed.                             *)
Discard(c) ==
    /\ candidates' = candidates \ {c}
    /\ UNCHANGED <<happened, journal, checkpoint, updates, seen, paid>>

--------------------------------------------------------------------------------
(* What a broker may answer of an account (external): how complete it is of *)
(* holdings and cash, and the truth at some time, with or without           *)
(* valuations, what is not held listed with quantity zero or not listed, no *)
(* cash not listed either.                                                  *)
Snapshots ==
    [account: Accounts, at: 0 .. Now + 1,
     holdings: {"complete", "partial", "unavailable"},
     money: {"complete", "partial", "unavailable"},
     valued: BOOLEAN, zeroes: BOOLEAN, listed: BOOLEAN]

(* validate_account_snapshot: not from the future and not too old.          *)
Valid(s) == s.at <= Now /\ Now - s.at <= Lag

(* The rows of an account's assets S as observed at a time.                 *)
SeenPositions(a, t, S, valued, zeroes) ==
    [x \in Assets |-> IF x \in S /\ (Held(a, x, t) > 0 \/ zeroes)
                      THEN SeenRow(Current(t).positions[a][x], Held(a, x, t), valued) ELSE Absent]

(* account_snapshot_to_observed_portfolio: a component that is not complete *)
(* is not observed at all.                                                  *)
ObservedBy(s) ==
    LET label(state) == IF state = "complete" THEN "complete" ELSE "unknown"
        assets == IF s.holdings = "complete" THEN Assets ELSE {}
        money == Money(s.account, s.at)
    IN  [Blank({s.account}, s.at) EXCEPT
            !.positions[s.account] = SeenPositions(s.account, s.at, assets, s.valued, s.zeroes),
            !.cash[s.account] =
               IF s.money = "complete" /\ (s.listed \/ money # 0) THEN money ELSE Absent,
            !.holdings[s.account] = label(s.holdings),
            !.money[s.account] = label(s.money)]

(* The differences of a candidate: without one there is nothing to review.  *)
Changes(o) ==
    LET p == Reconciled(Current(o.at), o)
    IN  p.positions # Current(o.at).positions \/ p.cash # Current(o.at).cash

(* build_account_sync_preview: no component in part or stale, at least one, *)
(* and the cash basis has to survive.                                       *)
SyncPreview(s) ==
    /\ Valid(s)
    /\ "partial" \notin {s.holdings, s.money}
    /\ "complete" \in {s.holdings, s.money}
    /\ s.at > checkpoint.at /\ Projects(SafeCursor(s.at))
    /\ s.account \in Basis =>
           Reconciled(Current(s.at), ObservedBy(s)).cash[s.account] # Absent
    /\ Changes(ObservedBy(s))
    /\ Prepare(ObservedBy(s), TRUE)

(* A full observation that someone hands in, as far as it claims to go.     *)
ObservationPreview(a, t) ==
    \E holdings, money \in Labels, valued \in BOOLEAN, S \in SUBSET Assets :
        /\ holdings = "complete" => S = Assets
        /\ holdings = "unknown" => S = {}
        /\ Prepare([Blank({a}, t) EXCEPT
                !.positions[a] = SeenPositions(a, t, S, valued, FALSE),
                !.cash[a] = IF money = "unknown" THEN Absent ELSE Money(a, t),
                !.holdings[a] = holdings, !.money[a] = money], TRUE)

(* The owner states what there is of a position, ...                        *)
NarrowPreview(a, t, x) ==
    LET row == Current(t).positions[a][x]
        held == Held(a, x, t)
    IN  \/ /\ row # Absent /\ (row.known => row.quantity # held)
           /\ Prepare(StatedQuantity(t, a, x, held), TRUE)
        \/ \E quantity \in {Absent, held}, valued \in BOOLEAN :
               /\ quantity # Absent \/ valued
               /\ \/ /\ row # Absent
                     /\ Prepare(StatedValues(row, t, a, x, quantity, valued), quantity # Absent)
                  \/ /\ row = Absent /\ held > 0
                     /\ Prepare(Added(t, a, x, quantity, valued), quantity # Absent)

(* ... or of the cash.                                                      *)
CashPreview(a, t) ==
    /\ Current(t).cash[a] # Absent /\ Current(t).cash[a] # Money(a, t)
    /\ Prepare(StatedCash(t, a, Money(a, t)), TRUE)

(* build_portfolio_update_preview.                                          *)
UpdatePreview(a, t) ==
    /\ t > checkpoint.at /\ Projects(SafeCursor(t))
    /\ \/ ObservationPreview(a, t)
       \/ CashPreview(a, t)
       \/ \E x \in Assets : NarrowPreview(a, t, x)

Preview ==
    /\ Cardinality(candidates) < MaxCandidates
    /\ updates < MaxUpdates /\ Steps < MaxSteps
    /\ \/ \E s \in Snapshots : SyncPreview(s)
       \/ \E a \in Accounts, t \in Now - Lag .. Now : UpdatePreview(a, t)

ContentsNext ==
    \/ \E e \in Events : Happen(e)
    \/ \E i \in DOMAIN happened, kind \in Kinds, id \in Ids : Record(i, kind, id)
    \/ Preview
    \/ \E c \in candidates : Apply(c) \/ Discard(c)

ContentsSpec == ContentsInit /\ [][ContentsNext]_contents

--------------------------------------------------------------------------------
(* Whatever is recorded and stated, no checkpoint and no candidate holds a  *)
(* negative quantity, and every row of a delta is of something that         *)
(* happened.                                                                *)
ContentsTypes ==
    /\ \A i \in DOMAIN journal : journal[i].event \in DOMAIN happened
    /\ checkpoint.base \in Portfolio
    /\ \A c \in candidates : c.observed \in Observation /\ c.current \in Portfolio
    /\ updates \in 0 .. MaxUpdates

(* Events that are accounted for: observed by then, or recorded since.      *)
Counted(a, since) ==
    {i \in Payments(a) : happened[i].at <= since \/ \E k \in DOMAIN journal :
        journal[k].event = i /\ journal[k].kind.confirmed}

(* Whatever is recorded late, by its date, unconfirmed or not at all, and   *)
(* whatever is observed in part, or applied between preparing and applying: *)
(* a position that was observed in one of the updates the checkpoint is     *)
(* built on shows what was last observed there and every confirmed trade    *)
(* since, once.  (A candidate is built on what it was prepared from: what   *)
(* is applied before it, from another file, is no part of that, as          *)
(* portfolio_update_cli.py:146 compares nothing; see NothingForgotten.)     *)
PositionsExplained ==
    Served => \A a \in Accounts, x \in Assets :
        seen[a][x] # Absent =>
            Quantity(Shown.positions[a][x]) =
                HeldAtFirst[a][x] + Total(Counted(a, seen[a][x]) \intersect Moves(a, x))

(* Cash that is called complete is what was observed and every confirmed    *)
(* transaction since: one that could not be booked takes the word away.     *)
CashExplained ==
    Served => \A a \in Accounts :
        Shown.money[a] = "complete" /\ paid[a] # Absent =>
            LET counted == Counted(a, paid[a])
            IN  Amount(Shown.cash[a]) = MoneyAtFirst[a] + Total(counted \ Bought(a))
                                  - Total(counted \intersect Bought(a))

(* The rows after the checkpoint tell the order of what moved a position:   *)
(* dates do not unless all of a day's are dates, recorded in their order.   *)
OrderTold ==
    \A i, j \in DOMAIN Delta(Len(journal)) :
        LET t == Delta(Len(journal))[i]
            u == Delta(Len(journal))[j]
        IN  /\ t.confirmed /\ u.confirmed /\ t.account = u.account /\ t.asset = u.asset
            /\ journal[checkpoint.through + i].event < journal[checkpoint.through + j].event
            => Sooner(t, u)

(* Once everything that happened is recorded, or covered by an observation, *)
(* the portfolio is served, in whatever order it was recorded: on the way,  *)
(* a sale recorded before its purchase may block it.  That is, if each      *)
(* basis has its row, nothing recorded since the checkpoint is from before  *)
(* it or of a type that is not supported, and the times of the rows tell    *)
(* the order of the trades of each position.                                *)
RecordedIsServed ==
    (/\ \A a \in Basis : checkpoint.base.cash[a] # Absent
     /\ \A a \in Accounts, x \in Assets :
            IF seen[a][x] = Absent THEN Moves(a, x) = {}
            ELSE Moves(a, x) \subseteq Counted(a, seen[a][x])
     /\ \A i \in DOMAIN Delta(Len(journal)) :
            Delta(Len(journal))[i].confirmed => Delta(Len(journal))[i].supported
     /\ InTime(Len(journal)) /\ OrderTold)
    => Served

(* A valuation is shown only with the quantity it was observed for.         *)
ValuesFit ==
    Served => \A a \in Accounts, x \in Assets :
        LET row == Shown.positions[a][x]
        IN  row # Absent /\ row.valued # Absent => row.valued = row.quantity
================================================================================
