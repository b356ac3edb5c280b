----------------------------- MODULE PortfolioFacts -----------------------------
(***************************************************************************)
(* What a portfolio holds, and how transactions and observations change it. *)
(*                                                                         *)
(*   runtime/portfolio_materializer.py      a base and a delta              *)
(*   runtime/portfolio_reconciliation.py    a portfolio and an observation  *)
(*   runtime/portfolio_account_sync.py      an observation from a broker    *)
(*   runtime/portfolio_update_service.py    one from the owner              *)
(*                                                                         *)
(* Assets are their canonical identities, every account has at most one     *)
(* cash row, amounts are small integers and every price is one.  A row or   *)
(* an amount that is not there is Absent.  A position carries the quantity    *)
(* its valuation was observed with, if it has one.                          *)
(***************************************************************************)
EXTENDS Integers, Sequences, FiniteSets, SequencesExt

CONSTANTS
    Accounts, Assets,
    Begin,          \* the portfolio of the first checkpoint
    Nominal,        \* accounts whose cash is a nominal balance
    Absent

(* infer_initial_cash_basis_refs: the cash that transactions are booked to. *)
Basis == {a \in Nominal : Begin.cash[a] # Absent}

Position == [quantity: Nat, known: BOOLEAN, valued: Nat \union {Absent}]

Labels == {"complete", "partial", "unknown"}

(* The rows of a portfolio by account and asset: each is there once.        *)
Portfolio == [positions: [Accounts -> [Assets -> Position \union {Absent}]],
              cash: [Accounts -> Int \union {Absent}],
              holdings: [Accounts -> Labels], money: [Accounts -> Labels]]

(* What is not there is no asset, number or row.                            *)
ASSUME FactsAssumption ==
    /\ Nominal \subseteq Accounts /\ Begin \in Portfolio
    /\ Absent \notin Assets /\ Absent \notin Int /\ Absent \notin Position

(* asset is Absent for what moves only cash.  A time that is only a date is *)
(* the first instant of its day, with precision 0.  A transaction that is   *)
(* not supported is a correction, a corporate action or another one.        *)
Transaction == [account: Accounts, asset: Assets \union {Absent}, effect: {-1, 1},
                at: Nat, precision: {0, 1}, recorded: Nat, id: Nat,
                priced: BOOLEAN, confirmed: BOOLEAN, supported: BOOLEAN]

Quantity(row) == IF row = Absent THEN 0 ELSE row.quantity
Amount(cash) == IF cash = Absent THEN 0 ELSE cash

--------------------------------------------------------------------------------
(* Materialization.  A result is a portfolio, or blocked.                   *)
Result(p, blocked) == [portfolio |-> p, blocked |-> blocked]

Adjusted(p, t) ==
    [p EXCEPT !.positions[t.account][t.asset] =
        [quantity |-> Quantity(@) + t.effect, known |-> TRUE, valued |-> Absent]]

(* A trade moves its quantity to the position; one whose quantity is not    *)
(* confirmed, or that would go below zero, blocks.  A valuation is dropped. *)
(* (No account is ever allowed to go short: a portfolio is seeded with none *)
(* that is, portfolio_authority_seed.py:128, and checkpoints hand that on.) *)
Traded(p, t) ==
    LET row == p.positions[t.account][t.asset]
    IN  Result(Adjusted(p, t), (row # Absent /\ ~row.known) \/ Quantity(row) + t.effect < 0)

(* _cash_effect.  What is bought is paid for; what has no amount moves none.*)
CashEffect(t) ==
    IF ~t.priced THEN Absent ELSE IF t.asset = Absent THEN t.effect ELSE 0 - t.effect

Booked(p, t) == [p EXCEPT !.cash[t.account] = IF @ = Absent THEN Absent ELSE @ + CashEffect(t)]

(* Mutant: cash that could not be moved is still called complete.           *)
PaidSilently(p, t) == IF CashEffect(t) # Absent /\ t.account \in Basis THEN Booked(p, t) ELSE p

(* Cash moves when its amount and its basis are known, else the account's   *)
(* cash is no longer complete.                                              *)
Paid(p, t) ==
    IF CashEffect(t) # Absent /\ t.account \in Basis THEN Booked(p, t)
    ELSE [p EXCEPT !.money[t.account] = "partial"]

Step(r, t) ==
    IF ~t.confirmed THEN r
    ELSE IF ~t.supported THEN Result(r.portfolio, TRUE)
    ELSE LET traded == IF t.asset = Absent THEN Result(r.portfolio, FALSE)
                       ELSE Traded(r.portfolio, t)
         IN  Result(Paid(traded.portfolio, t), r.blocked \/ traded.blocked)

(* What the times of two transactions tell: the effective time, then a date *)
(* before an instant, then which was recorded first.                        *)
Sooner(t, u) ==
    \/ t.at < u.at
    \/ t.at = u.at /\ t.precision < u.precision
    \/ t.at = u.at /\ t.precision = u.precision /\ t.recorded < u.recorded

(* _transaction_sort_key: where they tell nothing, the identifiers, which   *)
(* are digests, decide.                                                     *)
Precedes(t, u) == Sooner(t, u) \/ (~Sooner(u, t) /\ t.id < u.id)

(* Mutant: in the order of the journal.                                     *)
LatestRecorded(delta, S) == CHOOSE i \in S : \A j \in S : j <= i

(* The transaction that none of S follows.                                  *)
Latest(delta, S) == CHOOSE i \in S : \A j \in S : ~Precedes(delta[i], delta[j])

(* materialize_portfolio: the latest transaction is applied last.  A        *)
(* declared basis needs its row.                                            *)
Materialized(base, delta) ==
    MapThenFoldSet(LAMBDA t, r : Step(r, t),
                   Result(base, \E a \in Basis : base.cash[a] = Absent),
                   LAMBDA i : delta[i], LAMBDA S : Latest(delta, S), DOMAIN delta)

--------------------------------------------------------------------------------
(* Observations: what was seen of the accounts in scope, at what time, and  *)
(* how completely.  What was not seen is Absent.                              *)
Observation == [scope: SUBSET Accounts, at: Nat,
                positions: [Accounts -> [Assets -> Position \union {Absent}]],
                cash: [Accounts -> Int \union {Absent}],
                holdings: [Accounts -> Labels], money: [Accounts -> Labels]]

(* Mutant: a valuation outlives the quantity it was observed with.          *)
MergedKeepingValue(row, seen) ==
    IF row = Absent THEN seen
    ELSE [seen EXCEPT !.valued = IF @ = Absent THEN row.valued ELSE @]

(* _merge_position_observation: the row keeps a valuation only while its    *)
(* quantity stays.                                                          *)
Merged(row, seen) ==
    IF row = Absent THEN seen
    ELSE [seen EXCEPT !.valued =
             IF @ = Absent /\ row.quantity = seen.quantity THEN row.valued ELSE @]

(* A row that was not observed is gone only from a complete observation.    *)
Remaining(state, row) == IF state = "complete" THEN Absent ELSE row

PositionsAfter(p, o) ==
    [a \in Accounts |-> [x \in Assets |->
        IF a \notin o.scope THEN p.positions[a][x]
        ELSE IF o.positions[a][x] = Absent THEN Remaining(o.holdings[a], p.positions[a][x])
        ELSE Merged(p.positions[a][x], o.positions[a][x])]]

CashAfter(p, o) ==
    [a \in Accounts |->
        IF a \notin o.scope THEN p.cash[a]
        ELSE IF o.cash[a] = Absent THEN Remaining(o.money[a], p.cash[a])
        ELSE o.cash[a]]

(* An account that was observed is as complete as the observation.          *)
LabelsAfter(old, new, scope) == [a \in Accounts |-> IF a \in scope THEN new[a] ELSE old[a]]

(* build_reconciliation_candidate.                                          *)
Reconciled(p, o) ==
    [positions |-> PositionsAfter(p, o), cash |-> CashAfter(p, o),
     holdings |-> LabelsAfter(p.holdings, o.holdings, o.scope),
     money |-> LabelsAfter(p.money, o.money, o.scope)]

(* An observation of nothing, to be filled in.                              *)
Blank(scope, at) ==
    [scope |-> scope, at |-> at, positions |-> [a \in Accounts |-> [x \in Assets |-> Absent]],
     cash |-> [a \in Accounts |-> Absent],
     holdings |-> [a \in Accounts |-> "unknown"], money |-> [a \in Accounts |-> "unknown"]]

(* One row of account_snapshot_to_observed_portfolio: a new valuation, or   *)
(* the one there was if the quantity is the same.                           *)
SeenRow(row, quantity, valued) ==
    [quantity |-> quantity, known |-> TRUE,
     valued |-> IF valued THEN quantity
                ELSE IF row # Absent /\ row.quantity = quantity THEN row.valued ELSE Absent]

(* _narrow_observation: the owner states a quantity, ...                    *)
StatedQuantity(at, a, x, quantity) ==
    [Blank({a}, at) EXCEPT
        !.positions[a][x] = [quantity |-> quantity, known |-> TRUE, valued |-> Absent],
        !.holdings[a] = "partial"]

(* ... or a quantity, a valuation, or both, of a position there is, ...     *)
StatedValues(row, at, a, x, quantity, valued) ==
    LET next == IF quantity = Absent THEN row.quantity ELSE quantity
    IN  [Blank({a}, at) EXCEPT
            !.positions[a][x] =
               [quantity |-> next, known |-> quantity # Absent \/ row.known,
                valued |-> IF valued THEN next
                           ELSE IF next = row.quantity THEN row.valued ELSE Absent],
            !.holdings[a] = "partial"]

(* ... or a position that is new, its quantity unknown if only its value is *)
(* given, ...                                                               *)
Added(at, a, x, quantity, valued) ==
    [Blank({a}, at) EXCEPT
        !.positions[a][x] =
           [quantity |-> IF quantity = Absent THEN 0 ELSE quantity, known |-> quantity # Absent,
            valued |-> IF ~valued THEN Absent ELSE IF quantity = Absent THEN 0 ELSE quantity],
        !.holdings[a] = "partial"]

(* ... or an amount of cash.                                                *)
StatedCash(at, a, amount) ==
    [Blank({a}, at) EXCEPT !.cash[a] = amount, !.money[a] = "partial"]
================================================================================
