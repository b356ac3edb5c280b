-------------------------- MODULE MCPortfolioContents --------------------------
(* Account a has a cash basis and begins fully known; b has none, and the    *)
(* first checkpoint misses what it holds of x.                               *)
EXTENDS PortfolioContents

CONSTANTS a, b, x

SeedPortfolio ==
    [positions |-> a :> (x :> Absent) @@ b :> (x :> Absent),
     cash |-> a :> 1 @@ b :> Absent,
     holdings |-> a :> "complete" @@ b :> "unknown",
     money |-> a :> "complete" @@ b :> "unknown"]

SeedSeen == a :> (x :> TRUE) @@ b :> (x :> FALSE)
SeedHeld == a :> (x :> 0) @@ b :> (x :> 1)
SeedMoney == a :> 1 @@ b :> 1

Trade(acct, n) == [account |-> acct, asset |-> x, effect |-> n]
SomeEvents == {Trade(a, 1), Trade(a, -1), Trade(b, -1),
               [account |-> a, asset |-> Absent, effect |-> 1]}
Kind(precision, priced, confirmed, supported) ==
    [precision |-> precision, priced |-> priced, confirmed |-> confirmed, supported |-> supported]

(* Without an amount, or unconfirmed; by its date, or a correction.           *)
AmountKinds == {Kind(1, TRUE, TRUE, TRUE), Kind(1, FALSE, TRUE, TRUE), Kind(1, TRUE, FALSE, TRUE)}
DatedKinds == {Kind(1, TRUE, TRUE, TRUE), Kind(0, TRUE, TRUE, TRUE)}
OrderKinds == DatedKinds \union {Kind(1, TRUE, TRUE, FALSE)}
SomeKinds == AmountKinds \union OrderKinds

(* A behaviour is about one of three questions, each with bounds of its own:  *)
(* what of amounts and labels is explained, what candidates do to each other, *)
(* and what the order of rows does.                                           *)
VARIABLE question

MCInit == ContentsInit /\ question \in {"amounts", "files", "order"}

KindsRecorded(S) == \A i \in DOMAIN journal' : journal'[i].kind \in S

(* Identifiers only break ties: elsewhere they are in the order of the rows.  *)
InOrder == \A i \in DOMAIN journal' : journal'[i].id = i

(* Candidates state quantities; one row; the account that begins known buys,  *)
(* and the other sells.                                                       *)
OfQuantities ==
    /\ Len(journal') <= 1
    /\ \A i \in DOMAIN happened' : happened'[i] \in [account: {a}, asset: {x}, effect: {1}, at: Nat]
                                      \union [account: {b}, asset: {x}, effect: {-1}, at: Nat]
    /\ \A c \in candidates' : \A acct \in c.observed.scope :
          LET row == c.observed.positions[acct][x]
          IN  /\ c.observed.money[acct] = "unknown" /\ c.observed.holdings[acct] # "unknown"
              /\ row = Absent \/ row.valued = Absent

Bounds ==
    CASE question = "amounts" -> KindsRecorded(AmountKinds) /\ InOrder
      [] question = "files"   -> KindsRecorded(DatedKinds) /\ InOrder /\ OfQuantities
      [] question = "order"   -> KindsRecorded(OrderKinds)

(* Several candidates wait, and a step more is taken, where they are the      *)
(* question.                                                                  *)
InBounds == question = "files" \/ Steps < MaxSteps - 1
MayPrepare == question = "files" \/ candidates = {}

(* ContentsNext, within these bounds.                                         *)
MCNext ==
    /\ \/ InBounds /\ \E e \in Events : Happen(e)
       \/ InBounds /\ \E i \in DOMAIN happened, kind \in Kinds, id \in Ids : Record(i, kind, id)
       \/ InBounds /\ MayPrepare /\ Preview
       \/ \E c \in candidates : Apply(c) \/ Discard(c)
    /\ UNCHANGED question
    /\ Bounds

MCSpec == MCInit /\ [][MCNext]_<<contents, question>>
================================================================================
