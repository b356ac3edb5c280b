------------------------- MODULE MCSessionPublication -------------------------
(* An instance of SessionPublication for TLC: one session with one idea,    *)
(* a brief on document d1, amendments on document d2, a context item that   *)
(* cites d3.                                                                *)
EXTENDS SessionPublication

CONSTANTS g1, u1, r1, d1, d2, d3

Source(d, raw) == [doc |-> d, raw |-> raw, grants |-> TRUE]

Idea(v, relevance, mapping) ==
    [id |-> "i1", version |-> v, candidate |-> "A", relevance |-> relevance,
     mapping |-> mapping,
     priority |-> [profiled |-> FALSE, stated |-> TRUE], docs |-> {d1}]

Traded == Idea(1, "ACTIONABLE_TODAY", "RESOLVED")

Brief(ideas, disposition) ==
    [type |-> "SessionBrief", at |-> 1,
     payload |-> [sources |-> {Source(d1, "raw1")}, ideas |-> ideas, items |-> {},
                  disposition |-> disposition,
                  extraction |-> IF Actionable(ideas) THEN "COMPLETE"
                                 ELSE "NO_ACTIONABLE_SIGNAL"]]

Amend(kind, record, prior) ==
    [type |-> "SessionBriefAmendment", at |-> 2,
     payload |-> [source |-> Source(d2, "raw2"), changed |-> {"i1"}, previous |-> Unset,
                  operations |-> <<[kind |-> kind, id |-> "i1", record |-> record,
                                    prior |-> prior,
                                    resolution |-> IF kind = "restore_eligibility"
                                                   THEN Source(d2, "raw2") ELSE Unset]>>]]

Context ==
    [type |-> "MaterialContext", at |-> 2,
     payload |-> [authority |-> "NONE",
                  items |-> {[id |-> "m1", docs |-> {d3}, authority |-> "NONE"]}]]

b1 == Brief({Traded}, "TRADE_SESSION")
void == Amend("hard_invalidation", Unset, Traded)
off == Amend("withdraw_eligibility", Unset, Traded)
on == Amend("restore_eligibility", Unset, Traded)
better == Amend("replace", Idea(2, "ACTIONABLE_TODAY", "RESOLVED"), Traded)

stale == [void EXCEPT !.payload.previous = <<b1, off>>]

(* Streams that grow in several ways.  The last six are refused: a row      *)
(* revives or replaces an idea that was invalidated, an amendment names     *)
(* another head than the one before it or comes first, a context payload    *)
(* comes twice, a brief trades on an unresolved candidate.                  *)
SomeBundles ==
    {<<b1>>, <<b1, void>>, <<b1, void, Context>>, <<b1, Context, void>>, <<b1, off, on>>,
     <<b1, better>>,
     <<b1, void, on>>, <<b1, void, better>>, <<b1, stale>>, <<void>>,
     <<b1, Context, Context>>,
     <<Brief({Idea(1, "ACTIONABLE_TODAY", "UNRESOLVED")}, "TRADE_SESSION")>>}

SomeOffered ==
    {[bundle |-> b, source |-> s] :
        b \in {<<b1>>, <<b1, void>>, <<b1, void, Context>>},
        s \in {Source(d1, "raw1"), Source(d2, "raw2"), Source(d3, "raw3"),
               Source(d3, "raw1")}}
================================================================================
