---------------------------- MODULE CommittedWrites ----------------------------
(***************************************************************************)
(* The journals two write fronts share: knowledge generations and portfolio *)
(* checkpoints, each a growing sequence.  NativeKnowledge and               *)
(* PortfolioUpdates model the journals; here a journal is what the fronts   *)
(* see of it: a version, and whether an append is taken.                    *)
(***************************************************************************)
EXTENDS Naturals, Sequences, FiniteSets, SequencesExt

CONSTANTS
    Requests,   \* updates somebody may ask for
    KindOf      \* [Requests -> Kinds]

Kinds == {"knowledge", "portfolio"}

ASSUME RequestsAssumption == KindOf \in [Requests -> Kinds]

VARIABLES
    journal,    \* [Kinds -> Seq([request, by])]: by is the preview it came from
    answers     \* the "applied" answers given: [by, matches]

(* latest_generation_id, latest(portfolio)["checkpoint_id"].                *)
Version(kind) == Len(journal[kind])

RowsBy(id) == {p \in Kinds \X (1 .. Len(journal["knowledge"]) + Len(journal["portfolio"])) :
                   p[2] <= Version(p[1]) /\ journal[p[1]][p[2]].by = id}

(* The generation identity is in the journal, or the observation is not     *)
(* after the latest checkpoint.                                             *)
Committed(r) == \E row \in ToSet(journal[KindOf[r]]) : row.request = r

Stale(r, base) == base # Version(KindOf[r])

(* The append of a generation compares its base under the journal lock; the *)
(* append of a checkpoint only asks for a later snapshot.                   *)
Appendable(r, base) ==
    /\ ~Committed(r)
    /\ KindOf[r] = "knowledge" => ~Stale(r, base)

Commit(r, id) ==
    journal' = [journal EXCEPT ![KindOf[r]] = Append(@, [request |-> r, by |-> id])]

(* The last row is still the one just written.                              *)
IsLatest(r, id) == <<KindOf[r], Version(KindOf[r])>> \in RowsBy(id)

(* Mutant: the read-back compares with the version before the append.       *)
AnswerBeforeAppend(r, id) == answers' = answers \union {[by |-> id, matches |-> FALSE]}

(* The read-back of an apply.                                               *)
Answer(r, id) == answers' = answers \union {[by |-> id, matches |-> IsLatest(r, id)]}
================================================================================
