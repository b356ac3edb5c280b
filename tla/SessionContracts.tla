---------------------------- MODULE SessionContracts ----------------------------
(***************************************************************************)
(* The session authority contract: which payloads may enter a session's     *)
(* event streams, and what a stream of them says of its trading ideas.      *)
(*                                                                         *)
(*   session_authority/contracts.py   the validators and                    *)
(*                                    replay_authority_payloads             *)
(*   session_authority/producer.py    SessionAuthorityProducer.append_*,    *)
(*                                    _validate_chain                       *)
(*                                                                         *)
(* The module has operators only.  A payload keeps the fields that relate   *)
(* one part of a stream to another; what only concerns the shape of a field *)
(* (non-empty strings, digests, exact field sets, orders) is left out.      *)
(*                                                                         *)
(* A canonical-JSON hash stands for what it is the hash of.  The hash of an *)
(* idea is the idea; the hash of an event covers the hash of its            *)
(* predecessor, so it is the stream up to and including the event.          *)
(***************************************************************************)
EXTENDS Naturals, Sequences, SequencesExt

CONSTANTS
    Unset       \* a field that is null, or left for the producer to fill

(***************************************************************************)
(* Sources, ideas and context items.                                        *)
(*                                                                         *)
(* Source      [doc, raw, grants]: a document, the hash of its bytes, and   *)
(*             whether intent, role, date and profile grant it              *)
(*             SESSION_TRADING_INPUT authority for this session.            *)
(* Idea        [id, version, candidate, relevance, mapping, priority,       *)
(*             docs]: docs are the documents its provenance, its grounds    *)
(*             and its mapping name as evidence, and priority is [profiled, *)
(*             stated], whether a source profile ranks it and whether the   *)
(*             source itself says so.                                       *)
(* ContextItem [id, docs, authority].                                       *)
(***************************************************************************)
DocsOf(sources) == {s.doc : s \in sources}

SourceValid(s) == s.grants

(* The source of an amendment is a source document in other words.          *)
AmendmentSourceValid(p) == SourceValid(p.source)

(* Evidence has to name a document of the given set; the context stream     *)
(* passes no set, and then any document will do.                            *)
EvidenceValid(docs, authorized) == docs # {} /\ docs \subseteq authorized

(* Only a resolved candidate has a symbol and can be acted on.              *)
CandidateValid(idea) ==
    /\ idea.mapping \in {"RESOLVED", "UNRESOLVED", "CONFLICT"}
    /\ idea.relevance = "ACTIONABLE_TODAY" => idea.mapping = "RESOLVED"

(* A profile ranks only what the source states.                             *)
PriorityValid(priority) == priority.profiled => priority.stated

IdeaValid(idea, authorized) ==
    /\ idea.version >= 1
    /\ idea.relevance \in {"ACTIONABLE_TODAY", "CONTEXT_ONLY", "AMBIGUOUS"}
    /\ CandidateValid(idea)
    /\ PriorityValid(idea.priority)
    /\ EvidenceValid(idea.docs, authorized)

(* A context item supports; it never makes a candidate.                     *)
ContextItemValid(item) == item.authority = "NONE" /\ item.docs # {}

Actionable(ideas) == \E idea \in ideas : idea.relevance = "ACTIONABLE_TODAY"

(***************************************************************************)
(* Payloads.                                                                *)
(*                                                                         *)
(* SessionBrief          [sources, ideas, items, disposition, extraction]   *)
(* SessionBriefAmendment [source, changed, operations, previous]            *)
(* MaterialContext       [items, authority]                                 *)
(*                                                                         *)
(* An operation is [kind, id, record, prior, resolution]; prior is the      *)
(* version and hash of the record it expects, that is, the record.          *)
(***************************************************************************)
BriefValid(p) ==
    /\ p.sources # {}
    /\ \A s \in p.sources : SourceValid(s)
    /\ \A s, t \in p.sources : s.doc = t.doc => s = t
    /\ \A idea \in p.ideas : IdeaValid(idea, DocsOf(p.sources))
    /\ \A i, j \in p.ideas : i.id = j.id => i = j
    /\ \A item \in p.items :
          ContextItemValid(item) /\ item.docs \subseteq DocsOf(p.sources)
    /\ p.disposition = "TRADE_SESSION" <=> Actionable(p.ideas)
    /\ p.extraction = IF Actionable(p.ideas) THEN "COMPLETE" ELSE "NO_ACTIONABLE_SIGNAL"

(* What an operation must carry, whatever the records are.                  *)
OperationValid(op, source) ==
    /\ op.kind \in {"add", "replace", "withdraw_eligibility", "hard_invalidation",
                    "restore_eligibility"}
    /\ (op.prior = Unset) <=> (op.kind = "add")
    /\ (op.record # Unset) <=> (op.kind \in {"add", "replace"})
    /\ op.resolution = IF op.kind = "restore_eligibility" THEN source ELSE Unset

AmendmentValid(p) ==
    /\ AmendmentSourceValid(p)
    /\ p.operations # << >>
    /\ \A k \in DOMAIN p.operations : OperationValid(p.operations[k], p.source)
    /\ \A j, k \in DOMAIN p.operations :
          p.operations[j].id = p.operations[k].id => j = k
    /\ p.changed = {p.operations[k].id : k \in DOMAIN p.operations}

MaterialContextValid(p) ==
    /\ p.authority = "NONE"
    /\ \A item \in p.items : ContextItemValid(item)

(***************************************************************************)
(* Replay.  The state of a replay is [ok, records, statuses, authorized]:   *)
(* the latest record of every idea, its eligibility, and the documents that *)
(* may be cited.  An operation whose preconditions fail refuses the stream. *)
(***************************************************************************)
BriefState(p) ==
    LET ids == {idea.id : idea \in p.ideas} IN
    [ok         |-> BriefValid(p),
     records    |-> [i \in ids |-> CHOOSE idea \in p.ideas : idea.id = i],
     statuses   |-> [i \in ids |-> "eligible"],
     authorized |-> DocsOf(p.sources)]

Known(st, op) == op.id \in DOMAIN st.records

PriorHolds(st, op) == Known(st, op) /\ st.records[op.id] = op.prior

Terminal(st, op) == st.statuses[op.id] = "hard_invalidation"

RecordFits(st, op) ==
    /\ IdeaValid(op.record, st.authorized)
    /\ op.record.id = op.id

(* Mutant: anything that is off can be restored.                            *)
RestorableWhenOff(st, op) == PriorHolds(st, op) /\ st.statuses[op.id] # "eligible"

Restorable(st, op) == PriorHolds(st, op) /\ st.statuses[op.id] = "withdraw_eligibility"

OperationAllowed(st, op) ==
    \/ /\ op.kind = "add"
       /\ ~Known(st, op)
       /\ RecordFits(st, op)
       /\ op.record.version = 1
    \/ /\ op.kind = "replace"
       /\ PriorHolds(st, op) /\ ~Terminal(st, op)
       /\ RecordFits(st, op)
       /\ op.record.candidate = op.prior.candidate
       /\ op.record.version = op.prior.version + 1
    \/ /\ op.kind = "withdraw_eligibility"
       /\ PriorHolds(st, op) /\ st.statuses[op.id] = "eligible"
    \/ /\ op.kind = "hard_invalidation"
       /\ PriorHolds(st, op) /\ ~Terminal(st, op)
    \/ /\ op.kind = "restore_eligibility"
       /\ Restorable(st, op)

StatusAfter(st, op) ==
    CASE op.kind \in {"add", "restore_eligibility"} -> "eligible"
      [] op.kind = "replace" -> st.statuses[op.id]
      [] OTHER -> op.kind

ApplyOperation(st, op) ==
    LET ids == DOMAIN st.records \union {op.id}
        record == IF op.record = Unset THEN st.records[op.id] ELSE op.record
    IN  IF ~st.ok \/ ~OperationAllowed(st, op) THEN [st EXCEPT !.ok = FALSE]
        ELSE [st EXCEPT
                !.records = [i \in ids |-> IF i = op.id THEN record ELSE st.records[i]],
                !.statuses = [i \in ids |-> IF i = op.id THEN StatusAfter(st, op)
                                            ELSE st.statuses[i]]]

ApplyAmendment(st, p) ==
    LET cited == [st EXCEPT !.authorized = @ \union {p.source.doc},
                            !.ok = @ /\ AmendmentValid(p)]
    IN  FoldLeft(ApplyOperation, cited, p.operations)

(* What an authority stream says: its brief, then its amendments in order.  *)
Replay(authority) ==
    FoldLeft(LAMBDA st, row : ApplyAmendment(st, row.payload),
             BriefState(authority[1].payload), Tail(authority))

(***************************************************************************)
(* The producer.  Its streams are [ok, authority, context]; a row is        *)
(* [type, at, payload], and a row of the context stream also has the        *)
(* authority event it was caused by.                                        *)
(***************************************************************************)
EmptyStreams == [ok |-> TRUE, authority |-> << >>, context |-> << >>]

(* A stream is checked whole with every row it gets, and both once more     *)
(* before anything is published.                                            *)
ChainValid(authority) ==
    /\ authority # << >>
    /\ authority[1].type = "SessionBrief"
    /\ \A k \in 2 .. Len(authority) : authority[k].type = "SessionBriefAmendment"
    /\ Replay(authority).ok

ContextChainValid(context, authority) ==
    /\ \A k \in DOMAIN context :
          /\ MaterialContextValid(context[k].payload)
          /\ context[k].cause \in Prefixes(authority) \ {<< >>}
    /\ \A j, k \in DOMAIN context : context[j].payload = context[k].payload => j = k

AppendBrief(c, row) ==
    /\ c.authority = << >>
    /\ ChainValid(<<row>>)

(* An amendment names the head it amends; the bundle may leave that to the  *)
(* producer, which fills in the head it is appended to.                     *)
AppendAmendment(c, row) ==
    /\ c.authority # << >>
    /\ row.payload.previous \in {Unset, c.authority}
    /\ ChainValid(Append(c.authority, row))

(* The identity of a context event is its payload, whatever its time.       *)
AppendContext(c, row) ==
    /\ c.authority # << >>
    /\ ContextChainValid(Append(c.context, [payload |-> row.payload, cause |-> c.authority]),
                         c.authority)

AppendRow(c, row) ==
    CASE row.type = "SessionBrief" /\ AppendBrief(c, row) ->
            [c EXCEPT !.authority = <<row>>]
      [] row.type = "SessionBriefAmendment" /\ AppendAmendment(c, row) ->
            [c EXCEPT !.authority = Append(@, [row EXCEPT !.payload.previous = Unset])]
      [] row.type = "MaterialContext" /\ AppendContext(c, row) ->
            [c EXCEPT !.context = Append(@, [type |-> row.type, at |-> row.at,
                                             payload |-> row.payload, cause |-> c.authority])]
      [] OTHER -> [c EXCEPT !.ok = FALSE]

(* The streams of a bundle, a sequence of rows in the order they are given. *)
StreamsOf(rows) ==
    FoldLeft(LAMBDA c, row : IF c.ok THEN AppendRow(c, row) ELSE c, EmptyStreams, rows)

(* What a bundle must be for the producer to publish it.                    *)
Publishable(rows) ==
    LET c == StreamsOf(rows)
    IN  c.ok /\ ChainValid(c.authority) /\ ContextChainValid(c.context, c.authority)

(***************************************************************************)
(* The documents of a bundle: those that authorize its session, and all it  *)
(* names anywhere, whether they authorize or only support.                  *)
(***************************************************************************)
RowSources(row) ==
    CASE row.type = "SessionBrief" -> row.payload.sources
      [] row.type = "SessionBriefAmendment" -> {row.payload.source}
      [] OTHER -> {}

RegistrationSources(rows) == UNION {RowSources(rows[k]) : k \in DOMAIN rows}

ItemDocs(items) == UNION {item.docs : item \in items}

IdeaDocs(ideas) == UNION {idea.docs : idea \in ideas}

RowDocs(row) ==
    CASE row.type = "SessionBrief" ->
            DocsOf(row.payload.sources) \union IdeaDocs(row.payload.ideas)
                \union ItemDocs(row.payload.items)
      [] row.type = "SessionBriefAmendment" ->
            {row.payload.source.doc} \union
            IdeaDocs({op.record : op \in {o \in ToSet(row.payload.operations) :
                                              o.record # Unset}})
      [] OTHER -> ItemDocs(row.payload.items)

ProvenanceDocs(rows) == UNION {RowDocs(rows[k]) : k \in DOMAIN rows}
================================================================================
