---------------------------- MODULE NativeKnowledge ----------------------------
(***************************************************************************)
(* Knowledge generations: structured updates appended to a journal of their *)
(* own, each against the generation its author had seen, and the overlay    *)
(* the readers get from them.                                               *)
(*                                                                         *)
(*   runtime/native_knowledge_store.py     the journal and its overlay      *)
(*   runtime/reference_composition.py      preview / apply over a connector *)
(*   deployment/native_knowledge_cli.py    preview / apply over files       *)
(*                                                                         *)
(* The journal is locked for one read or one read-and-append.  A preview    *)
(* reads it twice and an apply up to four times, so updates of several      *)
(* processes interleave inside both.                                        *)
(*                                                                         *)
(* A row carries the base version of the preview it was committed from,     *)
(* which the entry on disk leaves out: it is there for the properties only. *)
(* What validate_apply asks of the approval is modelled in NativeWrite;     *)
(* here an apply may fail validation for reasons of its own at any time.    *)
(***************************************************************************)
EXTENDS JournalFile, FiniteSets

CONSTANTS
    Procs,
    Cli,            \* those that keep previews in files: the command lines
    Requests,       \* knowledge.commit requests
    Generations,
    GenerationOf,   \* [Requests -> Generations]
    Items,          \* ids of evidence
    Claims,         \* ids of claims
    EvidenceOf,     \* [Requests -> SUBSET Items]: the evidence it carries
    ClaimsOf,       \* [Requests -> SUBSET (Claims \X Items)]: claim, evidence ref
    MaxPending,     \* bound on the previews a process keeps
    Cuts,           \* the cut writes the environment can cause
    NoGeneration,   \* the base version before the first generation
    NoWork

Base == Generations \cup {NoGeneration}

Preview == [request: Requests, base: Base]

ASSUME ConstantsAssumption ==
    /\ Cli \subseteq Procs
    /\ GenerationOf \in [Requests -> Generations]
    /\ EvidenceOf \in [Requests -> SUBSET Items]
    /\ ClaimsOf \in [Requests -> SUBSET (Claims \X Items)]
    /\ MaxPending \in Nat
    /\ Cuts \subseteq {"partial", "no_newline"}
    /\ NoGeneration \notin Generations
    /\ NoWork \notin Preview

VARIABLES
    journal,    \* the knowledge journal: a file of previews committed
    pc,         \* [Procs -> where a process is in a preview or an apply]
    work,       \* [Procs -> Preview or NoWork]
    pending,    \* [Procs -> SUBSET Preview]: waiting for their confirmation
    applied     \* [Requests -> Nat]: how often a caller was told "applied"

vars == <<journal, pc, work, pending, applied>>

Init ==
    /\ journal = EmptyFile
    /\ pc = [p \in Procs |-> "idle"]
    /\ work = [p \in Procs |-> NoWork]
    /\ pending = [p \in Procs |-> {}]
    /\ applied = [r \in Requests |-> 0]

(* Mutant: a claim may cite evidence of an earlier generation.              *)
CitesAnything(r) == TRUE

(* validate_knowledge_request: every claim cites evidence of its request.   *)
Valid(r) == \A cite \in ClaimsOf[r] : cite[2] \in EvidenceOf[r]

Generation(row) == GenerationOf[row.request]

Committed(g) == \E i \in DOMAIN journal.rows : Generation(journal.rows[i]) = g

(* latest_generation_id                                                     *)
LatestGeneration ==
    IF journal.rows = << >> THEN NoGeneration
    ELSE Generation(journal.rows[Len(journal.rows)])

(* A process is done with its preview, for better or worse.                 *)
Finish(p) ==
    /\ pc' = [pc EXCEPT ![p] = "idle"]
    /\ work' = [work EXCEPT ![p] = NoWork]

--------------------------------------------------------------------------------
(* preview_knowledge: the generation must be new ...                        *)
StartPreview(p, r) ==
    /\ pc[p] = "idle"
    /\ Readable(journal)
    /\ Valid(r)
    /\ p \notin Cli => ~Committed(GenerationOf[r])
    /\ Cardinality(pending[p]) < MaxPending
    /\ pc' = [pc EXCEPT ![p] = "new"]
    /\ work' = [work EXCEPT ![p] = [request |-> r, base |-> NoGeneration]]
    /\ UNCHANGED <<journal, pending, applied>>

(* ... and the latest one, read next, becomes the base of the preview.      *)
BuildPreview(p) ==
    /\ pc[p] = "new"
    /\ IF Readable(journal)
       THEN pending' = [pending EXCEPT ![p] = @ \cup {[work[p] EXCEPT !.base = LatestGeneration]}]
       ELSE UNCHANGED pending
    /\ Finish(p)
    /\ UNCHANGED <<journal, applied>>

Discard(p, v) ==
    /\ pending' = [pending EXCEPT ![p] = @ \ {v}]
    /\ UNCHANGED <<journal, pc, work, applied>>

--------------------------------------------------------------------------------
(* apply_knowledge: a connector consumes the preview whatever comes of it.  *)
(* It is stale when its base is not the latest generation any more.         *)
Consume(p, v) ==
    /\ p \notin Cli
    /\ pc[p] = "idle"
    /\ pending' = [pending EXCEPT ![p] = @ \ {v}]
    /\ IF Readable(journal) /\ v.base = LatestGeneration
       THEN /\ pc' = [pc EXCEPT ![p] = "approved"]
            /\ work' = [work EXCEPT ![p] = v]
       ELSE UNCHANGED <<pc, work>>
    /\ UNCHANGED <<journal, applied>>

(* The command line applies a preview file as often as it is asked to.      *)
ApplyFile(p, v) ==
    /\ p \in Cli
    /\ pc[p] = "idle"
    /\ pc' = [pc EXCEPT ![p] = "approved"]
    /\ work' = [work EXCEPT ![p] = v]
    /\ UNCHANGED <<journal, pending, applied>>

(* validate_apply: the base again, and the approval.                        *)
Validate(p) ==
    /\ pc[p] = "approved"
    /\ \/ /\ Readable(journal)
          /\ work[p].base = LatestGeneration
          /\ pc' = [pc EXCEPT ![p] = "validated"]
          /\ UNCHANGED work
       \/ Finish(p)
    /\ UNCHANGED <<journal, pending, applied>>

SameGeneration(v) ==
    {i \in DOMAIN journal.rows :
        Generation(journal.rows[i]) = GenerationOf[v.request]}

(* The generation is there already: the same request is answered with the   *)
(* recorded receipt, which a connector reports as a detected replay.        *)
Replay(p) ==
    /\ SameGeneration(work[p]) # {}
    /\ UNCHANGED <<journal, applied>>

(* Mutant: the base was checked by validate_apply already.                  *)
AppendUnchecked(p) ==
    /\ SameGeneration(work[p]) = {}
    /\ \E outcome \in {"full"} \cup Cuts :
           journal' = Write(journal, work[p], outcome)
    /\ applied' = [applied EXCEPT ![work[p].request] = @ + 1]

(* Mutant: a known generation is appended once more.                        *)
AppendAgain(p) ==
    /\ work[p].base = LatestGeneration \/ SameGeneration(work[p]) # {}
    /\ \E outcome \in {"full"} \cup Cuts :
           journal' = Write(journal, work[p], outcome)
    /\ applied' = [applied EXCEPT ![work[p].request] = @ + 1]

(* Mutant: the write may not have started.                                  *)
AppendUnwritten(p) ==
    /\ SameGeneration(work[p]) = {}
    /\ work[p].base = LatestGeneration
    /\ \E outcome \in {"none", "full"} \cup Cuts :
           journal' = Write(journal, work[p], outcome)
    /\ applied' = [applied EXCEPT ![work[p].request] = @ + 1]

(* One write whose length is not looked at.                                 *)
AppendGeneration(p) ==
    /\ SameGeneration(work[p]) = {}
    /\ work[p].base = LatestGeneration
    /\ \E outcome \in {"full"} \cup Cuts :
           journal' = Write(journal, work[p], outcome)
    /\ applied' = [applied EXCEPT ![work[p].request] = @ + 1]

(* knowledge_base_version_conflict                                          *)
RefuseBase(p) ==
    /\ SameGeneration(work[p]) = {}
    /\ work[p].base # LatestGeneration
    /\ UNCHANGED <<journal, applied>>

(* NativeKnowledgeStore.commit, all of it under the exclusive lock.         *)
Commit(p) ==
    /\ pc[p] = "validated"
    /\ \/ /\ Readable(journal)
          /\ Replay(p) \/ AppendGeneration(p) \/ RefuseBase(p)
       \/ /\ ~Readable(journal)
          /\ UNCHANGED <<journal, applied>>
    /\ Finish(p)
    /\ UNCHANGED pending

(* A process dies.  Inside the append any prefix of the entry may be on     *)
(* disk.  The previews of a connector are lost, files stay.                 *)
Crash(p) ==
    /\ \/ UNCHANGED journal
       \/ /\ pc[p] = "validated"
          /\ Readable(journal)
          /\ SameGeneration(work[p]) = {}
          /\ work[p].base = LatestGeneration
          /\ \E outcome \in {"full"} \cup Cuts :
                 journal' = Write(journal, work[p], outcome)
    /\ Finish(p)
    /\ pending' = [pending EXCEPT ![p] = IF p \in Cli THEN @ ELSE {}]
    /\ UNCHANGED applied

Next ==
    \E p \in Procs :
        \/ \E r \in Requests : StartPreview(p, r)
        \/ BuildPreview(p)
        \/ \E v \in pending[p] :
               Discard(p, v) \/ Consume(p, v) \/ ApplyFile(p, v)
        \/ Validate(p)
        \/ Commit(p)
        \/ Crash(p)

Spec == Init /\ [][Next]_vars

--------------------------------------------------------------------------------
(* overlay: the evidence and the claims of all generations, a later record  *)
(* replacing an earlier one with the same id.                               *)
Mentions(row, claim) == \E item \in Items : <<claim, item>> \in ClaimsOf[row.request]

LastMention(claim) ==
    CHOOSE i \in DOMAIN journal.rows :
        /\ Mentions(journal.rows[i], claim)
        /\ \A j \in DOMAIN journal.rows : Mentions(journal.rows[j], claim) => j <= i

OverlayEvidence == UNION {EvidenceOf[journal.rows[i].request] : i \in DOMAIN journal.rows}

OverlayClaims ==
    {claim \in Claims : \E i \in DOMAIN journal.rows : Mentions(journal.rows[i], claim)}

Cited(claim) ==
    {item \in Items : <<claim, item>> \in ClaimsOf[journal.rows[LastMention(claim)].request]}

--------------------------------------------------------------------------------
(* Every variable stays in its domain, and exactly the processes at work    *)
(* hold a preview.                                                          *)
TypeOK ==
    /\ journal \in File(Preview)
    /\ pc \in [Procs -> {"idle", "new", "approved", "validated"}]
    /\ work \in [Procs -> Preview \cup {NoWork}]
    /\ \A p \in Procs : pc[p] = "idle" <=> work[p] = NoWork
    /\ pending \in [Procs -> SUBSET Preview]
    /\ applied \in [Requests -> Nat]

(* Whoever commits, every generation was written against the generation     *)
(* right before it: no update is accepted whose author had not seen the     *)
(* latest one, and an update accepted twice is in the journal once.         *)
LinearHistory ==
    /\ \A i \in DOMAIN journal.rows :
           journal.rows[i].base =
               IF i = 1 THEN NoGeneration ELSE Generation(journal.rows[i - 1])
    /\ \A i, j \in DOMAIN journal.rows :
           Generation(journal.rows[i]) = Generation(journal.rows[j]) => i = j

(* A generation is reported applied at most once: retries, replays and the  *)
(* same request prepared by two processes are told apart from it.           *)
AppliedOnce ==
    \A g \in Generations :
        \A r, s \in {t \in Requests : GenerationOf[t] = g} :
            applied[r] + (IF r = s THEN 0 ELSE applied[s]) <= 1

(* A generation reported applied is in the journal, as long as that parses. *)
AppliedIsKept ==
    Readable(journal) => \A r \in Requests : applied[r] > 0 =>
        \E i \in DOMAIN journal.rows : journal.rows[i].request = r

(* Every claim the overlay serves cites evidence the overlay serves,        *)
(* although claims and evidence replace each other independently.           *)
ClaimsSupported == \A claim \in OverlayClaims : Cited(claim) \subseteq OverlayEvidence
================================================================================
