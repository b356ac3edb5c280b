------------------------------ MODULE NativeWrite ------------------------------
(***************************************************************************)
(* The Decision / Transaction write path: a preview is built, a trusted     *)
(* surface issues an approval for it, and an apply validates the approval   *)
(* and commits one row to the write journal.                                *)
(*                                                                         *)
(*   runtime/write_preview.py       build_mutation_preview                  *)
(*   security/trusted_approval.py   TrustedApprovalStore                    *)
(*   runtime/native_write_store.py  validate_apply, NativeWriteStore        *)
(*                                                                         *)
(* Several processes (one MCP stdio child per session, the HTTP service,    *)
(* the local command-line tools) share the two journals.  Each journal has  *)
(* its own flock, taken only for one read or one read-and-append, so an     *)
(* apply is three steps that other processes interleave with: it samples    *)
(* the clock, reads the approval journal, and commits under the write lock. *)
(*                                                                         *)
(* A preview stands for the operation it describes: its operation id, its   *)
(* canonical payload and the resource id derived from both.  Ids drawn from *)
(* uuid4 are journal positions: an approval id is the position of its row,  *)
(* a commit id the position of its row.                                     *)
(***************************************************************************)
EXTENDS JournalFile, FiniteSets

CONSTANTS
    Procs,          \* processes sharing the state root
    Users,          \* authenticated subjects, each with one grant
    Previews,       \* mutation previews
    Keys,           \* idempotency keys
    Portfolios,
    Accounts,       \* an account together with a transaction type
    Refs,           \* provider execution ids, source refs, statement digests
    NoRef,          \* such a field left out
    Bodies,         \* what else a canonical payload says
    KeyOf,          \* [Previews -> Keys]
    PayloadOf,      \* [Previews -> Payload]
    GrantOf,        \* [Users -> Grant]
    PreviewTtl,     \* lifetime of a preview, in clock units
    ApprovalTtl,    \* lifetime asked for an approval
    MaxTime,        \* bound on the clock
    MaxApprovalRows,\* bound on the approval journal
    NoIdentity,     \* a payload that names no execution
    NoJob,          \* no apply is past validation
    Cuts            \* the cut writes the environment can cause

Actions == {"decision.create", "transaction.record"}
Times   == 0 .. MaxTime

(* Equal payloads have equal digests, and the digests are all that is       *)
(* compared.                                                                *)
Payload == [action: Actions, portfolio: Portfolios, account: Accounts,
            provider: Refs \cup {NoRef}, source: Refs \cup {NoRef},
            statement: Refs \cup {NoRef}, body: Bodies]

(* The principal and the grant presented with it, which must agree: what    *)
(* the subject may do, where, and until when.                               *)
Grant == [permissions: SUBSET (Actions \cup {"operation.approve"}),
          scope: SUBSET Portfolios,
          expires: Nat]

(* The execution a transaction reports.                                      *)
Identity == [kind: {"provider", "source", "statement"},
             portfolio: Portfolios, account: Accounts, ref: Refs]

(* An apply past validation: who applies what on which approval.            *)
Job == [user: Users, preview: Previews, approval: Nat]

ASSUME ConstantsAssumption ==
    /\ KeyOf \in [Previews -> Keys]
    /\ PayloadOf \in [Previews -> Payload]
    /\ GrantOf \in [Users -> Grant]
    /\ PreviewTtl \in Nat
    /\ ApprovalTtl \in Nat \ {0}
    /\ MaxTime \in Nat
    /\ MaxApprovalRows \in Nat
    /\ Cuts \subseteq {"partial", "no_newline"}
    /\ NoRef \notin Refs
    /\ NoIdentity \notin Identity
    /\ NoJob \notin Job

(* _transaction_identity: the strongest identity the payload carries.       *)
TransactionIdentity(payload) ==
    LET Of(kind, ref) == [kind |-> kind, portfolio |-> payload.portfolio,
                          account |-> payload.account, ref |-> ref]
    IN  IF payload.action # "transaction.record" THEN NoIdentity
        ELSE IF payload.provider # NoRef THEN Of("provider", payload.provider)
        ELSE IF payload.source # NoRef THEN Of("source", payload.source)
        ELSE IF payload.statement # NoRef THEN Of("statement", payload.statement)
        ELSE NoIdentity

(* The two row shapes.  A revocation row repeats the issuance it revokes.   *)
ApprovalRow == [event: {"approval_issued", "approval_revoked"},
                id: Nat, preview: Previews, user: Users,
                at: Nat, expires: Nat]

WriteRow == [event: {"resource_commit", "operation_deduplicated"},
             key: Keys, payload: Payload, resource: Previews,
             identity: Identity \cup {NoIdentity},
             version: Nat, approval: Nat, user: Users, at: Nat]

(* What the caller of an apply is told: the receipt of one idempotency key. *)
Receipt == [key: Keys, resource: Previews, version: Nat]

VARIABLES
    now,        \* the wall clock
    expiry,     \* [Previews -> Nat]: expires_at of a built preview, 0 before
    approvals,  \* the approval journal
    journal,    \* the write journal
    pc,         \* [Procs -> {"idle", "sampled", "validated"}]
    current,    \* [Procs -> Times]: the `current' an operation sampled
    job,        \* [Procs -> Job or NoJob]: the apply past validation
    receipts    \* receipts returned to callers so far

vars == <<now, expiry, approvals, journal, pc, current, job, receipts>>

Lesser(a, b) == IF a < b THEN a ELSE b

Init ==
    /\ now = 0
    /\ expiry = [v \in Previews |-> 0]
    /\ approvals = EmptyFile
    /\ journal = EmptyFile
    /\ pc = [p \in Procs |-> "idle"]
    /\ current = [p \in Procs |-> 0]
    /\ job = [p \in Procs |-> NoJob]
    /\ receipts = {}

--------------------------------------------------------------------------------
(* The clock.                                                               *)
Tick ==
    /\ now < MaxTime
    /\ now' = now + 1
    /\ UNCHANGED <<expiry, approvals, journal, pc, current, job, receipts>>

(* build_mutation_preview: pure, the preview carries its own expiry.        *)
BuildPreview(v) ==
    /\ expiry[v] = 0
    /\ expiry' = [expiry EXCEPT ![v] = now + PreviewTtl]
    /\ UNCHANGED <<now, approvals, journal, pc, current, job, receipts>>

(* Every entry point reads the clock first and uses that value to the end.  *)
Sample(p) ==
    /\ pc[p] = "idle"
    /\ pc' = [pc EXCEPT ![p] = "sampled"]
    /\ current' = [current EXCEPT ![p] = now]
    /\ UNCHANGED <<now, expiry, approvals, journal, job, receipts>>

(* The operation ends, with an answer or an error; nothing is remembered.   *)
Finish(p) ==
    /\ pc' = [pc EXCEPT ![p] = "idle"]
    /\ current' = [current EXCEPT ![p] = 0]
    /\ job' = [job EXCEPT ![p] = NoJob]

--------------------------------------------------------------------------------
(* TrustedApprovalStore.                                                    *)

Issued(a) ==
    /\ a \in DOMAIN approvals.rows
    /\ approvals.rows[a].event = "approval_issued"

Revoked(a) ==
    \E i \in DOMAIN approvals.rows :
        /\ approvals.rows[i].event = "approval_revoked"
        /\ approvals.rows[i].id = a

MayApprove(u, v, t) ==
    /\ GrantOf[u].expires > t
    /\ expiry[v] > t
    /\ {"operation.approve", PayloadOf[v].action} \subseteq GrantOf[u].permissions
    /\ PayloadOf[v].portfolio \in GrantOf[u].scope

IssueRow(u, v, t) ==
    [event |-> "approval_issued", id |-> Len(approvals.rows) + 1,
     preview |-> v, user |-> u, at |-> t,
     expires |-> Lesser(Lesser(t + ApprovalTtl, expiry[v]), GrantOf[u].expires)]

(* issue: the checks, then one append under the approval lock.              *)
Issue(p, u, v) ==
    /\ pc[p] = "sampled"
    /\ MayApprove(u, v, current[p])
    /\ Readable(approvals)
    /\ Len(approvals.rows) < MaxApprovalRows
    /\ \E outcome \in {"full"} \cup Cuts :
          approvals' = Write(approvals, IssueRow(u, v, current[p]), outcome)
    /\ Finish(p)
    /\ UNCHANGED <<now, expiry, journal, receipts>>

(* revoke: appended once per issued approval, by anyone allowed to approve. *)
Revoke(u, a) ==
    /\ "operation.approve" \in GrantOf[u].permissions
    /\ Readable(approvals)
    /\ Issued(a)
    /\ ~Revoked(a)
    /\ Len(approvals.rows) < MaxApprovalRows
    /\ \E outcome \in {"full"} \cup Cuts :
          approvals' = Write(approvals,
                             [approvals.rows[a] EXCEPT !.event = "approval_revoked"],
                             outcome)
    /\ UNCHANGED <<now, expiry, journal, pc, current, job, receipts>>

(* Mutant: the revocation rows are not looked at.                           *)
VerifiedThoughRevoked(u, a) ==
    /\ Readable(approvals)
    /\ Issued(a)
    /\ approvals.rows[a].user = u

(* verify: the exact receipt is issued to this identity and not revoked.    *)
(* An unreadable approval journal verifies nothing (_approval_result).      *)
Verified(u, a) ==
    /\ Readable(approvals)
    /\ Issued(a)
    /\ approvals.rows[a].user = u
    /\ ~Revoked(a)

--------------------------------------------------------------------------------
(* Mutant: the approval still serves at the instant it expires.             *)
AllowedAtExpiry(u, v, a, t) ==
    /\ Verified(u, a)
    /\ approvals.rows[a].preview = v
    /\ GrantOf[u].expires > t
    /\ expiry[v] > t
    /\ approvals.rows[a].at <= t
    /\ t <= approvals.rows[a].expires
    /\ PayloadOf[v].action \in GrantOf[u].permissions
    /\ PayloadOf[v].portfolio \in GrantOf[u].scope

(* validate_apply, without its checks of the request's shape.  A mutation   *)
(* preview has no base version, so that check never bites here.             *)
Allowed(u, v, a, t) ==
    /\ Verified(u, a)
    /\ approvals.rows[a].preview = v
    /\ GrantOf[u].expires > t
    /\ expiry[v] > t
    /\ approvals.rows[a].at <= t
    /\ t < approvals.rows[a].expires
    /\ PayloadOf[v].action \in GrantOf[u].permissions
    /\ PayloadOf[v].portfolio \in GrantOf[u].scope

(* apply_mutation, first half.  A receipt the authority never issued is     *)
(* approval 0.                                                              *)
Validate(p, u, v, a) ==
    /\ pc[p] = "sampled"
    /\ expiry[v] # 0
    /\ \/ /\ Allowed(u, v, a, current[p])
          /\ pc' = [pc EXCEPT ![p] = "validated"]
          /\ job' = [job EXCEPT ![p] = [user |-> u, preview |-> v, approval |-> a]]
          /\ UNCHANGED current
       \/ /\ ~Allowed(u, v, a, current[p])
          /\ Finish(p)
    /\ UNCHANGED <<now, expiry, approvals, journal, receipts>>

--------------------------------------------------------------------------------
(* NativeWriteStore.commit_operation, all of it under the write lock.       *)

RowsWithKey(k) == {i \in DOMAIN journal.rows : journal.rows[i].key = k}

RowsWithIdentity(identity) ==
    {i \in DOMAIN journal.rows :
        /\ identity # NoIdentity
        /\ journal.rows[i].identity = identity}

First(S) == CHOOSE i \in S : \A j \in S : i <= j

(* _resource_for_ref finds the canonical resource a row points at.          *)
ResourceExists(v) ==
    \E i \in DOMAIN journal.rows :
        /\ journal.rows[i].event = "resource_commit"
        /\ journal.rows[i].resource = v

ReceiptOf(row) == [key |-> row.key, resource |-> row.resource, version |-> row.version]

(* The same idempotency key again: the recorded receipt is the answer, or a *)
(* conflict when the key now names another payload.                         *)
Replay(p) ==
    LET v    == job[p].preview
        same == RowsWithKey(KeyOf[v])
        row  == journal.rows[First(same)]
    IN  /\ same # {}
        /\ \/ /\ row.payload = PayloadOf[v]
              /\ ResourceExists(row.resource)
              /\ receipts' = receipts \cup {ReceiptOf(row)}
           \/ /\ \/ row.payload # PayloadOf[v]          \* idempotency_conflict
                 \/ ~ResourceExists(row.resource)      \* StoreCorrupt
              /\ UNCHANGED receipts
        /\ UNCHANGED journal

(* The row a commit appends: a new canonical resource, or a reference to    *)
(* the one that already records this execution.                             *)
CommitRow(p) ==
    LET v         == job[p].preview
        identity  == TransactionIdentity(PayloadOf[v])
        duplicate == RowsWithIdentity(identity)
        fresh     == duplicate = {}
    IN  [event    |-> IF fresh THEN "resource_commit" ELSE "operation_deduplicated",
         key      |-> KeyOf[v],
         payload  |-> PayloadOf[v],
         resource |-> IF fresh THEN v ELSE journal.rows[First(duplicate)].resource,
         identity |-> identity,
         version  |-> IF fresh THEN Len(journal.rows) + 1 ELSE First(duplicate),
         approval |-> job[p].approval,
         user     |-> job[p].user,
         at       |-> current[p]]

(* Mutant: a known execution is reused whatever the payload says of it.     *)
IdentityConflictUnlessPresent(v) ==
    LET duplicate == RowsWithIdentity(TransactionIdentity(PayloadOf[v]))
    IN  duplicate # {} /\ ~ResourceExists(journal.rows[First(duplicate)].resource)

(* Another payload under a known execution identity is refused.             *)
IdentityConflict(v) ==
    LET duplicate == RowsWithIdentity(TransactionIdentity(PayloadOf[v]))
    IN  /\ duplicate # {}
        /\ \/ journal.rows[First(duplicate)].payload # PayloadOf[v]
           \/ ~ResourceExists(journal.rows[First(duplicate)].resource)

(* Mutant: the receipt is returned though the write may not have started.   *)
AppendRowUnwritten(p) ==
    /\ RowsWithKey(KeyOf[job[p].preview]) = {}
    /\ ~IdentityConflict(job[p].preview)
    /\ \E outcome \in {"none", "full"} \cup Cuts :
          journal' = Write(journal, CommitRow(p), outcome)
    /\ receipts' = receipts \cup {ReceiptOf(CommitRow(p))}

(* A row goes to the end of the journal.  The return value of os.write is   *)
(* ignored, so the receipt is returned whatever the kernel wrote.           *)
AppendRow(p) ==
    /\ RowsWithKey(KeyOf[job[p].preview]) = {}
    /\ ~IdentityConflict(job[p].preview)
    /\ \E outcome \in {"full"} \cup Cuts :
          journal' = Write(journal, CommitRow(p), outcome)
    /\ receipts' = receipts \cup {ReceiptOf(CommitRow(p))}

RefuseIdentity(p) ==
    /\ RowsWithKey(KeyOf[job[p].preview]) = {}
    /\ IdentityConflict(job[p].preview)
    /\ UNCHANGED <<journal, receipts>>

Commit(p) ==
    /\ pc[p] = "validated"
    /\ \/ /\ Readable(journal)
          /\ Replay(p) \/ AppendRow(p) \/ RefuseIdentity(p)
       \/ /\ ~Readable(journal)                            \* StoreCorrupt
          /\ UNCHANGED <<journal, receipts>>
    /\ Finish(p)
    /\ UNCHANGED <<now, expiry, approvals>>

(* A process dies.  Inside the append any prefix of the record may be on    *)
(* disk, and no receipt reaches the caller.                                 *)
Crash(p) ==
    /\ pc[p] # "idle"
    /\ \/ UNCHANGED journal
       \/ /\ pc[p] = "validated"
          /\ Readable(journal)
          /\ RowsWithKey(KeyOf[job[p].preview]) = {}
          /\ ~IdentityConflict(job[p].preview)
          /\ \E outcome \in {"full"} \cup Cuts :
                journal' = Write(journal, CommitRow(p), outcome)
    /\ Finish(p)
    /\ UNCHANGED <<now, expiry, approvals, receipts>>

--------------------------------------------------------------------------------
Next ==
    \/ Tick
    \/ \E v \in Previews : BuildPreview(v)
    \/ \E u \in Users, a \in 1 .. MaxApprovalRows : Revoke(u, a)
    \/ \E p \in Procs :
          \/ Sample(p)
          \/ \E u \in Users, v \in Previews : Issue(p, u, v)
          \/ \E u \in Users, v \in Previews, a \in 0 .. MaxApprovalRows :
                Validate(p, u, v, a)
          \/ Commit(p)
          \/ Crash(p)

Spec == Init /\ [][Next]_vars

--------------------------------------------------------------------------------
(* Type correctness.                                                        *)
TypeOK ==
    /\ now \in Times
    /\ expiry \in [Previews -> Nat]
    /\ approvals \in File(ApprovalRow)
    /\ journal \in File(WriteRow)
    /\ pc \in [Procs -> {"idle", "sampled", "validated"}]
    /\ current \in [Procs -> Times]
    /\ job \in [Procs -> Job \cup {NoJob}]
    /\ \A p \in Procs : pc[p] = "validated" => job[p] \in Job
    /\ receipts \subseteq Receipt

(* What an approval says of the operation it backs, at time t.              *)
Backed(a, u, v, t) ==
    /\ Issued(a)
    /\ approvals.rows[a].user = u
    /\ approvals.rows[a].preview = v
    /\ approvals.rows[a].at <= t
    /\ t < approvals.rows[a].expires

(* Between its validation and its commit an apply holds no lock, and still  *)
(* the approval it verified stays the one it was given: issued to its user, *)
(* for its preview, in force at the time it sampled.                        *)
JobsApproved ==
    Readable(approvals) =>
        \A p \in Procs : pc[p] = "validated" =>
            Backed(job[p].approval, job[p].user, job[p].preview, current[p])

(* Every journalled write rests on an approval that was issued to the user  *)
(* it names, for the very payload it records, and was in force at its       *)
(* commit time: what storage_recovery demands of a backup, although an      *)
(* apply reads the approval journal and appends to the write journal under  *)
(* two different locks.                                                     *)
WritesApproved ==
    Readable(approvals) =>
        \A i \in DOMAIN journal.rows :
            LET row == journal.rows[i] IN
            /\ Issued(row.approval)
            /\ LET approval == approvals.rows[row.approval] IN
               /\ approval.user = row.user
               /\ PayloadOf[approval.preview] = row.payload
               /\ KeyOf[approval.preview] = row.key
               /\ approval.at <= row.at /\ row.at < approval.expires

(* commit_operation under concurrent retries: an idempotency key is         *)
(* journalled at most once, whoever retries it and whenever.                *)
OneRowPerKey ==
    \A i, j \in DOMAIN journal.rows :
        journal.rows[i].key = journal.rows[j].key => i = j

(* A repeated execution never becomes a second canonical resource.          *)
OneResourcePerIdentity ==
    \A i, j \in DOMAIN journal.rows :
        /\ journal.rows[i].event = "resource_commit"
        /\ journal.rows[j].event = "resource_commit"
        /\ journal.rows[i].identity # NoIdentity
        /\ journal.rows[i].identity = journal.rows[j].identity
        => i = j

(* A deduplicated operation points at an earlier row that created the       *)
(* resource it reuses, with the same payload, and its receipt names the     *)
(* version of that row.                                                     *)
RowsPointBack ==
    \A i \in DOMAIN journal.rows :
        LET row == journal.rows[i] IN
        IF row.event = "resource_commit" THEN row.version = i
        ELSE /\ row.version \in 1 .. (i - 1)
             /\ LET origin == journal.rows[row.version] IN
                /\ origin.event = "resource_commit"
                /\ origin.identity = row.identity
                /\ origin.payload = row.payload
                /\ origin.resource = row.resource

(* Whatever a caller was told about a key, any other caller was told too.   *)
ReceiptsAgree ==
    \A r, s \in receipts : r.key = s.key => r = s

(* An operation reported completed is in the journal, with that receipt     *)
(* ("A successful commit stores one canonical Decision or Transaction       *)
(* together with its OperationReceipt", protocol/v1/README.md:587).  Where   *)
(* an append may be cut the code does not keep this.                        *)
ReceiptsDurable ==
    \A r \in receipts :
        \E i \in DOMAIN journal.rows : ReceiptOf(journal.rows[i]) = r

(* What the code does keep, whatever appends were cut and whoever died in   *)
(* one: while the journal parses, no completed operation is missing from    *)
(* it.  So a reader that gets past a journal gets all that was reported, and *)
(* a receipt can only be lost together with every later answer.             *)
ReceiptsDurableWhileReadable == Readable(journal) => ReceiptsDurable

(* A journal that no longer parses is never written again, so the damage    *)
(* stays where it is for an operator to repair.                             *)
CorruptStaysPut ==
    [][ /\ ~Readable(journal) => UNCHANGED journal
        /\ ~Readable(approvals) => UNCHANGED approvals ]_vars

(* Once a revocation is journalled, the approval backs no write but those   *)
(* of applies that had already verified it.                                 *)
RevocationIsFinal ==
    [][ \A a \in 1 .. MaxApprovalRows :
          ( /\ Revoked(a)
            /\ \A p \in Procs : pc[p] = "validated" => job[p].approval # a )
          => /\ \A p \in Procs : pc'[p] = "validated" => job'[p].approval # a
             /\ \A i \in DOMAIN journal'.rows \ DOMAIN journal.rows :
                   journal'.rows[i].approval # a ]_vars

--------------------------------------------------------------------------------
(* The journal as a ledger: the resources it holds and the outcome of each  *)
(* key.                                                                     *)
CanonicalResources ==
    {journal.rows[i].resource : i \in {j \in DOMAIN journal.rows :
                                        journal.rows[j].event = "resource_commit"}}

Outcome ==
    [k \in Keys |-> IF RowsWithKey(k) = {} THEN NoJob
                    ELSE journal.rows[First(RowsWithKey(k))].resource]

Ledger == INSTANCE WriteLedger WITH
    canonical <- CanonicalResources, settled <- Outcome, Unsettled <- NoJob,
    ExecutionOf <- [v \in Previews |-> TransactionIdentity(PayloadOf[v])],
    NoExecution <- NoIdentity

(* The write path implements the ledger: with every crash and interleaving, *)
(* as long as no append is cut, resources and outcomes change only as the   *)
(* ledger allows.                                                           *)
ImplementsLedger == Ledger!Spec
================================================================================
