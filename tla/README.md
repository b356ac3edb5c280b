# Verification of InvestKitchen

InvestKitchen is a self-hosted investment workspace. A language-model client talks to
it over MCP; what it may write (decisions, trades, knowledge, plans, policies) goes
through a preview, an explicit confirmation and an apply, and ends in append-only
journals and small stores that several processes share. This directory holds TLA+
models of that write side, the TLC configurations that check them and TLAPS proofs.
Paths below are relative to `src/protocol/v1/` unless they start with `src/`.

## The system

### Processes

One MCP stdio child per client session (`transport/mcp_stdio.py`), an HTTP service
(`transport/mcp_http.py`) and several command lines (`deployment/*_cli.py`) run against
one state root. They share nothing but its files; within one server, requests may be
handled by several threads. The connector's pending previews live in memory only
(`runtime/reference_composition.py:94`): a restart loses them.

### Components, their state and operations

| Component | State | Operations | What makes it correct |
|---|---|---|---|
| Write journal (`runtime/native_write_store.py`, `write_preview.py`) | JSONL journal of Decisions and Transactions, its flock | preview, validate, commit (new, replayed, deduplicated, refused), list, cursor reads | a key and an execution are settled once; receipts are true and durable; nothing without an approval in force |
| Trusted approvals (`security/trusted_approval.py`) | JSONL journal of issuances and revocations, its own flock | issue, revoke, verify | an approval binds user, payload and base; it expires; a revocation is final |
| Portfolio checkpoints (`portfolio_checkpoint.py`, `portfolio_reconciliation.py`, `portfolio_update_service.py`, `portfolio_account_sync.py`, `adapters/materialized_portfolio.py`) | checkpoint journal; candidates in memory (connector) or in files (command line) | seed, project, preview, accept, read back | every trade counts once; checkpoints advance; what one update observed is not dropped by the next |
| Knowledge (`native_knowledge_store.py`, `deployment/native_knowledge_cli.py`) | JSONL journal of generations, each against the one before | preview, commit, replay, overlay | linear history; a claim is served only with evidence it cites |
| Opinion weighting (`opinion_weighting.py`) | `config.json` and `manifest.json` with its digest, one flock | preview, replace, read back | damage is never served, nor covered up |
| Advisory plans (`advisory_plan_store.py`, `advisory_plan_update.py`) | one state file with a hash-linked history, its flock; pending previews per server | preview, discard, apply, read back | at most one active plan per portfolio; versions retained; previews single-use |
| Advisory policies (`advisory_state_store.py`, `advisory_policy_update.py`) | `policies.json` and `manifest.json`, written in place under one flock | preview, apply, read back | one line of succession per portfolio; damage as for weighting |
| Storage recovery (`storage_recovery.py`, `journal_lock.py`) | backups | create, verify, restore | a backup is consistent across four journals; a restore is all or nothing |
| Advisory write bridge (`deployment/advisory_write_bridge.py`) | pending files, applied files, a directory lock | preview, apply, move | a file says whether its update is in the journal |
| Confirmed MCP writes (`transport/mcp_confirmed_writes.py`) | tickets and browser sessions in memory, an audit file | preview, open, approve, reject, apply | nothing is written that a person did not approve as shown |
| Session exchange (`session_authority/producer.py`, `contracts.py`) | event directories, `index.json`, `exchange.json`, a staging directory, a lock per date | append, plan, stage, place, replace | what is listed is there; history only grows; an invalidated idea stays so |
| Source registration (`session_authority/source_registration.py`) | registration directories, a lock | register, validate, publish | a document is bound once; a published bundle rests on registered bytes |
| Remote gateway (`security/remote_gateway.py`, `oauth_resource.py`) | nonces seen | authorize a read | no replay |
| Account observations (`runtime/account_observations.py`, `providers/`) | a signed policy, an observation file and a lock per account | authorize, read, refresh when due, overlay | no older than it says; consent ends at once; refreshed again and again |
| Gateway facade and transports (`adapters/gateway_facade.py`, `transport/`) | none of their own | route, validate, shape | - |
| Portfolio materializer (`runtime/portfolio_materializer.py`) | none: pure | snapshot + transactions -> holdings, cash | what is shown is explained by what was observed and recorded; what cannot be is not called complete |

### How they interact

A connector call reaches `_ConnectorWriteCoordinator` (`runtime/reference_composition.py`),
which reads the store it concerns, keeps the preview, and on the confirmed apply issues an
approval, has it verified, commits and reads back. Every one of these steps takes the lock
of one journal, or none, and lets it go before the next: **no lock is held from the check
to the write it protects unless the store itself checks again**. Whether it does is the
recurring question of these models:

* the write journal checks keys and executions again under its lock; the approval it was
  given has been verified before;
* the knowledge journal compares the base generation again under its lock;
* the plan store, the policy store and the weighting store compare the digest of the
  state again;
* the checkpoint journal does *not* compare again: the order check is outside the lock.

The portfolio is a function of two journals (latest checkpoint, trades after its cursor)
that are read one after the other. A backup is the only code that holds several locks.

### Hard behaviours

Interleavings of processes and threads between check and write; retries after a lost
answer, of the same preview or under the same idempotency key; expiry and revocation
between validation and commit; trades recorded late, out of the order they happened in, or
with only a date; appends cut by a full disk or a crash, inside a record or at its newline;
crashes between two file replacements; candidate files accepted long after they were made;
restores racing a server on the same root; a browser, a client and an expiry meeting at one
ticket; a publication or a registration that dies half way; a consent that ends while a
broker is being asked; clocks read before a lock is waited for. `PROJECT.json`
lists each one at its line with the properties that cover it.

## Modules

| Module | Models |
|---|---|
| `JournalFile` | a JSONL journal file: rows, whether a line does not parse (`torn`), whether the last newline is missing (`open`), and what an append cut in each way leaves |
| `NativeWrite` | previews, approvals and the write journal, with the clock and crashes |
| `WriteLedger` | the abstract promise of the write journal: a ledger that settles each key and each execution once |
| `PortfolioUpdates` | trades, checkpoints, candidates of connector and command lines |
| `OneUpdater` | `PortfolioUpdates` with one process at work at a time |
| `NativeKnowledge` | generations, connector and command lines, the overlay that is served |
| `PortfolioFacts` | what transactions and observations do to positions, cash, valuations and their labels of completeness (operators only) |
| `PortfolioContents` | accounts in which things happen, what is recorded and observed of them, and the portfolio that is shown |
| `AdvisoryFiles` | what the two stores below have in common |
| `OpinionWeighting` | the config and its manifest, previews and applies |
| `AdvisoryPolicies` | the policy file and its manifest, previews and applies for several portfolios |
| `AdvisorySettings` | these two side by side |
| `AdvisoryPlans` | the plan file and its history, servers with several threads |
| `StorageRecovery` | the four journals with their writers, backups, restores |
| `CommittedWrites` | the knowledge and checkpoint journals as two write fronts see them, and what they answer |
| `ConfirmedWrites` | the MCP surface: grants, tickets, browser sessions, audit, the single apply |
| `AdvisoryBridge` | the command line's pending and applied files |
| `WriteFronts` | both fronts over the same journals |
| `SessionContracts` | which payloads may enter a stream, and what a stream says of its ideas (operators only) |
| `SessionExchange` | publication of streams into an exchange directory |
| `SourceRegistrations` | the store of registered documents |
| `SessionPublication` | both together: the guarded and the unguarded publishing command |
| `AccountObservations` | consent, stored observation, readers, the timer's worker, read-only consumers |
| `MC*` | instances for TLC: model values, small functions, symmetry, bounds |
| `NativeWriteProofs`, `NativeKnowledgeProofs`, `OneUpdaterProofs`, `WriteFrontsProofs`, `StorageRecoveryProofs`, `SessionPublicationProofs` | theorems about the module they are named after |
| `AdvisoryProofs` | theorems about `AdvisoryPlans`, and about the two instances of `AdvisorySettings` |
| `AccountProofs` | theorems about what is served of accounts: `AccountObservations` and `PortfolioContents` |

`NativeWrite`, `NativeKnowledge` and `StorageRecovery` are built on `JournalFile`.
`NativeWrite` instantiates `WriteLedger` with a refinement mapping: a resource exists when
the journal has its row, and a key is settled to the resource of its first row.
`PortfolioContents` extends `PortfolioFacts`, `WriteFronts` composes `ConfirmedWrites` and
`AdvisoryBridge` over `CommittedWrites`, `SessionPublication` composes `SessionExchange`
(over `SessionContracts`) and `SourceRegistrations`.

`TypeOK` of each module says what its variables range over, and is proved invariant where
the module has a proof module. The runs check the properties that could fail by what the
code does.

### Correspondence

* A step is what the code does under one lock, or between two locks. `NativeWrite` splits
  an apply into `Sample` (the clock is read), `Validate` (the approval journal is read) and
  `Commit` (key, execution, append, under the write lock). Other modules do likewise; their
  `pc` says how far an operation has come.
* Digests are abstracted to what they are digests of; drawn ids (uuid4) to journal
  positions or to fresh values. A canonical payload is abstracted to what deduplication and
  authorization look at.
* An append ends in `"full"` or in one of the constant `Cuts`. `"partial"` leaves a line
  that never parses; `"no_newline"` leaves a record that parses until the next append joins
  its line. A process that dies in an append leaves any of these outcomes or nothing.
* `PortfolioUpdates` abstracts a portfolio to how often each trade is counted in it, which
  is what can go wrong with cursors and candidates. Its write journal holds the trades of
  one portfolio only: rows of other portfolios and Decisions move cursors but change no
  count. The checkpoint file is never cut: `append` loops until every byte is written
  (`portfolio_checkpoint.py:222`).
* In `StorageRecovery` a row has the number of the approval it rests on, a checkpoint the
  number of write rows it includes: what the validation of a backup relates (`Linked`). It
  also says whether a backup would split it in two (`splits`), in which case it does not
  parse there (`Parses`), though it does in its store.
  `Keeper` is one writer of checkpoints, because two can break their order (below).
* `PortfolioContents` takes the other half: positions, cash, valuations and labels. Preparing
  an update is one step and applying it another, any number may wait (`MaxCandidates`), and
  they are applied in any order, as candidate files are: nothing compares one with the
  checkpoint it was prepared on. The guard of `Apply` is what `persist_checkpoint` asks, time
  and cursor; the cursor is the candidate's and is not computed again. The clock counts what
  has happened and been applied; the order of rows is the code's sort key. A position is
  identified by its canonical asset, amounts are small integers, every price is one. `seen`
  and `paid` are history variables: when each position and each account's cash was last
  observed in the updates that the checkpoint is built on, whether or not the observation says
  it is complete. They are what the properties compare the shown portfolio with; a candidate
  keeps those it was prepared on, since another one applied meanwhile is no part of it
  (`PortfolioUpdates_stale_file`).
* In both advisory stores a read that validates and then looks again is one step; the
  modules say why that hides nothing. A config is the patches merged into it and the length
  of its chain of bases, which is what its `policy_version` digests; a policy is the changes
  its rules have taken, which its id digests together with what it supersedes.
* `AdvisoryPolicies` writes in place: after `ReplacePolicies` the file is the new rows or
  does not parse, whether the process then dies (before the manifest) or goes on.
* In `ConfirmedWrites` one lock is held through every call, so a call is one step, except
  that the apply has steps of its own because the bridge, another process, writes the same
  journals (`Check`, `WriteJournal`, `Return`, `Fail`). Random tickets, preview ids and
  cookies are fresh values; a ticket stands for its preview. The pair of plan tools takes
  the same path with a shorter expiry and is `AdvisoryPlans`'s. Portfolio candidates of the
  fronts are abstracted to requests: whether an append is taken, not what it says.
* In `AdvisoryBridge` a command is several steps under the directory lock: journal append,
  then the move from `pending/` to `applied/`; a death can fall between any two.
* `SessionContracts` keeps of a payload what relates one part of a stream to another. The
  hash of an idea is the idea, the hash of an event the stream up to it (it covers its
  predecessor's), a bundle's digest the bundle with `occurred_at` (`at`). `SessionExchange`
  has one step per file operation: stage, place one event directory, replace `index.json`,
  replace `exchange.json`, remove the staging directory; a publisher may die between any two.
* `AdvisoryPlans.FindNone` is the answer of `apply` to an identifier that is not pending
  (`plan_preview_not_found_or_consumed`), which a retry also gets while the first apply is
  still publishing: `"gone"`, which leaves open what became of the update.
* `AccountObservations` counts time in ticks. `memory` is the cache of the broker reader in a
  gateway, which the consent does not reach; without consent a read is the reader's alone
  (`ReadDirectly`). A call reads the clock once, before it waits
  for the lock; its `lag` is the ticks since, so an age it computes is the true one less its
  lag, and may be negative. Ages stop at `Cap`, past every limit. The signed policy is read
  again at every step that needs it; at most one change of policy falls into a call (an
  approval is typed at a terminal, a call lasts about a minute).
* The mutants named `... Mutant: ...` in the modules are not part of the specification;
  they are plausible bugs that the properties are shown to catch.

## Runs

All runs that pass are exhaustive over their instances. Deadlock is checked in every run
except `PortfolioContents_updates`: there nothing obliges anything to happen in an
account or an owner to record it, and the bounds end what may happen.

| Run | Question | Result |
|---|---|---|
| `NativeWrite_retries` | two processes, three previews that collide on a key and on an execution | keys and executions settle once, `WriteLedger` is implemented |
| `NativeWrite_authority` | two users with different grants, expiry, revocation between steps, cut appends | every row rests on an approval that was in force; the receipts of a key agree; they are in the journal while that parses |
| `PortfolioUpdates_one_at_work` | one connector, or one person at the command line with two candidate files; trades recorded late and out of order; a date against an instant | each trade counts once, no completed apply is called failed, and no update of the connector repairs a portfolio that cannot be served |
| `PortfolioUpdates_stale_file` | is what an update observed kept, by a command line? | **no**, a stale candidate file drops it |
| `PortfolioUpdates_race` | a connector and a command line accept at once: do checkpoints stay in order? | **no**, both are compared with the same latest one |
| `PortfolioContents_updates` | one of three questions: amounts (two accounts, trades and deposits recorded late, without a price, unconfirmed or never; account syncs, full and narrow observations of now or of a moment ago), files (two candidates that wait and are applied in any order) or order (trades of a day recorded by date or instant, identifiers in any order, corrections) | positions and cash are explained by what the updates a checkpoint is built on observed and by what was recorded since, cash that could not be moved is not called complete, what is wholly recorded is served if its times tell the order of its trades, a valuation fits its quantity |
| `NativeKnowledge_updates` | connector and command line, two requests under one id, claims that replace each other, cuts | history linear, applied once and kept, claims supported |
| `AdvisoryStores_updates` | one of three stores: plans (two threads of one server, a second server, two portfolios in one file), policies of two portfolios or weighting patches (two processes, short writes, deaths between and inside the writes) | the active plan is the one the history says, plans are retained, answers hold; policies succeed one another and none answered as applied is lost; a settings store that does not validate never does again |
| `StorageRecovery_running` | backup and restore while writers go on, cut appends, rows that quote a line separator, a backup that rots, a target taken meanwhile | a backup is one instant, a restore is whole, and nobody's files are overwritten |
| `WriteFronts_races` | a client, a browser user, tickets that expire, restarts, and a bridge command on the same journals | every write was approved by the user the grant names, as shown; both books of previews agree; pending and applied files say the truth; an answer of success is true |
| `SessionPublication_crashes` | a guarded and an unguarded publisher, a registrar, streams that grow apart, deaths and failed writes | what is listed is there, history only grows, an invalidated idea stays so, a guarded session is published once |
| `AccountObservations_refresh` | one of two questions: refreshing (the timer's worker and a gateway with credentials, forced and failing reads, one change of consent or one death) or consent (the gateway with its memory and a reader without credentials, two changes) | nothing shown is older than it says but for the call, consent ends at once but for a gateway's memory, failures lose nothing, the account is refreshed again and again |

### Bounds, and why they are enough

The interesting cases are collisions, so what matters is how many operations collide, not
how many there are: two processes (or a thread pair and another server) see every order of
two operations' steps, and a third request is there where one must follow two that raced.
Keys and executions are shared between three previews in every way (same key, same
execution, both). Clocks run just past the lifetimes chosen (`PreviewTtl`, `ApprovalTtl`,
`ReviewTtl`), so that everything expires before, at and after each step. In `PortfolioUpdates` a day has
two instants (`Day = 2`), so a date covers an earlier and a later instant; one trade per
account and two accounts are enough for an update to observe one and carry the other over.
`CommitLag = 1` lets one commit time go behind another. `MaxPending`, `MaxPreviews`, `MaxTime`,
`MaxApprovalRows`, `MaxRows` and `MaxSnapshots` are the bounds that are not in the code
(the real limit on pending plans, 100, is not reached). `StorageRecovery_running` uses one
write row and one knowledge row with an approval each and two checkpoints.

`OneUpdater` lets one process be at work at a time, which is when the counts and answers of
`PortfolioUpdates_one_at_work` can be promised: two break the order of checkpoints and each
other's observations (`PortfolioUpdates_race`, with everybody at work, and below). `BoundedSpec` adds `Bounds` that keep one preview in memory,
or two files and three checkpoints; `RaceBounds` only leaves out previews for the seed's own
instant, so that the violation is not about the seed. One preview per process and two instants
(`MaxPending`, `MaxTime`) are enough for two processes to collide.

Where a module has several questions whose collisions do not meet, its MC module picks one
per behaviour (`question`, `store`) and gives each bounds of its own, so that one run is the
sum of them. In `PortfolioContents_updates` *amounts* has two events, two rows and two
updates, four in all: a late row after an observation of its event, an observation between
two events, and a second update on top of a first each fit. Account `a` has the
cash basis and begins known; `b` has none and holds what the first checkpoint misses, and
money comes and goes there that nobody books. *files* has one row fewer and one step more,
two candidates at a time and observations of quantities only (`OfQuantities`), which are what
they can do to each other; *order* has one candidate, both precisions, an unsupported type
and identifiers of which either may come first.
`MCAdvisoryStores` takes the three advisory stores one at a time: they share no file, lock or
preview, so a behaviour of all is one of each.
`MaxVersion` bounds the chain of bases. `SessionPublication_crashes` has six bundles that
extend a brief in different ways and six that must be refused, one fault and one death: a
second fault finds the same leftovers. In `AccountObservations_refresh` a call lasts at
most one tick (`MaxWait`) in limits of one and two ticks; *refreshing* has one change or
death, *consent* has two changes, so that it can be disabled and given again, which is what
a memory can outlive, and leaves the worker out, since the gateway stores as it does. In `StorageRecovery_running`
write rows may quote a line separator (`Quoting`), those of the other journals may not.

### Fairness

Only `AccountObservations` states fairness; nothing else in this code promises that a
client confirms, retries or restarts. `RefreshedAgain` assumes

* `WF(Tick)`: time passes;
* `WF(Due)`: the timer starts the worker every five minutes
  (`src/deploy/synology/account-observations.timer.example`);
* `WF(Proceed(p))`: a call that is in goes on, for the broker is asked in a subprocess with
  a time limit of 50 seconds; `WF(Compose(c))` likewise;
* `SF(Enter(p))`: a process that waits for the lock gets a turn. The code tries again until
  its own limit, so this is the scheduler's fairness over repeated calls;
* `SF(\E p : Fetch(p))`: a broker asked over and over answers completely some time. Weak
  fairness is not enough. Without this, forced reads that keep failing renew the back-off
  for ever, and the worker, which honours it, never asks.

### What the violated runs show

* **Checkpoint order** (`portfolio_checkpoint.py:306`): checked outside the append's lock, and
  `append` compares nothing. Two processes can append in the wrong order; the journal fails
  its validation from then on, and with it every backup. The test
  `test_acceptance_time_and_checkpoint_effective_time_cannot_regress`
  (`tests/test_portfolio_reconciliation.py:548`) expects a refusal. Together with a stale
  file a trade can be counted twice.
* **Stale files** (`deployment/portfolio_update_cli.py:146`): accepting a candidate file does
  not compare it with the current checkpoint. An observation of another account made
  meanwhile is replaced by what the file carried over, by one process alone.

### Seen while modelling

These were counterexamples of the models, or are left out of a property that holds without
them; they have no run of their own.

* **Two connectors** (`reference_composition.py:313`): an apply compares the checkpoint, the
  cursor and the portfolio, and appends later, without a lock over both. A checkpoint of
  another account that another connector appends in between is replaced by what this one
  carries over, although `README.md:252-253` says "Portfolio apply rechecks the latest
  checkpoint, write cursor, and current Portfolio digest before persistence". `RaceSpec`
  with two connectors violates `NothingForgotten`; with one process at work a connector
  forgets nothing, which says little, since nothing can then come in between.
* **Short writes** (`native_write_store.py:497`): `_append_unlocked` does not look at what
  `os.write` returns, so after a short write the receipt is returned for a row that is not in
  the journal (`ReceiptsDurable` is false where `Cuts` is not empty), although
  `README.md:587-588` says "A successful commit stores one canonical Decision or Transaction
  together with its OperationReceipt". What does hold is `ReceiptsDurableWhileReadable`
  (checked and proved): as long as the journal parses, every receipt is in it.
* **Commit times** (`native_write_store.py:712`): `apply_mutation` samples the commit time
  before it takes the lock. Two applies can be journalled against the order of their times,
  and `_journal_cursor_for_snapshot` then refuses every snapshot
  (`portfolio_reconciliation.py:307`). `CommitLag` keeps this in `PortfolioUpdates`.
* **Weighting previews** (`opinion_weighting.py:187`): the config is read before its digest
  is taken, under two locks. An update applied in between is dropped by the next apply,
  which finds the digest current. The policy store is safe from it: it compares the policy
  that was read as well (`advisory_policy_update.py:125`), as `PoliciesSucceed` shows.
* **Shared broker calls** (`account_observations.py:260`):
  `src/docs/account-observations.md:35-37` says that processes sharing the lock do not
  each call the provider. The one that waited read the clock before, finds what was stored
  meanwhile to be of a negative age, and calls the provider too.
* **One bundle per document** (`session_authority/source_registration.py:375`):
  `ReleasedOnce` holds for an uncomfortable reason. A document is bound to the digest of one
  bundle, and an amended bundle has another, so a session once published through the guarded
  command cannot be extended through it.
* **Leftovers** (`source_registration.py:336`): after one death inside a registration nothing
  can be registered or validated until the staging directory is removed by hand: every
  command lists the store first and fails on it. The guards of the model say so
  (`StoreReadable`); there is no property, as it would only repeat them.
* **Line separators** (`storage_recovery.py:81`): records are written `ensure_ascii=False`, the
  stores split a journal at its newlines, a backup with `str.splitlines()`, which also splits
  at U+2028, U+2029 and U+0085. A journal with a row that quotes one of these is served and
  written, but no backup of it is made again. In the model such a row has `splits`.
* **A gateway's memory** (`account_state.py:175`): the broker reader keeps the last complete
  answer. When the broker fails and nothing is stored under the policy in force, it is shown
  as stale even if it was fetched and stored under a policy since replaced. That answer is
  the exception in `ConsentHolds`, which says that it is never shown as current.
* **Trades of a day** (`portfolio_materializer.py:84-95`): trades sort by time, a date before
  the instants of its day, then by when they were recorded, then by identifier, a digest. A
  sale recorded by its date, or before a purchase of the same time, is booked first and
  blocks the portfolio (`oversell_not_allowed`) although all is recorded. That is why
  `RecordedIsServed` asks that the times tell the order (`OrderTold`).
* **Short positions**: no account is ever allowed any, since the seed passes an empty list
  (`portfolio_authority_seed.py:128`) and checkpoints hand that on, so the branch for it
  (`portfolio_materializer.py:396`) cannot be reached and is not in the model.
* **Cash basis** (`portfolio_reconciliation.py:563`): a full observation handed in with
  complete cash that leaves out the basis row removes it, and the portfolio cannot be
  materialized any more (`cash_basis_not_found`). Only account syncs look for it first; the
  model gives the other path its cash.
* **Cost basis** (`portfolio_update_service.py:243`): a stated quantity drops the valuation
  only, so cost basis and average cost are carried along with a changed quantity. Costs are
  not in the model. A sync that changes no value returns `no_change`, so labels of
  completeness do not advance with it.
* **Identity**: `_transaction_identity` (`native_write_store.py:262`) uses only the strongest
  reference of a payload, so one execution reported once by provider id and once by source
  reference is two transactions.
* **Recoverable?** `adapters/materialized_portfolio.py:41` reports `recoverable: True` for a
  state that `UnavailableForGood` shows no later update of the connector leaves.

## Proofs

The theorems hold for every value of the constants that satisfies the assumptions named in
the modules that declare them.

**`NativeWriteProofs`.** `Spec => []TypeOK` first. The safety invariants are proved through
one inductive invariant,

    IInv == TypeOK /\ JobsApproved /\ WritesApproved /\ OneRowPerKey
            /\ OneResourcePerIdentity /\ RowsPointBack
            /\ ReceiptsDurableWhileReadable /\ ReceiptsAgree

No conjunct alone is inductive. `WritesApproved` needs `JobsApproved`, since `Commit` writes
what `Validate` saw and never looks at the approval again; `ReceiptsAgree` needs
`OneRowPerKey` and the durability of receipts, since a replayed receipt is read off the
first row with the key. The proof rests on `JournalStep`: the journal changes only by one
`Write`, so either a row is appended to a whole file or the file is damaged and loses at
most the row whose newline was missing. The revocation and damage theorems are action
properties from the same invariant. `ReceiptsDurable` without its condition is false once an
append is cut (above).

`JournalImplementsLedger` assumes `Cuts = {}`, as does its run. It strengthens `IInv` by `RowsNamed`
(a row says of its resource what its preview said) and `Whole` (the journal parses and ends
in a newline). An append is a ledger step `Create` or `Reuse` according to whether its
execution is in the journal; every other step, crashes included, is a stutter.

**`NativeKnowledgeProofs`.** Linearity, `AppliedIsKept` and from both `AppliedOnce`: a
generation whose id is already journalled is never appended again, so two callers are not
both told. `ClaimsSupported` rests on every row being valid by itself (`AllValid`) and on
the overlay taking a claim and its evidence from their last mentions.

**`AdvisoryProofs`, the plans.** Assumes `BaselineAssumption`: the imported baseline has at most
one active plan per portfolio, which every read of the store validates. Two invariants
carry the theorems. `AllSound`: a candidate was reviewed against a state that validates, and
the rows it publishes follow from that state; since the apply compares the state again under
the lock, each entry of the history follows from the one before, which gives
`VersionsRetained` and `HistoryRules`. `Owned`: a preview is in one place only, waiting at one
server, in the hands of one worker, or done; so no second apply can use it up, whoever comes
second is told that there is none, and what the first was answered stays true
(`AnswersReliable`).

**`AdvisoryProofs`, the policies and the weighting config.** About the instances `P` and
`W` of `AdvisorySettings`, whose assumptions are that no process is the holder of a free
lock (`FilesAssumption`) and that what stands for damage or for no work is no config or
preview (`SettingsAssumption`). `PolicyInv` says that the policies parse as one line of
succession per portfolio (`InLine`) or not at all, that a manifest that parses is of the
store or of its past, and that what a process read, reviewed or was answered is in the
store by policy id; a base is the store or has fewer ids (`Grown`). So an apply that finds
the base again finds the policy it supersedes in force (`ReadInForce`), although reading
it and taking the base are two steps, and `PoliciesSucceed` follows. The policies that an
update writes are more than any the manifest can be of, whence `PoliciesUnusableForGood`.
In the weighting store the version takes the place of the ids: `ManifestOfPast` bounds the
manifest's by the config's.

**`OneUpdaterProofs`.** About `OnlySpec`, one process at work: with two, checkpoints lose
their order and observations are dropped (above). First the arithmetic of
timepoints: a date stands for the `Day` instants from its first on, and `AfterIsPast` shows
that `After`, the code's comparison with all its cases of ambiguity, holds exactly when one
begins past the end (`Upper`) of the other. From there "after" is an order and a safe cursor
splits the journal into rows before and after an instant. The inductive invariant says of
commit times that they end no earlier than the trade they commit, of a checkpoint that
it counts each trade up to its cursor once and none after it (`SoundCheckpoint`), of a
candidate the same for what it has read so far (`SoundCandidate`), and of a candidate that
is about to be appended that nothing has come in between (`Fresh`), which is where one
process at work is needed. `UnavailableStays` is an action property from the same invariant: a row that is not after
the latest checkpoint makes the projection that an update starts from fail.

**`WriteFrontsProofs`.** Five books must agree: pending reviews, the coordinators' previews,
files, journal rows and answers. `TicketHolds` relates the three that one ticket appears in
(`EntryHolds`, `BooksAgree`, `CallHolds`), `FileHolds` a file and the rows of its handle,
`WrittenReviewed` a row and the audit, `AnswersHold` an answer and its row. A ticket is
issued once and a row written at most once (`IssuedOnce`, `WrittenOnce`): without this an
apply could find the row of an earlier one. The assumptions besides the bounds say that
drawn ids are distinct (`DistinctAssumption`: a ticket is no handle) and that an absent
value is not a value (`NoneAssumption`, `HandlesAssumption`).

**`StorageRecoveryProofs`.** `CopiesCurrent`: what a backup has read is what the journals
say, because it reads only when it holds all four locks, and nobody may write then; so four
copies are the root (`BackupsAreOneInstant`). `StagedWhole` carries what was verified to the
restored root, except for what changed meanwhile. `ReadableRootsAreSound` says more than any
run lists: as long as the four journals can be read by their stores, they refer to each other
as the validation demands (`RootSound`), so `create_backup` refuses a root only when one does
not parse line by line (`RefusedForItsLines`), which is damage or a row that quotes a line
separator. This needs
`ApprovalsCover` (with the approvals that writers hold but have not used), `WritesCover` and
`CursorsAdvance` (with the cursor that is checked but not yet written), and one keeper of
checkpoints, as in the model.

**`AccountProofs`, the observations.** About `Spec`, without the fairness of the run. One predicate,
`CallHolds`, says of each call what it rests on: who writes holds the lock (`Protected`: a
call that entered without consent has met its one change of policy and is refused before it
writes); what it loaded is still stored, under a policy no older than the call
(`LoadedIsStored`); what it fetched is not older than the call and not older than the stored
row (`FetchedIsNewer`). Of a gateway's memory it needs no more than its age: `ConsentHolds`
allows for it as stale, and what is called current out of it is shown without consent only. `NoneAssumption` says that "nothing" is not a number or a record.

**`AccountProofs`, the portfolio.** The properties of `PortfolioContents` compare a fold over the
transactions after a checkpoint with sums over what happened, for journals of any length.
Both are functions on the parts of `1 .. n`, so what holds of the empty part, and of a part
when it holds of the part without its latest row, holds of all (`Least`: a set of numbers
has a least one; `PartByPart`). With that, sums and the fold exist and have their equations
(`SumRules`, `TotalRules`, `FoldRules`, `FoldStep`). The invariant

    ContentsInv == Happened /\ Journalled /\ NeverShort /\ CheckpointHolds /\ CandidateHolds

rests on one notion: a portfolio is true *through* a set of rows `R` (`PortfolioHolds`) when
each position that was ever seen is what there was at first, plus what had been traded when
it was seen, plus what confirmed rows of `R` have traded since; when cash that is called
complete is likewise; and when a valuation is of its quantity. One more row keeps it unless the row blocks (`StepHolds`), so a
projection that is not blocked is true through its rows (`FoldHolds`). An observation
records what there is (`Observed`), and what it replaces or carries over stays true through
the rows before its safe cursor (`RecordedUntil`, `CountedUntil`), whence the next
checkpoint is true (`ApplyKeeps`). The cursor is safe because a row carries the time it was
recorded at and rows are in that order (`Journalled`), whatever order they happened in. With several candidates
this holds of each along its own line: what it was prepared on, not what was applied since.
`RecordedIsServed` is the converse:
where everything that happened is recorded and the times tell the order, each row in turn
finds the quantity it sells (`LatestPasses`, from `NeverShort`: nobody sells what is not
there), so nothing blocks. The assumptions are about the first portfolio: what it says of the
quantities that count as seen, of complete cash and of valuations is true
(`BeginAssumption`), and `Absent` is no value (`FactsAssumption`). While proving it `paid`
turned out to be taken too narrowly: a cash row that a partial observation carried was
replaced without being noted.

**`SessionPublicationProofs`.** Streams are compared as prefixes and an event is a non-empty
prefix, so the lemmas relate prefixes to events: one more event of a longer stream has a path
of its own (`PathOf`), which is why the lists may only get longer. The invariant says of each
publisher that it holds the lock of the date from staging to its end, that what it compared
is still listed, and that every event is either placed or still to be moved; of a registrar,
that one at most is inside the store's lock; of the store, that no two entries bind one
document; of a guarded publisher, that its bundle was documented when it began and still is,
because entries are never removed. It assumes that streams are sequences
(`StreamsAssumption`, what `StreamsOf` folds) and so are the operations of an amendment
(`OperationsAssumption`), and that "nothing" is no publisher, bundle, stream or document
(`UnsetAssumption`, `EntryAssumption`). `InvalidIsFinal` is about what `Replay` makes of streams of any
length: its folds, over amendments and within each over operations, are read from the
first element on (`FoldIsReading`), an extended stream is read the same as far as the
shorter one goes (`SameReading`), and no operation on an idea that is invalid for good is
allowed (`OperationKeeps`); since what is published replays to its end, none was refused.

`TypeCorrect`, `JobsAreApproved`, `KeysAreUnique`, `IdentitiesAreUnique`, `RowsDoPointBack`,
`DamageStaysPut`, `ReadableRootsAreSound`, the `...Types` and the
`...Invariant` theorems are about definitions that no run lists: the other theorems rest on
them, or they say more. Every inductive invariant was first checked by TLC on the instance
of its component's run.

**Model-checked only:** `RefreshedAgain`, which is liveness under fairness, and with it
everything about `ENABLED`: out of the prover's reach. Every other property of a passing run
is a theorem. The violated runs state what does not hold. What the folds of the models
compute is proved where a property needs it, by least counterexamples over their parts,
since the library's induction theorems cannot be instantiated; that `StreamsOf` builds
sequences is evaluated by TLC only.

## Not modelled, and why

* Gateway facade and transports (`adapters/gateway_facade.py`, `transport/` but for the
  confirmed writes): parsing, schemas, tool catalogues, routing and response shaping; no
  state of their own.
* Remote gateway contract (`security/remote_gateway.py`): the nonces seen and a window of
  request times, in one process under one lock. The nonce of a request is consumed before the
  rate limit is looked at (line 184), so a refused request must be sent with a new one.
* Provider workers, tunnels, deployment scripts: network and process start-up.
* The consensus of `opinion_weighting.py:252`, the shadow comparison and the replay
  verification of portfolios: read-only reports.
* Two accounts in one observation policy: `authorize` of `deployment/account_observation_cli.py`
  reads the scopes in force before it waits for the operator (line 62), so what another
  operator approves meanwhile is lost; the model has one account.
* One-shot migrations and read-only historical stores; manifest format versions and
  directory layouts of backups.
* In confirmed writes: HTML, OAuth tokens and the forward-auth request.

## Plan

1. (done) `JournalFile`, `NativeWrite`, `WriteLedger`; the proofs and the refinement.
2. (done) `PortfolioUpdates`, `NativeKnowledge` and `AdvisoryPlans` with proofs,
   `OpinionWeighting`, `StorageRecovery`.
3. (done) `AdvisoryPolicies`, `ConfirmedWrites` and `AdvisoryBridge` over `CommittedWrites`,
   the session modules, `AccountObservations` with its liveness, `PortfolioContents`.
4. (done) Proofs about `OneUpdater`, `WriteFronts`, `StorageRecovery`, the safety of
   `AccountObservations`, the settings stores and `SessionPublication`.
5. (done) Proofs about `PortfolioContents` and about the replay of session streams.
6. Composition: `PortfolioUpdates` over `NativeWrite`'s journal instead of a list of trades,
   so that deduplication and cursors are checked together.
