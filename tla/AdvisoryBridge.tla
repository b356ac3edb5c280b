----------------------------- MODULE AdvisoryBridge -----------------------------
(***************************************************************************)
(* Writes confirmed in a chat, through a command that runs once per call.   *)
(*                                                                         *)
(*   deployment/advisory_write_bridge.py                                    *)
(*                                                                         *)
(* A preview is a file under pending/; an apply holds the lock of the       *)
(* directory from reading the file until it has moved it to applied/, and   *)
(* commits in between.  Any call may die anywhere, and the lock with it.    *)
(***************************************************************************)
EXTENDS CommittedWrites

CONSTANTS
    Handles,    \* pending handles, random: none is used twice
    NoFile,
    Idle

VARIABLES
    files,      \* [Handles -> [request, base, at] or NoFile]
    apply       \* the apply that holds the lock, [handle, at], or Idle

bridgeVars == <<files, apply>>

File == [request: Requests, base: Nat, at: {"draft", "pending", "applied"}]
Work == [handle: Handles, at: {"checked", "written", "moved"}]

ASSUME HandlesAssumption == NoFile \notin File /\ Idle \notin Work

BridgeInit == files = [h \in Handles |-> NoFile] /\ apply = Idle

KnowledgeDraft(r) == KindOf[r] = "knowledge"

(* The preview of an observation that is not after the latest checkpoint    *)
(* fails.                                                                   *)
PortfolioDraft(r) == KindOf[r] = "portfolio" /\ ~Committed(r)

(* The preview and the version it was made against; the file is written     *)
(* when the lock is free.                                                   *)
Build(r, h) ==
    /\ files[h] = NoFile
    /\ KnowledgeDraft(r) \/ PortfolioDraft(r)
    /\ files' = [files EXCEPT ![h] = [request |-> r, base |-> Version(KindOf[r]),
                                      at |-> "draft"]]
    /\ UNCHANGED <<apply, journal, answers>>

Create(h) ==
    /\ apply = Idle
    /\ files[h] # NoFile /\ files[h].at = "draft"
    /\ files' = [files EXCEPT ![h].at = "pending"]
    /\ UNCHANGED <<apply, journal, answers>>

(* A portfolio preview is also stale when its cursor or its projection has  *)
(* changed: PortfolioUpdates has those.                                     *)
Fresh(f) == ~Stale(f.request, f.base)

(* The file is there, the confirmation is its own, the base is the latest.  *)
Begin(h) ==
    /\ apply = Idle
    /\ files[h] # NoFile /\ files[h].at = "pending"
    /\ Fresh(files[h])
    /\ apply' = [handle |-> h, at |-> "checked"]
    /\ UNCHANGED <<files, journal, answers>>

(* Mutant: the file is moved before the write is committed.                 *)
WriteMoved ==
    /\ apply # Idle /\ apply.at = "checked"
    /\ files' = [files EXCEPT ![apply.handle].at = "applied"]
    /\ apply' = [apply EXCEPT !.at = "written"]
    /\ UNCHANGED <<journal, answers>>

Write ==
    /\ apply # Idle /\ apply.at = "checked"
    /\ LET f == files[apply.handle] IN
       /\ Appendable(f.request, f.base)
       /\ Commit(f.request, apply.handle)
    /\ apply' = [apply EXCEPT !.at = "written"]
    /\ UNCHANGED <<files, answers>>

Consume ==
    /\ apply # Idle /\ apply.at = "written"
    /\ files' = [files EXCEPT ![apply.handle].at = "applied"]
    /\ apply' = [apply EXCEPT !.at = "moved"]
    /\ UNCHANGED <<journal, answers>>

Report ==
    /\ apply # Idle /\ apply.at = "moved"
    /\ Answer(files[apply.handle].request, apply.handle)
    /\ apply' = Idle
    /\ UNCHANGED <<files, journal>>

(* The apply is refused, fails or dies.                                     *)
Stop == apply # Idle /\ apply' = Idle /\ UNCHANGED <<files, journal, answers>>

BridgeNext ==
    \/ Write \/ Consume \/ Report \/ Stop
    \/ \E h \in Handles : Create(h) \/ Begin(h) \/ \E r \in Requests : Build(r, h)

BridgeTypeOK ==
    /\ files \in [Handles -> File \union {NoFile}]
    /\ apply \in Work \union {Idle}

(* What the directory says is true after any crash: a file in applied/ is   *)
(* of one write that was committed, and a pending file whose write was      *)
(* committed all the same can only be refused as stale when it is retried.  *)
FilesTellTruth ==
    \A h \in Handles : files[h] # NoFile =>
        /\ files[h].at = "applied" => Cardinality(RowsBy(h)) = 1
        /\ files[h].at = "draft" => RowsBy(h) = {}
        /\ files[h].at = "pending" /\ RowsBy(h) # {} =>
              Stale(files[h].request, files[h].base)
================================================================================
