---------------------------- MODULE ConfirmedWrites ----------------------------
(***************************************************************************)
(* Writes over MCP that a human confirms in a browser.                      *)
(*                                                                         *)
(*   transport/mcp_confirmed_writes.py    ConfirmedWriteSurface             *)
(*   runtime/reference_composition.py     the coordinator behind it         *)
(*                                                                         *)
(* A client with a write grant asks for a preview and gets a ticket.  The   *)
(* user the grant names opens the ticket in a browser, is shown the exact   *)
(* change, and approves or rejects it from that page.  Only then does the   *)
(* client's apply reach the coordinator, once.  One lock is held through    *)
(* every call, the router's included; another process shares the journals.  *)
(* Tickets, preview ids and cookies are random: a ticket stands for its     *)
(* preview, and none is issued twice.  A refused call changes nothing       *)
(* besides the pruning every call starts with.                              *)
(***************************************************************************)
EXTENDS CommittedWrites

CONSTANTS
    Clients,    \* (subject, client) identities
    Users,      \* browser users
    Grants,     \* [Clients -> Grant]
    Tickets,
    Cookies,
    ReviewTtl,  \* how long a ticket and a browser session last
    MaxPending,
    MaxTime,    \* bound on the clock
    None

Grant == [user: Users, kinds: SUBSET Kinds, scope: SUBSET Requests, expires: Nat]

(* bounded_grant: something is permitted, and portfolios are named.         *)
Bounded(g) == g.kinds # {} /\ ("portfolio" \in g.kinds => g.scope # {})

ASSUME GrantsAssumption ==
    /\ Grants \in [Clients -> Grant] /\ \A c \in Clients : Bounded(Grants[c])
    /\ ReviewTtl \in Nat /\ MaxPending \in Nat \ {0} /\ MaxTime \in Nat

VARIABLES
    now,
    pending,    \* [Tickets -> Entry or None]: the surface's pending reviews
    sessions,   \* [Cookies -> Session or None]
    registered, \* [Tickets -> Registered or None]: the coordinators' previews
    spent,      \* tickets the coordinators have consumed
    call,       \* the apply that holds the lock, [ticket, base, at], or None
    audit,      \* browser-confirmations.jsonl
    issued,     \* tickets ever issued, with their client and request
    opened      \* pages served: [ticket, user, cookie]

surfaceVars == <<now, pending, sessions, registered, spent, call, audit, issued, opened>>

States == {"awaiting", "approved", "rejected", "consumed", "applied", "failed"}

Entry == [client: Clients, request: Requests, expires: Nat, state: States,
          cookie: Cookies \union {None}]
Session == [user: Users, expires: Nat]
Registered == [request: Requests, base: Nat]
Call == [ticket: Tickets, base: Nat, at: {"routed", "checked", "written"}]

ASSUME NoneAssumption == None \notin Cookies \union Entry \union Session \union Registered \union Call

SurfaceInit ==
    /\ now = 0
    /\ pending = [t \in Tickets |-> None]
    /\ sessions = [k \in Cookies |-> None]
    /\ registered = [t \in Tickets |-> None]
    /\ spent = {} /\ call = None /\ audit = {} /\ issued = {} /\ opened = {}

Tick == /\ now < MaxTime
        /\ now' = now + 1
        /\ UNCHANGED <<pending, sessions, registered, spent, call, audit, issued, opened,
                       journal, answers>>

--------------------------------------------------------------------------------
(* _prune: the expired tickets go, and their previews with them.            *)
Expired == {t \in Tickets : pending[t] # None /\ pending[t].expires <= now}

Without(f, gone) == [x \in DOMAIN f |-> IF x \in gone THEN None ELSE f[x]]

Kept == Without(pending, Expired)
KeptPreviews == Without(registered, Expired)
KeptSessions ==
    Without(sessions, {k \in Cookies : sessions[k] # None /\ sessions[k].expires <= now})

Granted(c) == Grants[c].expires > now

Least(a, b) == IF a < b THEN a ELSE b

(* Every call and every page begins by pruning; a refusal ends there.       *)
Prune ==
    /\ call = None
    /\ pending' = Kept
    /\ registered' = KeptPreviews
    /\ sessions' = KeptSessions
    /\ spent' = spent \ Expired
    /\ UNCHANGED <<now, call, audit, issued, opened, journal, answers>>

(* A preview call: the coordinator builds and registers the preview, the    *)
(* surface fetches the exact review of it and issues a ticket.  Without a   *)
(* review the preview is discarded.                                         *)
Preview(c, r, t) ==
    /\ call = None
    /\ Granted(c)
    /\ KindOf[r] \in Grants[c].kinds
    /\ KindOf[r] = "portfolio" => r \in Grants[c].scope
    /\ Cardinality({x \in Tickets : Kept[x] # None}) < MaxPending
    /\ ~Committed(r)
    /\ \A i \in issued : i.ticket # t
    /\ issued' = issued \union {[ticket |-> t, client |-> c, request |-> r]}
    /\ pending' = [Kept EXCEPT ![t] =
           [client |-> c, request |-> r, state |-> "awaiting", cookie |-> None,
            expires |-> Least(now + ReviewTtl, Grants[c].expires)]]
    /\ registered' = [KeptPreviews EXCEPT ![t] =
           [request |-> r, base |-> Version(KindOf[r])]]
    /\ sessions' = KeptSessions
    /\ spent' = spent \ Expired
    /\ UNCHANGED <<now, call, audit, opened, journal, answers>>

(* Mutant: an apply does not wait for the approval.                         *)
ApplicableUnapproved(c, t) ==
    Kept[t] # None /\ Kept[t].client = c /\ Kept[t].state \in {"awaiting", "approved"}

Applicable(c, t) == Kept[t] # None /\ Kept[t].client = c /\ Kept[t].state = "approved"

(* An apply call: the entry is consumed before the router is called.        *)
Apply(c, t) ==
    /\ call = None
    /\ Granted(c)
    /\ Applicable(c, t)
    /\ pending' = [Kept EXCEPT ![t].state = "consumed"]
    /\ call' = [ticket |-> t, base |-> 0, at |-> "routed"]
    /\ registered' = KeptPreviews
    /\ sessions' = KeptSessions
    /\ spent' = spent \ Expired
    /\ UNCHANGED <<now, audit, issued, opened, journal, answers>>

(* _consume_pending and the comparison of base and latest version.          *)
Check ==
    /\ call # None /\ call.at = "routed"
    /\ LET t == call.ticket IN
       /\ ~Stale(registered[t].request, registered[t].base)
       /\ call' = [call EXCEPT !.at = "checked", !.base = registered[t].base]
       /\ registered' = [registered EXCEPT ![t] = None]
       /\ spent' = spent \union {t}
    /\ UNCHANGED <<now, pending, sessions, audit, issued, opened, journal, answers>>

(* The approval is issued and the journal appended to.                      *)
WriteJournal ==
    /\ call # None /\ call.at = "checked"
    /\ LET r == pending[call.ticket].request IN
       /\ Appendable(r, call.base)
       /\ Commit(r, call.ticket)
    /\ call' = [call EXCEPT !.at = "written"]
    /\ UNCHANGED <<now, pending, sessions, registered, spent, audit, issued, opened, answers>>

(* The apply returns: the preview is discarded, the lock released.          *)
Release(state) ==
    LET t == call.ticket IN
    /\ pending' = [pending EXCEPT ![t].state = state]
    /\ registered' = [registered EXCEPT ![t] = None]
    /\ spent' = spent \ {t}
    /\ call' = None
    /\ UNCHANGED <<now, sessions, audit, issued, opened, journal>>

Return ==
    /\ call # None /\ call.at = "written"
    /\ Answer(pending[call.ticket].request, call.ticket)
    /\ Release("applied")

(* Any refusal or error on the way; a checkpoint's also after the append,   *)
(* when its read-back is not what was approved.                             *)
Fail ==
    /\ call # None
    /\ call.at = "written" => KindOf[pending[call.ticket].request] = "portfolio"
    /\ Release("failed")
    /\ UNCHANGED answers

--------------------------------------------------------------------------------
(* What a page or a decision needs of its ticket and its user.              *)
Reviewable(u, t) ==
    /\ call = None
    /\ Kept[t] # None
    /\ u = Grants[Kept[t].client].user
    /\ Granted(Kept[t].client)
    /\ Kept[t].state = "awaiting"

(* GET: the page is bound to the browser's session, or to a new one.        *)
Open(u, k, t) ==
    /\ Reviewable(u, t)
    /\ \/ KeptSessions[k] # None /\ KeptSessions[k].user = u /\ sessions' = KeptSessions
       \/ /\ sessions[k] = None
          /\ \A o \in opened : o.cookie # k
          /\ Cardinality({x \in Cookies : KeptSessions[x] # None}) < 2 * MaxPending
          /\ sessions' = [KeptSessions EXCEPT ![k] =
                             [user |-> u, expires |-> now + ReviewTtl]]
    /\ pending' = [Kept EXCEPT ![t].cookie = k]
    /\ opened' = opened \union {[ticket |-> t, user |-> u, cookie |-> k]}
    /\ registered' = KeptPreviews
    /\ spent' = spent \ Expired
    /\ UNCHANGED <<now, call, audit, issued, journal, answers>>

(* POST, from a session whose token the user has: it must be the one that   *)
(* last opened this ticket.                                                 *)
Bound(u, k, t) == /\ KeptSessions[k] # None /\ KeptSessions[k].user = u
                  /\ Kept[t].cookie = k
Audit(u, t, decision) ==
    audit' = audit \union {[ticket |-> t, user |-> u, decision |-> decision,
                            review |-> registered[t].request]}

Approve(u, k, t) ==
    /\ Reviewable(u, t)
    /\ Bound(u, k, t)
    /\ Audit(u, t, "approve")
    /\ pending' = [Kept EXCEPT ![t].state = "approved"]
    /\ registered' = KeptPreviews
    /\ sessions' = KeptSessions
    /\ spent' = spent \ Expired
    /\ UNCHANGED <<now, call, issued, opened, journal, answers>>

(* Mutant: a rejected preview stays with the coordinator.                   *)
RejectKeeping(u, k, t) ==
    /\ Reviewable(u, t)
    /\ Bound(u, k, t)
    /\ Audit(u, t, "reject")
    /\ pending' = [Kept EXCEPT ![t].state = "rejected"]
    /\ registered' = KeptPreviews
    /\ sessions' = KeptSessions
    /\ spent' = spent \ Expired
    /\ UNCHANGED <<now, call, issued, opened, journal, answers>>

Reject(u, k, t) ==
    /\ Reviewable(u, t)
    /\ Bound(u, k, t)
    /\ Audit(u, t, "reject")
    /\ pending' = [Kept EXCEPT ![t].state = "rejected"]
    /\ registered' = [KeptPreviews EXCEPT ![t] = None]
    /\ sessions' = KeptSessions
    /\ spent' = spent \ Expired
    /\ UNCHANGED <<now, call, issued, opened, journal, answers>>

(* The server dies; what it kept in memory is gone.                         *)
Restart ==
    /\ pending' = [t \in Tickets |-> None]
    /\ sessions' = [k \in Cookies |-> None]
    /\ registered' = [t \in Tickets |-> None]
    /\ spent' = {} /\ call' = None
    /\ UNCHANGED <<now, audit, issued, opened, journal, answers>>

SurfaceNext ==
    \/ Tick \/ Prune \/ Check \/ WriteJournal \/ Return \/ Fail \/ Restart
    \/ \E c \in Clients, t \in Tickets :
          \/ Apply(c, t)
          \/ \E r \in Requests : Preview(c, r, t)
    \/ \E u \in Users, k \in Cookies, t \in Tickets :
          Open(u, k, t) \/ Approve(u, k, t) \/ Reject(u, k, t)

SurfaceTypeOK ==
    /\ now \in 0 .. MaxTime
    /\ pending \in [Tickets -> Entry \union {None}]
    /\ sessions \in [Cookies -> Session \union {None}]
    /\ registered \in [Tickets -> Registered \union {None}]
    /\ spent \subseteq Tickets
    /\ call \in Call \union {None}
    /\ audit \subseteq [ticket: Tickets, user: Users, decision: {"approve", "reject"},
                        review: Requests]
    /\ issued \subseteq [ticket: Tickets, client: Clients, request: Requests]
    /\ opened \subseteq [ticket: Tickets, user: Users, cookie: Cookies]

(* No write without its review: whatever the surface committed was approved *)
(* and not rejected by the browser user the client's grant names, from a    *)
(* page that showed that ticket to that user, for exactly that request, and *)
(* the approval is on file.                                                 *)
WritesReviewed ==
    \A i \in issued : RowsBy(i.ticket) # {} =>
        /\ \E a \in audit, o \in opened :
              /\ a.ticket = i.ticket /\ o.ticket = i.ticket
              /\ a.user = Grants[i.client].user /\ o.user = a.user
              /\ a.decision = "approve" /\ a.review = i.request
        /\ ~\E a \in audit : a.ticket = i.ticket /\ a.decision = "reject"
        /\ \A p \in RowsBy(i.ticket) : journal[p[1]][p[2]].request = i.request

(* The two books agree: a coordinator holds the preview of a ticket exactly *)
(* while the ticket can still be applied or is being applied, so none is    *)
(* applicable without a preview and none is left behind.                    *)
PreviewsAccounted ==
    \A t \in Tickets :
        (registered[t] # None \/ t \in spent)
            <=> (pending[t] # None /\ pending[t].state \in {"awaiting", "approved", "consumed"})
================================================================================
