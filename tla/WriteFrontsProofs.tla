--------------------------- MODULE WriteFrontsProofs ---------------------------
(***************************************************************************)
(* Proofs about the two write fronts over the same journals, for any        *)
(* clients, grants, tickets, cookies, handles and lifetimes.                *)
(***************************************************************************)
EXTENDS WriteFronts, FiniteSetTheorems, TLAPS

--------------------------------------------------------------------------------
(* The rows of a preview in given journals: <<kind, position>>.             *)
Rows(journals, id) ==
    {p \in Kinds \X Nat : p[2] \in 1 .. Len(journals[p[1]])
                          /\ journals[p[1]][p[2]].by = id}

Row == [request: Requests, by: Tickets \union Handles]

(* What the surface knows of a pending ticket.                              *)
Confirmed(t, client, request, audits, pages) ==
    /\ \E a \in audits, o \in pages :
          /\ a.ticket = t /\ o.ticket = t
          /\ a.user = Grants[client].user /\ o.user = a.user
          /\ a.decision = "approve" /\ a.review = request
    /\ ~\E a \in audits : a.ticket = t /\ a.decision = "reject"

EntryHolds(t, e, issues, audits, pages, rows) ==
    e # None =>
        /\ [ticket |-> t, client |-> e.client, request |-> e.request] \in issues
        /\ e.cookie # None =>
              [ticket |-> t, user |-> Grants[e.client].user, cookie |-> e.cookie] \in pages
        /\ e.state = "awaiting" => \A a \in audits : a.ticket # t
        /\ e.state \in {"approved", "consumed", "applied", "failed"} =>
              Confirmed(t, e.client, e.request, audits, pages)
        /\ e.state \in {"awaiting", "approved"} => rows = {}

(* Which books have a ticket: the surface's entry e, the coordinator's      *)
(* preview v, the spent ones and the call.                                  *)
BooksAgree(t, e, v, used, c) ==
    /\ e # None /\ e.state = "consumed" <=> c # None /\ c.ticket = t
    /\ v # None <=> /\ e # None
                    /\ \/ e.state \in {"awaiting", "approved"}
                       \/ e.state = "consumed" /\ c.at = "routed"
    /\ t \in used <=> c # None /\ c.ticket = t /\ c.at \in {"checked", "written"}
    /\ v # None => v.request = e.request

(* The rows of a ticket whose apply holds the lock.                         *)
CallHolds(t, c, rows) ==
    c # None /\ c.ticket = t =>
        /\ c.at \in {"routed", "checked"} => rows = {}
        /\ c.at = "written" => rows # {}

TicketHolds(t) ==
    /\ EntryHolds(t, pending[t], issued, audit, opened, Rows(journal, t))
    /\ BooksAgree(t, pending[t], registered[t], spent, call)
    /\ CallHolds(t, call, Rows(journal, t))

(* Each ticket is issued once, and nothing is known of one that is not.     *)
IssuedOnce ==
    /\ \A i, j \in issued : i.ticket = j.ticket => i = j
    /\ \A t \in Tickets : (\A i \in issued : i.ticket # t) =>
           /\ \A a \in audit : a.ticket # t
           /\ Rows(journal, t) = {}

(* A written ticket was confirmed, and its row is what was asked for.       *)
WrittenReviewed ==
    \A i \in issued : Rows(journal, i.ticket) # {} =>
        /\ Confirmed(i.ticket, i.client, i.request, audit, opened)
        /\ \A p \in Rows(journal, i.ticket) : journal[p[1]][p[2]].request = i.request

(* The rows of a handle, by what its file f and the apply w say.            *)
FileHolds(h, f, w, journals) ==
    LET rows == Rows(journals, h) IN
    /\ f = NoFile => rows = {}
    /\ f # NoFile =>
          /\ f.base <= Len(journals[KindOf[f.request]])
          /\ f.at = "draft" => rows = {}
          /\ f.at = "applied" => rows # {}
          /\ f.at = "pending" /\ rows # {} => f.base < Len(journals[KindOf[f.request]])
          /\ \A p \in rows : p[1] = KindOf[f.request]
    /\ w # Idle /\ w.handle = h =>
          /\ f # NoFile
          /\ w.at = "checked" => f.at = "pending" /\ rows = {}
          /\ w.at = "written" => f.at = "pending" /\ rows # {}
          /\ w.at = "moved" => f.at = "applied"

(* A preview is written once, and a row is in the journal of its kind.      *)
WrittenOnce ==
    /\ \A id \in Tickets \union Handles : \A p, q \in Rows(journal, id) : p = q
    /\ \A k \in Kinds : \A n \in DOMAIN journal[k] : KindOf[journal[k][n].request] = k

AnswersHold ==
    \A a \in answers : \E p \in Rows(journal, a.by) :
        ~a.matches => p[2] < Len(journal[p[1]])

IInv ==
    /\ TypeOK
    /\ \A t \in Tickets : TicketHolds(t)
    /\ IssuedOnce
    /\ WrittenReviewed
    /\ \A h \in Handles : FileHolds(h, files[h], apply, journal)
    /\ WrittenOnce
    /\ AnswersHold

--------------------------------------------------------------------------------
(* The journals.                                                            *)
LEMMA RowsAreRowsBy ==
    ASSUME TypeOK, NEW id
    PROVE  RowsBy(id) = Rows(journal, id)
<1>. DEFINE a == Len(journal["knowledge"])
            b == Len(journal["portfolio"])
<1>1. /\ journal["knowledge"] \in Seq(Row) /\ journal["portfolio"] \in Seq(Row)
  BY DEF TypeOK, Row, Kinds
<1>2. a \in Nat /\ b \in Nat
  BY <1>1
<1>3. RowsBy(id) = {p \in Kinds \X (1 .. a + b) :
                        p[2] <= Len(journal[p[1]]) /\ journal[p[1]][p[2]].by = id}
  BY DEF RowsBy, Version
<1>4. \A k \in Kinds : Len(journal[k]) = a \/ Len(journal[k]) = b
  BY DEF Kinds
<1>. HIDE DEF a, b
<1>5. ASSUME NEW k \in Kinds, NEW n \in Nat
      PROVE  n \in 1 .. Len(journal[k]) <=> n \in 1 .. a + b /\ n <= Len(journal[k])
  BY <1>2, <1>4
<1>6. 1 .. a + b \subseteq Nat
  BY <1>2
<1>7. \A k \in Kinds, n \in Nat : <<k, n>> \in RowsBy(id) <=> <<k, n>> \in Rows(journal, id)
  BY <1>3, <1>5 DEF Rows
<1>8. RowsBy(id) \subseteq Kinds \X Nat /\ Rows(journal, id) \subseteq Kinds \X Nat
  BY <1>3, <1>6 DEF Rows
<1>. QED
  BY <1>7, <1>8

(* A commit adds one row, the last of its kind, to its preview's.           *)
LEMMA CommitRows ==
    ASSUME journal \in [Kinds -> Seq(Row)], NEW r \in Requests,
           NEW id \in Tickets \union Handles, Commit(r, id)
    PROVE  /\ journal' \in [Kinds -> Seq(Row)]
           /\ \A k \in Kinds : /\ Len(journal[k]) \in Nat /\ Len(journal'[k]) \in Nat
                               /\ Len(journal[k]) <= Len(journal'[k])
                               /\ k # KindOf[r] => journal'[k] = journal[k]
                               /\ \A n \in 1 .. Len(journal[k]) : journal'[k][n] = journal[k][n]
           /\ KindOf[r] \in Kinds
           /\ Len(journal'[KindOf[r]]) = Len(journal[KindOf[r]]) + 1
           /\ journal'[KindOf[r]][Len(journal[KindOf[r]]) + 1] = [request |-> r, by |-> id]
           /\ \A x : x # id => Rows(journal', x) = Rows(journal, x)
           /\ Rows(journal', id)
                  = Rows(journal, id) \union {<<KindOf[r], Len(journal[KindOf[r]]) + 1>>}
<1>. DEFINE kind == KindOf[r]
            row == [request |-> r, by |-> id]
<1>1. kind \in Kinds
  BY RequestsAssumption
<1>2. row \in Row
  BY DEF Row
<1>3. journal' = [journal EXCEPT ![kind] = Append(journal[kind], row)]
  BY DEF Commit
<1>4. row.by = id
  OBVIOUS
<1>. HIDE DEF kind, row
<1>5. /\ journal[kind] \in Seq(Row)
      /\ Append(journal[kind], row) \in Seq(Row)
      /\ Len(Append(journal[kind], row)) = Len(journal[kind]) + 1
      /\ Append(journal[kind], row)[Len(journal[kind]) + 1] = row
      /\ \A n \in 1 .. Len(journal[kind]) : Append(journal[kind], row)[n] = journal[kind][n]
      /\ Len(journal[kind]) \in Nat
  BY <1>1, <1>2
<1>6. /\ journal' \in [Kinds -> Seq(Row)]
      /\ journal'[kind] = Append(journal[kind], row)
      /\ \A k \in Kinds : k # kind => journal'[k] = journal[k]
  BY <1>1, <1>3, <1>5
<1>7. \A k \in Kinds : /\ Len(journal[k]) \in Nat /\ Len(journal'[k]) \in Nat
                       /\ Len(journal[k]) <= Len(journal'[k])
                       /\ \A n \in 1 .. Len(journal[k]) : journal'[k][n] = journal[k][n]
  <2>. TAKE k \in Kinds
  <2>1. journal[k] \in Seq(Row) /\ Len(journal[k]) \in Nat
    OBVIOUS
  <2>2. CASE k = kind
    BY <1>5, <1>6, <2>2
  <2>3. CASE k # kind
    BY <1>6, <2>1, <2>3
  <2>. QED
    BY <2>2, <2>3
<1>8. ASSUME NEW x, NEW p \in Kinds \X Nat
      PROVE  p \in Rows(journal', x)
                 <=> p \in Rows(journal, x) \/ (x = id /\ p = <<kind, Len(journal[kind]) + 1>>)
  <2>1. PICK k \in Kinds, n \in Nat : p = <<k, n>>
    OBVIOUS
  <2>. HIDE DEF kind
  <2>2. /\ p \in Rows(journal', x) <=> n \in 1 .. Len(journal'[k]) /\ journal'[k][n].by = x
        /\ p \in Rows(journal, x) <=> n \in 1 .. Len(journal[k]) /\ journal[k][n].by = x
    BY <2>1 DEF Rows
  <2>3. CASE k # kind
    BY <1>6, <2>1, <2>2, <2>3
  <2>4. CASE k = kind
    <3>1. n \in 1 .. Len(journal'[k]) <=> n \in 1 .. Len(journal[k]) \/ n = Len(journal[kind]) + 1
      BY <1>5, <1>6, <2>4
    <3>2. CASE n \in 1 .. Len(journal[k])
      <4>1. journal'[k][n] = journal[k][n] /\ n \in 1 .. Len(journal'[k])
        BY <1>5, <1>6, <2>4, <3>1, <3>2
      <4>2. n # Len(journal[kind]) + 1
        BY <1>5, <2>4, <3>2
      <4>3. p # <<kind, Len(journal[kind]) + 1>>
        BY <2>1, <4>2
      <4>. QED
        BY <2>2, <3>2, <4>1, <4>3
    <3>3. CASE n = Len(journal[kind]) + 1
      BY <1>4, <1>5, <1>6, <2>1, <2>2, <2>4, <3>1, <3>3
    <3>. QED
      BY <2>1, <2>2, <2>4, <3>1, <3>2, <3>3
  <2>. QED
    BY <2>3, <2>4
<1>9. \A x : Rows(journal', x) \subseteq Kinds \X Nat /\ Rows(journal, x) \subseteq Kinds \X Nat
  BY DEF Rows
<1>10. <<kind, Len(journal[kind]) + 1>> \in Kinds \X Nat
  BY <1>1, <1>5
<1>11. \A x : x # id => Rows(journal', x) = Rows(journal, x)
  <2>1. ASSUME NEW x, x # id
        PROVE  Rows(journal', x) = Rows(journal, x)
    <3>1. \A p \in Kinds \X Nat : p \in Rows(journal', x) <=> p \in Rows(journal, x)
      BY <1>8, <2>1
    <3>2. Rows(journal', x) \subseteq Kinds \X Nat /\ Rows(journal, x) \subseteq Kinds \X Nat
      BY <1>9
    <3>. QED
      BY <3>1, <3>2
  <2>. QED
    BY <2>1
<1>12. Rows(journal', id) = Rows(journal, id) \union {<<kind, Len(journal[kind]) + 1>>}
  BY <1>8, <1>9, <1>10
<1>. QED
  BY <1>1, <1>5, <1>6, <1>7, <1>11, <1>12 DEF kind, row

LEMMA JournalTyped ==
    ASSUME TypeOK
    PROVE  /\ journal \in [Kinds -> Seq(Row)]
           /\ \A k \in Kinds : Len(journal[k]) \in Nat /\ Version(k) = Len(journal[k])
<1>1. journal \in [Kinds -> Seq(Row)]
  BY DEF TypeOK, Row
<1>. QED
  BY <1>1 DEF Version

--------------------------------------------------------------------------------
(* Pruning.  What is kept agrees with what was there.                       *)
LEMMA KeptTyped ==
    ASSUME SurfaceTypeOK
    PROVE  /\ Kept \in [Tickets -> Entry \union {None}]
           /\ KeptPreviews \in [Tickets -> Registered \union {None}]
           /\ KeptSessions \in [Cookies -> Session \union {None}]
           /\ \A t \in Tickets :
                  \/ Kept[t] = None /\ KeptPreviews[t] = None
                  \/ Kept[t] = pending[t] /\ KeptPreviews[t] = registered[t]
  BY DEF SurfaceTypeOK, Kept, KeptPreviews, KeptSessions, Without

LEMMA PrunedHolds ==
    ASSUME IInv, call = None, NEW t \in Tickets
    PROVE  /\ EntryHolds(t, Kept[t], issued, audit, opened, Rows(journal, t))
           /\ BooksAgree(t, Kept[t], KeptPreviews[t], spent \ Expired, None)
           /\ t \notin spent
<1>1. TicketHolds(t) /\ SurfaceTypeOK
  BY DEF IInv, TypeOK
<1>2. CASE Kept[t] = None /\ KeptPreviews[t] = None
  BY <1>1, <1>2 DEF TicketHolds, EntryHolds, BooksAgree
<1>3. CASE Kept[t] = pending[t] /\ KeptPreviews[t] = registered[t]
  BY <1>1, <1>3 DEF TicketHolds, BooksAgree
<1>. QED
  BY <1>1, <1>2, <1>3, KeptTyped

(* More pages and audits take nothing from what is confirmed.               *)
LEMMA ConfirmedStays ==
    ASSUME NEW t, NEW client, NEW request, NEW audits, NEW more, NEW pages, NEW newer,
           Confirmed(t, client, request, audits, pages),
           audits \subseteq more, pages \subseteq newer,
           \A a \in more \ audits : a.ticket # t
    PROVE  Confirmed(t, client, request, more, newer)
  BY DEF Confirmed

LEMMA EntryStays ==
    ASSUME NEW t, NEW e, NEW issues, NEW later, NEW audits, NEW more, NEW pages, NEW newer,
           NEW rows, EntryHolds(t, e, issues, audits, pages, rows),
           issues \subseteq later, audits \subseteq more, pages \subseteq newer,
           \A a \in more \ audits : a.ticket # t
    PROVE  EntryHolds(t, e, later, more, newer, rows)
<1>1. e.state = "awaiting" /\ (\A a \in audits : a.ticket # t) => \A a \in more : a.ticket # t
  OBVIOUS
<1>2. Confirmed(t, e.client, e.request, audits, pages)
          => Confirmed(t, e.client, e.request, more, newer)
  BY ConfirmedStays
<1>. QED
  BY <1>1, <1>2 DEF EntryHolds

--------------------------------------------------------------------------------
(* A step of the surface that writes nothing: what it makes of each ticket  *)
(* has to hold, and who it audits is not written.                           *)
LEMMA SurfaceStep ==
    ASSUME IInv, SurfaceTypeOK', UNCHANGED <<journal, answers, issued, bridgeVars>>,
           audit \subseteq audit', opened \subseteq opened',
           \A a \in audit' \ audit : /\ Rows(journal, a.ticket) = {}
                                     /\ \E i \in issued : i.ticket = a.ticket,
           \A t \in Tickets :
               /\ EntryHolds(t, pending'[t], issued, audit', opened', Rows(journal, t))
               /\ BooksAgree(t, pending'[t], registered'[t], spent', call')
               /\ CallHolds(t, call', Rows(journal, t))
    PROVE  IInv'
<1>1. TypeOK'
  BY DEF IInv, TypeOK, BridgeTypeOK, bridgeVars
<1>2. \A t \in Tickets : TicketHolds(t)'
  BY DEF TicketHolds
<1>3. IssuedOnce'
  <2>1. ASSUME NEW t \in Tickets, \A i \in issued : i.ticket # t
        PROVE  (\A a \in audit' : a.ticket # t) /\ Rows(journal, t) = {}
    <3>1. (\A a \in audit : a.ticket # t) /\ Rows(journal, t) = {}
      BY <2>1 DEF IInv, IssuedOnce
    <3>. QED
      BY <2>1, <3>1
  <2>. QED
    BY <2>1 DEF IInv, IssuedOnce
<1>4. WrittenReviewed'
  <2>1. ASSUME NEW i \in issued, Rows(journal, i.ticket) # {}
        PROVE  /\ Confirmed(i.ticket, i.client, i.request, audit', opened')
               /\ \A p \in Rows(journal, i.ticket) : journal[p[1]][p[2]].request = i.request
    <3>1. /\ Confirmed(i.ticket, i.client, i.request, audit, opened)
          /\ \A p \in Rows(journal, i.ticket) : journal[p[1]][p[2]].request = i.request
      BY <2>1 DEF IInv, WrittenReviewed
    <3>2. \A a \in audit' \ audit : a.ticket # i.ticket
      BY <2>1
    <3>. QED
      BY <3>1, <3>2, ConfirmedStays
  <2>. QED
    BY <2>1 DEF WrittenReviewed
<1>5. (\A h \in Handles : FileHolds(h, files[h], apply, journal))'
  BY DEF IInv, bridgeVars
<1>6. WrittenOnce' /\ AnswersHold'
  BY DEF IInv, WrittenOnce, AnswersHold
<1>. QED
  BY <1>1, <1>2, <1>3, <1>4, <1>5, <1>6 DEF IInv

(* A step that changes no ticket and no book besides pruning.               *)
LEMMA TickKeeps ==
    ASSUME IInv, Tick, UNCHANGED bridgeVars
    PROVE  IInv'
<1>1. SurfaceTypeOK'
  BY GrantsAssumption DEF IInv, TypeOK, SurfaceTypeOK, Tick
<1>2. ASSUME NEW t \in Tickets
      PROVE  /\ EntryHolds(t, pending'[t], issued, audit', opened', Rows(journal, t))
             /\ BooksAgree(t, pending'[t], registered'[t], spent', call')
             /\ CallHolds(t, call', Rows(journal, t))
  BY DEF IInv, TicketHolds, Tick
<1>. QED
  BY <1>1, <1>2, SurfaceStep DEF Tick

LEMMA RestartKeeps ==
    ASSUME IInv, Restart, UNCHANGED bridgeVars
    PROVE  IInv'
<1>1. SurfaceTypeOK'
  BY DEF IInv, TypeOK, SurfaceTypeOK, Restart
<1>2. ASSUME NEW t \in Tickets
      PROVE  /\ EntryHolds(t, pending'[t], issued, audit', opened', Rows(journal, t))
             /\ BooksAgree(t, pending'[t], registered'[t], spent', call')
             /\ CallHolds(t, call', Rows(journal, t))
  BY DEF Restart, EntryHolds, BooksAgree, CallHolds
<1>. QED
  BY <1>1, <1>2, SurfaceStep DEF Restart

LEMMA PruneKeeps ==
    ASSUME IInv, Prune, UNCHANGED bridgeVars
    PROVE  IInv'
<1>1. SurfaceTypeOK'
  BY KeptTyped DEF IInv, TypeOK, SurfaceTypeOK, Prune
<1>2. ASSUME NEW t \in Tickets
      PROVE  /\ EntryHolds(t, pending'[t], issued, audit', opened', Rows(journal, t))
             /\ BooksAgree(t, pending'[t], registered'[t], spent', call')
             /\ CallHolds(t, call', Rows(journal, t))
  <2>1. /\ call = None /\ call' = None /\ pending' = Kept /\ registered' = KeptPreviews
        /\ spent' = spent \ Expired /\ audit' = audit /\ opened' = opened
    BY DEF Prune
  <2>. QED
    BY <2>1, PrunedHolds DEF CallHolds
<1>. QED
  BY <1>1, <1>2, SurfaceStep DEF Prune

(* A call about another ticket.                                             *)
LEMMA OtherCalls ==
    ASSUME NEW t, NEW e, NEW v, NEW used, NEW more, NEW c, NEW d,
           BooksAgree(t, e, v, used, c), t \in more <=> t \in used,
           c # None => c.ticket # t, d # None => d.ticket # t
    PROVE  BooksAgree(t, e, v, more, d)
  BY DEF BooksAgree

LEMMA OthersKept ==
    ASSUME IInv, call = None, NEW t \in Tickets, NEW c, c # None => c.ticket # t,
           NEW e, e = Kept[t], NEW v, v = KeptPreviews[t], NEW s, s = spent \ Expired,
           NEW audits, audit \subseteq audits, \A a \in audits \ audit : a.ticket # t,
           NEW pages, opened \subseteq pages
    PROVE  /\ EntryHolds(t, e, issued, audits, pages, Rows(journal, t))
           /\ BooksAgree(t, e, v, s, c)
           /\ CallHolds(t, c, Rows(journal, t))
<1>1. /\ EntryHolds(t, e, issued, audit, opened, Rows(journal, t))
      /\ BooksAgree(t, e, v, s, None)
  BY PrunedHolds
<1>2. EntryHolds(t, e, issued, audits, pages, Rows(journal, t))
  BY <1>1, EntryStays
<1>3. BooksAgree(t, e, v, s, c)
  BY <1>1, OtherCalls
<1>. QED
  BY <1>2, <1>3 DEF CallHolds

LEMMA KeptEntry ==
    ASSUME SurfaceTypeOK, NEW t \in Tickets, Kept[t] # None
    PROVE  Kept[t] \in Entry /\ Kept[t] = pending[t] /\ KeptPreviews[t] = registered[t]
  BY KeptTyped

LEMMA EntryNone ==
    ASSUME NEW e \in Entry
    PROVE  e # None /\ e.state \in States /\ e.request \in Requests /\ e.client \in Clients
  BY NoneAssumption DEF Entry

LEMMA ApplyKeeps ==
    ASSUME IInv, NEW c \in Clients, NEW t \in Tickets, Apply(c, t), UNCHANGED bridgeVars
    PROVE  IInv'
<1>. DEFINE e == [Kept[t] EXCEPT !.state = "consumed"]
            k == [ticket |-> t, base |-> 0, at |-> "routed"]
<1>1. /\ call = None /\ call' = k /\ Kept[t] # None /\ Kept[t].state = "approved"
      /\ registered' = KeptPreviews /\ spent' = spent \ Expired /\ sessions' = KeptSessions
      /\ UNCHANGED <<now, audit, issued, opened, journal, answers>>
  BY DEF Apply, Applicable
<1>2. SurfaceTypeOK /\ Kept[t] \in Entry
  BY <1>1, KeptEntry DEF IInv, TypeOK
<1>3. /\ e \in Entry /\ e.state = "consumed"
      /\ e.client = Kept[t].client /\ e.request = Kept[t].request /\ e.cookie = Kept[t].cookie
  BY <1>2 DEF Entry, States
<1>4. k \in Call /\ k # None /\ k.ticket = t /\ k.at = "routed"
  BY NoneAssumption DEF Call
<1>5. pending' = [Kept EXCEPT ![t] = e]
  BY <1>1, <1>2, KeptTyped DEF Apply
<1>. HIDE DEF e, k
<1>6. /\ pending' \in [Tickets -> Entry \union {None}] /\ pending'[t] = e
      /\ \A x \in Tickets \ {t} : pending'[x] = Kept[x]
  BY <1>2, <1>3, <1>5, KeptTyped
<1>7. SurfaceTypeOK'
  BY <1>1, <1>2, <1>4, <1>6, KeptTyped DEF SurfaceTypeOK
<1>8. ASSUME NEW x \in Tickets
      PROVE  /\ EntryHolds(x, pending'[x], issued, audit', opened', Rows(journal, x))
             /\ BooksAgree(x, pending'[x], registered'[x], spent', call')
             /\ CallHolds(x, call', Rows(journal, x))
  <2>1. CASE x # t
    BY <1>1, <1>4, <1>6, <2>1, OthersKept
  <2>2. CASE x = t
    <3>1. /\ EntryHolds(t, Kept[t], issued, audit, opened, Rows(journal, t))
          /\ BooksAgree(t, Kept[t], KeptPreviews[t], spent \ Expired, None)
          /\ t \notin spent
      BY <1>1, PrunedHolds
    <3>2. EntryHolds(t, e, issued, audit, opened, Rows(journal, t)) /\ Rows(journal, t) = {}
      BY <1>1, <1>2, <1>3, <3>1, EntryNone DEF EntryHolds
    <3>3. BooksAgree(t, e, KeptPreviews[t], spent \ Expired, k)
      BY <1>1, <1>3, <1>4, <3>1, EntryNone DEF BooksAgree
    <3>4. CallHolds(t, k, Rows(journal, t))
      BY <1>4, <3>2 DEF CallHolds
    <3>. QED
      BY <1>1, <1>6, <2>2, <3>2, <3>3, <3>4
  <2>. QED
    BY <2>1, <2>2
<1>. QED
  BY <1>1, <1>7, <1>8, SurfaceStep

(* What a call in progress says of its ticket.                              *)
LEMMA CallEntry ==
    ASSUME IInv, call # None
    PROVE  /\ call \in Call /\ call.ticket \in Tickets
           /\ pending[call.ticket] \in Entry /\ pending[call.ticket].state = "consumed"
           /\ Confirmed(call.ticket, pending[call.ticket].client, pending[call.ticket].request,
                        audit, opened)
           /\ [ticket |-> call.ticket, client |-> pending[call.ticket].client,
               request |-> pending[call.ticket].request] \in issued
           /\ TicketHolds(call.ticket)
<1>1. call \in Call /\ call.ticket \in Tickets
  BY DEF IInv, TypeOK, SurfaceTypeOK, Call
<1>2. TicketHolds(call.ticket)
  BY <1>1 DEF IInv
<1>3. pending[call.ticket] # None /\ pending[call.ticket].state = "consumed"
  BY <1>2 DEF TicketHolds, BooksAgree
<1>4. pending[call.ticket] \in Entry
  BY <1>1, <1>3 DEF IInv, TypeOK, SurfaceTypeOK
<1>. QED
  BY <1>1, <1>2, <1>3, <1>4 DEF TicketHolds, EntryHolds

LEMMA CheckKeeps ==
    ASSUME IInv, Check, UNCHANGED bridgeVars
    PROVE  IInv'
<1>. DEFINE t == call.ticket
            k == [call EXCEPT !.at = "checked", !.base = registered[t].base]
<1>1. /\ call # None /\ call.at = "routed" /\ call' = k
      /\ registered' = [registered EXCEPT ![t] = None] /\ spent' = spent \union {t}
      /\ UNCHANGED <<now, pending, sessions, audit, issued, opened, journal, answers>>
  BY DEF Check
<1>2. /\ call \in Call /\ t \in Tickets /\ pending[t] \in Entry /\ pending[t].state = "consumed"
      /\ TicketHolds(t)
  BY <1>1, CallEntry
<1>3. registered[t] \in Registered
  BY <1>1, <1>2, EntryNone DEF IInv, TypeOK, SurfaceTypeOK, TicketHolds, BooksAgree
<1>4. k \in Call /\ k.ticket = t /\ k.at = "checked" /\ k # None
  <2>1. registered[t].base \in Nat
    BY <1>3 DEF Registered
  <2>2. k \in Call /\ k.ticket = t /\ k.at = "checked"
    BY <1>2, <2>1 DEF Call
  <2>. QED
    BY <2>2, NoneAssumption
<1>. HIDE DEF k, t
<1>5. /\ registered' \in [Tickets -> Registered \union {None}] /\ registered'[t] = None
      /\ \A x \in Tickets \ {t} : registered'[x] = registered[x]
  BY <1>1, <1>2 DEF IInv, TypeOK, SurfaceTypeOK
<1>6. SurfaceTypeOK'
  BY <1>1, <1>2, <1>4, <1>5 DEF IInv, TypeOK, SurfaceTypeOK
<1>7. ASSUME NEW x \in Tickets
      PROVE  /\ EntryHolds(x, pending'[x], issued, audit', opened', Rows(journal, x))
             /\ BooksAgree(x, pending'[x], registered'[x], spent', call')
             /\ CallHolds(x, call', Rows(journal, x))
  <2>1. TicketHolds(x)
    BY DEF IInv
  <2>2. CASE x # t
    <3>1. x \in spent' <=> x \in spent
      BY <1>1, <2>2
    <3>2. BooksAgree(x, pending[x], registered[x], spent', k)
      BY <1>4, <2>1, <2>2, <3>1, OtherCalls DEF TicketHolds, t
    <3>3. pending'[x] = pending[x] /\ registered'[x] = registered[x]
      BY <1>1, <1>5, <2>2
    <3>4. BooksAgree(x, pending'[x], registered'[x], spent', call')
      BY <1>1, <3>2, <3>3
    <3>5. CallHolds(x, call', Rows(journal, x))
      BY <1>1, <1>4, <2>2 DEF CallHolds
    <3>. QED
      BY <1>1, <2>1, <3>3, <3>4, <3>5 DEF TicketHolds
  <2>3. CASE x = t
    <3>1. Rows(journal, t) = {}
      BY <1>1, <1>2 DEF TicketHolds, CallHolds, t
    <3>2. t \in spent'
      BY <1>1
    <3>3. BooksAgree(t, pending[t], None, spent', k)
      BY <1>2, <1>4, <3>2, EntryNone DEF BooksAgree
    <3>4. BooksAgree(t, pending'[t], registered'[t], spent', call')
      BY <1>1, <1>5, <3>3
    <3>5. CallHolds(t, call', Rows(journal, t))
      BY <1>1, <1>4, <3>1 DEF CallHolds
    <3>6. EntryHolds(t, pending'[t], issued, audit', opened', Rows(journal, t))
      BY <1>1, <1>2 DEF TicketHolds
    <3>. QED
      BY <2>3, <3>4, <3>5, <3>6
  <2>. QED
    BY <2>2, <2>3
<1>. QED
  BY <1>1, <1>6, <1>7, SurfaceStep

(* The books when a call ends.                                              *)
LEMMA ReleaseHolds ==
    ASSUME IInv, call # None, NEW state \in {"applied", "failed"}, Release(state)
    PROVE  /\ SurfaceTypeOK'
           /\ UNCHANGED <<audit, issued, opened, journal>>
           /\ \A x \in Tickets :
               /\ EntryHolds(x, pending'[x], issued, audit', opened', Rows(journal, x))
               /\ BooksAgree(x, pending'[x], registered'[x], spent', call')
               /\ CallHolds(x, call', Rows(journal, x))
<1>. DEFINE t == call.ticket
            e == [pending[t] EXCEPT !.state = state]
<1>1. /\ pending' = [pending EXCEPT ![t] = e] /\ registered' = [registered EXCEPT ![t] = None]
      /\ spent' = spent \ {t} /\ call' = None
      /\ UNCHANGED <<now, sessions, audit, issued, opened, journal>>
  BY DEF Release, IInv, TypeOK, SurfaceTypeOK
<1>2. /\ t \in Tickets /\ pending[t] \in Entry /\ pending[t].state = "consumed"
      /\ TicketHolds(t)
  BY CallEntry
<1>3. /\ e \in Entry /\ e.state = state
      /\ e.client = pending[t].client /\ e.request = pending[t].request
      /\ e.cookie = pending[t].cookie
  BY <1>2 DEF Entry, States
<1>. HIDE DEF e
<1>4. /\ pending' \in [Tickets -> Entry \union {None}] /\ pending'[t] = e
      /\ registered' \in [Tickets -> Registered \union {None}] /\ registered'[t] = None
      /\ \A x \in Tickets \ {t} : pending'[x] = pending[x] /\ registered'[x] = registered[x]
  BY <1>1, <1>2, <1>3 DEF IInv, TypeOK, SurfaceTypeOK
<1>5. SurfaceTypeOK'
  BY <1>1, <1>4 DEF IInv, TypeOK, SurfaceTypeOK
<1>6. ASSUME NEW x \in Tickets
      PROVE  /\ EntryHolds(x, pending'[x], issued, audit', opened', Rows(journal, x))
             /\ BooksAgree(x, pending'[x], registered'[x], spent', call')
             /\ CallHolds(x, call', Rows(journal, x))
  <2>1. TicketHolds(x)
    BY DEF IInv
  <2>2. CallHolds(x, call', Rows(journal, x))
    BY <1>1 DEF CallHolds
  <2>3. CASE x # t
    <3>1. x \in spent' <=> x \in spent
      BY <1>1, <2>3
    <3>2. BooksAgree(x, pending[x], registered[x], spent', None)
      BY <2>1, <2>3, <3>1, OtherCalls DEF TicketHolds
    <3>3. pending'[x] = pending[x] /\ registered'[x] = registered[x]
      BY <1>4, <2>3
    <3>. QED
      BY <1>1, <2>1, <2>2, <3>2, <3>3 DEF TicketHolds
  <2>4. CASE x = t
    <3>1. t \notin spent'
      BY <1>1
    <3>2. BooksAgree(t, e, None, spent', None)
      BY <1>3, <3>1 DEF BooksAgree
    <3>3. EntryHolds(t, e, issued, audit, opened, Rows(journal, t))
      BY <1>2, <1>3, EntryNone DEF TicketHolds, EntryHolds
    <3>. QED
      BY <1>1, <1>4, <2>2, <2>4, <3>2, <3>3
  <2>. QED
    BY <2>3, <2>4
<1>. QED
  BY <1>1, <1>5, <1>6

LEMMA FailKeeps ==
    ASSUME IInv, Fail, UNCHANGED bridgeVars
    PROVE  IInv'
<1>1. /\ SurfaceTypeOK'
      /\ UNCHANGED <<audit, issued, opened, journal>>
      /\ \A x \in Tickets :
          /\ EntryHolds(x, pending'[x], issued, audit', opened', Rows(journal, x))
          /\ BooksAgree(x, pending'[x], registered'[x], spent', call')
          /\ CallHolds(x, call', Rows(journal, x))
  BY ReleaseHolds DEF Fail
<1>. QED
  BY <1>1, SurfaceStep DEF Fail

(* The ticket of a page or a decision.                                      *)
LEMMA ReviewableEntry ==
    ASSUME IInv, NEW u \in Users, NEW t \in Tickets, Reviewable(u, t)
    PROVE  /\ call = None
           /\ Kept[t] \in Entry /\ Kept[t].state = "awaiting"
           /\ u = Grants[Kept[t].client].user
           /\ KeptPreviews[t] \in Registered /\ KeptPreviews[t] = registered[t]
           /\ KeptPreviews[t].request = Kept[t].request
           /\ \A a \in audit : a.ticket # t
           /\ Rows(journal, t) = {}
           /\ [ticket |-> t, client |-> Kept[t].client, request |-> Kept[t].request] \in issued
           /\ EntryHolds(t, Kept[t], issued, audit, opened, Rows(journal, t))
           /\ BooksAgree(t, Kept[t], KeptPreviews[t], spent \ Expired, None)
           /\ t \notin spent
<1>1. SurfaceTypeOK
  BY DEF IInv, TypeOK
<1>2. /\ call = None /\ Kept[t] # None /\ Kept[t].state = "awaiting"
      /\ u = Grants[Kept[t].client].user
  BY DEF Reviewable
<1>3. /\ EntryHolds(t, Kept[t], issued, audit, opened, Rows(journal, t))
      /\ BooksAgree(t, Kept[t], KeptPreviews[t], spent \ Expired, None)
      /\ t \notin spent
  BY <1>2, PrunedHolds
<1>4. KeptPreviews[t] # None /\ KeptPreviews[t].request = Kept[t].request
  BY <1>2, <1>3 DEF BooksAgree
<1>5. Kept[t] \in Entry /\ KeptPreviews[t] \in Registered /\ KeptPreviews[t] = registered[t]
  BY <1>1, <1>2, <1>4, KeptTyped, KeptEntry
<1>. QED
  BY <1>2, <1>3, <1>4, <1>5 DEF EntryHolds

LEMMA OpenKeeps ==
    ASSUME IInv, NEW u \in Users, NEW k \in Cookies, NEW t \in Tickets, Open(u, k, t),
           UNCHANGED bridgeVars
    PROVE  IInv'
<1>. DEFINE e == [Kept[t] EXCEPT !.cookie = k]
            page == [ticket |-> t, user |-> u, cookie |-> k]
<1>1. /\ Reviewable(u, t)
      /\ pending' = [Kept EXCEPT ![t].cookie = k] /\ opened' = opened \union {page}
      /\ registered' = KeptPreviews /\ spent' = spent \ Expired
      /\ sessions' = KeptSessions
            \/ sessions' = [KeptSessions EXCEPT ![k] = [user |-> u, expires |-> now + ReviewTtl]]
      /\ UNCHANGED <<now, call, audit, issued, journal, answers>>
  BY DEF Open
<1>2. SurfaceTypeOK
  BY DEF IInv, TypeOK
<1>3. /\ call = None
      /\ Kept[t] \in Entry /\ Kept[t].state = "awaiting"
      /\ u = Grants[Kept[t].client].user
      /\ EntryHolds(t, Kept[t], issued, audit, opened, Rows(journal, t))
      /\ BooksAgree(t, Kept[t], KeptPreviews[t], spent \ Expired, None)
  BY <1>1, ReviewableEntry
<1>4. /\ e \in Entry /\ e.state = "awaiting" /\ e.cookie = k
      /\ e.client = Kept[t].client /\ e.request = Kept[t].request
  BY <1>3 DEF Entry
<1>5. pending' = [Kept EXCEPT ![t] = e]
  BY <1>1, <1>2, KeptTyped
<1>6. page \in [ticket: Tickets, user: Users, cookie: Cookies]
  OBVIOUS
<1>7. sessions' \in [Cookies -> Session \union {None}]
  <2>1. [user |-> u, expires |-> now + ReviewTtl] \in Session
    BY <1>2, GrantsAssumption DEF Session, SurfaceTypeOK
  <2>. QED
    BY <1>1, <1>2, <2>1, KeptTyped
<1>. HIDE DEF e
<1>8. /\ pending' \in [Tickets -> Entry \union {None}] /\ pending'[t] = e
      /\ \A x \in Tickets \ {t} : pending'[x] = Kept[x]
  BY <1>2, <1>4, <1>5, KeptTyped
<1>9. SurfaceTypeOK'
  BY <1>1, <1>2, <1>6, <1>7, <1>8, KeptTyped DEF SurfaceTypeOK
<1>10. ASSUME NEW x \in Tickets
       PROVE  /\ EntryHolds(x, pending'[x], issued, audit', opened', Rows(journal, x))
              /\ BooksAgree(x, pending'[x], registered'[x], spent', call')
              /\ CallHolds(x, call', Rows(journal, x))
  <2>1. CASE x # t
    <3>1. call' = None /\ audit' = audit /\ opened \subseteq opened' /\ pending'[x] = Kept[x]
      BY <1>1, <1>3, <1>8, <2>1
    <3>. QED
      BY <1>1, <1>3, <3>1, OthersKept
  <2>2. CASE x = t
    <3>1. page \in opened' /\ opened \subseteq opened'
      BY <1>1
    <3>2. EntryHolds(t, e, issued, audit, opened', Rows(journal, t))
      BY <1>3, <1>4, <3>1, EntryNone DEF EntryHolds
    <3>3. BooksAgree(t, e, KeptPreviews[t], spent \ Expired, None)
      BY <1>3, <1>4, EntryNone DEF BooksAgree
    <3>4. CallHolds(t, None, Rows(journal, t))
      BY DEF CallHolds
    <3>. QED
      BY <1>1, <1>3, <1>8, <2>2, <3>2, <3>3, <3>4
  <2>. QED
    BY <2>1, <2>2
<1>. HIDE DEF page
<1>. QED
  BY <1>1, <1>9, <1>10, SurfaceStep

(* A decision is audited for a ticket that nobody has decided on.           *)
LEMMA AuditHolds ==
    ASSUME IInv, NEW u \in Users, NEW t \in Tickets, Reviewable(u, t),
           NEW decision \in {"approve", "reject"}, Audit(u, t, decision)
    PROVE  LET a == [ticket |-> t, user |-> u, decision |-> decision,
                     review |-> Kept[t].request]
           IN  /\ audit' = audit \union {a}
               /\ audit' \subseteq [ticket: Tickets, user: Users,
                                    decision: {"approve", "reject"}, review: Requests]
               /\ \A x \in audit' \ audit : x.ticket = t
<1>1. /\ Kept[t] \in Entry /\ registered[t].request = Kept[t].request
      /\ SurfaceTypeOK
  BY ReviewableEntry DEF IInv, TypeOK
<1>2. Kept[t].request \in Requests
  BY <1>1, EntryNone
<1>. QED
  BY <1>1, <1>2 DEF Audit, SurfaceTypeOK

LEMMA ApproveKeeps ==
    ASSUME IInv, NEW u \in Users, NEW k \in Cookies, NEW t \in Tickets, Approve(u, k, t),
           UNCHANGED bridgeVars
    PROVE  IInv'
<1>. DEFINE e == [Kept[t] EXCEPT !.state = "approved"]
            a == [ticket |-> t, user |-> u, decision |-> "approve", review |-> Kept[t].request]
            page == [ticket |-> t, user |-> u, cookie |-> k]
<1>1. /\ Reviewable(u, t) /\ Kept[t].cookie = k /\ Audit(u, t, "approve")
      /\ pending' = [Kept EXCEPT ![t].state = "approved"]
      /\ registered' = KeptPreviews /\ spent' = spent \ Expired
      /\ sessions' = KeptSessions
      /\ UNCHANGED <<now, call, issued, opened, journal, answers>>
  BY DEF Approve, Bound
<1>2. SurfaceTypeOK
  BY DEF IInv, TypeOK
<1>3. /\ call = None
      /\ Kept[t] \in Entry /\ Kept[t].state = "awaiting"
      /\ u = Grants[Kept[t].client].user
      /\ \A x \in audit : x.ticket # t
      /\ Rows(journal, t) = {}
      /\ [ticket |-> t, client |-> Kept[t].client, request |-> Kept[t].request] \in issued
      /\ EntryHolds(t, Kept[t], issued, audit, opened, Rows(journal, t))
      /\ BooksAgree(t, Kept[t], KeptPreviews[t], spent \ Expired, None)
  BY <1>1, ReviewableEntry
<1>4. /\ e \in Entry /\ e.state = "approved" /\ e.cookie = k
      /\ e.client = Kept[t].client /\ e.request = Kept[t].request
  BY <1>1, <1>3 DEF Entry, States
<1>5. pending' = [Kept EXCEPT ![t] = e]
  BY <1>1, <1>2, KeptTyped
<1>6. /\ audit' = audit \union {a} /\ \A x \in audit' \ audit : x.ticket = t
      /\ audit' \subseteq [ticket: Tickets, user: Users,
                           decision: {"approve", "reject"}, review: Requests]
  BY <1>1, AuditHolds
<1>7. a.ticket = t /\ a.user = u /\ a.decision = "approve" /\ a.review = Kept[t].request
  OBVIOUS
<1>8. page \in opened /\ page.ticket = t /\ page.user = u
  BY <1>1, <1>3, NoneAssumption, EntryNone DEF EntryHolds
<1>. HIDE DEF e, a, page
<1>9. /\ pending' \in [Tickets -> Entry \union {None}] /\ pending'[t] = e
      /\ \A x \in Tickets \ {t} : pending'[x] = Kept[x]
  BY <1>2, <1>4, <1>5, KeptTyped
<1>10. SurfaceTypeOK'
  BY <1>1, <1>2, <1>6, <1>9, KeptTyped DEF SurfaceTypeOK
<1>11. Confirmed(t, e.client, e.request, audit', opened)
  <2>1. \A x \in audit' : x.ticket = t => x = a
    BY <1>3, <1>6
  <2>2. a \in audit'
    BY <1>6
  <2>. QED
    BY <1>3, <1>4, <1>7, <1>8, <2>1, <2>2 DEF Confirmed
<1>12. ASSUME NEW x \in Tickets
       PROVE  /\ EntryHolds(x, pending'[x], issued, audit', opened', Rows(journal, x))
              /\ BooksAgree(x, pending'[x], registered'[x], spent', call')
              /\ CallHolds(x, call', Rows(journal, x))
  <2>1. CASE x # t
    <3>1. call' = None /\ audit \subseteq audit' /\ opened' = opened /\ pending'[x] = Kept[x]
      BY <1>1, <1>3, <1>6, <1>9, <2>1
    <3>2. \A y \in audit' \ audit : y.ticket # x
      BY <1>6, <2>1
    <3>. QED
      BY <1>1, <1>3, <3>1, <3>2, OthersKept
  <2>2. CASE x = t
    <3>1. EntryHolds(t, e, issued, audit', opened, Rows(journal, t))
      BY <1>1, <1>3, <1>4, <1>11, EntryNone DEF EntryHolds
    <3>2. BooksAgree(t, e, KeptPreviews[t], spent \ Expired, None)
      BY <1>3, <1>4, EntryNone DEF BooksAgree
    <3>3. CallHolds(t, None, Rows(journal, t))
      BY DEF CallHolds
    <3>. QED
      BY <1>1, <1>3, <1>9, <2>2, <3>1, <3>2, <3>3
  <2>. QED
    BY <2>1, <2>2
<1>13. \A x \in audit' \ audit : /\ Rows(journal, x.ticket) = {}
                                 /\ \E i \in issued : i.ticket = x.ticket
  BY <1>3, <1>6
<1>. QED
  BY <1>1, <1>6, <1>10, <1>12, <1>13, SurfaceStep

LEMMA RejectKeeps ==
    ASSUME IInv, NEW u \in Users, NEW k \in Cookies, NEW t \in Tickets, Reject(u, k, t),
           UNCHANGED bridgeVars
    PROVE  IInv'
<1>. DEFINE e == [Kept[t] EXCEPT !.state = "rejected"]
<1>1. /\ Reviewable(u, t) /\ Audit(u, t, "reject")
      /\ pending' = [Kept EXCEPT ![t].state = "rejected"]
      /\ registered' = [KeptPreviews EXCEPT ![t] = None] /\ spent' = spent \ Expired
      /\ sessions' = KeptSessions
      /\ UNCHANGED <<now, call, issued, opened, journal, answers>>
  BY DEF Reject
<1>2. SurfaceTypeOK
  BY DEF IInv, TypeOK
<1>3. /\ call = None
      /\ Kept[t] \in Entry /\ Kept[t].state = "awaiting"
      /\ \A x \in audit : x.ticket # t
      /\ Rows(journal, t) = {}
      /\ [ticket |-> t, client |-> Kept[t].client, request |-> Kept[t].request] \in issued
      /\ EntryHolds(t, Kept[t], issued, audit, opened, Rows(journal, t))
      /\ t \notin spent
  BY <1>1, ReviewableEntry
<1>4. /\ e \in Entry /\ e.state = "rejected" /\ e.cookie = Kept[t].cookie
      /\ e.client = Kept[t].client /\ e.request = Kept[t].request
  BY <1>3 DEF Entry, States
<1>5. pending' = [Kept EXCEPT ![t] = e]
  BY <1>1, <1>2, KeptTyped
<1>6. /\ audit \subseteq audit' /\ \A x \in audit' \ audit : x.ticket = t
      /\ audit' \subseteq [ticket: Tickets, user: Users,
                           decision: {"approve", "reject"}, review: Requests]
  BY <1>1, AuditHolds
<1>. HIDE DEF e
<1>7. /\ pending' \in [Tickets -> Entry \union {None}] /\ pending'[t] = e
      /\ registered' \in [Tickets -> Registered \union {None}] /\ registered'[t] = None
      /\ \A x \in Tickets \ {t} : pending'[x] = Kept[x] /\ registered'[x] = KeptPreviews[x]
  BY <1>1, <1>2, <1>4, <1>5, KeptTyped
<1>8. SurfaceTypeOK'
  BY <1>1, <1>2, <1>6, <1>7, KeptTyped DEF SurfaceTypeOK
<1>9. ASSUME NEW x \in Tickets
      PROVE  /\ EntryHolds(x, pending'[x], issued, audit', opened', Rows(journal, x))
             /\ BooksAgree(x, pending'[x], registered'[x], spent', call')
             /\ CallHolds(x, call', Rows(journal, x))
  <2>1. CASE x # t
    <3>1. /\ call' = None /\ opened' = opened /\ pending'[x] = Kept[x]
          /\ registered'[x] = KeptPreviews[x]
      BY <1>1, <1>3, <1>7, <2>1
    <3>2. \A y \in audit' \ audit : y.ticket # x
      BY <1>6, <2>1
    <3>. QED
      BY <1>1, <1>3, <1>6, <3>1, <3>2, OthersKept
  <2>2. CASE x = t
    <3>1. EntryHolds(t, e, issued, audit', opened, Rows(journal, t))
      BY <1>3, <1>4, EntryNone DEF EntryHolds
    <3>2. BooksAgree(t, e, None, spent \ Expired, None)
      BY <1>3, <1>4 DEF BooksAgree
    <3>3. CallHolds(t, None, Rows(journal, t))
      BY DEF CallHolds
    <3>. QED
      BY <1>1, <1>3, <1>7, <2>2, <3>1, <3>2, <3>3
  <2>. QED
    BY <2>1, <2>2
<1>10. \A x \in audit' \ audit : /\ Rows(journal, x.ticket) = {}
                                 /\ \E i \in issued : i.ticket = x.ticket
  BY <1>3, <1>6
<1>. QED
  BY <1>1, <1>6, <1>8, <1>9, <1>10, SurfaceStep

LEMMA PreviewKeeps ==
    ASSUME IInv, NEW c \in Clients, NEW r \in Requests, NEW t \in Tickets, Preview(c, r, t),
           UNCHANGED bridgeVars
    PROVE  IInv'
<1>. DEFINE i == [ticket |-> t, client |-> c, request |-> r]
            e == [client |-> c, request |-> r, state |-> "awaiting", cookie |-> None,
                  expires |-> Least(now + ReviewTtl, Grants[c].expires)]
            v == [request |-> r, base |-> Version(KindOf[r])]
<1>1. /\ call = None /\ \A j \in issued : j.ticket # t
      /\ issued' = issued \union {i}
      /\ pending' = [Kept EXCEPT ![t] = e]
      /\ registered' = [KeptPreviews EXCEPT ![t] = v]
      /\ sessions' = KeptSessions
      /\ spent' = spent \ Expired
      /\ UNCHANGED <<now, call, audit, opened, journal, answers>>
  BY DEF Preview
<1>2. SurfaceTypeOK
  BY DEF IInv, TypeOK
<1>3. /\ e \in Entry /\ e.state = "awaiting" /\ e.cookie = None /\ e.client = c /\ e.request = r
  <2>1. Grants[c].expires \in Nat /\ now + ReviewTtl \in Nat
    BY <1>2, GrantsAssumption DEF Grant, SurfaceTypeOK
  <2>2. Least(now + ReviewTtl, Grants[c].expires) \in Nat
    BY <2>1 DEF Least
  <2>. QED
    BY <2>2 DEF Entry, States
<1>4. v \in Registered /\ v.request = r
  <2>1. Version(KindOf[r]) \in Nat
    BY JournalTyped, RequestsAssumption DEF IInv
  <2>. QED
    BY <2>1 DEF Registered
<1>5. i \in [ticket: Tickets, client: Clients, request: Requests] /\ i.ticket = t
  OBVIOUS
<1>6. e # None /\ v # None
  BY <1>3, <1>4, NoneAssumption
<1>7. i = [ticket |-> t, client |-> e.client, request |-> e.request]
  BY <1>3
<1>. HIDE DEF e, v, i
<1>8. /\ pending' \in [Tickets -> Entry \union {None}] /\ pending'[t] = e
      /\ registered' \in [Tickets -> Registered \union {None}] /\ registered'[t] = v
      /\ \A x \in Tickets \ {t} : pending'[x] = Kept[x] /\ registered'[x] = KeptPreviews[x]
  BY <1>1, <1>2, <1>3, <1>4, KeptTyped
<1>9. TypeOK'
  <2>1. SurfaceTypeOK'
    BY <1>1, <1>2, <1>5, <1>8, KeptTyped DEF SurfaceTypeOK
  <2>. QED
    BY <1>1, <2>1 DEF IInv, TypeOK, BridgeTypeOK, bridgeVars
<1>10. Rows(journal, t) = {} /\ \A a \in audit : a.ticket # t
  BY <1>1 DEF IInv, IssuedOnce
<1>11. ASSUME NEW x \in Tickets PROVE TicketHolds(x)'
  <2>1. CASE x # t
    <3>1. /\ call' = None /\ audit' = audit /\ opened' = opened /\ pending'[x] = Kept[x]
          /\ registered'[x] = KeptPreviews[x] /\ issued \subseteq issued'
      BY <1>1, <1>8, <2>1
    <3>2. /\ EntryHolds(x, pending'[x], issued, audit, opened, Rows(journal, x))
          /\ BooksAgree(x, pending'[x], registered'[x], spent', call')
          /\ CallHolds(x, call', Rows(journal, x))
      BY <1>1, <3>1, OthersKept
    <3>3. EntryHolds(x, pending'[x], issued', audit, opened, Rows(journal, x))
      BY <3>1, <3>2, EntryStays
    <3>. QED
      BY <1>1, <3>2, <3>3 DEF TicketHolds
  <2>2. CASE x = t
    <3>1. EntryHolds(t, e, issued', audit, opened, Rows(journal, t))
      BY <1>1, <1>3, <1>7, <1>10 DEF EntryHolds
    <3>2. t \notin spent' /\ call' = None
      BY <1>1, PrunedHolds
    <3>3. BooksAgree(t, e, v, spent', call')
      BY <1>3, <1>4, <1>6, <3>2 DEF BooksAgree
    <3>4. CallHolds(t, call', Rows(journal, t))
      BY <3>2 DEF CallHolds
    <3>. QED
      BY <1>1, <1>8, <2>2, <3>1, <3>3, <3>4 DEF TicketHolds
  <2>. QED
    BY <2>1, <2>2
<1>12. IssuedOnce'
  <2>1. \A j, k \in issued' : j.ticket = k.ticket => j = k
    BY <1>1, <1>5 DEF IInv, IssuedOnce
  <2>2. ASSUME NEW x \in Tickets, \A j \in issued' : j.ticket # x
        PROVE  (\A a \in audit : a.ticket # x) /\ Rows(journal, x) = {}
    BY <1>1, <2>2 DEF IInv, IssuedOnce
  <2>. QED
    BY <1>1, <2>1, <2>2 DEF IssuedOnce
<1>13. WrittenReviewed'
  BY <1>1, <1>5, <1>10 DEF IInv, WrittenReviewed
<1>14. (\A h \in Handles : FileHolds(h, files[h], apply, journal))'
  BY <1>1 DEF IInv, bridgeVars
<1>15. WrittenOnce' /\ AnswersHold'
  BY <1>1 DEF IInv, WrittenOnce, AnswersHold
<1>. QED
  BY <1>9, <1>11, <1>12, <1>13, <1>14, <1>15 DEF IInv

--------------------------------------------------------------------------------
(* Answers and commits.                                                     *)
(* A read-back matches, or a later row of the kind is the last one.         *)
LEMMA AnswerHolds ==
    ASSUME IInv, NEW r \in Requests, NEW id \in Tickets \union Handles,
           NEW p \in Rows(journal, id), p[1] = KindOf[r], Answer(r, id)
    PROVE  /\ answers' \subseteq [by: Tickets \union Handles, matches: BOOLEAN]
           /\ \A a \in answers' : \E q \in Rows(journal, a.by) :
                  ~a.matches => q[2] < Len(journal[q[1]])
<1>. DEFINE a == [by |-> id, matches |-> IsLatest(r, id)]
<1>1. answers' = answers \union {a} /\ a.by = id /\ a.matches = IsLatest(r, id)
  BY DEF Answer
<1>2. IsLatest(r, id) \in BOOLEAN
  BY DEF IsLatest
<1>3. answers' \subseteq [by: Tickets \union Handles, matches: BOOLEAN]
  BY <1>1, <1>2 DEF IInv, TypeOK
<1>4. ~IsLatest(r, id) => p[2] < Len(journal[p[1]])
  <2>1. PICK k \in Kinds, n \in Nat : p = <<k, n>> /\ n \in 1 .. Len(journal[k])
    BY DEF Rows
  <2>2. Len(journal[k]) \in Nat /\ Version(k) = Len(journal[k]) /\ k = KindOf[r]
    BY <2>1, JournalTyped DEF IInv
  <2>3. n = Len(journal[k]) => IsLatest(r, id)
    BY <2>1, <2>2, RowsAreRowsBy DEF IsLatest, IInv
  <2>. QED
    BY <2>1, <2>2, <2>3
<1>. HIDE DEF a
<1>5. ASSUME NEW b \in answers'
      PROVE  \E q \in Rows(journal, b.by) : ~b.matches => q[2] < Len(journal[q[1]])
  <2>1. CASE b \in answers
    BY <2>1 DEF IInv, AnswersHold
  <2>2. CASE b = a
    BY <1>1, <1>4, <2>2
  <2>. QED
    BY <1>1, <2>1, <2>2
<1>. QED
  BY <1>3, <1>5

LEMMA ReturnKeeps ==
    ASSUME IInv, Return, UNCHANGED bridgeVars
    PROVE  IInv'
<1>. DEFINE t == call.ticket
            e == pending[t]
            r == e.request
<1>1. /\ call # None /\ call.at = "written" /\ Answer(r, t) /\ Release("applied")
  BY DEF Return
<1>2. /\ t \in Tickets /\ e \in Entry /\ TicketHolds(t)
      /\ [ticket |-> t, client |-> e.client, request |-> r] \in issued
  BY <1>1, CallEntry
<1>3. r \in Requests
  BY <1>2, EntryNone
<1>4. PICK p \in Rows(journal, t) : TRUE
  BY <1>1, <1>2 DEF TicketHolds, CallHolds
<1>5. p[1] = KindOf[r]
  <2>1. journal[p[1]][p[2]].request = r
    <3>. DEFINE i == [ticket |-> t, client |-> e.client, request |-> r]
    <3>1. i \in issued /\ i.ticket = t /\ i.request = r
      BY <1>2
    <3>. HIDE DEF i, r
    <3>2. \A q \in Rows(journal, i.ticket) : journal[q[1]][q[2]].request = i.request
      BY <1>4, <3>1 DEF IInv, WrittenReviewed
    <3>. QED
      BY <3>1, <3>2
  <2>2. p[1] \in Kinds /\ p[2] \in DOMAIN journal[p[1]]
    <3>1. p[1] \in Kinds /\ p[2] \in 1 .. Len(journal[p[1]])
      BY DEF Rows
    <3>2. journal[p[1]] \in Seq(Row)
      BY <3>1, JournalTyped DEF IInv
    <3>. QED
      BY <3>1, <3>2
  <2>. QED
    BY <2>1, <2>2 DEF IInv, WrittenOnce
<1>6. /\ answers' \subseteq [by: Tickets \union Handles, matches: BOOLEAN]
      /\ \A a \in answers' : \E q \in Rows(journal, a.by) :
             ~a.matches => q[2] < Len(journal[q[1]])
  BY <1>1, <1>2, <1>3, <1>5, AnswerHolds
<1>7. /\ SurfaceTypeOK'
      /\ UNCHANGED <<audit, issued, opened, journal>>
      /\ \A x \in Tickets :
          /\ EntryHolds(x, pending'[x], issued, audit', opened', Rows(journal, x))
          /\ BooksAgree(x, pending'[x], registered'[x], spent', call')
          /\ CallHolds(x, call', Rows(journal, x))
  BY <1>1, ReleaseHolds
<1>8. TypeOK'
  BY <1>6, <1>7 DEF IInv, TypeOK, BridgeTypeOK, bridgeVars
<1>9. \A x \in Tickets : TicketHolds(x)'
  BY <1>7 DEF TicketHolds
<1>10. IssuedOnce' /\ WrittenReviewed' /\ WrittenOnce'
  BY <1>7 DEF IInv, IssuedOnce, WrittenReviewed, WrittenOnce
<1>11. AnswersHold'
  BY <1>6, <1>7 DEF AnswersHold
<1>12. (\A h \in Handles : FileHolds(h, files[h], apply, journal))'
  BY <1>7 DEF IInv, bridgeVars
<1>. QED
  BY <1>8, <1>9, <1>10, <1>11, <1>12 DEF IInv

(* A commit of what was not written keeps what is said of everything else.  *)
LEMMA CommitHolds ==
    ASSUME IInv, NEW r \in Requests, NEW id \in Tickets \union Handles, Commit(r, id),
           Rows(journal, id) = {}, UNCHANGED answers
    PROVE  /\ journal' \in [Kinds -> Seq(Row)]
           /\ WrittenOnce'
           /\ AnswersHold'
           /\ \A x : x # id =>
                  /\ Rows(journal', x) = Rows(journal, x)
                  /\ \A p \in Rows(journal, x) : journal'[p[1]][p[2]] = journal[p[1]][p[2]]
           /\ \A p \in Rows(journal', id) : /\ p[1] = KindOf[r]
                                            /\ journal'[p[1]][p[2]].request = r
           /\ Rows(journal', id) # {}
           /\ Len(journal'[KindOf[r]]) > Len(journal[KindOf[r]])
           /\ \A h \in Handles \ {id}, f \in File \union {NoFile} : \A w :
                  FileHolds(h, f, w, journal) => FileHolds(h, f, w, journal')
<1>. DEFINE kind == KindOf[r]
            n == Len(journal[KindOf[r]]) + 1
<1>1. /\ journal \in [Kinds -> Seq(Row)] /\ journal' \in [Kinds -> Seq(Row)]
      /\ \A k \in Kinds : /\ Len(journal[k]) \in Nat /\ Len(journal'[k]) \in Nat
                          /\ Len(journal[k]) <= Len(journal'[k])
                          /\ k # kind => journal'[k] = journal[k]
                          /\ \A m \in 1 .. Len(journal[k]) : journal'[k][m] = journal[k][m]
      /\ kind \in Kinds
      /\ Len(journal'[kind]) = n /\ n = Len(journal[kind]) + 1
      /\ journal'[kind][n] = [request |-> r, by |-> id]
      /\ \A x : x # id => Rows(journal', x) = Rows(journal, x)
      /\ Rows(journal', id) = {<<kind, n>>}
  BY JournalTyped, CommitRows DEF IInv
<1>. HIDE DEF kind, n
<1>2. \A x : \A p \in Rows(journal, x) : /\ p[1] \in Kinds
                                         /\ p[2] \in 1 .. Len(journal[p[1]])
                                         /\ p[2] \in Nat
  BY DEF Rows
<1>3. \A x : \A p \in Rows(journal, x) : journal'[p[1]][p[2]] = journal[p[1]][p[2]]
  BY <1>1, <1>2
<1>4. WrittenOnce'
  <2>1. ASSUME NEW x \in Tickets \union Handles, NEW p \in Rows(journal', x),
               NEW q \in Rows(journal', x)
        PROVE  p = q
    <3>1. CASE x = id
      BY <1>1, <3>1
    <3>2. CASE x # id
      BY <1>1, <3>2 DEF IInv, WrittenOnce
    <3>. QED
      BY <3>1, <3>2
  <2>2. ASSUME NEW k \in Kinds, NEW m \in DOMAIN journal'[k]
        PROVE  KindOf[journal'[k][m].request] = k
    <3>1. /\ journal[k] \in Seq(Row) /\ journal'[k] \in Seq(Row)
          /\ DOMAIN journal[k] = 1 .. Len(journal[k])
          /\ m \in 1 .. Len(journal'[k])
      BY <1>1
    <3>2. CASE m \in 1 .. Len(journal[k])
      <4>1. journal'[k][m] = journal[k][m]
        BY <1>1, <3>2
      <4>. QED
        BY <3>1, <3>2, <4>1 DEF IInv, WrittenOnce
    <3>3. CASE m \notin 1 .. Len(journal[k])
      <4>1. k = kind /\ m = n
        BY <1>1, <3>1, <3>3
      <4>. QED
        BY <1>1, <4>1 DEF kind
    <3>. QED
      BY <3>2, <3>3
  <2>. QED
    BY <2>1, <2>2 DEF WrittenOnce
<1>5. AnswersHold'
  <2>1. ASSUME NEW a \in answers
        PROVE  \E p \in Rows(journal', a.by) : ~a.matches => p[2] < Len(journal'[p[1]])
    <3>1. PICK p \in Rows(journal, a.by) : ~a.matches => p[2] < Len(journal[p[1]])
      BY DEF IInv, AnswersHold
    <3>2. p \in Rows(journal', a.by)
      BY <1>1
    <3>3. ~a.matches => p[2] < Len(journal'[p[1]])
      BY <1>1, <1>2, <3>1
    <3>. QED
      BY <3>2, <3>3
  <2>. QED
    BY <2>1 DEF AnswersHold
<1>6. ASSUME NEW h \in Handles \ {id}, NEW f \in File \union {NoFile}, NEW w,
             FileHolds(h, f, w, journal)
      PROVE  FileHolds(h, f, w, journal')
  <2>1. Rows(journal', h) = Rows(journal, h)
    BY <1>1
  <2>2. CASE f = NoFile
    BY <1>6, <2>1, <2>2 DEF FileHolds
  <2>3. CASE f # NoFile
    <3>1. f.base \in Nat /\ KindOf[f.request] \in Kinds
      BY <2>3, RequestsAssumption DEF File
    <3>2. /\ f.base <= Len(journal[KindOf[f.request]])
              => f.base <= Len(journal'[KindOf[f.request]])
          /\ f.base < Len(journal[KindOf[f.request]])
              => f.base < Len(journal'[KindOf[f.request]])
      <4>. DEFINE a == Len(journal[KindOf[f.request]])
                  b == Len(journal'[KindOf[f.request]])
      <4>1. a \in Nat /\ b \in Nat /\ a <= b
        BY <1>1, <3>1
      <4>. HIDE DEF a, b
      <4>2. (f.base <= a => f.base <= b) /\ (f.base < a => f.base < b)
        BY <3>1, <4>1
      <4>. QED
        BY <4>2 DEF a, b
    <3>. QED
      BY <1>6, <2>1, <2>3, <3>2 DEF FileHolds
  <2>. QED
    BY <2>2, <2>3
<1>7. \A p \in Rows(journal', id) : p[1] = kind /\ journal'[p[1]][p[2]].request = r
  BY <1>1
<1>. QED
  BY <1>1, <1>3, <1>4, <1>5, <1>6, <1>7 DEF kind

LEMMA FileTyped ==
    ASSUME TypeOK, NEW h \in Handles
    PROVE  files[h] \in File \union {NoFile}
  BY DEF TypeOK, BridgeTypeOK

(* The ticket that is written was confirmed, and holds the lock.            *)
LEMMA WriteJournalKeeps ==
    ASSUME IInv, WriteJournal, UNCHANGED bridgeVars
    PROVE  IInv'
<1>. DEFINE t == call.ticket
            e == pending[t]
            r == e.request
            k == [call EXCEPT !.at = "written"]
<1>1. /\ call # None /\ call.at = "checked" /\ Commit(r, t) /\ call' = k
      /\ UNCHANGED <<now, pending, sessions, registered, spent, audit, issued, opened, answers>>
  BY DEF WriteJournal
<1>2. /\ call \in Call /\ t \in Tickets /\ e \in Entry /\ e.state = "consumed"
      /\ TicketHolds(t)
      /\ Confirmed(t, e.client, r, audit, opened)
      /\ [ticket |-> t, client |-> e.client, request |-> r] \in issued
  BY <1>1, CallEntry
<1>3. r \in Requests /\ e # None /\ Rows(journal, t) = {}
  BY <1>1, <1>2, EntryNone DEF TicketHolds, CallHolds
<1>4. k \in Call /\ k.ticket = t /\ k.at = "written" /\ k # None
  <2>1. k \in Call /\ k.ticket = t /\ k.at = "written"
    BY <1>2 DEF Call
  <2>. QED
    BY <2>1, NoneAssumption
<1>5. /\ journal' \in [Kinds -> Seq(Row)]
      /\ WrittenOnce' /\ AnswersHold'
      /\ \A x : x # t =>
             /\ Rows(journal', x) = Rows(journal, x)
             /\ \A p \in Rows(journal, x) : journal'[p[1]][p[2]] = journal[p[1]][p[2]]
      /\ \A p \in Rows(journal', t) : journal'[p[1]][p[2]].request = r
      /\ Rows(journal', t) # {}
      /\ \A h \in Handles \ {t}, f \in File \union {NoFile} : \A w :
             FileHolds(h, f, w, journal) => FileHolds(h, f, w, journal')
  <2>. HIDE DEF t, e, r, k
  <2>1. t \in Tickets \union Handles /\ Commit(r, t) /\ answers' = answers
    BY <1>1, <1>2
  <2>. QED
    BY <1>3, <2>1, CommitHolds
<1>6. \A i \in issued : i.ticket = t => i.request = r /\ i.client = e.client
  BY <1>2 DEF IInv, IssuedOnce
<1>. HIDE DEF t, e, r, k
<1>7. TypeOK'
  BY <1>1, <1>4, <1>5 DEF IInv, TypeOK, SurfaceTypeOK, BridgeTypeOK, bridgeVars, Row
<1>8. ASSUME NEW x \in Tickets PROVE TicketHolds(x)'
  <2>1. TicketHolds(x)
    BY DEF IInv
  <2>2. CASE x # t
    <3>1. BooksAgree(x, pending[x], registered[x], spent, k)
      BY <1>4, <2>1, <2>2, OtherCalls DEF TicketHolds, t
    <3>2. CallHolds(x, k, Rows(journal, x))
      BY <1>4, <2>2 DEF CallHolds
    <3>. QED
      BY <1>1, <1>5, <2>1, <2>2, <3>1, <3>2 DEF TicketHolds
  <2>3. CASE x = t
    <3>1. BooksAgree(t, e, registered[t], spent, k)
      BY <1>1, <1>2, <1>3, <1>4 DEF TicketHolds, BooksAgree, t, e
    <3>2. CallHolds(t, k, Rows(journal', t))
      BY <1>4, <1>5 DEF CallHolds
    <3>3. EntryHolds(t, e, issued, audit, opened, Rows(journal', t))
      BY <1>2, <1>3 DEF TicketHolds, EntryHolds, e
    <3>. QED
      BY <1>1, <2>3, <3>1, <3>2, <3>3 DEF TicketHolds, e
  <2>. QED
    BY <2>2, <2>3
<1>9. IssuedOnce'
  <2>1. \E i \in issued : i.ticket = t
    BY <1>2
  <2>. QED
    BY <1>1, <1>5, <2>1 DEF IInv, IssuedOnce
<1>10. WrittenReviewed'
  <2>1. ASSUME NEW i \in issued, Rows(journal', i.ticket) # {}
        PROVE  /\ Confirmed(i.ticket, i.client, i.request, audit, opened)
               /\ \A p \in Rows(journal', i.ticket) : journal'[p[1]][p[2]].request = i.request
    <3>1. CASE i.ticket = t
      BY <1>2, <1>5, <1>6, <3>1
    <3>2. CASE i.ticket # t
      <4>1. /\ Rows(journal', i.ticket) = Rows(journal, i.ticket)
            /\ \A p \in Rows(journal, i.ticket) : journal'[p[1]][p[2]] = journal[p[1]][p[2]]
        BY <1>5, <3>2
      <4>2. /\ Confirmed(i.ticket, i.client, i.request, audit, opened)
            /\ \A p \in Rows(journal, i.ticket) : journal[p[1]][p[2]].request = i.request
        BY <2>1, <4>1 DEF IInv, WrittenReviewed
      <4>. QED
        BY <4>1, <4>2
    <3>. QED
      BY <3>1, <3>2
  <2>. QED
    BY <1>1, <2>1 DEF WrittenReviewed
<1>11. ASSUME NEW h \in Handles PROVE FileHolds(h, files[h], apply, journal)'
  <2>1. h # t
    BY <1>2, DistinctAssumption
  <2>2. FileHolds(h, files[h], apply, journal')
    BY <1>5, <2>1, FileTyped DEF IInv
  <2>. QED
    BY <2>2 DEF bridgeVars
<1>. QED
  BY <1>5, <1>7, <1>8, <1>9, <1>10, <1>11 DEF IInv

--------------------------------------------------------------------------------
(* The bridge.                                                              *)
LEMMA BridgeStep ==
    ASSUME IInv, BridgeTypeOK', UNCHANGED <<surfaceVars, journal>>,
           answers' \subseteq [by: Tickets \union Handles, matches: BOOLEAN],
           AnswersHold',
           \A h \in Handles : FileHolds(h, files'[h], apply', journal)
    PROVE  IInv'
<1>1. TypeOK'
  BY DEF IInv, TypeOK, SurfaceTypeOK, surfaceVars
<1>2. \A t \in Tickets : TicketHolds(t)'
  BY DEF IInv, TicketHolds, surfaceVars
<1>3. IssuedOnce' /\ WrittenReviewed' /\ WrittenOnce'
  BY DEF IInv, IssuedOnce, WrittenReviewed, WrittenOnce, surfaceVars
<1>4. (\A h \in Handles : FileHolds(h, files[h], apply, journal))'
  OBVIOUS
<1>. QED
  BY <1>1, <1>2, <1>3, <1>4 DEF IInv

LEMMA BridgeQuiet ==
    ASSUME IInv, BridgeTypeOK', UNCHANGED <<surfaceVars, journal, answers>>,
           \A h \in Handles : FileHolds(h, files'[h], apply', journal)
    PROVE  IInv'
<1>1. answers' \subseteq [by: Tickets \union Handles, matches: BOOLEAN] /\ AnswersHold'
  BY DEF IInv, TypeOK, AnswersHold
<1>. QED
  BY <1>1, BridgeStep

LEMMA FileNone ==
    ASSUME NEW f \in File
    PROVE  f # NoFile /\ f.request \in Requests /\ f.base \in Nat
  BY HandlesAssumption DEF File

(* An apply about another handle, or none.                                  *)
LEMMA OtherApplies ==
    ASSUME NEW h, NEW f, NEW w, NEW x, FileHolds(h, f, w, journal),
           x # Idle => x.handle # h
    PROVE  FileHolds(h, f, x, journal)
  BY DEF FileHolds

LEMMA BuildKeeps ==
    ASSUME IInv, NEW r \in Requests, NEW h \in Handles, Build(r, h), UNCHANGED surfaceVars
    PROVE  IInv'
<1>. DEFINE f == [request |-> r, base |-> Version(KindOf[r]), at |-> "draft"]
<1>1. /\ files[h] = NoFile /\ files' = [files EXCEPT ![h] = f]
      /\ UNCHANGED <<apply, journal, answers>>
  BY DEF Build
<1>2. FileHolds(h, NoFile, apply, journal)
  BY <1>1 DEF IInv
<1>3. /\ Rows(journal, h) = {} /\ (apply # Idle => apply.handle # h)
      /\ Version(KindOf[r]) = Len(journal[KindOf[r]]) /\ Version(KindOf[r]) \in Nat
  BY <1>2, JournalTyped, RequestsAssumption DEF FileHolds, IInv
<1>4. /\ f \in File /\ f.at = "draft" /\ f.request = r /\ f.base = Len(journal[KindOf[r]])
      /\ f.base \in Nat
  BY <1>3 DEF File
<1>. HIDE DEF f
<1>5. FileHolds(h, f, apply, journal)
  BY <1>3, <1>4, FileNone DEF FileHolds
<1>6. /\ BridgeTypeOK' /\ files'[h] = f
      /\ \A x \in Handles \ {h} : files'[x] = files[x]
  BY <1>1, <1>4 DEF IInv, TypeOK, BridgeTypeOK
<1>7. \A x \in Handles : FileHolds(x, files'[x], apply', journal)
  BY <1>1, <1>5, <1>6 DEF IInv
<1>. QED
  BY <1>1, <1>6, <1>7, BridgeQuiet

LEMMA CreateKeeps ==
    ASSUME IInv, NEW h \in Handles, Create(h), UNCHANGED surfaceVars
    PROVE  IInv'
<1>. DEFINE f == files[h]
            g == [f EXCEPT !.at = "pending"]
<1>1. /\ apply = Idle /\ f # NoFile /\ f.at = "draft" /\ f \in File
      /\ files' = [files EXCEPT ![h] = g]
      /\ UNCHANGED <<apply, journal, answers>>
  BY FileTyped DEF Create, IInv, TypeOK, BridgeTypeOK
<1>2. g \in File /\ g.at = "pending" /\ g.request = f.request /\ g.base = f.base
  BY <1>1 DEF File
<1>3. FileHolds(h, f, apply, journal)
  BY DEF IInv
<1>. HIDE DEF f, g
<1>4. FileHolds(h, g, apply, journal)
  BY <1>1, <1>2, <1>3, FileNone DEF FileHolds
<1>5. /\ BridgeTypeOK' /\ files'[h] = g
      /\ \A x \in Handles \ {h} : files'[x] = files[x]
  BY <1>1, <1>2 DEF IInv, TypeOK, BridgeTypeOK
<1>6. \A x \in Handles : FileHolds(x, files'[x], apply', journal)
  BY <1>1, <1>4, <1>5 DEF IInv
<1>. QED
  BY <1>1, <1>5, <1>6, BridgeQuiet

LEMMA WorkNone ==
    ASSUME NEW w \in Work
    PROVE  w # Idle /\ w.handle \in Handles
  BY HandlesAssumption DEF Work

(* A fresh file has not been written: its own write would have made it      *)
(* stale.                                                                   *)
LEMMA BeginKeeps ==
    ASSUME IInv, NEW h \in Handles, Begin(h), UNCHANGED surfaceVars
    PROVE  IInv'
<1>. DEFINE f == files[h]
            w == [handle |-> h, at |-> "checked"]
<1>1. /\ apply = Idle /\ f # NoFile /\ f.at = "pending" /\ Fresh(f) /\ f \in File
      /\ apply' = w /\ UNCHANGED <<files, journal, answers>>
  BY FileTyped DEF Begin, IInv
<1>2. w \in Work /\ w.handle = h /\ w.at = "checked" /\ w # Idle
  BY WorkNone DEF Work
<1>3. FileHolds(h, f, Idle, journal)
  BY <1>1 DEF IInv
<1>. HIDE DEF f, w
<1>4. f.base = Len(journal[KindOf[f.request]]) /\ f.base \in Nat
  BY <1>1, FileNone, JournalTyped, RequestsAssumption DEF Fresh, Stale, IInv
<1>5. FileHolds(h, f, w, journal)
  BY <1>1, <1>2, <1>3, <1>4 DEF FileHolds
<1>6. \A x \in Handles : FileHolds(x, files'[x], apply', journal)
  <2>. TAKE x \in Handles
  <2>1. FileHolds(x, files[x], apply, journal)
    BY DEF IInv
  <2>2. CASE x = h
    BY <1>1, <1>5, <2>2 DEF f
  <2>3. CASE x # h
    BY <1>1, <1>2, <2>1, <2>3, OtherApplies
  <2>. QED
    BY <2>2, <2>3
<1>7. BridgeTypeOK'
  BY <1>1, <1>2 DEF IInv, TypeOK, BridgeTypeOK
<1>. QED
  BY <1>1, <1>6, <1>7, BridgeQuiet

LEMMA StopKeeps ==
    ASSUME IInv, Stop, UNCHANGED surfaceVars
    PROVE  IInv'
<1>1. \A x \in Handles : FileHolds(x, files'[x], apply', journal)
  BY OtherApplies DEF IInv, Stop
<1>2. BridgeTypeOK'
  BY DEF Stop, IInv, TypeOK, BridgeTypeOK
<1>. QED
  BY <1>1, <1>2, BridgeQuiet DEF Stop

(* What an apply says of its file.                                          *)
LEMMA ApplyFile ==
    ASSUME IInv, apply # Idle
    PROVE  /\ apply \in Work /\ apply.handle \in Handles
           /\ files[apply.handle] \in File
           /\ FileHolds(apply.handle, files[apply.handle], apply, journal)
<1>1. apply \in Work /\ apply.handle \in Handles
  BY WorkNone DEF IInv, TypeOK, BridgeTypeOK
<1>2. FileHolds(apply.handle, files[apply.handle], apply, journal)
  BY <1>1 DEF IInv
<1>. QED
  BY <1>1, <1>2, FileTyped DEF FileHolds, IInv

LEMMA WriteKeeps ==
    ASSUME IInv, Write, UNCHANGED surfaceVars
    PROVE  IInv'
<1>. DEFINE h == apply.handle
            f == files[h]
            r == f.request
            w == [apply EXCEPT !.at = "written"]
<1>1. /\ apply # Idle /\ apply.at = "checked" /\ Commit(r, h) /\ apply' = w
      /\ UNCHANGED <<files, answers>>
  BY DEF Write
<1>2. apply \in Work /\ h \in Handles /\ f \in File /\ FileHolds(h, f, apply, journal)
  BY <1>1, ApplyFile
<1>3. w \in Work /\ w.handle = h /\ w.at = "written" /\ w # Idle
  <2>1. w \in Work /\ w.handle = h /\ w.at = "written"
    BY <1>2 DEF Work
  <2>. QED
    BY <2>1, WorkNone
<1>4. r \in Requests /\ f # NoFile /\ f.base \in Nat
  BY <1>2, FileNone
<1>5. Rows(journal, h) = {} /\ f.at = "pending" /\ f.base <= Len(journal[KindOf[r]])
  BY <1>1, <1>2, <1>4 DEF FileHolds
<1>6. /\ journal' \in [Kinds -> Seq(Row)]
      /\ WrittenOnce' /\ AnswersHold'
      /\ \A x : x # h =>
             /\ Rows(journal', x) = Rows(journal, x)
             /\ \A p \in Rows(journal, x) : journal'[p[1]][p[2]] = journal[p[1]][p[2]]
      /\ \A p \in Rows(journal', h) : /\ p[1] = KindOf[r]
                                      /\ journal'[p[1]][p[2]].request = r
      /\ Rows(journal', h) # {}
      /\ Len(journal'[KindOf[r]]) > Len(journal[KindOf[r]])
      /\ \A x \in Handles \ {h}, g \in File \union {NoFile} : \A v :
             FileHolds(x, g, v, journal) => FileHolds(x, g, v, journal')
  <2>. HIDE DEF h, f, r, w
  <2>1. h \in Tickets \union Handles /\ Commit(r, h) /\ answers' = answers
    BY <1>1, <1>2
  <2>2. r \in Requests /\ Rows(journal, h) = {}
    BY <1>4, <1>5
  <2>. QED
    BY <2>1, <2>2, CommitHolds
<1>. HIDE DEF h, f, r, w
<1>7. TypeOK'
  BY <1>1, <1>3, <1>6 DEF IInv, TypeOK, SurfaceTypeOK, BridgeTypeOK, surfaceVars, Row
<1>8. \A t \in Tickets : t # h
  BY <1>2, DistinctAssumption
<1>9. ASSUME NEW t \in Tickets PROVE TicketHolds(t)'
  BY <1>6, <1>8 DEF IInv, TicketHolds, surfaceVars
<1>10. IssuedOnce' /\ WrittenReviewed'
  <2>1. IssuedOnce'
    BY <1>6, <1>8 DEF IInv, IssuedOnce, surfaceVars
  <2>2. ASSUME NEW i \in issued, Rows(journal', i.ticket) # {}
        PROVE  /\ Confirmed(i.ticket, i.client, i.request, audit, opened)
               /\ \A p \in Rows(journal', i.ticket) : journal'[p[1]][p[2]].request = i.request
    <3>1. i.ticket \in Tickets
      BY DEF IInv, TypeOK, SurfaceTypeOK
    <3>2. /\ Rows(journal', i.ticket) = Rows(journal, i.ticket)
          /\ \A p \in Rows(journal, i.ticket) : journal'[p[1]][p[2]] = journal[p[1]][p[2]]
      BY <1>6, <1>8, <3>1
    <3>3. /\ Confirmed(i.ticket, i.client, i.request, audit, opened)
          /\ \A p \in Rows(journal, i.ticket) : journal[p[1]][p[2]].request = i.request
      BY <2>2, <3>2 DEF IInv, WrittenReviewed
    <3>. QED
      BY <3>2, <3>3
  <2>3. UNCHANGED <<issued, audit, opened>>
    BY DEF surfaceVars
  <2>. QED
    BY <2>1, <2>2, <2>3 DEF WrittenReviewed
<1>11. ASSUME NEW x \in Handles PROVE FileHolds(x, files[x], w, journal')
  <2>1. CASE x # h
    <3>1. FileHolds(x, files[x], w, journal)
      BY <1>3, <2>1, OtherApplies DEF IInv
    <3>. QED
      BY <1>6, <2>1, <3>1, FileTyped DEF IInv
  <2>2. CASE x = h
    <3>1. f.base < Len(journal'[KindOf[r]])
      <4>1. KindOf[r] \in Kinds
        BY <1>4, RequestsAssumption
      <4>2. Len(journal[KindOf[r]]) \in Nat /\ Len(journal'[KindOf[r]]) \in Nat
        BY <1>6, <4>1, JournalTyped DEF IInv
      <4>. QED
        BY <1>4, <1>5, <1>6, <4>2
    <3>2. f.base <= Len(journal'[KindOf[r]])
      <4>1. KindOf[r] \in Kinds
        BY <1>4, RequestsAssumption
      <4>2. Len(journal'[KindOf[r]]) \in Nat
        BY <1>6, <4>1
      <4>. QED
        BY <1>4, <3>1, <4>2
    <3>3. FileHolds(h, f, w, journal')
      BY <1>3, <1>4, <1>5, <1>6, <3>1, <3>2 DEF FileHolds, r
    <3>. QED
      BY <2>2, <3>3 DEF f
  <2>. QED
    BY <2>1, <2>2
<1>. QED
  BY <1>1, <1>6, <1>7, <1>9, <1>10, <1>11 DEF IInv

LEMMA ConsumeKeeps ==
    ASSUME IInv, Consume, UNCHANGED surfaceVars
    PROVE  IInv'
<1>. DEFINE h == apply.handle
            f == files[h]
            g == [f EXCEPT !.at = "applied"]
            w == [apply EXCEPT !.at = "moved"]
<1>1. /\ apply # Idle /\ apply.at = "written" /\ apply' = w
      /\ files' = [files EXCEPT ![h] = g]
      /\ UNCHANGED <<journal, answers>>
  BY DEF Consume, IInv, TypeOK, BridgeTypeOK
<1>2. apply \in Work /\ h \in Handles /\ f \in File /\ FileHolds(h, f, apply, journal)
  BY <1>1, ApplyFile
<1>3. w \in Work /\ w.handle = h /\ w.at = "moved" /\ w # Idle
  <2>1. w \in Work /\ w.handle = h /\ w.at = "moved"
    BY <1>2 DEF Work
  <2>. QED
    BY <2>1, WorkNone
<1>4. /\ g \in File /\ g.at = "applied" /\ g.request = f.request /\ g.base = f.base
      /\ f # NoFile /\ g # NoFile
  <2>1. g \in File /\ g.at = "applied" /\ g.request = f.request /\ g.base = f.base
    BY <1>2 DEF File
  <2>. QED
    BY <1>2, <2>1, FileNone
<1>5. Rows(journal, h) # {}
  BY <1>1, <1>2 DEF FileHolds
<1>6. FileHolds(h, g, w, journal)
  <2>. HIDE DEF g, w, f
  <2>. QED
    BY <1>2, <1>3, <1>4, <1>5 DEF FileHolds
<1>. HIDE DEF h, f, g, w
<1>7. /\ BridgeTypeOK' /\ files'[h] = g
      /\ \A x \in Handles \ {h} : files'[x] = files[x]
  BY <1>1, <1>2, <1>3, <1>4 DEF IInv, TypeOK, BridgeTypeOK
<1>8. \A x \in Handles : FileHolds(x, files'[x], apply', journal)
  <2>. TAKE x \in Handles
  <2>1. CASE x = h
    BY <1>1, <1>6, <1>7, <2>1
  <2>2. CASE x # h
    BY <1>1, <1>3, <1>7, <2>2, OtherApplies DEF IInv
  <2>. QED
    BY <2>1, <2>2
<1>. QED
  BY <1>1, <1>7, <1>8, BridgeQuiet

LEMMA ReportKeeps ==
    ASSUME IInv, Report, UNCHANGED surfaceVars
    PROVE  IInv'
<1>. DEFINE h == apply.handle
            f == files[h]
            r == f.request
<1>1. /\ apply # Idle /\ apply.at = "moved" /\ Answer(r, h) /\ apply' = Idle
      /\ UNCHANGED <<files, journal>>
  BY DEF Report
<1>2. apply \in Work /\ h \in Handles /\ f \in File /\ FileHolds(h, f, apply, journal)
  BY <1>1, ApplyFile
<1>3. r \in Requests /\ f # NoFile
  BY <1>2, FileNone
<1>4. PICK p \in Rows(journal, h) : p[1] = KindOf[r]
  BY <1>1, <1>2, <1>3 DEF FileHolds
<1>5. /\ answers' \subseteq [by: Tickets \union Handles, matches: BOOLEAN]
      /\ \A a \in answers' : \E q \in Rows(journal, a.by) :
             ~a.matches => q[2] < Len(journal[q[1]])
  <2>. HIDE DEF h, r
  <2>1. h \in Tickets \union Handles
    BY <1>2
  <2>. QED
    BY <1>1, <1>3, <1>4, <2>1, AnswerHolds
<1>6. AnswersHold'
  BY <1>1, <1>5 DEF AnswersHold
<1>7. BridgeTypeOK'
  BY <1>1 DEF IInv, TypeOK, BridgeTypeOK
<1>8. \A x \in Handles : FileHolds(x, files'[x], apply', journal)
  BY <1>1, OtherApplies DEF IInv
<1>. QED
  BY <1>1, <1>5, <1>6, <1>7, <1>8, BridgeStep

--------------------------------------------------------------------------------
(* The invariant holds.                                                     *)
LEMMA InitHolds == Init => IInv
<1>. SUFFICES ASSUME Init PROVE IInv
  OBVIOUS
<1>. USE DEF Init, SurfaceInit, BridgeInit
<1>1. \A id : Rows(journal, id) = {}
  BY DEF Rows
<1>2. TypeOK
  BY GrantsAssumption DEF TypeOK, SurfaceTypeOK, BridgeTypeOK
<1>3. ASSUME NEW t \in Tickets PROVE TicketHolds(t)
  BY DEF TicketHolds, EntryHolds, BooksAgree, CallHolds
<1>4. IssuedOnce /\ WrittenReviewed
  BY <1>1 DEF IssuedOnce, WrittenReviewed
<1>5. ASSUME NEW h \in Handles PROVE FileHolds(h, files[h], apply, journal)
  BY <1>1 DEF FileHolds
<1>6. WrittenOnce /\ AnswersHold
  BY <1>1 DEF WrittenOnce, AnswersHold
<1>. QED
  BY <1>2, <1>3, <1>4, <1>5, <1>6 DEF IInv

LEMMA StepHolds == IInv /\ [Next]_vars => IInv'
<1>1. ASSUME IInv, SurfaceNext, UNCHANGED bridgeVars PROVE IInv'
  BY <1>1, TickKeeps, PruneKeeps, CheckKeeps, WriteJournalKeeps, ReturnKeeps, FailKeeps,
     RestartKeeps, ApplyKeeps, PreviewKeeps, OpenKeeps, ApproveKeeps, RejectKeeps
     DEF SurfaceNext
<1>2. ASSUME IInv, BridgeNext, UNCHANGED surfaceVars PROVE IInv'
  BY <1>2, WriteKeeps, ConsumeKeeps, ReportKeeps, StopKeeps, CreateKeeps, BeginKeeps, BuildKeeps
     DEF BridgeNext
<1>3. ASSUME IInv, UNCHANGED vars PROVE IInv'
  <2>1. BridgeTypeOK' /\ UNCHANGED <<surfaceVars, journal, answers>>
    BY <1>3 DEF vars, bridgeVars, IInv, TypeOK, BridgeTypeOK
  <2>2. \A h \in Handles : FileHolds(h, files'[h], apply', journal)
    BY <1>3 DEF vars, bridgeVars, IInv
  <2>. QED
    BY <1>3, <2>1, <2>2, BridgeQuiet
<1>. QED
  BY <1>1, <1>2, <1>3 DEF Next

(* What the two write fronts keep true together, for any number of clients, *)
(* tickets, handles, requests and commits.                                  *)
THEOREM FrontsInvariant == Spec => []IInv
<1>. QED
  BY InitHolds, StepHolds, PTL DEF Spec

(* Every variable of the two fronts stays in its domain.                    *)
THEOREM FrontsTypes == Spec => []TypeOK
<1>1. IInv => TypeOK
  BY DEF IInv
<1>. QED
  BY <1>1, FrontsInvariant, PTL

(* Nothing is committed over MCP that the user whom the client's grant      *)
(* names did not approve, from a page that showed it.                       *)
THEOREM CommitsAreReviewed == Spec => []WritesReviewed
<1>1. ASSUME IInv PROVE WritesReviewed
  <2>1. ASSUME NEW i \in issued, RowsBy(i.ticket) # {}
        PROVE  /\ \E a \in audit, o \in opened :
                     /\ a.ticket = i.ticket /\ o.ticket = i.ticket
                     /\ a.user = Grants[i.client].user /\ o.user = a.user
                     /\ a.decision = "approve" /\ a.review = i.request
               /\ ~\E a \in audit : a.ticket = i.ticket /\ a.decision = "reject"
               /\ \A p \in RowsBy(i.ticket) : journal[p[1]][p[2]].request = i.request
    <3>1. RowsBy(i.ticket) = Rows(journal, i.ticket)
      BY <1>1, RowsAreRowsBy DEF IInv
    <3>. QED
      BY <1>1, <2>1, <3>1 DEF IInv, WrittenReviewed, Confirmed
  <2>. QED
    BY <2>1 DEF WritesReviewed
<1>. QED
  BY <1>1, FrontsInvariant, PTL

(* The surface and its coordinators never disagree on which previews there  *)
(* are.                                                                     *)
THEOREM BooksAlwaysAgree == Spec => []PreviewsAccounted
<1>1. ASSUME IInv, NEW t \in Tickets
      PROVE  (registered[t] # None \/ t \in spent)
                 <=> (pending[t] # None /\ pending[t].state \in {"awaiting", "approved", "consumed"})
  <2>1. BooksAgree(t, pending[t], registered[t], spent, call)
    BY <1>1 DEF IInv, TicketHolds
  <2>2. call # None => call.at \in {"routed", "checked", "written"}
    BY <1>1 DEF IInv, TypeOK, SurfaceTypeOK, Call
  <2>. QED
    BY <2>1, <2>2 DEF BooksAgree
<1>2. IInv => PreviewsAccounted
  BY <1>1 DEF PreviewsAccounted
<1>. QED
  BY <1>2, FrontsInvariant, PTL

(* The directory of the bridge tells the truth after any crash.             *)
THEOREM FilesAreTrue == Spec => []FilesTellTruth
<1>1. ASSUME IInv, NEW h \in Handles, files[h] # NoFile
      PROVE  /\ files[h].at = "applied" => Cardinality(RowsBy(h)) = 1
             /\ files[h].at = "draft" => RowsBy(h) = {}
             /\ files[h].at = "pending" /\ RowsBy(h) # {} =>
                   Stale(files[h].request, files[h].base)
  <2>1. FileHolds(h, files[h], apply, journal) /\ RowsBy(h) = Rows(journal, h)
    BY <1>1, RowsAreRowsBy DEF IInv
  <2>2. ASSUME files[h].at = "applied" PROVE Cardinality(RowsBy(h)) = 1
    <3>1. PICK p \in RowsBy(h) : TRUE
      BY <1>1, <2>1, <2>2 DEF FileHolds
    <3>2. RowsBy(h) = {p}
      BY <1>1, <2>1, <3>1 DEF IInv, WrittenOnce
    <3>. QED
      BY <3>2, FS_Singleton
  <2>3. ASSUME files[h].at = "pending", RowsBy(h) # {}
        PROVE  Stale(files[h].request, files[h].base)
    <3>1. files[h] \in File
      BY <1>1, FileTyped DEF IInv
    <3>2. /\ files[h].base \in Nat /\ KindOf[files[h].request] \in Kinds
      BY <3>1, FileNone, RequestsAssumption
    <3>3. files[h].base < Len(journal[KindOf[files[h].request]])
      BY <1>1, <2>1, <2>3 DEF FileHolds
    <3>. QED
      BY <1>1, <3>2, <3>3, JournalTyped DEF Stale, IInv
  <2>. QED
    BY <1>1, <2>1, <2>2, <2>3 DEF FileHolds
<1>2. IInv => FilesTellTruth
  BY <1>1 DEF FilesTellTruth
<1>. QED
  BY <1>2, FrontsInvariant, PTL

(* An answer "applied" holds, whatever the other front does.                *)
THEOREM AnswersAreTrue == Spec => []AppliedAnswersHold
<1>1. ASSUME IInv, NEW a \in answers
      PROVE  \E p \in RowsBy(a.by) : /\ RowsBy(a.by) = {p}
                                     /\ ~a.matches => p[2] < Version(p[1])
  <2>1. a.by \in Tickets \union Handles
    BY <1>1 DEF IInv, TypeOK
  <2>2. RowsBy(a.by) = Rows(journal, a.by)
    BY <1>1, RowsAreRowsBy DEF IInv
  <2>3. PICK p \in Rows(journal, a.by) : ~a.matches => p[2] < Len(journal[p[1]])
    BY <1>1 DEF IInv, AnswersHold
  <2>4. Rows(journal, a.by) = {p}
    BY <1>1, <2>1, <2>3 DEF IInv, WrittenOnce
  <2>. QED
    BY <2>2, <2>3, <2>4 DEF Version
<1>2. IInv => AppliedAnswersHold
  BY <1>1 DEF AppliedAnswersHold
<1>. QED
  BY <1>2, FrontsInvariant, PTL
================================================================================
