----------------------- MODULE SessionPublicationProofs ------------------------
(* Proofs about SessionPublication: what is listed is there, what was       *)
(* published stays, an idea once invalid for good stays so, the store of    *)
(* sources binds each document once, and the guarded command publishes a    *)
(* session once.  They hold for every set of bundles, publishers and        *)
(* registrars, streams of any length and any number of deaths.              *)
EXTENDS SessionPublication, WellFoundedInduction, TLAPS

(***************************************************************************)
(* Streams, their prefixes and their events.                                *)
(***************************************************************************)
LEMMA PrefixIsPart ==
    ASSUME NEW A, NEW B, NEW s \in Seq(A), NEW t \in Seq(B), IsPrefix(s, t),
           NEW l \in 0 .. Len(s)
    PROVE  l \in 0 .. Len(t) /\ SubSeq(s, 1, l) = SubSeq(t, 1, l)
<1>1. /\ Len(s) \in Nat /\ Len(t) \in Nat /\ Len(s) <= Len(t)
      /\ SubSeq(s, 1, Len(s)) = SubSeq(t, 1, Len(s))
  BY DEF IsPrefix
<1>2. \A i \in 1 .. Len(s) : s[i] = t[i]
  <2>. SUFFICES ASSUME NEW i \in 1 .. Len(s) PROVE s[i] = t[i]
    OBVIOUS
  <2>1. SubSeq(s, 1, Len(s))[i] = s[i] /\ SubSeq(t, 1, Len(s))[i] = t[i]
    BY <1>1
  <2>. QED
    BY <1>1, <2>1
<1>3. l \in 0 .. Len(t)
  BY <1>1
<1>4. /\ SubSeq(s, 1, l) \in Seq(A \union B) /\ SubSeq(t, 1, l) \in Seq(A \union B)
      /\ Len(SubSeq(s, 1, l)) = l /\ Len(SubSeq(t, 1, l)) = l
  <2>1. s \in Seq(A \union B) /\ t \in Seq(A \union B)
    OBVIOUS
  <2>2. \A i \in 1 .. l : s[i] \in A \union B /\ t[i] \in A \union B
    BY <1>1, <2>1
  <2>. QED
    BY <1>1, <1>3, <2>1, <2>2
<1>5. \A i \in 1 .. l : SubSeq(s, 1, l)[i] = SubSeq(t, 1, l)[i]
  BY <1>1, <1>2, <1>3
<1>. QED
  BY <1>3, <1>4, <1>5

LEMMA PrefixesGrow ==
    ASSUME NEW A, NEW B, NEW s \in Seq(A), NEW t \in Seq(B), IsPrefix(s, t)
    PROVE  Prefixes(s) \subseteq Prefixes(t)
BY PrefixIsPart DEF Prefixes

LEMMA PrefixReflexive ==
    ASSUME NEW A, NEW s \in Seq(A)
    PROVE  IsPrefix(s, s)
BY DEF IsPrefix

LEMMA PrefixTransitive ==
    ASSUME NEW A, NEW B, NEW C, NEW s \in Seq(A), NEW t \in Seq(B), NEW u \in Seq(C),
           IsPrefix(s, t), IsPrefix(t, u)
    PROVE  IsPrefix(s, u)
<1>1. Len(s) \in Nat /\ Len(t) \in Nat /\ Len(u) \in Nat
  OBVIOUS
<1>2. Len(s) <= Len(t) /\ Len(t) <= Len(u)
  BY DEF IsPrefix
<1>3. Len(s) \in 0 .. Len(s) /\ Len(s) \in 0 .. Len(t)
  BY <1>1, <1>2
<1>4. SubSeq(s, 1, Len(s)) = SubSeq(t, 1, Len(s))
  BY <1>3, PrefixIsPart
<1>5. SubSeq(t, 1, Len(s)) = SubSeq(u, 1, Len(s))
  BY <1>3, PrefixIsPart
<1>. QED
  BY <1>1, <1>2, <1>4, <1>5 DEF IsPrefix

(* One prefix of each length.                                               *)
LEMMA PrefixByLength ==
    ASSUME NEW A, NEW s \in Seq(A), NEW a \in Prefixes(s), NEW b \in Prefixes(s),
           Len(a) = Len(b)
    PROVE  a = b
<1>1. PICK l \in 0 .. Len(s) : a = SubSeq(s, 1, l)
  BY DEF Prefixes
<1>2. PICK m \in 0 .. Len(s) : b = SubSeq(s, 1, m)
  BY DEF Prefixes
<1>3. Len(a) = l /\ Len(b) = m
  BY <1>1, <1>2
<1>. QED
  BY <1>1, <1>2, <1>3

LEMMA ExtendsReflexive ==
    ASSUME NEW s \in StreamsSet
    PROVE  Extends(s, s)
BY StreamsAssumption, PrefixReflexive DEF Extends

LEMMA ExtendsTransitive ==
    ASSUME NEW s \in StreamsSet, NEW t \in StreamsSet, NEW u \in StreamsSet,
           Extends(s, t), Extends(t, u)
    PROVE  Extends(s, u)
<1>1. /\ s.authority \in Seq(ToSet(s.authority)) /\ s.context \in Seq(ToSet(s.context))
      /\ t.authority \in Seq(ToSet(t.authority)) /\ t.context \in Seq(ToSet(t.context))
      /\ u.authority \in Seq(ToSet(u.authority)) /\ u.context \in Seq(ToSet(u.context))
  BY StreamsAssumption
<1>2. IsPrefix(u.authority, s.authority)
  BY <1>1, PrefixTransitive DEF Extends
<1>3. IsPrefix(u.context, s.context)
  BY <1>1, PrefixTransitive DEF Extends
<1>. QED
  BY <1>2, <1>3 DEF Extends

(* Longer lists have the events of shorter ones.                            *)
LEMMA ExtendedEvents ==
    ASSUME NEW s \in StreamsSet, NEW t \in StreamsSet, Extends(s, t)
    PROVE  EventsOf(t) \subseteq EventsOf(s)
<1>1. /\ s.authority \in Seq(ToSet(s.authority)) /\ s.context \in Seq(ToSet(s.context))
      /\ t.authority \in Seq(ToSet(t.authority)) /\ t.context \in Seq(ToSet(t.context))
  BY StreamsAssumption
<1>2. Prefixes(t.authority) \subseteq Prefixes(s.authority)
  BY <1>1, PrefixesGrow DEF Extends
<1>3. Prefixes(t.context) \subseteq Prefixes(s.context)
  BY <1>1, PrefixesGrow DEF Extends
<1>. QED
  BY <1>2, <1>3 DEF EventsOf

OnePathEach(events) == \A e, f \in events : PathOf(e) = PathOf(f) => e = f

LEMMA EventByPath ==
    ASSUME NEW s \in StreamsSet
    PROVE  OnePathEach(EventsOf(s))
<1>. SUFFICES ASSUME NEW e \in EventsOf(s), NEW f \in EventsOf(s), PathOf(e) = PathOf(f)
              PROVE  e = f
  BY DEF OnePathEach
<1>1. s.authority \in Seq(ToSet(s.authority)) /\ s.context \in Seq(ToSet(s.context))
  BY StreamsAssumption
<1>2. e[1] = f[1] /\ Len(e[2]) = Len(f[2])
  BY DEF PathOf
<1>3. e = <<e[1], e[2]>> /\ f = <<f[1], f[2]>>
  BY DEF EventsOf
<1>4. CASE e[1] = "authority"
  <2>1. e[2] \in Prefixes(s.authority) /\ f[2] \in Prefixes(s.authority)
    BY <1>2, <1>4 DEF EventsOf
  <2>. QED
    BY <1>1, <1>2, <1>3, <2>1, PrefixByLength
<1>5. CASE e[1] # "authority"
  <2>1. e[2] \in Prefixes(s.context) /\ f[2] \in Prefixes(s.context)
    BY <1>2, <1>5 DEF EventsOf
  <2>. QED
    BY <1>1, <1>2, <1>3, <2>1, PrefixByLength
<1>. QED
  BY <1>4, <1>5

(***************************************************************************)
(* What a stream says of its ideas.  Replay folds over sets of positions,   *)
(* the greatest taken last; read from the first on, that is one element     *)
(* after the other.                                                         *)
(***************************************************************************)
LEMMA StepByStep ==
    ASSUME NEW n \in Nat, NEW G, 0 \in G, \A k \in 1 .. n : k - 1 \in G => k \in G
    PROVE  \A k \in 0 .. n : k \in G
<1>. DEFINE Bad == {k \in 0 .. n : k \notin G}
<1>1. SUFFICES ASSUME Bad # {} PROVE FALSE
  OBVIOUS
<1>2. IsWellFoundedOn(OpToRel(<, Nat), Nat)
  BY NatLessThanWellFounded
<1>3. Bad \in SUBSET Nat
  OBVIOUS
<1>4. PICK k \in Bad : \A j \in Bad : ~ (<<j, k>> \in OpToRel(<, Nat))
  <2>. HIDE DEF Bad
  <2>. QED
    BY <1>1, <1>2, <1>3, WFMin, Zenon
<1>5. \A j \in Bad : ~ (j < k)
  BY <1>3, <1>4 DEF OpToRel
<1>6. k \in 1 .. n /\ k \notin G
  OBVIOUS
<1>7. k - 1 \notin Bad /\ k - 1 \in 0 .. n
  BY <1>5, <1>6
<1>. QED
  BY <1>6, <1>7

(* One element: an amendment of a stream, or an operation of an amendment.  *)
Taken(ofStream, st, e) ==
    IF ofStream THEN ApplyAmendment(st, e.payload) ELSE ApplyOperation(st, e)

Folds(f, D, ofStream, base, q) ==
    f = [S \in D |-> IF S = {} THEN base ELSE Taken(ofStream, f[S \ {Max(S)}], q[Max(S)])]

(* A part of 1 .. n that is not empty has a greatest element.               *)
LEMMA GreatestOfPart ==
    ASSUME NEW n \in Nat
    PROVE  \A S \in SUBSET (1 .. n) : S # {} => Max(S) \in S /\ \A k \in S : k <= Max(S)
<1>. DEFINE G == {m \in Nat : \A S \in SUBSET (1 .. m) :
                                 S # {} => \E x \in S : \A k \in S : x >= k}
<1>1. 0 \in G
  <2>1. 1 .. 0 = {}
    OBVIOUS
  <2>. QED
    BY <2>1
<1>2. ASSUME NEW m \in 1 .. n, m - 1 \in G
      PROVE  m \in G
  <2>1. ASSUME NEW S \in SUBSET (1 .. m), S # {}
        PROVE  \E x \in S : \A k \in S : x >= k
    <3>1. CASE m \in S
      BY <3>1
    <3>2. CASE m \notin S
      <4>1. S \in SUBSET (1 .. m - 1)
        BY <3>2
      <4>. QED
        BY <1>2, <2>1, <4>1
    <3>. QED
      BY <3>1, <3>2
  <2>. QED
    BY <2>1
<1>3. n \in G
  <2>. HIDE DEF G
  <2>. QED
    BY <1>1, <1>2, StepByStep
<1>4. ASSUME NEW S \in SUBSET (1 .. n), S # {}
      PROVE  Max(S) \in S /\ \A k \in S : k <= Max(S)
  <2>1. \E x \in S : \A k \in S : x >= k
    BY <1>3, <1>4
  <2>2. Max(S) \in S /\ \A k \in S : Max(S) >= k
    BY <2>1 DEF Max
  <2>. QED
    BY <2>2
<1>. QED
  BY <1>4

LEMMA FoldExists ==
    ASSUME NEW n \in Nat, NEW ofStream, NEW base, NEW q
    PROVE  \E f : Folds(f, SUBSET (1 .. n), ofStream, base, q)
<1>. DEFINE G == {m \in Nat : \E f : Folds(f, SUBSET (1 .. m), ofStream, base, q)}
<1>1. 0 \in G
  <2>. DEFINE f == [S \in SUBSET (1 .. 0) |-> base]
  <2>1. Folds(f, SUBSET (1 .. 0), ofStream, base, q)
    BY DEF Folds
  <2>. QED
    BY <2>1
<1>2. ASSUME NEW m \in 1 .. n, m - 1 \in G
      PROVE  m \in G
  <2>1. PICK g : Folds(g, SUBSET (1 .. m - 1), ofStream, base, q)
    BY <1>2
  <2>. DEFINE Value(S) == IF S = {} THEN base ELSE Taken(ofStream, g[S \ {Max(S)}], q[Max(S)])
             f == [S \in SUBSET (1 .. m) |-> Value(S)]
  <2>2. \A S \in SUBSET (1 .. m - 1) : g[S] = Value(S) /\ S \in SUBSET (1 .. m)
    <3>1. \A S \in SUBSET (1 .. m - 1) : g[S] = Value(S)
      BY <2>1 DEF Folds
    <3>2. 1 .. m - 1 \subseteq 1 .. m
      BY <1>2
    <3>. HIDE DEF Value
    <3>. QED
      BY <3>1, <3>2
  <2>3. ASSUME NEW S \in SUBSET (1 .. m), S # {}
        PROVE  S \ {Max(S)} \in SUBSET (1 .. m - 1)
    <3>1. m \in Nat /\ S \subseteq 1 .. m
      BY <2>3
    <3>2. Max(S) \in S /\ \A k \in S : k <= Max(S)
      BY <2>3, <3>1, GreatestOfPart
    <3>3. ASSUME NEW k \in S \ {Max(S)} PROVE k \in 1 .. m - 1
      <4>1. k \in 1 .. m /\ Max(S) \in 1 .. m /\ k <= Max(S) /\ k # Max(S)
        BY <3>1, <3>2
      <4>. QED
        BY <3>1, <4>1
    <3>. QED
      BY <3>3
  <2>4. \A S \in SUBSET (1 .. m) : S # {} => f[S \ {Max(S)}] = g[S \ {Max(S)}]
    <3>1. \A S \in SUBSET (1 .. m - 1) : f[S] = g[S]
      <4>. HIDE DEF Value
      <4>. QED
        BY <2>2
    <3>. HIDE DEF f
    <3>. QED
      BY <2>3, <3>1
  <2>5. \A S \in SUBSET (1 .. m) :
           Value(S) = IF S = {} THEN base ELSE Taken(ofStream, f[S \ {Max(S)}], q[Max(S)])
    <3>. HIDE DEF f
    <3>. QED
      BY <2>4
  <2>6. f = [S \in SUBSET (1 .. m) |->
               IF S = {} THEN base ELSE Taken(ofStream, f[S \ {Max(S)}], q[Max(S)])]
    <3>. HIDE DEF Value
    <3>. QED
      BY <2>5
  <2>7. Folds(f, SUBSET (1 .. m), ofStream, base, q)
    <3>. HIDE DEF f
    <3>. QED
      BY <2>6 DEF Folds
  <2>. QED
    BY <2>7
<1>. HIDE DEF G
<1>3. n \in G
  BY <1>1, <1>2, StepByStep
<1>. QED
  BY <1>3 DEF G

(* h is what a list says after each of its elements.                        *)
Reading(h, n, ofStream, base, q) ==
    h[0] = base /\ \A k \in 1 .. n : h[k] = Taken(ofStream, h[k - 1], q[k])

LEMMA FoldIsReading ==
    ASSUME NEW n \in Nat, NEW ofStream, NEW base, NEW q,
           NEW f, Folds(f, SUBSET (1 .. n), ofStream, base, q),
           NEW h, h = [k \in 0 .. n |-> f[1 .. k]]
    PROVE  Reading(h, n, ofStream, base, q) /\ h[n] = f[1 .. n]
<1>1. h[0] = base
  <2>1. {} \in SUBSET (1 .. n) /\ 1 .. 0 = {} /\ 0 \in 0 .. n
    OBVIOUS
  <2>2. f[{}] = base
    BY <2>1 DEF Folds
  <2>. QED
    BY <2>1, <2>2
<1>2. ASSUME NEW k \in 1 .. n
      PROVE  h[k] = Taken(ofStream, h[k - 1], q[k])
  <2>1. 1 .. k \in SUBSET (1 .. n) /\ k \in 1 .. k
    <3>1. \A i \in 1 .. k : i \in 1 .. n
      OBVIOUS
    <3>. QED
      BY <3>1
  <2>2. Max(1 .. k) = k
    <3>1. Max(1 .. k) \in 1 .. k /\ k <= Max(1 .. k)
      <4>1. 1 .. k # {}
        BY <2>1
      <4>. QED
        BY <2>1, <4>1, GreatestOfPart
    <3>. HIDE DEF Max
    <3>2. \A x \in 1 .. k : k <= x => x = k
      OBVIOUS
    <3>. QED
      BY <3>1, <3>2
  <2>3. (1 .. k) \ {k} = 1 .. (k - 1)
    OBVIOUS
  <2>4. f[1 .. k] = Taken(ofStream, f[1 .. (k - 1)], q[k])
    BY <2>1, <2>2, <2>3 DEF Folds
  <2>5. h[k] = f[1 .. k] /\ h[k - 1] = f[1 .. (k - 1)]
    OBVIOUS
  <2>. QED
    BY <2>4, <2>5
<1>3. h[n] = f[1 .. n]
  <2>1. n \in 0 .. n
    OBVIOUS
  <2>. QED
    BY <2>1
<1>. QED
  BY <1>1, <1>2, <1>3 DEF Reading

(* The amendments of a stream are read one after the other.                 *)
LEMMA AmendmentsAreRead ==
    ASSUME NEW A, NEW q \in Seq(A), NEW base
    PROVE  \E h : /\ Reading(h, Len(q), TRUE, base, q)
                  /\ h[Len(q)] =
                        FoldLeft(LAMBDA st, row : ApplyAmendment(st, row.payload), base, q)
<1>1. Len(q) \in Nat /\ DOMAIN q = 1 .. Len(q)
  OBVIOUS
<1>. DEFINE D == SUBSET DOMAIN q
            IsFold(f) == f = [S \in D |-> IF S = {} THEN base
                              ELSE ApplyAmendment(f[S \ {Max(S)}], q[Max(S)].payload)]
<1>2. FoldLeft(LAMBDA st, row : ApplyAmendment(st, row.payload), base, q)
        = (CHOOSE f : IsFold(f))[DOMAIN q]
  BY DEF FoldLeft, MapThenFoldSet
<1>3. \A f : IsFold(f) <=> Folds(f, D, TRUE, base, q)
  BY DEF Folds, Taken
<1>. HIDE DEF IsFold
<1>4. \E f : IsFold(f)
  BY <1>1, <1>3, FoldExists
<1>5. PICK f : f = (CHOOSE g : IsFold(g))
  OBVIOUS
<1>6. Folds(f, D, TRUE, base, q)
  BY <1>3, <1>4, <1>5
<1>. DEFINE h == [k \in 0 .. Len(q) |-> f[1 .. k]]
<1>7. Folds(f, SUBSET (1 .. Len(q)), TRUE, base, q)
  BY <1>1, <1>6
<1>8. Reading(h, Len(q), TRUE, base, q) /\ h[Len(q)] = f[1 .. Len(q)]
  <2>. HIDE DEF D
  <2>. QED
    BY <1>1, <1>7, FoldIsReading
<1>. HIDE DEF h
<1>. QED
  BY <1>1, <1>2, <1>5, <1>8

(* So are the operations of an amendment.                                   *)
LEMMA OperationsAreRead ==
    ASSUME NEW A, NEW q \in Seq(A), NEW base
    PROVE  \E h : /\ Reading(h, Len(q), FALSE, base, q)
                  /\ h[Len(q)] = FoldLeft(ApplyOperation, base, q)
<1>1. Len(q) \in Nat /\ DOMAIN q = 1 .. Len(q)
  OBVIOUS
<1>. DEFINE D == SUBSET DOMAIN q
            IsFold(f) == f = [S \in D |-> IF S = {} THEN base
                              ELSE ApplyOperation(f[S \ {Max(S)}], q[Max(S)])]
<1>2. FoldLeft(ApplyOperation, base, q) = (CHOOSE f : IsFold(f))[DOMAIN q]
  BY DEF FoldLeft, MapThenFoldSet
<1>3. \A f : IsFold(f) <=> Folds(f, D, FALSE, base, q)
  BY DEF Folds, Taken
<1>. HIDE DEF IsFold
<1>4. \E f : IsFold(f)
  BY <1>1, <1>3, FoldExists
<1>5. PICK f : f = (CHOOSE g : IsFold(g))
  OBVIOUS
<1>6. Folds(f, D, FALSE, base, q)
  BY <1>3, <1>4, <1>5
<1>. DEFINE h == [k \in 0 .. Len(q) |-> f[1 .. k]]
<1>7. Folds(f, SUBSET (1 .. Len(q)), FALSE, base, q)
  BY <1>1, <1>6
<1>8. Reading(h, Len(q), FALSE, base, q) /\ h[Len(q)] = f[1 .. Len(q)]
  <2>. HIDE DEF D
  <2>. QED
    BY <1>1, <1>7, FoldIsReading
<1>. HIDE DEF h
<1>. QED
  BY <1>1, <1>2, <1>5, <1>8

(* Two lists say the same as far as they agree.                             *)
LEMMA SameReading ==
    ASSUME NEW n \in Nat, NEW m \in 0 .. n, NEW ofStream, NEW base, NEW q, NEW r,
           \A k \in 1 .. m : q[k] = r[k],
           NEW g, Reading(g, m, ofStream, base, q),
           NEW h, Reading(h, n, ofStream, base, r)
    PROVE  g[m] = h[m]
<1>. DEFINE G == {k \in 0 .. m : g[k] = h[k]}
<1>1. 0 \in G
  BY DEF Reading
<1>2. ASSUME NEW k \in 1 .. m, k - 1 \in G
      PROVE  k \in G
  BY <1>2 DEF Reading
<1>3. m \in Nat /\ m \in 0 .. m
  OBVIOUS
<1>. HIDE DEF G
<1>4. m \in G
  BY <1>1, <1>2, <1>3, StepByStep
<1>. QED
  BY <1>4 DEF G

(***************************************************************************)
(* An idea that is invalid for good stays so, as long as no operation is    *)
(* refused.                                                                 *)
(***************************************************************************)
Tidy(st) ==
    /\ st = [ok |-> st.ok, records |-> st.records, statuses |-> st.statuses,
             authorized |-> st.authorized]
    /\ st.ok \in BOOLEAN
    /\ DOMAIN st.statuses = DOMAIN st.records

Off(st) == {i \in DOMAIN st.statuses : st.statuses[i] = "hard_invalidation"}

Keeps(st, later) == later.ok => st.ok /\ Off(st) \subseteq Off(later)

(* No operation is allowed on such an idea, except that none can add it.    *)
LEMMA OperationKeeps ==
    ASSUME NEW st, Tidy(st), NEW op
    PROVE  Tidy(ApplyOperation(st, op)) /\ Keeps(st, ApplyOperation(st, op))
<1>1. CASE ~st.ok \/ ~OperationAllowed(st, op)
  <2>1. ApplyOperation(st, op) = [ok |-> FALSE, records |-> st.records,
                                  statuses |-> st.statuses, authorized |-> st.authorized]
    BY <1>1 DEF ApplyOperation, Tidy
  <2>. QED
    BY <2>1 DEF Tidy, Keeps
<1>2. CASE st.ok /\ OperationAllowed(st, op)
  <2>. DEFINE ids == DOMAIN st.records \union {op.id}
             record == IF op.record = Unset THEN st.records[op.id] ELSE op.record
             records == [i \in ids |-> IF i = op.id THEN record ELSE st.records[i]]
             statuses == [i \in ids |-> IF i = op.id THEN StatusAfter(st, op)
                                        ELSE st.statuses[i]]
             new == [ok |-> TRUE, records |-> records, statuses |-> statuses,
                     authorized |-> st.authorized]
  <2>1. ApplyOperation(st, op) = new
    <3>1. ApplyOperation(st, op) = [st EXCEPT !.records = records, !.statuses = statuses]
      BY <1>2 DEF ApplyOperation
    <3>. HIDE DEF records, statuses
    <3>. QED
      BY <1>2, <3>1 DEF Tidy
  <2>2. DOMAIN records = ids /\ DOMAIN statuses = ids
    OBVIOUS
  <2>3. ASSUME NEW i \in Off(st)
        PROVE  i \in Off(new)
    <3>1. i \in DOMAIN st.records /\ st.statuses[i] = "hard_invalidation" /\ i \in ids
      BY DEF Off, Tidy
    <3>2. CASE i # op.id
      BY <3>1, <3>2 DEF Off
    <3>3. CASE i = op.id
      <4>1. op.kind = "hard_invalidation" => FALSE
        BY <1>2, <3>1, <3>3 DEF OperationAllowed, Terminal
      <4>2. ~OperationAllowed(st, op)
        BY <3>1, <3>3 DEF OperationAllowed, Terminal, Restorable, Known
      <4>. QED
        BY <1>2, <4>2
    <3>. QED
      BY <3>2, <3>3
  <2>4. Tidy(new)
    <3>. HIDE DEF records, statuses, ids
    <3>. QED
      BY <2>2 DEF Tidy
  <2>. HIDE DEF new
  <2>. QED
    BY <1>2, <2>1, <2>3, <2>4 DEF Keeps
<1>. QED
  BY <1>1, <1>2 DEF Tidy

LEMMA KeepsOnAndOn ==
    ASSUME NEW a, NEW b, NEW c, Keeps(a, b), Keeps(b, c)
    PROVE  Keeps(a, c)
BY DEF Keeps

(* Nor is it lost in an amendment: what the amendment cites is no status.   *)
LEMMA AmendmentKeeps ==
    ASSUME NEW st, Tidy(st), NEW p, NEW A, p.operations \in Seq(A)
    PROVE  Tidy(ApplyAmendment(st, p)) /\ Keeps(st, ApplyAmendment(st, p))
<1>. DEFINE q == p.operations
            cited == [st EXCEPT !.authorized = @ \union {p.source.doc},
                                !.ok = @ /\ AmendmentValid(p)]
            valid == st.ok /\ AmendmentValid(p)
<1>1. cited = [ok |-> valid, records |-> st.records, statuses |-> st.statuses,
               authorized |-> st.authorized \union {p.source.doc}]
  <2>1. ASSUME NEW d, NEW v
        PROVE  [st EXCEPT !.authorized = d, !.ok = v] =
               [ok |-> v, records |-> st.records, statuses |-> st.statuses, authorized |-> d]
    <3>. DEFINE x == [st EXCEPT !.authorized = d]
    <3>1. x = [ok |-> st.ok, records |-> st.records, statuses |-> st.statuses,
               authorized |-> d]
      BY DEF Tidy
    <3>2. [st EXCEPT !.authorized = d, !.ok = v] = [x EXCEPT !.ok = v]
      OBVIOUS
    <3>. HIDE DEF x
    <3>. QED
      BY <3>1, <3>2
  <2>2. cited = [st EXCEPT !.authorized = st.authorized \union {p.source.doc}, !.ok = valid]
    OBVIOUS
  <2>. HIDE DEF cited, valid
  <2>. QED
    BY <2>1, <2>2
<1>2. Tidy(cited) /\ Keeps(st, cited)
  <2>. HIDE DEF cited
  <2>. QED
    BY <1>1 DEF Tidy, Keeps, Off
<1>3. ApplyAmendment(st, p) = FoldLeft(ApplyOperation, cited, q)
  BY DEF ApplyAmendment
<1>. HIDE DEF cited
<1>4. PICK h : /\ Reading(h, Len(q), FALSE, cited, q)
               /\ h[Len(q)] = FoldLeft(ApplyOperation, cited, q)
  BY OperationsAreRead
<1>5. Len(q) \in Nat /\ Len(q) \in 0 .. Len(q)
  OBVIOUS
<1>. DEFINE G == {k \in 0 .. Len(q) : Tidy(h[k]) /\ Keeps(st, h[k])}
<1>. HIDE DEF q
<1>6. 0 \in G
  BY <1>2, <1>4, <1>5 DEF Reading
<1>7. ASSUME NEW k \in 1 .. Len(q), k - 1 \in G
      PROVE  k \in G
  <2>1. h[k] = ApplyOperation(h[k - 1], q[k])
    BY <1>4 DEF Reading, Taken
  <2>2. Tidy(h[k]) /\ Keeps(h[k - 1], h[k])
    BY <1>7, <2>1, OperationKeeps
  <2>3. Keeps(st, h[k])
    BY <1>7, <2>2, KeepsOnAndOn
  <2>. QED
    BY <1>5, <2>2, <2>3
<1>. HIDE DEF G
<1>8. Len(q) \in G
  BY <1>5, <1>6, <1>7, StepByStep
<1>. QED
  BY <1>3, <1>4, <1>8 DEF G

(* A brief calls no idea invalid, and every idea has a status.              *)
LEMMA BriefIsTidy ==
    ASSUME NEW p
    PROVE  Tidy(BriefState(p))
BY DEF BriefState, BriefValid, Tidy

(* What the producer accepted replays to its end.                           *)
LEMMA PublishableReplays ==
    ASSUME NEW s \in StreamsSet
    PROVE  s.authority # << >> /\ Replay(s.authority).ok
<1>1. PICK rows \in DOMAIN Streams : s = Streams[rows]
  BY DEF StreamsSet
<1>2. rows \in {r \in Bundles : Publishable(r)} /\ s = StreamsOf(rows)
  BY <1>1 DEF Streams
<1>3. ChainValid(s.authority)
  BY <1>2 DEF Publishable
<1>. QED
  BY <1>3 DEF ChainValid

LEMMA InvalidStaysInvalid ==
    ASSUME NEW s \in StreamsSet, NEW t \in StreamsSet, Extends(t, s)
    PROVE  InvalidIdeas[s] \subseteq InvalidIdeas[t]
<1>. DEFINE a == s.authority
            b == t.authority
            base == BriefState(b[1].payload)
            m == Len(Tail(a))
            n == Len(Tail(b))
<1>1. /\ a \in Seq(ToSet(a)) /\ b \in Seq(ToSet(b)) /\ IsPrefix(a, b)
      /\ a # << >> /\ b # << >> /\ Replay(b).ok
  BY StreamsAssumption, PublishableReplays DEF Extends
<1>2. /\ Len(a) \in Nat /\ Len(b) \in Nat /\ 1 <= Len(a) /\ Len(a) <= Len(b)
      /\ \A k \in 1 .. Len(a) : a[k] = b[k]
  <2>1. Len(a) \in Nat /\ Len(b) \in Nat /\ 1 <= Len(a) /\ Len(a) <= Len(b)
    BY <1>1 DEF IsPrefix
  <2>2. SubSeq(a, 1, Len(a)) = SubSeq(b, 1, Len(a))
    BY <1>1 DEF IsPrefix
  <2>3. ASSUME NEW k \in 1 .. Len(a) PROVE a[k] = b[k]
    <3>1. SubSeq(a, 1, Len(a))[k] = a[k] /\ SubSeq(b, 1, Len(a))[k] = b[k]
      BY <1>1, <2>1
    <3>. QED
      BY <2>2, <3>1
  <2>. QED
    BY <2>1, <2>3
<1>3. /\ Tail(a) \in Seq(ToSet(a)) /\ Tail(b) \in Seq(ToSet(b))
      /\ m = Len(a) - 1 /\ n = Len(b) - 1
      /\ \A k \in 1 .. m : Tail(a)[k] = a[k + 1]
      /\ \A k \in 1 .. n : Tail(b)[k] = b[k + 1]
  <2>1. /\ Tail(a) \in Seq(ToSet(a)) /\ m = Len(a) - 1
        /\ \A k \in 1 .. m : Tail(a)[k] = a[k + 1]
    <3>1. a \in Seq(ToSet(a)) /\ a # << >>
      BY <1>1
    <3>. HIDE DEF a
    <3>. QED
      BY <3>1
  <2>2. /\ Tail(b) \in Seq(ToSet(b)) /\ n = Len(b) - 1
        /\ \A k \in 1 .. n : Tail(b)[k] = b[k + 1]
    <3>1. b \in Seq(ToSet(b)) /\ b # << >>
      BY <1>1
    <3>. HIDE DEF b
    <3>. QED
      BY <3>1
  <2>. QED
    BY <2>1, <2>2
<1>4. m \in 0 .. n /\ m \in Nat /\ n \in Nat /\ n \in m .. n /\ a[1] = b[1]
      /\ \A k \in 1 .. m : Tail(a)[k] = Tail(b)[k]
  <2>. HIDE DEF a, b, m, n
  <2>. QED
    BY <1>2, <1>3
<1>5. /\ Replay(a) = FoldLeft(LAMBDA st, row : ApplyAmendment(st, row.payload), base, Tail(a))
      /\ Replay(b) = FoldLeft(LAMBDA st, row : ApplyAmendment(st, row.payload), base, Tail(b))
  BY <1>4 DEF Replay
<1>6. PICK g : Reading(g, m, TRUE, base, Tail(a)) /\ g[m] = Replay(a)
  <2>. HIDE DEF base
  <2>. QED
    BY <1>3, <1>5, AmendmentsAreRead
<1>7. PICK h : Reading(h, n, TRUE, base, Tail(b)) /\ h[n] = Replay(b)
  <2>. HIDE DEF base
  <2>. QED
    BY <1>3, <1>5, AmendmentsAreRead
<1>8. g[m] = h[m]
  <2>. DEFINE q == Tail(a)
             r == Tail(b)
             ofStream == TRUE
  <2>1. Reading(g, m, ofStream, base, q) /\ Reading(h, n, ofStream, base, r)
    BY <1>6, <1>7
  <2>2. \A k \in 1 .. m : q[k] = r[k]
    BY <1>4
  <2>3. m \in 0 .. n /\ n \in Nat
    BY <1>4
  <2>. HIDE DEF base, m, n, q, r, ofStream
  <2>. QED
    BY <2>1, <2>2, <2>3, SameReading
<1>9. Tidy(h[0])
  BY <1>7, BriefIsTidy DEF Reading
<1>10. ASSUME NEW k \in 1 .. n, Tidy(h[k - 1])
       PROVE  Tidy(h[k]) /\ Keeps(h[k - 1], h[k])
  <2>1. b[k + 1].payload.operations \in Seq(ToSet(b[k + 1].payload.operations))
    <3>1. k + 1 \in 2 .. Len(b)
      BY <1>2, <1>3
    <3>. QED
      BY <3>1, OperationsAssumption
  <2>2. h[k] = ApplyAmendment(h[k - 1], b[k + 1].payload)
    BY <1>3, <1>7 DEF Reading, Taken
  <2>. QED
    BY <1>10, <2>1, <2>2, AmendmentKeeps
<1>. DEFINE G == {k \in 0 .. n : Tidy(h[k])}
            H == {k \in 0 .. n : m <= k => Keeps(h[m], h[k])}
<1>. HIDE DEF a, b, m, n, base
<1>11. \A k \in 0 .. n : k \in G
  <2>1. 0 \in G
    BY <1>4, <1>9
  <2>2. ASSUME NEW k \in 1 .. n, k - 1 \in G PROVE k \in G
    BY <1>4, <1>10, <2>2
  <2>. HIDE DEF G
  <2>. QED
    BY <1>4, <2>1, <2>2, StepByStep
<1>12. \A k \in 0 .. n : k \in H
  <2>1. 0 \in H
    BY <1>4 DEF Keeps
  <2>2. ASSUME NEW k \in 1 .. n, k - 1 \in H PROVE k \in H
    <3>1. Keeps(h[k - 1], h[k])
      BY <1>4, <1>10, <1>11
    <3>2. CASE m <= k - 1
      BY <1>4, <2>2, <3>1, <3>2, KeepsOnAndOn
    <3>3. CASE m = k
      BY <3>3 DEF Keeps
    <3>4. CASE k < m
      BY <1>4, <3>4
    <3>. QED
      BY <1>4, <3>2, <3>3, <3>4
  <2>. HIDE DEF H
  <2>. QED
    BY <1>4, <2>1, <2>2, StepByStep
<1>13. Off(h[m]) \subseteq Off(h[n])
  BY <1>1, <1>4, <1>7, <1>12 DEF Keeps, b
<1>14. InvalidIdeas[s] = Off(Replay(a)) /\ InvalidIdeas[t] = Off(Replay(b))
  BY DEF InvalidIdeas, Off, a, b
<1>. QED
  BY <1>6, <1>7, <1>8, <1>13, <1>14

(***************************************************************************)
(* The invariant of the exchange directory.  Who is inside the lock is its  *)
(* holder; what the holder found when it took the lock stays true until it  *)
(* changes it.                                                              *)
(***************************************************************************)
Inside(p) == pub[p].step \in {"staged", "indexed", "done"}

StreamsGiven == \A p \in Publishers : ~At(p, "idle") => pub[p].streams \in StreamsSet

OneInside == \A p \in Publishers : Inside(p) => holder = p

NothingYet == index = Unset => descriptor = Unset /\ placed = {} /\ told = {}

ListsAgree ==
    index # Unset =>
        /\ descriptor # Unset
        /\ EventsOf(index) \subseteq placed
        /\ Extends(index, descriptor)
        /\ \A s \in told : Extends(descriptor, s)

(* A publisher with its files staged has moved what is no longer to do.     *)
StagedFits ==
    \A p \in Publishers : At(p, "staged") /\ Exists =>
        /\ descriptor = index
        /\ Extends(pub[p].streams, index)
        /\ EventsOf(pub[p].streams) \subseteq placed \union pub[p].todo

ListedFits ==
    \A p \in Publishers :
        /\ At(p, "indexed") \/ At(p, "done") => index = pub[p].streams
        /\ At(p, "done") => descriptor = pub[p].streams

ExchangeInv ==
    /\ ExchangeTypeOK
    /\ StreamsGiven
    /\ OneInside
    /\ NothingYet
    /\ ListsAgree
    /\ OnePathEach(placed)
    /\ StagedFits
    /\ ListedFits

(* The lists and the event directories only grow.                           *)
HistoryKept ==
    /\ placed \subseteq placed'
    /\ index # Unset => index' # Unset /\ Extends(index', index)
    /\ descriptor # Unset => descriptor' # Unset /\ Extends(descriptor', descriptor)

FilesSame == UNCHANGED <<index, descriptor, placed, told>>

ListsInStreams ==
    /\ index # Unset => index \in StreamsSet
    /\ descriptor # Unset => descriptor \in StreamsSet

LEMMA ListsTyped ==
    ASSUME ExchangeInv
    PROVE  ListsInStreams
BY DEF ExchangeInv, ExchangeTypeOK, ListsInStreams

LEMMA SameIsKept ==
    ASSUME ExchangeInv, UNCHANGED <<index, descriptor>>, placed \subseteq placed'
    PROVE  HistoryKept
BY ListsTyped, ExtendsReflexive DEF HistoryKept, ListsInStreams

(* What a publisher is doing is a record of three fields.                   *)
Doing == [step : {"idle", "planned", "waiting", "staged", "indexed", "done"},
          streams : StreamsSet \union {EmptyStreams},
          todo : SUBSET AllEvents]

LEMMA DoingByParts ==
    ASSUME ExchangeInv, NEW p \in Publishers, NEW step, NEW todo
    PROVE  /\ [pub EXCEPT ![p].step = step] =
                 [pub EXCEPT ![p] = [step |-> step, streams |-> pub[p].streams,
                                     todo |-> pub[p].todo]]
           /\ [pub EXCEPT ![p].todo = todo] =
                 [pub EXCEPT ![p] = [step |-> pub[p].step, streams |-> pub[p].streams,
                                     todo |-> todo]]
<1>1. pub \in [Publishers -> Doing] /\ pub[p] \in Doing
  BY DEF ExchangeInv, ExchangeTypeOK, Doing
<1>. DEFINE d == pub[p]
<1>2. /\ [d EXCEPT !.step = step] = [step |-> step, streams |-> d.streams, todo |-> d.todo]
      /\ [d EXCEPT !.todo = todo] = [step |-> d.step, streams |-> d.streams, todo |-> todo]
  BY <1>1 DEF Doing
<1>. QED
  BY <1>1, <1>2

LEMMA ExchangeStarts ==
    ASSUME ExchangeInit
    PROVE  ExchangeInv
<1>1. ExchangeTypeOK
  BY FaultsAssumption DEF ExchangeInit, ExchangeTypeOK, Idle
<1>. QED
  BY <1>1 DEF ExchangeInit, ExchangeInv, StreamsGiven, OneInside, NothingYet, ListsAgree,
      OnePathEach, StagedFits, ListedFits, Exists, At, Inside, Idle

(* A step that leaves the files alone, and leaves each publisher where it   *)
(* was or ends its call, keeps the invariant.                               *)
Leaves(p) ==
    /\ FilesSame
    /\ staging' \subseteq StreamsSet
    /\ faults' \in 0 .. MaxFaults
    /\ pub' = [pub EXCEPT ![p] = Idle]
    /\ holder' \in Publishers \union {Unset}
    /\ holder' = holder \/ (holder = p /\ holder' = Unset)

LEMMA LeavingKeeps ==
    ASSUME ExchangeInv, NEW p \in Publishers, Leaves(p)
    PROVE  ExchangeInv'
<1>1. ExchangeTypeOK'
  BY DEF ExchangeInv, ExchangeTypeOK, Leaves, FilesSame, Idle
<1>2. /\ pub'[p].step = "idle"
      /\ \A q \in Publishers \ {p} : pub'[q] = pub[q]
  BY DEF ExchangeInv, ExchangeTypeOK, Leaves, Idle
<1>3. StreamsGiven'
  BY <1>2 DEF ExchangeInv, StreamsGiven, At
<1>4. OneInside'
  BY <1>2 DEF ExchangeInv, OneInside, Inside, Leaves
<1>5. StagedFits' /\ ListedFits'
  BY <1>2 DEF ExchangeInv, StagedFits, ListedFits, At, Exists, Leaves, FilesSame
<1>. QED
  BY <1>1, <1>3, <1>4, <1>5 DEF ExchangeInv, NothingYet, ListsAgree, OnePathEach, Leaves,
      FilesSame

(* Before it is inside, a publisher has its streams and no more.            *)
LEMMA ApproachKeeps ==
    ASSUME ExchangeInv, NEW p \in Publishers, FilesSame, UNCHANGED <<staging, holder, faults>>,
           NEW s \in StreamsSet, NEW step \in {"planned", "waiting"}, ~Inside(p),
           NEW todo \in SUBSET AllEvents,
           pub' = [pub EXCEPT ![p] = [step |-> step, streams |-> s, todo |-> todo]]
    PROVE  ExchangeInv'
<1>1. ExchangeTypeOK'
  BY DEF ExchangeInv, ExchangeTypeOK, FilesSame
<1>2. /\ pub'[p].step = step /\ pub'[p].streams = s
      /\ \A q \in Publishers \ {p} : pub'[q] = pub[q]
  BY DEF ExchangeInv, ExchangeTypeOK
<1>3. StreamsGiven'
  BY <1>2 DEF ExchangeInv, StreamsGiven, At
<1>4. OneInside'
  BY <1>2 DEF ExchangeInv, OneInside, Inside
<1>5. StagedFits' /\ ListedFits'
  BY <1>2 DEF ExchangeInv, StagedFits, ListedFits, At, Exists, FilesSame
<1>. QED
  BY <1>1, <1>3, <1>4, <1>5 DEF ExchangeInv, NothingYet, ListsAgree, OnePathEach, FilesSame

LEMMA PlanKeeps ==
    ASSUME ExchangeInv, NEW p \in Publishers, NEW rows \in Bundles, Plan(p, rows)
    PROVE  ExchangeInv' /\ HistoryKept
<1>1. Streams[rows] \in StreamsSet
  BY DEF Plan, StreamsSet
<1>2. ~Inside(p)
  BY DEF Plan, At, Inside
<1>3. pub' = [pub EXCEPT ![p] = [step |-> "planned", streams |-> Streams[rows], todo |-> {}]]
  BY DEF Plan
<1>4. FilesSame /\ UNCHANGED <<staging, holder, faults>>
  BY DEF Plan, FilesSame
<1>5. {} \in SUBSET AllEvents /\ "planned" \in {"planned", "waiting"}
  OBVIOUS
<1>6. ExchangeInv'
  BY <1>1, <1>2, <1>3, <1>4, <1>5, ApproachKeeps
<1>. QED
  BY <1>4, <1>6, SameIsKept DEF FilesSame

LEMMA CheckStagingKeeps ==
    ASSUME ExchangeInv, NEW p \in Publishers, CheckStaging(p)
    PROVE  ExchangeInv' /\ HistoryKept
<1>1. FilesSame /\ UNCHANGED <<staging, holder, faults>>
  BY DEF CheckStaging, FilesSame
<1>2. CASE End(p)
  <2>1. Leaves(p)
    BY <1>1, <1>2 DEF Leaves, End, ExchangeInv, ExchangeTypeOK
  <2>. QED
    BY <1>1, <2>1, LeavingKeeps, SameIsKept DEF FilesSame
<1>3. CASE Goto(p, "waiting")
  <2>1. pub[p].streams \in StreamsSet /\ pub[p].todo \in SUBSET AllEvents /\ ~Inside(p)
    BY DEF CheckStaging, At, Inside, ExchangeInv, ExchangeTypeOK, StreamsGiven
  <2>2. pub' = [pub EXCEPT ![p] = [step |-> "waiting", streams |-> pub[p].streams,
                                   todo |-> pub[p].todo]]
    BY <1>3, DoingByParts DEF Goto
  <2>3. ExchangeInv'
    BY <1>1, <2>1, <2>2, ApproachKeeps
  <2>. QED
    BY <1>1, <2>3, SameIsKept DEF FilesSame
<1>. QED
  BY <1>2, <1>3 DEF CheckStaging

(* Taking the lock with files to stage.                                     *)
LEMMA StageKeeps ==
    ASSUME ExchangeInv, NEW p \in Publishers, At(p, "waiting"), holder = Unset, Stage(p),
           FilesSame, UNCHANGED faults, pub[p].streams \notin staging
    PROVE  ExchangeInv'
<1>. DEFINE s == pub[p].streams
            new == IF Exists THEN NewEvents(s, index) ELSE {}
<1>1. /\ s \in StreamsSet
      /\ Exists => index \in StreamsSet /\ CanExtend(s)
      /\ staging' = staging \union {s} /\ holder' = p
      /\ pub' = [pub EXCEPT ![p] = [step |-> "staged", streams |-> s, todo |-> new]]
  BY ListsTyped DEF Stage, At, ExchangeInv, StreamsGiven, Exists, ListsInStreams
<1>2. new \subseteq AllEvents
  BY <1>1 DEF NewEvents, AllEvents
<1>3. pub' = [pub EXCEPT ![p] = [step |-> "staged", streams |-> s, todo |-> new]]
  BY <1>1
<1>4. Exists => EventsOf(s) \subseteq placed \union new
  BY <1>1 DEF CanExtend, NewEvents
<1>. HIDE DEF s, new
<1>5. /\ pub'[p] = [step |-> "staged", streams |-> s, todo |-> new]
      /\ \A q \in Publishers \ {p} : pub'[q] = pub[q] /\ ~Inside(q)
  BY <1>3, UnsetAssumption DEF ExchangeInv, ExchangeTypeOK, OneInside
<1>10. /\ pub'[p].step = "staged" /\ pub'[p].streams = s /\ pub'[p].todo = new
  BY <1>5
<1>6. ExchangeTypeOK'
  BY <1>1, <1>2, <1>3, <1>5 DEF ExchangeInv, ExchangeTypeOK, FilesSame
<1>7. StreamsGiven' /\ OneInside'
  BY <1>1, <1>5, <1>10 DEF ExchangeInv, StreamsGiven, OneInside, Inside, At
<1>8. StagedFits'
  BY <1>1, <1>4, <1>5, <1>10 DEF StagedFits, Inside, At, Exists, CanExtend, FilesSame
<1>9. ListedFits'
  BY <1>5, <1>10 DEF ListedFits, Inside, At
<1>. QED
  BY <1>6, <1>7, <1>8, <1>9 DEF ExchangeInv, NothingYet, ListsAgree, OnePathEach, FilesSame

LEMMA LockKeeps ==
    ASSUME ExchangeInv, NEW p \in Publishers, LockAndCompare(p)
    PROVE  ExchangeInv' /\ HistoryKept
<1>1. FilesSame /\ UNCHANGED faults /\ At(p, "waiting") /\ holder = Unset
  BY DEF LockAndCompare, FilesSame
<1>2. CASE End(p) /\ UNCHANGED <<staging, holder>>
  <2>1. Leaves(p)
    BY <1>1, <1>2 DEF Leaves, End, ExchangeInv, ExchangeTypeOK
  <2>. QED
    BY <1>1, <2>1, LeavingKeeps, SameIsKept DEF FilesSame
<1>3. CASE Stage(p) /\ pub[p].streams \notin staging
  BY <1>1, <1>3, StageKeeps, SameIsKept DEF FilesSame
<1>. QED
  BY <1>2, <1>3 DEF LockAndCompare, Refuse, Stage

LEMMA FindKeeps ==
    ASSUME ExchangeInv, NEW p \in Publishers, FindPublished(p)
    PROVE  ExchangeInv' /\ HistoryKept
<1>. DEFINE s == pub[p].streams
<1>1. /\ index = s /\ descriptor = s /\ s \in StreamsSet
      /\ told' = told \union {s} /\ pub' = [pub EXCEPT ![p] = Idle]
      /\ UNCHANGED <<index, descriptor, placed, staging, holder, faults>>
      /\ At(p, "waiting")
  BY DEF FindPublished, CanExtend, End, At, ExchangeInv, StreamsGiven
<1>2. Extends(s, s)
  BY <1>1, ExtendsReflexive
<1>. HIDE DEF s
<1>3. ExchangeTypeOK'
  BY <1>1 DEF ExchangeInv, ExchangeTypeOK, Idle
<1>4. /\ pub'[p].step = "idle"
      /\ \A q \in Publishers \ {p} : pub'[q] = pub[q]
  BY <1>1 DEF ExchangeInv, ExchangeTypeOK, Idle
<1>5. StreamsGiven' /\ OneInside' /\ StagedFits' /\ ListedFits'
  BY <1>1, <1>4 DEF ExchangeInv, StreamsGiven, OneInside, StagedFits, ListedFits, At,
     Inside, Exists
<1>6. index # Unset
  BY <1>1, UnsetAssumption
<1>7. ListsAgree' /\ NothingYet'
  BY <1>1, <1>2, <1>6 DEF ExchangeInv, ListsAgree, NothingYet
<1>8. OnePathEach(placed)'
  BY <1>1 DEF ExchangeInv, OnePathEach
<1>. QED
  BY <1>1, <1>3, <1>5, <1>7, <1>8, SameIsKept DEF ExchangeInv

(* Inside the lock there is nobody else.                                    *)
LEMMA NobodyElse ==
    ASSUME ExchangeInv, NEW p \in Publishers, Inside(p)
    PROVE  /\ holder = p
           /\ \A q \in Publishers \ {p} : ~Inside(q)
           /\ pub[p].streams \in StreamsSet
BY DEF ExchangeInv, OneInside, StreamsGiven, Inside, At

LEMMA FirstKeeps ==
    ASSUME ExchangeInv, NEW p \in Publishers, PublishFirst(p)
    PROVE  ExchangeInv' /\ HistoryKept
<1>. DEFINE s == pub[p].streams
<1>1. /\ index = Unset /\ index' = s /\ descriptor' = s /\ placed' = EventsOf(s)
      /\ staging' = staging \ {s} /\ UNCHANGED <<holder, told, faults>> /\ Inside(p)
      /\ pub' = [pub EXCEPT ![p].step = "done"]
  BY DEF PublishFirst, Goto, At, Inside, Exists
<1>2. descriptor = Unset /\ placed = {} /\ told = {}
  BY <1>1 DEF ExchangeInv, NothingYet
<1>3. /\ holder = p /\ s \in StreamsSet /\ s # Unset
      /\ \A q \in Publishers \ {p} : ~Inside(q)
  BY <1>1, NobodyElse, UnsetAssumption
<1>4. Extends(s, s) /\ EventsOf(s) \subseteq AllEvents /\ OnePathEach(EventsOf(s))
  BY <1>3, ExtendsReflexive, EventByPath DEF AllEvents
<1>. HIDE DEF s
<1>5. ExchangeTypeOK'
  BY <1>1, <1>3, <1>4 DEF ExchangeInv, ExchangeTypeOK
<1>6. /\ pub'[p].step = "done" /\ pub'[p].streams = s
      /\ \A q \in Publishers \ {p} : pub'[q] = pub[q]
  BY <1>1 DEF ExchangeInv, ExchangeTypeOK, s
<1>7. StreamsGiven' /\ OneInside' /\ StagedFits' /\ ListedFits'
  BY <1>1, <1>3, <1>6 DEF ExchangeInv, StreamsGiven, OneInside, StagedFits, ListedFits,
     At, Inside, Exists
<1>8. NothingYet' /\ ListsAgree' /\ OnePathEach(placed)'
  BY <1>1, <1>2, <1>3, <1>4 DEF NothingYet, ListsAgree, OnePathEach
<1>9. HistoryKept
  BY <1>1, <1>2 DEF HistoryKept
<1>. QED
  BY <1>5, <1>7, <1>8, <1>9 DEF ExchangeInv

LEMMA MoveKeeps ==
    ASSUME ExchangeInv, NEW p \in Publishers, MoveEvent(p)
    PROVE  ExchangeInv' /\ HistoryKept
<1>. DEFINE s == pub[p].streams
<1>1. PICK event \in pub[p].todo : Move(p, event)
  BY DEF MoveEvent
<1>2. UNCHANGED <<index, descriptor, told, faults>> /\ Inside(p) /\ At(p, "staged") /\ Exists
  BY DEF MoveEvent, At, Inside
<1>3. /\ holder = p /\ s \in StreamsSet /\ event \in AllEvents
      /\ \A q \in Publishers \ {p} : ~Inside(q)
  BY <1>1, <1>2, NobodyElse DEF ExchangeInv, ExchangeTypeOK
<1>4. CASE \E e \in placed : PathOf(e) = PathOf(event)
  <2>1. Leaves(p)
    BY <1>1, <1>2, <1>3, <1>4
       DEF Move, Leaves, FilesSame, End, Unlock, ExchangeInv, ExchangeTypeOK
  <2>2. UNCHANGED <<index, descriptor, placed>>
    BY <1>1, <1>2, <1>4 DEF Move
  <2>. QED
    BY <2>1, <2>2, LeavingKeeps, SameIsKept
<1>5. CASE ~\E e \in placed : PathOf(e) = PathOf(event)
  <2>. DEFINE todo == pub[p].todo \ {event}
  <2>1. /\ placed' = placed \union {event} /\ UNCHANGED <<staging, holder>>
        /\ pub' = [pub EXCEPT ![p].todo = todo]
    BY <1>1, <1>5 DEF Move
  <2>2. ExchangeTypeOK'
    BY <1>2, <1>3, <2>1 DEF ExchangeInv, ExchangeTypeOK
  <2>3. /\ pub'[p].step = "staged" /\ pub'[p].streams = s /\ pub'[p].todo = todo
        /\ \A q \in Publishers \ {p} : pub'[q] = pub[q]
    BY <1>2, <2>1 DEF ExchangeInv, ExchangeTypeOK, At
  <2>4. placed \union pub[p].todo \subseteq placed' \union todo
    BY <2>1
  <2>5. /\ descriptor = index /\ Extends(s, index)
        /\ EventsOf(s) \subseteq placed \union pub[p].todo
    BY <1>2 DEF ExchangeInv, StagedFits
  <2>. HIDE DEF s, todo
  <2>6. StreamsGiven' /\ OneInside'
    BY <1>2, <1>3, <2>1, <2>3 DEF ExchangeInv, StreamsGiven, OneInside, At, Inside
  <2>7. StagedFits' /\ ListedFits'
    BY <1>2, <1>3, <2>3, <2>4, <2>5 DEF StagedFits, ListedFits, At, Inside
  <2>8. NothingYet' /\ ListsAgree'
    BY <1>2, <2>1 DEF ExchangeInv, NothingYet, ListsAgree, Exists
  <2>9. OnePathEach(placed)'
    BY <1>5, <2>1 DEF ExchangeInv, OnePathEach
  <2>. QED
    BY <1>2, <2>1, <2>2, <2>6, <2>7, <2>8, <2>9, SameIsKept DEF ExchangeInv
<1>. QED
  BY <1>4, <1>5

LEMMA IndexKeeps ==
    ASSUME ExchangeInv, NEW p \in Publishers, ReplaceIndex(p)
    PROVE  ExchangeInv' /\ HistoryKept
<1>. DEFINE s == pub[p].streams
<1>1. /\ At(p, "staged") /\ Inside(p) /\ Exists /\ pub[p].todo = {} /\ index' = s
      /\ pub' = [pub EXCEPT ![p].step = "indexed"]
      /\ UNCHANGED <<descriptor, placed, staging, holder, told, faults>>
  BY DEF ReplaceIndex, Goto, At, Inside
<1>2. /\ holder = p /\ s \in StreamsSet /\ s # Unset
      /\ \A q \in Publishers \ {p} : ~Inside(q)
  BY <1>1, NobodyElse, UnsetAssumption
<1>3. descriptor = index /\ Extends(s, index) /\ EventsOf(s) \subseteq placed
  BY <1>1 DEF ExchangeInv, StagedFits
<1>4. ExchangeTypeOK'
  BY <1>1, <1>2 DEF ExchangeInv, ExchangeTypeOK
<1>5. /\ pub'[p].step = "indexed" /\ pub'[p].streams = s
      /\ \A q \in Publishers \ {p} : pub'[q] = pub[q]
  BY <1>1 DEF ExchangeInv, ExchangeTypeOK
<1>. HIDE DEF s
<1>6. StreamsGiven' /\ OneInside' /\ StagedFits' /\ ListedFits'
  BY <1>1, <1>2, <1>5 DEF ExchangeInv, StreamsGiven, OneInside, StagedFits, ListedFits,
     At, Inside
<1>7. NothingYet' /\ ListsAgree' /\ OnePathEach(placed)'
  BY <1>1, <1>2, <1>3 DEF ExchangeInv, NothingYet, ListsAgree, OnePathEach, Exists
<1>8. HistoryKept
  BY <1>1, <1>2, <1>3, ListsTyped, ExtendsReflexive DEF HistoryKept, ListsInStreams
<1>. QED
  BY <1>4, <1>6, <1>7, <1>8 DEF ExchangeInv

LEMMA DescriptorKeeps ==
    ASSUME ExchangeInv, NEW p \in Publishers, ReplaceDescriptor(p)
    PROVE  ExchangeInv' /\ HistoryKept
<1>. DEFINE s == pub[p].streams
<1>1. /\ At(p, "indexed") /\ Inside(p) /\ descriptor' = s
      /\ pub' = [pub EXCEPT ![p].step = "done"]
      /\ UNCHANGED <<index, placed, staging, holder, told, faults>>
  BY DEF ReplaceDescriptor, Goto, At, Inside
<1>2. /\ holder = p /\ s \in StreamsSet /\ s # Unset
      /\ \A q \in Publishers \ {p} : ~Inside(q)
  BY <1>1, NobodyElse, UnsetAssumption
<1>3. /\ index = s /\ descriptor # Unset /\ descriptor \in StreamsSet /\ told \subseteq StreamsSet
      /\ Extends(s, descriptor) /\ Extends(s, s) /\ EventsOf(s) \subseteq placed
  BY <1>1, <1>2, ListsTyped, ExtendsReflexive
     DEF ExchangeInv, ExchangeTypeOK, ListedFits, ListsAgree, ListsInStreams
<1>4. \A t \in told : Extends(s, t)
  BY <1>2, <1>3, ExtendsTransitive DEF ExchangeInv, ListsAgree
<1>5. ExchangeTypeOK'
  BY <1>1, <1>2 DEF ExchangeInv, ExchangeTypeOK
<1>6. /\ pub'[p].step = "done" /\ pub'[p].streams = s
      /\ \A q \in Publishers \ {p} : pub'[q] = pub[q]
  BY <1>1 DEF ExchangeInv, ExchangeTypeOK
<1>. HIDE DEF s
<1>7. StreamsGiven' /\ OneInside' /\ StagedFits' /\ ListedFits'
  BY <1>1, <1>2, <1>3, <1>6 DEF ExchangeInv, StreamsGiven, OneInside, StagedFits, ListedFits,
     At, Inside
<1>8. NothingYet' /\ ListsAgree' /\ OnePathEach(placed)'
  BY <1>1, <1>2, <1>3, <1>4 DEF ExchangeInv, NothingYet, ListsAgree, OnePathEach
<1>9. HistoryKept
  BY <1>1, <1>2, <1>3 DEF HistoryKept
<1>. QED
  BY <1>5, <1>7, <1>8, <1>9 DEF ExchangeInv

LEMMA FinishKeeps ==
    ASSUME ExchangeInv, NEW p \in Publishers, Finish(p)
    PROVE  ExchangeInv' /\ HistoryKept
<1>. DEFINE s == pub[p].streams
<1>1. /\ At(p, "done") /\ Inside(p) /\ told' = told \union {s} /\ staging' = staging \ {s}
      /\ pub' = [pub EXCEPT ![p] = Idle] /\ holder' = Unset
      /\ UNCHANGED <<index, descriptor, placed, faults>>
  BY DEF Finish, End, Unlock, At, Inside
<1>2. /\ s \in StreamsSet /\ s # Unset /\ index = s /\ descriptor = s /\ Extends(s, s)
      /\ \A q \in Publishers \ {p} : ~Inside(q)
  BY <1>1, NobodyElse, UnsetAssumption, ExtendsReflexive DEF ExchangeInv, ListedFits
<1>3. ExchangeTypeOK'
  BY <1>1, <1>2 DEF ExchangeInv, ExchangeTypeOK, Idle
<1>4. /\ pub'[p].step = "idle"
      /\ \A q \in Publishers \ {p} : pub'[q] = pub[q]
  BY <1>1 DEF ExchangeInv, ExchangeTypeOK, Idle
<1>. HIDE DEF s
<1>5. StreamsGiven' /\ OneInside' /\ StagedFits' /\ ListedFits'
  BY <1>1, <1>2, <1>4 DEF ExchangeInv, StreamsGiven, OneInside, StagedFits, ListedFits,
     At, Inside
<1>6. NothingYet' /\ ListsAgree' /\ OnePathEach(placed)'
  BY <1>1, <1>2 DEF ExchangeInv, NothingYet, ListsAgree, OnePathEach
<1>. QED
  BY <1>1, <1>3, <1>5, <1>6, SameIsKept DEF ExchangeInv

LEMMA FaultKeeps ==
    ASSUME ExchangeInv, NEW p \in Publishers, WriteFails(p) \/ Die(p)
    PROVE  ExchangeInv' /\ HistoryKept
<1>1. Leaves(p)
  <2>1. FilesSame /\ pub' = [pub EXCEPT ![p] = Idle] /\ staging' \subseteq staging
    BY DEF WriteFails, Die, FilesSame, End
  <2>2. faults' \in 0 .. MaxFaults
    BY FaultsAssumption DEF WriteFails, Die, ExchangeInv, ExchangeTypeOK
  <2>3. /\ holder' \in Publishers \union {Unset}
        /\ holder' = holder \/ (holder = p /\ holder' = Unset)
    BY DEF WriteFails, Die, Unlock, At, ExchangeInv, ExchangeTypeOK, OneInside, Inside
  <2>. QED
    BY <2>1, <2>2, <2>3 DEF Leaves, ExchangeInv, ExchangeTypeOK
<1>. QED
  BY <1>1, LeavingKeeps, SameIsKept DEF Leaves, FilesSame

(* Every step of a publisher keeps the invariant and what is published.     *)
PublisherStep(p) ==
    \/ \E rows \in Bundles : Plan(p, rows)
    \/ Work(p) \/ Answer(p) \/ WriteFails(p) \/ Die(p)

LEMMA PublisherKeeps ==
    ASSUME ExchangeInv, NEW p \in Publishers, PublisherStep(p)
    PROVE  ExchangeInv' /\ HistoryKept
BY PlanKeeps, CheckStagingKeeps, LockKeeps, FindKeeps, FirstKeeps, MoveKeeps, IndexKeeps,
   DescriptorKeeps, FinishKeeps, FaultKeeps DEF PublisherStep, Work, Answer

(***************************************************************************)
(* The invariant of the store of sources.  One registrar at a time is at    *)
(* work, on an entry in its staging directory that no entry of the store    *)
(* contradicts.                                                             *)
(***************************************************************************)
Entries == {Entry(o.bundle, o.source) : o \in Offered}

AddingFits ==
    \A r \in Registrars : adding[r] # Unset =>
        /\ ~BoundElsewhere(adding[r])
        /\ \A q \in Registrars : adding[q] # Unset => q = r

RegistrationInv == RegistrationTypeOK /\ AddingFits /\ BoundOnce

LEMMA RegistrationTyped ==
    RegistrationTypeOK <=> /\ registrations \subseteq Entries
                           /\ leftovers \subseteq Entries
                           /\ adding \in [Registrars -> Entries \union {Unset}]
                           /\ registered \subseteq Entries
                           /\ deaths \in 0 .. MaxDeaths
BY DEF RegistrationTypeOK, Entries

LEMMA NoEntryIsUnset == Unset \notin Entries
BY EntryAssumption DEF Entries

LEMMA RegistrationStarts ==
    ASSUME RegistrationInit
    PROVE  RegistrationInv
<1>1. RegistrationTypeOK
  BY DeathsAssumption, RegistrationTyped DEF RegistrationInit
<1>. QED
  BY <1>1 DEF RegistrationInit, RegistrationInv, AddingFits, BoundOnce

LEMMA BeginKeeps ==
    ASSUME RegistrationInv, NEW r \in Registrars, NEW o \in Offered,
           BeginRegistration(r, o.bundle, o.source)
    PROVE  RegistrationInv' /\ registrations \subseteq registrations'
<1>. DEFINE entry == Entry(o.bundle, o.source)
<1>1. entry \in Entries /\ entry # Unset
  BY NoEntryIsUnset DEF Entries
<1>2. /\ adding[r] = Unset /\ \A q \in Registrars : adding[q] = Unset
      /\ ~BoundElsewhere(entry) /\ UNCHANGED <<registrations, deaths>>
      /\ \/ /\ entry \in registrations /\ registered' = registered \union {entry}
            /\ UNCHANGED <<leftovers, adding>>
         \/ /\ leftovers' = leftovers \union {entry} /\ adding' = [adding EXCEPT ![r] = entry]
            /\ UNCHANGED registered
  BY DEF BeginRegistration
<1>. HIDE DEF entry
<1>3. /\ registrations \subseteq Entries /\ leftovers \subseteq Entries
      /\ adding \in [Registrars -> Entries \union {Unset}]
      /\ registered \subseteq Entries /\ deaths \in 0 .. MaxDeaths
  BY RegistrationTyped DEF RegistrationInv
<1>4. RegistrationTypeOK'
  <2>1. /\ registrations' \subseteq Entries /\ leftovers' \subseteq Entries
        /\ adding' \in [Registrars -> Entries \union {Unset}]
        /\ registered' \subseteq Entries /\ deaths' \in 0 .. MaxDeaths
    BY <1>1, <1>2, <1>3
  <2>. QED
    BY <2>1 DEF RegistrationTypeOK, Entries
<1>5. AddingFits'
  BY <1>1, <1>2, <1>3 DEF AddingFits, BoundElsewhere
<1>6. BoundOnce'
  BY <1>2 DEF RegistrationInv, BoundOnce
<1>. QED
  BY <1>2, <1>4, <1>5, <1>6 DEF RegistrationInv

LEMMA CommitKeeps ==
    ASSUME RegistrationInv, NEW r \in Registrars, CommitRegistration(r)
    PROVE  RegistrationInv' /\ registrations \subseteq registrations'
<1>. DEFINE entry == adding[r]
<1>1. /\ entry # Unset
      /\ leftovers' = leftovers \ {entry}
      /\ registrations' = registrations \union {entry}
      /\ registered' = registered \union {entry}
      /\ adding' = [adding EXCEPT ![r] = Unset]
      /\ UNCHANGED deaths
  BY DEF CommitRegistration
<1>2. /\ registrations \subseteq Entries /\ leftovers \subseteq Entries
      /\ adding \in [Registrars -> Entries \union {Unset}]
      /\ registered \subseteq Entries /\ deaths \in 0 .. MaxDeaths
  BY RegistrationTyped DEF RegistrationInv
<1>3. entry \in Entries
  BY <1>1, <1>2
<1>4. ~BoundElsewhere(entry) /\ \A q \in Registrars : adding[q] # Unset => q = r
  BY <1>1 DEF RegistrationInv, AddingFits
<1>. HIDE DEF entry
<1>5. RegistrationTypeOK'
  <2>1. /\ registrations' \subseteq Entries /\ leftovers' \subseteq Entries
        /\ adding' \in [Registrars -> Entries \union {Unset}]
        /\ registered' \subseteq Entries /\ deaths' \in 0 .. MaxDeaths
    BY <1>1, <1>2, <1>3
  <2>. QED
    BY <2>1 DEF RegistrationTypeOK, Entries
<1>6. \A q \in Registrars : adding'[q] = Unset
  BY <1>1, <1>2, <1>4
<1>7. AddingFits'
  BY <1>6 DEF AddingFits
<1>8. BoundOnce'
  BY <1>1, <1>4 DEF RegistrationInv, BoundOnce, BoundElsewhere
<1>. QED
  BY <1>1, <1>5, <1>7, <1>8 DEF RegistrationInv

LEMMA DeathKeeps ==
    ASSUME RegistrationInv, NEW r \in Registrars, RegistrarDies(r)
    PROVE  RegistrationInv' /\ registrations \subseteq registrations'
<1>1. /\ deaths < MaxDeaths /\ deaths' = deaths + 1
      /\ adding' = [adding EXCEPT ![r] = Unset]
      /\ UNCHANGED <<registrations, leftovers, registered>>
  BY DEF RegistrarDies
<1>2. /\ registrations \subseteq Entries /\ leftovers \subseteq Entries
      /\ adding \in [Registrars -> Entries \union {Unset}]
      /\ registered \subseteq Entries /\ deaths \in 0 .. MaxDeaths
  BY RegistrationTyped DEF RegistrationInv
<1>3. RegistrationTypeOK'
  <2>1. /\ registrations' \subseteq Entries /\ leftovers' \subseteq Entries
        /\ adding' \in [Registrars -> Entries \union {Unset}]
        /\ registered' \subseteq Entries /\ deaths' \in 0 .. MaxDeaths
    BY <1>1, <1>2, DeathsAssumption
  <2>. QED
    BY <2>1 DEF RegistrationTypeOK, Entries
<1>4. AddingFits'
  BY <1>1, <1>2 DEF RegistrationInv, AddingFits, BoundElsewhere
<1>5. BoundOnce'
  BY <1>1 DEF RegistrationInv, BoundOnce
<1>. QED
  BY <1>1, <1>3, <1>4, <1>5 DEF RegistrationInv

LEMMA RegistrationKeeps ==
    ASSUME RegistrationInv, RegistrationNext
    PROVE  RegistrationInv' /\ registrations \subseteq registrations'
BY BeginKeeps, CommitKeeps, DeathKeeps DEF RegistrationNext, Accepted

(***************************************************************************)
(* The two together.  A guarded publisher works on a bundle whose documents *)
(* are registered; registrations are never taken back.                      *)
(***************************************************************************)
Documented(b) == ProvenanceDocs(b) \subseteq {e.doc : e \in EntriesFor(b)}

BundleFits ==
    /\ bundle \in [Publishers -> Bundles \union {Unset}]
    /\ released \subseteq Bundles
    /\ \A p \in Publishers : ~At(p, "idle") => bundle[p] # Unset
    /\ \A p \in Guarded : bundle[p] # Unset => Documented(bundle[p])
    /\ \A b \in released : Documented(b)

IInv == ExchangeInv /\ RegistrationInv /\ BundleFits

LEMMA StillDocumented ==
    ASSUME NEW b, Documented(b), registrations \subseteq registrations'
    PROVE  Documented(b)'
BY DEF Documented, EntriesFor

LEMMA RegistrationSame ==
    ASSUME RegistrationInv, UNCHANGED registrationVars
    PROVE  RegistrationInv' /\ registrations \subseteq registrations'
<1>1. UNCHANGED <<registrations, leftovers, adding, registered, deaths>>
  BY DEF registrationVars
<1>2. RegistrationTypeOK'
  BY <1>1 DEF RegistrationInv, RegistrationTypeOK
<1>3. AddingFits' /\ BoundOnce'
  BY <1>1 DEF RegistrationInv, AddingFits, BoundElsewhere, BoundOnce
<1>. QED
  BY <1>1, <1>2, <1>3 DEF RegistrationInv

LEMMA ExchangeSame ==
    ASSUME ExchangeInv, UNCHANGED exchangeVars
    PROVE  ExchangeInv' /\ HistoryKept
<1>1. UNCHANGED <<index, descriptor, placed, staging, holder, pub, told, faults>>
  BY DEF exchangeVars
<1>2. ExchangeTypeOK' /\ StreamsGiven' /\ OneInside'
  BY <1>1 DEF ExchangeInv, ExchangeTypeOK, StreamsGiven, OneInside, At, Inside
<1>3. NothingYet' /\ ListsAgree' /\ OnePathEach(placed)'
  BY <1>1 DEF ExchangeInv, NothingYet, ListsAgree, OnePathEach
<1>4. StagedFits' /\ ListedFits'
  BY <1>1 DEF ExchangeInv, StagedFits, ListedFits, At, Exists
<1>. QED
  BY <1>1, <1>2, <1>3, <1>4, SameIsKept DEF ExchangeInv

(* A publisher that works is not idle, and the others go on as they were.   *)
LEMMA WorkIsOnes ==
    ASSUME ExchangeInv, NEW p \in Publishers, Work(p) \/ Answer(p) \/ WriteFails(p) \/ Die(p)
    PROVE  ~At(p, "idle") /\ \A q \in Publishers \ {p} : pub'[q] = pub[q]
<1>1. ~At(p, "idle")
  BY DEF Work, Answer, CheckStaging, LockAndCompare, PublishFirst, MoveEvent, ReplaceIndex,
     ReplaceDescriptor, FindPublished, Finish, WriteFails, Die, At
<1>2. pub \in [Publishers -> Doing]
  BY DEF ExchangeInv, ExchangeTypeOK, Doing
<1>3. \E d : pub' = [pub EXCEPT ![p] = d]
  BY DEF Work, Answer, CheckStaging, LockAndCompare, Refuse, Stage, PublishFirst, MoveEvent,
     Move, ReplaceIndex, ReplaceDescriptor, FindPublished, Finish, WriteFails, Die, Goto, End
<1>. QED
  BY <1>1, <1>2, <1>3

LEMMA RegisteredIsDocumented ==
    ASSUME NEW b, Registered(b)
    PROVE  Documented(b)
BY DEF Registered, Documented

LEMMA PlanFits ==
    ASSUME IInv, NEW p \in Publishers, PlanGuarded(p) \/ PlanUnguarded(p)
    PROVE  IInv' /\ HistoryKept
<1>1. PICK b \in Bundles : /\ Plan(p, b) /\ bundle' = [bundle EXCEPT ![p] = b]
                           /\ p \in Guarded => Registered(b)
  BY DEF PlanGuarded, PlanUnguarded
<1>2. UNCHANGED <<registrationVars, released>>
  BY DEF PlanGuarded, PlanUnguarded
<1>3. ExchangeInv' /\ HistoryKept
  BY <1>1, PlanKeeps DEF IInv
<1>4. RegistrationInv' /\ registrations \subseteq registrations'
  BY <1>2, RegistrationSame DEF IInv
<1>5. /\ bundle \in [Publishers -> Bundles \union {Unset}] /\ b # Unset
      /\ \A q \in Publishers \ {p} : pub'[q] = pub[q]
  BY <1>1, UnsetAssumption DEF IInv, BundleFits, Plan, ExchangeInv, ExchangeTypeOK
<1>6. /\ bundle'[p] = b
      /\ \A q \in Publishers \ {p} : bundle'[q] = bundle[q]
      /\ bundle' \in [Publishers -> Bundles \union {Unset}]
  BY <1>1, <1>5
<1>7. p \in Guarded => Documented(b)'
  BY <1>1, <1>4, RegisteredIsDocumented, StillDocumented
<1>8. \A q \in Publishers : ~At(q, "idle")' => bundle'[q] # Unset
  BY <1>5, <1>6 DEF IInv, BundleFits, At
<1>9. \A q \in Guarded : bundle'[q] # Unset => Documented(bundle[q])'
  <2>. SUFFICES ASSUME NEW q \in Guarded, bundle'[q] # Unset PROVE Documented(bundle[q])'
    OBVIOUS
  <2>1. CASE q = p
    BY <1>6, <1>7, <2>1 DEF Documented, EntriesFor
  <2>2. CASE q # p
    <3>1. bundle'[q] = bundle[q] /\ Documented(bundle[q])
      BY <1>6, <2>2, GuardedAssumption DEF IInv, BundleFits
    <3>. QED
      BY <1>4, <3>1 DEF Documented, EntriesFor
  <2>. QED
    BY <2>1, <2>2
<1>10. \A c \in released' : Documented(c)'
  BY <1>2, <1>4, StillDocumented DEF IInv, BundleFits
<1>11. BundleFits'
  BY <1>2, <1>6, <1>8, <1>9, <1>10 DEF IInv, BundleFits
<1>. QED
  BY <1>3, <1>4, <1>11 DEF IInv

LEMMA WorkFits ==
    ASSUME IInv, NEW p \in Publishers, WorkStep(p) \/ AnswerStep(p) \/ PublisherFault(p)
    PROVE  IInv' /\ HistoryKept
<1>1. Work(p) \/ Answer(p) \/ WriteFails(p) \/ Die(p)
  BY DEF WorkStep, AnswerStep, PublisherFault
<1>2. Drop(p) /\ UNCHANGED registrationVars
  BY DEF WorkStep, AnswerStep, PublisherFault
<1>3. \/ released' = released
      \/ p \in Guarded /\ released' = released \union {bundle[p]}
  BY DEF WorkStep, AnswerStep, PublisherFault
<1>4. ExchangeInv' /\ HistoryKept
  BY <1>1, PublisherKeeps DEF IInv, PublisherStep
<1>5. RegistrationInv' /\ registrations \subseteq registrations'
  BY <1>2, RegistrationSame DEF IInv
<1>6. ~At(p, "idle") /\ \A q \in Publishers \ {p} : pub'[q] = pub[q]
  BY <1>1, WorkIsOnes DEF IInv
<1>7. /\ bundle \in [Publishers -> Bundles \union {Unset}]
      /\ bundle[p] \in Bundles
  BY <1>6 DEF IInv, BundleFits
<1>8. /\ bundle'[p] = IF pub'[p].step = "idle" THEN Unset ELSE bundle[p]
      /\ \A q \in Publishers \ {p} : bundle'[q] = bundle[q]
      /\ bundle' \in [Publishers -> Bundles \union {Unset}]
  BY <1>2, <1>7 DEF Drop
<1>9. \A q \in Publishers : ~At(q, "idle")' => bundle'[q] # Unset
  BY <1>6, <1>7, <1>8, UnsetAssumption DEF IInv, BundleFits, At
<1>10. \A q \in Guarded : bundle'[q] # Unset => Documented(bundle[q])'
  <2>. SUFFICES ASSUME NEW q \in Guarded, bundle'[q] # Unset PROVE Documented(bundle[q])'
    OBVIOUS
  <2>1. bundle'[q] = bundle[q] /\ Documented(bundle[q])
    BY <1>8, GuardedAssumption DEF IInv, BundleFits
  <2>. QED
    BY <1>5, <2>1 DEF Documented, EntriesFor
<1>11. released' \subseteq Bundles /\ \A c \in released' : Documented(c)
  BY <1>3, <1>7, UnsetAssumption, GuardedAssumption DEF IInv, BundleFits
<1>12. \A c \in released' : Documented(c)'
  BY <1>5, <1>11, StillDocumented
<1>13. BundleFits'
  BY <1>8, <1>9, <1>10, <1>11, <1>12 DEF BundleFits
<1>. QED
  BY <1>4, <1>5, <1>13 DEF IInv

LEMMA RegistrationFits ==
    ASSUME IInv, UNCHANGED <<exchangeVars, bundle, released>>,
           RegistrationNext \/ UNCHANGED registrationVars
    PROVE  IInv' /\ HistoryKept
<1>1. ExchangeInv' /\ HistoryKept
  BY ExchangeSame DEF IInv
<1>2. RegistrationInv' /\ registrations \subseteq registrations'
  BY RegistrationKeeps, RegistrationSame DEF IInv
<1>3. \A q \in Publishers : ~At(q, "idle")' => bundle'[q] # Unset
  BY DEF IInv, BundleFits, At, exchangeVars
<1>4. \A q \in Guarded : bundle'[q] # Unset => Documented(bundle[q])'
  BY <1>2 DEF IInv, BundleFits, Documented, EntriesFor
<1>5. \A c \in released' : Documented(c)'
  BY <1>2, StillDocumented DEF IInv, BundleFits
<1>6. BundleFits'
  BY <1>3, <1>4, <1>5 DEF IInv, BundleFits
<1>. QED
  BY <1>1, <1>2, <1>6 DEF IInv

LEMMA InvariantStep ==
    ASSUME IInv, [Next]_vars
    PROVE  IInv' /\ HistoryKept
<1>1. CASE \E p \in Publishers : PlanGuarded(p) \/ PlanUnguarded(p)
  BY <1>1, PlanFits
<1>2. CASE \E p \in Publishers : WorkStep(p) \/ AnswerStep(p) \/ PublisherFault(p)
  BY <1>2, WorkFits
<1>3. CASE RegistrationNext /\ UNCHANGED <<exchangeVars, bundle, released>>
  BY <1>3, RegistrationFits
<1>4. CASE UNCHANGED vars
  BY <1>4, RegistrationFits DEF vars
<1>. QED
  BY <1>1, <1>2, <1>3, <1>4 DEF Next

(***************************************************************************)
(* The theorems.                                                            *)
(***************************************************************************)

(* Publishers and registrars keep the invariant: whoever is inside the lock *)
(* of the date is its holder and finds what it compared, no entry of the    *)
(* store contradicts another, and a guarded publisher's bundle is           *)
(* documented.                                                              *)
THEOREM PublicationInvariant == Spec => []IInv
<1>1. Init => IInv
  <2>. SUFFICES ASSUME Init PROVE IInv
    OBVIOUS
  <2>1. ExchangeInv /\ RegistrationInv
    BY ExchangeStarts, RegistrationStarts DEF Init
  <2>2. BundleFits
    BY GuardedAssumption DEF Init, ExchangeInit, BundleFits, At, Idle
  <2>. QED
    BY <2>1, <2>2 DEF IInv
<1>2. IInv /\ [Next]_vars => IInv'
  BY InvariantStep
<1>. QED
  BY <1>1, <1>2, PTL DEF Spec

(* Every variable stays in its domain.                                      *)
THEOREM PublicationTypes == Spec => []TypeOK
<1>1. IInv => TypeOK
  BY DEF IInv, ExchangeInv, RegistrationInv, BundleFits, TypeOK
<1>. QED
  BY <1>1, PublicationInvariant, PTL

(* What a reader finds listed in index.json or exchange.json is there, once *)
(* under each sequence number, and includes what a caller was told is       *)
(* published: after any death or failed write of any publisher, and while   *)
(* another is moving its event directories in.                              *)
THEOREM ListedEventsAreThere == Spec => []ListedIsThere
<1>1. IInv => ListedIsThere
  <2>. SUFFICES ASSUME IInv PROVE ListedIsThere
    OBVIOUS
  <2>1. ListsInStreams
    BY ListsTyped DEF IInv
  <2>2. told # {} => index # Unset /\ descriptor # Unset
    BY DEF IInv, ExchangeInv, NothingYet, ListsAgree
  <2>3. \A e, f \in placed : PathOf(e) = PathOf(f) => e = f
    BY DEF IInv, ExchangeInv, OnePathEach
  <2>4. index = Unset => descriptor = Unset
    BY DEF IInv, ExchangeInv, NothingYet
  <2>5. ASSUME index # Unset
        PROVE  /\ index \in StreamsSet /\ descriptor \in StreamsSet /\ told \subseteq StreamsSet
               /\ EventsOf(index) \subseteq placed /\ Extends(index, descriptor)
               /\ \A s \in told : Extends(descriptor, s)
    BY <2>1, <2>5 DEF IInv, ExchangeInv, ExchangeTypeOK, ListsAgree, ListsInStreams
  <2>6. ASSUME index # Unset
        PROVE  EventsOf(descriptor) \subseteq placed /\ \A s \in told : Extends(index, s)
    BY <2>5, <2>6, ExtendedEvents, ExtendsTransitive
  <2>. QED
    BY <2>2, <2>3, <2>4, <2>5, <2>6 DEF ListedIsThere
<1>. QED
  BY <1>1, PublicationInvariant, PTL

(* No publication changes or drops what an earlier one published.           *)
THEOREM PublishedStays == Spec => HistoryOnlyGrows
<1>1. IInv /\ [Next]_vars => [HistoryKept]_<<index, descriptor, placed>>
  BY InvariantStep
<1>. QED
  BY <1>1, PublicationInvariant, PTL DEF Spec, HistoryOnlyGrows, HistoryKept

(* An idea that a list has called invalid for good stays so in every list   *)
(* that replaces it: a later list extends it, replays to its end, and no    *)
(* operation that replay allows takes such an idea back.                    *)
THEOREM InvalidIsFinal == Spec => InvalidationIsFinal
<1>1. IInv /\ [Next]_vars =>
        [ /\ index # Unset => InvalidIdeas[index] \subseteq InvalidIdeas[index']
          /\ descriptor # Unset => InvalidIdeas[descriptor] \subseteq InvalidIdeas[descriptor']
        ]_<<index, descriptor>>
  <2>. SUFFICES ASSUME IInv, [Next]_vars
                PROVE  /\ index # Unset =>
                             InvalidIdeas[index] \subseteq InvalidIdeas[index']
                       /\ descriptor # Unset =>
                             InvalidIdeas[descriptor] \subseteq InvalidIdeas[descriptor']
    OBVIOUS
  <2>1. IInv' /\ HistoryKept
    BY InvariantStep
  <2>2. /\ index # Unset => index \in StreamsSet
        /\ descriptor # Unset => descriptor \in StreamsSet
    BY ListsTyped DEF IInv, ListsInStreams
  <2>3. /\ index' # Unset => index' \in StreamsSet
        /\ descriptor' # Unset => descriptor' \in StreamsSet
    BY <2>1 DEF IInv, ExchangeInv, ExchangeTypeOK
  <2>. QED
    BY <2>1, <2>2, <2>3, InvalidStaysInvalid DEF HistoryKept
<1>. QED
  BY <1>1, PublicationInvariant, PTL DEF Spec, InvalidationIsFinal

(* What the guarded command has published is documented in the store for    *)
(* that very bundle, and no other bundle with one of its documents was.     *)
THEOREM GuardedPublishesOnce == Spec => []ReleasedOnce
<1>1. IInv => ReleasedOnce
  BY DEF IInv, RegistrationInv, BundleFits, Documented, EntriesFor, ReleasedOnce, BoundOnce
<1>. QED
  BY <1>1, PublicationInvariant, PTL
================================================================================
