--------------------------- MODULE OneUpdaterProofs ---------------------------
(***************************************************************************)
(* Proofs about portfolio updates made by one process at a time, for any    *)
(* accounts, trades and length of a day.                                    *)
(***************************************************************************)
EXTENDS OneUpdater, WellFoundedInduction, TLAPS

--------------------------------------------------------------------------------
(* Timepoints.  A date stands for the instants from its first to its last.  *)
Upper(time) == IF time.dated THEN time.at + Day - 1 ELSE time.at

Aligned(time) ==
    /\ time \in Point
    /\ time.dated => time.at = Day * (time.at \div Day)

LEMMA DayDivides ==
    ASSUME NEW t \in Nat
    PROVE  /\ t \div Day \in Nat
           /\ t % Day \in Nat
           /\ t = Day * (t \div Day) + (t % Day)
           /\ t % Day < Day
  BY ConstantsAssumption

(* A calendar day is the instants from its first one on.                    *)
LEMMA DayHolds ==
    ASSUME NEW t \in Nat, NEW d \in Nat, Day * d <= t, t < Day * d + Day
    PROVE  t \div Day = d
<1>1. t \div Day \in Nat /\ t % Day \in Nat /\ t % Day < Day
      /\ t = Day * (t \div Day) + (t % Day)
  BY DayDivides
<1>2. CASE d < t \div Day
  BY <1>1, <1>2, ConstantsAssumption
<1>3. CASE d > t \div Day
  BY <1>1, <1>3, ConstantsAssumption
<1>. QED
  BY <1>1, <1>2, <1>3

LEMMA SameDayAligned ==
    ASSUME NEW s \in Nat, NEW t \in Nat, s = Day * (s \div Day)
    PROVE  (s \div Day = t \div Day) <=> (s <= t /\ t < s + Day)
<1>. DEFINE d == s \div Day
<1>1. d \in Nat /\ s = Day * d
  BY DayDivides
<1>2. ASSUME s <= t, t < s + Day PROVE t \div Day = d
  <2>. HIDE DEF d
  <2>. QED
    BY <1>1, <1>2, DayHolds
<1>3. ASSUME t \div Day = d PROVE s <= t /\ t < s + Day
  <2>1. t = Day * d + (t % Day) /\ t % Day \in Nat /\ t % Day < Day
    BY <1>3, DayDivides
  <2>. HIDE DEF d
  <2>. QED
    BY <1>1, <2>1, ConstantsAssumption
<1>. QED
  BY <1>2, <1>3

(* One point is after another exactly when it begins after the other ends.  *)
LEMMA AfterIsPast ==
    ASSUME NEW p, NEW q, Aligned(p), Aligned(q)
    PROVE  After(p, q) <=> p.at > Upper(q)
<1>1. p.at \in Nat /\ q.at \in Nat /\ p.dated \in BOOLEAN /\ q.dated \in BOOLEAN
  BY DEF Aligned, Point
<1>2. CASE q.dated
  <2>1. SameDay(p, q) <=> (q.at <= p.at /\ p.at < q.at + Day)
    BY <1>1, <1>2, SameDayAligned DEF SameDay, Aligned
  <2>. QED
    BY <1>1, <1>2, <2>1, ConstantsAssumption DEF After, Ambiguous, Upper
<1>3. CASE ~q.dated /\ p.dated
  <2>1. SameDay(p, q) <=> (p.at <= q.at /\ q.at < p.at + Day)
    BY <1>1, <1>3, SameDayAligned DEF SameDay, Aligned
  <2>. QED
    BY <1>1, <1>3, <2>1, ConstantsAssumption DEF After, Ambiguous, Upper
<1>4. CASE ~q.dated /\ ~p.dated
  BY <1>1, <1>4 DEF After, Ambiguous, Upper
<1>. QED
  BY <1>2, <1>3, <1>4

(* What is at or before a point has ended when the point begins.            *)
LEMMA BeforeHasEnded ==
    ASSUME NEW p, NEW q, Aligned(p), Aligned(q), AtOrBefore(p, q)
    PROVE  Upper(p) <= q.at
<1>1. p.at \in Nat /\ q.at \in Nat /\ p.dated \in BOOLEAN /\ q.dated \in BOOLEAN
  BY DEF Aligned, Point
<1>2. CASE p.dated
  <2>1. SameDay(p, q) <=> (p.at <= q.at /\ q.at < p.at + Day)
    BY <1>1, <1>2, SameDayAligned DEF SameDay, Aligned
  <2>. QED
    BY <1>1, <1>2, <2>1, ConstantsAssumption DEF AtOrBefore, Ambiguous, Upper
<1>3. CASE ~p.dated
  BY <1>1, <1>3 DEF AtOrBefore, Upper
<1>. QED
  BY <1>2, <1>3

LEMMA PointsAlign ==
    ASSUME NEW t \in Nat
    PROVE  /\ Aligned(Instant(t)) /\ Instant(t).at = t /\ Upper(Instant(t)) = t
           /\ Aligned(Date(t)) /\ Date(t).at <= t /\ t <= Upper(Date(t))
<1>. DEFINE d == t \div Day
<1>1. d \in Nat /\ t = Day * d + (t % Day) /\ t % Day \in Nat /\ t % Day < Day
  BY DayDivides
<1>2. t - (t % Day) = Day * d /\ Day * d \in Nat
  <2>. HIDE DEF d
  <2>. QED
    BY <1>1, ConstantsAssumption
<1>3. (Day * d) \div Day = d
  <2>. HIDE DEF d
  <2>. QED
    BY <1>1, <1>2, DayHolds, ConstantsAssumption
<1>4. Aligned(Date(t)) /\ Date(t).at <= t /\ t <= Upper(Date(t))
  <2>1. Date(t) = [at |-> Day * d, dated |-> TRUE]
    BY <1>2 DEF Date
  <2>. HIDE DEF d
  <2>2. Aligned([at |-> Day * d, dated |-> TRUE])
    BY <1>2, <1>3 DEF Aligned, Point
  <2>3. Upper([at |-> Day * d, dated |-> TRUE]) = Day * d + Day - 1
    BY DEF Upper
  <2>4. Day * d <= t /\ t <= Day * d + Day - 1
    BY <1>1, <1>2, ConstantsAssumption
  <2>. QED
    BY <2>1, <2>2, <2>3, <2>4
<1>5. Aligned(Instant(t)) /\ Instant(t).at = t /\ Upper(Instant(t)) = t
  BY DEF Aligned, Instant, Point, Upper
<1>. QED
  BY <1>4, <1>5

(* The owner's record of a trade begins no later than the trade happened,   *)
(* and ends no earlier.                                                     *)
LEMMA EffectiveAligned ==
    ASSUME NEW x \in Trades
    PROVE  /\ Aligned(EffectiveOf(x))
           /\ EffectiveOf(x).at <= HappenedAt[x]
           /\ HappenedAt[x] <= Upper(EffectiveOf(x))
           /\ HappenedAt[x] \in Nat
<1>1. HappenedAt[x] \in Nat
  BY ConstantsAssumption
<1>. QED
  BY <1>1, PointsAlign DEF EffectiveOf

LEMMA SnapshotAligned ==
    ASSUME now \in Nat, NEW time \in SnapshotTimes
    PROVE  Aligned(time) /\ time \in Point /\ time.at \in Nat
<1>1. PICK t \in 0 .. now : time = Instant(t) \/ time = Date(t)
  BY DEF SnapshotTimes
<1>2. Aligned(time)
  BY <1>1, PointsAlign
<1>. QED
  BY <1>2 DEF Aligned, Point

LEMMA TakenWithin ==
    ASSUME now \in Nat, NEW time, Aligned(time), NEW t \in TakenAt(time)
    PROVE  t \in Nat /\ time.at <= t /\ t <= Upper(time)
  BY ConstantsAssumption DEF TakenAt, Aligned, Point, Upper

--------------------------------------------------------------------------------
(* The cursor for a snapshot exists: all rows up to it are covered.         *)
LEMMA LeastNumber ==
    ASSUME NEW T \in SUBSET Nat, T # {}
    PROVE  \E m \in T : \A n \in T : m <= n
<1>1. IsWellFoundedOn(OpToRel(<, Nat), Nat)
  BY NatLessThanWellFounded
<1>2. PICK m \in T : \A n \in T : ~ (<<n, m>> \in OpToRel(<, Nat))
  BY <1>1, WFMin
<1>3. \A n \in T : n < m => <<n, m>> \in OpToRel(<, Nat)
  BY DEF OpToRel
<1>4. \A n \in T : ~ (n < m)
  BY <1>2, <1>3
<1>5. m \in Nat /\ \A n \in T : n \in Nat
  OBVIOUS
<1>. QED
  BY <1>4, <1>5

LEMMA RowTyped ==
    ASSUME writes \in Seq([trade: Trades, at: 0 .. MaxTime]), NEW i \in 1 .. Len(writes)
    PROVE  writes[i].trade \in Trades
<1>. DEFINE Row == [trade: Trades, at: 0 .. MaxTime]
<1>1. writes[i] \in Row
  <2>1. writes \in Seq(Row)
    OBVIOUS
  <2>. HIDE DEF Row
  <2>. QED
    BY <2>1
<1>. QED
  BY <1>1

LEMMA CursorCovers ==
    ASSUME writes \in Seq([trade: Trades, at: 0 .. MaxTime]), NEW time
    PROVE  /\ SafeCursor(time) \in 0 .. Len(writes)
           /\ \A i \in 1 .. SafeCursor(time) : Covered(i, time)
<1>. DEFINE T == {n \in 1 .. Len(writes) : ~Covered(n, time)} \cup {Len(writes) + 1}
            Longest(n) == /\ \A i \in 1 .. n : Covered(i, time)
                          /\ n < Len(writes) => ~Covered(n + 1, time)
<1>1. Len(writes) \in Nat
  OBVIOUS
<1>2. PICK m \in T : \A n \in T : m <= n
  <2>1. T \in SUBSET Nat /\ T # {}
    BY <1>1
  <2>. HIDE DEF T
  <2>. QED
    BY <2>1, LeastNumber
<1>3. m - 1 \in 0 .. Len(writes)
  BY <1>1, <1>2
<1>4. \A i \in 1 .. m - 1 : Covered(i, time)
  BY <1>1, <1>2, <1>3
<1>5. m - 1 < Len(writes) => ~Covered((m - 1) + 1, time)
  BY <1>1, <1>2, <1>3
<1>6. \E n \in 0 .. Len(writes) : Longest(n)
  BY <1>3, <1>4, <1>5
<1>7. SafeCursor(time) = CHOOSE n \in 0 .. Len(writes) : Longest(n)
  BY DEF SafeCursor
<1>8. SafeCursor(time) \in 0 .. Len(writes) /\ Longest(SafeCursor(time))
  <2>. HIDE DEF Longest
  <2>. QED
    BY <1>6, <1>7
<1>. QED
  BY <1>8

(* A covered trade happened before the snapshot it is covered by.           *)
LEMMA CoveredHappened ==
    ASSUME NEW time, Aligned(time), NEW i \in DOMAIN writes, writes[i].trade \in Trades,
           Covered(i, time)
    PROVE  HappenedAt[writes[i].trade] <= time.at
<1>. DEFINE x == writes[i].trade
<1>1. Upper(EffectiveOf(x)) <= time.at
  BY EffectiveAligned, BeforeHasEnded DEF Covered
<1>2. time.at \in Nat /\ EffectiveOf(x).at \in Nat /\ EffectiveOf(x).dated \in BOOLEAN
  BY EffectiveAligned DEF Aligned, Point
<1>3. Upper(EffectiveOf(x)) \in Nat
  BY <1>2, ConstantsAssumption DEF Upper
<1>. QED
  BY <1>1, <1>2, <1>3, EffectiveAligned

--------------------------------------------------------------------------------
(* What makes a portfolio sound: every row up to the cursor counts once,    *)
(* and what counts has happened by the time the portfolio describes.  Rows  *)
(* are those of the write journal, history is the checkpoints.              *)
Holds(counts, rows, n) ==
    /\ counts \in Counts
    /\ \A x \in Trades : counts[x] \in {0, 1}
    /\ \A i \in 1 .. n : counts[rows[i].trade] = 1

SoundCheckpoint(k, rows) ==
    /\ Aligned(k.time)
    /\ k.through \in 0 .. Len(rows)
    /\ Holds(k.base, rows, k.through)
    /\ \A x \in Trades : k.base[x] = 1 => HappenedAt[x] <= Upper(k.time)

SoundObservation(c, rows) ==
    /\ Aligned(c.time)
    /\ c.through \in 0 .. Len(rows)
    /\ \A i \in 1 .. c.through : HappenedAt[rows[i].trade] <= c.time.at
    /\ \E t \in c.time.at .. Upper(c.time) : c.observed = Shown(c.account, t)

SoundCandidate(c, rows, history) ==
    /\ SoundObservation(c, rows)
    /\ c.basis \in 1 .. Len(history)
    /\ Holds(c.current, rows, c.through)
    /\ \A x \in Trades : c.current[x] = 1 =>
           HappenedAt[x] <= c.time.at \/ HappenedAt[x] <= Upper(history[c.basis].time)

Ordered(history) ==
    \A i, j \in DOMAIN history : i < j =>
        /\ After(history[j].time, history[i].time)
        /\ history[i].through <= history[j].through

RecordedOnce ==
    \A i, j \in DOMAIN writes : writes[i].trade = writes[j].trade => i = j

(* A longer journal keeps what is sound, a longer history too.              *)
LEMMA RowsGrow ==
    ASSUME NEW rows, NEW more, Len(rows) \in Nat, Len(more) \in Nat, Len(rows) <= Len(more),
           \A i \in 1 .. Len(rows) : more[i] = rows[i]
    PROVE  /\ \A k : SoundCheckpoint(k, rows) => SoundCheckpoint(k, more)
           /\ \A c : SoundObservation(c, rows) => SoundObservation(c, more)
           /\ \A c, history : SoundCandidate(c, rows, history)
                                  => SoundCandidate(c, more, history)
<1>1. ASSUME NEW n \in 0 .. Len(rows)
      PROVE  /\ n \in 0 .. Len(more)
             /\ \A i \in 1 .. n : more[i] = rows[i]
  OBVIOUS
<1>2. ASSUME NEW counts, NEW n \in 0 .. Len(rows), Holds(counts, rows, n)
      PROVE  Holds(counts, more, n)
  BY <1>1, <1>2 DEF Holds
<1>3. ASSUME NEW c, SoundObservation(c, rows)
      PROVE  SoundObservation(c, more)
  BY <1>1, <1>3 DEF SoundObservation
<1>4. ASSUME NEW c, NEW history, SoundCandidate(c, rows, history)
      PROVE  SoundCandidate(c, more, history)
  <2>1. c.through \in 0 .. Len(rows)
    BY <1>4 DEF SoundCandidate, SoundObservation
  <2>. QED
    BY <1>2, <1>3, <1>4, <2>1 DEF SoundCandidate
<1>5. ASSUME NEW k, SoundCheckpoint(k, rows)
      PROVE  SoundCheckpoint(k, more)
  BY <1>1, <1>2, <1>5 DEF SoundCheckpoint
<1>. QED
  BY <1>3, <1>4, <1>5

LEMMA HistoryGrows ==
    ASSUME NEW rows, NEW c, NEW history, NEW k, history \in Seq(Checkpoint), k \in Checkpoint,
           SoundCandidate(c, rows, history)
    PROVE  SoundCandidate(c, rows, Append(history, k))
<1>1. /\ c.basis \in 1 .. Len(Append(history, k))
      /\ Append(history, k)[c.basis] = history[c.basis]
  BY DEF SoundCandidate
<1>. QED
  BY <1>1 DEF SoundCandidate

--------------------------------------------------------------------------------
(* Projections.                                                             *)
LEMMA PointOrder ==
    ASSUME NEW p, Aligned(p)
    PROVE  p.at \in Nat /\ Upper(p) \in Nat /\ p.at <= Upper(p)
  BY ConstantsAssumption DEF Aligned, Point, Upper

(* A trade that counts is not after the checkpoint it counts in.            *)
LEMMA CountedNotAfter ==
    ASSUME NEW time, Aligned(time), NEW x \in Trades, HappenedAt[x] <= Upper(time)
    PROVE  ~After(EffectiveOf(x), time)
<1>1. EffectiveOf(x).at <= HappenedAt[x] /\ HappenedAt[x] \in Nat
  BY EffectiveAligned
<1>2. Upper(time) \in Nat /\ EffectiveOf(x).at \in Nat
  BY PointOrder, EffectiveAligned
<1>. QED
  BY <1>1, <1>2, EffectiveAligned, AfterIsPast

(* A projection that succeeds counts once every row up to its cursor, and   *)
(* besides them what its checkpoint counts.                                 *)
LEMMA ProjectionHolds ==
    ASSUME writes \in Seq([trade: Trades, at: 0 .. MaxTime]), RecordedOnce,
           NEW k, SoundCheckpoint(k, writes),
           NEW n \in 0 .. Len(writes), Projects(k, n)
    PROVE  /\ Holds(Projection(k, n), writes, n)
           /\ \A x \in Trades : Projection(k, n)[x] = 1 =>
                  k.base[x] = 1 \/ \E i \in 1 .. n : writes[i].trade = x
           /\ \A x \in Trades : k.base[x] = 1 => Projection(k, n)[x] = 1
<1>. DEFINE delta == TradesBetween(k.through, n)
            counts == Projection(k, n)
<1>1. /\ k.through \in 0 .. n
      /\ k.base \in Counts
      /\ \A x \in Trades : k.base[x] \in {0, 1}
      /\ \A i \in 1 .. k.through : k.base[writes[i].trade] = 1
      /\ Aligned(k.time)
      /\ Len(writes) \in Nat
  BY DEF SoundCheckpoint, Holds, Projects
<1>2. \A i \in 1 .. Len(writes) : writes[i].trade \in Trades
  BY RowTyped
<1>3. \A x \in delta : x \in Trades /\ k.base[x] = 0
  <2>. SUFFICES ASSUME NEW x \in delta PROVE x \in Trades /\ k.base[x] = 0
    OBVIOUS
  <2>1. x \in Trades
    BY <1>1, <1>2 DEF TradesBetween
  <2>2. After(EffectiveOf(x), k.time)
    BY DEF Projects
  <2>3. ~(HappenedAt[x] <= Upper(k.time))
    BY <1>1, <2>1, <2>2, CountedNotAfter
  <2>. QED
    BY <1>1, <2>1, <2>3 DEF SoundCheckpoint
<1>4. \A x \in Trades : counts[x] = k.base[x] + (IF x \in delta THEN 1 ELSE 0)
  BY DEF Projection
<1>5. counts \in Counts /\ \A x \in Trades : counts[x] \in {0, 1}
  <2>1. \A x \in Trades : counts[x] \in {0, 1}
    BY <1>1, <1>3, <1>4
  <2>2. DOMAIN counts = Trades /\ counts = [x \in Trades |-> counts[x]]
    BY DEF Projection
  <2>. QED
    BY <2>1, <2>2 DEF Counts
<1>6. \A i \in 1 .. n : counts[writes[i].trade] = 1
  <2>. SUFFICES ASSUME NEW i \in 1 .. n PROVE counts[writes[i].trade] = 1
    OBVIOUS
  <2>. DEFINE x == writes[i].trade
  <2>1. x \in Trades
    BY <1>2
  <2>2. CASE i <= k.through
    <3>1. k.base[x] = 1
      BY <1>1, <2>2
    <3>. QED
      BY <1>3, <1>4, <2>1, <3>1
  <2>3. CASE i > k.through
    <3>1. x \in delta
      BY <1>1, <2>3 DEF TradesBetween
    <3>. QED
      BY <1>3, <1>4, <2>1, <3>1
  <2>. QED
    BY <1>1, <2>2, <2>3
<1>7. ASSUME NEW x \in Trades, counts[x] = 1, k.base[x] # 1
      PROVE  \E i \in 1 .. n : writes[i].trade = x
  <2>1. x \in delta
    BY <1>1, <1>4, <1>7
  <2>. QED
    BY <1>1, <2>1 DEF TradesBetween
<1>8. \A x \in Trades : k.base[x] = 1 => counts[x] = 1
  BY <1>3, <1>4
<1>. QED
  BY <1>5, <1>6, <1>7, <1>8 DEF Holds

(* What a reconciliation leaves is sound: for the account it observed the   *)
(* observation has every covered trade, for the others the projection does. *)
LEMMA ReconciledHolds ==
    ASSUME writes \in Seq([trade: Trades, at: 0 .. MaxTime]),
           checkpoints \in Seq(Checkpoint) \ {<< >>}, Ordered(checkpoints),
           \A i \in DOMAIN checkpoints : SoundCheckpoint(checkpoints[i], writes),
           NEW c \in Candidate, SoundCandidate(c, writes, checkpoints),
           After(c.time, Latest.time)
    PROVE  SoundCheckpoint([time |-> c.time, through |-> c.through, base |-> Reconciled(c)],
                           writes)
<1>. DEFINE counts == Reconciled(c)
<1>1. PICK t \in Nat : /\ c.time.at <= t /\ t <= Upper(c.time)
                       /\ c.observed = Shown(c.account, t)
  BY PointOrder DEF SoundCandidate, SoundObservation
<1>2. /\ Aligned(c.time)
      /\ c.through \in 0 .. Len(writes)
      /\ \A i \in 1 .. c.through : HappenedAt[writes[i].trade] <= c.time.at
      /\ c.basis \in 1 .. Len(checkpoints)
      /\ Holds(c.current, writes, c.through)
  BY DEF SoundCandidate, SoundObservation
<1>3. c.time.at \in Nat /\ Upper(c.time) \in Nat /\ c.time.at <= Upper(c.time)
  BY <1>2, PointOrder
<1>4. \A x \in Trades : HappenedAt[x] \in Nat
  BY ConstantsAssumption
<1>5. Upper(checkpoints[c.basis].time) <= Upper(c.time)
  <2>1. Len(checkpoints) \in 1 .. Len(checkpoints) /\ Len(checkpoints) \in Nat
    OBVIOUS
  <2>2. Aligned(Latest.time) /\ Aligned(checkpoints[c.basis].time)
    BY <1>2, <2>1 DEF Latest, SoundCheckpoint
  <2>3. c.time.at > Upper(Latest.time)
    BY <1>2, <2>2, AfterIsPast
  <2>4. CASE c.basis = Len(checkpoints)
    BY <1>3, <2>2, <2>3, <2>4, PointOrder DEF Latest
  <2>5. CASE c.basis < Len(checkpoints)
    <3>1. After(Latest.time, checkpoints[c.basis].time)
      BY <1>2, <2>1, <2>5 DEF Ordered, Latest
    <3>2. Latest.time.at > Upper(checkpoints[c.basis].time)
      BY <2>2, <3>1, AfterIsPast
    <3>. QED
      BY <1>3, <2>2, <2>3, <3>2, PointOrder
  <2>. QED
    BY <1>2, <2>4, <2>5
<1>6. \A x \in Trades : counts[x] \in {0, 1}
  BY <1>2 DEF Reconciled, Holds
<1>7. counts \in Counts
  <2>1. counts = [x \in Trades |-> counts[x]]
    BY DEF Reconciled
  <2>. QED
    BY <1>6, <2>1 DEF Counts
<1>8. ASSUME NEW i \in 1 .. c.through PROVE counts[writes[i].trade] = 1
  <2>. DEFINE x == writes[i].trade
  <2>1. x \in Trades
    BY <1>2, RowTyped
  <2>2. HappenedAt[x] <= t
    BY <1>1, <1>2, <1>3, <1>4, <2>1
  <2>3. CASE AccountOf[x] = c.account
    BY <1>1, <2>1, <2>2, <2>3 DEF Shown, Reconciled
  <2>4. CASE AccountOf[x] # c.account
    BY <1>2, <2>1, <2>4 DEF Holds, Reconciled
  <2>. QED
    BY <2>3, <2>4
<1>9. ASSUME NEW x \in Trades, counts[x] = 1 PROVE HappenedAt[x] <= Upper(c.time)
  <2>1. CASE AccountOf[x] = c.account
    <3>1. HappenedAt[x] <= t
      BY <1>1, <1>9, <2>1 DEF Shown, Reconciled
    <3>. QED
      BY <1>1, <1>3, <1>4, <3>1
  <2>2. CASE AccountOf[x] # c.account
    <3>1. HappenedAt[x] <= c.time.at \/ HappenedAt[x] <= Upper(checkpoints[c.basis].time)
      BY <1>9, <2>2 DEF SoundCandidate, Reconciled
    <3>2. Upper(checkpoints[c.basis].time) \in Nat
      BY <1>2, PointOrder DEF SoundCheckpoint
    <3>. QED
      BY <1>3, <1>4, <1>5, <3>1, <3>2
  <2>. QED
    BY <2>1, <2>2
<1>. QED
  BY <1>2, <1>6, <1>7, <1>8, <1>9 DEF SoundCheckpoint, Holds

--------------------------------------------------------------------------------
(* The inductive invariant.                                                 *)
Built == {"built", "consumed", "accepted", "ordered", "appended"}

CheckpointsSound == \A i \in DOMAIN checkpoints : SoundCheckpoint(checkpoints[i], writes)

DraftSound(p) ==
    /\ pc[p] = "cursored" => SoundObservation(draft[p], writes)
    /\ pc[p] \in Built => SoundCandidate(draft[p], writes, checkpoints)
    /\ \A c \in pending[p] : SoundCandidate(c, writes, checkpoints)

(* Nobody else appends between the check of the order, the append and the   *)
(* read-back.                                                               *)
Appended(c) == [time |-> c.time, through |-> c.through, base |-> Reconciled(c)]

AppendInOrder(p) ==
    /\ pc[p] = "ordered" => Follows(draft[p], Latest)
    /\ pc[p] = "appended" => Latest = Appended(draft[p])

(* What a connector accepts is compared with the latest checkpoint.         *)
Fresh(c) ==
    /\ c.basis = Len(checkpoints)
    /\ Projects(Latest, c.through)
    /\ c.current = Projection(Latest, c.through)

ConnectorFresh(p) == p \notin Cli /\ pc[p] \in {"accepted", "ordered"} => Fresh(draft[p])

OneAtWork ==
    /\ only \in Procs
    /\ \A p \in Procs \ {only} : pc[p] = "idle" /\ pending[p] = {}

IInv ==
    /\ TypeOK
    /\ RecordedOnce
    /\ Ordered(checkpoints)
    /\ CheckpointsSound
    /\ \A p \in Procs : DraftSound(p) /\ AppendInOrder(p) /\ ConnectorFresh(p)
    /\ OneAtWork
    /\ NoFalseFailure

--------------------------------------------------------------------------------
(* Types.                                                                   *)
PcValues == {"idle", "cursored", "built", "consumed", "accepted", "ordered", "appended"}

(* A process at work has a candidate.                                       *)
LEMMA DraftTyped ==
    ASSUME TypeOK, NEW p \in Procs, pc[p] # "idle"
    PROVE  draft[p] \in Candidate
  BY DEF TypeOK

LEMMA JournalsTyped ==
    ASSUME TypeOK
    PROVE  /\ writes \in Seq([trade: Trades, at: 0 .. MaxTime])
           /\ checkpoints \in Seq(Checkpoint) \ {<< >>}
           /\ Len(writes) \in Nat
           /\ Len(checkpoints) \in Nat \ {0}
           /\ Latest \in Checkpoint
           /\ Len(checkpoints) \in DOMAIN checkpoints
           /\ now \in Nat
<1>1. /\ writes \in Seq([trade: Trades, at: 0 .. MaxTime])
      /\ checkpoints \in Seq(Checkpoint) \ {<< >>}
      /\ now \in Nat
  BY ConstantsAssumption DEF TypeOK
<1>2. Len(checkpoints) \in Nat \ {0} /\ Len(checkpoints) \in DOMAIN checkpoints
      /\ Len(writes) \in Nat
  BY <1>1
<1>. HIDE DEF Latest
<1>3. checkpoints[Len(checkpoints)] \in Checkpoint
  BY <1>1, <1>2
<1>. QED
  BY <1>1, <1>2, <1>3 DEF Latest

LEMMA IdleTyped ==
    ASSUME TypeOK, NEW p \in Procs, Idle(p)
    PROVE  /\ pc' \in [Procs -> PcValues]
           /\ draft' \in [Procs -> Candidate \cup {NoCandidate}]
           /\ \A q \in Procs : draft'[q] = NoCandidate <=> pc'[q] = "idle"
           /\ pc'[p] = "idle"
           /\ \A q \in Procs \ {p} : pc'[q] = pc[q] /\ draft'[q] = draft[q]
  BY DEF Idle, TypeOK, PcValues

LEMMA MoveTyped ==
    ASSUME TypeOK, NEW p \in Procs, NEW step \in PcValues \ {"idle"}, NEW c \in Candidate,
           pc' = [pc EXCEPT ![p] = step], draft' = [draft EXCEPT ![p] = c]
    PROVE  /\ pc' \in [Procs -> PcValues]
           /\ draft' \in [Procs -> Candidate \cup {NoCandidate}]
           /\ \A q \in Procs : draft'[q] = NoCandidate <=> pc'[q] = "idle"
           /\ pc'[p] = step /\ draft'[p] = c
           /\ \A q \in Procs \ {p} : pc'[q] = pc[q] /\ draft'[q] = draft[q]
  BY ConstantsAssumption DEF TypeOK, PcValues

(* A step that leaves both journals alone and makes nothing unsound.        *)
LEMMA QuietTyped ==
    ASSUME TypeOK, UNCHANGED <<now, writes, checkpoints>>,
           pc' \in [Procs -> PcValues],
           draft' \in [Procs -> Candidate \cup {NoCandidate}],
           \A q \in Procs : draft'[q] = NoCandidate <=> pc'[q] = "idle",
           pending' \in [Procs -> SUBSET Candidate],
           reply' \in [Procs -> {"none", "applied", "mismatch"}]
    PROVE  TypeOK'
  BY DEF TypeOK, PcValues

LEMMA FreshUnchanged ==
    ASSUME UNCHANGED <<writes, checkpoints>>, NEW c
    PROVE  Fresh(c)' <=> Fresh(c)
  BY DEF Fresh, Latest, Projects, Projection, TradesBetween

(* Only process p does something, and what it then holds is as it must be.  *)
LEMMA QuietStep ==
    ASSUME IInv, TypeOK', OneAtWork', UNCHANGED <<now, writes, checkpoints>>, NEW p \in Procs,
           \A q \in Procs \ {p} : /\ pc'[q] = pc[q] /\ draft'[q] = draft[q]
                                  /\ pending'[q] = pending[q] /\ reply'[q] = reply[q],
           pc'[p] = "cursored" => SoundObservation(draft'[p], writes),
           pc'[p] \in Built => SoundCandidate(draft'[p], writes, checkpoints),
           \A c \in pending'[p] : SoundCandidate(c, writes, checkpoints),
           pc'[p] = "ordered" => Follows(draft'[p], Latest),
           pc'[p] = "appended" => Latest = Appended(draft'[p]),
           p \notin Cli /\ pc'[p] \in {"accepted", "ordered"} => Fresh(draft'[p]),
           reply'[p] # "mismatch"
    PROVE  IInv'
<1>1. RecordedOnce' /\ Ordered(checkpoints)' /\ CheckpointsSound'
  BY DEF IInv, RecordedOnce, CheckpointsSound
<1>2. ASSUME NEW q \in Procs PROVE DraftSound(q)'
  BY DEF IInv, DraftSound
<1>3. Latest' = Latest
  BY DEF Latest
<1>4. ASSUME NEW q \in Procs PROVE AppendInOrder(q)'
  <2>1. CASE q = p
    BY <1>3, <2>1 DEF AppendInOrder, Appended, Reconciled
  <2>2. CASE q # p
    BY <1>3, <2>2 DEF AppendInOrder, Appended, Reconciled, IInv
  <2>. QED
    BY <2>1, <2>2
<1>5. ASSUME NEW q \in Procs PROVE ConnectorFresh(q)'
  <2>1. \A c : Fresh(c)' <=> Fresh(c)
    BY FreshUnchanged
  <2>2. Fresh(draft[q])' <=> Fresh(draft'[q])
    BY <1>3 DEF Fresh, Projects, Projection, TradesBetween
  <2>3. CASE q = p
    BY <2>2, <2>3 DEF ConnectorFresh
  <2>4. CASE q # p
    BY <2>2, <2>4 DEF ConnectorFresh, IInv
  <2>. QED
    BY <2>3, <2>4
<1>6. NoFalseFailure'
  BY DEF NoFalseFailure, IInv
<1>. QED
  BY <1>1, <1>2, <1>4, <1>5, <1>6 DEF IInv

--------------------------------------------------------------------------------
(* The steps of a process.                                                  *)
LEMMA StartPreviewKeeps ==
    ASSUME IInv, OneAtWork', NEW p \in Procs, NEW account \in Accounts,
           NEW time \in SnapshotTimes, StartPreview(p, account, time)
    PROVE  IInv'
<1>. USE DEF IInv
<1>1. /\ Aligned(time) /\ time \in Point /\ time.at \in Nat
      /\ writes \in Seq([trade: Trades, at: 0 .. MaxTime])
      /\ Len(writes) \in Nat
      /\ now \in Nat
  BY JournalsTyped, SnapshotAligned
<1>2. /\ SafeCursor(time) \in 0 .. Len(writes)
      /\ \A i \in 1 .. SafeCursor(time) : Covered(i, time)
  BY <1>1, CursorCovers
<1>3. PICK t \in TakenAt(time) :
          draft' = [draft EXCEPT ![p] =
              [account |-> account, time |-> time,
               observed |-> Shown(account, t), through |-> SafeCursor(time),
               basis |-> 0, current |-> [x \in Trades |-> 0], registered |-> 0]]
  BY DEF StartPreview
<1>. DEFINE c == [account |-> account, time |-> time,
                  observed |-> Shown(account, t), through |-> SafeCursor(time),
                  basis |-> 0, current |-> [x \in Trades |-> 0], registered |-> 0]
<1>4. t \in Nat /\ time.at <= t /\ t <= Upper(time)
  BY <1>1, TakenWithin
<1>5. c \in Candidate
  <2>1. [x \in Trades |-> 0] \in Counts
    BY DEF Counts
  <2>2. Shown(account, t) \in SUBSET Trades
    BY DEF Shown
  <2>. QED
    BY <1>1, <1>2, <2>1, <2>2 DEF Candidate
<1>6. SoundObservation(c, writes)
  <2>1. \A i \in 1 .. SafeCursor(time) : HappenedAt[writes[i].trade] <= time.at
    <3>. SUFFICES ASSUME NEW i \in 1 .. SafeCursor(time)
                  PROVE  HappenedAt[writes[i].trade] <= time.at
      OBVIOUS
    <3>1. i \in 1 .. Len(writes) /\ i \in DOMAIN writes
      BY <1>1, <1>2
    <3>2. writes[i].trade \in Trades
      BY <1>1, <3>1, RowTyped
    <3>. QED
      BY <1>1, <1>2, <3>1, <3>2, CoveredHappened
  <2>2. t \in time.at .. Upper(time)
    BY <1>1, <1>4, PointOrder
  <2>3. c.through = SafeCursor(time) /\ c.time = time /\ c.account = account
        /\ c.observed = Shown(account, t)
    OBVIOUS
  <2>. HIDE DEF c
  <2>. QED
    BY <1>1, <1>2, <2>1, <2>2, <2>3 DEF SoundObservation
<1>. HIDE DEF c
<1>7. /\ pc' = [pc EXCEPT ![p] = "cursored"]
      /\ draft' = [draft EXCEPT ![p] = c]
      /\ reply' = [reply EXCEPT ![p] = "none"]
      /\ UNCHANGED <<now, writes, checkpoints, pending>>
  BY <1>3 DEF StartPreview, c
<1>8. /\ pc' \in [Procs -> PcValues]
      /\ draft' \in [Procs -> Candidate \cup {NoCandidate}]
      /\ \A q \in Procs : draft'[q] = NoCandidate <=> pc'[q] = "idle"
      /\ pc'[p] = "cursored" /\ draft'[p] = c
      /\ \A q \in Procs \ {p} : pc'[q] = pc[q] /\ draft'[q] = draft[q]
  BY <1>5, <1>7, MoveTyped DEF PcValues
<1>9. /\ reply' \in [Procs -> {"none", "applied", "mismatch"}]
      /\ reply'[p] = "none"
      /\ \A q \in Procs \ {p} : reply'[q] = reply[q]
      /\ pending' \in [Procs -> SUBSET Candidate]
  BY <1>7 DEF TypeOK
<1>10. TypeOK'
  BY <1>7, <1>8, <1>9, QuietTyped
<1>11. \A d \in pending'[p] : SoundCandidate(d, writes, checkpoints)
  BY <1>7 DEF DraftSound
<1>. QED
  BY <1>6, <1>7, <1>8, <1>9, <1>10, <1>11, QuietStep DEF Built

(* A process that stops work leaves nothing to keep but what is pending.    *)
LEMMA IdleKeeps ==
    ASSUME IInv, OneAtWork', NEW p \in Procs, Idle(p), UNCHANGED <<now, writes, checkpoints>>,
           pending' \in [Procs -> SUBSET Candidate],
           \A c \in pending'[p] : SoundCandidate(c, writes, checkpoints),
           reply' \in [Procs -> {"none", "applied", "mismatch"}], reply'[p] # "mismatch",
           \A q \in Procs \ {p} : pending'[q] = pending[q] /\ reply'[q] = reply[q]
    PROVE  IInv'
<1>1. /\ pc' \in [Procs -> PcValues]
      /\ draft' \in [Procs -> Candidate \cup {NoCandidate}]
      /\ \A q \in Procs : draft'[q] = NoCandidate <=> pc'[q] = "idle"
      /\ pc'[p] = "idle"
      /\ \A q \in Procs \ {p} : pc'[q] = pc[q] /\ draft'[q] = draft[q]
  BY IdleTyped DEF IInv
<1>2. TypeOK'
  BY <1>1, QuietTyped DEF IInv
<1>. QED
  BY <1>1, <1>2, QuietStep DEF Built

(* A process that goes on with a sound candidate.                           *)
LEMMA MoveKeeps ==
    ASSUME IInv, OneAtWork', NEW p \in Procs, UNCHANGED <<now, writes, checkpoints>>,
           NEW step \in {"built", "consumed", "accepted", "ordered"}, NEW c \in Candidate,
           pc' = [pc EXCEPT ![p] = step], draft' = [draft EXCEPT ![p] = c],
           SoundCandidate(c, writes, checkpoints),
           step = "ordered" => Follows(c, Latest),
           p \notin Cli /\ step \in {"accepted", "ordered"} => Fresh(c),
           pending' \in [Procs -> SUBSET Candidate],
           \A d \in pending'[p] : SoundCandidate(d, writes, checkpoints),
           reply' \in [Procs -> {"none", "applied", "mismatch"}], reply'[p] # "mismatch",
           \A q \in Procs \ {p} : pending'[q] = pending[q] /\ reply'[q] = reply[q]
    PROVE  IInv'
<1>1. /\ pc' \in [Procs -> PcValues]
      /\ draft' \in [Procs -> Candidate \cup {NoCandidate}]
      /\ \A q \in Procs : draft'[q] = NoCandidate <=> pc'[q] = "idle"
      /\ pc'[p] = step /\ draft'[p] = c
      /\ \A q \in Procs \ {p} : pc'[q] = pc[q] /\ draft'[q] = draft[q]
  <2>1. step \in PcValues \ {"idle"}
    BY DEF PcValues
  <2>. QED
    BY <2>1, MoveTyped DEF IInv
<1>2. TypeOK'
  BY <1>1, QuietTyped DEF IInv
<1>. QED
  BY <1>1, <1>2, QuietStep

LEMMA RepliesQuiet ==
    ASSUME IInv, NEW p \in Procs, UNCHANGED <<pending, reply>>
    PROVE  /\ pending' \in [Procs -> SUBSET Candidate]
           /\ \A c \in pending'[p] : SoundCandidate(c, writes, checkpoints)
           /\ reply' \in [Procs -> {"none", "applied", "mismatch"}] /\ reply'[p] # "mismatch"
           /\ \A q \in Procs \ {p} : pending'[q] = pending[q] /\ reply'[q] = reply[q]
  BY DEF IInv, TypeOK, NoFalseFailure, DraftSound

(* What a projection of the latest checkpoint makes of an observation.      *)
LEMMA ProjectedSound ==
    ASSUME IInv, NEW c \in Candidate, SoundObservation(c, writes), Projects(Latest, c.through)
    PROVE  LET d == [c EXCEPT !.basis = Len(checkpoints),
                              !.current = Projection(Latest, c.through)]
           IN  d \in Candidate /\ SoundCandidate(d, writes, checkpoints) /\ Fresh(d)
<1>. DEFINE counts == Projection(Latest, c.through)
            d == [c EXCEPT !.basis = Len(checkpoints), !.current = counts]
<1>1. /\ writes \in Seq([trade: Trades, at: 0 .. MaxTime])
      /\ Len(checkpoints) \in Nat \ {0} /\ Len(checkpoints) \in DOMAIN checkpoints
      /\ RecordedOnce
      /\ SoundCheckpoint(Latest, writes)
      /\ c.through \in 0 .. Len(writes)
  BY JournalsTyped DEF IInv, CheckpointsSound, Latest, SoundObservation
<1>2. /\ Holds(counts, writes, c.through)
      /\ \A x \in Trades : counts[x] = 1 =>
             Latest.base[x] = 1 \/ \E i \in 1 .. c.through : writes[i].trade = x
  BY <1>1, ProjectionHolds
<1>. HIDE DEF counts
<1>3. d \in Candidate
  BY <1>1, <1>2 DEF Candidate, Holds
<1>4. /\ d.account = c.account /\ d.time = c.time /\ d.observed = c.observed
      /\ d.through = c.through /\ d.basis = Len(checkpoints) /\ d.current = counts
  BY DEF Candidate
<1>. HIDE DEF d
<1>5. SoundObservation(d, writes)
  BY <1>4 DEF SoundObservation
<1>6. \A x \in Trades : d.current[x] = 1 =>
          HappenedAt[x] <= d.time.at \/ HappenedAt[x] <= Upper(checkpoints[d.basis].time)
  BY <1>1, <1>2, <1>4 DEF SoundCheckpoint, SoundObservation, Latest
<1>7. SoundCandidate(d, writes, checkpoints)
  BY <1>1, <1>2, <1>4, <1>5, <1>6 DEF SoundCandidate
<1>8. Fresh(d)
  BY <1>4 DEF Fresh, counts
<1>. QED
  BY <1>3, <1>7, <1>8 DEF d, counts

LEMMA ProjectKeeps ==
    ASSUME IInv, OneAtWork', NEW p \in Procs, Project(p)
    PROVE  IInv'
<1>. DEFINE c == draft[p]
            d == [c EXCEPT !.basis = Len(checkpoints),
                           !.current = Projection(Latest, c.through)]
<1>1. c \in Candidate /\ SoundObservation(c, writes)
  BY DraftTyped DEF IInv, Project, DraftSound
<1>2. CASE Projects(Latest, c.through)
  <2>1. d \in Candidate /\ SoundCandidate(d, writes, checkpoints)
    BY <1>1, <1>2, ProjectedSound
  <2>2. draft' = [draft EXCEPT ![p] = d]
    BY <1>2 DEF Project, IInv, TypeOK
  <2>. HIDE DEF d
  <2>3. pc' = [pc EXCEPT ![p] = "built"] /\ UNCHANGED <<now, writes, checkpoints, pending, reply>>
    BY <1>2 DEF Project
  <2>. QED
    BY <2>1, <2>2, <2>3, RepliesQuiet, MoveKeeps
<1>3. CASE ~Projects(Latest, c.through)
  BY <1>3, RepliesQuiet, IdleKeeps DEF Project
<1>. QED
  BY <1>2, <1>3

LEMMA RegisterKeeps ==
    ASSUME IInv, OneAtWork', NEW p \in Procs, Register(p)
    PROVE  IInv'
<1>. DEFINE c == [draft[p] EXCEPT !.registered = Len(checkpoints)]
<1>1. draft[p] \in Candidate /\ SoundCandidate(draft[p], writes, checkpoints)
  BY DraftTyped DEF IInv, Register, DraftSound, Built
<1>2. Len(checkpoints) \in Nat
  BY JournalsTyped DEF IInv
<1>3. c \in Candidate
  BY <1>1, <1>2 DEF Candidate
<1>4. /\ c.account = draft[p].account /\ c.time = draft[p].time
      /\ c.observed = draft[p].observed /\ c.through = draft[p].through
      /\ c.basis = draft[p].basis /\ c.current = draft[p].current
  BY <1>1 DEF Candidate
<1>5. SoundCandidate(c, writes, checkpoints)
  <2>. HIDE DEF c
  <2>. QED
    BY <1>1, <1>4 DEF SoundCandidate, SoundObservation
<1>6. pending' = [pending EXCEPT ![p] = pending[p] \cup {c}] \/ pending' = pending
  BY DEF Register
<1>. HIDE DEF c
<1>7. /\ pending' \in [Procs -> SUBSET Candidate]
      /\ \A d \in pending'[p] : SoundCandidate(d, writes, checkpoints)
      /\ \A q \in Procs \ {p} : pending'[q] = pending[q]
  <2>1. /\ pending \in [Procs -> SUBSET Candidate]
        /\ \A d \in pending[p] : SoundCandidate(d, writes, checkpoints)
    BY DEF IInv, TypeOK, DraftSound
  <2>2. CASE pending' = pending
    BY <2>1, <2>2
  <2>3. CASE pending' = [pending EXCEPT ![p] = pending[p] \cup {c}]
    <3>1. pending'[p] = pending[p] \cup {c}
      BY <2>1, <2>3
    <3>. QED
      BY <1>3, <1>5, <2>1, <2>3, <3>1
  <2>. QED
    BY <1>6, <2>2, <2>3
<1>8. /\ reply' \in [Procs -> {"none", "applied", "mismatch"}] /\ reply'[p] # "mismatch"
      /\ reply' = reply
  BY DEF IInv, TypeOK, NoFalseFailure, Register
<1>. QED
  BY <1>7, <1>8, IdleKeeps DEF Register

(* A preview that leaves the pending ones takes nothing else with it.       *)
LEMMA FewerPending ==
    ASSUME IInv, NEW p \in Procs, NEW rest \in SUBSET pending[p],
           pending' = [pending EXCEPT ![p] = rest]
    PROVE  /\ pending' \in [Procs -> SUBSET Candidate]
           /\ \A c \in pending'[p] : SoundCandidate(c, writes, checkpoints)
           /\ \A q \in Procs \ {p} : pending'[q] = pending[q]
<1>1. /\ pending \in [Procs -> SUBSET Candidate]
      /\ \A c \in pending[p] : SoundCandidate(c, writes, checkpoints)
  BY DEF IInv, TypeOK, DraftSound
<1>2. pending'[p] = rest
  BY <1>1
<1>. QED
  BY <1>1, <1>2

LEMMA DiscardKeeps ==
    ASSUME IInv, OneAtWork', NEW p \in Procs, NEW c, Discard(p, c)
    PROVE  IInv'
<1>1. /\ pending' \in [Procs -> SUBSET Candidate]
      /\ \A d \in pending'[p] : SoundCandidate(d, writes, checkpoints)
      /\ \A q \in Procs \ {p} : pending'[q] = pending[q]
  <2>1. pending[p] \ {c} \in SUBSET pending[p]
    OBVIOUS
  <2>2. pending' = [pending EXCEPT ![p] = pending[p] \ {c}]
    BY DEF Discard
  <2>. QED
    BY <2>1, <2>2, FewerPending
<1>2. TypeOK'
  BY <1>1, QuietTyped DEF Discard, IInv, TypeOK, PcValues
<1>3. /\ pc[p] = "cursored" => SoundObservation(draft[p], writes)
      /\ pc[p] \in Built => SoundCandidate(draft[p], writes, checkpoints)
      /\ pc[p] = "ordered" => Follows(draft[p], Latest)
      /\ pc[p] = "appended" => Latest = Appended(draft[p])
      /\ p \notin Cli /\ pc[p] \in {"accepted", "ordered"} => Fresh(draft[p])
      /\ reply[p] # "mismatch"
  BY DEF IInv, DraftSound, AppendInOrder, ConnectorFresh, NoFalseFailure
<1>. QED
  BY <1>1, <1>2, <1>3, QuietStep DEF Discard

LEMMA ReplyTyped ==
    ASSUME IInv, NEW p \in Procs, NEW answer \in {"none", "applied"},
           reply' = [reply EXCEPT ![p] = answer]
    PROVE  /\ reply' \in [Procs -> {"none", "applied", "mismatch"}] /\ reply'[p] # "mismatch"
           /\ \A q \in Procs \ {p} : reply'[q] = reply[q]
  BY DEF IInv, TypeOK

LEMMA ConsumeKeeps ==
    ASSUME IInv, OneAtWork', NEW p \in Procs, NEW c \in pending[p], Consume(p, c)
    PROVE  IInv'
<1>1. /\ pending' \in [Procs -> SUBSET Candidate]
      /\ \A d \in pending'[p] : SoundCandidate(d, writes, checkpoints)
      /\ \A q \in Procs \ {p} : pending'[q] = pending[q]
  <2>1. pending[p] \ {c} \in SUBSET pending[p]
    OBVIOUS
  <2>2. pending' = [pending EXCEPT ![p] = pending[p] \ {c}]
    BY DEF Consume
  <2>. QED
    BY <2>1, <2>2, FewerPending
<1>2. /\ reply' \in [Procs -> {"none", "applied", "mismatch"}] /\ reply'[p] # "mismatch"
      /\ \A q \in Procs \ {p} : reply'[q] = reply[q]
  BY ReplyTyped DEF Consume
<1>3. c \in Candidate /\ SoundCandidate(c, writes, checkpoints)
  BY DEF IInv, TypeOK, DraftSound
<1>4. CASE c.registered = Len(checkpoints)
  <2>1. /\ pc' = [pc EXCEPT ![p] = "consumed"] /\ draft' = [draft EXCEPT ![p] = c]
        /\ UNCHANGED <<now, writes, checkpoints>>
    BY <1>4 DEF Consume
  <2>. QED
    BY <1>1, <1>2, <1>3, <2>1, MoveKeeps
<1>5. CASE c.registered # Len(checkpoints)
  <2>1. UNCHANGED <<now, writes, checkpoints, pc, draft>> /\ pc[p] = "idle"
    BY <1>5 DEF Consume
  <2>2. TypeOK'
    BY <1>1, <1>2, <2>1, QuietTyped DEF IInv, TypeOK, PcValues
  <2>. QED
    BY <1>1, <1>2, <2>1, <2>2, QuietStep DEF Built
<1>. QED
  BY <1>4, <1>5

LEMMA RecheckKeeps ==
    ASSUME IInv, OneAtWork', NEW p \in Procs, Recheck(p)
    PROVE  IInv'
<1>. DEFINE c == draft[p]
<1>1. c \in Candidate /\ SoundCandidate(c, writes, checkpoints)
  BY DraftTyped DEF IInv, Recheck, DraftSound, Built
<1>2. CASE UNCHANGED draft
  <2>1. Fresh(c) /\ pc' = [pc EXCEPT ![p] = "accepted"]
    <3>1. ~Idle(p)
      BY <1>1, <1>2, ConstantsAssumption DEF Idle, IInv, TypeOK
    <3>. QED
      BY <3>1 DEF Recheck, Fresh
  <2>2. draft' = [draft EXCEPT ![p] = c] /\ UNCHANGED <<now, writes, checkpoints, pending, reply>>
    BY <1>2 DEF Recheck, IInv, TypeOK
  <2>. HIDE DEF c
  <2>. QED
    BY <1>1, <2>1, <2>2, RepliesQuiet, MoveKeeps
<1>3. CASE Idle(p)
  BY <1>3, RepliesQuiet, IdleKeeps DEF Recheck
<1>. QED
  BY <1>2, <1>3 DEF Recheck

LEMMA AcceptFileKeeps ==
    ASSUME IInv, OneAtWork', NEW p \in Procs, NEW c \in pending[p], AcceptFile(p, c)
    PROVE  IInv'
<1>1. c \in Candidate /\ SoundCandidate(c, writes, checkpoints)
  BY DEF IInv, TypeOK, DraftSound
<1>2. /\ pending' \in [Procs -> SUBSET Candidate]
      /\ \A d \in pending'[p] : SoundCandidate(d, writes, checkpoints)
      /\ UNCHANGED pending
  BY DEF IInv, TypeOK, DraftSound, AcceptFile
<1>3. /\ reply' \in [Procs -> {"none", "applied", "mismatch"}] /\ reply'[p] # "mismatch"
      /\ \A q \in Procs \ {p} : reply'[q] = reply[q]
  BY ReplyTyped DEF AcceptFile
<1>4. /\ p \in Cli /\ pc' = [pc EXCEPT ![p] = "accepted"] /\ draft' = [draft EXCEPT ![p] = c]
      /\ UNCHANGED <<now, writes, checkpoints>>
  BY DEF AcceptFile
<1>. QED
  BY <1>1, <1>2, <1>3, <1>4, MoveKeeps

LEMMA CheckOrderKeeps ==
    ASSUME IInv, OneAtWork', NEW p \in Procs, CheckOrder(p)
    PROVE  IInv'
<1>. DEFINE c == draft[p]
<1>1. /\ c \in Candidate /\ SoundCandidate(c, writes, checkpoints)
      /\ p \notin Cli => Fresh(c)
  BY DraftTyped DEF IInv, CheckOrder, DraftSound, Built, ConnectorFresh
<1>2. CASE Follows(c, Latest)
  <2>1. /\ pc' = [pc EXCEPT ![p] = "ordered"] /\ draft' = [draft EXCEPT ![p] = c]
        /\ UNCHANGED <<now, writes, checkpoints, pending, reply>>
    BY <1>2 DEF CheckOrder, IInv, TypeOK
  <2>. HIDE DEF c
  <2>. QED
    BY <1>1, <1>2, <2>1, RepliesQuiet, MoveKeeps
<1>3. CASE ~Follows(c, Latest)
  BY <1>3, RepliesQuiet, IdleKeeps DEF CheckOrder
<1>. QED
  BY <1>2, <1>3

(* The read-back projects an empty delta onto the checkpoint just appended. *)
LEMMA AppendedReadsBack ==
    ASSUME TypeOK, CheckpointsSound, NEW c, Latest = Appended(c)
    PROVE  ReadsBack(c)
<1>1. Latest.through = c.through /\ Latest.base = Reconciled(c)
  BY DEF Appended
<1>2. Latest.through \in Nat /\ Latest.base \in Counts
  BY JournalsTyped DEF Checkpoint
<1>3. TradesBetween(Latest.through, c.through) = {}
  BY <1>1, <1>2 DEF TradesBetween
<1>4. Projects(Latest, c.through)
  BY <1>1, <1>2, <1>3 DEF Projects
<1>5. \A x \in Trades : Projection(Latest, c.through)[x] = Latest.base[x]
  <2>1. \A x \in Trades : Latest.base[x] \in Nat
    BY <1>2 DEF Counts
  <2>. QED
    BY <1>3, <2>1 DEF Projection
<1>6. Projection(Latest, c.through) = Reconciled(c)
  <2>1. Projection(Latest, c.through)
            = [x \in Trades |-> Projection(Latest, c.through)[x]]
    BY DEF Projection
  <2>2. Reconciled(c) = [x \in Trades |-> Reconciled(c)[x]]
    BY DEF Reconciled
  <2>3. \A x \in Trades : Projection(Latest, c.through)[x] = Reconciled(c)[x]
    BY <1>1, <1>5
  <2>. QED
    BY <2>1, <2>2, <2>3
<1>. QED
  BY <1>4, <1>6 DEF ReadsBack

LEMMA ReadBackKeeps ==
    ASSUME IInv, OneAtWork', NEW p \in Procs, ReadBack(p)
    PROVE  IInv'
<1>1. ReadsBack(draft[p])
  BY AppendedReadsBack DEF IInv, AppendInOrder, ReadBack
<1>2. /\ reply' \in [Procs -> {"none", "applied", "mismatch"}] /\ reply'[p] # "mismatch"
      /\ \A q \in Procs \ {p} : reply'[q] = reply[q]
  BY <1>1, ReplyTyped DEF ReadBack
<1>3. /\ pending' \in [Procs -> SUBSET Candidate]
      /\ \A d \in pending'[p] : SoundCandidate(d, writes, checkpoints)
      /\ UNCHANGED pending
  BY DEF IInv, TypeOK, DraftSound, ReadBack
<1>. QED
  BY <1>2, <1>3, IdleKeeps DEF ReadBack

LEMMA CrashKeeps ==
    ASSUME IInv, OneAtWork', NEW p \in Procs, Crash(p)
    PROVE  IInv'
<1>1. /\ reply' \in [Procs -> {"none", "applied", "mismatch"}] /\ reply'[p] # "mismatch"
      /\ \A q \in Procs \ {p} : reply'[q] = reply[q]
  BY ReplyTyped DEF Crash
<1>2. /\ pending' \in [Procs -> SUBSET Candidate]
      /\ \A c \in pending'[p] : SoundCandidate(c, writes, checkpoints)
      /\ \A q \in Procs \ {p} : pending'[q] = pending[q]
  <2>. DEFINE rest == IF p \in Cli THEN pending[p] ELSE {}
  <2>1. rest \in SUBSET pending[p] /\ pending' = [pending EXCEPT ![p] = rest]
    BY DEF Crash
  <2>. QED
    BY <2>1, FewerPending
<1>. QED
  BY <1>1, <1>2, IdleKeeps DEF Crash

--------------------------------------------------------------------------------
(* The append of a checkpoint.                                              *)
LEMMA OrderedAppend ==
    ASSUME TypeOK, CheckpointsSound, Ordered(checkpoints), NEW k \in Checkpoint,
           Aligned(k.time), After(k.time, Latest.time), Latest.through <= k.through
    PROVE  Ordered(Append(checkpoints, k))
<1>. DEFINE history == Append(checkpoints, k)
            n == Len(checkpoints)
<1>1. /\ n \in Nat \ {0} /\ Latest = checkpoints[n] /\ checkpoints \in Seq(Checkpoint)
      /\ n \in DOMAIN checkpoints
  BY JournalsTyped DEF Latest
<1>2. /\ DOMAIN history = 1 .. n + 1 /\ history[n + 1] = k
      /\ \A i \in 1 .. n : history[i] = checkpoints[i]
      /\ DOMAIN checkpoints = 1 .. n
  BY <1>1
<1>. HIDE DEF history, n
<1>3. \A i \in 1 .. n : /\ checkpoints[i].through \in Nat
                        /\ Aligned(checkpoints[i].time)
  BY <1>1, <1>2 DEF CheckpointsSound, SoundCheckpoint
<1>4. k.through \in Nat
  BY DEF Checkpoint
<1>5. ASSUME NEW i \in 1 .. n
      PROVE  After(k.time, checkpoints[i].time) /\ checkpoints[i].through <= k.through
  <2>1. CASE i = n
    BY <1>1, <2>1
  <2>2. CASE i < n
    <3>1. /\ After(Latest.time, checkpoints[i].time)
          /\ checkpoints[i].through <= Latest.through
      BY <1>1, <1>2, <2>2 DEF Ordered
    <3>2. /\ k.time.at > Upper(Latest.time) /\ Latest.time.at > Upper(checkpoints[i].time)
      BY <1>1, <1>2, <1>3, <3>1, AfterIsPast
    <3>3. k.time.at > Upper(checkpoints[i].time)
      <4>1. Aligned(Latest.time) /\ Aligned(checkpoints[i].time)
        BY <1>1, <1>2, <1>3
      <4>2. /\ k.time.at \in Nat /\ Latest.time.at \in Nat /\ Upper(Latest.time) \in Nat
            /\ Latest.time.at <= Upper(Latest.time) /\ Upper(checkpoints[i].time) \in Nat
        BY <4>1, PointOrder
      <4>. QED
        BY <3>2, <4>2
    <3>4. After(k.time, checkpoints[i].time)
      BY <1>3, <3>3, AfterIsPast
    <3>5. Latest.through \in Nat /\ checkpoints[i].through \in Nat
      BY <1>1, <1>2, <1>3
    <3>. QED
      BY <1>4, <3>1, <3>4, <3>5
  <2>. QED
    BY <1>1, <2>1, <2>2
<1>. QED
  BY <1>1, <1>2, <1>5 DEF Ordered, history

LEMMA AppendCheckpointKeeps ==
    ASSUME IInv, OneAtWork', NEW p \in Procs, AppendCheckpoint(p)
    PROVE  IInv'
<1>. DEFINE c == draft[p]
            k == Appended(c)
<1>1. /\ c \in Candidate /\ SoundCandidate(c, writes, checkpoints) /\ Follows(c, Latest)
      /\ pc[p] = "ordered"
  BY DraftTyped DEF IInv, AppendCheckpoint, DraftSound, Built, AppendInOrder
<1>2. checkpoints' = Append(checkpoints, k) /\ UNCHANGED <<now, writes, pending>>
  BY DEF AppendCheckpoint, Appended
<1>3. /\ writes \in Seq([trade: Trades, at: 0 .. MaxTime])
      /\ checkpoints \in Seq(Checkpoint) \ {<< >>}
      /\ Len(writes) \in Nat /\ Len(checkpoints) \in Nat \ {0}
  BY JournalsTyped DEF IInv
<1>4. SoundCheckpoint(k, writes)
  BY <1>1, <1>3, ReconciledHolds DEF IInv, CheckpointsSound, Follows, Appended
<1>5. k \in Checkpoint /\ k.through = c.through /\ k.time = c.time
  <2>1. Reconciled(c) \in Counts
    BY <1>4 DEF SoundCheckpoint, Holds, Appended
  <2>. QED
    BY <1>1, <2>1 DEF Candidate, Checkpoint, Appended
<1>6. \A q \in Procs \ {p} : pc[q] = "idle" /\ pending[q] = {}
  BY <1>1 DEF IInv, OneAtWork
<1>. HIDE DEF c, k
<1>7. /\ checkpoints' \in Seq(Checkpoint) \ {<< >>}
      /\ Latest' = k
      /\ Len(checkpoints') = Len(checkpoints) + 1
      /\ \A i \in DOMAIN checkpoints' :
             \/ i \in DOMAIN checkpoints /\ checkpoints'[i] = checkpoints[i]
             \/ checkpoints'[i] = k
  BY <1>2, <1>3, <1>5 DEF Latest
<1>8. CheckpointsSound'
  BY <1>2, <1>4, <1>7 DEF IInv, CheckpointsSound
<1>9. Ordered(checkpoints')
  <2>1. Aligned(k.time) /\ After(k.time, Latest.time) /\ Latest.through <= k.through
    <3>1. Latest.through \in Nat /\ c.through \in Nat
      BY <1>1, JournalsTyped DEF IInv, Checkpoint, Candidate
    <3>. QED
      BY <1>1, <1>4, <1>5, <3>1 DEF Follows, SoundCheckpoint
  <2>. QED
    BY <1>2, <1>5, <2>1, OrderedAppend DEF IInv
<1>10. \A d : SoundCandidate(d, writes, checkpoints) => SoundCandidate(d, writes, checkpoints')
  BY <1>2, <1>3, <1>5, HistoryGrows
<1>11. /\ pc' \in [Procs -> PcValues]
       /\ draft' \in [Procs -> Candidate \cup {NoCandidate}]
       /\ \A q \in Procs : draft'[q] = NoCandidate <=> pc'[q] = "idle"
       /\ pc'[p] \in {"idle", "appended"}
       /\ pc'[p] = "appended" => draft'[p] = c
       /\ \A q \in Procs \ {p} : pc'[q] = pc[q] /\ draft'[q] = draft[q]
  <2>1. CASE Idle(p)
    BY <2>1, IdleTyped DEF IInv
  <2>2. CASE pc' = [pc EXCEPT ![p] = "appended"] /\ UNCHANGED draft
    <3>1. draft' = [draft EXCEPT ![p] = c]
      BY <2>2 DEF IInv, TypeOK, c
    <3>2. "appended" \in PcValues \ {"idle"}
      BY DEF PcValues
    <3>. QED
      BY <1>1, <2>2, <3>1, <3>2, MoveTyped DEF IInv
  <2>. QED
    BY <2>1, <2>2 DEF AppendCheckpoint
<1>12. /\ reply' \in [Procs -> {"none", "applied", "mismatch"}]
       /\ \A q \in Procs : reply'[q] # "mismatch"
  <2>1. /\ reply \in [Procs -> {"none", "applied", "mismatch"}]
        /\ \A q \in Procs : reply[q] # "mismatch"
    BY DEF IInv, TypeOK, NoFalseFailure
  <2>2. reply' = [reply EXCEPT ![p] = "applied"] \/ reply' = reply
    BY DEF AppendCheckpoint
  <2>. QED
    BY <2>1, <2>2
<1>13. TypeOK'
  <2>1. \A i \in DOMAIN checkpoints' : checkpoints'[i].through <= Len(writes')
    BY <1>2, <1>3, <1>8 DEF CheckpointsSound, SoundCheckpoint
  <2>. QED
    BY <1>2, <1>7, <1>11, <1>12, <2>1 DEF IInv, TypeOK, PcValues
<1>14. ASSUME NEW q \in Procs
       PROVE  DraftSound(q)' /\ AppendInOrder(q)' /\ ConnectorFresh(q)'
  <2>1. \A d \in pending'[q] : SoundCandidate(d, writes', checkpoints')
    BY <1>2, <1>10 DEF IInv, DraftSound
  <2>2. CASE q = p
    <3>1. pc'[p] \in Built => SoundCandidate(draft'[p], writes', checkpoints')
      BY <1>1, <1>2, <1>10, <1>11 DEF Built
    <3>. QED
      BY <1>7, <1>11, <2>1, <2>2, <3>1 DEF DraftSound, AppendInOrder, ConnectorFresh, Appended,
         Reconciled, k
  <2>3. CASE q # p
    <3>1. pc'[q] = "idle"
      BY <1>6, <1>11, <2>3
    <3>. QED
      BY <2>1, <3>1 DEF DraftSound, AppendInOrder, ConnectorFresh, Built
  <2>. QED
    BY <2>2, <2>3
<1>15. RecordedOnce'
  BY <1>2 DEF IInv, RecordedOnce
<1>. QED
  BY <1>8, <1>9, <1>12, <1>13, <1>14, <1>15 DEF IInv, NoFalseFailure

--------------------------------------------------------------------------------
(* The steps of the others: time passes, transactions are recorded.         *)
LEMMA TickKeeps ==
    ASSUME IInv, OneAtWork', Tick
    PROVE  IInv'
<1>1. TypeOK'
  <2>1. now' \in 0 .. MaxTime
    BY ConstantsAssumption DEF IInv, TypeOK, Tick
  <2>. QED
    BY <2>1 DEF IInv, TypeOK, Tick
<1>2. RecordedOnce' /\ Ordered(checkpoints)' /\ CheckpointsSound' /\ NoFalseFailure'
  BY DEF IInv, Tick, RecordedOnce, CheckpointsSound, NoFalseFailure
<1>3. ASSUME NEW p \in Procs PROVE DraftSound(p)' /\ AppendInOrder(p)' /\ ConnectorFresh(p)'
  BY DEF IInv, Tick, DraftSound, AppendInOrder, ConnectorFresh, Fresh, Latest, Appended,
     Reconciled, Projects, Projection, TradesBetween
<1>. QED
  BY <1>1, <1>2, <1>3 DEF IInv

LEMMA WritesAppended ==
    ASSUME TypeOK, NEW x \in Trades, Record(x)
    PROVE  /\ writes' \in Seq([trade: Trades, at: 0 .. MaxTime])
           /\ Len(writes') = Len(writes) + 1
           /\ \A i \in 1 .. Len(writes) : writes'[i] = writes[i]
           /\ writes'[Len(writes) + 1].trade = x
           /\ UNCHANGED <<now, checkpoints, pc, draft, pending, reply>>
<1>. DEFINE Row == [trade: Trades, at: 0 .. MaxTime]
<1>1. writes \in Seq(Row) /\ now \in 0 .. MaxTime
  BY DEF TypeOK
<1>2. PICK at \in 0 .. now : writes' = Append(writes, [trade |-> x, at |-> at])
  BY DEF Record
<1>3. [trade |-> x, at |-> at] \in Row
  BY <1>1, <1>2, ConstantsAssumption
<1>4. /\ Append(writes, [trade |-> x, at |-> at]) \in Seq(Row)
      /\ Len(Append(writes, [trade |-> x, at |-> at])) = Len(writes) + 1
      /\ \A i \in 1 .. Len(writes) :
             Append(writes, [trade |-> x, at |-> at])[i] = writes[i]
      /\ Append(writes, [trade |-> x, at |-> at])[Len(writes) + 1] = [trade |-> x, at |-> at]
  <2>. HIDE DEF Row
  <2>. QED
    BY <1>1, <1>3
<1>. QED
  BY <1>2, <1>4 DEF Record

LEMMA RecordKeeps ==
    ASSUME IInv, OneAtWork', NEW x \in Trades, Record(x)
    PROVE  IInv'
<1>1. /\ writes' \in Seq([trade: Trades, at: 0 .. MaxTime])
      /\ Len(writes') = Len(writes) + 1
      /\ \A i \in 1 .. Len(writes) : writes'[i] = writes[i]
      /\ writes'[Len(writes) + 1].trade = x
      /\ UNCHANGED <<now, checkpoints, pc, draft, pending, reply>>
      /\ Len(writes) \in Nat /\ Len(writes') \in Nat
      /\ DOMAIN writes' = 1 .. Len(writes) + 1 /\ DOMAIN writes = 1 .. Len(writes)
  <2>1. /\ writes' \in Seq([trade: Trades, at: 0 .. MaxTime])
        /\ Len(writes') = Len(writes) + 1
        /\ \A i \in 1 .. Len(writes) : writes'[i] = writes[i]
        /\ writes'[Len(writes) + 1].trade = x
        /\ UNCHANGED <<now, checkpoints, pc, draft, pending, reply>>
    BY WritesAppended DEF IInv
  <2>2. writes \in Seq([trade: Trades, at: 0 .. MaxTime]) /\ Len(writes) \in Nat
    BY JournalsTyped DEF IInv
  <2>. QED
    BY <2>1, <2>2
<1>2. /\ \A k : SoundCheckpoint(k, writes) => SoundCheckpoint(k, writes')
      /\ \A c : SoundObservation(c, writes) => SoundObservation(c, writes')
      /\ \A c, history : SoundCandidate(c, writes, history) => SoundCandidate(c, writes', history)
  BY <1>1, RowsGrow
<1>3. TypeOK'
  <2>1. \A i \in DOMAIN checkpoints' : checkpoints'[i].through <= Len(writes')
    BY <1>1, JournalsTyped DEF IInv, TypeOK, Checkpoint, CheckpointsSound, SoundCheckpoint
  <2>. QED
    BY <1>1, <2>1 DEF IInv, TypeOK
<1>4. RecordedOnce'
  <2>1. \A i \in 1 .. Len(writes) : writes[i].trade # x
    BY <1>1 DEF Record, Recorded, TradesBetween
  <2>2. ASSUME NEW i \in DOMAIN writes', NEW j \in DOMAIN writes',
               writes'[i].trade = writes'[j].trade
        PROVE  i = j
    <3>1. CASE i = Len(writes) + 1
      BY <1>1, <2>1, <2>2, <3>1
    <3>2. CASE j = Len(writes) + 1
      BY <1>1, <2>1, <2>2, <3>2
    <3>3. CASE i # Len(writes) + 1 /\ j # Len(writes) + 1
      BY <1>1, <2>2, <3>3 DEF IInv, RecordedOnce
    <3>. QED
      BY <3>1, <3>2, <3>3
  <2>. QED
    BY <2>2 DEF RecordedOnce
<1>5. Ordered(checkpoints)' /\ CheckpointsSound' /\ NoFalseFailure'
  BY <1>1, <1>2 DEF IInv, CheckpointsSound, NoFalseFailure
<1>6. ASSUME NEW p \in Procs PROVE DraftSound(p)' /\ AppendInOrder(p)' /\ ConnectorFresh(p)'
  <2>1. DraftSound(p)'
    BY <1>1, <1>2 DEF IInv, DraftSound
  <2>2. AppendInOrder(p)'
    BY <1>1 DEF IInv, AppendInOrder, Appended, Reconciled, Latest
  <2>3. ASSUME p \notin Cli, pc[p] \in {"accepted", "ordered"} PROVE Fresh(draft[p])'
    <3>. DEFINE c == draft[p]
    <3>1. Fresh(c) /\ c.through \in 0 .. Len(writes)
      BY <2>3 DEF IInv, ConnectorFresh, DraftSound, Built, SoundCandidate, SoundObservation
    <3>2. Latest' = Latest /\ Latest.through \in Nat
      BY <1>1, JournalsTyped DEF Latest, IInv, Checkpoint
    <3>3. TradesBetween(Latest.through, c.through)' = TradesBetween(Latest.through, c.through)
      <4>1. TradesBetween(Latest.through, c.through)
                = {writes[i].trade : i \in Latest.through + 1 .. c.through}
        BY DEF TradesBetween
      <4>2. TradesBetween(Latest.through, c.through)'
                = {writes'[i].trade : i \in Latest.through + 1 .. c.through}
        BY <1>1, <3>2 DEF TradesBetween
      <4>3. \A i \in Latest.through + 1 .. c.through : writes'[i] = writes[i]
        BY <1>1, <3>1, <3>2
      <4>. QED
        BY <4>1, <4>2, <4>3
    <3>. QED
      BY <1>1, <3>1, <3>2, <3>3 DEF Fresh, Projects, Projection
  <2>. QED
    BY <1>1, <2>1, <2>2, <2>3 DEF ConnectorFresh
<1>. QED
  BY <1>3, <1>4, <1>5, <1>6 DEF IInv

--------------------------------------------------------------------------------
(* The invariant holds.                                                     *)
LEMMA InitHolds == OnlyInit => IInv
<1>. SUFFICES ASSUME OnlyInit PROVE IInv
  OBVIOUS
<1>. USE DEF OnlyInit, Init
<1>1. Seed \in Checkpoint
  BY PointsAlign DEF Seed, Checkpoint, Counts, Instant, Point
<1>2. SoundCheckpoint(Seed, << >>)
  <2>1. Aligned(Instant(0)) /\ Upper(Instant(0)) = 0
    BY PointsAlign
  <2>2. /\ Seed.time = Instant(0) /\ Seed.through = 0
        /\ Seed.base = [x \in Trades |-> IF HappenedAt[x] = 0 THEN 1 ELSE 0]
    BY DEF Seed
  <2>3. \A x \in Trades : Seed.base[x] = 1 => HappenedAt[x] <= Upper(Seed.time)
    BY <2>1, <2>2, ConstantsAssumption
  <2>4. Holds(Seed.base, << >>, Seed.through)
    BY <2>2 DEF Holds, Counts
  <2>. QED
    BY <2>1, <2>2, <2>3, <2>4 DEF SoundCheckpoint
<1>3. /\ checkpoints \in Seq(Checkpoint) \ {<< >>} /\ DOMAIN checkpoints = {1}
      /\ checkpoints[1] = Seed /\ Seed.through = 0 /\ Len(writes) = 0
  <2>. HIDE DEF Checkpoint
  <2>. QED
    BY <1>1 DEF Seed
<1>4. TypeOK
  BY <1>3, ConstantsAssumption DEF TypeOK
<1>5. CheckpointsSound
  BY <1>2, <1>3 DEF CheckpointsSound
<1>6. RecordedOnce /\ Ordered(checkpoints)
  BY <1>3 DEF RecordedOnce, Ordered
<1>7. \A p \in Procs : DraftSound(p) /\ AppendInOrder(p) /\ ConnectorFresh(p)
  BY DEF DraftSound, AppendInOrder, ConnectorFresh, Built
<1>8. OneAtWork /\ NoFalseFailure
  BY DEF OneAtWork, NoFalseFailure
<1>. QED
  BY <1>4, <1>5, <1>6, <1>7, <1>8 DEF IInv

LEMMA StepHolds == IInv /\ [OnlyNext]_<<vars, only>> => IInv'
<1>1. ASSUME IInv, OnlyNext PROVE IInv'
  <2>. USE <1>1
  <2>1. OneAtWork'
    BY DEF OnlyNext, OneAtWork, IInv
  <2>2. CASE Tick
    BY <2>1, <2>2, TickKeeps
  <2>3. ASSUME NEW x \in Trades, Record(x) PROVE IInv'
    BY <2>1, <2>3, RecordKeeps
  <2>4. ASSUME NEW p \in Procs, NEW account \in Accounts, NEW time \in SnapshotTimes,
               StartPreview(p, account, time)
        PROVE  IInv'
    BY <2>1, <2>4, StartPreviewKeeps
  <2>5. ASSUME NEW p \in Procs, NEW c \in pending[p],
               Discard(p, c) \/ Consume(p, c) \/ AcceptFile(p, c)
        PROVE  IInv'
    BY <2>1, <2>5, DiscardKeeps, ConsumeKeeps, AcceptFileKeeps
  <2>6. ASSUME NEW p \in Procs,
               \/ Project(p) \/ Register(p) \/ Recheck(p) \/ CheckOrder(p)
               \/ AppendCheckpoint(p) \/ ReadBack(p) \/ Crash(p)
        PROVE  IInv'
    BY <2>1, <2>6, ProjectKeeps, RegisterKeeps, RecheckKeeps, CheckOrderKeeps,
       AppendCheckpointKeeps, ReadBackKeeps, CrashKeeps
  <2>. QED
    BY <2>2, <2>3, <2>4, <2>5, <2>6 DEF OnlyNext, Next
<1>2. ASSUME IInv, UNCHANGED <<vars, only>> PROVE IInv'
  <2>. USE <1>2 DEF vars
  <2>1. TypeOK' /\ RecordedOnce' /\ Ordered(checkpoints)' /\ CheckpointsSound'
    BY DEF IInv, TypeOK, RecordedOnce, CheckpointsSound
  <2>2. ASSUME NEW p \in Procs PROVE DraftSound(p)' /\ AppendInOrder(p)' /\ ConnectorFresh(p)'
    BY DEF IInv, DraftSound, AppendInOrder, ConnectorFresh, Fresh, Latest, Appended,
       Reconciled, Projects, Projection, TradesBetween
  <2>. QED
    BY <2>1, <2>2 DEF IInv, OneAtWork, NoFalseFailure
<1>. QED
  BY <1>1, <1>2

(* What one process at work keeps true, for any number of accounts, trades, *)
(* pending candidates and checkpoints.                                      *)
THEOREM UpdaterInvariant == OnlySpec => []IInv
<1>. QED
  BY InitHolds, StepHolds, PTL DEF OnlySpec

(* Every variable of the updates stays in its domain.                       *)
THEOREM UpdaterTypes == OnlySpec => []TypeOK
<1>1. IInv => TypeOK
  BY DEF IInv
<1>. QED
  BY <1>1, UpdaterInvariant, PTL

--------------------------------------------------------------------------------
(* What follows from it.                                                    *)
LEMMA ServedHolds ==
    ASSUME IInv, Available
    PROVE  /\ Holds(Portfolio, writes, Len(writes))
           /\ \A x \in Trades : Portfolio[x] = 1 =>
                  Latest.base[x] = 1 \/ \E i \in 1 .. Len(writes) : writes[i].trade = x
<1>1. /\ writes \in Seq([trade: Trades, at: 0 .. MaxTime])
      /\ SoundCheckpoint(Latest, writes) /\ RecordedOnce
      /\ Len(writes) \in 0 .. Len(writes)
  BY JournalsTyped DEF IInv, CheckpointsSound, Latest
<1>. QED
  BY <1>1, ProjectionHolds DEF Available, Portfolio

(* A served portfolio counts every recorded trade exactly once: the rows up *)
(* to the cursor are in the snapshot, those after it are in no snapshot     *)
(* that ends before they begin.                                             *)
THEOREM TradesCountOnce == OnlySpec => []CountedOnce
<1>1. ASSUME IInv, Available, NEW x \in Trades
      PROVE  IF x \in Recorded THEN Portfolio[x] = 1 ELSE Portfolio[x] <= 1
  <2>1. Portfolio[x] \in {0, 1} /\ \A i \in 1 .. Len(writes) : Portfolio[writes[i].trade] = 1
    BY <1>1, ServedHolds DEF Holds
  <2>2. x \in Recorded => \E i \in 1 .. Len(writes) : writes[i].trade = x
    BY DEF Recorded, TradesBetween
  <2>. QED
    BY <2>1, <2>2
<1>2. IInv => CountedOnce
  BY <1>1 DEF CountedOnce
<1>. QED
  BY <1>2, UpdaterInvariant, PTL

(* An apply that appended its checkpoint is not reported as failed.         *)
THEOREM AppliesTellTruth == OnlySpec => []NoFalseFailure
<1>1. IInv => NoFalseFailure
  BY DEF IInv
<1>. QED
  BY <1>1, UpdaterInvariant, PTL

(* Only records and appends change what is served.                          *)
LEMMA JournalSteps ==
    ASSUME TypeOK, OneAtWork, [OnlyNext]_<<vars, only>>
    PROVE  \/ UNCHANGED <<writes, checkpoints>>
           \/ \E x \in Trades : Record(x)
           \/ AppendCheckpoint(only) /\ pc[only] = "ordered"
<1>1. ASSUME NEW p \in Procs, AppendCheckpoint(p)
      PROVE  AppendCheckpoint(only) /\ pc[only] = "ordered"
  BY <1>1 DEF OneAtWork, AppendCheckpoint
<1>. QED
  BY <1>1 DEF OnlyNext, Next, vars, Tick, StartPreview, Project, Register, Discard, Consume,
     AcceptFile, Recheck, CheckOrder, ReadBack, Crash

LEMMA ServedUnchanged ==
    ASSUME UNCHANGED <<writes, checkpoints>>
    PROVE  Available' = Available /\ Portfolio' = Portfolio
  BY DEF Available, Portfolio, Latest, Projects, Projection, TradesBetween

(* Recording a transaction lengthens the delta.                             *)
LEMMA DeltaGrows ==
    ASSUME IInv, NEW x \in Trades, Record(x)
    PROVE  /\ Latest' = Latest /\ Latest.through \in 0 .. Len(writes)
           /\ TradesBetween(Latest.through, Len(writes))
                  \subseteq {writes'[i].trade : i \in Latest.through + 1 .. Len(writes')}
<1>1. /\ Len(writes') = Len(writes) + 1 /\ Len(writes) \in Nat
      /\ \A i \in 1 .. Len(writes) : writes'[i] = writes[i]
      /\ checkpoints' = checkpoints
  BY WritesAppended, JournalsTyped DEF IInv
<1>2. Latest' = Latest /\ Latest.through \in 0 .. Len(writes)
  BY <1>1, JournalsTyped DEF Latest, IInv, CheckpointsSound, SoundCheckpoint
<1>3. ASSUME NEW i \in Latest.through + 1 .. Len(writes)
      PROVE  i \in Latest.through + 1 .. Len(writes') /\ writes'[i] = writes[i]
  BY <1>1, <1>2
<1>4. TradesBetween(Latest.through, Len(writes))
          \subseteq {writes'[i].trade : i \in Latest.through + 1 .. Len(writes')}
  BY <1>3 DEF TradesBetween
<1>. QED
  BY <1>2, <1>4 DEF TradesBetween

(* An append makes its candidate the latest checkpoint.                     *)
LEMMA LatestAppended ==
    ASSUME IInv, AppendCheckpoint(only)
    PROVE  /\ Latest' = Appended(draft[only]) /\ writes' = writes
           /\ draft[only] \in Candidate
           /\ SoundCandidate(draft[only], writes, checkpoints)
           /\ SoundCheckpoint(Appended(draft[only]), writes)
           /\ Aligned(draft[only].time) /\ Aligned(Latest.time)
           /\ draft[only].time.at > Upper(Latest.time)
           /\ Latest.through \in 0 .. draft[only].through
           /\ draft[only].through \in 0 .. Len(writes)
           /\ only \notin Cli => Fresh(draft[only])
           /\ Len(writes) \in Nat
<1>. DEFINE c == draft[only]
<1>1. only \in Procs
  BY DEF IInv, OneAtWork
<1>2. /\ c \in Candidate /\ SoundCandidate(c, writes, checkpoints) /\ Follows(c, Latest)
      /\ only \notin Cli => Fresh(c)
  BY <1>1, DraftTyped DEF IInv, AppendCheckpoint, DraftSound, Built, AppendInOrder,
     ConnectorFresh
<1>3. /\ writes \in Seq([trade: Trades, at: 0 .. MaxTime])
      /\ checkpoints \in Seq(Checkpoint) \ {<< >>}
      /\ Len(writes) \in Nat /\ Len(checkpoints) \in Nat \ {0}
  BY JournalsTyped DEF IInv
<1>4. SoundCheckpoint(Appended(c), writes)
  BY <1>2, <1>3, ReconciledHolds DEF IInv, CheckpointsSound, Follows, Appended
<1>5. /\ Aligned(c.time) /\ Aligned(Latest.time)
      /\ c.through \in 0 .. Len(writes) /\ Latest.through \in 0 .. Len(writes)
  BY <1>2, JournalsTyped DEF SoundCandidate, SoundObservation, IInv, CheckpointsSound,
     SoundCheckpoint, Latest
<1>6. c.time.at > Upper(Latest.time) /\ Latest.through \in 0 .. c.through
  BY <1>2, <1>3, <1>5, AfterIsPast DEF Follows
<1>7. Latest' = Appended(c)
  <2>1. checkpoints' = Append(checkpoints, Appended(c))
    BY DEF AppendCheckpoint, Appended
  <2>2. Appended(c) \in Checkpoint
    BY <1>2, <1>4 DEF SoundCheckpoint, Holds, Appended, Candidate, Checkpoint
  <2>. HIDE DEF c
  <2>. QED
    BY <1>3, <2>1, <2>2 DEF Latest
<1>. QED
  BY <1>2, <1>3, <1>4, <1>5, <1>6, <1>7 DEF AppendCheckpoint

(* A transaction that is not after the latest checkpoint can only be in     *)
(* what follows a candidate's cursor, and the candidate's time is later.    *)
LEMMA StaysUnavailable ==
    ASSUME IInv, [OnlyNext]_<<vars, only>>, only \notin Cli, ~Available
    PROVE  ~Available'
<1>1. CASE UNCHANGED <<writes, checkpoints>>
  BY <1>1, ServedUnchanged
<1>2. ASSUME NEW y \in Trades, Record(y) PROVE ~Available'
  <2>1. PICK x \in TradesBetween(Latest.through, Len(writes)) :
            ~After(EffectiveOf(x), Latest.time)
    BY <1>2, DeltaGrows DEF Available, Projects
  <2>2. x \in TradesBetween(Latest.through, Len(writes))' /\ Latest' = Latest
    <3>1. x \in {writes'[i].trade : i \in Latest.through + 1 .. Len(writes')}
      BY <1>2, <2>1, DeltaGrows
    <3>. QED
      BY <1>2, <3>1, DeltaGrows DEF TradesBetween
  <2>. QED
    BY <2>1, <2>2 DEF Available, Projects
<1>3. ASSUME AppendCheckpoint(only) PROVE ~Available'
  <2>. DEFINE c == draft[only]
  <2>1. /\ Latest' = Appended(c) /\ writes' = writes /\ Fresh(c)
        /\ Aligned(c.time) /\ Aligned(Latest.time) /\ c.time.at > Upper(Latest.time)
        /\ Latest.through \in 0 .. c.through /\ c.through \in 0 .. Len(writes)
        /\ Len(writes) \in Nat
    BY <1>3, LatestAppended
  <2>2. PICK i \in Latest.through + 1 .. Len(writes) :
            ~After(EffectiveOf(writes[i].trade), Latest.time)
    BY <2>1 DEF Available, Projects, TradesBetween
  <2>3. i > c.through
    <3>1. SUFFICES ASSUME i <= c.through PROVE FALSE
      BY <2>1, <2>2
    <3>2. writes[i].trade \in TradesBetween(Latest.through, c.through)
      BY <2>1, <3>1 DEF TradesBetween
    <3>. QED
      BY <2>1, <2>2, <3>2 DEF Fresh, Projects
  <2>4. writes[i].trade \in Trades
    BY <2>1, RowTyped, JournalsTyped DEF IInv
  <2>5. ~After(EffectiveOf(writes[i].trade), c.time)
    <3>. DEFINE e == EffectiveOf(writes[i].trade)
    <3>1. Aligned(e)
      BY <2>4, EffectiveAligned
    <3>2. ~(e.at > Upper(Latest.time))
      BY <2>1, <2>2, <3>1, AfterIsPast
    <3>3. /\ e.at \in Nat /\ Upper(Latest.time) \in Nat
          /\ c.time.at \in Nat /\ Upper(c.time) \in Nat /\ c.time.at <= Upper(c.time)
      BY <2>1, <3>1, PointOrder
    <3>4. ~(e.at > Upper(c.time))
      BY <2>1, <3>2, <3>3
    <3>. QED
      BY <2>1, <3>1, <3>4, AfterIsPast
  <2>6. writes[i].trade \in TradesBetween(c.through, Len(writes))
    BY <2>1, <2>3 DEF TradesBetween
  <2>7. Available' <=> Projects(Appended(c), Len(writes))
    BY <2>1 DEF Available, Projects, TradesBetween
  <2>. QED
    BY <2>5, <2>6, <2>7 DEF Projects, Appended
<1>. QED
  BY <1>1, <1>2, <1>3, JournalSteps DEF IInv

(* The connector never makes an unavailable portfolio available again.      *)
THEOREM UnavailableStays == OnlySpec => UnavailableForGood
<1>1. IInv /\ [OnlyNext]_<<vars, only>>
          => (only \notin Cli /\ ~Available => ~Available')
  BY StaysUnavailable
<1>. QED
  BY <1>1, UpdaterInvariant, PTL DEF OnlySpec, UnavailableForGood
================================================================================
