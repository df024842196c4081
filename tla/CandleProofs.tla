----------------------------- MODULE CandleProofs -----------------------------
(***************************************************************************)
(* The candles of one symbol and their delivery, for every set of intervals*)
(* and widths, every capacity of the ring, any number of ticks and trades, *)
(* every set of tiers and cadences and any course of the clock.            *)
(*                                                                         *)
(* A tick folds its trades into an aggregator (FoldTick): the first part   *)
(* shows, by induction on their number, that the fold is a course of       *)
(* applications, the next what each application keeps of an aggregator,    *)
(* and the last what the dispatcher keeps of the subscription's queues.    *)
(***************************************************************************)
EXTENDS CandleDelivery, SequenceTheorems, FiniteSetTheorems, WellFoundedInduction, TLAPS

(* Induction, as a fact about sets: one that contains 0, and n + 1         *)
(* whenever it contains n, contains every natural number.                  *)
LEMMA NatSetInduction ==
  ASSUME NEW S, 0 \in S, \A n \in Nat : n \in S => n + 1 \in S
  PROVE  Nat \subseteq S
<1> DEFINE Below == {pair \in Nat \X Nat : pair[1] < pair[2]}
<1> SUFFICES ASSUME Nat \ S # {} PROVE FALSE
  OBVIOUS
<1>1. IsWellFoundedOn(Below, Nat)
  BY NatLessThanWellFounded DEF OpToRel
<1>2. PICK x \in Nat \ S : \A y \in Nat \ S : <<y, x>> \notin Below
  <2> HIDE DEF Below
  <2> QED
    BY <1>1, WFMin
<1>3. x - 1 \in Nat /\ <<x - 1, x>> \in Below /\ x - 1 + 1 = x
  OBVIOUS
<1> QED
  BY <1>2, <1>3

(* g goes from the aggregator a through the trades ids, one at a time.     *)
Course(g, a, i, t, ids) ==
    /\ g[0] = a
    /\ \A k \in 1..Len(ids) : g[k] = Apply(g[k - 1], i, t, ids[k])

(* h is the function FoldLeft chooses, for the first n of ids.             *)
IsFold(h, a, i, t, ids, n) ==
    h = [s \in SUBSET (1..n) |->
           IF s = {} THEN a ELSE Apply(h[s \ {Max(s)}], i, t, ids[Max(s)])]

(* The greatest element of a set is what CHOOSE finds for Max.             *)
LEMMA GreatestIsMax ==
  ASSUME NEW S \in SUBSET Int, NEW m \in S, \A y \in S : y <= m
  PROVE  Max(S) = m
<1>1. \A y \in S : m >= y
  OBVIOUS
<1>2. Max(S) \in S /\ \A y \in S : Max(S) >= y
  BY <1>1 DEF Max
<1>3. Max(S) >= m /\ m >= Max(S) /\ m \in Int /\ Max(S) \in Int
  BY <1>1, <1>2
<1> QED
  BY <1>3

(* By induction on the number of trades there is a function to choose.     *)
LEMMA FoldExists ==
  ASSUME NEW a, NEW i, NEW t, NEW ids, NEW n \in Nat
  PROVE  \E h : IsFold(h, a, i, t, ids, n)
<1> DEFINE Good == {m \in Nat : \E h : IsFold(h, a, i, t, ids, m)}
           App(b, id) == Apply(b, i, t, id)
<1> HIDE DEF App
<1>0. ASSUME NEW h, NEW m
      PROVE  IsFold(h, a, i, t, ids, m) <=>
             h = [s \in SUBSET (1..m) |-> IF s = {} THEN a ELSE App(h[s \ {Max(s)}], ids[Max(s)])]
  BY DEF IsFold, App
<1>1. 0 \in Good
  <2> DEFINE h == [s \in SUBSET (1..0) |-> a]
  <2>1. h = [s \in SUBSET (1..0) |-> IF s = {} THEN a ELSE App(h[s \ {Max(s)}], ids[Max(s)])]
    OBVIOUS
  <2> HIDE DEF h
  <2> QED
    BY <1>0, <2>1
<1>2. ASSUME NEW m \in Nat, m \in Good PROVE m + 1 \in Good
  <2>1. PICK h : IsFold(h, a, i, t, ids, m)
    BY <1>2
  <2> DEFINE hh == [s \in SUBSET (1..m + 1) |->
                      IF m + 1 \in s THEN App(h[s \ {m + 1}], ids[m + 1]) ELSE h[s]]
  <2>2. ASSUME NEW s \in SUBSET (1..m + 1)
        PROVE  hh[s] = IF s = {} THEN a ELSE App(hh[s \ {Max(s)}], ids[Max(s)])
    <3>1. CASE m + 1 \in s
      <4>1. Max(s) = m + 1
        BY <3>1, GreatestIsMax
      <4>2. s \ {m + 1} \in SUBSET (1..m + 1) /\ m + 1 \notin s \ {m + 1} /\ s # {}
        BY <3>1
      <4>3. hh[s \ {m + 1}] = h[s \ {m + 1}]
        BY <4>2
      <4>4. hh[s] = App(h[s \ {m + 1}], ids[m + 1])
        BY <3>1
      <4> HIDE DEF hh
      <4> QED
        BY <4>1, <4>2, <4>3, <4>4
    <3>2. CASE m + 1 \notin s
      <4>0. ASSUME NEW x \in s PROVE x \in 1..m
        BY <3>2
      <4>1. s \in SUBSET (1..m) /\ s \ {Max(s)} \in SUBSET (1..m + 1) /\ m + 1 \notin s \ {Max(s)}
        BY <3>2, <4>0
      <4>2. hh[s] = h[s] /\ hh[s \ {Max(s)}] = h[s \ {Max(s)}]
        BY <3>2, <4>1
      <4>3. h[s] = IF s = {} THEN a ELSE App(h[s \ {Max(s)}], ids[Max(s)])
        BY <1>0, <2>1, <4>1
      <4> HIDE DEF hh
      <4> QED
        BY <4>2, <4>3
    <3> QED
      BY <3>1, <3>2
  <2>3. hh = [s \in SUBSET (1..m + 1) |-> IF s = {} THEN a ELSE App(hh[s \ {Max(s)}], ids[Max(s)])]
    <3>1. hh = [s \in SUBSET (1..m + 1) |-> hh[s]]
      OBVIOUS
    <3> HIDE DEF hh
    <3> QED
      BY <2>2, <3>1
  <2> HIDE DEF hh
  <2>4. IsFold(hh, a, i, t, ids, m + 1)
    BY <1>0, <2>3
  <2>5. m + 1 \in Nat
    OBVIOUS
  <2> QED
    BY <2>4, <2>5
<1> HIDE DEF Good
<1>3. n \in Good
  BY <1>1, <1>2, NatSetInduction
<1> QED
  BY <1>3 DEF Good

(* So a tick is a course through its trades, from the aggregator it closed.*)
LEMMA TickHasCourse ==
  ASSUME NEW agg, NEW i, NEW t, NEW ids \in Seq(Nat)
  PROVE  \E g : /\ Course(g, CloseThrough(agg, i, t), i, t, ids)
                /\ FoldTick(agg, i, t, ids) = g[Len(ids)]
<1> DEFINE a == CloseThrough(agg, i, t)
           iter == CHOOSE h : IsFold(h, a, i, t, ids, Len(ids))
           g == [k \in 0..Len(ids) |-> iter[1..k]]
<1>0. Len(ids) \in Nat /\ DOMAIN ids = 1..Len(ids)
  BY LenProperties
<1>1. IsFold(iter, a, i, t, ids, Len(ids))
  BY FoldExists, <1>0, Zenon
<1>2. FoldTick(agg, i, t, ids) = iter[1..Len(ids)]
  BY <1>0 DEF FoldTick, FoldLeft, MapThenFoldSet, IsFold
<1> HIDE DEF iter, a
<1>3. g[0] = a
  <2>1. 1..0 = {} /\ {} \in SUBSET (1..Len(ids)) /\ 0 \in 0..Len(ids)
    BY <1>0
  <2> QED
    BY <1>1, <2>1 DEF IsFold
<1>4. ASSUME NEW k \in 1..Len(ids) PROVE g[k] = Apply(g[k - 1], i, t, ids[k])
  <2>1. k \in 0..Len(ids) /\ k - 1 \in 0..Len(ids) /\ k \in Nat /\ k >= 1 /\ k <= Len(ids)
    BY <1>0
  <2>2. Max(1..k) = k
    <3>1. 1..k \in SUBSET Int /\ k \in 1..k /\ \A y \in 1..k : y <= k
      BY <2>1
    <3> QED
      BY <3>1, GreatestIsMax
  <2>3. 1..k # {} /\ 1..k \in SUBSET (1..Len(ids)) /\ 1..(k - 1) \in SUBSET (1..Len(ids))
    <3>1. \A x \in 1..k : x \in 1..Len(ids)
      BY <1>0, <2>1
    <3>2. \A x \in 1..(k - 1) : x \in 1..Len(ids)
      BY <1>0, <2>1
    <3>3. k \in 1..k
      BY <2>1
    <3> QED
      BY <3>1, <3>2, <3>3
  <2>4. (1..k) \ {k} = 1..(k - 1)
    BY <2>1
  <2>5. iter[1..k] = Apply(iter[1..(k - 1)], i, t, ids[k])
    BY <1>1, <2>2, <2>3, <2>4 DEF IsFold
  <2> QED
    BY <2>1, <2>5
<1> QED
  <2>1. Course(g, a, i, t, ids)
    BY <1>3, <1>4 DEF Course
  <2>2. FoldTick(agg, i, t, ids) = g[Len(ids)]
    BY <1>2, <1>0
  <2> HIDE DEF g
  <2> QED
    BY <2>1, <2>2 DEF a

------------------------------------------------------------------------------
(* Time and the ring.                                                      *)

(* A bucket starts no later than its timestamps and ends after them.       *)
LEMMA StartIsBefore ==
  ASSUME NEW t \in Nat, NEW w \in Nat \ {0}
  PROVE  /\ CandleStart(t, w) \in Nat
         /\ CandleStart(t, w) <= t /\ t < CandleStart(t, w) + w
BY DEF CandleStart

(* The next tick is of the same bucket unless the bucket has ended.        *)
LEMMA StartStays ==
  ASSUME NEW t \in Nat, NEW w \in Nat \ {0}, t + 1 < CandleStart(t, w) + w
  PROVE  CandleStart(t + 1, w) = CandleStart(t, w)
<1> DEFINE q == t \div w
           r == (t + 1) \div w
<1>1. /\ q \in Nat /\ r \in Nat
      /\ q * w <= t /\ t < q * w + w /\ r * w <= t + 1 /\ t + 1 < r * w + w
  OBVIOUS
<1>2. t + 1 < q * w + w
  BY DEF CandleStart
<1> HIDE DEF q, r
<1>3. q = r
  <2>1. q * w < (r + 1) * w /\ r * w < (q + 1) * w
    BY <1>1, <1>2
  <2>2. q < r + 1
    BY <2>1, <1>1
  <2>3. r < q + 1
    BY <2>1, <1>1
  <2> QED
    BY <2>2, <2>3, <1>1
<1> QED
  BY <1>3 DEF CandleStart, q, r

(* Once round the ring and no further.                                     *)
LEMMA ModOnce ==
  ASSUME NEW C \in Nat, C > 0, NEW a \in 0..2 * C - 1
  PROVE  a % C = IF a < C THEN a ELSE a - C
<1>1. a \in Int /\ C \in Int /\ a < 2 * C /\ 0 <= a
  OBVIOUS
<1>2. CASE a < C
  BY <1>1, <1>2
<1>3. CASE a >= C
  BY <1>1, <1>3
<1> QED
  BY <1>1, <1>2, <1>3

(* The slot j places behind the one written next.                          *)
Back(next, j) == IF next >= j THEN next - j ELSE next - j + Capacity

(* The ring holds the candles closed last, the newest behind `next`.       *)
RingHolds(agg) ==
    /\ agg.size = Least(Len(agg.closed), Capacity)
    /\ \A j \in 1..agg.size :
          agg.slots[Back(agg.next, j)] = agg.closed[Len(agg.closed) + 1 - j]

(* A candle of interval i folds trades there were, each in its bucket.     *)
Folds(c, i, made, id) ==
    /\ c \in Candle /\ c.interval = i
    /\ 1 <= c.first /\ c.first <= c.lastTradeId /\ c.lastTradeId < id
    /\ c.count = c.lastTradeId - c.first + 1
    /\ \A k \in c.first..c.lastTradeId : c.start = CandleStart(made[k], Width[i])

(* d is the next candle after c.                                           *)
Follow(c, d) == d.first = c.lastTradeId + 1 /\ c.start < d.start

(* The candles closed are in order, the first from the first trade.        *)
Chained(cs, i, made, id) ==
    /\ \A k \in 1..Len(cs) : Folds(cs[k], i, made, id)
    /\ \A k \in 1..Len(cs) : k = 1 => cs[k].first = 1
    /\ \A k \in 1..Len(cs) : k > 1 => Follow(cs[k - 1], cs[k])

(* The open candle, if there is one, comes after them.                     *)
OpenAfter(cs, c) ==
    IF cs = << >> THEN c.first = 1 ELSE Follow(cs[Len(cs)], c)

(* The last trade folded.                                                  *)
LastFolded(agg) ==
    IF agg.active # NoCandle THEN agg.active.lastTradeId
    ELSE IF agg.closed = << >> THEN 0 ELSE agg.closed[Len(agg.closed)].lastTradeId

(* The aggregator of interval i at time t, when the next trade is id.      *)
Sound(agg, i, t, made, id) ==
    /\ agg \in Aggregator
    /\ RingHolds(agg)
    /\ Chained(agg.closed, i, made, id)
    /\ \A k \in 1..Len(agg.closed) : agg.closed[k].start + Width[i] <= t
    /\ agg.active # NoCandle =>
          /\ Folds(agg.active, i, made, id)
          /\ OpenAfter(agg.closed, agg.active)
          /\ agg.active.start = CandleStart(t, Width[i])
    /\ LastFolded(agg) = id - 1

(* What is pushed is one place behind; the rest is one place further.      *)
LEMMA BackShifts ==
  ASSUME NEW n \in 0..Capacity - 1, NEW m, m = IF n + 1 < Capacity THEN n + 1 ELSE 0,
         NEW j \in 1..Capacity, Capacity \in Nat
  PROVE  /\ m \in 0..Capacity - 1
         /\ j = 1 => Back(m, j) = n
         /\ j > 1 => /\ Back(m, j) = Back(n, j - 1) /\ Back(n, j - 1) # n
                     /\ Back(n, j - 1) \in 0..Capacity - 1
BY DEF Back

(* What becomes of the aggregator when its open candle is finalised.       *)
Finalised(agg, c) == [Push(agg, c) EXCEPT !.active = NoCandle, !.closed = Append(@, c)]

(* Pushing a candle keeps the ring to what was closed.                     *)
LEMMA PushKeepsRing ==
  ASSUME NEW agg \in Aggregator, RingHolds(agg), NEW c \in Candle,
         NEW new, new = Finalised(agg, c)
  PROVE  /\ new \in Aggregator /\ RingHolds(new)
         /\ new.active = NoCandle /\ new.closed = Append(agg.closed, c)
<1>0. Capacity \in Nat /\ Capacity > 1
  BY EngineAssumption
<1>1. PICK next \in 0..Capacity - 1, size \in 0..Capacity,
           slots \in [0..Capacity - 1 -> Candle \cup {NoCandle}], cs \in Seq(Candle) :
           agg.next = next /\ agg.size = size /\ agg.slots = slots /\ agg.closed = cs
  BY DEF Aggregator
<1> DEFINE ds == Append(cs, c)
           after == [slots EXCEPT ![next] = c]
           m == IF next + 1 < Capacity THEN next + 1 ELSE 0
<1>2. (next + 1) % Capacity = m
  <2>1. next + 1 \in 0..2 * Capacity - 1 /\ Capacity > 0
    BY <1>0
  <2> QED
    BY <1>0, <2>1, ModOnce
<1> HIDE DEF ds, after, m
<1>3. new = [active |-> NoCandle, slots |-> after, next |-> m,
             size |-> Least(size + 1, Capacity), closed |-> ds]
  <2>1. new = [active |-> NoCandle, slots |-> [agg.slots EXCEPT ![agg.next] = c],
               next |-> (agg.next + 1) % Capacity, size |-> Least(agg.size + 1, Capacity),
               closed |-> Append(agg.closed, c)]
    BY DEF Finalised, Push, Aggregator
  <2> QED
    BY <1>1, <1>2, <2>1 DEF ds, after
<1>4. PICK len \in Nat :
         /\ Len(cs) = len /\ Len(ds) = len + 1 /\ ds[len + 1] = c /\ ds \in Seq(Candle)
         /\ \A k \in 1..len : ds[k] = cs[k]
  BY AppendProperties, LenProperties DEF ds
<1>5. /\ new.active = NoCandle /\ new.slots = after /\ new.next = m
      /\ new.size = Least(size + 1, Capacity) /\ new.closed = ds
  BY <1>3
<1>6. PICK more \in 0..Capacity :
         /\ more = Least(size + 1, Capacity) /\ more <= size + 1 /\ more = Least(len + 1, Capacity)
         /\ size <= len
  BY <1>0, <1>1, <1>4 DEF RingHolds, Least
<1>7. new \in Aggregator
  <2>1. m \in 0..Capacity - 1
    BY <1>0 DEF m
  <2>2. after \in [0..Capacity - 1 -> Candle \cup {NoCandle}]
    BY DEF after
  <2> QED
    BY <1>3, <1>4, <1>6, <2>1, <2>2 DEF Aggregator
<1>8. ASSUME NEW j \in 1..more
      PROVE  after[Back(m, j)] = ds[len + 2 - j]
  <2>0. j \in 1..Capacity
    BY <1>0
  <2>1. CASE j = 1
    <3>1. Back(m, 1) = next
      BY <1>0, <2>0, <2>1, BackShifts DEF m
    <3> QED
      BY <1>4, <2>1, <3>1 DEF after
  <2>2. CASE j > 1
    <3>1. j - 1 \in 1..size
      BY <1>6, <2>2
    <3>2. Back(m, j) = Back(next, j - 1) /\ Back(next, j - 1) # next
          /\ Back(next, j - 1) \in 0..Capacity - 1
      BY <1>0, <2>0, <2>2, BackShifts DEF m
    <3>3. after[Back(m, j)] = slots[Back(next, j - 1)]
      BY <3>2 DEF after
    <3>4. len + 2 - j \in 1..len /\ len + 1 - (j - 1) = len + 2 - j
      BY <1>6, <2>2
    <3>5. slots[Back(next, j - 1)] = cs[len + 2 - j]
      BY <1>1, <1>4, <3>1, <3>4 DEF RingHolds
    <3> QED
      BY <1>4, <3>3, <3>4, <3>5
  <2> QED
    BY <2>1, <2>2
<1>9. RingHolds(new)
  <2>1. ASSUME NEW j \in 1..more
        PROVE  new.slots[Back(new.next, j)] = new.closed[Len(new.closed) + 1 - j]
    <3>1. Len(new.closed) + 1 - j = len + 2 - j
      BY <1>4, <1>5
    <3> QED
      BY <1>5, <1>8, <3>1
  <2>2. new.size = more /\ Len(new.closed) = len + 1
    BY <1>4, <1>5, <1>6
  <2> QED
    BY <1>6, <2>1, <2>2 DEF RingHolds
<1> QED
  BY <1>1, <1>5, <1>7, <1>9 DEF ds

(* A candle that follows the last one closed can be closed after it.       *)
LEMMA ChainGrows ==
  ASSUME NEW cs \in Seq(Candle), NEW i, NEW made, NEW id, Chained(cs, i, made, id),
         NEW c, Folds(c, i, made, id), OpenAfter(cs, c)
  PROVE  Chained(Append(cs, c), i, made, id)
<1> DEFINE ds == Append(cs, c)
<1>1. c \in Candle
  BY DEF Folds
<1>2. PICK len \in Nat :
         /\ Len(cs) = len /\ Len(ds) = len + 1 /\ ds[len + 1] = c
         /\ \A k \in 1..len : ds[k] = cs[k]
  BY <1>1, AppendProperties, LenProperties
<1>3. cs = << >> <=> len = 0
  BY <1>2, EmptySeq
<1> HIDE DEF ds
<1>4. \A k \in 1..Len(ds) : Folds(ds[k], i, made, id)
  <2>1. \A k \in 1..len : Folds(cs[k], i, made, id)
    BY <1>2 DEF Chained
  <2> QED
    BY <1>2, <2>1
<1>5. \A k \in 1..Len(ds) : k = 1 => ds[k].first = 1
  <2>1. \A k \in 1..len : k = 1 => cs[k].first = 1
    BY <1>2 DEF Chained
  <2>2. len = 0 => c.first = 1
    BY <1>3 DEF OpenAfter
  <2> QED
    BY <1>2, <2>1, <2>2
<1>6. ASSUME NEW k \in 1..Len(ds), k > 1 PROVE Follow(ds[k - 1], ds[k])
  <2>1. CASE k = len + 1
    <3>1. len > 0 /\ ds[k - 1] = cs[len] /\ ds[k] = c
      BY <1>2, <1>6, <2>1
    <3> QED
      BY <1>2, <1>3, <3>1 DEF OpenAfter
  <2>2. CASE k \in 1..len
    <3>1. ds[k - 1] = cs[k - 1] /\ ds[k] = cs[k]
      BY <1>2, <1>6, <2>2
    <3> QED
      BY <1>2, <1>6, <2>2, <3>1 DEF Chained
  <2> QED
    BY <1>2, <2>1, <2>2
<1> QED
  BY <1>4, <1>5, <1>6 DEF Chained, ds

(* With more trades a candle still folds those it folded, and what was     *)
(* sound stays so when the record of trades grows.                         *)
LEMMA FoldsStays ==
  ASSUME NEW c, NEW i, NEW made, NEW more, NEW id \in Nat, NEW later \in Nat, id <= later,
         \A k \in 1..id - 1 : more[k] = made[k], Folds(c, i, made, id)
  PROVE  Folds(c, i, more, later)
<1>1. PICK first \in Nat, last \in Nat : c.first = first /\ c.lastTradeId = last
  BY DEF Folds, Candle
<1>2. 1 <= first /\ last < id
  BY <1>1 DEF Folds
<1>3. ASSUME NEW k \in first..last PROVE c.start = CandleStart(more[k], Width[i])
  <2>1. k \in 1..id - 1
    BY <1>2
  <2> QED
    BY <1>1, <2>1 DEF Folds
<1>4. last < later
  BY <1>2
<1> QED
  BY <1>1, <1>3, <1>4 DEF Folds

(* Trades made later do not change what a candle was built from, so its    *)
(* aggregate stays sound on the tape as it grows.  (Tick)                  *)
LEMMA SoundStays ==
  ASSUME NEW agg, NEW i, NEW t, NEW made, NEW more, NEW id \in Nat,
         \A k \in 1..id - 1 : more[k] = made[k], Sound(agg, i, t, made, id)
  PROVE  Sound(agg, i, t, more, id)
<1>1. ASSUME NEW c, Folds(c, i, made, id) PROVE Folds(c, i, more, id)
  <2>1. id <= id
    OBVIOUS
  <2> QED
    BY <1>1, <2>1, FoldsStays
<1>2. Chained(agg.closed, i, more, id)
  BY <1>1 DEF Sound, Chained
<1> QED
  BY <1>1, <1>2 DEF Sound

(* new is agg, or agg with its open candle closed.                         *)
Ended(agg, new) ==
    \/ new = agg
    \/ /\ agg.active # NoCandle /\ new.active = NoCandle
       /\ new.closed = Append(agg.closed, agg.active)

(* Closing what has ended: the candle is final, the next tick's time in    *)
(* force, and nothing but the open candle is left out of the closed ones.  *)
LEMMA ClosingKeeps ==
  ASSUME NEW i \in Interval, NEW t \in Nat, NEW made, NEW id \in Nat, NEW agg,
         Sound(agg, i, t, made, id), NEW new, new = CloseThrough(agg, i, t + 1)
  PROVE  Sound(new, i, t + 1, made, id) /\ Ended(agg, new)
<1>1. PICK w \in Nat \ {0} : Width[i] = w
  BY EngineAssumption
<1>2. agg \in Aggregator /\ agg.closed \in Seq(Candle) /\ RingHolds(agg)
  BY DEF Sound, Aggregator
<1>3. PICK len \in Nat : Len(agg.closed) = len
  BY <1>2, LenProperties
<1>4. \A k \in 1..len : agg.closed[k].start \in Nat /\ agg.closed[k].start + w <= t
  <2>1. \A k \in 1..len : agg.closed[k] \in Candle
    BY <1>2, <1>3, ElementOfSeq
  <2> QED
    BY <1>1, <1>3, <2>1 DEF Sound, Candle
<1>5. CASE agg.active = NoCandle
  <2>1. new = agg
    BY <1>5 DEF CloseThrough
  <2>2. \A k \in 1..len : agg.closed[k].start + w <= t + 1
    BY <1>4
  <2> QED
    BY <1>1, <1>3, <1>5, <2>1, <2>2 DEF Sound, Ended
<1>6. CASE agg.active # NoCandle
  <2> DEFINE c == agg.active
  <2>1. Folds(c, i, made, id) /\ OpenAfter(agg.closed, c) /\ c.start = CandleStart(t, w) /\ c \in Candle
    BY <1>1, <1>6 DEF Sound, Folds
  <2>2. PICK start \in Nat : c.start = start /\ start <= t /\ t < start + w /\ start = CandleStart(t, w)
    BY <2>1, StartIsBefore
  <2>3. CASE t + 1 < start + w
    <3>1. new = agg
      BY <1>1, <2>2, <2>3 DEF CloseThrough
    <3>2. \A k \in 1..len : agg.closed[k].start + w <= t + 1
      BY <1>4
    <3>3. CandleStart(t + 1, w) = start
      BY <2>2, <2>3, StartStays
    <3> QED
      BY <1>1, <1>3, <2>2, <3>1, <3>2, <3>3 DEF Sound, Ended
  <2>4. CASE ~(t + 1 < start + w)
    <3>1. new = Finalised(agg, c)
      BY <1>1, <1>6, <2>2, <2>4 DEF CloseThrough, Finalised
    <3> DEFINE ds == Append(agg.closed, c)
    <3>2. /\ new \in Aggregator /\ RingHolds(new) /\ new.active = NoCandle /\ new.closed = ds
      BY <1>2, <2>1, <3>1, PushKeepsRing, ZenonT(40)
    <3>3. /\ Len(ds) = len + 1 /\ ds[len + 1] = c /\ ds # << >>
          /\ \A k \in 1..len : ds[k] = agg.closed[k]
      BY <1>2, <1>3, <2>1, AppendProperties
    <3>4. Chained(ds, i, made, id)
      BY <1>2, <2>1, ChainGrows DEF Sound
    <3>5. start + w <= t + 1
      BY <2>4
    <3> HIDE DEF ds
    <3>6. ASSUME NEW k \in 1..Len(ds) PROVE ds[k].start + w <= t + 1
      <4>1. CASE k = len + 1
        BY <2>2, <3>3, <3>5, <4>1
      <4>2. CASE k \in 1..len
        BY <1>4, <3>3, <4>2, SMTT(40)
      <4> QED
        BY <3>3, <4>1, <4>2
    <3>7. LastFolded(new) = id - 1
      <4>1. c.lastTradeId = id - 1
        BY <1>6 DEF Sound, LastFolded
      <4> QED
        BY <3>2, <3>3, <4>1 DEF LastFolded
    <3>8. Sound(new, i, t + 1, made, id)
      BY <1>1, <3>2, <3>4, <3>6, <3>7 DEF Sound
    <3> QED
      BY <1>6, <3>2, <3>8 DEF ds, Ended
  <2> QED
    BY <2>3, <2>4
<1> QED
  BY <1>5, <1>6

(* Applying the next trade at the tick's own time: it opens the bucket's   *)
(* candle or is folded into it, and nothing is closed.                     *)
LEMMA ApplyingKeeps ==
  ASSUME NEW i \in Interval, NEW t \in Nat, NEW made, NEW id \in Nat \ {0}, NEW agg,
         Sound(agg, i, t, made, id), made[id] = t, NEW new, new = Apply(agg, i, t, id)
  PROVE  /\ Sound(new, i, t, made, id + 1)
         /\ new.closed = agg.closed /\ new.active # NoCandle
<1>1. PICK w \in Nat \ {0} : Width[i] = w
  BY EngineAssumption
<1>2. PICK start \in Nat : start = CandleStart(t, w) /\ start <= t /\ t < start + w
  BY StartIsBefore
<1>3. agg \in Aggregator /\ agg.closed \in Seq(Candle) /\ RingHolds(agg)
  BY DEF Sound, Aggregator
<1>4. agg.active # NoCandle => agg.active.start = start
  BY <1>1, <1>2 DEF Sound
<1>5. CloseThrough(agg, i, start) = agg
  BY <1>1, <1>2, <1>4 DEF CloseThrough
<1>6. PICK cs \in Seq(Candle), len \in Nat : agg.closed = cs /\ Len(cs) = len
  BY <1>3, LenProperties
<1>7. \A k \in 1..len : cs[k] \in Candle /\ cs[k].start < start
  <2>1. \A k \in 1..len : cs[k] \in Candle
    BY <1>6, ElementOfSeq
  <2>2. \A k \in 1..len : cs[k].start + w <= t /\ cs[k].start \in Nat
    BY <1>1, <1>6, <2>1 DEF Sound, Candle
  <2> QED
    BY <1>2, <2>1, <2>2
<1>8. Chained(cs, i, made, id + 1) /\ \A k \in 1..len : cs[k].start + Width[i] <= t
  <2>1. ASSUME NEW c, Folds(c, i, made, id) PROVE Folds(c, i, made, id + 1)
    <3>1. id \in Nat /\ id + 1 \in Nat /\ id <= id + 1
      OBVIOUS
    <3> QED
      BY <2>1, <3>1, FoldsStays
  <2>2. Chained(cs, i, made, id)
    BY <1>6 DEF Sound
  <2>3. Chained(cs, i, made, id + 1)
    BY <2>1, <2>2 DEF Chained
  <2> QED
    BY <1>6, <2>3 DEF Sound
<1> DEFINE Opened == [interval |-> i, start |-> start, first |-> id, count |-> 1, lastTradeId |-> id]
           Grown == [agg.active EXCEPT !.count = @ + 1, !.lastTradeId = IF id > @ THEN id ELSE @]
<1>9. ASSUME NEW c \in Candle, new = [agg EXCEPT !.active = c], Folds(c, i, made, id + 1),
             OpenAfter(cs, c), c.start = start, c.lastTradeId = id
      PROVE  Sound(new, i, t, made, id + 1) /\ new.closed = agg.closed /\ new.active # NoCandle
  <2>1. /\ new \in Aggregator /\ new.active = c /\ new.closed = cs /\ new.next = agg.next
        /\ new.size = agg.size /\ new.slots = agg.slots
    BY <1>3, <1>6, <1>9 DEF Aggregator
  <2>2. c # NoCandle
    BY NoCandleAssumption
  <2>3. RingHolds(new)
    BY <1>3, <1>6, <2>1 DEF RingHolds
  <2>4. LastFolded(new) = id /\ id + 1 - 1 = id
    BY <1>9, <2>1, <2>2 DEF LastFolded
  <2> QED
    BY <1>1, <1>2, <1>6, <1>8, <1>9, <2>1, <2>2, <2>3, <2>4 DEF Sound
<1>10. CASE agg.active = NoCandle
  <2>1. Opened \in Candle /\ Opened # NoCandle
    BY NoCandleAssumption DEF Candle
  <2>2. new = [agg EXCEPT !.active = Opened]
    BY <1>1, <1>2, <1>5, <1>10 DEF Apply
  <2>3. /\ Opened.interval = i /\ Opened.start = start /\ Opened.first = id /\ Opened.count = 1
        /\ Opened.lastTradeId = id
    OBVIOUS
  <2> HIDE DEF Opened
  <2>4. Folds(Opened, i, made, id + 1)
    <3>1. \A k \in id..id : k = id
      OBVIOUS
    <3>2. \A k \in id..id : start = CandleStart(made[k], Width[i])
      BY <1>1, <1>2, <3>1
    <3> QED
      BY <2>1, <2>3, <3>2 DEF Folds
  <2>5. OpenAfter(cs, Opened)
    <3>1. LastFolded(agg) = id - 1
      BY DEF Sound
    <3>2. CASE cs = << >>
      <4>1. id - 1 = 0
        BY <1>6, <1>10, <3>1, <3>2 DEF LastFolded
      <4> QED
        BY <2>3, <3>2, <4>1 DEF OpenAfter
    <3>3. CASE cs # << >>
      <4>1. len \in 1..len
        BY <1>6, <3>3, EmptySeq
      <4>2. cs[len].lastTradeId = id - 1
        BY <1>6, <1>10, <3>1, <3>3 DEF LastFolded
      <4>3. cs[len].start < start
        BY <1>7, <4>1
      <4> QED
        BY <1>6, <2>3, <3>3, <4>2, <4>3 DEF OpenAfter, Follow
    <3> QED
      BY <3>2, <3>3
  <2> QED
    BY <1>9, <2>1, <2>2, <2>3, <2>4, <2>5
<1>11. CASE agg.active # NoCandle
  <2> DEFINE c == agg.active
  <2>1. /\ Folds(c, i, made, id) /\ OpenAfter(cs, c) /\ c \in Candle
        /\ c.lastTradeId = id - 1 /\ c.start = start
    BY <1>4, <1>6, <1>11 DEF Sound, Folds, LastFolded
  <2>2. new = [agg EXCEPT !.active = Grown]
    <3>1. new = [agg EXCEPT !.active.count = @ + 1, !.active.lastTradeId = IF id > @ THEN id ELSE @]
      BY <1>1, <1>2, <1>4, <1>5, <1>11 DEF Apply
    <3> QED
      BY <1>3, <2>1, <3>1 DEF Aggregator, Candle
  <2>3. /\ Grown \in Candle /\ Grown.interval = c.interval /\ Grown.start = c.start
        /\ Grown.first = c.first /\ Grown.count = c.count + 1 /\ Grown.lastTradeId = id
    <3>1. c.count \in Nat /\ c.count + 1 \in Nat /\ id > id - 1 /\ id \in Nat
      BY <2>1 DEF Candle
    <3> QED
      BY <2>1, <3>1 DEF Candle
  <2> HIDE DEF Grown
  <2>4. Folds(Grown, i, made, id + 1)
    <3>1. PICK first \in Nat : c.first = first /\ 1 <= first /\ first <= id - 1
      BY <2>1 DEF Folds, Candle
    <3>2. ASSUME NEW k \in first..id PROVE start = CandleStart(made[k], Width[i])
      <4>1. CASE k = id
        BY <1>1, <1>2, <4>1
      <4>2. CASE k # id
        <5>1. k \in first..id - 1
          BY <3>1, <4>2
        <5> QED
          BY <2>1, <3>1, <5>1 DEF Folds
      <4> QED
        BY <4>1, <4>2
    <3>3. Grown.count = id - first + 1
      BY <2>1, <2>3, <3>1 DEF Folds
    <3>4. Grown.interval = i /\ Grown.start = start /\ Grown.first = first
      BY <2>1, <2>3, <3>1 DEF Folds
    <3> QED
      BY <2>3, <3>1, <3>2, <3>3, <3>4 DEF Folds
  <2>5. OpenAfter(cs, Grown)
    BY <2>1, <2>3 DEF OpenAfter, Follow
  <2> QED
    BY <1>9, <2>1, <2>2, <2>3, <2>4, <2>5
<1> QED
  BY <1>10, <1>11

(* What a tick does to the aggregator: at most its open candle is closed,  *)
(* and after a trade there is an open one.                                 *)
Advanced(agg, new, n) ==
    /\ \/ new.closed = agg.closed
       \/ agg.active # NoCandle /\ new.closed = Append(agg.closed, agg.active)
    /\ n = 0 => new.active = agg.active \/ new.active = NoCandle
    /\ n > 0 => new.active # NoCandle

(* A whole tick: by induction on its trades, what is sound stays sound.    *)
LEMMA TickKeeps ==
  ASSUME NEW i \in Interval, NEW t \in Nat, NEW made, NEW id \in Nat \ {0}, NEW n \in Nat,
         NEW agg, Sound(agg, i, t, made, id), \A k \in 1..n : made[id + k - 1] = t + 1,
         NEW ids, ids = [k \in 1..n |-> id + k - 1]
  PROVE  /\ Sound(FoldTick(agg, i, t + 1, ids), i, t + 1, made, id + n)
         /\ Advanced(agg, FoldTick(agg, i, t + 1, ids), n)
<1> DEFINE first == CloseThrough(agg, i, t + 1)
           all == FoldTick(agg, i, t + 1, ids)
<1>0. first = CloseThrough(agg, i, t + 1) /\ all = FoldTick(agg, i, t + 1, ids)
  OBVIOUS
<1> HIDE DEF first, all
<1>1. ids \in Seq(Nat) /\ Len(ids) = n /\ \A k \in 1..n : ids[k] = id + k - 1
  <2>1. \A k \in 1..n : id + k - 1 \in Nat
    OBVIOUS
  <2> QED
    BY <2>1
<1>2. PICK g : Course(g, first, i, t + 1, ids) /\ all = g[Len(ids)]
  <2>1. ids \in Seq(Nat)
    BY <1>1
  <2>2. \E g : /\ Course(g, CloseThrough(agg, i, t + 1), i, t + 1, ids)
               /\ FoldTick(agg, i, t + 1, ids) = g[Len(ids)]
    BY <2>1, TickHasCourse, ZenonT(40)
  <2> QED
    BY <1>0, <2>2, Zenon
<1>3. Sound(first, i, t + 1, made, id) /\ Ended(agg, first)
  <2>1. id \in Nat
    OBVIOUS
  <2> QED
    BY <1>0, <2>1, ClosingKeeps
<1> DEFINE Good == {m \in Nat : m <= n => /\ Sound(g[m], i, t + 1, made, id + m)
                                          /\ g[m].closed = first.closed
                                          /\ m > 0 => g[m].active # NoCandle}
<1>4. 0 \in Good
  <2>1. g[0] = first /\ id + 0 = id
    BY <1>2 DEF Course
  <2> QED
    BY <1>3, <2>1
<1>5. ASSUME NEW m \in Nat, m \in Good PROVE m + 1 \in Good
  <2>1. m + 1 \in Nat
    OBVIOUS
  <2>2. ASSUME m + 1 <= n
        PROVE  /\ Sound(g[m + 1], i, t + 1, made, id + (m + 1))
               /\ g[m + 1].closed = first.closed
               /\ g[m + 1].active # NoCandle
    <3>1. /\ m <= n /\ m + 1 \in 1..n /\ (m + 1) - 1 = m /\ id + (m + 1) - 1 = id + m
          /\ id + m \in Nat \ {0} /\ (id + m) + 1 = id + (m + 1) /\ t + 1 \in Nat
      BY <2>2
    <3>2. g[m + 1] = Apply(g[m], i, t + 1, id + m)
      BY <1>1, <1>2, <3>1 DEF Course
    <3>3. Sound(g[m], i, t + 1, made, id + m) /\ g[m].closed = first.closed
      BY <1>5, <3>1
    <3>4. made[id + m] = t + 1
      BY <3>1
    <3>5. /\ Sound(g[m + 1], i, t + 1, made, (id + m) + 1)
          /\ g[m + 1].closed = g[m].closed /\ g[m + 1].active # NoCandle
      BY <3>1, <3>2, <3>3, <3>4, ApplyingKeeps
    <3> QED
      BY <3>1, <3>3, <3>5
  <2> QED
    BY <2>1, <2>2
<1> HIDE DEF Good
<1>6. n \in Good
  BY <1>4, <1>5, NatSetInduction
<1>7. /\ Sound(g[n], i, t + 1, made, id + n) /\ g[n].closed = first.closed
      /\ n > 0 => g[n].active # NoCandle
  BY <1>6 DEF Good
<1>8. n = 0 => g[n] = first
  BY <1>2 DEF Course
<1>9. Advanced(agg, g[n], n)
  BY <1>3, <1>7, <1>8 DEF Advanced, Ended
<1> QED
  BY <1>0, <1>1, <1>2, <1>7, <1>9

------------------------------------------------------------------------------
(* The engine.                                                             *)

EngineSound ==
    /\ time \in Nat /\ nextTradeId \in Nat \ {0}
    /\ tradedAt \in Seq(Nat) /\ Len(tradedAt) = nextTradeId - 1
    /\ candles \in [Interval -> Aggregator]
    /\ \A i \in Interval : Sound(candles[i], i, time, tradedAt, nextTradeId)

(* It is sound before the first tick.                                      *)
LEMMA EngineStarts == EngineInit => EngineSound
<1> SUFFICES ASSUME EngineInit PROVE EngineSound
  OBVIOUS
<1> USE DEF EngineInit
<1>1. << >> \in Seq(Nat) /\ << >> \in Seq(Candle) /\ Len(<< >>) = 0
  BY EmptySeq
<1>2. EmptyAggregator \in Aggregator
  BY <1>1, EngineAssumption DEF EmptyAggregator, Aggregator
<1>3. ASSUME NEW i \in Interval PROVE Sound(EmptyAggregator, i, time, tradedAt, 1)
  <2>1. /\ EmptyAggregator.active = NoCandle /\ EmptyAggregator.closed = << >>
        /\ EmptyAggregator.size = 0
    BY DEF EmptyAggregator
  <2>2. RingHolds(EmptyAggregator)
    BY <1>1, <2>1, EngineAssumption DEF RingHolds, Least
  <2>3. Chained(<< >>, i, tradedAt, 1)
    BY <1>1 DEF Chained
  <2>4. LastFolded(EmptyAggregator) = 1 - 1
    BY <2>1 DEF LastFolded
  <2> QED
    BY <1>1, <1>2, <2>1, <2>2, <2>3, <2>4 DEF Sound
<1>4. time \in Nat /\ nextTradeId = 1 /\ tradedAt = << >>
  BY EngineAssumption
<1>5. candles = [i \in Interval |-> EmptyAggregator]
  OBVIOUS
<1> QED
  BY <1>1, <1>2, <1>3, <1>4, <1>5 DEF EngineSound

(* A tick keeps it sound, whatever it trades.                              *)
LEMMA EngineTicks ==
  ASSUME EngineSound, NEW n \in Nat, Tick(n)
  PROVE  /\ EngineSound'
         /\ nextTradeId' = nextTradeId + n
         /\ \A i \in Interval : Advanced(candles[i], candles'[i], n)
<1>1. /\ time \in Nat /\ nextTradeId \in Nat \ {0}
      /\ tradedAt \in Seq(Nat) /\ Len(tradedAt) = nextTradeId - 1
  BY DEF EngineSound
<1>2. /\ time' = time + 1 /\ nextTradeId' = nextTradeId + n
      /\ tradedAt' = tradedAt \o [k \in 1..n |-> time']
      /\ candles' = CandlesAfter(time', [k \in 1..n |-> nextTradeId + k - 1])
  BY DEF Tick
<1> DEFINE ids == [k \in 1..n |-> nextTradeId + k - 1]
           now2 == [k \in 1..n |-> time + 1]
<1>3. now2 \in Seq(Nat) /\ Len(now2) = n /\ \A k \in 1..n : now2[k] = time + 1
  <2>1. time + 1 \in Nat
    BY <1>1
  <2> QED
    BY <2>1
<1>4. tradedAt' = tradedAt \o now2
  BY <1>2
<1> HIDE DEF now2
<1>5. /\ tradedAt' \in Seq(Nat) /\ Len(tradedAt') = nextTradeId + n - 1
      /\ \A k \in 1..nextTradeId - 1 : tradedAt'[k] = tradedAt[k]
      /\ \A k \in 1..n : tradedAt'[nextTradeId + k - 1] = time + 1
  <2>1. /\ tradedAt' \in Seq(Nat) /\ Len(tradedAt') = Len(tradedAt) + n
        /\ \A k \in 1..Len(tradedAt) + n :
              tradedAt'[k] = IF k <= Len(tradedAt) THEN tradedAt[k] ELSE now2[k - Len(tradedAt)]
    BY <1>1, <1>3, <1>4, ConcatProperties
  <2>2. ASSUME NEW k \in 1..nextTradeId - 1 PROVE tradedAt'[k] = tradedAt[k]
    BY <1>1, <2>1
  <2>3. ASSUME NEW k \in 1..n PROVE tradedAt'[nextTradeId + k - 1] = time + 1
    <3> DEFINE j == nextTradeId + k - 1
    <3>1. j \in 1..Len(tradedAt) + n /\ ~(j <= Len(tradedAt)) /\ j - Len(tradedAt) = k
      BY <1>1
    <3> HIDE DEF j
    <3>2. tradedAt'[j] = now2[k]
      BY <2>1, <3>1
    <3> QED
      BY <1>3, <3>2 DEF j
  <2> QED
    BY <1>1, <2>1, <2>2, <2>3
<1>6. ASSUME NEW i \in Interval
      PROVE  /\ Sound(candles'[i], i, time', tradedAt', nextTradeId')
             /\ Advanced(candles[i], candles'[i], n)
  <2>1. candles'[i] = FoldTick(candles[i], i, time + 1, ids)
    BY <1>2 DEF CandlesAfter
  <2>2. Sound(candles[i], i, time, tradedAt, nextTradeId)
    BY DEF EngineSound
  <2>3. Sound(candles[i], i, time, tradedAt', nextTradeId)
    <3>1. nextTradeId \in Nat
      BY <1>1
    <3> QED
      BY <1>5, <2>2, <3>1, SoundStays
  <2>4. /\ Sound(FoldTick(candles[i], i, time + 1, ids), i, time + 1, tradedAt', nextTradeId + n)
        /\ Advanced(candles[i], FoldTick(candles[i], i, time + 1, ids), n)
    BY <1>1, <1>5, <2>3, TickKeeps, ZenonT(40)
  <2> QED
    BY <1>2, <2>1, <2>4
<1>7. candles' \in [Interval -> Aggregator]
  <2>1. candles' = [i \in Interval |-> FoldTick(candles[i], i, time', ids)]
    BY <1>2 DEF CandlesAfter
  <2>2. candles' = [i \in Interval |-> candles'[i]]
    BY <2>1
  <2>3. \A i \in Interval : candles'[i] \in Aggregator
    BY <1>6 DEF Sound
  <2> QED
    BY <2>2, <2>3
<1>8. time' \in Nat /\ nextTradeId' \in Nat \ {0} /\ Len(tradedAt') = nextTradeId' - 1
  BY <1>1, <1>2, <1>5
<1>9. EngineSound'
  BY <1>5, <1>6, <1>7, <1>8 DEF EngineSound
<1> QED
  BY <1>2, <1>6, <1>9

(* All the candles there ever were are one chain.                          *)
LEMMA SeriesIsChained ==
  ASSUME EngineSound, NEW i \in Interval
  PROVE  /\ Series(i) \in Seq(Candle)
         /\ Chained(Series(i), i, tradedAt, nextTradeId)
         /\ nextTradeId - 1 = IF Series(i) = << >> THEN 0 ELSE Last(Series(i)).lastTradeId
<1> DEFINE agg == candles[i]
<1>1. Sound(agg, i, time, tradedAt, nextTradeId) /\ agg.closed \in Seq(Candle)
  BY DEF EngineSound, Sound, Aggregator
<1>2. LastFolded(agg) = nextTradeId - 1 /\ Chained(agg.closed, i, tradedAt, nextTradeId)
  BY <1>1 DEF Sound
<1>3. CASE agg.active = NoCandle
  <2>1. Series(i) = agg.closed
    BY <1>3 DEF Series
  <2> QED
    BY <1>1, <1>2, <1>3, <2>1 DEF LastFolded, Last
<1>4. CASE agg.active # NoCandle
  <2>1. Series(i) = Append(agg.closed, agg.active)
    BY <1>4 DEF Series
  <2>2. /\ Folds(agg.active, i, tradedAt, nextTradeId) /\ OpenAfter(agg.closed, agg.active)
        /\ agg.active \in Candle
    BY <1>1, <1>4 DEF Sound, Folds
  <2>3. Chained(Series(i), i, tradedAt, nextTradeId)
    BY <1>1, <1>2, <2>1, <2>2, ChainGrows
  <2>4. /\ Series(i) \in Seq(Candle) /\ Series(i) # << >> /\ Len(Series(i)) = Len(agg.closed) + 1
        /\ Series(i)[Len(agg.closed) + 1] = agg.active
    BY <1>1, <2>1, <2>2, AppendProperties
  <2>5. Last(Series(i)) = agg.active
    BY <2>4 DEF Last
  <2> QED
    BY <1>2, <1>4, <2>3, <2>4, <2>5 DEF LastFolded
<1> QED
  BY <1>3, <1>4

(* So the candles partition the trades.                                    *)
LEMMA SoundPartitions == EngineSound => CandlesPartitionTrades
<1> SUFFICES ASSUME EngineSound PROVE CandlesPartitionTrades
  OBVIOUS
<1>1. ASSUME NEW i \in Interval, NEW all, all = Series(i)
      PROVE  /\ \A k \in 1..Len(all) :
                   /\ all[k].first = IF k = 1 THEN 1 ELSE all[k - 1].lastTradeId + 1
                   /\ all[k].count = all[k].lastTradeId - all[k].first + 1
                   /\ \A id \in all[k].first..all[k].lastTradeId :
                         all[k].start = CandleStart(tradedAt[id], Width[i])
                   /\ k > 1 => all[k - 1].start < all[k].start
             /\ nextTradeId - 1 = IF all = <<>> THEN 0 ELSE Last(all).lastTradeId
  <2>1. all \in Seq(Candle) /\ Chained(all, i, tradedAt, nextTradeId)
    BY <1>1, SeriesIsChained
  <2>2. Len(all) \in Nat
    BY <2>1, LenProperties
  <2>3. ASSUME NEW k \in 1..Len(all)
        PROVE  /\ all[k].first = IF k = 1 THEN 1 ELSE all[k - 1].lastTradeId + 1
               /\ all[k].count = all[k].lastTradeId - all[k].first + 1
               /\ \A id \in all[k].first..all[k].lastTradeId :
                     all[k].start = CandleStart(tradedAt[id], Width[i])
               /\ k > 1 => all[k - 1].start < all[k].start
    <3>1. Folds(all[k], i, tradedAt, nextTradeId)
      BY <2>1 DEF Chained
    <3>2. k = 1 => all[k].first = 1
      BY <2>1 DEF Chained
    <3>3. k # 1 => k > 1
      BY <2>2
    <3>4. k > 1 => Follow(all[k - 1], all[k])
      BY <2>1 DEF Chained
    <3> QED
      BY <3>1, <3>2, <3>3, <3>4 DEF Folds, Follow
  <2>4. nextTradeId - 1 = IF all = <<>> THEN 0 ELSE Last(all).lastTradeId
    BY <1>1, SeriesIsChained
  <2> QED
    BY <2>3, <2>4
<1>2. EachTradeOnce
  BY <1>1 DEF EachTradeOnce
<1>3. OpenIffCurrent
  BY DEF EngineSound, Sound, OpenIffCurrent
<1> QED
  BY <1>2, <1>3 DEF CandlesPartitionTrades

(* The n newest of a sequence.                                             *)
LEMMA NewestOf ==
  ASSUME NEW s \in Seq(Candle), NEW n \in 0..Len(s)
  PROVE  /\ Newest(s, n) \in Seq(Candle) /\ Len(Newest(s, n)) = n
         /\ \A k \in 1..n : Newest(s, n)[k] = s[Len(s) - n + k]
<1>1. PICK len \in Nat : Len(s) = len /\ \A k \in 1..len : s[k] \in Candle
  BY LenProperties, ElementOfSeq
<1>2. /\ len - n + 1 \in Int /\ len \in Int /\ \A k \in len - n + 1..len : s[k] \in Candle
  BY <1>1
<1>3. /\ SubSeq(s, len - n + 1, len) \in Seq(Candle)
      /\ Len(SubSeq(s, len - n + 1, len)) = IF len - n + 1 <= len THEN len - (len - n + 1) + 1 ELSE 0
      /\ \A k \in 1..len - (len - n + 1) + 1 :
            SubSeq(s, len - n + 1, len)[k] = s[len - n + 1 + k - 1]
  BY <1>2, SubSeqProperties, SMTT(40)
<1>4. Newest(s, n) = SubSeq(s, len - n + 1, len)
  BY <1>1 DEF Newest
<1> HIDE DEF Newest
<1>5. Len(Newest(s, n)) = n /\ Newest(s, n) \in Seq(Candle)
  BY <1>1, <1>3, <1>4
<1>6. ASSUME NEW k \in 1..n PROVE Newest(s, n)[k] = s[Len(s) - n + k]
  <2>1. k \in 1..len - (len - n + 1) + 1 /\ len - n + 1 + k - 1 = len - n + k
    BY <1>1
  <2> QED
    BY <1>1, <1>3, <1>4, <2>1
<1> QED
  BY <1>5, <1>6

(* Reading the ring from its oldest candle is reading back from `next`.    *)
LEMMA RingIndex ==
  ASSUME Capacity \in Nat, Capacity > 1, NEW n \in 0..Capacity - 1, NEW z \in 0..Capacity,
         NEW k \in 1..z
  PROVE  (((n - z + Capacity) % Capacity) + k - 1) % Capacity = Back(n, z - k + 1)
<1>1. PICK first \in 0..Capacity - 1 :
         /\ first = (n - z + Capacity) % Capacity
         /\ first = IF n - z + Capacity < Capacity THEN n - z + Capacity ELSE n - z
  <2>1. n - z + Capacity \in 0..2 * Capacity - 1 /\ Capacity > 0
    OBVIOUS
  <2>2. (n - z + Capacity) % Capacity =
           IF n - z + Capacity < Capacity THEN n - z + Capacity ELSE n - z + Capacity - Capacity
    BY <2>1, ModOnce
  <2> QED
    BY <2>1, <2>2
<1>2. first + k - 1 \in 0..2 * Capacity - 1 /\ Capacity > 0
  OBVIOUS
<1>3. (first + k - 1) % Capacity =
         IF first + k - 1 < Capacity THEN first + k - 1 ELSE first + k - 1 - Capacity
  BY <1>2, ModOnce
<1>4. Back(n, z - k + 1) = IF first + k - 1 < Capacity THEN first + k - 1 ELSE first + k - 1 - Capacity
  BY <1>1 DEF Back
<1> QED
  BY <1>1, <1>3, <1>4

(* The ring read as an array is the newest of what was closed.             *)
LEMMA ArrayIsNewest ==
  ASSUME NEW agg \in Aggregator, RingHolds(agg)
  PROVE  /\ agg.size = Least(Len(agg.closed), Capacity)
         /\ ToArray(agg) = Newest(agg.closed, agg.size)
<1>0. Capacity \in Nat /\ Capacity > 1
  BY EngineAssumption
<1>1. PICK next \in 0..Capacity - 1, size \in 0..Capacity, cs \in Seq(Candle), len \in Nat :
           /\ agg.next = next /\ agg.size = size /\ agg.closed = cs /\ Len(cs) = len
           /\ \A k \in 1..len : cs[k] \in Candle
  BY LenProperties, ElementOfSeq DEF Aggregator
<1>2. size = Least(len, Capacity) /\ size <= len /\ size \in 0..Len(cs)
  BY <1>0, <1>1 DEF RingHolds, Least
<1> DEFINE array == [k \in 1..size |-> agg.slots[(((next - size + Capacity) % Capacity) + k - 1) % Capacity]]
<1>3. ToArray(agg) = array
  BY <1>1 DEF ToArray
<1>4. ASSUME NEW k \in 1..size
      PROVE  array[k] = cs[len - size + k] /\ array[k] \in Candle
  <2>1. array[k] = agg.slots[Back(next, size - k + 1)]
    BY <1>0, RingIndex
  <2>2. size - k + 1 \in 1..size /\ len + 1 - (size - k + 1) = len - size + k
        /\ len - size + k \in 1..len
    BY <1>2
  <2>3. agg.slots[Back(next, size - k + 1)] = cs[len + 1 - (size - k + 1)]
    BY <1>1, <2>2 DEF RingHolds
  <2> HIDE DEF array
  <2> QED
    BY <1>1, <2>1, <2>2, <2>3
<1>5. array \in Seq(Candle) /\ Len(array) = size
  <2>1. array \in [1..size -> Candle]
    <3>1. array = [k \in 1..size |-> array[k]]
      OBVIOUS
    <3> HIDE DEF array
    <3> QED
      BY <1>4, <3>1
  <2> HIDE DEF array
  <2> QED
    BY <2>1
<1>6. array = Newest(cs, size)
  <2> HIDE DEF array
  <2>1. /\ Newest(cs, size) \in Seq(Candle) /\ Len(Newest(cs, size)) = size
        /\ \A k \in 1..size : Newest(cs, size)[k] = cs[Len(cs) - size + k]
    BY <1>2, NewestOf
  <2>2. \A k \in 1..size : array[k] = Newest(cs, size)[k]
    BY <1>1, <1>4, <2>1
  <2> QED
    BY <1>5, <2>1, <2>2, SeqEqual
<1> QED
  BY <1>1, <1>2, <1>3, <1>6

(* What the ring has of a limit it has room for is the newest there are.   *)
LEMMA RecentIsNewest ==
  ASSUME NEW agg \in Aggregator, RingHolds(agg), NEW limit \in 0..LimitMax
  PROVE  Recent(agg, limit) = Newest(agg.closed, Least(limit, Len(agg.closed)))
<1>0. Capacity \in Nat /\ Capacity > LimitMax /\ LimitMax \in Nat
  BY EngineAssumption
<1>1. PICK cs \in Seq(Candle), len \in Nat, size \in Nat :
         /\ agg.closed = cs /\ Len(cs) = len /\ agg.size = size
         /\ size = Least(len, Capacity)
         /\ ToArray(agg) = Newest(cs, size)
  BY ArrayIsNewest, LenProperties DEF Aggregator
<1>2. size <= len /\ size \in 0..Len(cs) /\ Least(limit, size) = Least(limit, len)
      /\ Least(limit, len) \in 0..size
  BY <1>0, <1>1 DEF Least
<1> DEFINE array == Newest(cs, size)
           n == Least(limit, len)
<1>3. array \in Seq(Candle) /\ Len(array) = size /\ \A k \in 1..size : array[k] = cs[len - size + k]
  BY <1>1, <1>2, NewestOf
<1> HIDE DEF array, n
<1>4. n \in 0..size /\ n \in 0..Len(array) /\ n \in 0..Len(cs)
  BY <1>1, <1>2, <1>3 DEF n
<1>5. Newest(array, n) = Newest(cs, n)
  <2>1. /\ Newest(array, n) \in Seq(Candle) /\ Len(Newest(array, n)) = n
        /\ \A k \in 1..n : Newest(array, n)[k] = array[Len(array) - n + k]
    BY <1>3, <1>4, NewestOf
  <2>2. /\ Newest(cs, n) \in Seq(Candle) /\ Len(Newest(cs, n)) = n
        /\ \A k \in 1..n : Newest(cs, n)[k] = cs[Len(cs) - n + k]
    BY <1>4, NewestOf
  <2>3. ASSUME NEW k \in 1..n PROVE Newest(array, n)[k] = Newest(cs, n)[k]
    <3>1. size - n + k \in 1..size /\ len - size + (size - n + k) = len - n + k
      BY <1>1, <1>4
    <3>2. PICK j \in 1..size : j = size - n + k /\ len - size + j = len - n + k
      BY <3>1
    <3>3. Newest(array, n)[k] = array[j]
      BY <1>3, <2>1, <3>2
    <3>4. array[j] = cs[len - size + j]
      BY <1>3
    <3>5. Newest(cs, n)[k] = cs[len - n + k]
      BY <1>1, <2>2
    <3> QED
      BY <3>2, <3>3, <3>4, <3>5
  <2> QED
    BY <2>1, <2>2, <2>3, SeqEqual
<1>6. CASE limit <= 0
  <2>1. n = 0 /\ Recent(agg, limit) = << >>
    BY <1>1, <1>6 DEF Recent, n, Least
  <2>2. Newest(cs, 0) \in Seq(Candle) /\ Len(Newest(cs, 0)) = 0
    BY <1>4, <2>1, NewestOf
  <2> QED
    BY <1>1, <2>1, <2>2, EmptySeq DEF n
<1>7. CASE ~(limit <= 0)
  <2>1. Recent(agg, limit) = Newest(array, Least(limit, size))
    BY <1>1, <1>7 DEF Recent, array
  <2> QED
    BY <1>1, <1>2, <1>5, <2>1 DEF n
<1> QED
  BY <1>6, <1>7

(* So the history asked for over REST is the newest there is.              *)
LEMMA SoundAnswers == EngineSound => RestAnswersNewest
<1> SUFFICES ASSUME EngineSound, NEW i \in Interval, NEW limit \in 1..LimitMax + 1
             PROVE  Candles(i, limit) =
                       Newest(Series(i), Least(Least(limit, LimitMax), Len(Series(i))))
  BY DEF RestAnswersNewest
<1>0. LimitMax \in Nat \ {0}
  BY EngineAssumption
<1>1. PICK agg \in Aggregator : agg = candles[i] /\ RingHolds(agg)
  BY DEF EngineSound, Sound
<1>2. PICK cs \in Seq(Candle), len \in Nat : agg.closed = cs /\ Len(cs) = len
  BY LenProperties DEF Aggregator
<1>3. PICK b \in 1..LimitMax : b = Least(limit, LimitMax)
  BY <1>0 DEF Least
<1>4. CASE agg.active = NoCandle
  <2>1. Series(i) = cs /\ Candles(i, limit) = Recent(agg, b)
    BY <1>1, <1>2, <1>3, <1>4 DEF Series, Candles
  <2>2. b \in 0..LimitMax
    BY <1>0
  <2> QED
    BY <1>1, <1>2, <1>3, <2>1, <2>2, RecentIsNewest
<1>5. CASE agg.active # NoCandle
  <2> DEFINE c == agg.active
             ds == Append(cs, c)
             n == Least(b - 1, len)
  <2>1. Series(i) = ds /\ Candles(i, limit) = Append(Recent(agg, b - 1), c) /\ c \in Candle
    BY <1>1, <1>2, <1>3, <1>5 DEF Series, Candles, Aggregator
  <2>2. /\ ds \in Seq(Candle) /\ Len(ds) = len + 1 /\ ds[len + 1] = c
        /\ \A k \in 1..len : ds[k] = cs[k]
    BY <1>2, <2>1, AppendProperties
  <2> HIDE DEF ds, c
  <2>3. Recent(agg, b - 1) = Newest(cs, n)
    <3>1. b - 1 \in 0..LimitMax
      BY <1>0
    <3> QED
      BY <1>2, <3>1, <1>1, RecentIsNewest
  <2>4. n \in 0..len /\ n + 1 = Least(b, len + 1) /\ n \in 0..Len(cs) /\ n + 1 \in 0..Len(ds)
    BY <1>2, <2>2 DEF Least
  <2> HIDE DEF n
  <2>5. /\ Newest(cs, n) \in Seq(Candle) /\ Len(Newest(cs, n)) = n
        /\ \A k \in 1..n : Newest(cs, n)[k] = cs[Len(cs) - n + k]
    BY <2>4, NewestOf
  <2>6. /\ Newest(ds, n + 1) \in Seq(Candle) /\ Len(Newest(ds, n + 1)) = n + 1
        /\ \A k \in 1..n + 1 : Newest(ds, n + 1)[k] = ds[Len(ds) - (n + 1) + k]
    BY <2>2, <2>4, NewestOf
  <2> DEFINE answer == Append(Newest(cs, n), c)
  <2>7. /\ answer \in Seq(Candle) /\ Len(answer) = n + 1 /\ answer[n + 1] = c
        /\ \A k \in 1..n : answer[k] = Newest(cs, n)[k]
    BY <2>1, <2>5, AppendProperties
  <2> HIDE DEF answer
  <2>8. ASSUME NEW k \in 1..n + 1 PROVE answer[k] = Newest(ds, n + 1)[k]
    <3>0. Newest(ds, n + 1)[k] = ds[len + 1 - (n + 1) + k]
      BY <2>2, <2>6, SMTT(40)
    <3>1. CASE k = n + 1
      <4>1. len + 1 - (n + 1) + k = len + 1
        BY <2>4, <3>1
      <4> QED
        BY <2>2, <2>7, <3>0, <3>1, <4>1
    <3>2. CASE k \in 1..n
      <4>1. len + 1 - (n + 1) + k = len - n + k /\ len - n + k \in 1..len
        BY <2>4, <3>2
      <4>2. answer[k] = cs[len - n + k]
        BY <1>2, <2>5, <2>7, <3>2
      <4> QED
        BY <2>2, <3>0, <4>1, <4>2
    <3> QED
      BY <2>4, <3>1, <3>2
  <2>9. answer = Newest(ds, n + 1)
    BY <2>6, <2>7, <2>8, SeqEqual
  <2> QED
    BY <1>3, <2>1, <2>2, <2>3, <2>4, <2>9 DEF answer
<1> QED
  BY <1>4, <1>5

------------------------------------------------------------------------------
(* The subscription's queues.                                              *)

(* What was closed since m, and what a tick closes, is what was closed     *)
(* since m when the tick is over.                                          *)
LEMMA NewestGrows ==
  ASSUME NEW s \in Seq(Candle), NEW t \in Seq(Candle), Len(s) <= Len(t),
         \A k \in 1..Len(s) : t[k] = s[k], NEW m \in 0..Len(s)
  PROVE  /\ Newest(s, Len(s) - m) \in Seq(Candle) /\ Newest(t, Len(t) - Len(s)) \in Seq(Candle)
         /\ Newest(s, Len(s) - m) \o Newest(t, Len(t) - Len(s)) = Newest(t, Len(t) - m)
<1>1. PICK p \in Nat, q \in Nat : Len(s) = p /\ Len(t) = q
  BY LenProperties
<1>2. p - m \in 0..Len(s) /\ q - p \in 0..Len(t) /\ q - m \in 0..Len(t)
  BY <1>1
<1> DEFINE a == Newest(s, p - m)
           b == Newest(t, q - p)
           c == Newest(t, q - m)
<1>3. /\ a \in Seq(Candle) /\ Len(a) = p - m /\ \A k \in 1..p - m : a[k] = s[Len(s) - (p - m) + k]
  BY <1>2, NewestOf
<1>4. /\ b \in Seq(Candle) /\ Len(b) = q - p /\ \A k \in 1..q - p : b[k] = t[Len(t) - (q - p) + k]
  BY <1>2, NewestOf
<1>5. /\ c \in Seq(Candle) /\ Len(c) = q - m /\ \A k \in 1..q - m : c[k] = t[Len(t) - (q - m) + k]
  BY <1>2, NewestOf
<1> HIDE DEF a, b, c
<1>6. /\ a \o b \in Seq(Candle) /\ Len(a \o b) = Len(a) + Len(b)
      /\ \A k \in 1..Len(a) + Len(b) : (a \o b)[k] = IF k <= Len(a) THEN a[k] ELSE b[k - Len(a)]
  BY <1>3, <1>4, ConcatProperties
<1>7. Len(a) + Len(b) = q - m
  BY <1>1, <1>3, <1>4
<1>8. ASSUME NEW k \in 1..q - m PROVE (a \o b)[k] = c[k]
  <2>0. q - (q - m) + k = m + k /\ c[k] = t[q - (q - m) + k]
    BY <1>1, <1>5
  <2>1. CASE k <= p - m
    <3>1. k \in 1..p - m /\ p - (p - m) + k = m + k /\ m + k \in 1..p
      BY <1>1, <2>1
    <3>2. a[k] = s[p - (p - m) + k]
      BY <1>1, <1>3, <3>1
    <3>3. (a \o b)[k] = a[k]
      BY <1>3, <1>6, <1>7, <2>1
    <3>4. t[m + k] = s[m + k]
      BY <1>1, <3>1
    <3> QED
      BY <2>0, <3>1, <3>2, <3>3, <3>4
  <2>2. CASE ~(k <= p - m)
    <3>1. k - (p - m) \in 1..q - p /\ q - (q - p) + (k - (p - m)) = m + k
      BY <1>1, <2>2
    <3>2. b[k - (p - m)] = t[q - (q - p) + (k - (p - m))]
      BY <1>1, <1>4, <3>1
    <3>3. (a \o b)[k] = b[k - (p - m)]
      BY <1>3, <1>6, <1>7, <2>2
    <3> QED
      BY <2>0, <3>1, <3>2, <3>3
  <2> QED
    BY <2>1, <2>2
<1>9. a \o b = c
  BY <1>5, <1>6, <1>7, <1>8, SeqEqual
<1> QED
  BY <1>1, <1>3, <1>4, <1>9 DEF a, b, c

(* Trades in order, all of them made.                                      *)
Ascending(q, id) ==
    /\ \A k \in 1..Len(q) - 1 : q[k] < q[k + 1]
    /\ \A k \in 1..Len(q) : q[k] < id

(* Dropping those that wait leaves the others in order.                    *)
LEMMA DroppingKeepsOrder ==
  ASSUME NEW q \in Seq(Nat), NEW r \in Seq(Nat), NEW id, Ascending(q \o r, id)
  PROVE  Ascending(q, id)
<1>1. PICK m \in Nat, n \in Nat : Len(q) = m /\ Len(r) = n
  BY LenProperties
<1>2. Len(q \o r) = m + n /\ \A k \in 1..m : (q \o r)[k] = q[k]
  <2>1. /\ Len(q \o r) = Len(q) + Len(r)
        /\ \A k \in 1..Len(q) + Len(r) : (q \o r)[k] = IF k <= Len(q) THEN q[k] ELSE r[k - Len(q)]
    BY ConcatProperties
  <2> QED
    BY <1>1, <2>1
<1>3. ASSUME NEW k \in 1..m - 1 PROVE q[k] < q[k + 1]
  <2>1. k \in 1..m /\ k + 1 \in 1..m /\ k \in 1..(m + n) - 1
    BY <1>1
  <2>2. (q \o r)[k] < (q \o r)[k + 1]
    BY <1>2, <2>1 DEF Ascending
  <2> QED
    BY <1>2, <2>1, <2>2
<1>4. ASSUME NEW k \in 1..m PROVE q[k] < id
  <2>1. k \in 1..m + n
    OBVIOUS
  <2> QED
    BY <1>2, <2>1 DEF Ascending
<1> QED
  BY <1>1, <1>3, <1>4 DEF Ascending

(* A tick's trades come after them.                                        *)
LEMMA TradesKeepOrder ==
  ASSUME NEW q \in Seq(Nat), NEW id \in Nat, NEW n \in Nat, Ascending(q, id),
         NEW ids, ids = [k \in 1..n |-> id + k - 1]
  PROVE  ids \in Seq(Int) /\ Ascending(q \o ids, id + n) /\ Ascending(q, id + n)
<1>1. ids \in Seq(Int) /\ Len(ids) = n /\ \A k \in 1..n : ids[k] = id + k - 1
  <2>1. \A k \in 1..n : id + k - 1 \in Int
    OBVIOUS
  <2> QED
    BY <2>1
<1>2. PICK m \in Nat : Len(q) = m /\ \A k \in 1..m : q[k] \in Nat
  BY LenProperties, ElementOfSeq
<1>3. q \in Seq(Int)
  BY SeqMonotonic
<1> DEFINE all == q \o ids
<1>4. /\ Len(all) = m + n
      /\ \A k \in 1..m : all[k] = q[k]
      /\ \A k \in 1..n : all[m + k] = id + k - 1
  <2>1. /\ Len(all) = Len(q) + Len(ids)
        /\ \A k \in 1..Len(q) + Len(ids) : all[k] = IF k <= Len(q) THEN q[k] ELSE ids[k - Len(q)]
    BY <1>1, <1>3, ConcatProperties
  <2> HIDE DEF all
  <2>2. ASSUME NEW k \in 1..n PROVE all[m + k] = id + k - 1
    <3>1. m + k \in 1..m + n /\ ~(m + k <= m) /\ m + k - m = k
      OBVIOUS
    <3>2. all[m + k] = ids[k]
      BY <1>1, <1>2, <2>1, <3>1
    <3> QED
      BY <1>1, <3>2
  <2>3. \A k \in 1..m : all[k] = q[k]
    BY <1>1, <1>2, <2>1
  <2> QED
    BY <1>1, <1>2, <2>1, <2>2, <2>3
<1> HIDE DEF all
<1>5. \A k \in 1..m : q[k] < id
  BY <1>2 DEF Ascending
<1>6. ASSUME NEW k \in 1..m + n PROVE all[k] < id + n
  <2>1. CASE k <= m
    <3>1. k \in 1..m
      BY <2>1
    <3>2. all[k] = q[k] /\ q[k] < id /\ q[k] \in Nat
      BY <1>2, <1>4, <1>5, <3>1
    <3> QED
      BY <3>2
  <2>2. CASE ~(k <= m)
    <3>1. k - m \in 1..n /\ m + (k - m) = k
      BY <2>2
    <3>2. all[k] = id + (k - m) - 1
      BY <1>4, <3>1
    <3> QED
      BY <3>1, <3>2
  <2> QED
    BY <2>1, <2>2
<1>7. ASSUME NEW k \in 1..m + n - 1 PROVE all[k] < all[k + 1]
  <2>1. CASE k + 1 <= m
    <3>1. k \in 1..m /\ k + 1 \in 1..m /\ k \in 1..m - 1
      BY <2>1
    <3> QED
      BY <1>2, <1>4, <3>1 DEF Ascending
  <2>2. CASE k = m
    <3>1. 1 \in 1..n /\ m + 1 = k + 1 /\ k \in 1..m
      BY <2>2
    <3>2. all[k + 1] = id + 1 - 1 /\ all[k] = q[k] /\ q[k] < id
      BY <1>4, <1>5, <3>1
    <3> QED
      BY <1>2, <3>1, <3>2
  <2>3. CASE k > m
    <3>1. k - m \in 1..n /\ m + (k - m) = k /\ k + 1 - m \in 1..n /\ m + (k + 1 - m) = k + 1
      BY <2>3
    <3>2. all[k] = id + (k - m) - 1 /\ all[k + 1] = id + (k + 1 - m) - 1
      BY <1>4, <3>1
    <3> QED
      BY <3>1, <3>2
  <2> QED
    BY <2>1, <2>2, <2>3
<1>8. Ascending(q, id + n)
  <2>1. ASSUME NEW k \in 1..m PROVE q[k] < id + n
    BY <1>2, <1>5
  <2> QED
    BY <1>2, <2>1 DEF Ascending
<1> QED
  BY <1>1, <1>4, <1>6, <1>7, <1>8, SMTT(40) DEF Ascending, all

(* A SymbolSubscription, with its queues.                                  *)
Subscription ==
    [on : BOOLEAN, channels : SUBSET Channel, interval : Interval \cup {None},
     finals : Seq(Candle), latest : Candle \cup {NoCandle}, candleAt : Nat,
     trades : Seq(Nat), tradeAt : Nat]

Typed ==
    /\ EngineTypeOK
    /\ now \in Nat /\ tier \in Tier /\ open \in BOOLEAN
    /\ subscription \in Subscription
    /\ finals \in Seq(Candle) /\ told \in Candle \cup {NoCandle} /\ trades \in Seq(Nat)
    /\ since.closed \in Nat
    /\ subscription.interval # None => "candles" \in subscription.channels
    /\ ~subscription.on => subscription = NoSubscription

(* The inductive invariant.  What waits and what was sent add up only to   *)
(* what the engine closed and made, so the engine's own is part of it.     *)
DeliveryInv ==
    /\ Typed
    /\ EngineSound
    /\ FinalsDeliveredOnce
    /\ Follows => since.closed <= Len(candles[subscription.interval].closed)
    /\ NewestVersionSurvives
    /\ Ascending(trades \o subscription.trades, nextTradeId)

(* A sound engine is well typed: the open candle is of the interval it is  *)
(* kept under.  (CandleAggregator)                                         *)
LEMMA SoundIsTyped == EngineSound => EngineTypeOK
<1> SUFFICES ASSUME EngineSound PROVE EngineTypeOK
  OBVIOUS
<1>1. \A i \in Interval : candles[i].active # NoCandle => candles[i].active.interval = i
  BY DEF EngineSound, Sound, Folds
<1> QED
  BY <1>1 DEF EngineSound, EngineTypeOK

(* A history that starts over has nothing to add up yet: nothing was sent, *)
(* nothing waits, and no candle has a trade that is not made yet.  When    *)
(* it does not start over the queues are those there were (Restart).       *)
LEMMA RestartKeeps ==
  ASSUME DeliveryInv, UNCHANGED engineVars, Restart(subscription'), open' => open,
         subscription' \in Subscription,
         \/ subscription'.finals = << >> /\ subscription'.latest = NoCandle
         \/ /\ subscription'.on = subscription.on
            /\ subscription'.interval = subscription.interval
            /\ subscription'.finals = subscription.finals
            /\ subscription'.latest = subscription.latest,
         subscription'.on = subscription.on /\ subscription'.interval = subscription.interval =>
            subscription'.finals = subscription.finals /\ subscription'.latest = subscription.latest
  PROVE  /\ FinalsDeliveredOnce' /\ NewestVersionSurvives'
         /\ (Follows => since.closed <= Len(candles[subscription.interval].closed))'
         /\ since'.closed \in Nat /\ finals' \in Seq(Candle) /\ told' \in Candle \cup {NoCandle}
<1>0. /\ candles' = candles /\ nextTradeId' = nextTradeId /\ None \notin Interval
      /\ since.closed \in Nat /\ finals \in Seq(Candle) /\ told \in Candle \cup {NoCandle}
  BY DeliveryAssumption DEF DeliveryInv, Typed, engineVars
<1>1. CASE subscription'.on = subscription.on /\ subscription'.interval = subscription.interval
  <2>1. /\ UNCHANGED <<finals, since, told>>
        /\ subscription'.finals = subscription.finals
        /\ subscription'.latest = subscription.latest
    BY <1>1 DEF Restart
  <2>2. Follows' => Follows
    BY <1>1 DEF Follows
  <2>3. FinalsDeliveredOnce'
    BY <1>0, <1>1, <2>1, <2>2 DEF DeliveryInv, FinalsDeliveredOnce
  <2>4. NewestVersionSurvives'
    BY <1>0, <1>1, <2>1, <2>2 DEF DeliveryInv, NewestVersionSurvives
  <2>5. (Follows => since.closed <= Len(candles[subscription.interval].closed))'
    BY <1>0, <1>1, <2>1, <2>2 DEF DeliveryInv
  <2> QED
    BY <1>0, <2>1, <2>3, <2>4, <2>5
<1>2. CASE ~(subscription'.on = subscription.on /\ subscription'.interval = subscription.interval)
  <2> DEFINE i == subscription'.interval
  <2>1. /\ finals' = << >> /\ told' = NoCandle
        /\ since' = [closed |-> IF i = None THEN 0 ELSE Len(candles[i].closed),
                     trade |-> nextTradeId]
        /\ subscription'.finals = << >> /\ subscription'.latest = NoCandle
    BY <1>2 DEF Restart
  <2>2. Follows' => i \in Interval /\ i # None
    BY DEF Follows, Subscription
  <2>3. ASSUME i \in Interval
        PROVE  /\ candles[i].closed \in Seq(Candle) /\ Len(candles[i].closed) \in Nat
               /\ candles[i].active # NoCandle => candles[i].active.lastTradeId < nextTradeId
               /\ candles[i].active # NoCandle => candles[i].active.lastTradeId \in Nat
    <3>1. Sound(candles[i], i, time, tradedAt, nextTradeId)
      BY <2>3 DEF DeliveryInv, EngineSound
    <3>2. candles[i].closed \in Seq(Candle)
      BY <3>1 DEF Sound, Aggregator
    <3> QED
      BY <3>1, <3>2, LenProperties DEF Sound, Folds, Candle
  <2>4. nextTradeId \in Nat
    BY DEF DeliveryInv, EngineSound
  <2>5. ASSUME Follows'
        PROVE  /\ finals' \o subscription'.finals
                     = Newest(candles'[i].closed, Len(candles'[i].closed) - since'.closed)
               /\ since'.closed <= Len(candles'[i].closed) /\ since'.closed \in Nat
    <3> DEFINE cs == candles[i].closed
    <3>1. since'.closed = Len(cs) /\ Len(cs) \in Nat /\ cs \in Seq(Candle)
      BY <2>1, <2>2, <2>3, <2>5
    <3>2. Newest(cs, 0) \in Seq(Candle) /\ Len(Newest(cs, 0)) = 0
      <4>1. 0 \in 0..Len(cs)
        BY <3>1
      <4> QED
        BY <3>1, <4>1, NewestOf
    <3>3. Newest(cs, 0) = << >>
      BY <3>2, EmptySeq
    <3>4. << >> \in Seq(Candle) /\ << >> \o << >> = << >>
      BY EmptySeq, ConcatEmptySeq
    <3>5. Len(cs) - Len(cs) = 0 /\ Len(cs) <= Len(cs)
      BY <3>1
    <3> HIDE DEF cs
    <3>6. candles'[i].closed = cs
      BY <1>0 DEF cs
    <3> QED
      BY <2>1, <3>1, <3>3, <3>4, <3>5, <3>6
  <2>6. FinalsDeliveredOnce'
    BY <2>5 DEF FinalsDeliveredOnce
  <2>7. NewestVersionSurvives'
    <3>1. ASSUME Follows', candles[i].active # NoCandle
          PROVE  ~(candles[i].active.lastTradeId >= since'.trade)
      BY <2>1, <2>2, <2>3, <2>4, <3>1
    <3> QED
      BY <1>0, <3>1 DEF NewestVersionSurvives
  <2>8. << >> \in Seq(Candle)
    BY EmptySeq
  <2>9. since'.closed \in Nat
    <3>1. i \in Interval \cup {None}
      BY DEF Subscription
    <3>2. CASE i = None
      BY <2>1, <3>2
    <3>3. CASE i \in Interval
      BY <1>0, <2>1, <2>3, <3>3
    <3> QED
      BY <3>1, <3>2, <3>3
  <2> QED
    BY <2>1, <2>5, <2>6, <2>7, <2>8, <2>9
<1> QED
  BY <1>1, <1>2

(* Changing the interval discards what waits of the one that is left, and  *)
(* choosing the same changes nothing (SymbolSubscription.setInterval).     *)
LEMMA ChangedInterval ==
  ASSUME NEW s \in Subscription, NEW i \in Interval \cup {None}, NEW r, r = ChangeInterval(s, i)
  PROVE  /\ r \in Subscription
         /\ r.on = s.on /\ r.channels = s.channels /\ r.interval = i /\ r.trades = s.trades
         /\ \/ i = s.interval /\ r = s
            \/ i # s.interval /\ r.finals = << >> /\ r.latest = NoCandle
<1>1. CASE i = s.interval
  BY <1>1 DEF ChangeInterval
<1>2. CASE i # s.interval
  <2>1. r = [s EXCEPT !.interval = i, !.finals = <<>>, !.latest = NoCandle]
    BY <1>2 DEF ChangeInterval
  <2>2. << >> \in Seq(Candle)
    BY EmptySeq
  <2> QED
    BY <1>2, <2>1, <2>2 DEF Subscription
<1> QED
  BY <1>1, <1>2

(* The record that stands for no subscription queues nothing and follows   *)
(* no interval.  (the Map of subscriptions, without the symbol)            *)
LEMMA NoSubscriptionIsOne ==
    /\ NoSubscription \in Subscription
    /\ ~NoSubscription.on /\ NoSubscription.interval = None /\ NoSubscription.channels = {}
    /\ NoSubscription.finals = << >> /\ NoSubscription.latest = NoCandle
    /\ NoSubscription.trades = << >>
<1>1. << >> \in Seq(Candle) /\ << >> \in Seq(Nat)
  BY EmptySeq
<1> QED
  BY <1>1 DEF NoSubscription, Subscription

(* What a step of the client or of its tier comes to.                      *)
LEMMA CommandKeeps ==
  ASSUME DeliveryInv, UNCHANGED <<engineVars, now>>, Restart(subscription'), open' => open,
         open' \in BOOLEAN, tier' \in Tier,
         subscription' \in Subscription,
         \/ subscription'.finals = << >> /\ subscription'.latest = NoCandle
         \/ /\ subscription'.on = subscription.on
            /\ subscription'.interval = subscription.interval
            /\ subscription'.finals = subscription.finals
            /\ subscription'.latest = subscription.latest,
         subscription'.on = subscription.on /\ subscription'.interval = subscription.interval =>
            subscription'.finals = subscription.finals /\ subscription'.latest = subscription.latest,
         subscription'.interval # None => "candles" \in subscription'.channels,
         ~subscription'.on => subscription' = NoSubscription,
         trades' = trades,
         \/ subscription'.trades = subscription.trades
         \/ subscription'.trades = << >>
  PROVE  DeliveryInv'
<1>1. /\ FinalsDeliveredOnce' /\ NewestVersionSurvives'
      /\ (Follows => since.closed <= Len(candles[subscription.interval].closed))'
      /\ since'.closed \in Nat /\ finals' \in Seq(Candle) /\ told' \in Candle \cup {NoCandle}
  BY RestartKeeps
<1>2. EngineSound'
  BY DEF DeliveryInv, EngineSound, engineVars
<1>3. EngineTypeOK'
  BY <1>2, SoundIsTyped DEF DeliveryInv, Typed, EngineTypeOK, engineVars
<1>4. Typed'
  BY <1>1, <1>3 DEF DeliveryInv, Typed
<1>5. Ascending(trades \o subscription.trades, nextTradeId)'
  <2>1. /\ trades \in Seq(Nat) /\ subscription.trades \in Seq(Nat) /\ nextTradeId' = nextTradeId
        /\ Ascending(trades \o subscription.trades, nextTradeId)
    BY DEF DeliveryInv, Typed, Subscription, engineVars
  <2>2. Ascending(trades, nextTradeId)
    BY <2>1, DroppingKeepsOrder
  <2>3. trades \o << >> = trades
    BY <2>1, ConcatEmptySeq
  <2>4. Ascending(trades' \o subscription'.trades, nextTradeId')
    BY <2>1, <2>2, <2>3
  <2> QED
    BY <2>4
<1> QED
  BY <1>1, <1>2, <1>4, <1>5 DEF DeliveryInv

(* subscribe, unsubscribe, set_interval and the tier.                      *)
LEMMA SubscribeKeeps ==
  ASSUME DeliveryInv, NEW channels \in SUBSET Channel \ {{}}, NEW i \in Interval,
         Subscribe(channels, i)
  PROVE  DeliveryInv'
<1> DEFINE j == IF "candles" \in channels THEN i ELSE None
           s == IF subscription.on THEN [subscription EXCEPT !.channels = channels]
                ELSE NoSubscription
<1>1. j \in Interval \cup {None} /\ channels \in SUBSET Channel /\ subscription \in Subscription
      /\ (j # None => "candles" \in channels)
      /\ (~subscription.on => subscription = NoSubscription)
  BY DEF DeliveryInv, Typed
<1>2. /\ UNCHANGED <<engineVars, now, open, trades, tier>> /\ open \in BOOLEAN /\ tier \in Tier
      /\ Restart(subscription') /\ subscription' = Subscribed(channels, j)
  BY DEF Subscribe, Command, DeliveryInv, Typed
<1> HIDE DEF j
<1>3. CASE subscription.on
  <2> DEFINE r == [subscription EXCEPT !.channels = channels]
  <2>1. /\ r \in Subscription /\ r.on = TRUE /\ r.channels = channels
        /\ r.interval = subscription.interval /\ r.finals = subscription.finals
        /\ r.latest = subscription.latest /\ r.trades = subscription.trades
    BY <1>1, <1>3 DEF Subscription
  <2>2. subscription' = ChangeInterval(r, j)
    BY <1>2, <1>3 DEF Subscribed
  <2> HIDE DEF r
  <2>3. /\ subscription' \in Subscription
        /\ subscription'.on = r.on /\ subscription'.channels = r.channels
        /\ subscription'.interval = j /\ subscription'.trades = r.trades
        /\ \/ j = r.interval /\ subscription' = r
           \/ j # r.interval /\ subscription'.finals = << >> /\ subscription'.latest = NoCandle
    BY <1>1, <2>1, <2>2, ChangedInterval
  <2> QED
    BY <1>1, <1>2, <1>3, <2>1, <2>3, CommandKeeps
<1>4. CASE ~subscription.on
  <2>1. subscription' = [NoSubscription EXCEPT !.on = TRUE, !.channels = channels, !.interval = j]
    BY <1>2, <1>4 DEF Subscribed
  <2>2. /\ subscription' \in Subscription /\ subscription'.on = TRUE
        /\ subscription'.channels = channels /\ subscription'.interval = j
        /\ subscription'.finals = << >> /\ subscription'.latest = NoCandle
        /\ subscription'.trades = << >>
    BY <1>1, <2>1, NoSubscriptionIsOne DEF Subscription
  <2> QED
    BY <1>1, <1>2, <1>4, <2>2, CommandKeeps
<1> QED
  BY <1>3, <1>4

(* Unsubscribing, changing the interval and a change of tier keep what was *)
(* sent and what waits in step.  (unsubscribe, setInterval, effectiveTier) *)
LEMMA OtherCommandsKeep ==
  ASSUME DeliveryInv,
         \/ Unsubscribe
         \/ \E i \in Interval : SetInterval(i)
         \/ \E t \in Tier : ChangeTier(t)
  PROVE  DeliveryInv'
<1>1. /\ UNCHANGED <<engineVars, now, open, trades>> /\ open \in BOOLEAN /\ tier \in Tier
      /\ subscription \in Subscription
      /\ (~subscription.on => subscription = NoSubscription)
      /\ (subscription.interval # None => "candles" \in subscription.channels)
  BY DEF Unsubscribe, SetInterval, ChangeTier, Command, DeliveryInv, Typed
<1>2. CASE Unsubscribe
  <2>1. Restart(subscription') /\ subscription' = NoSubscription /\ tier' = tier /\ subscription.on
    BY <1>2 DEF Unsubscribe
  <2> QED
    BY <1>1, <2>1, NoSubscriptionIsOne, CommandKeeps
<1>3. ASSUME NEW i \in Interval, SetInterval(i) PROVE DeliveryInv'
  <2>1. /\ Restart(subscription') /\ subscription' = ChangeInterval(subscription, i)
        /\ tier' = tier /\ subscription.on /\ "candles" \in subscription.channels
    BY <1>3 DEF SetInterval
  <2>2. /\ subscription' \in Subscription
        /\ subscription'.on = subscription.on /\ subscription'.channels = subscription.channels
        /\ subscription'.interval = i /\ subscription'.trades = subscription.trades
        /\ \/ i = subscription.interval /\ subscription' = subscription
           \/ i # subscription.interval /\ subscription'.finals = << >> /\ subscription'.latest = NoCandle
    <3>1. i \in Interval \cup {None}
      OBVIOUS
    <3>2. subscription \in Subscription /\ subscription' = ChangeInterval(subscription, i)
      BY <1>1, <2>1
    <3> QED
      BY <3>1, <3>2, ChangedInterval
  <2> QED
    BY <1>1, <2>1, <2>2, CommandKeeps
<1>4. ASSUME NEW t \in Tier, ChangeTier(t) PROVE DeliveryInv'
  <2>1. UNCHANGED <<subscription, finals, since, told>> /\ tier' = t
    BY <1>4 DEF ChangeTier
  <2>2. Restart(subscription')
    BY <2>1 DEF Restart
  <2> QED
    BY <1>1, <2>1, <2>2, CommandKeeps
<1> QED
  BY <1>2, <1>3, <1>4

(* A new session starts with nothing subscribed and nothing sent.          *)
LEMMA ReconnectKeeps ==
  ASSUME DeliveryInv, Reconnect
  PROVE  DeliveryInv'
<1>1. /\ UNCHANGED <<engineVars, now>> /\ open' = TRUE /\ subscription' = NoSubscription
      /\ tier' = InitialTier /\ trades' = << >> /\ Restart(NoSubscription) /\ InitialTier \in Tier
  BY DeliveryAssumption DEF Reconnect
<1>2. EngineSound'
  BY <1>1 DEF DeliveryInv, EngineSound, engineVars
<1>3. EngineTypeOK'
  BY <1>1 DEF DeliveryInv, Typed, EngineTypeOK, engineVars
<1>4. << >> \in Seq(Candle) /\ << >> \in Seq(Nat) /\ Len(<< >>) = 0 /\ << >> \o << >> = << >>
  <2>1. << >> \in Seq(Candle) /\ << >> \in Seq(Nat) /\ Len(<< >>) = 0
    BY EmptySeq
  <2> QED
    BY <2>1, ConcatEmptySeq
<1>5. finals' \in Seq(Candle) /\ told' \in Candle \cup {NoCandle} /\ since'.closed \in Nat
  <2>1. CASE NoSubscription.on = subscription.on /\ NoSubscription.interval = subscription.interval
    BY <1>1, <2>1 DEF Restart, DeliveryInv, Typed
  <2>2. CASE ~(NoSubscription.on = subscription.on /\ NoSubscription.interval = subscription.interval)
    <3>1. /\ finals' = <<>> /\ told' = NoCandle
          /\ since' = [closed |-> 0, trade |-> nextTradeId]
      BY <1>1, <2>2, NoSubscriptionIsOne DEF Restart
    <3> QED
      BY <1>4, <3>1
  <2> QED
    BY <2>1, <2>2
<1>6. Typed'
  BY <1>1, <1>3, <1>4, <1>5, NoSubscriptionIsOne DEF DeliveryInv, Typed
<1>7. ~Follows'
  BY <1>1, NoSubscriptionIsOne DEF Follows
<1>8. Ascending(trades \o subscription.trades, nextTradeId)'
  <2>1. Ascending(<< >>, nextTradeId')
    BY <1>4 DEF Ascending
  <2> QED
    BY <1>1, <1>4, <2>1, NoSubscriptionIsOne
<1> QED
  BY <1>2, <1>6, <1>7, <1>8 DEF DeliveryInv, FinalsDeliveredOnce, NewestVersionSurvives

------------------------------------------------------------------------------
(* The dispatch of a tick.                                                 *)

(* What the engine closed in a tick is what the closed candles grew by.    *)
LEMMA ClosedGrows ==
  ASSUME EngineSound, NEW n \in Nat, Tick(n), NEW i \in Interval
  PROVE  /\ candles[i].closed \in Seq(Candle) /\ candles'[i].closed \in Seq(Candle)
         /\ Len(candles[i].closed) <= Len(candles'[i].closed)
         /\ \A k \in 1..Len(candles[i].closed) : candles'[i].closed[k] = candles[i].closed[k]
<1>1. candles[i] \in Aggregator /\ EngineSound' /\ Advanced(candles[i], candles'[i], n)
  BY EngineTicks DEF EngineSound, Sound
<1>2. candles'[i] \in Aggregator
  BY <1>1 DEF EngineSound, Sound
<1>3. PICK cs \in Seq(Candle), ds \in Seq(Candle), len \in Nat :
           candles[i].closed = cs /\ candles'[i].closed = ds /\ Len(cs) = len
  BY <1>1, <1>2, LenProperties DEF Aggregator
<1>4. CASE ds = cs
  BY <1>3, <1>4
<1>5. CASE candles[i].active # NoCandle /\ ds = Append(cs, candles[i].active)
  <2>1. candles[i].active \in Candle
    BY <1>1, <1>5 DEF Aggregator
  <2>2. Len(ds) = len + 1 /\ \A k \in 1..len : ds[k] = cs[k]
    BY <1>3, <1>5, <2>1, AppendProperties
  <2> QED
    BY <1>3, <2>2
<1> QED
  BY <1>1, <1>3, <1>4, <1>5 DEF Advanced

(* What a tick adds to the queues (enqueue).                               *)
Queued(s, n) ==
    /\ s \in Subscription
    /\ s.on = subscription.on /\ s.channels = subscription.channels
    /\ s.interval = subscription.interval
    /\ \/ s.trades = subscription.trades
       \/ s.trades = subscription.trades \o [k \in 1..n |-> nextTradeId + k - 1]
    /\ s.interval # None =>
          /\ s.finals = subscription.finals
                          \o Newest(candles'[s.interval].closed,
                                    Len(candles'[s.interval].closed) - Len(candles[s.interval].closed))
          /\ s.latest = IF n > 0 THEN candles'[s.interval].active ELSE subscription.latest

(* For a connection that follows an interval, what a tick adds to the      *)
(* finals is what the engine closed in it, and the newest open candle      *)
(* takes the place of the one that waited.  (enqueue)                      *)
LEMMA EnqueueQueues ==
  ASSUME DeliveryInv, NEW n \in Nat, Tick(n)
  PROVE  Queued(Enqueue(subscription), n)
<1> DEFINE ids == [k \in 1..n |-> nextTradeId + k - 1]
           batch == IF "trades" \notin subscription.channels THEN subscription.trades
                    ELSE subscription.trades \o ids
           i == subscription.interval
<1>1. /\ subscription \in Subscription /\ EngineSound /\ nextTradeId \in Nat
      /\ subscription.trades \in Seq(Nat) /\ subscription.finals \in Seq(Candle)
      /\ i \in Interval \cup {None} /\ None \notin Interval
      /\ subscription.latest \in Candle \cup {NoCandle}
  BY DeliveryAssumption DEF DeliveryInv, Typed, EngineSound, Subscription
<1>2. nextTradeId' = nextTradeId + n /\ nextTradeId' - nextTradeId = n
      /\ (nextTradeId' > nextTradeId <=> n > 0)
  BY <1>1, EngineTicks
<1>3. batch \in Seq(Nat)
  <2>1. \A k \in 1..n : nextTradeId + k - 1 \in Nat
    BY <1>1
  <2>2. ids \in Seq(Nat)
    BY <2>1
  <2> HIDE DEF ids
  <2>3. subscription.trades \o ids \in Seq(Nat)
    BY <1>1, <2>2, ConcatProperties
  <2> QED
    BY <1>1, <2>3
<1>4. [k \in 1..(nextTradeId' - nextTradeId) |-> nextTradeId + k - 1] = ids
  BY <1>2
<1> HIDE DEF ids
<1>5. CASE i = None
  <2>1. Enqueue(subscription) = [subscription EXCEPT !.trades = batch]
    BY <1>4, <1>5 DEF Enqueue
  <2> HIDE DEF batch
  <2>2. [subscription EXCEPT !.trades = batch] \in Subscription
    BY <1>1, <1>3 DEF Subscription
  <2> QED
    BY <1>1, <1>5, <2>1, <2>2 DEF Queued, Subscription, batch, ids
<1>6. CASE i \in Interval
  <2> DEFINE new == FinalisedCandles(i)
             late == NewestActive(subscription, i)
  <2>1. Enqueue(subscription) = [subscription EXCEPT !.trades = batch, !.finals = @ \o new, !.latest = late]
    BY <1>1, <1>4, <1>6 DEF Enqueue
  <2>2. /\ candles[i].closed \in Seq(Candle) /\ candles'[i].closed \in Seq(Candle)
        /\ Len(candles[i].closed) <= Len(candles'[i].closed)
        /\ \A k \in 1..Len(candles[i].closed) : candles'[i].closed[k] = candles[i].closed[k]
    BY <1>1, <1>6, ClosedGrows
  <2>3. new = Newest(candles'[i].closed, Len(candles'[i].closed) - Len(candles[i].closed))
    BY DEF FinalisedCandles
  <2>4. new \in Seq(Candle)
    <3>1. 0 \in 0..Len(candles[i].closed)
      BY <2>2, LenProperties
    <3> QED
      BY <2>2, <2>3, <3>1, NewestGrows
  <2>5. subscription.finals \o new \in Seq(Candle)
    BY <1>1, <2>4, ConcatProperties
  <2>6. late = (IF n > 0 THEN candles'[i].active ELSE subscription.latest) /\ late \in Candle \cup {NoCandle}
    <3>1. CASE n > 0
      <4>1. Advanced(candles[i], candles'[i], n) /\ EngineSound'
        BY <1>1, <1>6, EngineTicks
      <4>2. candles'[i].active # NoCandle /\ candles'[i].active \in Candle
        BY <1>6, <3>1, <4>1 DEF Advanced, EngineSound, Aggregator
      <4>3. ActiveCandles(i) = {candles'[i].active}
        BY <1>2, <3>1, <4>2 DEF ActiveCandles
      <4>4. late = candles'[i].active
        BY <4>3 DEF NewestActive
      <4> QED
        BY <3>1, <4>2, <4>4
    <3>2. CASE ~(n > 0)
      <4>1. ActiveCandles(i) = {}
        BY <1>2, <3>2 DEF ActiveCandles
      <4>2. late = subscription.latest
        BY <4>1 DEF NewestActive
      <4> QED
        BY <1>1, <3>2, <4>2
    <3> QED
      BY <3>1, <3>2
  <2> HIDE DEF new, late, batch
  <2> DEFINE s == [subscription EXCEPT !.trades = batch, !.finals = @ \o new, !.latest = late]
  <2>7. s \in Subscription
    BY <1>1, <1>3, <2>5, <2>6 DEF Subscription
  <2>8. /\ s.on = subscription.on /\ s.channels = subscription.channels
        /\ s.interval = i /\ s.trades = batch /\ s.latest = late
        /\ s.finals = subscription.finals \o new
    BY <1>1 DEF Subscription
  <2> HIDE DEF s
  <2>9. Queued(s, n)
    BY <1>1, <2>3, <2>6, <2>7, <2>8 DEF Queued, batch, ids
  <2> QED
    BY <2>1, <2>9 DEF s
<1> QED
  BY <1>1, <1>5, <1>6

(* What flushing sends, and what it leaves waiting (flushDue).             *)
Flushed(s, update, batch, drop) ==
    /\ subscription' \in Subscription
    /\ subscription'.on = s.on /\ subscription'.channels = s.channels
    /\ subscription'.interval = s.interval
    /\ subscription'.finals = IF update THEN << >> ELSE s.finals
    /\ subscription'.latest = IF update THEN NoCandle ELSE s.latest
    /\ subscription'.trades = IF drop \/ batch THEN << >> ELSE s.trades
    /\ update => s.interval # None
    /\ finals' = IF update THEN finals \o s.finals ELSE finals
    /\ told' = IF update /\ s.latest # NoCandle THEN s.latest ELSE told
    /\ trades' = IF batch THEN trades \o s.trades ELSE trades
    /\ drop => ~batch

(* Each queue is either sent whole and emptied, dropped whole (trades      *)
(* only, over the soft limit), or left as it was.  (flushDue)              *)
LEMMA DispatchFlushes ==
  ASSUME DeliveryInv, NEW n \in Nat, NEW later \in 0..MaxLag, NEW b \in {"low", "soft", "hard"},
         Dispatch(n, later, b), open, subscription.on, b # "hard",
         NEW s \in Subscription, s = Enqueue(subscription)
  PROVE  /\ open' = open /\ now' \in Nat
         /\ \E update, batch, drop \in BOOLEAN : Flushed(s, update, batch, drop)
<1>1. /\ now' = now + later /\ now' \in Nat
  BY DeliveryAssumption DEF Dispatch, DeliveryInv, Typed
<1>2. PICK at \in Nat : now' = at
  BY <1>1
<1> DEFINE drop == b = "soft"
           update == CandlesDue(s, tier)
           batch == TradesDue(s, tier, drop)
           candled == FlushCandles(s, tier)
<1>3. /\ subscription' = FlushTrades(candled, tier, drop)
      /\ finals' = IF update THEN finals \o s.finals ELSE finals
      /\ told' = IF update /\ s.latest # NoCandle THEN s.latest ELSE told
      /\ trades' = IF batch THEN trades \o s.trades ELSE trades
      /\ open' = open
  BY DEF Dispatch
<1>4. << >> \in Seq(Candle) /\ << >> \in Seq(Nat)
  BY EmptySeq
<1>5. /\ update \in BOOLEAN /\ batch \in BOOLEAN /\ drop \in BOOLEAN
      /\ update => s.interval # None
      /\ drop => ~batch
  BY DEF CandlesDue, TradesDue
<1>6. candled = IF update THEN [s EXCEPT !.finals = <<>>, !.latest = NoCandle, !.candleAt = at] ELSE s
  BY <1>2 DEF FlushCandles
<1>7. batch = TradesDue(candled, tier, drop) /\ candled \in Subscription
      /\ candled.on = s.on /\ candled.channels = s.channels /\ candled.interval = s.interval
      /\ candled.finals = (IF update THEN << >> ELSE s.finals)
      /\ candled.latest = (IF update THEN NoCandle ELSE s.latest)
      /\ candled.trades = s.trades
  <2> DEFINE r == [s EXCEPT !.finals = <<>>, !.latest = NoCandle, !.candleAt = at]
  <2>1. /\ r \in Subscription /\ r.on = s.on /\ r.channels = s.channels /\ r.interval = s.interval
        /\ r.finals = << >> /\ r.latest = NoCandle /\ r.trades = s.trades /\ r.tradeAt = s.tradeAt
    BY <1>4 DEF Subscription
  <2> HIDE DEF r
  <2>2. candled = IF update THEN r ELSE s
    BY <1>6 DEF r
  <2> HIDE DEF candled, update
  <2>3. candled.trades = s.trades /\ candled.tradeAt = s.tradeAt
    BY <2>1, <2>2
  <2>4. batch = TradesDue(candled, tier, drop)
    BY <2>3 DEF TradesDue
  <2> QED
    BY <2>1, <2>2, <2>4
<1>8. subscription' = CASE drop -> [candled EXCEPT !.trades = <<>>]
                        [] batch -> [candled EXCEPT !.trades = <<>>, !.tradeAt = at]
                        [] OTHER -> candled
  <2> HIDE DEF candled, batch, drop
  <2> QED
    BY <1>2, <1>3, <1>7 DEF FlushTrades
<1> HIDE DEF candled, batch, drop, update
<1>9. /\ subscription' \in Subscription
      /\ subscription'.on = s.on /\ subscription'.channels = s.channels
      /\ subscription'.interval = s.interval
      /\ subscription'.finals = candled.finals
      /\ subscription'.latest = candled.latest
      /\ subscription'.trades = IF drop \/ batch THEN << >> ELSE s.trades
  <2>1. CASE drop
    <3>1. subscription' = [candled EXCEPT !.trades = <<>>]
      BY <1>5, <1>8, <2>1
    <3> QED
      BY <1>4, <1>7, <2>1, <3>1 DEF Subscription
  <2>2. CASE ~drop /\ batch
    <3>1. subscription' = [candled EXCEPT !.trades = <<>>, !.tradeAt = at]
      BY <1>5, <1>8, <2>2
    <3> QED
      BY <1>4, <1>7, <2>2, <3>1 DEF Subscription
  <2>3. CASE ~drop /\ ~batch
    <3>1. subscription' = candled
      BY <1>5, <1>8, <2>3
    <3> QED
      BY <1>7, <2>3, <3>1
  <2> QED
    BY <1>5, <2>1, <2>2, <2>3
<1>10. Flushed(s, update, batch, drop)
  BY <1>3, <1>5, <1>7, <1>9 DEF Flushed
<1> QED
  BY <1>1, <1>3, <1>5, <1>10

(* What was sent, what waited and what a tick adds, joined in any order.    *)
LEMMA JoinedInAnyOrder ==
  ASSUME NEW S, NEW a \in Seq(S), NEW b \in Seq(S), NEW c \in Seq(S)
  PROVE  (a \o b) \o c = a \o (b \o c)
  BY ConcatAssociative

(* A tick dispatched to a connection that follows an interval.             *)
LEMMA SentOrWaiting ==
  ASSUME DeliveryInv, NEW n \in Nat, Tick(n), since' = since, open' = open,
         NEW s, Queued(s, n), NEW update \in BOOLEAN, NEW batch \in BOOLEAN, NEW drop \in BOOLEAN,
         Flushed(s, update, batch, drop), Follows'
  PROVE  LET i == subscription'.interval IN
         /\ i \in Interval
         /\ finals' \o subscription'.finals
              = Newest(candles'[i].closed, Len(candles'[i].closed) - since'.closed)
         /\ since'.closed <= Len(candles'[i].closed)
<1> DEFINE i == subscription'.interval
<1>1. /\ i = s.interval /\ i = subscription.interval /\ i \in Interval /\ Follows /\ i # None
      /\ EngineSound /\ since.closed \in Nat
      /\ finals \in Seq(Candle) /\ subscription.finals \in Seq(Candle)
  BY DEF Flushed, Queued, Follows, Subscription, DeliveryInv, Typed
<1> HIDE DEF i
<1>2. PICK cs \in Seq(Candle), ds \in Seq(Candle), m \in Nat :
         /\ candles[i].closed = cs /\ candles'[i].closed = ds /\ since.closed = m
         /\ Len(cs) <= Len(ds) /\ \A k \in 1..Len(cs) : ds[k] = cs[k]
  BY <1>1, ClosedGrows
<1>3. Len(cs) \in Nat /\ Len(ds) \in Nat /\ m <= Len(cs) /\ m \in 0..Len(cs) /\ m <= Len(ds)
  BY <1>1, <1>2, LenProperties DEF DeliveryInv
<1> DEFINE new == Newest(ds, Len(ds) - Len(cs))
           old == Newest(cs, Len(cs) - m)
<1>4. new \in Seq(Candle) /\ old \in Seq(Candle) /\ old \o new = Newest(ds, Len(ds) - m)
  BY <1>2, <1>3, NewestGrows, ZenonT(40)
<1>5. finals \o subscription.finals = old
  BY <1>1, <1>2 DEF DeliveryInv, FinalsDeliveredOnce
<1>6. s.finals = subscription.finals \o new /\ s.finals \in Seq(Candle)
  BY <1>1, <1>2 DEF Queued, Subscription
<1> HIDE DEF new, old
<1>7. finals \o s.finals = old \o new
  <2>1. PICK fs \in Seq(Candle), ps \in Seq(Candle) : finals = fs /\ subscription.finals = ps
    BY <1>1
  <2>2. new \in Seq(Candle) /\ fs \in Seq(Candle) /\ ps \in Seq(Candle)
    BY <1>4, <2>1
  <2>3. (fs \o ps) \o new = fs \o (ps \o new)
    BY ONLY <2>2, JoinedInAnyOrder, SMTT(40)
  <2> QED
    BY <1>5, <1>6, <2>1, <2>3
<1>8. finals' \o subscription'.finals = finals \o s.finals
  <2>1. finals \o s.finals \in Seq(Candle)
    BY <1>1, <1>6, ConcatProperties
  <2>2. (finals \o s.finals) \o << >> = finals \o s.finals
    BY <2>1, ConcatEmptySeq
  <2> QED
    BY <2>2 DEF Flushed
<1> QED
  BY <1>1, <1>2, <1>3, <1>4, <1>7, <1>8 DEF i

(* A tick replaces the version that waits by the newest, and a flush tells *)
(* the version that waits: so the newest is never lost.  (the active slot) *)
LEMMA NewestToldOrWaiting ==
  ASSUME DeliveryInv, NEW n \in Nat, Tick(n), since' = since, open' = open,
         NEW s, Queued(s, n), NEW update \in BOOLEAN, NEW batch \in BOOLEAN, NEW drop \in BOOLEAN,
         Flushed(s, update, batch, drop)
  PROVE  NewestVersionSurvives'
<1> DEFINE i == subscription'.interval
           now2 == candles'[i].active
<1> SUFFICES ASSUME Follows', now2 # NoCandle, now2.lastTradeId >= since'.trade
             PROVE  subscription'.latest = now2 \/ (subscription'.latest = NoCandle /\ told' = now2)
  BY DEF NewestVersionSurvives
<1>1. /\ i = s.interval /\ i = subscription.interval /\ i \in Interval /\ Follows /\ i # None
      /\ EngineSound
  BY DEF Flushed, Queued, Follows, Subscription, DeliveryInv, Typed
<1>2. Advanced(candles[i], candles'[i], n)
  BY <1>1, EngineTicks
<1>3. s.latest = IF n > 0 THEN now2 ELSE subscription.latest
  BY <1>1 DEF Queued
<1>4. /\ subscription'.latest = IF update THEN NoCandle ELSE s.latest
      /\ told' = IF update /\ s.latest # NoCandle THEN s.latest ELSE told
  BY DEF Flushed
<1>5. CASE n > 0
  BY <1>3, <1>4, <1>5
<1>6. CASE n = 0
  <2>1. candles[i].active = now2
    BY <1>2, <1>6 DEF Advanced
  <2>2. subscription.latest = now2 \/ (subscription.latest = NoCandle /\ told = now2)
    BY <1>1, <2>1 DEF DeliveryInv, NewestVersionSurvives
  <2> QED
    BY <1>3, <1>4, <1>6, <2>2
<1> QED
  BY <1>5, <1>6

(* The ids of a tick follow every id that was sent or waits, and a flush   *)
(* moves those that wait behind those sent, in order.  (enqueue, flushDue) *)
LEMMA TradesStayInOrder ==
  ASSUME DeliveryInv, NEW n \in Nat, Tick(n),
         NEW s, Queued(s, n), NEW update \in BOOLEAN, NEW batch \in BOOLEAN, NEW drop \in BOOLEAN,
         Flushed(s, update, batch, drop)
  PROVE  /\ trades' \in Seq(Nat)
         /\ Ascending(trades' \o subscription'.trades, nextTradeId')
<1> DEFINE ids == [k \in 1..n |-> nextTradeId + k - 1]
           seen == trades \o subscription.trades
<1>1. /\ trades \in Seq(Nat) /\ subscription.trades \in Seq(Nat) /\ nextTradeId \in Nat
      /\ Ascending(seen, nextTradeId) /\ nextTradeId' = nextTradeId + n /\ s.trades \in Seq(Nat)
  BY EngineTicks DEF DeliveryInv, Typed, Subscription, EngineSound, Queued
<1>2. seen \in Seq(Nat)
  BY <1>1, ConcatProperties
<1>3. ids \in Seq(Nat)
  <2>1. \A k \in 1..n : nextTradeId + k - 1 \in Nat
    BY <1>1
  <2> QED
    BY <2>1
<1>4. Ascending(seen \o ids, nextTradeId + n) /\ Ascending(seen, nextTradeId + n)
  <2> HIDE DEF seen
  <2> QED
    BY <1>1, <1>2, TradesKeepOrder
<1>5. s.trades = subscription.trades \/ s.trades = subscription.trades \o ids
  BY DEF Queued
<1> HIDE DEF ids
<1>6. seen \o ids = trades \o (subscription.trades \o ids)
  <2>1. PICK ts \in Seq(Nat), ps \in Seq(Nat) : trades = ts /\ subscription.trades = ps
    BY <1>1
  <2>2. (ts \o ps) \o ids = ts \o (ps \o ids)
    BY <1>3, <2>1, JoinedInAnyOrder
  <2> QED
    BY <2>1, <2>2
<1>7. Ascending(trades \o s.trades, nextTradeId') /\ trades \o s.trades \in Seq(Nat)
  <2>1. trades \o s.trades \in Seq(Nat)
    BY <1>1, ConcatProperties
  <2> QED
    BY <1>1, <1>4, <1>5, <1>6, <2>1
<1>8. Ascending(trades, nextTradeId')
  BY <1>1, <1>7, DroppingKeepsOrder
<1>9. trades \o << >> = trades /\ (trades \o s.trades) \o << >> = trades \o s.trades
  BY <1>1, <1>7, ConcatEmptySeq
<1>10. /\ subscription'.trades = IF drop \/ batch THEN << >> ELSE s.trades
       /\ trades' = IF batch THEN trades \o s.trades ELSE trades
  BY DEF Flushed
<1>11. CASE batch
  BY <1>7, <1>9, <1>10, <1>11
<1>12. CASE ~batch /\ drop
  BY <1>1, <1>8, <1>9, <1>10, <1>12
<1>13. CASE ~batch /\ ~drop
  BY <1>1, <1>7, <1>10, <1>13
<1> QED
  BY <1>11, <1>12, <1>13

(* A tick that reaches nobody, or that closes the socket, sends nothing    *)
(* and leaves the queues; the candles go on without the connection.        *)
LEMMA UnsentTickKeeps ==
  ASSUME DeliveryInv, NEW n \in Nat, Tick(n), now' \in Nat, ~Follows', open' \in BOOLEAN,
         UNCHANGED <<tier, since, subscription, finals, told, trades>>
  PROVE  DeliveryInv'
<1>1. EngineSound' /\ nextTradeId' = nextTradeId + n /\ nextTradeId \in Nat
  BY EngineTicks DEF DeliveryInv, EngineSound
<1>2. EngineTypeOK'
  BY <1>1, SoundIsTyped, PTL
<1>3. Typed'
  BY <1>2 DEF DeliveryInv, Typed
<1>4. Ascending(trades \o subscription.trades, nextTradeId)'
  <2>0. trades \in Seq(Nat) /\ subscription.trades \in Seq(Nat)
    BY DEF DeliveryInv, Typed, Subscription
  <2>1. PICK q \in Seq(Nat), id \in Nat :
             q = trades \o subscription.trades /\ nextTradeId = id /\ Ascending(q, id)
    BY <1>1, <2>0, ConcatProperties DEF DeliveryInv
  <2>3. Ascending(q, id + n)
    BY <2>1, TradesKeepOrder
  <2> QED
    BY <1>1, <2>1, <2>3
<1> QED
  BY <1>1, <1>3, <1>4 DEF DeliveryInv, FinalsDeliveredOnce, NewestVersionSurvives

(* A tick dispatched to an open connection: what it sends and what waits   *)
(* add up to what they were and what the tick made (dispatchTick).         *)
LEMMA SentTickKeeps ==
  ASSUME DeliveryInv, NEW n \in Nat, Tick(n), now' \in Nat, subscription.on,
         UNCHANGED <<tier, since, open>>,
         NEW s, Queued(s, n), NEW update \in BOOLEAN, NEW batch \in BOOLEAN, NEW drop \in BOOLEAN,
         Flushed(s, update, batch, drop)
  PROVE  DeliveryInv'
<1>1. EngineSound'
  BY EngineTicks DEF DeliveryInv
<1>2. EngineTypeOK'
  BY <1>1, SoundIsTyped, PTL
<1>3. trades' \in Seq(Nat) /\ Ascending(trades' \o subscription'.trades, nextTradeId')
  BY TradesStayInOrder
<1>4. /\ s \in Subscription /\ s.on /\ subscription'.on
      /\ subscription'.interval = subscription.interval
      /\ subscription'.channels = subscription.channels
      /\ subscription' \in Subscription
  BY DEF Queued, Flushed
<1>5. finals' \in Seq(Candle)
  <2>1. finals \in Seq(Candle) /\ s.finals \in Seq(Candle)
    BY <1>4 DEF DeliveryInv, Typed, Subscription
  <2>2. finals \o s.finals \in Seq(Candle)
    BY <2>1, ConcatProperties
  <2> QED
    BY <2>1, <2>2 DEF Flushed
<1>6. told' \in Candle \cup {NoCandle}
  BY <1>4 DEF DeliveryInv, Typed, Flushed, Subscription
<1>7. Typed'
  BY <1>2, <1>3, <1>4, <1>5, <1>6 DEF DeliveryInv, Typed
<1>8. FinalsDeliveredOnce' /\ (Follows => since.closed <= Len(candles[subscription.interval].closed))'
  <2>1. CASE Follows'
    <3>1. LET i == subscription'.interval IN
            /\ i \in Interval
            /\ finals' \o subscription'.finals
                 = Newest(candles'[i].closed, Len(candles'[i].closed) - since'.closed)
            /\ since'.closed <= Len(candles'[i].closed)
      BY <2>1, SentOrWaiting
    <3> QED
      BY <3>1 DEF FinalsDeliveredOnce
  <2>2. CASE ~Follows'
    BY <2>2 DEF FinalsDeliveredOnce
  <2> QED
    BY <2>1, <2>2
<1>9. NewestVersionSurvives'
  BY NewestToldOrWaiting
<1> QED
  BY <1>1, <1>3, <1>7, <1>8, <1>9 DEF DeliveryInv

(* One tick of the market, whatever the connection's state.                *)
LEMMA DispatchKeeps ==
  ASSUME DeliveryInv, NEW n \in TradesPerTick, NEW later \in 0..MaxLag,
         NEW b \in {"low", "soft", "hard"}, Dispatch(n, later, b)
  PROVE  DeliveryInv'
<1>1. n \in Nat /\ Tick(n) /\ UNCHANGED <<tier, since>> /\ now' = now + later
  BY EngineAssumption DEF Dispatch
<1>2. now' \in Nat /\ open \in BOOLEAN
  BY <1>1, DeliveryAssumption DEF DeliveryInv, Typed
<1>3. CASE ~open \/ ~subscription.on
  <2>1. UNCHANGED <<subscription, open, finals, told, trades>>
    BY <1>3 DEF Dispatch
  <2>2. ~Follows'
    BY <1>3, <2>1 DEF Follows
  <2> QED
    BY <1>1, <1>2, <2>1, <2>2, UnsentTickKeeps
<1>4. CASE open /\ subscription.on /\ b = "hard"
  <2>1. open' = FALSE /\ UNCHANGED <<subscription, finals, told, trades>>
    BY <1>4 DEF Dispatch
  <2>2. ~Follows'
    BY <2>1 DEF Follows
  <2> QED
    BY <1>1, <1>2, <2>1, <2>2, UnsentTickKeeps
<1>5. CASE open /\ subscription.on /\ b # "hard"
  <2>1. Queued(Enqueue(subscription), n)
    BY <1>1, EnqueueQueues
  <2>2. PICK s : s = Enqueue(subscription) /\ Queued(s, n)
    BY <2>1
  <2>3. s \in Subscription
    BY <2>2 DEF Queued
  <2>4. /\ open' = open
        /\ \E update, batch, drop \in BOOLEAN : Flushed(s, update, batch, drop)
    BY <1>1, <1>5, <2>2, <2>3, DispatchFlushes
  <2>5. PICK update \in BOOLEAN, batch \in BOOLEAN, drop \in BOOLEAN : Flushed(s, update, batch, drop)
    BY <2>4
  <2> QED
    BY <1>1, <1>2, <1>5, <2>2, <2>4, <2>5, SentTickKeeps
<1> QED
  BY <1>2, <1>3, <1>4, <1>5

------------------------------------------------------------------------------
(* The theorems.                                                           *)

(* A connection opens with nothing made, nothing sent, nothing waiting.    *)
LEMMA DeliveryStarts == Init => DeliveryInv
<1> SUFFICES ASSUME Init PROVE DeliveryInv
  OBVIOUS
<1>1. EngineSound /\ EngineTypeOK
  BY EngineStarts, SoundIsTyped DEF Init
<1>2. << >> \in Seq(Nat) /\ << >> \in Seq(Candle) /\ << >> \o << >> = << >> /\ Len(<< >>) = 0
  BY EmptySeq
<1>3. Typed
  BY <1>1, <1>2, NoSubscriptionIsOne, DeliveryAssumption DEF Init, Typed, Epoch
<1>4. ~Follows
  BY NoSubscriptionIsOne DEF Init, Follows
<1>5. Ascending(trades \o subscription.trades, nextTradeId)
  BY <1>2, NoSubscriptionIsOne DEF Init, Ascending
<1> QED
  BY <1>1, <1>3, <1>4, <1>5 DEF DeliveryInv, FinalsDeliveredOnce, NewestVersionSurvives

(* What the engine made, what one connection was sent and what waits for   *)
(* it add up after every tick, frame of the client, change of tier and     *)
(* reconnection.  (CandleEngine, MarketDispatcher, SymbolSubscription)     *)
THEOREM DeliveryInvariant == Spec => []DeliveryInv
<1>1. Init => DeliveryInv
  BY DeliveryStarts
<1>2. DeliveryInv /\ [Next]_vars => DeliveryInv'
  <2> SUFFICES ASSUME DeliveryInv, [Next]_vars PROVE DeliveryInv'
    OBVIOUS
  <2>1. CASE \E n \in TradesPerTick, later \in 0..MaxLag, b \in {"low", "soft", "hard"} :
                Dispatch(n, later, b)
    BY <2>1, DispatchKeeps
  <2>2. CASE \E channels \in SUBSET Channel \ {{}}, i \in Interval : Subscribe(channels, i)
    BY <2>2, SubscribeKeeps
  <2>3. CASE Unsubscribe
    BY <2>3, OtherCommandsKeep
  <2>4. CASE \E i \in Interval : SetInterval(i)
    BY <2>4, OtherCommandsKeep
  <2>5. CASE \E t \in Tier : ChangeTier(t)
    BY <2>5, OtherCommandsKeep
  <2>6. CASE Reconnect
    BY <2>6, ReconnectKeeps
  <2>7. CASE UNCHANGED vars
    BY <2>7 DEF vars, engineVars, deliveryVars, DeliveryInv, Typed, EngineSound, EngineTypeOK,
                FinalsDeliveredOnce, NewestVersionSurvives, Follows
  <2> QED
    BY <2>1, <2>2, <2>3, <2>4, <2>5, <2>6, <2>7 DEF Next
<1> QED
  BY <1>1, <1>2, PTL DEF Spec

(* In every reachable state each interval's candles, closed and open,      *)
(* partition the trades of the tape from its first to its last: whatever   *)
(* the rate, the interval and the length of the ring.  (CandleEngine)      *)
THEOREM CandlesPartition == Spec => []CandlesPartitionTrades
<1>1. DeliveryInv => CandlesPartitionTrades
  BY SoundPartitions DEF DeliveryInv
<1> QED
  BY <1>1, DeliveryInvariant, PTL

(* In every reachable state the ring answers the REST routes with the      *)
(* newest closed candles in order, though it has wrapped.  (recent)        *)
THEOREM RestIsNewest == Spec => []RestAnswersNewest
<1>1. DeliveryInv => RestAnswersNewest
  BY SoundAnswers DEF DeliveryInv
<1> QED
  BY <1>1, DeliveryInvariant, PTL

(* A connection is sent every closed candle of its interval exactly once   *)
(* and in order, and every trade at most once and in order, for any tiers, *)
(* cadences and lag.  (enqueue and flushDue)                               *)
THEOREM DeliveredOnce == Spec => []SentOnceInOrder
<1>1. DeliveryInv => SentOnceInOrder
  <2> SUFFICES ASSUME DeliveryInv PROVE SentOnceInOrder
    OBVIOUS
  <2>1. TypeOK
    BY DEF DeliveryInv, Typed, TypeOK, Subscription
  <2>2. TradesInOrder
    BY DEF DeliveryInv, Ascending, TradesInOrder
  <2> QED
    BY <2>1, <2>2 DEF DeliveryInv, SentOnceInOrder
<1> QED
  BY <1>1, DeliveryInvariant, PTL

(* However slow its tier, a connection was told the open candle as it is,  *)
(* or the newest version of it waits.  (flushDue: the active slot)         *)
THEOREM NewestVersionKept == Spec => []NewestVersionSurvives
<1>1. DeliveryInv => NewestVersionSurvives
  BY DEF DeliveryInv
<1> QED
  BY <1>1, DeliveryInvariant, PTL
================================================================================
