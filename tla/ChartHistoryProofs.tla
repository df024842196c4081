-------------------------- MODULE ChartHistoryProofs ---------------------------
(***************************************************************************)
(* The candle history on the client, for every set of intervals and any     *)
(* number of trades, refreshes, lost sessions and failed requests: what the *)
(* chart holds is of one series and one interval, is with what is coming    *)
(* the server's own from where the last answer begins, and goes back on no  *)
(* candle.  The invariant follows every candle from the server's series     *)
(* through its queues and the socket to the client's buffer and chart.      *)
(***************************************************************************)
EXTENDS ChartHistory, SequenceTheorems, FiniteSetTheorems, WellFoundedInduction, TLAPS

(* Every set of natural numbers that is not empty has a least element.     *)
LEMMA LeastNumber ==
  ASSUME NEW T, T \subseteq Nat, T # {}
  PROVE  \E x \in T : \A y \in T : x <= y
<1> DEFINE Below == {pair \in Nat \X Nat : pair[1] < pair[2]}
<1>1. IsWellFoundedOn(Below, Nat)
  BY NatLessThanWellFounded DEF OpToRel
<1>2. PICK x \in T : \A y \in T : <<y, x>> \notin Below
  <2> HIDE DEF Below
  <2> QED
    BY <1>1, WFMin
<1>3. ASSUME NEW y \in T PROVE x <= y
  <2>1. x \in Nat /\ y \in Nat /\ <<y, x>> \notin Below
    <3> HIDE DEF Below
    <3> QED
      BY <1>2
  <2> QED
    BY <2>1
<1> QED
  BY <1>3

------------------------------------------------------------------------------
(* Versions of a candle are ordered, by lastTradeId and then final.        *)
Rank(c) == 2 * c.id + (IF c.final THEN 1 ELSE 0)

(* The rank orders the versions of a candle as isNewer does.                *)
LEMMA RankOrders ==
  ASSUME NEW c \in Candle, NEW d \in Candle
  PROVE  /\ Rank(c) \in Nat /\ Rank(d) \in Nat
         /\ IsNewer(c, d) <=> Rank(c) > Rank(d)
         /\ Rank(c) = Rank(d) /\ c.interval = d.interval /\ c.start = d.start => c = d
<1>1. PICK m \in Nat, n \in Nat : c.id = m /\ d.id = n
  BY DEF Candle
<1>2. c.final \in BOOLEAN /\ d.final \in BOOLEAN
  BY DEF Candle
<1>3. c = [interval |-> c.interval, start |-> c.start, id |-> c.id, final |-> c.final]
      /\ d = [interval |-> d.interval, start |-> d.start, id |-> d.id, final |-> d.final]
  BY DEF Candle
<1>4. /\ Rank(c) = IF c.final THEN 2 * m + 1 ELSE 2 * m
      /\ Rank(d) = IF d.final THEN 2 * n + 1 ELSE 2 * n
  BY <1>1 DEF Rank
<1>5. IsNewer(c, d) <=> m > n \/ (m = n /\ c.final /\ ~d.final)
  BY <1>1 DEF IsNewer
<1>6. /\ Rank(c) \in Nat /\ Rank(d) \in Nat
      /\ IsNewer(c, d) <=> Rank(c) > Rank(d)
  <2>1. CASE c.final
    BY <1>4, <1>5, <2>1
  <2>2. CASE ~c.final
    BY <1>4, <1>5, <2>2
  <2> QED
    BY <2>1, <2>2
<1>7. Rank(c) = Rank(d) => c.id = d.id /\ c.final = d.final
  <2>1. 2 * m # 2 * n + 1 /\ 2 * m + 1 # 2 * n
    OBVIOUS
  <2>2. Rank(c) = Rank(d) => m = n
    BY <1>4, <2>1
  <2>3. Rank(c) = Rank(d) => (c.final <=> d.final)
    BY <1>4, <2>1
  <2> QED
    BY <1>1, <1>2, <2>2, <2>3
<1> QED
  BY <1>3, <1>6, <1>7

(* What a series keeps of a candle: its last trade and whether it ended.   *)
Version == [id : Nat, final : BOOLEAN]

(* c is a version of a candle of the series s, of interval i, no newer than *)
(* the server's own.                                                        *)
Known(c, i, s) ==
    /\ c \in Candle /\ c.interval = i
    /\ c.start \in 1..Len(s)
    /\ ~IsNewer(c, At(i, s, c.start))

(* Whatever candle is in cs, that version or a newer one is in ds.         *)
Covers(cs, ds) == \A c \in cs : \E d \in ds : d.start = c.start /\ ~IsNewer(c, d)

(* The server's own candle is known, and starts at its place in the series. *)
LEMMA AtIsKnown ==
  ASSUME NEW i \in Interval, NEW s \in Seq(Version), NEW k \in 1..Len(s)
  PROVE  At(i, s, k) \in Candle /\ Known(At(i, s, k), i, s) /\ At(i, s, k).start = k
<1>1. s[k] \in Version /\ k \in Nat
  BY LenProperties, ElementOfSeq
<1>2. /\ At(i, s, k) \in Candle /\ At(i, s, k).start = k /\ At(i, s, k).interval = i
  BY <1>1 DEF At, Candle, Version
<1> QED
  BY <1>2, RankOrders DEF Known

(* The server's own version is the newest there is.                        *)
LEMMA NewestIsCurrent ==
  ASSUME NEW i \in Interval, NEW s \in Seq(Version), NEW c, Known(c, i, s),
         NEW k, k = c.start, ~IsNewer(At(i, s, k), c)
  PROVE  c = At(i, s, k)
<1>1. c \in Candle /\ At(i, s, k) \in Candle /\ At(i, s, k).start = k /\ At(i, s, k).interval = i
  BY AtIsKnown DEF Known
<1>2. Rank(c) = Rank(At(i, s, k))
  BY <1>1, RankOrders DEF Known
<1> QED
  BY <1>1, <1>2, RankOrders DEF Known

(* Of the candles of a bucket the merge keeps one, as new as any.          *)
LEMMA MergeCovers ==
  ASSUME NEW i \in Interval, NEW s \in Seq(Version), NEW cs, \A c \in cs : Known(c, i, s)
  PROVE  Covers(cs, MergeCandles(cs))
<1> SUFFICES ASSUME NEW c \in cs
             PROVE  \E e \in MergeCandles(cs) : e.start = c.start /\ ~IsNewer(c, e)
  BY DEF Covers
<1> DEFINE top == Rank(At(i, s, c.start))
           alike == {d \in cs : d.start = c.start}
           below == {top - Rank(d) : d \in alike}
<1>1. At(i, s, c.start) \in Candle /\ top \in Nat
  BY AtIsKnown, RankOrders DEF Known
<1>2. ASSUME NEW d \in alike PROVE d \in Candle /\ Rank(d) \in Nat /\ Rank(d) <= top
  BY <1>1, RankOrders DEF Known
<1>3. below \subseteq Nat /\ below # {}
  BY <1>1, <1>2
<1>4. PICK n \in below : \A m \in below : n <= m
  BY <1>3, LeastNumber
<1>5. PICK e \in alike : n = top - Rank(e)
  BY <1>4
<1>6. ASSUME NEW d \in alike PROVE ~IsNewer(d, e)
  <2>1. top - Rank(e) <= top - Rank(d)
    BY <1>4, <1>5
  <2>2. Rank(d) <= Rank(e) /\ d \in Candle /\ e \in Candle
    BY <1>1, <1>2, <2>1
  <2> QED
    BY <2>2, RankOrders
<1>7. e \in MergeCandles(cs)
  BY <1>6 DEF MergeCandles
<1> QED
  BY <1>6, <1>7

(* What the merge returns has one candle for each start (mergeCandles keys  *)
(* its map by start).                                                       *)
LEMMA MergeIsSeries ==
  ASSUME NEW i \in Interval, NEW cs \in SUBSET Candle, \A c \in cs : c.interval = i
  PROVE  SeriesOf(MergeCandles(cs), i)
<1>1. ASSUME NEW c \in MergeCandles(cs), NEW d \in MergeCandles(cs), c.start = d.start
      PROVE  c = d
  <2>1. c \in Candle /\ d \in Candle /\ ~IsNewer(c, d) /\ ~IsNewer(d, c) /\ c.interval = d.interval
    BY <1>1 DEF MergeCandles
  <2>2. Rank(c) = Rank(d)
    BY <2>1, RankOrders
  <2> QED
    BY <1>1, <2>1, <2>2, RankOrders
<1> QED
  BY <1>1 DEF SeriesOf, MergeCandles

(* Newer versions take the place of older ones and lose none.              *)
Newer(cs, held0) ==
    {c \in MergeCandles(cs) : \A d \in held0 : d.start = c.start => IsNewer(c, d)}

(* Newer versions take the place of older ones and lose none (the merge of  *)
(* what is held with a frame).                                              *)
LEMMA UpdateCovers ==
  ASSUME NEW i \in Interval, NEW s \in Seq(Version),
         NEW cs, \A c \in cs : Known(c, i, s), NEW old, \A c \in old : Known(c, i, s),
         SeriesOf(old, i)
  PROVE  LET new == Updated(old, Newer(cs, old))
         IN  /\ new \subseteq old \cup cs
             /\ SeriesOf(new, i)
             /\ Covers(old, new) /\ Covers(cs, new)
<1> DEFINE update == Newer(cs, old)
           new == Updated(old, update)
<1>0. cs \subseteq Candle /\ old \subseteq Candle /\ \A c \in cs \cup old : c.interval = i
  BY DEF Known
<1>1. update \subseteq MergeCandles(cs) /\ update \subseteq cs
  BY DEF Newer, MergeCandles
<1>2. new \subseteq old \cup cs
  BY <1>1 DEF Updated
<1>3. SeriesOf(new, i)
  <2>1. SeriesOf(update, i)
    BY <1>0, <1>1, MergeIsSeries DEF SeriesOf
  <2> HIDE DEF update
  <2> QED
    BY <2>1 DEF SeriesOf, Updated
<1>4. ASSUME NEW c \in old PROVE \E d \in new : d.start = c.start /\ ~IsNewer(c, d)
  <2>1. CASE \A d \in update : d.start # c.start
    <3>1. c \in new
      BY <2>1 DEF Updated
    <3> QED
      BY <1>0, <3>1, RankOrders
  <2>2. ASSUME NEW d \in update, d.start = c.start
        PROVE  \E e \in new : e.start = c.start /\ ~IsNewer(c, e)
    <3>1. IsNewer(d, c) /\ d \in Candle /\ c \in Candle /\ d \in new
      BY <1>0, <1>1, <2>2 DEF Newer, Updated
    <3> QED
      BY <2>2, <3>1, RankOrders
  <2> HIDE DEF new, update
  <2> QED
    BY <2>1, <2>2
<1>5. ASSUME NEW c \in cs PROVE \E d \in new : d.start = c.start /\ ~IsNewer(c, d)
  <2>1. PICK e \in MergeCandles(cs) : e.start = c.start /\ ~IsNewer(c, e)
    BY MergeCovers DEF Covers
  <2>2. e \in cs
    BY DEF MergeCandles
  <2>3. CASE e \in update
    BY <2>1, <2>3 DEF Updated
  <2>4. ASSUME NEW h \in old, h.start = e.start, ~IsNewer(e, h)
        PROVE  \E d \in new : d.start = c.start /\ ~IsNewer(c, d)
    <3>1. PICK d \in new : d.start = h.start /\ ~IsNewer(h, d)
      BY <1>4
    <3>2. c \in Candle /\ e \in Candle /\ h \in Candle /\ d \in Candle
      BY <1>0, <1>2, <2>2
    <3>3. ~IsNewer(c, d)
      BY <2>1, <2>4, <3>1, <3>2, RankOrders
    <3> QED
      BY <2>1, <2>4, <3>1, <3>3
  <2> QED
    BY <2>3, <2>4 DEF Newer
<1> HIDE DEF update
<1> QED
  BY <1>2, <1>3, <1>4, <1>5 DEF Covers, update

(* What covers the server's own versions has them.                         *)
LEMMA CoveringHasCurrent ==
  ASSUME NEW i \in Interval, NEW s \in Seq(Version), NEW cs, NEW ds, Covers(cs, ds),
         \A d \in ds : Known(d, i, s), NEW k \in 1..Len(s), At(i, s, k) \in cs
  PROVE  At(i, s, k) \in ds
<1>1. PICK d \in ds : d.start = At(i, s, k).start /\ ~IsNewer(At(i, s, k), d)
  BY DEF Covers
<1>2. d.start = k
  BY <1>1, AtIsKnown
<1> QED
  BY <1>1, <1>2, NewestIsCurrent

------------------------------------------------------------------------------
(* What the end of an interval does to a series: its last candle is final  *)
(* (closeThrough).                                                         *)
LEMMA ClosedSeries ==
  ASSUME NEW s \in Seq(Version)
  PROVE  /\ Closed(s) \in Seq(Version) /\ Len(Closed(s)) = Len(s)
         /\ \A k \in 1..Len(s) :
               /\ Closed(s)[k].id = s[k].id
               /\ k < Len(s) => Closed(s)[k] = s[k]
               /\ k = Len(s) => Closed(s)[k].final
         /\ ~Open(Closed(s))
<1>1. Len(s) \in Nat /\ \A k \in 1..Len(s) : s[k] \in Version
  BY LenProperties, ElementOfSeq
<1>2. s # << >> => Len(s) \in 1..Len(s)
  BY <1>1, EmptySeq
<1>3. CASE Open(s)
  <2> DEFINE e == [s[Len(s)] EXCEPT !.final = TRUE]
  <2>1. Closed(s) = [s EXCEPT ![Len(s)] = e]
    BY <1>3 DEF Closed
  <2>2. s # << >> /\ Len(s) \in 1..Len(s) /\ s[Len(s)] \in Version
    BY <1>1, <1>2, <1>3 DEF Open
  <2>3. e \in Version /\ e.id = s[Len(s)].id /\ e.final
    BY <2>2 DEF Version
  <2> HIDE DEF e
  <2>4. Closed(s) \in Seq(Version) /\ Len(Closed(s)) = Len(s)
        /\ \A k \in 1..Len(s) : Closed(s)[k] = IF k = Len(s) THEN e ELSE s[k]
    BY <1>1, <2>1, <2>2, <2>3, ExceptSeq
  <2>5. Closed(s)[Len(s)] = e
    BY <2>2, <2>4
  <2>6. ~Open(Closed(s))
    BY <2>3, <2>4, <2>5 DEF Open
  <2>7. ASSUME NEW k \in 1..Len(s)
        PROVE  /\ Closed(s)[k].id = s[k].id
               /\ (k < Len(s) => Closed(s)[k] = s[k])
               /\ (k = Len(s) => Closed(s)[k].final)
    <3>1. CASE k = Len(s)
      BY <1>1, <2>3, <2>5, <3>1
    <3>2. CASE k # Len(s)
      BY <2>4, <3>2
    <3> QED
      BY <3>1, <3>2
  <2> QED
    BY <2>4, <2>6, <2>7
<1>4. CASE ~Open(s)
  BY <1>1, <1>2, <1>4 DEF Closed, Open
<1> QED
  BY <1>3, <1>4

(* What a trade does to a series: it makes its last candle newer or starts  *)
(* the next.                                                                *)
LEMMA FoldedSeries ==
  ASSUME NEW s \in Seq(Version), NEW id \in Nat
  PROVE  LET t == Folded(s, id)
         IN  /\ t \in Seq(Version)
             /\ Len(t) = IF Open(s) THEN Len(s) ELSE Len(s) + 1
             /\ Len(t) \in 1..Len(t) /\ t[Len(t)] = [id |-> id, final |-> FALSE]
             /\ \A k \in 1..Len(s) : k < Len(t) => t[k] = s[k]
<1> DEFINE t == Folded(s, id)
<1>1. Len(s) \in Nat /\ \A k \in 1..Len(s) : s[k] \in Version
  BY LenProperties, ElementOfSeq
<1>2. CASE Open(s)
  <2>1. s # << >> /\ Len(s) \in 1..Len(s) /\ ~s[Len(s)].final
    BY <1>1, <1>2, EmptySeq DEF Open
  <2>2. t = [s EXCEPT ![Len(s)] = [s[Len(s)] EXCEPT !.id = id]]
    BY <1>2 DEF Folded
  <2>3. [s[Len(s)] EXCEPT !.id = id] = [id |-> id, final |-> FALSE]
        /\ [id |-> id, final |-> FALSE] \in Version
    <3>1. s[Len(s)] \in Version /\ s[Len(s)].final = FALSE
      BY <1>1, <2>1 DEF Version
    <3>2. ASSUME NEW r \in Version
          PROVE  [r EXCEPT !.id = id] = [id |-> id, final |-> r.final]
      BY DEF Version
    <3>3. [id |-> id, final |-> FALSE] \in Version
      BY DEF Version
    <3> QED
      BY <3>1, <3>2, <3>3
  <2>4. t \in Seq(Version) /\ Len(t) = Len(s)
        /\ \A k \in 1..Len(s) : t[k] = IF k = Len(s) THEN [id |-> id, final |-> FALSE] ELSE s[k]
    BY <1>1, <2>1, <2>2, <2>3, ExceptSeq
  <2> QED
    <3> HIDE DEF t
    <3>1. Len(t) = Len(s) /\ Len(t) \in 1..Len(t) /\ t[Len(t)] = [id |-> id, final |-> FALSE]
      BY <2>1, <2>4
    <3>2. \A k \in 1..Len(s) : k < Len(t) => t[k] = s[k]
      BY <1>1, <2>4, <3>1
    <3> QED
      BY <1>2, <2>4, <3>1, <3>2 DEF t
<1>3. CASE ~Open(s)
  <2>1. t = Append(s, [id |-> id, final |-> FALSE]) /\ [id |-> id, final |-> FALSE] \in Version
    BY <1>3 DEF Folded, Version
  <2>2. t \in Seq(Version) /\ Len(t) = Len(s) + 1 /\ t[Len(s) + 1] = [id |-> id, final |-> FALSE]
        /\ \A k \in 1..Len(s) : t[k] = s[k]
    BY <2>1, AppendProperties
  <2> QED
    BY <1>1, <1>3, <2>2
<1> QED
  BY <1>2, <1>3

(* Candles are final but the last, and made of trades there were.          *)
SeriesInv ==
    /\ lastTrade \in Nat
    /\ \A i \in Interval :
          /\ series[i] \in Seq(Version)
          /\ \A k \in 1..Len(series[i]) :
                series[i][k].id <= lastTrade /\ (k < Len(series[i]) => series[i][k].final)

(* A series only grows, and a tick changes its last candle or the one it   *)
(* ends.                                                                   *)
Ticked(i, ended, trades) ==
    /\ lastTrade' \in Nat /\ series'[i] \in Seq(Version)
    /\ \A k \in 1..Len(series'[i]) :
          series'[i][k].id <= lastTrade' /\ (k < Len(series'[i]) => series'[i][k].final)
    /\ Len(series[i]) \in Nat /\ Len(series'[i]) \in Nat /\ Len(series[i]) <= Len(series'[i])
    /\ \A k \in 1..Len(series[i]) :
          k \in 1..Len(series'[i]) /\ ~IsNewer(At(i, series[i], k), At(i, series'[i], k))
    /\ \A k \in 1..Len(series'[i]) :
          \/ k \in 1..Len(series[i]) /\ series'[i][k] = series[i][k]
          \/ trades /\ k = Len(series'[i])
          \/ i \in ended /\ k = Len(series[i])
    /\ trades => /\ Len(series'[i]) \in 1..Len(series'[i])
                 /\ ~series'[i][Len(series'[i])].final
    /\ trades /\ i \notin ended /\ Open(series[i]) => Len(series'[i]) = Len(series[i])
    /\ i \in ended => /\ Len(series[i]) \in 1..Len(series[i])
                      /\ series'[i][Len(series[i])] = Closed(series[i])[Len(series[i])]
                      /\ series'[i][Len(series[i])].final

(* A tick of the engine takes every series from one that is as it should be *)
(* to another (CandleAggregator.apply and closeThrough).                    *)
LEMMA TickSeries ==
  ASSUME SeriesInv, NEW ended \in SUBSET Interval, NEW trades \in BOOLEAN, NEW flush \in BOOLEAN,
         Tick(ended, trades, flush), NEW i \in Interval
  PROVE  Ticked(i, ended, trades)
<1> USE DEF Ticked
<1> DEFINE s == series[i]
           c == IF i \in ended THEN Closed(s) ELSE s
           id == lastTrade + 1
           t == series'[i]
<1>1. /\ t = IF trades THEN Folded(c, id) ELSE c
      /\ lastTrade' = IF trades THEN id ELSE lastTrade
      /\ i \in ended => Open(s)
  BY DEF Tick
<1>2. /\ lastTrade \in Nat /\ id \in Nat /\ s \in Seq(Version) /\ Len(s) \in Nat
      /\ \A k \in 1..Len(s) : s[k] \in Version /\ s[k].id <= lastTrade /\ (k < Len(s) => s[k].final)
  BY LenProperties, ElementOfSeq DEF SeriesInv
<1>3. /\ c \in Seq(Version) /\ Len(c) = Len(s)
      /\ \A k \in 1..Len(s) : /\ c[k].id = s[k].id /\ (s[k].final => c[k].final)
                              /\ (k < Len(s) => c[k] = s[k]) /\ (i \notin ended => c[k] = s[k])
      /\ i \in ended => Len(s) \in 1..Len(s) /\ c[Len(s)].final /\ ~Open(c)
      /\ i \notin ended => c = s
      /\ i \in ended => c = Closed(s)
  <2>1. CASE i \in ended
    <3>1. Len(s) \in 1..Len(s)
      BY <1>1, <1>2, <2>1, EmptySeq DEF Open
    <3>2. /\ Closed(s) \in Seq(Version) /\ Len(Closed(s)) = Len(s)
          /\ \A k \in 1..Len(s) :
                /\ Closed(s)[k].id = s[k].id
                /\ k < Len(s) => Closed(s)[k] = s[k]
                /\ k = Len(s) => Closed(s)[k].final
          /\ ~Open(Closed(s))
      BY <1>2, ClosedSeries
    <3>3. ASSUME NEW k \in 1..Len(s), s[k].final PROVE Closed(s)[k].final
      <4>1. k < Len(s) \/ k = Len(s)
        BY <1>2
      <4> QED
        BY <3>2, <3>3, <4>1
    <3> QED
      BY <2>1, <3>1, <3>2, <3>3
  <2>2. CASE i \notin ended
    BY <1>2, <2>2
  <2> QED
    BY <2>1, <2>2
<1> HIDE DEF s, c, id, t
<1>4. CASE ~trades
  <2>1. t = c /\ lastTrade' = lastTrade
    BY <1>1, <1>4
  <2>2. \A k \in 1..Len(s) : ~IsNewer(At(i, s, k), At(i, t, k))
    BY <1>2, <1>3, <2>1 DEF At, IsNewer, Version
  <2> QED
    BY <1>2, <1>3, <1>4, <2>1, <2>2 DEF s, t, c
<1>5. CASE trades
  <2>1. t = Folded(c, id) /\ lastTrade' = id
    BY <1>1, <1>5
  <2>2. /\ t \in Seq(Version) /\ Len(t) = (IF Open(c) THEN Len(s) ELSE Len(s) + 1)
        /\ Len(t) \in 1..Len(t) /\ t[Len(t)] = [id |-> id, final |-> FALSE]
        /\ \A k \in 1..Len(s) : k < Len(t) => t[k] = c[k]
    BY <1>2, <1>3, <2>1, FoldedSeries
  <2>3. /\ Len(t) \in Nat /\ Len(s) <= Len(t) /\ Len(t) <= Len(s) + 1
        /\ t[Len(t)].id = id /\ ~t[Len(t)].final /\ lastTrade < id
    BY <1>2, <2>2 DEF id
  <2>4. ASSUME NEW k \in 1..Len(t), k < Len(t) PROVE k \in 1..Len(s) /\ t[k] = c[k]
    BY <1>2, <2>2, <2>3, <2>4
  <2>5. ASSUME NEW k \in 1..Len(t), k < Len(t) PROVE t[k].final /\ t[k].id <= lastTrade
    <3>1. k \in 1..Len(s) /\ t[k] = c[k] /\ c[k].id = s[k].id /\ s[k].id <= lastTrade
      BY <1>2, <1>3, <2>4, <2>5
    <3>2. CASE k < Len(s)
      BY <1>2, <1>3, <3>1, <3>2
    <3>3. CASE k = Len(s)
      <4>1. ~Open(c) /\ c # << >> /\ k = Len(c)
        BY <1>2, <1>3, <2>2, <2>5, <3>1, <3>3, EmptySeq
      <4>2. c[k].final
        BY <4>1 DEF Open
      <4> QED
        BY <3>1, <4>2
    <3> QED
      BY <1>2, <3>1, <3>2, <3>3
  <2>6. ASSUME NEW k \in 1..Len(t) PROVE t[k].id <= id /\ (k < Len(t) => t[k].final)
    <3>1. CASE k = Len(t)
      BY <1>2, <2>3, <3>1
    <3>2. CASE k < Len(t)
      <4>1. t[k].final /\ t[k].id <= lastTrade /\ t[k].id \in Nat
        <5>1. t[k] \in Version
          BY <2>2, ElementOfSeq
        <5> QED
          BY <2>5, <3>2, <5>1 DEF Version
      <4> QED
        BY <1>2, <2>3, <4>1
    <3> QED
      BY <2>3, <3>1, <3>2
  <2>7. ASSUME NEW k \in 1..Len(s)
        PROVE  k \in 1..Len(t) /\ ~IsNewer(At(i, s, k), At(i, t, k))
    <3>1. k \in 1..Len(t)
      BY <1>2, <2>3
    <3>2. CASE k = Len(t)
      <4>1. s[k].id <= lastTrade /\ t[k].id = id /\ s[k].id \in Nat
        BY <1>2, <2>3, <3>2 DEF Version
      <4> QED
        BY <1>2, <2>3, <3>1, <4>1 DEF At, IsNewer
    <3>3. CASE k < Len(t)
      <4>1. t[k] = c[k] /\ c[k].id = s[k].id /\ (s[k].final => c[k].final) /\ s[k].id \in Nat
        BY <1>2, <1>3, <2>4, <3>1, <3>3 DEF Version
      <4> QED
        BY <3>1, <4>1 DEF At, IsNewer
    <3> QED
      BY <2>3, <3>1, <3>2, <3>3
  <2>8. ASSUME NEW k \in 1..Len(t)
        PROVE  (k \in 1..Len(s) /\ t[k] = s[k]) \/ k = Len(t) \/ (i \in ended /\ k = Len(s))
    <3>1. k < Len(t) \/ k = Len(t)
      BY <2>3
    <3> QED
      BY <1>2, <1>3, <2>4, <3>1
  <2>9. ASSUME i \in ended PROVE Len(s) \in 1..Len(s) /\ t[Len(s)] = Closed(s)[Len(s)] /\ t[Len(s)].final
    <3>1. Len(s) \in 1..Len(s) /\ ~Open(c) /\ c = Closed(s) /\ c[Len(s)].final
      BY <1>3, <2>9
    <3>2. Len(s) < Len(t)
      BY <1>2, <2>2, <3>1
    <3> QED
      BY <2>2, <3>1, <3>2
  <2>10. i \notin ended /\ Open(s) => Len(t) = Len(s)
    BY <1>3, <2>2
  <2> HIDE DEF s, t
  <2>11. lastTrade' \in Nat
    BY <1>2, <2>1
  <2> QED
    BY <1>2, <1>5, <2>1, <2>2, <2>3, <2>6, <2>7, <2>8, <2>9, <2>10, <2>11 DEF s, t
<1> QED
  BY <1>4, <1>5

(* What it does to the queue and to the feed.                              *)
Queued(nf, nl, ended, trades) ==
    /\ \/ finals' = nf /\ latest' = nl /\ feed' = feed
       \/ /\ finals' = {} /\ latest' = {} /\ nf \cup nl # {}
          /\ feed' = Append(feed, [interval |-> served, candles |-> nf \cup nl])
    /\ nf = finals \cup (IF served \in ended
                         THEN {At(served, series'[served], Len(series[served]))} ELSE {})
    /\ nl = IF served # None /\ trades
            THEN {At(served, series'[served], Len(series'[served]))} ELSE latest

(* A tick queues the ended candle and the trade's for the interval served,  *)
(* and a flush sends what is queued as one frame (flushCandles).            *)
LEMMA TickQueues ==
  ASSUME SeriesInv, NEW ended \in SUBSET Interval, NEW trades \in BOOLEAN, NEW flush \in BOOLEAN,
         Tick(ended, trades, flush)
  PROVE  \E nf, nl : Queued(nf, nl, ended, trades)
<1> DEFINE closed == [i \in Interval |-> IF i \in ended THEN Closed(series[i]) ELSE series[i]]
           s == IF served = None THEN << >> ELSE closed[served]
           nf == IF served \in ended THEN finals \cup {At(served, s, Len(s))} ELSE finals
           nl == IF served # None /\ trades
                 THEN {At(served, series'[served], Len(series'[served]))} ELSE latest
           frame == [interval |-> served, candles |-> nf \cup nl]
<1>1. /\ finals' = IF flush THEN {} ELSE nf
      /\ latest' = IF flush THEN {} ELSE nl
      /\ feed' = IF flush THEN Append(feed, frame) ELSE feed
      /\ flush => nf \cup nl # {}
  BY DEF Tick
<1>2. ASSUME served \in ended
      PROVE  At(served, s, Len(s)) = At(served, series'[served], Len(series[served]))
  <2>1. served \in Interval /\ served # None /\ s = Closed(series[served])
    BY <1>2, NoneAssumption
  <2>2. Len(s) = Len(series[served])
    BY <2>1, ClosedSeries DEF SeriesInv
  <2>3. series'[served][Len(series[served])] = s[Len(series[served])]
    <3>1. \A i \in Interval : i \in ended =>
             series'[i][Len(series[i])] = Closed(series[i])[Len(series[i])]
      <4> SUFFICES ASSUME NEW i \in Interval, i \in ended
                   PROVE  series'[i][Len(series[i])] = Closed(series[i])[Len(series[i])]
        OBVIOUS
      <4>1. Ticked(i, ended, trades)
        BY TickSeries
      <4> QED
        BY <4>1 DEF Ticked
    <3> QED
      BY <1>2, <2>1, <3>1
  <2> QED
    BY <2>2, <2>3 DEF At
<1>3. nf = finals \cup (IF served \in ended
                        THEN {At(served, series'[served], Len(series[served]))} ELSE {})
  BY <1>2
<1> HIDE DEF nf, nl, s, closed
<1>4. \/ finals' = nf /\ latest' = nl /\ feed' = feed
      \/ /\ finals' = {} /\ latest' = {} /\ nf \cup nl # {}
         /\ feed' = Append(feed, [interval |-> served, candles |-> nf \cup nl])
  BY <1>1
<1>5. nl = IF served # None /\ trades
           THEN {At(served, series'[served], Len(series'[served]))} ELSE latest
  BY DEF nl
<1> QED
  BY <1>3, <1>4, <1>5 DEF Queued

(* What is known of a series stays known: a series only grows and its       *)
(* candles only get newer.                                                  *)
LEMMA StillKnown ==
  ASSUME SeriesInv, [Next]_vars, NEW i \in Interval, NEW c, Known(c, i, series[i])
  PROVE  Known(c, i, series'[i])
<1>1. CASE UNCHANGED series
  BY <1>1
<1>2. ASSUME NEW ended \in SUBSET Interval, NEW trades \in BOOLEAN, NEW flush \in BOOLEAN,
             Tick(ended, trades, flush)
      PROVE  Known(c, i, series'[i])
  <2> DEFINE k == c.start
             d == At(i, series[i], k)
             e == At(i, series'[i], k)
  <2>1. /\ c \in Candle /\ c.interval = i /\ k \in 1..Len(series[i]) /\ ~IsNewer(c, d)
        /\ series[i] \in Seq(Version)
    BY DEF Known, SeriesInv
  <2>2. k \in 1..Len(series'[i]) /\ ~IsNewer(d, e) /\ series'[i] \in Seq(Version)
    BY <1>2, <2>1, TickSeries DEF Ticked
  <2>3. d \in Candle /\ e \in Candle
    BY <2>1, <2>2, AtIsKnown
  <2> HIDE DEF k, d, e
  <2>4. ~IsNewer(c, e)
    BY <2>1, <2>2, <2>3, RankOrders
  <2> QED
    BY <2>1, <2>2, <2>4 DEF Known, k, e
<1> QED
  BY <1>1, <1>2
     DEF Next, HandleFrame, Answer, Arrive, Fail, SelectInterval, Refresh, Deliver,
         SetRenderingPaused, Disconnect, Hello, serverVars, vars

------------------------------------------------------------------------------
(* A frame of candles on the socket.                                       *)
Fed == [interval : Interval, candles : SUBSET Candle]

(* The candles cs are all known of interval i's series.                     *)
AllKnown(cs, i) == cs # {} => i \in Interval /\ \A c \in cs : Known(c, i, series[i])

(* The socket and the session: the types of what is queued and sent, and    *)
(* that nothing is on a socket that is down.                                *)
ChannelTypes ==
    /\ served \in Interval \cup {None} /\ connected \in BOOLEAN
    /\ interval \in Interval \cup {None}
    /\ uplink \in Seq(Interval) /\ feed \in Seq(Fed)
    /\ ~connected => interval # None /\ served = None /\ uplink = << >> /\ feed = << >>
    /\ lastTrade \in 0..Trades
    /\ IsFiniteSet(latest) /\ Cardinality(latest) <= 1

(* What is queued and what is sent is known of the interval it was queued   *)
(* for.                                                                     *)
ChannelsKnown ==
    /\ AllKnown(finals \cup latest, served)
    /\ \A c \in latest : ~c.final
    /\ \A k \in 1..Len(feed) : AllKnown(feed[k].candles, feed[k].interval)

(* No frame of an interval has a candle that starts before one of an earlier*)
(* frame, nor does what is queued.                                          *)
FeedInOrder ==
    /\ \A k, m \in 1..Len(feed) : k < m /\ feed[k].interval = feed[m].interval =>
          \A c \in feed[k].candles, d \in feed[m].candles : c.start <= d.start
    /\ \A k \in 1..Len(feed) : feed[k].interval = served =>
          \A c \in feed[k].candles, d \in finals \cup latest : c.start <= d.start

(* A tick keeps what is queued and sent as it should be.                    *)
LEMMA TickChannels ==
  ASSUME SeriesInv, ChannelTypes, ChannelsKnown, FeedInOrder,
         NEW ended \in SUBSET Interval, NEW trades \in BOOLEAN, NEW flush \in BOOLEAN,
         Tick(ended, trades, flush)
  PROVE  ChannelTypes' /\ ChannelsKnown' /\ FeedInOrder'
<1>0. /\ served \in Interval \cup {None} /\ feed \in Seq(Fed) /\ Len(feed) \in Nat
      /\ UNCHANGED <<served, uplink, connected, interval>>
  BY LenProperties DEF ChannelTypes, Tick
<1>q. PICK nf, nl : Queued(nf, nl, ended, trades)
  BY TickQueues
<1>1. /\ \/ finals' = nf /\ latest' = nl /\ feed' = feed
         \/ /\ finals' = {} /\ latest' = {} /\ nf \cup nl # {}
            /\ feed' = Append(feed, [interval |-> served, candles |-> nf \cup nl])
      /\ nf = finals \cup (IF served \in ended
                           THEN {At(served, series'[served], Len(series[served]))} ELSE {})
      /\ nl = IF served # None /\ trades
              THEN {At(served, series'[served], Len(series'[served]))} ELSE latest
  BY <1>q DEF Queued
<1>2. ASSUME NEW i \in Interval, NEW c, Known(c, i, series[i]) PROVE Known(c, i, series'[i])
  <2>1. [Next]_vars
    BY DEF Next
  <2> QED
    BY <1>2, <2>1, StillKnown
<1>t. \A i \in Interval : Ticked(i, ended, trades)
  BY TickSeries
<1>3. served \in Interval /\ served \in ended =>
        /\ Known(At(served, series'[served], Len(series[served])), served, series'[served])
        /\ At(served, series'[served], Len(series[served])).start = Len(series[served])
  <2> SUFFICES ASSUME served \in Interval, served \in ended
               PROVE  /\ Known(At(served, series'[served], Len(series[served])), served, series'[served])
                      /\ At(served, series'[served], Len(series[served])).start = Len(series[served])
    OBVIOUS
  <2>1. Len(series[served]) \in 1..Len(series'[served]) /\ series'[served] \in Seq(Version)
    BY <1>t DEF Ticked
  <2> QED
    BY <2>1, AtIsKnown
<1>4. served \in Interval /\ trades =>
        /\ Known(At(served, series'[served], Len(series'[served])), served, series'[served])
        /\ At(served, series'[served], Len(series'[served])).start = Len(series'[served])
        /\ ~At(served, series'[served], Len(series'[served])).final
  <2> SUFFICES ASSUME served \in Interval, trades
               PROVE  /\ Known(At(served, series'[served], Len(series'[served])), served, series'[served])
                      /\ At(served, series'[served], Len(series'[served])).start = Len(series'[served])
                      /\ ~At(served, series'[served], Len(series'[served])).final
    OBVIOUS
  <2>1. Len(series'[served]) \in 1..Len(series'[served]) /\ series'[served] \in Seq(Version)
        /\ ~series'[served][Len(series'[served])].final
    BY <1>t DEF Ticked
  <2> QED
    BY <2>1, AtIsKnown DEF At
<1>5. nf \cup nl # {} => served \in Interval
  BY <1>0, <1>1 DEF ChannelsKnown, AllKnown
<1>6. \A c \in nf \cup nl : Known(c, served, series'[served])
  <2> SUFFICES ASSUME NEW c \in nf \cup nl PROVE Known(c, served, series'[served])
    OBVIOUS
  <2>1. served \in Interval
    BY <1>5
  <2>2. CASE c \in finals \cup latest
    BY <1>2, <2>1, <2>2 DEF ChannelsKnown, AllKnown
  <2>3. CASE c \notin finals \cup latest
    BY <1>1, <1>3, <1>4, <2>1, <2>3
  <2> QED
    BY <2>2, <2>3
<1>7. \A c \in nl : ~c.final
  BY <1>0, <1>1, <1>4, NoneAssumption DEF ChannelsKnown
<1>8. IsFiniteSet(nl) /\ Cardinality(nl) <= 1
  <2>1. CASE served # None /\ trades
    <3>1. nl = {At(served, series'[served], Len(series'[served]))}
      BY <1>1, <2>1
    <3>2. \A e : IsFiniteSet({e}) /\ Cardinality({e}) <= 1
      <4> TAKE e
      <4>1. IsFiniteSet({e}) /\ Cardinality({e}) = 1
        BY FS_Singleton
      <4> QED
        BY <4>1
    <3> QED
      BY <3>1, <3>2
  <2>2. CASE ~(served # None /\ trades)
    BY <1>1, <2>2 DEF ChannelTypes
  <2> QED
    BY <2>1, <2>2
<1>9. ASSUME NEW k \in 1..Len(feed), feed[k].interval = served, NEW c \in feed[k].candles,
             NEW d \in nf \cup nl
      PROVE  c.start <= d.start
  <2>1. served \in Interval
    BY <1>5
  <2>2. CASE d \in finals \cup latest
    BY <1>9, <2>2 DEF FeedInOrder
  <2>3. CASE d \notin finals \cup latest
    <3>1. c.start \in 1..Len(series[served])
      BY <1>9, <2>1 DEF ChannelsKnown, AllKnown, Known
    <3>2. Len(series[served]) \in Nat /\ Len(series'[served]) \in Nat
          /\ Len(series[served]) <= Len(series'[served])
      BY <2>1, <1>t DEF Ticked
    <3>3. d.start = Len(series[served]) \/ d.start = Len(series'[served])
      BY <1>1, <1>3, <1>4, <2>1, <2>3
    <3> QED
      BY <3>1, <3>2, <3>3
  <2> QED
    BY <2>2, <2>3
<1>10. \A k \in 1..Len(feed) :
          feed[k].candles # {} => /\ feed[k].interval \in Interval
                                  /\ \A c \in feed[k].candles :
                                        Known(c, feed[k].interval, series'[feed[k].interval])
  BY <1>2 DEF ChannelsKnown, AllKnown
<1>11. lastTrade' \in 0..Trades
  BY BoundAssumption DEF Tick, ChannelTypes
<1>12. CASE finals' = nf /\ latest' = nl /\ feed' = feed
  <2>1. ChannelTypes'
    BY <1>0, <1>8, <1>11, <1>12 DEF ChannelTypes
  <2>2. ChannelsKnown'
    BY <1>0, <1>5, <1>6, <1>7, <1>10, <1>12 DEF ChannelsKnown, AllKnown
  <2>3. FeedInOrder'
    BY <1>0, <1>9, <1>12 DEF FeedInOrder
  <2> QED
    BY <2>1, <2>2, <2>3
<1>13. CASE /\ finals' = {} /\ latest' = {} /\ nf \cup nl # {}
            /\ feed' = Append(feed, [interval |-> served, candles |-> nf \cup nl])
  <2> DEFINE frame == [interval |-> served, candles |-> nf \cup nl]
  <2>1. frame \in Fed /\ served \in Interval /\ served # None
    BY <1>5, <1>6, <1>13, NoneAssumption DEF Fed, Known
  <2>2. /\ feed' \in Seq(Fed) /\ Len(feed') = Len(feed) + 1 /\ feed'[Len(feed) + 1] = frame
        /\ \A k \in 1..Len(feed) : feed'[k] = feed[k]
    BY <1>0, <1>13, <2>1, AppendProperties
  <2>3. frame.interval = served /\ frame.candles = nf \cup nl
    OBVIOUS
  <2> HIDE DEF frame
  <2>4. ChannelTypes'
    <3>1. IsFiniteSet(latest') /\ Cardinality(latest') <= 1
      BY <1>13, FS_EmptySet
    <3>2. connected'
      BY <1>0, <2>1 DEF ChannelTypes
    <3> QED
      BY <1>0, <1>11, <2>2, <3>1, <3>2 DEF ChannelTypes
  <2>5. \A k \in 1..Len(feed') : k \in 1..Len(feed) \/ k = Len(feed) + 1
    BY <1>0, <2>2
  <2>6. ChannelsKnown'
    <3>1. ASSUME NEW k \in 1..Len(feed')
          PROVE  feed'[k].candles # {} =>
                    /\ feed'[k].interval \in Interval
                    /\ \A c \in feed'[k].candles :
                          Known(c, feed'[k].interval, series'[feed'[k].interval])
      BY <1>6, <1>10, <2>1, <2>2, <2>3, <2>5
    <3> QED
      BY <1>13, <3>1 DEF ChannelsKnown, AllKnown
  <2>7. FeedInOrder'
    <3>1. ASSUME NEW k \in 1..Len(feed'), NEW m \in 1..Len(feed'), k < m,
                 feed'[k].interval = feed'[m].interval,
                 NEW c \in feed'[k].candles, NEW d \in feed'[m].candles
          PROVE  c.start <= d.start
      <4>1. k \in 1..Len(feed) /\ feed'[k] = feed[k]
        BY <1>0, <2>2, <3>1
      <4>2. CASE m \in 1..Len(feed)
        BY <2>2, <3>1, <4>1, <4>2 DEF FeedInOrder
      <4>3. CASE m = Len(feed) + 1
        BY <1>9, <2>2, <2>3, <3>1, <4>1, <4>3
      <4> QED
        BY <2>5, <4>2, <4>3
    <3> QED
      BY <1>13, <3>1, SMTT(30) DEF FeedInOrder
  <2> QED
    BY <2>4, <2>6, <2>7
<1> QED
  BY <1>1, <1>12, <1>13

(* The same, of several candles.                                            *)
LEMMA StillAllKnown ==
  ASSUME SeriesInv, [Next]_vars, NEW cs, NEW i, AllKnown(cs, i)
  PROVE  cs # {} => i \in Interval /\ \A c \in cs : Known(c, i, series'[i])
BY StillKnown DEF AllKnown

(* What holds of the server and of the socket.                              *)
Server == SeriesInv /\ ChannelTypes /\ ChannelsKnown /\ FeedInOrder

(* Every step keeps the series as they should be.                           *)
LEMMA SeriesPreserved ==
  ASSUME SeriesInv, [Next]_vars
  PROVE  SeriesInv'
<1>1. CASE UNCHANGED <<series, lastTrade>>
  BY <1>1 DEF SeriesInv
<1>2. ASSUME NEW ended \in SUBSET Interval, NEW trades \in BOOLEAN, NEW flush \in BOOLEAN,
             Tick(ended, trades, flush)
      PROVE  SeriesInv'
  <2>1. lastTrade' \in Nat
    BY <1>2 DEF Tick, SeriesInv
  <2>2. \A i \in Interval : Ticked(i, ended, trades)
    BY <1>2, TickSeries
  <2>3. ASSUME NEW i \in Interval
        PROVE  /\ series'[i] \in Seq(Version)
               /\ \A k \in 1..Len(series'[i]) :
                     series'[i][k].id <= lastTrade' /\ (k < Len(series'[i]) => series'[i][k].final)
    BY <2>2 DEF Ticked
  <2> QED
    BY <2>1, <2>3 DEF SeriesInv
<1> QED
  BY <1>1, <1>2
     DEF Next, HandleFrame, Answer, Arrive, Fail, SelectInterval, Refresh, Deliver,
         SetRenderingPaused, Disconnect, Hello, serverVars, vars

(* Where an answer begins only moves on: a series only grows, so an answer  *)
(* given later reaches no further back (MarketRepository.candles).          *)
LEMMA NewestGrows ==
  ASSUME SeriesInv, [Next]_vars, NEW i \in Interval
  PROVE  Newest(i) \in Nat /\ Newest(i)' \in Nat /\ Newest(i) <= Newest(i)'
<1>1. /\ Len(series[i]) \in Nat /\ Len(series'[i]) \in Nat
      /\ Len(series[i]) <= Len(series'[i])
  <2>1. Len(series[i]) \in Nat
    BY LenProperties DEF SeriesInv
  <2>2. CASE UNCHANGED series
    BY <2>1, <2>2
  <2>3. ASSUME NEW ended \in SUBSET Interval, NEW trades \in BOOLEAN, NEW flush \in BOOLEAN,
               Tick(ended, trades, flush)
        PROVE  /\ Len(series[i]) \in Nat /\ Len(series'[i]) \in Nat
               /\ Len(series[i]) <= Len(series'[i])
    BY <2>3, TickSeries DEF Ticked
  <2> QED
    BY <2>1, <2>2, <2>3
       DEF Next, HandleFrame, Answer, Arrive, Fail, SelectInterval, Refresh, Deliver,
           SetRenderingPaused, Disconnect, Hello, serverVars, vars
<1> QED
  BY <1>1, LimitAssumption DEF Newest

(* What is left on the socket once the client takes a frame.                *)
LEMMA DeliverChannels ==
  ASSUME Server, Deliver
  PROVE  /\ ChannelTypes' /\ ChannelsKnown' /\ FeedInOrder'
         /\ feed # << >> /\ Len(feed) \in Nat \ {0} /\ Head(feed) = feed[1] /\ feed[1] \in Fed
         /\ Len(feed') = Len(feed) - 1
         /\ \A k \in 1..Len(feed') : k + 1 \in 1..Len(feed) /\ feed'[k] = feed[k + 1]
<1>1. feed # << >> /\ feed \in Seq(Fed) /\ feed' = Tail(feed)
  BY DEF Server, ChannelTypes, Deliver
<1>2. /\ feed' \in Seq(Fed) /\ Len(feed) \in Nat \ {0} /\ Len(feed') = Len(feed) - 1
      /\ Head(feed) = feed[1] /\ feed[1] \in Fed
      /\ \A k \in 1..Len(feed') : feed'[k] = feed[k + 1]
  BY <1>1, EmptySeq, LenProperties, HeadTailProperties, ElementOfSeq
<1>3. \A k \in 1..Len(feed') : k + 1 \in 1..Len(feed) /\ feed'[k] = feed[k + 1]
  BY <1>2
<1>4. UNCHANGED <<serverVars, uplink, connected, interval>>
  BY DEF Deliver
<1>5. ChannelTypes'
  <2>1. connected
    BY <1>1 DEF Server, ChannelTypes
  <2> QED
    BY <1>2, <1>4, <2>1 DEF Server, ChannelTypes, serverVars
<1>6. ChannelsKnown'
  BY <1>3, <1>4 DEF Server, ChannelsKnown, AllKnown, serverVars
<1>7. FeedInOrder'
  <2>1. ASSUME NEW k \in 1..Len(feed'), NEW m \in 1..Len(feed'), k < m,
               feed'[k].interval = feed'[m].interval,
               NEW c \in feed'[k].candles, NEW d \in feed'[m].candles
        PROVE  c.start <= d.start
    <3>1. k + 1 \in 1..Len(feed) /\ m + 1 \in 1..Len(feed) /\ k + 1 < m + 1
      BY <1>3, <2>1
    <3> QED
      BY <1>3, <2>1, <3>1 DEF Server, FeedInOrder
  <2>2. ASSUME NEW k \in 1..Len(feed'), feed'[k].interval = served',
               NEW c \in feed'[k].candles, NEW d \in (finals \cup latest)'
        PROVE  c.start <= d.start
    <3>1. k + 1 \in 1..Len(feed) /\ feed'[k] = feed[k + 1] /\ d \in finals \cup latest
          /\ served' = served
      BY <1>3, <1>4 DEF serverVars
    <3> QED
      BY <2>2, <3>1 DEF Server, FeedInOrder
  <2> QED
    BY <2>1, <2>2 DEF FeedInOrder
<1> QED
  BY <1>1, <1>2, <1>3, <1>5, <1>6, <1>7

(* Every step keeps what holds of the server and of the socket.             *)
LEMMA ServerPreserved ==
  ASSUME Server, [Next]_vars
  PROVE  Server'
<1>0. SeriesInv'
  BY SeriesPreserved DEF Server
<1> SUFFICES ChannelTypes' /\ ChannelsKnown' /\ FeedInOrder'
  BY <1>0 DEF Server
<1>1. ASSUME UNCHANGED <<serverVars, feed>>
      PROVE  ChannelsKnown' /\ FeedInOrder'
  BY <1>1 DEF Server, ChannelsKnown, FeedInOrder, AllKnown, serverVars
<1>2. ASSUME NEW ended \in SUBSET Interval, NEW trades \in BOOLEAN, NEW flush \in BOOLEAN,
             Tick(ended, trades, flush)
      PROVE  ChannelTypes' /\ ChannelsKnown' /\ FeedInOrder'
  BY <1>2, TickChannels DEF Server
<1>3. CASE HandleFrame
  <2>1. /\ uplink # << >> /\ uplink \in Seq(Interval) /\ uplink' = Tail(uplink)
        /\ served' = Head(uplink) /\ UNCHANGED <<series, lastTrade, feed, connected, interval>>
        /\ \/ served' = served /\ UNCHANGED <<finals, latest>>
           \/ finals' = {} /\ latest' = {}
    BY <1>3 DEF HandleFrame, Server, ChannelTypes
  <2>2. uplink' \in Seq(Interval) /\ served' \in Interval
    BY <2>1, HeadTailProperties
  <2>3. ChannelTypes'
    <3>1. IsFiniteSet(latest') /\ Cardinality(latest') <= 1
      <4>1. IsFiniteSet(latest) /\ Cardinality(latest) <= 1
        BY DEF Server, ChannelTypes
      <4>2. latest' = latest \/ latest' = {}
        BY <2>1
      <4> QED
        BY <4>1, <4>2, FS_EmptySet
    <3> QED
      BY <2>1, <2>2, <3>1 DEF Server, ChannelTypes
  <2>4. ChannelsKnown'
    BY <2>1 DEF Server, ChannelsKnown, AllKnown
  <2>5. FeedInOrder'
    BY <2>1 DEF Server, FeedInOrder
  <2> QED
    BY <2>3, <2>4, <2>5
<1>4. CASE Deliver
  BY <1>4, DeliverChannels
<1>5. ASSUME NEW i \in Interval, SelectInterval(i)
      PROVE  ChannelTypes' /\ ChannelsKnown' /\ FeedInOrder'
  <2>1. UNCHANGED <<serverVars, feed, connected>> /\ interval' = i
        /\ uplink' = IF connected THEN Append(uplink, i) ELSE uplink
    BY <1>5 DEF SelectInterval
  <2>2. uplink' \in Seq(Interval)
    BY <2>1, AppendProperties DEF Server, ChannelTypes
  <2>3. ChannelTypes'
    BY <2>1, <2>2, NoneAssumption DEF Server, ChannelTypes, serverVars
  <2> QED
    BY <1>1, <2>1, <2>3
<1>6. CASE Disconnect
  <2>1. /\ connected /\ interval # None /\ connected' = FALSE
        /\ served' = None /\ finals' = {} /\ latest' = {} /\ uplink' = << >> /\ feed' = << >>
        /\ UNCHANGED <<series, lastTrade, interval>>
    BY <1>6 DEF Disconnect
  <2>2. IsFiniteSet(latest') /\ Cardinality(latest') <= 1
    BY <2>1, FS_EmptySet
  <2>3. uplink' \in Seq(Interval) /\ feed' \in Seq(Fed) /\ Len(feed') = 0
    BY <2>1, EmptySeq
  <2>4. ChannelTypes'
    BY <2>1, <2>2, <2>3 DEF Server, ChannelTypes
  <2>5. ChannelsKnown' /\ FeedInOrder'
    BY <2>1, <2>3 DEF ChannelsKnown, FeedInOrder, AllKnown
  <2> QED
    BY <2>4, <2>5
<1>7. CASE Hello
  <2>1. /\ ~connected /\ connected' = TRUE /\ uplink' = <<interval>>
        /\ UNCHANGED <<serverVars, feed, interval>>
    BY <1>7 DEF Hello
  <2>2. uplink' \in Seq(Interval)
    BY <2>1 DEF Server, ChannelTypes
  <2>3. ChannelTypes'
    BY <2>1, <2>2 DEF Server, ChannelTypes, serverVars
  <2> QED
    BY <1>1, <2>1, <2>3
<1>8. CASE UNCHANGED <<serverVars, uplink, feed, connected, interval>>
  <2>1. ChannelTypes'
    BY <1>8 DEF Server, ChannelTypes, serverVars
  <2> QED
    BY <1>1, <1>8, <2>1
<1> QED
  BY <1>2, <1>3, <1>4, <1>5, <1>6, <1>7, <1>8
     DEF Next, Answer, Arrive, Fail, Refresh, SetRenderingPaused, vars

------------------------------------------------------------------------------
(* What is still coming, and how each step changes it.                     *)
LEMMA ComingIn ==
  ASSUME NEW i, NEW c
  PROVE  c \in Coming(i) <=> \/ c \in finals \cup latest /\ served = i
                             \/ \E k \in 1..Len(feed) : feed[k].interval = i /\ c \in feed[k].candles
BY DEF Coming

(* The same, of the next state.                                             *)
LEMMA ComingInNext ==
  ASSUME NEW i, NEW c
  PROVE  c \in Coming(i)' <=>
            \/ c \in finals' \cup latest' /\ served' = i
            \/ \E k \in 1..Len(feed') : feed'[k].interval = i /\ c \in feed'[k].candles
BY DEF Coming

(* What is coming is known.                                                 *)
LEMMA ComingIsKnown ==
  ASSUME Server, NEW i, NEW c \in Coming(i)
  PROVE  i \in Interval /\ Known(c, i, series[i])
BY ComingIn DEF Server, ChannelsKnown, AllKnown

(* Not more comes than there was, unless the server adds it.               *)
LEMMA ComingOfTick ==
  ASSUME Server, NEW ended \in SUBSET Interval, NEW trades \in BOOLEAN, NEW flush \in BOOLEAN,
         Tick(ended, trades, flush), NEW i \in Interval
  PROVE  /\ \A c \in Coming(i)' :
               \/ c \in Coming(i)
               \/ c.start >= Len(series[i])
         /\ \A c \in Coming(i) : c \in Coming(i)' \/ (trades /\ served = i /\ ~c.final)
         /\ served = i /\ i \in ended => At(i, series'[i], Len(series[i])) \in Coming(i)'
         /\ served = i /\ trades => At(i, series'[i], Len(series'[i])) \in Coming(i)'
<1>0. feed \in Seq(Fed) /\ Len(feed) \in Nat /\ served' = served /\ i # None
  BY LenProperties, NoneAssumption DEF Server, ChannelTypes, Tick
<1>1. PICK nf, nl : Queued(nf, nl, ended, trades)
  BY TickQueues DEF Server
<1>2. ASSUME NEW c
      PROVE  c \in Coming(i)' <=> \/ c \in nf \cup nl /\ served = i
                                  \/ \E k \in 1..Len(feed) : feed[k].interval = i /\ c \in feed[k].candles
  <2>1. CASE finals' = nf /\ latest' = nl /\ feed' = feed
    BY <1>0, <2>1, ComingInNext
  <2>2. CASE /\ finals' = {} /\ latest' = {}
             /\ feed' = Append(feed, [interval |-> served, candles |-> nf \cup nl])
    <3> DEFINE frame == [interval |-> served, candles |-> nf \cup nl]
    <3>0. feed \in Seq(Fed \cup {frame}) /\ frame \in Fed \cup {frame}
          /\ frame.interval = served /\ frame.candles = nf \cup nl
      BY <1>0
    <3> HIDE DEF frame
    <3>1. /\ Len(feed') = Len(feed) + 1 /\ feed'[Len(feed) + 1] = frame
          /\ \A k \in 1..Len(feed) : feed'[k] = feed[k]
      BY <2>2, <3>0, AppendProperties DEF frame
    <3>2. c \in Coming(i)' <=> \E k \in 1..Len(feed') : feed'[k].interval = i /\ c \in feed'[k].candles
      BY <2>2, ComingInNext
    <3>3. ASSUME NEW k \in 1..Len(feed'), feed'[k].interval = i, c \in feed'[k].candles
          PROVE  \/ c \in nf \cup nl /\ served = i
                 \/ \E m \in 1..Len(feed) : feed[m].interval = i /\ c \in feed[m].candles
      <4>1. k \in 1..Len(feed) \/ k = Len(feed) + 1
        BY <1>0, <3>1
      <4> QED
        BY <3>0, <3>1, <3>3, <4>1
    <3>4. ASSUME c \in nf \cup nl, served = i
          PROVE  \E k \in 1..Len(feed') : feed'[k].interval = i /\ c \in feed'[k].candles
      <4>1. Len(feed) + 1 \in 1..Len(feed')
        BY <1>0, <3>1
      <4> QED
        BY <3>0, <3>1, <3>4, <4>1
    <3>5. ASSUME NEW m \in 1..Len(feed), feed[m].interval = i, c \in feed[m].candles
          PROVE  \E k \in 1..Len(feed') : feed'[k].interval = i /\ c \in feed'[k].candles
      <4>1. m \in 1..Len(feed')
        BY <1>0, <3>1
      <4> QED
        BY <3>1, <3>5, <4>1
    <3> QED
      BY <3>2, <3>3, <3>4, <3>5
  <2> QED
    BY <1>1, <2>1, <2>2 DEF Queued
<1>3. Ticked(i, ended, trades) /\ series[i] \in Seq(Version)
  BY TickSeries DEF Server, SeriesInv
<1>4. /\ Len(series[i]) \in Nat /\ Len(series'[i]) \in Nat /\ Len(series[i]) <= Len(series'[i])
  BY <1>3 DEF Ticked
<1>5. /\ nf = finals \cup (IF served \in ended
                           THEN {At(served, series'[served], Len(series[served]))} ELSE {})
      /\ nl = IF served # None /\ trades
              THEN {At(served, series'[served], Len(series'[served]))} ELSE latest
  BY <1>1 DEF Queued
<1>6. ASSUME NEW c \in Coming(i)', c \notin Coming(i)
      PROVE  c.start >= Len(series[i])
  <2>1. served = i /\ c \in nf \cup nl /\ c \notin finals \cup latest
    BY <1>2, <1>6, ComingIn
  <2>2. c = At(i, series'[i], Len(series[i])) \/ c = At(i, series'[i], Len(series'[i]))
    BY <1>5, <2>1
  <2>3. c.start = Len(series[i]) \/ c.start = Len(series'[i])
    BY <2>2 DEF At
  <2> QED
    BY <1>4, <2>3
<1>7. ASSUME NEW c \in Coming(i), c \notin Coming(i)'
      PROVE  trades /\ served = i /\ ~c.final
  <2>1. served = i /\ c \in latest /\ c \notin nl
    BY <1>2, <1>5, <1>7, ComingIn
  <2> QED
    BY <1>5, <2>1 DEF Server, ChannelsKnown
<1>8. served = i /\ i \in ended => At(i, series'[i], Len(series[i])) \in Coming(i)'
  BY <1>2, <1>5
<1>9. served = i /\ trades => At(i, series'[i], Len(series'[i])) \in Coming(i)'
  BY <1>0, <1>2, <1>5
<1> QED
  BY <1>6, <1>7, <1>8, <1>9

(* cs and what is coming have all the server's candles from n on.          *)
Tracked(cs, i, n) ==
    \A k \in 1..Len(series[i]) : k >= n => At(i, series[i], k) \in cs \cup Coming(i)

(* What held and coming together have of the server's candles, they have    *)
(* after a tick of the server too: what the tick changes it queues.         *)
LEMMA TrackedThroughTick ==
  ASSUME Server, NEW ended \in SUBSET Interval, NEW trades \in BOOLEAN, NEW flush \in BOOLEAN,
         Tick(ended, trades, flush), NEW i \in Interval, served = i,
         NEW cs, NEW n, Tracked(cs, i, n)
  PROVE  Tracked(cs, i, n)'
<1>1. Ticked(i, ended, trades) /\ series[i] \in Seq(Version)
  BY TickSeries DEF Server, SeriesInv
<1>2. ASSUME NEW k \in 1..Len(series'[i]), k >= n
      PROVE  At(i, series'[i], k) \in cs \cup Coming(i)'
  <2>1. CASE trades /\ k = Len(series'[i])
    BY <2>1, ComingOfTick
  <2>2. CASE i \in ended /\ k = Len(series[i])
    BY <2>2, ComingOfTick
  <2>3. CASE k \in 1..Len(series[i]) /\ series'[i][k] = series[i][k]
    <3> DEFINE c == At(i, series[i], k)
    <3>1. At(i, series'[i], k) = c /\ c \in cs \cup Coming(i)
      BY <1>2, <2>3 DEF At, Tracked
    <3>2. c \in cs \cup Coming(i)' \/ (trades /\ ~c.final)
      BY <3>1, ComingOfTick
    <3>3. ASSUME trades, ~c.final PROVE k = Len(series'[i]) \/ (i \in ended /\ k = Len(series[i]))
      <4>1. ~series[i][k].final /\ Len(series[i]) \in Nat
        BY <1>1, <3>3, LenProperties DEF At
      <4>2. k = Len(series[i])
        BY <2>3, <4>1 DEF Server, SeriesInv
      <4>3. Open(series[i])
        BY <2>3, <4>1, <4>2, EmptySeq DEF Open
      <4> QED
        BY <1>1, <3>3, <4>2, <4>3 DEF Ticked
    <3> HIDE DEF c
    <3> QED
      BY <2>1, <2>2, <3>1, <3>2, <3>3
  <2> QED
    BY <1>1, <2>1, <2>2, <2>3 DEF Ticked
<1> QED
  BY <1>2 DEF Tracked

(* What was coming still is, but for the frame the client takes.            *)
LEMMA ComingOfDeliver ==
  ASSUME Server, Deliver, NEW i
  PROVE  /\ \A c : c \in Coming(i) <=> \/ c \in Coming(i)'
                                       \/ feed[1].interval = i /\ c \in feed[1].candles
         /\ feed[1].interval = i =>
               \A b \in feed[1].candles : \A c \in Coming(i)' : b.start <= c.start
<1>1. /\ Len(feed) \in Nat \ {0} /\ Len(feed') = Len(feed) - 1
      /\ \A k \in 1..Len(feed') : k + 1 \in 1..Len(feed) /\ feed'[k] = feed[k + 1]
  BY DeliverChannels
<1>2. UNCHANGED <<finals, latest, served>>
  BY DEF Deliver, serverVars
<1>3. 1 \in 1..Len(feed)
  BY <1>1
<1>4. ASSUME NEW m \in 1..Len(feed), m # 1
      PROVE  \E k \in 1..Len(feed') : feed'[k] = feed[m] /\ m > 1
  <2>1. m - 1 \in 1..Len(feed') /\ m - 1 + 1 = m /\ m > 1
    BY <1>1, <1>4
  <2> QED
    BY <1>1, <2>1
<1>5. ASSUME NEW c
      PROVE  c \in Coming(i) <=> \/ c \in Coming(i)'
                                 \/ feed[1].interval = i /\ c \in feed[1].candles
  <2>1. ASSUME c \in Coming(i)
        PROVE  c \in Coming(i)' \/ (feed[1].interval = i /\ c \in feed[1].candles)
    <3>1. CASE c \in finals \cup latest /\ served = i
      BY <1>2, <3>1, ComingInNext
    <3>2. ASSUME NEW m \in 1..Len(feed), feed[m].interval = i, c \in feed[m].candles, m # 1
          PROVE  c \in Coming(i)'
      BY <1>4, <3>2, ComingInNext
    <3> QED
      BY <2>1, <3>1, <3>2, ComingIn
  <2>2. ASSUME c \in Coming(i)' PROVE c \in Coming(i)
    <3>1. CASE c \in finals \cup latest /\ served = i
      BY <3>1, ComingIn
    <3>2. ASSUME NEW k \in 1..Len(feed'), feed'[k].interval = i, c \in feed'[k].candles
          PROVE  c \in Coming(i)
      BY <1>1, <3>2, ComingIn
    <3> QED
      BY <1>2, <2>2, <3>1, <3>2, ComingInNext
  <2> QED
    BY <1>3, <2>1, <2>2, ComingIn
<1>6. ASSUME feed[1].interval = i, NEW b \in feed[1].candles, NEW c \in Coming(i)'
      PROVE  b.start <= c.start
  <2>1. CASE c \in finals \cup latest /\ served = i
    BY <1>3, <1>6, <2>1 DEF Server, FeedInOrder
  <2>2. ASSUME NEW k \in 1..Len(feed'), feed'[k].interval = i, c \in feed'[k].candles
        PROVE  b.start <= c.start
    <3>1. k + 1 \in 1..Len(feed) /\ feed'[k] = feed[k + 1] /\ 1 < k + 1
      BY <1>1
    <3> QED
      BY <1>3, <1>6, <2>2, <3>1 DEF Server, FeedInOrder
  <2> QED
    BY <1>2, <2>1, <2>2, ComingInNext
<1> QED
  BY <1>5, <1>6

(* Nothing but a tick gives the client more to come.                       *)
LEMMA ComingShrinks ==
  ASSUME Server, [Next]_vars, NEW i, NEW c \in Coming(i)',
         ~\E ended \in SUBSET Interval, trades, flush \in BOOLEAN : Tick(ended, trades, flush)
  PROVE  c \in Coming(i)
<1>1. CASE UNCHANGED <<finals, latest, served, feed>>
  BY <1>1, ComingIn, ComingInNext
<1>2. CASE HandleFrame
  <2>1. /\ UNCHANGED feed
        /\ (served' = served /\ UNCHANGED <<finals, latest>>) \/ (finals' = {} /\ latest' = {})
    BY <1>2 DEF HandleFrame
  <2> QED
    BY <2>1, ComingIn, ComingInNext
<1>3. CASE Deliver
  BY <1>3, ComingOfDeliver
<1>4. CASE Disconnect
  <2>1. finals' = {} /\ latest' = {} /\ feed' = << >>
    BY <1>4 DEF Disconnect
  <2>2. Len(feed') = 0
    BY <2>1
  <2> QED
    BY <2>1, <2>2, ComingInNext
<1> QED
  BY <1>1, <1>2, <1>3, <1>4
     DEF Next, Answer, Arrive, Fail, SelectInterval, Refresh, SetRenderingPaused, Hello,
         serverVars, vars

------------------------------------------------------------------------------
(* What holds of the client: what it holds, shows and has buffered is      *)
(* known, of one interval, with one candle for each start.                 *)
HeldInv ==
    /\ active \in Interval \cup {None} /\ pending \in Interval \cup {None}
    /\ pending # None => pending = interval
    /\ paused \in BOOLEAN /\ needsFull \in BOOLEAN /\ covered \in BOOLEAN
    /\ AllKnown(held, active) /\ SeriesOf(held, active)
    /\ AllKnown(chart, active) /\ SeriesOf(chart, active)
    /\ AllKnown(buffered, pending)
    /\ ChartShowsHeld
    /\ needsFull => active # None

(* c takes the place of a candle of cs, or comes after them all.            *)
AtTheEnd(cs, c) == (\E d \in cs : d.start = c.start) \/ (\A d \in cs : d.start < c.start)

(* No candle is coming, of those the answer reached back to, that starts    *)
(* before the end of what is held or buffered, so the chart need only be    *)
(* updated at its end (updateCandles).                                      *)
Ordered ==
    /\ \A i \in Interval : i = active =>
          \A c \in Coming(i) : c.start >= since => AtTheEnd(held, c)
    /\ \A i \in Interval : i = pending =>
          \A b \in buffered : \A c \in Coming(i) : b.start <= c.start

(* cs has every candle from n up to its last.                               *)
Whole(cs, n) == \A c \in cs : \A k \in n..c.start : \E d \in cs : d.start = k

(* What is held begins no later than an answer given now would.             *)
SinceInv == since \in Nat /\ \A i \in Interval : i = active => since <= Newest(i)

(* The requests: one at most is current, of the pending interval, and its   *)
(* answer with what is buffered and coming has all the server's candles     *)
(* from where it begins.                                                    *)
RequestInv ==
    /\ requests \in SUBSET Request
    /\ \A r, q \in requests : r.current /\ q.current => r = q
    /\ \A r \in requests : r.current => r.interval = pending
    /\ pending # None => \E r \in requests : r.current
    /\ \A r \in requests : r.current /\ r.answered =>
          /\ AllKnown(r.candles, r.interval) /\ Whole(r.candles, r.from)
          /\ r.from <= Newest(r.interval)
          /\ active = pending => Covers(From(r.from, held), r.candles)
    /\ \A r \in requests : r.current /\ r.streamed =>
          /\ r.answered
          /\ served = pending /\ uplink = << >>
          /\ \A i \in Interval : i = pending => Tracked(r.candles \cup buffered, i, r.from)

(* When nothing was lost, what is held and what is coming together have all *)
(* the server's candles from where the answer began.                        *)
CoveredInv ==
    covered => /\ pending = None /\ active = interval /\ interval # None
               /\ served = interval /\ uplink = << >>
               /\ \A i \in Interval : i = active => Tracked(held, i, since)

(* The server's candles are a series that is known and whole.               *)
LEMMA CandlesAreKnown ==
  ASSUME Server, NEW i \in Interval
  PROVE  /\ Candles(i) \in SUBSET Candle
         /\ \A c \in Candles(i) : Known(c, i, series[i])
         /\ \A n \in Nat \ {0} : Whole(From(n, Candles(i)), n)
         /\ \A cs, n : Tracked(cs, i, n) <=> From(n, Candles(i)) \subseteq cs \cup Coming(i)
<1>1. series[i] \in Seq(Version) /\ Len(series[i]) \in Nat
  BY LenProperties DEF Server, SeriesInv
<1>2. \A k \in 1..Len(series[i]) :
         /\ At(i, series[i], k) \in Candles(i) /\ At(i, series[i], k).start = k
         /\ Known(At(i, series[i], k), i, series[i])
  BY <1>1, AtIsKnown DEF Candles
<1>3. ASSUME NEW c \in Candles(i) PROVE \E k \in 1..Len(series[i]) : c = At(i, series[i], k)
  BY DEF Candles
<1>4. \A c \in Candles(i) : c \in Candle /\ Known(c, i, series[i])
  BY <1>2, <1>3 DEF Known
<1>5. ASSUME NEW n \in Nat \ {0}, NEW c \in From(n, Candles(i)), NEW k \in n..c.start
      PROVE  \E d \in From(n, Candles(i)) : d.start = k
  <2>1. c.start \in 1..Len(series[i])
    BY <1>4 DEF Known, From
  <2>2. k \in 1..Len(series[i]) /\ k >= n
    BY <1>1, <2>1
  <2>3. At(i, series[i], k) \in From(n, Candles(i))
    BY <1>2, <2>2 DEF From
  <2> QED
    BY <1>2, <2>2, <2>3
<1>6. ASSUME NEW cs, NEW n
      PROVE  Tracked(cs, i, n) <=> From(n, Candles(i)) \subseteq cs \cup Coming(i)
  BY <1>2, <1>3 DEF Tracked, From
<1>7. \A n \in Nat \ {0} : Whole(From(n, Candles(i)), n)
  BY <1>5 DEF Whole
<1> QED
  BY <1>4, <1>6, <1>7

(* What is known is covered by the server's own candles, from n on.         *)
LEMMA KnownIsCovered ==
  ASSUME Server, NEW i \in Interval, NEW cs, \A c \in cs : Known(c, i, series[i]),
         NEW n
  PROVE  Covers(From(n, cs), From(n, Candles(i)))
<1> SUFFICES ASSUME NEW c \in cs, c.start >= n
             PROVE  \E d \in From(n, Candles(i)) : d.start = c.start /\ ~IsNewer(c, d)
  BY DEF Covers, From
<1>1. c.start \in 1..Len(series[i]) /\ ~IsNewer(c, At(i, series[i], c.start))
  BY DEF Known
<1>2. At(i, series[i], c.start).start = c.start
  BY DEF At
<1>3. At(i, series[i], c.start) \in From(n, Candles(i))
  BY <1>1, <1>2 DEF Candles, From
<1> QED
  BY <1>1, <1>2, <1>3

(* What is held is known of the interval shown.                             *)
LEMMA HeldIsKnown ==
  ASSUME HeldInv, NEW i \in Interval
  PROVE  /\ i = active => SeriesOf(held, i) /\ \A c \in held : Known(c, i, series[i])
         /\ i = pending => \A c \in buffered : Known(c, i, series[i])
BY DEF HeldInv, AllKnown

(* What a frame does, of the scope that is awaited, shown, or neither.     *)
LEMMA DeliverCases ==
  ASSUME Server, HeldInv, Deliver
  PROVE  \/ /\ UNCHANGED <<buffered, held, chart, needsFull>>
            /\ \/ feed[1].interval # interval
               \/ pending # None /\ feed[1].interval # pending
               \/ pending = None /\ feed[1].interval # active
         \/ /\ pending # None /\ feed[1].interval = pending
            /\ buffered' = buffered \cup feed[1].candles
            /\ UNCHANGED <<held, chart, needsFull>>
         \/ /\ pending = None /\ feed[1].interval = active
            /\ UNCHANGED buffered /\ Show(feed[1].candles)
BY DeliverChannels DEF Deliver, OnCandles

(* What a frame carries is known of its interval.                           *)
LEMMA FrameIsKnown ==
  ASSUME Server, Deliver
  PROVE  feed[1].interval \in Interval
         /\ \A c \in feed[1].candles : Known(c, feed[1].interval, series[feed[1].interval])
<1>1. 1 \in 1..Len(feed) /\ feed[1] \in Fed
  BY DeliverChannels
<1> QED
  BY <1>1 DEF Server, ChannelsKnown, AllKnown, Fed

(* What showing a frame does: what is held is covered still, and new candles*)
(* are the frame's.                                                         *)
LEMMA ShowKeeps ==
  ASSUME Server, HeldInv, NEW i \in Interval, i = active,
         NEW cs, \A c \in cs : Known(c, i, series[i]), Show(cs)
  PROVE  /\ held' \subseteq held \cup cs /\ SeriesOf(held', i)
         /\ Covers(held, held') /\ Covers(cs, held')
         /\ \A c \in held' : Known(c, i, series[i])
         /\ needsFull' \in BOOLEAN
         /\ paused => chart' = chart /\ (chart' = held' \/ needsFull')
         /\ ~paused => chart = held /\ chart' = held' /\ ~needsFull'
<1> DEFINE update == Newer(cs, held)
<1>1. /\ held' = Updated(held, update)
      /\ chart' = IF paused THEN chart ELSE Updated(chart, update)
      /\ needsFull' = (needsFull \/ (paused /\ update # {}))
  BY DEF Show, Newer
<1>2. series[i] \in Seq(Version) /\ SeriesOf(held, i) /\ \A c \in held : Known(c, i, series[i])
  BY HeldIsKnown DEF Server, SeriesInv
<1>3. /\ held' \subseteq held \cup cs /\ SeriesOf(held', i)
      /\ Covers(held, held') /\ Covers(cs, held')
  <2> HIDE DEF update
  <2>1. \A old : SeriesOf(old, i) /\ (\A c \in old : Known(c, i, series[i])) =>
           LET new == Updated(old, Newer(cs, old))
           IN  /\ new \subseteq old \cup cs /\ SeriesOf(new, i)
               /\ Covers(old, new) /\ Covers(cs, new)
    BY <1>2, UpdateCovers
  <2> QED
    BY <1>1, <1>2, <2>1 DEF update
<1>4. update = {} => Updated(held, update) = held
  BY DEF Updated
<1>5. paused \in BOOLEAN /\ needsFull \in BOOLEAN
      /\ (chart = held \/ (paused /\ needsFull)) /\ (~paused => ~needsFull)
  BY DEF HeldInv, ChartShowsHeld
<1> HIDE DEF update
<1>6. paused => chart' = chart /\ (chart' = held' \/ needsFull')
  BY <1>1, <1>4, <1>5
<1>7. ~paused => chart = held /\ chart' = held' /\ ~needsFull'
  BY <1>1, <1>5
<1> QED
  BY <1>1, <1>2, <1>3, <1>5, <1>6, <1>7

(* The answer awaited, merged with what was buffered.                      *)
LEMMA ArriveMerges ==
  ASSUME Server, HeldInv, RequestInv, NEW r \in requests, Arrive(r), r.current
  PROVE  /\ r.interval \in Interval /\ pending = r.interval /\ active' = r.interval
         /\ r.answered /\ requests' = requests \ {r} /\ pending' = None /\ buffered' = {}
         /\ covered' = r.streamed /\ since' = r.from /\ UNCHANGED paused
         /\ held' = MergeCandles(r.candles \cup buffered)
         /\ chart' = (IF paused THEN {} ELSE held') /\ needsFull' = (needsFull \/ paused)
         /\ \A c \in r.candles \cup buffered : Known(c, r.interval, series[r.interval])
         /\ Covers(r.candles \cup buffered, held') /\ held' \subseteq r.candles \cup buffered
         /\ SeriesOf(held', r.interval)
         /\ UNCHANGED <<serverVars, uplink, feed, connected, interval, spent>>
<1>1. r \in Request /\ pending = r.interval /\ r.answered
  BY DEF RequestInv, Arrive
<1>2. r.interval \in Interval /\ AllKnown(r.candles, r.interval)
  BY <1>1 DEF RequestInv, Request
<1>3. \A c \in r.candles \cup buffered : Known(c, r.interval, series[r.interval])
  BY <1>1, <1>2 DEF HeldInv, AllKnown
<1>4. /\ requests' = requests \ {r} /\ active' = r.interval
      /\ held' = MergeCandles(r.candles \cup buffered)
      /\ pending' = None /\ buffered' = {} /\ covered' = r.streamed /\ since' = r.from
      /\ UNCHANGED paused
      /\ chart' = (IF paused THEN {} ELSE MergeCandles(r.candles \cup buffered))
      /\ needsFull' = (needsFull \/ paused)
      /\ UNCHANGED <<serverVars, uplink, feed, connected, interval, spent>>
  BY DEF Arrive, NewSession
<1>5. ASSUME NEW i \in Interval, NEW cs, \A c \in cs : Known(c, i, series[i])
      PROVE  /\ Covers(cs, MergeCandles(cs)) /\ SeriesOf(MergeCandles(cs), i)
             /\ MergeCandles(cs) \subseteq cs
  <2>1. series[i] \in Seq(Version) /\ cs \in SUBSET Candle /\ \A c \in cs : c.interval = i
    BY <1>5 DEF Known, Server, SeriesInv
  <2>2. Covers(cs, MergeCandles(cs))
    BY <1>5, <2>1, MergeCovers
  <2>3. SeriesOf(MergeCandles(cs), i)
    BY <2>1, MergeIsSeries
  <2> QED
    BY <2>2, <2>3 DEF MergeCandles
<1> QED
  BY <1>1, <1>2, <1>3, <1>4, <1>5

(* Every step keeps what holds of the client.                               *)
LEMMA HeldPreserved ==
  ASSUME Server, HeldInv, RequestInv, [Next]_vars
  PROVE  HeldInv'
<1>1. /\ active \in Interval \cup {None} /\ pending \in Interval \cup {None}
      /\ pending # None => pending = interval
      /\ paused \in BOOLEAN /\ needsFull \in BOOLEAN /\ covered \in BOOLEAN
      /\ SeriesOf(held, active) /\ SeriesOf(chart, active)
      /\ ChartShowsHeld /\ (needsFull => active # None)
  BY DEF HeldInv
<1>2. /\ held # {} => active \in Interval /\ \A c \in held : Known(c, active, series'[active])
      /\ chart # {} => active \in Interval /\ \A c \in chart : Known(c, active, series'[active])
      /\ buffered # {} => pending \in Interval /\ \A c \in buffered : Known(c, pending, series'[pending])
  <2>1. SeriesInv /\ AllKnown(held, active) /\ AllKnown(chart, active) /\ AllKnown(buffered, pending)
    BY DEF HeldInv, Server
  <2>2. held # {} => active \in Interval /\ \A c \in held : Known(c, active, series'[active])
    BY <2>1, StillAllKnown
  <2>3. chart # {} => active \in Interval /\ \A c \in chart : Known(c, active, series'[active])
    BY <2>1, StillAllKnown
  <2>4. buffered # {} => pending \in Interval /\ \A c \in buffered : Known(c, pending, series'[pending])
    BY <2>1, StillAllKnown
  <2> QED
    BY <2>2, <2>3, <2>4
<1>3. CASE /\ UNCHANGED <<interval, pending, buffered, active, held, chart, paused, needsFull>>
           /\ covered' \in BOOLEAN
  BY <1>1, <1>2, <1>3 DEF HeldInv, AllKnown, ChartShowsHeld
<1>4. CASE /\ pending' \in Interval \cup {None} /\ (pending' # None => pending' = interval')
           /\ buffered' = {} /\ covered' \in BOOLEAN
           /\ UNCHANGED <<active, held, chart, paused, needsFull>>
  BY <1>1, <1>2, <1>4 DEF HeldInv, AllKnown, ChartShowsHeld
<1>5. ASSUME NEW i \in Interval, SelectInterval(i)
      PROVE  HeldInv'
  BY <1>4, <1>5 DEF SelectInterval, Select
<1>6. CASE Refresh \/ Hello
  BY <1>4, <1>6 DEF Refresh, Hello, Select, Server, ChannelTypes
<1>7. ASSUME NEW r \in requests, Fail(r)
      PROVE  HeldInv'
  BY <1>1, <1>4, <1>7 DEF Fail, chartVars
<1>8. ASSUME NEW r \in requests, Arrive(r)
      PROVE  HeldInv'
  <2>1. CASE ~r.current
    BY <1>1, <1>3, <1>8, <2>1 DEF Arrive, chartVars
  <2>2. CASE r.current
    <3>1. /\ r.interval \in Interval /\ active' = r.interval /\ pending' = None /\ buffered' = {}
          /\ UNCHANGED <<paused, series>>
          /\ chart' = (IF paused THEN {} ELSE held') /\ needsFull' = (needsFull \/ paused)
          /\ SeriesOf(held', r.interval)
      BY <1>8, <2>2, ArriveMerges DEF serverVars
    <3>2. covered' \in BOOLEAN
      BY <1>8, <2>2, ArriveMerges DEF RequestInv, Request
    <3>3. \A c \in held' : Known(c, r.interval, series[r.interval])
      BY <1>8, <2>2, ArriveMerges
    <3>4. AllKnown(held, active)' /\ AllKnown(chart, active)' /\ AllKnown(buffered, pending)'
      BY <3>1, <3>3 DEF AllKnown
    <3>5. SeriesOf(chart', r.interval)
      BY <3>1 DEF SeriesOf
    <3>6. ChartShowsHeld'
      BY <1>1, <3>1 DEF ChartShowsHeld
    <3>7. needsFull' \in BOOLEAN /\ paused' \in BOOLEAN /\ active' # None
      BY <1>1, <3>1, NoneAssumption
    <3> QED
      BY <3>1, <3>2, <3>4, <3>5, <3>6, <3>7 DEF HeldInv
  <2> QED
    BY <2>1, <2>2
<1>9. CASE Deliver
  <2>1. UNCHANGED <<series, interval, pending, active, paused, covered>>
    BY <1>9 DEF Deliver, serverVars
  <2>2. CASE UNCHANGED <<buffered, held, chart, needsFull>>
    BY <1>1, <1>3, <2>1, <2>2
  <2>3. CASE /\ pending # None /\ feed[1].interval = pending
             /\ buffered' = buffered \cup feed[1].candles
             /\ UNCHANGED <<held, chart, needsFull>>
    <3>1. AllKnown(buffered, pending)'
      BY <1>1, <1>9, <2>1, <2>3, FrameIsKnown DEF AllKnown, HeldInv
    <3>2. AllKnown(held, active)' /\ AllKnown(chart, active)'
      BY <1>2, <2>1, <2>3 DEF AllKnown
    <3> QED
      BY <1>1, <2>1, <2>3, <3>1, <3>2 DEF HeldInv, ChartShowsHeld
  <2>4. CASE /\ pending = None /\ feed[1].interval = active
             /\ UNCHANGED buffered /\ Show(feed[1].candles)
    <3>1. active \in Interval /\ \A c \in feed[1].candles : Known(c, active, series[active])
      BY <1>9, <2>4, FrameIsKnown
    <3>2. /\ SeriesOf(held', active) /\ \A c \in held' : Known(c, active, series[active])
          /\ needsFull' \in BOOLEAN
          /\ paused => chart' = chart /\ (chart' = held' \/ needsFull')
          /\ ~paused => chart = held /\ chart' = held' /\ ~needsFull'
      <4>1. \A i \in Interval : i = active =>
               /\ SeriesOf(held', i) /\ \A c \in held' : Known(c, i, series[i])
               /\ needsFull' \in BOOLEAN
               /\ paused => chart' = chart /\ (chart' = held' \/ needsFull')
               /\ ~paused => chart = held /\ chart' = held' /\ ~needsFull'
        BY <2>4, <3>1, ShowKeeps
      <4> QED
        BY <3>1, <4>1
    <3>3. AllKnown(held, active)'
      BY <2>1, <3>1, <3>2 DEF AllKnown
    <3>4. AllKnown(chart, active)' /\ SeriesOf(chart', active)
      BY <1>1, <1>2, <2>1, <3>1, <3>2, <3>3 DEF AllKnown
    <3>5. AllKnown(buffered, pending)'
      BY <1>2, <2>1, <2>4 DEF AllKnown
    <3>6. ChartShowsHeld'
      BY <1>1, <2>1, <3>2 DEF ChartShowsHeld
    <3> QED
      BY <1>1, <2>1, <3>1, <3>2, <3>3, <3>4, <3>5, <3>6, NoneAssumption DEF HeldInv
  <2> QED
    BY <1>9, <2>2, <2>3, <2>4, DeliverCases
<1>10. ASSUME NEW p \in BOOLEAN, SetRenderingPaused(p)
      PROVE  HeldInv'
  <2>1. /\ p # paused /\ paused' = p
        /\ UNCHANGED <<series, interval, pending, buffered, active, held, covered>>
        /\ \/ /\ p \/ ~needsFull \/ active = None
              /\ UNCHANGED <<chart, needsFull>>
           \/ ~p /\ chart' = held /\ needsFull' = FALSE
    BY <1>10 DEF SetRenderingPaused, serverVars, historyVars
  <2>2. AllKnown(held, active)' /\ AllKnown(buffered, pending)' /\ AllKnown(chart, active)'
    BY <1>2, <2>1 DEF AllKnown
  <2>3. SeriesOf(chart', active)
    BY <1>1, <2>1
  <2>4. /\ chart' = held \/ (paused' /\ needsFull')
        /\ ~paused' => ~needsFull'
        /\ needsFull' \in BOOLEAN /\ (needsFull' => active # None)
    <3>0. /\ chart = held \/ (paused /\ needsFull)
          /\ ~paused => ~needsFull
          /\ needsFull => active # None
      BY <1>1 DEF ChartShowsHeld
    <3>1. CASE paused
      <4>1. paused' = FALSE /\ ~p
        BY <1>10, <1>1, <2>1, <3>1
      <4>2. CASE UNCHANGED <<chart, needsFull>> /\ (~needsFull \/ active = None)
        BY <1>1, <3>0, <4>1, <4>2
      <4>3. CASE chart' = held /\ needsFull' = FALSE
        BY <4>1, <4>3
      <4> QED
        BY <2>1, <3>0, <4>1, <4>2, <4>3
    <3>2. CASE ~paused
      <4>1. paused' = TRUE
        BY <1>10, <1>1, <2>1, <3>2
      <4> QED
        BY <1>1, <2>1, <3>0, <3>2, <4>1
    <3> QED
      BY <3>1, <3>2
  <2> QED
    BY <1>1, <2>1, <2>2, <2>3, <2>4 DEF HeldInv, ChartShowsHeld
<1>11. CASE /\ UNCHANGED <<interval, pending, buffered, active, held, chart, paused, needsFull>>
            /\ UNCHANGED covered \/ covered' = FALSE
  BY <1>1, <1>3, <1>11
<1> QED
  BY <1>5, <1>6, <1>7, <1>8, <1>9, <1>10, <1>11, ZenonT(40)
     DEF Next, Tick, HandleFrame, Answer, Disconnect, historyVars, chartVars, vars

(* What starts at the end, or not before, still does when the server adds. *)
LEMMA OrderKept ==
  ASSUME Server, [Next]_vars, NEW i \in Interval, NEW n,
         NEW cs, \A d \in cs : Known(d, i, series[i])
  PROVE  /\ (\A c \in Coming(i) : c.start >= n => AtTheEnd(cs, c))
               => \A c \in Coming(i)' : c.start >= n => AtTheEnd(cs, c)
         /\ (\A c \in Coming(i) : \A b \in cs : b.start <= c.start)
               => \A c \in Coming(i)' : \A b \in cs : b.start <= c.start
<1>1. ASSUME NEW c \in Coming(i)', c \notin Coming(i)
      PROVE  \A b \in cs : b.start \in Nat /\ c.start \in Nat /\ b.start <= c.start
  <2>1. PICK ended \in SUBSET Interval, trades \in BOOLEAN, flush \in BOOLEAN :
           Tick(ended, trades, flush)
    BY <1>1, ComingShrinks
  <2>2. c.start >= Len(series[i])
    BY <1>1, <2>1, ComingOfTick
  <2>3. Server'
    BY ServerPreserved
  <2>4. c \in Candle
    <3>1. Known(c, i, series'[i])
      <4>1. \/ c \in finals' \cup latest' /\ served' = i
            \/ \E k \in 1..Len(feed') : feed'[k].interval = i /\ c \in feed'[k].candles
        BY <1>1, ComingInNext
      <4> QED
        BY <2>3, <4>1 DEF Server, ChannelsKnown, AllKnown
    <3> QED
      BY <3>1 DEF Known
  <2>5. Len(series[i]) \in Nat /\ c.start \in Nat
    BY <2>4, LenProperties DEF Server, SeriesInv, Candle
  <2> QED
    BY <2>2, <2>5 DEF Known
<1>2. ASSUME NEW c \in Coming(i)', c.start >= n,
             \A d \in Coming(i) : d.start >= n => AtTheEnd(cs, d)
      PROVE  AtTheEnd(cs, c)
  BY <1>1, <1>2 DEF AtTheEnd
<1>3. ASSUME NEW c \in Coming(i)', \A d \in Coming(i) : \A b \in cs : b.start <= d.start
      PROVE  \A b \in cs : b.start <= c.start
  BY <1>1, <1>3
<1> QED
  BY <1>2, <1>3

(* Every step keeps that order.                                             *)
LEMMA OrderedPreserved ==
  ASSUME Server, HeldInv, RequestInv, Ordered, [Next]_vars
  PROVE  Ordered'
<1> SUFFICES ASSUME NEW i \in Interval
             PROVE  /\ i = active' => \A c \in Coming(i)' : c.start >= since' => AtTheEnd(held', c)
                    /\ i = pending' => \A b \in buffered' : \A c \in Coming(i)' : b.start <= c.start
  BY DEF Ordered
<1>1. /\ i = active => /\ \A c \in held : Known(c, i, series[i])
                       /\ \A c \in Coming(i) : c.start >= since => AtTheEnd(held, c)
      /\ i = pending => /\ \A c \in buffered : Known(c, i, series[i])
                        /\ \A c \in Coming(i) : \A b \in buffered : b.start <= c.start
  BY HeldIsKnown DEF Ordered
<1>2. i = active => \A c \in Coming(i)' : c.start >= since => AtTheEnd(held, c)
  BY <1>1, OrderKept
<1>3. i = pending => \A c \in Coming(i)' : \A b \in buffered : b.start <= c.start
  BY <1>1, OrderKept
<1>4. CASE UNCHANGED <<active, held, since>> /\ (UNCHANGED <<pending, buffered>> \/ buffered' = {})
  BY <1>2, <1>3, <1>4
<1>5. ASSUME NEW r \in requests, Arrive(r)
      PROVE  /\ i = active' => \A c \in Coming(i)' : c.start >= since' => AtTheEnd(held', c)
             /\ i = pending' => \A b \in buffered' : \A c \in Coming(i)' : b.start <= c.start
  <2>1. CASE ~r.current
    BY <1>4, <1>5, <2>1 DEF Arrive, chartVars
  <2>2. CASE r.current
    <3> DEFINE both == r.candles \cup buffered
    <3>1. /\ r.interval \in Interval /\ pending = r.interval /\ active' = r.interval
          /\ pending' = None /\ buffered' = {} /\ r.answered /\ since' = r.from
          /\ Covers(both, held') /\ held' \subseteq both
          /\ \A c \in both : Known(c, r.interval, series[r.interval])
      BY <1>5, <2>2, ArriveMerges
    <3>2. Whole(r.candles, r.from) /\ r.candles \subseteq Candle /\ r.from \in Nat
      BY <2>2, <3>1 DEF RequestInv, Request
    <3>3. ASSUME i = r.interval, NEW c \in Coming(i)', c.start >= since'
          PROVE  AtTheEnd(held', c)
      <4>1. c \in Coming(i)
        <5>1. UNCHANGED <<finals, latest, served, feed>>
          BY <1>5 DEF Arrive, serverVars
        <5> QED
          BY <5>1, <3>3, ComingIn, ComingInNext
      <4>2. Known(c, i, series[i])
        BY <4>1, ComingIsKnown
      <4>3. c.start \in Nat \ {0}
        BY <4>2 DEF Known, Candle
      <4>4. ASSUME NEW d \in both, d.start >= c.start
            PROVE  \E e \in both : e.start = c.start
        <5>1. CASE d \in buffered
          <6>1. d.start <= c.start /\ d.start \in Nat
            BY <1>1, <3>1, <3>3, <4>1, <5>1 DEF Known, Candle
          <6> QED
            BY <4>3, <4>4, <5>1, <6>1
        <5>2. CASE d \in r.candles
          <6>1. d.start \in Nat
            BY <3>2, <5>2 DEF Candle
          <6>2. c.start \in r.from..d.start
            BY <3>1, <3>2, <3>3, <4>3, <4>4, <6>1
          <6>3. \E e \in r.candles : e.start = c.start
            BY <3>2, <5>2, <6>2 DEF Whole
          <6> QED
            BY <6>3
        <5> QED
          BY <5>1, <5>2
      <4>5. ASSUME NEW e \in both, e.start = c.start PROVE \E d \in held' : d.start = c.start
        BY <3>1, <4>5 DEF Covers
      <4>6. \A d \in held' : d \in both /\ d.start \in Nat
        BY <3>1 DEF Known, Candle
      <4> HIDE DEF both
      <4> QED
        BY <4>3, <4>4, <4>5, <4>6 DEF AtTheEnd
    <3> QED
      BY <3>1, <3>3
  <2> QED
    BY <2>1, <2>2
<1>6. CASE Deliver
  <2>1. UNCHANGED <<pending, active, since>>
    BY <1>6 DEF Deliver
  <2>2. CASE UNCHANGED <<buffered, held, chart, needsFull>>
    BY <1>4, <2>1, <2>2
  <2>3. CASE /\ pending # None /\ feed[1].interval = pending
             /\ buffered' = buffered \cup feed[1].candles
             /\ UNCHANGED <<held, chart, needsFull>>
    <3>1. i = pending => \A b \in feed[1].candles : \A c \in Coming(i)' : b.start <= c.start
      BY <1>6, <2>3, ComingOfDeliver
    <3> QED
      BY <1>2, <1>3, <2>1, <2>3, <3>1
  <2>4. CASE /\ pending = None /\ feed[1].interval = active
             /\ UNCHANGED buffered /\ Show(feed[1].candles)
    <3>1. i = active => \A c \in feed[1].candles : Known(c, i, series[i])
      BY <1>6, <2>4, FrameIsKnown
    <3>2. i = active => held' \subseteq held \cup feed[1].candles /\ Covers(held, held')
      BY <2>4, <3>1, ShowKeeps
    <3>3. i = active => \A b \in feed[1].candles : \A c \in Coming(i)' : b.start <= c.start
      BY <1>6, <2>4, ComingOfDeliver
    <3>4. ASSUME i = active, NEW c \in Coming(i)', c.start >= since PROVE AtTheEnd(held', c)
      <4>1. CASE \E d \in held : d.start = c.start
        BY <3>2, <3>4, <4>1 DEF AtTheEnd, Covers
      <4>2. CASE \A d \in held : d.start < c.start
        <5>1. c.start \in Nat
          BY <1>6, <3>4, ComingOfDeliver, ComingIsKnown DEF Known, Candle
        <5>2. \A d \in feed[1].candles : d.start \in Nat /\ d.start <= c.start
          BY <3>1, <3>3, <3>4 DEF Known, Candle
        <5> QED
          BY <3>2, <3>4, <4>2, <5>1, <5>2 DEF AtTheEnd
      <4> QED
        BY <1>2, <3>4, <4>1, <4>2 DEF AtTheEnd
    <3> QED
      BY <1>3, <2>1, <2>4, <3>4
  <2> QED
    BY <1>6, <2>2, <2>3, <2>4, DeliverCases
<1> QED
  BY <1>4, <1>5, <1>6, ZenonT(40)
     DEF Next, Tick, HandleFrame, Answer, Fail, SelectInterval, Refresh, Hello, Select,
         SetRenderingPaused, Disconnect, historyVars, chartVars, vars

(* What is coming and what the server has unchanged, what was tracked still *)
(* is.                                                                      *)
LEMMA TrackedKept ==
  ASSUME Server, NEW i \in Interval, NEW cs, NEW n, Tracked(cs, i, n),
         UNCHANGED <<series, finals, latest, served, feed>>
  PROVE  Tracked(cs, i, n)'
<1>1. \A c : c \in Coming(i)' <=> c \in Coming(i)
  BY ComingIn, ComingInNext
<1> QED
  BY <1>1 DEF Tracked

(* What was tracked still is when the frame taken is among what is held or  *)
(* buffered.                                                                *)
LEMMA TrackedThroughDeliver ==
  ASSUME Server, Deliver, NEW i \in Interval, NEW cs, NEW n, Tracked(cs, i, n), NEW ds,
         \A k \in 1..Len(series[i]) :
            At(i, series[i], k) \in cs \/ (feed[1].interval = i /\ At(i, series[i], k) \in feed[1].candles)
               => At(i, series[i], k) \in ds
  PROVE  Tracked(ds, i, n)'
<1>1. UNCHANGED series
  BY DEF Deliver, serverVars
<1>2. \A c : c \in Coming(i) => \/ c \in Coming(i)'
                                \/ feed[1].interval = i /\ c \in feed[1].candles
  BY ComingOfDeliver
<1> QED
  BY <1>1, <1>2 DEF Tracked

(* An answer that is not lost is whole, and joined without a gap.          *)
Sound(r, i, cs) ==
    /\ r.interval = i
    /\ r.answered => /\ \A c \in r.candles : Known(c, i, series[i])
                     /\ Whole(r.candles, r.from)
                     /\ r.from \in Nat /\ r.from <= Newest(i)
                     /\ active = i => Covers(From(r.from, held), r.candles)
    /\ r.streamed => /\ r.answered /\ served = i /\ uplink = << >>
                     /\ Tracked(r.candles \cup cs, i, r.from)

(* The current request is sound.                                            *)
LEMMA RequestIsSound ==
  ASSUME RequestInv, NEW r \in requests, r.current
  PROVE  r.interval \in Interval /\ pending = r.interval /\ Sound(r, r.interval, buffered)
BY DEF RequestInv, Request, AllKnown, Sound

(* The requests of the next state are as they should be when the current   *)
(* one is.                                                                 *)
LEMMA SoundSuffices ==
  ASSUME requests' \in SUBSET Request,
         \A r, q \in requests' : r.current /\ q.current => r = q,
         pending' # None => \E r \in requests' : r.current,
         \A r \in requests' : r.current => r.interval = pending',
         \A r \in requests' : r.current => Sound(r, r.interval, buffered)'
  PROVE  RequestInv'
<1>1. ASSUME NEW r \in requests', r.current, r.answered
      PROVE  /\ AllKnown(r.candles, r.interval)' /\ Whole(r.candles, r.from)
             /\ r.from <= Newest(r.interval)'
             /\ active' = pending' => Covers(From(r.from, held'), r.candles)
  BY <1>1 DEF Sound, AllKnown, Request
<1>2. ASSUME NEW r \in requests', r.current, r.streamed
      PROVE  /\ r.answered /\ served' = pending' /\ uplink' = << >>
             /\ \A i \in Interval : i = pending' => Tracked(r.candles \cup buffered, i, r.from)'
  BY <1>2 DEF Sound, Request, Tracked
<1> QED
  BY <1>1, <1>2 DEF RequestInv

(* A request stays sound through the steps that touch neither it nor the    *)
(* buffer.                                                                  *)
LEMMA SoundKept ==
  ASSUME Server, [Next]_vars, NEW i \in Interval, NEW r, Sound(r, i, buffered),
         UNCHANGED <<active, held, buffered, uplink, served>>,
         \/ UNCHANGED <<series, finals, latest, feed>>
         \/ \E ended \in SUBSET Interval, trades, flush \in BOOLEAN : Tick(ended, trades, flush)
  PROVE  Sound(r, i, buffered)'
<1>1. \A c : Known(c, i, series[i]) => Known(c, i, series'[i])
  BY StillKnown DEF Server
<1>2. ASSUME NEW cs, NEW n, Tracked(cs, i, n), served = i
      PROVE  \A k \in 1..Len(series'[i]) : k >= n => At(i, series'[i], k) \in cs \cup Coming(i)'
  <2>1. Tracked(cs, i, n)'
    BY <1>2, TrackedKept, TrackedThroughTick
  <2> QED
    BY <2>1 DEF Tracked
<1>3. r.streamed => Tracked(r.candles \cup buffered, i, r.from)'
  <2>1. r.streamed => \A k \in 1..Len(series'[i]) : k >= r.from =>
           At(i, series'[i], k) \in (r.candles \cup buffered) \cup Coming(i)'
    BY <1>2 DEF Sound
  <2> QED
    BY <2>1 DEF Tracked
<1>4. r.answered => r.from \in Nat /\ r.from <= Newest(i)'
  <2>1. Newest(i) \in Nat /\ Newest(i)' \in Nat /\ Newest(i) <= Newest(i)'
    BY NewestGrows DEF Server
  <2>2. r.answered => r.from \in Nat /\ r.from <= Newest(i)
    BY DEF Sound
  <2> QED
    BY <2>1, <2>2
<1> QED
  BY <1>1, <1>3, <1>4 DEF Sound

(* Every step keeps the requests as they should be: the buffer is emptied   *)
(* only when a request starts, ends or is dropped.                          *)
LEMMA RequestsPreserved ==
  ASSUME Server, HeldInv, RequestInv, [Next]_vars
  PROVE  RequestInv'
<1>0. /\ requests \in SUBSET Request
      /\ \A r, q \in requests : r.current /\ q.current => r = q
      /\ pending # None => \E r \in requests : r.current
      /\ \A r \in requests : r.current => r.interval = pending
  BY DEF RequestInv
<1>1. \A r \in requests : r.current =>
         r.interval \in Interval /\ pending = r.interval /\ Sound(r, r.interval, buffered)
  BY RequestIsSound
<1>2. ASSUME UNCHANGED <<requests, pending>>,
             \A r \in requests : r.current => Sound(r, r.interval, buffered)'
      PROVE  RequestInv'
  BY <1>0, <1>2, SoundSuffices
<1>3. CASE /\ UNCHANGED <<requests, pending, active, held, buffered, uplink, served>>
           /\ \/ UNCHANGED <<series, finals, latest, feed>>
              \/ \E ended \in SUBSET Interval, trades, flush \in BOOLEAN : Tick(ended, trades, flush)
  <2>1. \A r \in requests : r.current => Sound(r, r.interval, buffered)'
    BY <1>1, <1>3, SoundKept
  <2> QED
    BY <1>2, <1>3, <2>1
<1>4. CASE HandleFrame
  <2>1. /\ UNCHANGED <<requests, pending, active, held, buffered, series>> /\ uplink # << >>
    BY <1>4 DEF HandleFrame, historyVars, chartVars
  <2>2. ASSUME NEW r \in requests, r.current PROVE Sound(r, r.interval, buffered)'
    <3>1. Sound(r, r.interval, buffered) /\ ~r.streamed
      BY <1>1, <2>1, <2>2 DEF Sound
    <3> QED
      BY <2>1, <3>1 DEF Sound, Newest
  <2> QED
    BY <1>2, <2>1, <2>2
<1>5. ASSUME NEW q \in requests, Answer(q)
      PROVE  RequestInv'
  <2>0. PICK a : a = [q EXCEPT !.answered = TRUE, !.from = Newest(q.interval),
                               !.candles = From(Newest(q.interval), Candles(q.interval)),
                               !.streamed = (served = q.interval /\ uplink = << >>)]
    OBVIOUS
  <2>1. /\ requests' = (requests \ {q}) \cup {a}
        /\ UNCHANGED <<serverVars, uplink, feed, pending, buffered, active, held>>
    BY <1>5, <2>0 DEF Answer, chartVars
  <2>2. q \in Request /\ q.interval \in Interval
    BY <1>0 DEF Request
  <2>n. PICK n : n = Newest(q.interval)
    OBVIOUS
  <2>l. n \in Nat \ {0}
    <3>1. Len(series[q.interval]) \in Nat
      BY <2>2, LenProperties DEF Server, SeriesInv
    <3> QED
      BY <2>n, <3>1, LimitAssumption DEF Newest
  <2>3. /\ Candles(q.interval) \in SUBSET Candle
        /\ \A c \in Candles(q.interval) : Known(c, q.interval, series[q.interval])
        /\ Whole(From(n, Candles(q.interval)), n)
        /\ From(n, Candles(q.interval)) \subseteq Candles(q.interval)
    BY <2>2, <2>l, CandlesAreKnown DEF From
  <2>4. /\ a.current = q.current /\ a.interval = q.interval /\ a.answered /\ a.from = n
        /\ a.candles = From(n, Candles(q.interval))
        /\ a.streamed = (served = q.interval /\ uplink = << >>)
        /\ a \in Request
    BY <2>0, <2>2, <2>n, <2>l, <2>3 DEF Request
  <2>5. Sound(a, q.interval, buffered)
    <3>1. \A c \in a.candles : Known(c, q.interval, series[q.interval])
      BY <2>3, <2>4
    <3>2. active = q.interval => Covers(From(n, held), a.candles)
      <4>1. active = q.interval => \A c \in held : Known(c, q.interval, series[q.interval])
        BY <2>2, HeldIsKnown
      <4> QED
        BY <2>2, <2>4, <4>1, KnownIsCovered
    <3>3. Tracked(a.candles \cup buffered, q.interval, n)
      <4>1. \A i \in Interval : \A cs, m : From(m, Candles(i)) \subseteq cs => Tracked(cs, i, m)
        BY CandlesAreKnown
      <4> QED
        BY <2>2, <2>4, <4>1
    <3>4. a.streamed => served = q.interval /\ uplink = << >>
      BY <2>4
    <3> QED
      BY <2>n, <2>l, <2>3, <2>4, <3>1, <3>2, <3>3, <3>4 DEF Sound
  <2>6. Sound(a, q.interval, buffered)'
    BY <2>1, <2>2, <2>5, SoundKept DEF serverVars
  <2>7. ASSUME NEW r \in requests, r.current PROVE Sound(r, r.interval, buffered)'
    BY <1>1, <2>1, <2>7, SoundKept DEF serverVars
  <2>8. \A r \in requests' : r = a \/ (r \in requests /\ r # q)
    BY <2>1
  <2>9. requests' \in SUBSET Request
    BY <1>0, <2>1, <2>4
  <2>10. \A r, p \in requests' : r.current /\ p.current => r = p
    BY <1>0, <2>4, <2>8
  <2>11. pending' # None => \E r \in requests' : r.current
    BY <1>0, <2>1, <2>4
  <2>12. \A r \in requests' : r.current => r.interval = pending'
    BY <1>0, <2>1, <2>4, <2>8
  <2>13. \A r \in requests' : r.current => Sound(r, r.interval, buffered)'
    BY <2>4, <2>6, <2>7, <2>8
  <2> QED
    BY <2>9, <2>10, <2>11, <2>12, <2>13, SoundSuffices
<1>6. CASE \E i \in Interval \cup {None} : Select(i) /\ i # None
  <2>1. PICK i \in Interval : Select(i)
    BY <1>6
  <2>2. /\ pending' = i /\ requests' = {Aborted(r) : r \in requests} \cup {Asked(i)}
    BY <2>1 DEF Select
  <2>3. Asked(i) \in Request /\ Asked(i).current /\ ~Asked(i).answered /\ ~Asked(i).streamed
        /\ Asked(i).interval = i
    BY DEF Asked, Request
  <2>4. ASSUME NEW r \in requests PROVE Aborted(r) \in Request /\ ~Aborted(r).current
    <3>1. r \in Request
      BY <1>0
    <3> QED
      BY <3>1 DEF Aborted, Request
  <2>5. \A r \in requests' : r \in Request /\ (r.current => r = Asked(i))
    BY <2>2, <2>3, <2>4
  <2>6. Asked(i) \in requests'
    BY <2>2
  <2>7. \A r \in requests' : r.current => Sound(r, r.interval, buffered)'
    BY <2>3, <2>5 DEF Sound
  <2> QED
    BY <2>2, <2>3, <2>5, <2>6, <2>7, SoundSuffices
<1>7. ASSUME NEW q \in requests, q.current, requests' = requests \ {q}, pending' = None
      PROVE  RequestInv'
  <2>1. \A r \in requests' : r \in Request /\ ~r.current
    BY <1>0, <1>7
  <2> QED
    BY <1>7, <2>1, SoundSuffices
<1>8. ASSUME NEW q \in requests, Arrive(q)
      PROVE  RequestInv'
  <2>1. CASE q.current
    BY <1>7, <1>8, <2>1 DEF Arrive
  <2>2. CASE ~q.current
    <3>1. requests' = requests \ {q}
          /\ UNCHANGED <<serverVars, uplink, feed, pending, buffered, active, held>>
      BY <1>8, <2>2 DEF Arrive, chartVars
    <3>2. \A r \in requests : r.current => Sound(r, r.interval, buffered)'
      BY <1>1, <3>1, SoundKept DEF serverVars
    <3> QED
      BY <1>0, <2>2, <3>1, <3>2, SoundSuffices
  <2> QED
    BY <2>1, <2>2
<1>9. CASE Deliver
  <2>1. UNCHANGED <<requests, pending, active, serverVars, uplink>>
    BY <1>9 DEF Deliver
  <2>2. ASSUME NEW r \in requests, r.current PROVE Sound(r, r.interval, buffered)'
    <3> DEFINE i == r.interval
    <3>1. i \in Interval /\ pending = i /\ i = interval /\ pending # None /\ Sound(r, i, buffered)
      BY <1>1, <2>2, NoneAssumption DEF HeldInv
    <3>2. /\ held' = held
          /\ \/ feed[1].interval # i /\ buffered' = buffered
             \/ feed[1].interval = i /\ buffered' = buffered \cup feed[1].candles
      BY <1>9, <3>1, DeliverCases
    <3>3. r.streamed => Tracked(r.candles \cup buffered, i, r.from)'
      <4> HIDE DEF i
      <4>1. \A cs, ds, n :
               /\ Tracked(cs, i, n)
               /\ \A c : c \in cs \/ (feed[1].interval = i /\ c \in feed[1].candles) => c \in ds
               => \A k \in 1..Len(series'[i]) :
                     k >= n => At(i, series'[i], k) \in ds \cup Coming(i)'
        <5> SUFFICES ASSUME NEW cs, NEW ds, NEW n, Tracked(cs, i, n),
                            \A c : c \in cs \/ (feed[1].interval = i /\ c \in feed[1].candles) => c \in ds
                     PROVE  \A k \in 1..Len(series'[i]) :
                               k >= n => At(i, series'[i], k) \in ds \cup Coming(i)'
          OBVIOUS
        <5>1. Tracked(ds, i, n)'
          BY <1>9, <3>1, TrackedThroughDeliver
        <5> QED
          BY <5>1 DEF Tracked
      <4>2. r.streamed => Tracked(r.candles \cup buffered, i, r.from)
        BY <3>1 DEF Sound
      <4>3. \A c : c \in r.candles \cup buffered \/ (feed[1].interval = i /\ c \in feed[1].candles)
                     => c \in r.candles \cup buffered'
        BY <3>2
      <4>4. r.streamed => \A k \in 1..Len(series'[i]) : k >= r.from =>
               At(i, series'[i], k) \in (r.candles \cup buffered') \cup Coming(i)'
        BY <4>1, <4>2, <4>3
      <4> QED
        BY <4>4 DEF Tracked
    <3> QED
      BY <2>1, <3>1, <3>2, <3>3 DEF Sound, Newest, serverVars
  <2> QED
    BY <1>2, <2>1, <2>2
<1>10. CASE Disconnect
  <2>1. /\ requests' = {[r EXCEPT !.streamed = FALSE] : r \in requests}
        /\ UNCHANGED <<pending, active, held, series>>
    BY <1>10 DEF Disconnect
  <2>2. ASSUME NEW r \in requests'
        PROVE  \E q \in requests : /\ r.current = q.current /\ r.interval = q.interval
                                   /\ r.answered = q.answered /\ r.candles = q.candles
                                   /\ r.from = q.from /\ ~r.streamed /\ r \in Request
                                   /\ r = [q EXCEPT !.streamed = FALSE]
    <3>1. PICK q \in requests : r = [q EXCEPT !.streamed = FALSE]
      BY <2>1
    <3>2. q \in Request
      BY <1>0
    <3> QED
      BY <3>1, <3>2 DEF Request
  <2>3. ASSUME NEW r \in requests', NEW p \in requests', r.current, p.current PROVE r = p
    <3>1. PICK q \in requests : r.current = q.current /\ r = [q EXCEPT !.streamed = FALSE]
      BY <2>2
    <3>2. PICK s \in requests : p.current = s.current /\ p = [s EXCEPT !.streamed = FALSE]
      BY <2>2
    <3>3. q = s
      BY <1>0, <2>3, <3>1, <3>2
    <3> QED
      BY <3>1, <3>2, <3>3
  <2>4. pending' # None => \E r \in requests' : r.current
    <3> SUFFICES ASSUME pending # None PROVE \E r \in requests' : r.current
      BY <2>1
    <3>1. PICK q \in requests : q.current
      BY <1>0
    <3>2. [q EXCEPT !.streamed = FALSE] \in requests' /\ q \in Request
      BY <1>0, <2>1
    <3>3. [q EXCEPT !.streamed = FALSE].current
      BY <3>1, <3>2 DEF Request
    <3> QED
      BY <3>2, <3>3
  <2>5. \A r \in requests' : r.current => r.interval = pending' /\ Sound(r, r.interval, buffered)'
    <3> SUFFICES ASSUME NEW r \in requests', r.current
                 PROVE  r.interval = pending' /\ Sound(r, r.interval, buffered)'
      OBVIOUS
    <3>1. PICK q \in requests : /\ r.current = q.current /\ r.interval = q.interval
                                /\ r.answered = q.answered /\ r.candles = q.candles
                                /\ r.from = q.from /\ ~r.streamed
      BY <2>2
    <3>2. Sound(q, q.interval, buffered) /\ q.interval = pending
      BY <1>1, <3>1
    <3> QED
      BY <2>1, <3>1, <3>2 DEF Sound, Newest
  <2> QED
    BY <2>2, <2>3, <2>4, <2>5, SoundSuffices
<1>11. ASSUME NEW i \in Interval, SelectInterval(i)
      PROVE  RequestInv'
  BY <1>6, <1>11, NoneAssumption DEF SelectInterval
<1>12. CASE Refresh \/ Hello
  BY <1>6, <1>12 DEF Refresh, Hello, Server, ChannelTypes
<1>13. ASSUME NEW q \in requests, Fail(q)
      PROVE  RequestInv'
  BY <1>7, <1>13 DEF Fail
<1>14. ASSUME NEW p \in BOOLEAN, SetRenderingPaused(p)
      PROVE  RequestInv'
  BY <1>3, <1>14 DEF SetRenderingPaused, serverVars, historyVars
<1>15. ASSUME NEW ended \in SUBSET Interval, NEW trades \in BOOLEAN, NEW flush \in BOOLEAN,
             Tick(ended, trades, flush)
      PROVE  RequestInv'
  BY <1>3, <1>15 DEF Tick, historyVars, chartVars
<1>16. CASE UNCHANGED vars
  BY <1>3, <1>16 DEF vars, serverVars, historyVars, chartVars
<1> QED
  BY <1>4, <1>5, <1>8, <1>9, <1>10, <1>11, <1>12, <1>13, <1>14, <1>15, <1>16 DEF Next

(* Every step keeps what is covered, or records that it was lost.           *)
LEMMA CoveredPreserved ==
  ASSUME Server, HeldInv, RequestInv, CoveredInv, [Next]_vars
  PROVE  CoveredInv'
<1>1. CASE ~covered'
  BY <1>1 DEF CoveredInv
<1>2. ASSUME UNCHANGED <<covered, pending, active, interval, served, uplink>>,
             \A i \in Interval : covered /\ i = active => Tracked(held, i, since)'
      PROVE  CoveredInv'
  BY <1>2 DEF CoveredInv
<1>3. ASSUME UNCHANGED <<covered, pending, active, interval, served, uplink, held, since>>,
             \/ UNCHANGED <<series, finals, latest, feed>>
             \/ \E ended \in SUBSET Interval, trades, flush \in BOOLEAN : Tick(ended, trades, flush)
      PROVE  CoveredInv'
  <2>1. ASSUME NEW i \in Interval, covered, i = active PROVE Tracked(held, i, since)'
    <3>1. Tracked(held, i, since) /\ served = i
      BY <2>1 DEF CoveredInv
    <3>2. ASSUME NEW cs, NEW n, Tracked(cs, i, n)
          PROVE  \A k \in 1..Len(series'[i]) : k >= n => At(i, series'[i], k) \in cs \cup Coming(i)'
      <4>1. Tracked(cs, i, n)'
        BY <1>3, <3>1, <3>2, TrackedKept, TrackedThroughTick
      <4> QED
        BY <4>1 DEF Tracked
    <3>3. \A k \in 1..Len(series'[i]) : k >= since => At(i, series'[i], k) \in held \cup Coming(i)'
      BY <3>1, <3>2
    <3> QED
      BY <1>3, <3>3 DEF Tracked
  <2> QED
    BY <1>2, <1>3, <2>1
<1>4. ASSUME NEW r \in requests, Arrive(r)
      PROVE  CoveredInv'
  <2>1. CASE ~r.current
    BY <1>3, <1>4, <2>1 DEF Arrive, chartVars, serverVars
  <2>2. CASE r.current /\ r.streamed
    <3> DEFINE i == r.interval
               both == r.candles \cup buffered
    <3>1. /\ i \in Interval /\ pending = i /\ active' = i /\ pending' = None
          /\ Covers(both, held') /\ held' \subseteq both
          /\ \A c \in both : Known(c, i, series[i])
          /\ since' = r.from
          /\ UNCHANGED <<series, finals, latest, served, uplink, feed, interval>>
      BY <1>4, <2>2, ArriveMerges DEF serverVars
    <3>2. Sound(r, i, buffered) /\ interval = i
      BY <2>2, <3>1, RequestIsSound, NoneAssumption DEF HeldInv
    <3>3. served = i /\ uplink = << >> /\ Tracked(both, i, r.from)
      BY <2>2, <3>2 DEF Sound
    <3>4. series[i] \in Seq(Version)
      BY <3>1 DEF Server, SeriesInv
    <3>5. \A c : c \in Coming(i)' <=> c \in Coming(i)
      BY <3>1, ComingIn, ComingInNext
    <3> HIDE DEF i, both
    <3>6. Tracked(held, i, since)'
      <4>1. ASSUME NEW k \in 1..Len(series[i]), k >= since'
            PROVE  At(i, series[i], k) \in held' \cup Coming(i)'
        <5>1. At(i, series[i], k) \in both \/ At(i, series[i], k) \in Coming(i)
          BY <3>1, <3>3, <4>1 DEF Tracked
        <5>2. At(i, series[i], k) \in both => At(i, series[i], k) \in held'
          BY <3>1, <3>4, CoveringHasCurrent
        <5> QED
          BY <3>5, <5>1, <5>2
      <4> QED
        BY <3>1, <4>1 DEF Tracked
    <3> QED
      BY <3>1, <3>2, <3>3, <3>6, NoneAssumption DEF CoveredInv
  <2>3. CASE r.current /\ ~r.streamed
    BY <1>1, <1>4, <2>3 DEF Arrive
  <2> QED
    BY <2>1, <2>2, <2>3
<1>5. ASSUME NEW r \in requests, Fail(r)
      PROVE  CoveredInv'
  <2>1. ~covered
    BY <1>5, RequestIsSound, NoneAssumption DEF Fail, CoveredInv
  <2> QED
    BY <1>1, <1>5, <2>1 DEF Fail, chartVars
<1>6. CASE HandleFrame
  BY <1>1, <1>6 DEF HandleFrame, CoveredInv, chartVars
<1>7. CASE Deliver
  <2>1. UNCHANGED <<covered, pending, active, interval, served, uplink, series, since>>
    BY <1>7 DEF Deliver, serverVars
  <2>2. ASSUME NEW i \in Interval, covered, i = active PROVE Tracked(held, i, since)'
    <3>1. /\ pending = None /\ interval = i /\ Tracked(held, i, since)
          /\ series[i] \in Seq(Version)
      BY <2>2 DEF CoveredInv, Server, SeriesInv
    <3>2. /\ feed[1].interval # i => held' = held
          /\ feed[1].interval = i => Show(feed[1].candles)
                                     /\ \A c \in feed[1].candles : Known(c, i, series[i])
      BY <1>7, <2>2, <3>1, DeliverCases, FrameIsKnown
    <3>3. feed[1].interval = i => /\ Covers(held, held') /\ Covers(feed[1].candles, held')
                                  /\ \A c \in held' : Known(c, i, series[i])
      BY <2>2, <3>2, ShowKeeps
    <3>4. ASSUME NEW k \in 1..Len(series[i]),
                 At(i, series[i], k) \in held
                 \/ (feed[1].interval = i /\ At(i, series[i], k) \in feed[1].candles)
          PROVE  At(i, series[i], k) \in held'
      <4>1. CASE feed[1].interval # i
        BY <3>2, <3>4, <4>1
      <4>2. CASE feed[1].interval = i
        BY <3>1, <3>3, <3>4, <4>2, CoveringHasCurrent
      <4> QED
        BY <4>1, <4>2
    <3>5. ASSUME NEW cs, NEW n, Tracked(cs, i, n), NEW ds,
                 \A k \in 1..Len(series[i]) :
                    At(i, series[i], k) \in cs
                    \/ (feed[1].interval = i /\ At(i, series[i], k) \in feed[1].candles)
                       => At(i, series[i], k) \in ds
          PROVE  \A k \in 1..Len(series'[i]) : k >= n => At(i, series'[i], k) \in ds \cup Coming(i)'
      <4>1. Tracked(ds, i, n)'
        BY <1>7, <3>5, TrackedThroughDeliver
      <4> QED
        BY <4>1 DEF Tracked
    <3>6. \A k \in 1..Len(series'[i]) : k >= since => At(i, series'[i], k) \in held' \cup Coming(i)'
      BY <3>1, <3>4, <3>5
    <3> QED
      BY <2>1, <3>6 DEF Tracked
  <2> QED
    BY <1>2, <2>1, <2>2
<1>8. ASSUME NEW ended \in SUBSET Interval, NEW trades \in BOOLEAN, NEW flush \in BOOLEAN,
             Tick(ended, trades, flush)
      PROVE  CoveredInv'
  BY <1>3, <1>8 DEF Tick, historyVars, chartVars
<1>9. CASE \/ \E i \in Interval : SelectInterval(i)
           \/ Refresh \/ Hello \/ Disconnect
  BY <1>1, <1>9 DEF SelectInterval, Refresh, Hello, Select, Disconnect
<1>10. CASE \/ \E r \in requests : Answer(r)
            \/ \E p \in BOOLEAN : SetRenderingPaused(p)
            \/ UNCHANGED vars
  BY <1>3, <1>10 DEF Answer, SetRenderingPaused, vars, serverVars, chartVars, historyVars
<1> QED
  BY <1>4, <1>5, <1>6, <1>7, <1>8, <1>9, <1>10 DEF Next

(* Every step keeps where what is held begins no later than an answer given *)
(* now would.                                                               *)
LEMMA SincePreserved ==
  ASSUME Server, HeldInv, RequestInv, SinceInv, [Next]_vars
  PROVE  SinceInv'
<1>1. \A i \in Interval : Newest(i) \in Nat /\ Newest(i)' \in Nat /\ Newest(i) <= Newest(i)'
  BY NewestGrows DEF Server
<1>2. CASE UNCHANGED <<active, since>>
  BY <1>1, <1>2 DEF SinceInv
<1>3. ASSUME NEW r \in requests, Arrive(r)
      PROVE  SinceInv'
  <2>1. CASE ~r.current
    BY <1>2, <1>3, <2>1 DEF Arrive, chartVars
  <2>2. CASE r.current
    <3>1. r.interval \in Interval /\ active' = r.interval /\ since' = r.from /\ r.answered
      BY <1>3, <2>2, ArriveMerges
    <3>2. r.from \in Nat /\ r.from <= Newest(r.interval)
      BY <2>2, <3>1 DEF RequestInv, Request
    <3> QED
      BY <1>1, <3>1, <3>2 DEF SinceInv
  <2> QED
    BY <2>1, <2>2
<1> QED
  BY <1>2, <1>3, ZenonT(40)
     DEF Next, Tick, HandleFrame, Answer, Fail, SelectInterval, Refresh, Hello, Select, Deliver,
         SetRenderingPaused, Disconnect, chartVars, vars

------------------------------------------------------------------------------
(* The inductive invariant.                                                 *)
ChartInv == Server /\ HeldInv /\ RequestInv /\ Ordered /\ CoveredInv /\ SinceInv

(* It holds before the first session.                                       *)
LEMMA InitChart == Init => ChartInv
<1> SUFFICES ASSUME Init PROVE ChartInv
  OBVIOUS
<1>1. SeriesInv
  <2>1. << >> \in Seq(Version) /\ Len(<< >>) = 0
    BY EmptySeq
  <2> QED
    BY <2>1 DEF Init, SeriesInv
<1>2. ChannelTypes
  <2>1. uplink \in Seq(Interval) /\ feed \in Seq(Fed) /\ IsFiniteSet(latest) /\ Cardinality(latest) = 0
    BY FS_EmptySet DEF Init
  <2> QED
    BY <2>1, BoundAssumption DEF Init, ChannelTypes
<1>3. ChannelsKnown /\ FeedInOrder /\ Ordered
  <2>1. Len(feed) = 0 /\ finals \cup latest = {} /\ \A i : Coming(i) = {}
    <3>1. Len(feed) = 0 /\ finals = {} /\ latest = {}
      BY DEF Init
    <3>2. \A i : \A c : c \notin Coming(i)
      BY <3>1, ComingIn
    <3> QED
      BY <3>1, <3>2
  <2> QED
    BY <2>1 DEF Init, ChannelsKnown, FeedInOrder, AllKnown, Ordered
<1>4. HeldInv
  BY DEF Init, HeldInv, AllKnown, SeriesOf, ChartShowsHeld
<1>5. RequestInv /\ CoveredInv /\ SinceInv
  BY NoneAssumption DEF Init, RequestInv, CoveredInv, SinceInv
<1> QED
  BY <1>1, <1>2, <1>3, <1>4, <1>5 DEF ChartInv, Server

(* The invariant holds throughout, through every interleaving of the        *)
(* engine's ticks, the socket's frames, the answers of requests, and the    *)
(* user's choices.                                                          *)
THEOREM ChartInvariant == Spec => []ChartInv
<1>1. ChartInv /\ [Next]_vars => ChartInv'
  BY ServerPreserved, HeldPreserved, RequestsPreserved, OrderedPreserved, CoveredPreserved,
     SincePreserved DEF ChartInv
<1> QED
  BY <1>1, InitChart, PTL DEF Spec

(* The server's own version of every candle from n on is what a merge      *)
(* picks, of versions that contain it.                                     *)
LEMMA MergeOfAll ==
  ASSUME Server, NEW i \in Interval, NEW cs, \A c \in cs : Known(c, i, series[i]),
         NEW n, From(n, Candles(i)) \subseteq cs
  PROVE  From(n, MergeCandles(cs)) = From(n, Candles(i))
<1>1. series[i] \in Seq(Version)
  BY DEF Server, SeriesInv
<1>2. ASSUME NEW c \in From(n, Candles(i)) PROVE c \in MergeCandles(cs)
  <2>0. c \in cs /\ c \in Candles(i)
    BY DEF From
  <2>1. PICK k \in 1..Len(series[i]) : c = At(i, series[i], k)
    BY <2>0 DEF Candles
  <2>2. c.start = k
    BY <2>1 DEF At
  <2>3. \A d \in cs : d.start = k => ~IsNewer(d, c)
    BY <2>1 DEF Known
  <2> QED
    BY <2>0, <2>2, <2>3 DEF MergeCandles
<1>3. ASSUME NEW c \in From(n, MergeCandles(cs)) PROVE c \in Candles(i)
  <2>1. /\ c \in MergeCandles(cs) /\ Known(c, i, series[i])
        /\ c.start \in 1..Len(series[i]) /\ c.start >= n
    BY DEF MergeCandles, Known, From
  <2>2. At(i, series[i], c.start) \in Candles(i) /\ At(i, series[i], c.start).start = c.start
    BY <2>1 DEF Candles, At
  <2>3. ~IsNewer(At(i, series[i], c.start), c)
    BY <2>1, <2>2 DEF MergeCandles, From
  <2> QED
    BY <1>1, <2>1, <2>2, <2>3, NewestIsCurrent
<1> QED
  BY <1>2, <1>3 DEF From

(* What the invariant says of the chart.                                    *)
LEMMA ChartFacts == ChartInv => TypeOK /\ OneScope /\ InStep /\ ChartShowsHeld
<1> SUFFICES ASSUME ChartInv PROVE TypeOK /\ OneScope /\ InStep /\ ChartShowsHeld
  OBVIOUS
<1> USE DEF ChartInv
<1>1. \A cs, i : AllKnown(cs, i) =>
         \A c \in cs : i \in Interval /\ c \in Candle /\ c.interval = i
  BY DEF AllKnown, Known
<1>2. /\ AllKnown(held, active) /\ AllKnown(chart, active) /\ AllKnown(buffered, pending)
      /\ AllKnown(finals \cup latest, served)
      /\ \A k \in 1..Len(feed) : AllKnown(feed[k].candles, feed[k].interval)
  BY DEF HeldInv, Server, ChannelsKnown
<1>3. TypeOK
  <2>1. \A c \in finals \cup latest \cup buffered \cup held \cup chart : c \in Candle
    BY <1>1, <1>2
  <2>2. \A c \in Candle : c.interval \in Interval /\ c.start \in Nat /\ c.id \in Nat /\ c.final \in BOOLEAN
    BY DEF Candle
  <2>3. \A i \in Interval : series[i] \in Seq([id : Nat, final : BOOLEAN])
    BY DEF Server, SeriesInv, Version
  <2>4. (pending = None => buffered = {}) /\ (active = None => held = {})
    BY <1>1, <1>2, NoneAssumption
  <2>5. {r.interval : r \in {q \in requests : q.current}} = {pending} \ {None}
    <3>1. CASE pending = None
      <4>1. \A r \in requests : ~r.current
        BY <3>1, RequestIsSound, NoneAssumption
      <4> QED
        BY <3>1, <4>1
    <3>2. CASE pending # None
      <4>1. /\ \A r \in requests : r.current => r.interval = pending
            /\ \E r \in requests : r.current
        BY <3>2 DEF RequestInv
      <4> QED
        BY <3>2, <4>1
    <3> QED
      BY <3>1, <3>2
  <2>6. /\ served \in Interval \cup {None} /\ interval \in Interval \cup {None}
        /\ pending \in Interval \cup {None} /\ active \in Interval \cup {None}
        /\ Cardinality(latest) <= 1 /\ lastTrade \in 0..Trades /\ since \in Nat
        /\ (~connected => served = None /\ uplink = << >> /\ feed = << >>)
    BY DEF Server, ChannelTypes, HeldInv, SinceInv
  <2> QED
    BY <2>1, <2>2, <2>3, <2>4, <2>5, <2>6 DEF TypeOK
<1>4. OneScope
  <2>1. SeriesOf(held, active) /\ SeriesOf(chart, active)
    BY DEF HeldInv
  <2> QED
    BY <1>1, <1>2, <2>1 DEF OneScope
<1>5. InStep
  <2>1. ASSUME NEW i \in Interval, i = active, covered
        PROVE  From(since, MergeCandles(held \cup Coming(i))) = From(since, Candles(i))
    <3>1. \A c \in held \cup Coming(i) : Known(c, i, series[i])
      BY <2>1, HeldIsKnown, ComingIsKnown
    <3>2. From(since, Candles(i)) \subseteq held \cup Coming(i)
      BY <2>1, CandlesAreKnown DEF CoveredInv
    <3> QED
      BY <3>1, <3>2, MergeOfAll
  <2>2. covered => active \in Interval
    BY NoneAssumption DEF CoveredInv, HeldInv
  <2>3. active # None => since <= Newest(active)
    BY DEF SinceInv, HeldInv
  <2> QED
    BY <2>1, <2>2, <2>3 DEF InStep
<1>6. ChartShowsHeld
  BY DEF HeldInv
<1> QED
  BY <1>3, <1>4, <1>5, <1>6

(* No update is lost between the history and the stream: once the answer    *)
(* awaited was joined to a stream that already ran, what is held and what is*)
(* coming are the server's candles from the first candle of that answer on, *)
(* which an answer given now would not reach behind, and the chart shows    *)
(* what is held or will when it is shown again                              *)
(* (CandleHistoryController.select, onCandles; setRenderingPaused;          *)
(* MarketRepository.candles).                                               *)
THEOREM ChartStaysInStep == Spec => []ChartInStep
<1>1. ChartInv => ChartInStep
  BY ChartFacts DEF ChartInStep
<1> QED
  BY <1>1, ChartInvariant, PTL

(* What is held and shown is of one interval with one candle for each start,*)
(* and what is buffered of the interval asked for, whatever answers and     *)
(* frames of abandoned intervals still come (the generation guard, sameScope*)
(* and setInterval).                                                        *)
THEOREM ChartStaysInOneScope == Spec => []OneScope
<1>1. ChartInv => OneScope
  BY ChartFacts
<1> QED
  BY <1>1, ChartInvariant, PTL

(* While the interval shown stays, what is held is replaced by as new or    *)
(* newer versions only (mergeCandles), but for what is older than the       *)
(* answer that replaces it reaches back to.                                 *)
LEMMA HeldOnlyAdvances ==
  ASSUME ChartInv, [Next]_vars, active' = active
  PROVE  NothingLost
<1> USE DEF ChartInv
<1>1. \A c \in held : c \in Candle /\ ~IsNewer(c, c)
  BY RankOrders DEF HeldInv, AllKnown, Known
<1>2. CASE UNCHANGED held
  BY <1>1, <1>2 DEF NothingLost
<1>3. ASSUME NEW r \in requests, Arrive(r), r.current
      PROVE  NothingLost
  <2> DEFINE both == r.candles \cup buffered
  <2>1. /\ pending = r.interval /\ active = r.interval /\ r.answered
        /\ Covers(both, held') /\ held' \subseteq both
        /\ \A c \in both : c \in Candle
        /\ r.interval \in Interval /\ pending' = None /\ since' = r.from
    BY <1>3, ArriveMerges DEF Known
  <2>2. Covers(From(r.from, held), r.candles) /\ r.from \in Nat
    BY <1>3, <2>1 DEF RequestInv, Request
  <2>3. ASSUME NEW c \in held, c.start >= r.from
        PROVE  \E d \in held' : d.start = c.start /\ ~IsNewer(c, d)
    <3>1. PICK e \in both : e.start = c.start /\ ~IsNewer(c, e)
      BY <2>2, <2>3 DEF Covers, From
    <3>2. PICK d \in held' : d.start = e.start /\ ~IsNewer(e, d)
      BY <2>1 DEF Covers
    <3>3. c \in Candle /\ e \in Candle /\ d \in Candle
      BY <1>1, <2>1
    <3> HIDE DEF both
    <3> QED
      BY <3>1, <3>2, <3>3, RankOrders
  <2>4. ASSUME NEW c \in held, ~(c.start >= r.from)
        PROVE  pending # None /\ pending' = None /\ c.start < since'
    <3>1. c.start \in Nat
      BY <1>1 DEF Candle
    <3> QED
      BY <2>1, <2>2, <2>4, <3>1, NoneAssumption
  <2> HIDE DEF both
  <2> QED
    BY <2>3, <2>4 DEF NothingLost
<1>4. CASE Deliver
  <2>1. ASSUME pending = None, feed[1].interval = active, Show(feed[1].candles)
        PROVE  Covers(held, held')
    <3>1. active \in Interval /\ \A c \in feed[1].candles : Known(c, active, series[active])
      BY <1>4, <2>1, FrameIsKnown
    <3>2. \A i \in Interval : i = active => Covers(held, held')
      BY <2>1, <3>1, ShowKeeps
    <3> QED
      BY <3>1, <3>2
  <2> QED
    BY <1>2, <1>4, <2>1, DeliverCases DEF NothingLost, Covers
<1> QED
  BY <1>2, <1>3, <1>4, ZenonT(40)
     DEF Next, Tick, HandleFrame, Answer, Arrive, Fail, SelectInterval, Refresh, Hello, Select,
         SetRenderingPaused, Disconnect, chartVars, vars

(* With no request pending and rendering not paused, a new candle is shown  *)
(* only in the place of its older version or after the last, from where the *)
(* last answer began (updateCandles, which cannot insert).                  *)
LEMMA ChartOnlyGrows ==
  ASSUME ChartInv, [Next]_vars, active' = active, pending = None, ~paused
  PROVE  GrowsAtItsEnd
<1> USE DEF ChartInv
<1>1. CASE UNCHANGED chart
  BY <1>1 DEF GrowsAtItsEnd, From
<1>2. ASSUME NEW r \in requests, Arrive(r)
      PROVE  UNCHANGED chart
  <2>1. ~r.current
    BY RequestIsSound, NoneAssumption
  <2> QED
    BY <1>2, <2>1 DEF Arrive, chartVars
<1>3. CASE Deliver
  <2>1. ASSUME feed[1].interval = active, Show(feed[1].candles)
        PROVE  GrowsAtItsEnd
    <3>1. active \in Interval /\ \A c \in feed[1].candles : Known(c, active, series[active])
      BY <1>3, <2>1, FrameIsKnown
    <3>2. ASSUME NEW i \in Interval, i = active, NEW c \in chart', c.start >= since
          PROVE  (\E d \in chart : d.start = c.start) \/ (\A e \in chart : e.start < c.start)
      <4>1. /\ held' \subseteq held \cup feed[1].candles /\ chart = held /\ chart' = held'
        BY <2>1, <3>1, <3>2, ShowKeeps
      <4>2. CASE c \in held
        BY <4>1, <4>2
      <4>3. CASE c \in feed[1].candles
        <5>1. c \in Coming(i)
          BY <1>3, <2>1, <3>2, <4>3, ComingOfDeliver
        <5>2. AtTheEnd(held, c)
          BY <3>2, <5>1 DEF Ordered
        <5> QED
          BY <4>1, <5>2 DEF AtTheEnd
      <4> QED
        BY <3>2, <4>1, <4>2, <4>3
    <3> QED
      BY <3>1, <3>2 DEF GrowsAtItsEnd, From
  <2> QED
    BY <1>1, <1>3, <2>1, DeliverCases
<1>4. ASSUME NEW p \in BOOLEAN, SetRenderingPaused(p)
      PROVE  UNCHANGED chart
  <2>1. p = TRUE
    BY <1>4 DEF SetRenderingPaused, HeldInv
  <2> QED
    BY <1>4, <2>1 DEF SetRenderingPaused
<1> QED
  BY <1>1, <1>2, <1>3, <1>4, ZenonT(40)
     DEF Next, Tick, HandleFrame, Answer, Fail, SelectInterval, Refresh, Hello, Select,
         Disconnect, chartVars, vars

(* So no candle on the chart goes back to an older version, none is lost but*)
(* to a refresh whose answer, of the newest HistoryLimit candles, does not  *)
(* reach as far back, and from where the last answer began the chart grows  *)
(* at its end only (isNewer; #activeCandles.clear; historicalUpdate).       *)
THEOREM ChartNeverGoesBack == Spec => NeverGoesBack
<1>1. ChartInv /\ [Next]_vars =>
         [active' = active => /\ NothingLost
                              /\ pending = None /\ ~paused => GrowsAtItsEnd]_vars
  BY HeldOnlyAdvances, ChartOnlyGrows
<1> QED
  BY <1>1, ChartInvariant, PTL DEF Spec, NeverGoesBack
================================================================================
