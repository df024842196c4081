----------------------------- MODULE CandleEngine -----------------------------
(***************************************************************************)
(* The canonical candles of one symbol: the tick of its engine, one        *)
(* aggregator per interval with its ring of finalised candles, and the     *)
(* history the REST route answers from them.                               *)
(*                                                                         *)
(* Time counts ticks.  What a candle says of its trades is kept as which   *)
(* trades it folds: the first (its open), how many, and the last.          *)
(***************************************************************************)
EXTENDS Integers, Sequences, SequencesExt

CONSTANTS
    Interval, Width,     \* the intervals, and how many ticks each lasts
    Capacity, LimitMax,  \* CANDLE_HISTORY_CAPACITY, CANDLE_HISTORY_LIMIT_MAX
    NoCandle,            \* no open bucket; an empty slot
    MaxStart, MaxTime,   \* bounds: the first tick's time, the last one's
    TradesPerTick        \* bound: how many trades a tick may make

ASSUME EngineAssumption ==
    /\ Width \in [Interval -> Nat \ {0}]
    /\ LimitMax \in Nat \ {0} /\ Capacity \in Nat /\ Capacity > LimitMax
    /\ MaxStart \in Nat /\ MaxTime \in Nat /\ TradesPerTick \subseteq Nat

VARIABLES
    time,         \* timestamp of the last tick
    nextTradeId,
    candles,      \* per interval: its aggregator, and every candle it closed
    tradedAt      \* history: the timestamp of each trade

engineVars == <<time, nextTradeId, candles, tradedAt>>

Candle == [interval : Interval, start : Nat, first : Nat, count : Nat, lastTradeId : Nat]

ASSUME NoCandleAssumption == NoCandle \notin Candle

Aggregator == [active : Candle \cup {NoCandle},
               slots : [0..Capacity - 1 -> Candle \cup {NoCandle}],
               next : 0..Capacity - 1, size : 0..Capacity,
               closed : Seq(Candle)]

EngineTypeOK ==
    /\ time \in Nat /\ nextTradeId \in Nat
    /\ candles \in [Interval -> Aggregator]
    /\ tradedAt \in Seq(Nat) /\ Len(tradedAt) = nextTradeId - 1
    /\ \A i \in Interval : candles[i].active # NoCandle => candles[i].active.interval = i

Newest(s, n) == SubSeq(s, Len(s) - n + 1, Len(s))
Least(a, b) == IF a < b THEN a ELSE b

------------------------------------------------------------------------------
(* The ring of finalised candles.                                          *)

Push(agg, candle) ==
    [agg EXCEPT !.slots[agg.next] = candle,
                !.next = (@ + 1) % Capacity,
                !.size = Least(@ + 1, Capacity)]

ToArray(agg) ==
    LET first == (agg.next - agg.size + Capacity) % Capacity
    IN  [k \in 1..agg.size |-> agg.slots[(first + k - 1) % Capacity]]

Recent(agg, limit) ==
    IF limit <= 0 THEN <<>> ELSE Newest(ToArray(agg), Least(limit, agg.size))

------------------------------------------------------------------------------
(* The aggregator.                                                         *)

CandleStart(timestamp, width) == (timestamp \div width) * width

CloseThroughLate(agg, i, timestamp) ==
    IF agg.active = NoCandle \/ timestamp <= agg.active.start + Width[i]
    THEN agg
    ELSE [Push(agg, agg.active) EXCEPT !.active = NoCandle, !.closed = Append(@, agg.active)]

CloseThrough(agg, i, timestamp) ==
    IF agg.active = NoCandle \/ timestamp < agg.active.start + Width[i]
    THEN agg
    ELSE [Push(agg, agg.active) EXCEPT !.active = NoCandle, !.closed = Append(@, agg.active)]

Apply(agg, i, timestamp, id) ==
    LET start == CandleStart(timestamp, Width[i])
        ready == CloseThrough(agg, i, start)
    IN  IF ready.active = NoCandle \/ ready.active.start # start
        THEN [ready EXCEPT !.active = [interval |-> i, start |-> start, first |-> id,
                                       count |-> 1, lastTradeId |-> id]]
        ELSE [ready EXCEPT !.active.count = @ + 1,
                           !.active.lastTradeId = IF id > @ THEN id ELSE @]

(* A tick: what it closes it closes first, then it folds its trades, all   *)
(* of them stamped with the tick's own time.                               *)
FoldTick(agg, i, timestamp, ids) ==
    FoldLeft(LAMBDA a, id : Apply(a, i, timestamp, id), CloseThrough(agg, i, timestamp), ids)

(* Every interval folds the same trades.                                   *)
CandlesAfter(timestamp, ids) ==
    [i \in Interval |-> FoldTick(candles[i], i, timestamp, ids)]

Tick(n) ==
    /\ time < MaxTime
    /\ time' = time + 1
    /\ nextTradeId' = nextTradeId + n
    /\ tradedAt' = tradedAt \o [k \in 1..n |-> time']
    /\ candles' = CandlesAfter(time', [k \in 1..n |-> nextTradeId + k - 1])

(* What the tick tells the dispatcher: the candles it closed, and the open *)
(* ones if it traded.                                                      *)
FinalisedCandles(i) ==
    Newest(candles'[i].closed, Len(candles'[i].closed) - Len(candles[i].closed))
ActiveCandles(i) ==
    IF nextTradeId' > nextTradeId THEN {candles'[i].active} \ {NoCandle} ELSE {}

(* The REST history: finalised candles, then the open one.                 *)
CandlesOverLimit(i, limit) ==
    LET bounded == Least(limit, LimitMax) active == candles[i].active
    IN  IF active = NoCandle THEN Recent(candles[i], bounded)
        ELSE Append(Recent(candles[i], bounded), active)

Candles(i, limit) ==
    LET bounded == Least(limit, LimitMax) active == candles[i].active
    IN  IF active = NoCandle THEN Recent(candles[i], bounded)
        ELSE Append(Recent(candles[i], bounded - 1), active)

EmptyAggregator ==
    [active |-> NoCandle, slots |-> [k \in 0..Capacity - 1 |-> NoCandle],
     next |-> 0, size |-> 0, closed |-> <<>>]

EngineInit ==
    /\ time \in 0..MaxStart
    /\ nextTradeId = 1
    /\ tradedAt = <<>>
    /\ candles = [i \in Interval |-> EmptyAggregator]

------------------------------------------------------------------------------
(* Every candle the aggregator ever had, in order.                         *)
Series(i) ==
    LET agg == candles[i]
    IN  IF agg.active = NoCandle THEN agg.closed ELSE Append(agg.closed, agg.active)

(* The candles of an interval partition the trades: read in order, with    *)
(* the open one last, they fold each trade once, in tradeId order, every   *)
(* one in the bucket its timestamp lies in, and no bucket has two candles. *)
(* (CandleAggregator: closing and folding in one tick, on every interval)  *)
EachTradeOnce ==
    \A i \in Interval : LET all == Series(i) IN
        /\ \A k \in 1..Len(all) :
              /\ all[k].first = IF k = 1 THEN 1 ELSE all[k - 1].lastTradeId + 1
              /\ all[k].count = all[k].lastTradeId - all[k].first + 1
              /\ \A id \in all[k].first..all[k].lastTradeId :
                    all[k].start = CandleStart(tradedAt[id], Width[i])
              /\ k > 1 => all[k - 1].start < all[k].start
        /\ nextTradeId - 1 = IF all = <<>> THEN 0 ELSE Last(all).lastTradeId

(* Only the bucket the clock is in stays open, however long the market has *)
(* been idle, and no candle is finalised before its bucket has ended.      *)
(* (CandleAggregator.closeThrough: on the clock, not on the next trade)    *)
OpenIffCurrent ==
    \A i \in Interval :
        /\ candles[i].active # NoCandle =>
              candles[i].active.start = CandleStart(time, Width[i])
        /\ \A k \in 1..Len(candles[i].closed) :
              candles[i].closed[k].start + Width[i] <= time

(* What every client is served from: each trade in one candle, each candle *)
(* closed when its bucket ends, not before and not later.                  *)
(* (docs/07-invariants.md, I2; the two above together)                     *)
CandlesPartitionTrades == EachTradeOnce /\ OpenIffCurrent

(* Whatever limit is asked for, the history is the newest candles there    *)
(* are, the open one among them: never one more than the limit, never one  *)
(* missing while the ring had room for it, none stale after the ring has   *)
(* wrapped.  (CandleRingBuffer and MarketRepository.candles)               *)
RestAnswersNewest ==
    \A i \in Interval : \A limit \in 1..LimitMax + 1 :
        Candles(i, limit) =
            Newest(Series(i), Least(Least(limit, LimitMax), Len(Series(i))))

==============================================================================
