---------------------------- MODULE CandleDelivery ----------------------------
(***************************************************************************)
(* What one connection is sent of one symbol's candles and trades: the     *)
(* dispatcher, the subscription's pending queues and their pacing, while   *)
(* the client subscribes, changes interval and is moved between tiers.     *)
(*                                                                         *)
(* The engine is CandleEngine; the order book's deltas, sent at once or    *)
(* never, are in BookSync.                                                 *)
(***************************************************************************)
EXTENDS CandleEngine, FiniteSets

CONSTANTS
    Tier, CandlesUpdate, TradesBatch,  \* the tiers and their cadences, in ticks
    InitialTier,   \* INITIAL_TIER
    None,          \* no interval
    MaxLag,        \* bound: the wall clock advances at most this much per tick
    MaxCommands    \* bound: frames of the client and changes of its tier

ASSUME DeliveryAssumption ==
    /\ CandlesUpdate \in [Tier -> Nat] /\ TradesBatch \in [Tier -> Nat]
    /\ InitialTier \in Tier /\ None \notin Interval
    /\ MaxLag \in Nat /\ MaxCommands \in Nat

VARIABLES
    now,        \* Date.now() at the last dispatch
    subscription,  \* the symbol's SymbolSubscription, if there is one
    tier,       \* effectiveTier
    open,       \* the socket is open
    finals,     \* history: final candles sent since the interval was chosen
    since,      \* history: candles closed and trades made by then
    told,       \* history: the newest open candle sent since then
    trades,     \* history: trades sent on this connection
    commands

deliveryVars == <<subscription, tier, open, finals, since, told, trades>>
vars == <<engineVars, now, deliveryVars, commands>>

Channel == {"trades", "candles"}
NoSubscription == [on |-> FALSE, channels |-> {}, interval |-> None, finals |-> <<>>,
                   latest |-> NoCandle, candleAt |-> 0, trades |-> <<>>, tradeAt |-> 0]
Epoch == 100  \* the first Date.now(): a new subscription last sent at 0, long ago

TypeOK ==
    /\ EngineTypeOK
    /\ now \in Nat /\ tier \in Tier /\ open \in BOOLEAN
    /\ subscription.on \in BOOLEAN /\ subscription.channels \subseteq Channel
    /\ subscription.interval \in Interval \cup {None}
    /\ subscription.finals \in Seq(Candle) /\ finals \in Seq(Candle)
    /\ {subscription.latest, told} \subseteq Candle \cup {NoCandle}
    /\ subscription.trades \in Seq(Nat) /\ trades \in Seq(Nat)
    /\ subscription.interval # None => "candles" \in subscription.channels
    /\ ~subscription.on => subscription = NoSubscription

------------------------------------------------------------------------------
(* The subscription.                                                       *)

ChangeIntervalKeepingPending(s, i) ==
    IF i = s.interval THEN s ELSE [s EXCEPT !.interval = i]

ChangeInterval(s, i) ==
    IF i = s.interval THEN s
    ELSE [s EXCEPT !.interval = i, !.finals = <<>>, !.latest = NoCandle]

Subscribed(channels, i) ==
    IF subscription.on
    THEN ChangeInterval([subscription EXCEPT !.channels = channels], i)
    ELSE [NoSubscription EXCEPT !.on = TRUE, !.channels = channels, !.interval = i]

Command ==
    /\ open
    /\ commands < MaxCommands
    /\ commands' = commands + 1
    /\ UNCHANGED <<engineVars, now, open, trades>>

(* The history of deliveries starts over with the interval it is of.       *)
Restart(s) ==
    IF s.on = subscription.on /\ s.interval = subscription.interval
    THEN UNCHANGED <<finals, since, told>>
    ELSE /\ finals' = <<>> /\ told' = NoCandle
         /\ since' = [closed |-> IF s.interval = None THEN 0
                                 ELSE Len(candles[s.interval].closed),
                      trade |-> nextTradeId]

Subscribe(channels, i) ==
    /\ Command
    /\ subscription' = Subscribed(channels, IF "candles" \in channels THEN i ELSE None)
    /\ Restart(subscription')
    /\ UNCHANGED tier

Unsubscribe ==
    /\ Command
    /\ subscription.on
    /\ subscription' = NoSubscription
    /\ Restart(subscription')
    /\ UNCHANGED tier

SetInterval(i) ==
    /\ Command
    /\ subscription.on /\ "candles" \in subscription.channels
    /\ subscription' = ChangeInterval(subscription, i)
    /\ Restart(subscription')
    /\ UNCHANGED tier

(* The controller or an override moves the effective tier.                 *)
ChangeTier(t) ==
    /\ Command
    /\ t # tier
    /\ tier' = t
    /\ UNCHANGED <<subscription, finals, since, told>>

------------------------------------------------------------------------------
(* The scheduler.                                                          *)

NewestActiveOnlyIfFree(s, i) ==
    IF ActiveCandles(i) = {} \/ s.latest # NoCandle THEN s.latest
    ELSE CHOOSE c \in ActiveCandles(i) : TRUE

NewestActive(s, i) ==
    IF ActiveCandles(i) = {} THEN s.latest ELSE CHOOSE c \in ActiveCandles(i) : TRUE

Enqueue(s) ==
    LET batch == IF "trades" \notin s.channels THEN s.trades
                 ELSE s.trades \o [k \in 1..(nextTradeId' - nextTradeId) |-> nextTradeId + k - 1]
    IN  IF s.interval = None THEN [s EXCEPT !.trades = batch]
        ELSE [s EXCEPT !.trades = batch,
                       !.finals = @ \o FinalisedCandles(s.interval),
                       !.latest = NewestActive(s, s.interval)]

CandlesDue(s, t) ==
    /\ s.interval # None
    /\ s.finals # <<>> \/ s.latest # NoCandle
    /\ now' - s.candleAt >= CandlesUpdate[t]

TradesDue(s, t, dropTrades) ==
    s.trades # <<>> /\ ~dropTrades /\ now' - s.tradeAt >= TradesBatch[t]

FlushCandles(s, t) ==
    IF CandlesDue(s, t)
    THEN [s EXCEPT !.finals = <<>>, !.latest = NoCandle, !.candleAt = now'] ELSE s

FlushTrades(s, t, dropTrades) ==
    CASE dropTrades -> [s EXCEPT !.trades = <<>>]
      [] TradesDue(s, t, dropTrades) -> [s EXCEPT !.trades = <<>>, !.tradeAt = now']
      [] OTHER -> s

(* One tick of the market, dispatched to this connection with so much in   *)
(* its outbound buffer: over the hard limit the socket is closed instead.  *)
Dispatch(n, later, buffered) ==
    /\ Tick(n)
    /\ now' = now + later
    /\ UNCHANGED <<tier, since, commands>>
    /\ IF ~open \/ ~subscription.on
       THEN UNCHANGED <<subscription, open, finals, told, trades>>
       ELSE IF buffered = "hard"
       THEN open' = FALSE /\ UNCHANGED <<subscription, finals, told, trades>>
       ELSE LET s == Enqueue(subscription)
                drop == buffered = "soft"
                update == CandlesDue(s, tier)
                batch == TradesDue(s, tier, drop)
            IN  /\ subscription' = FlushTrades(FlushCandles(s, tier), tier, drop)
                /\ finals' = IF update THEN finals \o s.finals ELSE finals
                /\ told' = IF update /\ s.latest # NoCandle THEN s.latest ELSE told
                /\ trades' = IF batch THEN trades \o s.trades ELSE trades
                /\ UNCHANGED open

(* The client comes back: a new socket, a new session.                     *)
Reconnect ==
    /\ ~open
    /\ commands < MaxCommands
    /\ commands' = commands + 1
    /\ open' = TRUE
    /\ subscription' = NoSubscription
    /\ tier' = InitialTier
    /\ trades' = <<>>
    /\ Restart(NoSubscription)
    /\ UNCHANGED <<engineVars, now>>

Init ==
    /\ EngineInit
    /\ now = Epoch
    /\ subscription = NoSubscription
    /\ tier = InitialTier
    /\ open = TRUE
    /\ finals = <<>> /\ told = NoCandle /\ trades = <<>>
    /\ since = [closed |-> 0, trade |-> 1]
    /\ commands = 0

Next ==
    \/ \E n \in TradesPerTick, later \in 0..MaxLag, b \in {"low", "soft", "hard"} :
          Dispatch(n, later, b)
    \/ \E channels \in SUBSET Channel \ {{}}, i \in Interval : Subscribe(channels, i)
    \/ Unsubscribe
    \/ \E i \in Interval : SetInterval(i)
    \/ \E t \in Tier : ChangeTier(t)
    \/ Reconnect

Spec == Init /\ [][Next]_vars

------------------------------------------------------------------------------
Follows == open /\ subscription.on /\ subscription.interval # None

(* Every candle that closes while an interval is subscribed is sent once   *)
(* and in order, or still waits its turn: at any cadence, across changes   *)
(* of tier, and with nothing of the interval that was left.                *)
(* (enqueue, flushDue and SymbolSubscription.setInterval)                  *)
FinalsDeliveredOnce ==
    Follows => LET closed == candles[subscription.interval].closed
               IN  finals \o subscription.finals = Newest(closed, Len(closed) - since.closed)

(* However slow its tier, a client is told of the open candle as it is now *)
(* or the newest version waits for it: coalescing drops older versions of  *)
(* a candle, never the last one.  (flushDue: the active slot)              *)
NewestVersionSurvives ==
    LET active == candles[subscription.interval].active
    IN  Follows /\ active # NoCandle /\ active.lastTradeId >= since.trade
           => subscription.latest = active
              \/ (subscription.latest = NoCandle /\ told = active)

(* Trades reach a client at most once and in tradeId order, and those that *)
(* wait come after those sent: whatever was dropped under backpressure, on *)
(* a change of channels or by a late flush.  (enqueue and flushDue)        *)
TradesInOrder ==
    LET seen == trades \o subscription.trades
    IN  \A k \in 1..Len(seen) - 1 : seen[k] < seen[k + 1]

(* Both queues of a subscription are emptied exactly once, in order, though *)
(* each is paced by its own cadence.  (flushDue)                           *)
SentOnceInOrder == TypeOK /\ FinalsDeliveredOnce /\ TradesInOrder

==============================================================================
