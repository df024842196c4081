---------------------------- MODULE MarketSimulator ----------------------------
(***************************************************************************)
(* One tick of the simulated market of one symbol: the fair value walks,   *)
(* stale quotes are traded through, a cascade or a stray trade may take    *)
(* more, orders come and go, and the ladder is quoted and filled again.    *)
(*                                                                         *)
(* Fair values are prices; book prices are positions on the grid, that is  *)
(* prices over levelSpacing.  Whatever the random stream decides is left   *)
(* open, with it the sides of stray trades, which only tend to repeat.     *)
(* How the writes of a tick become a delta is in OrderBook.                *)
(***************************************************************************)
EXTENDS Integers, Sequences, FiniteSets, FiniteSetsExt

CONSTANTS
    BasePrice, Floor, Ceiling,      \* of the fair value
    LevelSpacing, SpreadSpacings, Volatility,
    LevelQuantity, TradeQuantity,   \* what a new level holds, what a stray trade asks for
    CalmTicks, PushTicks,           \* how long a regime may last
    Depth,                          \* levels of a side
    ChurnEvents,                    \* orders that come or go in a tick
    MaxQuantity                     \* bound: what churn may pile up on a level

ASSUME SimulatorAssumption ==
    /\ BasePrice \in Nat /\ Floor \in Nat /\ Ceiling \in Nat
    /\ Floor <= BasePrice /\ BasePrice <= Ceiling
    /\ LevelSpacing \in Nat \ {0} /\ SpreadSpacings \in Nat \ {0} /\ Volatility \in Nat
    /\ LevelQuantity \subseteq 1..MaxQuantity /\ TradeQuantity \subseteq Nat \ {0}
    /\ CalmTicks \subseteq Nat \ {0} /\ PushTicks \subseteq Nat \ {0}
    /\ Depth \in Nat \ {0} /\ ChurnEvents \in Nat /\ MaxQuantity \in Nat

VARIABLES
    fairValue,
    trendVelocity, regimeTicksRemaining,
    book      \* the levels of each side

vars == <<fairValue, trendVelocity, regimeTicksRemaining, book>>

Side == {"bid", "ask"}
Position == 1..(Ceiling \div LevelSpacing + SpreadSpacings + Depth)
Level == [price : Position, quantity : 1..MaxQuantity]
Empty == [bid |-> {}, ask |-> {}]

Prices(levels) == {l.price : l \in levels}

TypeOK ==
    /\ fairValue \in Floor..Ceiling
    /\ trendVelocity \in {-Volatility, 0, Volatility}
    /\ \E n \in {0} \cup CalmTicks \cup PushTicks : regimeTicksRemaining \in 0..n
    /\ book \in [bid : SUBSET Level, ask : SUBSET Level]
    /\ \A s \in Side : Cardinality(Prices(book[s])) = Cardinality(book[s])

------------------------------------------------------------------------------
Least(x, y) == IF x < y THEN x ELSE y
Greatest(x, y) == IF x < y THEN y ELSE x
Clamp(x) == Greatest(Floor, Least(Ceiling, x))

Better(s, p, q) == IF s = "bid" THEN p > q ELSE p < q
Ahead(b, s, l) == {m \in b[s] : Better(s, m.price, l.price)}
Best(b, s, otherwise) ==
    IF b[s] = {} THEN otherwise ELSE (CHOOSE l \in b[s] : Ahead(b, s, l) = {}).price

\* Levels of these sizes at the positions where the side has none.
Filled(b, s, where, size) ==
    [b EXCEPT ![s] = @ \cup {[price |-> p, quantity |-> size[s][p]] :
                                p \in (where \cap Position) \ Prices(@)}]

Trim(b) == [bid |-> {l \in b.bid : Cardinality(Ahead(b, "bid", l)) < Depth},
            ask |-> {l \in b.ask : Cardinality(Ahead(b, "ask", l)) < Depth}]

------------------------------------------------------------------------------
(* The trades of a tick.  Each kind says which levels it takes, or what    *)
(* part of them, in the book that the ones before it left.                 *)

\* #fill with a limit: every level the new targets have passed.
Stale(b, bid, ask) ==
    [bid |-> {l \in b.bid : l.price > bid}, ask |-> {l \in b.ask : l.price < ask}]

\* #executeCascade: the best levels of one side, whole.
Swept(b, side, count) ==
    [Empty EXCEPT ![side] = {l \in b[side] : Cardinality(Ahead(b, side, l)) < count}]

\* ... and the fair value follows to the new touch, if one is left.
Pulled(fair, b, side) ==
    IF b[side] = {} THEN fair ELSE Clamp(Best(b, side, 0) * LevelSpacing)

\* #fill with a quantity: from the best level on, until it is spent.
Stray(b, side, quantity) ==
    LET Spent(l) == MapThenSumSet(LAMBDA m : m.quantity, Ahead(b, side, l))
    IN  [Empty EXCEPT ![side] = {[l EXCEPT !.quantity = Least(@, quantity - Spent(l))] :
                                    l \in {m \in b[side] : Spent(m) < quantity}}]

\* What is left of a level, and of a book, once so much of it is taken.
RestKeepingEmptied(levels, taken) ==
    {l \in levels : l.price \notin Prices(taken)}
    \cup {[price |-> pair[1].price, quantity |-> pair[1].quantity - pair[2].quantity] :
             pair \in {x \in levels \X taken : x[1].price = x[2].price}}
Rest(levels, taken) ==
    {l \in levels : l.price \notin Prices(taken)}
    \cup {[price |-> pair[1].price, quantity |-> pair[1].quantity - pair[2].quantity] :
             pair \in {x \in levels \X taken : /\ x[1].price = x[2].price
                                               /\ x[1].quantity > x[2].quantity}}
After(b, taken) == [bid |-> Rest(b.bid, taken.bid), ask |-> Rest(b.ask, taken.ask)]

\* One trade for each level that is taken from, the best one first; a trade
\* names the side it takes from, asks for a buy and bids for a sell.
Printed(taken, s) ==
    [k \in 1..Cardinality(taken[s]) |->
        LET l == CHOOSE m \in taken[s] : Cardinality(Ahead(taken, s, m)) = k - 1
        IN  [from |-> s, price |-> l.price, quantity |-> l.quantity]]
Tape(taken) == Printed(taken, "ask") \o Printed(taken, "bid")

------------------------------------------------------------------------------
(* The orders of a tick.                                                   *)

\* One event of #churn: liquidity is added to a level, or some of it goes,
\* unless the side drawn is empty.
ChurnedOnce(b) ==
    LET NewSizes(l) == {Least(MaxQuantity, l.quantity + more \div 4) : more \in LevelQuantity}
                       \cup 0..(l.quantity * 75) \div 100
        Resized(s, l, q) == [b EXCEPT ![s] = (@ \ {l}) \cup
                                IF q > 0 THEN {[l EXCEPT !.quantity = q]} ELSE {}]
    IN  {c \in {b} : \E s \in Side : b[s] = {}}
        \cup UNION {UNION {{Resized(s, l, q) : q \in NewSizes(l)} : l \in b[s]} : s \in Side}

\* #churn: every book that so many events, one after the other, can leave.
Churned(b) ==
    LET after[n \in 0..ChurnEvents] ==
          IF n = 0 THEN {b} ELSE UNION {ChurnedOnce(c) : c \in after[n - 1]}
    IN  after[ChurnEvents]

\* #requote: each side is quoted at its target, short of the other's best.
Requoted(b, bid, ask, size) ==
    LET bidTarget == Least(bid, Best(b, "ask", bid + 1) - 1)
        quoted == Filled(b, "bid", {bidTarget}, size)
        askTarget == Greatest(ask, Best(quoted, "bid", ask - 1) + 1)
    IN  Filled(quoted, "ask", {askTarget}, size)

\* #replenish: from the touch away from the mid, every empty position of the
\* window, as far as there are positive prices.
Window(s, touch) == IF s = "bid" THEN touch - Depth + 1..touch ELSE touch..touch + Depth - 1
ReplenishedOutward(b, bid, ask, size) ==
    LET Outside(s) == {p \in Position : \A l \in b[s] : Better(s, l.price, p)}
        lower == Filled(b, "bid", Window("bid", Best(b, "bid", bid)) \cap Outside("bid"), size)
    IN  Filled(lower, "ask", Window("ask", Best(b, "ask", ask)) \cap Outside("ask"), size)
Replenished(b, bid, ask, size) ==
    LET lower == Filled(b, "bid", Window("bid", Best(b, "bid", bid)), size)
    IN  Filled(lower, "ask", Window("ask", Best(b, "ask", ask)), size)

Ladder(b, bid, ask, size) == Trim(Replenished(Requoted(b, bid, ask, size), bid, ask, size))

------------------------------------------------------------------------------
\* #targets.
BidTarget(fair) == fair \div LevelSpacing
AskTarget(fair) == BidTarget(fair) + SpreadSpacings

\* #updateRegime.
UpdateRegime ==
    IF Volatility = 0
    THEN trendVelocity' = 0 /\ regimeTicksRemaining' = 0
    ELSE IF regimeTicksRemaining > 1
    THEN regimeTicksRemaining' = regimeTicksRemaining - 1 /\ UNCHANGED trendVelocity
    ELSE \/ trendVelocity' = 0 /\ regimeTicksRemaining' \in CalmTicks
         \/ trendVelocity' \in {-Volatility, Volatility} /\ regimeTicksRemaining' \in PushTicks

\* What else may trade in a tick: nothing, or so much of one side.
NoTrade == [side |-> "none"]
Cascade == IF Volatility = 0 THEN {NoTrade} ELSE [side : Side, count : 2..4] \cup {NoTrade}
Noise == [side : Side, quantity : TradeQuantity] \cup {NoTrade}

Walked(step, velocity) == Clamp(fairValue + step + velocity)

\* The trades of a tick that walked so far, the book they leave and the fair
\* value after them.
Traded(walked, cascade, noise) ==
    LET stale == Stale(book, BidTarget(walked), AskTarget(walked))
        found == After(book, stale)
        swept == IF cascade = NoTrade THEN Empty ELSE Swept(found, cascade.side, cascade.count)
        left == After(found, swept)
        stray == IF noise = NoTrade THEN Empty ELSE Stray(left, noise.side, noise.quantity)
    IN  [book |-> After(left, stray),
         trades |-> Tape(stale) \o Tape(swept) \o Tape(stray),
         fairValue |-> IF cascade = NoTrade THEN walked ELSE Pulled(walked, left, cascade.side)]

Sizes == [Side -> [Position -> LevelQuantity]]

Tick ==
    /\ UpdateRegime
    /\ \E step \in -Volatility..Volatility, cascade \in Cascade, noise \in Noise :
       LET walked == Walked(step, trendVelocity')
           traded == Traded(walked, cascade, noise)
       IN  /\ fairValue' = traded.fairValue
           /\ \E churned \in Churned(traded.book), size \in Sizes :
                 book' = Ladder(churned, BidTarget(walked), AskTarget(walked), size)

\* seedBook.
Init ==
    /\ fairValue = BasePrice
    /\ trendVelocity = 0 /\ regimeTicksRemaining = 0
    /\ \E size \in Sizes : book = Ladder(Empty, BidTarget(BasePrice), AskTarget(BasePrice), size)

Next == Tick

Spec == Init /\ [][Next]_vars

------------------------------------------------------------------------------
\* docs/02-market-domain.md:75: the ladder is contiguous on the grid.  After
\* every tick both sides show exactly Depth levels next to each other, the
\* spread apart: no gap, none too many, never crossed, whatever was swept,
\* cancelled or traded in the tick, and the fair value they follow stays in
\* its band.  (#requote, #replenish and trim, and the clamp of a cascade)
LadderIsWhole ==
    /\ TypeOK
    /\ \E bid \in Floor \div LevelSpacing..Ceiling \div LevelSpacing :
          /\ Prices(book.bid) = Window("bid", bid) \cap Position
          /\ Prices(book.ask) = Window("ask", bid + SpreadSpacings)

\* What the first n trades have taken of each side at each price.
TakenBy(trades) ==
    LET taken[n \in 0..Len(trades)] ==
          IF n = 0 THEN [place \in Side \X Position |-> 0]
          ELSE [taken[n - 1] EXCEPT ![<<trades[n].from, trades[n].price>>] = @ + trades[n].quantity]
    IN  taken

\* A trade is at the best price its side of the book has anything left of, when
\* so much of it is taken already, and takes no more than what is left there.
AtBest(b, taken, trade) ==
    LET s == trade.from
        offered == {l \in b[s] : taken[s, l.price] < l.quantity}
    IN  \E l \in offered :
           /\ l.price = trade.price
           /\ trade.quantity + taken[s, l.price] <= l.quantity
           /\ \A m \in offered : ~Better(s, m.price, l.price)

\* The tape explains the book: replayed in order on the book shown before
\* the tick, every trade of whatever kind is at the best price its side
\* offers at its turn, and no larger than what is left there.
\* (#fill and #executeCascade, each on what the others left)
TapeFollowsBook ==
    \A step \in -2 * Volatility..2 * Volatility, cascade \in Cascade, noise \in Noise :
       LET trades == Traded(Walked(step, 0), cascade, noise).trades
           taken == TakenBy(trades)
       IN  \A n \in 1..Len(trades) : AtBest(book, taken[n - 1], trades[n])
==============================================================================
