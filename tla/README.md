# exaint in TLA+

exaint is a crypto market terminal: a Node server simulates several markets and
serves them over REST and one WebSocket, and a web client shows a candle chart, an
order book and a trade tape for the symbol on screen. The modules here model the
parts of that program whose correctness depends on the order in which things
happen, or on a bound being exactly right, and check and prove what its own
documents promise about them (`docs/07-invariants.md`).

## The system

### Server (`apps/api/src`)

| component | state | operations | properties that make it correct |
|---|---|---|---|
| Order book, `market/orderbook` | levels, levels touched by this tick, sequence | setLevel, addQuantity, trim, flushDelta, snapshot | snapshot and deltas rebuild the book exactly; one number per real change |
| Simulator, `market/simulator` | fair value, regime, cascade, ids, random stream | tick: regime, fills, cascade, churn, requote, replenish, trim | book never crossed, window full, prices on the grid, ids ascending |
| Clock and engine, `market-engine.ts`, `symbol-engine.ts`, `app/market-runtime.ts` | start time, tick, per-symbol lockstep | start, pump, runOwedTicks, stop | each tick runs once and in order for every symbol, however late the timer |
| Candles, `market/candles` | open bucket per interval, ring of closed ones | closeThrough, apply, REST range | every bucket closed exactly once, in time order, with its trades |
| Session and delivery, `websocket/connection-session.ts`, `delivery-scheduler.ts`, `dispatcher.ts` | subscriptions, tier, pending trades, finals and the latest open candle | subscribe, set_interval, unsubscribe, dispatch, flushDue, backpressure | a tier changes how often, never what; a final is delivered once; deltas are never dropped |
| Tiers, `websocket/tier-controller.ts` | tier, override, good and bad runs, last report | report, silence, override | one step at a time, promotion only after a run of good reports; what a user chose is in force and what is in force is told |
| Frame limits, `websocket/rate-limiter.ts`, `frame-handler.ts` | token buckets, strikes | check a frame | a frame is applied only within budget; repeated abuse closes |
| Gateway, `websocket/gateway.ts` | sockets, heartbeat timers | accept, hello, message, heartbeat, close | nothing leaks once a socket is closed |
| Tickets, `auth/ticket-service.ts` | consumed ids | mint, verifyAndConsume | a ticket opens one socket, before it expires |
| Routes, config, metrics | none of their own | REST reads, environment, counters | read consistently between two ticks |

### Client (`apps/web/features/market`)

| component | state | operations | properties that make it correct |
|---|---|---|---|
| Synchroniser, `orderbook/` | status, sequence, buffer, book per symbol | beginSync, applySnapshot, applyDelta, reset | what is shown is the server's book at the number held; a gap ends in a resync |
| Selection, `chart/market-selection-controller.ts` | market, interval, generation, snapshot request | selectMarket, selectInterval, refresh, dispose | answers for what was left are dropped; the symbol left is unsubscribed |
| History and chart, `chart/` | active selection, candles, buffered updates, pause | select, onCandles, pause | chart shows one symbol and interval, in time order, no final replaced by an open candle, none lost but to an answer that reaches less far back |
| Socket, `socket/market-socket-client.ts`, `desired-state.ts`, `backoff.ts` | connection state, socket, timer, ticket request, attempt | connect, offline, online, close, reconnect, reapply | one live socket; never stuck without a timer, a ticket request or a socket |
| Measurement, `socket/socket-measurement.ts`, `latency-tracker.ts` | pending pings, samples | ping, pong, report | bounded; a pong is counted once |
| UI model and publisher, `model/` | trades, price, dirty flag, frame | processTrades, publish, pause | trades never go back; a change is published once drawing resumes |
| Watchlist order, `watchlist/order.ts` | order of symbols | reconcile, move | a permutation of what the server lists |
| Runtime, `runtime/terminal-runtime.ts` | wiring of the above, whether the selection has candles | hello, resync, selection, dispose | one selection per hello; the panel says what is true of its chart |
| Terminal, `terminal/trading-terminal.tsx` | the runtime, the candle under the pointer | mount, select, choose a tier | one runtime per container; no readout of a chart that is gone |

The server is one event loop. Everything a tick does (simulate, flush, candles,
dispatch to every socket) runs to its end before the next frame or request is
handled, so a server step is one action. The client is an event loop too, but its
operations span awaits: a snapshot request, a history request and a ticket request
each end in a later step, by when the selection, the session or the server may be
another. Deltas and snapshots travel on channels nothing orders. These are the
behaviours the models keep.

## The modules and the code

| module | models | its state in the code | its actions in the code |
|---|---|---|---|
| `OrderBook` | server order book | `#bids`, `#asks`, `#touched*`, `#sequence`; a client's copy as history | `setLevel`, `addQuantity`, `trim`, `flushDelta`, `clearPendingChanges` |
| `BookFollower` | what a client is promised of a book (abstract) | – | publish, follow, distrust, restart |
| `BookSync` | `OrderBookSynchronizer` between server and client | status, sequence, buffer, book; session, frames and deltas on their way; the REST request | tick, subscribe, snapshot request and answer, merge step, delta, gap, hello, close, restart |
| `MarketSelection` | selection controller, registry, desired state, connection state | `#market`, `#interval`, pending history and snapshot, tracked books, subscriptions on both sides | `selectMarket`, `selectInterval`, `refreshSelected`, `refreshBook`, answers and failures, hello, close, `dispose` |
| `CandleEngine` | aggregators, ring, history route | open candle, ring slots, next trade id | `SymbolEngine.tick` (candles part) |
| `CandleDelivery` | subscription queues, pacing, dispatcher (extends `CandleEngine`) | `SymbolSubscription`, effective tier | `dispatch`, `subscribe`, `unsubscribe`, `set_interval`, change of tier, reconnect |
| `ChartHistory` | history controller and chart session, the route's answer of the newest candles | `#pendingScope`, `#buffered`, `#activeCandles`, `#renderingPaused`, `#needsFullRender`; where the answer held began as history | `select`, its answer or failure, `onCandles`, `setRenderingPaused`, hello, loss |
| `SocketClient` | the socket's life | `#started`, `#state`, `#socket`, `#ticketAbort`, `#reconnectTimer`, `#attempt`, `#connectedAt` | `connect`, `disconnect`, offline, online, ticket, open, hello, close, timer |
| `Connection` | tiers and heartbeat of one connection | `autoTier`, `tierOverride`, both counters, ages of the last report, frame and timer | report, override, silence, heartbeat, close, accept |
| `MarketSimulator` | generator of one symbol's market | fair value, trend, regime ticks, book | the whole `tick`; `seedBook` |
| `MarketEngine` | clock, engine and runtime over one book (extends `OrderBook`) | start time, tick, ticks owed by the pass, timer set or not; the wall clock | `start`, `stop`, `pump`, each write and the end of a tick; the clock passes, stands or is set back |
| `Admission` | tickets, over `SocketClient` (extends it) | expiry of the ticket, consumed ids by ours, the clock; where the ticket is | `mint`, `verifyAndConsume`, eviction, replay; each client step that fetches, presents or drops a ticket |
| `FrameLimits` | rate limiter of a connection | tokens, times of refill, strikes | `check` on a frame of either type at any time |
| `StalledLink` | a conforming client behind a link that stalls (extends `FrameLimits`) | the schedule of its frames, those held up | a second passes and the link flows or does not |
| `Tiers`, `TierChoice` | the tier a user chooses, both ways | `#tierOverride`, `#hasExplicitOverride`; `autoTier`, `tierOverride`; `effectiveTier` of the store; frames each way | `setTierOverride`, `reapply`, hello, `announceTier`, a refused frame, break, new runtime |
| `Measurement` | pings, pongs and reports | `#pendingPings`, both averages, sample count | `start`, `stop`, `sendPing`, `receivePong`, `sendNetworkReport` |
| `Screen` | publisher and visibility | `#pendingHandle`, `#paused`, what is unshown | mount, dispose, `markDirty`, `setPaused`, frame |
| `TradeTape` | `MarketUiModel` of a symbol | `recentTrades`, latest and baseline by id | `processTrades`, `selectSymbol`; the server restarts |
| `WatchlistOrder` | order of the watchlist | storage, registry, the page's list | read and reconcile, move and write, another tab |
| `ChartPanel` | overlay, readout and size of the chart | `#hasCandle`, `#helloReceived`, what is awaited; session, hover, `#pendingResize` | selections, hello, resync, history, snapshot, candles, crosshair, resize |

`Tiers` is also what `Connection` extends. Each `MC…` module gives the constants that a
`.cfg` cannot write. The theorems are in the `…Proofs` modules: those named after one
module are about it; `MarketEngineProofs` is about `OrderBook` too, `CandleProofs` about
`CandleEngine` and `CandleDelivery`, `ConnectionProofs` about `Connection`, `TierChoice`,
`FrameLimits` and `StalledLink`, and `TerminalProofs` about `SocketClient`, `Admission`, `Screen`,
`ChartPanel`, `Measurement`, `WatchlistOrder` and `TradeTape`.

Two MC modules put independent machines side by side: `MCTerminal` the client with its
tickets, the screen, the measurement, the tape, the watchlist and the chart panel;
`MCConnection` the tiers, the limiter, the stalled link and the user's choice. They
share no variable and no guard, so interleaving them could show nothing: each moves
while the others are in their initial state, and the states of a run are the sum of
the machines and not their product. Where components do interact, one module extends
the other and their steps are one action (`MarketEngine` and `OrderBook`, `Admission`
and `SocketClient`, `CandleDelivery` and `CandleEngine`) or one module holds both sides
(`BookSync`, `MarketSelection`, `ChartHistory`, `TierChoice`). `PROJECT.json` lists for
every definition the lines it was translated from.

Conventions. A step of an event loop is one action; what the code awaits ends in an
action of its own. `BookSync` makes an exception in the safe direction: the loop
over the buffer in `applySnapshot` is one action per delta, so that the properties
hold in the middle of it, but nothing else may happen in between. Variables
commented `history` record the past for a property and are read by no guard.
Definitions such as `CloseThroughLate` next to `CloseThrough` are the same operation
with a mistake in it; nothing uses them but the test that each property notices
one (`PROJECT.json`, `mutants`).

What is abstracted: a candle is the trades it folds (first, count, last), not its
prices, so that "no trade lost, none twice" can be said; a delta carries the levels
it changes, because a delta applied to the wrong book must leave wrong contents; in
`MarketSelection` a book is only its status and in `BookSync` a history is only
whether a load also waits for it. The seeded random stream is every choice it could
make. Reports are bands of RTT and jitter, cut where the thresholds cut them.

## What each run checks

| run | bounds | what it shows |
|---|---|---|
| `orderbook` | 2 prices, quantities 0–1, depth 1, ticks of 2 time units, wall clock up to 7 and set back once, passes of at most 2 ticks; 207,434 states | `ChainReproducesBook`: snapshot plus deltas are the book after every flush, and a number is spent exactly when the book changed; `TouchedExplainsDifference`: between flushes the touched levels account for every difference; `NeverAhead`, `SnapshotsAreWhole`: no tick before its time, no half tick read; `CatchesUp` (liveness): none skipped |
| `booksync` | 1 level of 2 values, 3 deltas, 1 restart, 1 frame under way, buffer of 1; 215,658 states | `LocalBookExact` (invariant I1, by contents), `SessionConsistent`, `FollowsServer` (it implements `BookFollower`), `Resyncs` (liveness) |
| `selection` | 3 symbols, 2 intervals, 2 selections, 2 sessions, 2 disturbances; 1.03 million states | `LiveMeansSynchronized`; `SubscriptionsAgree`: the books tracked, the subscriptions wanted and those served are one; `ChartKeepsItsFeed`, `ChartSettles`; `FirstSessionGoesLive` (liveness) |
| `delivery` | intervals of 1 and 3 ticks, ring of 3, 5 ticks, 0 or 2 trades each, 2 tiers, 3 commands; 1.11 million states | `CandlesPartitionTrades`, `RestAnswersNewest`; `SentOnceInOrder`: finals once and trades in order; `NewestVersionSurvives` |
| `chart` | 2 intervals (symmetric), answers of 1 candle, 2 trades, 1 closing tick, 2 selections, 2 disturbances; 1.51 million states | `ChartInStep`: from the answer's first candle on, what is held is in step with the server, and what is drawn with what is held; `OneScope`; `NeverGoesBack` |
| `socket` | the client: 2 lives, 2 network events, error after 2, tickets of one time unit, clock set back once; the screen: 2 parts; measurement: 4 pings, 2 pending, 3 time units; tape of 2, ids up to 5, 2 runs; watchlist of 3 registered symbols; panel: 2 markets, 2 intervals, 2 sizes, 4 loads; 159,890 states | `QuietWhenStopped`, `OneSocketAtATime`, `SingleUse`, `UptimeIsOfThisSocket`, `Reconnects` (liveness); `NothingUnpublished`; `ReportsTellOfThisLink`; `TapeShowsNewest`; `ListIsTheRegistryAsChosen`; `PanelIsCurrent` |
| `connection` | thresholds 3 and 5, silences of 3 and 6, heartbeat 9, timer at most 1 late, all bands; limiter: 2 types, 5 frames; link: stalls of up to 11 s, a calm second after each, 34 s in all; choice: 3 frames each way; 1.13 million states | `ClientKnowsTier`, `SilenceIsHeeded` (a silence costs one tier until it is long, and is noticed in time), `MovesAreConfirmed`, `GoodLinkReachesFull` (liveness); `BucketsKeepTheCurve`, `StalledClientIsKept`; `ChoiceIsInForce` |
| `simulator` | depth 3, fair values 6–9 on a grid of 2, levels of up to 2, stray trades of 3, 3 orders that come or go in a tick; 1,441 states, 3.7 million transitions | `LadderIsWhole`, `TapeFollowsBook` |

Every module's type invariant is checked as the first conjunct of one of these, or
proved from one. Why the bounds are enough: in `orderbook` a stall of three periods owes
more ticks than a pass may run, and a step back in the middle of them is what could
skip or repeat one; in `booksync` a buffer of one already overflows, three deltas make a
duplicate, a gap and a hole, and the restart makes numbers of two runs meet; three
symbols let a switch supersede a switch (A to B to C), and two selections and two
sessions are what the violated run needs; five ticks over intervals of one and three
wrap the ring of three and close idle buckets; the tiers of `delivery` are the fastest
and one slow enough to hold two closings; depth 3 has a touch, a middle and an edge to
tear holes in, and three orders in a tick, which is what the code's configurations have
at most, can empty all three of a side. An answer of one candle is what makes the second
candle of `chart` one too many, where the code needs the 301st. The thresholds of `connection` are the code's own counts, `StalledLink`
runs the server's own limits and the client's own periods, and three frames each way
let a choice overtake a hello and an announcement overtake a choice. A tape of two with
ids to five cuts trades off and is brought them again; four loads of the panel let two
selections and a resync overtake one another and a change of size. Deadlock is checked
where the system never stops (`booksync`, `orderbook`, `connection`, `simulator`); the
other models end when their bounds are spent.

### Fairness

Liveness is checked under no more than this: requests and timers that are under way
end, frames that arrived are handled, and a ticket, an opening and a hello that are
possible again and again happen some time (strong fairness in `Admission`: the
service mints, and takes a ticket that still has time, again and again; it is not down
for ever). A ticket may come out of time or be refused any number of times before.
`MarketEngine` assumes that the runtime's timer fires while it is set and that a
tick's own code ends; the wall clock may do as it likes, and `CatchesUp` speaks of the
time after it has come to rest at its bound. Requests may fail first: `Resyncs` and
`FirstSessionGoesLive` say what then remains owed. `SnapshotArrives` is strongly
fair because every new selection supersedes the request before it, and only a user
who never stops switching supersedes them all. `Connection` assumes that time
passes and that the timer of the gateway runs, at most `MaxLate` late; in
`MCConnection` both are asked only of a run in which the other machines rest.

### Disagreements the runs exhibit

Four runs are expected to be violated. Each checks one sentence of the
repository's documents against what the code does.

* `selection_stuck`: a connection lost in the middle of a switch. The hello loads
  the new market again but does not remove the old one; its synchroniser stays in
  SYNCING, so that the client never becomes LIVE.
* `chart_finals`: the history is answered before the server has handled the
  subscription sent with it; a candle closed in between is in neither.
* `socket_leak`: an attempt made while another socket lives replaces it without
  closing it.
* `connection_silence`: the count of bad reports goes on across a silence that
  demotes, so that one report is enough for the next demotion.

Met while modelling, and not kept as runs of their own:

* `delivery-scheduler.ts:81`: a candle closed without a trade in its tick is sent
  as final and, from the coalescing slot, once more as open in the same frame; the
  chart's merge ignores the second (`NeverGoesBack`).
* `market-selection-controller.ts:168`: a change of interval while a load is pending
  supersedes that load's history, and with it the retry of an incomplete snapshot;
  the book stays RESYNCING.
* `market-selection-controller.ts:131`: a gap whose snapshot request fails leaves
  the book RESYNCING until the next refresh; `Resyncs` excludes failed requests for
  this reason.
* `connection-session.ts:101`: trades pending when a client subscribes again without
  the channel are still sent.
* `market-repository.ts:43`, `candle-history-controller.ts:113`: an answer has the
  newest 300 candles at most, the open one included, and a refresh or reconnect replaces
  with it all that the chart has accumulated; a chart grown past 300 loses its oldest
  ones then. `ChartInStep` therefore speaks of the candles from the answer's first one
  on (`since`), and `NeverGoesBack` excepts from what is never lost just what a refresh's
  answer does not reach back to. The model's answers are limited by `HistoryLimit`;
  the server's ring keeps 360 closed candles, so that it always has the newest 300.
* `candlestick-chart-adapter.ts:224`: a candle older than the answer's first, still on
  its way when that answer lands, would be handed to the chart library as an update of a
  bar it does not have. It takes a frame 300 periods late, which nothing but time rules
  out; `GrowsAtItsEnd` speaks of the candles from `since` on.
* `candle-history-controller.ts:85`: a refresh that fails drops what was buffered
  while it was pending, though the chart keeps showing that scope; `InStep`
  therefore requires that the answer awaited has arrived.
* `market-socket-client.ts:289`: a `connectedAt` of an earlier socket survives offline,
  online and `disconnect`, so that a socket which never opened can count as one with a
  long uptime and start the backoff over; `UptimeIsOfThisSocket` therefore speaks of a
  first life whose network did not change.
* `gateway.ts:138`: `tier.changed` is sent only if the effective tier moves. A move of
  the automatic tier under an override, or an override equal to the automatic tier, is
  not announced, and the drawer keeps an older `autoTier` or shows no override
  (docs/03-adaptive-delivery.md:333 has it show both). `ClientKnowsTier` and
  `ChoiceIsInForce` are about the effective tier, and the latter about the override the
  session has.
* `market-runtime.ts:43`: the comment has the runtime tick immediately, but the opening
  pump at the start time owes no tick; the first comes one period later.
* `rate-limiter.ts:21`: a stall of twelve seconds delivers enough at once to close the
  socket of a client that did nothing but its schedule, with 4429, which by
  docs/04-frontend.md:570 means that the client is misbehaving, while
  docs/05-testing.md:264 has far more frequent pings never limited. Eleven seconds
  are survived (`StalledClientIsKept`, `StalledClientSurvives`), seven without a lost
  frame, and it takes no more than one calm second after the one in which a stall's
  frames arrive: its strikes have then left the window before another stall is long
  enough to add to them. Without it, a stall of eleven seconds, the second in which its
  frames arrive and a stall of eight close the socket too (`Calm` = 0). A frame lost this way is sent again by nobody before the next reconnect; `SubscriptionsAgree` and
  `ChoiceIsInForce` therefore speak of sessions in which none was refused.
* `ticket-service.ts:120`: consumed ids are forgotten by the wall clock; a clock set
  back afterwards makes a spent ticket good once more. `SingleUse` counts exactly that.
* `symbol-engine.ts:21`: trade ids begin again at 1 when the server restarts while
  `MarketUiModel` lives on; price and tape stand still over a LIVE connection until the
  new ids pass the old ones. `TapeShowsNewest` says so.
* `terminal-runtime.ts:237`: while a history is awaited, frames buffered for it, or the
  snapshot of the selection before an interval change, withdraw the overlay over the
  old scope's chart; so do frames after a history that failed. And a snapshot that was
  not applied leaves it up over a chart with candles until the next frame.
  `PanelIsCurrent` claims the overlay only when the history awaited is there.
* `candlestick-chart-adapter.ts:244`: the readout is refreshed by the pointer alone,
  not by a candle that changes under it; and until a new market's history lands, the old
  chart's candles can be read under the new market's title.

## What is proved

`tlapm` checks these for every value of the constants that the named assumptions
allow, without a bound on the number of steps.

| module | about | theorem | argument |
|---|---|---|---|
| `MarketEngineProofs` | `OrderBook` | `TypeCorrect`, `NoChangeEscapes`, `ChainIsExact`, `BookPublishesDifferences` | `TypeOK /\ TouchedExplainsDifference` is inductive: the first write to a level after a flush records what the client has, later ones leave the record alone, so a flush that sends the levels whose value differs from the record sends exactly the difference. `BookPublishesDifferences` is what ties this module to `BookSync`, whose `Tick` takes it for granted: nothing but a delta changes the book a client is given, with the next number, and it lists exactly the levels on which the two books differ. |
| | `MarketEngine` | `EngineDrivesBook`, `EnginePublishesDifferences`, `TicksAreDue`, `ServedSnapshotsAreWhole` | The engine refines `OrderBook` step by step, so the theorems above hold of it. `OwedIsDue`: what a pass may run lies within what the wall clock has shown, for every length of a tick; a pass counts down what it owes, so a clock set back under it does no harm. |
| `BookSyncProofs` | `BookSync` | `TypeCorrect`, `BookContinuity`, `NothingOfAnotherRun` | I1 alone is not inductive: the next delta or answer could belong to another run of the server or another session. `Kept` adds `SessionConsistent` (everything on its way to an attached client, and everything it buffered, is of this run) and that a synchronised or merging book has a number. |
| | `BookFollower` | `ImplementsFollower` | Each step of the synchroniser is a step of the follower or a stutter. That what is shown never goes back needs `FloorKept`: an answer on its way was read at or after the number a merge must reach, and a resync vouches for nothing until its own answer is merged. |
| `MarketSelectionProofs` | `MarketSelection` | `SelectionInvariant`, `RegistriesAgree`, `LiveIsSynchronized`, `ChartIsFed`, `ChartShowsSelection` | `SelectionInv` is the four properties with what ties the chart's requests to the selection. What the server will serve is a fold over the frames under way: the lemmas show that such a fold is the end of a course through them, one frame after the other, so that a frame taken off its front or added at its end does what the server or the client meant. |
| `CandleProofs` | `CandleEngine` | `CandlesPartition`, `RestIsNewest` | The fold over a tick's trades is a function of how many it has applied; that each application keeps the partition is shown by induction over that number. The ring holds the newest closed candles at the slots their number gives modulo its size, for every capacity. |
| | `CandleDelivery` | `DeliveryInvariant`, `DeliveredOnce`, `NewestVersionKept` | What a connection was sent and what waits for it are together the candles closed since it chose its interval, and its trades without a gap; subscribing, changing the interval and dispatching move the border between the two and never what is on either side. |
| `ChartHistoryProofs` | `ChartHistory` | `ChartInvariant`, `ChartStaysInStep`, `ChartStaysInOneScope`, `ChartNeverGoesBack` | `ChartInv` says that the answer of the request that is current, what was buffered since and what is still coming have together every candle of the server (`RequestInv`, and `CoveredInv` once it is merged), all of it from where that answer begins; that an answer has no holes and begins no later than one given now would (`SinceInv`, by `NewestGrows`: a series only grows); and that nothing coming that the answer reached back to starts before the end of what is held (`Ordered`), without which the chart could not be updated at its end only. |
| `TerminalProofs` | `SocketClient` | `TypeCorrect`, `StoppedIsQuiet`, `AlwaysRetries`, `SessionIsReal`, `OneSocket` | What a new socket may replace depends on what else is under way: `OneThingAtATime` says that, without a change of the network, a timer, a ticket request and a socket exclude each other. `AlwaysRetries` and `SessionIsReal` are stated only as theorems. |
| | `Admission` | `TicketsRefineTheClient`, `TicketsAreUsedOnce`, `UptimeIsTheSockets` | The client with tickets refines the client without. `TicketsAreUsedOnce` is inductive once it says where the time of each use went: a ticket that is still good is remembered unless the clock was set back since it was forgotten. |
| | `Screen` | `ScreenCatchesUp` | The property is inductive with the types: what is unshown has a frame requested, or waits for a page that is hidden. |
| | `ChartPanel` | `PanelStaysCurrent` | `Current` adds whose chart is on screen (the selected one's, unless a history is awaited or failed) and that a selection awaiting both history and book has seen candles only in the buffer its history will take; without the latter the overlay could be withdrawn over an empty chart. |
| | `Measurement` | `ReportsAreOfThisLink` | Both averages lie between two trips that this socket's own pings made: the weighted mean of two numbers between the bounds stays between them, also when it is rounded down. |
| | `WatchlistOrder` | `ListIsComplete` | The property is inductive once it is said of the list, the stored order and the registry a page was loaded with (`Follows`). A loop of the reconciliation adds candidates named by an increasing choice of their places, the first of each that is known and not there yet, by induction over the candidates; two such loops give the known ones as stored and then the new ones as registered. A move is a permutation of places. |
| | `TradeTape` | `TapeIsNewest` | `TapeInv` says it of everything received: the tape is the first `TapeLimit` of it by rank, the number of greater ids, and every rank is taken once (an injection between finite sets of one size). A batch's loop over its ids is by induction. A trade cut off earlier that comes again is taken for new, and under the server's new run with another price; it shows nothing, because a tape that has cut off is full of greater ids. |
| `ConnectionProofs` | `Connection` | `TypeCorrect`, `ToldIsInForce`, `SilenceCostsOneTier`, `SilenceHasItsEffect`, `EveryMoveIsConfirmed` | `Worn` ties the tier to the one after the last report and to whether this silence has cost a tier; `Noticed` says how far the timer can lag behind the ages; `Earned` ties both counters to the runs of reports that were good or bad for the tier in force. |
| | `TierChoice` | `ChoiceSurvives` | Of two wires of any length only the last frame matters: the lemmas say what appending and taking off does to it. `Kept` adds that an unseen hello comes first, that nothing is under way without a socket, and that what was never chosen is nowhere, which is why a session need not be told. |
| | `FrameLimits` | `FramesKeepTheCurve` | A bucket's tokens are the least that the burst, and each frame that passed, leave (`LeastLeft`), so a token is there exactly when the curve has room: refilling adds the same to each, spending takes a token from each. The strikes are an injection into the refused frames that reaches every one within the window, so their number is the number of those. Frames that the other buckets refuse are carried along as the set of frames asked. |
| | `StalledLink` | `StalledClientSurvives` | Assumes `LongestStall` ≤ 11, and `Calm` ≥ 1 unless `LongestStall` ≤ 7. `LinkInv` counts: how many frames of each type the schedule can put into a stall (`Sends`, by their periods), that each bucket has rested as long as the stall or is new, and that the strikes are a second older than the rest once a second has flowed. `FramesFit` is then arithmetic on the server's table: of everything that arrives together only pings can be too many, by at most two; and `Managed`, by induction over the frames handled at one time, that two refused pings are two strikes and not three, since strikes from before have left the window (`RecentAreFewer`). |
| `MarketSimulatorProofs` | `MarketSimulator` | `LadderStaysWhole` | Only the end of a tick is whole, so the proof follows the tick. Once the stale quotes are traded away the book lies within what it will quote, and every later trade and order keeps that; requoting, replenishing and trimming then leave exactly the window, counted by its prices. Sums of quantities are by induction over the levels, and so is any number of orders that come or go in a tick (`ChurnedKeeps`): each keeps that the book lies within what will be quoted. |
| | | `TapeExplainsBook` | Each kind of trade takes parts of the levels it finds, of none before every better level is taken whole (`FromTheBest`); a stray trade because what is spent before a level grows by each better one. Ranked by how many are better, such parts are trades at the best price one after the other, and leave of the book shown before the tick what the code's bookkeeping says is left (`SideFollows`). Tapes that follow so join into one (`FollowsJoin`). |

The assumptions are on constants only: quantities contain zero, bounds are natural
numbers, periods, thresholds and windows are positive and ordered as in the code,
limits are natural numbers and that of a history's answer is not zero, `None` is no tier, scope or size and `NoCandle` no candle,
the default interval is an interval. TLC evaluates them in the runs. One theorem assumes
more: `StalledClientSurvives` says of which stalls it speaks, and is false of longer ones.

The library's theorems of induction take an operator as a parameter, which no prover
here can be given. Where a proof needs induction (over the trades of a tick, the
strikes, the levels of a book, the orders of a tick, the trades of a tape, the frames under way, the
candidates of a list, the ids of a batch) it is over a set of numbers: one that has
zero, and each number's successor, has them all, for otherwise the least number it
lacks would have a predecessor (`WFMin` of the library).

Only model-checked:

* Liveness (`CatchesUp`, `Resyncs`, `FirstSessionGoesLive`, `Reconnects`,
  `GoodLinkReachesFull`), which TLAPS does not reach. Every other property that a
  passing run checks is also a theorem.

## What is not modelled, and why

* The protocol package: schemas, and the conversion between decimal strings and scaled
  integers. Pure functions on strings; the models start behind them. Its constants are
  those of the models.
* Configuration, metrics, logging, build and start-up: nothing the other parts read
  back. The gateway's set of handles and its gauges likewise.
* The markup of the React components. Of `trading-terminal.tsx`, mounting is in
  `Screen` and the readout it clears in `ChartPanel`.
* The length of the backoff (random jitter over a power of two): `SocketClient` lets the
  timer fire at any time, so what is shown holds for every length.
* Signatures of tickets: a ticket is one that this server made. `AUTH_MODE=off`, in which
  none is checked.
* The rounding of the token buckets: their tokens are exact in `FrameLimits` and doubles
  in the code, which may differ by an ulp where a frame arrives at the very moment its
  token is there.
* A wall clock set back under a connection: the gateway takes its times from `Date.now`,
  and the ages in `Connection` only grow. Under the tickets and the engine it is modelled.
* The displayed rates (`rolling-rate.ts`) and the setters of the store: nothing depends
  on them. The pings' clock is one that does not run backwards, as `performance.now()`.
* Prices of candles: a candle is the trades it folds.

## What could come next

1. One composition of `MarketSelection`, `ChartHistory` and `ChartPanel`, which meet in
   the scope selected; each now keeps of the others what it needs.
2. The clock of `MarketEngine` under `BookSync`, so that a snapshot is read between two
   passes and not only between two ticks.
