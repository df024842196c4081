----------------------------- MODULE ChartHistory -----------------------------
(***************************************************************************)
(* The candles on the chart: the history of an interval over REST, joined  *)
(* with the candle frames of the socket, for the market on screen.         *)
(*                                                                         *)
(* The two come over channels nothing orders.  The user changes interval   *)
(* and hides the tab while a history is on its way, the session is lost    *)
(* and comes back, a request fails.  The server's series and its pending   *)
(* queue (CandleDelivery) are kept to what a client can tell of them: each *)
(* version of a candle is its lastTradeId and whether it is final.         *)
(***************************************************************************)
EXTENDS Integers, Sequences, FiniteSets

CONSTANTS
    Interval,
    None,           \* no interval
    HistoryLimit,   \* CANDLE_HISTORY_LIMIT_MAX: candles of an answer, the open one included
    Trades,         \* bound: the trades the market makes
    Closings,       \* bound: ticks that end a bucket
    MaxSelections,  \* bound: changes of interval
    MaxDisturbances \* bound: refreshes, lost sessions, failures, hidings of the tab

ASSUME NoneAssumption == None \notin Interval
ASSUME LimitAssumption == HistoryLimit \in Nat \ {0}
ASSUME BoundAssumption ==
    /\ Trades \in Nat /\ Closings \in Nat
    /\ MaxSelections \in Nat /\ MaxDisturbances \in Nat

VARIABLES
    series,     \* the server's canonical candles, per interval
    lastTrade,  \* the last tradeId
    served,     \* subscribedInterval of the session's subscription
    finals, latest,  \* pendingFinalCandles, latestActiveCandle (at most one)
    uplink, feed,    \* frames on their way to the server, to the client
    connected,
    interval,   \* #interval of the selection, and what is wanted of the server
    pending, buffered,  \* #pendingScope, #buffered
    requests,   \* every request not settled yet, with its answer; one is current
    active, held,         \* #activeScope, #activeCandles
    chart,      \* what the chart session was given
    paused, needsFull,    \* #renderingPaused, #needsFullRender
    covered,    \* history: nothing was missed between held's answer and the feed
    since,      \* history: the bucket from which on that answer had the candles
    spent       \* how much of each bound is used

serverVars == <<series, lastTrade, served, finals, latest>>
historyVars == <<pending, buffered, requests>>
chartVars == <<active, held, chart, paused, needsFull, covered, since>>
vars == <<serverVars, uplink, feed, connected, interval, historyVars, chartVars, spent>>

Candle == [interval : Interval, start : Nat, id : Nat, final : BOOLEAN]
Request == [current : BOOLEAN, interval : Interval, answered : BOOLEAN,
            from : Nat, candles : SUBSET Candle, streamed : BOOLEAN]

(* One candle per bucket, all of one interval.                             *)
SeriesOf(cs, i) ==
    /\ \A c \in cs : c.interval = i
    /\ \A c, d \in cs : c.start = d.start => c = d

TypeOK ==
    /\ \A i \in Interval : series[i] \in Seq([id : Nat, final : BOOLEAN])
    /\ served \in Interval \cup {None} /\ interval \in Interval \cup {None}
    /\ pending \in Interval \cup {None} /\ active \in Interval \cup {None}
    /\ \A c \in finals \cup latest \cup buffered \cup held \cup chart :
          c.interval \in Interval /\ c.start \in Nat /\ c.id \in Nat /\ c.final \in BOOLEAN
    /\ Cardinality(latest) <= 1
    /\ {r.interval : r \in {q \in requests : q.current}} = {pending} \ {None}
    /\ pending = None => buffered = {}
    /\ active = None => held = {}
    /\ ~connected => served = None /\ uplink = <<>> /\ feed = <<>>
    /\ lastTrade \in 0..Trades /\ since \in Nat

Spend(what, max) ==
    /\ spent[what] < max
    /\ spent' = [spent EXCEPT ![what] = @ + 1]

------------------------------------------------------------------------------
(* The server.                                                             *)

Open(s) == s # <<>> /\ ~s[Len(s)].final
Closed(s) == IF Open(s) THEN [s EXCEPT ![Len(s)].final = TRUE] ELSE s
Folded(s, id) ==
    IF Open(s) THEN [s EXCEPT ![Len(s)].id = id] ELSE Append(s, [id |-> id, final |-> FALSE])

At(i, s, k) == [interval |-> i, start |-> k, id |-> s[k].id, final |-> s[k].final]
Candles(i) == {At(i, series[i], k) : k \in 1..Len(series[i])}

From(n, cs) == {c \in cs : c.start >= n}

\* Where an answer given now begins: it has the newest candles only.
Newest(i) == IF Len(series[i]) > HistoryLimit THEN Len(series[i]) - HistoryLimit + 1 ELSE 1

(* A tick: it ends the open bucket of some intervals, then may trade, and  *)
(* the subscription's queue is flushed when its tier lets it.              *)
Tick(ended, trades, flush) ==
    LET closed == [i \in Interval |-> IF i \in ended THEN Closed(series[i]) ELSE series[i]]
        s == IF served = None THEN <<>> ELSE closed[served]
        newFinals == IF served \in ended THEN finals \cup {At(served, s, Len(s))} ELSE finals
        newLatest == IF served # None /\ trades
                     THEN {At(served, series'[served], Len(series'[served]))} ELSE latest
        frame == [interval |-> served, candles |-> newFinals \cup newLatest]
    IN  /\ \A i \in ended : Open(series[i])
        /\ IF ended = {} THEN UNCHANGED spent ELSE Spend("close", Closings)
        /\ trades => lastTrade < Trades
        /\ lastTrade' = IF trades THEN lastTrade + 1 ELSE lastTrade
        /\ series' = [i \in Interval |->
               IF trades THEN Folded(closed[i], lastTrade + 1) ELSE closed[i]]
        /\ flush => frame.candles # {}
        /\ ended # {} \/ trades \/ flush
        /\ finals' = IF flush THEN {} ELSE newFinals
        /\ latest' = IF flush THEN {} ELSE newLatest
        /\ feed' = IF flush THEN Append(feed, frame) ELSE feed
        /\ UNCHANGED <<served, uplink, connected, interval, historyVars, chartVars>>

(* subscribe and set_interval: a new interval discards what is pending.    *)
HandleFrame ==
    /\ uplink # <<>>
    /\ uplink' = Tail(uplink)
    /\ served' = Head(uplink)
    /\ IF served' = served THEN UNCHANGED <<finals, latest>> ELSE finals' = {} /\ latest' = {}
    /\ UNCHANGED <<series, lastTrade, feed, connected, interval, historyVars, chartVars, spent>>

(* The history route answers.  The answer is joined to the stream without  *)
(* a gap when the server already streams its interval, for good.           *)
Answer(r) ==
    /\ ~r.answered
    /\ requests' = (requests \ {r}) \cup
           {[r EXCEPT !.answered = TRUE, !.from = Newest(r.interval),
                      !.candles = From(Newest(r.interval), Candles(r.interval)),
                      !.streamed = (served = r.interval /\ uplink = <<>>)]}
    /\ UNCHANGED <<serverVars, uplink, feed, connected, interval, pending, buffered,
                   chartVars, spent>>

------------------------------------------------------------------------------
(* The client.                                                             *)

IsNewer(c, d) == c.id > d.id \/ (c.id = d.id /\ c.final /\ ~d.final)

MergeCandles(cs) == {c \in cs : \A d \in cs : d.start = c.start => ~IsNewer(d, c)}

Asked(i) == [current |-> TRUE, interval |-> i, answered |-> FALSE,
             from |-> 1, candles |-> {}, streamed |-> FALSE]

(* The signal of a request is aborted, which cancels its query: it may     *)
(* still settle, with an answer or not.                                    *)
Aborted(r) == [r EXCEPT !.current = FALSE, !.streamed = FALSE]

(* select: the request before is superseded, what it buffered is dropped.  *)
Select(i) ==
    /\ pending' = i
    /\ buffered' = {}
    /\ requests' = {Aborted(r) : r \in requests} \cup {Asked(i)}
    /\ covered' = FALSE
    /\ UNCHANGED <<active, held, chart, paused, needsFull, since>>

(* The user changes the interval (the first time: selects the market).     *)
SelectInterval(i) ==
    /\ i # interval
    /\ Spend("select", MaxSelections)
    /\ interval' = i
    /\ uplink' = IF connected THEN Append(uplink, i) ELSE uplink
    /\ Select(i)
    /\ UNCHANGED <<serverVars, feed, connected>>

(* A tab hidden too long comes back.                                       *)
Refresh ==
    /\ interval # None
    /\ connected
    /\ Spend("disturb", MaxDisturbances)
    /\ Select(interval)
    /\ UNCHANGED <<serverVars, uplink, feed, connected, interval>>

(* A session of its own for each history, which is given all of it, now or *)
(* when the tab is shown.                                                  *)
NewSession(cs) ==
    /\ chart' = IF paused THEN {} ELSE cs
    /\ needsFull' = (needsFull \/ paused)

ArriveForgettingBuffer(r) ==
    /\ r.answered
    /\ requests' = requests \ {r}
    /\ IF ~r.current
       THEN UNCHANGED <<pending, buffered, chartVars>>
       ELSE /\ active' = r.interval /\ held' = r.candles /\ pending' = None /\ buffered' = {}
            /\ covered' = r.streamed /\ since' = r.from
            /\ NewSession(r.candles)
            /\ UNCHANGED paused
    /\ UNCHANGED <<serverVars, uplink, feed, connected, interval, spent>>

(* An answer arrives.  A superseded one changes nothing; the one awaited   *)
(* is merged with what was buffered and replaces the chart.                *)
Arrive(r) ==
    /\ r.answered
    /\ requests' = requests \ {r}
    /\ IF ~r.current
       THEN UNCHANGED <<pending, buffered, chartVars>>
       ELSE LET merged == MergeCandles(r.candles \cup buffered)
            IN  /\ active' = r.interval /\ held' = merged /\ pending' = None /\ buffered' = {}
                /\ covered' = r.streamed /\ since' = r.from
                /\ NewSession(merged)
                /\ UNCHANGED paused
    /\ UNCHANGED <<serverVars, uplink, feed, connected, interval, spent>>

(* The request awaited fails: what it buffered is dropped with it.         *)
Fail(r) ==
    /\ r.current
    /\ Spend("disturb", MaxDisturbances)
    /\ requests' = requests \ {r}
    /\ pending' = None /\ buffered' = {}
    /\ UNCHANGED <<serverVars, uplink, feed, connected, interval, chartVars>>

(* The chart session replaces what it has of a bucket, or adds it.         *)
Updated(cs, update) == {c \in cs : \A d \in update : d.start # c.start} \cup update

ShowUnchecked(cs) ==
    LET update == MergeCandles(cs)
    IN  /\ held' = Updated(held, update)
        /\ chart' = IF paused THEN chart ELSE held'
        /\ needsFull' = (needsFull \/ (paused /\ update # {}))

(* Newer versions replace what is held, and go to the chart one by one or, *)
(* while it is hidden, all at once later.                                  *)
Show(cs) ==
    LET update == {c \in MergeCandles(cs) :
                      \A d \in held : d.start = c.start => IsNewer(c, d)}
    IN  /\ held' = Updated(held, update)
        /\ chart' = IF paused THEN chart ELSE Updated(chart, update)
        /\ needsFull' = (needsFull \/ (paused /\ update # {}))

OnCandlesOfAnyScope(frame) ==
    IF pending # None
    THEN buffered' = buffered \cup frame.candles /\ UNCHANGED <<held, chart, needsFull>>
    ELSE Show(frame.candles) /\ UNCHANGED buffered

OnCandles(frame) ==
    LET target == IF pending # None THEN pending ELSE active
    IN  IF frame.interval # interval \/ frame.interval # target
        THEN UNCHANGED <<buffered, held, chart, needsFull>>
        ELSE IF pending # None
        THEN buffered' = buffered \cup frame.candles /\ UNCHANGED <<held, chart, needsFull>>
        ELSE Show(frame.candles) /\ UNCHANGED buffered

Deliver ==
    /\ feed # <<>>
    /\ feed' = Tail(feed)
    /\ OnCandles(Head(feed))
    /\ UNCHANGED <<serverVars, uplink, connected, interval, pending, requests,
                   active, paused, covered, since, spent>>

SetRenderingPaused(p) ==
    /\ p # paused
    /\ IF p THEN Spend("disturb", MaxDisturbances) ELSE UNCHANGED spent
    /\ paused' = p
    /\ IF p \/ ~needsFull \/ active = None
       THEN UNCHANGED <<chart, needsFull>>
       ELSE chart' = held /\ needsFull' = FALSE
    /\ UNCHANGED <<serverVars, uplink, feed, connected, interval, historyVars,
                   active, held, covered, since>>

(* The session is lost, with everything on its way and pending.            *)
Disconnect ==
    /\ connected /\ interval # None
    /\ Spend("disturb", MaxDisturbances)
    /\ connected' = FALSE
    /\ served' = None /\ finals' = {} /\ latest' = {}
    /\ uplink' = <<>> /\ feed' = <<>>
    /\ covered' = FALSE
    /\ requests' = {[r EXCEPT !.streamed = FALSE] : r \in requests}
    /\ UNCHANGED <<series, lastTrade, interval, pending, buffered,
                   active, held, chart, paused, needsFull, since>>

(* A new session: the subscription is sent again, the history fetched anew.*)
Hello ==
    /\ ~connected
    /\ connected' = TRUE
    /\ uplink' = <<interval>>
    /\ Select(interval)
    /\ UNCHANGED <<serverVars, feed, interval, spent>>

Init ==
    /\ series = [i \in Interval |-> <<>>] /\ lastTrade = 0
    /\ served = None /\ finals = {} /\ latest = {}
    /\ uplink = <<>> /\ feed = <<>> /\ connected = TRUE
    /\ interval = None /\ pending = None
    /\ buffered = {} /\ requests = {}
    /\ active = None /\ held = {} /\ chart = {}
    /\ paused = FALSE /\ needsFull = FALSE /\ covered = FALSE /\ since = 1
    /\ spent = [close |-> 0, select |-> 0, disturb |-> 0]

Next ==
    \/ \E ended \in SUBSET Interval, trades, flush \in BOOLEAN : Tick(ended, trades, flush)
    \/ HandleFrame
    \/ \E r \in requests : Answer(r) \/ Arrive(r) \/ Fail(r)
    \/ \E i \in Interval : SelectInterval(i)
    \/ Refresh \/ Deliver
    \/ \E p \in BOOLEAN : SetRenderingPaused(p)
    \/ Disconnect \/ Hello

Spec == Init /\ [][Next]_vars

------------------------------------------------------------------------------
(* What is still to reach the client over this session, of one interval.   *)
Coming(i) ==
    {c \in finals \cup latest : served = i}
    \cup UNION {feed[k].candles : k \in {n \in 1..Len(feed) : feed[n].interval = i}}

(* No update is lost between the history and the stream: once the answer   *)
(* awaited was joined to a stream that already ran, what is held and what  *)
(* is still coming are, from the first candle of that answer on, the       *)
(* server's candles, at every moment; and an answer given now would not    *)
(* reach further back.                                                     *)
(* (CandleHistoryController.select, onCandles; enqueue and flushDue;       *)
(* MarketRepository.candles)                                               *)
InStep ==
    /\ pending = None /\ covered
         => From(since, MergeCandles(held \cup Coming(active))) = From(since, Candles(active))
    /\ active # None => since <= Newest(active)

(* What is held belongs to one scope, and what is buffered to the scope    *)
(* asked for: no late answer and no frame of the interval that was left    *)
(* mixes with it.  (the generation guard, sameScope and setInterval)       *)
OneScope ==
    /\ SeriesOf(held, active)
    /\ SeriesOf(chart, active)
    /\ \A c \in buffered : c.interval = pending
    /\ \A k \in 1..Len(feed) : \A c \in feed[k].candles : c.interval = feed[k].interval
    /\ \A c \in finals \cup latest : c.interval = served

(* The chart shows what is held, or is going to be rendered in full when   *)
(* the tab is shown again; a tab on screen is never behind.                *)
(* (setRenderingPaused, #needsFullRender)                                  *)
ChartShowsHeld ==
    /\ chart = held \/ (paused /\ needsFull)
    /\ ~paused => ~needsFull

(* From the server's candles to the pixels: what is held is in step with   *)
(* the server and the chart with what is held.  (the two above together)   *)
ChartInStep == TypeOK /\ InStep /\ ChartShowsHeld

(* While the scope stays the same no candle on it goes back to an earlier  *)
(* version or disappears: not when frames that were on their way arrive    *)
(* after a newer history, and not when a refresh replaces everything, as   *)
(* far back as its answer reaches.  What is older than that is dropped by  *)
(* the refresh, and by nothing else.  And from there on a session on       *)
(* screen grows at its end only: an update of the past changes a bar that  *)
(* is there, which is all the chart library can do with it.                *)
(* (isNewer: by lastTradeId, never by arrival; #activeCandles.clear;       *)
(* historicalUpdate)                                                       *)
NothingLost ==
    \A c \in held : \/ \E d \in held' : d.start = c.start /\ ~IsNewer(c, d)
                    \/ pending # None /\ pending' = None /\ c.start < since'
GrowsAtItsEnd ==
    \A c \in From(since, chart') : \/ \E d \in chart : d.start = c.start
                                  \/ \A d \in chart : d.start < c.start

NeverGoesBack ==
    [][active' = active => /\ NothingLost
                           /\ pending = None /\ ~paused => GrowsAtItsEnd]_vars

(* docs/03-adaptive-delivery.md:91: "every closed candle is delivered      *)
(* exactly once".  When nothing is on its way any more the client has, of  *)
(* the interval it shows, every candle that was closed.                    *)
FinalsReachChart ==
    /\ pending = None /\ connected /\ active = interval /\ interval # None
    /\ uplink = <<>> /\ Coming(active) = {}
    => {c \in Candles(active) : c.final} \subseteq held

==============================================================================
