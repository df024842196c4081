---------------------------- MODULE MarketSelection ----------------------------
(***************************************************************************)
(* Which market and interval the terminal is on: the selection controller, *)
(* with the history it asks for, the registry of books, the subscriptions  *)
(* the client wants and those the server has, and the connection state the *)
(* header shows.                                                           *)
(*                                                                         *)
(* Selecting, refreshing and changing the interval each start requests     *)
(* that end in a later step, and each supersedes part of the ones before.  *)
(* Of a superseded request nothing is left here: its answer changes        *)
(* nothing (BookSync.tla and ChartHistory.tla check that).  A book is only *)
(* its status; BookSync.tla has its contents.                              *)
(***************************************************************************)
EXTENDS Integers, Sequences, FiniteSets, SequencesExt

CONSTANTS
    Symbol, Interval,
    None,          \* no symbol, no interval
    MaxActions,    \* bound: selections by the user
    MaxSessions,   \* bound: sessions of the socket
    MaxDisturbances \* bound: returns of a hidden tab, holes, failures and refused frames

ASSUME NoneAssumption == None \notin Symbol /\ None \notin Interval
ASSUME BoundAssumption ==
    MaxActions \in Nat /\ MaxSessions \in Nat /\ MaxDisturbances \in Nat

VARIABLES
    market, interval,  \* #market and #interval; no interval once disposed
    history,   \* who awaits the pending history request
    requested, \* #pendingScope: what that request asks for
    snapshot,  \* who awaits the pending book snapshot
    retry,     \* the load has an incomplete snapshot and still awaits its history
    removing,  \* the load unsubscribes the other symbols when its history lands
    shown,     \* #activeScope: what the chart shows
    books,     \* the registry: status of each tracked book
    desired,   \* the subscriptions the client wants: symbol to interval
    conn,      \* ConnectionState; "down" without a session
    uplink, served,  \* frames on their way; subscriptions of the session
    spent      \* how much of each bound is used

scopeVars == <<market, interval>>
loadVars == <<history, requested, snapshot, retry, removing>>
serverVars == <<uplink, served>>
vars == <<scopeVars, loadVars, shown, books, desired, conn, serverVars, spent>>

Bounds == [action : 0..MaxActions, session : 0..MaxSessions, refresh : 0..MaxDisturbances,
           hole : 0..MaxDisturbances, failure : 0..MaxDisturbances, refused : 0..MaxDisturbances]
Unspent == [action |-> 0, refresh |-> 0, session |-> 0, hole |-> 0, failure |-> 0, refused |-> 0]

Status == {"absent", "SYNCING", "SYNCHRONIZED", "RESYNCING"}
Subscriptions == [Symbol -> Interval \cup {None}]
Nothing == [s \in Symbol |-> None]
Frame == [type : {"subscribe", "unsubscribe", "set_interval"}, symbol : Symbol,
          interval : Interval \cup {None}]
NoScope == <<None, None>>

TypeOK ==
    /\ market \in Symbol \cup {None} /\ interval \in Interval \cup {None}
    /\ history \in {"none", "load", "interval"}
    /\ snapshot \in {"none", "load", "refresh", "orphan"}
    /\ retry \in BOOLEAN /\ removing \in BOOLEAN
    /\ {requested, shown} \subseteq (Symbol \X Interval) \cup {NoScope}
    /\ books \in [Symbol -> Status]
    /\ desired \in Subscriptions /\ served \in Subscriptions
    /\ conn \in {"down", "SYNCING", "LIVE"}
    /\ uplink \in Seq(Frame)
    /\ spent \in Bounds

Disturbances == spent.refresh + spent.hole + spent.failure + spent.refused
Spend(what) ==
    /\ IF what = "action" THEN spent.action < MaxActions
       ELSE IF what = "session" THEN spent.session < MaxSessions
       ELSE Disturbances < MaxDisturbances
    /\ spent' = [spent EXCEPT ![what] = @ + 1]

------------------------------------------------------------------------------
(* The registry and what its callback does to the connection state.        *)

Tracked(bs) == {s \in Symbol : bs[s] # "absent"}
Wanted(ss) == {s \in Symbol : ss[s] # None}
AllSynchronized(bs) == Tracked(bs) # {} /\ \A s \in Tracked(bs) : bs[s] = "SYNCHRONIZED"

\* markSynchronized and markSyncing, called when a status changes.
NotifiedOnlyWhenMerged(c, bs) == IF AllSynchronized(bs) /\ c = "SYNCING" THEN "LIVE" ELSE c
Notified(c, bs) ==
    IF AllSynchronized(bs) /\ c = "SYNCING" THEN "LIVE"
    ELSE IF ~AllSynchronized(bs) /\ c = "LIVE" THEN "SYNCING"
    ELSE c

\* A book that was ever merged shows while it resyncs (the server's books are
\* never empty).
StatusToSync(old) == IF old \in {"SYNCHRONIZED", "RESYNCING"} THEN "RESYNCING" ELSE "SYNCING"
Syncing(bs, s) == [bs EXCEPT ![s] = StatusToSync(@)]

Become(bs, c) ==
    /\ books' = bs
    /\ conn' = IF bs = books THEN c ELSE Notified(c, bs)

------------------------------------------------------------------------------
(* Frames to the server: sent if there is a session, lost otherwise.       *)

Send(frames) == uplink' = IF conn = "down" THEN uplink ELSE uplink \o frames
Subscribe(s, i) == [type |-> "subscribe", symbol |-> s, interval |-> i]
Unsubscribe(s) == [type |-> "unsubscribe", symbol |-> s, interval |-> None]
SetInterval(s, i) == [type |-> "set_interval", symbol |-> s, interval |-> i]

\* applyFrame: set_interval needs a subscription, the others always apply.
Applied(ss, f) ==
    IF f.type = "set_interval" /\ ss[f.symbol] = None THEN ss
    ELSE [ss EXCEPT ![f.symbol] = f.interval]

\* Everything wanted is asked for again on a new session.
Reapply == [n \in 1..Cardinality(Wanted(desired)) |->
              LET s == SetToSeq(Wanted(desired))[n] IN Subscribe(s, desired[s])]

HandleFrame ==
    /\ uplink # <<>>
    /\ uplink' = Tail(uplink)
    /\ \/ served' = Applied(served, Head(uplink)) /\ UNCHANGED spent
       \/ Spend("refused") /\ UNCHANGED served
    /\ UNCHANGED <<scopeVars, loadVars, shown, books, desired, conn>>

------------------------------------------------------------------------------
(* Selection.                                                              *)

\* #loadSelected up to its first await: the snapshot, then the history.  It
\* supersedes any earlier load, interval history and snapshot.
StartLoad(s, remove) ==
    /\ history' = "load"
    /\ requested' = <<s, interval>>
    /\ snapshot' = "load"
    /\ retry' = FALSE
    /\ removing' = remove

SelectMarketUnsubscribingFirst(s) ==
    /\ market # None /\ s # market
    /\ Spend("action")
    /\ market' = s
    /\ desired' = [desired EXCEPT ![s] = interval, ![market] = None]
    /\ Send(<<Unsubscribe(market), Subscribe(s, interval)>>)
    /\ StartLoad(s, TRUE)
    /\ Become([Syncing(books, s) EXCEPT ![market] = "absent"], conn)
    /\ UNCHANGED <<interval, shown, served>>
SelectMarket(s) ==
    /\ market # None /\ s # market
    /\ Spend("action")
    /\ market' = s
    /\ desired' = [desired EXCEPT ![s] = interval]
    /\ Send(<<Subscribe(s, interval)>>)
    /\ StartLoad(s, TRUE)
    /\ Become(Syncing(books, s), conn)
    /\ UNCHANGED <<interval, shown, served>>

\* The history of a pending load is superseded, and with it what the load
\* would have done once it landed; its book snapshot goes on without it.
SelectIntervalWhilePending(i) ==
    /\ market # None
    /\ Spend("action")
    /\ interval' = i
    /\ desired' = [desired EXCEPT ![market] = i]
    /\ Send(<<SetInterval(market, i)>>)
    /\ history' = IF history = "none" THEN "interval" ELSE history
    /\ requested' = IF history = "none" THEN <<market, i>> ELSE requested
    /\ UNCHANGED <<market, snapshot, retry, removing, shown, books, conn, served>>
SelectInterval(i) ==
    /\ market # None
    /\ Spend("action")
    /\ interval' = i
    /\ desired' = [desired EXCEPT ![market] = i]
    /\ Send(<<SetInterval(market, i)>>)
    /\ history' = "interval"
    /\ requested' = <<market, i>>
    /\ snapshot' = IF history = "load" /\ snapshot = "load" THEN "orphan" ELSE snapshot
    /\ retry' = FALSE
    /\ UNCHANGED <<market, removing, shown, books, conn, served>>

Refresh ==
    /\ market # None
    /\ Spend("refresh")
    /\ StartLoad(market, FALSE)
    /\ Become(Syncing(books, market), conn)
    /\ UNCHANGED <<scopeVars, shown, desired, serverVars>>

\* The first hello selects the initial market; a later one subscribes to
\* everything wanted again and refreshes the selection.
Hello ==
    /\ conn = "down" /\ interval # None
    /\ Spend("session")
    /\ served' = Nothing
    /\ \/ /\ market = None
          /\ \E s \in Symbol :
             /\ market' = s
             /\ desired' = [desired EXCEPT ![s] = interval]
             /\ uplink' = <<Subscribe(s, interval)>>
             /\ StartLoad(s, TRUE)
             /\ Become(Syncing(books, s), "SYNCING")
       \/ /\ market # None
          /\ uplink' = Reapply
          /\ StartLoad(market, FALSE)
          /\ Become(Syncing(books, market), "SYNCING")
          /\ UNCHANGED <<market, desired>>
    /\ UNCHANGED <<interval, shown>>

Disconnect ==
    /\ conn # "down"
    /\ conn' = "down"
    /\ uplink' = <<>>
    /\ served' = Nothing
    /\ UNCHANGED <<scopeVars, loadVars, shown, books, desired, spent>>

\* #removeInactiveSubscriptions.
Inactive == Wanted(desired) \ {market}
OnlySelected(f, gone) == [s \in Symbol |-> IF s \in Inactive THEN gone ELSE f[s]]
RemoveInactiveSilently ==
    /\ desired' = OnlySelected(desired, None)
    /\ UNCHANGED uplink
RemoveInactive ==
    /\ desired' = OnlySelected(desired, None)
    /\ Send([n \in 1..Cardinality(Inactive) |-> Unsubscribe(SetToSeq(Inactive)[n])])

\* refreshBook: the selected book only, awaited by itself.
RefreshBook == snapshot' = "refresh" /\ retry' = FALSE

HistoryAppliedResetWhileTracked ==
    LET remove == history = "interval" \/ removing
        kept == IF remove THEN OnlySelected(books, "absent") ELSE books
    IN  /\ history # "none"
        /\ history' = "none"
        /\ shown' = requested
        /\ requested' = NoScope
        /\ IF remove THEN RemoveInactive ELSE UNCHANGED <<desired, uplink>>
        /\ books' = kept
        /\ conn' = IF kept = books THEN conn ELSE Notified(conn, OnlySelected(books, "SYNCING"))
        /\ UNCHANGED <<scopeVars, snapshot, retry, removing, served, spent>>
HistoryApplied ==
    LET remove == history = "interval" \/ removing
        kept == IF remove THEN OnlySelected(books, "absent") ELSE books
    IN  /\ history # "none"
        /\ history' = "none"
        /\ shown' = requested
        /\ requested' = NoScope
        /\ IF remove THEN RemoveInactive ELSE UNCHANGED <<desired, uplink>>
        /\ IF retry
           THEN RefreshBook /\ Become(Syncing(kept, market), conn)
           ELSE Become(kept, conn) /\ UNCHANGED <<snapshot, retry>>
        /\ UNCHANGED <<scopeVars, removing, served, spent>>

\* The load throws; the caller redraws.  The chart keeps what it shows.
HistoryFailed ==
    /\ history # "none"
    /\ Spend("failure")
    /\ history' = "none"
    /\ requested' = NoScope
    /\ retry' = FALSE
    /\ snapshot' = IF history = "load" /\ snapshot = "load" THEN "orphan" ELSE snapshot
    /\ UNCHANGED <<scopeVars, removing, shown, books, desired, conn, serverVars>>

SnapshotMerged ==
    /\ snapshot # "none"
    /\ snapshot' = "none"
    /\ Become([books EXCEPT ![market] = "SYNCHRONIZED"], conn)
    /\ UNCHANGED <<scopeVars, history, requested, retry, removing, shown, desired, serverVars, spent>>

\* 'retry': refreshBook asks again at once, a load when its history has
\* landed, and a load that is gone does not.
SnapshotLeavesHole ==
    /\ snapshot # "none"
    /\ Spend("hole")
    /\ Become([books EXCEPT ![market] = "RESYNCING"], conn)
    /\ \/ /\ snapshot = "refresh" \/ (snapshot = "load" /\ history # "load")
          /\ RefreshBook
       \/ /\ snapshot = "load" /\ history = "load"
          /\ snapshot' = "none"
          /\ retry' = TRUE
       \/ /\ snapshot = "orphan"
          /\ snapshot' = "none"
          /\ UNCHANGED retry
    /\ UNCHANGED <<scopeVars, history, requested, removing, shown, desired, serverVars>>

SnapshotFailed ==
    /\ snapshot # "none"
    /\ Spend("failure")
    /\ snapshot' = "none"
    /\ UNCHANGED <<scopeVars, history, requested, retry, removing, shown, books, desired, conn, serverVars>>

\* onBookDelta finds a gap; only the selected book is looked at.
Gap ==
    /\ conn # "down"
    /\ market # None
    /\ served[market] # None
    /\ books[market] = "SYNCHRONIZED"
    /\ Spend("hole")
    /\ RefreshBook
    /\ Become(Syncing(books, market), conn)
    /\ UNCHANGED <<scopeVars, history, requested, removing, shown, desired, serverVars>>

\* TerminalRuntime.dispose: the pipeline first, then the socket.
Dispose ==
    /\ interval # None
    /\ market' = None /\ interval' = None
    /\ history' = "none" /\ requested' = NoScope
    /\ snapshot' = "none" /\ retry' = FALSE
    /\ shown' = NoScope
    /\ books' = [s \in Symbol |-> "absent"]
    /\ desired' = Nothing /\ served' = Nothing
    /\ conn' = "down"
    /\ uplink' = <<>>
    /\ UNCHANGED <<removing, spent>>

------------------------------------------------------------------------------
Init ==
    /\ market = None /\ interval \in Interval
    /\ history = "none" /\ snapshot = "none" /\ retry = FALSE /\ removing = FALSE
    /\ requested = NoScope /\ shown = NoScope
    /\ books = [s \in Symbol |-> "absent"]
    /\ desired = Nothing /\ served = Nothing
    /\ conn = "down"
    /\ uplink = <<>>
    /\ spent = Unspent

Next ==
    \/ \E s \in Symbol : SelectMarket(s)
    \/ \E i \in Interval : SelectInterval(i)
    \/ Refresh \/ Hello \/ Disconnect \/ HandleFrame \/ Dispose
    \/ HistoryApplied \/ HistoryFailed
    \/ SnapshotMerged \/ SnapshotLeavesHole \/ SnapshotFailed \/ Gap

Spec == Init /\ [][Next]_vars

\* Requests are answered and frames handled.
FairSpec == Spec /\ WF_vars(HistoryApplied) /\ WF_vars(SnapshotMerged) /\ WF_vars(HandleFrame)

------------------------------------------------------------------------------
\* The header says LIVE only when every book the client tracks is merged and
\* contiguous, through switches, removals and resyncs in any order.
LiveMeansSynchronized ==
    conn = "LIVE" => market # None /\ AllSynchronized(books)

\* What the client wants and what it tracks never part: no book outlives its
\* subscription and no subscription its book.
TrackedIsWanted == Tracked(books) = Wanted(desired) /\ (market # None => desired[market] = interval)

\* The frames still on their way turn the server's subscriptions into those
\* the client wants, whatever was selected in the meantime and across
\* reconnects, unless the rate limiter dropped one of them.
ServerFollowsClient ==
    conn # "down" /\ spent.refused = 0 => FoldLeft(Applied, served, uplink) = desired

\* What the client tracks, what it wants and what the server serves agree, as
\* far as frames under way allow: three records of one fact, kept by the
\* registry of books, SocketDesiredState and the server's session.
SubscriptionsAgree == TypeOK /\ TrackedIsWanted /\ ServerFollowsClient

\* B is subscribed before A is dropped (market-selection-controller.ts:75):
\* the market the chart still shows keeps its feed until another replaces it.
ChartKeepsItsFeed == shown # NoScope => desired[shown[1]] # None

\* Every selection, however many it superseded, ends with the chart on the
\* scope selected last, unless its history request failed.
ChartSettles ==
    market # None /\ history = "none" /\ spent.failure = 0 => shown = <<market, interval>>

\* What is yet to be said about a session that is the first one and meets no
\* other disturbance than switches.
Undisturbed == spent.session = 1 /\ Disturbances = 0

\* A first session does not stay in SYNCING, however the user switches in the
\* meantime: it becomes LIVE or is lost.
FirstSessionGoesLive == (conn = "SYNCING") ~> (conn # "SYNCING" \/ ~Undisturbed)

\* docs/05-testing.md:350 of a server restart: "client reaches `LIVE` again
\* with a correct book, no manual reload".  No session stays in SYNCING.
ReachesLive == (conn = "SYNCING") ~> (conn # "SYNCING")
==============================================================================
