------------------------------- MODULE ChartPanel -------------------------------
(***************************************************************************)
(* What the chart panel says around the candles (apps/web): the overlay    *)
(* that waits for candles, which TerminalRuntime keeps for the selection   *)
(* it has asked for, and the readout under the pointer and the size, which *)
(* CandlestickChartAdapter keeps for the session on screen.  The readout   *)
(* is a state of the page, which takes it back when the user selects.      *)
(*                                                                         *)
(* The candles are those of ChartHistory, kept to whose they are and       *)
(* whether there are any; the book of a selection (MarketSelection), to    *)
(* whether its snapshot was taken or something kept it from being.         *)
(***************************************************************************)
EXTENDS Integers

CONSTANTS
    Market, Interval,
    DefaultInterval,  \* DEFAULT_CHART_INTERVAL
    Box,       \* the sizes the panel has
    None,      \* no scope, no size
    MaxLoads   \* bound: selections, refreshes and changes of size

Scope == Market \X Interval

ASSUME PanelAssumption ==
    /\ DefaultInterval \in Interval /\ None \notin Scope /\ None \notin Box
    /\ MaxLoads \in Nat

VARIABLES
    selected,     \* #market and #interval of the runtime
    greeted,    \* #helloReceived
    hasCandle,  \* #hasCandle: the overlay is withdrawn
    awaited,    \* the scope of the history awaited,
    buffered,   \*   and frames of it have come meanwhile
    booked,     \* that selection awaits a snapshot of the book too
    settling,   \* a selection whose history landed still awaits its snapshot
    active, filled,  \* the scope of the session on screen; it has candles
    failed,     \* history: the last history asked for was not had
    hover,      \* the scope of the candle in the readout
    box, notice,     \* the container's size; the observer has yet to tell of it
    size, resize,    \* the chart's size; #pendingResize, with its frame
    loads

selectionVars == <<selected, greeted, hasCandle, awaited, buffered, booked, settling, failed>>
sessionVars == <<active, filled, hover, notice, size, resize>>
panelVars == <<selectionVars, sessionVars, box, loads>>

PanelTypeOK ==
    /\ selected \in Scope /\ {awaited, active, hover} \subseteq Scope \cup {None}
    /\ {greeted, hasCandle, buffered, booked, settling, filled, failed, notice} \subseteq BOOLEAN
    /\ box \in Box /\ {size, resize} \subseteq Box \cup {None}
    /\ loads \in 0..MaxLoads
    /\ active = None => ~filled

OneMoreLoad == loads < MaxLoads /\ loads' = loads + 1

------------------------------------------------------------------------------
(* CandleHistoryController.select, for a scope with its book or without:   *)
(* another market or a refresh supersedes what awaits a snapshot, another  *)
(* interval does not.                                                      *)
AwaitHistory(scope, withBook) ==
    /\ awaited' = scope /\ failed' = FALSE
    /\ buffered' = FALSE
    /\ booked' = withBook
    /\ settling' = (settling /\ ~withBook)

Selects(scope) ==
    /\ OneMoreLoad
    /\ selected' = scope
    /\ hasCandle' = FALSE

ClearReadout == hover' = None /\ UNCHANGED <<active, filled, notice, size, resize>>

\* Before the first hello a selection is only remembered.
SelectMarket(market) ==
    LET scope == <<market, selected[2]>>
    IN  /\ Selects(scope)
        /\ IF greeted THEN AwaitHistory(scope, market # selected[1])
           ELSE UNCHANGED <<awaited, buffered, booked, settling, failed>>
        /\ ClearReadout
        /\ UNCHANGED <<greeted, box>>

SelectInterval(interval) ==
    LET scope == <<selected[1], interval>>
    IN  /\ interval # selected[2]
        /\ Selects(scope)
        /\ IF greeted THEN AwaitHistory(scope, FALSE)
           ELSE UNCHANGED <<awaited, buffered, booked, settling, failed>>
        /\ ClearReadout
        /\ UNCHANGED <<greeted, box>>

FirstHello ==
    /\ ~greeted /\ greeted' = TRUE
    /\ AwaitHistory(selected, TRUE)
    /\ UNCHANGED <<selected, hasCandle, sessionVars, box, loads>>

\* A later session, a gap it reports, or a tab hidden for too long.
Resync ==
    /\ greeted
    /\ OneMoreLoad
    /\ hasCandle' = FALSE
    /\ AwaitHistory(selected, TRUE)
    /\ UNCHANGED <<selected, greeted, sessionVars, box>>

------------------------------------------------------------------------------
(* The old session ends and takes its readout and its frame with it.       *)
SessionEndsKeepingReadout == resize' = None /\ UNCHANGED hover
SessionEnds == resize' = None /\ hover' = None

(* A new one's chart takes the container's size, and its observer reports. *)
SessionOpens(scope, some) ==
    /\ active' = scope /\ filled' = some
    /\ size' = box /\ notice' = TRUE

(* The history awaited lands.  Frames buffered for it are candles too.     *)
HistoryLands(some) ==
    /\ awaited # None /\ awaited' = None
    /\ buffered => some
    /\ SessionEnds /\ SessionOpens(awaited, some)
    /\ settling' = (settling \/ booked) /\ booked' = FALSE /\ buffered' = FALSE
    /\ hasCandle' = IF booked THEN hasCandle ELSE some
    /\ UNCHANGED <<selected, greeted, failed, box, loads>>

HistoryFails ==
    /\ awaited # None /\ awaited' = None
    /\ failed' = TRUE /\ booked' = FALSE /\ buffered' = FALSE
    /\ UNCHANGED <<selected, greeted, hasCandle, settling, sessionVars, box, loads>>

(* The snapshot was merged, or it failed or came too late.                 *)
SnapshotSettles(applied) ==
    /\ settling /\ settling' = FALSE
    /\ hasCandle' = IF applied THEN filled ELSE hasCandle
    /\ UNCHANGED <<selected, greeted, awaited, buffered, booked, failed, sessionVars, box, loads>>

(* A frame of the scope selected: it is buffered, shown, or of no use to the *)
(* session of another scope that a failed selection left on the screen.    *)
CandlesOfSelected ==
    /\ greeted
    /\ hasCandle' = TRUE
    /\ buffered' = (awaited # None)
    /\ filled' = (filled \/ (awaited = None /\ active = selected))
    /\ UNCHANGED <<selected, greeted, awaited, booked, settling, failed,
                   active, hover, notice, size, resize, box, loads>>

------------------------------------------------------------------------------
(* The session on screen.                                                  *)
Crosshair(onCandle) ==
    /\ active # None /\ (onCandle => filled)
    /\ hover' = IF onCandle THEN active ELSE None
    /\ UNCHANGED <<selectionVars, active, filled, notice, size, resize, box, loads>>

BoxChanges(to) ==
    /\ to # box /\ box' = to
    /\ OneMoreLoad
    /\ notice' = (active # None)
    /\ UNCHANGED <<selectionVars, active, filled, hover, size, resize>>

(* #queueResize: one frame for many sizes, and the last one counts.        *)
QueueResize ==
    /\ notice /\ notice' = FALSE
    /\ resize' = box
    /\ UNCHANGED <<selectionVars, active, filled, hover, size, box, loads>>

ResizeFrame ==
    /\ resize # None
    /\ size' = resize /\ resize' = None
    /\ UNCHANGED <<selectionVars, active, filled, hover, notice, box, loads>>

PanelInit ==
    /\ selected \in Market \X {DefaultInterval} /\ box \in Box
    /\ greeted = FALSE /\ hasCandle = FALSE /\ failed = FALSE
    /\ awaited = None /\ buffered = FALSE /\ booked = FALSE /\ settling = FALSE
    /\ active = None /\ filled = FALSE /\ hover = None
    /\ notice = FALSE /\ size = None /\ resize = None
    /\ loads = 0

PanelNext ==
    \/ \E market \in Market : SelectMarket(market)
    \/ \E interval \in Interval : SelectInterval(interval)
    \/ FirstHello \/ Resync
    \/ \E some \in BOOLEAN : HistoryLands(some)
    \/ HistoryFails
    \/ \E applied \in BOOLEAN : SnapshotSettles(applied)
    \/ CandlesOfSelected
    \/ \E onCandle \in BOOLEAN : Crosshair(onCandle)
    \/ \E to \in Box : BoxChanges(to)
    \/ QueueResize \/ ResizeFrame

PanelSpec == PanelInit /\ [][PanelNext]_panelVars

------------------------------------------------------------------------------
(* What is awaited is what the user selected last, also when that was before  *)
(* there was a session; and once it is there, the overlay is withdrawn     *)
(* only over candles of the scope selected.  (#hasCandle, #trackSelection)   *)
OverlayIsHonest ==
    /\ awaited # None => awaited = selected
    /\ hasCandle /\ awaited = None /\ ~failed => active = selected /\ filled

(* The readout never shows a candle of a chart that is gone.  (dispose)    *)
ReadoutIsOfThisChart == hover # None => hover = active /\ filled

(* The chart has its container's size, or will be told of it.              *)
ChartFitsItsBox == active # None => notice \/ (IF resize # None THEN resize ELSE size) = box

(* Whatever is selected, refreshed, moved over and resized while answers   *)
(* are on their way: what the panel says is true of the chart it frames.   *)
(* (terminal-runtime.ts:119-138, 237-245; candlestick-chart-adapter.ts)    *)
PanelIsCurrent == PanelTypeOK /\ OverlayIsHonest /\ ReadoutIsOfThisChart /\ ChartFitsItsBox

==============================================================================
