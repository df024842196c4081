------------------------------- MODULE TradeTape -------------------------------
(***************************************************************************)
(* The trades on the screen (apps/web, MarketUiModel): the newest of them, *)
(* the latest price and the price the session began at, kept by trade id.  *)
(*                                                                         *)
(* A trade stands for its price: [run, id], where run counts the starts of *)
(* the server, whose ids begin again with each.  Batches may repeat trades *)
(* and need not be in order; the tape lives on when the server restarts.   *)
(***************************************************************************)
EXTENDS Integers, FiniteSets, SequencesExt

CONSTANTS
    TapeLimit,      \* RECENT_TRADE_LIMIT
    MaxId, MaxRun,  \* bound: the ids of a run, the runs of the server
    MaxBatch        \* bound: the trades in a batch

ASSUME TapeAssumption ==
    TapeLimit \in Nat \ {0} /\ MaxId \in Nat /\ MaxRun \in Nat \ {0} /\ MaxBatch \in Nat

VARIABLES
    run,       \* of the server
    tape,      \* SymbolTradeState of the selected symbol
    received,  \* history: the trades as first received under each id,
    opening    \*   and the least trade of the first batch

tapeVars == <<run, tape, received, opening>>

NoTrade == [run |-> 0, id |-> 0]
EmptyTape == [baseline |-> NoTrade, latest |-> NoTrade, recent |-> <<>>]

------------------------------------------------------------------------------
\* Those of the trades that have a greater id.
Above(trades, t) == {u \in trades : u.id > t.id}

\* A trade whose id is shown already is skipped; here t.recent is a set.
TakenLatest(t, trade) ==
    IF \E shown \in t.recent : shown.id = trade.id THEN t
    ELSE [baseline |-> IF t.baseline = NoTrade THEN trade ELSE t.baseline,
          latest |-> trade,
          recent |-> t.recent \cup {trade}]
Taken(t, trade) ==
    IF \E shown \in t.recent : shown.id = trade.id THEN t
    ELSE [baseline |-> IF t.baseline = NoTrade THEN trade ELSE t.baseline,
          latest |-> IF trade.id > t.latest.id THEN trade ELSE t.latest,
          recent |-> t.recent \cup {trade}]

\* The trades sorted, the greatest id first, and cut to TapeLimit.
Newest(trades) ==
    LET shown == IF Cardinality(trades) > TapeLimit THEN TapeLimit ELSE Cardinality(trades)
    IN  [k \in 1..shown |-> CHOOSE t \in trades : Cardinality(Above(trades, t)) = k - 1]

\* processTrades: the batch by id, each id that is in it, then the tape cut to
\* its newest.
Processed(t, batch) ==
    LET taken[id \in 0..MaxId] ==
          IF id = 0 THEN [t EXCEPT !.recent = ToSet(@)]
          ELSE IF id \in ToSet(batch) THEN Taken(taken[id - 1], [run |-> run, id |-> id])
          ELSE taken[id - 1]
    IN  [taken[MaxId] EXCEPT !.recent = Newest(@)]

------------------------------------------------------------------------------
TapeInit ==
    /\ run = 1 /\ tape = EmptyTape
    /\ received = {} /\ opening = NoTrade

\* A batch of the selected symbol; the runtime passes no other on.
ProcessTrades(ids) ==
    LET least == CHOOSE id \in ToSet(ids) : \A other \in ToSet(ids) : id <= other
        first == {id \in ToSet(ids) : \A t \in received : t.id # id}
    IN  /\ tape' = Processed(tape, ids)
        /\ received' = received \cup {[run |-> run, id |-> id] : id \in first}
        /\ opening' = IF opening = NoTrade THEN [run |-> run, id |-> least] ELSE opening
        /\ UNCHANGED run

\* The symbol left forgets its tape; the one selected has none yet.
SelectSymbol ==
    /\ tape' = EmptyTape
    /\ received' = {} /\ opening' = NoTrade
    /\ UNCHANGED run

ServerRestarts ==
    /\ run < MaxRun
    /\ run' = run + 1
    /\ UNCHANGED <<tape, received, opening>>

TapeNext ==
    \/ \E n \in 1..MaxBatch : \E ids \in [1..n -> 1..MaxId] : ProcessTrades(ids)
    \/ SelectSymbol
    \/ ServerRestarts

TapeSpec == TapeInit /\ [][TapeNext]_tapeVars

------------------------------------------------------------------------------
(* The tape is the newest trades by id, newest first, each once and as it  *)
(* first came, with the price of the greatest id and the baseline of the   *)
(* session's first trade: whatever batches repeat, reorder or bring again  *)
(* after they were cut off.  It is by id alone: after a restart the trades *)
(* of the old run stay on top until the new run's ids have passed theirs.  *)
(* (market-ui-model.ts:48, "ordering is always scoped to one symbol")      *)
TapeShowsNewest ==
    LET newest == {t \in received : Cardinality(Above(received, t)) < TapeLimit}
    IN  /\ Len(tape.recent) = Cardinality(newest)
        /\ \A t \in newest : tape.recent[Cardinality(Above(received, t)) + 1] = t
        /\ \A t \in received : Above(received, t) = {} => tape.latest = t
        /\ tape.baseline = opening

==============================================================================
