----------------------------- MODULE MarketEngine -----------------------------
(***************************************************************************)
(* What drives the order book: the logical clock, the engine that runs     *)
(* owed ticks and the runtime whose timer asks for them (apps/api,         *)
(* LogicalClock, MarketEngine, MarketRuntime), over one symbol's book.     *)
(*                                                                         *)
(* The wall clock only says how many ticks are owed.  It may stall, jump   *)
(* and be set back; one pass may run at most MaxCatchUp ticks.  The        *)
(* hazards are that a tick is skipped or run ahead of its time, and that a *)
(* request, which is answered between two passes, reads a half-run tick.   *)
(*                                                                         *)
(* A pass is one JavaScript task.  Its writes are steps of their own here, *)
(* but nothing else than the wall clock moves while `owed` is positive.    *)
(* Symbols share only the clock, so one book stands for each of them.      *)
(***************************************************************************)
EXTENDS OrderBook

CONSTANTS
    StartTime,    \* Date.now() when the application was created
    TickMs,       \* MARKET_TICK_MS
    MaxCatchUp,   \* MARKET_MAX_CATCH_UP_TICKS
    MaxWall,      \* bound: last reading of the wall clock
    MaxStepsBack  \* bound: times the wall clock is set back

ASSUME ClockAssumption == StartTime \in Nat /\ TickMs \in Nat \ {0} /\ MaxWall \in Nat
ASSUME CatchUpAssumption == MaxCatchUp \in Nat \ {0} /\ MaxStepsBack \in Nat
ASSUME RoomForDeltas == StartTime <= MaxWall /\ MaxWall < StartTime + (MaxSequence + 1) * TickMs

VARIABLES
    wall,      \* Date.now()
    highest,   \* history: the latest time the wall clock has shown
    tick,      \* LogicalClock.#tick
    owed,      \* ticks the current pass has left to run; 0 between passes
    running,   \* MarketRuntime.#timer is set
    stepsBack  \* bounds StepBack

clock == <<wall, highest, tick, owed, running, stepsBack>>
engineVars == <<vars, clock>>

EngineTypeOK ==
    /\ TypeOK
    /\ wall \in 0..MaxWall /\ highest \in 0..MaxWall
    /\ tick \in Nat /\ owed \in 0..MaxCatchUp
    /\ running \in BOOLEAN /\ stepsBack \in 0..MaxStepsBack

------------------------------------------------------------------------------
\* Ticks that should have run by the time the wall clock shows and have not.
OwedTicksRoundedUp(now) ==
    LET due == (now - StartTime) \div TickMs + 1
    IN  IF now < StartTime \/ due < tick THEN 0 ELSE due - tick
OwedTicks(now) ==
    LET due == (now - StartTime) \div TickMs
    IN  IF now < StartTime \/ due < tick THEN 0 ELSE due - tick

TimeAt(n) == StartTime + n * TickMs

\* The wall clock runs on, also during a pass, and may be set back.
Pass ==
    /\ wall < MaxWall
    /\ wall' = wall + 1
    /\ highest' = IF wall' > highest THEN wall' ELSE highest
    /\ UNCHANGED <<vars, tick, owed, running, stepsBack>>

StepBack ==
    /\ stepsBack < MaxStepsBack
    /\ stepsBack' = stepsBack + 1
    /\ wall' \in 0..(wall - 1)
    /\ UNCHANGED <<vars, highest, tick, owed, running>>

\* start() sets the timer and pumps for the clock's start time, which owes
\* nothing: the opening tick waits for the first interval.
Start ==
    /\ serving /\ owed = 0
    /\ ~running
    /\ running' = TRUE
    /\ owed' = OwedTicks(StartTime)
    /\ UNCHANGED <<vars, wall, highest, tick, stepsBack>>

Stop ==
    /\ owed = 0
    /\ running
    /\ running' = FALSE
    /\ UNCHANGED <<vars, wall, highest, tick, owed, stepsBack>>

\* A turn of the timer: as many ticks as are owed, but no more than one pass
\* may run.  The rest stays owed, because `tick` counts only what has run.
PassLengthAllOrNothing(due) == IF due > MaxCatchUp THEN 0 ELSE due
PassLength(due) == IF due > MaxCatchUp THEN MaxCatchUp ELSE due

Pump ==
    /\ owed = 0
    /\ running
    /\ owed' = PassLength(OwedTicks(wall))
    /\ UNCHANGED <<vars, wall, highest, tick, running, stepsBack>>

\* The simulator writes to the book while a tick runs, and while the
\* constructor seeds it before anything is served.
Writing == owed > 0 \/ ~serving
WriteBookAnytime ==
    /\ \/ \E s \in Side, p \in Price, q \in Quantity : SetLevel(s, p, q)
       \/ \E s \in Side, p \in Price, d \in -MaxQuantity..MaxQuantity : AddQuantity(s, p, d)
       \/ Trim
    /\ UNCHANGED clock
WriteBook ==
    /\ Writing
    /\ \/ \E s \in Side, p \in Price, q \in Quantity : SetLevel(s, p, q)
       \/ \E s \in Side, p \in Price, d \in -MaxQuantity..MaxQuantity : AddQuantity(s, p, d)
       \/ Trim
    /\ UNCHANGED clock

\* A tick ends with the flush of its delta; the pass goes on to the next.
EndTick ==
    /\ owed > 0
    /\ FlushDelta
    /\ tick' = tick + 1
    /\ owed' = owed - 1
    /\ UNCHANGED <<wall, highest, running, stepsBack>>

\* The end of the seeding, which the constructor of the engine waits for.
Seeded == ClearPendingChanges /\ UNCHANGED clock

------------------------------------------------------------------------------
EngineInit ==
    /\ Init
    /\ wall = StartTime /\ highest = StartTime
    /\ tick = 0 /\ owed = 0
    /\ running = FALSE /\ stepsBack = 0

EngineNext ==
    \/ Pass
    \/ StepBack
    \/ Start
    \/ Stop
    \/ Pump
    \/ WriteBook
    \/ EndTick
    \/ Seeded

\* The timer fires while it is set, and a tick that runs comes to its end.
EngineSpec ==
    /\ EngineInit
    /\ [][EngineNext]_engineVars
    /\ WF_engineVars(Pump) /\ WF_engineVars(EndTick)

------------------------------------------------------------------------------
\* No tick runs before the wall clock has shown the end of its period, even
\* when the clock is set back in the middle of a pass (clock.ts:40-45).
NeverAhead == TimeAt(tick + owed) <= highest

\* Whatever is read between two passes is whole: the snapshot a request gets
\* is exactly what a client has that followed the deltas (order-book.ts:12-15).
SnapshotsAreWhole == (serving /\ owed = 0) => mirror = levels

\* Nothing is skipped: once the wall clock stands still, a runtime that keeps
\* running has run every tick owed, over several passes if one may not run
\* them all (market-engine.ts:50-52).
CatchesUp == <>[]running => <>[](OwedTicks(wall) = 0)

==============================================================================
