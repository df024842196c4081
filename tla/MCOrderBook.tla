----------------------------- MODULE MCOrderBook -----------------------------
(***************************************************************************)
(* Two prices a side and a window of one level, so that trim has a level   *)
(* to drop and one to keep; quantities 0..1 let a level be removed,        *)
(* restored and rewritten within a tick.  Three ticks of two milliseconds  *)
(* fit in the time the wall clock runs, and a pass may run two of them, so *)
(* that a pass may be too short; the clock is set back once.               *)
(***************************************************************************)
EXTENDS MarketEngine

MCPrice == 1..2
==============================================================================
