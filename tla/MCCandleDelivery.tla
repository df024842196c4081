--------------------------- MODULE MCCandleDelivery ---------------------------
(***************************************************************************)
(* An interval as short as a tick, whose ring of three wraps, and one of   *)
(* three ticks, whose candle has several versions.  A tier that sends on   *)
(* every tick and one that waits until short candles have closed           *)
(* meanwhile.  A tick makes no trade or two.                               *)
(***************************************************************************)
EXTENDS CandleDelivery

MCWidth == [i \in Interval |-> IF i = "short" THEN 1 ELSE 3]
MCCandlesUpdate == [t \in Tier |-> IF t = "full" THEN 1 ELSE 4]
MCTradesBatch == [t \in Tier |-> IF t = "full" THEN 2 ELSE 4]
==============================================================================
