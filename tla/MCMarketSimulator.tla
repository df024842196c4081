--------------------------- MODULE MCMarketSimulator ---------------------------
(***************************************************************************)
(* A fair value that reaches its floor and its ceiling, a walk of at most  *)
(* one level a tick besides what a cascade adds, and three levels a side:  *)
(* a cascade of two leaves one, a cascade of three or four leaves none.    *)
(***************************************************************************)
EXTENDS MarketSimulator
==============================================================================
