-------------------------- MODULE MCMarketSelection --------------------------
(***************************************************************************)
(* Two symbols are enough for one to be left behind; the runs that look    *)
(* for what a symbol left behind does take a third where it matters.       *)
(***************************************************************************)
EXTENDS MarketSelection, TLC

MCSymmetry == Permutations(Symbol) \cup Permutations(Interval)
==============================================================================
