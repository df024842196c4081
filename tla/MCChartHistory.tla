---------------------------- MODULE MCChartHistory ----------------------------
(***************************************************************************)
(* Two intervals, interchangeable: each may end its bucket at any tick.    *)
(* An answer of one candle has already lost the first when the second      *)
(* opens, so a refresh can reach less far back than the chart does.        *)
(***************************************************************************)
EXTENDS ChartHistory, TLC

MCSymmetry == Permutations(Interval)
==============================================================================
