------------------------------- MODULE MCTerminal -------------------------------
(***************************************************************************)
(* Two lives of the client with two changes of the network, a ticket that  *)
(* lasts one step of a clock that is set back once.  Next to it the screen *)
(* and its tape, the measurement of the link, the watchlist and the chart  *)
(* panel: they share no variable, so that each runs while the others are   *)
(* at rest.                                                                *)
(***************************************************************************)
EXTENDS Admission, Screen, Measurement, TradeTape, WatchlistOrder,
        ChartPanel

MCRegistered == <<"BTC", "ETH", "SOL">>

NoClient == starts = 0 /\ stepsBack = 0               \* AdmissionInit
NoScreen == ~mounted /\ ~hidden                       \* ScreenInit
NoMeasure == pingSequence = 0 /\ time = 0             \* MeasureInit
NoTape == opening = NoTrade /\ run = 1                \* TapeInit
NoPage == {stored, registry, chosen} = {<<>>}         \* WatchInit
NoPanel == loads = 0 /\ ~greeted                      \* PanelInit

MCInit == AdmissionInit /\ ScreenInit /\ MeasureInit /\ TapeInit /\ WatchInit
          /\ PanelInit /\ selected[1] = "BTC" /\ box = "wide"

MCClient ==
    /\ NoScreen /\ NoMeasure /\ NoTape /\ NoPage /\ NoPanel
    /\ AdmissionNext
    /\ UNCHANGED <<screenVars, measureVars, tapeVars, watchVars, panelVars>>
MCScreen ==
    /\ NoClient /\ NoMeasure /\ NoTape /\ NoPage /\ NoPanel
    /\ ScreenNext
    /\ UNCHANGED <<admissionVars, measureVars, tapeVars, watchVars, panelVars>>
MCMeasure ==
    /\ NoClient /\ NoScreen /\ NoTape /\ NoPage /\ NoPanel
    /\ MeasureNext
    /\ UNCHANGED <<admissionVars, screenVars, tapeVars, watchVars, panelVars>>
MCTape ==
    /\ NoClient /\ NoScreen /\ NoMeasure /\ NoPage /\ NoPanel
    /\ TapeNext
    /\ UNCHANGED <<admissionVars, screenVars, measureVars, watchVars, panelVars>>
MCWatch ==
    /\ NoClient /\ NoScreen /\ NoMeasure /\ NoTape /\ NoPanel
    /\ WatchNext
    /\ UNCHANGED <<admissionVars, screenVars, measureVars, tapeVars, panelVars>>
MCPanel ==
    /\ NoClient /\ NoScreen /\ NoMeasure /\ NoTape /\ NoPage
    /\ PanelNext
    /\ UNCHANGED <<admissionVars, screenVars, measureVars, tapeVars, watchVars>>

MCSpec ==
    /\ MCInit
    /\ [][MCClient \/ MCScreen \/ MCMeasure \/ MCTape \/ MCWatch \/ MCPanel]_
            <<admissionVars, screenVars, measureVars, tapeVars, watchVars, panelVars>>
    /\ AdmissionFairness
==============================================================================
