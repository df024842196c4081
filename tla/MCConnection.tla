------------------------------ MODULE MCConnection ------------------------------
(***************************************************************************)
(* The limits of HYSTERESIS and MISSING_REPORT_MS in units of the timer's  *)
(* five seconds, with a timer that may skip a turn.  Reports of every band *)
(* of rtt, with little or much jitter.  Frames at tiny limits, and the     *)
(* server's limits on a client behind a link that stalls.  A user who      *)
(* chooses tiers over sockets that break, with three frames each way.      *)
(*                                                                         *)
(* The four share no variable: each runs while the others are at rest.     *)
(***************************************************************************)
EXTENDS Connection, StalledLink, TierChoice

MCLimits ==
    Limits([type \in FrameType |-> [sustained |-> 1, burst |-> IF type = "ping" THEN 1 ELSE 2]],
           1, 2, 4)

MCInit == Init /\ LimiterInit /\ LinkInit /\ ChoiceInit

NoFrames == frames = <<>>   \* LimiterInit
NoLink == second = -1       \* LinkInit

Alone == NoFrames /\ NoLink /\ ChoiceInit

MCConnects ==
    Alone /\ Next /\ UNCHANGED <<limiterVars, linkVars, choiceVars>>
MCLimiter ==
    Init /\ NoLink /\ ChoiceInit /\ LimiterNext /\ UNCHANGED <<vars, linkVars, choiceVars>>
MCLink ==
    Init /\ NoFrames /\ ChoiceInit /\ LinkNext /\ UNCHANGED <<vars, limiterVars, choiceVars>>
MCChoice ==
    Init /\ NoFrames /\ NoLink /\ ChoiceNext /\ UNCHANGED <<vars, limiterVars, linkVars>>

MCSpec ==
    /\ MCInit
    /\ [][MCConnects \/ MCLimiter \/ MCLink \/ MCChoice]_<<vars, limiterVars, linkVars, choiceVars>>
    /\ WF_vars(Alone /\ Pass) /\ WF_vars(Alone /\ Check)
==============================================================================
