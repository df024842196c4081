--------------------------- MODULE ConnectionProofs ---------------------------
(***************************************************************************)
(* One connection's tier and heartbeat, for every limit of the hysteresis, *)
(* of the missing-report ladder and of the timer.  And the tier a user     *)
(* chose: it is kept over any number of breaks, and the tier in force is   *)
(* told, for every number of frames under way.  And the frame limiter, for *)
(* all limits and every sequence of frames; and what the limits of the     *)
(* server do to a client whose link stalls, on connections of any length.  *)
(***************************************************************************)
EXTENDS Connection, TierChoice, StalledLink, SequenceTheorems, FunctionTheorems, FiniteSetTheorems,
        WellFoundedInduction, TLAPS

LEMMA Constants ==
    /\ DemoteReports \in Nat /\ DemoteReports > 0 /\ PromoteReports \in Nat /\ PromoteReports > 0
    /\ DemoteOneTier \in Nat /\ DemoteOneTier > 0 /\ ForceMinimal \in Nat
    /\ DemoteOneTier < ForceMinimal
    /\ HeartbeatTimeout \in Nat /\ CheckEvery \in Nat /\ CheckEvery > 0 /\ MaxLate \in Nat
    /\ Rtt \subseteq 0..4 /\ Jitter \subseteq 0..4 /\ None \notin Tier
  BY ConnectionAssumption

\* Every count and age stays in its range; each step is shown by its parts.
LEMMA ReportedType ==
    ASSUME TypeOK, NEW isGood \in BOOLEAN, NEW isBad \in BOOLEAN,
           NEW result, result = Reported(isGood, isBad)
    PROVE  /\ result[1] \in Tier
           /\ result[2] \in 0..PromoteReports - 1
           /\ result[3] \in 0..DemoteReports - 1
  BY Constants DEF TypeOK, Reported, Demoted, Promoted, Tier

LEMMA ReportTypes ==
    ASSUME TypeOK, NEW rtt \in Rtt, NEW jitter \in Jitter, Report(rtt, jitter)
    PROVE  TypeOK'
  <1>1. IsGood(autoTier, rtt, jitter) \in BOOLEAN /\ IsBad(autoTier, rtt, jitter) \in BOOLEAN
    BY DEF IsGood, IsBad
  <1>2. autoTier' \in Tier /\ good' \in 0..PromoteReports - 1 /\ bad' \in 0..DemoteReports - 1
    BY <1>1, ReportedType DEF Report
  <1>3. goodRun' \in [Tier -> 0..PromoteReports] /\ badRun' \in [Tier -> 0..DemoteReports]
    BY Constants DEF Report, TypeOK, Least
  <1>4. heard' \in Tier
    BY <1>1, ReportedType DEF Report
  <1>5. told' \in Tier
    BY <1>2 DEF Report, TypeOK, Announced, Effective
  <1>6. reportAge' \in 0..MostReport /\ inboundAge' \in 0..MostInbound /\ checkAge' \in 0..MostCheck
    BY Constants DEF Report, Inbound, TypeOK, MostReport, MostInbound, MostCheck
  <1> QED  BY <1>2, <1>3, <1>4, <1>5, <1>6 DEF Report, Inbound, TypeOK

LEMMA NoneYet ==
    /\ 0 \in 0..PromoteReports - 1 /\ 0 \in 0..DemoteReports - 1
    /\ 0 \in 0..MostReport /\ 0 \in 0..MostInbound /\ 0 \in 0..MostCheck
    /\ NoRuns \in [Tier -> 0..PromoteReports] /\ NoRuns \in [Tier -> 0..DemoteReports]
  BY Constants DEF NoRuns, MostReport, MostInbound, MostCheck

LEMMA TypeStep == TypeOK /\ [Next]_vars => TypeOK'
  <1> SUFFICES ASSUME TypeOK, [Next]_vars PROVE TypeOK'
    OBVIOUS
  <1>1. ASSUME NEW rtt \in Rtt, NEW jitter \in Jitter, Report(rtt, jitter) PROVE TypeOK'
    BY <1>1, ReportTypes
  <1>2. ASSUME NEW tier \in Tier \cup {None}, Override(tier) PROVE TypeOK'
    <2>1. told' \in Tier
      BY <1>2 DEF Override, TypeOK, Announced, Effective
    <2> QED  BY <1>2, <2>1, Constants
      DEF Override, Inbound, TypeOK, history, MostInbound, MostReport, MostCheck
  <1>3. CASE OtherFrame \/ Abuse \/ Backpressure \/ Closed
    BY <1>3, Constants DEF OtherFrame, Abuse, Backpressure, Closed, Inbound, TypeOK, tierVars,
       ages, history, MostInbound, MostReport, MostCheck
  <1>4. CASE Check
    <2>1. Silenced \in Tier
      BY DEF Silenced, TypeOK, Demoted, Tier
    <2>2. Announced(tierOverride, Silenced) \in Tier
      BY <2>1 DEF TypeOK, Announced, Effective
    <2>3. (demotedForSilence \/ Silent) \in BOOLEAN
      BY DEF TypeOK, Silent
    <2>4. checkAge' \in 0..MostCheck
      BY <1>4, Constants DEF Check, MostCheck
    <2>5. CASE HeartbeatLost
      BY <1>4, <2>4, <2>5 DEF Check, HeartbeatLost, TypeOK, tierVars, history
    <2>6. CASE CheckSilence
      BY <1>4, <2>1, <2>2, <2>3, <2>4, <2>6 DEF Check, CheckSilence, TypeOK, history
    <2> QED  BY <1>4, <2>5, <2>6 DEF Check
  <1>5. CASE Pass
    <2>1. reportAge' \in 0..MostReport /\ inboundAge' \in 0..MostInbound /\ checkAge' \in 0..MostCheck
      BY <1>5, Constants DEF Pass, TypeOK, Least, MostInbound, MostReport, MostCheck
    <2> QED  BY <1>5, <2>1 DEF Pass, TypeOK, tierVars, history
  <1>6. CASE Accept
    BY <1>6, NoneYet DEF Accept, TypeOK, Tier
  <1>7. CASE UNCHANGED vars
    BY <1>7 DEF vars, TypeOK, tierVars, ages, history
  <1> QED  BY <1>1, <1>2, <1>3, <1>4, <1>5, <1>6, <1>7 DEF Next

LEMMA TypeInit == Init => TypeOK
  BY NoneYet DEF Init, TypeOK, Tier

(* Every state has its variables in their types; neither counter of        *)
(* reports is ever seen at its limit.                                      *)
THEOREM TypeCorrect == Spec => []TypeOK
  BY TypeInit, TypeStep, PTL DEF Spec

------------------------------------------------------------------------------
(* The tier told is the tier in force.  Whatever moves the effective tier  *)
(* goes through announceTier with the tier it moves to.                    *)
THEOREM ToldIsInForce == Spec => []ClientKnowsTier
  <1>1. Init => ClientKnowsTier
    BY DEF Init, ClientKnowsTier, EffectiveTier, Effective
  <1>2. ClientKnowsTier /\ [Next]_vars => ClientKnowsTier'
    <2> SUFFICES ASSUME ClientKnowsTier, [Next]_vars PROVE ClientKnowsTier'
      OBVIOUS
    <2> USE DEF ClientKnowsTier, EffectiveTier, Effective
    <2>1. ASSUME NEW rtt \in Rtt, NEW jitter \in Jitter, Report(rtt, jitter) PROVE ClientKnowsTier'
      BY <2>1 DEF Report, Announced
    <2>2. ASSUME NEW tier \in Tier \cup {None}, Override(tier) PROVE ClientKnowsTier'
      BY <2>2 DEF Override, Announced
    <2>3. CASE OtherFrame \/ Abuse \/ Backpressure \/ Closed \/ Pass
      BY <2>3 DEF OtherFrame, Abuse, Backpressure, Closed, Pass, tierVars
    <2>4. CASE Check
      BY <2>4 DEF Check, HeartbeatLost, CheckSilence, Announced, tierVars
    <2>5. CASE Accept
      BY <2>5 DEF Accept
    <2>6. CASE UNCHANGED vars
      BY <2>6 DEF vars, tierVars
    <2> QED  BY <2>1, <2>2, <2>3, <2>4, <2>5, <2>6 DEF Next
  <1> QED  BY <1>1, <1>2, PTL DEF Spec

------------------------------------------------------------------------------
(* How a silence wears the tier down, and what the timer has seen of it:   *)
(* the last turn of the timer was checkAge ago.                            *)
Worn ==
    /\ demotedForSilence => reportAge >= DemoteOneTier
    /\ reportAge < ForceMinimal => autoTier = IF demotedForSilence THEN Demoted(heard) ELSE heard

Noticed ==
    phase = "open" => /\ reportAge >= ForceMinimal + checkAge => autoTier = "minimal"
                      /\ inboundAge <= HeartbeatTimeout + checkAge

LEMMA WornInit == Init => Worn /\ Noticed
  BY Constants DEF Init, Worn, Noticed

LEMMA WornStep == TypeOK /\ Worn /\ [Next]_vars => Worn'
  <1> SUFFICES ASSUME TypeOK, Worn, [Next]_vars PROVE Worn'
    OBVIOUS
  <1>1. ASSUME NEW rtt \in Rtt, NEW jitter \in Jitter, Report(rtt, jitter) PROVE Worn'
    BY <1>1 DEF Report, Worn
  <1>2. ASSUME NEW tier \in Tier \cup {None}, Override(tier) PROVE Worn'
    BY <1>2 DEF Override, Worn, history
  <1>3. CASE OtherFrame \/ Abuse \/ Backpressure \/ Closed
    BY <1>3 DEF OtherFrame, Abuse, Backpressure, Closed, Worn, tierVars, ages, history
  <1>4. CASE Check
    <2>1. CASE HeartbeatLost
      BY <1>4, <2>1 DEF Check, HeartbeatLost, Worn, tierVars, history
    <2>2. CASE CheckSilence
      <3>1. demotedForSilence' => reportAge' >= DemoteOneTier
        BY <1>4, <2>2, Constants DEF Check, CheckSilence, Worn, Silent
      <3>2. reportAge >= ForceMinimal => Worn'
        BY <1>4, <2>2, <3>1, Constants DEF Check, CheckSilence, Worn, TypeOK
      <3>3. CASE LongSilent
        BY <1>4, <3>2, <3>3 DEF LongSilent
      <3>4. CASE ~LongSilent /\ Silent /\ ~demotedForSilence
        BY <1>4, <2>2, <3>1, <3>4, Constants
          DEF Check, CheckSilence, Silenced, LongSilent, Worn, TypeOK, MostReport, MostCheck, history
      <3>5. CASE ~LongSilent /\ ~(Silent /\ ~demotedForSilence)
        BY <1>4, <2>2, <3>1, <3>5 DEF Check, CheckSilence, Silenced, Worn, history
      <3> QED  BY <3>3, <3>4, <3>5
    <2> QED  BY <1>4, <2>1, <2>2 DEF Check
  <1>5. CASE Pass
    BY <1>5, Constants DEF Pass, Worn, TypeOK, tierVars, history, Least, MostReport, MostCheck
  <1>6. CASE Accept
    BY <1>6, Constants DEF Accept, Worn
  <1>7. CASE UNCHANGED vars
    BY <1>7 DEF vars, tierVars, ages, history, Worn
  <1> QED  BY <1>1, <1>2, <1>3, <1>4, <1>5, <1>6, <1>7 DEF Next

LEMMA NoticedStep == TypeOK /\ Noticed /\ [Next]_vars => Noticed'
  <1> SUFFICES ASSUME TypeOK, Noticed, [Next]_vars PROVE Noticed'
    OBVIOUS
  <1>1. ASSUME NEW rtt \in Rtt, NEW jitter \in Jitter, Report(rtt, jitter) PROVE Noticed'
    BY <1>1, Constants DEF Report, Inbound, Noticed, TypeOK, MostCheck
  <1>2. ASSUME NEW tier \in Tier \cup {None}, Override(tier) PROVE Noticed'
    BY <1>2, Constants DEF Override, Inbound, Noticed, TypeOK, MostCheck
  <1>3. CASE OtherFrame \/ Abuse \/ Backpressure \/ Closed
    BY <1>3, Constants
      DEF OtherFrame, Abuse, Backpressure, Closed, Inbound, Noticed, TypeOK, tierVars, ages, MostCheck
  <1>4. CASE Check
    <2>1. CASE HeartbeatLost
      BY <1>4, <2>1 DEF Check, HeartbeatLost, Noticed
    <2>2. CASE CheckSilence
      <3>1. inboundAge' <= HeartbeatTimeout + checkAge'
        BY <1>4, <2>2, Constants DEF Check, CheckSilence, TypeOK, MostInbound, MostCheck
      <3>2. reportAge' >= ForceMinimal + checkAge' => LongSilent
        BY <1>4, <2>2, Constants DEF Check, LongSilent, TypeOK, MostReport, MostCheck
      <3>3. LongSilent => autoTier' = "minimal"
        BY <2>2 DEF CheckSilence, Silenced, Silent
      <3> QED  BY <3>1, <3>2, <3>3 DEF Noticed
    <2> QED  BY <1>4, <2>1, <2>2 DEF Check
  <1>5. CASE Pass
    BY <1>5, Constants DEF Pass, Noticed, TypeOK, tierVars, Least, MostReport, MostInbound, MostCheck
  <1>6. CASE Accept
    BY <1>6, Constants DEF Accept, Noticed
  <1>7. CASE UNCHANGED vars
    BY <1>7 DEF vars, tierVars, ages, Noticed
  <1> QED  BY <1>1, <1>2, <1>3, <1>4, <1>5, <1>6, <1>7 DEF Next

(* However often the timer runs, one silence costs one tier at first.      *)
THEOREM SilenceCostsOneTier == Spec => []OneTierPerSilence
  <1>1. Worn => OneTierPerSilence
    BY DEF Worn, OneTierPerSilence
  <1> QED  BY <1>1, TypeInit, TypeStep, WornInit, WornStep, PTL DEF Spec

(* And however late the timer runs within its bound, a connection silent   *)
(* for so long is at minimal, and one from which nothing comes is closed:  *)
(* a silence costs what it should.                                         *)
THEOREM SilenceHasItsEffect == Spec => []SilenceIsHeeded
  <1>1. Worn => OneTierPerSilence
    BY DEF Worn, OneTierPerSilence
  <1>2. TypeOK /\ Noticed => SilenceIsNoticed
    BY Constants DEF TypeOK, Noticed, SilenceIsNoticed, MostReport, MostInbound, MostCheck
  <1>3. TypeOK /\ Worn /\ Noticed => SilenceIsHeeded
    BY <1>1, <1>2 DEF SilenceIsHeeded
  <1> QED  BY <1>3, TypeInit, TypeStep, WornInit, WornStep, NoticedStep, PTL DEF Spec

------------------------------------------------------------------------------
(* The counters of the code against the runs of reports they stand for: a  *)
(* count carried over from another tier is never more than was seen.       *)
Earned ==
    /\ bad <= badRun["full"]
    /\ autoTier = "full" => good = 0
    /\ autoTier # "full" => good <= goodRun[autoTier]
    /\ goodRun["degraded"] <= goodRun["minimal"]

LEMMA Thresholds ==
    ASSUME NEW rtt \in Rtt, NEW jitter \in Jitter
    PROVE  /\ \A t \in Tier : IsBad(t, rtt, jitter) => IsBad("full", rtt, jitter)
           /\ IsGood("degraded", rtt, jitter) => IsGood("minimal", rtt, jitter)
           /\ ~IsGood("full", rtt, jitter) /\ ~IsBad("minimal", rtt, jitter)
           /\ \A t \in Tier : ~(IsGood(t, rtt, jitter) /\ IsBad(t, rtt, jitter))
  BY Constants DEF IsBad, IsGood, Tier

LEMMA RunsGrow ==
    ASSUME TypeOK, NEW rtt \in Rtt, NEW jitter \in Jitter, Report(rtt, jitter), NEW t \in Tier
    PROVE  /\ goodRun'[t] = IF IsGood(t, rtt, jitter) THEN Least(goodRun[t] + 1, PromoteReports) ELSE 0
           /\ badRun'[t] = IF IsBad(t, rtt, jitter) THEN Least(badRun[t] + 1, DemoteReports) ELSE 0
           /\ goodRun[t] \in 0..PromoteReports /\ badRun[t] \in 0..DemoteReports
  BY DEF TypeOK, Report

(* A report that moves the tier finds enough of a run behind it, and what  *)
(* it leaves behind is again no more than was seen.                        *)
LEMMA ReportEarns ==
    ASSUME TypeOK, Earned, NEW rtt \in Rtt, NEW jitter \in Jitter, Report(rtt, jitter)
    PROVE  /\ Earned'
           /\ heard' = autoTier'
           /\ heard' # autoTier =>
                 \/ heard' = Promoted(autoTier) /\ goodRun'[autoTier] = PromoteReports
                 \/ /\ heard' = Demoted(autoTier)
                    /\ badRun'["full"] = DemoteReports /\ badRun'[autoTier] > 0
  <1> DEFINE isGood == IsGood(autoTier, rtt, jitter)
             isBad == IsBad(autoTier, rtt, jitter)
  <1>0. autoTier \in Tier /\ good \in 0..PromoteReports - 1 /\ bad \in 0..DemoteReports - 1
        /\ "full" \in Tier /\ "degraded" \in Tier /\ "minimal" \in Tier
    BY DEF TypeOK, Tier
  <1>1. heard' = autoTier'
    BY DEF Report
  <1>2. goodRun'["degraded"] <= goodRun'["minimal"]
    BY <1>0, RunsGrow, Thresholds, Constants DEF Earned, Least
  <1>3. isBad => badRun'["full"] >= bad + 1 /\ badRun'[autoTier] > 0
    BY <1>0, RunsGrow, Thresholds, Constants DEF Earned, Least
  <1>4. isGood => goodRun'[autoTier] >= good + 1 /\ ~isBad
    BY <1>0, RunsGrow, Thresholds, Constants DEF Earned, Least, Tier
  <1>5. goodRun' \in [Tier -> 0..PromoteReports] /\ badRun' \in [Tier -> 0..DemoteReports]
    BY ReportTypes DEF TypeOK
  <1>6. CASE isBad /\ bad + 1 >= DemoteReports
    <2>1. autoTier' = Demoted(autoTier) /\ good' = 0 /\ bad' = 0
      BY <1>4, <1>6, Constants DEF Report, Reported
    <2>2. badRun'["full"] = DemoteReports
      BY <1>0, <1>3, <1>5, <1>6, Constants
    <2> QED  BY <1>0, <1>1, <1>2, <1>3, <1>5, <1>6, <2>1, <2>2, Constants DEF Earned, Demoted
  <1>7. CASE isGood /\ good + 1 >= PromoteReports
    <2>1. autoTier' = Promoted(autoTier) /\ good' = 0 /\ bad' = 0
      BY <1>4, <1>7, Constants DEF Report, Reported
    <2>2. goodRun'[autoTier] = PromoteReports
      BY <1>0, <1>4, <1>5, <1>7, Constants
    <2> QED  BY <1>0, <1>1, <1>2, <1>5, <2>1, <2>2, Constants DEF Earned, Promoted
  <1>8. CASE ~(isBad /\ bad + 1 >= DemoteReports) /\ ~(isGood /\ good + 1 >= PromoteReports)
    <2>1. /\ autoTier' = autoTier
          /\ good' = IF isGood THEN good + 1 ELSE 0
          /\ bad' = IF isBad THEN bad + 1 ELSE 0
      BY <1>0, <1>8, Constants DEF Report, Reported
    <2>2. bad' <= badRun'["full"]
      BY <1>0, <1>3, <1>5, <2>1, Constants
    <2>3. autoTier' = "full" => good' = 0
      BY <2>1, Thresholds
    <2>4. good' <= goodRun'[autoTier]
      BY <1>0, <1>4, <1>5, <2>1, Constants
    <2> QED  BY <1>1, <1>2, <2>1, <2>2, <2>3, <2>4 DEF Earned
  <1> QED  BY <1>6, <1>7, <1>8

LEMMA EarnedStep == TypeOK /\ Earned /\ [Next]_vars => Earned'
  <1> SUFFICES ASSUME TypeOK, Earned, [Next]_vars PROVE Earned'
    OBVIOUS
  <1>1. ASSUME NEW rtt \in Rtt, NEW jitter \in Jitter, Report(rtt, jitter) PROVE Earned'
    BY <1>1, ReportEarns
  <1>2. ASSUME NEW tier \in Tier \cup {None}, Override(tier) PROVE Earned'
    BY <1>2 DEF Override, Earned, history
  <1>3. CASE OtherFrame \/ Abuse \/ Backpressure \/ Closed \/ Pass
    BY <1>3 DEF OtherFrame, Abuse, Backpressure, Closed, Pass, Earned, tierVars, history
  <1>4. CASE Check
    <2>1. CASE HeartbeatLost
      BY <1>4, <2>1 DEF Check, HeartbeatLost, Earned, tierVars, history
    <2>2. CASE CheckSilence
      <3>1. autoTier' = autoTier \/ autoTier' = Demoted(autoTier) \/ autoTier' = "minimal"
        BY <2>2 DEF CheckSilence, Silenced, Silent
      <3>2. good' = good /\ bad' = bad /\ goodRun' = goodRun /\ badRun' = badRun
        BY <1>4, <2>2 DEF Check, CheckSilence, history
      <3>3. /\ goodRun["degraded"] \in 0..PromoteReports /\ goodRun["minimal"] \in 0..PromoteReports
            /\ good \in 0..PromoteReports - 1 /\ autoTier \in Tier
        BY DEF TypeOK, Tier
      <3>4. good <= goodRun["minimal"]
        BY <3>3, Constants DEF Earned, Tier
      <3> QED  BY <3>1, <3>2, <3>3, <3>4, Constants DEF Earned, Demoted, Tier
    <2> QED  BY <1>4, <2>1, <2>2 DEF Check
  <1>5. CASE Accept
    BY <1>5 DEF Accept, Earned, NoRuns, Tier
  <1>6. CASE UNCHANGED vars
    BY <1>6 DEF vars, Earned, tierVars, history
  <1> QED  BY <1>1, <1>2, <1>3, <1>4, <1>5, <1>6 DEF Next

\* Of all the steps, only a report makes the report just in differ from the
\* tier there was.
LEMMA OnlyReportsMove ==
    ASSUME TypeOK, Worn, [Next]_vars, MovedByReport
    PROVE  \E rtt \in Rtt, jitter \in Jitter : Report(rtt, jitter)
  <1>1. ASSUME reportAge = 0 PROVE autoTier = heard
    BY <1>1, Constants DEF Worn
  <1>2. ASSUME reportAge' = reportAge, heard' = heard PROVE FALSE
    BY <1>1, <1>2 DEF MovedByReport
  <1>3. ASSUME NEW tier \in Tier \cup {None}, Override(tier) PROVE FALSE
    BY <1>2, <1>3 DEF Override, history
  <1>4. CASE OtherFrame \/ Abuse \/ Backpressure \/ Closed
    BY <1>2, <1>4 DEF OtherFrame, Abuse, Backpressure, Closed, ages, history
  <1>5. CASE Check \/ UNCHANGED vars
    BY <1>2, <1>5 DEF Check, vars, ages, history
  <1>6. CASE Pass
    BY <1>6, Constants DEF Pass, Least, MovedByReport, TypeOK, MostReport, MostCheck
  <1>7. CASE Accept
    BY <1>7 DEF Accept, MovedByReport
  <1> QED  BY <1>3, <1>4, <1>5, <1>6, <1>7 DEF Next

(* Whatever the tier was, whatever silences and overrides came between, a  *)
(* report moves it only at the end of the run of reports that earns that.  *)
THEOREM EveryMoveIsConfirmed == Spec => MovesAreConfirmed
  <1> DEFINE Confirmed ==
        \/ heard' = Promoted(autoTier) /\ goodRun'[autoTier] = PromoteReports
        \/ /\ heard' = Demoted(autoTier)
           /\ badRun'["full"] = DemoteReports /\ badRun'[autoTier] > 0
  <1>1. Init => Earned
    BY DEF Init, Earned, NoRuns, Tier
  <1>2. TypeOK /\ Worn /\ Earned /\ [Next]_vars => [MovedByReport => Confirmed]_vars
    <2> SUFFICES ASSUME TypeOK, Worn, Earned, [Next]_vars, MovedByReport PROVE Confirmed
      OBVIOUS
    <2>1. PICK rtt \in Rtt, jitter \in Jitter : Report(rtt, jitter)
      BY OnlyReportsMove
    <2> QED  BY <2>1, ReportEarns DEF MovedByReport
  <1> QED  BY <1>1, <1>2, TypeInit, TypeStep, WornInit, WornStep, EarnedStep, PTL
    DEF Spec, MovesAreConfirmed

------------------------------------------------------------------------------
(* The tier that was chosen.  The wires are sequences; every step of the   *)
(* argument only needs to know what Append and Tail do to their first and  *)
(* last elements.                                                          *)

(* What is appended is last, and first only where nothing was.             *)
LEMMA AppendIsLast ==
    ASSUME NEW S, NEW wire \in Seq(S), NEW x \in S
    PROVE  /\ Append(wire, x) \in Seq(S) /\ Append(wire, x) # <<>>
           /\ Append(wire, x)[Len(Append(wire, x))] = x
           /\ wire # <<>> => Head(Append(wire, x)) = Head(wire)
  <1>1. /\ Append(wire, x) \in Seq(S) /\ Append(wire, x) # <<>>
        /\ Append(wire, x)[Len(Append(wire, x))] = x
    BY AppendProperties
  <1>2. ASSUME wire # <<>> PROVE Head(Append(wire, x)) = Head(wire)
    <2>1. Len(wire) \in Nat \ {0}
      BY <1>2, EmptySeq
    <2>2. Append(wire, x)[1] = wire[1]
      BY <2>1, AppendProperties
    <2> QED  BY <2>2, <1>1
  <1> QED  BY <1>1, <1>2

(* What is taken off the front was last only if it was alone.              *)
LEMMA TailKeepsLast ==
    ASSUME NEW S, NEW wire \in Seq(S), wire # <<>>
    PROVE  /\ Tail(wire) \in Seq(S) /\ Head(wire) \in S
           /\ Tail(wire) = <<>> => wire[Len(wire)] = Head(wire)
           /\ Tail(wire) # <<>> => Tail(wire)[Len(Tail(wire))] = wire[Len(wire)]
  <1>1. /\ Tail(wire) \in Seq(S) /\ Head(wire) \in S
        /\ Len(Tail(wire)) = Len(wire) - 1
        /\ \A i \in 1..Len(Tail(wire)) : Tail(wire)[i] = wire[i + 1]
    BY HeadTailProperties
  <1>2. Len(wire) \in Nat \ {0} /\ Len(Tail(wire)) \in Nat
    BY <1>1, EmptySeq, LenProperties
  <1>3. ASSUME Tail(wire) = <<>> PROVE wire[Len(wire)] = Head(wire)
    <2>1. Len(wire) = 1
      BY <1>1, <1>2, <1>3, EmptySeq
    <2> QED  BY <2>1
  <1>4. ASSUME Tail(wire) # <<>> PROVE Tail(wire)[Len(Tail(wire))] = wire[Len(wire)]
    <2>1. Len(Tail(wire)) \in 1..Len(Tail(wire))
      BY <1>1, <1>2, <1>4, EmptySeq
    <2>2. Tail(wire)[Len(Tail(wire))] = wire[Len(Tail(wire)) + 1]
      BY <1>1, <2>1
    <2>3. Len(Tail(wire)) + 1 = Len(wire)
      BY <1>1, <1>2
    <2> QED  BY <2>2, <2>3
  <1> QED  BY <1>1, <1>3, <1>4

------------------------------------------------------------------------------
(* Before its hello is seen, it is what comes first.  Without a socket     *)
(* nothing is under way, and what was never chosen is nowhere: neither     *)
(* kept, nor sent, nor in force.                                           *)
HelloIsFirst == linked /\ ~greeted => down # <<>> /\ Head(down).hello
NothingUnlinked == ~linked => up = <<>> /\ down = <<>>
NothingUnchosen == ~explicit => choice = None /\ up = <<>> /\ (linked => forced = None)

Kept == ChoiceTypeOK /\ HelloIsFirst /\ NothingUnlinked /\ NothingUnchosen
        /\ ChoiceIsKept /\ StoreIsTold

LEMMA KeptInit == ChoiceInit => Kept
  <1> SUFFICES ASSUME ChoiceInit PROVE Kept
    OBVIOUS
  <1>1. <<>> \in Seq(Tier \cup {None}) /\ <<>> \in Seq(Told)
    BY EmptySeq
  <1>2. ChoiceTypeOK
    BY <1>1 DEF ChoiceInit, ChoiceTypeOK, Tier, InitialTier
  <1> QED  BY <1>2 DEF ChoiceInit, Kept, HelloIsFirst, NothingUnlinked, NothingUnchosen,
           ChoiceIsKept, StoreIsTold

(* Whatever moves the tier on the server appends to the announcements if,  *)
(* and only if, the tier that governs has moved.                           *)
LEMMA AnnouncesTells ==
    ASSUME Kept, linked, NEW override \in Tier \cup {None}, NEW auto \in Tier,
           Announces(override, auto), UNCHANGED <<linked, greeted, shown>>
    PROVE  /\ down' \in Seq(Told) /\ forced' = override /\ measured' = auto
           /\ HelloIsFirst' /\ StoreIsTold'
  <1> DEFINE frame == [hello |-> FALSE, tier |-> Effective(override, auto)]
  <1>0. down \in Seq(Told) /\ frame \in Told
    BY DEF Kept, ChoiceTypeOK, Told, Effective
  <1>1. forced' = override /\ measured' = auto
    BY DEF Announces
  <1>2. CASE Effective(override, auto) = Effective(forced, measured)
    <2>1. down' = down
      BY <1>2 DEF Announces
    <2>2. Effective(forced', measured') = Effective(forced, measured)
      BY <1>1, <1>2
    <2> QED  BY <1>0, <1>1, <2>1, <2>2 DEF Kept, HelloIsFirst, StoreIsTold
  <1>3. CASE Effective(override, auto) # Effective(forced, measured)
    <2>1. down' = Append(down, frame)
      BY <1>3 DEF Announces
    <2>2. /\ down' \in Seq(Told) /\ down' # <<>> /\ down'[Len(down')] = frame
          /\ down # <<>> => Head(down') = Head(down)
      BY <1>0, <2>1, AppendIsLast
    <2>3. Effective(forced', measured') = Effective(override, auto)
      BY <1>1
    <2>4. StoreIsTold'
      BY <2>2, <2>3 DEF StoreIsTold
    <2> QED  BY <1>1, <2>2, <2>4 DEF Kept, HelloIsFirst
  <1> QED  BY <1>2, <1>3

LEMMA ChooseKeeps ==
    ASSUME Kept, NEW tier \in Tier \cup {None}, Choose(tier)
    PROVE  Kept'
  <1>1. CASE linked
    <2>1. up \in Seq(Tier \cup {None}) /\ up' = Append(up, tier)
      BY <1>1 DEF Kept, ChoiceTypeOK, Choose
    <2>2. up' \in Seq(Tier \cup {None}) /\ up' # <<>> /\ up'[Len(up')] = tier
      BY <2>1, AppendIsLast
    <2> QED  BY <1>1, <2>2 DEF Choose, Kept, ChoiceTypeOK, HelloIsFirst, NothingUnlinked,
             NothingUnchosen, ChoiceIsKept, StoreIsTold, Latest
  <1>2. CASE ~linked
    BY <1>2 DEF Choose, Kept, ChoiceTypeOK, HelloIsFirst, NothingUnlinked,
       NothingUnchosen, ChoiceIsKept, StoreIsTold, Latest
  <1> QED  BY <1>1, <1>2

LEMMA ReceiveKeeps == ASSUME Kept, Receive PROVE Kept'
  <1>1. down \in Seq(Told) /\ up \in Seq(Tier \cup {None}) /\ choice \in Tier \cup {None}
        /\ down # <<>> /\ linked
    BY DEF Kept, ChoiceTypeOK, NothingUnlinked, Receive
  <1>2. /\ down' \in Seq(Told) /\ Head(down) \in Told
        /\ down' = <<>> => down[Len(down)] = Head(down)
        /\ down' # <<>> => down'[Len(down')] = down[Len(down)]
    BY <1>1, TailKeepsLast DEF Receive
  <1>3. shown' = Head(down).tier /\ shown' \in Tier /\ Head(down).hello \in BOOLEAN
    BY <1>2 DEF Receive, Told
  <1>4. greeted' = TRUE
    BY <1>1 DEF Kept, HelloIsFirst, ChoiceTypeOK, Receive
  <1>5. StoreIsTold'
    BY <1>1, <1>2, <1>3 DEF Kept, StoreIsTold, Receive
  <1>6. /\ up' \in Seq(Tier \cup {None})
        /\ ~explicit => up' = <<>>
        /\ ChoiceIsKept'
    <2>1. CASE Head(down).hello /\ explicit
      <3>1. up' = Append(up, choice)
        BY <2>1 DEF Receive, Reapplied
      <3>2. up' \in Seq(Tier \cup {None}) /\ up' # <<>> /\ up'[Len(up')] = choice
        BY <1>1, <3>1, AppendIsLast
      <3> QED  BY <2>1, <3>2 DEF ChoiceIsKept, Latest, Receive
    <2>2. CASE Head(down).hello /\ ~explicit
      BY <1>1, <2>2 DEF Kept, NothingUnchosen, ChoiceIsKept, Latest, Receive, Reapplied
    <2>3. CASE ~Head(down).hello
      <3>1. greeted /\ up' = up
        BY <1>1, <2>3 DEF Kept, HelloIsFirst, Receive
      <3> QED  BY <1>1, <3>1 DEF Kept, NothingUnchosen, ChoiceIsKept, Latest, Receive
    <2> QED  BY <2>1, <2>2, <2>3
  <1>7. ChoiceTypeOK'
    BY <1>1, <1>2, <1>3, <1>4, <1>6 DEF Kept, ChoiceTypeOK, Receive
  <1> QED  BY <1>1, <1>4, <1>5, <1>6, <1>7
           DEF Kept, HelloIsFirst, NothingUnlinked, NothingUnchosen, Receive

LEMMA OverridesKeeps == ASSUME Kept, Overrides PROVE Kept'
  <1> DEFINE next == IF DebugControls THEN Head(up) ELSE forced
  <1>1. up \in Seq(Tier \cup {None}) /\ up # <<>> /\ linked /\ explicit
    BY DEF Kept, ChoiceTypeOK, NothingUnlinked, NothingUnchosen, Overrides
  <1>2. /\ up' \in Seq(Tier \cup {None}) /\ Head(up) \in Tier \cup {None}
        /\ up' = <<>> => up[Len(up)] = Head(up)
        /\ up' # <<>> => up'[Len(up')] = up[Len(up)]
    BY <1>1, TailKeepsLast DEF Overrides
  <1>3. next \in Tier \cup {None} /\ measured \in Tier /\ Announces(next, measured)
    BY <1>2 DEF Kept, ChoiceTypeOK, Overrides
  <1>4. UNCHANGED <<choice, explicit, linked, greeted, shown, refused>>
    BY DEF Overrides
  <1>5. /\ down' \in Seq(Told) /\ forced' = next /\ measured' = measured
        /\ HelloIsFirst' /\ StoreIsTold'
    BY <1>1, <1>3, <1>4, AnnouncesTells
  <1>6. ChoiceIsKept'
    BY <1>1, <1>2, <1>4, <1>5 DEF Kept, ChoiceIsKept, Latest
  <1>7. ChoiceTypeOK'
    BY <1>2, <1>3, <1>4, <1>5 DEF Kept, ChoiceTypeOK
  <1> QED  BY <1>1, <1>4, <1>5, <1>6, <1>7 DEF Kept, NothingUnlinked, NothingUnchosen

LEMMA RefusesKeeps == ASSUME Kept, Refuses PROVE Kept'
  <1>1. up \in Seq(Tier \cup {None}) /\ up # <<>> /\ linked /\ explicit
    BY DEF Kept, ChoiceTypeOK, NothingUnlinked, NothingUnchosen, Refuses
  <1>2. up' \in Seq(Tier \cup {None})
    BY <1>1, TailKeepsLast DEF Refuses
  <1> QED  BY <1>1, <1>2 DEF Refuses, Kept, ChoiceTypeOK, HelloIsFirst, NothingUnlinked,
           NothingUnchosen, ChoiceIsKept, StoreIsTold

LEMMA MeasuresKeeps ==
    ASSUME Kept, NEW tier \in Tier, Measures(tier)
    PROVE  Kept'
  <1>1. linked /\ Announces(forced, tier) /\ forced \in Tier \cup {None}
        /\ UNCHANGED <<choice, explicit, linked, greeted, up, shown, refused>>
    BY DEF Kept, ChoiceTypeOK, Measures
  <1>2. /\ down' \in Seq(Told) /\ forced' = forced /\ measured' = tier
        /\ HelloIsFirst' /\ StoreIsTold'
    BY <1>1, AnnouncesTells
  <1> QED  BY <1>1, <1>2 DEF Kept, ChoiceTypeOK, NothingUnlinked, NothingUnchosen,
           ChoiceIsKept, Latest

LEMMA LinksKeeps == ASSUME Kept, Links PROVE Kept'
  <1> DEFINE hello == [hello |-> TRUE, tier |-> InitialTier]
  <1>1. /\ down' = <<hello>> /\ hello \in Told /\ InitialTier \in Tier
        /\ ~linked /\ ~greeted /\ up = <<>>
    BY DEF Links, Kept, ChoiceTypeOK, NothingUnlinked, Told, Tier, InitialTier
  <1>2. /\ down' \in Seq(Told) /\ down' # <<>> /\ Head(down') = hello
        /\ down'[Len(down')] = hello
    BY <1>1
  <1>3. Effective(forced', measured') = InitialTier
    BY DEF Links, Effective
  <1>4. HelloIsFirst' /\ StoreIsTold'
    BY <1>2, <1>3 DEF HelloIsFirst, StoreIsTold
  <1> QED  BY <1>1, <1>2, <1>4 DEF Links, Kept, ChoiceTypeOK, NothingUnlinked, NothingUnchosen,
           ChoiceIsKept

LEMMA UnlinkedKeeps ==
    ASSUME Kept, Unlinked,
           (choice' = choice /\ explicit' = explicit) \/ (choice' = None /\ explicit' = FALSE)
    PROVE  Kept'
  <1>1. <<>> \in Seq(Tier \cup {None}) /\ <<>> \in Seq(Told)
    BY EmptySeq
  <1>2. choice' \in Tier \cup {None} /\ explicit' \in BOOLEAN
    BY DEF Kept, ChoiceTypeOK
  <1>3. ChoiceTypeOK'
    BY <1>1, <1>2 DEF Unlinked, Kept, ChoiceTypeOK
  <1> QED  BY <1>3 DEF Unlinked, Kept, HelloIsFirst, NothingUnlinked, NothingUnchosen,
           ChoiceIsKept, StoreIsTold

LEMMA KeptStep == Kept /\ [ChoiceNext]_choiceVars => Kept'
  <1> SUFFICES ASSUME Kept, [ChoiceNext]_choiceVars PROVE Kept'
    OBVIOUS
  <1>1. ASSUME NEW tier \in Tier \cup {None}, Choose(tier) PROVE Kept'
    BY <1>1, ChooseKeeps
  <1>2. CASE Receive
    BY <1>2, ReceiveKeeps
  <1>3. CASE Overrides
    BY <1>3, OverridesKeeps
  <1>4. CASE Refuses
    BY <1>4, RefusesKeeps
  <1>5. ASSUME NEW tier \in Tier, Measures(tier) PROVE Kept'
    BY <1>5, MeasuresKeeps
  <1>6. CASE Links
    BY <1>6, LinksKeeps
  <1>7. CASE Breaks
    BY <1>7, UnlinkedKeeps DEF Breaks
  <1>8. CASE NewRuntime
    BY <1>8, UnlinkedKeeps DEF NewRuntime
  <1>9. CASE UNCHANGED choiceVars
    BY <1>9 DEF choiceVars, Kept, ChoiceTypeOK, HelloIsFirst, NothingUnlinked,
       NothingUnchosen, ChoiceIsKept, StoreIsTold, Latest
  <1> QED  BY <1>1, <1>2, <1>3, <1>4, <1>5, <1>6, <1>7, <1>8, <1>9 DEF ChoiceNext

(* However many frames are under way, however often the socket breaks and  *)
(* whatever is measured: the choice made last is what the server will be   *)
(* governed by, and what governs is what the store will show.              *)
THEOREM ChoiceSurvives == ChoiceSpec => []ChoiceIsInForce
  <1>1. Kept => ChoiceIsInForce
    BY DEF Kept, ChoiceIsInForce
  <1> QED  BY <1>1, KeptInit, KeptStep, PTL DEF ChoiceSpec

------------------------------------------------------------------------------
(* The token buckets of a connection.                                      *)

Frame == [type : FrameType, at : Nat]

(* KeepsTheCurve of any sequence of frames.                                *)
Curve(fr, asked, passed, config) ==
    \A i \in asked :
        i \in passed <=>
            \A j \in passed \cup {i} : j <= i =>
                PerSecond * (Cardinality({k \in passed : j <= k /\ k < i}) + 1)
                    <= PerSecond * config.burst + config.sustained * (fr[i].at - fr[j].at)

(* What frame j and those that passed after it have spent, and what a      *)
(* bucket that was full at the time of j has gained by now.                *)
Spent(passed, j) == PerSecond * Cardinality({k \in passed : j <= k})
Gained(fr, config, j, now) == PerSecond * config.burst + config.sustained * (now - fr[j].at)

(* So many tokens at this time are the least that the burst and each frame *)
(* that passed leave.                                                      *)
LeastLeft(tokens, now, fr, passed, config) ==
    /\ tokens \in Nat /\ now \in Nat
    /\ tokens <= PerSecond * config.burst
    /\ \A j \in passed : /\ fr[j].at <= now
                         /\ tokens + Spent(passed, j) <= Gained(fr, config, j, now)
    /\ \/ tokens = PerSecond * config.burst
       \/ \E j \in passed : tokens + Spent(passed, j) = Gained(fr, config, j, now)

(* What a bucket knows of the frames it was asked about.                   *)
BucketKnows(b, fr, asked, passed, config) ==
    /\ asked \in SUBSET (1..Len(fr)) /\ passed \in SUBSET asked
    /\ Curve(fr, asked, passed, config)
    /\ LeastLeft(b.tokens, b.at, fr, passed, config)

(* Facts about the numbers a bucket reckons with.                          *)
LEMMA SpentIsNatural ==
  ASSUME NEW n \in Nat, NEW passed \in SUBSET (1..n), NEW j \in Int
  PROVE  /\ IsFiniteSet({k \in passed : j <= k})
         /\ Cardinality({k \in passed : j <= k}) \in Nat
         /\ Spent(passed, j) \in Nat
<1>1. IsFiniteSet(1..n)
  BY FS_Interval
<1>2. {k \in passed : j <= k} \in SUBSET (1..n)
  OBVIOUS
<1>3. IsFiniteSet({k \in passed : j <= k}) /\ Cardinality({k \in passed : j <= k}) \in Nat
  BY <1>1, <1>2, FS_Subset, FS_CardinalityType
<1> QED
  BY <1>3, FrameLimitsAssumption DEF Spent

(* One more frame that passes has spent one more token.                    *)
LEMMA SpentOneMore ==
  ASSUME NEW n \in Nat, NEW passed \in SUBSET (1..n), NEW j \in 1..n + 1
  PROVE  /\ j <= n => Spent(passed \cup {n + 1}, j) = Spent(passed, j) + PerSecond
         /\ j = n + 1 => Spent(passed \cup {n + 1}, j) = PerSecond
<1> DEFINE S == {k \in passed : j <= k}
           c == Cardinality(S)
<1>0. j \in Int /\ \A k \in passed : k \in Int /\ k <= n
  OBVIOUS
<1>1. IsFiniteSet(S) /\ c \in Nat
  BY <1>0, SpentIsNatural
<1>2. {k \in passed \cup {n + 1} : j <= k} = S \cup {n + 1} /\ n + 1 \notin S
  BY <1>0
<1>3. j = n + 1 => S = {}
  <2>1. \A k \in passed : ~(n + 1 <= k)
    BY <1>0
  <2> QED
    BY <2>1
<1> HIDE DEF S
<1>4. Cardinality(S \cup {n + 1}) = c + 1
  BY <1>1, <1>2, FS_AddElement
<1>5. j = n + 1 => c = 0
  BY <1>3, FS_EmptySet
<1>6. Spent(passed \cup {n + 1}, j) = PerSecond * (c + 1) /\ Spent(passed, j) = PerSecond * c
  BY <1>2, <1>4 DEF Spent, S
<1> HIDE DEF c
<1> QED
  BY <1>1, <1>5, <1>6, FrameLimitsAssumption

(* As time passes a bucket is filled, up to its burst.                     *)
LEMMA RefilledIsLeast ==
  ASSUME NEW fr, NEW n \in Nat, NEW passed \in SUBSET (1..n), \A j \in passed : fr[j].at \in Nat,
         NEW config \in BucketConfig, NEW tokens, NEW at, LeastLeft(tokens, at, fr, passed, config),
         NEW now \in Nat, at <= now
  PROVE  LeastLeft(Capped(tokens + (now - at) * config.sustained, config.burst * PerSecond),
                   now, fr, passed, config)
<1> DEFINE more == (now - at) * config.sustained
           most == PerSecond * config.burst
           r == Capped(tokens + more, most)
<1>1. /\ config.sustained \in Nat /\ config.burst \in Nat /\ PerSecond \in Nat
      /\ tokens \in Nat /\ at \in Nat /\ now - at \in Nat
      /\ tokens <= most
  BY FrameLimitsAssumption DEF BucketConfig, LeastLeft
<1>2. more \in Nat /\ most \in Nat /\ config.burst * PerSecond = most
  BY <1>1
<1>3. ASSUME NEW j \in passed
      PROVE  /\ Gained(fr, config, j, now) = Gained(fr, config, j, at) + more
             /\ Gained(fr, config, j, at) \in Nat /\ fr[j].at <= now
  <2>1. fr[j].at \in Nat /\ fr[j].at <= at
    BY DEF LeastLeft
  <2>2. PICK d \in Nat : d = at - fr[j].at
    BY <1>1, <2>1
  <2>3. PICK e \in Nat : e = now - at
    BY <1>1
  <2>4. now - fr[j].at = d + e
    BY <1>1, <2>1, <2>2, <2>3
  <2>5. config.sustained * (d + e) = config.sustained * d + e * config.sustained
        /\ config.sustained * d \in Nat
    BY <1>1
  <2>6. /\ Gained(fr, config, j, now) = most + config.sustained * (d + e)
        /\ Gained(fr, config, j, at) = most + config.sustained * d
        /\ more = e * config.sustained
    BY <2>2, <2>3, <2>4 DEF Gained
  <2> HIDE DEF most, more
  <2> QED
    BY <1>1, <1>2, <2>1, <2>5, <2>6
<1> HIDE DEF most, more
<1>4. ASSUME NEW j \in passed PROVE Spent(passed, j) \in Nat
  <2>1. j \in Int
    OBVIOUS
  <2> QED
    BY <2>1, SpentIsNatural
<1>5. r \in Nat /\ r <= most /\ r <= tokens + more /\ (r = most \/ r = tokens + more)
  BY <1>1, <1>2 DEF Capped
<1> HIDE DEF r
<1>6. ASSUME NEW j \in passed
      PROVE  r + Spent(passed, j) <= Gained(fr, config, j, now)
  <2>1. tokens + Spent(passed, j) <= Gained(fr, config, j, at)
    BY DEF LeastLeft
  <2> QED
    BY <1>1, <1>2, <1>3, <1>4, <1>5, <2>1
<1>7. r = most \/ \E j \in passed : r + Spent(passed, j) = Gained(fr, config, j, now)
  <2>1. CASE r = most
    BY <2>1
  <2>2. CASE r # most
    <3>1. r = tokens + more
      BY <1>5, <2>2
    <3>2. CASE tokens = most
      BY <1>1, <1>2, <1>5, <3>1, <3>2
    <3>3. CASE tokens # most
      <4>1. PICK j \in passed : tokens + Spent(passed, j) = Gained(fr, config, j, at)
        BY <3>3 DEF LeastLeft, most
      <4>2. /\ Spent(passed, j) \in Nat /\ Gained(fr, config, j, at) \in Nat
            /\ Gained(fr, config, j, now) = Gained(fr, config, j, at) + more
        BY <1>3, <1>4
      <4>3. r + Spent(passed, j) = Gained(fr, config, j, now)
        BY <1>1, <1>2, <3>1, <4>1, <4>2
      <4> QED
        BY <4>3
    <3> QED
      BY <3>2, <3>3
  <2> QED
    BY <2>1, <2>2
<1>8. LeastLeft(r, now, fr, passed, config)
  BY <1>3, <1>5, <1>6, <1>7 DEF LeastLeft, most
<1> QED
  BY <1>2, <1>8 DEF r, more

(* Whether there is a token is what the curve says.                        *)
LEMMA TokenIsRoom ==
  ASSUME NEW fr, NEW n \in Nat, NEW passed \in SUBSET (1..n), \A j \in passed : fr[j].at \in Nat,
         NEW config \in BucketConfig, NEW now \in Nat, NEW tokens,
         LeastLeft(tokens, now, fr, passed, config), fr[n + 1].at = now
  PROVE  PerSecond <= tokens <=>
           \A j \in passed \cup {n + 1} : j <= n + 1 =>
               PerSecond * (Cardinality({k \in passed : j <= k /\ k < n + 1}) + 1)
                   <= PerSecond * config.burst + config.sustained * (fr[n + 1].at - fr[j].at)
<1> DEFINE Room(j) == PerSecond * (Cardinality({k \in passed : j <= k /\ k < n + 1}) + 1)
                        <= PerSecond * config.burst + config.sustained * (fr[n + 1].at - fr[j].at)
           most == PerSecond * config.burst
<1>0. \A k \in passed : k \in Int /\ k <= n /\ k < n + 1
  OBVIOUS
<1>1. /\ config.sustained \in Nat /\ config.burst \in Nat /\ PerSecond \in Nat
      /\ most \in Nat /\ tokens \in Nat /\ tokens <= most
  BY FrameLimitsAssumption DEF BucketConfig, LeastLeft
<1>2. ASSUME NEW j \in passed
      PROVE  /\ Room(j) <=> Spent(passed, j) + PerSecond <= Gained(fr, config, j, now)
             /\ Spent(passed, j) \in Nat /\ Gained(fr, config, j, now) \in Nat
  <2>1. {k \in passed : j <= k /\ k < n + 1} = {k \in passed : j <= k}
    BY <1>0
  <2>2. PICK c \in Nat : c = Cardinality({k \in passed : j <= k})
    BY <1>0, SpentIsNatural
  <2>3. PerSecond * (c + 1) = PerSecond * c + PerSecond /\ PerSecond * c \in Nat
    BY <1>1
  <2>4. fr[j].at \in Nat /\ fr[j].at <= now
    BY DEF LeastLeft
  <2>5. Gained(fr, config, j, now) \in Nat
    <3>1. now - fr[j].at \in Nat
      BY <2>4
    <3> QED
      BY <1>1, <3>1 DEF Gained
  <2>6. Room(j) <=> PerSecond * (c + 1) <= Gained(fr, config, j, now)
    BY <2>1, <2>2 DEF Gained
  <2> QED
    BY <2>2, <2>3, <2>5, <2>6 DEF Spent
<1>3. Room(n + 1) <=> PerSecond <= most
  <2>a. \A k \in passed : ~(n + 1 <= k)
    BY <1>0
  <2>1. {k \in passed : n + 1 <= k /\ k < n + 1} = {}
    BY <2>a
  <2>2. Cardinality({k \in passed : n + 1 <= k /\ k < n + 1}) = 0
    BY <2>1, FS_EmptySet
  <2>3. config.sustained * (fr[n + 1].at - fr[n + 1].at) = 0
    BY <1>1
  <2> QED
    BY <1>1, <2>2, <2>3
<1> HIDE DEF most
<1>4. \A j \in passed \cup {n + 1} : j <= n + 1
  OBVIOUS
<1> HIDE DEF Room
<1>5. ASSUME PerSecond <= tokens
      PROVE  \A j \in passed \cup {n + 1} : Room(j)
  <2>1. Room(n + 1)
    BY <1>1, <1>3, <1>5
  <2>2. ASSUME NEW j \in passed PROVE Room(j)
    <3>1. tokens + Spent(passed, j) <= Gained(fr, config, j, now)
      BY DEF LeastLeft
    <3>2. /\ Room(j) <=> Spent(passed, j) + PerSecond <= Gained(fr, config, j, now)
          /\ Spent(passed, j) \in Nat /\ Gained(fr, config, j, now) \in Nat
      BY <1>2
    <3> QED
      BY <1>1, <1>5, <3>1, <3>2
  <2> QED
    BY <2>1, <2>2
<1>6. ASSUME \A j \in passed \cup {n + 1} : Room(j)
      PROVE  PerSecond <= tokens
  <2>1. CASE tokens = most
    BY <1>3, <1>6, <2>1
  <2>2. CASE tokens # most
    <3>1. PICK j \in passed : tokens + Spent(passed, j) = Gained(fr, config, j, now)
      BY <2>2 DEF LeastLeft, most
    <3>2. /\ Room(j) <=> Spent(passed, j) + PerSecond <= Gained(fr, config, j, now)
          /\ Spent(passed, j) \in Nat /\ Gained(fr, config, j, now) \in Nat
      BY <1>2
    <3> QED
      BY <1>1, <1>6, <3>1, <3>2
  <2> QED
    BY <2>1, <2>2
<1> QED
  BY <1>4, <1>5, <1>6 DEF Room

(* One more at the end of a sequence.                                      *)
Longer(more, seq, x) == more = Append(seq, x)

(* A frame more is a frame more: those before it stay what they were.      *)
LEMMA FramesBefore ==
  ASSUME NEW fr \in Seq(Frame), NEW f \in Frame
  PROVE  /\ Len(fr) \in Nat /\ Append(fr, f) \in Seq(Frame)
         /\ Len(Append(fr, f)) = Len(fr) + 1
         /\ \A j \in 1..Len(fr) : Append(fr, f)[j] = fr[j] /\ fr[j].at \in Nat
         /\ Append(fr, f)[Len(fr) + 1] = f
<1>1. Len(fr) \in Nat /\ \A j \in 1..Len(fr) : fr[j] \in Frame
  BY LenProperties, ElementOfSeq
<1> QED
  BY <1>1, AppendProperties DEF Frame

(* Nor does it change what the curve says of those before it, be it passed *)
(* or not.                                                                 *)
LEMMA CurveBefore ==
  ASSUME NEW fr, NEW gr, NEW n \in Nat, \A j \in 1..n : gr[j] = fr[j],
         NEW asked \in SUBSET (1..n), NEW passed \in SUBSET asked, NEW config,
         Curve(fr, asked, passed, config),
         NEW more \in SUBSET (passed \cup {n + 1}), passed \subseteq more
  PROVE  Curve(gr, asked, more, config)
<1>1. ASSUME NEW i \in asked, NEW j \in more \cup {i}, j <= i
      PROVE  /\ j \in passed \cup {i} /\ gr[i].at = fr[i].at /\ gr[j].at = fr[j].at
             /\ {k \in more : j <= k /\ k < i} = {k \in passed : j <= k /\ k < i}
  <2>1. i \in Int /\ i <= n /\ ~(n + 1 <= i) /\ ~(n + 1 < i)
    <3>1. i \in 1..n /\ n \in Nat
      OBVIOUS
    <3> QED
      BY <3>1
  <2>2. j # n + 1
    BY <1>1, <2>1
  <2>3. j \in passed \cup {i} /\ j \in 1..n /\ i \in 1..n
    BY <2>2
  <2> QED
    BY <2>1, <2>3
<1>2. ASSUME NEW i \in asked PROVE i \in more <=> i \in passed
  <2>1. i # n + 1
    OBVIOUS
  <2> QED
    BY <2>1
<1>3. ASSUME NEW i \in asked
      PROVE  (\A j \in more \cup {i} : j <= i =>
               PerSecond * (Cardinality({k \in more : j <= k /\ k < i}) + 1)
                    <= PerSecond * config.burst + config.sustained * (gr[i].at - gr[j].at))
             <=>
             (\A j \in passed \cup {i} : j <= i =>
               PerSecond * (Cardinality({k \in passed : j <= k /\ k < i}) + 1)
                    <= PerSecond * config.burst + config.sustained * (fr[i].at - fr[j].at))
  <2>1. \A j \in passed \cup {i} : j \in more \cup {i}
    OBVIOUS
  <2> QED
    BY <1>1, <2>1
<1> QED
  BY <1>2, <1>3 DEF Curve

LEMMA LeastLeftBefore ==
  ASSUME NEW fr, NEW gr, NEW n \in Nat, \A j \in 1..n : gr[j] = fr[j],
         NEW passed \in SUBSET (1..n), NEW config, NEW tokens, NEW now,
         LeastLeft(tokens, now, fr, passed, config)
  PROVE  LeastLeft(tokens, now, gr, passed, config)
<1>1. \A j \in passed : gr[j].at = fr[j].at
  OBVIOUS
<1>2. \A j \in passed : Gained(gr, config, j, now) = Gained(fr, config, j, now)
  BY <1>1 DEF Gained
<1> QED
  BY <1>1, <1>2 DEF LeastLeft

(* A bucket that is not asked knows what it knew.                          *)
LEMMA NotAsked ==
  ASSUME NEW fr \in Seq(Frame), NEW f \in Frame, NEW b, NEW asked, NEW passed, NEW config,
         BucketKnows(b, fr, asked, passed, config)
  PROVE  BucketKnows(b, Append(fr, f), asked, passed, config)
<1> DEFINE gr == Append(fr, f)
           n == Len(fr)
<1>1. /\ n \in Nat /\ Len(gr) = n + 1 /\ \A j \in 1..n : gr[j] = fr[j]
  BY FramesBefore
<1>2. /\ asked \in SUBSET (1..n) /\ passed \in SUBSET asked
      /\ Curve(fr, asked, passed, config)
      /\ LeastLeft(b.tokens, b.at, fr, passed, config)
  BY DEF BucketKnows
<1> HIDE DEF gr, n
<1>3. passed \in SUBSET (1..n) /\ passed \in SUBSET (passed \cup {n + 1}) /\ passed \subseteq passed
      /\ asked \in SUBSET (1..n + 1)
  BY <1>1, <1>2
<1>4. Curve(gr, asked, passed, config)
  BY <1>1, <1>2, <1>3, CurveBefore
<1>5. LeastLeft(b.tokens, b.at, gr, passed, config)
  BY <1>1, <1>2, <1>3, LeastLeftBefore
<1> QED
  BY <1>1, <1>2, <1>3, <1>4, <1>5 DEF BucketKnows, gr

(* A bucket that is asked passes the frame exactly when the curve has room *)
(* for it, and goes on knowing what is left.                               *)
LEMMA Asked ==
  ASSUME NEW fr \in Seq(Frame), NEW f \in Frame, NEW b, NEW asked, NEW passed,
         NEW config \in BucketConfig,
         BucketKnows(b, fr, asked, passed, config), b.at <= f.at
  PROVE  LET t == Take(b, config, f.at)
             n == Len(fr) + 1
         IN  /\ t.at = f.at /\ t.taken \in BOOLEAN
             /\ BucketKnows(t, Append(fr, f), asked \cup {n},
                            IF t.taken THEN passed \cup {n} ELSE passed, config)
<1> DEFINE t == Take(b, config, f.at)
           gr == Append(fr, f)
           n == Len(fr)
           r == Capped(b.tokens + (f.at - b.at) * config.sustained, config.burst * PerSecond)
           most == PerSecond * config.burst
<1>1. /\ n \in Nat /\ Len(gr) = n + 1 /\ gr[n + 1] = f
      /\ \A j \in 1..n : gr[j] = fr[j] /\ fr[j].at \in Nat
  BY FramesBefore
<1>2. /\ asked \in SUBSET (1..n) /\ passed \in SUBSET asked
      /\ Curve(fr, asked, passed, config)
      /\ LeastLeft(b.tokens, b.at, fr, passed, config)
  BY DEF BucketKnows
<1>3. f.at \in Nat /\ b.at \in Nat /\ b.at <= f.at /\ b.tokens \in Nat
      /\ config.sustained \in Nat /\ config.burst \in Nat /\ PerSecond \in Nat /\ PerSecond > 0
      /\ most \in Nat
  <2>1. f.at \in Nat
    BY DEF Frame
  <2>2. b.at \in Nat /\ b.tokens \in Nat
    BY <1>2 DEF LeastLeft
  <2>3. config.sustained \in Nat /\ config.burst \in Nat /\ PerSecond \in Nat /\ PerSecond > 0
    BY FrameLimitsAssumption DEF BucketConfig
  <2> QED
    BY <2>1, <2>2, <2>3
<1>4. /\ t.at = f.at
      /\ t.taken \in BOOLEAN /\ (t.taken <=> r >= PerSecond)
      /\ r >= PerSecond => t.tokens = r - PerSecond
      /\ ~(r >= PerSecond) => t.tokens = r
  <2> DEFINE elapsed == IF f.at > b.at THEN f.at - b.at ELSE 0
             e == Capped(b.tokens + elapsed * config.sustained, config.burst * PerSecond)
  <2>1. t = [tokens |-> IF e >= PerSecond THEN e - PerSecond ELSE e, at |-> f.at,
             taken |-> e >= PerSecond]
    BY DEF Take
  <2>2. elapsed = f.at - b.at
    BY <1>3
  <2>3. e = r
    BY <2>2
  <2> HIDE DEF e, r
  <2>4. t.at = f.at /\ t.taken = (e >= PerSecond)
        /\ t.tokens = IF e >= PerSecond THEN e - PerSecond ELSE e
    BY <2>1
  <2> HIDE DEF t
  <2>5. /\ r >= PerSecond => t.tokens = r - PerSecond
        /\ ~(r >= PerSecond) => t.tokens = r
    BY <2>3, <2>4
  <2>6. t.taken = (r >= PerSecond)
    BY <2>3, <2>4, Zenon
  <2>7. t.taken \in BOOLEAN
    BY <2>6, <1>3
  <2>8. t.taken <=> r >= PerSecond
    BY <2>6, Zenon
  <2> QED
    BY <2>4, <2>5, <2>7, <2>8, Zenon
<1> HIDE DEF gr, n
<1>5. passed \in SUBSET (1..n) /\ \A j \in passed : gr[j].at \in Nat
  BY <1>1, <1>2
<1>6. LeastLeft(b.tokens, b.at, gr, passed, config)
  BY <1>1, <1>2, <1>5, LeastLeftBefore
<1>7. LeastLeft(r, f.at, gr, passed, config)
  BY <1>1, <1>3, <1>5, <1>6, RefilledIsLeast
<1> HIDE DEF t, r
<1>8. r \in Nat /\ r <= most
  BY <1>7 DEF LeastLeft
<1>9. gr[n + 1].at = f.at
  BY <1>1
<1> DEFINE Room(more) == \A j \in more \cup {n + 1} : j <= n + 1 =>
               PerSecond * (Cardinality({k \in more : j <= k /\ k < n + 1}) + 1)
                   <= PerSecond * config.burst + config.sustained * (gr[n + 1].at - gr[j].at)
<1>10. PerSecond <= r <=> Room(passed)
  BY <1>1, <1>3, <1>5, <1>7, <1>9, TokenIsRoom
<1>11. asked \cup {n + 1} \in SUBSET (1..n + 1) /\ ~(n + 1 < n + 1) /\ n + 1 \notin passed
  BY <1>1, <1>2
<1>12. ASSUME r >= PerSecond
       PROVE  t.taken /\ BucketKnows(t, gr, asked \cup {n + 1}, passed \cup {n + 1}, config)
  <2> DEFINE more == passed \cup {n + 1}
  <2>1. t.taken /\ t.taken \in BOOLEAN /\ t.at = f.at /\ t.tokens = r - PerSecond
    BY <1>4, <1>12, Zenon
  <2>2. more \in SUBSET (asked \cup {n + 1}) /\ more \in SUBSET (passed \cup {n + 1}) /\ passed \subseteq more
    BY <1>2
  <2>3. Curve(gr, asked, more, config)
    <3> HIDE DEF more
    <3>1. \A j \in 1..n : gr[j] = fr[j]
      BY <1>1
    <3> QED
      BY <1>1, <1>2, <2>2, <3>1, CurveBefore
  <2>4. Room(more)
    <3>1. Room(passed)
      BY <1>3, <1>8, <1>10, <1>12
    <3>2. more \cup {n + 1} = passed \cup {n + 1}
      OBVIOUS
    <3>3. \A j : {k \in more : j <= k /\ k < n + 1} = {k \in passed : j <= k /\ k < n + 1}
      BY <1>11
    <3> QED
      BY <3>1, <3>2, <3>3
  <2>5. Curve(gr, asked \cup {n + 1}, more, config)
    <3>1. n + 1 \in more
      OBVIOUS
    <3> HIDE DEF more
    <3> QED
      <4>1. n + 1 \in more <=> Room(more)
        BY <2>4, <3>1
      <4>2. Curve(gr, {n + 1}, more, config)
        BY <4>1, Zenon DEF Curve
      <4> QED
        BY <2>3, <4>2, Zenon DEF Curve
  <2>6. ASSUME NEW j \in passed
        PROVE  /\ Spent(more, j) = Spent(passed, j) + PerSecond
               /\ Spent(passed, j) \in Nat /\ Gained(gr, config, j, f.at) \in Int
    <3>1. j \in 1..n + 1 /\ j <= n /\ j \in Int
      BY <1>1, <1>5
    <3>2. f.at - gr[j].at \in Int
      BY <1>3, <1>5
    <3>3. Gained(gr, config, j, f.at) \in Int
      BY <1>3, <3>2 DEF Gained
    <3> QED
      BY <1>1, <1>5, <3>1, <3>3, SpentOneMore, SpentIsNatural
  <2>7. Spent(more, n + 1) = PerSecond /\ Gained(gr, config, n + 1, f.at) = most
    <3>1. n + 1 \in 1..n + 1
      BY <1>1
    <3>2. Spent(more, n + 1) = PerSecond
      BY <1>1, <1>5, <3>1, SpentOneMore
    <3>3. config.sustained * (f.at - gr[n + 1].at) = 0
      BY <1>3, <1>9
    <3> QED
      BY <1>3, <3>2, <3>3 DEF Gained
  <2> HIDE DEF most
  <2>8. t.tokens \in Nat /\ t.tokens <= most /\ t.tokens + PerSecond = r
    BY <1>3, <1>8, <1>12, <2>1
  <2>9. ASSUME NEW j \in more
        PROVE  gr[j].at <= f.at /\ t.tokens + Spent(more, j) <= Gained(gr, config, j, f.at)
    <3>1. CASE j \in passed
      <4>1. gr[j].at <= f.at /\ r + Spent(passed, j) <= Gained(gr, config, j, f.at)
        BY <1>7, <3>1 DEF LeastLeft
      <4>2. /\ Spent(more, j) = Spent(passed, j) + PerSecond
            /\ Spent(passed, j) \in Nat /\ Gained(gr, config, j, f.at) \in Int
        BY <2>6, <3>1
      <4> QED
        BY <1>3, <1>8, <2>8, <4>1, <4>2
    <3>2. CASE j = n + 1
      BY <1>3, <1>8, <1>9, <2>7, <2>8, <3>2
    <3> QED
      BY <3>1, <3>2
  <2>10. \E j \in more : t.tokens + Spent(more, j) = Gained(gr, config, j, f.at)
    <3>1. CASE r = most
      <4>1. t.tokens + Spent(more, n + 1) = Gained(gr, config, n + 1, f.at)
        BY <2>7, <2>8, <3>1
      <4> QED
        BY <4>1
    <3>2. CASE r # most
      <4>1. PICK j \in passed : r + Spent(passed, j) = Gained(gr, config, j, f.at)
        BY <1>7, <3>2 DEF LeastLeft, most
      <4>2. /\ Spent(more, j) = Spent(passed, j) + PerSecond
            /\ Spent(passed, j) \in Nat /\ Gained(gr, config, j, f.at) \in Int
        BY <2>6
      <4>3. t.tokens + Spent(more, j) = Gained(gr, config, j, f.at)
        BY <1>3, <1>8, <2>8, <4>1, <4>2
      <4> QED
        BY <4>3
    <3> QED
      BY <3>1, <3>2
  <2>11. LeastLeft(t.tokens, t.at, gr, more, config)
    <3> HIDE DEF more
    <3> QED
      BY <1>3, <2>1, <2>8, <2>9, <2>10 DEF LeastLeft, most
  <2>12. BucketKnows(t, gr, asked \cup {n + 1}, more, config)
    BY <1>1, <1>11, <2>2, <2>5, <2>11 DEF BucketKnows
  <2> QED
    BY <2>1, <2>12, Zenon DEF more
<1>13. ASSUME ~(r >= PerSecond)
       PROVE  ~t.taken /\ BucketKnows(t, gr, asked \cup {n + 1}, passed, config)
  <2>1. ~t.taken /\ t.taken \in BOOLEAN /\ t.at = f.at /\ t.tokens = r
    BY <1>4, <1>13, Zenon
  <2>2. passed \in SUBSET (passed \cup {n + 1}) /\ passed \subseteq passed
    OBVIOUS
  <2>3. Curve(gr, asked, passed, config)
    BY <1>1, <1>2, <2>2, CurveBefore
  <2>4. ~Room(passed)
    BY <1>3, <1>8, <1>10, <1>13
  <2>5. Curve(gr, asked \cup {n + 1}, passed, config)
    <3>1. n + 1 \in passed <=> Room(passed)
      BY <1>11, <2>4
    <3>2. Curve(gr, {n + 1}, passed, config)
      BY <3>1, Zenon DEF Curve
    <3> QED
      BY <2>3, <3>2, Zenon DEF Curve
  <2>6. BucketKnows(t, gr, asked \cup {n + 1}, passed, config)
    BY <1>1, <1>2, <1>7, <1>11, <2>1, <2>5 DEF BucketKnows
  <2> QED
    BY <2>1, <2>6, Zenon
<1>14. BucketKnows(t, gr, asked \cup {n + 1}, IF t.taken THEN passed \cup {n + 1} ELSE passed, config)
  BY <1>12, <1>13, Zenon
<1> QED
  BY <1>4, <1>14, Zenon DEF t, gr, n


------------------------------------------------------------------------------
(* The strikes.                                                            *)

(* Induction, as a fact about sets: one that contains 0, and n + 1         *)
(* whenever it contains n, contains every natural number.                  *)
LEMMA NatSetInduction ==
  ASSUME NEW S, 0 \in S, \A n \in Nat : n \in S => n + 1 \in S
  PROVE  Nat \subseteq S
<1> DEFINE Below == {pair \in Nat \X Nat : pair[1] < pair[2]}
<1> SUFFICES ASSUME Nat \ S # {} PROVE FALSE
  OBVIOUS
<1>1. IsWellFoundedOn(Below, Nat)
  BY NatLessThanWellFounded DEF OpToRel
<1>2. PICK x \in Nat \ S : \A y \in Nat \ S : <<y, x>> \notin Below
  <2> HIDE DEF Below
  <2> QED
    BY <1>1, WFMin
<1>3. x - 1 \in Nat /\ <<x - 1, x>> \in Below /\ x - 1 + 1 = x
  OBVIOUS
<1> QED
  BY <1>2, <1>3

(* f is the function Recent chooses, for the first n of the strikes.       *)
IsKept(f, strikes, now, window, n) ==
    f = [m \in 0..n |->
           IF m = 0 THEN <<>>
           ELSE IF now - strikes[m] < window THEN Append(f[m - 1], strikes[m]) ELSE f[m - 1]]

LEMMA KeptExists ==
  ASSUME NEW strikes, NEW now, NEW window, NEW n \in Nat
  PROVE  \E f : IsKept(f, strikes, now, window, n)
<1> DEFINE Good == {m \in Nat : \E f : IsKept(f, strikes, now, window, m)}
           Next1(s, m) == IF now - strikes[m] < window THEN Append(s, strikes[m]) ELSE s
<1> HIDE DEF Next1
<1>0. ASSUME NEW f, NEW m
      PROVE  IsKept(f, strikes, now, window, m) <=>
             f = [k \in 0..m |-> IF k = 0 THEN <<>> ELSE Next1(f[k - 1], k)]
  <2>1. ASSUME NEW k
        PROVE  (IF k = 0 THEN <<>> ELSE IF now - strikes[k] < window
                  THEN Append(f[k - 1], strikes[k]) ELSE f[k - 1])
               = IF k = 0 THEN <<>> ELSE Next1(f[k - 1], k)
    BY DEF Next1
  <2> QED
    BY <2>1 DEF IsKept
<1>1. 0 \in Good
  <2> DEFINE f == [k \in 0..0 |-> <<>>]
  <2>1. f = [k \in 0..0 |-> IF k = 0 THEN <<>> ELSE Next1(f[k - 1], k)]
    OBVIOUS
  <2> HIDE DEF f
  <2> QED
    BY <1>0, <2>1
<1>2. ASSUME NEW m \in Nat, m \in Good PROVE m + 1 \in Good
  <2>1. PICK f : IsKept(f, strikes, now, window, m)
    BY <1>2
  <2> DEFINE g == [k \in 0..m + 1 |-> IF k = m + 1 THEN Next1(f[m], k) ELSE f[k]]
  <2>2. ASSUME NEW k \in 0..m + 1
        PROVE  g[k] = IF k = 0 THEN <<>> ELSE Next1(g[k - 1], k)
    <3>1. CASE k = m + 1
      <4>1. k - 1 = m /\ m \in 0..m + 1 /\ m # m + 1 /\ k # 0
        BY <3>1
      <4>2. g[m] = f[m] /\ g[k] = Next1(f[m], k)
        BY <3>1, <4>1
      <4> HIDE DEF g
      <4> QED
        BY <4>1, <4>2
    <3>2. CASE k # m + 1
      <4>1. k \in 0..m /\ g[k] = f[k]
        BY <3>2
      <4>2. f[k] = IF k = 0 THEN <<>> ELSE Next1(f[k - 1], k)
        BY <1>0, <2>1, <4>1
      <4>3. k # 0 => k - 1 \in 0..m + 1 /\ k - 1 # m + 1
        BY <4>1
      <4>4. k # 0 => g[k - 1] = f[k - 1]
        BY <4>3
      <4> HIDE DEF g
      <4> QED
        BY <4>1, <4>2, <4>4
    <3> QED
      BY <3>1, <3>2
  <2>3. g = [k \in 0..m + 1 |-> g[k]]
    OBVIOUS
  <2> HIDE DEF g
  <2>4. g = [k \in 0..m + 1 |-> IF k = 0 THEN <<>> ELSE Next1(g[k - 1], k)]
    BY <2>2, <2>3
  <2>5. IsKept(g, strikes, now, window, m + 1) /\ m + 1 \in Nat
    BY <1>0, <2>4
  <2> QED
    BY <2>5
<1> HIDE DEF Good
<1>3. n \in Good
  BY <1>1, <1>2, NatSetInduction
<1> QED
  BY <1>3 DEF Good

(* h names the places, among the first n, of the strikes that are kept.    *)
Names(h, kept, strikes, now, window, n) ==
    /\ kept \in Seq(Nat)
    /\ h \in [1..Len(kept) -> 1..n]
    /\ \A a, b \in 1..Len(kept) : h[a] = h[b] => a = b
    /\ \A a \in 1..Len(kept) : kept[a] = strikes[h[a]] /\ now - strikes[h[a]] < window
    /\ \A k \in 1..n : now - strikes[k] < window => \E a \in 1..Len(kept) : h[a] = k

LEMMA NamesOneMore ==
  ASSUME NEW h, NEW kept, NEW strikes \in Seq(Nat), NEW now, NEW window, NEW n \in Nat,
         n + 1 \in 1..Len(strikes), Names(h, kept, strikes, now, window, n)
  PROVE  \E g : Names(g, IF now - strikes[n + 1] < window THEN Append(kept, strikes[n + 1]) ELSE kept,
                      strikes, now, window, n + 1)
<1>1. /\ kept \in Seq(Nat) /\ h \in [1..Len(kept) -> 1..n]
      /\ \A a, b \in 1..Len(kept) : h[a] = h[b] => a = b
      /\ \A a \in 1..Len(kept) : kept[a] = strikes[h[a]] /\ now - strikes[h[a]] < window
      /\ \A k \in 1..n : now - strikes[k] < window => \E a \in 1..Len(kept) : h[a] = k
  BY DEF Names
<1>2. strikes[n + 1] \in Nat /\ Len(kept) \in Nat
  BY <1>1, ElementOfSeq, LenProperties
<1>3. CASE now - strikes[n + 1] < window
  <2> DEFINE l == Len(kept)
             more == Append(kept, strikes[n + 1])
             g == [a \in 1..l + 1 |-> IF a = l + 1 THEN n + 1 ELSE h[a]]
  <2>1. /\ more \in Seq(Nat) /\ Len(more) = l + 1 /\ more[l + 1] = strikes[n + 1]
        /\ \A a \in 1..l : more[a] = kept[a]
    BY <1>1, <1>2, AppendProperties
  <2>2. g[l + 1] = n + 1 /\ \A a \in 1..l : g[a] = h[a] /\ g[a] \in 1..n
    <3>1. l + 1 \in 1..l + 1 /\ \A a \in 1..l : a \in 1..l + 1 /\ a # l + 1
      BY <1>2
    <3>2. g[l + 1] = n + 1 /\ \A a \in 1..l : g[a] = h[a]
      BY <3>1
    <3>3. \A a \in 1..l : h[a] \in 1..n
      BY <1>1
    <3> HIDE DEF g
    <3> QED
      BY <3>2, <3>3
  <2>3. \A a \in 1..l + 1 : a \in 1..l \/ a = l + 1
    BY <1>2
  <2>4. \A k \in 1..n + 1 : k \in 1..n \/ k = n + 1
    OBVIOUS
  <2>5. g \in [1..l + 1 -> 1..n + 1]
    <3>1. 1..n \subseteq 1..n + 1 /\ n + 1 \in 1..n + 1
      OBVIOUS
    <3>2. \A a \in 1..l + 1 : g[a] \in 1..n + 1
      <4> HIDE DEF g
      <4> QED
        BY <2>2, <2>3, <3>1
    <3> QED
      BY <3>2
  <2>6. l + 1 \in 1..l + 1 /\ \A a \in 1..l : a \in 1..l + 1
    BY <1>2
  <2>7. \A k \in 1..n : k # n + 1
    OBVIOUS
  <2> HIDE DEF g, more, l
  <2>8. \A a, b \in 1..l + 1 : g[a] = g[b] => a = b
    BY <1>1, <2>2, <2>3, <2>7 DEF l
  <2>9. \A a \in 1..l + 1 : more[a] = strikes[g[a]] /\ now - strikes[g[a]] < window
    BY <1>1, <1>3, <2>1, <2>2, <2>3 DEF l
  <2>10. \A k \in 1..n + 1 : now - strikes[k] < window => \E a \in 1..l + 1 : g[a] = k
    BY <1>1, <2>2, <2>4, <2>6 DEF l
  <2>11. Names(g, more, strikes, now, window, n + 1)
    BY <2>1, <2>5, <2>8, <2>9, <2>10 DEF Names
  <2> QED
    BY <1>3, <2>11 DEF more
<1>4. CASE ~(now - strikes[n + 1] < window)
  <2>1. \A k \in 1..n + 1 : k \in 1..n \/ k = n + 1
    OBVIOUS
  <2>2. h \in [1..Len(kept) -> 1..n + 1]
    BY <1>1
  <2>3. \A k \in 1..n + 1 : now - strikes[k] < window => \E a \in 1..Len(kept) : h[a] = k
    BY <1>1, <1>4, <2>1
  <2>4. Names(h, kept, strikes, now, window, n + 1)
    BY <1>1, <2>2, <2>3 DEF Names
  <2> QED
    BY <1>4, <2>4
<1> QED
  BY <1>3, <1>4

(* What Recent keeps are the strikes within the window, each once.         *)
LEMMA RecentKeepsTheWindow ==
  ASSUME NEW strikes \in Seq(Nat), NEW now, NEW window
  PROVE  \E h : Names(h, Recent(strikes, now, window), strikes, now, window, Len(strikes))
<1> DEFINE l == Len(strikes)
           f == CHOOSE f : IsKept(f, strikes, now, window, l)
           Good == {n \in Nat : n <= l => \E h : Names(h, f[n], strikes, now, window, n)}
<1>0. l \in Nat
  BY LenProperties
<1>1. IsKept(f, strikes, now, window, l)
  BY <1>0, KeptExists, Zenon
<1>2. Recent(strikes, now, window) = f[l]
  BY DEF Recent, IsKept
<1> HIDE DEF f
<1>3. /\ f[0] = <<>>
      /\ \A m \in 1..l : f[m] = IF now - strikes[m] < window
                                THEN Append(f[m - 1], strikes[m]) ELSE f[m - 1]
  <2>1. 0 \in 0..l /\ \A m \in 1..l : m \in 0..l /\ m # 0
    BY <1>0
  <2> HIDE DEF l
  <2> QED
    BY <1>1, <2>1 DEF IsKept
<1>4. 0 \in Good
  <2>1. <<>> \in Seq(Nat) /\ Len(<<>>) = 0 /\ 1..0 = {}
    OBVIOUS
  <2>2. [x \in {} |-> 0] \in [1..0 -> 1..0]
    OBVIOUS
  <2>3. Names([x \in {} |-> 0], <<>>, strikes, now, window, 0)
    BY <2>1, <2>2 DEF Names
  <2> QED
    BY <1>3, <2>3
<1>5. ASSUME NEW n \in Nat, n \in Good PROVE n + 1 \in Good
  <2> SUFFICES ASSUME n + 1 <= l PROVE \E h : Names(h, f[n + 1], strikes, now, window, n + 1)
    OBVIOUS
  <2>1. n + 1 \in 1..l /\ n <= l /\ n + 1 - 1 = n
    BY <1>0
  <2>2. PICK h : Names(h, f[n], strikes, now, window, n)
    BY <1>5, <2>1
  <2>3. f[n + 1] = IF now - strikes[n + 1] < window THEN Append(f[n], strikes[n + 1]) ELSE f[n]
    BY <1>3, <2>1
  <2> QED
    BY <2>1, <2>2, <2>3, NamesOneMore
<1> HIDE DEF Good
<1>6. l \in Good
  BY <1>0, <1>4, <1>5, NatSetInduction
<1>7. \E h : Names(h, f[l], strikes, now, window, l)
  BY <1>0, <1>6 DEF Good
<1> QED
  BY <1>2, <1>7


(* The strikes are refused frames, each once, and among them are all that  *)
(* are still within the window.                                            *)
StrikesKnown(strikes, fr, struck, now, window) ==
    /\ strikes \in Seq(Nat)
    /\ \E g \in [1..Len(strikes) -> struck] :
         /\ \A a, b \in 1..Len(strikes) : g[a] = g[b] => a = b
         /\ \A a \in 1..Len(strikes) : strikes[a] = fr[g[a]].at
         /\ \A j \in struck : now - fr[j].at < window => \E a \in 1..Len(strikes) : g[a] = j

(* Those of the frames that are within the window of frame i.              *)
Within(S, fr, i, window) == {j \in S : j <= i /\ fr[i].at - fr[j].at < window}

(* And now, as the last frame is refused, they are no others.              *)
StrikesCounted(strikes, fr, struck, n, now, window) ==
    /\ StrikesKnown(strikes, fr, struck, now, window)
    /\ Len(strikes) = Cardinality(Within(struck, fr, n, window))

(* A frame that is allowed is no strike, and the window only moves on.     *)
LEMMA NotStruck ==
  ASSUME NEW fr \in Seq(Frame), NEW f \in Frame, NEW struck \in SUBSET (1..Len(fr)),
         NEW now \in Nat, now <= f.at, NEW window \in Nat, NEW strikes,
         StrikesKnown(strikes, fr, struck, now, window)
  PROVE  StrikesKnown(strikes, Append(fr, f), struck, f.at, window)
<1> DEFINE gr == Append(fr, f)
<1>1. \A j \in 1..Len(fr) : gr[j] = fr[j] /\ fr[j].at \in Nat
  BY FramesBefore
<1>2. f.at \in Nat
  BY DEF Frame
<1> HIDE DEF gr
<1>3. ASSUME NEW j \in struck PROVE gr[j].at = fr[j].at /\ (f.at - gr[j].at < window => now - fr[j].at < window)
  <2>1. gr[j] = fr[j] /\ fr[j].at \in Nat
    BY <1>1
  <2> QED
    BY <1>2, <2>1
<1>4. PICK g \in [1..Len(strikes) -> struck] :
         /\ \A a, b \in 1..Len(strikes) : g[a] = g[b] => a = b
         /\ \A a \in 1..Len(strikes) : strikes[a] = fr[g[a]].at
         /\ \A j \in struck : now - fr[j].at < window => \E a \in 1..Len(strikes) : g[a] = j
  BY DEF StrikesKnown
<1>5. \A a \in 1..Len(strikes) : strikes[a] = gr[g[a]].at
  BY <1>3, <1>4
<1>6. \A j \in struck : f.at - gr[j].at < window => \E a \in 1..Len(strikes) : g[a] = j
  BY <1>3, <1>4
<1>7. strikes \in Seq(Nat)
  BY DEF StrikesKnown
<1>8. StrikesKnown(strikes, gr, struck, f.at, window)
  BY <1>4, <1>5, <1>6, <1>7 DEF StrikesKnown
<1> QED
  BY <1>8 DEF gr

(* One that is refused is, and the strikes are then exactly the refused    *)
(* frames within the window.                                               *)
LEMMA StruckKnows ==
  ASSUME NEW fr \in Seq(Frame), NEW f \in Frame, NEW struck \in SUBSET (1..Len(fr)),
         NEW now \in Nat, now <= f.at, NEW window \in Nat \ {0}, NEW strikes,
         StrikesKnown(strikes, fr, struck, now, window),
         NEW s, s = Append(Recent(strikes, f.at, window), f.at),
         NEW n, n = Len(fr) + 1, NEW gr, gr = Append(fr, f)
  PROVE  StrikesCounted(s, gr, struck \cup {n}, n, f.at, window)
<1> DEFINE kept == Recent(strikes, f.at, window)
           c == Len(kept)
           W == Within(struck \cup {n}, gr, n, window)
<1>1. /\ n \in Nat /\ gr[n] = f /\ f.at \in Nat
      /\ \A j \in 1..Len(fr) : gr[j] = fr[j] /\ fr[j].at \in Nat /\ j # n /\ j <= n
  <2>1. Len(fr) \in Nat /\ gr[Len(fr) + 1] = f /\ \A j \in 1..Len(fr) : gr[j] = fr[j] /\ fr[j].at \in Nat
    BY FramesBefore
  <2>2. f.at \in Nat
    BY DEF Frame
  <2> QED
    BY <2>1, <2>2
<1>2. ASSUME NEW j \in struck PROVE gr[j].at = fr[j].at /\ (f.at - gr[j].at < window => now - fr[j].at < window)
  <2>1. gr[j] = fr[j] /\ fr[j].at \in Nat
    BY <1>1
  <2>2. PICK x \in Nat, at \in Nat : x = fr[j].at /\ at = f.at
    BY <1>1, <2>1, Zenon
  <2>3. now <= at
    BY <2>2
  <2>4. at - x < window => now - x < window
    BY <2>3
  <2> QED
    BY <2>1, <2>2, <2>4, Zenon
<1>3. PICK g \in [1..Len(strikes) -> struck] :
         /\ \A a, b \in 1..Len(strikes) : g[a] = g[b] => a = b
         /\ \A a \in 1..Len(strikes) : strikes[a] = fr[g[a]].at
         /\ \A j \in struck : now - fr[j].at < window => \E a \in 1..Len(strikes) : g[a] = j
  BY DEF StrikesKnown
<1>4. strikes \in Seq(Nat)
  BY DEF StrikesKnown
<1>5. PICK h : Names(h, kept, strikes, f.at, window, Len(strikes))
  BY <1>4, RecentKeepsTheWindow
<1>6. /\ kept \in Seq(Nat)
      /\ h \in [1..c -> 1..Len(strikes)]
      /\ \A a, b \in 1..c : h[a] = h[b] => a = b
      /\ \A a \in 1..c : kept[a] = strikes[h[a]] /\ f.at - strikes[h[a]] < window
      /\ \A k \in 1..Len(strikes) : f.at - strikes[k] < window => \E a \in 1..c : h[a] = k
  BY <1>5 DEF Names
<1> HIDE DEF kept
<1>7. /\ c \in Nat /\ s \in Seq(Nat) /\ Len(s) = c + 1 /\ s[c + 1] = f.at
      /\ \A a \in 1..c : s[a] = kept[a]
  <2>1. s = Append(kept, f.at)
    BY DEF kept
  <2> QED
    BY <1>1, <1>6, <2>1, AppendProperties, LenProperties
<1> HIDE DEF c
<1> DEFINE p == [a \in 1..c + 1 |-> IF a = c + 1 THEN n ELSE g[h[a]]]
<1>8. p[c + 1] = n /\ \A a \in 1..c : p[a] = g[h[a]]
  <2>1. c + 1 \in 1..c + 1 /\ \A a \in 1..c : a \in 1..c + 1 /\ a # c + 1
    BY <1>7
  <2> QED
    BY <2>1
<1>9. \A a \in 1..c : h[a] \in 1..Len(strikes) /\ g[h[a]] \in struck
  BY <1>3, <1>6
<1>10. \A a \in 1..c + 1 : a \in 1..c \/ a = c + 1
  BY <1>7
<1>11. p \in [1..c + 1 -> struck \cup {n}]
  BY <1>9, <1>10
<1> HIDE DEF p
<1>12. \A j \in struck : j # n /\ j \in 1..Len(fr) /\ j <= n
  BY <1>1
<1>13. \A a, b \in 1..c + 1 : p[a] = p[b] => a = b
  <2>1. ASSUME NEW a \in 1..c, NEW b \in 1..c, p[a] = p[b] PROVE a = b
    <3>1. g[h[a]] = g[h[b]]
      BY <1>8, <2>1
    <3>2. h[a] = h[b]
      BY <1>3, <1>9, <3>1
    <3> QED
      BY <1>6, <3>2
  <2>2. ASSUME NEW a \in 1..c PROVE p[a] # p[c + 1]
    BY <1>8, <1>9, <1>12
  <2>3. ASSUME NEW a \in 1..c + 1, NEW b \in 1..c + 1, p[a] = p[b] PROVE a = b
    <3>1. (a \in 1..c \/ a = c + 1) /\ (b \in 1..c \/ b = c + 1)
      BY <1>10
    <3> QED
      BY <2>1, <2>2, <2>3, <3>1
  <2> QED
    BY <2>3
<1>14. \A a \in 1..c + 1 : s[a] = gr[p[a]].at /\ f.at - gr[p[a]].at < window
  <2>1. ASSUME NEW a \in 1..c PROVE s[a] = gr[p[a]].at /\ f.at - gr[p[a]].at < window
    <3>1. s[a] = strikes[h[a]] /\ strikes[h[a]] = fr[g[h[a]]].at /\ f.at - strikes[h[a]] < window
      BY <1>3, <1>6, <1>7, <1>9
    <3>2. gr[g[h[a]]].at = fr[g[h[a]]].at
      BY <1>2, <1>9
    <3> QED
      BY <1>8, <3>1, <3>2
  <2>2. s[c + 1] = gr[p[c + 1]].at /\ f.at - gr[p[c + 1]].at < window
    BY <1>1, <1>7, <1>8
  <2> QED
    BY <1>10, <2>1, <2>2
<1>15. \A j \in struck \cup {n} : f.at - gr[j].at < window => \E a \in 1..c + 1 : p[a] = j
  <2>1. ASSUME NEW j \in struck, f.at - gr[j].at < window PROVE \E a \in 1..c + 1 : p[a] = j
    <3>1. now - fr[j].at < window /\ gr[j].at = fr[j].at
      BY <1>2, <2>1
    <3>2. PICK k \in 1..Len(strikes) : g[k] = j
      BY <1>3, <3>1
    <3>3. f.at - strikes[k] < window
      BY <1>3, <2>1, <3>1, <3>2
    <3>4. PICK a \in 1..c : h[a] = k
      BY <1>6, <3>3
    <3>5. a \in 1..c + 1
      BY <1>7
    <3>6. p[a] = g[h[a]]
      BY <1>8
    <3>7. p[a] = j
      BY <3>2, <3>4, <3>6
    <3> QED
      BY <3>5, <3>7
  <2>2. c + 1 \in 1..c + 1
    BY <1>7
  <2> QED
    BY <1>8, <2>1, <2>2
<1>16. StrikesKnown(s, gr, struck \cup {n}, f.at, window)
  <2>1. 1..Len(s) = 1..c + 1 /\ s \in Seq(Nat)
    BY <1>7
  <2>2. /\ p \in [1..Len(s) -> struck \cup {n}]
        /\ \A a, b \in 1..Len(s) : p[a] = p[b] => a = b
        /\ \A a \in 1..Len(s) : s[a] = gr[p[a]].at
        /\ \A j \in struck \cup {n} : f.at - gr[j].at < window => \E a \in 1..Len(s) : p[a] = j
    BY <1>11, <1>13, <1>14, <1>15, <2>1, Zenon
  <2> QED
    BY <2>1, <2>2, Zenon DEF StrikesKnown
<1>17. Cardinality(W) = c + 1
  <2>1. \A a \in 1..c + 1 : p[a] \in W
    <3>1. \A j \in struck \cup {n} : j <= n
      BY <1>1, <1>12
    <3>2. ASSUME NEW a \in 1..c + 1 PROVE p[a] \in struck \cup {n} /\ f.at - gr[p[a]].at < window
      BY <1>11, <1>14
    <3> QED
      BY <1>1, <3>1, <3>2 DEF Within
  <2>2. \A j \in W : \E a \in 1..c + 1 : p[a] = j
    BY <1>1, <1>15 DEF Within
  <2>3. p = [a \in 1..c + 1 |-> p[a]]
    BY <1>11
  <2> HIDE DEF W
  <2>4. p \in [1..c + 1 -> W]
    BY <2>1, <2>3
  <2>5. p \in Bijection(1..c + 1, W)
    BY <1>13, <2>2, <2>4 DEF Bijection, Injection, Surjection, IsInjective
  <2>6. ExistsBijection(1..c + 1, W)
    BY <2>5 DEF ExistsBijection
  <2>7. c + 1 \in Nat
    BY <1>7
  <2> QED
    BY <2>6, <2>7, FS_CountingElements
<1> QED
  BY <1>7, <1>16, <1>17 DEF StrikesCounted


------------------------------------------------------------------------------
(* The limiter.                                                            *)

AllowedBy(verdicts) == {i \in 1..Len(verdicts) : verdicts[i] = "allow"}
Typed(fr, type, S) == {i \in S : fr[i].type = type}
LatestAt(fr) == IF fr = <<>> THEN 0 ELSE fr[Len(fr)].at

RefusalsClose(verdicts, fr, struck) ==
    \A i \in struck :
        verdicts[i] = "close" <=>
            Cardinality(Within(struck, fr, i, CheckedLimits.window)) >= CheckedLimits.strikeLimit

StrikesTell(verdicts, strikes, fr, now) ==
    LET struck == 1..Len(fr) \ AllowedBy(verdicts)
    IN  /\ verdicts \in Seq({"allow", "limit", "close"}) /\ Len(verdicts) = Len(fr)
        /\ StrikesKnown(strikes, fr, struck, now, CheckedLimits.window)
        /\ RefusalsClose(verdicts, fr, struck)

KnowsAll(b, fr, asked) == BucketKnows(b, fr, 1..Len(fr), asked, CheckedLimits.global)
KnowsType(b, fr, type, asked, allowed) ==
    BucketKnows(b, fr, Typed(fr, type, asked), Typed(fr, type, allowed), CheckedLimits.bucket[type])
TypesKnow(byType, fr, asked, allowed) ==
    \A type \in FrameType : KnowsType(byType[type], fr, type, asked, allowed)

BucketsKnow(global, byType, fr, allowed) ==
    \E asked \in SUBSET (1..Len(fr)) :
        /\ allowed \subseteq asked
        /\ KnowsAll(global, fr, asked)
        /\ TypesKnow(byType, fr, asked, allowed)

(* What the limiter knows of the frames it has seen.                       *)
LimiterKnows(l, fr) ==
    /\ l \in Limiter /\ fr \in Seq(Frame)
    /\ l.global.at <= LatestAt(fr)
    /\ \A type \in FrameType : l.byType[type].at <= LatestAt(fr)
    /\ BucketsKnow(l.global, l.byType, fr, AllowedBy(l.verdicts))
    /\ StrikesTell(l.verdicts, l.strikes, fr, LatestAt(fr))

(* What CheckFrame does, field by field.                                   *)
CheckedTo(r, l, type, g, o, s, v) ==
    IF ~g.taken
    THEN r = [global |-> g, byType |-> l.byType, strikes |-> s, verdicts |-> Append(l.verdicts, v)]
    ELSE IF ~o.taken
    THEN r = [global |-> g, byType |-> [l.byType EXCEPT ![type] = o],
              strikes |-> s, verdicts |-> Append(l.verdicts, v)]
    ELSE r = [global |-> g, byType |-> [l.byType EXCEPT ![type] = o],
              strikes |-> l.strikes, verdicts |-> Append(l.verdicts, "allow")]

LEMMA Checked ==
  ASSUME NEW limits, NEW l \in Limiter, NEW type \in FrameType, NEW now,
         NEW g, g = Take(l.global, limits.global, now), g.taken \in BOOLEAN,
         NEW o, o = Take(l.byType[type], limits.bucket[type], now), o.taken \in BOOLEAN,
         NEW s, Longer(s, Recent(l.strikes, now, limits.window), now),
         NEW v, v \in {"close", "limit"}, v = "close" <=> Len(s) >= limits.strikeLimit,
         NEW r, r = CheckFrame(limits, l, type, now)
  PROVE  CheckedTo(r, l, type, g, o, s, v)
<1> USE DEF Longer
<1> DEFINE asked == [l EXCEPT !.global = g]
           both == [asked EXCEPT !.byType[type] = o]
           allow == [both EXCEPT !.verdicts = Append(@, "allow")]
<1>1. l = [global |-> l.global, byType |-> l.byType, strikes |-> l.strikes, verdicts |-> l.verdicts]
  BY DEF Limiter
<1>2. asked = [global |-> g, byType |-> l.byType, strikes |-> l.strikes, verdicts |-> l.verdicts]
  BY <1>1
<1>3. both = [global |-> g, byType |-> [l.byType EXCEPT ![type] = o],
              strikes |-> l.strikes, verdicts |-> l.verdicts]
  <2> HIDE DEF asked
  <2> QED
    BY <1>2
<1>4. allow = [global |-> g, byType |-> [l.byType EXCEPT ![type] = o],
               strikes |-> l.strikes, verdicts |-> Append(l.verdicts, "allow")]
  <2> DEFINE w == Append(l.verdicts, "allow")
  <2>1. both.verdicts = l.verdicts
    BY <1>3
  <2>2. allow = [both EXCEPT !.verdicts = w]
    BY <2>1
  <2> HIDE DEF both, allow, w
  <2>3. allow = [global |-> g, byType |-> [l.byType EXCEPT ![type] = o],
                 strikes |-> l.strikes, verdicts |-> w]
    BY <1>3, <2>2
  <2> QED
    BY <2>3 DEF w
<1>5. CheckFrame(limits, l, type, now) =
        CASE ~g.taken -> Struck(limits, asked, now)
          [] g.taken /\ ~o.taken -> Struck(limits, both, now)
          [] g.taken /\ o.taken -> allow
  BY DEF CheckFrame
<1> HIDE DEF asked, both, allow
<1>6. Struck(limits, asked, now) =
        [global |-> g, byType |-> l.byType, strikes |-> s, verdicts |-> Append(l.verdicts, v)]
  <2> DEFINE w == Append(l.verdicts, v)
  <2>1. asked.verdicts = l.verdicts /\ asked.strikes = l.strikes
    BY <1>2
  <2>2. Struck(limits, asked, now) = [asked EXCEPT !.strikes = s, !.verdicts = w]
    BY <2>1 DEF Struck
  <2> HIDE DEF w
  <2>3. Struck(limits, asked, now)
          = [global |-> g, byType |-> l.byType, strikes |-> s, verdicts |-> w]
    BY <1>2, <2>2
  <2> QED
    BY <2>3 DEF w
<1>7. Struck(limits, both, now) =
        [global |-> g, byType |-> [l.byType EXCEPT ![type] = o],
         strikes |-> s, verdicts |-> Append(l.verdicts, v)]
  <2> DEFINE w == Append(l.verdicts, v)
  <2>1. both.verdicts = l.verdicts /\ both.strikes = l.strikes
    BY <1>3
  <2>2. Struck(limits, both, now) = [both EXCEPT !.strikes = s, !.verdicts = w]
    BY <2>1 DEF Struck
  <2> HIDE DEF w
  <2>3. Struck(limits, both, now)
          = [global |-> g, byType |-> [l.byType EXCEPT ![type] = o], strikes |-> s, verdicts |-> w]
    BY <1>3, <2>2
  <2> QED
    BY <2>3 DEF w
<1> QED
  BY <1>4, <1>5, <1>6, <1>7, Zenon DEF CheckedTo

(* One more verdict.                                                       *)
LEMMA AllowedOneMore ==
  ASSUME NEW verdicts \in Seq({"allow", "limit", "close"}), NEW v \in {"allow", "limit", "close"},
         NEW n, n = Len(verdicts) + 1
  PROVE  /\ Append(verdicts, v) \in Seq({"allow", "limit", "close"})
         /\ Len(Append(verdicts, v)) = n
         /\ \A i \in 1..Len(verdicts) : Append(verdicts, v)[i] = verdicts[i]
         /\ Append(verdicts, v)[n] = v
         /\ AllowedBy(verdicts) \in SUBSET (1..Len(verdicts))
         /\ v = "allow" => AllowedBy(Append(verdicts, v)) = AllowedBy(verdicts) \cup {n}
         /\ v # "allow" => AllowedBy(Append(verdicts, v)) = AllowedBy(verdicts)
<1> DEFINE more == Append(verdicts, v)
<1>1. /\ Len(verdicts) \in Nat /\ more \in Seq({"allow", "limit", "close"}) /\ Len(more) = n
      /\ \A i \in 1..Len(verdicts) : more[i] = verdicts[i]
      /\ more[n] = v
  BY AppendProperties, LenProperties
<1> HIDE DEF more
<1>2. \A i : i \in 1..n <=> i \in 1..Len(verdicts) \/ i = n
  BY <1>1
<1>3. \A i : i \in AllowedBy(more) <=> i \in 1..n /\ more[i] = "allow"
  BY <1>1 DEF AllowedBy
<1>4. \A i : i \in AllowedBy(verdicts) <=> i \in 1..Len(verdicts) /\ verdicts[i] = "allow"
  BY DEF AllowedBy
<1>5. \A i \in 1..Len(verdicts) : i # n
  BY <1>1
<1>6. v = "allow" => AllowedBy(more) = AllowedBy(verdicts) \cup {n}
  BY <1>1, <1>2, <1>3, <1>4
<1>7. v # "allow" => AllowedBy(more) = AllowedBy(verdicts)
  BY <1>1, <1>2, <1>3, <1>4, <1>5
<1> QED
  BY <1>1, <1>4, <1>6, <1>7 DEF more

(* The window of a frame does not tell of those after it.                  *)
LEMMA WithinBefore ==
  ASSUME NEW fr \in Seq(Frame), NEW f \in Frame, NEW struck \in SUBSET (1..Len(fr)), NEW window,
         NEW i \in struck
  PROVE  /\ Within(struck, Append(fr, f), i, window) = Within(struck, fr, i, window)
         /\ Within(struck \cup {Len(fr) + 1}, Append(fr, f), i, window)
              = Within(struck, fr, i, window)
<1>1. Len(fr) \in Nat /\ \A j \in 1..Len(fr) : Append(fr, f)[j] = fr[j]
  BY FramesBefore
<1>2. \A j \in struck : Append(fr, f)[j] = fr[j] /\ ~(Len(fr) + 1 <= j)
  BY <1>1
<1> QED
  BY <1>2 DEF Within

(* A frame that is refused is one more strike, and closes the socket if it *)
(* is one too many.                                                        *)
LEMMA RefusedFrame ==
  ASSUME NEW fr \in Seq(Frame), NEW f \in Frame, LatestAt(fr) <= f.at,
         NEW verdicts, NEW strikes, StrikesTell(verdicts, strikes, fr, LatestAt(fr)),
         NEW s, Longer(s, Recent(strikes, f.at, CheckedLimits.window), f.at),
         NEW v, v \in {"close", "limit"}, v = "close" <=> Len(s) >= CheckedLimits.strikeLimit,
         NEW more, Longer(more, verdicts, v), NEW gr, Longer(gr, fr, f)
  PROVE  StrikesTell(more, s, gr, f.at) /\ AllowedBy(more) = AllowedBy(verdicts)
<1> USE DEF Longer
<1> DEFINE n == Len(fr) + 1
           struck == 1..Len(fr) \ AllowedBy(verdicts)
           latest == LatestAt(fr)
<1>0. /\ verdicts \in Seq({"allow", "limit", "close"}) /\ Len(verdicts) = Len(fr)
      /\ StrikesKnown(strikes, fr, struck, latest, CheckedLimits.window)
      /\ RefusalsClose(verdicts, fr, struck)
  BY DEF StrikesTell
<1>1. /\ Len(fr) \in Nat /\ Len(gr) = n /\ gr[n] = f
      /\ \A j \in 1..Len(fr) : fr[j].at \in Nat
  BY FramesBefore
<1>2. latest \in Nat /\ CheckedLimits.window \in Nat \ {0}
  <2>1. CheckedLimits.window \in Nat \ {0}
    BY FrameLimitsAssumption
  <2>2. fr # <<>> => Len(fr) \in 1..Len(fr)
    BY <1>1, EmptySeq
  <2> QED
    BY <1>1, <2>1, <2>2 DEF LatestAt
<1>3. v \in {"allow", "limit", "close"} /\ v # "allow" /\ (v = "close" <=> Len(s) >= CheckedLimits.strikeLimit)
  OBVIOUS
<1>4. /\ more \in Seq({"allow", "limit", "close"}) /\ Len(more) = n
      /\ \A i \in 1..Len(fr) : more[i] = verdicts[i]
      /\ more[n] = v
      /\ AllowedBy(verdicts) \in SUBSET (1..Len(fr))
      /\ AllowedBy(more) = AllowedBy(verdicts)
  BY <1>0, <1>3, AllowedOneMore
<1>5. 1..Len(gr) \ AllowedBy(more) = struck \cup {n}
  <2>1. \A i : i \in 1..n <=> i \in 1..Len(fr) \/ i = n
    BY <1>1
  <2>2. n \notin 1..Len(fr)
    BY <1>1
  <2> QED
    BY <1>1, <1>4, <2>1, <2>2
<1>6. struck \in SUBSET (1..Len(fr))
  OBVIOUS
<1> HIDE DEF struck, latest
<1>7. StrikesKnown(strikes, fr, struck, latest, CheckedLimits.window) /\ latest <= f.at
  BY <1>0 DEF struck, latest
<1>8. /\ StrikesKnown(s, gr, struck \cup {n}, f.at, CheckedLimits.window)
      /\ Len(s) = Cardinality(Within(struck \cup {n}, gr, n, CheckedLimits.window))
  <2>1. s = Append(Recent(strikes, f.at, CheckedLimits.window), f.at) /\ gr = Append(fr, f)
    OBVIOUS
  <2>2. PICK now \in Nat : now = latest
    BY <1>2
  <2>3. PICK window \in Nat \ {0} : window = CheckedLimits.window
    BY <1>2
  <2>4. StrikesKnown(strikes, fr, struck, now, window) /\ now <= f.at
    BY <1>7, <2>2, <2>3
  <2>5. s = Append(Recent(strikes, f.at, window), f.at)
    BY <2>1, <2>3
  <2>6. PICK m : m = n
    OBVIOUS
  <2>7. m = Len(fr) + 1
    BY <2>6
  <2> HIDE DEF n
  <2>8. StrikesCounted(s, gr, struck \cup {m}, m, f.at, window)
    BY <1>6, <2>1, <2>4, <2>5, <2>7, StruckKnows
  <2> QED
    BY <2>3, <2>6, <2>8 DEF StrikesCounted
<1>9. RefusalsClose(verdicts, fr, struck)
  BY <1>0 DEF struck
<1>10. \A i \in struck :
         more[i] = "close" <=>
           Cardinality(Within(struck \cup {n}, gr, i, CheckedLimits.window)) >= CheckedLimits.strikeLimit
  <2> SUFFICES ASSUME NEW i \in struck
               PROVE  more[i] = "close" <=>
                        Cardinality(Within(struck \cup {n}, gr, i, CheckedLimits.window))
                            >= CheckedLimits.strikeLimit
    OBVIOUS
  <2>1. Within(struck \cup {n}, gr, i, CheckedLimits.window) = Within(struck, fr, i, CheckedLimits.window)
    BY <1>6, WithinBefore
  <2>2. verdicts[i] = "close" <=>
          Cardinality(Within(struck, fr, i, CheckedLimits.window)) >= CheckedLimits.strikeLimit
    BY <1>9 DEF RefusalsClose
  <2>3. more[i] = verdicts[i]
    BY <1>4, <1>6
  <2> QED
    BY <2>1, <2>2, <2>3
<1>11. more[n] = "close" <=>
         Cardinality(Within(struck \cup {n}, gr, n, CheckedLimits.window)) >= CheckedLimits.strikeLimit
  BY <1>1, <1>3, <1>4, <1>8
<1>12. RefusalsClose(more, gr, struck \cup {n})
  BY <1>10, <1>11 DEF RefusalsClose
<1> QED
  BY <1>1, <1>4, <1>5, <1>8, <1>12 DEF StrikesTell

(* One that is allowed leaves the strikes.                                 *)
LEMMA AllowedFrame ==
  ASSUME NEW fr \in Seq(Frame), NEW f \in Frame, LatestAt(fr) <= f.at,
         NEW verdicts, NEW strikes, StrikesTell(verdicts, strikes, fr, LatestAt(fr)),
         NEW more, Longer(more, verdicts, "allow"), NEW gr, Longer(gr, fr, f)
  PROVE  StrikesTell(more, strikes, gr, f.at) /\ AllowedBy(more) = AllowedBy(verdicts) \cup {Len(gr)}
<1> USE DEF Longer
<1> DEFINE n == Len(fr) + 1
           struck == 1..Len(fr) \ AllowedBy(verdicts)
           latest == LatestAt(fr)
<1>0. /\ verdicts \in Seq({"allow", "limit", "close"}) /\ Len(verdicts) = Len(fr)
      /\ StrikesKnown(strikes, fr, struck, latest, CheckedLimits.window)
      /\ RefusalsClose(verdicts, fr, struck)
  BY DEF StrikesTell
<1>1. /\ Len(fr) \in Nat /\ Len(gr) = n /\ gr[n] = f
      /\ \A j \in 1..Len(fr) : fr[j].at \in Nat
  BY FramesBefore
<1>2. latest \in Nat /\ CheckedLimits.window \in Nat
  <2>1. CheckedLimits.window \in Nat
    BY FrameLimitsAssumption
  <2>2. fr # <<>> => Len(fr) \in 1..Len(fr)
    BY <1>1, EmptySeq
  <2> QED
    BY <1>1, <2>1, <2>2 DEF LatestAt
<1>3. "allow" \in {"allow", "limit", "close"}
  OBVIOUS
<1>4. /\ more \in Seq({"allow", "limit", "close"}) /\ Len(more) = n
      /\ \A i \in 1..Len(fr) : more[i] = verdicts[i]
      /\ AllowedBy(more) = AllowedBy(verdicts) \cup {n}
  BY <1>0, <1>3, AllowedOneMore
<1>5. 1..Len(gr) \ AllowedBy(more) = struck
  <2>1. \A i : i \in 1..n <=> i \in 1..Len(fr) \/ i = n
    BY <1>1
  <2>2. n \notin 1..Len(fr)
    BY <1>1
  <2> QED
    BY <1>1, <1>4, <2>1, <2>2
<1>6. struck \in SUBSET (1..Len(fr))
  OBVIOUS
<1> HIDE DEF struck, latest
<1>7. StrikesKnown(strikes, fr, struck, latest, CheckedLimits.window) /\ latest <= f.at
  BY <1>0 DEF struck, latest
<1>8. StrikesKnown(strikes, gr, struck, f.at, CheckedLimits.window)
  BY <1>2, <1>6, <1>7, NotStruck
<1>9. RefusalsClose(verdicts, fr, struck)
  BY <1>0 DEF struck
<1>10. RefusalsClose(more, gr, struck)
  <2>1. ASSUME NEW i \in struck
        PROVE  /\ Within(struck, gr, i, CheckedLimits.window) = Within(struck, fr, i, CheckedLimits.window)
               /\ more[i] = verdicts[i]
    BY <1>4, <1>6, WithinBefore
  <2> QED
    BY <1>9, <2>1 DEF RefusalsClose
<1> QED
  BY <1>1, <1>4, <1>5, <1>8, <1>10 DEF StrikesTell

(* A bucket that was asked is a bucket.                                    *)
LEMMA TakeIsBucket ==
  ASSUME NEW b, NEW config, NEW now, NEW t, t = Take(b, config, now),
         t.taken \in BOOLEAN, t.at \in Nat, t.tokens \in Nat
  PROVE  t \in Bucket
<1>1. t = [tokens |-> t.tokens, at |-> t.at, taken |-> t.taken]
  BY DEF Take
<1> QED
  BY <1>1 DEF Bucket


(* A bucket that is asked of the last of some frames knows of them all.    *)
KnowsLast(t, gr, asked, passed, config) ==
    BucketKnows(t, gr, asked \cup {Len(gr)}, IF t.taken THEN passed \cup {Len(gr)} ELSE passed, config)

LEMMA AskedOfLast ==
  ASSUME NEW fr \in Seq(Frame), NEW f \in Frame, NEW b, NEW asked, NEW passed,
         NEW config \in BucketConfig,
         BucketKnows(b, fr, asked, passed, config), b.at <= f.at,
         NEW gr, Longer(gr, fr, f), NEW t, t = Take(b, config, f.at)
  PROVE  /\ t.at = f.at /\ t.taken \in BOOLEAN /\ t \in Bucket
         /\ KnowsLast(t, gr, asked, passed, config)
<1> USE DEF Longer
<1> DEFINE n == Len(fr) + 1
<1>0. Len(gr) = n
  BY FramesBefore
<1>1. /\ t.at = f.at /\ t.taken \in BOOLEAN
      /\ BucketKnows(t, gr, asked \cup {n}, IF t.taken THEN passed \cup {n} ELSE passed, config)
  BY Asked
<1>2. t.tokens \in Nat /\ t.at \in Nat
  <2>1. f.at \in Nat
    BY DEF Frame
  <2> QED
    BY <1>1, <2>1 DEF BucketKnows, LeastLeft
<1>3. t \in Bucket
  BY <1>1, <1>2, TakeIsBucket
<1> HIDE DEF n
<1> QED
  BY <1>0, <1>1, <1>3 DEF KnowsLast

(* So when a frame comes, which asks the bucket of all frames, and perhaps *)
(* that of its type, all the buckets know of it.                           *)
PerhapsLast(T, S, gr) == T \in {S, S \cup {Len(gr)}}
OthersKept(byType2, byType, type) == \A t \in FrameType : t # type => byType2[t] = byType[t]

LEMMA OneMoreKnown ==
  ASSUME NEW fr \in Seq(Frame), NEW f \in Frame, NEW gr, Longer(gr, fr, f),
         NEW asked \in SUBSET (1..Len(fr)), NEW allowed \in SUBSET (1..Len(fr)), NEW byType,
         TypesKnow(byType, fr, asked, allowed),
         NEW asked2, PerhapsLast(asked2, asked, gr), NEW allowed2, PerhapsLast(allowed2, allowed, gr),
         allowed2 \subseteq asked2, NEW global2, KnowsAll(global2, gr, asked2),
         NEW byType2, OthersKept(byType2, byType, f.type),
         KnowsType(byType2[f.type], gr, f.type, asked2, allowed2)
  PROVE  BucketsKnow(global2, byType2, gr, allowed2)
<1> DEFINE n == Len(fr) + 1
<1>0. gr = Append(fr, f)
  BY DEF Longer
<1>1. Len(fr) \in Nat /\ Len(gr) = n /\ gr[n] = f /\ \A j \in 1..Len(fr) : gr[j] = fr[j]
  BY <1>0, FramesBefore
<1>2. asked2 \in {asked, asked \cup {n}} /\ allowed2 \in {allowed, allowed \cup {n}}
  BY <1>1 DEF PerhapsLast
<1>3. ASSUME NEW type \in FrameType
      PROVE  KnowsType(byType2[type], gr, type, asked2, allowed2)
  <2>1. CASE type # f.type
    <3>1. Typed(gr, type, asked2) = Typed(fr, type, asked)
      BY <1>1, <1>2, <2>1 DEF Typed
    <3>2. Typed(gr, type, allowed2) = Typed(fr, type, allowed)
      BY <1>1, <1>2, <2>1 DEF Typed
    <3>3. BucketKnows(byType[type], fr, Typed(fr, type, asked), Typed(fr, type, allowed),
                      CheckedLimits.bucket[type])
      BY DEF TypesKnow, KnowsType
    <3>4. BucketKnows(byType[type], gr, Typed(fr, type, asked), Typed(fr, type, allowed),
                      CheckedLimits.bucket[type])
      BY <1>0, <3>3, NotAsked
    <3>5. byType2[type] = byType[type]
      BY <2>1 DEF OthersKept
    <3> QED
      BY <3>1, <3>2, <3>4, <3>5 DEF KnowsType
  <2>2. CASE type = f.type
    BY <2>2
  <2> QED
    BY <2>1, <2>2
<1>4. asked2 \in SUBSET (1..Len(gr))
  <2>1. ASSUME NEW j \in asked2 PROVE j \in 1..Len(fr) \/ j = n
    BY <1>2
  <2>2. 1..Len(fr) \subseteq 1..Len(gr) /\ n \in 1..Len(gr)
    BY <1>1
  <2> QED
    BY <2>1, <2>2
<1> QED
  BY <1>3, <1>4 DEF BucketsKnow, TypesKnow

(* What the two buckets that are asked know then.                          *)
GlobalKnowsLast(g, gr, f, asked) ==
    /\ g.at = f.at /\ g.taken \in BOOLEAN /\ g \in Bucket
    /\ g.taken => KnowsAll(g, gr, asked \cup {Len(gr)})
    /\ ~g.taken => KnowsAll(g, gr, asked)

LEMMA GlobalAsked ==
  ASSUME NEW fr \in Seq(Frame), NEW f \in Frame, NEW gr, Longer(gr, fr, f),
         NEW asked, NEW b, KnowsAll(b, fr, asked), b.at <= f.at,
         NEW g, g = Take(b, CheckedLimits.global, f.at)
  PROVE  GlobalKnowsLast(g, gr, f, asked)
<1>1. Len(fr) \in Nat /\ Len(gr) = Len(fr) + 1
  BY FramesBefore DEF Longer
<1>2. 1..Len(fr) \cup {Len(gr)} = 1..Len(gr)
  BY <1>1
<1>3. CheckedLimits.global \in BucketConfig
  BY FrameLimitsAssumption
<1>4. /\ g.at = f.at /\ g.taken \in BOOLEAN /\ g \in Bucket
      /\ KnowsLast(g, gr, 1..Len(fr), asked, CheckedLimits.global)
  <2>1. BucketKnows(b, fr, 1..Len(fr), asked, CheckedLimits.global)
    BY DEF KnowsAll
  <2>2. KnowsLast(g, gr, 1..Len(fr), asked, CheckedLimits.global)
    BY <1>3, <2>1, AskedOfLast
  <2>3. g.at = f.at /\ g.taken \in BOOLEAN /\ g \in Bucket
    BY <1>3, <2>1, <2>2, AskedOfLast
  <2> QED
    BY <2>2, <2>3
<1>5. BucketKnows(g, gr, 1..Len(gr), IF g.taken THEN asked \cup {Len(gr)} ELSE asked,
                  CheckedLimits.global)
  BY <1>2, <1>4, Zenon DEF KnowsLast
<1> QED
  BY <1>4, <1>5, Zenon DEF GlobalKnowsLast, KnowsAll

TypeKnowsLast(o, b, gr, f, asked, allowed) ==
    /\ o.at = f.at /\ o.taken \in BOOLEAN /\ o \in Bucket
    /\ o.taken => KnowsType(o, gr, f.type, asked \cup {Len(gr)}, allowed \cup {Len(gr)})
    /\ ~o.taken => KnowsType(o, gr, f.type, asked \cup {Len(gr)}, allowed)
    /\ KnowsType(b, gr, f.type, asked, allowed)

LEMMA TypeAsked ==
  ASSUME NEW fr \in Seq(Frame), NEW f \in Frame, NEW gr, Longer(gr, fr, f),
         NEW asked \in SUBSET (1..Len(fr)), NEW allowed \in SUBSET (1..Len(fr)), NEW b,
         KnowsType(b, fr, f.type, asked, allowed), b.at <= f.at,
         NEW o, o = Take(b, CheckedLimits.bucket[f.type], f.at)
  PROVE  TypeKnowsLast(o, b, gr, f, asked, allowed)
<1>0. gr = Append(fr, f)
  BY DEF Longer
<1>1. /\ Len(fr) \in Nat /\ Len(gr) = Len(fr) + 1 /\ gr[Len(gr)] = f
      /\ \A j \in 1..Len(fr) : gr[j] = fr[j]
  BY <1>0, FramesBefore
<1>2. CheckedLimits.bucket[f.type] \in BucketConfig
  BY FrameLimitsAssumption DEF Frame
<1>3. PICK config \in BucketConfig : config = CheckedLimits.bucket[f.type]
  BY <1>2
<1>4. PICK S, T, n : S = Typed(fr, f.type, asked) /\ T = Typed(fr, f.type, allowed) /\ n = Len(gr)
  OBVIOUS
<1>5. BucketKnows(b, fr, S, T, config) /\ o = Take(b, config, f.at)
  BY <1>3, <1>4 DEF KnowsType
<1>6. /\ o.at = f.at /\ o.taken \in BOOLEAN /\ o \in Bucket
      /\ KnowsLast(o, gr, S, T, config)
  <2>1. KnowsLast(o, gr, S, T, config)
    BY <1>5, AskedOfLast
  <2>2. o.at = f.at /\ o.taken \in BOOLEAN /\ o \in Bucket
    BY <1>5, <2>1, AskedOfLast
  <2> QED
    BY <2>1, <2>2
<1>7. BucketKnows(o, gr, S \cup {n}, IF o.taken THEN T \cup {n} ELSE T, config)
  BY <1>4, <1>6, Zenon DEF KnowsLast
<1>8. Typed(gr, f.type, asked) = S
  BY <1>1, <1>4 DEF Typed
<1>9. Typed(gr, f.type, allowed) = T
  BY <1>1, <1>4 DEF Typed
<1>10. Typed(gr, f.type, asked \cup {n}) = S \cup {n}
  BY <1>1, <1>4 DEF Typed
<1>11. Typed(gr, f.type, allowed \cup {n}) = T \cup {n}
  BY <1>1, <1>4 DEF Typed
<1>12. BucketKnows(b, gr, S, T, config)
  BY <1>0, <1>5, NotAsked
<1>13. o.taken => BucketKnows(o, gr, S \cup {n}, T \cup {n}, config)
  BY <1>7, Zenon
<1>14. ~o.taken => BucketKnows(o, gr, S \cup {n}, T, config)
  BY <1>7, Zenon
<1> QED
  BY <1>3, <1>4, <1>6, <1>8, <1>9, <1>10, <1>11, <1>12, <1>13, <1>14, Zenon
  DEF TypeKnowsLast, KnowsType

(* The limiter knows of one frame more.                                    *)
LEMMA OneMoreFrame ==
  ASSUME NEW l, NEW fr, LimiterKnows(l, fr), NEW f \in Frame, LatestAt(fr) <= f.at
  PROVE  LimiterKnows(CheckFrame(CheckedLimits, l, f.type, f.at), Append(fr, f))
<1> DEFINE allowed == AllowedBy(l.verdicts)
           V == {"allow", "limit", "close"}
<1>1. /\ l \in Limiter /\ fr \in Seq(Frame)
      /\ l.global.at <= LatestAt(fr)
      /\ \A type \in FrameType : l.byType[type].at <= LatestAt(fr)
      /\ BucketsKnow(l.global, l.byType, fr, allowed)
      /\ StrikesTell(l.verdicts, l.strikes, fr, LatestAt(fr)) /\ Len(l.verdicts) = Len(fr)
  BY DEF LimiterKnows, StrikesTell
<1>2. /\ l.global \in Bucket /\ l.byType \in [FrameType -> Bucket]
      /\ l.strikes \in Seq(Nat) /\ l.verdicts \in Seq(V)
  BY <1>1 DEF Limiter
<1>3. f.type \in FrameType /\ f.at \in Nat
  BY DEF Frame
<1>4. PICK gr, n, s, v, r :
         /\ Longer(gr, fr, f) /\ n = Len(fr) + 1
         /\ Longer(s, Recent(l.strikes, f.at, CheckedLimits.window), f.at)
         /\ v \in {"close", "limit"} /\ (v = "close" <=> Len(s) >= CheckedLimits.strikeLimit)
         /\ r = CheckFrame(CheckedLimits, l, f.type, f.at)
  <2>1. ASSUME NEW b \in BOOLEAN PROVE \E v \in {"close", "limit"} : v = "close" <=> b
    <3>1. CASE b
      BY <3>1
    <3>2. CASE ~b
      BY <3>2
    <3> QED
      BY <3>1, <3>2
  <2> QED
    BY <2>1 DEF Longer
<1>5. PICK g, o : /\ g = Take(l.global, CheckedLimits.global, f.at)
                  /\ o = Take(l.byType[f.type], CheckedLimits.bucket[f.type], f.at)
  OBVIOUS
<1>6. PICK asked \in SUBSET (1..Len(fr)) :
        /\ allowed \subseteq asked
        /\ KnowsAll(l.global, fr, asked)
        /\ TypesKnow(l.byType, fr, asked, allowed)
  BY <1>1 DEF BucketsKnow
<1>7. /\ Len(fr) \in Nat /\ Len(gr) = n /\ gr \in Seq(Frame) /\ gr[n] = f
      /\ LatestAt(gr) = f.at
  <2>1. Len(fr) \in Nat /\ Len(gr) = n /\ gr \in Seq(Frame) /\ gr[n] = f
    BY <1>1, <1>4, FramesBefore DEF Longer
  <2>2. gr # <<>>
    BY <2>1, <1>4
  <2> QED
    BY <2>1, <2>2 DEF LatestAt
<1>8. l.global.at <= f.at /\ l.byType[f.type].at <= f.at /\ LatestAt(fr) \in Nat
      /\ \A type \in FrameType : l.byType[type].at <= f.at
  <2>1. LatestAt(fr) \in Nat
    <3>1. fr # <<>> => Len(fr) \in 1..Len(fr)
      BY <1>1, <1>7, EmptySeq
    <3>2. \A j \in 1..Len(fr) : fr[j].at \in Nat
      BY <1>1, FramesBefore
    <3> QED
      BY <3>1, <3>2 DEF LatestAt
  <2>2. l.global.at \in Nat /\ \A type \in FrameType : l.byType[type].at \in Nat
    BY <1>2 DEF Bucket
  <2> QED
    BY <1>1, <1>3, <2>1, <2>2
<1>9. allowed \in SUBSET (1..Len(fr))
  BY <1>1 DEF AllowedBy
<1>10. GlobalKnowsLast(g, gr, f, asked)
  <2>1. PICK b : b = l.global
    OBVIOUS
  <2>2. KnowsAll(b, fr, asked) /\ b.at <= f.at /\ g = Take(b, CheckedLimits.global, f.at)
    BY <1>5, <1>6, <1>8, <2>1
  <2> QED
    BY <1>1, <1>4, <2>2, GlobalAsked
<1>11. TypeKnowsLast(o, l.byType[f.type], gr, f, asked, allowed)
  <2> HIDE DEF allowed
  <2>1. PICK b : b = l.byType[f.type]
    OBVIOUS
  <2>2. /\ KnowsType(b, fr, f.type, asked, allowed) /\ b.at <= f.at
        /\ o = Take(b, CheckedLimits.bucket[f.type], f.at)
    BY <1>3, <1>5, <1>6, <1>8, <2>1 DEF TypesKnow
  <2>3. TypeKnowsLast(o, b, gr, f, asked, allowed)
    BY <1>1, <1>4, <1>9, <2>2, TypeAsked
  <2> QED
    BY <2>1, <2>3
<1>a. /\ g.at = f.at /\ g.taken \in BOOLEAN /\ g \in Bucket
      /\ o.at = f.at /\ o.taken \in BOOLEAN /\ o \in Bucket
  BY <1>10, <1>11, Zenon DEF GlobalKnowsLast, TypeKnowsLast
<1>12. CheckedTo(r, l, f.type, g, o, s, v)
  BY <1>1, <1>3, <1>4, <1>5, <1>a, Checked
<1>13. ASSUME NEW more, Longer(more, l.verdicts, v)
       PROVE  StrikesTell(more, s, gr, f.at) /\ AllowedBy(more) = allowed
  <2>2. PICK verdicts, strikes : verdicts = l.verdicts /\ strikes = l.strikes
    OBVIOUS
  <2>3. /\ StrikesTell(verdicts, strikes, fr, LatestAt(fr)) /\ Longer(more, verdicts, v)
        /\ Longer(s, Recent(strikes, f.at, CheckedLimits.window), f.at)
    BY <1>1, <1>4, <1>13, <2>2
  <2>4. StrikesTell(more, s, gr, f.at) /\ AllowedBy(more) = AllowedBy(verdicts)
    BY <1>1, <1>4, <2>3, RefusedFrame
  <2> QED
    BY <2>2, <2>4
<1>14. ASSUME NEW more, Longer(more, l.verdicts, "allow")
       PROVE  StrikesTell(more, l.strikes, gr, f.at) /\ AllowedBy(more) = allowed \cup {n}
  <2>1. PICK verdicts, strikes : verdicts = l.verdicts /\ strikes = l.strikes
    OBVIOUS
  <2>2. StrikesTell(verdicts, strikes, fr, LatestAt(fr)) /\ Longer(more, verdicts, "allow")
    BY <1>1, <1>14, <2>1
  <2>3. StrikesTell(more, strikes, gr, f.at) /\ AllowedBy(more) = AllowedBy(verdicts) \cup {Len(gr)}
    BY <1>1, <1>4, <2>2, AllowedFrame
  <2> QED
    BY <1>7, <2>1, <2>3
<1>15. s \in Seq(Nat)
  <2>1. PICK h : Names(h, Recent(l.strikes, f.at, CheckedLimits.window), l.strikes, f.at,
                       CheckedLimits.window, Len(l.strikes))
    BY <1>2, RecentKeepsTheWindow
  <2>2. Recent(l.strikes, f.at, CheckedLimits.window) \in Seq(Nat)
    BY <2>1 DEF Names
  <2> QED
    BY <1>3, <1>4, <2>2, AppendProperties DEF Longer
<1> HIDE DEF allowed
<1>16. \A type \in FrameType : type # f.type => [l.byType EXCEPT ![f.type] = o][type] = l.byType[type]
  BY <1>2, <1>3
<1>17. [l.byType EXCEPT ![f.type] = o][f.type] = o
       /\ [l.byType EXCEPT ![f.type] = o] \in [FrameType -> Bucket]
  BY <1>2, <1>3, <1>a
<1>18. CASE ~g.taken
  <2>1. r.global = g /\ r.byType = l.byType /\ r.strikes = s /\ r.verdicts = Append(l.verdicts, v)
        /\ r = [global |-> g, byType |-> l.byType, strikes |-> s, verdicts |-> r.verdicts]
    <3>1. r = [global |-> g, byType |-> l.byType, strikes |-> s, verdicts |-> Append(l.verdicts, v)]
      BY <1>12, <1>18, Zenon DEF CheckedTo
    <3> QED
      BY <3>1
  <2>2. BucketsKnow(r.global, r.byType, gr, allowed)
    <3>1. PICK global2, byType2, asked2, allowed2 :
            /\ global2 = r.global /\ byType2 = r.byType
            /\ asked2 = asked /\ allowed2 = allowed
      OBVIOUS
    <3>2. KnowsAll(global2, gr, asked2)
      BY <1>10, <1>18, <2>1, <3>1, Zenon DEF GlobalKnowsLast
    <3>3. KnowsType(byType2[f.type], gr, f.type, asked2, allowed2)
      BY <1>11, <1>17, <1>18, <2>1, <3>1, Zenon DEF TypeKnowsLast
    <3>4. OthersKept(byType2, l.byType, f.type)
      BY <1>16, <2>1, <3>1 DEF OthersKept
    <3>5. /\ PerhapsLast(asked2, asked, gr) /\ PerhapsLast(allowed2, allowed, gr)
          /\ allowed2 \subseteq asked2
      BY <1>6, <3>1 DEF PerhapsLast
    <3>6. BucketsKnow(global2, byType2, gr, allowed2)
      BY <1>1, <1>4, <1>6, <1>9, <3>2, <3>3, <3>4, <3>5, OneMoreKnown
    <3> QED
      BY <1>7, <3>1, <3>6, Zenon
  <2>3. /\ StrikesTell(r.verdicts, r.strikes, gr, f.at) /\ AllowedBy(r.verdicts) = allowed
        /\ r.verdicts \in Seq(V)
    <3>1. StrikesTell(r.verdicts, r.strikes, gr, f.at) /\ AllowedBy(r.verdicts) = allowed
      BY <1>13, <2>1 DEF Longer
    <3> QED
      BY <3>1 DEF StrikesTell
  <2>4. r \in Limiter
    BY <1>2, <1>a, <1>15, <2>1, <2>3 DEF Limiter
  <2>5. r.global.at <= LatestAt(gr) /\ \A type \in FrameType : r.byType[type].at <= LatestAt(gr)
    BY <1>3, <1>7, <1>8, <1>a, <2>1
  <2>6. StrikesTell(r.verdicts, r.strikes, gr, LatestAt(gr))
    BY <1>7, <2>3, Zenon
  <2>7. BucketsKnow(r.global, r.byType, gr, AllowedBy(r.verdicts))
    BY <2>2, <2>3, Zenon
  <2>8. LimiterKnows(r, gr)
    BY <1>7, <2>4, <2>5, <2>6, <2>7, Zenon DEF LimiterKnows
  <2> QED
    BY <1>4, <2>8, Zenon DEF Longer
<1>19. CASE g.taken /\ ~o.taken
  <2>1. r.global = g /\ r.byType = [l.byType EXCEPT ![f.type] = o] /\ r.strikes = s
        /\ r.verdicts = Append(l.verdicts, v)
        /\ r = [global |-> g, byType |-> r.byType, strikes |-> s, verdicts |-> r.verdicts]
    <3>1. r = [global |-> g, byType |-> [l.byType EXCEPT ![f.type] = o], strikes |-> s,
               verdicts |-> Append(l.verdicts, v)]
      BY <1>12, <1>19, Zenon DEF CheckedTo
    <3> QED
      BY <3>1
  <2>2. BucketsKnow(r.global, r.byType, gr, allowed)
    <3>1. PICK global2, byType2, asked2, allowed2 :
            /\ global2 = r.global /\ byType2 = r.byType
            /\ asked2 = asked \cup {Len(gr)} /\ allowed2 = allowed
      OBVIOUS
    <3>2. KnowsAll(global2, gr, asked2)
      BY <1>10, <1>19, <2>1, <3>1, Zenon DEF GlobalKnowsLast
    <3>3. KnowsType(byType2[f.type], gr, f.type, asked2, allowed2)
      BY <1>11, <1>17, <1>19, <2>1, <3>1, Zenon DEF TypeKnowsLast
    <3>4. OthersKept(byType2, l.byType, f.type)
      BY <1>16, <2>1, <3>1 DEF OthersKept
    <3>5. /\ PerhapsLast(asked2, asked, gr) /\ PerhapsLast(allowed2, allowed, gr)
          /\ allowed2 \subseteq asked2
      BY <1>6, <3>1 DEF PerhapsLast
    <3>6. BucketsKnow(global2, byType2, gr, allowed2)
      BY <1>1, <1>4, <1>6, <1>9, <3>2, <3>3, <3>4, <3>5, OneMoreKnown
    <3> QED
      BY <1>7, <3>1, <3>6, Zenon
  <2>3. /\ StrikesTell(r.verdicts, r.strikes, gr, f.at) /\ AllowedBy(r.verdicts) = allowed
        /\ r.verdicts \in Seq(V)
    <3>1. StrikesTell(r.verdicts, r.strikes, gr, f.at) /\ AllowedBy(r.verdicts) = allowed
      BY <1>13, <2>1 DEF Longer
    <3> QED
      BY <3>1 DEF StrikesTell
  <2>4. r \in Limiter
    BY <1>a, <1>15, <1>17, <2>1, <2>3 DEF Limiter
  <2>5. r.global.at <= LatestAt(gr) /\ \A type \in FrameType : r.byType[type].at <= LatestAt(gr)
    BY <1>3, <1>7, <1>8, <1>a, <1>16, <1>17, <2>1
  <2>6. StrikesTell(r.verdicts, r.strikes, gr, LatestAt(gr))
    BY <1>7, <2>3, Zenon
  <2>7. BucketsKnow(r.global, r.byType, gr, AllowedBy(r.verdicts))
    BY <2>2, <2>3, Zenon
  <2>8. LimiterKnows(r, gr)
    BY <1>7, <2>4, <2>5, <2>6, <2>7, Zenon DEF LimiterKnows
  <2> QED
    BY <1>4, <2>8, Zenon DEF Longer
<1>20. CASE g.taken /\ o.taken
  <2>1. r.global = g /\ r.byType = [l.byType EXCEPT ![f.type] = o] /\ r.strikes = l.strikes
        /\ r.verdicts = Append(l.verdicts, "allow")
        /\ r = [global |-> g, byType |-> r.byType, strikes |-> l.strikes, verdicts |-> r.verdicts]
    <3>1. r = [global |-> g, byType |-> [l.byType EXCEPT ![f.type] = o], strikes |-> l.strikes,
               verdicts |-> Append(l.verdicts, "allow")]
      BY <1>12, <1>20, Zenon DEF CheckedTo
    <3> QED
      BY <3>1
  <2>2. BucketsKnow(r.global, r.byType, gr, allowed \cup {n})
    <3>1. PICK global2, byType2, asked2, allowed2 :
            /\ global2 = r.global /\ byType2 = r.byType
            /\ asked2 = asked \cup {Len(gr)} /\ allowed2 = allowed \cup {Len(gr)}
      OBVIOUS
    <3>2. KnowsAll(global2, gr, asked2)
      BY <1>10, <1>20, <2>1, <3>1, Zenon DEF GlobalKnowsLast
    <3>3. KnowsType(byType2[f.type], gr, f.type, asked2, allowed2)
      BY <1>11, <1>17, <1>20, <2>1, <3>1, Zenon DEF TypeKnowsLast
    <3>4. OthersKept(byType2, l.byType, f.type)
      BY <1>16, <2>1, <3>1 DEF OthersKept
    <3>5. /\ PerhapsLast(asked2, asked, gr) /\ PerhapsLast(allowed2, allowed, gr)
          /\ allowed2 \subseteq asked2
      BY <1>6, <3>1 DEF PerhapsLast
    <3>6. BucketsKnow(global2, byType2, gr, allowed2)
      BY <1>1, <1>4, <1>6, <1>9, <3>2, <3>3, <3>4, <3>5, OneMoreKnown
    <3> QED
      BY <1>7, <3>1, <3>6, Zenon
  <2>3. /\ StrikesTell(r.verdicts, r.strikes, gr, f.at) /\ AllowedBy(r.verdicts) = allowed \cup {n}
        /\ r.verdicts \in Seq(V)
    <3>1. StrikesTell(r.verdicts, r.strikes, gr, f.at) /\ AllowedBy(r.verdicts) = allowed \cup {n}
      BY <1>14, <2>1 DEF Longer
    <3> QED
      BY <3>1 DEF StrikesTell
  <2>4. r \in Limiter
    BY <1>2, <1>a, <1>17, <2>1, <2>3 DEF Limiter
  <2>5. r.global.at <= LatestAt(gr) /\ \A type \in FrameType : r.byType[type].at <= LatestAt(gr)
    BY <1>3, <1>7, <1>8, <1>a, <1>16, <1>17, <2>1
  <2>6. StrikesTell(r.verdicts, r.strikes, gr, LatestAt(gr))
    BY <1>7, <2>3, Zenon
  <2>7. BucketsKnow(r.global, r.byType, gr, AllowedBy(r.verdicts))
    BY <2>2, <2>3, Zenon
  <2>8. LimiterKnows(r, gr)
    BY <1>7, <2>4, <2>5, <2>6, <2>7, Zenon DEF LimiterKnows
  <2> QED
    BY <1>4, <2>8, Zenon DEF Longer
<1> QED
  BY <1>18, <1>19, <1>20, <1>a, Zenon


(* No frame has come.                                                      *)
LEMMA NothingYet ==
  ASSUME NEW b, NEW config \in BucketConfig, b = FullBucket(config, 0)
  PROVE  BucketKnows(b, <<>>, {}, {}, config)
<1>1. b.tokens = config.burst * PerSecond /\ b.at = 0
  BY DEF FullBucket
<1>2. config.burst \in Nat /\ PerSecond \in Nat
  BY FrameLimitsAssumption DEF BucketConfig
<1>3. LeastLeft(b.tokens, b.at, <<>>, {}, config)
  BY <1>1, <1>2 DEF LeastLeft
<1> QED
  BY <1>3 DEF BucketKnows, Curve

(* A new limiter knows of no frame.                                        *)
LEMMA NewLimiterKnows ==
  LimiterKnows(NewLimiter(CheckedLimits, 0), <<>>)
<1>1. PICK l : l = NewLimiter(CheckedLimits, 0)
  OBVIOUS
<1>2. /\ l.global = FullBucket(CheckedLimits.global, 0)
      /\ l.byType = [type \in FrameType |-> FullBucket(CheckedLimits.bucket[type], 0)]
      /\ l.strikes = <<>> /\ l.verdicts = <<>>
      /\ l = [global |-> l.global, byType |-> l.byType, strikes |-> <<>>, verdicts |-> <<>>]
  BY <1>1 DEF NewLimiter
<1>3. /\ CheckedLimits.global \in BucketConfig
      /\ \A type \in FrameType : CheckedLimits.bucket[type] \in BucketConfig
  BY FrameLimitsAssumption
<1>4. ASSUME NEW config \in BucketConfig
      PROVE  FullBucket(config, 0) \in Bucket /\ FullBucket(config, 0).at = 0
  BY FrameLimitsAssumption DEF FullBucket, Bucket, BucketConfig
<1>5. \A type \in FrameType : l.byType[type] = FullBucket(CheckedLimits.bucket[type], 0)
  BY <1>2
<1>6. l.global \in Bucket /\ l.byType \in [FrameType -> Bucket]
  BY <1>2, <1>3, <1>4
<1>7. l \in Limiter
  <2>1. PICK global, byType : global = l.global /\ byType = l.byType
    OBVIOUS
  <2>2. global \in Bucket /\ byType \in [FrameType -> Bucket]
    BY <1>6, <2>1, Zenon
  <2>3. [global |-> global, byType |-> byType, strikes |-> <<>>, verdicts |-> <<>>] \in Limiter
    BY <2>2 DEF Limiter
  <2> QED
    BY <1>2, <2>1, <2>3, Zenon
<1>8. LatestAt(<<>>) = 0
  BY DEF LatestAt
<1>9. l.global.at <= 0 /\ \A type \in FrameType : l.byType[type].at <= 0
  BY <1>2, <1>3, <1>4, <1>5
<1>10. AllowedBy(l.verdicts) = {}
  BY <1>2 DEF AllowedBy
<1>11. BucketsKnow(l.global, l.byType, <<>>, {})
  <2>1. PICK global, byType, fr : global = l.global /\ byType = l.byType /\ fr = <<>>
    OBVIOUS
  <2>2. BucketKnows(global, fr, {}, {}, CheckedLimits.global)
    BY <1>2, <1>3, <2>1, NothingYet
  <2>3. ASSUME NEW type \in FrameType
        PROVE  BucketKnows(byType[type], fr, {}, {}, CheckedLimits.bucket[type])
    <3>1. PICK b, config : b = byType[type] /\ config = CheckedLimits.bucket[type]
      OBVIOUS
    <3>2. config \in BucketConfig /\ b = FullBucket(config, 0)
      BY <1>3, <1>5, <2>1, <3>1
    <3>3. BucketKnows(b, <<>>, {}, {}, config)
      BY <3>2, NothingYet
    <3> QED
      BY <2>1, <3>1, <3>3, Zenon
  <2>4. \A type : Typed(fr, type, {}) = {}
    BY DEF Typed
  <2>5. 1..Len(fr) = {}
    BY <2>1
  <2>6. KnowsAll(global, fr, {})
    BY <2>2, <2>5, Zenon DEF KnowsAll
  <2>7. TypesKnow(byType, fr, {}, {})
    BY <2>3, <2>4, Zenon DEF TypesKnow, KnowsType
  <2>8. {} \in SUBSET (1..Len(fr)) /\ {} \subseteq {}
    OBVIOUS
  <2>9. BucketsKnow(global, byType, fr, {})
    BY <2>6, <2>7, <2>8, Zenon DEF BucketsKnow
  <2> QED
    BY <2>1, <2>9, Zenon
<1>12. StrikesTell(<<>>, <<>>, <<>>, 0)
  <2>1. PICK fr, struck, none : /\ fr = <<>> /\ struck = 1..Len(fr) \ AllowedBy(fr)
                                 /\ none = [a \in 1..0 |-> 0]
    OBVIOUS
  <2>2. struck = {} /\ 1..Len(fr) = {} /\ Len(fr) = 0
    BY <2>1
  <2>3. fr \in Seq(Nat) /\ fr \in Seq({"allow", "limit", "close"})
    BY <2>1
  <2>4. none \in [1..Len(fr) -> struck]
    BY <2>1, <2>2
  <2>5. StrikesKnown(fr, fr, struck, 0, CheckedLimits.window)
    BY <2>2, <2>3, <2>4 DEF StrikesKnown
  <2>6. RefusalsClose(fr, fr, struck)
    BY <2>2 DEF RefusalsClose
  <2>7. StrikesTell(fr, fr, fr, 0)
    BY <2>1, <2>3, <2>5, <2>6 DEF StrikesTell
  <2> QED
    BY <2>1, <2>7, Zenon
<1>13. StrikesTell(l.verdicts, l.strikes, <<>>, LatestAt(<<>>))
  BY <1>2, <1>8, <1>12, Zenon
<1>14. BucketsKnow(l.global, l.byType, <<>>, AllowedBy(l.verdicts))
  BY <1>10, <1>11, Zenon
<1>15. l.global.at <= LatestAt(<<>>) /\ \A type \in FrameType : l.byType[type].at <= LatestAt(<<>>)
  BY <1>8, <1>9
<1>16. <<>> \in Seq(Frame)
  OBVIOUS
<1>17. LimiterKnows(l, <<>>)
  BY <1>7, <1>13, <1>14, <1>15, <1>16, Zenon DEF LimiterKnows
<1> QED
  BY <1>1, <1>17, Zenon

(* A limiter that knows its frames has judged them as promised.            *)
LEMMA JudgedAsPromised ==
  LimiterKnows(limiter, frames) => BucketsKeepTheCurve
<1> SUFFICES ASSUME LimiterKnows(limiter, frames) PROVE BucketsKeepTheCurve
  OBVIOUS
<1>1. /\ BucketsKnow(limiter.global, limiter.byType, frames, AllowedBy(limiter.verdicts))
      /\ StrikesTell(limiter.verdicts, limiter.strikes, frames, LatestAt(frames))
  BY Zenon DEF LimiterKnows
<1>2. Len(limiter.verdicts) = Len(frames)
  BY <1>1, Zenon DEF StrikesTell
<1>3. Allowed = AllowedBy(limiter.verdicts)
  BY <1>2, Zenon DEF Allowed, AllowedBy
<1>4. \A type, S : OfType(type, S) = Typed(frames, type, S)
  BY Zenon DEF OfType, Typed
<1>5. \A asked, passed, config : Curve(frames, asked, passed, config) => KeepsTheCurve(asked, passed, config)
  BY Zenon DEF Curve, KeepsTheCurve
<1>6. \E asked \in SUBSET (1..Len(frames)) :
        /\ Allowed \subseteq asked
        /\ KeepsTheCurve(1..Len(frames), asked, CheckedLimits.global)
        /\ \A type \in CheckedType :
             KeepsTheCurve(OfType(type, asked), OfType(type, Allowed), CheckedLimits.bucket[type])
  <2>1. PICK asked \in SUBSET (1..Len(frames)) :
          /\ AllowedBy(limiter.verdicts) \subseteq asked
          /\ KnowsAll(limiter.global, frames, asked)
          /\ TypesKnow(limiter.byType, frames, asked, AllowedBy(limiter.verdicts))
    BY <1>1, Zenon DEF BucketsKnow
  <2>2. Allowed \subseteq asked
    BY <1>3, <2>1, Zenon
  <2>3. KeepsTheCurve(1..Len(frames), asked, CheckedLimits.global)
    BY <1>5, <2>1, Zenon DEF KnowsAll, BucketKnows
  <2>4. ASSUME NEW type \in CheckedType
        PROVE  KeepsTheCurve(OfType(type, asked), OfType(type, Allowed), CheckedLimits.bucket[type])
    <3>1. type \in FrameType
      BY FrameLimitsAssumption
    <3>2. Curve(frames, Typed(frames, type, asked), Typed(frames, type, AllowedBy(limiter.verdicts)),
                CheckedLimits.bucket[type])
      BY <2>1, <3>1, Zenon DEF TypesKnow, KnowsType, BucketKnows
    <3> QED
      BY <1>3, <1>4, <1>5, <3>2, Zenon
  <2> QED
    BY <2>2, <2>3, <2>4, Zenon
<1>7. \A i \in Refused :
        limiter.verdicts[i] = "close" <=>
            Cardinality({j \in Refused : j <= i /\ frames[i].at - frames[j].at < CheckedLimits.window})
                >= CheckedLimits.strikeLimit
  <2>1. RefusalsClose(limiter.verdicts, frames, Refused)
    BY <1>1, <1>3, Zenon DEF StrikesTell, Refused
  <2> QED
    BY <2>1, Zenon DEF RefusalsClose, Within
<1> QED
  BY <1>6, <1>7, Zenon DEF BucketsKeepTheCurve

(* Of any connection, with any limits, and frames of any number and at any *)
(* times: a frame is allowed exactly when both curves have room for it, and*)
(* one closes the socket exactly when it is the last of strikeLimit        *)
(* refusals within the window.                                             *)
THEOREM FramesKeepTheCurve == LimiterSpec => []BucketsKeepTheCurve
<1> DEFINE IInv == LimiterKnows(limiter, frames)
<1>1. LimiterInit => IInv
  BY NewLimiterKnows, Zenon DEF LimiterInit
<1>2. IInv /\ [LimiterNext]_limiterVars => IInv'
  <2> SUFFICES ASSUME IInv, [LimiterNext]_limiterVars PROVE IInv'
    OBVIOUS
  <2>1. ASSUME NEW type \in CheckedType, NEW gap \in Gap, Arrive(type, gap)
        PROVE  IInv'
    <3>1. PICK f : f = [type |-> type, at |-> Now + gap]
      OBVIOUS
    <3>2. Now = LatestAt(frames)
      BY DEF Now, LatestAt
    <3>3. LatestAt(frames) \in Nat /\ gap \in Nat /\ type \in FrameType
      <4>1. frames \in Seq(Frame)
        BY DEF LimiterKnows
      <4>2. frames # <<>> => frames[Len(frames)] \in Frame
        BY <4>1
      <4> QED
        BY <4>2, FrameLimitsAssumption DEF LatestAt, Frame
    <3>4. f \in Frame /\ f.type = type /\ f.at = Now + gap /\ LatestAt(frames) <= f.at
      BY <3>1, <3>2, <3>3 DEF Frame
    <3>5. limiter' = CheckFrame(CheckedLimits, limiter, f.type, f.at) /\ frames' = Append(frames, f)
      BY <2>1, <3>1, <3>4 DEF Arrive
    <3>6. PICK l, fr : l = limiter /\ fr = frames
      OBVIOUS
    <3>7. LimiterKnows(CheckFrame(CheckedLimits, l, f.type, f.at), Append(fr, f))
      BY <3>4, <3>6, OneMoreFrame, Zenon
    <3> QED
      BY <3>5, <3>6, <3>7, Zenon
  <2>2. CASE NextConnection
    BY <2>2, NewLimiterKnows, Zenon DEF NextConnection
  <2>3. CASE UNCHANGED limiterVars
    BY <2>3, Zenon DEF limiterVars, LimiterKnows
  <2> QED
    BY <2>1, <2>2, <2>3 DEF LimiterNext
<1>3. IInv => BucketsKeepTheCurve
  BY JudgedAsPromised
<1> QED
  BY <1>1, <1>2, <1>3, PTL DEF LimiterSpec

------------------------------------------------------------------------------
(* Counting the frames of a type.                                          *)

(* Of the first n frames, those of a type.                                 *)
Count(types, n, t) == Cardinality({i \in 1..n : types[i] = t})
Number(types, t) == Count(types, Len(types), t)

LEMMA CountOfNone == ASSUME NEW types, NEW t PROVE Count(types, 0, t) = 0
<1>1. {i \in 1..0 : types[i] = t} = {}
  OBVIOUS
<1> QED
  BY <1>1, FS_EmptySet DEF Count

LEMMA CountStep ==
  ASSUME NEW types, NEW t, NEW n \in Nat
  PROVE  /\ Count(types, n, t) \in Nat
         /\ types[n + 1] = t => Count(types, n + 1, t) = Count(types, n, t) + 1
         /\ types[n + 1] # t => Count(types, n + 1, t) = Count(types, n, t)
<1>1. PICK S, R : S = {i \in 1..n : types[i] = t} /\ R = {i \in 1..n + 1 : types[i] = t}
  OBVIOUS
<1>2. S \in SUBSET (1..n) /\ IsFiniteSet(1..n) /\ n + 1 \notin S
  BY <1>1, FS_Interval
<1>3. IsFiniteSet(S) /\ Cardinality(S) \in Nat
  BY <1>2, FS_Subset, FS_CardinalityType
<1>4. \A i : i \in 1..n + 1 <=> i \in 1..n \/ i = n + 1
  OBVIOUS
<1>5. types[n + 1] = t => R = S \cup {n + 1}
  BY <1>1, <1>4
<1>6. types[n + 1] # t => R = S
  BY <1>1, <1>4
<1>7. Cardinality(S \cup {n + 1}) = Cardinality(S) + 1
  BY <1>2, <1>3, FS_AddElement
<1>8. Count(types, n, t) = Cardinality(S) /\ Count(types, n + 1, t) = Cardinality(R)
  BY <1>1 DEF Count
<1> QED
  BY <1>3, <1>5, <1>6, <1>7, <1>8

(* More frames have no fewer of a type.                                    *)
LEMMA CountGrows ==
  ASSUME NEW types, NEW t, NEW n \in Nat, NEW m \in Nat, n <= m
  PROVE  Count(types, n, t) <= Count(types, m, t)
<1> DEFINE Good == {k \in Nat : n <= k => Count(types, n, t) <= Count(types, k, t)}
<1>1. ASSUME NEW k \in Nat
      PROVE  /\ Count(types, k, t) \in Nat
             /\ Count(types, k, t) <= Count(types, k + 1, t)
             /\ Count(types, k + 1, t) \in Nat
  <2>1. Count(types, k, t) \in Nat
    BY CountStep
  <2>2. Count(types, k + 1, t) = Count(types, k, t) + 1 \/ Count(types, k + 1, t) = Count(types, k, t)
    BY CountStep
  <2> QED
    BY <2>1, <2>2
<1>2. 0 \in Good
  BY <1>1
<1>3. ASSUME NEW k \in Nat, k \in Good PROVE k + 1 \in Good
  BY <1>1, <1>3
<1> HIDE DEF Good
<1>4. m \in Good
  BY <1>2, <1>3, NatSetInduction
<1> QED
  BY <1>4 DEF Good

LEMMA NumberJoins ==
  ASSUME NEW first \in Seq(FrameType), NEW then \in Seq(FrameType), NEW t
  PROVE  /\ Number(first, t) \in Nat /\ Number(then, t) \in Nat
         /\ Number(first \o then, t) = Number(first, t) + Number(then, t)
<1> DEFINE all == first \o then
           m == Len(first)
           k == Len(then)
<1>1. m \in Nat /\ k \in Nat /\ Len(all) = m + k
  BY LenProperties, ConcatProperties
<1>2. \A i \in 1..m + k : all[i] = IF i <= m THEN first[i] ELSE then[i - m]
  BY ConcatProperties
<1> HIDE DEF all, m, k
<1>3. Count(all, m, t) = Count(first, m, t)
  <2>1. \A i \in 1..m : i \in 1..m + k /\ i <= m
    BY <1>1
  <2>2. {i \in 1..m : all[i] = t} = {i \in 1..m : first[i] = t}
    BY <1>2, <2>1
  <2> QED
    BY <2>2 DEF Count
<1> DEFINE Good == {n \in Nat : n <= k => Count(all, m + n, t) = Count(first, m, t) + Count(then, n, t)}
<1>4. 0 \in Good
  <2>1. m + 0 = m /\ Count(first, m, t) \in Nat /\ Count(then, 0, t) = 0
    BY <1>1, CountStep, CountOfNone
  <2> QED
    BY <1>3, <2>1
<1>5. ASSUME NEW n \in Nat, n \in Good PROVE n + 1 \in Good
  <2> SUFFICES ASSUME n + 1 <= k
               PROVE  Count(all, m + (n + 1), t) = Count(first, m, t) + Count(then, n + 1, t)
    OBVIOUS
  <2>1. PICK j : j = m + n + 1
    OBVIOUS
  <2>2. j \in 1..m + k /\ ~(j <= m) /\ j - m = n + 1 /\ m + n \in Nat /\ m + (n + 1) = j /\ n <= k
    BY <1>1, <2>1
  <2>3. all[j] = then[n + 1]
    BY <1>2, <2>2
  <2>4. /\ all[j] = t => Count(all, j, t) = Count(all, m + n, t) + 1
        /\ all[j] # t => Count(all, j, t) = Count(all, m + n, t)
    BY <2>1, <2>2, CountStep
  <2>5. /\ then[n + 1] = t => Count(then, n + 1, t) = Count(then, n, t) + 1
        /\ then[n + 1] # t => Count(then, n + 1, t) = Count(then, n, t)
    BY CountStep
  <2>6. Count(all, m + n, t) = Count(first, m, t) + Count(then, n, t)
    BY <1>5, <2>2
  <2>7. Count(first, m, t) \in Nat /\ Count(then, n, t) \in Nat
    BY <1>1, CountStep
  <2> QED
    BY <2>2, <2>3, <2>4, <2>5, <2>6, <2>7
<1> HIDE DEF Good
<1>6. k \in Good /\ k <= k
  BY <1>1, <1>4, <1>5, NatSetInduction
<1>7. Count(all, m + k, t) = Count(first, m, t) + Count(then, k, t)
  BY <1>6 DEF Good
<1>8. Count(first, m, t) \in Nat /\ Count(then, k, t) \in Nat
  BY <1>1, CountStep
<1> QED
  BY <1>1, <1>7, <1>8 DEF Number, all, m, k

(* One frame is one of its type, and none of any other.                    *)
LEMMA NumberOfOne ==
  ASSUME NEW x, NEW t
  PROVE  Number(<<x>>, t) = (IF x = t THEN 1 ELSE 0) /\ Number(<<>>, t) = 0
<1>1. Count(<<x>>, 0, t) = 0 /\ Count(<<>>, 0, t) = 0
  BY CountOfNone
<1>2. PICK f, k, n : f = <<x>> /\ k = 0 /\ n = 1
  OBVIOUS
<1>3. k \in Nat /\ k + 1 = n /\ f[n] = x /\ Count(f, k, t) = 0
  BY <1>1, <1>2
<1>4. /\ f[k + 1] = t => Count(f, k + 1, t) = Count(f, k, t) + 1
      /\ f[k + 1] # t => Count(f, k + 1, t) = Count(f, k, t)
  BY <1>3, CountStep
<1>5. Count(f, n, t) = IF x = t THEN 1 ELSE 0
  BY <1>3, <1>4
<1>6. Len(<<x>>) = 1 /\ Len(<<>>) = 0
  OBVIOUS
<1> QED
  BY <1>1, <1>2, <1>5, <1>6 DEF Number

------------------------------------------------------------------------------
(* What the client sends.                                                  *)

\* At most so many frames of a type in a second, and of all types.
Due(t, s) ==
    CASE t = "ping" -> IF s % 2 = 0 THEN 1 ELSE 0
      [] t = "network.report" -> IF s % 5 = 0 THEN 1 ELSE 0
      [] t = "set_interval" -> IF s % 3 = 0 THEN 1 ELSE 0
      [] t = "subscribe" -> IF s = 0 THEN 5 ELSE 0
      [] t = "debug.tier_override" -> IF s = 0 THEN 1 ELSE 0
      [] OTHER -> 0
DueInAll(s) == IF s = 0 THEN 8 ELSE IF s = 1 THEN 0 ELSE 3

LEMMA SentIsDue ==
  ASSUME NEW s \in Nat
  PROVE  /\ SentAt(s) \in Seq(FrameType) /\ Len(SentAt(s)) \in Nat /\ Len(SentAt(s)) <= DueInAll(s)
         /\ \A t \in FrameType : Number(SentAt(s), t) \in Nat /\ Number(SentAt(s), t) <= Due(t, s)
<1>1. CASE s = 0
  <2> DEFINE five == [i \in 1..5 |-> "subscribe"]
  <2>1. five \in Seq(FrameType) /\ Len(five) = 5
    <3>1. five \in [1..5 -> FrameType]
      BY DEF FrameType
    <3> QED
      BY <3>1
  <2>2. SentAt(0) = five \o <<"set_interval", "debug.tier_override", "ping">>
    BY DEF SentAt
  <2>3. \A t : Number(five, t) = IF t = "subscribe" THEN 5 ELSE 0
    <3>1. ASSUME NEW t, t = "subscribe" PROVE Count(five, 5, t) = 5
      <4>1. {i \in 1..5 : five[i] = t} = 1..5
        BY <3>1
      <4>2. PICK m \in Int, n \in Int : m = 1 /\ n = 5
        OBVIOUS
      <4>3. Cardinality(m..n) = IF m > n THEN 0 ELSE n - m + 1
        BY FS_Interval
      <4>4. Cardinality(1..5) = 5
        BY <4>2, <4>3
      <4> QED
        BY <4>1, <4>4 DEF Count
    <3>2. ASSUME NEW t, t # "subscribe" PROVE Count(five, 5, t) = 0
      <4>1. {i \in 1..5 : five[i] = t} = {}
        BY <3>2
      <4> QED
        BY <4>1, FS_EmptySet DEF Count
    <3> HIDE DEF five
    <3> QED
      BY <2>1, <3>1, <3>2 DEF Number
  <2> HIDE DEF five
  <2> DEFINE a == <<"set_interval">>
             b == <<"debug.tier_override">>
             c == <<"ping">>
  <2>4. a \in Seq(FrameType) /\ b \in Seq(FrameType) /\ c \in Seq(FrameType)
        /\ Len(a) = 1 /\ Len(b) = 1 /\ Len(c) = 1
    BY DEF FrameType
  <2>5. <<"set_interval", "debug.tier_override", "ping">> = a \o (b \o c)
    OBVIOUS
  <2>6. \A t : /\ Number(a, t) = IF t = "set_interval" THEN 1 ELSE 0
               /\ Number(b, t) = IF t = "debug.tier_override" THEN 1 ELSE 0
               /\ Number(c, t) = IF t = "ping" THEN 1 ELSE 0
    BY NumberOfOne
  <2> HIDE DEF a, b, c
  <2>7. b \o c \in Seq(FrameType) /\ a \o (b \o c) \in Seq(FrameType)
        /\ five \o (a \o (b \o c)) \in Seq(FrameType) /\ Len(five \o (a \o (b \o c))) = 8
    <3>1. b \o c \in Seq(FrameType) /\ Len(b \o c) = Len(b) + Len(c)
      BY <2>4, ConcatProperties
    <3>2. /\ a \o (b \o c) \in Seq(FrameType)
          /\ Len(a \o (b \o c)) = Len(a) + Len(b \o c)
      BY <2>4, <3>1, ConcatProperties
    <3>3. /\ five \o (a \o (b \o c)) \in Seq(FrameType)
          /\ Len(five \o (a \o (b \o c))) = Len(five) + Len(a \o (b \o c))
      BY <2>1, <3>2, ConcatProperties
    <3> QED
      BY <2>1, <2>4, <3>1, <3>2, <3>3
  <2>8. ASSUME NEW t
        PROVE  Number(five \o (a \o (b \o c)), t)
               = Number(five, t) + (Number(a, t) + (Number(b, t) + Number(c, t)))
    <3>1. Number(b \o c, t) = Number(b, t) + Number(c, t)
      BY <2>4, NumberJoins
    <3>2. Number(a \o (b \o c), t) = Number(a, t) + Number(b \o c, t)
      <4>1. PICK d : d = b \o c
        OBVIOUS
      <4>2. d \in Seq(FrameType) /\ a \in Seq(FrameType)
        BY <2>4, <2>7, <4>1
      <4>3. Number(a \o d, t) = Number(a, t) + Number(d, t)
        BY <4>2, NumberJoins
      <4> QED
        BY <4>1, <4>3
    <3>3. Number(five \o (a \o (b \o c)), t) = Number(five, t) + Number(a \o (b \o c), t)
      BY <2>1, <2>7, NumberJoins
    <3> QED
      BY <3>1, <3>2, <3>3
  <2>9. SentAt(s) = five \o (a \o (b \o c))
    BY <1>1, <2>2, <2>5
  <2>10. 0 % 2 = 0 /\ 0 % 3 = 0 /\ 0 % 5 = 0
    OBVIOUS
  <2>11. \A t \in FrameType : Number(SentAt(s), t) \in Nat /\ Number(SentAt(s), t) <= Due(t, s)
    <3>1. ASSUME NEW t \in FrameType PROVE Number(SentAt(s), t) \in Nat /\ Number(SentAt(s), t) <= Due(t, s)
      <4>1. Number(SentAt(s), t) = Number(five, t) + (Number(a, t) + (Number(b, t) + Number(c, t)))
        BY <2>8, <2>9
      <4> QED
        BY <1>1, <2>3, <2>6, <2>10, <4>1 DEF Due, FrameType
    <3> QED
      BY <3>1
  <2> QED
    <3>1. SentAt(s) \in Seq(FrameType) /\ Len(SentAt(s)) = 8
      BY <2>7, <2>9
    <3>2. DueInAll(s) = 8
      BY <1>1 DEF DueInAll
    <3> QED
      BY <2>11, <3>1, <3>2
<1>2. CASE s # 0
  <2> DEFINE a == IF s % 2 = 0 THEN <<"ping">> ELSE <<>>
             b == IF s % 5 = 0 THEN <<"network.report">> ELSE <<>>
             c == IF s % 3 = 0 THEN <<"set_interval">> ELSE <<>>
  <2>1. SentAt(s) = a \o b \o c
    BY <1>2 DEF SentAt
  <2>2. a \in Seq(FrameType) /\ b \in Seq(FrameType) /\ c \in Seq(FrameType)
        /\ Len(a) \in 0..1 /\ Len(b) \in 0..1 /\ Len(c) \in 0..1
    <3>1. \A x \in FrameType : <<x>> \in Seq(FrameType) /\ Len(<<x>>) \in 0..1
      OBVIOUS
    <3>2. <<>> \in Seq(FrameType) /\ Len(<<>>) \in 0..1
      OBVIOUS
    <3>3. "ping" \in FrameType /\ "network.report" \in FrameType /\ "set_interval" \in FrameType
      BY DEF FrameType
    <3> QED
      BY <3>1, <3>2, <3>3
  <2>3. s = 1 => Len(a) = 0 /\ Len(b) = 0 /\ Len(c) = 0
    <3>1. 1 % 2 = 1 /\ 1 % 3 = 1 /\ 1 % 5 = 1
      OBVIOUS
    <3> QED
      BY <3>1
  <2>4. ASSUME NEW t
        PROVE  /\ Number(a, t) = IF t = "ping" /\ s % 2 = 0 THEN 1 ELSE 0
               /\ Number(b, t) = IF t = "network.report" /\ s % 5 = 0 THEN 1 ELSE 0
               /\ Number(c, t) = IF t = "set_interval" /\ s % 3 = 0 THEN 1 ELSE 0
    BY NumberOfOne
  <2> HIDE DEF a, b, c
  <2>5. a \o b \in Seq(FrameType) /\ Len(a \o b) = Len(a) + Len(b)
    BY <2>2, ConcatProperties
  <2>6. a \o b \o c \in Seq(FrameType) /\ Len(a \o b \o c) = Len(a) + Len(b) + Len(c)
    BY <2>2, <2>5, ConcatProperties
  <2>7. ASSUME NEW t \in FrameType PROVE Number(SentAt(s), t) \in Nat /\ Number(SentAt(s), t) <= Due(t, s)
    <3>1. Number(a \o b, t) = Number(a, t) + Number(b, t)
      BY <2>2, NumberJoins
    <3>2. Number(a \o b \o c, t) = Number(a \o b, t) + Number(c, t)
      BY <2>2, <2>5, NumberJoins
    <3>3. PICK x, y, z : x = Number(a, t) /\ y = Number(b, t) /\ z = Number(c, t)
      OBVIOUS
    <3>4. /\ x = IF t = "ping" /\ s % 2 = 0 THEN 1 ELSE 0
          /\ y = IF t = "network.report" /\ s % 5 = 0 THEN 1 ELSE 0
          /\ z = IF t = "set_interval" /\ s % 3 = 0 THEN 1 ELSE 0
      BY <2>4, <3>3
    <3>5. x + y + z \in Nat /\ x + y + z <= Due(t, s)
      BY <1>2, <3>4 DEF Due, FrameType
    <3>6. Number(SentAt(s), t) = x + y + z
      BY <2>1, <3>1, <3>2, <3>3
    <3> QED
      BY <3>5, <3>6
  <2>8. Len(SentAt(s)) = Len(a) + Len(b) + Len(c) /\ SentAt(s) \in Seq(FrameType)
    BY <2>1, <2>6
  <2>9. Len(SentAt(s)) \in Nat /\ Len(SentAt(s)) <= DueInAll(s)
    <3>1. PICK x, y, z : x = Len(a) /\ y = Len(b) /\ z = Len(c)
      OBVIOUS
    <3>2. x \in 0..1 /\ y \in 0..1 /\ z \in 0..1 /\ (s = 1 => x = 0 /\ y = 0 /\ z = 0)
      BY <2>2, <2>3, <3>1
    <3>3. x + y + z \in Nat /\ x + y + z <= DueInAll(s)
      BY <1>2, <3>2 DEF DueInAll
    <3> QED
      BY <2>8, <3>1, <3>3
  <2> QED
    BY <2>7, <2>8, <2>9
<1> QED
  BY <1>1, <1>2
------------------------------------------------------------------------------
(* The frames of a stall.                                                  *)

\* What the client may have sent in the k seconds that end with second s, the
\* first of them being the first of the connection or not.
Sends(types, s, k) ==
    /\ types \in Seq(FrameType)
    /\ 2 * Number(types, "ping") <= k + 1 - (s % 2)
    /\ 5 * Number(types, "network.report") <= k + 4 - (s % 5)
    /\ 3 * Number(types, "set_interval") <= k + 2 - (s % 3)
    /\ Number(types, "subscribe") <= IF k = s + 1 THEN 5 ELSE 0
    /\ Number(types, "debug.tier_override") <= IF k = s + 1 THEN 1 ELSE 0
    /\ Number(types, "unsubscribe") <= 0
    /\ Len(types) <= IF k = s + 1 THEN (IF k = 1 THEN 8 ELSE 3 * k + 2) ELSE 3 * k
    /\ k = 0 => types = <<>>

LEMMA SendsNothing ==
  ASSUME NEW s \in Int, s >= -1
  PROVE  Sends(<<>>, s, 0)
<1>1. \A t : Number(<<>>, t) = 0
  BY NumberOfOne
<1>2. s % 2 \in 0..1 /\ s % 5 \in 0..4 /\ s % 3 \in 0..2
  OBVIOUS
<1>3. <<>> \in Seq(FrameType) /\ Len(<<>>) = 0
  OBVIOUS
<1> QED
  BY <1>1, <1>2, <1>3 DEF Sends

(* One second more.                                                        *)
LEMMA SendsOn ==
  ASSUME NEW types, NEW s \in Int, s >= -1, NEW k \in Nat, k <= s + 1, Sends(types, s, k)
  PROVE  Sends(types \o SentAt(s + 1), s + 1, k + 1)
<1> DEFINE more == SentAt(s + 1)
           all == types \o more
<1>1. s + 1 \in Nat
  OBVIOUS
<1>2. /\ more \in Seq(FrameType) /\ Len(more) \in Nat /\ Len(more) <= DueInAll(s + 1)
      /\ \A t \in FrameType : Number(more, t) \in Nat /\ Number(more, t) <= Due(t, s + 1)
  BY <1>1, SentIsDue
<1>3. types \in Seq(FrameType) /\ Len(types) \in Nat
  BY LenProperties DEF Sends
<1> HIDE DEF more
<1>4. all \in Seq(FrameType) /\ Len(all) = Len(types) + Len(more)
  BY <1>2, <1>3, ConcatProperties
<1>5. ASSUME NEW t \in FrameType
      PROVE  /\ Number(types, t) \in Nat /\ Number(all, t) \in Nat
             /\ Due(t, s + 1) \in Nat /\ Number(all, t) <= Number(types, t) + Due(t, s + 1)
  <2>1. Number(types, t) \in Nat /\ Number(all, t) = Number(types, t) + Number(more, t)
    BY <1>2, <1>3, NumberJoins
  <2>2. PICK x \in Nat, y \in Nat : x = Number(types, t) /\ y = Number(more, t) /\ y <= Due(t, s + 1)
    BY <1>2, <2>1
  <2>3. Due(t, s + 1) \in Nat
    BY <1>1 DEF Due, FrameType
  <2> QED
    BY <2>1, <2>2, <2>3
<1> HIDE DEF all
<1>6. "ping" \in FrameType /\ "network.report" \in FrameType /\ "set_interval" \in FrameType
      /\ "subscribe" \in FrameType /\ "debug.tier_override" \in FrameType /\ "unsubscribe" \in FrameType
  BY DEF FrameType
<1>7. 2 * Number(all, "ping") <= (k + 1) + 1 - ((s + 1) % 2)
  <2>1. PICK x \in Nat, y \in Nat, z \in Nat : x = Number(types, "ping") /\ y = Number(all, "ping")
                                       /\ z = Due("ping", s + 1) /\ y <= x + z
    BY <1>5, <1>6
  <2>2. z = IF (s + 1) % 2 = 0 THEN 1 ELSE 0
    BY <2>1 DEF Due
  <2>3. 2 * x <= k + 1 - (s % 2)
    BY <2>1 DEF Sends
  <2>4. 2 * y <= (k + 1) + 1 - ((s + 1) % 2)
    BY <2>1, <2>2, <2>3
  <2> QED
    BY <2>1, <2>4
<1>8. 5 * Number(all, "network.report") <= (k + 1) + 4 - ((s + 1) % 5)
  <2>1. PICK x \in Nat, y \in Nat, z \in Nat : x = Number(types, "network.report") /\ y = Number(all, "network.report")
                                       /\ z = Due("network.report", s + 1) /\ y <= x + z
    BY <1>5, <1>6
  <2>2. z = IF (s + 1) % 5 = 0 THEN 1 ELSE 0
    BY <2>1 DEF Due
  <2>3. 5 * x <= k + 4 - (s % 5)
    BY <2>1 DEF Sends
  <2>4. 5 * y <= (k + 1) + 4 - ((s + 1) % 5)
    BY <2>1, <2>2, <2>3
  <2> QED
    BY <2>1, <2>4
<1>9. 3 * Number(all, "set_interval") <= (k + 1) + 2 - ((s + 1) % 3)
  <2>1. PICK x \in Nat, y \in Nat, z \in Nat : x = Number(types, "set_interval") /\ y = Number(all, "set_interval")
                                       /\ z = Due("set_interval", s + 1) /\ y <= x + z
    BY <1>5, <1>6
  <2>2. z = IF (s + 1) % 3 = 0 THEN 1 ELSE 0
    BY <2>1 DEF Due
  <2>3. 3 * x <= k + 2 - (s % 3)
    BY <2>1 DEF Sends
  <2>4. 3 * y <= (k + 1) + 2 - ((s + 1) % 3)
    BY <2>1, <2>2, <2>3
  <2> QED
    BY <2>1, <2>4
<1>10. ASSUME NEW t \in {"subscribe", "debug.tier_override", "unsubscribe"},
              NEW most, most = CASE t = "subscribe" -> 5 [] t = "debug.tier_override" -> 1 [] OTHER -> 0
       PROVE  Number(all, t) <= IF k + 1 = s + 1 + 1 THEN most ELSE 0
  <2>0. k = 0 => Number(types, t) = 0
    <3>1. k = 0 => types = <<>>
      BY DEF Sends
    <3> QED
      BY <3>1, NumberOfOne
  <2>1. PICK x \in Nat, y \in Nat, z \in Nat : x = Number(types, t) /\ y = Number(all, t)
                                       /\ z = Due(t, s + 1) /\ y <= x + z
    BY <1>5, <1>6
  <2>2. z = IF s + 1 = 0 THEN most ELSE 0
    BY <1>10, <2>1 DEF Due
  <2>3. x <= IF k = s + 1 THEN most ELSE 0
    BY <1>10, <2>1 DEF Sends
  <2>4. s + 1 = 0 => k = 0
    OBVIOUS
  <2>5. most \in Nat
    BY <1>10
  <2> QED
    BY <2>0, <2>1, <2>2, <2>3, <2>4, <2>5
<1>11. Len(all) <= IF k + 1 = s + 1 + 1 THEN (IF k + 1 = 1 THEN 8 ELSE 3 * (k + 1) + 2) ELSE 3 * (k + 1)
  <2>1. PICK x \in Nat, y \in Nat : x = Len(types) /\ y = Len(more) /\ Len(all) = x + y
    BY <1>2, <1>3, <1>4
  <2>2. x <= IF k = s + 1 THEN (IF k = 1 THEN 8 ELSE 3 * k + 2) ELSE 3 * k
    BY <2>1 DEF Sends
  <2>3. y <= IF s + 1 = 0 THEN 8 ELSE IF s + 1 = 1 THEN 0 ELSE 3
    BY <1>2, <2>1 DEF DueInAll
  <2>4. k = 0 => x = 0
    <3>1. k = 0 => types = <<>>
      BY DEF Sends
    <3> QED
      BY <2>1, <3>1
  <2> QED
    BY <2>1, <2>2, <2>3, <2>4
<1>12. Sends(all, s + 1, k + 1)
  <2>0. k + 1 # 0
    OBVIOUS
  <2>1. Number(all, "subscribe") <= IF k + 1 = s + 1 + 1 THEN 5 ELSE 0
    BY <1>10
  <2>2. Number(all, "debug.tier_override") <= IF k + 1 = s + 1 + 1 THEN 1 ELSE 0
    BY <1>10
  <2>3. Number(all, "unsubscribe") <= 0
    BY <1>10
  <2> QED
    BY <1>4, <1>7, <1>8, <1>9, <1>11, <2>0, <2>1, <2>2, <2>3 DEF Sends
<1> QED
  BY <1>12 DEF all, more

------------------------------------------------------------------------------
(* What a bucket can give.                                                 *)

(* The units it has when asked, and that these are enough for n tokens.    *)
Units(b, config, now) ==
    Capped(b.tokens + (IF now > b.at THEN now - b.at ELSE 0) * config.sustained,
           config.burst * PerSecond)
Gives(b, config, now, n) == Units(b, config, now) >= PerSecond * n

LEMMA UnitsNatural ==
  ASSUME NEW b \in Bucket, NEW config \in BucketConfig, NEW now \in Nat
  PROVE  /\ Units(b, config, now) \in Nat /\ Units(b, config, now) <= config.burst * PerSecond
         /\ b.at = now => Units(b, config, now) = Capped(b.tokens, config.burst * PerSecond)
<1>1. PerSecond \in Nat /\ b.tokens \in Nat /\ b.at \in Nat
      /\ config.sustained \in Nat /\ config.burst \in Nat
  BY FrameLimitsAssumption DEF Bucket, BucketConfig
<1>2. PICK e, r, c : /\ e = IF now > b.at THEN now - b.at ELSE 0
                     /\ r = config.sustained /\ c = config.burst * PerSecond
  OBVIOUS
<1>3. e \in Nat /\ r \in Nat /\ c \in Nat /\ e * r \in Nat
  BY <1>1, <1>2
<1>4. Units(b, config, now) = Capped(b.tokens + e * r, c)
  BY <1>2 DEF Units
<1>5. b.at = now => e * r = 0
  BY <1>1, <1>2, <1>3
<1> QED
  BY <1>1, <1>2, <1>3, <1>4, <1>5 DEF Capped

(* A bucket that gives n tokens and is asked for one gives n - 1 more, or, *)
(* if it refused, n.                                                       *)
LEMMA AskedGives ==
  ASSUME NEW b \in Bucket, NEW config \in BucketConfig, NEW now \in Nat,
         NEW n \in Int, Gives(b, config, now, n), NEW t, t = Take(b, config, now)
  PROVE  /\ t \in Bucket /\ t.at = now /\ Gives(t, config, now, n - 1)
         /\ n >= 1 => t.taken
         /\ ~t.taken => Gives(t, config, now, n)
<1>1. PICK u, p, c : u = Units(b, config, now) /\ p = PerSecond /\ c = config.burst * PerSecond
  OBVIOUS
<1>2. u \in Nat /\ p \in Nat \ {0} /\ u <= c /\ c \in Nat /\ u >= p * n
  BY <1>1, UnitsNatural, FrameLimitsAssumption DEF Gives, BucketConfig
<1>3. t = [tokens |-> IF u >= p THEN u - p ELSE u, at |-> now, taken |-> u >= p]
  BY <1>1 DEF Take, Units
<1>4. t.tokens = (IF u >= p THEN u - p ELSE u) /\ t.at = now /\ t.taken = (u >= p)
  BY <1>3
<1>5. t.tokens \in Nat /\ t.tokens <= c /\ t.taken \in BOOLEAN
  BY <1>2, <1>4
<1>6. t \in Bucket
  BY <1>4, <1>5, TakeIsBucket
<1>7. Units(t, config, now) = t.tokens
  <2>1. Units(t, config, now) = Capped(t.tokens, c)
    BY <1>1, <1>4, <1>6, UnitsNatural
  <2> QED
    BY <1>2, <1>5, <2>1 DEF Capped
<1>8. p * n \in Int /\ p * (n - 1) = p * n - p
  BY <1>2
<1>9. n >= 1 => u >= p
  <2>1. n >= 1 => p * n >= p
    BY <1>2
  <2> QED
    BY <1>2, <1>8, <2>1
<1>10. t.tokens >= p * (n - 1) /\ (~t.taken => t.tokens >= p * n)
  <2>1. u >= p => t.tokens = u - p /\ t.taken
    BY <1>4
  <2>2. ~(u >= p) => t.tokens = u
    BY <1>4
  <2>3. PICK m \in Int : m = p * n
    BY <1>2
  <2>4. t.tokens >= m - p
    BY <1>2, <2>1, <2>2, <2>3
  <2>5. ~t.taken => t.tokens >= m
    BY <1>2, <2>1, <2>2, <2>3
  <2> QED
    BY <1>8, <2>3, <2>4, <2>5
<1> QED
  BY <1>1, <1>4, <1>6, <1>7, <1>9, <1>10 DEF Gives

(* A new bucket gives its burst; one left alone for so many seconds gives  *)
(* what has come since, and no more than its burst.                        *)
LEMMA NewGives ==
  ASSUME NEW config \in BucketConfig, NEW b, b = FullBucket(config, 0), NEW now \in Nat,
         NEW n \in Nat, n <= config.burst
  PROVE  b \in Bucket /\ b.at = 0 /\ Gives(b, config, now, n)
<1>1. PerSecond \in Nat /\ config.sustained \in Nat /\ config.burst \in Nat
  BY FrameLimitsAssumption DEF BucketConfig
<1>2. PICK c : c = config.burst * PerSecond
  OBVIOUS
<1>3. c \in Nat /\ b = [tokens |-> c, at |-> 0, taken |-> TRUE]
  BY <1>1, <1>2 DEF FullBucket
<1>4. b \in Bucket /\ b.tokens = c /\ b.at = 0
  <2>1. b.tokens = c /\ b.at = 0 /\ b = [tokens |-> c, at |-> 0, taken |-> TRUE]
    BY <1>3
  <2>2. [tokens |-> c, at |-> 0, taken |-> TRUE] \in Bucket
    BY <1>3 DEF Bucket
  <2> QED
    BY <2>1, <2>2, Zenon
<1>5. PICK e : e = (IF now > 0 THEN now - 0 ELSE 0) * config.sustained
  OBVIOUS
<1>6. e \in Nat
  BY <1>1, <1>5
<1>7. Units(b, config, now) = c
  BY <1>2, <1>3, <1>4, <1>5, <1>6 DEF Units, Capped
<1>8. PerSecond * n <= c
  BY <1>1, <1>2
<1> QED
  BY <1>4, <1>7, <1>8 DEF Gives

LEMMA RestedGives ==
  ASSUME NEW config \in BucketConfig, NEW b \in Bucket, NEW s \in Nat, NEW k \in Nat,
         b.at + PerSecond * k <= PerSecond * s,
         NEW n \in Nat, n <= config.burst, n <= config.sustained * k
  PROVE  Gives(b, config, PerSecond * s, n)
<1>1. PICK p, r, now : p = PerSecond /\ r = config.sustained /\ now = PerSecond * s
  OBVIOUS
<1>2. /\ p \in Nat /\ r \in Nat /\ config.burst \in Nat /\ now \in Nat
      /\ b.tokens \in Nat /\ b.at \in Nat
  BY <1>1, FrameLimitsAssumption DEF Bucket, BucketConfig
<1>3. PICK e : e = IF now > b.at THEN now - b.at ELSE 0
  OBVIOUS
<1>4. e \in Nat /\ p * k \in Nat /\ e >= p * k
  BY <1>1, <1>2, <1>3
<1>5. e * r \in Nat /\ e * r >= (p * k) * r
  BY <1>2, <1>4
<1>6. (p * k) * r >= p * n
  <2>1. (p * k) * r = p * (r * k) /\ r * k \in Nat
    BY <1>2
  <2>2. p * (r * k) >= p * n
    BY <1>1, <1>2, <2>1
  <2> QED
    BY <2>1, <2>2
<1>7. config.burst * p >= p * n
  BY <1>2
<1>8. Units(b, config, now) = Capped(b.tokens + e * r, config.burst * p)
  BY <1>1, <1>3 DEF Units
<1>9. Units(b, config, now) >= p * n
  BY <1>2, <1>5, <1>6, <1>7, <1>8 DEF Capped
<1> QED
  BY <1>1, <1>9 DEF Gives

(* The limits of the server.                                               *)
LEMMA TheServerLimits ==
  /\ ServerLimits.global \in BucketConfig
  /\ ServerLimits.global.sustained = 20 /\ ServerLimits.global.burst = 40
  /\ \A t \in FrameType : ServerLimits.bucket[t] \in BucketConfig
  /\ ServerLimits.bucket["ping"].sustained = 2 /\ ServerLimits.bucket["ping"].burst = 4
  /\ ServerLimits.bucket["network.report"].sustained = 1
  /\ ServerLimits.bucket["network.report"].burst = 3
  /\ ServerLimits.bucket["debug.tier_override"].burst = 5
  /\ \A t \in {"subscribe", "unsubscribe", "set_interval"} :
       ServerLimits.bucket[t].sustained = 5 /\ ServerLimits.bucket[t].burst = 10
  /\ ServerLimits.strikeLimit = 3 /\ ServerLimits.window = 10 * PerSecond
<1>1. /\ ServerLimits.bucket = FrameBuckets
      /\ ServerLimits.global = [sustained |-> 20, burst |-> 2 * 20]
      /\ ServerLimits.strikeLimit = 3 /\ ServerLimits.window = 10 * PerSecond
  BY DEF ServerLimits, Limits
<1>2. \A t \in FrameType :
        FrameBuckets[t] = CASE t = "ping" -> [sustained |-> 2, burst |-> 4]
                            [] t = "network.report" -> [sustained |-> 1, burst |-> 3]
                            [] t = "debug.tier_override" -> [sustained |-> 2, burst |-> 5]
                            [] OTHER -> [sustained |-> 5, burst |-> 10]
  BY DEF FrameBuckets
<1>3. \A t \in FrameType : FrameBuckets[t] \in BucketConfig
  BY <1>2 DEF BucketConfig
<1>4. ServerLimits.global \in BucketConfig
      /\ ServerLimits.global.sustained = 20 /\ ServerLimits.global.burst = 40
  BY <1>1 DEF BucketConfig
<1>5. FrameBuckets["ping"].sustained = 2 /\ FrameBuckets["ping"].burst = 4
      /\ FrameBuckets["network.report"].sustained = 1 /\ FrameBuckets["network.report"].burst = 3
      /\ FrameBuckets["debug.tier_override"].burst = 5
  BY <1>2 DEF FrameType
<1>6. \A t \in {"subscribe", "unsubscribe", "set_interval"} :
        FrameBuckets[t].sustained = 5 /\ FrameBuckets[t].burst = 10
  BY <1>2 DEF FrameType
<1> QED
  BY <1>1, <1>3, <1>4, <1>5, <1>6

------------------------------------------------------------------------------
(* One frame after another, all at one time.                               *)

(* What is wanted of the bucket of a type: that it takes all its frames,   *)
(* but for pings that may be two more than it takes.                       *)
Wanted(types, pings, t) == IF t = "ping" THEN pings ELSE Number(types, t)

BucketsGive(l, types, pings, n, at) ==
    /\ l.global.at <= at /\ Gives(l.global, ServerLimits.global, at, Len(types) - n)
    /\ \A t \in FrameType :
         /\ l.byType[t].at <= at
         /\ Gives(l.byType[t], ServerLimits.bucket[t], at, Wanted(types, pings, t) - Count(types, n, t))

(* Only pings too many are refused, and only those refused are strikes.    *)
OnlyPings(l, types, pings, n, at, before) ==
    /\ \A i \in 1..Len(l.verdicts) :
         /\ l.verdicts[i] # "close"
         /\ Number(types, "ping") <= pings => l.verdicts[i] = "allow"
    /\ l.strikes # before =>
         /\ Number(types, "ping") > pings
         /\ Len(l.strikes) <= Count(types, n, "ping") - pings
         /\ \A i \in 1..Len(l.strikes) : l.strikes[i] <= at

Managed(l, types, pings, n, at, before) ==
    /\ l \in Limiter
    /\ BucketsGive(l, types, pings, n, at)
    /\ OnlyPings(l, types, pings, n, at, before)

(* What is asked of the frames and of the strikes before them.             *)
Manageable(types, pings, at, before) ==
    /\ types \in Seq(FrameType) /\ pings \in Nat /\ at \in Nat
    /\ Number(types, "ping") <= pings + 2
    /\ before \in Seq(Nat)
    /\ Number(types, "ping") > pings =>
         \A i \in 1..Len(before) : ~(at - before[i] < ServerLimits.window)

(* Strikes of the window are no more than there were; none if all are old. *)
Fewer(r, strikes, now, window) ==
    /\ r \in Seq(Nat) /\ Len(r) \in Nat /\ Len(r) <= Len(strikes)
    /\ (\A i \in 1..Len(strikes) : ~(now - strikes[i] < window)) => Len(r) = 0
    /\ \A i \in 1..Len(r) : \E j \in 1..Len(strikes) : r[i] = strikes[j]

LEMMA RecentAreFewer ==
  ASSUME NEW strikes \in Seq(Nat), NEW now, NEW window, NEW r, r = Recent(strikes, now, window)
  PROVE  Fewer(r, strikes, now, window)
<1>1. PICK h : Names(h, r, strikes, now, window, Len(strikes))
  BY RecentKeepsTheWindow
<1>2. PICK m, n : m = Len(r) /\ n = Len(strikes)
  OBVIOUS
<1>3. /\ r \in Seq(Nat) /\ h \in [1..m -> 1..n]
      /\ \A a, b \in 1..m : h[a] = h[b] => a = b
      /\ \A a \in 1..m : r[a] = strikes[h[a]] /\ now - strikes[h[a]] < window
  BY <1>1, <1>2 DEF Names
<1>4. m \in Nat /\ n \in Nat
  BY <1>2, <1>3, LenProperties
<1>5. m <= n
  <2>1. IsFiniteSet(1..n) /\ IsFiniteSet(1..m) /\ Cardinality(1..n) = n /\ Cardinality(1..m) = m
    BY <1>4, FS_Interval
  <2>2. h \in Injection(1..m, 1..n)
    BY <1>3 DEF Injection, IsInjective
  <2>3. Injection(1..m, 1..n) # {}
    BY <2>2
  <2>4. Cardinality(1..m) <= Cardinality(1..n)
    BY <2>1, <2>3, FS_Injection
  <2> QED
    BY <2>1, <2>4
<1>6. (\A i \in 1..n : ~(now - strikes[i] < window)) => m = 0
  <2> SUFFICES ASSUME \A i \in 1..n : ~(now - strikes[i] < window), m # 0 PROVE FALSE
    OBVIOUS
  <2>1. 1 \in 1..m
    BY <1>4
  <2>2. h[1] \in 1..n /\ now - strikes[h[1]] < window
    BY <1>3, <2>1
  <2> QED
    BY <2>2
<1>7. \A i \in 1..m : \E j \in 1..n : r[i] = strikes[j]
  BY <1>3
<1> QED
  BY <1>2, <1>3, <1>4, <1>5, <1>6, <1>7 DEF Fewer

(* A frame that is refused is a ping too many.                             *)
LEMMA StruckLittle ==
  ASSUME NEW types, NEW pings, NEW at, NEW before, Manageable(types, pings, at, before),
         NEW strikes \in Seq(Nat), NEW n \in Nat,
         strikes # before => /\ Number(types, "ping") > pings
                             /\ Len(strikes) <= Count(types, n, "ping") - pings
                             /\ \A i \in 1..Len(strikes) : strikes[i] <= at,
         n < Len(types), types[n + 1] = "ping", pings <= Count(types, n, "ping"),
         NEW s, Longer(s, Recent(strikes, at, ServerLimits.window), at)
  PROVE  /\ s \in Seq(Nat) /\ Number(types, "ping") > pings
         /\ Len(s) <= Count(types, n + 1, "ping") - pings /\ Len(s) < ServerLimits.strikeLimit
         /\ \A i \in 1..Len(s) : s[i] <= at
<1>1. PICK ping, r, l : ping = "ping" /\ r = Recent(strikes, at, ServerLimits.window) /\ l = Len(types)
  OBVIOUS
<1>2. /\ types \in Seq(FrameType) /\ pings \in Nat /\ at \in Nat /\ Number(types, ping) <= pings + 2
      /\ Number(types, ping) > pings => \A i \in 1..Len(before) : ~(at - before[i] < ServerLimits.window)
  BY <1>1 DEF Manageable
<1>3. PICK j : j = n + 1
  OBVIOUS
<1>4. l \in Nat /\ j \in Nat /\ j <= l
  BY <1>1, <1>2, <1>3, LenProperties
<1>5. /\ Count(types, n, ping) \in Nat /\ Count(types, j, ping) = Count(types, n, ping) + 1
      /\ Count(types, j, ping) <= Number(types, ping) /\ Number(types, ping) \in Nat
  <2>1. Count(types, n, ping) \in Nat /\ Count(types, j, ping) = Count(types, n, ping) + 1
    BY <1>1, <1>3, CountStep
  <2>2. Count(types, j, ping) <= Count(types, l, ping) /\ Count(types, l, ping) \in Nat
    BY <1>4, CountGrows, CountStep
  <2> QED
    BY <1>1, <2>1, <2>2 DEF Number
<1>6. Number(types, ping) > pings
  BY <1>1, <1>2, <1>5
<1>7. /\ r \in Seq(Nat) /\ Len(r) \in Nat /\ Len(r) <= Len(strikes)
      /\ (\A i \in 1..Len(strikes) : ~(at - strikes[i] < ServerLimits.window)) => Len(r) = 0
      /\ \A i \in 1..Len(r) : \E k \in 1..Len(strikes) : r[i] = strikes[k]
  <2>1. PICK w : w = ServerLimits.window
    OBVIOUS
  <2>2. r = Recent(strikes, at, w)
    BY <1>1, <2>1
  <2>3. Fewer(r, strikes, at, w)
    BY <2>2, RecentAreFewer
  <2> QED
    BY <2>1, <2>3 DEF Fewer
<1>8. Len(r) <= Count(types, n, ping) - pings
  <2>1. CASE strikes = before
    BY <1>1, <1>2, <1>5, <1>6, <1>7, <2>1
  <2>2. CASE strikes # before
    <3>1. Len(strikes) <= Count(types, n, ping) - pings /\ Len(strikes) \in Nat
      BY <1>1, <2>2, LenProperties
    <3> QED
      BY <1>2, <1>5, <1>7, <3>1
  <2> QED
    BY <2>1, <2>2
<1>9. \A i \in 1..Len(r) : r[i] <= at
  <2>1. CASE strikes = before
    BY <1>1, <1>2, <1>6, <1>7, <2>1
  <2>2. CASE strikes # before
    BY <1>7, <2>2
  <2> QED
    BY <2>1, <2>2
<1>10. s \in Seq(Nat) /\ Len(s) = Len(r) + 1 /\ s[Len(s)] = at /\ \A i \in 1..Len(r) : s[i] = r[i]
  BY <1>1, <1>2, <1>7, AppendProperties DEF Longer
<1>11. \A i \in 1..Len(s) : s[i] <= at
  <2>1. \A i \in 1..Len(s) : i \in 1..Len(r) \/ i = Len(s)
    BY <1>7, <1>10
  <2>2. at <= at
    BY <1>2
  <2> QED
    BY <1>9, <1>10, <2>1, <2>2
<1>12. ServerLimits.strikeLimit = 3
  BY TheServerLimits
<1>13. Len(s) <= Count(types, j, ping) - pings /\ Len(s) < 3
  <2>1. PICK a, b, c, d : a = Len(s) /\ b = Len(r) /\ c = Count(types, n, ping) /\ d = Number(types, ping)
    OBVIOUS
  <2>2. a = b + 1 /\ b \in Nat /\ c \in Nat /\ b <= c - pings /\ c + 1 <= d /\ d <= pings + 2
        /\ d \in Nat /\ pings \in Nat /\ Count(types, j, ping) = c + 1
    BY <1>2, <1>5, <1>7, <1>8, <1>10, <2>1
  <2>3. a <= c + 1 - pings /\ a < 3
    BY <2>2
  <2> QED
    BY <2>1, <2>2, <2>3
<1> QED
  BY <1>1, <1>3, <1>6, <1>10, <1>11, <1>12, <1>13

------------------------------------------------------------------------------
(* The verdicts and strikes after one more frame.                          *)
LEMMA VerdictsOneMore ==
  ASSUME NEW V, NEW verdicts \in Seq(V), NEW v \in V, NEW w, Longer(w, verdicts, v), NEW Good,
         \A i \in 1..Len(verdicts) : verdicts[i] \in Good, v \in Good
  PROVE  w \in Seq(V) /\ \A i \in 1..Len(w) : w[i] \in Good
<1>1. w \in Seq(V) /\ Len(w) = Len(verdicts) + 1 /\ w[Len(w)] = v
      /\ (\A i \in 1..Len(verdicts) : w[i] = verdicts[i]) /\ Len(verdicts) \in Nat
  BY AppendProperties, LenProperties DEF Longer
<1>2. \A i \in 1..Len(w) : i \in 1..Len(verdicts) \/ i = Len(w)
  BY <1>1
<1> QED
  BY <1>1, <1>2

(* One more frame is managed too.                                          *)
LEMMA OneMoreManaged ==
  ASSUME NEW types, NEW pings, NEW at, NEW before, Manageable(types, pings, at, before),
         NEW n \in Nat, n < Len(types), NEW l, Managed(l, types, pings, n, at, before),
         NEW r, r = CheckFrame(ServerLimits, l, types[n + 1], at)
  PROVE  Managed(r, types, pings, n + 1, at, before)
<1> DEFINE V == {"allow", "limit", "close"}
<1>1. PICK j, t : j = n + 1 /\ t = types[j]
  OBVIOUS
<1>2. types \in Seq(FrameType) /\ pings \in Nat /\ at \in Nat /\ before \in Seq(Nat)
  BY DEF Manageable
<1>3. Len(types) \in Nat /\ j \in Nat /\ j \in 1..Len(types) /\ t \in FrameType
  <2>1. Len(types) \in Nat /\ j \in 1..Len(types)
    BY <1>1, <1>2, LenProperties
  <2> QED
    BY <1>1, <1>2, <2>1, ElementOfSeq
<1>4. /\ l \in Limiter /\ BucketsGive(l, types, pings, n, at) /\ OnlyPings(l, types, pings, n, at, before)
      /\ l.global \in Bucket /\ l.byType \in [FrameType -> Bucket]
      /\ l.strikes \in Seq(Nat) /\ l.verdicts \in Seq(V)
  BY DEF Managed, Limiter
<1>5. PICK s, v, global, own :
         /\ global = ServerLimits.global /\ own = ServerLimits.bucket[t]
         /\ Longer(s, Recent(l.strikes, at, ServerLimits.window), at)
         /\ v \in {"close", "limit"} /\ (v = "close" <=> Len(s) >= ServerLimits.strikeLimit)
  <2>1. ASSUME NEW b \in BOOLEAN PROVE \E v \in {"close", "limit"} : v = "close" <=> b
    <3>1. CASE b
      BY <3>1
    <3>2. CASE ~b
      BY <3>2
    <3> QED
      BY <3>1, <3>2
  <2> QED
    BY <2>1 DEF Longer
<1>6. global \in BucketConfig /\ own \in BucketConfig
  BY <1>3, <1>5, TheServerLimits
<1>7. PICK g, o, b, c : /\ b = l.global /\ c = l.byType[t]
                        /\ g = Take(b, global, at) /\ o = Take(c, own, at)
  OBVIOUS
<1>8. b \in Bucket /\ c \in Bucket
  BY <1>3, <1>4, <1>7
<1>9. g \in Bucket /\ g.at = at /\ Gives(g, global, at, Len(types) - j) /\ g.taken
  <2>1. PICK m, m1 : m = Len(types) - n /\ m1 = Len(types) - j
    OBVIOUS
  <2>2. m \in Int /\ m >= 1 /\ m - 1 = m1
    BY <1>1, <1>3, <2>1
  <2>3. Gives(b, global, at, m)
    BY <1>4, <1>5, <1>7, <2>1 DEF BucketsGive
  <2>4. g \in Bucket /\ g.at = at /\ Gives(g, global, at, m - 1) /\ (m >= 1 => g.taken)
    BY <1>2, <1>6, <1>7, <1>8, <2>2, <2>3, AskedGives
  <2> QED
    BY <2>1, <2>2, <2>4
<1>10. PICK q, e, e1 : q = Wanted(types, pings, t) /\ e = Count(types, n, t) /\ e1 = Count(types, j, t)
  OBVIOUS
<1>11. e \in Nat /\ e1 = e + 1 /\ q \in Nat
  <2>1. e \in Nat /\ e1 = e + 1
    BY <1>1, <1>10, CountStep
  <2>2. Number(types, t) \in Nat
    BY <1>3, CountStep DEF Number
  <2> QED
    BY <1>2, <1>10, <2>1, <2>2 DEF Wanted
<1>12. /\ o \in Bucket /\ o.at = at /\ Gives(o, own, at, q - e1)
       /\ q >= e1 => o.taken
  <2>1. PICK m : m = q - e
    OBVIOUS
  <2>2. m \in Int /\ m - 1 = q - e1 /\ (q >= e1 => m >= 1)
    BY <1>11, <2>1
  <2>3. Gives(c, own, at, m)
    BY <1>3, <1>4, <1>5, <1>7, <1>10, <2>1 DEF BucketsGive
  <2>4. o \in Bucket /\ o.at = at /\ Gives(o, own, at, m - 1) /\ (m >= 1 => o.taken)
    BY <1>2, <1>6, <1>7, <1>8, <2>2, <2>3, AskedGives
  <2> QED
    BY <2>2, <2>4
<1>13. CheckedTo(r, l, t, g, o, s, v)
  <2>1. g.taken \in BOOLEAN /\ o.taken \in BOOLEAN
    BY <1>9, <1>12 DEF Bucket
  <2>2. /\ g = Take(l.global, ServerLimits.global, at)
        /\ o = Take(l.byType[t], ServerLimits.bucket[t], at)
        /\ r = CheckFrame(ServerLimits, l, t, at)
    BY <1>1, <1>5, <1>7
  <2> QED
    BY <1>3, <1>4, <1>5, <2>1, <2>2, Checked
<1>14. PICK byType : byType = [l.byType EXCEPT ![t] = o]
  OBVIOUS
<1>15. byType \in [FrameType -> Bucket] /\ byType[t] = o
       /\ \A x \in FrameType : x # t => byType[x] = l.byType[x]
  BY <1>3, <1>4, <1>12, <1>14
<1>16. /\ r.global = g /\ r.byType = byType
       /\ ~o.taken => r.strikes = s /\ Longer(r.verdicts, l.verdicts, v)
       /\ o.taken => r.strikes = l.strikes /\ Longer(r.verdicts, l.verdicts, "allow")
       /\ r = [global |-> g, byType |-> byType, strikes |-> r.strikes, verdicts |-> r.verdicts]
  <2>1. CASE o.taken
    <3>1. r = [global |-> g, byType |-> byType, strikes |-> l.strikes,
               verdicts |-> Append(l.verdicts, "allow")]
      BY <1>9, <1>13, <1>14, <2>1, Zenon DEF CheckedTo
    <3> QED
      BY <2>1, <3>1 DEF Longer
  <2>2. CASE ~o.taken
    <3>1. r = [global |-> g, byType |-> byType, strikes |-> s, verdicts |-> Append(l.verdicts, v)]
      BY <1>9, <1>13, <1>14, <2>2, Zenon DEF CheckedTo
    <3> QED
      BY <2>2, <3>1 DEF Longer
  <2> QED
    BY <2>1, <2>2
<1>17. BucketsGive(r, types, pings, j, at)
  <2>1. ASSUME NEW x \in FrameType
        PROVE  /\ byType[x].at <= at
               /\ Gives(byType[x], ServerLimits.bucket[x], at, Wanted(types, pings, x) - Count(types, j, x))
    <3>1. CASE x = t
      BY <1>2, <1>5, <1>10, <1>12, <1>15, <3>1
    <3>2. CASE x # t
      <4>1. Count(types, j, x) = Count(types, n, x)
        BY <1>1, <3>2, CountStep
      <4>2. /\ l.byType[x].at <= at
            /\ Gives(l.byType[x], ServerLimits.bucket[x], at, Wanted(types, pings, x) - Count(types, n, x))
        BY <1>4 DEF BucketsGive
      <4> QED
        BY <1>15, <3>2, <4>1, <4>2
    <3> QED
      BY <3>1, <3>2
  <2>2. r.global.at <= at /\ Gives(r.global, ServerLimits.global, at, Len(types) - j)
    BY <1>2, <1>5, <1>9, <1>16
  <2> QED
    BY <1>16, <2>1, <2>2 DEF BucketsGive
<1>18. PICK p, p1 : p = Count(types, n, "ping") /\ p1 = Count(types, j, "ping")
  OBVIOUS
<1>19. p \in Nat /\ p1 \in Nat /\ p <= p1
  BY <1>1, <1>18, CountStep, CountGrows
<1>20. PICK num, old, was, now, Good :
         /\ num = Number(types, "ping") /\ old = l.strikes /\ was = l.verdicts /\ now = r.verdicts
         /\ Good = {x \in V : x # "close" /\ (num <= pings => x = "allow")}
  OBVIOUS
<1>21. num \in Nat /\ was \in Seq(V)
  BY <1>3, <1>4, <1>20, CountStep DEF Number
<1>22. /\ \A i \in 1..Len(was) : was[i] \in Good
       /\ old # before =>
            /\ num > pings
            /\ Len(old) <= p - pings
            /\ \A i \in 1..Len(old) : old[i] <= at
  <2>1. /\ \A i \in 1..Len(was) : was[i] # "close" /\ (num <= pings => was[i] = "allow")
        /\ old # before =>
            /\ num > pings
            /\ Len(old) <= p - pings
            /\ \A i \in 1..Len(old) : old[i] <= at
    BY <1>4, <1>18, <1>20 DEF OnlyPings
  <2>2. \A i \in 1..Len(was) : was[i] \in V
    BY <1>21, ElementOfSeq
  <2> QED
    BY <1>20, <2>1, <2>2
<1>23. CASE o.taken
  <2>1. "allow" \in Good /\ "allow" \in V
    BY <1>20
  <2>2. now \in Seq(V) /\ \A i \in 1..Len(now) : now[i] \in Good
    <3>1. PICK a : a = "allow"
      OBVIOUS
    <3>2. a \in Good /\ a \in V /\ Longer(now, was, a)
      BY <1>16, <1>20, <1>23, <2>1, <3>1
    <3> HIDE DEF V
    <3> QED
      BY <1>21, <1>22, <3>2, VerdictsOneMore
  <2>3. old # before =>
          /\ num > pings
          /\ Len(old) <= p1 - pings
          /\ \A i \in 1..Len(old) : old[i] <= at
    <3>1. Len(old) \in Nat
      BY <1>4, <1>20, LenProperties
    <3> QED
      BY <1>2, <1>19, <1>22, <3>1
  <2>4. OnlyPings(r, types, pings, j, at, before)
    <3>1. r.strikes = old /\ r.verdicts = now
      BY <1>16, <1>20, <1>23
    <3> QED
      BY <1>18, <1>20, <2>2, <2>3, <3>1 DEF OnlyPings
  <2>5. r \in Limiter
    BY <1>4, <1>9, <1>15, <1>16, <1>20, <1>23, <2>2 DEF Limiter
  <2> QED
    BY <1>1, <1>17, <2>4, <2>5 DEF Managed
<1>24. CASE ~o.taken
  <2>1. t = "ping" /\ pings <= p
    <3>1. e1 > q
      BY <1>11, <1>12, <1>24
    <3>2. t # "ping" => e1 <= q
      <4>1. e1 <= Number(types, t)
        BY <1>3, <1>10, CountGrows DEF Number
      <4> QED
        BY <1>10, <4>1 DEF Wanted
    <3>3. t = "ping"
      BY <1>11, <3>1, <3>2
    <3>4. q = pings /\ e = p
      BY <1>10, <1>18, <3>3 DEF Wanted
    <3> QED
      BY <1>2, <1>11, <3>1, <3>3, <3>4
  <2>2. /\ s \in Seq(Nat) /\ num > pings /\ Len(s) <= p1 - pings /\ Len(s) < ServerLimits.strikeLimit
        /\ \A i \in 1..Len(s) : s[i] <= at
    <3>1. PICK strikes : strikes = l.strikes
      OBVIOUS
    <3>2. /\ strikes \in Seq(Nat) /\ Longer(s, Recent(strikes, at, ServerLimits.window), at)
          /\ strikes # before =>
               /\ Number(types, "ping") > pings
               /\ Len(strikes) <= Count(types, n, "ping") - pings
               /\ \A i \in 1..Len(strikes) : strikes[i] <= at
          /\ types[n + 1] = "ping" /\ pings <= Count(types, n, "ping")
      BY <1>1, <1>4, <1>5, <1>18, <2>1, <3>1 DEF OnlyPings
    <3>3. /\ s \in Seq(Nat) /\ Number(types, "ping") > pings
          /\ Len(s) <= Count(types, n + 1, "ping") - pings /\ Len(s) < ServerLimits.strikeLimit
          /\ \A i \in 1..Len(s) : s[i] <= at
      BY <3>2, StruckLittle
    <3> QED
      BY <1>1, <1>18, <1>20, <3>3
  <2>3. v \in Good /\ v \in V
    <3>1. Len(s) \in Nat /\ ServerLimits.strikeLimit = 3
      BY <2>2, LenProperties, TheServerLimits
    <3>2. v = "limit"
      BY <1>5, <2>2, <3>1
    <3> QED
      BY <1>2, <1>20, <1>21, <2>2, <3>2
  <2>4. now \in Seq(V) /\ \A i \in 1..Len(now) : now[i] \in Good
    <3>1. Longer(now, was, v)
      BY <1>16, <1>20, <1>24
    <3> HIDE DEF V
    <3> QED
      BY <1>21, <1>22, <2>3, <3>1, VerdictsOneMore
  <2>5. OnlyPings(r, types, pings, j, at, before)
    <3>1. r.strikes = s /\ r.verdicts = now
      BY <1>16, <1>20, <1>24
    <3> QED
      BY <1>18, <1>20, <2>2, <2>4, <3>1 DEF OnlyPings
  <2>6. r \in Limiter
    BY <1>9, <1>15, <1>16, <1>20, <1>24, <2>2, <2>4 DEF Limiter
  <2> QED
    BY <1>1, <1>17, <2>5, <2>6 DEF Managed
<1> QED
  BY <1>23, <1>24

------------------------------------------------------------------------------
(* f is the function Handled chooses, for the first n of the frames.       *)
IsHandled(f, first, types, at, n) ==
    f = [m \in 0..n |-> IF m = 0 THEN first ELSE CheckFrame(ServerLimits, f[m - 1], types[m], at)]

LEMMA HandledExists ==
  ASSUME NEW first, NEW types, NEW at, NEW n \in Nat
  PROVE  \E f : IsHandled(f, first, types, at, n)
<1> DEFINE After(l, m) == CheckFrame(ServerLimits, l, types[m], at)
<1> HIDE DEF After
<1>1. ASSUME NEW f, NEW m
      PROVE  IsHandled(f, first, types, at, m) <=>
             f = [k \in 0..m |-> IF k = 0 THEN first ELSE After(f[k - 1], k)]
  BY Zenon DEF After, IsHandled
<1> DEFINE Good == {m \in Nat : \E f : IsHandled(f, first, types, at, m)}
<1>2. 0 \in Good
  <2> DEFINE f == [k \in 0..0 |-> first]
  <2>1. f = [k \in 0..0 |-> IF k = 0 THEN first ELSE After(f[k - 1], k)]
    OBVIOUS
  <2> HIDE DEF f
  <2> QED
    BY <1>1, <2>1
<1>3. ASSUME NEW m \in Nat, m \in Good PROVE m + 1 \in Good
  <2>1. PICK f : f = [k \in 0..m |-> IF k = 0 THEN first ELSE After(f[k - 1], k)]
    BY <1>1, <1>3
  <2> DEFINE g == [k \in 0..m + 1 |-> IF k = m + 1 THEN After(f[m], k) ELSE f[k]]
  <2>2. ASSUME NEW k \in 0..m + 1
        PROVE  g[k] = IF k = 0 THEN first ELSE After(g[k - 1], k)
    <3>1. CASE k = m + 1
      <4>1. k - 1 = m /\ m \in 0..m + 1 /\ m # m + 1 /\ k # 0
        BY <3>1
      <4>2. g[m] = f[m] /\ g[k] = After(f[m], k)
        BY <3>1, <4>1
      <4> HIDE DEF g
      <4> QED
        BY <4>1, <4>2
    <3>2. CASE k # m + 1
      <4>1. k \in 0..m /\ g[k] = f[k]
        BY <3>2
      <4>2. f[k] = IF k = 0 THEN first ELSE After(f[k - 1], k)
        BY <2>1, <4>1
      <4>3. k # 0 => k - 1 \in 0..m + 1 /\ k - 1 # m + 1
        BY <4>1
      <4>4. k # 0 => g[k - 1] = f[k - 1]
        BY <4>3
      <4> HIDE DEF g
      <4> QED
        BY <4>1, <4>2, <4>4
    <3> QED
      BY <3>1, <3>2
  <2>3. g = [k \in 0..m + 1 |-> g[k]]
    OBVIOUS
  <2> HIDE DEF g
  <2>4. g = [k \in 0..m + 1 |-> IF k = 0 THEN first ELSE After(g[k - 1], k)]
    BY <2>2, <2>3
  <2>5. IsHandled(g, first, types, at, m + 1) /\ m + 1 \in Nat
    BY <1>1, <2>4
  <2> QED
    BY <2>5
<1> HIDE DEF Good
<1>4. n \in Good
  BY <1>2, <1>3, NatSetInduction
<1> QED
  BY <1>4 DEF Good

(* Frames that the limiter can manage are all managed.                     *)
LEMMA HandledManaged ==
  ASSUME NEW types, NEW pings, NEW at, NEW before, Manageable(types, pings, at, before),
         NEW first, first = [gate EXCEPT !.verdicts = <<>>],
         Managed(first, types, pings, 0, at, before)
  PROVE  Managed(Handled(types, at), types, pings, Len(types), at, before)
<1> DEFINE n == Len(types)
           f == CHOOSE f : IsHandled(f, first, types, at, n)
           Good == {m \in Nat : m <= n => Managed(f[m], types, pings, m, at, before)}
<1>1. n \in Nat
  BY LenProperties DEF Manageable
<1>2. IsHandled(f, first, types, at, n)
  BY <1>1, HandledExists, Zenon
<1>3. Handled(types, at) = f[n]
  BY DEF Handled, IsHandled
<1> HIDE DEF f, n
<1>4. /\ f[0] = first
      /\ \A m \in 1..n : f[m] = CheckFrame(ServerLimits, f[m - 1], types[m], at)
  <2>1. 0 \in 0..n /\ \A m \in 1..n : m \in 0..n /\ m # 0
    BY <1>1
  <2> QED
    BY <1>2, <2>1 DEF IsHandled
<1>5. 0 \in Good
  BY <1>4
<1>6. ASSUME NEW m \in Nat, m \in Good PROVE m + 1 \in Good
  <2> SUFFICES ASSUME m + 1 <= n PROVE Managed(f[m + 1], types, pings, m + 1, at, before)
    OBVIOUS
  <2>1. m + 1 \in 1..n /\ m <= n /\ m + 1 - 1 = m /\ m < n
    BY <1>1
  <2>2. PICK l, r : l = f[m] /\ r = f[m + 1]
    OBVIOUS
  <2>3. Managed(l, types, pings, m, at, before)
    BY <1>6, <2>1, <2>2
  <2>4. r = CheckFrame(ServerLimits, l, types[m + 1], at)
    BY <1>4, <2>1, <2>2
  <2>5. Managed(r, types, pings, m + 1, at, before)
    BY <2>1, <2>3, <2>4, OneMoreManaged DEF n
  <2> QED
    BY <2>2, <2>5
<1> HIDE DEF Good
<1>7. n \in Good /\ n <= n
  BY <1>1, <1>5, <1>6, NatSetInduction
<1>8. Managed(f[n], types, pings, n, at, before)
  BY <1>7 DEF Good
<1> QED
  BY <1>3, <1>8 DEF n

------------------------------------------------------------------------------
(* What the limiter can manage of what has been sent.                      *)

(* The limiter has seen nothing for k seconds, or nothing at all.          *)
Rested(l, s, k) ==
    /\ k = s + 1 => l = NewLimiter(ServerLimits, 0)
    /\ k # s + 1 =>
         /\ l.global.at <= PerSecond * (s - k)
         /\ \A t \in FrameType : l.byType[t].at <= PerSecond * (s - k)

(* Pings a bucket has for the frames of k seconds.                         *)
PingsFor(k) == IF k = 1 THEN 2 ELSE 4

(* A bucket gives n tokens to the frames of k seconds that arrive together.*)
Enough(config, n, first, k) == n <= config.burst /\ (~first => n <= config.sustained * k)

LEMMA FramesFit ==
  ASSUME NEW types, NEW s \in Nat, NEW k \in 1..12, k <= s + 1, Sends(types, s, k)
  PROVE  /\ Enough(ServerLimits.global, Len(types), k = s + 1, k)
         /\ \A t \in FrameType :
              /\ Wanted(types, PingsFor(k), t) \in Nat
              /\ Enough(ServerLimits.bucket[t], Wanted(types, PingsFor(k), t), k = s + 1, k)
         /\ Number(types, "ping") <= PingsFor(k) + 2
         /\ k <= 8 => Number(types, "ping") <= PingsFor(k)
<1>1. types \in Seq(FrameType) /\ Len(types) \in Nat /\ \A t \in FrameType : Number(types, t) \in Nat
  BY LenProperties, CountStep DEF Sends, Number
<1>2. s % 2 \in 0..1 /\ s % 5 \in 0..4 /\ s % 3 \in 0..2
  OBVIOUS
<1>3. PICK ping, report, interval, subscribe, override, unsubscribe :
        /\ ping = Number(types, "ping") /\ report = Number(types, "network.report")
        /\ interval = Number(types, "set_interval") /\ subscribe = Number(types, "subscribe")
        /\ override = Number(types, "debug.tier_override")
        /\ unsubscribe = Number(types, "unsubscribe")
  OBVIOUS
<1>4. ping \in Nat /\ report \in Nat /\ interval \in Nat /\ subscribe \in Nat /\ override \in Nat
      /\ unsubscribe \in Nat
  BY <1>1, <1>3 DEF FrameType
<1>5. /\ 2 * ping <= k + 1 /\ 5 * report <= k + 4 /\ 3 * interval <= k + 2
      /\ subscribe <= (IF k = s + 1 THEN 5 ELSE 0) /\ override <= (IF k = s + 1 THEN 1 ELSE 0)
      /\ unsubscribe <= 0
      /\ Len(types) <= IF k = s + 1 THEN (IF k = 1 THEN 8 ELSE 3 * k + 2) ELSE 3 * k
  <2>1. /\ 2 * ping <= k + 1 - (s % 2) /\ 5 * report <= k + 4 - (s % 5)
        /\ 3 * interval <= k + 2 - (s % 3)
        /\ subscribe <= (IF k = s + 1 THEN 5 ELSE 0) /\ override <= (IF k = s + 1 THEN 1 ELSE 0)
        /\ unsubscribe <= 0
        /\ Len(types) <= IF k = s + 1 THEN (IF k = 1 THEN 8 ELSE 3 * k + 2) ELSE 3 * k
    BY <1>3 DEF Sends
  <2> QED
    BY <1>2, <1>4, <2>1
<1>6. PingsFor(k) \in Nat /\ PingsFor(k) <= 4 /\ PingsFor(k) <= 2 * k
      /\ ping <= PingsFor(k) + 2 /\ (k <= 8 => ping <= PingsFor(k))
  BY <1>4, <1>5 DEF PingsFor
<1>7. report <= 3 /\ report <= 1 * k /\ interval <= 10 /\ interval <= 5 * k
      /\ subscribe <= 10 /\ override <= 5 /\ unsubscribe <= 10
      /\ (k # s + 1 => subscribe <= 0 /\ override <= 0)
  <2>1. k \in Nat /\ 1 <= k /\ k <= 12
    OBVIOUS
  <2>2. report <= 3 /\ report <= 1 * k
    BY <1>4, <1>5, <2>1
  <2>3. interval <= 10 /\ interval <= 5 * k
    BY <1>4, <1>5, <2>1
  <2>4. subscribe <= 10 /\ override <= 5 /\ unsubscribe <= 10
    BY <1>4, <1>5
  <2>5. k # s + 1 => subscribe <= 0 /\ override <= 0
    BY <1>5
  <2> QED
    BY <2>2, <2>3, <2>4, <2>5
<1>8. Len(types) <= 40 /\ (k # s + 1 => Len(types) <= 20 * k)
  <2>1. PICK x \in Nat : x = Len(types)
    BY <1>1
  <2>2. k \in Nat /\ 1 <= k /\ k <= 12
    OBVIOUS
  <2>3. CASE k = s + 1
    <3>1. x <= IF k = 1 THEN 8 ELSE 3 * k + 2
      BY <1>5, <2>1, <2>3
    <3>2. x <= 40
      BY <2>2, <3>1
    <3> QED
      BY <2>1, <2>3, <3>2
  <2>4. CASE k # s + 1
    <3>1. x <= 3 * k
      BY <1>5, <2>1, <2>4
    <3>2. x <= 40 /\ x <= 20 * k
      BY <2>2, <3>1
    <3> QED
      BY <2>1, <3>2
  <2> QED
    BY <2>3, <2>4
<1>9. ASSUME NEW t \in FrameType
      PROVE  /\ Wanted(types, PingsFor(k), t) \in Nat
             /\ Enough(ServerLimits.bucket[t], Wanted(types, PingsFor(k), t), k = s + 1, k)
  <2>1. PICK config, n : config = ServerLimits.bucket[t] /\ n = Wanted(types, PingsFor(k), t)
    OBVIOUS
  <2>2. config \in BucketConfig /\ config.sustained \in Nat /\ config.burst \in Nat
    BY <2>1, TheServerLimits DEF BucketConfig
  <2>3. CASE t = "ping"
    <3>1. config.sustained = 2 /\ config.burst = 4 /\ n = PingsFor(k)
      BY <2>1, <2>3, TheServerLimits DEF Wanted
    <3> QED
      BY <1>6, <2>1, <3>1 DEF Enough
  <2>4. CASE t = "network.report"
    <3>1. config.sustained = 1 /\ config.burst = 3 /\ n = report
      BY <1>3, <2>1, <2>4, TheServerLimits DEF Wanted
    <3> QED
      BY <1>4, <1>7, <2>1, <3>1 DEF Enough
  <2>5. CASE t = "debug.tier_override"
    <3>1. config.burst = 5 /\ n = override
      BY <1>3, <2>1, <2>5, TheServerLimits DEF Wanted
    <3>2. k # s + 1 => n <= config.sustained * k
      BY <1>4, <1>7, <2>2, <3>1
    <3> QED
      BY <1>4, <1>7, <2>1, <3>1, <3>2 DEF Enough
  <2>6. CASE t \in {"subscribe", "unsubscribe", "set_interval"}
    <3>1. config.sustained = 5 /\ config.burst = 10
      BY <2>1, <2>6, TheServerLimits
    <3>2. n \in Nat /\ n <= 10 /\ (k # s + 1 => n <= 5 * k)
      <4>1. n = Number(types, t)
        BY <2>1, <2>6 DEF Wanted
      <4>2. n = subscribe \/ n = unsubscribe \/ n = interval
        BY <1>3, <2>6, <4>1
      <4> QED
        BY <1>4, <1>5, <1>7, <4>2
    <3> QED
      BY <2>1, <3>1, <3>2 DEF Enough
  <2> QED
    BY <2>3, <2>4, <2>5, <2>6 DEF FrameType
<1>10. Enough(ServerLimits.global, Len(types), k = s + 1, k)
  BY <1>8, TheServerLimits DEF Enough
<1> QED
  BY <1>3, <1>6, <1>9, <1>10

(* A bucket that has rested, or is new, gives what is enough.              *)
LEMMA EnoughIsGiven ==
  ASSUME NEW config \in BucketConfig, NEW b \in Bucket, NEW s \in Nat, NEW k \in Nat, k <= s + 1,
         NEW n \in Nat, Enough(config, n, k = s + 1, k),
         k = s + 1 => b = FullBucket(config, 0),
         k # s + 1 => b.at <= PerSecond * (s - k)
  PROVE  b.at <= PerSecond * s /\ Gives(b, config, PerSecond * s, n)
<1>1. PICK p, now : p = PerSecond /\ now = PerSecond * s
  OBVIOUS
<1>2. p \in Nat /\ now \in Nat /\ b.at \in Nat
  BY <1>1, FrameLimitsAssumption DEF Bucket
<1>3. CASE k = s + 1
  <2>1. b.at = 0 /\ Gives(b, config, now, n)
    BY <1>2, <1>3, NewGives DEF Enough
  <2> QED
    BY <1>1, <1>2, <2>1
<1>4. CASE k # s + 1
  <2>1. s - k \in Nat /\ p * (s - k) = p * s - p * k /\ p * k \in Nat
    BY <1>2, <1>4
  <2>2. b.at + PerSecond * k <= PerSecond * s /\ b.at <= PerSecond * s
    BY <1>1, <1>2, <1>4, <2>1
  <2>3. n <= config.burst /\ n <= config.sustained * k
    BY <1>4 DEF Enough
  <2> QED
    BY <2>2, <2>3, RestedGives
<1> QED
  BY <1>3, <1>4

LEMMA GateManages ==
  ASSUME gate \in Limiter, NEW types, NEW s \in Nat, NEW k \in 1..12, k <= s + 1, Sends(types, s, k),
         Rested(gate, s, k), NEW first, first = [gate EXCEPT !.verdicts = <<>>]
  PROVE  Managed(first, types, PingsFor(k), 0, PerSecond * s, gate.strikes)
<1> DEFINE at == PerSecond * s
<1>1. /\ first = [global |-> gate.global, byType |-> gate.byType, strikes |-> gate.strikes,
                  verdicts |-> <<>>]
      /\ gate.global \in Bucket /\ gate.byType \in [FrameType -> Bucket] /\ gate.strikes \in Seq(Nat)
  BY DEF Limiter
<1>2. first.global = gate.global /\ first.byType = gate.byType /\ first.strikes = gate.strikes
      /\ first.verdicts = <<>>
  BY <1>1
<1>3. first \in Limiter
  <2>1. PICK global, byType, strikes, verdicts :
          /\ global = gate.global /\ byType = gate.byType /\ strikes = gate.strikes
          /\ verdicts = <<>>
    OBVIOUS
  <2>2. verdicts \in Seq({"allow", "limit", "close"})
    BY <2>1
  <2>3. [global |-> global, byType |-> byType, strikes |-> strikes, verdicts |-> verdicts] \in Limiter
    BY <1>1, <2>1, <2>2 DEF Limiter
  <2> QED
    BY <1>1, <2>1, <2>3, Zenon
<1>4. k \in Nat /\ Len(types) \in Nat
  <2>1. types \in Seq(FrameType)
    BY DEF Sends
  <2> QED
    BY <2>1, LenProperties
<1>5. k = s + 1 => /\ gate.global = FullBucket(ServerLimits.global, 0)
                   /\ \A t \in FrameType : gate.byType[t] = FullBucket(ServerLimits.bucket[t], 0)
  BY DEF Rested, NewLimiter
<1>6. gate.global.at <= at /\ Gives(gate.global, ServerLimits.global, at, Len(types))
  <2>1. PICK b, config, n : b = gate.global /\ config = ServerLimits.global /\ n = Len(types)
    OBVIOUS
  <2>2. config \in BucketConfig /\ b \in Bucket /\ n \in Nat /\ Enough(config, n, k = s + 1, k)
    BY <1>1, <1>4, <2>1, FramesFit, TheServerLimits
  <2>3. /\ k = s + 1 => b = FullBucket(config, 0)
        /\ k # s + 1 => b.at <= PerSecond * (s - k)
    BY <1>5, <2>1 DEF Rested
  <2>4. b.at <= PerSecond * s /\ Gives(b, config, PerSecond * s, n)
    BY <1>4, <2>2, <2>3, EnoughIsGiven
  <2> QED
    BY <2>1, <2>4
<1>7. ASSUME NEW t \in FrameType
      PROVE  /\ gate.byType[t].at <= at
             /\ Gives(gate.byType[t], ServerLimits.bucket[t], at,
                      Wanted(types, PingsFor(k), t) - Count(types, 0, t))
  <2>1. PICK b, config, n : /\ b = gate.byType[t] /\ config = ServerLimits.bucket[t]
                            /\ n = Wanted(types, PingsFor(k), t)
    OBVIOUS
  <2>2. config \in BucketConfig /\ b \in Bucket /\ n \in Nat /\ Enough(config, n, k = s + 1, k)
    BY <1>1, <2>1, FramesFit, TheServerLimits
  <2>3. /\ k = s + 1 => b = FullBucket(config, 0)
        /\ k # s + 1 => b.at <= PerSecond * (s - k)
    BY <1>5, <2>1 DEF Rested
  <2>4. b.at <= PerSecond * s /\ Gives(b, config, PerSecond * s, n)
    BY <1>4, <2>2, <2>3, EnoughIsGiven
  <2>5. n - Count(types, 0, t) = n
    BY <2>2, CountOfNone
  <2> QED
    BY <2>1, <2>4, <2>5
<1>8. BucketsGive(first, types, PingsFor(k), 0, at)
  <2>1. Len(types) - 0 = Len(types)
    BY <1>4
  <2> QED
    BY <1>2, <1>6, <1>7, <2>1 DEF BucketsGive
<1>9. OnlyPings(first, types, PingsFor(k), 0, at, gate.strikes)
  <2>1. 1..Len(first.verdicts) = {}
    BY <1>2
  <2> QED
    BY <1>2, <2>1 DEF OnlyPings
<1> QED
  BY <1>3, <1>8, <1>9 DEF Managed

------------------------------------------------------------------------------
(* The invariant: what is under way is what was sent in the seconds of the *)
(* stall; the limiter has rested for as long; and a strike is older by a   *)
(* second once the link has flowed for one after a stall.                  *)
StruckBefore(strikes, time) == \A i \in 1..Len(strikes) : strikes[i] <= time

Flowed(calm) == IF calm > 0 THEN 1 ELSE 0

LinkInv ==
    /\ second \in Int /\ second >= -1
    /\ stalledFor \in 0..LongestStall /\ stalledFor <= second + 1
    /\ calmFor \in 0..Calm /\ (stalledFor > 0 => calmFor = Calm)
    /\ Sends(waiting, second, stalledFor)
    /\ gate \in Limiter /\ Rested(gate, second, stalledFor)
    /\ StruckBefore(gate.strikes, PerSecond * (second - stalledFor - Flowed(calmFor)))
    /\ StalledClientIsKept

LEMMA NewLink ==
  ASSUME NEW g, g = NewLimiter(ServerLimits, 0)
  PROVE  g \in Limiter /\ g.strikes = <<>> /\ g.verdicts = <<>>
<1>1. /\ g.global = FullBucket(ServerLimits.global, 0)
      /\ g.byType = [type \in FrameType |-> FullBucket(ServerLimits.bucket[type], 0)]
      /\ g.strikes = <<>> /\ g.verdicts = <<>>
      /\ g = [global |-> g.global, byType |-> g.byType, strikes |-> <<>>, verdicts |-> <<>>]
  BY DEF NewLimiter
<1>2. ASSUME NEW config \in BucketConfig, NEW b, b = FullBucket(config, 0)
      PROVE  b \in Bucket
  <2>1. 0 \in Nat /\ config.burst \in Nat /\ 0 <= config.burst
    BY DEF BucketConfig
  <2> QED
    BY <1>2, <2>1, NewGives
<1>3. g.global \in Bucket /\ g.byType \in [FrameType -> Bucket]
  BY <1>1, <1>2, TheServerLimits
<1>4. g \in Limiter
  <2>1. PICK global, byType, none :
          global = g.global /\ byType = g.byType /\ none = <<>>
    OBVIOUS
  <2>2. none \in Seq(Nat) /\ none \in Seq({"allow", "limit", "close"})
    BY <2>1
  <2>3. [global |-> global, byType |-> byType, strikes |-> none, verdicts |-> none] \in Limiter
    BY <1>3, <2>1, <2>2 DEF Limiter
  <2> QED
    BY <1>1, <2>1, <2>3, Zenon
<1> QED
  BY <1>1, <1>4

(* A connection that begins.                                               *)
LEMMA LinkBegins ==
  ASSUME LinkInit PROVE LinkInv
<1>1. gate \in Limiter /\ gate.strikes = <<>> /\ gate.verdicts = <<>>
  BY NewLink DEF LinkInit
<1>2. second = -1 /\ stalledFor = 0 /\ calmFor = Calm /\ waiting = <<>> /\ arrived = 0
      /\ LongestStall \in Nat /\ Calm \in Nat
  BY StalledLinkAssumption DEF LinkInit
<1>3. Sends(waiting, second, stalledFor)
  <2>1. PICK s \in Int : s = -1
    OBVIOUS
  <2> QED
    BY <1>2, <2>1, SendsNothing
<1>4. Rested(gate, second, stalledFor)
  BY <1>2 DEF LinkInit, Rested
<1>5. StruckBefore(gate.strikes, PerSecond * (second - stalledFor - Flowed(calmFor)))
  BY <1>1 DEF StruckBefore
<1>6. Answers = {}
  BY <1>1 DEF Answers
<1>7. StalledClientIsKept
  BY <1>6 DEF StalledClientIsKept
<1> QED
  BY <1>1, <1>2, <1>3, <1>4, <1>5, <1>7 DEF LinkInv

(* A second in which the link flows.                                       *)
LEMMA LinkFlows ==
  ASSUME LongestStall <= 11, LongestStall <= 7 \/ Calm >= 1, LinkInv, Flow PROVE LinkInv'
<1>0. LongestStall \in Nat /\ Calm \in Nat /\ PerSecond \in Nat \ {0}
  BY StalledLinkAssumption, FrameLimitsAssumption
<1>1. PICK s, k, types, at, old, first :
        /\ s = second + 1 /\ k = stalledFor + 1 /\ types = waiting \o SentAt(s)
        /\ at = PerSecond * s /\ old = gate.strikes
        /\ first = [gate EXCEPT !.verdicts = <<>>]
  OBVIOUS
<1>2. /\ second' = s /\ stalledFor' = 0 /\ arrived' = k - 1 /\ waiting' = <<>>
      /\ gate' = Handled(types, at)
      /\ calmFor' = CASE stalledFor > 0 -> 0
                      [] stalledFor = 0 /\ calmFor < Calm -> calmFor + 1
                      [] OTHER -> calmFor
  <2>1. stalledFor \in Int
    BY DEF LinkInv
  <2>2. second' = s
    BY <1>1 DEF Flow
  <2>3. gate' = Handled(types, at) /\ arrived' = stalledFor /\ waiting' = <<>>
    BY <1>1, <2>2, Zenon DEF Flow, Deliver
  <2> QED
    BY <1>1, <2>1, <2>2, <2>3 DEF Flow
<1>3. /\ s \in Nat /\ k \in 1..12 /\ k <= s + 1 /\ s - 1 = second /\ k - 1 = stalledFor
      /\ at \in Nat /\ calmFor \in 0..Calm /\ (k > 1 => calmFor = Calm)
      /\ Sends(waiting, s - 1, k - 1)
  <2>1. /\ second \in Int /\ second >= -1 /\ stalledFor \in 0..LongestStall
        /\ stalledFor <= second + 1 /\ calmFor \in 0..Calm /\ (stalledFor > 0 => calmFor = Calm)
        /\ Sends(waiting, second, stalledFor)
    BY DEF LinkInv
  <2>2. s - 1 = second /\ k - 1 = stalledFor /\ s \in Nat /\ k \in 1..12 /\ k <= s + 1
    <3>1. stalledFor \in Int /\ 0 <= stalledFor /\ stalledFor <= 11 /\ second \in Int
      BY <1>0, <2>1
    <3>2. s = second + 1 /\ k = stalledFor + 1 /\ second >= -1 /\ stalledFor <= second + 1
      BY <1>1, <2>1
    <3>3. k \in 1..12 /\ k - 1 = stalledFor
      BY <3>1, <3>2
    <3>4. s \in Nat /\ s - 1 = second /\ k <= s + 1
      BY <3>1, <3>2
    <3> QED
      BY <3>3, <3>4
  <2>3. at \in Nat
    BY <1>0, <1>1, <2>2
  <2>4. k > 1 => calmFor = Calm
    <3>1. k > 1 => stalledFor > 0
      BY <2>2
    <3> QED
      BY <2>1, <3>1
  <2>5. Sends(waiting, s - 1, k - 1)
    BY <2>1, <2>2
  <2> QED
    BY <2>1, <2>2, <2>3, <2>4, <2>5
<1>4. Sends(types, s, k)
  <2>1. PICK s0 \in Int, k0 \in Nat : s0 = second /\ k0 = stalledFor
    BY <1>3
  <2>2. Sends(waiting \o SentAt(s0 + 1), s0 + 1, k0 + 1)
    BY <1>3, <2>1, SendsOn
  <2> QED
    BY <1>1, <2>1, <2>2
<1>5. gate \in Limiter /\ old \in Seq(Nat)
  BY <1>1 DEF LinkInv, Limiter
<1>6. Rested(gate, s, k)
  <2>1. Rested(gate, second, stalledFor)
    BY DEF LinkInv
  <2>2. (k = s + 1 <=> stalledFor = second + 1) /\ s - k = second - stalledFor
    <3>1. s \in Nat /\ k \in Nat /\ s - 1 = second /\ k - 1 = stalledFor
      BY <1>3
    <3> QED
      BY <3>1
  <2> QED
    BY <2>1, <2>2 DEF Rested
<1>7. Managed(first, types, PingsFor(k), 0, at, old)
  BY <1>1, <1>3, <1>4, <1>5, <1>6, GateManages
<1>8. StruckBefore(old, PerSecond * (s - k - Flowed(calmFor)))
  <2>1. s - k = second - stalledFor
    <3>1. s \in Nat /\ k \in Nat /\ s - 1 = second /\ k - 1 = stalledFor
      BY <1>3
    <3> QED
      BY <3>1
  <2> QED
    BY <1>1, <2>1 DEF LinkInv
<1>9. /\ Number(types, "ping") <= PingsFor(k) + 2
      /\ k <= 8 => Number(types, "ping") <= PingsFor(k)
      /\ Number(types, "ping") \in Nat /\ PingsFor(k) \in Nat
  <2>1. types \in Seq(FrameType) /\ Len(types) \in Nat
    BY <1>4, LenProperties DEF Sends
  <2> QED
    BY <1>3, <1>4, <2>1, FramesFit, CountStep DEF Number, PingsFor
<1>10. Manageable(types, PingsFor(k), at, old)
  <2>1. ASSUME Number(types, "ping") > PingsFor(k), NEW i \in 1..Len(old)
        PROVE  ~(at - old[i] < ServerLimits.window)
    <3>1. k >= 9
      BY <1>3, <1>9, <2>1
    <3>2. Flowed(calmFor) = 1
      <4>1. stalledFor <= LongestStall /\ stalledFor = k - 1 /\ k \in Nat /\ stalledFor \in Nat
        BY <1>3 DEF LinkInv
      <4>2. Calm >= 1
        BY <1>0, <3>1, <4>1
      <4> QED
        BY <1>0, <1>3, <3>1, <4>2 DEF Flowed
    <3>3. old[i] <= PerSecond * (s - k - 1) /\ old[i] \in Nat
      BY <1>5, <1>8, <3>2, ElementOfSeq DEF StruckBefore
    <3>4. at - PerSecond * (s - k - 1) = PerSecond * (k + 1)
      <4>1. PICK x \in Int, y \in Int, p \in Nat : x = p * s /\ y = p * k /\ p = PerSecond
        BY <1>0, <1>3
      <4>2. p * (s - k - 1) = x - y - p /\ p * (k + 1) = y + p
        BY <1>3, <4>1
      <4>3. at = x
        BY <1>1, <4>1
      <4> QED
        BY <4>1, <4>2, <4>3
    <3>5. PerSecond * (k + 1) >= 10 * PerSecond
      BY <1>0, <1>3, <3>1
    <3>6. ServerLimits.window = 10 * PerSecond
      BY TheServerLimits
    <3>7. PICK p \in Int, q \in Int : p = PerSecond * (s - k - 1) /\ q = PerSecond * (k + 1)
      BY <1>0, <1>3
    <3> QED
      BY <1>0, <1>3, <3>3, <3>4, <3>5, <3>6, <3>7
  <2>2. types \in Seq(FrameType)
    BY <1>4 DEF Sends
  <2> QED
    BY <1>3, <1>5, <1>9, <2>1, <2>2 DEF Manageable
<1>11. Managed(gate', types, PingsFor(k), Len(types), at, old)
  BY <1>1, <1>2, <1>7, <1>10, HandledManaged
<1>12. /\ gate' \in Limiter
       /\ gate'.global.at <= at /\ \A t \in FrameType : gate'.byType[t].at <= at
       /\ \A i \in 1..Len(gate'.verdicts) :
            gate'.verdicts[i] # "close" /\ (k <= 8 => gate'.verdicts[i] = "allow")
       /\ gate'.strikes # old => k > 8 /\ StruckBefore(gate'.strikes, at)
  <2>1. /\ gate' \in Limiter /\ BucketsGive(gate', types, PingsFor(k), Len(types), at)
        /\ OnlyPings(gate', types, PingsFor(k), Len(types), at, old)
    BY <1>11 DEF Managed
  <2>2. gate'.global.at <= at /\ \A t \in FrameType : gate'.byType[t].at <= at
    BY <2>1 DEF BucketsGive
  <2>3. \A i \in 1..Len(gate'.verdicts) :
            gate'.verdicts[i] # "close" /\ (k <= 8 => gate'.verdicts[i] = "allow")
    BY <1>9, <2>1 DEF OnlyPings
  <2>4. gate'.strikes # old => k > 8 /\ StruckBefore(gate'.strikes, at)
    BY <1>3, <1>9, <2>1 DEF OnlyPings, StruckBefore
  <2> QED
    BY <2>1, <2>2, <2>3, <2>4
<1>13. calmFor' \in 0..Calm /\ (k > 1 => calmFor' = 0) /\ Flowed(calmFor') \in 0..1
  <2>1. k \in Nat /\ 1 <= k /\ stalledFor = k - 1 /\ calmFor \in 0..Calm /\ Calm \in Nat
    BY <1>0, <1>3
  <2>2. CASE k > 1
    <3>1. stalledFor > 0
      BY <2>1, <2>2
    <3>2. calmFor' = 0
      BY <1>2, <3>1
    <3> QED
      BY <2>1, <3>2 DEF Flowed
  <2>3. CASE ~(k > 1)
    <3>1. stalledFor = 0
      BY <2>1, <2>3
    <3>2. calmFor' = IF calmFor < Calm THEN calmFor + 1 ELSE calmFor
      BY <1>2, <3>1
    <3> QED
      BY <2>1, <2>3, <3>2 DEF Flowed
  <2> QED
    BY <2>2, <2>3
<1>14. StruckBefore(gate'.strikes, PerSecond * (second' - stalledFor' - Flowed(calmFor')))
  <2>1. PICK c \in 0..1, d \in 0..1 : c = Flowed(calmFor) /\ d = Flowed(calmFor')
    BY <1>13 DEF Flowed
  <2>2. second' - stalledFor' - Flowed(calmFor') = s - d
    BY <1>2, <1>3, <2>1
  <2>3. CASE gate'.strikes = old
    <3>1. PerSecond * (s - k - c) <= PerSecond * (s - d)
      BY <1>0, <1>3
    <3>2. PICK p \in Int, q \in Int : p = PerSecond * (s - k - c) /\ q = PerSecond * (s - d)
      BY <1>0, <1>3
    <3>3. \A i \in 1..Len(old) : old[i] <= p /\ old[i] \in Nat
      BY <1>5, <1>8, <2>1, <3>2, ElementOfSeq DEF StruckBefore
    <3>4. \A i \in 1..Len(old) : old[i] <= q
      BY <3>1, <3>2, <3>3
    <3> QED
      BY <2>2, <2>3, <3>2, <3>4 DEF StruckBefore
  <2>4. CASE gate'.strikes # old
    <3>1. d = 0
      BY <1>3, <1>12, <1>13, <2>1, <2>4 DEF Flowed
    <3>2. PerSecond * (s - d) = at
      BY <1>0, <1>1, <1>3, <3>1
    <3> QED
      BY <1>12, <2>2, <2>4, <3>2
  <2> QED
    BY <2>3, <2>4
<1>15. StalledClientIsKept'
  <2>1. Answers' = {gate'.verdicts[i] : i \in 1..Len(gate'.verdicts)}
    BY DEF Answers
  <2>2. "close" \notin Answers'
    BY <1>12, <2>1
  <2>3. arrived' <= 7 => Answers' \subseteq {"allow"}
    <3>1. arrived' = k - 1 /\ k \in Nat
      BY <1>2, <1>3
    <3>2. arrived' <= 7 => k <= 8
      BY <3>1
    <3> QED
      BY <1>12, <2>1, <3>2
  <2> QED
    BY <2>2, <2>3 DEF StalledClientIsKept
<1>16. Rested(gate', second', stalledFor')
  <2>1. stalledFor' # second' + 1 /\ second' - stalledFor' = s
    BY <1>2, <1>3
  <2> QED
    BY <1>1, <1>12, <2>1 DEF Rested
<1>17. Sends(waiting', second', stalledFor')
  <2>1. s \in Int /\ s >= -1
    BY <1>3
  <2> QED
    BY <1>2, <2>1, SendsNothing
<1>18. /\ second' \in Int /\ second' >= -1 /\ stalledFor' \in 0..LongestStall
       /\ stalledFor' <= second' + 1 /\ (stalledFor' > 0 => calmFor' = Calm)
  BY <1>0, <1>2, <1>3
<1> QED
  BY <1>12, <1>13, <1>14, <1>15, <1>16, <1>17, <1>18, Zenon DEF LinkInv

(* A second in which it stalls.                                            *)
LEMMA LinkStalls ==
  ASSUME LinkInv, Stall PROVE LinkInv'
<1>1. /\ second' = second + 1 /\ stalledFor' = stalledFor + 1 /\ waiting' = waiting \o SentAt(second + 1)
      /\ calmFor' = calmFor /\ arrived' = arrived /\ gate' = gate
      /\ stalledFor < LongestStall /\ calmFor = Calm
  BY DEF Stall
<1>2. /\ second \in Int /\ second >= -1 /\ stalledFor \in 0..LongestStall /\ stalledFor <= second + 1
      /\ calmFor \in 0..Calm /\ Sends(waiting, second, stalledFor) /\ LongestStall \in Nat
  BY StalledLinkAssumption DEF LinkInv
<1>3. /\ second' \in Int /\ second' >= -1 /\ stalledFor' \in 0..LongestStall
      /\ stalledFor' <= second' + 1 /\ calmFor' \in 0..Calm /\ (stalledFor' > 0 => calmFor' = Calm)
  BY <1>1, <1>2
<1>4. Sends(waiting', second', stalledFor')
  <2>1. stalledFor \in Nat
    BY <1>2
  <2> QED
    BY <1>1, <1>2, <2>1, SendsOn
<1>5. second' - stalledFor' = second - stalledFor
      /\ (stalledFor' = second' + 1 <=> stalledFor = second + 1)
  BY <1>1, <1>2
<1>6. gate' \in Limiter /\ Rested(gate', second', stalledFor')
      /\ StruckBefore(gate'.strikes, PerSecond * (second' - stalledFor' - Flowed(calmFor')))
  BY <1>1, <1>5 DEF LinkInv, Rested
<1>7. StalledClientIsKept'
  BY <1>1 DEF LinkInv, StalledClientIsKept, Answers
<1> QED
  BY <1>3, <1>4, <1>6, <1>7 DEF LinkInv

(* On connections of any length: frames held up for eleven seconds or      *)
(* fewer, however often, close no socket, provided the link flows on for a *)
(* second after each stall if any is longer than seven; and held up for    *)
(* seven or fewer all are allowed.                                         *)
THEOREM StalledClientSurvives ==
  ASSUME LongestStall <= 11, LongestStall <= 7 \/ Calm >= 1
  PROVE  LinkSpec => []StalledClientIsKept
<1>1. LinkInit => LinkInv
  BY LinkBegins
<1>2. LinkInv /\ [LinkNext]_linkVars => LinkInv'
  <2> SUFFICES ASSUME LinkInv, [LinkNext]_linkVars PROVE LinkInv'
    OBVIOUS
  <2>1. CASE Flow
    BY <2>1, LinkFlows
  <2>2. CASE Stall
    BY <2>2, LinkStalls
  <2>3. CASE LinkEnds
    <3>1. LinkInit'
      BY <2>3 DEF LinkEnds, LinkInit
    <3>2. LinkInit' => LinkInv'
      BY <1>1, PTL
    <3> QED
      BY <3>1, <3>2
  <2>4. CASE UNCHANGED linkVars
    BY <2>4 DEF linkVars, LinkInv, Rested, StalledClientIsKept, Answers
  <2> QED
    BY <2>1, <2>2, <2>3, <2>4 DEF LinkNext
<1>3. LinkInv => StalledClientIsKept
  BY DEF LinkInv
<1> QED
  BY <1>1, <1>2, <1>3, PTL DEF LinkSpec

==============================================================================
