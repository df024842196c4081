------------------------------- MODULE Connection -------------------------------
(***************************************************************************)
(* One connection as the gateway keeps it: the tier its reports and its    *)
(* silences earn it, the override of the debug drawer, the tier the client *)
(* is told, and the heartbeat timer that closes a dead socket.             *)
(*                                                                         *)
(* Times are ages: how long ago the last frame, the last report and the    *)
(* last timer were.  An age stops growing once no comparison can tell it   *)
(* from a greater one.  Subscriptions and deliveries are in                *)
(* CandleDelivery; what the rate limiter says of a frame is left open.     *)
(***************************************************************************)
EXTENDS Tiers

CONSTANTS
    DemoteReports, PromoteReports,   \* HYSTERESIS
    DemoteOneTier, ForceMinimal,     \* MISSING_REPORT_MS
    HeartbeatTimeout, CheckEvery,    \* heartbeatTimeoutMs, heartbeatCheckMs
    MaxLate,          \* bound: how late the timer runs at most
    Rtt, Jitter       \* the bands of rtt and jitter that reports fall in

ASSUME ConnectionAssumption ==
    /\ None \notin Tier
    /\ DemoteReports \in Nat \ {0} /\ PromoteReports \in Nat \ {0}
    /\ DemoteOneTier \in Nat \ {0} /\ ForceMinimal \in Nat /\ DemoteOneTier < ForceMinimal
    /\ HeartbeatTimeout \in Nat /\ CheckEvery \in Nat \ {0} /\ MaxLate \in Nat
    /\ Rtt \subseteq 0..4 /\ Jitter \subseteq 0..4
    /\ DebugControls \in BOOLEAN

VARIABLES
    phase,       \* of the socket
    autoTier, tierOverride,
    good, bad,   \* consecutiveGoodReports, consecutiveBadReports
    demotedForSilence,
    reportAge,   \* since lastNetworkReportAt, or else connectedAt
    inboundAge,  \* since lastInboundAt
    checkAge,    \* since the heartbeat timer last ran
    told,        \* the effective tier in the last hello or tier.changed
    goodRun,     \* history: how many reports in a row, up to now, were good for
    badRun,      \*   each tier, and how many were bad for it
    heard        \* history: the tier after the last report

tierVars == <<autoTier, tierOverride, good, bad, demotedForSilence>>
ages == <<reportAge, inboundAge, checkAge>>
history == <<goodRun, badRun, heard>>
vars == <<phase, tierVars, ages, told, history>>

MostCheck == CheckEvery + MaxLate
MostReport == ForceMinimal + MostCheck
MostInbound == HeartbeatTimeout + 1 + MostCheck

\* Both counters are reset as they reach their limit.
TypeOK ==
    /\ phase \in {"open", "closing", "closed"}
    /\ autoTier \in Tier /\ tierOverride \in Tier \cup {None}
    /\ good \in 0..PromoteReports - 1 /\ bad \in 0..DemoteReports - 1
    /\ demotedForSilence \in BOOLEAN
    /\ reportAge \in 0..MostReport /\ inboundAge \in 0..MostInbound
    /\ checkAge \in 0..MostCheck
    /\ told \in Tier /\ heard \in Tier
    /\ goodRun \in [Tier -> 0..PromoteReports] /\ badRun \in [Tier -> 0..DemoteReports]

Least(m, n) == IF m < n THEN m ELSE n

------------------------------------------------------------------------------
(* Tiers.  The thresholds cut a report's rtt into five bands: under 100,   *)
(* to 150, under 250, to 350, over it; and its jitter at 25, 40, 70, 100.  *)

IsBad(tier, rtt, jitter) ==
    \/ tier = "full" /\ (rtt >= 2 \/ jitter >= 2)
    \/ tier = "degraded" /\ (rtt = 4 \/ jitter = 4)

IsGood(tier, rtt, jitter) ==
    \/ tier = "degraded" /\ rtt = 0 /\ jitter = 0
    \/ tier = "minimal" /\ rtt <= 2 /\ jitter <= 2

Demoted(tier) == IF tier = "full" THEN "degraded" ELSE "minimal"

PromotedOneByOne(tier) == IF tier = "minimal" THEN "degraded" ELSE tier
Promoted(tier) == IF tier = "minimal" THEN "degraded" ELSE "full"

EffectiveTier == Effective(tierOverride, autoTier)

\* announceTier, when the effective tier has moved; a closing socket sends nothing.
AnnouncedWithAuto(override, auto) ==
    IF phase = "open" /\ auto # autoTier THEN Effective(override, auto) ELSE told
Announced(override, auto) ==
    IF phase = "open" /\ Effective(override, auto) # EffectiveTier
    THEN Effective(override, auto) ELSE told

\* applyReport: what a report makes of the tier and of both counters.
ReportedCountingOn(isGood, isBad) ==
    LET goods == IF isGood THEN good + 1 ELSE IF isBad THEN 0 ELSE good
        bads == IF isBad THEN bad + 1 ELSE 0
    IN  CASE bads >= DemoteReports -> <<Demoted(autoTier), 0, 0>>
          [] goods >= PromoteReports -> <<Promoted(autoTier), 0, 0>>
          [] OTHER -> <<autoTier, goods, bads>>

Reported(isGood, isBad) ==
    LET goods == IF isGood THEN good + 1 ELSE 0
        bads == IF isBad THEN bad + 1 ELSE 0
    IN  CASE bads >= DemoteReports -> <<Demoted(autoTier), 0, 0>>
          [] goods >= PromoteReports -> <<Promoted(autoTier), 0, 0>>
          [] OTHER -> <<autoTier, goods, bads>>

------------------------------------------------------------------------------
(* Frames of the client.  They are handled until the socket has closed.    *)

Inbound == phase # "closed" /\ inboundAge' = 0 /\ UNCHANGED checkAge

Report(rtt, jitter) ==
    LET result == Reported(IsGood(autoTier, rtt, jitter), IsBad(autoTier, rtt, jitter))
    IN  /\ Inbound
        /\ reportAge' = 0
        /\ demotedForSilence' = FALSE
        /\ autoTier' = result[1] /\ good' = result[2] /\ bad' = result[3]
        /\ told' = Announced(tierOverride, result[1])
        /\ goodRun' = [t \in Tier |->
                         IF IsGood(t, rtt, jitter) THEN Least(goodRun[t] + 1, PromoteReports) ELSE 0]
        /\ badRun' = [t \in Tier |->
                        IF IsBad(t, rtt, jitter) THEN Least(badRun[t] + 1, DemoteReports) ELSE 0]
        /\ heard' = result[1]
        /\ UNCHANGED <<phase, tierOverride>>

Override(tier) ==
    /\ DebugControls
    /\ Inbound
    /\ tierOverride' = tier
    /\ told' = Announced(tier, autoTier)
    /\ UNCHANGED <<phase, autoTier, good, bad, demotedForSilence, reportAge, history>>

\* A ping, a subscription, or a frame that is malformed, limited or rejected.
OtherFrame ==
    /\ Inbound
    /\ UNCHANGED <<phase, tierVars, reportAge, told, history>>

\* Once too often over the limit.
Abuse ==
    /\ Inbound
    /\ phase' = "closing"
    /\ UNCHANGED <<tierVars, reportAge, told, history>>

------------------------------------------------------------------------------
(* Time, the timer and the socket.                                         *)

\* applySilence.
LongSilent == reportAge >= ForceMinimal
Silent == DemoteOneTier <= reportAge /\ ~LongSilent
SilencedOnce ==
    CASE LongSilent /\ ~demotedForSilence -> "minimal"
      [] Silent /\ ~demotedForSilence -> Demoted(autoTier)
      [] OTHER -> autoTier

Silenced ==
    CASE LongSilent -> "minimal"
      [] Silent /\ ~demotedForSilence -> Demoted(autoTier)
      [] OTHER -> autoTier

HeartbeatLost ==
    /\ inboundAge > HeartbeatTimeout
    /\ phase' = "closing"
    /\ UNCHANGED <<tierVars, told>>

CheckSilenceEveryTime ==
    /\ inboundAge <= HeartbeatTimeout
    /\ autoTier' = Silenced
    /\ told' = Announced(tierOverride, Silenced)
    /\ UNCHANGED <<phase, tierOverride, good, bad, demotedForSilence>>

CheckSilence ==
    /\ inboundAge <= HeartbeatTimeout
    /\ autoTier' = Silenced
    /\ demotedForSilence' = (demotedForSilence \/ Silent)
    /\ told' = Announced(tierOverride, Silenced)
    /\ UNCHANGED <<phase, tierOverride, good, bad>>

Check ==
    /\ phase # "closed" /\ checkAge >= CheckEvery
    /\ checkAge' = 0
    /\ HeartbeatLost \/ CheckSilence
    /\ UNCHANGED <<reportAge, inboundAge, history>>

Pass ==
    /\ phase # "closed" /\ checkAge < MostCheck
    /\ reportAge' = Least(reportAge + 1, MostReport)
    /\ inboundAge' = Least(inboundAge + 1, MostInbound)
    /\ checkAge' = checkAge + 1
    /\ UNCHANGED <<phase, tierVars, told, history>>

\* The dispatcher closes under backpressure.
Backpressure ==
    /\ phase = "open"
    /\ phase' = "closing"
    /\ UNCHANGED <<tierVars, ages, told, history>>

Closed ==
    /\ phase # "closed"
    /\ phase' = "closed"
    /\ UNCHANGED <<tierVars, ages, told, history>>

NoRuns == [t \in Tier |-> 0]

\* The client comes back: a new socket, a new session, a hello.
Accept ==
    /\ phase = "closed" /\ phase' = "open"
    /\ autoTier' = "degraded" /\ tierOverride' = None /\ told' = "degraded"
    /\ good' = 0 /\ bad' = 0 /\ demotedForSilence' = FALSE
    /\ reportAge' = 0 /\ inboundAge' = 0 /\ checkAge' = 0
    /\ heard' = "degraded" /\ goodRun' = NoRuns /\ badRun' = NoRuns

Init ==
    /\ phase = "open"
    /\ autoTier = "degraded" /\ tierOverride = None /\ told = "degraded"
    /\ good = 0 /\ bad = 0 /\ demotedForSilence = FALSE
    /\ reportAge = 0 /\ inboundAge = 0 /\ checkAge = 0
    /\ heard = "degraded" /\ goodRun = NoRuns /\ badRun = NoRuns

Next ==
    \/ \E rtt \in Rtt, jitter \in Jitter : Report(rtt, jitter)
    \/ \E tier \in Tier \cup {None} : Override(tier)
    \/ OtherFrame \/ Abuse
    \/ Check \/ Pass \/ Backpressure \/ Closed \/ Accept

Spec == Init /\ [][Next]_vars

\* Time passes and the timer runs.
FairSpec == Spec /\ WF_vars(Pass) /\ WF_vars(Check)

------------------------------------------------------------------------------
(* The tier an open client was last told is the tier it is served at,      *)
(* whichever of reports, silence and the override moved it last.           *)
(* (announceTier: "so the UI never has to infer it", gateway.ts:131)       *)
ClientKnowsTier == phase = "open" => told = EffectiveTier

\* A report moves the tier, so that it is heard' when it was autoTier.
MovedByReport == phase # "closed" /\ reportAge' = 0 /\ heard' # autoTier

(* A report moves the tier up only as the last of a run of reports all     *)
(* good for the tier it leaves, and down only as the last of a run all bad *)
(* for full, being bad for the tier it leaves itself: whatever silences,   *)
(* overrides and moves came in between.  (applyReport's two counters, that *)
(* serve every tier and that no silence resets)                            *)
MovesAreConfirmed ==
    [][MovedByReport =>
          \/ heard' = Promoted(autoTier) /\ goodRun'[autoTier] = PromoteReports
          \/ /\ heard' = Demoted(autoTier)
             /\ badRun'["full"] = DemoteReports /\ badRun'[autoTier] > 0]_vars

(* One silence costs one tier, however often the timer runs, until it has  *)
(* lasted long enough to cost them all.                                    *)
OneTierPerSilence == reportAge < ForceMinimal => autoTier \in {heard, Demoted(heard)}

(* The timer notices a silence within one turn: an open connection that    *)
(* does not report is at minimal by then, and one that sends nothing at    *)
(* all is not open.  (gateway.ts:194, one timer for both; applySilence)    *)
SilenceIsNoticed ==
    phase = "open" => /\ reportAge = MostReport => autoTier = "minimal"
                      /\ inboundAge < MostInbound

(* Silence costs what it should, no less and no more, although a timer     *)
(* that may be late looks at it many times and a report may end it between *)
(* any two looks.  (applySilence: "15 sec: downgrade one tier once during  *)
(* this silence period", docs/03-adaptive-delivery.md)                     *)
SilenceIsHeeded == OneTierPerSilence /\ SilenceIsNoticed

(* A link that has become good and keeps reporting ends at full, however   *)
(* its tier, its counters and the override stood before.                   *)
(* (applyReport and applySilence together)                                 *)
GoodLinkReachesFull ==
    <>[](phase = "open" /\ reportAge < DemoteOneTier /\ (reportAge = 0 => goodRun["degraded"] > 0))
        => <>[](autoTier = "full")

(* docs/03-adaptive-delivery.md:220 of the step from degraded to minimal:  *)
(* "Require 3 consecutive reports where" they are bad for degraded.        *)
DemotionIsConfirmed ==
    [][MovedByReport /\ heard' = Demoted(autoTier) => badRun'[autoTier] = DemoteReports]_vars
==============================================================================
