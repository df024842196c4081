------------------------------ MODULE Measurement ------------------------------
(***************************************************************************)
(* The client's measurement of its link (apps/web, SocketMeasurement and   *)
(* LatencyTracker): pings by their number, pongs that come late, twice or  *)
(* for a socket that is gone, the smoothed round trip and jitter, and the  *)
(* reports the server's tier rests on.                                     *)
(*                                                                         *)
(* The averages, at a weight of a fifth, are kept as exact numerators over *)
(* `scale`, a power of five that grows with every sample.                  *)
(***************************************************************************)
EXTENDS Integers, FiniteSets, SequencesExt

CONSTANTS
    MaxPending,  \* pings remembered at most (16 in the code)
    MaxPings,    \* bound: pings sent
    MaxTime      \* bound: time measured

ASSUME MeasurementAssumption == MaxPending \in Nat \ {0} /\ MaxPings \in Nat /\ MaxTime \in Nat

VARIABLES
    timersRun,     \* the two timers run
    pingSequence,  \* #pingSequence
    pendingPings,  \* #pendingPings in the order they were sent: [id, at]
    latency,       \* the LatencyTracker
    report,        \* what sendNetworkReport found to send, [rtt, jitter] in tenths
    time,          \* performance.now()
    unanswered,    \* history: the pings of this socket that no pong has answered
    trips,         \* history: how long the answers on this socket took
    fresh          \* history: how many came since the last report

measureVars ==
    <<timersRun, pingSequence, pendingPings, latency, report, time, unanswered, trips, fresh>>

NoReport == [rtt |-> 0, jitter |-> 0, samples |-> 0]
NoSample == [initialised |-> FALSE, rtt |-> 0, jitter |-> 0, scale |-> 1,
             previous |-> 0, samples |-> 0]

Distance(m, n) == IF m > n THEN m - n ELSE n - m

------------------------------------------------------------------------------
(* LatencyTracker.                                                         *)

\* The first trip is the average; from the second on there is jitter too.
Recorded(l, trip) ==
    IF ~l.initialised
    THEN [l EXCEPT !.initialised = TRUE, !.rtt = trip * l.scale, !.previous = trip,
                   !.samples = @ + 1]
    ELSE [l EXCEPT !.rtt = trip * l.scale + 4 * @,
                   !.jitter = Distance(trip, l.previous) * l.scale + 4 * @,
                   !.scale = 5 * @, !.previous = trip, !.samples = @ + 1]

\* Math.round(10 * n / scale): tenths of the unit.
Tenths(n, scale) == (20 * n + scale) \div (2 * scale)

ResetAverages(l) == [NoSample EXCEPT !.initialised = l.initialised, !.previous = l.previous]
Reset(l) == NoSample

------------------------------------------------------------------------------
(* SocketMeasurement.                                                      *)

\* A ping the socket takes is remembered; beyond the cap the oldest is forgotten.
Remembered(pings, id) ==
    LET all == Append(pings, [id |-> id, at |-> time])
    IN  IF Len(all) > MaxPending THEN Tail(all) ELSE all

Ping(pings, open) ==
    /\ pingSequence < MaxPings
    /\ pingSequence' = pingSequence + 1
    /\ pendingPings' = Remembered(pings, pingSequence + 1)
    /\ unanswered' = open \cup {[id |-> pingSequence + 1, at |-> time]}

\* A socket opens: what is pending and what was measured belongs to another link.
Start ==
    /\ timersRun' = TRUE
    /\ latency' = Reset(latency)
    /\ Ping(<<>>, {})
    /\ trips' = {} /\ fresh' = 0
    /\ UNCHANGED <<report, time>>

Stop ==
    /\ timersRun
    /\ timersRun' = FALSE
    /\ pendingPings' = <<>>
    /\ UNCHANGED <<pingSequence, latency, report, time, unanswered, trips, fresh>>

SendPing ==
    /\ timersRun
    /\ Ping(pendingPings, unanswered)
    /\ UNCHANGED <<timersRun, latency, report, time, trips, fresh>>

\* Only the first answer to a ping that is remembered is measured.
ReceivePong(id) ==
    /\ IF \E i \in 1..Len(pendingPings) : pendingPings[i].id = id
       THEN LET i == CHOOSE j \in 1..Len(pendingPings) : pendingPings[j].id = id
            IN  /\ latency' = Recorded(latency, time - pendingPings[i].at)
                /\ pendingPings' = RemoveAt(pendingPings, i)
       ELSE UNCHANGED <<latency, pendingPings>>
    /\ LET answered == {p \in unanswered : p.id = id}
       IN  /\ timersRun
           /\ unanswered' = unanswered \ answered
           /\ trips' = trips \cup {time - p.at : p \in answered}
           /\ fresh' = fresh + Cardinality(answered)
    /\ UNCHANGED <<timersRun, pingSequence, report, time>>

\* Nothing is reported when nothing new has been measured.
SendNetworkReport ==
    /\ timersRun
    /\ IF latency.samples = 0
       THEN UNCHANGED <<latency, report, fresh>>
       ELSE /\ report' = [rtt |-> Tenths(latency.rtt, latency.scale),
                          jitter |-> Tenths(latency.jitter, latency.scale),
                          samples |-> latency.samples]
            /\ latency' = [latency EXCEPT !.samples = 0]
            /\ fresh' = 0
    /\ UNCHANGED <<timersRun, pingSequence, pendingPings, time, unanswered, trips>>

PassTime ==
    /\ time < MaxTime
    /\ time' = time + 1
    /\ UNCHANGED <<timersRun, pingSequence, pendingPings, latency, report, unanswered, trips, fresh>>

MeasureInit ==
    /\ timersRun = FALSE /\ pingSequence = 0 /\ pendingPings = <<>>
    /\ latency = NoSample /\ report = NoReport /\ time = 0
    /\ unanswered = {} /\ trips = {} /\ fresh = 0

\* The page is loaded again.
Reload ==
    /\ pingSequence = MaxPings /\ pingSequence' = 0
    /\ timersRun' = FALSE /\ pendingPings' = <<>>
    /\ latency' = NoSample /\ report' = NoReport /\ time' = 0
    /\ unanswered' = {} /\ trips' = {} /\ fresh' = 0

MeasureNext ==
    \/ Reload
    \/ Start
    \/ Stop
    \/ SendPing
    \/ \E id \in 1..MaxPings : ReceivePong(id)
    \/ SendNetworkReport
    \/ PassTime

MeasureSpec == MeasureInit /\ [][MeasureNext]_measureVars

------------------------------------------------------------------------------
(* A report tells the server of this link and of nothing else: its round   *)
(* trip lies among those of the socket's own answered pings, its jitter    *)
(* within their spread, and it counts no answer twice, whatever pongs come *)
(* late or for a socket that is gone.  (latency-tracker.ts:55-59, 71)      *)
ReportsTellOfThisLink ==
    [][report' # report /\ report' # NoReport =>
         /\ 0 < report'.samples /\ report'.samples <= fresh
         /\ \E t \in trips : 10 * t <= report'.rtt
         /\ \E t \in trips : report'.rtt <= 10 * t
         /\ \E s, t \in trips : report'.jitter <= 10 * (t - s)]_measureVars

==============================================================================
