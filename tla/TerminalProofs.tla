---------------------------- MODULE TerminalProofs ----------------------------
(***************************************************************************)
(* The terminal in the browser.  The client's safety properties, for any   *)
(* number of attempts, lives and changes of the network.  The client with  *)
(* its tickets is that client, so that what is said of it still holds; and *)
(* more properties of the terminal, for any life of a ticket, any number of*)
(* clocks set back, attempts and parts of a snapshot, every set of markets,*)
(* intervals and sizes, any number of selections and of pings, every list  *)
(* of symbols and moves of them, and every size of the tape and batches.   *)
(***************************************************************************)
EXTENDS Admission, Screen, ChartPanel, Measurement, WatchlistOrder, TradeTape,
        SequenceTheorems, FiniteSetTheorems, WellFoundedInduction, TLAPS

(* Without a change of the network the client does one thing at a time: it *)
(* waits, fetches a ticket or has a socket.                                *)
OneThingAtATime ==
    network = 0 =>
        /\ ~(timer /\ fetching)
        /\ (timer \/ fetching) => socket = "none"

(* Inductive: what a socket replaces depends on what else was under way.   *)
Inv ==
    /\ TypeOK
    /\ QuietWhenStopped
    /\ NeverGivesUp
    /\ SessionMeansSocket
    /\ OneThingAtATime
    /\ OneSocketAtATime

USE DEF State, Phase, Alive

LEMMA InitEstablishes == Init => Inv
<1> SUFFICES ASSUME Init PROVE Inv
  OBVIOUS
<1>1. TypeOK
  <2>1. 0 \in 0..ErrorAfter /\ 0 \in 0..MaxStarts /\ 0 \in 0..MaxNetwork
    BY BoundAssumption
  <2> QED
    BY <2>1 DEF Init, TypeOK
<1>2. QuietWhenStopped /\ NeverGivesUp
  BY DEF Init, QuietWhenStopped, NeverGivesUp
<1>3. SessionMeansSocket
  BY DEF Init, SessionMeansSocket
<1>4. OneThingAtATime /\ OneSocketAtATime
  BY DEF Init, OneThingAtATime, OneSocketAtATime
<1> QED
  BY <1>1, <1>2, <1>3, <1>4 DEF Inv

(* The parts of a step that count.                                         *)
LEMMA AbortedCounts ==
  ASSUME TypeOK, aborted' = IF fetching THEN aborted + 1 ELSE aborted
  PROVE  aborted' \in Nat
<1>1. CASE fetching
  BY <1>1 DEF TypeOK
<1>2. CASE ~fetching
  BY <1>2 DEF TypeOK
<1> QED
  BY <1>1, <1>2

LEMMA AttemptConnectTypes ==
  ASSUME TypeOK, AttemptConnect
  PROVE  aborted' \in Nat /\ fetching' \in BOOLEAN
  BY AbortedCounts DEF AttemptConnect

LEMMA ScheduleTypes ==
  ASSUME TypeOK, NEW n \in 0..ErrorAfter, ScheduleReconnect(n)
  PROVE  attempt' \in 0..ErrorAfter /\ timer' \in BOOLEAN
<1>1. OneMore(n) \in 0..ErrorAfter
  BY BoundAssumption DEF OneMore
<1>2. CASE timer
  BY <1>2 DEF ScheduleReconnect, TypeOK
<1>3. CASE ~timer
  BY <1>1, <1>3 DEF ScheduleReconnect
<1> QED
  BY <1>2, <1>3

LEMMA TypePreserved == TypeOK /\ [Next]_vars => TypeOK'
<1> SUFFICES ASSUME TypeOK, [Next]_vars PROVE TypeOK'
  OBVIOUS
<1>1. CASE Connect
  <2>1. starts' \in 0..MaxStarts
    BY <1>1, BoundAssumption DEF Connect, TypeOK
  <2>2. attempt' \in 0..ErrorAfter
    BY <1>1, BoundAssumption DEF Connect
  <2> QED
    BY <1>1, <2>1, <2>2, AttemptConnectTypes DEF Connect, TypeOK
<1>2. CASE Disconnect
  BY <1>2, AbortedCounts DEF Disconnect, TypeOK
<1>3. CASE Offline
  <2>1. network' \in 0..MaxNetwork
    BY <1>3, BoundAssumption DEF Offline, NetworkChanges, TypeOK
  <2>2. attempt' \in 0..ErrorAfter /\ timer' \in BOOLEAN
    BY <1>3, ScheduleTypes DEF Offline, TypeOK
  <2> QED
    BY <1>3, <2>1, <2>2 DEF Offline, TypeOK
<1>4. CASE Online
  <2>1. network' \in 0..MaxNetwork
    BY <1>4, BoundAssumption DEF Online, NetworkChanges, TypeOK
  <2> QED
    BY <1>4, <2>1, AttemptConnectTypes DEF Online, TypeOK
<1>5. CASE TimerFires
  <2>1. aborted' \in Nat /\ fetching' \in BOOLEAN /\ state' \in State
    BY <1>5, AttemptConnectTypes DEF TimerFires, Shown, TypeOK
  <2> QED
    BY <1>5, <2>1 DEF TimerFires, TypeOK
<1>6. CASE TicketArrives
  <2>1. leaked' \in Nat
    <3>1. CASE socket \in Alive
      BY <1>6, <3>1 DEF TicketArrives, NewSocket, TypeOK
    <3>2. CASE socket \notin Alive
      BY <1>6, <3>2 DEF TicketArrives, NewSocket, TypeOK
    <3> QED
      BY <3>1, <3>2
  <2> QED
    BY <1>6, <2>1 DEF TicketArrives, NewSocket, TypeOK
<1>7. CASE TicketFails
  <2>1. attempt' \in 0..ErrorAfter /\ timer' \in BOOLEAN
    BY <1>7, ScheduleTypes DEF TicketFails, TypeOK
  <2> QED
    BY <1>7, <2>1 DEF TicketFails, TypeOK
<1>8. CASE AbortedTicketSettles
  BY <1>8 DEF AbortedTicketSettles, TypeOK
<1>9. CASE Opens
  BY <1>9 DEF Opens, TypeOK
<1>10. CASE Hello
  BY <1>10, BoundAssumption DEF Hello, TypeOK
<1>11. CASE MarkSynchronized \/ MarkSyncing
  BY <1>11 DEF MarkSynchronized, MarkSyncing, TypeOK
<1>12. ASSUME NEW stable \in BOOLEAN, Closed(stable) PROVE TypeOK'
  <2> DEFINE n == IF stable THEN 0 ELSE attempt
  <2>1. n \in 0..ErrorAfter
    BY BoundAssumption DEF TypeOK
  <2>2. attempt' \in 0..ErrorAfter /\ timer' \in BOOLEAN
    BY <1>12, <2>1, ScheduleTypes DEF Closed
  <2>3. state' \in State
    BY <1>12 DEF Closed
  <2> QED
    BY <1>12, <2>2, <2>3 DEF Closed, TypeOK
<1>13. CASE LeakedCloses
  BY <1>13 DEF LeakedCloses, TypeOK
<1>14. CASE UNCHANGED vars
  BY <1>14 DEF vars, TypeOK
<1> QED
  BY <1>1, <1>2, <1>3, <1>4, <1>5, <1>6, <1>7, <1>8, <1>9, <1>10, <1>11, <1>12, <1>13, <1>14
     DEF Next

LEMMA StepPreserves == Inv /\ [Next]_vars => Inv'
<1> SUFFICES ASSUME Inv, [Next]_vars PROVE Inv'
  OBVIOUS
<1> USE DEF Inv, TypeOK, QuietWhenStopped, NeverGivesUp, SessionMeansSocket, OneThingAtATime,
            OneSocketAtATime
<1>0. TypeOK'
  BY TypePreserved DEF Inv
<1>1. CASE Connect
  BY <1>0, <1>1 DEF Connect, AttemptConnect
<1>2. CASE Disconnect
  BY <1>0, <1>2 DEF Disconnect
<1>3. CASE Offline
  BY <1>0, <1>3 DEF Offline, NetworkChanges, ScheduleReconnect, OneMore
<1>4. CASE Online
  BY <1>0, <1>4 DEF Online, NetworkChanges, AttemptConnect
<1>5. CASE TimerFires
  BY <1>0, <1>5 DEF TimerFires, AttemptConnect, Shown
<1>6. CASE TicketArrives
  BY <1>0, <1>6 DEF TicketArrives, NewSocket
<1>7. CASE TicketFails
  BY <1>0, <1>7 DEF TicketFails, ScheduleReconnect, OneMore
<1>8. CASE AbortedTicketSettles
  BY <1>0, <1>8 DEF AbortedTicketSettles
<1>9. CASE Opens
  BY <1>0, <1>9 DEF Opens
<1>10. CASE Hello
  BY <1>0, <1>10 DEF Hello
<1>11. CASE MarkSynchronized
  BY <1>0, <1>11 DEF MarkSynchronized
<1>12. CASE MarkSyncing
  BY <1>0, <1>12 DEF MarkSyncing
<1>13. ASSUME NEW stable \in BOOLEAN, Closed(stable) PROVE Inv'
  BY <1>0, <1>13 DEF Closed, ScheduleReconnect, OneMore
<1>14. CASE LeakedCloses
  BY <1>0, <1>14 DEF LeakedCloses
<1>15. CASE UNCHANGED vars
  BY <1>0, <1>15 DEF vars
<1> QED
  BY <1>1, <1>2, <1>3, <1>4, <1>5, <1>6, <1>7, <1>8, <1>9, <1>10, <1>11, <1>12, <1>13, <1>14, <1>15 DEF Next

LEMMA Invariance == Spec => []Inv
<1>1. Init => Inv
  BY InitEstablishes
<1>2. Inv /\ [Next]_vars => Inv'
  BY StepPreserves
<1> QED
  BY <1>1, <1>2, PTL DEF Spec

(* Type correctness, for every threshold and bound.                        *)
THEOREM TypeCorrect == Spec => []TypeOK
<1>1. Inv => TypeOK
  BY DEF Inv
<1> QED
  BY <1>1, Invariance, PTL

(* After disconnect() nothing runs on: no timer, ticket, ping or socket.   *)
THEOREM StoppedIsQuiet == Spec => []QuietWhenStopped
<1>1. Inv => QuietWhenStopped
  BY DEF Inv
<1> QED
  BY <1>1, Invariance, PTL

(* Whatever fails, in whatever order, a started client has its next        *)
(* attempt under way or will hear of the end of the one it has.            *)
THEOREM AlwaysRetries == Spec => []NeverGivesUp
<1>1. Inv => NeverGivesUp
  BY DEF Inv
<1> QED
  BY <1>1, Invariance, PTL

(* LIVE and SYNCING are shown over a socket that is there.                 *)
THEOREM SessionIsReal == Spec => []SessionMeansSocket
<1>1. Inv => SessionMeansSocket
  BY DEF Inv
<1> QED
  BY <1>1, Invariance, PTL

(* Tickets that arrive late and quick reconnections never open a second    *)
(* socket: only a change of the network does.                              *)
THEOREM OneSocket == Spec => []OneSocketAtATime
<1>1. Inv => OneSocketAtATime
  BY DEF Inv
<1> QED
  BY <1>1, Invariance, PTL

------------------------------------------------------------------------------
(* Every step with tickets is a step of SocketClient, or changes nothing   *)
(* it knows.                                                               *)
LEMMA StepsAreTheClients == [AdmissionNext]_admissionVars => [Next]_vars
<1> SUFFICES ASSUME [AdmissionNext]_admissionVars PROVE [Next]_vars
  OBVIOUS
<1>1. CASE Mint \/ Replay \/ TimePasses \/ ClockSetBack
  BY <1>1 DEF Mint, Replay, TimePasses, ClockSetBack, vars
<1>2. CASE Enters
  BY <1>2 DEF Enters, Next
<1>3. CASE Arrives
  BY <1>3 DEF Arrives, Next
<1>4. CASE GivesUp
  BY <1>4 DEF GivesUp, Next
<1>5. CASE Greeted
  BY <1>5 DEF Greeted, Next
<1>6. CASE GoesOn
  BY <1>6 DEF GoesOn, Next
<1>7. CASE UNCHANGED admissionVars
  BY <1>7 DEF admissionVars, vars
<1> QED
  BY <1>1, <1>2, <1>3, <1>4, <1>5, <1>6, <1>7 DEF AdmissionNext

(* The client with its tickets implements the client without them.         *)
THEOREM TicketsRefineTheClient == AdmissionSpec => Spec
<1>1. AdmissionInit => Init
  BY DEF AdmissionInit
<1> QED
  BY <1>1, StepsAreTheClients, PTL DEF AdmissionSpec, Spec

------------------------------------------------------------------------------
(* A ticket that has time left and is not remembered has been forgotten    *)
(* and brought back by a clock set back, which has not been used yet.      *)
TicketInv ==
    /\ AdmissionTypeOK
    /\ SingleUse
    /\ spent > 0 /\ ~remembered => uses <= stepsBack

LEMMA TimeLeftTypes ==
  ASSUME NEW timeLeft \in TimeLeft \cup {NoTicket}
  PROVE  /\ Less(timeLeft) \in TimeLeft \cup {NoTicket}
         /\ More(timeLeft) \in TimeLeft \cup {NoTicket}
         /\ Less(timeLeft) > 0 => timeLeft > 0
BY AdmissionAssumption DEF Less, More, TimeLeft, NoTicket

LEMMA TicketInvPreserved ==
  TicketInv /\ TypeOK' /\ [AdmissionNext]_admissionVars => TicketInv'
<1> SUFFICES ASSUME TicketInv, TypeOK', [AdmissionNext]_admissionVars PROVE TicketInv'
  OBVIOUS
<1> USE DEF TicketInv, AdmissionTypeOK, SingleUse
<1>0. /\ Ttl \in TimeLeft /\ NoTicket \notin TimeLeft /\ NoTicket <= 0 /\ TimeLeft \subseteq Int
      /\ MaxStepsBack \in Nat /\ stepsBack \in Nat
  BY AdmissionAssumption DEF TimeLeft, NoTicket
<1>1. CASE Mint
  BY <1>0, <1>1 DEF Mint
<1>2. CASE Enters
  <2>1. /\ admitted' \in BOOLEAN /\ coming' = coming /\ carried' = NoTicket
        /\ stepsBack' = stepsBack
    BY <1>2 DEF Enters, Accepts
  <2>2. ASSUME admitted' PROVE TicketInv'
    <3>1. spent' = carried /\ remembered' = TRUE /\ uses' = 1
      BY <1>2, <2>2, Zenon DEF Enters
    <3> QED
      BY <1>0, <2>1, <3>1
  <2>3. ASSUME ~admitted' PROVE TicketInv'
    <3>1. remembered' = Evicted /\ spent' = spent /\ uses' = uses
      BY <1>2, <2>3, Zenon DEF Enters
    <3> QED
      BY <1>0, <2>1, <3>1 DEF Evicted
  <2> QED
    BY <2>2, <2>3
<1>3. CASE Replay
  <2> DEFINE again == Accepts(spent, Evicted)
  <2>1. uses' = (IF again /\ uses <= MaxStepsBack + 1 THEN uses + 1 ELSE uses)
        /\ remembered' = (Evicted \/ again)
    BY <1>3 DEF Replay
  <2>2. UNCHANGED <<coming, carried, spent, admitted, stepsBack>>
    BY <1>3 DEF Replay
  <2>3. ASSUME again PROVE TicketInv'
    <3>1. spent > 0 /\ ~remembered
      BY <2>3, Zenon DEF Accepts, Evicted
    <3>2. remembered' = TRUE
      BY <2>1, <2>3, Zenon
    <3>3. uses' \in Nat /\ uses' <= 1 + stepsBack
      BY <1>0, <2>1, <3>1
    <3> QED
      BY <2>2, <3>2, <3>3
  <2>4. ASSUME ~again PROVE TicketInv'
    <3>1. uses' = uses
      BY <2>1, <2>4, Zenon
    <3>2. remembered' \in BOOLEAN /\ (remembered' <=> Evicted)
      BY <2>1, <2>4
    <3> QED
      BY <1>0, <2>2, <3>1, <3>2 DEF Evicted
  <2> QED
    BY <2>3, <2>4
<1>4. CASE TimePasses
  <2>1. /\ {coming', carried', spent'} \subseteq TimeLeft \cup {NoTicket}
        /\ spent' > 0 => spent > 0
    BY <1>4, TimeLeftTypes DEF TimePasses
  <2> QED
    BY <1>4, <2>1 DEF TimePasses
<1>5. CASE ClockSetBack
  <2>1. {coming', carried', spent'} \subseteq TimeLeft \cup {NoTicket}
    BY <1>5, TimeLeftTypes DEF ClockSetBack
  <2>2. stepsBack' = stepsBack + 1 /\ stepsBack' \in 0..MaxStepsBack
    BY <1>5, AdmissionAssumption DEF ClockSetBack
  <2> QED
    BY <1>5, <2>1, <2>2 DEF ClockSetBack
<1>6. CASE Arrives
  BY <1>0, <1>6 DEF Arrives
<1>7. CASE GivesUp
  BY <1>0, <1>7 DEF GivesUp, Drop
<1>8. CASE Greeted
  BY <1>8 DEF Greeted, tickets
<1>9. CASE GoesOn
  BY <1>0, <1>9 DEF GoesOn, Drop
<1>10. CASE UNCHANGED admissionVars
  BY <1>10 DEF admissionVars, tickets
<1> QED
  BY <1>1, <1>2, <1>3, <1>4, <1>5, <1>6, <1>7, <1>8, <1>9, <1>10 DEF AdmissionNext

LEMMA TicketInvHolds == AdmissionSpec => []TicketInv
<1>1. AdmissionInit /\ TypeOK => TicketInv
  <2> SUFFICES ASSUME AdmissionInit, TypeOK PROVE TicketInv
    OBVIOUS
  <2>1. /\ coming = NoTicket /\ carried = NoTicket /\ spent = NoTicket /\ uses = 0 /\ stepsBack = 0
        /\ remembered \in BOOLEAN /\ admitted \in BOOLEAN
    BY DEF AdmissionInit
  <2>2. ~(spent > 0) /\ 0 \in 0..MaxStepsBack
    BY <2>1, AdmissionAssumption DEF NoTicket
  <2> QED
    BY <2>1, <2>2 DEF TicketInv, AdmissionTypeOK, SingleUse
<1>2. TicketInv /\ TypeOK' /\ [AdmissionNext]_admissionVars => TicketInv'
  BY TicketInvPreserved
<1>3. AdmissionSpec => []TypeOK
  BY TicketsRefineTheClient, TypeCorrect, PTL
<1> QED
  BY <1>1, <1>2, <1>3, PTL DEF AdmissionSpec

(* Type correctness, with the tickets.                                     *)
THEOREM AdmissionTypeCorrect == AdmissionSpec => []AdmissionTypeOK
<1>1. TicketInv => AdmissionTypeOK
  BY DEF TicketInv
<1> QED
  BY <1>1, TicketInvHolds, PTL

(* However often and whenever it is presented, a ticket opens one session, *)
(* and one more for each time the clock was set back.                      *)
THEOREM TicketsAreUsedOnce == AdmissionSpec => []SingleUse
<1>1. TicketInv => SingleUse
  BY DEF TicketInv
<1> QED
  BY <1>1, TicketInvHolds, PTL

------------------------------------------------------------------------------
(* A client that was never started has no uptime to leave behind.          *)
UptimeInv ==
    /\ UptimeIsOfThisSocket
    /\ starts = 0 => ~started /\ ~connectedAt

LEMMA UptimeInvPreserved == UptimeInv /\ Inv /\ [Next]_vars => UptimeInv'
<1> SUFFICES ASSUME UptimeInv, Inv, [Next]_vars PROVE UptimeInv'
  OBVIOUS
<1> USE DEF UptimeInv, UptimeIsOfThisSocket, Inv, TypeOK
<1>1. CASE Connect
  BY <1>1 DEF Connect
<1>2. CASE Disconnect
  BY <1>2 DEF Disconnect
<1>3. CASE Offline \/ Online
  BY <1>3 DEF Offline, Online, NetworkChanges
<1>4. CASE TimerFires
  BY <1>4 DEF TimerFires
<1>5. CASE TicketArrives
  BY <1>5 DEF TicketArrives, NewSocket, OneThingAtATime, QuietWhenStopped
<1>6. CASE TicketFails
  BY <1>6 DEF TicketFails
<1>7. CASE Opens
  BY <1>7 DEF Opens, QuietWhenStopped
<1>8. CASE Hello
  BY <1>8 DEF Hello
<1>9. CASE AbortedTicketSettles \/ MarkSynchronized \/ MarkSyncing \/ LeakedCloses
  BY <1>9 DEF AbortedTicketSettles, MarkSynchronized, MarkSyncing, LeakedCloses
<1>10. ASSUME NEW stable \in BOOLEAN, Closed(stable) PROVE UptimeInv'
  BY <1>10 DEF Closed
<1>11. CASE UNCHANGED vars
  BY <1>11 DEF vars
<1> QED
  BY <1>1, <1>2, <1>3, <1>4, <1>5, <1>6, <1>7, <1>8, <1>9, <1>10, <1>11 DEF Next

(* While the network keeps still, the uptime of a client's first life is   *)
(* that of the socket it has.                                              *)
THEOREM UptimeIsTheSockets == AdmissionSpec => []UptimeIsOfThisSocket
<1>1. Init => UptimeInv
  BY DEF Init, UptimeInv, UptimeIsOfThisSocket
<1>2. UptimeInv /\ Inv /\ [Next]_vars => UptimeInv'
  BY UptimeInvPreserved
<1>3. UptimeInv => UptimeIsOfThisSocket
  BY DEF UptimeInv
<1> QED
  BY <1>1, <1>2, <1>3, Invariance, TicketsRefineTheClient, PTL DEF Spec

------------------------------------------------------------------------------
(* Whatever the order in which the model changes, the tab is hidden and    *)
(* shown and pages come and go, no change waits for a frame that nobody    *)
(* asked for.                                                              *)
THEOREM ScreenCatchesUp == ScreenSpec => [](ScreenTypeOK /\ NothingUnpublished)
<1> DEFINE ScreenInv == ScreenTypeOK /\ NothingUnpublished
<1> USE DEF ScreenTypeOK, NothingUnpublished
<1>1. ScreenInit => ScreenInv
  BY DEF ScreenInit
<1>2. ScreenInv /\ [ScreenNext]_screenVars => ScreenInv'
  <2> SUFFICES ASSUME ScreenInv, [ScreenNext]_screenVars PROVE ScreenInv'
    OBVIOUS
  <2>1. CASE Mount
    BY <2>1 DEF Mount
  <2>2. CASE Dispose
    BY <2>2 DEF Dispose
  <2>3. ASSUME NEW part \in Source, Changes(part) PROVE ScreenInv'
    BY <2>3 DEF Changes, MarkDirty
  <2>4. CASE VisibilityChanges
    BY <2>4 DEF VisibilityChanges, SetPaused
  <2>5. CASE Frame
    BY <2>5 DEF Frame
  <2>6. CASE UNCHANGED screenVars
    BY <2>6 DEF screenVars
  <2> QED
    BY <2>1, <2>2, <2>3, <2>4, <2>5, <2>6 DEF ScreenNext, MountChart
<1>3. ScreenInv => ScreenTypeOK /\ NothingUnpublished
  OBVIOUS
<1> QED
  BY <1>1, <1>2, <1>3, PTL DEF ScreenSpec

------------------------------------------------------------------------------
(* What the panel says is true of the chart it frames.                     *)

(* Before a session nothing is awaited and no candle has come.  Afterwards *)
(* the chart is the one selected unless a history is awaited or was not    *)
(* had.  And a selection that awaits both its history and its book can     *)
(* have seen candles only in the buffer that its history will take.        *)
NothingBeforeHello == ~greeted => awaited = None /\ ~settling /\ ~hasCandle
ChartIsSelected == greeted /\ awaited = None /\ ~failed => active = selected
BookedIsAwaited == booked => awaited # None /\ ~settling /\ (hasCandle => buffered)

Current == PanelIsCurrent /\ NothingBeforeHello /\ ChartIsSelected /\ BookedIsAwaited

LEMMA CurrentInit == PanelInit => Current
  <1> SUFFICES ASSUME PanelInit PROVE Current
    OBVIOUS
  <1>1. selected \in Scope
    BY PanelAssumption DEF PanelInit, Scope
  <1>2. loads \in 0..MaxLoads
    BY PanelAssumption DEF PanelInit
  <1>3. PanelTypeOK
    BY <1>1, <1>2 DEF PanelInit, PanelTypeOK
  <1> QED  BY <1>3 DEF PanelInit, Current, PanelIsCurrent, OverlayIsHonest, ReadoutIsOfThisChart,
           ChartFitsItsBox, NothingBeforeHello, ChartIsSelected, BookedIsAwaited

(* Another market, another interval, the first session and a resync have   *)
(* this in common: the overlay stays up, what is awaited, if there is a    *)
(* session, is what is selected, and the chart stays what it was.          *)
LEMMA AwaitingKeeps ==
    ASSUME Current, NEW withBook \in BOOLEAN,
           selected' \in Scope, loads' \in 0..MaxLoads, box' = box,
           hasCandle' = FALSE, hover' \in {hover, None},
           UNCHANGED <<active, filled, notice, size, resize>>,
           \/ greeted' = TRUE /\ AwaitHistory(selected', withBook)
           \/ greeted' = FALSE /\ greeted = FALSE
              /\ UNCHANGED <<awaited, buffered, booked, settling, failed>>
    PROVE  Current'
  <1>1. PanelTypeOK /\ selected' # None
    BY PanelAssumption DEF Current, PanelIsCurrent
  <1>2. ReadoutIsOfThisChart' /\ ChartFitsItsBox'
    BY DEF Current, PanelIsCurrent, ReadoutIsOfThisChart, ChartFitsItsBox
  <1>3. CASE greeted' = TRUE /\ AwaitHistory(selected', withBook)
    <2>1. PanelTypeOK'
      BY <1>1, <1>3 DEF PanelTypeOK, AwaitHistory
    <2> QED  BY <1>1, <1>2, <1>3, <2>1 DEF AwaitHistory, Current, PanelIsCurrent,
             OverlayIsHonest, NothingBeforeHello, ChartIsSelected, BookedIsAwaited
  <1>4. CASE greeted' = FALSE /\ greeted = FALSE
             /\ UNCHANGED <<awaited, buffered, booked, settling, failed>>
    <2>1. PanelTypeOK'
      BY <1>1, <1>4 DEF PanelTypeOK
    <2> QED  BY <1>1, <1>2, <1>4, <2>1 DEF Current, PanelIsCurrent,
             OverlayIsHonest, NothingBeforeHello, ChartIsSelected, BookedIsAwaited
  <1> QED  BY <1>3, <1>4

LEMMA SelectMarketKeeps ==
    ASSUME Current, NEW market \in Market, SelectMarket(market)
    PROVE  Current'
  <1> DEFINE scope == <<market, selected[2]>>
  <1>1. scope \in Scope /\ selected' = scope
    BY DEF Current, PanelIsCurrent, PanelTypeOK, SelectMarket, Selects, Scope
  <1>2. loads' \in 0..MaxLoads
    BY PanelAssumption
    DEF Current, PanelIsCurrent, PanelTypeOK, SelectMarket, Selects, OneMoreLoad
  <1>3. hasCandle' = FALSE /\ hover' = None /\ box' = box
        /\ UNCHANGED <<active, filled, notice, size, resize>>
    BY DEF SelectMarket, Selects, ClearReadout
  <1>4. greeted' = greeted /\ greeted \in BOOLEAN
    BY DEF SelectMarket, Current, PanelIsCurrent, PanelTypeOK
  <1>5. CASE greeted
    <2>1. AwaitHistory(selected', market # selected[1])
      BY <1>1, <1>5 DEF SelectMarket
    <2> QED  BY <1>1, <1>2, <1>3, <1>4, <1>5, <2>1, AwaitingKeeps
  <1>6. CASE ~greeted
    <2>1. UNCHANGED <<awaited, buffered, booked, settling, failed>>
      BY <1>6 DEF SelectMarket
    <2> QED  BY <1>1, <1>2, <1>3, <1>4, <1>6, <2>1, AwaitingKeeps
  <1> QED  BY <1>5, <1>6

LEMMA SelectIntervalKeeps ==
    ASSUME Current, NEW interval \in Interval, SelectInterval(interval)
    PROVE  Current'
  <1> DEFINE scope == <<selected[1], interval>>
  <1>1. scope \in Scope /\ selected' = scope
    BY DEF Current, PanelIsCurrent, PanelTypeOK, SelectInterval, Selects, Scope
  <1>2. loads' \in 0..MaxLoads
    BY PanelAssumption
    DEF Current, PanelIsCurrent, PanelTypeOK, SelectInterval, Selects, OneMoreLoad
  <1>3. hasCandle' = FALSE /\ hover' = None /\ box' = box
        /\ UNCHANGED <<active, filled, notice, size, resize>>
    BY DEF SelectInterval, Selects, ClearReadout
  <1>4. greeted' = greeted /\ greeted \in BOOLEAN
    BY DEF SelectInterval, Current, PanelIsCurrent, PanelTypeOK
  <1>5. CASE greeted
    <2>1. AwaitHistory(selected', FALSE)
      BY <1>1, <1>5 DEF SelectInterval
    <2> QED  BY <1>1, <1>2, <1>3, <1>4, <1>5, <2>1, AwaitingKeeps
  <1>6. CASE ~greeted
    <2>1. UNCHANGED <<awaited, buffered, booked, settling, failed>>
      BY <1>6 DEF SelectInterval
    <2> QED  BY <1>1, <1>2, <1>3, <1>4, <1>6, <2>1, AwaitingKeeps
  <1> QED  BY <1>5, <1>6

LEMMA ResyncKeeps == ASSUME Current, FirstHello \/ Resync PROVE Current'
  <1>1. /\ selected' = selected /\ selected \in Scope /\ greeted' = TRUE
        /\ hasCandle' = FALSE /\ box' = box /\ hover' = hover
        /\ UNCHANGED <<active, filled, notice, size, resize>>
        /\ AwaitHistory(selected', TRUE)
    <2>1. CASE FirstHello
      BY <2>1 DEF FirstHello, sessionVars, Current, PanelIsCurrent, PanelTypeOK, NothingBeforeHello
    <2>2. CASE Resync
      BY <2>2 DEF Resync, sessionVars, Current, PanelIsCurrent, PanelTypeOK
    <2> QED  BY <2>1, <2>2
  <1>2. loads \in 0..MaxLoads
    BY DEF Current, PanelIsCurrent, PanelTypeOK
  <1>3. loads' \in 0..MaxLoads
    <2>1. CASE FirstHello
      BY <1>2, <2>1 DEF FirstHello
    <2>2. CASE Resync
      <3>1. loads < MaxLoads /\ loads' = loads + 1
        BY <2>2 DEF Resync, OneMoreLoad
      <3> QED  BY <1>2, <3>1, PanelAssumption
    <2> QED  BY <2>1, <2>2
  <1> QED  BY <1>1, <1>3, AwaitingKeeps

LEMMA HistoryLandsKeeps ==
    ASSUME Current, NEW some \in BOOLEAN, HistoryLands(some)
    PROVE  Current'
  <1>1. /\ PanelTypeOK /\ awaited = selected /\ awaited # None /\ selected \in Scope
        /\ greeted /\ (booked /\ hasCandle => some)
    BY DEF Current, PanelIsCurrent, PanelTypeOK, OverlayIsHonest, NothingBeforeHello,
       BookedIsAwaited, HistoryLands
  <1>2. PanelTypeOK'
    BY <1>1 DEF PanelTypeOK, HistoryLands, SessionEnds, SessionOpens
  <1>3. hasCandle' => filled'
    BY <1>1 DEF HistoryLands, SessionOpens, PanelTypeOK
  <1> QED  BY <1>1, <1>2, <1>3 DEF HistoryLands, SessionEnds, SessionOpens, Current, PanelIsCurrent,
           OverlayIsHonest, ReadoutIsOfThisChart, ChartFitsItsBox, NothingBeforeHello,
           ChartIsSelected, BookedIsAwaited

LEMMA HistoryFailsKeeps == ASSUME Current, HistoryFails PROVE Current'
  <1>1. PanelTypeOK'
    BY DEF Current, PanelIsCurrent, PanelTypeOK, HistoryFails, sessionVars
  <1> QED  BY <1>1 DEF HistoryFails, sessionVars, Current, PanelIsCurrent,
           OverlayIsHonest, ReadoutIsOfThisChart, ChartFitsItsBox, NothingBeforeHello,
           ChartIsSelected, BookedIsAwaited

LEMMA SnapshotSettlesKeeps ==
    ASSUME Current, NEW applied \in BOOLEAN, SnapshotSettles(applied)
    PROVE  Current'
  <1>1. greeted /\ booked = FALSE
    BY DEF Current, PanelIsCurrent, PanelTypeOK, NothingBeforeHello, BookedIsAwaited, SnapshotSettles
  <1>2. PanelTypeOK'
    BY DEF Current, PanelIsCurrent, PanelTypeOK, SnapshotSettles, sessionVars
  <1> QED  BY <1>1, <1>2 DEF SnapshotSettles, sessionVars, Current, PanelIsCurrent,
           OverlayIsHonest, ReadoutIsOfThisChart, ChartFitsItsBox, NothingBeforeHello,
           ChartIsSelected, BookedIsAwaited

LEMMA CandlesKeep == ASSUME Current, CandlesOfSelected PROVE Current'
  <1>1. selected # None /\ greeted
    BY PanelAssumption DEF Current, PanelIsCurrent, PanelTypeOK, CandlesOfSelected
  <1>2. PanelTypeOK'
    BY <1>1 DEF Current, PanelIsCurrent, PanelTypeOK, CandlesOfSelected
  <1> QED  BY <1>1, <1>2 DEF CandlesOfSelected, Current, PanelIsCurrent,
           OverlayIsHonest, ReadoutIsOfThisChart, ChartFitsItsBox, NothingBeforeHello,
           ChartIsSelected, BookedIsAwaited

(* The pointer and the panel's size touch the session on screen alone, and *)
(* not whose chart it is.                                                  *)
LEMMA ScreenKeeps ==
    ASSUME Current, PanelTypeOK', UNCHANGED <<selectionVars, active, filled>>,
           ReadoutIsOfThisChart', ChartFitsItsBox'
    PROVE  Current'
  BY DEF selectionVars, Current, PanelIsCurrent, OverlayIsHonest, NothingBeforeHello,
     ChartIsSelected, BookedIsAwaited

LEMMA CrosshairKeeps ==
    ASSUME Current, NEW onCandle \in BOOLEAN, Crosshair(onCandle)
    PROVE  Current'
  <1>1. PanelTypeOK' /\ ReadoutIsOfThisChart' /\ ChartFitsItsBox'
    BY DEF Current, PanelIsCurrent, PanelTypeOK, ReadoutIsOfThisChart, ChartFitsItsBox,
       Crosshair, selectionVars
  <1> QED  BY <1>1, ScreenKeeps DEF Crosshair

LEMMA BoxChangesKeeps ==
    ASSUME Current, NEW to \in Box, BoxChanges(to)
    PROVE  Current'
  <1>1. loads' \in 0..MaxLoads
    BY PanelAssumption DEF Current, PanelIsCurrent, PanelTypeOK, BoxChanges, OneMoreLoad
  <1>2. PanelTypeOK' /\ ReadoutIsOfThisChart' /\ ChartFitsItsBox'
    BY <1>1 DEF Current, PanelIsCurrent, PanelTypeOK, ReadoutIsOfThisChart, ChartFitsItsBox,
       BoxChanges, selectionVars
  <1> QED  BY <1>2, ScreenKeeps DEF BoxChanges

LEMMA ResizeKeeps == ASSUME Current, QueueResize \/ ResizeFrame PROVE Current'
  <1>1. PanelTypeOK /\ ReadoutIsOfThisChart /\ ChartFitsItsBox
    BY DEF Current, PanelIsCurrent
  <1>2. PanelTypeOK' /\ ChartFitsItsBox'
    <2>1. CASE QueueResize
      <3>1. resize' # None
        BY <1>1, <2>1, PanelAssumption DEF PanelTypeOK, QueueResize
      <3> QED  BY <1>1, <2>1, <3>1
               DEF PanelTypeOK, ChartFitsItsBox, QueueResize, selectionVars
    <2>2. CASE ResizeFrame
      BY <1>1, <2>2 DEF PanelTypeOK, ChartFitsItsBox, ResizeFrame, selectionVars
    <2> QED  BY <2>1, <2>2
  <1>3. ReadoutIsOfThisChart'
    BY <1>1 DEF ReadoutIsOfThisChart, QueueResize, ResizeFrame
  <1> QED  BY <1>2, <1>3, ScreenKeeps DEF QueueResize, ResizeFrame

LEMMA CurrentStep == Current /\ [PanelNext]_panelVars => Current'
  <1> SUFFICES ASSUME Current, [PanelNext]_panelVars PROVE Current'
    OBVIOUS
  <1>1. ASSUME NEW market \in Market, SelectMarket(market) PROVE Current'
    BY <1>1, SelectMarketKeeps
  <1>2. ASSUME NEW interval \in Interval, SelectInterval(interval) PROVE Current'
    BY <1>2, SelectIntervalKeeps
  <1>3. CASE FirstHello \/ Resync
    BY <1>3, ResyncKeeps
  <1>4. ASSUME NEW some \in BOOLEAN, HistoryLands(some) PROVE Current'
    BY <1>4, HistoryLandsKeeps
  <1>5. CASE HistoryFails
    BY <1>5, HistoryFailsKeeps
  <1>6. ASSUME NEW applied \in BOOLEAN, SnapshotSettles(applied) PROVE Current'
    BY <1>6, SnapshotSettlesKeeps
  <1>7. CASE CandlesOfSelected
    BY <1>7, CandlesKeep
  <1>8. ASSUME NEW onCandle \in BOOLEAN, Crosshair(onCandle) PROVE Current'
    BY <1>8, CrosshairKeeps
  <1>9. ASSUME NEW to \in Box, BoxChanges(to) PROVE Current'
    BY <1>9, BoxChangesKeeps
  <1>10. CASE QueueResize \/ ResizeFrame
    BY <1>10, ResizeKeeps
  <1>11. CASE UNCHANGED panelVars
    BY <1>11 DEF panelVars, selectionVars, sessionVars, Current, PanelIsCurrent, PanelTypeOK,
       OverlayIsHonest, ReadoutIsOfThisChart, ChartFitsItsBox, NothingBeforeHello,
       ChartIsSelected, BookedIsAwaited
  <1> QED  BY <1>1, <1>2, <1>3, <1>4, <1>5, <1>6, <1>7, <1>8, <1>9, <1>10, <1>11 DEF PanelNext

(* Whatever is selected, resynchronised, moved over and resized, in any    *)
(* order with the answers: once the history awaited is there the overlay   *)
(* is withdrawn only over candles of what is selected, the readout is of a *)
(* candle on screen, and the chart has its panel's size or will hear of it.  *)
THEOREM PanelStaysCurrent == PanelSpec => []PanelIsCurrent
  <1>1. Current => PanelIsCurrent
    BY DEF Current
  <1> QED  BY <1>1, CurrentInit, CurrentStep, PTL DEF PanelSpec

------------------------------------------------------------------------------
(* The measurement of the link.                                            *)

Pinged == [id : Nat, at : Nat]

(* The averages lie within these two trips, as does the last one taken.    *)
Between(l, lo, hi) ==
    /\ lo <= l.previous /\ l.previous <= hi
    /\ lo * l.scale <= l.rtt /\ l.rtt <= hi * l.scale
    /\ l.jitter <= (hi - lo) * l.scale

MeasureTypeOK ==
    /\ timersRun \in BOOLEAN /\ pingSequence \in Nat /\ time \in Nat /\ fresh \in Nat
    /\ pendingPings \in Seq(Pinged)
    /\ latency \in [initialised : BOOLEAN, rtt : Nat, jitter : Nat, scale : Nat \ {0},
                    previous : Nat, samples : Nat]
    /\ unanswered \in SUBSET Pinged /\ IsFiniteSet(unanswered)
    /\ trips \in SUBSET Nat

(* What is pending was sent on this socket, and each id but once.          *)
PingsAreOfThisLink ==
    /\ \A i \in 1..Len(pendingPings) : pendingPings[i] \in unanswered
    /\ \A i, j \in 1..Len(pendingPings) : pendingPings[i].id = pendingPings[j].id => i = j
    /\ \A p \in unanswered : p.id <= pingSequence /\ p.at <= time

(* What is measured was measured on it, and counts no answer twice.        *)
LatencyIsOfThisLink ==
    /\ latency.samples <= fresh
    /\ ~latency.initialised =>
         latency.samples = 0 /\ latency.jitter = 0 /\ latency.scale = 1
    /\ latency.initialised => \E lo, hi \in trips : Between(latency, lo, hi)

MeasureInv == MeasureTypeOK /\ PingsAreOfThisLink /\ LatencyIsOfThisLink

(* Products respect the order.                                             *)
LEMMA ProductIsMonotone ==
  ASSUME NEW m \in Nat, NEW n \in Nat, m <= n, NEW s \in Nat
  PROVE  m * s \in Nat /\ n * s \in Nat /\ m * s <= n * s
<1>1. PICK d \in Nat : n = m + d
  <2>1. n - m \in Nat /\ n = m + (n - m)
    OBVIOUS
  <2> QED
    BY <2>1
<1>2. n * s = m * s + d * s /\ d * s \in Nat /\ m * s \in Nat
  BY <1>1
<1> QED
  BY <1>2

(* Rounding to tenths stays within bounds that are whole units.            *)
LEMMA TenthsWithin ==
  ASSUME NEW n \in Nat, NEW s \in Nat \ {0}, NEW t \in Nat
  PROVE  /\ t * s <= n => 10 * t <= Tenths(n, s)
         /\ n <= t * s => Tenths(n, s) <= 10 * t
<1> DEFINE q == (20 * n + s) \div (2 * s)
<1>1. /\ q \in Nat /\ 2 * s \in Nat \ {0} /\ 20 * n + s \in Nat
      /\ q * (2 * s) <= 20 * n + s /\ 20 * n + s < q * (2 * s) + 2 * s
  <2> DEFINE d == 2 * s
             m == 20 * n + s
  <2>1. d \in Nat \ {0} /\ m \in Nat
    OBVIOUS
  <2> HIDE DEF d, m
  <2>2. m \div d \in Nat /\ (m \div d) * d <= m /\ m < (m \div d) * d + d
    BY <2>1
  <2> QED
    BY <2>1, <2>2 DEF d, m
<1>2. Tenths(n, s) = q
  BY DEF Tenths
<1> HIDE DEF q
<1>3. PICK x \in Nat : x = t * s
  OBVIOUS
<1>4. PICK y \in Nat : y = q * s
  BY <1>1
<1>5. q * (2 * s) = 2 * y
  BY <1>1, <1>4
<1>6. ASSUME x <= n PROVE 10 * t <= q
  <2>1. CASE q + 1 <= 10 * t
    <3>1. (q + 1) * s <= (10 * t) * s
      BY <1>1, <2>1, ProductIsMonotone
    <3>2. (q + 1) * s = y + s /\ (10 * t) * s = 10 * x
      BY <1>1, <1>3, <1>4
    <3> QED
      BY <1>1, <1>5, <1>6, <3>1, <3>2
  <2>2. CASE ~(q + 1 <= 10 * t)
    BY <1>1, <2>2
  <2> QED
    BY <2>1, <2>2
<1>7. ASSUME n <= x PROVE q <= 10 * t
  <2>1. CASE 10 * t + 1 <= q
    <3>1. (10 * t + 1) * s <= q * s
      BY <1>1, <2>1, ProductIsMonotone
    <3>2. (10 * t + 1) * s = 10 * x + s
      BY <1>3
    <3> QED
      BY <1>1, <1>4, <1>5, <1>7, <3>1, <3>2
  <2>2. CASE ~(10 * t + 1 <= q)
    BY <1>1, <2>2
  <2> QED
    BY <2>1, <2>2
<1> QED
  BY <1>2, <1>3, <1>6, <1>7

(* A trip between the bounds, or one that widens them, keeps the averages  *)
(* within them.                                                            *)
LEMMA RecordedWithin ==
  ASSUME NEW l \in [initialised : BOOLEAN, rtt : Nat, jitter : Nat, scale : Nat \ {0},
                    previous : Nat, samples : Nat],
         l.initialised, NEW lo \in Nat, NEW hi \in Nat, Between(l, lo, hi),
         NEW trip \in Nat, NEW low \in Nat, NEW high \in Nat,
         low <= lo, hi <= high, low <= trip, trip <= high
  PROVE  Between(Recorded(l, trip), low, high)
<1> DEFINE s == l.scale
           d == Distance(trip, l.previous)
<1>0. /\ s \in Nat \ {0} /\ l.rtt \in Nat /\ l.jitter \in Nat /\ l.previous \in Nat
      /\ lo <= l.previous /\ l.previous <= hi
      /\ lo * s <= l.rtt /\ l.rtt <= hi * s /\ l.jitter <= (hi - lo) * s
  BY DEF Between
<1>1. /\ Recorded(l, trip).rtt = trip * s + 4 * l.rtt
      /\ Recorded(l, trip).jitter = d * s + 4 * l.jitter
      /\ Recorded(l, trip).scale = 5 * s
      /\ Recorded(l, trip).previous = trip
  BY DEF Recorded
<1>2. /\ d \in Nat /\ high - low \in Nat /\ hi - lo \in Nat
      /\ d <= high - low /\ hi - lo <= high - low
  BY <1>0 DEF Distance
<1> HIDE DEF s, d
<1>3. low * s \in Nat /\ low * s <= lo * s /\ low * s <= trip * s /\ lo * s \in Nat /\ trip * s \in Nat
  BY <1>0, ProductIsMonotone
<1>4. high * s \in Nat /\ hi * s <= high * s /\ trip * s <= high * s /\ hi * s \in Nat
  BY <1>0, ProductIsMonotone
<1>5. /\ (high - low) * s \in Nat /\ (hi - lo) * s \in Nat /\ d * s \in Nat
      /\ d * s <= (high - low) * s /\ (hi - lo) * s <= (high - low) * s
  BY <1>0, <1>2, ProductIsMonotone
<1>6. /\ low * (5 * s) = 5 * (low * s) /\ high * (5 * s) = 5 * (high * s)
      /\ (high - low) * (5 * s) = 5 * ((high - low) * s)
  BY <1>0, <1>2
<1>7. low * (5 * s) <= trip * s + 4 * l.rtt
  BY <1>0, <1>3, <1>6
<1>8. trip * s + 4 * l.rtt <= high * (5 * s)
  BY <1>0, <1>3, <1>4, <1>6
<1>9. d * s + 4 * l.jitter <= (high - low) * (5 * s)
  BY <1>0, <1>5, <1>6
<1> QED
  BY <1>1, <1>7, <1>8, <1>9 DEF Between

(* What is left of a sequence without one of its elements.                 *)
LEMMA RemoveAtLeaves ==
  ASSUME NEW S, NEW s \in Seq(S), NEW i \in 1..Len(s)
  PROVE  /\ RemoveAt(s, i) \in Seq(S)
         /\ Len(RemoveAt(s, i)) = Len(s) - 1
         /\ \A k \in 1..Len(s) - 1 : RemoveAt(s, i)[k] = IF k < i THEN s[k] ELSE s[k + 1]
<1> DEFINE a == SubSeq(s, 1, i - 1)
           b == SubSeq(s, i + 1, Len(s))
<1>0. Len(s) \in Nat /\ i \in Nat /\ 1 <= i /\ i <= Len(s) /\ \A k \in 1..Len(s) : s[k] \in S
  BY LenProperties, ElementOfSeq
<1>1. /\ a \in Seq(S) /\ Len(a) = i - 1 /\ \A k \in 1..i - 1 : a[k] = s[k]
  <2>1. \A k \in 1..i - 1 : s[k] \in S
    BY <1>0
  <2>2. a \in Seq(S) /\ Len(a) = (IF 1 <= i - 1 THEN i - 1 - 1 + 1 ELSE 0)
        /\ \A k \in 1..i - 1 - 1 + 1 : a[k] = s[1 + k - 1]
    BY <1>0, <2>1, SubSeqProperties
  <2> HIDE DEF a
  <2> QED
    BY <1>0, <2>2
<1>2. /\ b \in Seq(S) /\ Len(b) = Len(s) - i /\ \A k \in 1..Len(s) - i : b[k] = s[i + k]
  <2>1. \A k \in i + 1..Len(s) : s[k] \in S
    BY <1>0
  <2>2. b \in Seq(S) /\ Len(b) = (IF i + 1 <= Len(s) THEN Len(s) - (i + 1) + 1 ELSE 0)
        /\ \A k \in 1..Len(s) - (i + 1) + 1 : b[k] = s[i + 1 + k - 1]
    BY <1>0, <2>1, SubSeqProperties
  <2> HIDE DEF b
  <2> QED
    BY <1>0, <2>2
<1> HIDE DEF a, b
<1>3. /\ a \o b \in Seq(S) /\ Len(a \o b) = Len(a) + Len(b)
      /\ \A k \in 1..Len(a) + Len(b) : (a \o b)[k] = IF k <= Len(a) THEN a[k] ELSE b[k - Len(a)]
  BY <1>1, <1>2, ConcatProperties
<1>4. RemoveAt(s, i) = a \o b
  BY DEF RemoveAt, a, b
<1>5. ASSUME NEW k \in 1..Len(s) - 1
      PROVE  (a \o b)[k] = IF k < i THEN s[k] ELSE s[k + 1]
  <2>1. k \in 1..Len(a) + Len(b) /\ k \in Nat
    BY <1>0, <1>1, <1>2
  <2>2. CASE k < i
    BY <1>0, <1>1, <1>3, <2>1, <2>2
  <2>3. CASE ~(k < i)
    <3>1. k - Len(a) \in 1..Len(s) - i /\ i + (k - Len(a)) = k + 1 /\ ~(k <= Len(a))
      BY <1>0, <1>1, <2>1, <2>3
    <3>2. (a \o b)[k] = b[k - Len(a)]
      BY <1>3, <2>1, <3>1
    <3>3. b[k - Len(a)] = s[i + (k - Len(a))]
      BY <1>2, <3>1
    <3> QED
      BY <2>3, <3>1, <3>2, <3>3
  <2> QED
    BY <2>2, <2>3
<1>6. Len(a) + Len(b) = Len(s) - 1
  BY <1>0, <1>1, <1>2
<1> QED
  BY <1>3, <1>4, <1>5, <1>6

(* The first sample is both bounds, later ones widen them.                 *)
LEMMA RecordedIsOfThisLink ==
  ASSUME NEW l \in [initialised : BOOLEAN, rtt : Nat, jitter : Nat, scale : Nat \ {0},
                    previous : Nat, samples : Nat],
         NEW T \in SUBSET Nat, NEW trip \in T,
         ~l.initialised => l.jitter = 0 /\ l.scale = 1,
         l.initialised => \E lo, hi \in T : Between(l, lo, hi)
  PROVE  /\ Recorded(l, trip) \in [initialised : BOOLEAN, rtt : Nat, jitter : Nat,
                                   scale : Nat \ {0}, previous : Nat, samples : Nat]
         /\ Recorded(l, trip).initialised
         /\ Recorded(l, trip).samples = l.samples + 1
         /\ \E lo, hi \in T : Between(Recorded(l, trip), lo, hi)
<1>1. CASE ~l.initialised
  <2>1. Recorded(l, trip) = [l EXCEPT !.initialised = TRUE, !.rtt = trip * l.scale,
                                      !.previous = trip, !.samples = @ + 1]
    BY <1>1 DEF Recorded
  <2>2. trip * l.scale = trip
    BY <1>1
  <2>3. Between(Recorded(l, trip), trip, trip)
    BY <1>1, <2>1, <2>2 DEF Between
  <2>4. /\ Recorded(l, trip) \in [initialised : BOOLEAN, rtt : Nat, jitter : Nat,
                                   scale : Nat \ {0}, previous : Nat, samples : Nat]
        /\ Recorded(l, trip).initialised
        /\ Recorded(l, trip).samples = l.samples + 1
    <3>1. Recorded(l, trip) = [initialised |-> TRUE, rtt |-> trip, jitter |-> l.jitter,
                               scale |-> l.scale, previous |-> trip, samples |-> l.samples + 1]
      BY <2>1, <2>2
    <3>2. l.samples + 1 \in Nat /\ trip \in Nat /\ l.jitter \in Nat /\ l.scale \in Nat \ {0}
      OBVIOUS
    <3> QED
      BY <3>1, <3>2
  <2> QED
    BY <2>3, <2>4
<1>2. CASE l.initialised
  <2>1. PICK lo \in T, hi \in T : Between(l, lo, hi)
    BY <1>2
  <2>2. PICK low \in T : low <= lo /\ low <= trip /\ low \in Nat
    <3>1. lo <= trip \/ trip <= lo
      OBVIOUS
    <3> QED
      BY <3>1
  <2>3. PICK high \in T : hi <= high /\ trip <= high /\ high \in Nat
    <3>1. hi <= trip \/ trip <= hi
      OBVIOUS
    <3> QED
      BY <3>1
  <2>4. Between(Recorded(l, trip), low, high)
    BY <1>2, <2>1, <2>2, <2>3, RecordedWithin
  <2>5. /\ trip * l.scale + 4 * l.rtt \in Nat
        /\ Distance(trip, l.previous) * l.scale + 4 * l.jitter \in Nat
        /\ 5 * l.scale \in Nat \ {0}
    <3>1. Distance(trip, l.previous) \in Nat
      BY DEF Distance
    <3>2. Distance(trip, l.previous) * l.scale \in Nat /\ trip * l.scale \in Nat
      BY <3>1
    <3> QED
      BY <3>2
  <2>6. /\ Recorded(l, trip) \in [initialised : BOOLEAN, rtt : Nat, jitter : Nat,
                                   scale : Nat \ {0}, previous : Nat, samples : Nat]
        /\ Recorded(l, trip).initialised
        /\ Recorded(l, trip).samples = l.samples + 1
    <3>1. PICK x \in Nat : x = trip * l.scale + 4 * l.rtt
      BY <2>5
    <3>2. PICK y \in Nat : y = Distance(trip, l.previous) * l.scale + 4 * l.jitter
      BY <2>5
    <3>3. PICK z \in Nat \ {0} : z = 5 * l.scale
      BY <2>5
    <3>4. Recorded(l, trip) = [l EXCEPT !.rtt = x, !.jitter = y, !.scale = z,
                                        !.previous = trip, !.samples = @ + 1]
      BY <1>2, <3>1, <3>2, <3>3 DEF Recorded
    <3>5. Recorded(l, trip) = [initialised |-> TRUE, rtt |-> x, jitter |-> y, scale |-> z,
                               previous |-> trip, samples |-> l.samples + 1]
      BY <1>2, <3>4
    <3>6. l.samples + 1 \in Nat /\ trip \in Nat
      OBVIOUS
    <3> QED
      BY <3>5, <3>6
  <2> QED
    BY <2>4, <2>6
<1> QED
  BY <1>1, <1>2

------------------------------------------------------------------------------
LEMMA MeasureInitEstablishes == MeasureInit => MeasureInv
<1> SUFFICES ASSUME MeasureInit PROVE MeasureInv
  OBVIOUS
<1>1. MeasureTypeOK
  <2>1. IsFiniteSet({}) /\ <<>> \in Seq(Pinged)
    BY FS_EmptySet, EmptySeq
  <2>2. NoSample \in [initialised : BOOLEAN, rtt : Nat, jitter : Nat, scale : Nat \ {0},
                      previous : Nat, samples : Nat]
    BY DEF NoSample
  <2> QED
    BY <2>1, <2>2 DEF MeasureInit, MeasureTypeOK
<1>2. PingsAreOfThisLink /\ LatencyIsOfThisLink
  BY EmptySeq DEF MeasureInit, PingsAreOfThisLink, LatencyIsOfThisLink, NoSample
<1> QED
  BY <1>1, <1>2 DEF MeasureInv

(* A ping that is sent is pending and open, whatever was before it, and    *)
(* the oldest beyond the cap is not pending.                               *)
LEMMA PingIsOpen ==
  ASSUME NEW pings \in Seq(Pinged), NEW open \in SUBSET Pinged, IsFiniteSet(open),
         pingSequence \in Nat, time \in Nat,
         \A i \in 1..Len(pings) : pings[i] \in open,
         \A i, j \in 1..Len(pings) : pings[i].id = pings[j].id => i = j,
         \A p \in open : p.id <= pingSequence /\ p.at <= time,
         Ping(pings, open), time' = time
  PROVE  /\ pingSequence' \in Nat
         /\ pendingPings' \in Seq(Pinged)
         /\ unanswered' \in SUBSET Pinged /\ IsFiniteSet(unanswered')
         /\ PingsAreOfThisLink'
<1> DEFINE p == [id |-> pingSequence + 1, at |-> time]
           all == Append(pings, p)
<1>0. Len(pings) \in Nat /\ p \in Pinged /\ p.id = pingSequence + 1 /\ p.at = time
  BY LenProperties DEF Pinged
<1>1. /\ pingSequence' = pingSequence + 1 /\ unanswered' = open \cup {p}
      /\ pendingPings' = IF Len(all) > MaxPending THEN Tail(all) ELSE all
  BY DEF Ping, Remembered
<1> HIDE DEF p
<1>2. /\ all \in Seq(Pinged) /\ Len(all) = Len(pings) + 1
      /\ \A i \in 1..Len(pings) : all[i] = pings[i]
      /\ all[Len(pings) + 1] = p
  BY <1>0, AppendProperties
<1> HIDE DEF all
<1>3. \A i \in 1..Len(all) : all[i] \in open \cup {p}
  BY <1>0, <1>2
<1>4. ASSUME NEW i \in 1..Len(all), NEW j \in 1..Len(all), all[i].id = all[j].id
      PROVE  i = j
  <2>1. \A k \in 1..Len(pings) : pings[k].id <= pingSequence /\ pings[k].id \in Nat
    BY DEF Pinged
  <2>2. i = Len(pings) + 1 \/ i \in 1..Len(pings)
    BY <1>0, <1>2
  <2>3. j = Len(pings) + 1 \/ j \in 1..Len(pings)
    BY <1>0, <1>2
  <2> QED
    BY <1>0, <1>2, <1>4, <2>1, <2>2, <2>3
<1>5. /\ pendingPings' \in Seq(Pinged)
      /\ \A i \in 1..Len(pendingPings') : pendingPings'[i] \in open \cup {p}
      /\ \A i, j \in 1..Len(pendingPings') : pendingPings'[i].id = pendingPings'[j].id => i = j
  <2>1. CASE Len(all) > MaxPending
    <3>0. all # <<>>
      BY <1>0, <1>2, EmptySeq
    <3>1. PICK t : t = Tail(all)
      OBVIOUS
    <3>2. /\ t \in Seq(Pinged) /\ Len(t) = Len(all) - 1
          /\ \A k \in 1..Len(t) : t[k] = all[k + 1]
      BY <1>2, <3>0, <3>1, HeadTailProperties
    <3>3. \A k \in 1..Len(t) : k + 1 \in 1..Len(all) /\ k \in Nat
      BY <1>0, <1>2, <3>2
    <3>4. \A i \in 1..Len(t) : t[i] \in open \cup {p}
      BY <1>3, <3>2, <3>3
    <3>5. ASSUME NEW i \in 1..Len(t), NEW j \in 1..Len(t), t[i].id = t[j].id
          PROVE  i = j
      <4>1. i + 1 \in 1..Len(all) /\ j + 1 \in 1..Len(all)
        BY <3>3
      <4>2. all[i + 1].id = all[j + 1].id
        BY <3>2, <3>5
      <4>3. i + 1 = j + 1
        BY <1>4, <4>1, <4>2
      <4> QED
        BY <3>3, <4>3
    <3>6. pendingPings' = t
      BY <1>1, <2>1, <3>1
    <3> QED
      BY <3>2, <3>4, <3>5, <3>6
  <2>2. CASE ~(Len(all) > MaxPending)
    BY <1>1, <1>2, <1>3, <1>4, <2>2
  <2> QED
    BY <2>1, <2>2
<1>6. unanswered' \in SUBSET Pinged /\ IsFiniteSet(unanswered')
  <2>1. IsFiniteSet(open \cup {p})
    BY FS_AddElement
  <2> QED
    BY <1>0, <1>1, <2>1
<1>7. \A q \in unanswered' : q.id <= pingSequence' /\ q.at <= time'
  BY <1>0, <1>1 DEF Pinged
<1>8. PingsAreOfThisLink'
  BY <1>1, <1>5, <1>7 DEF PingsAreOfThisLink
<1> QED
  BY <1>1, <1>5, <1>6, <1>8

(* Start: the pings and the averages of another link are given up.         *)
LEMMA StartKeeps == MeasureInv /\ Start => MeasureInv'
<1> SUFFICES ASSUME MeasureInv, Start PROVE MeasureInv'
  OBVIOUS
<1>1. pingSequence \in Nat /\ time \in Nat
  BY DEF MeasureInv, MeasureTypeOK
<1>2. <<>> \in Seq(Pinged) /\ Len(<<>>) = 0 /\ IsFiniteSet({}) /\ {} \in SUBSET Pinged
  BY EmptySeq, FS_EmptySet
<1>3. Ping(<<>>, {}) /\ time' = time
  BY DEF Start
<1>4. /\ \A i \in 1..Len(<<>>) : <<>>[i] \in {}
      /\ \A i, j \in 1..Len(<<>>) : <<>>[i].id = <<>>[j].id => i = j
  BY <1>2
<1>5. /\ pingSequence' \in Nat /\ pendingPings' \in Seq(Pinged)
      /\ unanswered' \in SUBSET Pinged /\ IsFiniteSet(unanswered')
      /\ PingsAreOfThisLink'
  <2>1. PICK none : none = <<>>
    OBVIOUS
  <2>2. /\ none \in Seq(Pinged) /\ \A i \in 1..Len(none) : none[i] \in {}
        /\ \A i, j \in 1..Len(none) : none[i].id = none[j].id => i = j
    BY <1>2, <1>4, <2>1
  <2>3. Ping(none, {})
    BY <1>3, <2>1
  <2> QED
    BY <1>1, <1>2, <1>3, <2>2, <2>3, PingIsOpen
<1>6. latency' = NoSample /\ trips' = {} /\ fresh' = 0 /\ timersRun' = TRUE
  BY DEF Start, Reset
<1>7. NoSample \in [initialised : BOOLEAN, rtt : Nat, jitter : Nat, scale : Nat \ {0},
                    previous : Nat, samples : Nat]
  BY DEF NoSample
<1>8. MeasureTypeOK'
  BY <1>1, <1>3, <1>5, <1>6, <1>7 DEF MeasureTypeOK
<1>9. LatencyIsOfThisLink'
  BY <1>6 DEF LatencyIsOfThisLink, NoSample
<1> QED
  BY <1>5, <1>8, <1>9 DEF MeasureInv

LEMMA SendPingKeeps == MeasureInv /\ SendPing => MeasureInv'
<1> SUFFICES ASSUME MeasureInv, SendPing PROVE MeasureInv'
  OBVIOUS
<1>1. MeasureTypeOK /\ PingsAreOfThisLink /\ LatencyIsOfThisLink
  BY DEF MeasureInv
<1>2. Ping(pendingPings, unanswered) /\ UNCHANGED <<timersRun, latency, report, time, trips, fresh>>
  BY DEF SendPing
<1>3. /\ pingSequence' \in Nat /\ pendingPings' \in Seq(Pinged)
      /\ unanswered' \in SUBSET Pinged /\ IsFiniteSet(unanswered')
      /\ PingsAreOfThisLink'
  BY <1>1, <1>2, PingIsOpen DEF MeasureTypeOK, PingsAreOfThisLink
<1>4. MeasureTypeOK'
  BY <1>1, <1>2, <1>3 DEF MeasureTypeOK
<1>5. LatencyIsOfThisLink'
  BY <1>1, <1>2 DEF LatencyIsOfThisLink
<1> QED
  BY <1>3, <1>4, <1>5 DEF MeasureInv

(* ReceivePong: a trip that is measured is one of an open ping, which is   *)
(* not open any more.                                                      *)
LEMMA ReceivePongKeeps ==
  ASSUME MeasureInv, NEW id \in 1..MaxPings, ReceivePong(id)
  PROVE  MeasureInv'
<1>1. MeasureTypeOK /\ PingsAreOfThisLink /\ LatencyIsOfThisLink
  BY DEF MeasureInv
<1> DEFINE answered == {p \in unanswered : p.id = id}
<1>2. /\ unanswered' = unanswered \ answered
      /\ trips' = trips \cup {time - p.at : p \in answered}
      /\ fresh' = fresh + Cardinality(answered)
      /\ UNCHANGED <<timersRun, pingSequence, report, time>>
  BY DEF ReceivePong
<1>3. /\ IsFiniteSet(answered) /\ Cardinality(answered) \in Nat
      /\ unanswered' \in SUBSET Pinged /\ IsFiniteSet(unanswered')
  <2>1. answered \in SUBSET unanswered /\ unanswered \ answered \in SUBSET unanswered
    OBVIOUS
  <2> HIDE DEF answered
  <2> QED
    BY <1>1, <1>2, <2>1, FS_Subset, FS_CardinalityType DEF MeasureTypeOK
<1>4. trips' \in SUBSET Nat /\ trips \subseteq trips'
  <2>1. ASSUME NEW p \in answered PROVE time - p.at \in Nat
    BY <1>1 DEF MeasureTypeOK, PingsAreOfThisLink, Pinged
  <2> HIDE DEF answered
  <2> QED
    BY <1>1, <1>2, <2>1 DEF MeasureTypeOK
<1>5. fresh' \in Nat /\ fresh <= fresh'
  BY <1>1, <1>2, <1>3 DEF MeasureTypeOK
<1>6. \A p \in unanswered' : p.id <= pingSequence' /\ p.at <= time'
  BY <1>1, <1>2 DEF PingsAreOfThisLink
<1>7. Len(pendingPings) \in Nat /\ \A i \in 1..Len(pendingPings) : pendingPings[i] \in Pinged
  BY <1>1, LenProperties, ElementOfSeq DEF MeasureTypeOK
<1>8. CASE \E i \in 1..Len(pendingPings) : pendingPings[i].id = id
  <2>1. PICK i : i = CHOOSE j \in 1..Len(pendingPings) : pendingPings[j].id = id
    OBVIOUS
  <2>2. i \in 1..Len(pendingPings) /\ pendingPings[i].id = id
    BY <1>8, <2>1
  <2>3. /\ latency' = Recorded(latency, time - pendingPings[i].at)
        /\ pendingPings' = RemoveAt(pendingPings, i)
    BY <1>8, <2>1 DEF ReceivePong
  <2>4. pendingPings[i] \in answered /\ time - pendingPings[i].at \in trips'
    BY <1>1, <1>2, <2>2 DEF PingsAreOfThisLink
  <2>5. Cardinality(answered) >= 1
    <3> HIDE DEF answered
    <3>1. Cardinality(answered) # 0
      BY <1>3, <2>4, FS_EmptySet
    <3> QED
      BY <1>3, <3>1
  <2>6. /\ pendingPings' \in Seq(Pinged) /\ Len(pendingPings') = Len(pendingPings) - 1
        /\ \A k \in 1..Len(pendingPings) - 1 :
             pendingPings'[k] = IF k < i THEN pendingPings[k] ELSE pendingPings[k + 1]
    BY <1>1, <2>2, <2>3, RemoveAtLeaves DEF MeasureTypeOK
  <2>7. ASSUME NEW k \in 1..Len(pendingPings')
        PROVE  \E m \in 1..Len(pendingPings) :
                 m # i /\ m = (IF k < i THEN k ELSE k + 1) /\ pendingPings'[k] = pendingPings[m]
    BY <1>7, <2>2, <2>6
  <2>8. PingsAreOfThisLink'
    <3>1. ASSUME NEW k \in 1..Len(pendingPings') PROVE pendingPings'[k] \in unanswered'
      <4>1. PICK m \in 1..Len(pendingPings) : m # i /\ pendingPings'[k] = pendingPings[m]
        BY <2>7
      <4>2. pendingPings[m] \in unanswered /\ pendingPings[m].id # id
        BY <1>1, <2>2, <4>1 DEF PingsAreOfThisLink
      <4> QED
        BY <1>2, <4>1, <4>2
    <3>2. ASSUME NEW k \in 1..Len(pendingPings'), NEW h \in 1..Len(pendingPings'),
                 pendingPings'[k].id = pendingPings'[h].id
          PROVE  k = h
      <4>1. PICK m \in 1..Len(pendingPings) :
              m = (IF k < i THEN k ELSE k + 1) /\ pendingPings'[k] = pendingPings[m]
        BY <2>7
      <4>2. PICK n \in 1..Len(pendingPings) :
              n = (IF h < i THEN h ELSE h + 1) /\ pendingPings'[h] = pendingPings[n]
        BY <2>7
      <4>3. m = n
        BY <1>1, <3>2, <4>1, <4>2 DEF PingsAreOfThisLink
      <4>4. Len(pendingPings') \in Int /\ k \in Int /\ h \in Int /\ i \in Int
        BY <1>7, <2>2, <2>6
      <4> QED
        BY <4>1, <4>2, <4>3, <4>4
    <3> QED
      BY <1>6, <3>1, <3>2 DEF PingsAreOfThisLink
  <2>9. /\ latency' \in [initialised : BOOLEAN, rtt : Nat, jitter : Nat,
                         scale : Nat \ {0}, previous : Nat, samples : Nat]
        /\ latency'.initialised
        /\ latency'.samples = latency.samples + 1
        /\ \E lo, hi \in trips' : Between(latency', lo, hi)
    <3>1. PICK T \in SUBSET Nat : T = trips'
      BY <1>4
    <3>2. PICK trip : trip = time - pendingPings[i].at
      OBVIOUS
    <3>3. PICK l : l = latency
      OBVIOUS
    <3>4. /\ l \in [initialised : BOOLEAN, rtt : Nat, jitter : Nat,
                    scale : Nat \ {0}, previous : Nat, samples : Nat]
          /\ trip \in T
          /\ ~l.initialised => l.jitter = 0 /\ l.scale = 1
      BY <1>1, <2>4, <3>1, <3>2, <3>3 DEF MeasureTypeOK, LatencyIsOfThisLink
    <3>5. l.initialised => \E lo, hi \in T : Between(l, lo, hi)
      BY <1>1, <1>4, <3>1, <3>3 DEF LatencyIsOfThisLink
    <3>6. /\ Recorded(l, trip) \in [initialised : BOOLEAN, rtt : Nat, jitter : Nat,
                                   scale : Nat \ {0}, previous : Nat, samples : Nat]
          /\ Recorded(l, trip).initialised
          /\ Recorded(l, trip).samples = l.samples + 1
          /\ \E lo, hi \in T : Between(Recorded(l, trip), lo, hi)
      BY <3>4, <3>5, RecordedIsOfThisLink
    <3> QED
      BY <2>3, <3>1, <3>2, <3>3, <3>6
  <2>10. MeasureTypeOK'
    BY <1>1, <1>2, <1>3, <1>4, <1>5, <2>6, <2>9 DEF MeasureTypeOK
  <2>11. LatencyIsOfThisLink'
    <3>1. latency'.samples <= fresh'
      <4>1. latency.samples \in Nat /\ fresh \in Nat /\ latency.samples <= fresh
        BY <1>1 DEF MeasureTypeOK, LatencyIsOfThisLink
      <4>2. PICK n \in Nat : n = Cardinality(answered) /\ n >= 1
        BY <1>3, <2>5
      <4>3. fresh' = fresh + n /\ latency'.samples = latency.samples + 1
        BY <1>2, <2>9, <4>2
      <4> QED
        BY <4>1, <4>2, <4>3
    <3> QED
      BY <2>9, <3>1 DEF LatencyIsOfThisLink
  <2> QED
    BY <2>8, <2>10, <2>11 DEF MeasureInv
<1>9. CASE ~\E i \in 1..Len(pendingPings) : pendingPings[i].id = id
  <2>1. UNCHANGED <<latency, pendingPings>>
    BY <1>9 DEF ReceivePong
  <2>2. MeasureTypeOK'
    BY <1>1, <1>2, <1>3, <1>4, <1>5, <2>1 DEF MeasureTypeOK
  <2>3. PingsAreOfThisLink'
    BY <1>1, <1>2, <1>6, <1>9, <2>1 DEF PingsAreOfThisLink
  <2>4. LatencyIsOfThisLink'
    <3>1. latency.samples <= fresh'
      BY <1>1, <1>5 DEF MeasureTypeOK, LatencyIsOfThisLink
    <3> QED
      BY <1>1, <1>4, <2>1, <3>1 DEF LatencyIsOfThisLink
  <2> QED
    BY <2>2, <2>3, <2>4 DEF MeasureInv
<1> QED
  BY <1>8, <1>9

(* SendNetworkReport: what it reports, and that it forgets the count.      *)
LEMMA SendReportKeeps ==
  ASSUME MeasureInv, SendNetworkReport
  PROVE  /\ MeasureInv'
         /\ report' # report =>
              /\ 0 < report'.samples /\ report'.samples <= fresh
              /\ \E t \in trips : 10 * t <= report'.rtt
              /\ \E t \in trips : report'.rtt <= 10 * t
              /\ \E s, t \in trips : report'.jitter <= 10 * (t - s)
<1>1. MeasureTypeOK /\ PingsAreOfThisLink /\ LatencyIsOfThisLink
  BY DEF MeasureInv
<1>2. UNCHANGED <<timersRun, pingSequence, pendingPings, time, unanswered, trips>>
  BY DEF SendNetworkReport
<1>3. PingsAreOfThisLink'
  BY <1>1, <1>2 DEF PingsAreOfThisLink
<1>4. CASE latency.samples = 0
  <2>1. UNCHANGED <<latency, report, fresh>>
    BY <1>4 DEF SendNetworkReport
  <2> QED
    BY <1>1, <1>2, <1>3, <2>1 DEF MeasureInv, MeasureTypeOK, LatencyIsOfThisLink
<1>5. CASE latency.samples # 0
  <2>1. /\ report' = [rtt |-> Tenths(latency.rtt, latency.scale),
                      jitter |-> Tenths(latency.jitter, latency.scale),
                      samples |-> latency.samples]
        /\ latency' = [latency EXCEPT !.samples = 0]
        /\ fresh' = 0
    BY <1>5 DEF SendNetworkReport
  <2>2. latency.initialised /\ latency.samples \in Nat /\ latency.samples <= fresh
    BY <1>1, <1>5 DEF MeasureTypeOK, LatencyIsOfThisLink
  <2>3. PICK lo \in trips, hi \in trips : Between(latency, lo, hi)
    BY <1>1, <2>2 DEF LatencyIsOfThisLink
  <2>4. /\ lo \in Nat /\ hi \in Nat /\ lo <= hi /\ hi - lo \in Nat
        /\ latency.rtt \in Nat /\ latency.jitter \in Nat /\ latency.scale \in Nat \ {0}
        /\ lo * latency.scale <= latency.rtt /\ latency.rtt <= hi * latency.scale
        /\ latency.jitter <= (hi - lo) * latency.scale
    BY <1>1, <2>3 DEF MeasureTypeOK, Between
  <2>5. /\ 10 * lo <= report'.rtt /\ report'.rtt <= 10 * hi
        /\ report'.jitter <= 10 * (hi - lo)
    BY <2>1, <2>4, TenthsWithin
  <2>6. 0 < report'.samples /\ report'.samples <= fresh
    BY <1>5, <2>1, <2>2
  <2>7. /\ latency'.samples = 0 /\ latency'.initialised
        /\ latency' \in [initialised : BOOLEAN, rtt : Nat, jitter : Nat,
                         scale : Nat \ {0}, previous : Nat, samples : Nat]
    BY <1>1, <2>1, <2>2 DEF MeasureTypeOK
  <2>8. Between(latency', lo, hi)
    BY <1>1, <2>1, <2>3 DEF Between, MeasureTypeOK
  <2>9. MeasureTypeOK'
    BY <1>1, <1>2, <2>1, <2>7 DEF MeasureTypeOK
  <2>10. LatencyIsOfThisLink'
    BY <1>2, <2>1, <2>7, <2>8 DEF LatencyIsOfThisLink
  <2> QED
    BY <1>3, <2>5, <2>6, <2>9, <2>10 DEF MeasureInv
<1> QED
  BY <1>4, <1>5

(* The steps that measure nothing.                                         *)
LEMMA RestKeepsMeasure ==
  ASSUME MeasureInv, Stop \/ PassTime \/ Reload \/ UNCHANGED measureVars
  PROVE  MeasureInv'
<1>1. MeasureTypeOK /\ PingsAreOfThisLink /\ LatencyIsOfThisLink
  BY DEF MeasureInv
<1>2. <<>> \in Seq(Pinged) /\ Len(<<>>) = 0 /\ IsFiniteSet({})
  BY EmptySeq, FS_EmptySet
<1>3. CASE Stop
  <2>1. /\ timersRun' = FALSE /\ pendingPings' = <<>>
        /\ UNCHANGED <<pingSequence, latency, report, time, unanswered, trips, fresh>>
    BY <1>3 DEF Stop
  <2>2. MeasureTypeOK'
    BY <1>1, <1>2, <2>1 DEF MeasureTypeOK
  <2>3. PingsAreOfThisLink'
    BY <1>1, <1>2, <2>1 DEF PingsAreOfThisLink
  <2>4. LatencyIsOfThisLink'
    BY <1>1, <2>1 DEF LatencyIsOfThisLink
  <2> QED
    BY <2>2, <2>3, <2>4 DEF MeasureInv
<1>4. CASE PassTime
  <2>1. /\ time' = time + 1
        /\ UNCHANGED <<timersRun, pingSequence, pendingPings, latency, report, unanswered, trips, fresh>>
    BY <1>4 DEF PassTime
  <2>2. MeasureTypeOK'
    BY <1>1, <2>1 DEF MeasureTypeOK
  <2>3. \A p \in unanswered' : p.id <= pingSequence' /\ p.at <= time'
    BY <1>1, <2>1 DEF PingsAreOfThisLink, MeasureTypeOK, Pinged
  <2>4. PingsAreOfThisLink'
    BY <1>1, <2>1, <2>3 DEF PingsAreOfThisLink
  <2>5. LatencyIsOfThisLink'
    BY <1>1, <2>1 DEF LatencyIsOfThisLink
  <2> QED
    BY <2>2, <2>4, <2>5 DEF MeasureInv
<1>5. CASE Reload
  <2>1. MeasureInit'
    BY <1>5 DEF Reload, MeasureInit
  <2> QED
    BY <2>1, MeasureInitEstablishes, PTL
<1>6. CASE UNCHANGED measureVars
  BY <1>1, <1>6 DEF measureVars, MeasureInv, MeasureTypeOK, PingsAreOfThisLink, LatencyIsOfThisLink
<1> QED
  BY <1>3, <1>4, <1>5, <1>6

LEMMA MeasureNextKeeps == MeasureInv /\ [MeasureNext]_measureVars => MeasureInv'
<1> SUFFICES ASSUME MeasureInv, [MeasureNext]_measureVars PROVE MeasureInv'
  OBVIOUS
<1>1. CASE Start
  BY <1>1, StartKeeps
<1>2. CASE SendPing
  BY <1>2, SendPingKeeps
<1>3. CASE \E id \in 1..MaxPings : ReceivePong(id)
  BY <1>3, ReceivePongKeeps
<1>4. CASE SendNetworkReport
  BY <1>4, SendReportKeeps
<1>5. CASE Stop \/ PassTime \/ Reload \/ UNCHANGED measureVars
  BY <1>5, RestKeepsMeasure
<1> QED
  BY <1>1, <1>2, <1>3, <1>4, <1>5 DEF MeasureNext

(* A report's round trip lies among those of the socket's own answered     *)
(* pings, its jitter within their spread, and it counts no answer twice,   *)
(* for any number of pings, of those remembered and of time units, with    *)
(* the averages exact and rounded as they are sent.                        *)
(* (LatencyTracker.record, takeReport and reset; receivePong)              *)
THEOREM ReportsAreOfThisLink == MeasureSpec => ReportsTellOfThisLink
<1> DEFINE Told == report' # report /\ report' # NoReport =>
                     /\ 0 < report'.samples /\ report'.samples <= fresh
                     /\ \E t \in trips : 10 * t <= report'.rtt
                     /\ \E t \in trips : report'.rtt <= 10 * t
                     /\ \E s, t \in trips : report'.jitter <= 10 * (t - s)
<1>1. MeasureInit => MeasureInv
  BY MeasureInitEstablishes
<1>2. MeasureInv /\ [MeasureNext]_measureVars => MeasureInv'
  BY MeasureNextKeeps
<1>3. MeasureInv /\ [MeasureNext]_measureVars => [Told]_measureVars
  <2> SUFFICES ASSUME MeasureInv, MeasureNext PROVE Told
    BY DEF Told
  <2>1. CASE SendNetworkReport
    BY <2>1, SendReportKeeps
  <2>2. CASE ~SendNetworkReport
    <3>1. report' = report \/ report' = NoReport
      BY <2>2 DEF MeasureNext, Reload, Start, Stop, SendPing, ReceivePong, PassTime
    <3> QED
      BY <3>1
  <2> QED
    BY <2>1, <2>2
<1> QED
  BY <1>1, <1>2, <1>3, PTL DEF MeasureSpec, ReportsTellOfThisLink, Told

------------------------------------------------------------------------------
(* The watchlist.                                                          *)

(* A set of numbers with zero and each number's successor has them all.    *)
LEMMA NatSetInduction ==
  ASSUME NEW S, 0 \in S, \A n \in Nat : n \in S => n + 1 \in S
  PROVE  Nat \subseteq S
<1> DEFINE Below == {pair \in Nat \X Nat : pair[1] < pair[2]}
<1> SUFFICES ASSUME Nat \ S # {} PROVE FALSE
  OBVIOUS
<1>1. IsWellFoundedOn(Below, Nat)
  BY NatLessThanWellFounded DEF OpToRel
<1>2. PICK x \in Nat \ S : \A y \in Nat \ S : <<y, x>> \notin Below
  <2> HIDE DEF Below
  <2> QED
    BY <1>1, WFMin
<1>3. x - 1 \in Nat /\ <<x - 1, x>> \in Below /\ x - 1 + 1 = x
  OBVIOUS
<1> QED
  BY <1>2, <1>3

(* f is the function Added chooses, for the first n of the candidates.     *)
IsAdded(f, list, candidates, known, n) ==
    f = [m \in 0..n |->
           IF m = 0 THEN list
           ELSE IF candidates[m] \in known \ ToSet(f[m - 1])
                THEN Append(f[m - 1], candidates[m]) ELSE f[m - 1]]

LEMMA AddedExists ==
  ASSUME NEW list, NEW candidates, NEW known, NEW n \in Nat
  PROVE  \E f : IsAdded(f, list, candidates, known, n)
<1> DEFINE Good == {m \in Nat : \E f : IsAdded(f, list, candidates, known, m)}
           Next1(s, m) == IF candidates[m] \in known \ ToSet(s) THEN Append(s, candidates[m]) ELSE s
<1> HIDE DEF Next1
<1>0. ASSUME NEW f, NEW m
      PROVE  IsAdded(f, list, candidates, known, m) <=>
             f = [k \in 0..m |-> IF k = 0 THEN list ELSE Next1(f[k - 1], k)]
  <2>1. ASSUME NEW k
        PROVE  (IF k = 0 THEN list ELSE IF candidates[k] \in known \ ToSet(f[k - 1])
                  THEN Append(f[k - 1], candidates[k]) ELSE f[k - 1])
               = IF k = 0 THEN list ELSE Next1(f[k - 1], k)
    BY DEF Next1
  <2> QED
    BY <2>1 DEF IsAdded
<1>1. 0 \in Good
  <2> DEFINE f == [k \in 0..0 |-> list]
  <2>1. f = [k \in 0..0 |-> IF k = 0 THEN list ELSE Next1(f[k - 1], k)]
    OBVIOUS
  <2> HIDE DEF f
  <2> QED
    BY <1>0, <2>1
<1>2. ASSUME NEW m \in Nat, m \in Good PROVE m + 1 \in Good
  <2>1. PICK f : IsAdded(f, list, candidates, known, m)
    BY <1>2
  <2> DEFINE g == [k \in 0..m + 1 |-> IF k = m + 1 THEN Next1(f[m], k) ELSE f[k]]
  <2>2. ASSUME NEW k \in 0..m + 1
        PROVE  g[k] = IF k = 0 THEN list ELSE Next1(g[k - 1], k)
    <3>1. CASE k = m + 1
      <4>1. k - 1 = m /\ m \in 0..m + 1 /\ m # m + 1 /\ k # 0
        BY <3>1
      <4>2. g[m] = f[m] /\ g[k] = Next1(f[m], k)
        BY <3>1, <4>1
      <4> HIDE DEF g
      <4> QED
        BY <4>1, <4>2
    <3>2. CASE k # m + 1
      <4>1. k \in 0..m /\ g[k] = f[k]
        BY <3>2
      <4>2. f[k] = IF k = 0 THEN list ELSE Next1(f[k - 1], k)
        BY <1>0, <2>1, <4>1
      <4>3. k # 0 => k - 1 \in 0..m + 1 /\ k - 1 # m + 1
        BY <4>1
      <4>4. k # 0 => g[k - 1] = f[k - 1]
        BY <4>3
      <4> HIDE DEF g
      <4> QED
        BY <4>1, <4>2, <4>4
    <3> QED
      BY <3>1, <3>2
  <2>3. g = [k \in 0..m + 1 |-> g[k]]
    OBVIOUS
  <2> HIDE DEF g
  <2>4. g = [k \in 0..m + 1 |-> IF k = 0 THEN list ELSE Next1(g[k - 1], k)]
    BY <2>2, <2>3
  <2>5. IsAdded(g, list, candidates, known, m + 1) /\ m + 1 \in Nat
    BY <1>0, <2>4
  <2> QED
    BY <2>5
<1> HIDE DEF Good
<1>3. n \in Good
  BY <1>1, <1>2, NatSetInduction
<1> QED
  BY <1>3 DEF Good

(* p names, among the first n candidates, those that made `more` of list.  *)
Grows(p, more, list, candidates, known, n) ==
    /\ list \in Seq(Value) /\ more \in Seq(Value) /\ Len(list) <= Len(more)
    /\ \A a \in 1..Len(list) : more[a] = list[a]
    /\ \A a \in Len(list) + 1..Len(more) :
         /\ p[a] \in 1..n /\ more[a] = candidates[p[a]] /\ First(candidates, p[a])
         /\ more[a] \in known /\ more[a] \notin ToSet(list)
    /\ \A a, b \in Len(list) + 1..Len(more) : a < b => p[a] < p[b]
    /\ \A k \in 1..n : candidates[k] \in known => \E a \in 1..Len(more) : more[a] = candidates[k]

LEMMA GrowsOneMore ==
  ASSUME NEW p, NEW more, NEW list, NEW candidates, NEW known, NEW n \in Nat, NEW next,
         Grows(p, more, list, candidates, known, n), candidates[n + 1] \in Value,
         next = IF candidates[n + 1] \in known \ ToSet(more)
                THEN Append(more, candidates[n + 1]) ELSE more
  PROVE  \E q : Grows(q, next, list, candidates, known, n + 1)
<1> DEFINE l == Len(list)
           m == Len(more)
           c == candidates[n + 1]
<1>1. /\ list \in Seq(Value) /\ more \in Seq(Value) /\ l <= m
      /\ \A a \in 1..l : more[a] = list[a]
      /\ \A a \in l + 1..m :
           /\ p[a] \in 1..n /\ more[a] = candidates[p[a]] /\ First(candidates, p[a])
           /\ more[a] \in known /\ more[a] \notin ToSet(list)
      /\ \A a, b \in l + 1..m : a < b => p[a] < p[b]
      /\ \A k \in 1..n : candidates[k] \in known => \E a \in 1..m : more[a] = candidates[k]
  BY DEF Grows
<1>2. l \in Nat /\ m \in Nat /\ ToSet(more) = {more[a] : a \in 1..m}
      /\ ToSet(list) = {list[a] : a \in 1..l}
  BY <1>1, LenProperties DEF ToSet
<1>3. \A k \in 1..n + 1 : k \in 1..n \/ k = n + 1
  OBVIOUS
<1>4. \A k \in 1..n : k \in 1..n + 1 /\ k < n + 1
  OBVIOUS
<1>5. CASE c \in known \ ToSet(more)
  <2>1. /\ next \in Seq(Value) /\ Len(next) = m + 1 /\ next[m + 1] = c
        /\ \A a \in 1..m : next[a] = more[a]
    BY <1>1, <1>5, AppendProperties
  <2> DEFINE q == [a \in 1..m + 1 |-> IF a = m + 1 THEN n + 1 ELSE p[a]]
  <2>2. /\ \A a \in l + 1..m + 1 : a = m + 1 \/ (a \in l + 1..m /\ a \in 1..m)
        /\ \A a \in 1..l : a \in 1..m
        /\ m + 1 \in 1..m + 1 /\ \A a \in 1..m : a \in 1..m + 1 /\ a # m + 1
    BY <1>1, <1>2
  <2>3. q[m + 1] = n + 1 /\ \A a \in 1..m : q[a] = p[a]
    BY <2>2
  <2> HIDE DEF q, l, m, c
  <2>4. First(candidates, n + 1)
    <3>1. ASSUME NEW k \in 1..n, candidates[k] = candidates[n + 1] PROVE FALSE
      BY <1>1, <1>2, <1>5, <3>1 DEF c
    <3>2. n + 1 - 1 = n
      OBVIOUS
    <3> QED
      BY <3>1, <3>2 DEF First
  <2>5. c \notin ToSet(list)
    BY <1>1, <1>2, <1>5, <2>2
  <2>6. ASSUME NEW a \in l + 1..m + 1
        PROVE  /\ q[a] \in 1..n + 1 /\ next[a] = candidates[q[a]] /\ First(candidates, q[a])
               /\ next[a] \in known /\ next[a] \notin ToSet(list)
    <3>1. CASE a = m + 1
      BY <1>5, <2>1, <2>3, <2>4, <2>5, <3>1 DEF c
    <3>2. CASE a \in l + 1..m /\ a \in 1..m
      BY <1>1, <1>4, <2>1, <2>3, <3>2
    <3> QED
      BY <2>2, <3>1, <3>2
  <2>7. ASSUME NEW a \in l + 1..m + 1, NEW b \in l + 1..m + 1, a < b PROVE q[a] < q[b]
    <3>1. a \in l + 1..m /\ a \in 1..m
      BY <1>2, <2>2, <2>7
    <3>2. q[a] = p[a] /\ p[a] \in 1..n
      BY <1>1, <2>3, <3>1
    <3>3. CASE b = m + 1
      BY <1>4, <2>3, <3>2, <3>3
    <3>4. CASE b \in l + 1..m /\ b \in 1..m
      BY <1>1, <2>3, <2>7, <3>1, <3>2, <3>4
    <3> QED
      BY <2>2, <3>3, <3>4
  <2>8. ASSUME NEW k \in 1..n + 1, candidates[k] \in known
        PROVE  \E a \in 1..m + 1 : next[a] = candidates[k]
    <3>1. CASE k = n + 1
      BY <2>1, <2>2, <3>1 DEF c
    <3>2. CASE k \in 1..n
      BY <1>1, <2>1, <2>2, <2>8, <3>2
    <3> QED
      BY <1>3, <3>1, <3>2
  <2>9. l <= m + 1 /\ \A a \in 1..l : next[a] = list[a]
    BY <1>1, <1>2, <2>1, <2>2
  <2>10. Grows(q, next, list, candidates, known, n + 1)
    BY <1>1, <2>1, <2>6, <2>7, <2>8, <2>9 DEF Grows, l
  <2> QED
    BY <2>10
<1>6. CASE c \notin known \ ToSet(more)
  <2>1. next = more
    BY <1>6
  <2> HIDE DEF l, m, c
  <2>2. ASSUME NEW k \in 1..n + 1, candidates[k] \in known
        PROVE  \E a \in 1..m : more[a] = candidates[k]
    <3>1. CASE k = n + 1
      <4>1. c \in ToSet(more)
        BY <1>6, <2>2, <3>1 DEF c
      <4> QED
        BY <1>2, <3>1, <4>1 DEF c
    <3>2. CASE k \in 1..n
      BY <1>1, <2>2, <3>2
    <3> QED
      BY <1>3, <3>1, <3>2
  <2>3. Grows(p, more, list, candidates, known, n + 1)
    BY <1>1, <1>4, <2>2 DEF Grows, l, m
  <2> QED
    BY <2>1, <2>3
<1> QED
  BY <1>5, <1>6

(* What a loop adds are the first occurrences of what is known, in order.  *)
LEMMA AddedGrows ==
  ASSUME NEW list \in Seq(Value), NEW candidates \in Seq(Value), NEW known
  PROVE  \E p : Grows(p, Added(list, candidates, known), list, candidates, known, Len(candidates))
<1> DEFINE l == Len(candidates)
           f == CHOOSE f : IsAdded(f, list, candidates, known, l)
           Good == {n \in Nat : n <= l => \E p : Grows(p, f[n], list, candidates, known, n)}
<1>0. l \in Nat /\ \A m \in 1..l : candidates[m] \in Value
  BY LenProperties, ElementOfSeq
<1>1. IsAdded(f, list, candidates, known, l)
  BY <1>0, AddedExists, Zenon
<1>2. Added(list, candidates, known) = f[l]
  BY DEF Added, IsAdded
<1> HIDE DEF f
<1>3. /\ f[0] = list
      /\ \A m \in 1..l : f[m] = IF candidates[m] \in known \ ToSet(f[m - 1])
                                THEN Append(f[m - 1], candidates[m]) ELSE f[m - 1]
  <2>1. 0 \in 0..l /\ \A m \in 1..l : m \in 0..l /\ m # 0
    BY <1>0
  <2> HIDE DEF l
  <2> QED
    BY <1>1, <2>1 DEF IsAdded
<1>4. 0 \in Good
  <2>1. Len(list) \in Nat
    BY LenProperties
  <2>2. 1..0 = {} /\ Len(list) + 1..Len(list) = {} /\ Len(list) <= Len(list)
    BY <2>1
  <2>3. Grows(<<>>, list, list, candidates, known, 0)
    BY <2>2 DEF Grows
  <2> QED
    BY <1>3, <2>3
<1>5. ASSUME NEW n \in Nat, n \in Good PROVE n + 1 \in Good
  <2> SUFFICES ASSUME n + 1 <= l PROVE \E p : Grows(p, f[n + 1], list, candidates, known, n + 1)
    OBVIOUS
  <2>1. n + 1 \in 1..l /\ n <= l /\ n + 1 - 1 = n
    BY <1>0
  <2>2. PICK p : Grows(p, f[n], list, candidates, known, n)
    BY <1>5, <2>1
  <2>3. PICK more, next : more = f[n] /\ next = f[n + 1]
    OBVIOUS
  <2>4. next = IF candidates[n + 1] \in known \ ToSet(more)
               THEN Append(more, candidates[n + 1]) ELSE more
    BY <1>3, <2>1, <2>3
  <2>5. Grows(p, more, list, candidates, known, n) /\ candidates[n + 1] \in Value
    BY <1>0, <2>1, <2>2, <2>3
  <2>6. \E q : Grows(q, next, list, candidates, known, n + 1)
    BY <2>4, <2>5, GrowsOneMore
  <2> QED
    BY <2>3, <2>6
<1> HIDE DEF Good
<1>6. l \in Good
  BY <1>0, <1>4, <1>5, NatSetInduction
<1>7. \E p : Grows(p, f[l], list, candidates, known, l)
  BY <1>0, <1>6 DEF Good
<1> QED
  BY <1>2, <1>7
(* Two values at the places where they are first.                          *)
LEMMA FirstTells ==
  ASSUME NEW s, Len(s) \in Nat, NEW i \in 1..Len(s), NEW j \in 1..Len(s), First(s, i), First(s, j)
  PROVE  Before(s, s[i], s[j]) <=> i < j
<1>1. ASSUME NEW a \in 1..Len(s), NEW b \in 1..Len(s), First(s, a), First(s, b), s[a] = s[b]
      PROVE  a = b
  <2>1. ~(a < b)
    BY <1>1 DEF First
  <2>2. ~(b < a)
    BY <1>1 DEF First
  <2> QED
    BY <2>1, <2>2
<1>2. i < j => Before(s, s[i], s[j])
  BY DEF Before
<1>3. ASSUME Before(s, s[i], s[j]) PROVE i < j
  <2>1. PICK a \in 1..Len(s) : \E b \in 1..Len(s) :
          a < b /\ s[a] = s[i] /\ s[b] = s[j] /\ First(s, a) /\ First(s, b)
    BY <1>3, Zenon DEF Before
  <2>2. PICK b \in 1..Len(s) : a < b /\ s[a] = s[i] /\ s[b] = s[j] /\ First(s, a) /\ First(s, b)
    BY <2>1
  <2>3. a = i /\ b = j
    BY <1>1, <2>1, <2>2
  <2> QED
    BY <2>2, <2>3
<1> QED
  BY <1>2, <1>3

Distinct(s) == \A a, b \in 1..Len(s) : s[a] = s[b] => a = b

(* Without repetitions every place is first.                               *)
LEMMA DistinctTells ==
  ASSUME NEW s, Len(s) \in Nat, Distinct(s), NEW i \in 1..Len(s), NEW j \in 1..Len(s)
  PROVE  First(s, i) /\ (Before(s, s[i], s[j]) <=> i < j)
<1>1. ASSUME NEW k \in 1..Len(s) PROVE First(s, k)
  <2>1. \A b \in 1..k - 1 : b \in 1..Len(s) /\ b # k
    OBVIOUS
  <2> QED
    BY <2>1 DEF First, Distinct
<1>2. First(s, i) /\ First(s, j)
  BY <1>1
<1> QED
  BY <1>2, FirstTells

(* What is added comes after the list, in the order of the candidates.     *)
KeepsOrder(more, list, candidates) ==
    \A x, y \in ToSet(more) : x # y =>
        (Before(more, x, y) <=>
            \/ x \in ToSet(list) /\ (y \in ToSet(list) => Before(list, x, y))
            \/ x \notin ToSet(list) /\ y \notin ToSet(list) /\ Before(candidates, x, y))

LEMMA AddedInOrder ==
  ASSUME NEW list \in Seq(Value), Distinct(list), NEW candidates \in Seq(Value), NEW known,
         NEW more, more = Added(list, candidates, known)
  PROVE  /\ more \in Seq(Value) /\ Distinct(more)
         /\ ToSet(more) = ToSet(list) \cup (ToSet(candidates) \cap known)
         /\ KeepsOrder(more, list, candidates)
<1> DEFINE l == Len(list)
           m == Len(more)
           c == Len(candidates)
<1>1. PICK p : Grows(p, more, list, candidates, known, c)
  BY AddedGrows
<1>2. /\ more \in Seq(Value) /\ l <= m
      /\ \A a \in 1..l : more[a] = list[a]
      /\ \A a \in l + 1..m :
           /\ p[a] \in 1..c /\ more[a] = candidates[p[a]] /\ First(candidates, p[a])
           /\ more[a] \in known /\ more[a] \notin ToSet(list)
      /\ \A a, b \in l + 1..m : a < b => p[a] < p[b]
      /\ \A k \in 1..c : candidates[k] \in known => \E a \in 1..m : more[a] = candidates[k]
  BY <1>1 DEF Grows
<1>3. /\ l \in Nat /\ m \in Nat /\ c \in Nat
      /\ \A x : x \in ToSet(list) <=> \E a \in 1..l : x = list[a]
      /\ \A x : x \in ToSet(more) <=> \E a \in 1..m : x = more[a]
      /\ \A x : x \in ToSet(candidates) <=> \E a \in 1..c : x = candidates[a]
  <2>1. ASSUME NEW s \in Seq(Value)
        PROVE  Len(s) \in Nat /\ \A x : x \in ToSet(s) <=> \E a \in 1..Len(s) : x = s[a]
    BY LenProperties DEF ToSet
  <2> QED
    BY <1>2, <2>1
<1>4. /\ \A a \in 1..m : a \in 1..l \/ a \in l + 1..m
      /\ \A a \in 1..l : a \in 1..m
      /\ \A a \in l + 1..m : a \in 1..m
  BY <1>2, <1>3
<1>5. ASSUME NEW a \in l + 1..m, NEW b \in l + 1..m PROVE p[a] < p[b] <=> a < b
  <2>1. p[a] \in 1..c /\ p[b] \in 1..c /\ (a < b => p[a] < p[b]) /\ (b < a => p[b] < p[a])
    BY <1>2
  <2>2. a \in Int /\ b \in Int /\ (a < b \/ b < a \/ a = b)
    OBVIOUS
  <2> QED
    BY <2>1, <2>2
<1>6. ASSUME NEW a \in 1..m, NEW b \in 1..m, more[a] = more[b] PROVE a = b
  <2>1. CASE a \in 1..l /\ b \in 1..l
    BY <1>2, <1>6, <2>1 DEF Distinct
  <2>2. CASE a \in l + 1..m /\ b \in l + 1..m
    <3>1. ASSUME NEW i \in 1..c, NEW j \in 1..c, First(candidates, j), candidates[i] = candidates[j]
          PROVE  ~(i < j)
      BY <3>1 DEF First
    <3>2. ~(p[a] < p[b]) /\ ~(p[b] < p[a])
      BY <1>2, <1>6, <2>2, <3>1
    <3> QED
      BY <1>5, <2>2, <3>2
  <2>3. CASE a \in 1..l /\ b \in l + 1..m
    BY <1>2, <1>3, <1>6, <2>3
  <2>4. CASE a \in l + 1..m /\ b \in 1..l
    BY <1>2, <1>3, <1>6, <2>4
  <2> QED
    BY <1>4, <2>1, <2>2, <2>3, <2>4
<1>7. Distinct(more)
  BY <1>6 DEF Distinct
<1>8. ToSet(more) = ToSet(list) \cup (ToSet(candidates) \cap known)
  <2>1. ASSUME NEW x \in ToSet(more) PROVE x \in ToSet(list) \cup (ToSet(candidates) \cap known)
    <3>1. PICK a \in 1..m : x = more[a]
      BY <1>3
    <3>2. CASE a \in 1..l
      BY <1>2, <1>3, <3>1, <3>2
    <3>3. CASE a \in l + 1..m
      BY <1>2, <1>3, <3>1, <3>3
    <3> QED
      BY <1>4, <3>2, <3>3
  <2>2. ASSUME NEW x \in ToSet(list) PROVE x \in ToSet(more)
    BY <1>2, <1>3, <1>4
  <2>3. ASSUME NEW x \in ToSet(candidates), x \in known PROVE x \in ToSet(more)
    BY <1>2, <1>3, <2>3
  <2> QED
    BY <2>1, <2>2, <2>3
<1>9. ASSUME NEW x \in ToSet(more), NEW y \in ToSet(more), x # y
      PROVE  Before(more, x, y) <=>
               \/ x \in ToSet(list) /\ (y \in ToSet(list) => Before(list, x, y))
               \/ x \notin ToSet(list) /\ y \notin ToSet(list) /\ Before(candidates, x, y)
  <2>1. PICK a \in 1..m, b \in 1..m : x = more[a] /\ y = more[b]
    BY <1>3
  <2>2. Before(more, x, y) <=> a < b
    BY <1>3, <1>7, <2>1, DistinctTells
  <2>3. CASE a \in 1..l /\ b \in 1..l
    <3>1. x = list[a] /\ y = list[b] /\ x \in ToSet(list) /\ y \in ToSet(list)
      BY <1>2, <1>3, <2>1, <2>3
    <3>2. Before(list, list[a], list[b]) <=> a < b
      BY <1>3, <2>3, DistinctTells
    <3> QED
      BY <2>2, <3>1, <3>2, Zenon
  <2>4. CASE a \in l + 1..m /\ b \in l + 1..m
    <3>1. x = candidates[p[a]] /\ y = candidates[p[b]] /\ x \notin ToSet(list) /\ y \notin ToSet(list)
      BY <1>2, <2>1, <2>4
    <3>2. PICK i \in 1..c, j \in 1..c : i = p[a] /\ j = p[b] /\ First(candidates, i) /\ First(candidates, j)
      BY <1>2, <2>4
    <3>3. Before(candidates, candidates[i], candidates[j]) <=> i < j
      BY <1>3, <3>2, FirstTells
    <3>4. i < j <=> a < b
      BY <1>5, <2>4, <3>2
    <3> QED
      BY <2>2, <3>1, <3>2, <3>3, <3>4, Zenon
  <2>5. CASE a \in 1..l /\ b \in l + 1..m
    <3>1. a < b /\ x \in ToSet(list) /\ y \notin ToSet(list)
      BY <1>2, <1>3, <2>1, <2>5
    <3> QED
      BY <2>2, <3>1, Zenon
  <2>6. CASE a \in l + 1..m /\ b \in 1..l
    <3>1. ~(a < b) /\ x \notin ToSet(list) /\ y \in ToSet(list)
      BY <1>2, <1>3, <2>1, <2>6
    <3> QED
      BY <2>2, <3>1, Zenon
  <2> QED
    BY <1>4, <2>3, <2>4, <2>5, <2>6
<1>10. KeepsOrder(more, list, candidates)
  BY <1>9, Zenon DEF KeepsOrder
<1> QED
  BY <1>2, <1>7, <1>8, <1>10

(* The list a page makes is the registry as the user ordered it.           *)
Follows(list, placed, symbols) ==
    /\ list \in Seq(Value) /\ Distinct(list) /\ ToSet(list) = ToSet(symbols)
    /\ \A x, y \in ToSet(symbols) : x # y =>
         (Before(list, x, y) <=>
             \/ x \in ToSet(placed) /\ (y \in ToSet(placed) => Before(placed, x, y))
             \/ x \notin ToSet(placed) /\ y \notin ToSet(placed) /\ Before(symbols, x, y))

LEMMA ReconciledFollows ==
  ASSUME NEW storedOrder \in Seq(Value), NEW symbols \in Seq(Value)
  PROVE  Follows(Reconciled(storedOrder, symbols), storedOrder, symbols)
<1>1. PICK known, none, kept, list :
        /\ known = ToSet(symbols) /\ none = <<>>
        /\ kept = Added(none, storedOrder, known) /\ list = Added(kept, symbols, known)
  OBVIOUS
<1>2. none \in Seq(Value) /\ Distinct(none) /\ ToSet(none) = {}
  BY <1>1 DEF Distinct, ToSet
<1>3. /\ kept \in Seq(Value) /\ Distinct(kept)
      /\ ToSet(kept) = ToSet(none) \cup (ToSet(storedOrder) \cap known)
      /\ KeepsOrder(kept, none, storedOrder)
  <2>1. none \in Seq(Value) /\ Distinct(none) /\ kept = Added(none, storedOrder, known)
    BY <1>1, <1>2, Zenon
  <2> QED
    BY <2>1, AddedInOrder
<1>4. /\ list \in Seq(Value) /\ Distinct(list)
      /\ ToSet(list) = ToSet(kept) \cup (ToSet(symbols) \cap known)
      /\ KeepsOrder(list, kept, symbols)
  BY <1>1, <1>3, AddedInOrder
<1>5. /\ \A x : x \in ToSet(kept) <=> x \in ToSet(storedOrder) /\ x \in ToSet(symbols)
      /\ ToSet(list) = ToSet(symbols)
  BY <1>1, <1>2, <1>3, <1>4
<1>6. ASSUME NEW x \in ToSet(symbols), NEW y \in ToSet(symbols), x # y
      PROVE  Before(list, x, y) <=>
               \/ x \in ToSet(storedOrder) /\ (y \in ToSet(storedOrder) => Before(storedOrder, x, y))
               \/ x \notin ToSet(storedOrder) /\ y \notin ToSet(storedOrder) /\ Before(symbols, x, y)
  <2>1. Before(list, x, y) <=>
          \/ x \in ToSet(kept) /\ (y \in ToSet(kept) => Before(kept, x, y))
          \/ x \notin ToSet(kept) /\ y \notin ToSet(kept) /\ Before(symbols, x, y)
    BY <1>4, <1>5, <1>6, Zenon DEF KeepsOrder
  <2>2. x \in ToSet(kept) /\ y \in ToSet(kept) => (Before(kept, x, y) <=> Before(storedOrder, x, y))
    <3>1. x \notin ToSet(none) /\ y \notin ToSet(none)
      BY <1>2
    <3> QED
      BY <1>3, <1>6, <3>1, Zenon DEF KeepsOrder
  <2> QED
    BY <1>5, <2>1, <2>2, Zenon
<1>7. Follows(list, storedOrder, symbols)
  BY <1>4, <1>5, <1>6, Zenon DEF Follows
<1> QED
  BY <1>1, <1>7, Zenon DEF Reconciled

(* What a sequence is with one element more.                               *)
LEMMA InsertAtMakes ==
  ASSUME NEW S, NEW s \in Seq(S), NEW e \in S, NEW i \in 1..Len(s) + 1
  PROVE  /\ InsertAt(s, i, e) \in Seq(S)
         /\ Len(InsertAt(s, i, e)) = Len(s) + 1
         /\ InsertAt(s, i, e)[i] = e
         /\ \A k \in 1..Len(s) : InsertAt(s, i, e)[IF k < i THEN k ELSE k + 1] = s[k]
<1> DEFINE a == SubSeq(s, 1, i - 1)
           b == SubSeq(s, i, Len(s))
           ae == a \o <<e>>
<1>0. Len(s) \in Nat /\ i \in Nat /\ 1 <= i /\ i <= Len(s) + 1 /\ \A k \in 1..Len(s) : s[k] \in S
  BY LenProperties, ElementOfSeq
<1>1. /\ a \in Seq(S) /\ Len(a) = i - 1 /\ \A k \in 1..i - 1 : a[k] = s[k]
  <2>1. \A k \in 1..i - 1 : s[k] \in S
    BY <1>0
  <2>2. a \in Seq(S) /\ Len(a) = (IF 1 <= i - 1 THEN i - 1 - 1 + 1 ELSE 0)
        /\ \A k \in 1..i - 1 - 1 + 1 : a[k] = s[1 + k - 1]
    BY <1>0, <2>1, SubSeqProperties
  <2> HIDE DEF a
  <2> QED
    BY <1>0, <2>2
<1>2. /\ b \in Seq(S) /\ Len(b) = Len(s) + 1 - i /\ \A k \in 1..Len(s) + 1 - i : b[k] = s[i + k - 1]
  <2>1. \A k \in i..Len(s) : s[k] \in S
    BY <1>0
  <2>2. b \in Seq(S) /\ Len(b) = (IF i <= Len(s) THEN Len(s) - i + 1 ELSE 0)
        /\ \A k \in 1..Len(s) - i + 1 : b[k] = s[i + k - 1]
    BY <1>0, <2>1, SubSeqProperties
  <2> HIDE DEF b
  <2> QED
    BY <1>0, <2>2
<1> HIDE DEF a, b
<1>3. /\ ae \in Seq(S) /\ Len(ae) = i /\ ae[i] = e
      /\ \A k \in 1..i - 1 : ae[k] = a[k]
  <2>1. <<e>> \in Seq(S) /\ Len(<<e>>) = 1 /\ <<e>>[1] = e
    OBVIOUS
  <2>2. /\ ae \in Seq(S) /\ Len(ae) = Len(a) + Len(<<e>>)
        /\ \A k \in 1..Len(a) + Len(<<e>>) : ae[k] = IF k <= Len(a) THEN a[k] ELSE <<e>>[k - Len(a)]
    BY <1>1, <2>1, ConcatProperties
  <2>3. i \in 1..Len(a) + Len(<<e>>) /\ ~(i <= Len(a)) /\ i - Len(a) = 1
        /\ \A k \in 1..i - 1 : k \in 1..Len(a) + Len(<<e>>) /\ k <= Len(a)
    BY <1>0, <1>1, <2>1
  <2> HIDE DEF ae
  <2>4. Len(a) + Len(<<e>>) = i
    BY <1>0, <1>1, <2>1
  <2> QED
    BY <2>1, <2>2, <2>3, <2>4
<1> HIDE DEF ae
<1>4. /\ ae \o b \in Seq(S) /\ Len(ae \o b) = Len(ae) + Len(b)
      /\ \A k \in 1..Len(ae) + Len(b) : (ae \o b)[k] = IF k <= Len(ae) THEN ae[k] ELSE b[k - Len(ae)]
  BY <1>2, <1>3, ConcatProperties
<1>5. InsertAt(s, i, e) = ae \o b
  BY DEF InsertAt, ae, a, b
<1>6. Len(ae) + Len(b) = Len(s) + 1
  BY <1>0, <1>2, <1>3
<1>7. (ae \o b)[i] = e
  BY <1>0, <1>3, <1>4, <1>6
<1>8. ASSUME NEW k \in 1..Len(s)
      PROVE  (ae \o b)[IF k < i THEN k ELSE k + 1] = s[k]
  <2>1. CASE k < i
    <3>1. k \in 1..i - 1 /\ k <= Len(ae) /\ k \in 1..Len(ae) + Len(b)
      BY <1>0, <1>3, <1>6, <2>1
    <3> QED
      BY <1>1, <1>3, <1>4, <2>1, <3>1
  <2>2. CASE ~(k < i)
    <3>1. /\ k + 1 \in 1..Len(ae) + Len(b) /\ ~(k + 1 <= Len(ae))
          /\ k + 1 - Len(ae) \in 1..Len(s) + 1 - i /\ i + (k + 1 - Len(ae)) - 1 = k
      BY <1>0, <1>3, <1>6, <2>2
    <3>2. (ae \o b)[k + 1] = b[k + 1 - Len(ae)]
      BY <1>4, <3>1
    <3>3. b[k + 1 - Len(ae)] = s[i + (k + 1 - Len(ae)) - 1]
      BY <1>2, <3>1
    <3> QED
      BY <2>2, <3>1, <3>2, <3>3
  <2> QED
    BY <2>1, <2>2
<1> QED
  BY <1>4, <1>5, <1>6, <1>7, <1>8

(* A move loses no symbol and repeats none.                                *)
LEMMA MovedIsAllOfIt ==
  ASSUME NEW list \in Seq(Value), Distinct(list), NEW from \in Nat, NEW to \in Nat,
         NEW moved, moved = Moved(list, from, to)
  PROVE  moved \in Seq(Value) /\ Distinct(moved) /\ ToSet(moved) = ToSet(list)
<1> DEFINE n == Len(list)
<1>0. n \in Nat /\ \A k \in 1..n : list[k] \in Value
  BY LenProperties, ElementOfSeq
<1>1. CASE ~({from, to} \subseteq 1..n)
  <2>1. moved = list
    BY <1>1 DEF Moved
  <2> QED
    BY <2>1
<1>2. CASE {from, to} \subseteq 1..n
  <2>1. PICK rest, e : rest = RemoveAt(list, from) /\ e = list[from]
    OBVIOUS
  <2>2. from \in 1..n /\ to \in 1..n /\ e \in Value /\ n - 1 \in Nat /\ n >= 1
    BY <1>0, <1>2, <2>1
  <2>3. /\ rest \in Seq(Value) /\ Len(rest) = n - 1
        /\ \A k \in 1..n - 1 : rest[k] = IF k < from THEN list[k] ELSE list[k + 1]
    BY <2>1, <2>2, RemoveAtLeaves
  <2>4. moved = InsertAt(rest, to, e)
    BY <1>2, <2>1 DEF Moved
  <2>5. to \in 1..Len(rest) + 1 /\ Len(rest) + 1 = n
    BY <1>0, <2>2, <2>3
  <2>6. /\ moved \in Seq(Value) /\ Len(moved) = n /\ moved[to] = e
        /\ \A k \in 1..n - 1 : moved[IF k < to THEN k ELSE k + 1] = rest[k]
    <3>0. rest \in Seq(Value) /\ to \in 1..Len(rest) + 1 /\ e \in Value
      BY <2>2, <2>3, <2>5
    <3>1. /\ InsertAt(rest, to, e) \in Seq(Value)
          /\ Len(InsertAt(rest, to, e)) = Len(rest) + 1
          /\ InsertAt(rest, to, e)[to] = e
          /\ \A k \in 1..Len(rest) : InsertAt(rest, to, e)[IF k < to THEN k ELSE k + 1] = rest[k]
      BY <3>0, InsertAtMakes
    <3> QED
      BY <2>3, <2>4, <2>5, <3>1, Zenon
  <2> DEFINE was(k) == LET r == IF k < to THEN k ELSE k - 1
                       IN  IF k = to THEN from ELSE IF r < from THEN r ELSE r + 1
             is(k) == LET r == IF k < from THEN k ELSE k - 1
                      IN  IF k = from THEN to ELSE IF r < to THEN r ELSE r + 1
  <2>7. ASSUME NEW k \in 1..n
        PROVE  was(k) \in 1..n /\ is(k) \in 1..n /\ was(is(k)) = k /\ is(was(k)) = k
    <3>1. k \in Int /\ n \in Int /\ from \in 1..n /\ to \in 1..n
      BY <1>0, <2>2
    <3> HIDE DEF n
    <3>2. was(k) \in 1..n /\ is(k) \in 1..n
      BY <3>1
    <3>3. was(is(k)) = k
      BY <3>1
    <3>4. is(was(k)) = k
      BY <3>1
    <3> QED
      BY <3>2, <3>3, <3>4
  <2>8. ASSUME NEW k \in 1..n PROVE moved[k] = list[was(k)]
    <3>1. CASE k = to
      BY <2>1, <2>6, <3>1
    <3>2. CASE k # to
      <4>1. PICK r : r = IF k < to THEN k ELSE k - 1
        OBVIOUS
      <4>2. r \in 1..n - 1 /\ (IF r < to THEN r ELSE r + 1) = k
        BY <1>0, <2>2, <3>2, <4>1
      <4>3. moved[k] = rest[r]
        BY <2>6, <4>2
      <4>4. was(k) = IF r < from THEN r ELSE r + 1
        BY <3>2, <4>1
      <4>5. rest[r] = IF r < from THEN list[r] ELSE list[r + 1]
        BY <2>3, <4>2
      <4> HIDE DEF was
      <4> QED
        BY <4>3, <4>4, <4>5
    <3> QED
      BY <3>1, <3>2
  <2> HIDE DEF was, is
  <2>9. Distinct(moved)
    <3>1. ASSUME NEW a \in 1..n, NEW b \in 1..n, moved[a] = moved[b] PROVE a = b
      <4>1. was(a) \in 1..n /\ was(b) \in 1..n /\ list[was(a)] = list[was(b)]
        BY <2>7, <2>8, <3>1
      <4>2. was(a) = was(b)
        BY <4>1, Zenon DEF Distinct
      <4>3. is(was(a)) = a /\ is(was(b)) = b
        BY <2>7
      <4> QED
        BY <4>2, <4>3, Zenon
    <3> QED
      BY <2>6, <3>1 DEF Distinct
  <2>10. /\ ToSet(list) = {list[k] : k \in 1..n}
         /\ ToSet(moved) = {moved[k] : k \in 1..n}
    BY <2>6, LenProperties DEF ToSet
  <2>11. ToSet(moved) = ToSet(list)
    <3>1. ASSUME NEW x \in ToSet(moved) PROVE x \in ToSet(list)
      BY <2>7, <2>8, <2>10
    <3>2. ASSUME NEW x \in ToSet(list) PROVE x \in ToSet(moved)
      <4>1. PICK k \in 1..n : x = list[k]
        BY <2>10
      <4>2. is(k) \in 1..n /\ moved[is(k)] = list[was(is(k))] /\ was(is(k)) = k
        BY <2>7, <2>8
      <4> QED
        BY <2>10, <4>1, <4>2
    <3> QED
      BY <3>1, <3>2
  <2> QED
    BY <2>6, <2>9, <2>11
<1> QED
  BY <1>1, <1>2

(* The symbols a page may be loaded with, and what may be stored.          *)
LEMMA ListedIsDistinct ==
  ASSUME NEW symbols \in Listed
  PROVE  symbols \in Seq(Value) /\ Distinct(symbols)
<1>1. PICK S, none : S \in SUBSET ToSet(Registered) /\ none = <<>> /\ symbols = Added(none, Registered, S)
  BY DEF Listed
<1>2. Registered \in Seq(Value)
  <2>1. Registered \in Seq(ToSet(Registered)) /\ ToSet(Registered) \subseteq Value
    BY WatchlistAssumption DEF Value
  <2>2. PICK S2 : S2 = ToSet(Registered)
    OBVIOUS
  <2>3. Registered \in Seq(S2) /\ S2 \subseteq Value
    BY <2>1, <2>2
  <2> QED
    BY <2>3
<1>3. none \in Seq(Value) /\ Distinct(none)
  BY <1>1 DEF Distinct
<1>4. symbols = Added(none, Registered, S)
  BY <1>1, Zenon
<1> QED
  BY <1>2, <1>3, <1>4, AddedInOrder

LEMMA StorableIsRead ==
  ASSUME NEW sequence \in Storable
  PROVE  sequence \in Seq(Value)
<1>1. PICK n \in 0..MaxStored : sequence \in [1..n -> Value]
  BY DEF Storable
<1>2. n \in Nat
  BY WatchlistAssumption
<1> QED
  BY <1>1, <1>2, SeqDef

(* What a user last placed, the list follows.                              *)
WatchInv ==
    /\ stored \in Seq(Value) /\ registry \in Seq(Value)
    /\ Follows(order, chosen, registry)

(* A list follows itself.                                                  *)
LEMMA FollowsItself ==
  ASSUME NEW list \in Seq(Value), Distinct(list), NEW symbols, ToSet(list) = ToSet(symbols)
  PROVE  Follows(list, list, symbols)
BY Zenon DEF Follows

(* For every registry, whatever the storage holds and whoever changed it,  *)
(* and after any moves: the page lists every symbol once, as the user last *)
(* ordered it, new ones behind.                                            *)
THEOREM ListIsComplete == WatchSpec => []ListIsTheRegistryAsChosen
<1>1. WatchInit => WatchInv
  <2> SUFFICES ASSUME WatchInit PROVE WatchInv
    OBVIOUS
  <2>1. PICK none : none = <<>>
    OBVIOUS
  <2>2. none \in Seq(Value) /\ Distinct(none)
    BY <2>1 DEF Distinct
  <2>3. Follows(none, none, none)
    BY <2>2, FollowsItself
  <2> QED
    BY <2>1, <2>2, <2>3, Zenon DEF WatchInit, WatchInv
<1>2. WatchInv /\ [WatchNext]_watchVars => WatchInv'
  <2> SUFFICES ASSUME WatchInv, [WatchNext]_watchVars PROVE WatchInv'
    OBVIOUS
  <2>1. ASSUME NEW symbols \in Listed, Load(symbols) PROVE WatchInv'
    <3>1. PICK was : was = stored
      OBVIOUS
    <3>2. was \in Seq(Value) /\ symbols \in Seq(Value)
      BY <3>1, ListedIsDistinct DEF WatchInv
    <3>3. Follows(Reconciled(was, symbols), was, symbols)
      BY <3>2, ReconciledFollows
    <3> QED
      BY <2>1, <3>1, <3>2, <3>3, Zenon DEF Load, WatchInv
  <2>2. ASSUME NEW from \in 0..Len(order), NEW to \in 0..Len(order), NEW written \in BOOLEAN,
               Move(from, to, written)
        PROVE  WatchInv'
    <3>1. PICK list, symbols, moved :
            list = order /\ symbols = registry /\ moved = Moved(list, from, to)
      OBVIOUS
    <3>2. list \in Seq(Value) /\ Distinct(list) /\ ToSet(list) = ToSet(symbols)
      BY <3>1, Zenon DEF WatchInv, Follows
    <3>3. from \in Nat /\ to \in Nat
      OBVIOUS
    <3>4. moved \in Seq(Value) /\ Distinct(moved) /\ ToSet(moved) = ToSet(list)
      BY <3>1, <3>2, <3>3, MovedIsAllOfIt
    <3>5. Follows(moved, moved, symbols)
      BY <3>2, <3>4, FollowsItself
    <3>6. order' = moved /\ chosen' = moved /\ registry' = symbols /\ stored' \in {stored, moved}
      BY <2>2, <3>1 DEF Move
    <3>7. stored' \in Seq(Value) /\ registry' \in Seq(Value)
      BY <3>1, <3>4, <3>6 DEF WatchInv
    <3> QED
      BY <3>5, <3>6, <3>7, Zenon DEF WatchInv
  <2>3. ASSUME NEW sequence \in Storable, StorageChanges(sequence) PROVE WatchInv'
    <3>1. sequence \in Seq(Value)
      BY StorableIsRead
    <3> QED
      BY <2>3, <3>1, Zenon DEF StorageChanges, WatchInv
  <2>4. CASE UNCHANGED watchVars
    BY <2>4, Zenon DEF watchVars, WatchInv
  <2> QED
    BY <2>1, <2>2, <2>3, <2>4 DEF WatchNext
<1>3. WatchInv => ListIsTheRegistryAsChosen
  <2> SUFFICES ASSUME WatchInv PROVE ListIsTheRegistryAsChosen
    OBVIOUS
  <2>1. PICK list : list = order
    OBVIOUS
  <2>2. list \in Seq(Value) /\ Distinct(list)
    BY <2>1, Zenon DEF WatchInv, Follows
  <2>3. DOMAIN list = 1..Len(list)
    BY <2>2, LenProperties
  <2>4. IsInjective(list)
    BY <2>2, <2>3, Zenon DEF Distinct, IsInjective
  <2> QED
    BY <2>1, <2>4, Zenon DEF WatchInv, Follows, ListIsTheRegistryAsChosen
<1> QED
  BY <1>1, <1>2, <1>3, PTL DEF WatchSpec

------------------------------------------------------------------------------
(* The tape.                                                               *)

(* A finite set of trades, no two under one id.                            *)
Identified(trades) ==
    /\ IsFiniteSet(trades) /\ \A t \in trades : t.id \in Int
    /\ \A t, u \in trades : t.id = u.id => t = u
Rank(trades, t) == Cardinality(Above(trades, t))

(* The more trades are above one, the fewer are above those.               *)
LEMMA RanksDiffer ==
  ASSUME NEW trades, Identified(trades)
  PROVE  /\ Cardinality(trades) \in Nat
         /\ \A t \in trades : Rank(trades, t) \in 0..Cardinality(trades) - 1
         /\ \A t, u \in trades : Rank(trades, t) = Rank(trades, u) => t = u
<1>0. IsFiniteSet(trades) /\ Cardinality(trades) \in Nat
  BY FS_CardinalityType DEF Identified
<1>1. ASSUME NEW t \in trades
      PROVE  /\ IsFiniteSet(Above(trades, t)) /\ Rank(trades, t) \in Nat
             /\ Rank(trades, t) < Cardinality(trades)
  <2>1. Above(trades, t) \in SUBSET trades /\ t \notin Above(trades, t)
    BY DEF Above, Identified
  <2>2. IsFiniteSet(Above(trades, t)) /\ Rank(trades, t) \in Nat
    BY <1>0, <2>1, FS_Subset, FS_CardinalityType DEF Rank
  <2>3. Rank(trades, t) <= Cardinality(trades) /\ Rank(trades, t) # Cardinality(trades)
    BY <1>0, <2>1, FS_Subset DEF Rank
  <2> QED
    BY <1>0, <2>2, <2>3
<1>2. ASSUME NEW t \in trades, NEW u \in trades, u.id > t.id
      PROVE  Rank(trades, u) # Rank(trades, t)
  <2>1. Above(trades, u) \in SUBSET Above(trades, t)
    BY <1>2 DEF Above, Identified
  <2>2. u \in Above(trades, t) /\ u \notin Above(trades, u)
    BY <1>2 DEF Above, Identified
  <2> QED
    BY <1>1, <2>1, <2>2, FS_Subset DEF Rank
<1>3. ASSUME NEW t \in trades, NEW u \in trades, Rank(trades, t) = Rank(trades, u) PROVE t = u
  <2>1. t.id \in Int /\ u.id \in Int /\ (t.id = u.id => t = u)
    BY DEF Identified
  <2>2. ~(u.id > t.id) /\ ~(t.id > u.id)
    BY <1>2, <1>3
  <2> QED
    BY <2>1, <2>2
<1> QED
  BY <1>0, <1>1, <1>3

(* Of the trades exactly one has k above it, if there are more than k.     *)
LEMMA EveryRankIsTaken ==
  ASSUME NEW trades, Identified(trades), NEW k \in 0..Cardinality(trades) - 1
  PROVE  \E t \in trades : Rank(trades, t) = k
<1> DEFINE places == 0..Cardinality(trades) - 1
           f == [t \in trades |-> Rank(trades, t)]
<1>1. IsFiniteSet(places) /\ Cardinality(places) = Cardinality(trades)
  BY RanksDiffer, FS_Interval
<1>2. f \in [trades -> places] /\ \A t, u \in trades : f[t] = f[u] => t = u
  BY RanksDiffer
<1> HIDE DEF f, places
<1>3. f \in Injection(trades, places)
  BY <1>2 DEF Injection, IsInjective
<1>4. f \in Surjection(trades, places)
  BY <1>1, <1>3, FS_Injection
<1>5. PICK t \in trades : f[t] = k
  BY <1>4 DEF Surjection, places
<1> QED
  BY <1>5 DEF f

Places(trades) == IF Cardinality(trades) > TapeLimit THEN TapeLimit ELSE Cardinality(trades)

(* What is shown of a set of trades.                                       *)
LEMMA NewestTells ==
  ASSUME NEW trades, Identified(trades)
  PROVE  /\ Places(trades) \in Nat /\ DOMAIN Newest(trades) = 1..Places(trades)
         /\ \A k \in 1..Places(trades) :
              Newest(trades)[k] \in trades /\ Rank(trades, Newest(trades)[k]) = k - 1
         /\ \A t \in trades : Rank(trades, t) < TapeLimit =>
              Rank(trades, t) + 1 \in 1..Places(trades) /\ Newest(trades)[Rank(trades, t) + 1] = t
<1>0. TapeLimit \in Nat \ {0} /\ Cardinality(trades) \in Nat
  BY TapeAssumption, RanksDiffer
<1>1. Places(trades) \in Nat /\ Places(trades) <= TapeLimit /\ Places(trades) <= Cardinality(trades)
  BY <1>0 DEF Places
<1>2. Newest(trades) = [k \in 1..Places(trades) |-> CHOOSE t \in trades : Rank(trades, t) = k - 1]
  BY DEF Newest, Places, Rank
<1>3. ASSUME NEW k \in 1..Places(trades)
      PROVE  Newest(trades)[k] \in trades /\ Rank(trades, Newest(trades)[k]) = k - 1
  <2>1. k - 1 \in 0..Cardinality(trades) - 1
    BY <1>0, <1>1
  <2>2. \E t \in trades : Rank(trades, t) = k - 1
    BY <2>1, EveryRankIsTaken
  <2>3. Newest(trades)[k] = CHOOSE t \in trades : Rank(trades, t) = k - 1
    BY <1>2
  <2> QED
    BY <2>2, <2>3
<1>4. ASSUME NEW t \in trades, Rank(trades, t) < TapeLimit
      PROVE  Rank(trades, t) + 1 \in 1..Places(trades) /\ Newest(trades)[Rank(trades, t) + 1] = t
  <2>1. Rank(trades, t) \in 0..Cardinality(trades) - 1
    BY RanksDiffer
  <2>2. Rank(trades, t) + 1 \in 1..Places(trades) /\ Rank(trades, t) + 1 - 1 = Rank(trades, t)
    BY <1>0, <1>4, <2>1 DEF Places
  <2> QED
    BY <1>3, <2>2, RanksDiffer
<1> QED
  BY <1>1, <1>2, <1>3, <1>4

(* What is below TapeLimit others that are shown does not show itself.     *)
LEMMA OldAddNothing ==
  ASSUME NEW all, Identified(all), NEW some \in SUBSET all, NEW full \in SUBSET some,
         some = all \/ Cardinality(full) = TapeLimit,
         \A t \in all \ some, u \in full : u.id > t.id
  PROVE  Newest(all) = Newest(some)
<1>0. TapeLimit \in Nat \ {0} /\ IsFiniteSet(all) /\ \A t \in all : t.id \in Int
  BY TapeAssumption DEF Identified
<1>1. CASE some = all
  BY <1>1
<1>2. CASE Cardinality(full) = TapeLimit
  <2>1. Identified(some)
    BY <1>0, FS_Subset DEF Identified
  <2>2. ASSUME NEW among \in {all, some}, NEW x \in all \ some, NEW t \in among,
               x.id > t.id \/ x = t
        PROVE  Rank(among, t) >= TapeLimit
    <3>1. t \in all /\ x \in all /\ among \subseteq all /\ some \subseteq among
      OBVIOUS
    <3>2. \A u \in full : u \in among /\ u \in all /\ u.id > x.id
      BY <3>1
    <3>3. \A u \in full : u.id > t.id
      BY <1>0, <2>2, <3>1, <3>2
    <3>4. full \in SUBSET Above(among, t)
      BY <3>2, <3>3 DEF Above
    <3>5. IsFiniteSet(Above(among, t))
      BY <1>0, <3>1, FS_Subset DEF Above
    <3>6. Cardinality(full) <= Rank(among, t) /\ Rank(among, t) \in Nat
      BY <3>4, <3>5, FS_Subset, FS_CardinalityType DEF Rank
    <3> QED
      BY <1>2, <3>6
  <2>3. ASSUME NEW t \in some, \/ Rank(all, t) < TapeLimit \/ Rank(some, t) < TapeLimit
        PROVE  Rank(all, t) = Rank(some, t)
    <3>0. t \in all /\ Rank(all, t) \in Nat /\ Rank(some, t) \in Nat
      BY <2>1, RanksDiffer
    <3>1. ASSUME NEW x \in all \ some, x.id > t.id PROVE FALSE
      <4>1. Rank(all, t) >= TapeLimit
        BY <2>2, <3>0, <3>1
      <4>2. Rank(some, t) >= TapeLimit
        BY <2>2, <3>0, <3>1
      <4> QED
        BY <1>0, <2>3, <3>0, <4>1, <4>2
    <3>2. Above(all, t) = Above(some, t)
      BY <3>1 DEF Above
    <3> QED
      BY <3>2 DEF Rank
  <2>4. TapeLimit <= Cardinality(some) /\ Cardinality(some) <= Cardinality(all)
    BY <1>0, <1>2, <2>1, FS_Subset DEF Identified
  <2>5. Places(some) = TapeLimit /\ Places(all) = TapeLimit
    BY <1>0, <2>1, <2>4, RanksDiffer DEF Places
  <2>6. ASSUME NEW k \in 1..TapeLimit PROVE Newest(all)[k] = Newest(some)[k]
    <3>1. PICK t : t = Newest(some)[k]
      OBVIOUS
    <3>2. t \in some /\ Rank(some, t) = k - 1
      BY <2>1, <2>5, <3>1, NewestTells
    <3>3. k - 1 < TapeLimit /\ k - 1 + 1 = k
      BY <1>0
    <3>4. Rank(all, t) = k - 1
      BY <2>3, <3>2, <3>3
    <3>5. t \in all
      BY <3>2
    <3>6. Newest(all)[Rank(all, t) + 1] = t
      BY <3>3, <3>4, <3>5, NewestTells
    <3> QED
      BY <3>1, <3>3, <3>4, <3>6
  <2>7. Newest(all) = [k \in 1..TapeLimit |-> Newest(all)[k]]
        /\ Newest(some) = [k \in 1..TapeLimit |-> Newest(some)[k]]
    <3>1. ASSUME NEW trades PROVE Newest(trades) = [k \in 1..Places(trades) |-> Newest(trades)[k]]
      BY DEF Newest, Places
    <3> QED
      BY <2>5, <3>1
  <2> QED
    BY <2>6, <2>7
<1> QED
  BY <1>1, <1>2

(* f is the function Processed chooses, for the first n ids.               *)
IsTaken(f, t, ids, r, n) ==
    f = [id \in 0..n |->
           IF id = 0 THEN t
           ELSE IF id \in ids THEN Taken(f[id - 1], [run |-> r, id |-> id])
           ELSE f[id - 1]]

LEMMA TakenExists ==
  ASSUME NEW t, NEW ids, NEW r, NEW n \in Nat
  PROVE  \E f : IsTaken(f, t, ids, r, n)
<1> DEFINE Good == {m \in Nat : \E f : IsTaken(f, t, ids, r, m)}
           Next1(s, id) == IF id \in ids THEN Taken(s, [run |-> r, id |-> id]) ELSE s
<1> HIDE DEF Next1
<1>0. ASSUME NEW f, NEW m
      PROVE  IsTaken(f, t, ids, r, m) <=>
             f = [k \in 0..m |-> IF k = 0 THEN t ELSE Next1(f[k - 1], k)]
  <2>1. ASSUME NEW k
        PROVE  (IF k = 0 THEN t ELSE IF k \in ids THEN Taken(f[k - 1], [run |-> r, id |-> k])
                ELSE f[k - 1])
               = IF k = 0 THEN t ELSE Next1(f[k - 1], k)
    BY DEF Next1
  <2> QED
    BY <2>1 DEF IsTaken
<1>1. 0 \in Good
  <2> DEFINE f == [k \in 0..0 |-> t]
  <2>1. f = [k \in 0..0 |-> IF k = 0 THEN t ELSE Next1(f[k - 1], k)]
    OBVIOUS
  <2> HIDE DEF f
  <2> QED
    BY <1>0, <2>1
<1>2. ASSUME NEW m \in Nat, m \in Good PROVE m + 1 \in Good
  <2>1. PICK f : IsTaken(f, t, ids, r, m)
    BY <1>2
  <2> DEFINE g == [k \in 0..m + 1 |-> IF k = m + 1 THEN Next1(f[m], k) ELSE f[k]]
  <2>2. ASSUME NEW k \in 0..m + 1
        PROVE  g[k] = IF k = 0 THEN t ELSE Next1(g[k - 1], k)
    <3>1. CASE k = m + 1
      <4>1. k - 1 = m /\ m \in 0..m + 1 /\ m # m + 1 /\ k # 0
        BY <3>1
      <4>2. g[m] = f[m] /\ g[k] = Next1(f[m], k)
        BY <3>1, <4>1
      <4> HIDE DEF g
      <4> QED
        BY <4>1, <4>2
    <3>2. CASE k # m + 1
      <4>1. k \in 0..m /\ g[k] = f[k]
        BY <3>2
      <4>2. f[k] = IF k = 0 THEN t ELSE Next1(f[k - 1], k)
        BY <1>0, <2>1, <4>1
      <4>3. k # 0 => k - 1 \in 0..m + 1 /\ k - 1 # m + 1
        BY <4>1
      <4>4. k # 0 => g[k - 1] = f[k - 1]
        BY <4>3
      <4> HIDE DEF g
      <4> QED
        BY <4>1, <4>2, <4>4
    <3> QED
      BY <3>1, <3>2
  <2>3. g = [k \in 0..m + 1 |-> g[k]]
    OBVIOUS
  <2> HIDE DEF g
  <2>4. g = [k \in 0..m + 1 |-> IF k = 0 THEN t ELSE Next1(g[k - 1], k)]
    BY <2>2, <2>3
  <2>5. IsTaken(g, t, ids, r, m + 1) /\ m + 1 \in Nat
    BY <1>0, <2>4
  <2> QED
    BY <2>5
<1> HIDE DEF Good
<1>3. n \in Good
  BY <1>1, <1>2, NatSetInduction
<1> QED
  BY <1>3 DEF Good

(* The state s of the tape after the ids of a batch up to n, begun at t.   *)
Fresh(t, ids) == {id \in ids : \A u \in t.recent : u.id # id}
Begins(t, ids, r) ==
    /\ ids \subseteq 1..MaxId /\ r \in Nat \ {0}
    /\ t = [baseline |-> t.baseline, latest |-> t.latest, recent |-> t.recent]
    /\ t.latest.id \in Nat /\ \A u \in t.recent : u.id <= t.latest.id
    /\ t.baseline = NoTrade => t.recent = {}
TookRecent(s, t, ids, r, n) ==
    s.recent = t.recent \cup {[run |-> r, id |-> id] : id \in {i \in Fresh(t, ids) : i <= n}}
TookLatest(s, t, ids, r, n) ==
    /\ s.latest \in {t.latest} \cup
         {[run |-> r, id |-> id] : id \in {i \in ids : i > t.latest.id}}
    /\ \A id \in ids : id <= n => id <= s.latest.id
TookBaseline(s, t, ids, r, n) ==
    IF t.baseline # NoTrade THEN s.baseline = t.baseline
    ELSE \/ s.baseline = NoTrade /\ \A id \in ids : ~(id <= n)
         \/ \E id \in ids : /\ s.baseline = [run |-> r, id |-> id]
                            /\ \A other \in ids : id <= other
Took(s, t, ids, r, n) ==
    /\ s = [baseline |-> s.baseline, latest |-> s.latest, recent |-> s.recent]
    /\ TookRecent(s, t, ids, r, n)
    /\ TookLatest(s, t, ids, r, n)
    /\ TookBaseline(s, t, ids, r, n)

LEMMA TakesOneMore ==
  ASSUME NEW s, NEW t, NEW ids, NEW r, NEW n \in Nat, Begins(t, ids, r), Took(s, t, ids, r, n),
         NEW next,
         next = IF n + 1 \in ids THEN Taken(s, [run |-> r, id |-> n + 1]) ELSE s
  PROVE  Took(next, t, ids, r, n + 1)
<1> DEFINE T(id) == [run |-> r, id |-> id]
<1>0. \A id \in ids : id \in Nat /\ (id <= n + 1 <=> id <= n \/ id = n + 1)
  <2>1. MaxId \in Nat
    BY TapeAssumption
  <2> QED
    BY <2>1 DEF Begins
<1>1. CASE n + 1 \notin ids
  <2>1. next = s
    BY <1>1
  <2>2. \A id \in ids : id <= n + 1 <=> id <= n
    BY <1>0, <1>1
  <2>3. {i \in Fresh(t, ids) : i <= n + 1} = {i \in Fresh(t, ids) : i <= n}
    BY <2>2 DEF Fresh
  <2>4. TookRecent(s, t, ids, r, n + 1)
    BY <2>3, Zenon DEF Took, TookRecent
  <2>5. TookLatest(s, t, ids, r, n + 1)
    BY <2>2 DEF Took, TookLatest
  <2>6. TookBaseline(s, t, ids, r, n + 1)
    BY <2>2, Zenon DEF Took, TookBaseline
  <2> QED
    BY <2>1, <2>4, <2>5, <2>6, Zenon DEF Took
<1>2. CASE n + 1 \in ids /\ n + 1 \notin Fresh(t, ids)
  <2>1. PICK u \in t.recent : u.id = n + 1
    BY <1>2 DEF Fresh
  <2>2. next = s
    <3>1. u \in s.recent
      BY Zenon DEF Took, TookRecent
    <3>2. \E shown \in s.recent : shown.id = T(n + 1).id
      BY <2>1, <3>1
    <3> QED
      BY <1>2, <3>2 DEF Taken
  <2>3. {i \in Fresh(t, ids) : i <= n + 1} = {i \in Fresh(t, ids) : i <= n}
    BY <1>0, <1>2 DEF Fresh
  <2>4. TookRecent(s, t, ids, r, n + 1)
    BY <2>3, Zenon DEF Took, TookRecent
  <2>5. TookLatest(s, t, ids, r, n + 1)
    <3>1. n + 1 <= t.latest.id /\ t.latest.id \in Nat
      BY <2>1 DEF Begins
    <3>2. t.latest.id <= s.latest.id
      BY <1>0, <3>1 DEF Took, TookLatest
    <3>3. s.latest.id \in Nat
      BY <1>0, <3>1 DEF Took, TookLatest
    <3>4. n + 1 <= s.latest.id
      BY <3>1, <3>2, <3>3
    <3> QED
      BY <1>0, <3>4 DEF Took, TookLatest
  <2>6. t.baseline # NoTrade
    BY <2>1 DEF Begins
  <2>7. TookBaseline(s, t, ids, r, n + 1)
    BY <2>6, Zenon DEF Took, TookBaseline
  <2> QED
    BY <2>2, <2>4, <2>5, <2>7, Zenon DEF Took
<1>3. CASE n + 1 \in Fresh(t, ids)
  <2>0. n + 1 \in ids /\ T(n + 1).id = n + 1 /\ r # 0
    BY <1>3 DEF Fresh, Begins
  <2>1. ASSUME NEW shown \in s.recent PROVE shown.id # n + 1
    <3>1. shown \in t.recent \/ \E i \in {j \in Fresh(t, ids) : j <= n} : shown = T(i)
      BY DEF Took, TookRecent
    <3>2. CASE shown \in t.recent
      BY <1>3, <3>2 DEF Fresh
    <3>3. CASE \E i \in {j \in Fresh(t, ids) : j <= n} : shown = T(i)
      <4>1. PICK i \in Fresh(t, ids) : i <= n /\ shown = T(i)
        BY <3>3
      <4>2. i \in Nat /\ shown.id = i
        BY <1>0, <4>1 DEF Fresh
      <4> QED
        BY <4>1, <4>2
    <3> QED
      BY <3>1, <3>2, <3>3
  <2>2. next = [baseline |-> IF s.baseline = NoTrade THEN T(n + 1) ELSE s.baseline,
                latest |-> IF n + 1 > s.latest.id THEN T(n + 1) ELSE s.latest,
                recent |-> s.recent \cup {T(n + 1)}]
    BY <2>0, <2>1 DEF Taken
  <2>3. /\ next.baseline = IF s.baseline = NoTrade THEN T(n + 1) ELSE s.baseline
        /\ next.latest = IF n + 1 > s.latest.id THEN T(n + 1) ELSE s.latest
        /\ next.recent = s.recent \cup {T(n + 1)}
        /\ next = [baseline |-> next.baseline, latest |-> next.latest, recent |-> next.recent]
    BY <2>2
  <2>4. TookRecent(next, t, ids, r, n + 1)
    <3>1. {i \in Fresh(t, ids) : i <= n + 1} = {i \in Fresh(t, ids) : i <= n} \cup {n + 1}
      BY <1>0, <1>3 DEF Fresh
    <3>2. {T(id) : id \in {i \in Fresh(t, ids) : i <= n + 1}}
          = {T(id) : id \in {i \in Fresh(t, ids) : i <= n}} \cup {T(n + 1)}
      BY <3>1
    <3>3. s.recent = t.recent \cup {T(id) : id \in {i \in Fresh(t, ids) : i <= n}}
      BY DEF Took, TookRecent
    <3> HIDE DEF T
    <3>4. next.recent = t.recent \cup {T(id) : id \in {i \in Fresh(t, ids) : i <= n + 1}}
      BY <2>3, <3>2, <3>3
    <3> QED
      BY <3>4 DEF TookRecent, T
  <2>5. TookLatest(next, t, ids, r, n + 1)
    <3>1. /\ s.latest = t.latest \/ \E i \in ids : s.latest = T(i) /\ i > t.latest.id
          /\ \A id \in ids : id <= n => id <= s.latest.id
          /\ t.latest.id \in Nat
      BY DEF Took, TookLatest, Begins
    <3>2. s.latest.id \in Nat /\ t.latest.id <= s.latest.id
      <4>1. ASSUME NEW i \in ids, s.latest = T(i), i > t.latest.id
            PROVE  s.latest.id \in Nat /\ t.latest.id <= s.latest.id
        BY <1>0, <3>1, <4>1
      <4>2. CASE s.latest = t.latest
        BY <3>1, <4>2
      <4> HIDE DEF T
      <4> QED
        BY <3>1, <4>1, <4>2
    <3>3. CASE n + 1 > s.latest.id
      <4>1. next.latest = T(n + 1) /\ n + 1 > t.latest.id
        BY <2>3, <3>1, <3>2, <3>3
      <4>2. \A id \in ids : id <= n + 1 => id <= n + 1
        OBVIOUS
      <4> QED
        BY <2>0, <4>1, <4>2 DEF TookLatest
    <3>4. CASE ~(n + 1 > s.latest.id)
      <4>1. next.latest = s.latest /\ n + 1 <= s.latest.id
        BY <2>3, <3>2, <3>4
      <4>2. \A id \in ids : id <= n + 1 => id <= s.latest.id
        BY <1>0, <3>1, <4>1
      <4> QED
        BY <3>1, <4>1, <4>2 DEF TookLatest
    <3> QED
      BY <3>3, <3>4
  <2>6. TookBaseline(next, t, ids, r, n + 1)
    <3>1. T(n + 1) # NoTrade /\ \A id : T(id) # NoTrade
      BY <2>0 DEF NoTrade
    <3>2. CASE t.baseline # NoTrade
      <4>1. s.baseline = t.baseline
        BY <3>2 DEF Took, TookBaseline
      <4> QED
        BY <2>3, <3>2, <4>1 DEF TookBaseline
    <3>3. CASE t.baseline = NoTrade /\ s.baseline = NoTrade
      <4>1. \A id \in ids : ~(id <= n)
        BY <3>1, <3>3, Zenon DEF Took, TookBaseline
      <4>2. \A id \in ids : n + 1 <= id
        BY <1>0, <4>1
      <4>3. next.baseline = T(n + 1)
        BY <2>3, <3>3
      <4> QED
        BY <2>0, <3>3, <4>2, <4>3, Zenon DEF TookBaseline
    <3>4. CASE t.baseline = NoTrade /\ s.baseline # NoTrade
      <4>1. \E id \in ids : s.baseline = T(id) /\ \A other \in ids : id <= other
        BY <3>4, Zenon DEF Took, TookBaseline
      <4>2. next.baseline = s.baseline
        BY <2>3, <3>4
      <4> QED
        BY <3>4, <4>1, <4>2, Zenon DEF TookBaseline
    <3> QED
      BY <3>2, <3>3, <3>4
  <2> QED
    BY <2>3, <2>4, <2>5, <2>6, Zenon DEF Took
<1>4. (n + 1 \in ids /\ n + 1 \notin Fresh(t, ids)) \/ n + 1 \in Fresh(t, ids) \/ n + 1 \notin ids
  OBVIOUS
<1> QED
  BY <1>1, <1>2, <1>3, <1>4, Zenon

(* A whole batch.                                                          *)
LEMMA BatchIsTaken ==
  ASSUME NEW t, NEW ids, NEW r, Begins(t, ids, r),
         NEW f, f = CHOOSE g : IsTaken(g, t, ids, r, MaxId)
  PROVE  Took(f[MaxId], t, ids, r, MaxId)
<1> DEFINE Good == {n \in Nat : n <= MaxId => Took(f[n], t, ids, r, n)}
<1>0. MaxId \in Nat
  BY TapeAssumption
<1>1. IsTaken(f, t, ids, r, MaxId)
  BY <1>0, TakenExists, Zenon
<1>2. /\ f[0] = t
      /\ \A id \in 1..MaxId : f[id] = IF id \in ids THEN Taken(f[id - 1], [run |-> r, id |-> id])
                                      ELSE f[id - 1]
  <2>1. 0 \in 0..MaxId /\ \A id \in 1..MaxId : id \in 0..MaxId /\ id # 0
    BY <1>0
  <2> QED
    BY <1>1, <2>1 DEF IsTaken
<1>3. 0 \in Good
  <2>1. \A id \in ids : id \in Nat /\ ~(id <= 0)
    BY <1>0 DEF Begins
  <2>2. {i \in Fresh(t, ids) : i <= 0} = {}
    BY <2>1 DEF Fresh
  <2>3. TookRecent(t, t, ids, r, 0)
    BY <2>2 DEF TookRecent
  <2>4. TookLatest(t, t, ids, r, 0)
    BY <2>1 DEF TookLatest
  <2>5. TookBaseline(t, t, ids, r, 0)
    BY <2>1 DEF TookBaseline
  <2>6. Took(t, t, ids, r, 0)
    BY <2>3, <2>4, <2>5, Zenon DEF Took, Begins
  <2> QED
    BY <1>2, <2>6
<1>4. ASSUME NEW n \in Nat, n \in Good PROVE n + 1 \in Good
  <2> SUFFICES ASSUME n + 1 <= MaxId PROVE Took(f[n + 1], t, ids, r, n + 1)
    OBVIOUS
  <2>1. n + 1 \in 1..MaxId /\ n <= MaxId /\ n + 1 - 1 = n
    BY <1>0
  <2>2. PICK s, next : s = f[n] /\ next = f[n + 1]
    OBVIOUS
  <2>3. next = IF n + 1 \in ids THEN Taken(s, [run |-> r, id |-> n + 1]) ELSE s
    BY <1>2, <2>1, <2>2
  <2>4. Took(s, t, ids, r, n)
    BY <1>4, <2>1, <2>2
  <2>5. Took(next, t, ids, r, n + 1)
    BY <2>3, <2>4, TakesOneMore
  <2> QED
    BY <2>2, <2>5
<1> HIDE DEF Good
<1>5. MaxId \in Good
  BY <1>0, <1>3, <1>4, NatSetInduction
<1> QED
  BY <1>0, <1>5 DEF Good

(* What is shown of the trades, as a set; and the rest is below it.        *)
Top(trades) == {t \in trades : Rank(trades, t) < TapeLimit}

LEMMA TopIsShown ==
  ASSUME NEW trades, Identified(trades)
  PROVE  /\ ToSet(Newest(trades)) = Top(trades)
         /\ Cardinality(Top(trades)) = Places(trades)
         /\ Top(trades) # trades => Cardinality(Top(trades)) = TapeLimit
         /\ \A t \in trades \ Top(trades), u \in Top(trades) : u.id > t.id
<1> DEFINE shown == Newest(trades)
           places == 1..Places(trades)
<1>0. /\ TapeLimit \in Nat \ {0} /\ Cardinality(trades) \in Nat
      /\ \A t \in trades : Rank(trades, t) \in 0..Cardinality(trades) - 1
      /\ \A t, u \in trades : Rank(trades, t) = Rank(trades, u) => t = u
  BY TapeAssumption, RanksDiffer
<1>1. /\ Places(trades) \in Nat /\ DOMAIN shown = places
      /\ \A k \in places : shown[k] \in trades /\ Rank(trades, shown[k]) = k - 1
      /\ \A t \in trades : Rank(trades, t) < TapeLimit =>
           Rank(trades, t) + 1 \in places /\ shown[Rank(trades, t) + 1] = t
  BY NewestTells
<1>2. Places(trades) <= TapeLimit
  BY <1>0 DEF Places
<1>3. shown = [k \in places |-> shown[k]]
  BY DEF Newest, Places
<1> HIDE DEF shown, places
<1>4. \A k \in places : k - 1 < TapeLimit /\ k \in Int
  BY <1>0, <1>1, <1>2 DEF places
<1>5. \A k \in places : shown[k] \in Top(trades)
  BY <1>1, <1>4 DEF Top
<1>6. \A t \in Top(trades) : \E k \in places : shown[k] = t
  BY <1>1 DEF Top
<1>7. ToSet(shown) = {shown[k] : k \in places}
  BY <1>1 DEF ToSet
<1>8. ToSet(shown) = Top(trades)
  BY <1>5, <1>6, <1>7
<1>9. Cardinality(Top(trades)) = Places(trades)
  <2>1. shown \in [places -> Top(trades)]
    BY <1>3, <1>5
  <2>2. \A k, m \in places : shown[k] = shown[m] => k = m
    BY <1>1, <1>4
  <2>3. shown \in Bijection(places, Top(trades))
    BY <1>6, <2>1, <2>2 DEF Bijection, Injection, Surjection, IsInjective
  <2>4. ExistsBijection(places, Top(trades))
    BY <2>3, Zenon DEF ExistsBijection
  <2>5. IsFiniteSet(places) /\ Cardinality(places) = Places(trades)
    BY <1>1, FS_Interval DEF places
  <2> QED
    BY <2>4, <2>5, FS_Bijection
<1>11. ASSUME Top(trades) # trades PROVE Cardinality(Top(trades)) = TapeLimit
  <2>1. PICK t \in trades : ~(Rank(trades, t) < TapeLimit)
    BY <1>11 DEF Top
  <2>2. Places(trades) = TapeLimit
    BY <1>0, <2>1 DEF Places
  <2> QED
    BY <1>9, <2>2
<1>10. ASSUME NEW t \in trades \ Top(trades), NEW u \in Top(trades) PROVE u.id > t.id
  <2>1. t \in trades /\ u \in trades /\ t.id \in Int /\ u.id \in Int
        /\ ~(Rank(trades, t) < TapeLimit) /\ Rank(trades, u) < TapeLimit
    BY DEF Top, Identified
  <2>2. CASE u.id = t.id
    BY <2>1, <2>2 DEF Identified
  <2>3. CASE t.id > u.id
    <3>1. Above(trades, t) \in SUBSET Above(trades, u)
      BY <2>1, <2>3 DEF Above, Identified
    <3>2. IsFiniteSet(Above(trades, u))
      BY FS_Subset DEF Above, Identified
    <3>3. Rank(trades, t) <= Rank(trades, u)
      BY <3>1, <3>2, FS_Subset DEF Rank
    <3> QED
      BY <1>0, <2>1, <3>3
  <2> QED
    BY <2>1, <2>2, <2>3
<1> QED
  BY <1>8, <1>9, <1>10, <1>11 DEF shown

LEMMA IdsIdentify ==
  ASSUME NEW trades, \A t \in trades : t.id \in 1..MaxId,
         \A t, u \in trades : t.id = u.id => t = u
  PROVE  Identified(trades)
<1> DEFINE f == [t \in trades |-> t.id]
<1>0. MaxId \in Nat
  BY TapeAssumption
<1>1. f \in Injection(trades, 1..MaxId)
  BY DEF Injection, IsInjective
<1>2. IsFiniteSet(1..MaxId)
  BY <1>0, FS_Interval
<1>3. IsFiniteSet(trades)
  BY <1>1, <1>2, FS_Injection
<1> QED
  BY <1>0, <1>3 DEF Identified

(* Trades, and of a batch those whose id none of them has.                 *)
WithBatch(trades, ids, r) ==
    trades \cup {[run |-> r, id |-> id] : id \in {i \in ids : \A t \in trades : t.id # i}}

(* What the batch adds to the tape, and what was cut off before and comes  *)
(* again with it, leaves on the tape what a tape of everything would show. *)
LEMMA BatchShowsNewest ==
  ASSUME NEW trades, Identified(trades), \A t \in trades : t.id \in 1..MaxId,
         NEW ids \in SUBSET (1..MaxId), NEW r,
         NEW all, all = WithBatch(trades, ids, r),
         NEW kept, kept = WithBatch(Top(trades), ids, r)
  PROVE  /\ Identified(all) /\ \A t \in all : t.id \in 1..MaxId
         /\ Newest(kept) = Newest(all)
<1> DEFINE T(id) == [run |-> r, id |-> id]
           new == {i \in ids : \A t \in trades : t.id # i}
           lacking == {i \in ids : \A t \in Top(trades) : t.id # i}
           both == Top(trades) \cup {T(id) : id \in new}
<1>0. \A id : T(id).id = id
  OBVIOUS
<1>1. all = trades \cup {T(id) : id \in new} /\ kept = Top(trades) \cup {T(id) : id \in lacking}
  BY Zenon DEF WithBatch
<1> HIDE DEF T
<1>2. Top(trades) \subseteq trades /\ new \subseteq lacking /\ lacking \subseteq ids
  BY DEF Top
<1>3. Identified(all) /\ \A t \in all : t.id \in 1..MaxId
  <2>1. \A t \in all : t.id \in 1..MaxId
    BY <1>0, <1>1, <1>2
  <2>2. \A t, u \in all : t.id = u.id => t = u
    BY <1>0, <1>1, <1>2 DEF Identified
  <2> QED
    BY <2>1, <2>2, IdsIdentify
<1>4. Identified(kept)
  <2>1. \A t \in kept : t.id \in 1..MaxId
    BY <1>0, <1>1, <1>2
  <2>2. \A t, u \in kept : t.id = u.id => t = u
    BY <1>0, <1>1, <1>2 DEF Identified
  <2> QED
    BY <2>1, <2>2, IdsIdentify
<1>5. /\ Top(trades) # trades => Cardinality(Top(trades)) = TapeLimit
      /\ \A t \in trades \ Top(trades), u \in Top(trades) : u.id > t.id
  BY TopIsShown
<1>6. both \in SUBSET all /\ both \in SUBSET kept /\ Top(trades) \in SUBSET both
  BY <1>1, <1>2
<1>7. \A t \in all \ both : t \in trades \ Top(trades)
  BY <1>1
<1>8. \A t \in kept \ both : \E u \in trades \ Top(trades) : t.id = u.id
  <2>1. ASSUME NEW t \in kept \ both PROVE \E u \in trades \ Top(trades) : t.id = u.id
    <3>1. PICK id \in lacking : t = T(id) /\ id \notin new
      BY <1>1, <2>1
    <3>2. PICK u \in trades : u.id = id
      BY <3>1
    <3>3. u \notin Top(trades)
      BY <3>1, <3>2
    <3> QED
      BY <1>0, <3>1, <3>2, <3>3
  <2> QED
    BY <2>1
<1> HIDE DEF both
<1>9. both = all \/ Cardinality(Top(trades)) = TapeLimit
  BY <1>5, <1>6, <1>7
<1>10. both = kept \/ Cardinality(Top(trades)) = TapeLimit
  BY <1>5, <1>6, <1>8
<1>11. Newest(all) = Newest(both)
  <2>1. \A t \in all \ both, u \in Top(trades) : u.id > t.id
    BY <1>5, <1>7
  <2> QED
    BY <1>3, <1>6, <1>9, <2>1, OldAddNothing
<1>12. Newest(kept) = Newest(both)
  <2>1. \A t \in kept \ both, u \in Top(trades) : u.id > t.id
    BY <1>5, <1>8
  <2> QED
    BY <1>4, <1>6, <1>10, <2>1, OldAddNothing
<1> QED
  BY <1>3, <1>11, <1>12

(* The tape shows the newest of what was received; the latest price is of  *)
(* the greatest id received.                                               *)
Latest(trades, t) ==
    IF trades = {} THEN t = NoTrade ELSE t \in trades /\ Above(trades, t) = {}
TapeInv ==
    /\ run \in 1..MaxRun
    /\ Identified(received) /\ \A t \in received : t.id \in 1..MaxId
    /\ tape = [baseline |-> opening, latest |-> tape.latest, recent |-> Newest(received)]
    /\ opening = NoTrade <=> received = {}
    /\ Latest(received, tape.latest)

LEMMA NothingIsShown == Identified({}) /\ Newest({}) = <<>>
<1>1. Cardinality({}) = 0 /\ IsFiniteSet({})
  BY FS_EmptySet
<1>2. TapeLimit \in Nat
  BY TapeAssumption
<1>3. Newest({}) = [k \in 1..0 |-> CHOOSE t \in {} : Cardinality(Above({}, t)) = k - 1]
  BY <1>1, <1>2 DEF Newest
<1>4. Newest({}) = <<>>
  BY <1>3
<1> QED
  BY <1>1, <1>4 DEF Identified

(* The latest trade of those received before and those of the batch.       *)
IsLatest(after, before, ids, r) ==
    /\ after \in {before} \cup {[run |-> r, id |-> id] : id \in {i \in ids : i > before.id}}
    /\ \A id \in ids : id <= after.id

LEMMA LatestIsTaken ==
  ASSUME NEW trades, Identified(trades), \A t \in trades : t.id \in 1..MaxId,
         NEW ids \in SUBSET (1..MaxId), ids # {}, NEW r,
         NEW all, all = WithBatch(trades, ids, r),
         NEW before, Latest(trades, before), NEW after, IsLatest(after, before, ids, r)
  PROVE  Latest(all, after)
<1> DEFINE T(id) == [run |-> r, id |-> id]
           new == {i \in ids : \A t \in trades : t.id # i}
<1>0. MaxId \in Nat /\ \A id : T(id).id = id
  BY TapeAssumption
<1>1. all = trades \cup {T(id) : id \in new} /\ new \subseteq ids
      /\ (after = before \/ \E i \in ids : i > before.id /\ after = T(i))
      /\ \A id \in ids : id <= after.id
  <2>1. all = trades \cup {T(id) : id \in new}
    BY Zenon DEF WithBatch
  <2> QED
    BY <2>1 DEF IsLatest
<1> HIDE DEF T
<1>2. PICK some \in ids : some \in Nat /\ some >= 1
  <2>1. PICK some : some \in ids
    OBVIOUS
  <2>2. some \in 1..MaxId
    BY <2>1
  <2> QED
    BY <1>0, <2>1, <2>2
<1>3. \A u \in trades : u.id \in Nat /\ u.id <= before.id
  BY <1>0 DEF Latest, Above
<1>4. before.id \in Nat /\ (trades = {} => before.id = 0 /\ before = NoTrade)
  BY <1>0 DEF Latest, NoTrade
<1>5. after \in all /\ after.id >= before.id /\ after.id \in Nat
  <2>1. CASE after = before
    <3>1. trades # {}
      BY <1>1, <1>2, <1>4, <2>1
    <3> QED
      BY <1>1, <1>4, <2>1, <3>1 DEF Latest
  <2>2. CASE \E i \in ids : i > before.id /\ after = T(i)
    <3>1. PICK i \in ids : i > before.id /\ after = T(i)
      BY <2>2
    <3>2. i \in new
      BY <1>3, <1>4, <3>1
    <3> QED
      BY <1>0, <1>1, <1>4, <3>1, <3>2
  <2> QED
    BY <1>1, <2>1, <2>2
<1>6. \A u \in all : u.id \in Int /\ u.id <= after.id
  BY <1>0, <1>1, <1>3, <1>4, <1>5
<1>7. Above(all, after) = {}
  BY <1>5, <1>6 DEF Above
<1> QED
  BY <1>5, <1>7 DEF Latest

LEMMA ProcessTradesKeeps ==
  ASSUME TapeInv, NEW n \in 1..MaxBatch, NEW batch \in [1..n -> 1..MaxId], ProcessTrades(batch)
  PROVE  TapeInv'
<1> DEFINE T(id) == [run |-> run, id |-> id]
<1>1. PICK trades, ids, r, before, base, t :
        /\ trades = received /\ ids = ToSet(batch) /\ r = run
        /\ before = tape.latest /\ base = opening
        /\ t = [tape EXCEPT !.recent = ToSet(@)]
  OBVIOUS
<1>2. MaxId \in Nat /\ MaxBatch \in Nat /\ MaxRun \in Nat
  BY TapeAssumption
<1>3. ids \in SUBSET (1..MaxId) /\ ids # {}
  <2>1. DOMAIN batch = 1..n /\ 1 \in 1..n
    BY <1>2
  <2>2. ids = {batch[i] : i \in 1..n}
    BY <1>1, <2>1 DEF ToSet
  <2> QED
    BY <2>1, <2>2
<1>4. /\ r \in Nat \ {0} /\ Identified(trades) /\ \A u \in trades : u.id \in 1..MaxId
      /\ tape = [baseline |-> base, latest |-> before, recent |-> Newest(trades)]
      /\ base = NoTrade <=> trades = {}
      /\ Latest(trades, before)
  BY <1>1, <1>2 DEF TapeInv
<1>5. t = [baseline |-> base, latest |-> before, recent |-> Top(trades)]
  <2>1. ToSet(tape.recent) = Top(trades)
    BY <1>4, TopIsShown
  <2> QED
    BY <1>1, <1>4, <2>1
<1>6. t.baseline = base /\ t.latest = before /\ t.recent = Top(trades)
  BY <1>5
<1>7. Begins(t, ids, r)
  <2>1. before.id \in Nat /\ \A u \in trades : u.id <= before.id
    BY <1>2, <1>4 DEF Latest, Above, NoTrade
  <2>2. Top(trades) \subseteq trades
    BY DEF Top
  <2> QED
    BY <1>3, <1>4, <1>5, <1>6, <2>1, <2>2 DEF Begins
<1>8. PICK f : f = CHOOSE g : IsTaken(g, t, ids, r, MaxId)
  OBVIOUS
<1>9. PICK s : s = f[MaxId]
  OBVIOUS
<1>10. Took(s, t, ids, r, MaxId)
  BY <1>7, <1>8, <1>9, BatchIsTaken
<1>11. tape' = [s EXCEPT !.recent = Newest(@)]
  <2>1. tape' = Processed(tape, batch)
    BY DEF ProcessTrades
  <2>2. Processed(tape, batch) = [f[MaxId] EXCEPT !.recent = Newest(@)]
    BY <1>1, <1>8 DEF Processed, IsTaken
  <2> QED
    BY <1>9, <2>1, <2>2
<1>12. tape' = [baseline |-> s.baseline, latest |-> s.latest, recent |-> Newest(s.recent)]
  BY <1>10, <1>11 DEF Took
<1>13. PICK all : all = WithBatch(trades, ids, r)
  OBVIOUS
<1>14. received' = all /\ run' = run
  BY <1>1, <1>13 DEF ProcessTrades, WithBatch
<1>15. s.recent = WithBatch(Top(trades), ids, r)
  <2>1. \A i \in ids : i <= MaxId
    BY <1>2, <1>3
  <2>2. {i \in Fresh(t, ids) : i <= MaxId} = Fresh(t, ids)
    BY <2>1 DEF Fresh
  <2>3. Fresh(t, ids) = {i \in ids : \A u \in Top(trades) : u.id # i}
    BY <1>6, Zenon DEF Fresh
  <2> QED
    BY <1>6, <1>10, <2>2, <2>3, Zenon DEF Took, TookRecent, WithBatch
<1>16. PICK kept : kept = s.recent
  OBVIOUS
<1>17. /\ Identified(all) /\ \A u \in all : u.id \in 1..MaxId
       /\ Newest(kept) = Newest(all)
  BY <1>3, <1>4, <1>13, <1>15, <1>16, BatchShowsNewest
<1>18. Latest(all, s.latest)
  <2>1. \A id \in ids : id <= MaxId
    BY <1>2, <1>3
  <2>2. PICK after : after = s.latest
    OBVIOUS
  <2>3. IsLatest(after, before, ids, r)
    BY <1>6, <1>10, <2>1, <2>2, Zenon DEF Took, TookLatest, IsLatest
  <2>4. Latest(all, after)
    BY <1>3, <1>4, <1>13, <2>3, LatestIsTaken
  <2> QED
    BY <2>2, <2>4
<1>19. s.baseline = opening' /\ opening' # NoTrade
  <2>1. opening' = IF base = NoTrade
                   THEN [run |-> r, id |-> CHOOSE id \in ids : \A other \in ids : id <= other]
                   ELSE base
    BY <1>1 DEF ProcessTrades
  <2>2. CASE base # NoTrade
    BY <1>6, <1>10, <2>1, <2>2, Zenon DEF Took, TookBaseline
  <2>3. CASE base = NoTrade
    <3>1. \A id \in ids : id \in Nat /\ id <= MaxId
      BY <1>2, <1>3
    <3>2. PICK id \in ids : /\ s.baseline = [run |-> r, id |-> id]
                            /\ \A other \in ids : id <= other
      BY <1>3, <1>6, <1>10, <2>3, <3>1, Zenon DEF Took, TookBaseline
    <3>3. \A x \in ids : (\A other \in ids : x <= other) => x = id
      BY <3>1, <3>2
    <3>4. (CHOOSE x \in ids : \A other \in ids : x <= other) = id
      BY <3>2, <3>3
    <3>5. opening' = [run |-> r, id |-> id]
      BY <2>1, <2>3, <3>4
    <3> QED
      BY <1>4, <3>2, <3>5 DEF NoTrade
  <2> QED
    BY <2>2, <2>3
<1>20. all # {}
  <2>1. CASE trades = {}
    BY <1>3, <1>13, <2>1 DEF WithBatch
  <2>2. CASE trades # {}
    BY <1>13, <2>2 DEF WithBatch
  <2> QED
    BY <2>1, <2>2
<1>21. tape' = [baseline |-> opening', latest |-> tape'.latest, recent |-> Newest(all)]
       /\ tape'.latest = s.latest
  BY <1>12, <1>16, <1>17, <1>19
<1>22. run' \in 1..MaxRun
  BY <1>14 DEF TapeInv
<1> QED
  BY <1>14, <1>17, <1>18, <1>19, <1>20, <1>21, <1>22 DEF TapeInv

(* TapeShowsNewest, for any number of trades, runs and batches: the tape   *)
(* of the symbol selected is the newest trades received, each as it first  *)
(* came, with the latest price and the session's baseline.                 *)
THEOREM TapeIsNewest == TapeSpec => []TapeShowsNewest
<1>1. TapeInit => TapeInv
  <2> SUFFICES ASSUME TapeInit PROVE TapeInv
    OBVIOUS
  <2>1. 1 \in 1..MaxRun
    BY TapeAssumption
  <2>2. tape = [baseline |-> opening, latest |-> tape.latest, recent |-> <<>>]
        /\ tape.latest = NoTrade /\ received = {} /\ run = 1 /\ opening = NoTrade
    BY DEF TapeInit, EmptyTape
  <2> QED
    BY <2>1, <2>2, NothingIsShown DEF TapeInv, Latest
<1>2. TapeInv /\ [TapeNext]_tapeVars => TapeInv'
  <2> SUFFICES ASSUME TapeInv, [TapeNext]_tapeVars PROVE TapeInv'
    OBVIOUS
  <2>1. ASSUME NEW n \in 1..MaxBatch, NEW ids \in [1..n -> 1..MaxId], ProcessTrades(ids)
        PROVE  TapeInv'
    BY <2>1, ProcessTradesKeeps
  <2>2. CASE SelectSymbol
    <3>1. tape' = [baseline |-> opening', latest |-> tape'.latest, recent |-> <<>>]
          /\ tape'.latest = NoTrade /\ received' = {} /\ run' = run /\ opening' = NoTrade
      BY <2>2 DEF SelectSymbol, EmptyTape
    <3> QED
      BY <3>1, NothingIsShown DEF TapeInv, Latest
  <2>3. CASE ServerRestarts
    <3>1. run' \in 1..MaxRun
      BY <2>3, TapeAssumption DEF ServerRestarts, TapeInv
    <3> QED
      BY <2>3, <3>1, Zenon DEF ServerRestarts, TapeInv
  <2>4. CASE UNCHANGED tapeVars
    BY <2>4, Zenon DEF tapeVars, TapeInv
  <2> QED
    BY <2>1, <2>2, <2>3, <2>4 DEF TapeNext
<1>3. TapeInv => TapeShowsNewest
  <2> SUFFICES ASSUME TapeInv PROVE TapeShowsNewest
    OBVIOUS
  <2>1. PICK trades, shown : trades = received /\ shown = tape.recent
    OBVIOUS
  <2>2. Identified(trades) /\ shown = Newest(trades) /\ tape.baseline = opening
    BY <2>1 DEF TapeInv
  <2>3. \A t \in trades : Rank(trades, t) < TapeLimit => shown[Rank(trades, t) + 1] = t
    BY <2>2, NewestTells
  <2>4. \A t \in trades : Above(trades, t) = {} => tape.latest = t
    <3>1. ASSUME NEW t \in trades, Above(trades, t) = {} PROVE tape.latest = t
      <4>1. PICK latest : latest = tape.latest
        OBVIOUS
      <4>2. latest \in trades /\ Above(trades, latest) = {}
        BY <2>1, <3>1, <4>1 DEF TapeInv, Latest
      <4>3. Rank(trades, t) = Rank(trades, latest)
        BY <3>1, <4>2 DEF Rank
      <4> QED
        BY <2>2, <4>1, <4>2, <4>3, RanksDiffer
    <3> QED
      BY <3>1
  <2>5. Len(shown) = Cardinality(Top(trades))
    <3>1. /\ Places(trades) \in Nat
          /\ \A k \in 1..Places(trades) : shown[k] \in trades
      BY <2>2, NewestTells
    <3>2. shown = [k \in 1..Places(trades) |-> shown[k]]
      BY <2>2 DEF Newest, Places
    <3>3. shown \in Seq(trades) /\ Len(shown) = Places(trades)
      BY <3>1, <3>2
    <3> QED
      BY <2>2, <3>3, TopIsShown
  <2> QED
    BY <2>1, <2>2, <2>3, <2>4, <2>5, Zenon DEF TapeShowsNewest, Top, Rank
<1> QED
  BY <1>1, <1>2, <1>3, PTL DEF TapeSpec
==============================================================================
