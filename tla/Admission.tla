------------------------------- MODULE Admission -------------------------------
(***************************************************************************)
(* Why the server lets a socket of the client in or not: the connect       *)
(* ticket (apps/api, TicketService, the ticket route and the first lines   *)
(* of the gateway), from its minting to its last replay.                   *)
(*                                                                         *)
(* A ticket is known by the time it has left.  `coming` is the one being   *)
(* fetched, `carried` the one the connecting socket presents, `spent` the  *)
(* last one that opened a session, which may be presented again by anyone  *)
(* who has seen it.  The wall clock runs on, and may be set back.          *)
(***************************************************************************)
EXTENDS SocketClient

CONSTANTS
    Ttl,           \* AUTH_TICKET_TTL_MS
    MaxStepsBack   \* bound: times the wall clock of the server is set back

ASSUME AdmissionAssumption == Ttl \in Nat \ {0} /\ MaxStepsBack \in Nat

VARIABLES
    coming, carried,  \* time left of the two tickets; NoTicket
    spent,            \* of the last ticket consumed,
    remembered,       \*   whether #consumed holds it,
    uses,             \*   and how many sessions it has opened
    admitted,         \* the gateway lets #socket in
    stepsBack

tickets == <<coming, carried, spent, remembered, uses, admitted, stepsBack>>
admissionVars == <<vars, tickets>>

NoTicket == -1
TimeLeft == 0..Ttl

AdmissionTypeOK ==
    /\ TypeOK
    /\ {coming, carried, spent} \subseteq TimeLeft \cup {NoTicket}
    /\ remembered \in BOOLEAN /\ admitted \in BOOLEAN
    /\ uses \in Nat /\ stepsBack \in 0..MaxStepsBack

------------------------------------------------------------------------------
(* The ticket route mints for the request under way.                       *)
Mint ==
    /\ fetching /\ coming = NoTicket
    /\ coming' = Ttl
    /\ UNCHANGED <<vars, carried, spent, remembered, uses, admitted, stepsBack>>

\* verifyAndConsume begins with #evictExpired.
EvictedEarly == remembered /\ spent > 1
Evicted == remembered /\ spent > 0

\* What is presented is accepted when it has time left and was not consumed.
Accepts(timeLeft, consumed) == timeLeft > 0 /\ ~consumed

(* The upgrade succeeds in any case: a ticket that has expired meanwhile   *)
(* is only refused by the close that follows.                              *)
Enters ==
    /\ Opens
    /\ admitted' = Accepts(carried, FALSE)
    /\ IF admitted'
       THEN spent' = carried /\ remembered' = TRUE /\ uses' = 1
       ELSE remembered' = Evicted /\ UNCHANGED <<spent, uses>>
    /\ carried' = NoTicket
    /\ UNCHANGED <<coming, stepsBack>>

\* The spent ticket is presented once more.
Replay ==
    /\ spent # NoTicket
    /\ LET again == Accepts(spent, Evicted)
       IN  /\ uses' = IF again /\ uses <= MaxStepsBack + 1 THEN uses + 1 ELSE uses
           /\ remembered' = (Evicted \/ again)
    /\ UNCHANGED <<vars, coming, carried, spent, admitted, stepsBack>>

\* Time takes a step, or the server's clock is set back by one.
Less(timeLeft) == IF timeLeft > 0 THEN timeLeft - 1 ELSE timeLeft
More(timeLeft) == IF timeLeft \in 0..Ttl - 1 THEN timeLeft + 1 ELSE timeLeft

TimePasses ==
    /\ coming' = Less(coming) /\ carried' = Less(carried) /\ spent' = Less(spent)
    /\ UNCHANGED <<vars, remembered, uses, admitted, stepsBack>>

ClockSetBack ==
    /\ stepsBack < MaxStepsBack
    /\ stepsBack' = stepsBack + 1
    /\ coming' = More(coming) /\ carried' = More(carried) /\ spent' = More(spent)
    /\ UNCHANGED <<vars, remembered, uses, admitted>>

------------------------------------------------------------------------------
(* The client's steps with what they do to its tickets: a ticket is        *)
(* carried to the socket it was fetched for, and dropped with an attempt   *)
(* that is given up.                                                       *)
Arrives ==
    /\ coming # NoTicket
    /\ TicketArrives
    /\ carried' = coming /\ coming' = NoTicket
    /\ UNCHANGED <<spent, remembered, uses, admitted, stepsBack>>

\* What belongs to the socket goes with it.
Drop ==
    /\ carried' = IF socket' = "none" THEN NoTicket ELSE carried
    /\ admitted' = (admitted /\ socket' # "none")

GivesUp ==
    /\ \/ Connect \/ Disconnect \/ Online \/ TimerFires \/ TicketFails
    /\ coming' = NoTicket
    /\ Drop
    /\ UNCHANGED <<spent, remembered, uses, stepsBack>>

\* Only a socket that was let in is greeted.
Greeted ==
    /\ admitted
    /\ Hello
    /\ UNCHANGED tickets

GoesOn ==
    /\ \/ Offline \/ AbortedTicketSettles \/ MarkSynchronized \/ MarkSyncing
       \/ \E stable \in BOOLEAN : Closed(stable)
       \/ LeakedCloses
    /\ Drop
    /\ UNCHANGED <<coming, spent, remembered, uses, stepsBack>>

AdmissionInit ==
    /\ Init
    /\ coming = NoTicket /\ carried = NoTicket /\ spent = NoTicket
    /\ remembered = FALSE /\ uses = 0 /\ admitted = FALSE /\ stepsBack = 0

AdmissionNext ==
    \/ Mint \/ Enters \/ Replay \/ TimePasses \/ ClockSetBack
    \/ Arrives \/ GivesUp \/ Greeted \/ GoesOn

AdmissionSpec == AdmissionInit /\ [][AdmissionNext]_admissionVars

(* SocketClient's fairness, with what it left open said: the service       *)
(* answers again and again, and of its tickets one comes in time, gets     *)
(* its socket in and is greeted.  A request ends somehow, and so does a    *)
(* socket that connects, closes or was refused.                            *)
Ends == (\E stable \in BOOLEAN : Closed(stable)) /\ GoesOn

AdmissionFairness ==
    /\ WF_admissionVars(TimerFires /\ GivesUp)
    /\ WF_admissionVars((TicketFails /\ GivesUp) \/ Arrives)
    /\ WF_admissionVars(\/ socket = "connecting" /\ (Enters \/ Ends)
                        \/ socket = "open" /\ ~admitted /\ Ends
                        \/ socket = "closing" /\ Ends)
    /\ SF_admissionVars(Mint)
    /\ SF_admissionVars(coming > 0 /\ Arrives)
    /\ SF_admissionVars(carried > 0 /\ Enters)
    /\ SF_admissionVars(Greeted)

FairAdmissionSpec == AdmissionSpec /\ AdmissionFairness

------------------------------------------------------------------------------
(* A ticket opens one session, however it is presented again: while it has *)
(* time left the server remembers it, and what it has forgotten is out of  *)
(* time.  Only a clock set back between the two makes it good once more.   *)
(* (ticket-service.ts:104, "Single use")                                   *)
SingleUse == uses <= 1 + stepsBack

(* The uptime that makes the backoff start over is that of the socket that *)
(* closes, unless the network changed or the client was restarted: these   *)
(* leave an earlier socket's behind.  (market-socket-client.ts:287-291)    *)
UptimeIsOfThisSocket ==
    started /\ network = 0 /\ starts <= 1 => (connectedAt => socket \in {"open", "greeted"})

==============================================================================
