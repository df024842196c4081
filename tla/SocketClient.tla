----------------------------- MODULE SocketClient -----------------------------
(***************************************************************************)
(* The life of the terminal's socket: ticket, connection, hello, loss,     *)
(* backoff and retry, under whatever the network and the server do.        *)
(*                                                                         *)
(* What the client holds a reference to is `socket`; a socket it no longer *)
(* refers to and never closed is one of `leaked`.  Durations are left out: *)
(* a timer may fire at any time, an uptime was long enough or not.         *)
(***************************************************************************)
EXTENDS Integers

CONSTANTS
    ErrorAfter,  \* ERROR_AFTER_ATTEMPTS; attempts beyond it are not counted
    MaxStarts,   \* bound: calls of connect()
    MaxNetwork   \* bound: offline and online events

ASSUME BoundAssumption ==
    ErrorAfter \in Nat \ {0} /\ MaxStarts \in Nat /\ MaxNetwork \in Nat

VARIABLES
    started,
    state,        \* ConnectionState
    socket,       \* #socket, by how far it got
    leaked,       \* sockets replaced while they were connecting or open
    fetching,     \* a ticket is being fetched for the attempt that counts
    aborted,      \* aborted ticket requests that have not settled
    timer,        \* #reconnectTimer is set
    attempt, connectedAt,  \* #attempt; #connectedAt is not null
    measuring,    \* the ping and report timers run
    starts, network

vars == <<started, state, socket, leaked, fetching, aborted, timer, attempt, connectedAt,
          measuring, starts, network>>

State == {"CONNECTING", "RECONNECTING", "SYNCING", "LIVE", "STALE", "ERROR"}
Phase == {"none", "connecting", "open", "greeted", "closing"}
Alive == {"connecting", "open", "greeted"}

TypeOK ==
    /\ started \in BOOLEAN /\ state \in State /\ socket \in Phase
    /\ leaked \in Nat /\ aborted \in Nat
    /\ fetching \in BOOLEAN /\ timer \in BOOLEAN
    /\ attempt \in 0..ErrorAfter /\ connectedAt \in BOOLEAN
    /\ measuring \in BOOLEAN /\ (measuring => socket # "none")
    /\ starts \in 0..MaxStarts /\ network \in 0..MaxNetwork

------------------------------------------------------------------------------
Shown == IF attempt >= ErrorAfter THEN "ERROR" ELSE "RECONNECTING"
OneMore(n) == IF n < ErrorAfter THEN n + 1 ELSE n

(* #scheduleReconnect, after n attempts: one timer at a time.              *)
ScheduleReconnect(n) ==
    IF timer THEN attempt' = n /\ UNCHANGED timer
    ELSE attempt' = OneMore(n) /\ timer' = TRUE

(* #attemptConnect: the fetch before it is aborted.                        *)
AttemptConnect ==
    /\ aborted' = IF fetching THEN aborted + 1 ELSE aborted
    /\ fetching' = TRUE

Connect ==
    /\ ~started
    /\ starts < MaxStarts
    /\ starts' = starts + 1
    /\ started' = TRUE
    /\ attempt' = 0
    /\ state' = "CONNECTING"
    /\ AttemptConnect
    /\ UNCHANGED <<socket, leaked, timer, connectedAt, measuring, network>>

DisconnectKeepingTimer ==
    /\ started
    /\ started' = FALSE
    /\ measuring' = FALSE
    /\ fetching' = FALSE
    /\ aborted' = IF fetching THEN aborted + 1 ELSE aborted
    /\ socket' = "none"
    /\ state' = "STALE"
    /\ UNCHANGED <<timer, leaked, attempt, connectedAt, starts, network>>

Disconnect ==
    /\ started
    /\ started' = FALSE
    /\ timer' = FALSE
    /\ measuring' = FALSE
    /\ fetching' = FALSE
    /\ aborted' = IF fetching THEN aborted + 1 ELSE aborted
    /\ socket' = "none"
    /\ state' = "STALE"
    /\ UNCHANGED <<leaked, attempt, connectedAt, starts, network>>

NetworkChanges ==
    /\ started
    /\ network < MaxNetwork
    /\ network' = network + 1

Offline ==
    /\ NetworkChanges
    /\ state' = "STALE"
    /\ socket' = IF socket = "none" THEN socket ELSE "closing"
    /\ ScheduleReconnect(attempt)
    /\ UNCHANGED <<started, leaked, fetching, aborted, connectedAt, measuring, starts>>

Online ==
    /\ NetworkChanges
    /\ timer' = FALSE
    /\ state' = "RECONNECTING"
    /\ AttemptConnect
    /\ UNCHANGED <<started, socket, leaked, attempt, connectedAt, measuring, starts>>

TimerFires ==
    /\ timer
    /\ timer' = FALSE
    /\ IF started
       THEN state' = Shown /\ AttemptConnect
       ELSE UNCHANGED <<state, fetching, aborted>>
    /\ UNCHANGED <<started, socket, leaked, attempt, connectedAt, measuring, starts, network>>

(* The ticket arrives: a new socket takes the place of #socket.            *)
NewSocket ==
    /\ leaked' = IF socket \in Alive THEN leaked + 1 ELSE leaked
    /\ socket' = "connecting"

TicketArrives ==
    /\ fetching
    /\ fetching' = FALSE
    /\ NewSocket
    /\ UNCHANGED <<started, state, aborted, timer, attempt, connectedAt, measuring, starts,
                   network>>

TicketFailsForGood ==
    /\ fetching
    /\ fetching' = FALSE
    /\ UNCHANGED <<started, state, socket, leaked, aborted, timer, attempt, connectedAt,
                   measuring, starts, network>>

TicketFails ==
    /\ fetching
    /\ fetching' = FALSE
    /\ ScheduleReconnect(attempt)
    /\ UNCHANGED <<started, state, socket, leaked, aborted, connectedAt, measuring, starts,
                   network>>

AbortedTicketUsed ==
    /\ aborted > 0
    /\ aborted' = aborted - 1
    /\ IF started THEN NewSocket ELSE UNCHANGED <<socket, leaked>>
    /\ UNCHANGED <<started, state, fetching, timer, attempt, connectedAt, measuring, starts,
                   network>>

(* An aborted request settles, with a ticket or not: nothing comes of it.  *)
AbortedTicketSettles ==
    /\ aborted > 0
    /\ aborted' = aborted - 1
    /\ UNCHANGED <<started, state, socket, leaked, fetching, timer, attempt, connectedAt,
                   measuring, starts, network>>

Opens ==
    /\ socket = "connecting"
    /\ socket' = "open"
    /\ connectedAt' = TRUE
    /\ measuring' = TRUE
    /\ UNCHANGED <<started, state, leaked, fetching, aborted, timer, attempt, starts, network>>

(* The first frame of a session.                                           *)
Hello ==
    /\ socket = "open"
    /\ socket' = "greeted"
    /\ attempt' = 0
    /\ state' = "SYNCING"
    /\ UNCHANGED <<started, leaked, fetching, aborted, timer, connectedAt, measuring, starts,
                   network>>

(* The registry of books is synchronised, or no longer.                    *)
MarkSynchronized ==
    /\ state = "SYNCING"
    /\ state' = "LIVE"
    /\ UNCHANGED <<started, socket, leaked, fetching, aborted, timer, attempt, connectedAt,
                   measuring, starts, network>>

MarkSyncing ==
    /\ state = "LIVE"
    /\ state' = "SYNCING"
    /\ UNCHANGED <<started, socket, leaked, fetching, aborted, timer, attempt, connectedAt,
                   measuring, starts, network>>

ClosedKeepingUptime(stable) ==
    /\ socket # "none"
    /\ stable => connectedAt
    /\ measuring' = FALSE
    /\ socket' = "none"
    /\ LET n == IF stable THEN 0 ELSE attempt
       IN  /\ state' = IF n >= ErrorAfter THEN "ERROR" ELSE "STALE"
           /\ ScheduleReconnect(n)
    /\ UNCHANGED <<started, leaked, fetching, aborted, connectedAt, starts, network>>

(* The socket closes: refused, lost, or closed by either side; it was up   *)
(* long enough to start counting again, or not.                            *)
Closed(stable) ==
    /\ socket # "none"
    /\ stable => connectedAt
    /\ measuring' = FALSE
    /\ socket' = "none"
    /\ connectedAt' = FALSE
    /\ LET n == IF stable THEN 0 ELSE attempt
       IN  /\ state' = IF n >= ErrorAfter THEN "ERROR" ELSE "STALE"
           /\ ScheduleReconnect(n)
    /\ UNCHANGED <<started, leaked, fetching, aborted, starts, network>>

(* A leaked socket is only ever closed by the server, missing its pings.   *)
LeakedCloses ==
    /\ leaked > 0
    /\ leaked' = leaked - 1
    /\ UNCHANGED <<started, state, socket, fetching, aborted, timer, attempt, connectedAt,
                   measuring, starts, network>>

Init ==
    /\ started = FALSE /\ state = "STALE" /\ socket = "none" /\ leaked = 0
    /\ fetching = FALSE /\ aborted = 0 /\ timer = FALSE
    /\ attempt = 0 /\ connectedAt = FALSE /\ measuring = FALSE
    /\ starts = 0 /\ network = 0

Next ==
    \/ Connect \/ Disconnect
    \/ Offline \/ Online
    \/ TimerFires
    \/ TicketArrives \/ TicketFails \/ AbortedTicketSettles
    \/ Opens \/ Hello \/ MarkSynchronized \/ MarkSyncing
    \/ \E stable \in BOOLEAN : Closed(stable)
    \/ LeakedCloses

Spec == Init /\ [][Next]_vars

(* The browser runs a timer that is set and settles a request that was     *)
(* made.  The service is not down for good: of the attempts made again and *)
(* again one gets its ticket, opens and is greeted (strong fairness, for   *)
(* each may fail any number of times before).                              *)
Fairness ==
    /\ WF_vars(TimerFires)
    /\ WF_vars(Closed(FALSE) /\ socket = "closing")
    /\ SF_vars(TicketArrives)
    /\ SF_vars(Opens)
    /\ SF_vars(Hello)

FairSpec == Spec /\ Fairness

------------------------------------------------------------------------------
(* After disconnect() nothing of the client runs on: no retry is pending,  *)
(* no ticket it would still use, no pings, no socket.                      *)
(* (docs/04-frontend.md, section 14: released on unmount)                  *)
QuietWhenStopped ==
    ~started => ~timer /\ ~fetching /\ ~measuring /\ socket = "none"

(* A started client never gives up: whatever failed, a retry is scheduled, *)
(* a ticket is on its way or there is a socket whose close it will hear.   *)
(* (#scheduleReconnect on every path that ends an attempt)                 *)
NeverGivesUp == started => timer \/ fetching \/ socket # "none"

(* The header claims a session only over a socket that is not closing and  *)
(* not gone, and unless a change of the network started an attempt next to *)
(* it, over the very socket that was greeted.  (#setState)                 *)
SessionMeansSocket ==
    state \in {"SYNCING", "LIVE"} =>
        started /\ socket \in Alive /\ (network = 0 => socket = "greeted")

(* While the browser reports no change of the network, no socket is left   *)
(* open behind another: not by tickets that arrive late, not by            *)
(* disconnecting and connecting again in between.  (#ticketAbort)          *)
OneSocketAtATime == network = 0 => leaked = 0

(* docs/04-frontend.md:746 lists the socket as released "before every      *)
(* reconnect attempt": no socket is ever left open behind another.         *)
NoSocketLeaks == leaked = 0

(* A client that stays started gets a session again.                       *)
Reconnects == started ~> (~started \/ socket = "greeted")

==============================================================================
