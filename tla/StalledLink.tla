------------------------------ MODULE StalledLink ------------------------------
(***************************************************************************)
(* A client that does only what it is written to do (apps/web, Socket-     *)
(* Measurement and TerminalRuntime), the server's limits on it, and a link *)
(* that stalls: what is sent meanwhile arrives together when it flows      *)
(* again, a burst that the client never sent.                              *)
(*                                                                         *)
(* A step is a second.  In the first the socket opens and the client asks  *)
(* again for all it wants; then it pings every two seconds and reports     *)
(* every five; its user changes the interval every three.                  *)
(***************************************************************************)
EXTENDS FrameLimits

CONSTANTS
    LongestStall,  \* bound: seconds the link may stall
    Calm,          \* bound: seconds for which it flows on after a stall
    Horizon        \* bound: seconds of a connection

ASSUME StalledLinkAssumption == LongestStall \in Nat /\ Calm \in Nat /\ Horizon \in Nat

VARIABLES
    second,      \* since the socket opened; -1 before that
    stalledFor,  \* seconds the link has stalled
    calmFor,     \* seconds since it last did, up to Calm
    waiting,     \* types of the frames under way
    arrived,     \* seconds the frames handled last had been held up
    gate         \* the limiter of the connection

linkVars == <<second, stalledFor, calmFor, waiting, arrived, gate>>

------------------------------------------------------------------------------
\* What the client sends in a second; five symbols and an override first.
SentAt(s) ==
    IF s = 0
    THEN [i \in 1..5 |-> "subscribe"] \o <<"set_interval", "debug.tier_override", "ping">>
    ELSE (IF s % 2 = 0 THEN <<"ping">> ELSE <<>>)
         \o (IF s % 5 = 0 THEN <<"network.report">> ELSE <<>>)
         \o (IF s % 3 = 0 THEN <<"set_interval">> ELSE <<>>)

\* All of `types` handled in order at one time; only their own verdicts are kept.
Handled(types, at) ==
    LET after[n \in 0..Len(types)] ==
          IF n = 0 THEN [gate EXCEPT !.verdicts = <<>>]
          ELSE CheckFrame(ServerLimits, after[n - 1], types[n], at)
    IN  after[Len(types)]

Deliver(types, heldUp) ==
    /\ gate' = Handled(types, PerSecond * second')
    /\ arrived' = heldUp
    /\ waiting' = <<>>

LinkInit ==
    /\ second = -1 /\ stalledFor = 0 /\ calmFor = Calm
    /\ waiting = <<>> /\ arrived = 0
    /\ gate = NewLimiter(ServerLimits, 0)

Flow ==
    /\ second < Horizon
    /\ second' = second + 1
    /\ Deliver(waiting \o SentAt(second'), stalledFor)
    /\ stalledFor' = 0
    /\ calmFor' = CASE stalledFor > 0 -> 0
                    [] stalledFor = 0 /\ calmFor < Calm -> calmFor + 1
                    [] OTHER -> calmFor

Stall ==
    /\ second < Horizon
    /\ stalledFor < LongestStall /\ calmFor = Calm
    /\ second' = second + 1
    /\ stalledFor' = stalledFor + 1
    /\ waiting' = waiting \o SentAt(second')
    /\ UNCHANGED <<calmFor, arrived, gate>>

\* The connection ends and the next one begins.
LinkEnds ==
    /\ second = Horizon
    /\ second' = -1 /\ stalledFor' = 0 /\ calmFor' = Calm
    /\ waiting' = <<>> /\ arrived' = 0
    /\ gate' = NewLimiter(ServerLimits, 0)

LinkNext == Flow \/ Stall \/ LinkEnds

LinkSpec == LinkInit /\ [][LinkNext]_linkVars

------------------------------------------------------------------------------
Answers == {gate.verdicts[i] : i \in 1..Len(gate.verdicts)}

(* A client that keeps to its own schedule is not taken for one that       *)
(* misbehaves: no stall within LongestStall closes its socket, however     *)
(* often that happens if the link flows for Calm seconds after each, and   *)
(* one of seven seconds loses no frame.                                    *)
(* (rate-limiter.ts:20-31, socket-measurement.ts:4-5)                      *)
StalledClientIsKept ==
    /\ "close" \notin Answers
    /\ arrived <= 7 => Answers \subseteq {"allow"}

==============================================================================
