------------------------------ MODULE FrameLimits ------------------------------
(***************************************************************************)
(* The rate limiter of one connection (apps/api, ConnectionRateLimiter): a *)
(* token bucket for all frames, one for each type, and the strikes that    *)
(* close a socket.                                                         *)
(*                                                                         *)
(* Time is counted in units of 1/PerSecond of a second and tokens in units *)
(* of 1/PerSecond of a token, so that a bucket gains `sustained` units a   *)
(* time unit and everything is an integer.                                 *)
(*                                                                         *)
(* The limiter is a record, so that StalledLink can use the same operators *)
(* with the limits of the server.  Here small limits meet every sequence   *)
(* of frames, and what the limiter says of it is compared with what token  *)
(* buckets promise.                                                        *)
(***************************************************************************)
EXTENDS Integers, Sequences, FiniteSets

CONSTANTS
    PerSecond,      \* units of time in a second
    CheckedLimits,  \* small limits
    CheckedType,    \* bound: the types of the frames that come,
    MaxFrames, Gap  \*   how many they are, and the times between them

VARIABLES
    limiter,  \* the buckets and the strikes
    frames    \* history: the frames so far, [type, at]

limiterVars == <<limiter, frames>>

Capped(n, most) == IF n < most THEN n ELSE most

------------------------------------------------------------------------------
(* `bucket` gives each type of frame its bucket, `global` is for them all. *)
Limits(bucket, globalPerSecond, strikeLimit, window) ==
    [bucket |-> bucket, strikeLimit |-> strikeLimit, window |-> window,
     global |-> [sustained |-> globalPerSecond, burst |-> 2 * globalPerSecond]]

\* The table of the code, with the defaults of the environment.
FrameType == {"ping", "network.report", "subscribe", "unsubscribe", "set_interval",
              "debug.tier_override"}
BucketConfig == [sustained : Nat, burst : Nat]
ASSUME FrameLimitsAssumption ==
    /\ PerSecond \in Nat \ {0} /\ MaxFrames \in Nat
    /\ Gap \subseteq Nat /\ CheckedType \subseteq FrameType
    /\ CheckedLimits \in [bucket : [FrameType -> BucketConfig], global : BucketConfig,
                          strikeLimit : Nat, window : Nat \ {0}]

FrameBuckets == [type \in FrameType |->
    CASE type = "ping" -> [sustained |-> 2, burst |-> 4]
      [] type = "network.report" -> [sustained |-> 1, burst |-> 3]
      [] type = "debug.tier_override" -> [sustained |-> 2, burst |-> 5]
      [] OTHER -> [sustained |-> 5, burst |-> 10]]
ServerLimits == Limits(FrameBuckets, 20, 3, 10 * PerSecond)

Bucket == [tokens : Nat, at : Nat, taken : BOOLEAN]
Limiter == [global : Bucket, byType : [FrameType -> Bucket],
            strikes : Seq(Nat), verdicts : Seq({"allow", "limit", "close"})]

FullBucket(config, now) == [tokens |-> config.burst * PerSecond, at |-> now, taken |-> TRUE]

\* Refills by the time that has passed, then spends a token if there is one.
Take(bucket, config, now) ==
    LET elapsed == IF now > bucket.at THEN now - bucket.at ELSE 0
        refilled == Capped(bucket.tokens + elapsed * config.sustained, config.burst * PerSecond)
        taken == refilled >= PerSecond
    IN  [tokens |-> IF taken THEN refilled - PerSecond ELSE refilled, at |-> now, taken |-> taken]

NewLimiter(limits, now) ==
    [global |-> FullBucket(limits.global, now),
     byType |-> [type \in FrameType |-> FullBucket(limits.bucket[type], now)],
     strikes |-> <<>>, verdicts |-> <<>>]

\* The strikes that have not left the window.
Recent(strikes, now, window) ==
    LET kept[n \in 0..Len(strikes)] ==
          IF n = 0 THEN <<>>
          ELSE IF now - strikes[n] < window
               THEN Append(kept[n - 1], strikes[n])
               ELSE kept[n - 1]
    IN  kept[Len(strikes)]

\* A refused frame is a strike, and strikes are forgotten as they leave the window.
StruckForGood(limits, l, now) ==
    LET strikes == Append(l.strikes, now)
    IN  [l EXCEPT !.strikes = strikes,
                        !.verdicts =
            Append(@, IF Len(strikes) >= limits.strikeLimit THEN "close" ELSE "limit")]
Struck(limits, l, now) ==
    LET strikes == Append(Recent(l.strikes, now, limits.window), now)
    IN  [l EXCEPT !.strikes = strikes,
                        !.verdicts =
            Append(@, IF Len(strikes) >= limits.strikeLimit THEN "close" ELSE "limit")]

\* The global bucket is asked first, and the token it gave is not given back
\* when the bucket of the type then refuses.
CheckFrameTypeFirst(limits, l, type, now) ==
    LET global == Take(l.global, limits.global, now)
        own == Take(l.byType[type], limits.bucket[type], now)
        asked == [l EXCEPT !.byType[type] = own]
        both == [asked EXCEPT !.global = global]
    IN  CASE ~own.taken -> Struck(limits, asked, now)
          [] own.taken /\ ~global.taken -> Struck(limits, both, now)
          [] own.taken /\ global.taken -> [both EXCEPT !.verdicts = Append(@, "allow")]
CheckFrame(limits, l, type, now) ==
    LET global == Take(l.global, limits.global, now)
        own == Take(l.byType[type], limits.bucket[type], now)
        asked == [l EXCEPT !.global = global]
        both == [asked EXCEPT !.byType[type] = own]
    IN  CASE ~global.taken -> Struck(limits, asked, now)
          [] global.taken /\ ~own.taken -> Struck(limits, both, now)
          [] global.taken /\ own.taken -> [both EXCEPT !.verdicts = Append(@, "allow")]

------------------------------------------------------------------------------
LimiterInit ==
    /\ limiter = NewLimiter(CheckedLimits, 0)
    /\ frames = <<>>

Now == IF frames = <<>> THEN 0 ELSE frames[Len(frames)].at

\* A socket that closes still handles what comes before it has closed.
Arrive(type, gap) ==
    /\ Len(frames) < MaxFrames
    /\ limiter' = CheckFrame(CheckedLimits, limiter, type, Now + gap)
    /\ frames' = Append(frames, [type |-> type, at |-> Now + gap])

\* The next connection has a limiter of its own.
NextConnection ==
    /\ Len(frames) = MaxFrames
    /\ limiter' = NewLimiter(CheckedLimits, 0)
    /\ frames' = <<>>

LimiterNext ==
    \/ \E type \in CheckedType, gap \in Gap : Arrive(type, gap)
    \/ NextConnection

LimiterSpec == LimiterInit /\ [][LimiterNext]_limiterVars

------------------------------------------------------------------------------
(* What a token bucket promises, said without tokens: of the frames asked  *)
(* about, one passes exactly when no stretch of time that ends with it     *)
(* would then have seen more than the burst and the sustained rate allow.  *)
KeepsTheCurve(asked, passed, config) ==
    \A i \in asked :
        i \in passed <=>
            \A j \in passed \cup {i} : j <= i =>
                PerSecond * (Cardinality({k \in passed : j <= k /\ k < i}) + 1)
                    <= PerSecond * config.burst + config.sustained * (frames[i].at - frames[j].at)

Allowed == {i \in 1..Len(frames) : limiter.verdicts[i] = "allow"}
Refused == 1..Len(frames) \ Allowed
OfType(type, S) == {i \in S : frames[i].type = type}

(* A frame is allowed exactly when the curve of all frames and then that   *)
(* of its type have room for it, a frame that its type refuses counting    *)
(* against all others; and one closes the socket exactly when it is the    *)
(* last of strikeLimit refusals within the window.                         *)
(* (rate-limiter.ts:97-105)                                                *)
BucketsKeepTheCurve ==
    /\ \E asked \in SUBSET (1..Len(frames)) :
         /\ Allowed \subseteq asked
         /\ KeepsTheCurve(1..Len(frames), asked, CheckedLimits.global)
         /\ \A type \in CheckedType :
              KeepsTheCurve(OfType(type, asked), OfType(type, Allowed), CheckedLimits.bucket[type])
    /\ \A i \in Refused :
         limiter.verdicts[i] = "close" <=>
             Cardinality({j \in Refused : j <= i /\ frames[i].at - frames[j].at < CheckedLimits.window})
                 >= CheckedLimits.strikeLimit

==============================================================================
