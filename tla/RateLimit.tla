----------------------------- MODULE RateLimit -----------------------------
(***************************************************************************)
(* The limits on the rate of requests, each for one key.                   *)
(*                                                                         *)
(*   redisRateLimiter     Count, Push, Compare, Turn, Trim; the list holds *)
(*                        the times of admissions, the newest first        *)
(*   memoryRateLimiter    Request, and Sweep of clearExpiredItems          *)
(*   isRateLimited        CheckChannel, CountChannel: a channel is used    *)
(*                        five times a minute (model/ability.go)           *)
(*                                                                         *)
(* The commands of a handler to Redis are separate steps, but for the      *)
(* Expire that ends each of its ways.  Every lock is held for one step.    *)
(***************************************************************************)
EXTENDS Integers, FiniteSets, Sequences

CONSTANTS
    Limiters,        \* of "redis", "memory", "channel"
    Handlers,        \* requests handled at the same time
    MaxRequestNum,   \* admissions of a key within the duration
    ChannelLimit,    \* the count up to which a channel is used
    Duration,        \* and the minute of a channel, in ticks
    Expiration,      \* RateLimitKeyExpirationDuration
    MaxClock,        \* bound on the ticks
    MaxHandled       \* bound on the requests

ASSUME LimitAssumption == MaxRequestNum \in Nat \ {0} /\ ChannelLimit \in Nat \ {0}
\* "Shouldn't larger then RateLimitKeyExpirationDuration" (common/constants.go)
ASSUME DurationAssumption == Duration \in Nat \ {0} /\ Expiration \in Nat /\ Duration <= Expiration

ASSUME LimitersAssumption == Limiters \subseteq {"redis", "memory", "channel"}
ASSUME HandlersAssumption == IsFiniteSet(Handlers) /\ Handlers # {}
ASSUME RateBoundsAssumption == MaxClock \in Nat /\ MaxHandled \in Nat

VARIABLES
    limiter,     \* the one looked at
    clock,
    queue,       \* times of admissions: the list at Redis, newest first, or the slice in memory
    touched,     \* time of the last Expire
    window,      \* of the channel: its count, and the time after which it starts again
    handler,     \* where each request is
    handled,     \* requests so far
    recent,      \* history: the times of the admissions within the duration
    decided,     \* history: uses of the channel decided on in its window
    carried,     \* history: uses counted in it that were decided on before
    strain       \* history: what happened to the handlers of Redis

rateVars == <<limiter, clock, queue, touched, window, handler, handled, recent, decided, carried, strain>>
channelCounts == <<window, decided, carried>>

RateInit ==
    /\ limiter \in Limiters
    /\ clock = 0 /\ queue = <<>> /\ touched = 0
    /\ window = [count |-> 0, reset |-> 0]      \* a count of 0: no record yet
    /\ handler = [h \in Handlers |-> "idle"] /\ handled = 0
    /\ recent = <<>>
    /\ decided = 0 /\ carried = 0 /\ strain = {}

\* The times are in order: those that are past the duration are the first k.
Forgets ==
    \E k \in 0..Len(recent) :
        /\ \A i \in 1..Len(recent) : i <= k <=> clock' - recent[i] >= Duration
        /\ recent' = SubSeq(recent, k + 1, Len(recent))

Expires == limiter = "redis" /\ queue # <<>> /\ clock' - touched >= Expiration
UnderWay == \E h \in Handlers : handler[h] # "idle"

\* Time passes, and Redis drops a list that was not touched for long.
TimePasses ==
    /\ clock < MaxClock
    /\ clock' = clock + 1
    /\ queue' = IF Expires THEN <<>> ELSE queue
    /\ Forgets
    /\ strain' = strain \cup {x \in {"lapsed"} : Expires /\ UnderWay}
    /\ UNCHANGED <<limiter, touched, channelCounts, handler, handled>>

Moves(h, pc) == handler' = [handler EXCEPT ![h] = pc]
Arrives(h) ==
    /\ handler[h] = "idle" /\ handled < MaxHandled
    /\ handled' = handled + 1
    /\ strain' = strain \cup {x \in {"overlap"} : UnderWay}
Admitted == recent' = Append(recent, clock)
-----------------------------------------------------------------------------
(* redisRateLimiter                                                        *)

\* Mutant of Room: one more is let in.
RoomForOneMore(n) == n <= MaxRequestNum

Room(n) == n < MaxRequestNum

\* LLen.
Count(h) ==
    /\ limiter = "redis" /\ Arrives(h)
    /\ Moves(h, IF Room(Len(queue)) THEN "push" ELSE "compare")
    /\ UNCHANGED <<limiter, clock, queue, touched, channelCounts, recent>>

\* LPush and Expire; the request goes on even if they fail.
Push(h) ==
    /\ handler[h] = "push" /\ Moves(h, "idle")
    /\ \/ queue' = <<clock>> \o queue /\ touched' = clock /\ UNCHANGED strain
       \/ UNCHANGED <<queue, touched>> /\ strain' = strain \cup {"unrecorded"}
    /\ Admitted
    /\ UNCHANGED <<limiter, clock, channelCounts, handled>>

\* LIndex of -1.
Oldest(q) == q[Len(q)]

\* A list that is gone answers no time, and the request is aborted.
Compare(h) ==
    /\ handler[h] = "compare"
    /\ IF queue = <<>> THEN Moves(h, "idle") /\ UNCHANGED touched
       ELSE IF clock - Oldest(queue) < Duration THEN Moves(h, "idle") /\ touched' = clock
       ELSE Moves(h, "turn") /\ UNCHANGED touched
    /\ UNCHANGED <<limiter, clock, queue, channelCounts, handled, recent, strain>>

Turn(h) ==
    /\ handler[h] = "turn" /\ Moves(h, "trim")
    /\ queue' = <<clock>> \o queue
    /\ Admitted
    /\ UNCHANGED <<limiter, clock, touched, channelCounts, handled, strain>>

\* LTrim, and Expire.
Trim(h) ==
    /\ handler[h] = "trim" /\ Moves(h, "idle")
    /\ queue' = SubSeq(queue, 1, IF Len(queue) < MaxRequestNum THEN Len(queue) ELSE MaxRequestNum)
    /\ touched' = clock
    /\ UNCHANGED <<limiter, clock, channelCounts, handled, recent, strain>>
-----------------------------------------------------------------------------
(* memoryRateLimiter, under its mutex                                      *)

Request ==
    /\ limiter = "memory" /\ handled < MaxHandled
    /\ handled' = handled + 1
    /\ \/ /\ Len(queue) < MaxRequestNum
          /\ queue' = Append(queue, clock) /\ Admitted
       \/ /\ Len(queue) >= MaxRequestNum /\ clock - queue[1] >= Duration
          /\ queue' = Append(Tail(queue), clock) /\ Admitted
       \/ /\ Len(queue) >= MaxRequestNum /\ clock - queue[1] < Duration
          /\ UNCHANGED <<queue, recent>>
    /\ UNCHANGED <<limiter, clock, touched, channelCounts, handler, strain>>

\* One round of clearExpiredItems.
Sweep ==
    /\ limiter = "memory" /\ queue # <<>>
    /\ clock - queue[Len(queue)] > Expiration
    /\ queue' = <<>>
    /\ UNCHANGED <<limiter, clock, touched, channelCounts, handler, handled, recent, strain>>
-----------------------------------------------------------------------------
(* isRateLimited                                                           *)

Fresh == [count |-> 1, reset |-> clock + Duration]
Over == window.count = 0 \/ clock > window.reset
Counted == [window EXCEPT !.count = @ + 1]

\* checkRateLimit.
CheckChannel(h) ==
    /\ limiter = "channel" /\ Arrives(h)
    /\ \/ Over /\ window' = Fresh /\ decided' = 1 /\ carried' = 0 /\ Moves(h, "count")
       \/ /\ ~Over /\ window.count < ChannelLimit
          /\ window' = Counted /\ decided' = decided + 1 /\ Moves(h, "count") /\ UNCHANGED carried
       \/ ~Over /\ window.count >= ChannelLimit /\ UNCHANGED <<channelCounts, handler>>
    /\ UNCHANGED <<limiter, clock, queue, touched, recent>>

\* updateRateLimitStatus, which counts the use again.
CountChannel(h) ==
    /\ handler[h] = "count" /\ Moves(h, "idle")
    /\ IF Over THEN window' = Fresh /\ decided' = 0 /\ carried' = 1
       ELSE window' = Counted /\ carried' = carried + 1 /\ UNCHANGED decided
    /\ UNCHANGED <<limiter, clock, queue, touched, handled, recent, strain>>

RateNext ==
    \/ TimePasses
    \/ \E h \in Handlers : Count(h) \/ Push(h) \/ Compare(h) \/ Turn(h) \/ Trim(h)
    \/ Request \/ Sweep
    \/ \E h \in Handlers : CheckChannel(h) \/ CountChannel(h)

RateSpec == RateInit /\ [][RateNext]_rateVars
-----------------------------------------------------------------------------
RateTypeOK ==
    /\ limiter \in Limiters /\ clock \in 0..MaxClock /\ touched \in 0..MaxClock
    /\ queue \in Seq(0..MaxClock) /\ recent \in Seq(0..MaxClock)
    /\ window \in [count : Nat, reset : Nat]
    /\ handler \in [Handlers -> {"idle", "push", "compare", "turn", "trim", "count"}]
    /\ decided \in Nat /\ carried \in Nat /\ handled \in 0..MaxHandled
    /\ strain \subseteq {"overlap", "lapsed", "unrecorded"}

Overlaps == Cardinality(Handlers) - 1

\* No more are admitted within the duration than the limit says: by the mutex
\* never, by the commands to Redis unless handlers overlap, a list expires under
\* one, or an admission is not recorded.  Each overlap lets through the others
\* that run; and as a handler with room does not trim the list, its oldest time
\* lets a second overlap happen within the duration, but no third one.
WindowKept ==
    /\ limiter = "memory" \/ strain = {} => Len(recent) <= MaxRequestNum
    /\ limiter = "redis" /\ strain \subseteq {"overlap"} => Len(recent) <= MaxRequestNum + 2 * Overlaps

\* A channel is used at most ChannelLimit times in a window, and is refused only
\* if it was counted so often, every use twice: after half of it, or less with
\* uses of the window before.
ChannelKept ==
    /\ decided <= ChannelLimit
    /\ window.count <= 2 * decided + carried
    /\ carried <= decided + Cardinality(Handlers)

\* Both limits (middleware/rate-limit.go, model/ability.go).
LimitKept == IF limiter = "channel" THEN ChannelKept ELSE WindowKept
=============================================================================
