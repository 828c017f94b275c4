---------------------------- MODULE RelayBilling ----------------------------
(***************************************************************************)
(* How a relayed request is paid for: relay/controller/helper.go (text),   *)
(* claude.go, audio.go and image.go, with the cached quota of              *)
(* model/cache.go and PreConsumeTokenQuota and PostConsumeTokenQuota of    *)
(* model/token.go.                                                         *)
(*                                                                         *)
(*   admission    Get, Set, Admit, Lower, LowerAgain                       *)
(*   hold         CheckToken, CheckUser, TakeToken, TakeUser               *)
(*   upstream     Abandon, NilUsage, Reject, Answer                        *)
(*   settlement   (Get, Set,) SettleUser, SettleToken, (Lower, LowerAgain) *)
(*   return       ReturnUser, ReturnToken                                  *)
(*                                                                         *)
(* Handlers, settlement goroutines and return goroutines of all requests   *)
(* interleave; every action is one round trip to the database or Redis.    *)
(* A debit of a user is one step that takes all or nothing, which module   *)
(* UserQuota shows of decreaseUserQuota; BATCH_UPDATE_ENABLED is off.      *)
(***************************************************************************)
EXTENDS Integers, FiniteSets, Functions

CONSTANTS
    Users, Tokens, Requests,
    Owner,          \* [Tokens -> Users]
    Unlimited,      \* the tokens with unlimited_quota
    Sizes,          \* estimates and final costs
    InitialQuota,   \* users.quota at the start
    InitialRemain,  \* tokens.remain_quota at the start
    Threshold,      \* config.PreConsumedQuota: a lower cached quota is refetched
    TrustFactor,    \* 100: no hold when the quota exceeds so many estimates
    FirstCache,     \* the user_quota:<id> keys at the start: an amount, NoKey, NoRedis
    KeysExpire,     \* their TTL may run out
    NoKey, NoRedis

ASSUME OwnerAssumption == Owner \in [Tokens -> Users]
ASSUME AmountsAssumption ==
    /\ Sizes \subseteq Nat /\ 0 \in Sizes
    /\ InitialQuota \in Nat /\ InitialRemain \in Nat
    /\ Threshold \in Int /\ TrustFactor \in Nat
ASSUME FlagsAssumption ==
    /\ FirstCache \subseteq Int \cup {NoKey, NoRedis} /\ KeysExpire \in BOOLEAN
    /\ NoKey \notin Int /\ NoRedis \notin Int /\ NoKey # NoRedis
\* The keys at the start were read from the table.
ASSUME KeysAssumption == \A c \in FirstCache : c \in Int => c <= InitialQuota
ASSUME SomeTokenAssumption == Tokens # {}
ASSUME FiniteAssumption == IsFiniteSet(Requests)

VARIABLES
    quota,          \* users.quota
    remain, used,   \* tokens.remain_quota and used_quota
    cache,          \* the Redis keys user_quota:<id>, NoRedis without Redis
    job             \* the requests, with their settlement or return goroutine

vars == <<quota, remain, used, cache, job>>

Kinds == {"text", "audio", "image"}
Ended == {"refused", "abandoned", "uncharged", "lost", "returned", "done", "crashed"}
Running == {"get", "set", "admit", "lower", "setLower", "lowerAgain",
            "checkToken", "checkUser", "takeToken", "takeUser", "upstream",
            "settleUser", "settleToken", "returnUser", "returnToken"}
Paid == {"nothing", "hold", "cost"}

Job == [pc : Ended \cup {"idle"} \cup Running,
        kind : Kinds, token : Tokens,
        pre : Sizes,               \* the estimate
        seen : Int,                \* userQuota as the admission read it
        read : Int,                \* a quota read from the database, to be cached
        hold : Sizes,              \* preConsumedQuota after the admission
        cost : Sizes,              \* the final quota
        settling : BOOLEAN,        \* in the settlement
        lowered : BOOLEAN,         \* which has lowered the cached quota
        paid : Paid,               \* what the user has been debited for
        tokenPaid : Paid]          \* what the token has been debited for

TypeOK ==
    /\ quota \in [Users -> Int]
    /\ remain \in [Tokens -> Int]
    /\ used \in [Tokens -> Int]
    /\ cache \in [Users -> Int \cup {NoKey, NoRedis}]
    /\ job \in [Requests -> Job]

NewJob(kind, t, q) ==
    [pc |-> "get", kind |-> kind, token |-> t, pre |-> q, seen |-> 0, read |-> 0, hold |-> 0,
     cost |-> 0, settling |-> FALSE, lowered |-> FALSE, paid |-> "nothing",
     tokenPaid |-> "nothing"]

Init ==
    /\ quota = [u \in Users |-> InitialQuota]
    /\ remain = [t \in Tokens |-> InitialRemain]
    /\ used = [t \in Tokens |-> 0]
    /\ \E c \in FirstCache : cache = [u \in Users |-> c]
    /\ \E t \in Tokens :
          job = [r \in Requests |-> [NewJob("text", t, 0) EXCEPT !.pc = "idle"]]

UserOf(r) == Owner[job[r].token]

\* Request r goes on as k; nothing else changes.
Goes(r, k) == job' = [job EXCEPT ![r] = k]
Only(r, k) == Goes(r, k) /\ UNCHANGED <<quota, remain, used, cache>>
At(k, pc) == [k EXCEPT !.pc = pc]

Begin(r) ==
    /\ job[r].pc = "idle"
    /\ \E kind \in Kinds, t \in Tokens, q \in Sizes : Only(r, NewJob(kind, t, q))
-----------------------------------------------------------------------------
(* The cached quota                                                        *)

\* CacheGetUserQuota returned v: to the admission, or to the settlement of a
\* text request, which only logs it.
Got(k, v) == IF k.settling THEN At(k, "settleUser") ELSE [At(k, "admit") EXCEPT !.seen = v]

\* common.RedisEnabled
RedisEnabled(u) == cache[u] # NoRedis

KeyExists(u) == RedisEnabled(u) /\ cache[u] # NoKey

Fresh(u) == KeyExists(u) /\ cache[u] > Threshold

Get(r) ==
    LET k == job[r]
        u == UserOf(r)
    IN /\ k.pc = "get"
       /\ \/ ~RedisEnabled(u) /\ Only(r, Got(k, quota[u]))
          \/ Fresh(u) /\ Only(r, Got(k, cache[u]))
          \/ RedisEnabled(u) /\ ~Fresh(u) /\ Only(r, [At(k, "set") EXCEPT !.read = quota[u]])

\* A read that failed: the admission refuses, the settlement goes on.
GetError(r) ==
    /\ job[r].pc = "get"
    /\ Only(r, IF job[r].settling THEN At(job[r], "settleUser") ELSE At(job[r], "refused"))

\* Mutant of Fetched: a refetched value is looked up again.
FetchedAgain(k) == IF k.pc = "setLower" THEN At(k, "lowerAgain") ELSE At(k, "get")

\* fetchAndUpdateUserQuota returns.
Fetched(k) == IF k.pc = "setLower" THEN At(k, "lowerAgain") ELSE Got(k, k.read)

\* The SET of fetchAndUpdateUserQuota; its failure is only logged.
Set(r) ==
    /\ job[r].pc \in {"set", "setLower"}
    /\ \E v \in {job[r].read, cache[UserOf(r)]} : cache' = [cache EXCEPT ![UserOf(r)] = v]
    /\ Goes(r, Fetched(job[r]))
    /\ UNCHANGED <<quota, remain, used>>

Admit(r) ==
    LET k == job[r]
    IN /\ k.pc = "admit"
       /\ \/ k.seen - k.pre < 0 /\ Only(r, At(k, "refused"))
          \/ /\ k.seen - k.pre >= 0
             /\ Only(r, At(k, IF k.kind = "image" THEN "upstream" ELSE "lower"))

\* Mutant of Delta: the hold is forgotten.
DeltaWithoutHold(k) == k.cost

\* quotaDelta
Delta(k) == k.cost - k.hold

\* Mutant of Amount: the admission lowers the cache by the hold so far, 0.
AmountHeld(k) == IF k.settling THEN Delta(k) ELSE k.hold

\* What CacheDecreaseUserQuota subtracts: the whole estimate at the admission,
\* even if nothing is held afterwards.
Amount(k) == IF k.settling THEN Delta(k) ELSE k.pre

\* Nothing is held from a user who has plenty.
Held(k) == IF k.seen > TrustFactor * k.pre THEN 0 ELSE k.pre

\* After CacheDecreaseUserQuota: the end of the settlement, or the hold.
Lowered(k) ==
    IF k.settling THEN At(k, "done")
    ELSE [At(k, IF Held(k) > 0 THEN "checkToken" ELSE "upstream") EXCEPT !.hold = Held(k)]

\* An error: the admission refuses, the settlement only logs it.
NotLowered(k) == IF k.settling THEN At(k, "done") ELSE At(k, "refused")

Decrease(r) ==
    LET u == UserOf(r)
    IN /\ KeyExists(u)
       /\ cache' = [cache EXCEPT ![u] = @ - Amount(job[r])]
       /\ Goes(r, [Lowered(job[r]) EXCEPT !.lowered = job[r].settling])
       /\ UNCHANGED <<quota, remain, used>>

\* A missing key is fetched first, then decreased again.
Lower(r) ==
    LET k == job[r]
        u == UserOf(r)
    IN /\ k.pc = "lower"
       /\ \/ ~RedisEnabled(u) /\ Only(r, Lowered(k))
          \/ Decrease(r)
          \/ cache[u] = NoKey /\ Only(r, [At(k, "setLower") EXCEPT !.read = quota[u]])
          \/ RedisEnabled(u) /\ Only(r, NotLowered(k))

LowerAgain(r) ==
    /\ job[r].pc = "lowerAgain"
    /\ Decrease(r) \/ Only(r, NotLowered(job[r]))

Expire(u) ==
    /\ KeysExpire
    /\ KeyExists(u)
    /\ cache' = [cache EXCEPT ![u] = NoKey]
    /\ UNCHANGED <<quota, remain, used, job>>
-----------------------------------------------------------------------------
(* PreConsumeTokenQuota                                                    *)

CheckToken(r) ==
    LET k == job[r]
        enough == k.token \in Unlimited \/ remain[k.token] >= k.hold
    IN /\ k.pc = "checkToken"
       /\ \/ enough /\ Only(r, At(k, "checkUser"))
          \/ Only(r, At(k, "refused"))          \* not enough, or an error

CheckUser(r) ==
    LET k == job[r]
    IN /\ k.pc = "checkUser"
       /\ \/ /\ quota[UserOf(r)] >= k.hold
             /\ Only(r, At(k, IF k.token \in Unlimited THEN "takeUser" ELSE "takeToken"))
          \/ Only(r, At(k, "refused"))

\* Mutant of TokenDebit: used_quota is left alone.
TokenDebitHalf(t, n) ==
    /\ remain' = [remain EXCEPT ![t] = @ - n]
    /\ UNCHANGED used

\* The columns of token t after a debit of n (a credit when n < 0).
TokenDebit(t, n) ==
    /\ remain' = [remain EXCEPT ![t] = @ - n]
    /\ used' = [used EXCEPT ![t] = @ + n]

\* DecreaseTokenQuota does not check the balance; it fails when the version
\* changed between its read and its write twice in a row, or on an error.
TakeToken(r) ==
    LET k == job[r]
    IN /\ k.pc = "takeToken"
       /\ \/ /\ TokenDebit(k.token, k.hold)
             /\ Goes(r, [At(k, "takeUser") EXCEPT !.tokenPaid = "hold"])
             /\ UNCHANGED <<quota, cache>>
          \/ Only(r, At(k, "refused"))

\* Mutant of Covers: the debit does not check the balance.
CoversAnyway(u, n) == TRUE

\* The check of decreaseUserQuota.
Covers(u, n) == quota[u] >= n

\* DecreaseUserQuota; when it fails the token stays debited.
TakeUser(r) ==
    LET k == job[r]
    IN /\ k.pc = "takeUser"
       /\ \/ /\ Covers(UserOf(r), k.hold)
             /\ quota' = [quota EXCEPT ![UserOf(r)] = @ - k.hold]
             /\ Goes(r, [At(k, "upstream") EXCEPT !.paid = "hold"])
             /\ UNCHANGED <<remain, used, cache>>
          \/ Only(r, At(k, "refused"))
-----------------------------------------------------------------------------
(* The provider                                                            *)

\* Every return without ReturnPreConsumedQuota: no adaptor, a body that cannot
\* be read or converted, a DoRequest that failed.
Abandon(r) ==
    /\ job[r].pc = "upstream"
    /\ Only(r, At(job[r], "abandoned"))

\* A nil usage, of which postConsumeQuota only logs that it is unexpected.
NilUsage(r) ==
    /\ job[r].pc = "upstream"
    /\ job[r].kind = "text"
    /\ Only(r, At(job[r], "uncharged"))

\* A status that is not 200, or a response that cannot be read: text and Claude
\* requests give the hold back in a goroutine, images have none.  Audio requests
\* settle all the same.
Reject(r) ==
    /\ job[r].pc = "upstream"
    /\ job[r].kind # "audio"
    /\ Only(r, At(job[r], IF job[r].hold = 0 THEN "returned" ELSE "returnUser"))

\* The response was sent; the settlement starts.  A text answer of zero tokens
\* costs 0, an image costs what was estimated.
Answer(r) ==
    LET k == job[r]
    IN /\ k.pc = "upstream"
       /\ \E n \in IF k.kind = "image" THEN {k.pre} ELSE Sizes :
             Only(r, [At(k, IF k.kind = "text" THEN "get" ELSE "settleUser")
                         EXCEPT !.settling = TRUE, !.cost = n])
-----------------------------------------------------------------------------
(* PostConsumeTokenQuota: of the difference, and of minus the hold         *)

\* A difference that is not positive is credited unconditionally; one that the
\* user cannot cover leaves user and token alone.
SettleUser(r) ==
    LET k == job[r]
        u == UserOf(r)
    IN /\ k.pc = "settleUser"
       /\ \/ /\ Delta(k) > 0 => Covers(u, Delta(k))
             /\ quota' = [quota EXCEPT ![u] = @ - Delta(k)]
             /\ Goes(r, [At(k, IF k.token \in Unlimited THEN "lower" ELSE "settleToken")
                            EXCEPT !.paid = "cost"])
             /\ UNCHANGED <<remain, used, cache>>
          \/ Only(r, At(k, "lower"))

SettleToken(r) ==
    LET k == job[r]
    IN /\ k.pc = "settleToken"
       /\ \/ /\ TokenDebit(k.token, Delta(k))
             /\ Goes(r, [At(k, "lower") EXCEPT !.tokenPaid = "cost"])
             /\ UNCHANGED <<quota, cache>>
          \/ Only(r, At(k, "lower"))

\* ReturnPreConsumedQuota; the cached quota is not raised again.
ReturnUser(r) ==
    LET k == job[r]
    IN /\ k.pc = "returnUser"
       /\ \/ /\ quota' = [quota EXCEPT ![UserOf(r)] = @ + k.hold]
             /\ Goes(r, [At(k, IF k.token \in Unlimited THEN "returned" ELSE "returnToken")
                            EXCEPT !.paid = "nothing"])
             /\ UNCHANGED <<remain, used, cache>>
          \/ Only(r, At(k, "lost"))

ReturnToken(r) ==
    LET k == job[r]
    IN /\ k.pc = "returnToken"
       /\ \/ /\ TokenDebit(k.token, -k.hold)
             /\ Goes(r, [At(k, "returned") EXCEPT !.tokenPaid = "nothing"])
             /\ UNCHANGED <<quota, cache>>
          \/ Only(r, At(k, "lost"))
-----------------------------------------------------------------------------
\* The process dies: handlers and goroutines are gone, the database and Redis stay.
Crash ==
    /\ \E r \in Requests : job[r].pc \in Running
    /\ job' = [r \in Requests |->
          IF job[r].pc \in Running THEN At(job[r], "crashed") ELSE job[r]]
    /\ UNCHANGED <<quota, remain, used, cache>>

Admission(r) == Begin(r) \/ Admit(r) \/ CheckToken(r) \/ CheckUser(r) \/ TakeToken(r) \/ TakeUser(r)
Provider(r) == Abandon(r) \/ NilUsage(r) \/ Reject(r) \/ Answer(r)
Caching(r) == Get(r) \/ GetError(r) \/ Set(r) \/ Lower(r) \/ LowerAgain(r)
Settling(r) == SettleUser(r) \/ SettleToken(r) \/ ReturnUser(r) \/ ReturnToken(r)

Next ==
    \/ \E r \in Requests : Admission(r) \/ Provider(r) \/ Caching(r) \/ Settling(r)
    \/ \E u \in Users : Expire(u)
    \/ Crash

Spec == Init /\ [][Next]_vars

\* The goroutines run on: they wait for nobody but the database and Redis.
FairSpec == Spec /\ \A r \in Requests : WF_vars(Caching(r) \/ Settling(r))
-----------------------------------------------------------------------------
(* Properties                                                              *)

\* The admission decides on a cached quota that may be stale, the hold on a
\* read that may be stale, the settlement on nothing: a user never ends up
\* below zero all the same.
NoOverdraft == \A u \in Users : quota[u] >= 0

Value(k, paid) == CASE paid = "nothing" -> 0 [] paid = "hold" -> k.hold [] paid = "cost" -> k.cost

\* remain_quota and used_quota of a token move together.
TokenBalanced == \A t \in Tokens : remain[t] + used[t] = InitialRemain

\* What the requests of user u, and those with token t, were debited for.
Debited(u) ==
    SumFunction([r \in Requests |-> IF UserOf(r) = u THEN Value(job[r], job[r].paid) ELSE 0])
TokenDebited(t) ==
    SumFunction([r \in Requests |->
                    IF job[r].token = t THEN Value(job[r], job[r].tokenPaid) ELSE 0])

\* Whatever the interleaving, error or crash, user and token have been debited
\* by exactly what each request still holds or has settled: a hold and the
\* settlement that follows add up to the cost, a hold and its return to nothing.
LedgerByOutcome ==
    /\ \A u \in Users : InitialQuota - quota[u] = Debited(u)
    /\ TokenBalanced
    /\ \A t \in Tokens : used[t] = TokenDebited(t)

\* As long as the cached quota is not refreshed it errs on the low side: it exceeds the
\* quota by at most the settlements that debited the user and did not lower the
\* cache (they are about to, died, or could not reach Redis), or that raised
\* the cache by an unused part of a hold that the database refused to credit.
Ahead(k) ==
    CASE k.paid = "cost" /\ ~k.lowered /\ Delta(k) > 0 -> Delta(k)
      [] k.paid = "hold" /\ k.lowered /\ Delta(k) < 0 -> -Delta(k)
      [] OTHER -> 0
Refreshing == \E r \in Requests : job[r].pc \in {"set", "setLower"}
CacheLow ==
    \A u \in Users : KeyExists(u) =>
        cache[u] <= quota[u] + SumFunction([r \in Requests |->
                                               IF UserOf(r) = u THEN Ahead(job[r]) ELSE 0])
CacheErrsLow == []~Refreshing => []CacheLow

\* "must be some error happened, we cannot just return, because we may have to
\* return the pre-consumed quota" (helper.go): a request that ends in an error
\* without a charge keeps no hold.
HoldsGivenBack ==
    \A r \in Requests : job[r].pc \in {"abandoned", "uncharged"} => job[r].paid # "hold"

\* Once the provider has answered or refused, the settlement or the return ends.
SettlementEnds ==
    \A r \in Requests : (job[r].settling \/ job[r].pc = "returnUser") ~> job[r].pc \in Ended
=============================================================================
