------------------------- MODULE RelayBillingProofs -------------------------
(***************************************************************************)
(* Theorems about RelayBilling, for any number of users, tokens, requests  *)
(* and any amounts: types, no overdraft, the balance of the tokens, the    *)
(* ledger by the outcomes of the requests, and the cached quota.           *)
(*                                                                         *)
(* NoOverdraft and TokenBalanced are inductive together with TypeOK.  The  *)
(* ledger needs to know how much each stage of a request has paid (Stages),*)
(* the cache how far each request puts it ahead of the column or behind    *)
(* it (Slack); both are sums of which a step changes one entry.            *)
(***************************************************************************)
EXTENDS RelayBilling, Sums, TLAPS

IInv == TypeOK /\ NoOverdraft /\ TokenBalanced

(* The columns of the database are as the invariant says.                  *)
Rows == /\ quota \in [Users -> Int] /\ NoOverdraft
        /\ remain \in [Tokens -> Int] /\ used \in [Tokens -> Int] /\ TokenBalanced
Keys == cache \in [Users -> Int \cup {NoKey, NoRedis}]
Jobs == job \in [Requests -> Job]

LEMMA Split == IInv <=> Rows /\ Keys /\ Jobs
  BY DEF IInv, Rows, Keys, Jobs, TypeOK

-----------------------------------------------------------------------------
(* The helpers on jobs.                                                    *)

LEMMA AtType ==
  ASSUME NEW k \in Job, NEW pc \in Ended \cup {"idle"} \cup Running
  PROVE  At(k, pc) \in Job
  BY DEF At, Job

LEMMA NewJobType ==
  ASSUME NEW kind \in Kinds, NEW t \in Tokens, NEW q \in Sizes
  PROVE  NewJob(kind, t, q) \in Job
  BY AmountsAssumption DEF NewJob, Job, Running, Paid

LEMMA AmountTypes ==
  ASSUME NEW k \in Job
  PROVE  /\ Delta(k) \in Int /\ Amount(k) \in Int
         /\ k.hold \in Nat /\ k.cost \in Nat /\ k.pre \in Nat
         /\ k.seen \in Int /\ k.read \in Int
         /\ k.token \in Tokens
<1>1. /\ k.hold \in Sizes /\ k.cost \in Sizes /\ k.pre \in Sizes
      /\ k.seen \in Int /\ k.read \in Int
      /\ k.token \in Tokens
  BY DEF Job
<1>2. k.hold \in Nat /\ k.cost \in Nat /\ k.pre \in Nat
  BY <1>1, AmountsAssumption
<1>3. Delta(k) \in Int
  BY <1>2 DEF Delta
<1>4. Amount(k) \in Int
  BY <1>2, <1>3 DEF Amount
<1>5. QED
  BY <1>1, <1>2, <1>3, <1>4

LEMMA GotType ==
  ASSUME NEW k \in Job, NEW v \in Int
  PROVE  Got(k, v) \in Job
  BY DEF Got, At, Job, Running

LEMMA FetchedType ==
  ASSUME NEW k \in Job
  PROVE  Fetched(k) \in Job
<1>1. At(k, "lowerAgain") \in Job
  BY AtType DEF Running
<1>2. Got(k, k.read) \in Job
  BY GotType, AmountTypes
<1>3. QED
  BY <1>1, <1>2 DEF Fetched

LEMMA LoweredType ==
  ASSUME NEW k \in Job, NEW b \in BOOLEAN
  PROVE  /\ Lowered(k) \in Job
         /\ [Lowered(k) EXCEPT !.lowered = b] \in Job
         /\ NotLowered(k) \in Job
<1>1. At(k, "done") \in Job /\ At(k, "refused") \in Job
  BY AtType DEF Ended
<1>2. Held(k) \in Sizes
  BY AmountsAssumption DEF Held, Job
<1>3. At(k, IF Held(k) > 0 THEN "checkToken" ELSE "upstream") \in Job
  BY AtType DEF Running
<1>4. [At(k, IF Held(k) > 0 THEN "checkToken" ELSE "upstream") EXCEPT !.hold = Held(k)] \in Job
  BY <1>2, <1>3 DEF Job
<1>5. Lowered(k) \in Job
  BY <1>1, <1>4 DEF Lowered
<1>6. [Lowered(k) EXCEPT !.lowered = b] \in Job
  BY <1>5 DEF Job
<1>7. NotLowered(k) \in Job
  BY <1>1 DEF NotLowered
<1>8. QED
  BY <1>5, <1>6, <1>7

LEMMA GoesType ==
  ASSUME Jobs, NEW r \in Requests, NEW k \in Job, Goes(r, k)
  PROVE  Jobs'
  BY DEF Jobs, Goes

(* A step that only moves a job.                                           *)
LEMMA OnlyKeeps ==
  ASSUME IInv, NEW r \in Requests, NEW k \in Job, Only(r, k)
  PROVE  IInv'
<1>1. Jobs'
  BY GoesType, Split DEF Only
<1>2. Rows' /\ Keys'
  BY Split DEF Only, Rows, Keys, NoOverdraft, TokenBalanced
<1>3. QED
  BY <1>1, <1>2, Split DEF IInv, Rows, Keys, Jobs, TypeOK

LEMMA UserOfType ==
  ASSUME Jobs, NEW r \in Requests
  PROVE  job[r] \in Job /\ UserOf(r) \in Users /\ job[r].token \in Tokens
  BY OwnerAssumption DEF Jobs, Job, UserOf

(* A debit the balance covers, or a credit (a debit of n <= 0).            *)
LEMMA UserDebit ==
  ASSUME Rows, NEW u \in Users, NEW n \in Int, n > 0 => quota[u] >= n,
         quota' = [quota EXCEPT ![u] = @ - n], UNCHANGED <<remain, used>>
  PROVE  Rows'
  BY DEF Rows, NoOverdraft, TokenBalanced

LEMMA TokenMoves ==
  ASSUME Rows, NEW t \in Tokens, NEW n \in Int, TokenDebit(t, n), UNCHANGED quota
  PROVE  Rows'
  BY AmountsAssumption DEF Rows, NoOverdraft, TokenBalanced, TokenDebit

LEMMA KeepKeys ==
  ASSUME Keys, UNCHANGED cache
  PROVE  Keys'
  BY DEF Keys

LEMMA Joined ==
  ASSUME Rows', Keys', Jobs'
  PROVE  IInv'
  BY DEF IInv, Rows, Keys, Jobs, TypeOK

-----------------------------------------------------------------------------
(* The steps.                                                              *)

LEMMA InitInv == Init => IInv
<1>1. SUFFICES ASSUME Init PROVE IInv
  OBVIOUS
<1>2. Rows
  BY <1>1, AmountsAssumption DEF Init, Rows, NoOverdraft, TokenBalanced
<1>3. Keys
  BY <1>1, FlagsAssumption DEF Init, Keys
<1>4. PICK t \in Tokens :
         job = [r \in Requests |-> [NewJob("text", t, 0) EXCEPT !.pc = "idle"]]
  BY <1>1 DEF Init
<1>5. At(NewJob("text", t, 0), "idle") \in Job
  BY AtType, NewJobType, AmountsAssumption DEF Kinds
<1>6. Jobs
  BY <1>4, <1>5 DEF Jobs, At
<1>7. QED
  BY <1>2, <1>3, <1>6, Split

LEMMA AdmissionInv ==
  ASSUME IInv, NEW r \in Requests, Admission(r)
  PROVE  IInv'
<1> DEFINE k == job[r]
<1>0. Rows /\ Keys /\ Jobs /\ k \in Job /\ UserOf(r) \in Users /\ k.token \in Tokens
  BY Split, UserOfType
<1>1. /\ At(k, "refused") \in Job /\ At(k, "lower") \in Job /\ At(k, "upstream") \in Job
      /\ At(k, "checkUser") \in Job /\ At(k, "takeUser") \in Job /\ At(k, "takeToken") \in Job
  BY <1>0, AtType DEF Ended, Running
<1>2. CASE Begin(r)
  BY <1>2, OnlyKeeps, NewJobType DEF Begin
<1>3. CASE Admit(r)
  BY <1>1, <1>3, OnlyKeeps DEF Admit
<1>4. CASE CheckToken(r)
  BY <1>1, <1>4, OnlyKeeps DEF CheckToken
<1>5. CASE CheckUser(r)
  BY <1>1, <1>5, OnlyKeeps DEF CheckUser
<1>6. CASE TakeToken(r)
  <2>1. CASE Only(r, At(k, "refused"))
    BY <1>1, <2>1, OnlyKeeps
  <2>2. CASE /\ TokenDebit(k.token, k.hold)
             /\ Goes(r, [At(k, "takeUser") EXCEPT !.tokenPaid = "hold"])
             /\ UNCHANGED <<quota, cache>>
    <3>1. [At(k, "takeUser") EXCEPT !.tokenPaid = "hold"] \in Job
      BY <1>1 DEF Job, Paid
    <3>2. Jobs' /\ Keys'
      BY <1>0, <2>2, <3>1, GoesType, KeepKeys
    <3>3. k.hold \in Int
      BY <1>0, AmountTypes
    <3>4. Rows'
      BY <1>0, <2>2, <3>3, TokenMoves
    <3>5. QED
      BY <3>2, <3>4, Joined
  <2>3. QED
    BY <1>6, <2>1, <2>2 DEF TakeToken
<1>7. CASE TakeUser(r)
  <2>1. CASE Only(r, At(k, "refused"))
    BY <1>1, <2>1, OnlyKeeps
  <2>2. CASE /\ Covers(UserOf(r), k.hold)
             /\ quota' = [quota EXCEPT ![UserOf(r)] = @ - k.hold]
             /\ Goes(r, [At(k, "upstream") EXCEPT !.paid = "hold"])
             /\ UNCHANGED <<remain, used, cache>>
    <3>1. [At(k, "upstream") EXCEPT !.paid = "hold"] \in Job
      BY <1>1 DEF Job, Paid
    <3>2. Jobs' /\ Keys'
      BY <1>0, <2>2, <3>1, GoesType, KeepKeys
    <3>3. k.hold \in Int
      BY <1>0, AmountTypes
    <3>4. Rows'
      BY <1>0, <2>2, <3>3, UserDebit DEF Covers
    <3>5. QED
      BY <3>2, <3>4, Joined
  <2>3. QED
    BY <1>7, <2>1, <2>2 DEF TakeUser
<1>8. QED
  BY <1>2, <1>3, <1>4, <1>5, <1>6, <1>7 DEF Admission

LEMMA ProviderInv ==
  ASSUME IInv, NEW r \in Requests, Provider(r)
  PROVE  IInv'
<1> DEFINE k == job[r]
<1>0. k \in Job
  BY Split, UserOfType
<1>1. /\ At(k, "abandoned") \in Job /\ At(k, "uncharged") \in Job /\ At(k, "returned") \in Job
      /\ At(k, "returnUser") \in Job /\ At(k, "get") \in Job /\ At(k, "settleUser") \in Job
  BY <1>0, AtType DEF Ended, Running
<1>2. CASE Abandon(r) \/ NilUsage(r) \/ Reject(r)
  BY <1>1, <1>2, OnlyKeeps DEF Abandon, NilUsage, Reject
<1>3. CASE Answer(r)
  <2>1. PICK n \in IF k.kind = "image" THEN {k.pre} ELSE Sizes :
           Only(r, [At(k, IF k.kind = "text" THEN "get" ELSE "settleUser")
                       EXCEPT !.settling = TRUE, !.cost = n])
    BY <1>3 DEF Answer
  <2>2. n \in Sizes
    BY <1>0 DEF Job
  <2>3. At(k, IF k.kind = "text" THEN "get" ELSE "settleUser") \in Job
    BY <1>1
  <2>4. [At(k, IF k.kind = "text" THEN "get" ELSE "settleUser")
            EXCEPT !.settling = TRUE, !.cost = n] \in Job
    BY <2>2, <2>3 DEF Job
  <2>5. QED
    BY <2>1, <2>4, OnlyKeeps
<1>4. QED
  BY <1>2, <1>3 DEF Provider

LEMMA DecreaseInv ==
  ASSUME IInv, NEW r \in Requests, Decrease(r)
  PROVE  IInv'
<1>0. Rows /\ Keys /\ Jobs /\ job[r] \in Job /\ UserOf(r) \in Users
  BY Split, UserOfType
<1>1. Rows'
  BY <1>0 DEF Decrease, Rows, NoOverdraft, TokenBalanced
<1>2. [Lowered(job[r]) EXCEPT !.lowered = job[r].settling] \in Job
  <2>1. job[r].settling \in BOOLEAN
    BY <1>0 DEF Job
  <2>2. QED
    BY <1>0, <2>1, LoweredType
<1>3. Jobs'
  BY <1>0, <1>2, GoesType DEF Decrease
<1>4. Keys'
  <2>1. Amount(job[r]) \in Int
    BY <1>0, AmountTypes
  <2>2. cache[UserOf(r)] \in Int
    BY <1>0 DEF Decrease, KeyExists, RedisEnabled, Keys
  <2>3. cache[UserOf(r)] - Amount(job[r]) \in Int
    BY <2>1, <2>2
  <2>4. cache' = [cache EXCEPT ![UserOf(r)] = cache[UserOf(r)] - Amount(job[r])]
    BY DEF Decrease
  <2>5. QED
    BY <1>0, <2>3, <2>4 DEF Keys
<1>5. QED
  BY <1>1, <1>3, <1>4, Joined

LEMMA CachingInv ==
  ASSUME IInv, NEW r \in Requests, Caching(r)
  PROVE  IInv'
<1> DEFINE k == job[r]
           u == UserOf(r)
<1>0. Rows /\ Keys /\ Jobs /\ k \in Job /\ u \in Users
  BY Split, UserOfType
<1>1. /\ At(k, "set") \in Job /\ At(k, "setLower") \in Job
      /\ At(k, "settleUser") \in Job /\ At(k, "refused") \in Job
  BY <1>0, AtType DEF Ended, Running
<1>2. quota[u] \in Int
  BY <1>0 DEF Rows
<1>3. /\ [At(k, "set") EXCEPT !.read = quota[u]] \in Job
      /\ [At(k, "setLower") EXCEPT !.read = quota[u]] \in Job
  BY <1>1, <1>2 DEF Job
<1>4. Lowered(k) \in Job /\ NotLowered(k) \in Job
  BY <1>0, LoweredType
<1>5. CASE Get(r)
  <2>1. CASE Only(r, Got(k, quota[u]))
    BY <1>0, <1>2, <2>1, GotType, OnlyKeeps
  <2>2. CASE Fresh(u) /\ Only(r, Got(k, cache[u]))
    <3>1. cache[u] \in Int
      BY <1>0, <2>2 DEF Keys, Fresh, KeyExists, RedisEnabled
    <3>2. QED
      BY <1>0, <2>2, <3>1, GotType, OnlyKeeps
  <2>3. CASE Only(r, [At(k, "set") EXCEPT !.read = quota[u]])
    BY <1>3, <2>3, OnlyKeeps
  <2>4. QED
    BY <1>5, <2>1, <2>2, <2>3 DEF Get
<1>6. CASE GetError(r)
  BY <1>1, <1>6, OnlyKeeps DEF GetError
<1>7. CASE Set(r)
  <2>1. Rows'
    BY <1>0, <1>7 DEF Set, Rows, NoOverdraft, TokenBalanced
  <2>2. Jobs'
    BY <1>0, <1>7, FetchedType, GoesType DEF Set
  <2>3. Keys'
    <3>1. k.read \in Int
      BY <1>0, AmountTypes
    <3>2. QED
      BY <1>0, <1>7, <3>1 DEF Set, Keys
  <2>4. QED
    BY <2>1, <2>2, <2>3, Joined
<1>8. CASE Lower(r)
  <2>1. CASE Decrease(r)
    BY <2>1, DecreaseInv
  <2>2. CASE \/ Only(r, Lowered(k)) \/ Only(r, NotLowered(k))
             \/ Only(r, [At(k, "setLower") EXCEPT !.read = quota[u]])
    BY <1>3, <1>4, <2>2, OnlyKeeps
  <2>3. QED
    BY <1>8, <2>1, <2>2 DEF Lower
<1>9. CASE LowerAgain(r)
  BY <1>4, <1>9, DecreaseInv, OnlyKeeps DEF LowerAgain
<1>10. QED
  BY <1>5, <1>6, <1>7, <1>8, <1>9 DEF Caching

LEMMA SettlingInv ==
  ASSUME IInv, NEW r \in Requests, Settling(r)
  PROVE  IInv'
<1> DEFINE k == job[r]
           u == UserOf(r)
<1>0. Rows /\ Keys /\ Jobs /\ k \in Job /\ u \in Users /\ k.token \in Tokens
  BY Split, UserOfType
<1>1. /\ At(k, "lower") \in Job /\ At(k, "settleToken") \in Job
      /\ At(k, "returned") \in Job /\ At(k, "returnToken") \in Job /\ At(k, "lost") \in Job
  BY <1>0, AtType DEF Ended, Running
<1>2. Delta(k) \in Int /\ k.hold \in Nat
  BY <1>0, AmountTypes
<1>3. CASE Only(r, At(k, "lower")) \/ Only(r, At(k, "lost"))
  BY <1>1, <1>3, OnlyKeeps
<1>4. ASSUME NEW n \in Int, NEW l \in Job, n > 0 => quota[u] >= n,
             quota' = [quota EXCEPT ![u] = @ - n], Goes(r, l),
             UNCHANGED <<remain, used, cache>>
      PROVE  IInv'
  <2>1. Rows'
    BY <1>0, <1>4, UserDebit
  <2>2. Jobs' /\ Keys'
    BY <1>0, <1>4, GoesType, KeepKeys
  <2>3. QED
    BY <2>1, <2>2, Joined
<1>5. ASSUME NEW n \in Int, NEW l \in Job, TokenDebit(k.token, n), Goes(r, l),
             UNCHANGED <<quota, cache>>
      PROVE  IInv'
  <2>1. Rows'
    BY <1>0, <1>5, TokenMoves
  <2>2. Jobs' /\ Keys'
    BY <1>0, <1>5, GoesType, KeepKeys
  <2>3. QED
    BY <2>1, <2>2, Joined
<1>6. CASE SettleUser(r)
  <2> DEFINE l == [At(k, IF k.token \in Unlimited THEN "lower" ELSE "settleToken")
                      EXCEPT !.paid = "cost"]
  <2>1. CASE Only(r, At(k, "lower"))
    BY <1>3, <2>1
  <2>2. CASE /\ Delta(k) > 0 => Covers(u, Delta(k))
             /\ quota' = [quota EXCEPT ![u] = @ - Delta(k)]
             /\ Goes(r, l)
             /\ UNCHANGED <<remain, used, cache>>
    <3>1. At(k, IF k.token \in Unlimited THEN "lower" ELSE "settleToken") \in Job
      BY <1>1
    <3>2. l \in Job
      BY <3>1 DEF Job, Paid
    <3>3. Delta(k) > 0 => quota[u] >= Delta(k)
      BY <2>2 DEF Covers
    <3> HIDE DEF l, u
    <3>4. QED
      BY <1>2, <1>4, <2>2, <3>2, <3>3
  <2>3. QED
    BY <1>6, <2>1, <2>2 DEF SettleUser
<1>7. CASE SettleToken(r)
  <2>1. [At(k, "lower") EXCEPT !.tokenPaid = "cost"] \in Job
    BY <1>1 DEF Job, Paid
  <2>2. QED
    BY <1>2, <1>3, <1>5, <1>7, <2>1 DEF SettleToken
<1>8. CASE ReturnUser(r)
  <2> DEFINE l == [At(k, IF k.token \in Unlimited THEN "returned" ELSE "returnToken")
                      EXCEPT !.paid = "nothing"]
  <2>1. CASE Only(r, At(k, "lost"))
    BY <1>3, <2>1
  <2>2. CASE /\ quota' = [quota EXCEPT ![u] = @ + k.hold]
             /\ Goes(r, l)
             /\ UNCHANGED <<remain, used, cache>>
    <3>1. At(k, IF k.token \in Unlimited THEN "returned" ELSE "returnToken") \in Job
      BY <1>1
    <3>2. l \in Job
      BY <3>1 DEF Job, Paid
    <3>3. /\ -k.hold \in Int
          /\ -k.hold > 0 => quota[u] >= -k.hold
      BY <1>2
    <3>4. quota[u] + k.hold = quota[u] - (-k.hold)
      BY <1>0, <1>2 DEF Rows
    <3>5. quota' = [quota EXCEPT ![u] = @ - (-k.hold)]
      BY <2>2, <3>4
    <3> HIDE DEF l, u
    <3>6. QED
      BY <1>4, <2>2, <3>2, <3>3, <3>5
  <2>3. QED
    BY <1>8, <2>1, <2>2 DEF ReturnUser
<1>9. CASE ReturnToken(r)
  <2>1. [At(k, "returned") EXCEPT !.tokenPaid = "nothing"] \in Job
    BY <1>1 DEF Job, Paid
  <2>2. -k.hold \in Int
    BY <1>2
  <2>3. QED
    BY <1>3, <1>5, <1>9, <2>1, <2>2 DEF ReturnToken
<1>10. QED
  BY <1>6, <1>7, <1>8, <1>9 DEF Settling

LEMMA OtherInv ==
  ASSUME IInv, Crash \/ \E u \in Users : Expire(u)
  PROVE  IInv'
<1>0. Rows /\ Keys /\ Jobs
  BY Split
<1>1. CASE Crash
  <2>1. \A r \in Requests : At(job[r], "crashed") \in Job /\ job[r] \in Job
    BY <1>0, AtType, UserOfType DEF Ended
  <2>2. Jobs'
    BY <1>1, <2>1 DEF Crash, Jobs
  <2>3. Rows' /\ Keys'
    BY <1>0, <1>1 DEF Crash, Rows, Keys, NoOverdraft, TokenBalanced
  <2>4. QED
    BY <2>2, <2>3, Joined
<1>2. CASE \E u \in Users : Expire(u)
  <2>1. Keys'
    BY <1>0, <1>2 DEF Expire, Keys
  <2>2. Rows' /\ Jobs'
    BY <1>0, <1>2 DEF Expire, Rows, Jobs, NoOverdraft, TokenBalanced
  <2>3. QED
    BY <2>1, <2>2, Joined
<1>3. QED
  BY <1>1, <1>2

LEMMA NextInv == IInv /\ [Next]_vars => IInv'
<1>1. SUFFICES ASSUME IInv, [Next]_vars PROVE IInv'
  OBVIOUS
<1>2. CASE UNCHANGED vars
  BY <1>1, <1>2 DEF IInv, TypeOK, NoOverdraft, TokenBalanced, vars
<1>3. CASE \E r \in Requests : Admission(r) \/ Provider(r) \/ Caching(r) \/ Settling(r)
  BY <1>1, <1>3, AdmissionInv, ProviderInv, CachingInv, SettlingInv
<1>4. CASE Crash \/ \E u \in Users : Expire(u)
  BY <1>1, <1>4, OtherInv
<1>5. QED
  BY <1>1, <1>2, <1>3, <1>4 DEF Next

-----------------------------------------------------------------------------
LEMMA Inductive == Spec => []IInv
  BY InitInv, NextInv, PTL DEF Spec

\* Every column, cached value and request keeps its type; in particular no
\* settlement turns a hold or a cost into something that is not an amount.
THEOREM TypeCorrect == Spec => []TypeOK
<1>1. IInv => TypeOK
  BY DEF IInv
<1>2. QED
  BY <1>1, Inductive, PTL

\* However stale the cached quota the admission trusts, and whatever fails or
\* crashes, no hold and no settlement takes a user below zero.
THEOREM NeverOverdrawn == Spec => []NoOverdraft
<1>1. IInv => NoOverdraft
  BY DEF IInv
<1>2. QED
  BY <1>1, Inductive, PTL

\* remain_quota and used_quota of a token always add up to what it was given.
THEOREM TokensBalance == Spec => []TokenBalanced
<1>1. IInv => TokenBalanced
  BY DEF IInv
<1>2. QED
  BY <1>1, Inductive, PTL

-----------------------------------------------------------------------------
(* The ledger.  A request pays in two steps, as user and as token; the     *)
(* stage of its program counter says how much of the hold it has paid.     *)

UserValue(k) == Value(k, k.paid)
TokenValue(k) == Value(k, k.tokenPaid)

(* Nothing is debited before the hold; a request that is answered or       *)
(* refused holds the same of user and token, unless the token is unlimited. *)
NothingPaid(k) == k.paid = "nothing" /\ k.tokenPaid = "nothing"
UserHolds(k) == k.paid # "cost" /\ UserValue(k) = k.hold
TokenHolds(k) ==
    /\ k.tokenPaid # "cost"
    /\ k.token \notin Unlimited => TokenValue(k) = k.hold
Holds(k) == UserHolds(k) /\ TokenHolds(k)

Stage(k) ==
    /\ k.pc \in {"idle", "admit", "checkToken", "checkUser", "takeToken"} => NothingPaid(k)
    /\ k.pc \in {"get", "set", "lower", "setLower", "lowerAgain"} /\ ~k.settling => NothingPaid(k)
    /\ k.pc = "admit" => k.hold = 0
    /\ k.pc \in {"get", "set"} /\ ~k.settling => k.hold = 0
    /\ k.pc = "takeToken" => k.token \notin Unlimited
    /\ k.pc = "takeUser" => k.paid = "nothing" /\ TokenHolds(k)
    /\ k.pc \in {"upstream", "settleUser", "returnUser"} => Holds(k)
    /\ k.pc \in {"get", "set"} /\ k.settling => Holds(k)
    /\ k.pc \in {"settleUser", "settleToken"} => k.settling
    /\ k.pc = "settleToken" => TokenHolds(k) /\ k.token \notin Unlimited
    /\ k.pc = "returnToken" => TokenHolds(k) /\ k.token \notin Unlimited
Stages == \A r \in Requests : Stage(job[r])

LedgerInv == IInv /\ Stages /\ LedgerByOutcome

(* The two halves of the ledger.                                           *)
UserEntry(u) == [r \in Requests |-> IF UserOf(r) = u THEN UserValue(job[r]) ELSE 0]
TokenEntry(t) == [r \in Requests |-> IF job[r].token = t THEN TokenValue(job[r]) ELSE 0]
UsersBooked == \A u \in Users : InitialQuota - quota[u] = SumFunction(UserEntry(u))
TokensBooked == \A t \in Tokens : used[t] = SumFunction(TokenEntry(t))

LEMMA Halves ==
  /\ \A u \in Users : Debited(u) = SumFunction(UserEntry(u))
  /\ \A t \in Tokens : TokenDebited(t) = SumFunction(TokenEntry(t))
<1>1. \A u \in Users : Debited(u) = SumFunction(UserEntry(u))
  BY Zenon DEF Debited, UserEntry, UserValue
<1>2. \A t \in Tokens : TokenDebited(t) = SumFunction(TokenEntry(t))
  BY Zenon DEF TokenDebited, TokenEntry, TokenValue
<1>3. QED
  BY <1>1, <1>2

LEMMA SplitLedger == LedgerByOutcome <=> UsersBooked /\ TokenBalanced /\ TokensBooked
  BY Halves DEF LedgerByOutcome, UsersBooked, TokensBooked

LEMMA ValueType ==
  ASSUME NEW k \in Job
  PROVE  UserValue(k) \in Nat /\ TokenValue(k) \in Nat
<1>1. k.hold \in Nat /\ k.cost \in Nat
  BY AmountTypes
<1>2. \A p \in Paid : Value(k, p) \in Nat
  BY <1>1 DEF Value, Paid
<1>3. k.paid \in Paid /\ k.tokenPaid \in Paid
  BY DEF Job
<1>4. QED
  BY <1>2, <1>3 DEF UserValue, TokenValue

(* One request changes from k to n and its user is debited by as much more *)
(* as n is worth.                                                          *)
LEMMA UserBooked ==
  ASSUME IInv, UsersBooked, NEW r \in Requests, NEW n \in Job, Goes(r, n),
         n.token = job[r].token \/ (UserValue(n) = 0 /\ UserValue(job[r]) = 0),
         quota' = [quota EXCEPT ![UserOf(r)] = @ - (UserValue(n) - UserValue(job[r]))]
  PROVE  UsersBooked'
<1> DEFINE v == UserValue(job[r])
           w == UserValue(n)
<1>0. /\ quota \in [Users -> Int] /\ job \in [Requests -> Job] /\ job[r] \in Job
      /\ UserOf(r) \in Users /\ InitialQuota \in Int
  BY Split, UserOfType, AmountsAssumption DEF Rows, Jobs
<1>1. job' = [job EXCEPT ![r] = n]
  BY DEF Goes
<1>2. \A q \in Requests : job'[q] \in Job
  BY <1>0, <1>1
<1>3. v \in Int /\ w \in Int
  BY <1>0, ValueType
<1>4. SUFFICES ASSUME NEW u \in Users
               PROVE  InitialQuota - quota'[u] = SumFunction(UserEntry(u)')
  BY DEF UsersBooked
<1>e. /\ UserEntry(u) = [q \in Requests |-> IF UserOf(q) = u THEN UserValue(job[q]) ELSE 0]
      /\ UserEntry(u)' = [q \in Requests |-> IF Owner[job'[q].token] = u
                                      THEN UserValue(job'[q]) ELSE 0]
  BY DEF UserEntry, UserOf, UserValue, Value
<1>5. UserEntry(u) \in [Requests -> Int] /\ UserEntry(u)' \in [Requests -> Int]
  <2>1. \A q \in Requests : UserValue(job[q]) \in Int /\ UserValue(job'[q]) \in Int
    BY <1>0, <1>2, ValueType
  <2>2. QED
    BY <1>e, <2>1
<1>6. \A q \in Requests : q # r => UserEntry(u)'[q] = UserEntry(u)[q]
  BY <1>0, <1>1, <1>e, Zenon DEF UserOf
<1>7. /\ UserEntry(u)[r] = IF UserOf(r) = u THEN v ELSE 0
      /\ UserEntry(u)'[r] = IF Owner[n.token] = u THEN w ELSE 0
  BY <1>0, <1>1, <1>e
<1>8. SumFunction(UserEntry(u)') = SumFunction(UserEntry(u)) + UserEntry(u)'[r] - UserEntry(u)[r]
  BY <1>5, <1>6, SumChange, FiniteAssumption
<1>9. SumFunction(UserEntry(u)) = InitialQuota - quota[u]
  BY DEF UsersBooked
<1>10. n.token = job[r].token => Owner[n.token] = UserOf(r)
  BY DEF UserOf
<1>11. quota'[u] = IF UserOf(r) = u THEN quota[u] - (w - v) ELSE quota[u]
  BY <1>0
<1> HIDE DEF v, w
<1>12. quota[u] \in Int
  BY <1>0
<1>13. QED
  BY <1>0, <1>3, <1>7, <1>8, <1>9, <1>10, <1>11, <1>12 DEF v, w

LEMMA TokenBooked ==
  ASSUME IInv, TokensBooked, NEW r \in Requests, NEW n \in Job, Goes(r, n),
         n.token = job[r].token \/ (TokenValue(n) = 0 /\ TokenValue(job[r]) = 0),
         used' = [used EXCEPT ![job[r].token] = @ + (TokenValue(n) - TokenValue(job[r]))]
  PROVE  TokensBooked'
<1> DEFINE v == TokenValue(job[r])
           w == TokenValue(n)
<1>0. /\ used \in [Tokens -> Int] /\ job \in [Requests -> Job] /\ job[r] \in Job
      /\ job[r].token \in Tokens
  BY Split, UserOfType DEF Rows, Jobs
<1>1. job' = [job EXCEPT ![r] = n]
  BY DEF Goes
<1>2. \A q \in Requests : job'[q] \in Job
  BY <1>0, <1>1
<1>3. v \in Int /\ w \in Int
  BY <1>0, ValueType
<1>4. SUFFICES ASSUME NEW t \in Tokens
               PROVE  used'[t] = SumFunction(TokenEntry(t)')
  BY DEF TokensBooked
<1>e. /\ TokenEntry(t) = [q \in Requests |-> IF job[q].token = t THEN TokenValue(job[q]) ELSE 0]
      /\ TokenEntry(t)' = [q \in Requests |-> IF job'[q].token = t
                                      THEN TokenValue(job'[q]) ELSE 0]
  BY DEF TokenEntry, TokenValue, Value
<1>5. TokenEntry(t) \in [Requests -> Int] /\ TokenEntry(t)' \in [Requests -> Int]
  <2>1. \A q \in Requests : TokenValue(job[q]) \in Int /\ TokenValue(job'[q]) \in Int
    BY <1>0, <1>2, ValueType
  <2>2. QED
    BY <1>e, <2>1
<1>6. \A q \in Requests : q # r => TokenEntry(t)'[q] = TokenEntry(t)[q]
  BY <1>0, <1>1, <1>e
<1>7. /\ TokenEntry(t)[r] = IF job[r].token = t THEN v ELSE 0
      /\ TokenEntry(t)'[r] = IF n.token = t THEN w ELSE 0
  BY <1>0, <1>1, <1>e
<1>8. SumFunction(TokenEntry(t)')
      = SumFunction(TokenEntry(t)) + TokenEntry(t)'[r] - TokenEntry(t)[r]
  BY <1>5, <1>6, SumChange, FiniteAssumption
<1>9. SumFunction(TokenEntry(t)) = used[t]
  BY DEF TokensBooked
<1>10. used'[t] = IF job[r].token = t THEN used[t] + (w - v) ELSE used[t]
  BY <1>0
<1>11. used[t] \in Int
  BY <1>0
<1>12. n.token = job[r].token \/ (w = 0 /\ v = 0)
  OBVIOUS
<1> HIDE DEF v, w
<1>13. QED
  BY <1>3, <1>7, <1>8, <1>9, <1>10, <1>11, <1>12

(* One request moves and pays, or is paid back.                            *)
LEMMA Books ==
  ASSUME LedgerInv, IInv', NEW r \in Requests, NEW n \in Job, Goes(r, n), Stage(n),
         \/ n.token = job[r].token
         \/ /\ UserValue(n) = 0 /\ UserValue(job[r]) = 0
            /\ TokenValue(n) = 0 /\ TokenValue(job[r]) = 0,
         quota' = [quota EXCEPT ![UserOf(r)] = @ - (UserValue(n) - UserValue(job[r]))],
         used' = [used EXCEPT ![job[r].token] = @ + (TokenValue(n) - TokenValue(job[r]))]
  PROVE  LedgerInv'
<1>1. IInv /\ Stages /\ UsersBooked /\ TokensBooked /\ job \in [Requests -> Job]
  BY SplitLedger, Split DEF LedgerInv, Jobs
<1>2. UsersBooked'
  <2>1. n.token = job[r].token \/ (UserValue(n) = 0 /\ UserValue(job[r]) = 0)
    OBVIOUS
  <2>2. QED
    BY <1>1, <2>1, UserBooked
<1>3. TokensBooked'
  <2>1. n.token = job[r].token \/ (TokenValue(n) = 0 /\ TokenValue(job[r]) = 0)
    OBVIOUS
  <2>2. QED
    BY <1>1, <2>1, TokenBooked
<1>4. Stages'
  <2>1. \A q \in Requests : job'[q] = IF q = r THEN n ELSE job[q]
    BY <1>1 DEF Goes
  <2>2. \A q \in Requests : Stage(job'[q])
    BY <1>1, <2>1 DEF Stages
  <2>3. QED
    BY <2>2 DEF Stages, Stage, NothingPaid, Holds, UserHolds, TokenHolds, UserValue, TokenValue, Value
<1>5. TokenBalanced'
  BY DEF IInv
<1>6. LedgerByOutcome'
  <2>1. /\ \A u \in Users : Debited(u)' = SumFunction(UserEntry(u)')
        /\ \A t \in Tokens : TokenDebited(t)' = SumFunction(TokenEntry(t)')
    BY Zenon DEF Debited, UserEntry, UserValue, TokenDebited, TokenEntry, TokenValue
  <2>2. QED
    BY <1>2, <1>3, <1>5, <2>1 DEF LedgerByOutcome, UsersBooked, TokensBooked
<1>7. QED
  BY <1>4, <1>6 DEF LedgerInv

(* One request moves, with the same paid as before.                        *)
LEMMA Moves ==
  ASSUME LedgerInv, IInv', NEW r \in Requests, NEW n \in Job, Goes(r, n), Stage(n),
         UNCHANGED <<quota, used>>,
         UserValue(n) = UserValue(job[r]), TokenValue(n) = TokenValue(job[r]),
         n.token = job[r].token \/ (UserValue(n) = 0 /\ TokenValue(n) = 0)
  PROVE  LedgerInv'
<1>0. /\ quota \in [Users -> Int] /\ used \in [Tokens -> Int] /\ job[r] \in Job
      /\ UserOf(r) \in Users /\ job[r].token \in Tokens
  BY Split, UserOfType DEF LedgerInv, Rows
<1>1. UserValue(n) \in Int /\ TokenValue(n) \in Int
  BY ValueType
<1>2. UserValue(n) - UserValue(job[r]) = 0 /\ TokenValue(n) - TokenValue(job[r]) = 0
  BY <1>1
<1>3. quota' = [quota EXCEPT ![UserOf(r)] = @ - (UserValue(n) - UserValue(job[r]))]
  BY <1>0, <1>2
<1>4. used' = [used EXCEPT ![job[r].token] = @ + (TokenValue(n) - TokenValue(job[r]))]
  BY <1>0, <1>2
<1>5. \/ n.token = job[r].token
      \/ /\ UserValue(n) = 0 /\ UserValue(job[r]) = 0
         /\ TokenValue(n) = 0 /\ TokenValue(job[r]) = 0
  OBVIOUS
<1>6. QED
  BY <1>3, <1>4, <1>5, Books

(* A request that only changes where it is, or what is not an amount.      *)
SameAmounts(n, k) ==
    /\ n.token = k.token /\ n.hold = k.hold /\ n.cost = k.cost
    /\ n.paid = k.paid /\ n.tokenPaid = k.tokenPaid

LEMMA SameValues ==
  ASSUME NEW n, NEW k, SameAmounts(n, k)
  PROVE  /\ UserValue(n) = UserValue(k) /\ TokenValue(n) = TokenValue(k)
         /\ UserHolds(n) <=> UserHolds(k)
         /\ TokenHolds(n) <=> TokenHolds(k)
         /\ Holds(n) <=> Holds(k)
         /\ NothingPaid(n) <=> NothingPaid(k)
<1>1. UserValue(n) = UserValue(k) /\ TokenValue(n) = TokenValue(k)
  BY Zenon DEF SameAmounts, UserValue, TokenValue, Value
<1>2. QED
  BY <1>1 DEF SameAmounts, UserHolds, TokenHolds, Holds, NothingPaid

LEMMA AtSame ==
  ASSUME NEW k \in Job, NEW pc \in Ended \cup {"idle"} \cup Running
  PROVE  /\ At(k, pc) \in Job /\ SameAmounts(At(k, pc), k)
         /\ At(k, pc).pc = pc /\ At(k, pc).settling = k.settling
         /\ At(k, pc).hold = k.hold /\ At(k, pc).token = k.token
<1>1. At(k, pc) \in Job
  BY AtType
<1>2. QED
  BY <1>1 DEF SameAmounts, At, Job

LEMMA MovesAt ==
  ASSUME LedgerInv, IInv', NEW r \in Requests, NEW n \in Job, Goes(r, n), Stage(n),
         UNCHANGED <<quota, used>>, SameAmounts(n, job[r])
  PROVE  LedgerInv'
<1>1. UserValue(n) = UserValue(job[r]) /\ TokenValue(n) = TokenValue(job[r])
  BY SameValues
<1>2. n.token = job[r].token
  BY DEF SameAmounts
<1>3. QED
  BY <1>1, <1>2, Moves

LEMMA EndStage ==
  ASSUME NEW k \in Job, NEW pc \in Ended
  PROVE  Stage(At(k, pc))
<1>1. At(k, pc).pc \in Ended
  BY AtSame
<1>2. QED
  BY <1>1 DEF Ended, Stage

LEMMA LedgerInit == Init => LedgerInv
<1>1. SUFFICES ASSUME Init PROVE LedgerInv
  OBVIOUS
<1>2. IInv
  BY <1>1, InitInv
<1>3. PICK t \in Tokens :
         job = [r \in Requests |-> [NewJob("text", t, 0) EXCEPT !.pc = "idle"]]
  BY <1>1 DEF Init
<1>4. ASSUME NEW r \in Requests
      PROVE  /\ job[r].pc = "idle" /\ job[r].paid = "nothing" /\ job[r].tokenPaid = "nothing"
             /\ job[r].token = t
  BY <1>3 DEF NewJob
<1>5. Stages
  BY <1>4 DEF Stages, Stage, NothingPaid
<1>6. \A r \in Requests : UserValue(job[r]) = 0 /\ TokenValue(job[r]) = 0
  BY <1>4 DEF UserValue, TokenValue, Value
<1>7. UsersBooked
  <2>1. ASSUME NEW u \in Users PROVE SumFunction(UserEntry(u)) = 0
    <3>1. DOMAIN UserEntry(u) = Requests /\ \A r \in Requests : UserEntry(u)[r] = 0
      BY <1>6 DEF UserEntry
    <3>2. QED
      BY <3>1, SumZero, FiniteAssumption
  <2>2. \A u \in Users : InitialQuota - quota[u] = 0
    BY <1>1, AmountsAssumption DEF Init
  <2>3. QED
    BY <2>1, <2>2 DEF UsersBooked
<1>8. TokensBooked
  <2>1. ASSUME NEW s \in Tokens PROVE SumFunction(TokenEntry(s)) = 0
    <3>1. DOMAIN TokenEntry(s) = Requests /\ \A r \in Requests : TokenEntry(s)[r] = 0
      BY <1>6 DEF TokenEntry
    <3>2. QED
      BY <3>1, SumZero, FiniteAssumption
  <2>2. \A s \in Tokens : used[s] = 0
    BY <1>1 DEF Init
  <2>3. QED
    BY <2>1, <2>2 DEF TokensBooked
<1>9. QED
  BY <1>2, <1>5, <1>7, <1>8, SplitLedger DEF LedgerInv, IInv

LEMMA LedgerAdmission ==
  ASSUME LedgerInv, IInv', NEW r \in Requests, Admission(r)
  PROVE  LedgerInv'
<1> DEFINE k == job[r]
           at(pc) == At(k, pc)
<1>0. k \in Job /\ Stage(k) /\ quota \in [Users -> Int] /\ used \in [Tokens -> Int]
      /\ UserOf(r) \in Users /\ k.token \in Tokens
  BY Split, UserOfType DEF LedgerInv, Stages, Rows
<1>1. \A pc \in Ended : at(pc) \in Job /\ Stage(at(pc)) /\ SameAmounts(at(pc), k)
  BY <1>0, EndStage, AtSame
<1>2. CASE Begin(r)
  <2>1. PICK kind \in Kinds, t \in Tokens, q \in Sizes : Only(r, NewJob(kind, t, q))
    BY <1>2 DEF Begin
  <2> DEFINE n == NewJob(kind, t, q)
  <2>2. n \in Job
    BY NewJobType
  <2>3. n.pc = "get" /\ n.settling = FALSE /\ n.hold = 0 /\ NothingPaid(n)
    BY DEF NewJob, NothingPaid
  <2>4. NothingPaid(k)
    BY <1>0, <1>2 DEF Begin, Stage
  <2>5. UserValue(n) = 0 /\ TokenValue(n) = 0 /\ UserValue(k) = 0 /\ TokenValue(k) = 0
    BY <2>3, <2>4 DEF NothingPaid, UserValue, TokenValue, Value
  <2>6. Stage(n)
    BY <2>3 DEF Stage
  <2> HIDE DEF n
  <2>7. Goes(r, n) /\ UNCHANGED <<quota, used>>
    BY <2>1 DEF Only, n
  <2>8. QED
    BY <2>2, <2>5, <2>6, <2>7, Moves
<1>3. ASSUME NEW n \in Job, Stage(n), SameAmounts(n, k), Only(r, n)
      PROVE  LedgerInv'
  BY <1>3, MovesAt DEF Only
<1>4. CASE Admit(r)
  <2>1. k.pc = "admit" /\ NothingPaid(k) /\ k.hold = 0
    BY <1>0, <1>4 DEF Admit, Stage
  <2>2. CASE Only(r, at("refused"))
    BY <1>1, <1>3, <2>2 DEF Ended
  <2>3. ASSUME NEW pc \in {"upstream", "lower"} PROVE Stage(at(pc))
    <3>1. at(pc).pc = pc /\ NothingPaid(at(pc)) /\ at(pc).hold = 0
      BY <1>0, <2>1, AtSame, SameValues DEF Running
    <3>2. Holds(at(pc))
      BY <3>1 DEF Holds, UserHolds, TokenHolds, NothingPaid, UserValue, TokenValue, Value
    <3>3. QED
      BY <3>1, <3>2 DEF Stage
  <2>4. CASE \E pc \in {"upstream", "lower"} : Only(r, at(pc))
    BY <1>0, <1>3, <2>3, <2>4, AtSame DEF Running
  <2>5. QED
    BY <1>4, <2>2, <2>4 DEF Admit
<1>5. CASE CheckToken(r)
  <2>1. NothingPaid(k)
    BY <1>0, <1>5 DEF CheckToken, Stage
  <2>2. Stage(at("checkUser"))
    <3>1. at("checkUser").pc = "checkUser" /\ NothingPaid(at("checkUser"))
      BY <1>0, <2>1, AtSame, SameValues DEF Running
    <3>2. QED
      BY <3>1 DEF Stage
  <2>3. at("checkUser") \in Job /\ SameAmounts(at("checkUser"), k)
    BY <1>0, AtSame DEF Running
  <2>4. QED
    BY <1>1, <1>3, <1>5, <2>2, <2>3 DEF CheckToken, Ended
<1>6. CASE CheckUser(r)
  <2>1. NothingPaid(k)
    BY <1>0, <1>6 DEF CheckUser, Stage
  <2>2. ASSUME k.token \notin Unlimited PROVE Stage(at("takeToken"))
    <3>1. at("takeToken").pc = "takeToken" /\ NothingPaid(at("takeToken"))
          /\ at("takeToken").token \notin Unlimited
      BY <1>0, <2>1, <2>2, AtSame, SameValues DEF Running
    <3>2. QED
      BY <3>1 DEF Stage
  <2>3. ASSUME k.token \in Unlimited PROVE Stage(at("takeUser"))
    <3>1. at("takeUser").pc = "takeUser" /\ NothingPaid(at("takeUser"))
          /\ at("takeUser").token \in Unlimited
      BY <1>0, <2>1, <2>3, AtSame, SameValues DEF Running
    <3>2. QED
      BY <3>1 DEF Stage, NothingPaid, TokenHolds
  <2>4. \A pc \in {"takeToken", "takeUser"} : at(pc) \in Job /\ SameAmounts(at(pc), k)
    BY <1>0, AtSame DEF Running
  <2>5. QED
    BY <1>1, <1>3, <1>6, <2>2, <2>3, <2>4 DEF CheckUser, Ended
<1>7. CASE TakeToken(r)
  <2>1. CASE Only(r, at("refused"))
    BY <1>1, <1>3, <2>1 DEF Ended
  <2>2. CASE /\ TokenDebit(k.token, k.hold)
             /\ Goes(r, [at("takeUser") EXCEPT !.tokenPaid = "hold"])
             /\ UNCHANGED <<quota, cache>>
    <3> DEFINE m == at("takeUser")
               n == [m EXCEPT !.tokenPaid = "hold"]
    <3>1. m \in Job /\ SameAmounts(m, k) /\ m.pc = "takeUser"
      BY <1>0, AtSame DEF Running
    <3>2. NothingPaid(k) /\ k.hold \in Int
      BY <1>0, <1>7, AmountTypes DEF TakeToken, Stage
    <3> HIDE DEF m
    <3>3. n \in Job
      BY <3>1 DEF Job, Paid
    <3>4. /\ n.pc = "takeUser" /\ n.token = k.token /\ n.hold = k.hold
          /\ n.paid = "nothing" /\ n.tokenPaid = "hold"
      BY <3>1, <3>2, <3>3 DEF Job, SameAmounts, NothingPaid
    <3> HIDE DEF n
    <3>5. UserValue(n) = 0 /\ TokenValue(n) = k.hold /\ UserValue(k) = 0 /\ TokenValue(k) = 0
      BY <3>2, <3>4 DEF NothingPaid, UserValue, TokenValue, Value
    <3>6. Stage(n)
      BY <3>4, <3>5 DEF Stage, TokenHolds
    <3>7. quota' = [quota EXCEPT ![UserOf(r)] = @ - (UserValue(n) - UserValue(k))]
      BY <1>0, <2>2, <3>5
    <3>8. used' = [used EXCEPT ![k.token] = @ + (TokenValue(n) - TokenValue(k))]
      <4>1. TokenValue(n) - TokenValue(k) = k.hold
        BY <3>2, <3>5
      <4>2. QED
        BY <2>2, <4>1, Zenon DEF TokenDebit
    <3>9. Goes(r, n)
      BY <2>2 DEF n, m
    <3>10. QED
      BY <3>3, <3>4, <3>6, <3>7, <3>8, <3>9, Books
  <2>3. QED
    BY <1>7, <2>1, <2>2 DEF TakeToken
<1>8. CASE TakeUser(r)
  <2>1. CASE Only(r, at("refused"))
    BY <1>1, <1>3, <2>1 DEF Ended
  <2>2. CASE /\ quota' = [quota EXCEPT ![UserOf(r)] = @ - k.hold]
             /\ Goes(r, [at("upstream") EXCEPT !.paid = "hold"])
             /\ UNCHANGED <<remain, used, cache>>
    <3> DEFINE m == at("upstream")
               n == [m EXCEPT !.paid = "hold"]
    <3>1. m \in Job /\ SameAmounts(m, k) /\ m.pc = "upstream"
      BY <1>0, AtSame DEF Running
    <3>2. k.paid = "nothing" /\ TokenHolds(k) /\ k.hold \in Int
      BY <1>0, <1>8, AmountTypes DEF TakeUser, Stage
    <3> HIDE DEF m
    <3>3. n \in Job
      BY <3>1 DEF Job, Paid
    <3>4. /\ n.pc = "upstream" /\ n.token = k.token /\ n.hold = k.hold /\ n.cost = k.cost
          /\ n.paid = "hold" /\ n.tokenPaid = k.tokenPaid
      BY <3>1, <3>2, <3>3 DEF Job, SameAmounts
    <3> HIDE DEF n
    <3>5. UserValue(n) = k.hold /\ UserValue(k) = 0
      BY <3>2, <3>4 DEF UserValue, Value
    <3>6. TokenValue(n) = TokenValue(k)
      BY <3>4, Zenon DEF TokenValue, Value
    <3>7. Stage(n)
      BY <3>2, <3>4, <3>5, <3>6 DEF Stage, Holds, UserHolds, TokenHolds
    <3>8. quota' = [quota EXCEPT ![UserOf(r)] = @ - (UserValue(n) - UserValue(k))]
      <4>1. UserValue(n) - UserValue(k) = k.hold
        BY <3>2, <3>5
      <4>2. QED
        BY <2>2, <4>1, Zenon
    <3>9. used' = [used EXCEPT ![k.token] = @ + (TokenValue(n) - TokenValue(k))]
      <4>1. TokenValue(k) \in Int
        BY <1>0, ValueType
      <4>2. QED
        BY <1>0, <2>2, <3>6, <4>1
    <3>10. Goes(r, n)
      BY <2>2 DEF n, m
    <3>11. QED
      BY <3>3, <3>4, <3>7, <3>8, <3>9, <3>10, Books
  <2>3. QED
    BY <1>8, <2>1, <2>2 DEF TakeUser
<1>9. QED
  BY <1>2, <1>4, <1>5, <1>6, <1>7, <1>8 DEF Admission

LEMMA LedgerProvider ==
  ASSUME LedgerInv, IInv', NEW r \in Requests, Provider(r)
  PROVE  LedgerInv'
<1> DEFINE k == job[r]
           at(pc) == At(k, pc)
<1>0. k \in Job /\ Stage(k) /\ k.pc = "upstream"
  BY Split, UserOfType DEF LedgerInv, Stages, Provider, Abandon, NilUsage, Reject, Answer
<1>1. \A pc \in Ended : at(pc) \in Job /\ Stage(at(pc)) /\ SameAmounts(at(pc), k)
  BY <1>0, EndStage, AtSame
<1>2. Holds(k)
  BY <1>0 DEF Stage
<1>3. ASSUME NEW n \in Job, Stage(n), SameAmounts(n, k), Only(r, n)
      PROVE  LedgerInv'
  BY <1>3, MovesAt DEF Only
<1>4. CASE Abandon(r) \/ NilUsage(r)
  BY <1>1, <1>3, <1>4 DEF Abandon, NilUsage, Ended
<1>5. CASE Reject(r)
  <2>1. at("returnUser") \in Job /\ SameAmounts(at("returnUser"), k)
        /\ at("returnUser").pc = "returnUser"
    BY <1>0, AtSame DEF Running
  <2>2. Holds(at("returnUser"))
    BY <1>2, <2>1, SameValues
  <2>3. Stage(at("returnUser"))
    BY <2>1, <2>2 DEF Stage
  <2>4. QED
    BY <1>1, <1>3, <1>5, <2>1, <2>3 DEF Reject, Ended
<1>6. CASE Answer(r)
  <2>1. PICK c \in IF k.kind = "image" THEN {k.pre} ELSE Sizes :
           Only(r, [at(IF k.kind = "text" THEN "get" ELSE "settleUser")
                       EXCEPT !.settling = TRUE, !.cost = c])
    BY <1>6 DEF Answer
  <2> DEFINE m == at(IF k.kind = "text" THEN "get" ELSE "settleUser")
             n == [m EXCEPT !.settling = TRUE, !.cost = c]
  <2>2. c \in Sizes
    BY <1>0 DEF Job
  <2>3. m \in Job /\ SameAmounts(m, k) /\ m.pc \in {"get", "settleUser"}
    BY <1>0, AtSame DEF Running
  <2> HIDE DEF m
  <2>4. n \in Job
    BY <2>2, <2>3 DEF Job
  <2>5. /\ n.pc \in {"get", "settleUser"} /\ n.settling /\ n.token = k.token /\ n.hold = k.hold
        /\ n.paid = k.paid /\ n.tokenPaid = k.tokenPaid
    BY <2>3, <2>4 DEF Job, SameAmounts
  <2> HIDE DEF n
  <2>6. k.paid \in {"nothing", "hold"} /\ k.tokenPaid \in {"nothing", "hold"}
    BY <1>0, <1>2 DEF Holds, UserHolds, TokenHolds, Job, Paid
  <2>7. UserValue(n) = UserValue(k) /\ TokenValue(n) = TokenValue(k)
    BY <2>5, <2>6 DEF UserValue, TokenValue, Value
  <2>8. Stage(n)
    BY <1>2, <2>5, <2>7 DEF Stage, Holds, UserHolds, TokenHolds
  <2>9. Goes(r, n) /\ UNCHANGED <<quota, used>>
    BY <2>1 DEF Only, n, m
  <2>10. QED
    BY <2>4, <2>5, <2>7, <2>8, <2>9, Moves
<1>7. QED
  BY <1>4, <1>5, <1>6 DEF Provider

LEMMA LedgerCaching ==
  ASSUME LedgerInv, IInv', NEW r \in Requests, Caching(r)
  PROVE  LedgerInv'
<1> DEFINE k == job[r]
           at(pc) == At(k, pc)
<1>0. k \in Job /\ Stage(k) /\ k.settling \in BOOLEAN
  <2>1. k \in Job /\ Stage(k)
    BY Split, UserOfType DEF LedgerInv, Stages
  <2>2. QED
    BY <2>1 DEF Job
<1>1. \A pc \in Ended : at(pc) \in Job /\ Stage(at(pc)) /\ SameAmounts(at(pc), k)
  BY <1>0, EndStage, AtSame
<1>2. ASSUME NEW n \in Job, Stage(n), SameAmounts(n, k), Goes(r, n), UNCHANGED <<quota, used>>
      PROVE  LedgerInv'
  BY <1>2, MovesAt
<1>3. ASSUME NEW v \in Int, k.pc \in {"get", "set"}, Goes(r, Got(k, v)), UNCHANGED <<quota, used>>
      PROVE  LedgerInv'
  <2> DEFINE n == Got(k, v)
  <2>1. n \in Job
    BY <1>0, GotType
  <2>2. CASE k.settling
    <3>1. n = at("settleUser")
      BY <2>2 DEF Got
    <3>2. SameAmounts(n, k) /\ n.pc = "settleUser" /\ n.settling = TRUE
      BY <1>0, <2>2, <3>1, AtSame DEF Running
    <3>3. Holds(k)
      BY <1>0, <1>3, <2>2 DEF Stage
    <3> HIDE DEF n
    <3>4. Stage(n)
      BY <3>2, <3>3, SameValues DEF Stage
    <3>5. QED
      BY <1>2, <1>3, <2>1, <3>2, <3>4 DEF n
  <2>3. CASE ~k.settling
    <3> DEFINE m == at("admit")
    <3>1. m \in Job /\ SameAmounts(m, k) /\ m.pc = "admit" /\ m.hold = k.hold
      BY <1>0, AtSame DEF Running
    <3>2. n = [m EXCEPT !.seen = v]
      BY <2>3 DEF Got
    <3> HIDE DEF m, n
    <3>3. SameAmounts(n, k) /\ n.pc = "admit" /\ n.hold = k.hold
      BY <3>1, <3>2 DEF SameAmounts, Job
    <3>4. NothingPaid(k) /\ k.hold = 0
      BY <1>0, <1>3, <2>3 DEF Stage
    <3>5. Stage(n)
      BY <3>3, <3>4, SameValues DEF Stage
    <3>6. QED
      BY <1>2, <1>3, <2>1, <3>3, <3>5 DEF n
  <2>4. QED
    BY <2>2, <2>3
<1>4. ASSUME k.pc \in {"lower", "lowerAgain"}, NEW b \in BOOLEAN, NEW n,
             n = Lowered(k) \/ n = [Lowered(k) EXCEPT !.lowered = b],
             Goes(r, n), UNCHANGED <<quota, used>>
      PROVE  LedgerInv'
  <2>1. n \in Job
    BY <1>0, <1>4, LoweredType
  <2>2. Lowered(k) \in Job
    BY <1>0, LoweredType
  <2>3. CASE k.settling
    <3>1. Lowered(k) = at("done")
      BY <2>3 DEF Lowered
    <3>2. SameAmounts(Lowered(k), k) /\ Lowered(k).pc = "done"
      BY <1>0, <3>1, AtSame DEF Ended
    <3>3. SameAmounts(n, k) /\ n.pc = "done"
      BY <1>4, <2>2, <3>2 DEF SameAmounts, Job
    <3>4. Stage(n)
      BY <3>3 DEF Stage
    <3>5. QED
      BY <1>2, <1>4, <2>1, <3>3, <3>4
  <2>4. CASE ~k.settling
    <3> DEFINE m == at(IF Held(k) > 0 THEN "checkToken" ELSE "upstream")
    <3>1. m \in Job /\ SameAmounts(m, k) /\ m.pc = IF Held(k) > 0 THEN "checkToken" ELSE "upstream"
      BY <1>0, AtSame DEF Running
    <3>2. Lowered(k) = [m EXCEPT !.hold = Held(k)]
      BY <2>4 DEF Lowered
    <3>3. NothingPaid(k)
      BY <1>0, <1>4, <2>4 DEF Stage
    <3>4. Held(k) \in Nat
      BY <1>0, AmountTypes DEF Held
    <3> HIDE DEF m
    <3>5. /\ Lowered(k).pc = m.pc /\ Lowered(k).hold = Held(k) /\ Lowered(k).token = k.token
          /\ Lowered(k).paid = k.paid /\ Lowered(k).tokenPaid = k.tokenPaid
      BY <3>1, <3>2 DEF SameAmounts, Job
    <3>6. /\ n.pc = m.pc /\ n.hold = Held(k) /\ n.token = k.token
          /\ n.paid = k.paid /\ n.tokenPaid = k.tokenPaid
      BY <1>4, <2>2, <3>5 DEF Job
    <3>7. NothingPaid(n)
      BY <3>3, <3>6 DEF NothingPaid
    <3>8. UserValue(n) = 0 /\ TokenValue(n) = 0 /\ UserValue(k) = 0 /\ TokenValue(k) = 0
      BY <3>3, <3>7 DEF NothingPaid, UserValue, TokenValue, Value
    <3>9. n.pc = "checkToken" \/ (n.pc = "upstream" /\ n.hold = 0)
      BY <3>1, <3>4, <3>6
    <3>10. Stage(n)
      BY <3>7, <3>8, <3>9 DEF Stage, Holds, UserHolds, TokenHolds, NothingPaid
    <3>11. QED
      BY <1>4, <2>1, <3>8, <3>10, Moves
  <2>5. QED
    BY <2>3, <2>4
<1>5. ASSUME Only(r, NotLowered(k)) PROVE LedgerInv'
  BY <1>1, <1>2, <1>5 DEF NotLowered, Ended, Only
<1>6. ASSUME NEW pc \in {"set", "setLower"}, NEW v \in Int, k.pc = IF pc = "set" THEN "get" ELSE "lower",
             Only(r, [at(pc) EXCEPT !.read = v])
      PROVE  LedgerInv'
  <2> DEFINE m == at(pc)
             n == [m EXCEPT !.read = v]
  <2>1. m \in Job /\ SameAmounts(m, k) /\ m.pc = pc /\ m.settling = k.settling
    BY <1>0, AtSame DEF Running
  <2> HIDE DEF m
  <2>2. n \in Job
    BY <2>1 DEF Job
  <2>3. SameAmounts(n, k) /\ n.pc = pc /\ n.settling = k.settling /\ n.hold = k.hold
    BY <2>1, <2>2 DEF SameAmounts, Job
  <2> HIDE DEF n
  <2>4. Holds(n) <=> Holds(k)
    BY <2>3, SameValues
  <2>5. NothingPaid(n) <=> NothingPaid(k)
    BY <2>3, SameValues
  <2>6. Stage(n)
    BY <1>0, <1>6, <2>3, <2>4, <2>5 DEF Stage
  <2>7. Only(r, n)
    BY <1>6 DEF n, m
  <2>8. QED
    BY <1>2, <2>2, <2>3, <2>6, <2>7 DEF Only
<1>7. quota[UserOf(r)] \in Int
  BY Split, UserOfType DEF LedgerInv, Rows
<1>8. CASE Get(r)
  <2>1. CASE Only(r, Got(k, quota[UserOf(r)]))
    BY <1>3, <1>7, <1>8, <2>1 DEF Get, Only
  <2>2. CASE Fresh(UserOf(r)) /\ Only(r, Got(k, cache[UserOf(r)]))
    <3>1. cache[UserOf(r)] \in Int
      BY <2>2, Split, UserOfType DEF LedgerInv, Keys, Fresh, KeyExists, RedisEnabled
    <3>2. QED
      BY <1>3, <1>8, <2>2, <3>1 DEF Get, Only
  <2>3. CASE Only(r, [at("set") EXCEPT !.read = quota[UserOf(r)]])
    BY <1>6, <1>7, <1>8, <2>3 DEF Get
  <2>4. QED
    BY <1>8, <2>1, <2>2, <2>3 DEF Get
<1>9. CASE GetError(r)
  <2>1. CASE ~k.settling
    BY <1>1, <1>2, <1>9, <2>1 DEF GetError, Ended, Only
  <2>2. CASE k.settling
    <3> DEFINE n == at("settleUser")
    <3>1. n \in Job /\ SameAmounts(n, k) /\ n.pc = "settleUser" /\ n.settling = TRUE
      BY <1>0, <2>2, AtSame DEF Running
    <3>2. Holds(k)
      BY <1>0, <1>9, <2>2 DEF GetError, Stage
    <3>3. Only(r, n)
      BY <1>9, <2>2 DEF GetError
    <3> HIDE DEF n
    <3>4. Stage(n)
      BY <3>1, <3>2, SameValues DEF Stage
    <3>5. QED
      BY <1>2, <3>1, <3>3, <3>4 DEF Only
  <2>3. QED
    BY <2>1, <2>2
<1>10. CASE Set(r)
  <2>1. k.pc \in {"set", "setLower"} /\ Goes(r, Fetched(k)) /\ UNCHANGED <<quota, used>>
    BY <1>10 DEF Set
  <2>2. CASE k.pc = "set"
    BY <1>0, <1>3, <2>1, <2>2, AmountTypes DEF Fetched
  <2>3. CASE k.pc = "setLower"
    <3> DEFINE n == at("lowerAgain")
    <3>1. n \in Job /\ SameAmounts(n, k) /\ n.pc = "lowerAgain" /\ n.settling = k.settling
      BY <1>0, AtSame DEF Running
    <3>2. Goes(r, n)
      BY <2>1, <2>3 DEF Fetched
    <3> HIDE DEF n
    <3>3. NothingPaid(n) <=> NothingPaid(k)
      BY <3>1, SameValues
    <3>4. Stage(n)
      BY <1>0, <2>3, <3>1, <3>3 DEF Stage
    <3>5. QED
      BY <1>2, <2>1, <3>1, <3>2, <3>4
  <2>4. QED
    BY <2>1, <2>2, <2>3
<1>11. ASSUME k.pc \in {"lower", "lowerAgain"}, Decrease(r) PROVE LedgerInv'
  BY <1>0, <1>4, <1>11 DEF Decrease
<1>12. CASE Lower(r)
  <2>1. CASE Only(r, Lowered(k))
    BY <1>4, <1>12, <2>1 DEF Lower, Only
  <2>2. CASE Only(r, [at("setLower") EXCEPT !.read = quota[UserOf(r)]])
    BY <1>6, <1>7, <1>12, <2>2 DEF Lower
  <2>3. QED
    BY <1>5, <1>11, <1>12, <2>1, <2>2 DEF Lower
<1>13. CASE LowerAgain(r)
  BY <1>5, <1>11, <1>13 DEF LowerAgain
<1>14. QED
  BY <1>8, <1>9, <1>10, <1>12, <1>13 DEF Caching

LEMMA LedgerSettling ==
  ASSUME LedgerInv, IInv', NEW r \in Requests, Settling(r)
  PROVE  LedgerInv'
<1> DEFINE k == job[r]
           at(pc) == At(k, pc)
<1>0. k \in Job /\ Stage(k) /\ quota \in [Users -> Int] /\ used \in [Tokens -> Int]
      /\ UserOf(r) \in Users /\ k.token \in Tokens
  BY Split, UserOfType DEF LedgerInv, Stages, Rows
<1>1. \A pc \in Ended : at(pc) \in Job /\ Stage(at(pc)) /\ SameAmounts(at(pc), k)
  BY <1>0, EndStage, AtSame
<1>2. Delta(k) = k.cost - k.hold /\ k.cost \in Int /\ k.hold \in Int
      /\ UserValue(k) \in Int /\ TokenValue(k) \in Int
  BY <1>0, AmountTypes, ValueType DEF Delta
<1>3. CASE Only(r, at("lost"))
  BY <1>1, <1>3, MovesAt DEF Only, Ended
<1>4. ASSUME k.settling, Only(r, at("lower")) PROVE LedgerInv'
  <2> DEFINE n == at("lower")
  <2>1. n \in Job /\ SameAmounts(n, k) /\ n.pc = "lower" /\ n.settling = TRUE
    BY <1>0, <1>4, AtSame DEF Running
  <2>2. Only(r, n)
    BY <1>4
  <2> HIDE DEF n
  <2>3. Stage(n)
    BY <2>1 DEF Stage
  <2>4. QED
    BY <2>1, <2>2, <2>3, MovesAt DEF Only
(* The user pays or is paid: from m, which differs from k in its pc only.  *)
<1>5. ASSUME NEW m \in Job, SameAmounts(m, k), NEW p \in Paid, Holds(k), p # "hold",
             m.pc \in {"lower", "settleToken", "returned", "returnToken"},
             m.pc \in {"settleToken", "returnToken"} => k.token \notin Unlimited,
             m.pc \in {"lower", "settleToken"} => m.settling,
             Goes(r, [m EXCEPT !.paid = p]), UNCHANGED used,
             NEW d \in Int, quota' = [quota EXCEPT ![UserOf(r)] = @ - d],
             d = IF p = "cost" THEN k.cost - k.hold ELSE -k.hold
      PROVE  LedgerInv'
  <2> DEFINE n == [m EXCEPT !.paid = p]
  <2>1. n \in Job
    BY <1>5 DEF Job
  <2>2. /\ n.pc = m.pc /\ n.token = k.token /\ n.hold = k.hold /\ n.cost = k.cost
        /\ n.paid = p /\ n.tokenPaid = k.tokenPaid /\ n.settling = m.settling
    BY <1>5, <2>1 DEF SameAmounts, Job
  <2>3. Goes(r, n)
    BY <1>5
  <2> HIDE DEF n
  <2>4. UserValue(n) = IF p = "cost" THEN k.cost ELSE 0
    BY <1>5, <2>2 DEF UserValue, Value, Paid
  <2>5. UserValue(k) = k.hold /\ TokenHolds(k)
    BY <1>5 DEF Holds, UserHolds
  <2>6. TokenValue(n) = TokenValue(k)
    BY <2>2, Zenon DEF TokenValue, Value
  <2>7. TokenHolds(n)
    BY <2>2, <2>5, <2>6 DEF TokenHolds
  <2>8. Stage(n)
    BY <1>5, <2>2, <2>7 DEF Stage
  <2>9. UserValue(n) - UserValue(k) = d
    BY <1>2, <1>5, <2>4, <2>5
  <2>10. quota' = [quota EXCEPT ![UserOf(r)] = @ - (UserValue(n) - UserValue(k))]
    BY <1>5, <2>9, Zenon
  <2>11. used' = [used EXCEPT ![k.token] = @ + (TokenValue(n) - TokenValue(k))]
    BY <1>0, <1>2, <1>5, <2>6
  <2>12. QED
    BY <2>1, <2>2, <2>3, <2>8, <2>10, <2>11, Books
(* The token pays or is paid.                                              *)
<1>6. ASSUME NEW m \in Job, SameAmounts(m, k), NEW p \in Paid, TokenHolds(k), p # "hold",
             k.token \notin Unlimited, m.pc \in {"lower", "returned"},
             m.pc = "lower" => m.settling,
             Goes(r, [m EXCEPT !.tokenPaid = p]), UNCHANGED quota,
             NEW d \in Int, used' = [used EXCEPT ![k.token] = @ + d],
             d = IF p = "cost" THEN k.cost - k.hold ELSE -k.hold
      PROVE  LedgerInv'
  <2> DEFINE n == [m EXCEPT !.tokenPaid = p]
  <2>1. n \in Job
    BY <1>6 DEF Job
  <2>2. /\ n.pc = m.pc /\ n.token = k.token /\ n.hold = k.hold /\ n.cost = k.cost
        /\ n.paid = k.paid /\ n.tokenPaid = p /\ n.settling = m.settling
    BY <1>6, <2>1 DEF SameAmounts, Job
  <2>3. Goes(r, n)
    BY <1>6
  <2> HIDE DEF n
  <2>4. TokenValue(n) = IF p = "cost" THEN k.cost ELSE 0
    BY <1>6, <2>2 DEF TokenValue, Value, Paid
  <2>5. TokenValue(k) = k.hold
    BY <1>6 DEF TokenHolds
  <2>6. UserValue(n) = UserValue(k)
    BY <2>2, Zenon DEF UserValue, Value
  <2>7. Stage(n)
    BY <1>6, <2>2 DEF Stage
  <2>8. TokenValue(n) - TokenValue(k) = d
    BY <1>2, <1>6, <2>4, <2>5
  <2>9. used' = [used EXCEPT ![k.token] = @ + (TokenValue(n) - TokenValue(k))]
    BY <1>6, <2>8, Zenon
  <2>10. quota' = [quota EXCEPT ![UserOf(r)] = @ - (UserValue(n) - UserValue(k))]
    BY <1>0, <1>2, <1>6, <2>6
  <2>11. QED
    BY <2>1, <2>2, <2>3, <2>7, <2>9, <2>10, Books
<1>7. CASE SettleUser(r)
  <2>0. k.settling /\ Holds(k)
    BY <1>0, <1>7 DEF SettleUser, Stage
  <2> DEFINE m == at(IF k.token \in Unlimited THEN "lower" ELSE "settleToken")
  <2>1. CASE Only(r, at("lower"))
    BY <1>4, <2>0, <2>1
  <2>2. CASE /\ quota' = [quota EXCEPT ![UserOf(r)] = @ - Delta(k)]
             /\ Goes(r, [m EXCEPT !.paid = "cost"])
             /\ UNCHANGED <<remain, used, cache>>
    <3>1. /\ m \in Job /\ SameAmounts(m, k) /\ m.settling = TRUE
          /\ m.pc = IF k.token \in Unlimited THEN "lower" ELSE "settleToken"
      BY <1>0, <2>0, AtSame DEF Running
    <3>2. Delta(k) \in Int /\ Delta(k) = k.cost - k.hold /\ "cost" \in Paid /\ "cost" # "hold"
      BY <1>2 DEF Paid
    <3> HIDE DEF m
    <3>3. /\ m.pc \in {"lower", "settleToken", "returned", "returnToken"}
          /\ m.pc \in {"settleToken", "returnToken"} => k.token \notin Unlimited
          /\ m.pc \in {"lower", "settleToken"} => m.settling
      BY <3>1
    <3>4. quota' = [quota EXCEPT ![UserOf(r)] = @ - Delta(k)] /\ UNCHANGED used
      BY <2>2
    <3>5. QED
      BY <1>5, <2>0, <2>2, <3>1, <3>2, <3>3, <3>4
  <2>3. QED
    BY <1>7, <2>1, <2>2 DEF SettleUser
<1>8. CASE SettleToken(r)
  <2>0. k.settling /\ TokenHolds(k) /\ k.token \notin Unlimited
    BY <1>0, <1>8 DEF SettleToken, Stage
  <2> DEFINE m == at("lower")
  <2>1. CASE Only(r, at("lower"))
    BY <1>4, <2>0, <2>1
  <2>2. CASE /\ TokenDebit(k.token, Delta(k))
             /\ Goes(r, [m EXCEPT !.tokenPaid = "cost"])
             /\ UNCHANGED <<quota, cache>>
    <3>1. m \in Job /\ SameAmounts(m, k) /\ m.settling = TRUE /\ m.pc = "lower"
      BY <1>0, <2>0, AtSame DEF Running
    <3>2. Delta(k) \in Int /\ Delta(k) = k.cost - k.hold /\ "cost" \in Paid /\ "cost" # "hold"
      BY <1>2 DEF Paid
    <3> HIDE DEF m
    <3>3. used' = [used EXCEPT ![k.token] = @ + Delta(k)] /\ UNCHANGED quota
      BY <2>2 DEF TokenDebit
    <3>4. m.pc \in {"lower", "returned"} /\ (m.pc = "lower" => m.settling)
      BY <3>1
    <3>5. QED
      BY <1>6, <2>0, <2>2, <3>1, <3>2, <3>3, <3>4
  <2>3. QED
    BY <1>8, <2>1, <2>2 DEF SettleToken
<1>9. CASE ReturnUser(r)
  <2>0. Holds(k)
    BY <1>0, <1>9 DEF ReturnUser, Stage
  <2> DEFINE m == at(IF k.token \in Unlimited THEN "returned" ELSE "returnToken")
  <2>1. CASE /\ quota' = [quota EXCEPT ![UserOf(r)] = @ + k.hold]
             /\ Goes(r, [m EXCEPT !.paid = "nothing"])
             /\ UNCHANGED <<remain, used, cache>>
    <3>1. /\ m \in Job /\ SameAmounts(m, k)
          /\ m.pc = IF k.token \in Unlimited THEN "returned" ELSE "returnToken"
      BY <1>0, AtSame DEF Running, Ended
    <3>2. -k.hold \in Int /\ "nothing" \in Paid /\ "nothing" # "hold" /\ "nothing" # "cost"
      BY <1>2 DEF Paid
    <3> HIDE DEF m
    <3>3. quota' = [quota EXCEPT ![UserOf(r)] = @ - (-k.hold)] /\ UNCHANGED used
      <4>1. quota[UserOf(r)] + k.hold = quota[UserOf(r)] - (-k.hold)
        BY <1>0, <1>2
      <4>2. QED
        BY <2>1, <4>1
    <3>4. /\ m.pc \in {"lower", "settleToken", "returned", "returnToken"}
          /\ m.pc \in {"settleToken", "returnToken"} => k.token \notin Unlimited
          /\ m.pc \in {"lower", "settleToken"} => m.settling
      BY <3>1
    <3>5. QED
      BY <1>5, <2>0, <2>1, <3>1, <3>2, <3>3, <3>4
  <2>2. QED
    BY <1>3, <1>9, <2>1 DEF ReturnUser
<1>10. CASE ReturnToken(r)
  <2>0. TokenHolds(k) /\ k.token \notin Unlimited
    BY <1>0, <1>10 DEF ReturnToken, Stage
  <2> DEFINE m == at("returned")
  <2>1. CASE /\ TokenDebit(k.token, -k.hold)
             /\ Goes(r, [m EXCEPT !.tokenPaid = "nothing"])
             /\ UNCHANGED <<quota, cache>>
    <3>1. m \in Job /\ SameAmounts(m, k) /\ m.pc = "returned"
      BY <1>0, AtSame DEF Ended
    <3>2. -k.hold \in Int /\ "nothing" \in Paid /\ "nothing" # "hold" /\ "nothing" # "cost"
      BY <1>2 DEF Paid
    <3> HIDE DEF m
    <3>3. used' = [used EXCEPT ![k.token] = @ + (-k.hold)] /\ UNCHANGED quota
      BY <2>1 DEF TokenDebit
    <3>4. m.pc \in {"lower", "returned"} /\ (m.pc = "lower" => m.settling)
      BY <3>1
    <3>5. QED
      BY <1>6, <2>0, <2>1, <3>1, <3>2, <3>3, <3>4
  <2>2. QED
    BY <1>3, <1>10, <2>1 DEF ReturnToken
<1>11. QED
  BY <1>7, <1>8, <1>9, <1>10 DEF Settling

(* A crash moves every request and pays nothing back.                      *)
LEMMA LedgerOther ==
  ASSUME LedgerInv, IInv', Crash \/ (\E u \in Users : Expire(u)) \/ UNCHANGED vars
  PROVE  LedgerInv'
<1>0. job \in [Requests -> Job] /\ Stages /\ UsersBooked /\ TokensBooked
  BY Split, SplitLedger DEF LedgerInv, Jobs
<1>1. UNCHANGED <<quota, used>>
  BY DEF Crash, Expire, vars
<1>2. ASSUME NEW q \in Requests
      PROVE  job'[q] = job[q] \/ job'[q] = At(job[q], "crashed")
  BY DEF Crash, Expire, vars
<1>3. ASSUME NEW q \in Requests
      PROVE  SameAmounts(job'[q], job[q]) /\ Stage(job'[q])
  <2>1. job[q] \in Job /\ Stage(job[q])
    BY <1>0 DEF Stages
  <2>2. SameAmounts(job[q], job[q])
    BY DEF SameAmounts
  <2>3. SameAmounts(At(job[q], "crashed"), job[q]) /\ Stage(At(job[q], "crashed"))
    BY <2>1, AtSame, EndStage DEF Ended
  <2>4. QED
    BY <1>2, <2>1, <2>2, <2>3
<1>4. Stages'
  <2>1. ASSUME NEW q \in Requests PROVE Stage(job[q])'
    <3>1. Stage(job'[q])
      BY <1>3
    <3>2. QED
      BY <3>1, Zenon DEF Stage, NothingPaid, Holds, UserHolds, TokenHolds, UserValue, TokenValue, Value
  <2>2. QED
    BY <2>1, Zenon DEF Stages
<1>5. ASSUME NEW q \in Requests
      PROVE  /\ UserValue(job'[q]) = UserValue(job[q]) /\ TokenValue(job'[q]) = TokenValue(job[q])
             /\ job'[q].token = job[q].token
  BY <1>3, SameValues DEF SameAmounts
<1>6. ASSUME NEW u \in Users PROVE Debited(u)' = Debited(u)
  <2>1. UserEntry(u)' = UserEntry(u)
    <3>1. UserEntry(u)' = [q \in Requests |-> IF Owner[job'[q].token] = u
                                              THEN UserValue(job'[q]) ELSE 0]
      BY DEF UserEntry, UserOf, UserValue, Value
    <3>2. UserEntry(u) = [q \in Requests |-> IF Owner[job[q].token] = u
                                             THEN UserValue(job[q]) ELSE 0]
      BY DEF UserEntry, UserOf
    <3>3. QED
      BY <1>5, <3>1, <3>2
  <2>2. Debited(u)' = SumFunction(UserEntry(u)') /\ Debited(u) = SumFunction(UserEntry(u))
    BY Zenon DEF Debited, UserEntry, UserValue
  <2>3. QED
    BY <2>1, <2>2
<1>7. ASSUME NEW t \in Tokens PROVE TokenDebited(t)' = TokenDebited(t)
  <2>1. TokenEntry(t)' = TokenEntry(t)
    <3>1. TokenEntry(t)' = [q \in Requests |-> IF job'[q].token = t
                                               THEN TokenValue(job'[q]) ELSE 0]
      BY DEF TokenEntry, TokenValue, Value
    <3>2. TokenEntry(t) = [q \in Requests |-> IF job[q].token = t
                                              THEN TokenValue(job[q]) ELSE 0]
      BY DEF TokenEntry
    <3>3. QED
      BY <1>5, <3>1, <3>2
  <2>2. TokenDebited(t)' = SumFunction(TokenEntry(t)')
        /\ TokenDebited(t) = SumFunction(TokenEntry(t))
    BY Zenon DEF TokenDebited, TokenEntry, TokenValue
  <2>3. QED
    BY <2>1, <2>2
<1>8. TokenBalanced'
  BY DEF IInv
<1>9. QED
  BY <1>1, <1>4, <1>6, <1>7, <1>8 DEF LedgerInv, LedgerByOutcome

LEMMA LedgerNext == LedgerInv /\ [Next]_vars => LedgerInv'
<1>1. SUFFICES ASSUME LedgerInv, [Next]_vars PROVE LedgerInv'
  OBVIOUS
<1>2. IInv'
  BY <1>1, NextInv DEF LedgerInv
<1>3. CASE \E r \in Requests : Admission(r) \/ Provider(r) \/ Caching(r) \/ Settling(r)
  BY <1>1, <1>2, <1>3, LedgerAdmission, LedgerProvider, LedgerCaching, LedgerSettling
<1>4. CASE Crash \/ (\E u \in Users : Expire(u)) \/ UNCHANGED vars
  BY <1>1, <1>2, <1>4, LedgerOther
<1>5. QED
  BY <1>1, <1>3, <1>4 DEF Next

LEMMA LedgerInductive == Spec => []LedgerInv
  BY LedgerInit, LedgerNext, PTL DEF Spec

\* Whatever the interleaving, error or crash, users.quota has lost, and
\* tokens.used_quota has gained, exactly what each request of the user and of
\* the token still holds or has settled.
THEOREM LedgerKept == Spec => []LedgerByOutcome
<1>1. LedgerInv => LedgerByOutcome
  BY DEF LedgerInv
<1>2. QED
  BY <1>1, LedgerInductive, PTL

-----------------------------------------------------------------------------
(* The cached quota, while nobody refetches it.                            *)

Holding == {"checkToken", "checkUser", "takeToken", "takeUser"}
Lowering == {"lower", "setLower", "lowerAgain"}

(* What the cached quota allows for: a hold that was lowered and is not    *)
(* taken yet counts against it, a difference that was settled and not      *)
(* lowered yet, or lowered and not settled, for it.                        *)
Slack(k) ==
    IF k.pc \in Holding THEN -k.hold
    ELSE IF k.paid = "cost" /\ ~k.lowered THEN Delta(k)
    ELSE IF k.paid = "hold" /\ k.lowered /\ Delta(k) < 0 THEN -Delta(k) ELSE 0

SlackEntry(u) == [r \in Requests |-> IF UserOf(r) = u THEN Slack(job[r]) ELSE 0]

(* Only a request that ends has lowered the cache in its settlement.       *)
Cached(k) ==
    /\ k.lowered => k.pc \in Ended
    /\ k.pc \in Lowering /\ k.paid = "nothing" => k.hold = 0
    /\ k.pc = "settleToken" => k.paid = "cost"

LowInv ==
    /\ \A r \in Requests : Cached(job[r])
    /\ \A u \in Users : KeyExists(u) => cache[u] <= quota[u] + SumFunction(SlackEntry(u))

LEMMA SlackType ==
  ASSUME NEW k \in Job
  PROVE  Slack(k) \in Int /\ Ahead(k) \in Int
  BY AmountTypes DEF Slack, Ahead

LEMMA KeyIsInt ==
  ASSUME Keys, NEW u \in Users
  PROVE  KeyExists(u) <=> cache[u] \in Int
  BY FlagsAssumption DEF Keys, KeyExists, RedisEnabled

(* One request moves, of the user's quota and the cached quota.            *)
LEMMA LowStep ==
  ASSUME IInv, IInv', LowInv, NEW r \in Requests, NEW n \in Job, Goes(r, n), Cached(n),
         n.token = job[r].token \/ (Slack(n) = 0 /\ Slack(job[r]) = 0),
         \A u \in Users : u # UserOf(r) => quota'[u] = quota[u] /\ cache'[u] = cache[u],
         cache'[UserOf(r)] \in Int =>
             /\ cache[UserOf(r)] \in Int
             /\ cache'[UserOf(r)] - cache[UserOf(r)]
                  <= quota'[UserOf(r)] - quota[UserOf(r)] + Slack(n) - Slack(job[r])
  PROVE  LowInv'
<1> DEFINE v == Slack(job[r])
           w == Slack(n)
<1>0. /\ quota \in [Users -> Int] /\ quota' \in [Users -> Int] /\ Keys /\ Keys'
      /\ job \in [Requests -> Job] /\ job[r] \in Job /\ UserOf(r) \in Users
  <2>1. Rows /\ Keys /\ Jobs
    BY Split
  <2>2. quota' \in [Users -> Int] /\ Keys'
    BY DEF IInv, TypeOK, Keys
  <2>3. QED
    BY <2>1, <2>2, UserOfType DEF Rows, Jobs
<1>1. job' = [job EXCEPT ![r] = n]
  BY DEF Goes
<1>2. \A q \in Requests : job'[q] \in Job
  BY <1>0, <1>1
<1>3. v \in Int /\ w \in Int
  BY <1>0, SlackType
<1>4. \A q \in Requests : Cached(job'[q])
  BY <1>0, <1>1 DEF LowInv
<1>5. ASSUME NEW u \in Users, KeyExists(u)'
      PROVE  cache'[u] <= quota'[u] + SumFunction(SlackEntry(u)')
  <2>e. /\ SlackEntry(u) = [q \in Requests |-> IF UserOf(q) = u THEN Slack(job[q]) ELSE 0]
        /\ SlackEntry(u)' = [q \in Requests |-> IF Owner[job'[q].token] = u
                                                THEN Slack(job'[q]) ELSE 0]
    BY DEF SlackEntry, UserOf, Slack, Delta, Holding
  <2>1. SlackEntry(u) \in [Requests -> Int] /\ SlackEntry(u)' \in [Requests -> Int]
    <3>1. \A q \in Requests : Slack(job[q]) \in Int /\ Slack(job'[q]) \in Int
      BY <1>0, <1>2, SlackType
    <3>2. QED
      BY <2>e, <3>1
  <2>2. \A q \in Requests : q # r => SlackEntry(u)'[q] = SlackEntry(u)[q]
    BY <1>0, <1>1, <2>e, Zenon DEF UserOf
  <2>3. /\ SlackEntry(u)[r] = IF UserOf(r) = u THEN v ELSE 0
        /\ SlackEntry(u)'[r] = IF Owner[n.token] = u THEN w ELSE 0
    BY <1>0, <1>1, <2>e
  <2>4. SumFunction(SlackEntry(u)')
        = SumFunction(SlackEntry(u)) + SlackEntry(u)'[r] - SlackEntry(u)[r]
    BY <2>1, <2>2, SumChange, FiniteAssumption
  <2>5. SumFunction(SlackEntry(u)) \in Int
    BY <2>1, SumType, FiniteAssumption
  <2>6. (n.token = job[r].token /\ Owner[n.token] = UserOf(r)) \/ (w = 0 /\ v = 0)
    BY DEF UserOf
  <2>7. cache'[u] \in Int
    BY <1>0, <1>5 DEF KeyExists, RedisEnabled, Keys
  <2>8. cache[u] \in Int /\ quota[u] \in Int /\ quota'[u] \in Int
    BY <1>0, <2>7
  <2>9. cache[u] <= quota[u] + SumFunction(SlackEntry(u))
    BY <1>0, <2>8, KeyIsInt DEF LowInv
  <2>10. CASE u = UserOf(r)
    <3>1. cache'[u] - cache[u] <= quota'[u] - quota[u] + w - v
      BY <2>7, <2>10
    <3> HIDE DEF v, w
    <3>2. SumFunction(SlackEntry(u)') = SumFunction(SlackEntry(u)) + w - v
      BY <1>3, <2>3, <2>4, <2>5, <2>6, <2>10
    <3>3. QED
      BY <1>3, <2>5, <2>7, <2>8, <2>9, <3>1, <3>2
  <2>11. CASE u # UserOf(r)
    <3>1. quota'[u] = quota[u] /\ cache'[u] = cache[u]
      BY <2>11
    <3> HIDE DEF v, w
    <3>2. SumFunction(SlackEntry(u)') = SumFunction(SlackEntry(u))
      BY <1>3, <2>3, <2>4, <2>5, <2>6, <2>11
    <3>3. QED
      BY <2>9, <3>1, <3>2
  <2>12. QED
    BY <2>10, <2>11
<1>6. QED
  BY <1>4, <1>5 DEF LowInv, Cached, Lowering

(* A request that only moves: neither quota nor cached quota changes.      *)
LEMMA LowOnly ==
  ASSUME IInv, IInv', LowInv, NEW r \in Requests, NEW n \in Job, Goes(r, n), Cached(n),
         UNCHANGED <<quota, cache>>,
         n.token = job[r].token \/ (Slack(n) = 0 /\ Slack(job[r]) = 0),
         Slack(job[r]) <= Slack(n)
  PROVE  LowInv'
<1>1. /\ Goes(r, n) /\ quota' = quota /\ cache' = cache
      /\ quota \in [Users -> Int] /\ Keys /\ job[r] \in Job /\ UserOf(r) \in Users
  BY Split, UserOfType DEF Rows
<1>2. cache'[UserOf(r)] \in Int =>
             /\ cache[UserOf(r)] \in Int
             /\ cache'[UserOf(r)] - cache[UserOf(r)]
                  <= quota'[UserOf(r)] - quota[UserOf(r)] + Slack(n) - Slack(job[r])
  BY <1>1, SlackType
<1>3. QED
  BY <1>1, <1>2, LowStep

(* A request that changes nothing the cached quota depends on.             *)
SameUser(n, k) ==
    /\ n.token = k.token /\ n.hold = k.hold /\ n.cost = k.cost
    /\ n.paid = k.paid /\ n.lowered = k.lowered

LEMMA LowMoves ==
  ASSUME IInv, IInv', LowInv, NEW r \in Requests, NEW n \in Job, Goes(r, n),
         UNCHANGED <<quota, cache>>, SameUser(n, job[r]), ~job[r].lowered,
         n.pc \in Holding => job[r].pc \in Holding,
         job[r].pc \in Holding => n.pc \in Holding \/ job[r].paid = "nothing",
         n.pc \in Lowering /\ job[r].paid = "nothing" => job[r].hold = 0,
         n.pc # "settleToken"
  PROVE  LowInv'
<1> DEFINE k == job[r]
<1>0. k \in Job /\ k.hold \in Nat /\ k.cost \in Nat
  BY Split, UserOfType, AmountTypes
<1>1. Cached(n)
  BY DEF Cached, SameUser
<1>2. Delta(n) = Delta(k)
  BY DEF SameUser, Delta
<1>3. Slack(k) <= Slack(n)
  <2>1. Slack(n) = IF n.pc \in Holding THEN -k.hold ELSE IF k.paid = "cost" THEN Delta(k) ELSE 0
    BY <1>2 DEF Slack, SameUser
  <2>2. Slack(k) = IF k.pc \in Holding THEN -k.hold ELSE IF k.paid = "cost" THEN Delta(k) ELSE 0
    BY DEF Slack
  <2>3. Delta(k) \in Int
    BY <1>0, AmountTypes
  <2>4. QED
    BY <1>0, <2>1, <2>2, <2>3
<1>4. n.token = k.token
  BY DEF SameUser
<1>5. QED
  BY <1>1, <1>3, <1>4, LowOnly

LEMMA AtSameUser ==
  ASSUME NEW k \in Job, NEW pc \in Ended \cup {"idle"} \cup Running
  PROVE  At(k, pc) \in Job /\ At(k, pc).pc = pc /\ SameUser(At(k, pc), k)
         /\ At(k, pc).settling = k.settling /\ At(k, pc).tokenPaid = k.tokenPaid
<1>1. At(k, pc) \in Job
  BY AtType
<1>2. QED
  BY <1>1 DEF SameUser, At, Job

(* What holds of a request that takes a step.                              *)
LEMMA LowFacts ==
  ASSUME LedgerInv, LowInv, NEW r \in Requests, job[r].pc \notin Ended
  PROVE  /\ IInv /\ job[r] \in Job /\ Stage(job[r]) /\ Cached(job[r]) /\ ~job[r].lowered
         /\ quota \in [Users -> Int] /\ Keys
         /\ UserOf(r) \in Users /\ job[r].token \in Tokens
         /\ job[r].hold \in Nat /\ job[r].cost \in Nat /\ job[r].pre \in Nat
         /\ Delta(job[r]) = job[r].cost - job[r].hold /\ Delta(job[r]) \in Int
<1>1. IInv /\ Rows /\ Keys /\ Jobs /\ job[r] \in Job /\ Stage(job[r]) /\ Cached(job[r])
  BY Split, UserOfType DEF LedgerInv, LowInv, Stages
<1>2. ~job[r].lowered
  BY <1>1 DEF Cached
<1>3. QED
  BY <1>1, <1>2, UserOfType, AmountTypes DEF Rows, Delta

LEMMA LowAdmission ==
  ASSUME LedgerInv, IInv', LowInv, NEW r \in Requests, Admission(r)
  PROVE  LowInv'
<1> DEFINE k == job[r]
           at(pc) == At(k, pc)
           PCs == Ended \cup {"idle"} \cup Running
<1>0. k.pc \notin Ended
  BY DEF Admission, Begin, Admit, CheckToken, CheckUser, TakeToken, TakeUser, Ended
<1>1. /\ IInv /\ k \in Job /\ Stage(k) /\ Cached(k) /\ ~k.lowered
      /\ quota \in [Users -> Int] /\ Keys /\ UserOf(r) \in Users /\ k.hold \in Nat
  BY <1>0, LowFacts
<1>2. \A pc \in PCs : at(pc) \in Job /\ at(pc).pc = pc /\ SameUser(at(pc), k)
  BY <1>1, AtSameUser
<1>3. ASSUME NEW pc \in PCs, Only(r, at(pc)),
             pc \in Holding => k.pc \in Holding,
             k.pc \in Holding => pc \in Holding \/ k.paid = "nothing",
             pc \in Lowering /\ k.paid = "nothing" => k.hold = 0,
             pc # "settleToken"
      PROVE  LowInv'
  <2>1. Goes(r, at(pc)) /\ UNCHANGED <<quota, cache>>
    BY <1>3 DEF Only
  <2>2. at(pc) \in Job /\ at(pc).pc = pc /\ SameUser(at(pc), k)
    BY <1>2
  <2>3. QED
    BY <1>1, <1>3, <2>1, <2>2, LowMoves
<1>4. CASE Begin(r)
  <2>1. PICK kind \in Kinds, t \in Tokens, q \in Sizes : Only(r, NewJob(kind, t, q))
    BY <1>4 DEF Begin
  <2> DEFINE n == NewJob(kind, t, q)
  <2>2. n \in Job
    BY NewJobType
  <2>3. n.pc = "get" /\ n.lowered = FALSE /\ n.paid = "nothing"
    BY DEF NewJob
  <2>4. NothingPaid(k) /\ k.pc = "idle"
    BY <1>1, <1>4 DEF Begin, Stage
  <2>5. Slack(n) = 0 /\ Slack(k) = 0
    BY <2>3, <2>4 DEF NothingPaid, Slack, Holding
  <2>6. Cached(n)
    BY <2>3 DEF Cached, Lowering
  <2> HIDE DEF n
  <2>7. Goes(r, n) /\ UNCHANGED <<quota, cache>>
    BY <2>1 DEF Only, n
  <2>8. QED
    BY <1>1, <2>2, <2>5, <2>6, <2>7, LowOnly
<1>5. CASE Admit(r)
  <2>1. k.pc = "admit" /\ k.hold = 0
    BY <1>1, <1>5 DEF Admit, Stage
  <2>2. PICK pc \in {"refused", "upstream", "lower"} : Only(r, at(pc))
    BY <1>5 DEF Admit
  <2>3. QED
    BY <1>3, <2>1, <2>2 DEF Holding, Ended, Running
<1>6. CASE CheckToken(r)
  <2>1. k.pc = "checkToken" /\ k.paid = "nothing"
    BY <1>1, <1>6 DEF CheckToken, Stage, NothingPaid
  <2>2. PICK pc \in {"refused", "checkUser"} : Only(r, at(pc))
    BY <1>6 DEF CheckToken
  <2>3. QED
    BY <1>3, <2>1, <2>2 DEF Holding, Lowering, Ended, Running
<1>7. CASE CheckUser(r)
  <2>1. k.pc = "checkUser" /\ k.paid = "nothing"
    BY <1>1, <1>7 DEF CheckUser, Stage, NothingPaid
  <2>2. PICK pc \in {"refused", "takeToken", "takeUser"} : Only(r, at(pc))
    BY <1>7 DEF CheckUser
  <2>3. QED
    BY <1>3, <2>1, <2>2 DEF Holding, Lowering, Ended, Running
<1>8. CASE TakeToken(r)
  <2>1. k.pc = "takeToken" /\ k.paid = "nothing"
    BY <1>1, <1>8 DEF TakeToken, Stage, NothingPaid
  <2>2. CASE Only(r, at("refused"))
    BY <1>3, <2>1, <2>2 DEF Holding, Lowering, Ended
  <2>3. CASE /\ Goes(r, [at("takeUser") EXCEPT !.tokenPaid = "hold"])
             /\ UNCHANGED <<quota, cache>>
    <3> DEFINE m == at("takeUser")
               n == [m EXCEPT !.tokenPaid = "hold"]
    <3>1. m \in Job /\ m.pc = "takeUser" /\ SameUser(m, k)
      BY <1>2 DEF Running
    <3> HIDE DEF m
    <3>2. n \in Job
      BY <3>1 DEF Job, Paid
    <3>3. n.pc = "takeUser" /\ SameUser(n, k)
      BY <3>1, <3>2 DEF SameUser, Job
    <3>4. Goes(r, n)
      BY <2>3 DEF m
    <3> HIDE DEF n
    <3>5. QED
      BY <1>1, <2>1, <2>3, <3>2, <3>3, <3>4, LowMoves DEF Holding, Lowering
  <2>4. QED
    BY <1>8, <2>2, <2>3 DEF TakeToken
<1>9. CASE TakeUser(r)
  <2>1. k.pc = "takeUser" /\ k.paid = "nothing"
    BY <1>1, <1>9 DEF TakeUser, Stage
  <2>2. CASE Only(r, at("refused"))
    BY <1>3, <2>1, <2>2 DEF Holding, Lowering, Ended
  <2>3. CASE /\ quota' = [quota EXCEPT ![UserOf(r)] = @ - k.hold]
             /\ Goes(r, [at("upstream") EXCEPT !.paid = "hold"])
             /\ UNCHANGED <<remain, used, cache>>
    <3> DEFINE m == at("upstream")
               n == [m EXCEPT !.paid = "hold"]
    <3>1. m \in Job /\ m.pc = "upstream" /\ SameUser(m, k)
      BY <1>2 DEF Running
    <3> HIDE DEF m
    <3>2. n \in Job
      BY <3>1 DEF Job, Paid
    <3>3. n.pc = "upstream" /\ n.paid = "hold" /\ n.token = k.token /\ n.lowered = k.lowered
      BY <3>1, <3>2 DEF SameUser, Job
    <3>4. Goes(r, n)
      BY <2>3 DEF m
    <3> HIDE DEF n
    <3>5. Slack(n) = 0 /\ Slack(k) = -k.hold
      BY <1>1, <2>1, <3>3 DEF Slack, Holding
    <3>6. Cached(n)
      BY <1>1, <3>3 DEF Cached, Lowering
    <3>7. \A u \in Users : u # UserOf(r) => quota'[u] = quota[u] /\ cache'[u] = cache[u]
      BY <1>1, <2>3
    <3>8. cache'[UserOf(r)] \in Int =>
             /\ cache[UserOf(r)] \in Int
             /\ cache'[UserOf(r)] - cache[UserOf(r)]
                  <= quota'[UserOf(r)] - quota[UserOf(r)] + Slack(n) - Slack(k)
      <4>1. quota'[UserOf(r)] = quota[UserOf(r)] - k.hold /\ cache' = cache
        BY <1>1, <2>3
      <4>2. quota[UserOf(r)] \in Int
        BY <1>1
      <4>3. QED
        BY <1>1, <3>5, <4>1, <4>2
    <3>9. QED
      BY <1>1, <3>2, <3>3, <3>4, <3>6, <3>7, <3>8, LowStep
  <2>4. QED
    BY <1>9, <2>2, <2>3 DEF TakeUser
<1>10. QED
  BY <1>4, <1>5, <1>6, <1>7, <1>8, <1>9 DEF Admission

LEMMA LowProvider ==
  ASSUME LedgerInv, IInv', LowInv, NEW r \in Requests, Provider(r)
  PROVE  LowInv'
<1> DEFINE k == job[r]
           at(pc) == At(k, pc)
           PCs == Ended \cup {"idle"} \cup Running
<1>0. k.pc = "upstream" /\ k.pc \notin Ended
  BY DEF Provider, Abandon, NilUsage, Reject, Answer, Ended
<1>1. IInv /\ k \in Job /\ Stage(k) /\ ~k.lowered
  BY <1>0, LowFacts
<1>2. \A pc \in PCs : at(pc) \in Job /\ at(pc).pc = pc /\ SameUser(at(pc), k)
  BY <1>1, AtSameUser
<1>3. CASE Abandon(r) \/ NilUsage(r) \/ Reject(r)
  <2>1. PICK pc \in {"abandoned", "uncharged", "returned", "returnUser"} : Only(r, at(pc))
    BY <1>3 DEF Abandon, NilUsage, Reject
  <2>2. Goes(r, at(pc)) /\ UNCHANGED <<quota, cache>>
    BY <2>1 DEF Only
  <2>3. at(pc) \in Job /\ at(pc).pc = pc /\ SameUser(at(pc), k)
    BY <1>2 DEF Ended, Running
  <2>4. k.pc \notin Holding /\ pc \notin Holding /\ pc \notin Lowering /\ pc # "settleToken"
    BY <1>0 DEF Holding, Lowering
  <2>5. QED
    BY <1>1, <2>2, <2>3, <2>4, LowMoves
<1>4. CASE Answer(r)
  <2>1. PICK c \in IF k.kind = "image" THEN {k.pre} ELSE Sizes :
           Only(r, [at(IF k.kind = "text" THEN "get" ELSE "settleUser")
                       EXCEPT !.settling = TRUE, !.cost = c])
    BY <1>4 DEF Answer
  <2> DEFINE m == at(IF k.kind = "text" THEN "get" ELSE "settleUser")
             n == [m EXCEPT !.settling = TRUE, !.cost = c]
  <2>2. c \in Sizes
    BY <1>1 DEF Job
  <2>3. m \in Job /\ SameUser(m, k) /\ m.pc \in {"get", "settleUser"}
    BY <1>2 DEF Running
  <2> HIDE DEF m
  <2>4. n \in Job
    BY <2>2, <2>3 DEF Job
  <2>5. n.pc \in {"get", "settleUser"} /\ n.token = k.token /\ n.paid = k.paid /\ ~n.lowered
    BY <1>1, <2>3, <2>4 DEF Job, SameUser
  <2>6. Goes(r, n) /\ UNCHANGED <<quota, cache>>
    BY <2>1 DEF Only, m
  <2> HIDE DEF n
  <2>7. k.paid # "cost"
    BY <1>0, <1>1 DEF Stage, Holds, UserHolds
  <2>8. Slack(n) = 0 /\ Slack(k) = 0
    BY <1>0, <1>1, <2>5, <2>7 DEF Slack, Holding
  <2>9. Cached(n)
    BY <2>5 DEF Cached, Lowering
  <2>10. QED
    BY <1>1, <2>4, <2>5, <2>6, <2>8, <2>9, LowOnly
<1>5. QED
  BY <1>3, <1>4 DEF Provider

(* Lowering the cached quota of a request at lower or lowerAgain.          *)
LEMMA LowDecrease ==
  ASSUME LedgerInv, IInv', LowInv, NEW r \in Requests, job[r].pc \in {"lower", "lowerAgain"},
         NEW b \in BOOLEAN, NEW n, n = [Lowered(job[r]) EXCEPT !.lowered = b],
         b => job[r].settling, Goes(r, n), UNCHANGED quota,
         \/ b = job[r].settling /\ KeyExists(UserOf(r))
            /\ cache' = [cache EXCEPT ![UserOf(r)] = @ - Amount(job[r])]
         \/ ~RedisEnabled(UserOf(r)) /\ UNCHANGED cache
  PROVE  LowInv'
<1> DEFINE k == job[r]
           u == UserOf(r)
<1>1. /\ IInv /\ k \in Job /\ Stage(k) /\ Cached(k) /\ ~k.lowered
      /\ quota \in [Users -> Int] /\ Keys /\ u \in Users
      /\ k.hold \in Nat /\ k.cost \in Nat /\ k.pre \in Nat
      /\ Delta(k) = k.cost - k.hold /\ Delta(k) \in Int
  <2>1. k.pc \notin Ended
    BY DEF Ended
  <2>2. QED
    BY <2>1, LowFacts
<1>2. k.pc \notin Holding /\ k.pc \in Lowering
  BY DEF Holding, Lowering
<1>3. Lowered(k) \in Job /\ n \in Job
  BY <1>1, LoweredType
<1>4. CASE k.settling
  <2>1. Lowered(k) = At(k, "done")
    BY <1>4 DEF Lowered
  <2>2. SameUser(Lowered(k), k) /\ Lowered(k).pc = "done"
    BY <1>1, <2>1, AtSameUser DEF Ended
  <2>3. /\ n.pc = "done" /\ n.token = k.token /\ n.hold = k.hold /\ n.cost = k.cost
        /\ n.paid = k.paid /\ n.lowered = b
    BY <1>3, <2>2 DEF SameUser, Job
  <2>4. Cached(n)
    BY <2>3 DEF Cached, Ended, Lowering
  <2>5. Slack(k) = IF k.paid = "cost" THEN Delta(k) ELSE 0
    BY <1>1, <1>2 DEF Slack
  <2>6. Slack(n) = IF k.paid = "cost" /\ ~b THEN Delta(k)
                   ELSE IF k.paid = "hold" /\ b /\ Delta(k) < 0 THEN -Delta(k) ELSE 0
    BY <1>1, <2>3 DEF Slack, Delta, Holding
  <2>7. k.paid = "nothing" => Delta(k) >= 0
    BY <1>1, <1>2 DEF Cached
  <2>8. k.paid \in {"nothing", "hold", "cost"}
    BY <1>1 DEF Job, Paid
  <2>9. \A o \in Users : o # u => quota'[o] = quota[o] /\ cache'[o] = cache[o]
    BY <1>1 DEF Keys
  <2>10. cache'[u] \in Int =>
             cache[u] \in Int /\ cache'[u] - cache[u] <= quota'[u] - quota[u] + Slack(n) - Slack(k)
    <3>1. CASE b = k.settling /\ KeyExists(u) /\ cache' = [cache EXCEPT ![u] = @ - Amount(k)]
      <4>1. Amount(k) = Delta(k) /\ b
        BY <1>4, <3>1 DEF Amount
      <4>2. cache[u] \in Int
        BY <1>1, <3>1, KeyIsInt
      <4>3. cache'[u] = cache[u] - Delta(k)
        BY <1>1, <3>1, <4>1 DEF Keys
      <4>4. quota[u] \in Int /\ quota'[u] = quota[u]
        BY <1>1
      <4>5. Slack(n) - Slack(k) >= -Delta(k) /\ Slack(n) \in Int /\ Slack(k) \in Int
        BY <1>1, <2>5, <2>6, <2>7, <2>8, <4>1
      <4>6. QED
        BY <1>1, <4>2, <4>3, <4>4, <4>5
    <3>2. CASE ~RedisEnabled(u) /\ UNCHANGED cache
      BY <3>2, FlagsAssumption DEF RedisEnabled
    <3>3. QED
      BY <3>1, <3>2
  <2>11. QED
    BY <1>1, <1>3, <2>3, <2>4, <2>9, <2>10, LowStep
<1>5. CASE ~k.settling
  <2> DEFINE m == At(k, IF Held(k) > 0 THEN "checkToken" ELSE "upstream")
  <2>1. m \in Job /\ SameUser(m, k) /\ m.pc = IF Held(k) > 0 THEN "checkToken" ELSE "upstream"
    BY <1>1, AtSameUser DEF Running
  <2>2. Lowered(k) = [m EXCEPT !.hold = Held(k)]
    BY <1>5 DEF Lowered
  <2>3. k.paid = "nothing" /\ b = FALSE
    BY <1>1, <1>5 DEF Stage, NothingPaid
  <2>4. Held(k) \in {0, k.pre}
    BY <1>1 DEF Held
  <2> HIDE DEF m
  <2>5. /\ Lowered(k).pc = m.pc /\ Lowered(k).hold = Held(k)
        /\ Lowered(k).token = k.token /\ Lowered(k).paid = k.paid
    BY <1>3, <2>1, <2>2 DEF SameUser, Job
  <2>6. /\ n.pc = m.pc /\ n.hold = Held(k) /\ n.token = k.token /\ n.paid = "nothing"
        /\ n.lowered = FALSE
    BY <1>3, <2>3, <2>5 DEF Job
  <2>7. Cached(n)
    BY <2>1, <2>6 DEF Cached, Lowering
  <2>8. Slack(k) = 0
    BY <1>1, <1>2, <2>3 DEF Slack
  <2>9. Slack(n) \in Int /\ Slack(n) >= -k.pre
    <3>1. CASE Held(k) > 0
      BY <1>1, <2>1, <2>4, <2>6, <3>1 DEF Slack, Holding
    <3>2. CASE ~(Held(k) > 0)
      BY <1>1, <2>1, <2>6, <3>2 DEF Slack, Holding
    <3>3. QED
      BY <3>1, <3>2
  <2>10. \A o \in Users : o # u => quota'[o] = quota[o] /\ cache'[o] = cache[o]
    BY <1>1 DEF Keys
  <2>11. cache'[u] \in Int =>
             cache[u] \in Int /\ cache'[u] - cache[u] <= quota'[u] - quota[u] + Slack(n) - Slack(k)
    <3>1. CASE KeyExists(u) /\ cache' = [cache EXCEPT ![u] = @ - Amount(k)]
      <4>1. Amount(k) = k.pre
        BY <1>5 DEF Amount
      <4>2. cache[u] \in Int
        BY <1>1, <3>1, KeyIsInt
      <4>3. cache'[u] = cache[u] - k.pre
        BY <1>1, <3>1, <4>1 DEF Keys
      <4>4. quota[u] \in Int /\ quota'[u] = quota[u]
        BY <1>1
      <4>5. QED
        BY <1>1, <2>8, <2>9, <4>2, <4>3, <4>4
    <3>2. CASE ~RedisEnabled(u) /\ UNCHANGED cache
      BY <3>2, FlagsAssumption DEF RedisEnabled
    <3>3. QED
      BY <3>1, <3>2
  <2>12. QED
    BY <1>1, <1>3, <2>6, <2>7, <2>10, <2>11, LowStep
<1>6. QED
  BY <1>4, <1>5

LEMMA LowCaching ==
  ASSUME LedgerInv, IInv', LowInv, ~Refreshing, ~Refreshing', NEW r \in Requests, Caching(r)
  PROVE  LowInv'
<1> DEFINE k == job[r]
           at(pc) == At(k, pc)
           PCs == Ended \cup {"idle"} \cup Running
<1>0. k.pc \in {"get", "lower", "lowerAgain"} /\ k.pc \notin Ended
  BY DEF Refreshing, Caching, Get, GetError, Set, Lower, LowerAgain, Ended
<1>1. /\ IInv /\ k \in Job /\ Stage(k) /\ Cached(k) /\ ~k.lowered
      /\ job \in [Requests -> Job] /\ quota[UserOf(r)] \in Int /\ Keys /\ UserOf(r) \in Users
  BY <1>0, LowFacts, Split DEF Jobs
<1>2. \A pc \in PCs : at(pc) \in Job /\ at(pc).pc = pc /\ SameUser(at(pc), k)
  BY <1>1, AtSameUser
<1>3. ASSUME NEW n \in Job, Only(r, n) PROVE n.pc \notin {"set", "setLower"}
  <2>1. job'[r] = n
    BY <1>1, <1>3 DEF Only, Goes
  <2>2. QED
    BY <2>1 DEF Refreshing
<1>4. ASSUME NEW n \in Job, Only(r, n), SameUser(n, k), n.pc \in Ended \cup {"admit", "settleUser"}
      PROVE  LowInv'
  <2>1. Goes(r, n) /\ UNCHANGED <<quota, cache>>
    BY <1>4 DEF Only
  <2>2. k.pc \notin Holding /\ n.pc \notin Holding /\ n.pc \notin Lowering /\ n.pc # "settleToken"
    BY <1>0, <1>4 DEF Holding, Lowering, Ended
  <2>3. QED
    BY <1>1, <1>4, <2>1, <2>2, LowMoves
<1>5. ASSUME NEW v \in Int, Only(r, Got(k, v)) PROVE LowInv'
  <2>1. Got(k, v) \in Job
    BY <1>1, GotType
  <2>2. SameUser(Got(k, v), k) /\ Got(k, v).pc \in {"admit", "settleUser"}
    <3>1. CASE k.settling
      BY <1>2, <3>1 DEF Got, Running
    <3>2. CASE ~k.settling
      <4> DEFINE m == at("admit")
      <4>1. m \in Job /\ m.pc = "admit" /\ SameUser(m, k)
        BY <1>2 DEF Running
      <4>2. Got(k, v) = [m EXCEPT !.seen = v]
        BY <3>2 DEF Got
      <4> HIDE DEF m
      <4>3. QED
        BY <4>1, <4>2 DEF SameUser, Job
    <3>3. QED
      BY <3>1, <3>2
  <2>3. QED
    BY <1>4, <1>5, <2>1, <2>2
<1>6. ASSUME NEW pc \in {"set", "setLower"}, NEW v \in Int, Only(r, [at(pc) EXCEPT !.read = v])
      PROVE  FALSE
  <2> DEFINE m == at(pc)
             n == [m EXCEPT !.read = v]
  <2>1. m \in Job /\ m.pc = pc
    BY <1>2 DEF Running
  <2>2. Only(r, n)
    BY <1>6
  <2> HIDE DEF m
  <2>3. n \in Job
    BY <2>1 DEF Job
  <2>4. n.pc = pc
    BY <2>1, <2>3 DEF Job
  <2> HIDE DEF n
  <2>5. QED
    BY <1>3, <2>2, <2>3, <2>4
<1>7. ASSUME Only(r, NotLowered(k)) PROVE LowInv'
  <2>1. PICK pc \in {"done", "refused"} : NotLowered(k) = at(pc)
    BY DEF NotLowered
  <2>2. at(pc) \in Job /\ at(pc).pc = pc /\ SameUser(at(pc), k)
    BY <1>2 DEF Ended
  <2>3. QED
    BY <1>4, <1>7, <2>1, <2>2 DEF Ended
<1>8. CASE Get(r)
  <2>1. CASE Only(r, Got(k, quota[UserOf(r)]))
    BY <1>1, <1>5, <2>1
  <2>2. CASE Fresh(UserOf(r)) /\ Only(r, Got(k, cache[UserOf(r)]))
    BY <1>1, <1>5, <2>2, KeyIsInt DEF Fresh
  <2>3. CASE Only(r, [at("set") EXCEPT !.read = quota[UserOf(r)]])
    BY <1>1, <1>6, <2>3
  <2>4. QED
    BY <1>8, <2>1, <2>2, <2>3 DEF Get
<1>9. CASE GetError(r)
  <2>1. PICK pc \in {"settleUser", "refused"} : Only(r, at(pc))
    BY <1>9 DEF GetError
  <2>2. at(pc) \in Job /\ at(pc).pc = pc /\ SameUser(at(pc), k)
    BY <1>2 DEF Ended, Running
  <2>3. QED
    BY <1>4, <2>1, <2>2 DEF Ended
<1>10. CASE Set(r)
  BY <1>10 DEF Set, Refreshing
<1>11. ASSUME k.pc \in {"lower", "lowerAgain"}, Decrease(r) PROVE LowInv'
  <2>1. k.settling \in BOOLEAN
    BY <1>1 DEF Job
  <2>2. QED
    BY <1>11, <2>1, LowDecrease DEF Decrease
<1>12. ASSUME k.pc \in {"lower", "lowerAgain"}, ~RedisEnabled(UserOf(r)), Only(r, Lowered(k))
       PROVE  LowInv'
  <2> DEFINE n == [Lowered(k) EXCEPT !.lowered = FALSE]
  <2>1. Lowered(k) \in Job
    BY <1>1, LoweredType
  <2>2. Lowered(k).lowered = FALSE
    <3>1. \A pc \in {"done", "checkToken", "upstream"} : at(pc) \in Job /\ at(pc).lowered = FALSE
      <4>1. \A pc \in {"done", "checkToken", "upstream"} : at(pc) \in Job /\ SameUser(at(pc), k)
        BY <1>2 DEF Ended, Running
      <4>2. k.lowered = FALSE
        BY <1>1 DEF Job
      <4>3. QED
        BY <4>1, <4>2 DEF SameUser
    <3>2. PICK pc \in {"done", "checkToken", "upstream"} :
             Lowered(k) = at(pc) \/ Lowered(k) = [at(pc) EXCEPT !.hold = Held(k)]
      BY DEF Lowered
    <3> HIDE DEF at
    <3>3. QED
      BY <3>1, <3>2 DEF Job
  <2>3. Lowered(k) = n
    BY <2>1, <2>2 DEF Job
  <2>4. Goes(r, n) /\ UNCHANGED <<quota, cache>>
    BY <1>12, <2>3 DEF Only
  <2>5. QED
    BY <1>12, <2>4, LowDecrease
<1>13. CASE Lower(r)
  <2>1. CASE Only(r, [at("setLower") EXCEPT !.read = quota[UserOf(r)]])
    BY <1>1, <1>6, <2>1
  <2>2. QED
    BY <1>7, <1>11, <1>12, <1>13, <2>1 DEF Lower
<1>14. CASE LowerAgain(r)
  BY <1>7, <1>11, <1>14 DEF LowerAgain
<1>15. QED
  BY <1>8, <1>9, <1>10, <1>13, <1>14 DEF Caching

LEMMA LowSettling ==
  ASSUME LedgerInv, IInv', LowInv, NEW r \in Requests, Settling(r)
  PROVE  LowInv'
<1> DEFINE k == job[r]
           u == UserOf(r)
           at(pc) == At(k, pc)
           PCs == Ended \cup {"idle"} \cup Running
<1>0. k.pc \in {"settleUser", "settleToken", "returnUser", "returnToken"}
      /\ k.pc \notin Ended /\ k.pc \notin Holding
  BY DEF Settling, SettleUser, SettleToken, ReturnUser, ReturnToken, Ended, Holding
<1>1. /\ IInv /\ k \in Job /\ Stage(k) /\ Cached(k) /\ ~k.lowered
      /\ quota \in [Users -> Int] /\ Keys /\ u \in Users
      /\ k.hold \in Nat /\ k.cost \in Nat
      /\ Delta(k) = k.cost - k.hold /\ Delta(k) \in Int
  BY <1>0, LowFacts
<1>2. \A pc \in PCs : at(pc) \in Job /\ at(pc).pc = pc /\ SameUser(at(pc), k)
  BY <1>1, AtSameUser
<1>3. ASSUME NEW n \in Job, Goes(r, n), UNCHANGED <<quota, cache>>, SameUser(n, k),
             n.pc \in {"lower", "lost", "returned"},
             n.pc = "lower" /\ k.paid = "nothing" => k.hold = 0
      PROVE  LowInv'
  <2>1. n.pc \notin Holding /\ n.pc # "settleToken" /\ (n.pc \in Lowering => n.pc = "lower")
    BY <1>3 DEF Holding, Lowering
  <2>2. QED
    BY <1>0, <1>1, <1>3, <2>1, LowMoves
<1>4. ASSUME NEW pc \in {"lower", "lost"}, Only(r, at(pc)),
             pc = "lower" /\ k.paid = "nothing" => k.hold = 0
      PROVE  LowInv'
  <2>1. at(pc) \in Job /\ at(pc).pc = pc /\ SameUser(at(pc), k)
    BY <1>2 DEF Ended, Running
  <2>2. Goes(r, at(pc)) /\ UNCHANGED <<quota, cache>>
    BY <1>4 DEF Only
  <2>3. QED
    BY <1>3, <1>4, <2>1, <2>2
(* The quota of the user moves by d, which the new job n accounts for.     *)
<1>5. ASSUME NEW n \in Job, Goes(r, n), UNCHANGED cache, NEW d \in Int, Cached(n),
             quota' = [quota EXCEPT ![u] = @ - d], n.token = k.token,
             Slack(n) >= d + Slack(k)
      PROVE  LowInv'
  <2>1. \A o \in Users : o # u => quota'[o] = quota[o] /\ cache'[o] = cache[o]
    BY <1>1, <1>5
  <2>2. Slack(n) \in Int /\ Slack(k) \in Int
    BY <1>1, <1>5, SlackType
  <2>3. quota[u] \in Int /\ quota'[u] = quota[u] - d /\ cache'[u] = cache[u]
    BY <1>1, <1>5
  <2> HIDE DEF k, u
  <2>4. cache'[u] \in Int =>
             cache[u] \in Int /\ cache'[u] - cache[u] <= quota'[u] - quota[u] + Slack(n) - Slack(k)
    BY <1>5, <2>2, <2>3
  <2> USE DEF k, u
  <2>5. QED
    BY <1>1, <1>5, <2>1, <2>4, LowStep
<1>6. CASE SettleUser(r)
  <2>0. k.pc = "settleUser" /\ k.paid # "cost" /\ (k.paid = "nothing" => k.hold = 0)
    BY <1>1, <1>6 DEF SettleUser, Stage, Holds, UserHolds, UserValue, Value
  <2>1. CASE Only(r, at("lower"))
    BY <1>4, <2>0, <2>1
  <2> DEFINE m == at(IF k.token \in Unlimited THEN "lower" ELSE "settleToken")
             n == [m EXCEPT !.paid = "cost"]
  <2>2. CASE /\ quota' = [quota EXCEPT ![UserOf(r)] = @ - Delta(k)]
             /\ Goes(r, n)
             /\ UNCHANGED <<remain, used, cache>>
    <3>1. m \in Job /\ SameUser(m, k) /\ m.pc \in {"lower", "settleToken"}
      BY <1>2 DEF Running
    <3> HIDE DEF m
    <3>2. n \in Job
      BY <3>1 DEF Job, Paid
    <3>3. /\ n.pc \in {"lower", "settleToken"} /\ n.token = k.token /\ n.hold = k.hold
          /\ n.cost = k.cost /\ n.paid = "cost" /\ ~n.lowered
      BY <1>1, <3>1, <3>2 DEF SameUser, Job
    <3> HIDE DEF n
    <3>4. Cached(n)
      BY <3>3 DEF Cached
    <3>5. Slack(n) = Delta(k) /\ Slack(k) = 0
      BY <1>0, <1>1, <2>0, <3>3 DEF Slack, Delta, Holding
    <3>6. Slack(n) >= Delta(k) + Slack(k)
      BY <1>1, <3>5
    <3>7. QED
      BY <1>1, <1>5, <2>2, <3>2, <3>3, <3>4, <3>6
  <2>3. QED
    BY <1>6, <2>1, <2>2 DEF SettleUser
<1>7. CASE SettleToken(r)
  <2>0. k.paid = "cost"
    BY <1>1, <1>7 DEF SettleToken, Cached
  <2>1. CASE Only(r, at("lower"))
    BY <1>4, <2>0, <2>1
  <2> DEFINE m == at("lower")
             n == [m EXCEPT !.tokenPaid = "cost"]
  <2>2. CASE Goes(r, n) /\ UNCHANGED <<quota, cache>>
    <3>1. m \in Job /\ SameUser(m, k) /\ m.pc = "lower"
      BY <1>2 DEF Running
    <3> HIDE DEF m
    <3>2. n \in Job
      BY <3>1 DEF Job, Paid
    <3>3. n.pc = "lower" /\ SameUser(n, k)
      BY <3>1, <3>2 DEF SameUser, Job
    <3> HIDE DEF n
    <3>4. QED
      BY <1>3, <2>0, <2>2, <3>2, <3>3
  <2>3. QED
    BY <1>7, <2>1, <2>2 DEF SettleToken
<1>8. CASE ReturnUser(r)
  <2>0. k.pc = "returnUser" /\ k.paid # "cost"
    BY <1>1, <1>8 DEF ReturnUser, Stage, Holds, UserHolds
  <2>1. CASE Only(r, at("lost"))
    BY <1>4, <2>1
  <2> DEFINE m == at(IF k.token \in Unlimited THEN "returned" ELSE "returnToken")
             n == [m EXCEPT !.paid = "nothing"]
  <2>2. CASE /\ quota' = [quota EXCEPT ![UserOf(r)] = @ + k.hold]
             /\ Goes(r, n)
             /\ UNCHANGED <<remain, used, cache>>
    <3>1. m \in Job /\ SameUser(m, k) /\ m.pc \in {"returned", "returnToken"}
      BY <1>2 DEF Running, Ended
    <3> HIDE DEF m
    <3>2. n \in Job
      BY <3>1 DEF Job, Paid
    <3>3. /\ n.pc \in {"returned", "returnToken"} /\ n.token = k.token /\ n.paid = "nothing"
          /\ ~n.lowered
      BY <1>1, <3>1, <3>2 DEF SameUser, Job
    <3> HIDE DEF n
    <3>4. Cached(n)
      BY <3>3 DEF Cached, Lowering
    <3>5. Slack(n) = 0 /\ Slack(k) = 0
      BY <1>0, <1>1, <2>0, <3>3 DEF Slack, Holding
    <3>6. Slack(n) >= -k.hold + Slack(k) /\ -k.hold \in Int
      BY <1>1, <3>5
    <3>7. quota' = [quota EXCEPT ![u] = @ - (-k.hold)]
      <4>1. quota[u] + k.hold = quota[u] - (-k.hold)
        BY <1>1
      <4>2. QED
        BY <2>2, <4>1
    <3>8. QED
      BY <1>5, <2>2, <3>2, <3>3, <3>4, <3>6, <3>7
  <2>3. QED
    BY <1>8, <2>1, <2>2 DEF ReturnUser
<1>9. CASE ReturnToken(r)
  <2>1. CASE Only(r, at("lost"))
    BY <1>4, <2>1
  <2> DEFINE m == at("returned")
             n == [m EXCEPT !.tokenPaid = "nothing"]
  <2>2. CASE Goes(r, n) /\ UNCHANGED <<quota, cache>>
    <3>1. m \in Job /\ SameUser(m, k) /\ m.pc = "returned"
      BY <1>2 DEF Ended
    <3> HIDE DEF m
    <3>2. n \in Job
      BY <3>1 DEF Job, Paid
    <3>3. n.pc = "returned" /\ SameUser(n, k)
      BY <3>1, <3>2 DEF SameUser, Job
    <3> HIDE DEF n
    <3>4. QED
      BY <1>3, <2>2, <3>2, <3>3
  <2>3. QED
    BY <1>9, <2>1, <2>2 DEF ReturnToken
<1>10. QED
  BY <1>6, <1>7, <1>8, <1>9 DEF Settling

(* A key runs out, or everybody dies: a hold that was lowered and not taken *)
(* stays lowered.                                                          *)
LEMMA LowOther ==
  ASSUME LedgerInv, IInv', LowInv, Crash \/ (\E u \in Users : Expire(u)) \/ UNCHANGED vars
  PROVE  LowInv'
<1>0. /\ job \in [Requests -> Job] /\ Stages /\ Keys /\ quota \in [Users -> Int]
      /\ \A q \in Requests : Cached(job[q])
  BY Split DEF LedgerInv, Jobs, LowInv, Rows
<1>1. quota' = quota /\ \A u \in Users : cache'[u] = cache[u] \/ cache'[u] = NoKey
  BY <1>0 DEF Crash, Expire, vars, Keys
<1>2. ASSUME NEW q \in Requests
      PROVE  \/ job'[q] = job[q]
             \/ job[q].pc \in Running /\ job'[q] = At(job[q], "crashed")
  BY DEF Crash, Expire, vars
<1>3. ASSUME NEW q \in Requests
      PROVE  /\ job'[q] \in Job /\ Cached(job'[q]) /\ job'[q].token = job[q].token
             /\ Slack(job[q]) <= Slack(job'[q])
  <2> DEFINE k == job[q]
             n == At(k, "crashed")
  <2>1. k \in Job /\ Stage(k) /\ Cached(k) /\ k.hold \in Nat
    BY <1>0, AmountTypes DEF Stages
  <2>2. n \in Job /\ n.pc = "crashed" /\ SameUser(n, k)
    BY <2>1, AtSameUser DEF Ended
  <2>3. Cached(n)
    BY <2>2 DEF Cached, Ended, Lowering
  <2>4. Slack(k) \in Int
    BY <2>1, SlackType
  <2>5. Slack(k) <= Slack(n)
    <3>1. CASE k.pc \in Holding
      <4>1. k.paid = "nothing"
        BY <2>1, <3>1 DEF Holding, Stage, NothingPaid
      <4>2. Slack(n) = 0 /\ Slack(k) = -k.hold
        BY <2>2, <3>1, <4>1 DEF Slack, SameUser, Holding
      <4>3. QED
        BY <2>1, <4>2
    <3>2. CASE k.pc \notin Holding
      <4>1. Slack(n) = Slack(k)
        BY <2>2, <3>2 DEF Slack, SameUser, Delta, Holding
      <4>2. QED
        BY <2>4, <4>1
    <3>3. QED
      BY <3>1, <3>2
  <2>6. CASE job'[q] = k
    BY <2>1, <2>4, <2>6
  <2>7. CASE job'[q] = n
    BY <2>2, <2>3, <2>5, <2>7 DEF SameUser
  <2>8. QED
    BY <1>2, <2>6, <2>7
<1>4. ASSUME NEW u \in Users, KeyExists(u)'
      PROVE  cache'[u] <= quota'[u] + SumFunction(SlackEntry(u)')
  <2>e. /\ SlackEntry(u) = [q \in Requests |-> IF Owner[job[q].token] = u THEN Slack(job[q]) ELSE 0]
        /\ SlackEntry(u)' = [q \in Requests |-> IF Owner[job'[q].token] = u
                                                THEN Slack(job'[q]) ELSE 0]
    BY DEF SlackEntry, UserOf, Slack, Delta, Holding
  <2>1. SlackEntry(u) \in [Requests -> Int] /\ SlackEntry(u)' \in [Requests -> Int]
    <3>1. \A q \in Requests : Slack(job[q]) \in Int /\ Slack(job'[q]) \in Int
      BY <1>0, <1>3, SlackType
    <3>2. QED
      BY <2>e, <3>1
  <2>2. \A q \in Requests : SlackEntry(u)[q] <= SlackEntry(u)'[q]
    BY <1>3, <2>e
  <2>3. SumFunction(SlackEntry(u)) <= SumFunction(SlackEntry(u)')
    BY <2>1, <2>2, SumAtMost, FiniteAssumption
  <2>4. SumFunction(SlackEntry(u)) \in Int /\ SumFunction(SlackEntry(u)') \in Int
    BY <2>1, SumType, FiniteAssumption
  <2>5. cache'[u] = cache[u] /\ cache[u] \in Int
    BY <1>0, <1>1, <1>4 DEF KeyExists, RedisEnabled, Keys
  <2>6. cache[u] <= quota[u] + SumFunction(SlackEntry(u))
    BY <1>0, <2>5, KeyIsInt DEF LowInv
  <2>7. quota[u] \in Int
    BY <1>0
  <2>8. QED
    BY <1>1, <2>3, <2>4, <2>5, <2>6, <2>7
<1>5. QED
  BY <1>3, <1>4 DEF LowInv, Cached, Lowering

LEMMA LowInit == Init => LowInv
<1>1. SUFFICES ASSUME Init PROVE LowInv
  OBVIOUS
<1>2. PICK t \in Tokens :
         job = [r \in Requests |-> [NewJob("text", t, 0) EXCEPT !.pc = "idle"]]
  BY <1>1 DEF Init
<1>3. ASSUME NEW r \in Requests
      PROVE  job[r].pc = "idle" /\ job[r].paid = "nothing" /\ job[r].lowered = FALSE
  BY <1>2 DEF NewJob
<1>4. \A r \in Requests : Cached(job[r])
  BY <1>3 DEF Cached, Lowering
<1>5. \A r \in Requests : Slack(job[r]) = 0
  BY <1>3 DEF Slack, Holding
<1>6. ASSUME NEW u \in Users, KeyExists(u)
      PROVE  cache[u] <= quota[u] + SumFunction(SlackEntry(u))
  <2>1. SumFunction(SlackEntry(u)) = 0
    <3>1. DOMAIN SlackEntry(u) = Requests /\ \A r \in Requests : SlackEntry(u)[r] = 0
      BY <1>5 DEF SlackEntry
    <3>2. QED
      BY <3>1, SumZero, FiniteAssumption
  <2>2. cache[u] \in FirstCache /\ quota[u] = InitialQuota
    BY <1>1 DEF Init
  <2>3. cache[u] \in Int /\ cache[u] <= InitialQuota
    BY <1>6, <2>2, KeysAssumption, FlagsAssumption DEF KeyExists, RedisEnabled
  <2>4. QED
    BY <2>1, <2>2, <2>3, AmountsAssumption
<1>7. QED
  BY <1>4, <1>6 DEF LowInv

LEMMA LowNext ==
  LedgerInv /\ LowInv /\ ~Refreshing /\ ~Refreshing' /\ [Next]_vars => LowInv'
<1>1. SUFFICES ASSUME LedgerInv, LowInv, ~Refreshing, ~Refreshing', [Next]_vars PROVE LowInv'
  OBVIOUS
<1>2. IInv'
  BY <1>1, NextInv DEF LedgerInv
<1>3. CASE \E r \in Requests : Admission(r) \/ Provider(r) \/ Caching(r) \/ Settling(r)
  BY <1>1, <1>2, <1>3, LowAdmission, LowProvider, LowCaching, LowSettling
<1>4. CASE Crash \/ (\E u \in Users : Expire(u)) \/ UNCHANGED vars
  BY <1>1, <1>2, <1>4, LowOther
<1>5. QED
  BY <1>1, <1>3, <1>4 DEF Next

LEMMA LowIsLow ==
  ASSUME LedgerInv, LowInv
  PROVE  CacheLow
<1>0. /\ job \in [Requests -> Job] /\ Stages /\ Keys /\ quota \in [Users -> Int]
  BY Split DEF LedgerInv, Jobs, Rows
<1> SUFFICES ASSUME NEW u \in Users, KeyExists(u)
             PROVE  cache[u] <= quota[u] + SumFunction([r \in Requests |->
                                               IF UserOf(r) = u THEN Ahead(job[r]) ELSE 0])
  BY DEF CacheLow
<1> DEFINE f == [r \in Requests |-> IF UserOf(r) = u THEN Ahead(job[r]) ELSE 0]
<1>1. ASSUME NEW r \in Requests
      PROVE  Slack(job[r]) <= Ahead(job[r]) /\ Slack(job[r]) \in Int /\ Ahead(job[r]) \in Int
  <2> DEFINE k == job[r]
  <2>1. k \in Job /\ Stage(k) /\ k.hold \in Nat /\ Delta(k) \in Int
    BY <1>0, AmountTypes DEF Stages
  <2>2. CASE k.pc \in Holding
    <3>1. k.paid = "nothing"
      BY <2>1, <2>2 DEF Holding, Stage, NothingPaid
    <3>2. Ahead(k) = 0 /\ Slack(k) = -k.hold
      BY <2>2, <3>1 DEF Ahead, Slack
    <3>3. QED
      BY <2>1, <3>2
  <2>3. CASE k.pc \notin Holding
    BY <2>1, <2>3 DEF Ahead, Slack
  <2>4. QED
    BY <2>2, <2>3
<1>2. SlackEntry(u) \in [Requests -> Int] /\ f \in [Requests -> Int]
      /\ \A r \in Requests : SlackEntry(u)[r] <= f[r]
  BY <1>1 DEF SlackEntry
<1>3. cache[u] \in Int /\ quota[u] \in Int
  BY <1>0, KeyIsInt
<1>4. cache[u] <= quota[u] + SumFunction(SlackEntry(u))
  BY DEF LowInv
<1> HIDE DEF f
<1>5. SumFunction(SlackEntry(u)) <= SumFunction(f)
      /\ SumFunction(SlackEntry(u)) \in Int /\ SumFunction(f) \in Int
  BY <1>2, SumAtMost, SumType, FiniteAssumption
<1>6. cache[u] <= quota[u] + SumFunction(f)
  BY <1>3, <1>4, <1>5
<1>7. QED
  BY <1>6 DEF f

\* As long as nobody refetches the quota into Redis, the cached quota exceeds
\* users.quota by no more than the settlements that were not lowered and the
\* holds whose unused part was not credited.
THEOREM CacheStaysLow == Spec => CacheErrsLow
<1>1. Spec => []LedgerInv
  BY LedgerInductive
<1>2. Init => LowInv
  BY LowInit
<1>3. LedgerInv /\ LowInv /\ ~Refreshing /\ ~Refreshing' /\ [Next]_vars => LowInv'
  BY LowNext
<1>4. LedgerInv /\ LowInv => CacheLow
  BY LowIsLow
<1>5. QED
  BY <1>1, <1>2, <1>3, <1>4, PTL DEF Spec, CacheErrsLow
=============================================================================
