---------------------------- MODULE BatchUpdate -----------------------------
(***************************************************************************)
(* BATCH_UPDATE_ENABLED: the amounts of the settlements are added up in    *)
(* memory, one map per kind, and a goroutine writes them to the database   *)
(* from time to time (model/utils.go).                                     *)
(*                                                                         *)
(*   addNewRecord   Add, called five times by a settlement, in the order   *)
(*                  of postConsumeQuota (relay/controller/helper.go)       *)
(*   batchUpdate    Wake, Swap, Apply, Advance                             *)
(*                                                                         *)
(* A lock per kind makes Add and Swap atomic; the statements of Apply run  *)
(* without it, on the map that was swapped out.                            *)
(***************************************************************************)
EXTENDS Integers, FiniteSets

CONSTANTS
    Settlements,    \* charged requests
    Ids,            \* ids of rows; a settlement uses one for user, token and channel
    Amounts,
    InitialQuota,   \* users.quota and tokens.remain_quota at the start
    MaxCrashes      \* bound on the restarts of the process

\* used_quota and the counts are only written "if quota != 0".
ASSUME AmountsAssumption == Amounts \subseteq Nat \ {0} /\ InitialQuota \in Nat /\ MaxCrashes \in Nat
ASSUME NonEmptyAssumption == Amounts # {} /\ Ids # {}
ASSUME FiniteAssumption == IsFiniteSet(Settlements)

UserQuota == 0
TokenQuota == 1
UsedQuota == 2
ChannelUsedQuota == 3
RequestCount == 4
Types == 0..4

VARIABLES
    db,        \* the five columns
    usedCount, \* channels.used_count
    store,     \* batchUpdateStores: the sum, and how many records it is of
    taken,     \* the map that batchUpdate swapped out and has not applied yet
    updater,   \* where batchUpdate is
    settle,    \* the settlements: the calls of addNewRecord each has made
    issued,    \* history: the sum of all records of each kind
    lost,      \* history: what failed statements and crashes lost of it
    crashes

batchVars == <<db, usedCount, store, taken, updater, settle, issued, lost, crashes>>

Entry == [sum : Int, n : Nat]
Settle == [id : Ids, amount : Amounts, calls : 0..5, dead : BOOLEAN]

BatchTypeOK ==
    /\ db \in [Types -> [Ids -> Int]]
    /\ usedCount \in [Ids -> Nat]
    /\ store \in [Types -> [Ids -> Entry]]
    /\ taken \in [Ids -> Entry]
    /\ updater \in [pc : {"sleep", "swap", "apply"}, type : Types]
    /\ settle \in [Settlements -> Settle]
    /\ issued \in [Types -> [Ids -> Int]]
    /\ lost \in [Types -> [Ids -> Int]]
    /\ crashes \in 0..MaxCrashes

Nothing == [sum |-> 0, n |-> 0]
Empty == [i \in Ids |-> Nothing]
Zeros == [ty \in Types |-> [i \in Ids |-> 0]]

Initial(ty) == IF ty \in {UserQuota, TokenQuota} THEN InitialQuota ELSE 0

BatchInit ==
    /\ db = [ty \in Types |-> [i \in Ids |-> Initial(ty)]]
    /\ usedCount = [i \in Ids |-> 0]
    /\ store = [ty \in Types |-> Empty]
    /\ taken = Empty
    /\ updater = [pc |-> "sleep", type |-> 0]
    /\ settle \in [Settlements -> {k \in Settle : k.calls = 0 /\ ~k.dead}]
    /\ issued = Zeros
    /\ lost = Zeros
    /\ crashes = 0
-----------------------------------------------------------------------------
(* The kind and the value of the call number c of a settlement of n.       *)
Kind(c) == CASE c = 0 -> UserQuota [] c = 1 -> TokenQuota [] c = 2 -> UsedQuota
             [] c = 3 -> RequestCount [] OTHER -> ChannelUsedQuota
Value(ty, n) == CASE ty \in {UserQuota, TokenQuota} -> -n [] ty = RequestCount -> 1 [] OTHER -> n

\* Mutant of Plus: a later record replaces the sum.
PlusLast(e, v) == [sum |-> v, n |-> e.n + 1]

Plus(e, v) == [sum |-> e.sum + v, n |-> e.n + 1]

Add(s) ==
    LET k == settle[s]
        ty == Kind(k.calls)
        v == Value(ty, k.amount)
    IN /\ k.calls < 5 /\ ~k.dead
       /\ settle' = [settle EXCEPT ![s].calls = @ + 1]
       /\ store' = [store EXCEPT ![ty][k.id] = Plus(@, v)]
       /\ issued' = [issued EXCEPT ![ty][k.id] = @ + v]
       /\ UNCHANGED <<db, usedCount, taken, updater, lost, crashes>>

Wake ==
    /\ updater.pc = "sleep"
    /\ updater' = [pc |-> "swap", type |-> 0]
    /\ UNCHANGED <<db, usedCount, store, taken, settle, issued, lost, crashes>>

\* Mutant of Swapped: the new map is not put in place.
NotSwapped(ty) == store

\* The stores with a new map in place of that of ty.
Swapped(ty) == [store EXCEPT ![ty] = Empty]

Swap ==
    /\ updater.pc = "swap"
    /\ taken' = store[updater.type]
    /\ store' = Swapped(updater.type)
    /\ updater' = [updater EXCEPT !.pc = "apply"]
    /\ UNCHANGED <<db, usedCount, settle, issued, lost, crashes>>

\* One key of the range loop: increaseUserQuota, increaseTokenQuota,
\* updateUserUsedQuota, updateChannelUsedQuota (which counts one use) or
\* updateUserRequestCount.  An error is only logged.
Apply ==
    LET ty == updater.type
    IN /\ updater.pc = "apply"
       /\ \E i \in Ids :
             /\ taken[i].n > 0
             /\ taken' = [taken EXCEPT ![i] = Nothing]
             /\ \/ /\ db' = [db EXCEPT ![ty][i] = @ + taken[i].sum]
                   /\ usedCount' = IF ty = ChannelUsedQuota
                                   THEN [usedCount EXCEPT ![i] = @ + 1] ELSE usedCount
                   /\ UNCHANGED lost
                \/ /\ lost' = [lost EXCEPT ![ty][i] = @ + taken[i].sum]
                   /\ UNCHANGED <<db, usedCount>>
       /\ UNCHANGED <<store, updater, settle, issued, crashes>>

\* Mutant of After: the round ends before the last kind.
AfterEarly(ty) == IF ty < RequestCount - 1 THEN [pc |-> "swap", type |-> ty + 1] ELSE [pc |-> "sleep", type |-> 0]

\* The next kind, or the end of the round.
After(ty) == IF ty < RequestCount THEN [pc |-> "swap", type |-> ty + 1] ELSE [pc |-> "sleep", type |-> 0]

Advance ==
    /\ updater.pc = "apply"
    /\ \A i \in Ids : taken[i].n = 0
    /\ updater' = After(updater.type)
    /\ UNCHANGED <<db, usedCount, store, taken, settle, issued, lost, crashes>>

Taken(ty, i) == IF updater.type = ty THEN taken[i].sum ELSE 0

\* The process dies and is started again: the maps and the settlements that
\* had not made all their calls are gone.
Restart ==
    /\ crashes < MaxCrashes
    /\ crashes' = crashes + 1
    /\ lost' = [ty \in Types |-> [i \in Ids |-> lost[ty][i] + store[ty][i].sum + Taken(ty, i)]]
    /\ store' = [ty \in Types |-> Empty]
    /\ taken' = Empty
    /\ updater' = [pc |-> "sleep", type |-> 0]
    /\ settle' = [s \in Settlements |->
          IF settle[s].calls \in 1..4 THEN [settle[s] EXCEPT !.dead = TRUE] ELSE settle[s]]
    /\ UNCHANGED <<db, usedCount, issued>>

Updater == Wake \/ Swap \/ Apply \/ Advance

BatchNext == (\E s \in Settlements : Add(s)) \/ Updater \/ Restart

BatchSpec == BatchInit /\ [][BatchNext]_batchVars

\* The goroutine of the updater wakes up again and again.
BatchFairSpec == BatchSpec /\ WF_batchVars(Updater)
-----------------------------------------------------------------------------
(* Properties                                                              *)

\* Every amount recorded is in the database, in the map, in the map being
\* applied, or lost by a failed statement or a crash; never in two of them: a
\* record that arrives while a round runs is neither overwritten nor doubled.
Conserved ==
    \A ty \in Types, i \in Ids :
        db[ty][i] + store[ty][i].sum + Taken(ty, i) + lost[ty][i] = Initial(ty) + issued[ty][i]

Charged(i) == Cardinality({s \in Settlements : settle[s].id = i /\ settle[s].calls = 5})
AtRest == /\ \A s \in Settlements : settle[s].calls \in {0, 5}
          /\ \A i \in Ids : taken[i].n = 0 /\ \A ty \in Types : store[ty][i].n = 0

\* Once everything is written and nothing was lost, the columns, written by
\* different statements of different rounds, tell the same story: what left the
\* quota is used_quota, of the user and of the channel, and every charged
\* request was counted; a channel has counted a use once per sum that was
\* written, so at least once if it was used, and possibly less often than that.
BooksAgree ==
    AtRest /\ lost = Zeros =>
        \A i \in Ids :
            /\ db[UserQuota][i] + db[UsedQuota][i] = InitialQuota
            /\ db[TokenQuota][i] = db[UserQuota][i]
            /\ db[ChannelUsedQuota][i] = db[UsedQuota][i]
            /\ db[RequestCount][i] = Charged(i)
            /\ usedCount[i] <= Charged(i)
            /\ Charged(i) > 0 => usedCount[i] > 0

\* Every record is eventually written or known lost, of every kind.
EventuallyWritten ==
    <>[](\A ty \in Types, i \in Ids : db[ty][i] + lost[ty][i] = Initial(ty) + issued[ty][i])
=============================================================================
