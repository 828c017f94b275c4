---------------------------- MODULE ServerProofs ----------------------------
(***************************************************************************)
(* Theorems about the services of Server, for any sets of settlements,     *)
(* codes' users, handlers, instances, channels and administrators, and any *)
(* bounds.  Each service has its inductive invariant, and ServerInv is all *)
(* of them together.                                                       *)
(*                                                                         *)
(* BatchUpdate      BatchInv: an entry without records sums to zero, and   *)
(*                  the map swapped out is empty unless it is applied, so  *)
(*                  that neither skipping nor swapping loses an amount.    *)
(*                  BooksInv: issued is a sum over the settlements of what *)
(*                  each has recorded so far (Issues), their number        *)
(*                  (RequestsCounted), and each flush counts a use of a    *)
(*                  channel at most once per record (UsesCounted).         *)
(* RedemptionCode   CodeInv: an enabled code has a grant to spare (Spare), *)
(*                  a code names who used it, or nothing was given for it  *)
(*                  (Named), and who edits a used code finds a row that    *)
(*                  still names somebody (ReadRows).                       *)
(* MidjourneyTask   MjInv: refunds paid, owed and at hand are one, and the *)
(*                  slips (RefundsCounted).  SettledInv: a row that failed *)
(*                  is paid, or somebody will (Settling); answers of the   *)
(*                  upstream service do not change once final.             *)
(* Channels         ChannelInv: what the jobs under way still have to do   *)
(*                  makes row and abilities agree (AbilitiesFit), what     *)
(*                  holds the status an administrator overwrote is named   *)
(*                  (HandKept), and what a request excludes (Tries).       *)
(* RateLimit        RateInv: the lengths of the list and of the admissions *)
(*                  within the duration are bounded by the handlers at     *)
(*                  each command (RedisBounds), and the list or the slice  *)
(*                  holds the newest admissions in their order.            *)
(***************************************************************************)
EXTENDS Server, TopUpOrder, Sums, SequenceTheorems

Blank(e) == e.n = 0 => e.sum = 0

BlankEntries ==
    /\ \A ty \in Types, i \in Ids : Blank(store[ty][i])
    /\ \A i \in Ids : Blank(taken[i])
    /\ updater.pc # "apply" => taken = Empty

BatchInv == BatchTypeOK /\ Conserved /\ BlankEntries

-----------------------------------------------------------------------------
LEMMA BatchConstants ==
  /\ \A n \in Amounts : n \in Nat
  /\ InitialQuota \in Nat /\ MaxCrashes \in Nat
  /\ Types = 0..4 /\ \A ty \in Types : ty \in Int
  /\ \A ty \in Types : Initial(ty) \in Int
  BY AmountsAssumption DEF Types, Initial

LEMMA EmptyType ==
  /\ Empty \in [Ids -> Entry]
  /\ \A i \in Ids : Empty[i].sum = 0 /\ Empty[i].n = 0
  BY DEF Empty, Nothing, Entry

LEMMA ValueType == \A c \in 0..5, n \in Amounts : Kind(c) \in Types /\ Value(Kind(c), n) \in Int
  BY BatchConstants DEF Kind, Value, Types, UserQuota, TokenQuota, UsedQuota, ChannelUsedQuota, RequestCount

(* What a swapped-out map holds of a kind.                                 *)
LEMMA TakenType == ASSUME BatchTypeOK PROVE \A ty \in Types, i \in Ids : Taken(ty, i) \in Int
  BY DEF BatchTypeOK, Taken, Entry

LEMMA BatchInitInv == BatchInit => BatchInv
<1>1. SUFFICES ASSUME BatchInit PROVE BatchInv
  OBVIOUS
<1>2. BatchTypeOK
  <2>1. settle \in [Settlements -> Settle]
    BY <1>1 DEF BatchInit
  <2>2. store \in [Types -> [Ids -> Entry]] /\ taken \in [Ids -> Entry]
    BY <1>1, EmptyType DEF BatchInit
  <2>3. db \in [Types -> [Ids -> Int]]
    BY <1>1, BatchConstants DEF BatchInit
  <2>4. issued \in [Types -> [Ids -> Int]] /\ lost \in [Types -> [Ids -> Int]]
    BY <1>1 DEF BatchInit, Zeros
  <2>5. usedCount \in [Ids -> Nat] /\ crashes \in 0..MaxCrashes
    BY <1>1, BatchConstants DEF BatchInit
  <2>6. updater \in [pc : {"sleep", "swap", "apply"}, type : Types]
    BY <1>1 DEF BatchInit, Types
  <2>7. QED
    BY <2>1, <2>2, <2>3, <2>4, <2>5, <2>6 DEF BatchTypeOK
<1>3. Conserved
  <2>1. SUFFICES ASSUME NEW ty \in Types, NEW i \in Ids
                 PROVE  db[ty][i] + store[ty][i].sum + Taken(ty, i) + lost[ty][i] = Initial(ty) + issued[ty][i]
    BY DEF Conserved
  <2>2. db[ty][i] = Initial(ty) /\ Initial(ty) \in Int
    BY <1>1, BatchConstants DEF BatchInit
  <2>3. store[ty][i].sum = 0 /\ taken[i].sum = 0
    BY <1>1, EmptyType DEF BatchInit
  <2>4. lost[ty][i] = 0 /\ issued[ty][i] = 0
    BY <1>1 DEF BatchInit, Zeros
  <2>5. QED
    BY <2>2, <2>3, <2>4 DEF Taken
<1>4. BlankEntries
  BY <1>1, EmptyType DEF BatchInit, BlankEntries, Blank
<1>5. QED
  BY <1>2, <1>3, <1>4 DEF BatchInv

-----------------------------------------------------------------------------
(* One record: it is issued and added to the map of its kind.              *)
LEMMA AddStep == ASSUME BatchInv, NEW s \in Settlements, Add(s) PROVE BatchInv'
<1> DEFINE k == settle[s]
           ty == Kind(k.calls)
           v == Value(ty, k.amount)
<1>1. k \in Settle /\ k.calls < 5 /\ k.calls \in 0..5
  BY DEF BatchInv, BatchTypeOK, Add, Settle
<1>2. ty \in Types /\ v \in Int /\ k.id \in Ids
  BY <1>1, ValueType DEF Settle
<1>3. /\ settle' = [settle EXCEPT ![s].calls = @ + 1]
      /\ store' = [store EXCEPT ![ty][k.id] = Plus(@, v)]
      /\ issued' = [issued EXCEPT ![ty][k.id] = @ + v]
      /\ UNCHANGED <<db, usedCount, taken, updater, lost, crashes>>
  BY DEF Add
<1> HIDE DEF ty, v
<1>4. store[ty][k.id] \in Entry
  BY <1>2 DEF BatchInv, BatchTypeOK
<1>5. Plus(store[ty][k.id], v) \in Entry
  BY <1>2, <1>4 DEF Plus, Entry
<1>6. BatchTypeOK'
  <2>1. settle' \in [Settlements -> Settle]
    <3>1. [k EXCEPT !.calls = k.calls + 1] \in Settle
      BY <1>1 DEF Settle
    <3>2. settle' = [settle EXCEPT ![s] = [k EXCEPT !.calls = k.calls + 1]]
      BY <1>3
    <3>3. QED
      BY <3>1, <3>2 DEF BatchInv, BatchTypeOK
  <2>2. store' \in [Types -> [Ids -> Entry]]
    BY <1>2, <1>3, <1>5 DEF BatchInv, BatchTypeOK
  <2>3. issued' \in [Types -> [Ids -> Int]]
    BY <1>2, <1>3 DEF BatchInv, BatchTypeOK
  <2>4. QED
    BY <1>3, <2>1, <2>2, <2>3 DEF BatchInv, BatchTypeOK
<1>7. Conserved'
  <2>1. SUFFICES ASSUME NEW t \in Types, NEW i \in Ids
                 PROVE  db'[t][i] + store'[t][i].sum + Taken(t, i)' + lost'[t][i] = Initial(t) + issued'[t][i]
    BY DEF Conserved, Initial
  <2>2. db[t][i] + store[t][i].sum + Taken(t, i) + lost[t][i] = Initial(t) + issued[t][i]
    BY DEF BatchInv, Conserved
  <2>3. Taken(t, i)' = Taken(t, i) /\ db' = db /\ lost' = lost
    BY <1>3 DEF Taken
  <2>4. /\ db[t][i] \in Int /\ store[t][i].sum \in Int /\ Taken(t, i) \in Int
        /\ lost[t][i] \in Int /\ issued[t][i] \in Int /\ Initial(t) \in Int
    BY TakenType, BatchConstants DEF BatchInv, BatchTypeOK, Entry
  <2>5. CASE t = ty /\ i = k.id
    <3>1. store'[t][i].sum = store[t][i].sum + v
      BY <1>2, <1>3, <2>5 DEF BatchInv, BatchTypeOK, Plus
    <3>2. issued'[t][i] = issued[t][i] + v
      BY <1>2, <1>3, <2>5 DEF BatchInv, BatchTypeOK
    <3> DEFINE d == db[t][i]  e == store[t][i].sum  ta == Taken(t, i)
               l == lost[t][i]  z == Initial(t)  r == issued[t][i]
    <3>3. d + (e + v) + ta + l = z + (r + v)
      <4>1. d \in Int /\ e \in Int /\ ta \in Int /\ l \in Int /\ z \in Int /\ r \in Int /\ v \in Int
        BY <1>2, <2>4
      <4>2. d + e + ta + l = z + r
        BY <2>2
      <4> HIDE DEF d, e, ta, l, z, r, v
      <4>3. QED
        BY <4>1, <4>2
    <3>4. QED
      BY <2>3, <3>1, <3>2, <3>3
  <2>6. CASE ~(t = ty /\ i = k.id)
    <3>1. store'[t][i] = store[t][i] /\ issued'[t][i] = issued[t][i]
      BY <1>2, <1>3, <2>6 DEF BatchInv, BatchTypeOK
    <3>2. QED
      BY <2>2, <2>3, <3>1
  <2>7. QED
    BY <2>5, <2>6
<1>8. BlankEntries'
  <2>1. ASSUME NEW t \in Types, NEW i \in Ids PROVE Blank(store'[t][i])
    <3>1. CASE t = ty /\ i = k.id
      <4>1. store'[t][i].n = store[t][i].n + 1 /\ store[t][i].n \in Nat
        BY <1>2, <1>3, <1>4, <3>1 DEF BatchInv, BatchTypeOK, Plus, Entry
      <4>2. QED
        BY <4>1 DEF Blank
    <3>2. CASE ~(t = ty /\ i = k.id)
      BY <1>2, <1>3, <3>2 DEF BatchInv, BatchTypeOK, BlankEntries
    <3>3. QED
      BY <3>1, <3>2
  <2>2. QED
    BY <1>3, <2>1 DEF BatchInv, BlankEntries
<1>9. QED
  BY <1>6, <1>7, <1>8 DEF BatchInv

(* The updater turns to a kind while it holds no map.                      *)
LEMMA TurnStep ==
  ASSUME BatchInv, taken = Empty, updater' \in [pc : {"sleep", "swap"}, type : Types],
         UNCHANGED <<db, usedCount, store, taken, settle, issued, lost, crashes>>
  PROVE  BatchInv'
<1>1. BatchTypeOK'
  BY DEF BatchInv, BatchTypeOK
<1>2. \A ty \in Types, i \in Ids : Taken(ty, i) = 0 /\ Taken(ty, i)' = 0
  BY EmptyType DEF Taken
<1>3. Conserved'
  BY <1>2 DEF BatchInv, Conserved, Initial
<1>4. BlankEntries'
  BY DEF BatchInv, BlankEntries, Empty
<1>5. QED
  BY <1>1, <1>3, <1>4 DEF BatchInv

LEMMA WakeStep == ASSUME BatchInv, Wake PROVE BatchInv'
<1>1. taken = Empty
  BY DEF BatchInv, BlankEntries, Wake
<1>2. updater' \in [pc : {"sleep", "swap"}, type : Types]
  BY DEF Wake, Types
<1>3. QED
  BY <1>1, <1>2, TurnStep DEF Wake

LEMMA AdvanceStep == ASSUME BatchInv, Advance PROVE BatchInv'
<1>1. taken = Empty
  <2>1. \A i \in Ids : taken[i] \in Entry /\ taken[i].n = 0 /\ taken[i].sum = 0
    BY DEF BatchInv, BatchTypeOK, BlankEntries, Blank, Advance
  <2>2. \A i \in Ids : taken[i] = Nothing
    BY <2>1 DEF Entry, Nothing
  <2>3. QED
    BY <2>2 DEF BatchInv, BatchTypeOK, Empty
<1>2. updater' \in [pc : {"sleep", "swap"}, type : Types]
  BY DEF BatchInv, BatchTypeOK, Advance, After, Types, RequestCount
<1>3. QED
  BY <1>1, <1>2, TurnStep DEF Advance

LEMMA SwapStep == ASSUME BatchInv, Swap PROVE BatchInv'
<1> DEFINE ty == updater.type
<1>1. ty \in Types /\ taken = Empty /\ updater \in [pc : {"sleep", "swap", "apply"}, type : Types]
  BY DEF BatchInv, BatchTypeOK, BlankEntries, Swap
<1>2. /\ taken' = store[ty]
      /\ store' = [store EXCEPT ![ty] = Empty]
      /\ updater' = [updater EXCEPT !.pc = "apply"]
      /\ UNCHANGED <<db, usedCount, settle, issued, lost, crashes>>
  BY DEF Swap, Swapped
<1>3. updater'.type = ty /\ updater'.pc = "apply" /\ updater' \in [pc : {"sleep", "swap", "apply"}, type : Types]
  BY <1>1, <1>2
<1> HIDE DEF ty
<1>4. BatchTypeOK'
  BY <1>1, <1>2, <1>3, EmptyType DEF BatchInv, BatchTypeOK
<1>5. Conserved'
  <2>1. SUFFICES ASSUME NEW t \in Types, NEW i \in Ids
                 PROVE  db'[t][i] + store'[t][i].sum + Taken(t, i)' + lost'[t][i] = Initial(t) + issued'[t][i]
    BY DEF Conserved, Initial
  <2>2. db[t][i] + store[t][i].sum + Taken(t, i) + lost[t][i] = Initial(t) + issued[t][i]
    BY DEF BatchInv, Conserved
  <2>3. Taken(t, i) = 0
    BY <1>1, EmptyType DEF Taken
  <2>4. store'[t][i].sum + Taken(t, i)' = store[t][i].sum
    <3>1. CASE t = ty
      <4>1. store'[t][i].sum = 0 /\ Taken(t, i)' = store[t][i].sum /\ store[t][i].sum \in Int
        BY <1>1, <1>2, <1>3, <3>1, EmptyType DEF BatchInv, BatchTypeOK, Entry, Taken
      <4>2. QED
        BY <4>1
    <3>2. CASE t # ty
      <4>1. store'[t][i].sum = store[t][i].sum /\ Taken(t, i)' = 0 /\ store[t][i].sum \in Int
        BY <1>2, <1>3, <3>2 DEF BatchInv, BatchTypeOK, Entry, Taken
      <4>2. QED
        BY <4>1
    <3>3. QED
      BY <3>1, <3>2
  <2>5. /\ db[t][i] \in Int /\ store[t][i].sum \in Int /\ lost[t][i] \in Int
        /\ store'[t][i].sum \in Int /\ Taken(t, i)' \in Int
    BY <1>4, TakenType DEF BatchInv, BatchTypeOK, Entry, Taken
  <2>6. db'[t][i] = db[t][i] /\ lost'[t][i] = lost[t][i] /\ issued'[t][i] = issued[t][i]
    BY <1>2
  <2>7. QED
    BY <2>2, <2>3, <2>4, <2>5, <2>6
<1>6. BlankEntries'
  <2>1. ASSUME NEW t \in Types, NEW i \in Ids PROVE Blank(store'[t][i])
    <3>1. CASE t = ty
      BY <1>1, <1>2, <3>1, EmptyType DEF BatchInv, BatchTypeOK, Blank
    <3>2. CASE t # ty
      BY <1>2, <3>2 DEF BatchInv, BatchTypeOK, BlankEntries
    <3>3. QED
      BY <3>1, <3>2
  <2>2. \A i \in Ids : Blank(taken'[i])
    BY <1>1, <1>2 DEF BatchInv, BlankEntries
  <2>3. QED
    BY <1>3, <2>1, <2>2 DEF BlankEntries
<1>7. QED
  BY <1>4, <1>5, <1>6 DEF BatchInv

(* One statement of the round, done or failed: the amount moves from the   *)
(* map to the column, or to what was lost.                                 *)
LEMMA ApplyStep == ASSUME BatchInv, Apply PROVE BatchInv'
<1> DEFINE ty == updater.type
<1>1. ty \in Types /\ updater.pc = "apply"
  BY DEF BatchInv, BatchTypeOK, Apply
<1>2. PICK i \in Ids :
        /\ taken' = [taken EXCEPT ![i] = Nothing]
        /\ \/ /\ db' = [db EXCEPT ![ty][i] = @ + taken[i].sum]
              /\ usedCount' = IF ty = ChannelUsedQuota
                              THEN [usedCount EXCEPT ![i] = @ + 1] ELSE usedCount
              /\ lost' = lost
           \/ /\ lost' = [lost EXCEPT ![ty][i] = @ + taken[i].sum]
              /\ db' = db /\ usedCount' = usedCount
        /\ UNCHANGED <<store, updater, settle, issued, crashes>>
  BY DEF Apply
<1>3. Nothing \in Entry /\ Nothing.sum = 0 /\ Nothing.n = 0
  BY DEF Nothing, Entry
<1>4. taken[i].sum \in Int
  BY DEF BatchInv, BatchTypeOK, Entry
<1> HIDE DEF ty
<1>5. BatchTypeOK'
  <2>1. taken' \in [Ids -> Entry]
    BY <1>2, <1>3 DEF BatchInv, BatchTypeOK
  <2>2. db' \in [Types -> [Ids -> Int]] /\ lost' \in [Types -> [Ids -> Int]]
    <3>1. db[ty][i] + taken[i].sum \in Int /\ lost[ty][i] + taken[i].sum \in Int
      BY <1>1, <1>4 DEF BatchInv, BatchTypeOK
    <3>2. \/ db' = [db EXCEPT ![ty][i] = db[ty][i] + taken[i].sum] /\ lost' = lost
          \/ lost' = [lost EXCEPT ![ty][i] = lost[ty][i] + taken[i].sum] /\ db' = db
      BY <1>2
    <3>3. db \in [Types -> [Ids -> Int]] /\ lost \in [Types -> [Ids -> Int]]
      BY DEF BatchInv, BatchTypeOK
    <3>4. CASE db' = [db EXCEPT ![ty][i] = db[ty][i] + taken[i].sum] /\ lost' = lost
      BY <1>1, <3>1, <3>3, <3>4
    <3>5. CASE lost' = [lost EXCEPT ![ty][i] = lost[ty][i] + taken[i].sum] /\ db' = db
      BY <1>1, <3>1, <3>3, <3>5
    <3>6. QED
      BY <3>2, <3>4, <3>5
  <2>3. usedCount' \in [Ids -> Nat]
    BY <1>2 DEF BatchInv, BatchTypeOK
  <2>4. QED
    BY <1>2, <2>1, <2>2, <2>3 DEF BatchInv, BatchTypeOK
<1>6. Conserved'
  <2>1. SUFFICES ASSUME NEW t \in Types, NEW j \in Ids
                 PROVE  db'[t][j] + store'[t][j].sum + Taken(t, j)' + lost'[t][j] = Initial(t) + issued'[t][j]
    BY DEF Conserved, Initial
  <2>2. db[t][j] + store[t][j].sum + Taken(t, j) + lost[t][j] = Initial(t) + issued[t][j]
    BY DEF BatchInv, Conserved
  <2>3. /\ db[t][j] \in Int /\ store[t][j].sum \in Int /\ Taken(t, j) \in Int
        /\ lost[t][j] \in Int /\ issued[t][j] \in Int /\ Initial(t) \in Int
    BY TakenType, BatchConstants DEF BatchInv, BatchTypeOK, Entry
  <2>4. store' = store /\ issued' = issued
    BY <1>2
  <2>5. CASE t = ty /\ j = i
    <3>1. Taken(t, j)' = 0 /\ Taken(t, j) = taken[i].sum
      BY <1>2, <1>3, <2>5 DEF BatchInv, BatchTypeOK, Taken, ty
    <3>2. db'[t][j] + lost'[t][j] = db[t][j] + lost[t][j] + taken[i].sum
      BY <1>1, <1>2, <1>4, <2>3, <2>5 DEF BatchInv, BatchTypeOK
    <3>3. db'[t][j] \in Int /\ lost'[t][j] \in Int
      BY <1>5 DEF BatchTypeOK
    <3>4. QED
      BY <1>4, <2>2, <2>3, <2>4, <3>1, <3>2, <3>3
  <2>6. CASE ~(t = ty /\ j = i)
    <3>1. Taken(t, j)' = Taken(t, j)
      BY <1>2, <2>6 DEF BatchInv, BatchTypeOK, Taken, ty
    <3>2. db'[t][j] = db[t][j] /\ lost'[t][j] = lost[t][j]
      BY <1>1, <1>2, <2>6 DEF BatchInv, BatchTypeOK
    <3>3. QED
      BY <2>2, <2>4, <3>1, <3>2
  <2>7. QED
    BY <2>5, <2>6
<1>7. BlankEntries'
  BY <1>1, <1>2, <1>3 DEF BatchInv, BatchTypeOK, BlankEntries, Blank
<1>8. QED
  BY <1>5, <1>6, <1>7 DEF BatchInv

(* A restart: what the maps held is lost, and counted as lost.             *)
LEMMA CrashStep == ASSUME BatchInv, Restart PROVE BatchInv'
<1>1. /\ store' = [ty \in Types |-> Empty] /\ taken' = Empty
      /\ updater' = [pc |-> "sleep", type |-> 0]
      /\ db' = db /\ usedCount' = usedCount /\ issued' = issued
  BY DEF Restart
<1>2. BatchTypeOK'
  <2>1. settle' \in [Settlements -> Settle]
    <3>1. settle' = [s \in Settlements |->
              IF settle[s].calls \in 1..4 THEN [settle[s] EXCEPT !.dead = TRUE] ELSE settle[s]]
      BY DEF Restart
    <3>2. ASSUME NEW s \in Settlements
          PROVE  settle[s] \in Settle /\ [settle[s] EXCEPT !.dead = TRUE] \in Settle
      <4>1. settle[s] \in Settle
        BY DEF BatchInv, BatchTypeOK
      <4>2. QED
        BY <4>1 DEF Settle
    <3>3. QED
      BY <3>1, <3>2
  <2>2. lost' \in [Types -> [Ids -> Int]]
    <3>1. \A ty \in Types, i \in Ids : lost[ty][i] + store[ty][i].sum + Taken(ty, i) \in Int
      BY TakenType DEF BatchInv, BatchTypeOK, Entry
    <3>2. QED
      BY <3>1 DEF Restart
  <2>3. crashes' \in 0..MaxCrashes
    BY BatchConstants DEF BatchInv, BatchTypeOK, Restart
  <2>4. updater' \in [pc : {"sleep", "swap", "apply"}, type : Types]
    BY <1>1 DEF Types
  <2>5. QED
    BY <1>1, <2>1, <2>2, <2>3, <2>4, EmptyType DEF BatchInv, BatchTypeOK
<1>3. Conserved'
  <2>1. SUFFICES ASSUME NEW t \in Types, NEW i \in Ids
                 PROVE  db'[t][i] + store'[t][i].sum + Taken(t, i)' + lost'[t][i] = Initial(t) + issued'[t][i]
    BY DEF Conserved, Initial
  <2>2. db[t][i] + store[t][i].sum + Taken(t, i) + lost[t][i] = Initial(t) + issued[t][i]
    BY DEF BatchInv, Conserved
  <2>3. lost'[t][i] = lost[t][i] + store[t][i].sum + Taken(t, i)
    BY DEF Restart
  <2>4. store'[t][i].sum = 0 /\ Taken(t, i)' = 0
    BY <1>1, EmptyType DEF Taken
  <2>5. db[t][i] \in Int /\ store[t][i].sum \in Int /\ Taken(t, i) \in Int /\ lost[t][i] \in Int
    BY TakenType DEF BatchInv, BatchTypeOK, Entry
  <2>6. QED
    BY <1>1, <2>2, <2>3, <2>4, <2>5
<1>4. BlankEntries'
  <2>1. Empty' = Empty
    BY DEF Empty, Nothing
  <2>2. QED
    BY <1>1, <2>1, EmptyType DEF BlankEntries, Blank
<1>5. QED
  BY <1>2, <1>3, <1>4 DEF BatchInv

-----------------------------------------------------------------------------
LEMMA BatchStep == BatchInv /\ [BatchNext]_batchVars => BatchInv'
<1>1. SUFFICES ASSUME BatchInv, [BatchNext]_batchVars PROVE BatchInv'
  OBVIOUS
<1>2. CASE \E s \in Settlements : Add(s)
  BY <1>1, <1>2, AddStep
<1>3. CASE Wake
  BY <1>1, <1>3, WakeStep
<1>4. CASE Swap
  BY <1>1, <1>4, SwapStep
<1>5. CASE Apply
  BY <1>1, <1>5, ApplyStep
<1>6. CASE Advance
  BY <1>1, <1>6, AdvanceStep
<1>7. CASE Restart
  BY <1>1, <1>7, CrashStep
<1>8. CASE UNCHANGED batchVars
  BY <1>1, <1>8 DEF batchVars, BatchInv, BatchTypeOK, Conserved, Taken, Initial, BlankEntries, Blank, Empty, Nothing
<1>9. QED
  BY <1>1, <1>2, <1>3, <1>4, <1>5, <1>6, <1>7, <1>8 DEF BatchNext, Updater

(* Every map, column and settlement keeps its type: a round never leaves   *)
(* the five kinds of model/utils.go.                                       *)
THEOREM BatchTypeCorrect == BatchSpec => []BatchTypeOK
<1>1. BatchInv => BatchTypeOK
  BY DEF BatchInv
<1>2. QED
  BY <1>1, BatchInitInv, BatchStep, PTL DEF BatchSpec

(* Whatever the interleaving of addNewRecord and batchUpdate, an amount is *)
(* written, waiting, being written or lost, exactly one of these.          *)
THEOREM RecordsConserved == BatchSpec => []Conserved
<1>1. BatchInv => Conserved
  BY DEF BatchInv
<1>2. QED
  BY <1>1, BatchInitInv, BatchStep, PTL DEF BatchSpec
-----------------------------------------------------------------------------
(* The books.  What was issued of a kind is the sum over the settlements   *)
(* that made the call of it; and what the channel counted, what waits to   *)
(* be counted and what was lost is related to the settlements that made    *)
(* all their calls.                                                        *)

\* The number of the call by which a settlement records a kind.
TurnOf(ty) == CASE ty = UserQuota -> 0 [] ty = TokenQuota -> 1 [] ty = UsedQuota -> 2
              [] ty = RequestCount -> 3 [] OTHER -> 4
Recorded(k, ty, i) == IF k.id = i /\ k.calls > TurnOf(ty) THEN Value(ty, k.amount) ELSE 0
Records(ty, i) == [s \in Settlements |-> Recorded(settle[s], ty, i)]
Issues == \A ty \in Types, i \in Ids : issued[ty][i] = SumFunction(Records(ty, i))

Requests(i) == {s \in Settlements : settle[s].id = i /\ settle[s].calls > 3}
RequestsCounted == \A i \in Ids : issued[RequestCount][i] = Cardinality(Requests(i))

\* Records of uses of a channel that are not written yet.
Unwritten(i) == store[ChannelUsedQuota][i].n + IF updater.type = ChannelUsedQuota THEN taken[i].n ELSE 0
Amounting(e) == e.n <= e.sum
UsesCounted ==
    /\ \A i \in Ids : Amounting(store[ChannelUsedQuota][i]) /\ lost[ChannelUsedQuota][i] >= 0
    /\ updater.type = ChannelUsedQuota => \A i \in Ids : Amounting(taken[i])
    /\ \A i \in Ids : usedCount[i] + Unwritten(i) <= Charged(i)
    /\ \A i \in Ids : Charged(i) > 0 => usedCount[i] > 0 \/ Unwritten(i) > 0 \/ lost[ChannelUsedQuota][i] > 0

BooksInv == BatchInv /\ Issues /\ RequestsCounted /\ UsesCounted

-----------------------------------------------------------------------------
LEMMA TurnOfKind ==
  /\ \A ty \in Types : TurnOf(ty) \in 0..4
  /\ \A c \in 0..4, ty \in Types : TurnOf(ty) = c <=> ty = Kind(c)
  BY DEF TurnOf, Kind, Types, UserQuota, TokenQuota, UsedQuota, ChannelUsedQuota, RequestCount

LEMMA RecordedType ==
  ASSUME NEW k \in Settle, NEW ty \in Types, NEW i \in Ids
  PROVE  Recorded(k, ty, i) \in Int /\ Value(ty, k.amount) \in Int
<1>1. k.amount \in Nat
  BY BatchConstants DEF Settle
<1>2. QED
  BY <1>1 DEF Recorded, Value

LEMMA RecordsType ==
  ASSUME BatchTypeOK, NEW ty \in Types, NEW i \in Ids
  PROVE  Records(ty, i) \in [Settlements -> Int]
  BY RecordedType DEF BatchTypeOK, Records

LEMMA RequestsFinite ==
  ASSUME NEW T, T \subseteq Settlements
  PROVE  IsFiniteSet(T) /\ Cardinality(T) \in Nat
<1>1. IsFiniteSet(T)
  BY FiniteAssumption, FS_Subset
<1>2. QED
  BY <1>1, FS_CardinalityType

LEMMA ChargedType == \A i \in Ids : Charged(i) \in Nat
  BY RequestsFinite DEF Charged

LEMMA KindsDistinct ==
  /\ UserQuota \in Types /\ TokenQuota \in Types /\ UsedQuota \in Types
  /\ ChannelUsedQuota \in Types /\ RequestCount \in Types
  /\ TurnOf(UserQuota) = 0 /\ TurnOf(TokenQuota) = 1 /\ TurnOf(UsedQuota) = 2
  /\ TurnOf(RequestCount) = 3 /\ TurnOf(ChannelUsedQuota) = 4
  /\ \A n : Value(RequestCount, n) = 1 /\ Value(UsedQuota, n) = n /\ Value(ChannelUsedQuota, n) = n
            /\ Value(UserQuota, n) = -n /\ Value(TokenQuota, n) = -n
  BY DEF TurnOf, Value, Types, UserQuota, TokenQuota, UsedQuota, ChannelUsedQuota, RequestCount

(* What the books say depends on the id, the amount and the calls of a     *)
(* settlement, and on what is recorded.                                    *)
LEMMA IssuesStay ==
  ASSUME BooksInv, UNCHANGED issued,
         \A s \in Settlements : /\ settle'[s].id = settle[s].id /\ settle'[s].amount = settle[s].amount
                                /\ settle'[s].calls = settle[s].calls
  PROVE  /\ Issues' /\ RequestsCounted'
         /\ \A i \in Ids : Charged(i)' = Charged(i)
<1>1. ASSUME NEW ty \in Types, NEW i \in Ids PROVE Records(ty, i)' = Records(ty, i)
  <2>1. \A s \in Settlements : Recorded(settle'[s], ty, i) = Recorded(settle[s], ty, i)
    BY DEF Recorded
  <2>2. Records(ty, i)' = [s \in Settlements |-> Recorded(settle'[s], ty, i)]
    BY DEF Records, Recorded, TurnOf, Value
  <2>3. QED
    BY <2>1, <2>2 DEF Records
<1>2. Issues'
  <2>1. ASSUME NEW ty \in Types, NEW i \in Ids PROVE issued'[ty][i] = SumFunction(Records(ty, i)')
    BY <1>1, Zenon DEF BooksInv, Issues
  <2>2. QED
    BY <2>1, Zenon DEF Issues
<1>3. \A i \in Ids : Requests(i)' = Requests(i)
  BY DEF Requests
<1>4. RequestsCounted'
  BY <1>3, Zenon DEF BooksInv, RequestsCounted
<1>5. \A i \in Ids : Charged(i)' = Charged(i)
  <2>1. SUFFICES ASSUME NEW i \in Ids PROVE Charged(i)' = Charged(i)
    OBVIOUS
  <2>2. {s \in Settlements : settle'[s].id = i /\ settle'[s].calls = 5}
          = {s \in Settlements : settle[s].id = i /\ settle[s].calls = 5}
    OBVIOUS
  <2>3. QED
    BY <2>2, Zenon DEF Charged
<1>6. QED
  BY <1>2, <1>4, <1>5

LEMMA BooksInitInv == BatchInit => BooksInv
<1> SUFFICES ASSUME BatchInit PROVE BooksInv
  OBVIOUS
<1>1. BatchInv
  BY BatchInitInv
<1>2. \A s \in Settlements : settle[s].calls = 0 /\ settle[s] \in Settle
  BY DEF BatchInit
<1>3. Issues
  <2>1. SUFFICES ASSUME NEW ty \in Types, NEW i \in Ids PROVE issued[ty][i] = SumFunction(Records(ty, i))
    BY DEF Issues
  <2>2. \A s \in Settlements : Records(ty, i)[s] = 0
    BY <1>2, TurnOfKind DEF Records, Recorded
  <2>3. DOMAIN Records(ty, i) = Settlements
    BY DEF Records
  <2>4. SumFunction(Records(ty, i)) = 0
    BY <2>2, <2>3, FiniteAssumption, SumZero
  <2>5. issued[ty][i] = 0
    BY DEF BatchInit, Zeros
  <2>6. QED
    BY <2>4, <2>5
<1>4. RequestsCounted
  <2>1. SUFFICES ASSUME NEW i \in Ids PROVE issued[RequestCount][i] = Cardinality(Requests(i))
    BY DEF RequestsCounted
  <2>2. Requests(i) = {}
    BY <1>2 DEF Requests
  <2>3. issued[RequestCount][i] = 0
    BY KindsDistinct DEF BatchInit, Zeros
  <2>4. QED
    BY <2>2, <2>3, FS_EmptySet
<1>5. UsesCounted
  <2>1. \A i \in Ids : store[ChannelUsedQuota][i].n = 0 /\ store[ChannelUsedQuota][i].sum = 0
    BY EmptyType, KindsDistinct DEF BatchInit
  <2>2. \A i \in Ids : taken[i].n = 0 /\ taken[i].sum = 0
    BY EmptyType DEF BatchInit
  <2>3. \A i \in Ids : lost[ChannelUsedQuota][i] = 0 /\ usedCount[i] = 0
    BY KindsDistinct DEF BatchInit, Zeros
  <2>4. \A i \in Ids : Charged(i) = 0
    <3>1. SUFFICES ASSUME NEW i \in Ids PROVE Charged(i) = 0
      OBVIOUS
    <3>2. {s \in Settlements : settle[s].id = i /\ settle[s].calls = 5} = {}
      BY <1>2
    <3>3. QED
      BY <3>2, FS_EmptySet DEF Charged
  <2>5. \A i \in Ids : Unwritten(i) = 0
    BY <2>1, <2>2 DEF Unwritten
  <2>6. QED
    BY <2>1, <2>2, <2>3, <2>4, <2>5 DEF UsesCounted, Amounting
<1>6. QED
  BY <1>1, <1>3, <1>4, <1>5 DEF BooksInv

LEMMA AddBooks == ASSUME BooksInv, NEW s \in Settlements, Add(s) PROVE BooksInv'
<1> DEFINE k == settle[s]
           ty == Kind(k.calls)
           v == Value(ty, k.amount)
           l == [k EXCEPT !.calls = k.calls + 1]
<1>1. k \in Settle /\ k.calls \in 0..4 /\ k.amount \in Nat \ {0} /\ k.id \in Ids
  <2>1. k \in Settle
    BY DEF BooksInv, BatchInv, BatchTypeOK
  <2>2. QED
    BY <2>1, AmountsAssumption DEF Settle, Add
<1>2. ty \in Types /\ v \in Int
  BY <1>1, ValueType DEF Settle
<1>3. /\ settle' = [settle EXCEPT ![s] = l]
      /\ store' = [store EXCEPT ![ty][k.id] = Plus(@, v)]
      /\ issued' = [issued EXCEPT ![ty][k.id] = @ + v]
      /\ UNCHANGED <<db, usedCount, taken, updater, lost, crashes>>
  BY DEF Add
<1>4. l \in Settle /\ l.id = k.id /\ l.amount = k.amount /\ l.calls = k.calls + 1
  BY <1>1 DEF Settle
<1>5. settle'[s] = l /\ \A x \in Settlements : x # s => settle'[x] = settle[x]
  BY <1>3 DEF BooksInv, BatchInv, BatchTypeOK
<1>6. BatchInv'
  BY AddStep DEF BooksInv
<1>7. \A t \in Types : TurnOf(t) = k.calls <=> t = ty
  BY <1>1, TurnOfKind
<1>8. ty = RequestCount <=> k.calls = 3
  BY <1>7, KindsDistinct
<1>9. ty = ChannelUsedQuota <=> k.calls = 4
  BY <1>7, KindsDistinct
<1>10. ty = RequestCount => v = 1
  BY KindsDistinct
<1>11. ty = ChannelUsedQuota => v = k.amount
  BY KindsDistinct
<1>12. v = Value(ty, l.amount)
  BY <1>4
<1> HIDE DEF k, ty, v, l
<1>13. \A t \in Types, i \in Ids :
         issued'[t][i] = IF t = ty /\ i = k.id THEN issued[t][i] + v ELSE issued[t][i]
  BY <1>1, <1>2, <1>3 DEF BooksInv, BatchInv, BatchTypeOK
<1>14. Issues'
  <2>1. SUFFICES ASSUME NEW t \in Types, NEW i \in Ids PROVE issued'[t][i] = SumFunction(Records(t, i)')
    BY Zenon DEF Issues
  <2> DEFINE f == Records(t, i)
             g == Records(t, i)'
  <2>2. f \in [Settlements -> Int] /\ g \in [Settlements -> Int]
    <3>1. f \in [Settlements -> Int]
      BY RecordsType DEF BooksInv, BatchInv
    <3>2. g = [x \in Settlements |-> Recorded(settle'[x], t, i)]
      BY DEF Records, Recorded, TurnOf, Value
    <3>3. \A x \in Settlements : settle'[x] \in Settle
      BY <1>6 DEF BatchInv, BatchTypeOK
    <3>4. QED
      BY <3>1, <3>2, <3>3, RecordedType
  <2>3. \A x \in Settlements : f[x] = Recorded(settle[x], t, i) /\ g[x] = Recorded(settle'[x], t, i)
    BY DEF Records, Recorded, TurnOf, Value
  <2>4. \A x \in Settlements : x # s => g[x] = f[x]
    BY <1>5, <2>3
  <2>5. f[s] = Recorded(k, t, i) /\ g[s] = Recorded(l, t, i)
    BY <1>5, <2>3 DEF k
  <2> HIDE DEF f, g
  <2>6. SumFunction(g) = SumFunction(f) + g[s] - f[s]
    BY <2>2, <2>4, FiniteAssumption, SumChange
  <2>7. SumFunction(f) \in Int /\ SumFunction(f) = issued[t][i]
    BY <2>2, FiniteAssumption, SumType DEF BooksInv, Issues, f
  <2>8. CASE t = ty /\ i = k.id
    <3>1. f[s] = 0
      BY <1>1, <1>7, <2>5, <2>8 DEF Recorded
    <3>2. g[s] = v
      BY <1>1, <1>4, <1>7, <1>12, <2>5, <2>8 DEF Recorded
    <3>3. issued'[t][i] = issued[t][i] + v
      BY <1>13, <2>8
    <3>4. QED
      BY <1>2, <2>6, <2>7, <3>1, <3>2, <3>3 DEF g
  <2>9. CASE ~(t = ty /\ i = k.id)
    <3>1. g[s] = f[s]
      <4>1. i = k.id => (k.calls > TurnOf(t) <=> l.calls > TurnOf(t))
        BY <1>1, <1>4, <1>7, <2>9, TurnOfKind
      <4>2. QED
        BY <1>4, <2>5, <4>1 DEF Recorded
    <3>2. issued'[t][i] = issued[t][i]
      BY <1>13, <2>9
    <3>3. f[s] \in Int
      BY <2>2
    <3>4. QED
      BY <2>6, <2>7, <3>1, <3>2, <3>3 DEF g
  <2>10. QED
    BY <2>8, <2>9
<1>15. RequestsCounted'
  <2>1. SUFFICES ASSUME NEW i \in Ids PROVE issued'[RequestCount][i] = Cardinality(Requests(i)')
    BY Zenon DEF RequestsCounted
  <2>2. issued[RequestCount][i] = Cardinality(Requests(i)) /\ Requests(i) \subseteq Settlements
    BY DEF BooksInv, RequestsCounted, Requests
  <2>3. Requests(i)' = {x \in Settlements : settle'[x].id = i /\ settle'[x].calls > 3}
    BY DEF Requests
  <2>4. CASE k.calls = 3 /\ i = k.id
    <3>1. Requests(i)' = Requests(i) \cup {s} /\ s \notin Requests(i)
      BY <1>4, <1>5, <2>3, <2>4 DEF Requests, k
    <3>2. Cardinality(Requests(i)') = Cardinality(Requests(i)) + 1
      BY <2>2, <3>1, RequestsFinite, FS_AddElement
    <3>3. issued'[RequestCount][i] = issued[RequestCount][i] + 1
      BY <1>8, <1>10, <1>13, <2>4, KindsDistinct
    <3>4. QED
      BY <2>2, <3>2, <3>3
  <2>5. CASE ~(k.calls = 3 /\ i = k.id)
    <3>1. Requests(i)' = Requests(i)
      BY <1>1, <1>4, <1>5, <2>3, <2>5 DEF Requests, k
    <3>2. issued'[RequestCount][i] = issued[RequestCount][i]
      BY <1>8, <1>13, <2>5, KindsDistinct
    <3>3. QED
      BY <2>2, <3>1, <3>2
  <2>6. QED
    BY <2>4, <2>5
<1>16. \A i \in Ids : Charged(i)' = IF k.calls = 4 /\ i = k.id THEN Charged(i) + 1 ELSE Charged(i)
  <2>1. SUFFICES ASSUME NEW i \in Ids PROVE Charged(i)' = IF k.calls = 4 /\ i = k.id THEN Charged(i) + 1 ELSE Charged(i)
    OBVIOUS
  <2> DEFINE D == {x \in Settlements : settle[x].id = i /\ settle[x].calls = 5}
             E == {x \in Settlements : settle'[x].id = i /\ settle'[x].calls = 5}
  <2>2. Charged(i) = Cardinality(D) /\ Charged(i)' = Cardinality(E) /\ D \subseteq Settlements
    BY Zenon DEF Charged
  <2>3. CASE k.calls = 4 /\ i = k.id
    <3>1. E = D \cup {s} /\ s \notin D
      BY <1>4, <1>5, <2>3 DEF k
    <3>2. Cardinality(E) = Cardinality(D) + 1
      BY <2>2, <3>1, RequestsFinite, FS_AddElement
    <3>3. QED
      BY <2>2, <2>3, <3>2
  <2>4. CASE ~(k.calls = 4 /\ i = k.id)
    <3>1. E = D
      BY <1>1, <1>4, <1>5, <2>4 DEF k
    <3>2. QED
      BY <2>2, <2>4, <3>1
  <2>5. QED
    BY <2>3, <2>4
<1>17. UsesCounted'
  <2> DEFINE C == ChannelUsedQuota
  <2>1. ASSUME NEW i \in Ids
        PROVE  /\ store'[C][i] \in Entry /\ store[C][i] \in Entry
               /\ k.calls = 4 /\ i = k.id => /\ store'[C][i].n = store[C][i].n + 1
                                             /\ store'[C][i].sum = store[C][i].sum + k.amount
               /\ ~(k.calls = 4 /\ i = k.id) => store'[C][i] = store[C][i]
    <3>1. store[C][i] \in Entry /\ store'[C][i] \in Entry
      BY <1>6, KindsDistinct DEF BooksInv, BatchInv, BatchTypeOK
    <3>2. CASE k.calls = 4 /\ i = k.id
      <4>1. store'[C][i] = Plus(store[C][i], v)
        BY <1>2, <1>3, <1>9, <3>2, KindsDistinct DEF BooksInv, BatchInv, BatchTypeOK
      <4>2. QED
        BY <1>9, <1>11, <3>1, <3>2, <4>1 DEF Plus
    <3>3. CASE ~(k.calls = 4 /\ i = k.id)
      <4>1. store'[C][i] = store[C][i]
        BY <1>2, <1>3, <1>9, <3>3, KindsDistinct DEF BooksInv, BatchInv, BatchTypeOK
      <4>2. QED
        BY <3>1, <3>3, <4>1
    <3>4. QED
      BY <3>2, <3>3
  <2>2. taken' = taken /\ updater' = updater /\ usedCount' = usedCount /\ lost' = lost
    BY <1>3
  <2>3. ASSUME NEW i \in Ids
        PROVE  /\ Unwritten(i) \in Nat /\ Unwritten(i)' \in Nat /\ usedCount[i] \in Nat
               /\ lost[C][i] \in Int /\ Charged(i) \in Nat
               /\ Unwritten(i)' = IF k.calls = 4 /\ i = k.id THEN Unwritten(i) + 1 ELSE Unwritten(i)
    <3>1. taken[i].n \in Nat /\ usedCount[i] \in Nat /\ lost[C][i] \in Int
      BY KindsDistinct DEF BooksInv, BatchInv, BatchTypeOK, Entry
    <3>2. store[C][i].n \in Nat /\ store'[C][i].n \in Nat
      BY <2>1 DEF Entry
    <3>3. store'[C][i].n = IF k.calls = 4 /\ i = k.id THEN store[C][i].n + 1 ELSE store[C][i].n
      BY <2>1
    <3>4. Charged(i) \in Nat
      BY ChargedType
    <3>5. QED
      BY <2>2, <3>1, <3>2, <3>3, <3>4 DEF Unwritten
  <2>4. \A i \in Ids : Amounting(store'[C][i])
    <3>1. SUFFICES ASSUME NEW i \in Ids PROVE Amounting(store'[C][i])
      OBVIOUS
    <3>2. Amounting(store[C][i]) /\ store[C][i].n \in Nat /\ store[C][i].sum \in Int
      BY <2>1 DEF BooksInv, UsesCounted, Entry
    <3>3. store[C][i].n <= store[C][i].sum
      BY <3>2 DEF Amounting
    <3>4. CASE k.calls = 4 /\ i = k.id
      <4>1. store'[C][i].n = store[C][i].n + 1 /\ store'[C][i].sum = store[C][i].sum + k.amount
        BY <2>1, <3>4
      <4>2. k.amount \in Nat /\ k.amount >= 1
        BY <1>1
      <4>3. store[C][i].n + 1 <= store[C][i].sum + k.amount
        BY <3>2, <3>3, <4>2
      <4>4. QED
        BY <4>1, <4>3 DEF Amounting
    <3>5. CASE ~(k.calls = 4 /\ i = k.id)
      <4>1. store'[C][i] = store[C][i]
        BY <2>1, <3>5
      <4>2. QED
        BY <3>2, <4>1
    <3>6. QED
      BY <3>4, <3>5
  <2>5. \A i \in Ids : /\ usedCount'[i] + Unwritten(i)' <= Charged(i)'
                       /\ Charged(i)' > 0 => usedCount'[i] > 0 \/ Unwritten(i)' > 0 \/ lost'[C][i] > 0
    <3>1. SUFFICES ASSUME NEW i \in Ids
                   PROVE  /\ usedCount'[i] + Unwritten(i)' <= Charged(i)'
                          /\ Charged(i)' > 0 => usedCount'[i] > 0 \/ Unwritten(i)' > 0 \/ lost'[C][i] > 0
      OBVIOUS
    <3>2. /\ usedCount[i] + Unwritten(i) <= Charged(i)
          /\ Charged(i) > 0 => usedCount[i] > 0 \/ Unwritten(i) > 0 \/ lost[C][i] > 0
      BY DEF BooksInv, UsesCounted
    <3>3. QED
      BY <1>16, <2>2, <2>3, <3>2
  <2>6. \A i \in Ids : lost'[C][i] >= 0
    BY <2>2 DEF BooksInv, UsesCounted
  <2>7. updater'.type = C => \A i \in Ids : Amounting(taken'[i])
    BY <2>2 DEF BooksInv, UsesCounted
  <2>8. QED
    BY <2>4, <2>5, <2>6, <2>7 DEF UsesCounted, Amounting, C
<1>18. QED
  BY <1>6, <1>14, <1>15, <1>17 DEF BooksInv

LEMMA SameSettlements ==
  ASSUME BatchTypeOK, UNCHANGED settle
  PROVE  \A s \in Settlements : /\ settle'[s].id = settle[s].id /\ settle'[s].amount = settle[s].amount
                                /\ settle'[s].calls = settle[s].calls
  OBVIOUS

(* What the statements of a round, and a restart, do to the records of     *)
(* uses: they are moved, written or lost, never more than there were.      *)
LEMMA UsesMove ==
  ASSUME BooksInv, BatchInv', UNCHANGED issued,
         \A s \in Settlements : /\ settle'[s].id = settle[s].id /\ settle'[s].amount = settle[s].amount
                                /\ settle'[s].calls = settle[s].calls,
         \A i \in Ids : Amounting(store'[ChannelUsedQuota][i]),
         updater'.type = ChannelUsedQuota => \A i \in Ids : Amounting(taken'[i]),
         \A i \in Ids : /\ lost'[ChannelUsedQuota][i] >= 0
                        /\ Unwritten(i)' + usedCount'[i] <= Unwritten(i) + usedCount[i]
                        /\ Unwritten(i) > 0 => Unwritten(i)' > 0 \/ usedCount'[i] > 0 \/ lost'[ChannelUsedQuota][i] > 0
                        /\ usedCount[i] > 0 => usedCount'[i] > 0
                        /\ lost[ChannelUsedQuota][i] > 0 => lost'[ChannelUsedQuota][i] > 0
  PROVE  BooksInv'
<1>1. Issues' /\ RequestsCounted' /\ \A i \in Ids : Charged(i)' = Charged(i)
  BY IssuesStay
<1>2. \A i \in Ids : /\ Charged(i) \in Nat
                     /\ Unwritten(i) \in Nat /\ Unwritten(i)' \in Nat
                     /\ usedCount[i] \in Nat /\ usedCount'[i] \in Nat
  BY ChargedType, KindsDistinct DEF Unwritten, BooksInv, BatchInv, BatchTypeOK, Entry
<1>3. \A i \in Ids : usedCount'[i] + Unwritten(i)' <= Charged(i)'
  BY <1>1, <1>2 DEF BooksInv, UsesCounted
<1>4. ASSUME NEW i \in Ids, Charged(i)' > 0
      PROVE  usedCount'[i] > 0 \/ Unwritten(i)' > 0 \/ lost'[ChannelUsedQuota][i] > 0
  <2>1. usedCount[i] > 0 \/ Unwritten(i) > 0 \/ lost[ChannelUsedQuota][i] > 0
    BY <1>1, <1>4 DEF BooksInv, UsesCounted
  <2>2. QED
    BY <2>1
<1>5. UsesCounted'
  BY <1>3, <1>4 DEF UsesCounted, Amounting
<1>6. QED
  BY <1>1, <1>5 DEF BooksInv

LEMMA UsesTyped ==
  ASSUME BatchTypeOK, NEW i \in Ids
  PROVE  /\ store[ChannelUsedQuota][i].n \in Nat /\ store[ChannelUsedQuota][i].sum \in Int
         /\ taken[i].n \in Nat /\ taken[i].sum \in Int
         /\ usedCount[i] \in Nat /\ lost[ChannelUsedQuota][i] \in Int
  BY KindsDistinct DEF BatchTypeOK, Entry

(* Where the uses that wait, are counted and are lost stay as many.        *)
LEMMA UsesKept ==
  ASSUME BatchTypeOK,
         \A i \in Ids : /\ Unwritten(i)' = Unwritten(i) /\ usedCount'[i] = usedCount[i]
                        /\ lost'[ChannelUsedQuota][i] = lost[ChannelUsedQuota][i]
                        /\ lost[ChannelUsedQuota][i] >= 0
  PROVE  \A i \in Ids : /\ lost'[ChannelUsedQuota][i] >= 0
                        /\ Unwritten(i)' + usedCount'[i] <= Unwritten(i) + usedCount[i]
                        /\ Unwritten(i) > 0 => Unwritten(i)' > 0 \/ usedCount'[i] > 0 \/ lost'[ChannelUsedQuota][i] > 0
                        /\ usedCount[i] > 0 => usedCount'[i] > 0
                        /\ lost[ChannelUsedQuota][i] > 0 => lost'[ChannelUsedQuota][i] > 0
<1>1. \A i \in Ids : Unwritten(i) \in Nat /\ usedCount[i] \in Nat
  BY UsesTyped DEF Unwritten
<1>2. QED
  BY <1>1

LEMMA EmptyAmounting == \A i \in Ids : Amounting(Empty[i])
  BY EmptyType DEF Amounting

LEMMA TurnBooks ==
  ASSUME BooksInv, BatchInv', taken = Empty,
         UNCHANGED <<db, usedCount, store, taken, settle, issued, lost, crashes>>
  PROVE  BooksInv'
<1>1. \A i \in Ids : /\ Unwritten(i) = store[ChannelUsedQuota][i].n
                     /\ Unwritten(i)' = store[ChannelUsedQuota][i].n
  BY UsesTyped, EmptyType DEF Unwritten, BooksInv, BatchInv
<1>2. \A i \in Ids : /\ Amounting(store'[ChannelUsedQuota][i]) /\ Amounting(taken'[i])
                     /\ lost'[ChannelUsedQuota][i] >= 0
  BY EmptyAmounting DEF BooksInv, UsesCounted
<1>3. \A i \in Ids : /\ Unwritten(i)' + usedCount'[i] <= Unwritten(i) + usedCount[i]
                     /\ Unwritten(i) > 0 => Unwritten(i)' > 0
  BY <1>1, UsesTyped DEF BooksInv, BatchInv
<1>4. QED
  BY <1>2, <1>3, UsesMove, SameSettlements DEF BooksInv, BatchInv

LEMMA WakeBooks == ASSUME BooksInv, Wake PROVE BooksInv'
<1>1. taken = Empty
  BY DEF BooksInv, BatchInv, BlankEntries, Wake
<1>2. BatchInv'
  BY WakeStep DEF BooksInv
<1>3. QED
  BY <1>1, <1>2, TurnBooks DEF Wake

LEMMA AdvanceBooks == ASSUME BooksInv, Advance PROVE BooksInv'
<1>1. taken = Empty
  <2>1. \A i \in Ids : taken[i] \in Entry /\ taken[i].n = 0 /\ taken[i].sum = 0
    BY DEF BooksInv, BatchInv, BatchTypeOK, BlankEntries, Blank, Advance
  <2>2. \A i \in Ids : taken[i] = Nothing
    BY <2>1 DEF Entry, Nothing
  <2>3. QED
    BY <2>2 DEF BooksInv, BatchInv, BatchTypeOK, Empty
<1>2. BatchInv'
  BY AdvanceStep DEF BooksInv
<1>3. QED
  BY <1>1, <1>2, TurnBooks DEF Advance

LEMMA SwapBooks == ASSUME BooksInv, Swap PROVE BooksInv'
<1> DEFINE ty == updater.type
           C == ChannelUsedQuota
<1>1. /\ taken' = store[ty] /\ store' = [store EXCEPT ![ty] = Empty]
      /\ updater' = [updater EXCEPT !.pc = "apply"]
      /\ UNCHANGED <<db, usedCount, settle, issued, lost, crashes>>
  BY DEF Swap, Swapped
<1>2. ty \in Types /\ taken = Empty /\ updater \in [pc : {"sleep", "swap", "apply"}, type : Types]
  BY DEF BooksInv, BatchInv, BatchTypeOK, BlankEntries, Swap
<1>3. updater'.type = ty
  BY <1>1, <1>2
<1>4. BatchInv'
  BY SwapStep DEF BooksInv
<1>5. BatchTypeOK /\ BatchTypeOK'
  BY <1>4 DEF BooksInv, BatchInv
<1>6. \A i \in Ids : /\ store[C][i].n \in Nat /\ taken[i].n = 0
                     /\ Amounting(store[C][i]) /\ lost[C][i] >= 0
  BY <1>2, <1>5, UsesTyped, EmptyType DEF BooksInv, UsesCounted
<1>7. CASE ty = C
  <2>1. \A i \in Ids : store'[C][i].n = 0 /\ taken'[i] = store[C][i]
    BY <1>1, <1>2, <1>7, EmptyType DEF BooksInv, BatchInv, BatchTypeOK
  <2>2. \A i \in Ids : Amounting(store'[C][i])
    BY <1>1, <1>2, <1>7, EmptyAmounting DEF BooksInv, BatchInv, BatchTypeOK
  <2>3. \A i \in Ids : Unwritten(i)' = Unwritten(i)
    BY <1>3, <1>6, <1>7, <2>1 DEF Unwritten
  <2>4. \A i \in Ids : Amounting(taken'[i])
    BY <1>6, <2>1
  <2> HIDE DEF ty, C
  <2>5. QED
    BY <1>1, <1>4, <1>5, <1>6, <2>2, <2>3, <2>4, UsesMove, UsesKept, SameSettlements DEF C
<1>8. CASE ty # C
  <2>1. \A i \in Ids : store'[C][i] = store[C][i]
    BY <1>1, <1>8 DEF BooksInv, BatchInv, BatchTypeOK
  <2>2. \A i \in Ids : Unwritten(i)' = Unwritten(i)
    BY <1>3, <1>8, <2>1 DEF Unwritten
  <2>3. \A i \in Ids : Amounting(store'[C][i])
    BY <1>6, <2>1
  <2>4. updater'.type # C
    BY <1>3, <1>8
  <2> HIDE DEF ty, C
  <2>5. QED
    BY <1>1, <1>4, <1>5, <1>6, <2>2, <2>3, <2>4, UsesMove, UsesKept, SameSettlements DEF C
<1>9. QED
  BY <1>7, <1>8

LEMMA ApplyBooks == ASSUME BooksInv, Apply PROVE BooksInv'
<1> DEFINE ty == updater.type
           C == ChannelUsedQuota
<1>1. PICK i \in Ids :
        /\ taken[i].n > 0
        /\ taken' = [taken EXCEPT ![i] = Nothing]
        /\ \/ /\ db' = [db EXCEPT ![ty][i] = @ + taken[i].sum]
              /\ usedCount' = IF ty = C THEN [usedCount EXCEPT ![i] = @ + 1] ELSE usedCount
              /\ lost' = lost
           \/ /\ lost' = [lost EXCEPT ![ty][i] = @ + taken[i].sum]
              /\ db' = db /\ usedCount' = usedCount
        /\ UNCHANGED <<store, updater, settle, issued, crashes>>
  BY DEF Apply
<1>2. BatchInv'
  BY ApplyStep DEF BooksInv
<1>3. BatchTypeOK /\ BatchTypeOK'
  BY <1>2 DEF BooksInv, BatchInv
<1>4. Nothing.n = 0 /\ Amounting(Nothing)
  BY DEF Nothing, Amounting
<1>5. \A j \in Ids : taken'[j] = IF j = i THEN Nothing ELSE taken[j]
  BY <1>1, <1>3 DEF BatchTypeOK
<1>6. \A j \in Ids : /\ store[C][j].n \in Nat /\ taken[j].n \in Nat /\ taken[j].sum \in Int
                     /\ usedCount[j] \in Nat /\ lost[C][j] \in Int /\ lost[C][j] >= 0
                     /\ Amounting(store'[C][j])
  BY <1>1, <1>3, UsesTyped DEF BooksInv, UsesCounted
<1>7. CASE ty = C
  <2>1. \A j \in Ids : Amounting(taken[j])
    BY <1>7 DEF BooksInv, UsesCounted
  <2>2. \A j \in Ids : Amounting(taken'[j])
    BY <1>4, <1>5, <2>1
  <2>3. ASSUME NEW j \in Ids
        PROVE  /\ Unwritten(j) = store[C][j].n + taken[j].n
               /\ Unwritten(j)' = IF j = i THEN store[C][j].n ELSE store[C][j].n + taken[j].n
    BY <1>1, <1>4, <1>5, <1>6, <1>7 DEF Unwritten
  <2>4. ASSUME NEW j \in Ids
        PROVE  \/ /\ usedCount'[j] = IF j = i THEN usedCount[j] + 1 ELSE usedCount[j]
                  /\ lost'[C][j] = lost[C][j]
               \/ /\ usedCount'[j] = usedCount[j]
                  /\ lost'[C][j] = IF j = i THEN lost[C][j] + taken[i].sum ELSE lost[C][j]
    BY <1>1, <1>3, <1>7, KindsDistinct DEF BatchTypeOK
  <2>5. taken[i].sum >= taken[i].n /\ taken[i].n >= 1
    BY <1>1, <1>6, <2>1 DEF Amounting
  <2>6. ASSUME NEW j \in Ids
        PROVE  /\ lost'[C][j] >= 0
               /\ Unwritten(j)' + usedCount'[j] <= Unwritten(j) + usedCount[j]
               /\ Unwritten(j) > 0 => Unwritten(j)' > 0 \/ usedCount'[j] > 0 \/ lost'[C][j] > 0
               /\ usedCount[j] > 0 => usedCount'[j] > 0
               /\ lost[C][j] > 0 => lost'[C][j] > 0
    BY <1>6, <2>3, <2>4, <2>5
  <2> HIDE DEF ty, C
  <2>7. \A s \in Settlements : /\ settle'[s].id = settle[s].id /\ settle'[s].amount = settle[s].amount
                               /\ settle'[s].calls = settle[s].calls
    BY <1>1
  <2>8. QED
    BY <1>1, <1>2, <1>6, <2>2, <2>6, <2>7, UsesMove DEF C
<1>8. CASE ty # C
  <2>1. \A j \in Ids : lost'[C][j] = lost[C][j] /\ usedCount'[j] = usedCount[j]
    BY <1>1, <1>3, <1>8, KindsDistinct DEF BatchTypeOK
  <2>2. \A j \in Ids : Unwritten(j)' = Unwritten(j)
    BY <1>1, <1>8 DEF Unwritten
  <2>3. updater'.type # C
    BY <1>1, <1>8
  <2> HIDE DEF ty, C
  <2>4. QED
    BY <1>1, <1>2, <1>3, <1>6, <2>1, <2>2, <2>3, UsesMove, UsesKept, SameSettlements DEF C
<1>9. QED
  BY <1>7, <1>8

LEMMA CrashBooks == ASSUME BooksInv, Restart PROVE BooksInv'
<1> DEFINE C == ChannelUsedQuota
<1>1. /\ store' = [ty \in Types |-> Empty] /\ taken' = Empty
      /\ updater' = [pc |-> "sleep", type |-> 0]
      /\ usedCount' = usedCount /\ issued' = issued
      /\ lost' = [ty \in Types |-> [i \in Ids |-> lost[ty][i] + store[ty][i].sum + Taken(ty, i)]]
  BY DEF Restart
<1>2. BatchInv'
  BY CrashStep DEF BooksInv
<1>3. BatchTypeOK
  BY DEF BooksInv, BatchInv
<1>4. \A s \in Settlements : /\ settle'[s].id = settle[s].id /\ settle'[s].amount = settle[s].amount
                             /\ settle'[s].calls = settle[s].calls
  <2>1. SUFFICES ASSUME NEW s \in Settlements
                 PROVE  /\ settle'[s].id = settle[s].id /\ settle'[s].amount = settle[s].amount
                        /\ settle'[s].calls = settle[s].calls
    OBVIOUS
  <2>2. settle[s] \in Settle
    BY <1>3 DEF BatchTypeOK
  <2>3. settle'[s] = settle[s] \/ settle'[s] = [settle[s] EXCEPT !.dead = TRUE]
    BY DEF Restart
  <2>4. QED
    BY <2>2, <2>3 DEF Settle
<1>5. \A i \in Ids : /\ Amounting(store'[C][i]) /\ store'[C][i].n = 0 /\ taken'[i].n = 0
                     /\ Amounting(taken'[i])
  BY <1>1, EmptyType, EmptyAmounting, KindsDistinct
<1>6. \A i \in Ids : Unwritten(i)' = 0
  BY <1>5 DEF Unwritten
<1>7. ASSUME NEW i \in Ids
      PROVE  /\ lost'[C][i] >= lost[C][i] + Unwritten(i)
             /\ lost[C][i] >= 0 /\ lost[C][i] \in Int /\ lost'[C][i] \in Int
             /\ Unwritten(i) \in Nat /\ usedCount[i] \in Nat
  <2>1. /\ store[C][i].n \in Nat /\ taken[i].n \in Nat /\ taken[i].sum \in Int /\ store[C][i].sum \in Int
        /\ usedCount[i] \in Nat /\ lost[C][i] \in Int
    BY <1>3, UsesTyped
  <2>2. lost'[C][i] = lost[C][i] + store[C][i].sum + Taken(C, i)
    BY <1>1, KindsDistinct
  <2>3. store[C][i].n <= store[C][i].sum /\ lost[C][i] >= 0
    BY DEF BooksInv, UsesCounted, Amounting
  <2>4. updater.type = C => taken[i].n <= taken[i].sum
    BY DEF BooksInv, UsesCounted, Amounting
  <2>5. QED
    BY <2>1, <2>2, <2>3, <2>4 DEF Taken, Unwritten
<1>8. ASSUME NEW i \in Ids
      PROVE  /\ lost'[C][i] >= 0
             /\ Unwritten(i)' + usedCount'[i] <= Unwritten(i) + usedCount[i]
             /\ Unwritten(i) > 0 => Unwritten(i)' > 0 \/ usedCount'[i] > 0 \/ lost'[C][i] > 0
             /\ usedCount[i] > 0 => usedCount'[i] > 0
             /\ lost[C][i] > 0 => lost'[C][i] > 0
  <2> DEFINE before == lost[C][i]
             after == lost'[C][i]
  <2>1. /\ after >= before + Unwritten(i) /\ before >= 0 /\ before \in Int /\ after \in Int
        /\ Unwritten(i) \in Nat /\ usedCount[i] \in Nat
    BY <1>7
  <2>2. Unwritten(i)' = 0 /\ usedCount'[i] = usedCount[i]
    BY <1>1, <1>6
  <2> HIDE DEF before, after
  <2>3. /\ after >= 0
        /\ Unwritten(i)' + usedCount'[i] <= Unwritten(i) + usedCount[i]
        /\ Unwritten(i) > 0 => after > 0
        /\ before > 0 => after > 0
    BY <2>1, <2>2
  <2>4. QED
    BY <2>2, <2>3 DEF before, after
<1> HIDE DEF C
<1>9. QED
  BY <1>1, <1>2, <1>4, <1>5, <1>8, UsesMove DEF C

-----------------------------------------------------------------------------
LEMMA BooksStep == BooksInv /\ [BatchNext]_batchVars => BooksInv'
<1>1. SUFFICES ASSUME BooksInv, [BatchNext]_batchVars PROVE BooksInv'
  OBVIOUS
<1>2. CASE \E s \in Settlements : Add(s)
  BY <1>1, <1>2, AddBooks
<1>3. CASE Wake
  BY <1>1, <1>3, WakeBooks
<1>4. CASE Swap
  BY <1>1, <1>4, SwapBooks
<1>5. CASE Apply
  BY <1>1, <1>5, ApplyBooks
<1>6. CASE Advance
  BY <1>1, <1>6, AdvanceBooks
<1>7. CASE Restart
  BY <1>1, <1>7, CrashBooks
<1>8. CASE UNCHANGED batchVars
  <2>1. BatchInv'
    BY <1>1, <1>8, BatchStep DEF BooksInv
  <2>2. Issues' /\ RequestsCounted' /\ \A i \in Ids : Charged(i)' = Charged(i)
    BY <1>1, <1>8, IssuesStay, SameSettlements DEF batchVars, BooksInv, BatchInv
  <2>3. UsesCounted'
    BY <1>1, <1>8, <2>2 DEF batchVars, BooksInv, UsesCounted, Unwritten, Amounting
  <2>4. QED
    BY <2>1, <2>2, <2>3 DEF BooksInv
<1>9. QED
  BY <1>1, <1>2, <1>3, <1>4, <1>5, <1>6, <1>7, <1>8 DEF BatchNext, Updater

(* At rest, with nothing lost, the sums are those of the charged requests. *)
LEMMA BooksAtRest == ASSUME BooksInv PROVE BooksAgree
<1>1. SUFFICES ASSUME AtRest, lost = Zeros, NEW i \in Ids
               PROVE  /\ db[UserQuota][i] + db[UsedQuota][i] = InitialQuota
                      /\ db[TokenQuota][i] = db[UserQuota][i]
                      /\ db[ChannelUsedQuota][i] = db[UsedQuota][i]
                      /\ db[RequestCount][i] = Charged(i)
                      /\ usedCount[i] <= Charged(i)
                      /\ Charged(i) > 0 => usedCount[i] > 0
  BY DEF BooksAgree
<1>2. BatchTypeOK /\ Conserved /\ BlankEntries
  BY DEF BooksInv, BatchInv
<1>3. ASSUME NEW ty \in Types
      PROVE  db[ty][i] = Initial(ty) + issued[ty][i] /\ issued[ty][i] \in Int
  <2>1. db[ty][i] + store[ty][i].sum + Taken(ty, i) + lost[ty][i] = Initial(ty) + issued[ty][i]
    BY <1>2 DEF Conserved
  <2>2. store[ty][i].sum = 0 /\ taken[i].sum = 0
    BY <1>1, <1>2 DEF AtRest, BlankEntries, Blank
  <2>3. lost[ty][i] = 0
    BY <1>1 DEF Zeros
  <2>4. db[ty][i] \in Int /\ issued[ty][i] \in Int /\ Initial(ty) \in Int
    BY <1>2, BatchConstants DEF BatchTypeOK
  <2>5. QED
    BY <2>1, <2>2, <2>3, <2>4 DEF Taken
<1>4. ASSUME NEW ty \in Types PROVE issued[ty][i] = SumFunction(Records(ty, i))
  BY DEF BooksInv, Issues
<1>5. \A s \in Settlements : settle[s].calls \in {0, 5} /\ settle[s].amount \in Nat
  BY <1>1, <1>2, BatchConstants DEF AtRest, BatchTypeOK, Settle
<1> DEFINE f == Records(UsedQuota, i)
           g == Records(UserQuota, i)
           none == [s \in Settlements |-> 0]
<1>6. f \in [Settlements -> Int] /\ g \in [Settlements -> Int] /\ none \in [Settlements -> Int]
  BY <1>2, RecordsType, KindsDistinct
<1>7. Records(ChannelUsedQuota, i) = f
  BY <1>5, KindsDistinct DEF Records, Recorded
<1>8. Records(TokenQuota, i) = g
  BY <1>5, KindsDistinct DEF Records, Recorded
<1>9. \A s \in Settlements : g[s] = none[s] - f[s]
  <2>1. SUFFICES ASSUME NEW s \in Settlements PROVE g[s] = 0 - f[s]
    OBVIOUS
  <2>2. CASE settle[s].id = i /\ settle[s].calls = 5
    BY <1>5, <2>2, KindsDistinct DEF Records, Recorded
  <2>3. CASE ~(settle[s].id = i /\ settle[s].calls = 5)
    BY <1>5, <2>3, KindsDistinct DEF Records, Recorded
  <2>4. QED
    BY <2>2, <2>3
<1>10. SumFunction(none) = 0
  BY FiniteAssumption, SumZero
<1> HIDE DEF f, g, none
<1>11. SumFunction(g) = SumFunction(none) - SumFunction(f)
  BY <1>6, <1>9, FiniteAssumption, SumMinus
<1>12. SumFunction(f) \in Int /\ SumFunction(g) \in Int
  BY <1>6, FiniteAssumption, SumType
<1>13. issued[UserQuota][i] = - issued[UsedQuota][i] /\ issued[TokenQuota][i] = issued[UserQuota][i]
       /\ issued[ChannelUsedQuota][i] = issued[UsedQuota][i]
  BY <1>4, <1>7, <1>8, <1>10, <1>11, <1>12, KindsDistinct DEF f, g
<1>14. issued[RequestCount][i] = Charged(i)
  <2>1. Requests(i) = {s \in Settlements : settle[s].id = i /\ settle[s].calls = 5}
    BY <1>5 DEF Requests
  <2>2. QED
    BY <2>1, Zenon DEF BooksInv, RequestsCounted, Charged
<1>15. Initial(UserQuota) = InitialQuota /\ Initial(TokenQuota) = InitialQuota /\ Initial(UsedQuota) = 0
       /\ Initial(ChannelUsedQuota) = 0 /\ Initial(RequestCount) = 0 /\ InitialQuota \in Int
  BY BatchConstants DEF Initial, UserQuota, TokenQuota, UsedQuota, ChannelUsedQuota, RequestCount
<1>16. Unwritten(i) = 0
  BY <1>1, KindsDistinct DEF AtRest, Unwritten
<1>17. usedCount[i] <= Charged(i) /\ (Charged(i) > 0 => usedCount[i] > 0)
  <2>1. usedCount[i] \in Nat /\ lost[ChannelUsedQuota][i] = 0 /\ Charged(i) \in Nat
    BY <1>1, <1>2, KindsDistinct, ChargedType DEF BatchTypeOK, Zeros
  <2>2. QED
    BY <1>16, <2>1 DEF BooksInv, UsesCounted
<1>18. QED
  BY <1>3, <1>13, <1>14, <1>15, <1>17, KindsDistinct

(* Once all records are written and none was lost, quota, used quota and   *)
(* counts of user, token and channel tell of the same charged requests,    *)
(* whatever rounds wrote them (batchUpdate, postConsumeQuota).             *)
THEOREM BooksTold == BatchSpec => []BooksAgree
<1>1. BooksInv => BooksAgree
  BY BooksAtRest
<1>2. QED
  BY <1>1, BooksInitInv, BooksStep, PTL DEF BatchSpec
Spare ==
    /\ given <= 1 + reopened + overtaken
    /\ code.there /\ code.status = CodeEnabled => given <= reopened + overtaken

Named ==
    /\ code.usedBy = 0 => given = 0
    /\ code.usedBy # 0 => redeem[code.usedBy].pc = "done"
    /\ code.status = CodeUsed => code.usedBy # 0

ReadRows ==
    /\ \A r \in Redeemers : redeem[r].pc = "read" => redeem[r].row.status = CodeEnabled
    /\ \A e \in Editors : edit[e].pc = "read" /\ edit[e].row.status = CodeUsed => code.usedBy # 0

CodeInv == CodeTypeOK /\ Spare /\ Named /\ ReadRows

-----------------------------------------------------------------------------
LEMMA CodeInitInv == CodeInit => CodeInv
<1>1. SUFFICES ASSUME CodeInit PROVE CodeInv
  OBVIOUS
<1>2. PICK w \in Worths :
        LET row == [there |-> TRUE, status |-> CodeEnabled, quota |-> w, usedBy |-> 0, timed |-> FALSE] IN
        /\ code = row
        /\ redeem = [r \in Redeemers |-> [pc |-> "idle", row |-> row]]
        /\ edit = [e \in Editors |-> [pc |-> "idle", row |-> row]]
  BY <1>1 DEF CodeInit
<1>3. given = 0 /\ reopened = 0 /\ overtaken = 0 /\ codeEdits = 0
  BY <1>1 DEF CodeInit
<1>4. CodeTypeOK
  BY <1>2, <1>3 DEF CodeTypeOK, Code, CodeCall, CodeEnabled
<1>5. Spare /\ Named /\ ReadRows
  BY <1>2, <1>3 DEF Spare, Named, ReadRows, CodeEnabled, CodeUsed
<1>6. QED
  BY <1>4, <1>5 DEF CodeInv

(* A redemption and an edit move on by themselves.                         *)
LEMMA RedeemType ==
  ASSUME CodeTypeOK, NEW r \in Redeemers, NEW c \in CodeCall, redeem' = [redeem EXCEPT ![r] = c]
  PROVE  redeem' \in [Redeemers -> CodeCall]
  BY DEF CodeTypeOK

LEMMA EditedType ==
  ASSUME NEW row \in Code, NEW edited \in Edited(row)
  PROVE  edited \in Code
  BY DEF Edited, Code, CodeEnabled, CodeDisabled

LEMMA ReadStep ==
  ASSUME CodeInv, NEW r \in Redeemers, RedeemRead(r)
  PROVE  CodeInv'
<1> DEFINE c == [pc |-> IF Redeemable(code) THEN "read" ELSE "refused", row |-> code]
<1>1. c \in CodeCall /\ redeem' = [redeem EXCEPT ![r] = c]
  BY DEF CodeInv, CodeTypeOK, RedeemRead, CodeCall
<1>2. UNCHANGED <<code, edit, given, reopened, overtaken, codeEdits>> /\ redeem[r].pc = "idle"
  BY DEF RedeemRead
<1>3. redeem' \in [Redeemers -> CodeCall]
  BY <1>1, RedeemType DEF CodeInv
<1>4. CodeTypeOK'
  BY <1>2, <1>3 DEF CodeInv, CodeTypeOK
<1>5. Spare'
  BY <1>2 DEF CodeInv, Spare
<1>6. redeem'[r] = c /\ \A q \in Redeemers \ {r} : redeem'[q] = redeem[q]
  BY <1>1 DEF CodeInv, CodeTypeOK
<1>7. code.usedBy # 0 => code.usedBy \in Redeemers \ {r}
  BY <1>2 DEF CodeInv, CodeTypeOK, Code, Named
<1>8. Named'
  BY <1>2, <1>6, <1>7 DEF CodeInv, Named
<1>9. c.pc = "read" => c.row.status = CodeEnabled
  BY DEF Redeemable
<1>10. ReadRows'
  BY <1>2, <1>6, <1>9 DEF CodeInv, ReadRows
<1>11. QED
  BY <1>4, <1>5, <1>8, <1>10 DEF CodeInv

LEMMA CommitStep ==
  ASSUME CodeInv, NEW r \in Redeemers, RedeemCommit(r)
  PROVE  CodeInv'
<1>1. r \in Nat \ {0}
  BY RedeemersAssumption
<1>2. redeem[r] \in CodeCall /\ redeem[r].row \in Code /\ redeem[r].row.status = CodeEnabled
  BY DEF CodeInv, CodeTypeOK, CodeCall, ReadRows, RedeemCommit
<1>3. code' \in Code /\ code'.status = CodeUsed /\ code'.usedBy = r
  <2>1. code' = MarkedUsed(redeem[r].row, r)
    BY DEF RedeemCommit
  <2>2. r \in Redeemers \cup {0} /\ CodeUsed \in 1..3
    BY DEF CodeUsed
  <2>3. QED
    BY <1>2, <2>1, <2>2 DEF MarkedUsed, Code
<1>4. redeem' \in [Redeemers -> CodeCall] /\ redeem'[r].pc = "done"
      /\ \A q \in Redeemers \ {r} : redeem'[q] = redeem[q]
  BY <1>2 DEF CodeInv, CodeTypeOK, RedeemCommit, CodeCall
<1>5. UNCHANGED <<edit, reopened, codeEdits>> /\ given' = given + 1
  BY DEF RedeemCommit
<1>6. overtaken' = IF code.there /\ code.status = CodeEnabled THEN overtaken ELSE overtaken + 1
  BY <1>2 DEF RedeemCommit, CodeInv, CodeTypeOK
<1>7. CodeTypeOK'
  BY <1>3, <1>4, <1>5, <1>6 DEF CodeInv, CodeTypeOK
<1>8. Spare'
  BY <1>3, <1>5, <1>6 DEF CodeInv, CodeTypeOK, Spare, CodeUsed, CodeEnabled
<1>9. Named'
  BY <1>1, <1>3, <1>4 DEF Named
<1>10. ReadRows'
  BY <1>1, <1>3, <1>4, <1>5 DEF CodeInv, ReadRows
<1>11. QED
  BY <1>7, <1>8, <1>9, <1>10 DEF CodeInv

LEMMA RollbackStep ==
  ASSUME CodeInv, NEW r \in Redeemers, RedeemRollback(r)
  PROVE  CodeInv'
<1>1. redeem' \in [Redeemers -> CodeCall] /\ redeem'[r].pc = "refused"
      /\ \A q \in Redeemers \ {r} : redeem'[q] = redeem[q]
  BY DEF CodeInv, CodeTypeOK, RedeemRollback, CodeCall
<1>2. UNCHANGED <<code, edit, given, reopened, overtaken, codeEdits>> /\ redeem[r].pc = "read"
  BY DEF RedeemRollback
<1>3. CodeTypeOK'
  BY <1>1, <1>2 DEF CodeInv, CodeTypeOK
<1>4. Spare'
  BY <1>2 DEF CodeInv, Spare
<1>5. code.usedBy # 0 => code.usedBy \in Redeemers \ {r}
  BY <1>2 DEF CodeInv, CodeTypeOK, Code, Named
<1>6. Named'
  BY <1>1, <1>2, <1>5 DEF CodeInv, Named
<1>7. ReadRows'
  BY <1>1, <1>2 DEF CodeInv, ReadRows
<1>8. QED
  BY <1>3, <1>4, <1>6, <1>7 DEF CodeInv

LEMMA EditReadStep ==
  ASSUME CodeInv, NEW e \in Editors, EditRead(e)
  PROVE  CodeInv'
<1>1. PICK row \in Edited(code) : edit' = [edit EXCEPT ![e] = [pc |-> "read", row |-> row]]
  BY DEF EditRead
<1>2. row \in Code
  BY <1>1, EditedType DEF CodeInv, CodeTypeOK
<1>3. UNCHANGED <<code, redeem, given, reopened, overtaken>> /\ codeEdits' = codeEdits + 1
  BY DEF EditRead
<1>4. edit' \in [Editors -> CodeCall] /\ \A d \in Editors \ {e} : edit'[d] = edit[d]
  BY <1>1, <1>2 DEF CodeInv, CodeTypeOK, CodeCall
<1>5. CodeTypeOK'
  BY <1>3, <1>4 DEF CodeInv, CodeTypeOK
<1>6. Spare'
  BY <1>3 DEF CodeInv, Spare
<1>7. Named'
  BY <1>3 DEF CodeInv, Named
<1>8. row.status = CodeUsed => code.status = CodeUsed
  BY <1>1 DEF Edited, CodeInv, CodeTypeOK, Code, CodeUsed, CodeEnabled, CodeDisabled
<1>9. edit'[e].row = row
  BY <1>1 DEF CodeInv, CodeTypeOK
<1>10. ReadRows'
  BY <1>3, <1>4, <1>8, <1>9 DEF CodeInv, Named, ReadRows
<1>11. QED
  BY <1>5, <1>6, <1>7, <1>10 DEF CodeInv

LEMMA EditWriteStep ==
  ASSUME CodeInv, NEW e \in Editors, EditWrite(e)
  PROVE  CodeInv'
<1> DEFINE row == edit[e].row
<1>1. row \in Code /\ code \in Code /\ edit[e].pc = "read"
  BY DEF CodeInv, CodeTypeOK, CodeCall, EditWrite
<1>2. code' = IF code.there THEN Rewritten(row) ELSE code
  BY DEF EditWrite
<1>3. code' \in Code /\ code'.usedBy = code.usedBy /\ code'.there = code.there
      /\ code'.status = IF code.there THEN row.status ELSE code.status
  BY <1>1, <1>2 DEF Rewritten, Code
<1>4. reopened' = IF /\ code.there /\ code.usedBy # 0
                     /\ code.status # CodeEnabled /\ row.status = CodeEnabled
                  THEN reopened + 1 ELSE reopened
  BY DEF EditWrite, CodeInv, CodeTypeOK
<1>5. edit' \in [Editors -> CodeCall] /\ edit'[e].pc = "idle"
      /\ \A d \in Editors \ {e} : edit'[d] = edit[d]
  BY DEF EditWrite, CodeInv, CodeTypeOK, CodeCall
<1>6. UNCHANGED <<redeem, given, overtaken, codeEdits>>
  BY DEF EditWrite
<1>7. CodeTypeOK'
  BY <1>3, <1>4, <1>5, <1>6 DEF CodeInv, CodeTypeOK
<1>8. Spare'
  BY <1>3, <1>4, <1>6 DEF CodeInv, CodeTypeOK, Spare, Named
<1>9. Named'
  BY <1>1, <1>3, <1>6 DEF CodeInv, Named, ReadRows
<1>10. ReadRows'
  BY <1>3, <1>5, <1>6 DEF CodeInv, ReadRows
<1>11. QED
  BY <1>7, <1>8, <1>9, <1>10 DEF CodeInv

LEMMA DeleteStep ==
  ASSUME CodeInv, DeleteCode
  PROVE  CodeInv'
<1>1. code' \in Code /\ ~code'.there /\ code'.status = code.status /\ code'.usedBy = code.usedBy
  BY DEF CodeInv, CodeTypeOK, DeleteCode, Code
<1>2. UNCHANGED <<redeem, edit, given, reopened, overtaken, codeEdits>>
  BY DEF DeleteCode
<1>3. QED
  BY <1>1, <1>2 DEF CodeInv, CodeTypeOK, Spare, Named, ReadRows

LEMMA CodeStep == CodeInv /\ [CodeNext]_codeVars => CodeInv'
<1>1. SUFFICES ASSUME CodeInv, [CodeNext]_codeVars PROVE CodeInv'
  OBVIOUS
<1>2. CASE UNCHANGED codeVars
  BY <1>1, <1>2 DEF codeVars, CodeInv, CodeTypeOK, Spare, Named, ReadRows
<1>3. ASSUME NEW r \in Redeemers, RedeemRead(r) \/ RedeemCommit(r) \/ RedeemRollback(r)
      PROVE  CodeInv'
  BY <1>1, <1>3, ReadStep, CommitStep, RollbackStep
<1>4. ASSUME NEW e \in Editors, EditRead(e) \/ EditWrite(e)
      PROVE  CodeInv'
  BY <1>1, <1>4, EditReadStep, EditWriteStep
<1>5. CASE DeleteCode
  BY <1>1, <1>5, DeleteStep
<1>6. QED
  BY <1>1, <1>2, <1>3, <1>4, <1>5 DEF CodeNext

LEMMA CodeInvAlways == CodeSpec => []CodeInv
  BY CodeInitInv, CodeStep, PTL DEF CodeSpec
-----------------------------------------------------------------------------
\* Every row, call and tally keeps its type (model/redemption.go).
THEOREM CodeTypeCorrect == CodeSpec => []CodeTypeOK
<1>1. CodeInv => CodeTypeOK
  BY DEF CodeInv
<1>2. QED
  BY CodeInvAlways, <1>1, PTL

LEMMA CodeHolds == ASSUME CodeInv PROVE CodeGivenOnce
<1>1. given <= 1 + reopened + overtaken
  BY DEF CodeInv, Spare
<1>2. code.status = CodeUsed => code.usedBy \in Redeemers /\ redeem[code.usedBy].pc = "done"
  BY DEF CodeInv, CodeTypeOK, Code, Named
<1>3. QED
  BY <1>1, <1>2 DEF CodeGivenOnce

\* For any number of redemptions and edits, quota is given for a code once, and
\* once more for each time it was enabled after its use or taken by a redemption
\* that had read it before; and a used code names who got it (Redeem,
\* UpdateRedemption, DeleteRedemption).
THEOREM GivenOnce == CodeSpec => []CodeGivenOnce
<1>1. CodeInv => CodeGivenOnce
  BY CodeHolds
<1>2. QED
  BY CodeInvAlways, <1>1, PTL
Failed(row) == row.is.fail = TRUE

Owes(c) == \/ c.pc = "refund"
           \/ c.pc = "finish" /\ Failed(c.row) /\ Ended(c.row.is)
Owed == {p \in Pollers : Owes(poller[p])}

Left(row) == IF Ended(row.is) THEN 0 ELSE 1
One(b) == IF b THEN 1 ELSE 0

\* Refunds paid, owed and at hand.
RefundsCounted == refunds + Cardinality(Owed) + Left(mjRow) <= 1 + slips

\* Nobody works on a row before it is there, and its kind stays.
SameKind ==
    /\ mjRow.kind = "none" => remote = Unknown /\ charged = "not" /\ ~Ended(mjRow.is)
    /\ \A p \in Pollers : poller[p].pc # "idle" => mjRow.kind # "none" /\ poller[p].row.kind = mjRow.kind
    /\ \A n \in Notifiers : notifier[n].pc # "idle" => mjRow.kind # "none" /\ notifier[n].row.kind = mjRow.kind

\* What will be saved was reported by the upstream service.
Asked(c) == c.pc \in {"save", "finish", "refund"}
FromRemote ==
    /\ \A p \in Pollers : Asked(poller[p]) => /\ poller[p].row.kind = "paid" /\ remote # Unknown
                                              /\ Failed(poller[p].row) => remote.fail = TRUE
    /\ \A p \in Pollers : poller[p].pc = "refund" => Failed(poller[p].row)
    /\ refunds > 0 => remote.fail = TRUE /\ remote # Unknown /\ mjRow.kind = "paid"

\* What runs upstream was charged, or will be.
ChargedFor ==
    mjRow.kind = "paid" /\ remote # Unknown /\ charged = "not" => "uncharged" \in mjNoted

MjInv == MjTypeOK /\ RefundsCounted /\ SameKind /\ FromRemote /\ ChargedFor

-----------------------------------------------------------------------------
LEMMA OwedFinite ==
  /\ IsFiniteSet(Owed) /\ Cardinality(Owed) \in Nat
<1>1. IsFiniteSet(Owed)
  BY PollersAssumption, FS_Subset DEF Owed
<1>2. QED
  BY <1>1, FS_CardinalityType

(* A step of one instance changes what is owed by what it owes itself.     *)
LEMMA OwedChanges ==
  ASSUME MjTypeOK, NEW p \in Pollers, NEW c \in MjCall, poller' = [poller EXCEPT ![p] = c]
  PROVE  /\ Cardinality(Owed') \in Nat
         /\ Cardinality(Owed') = Cardinality(Owed) + One(Owes(c)) - One(Owes(poller[p]))
<1>1. poller'[p] = c /\ \A q \in Pollers \ {p} : poller'[q] = poller[q]
  BY DEF MjTypeOK
<1>2. Owed' = {q \in Pollers : Owes(poller'[q])}
  BY DEF Owed, Owes, Failed, Ended
<1>3. p \in Owed <=> Owes(poller[p])
  BY DEF Owed
<1>4. Owed' = IF Owes(c) THEN Owed \cup {p} ELSE Owed \ {p}
  BY <1>1, <1>2 DEF Owed
<1>5. Cardinality(Owed \cup {p}) = IF p \in Owed THEN Cardinality(Owed) ELSE Cardinality(Owed) + 1
  BY OwedFinite, FS_AddElement
<1>6. Cardinality(Owed \ {p}) = IF p \in Owed THEN Cardinality(Owed) - 1 ELSE Cardinality(Owed)
  BY OwedFinite, FS_RemoveElement
<1>7. Cardinality(Owed') = Cardinality(Owed) + One(Owes(c)) - One(Owes(poller[p]))
  BY <1>3, <1>4, <1>5, <1>6, OwedFinite DEF One
<1>8. IsFiniteSet(Owed \cup {p}) /\ IsFiniteSet(Owed \ {p})
  BY OwedFinite, FS_AddElement, FS_RemoveElement
<1>9. Cardinality(Owed') \in Nat
  BY <1>4, <1>8, FS_CardinalityType
<1>10. QED
  BY <1>7, <1>9

LEMMA OwedStays ==
  ASSUME UNCHANGED poller
  PROVE  Owed' = Owed
  BY DEF Owed, Owes, Failed, Ended

LEMMA ReportsTyped ==
  /\ Begun \in Report /\ Unknown \in Report /\ Running \in Report /\ Success \in Report
  /\ Failures \subseteq Report /\ NoRow \in MjRow /\ AtRestMj \in MjCall
<1>1. Begun \in Report /\ Unknown \in Report /\ Running \in Report /\ Success \in Report
  BY DEF Report, Begun, Unknown, Running, Success
<1>2. Failures \subseteq Report
  <2>1. SUFFICES ASSUME NEW x \in {"50%", "100%"} PROVE [progress |-> x, status |-> "FAILURE", fail |-> TRUE] \in Report
    BY Zenon DEF Failures
  <2>2. QED
    BY DEF Report
<1>3. NoRow \in MjRow
  BY <1>1 DEF NoRow, MjRow
<1>4. QED
  BY <1>1, <1>2, <1>3 DEF AtRestMj, MjCall

LEMMA MjInitInv == MjInit => MjInv
<1>1. SUFFICES ASSUME MjInit PROVE MjInv
  OBVIOUS
<1>2. MjTypeOK
  BY <1>1, ReportsTyped DEF MjInit, MjTypeOK
<1>3. \A p \in Pollers : poller[p].pc = "idle"
  BY <1>1 DEF MjInit, AtRestMj
<1>4. Owed = {}
  BY <1>3 DEF Owed, Owes
<1>5. mjRow.kind = "none" /\ ~Ended(mjRow.is) /\ \A n \in Notifiers : notifier[n].pc = "idle"
  BY <1>1 DEF MjInit, AtRestMj, NoRow, Begun, Ended
<1>6. refunds = 0 /\ slips = 0 /\ remote = Unknown /\ charged = "not"
  BY <1>1 DEF MjInit
<1>7. RefundsCounted
  BY <1>4, <1>5, <1>6, FS_EmptySet DEF RefundsCounted, Left
<1>8. ~(refunds > 0)
  BY <1>6
<1>9. SameKind
  BY <1>3, <1>5, <1>6 DEF SameKind
<1>10. FromRemote /\ ChargedFor
  BY <1>3, <1>5, <1>8 DEF FromRemote, ChargedFor, Asked
<1>11. QED
  BY <1>2, <1>7, <1>9, <1>10 DEF MjInv

LEMMA PollerMoves ==
  ASSUME MjTypeOK, NEW p \in Pollers, NEW c \in MjCall, poller' = [poller EXCEPT ![p] = c]
  PROVE  /\ poller' \in [Pollers -> MjCall]
         /\ poller'[p] = c /\ \A q \in Pollers \ {p} : poller'[q] = poller[q]
  BY DEF MjTypeOK

LEMMA NotifierMoves ==
  ASSUME MjTypeOK, NEW n \in Notifiers, NEW c \in MjCall, notifier' = [notifier EXCEPT ![n] = c]
  PROVE  /\ notifier' \in [Notifiers -> MjCall]
         /\ notifier'[n] = c /\ \A q \in Notifiers \ {n} : notifier'[q] = notifier[q]
  BY DEF MjTypeOK

-----------------------------------------------------------------------------
(* The submit, and what goes on upstream.                                  *)

LEMMA InsertedRows ==
  ASSUME NEW row \in Inserted
  PROVE  /\ row \in MjRow /\ row.kind # "none"
         /\ row.kind = "paid" /\ row.code \notin {1, 21, 22} => row.is # Begun /\ row.is # Success
<1>1. CASE \E k \in {"paid"}, c \in {1, 22} : row = [kind |-> k, code |-> c, is |-> Begun]
  BY <1>1, ReportsTyped DEF MjRow
<1>2. CASE row \in {[kind |-> "modal", code |-> 1, is |-> Success], [kind |-> "modal", code |-> 22, is |-> Begun]}
  BY <1>2, ReportsTyped DEF MjRow
<1>3. CASE \E r \in {[Running EXCEPT !.progress = "0%"], Success} : row = [kind |-> "paid", code |-> 21, is |-> r]
  <2>1. [Running EXCEPT !.progress = "0%"] \in Report
    BY DEF Running, Report
  <2>2. QED
    BY <1>3, <2>1, ReportsTyped DEF MjRow
<1>4. CASE row \in {[kind |-> "paid", code |-> 23, is |-> Unknown],
                    [kind |-> "paid", code |-> 24, is |-> [Unknown EXCEPT !.progress = "100%"]]}
  <2>1. [Unknown EXCEPT !.progress = "100%"] \in Report
    BY DEF Unknown, Report
  <2>2. Unknown # Begun /\ Unknown # Success
        /\ [Unknown EXCEPT !.progress = "100%"] # Begun /\ [Unknown EXCEPT !.progress = "100%"] # Success
    BY DEF Unknown, Begun, Success
  <2>3. row.is \in {Unknown, [Unknown EXCEPT !.progress = "100%"]}
    BY <1>4
  <2>4. row \in MjRow /\ row.kind = "paid"
    BY <1>4, <2>1, ReportsTyped DEF MjRow
  <2>5. QED
    BY <2>2, <2>3, <2>4
<1>5. QED
  BY <1>1, <1>2, <1>3, <1>4 DEF Inserted

LEMMA SubmitStep ==
  ASSUME MjInv, Submit
  PROVE  MjInv'
<1>1. mjRow.kind = "none" /\ UNCHANGED <<reported, poller, notifier, refunds, seeds, slips, mjNoted, mjTally>>
  BY DEF Submit
<1>2. PICK row \in Inserted :
        /\ mjRow' = row
        /\ remote' = CASE row.code \in {1, 22} /\ row.is = Begun -> Begun
                       [] row.code = 21 -> IF Ended(row.is) THEN Success ELSE Running
                       [] row.is = Success -> Success
                       [] OTHER -> Unknown
        /\ charged' = IF row.kind = "paid" /\ row.code \in {1, 21, 22} THEN "due" ELSE "not"
  BY DEF Submit
<1>3. row \in MjRow /\ row.kind # "none"
      /\ (row.kind = "paid" /\ row.code \notin {1, 21, 22} => row.is # Begun /\ row.is # Success)
  BY InsertedRows
<1>4. remote' \in {Begun, Success, Running, Unknown}
  BY <1>2
<1>5. MjTypeOK'
  BY <1>1, <1>2, <1>3, <1>4, ReportsTyped DEF MjInv, MjTypeOK
<1>6. ~Ended(mjRow.is) /\ refunds = 0
  BY <1>1 DEF MjInv, SameKind, FromRemote, MjTypeOK
<1>7. RefundsCounted'
  <2>1. Owed' = Owed
    BY <1>1, OwedStays
  <2>2. Left(mjRow) = 1 /\ Left(mjRow)' \in {0, 1}
    BY <1>6 DEF Left
  <2>3. QED
    BY <1>1, <2>1, <2>2, OwedFinite DEF MjInv, RefundsCounted, MjTypeOK
<1>8. \A p \in Pollers : poller'[p].pc = "idle"
  BY <1>1 DEF MjInv, SameKind, MjTypeOK, MjCall
<1>9. \A n \in Notifiers : notifier'[n].pc = "idle"
  BY <1>1 DEF MjInv, SameKind, MjTypeOK, MjCall
<1>10. SameKind' /\ FromRemote'
  BY <1>1, <1>2, <1>3, <1>6, <1>8, <1>9 DEF SameKind, FromRemote, Asked
<1>11. ChargedFor'
  <2>1. SUFFICES ASSUME row.kind = "paid", remote' # Unknown, charged' = "not" PROVE FALSE
    BY <1>2 DEF ChargedFor
  <2>2. row.code \notin {1, 21, 22}
    BY <1>2, <2>1
  <2>3. row.is # Success
    BY <1>3, <2>1, <2>2
  <2>4. QED
    BY <1>2, <2>1, <2>2, <2>3
<1>12. QED
  BY <1>5, <1>7, <1>10, <1>11 DEF MjInv

LEMMA ChargeStep ==
  ASSUME MjInv, Charge
  PROVE  MjInv'
<1>1. UNCHANGED <<mjRow, remote, reported, poller, notifier, refunds, seeds, slips>>
      /\ charged = "due" /\ mjNoted \subseteq mjNoted'
      /\ (charged' = "charged" \/ (charged' = "not" /\ "uncharged" \in mjNoted'))
  BY DEF Charge
<1>2. Owed' = Owed
  BY <1>1, OwedStays
<1>3. MjTypeOK' /\ RefundsCounted'
  BY <1>1, <1>2 DEF MjInv, MjTypeOK, RefundsCounted, Left, Ended
<1>4. SameKind'
  BY <1>1 DEF MjInv, SameKind, Ended
<1>5. FromRemote' /\ ChargedFor'
  BY <1>1 DEF MjInv, FromRemote, ChargedFor, Failed, Asked
<1>6. QED
  BY <1>3, <1>4, <1>5 DEF MjInv

LEMMA WorkStep ==
  ASSUME MjInv, Work
  PROVE  MjInv'
<1>1. UNCHANGED <<mjRow, poller, notifier, charged, refunds, seeds, slips, mjNoted, mjTally>>
      /\ remote \in {Begun, Running}
  BY DEF Work
<1>2. PICK r \in {Running, Success} \cup Failures : remote' = r /\ reported' = reported \cup {r}
  BY DEF Work
<1>3. Owed' = Owed
  BY <1>1, OwedStays
<1>4. MjTypeOK' /\ RefundsCounted'
  BY <1>1, <1>2, <1>3, ReportsTyped DEF MjInv, MjTypeOK, RefundsCounted, Left, Ended
<1>5. remote # Unknown /\ remote.fail # TRUE
  <2>1. Begun.fail = FALSE /\ Running.fail = FALSE /\ Unknown.fail = TRUE
    BY DEF Begun, Running, Unknown
  <2>2. QED
    BY <1>1, <2>1
<1>6. r # Unknown
  <2>1. r.progress # "0%"
    BY <1>2 DEF Running, Success, Failures
  <2>2. Unknown.progress = "0%"
    BY DEF Unknown
  <2>3. QED
    BY <2>1, <2>2, Zenon
<1>7. SameKind'
  BY <1>1, <1>5 DEF MjInv, SameKind
<1>8. ~(refunds > 0) /\ \A p \in Pollers : Asked(poller[p]) => ~Failed(poller[p].row)
  BY <1>5, Zenon DEF MjInv, FromRemote
<1>9. FromRemote'
  BY <1>1, <1>2, <1>6, <1>8 DEF MjInv, FromRemote, Asked, Failed
<1>10. ChargedFor'
  BY <1>1, <1>5 DEF MjInv, ChargedFor
<1>11. QED
  BY <1>4, <1>7, <1>9, <1>10 DEF MjInv

-----------------------------------------------------------------------------
(* What a step of one instance keeps.                                      *)

LEMMA KindsKept ==
  ASSUME MjInv, NEW p \in Pollers, NEW c \in MjCall, poller' = [poller EXCEPT ![p] = c],
         UNCHANGED notifier, mjRow.kind # "none", mjRow'.kind = mjRow.kind,
         c.pc # "idle" => c.row.kind = mjRow.kind
  PROVE  SameKind'
<1>1. poller'[p] = c /\ \A q \in Pollers \ {p} : poller'[q] = poller[q]
  BY PollerMoves DEF MjInv
<1>2. \A q \in Pollers : poller'[q].pc # "idle" => mjRow'.kind # "none" /\ poller'[q].row.kind = mjRow'.kind
  BY <1>1 DEF MjInv, SameKind
<1>3. \A n \in Notifiers : notifier'[n].pc # "idle" => mjRow'.kind # "none" /\ notifier'[n].row.kind = mjRow'.kind
  BY DEF MjInv, SameKind
<1>4. QED
  BY <1>2, <1>3 DEF SameKind

LEMMA FromRemoteKept ==
  ASSUME MjInv, NEW p \in Pollers, NEW c \in MjCall, poller' = [poller EXCEPT ![p] = c],
         UNCHANGED <<remote, refunds>>, mjRow'.kind = mjRow.kind,
         Asked(c) => c.row.kind = "paid" /\ remote # Unknown /\ (Failed(c.row) => remote.fail = TRUE),
         c.pc = "refund" => Failed(c.row)
  PROVE  FromRemote'
<1>1. poller'[p] = c /\ \A q \in Pollers \ {p} : poller'[q] = poller[q]
  BY PollerMoves DEF MjInv
<1>2. \A q \in Pollers : Asked(poller'[q]) => /\ poller'[q].row.kind = "paid" /\ remote # Unknown
                                              /\ Failed(poller'[q].row) => remote.fail = TRUE
  BY <1>1, Zenon DEF MjInv, FromRemote
<1>3. \A q \in Pollers : poller'[q].pc = "refund" => Failed(poller'[q].row)
  BY <1>1, Zenon DEF MjInv, FromRemote
<1>4. refunds > 0 => remote.fail = TRUE /\ remote # Unknown /\ mjRow.kind = "paid"
  BY Zenon DEF MjInv, FromRemote
<1>5. QED
  BY <1>2, <1>3, <1>4, Zenon DEF FromRemote, Asked, Failed

LEMMA ChargedKept ==
  ASSUME MjInv, UNCHANGED <<remote, charged>>, mjNoted \subseteq mjNoted', mjRow'.kind = mjRow.kind
  PROVE  ChargedFor'
  BY DEF MjInv, ChargedFor

LEMMA CountedKept ==
  ASSUME MjInv, NEW p \in Pollers, NEW c \in MjCall, poller' = [poller EXCEPT ![p] = c],
         refunds' \in Nat, slips' \in Nat,
         refunds' + One(Owes(c)) + Left(mjRow') - slips'
             <= refunds + One(Owes(poller[p])) + Left(mjRow) - slips
  PROVE  RefundsCounted'
<1>1. /\ Cardinality(Owed') \in Nat
      /\ Cardinality(Owed') = Cardinality(Owed) + One(Owes(c)) - One(Owes(poller[p]))
  BY OwedChanges DEF MjInv
<1>2. One(Owes(c)) \in Nat /\ One(Owes(poller[p])) \in Nat /\ Left(mjRow) \in Nat /\ Left(mjRow') \in Nat
  BY DEF One, Left
<1>3. Left(mjRow)' = Left(mjRow')
  BY DEF Left, Ended
<1>4. refunds + Cardinality(Owed) + Left(mjRow) <= 1 + slips /\ refunds \in Nat /\ slips \in Nat
  BY DEF MjInv, RefundsCounted, MjTypeOK
<1>5. refunds' + Cardinality(Owed') + Left(mjRow') <= 1 + slips'
  BY <1>1, <1>2, <1>4, OwedFinite
<1>6. QED
  BY <1>3, <1>5 DEF RefundsCounted

LEMMA SavesCounted ==
  ASSUME MjInv, NEW row \in MjRow, Saves(row), row.kind = mjRow.kind
  PROVE  /\ mjRow' \in MjRow /\ mjRow'.kind = mjRow.kind /\ slips' \in Nat
         /\ One(Failed(row) /\ Ended(row.is)) + Left(mjRow') - slips' <= Left(mjRow) - slips
<1>1. mjRow \in MjRow /\ slips \in Nat
  BY DEF MjInv, MjTypeOK
<1>2. Failed(row) <=> row.is.fail
  BY DEF MjRow, Report, Failed
<1>3. CASE mjRow' = row /\ slips' = Slipped(row, TRUE)
  <2>1. slips' = slips + One(Ended(mjRow.is) /\ (~Ended(row.is) \/ Failed(row)))
    BY <1>2, <1>3 DEF Slipped, One
  <2>2. slips' \in Nat
    BY <1>1, <2>1 DEF One
  <2>3. mjRow' = row /\ mjRow' \in MjRow /\ mjRow'.kind = mjRow.kind
    BY <1>3
  <2>4. One(Failed(row) /\ Ended(row.is)) + Left(row) - slips' <= Left(mjRow) - slips
    <3>1. CASE Ended(mjRow.is) /\ (~Ended(row.is) \/ Failed(row))
      <4>1. slips' = slips + 1 /\ Left(mjRow) = 0
        BY <2>1, <3>1 DEF One, Left
      <4>2. One(Failed(row) /\ Ended(row.is)) + Left(row) <= 1
        BY DEF One, Left
      <4>3. One(Failed(row) /\ Ended(row.is)) \in Nat /\ Left(row) \in Nat
        BY DEF One, Left
      <4>4. QED
        BY <1>1, <4>1, <4>2, <4>3
    <3>2. CASE Ended(mjRow.is) /\ Ended(row.is) /\ ~Failed(row)
      <4>1. slips' = slips /\ Left(mjRow) = 0 /\ One(Failed(row) /\ Ended(row.is)) = 0 /\ Left(row) = 0
        BY <1>1, <2>1, <3>2 DEF One, Left
      <4>2. QED
        BY <1>1, <4>1
    <3>3. CASE ~Ended(mjRow.is)
      <4>1. slips' = slips /\ Left(mjRow) = 1
        BY <1>1, <2>1, <3>3 DEF One, Left
      <4>2. One(Failed(row) /\ Ended(row.is)) + Left(row) <= 1
        BY DEF One, Left
      <4>3. One(Failed(row) /\ Ended(row.is)) \in Nat /\ Left(row) \in Nat
        BY DEF One, Left
      <4>4. QED
        BY <1>1, <4>1, <4>2, <4>3
    <3>4. QED
      BY <3>1, <3>2, <3>3
  <2>5. QED
    BY <2>2, <2>3, <2>4
<1>4. CASE UNCHANGED mjRow /\ slips' = Slipped(row, FALSE)
  <2>1. slips' >= slips + One(Failed(row)) /\ slips' \in Nat
    BY <1>1, <1>2, <1>4 DEF Slipped, One
  <2>2. One(Failed(row) /\ Ended(row.is)) <= One(Failed(row)) /\ One(Failed(row)) \in Nat
        /\ One(Failed(row) /\ Ended(row.is)) \in Nat /\ Left(mjRow) \in Nat
    BY DEF One, Left
  <2>3. mjRow' = mjRow
    BY <1>4
  <2>4. One(Failed(row) /\ Ended(row.is)) + Left(mjRow) - slips' <= Left(mjRow) - slips
    BY <1>1, <2>1, <2>2
  <2>5. QED
    BY <1>1, <2>1, <2>3, <2>4
<1>5. QED
  BY <1>3, <1>4 DEF Saves

-----------------------------------------------------------------------------
(* Polling, up to the answer.                                              *)

LEMMA PollReadStep ==
  ASSUME MjInv, NEW p \in Pollers, PollRead(p)
  PROVE  MjInv'
<1> DEFINE c == [pc |-> "ask", row |-> mjRow, answer |-> Begun]
<1>1. UNCHANGED <<mjRow, remote, reported, notifier, charged, refunds, seeds, slips, mjNoted, mjTally>>
      /\ poller[p].pc = "idle" /\ mjRow.kind # "none"
  BY DEF PollRead
<1>2. c \in MjCall /\ poller' = [poller EXCEPT ![p] = c]
  BY ReportsTyped DEF MjInv, MjTypeOK, PollRead, Polls, MjCall
<1>3. ~Owes(c) /\ ~Owes(poller[p])
  BY <1>1 DEF Owes
<1>4. MjTypeOK'
  BY <1>1, <1>2, PollerMoves DEF MjInv, MjTypeOK
<1>5. RefundsCounted'
  <2>1. refunds \in Nat /\ slips \in Nat /\ Left(mjRow) \in Nat
    BY DEF MjInv, MjTypeOK, Left
  <2>2. One(Owes(c)) = 0 /\ One(Owes(poller[p])) = 0
    BY <1>3 DEF One
  <2>3. refunds' = refunds /\ slips' = slips /\ mjRow' = mjRow
    BY <1>1
  <2>4. refunds' + One(Owes(c)) + Left(mjRow') - slips'
           <= refunds + One(Owes(poller[p])) + Left(mjRow) - slips
    BY <2>1, <2>2, <2>3
  <2>5. QED
    BY <1>2, <2>1, <2>3, <2>4, CountedKept
<1>6. SameKind' /\ ChargedFor'
  BY <1>1, <1>2, KindsKept, ChargedKept
<1>7. FromRemote'
  <2>1. ~Asked(c) /\ c.pc # "refund"
    BY DEF Asked
  <2>2. QED
    BY <1>1, <1>2, <2>1, FromRemoteKept
<1>8. QED
  BY <1>4, <1>5, <1>6, <1>7 DEF MjInv

(* A step after which the instance rests, and what it owed may be given up. *)
LEMMA RestStep ==
  ASSUME MjInv, NEW p \in Pollers, Rests(p), poller[p].pc # "idle",
         UNCHANGED <<remote, reported, notifier, charged, refunds, slips>>, seeds' \in Nat,
         mjNoted \subseteq mjNoted', mjRow' \in MjRow, mjRow'.kind = mjRow.kind,
         mjRow' = mjRow \/ Ended(mjRow'.is)
  PROVE  MjInv'
<1>1. AtRestMj \in MjCall /\ poller' = [poller EXCEPT ![p] = AtRestMj] /\ AtRestMj.pc = "idle"
  BY ReportsTyped DEF Rests, AtRestMj
<1>2. mjRow.kind # "none"
  BY DEF MjInv, SameKind
<1>3. MjTypeOK'
  BY <1>1, PollerMoves DEF MjInv, MjTypeOK
<1>4. RefundsCounted'
  <2>1. refunds \in Nat /\ slips \in Nat /\ Left(mjRow) \in Nat /\ Left(mjRow') \in Nat /\ Left(mjRow') <= Left(mjRow)
    BY DEF MjInv, MjTypeOK, Left
  <2>2. One(Owes(AtRestMj)) = 0 /\ One(Owes(poller[p])) \in Nat
    BY <1>1 DEF One, Owes
  <2>3. refunds' = refunds /\ slips' = slips
    OBVIOUS
  <2>4. refunds' + One(Owes(AtRestMj)) + Left(mjRow') - slips'
           <= refunds + One(Owes(poller[p])) + Left(mjRow) - slips
    BY <2>1, <2>2, <2>3
  <2>5. QED
    BY <1>1, <2>1, <2>3, <2>4, CountedKept
<1>5. SameKind' /\ ChargedFor'
  BY <1>1, <1>2, KindsKept, ChargedKept
<1>6. FromRemote'
  <2>1. ~Asked(AtRestMj) /\ AtRestMj.pc # "refund"
    BY <1>1 DEF Asked
  <2>2. QED
    BY <1>1, <2>1, FromRemoteKept
<1>7. QED
  BY <1>3, <1>4, <1>5, <1>6 DEF MjInv

LEMMA PollMissingStep ==
  ASSUME MjInv, NEW p \in Pollers, PollMissing(p)
  PROVE  MjInv'
<1> DEFINE report == [progress |-> "100%", status |-> "FAILURE", fail |-> TRUE]
<1>1. mjRow' = [mjRow EXCEPT !.is = report]
  BY DEF PollMissing
<1>2. report \in Report /\ Ended(report)
  BY DEF Report, Ended
<1>3. mjRow' \in MjRow /\ mjRow'.kind = mjRow.kind /\ mjRow'.is = report
  BY <1>1, <1>2 DEF MjInv, MjTypeOK, MjRow
<1>4. Rests(p) /\ poller[p].pc # "idle" /\ mjNoted \subseteq mjNoted' /\ Ended(mjRow'.is)
      /\ UNCHANGED <<remote, reported, notifier, charged, refunds, seeds, slips, mjTally>>
  BY <1>2, <1>3 DEF PollMissing
<1>5. QED
  BY <1>3, <1>4, RestStep DEF MjInv, MjTypeOK

LEMMA PollStopsStep ==
  ASSUME MjInv, NEW p \in Pollers, PollStops(p)
  PROVE  MjInv'
<1>1. Rests(p) /\ poller[p].pc # "idle" /\ mjNoted \subseteq mjNoted'
      /\ UNCHANGED <<mjRow, remote, reported, notifier, charged, refunds, seeds, slips>>
  BY DEF PollStops
<1>2. QED
  BY <1>1, RestStep DEF MjInv, MjTypeOK

LEMMA PollAskStep ==
  ASSUME MjInv, NEW p \in Pollers, PollAsk(p)
  PROVE  MjInv'
<1> DEFINE row == [poller[p].row EXCEPT !.code = 1, !.is = remote]
           c == [pc |-> "save", row |-> row, answer |-> remote]
<1>1. poller[p].pc = "ask"
      /\ UNCHANGED <<mjRow, remote, reported, notifier, charged, refunds, seeds, slips, mjNoted, mjTally>>
  BY DEF PollAsk
<1>2. CASE Rests(p)
  BY <1>1, <1>2, RestStep DEF MjInv, MjTypeOK
<1>3. CASE remote # Unknown /\ NeedsUpdate(poller[p].row, remote) /\ Polls(p, "save", row, remote)
  <2>1. poller[p] \in MjCall /\ poller[p].row \in MjRow /\ remote \in Report
    BY DEF MjInv, MjTypeOK, MjCall
  <2>2. row \in MjRow /\ row.kind = poller[p].row.kind /\ row.is = remote
    BY <2>1 DEF MjRow
  <2>3. c \in MjCall /\ poller' = [poller EXCEPT ![p] = c]
    BY <1>3, <2>1, <2>2 DEF Polls, MjCall
  <2>4. mjRow.kind # "none" /\ poller[p].row.kind = mjRow.kind
    BY <1>1 DEF MjInv, SameKind
  <2>5. row.kind = "paid"
    BY <1>3, <2>1, <2>2, <2>4 DEF NeedsUpdate, MjRow
  <2>6. MjTypeOK'
    BY <1>1, <2>3, PollerMoves DEF MjInv, MjTypeOK
  <2>7. RefundsCounted'
    <3>1. refunds \in Nat /\ slips \in Nat /\ Left(mjRow) \in Nat
      BY DEF MjInv, MjTypeOK, Left
    <3>2. One(Owes(c)) = 0 /\ One(Owes(poller[p])) = 0
      BY <1>1 DEF One, Owes
    <3>3. refunds' = refunds /\ slips' = slips /\ mjRow' = mjRow
      BY <1>1
    <3>4. refunds' + One(Owes(c)) + Left(mjRow') - slips'
             <= refunds + One(Owes(poller[p])) + Left(mjRow) - slips
      BY <3>1, <3>2, <3>3
    <3>5. QED
      BY <2>3, <3>1, <3>3, <3>4, CountedKept
  <2>8. SameKind' /\ ChargedFor'
    BY <1>1, <2>2, <2>3, <2>4, KindsKept, ChargedKept
  <2>9. FromRemote'
    <3>1. Failed(c.row) => remote.fail = TRUE
      BY <2>2 DEF Failed
    <3>2. QED
      BY <1>1, <1>3, <2>3, <2>5, <3>1, FromRemoteKept
  <2>10. QED
    BY <2>6, <2>7, <2>8, <2>9 DEF MjInv
<1>4. QED
  BY <1>2, <1>3 DEF PollAsk

-----------------------------------------------------------------------------
(* Polling, from the answer to the refund.                                 *)

(* A step by which an instance that works on a row it was answered may owe *)
(* a refund for it, and takes the one at hand, or owed one before.         *)
LEMMA TakeStep ==
  ASSUME MjInv, NEW p \in Pollers, Asked(poller[p]),
         NEW c \in MjCall, poller' = [poller EXCEPT ![p] = c],
         c.row = poller[p].row, Asked(c), c.pc = "refund" => Failed(c.row),
         UNCHANGED <<remote, reported, notifier, charged, refunds, seeds, mjNoted>>,
         mjRow' \in MjRow, mjRow'.kind = mjRow.kind, slips' \in Nat,
         One(Owes(c)) + Left(mjRow') - slips' <= One(Owes(poller[p])) + Left(mjRow) - slips
  PROVE  MjInv'
<1>1. poller[p].pc # "idle"
  BY DEF Asked
<1>2. mjRow.kind # "none" /\ poller[p].row.kind = mjRow.kind
  BY <1>1 DEF MjInv, SameKind
<1>3. MjTypeOK'
  BY PollerMoves DEF MjInv, MjTypeOK
<1>4. RefundsCounted'
  <2>1. refunds \in Nat /\ slips \in Nat /\ Left(mjRow) \in Nat /\ Left(mjRow') \in Nat
    BY DEF MjInv, MjTypeOK, Left
  <2>2. One(Owes(c)) \in Nat /\ One(Owes(poller[p])) \in Nat
    BY DEF One
  <2>3. refunds' = refunds
    OBVIOUS
  <2>4. refunds' + One(Owes(c)) + Left(mjRow') - slips'
           <= refunds + One(Owes(poller[p])) + Left(mjRow) - slips
    BY <2>1, <2>2, <2>3
  <2>5. QED
    BY <2>1, <2>3, <2>4, CountedKept
<1>5. SameKind' /\ ChargedFor'
  BY <1>2, KindsKept, ChargedKept
<1>6. c.row.kind = "paid" /\ remote # Unknown /\ (Failed(c.row) => remote.fail = TRUE)
  BY Zenon DEF MjInv, FromRemote
<1>7. FromRemote'
  BY <1>6, FromRemoteKept
<1>8. QED
  BY <1>3, <1>4, <1>5, <1>7 DEF MjInv

LEMMA PollSaveStep ==
  ASSUME MjInv, NEW p \in Pollers, PollSave(p)
  PROVE  MjInv'
<1> DEFINE row == poller[p].row
           c == [pc |-> "finish", row |-> row, answer |-> poller[p].answer]
<1>1. poller[p].pc = "save" /\ Saves(row) /\ Polls(p, "finish", row, poller[p].answer)
      /\ UNCHANGED <<remote, reported, notifier, charged, refunds, seeds, mjNoted>>
  BY DEF PollSave
<1>2. poller[p] \in MjCall /\ row \in MjRow
  BY DEF MjInv, MjTypeOK, MjCall
<1>3. c \in MjCall /\ poller' = [poller EXCEPT ![p] = c]
  BY <1>1, <1>2 DEF Polls, MjCall
<1>4. row.kind = mjRow.kind
  BY <1>1 DEF MjInv, SameKind
<1>5. mjRow' \in MjRow /\ mjRow'.kind = mjRow.kind /\ slips' \in Nat
      /\ One(Failed(row) /\ Ended(row.is)) + Left(mjRow') - slips' <= Left(mjRow) - slips
  BY <1>1, <1>2, <1>4, SavesCounted
<1>6. One(Owes(c)) = One(Failed(row) /\ Ended(row.is)) /\ One(Owes(poller[p])) = 0
  BY <1>1 DEF One, Owes
<1>7. One(Owes(c)) + Left(mjRow') - slips' <= One(Owes(poller[p])) + Left(mjRow) - slips
  <2>1. Left(mjRow) \in Nat /\ slips \in Nat
    BY DEF Left, MjInv, MjTypeOK
  <2>2. QED
    BY <1>5, <1>6, <2>1
<1>8. Asked(poller[p]) /\ Asked(c) /\ c.pc # "refund" /\ c.row = poller[p].row
  BY <1>1 DEF Asked
<1>9. QED
  BY <1>1, <1>3, <1>5, <1>7, <1>8, TakeStep

LEMMA PollFinishStep ==
  ASSUME MjInv, NEW p \in Pollers, PollFinish(p)
  PROVE  MjInv'
<1> DEFINE row == poller[p].row
           c == [pc |-> "refund", row |-> row, answer |-> Begun]
           row100 == [row EXCEPT !.is.progress = "100%"]
<1>1. poller[p].pc = "finish" /\ UNCHANGED <<remote, reported, notifier, charged, refunds, mjNoted>>
  BY DEF PollFinish
<1>2. poller[p] \in MjCall /\ row \in MjRow
  BY DEF MjInv, MjTypeOK, MjCall
<1>3. CASE Rests(p) /\ UNCHANGED <<mjRow, slips>> /\ seeds' \in {seeds, seeds + 1}
  BY <1>1, <1>3, RestStep DEF MjInv, MjTypeOK
<1>4. CASE /\ Refundable(row) /\ Polls(p, "refund", row, Begun) /\ UNCHANGED seeds
           /\ IF Ended(row.is) THEN UNCHANGED <<mjRow, slips, mjTally>> ELSE Saves(row100)
  <2>1. c \in MjCall /\ poller' = [poller EXCEPT ![p] = c]
    BY <1>2, <1>4, ReportsTyped DEF Polls, MjCall
  <2>2. Failed(row)
    BY <1>2, <1>4 DEF Refundable, Failed, MjRow, Report
  <2>3. One(Owes(c)) = 1
    BY DEF One, Owes
  <2>4. /\ mjRow' \in MjRow /\ mjRow'.kind = mjRow.kind /\ slips' \in Nat
        /\ One(Owes(c)) + Left(mjRow') - slips' <= One(Owes(poller[p])) + Left(mjRow) - slips
    <3>1. CASE Ended(row.is)
      <4>1. mjRow' = mjRow /\ slips' = slips
        BY <1>4, <3>1
      <4>2. One(Owes(poller[p])) = 1
        BY <1>1, <2>2, <3>1 DEF One, Owes
      <4>3. Left(mjRow) \in Nat /\ slips \in Nat /\ mjRow \in MjRow
        BY DEF Left, MjInv, MjTypeOK
      <4>4. QED
        BY <2>3, <4>1, <4>2, <4>3
    <3>2. CASE ~Ended(row.is)
      <4>1. row100 \in MjRow /\ row100.kind = row.kind /\ Failed(row100) /\ Ended(row100.is)
        BY <1>2, <2>2 DEF MjRow, Report, Failed, Ended
      <4>2. row.kind = mjRow.kind
        BY <1>1 DEF MjInv, SameKind
      <4>3. Saves(row100)
        BY <1>4, <3>2
      <4>4. mjRow' \in MjRow /\ mjRow'.kind = mjRow.kind /\ slips' \in Nat
            /\ One(Failed(row100) /\ Ended(row100.is)) + Left(mjRow') - slips' <= Left(mjRow) - slips
        BY <4>1, <4>2, <4>3, SavesCounted
      <4>5. One(Failed(row100) /\ Ended(row100.is)) = 1 /\ One(Owes(poller[p])) = 0
        BY <1>1, <3>2, <4>1 DEF One, Owes
      <4>6. Left(mjRow) \in Nat /\ slips \in Nat
        BY DEF Left, MjInv, MjTypeOK
      <4>7. QED
        BY <2>3, <4>4, <4>5, <4>6
    <3>3. QED
      BY <3>1, <3>2
  <2>5. Asked(poller[p]) /\ Asked(c) /\ c.row = poller[p].row /\ Failed(c.row)
    BY <1>1, <2>2 DEF Asked
  <2>6. QED
    BY <1>1, <1>4, <2>1, <2>4, <2>5, TakeStep
<1>5. CASE Rests(p) /\ UNCHANGED <<mjRow, seeds, slips, mjTally>>
  BY <1>3, <1>5
<1>6. QED
  BY <1>3, <1>4, <1>5 DEF PollFinish

LEMMA PollRefundStep ==
  ASSUME MjInv, NEW p \in Pollers, PollRefund(p)
  PROVE  MjInv'
<1>1. poller[p].pc = "refund" /\ Rests(p)
      /\ UNCHANGED <<mjRow, remote, reported, notifier, charged, seeds, slips>>
  BY DEF PollRefund
<1>2. CASE UNCHANGED refunds /\ mjNoted' = mjNoted \cup {"failed"}
  BY <1>1, <1>2, RestStep DEF MjInv, MjTypeOK
<1>3. CASE refunds' = refunds + 1 /\ UNCHANGED mjNoted
  <2>1. AtRestMj \in MjCall /\ poller' = [poller EXCEPT ![p] = AtRestMj] /\ AtRestMj.pc = "idle"
    BY <1>1, ReportsTyped DEF Rests, AtRestMj
  <2>2. mjRow.kind # "none" /\ poller[p].row.kind = mjRow.kind
    BY <1>1 DEF MjInv, SameKind
  <2>3. poller'[p] = AtRestMj /\ \A q \in Pollers \ {p} : poller'[q] = poller[q]
    BY <2>1, PollerMoves DEF MjInv
  <2>4. MjTypeOK'
    BY <1>1, <1>3, <2>1, PollerMoves DEF MjInv, MjTypeOK
  <2>5. RefundsCounted'
    <3>1. One(Owes(AtRestMj)) = 0 /\ One(Owes(poller[p])) = 1
      BY <1>1, <2>1 DEF One, Owes
    <3>2. refunds \in Nat /\ slips \in Nat /\ Left(mjRow) \in Nat
      BY DEF MjInv, MjTypeOK, Left
    <3>3. refunds' \in Nat /\ slips' = slips /\ mjRow' = mjRow
      BY <1>1, <1>3, <3>2
    <3>4. refunds' + One(Owes(AtRestMj)) + Left(mjRow') - slips'
             <= refunds + One(Owes(poller[p])) + Left(mjRow) - slips
      BY <1>3, <3>1, <3>2, <3>3
    <3>5. QED
      BY <2>1, <3>2, <3>3, <3>4, CountedKept
  <2>6. SameKind' /\ ChargedFor'
    BY <1>1, <1>3, <2>1, <2>2, KindsKept, ChargedKept
  <2>7. FromRemote'
    <3>1. Asked(poller[p]) /\ Failed(poller[p].row)
      BY <1>1, Zenon DEF MjInv, FromRemote, Asked
    <3>2. remote.fail = TRUE /\ remote # Unknown /\ mjRow.kind = "paid"
      BY <2>2, <3>1, Zenon DEF MjInv, FromRemote
    <3>3. ~Asked(AtRestMj) /\ AtRestMj.pc # "refund"
      BY <2>1 DEF Asked
    <3>4. \A q \in Pollers : Asked(poller'[q]) => /\ poller'[q].row.kind = "paid" /\ remote # Unknown
                                                  /\ Failed(poller'[q].row) => remote.fail = TRUE
      BY <2>3, <3>3, Zenon DEF MjInv, FromRemote
    <3>5. \A q \in Pollers : poller'[q].pc = "refund" => Failed(poller'[q].row)
      BY <2>3, <3>3, Zenon DEF MjInv, FromRemote
    <3>6. QED
      BY <1>1, <3>2, <3>4, <3>5, Zenon DEF FromRemote, Asked, Failed
  <2>8. QED
    BY <2>4, <2>5, <2>6, <2>7 DEF MjInv
<1>4. QED
  BY <1>2, <1>3 DEF PollRefund

-----------------------------------------------------------------------------
(* Notices.                                                                *)

LEMMA NoticeReadStep ==
  ASSUME MjInv, NEW n \in Notifiers, NoticeRead(n)
  PROVE  MjInv'
<1>1. mjRow.kind # "none"
      /\ UNCHANGED <<mjRow, remote, reported, poller, charged, refunds, seeds, slips, mjNoted>>
  BY DEF NoticeRead
<1>2. PICK r \in reported :
        notifier' = [notifier EXCEPT ![n] = [pc |-> "save", row |-> [mjRow EXCEPT !.is = r], answer |-> Begun]]
  BY DEF NoticeRead
<1> DEFINE row == [mjRow EXCEPT !.is = r]
           c == [pc |-> "save", row |-> row, answer |-> Begun]
<1>3. row \in MjRow /\ row.kind = mjRow.kind
  BY DEF MjInv, MjTypeOK, MjRow
<1>4. c \in MjCall /\ c.row = row
  BY <1>3, ReportsTyped DEF MjCall
<1>5. /\ notifier' \in [Notifiers -> MjCall]
      /\ notifier'[n] = c /\ \A q \in Notifiers \ {n} : notifier'[q] = notifier[q]
  BY <1>2, <1>4, NotifierMoves DEF MjInv
<1>6. Owed' = Owed
  BY <1>1, OwedStays
<1>7. MjTypeOK' /\ RefundsCounted'
  BY <1>1, <1>5, <1>6 DEF MjInv, MjTypeOK, RefundsCounted, Left, Ended
<1>8. SameKind'
  BY <1>1, <1>3, <1>4, <1>5 DEF MjInv, SameKind, Ended
<1>9. FromRemote' /\ ChargedFor'
  BY <1>1 DEF MjInv, FromRemote, ChargedFor, Failed, Asked
<1>10. QED
  BY <1>7, <1>8, <1>9 DEF MjInv

LEMMA NoticeSaveStep ==
  ASSUME MjInv, NEW n \in Notifiers, NoticeSave(n)
  PROVE  MjInv'
<1> DEFINE row == notifier[n].row
<1>1. notifier[n].pc = "save" /\ notifier' = [notifier EXCEPT ![n] = AtRestMj]
      /\ UNCHANGED <<remote, reported, poller, charged, refunds, seeds>> /\ mjNoted \subseteq mjNoted'
  BY DEF NoticeSave
<1>2. \/ mjRow' = row /\ slips' = slips + (IF Ended(mjRow.is) /\ ~Ended(row.is) THEN 1 ELSE 0)
      \/ UNCHANGED <<mjRow, slips>>
  BY DEF NoticeSave
<1>3. /\ notifier' \in [Notifiers -> MjCall]
      /\ notifier'[n] = AtRestMj /\ \A q \in Notifiers \ {n} : notifier'[q] = notifier[q]
  BY <1>1, ReportsTyped, NotifierMoves DEF MjInv
<1>4. mjRow.kind # "none" /\ row.kind = mjRow.kind /\ row \in MjRow
  BY <1>1 DEF MjInv, SameKind, MjTypeOK, MjCall
<1>5. mjRow' \in MjRow /\ mjRow'.kind = mjRow.kind /\ slips' \in Nat
  BY <1>2, <1>4 DEF MjInv, MjTypeOK
<1>6. MjTypeOK'
  BY <1>1, <1>3, <1>5 DEF MjInv, MjTypeOK
<1>7. Left(mjRow') - slips' <= Left(mjRow) - slips
  BY <1>2 DEF Left, MjInv, MjTypeOK
<1>8. RefundsCounted'
  <2>1. Owed' = Owed
    BY <1>1, OwedStays
  <2>2. Left(mjRow)' = Left(mjRow') /\ Left(mjRow') \in Nat /\ Left(mjRow) \in Nat
    BY DEF Left, Ended
  <2>3. refunds' = refunds /\ refunds \in Nat /\ slips \in Nat
    BY <1>1 DEF MjInv, MjTypeOK
  <2>4. refunds + Cardinality(Owed) + Left(mjRow) <= 1 + slips
    BY DEF MjInv, RefundsCounted
  <2>5. refunds + Cardinality(Owed) + Left(mjRow') <= 1 + slips'
    BY <1>5, <1>7, <2>2, <2>3, <2>4, OwedFinite
  <2>6. QED
    BY <2>1, <2>2, <2>3, <2>5 DEF RefundsCounted
<1>9. SameKind'
  <2>1. AtRestMj.pc = "idle"
    BY DEF AtRestMj
  <2>2. \A q \in Notifiers : notifier'[q].pc # "idle" => mjRow'.kind # "none" /\ notifier'[q].row.kind = mjRow'.kind
    BY <1>3, <1>5, <2>1 DEF MjInv, SameKind
  <2>3. \A p \in Pollers : poller'[p].pc # "idle" => mjRow'.kind # "none" /\ poller'[p].row.kind = mjRow'.kind
    BY <1>1, <1>5 DEF MjInv, SameKind
  <2>4. QED
    BY <1>4, <1>5, <2>2, <2>3 DEF SameKind
<1>10. FromRemote'
  BY <1>1, <1>5, Zenon DEF MjInv, FromRemote, Failed, Asked
<1>11. ChargedFor'
  BY <1>1, <1>5, ChargedKept
<1>12. QED
  BY <1>6, <1>8, <1>9, <1>10, <1>11 DEF MjInv

-----------------------------------------------------------------------------
LEMMA MjStep == MjInv /\ [MjNext]_mjVars => MjInv'
<1> SUFFICES ASSUME MjInv, [MjNext]_mjVars PROVE MjInv'
  OBVIOUS
<1>1. CASE Submit
  BY <1>1, SubmitStep
<1>2. CASE Charge
  BY <1>2, ChargeStep
<1>3. CASE Work
  BY <1>3, WorkStep
<1>4. CASE \E p \in Pollers : PollRead(p) \/ PollMissing(p) \/ PollAsk(p) \/ PollSave(p) \/ PollFinish(p)
                             \/ PollRefund(p) \/ PollStops(p)
  BY <1>4, PollReadStep, PollMissingStep, PollAskStep, PollSaveStep, PollFinishStep, PollRefundStep, PollStopsStep
<1>5. CASE \E n \in Notifiers : NoticeRead(n) \/ NoticeSave(n)
  BY <1>5, NoticeReadStep, NoticeSaveStep
<1>6. CASE UNCHANGED mjVars
  <2>1. Owed' = Owed
    BY <1>6, OwedStays DEF mjVars
  <2>2. MjTypeOK' /\ RefundsCounted'
    BY <1>6, <2>1 DEF mjVars, MjInv, MjTypeOK, RefundsCounted, Left, Ended
  <2>3. SameKind' /\ FromRemote' /\ ChargedFor'
    BY <1>6, Zenon DEF mjVars, MjInv, SameKind, FromRemote, ChargedFor, Failed, Asked, Ended
  <2>4. QED
    BY <2>2, <2>3 DEF MjInv
<1>7. QED
  BY <1>1, <1>2, <1>3, <1>4, <1>5, <1>6 DEF MjNext

\* The row, and what pollers and notices hold of it, keep their types
\* (model/midjourney.go).
THEOREM MjTypeCorrect == MjSpec => []MjTypeOK
<1>1. MjInv => MjTypeOK
  BY DEF MjInv
<1>2. QED
  BY MjInitInv, MjStep, <1>1, PTL DEF MjSpec

LEMMA RefundsBounded == ASSUME MjInv PROVE RefundedOnce /\ RefundsFailures
<1>1. RefundedOnce
  <2>1. refunds + Cardinality(Owed) + Left(mjRow) <= 1 + slips
    BY DEF MjInv, RefundsCounted
  <2>2. refunds \in Nat /\ slips \in Nat /\ Left(mjRow) \in Nat
    BY DEF MjInv, MjTypeOK, Left
  <2>3. QED
    BY <2>1, <2>2, OwedFinite DEF RefundedOnce
<1>2. RefundsFailures
  <2>1. refunds > 0 => remote.fail = TRUE /\ remote # Unknown /\ mjRow.kind = "paid"
    BY Zenon DEF MjInv, FromRemote
  <2>2. refunds > 0 => (charged = "not" => "uncharged" \in mjNoted)
    BY <2>1, Zenon DEF MjInv, ChargedFor
  <2>3. QED
    BY <2>1, <2>2, Zenon DEF RefundsFailures
<1>3. QED
  BY <1>1, <1>2

\* However many instances poll and however notices arrive, a task is paid back
\* no more than once and once for each slip of the row, and only if it failed
\* upstream and was charged (compensateForTaskFailure).
THEOREM PaidBackOnce == MjSpec => [](RefundedOnce /\ RefundsFailures)
<1>1. MjInv => RefundedOnce /\ RefundsFailures
  BY RefundsBounded
<1>2. QED
  BY MjInitInv, MjStep, <1>1, PTL DEF MjSpec
-----------------------------------------------------------------------------
(* Failures are paid back.  Without a notice that ended the row, a channel *)
(* that was not found, a failed refund and a stopped round, it is ended by *)
(* an instance that was answered what the task came to; the one that finds *)
(* a failure goes on to the refund.                                        *)

Untroubled == mjNoted \cap {"notified", "missing", "failed", "stopped"} = {}
WillPay(c) == c.pc = "refund" \/ (c.pc = "finish" /\ Failed(c.row))

\* An answer other than of a task at work is final.
AtWork == {Begun, Running}
Final == {Success} \cup Failures
AnswersFinal ==
    /\ remote \in {Unknown} \cup AtWork \cup Final
    /\ \A p \in Pollers : Asked(poller[p]) => poller[p].row.is \in AtWork \/ poller[p].row.is = remote

Settling ==
    Untroubled /\ Ended(mjRow.is) /\ charged # "not" =>
        /\ remote \in Final
        /\ remote \in Failures => refunds > 0 \/ \E p \in Pollers : WillPay(poller[p])

SettledInv == MjInv /\ AnswersFinal /\ Settling

-----------------------------------------------------------------------------
LEMMA Reports ==
  /\ \A r \in AtWork : ~Ended(r) /\ r.fail = FALSE
  /\ \A r \in Failures : r.fail = TRUE /\ r # Unknown
  /\ Success.fail = FALSE /\ Ended(Success) /\ Unknown.fail = TRUE /\ ~Ended(Unknown)
<1>1. ~Ended(Begun) /\ Begun.fail = FALSE /\ ~Ended(Running) /\ Running.fail = FALSE
  BY DEF Begun, Running, Ended
<1>2. Success.fail = FALSE /\ Ended(Success) /\ Unknown.fail = TRUE /\ ~Ended(Unknown)
  BY DEF Success, Unknown, Ended
<1>3. ASSUME NEW r \in Failures PROVE r.fail = TRUE /\ r # Unknown
  <2>1. r.fail = TRUE /\ r.status = "FAILURE"
    BY DEF Failures
  <2>2. Unknown.status = ""
    BY DEF Unknown
  <2>3. QED
    BY <2>1, <2>2
<1>4. QED
  BY <1>1, <1>2, <1>3 DEF AtWork

LEMMA SettledInitInv == MjInit => SettledInv
<1> SUFFICES ASSUME MjInit PROVE SettledInv
  OBVIOUS
<1>1. MjInv
  BY MjInitInv
<1>2. remote = Unknown /\ charged = "not" /\ \A p \in Pollers : poller[p].pc = "idle"
  BY DEF MjInit, AtRestMj
<1>3. QED
  BY <1>1, <1>2 DEF SettledInv, AnswersFinal, Settling, Asked

(* A step of one instance.                                                 *)
LEMMA SettlingKept ==
  ASSUME SettledInv, NEW p \in Pollers, NEW c \in MjCall, poller' = [poller EXCEPT ![p] = c],
         UNCHANGED <<remote, charged>>, mjNoted \subseteq mjNoted', refunds > 0 => refunds' > 0,
         Asked(c) => c.row.is \in AtWork \/ c.row.is = remote,
         Untroubled' /\ WillPay(poller[p]) => WillPay(c) \/ refunds' > 0,
         Untroubled' /\ Ended(mjRow'.is) /\ ~Ended(mjRow.is) =>
             remote \in Final /\ (remote \in Failures => WillPay(c))
  PROVE  AnswersFinal' /\ Settling'
<1>1. poller'[p] = c /\ \A q \in Pollers \ {p} : poller'[q] = poller[q]
  BY PollerMoves DEF SettledInv, MjInv
<1>2. AnswersFinal'
  <2>1. \A q \in Pollers : Asked(poller'[q]) => poller'[q].row.is \in AtWork \/ poller'[q].row.is = remote
    BY <1>1 DEF SettledInv, AnswersFinal
  <2>2. QED
    BY <2>1 DEF SettledInv, AnswersFinal, Asked, AtWork, Final
<1>3. Settling'
  <2>1. SUFFICES ASSUME Untroubled', Ended(mjRow'.is), charged' # "not"
                 PROVE  /\ remote' \in Final
                        /\ remote' \in Failures => refunds' > 0 \/ \E q \in Pollers : WillPay(poller'[q])
    BY DEF Settling, Ended, Final, Failures, WillPay, Failed
  <2>2. Untroubled
    BY <2>1 DEF Untroubled
  <2>3. CASE Ended(mjRow.is)
    <3>1. remote \in Final /\ (remote \in Failures => refunds > 0 \/ \E q \in Pollers : WillPay(poller[q]))
      BY <2>1, <2>2, <2>3 DEF SettledInv, Settling
    <3>2. ASSUME NEW q \in Pollers, WillPay(poller[q])
          PROVE  refunds' > 0 \/ \E r \in Pollers : WillPay(poller'[r])
      BY <1>1, <2>1, <3>2
    <3>3. QED
      BY <3>1, <3>2
  <2>4. CASE ~Ended(mjRow.is)
    BY <1>1, <2>1, <2>4
  <2>5. QED
    BY <2>3, <2>4
<1>4. QED
  BY <1>2, <1>3

LEMMA AtRestTyped == AtRestMj \in MjCall /\ AtRestMj.pc = "idle" /\ ~Asked(AtRestMj)
  BY ReportsTyped DEF AtRestMj, Asked

LEMMA CallTyped ==
  ASSUME MjTypeOK, NEW p \in Pollers
  PROVE  poller[p] \in MjCall /\ poller[p].row \in MjRow /\ poller[p].answer \in Report
  BY DEF MjTypeOK, MjCall

LEMMA SettledPolls ==
  ASSUME SettledInv, NEW p \in Pollers, PollRead(p) \/ PollMissing(p) \/ PollAsk(p)
  PROVE  AnswersFinal' /\ Settling'
<1>1. poller[p] \in MjCall /\ poller[p].row \in MjRow /\ mjRow \in MjRow /\ remote \in Report
  BY CallTyped DEF SettledInv, MjInv, MjTypeOK
<1>2. CASE PollRead(p)
  <2> DEFINE c == [pc |-> "ask", row |-> mjRow, answer |-> Begun]
  <2>1. /\ poller[p].pc = "idle" /\ poller' = [poller EXCEPT ![p] = c]
        /\ UNCHANGED <<remote, charged, mjNoted, refunds, mjRow>>
    BY <1>2 DEF PollRead, Polls
  <2>2. c \in MjCall /\ ~Asked(c)
    BY <1>1, ReportsTyped DEF MjCall, Asked
  <2>3. ~WillPay(poller[p])
    BY <2>1 DEF WillPay
  <2> HIDE DEF c
  <2>4. QED
    BY <2>1, <2>2, <2>3, SettlingKept
<1>3. CASE PollMissing(p)
  <2>1. /\ poller[p].pc = "ask" /\ poller' = [poller EXCEPT ![p] = AtRestMj]
        /\ UNCHANGED <<remote, charged, refunds>> /\ mjNoted' = mjNoted \cup {"missing"}
    BY <1>3 DEF PollMissing, Rests
  <2>2. ~Untroubled'
    BY <2>1 DEF Untroubled
  <2>3. QED
    BY <2>1, <2>2, AtRestTyped, SettlingKept
<1>4. CASE PollAsk(p)
  <2> DEFINE c == [pc |-> "save", row |-> [poller[p].row EXCEPT !.code = 1, !.is = remote], answer |-> remote]
  <2>1. /\ poller[p].pc = "ask" /\ UNCHANGED <<remote, charged, refunds, mjNoted, mjRow>>
        /\ poller' = [poller EXCEPT ![p] = c] \/ poller' = [poller EXCEPT ![p] = AtRestMj]
    BY <1>4 DEF PollAsk, Polls, Rests
  <2>2. c \in MjCall /\ c.row.is = remote
    BY <1>1 DEF MjCall, MjRow
  <2>3. ~WillPay(poller[p])
    BY <2>1 DEF WillPay
  <2> HIDE DEF c
  <2>4. QED
    BY <2>1, <2>2, <2>3, AtRestTyped, SettlingKept
<1>5. QED
  BY <1>2, <1>3, <1>4

(* A row an instance saves as ended says what the task came to.            *)
LEMMA EndedIsFinal ==
  ASSUME SettledInv, NEW p \in Pollers, Asked(poller[p]),
         Ended(poller[p].row.is) \/ Failed(poller[p].row)
  PROVE  /\ remote \in Final
         /\ remote \in Failures => Failed(poller[p].row)
<1> DEFINE r == poller[p].row.is
<1>1. r \in AtWork \/ r = remote
  BY DEF SettledInv, AnswersFinal
<1>2. Ended(r) \/ r.fail = TRUE
  BY DEF Failed
<1>3. r = remote /\ remote \notin AtWork
  BY <1>1, <1>2, Reports
<1>4. remote # Unknown
  BY Zenon DEF SettledInv, MjInv, FromRemote
<1>5. remote \in Final
  BY <1>3, <1>4 DEF SettledInv, AnswersFinal
<1>6. remote \in Failures => r.fail = TRUE
  BY <1>3, Reports
<1>7. QED
  BY <1>5, <1>6 DEF Failed

LEMMA SettledSave ==
  ASSUME SettledInv, NEW p \in Pollers, PollSave(p)
  PROVE  AnswersFinal' /\ Settling'
<1> DEFINE row == poller[p].row
           c == [pc |-> "finish", row |-> row, answer |-> poller[p].answer]
<1>1. /\ poller[p].pc = "save" /\ poller' = [poller EXCEPT ![p] = c]
      /\ UNCHANGED <<remote, charged, refunds, mjNoted>> /\ mjRow' \in {row, mjRow}
  BY DEF PollSave, Saves, Polls
<1>2. c \in MjCall /\ c.row = row /\ c.pc = "finish"
  BY CallTyped DEF MjCall, SettledInv, MjInv
<1>3. Asked(poller[p]) /\ ~WillPay(poller[p])
  BY <1>1 DEF Asked, WillPay
<1>4. row.is \in AtWork \/ row.is = remote
  BY <1>3 DEF SettledInv, AnswersFinal
<1>5. Ended(mjRow'.is) /\ ~Ended(mjRow.is) => remote \in Final /\ (remote \in Failures => Failed(row))
  BY <1>1, <1>3, EndedIsFinal
<1>6. Failed(row) => WillPay(c)
  BY DEF WillPay
<1> HIDE DEF c
<1>7. QED
  BY <1>1, <1>2, <1>3, <1>4, <1>5, <1>6, SettlingKept

LEMMA SettledFinish ==
  ASSUME SettledInv, NEW p \in Pollers, PollFinish(p)
  PROVE  AnswersFinal' /\ Settling'
<1> DEFINE row == poller[p].row
           c == [pc |-> "refund", row |-> row, answer |-> Begun]
<1>1. poller[p].pc = "finish" /\ UNCHANGED <<remote, charged, refunds, mjNoted>> /\ Asked(poller[p])
  BY DEF PollFinish, Asked
<1>2. poller[p] \in MjCall /\ row \in MjRow
  BY CallTyped DEF SettledInv, MjInv
<1>3. Failed(row) <=> row.is.fail
  BY <1>2 DEF Failed, MjRow, Report
<1>4. CASE Rests(p) /\ mjRow' = mjRow /\ ~Failed(row)
  <2>1. ~WillPay(poller[p])
    BY <1>1, <1>4 DEF WillPay
  <2>2. QED
    BY <1>1, <1>4, <2>1, AtRestTyped, SettlingKept DEF Rests
<1>5. CASE Refundable(row) /\ Polls(p, "refund", row, Begun)
  <2>1. c \in MjCall /\ poller' = [poller EXCEPT ![p] = c] /\ c.row = row /\ WillPay(c)
    BY <1>2, <1>5, ReportsTyped DEF Polls, MjCall, WillPay
  <2>2. Failed(row)
    BY <1>3, <1>5 DEF Refundable
  <2>3. remote \in Final
    BY <1>1, <2>2, EndedIsFinal
  <2>4. row.is \in AtWork \/ row.is = remote
    BY <1>1 DEF SettledInv, AnswersFinal
  <2> HIDE DEF c
  <2>5. QED
    BY <1>1, <2>1, <2>3, <2>4, SettlingKept
<1>6. CASE row.is = Success /\ Rests(p) /\ UNCHANGED mjRow
  BY <1>3, <1>4, <1>6, Reports
<1>7. CASE ~Refundable(row) /\ Rests(p) /\ UNCHANGED mjRow
  BY <1>3, <1>4, <1>7 DEF Refundable
<1>8. QED
  BY <1>5, <1>6, <1>7 DEF PollFinish

LEMMA SettledRefund ==
  ASSUME SettledInv, NEW p \in Pollers, PollRefund(p)
  PROVE  AnswersFinal' /\ Settling'
<1>1. /\ poller' = [poller EXCEPT ![p] = AtRestMj] /\ UNCHANGED <<remote, charged, mjRow>>
      /\ \/ refunds' = refunds + 1 /\ mjNoted' = mjNoted
         \/ refunds' = refunds /\ mjNoted' = mjNoted \cup {"failed"}
  BY DEF PollRefund, Rests
<1>2. refunds \in Nat
  BY DEF SettledInv, MjInv, MjTypeOK
<1>3. refunds' > 0 \/ ~Untroubled'
  BY <1>1, <1>2 DEF Untroubled
<1>4. (refunds > 0 => refunds' > 0) /\ mjNoted \subseteq mjNoted'
  BY <1>1, <1>2
<1>5. QED
  BY <1>1, <1>3, <1>4, AtRestTyped, SettlingKept

LEMMA SettledStops ==
  ASSUME SettledInv, NEW p \in Pollers, PollStops(p)
  PROVE  AnswersFinal' /\ Settling'
<1>1. /\ poller' = [poller EXCEPT ![p] = AtRestMj] /\ UNCHANGED <<remote, charged, mjRow, refunds>>
      /\ mjNoted' = mjNoted \cup {x \in {"stopped"} : poller[p].pc \in {"finish", "refund"}}
  BY DEF PollStops, Rests
<1>2. WillPay(poller[p]) => ~Untroubled'
  BY <1>1 DEF WillPay, Untroubled
<1>3. mjNoted \subseteq mjNoted'
  BY <1>1
<1>4. QED
  BY <1>1, <1>2, <1>3, AtRestTyped, SettlingKept

LEMMA SettledSubmit == ASSUME SettledInv, Submit PROVE AnswersFinal' /\ Settling'
<1>1. mjRow.kind = "none" /\ poller' = poller
  BY DEF Submit
<1>2. PICK row \in Inserted :
        /\ mjRow' = row
        /\ remote' = CASE row.code \in {1, 22} /\ row.is = Begun -> Begun
                       [] row.code = 21 -> IF Ended(row.is) THEN Success ELSE Running
                       [] row.is = Success -> Success
                       [] OTHER -> Unknown
        /\ charged' = IF row.kind = "paid" /\ row.code \in {1, 21, 22} THEN "due" ELSE "not"
  BY DEF Submit
<1>3. remote' \in {Begun, Success, Running, Unknown}
  BY <1>2
<1>4. \A p \in Pollers : ~Asked(poller'[p])
  BY <1>1 DEF SettledInv, MjInv, SameKind, Asked
<1>5. AnswersFinal'
  BY <1>3, <1>4 DEF AnswersFinal, AtWork, Final, Asked
<1>6. row.kind = "paid" /\ row.code \in {1, 21, 22} /\ Ended(row.is) => remote' = Success
  <2>1. ASSUME row.kind = "paid", row.code \in {1, 22}, Ended(row.is) PROVE FALSE
    <3>1. row.is = Begun
      BY <2>1 DEF Inserted
    <3>2. QED
      BY <2>1, <3>1, Reports DEF AtWork
  <2>2. row.code = 21 /\ Ended(row.is) => remote' = Success
    BY <1>2
  <2>3. QED
    BY <2>1, <2>2
<1>7. Settling'
  <2>1. Success \in Final /\ Success \notin Failures
    BY Reports DEF Final
  <2>2. charged' # "not" /\ Ended(mjRow'.is) => remote' \in Final /\ remote' \notin Failures
    BY <1>2, <1>6, <2>1
  <2>3. QED
    BY <2>2 DEF Settling, Ended, Final, Failures
<1>8. QED
  BY <1>5, <1>7

LEMMA SettledWork == ASSUME SettledInv, Work PROVE AnswersFinal' /\ Settling'
<1>1. /\ remote \in AtWork /\ remote' \in {Running} \cup Final
      /\ UNCHANGED <<mjRow, poller, charged, refunds, mjNoted>>
  BY DEF Work, AtWork, Final
<1>2. \A p \in Pollers : Asked(poller[p]) => poller[p].row.is \in AtWork
  BY <1>1 DEF SettledInv, AnswersFinal
<1>3. AnswersFinal'
  BY <1>1, <1>2 DEF AnswersFinal, Asked, AtWork, Final
<1>4. remote \notin Final
  BY <1>1, Reports DEF AtWork, Final
<1>5. ~(Untroubled /\ Ended(mjRow.is) /\ charged # "not")
  BY <1>4 DEF SettledInv, Settling
<1>6. QED
  BY <1>1, <1>3, <1>5 DEF Settling, Untroubled, Ended

LEMMA SettledOthers ==
  ASSUME SettledInv, UNCHANGED <<remote, poller, refunds>>,
         charged' # "not" => charged # "not", mjNoted \subseteq mjNoted',
         Untroubled' /\ Ended(mjRow'.is) => Ended(mjRow.is)
  PROVE  AnswersFinal' /\ Settling'
<1>1. AnswersFinal'
  BY DEF SettledInv, AnswersFinal, Asked, AtWork, Final
<1>2. Untroubled' => Untroubled
  BY DEF Untroubled
<1>3. Settling'
  BY <1>2 DEF SettledInv, Settling, Ended, Final, Failures, WillPay, Failed
<1>4. QED
  BY <1>1, <1>3

LEMMA SettledNotices ==
  ASSUME SettledInv, NEW n \in Notifiers, NoticeRead(n) \/ NoticeSave(n)
  PROVE  AnswersFinal' /\ Settling'
<1>1. CASE NoticeRead(n)
  BY <1>1, SettledOthers DEF NoticeRead
<1>2. CASE NoticeSave(n)
  <2> DEFINE row == notifier[n].row
  <2>1. /\ UNCHANGED <<remote, poller, charged, refunds>>
        /\ \/ mjRow' = row /\ mjNoted' = mjNoted \cup {x \in {"notified"} : Ended(row.is)}
           \/ UNCHANGED <<mjRow, mjNoted>>
    BY <1>2 DEF NoticeSave
  <2>2. Untroubled' /\ Ended(mjRow'.is) => Ended(mjRow.is)
    BY <2>1 DEF Untroubled
  <2>3. mjNoted \subseteq mjNoted'
    BY <2>1
  <2>4. QED
    BY <2>1, <2>2, <2>3, SettledOthers
<1>3. QED
  BY <1>1, <1>2

LEMMA SettledStep == SettledInv /\ [MjNext]_mjVars => SettledInv'
<1> SUFFICES ASSUME SettledInv, [MjNext]_mjVars PROVE AnswersFinal' /\ Settling'
  BY MjStep DEF SettledInv
<1>1. CASE Submit
  BY <1>1, SettledSubmit
<1>2. CASE Charge
  <2>1. UNCHANGED <<remote, poller, refunds, mjRow>> /\ charged = "due" /\ mjNoted \subseteq mjNoted'
    BY <1>2 DEF Charge
  <2>2. QED
    BY <2>1, SettledOthers
<1>3. CASE Work
  BY <1>3, SettledWork
<1>4. CASE \E p \in Pollers : PollRead(p) \/ PollMissing(p) \/ PollAsk(p) \/ PollSave(p) \/ PollFinish(p)
                             \/ PollRefund(p) \/ PollStops(p)
  BY <1>4, SettledPolls, SettledSave, SettledFinish, SettledRefund, SettledStops
<1>5. CASE \E n \in Notifiers : NoticeRead(n) \/ NoticeSave(n)
  BY <1>5, SettledNotices
<1>6. CASE UNCHANGED mjVars
  BY <1>6, SettledOthers DEF mjVars
<1>7. QED
  BY <1>1, <1>2, <1>3, <1>4, <1>5, <1>6 DEF MjNext

LEMMA SettledHolds == ASSUME SettledInv PROVE MjTypeOK /\ TaskSettled
<1>1. MjTypeOK /\ RefundedOnce /\ RefundsFailures
  BY RefundsBounded DEF SettledInv, MjInv
<1>2. FailuresRefunded
  <2>1. SUFFICES ASSUME MjAtRest, Ended(mjRow.is), charged = "charged", remote \in Failures,
                        mjNoted \cap {"notified", "missing", "failed", "stopped"} = {}
                 PROVE  refunds > 0
    BY DEF FailuresRefunded
  <2>2. refunds > 0 \/ \E p \in Pollers : WillPay(poller[p])
    BY <2>1 DEF SettledInv, Settling, Untroubled
  <2>3. \A p \in Pollers : ~WillPay(poller[p])
    BY <2>1 DEF MjAtRest, WillPay
  <2>4. QED
    BY <2>2, <2>3
<1>3. QED
  BY <1>1, <1>2 DEF TaskSettled

\* A task that was charged and failed has been paid back once it has ended, if no
\* notice ended it, its channel was found, and neither the round nor the refund
\* broke off; however many instances poll (HandleTaskCompletion).
THEOREM FailuresPaidBack == MjSpec => [](MjTypeOK /\ TaskSettled)
<1>1. SettledInv => MjTypeOK /\ TaskSettled
  BY SettledHolds
<1>2. QED
  BY <1>1, SettledInitInv, SettledStep, PTL DEF MjSpec
-----------------------------------------------------------------------------
(* Channels.                                                               *)

JobPcs == {"idle", "reread", "renew", "add", "drop", "mark", "row"}
Job == [pc : JobPcs, channel : Channels \cup {0}, status : 0..3]
Row == [is : {"new", "here", "gone"}, status : 1..3]
Bys == {"", "name", "ability", "next", "memory"}
Asks == [pc : {"idle", "choose", "look", "next", "nextlook", "relay"}, i : 0..RetryTimes,
         channel : Channels \cup {0}, failed : SUBSET Channels, among : SUBSET Channels,
         by : Bys]

ChannelTyped ==
    /\ channel \in [Channels -> Row] /\ ability \in [Channels -> {"none", "on", "off"}]
    /\ job \in [Workers -> Job]
    /\ cached \in [on : BOOLEAN, now : SUBSET Channels, read : SUBSET Channels, pc : {"idle", "swap"}]
    /\ request \in Asks
    /\ test \in [running : BOOLEAN, pc : {"idle", "test", "stuck"}, status : [Channels -> 0..3]]
    /\ auto \in Channels \cup {0}
    /\ torn \subseteq Channels
    /\ changed \in [now : SUBSET Channels, next : SUBSET Channels]
    /\ byHand \in [off : SUBSET Channels, excused : SUBSET Channels]

(* The request: the retries left, and the channels that failed.            *)
Tries(r) ==
    /\ IsFiniteSet(r.failed)
    /\ r.failed = {} <=> r.i = 0
    /\ r.i > 0 => Cardinality(r.failed) + r.i <= RetryTimes + 1
    /\ r.pc = "look" => r.among \cap r.failed = {}
    /\ r.pc = "relay" => r.channel \in Channels
    /\ r.pc = "relay" /\ r.by \in {"name", "ability", "memory"} => r.channel \notin r.failed
    /\ r.pc \in {"choose", "idle"} => r.among = {}

(* Who may have a job, and when; a channel that is not inserted yet is     *)
(* known to nobody.                                                        *)
JobsKept ==
    /\ \A w \in Workers : job[w].pc # "idle" => job[w].channel \in Channels
    /\ \A a \in Admins : job[a].pc \notin {"mark", "row"}
    /\ \A w \in {"request", "test", "auto"} : job[w].pc \in {"idle", "mark", "row"}
    /\ \A w \in Workers : job[w].pc \in {"mark", "row"} => job[w].status \in 1..3
    /\ request.pc \in {"look", "next", "nextlook", "relay"} => Free("request")
    /\ request.pc \in {"look", "next", "nextlook"} => ~cached.on
    /\ auto # 0 => Free("auto")
    /\ test.running <=> test.pc # "idle"

JobOn(w, c) == job[w].pc # "idle" /\ job[w].channel = c

NewUnknown ==
    \A c \in Channels : channel[c].is = "new" =>
        /\ channel[c].status = Enabled /\ ~Busy(c) /\ ability[c] = "none"
        /\ c \notin cached.now /\ c \notin cached.read /\ c # request.channel /\ c \notin request.among
        /\ test.status[c] = 0 /\ auto # c /\ c \notin byHand.off

(* The abilities say what the status s of the row says.                    *)
Follows(row, ab, s) == ab = IF row.is = "here" THEN (IF s = Enabled THEN "on" ELSE "off") ELSE "none"

\* What a job that runs alone on a channel finds there.
Fits(j, row, ab) ==
    /\ j.pc = "reread" => row.is = "here"
    /\ j.pc = "renew" => row.is = "here" /\ j.status = row.status
    /\ j.pc = "add" => row.is = "here" /\ j.status = row.status /\ ab = "none"
    /\ j.pc = "drop" => row.is # "here"
    /\ j.pc = "mark" => Follows(row, ab, row.status)
    /\ j.pc = "row" => Follows(row, ab, j.status)

AbilityFits(c) ==
    /\ \A v, w \in Workers : JobOn(v, c) /\ JobOn(w, c) => v = w
    /\ (\A w \in Workers : ~JobOn(w, c)) => Follows(channel[c], ability[c], channel[c].status)
    /\ \A w \in Workers : JobOn(w, c) => Fits(job[w], channel[c], ability[c])

AbilitiesFit == \A c \in Channels \ torn : AbilityFits(c)

(* What is in the cache was usable when it was read.                       *)
CacheFresh ==
    /\ cached.on => \A c \in cached.now : Usable(c) \/ c \in changed.now
    /\ cached.pc = "swap" => cached.on /\ \A c \in cached.read : Usable(c) \/ c \in changed.next

(* Nobody can change the status of a channel disabled by hand.             *)
Threatens(c) ==
    \/ request.pc = "relay" /\ request.channel = c
    \/ request.pc = "nextlook" /\ c \in request.among
    \/ test.status[c] \in {Enabled, AutoDisabled} \/ auto = c
    \/ \E w \in {"request", "test", "auto"} : JobOn(w, c)

HandKept ==
    \A c \in byHand.off \ byHand.excused :
        ~Threatens(c) /\ (channel[c].is = "here" => channel[c].status = ManuallyDisabled)

ChannelInv ==
    /\ ChannelTyped /\ Tries(request) /\ JobsKept /\ NewUnknown
    /\ AbilitiesFit /\ CacheFresh /\ HandKept

-----------------------------------------------------------------------------
LEMMA ChannelIds ==
  /\ \A c \in Channels : c \in Nat /\ c # 0
  /\ \A a \in Admins : a \in Workers /\ a \notin {"request", "test", "auto"}
  /\ \A w \in {"request", "test", "auto"} : w \in Workers /\ w \notin Admins
  /\ \A w \in Workers : w \in Admins \/ w \in {"request", "test", "auto"}
  BY ChannelsAssumption, AdminsAssumption DEF Workers

LEMMA StatusesDiffer ==
  /\ Enabled \in 1..3 /\ ManuallyDisabled \in 1..3 /\ AutoDisabled \in 1..3
  /\ Enabled # ManuallyDisabled /\ ManuallyDisabled # AutoDisabled /\ Enabled # AutoDisabled
  BY DEF Enabled, ManuallyDisabled, AutoDisabled

LEMMA JobMoves ==
  ASSUME ChannelTyped, NEW w \in Workers, NEW j \in Job, job' = [job EXCEPT ![w] = j]
  PROVE  /\ job' \in [Workers -> Job] /\ job'[w] = j
         /\ \A v \in Workers : v # w => job'[v] = job[v]
  BY DEF ChannelTyped

LEMMA RowMoves ==
  ASSUME ChannelTyped, NEW c \in Channels, NEW row \in Row, NEW ab \in {"none", "on", "off"},
         channel' = [channel EXCEPT ![c] = row], ability' = [ability EXCEPT ![c] = ab]
  PROVE  /\ channel' \in [Channels -> Row] /\ ability' \in [Channels -> {"none", "on", "off"}]
         /\ channel'[c] = row /\ ability'[c] = ab
         /\ \A d \in Channels : d # c => channel'[d] = channel[d] /\ ability'[d] = ability[d]
  BY DEF ChannelTyped

LEMMA NoJobTyped == NoJob \in Job /\ NoJob.pc = "idle"
  BY DEF NoJob, Job, JobPcs

LEMMA BusyIsJobOn == \A c : Busy(c) <=> \E w \in Workers : JobOn(w, c)
  BY DEF Busy, Free, JobOn

LEMMA TriesPrimed == Tries(request)' <=> Tries(request')
  BY DEF Tries

(* Worker w turns its job into j, the row of c into row, its abilities     *)
(* into ab.                                                                *)
Turns(w, c, j, row, ab) ==
    /\ job' = [job EXCEPT ![w] = j]
    /\ channel' = [channel EXCEPT ![c] = row]
    /\ ability' = [ability EXCEPT ![c] = ab]

\* The job is one on c, before and after.
OnOne(w, c, j) ==
    /\ job[w].pc = "idle" \/ job[w].channel = c
    /\ j.pc = "idle" \/ j.channel = c

\* It runs alone on c, and leaves what the next statement needs, or c is torn.
TornKept(w, c, j, row, ab) ==
    /\ torn' \subseteq Channels /\ torn \ {c} \subseteq torn'
    /\ c \notin torn' => (\A v \in Workers : ~JobOn(v, c)) \/ (c \notin torn /\ JobOn(w, c))
    /\ c \notin torn' => IF j.pc = "idle" THEN Follows(row, ab, row.status) ELSE Fits(j, row, ab)

LEMMA OneJobFits ==
  ASSUME ChannelTyped, AbilitiesFit, NEW w \in Workers, NEW c \in Channels, NEW j \in Job,
         NEW row \in Row, NEW ab \in {"none", "on", "off"},
         Turns(w, c, j, row, ab), OnOne(w, c, j), TornKept(w, c, j, row, ab)
  PROVE  AbilitiesFit'
<1>1. job'[w] = j /\ \A v \in Workers : v # w => job'[v] = job[v]
  BY JobMoves DEF Turns
<1>0. /\ \A d \in Channels : d # c => /\ channel'[d] = channel[d] /\ ability'[d] = ability[d]
                                      /\ d \in torn => d \in torn'
      /\ c \notin torn' => (\A v \in Workers : ~JobOn(v, c)) \/ (c \notin torn /\ JobOn(w, c))
      /\ c \notin torn' => IF j.pc = "idle" THEN Follows(channel'[c], ability'[c], channel'[c].status)
                        ELSE Fits(j, channel'[c], ability'[c])
      /\ (job[w].pc = "idle" \/ job[w].channel = c) /\ (j.pc = "idle" \/ j.channel = c)
  BY RowMoves DEF Turns, OnOne, TornKept
<1> USE <1>0
<1> SUFFICES ASSUME NEW d \in Channels, d \notin torn' PROVE AbilityFits(d)'
  BY DEF AbilitiesFit
<1> DEFINE On1(v) == job'[v].pc # "idle" /\ job'[v].channel = d
<1>2. AbilityFits(d)' <=>
        /\ \A u, v \in Workers : On1(u) /\ On1(v) => u = v
        /\ (\A v \in Workers : ~On1(v)) => Follows(channel'[d], ability'[d], channel'[d].status)
        /\ \A v \in Workers : On1(v) => Fits(job'[v], channel'[d], ability'[d])
  BY DEF AbilityFits, JobOn, Fits, Follows, Enabled
<1>3. CASE d = c
  <2>1. \A v \in Workers : v # w => ~On1(v)
    BY <1>1, <1>3 DEF AbilitiesFit, AbilityFits, JobOn
  <2>2. CASE j.pc = "idle"
    BY <1>1, <1>2, <1>3, <2>1, <2>2
  <2>3. CASE j.pc # "idle"
    BY <1>1, <1>2, <1>3, <2>1, <2>3
  <2>4. QED
    BY <2>2, <2>3
<1>4. CASE d # c
  <2>1. \A v \in Workers : On1(v) <=> JobOn(v, d)
    BY <1>1, <1>4 DEF JobOn
  <2>2. \A v \in Workers : On1(v) => job'[v] = job[v]
    BY <1>1, <1>4
  <2>3. AbilityFits(d)
    BY <1>4 DEF AbilitiesFit
  <2>4. QED
    BY <1>2, <1>4, <2>1, <2>2, <2>3 DEF AbilityFits
<1>5. QED
  BY <1>3, <1>4

(* No job and no row changes.                                              *)
LEMMA FitsStay ==
  ASSUME AbilitiesFit, UNCHANGED <<channel, ability, job>>, torn \subseteq torn'
  PROVE  AbilitiesFit'
<1> SUFFICES ASSUME NEW d \in Channels, d \notin torn' PROVE AbilityFits(d)'
  BY DEF AbilitiesFit
<1>1. AbilityFits(d)
  BY DEF AbilitiesFit
<1>2. QED
  BY <1>1 DEF AbilityFits, JobOn, Fits, Follows, Enabled

(* What changes of one channel is noted for the cache.                     *)
LEMMA FreshStays ==
  ASSUME ChannelTyped, CacheFresh, UNCHANGED cached, NEW cs \in SUBSET Channels, TouchedAll(cs),
         \A d \in Channels : d \notin cs => channel'[d] = channel[d]
  PROVE  CacheFresh' /\ changed' \in [now : SUBSET Channels, next : SUBSET Channels]
<1>1. changed' = [now |-> IF cached.on THEN changed.now \cup cs ELSE {},
                  next |-> IF cached.pc = "swap" THEN changed.next \cup cs ELSE {}]
  BY DEF TouchedAll
<1>2. changed.now \subseteq Channels /\ changed.next \subseteq Channels
      /\ cached.now \subseteq Channels /\ cached.read \subseteq Channels
  BY DEF ChannelTyped
<1>3. changed' \in [now : SUBSET Channels, next : SUBSET Channels]
  BY <1>1, <1>2
<1>4. cached.on => changed'.now = changed.now \cup cs
  BY <1>1
<1>5. cached.pc = "swap" => changed'.next = changed.next \cup cs
  BY <1>1
<1>6. \A d \in Channels : d \notin cs => (Usable(d)' <=> Usable(d))
  BY DEF Usable, Enabled
<1>7. CacheFresh'
  BY <1>2, <1>4, <1>5, <1>6 DEF CacheFresh
<1>8. QED
  BY <1>3, <1>7

LEMMA FreshUntouched ==
  ASSUME CacheFresh, UNCHANGED <<cached, changed, channel>>
  PROVE  CacheFresh'
  BY DEF CacheFresh, Usable, Enabled

(* What a step of one job on one channel may do.                           *)

\* What changed is noted for the cache.
Noted(c) ==
    /\ UNCHANGED <<cached, request, test, auto>>
    /\ TouchedAll({c}) \/ (channel' = channel /\ changed' = changed)

\* An administrator begins a job, and any worker goes on with one, or ends it.
Allowed(w, j) ==
    /\ j.pc \in {"mark", "row"} => j.status \in 1..3
    /\ w \in Admins => j.pc \notin {"mark", "row"}
    /\ w \notin Admins => j.pc \in {"idle", "mark", "row"} /\ job[w].pc # "idle"

HandsKept(c, row) ==
    /\ byHand' \in [off : SUBSET Channels, excused : SUBSET Channels]
    /\ \A d \in Channels : d # c => /\ d \in byHand'.off <=> d \in byHand.off
                                    /\ d \in byHand.excused => d \in byHand'.excused
    /\ c \in byHand'.off \ byHand'.excused =>
          ~Threatens(c) /\ (row.is = "here" => row.status = ManuallyDisabled)

LEMMA JobStep ==
  ASSUME ChannelInv, NEW w \in Workers, NEW c \in Channels, NEW j \in Job,
         NEW row \in Row, row.is # "new", NEW ab \in {"none", "on", "off"},
         Turns(w, c, j, row, ab), OnOne(w, c, j), Allowed(w, j), Noted(c),
         TornKept(w, c, j, row, ab), HandsKept(c, row)
  PROVE  ChannelInv'
<1> USE DEF Turns, Noted, OnOne
<1>0. UNCHANGED <<cached, request, test, auto>>
  OBVIOUS
<1>1. job' \in [Workers -> Job] /\ job'[w] = j /\ \A v \in Workers : v # w => job'[v] = job[v]
  BY JobMoves DEF ChannelInv
<1>2. /\ channel' \in [Channels -> Row] /\ ability' \in [Channels -> {"none", "on", "off"}]
      /\ channel'[c] = row /\ ability'[c] = ab
      /\ \A d \in Channels : d # c => channel'[d] = channel[d] /\ ability'[d] = ability[d]
  BY RowMoves DEF ChannelInv
<1>3. CacheFresh' /\ changed' \in [now : SUBSET Channels, next : SUBSET Channels]
  <2>1. CASE TouchedAll({c})
    BY <1>2, <2>1, FreshStays DEF ChannelInv
  <2>2. CASE channel' = channel /\ changed' = changed
    BY <1>0, <2>2, FreshUntouched DEF ChannelInv, ChannelTyped
  <2>3. QED
    BY <2>1, <2>2
<1> USE <1>0
<1> HIDE DEF Turns, Noted
<1>4. ChannelTyped'
  BY <1>1, <1>2, <1>3 DEF ChannelInv, ChannelTyped, TornKept, HandsKept
<1>5. Tries(request)'
  BY TriesPrimed DEF ChannelInv
<1>6. JobsKept'
  <2>0. JobsKept /\ \A v \in {"request", "test", "auto"} : v \in Workers /\ v \notin Admins
    BY ChannelIds DEF ChannelInv
  <2>1. \A v \in Workers : job'[v].pc # "idle" => job'[v].channel \in Channels
    BY <1>1, <2>0 DEF JobsKept, Allowed
  <2>2. \A a \in Admins : job'[a].pc \notin {"mark", "row"}
    BY <1>1, <2>0, ChannelIds DEF JobsKept, Allowed
  <2>3. \A v \in {"request", "test", "auto"} : job'[v].pc \in {"idle", "mark", "row"}
    BY <1>1, <2>0 DEF JobsKept, Allowed
  <2>4. \A v \in Workers : job'[v].pc \in {"mark", "row"} => job'[v].status \in 1..3
    BY <1>1, <2>0 DEF JobsKept, Allowed
  <2>5. \A v \in {"request", "test", "auto"} : job[v].pc = "idle" => job'[v].pc = "idle"
    BY <1>1, <2>0 DEF Allowed
  <2>6. QED
    BY <2>0, <2>1, <2>2, <2>3, <2>4, <2>5 DEF JobsKept, Free
<1>7. NewUnknown'
  <2>1. SUFFICES ASSUME NEW d \in Channels, channel'[d].is = "new"
                 PROVE  /\ channel'[d].status = Enabled /\ (\A v \in Workers : ~JobOn(v, d)') /\ ability'[d] = "none"
                        /\ d \notin cached'.now /\ d \notin cached'.read /\ d # request'.channel /\ d \notin request'.among
                        /\ test'.status[d] = 0 /\ auto' # d /\ d \notin byHand'.off
    BY DEF NewUnknown, Enabled, Busy, Free, JobOn
  <2>2. d # c /\ channel[d].is = "new"
    BY <1>2, <2>1
  <2>3. \A v \in Workers : ~JobOn(v, d)
    BY <2>2, BusyIsJobOn DEF ChannelInv, NewUnknown
  <2>4. \A v \in Workers : ~JobOn(v, d)'
    BY <1>1, <2>2, <2>3 DEF JobOn, Allowed
  <2>5. QED
    BY <1>2, <2>2, <2>4 DEF ChannelInv, NewUnknown, HandsKept
<1>8. AbilitiesFit'
  <2> HIDE DEF OnOne
  <2>1. ChannelTyped /\ AbilitiesFit
    BY DEF ChannelInv
  <2>2. QED
    BY <2>1, OneJobFits
<1>9. HandKept'
  <2>1. SUFFICES ASSUME NEW d \in byHand'.off \ byHand'.excused
                 PROVE  ~Threatens(d)' /\ (channel'[d].is = "here" => channel'[d].status = ManuallyDisabled)
    BY DEF HandKept, ManuallyDisabled
  <2>2. d \in Channels
    BY DEF HandsKept
  <2>3. ~Threatens(d) /\ (channel'[d].is = "here" => channel'[d].status = ManuallyDisabled)
    BY <1>2, <2>2 DEF ChannelInv, HandKept, HandsKept
  <2>4. \A v \in {"request", "test", "auto"} : JobOn(v, d)' => JobOn(v, d)
    BY <1>1, ChannelIds DEF JobOn, Allowed
  <2>5. ~Threatens(d)'
    BY <2>3, <2>4 DEF Threatens, Enabled, AutoDisabled
  <2>6. QED
    BY <2>3, <2>5
<1>10. QED
  BY <1>3, <1>4, <1>5, <1>6, <1>7, <1>8, <1>9 DEF ChannelInv

-----------------------------------------------------------------------------
(* Jobs of administrators.                                                 *)

LEMMA FreeAdmin ==
  ASSUME ChannelInv, NEW w \in Workers
  PROVE  /\ job[w] \in Job
         /\ job[w].pc # "idle" => job[w].channel \in Channels /\ JobOn(w, job[w].channel)
  BY DEF ChannelInv, ChannelTyped, JobsKept, JobOn

LEMMA RowTyped ==
  ASSUME ChannelInv, NEW c \in Channels
  PROVE  /\ channel[c] \in Row /\ ability[c] \in {"none", "on", "off"}
         /\ channel = [channel EXCEPT ![c] = channel[c]] /\ ability = [ability EXCEPT ![c] = ability[c]]
         /\ byHand \in [off : SUBSET Channels, excused : SUBSET Channels] /\ torn \subseteq Channels
  BY DEF ChannelInv, ChannelTyped

(* A step of a job that leaves the history of the hands.                   *)
LEMMA HandsOff ==
  ASSUME ChannelInv, NEW c \in Channels, NEW row \in Row, byHand' = byHand,
         c \in byHand.off \ byHand.excused =>
             \/ row.status = channel[c].status /\ (row.is = "here" => channel[c].is = "here")
             \/ Threatens(c)
  PROVE  HandsKept(c, row)
<1>1. byHand' \in [off : SUBSET Channels, excused : SUBSET Channels]
  BY RowTyped
<1>2. c \in byHand.off \ byHand.excused =>
        ~Threatens(c) /\ (channel[c].is = "here" => channel[c].status = ManuallyDisabled)
  BY DEF ChannelInv, HandKept
<1>3. QED
  BY <1>1, <1>2 DEF HandsKept

LEMMA InUseIfThreatens == ASSUME ChannelInv, NEW c \in Channels, Threatens(c) PROVE InUse(c)
<1>1. CASE \E w \in {"request", "test", "auto"} : JobOn(w, c)
  BY <1>1, ChannelIds DEF InUse, JobOn, Free
<1>2. CASE ~ \E w \in {"request", "test", "auto"} : JobOn(w, c)
  BY <1>2 DEF InUse, Threatens
<1>3. QED
  BY <1>1, <1>2

LEMMA EditRowStep == ASSUME ChannelInv, NEW a \in Admins, EditRow(a) PROVE ChannelInv'
<1>1. PICK c \in Channels, s \in Sent :
        /\ channel[c].is = "here"
        /\ Does(a, "reread", c, s)
        /\ channel' = [channel EXCEPT ![c].status = IF s = 0 THEN @ ELSE s]
        /\ torn' = IF Busy(c) THEN torn \cup {c} ELSE torn \ {c}
        /\ Touched(c)
        /\ byHand' = CASE s = ManuallyDisabled ->
                            [off |-> byHand.off \cup {c},
                             excused |-> IF c \notin byHand.off /\ ~InUse(c) THEN byHand.excused \ {c}
                                         ELSE IF InUse(c) THEN byHand.excused \cup {c} ELSE byHand.excused]
                       [] s = 0 -> byHand
                       [] OTHER -> [byHand EXCEPT !.off = @ \ {c}]
  BY DEF EditRow
<1>2. Free(a) /\ UNCHANGED <<ability, cached, request, test, auto>> /\ a \in Workers /\ s \in 0..3
  BY ChannelIds, SentAssumption DEF EditRow
<1> DEFINE j == [pc |-> "reread", channel |-> c, status |-> s]
           row == [channel[c] EXCEPT !.status = IF s = 0 THEN @ ELSE s]
<1>3. j \in Job /\ job' = [job EXCEPT ![a] = j] /\ j.pc = "reread" /\ j.channel = c
  BY <1>1, <1>2 DEF Does, Job, JobPcs
<1>4. channel[c] \in Row /\ torn \subseteq Channels /\ ability[c] \in {"none", "on", "off"}
      /\ byHand \in [off : SUBSET Channels, excused : SUBSET Channels]
  BY RowTyped
<1>5. row \in Row /\ row.is = "here" /\ row.status = (IF s = 0 THEN channel[c].status ELSE s)
  BY <1>1, <1>2, <1>4 DEF Row
<1>6. channel' = [channel EXCEPT ![c] = row] /\ ability' = [ability EXCEPT ![c] = ability[c]]
  BY <1>1, <1>2, RowTyped
<1>7. c \notin torn' => \A v \in Workers : ~JobOn(v, c)
  BY <1>1, BusyIsJobOn
<1>8. torn' \subseteq Channels /\ torn \ {c} \subseteq torn'
  BY <1>1, <1>4
<1>9. HandsKept(c, row)
  <2>1. CASE s = ManuallyDisabled
    <3>0. s # 0
      BY <2>1, StatusesDiffer
    <3>1. byHand' = [off |-> byHand.off \cup {c},
                     excused |-> IF c \notin byHand.off /\ ~InUse(c) THEN byHand.excused \ {c}
                                 ELSE IF InUse(c) THEN byHand.excused \cup {c} ELSE byHand.excused]
      BY <1>1, <2>1, <3>0
    <3>2. row.status = ManuallyDisabled
      BY <1>5, <2>1, StatusesDiffer
    <3>3. Threatens(c) => c \in byHand'.excused
      BY <3>1, InUseIfThreatens
    <3>4. byHand' \in [off : SUBSET Channels, excused : SUBSET Channels]
      BY <1>4, <3>1
    <3>5. \A d \in Channels : d # c => /\ d \in byHand'.off <=> d \in byHand.off
                                       /\ d \in byHand.excused => d \in byHand'.excused
      BY <3>1
    <3>6. QED
      BY <3>2, <3>3, <3>4, <3>5 DEF HandsKept
  <2>2. CASE s = 0
    <3>0. s # ManuallyDisabled
      BY <2>2, StatusesDiffer
    <3>1. byHand' = byHand /\ row.status = channel[c].status
      BY <1>1, <1>5, <2>2, <3>0
    <3>2. QED
      BY <1>1, <1>5, <3>1, HandsOff
  <2>3. CASE s # ManuallyDisabled /\ s # 0
    <3>1. byHand' = [byHand EXCEPT !.off = @ \ {c}]
      BY <1>1, <2>3
    <3>2. QED
      BY <1>4, <3>1 DEF HandsKept
  <2>4. QED
    BY <2>1, <2>2, <2>3
<1>10. Fits(j, row, ability[c])
  BY <1>3, <1>5 DEF Fits
<1>11. job[a].pc = "idle" /\ TouchedAll({c})
  BY <1>1, <1>2 DEF Free, Touched
<1> HIDE DEF j, row
<1>12. Turns(a, c, j, row, ability[c]) /\ OnOne(a, c, j) /\ Noted(c) /\ Allowed(a, j)
  BY <1>2, <1>3, <1>6, <1>11, ChannelIds DEF Turns, OnOne, Noted, Allowed
<1>13. TornKept(a, c, j, row, ability[c])
  BY <1>3, <1>7, <1>8, <1>10 DEF TornKept
<1>14. QED
  BY <1>2, <1>3, <1>4, <1>5, <1>12, <1>13, <1>9, JobStep

LEMMA InsertRowStep == ASSUME ChannelInv, NEW a \in Admins, InsertRow(a) PROVE ChannelInv'
<1>1. PICK c \in Channels :
        /\ channel[c].is = "new"
        /\ channel' = [channel EXCEPT ![c].is = "here"]
        /\ Does(a, "add", c, Enabled) /\ Touched(c)
  BY DEF InsertRow
<1>2. Free(a) /\ UNCHANGED <<ability, cached, request, test, auto, torn, byHand>> /\ a \in Workers
  BY ChannelIds DEF InsertRow
<1> DEFINE j == [pc |-> "add", channel |-> c, status |-> Enabled]
           row == [channel[c] EXCEPT !.is = "here"]
<1>3. j \in Job /\ job' = [job EXCEPT ![a] = j] /\ j.pc = "add" /\ j.channel = c /\ j.status = Enabled
  BY <1>1, StatusesDiffer DEF Does, Job, JobPcs
<1>4. channel[c] \in Row /\ torn \subseteq Channels /\ ability[c] \in {"none", "on", "off"}
  BY RowTyped
<1>5. row \in Row /\ row.is = "here" /\ row.status = channel[c].status
  BY <1>4 DEF Row
<1>6. channel' = [channel EXCEPT ![c] = row] /\ ability' = [ability EXCEPT ![c] = ability[c]]
  BY <1>1, <1>2, RowTyped
<1>7. /\ channel[c].status = Enabled /\ ability[c] = "none" /\ c \notin byHand.off
      /\ \A v \in Workers : ~JobOn(v, c)
  BY <1>1, BusyIsJobOn DEF ChannelInv, NewUnknown
<1>8. Fits(j, row, ability[c])
  BY <1>3, <1>5, <1>7 DEF Fits
<1>9. job[a].pc = "idle" /\ TouchedAll({c})
  BY <1>1, <1>2 DEF Free, Touched
<1> HIDE DEF j, row
<1>10. HandsKept(c, row)
  BY <1>2, <1>5, <1>7, HandsOff
<1>11. Turns(a, c, j, row, ability[c]) /\ OnOne(a, c, j) /\ Noted(c) /\ Allowed(a, j)
  BY <1>2, <1>3, <1>6, <1>9, ChannelIds DEF Turns, OnOne, Noted, Allowed
<1>12. TornKept(a, c, j, row, ability[c])
  BY <1>2, <1>3, <1>4, <1>7, <1>8 DEF TornKept
<1>13. QED
  BY <1>2, <1>3, <1>4, <1>5, <1>11, <1>12, <1>10, JobStep

LEMMA DeleteRowStep == ASSUME ChannelInv, NEW a \in Admins, DeleteRow(a) PROVE ChannelInv'
<1>1. PICK c \in Channels :
        /\ channel[c].is = "here" /\ Gone({c}) /\ Touched(c)
        /\ Does(a, "drop", c, 0) /\ torn' = Torn(c)
  BY DEF DeleteRow
<1>2. Free(a) /\ UNCHANGED <<ability, cached, request, test, auto, byHand>> /\ a \in Workers
  BY ChannelIds DEF DeleteRow
<1> DEFINE j == [pc |-> "drop", channel |-> c, status |-> 0]
           row == [channel[c] EXCEPT !.is = "gone"]
<1>3. j \in Job /\ job' = [job EXCEPT ![a] = j] /\ j.pc = "drop" /\ j.channel = c
  BY <1>1 DEF Does, Job, JobPcs
<1>4. channel[c] \in Row /\ torn \subseteq Channels /\ ability[c] \in {"none", "on", "off"}
  BY RowTyped
<1>5. row \in Row /\ row.is = "gone" /\ row.status = channel[c].status
  BY <1>4 DEF Row
<1>6. channel' = [channel EXCEPT ![c] = row] /\ ability' = [ability EXCEPT ![c] = ability[c]]
  BY <1>1, <1>2, RowTyped DEF Gone, ChannelInv, ChannelTyped
<1>7. /\ torn' \subseteq Channels /\ torn \ {c} \subseteq torn'
      /\ c \notin torn' => \A v \in Workers : ~JobOn(v, c)
  BY <1>1, <1>4, BusyIsJobOn DEF Torn
<1>8. Fits(j, row, ability[c])
  BY <1>3, <1>5 DEF Fits
<1>9. job[a].pc = "idle" /\ TouchedAll({c})
  BY <1>1, <1>2 DEF Free, Touched
<1> HIDE DEF j, row
<1>10. HandsKept(c, row)
  BY <1>1, <1>2, <1>5, HandsOff
<1>11. Turns(a, c, j, row, ability[c]) /\ OnOne(a, c, j) /\ Noted(c) /\ Allowed(a, j)
  BY <1>2, <1>3, <1>6, <1>9, ChannelIds DEF Turns, OnOne, Noted, Allowed
<1>12. TornKept(a, c, j, row, ability[c])
  BY <1>3, <1>7, <1>8 DEF TornKept
<1>13. QED
  BY <1>2, <1>3, <1>4, <1>5, <1>11, <1>12, <1>10, JobStep

(* A step of a job under way that leaves the row as it is.                 *)
GoesOn(w, c, j, ab) ==
    /\ job' = [job EXCEPT ![w] = j] /\ ability' = [ability EXCEPT ![c] = ab]
    /\ UNCHANGED <<channel, cached, request, test, auto, changed, byHand>>
    /\ j.pc = "idle" \/ j.channel = c
    /\ j.pc \in {"mark", "row"} => j.status \in 1..3
    /\ w \in Admins => j.pc \notin {"mark", "row"}
    /\ w \notin Admins => j.pc \in {"idle", "mark", "row"}

Leaves(c, j, ab) ==
    /\ torn' = torn \/ torn' = torn \cup {c}
    /\ c \notin torn' => IF j.pc = "idle" THEN Follows(channel[c], ab, channel[c].status)
                          ELSE Fits(j, channel[c], ab)

LEMMA GoesOnStep ==
  ASSUME ChannelInv, NEW w \in Workers, NEW c \in Channels, JobOn(w, c),
         NEW j \in Job, NEW ab \in {"none", "on", "off"}, GoesOn(w, c, j, ab), Leaves(c, j, ab)
  PROVE  ChannelInv'
<1>1. channel[c] \in Row /\ channel = [channel EXCEPT ![c] = channel[c]] /\ torn \subseteq Channels
  BY RowTyped
<1>2. HandsKept(c, channel[c])
  BY <1>1, HandsOff DEF GoesOn
<1>3. channel[c].is # "new"
  BY BusyIsJobOn DEF ChannelInv, NewUnknown
<1>4. job[w].channel = c /\ job[w].pc # "idle"
  BY DEF JobOn
<1>5. Turns(w, c, j, channel[c], ab) /\ OnOne(w, c, j) /\ Noted(c) /\ Allowed(w, j)
  BY <1>1, <1>4 DEF GoesOn, Turns, OnOne, Noted, Allowed
<1>6. TornKept(w, c, j, channel[c], ab)
  BY <1>1 DEF TornKept, Leaves
<1>7. QED
  BY <1>1, <1>2, <1>3, <1>5, <1>6, JobStep

LEMMA AloneFits ==
  ASSUME ChannelInv, NEW w \in Workers, NEW c \in Channels, JobOn(w, c), c \notin torn
  PROVE  Fits(job[w], channel[c], ability[c])
  BY DEF ChannelInv, AbilitiesFit, AbilityFits

LEMMA EditRereadStep == ASSUME ChannelInv, NEW a \in Admins, EditReread(a) PROVE ChannelInv'
<1> DEFINE c == job[a].channel
           i == [pc |-> "renew", channel |-> c, status |-> StatusRead(c, job[a].status)]
           j == [job[a] EXCEPT !.pc = "renew"]
<1>1. job[a].pc = "reread" /\ UNCHANGED <<channel, ability, cached, request, test, auto, changed, byHand>>
      /\ \/ job' = [job EXCEPT ![a] = i] /\ torn' = torn
         \/ job' = [job EXCEPT ![a].pc = "renew"] /\ torn' = torn \cup {c}
  BY DEF EditReread, Does, Goes
<1>2. a \in Workers /\ job[a] \in Job /\ c \in Channels /\ JobOn(a, c)
  BY <1>1, ChannelIds, FreeAdmin
<1>3. channel[c] \in Row /\ ability[c] \in {"none", "on", "off"} /\ ability' = [ability EXCEPT ![c] = ability[c]]
  BY <1>1, <1>2, RowTyped
<1>4. i \in Job /\ i.pc = "renew" /\ i.channel = c /\ i.status = StatusRead(c, job[a].status)
  BY <1>2, <1>3 DEF Job, JobPcs, Row, StatusRead
<1>5. j \in Job /\ j.pc = "renew" /\ j.channel = c
  BY <1>2 DEF Job, JobPcs
<1>6. c \notin torn => Fits(i, channel[c], ability[c])
  <2>1. c \notin torn => channel[c].is = "here"
    BY <1>1, <1>2, AloneFits DEF Fits
  <2>2. QED
    BY <1>4, <2>1 DEF Fits, StatusRead
<1> HIDE DEF i
<1>7. CASE job' = [job EXCEPT ![a] = i] /\ torn' = torn
  <2>1. GoesOn(a, c, i, ability[c]) /\ Leaves(c, i, ability[c])
    BY <1>1, <1>2, <1>3, <1>4, <1>6, <1>7, ChannelIds DEF GoesOn, Leaves
  <2>2. QED
    BY <1>2, <1>3, <1>4, <2>1, GoesOnStep
<1>8. CASE job' = [job EXCEPT ![a].pc = "renew"] /\ torn' = torn \cup {c}
  <2>1. job' = [job EXCEPT ![a] = j]
    BY <1>8
  <2> HIDE DEF j
  <2>2. GoesOn(a, c, j, ability[c]) /\ Leaves(c, j, ability[c])
    BY <1>1, <1>2, <1>3, <1>5, <1>8, <2>1, ChannelIds DEF GoesOn, Leaves
  <2>3. QED
    BY <1>2, <1>3, <1>5, <2>2, GoesOnStep
<1>9. QED
  BY <1>1, <1>7, <1>8

LEMMA DropStep == ASSUME ChannelInv, NEW a \in Admins, Drop(a) PROVE ChannelInv'
<1> DEFINE c == job[a].channel
           j == [job[a] EXCEPT !.pc = "add"]
<1>1. job[a].pc \in {"renew", "drop"} /\ UNCHANGED <<channel, cached, request, test, auto, changed, byHand>>
      /\ \/ /\ ability' = [ability EXCEPT ![c] = "none"] /\ torn' = torn
            /\ job' = IF job[a].pc = "renew" THEN [job EXCEPT ![a].pc = "add"] ELSE [job EXCEPT ![a] = NoJob]
         \/ job' = [job EXCEPT ![a] = NoJob] /\ torn' = torn \cup {c} /\ ability' = ability
  BY DEF Drop, Goes, Ends
<1>2. a \in Workers /\ job[a] \in Job /\ c \in Channels /\ JobOn(a, c)
  BY <1>1, ChannelIds, FreeAdmin
<1>3. channel[c] \in Row /\ ability[c] \in {"none", "on", "off"} /\ ability = [ability EXCEPT ![c] = ability[c]]
  BY <1>2, RowTyped
<1>4. j \in Job /\ j.pc = "add" /\ j.channel = c /\ j.status = job[a].status
  BY <1>2 DEF Job, JobPcs
<1>5. c \notin torn => Fits(job[a], channel[c], ability[c])
  BY <1>2, AloneFits
<1>6. CASE ability' = [ability EXCEPT ![c] = "none"] /\ torn' = torn /\ job[a].pc = "renew"
           /\ job' = [job EXCEPT ![a].pc = "add"]
  <2>1. job' = [job EXCEPT ![a] = j]
    BY <1>6
  <2>2. c \notin torn => Fits(j, channel[c], "none")
    BY <1>4, <1>5, <1>6 DEF Fits
  <2> HIDE DEF j
  <2>3. GoesOn(a, c, j, "none") /\ Leaves(c, j, "none")
    BY <1>1, <1>2, <1>4, <1>6, <2>1, <2>2, ChannelIds DEF GoesOn, Leaves
  <2>4. QED
    BY <1>2, <1>4, <2>3, GoesOnStep
<1>7. CASE ability' = [ability EXCEPT ![c] = "none"] /\ torn' = torn /\ job[a].pc = "drop"
           /\ job' = [job EXCEPT ![a] = NoJob]
  <2>1. c \notin torn => Follows(channel[c], "none", channel[c].status)
    BY <1>5, <1>7 DEF Fits, Follows
  <2>2. GoesOn(a, c, NoJob, "none") /\ Leaves(c, NoJob, "none")
    BY <1>1, <1>2, <1>7, <2>1, NoJobTyped, ChannelIds DEF GoesOn, Leaves
  <2>3. QED
    BY <1>2, <2>2, NoJobTyped, GoesOnStep
<1>8. CASE job' = [job EXCEPT ![a] = NoJob] /\ torn' = torn \cup {c} /\ ability' = ability
  <2>1. GoesOn(a, c, NoJob, ability[c]) /\ Leaves(c, NoJob, ability[c])
    BY <1>1, <1>2, <1>3, <1>8, NoJobTyped, ChannelIds DEF GoesOn, Leaves
  <2>2. QED
    BY <1>2, <1>3, <2>1, NoJobTyped, GoesOnStep
<1>9. QED
  BY <1>1, <1>6, <1>7, <1>8

LEMMA AddAbilitiesStep == ASSUME ChannelInv, NEW a \in Admins, AddAbilities(a) PROVE ChannelInv'
<1> DEFINE c == job[a].channel
           ab == IF job[a].status = Enabled THEN "on" ELSE "off"
<1>1. job[a].pc = "add" /\ UNCHANGED <<channel, cached, request, test, auto, changed, byHand>>
      /\ job' = [job EXCEPT ![a] = NoJob]
      /\ \/ ability[c] = "none" /\ ability' = [ability EXCEPT ![c] = ab] /\ torn' = torn
         \/ ability[c] # "none" /\ ability' = ability /\ torn' = torn
         \/ torn' = torn \cup {c} /\ ability' = ability
  BY DEF AddAbilities, Ends
<1>2. a \in Workers /\ job[a] \in Job /\ c \in Channels /\ JobOn(a, c)
  BY <1>1, ChannelIds, FreeAdmin
<1>3. channel[c] \in Row /\ ability[c] \in {"none", "on", "off"} /\ ability = [ability EXCEPT ![c] = ability[c]]
  BY <1>2, RowTyped
<1>4. c \notin torn => Fits(job[a], channel[c], ability[c])
  BY <1>2, AloneFits
<1>5. CASE ability[c] = "none" /\ ability' = [ability EXCEPT ![c] = ab] /\ torn' = torn
  <2>1. c \notin torn => Follows(channel[c], ab, channel[c].status)
    BY <1>1, <1>4 DEF Fits, Follows
  <2>2. ab \in {"none", "on", "off"}
    OBVIOUS
  <2> HIDE DEF ab
  <2>3. GoesOn(a, c, NoJob, ab) /\ Leaves(c, NoJob, ab)
    BY <1>1, <1>2, <1>5, <2>1, NoJobTyped, ChannelIds DEF GoesOn, Leaves
  <2>4. QED
    BY <1>2, <2>2, <2>3, NoJobTyped, GoesOnStep
<1>6. CASE ability[c] # "none" /\ ability' = ability /\ torn' = torn
  <2>1. c \in torn
    BY <1>1, <1>4, <1>6 DEF Fits
  <2>2. GoesOn(a, c, NoJob, ability[c]) /\ Leaves(c, NoJob, ability[c])
    BY <1>1, <1>2, <1>3, <1>6, <2>1, NoJobTyped, ChannelIds DEF GoesOn, Leaves
  <2>3. QED
    BY <1>2, <1>3, <2>2, NoJobTyped, GoesOnStep
<1>7. CASE torn' = torn \cup {c} /\ ability' = ability
  <2>1. GoesOn(a, c, NoJob, ability[c]) /\ Leaves(c, NoJob, ability[c])
    BY <1>1, <1>2, <1>3, <1>7, NoJobTyped, ChannelIds DEF GoesOn, Leaves
  <2>2. QED
    BY <1>2, <1>3, <2>1, NoJobTyped, GoesOnStep
<1>8. QED
  BY <1>1, <1>5, <1>6, <1>7

-----------------------------------------------------------------------------
(* The statements of an automatic change.                                  *)

LEMMA Marker ==
  ASSUME ChannelInv, NEW w \in Workers, job[w].pc \in {"mark", "row"}
  PROVE  /\ w \notin Admins /\ job[w] \in Job /\ job[w].channel \in Channels /\ job[w].status \in 1..3
         /\ JobOn(w, job[w].channel) /\ Threatens(job[w].channel)
<1>1. w \in {"request", "test", "auto"}
  BY ChannelIds DEF ChannelInv, JobsKept
<1>2. job[w] \in Job /\ job[w].channel \in Channels /\ JobOn(w, job[w].channel)
  BY FreeAdmin
<1>3. Threatens(job[w].channel)
  BY <1>1, <1>2 DEF Threatens
<1>4. job[w].status \in 1..3
  BY DEF ChannelInv, JobsKept
<1>5. QED
  BY <1>1, <1>2, <1>3, <1>4, ChannelIds

LEMMA MarkAbilitiesStep == ASSUME ChannelInv, NEW w \in Workers, MarkAbilities(w) PROVE ChannelInv'
<1> DEFINE c == job[w].channel
           j == [job[w] EXCEPT !.pc = "row"]
           ab == IF ability[c] = "none" THEN "none" ELSE IF job[w].status = Enabled THEN "on" ELSE "off"
<1>1. job[w].pc = "mark" /\ UNCHANGED <<channel, cached, request, test, auto, changed, byHand>>
      /\ job' = [job EXCEPT ![w].pc = "row"]
      /\ \/ ability' = Marked(c, job[w].status) /\ torn' = torn
         \/ torn' = torn \cup {c} /\ ability' = ability
  BY DEF MarkAbilities, Goes
<1>2. w \notin Admins /\ job[w] \in Job /\ c \in Channels /\ JobOn(w, c) /\ job[w].status \in 1..3
  BY <1>1, Marker
<1>3. channel[c] \in Row /\ ability[c] \in {"none", "on", "off"} /\ ability = [ability EXCEPT ![c] = ability[c]]
  BY <1>2, RowTyped
<1>4. j \in Job /\ j.pc = "row" /\ j.channel = c /\ j.status = job[w].status /\ job' = [job EXCEPT ![w] = j]
  BY <1>1, <1>2 DEF Job, JobPcs
<1>5. Marked(c, job[w].status) = [ability EXCEPT ![c] = ab] /\ ab \in {"none", "on", "off"}
  BY <1>3 DEF Marked
<1>6. c \notin torn => Follows(channel[c], ability[c], channel[c].status)
  BY <1>1, <1>2, AloneFits DEF Fits
<1>7. channel[c].is \in {"new", "here", "gone"}
  BY <1>3 DEF Row
<1>8. c \notin torn => Fits(j, channel[c], ab)
  BY <1>4, <1>6, <1>7 DEF Fits, Follows
<1> HIDE DEF j, ab
<1>9. CASE ability' = Marked(c, job[w].status) /\ torn' = torn
  <2>1. GoesOn(w, c, j, ab) /\ Leaves(c, j, ab)
    BY <1>1, <1>2, <1>4, <1>5, <1>8, <1>9 DEF GoesOn, Leaves
  <2>2. QED
    BY <1>2, <1>4, <1>5, <2>1, GoesOnStep
<1>10. CASE torn' = torn \cup {c} /\ ability' = ability
  <2>1. GoesOn(w, c, j, ability[c]) /\ Leaves(c, j, ability[c])
    BY <1>1, <1>2, <1>3, <1>4, <1>10 DEF GoesOn, Leaves
  <2>2. QED
    BY <1>2, <1>3, <1>4, <2>1, GoesOnStep
<1>11. QED
  BY <1>1, <1>9, <1>10

LEMMA MarkRowStep == ASSUME ChannelInv, NEW w \in Workers, MarkRow(w) PROVE ChannelInv'
<1> DEFINE c == job[w].channel
           row == IF channel[c].is = "here" THEN [channel[c] EXCEPT !.status = job[w].status] ELSE channel[c]
<1>1. job[w].pc = "row" /\ UNCHANGED <<ability, cached, request, test, auto, byHand>>
      /\ job' = [job EXCEPT ![w] = NoJob]
      /\ \/ /\ channel' = IF channel[c].is = "here" THEN [channel EXCEPT ![c].status = job[w].status] ELSE channel
            /\ TouchedAll({c}) /\ torn' = torn
         \/ torn' = torn \cup {c} /\ UNCHANGED <<channel, changed>>
  BY DEF MarkRow, Ends, Touched
<1>2. w \notin Admins /\ job[w] \in Job /\ c \in Channels /\ JobOn(w, c) /\ Threatens(c)
      /\ job[w].status \in 1..3
  BY <1>1, Marker
<1>3. channel[c] \in Row /\ ability[c] \in {"none", "on", "off"} /\ ability' = [ability EXCEPT ![c] = ability[c]]
      /\ channel = [channel EXCEPT ![c] = channel[c]] /\ torn \subseteq Channels
  BY <1>1, <1>2, RowTyped
<1>4. channel[c].is # "new"
  BY <1>2, BusyIsJobOn DEF ChannelInv, NewUnknown
<1>5. CASE torn' = torn \cup {c} /\ UNCHANGED <<channel, changed>>
  <2>1. GoesOn(w, c, NoJob, ability[c]) /\ Leaves(c, NoJob, ability[c])
    BY <1>1, <1>2, <1>3, <1>5, NoJobTyped DEF GoesOn, Leaves
  <2>2. QED
    BY <1>2, <1>3, <2>1, NoJobTyped, GoesOnStep
<1>6. CASE /\ channel' = IF channel[c].is = "here" THEN [channel EXCEPT ![c].status = job[w].status] ELSE channel
           /\ TouchedAll({c}) /\ torn' = torn
  <2>2. row \in Row /\ row.is = channel[c].is /\ (row.is = "here" => row.status = job[w].status)
    BY <1>2, <1>3 DEF Row
  <2>3. channel' = [channel EXCEPT ![c] = row]
    BY <1>3, <1>6
  <2>4. c \notin torn => Follows(row, ability[c], row.status)
    <3>1. c \notin torn => Follows(channel[c], ability[c], job[w].status)
      BY <1>1, <1>2, AloneFits DEF Fits
    <3>2. QED
      BY <2>2, <3>1 DEF Follows
  <2> HIDE DEF row
  <2>5. HandsKept(c, row)
    BY <1>1, <1>2, <2>2, HandsOff
  <2>6. job[w].channel = c /\ job[w].pc # "idle"
    BY <1>2 DEF JobOn
  <2>7. Turns(w, c, NoJob, row, ability[c]) /\ OnOne(w, c, NoJob) /\ Noted(c) /\ Allowed(w, NoJob)
    BY <1>1, <1>2, <1>3, <1>6, <2>3, <2>6, NoJobTyped DEF Turns, OnOne, Noted, Allowed
  <2>8. TornKept(w, c, NoJob, row, ability[c])
    BY <1>2, <1>3, <1>6, <2>4, NoJobTyped DEF TornKept
  <2>9. row.is # "new"
    BY <1>4, <2>2
  <2>10. QED
    BY <1>2, <1>3, <2>2, <2>5, <2>7, <2>8, <2>9, NoJobTyped, JobStep
<1>7. QED
  BY <1>1, <1>5, <1>6

-----------------------------------------------------------------------------
(* Deletions of several channels, and the cache.                           *)

LEMMA ManyGone ==
  ASSUME ChannelInv, NEW cs \in SUBSET Channels, \A c \in cs : channel[c].is = "here",
         Gone(cs), TouchedAll(cs), UNCHANGED <<job, cached, request, test, auto, byHand>>,
         ability' \in [Channels -> {"none", "on", "off"}],
         \A d \in Channels : d \notin cs => ability'[d] = ability[d],
         torn' \subseteq Channels, torn \subseteq torn',
         \A c \in cs : c \notin torn' => ~Busy(c) /\ ability'[c] = "none"
  PROVE  ChannelInv'
<1>1. /\ channel' \in [Channels -> Row]
      /\ \A d \in Channels : d \notin cs => channel'[d] = channel[d]
      /\ \A d \in cs : channel'[d].is = "gone"
  BY DEF ChannelInv, ChannelTyped, Gone, Row
<1>2. CacheFresh' /\ changed' \in [now : SUBSET Channels, next : SUBSET Channels]
  BY <1>1, FreshStays DEF ChannelInv
<1>3. ChannelTyped'
  BY <1>1, <1>2 DEF ChannelInv, ChannelTyped
<1>4. Tries(request)' /\ JobsKept'
  BY TriesPrimed DEF ChannelInv, JobsKept, Free
<1>5. NewUnknown'
  BY <1>1 DEF ChannelInv, NewUnknown, Busy, Free, Enabled
<1>6. AbilitiesFit'
  <2> SUFFICES ASSUME NEW d \in Channels, d \notin torn' PROVE AbilityFits(d)'
    BY DEF AbilitiesFit
  <2>1. AbilityFits(d)
    BY DEF ChannelInv, AbilitiesFit
  <2>2. CASE d \notin cs
    BY <1>1, <2>1, <2>2 DEF AbilityFits, JobOn, Fits, Follows, Enabled
  <2>3. CASE d \in cs
    <3>1. \A w \in Workers : ~JobOn(w, d)
      BY <2>3, BusyIsJobOn
    <3>2. channel'[d].is = "gone" /\ ability'[d] = "none"
      BY <1>1, <2>3
    <3>3. QED
      BY <3>1, <3>2 DEF AbilityFits, JobOn, Follows
  <2>4. QED
    BY <2>2, <2>3
<1>7. HandKept'
  <2>1. \A c \in Channels : Threatens(c)' <=> Threatens(c)
    BY DEF Threatens, JobOn, Enabled, AutoDisabled
  <2>2. byHand.off \subseteq Channels
    BY DEF ChannelInv, ChannelTyped
  <2>3. QED
    BY <1>1, <2>1, <2>2 DEF ChannelInv, HandKept, ManuallyDisabled
<1>8. QED
  BY <1>2, <1>3, <1>4, <1>5, <1>6, <1>7 DEF ChannelInv

LEMMA DeleteBatchStep == ASSUME ChannelInv, DeleteBatch PROVE ChannelInv'
<1>1. PICK cs \in SUBSET {c \in Channels : channel[c].is = "here"} :
        /\ Gone(cs) /\ TouchedAll(cs)
        /\ ability' = [c \in Channels |-> IF c \in cs THEN "none" ELSE ability[c]]
        /\ torn' = torn \cup {c \in cs : Busy(c)}
  BY DEF DeleteBatch
<1>2. UNCHANGED <<job, cached, request, test, auto, byHand>> /\ torn \subseteq Channels
  BY DEF DeleteBatch, ChannelInv, ChannelTyped
<1>3. cs \in SUBSET Channels /\ \A c \in cs : channel[c].is = "here"
  OBVIOUS
<1>4. /\ ability' \in [Channels -> {"none", "on", "off"}]
      /\ \A d \in Channels : d \notin cs => ability'[d] = ability[d]
      /\ \A c \in cs : ability'[c] = "none"
  BY <1>1, <1>3 DEF ChannelInv, ChannelTyped
<1>5. torn' \subseteq Channels /\ torn \subseteq torn' /\ \A c \in cs : c \notin torn' => ~Busy(c)
  BY <1>1, <1>2
<1>6. QED
  BY <1>1, <1>2, <1>3, <1>4, <1>5, ManyGone

LEMMA DeleteDisabledStep == ASSUME ChannelInv, DeleteDisabled PROVE ChannelInv'
<1> DEFINE cs == {c \in Channels : channel[c].is = "here" /\ ~Usable(c)}
<1>1. Gone(cs) /\ TouchedAll(cs) /\ torn' = torn \cup cs
      /\ UNCHANGED <<ability, job, cached, request, test, auto, byHand>>
  BY DEF DeleteDisabled
<1>2. cs \in SUBSET Channels /\ (\A c \in cs : channel[c].is = "here") /\ torn \subseteq Channels
  BY DEF ChannelInv, ChannelTyped
<1>3. ability' \in [Channels -> {"none", "on", "off"}]
  BY <1>1 DEF ChannelInv, ChannelTyped
<1> HIDE DEF cs
<1>4. QED
  BY <1>1, <1>2, <1>3, ManyGone

(* A step that leaves the channels, their jobs and what is known of them.  *)
LEMMA CacheStep ==
  ASSUME ChannelInv, UNCHANGED <<channel, ability, job, request, test, auto, torn, byHand>>,
         cached' \in [on : BOOLEAN, now : SUBSET Channels, read : SUBSET Channels, pc : {"idle", "swap"}],
         changed' \in [now : SUBSET Channels, next : SUBSET Channels], cached'.on = cached.on,
         \A c \in Channels : channel[c].is = "new" => c \notin cached'.now /\ c \notin cached'.read,
         CacheFresh'
  PROVE  ChannelInv'
<1>1. ChannelTyped' /\ Tries(request)' /\ JobsKept'
  BY TriesPrimed DEF ChannelInv, ChannelTyped, JobsKept, Free
<1>2. NewUnknown'
  BY DEF ChannelInv, NewUnknown, Busy, Free, Enabled
<1>3. AbilitiesFit'
  BY FitsStay DEF ChannelInv
<1>4. HandKept'
  BY DEF ChannelInv, HandKept, Threatens, JobOn, Enabled, AutoDisabled, ManuallyDisabled
<1>5. QED
  BY <1>1, <1>2, <1>3, <1>4 DEF ChannelInv

LEMMA SyncStep == ASSUME ChannelInv, SyncRead \/ SyncSwap PROVE ChannelInv'
<1>1. cached \in [on : BOOLEAN, now : SUBSET Channels, read : SUBSET Channels, pc : {"idle", "swap"}]
      /\ changed \in [now : SUBSET Channels, next : SUBSET Channels]
  BY DEF ChannelInv, ChannelTyped
<1>2. CASE SyncRead
  <2> DEFINE us == {c \in Channels : Usable(c)}
             now == [cached EXCEPT !.read = us, !.pc = "swap"]
  <2>1. cached.on /\ cached' = now
        /\ UNCHANGED <<channel, ability, job, request, test, auto, torn, changed, byHand>>
    BY <1>2 DEF SyncRead
  <2>2. /\ now \in [on : BOOLEAN, now : SUBSET Channels, read : SUBSET Channels, pc : {"idle", "swap"}]
        /\ now.on = cached.on /\ now.now = cached.now /\ now.read = us
    BY <1>1
  <2>3. \A c \in Channels : channel[c].is = "new" => c \notin now.now /\ c \notin now.read
    BY <2>2 DEF ChannelInv, NewUnknown, Usable
  <2> HIDE DEF now
  <2>4. CacheFresh'
    BY <2>1, <2>2 DEF ChannelInv, CacheFresh, Usable, Enabled
  <2>5. QED
    BY <1>1, <2>1, <2>2, <2>3, <2>4, CacheStep
<1>3. CASE SyncSwap
  <2> DEFINE now == [cached EXCEPT !.now = cached.read, !.read = {}, !.pc = "idle"]
             noted == [now |-> changed.next, next |-> {}]
  <2>1. cached.pc = "swap" /\ cached' = now /\ changed' = noted
        /\ UNCHANGED <<channel, ability, job, request, test, auto, torn, byHand>>
    BY <1>3 DEF SyncSwap
  <2>2. /\ now \in [on : BOOLEAN, now : SUBSET Channels, read : SUBSET Channels, pc : {"idle", "swap"}]
        /\ now.on = cached.on /\ now.now = cached.read /\ now.read = {} /\ now.pc = "idle"
    BY <1>1
  <2>3. noted \in [now : SUBSET Channels, next : SUBSET Channels] /\ noted.now = changed.next
    BY <1>1
  <2>4. \A c \in Channels : channel[c].is = "new" => c \notin now.now /\ c \notin now.read
    BY <2>2 DEF ChannelInv, NewUnknown
  <2> HIDE DEF now, noted
  <2>5. CacheFresh'
    BY <2>1, <2>2, <2>3 DEF ChannelInv, CacheFresh, Usable, Enabled
  <2>6. QED
    BY <2>1, <2>2, <2>3, <2>4, <2>5, CacheStep
<1>4. QED
  BY <1>2, <1>3

-----------------------------------------------------------------------------
(* A request.                                                              *)

LEMMA NoRequestTries ==
  /\ NoRequest \in Asks /\ Tries(NoRequest) /\ NoRequest.pc = "idle" /\ NoRequest.i = 0
  /\ NoRequest.among = {} /\ NoRequest.failed = {} /\ NoRequest.channel = 0
<1>1. /\ NoRequest.pc = "idle" /\ NoRequest.i = 0
      /\ NoRequest.among = {} /\ NoRequest.failed = {} /\ NoRequest.channel = 0
  BY Zenon DEF NoRequest
<1>2. 0 \in 0..RetryTimes
  BY ChannelBoundsAssumption
<1>3. NoRequest \in Asks
  BY <1>2, Zenon DEF NoRequest, Asks, Bys
<1>4. Tries(NoRequest)
  BY <1>1, FS_EmptySet DEF Tries
<1>5. QED
  BY <1>1, <1>3, <1>4

(* r is a request that may have become of the one there is.                *)
AskFits(r) ==
    /\ r \in Asks /\ Tries(r)
    /\ \A c \in Channels : c = r.channel \/ c \in r.among => channel[c].is # "new"
    /\ r.pc \in {"look", "next", "nextlook"} => ~cached.on
    /\ r.pc \in {"look", "next", "nextlook", "relay"} => Free("request")

ThreatOf(r, c) == (r.pc = "relay" /\ r.channel = c) \/ (r.pc = "nextlook" /\ c \in r.among)

LEMMA RequestFits == ASSUME ChannelInv PROVE AskFits(request)
  BY DEF ChannelInv, ChannelTyped, JobsKept, NewUnknown, AskFits

LEMMA AskStep ==
  ASSUME ChannelInv, NEW r, AskFits(r), request' = r,
         UNCHANGED <<channel, ability, job, cached, test, auto, torn, changed>>,
         byHand' \in [off : SUBSET Channels, excused : SUBSET Channels],
         byHand'.off = byHand.off, byHand.excused \subseteq byHand'.excused,
         \A c \in byHand'.off \ byHand'.excused : ~ThreatOf(r, c)
  PROVE  ChannelInv'
<1>1. ChannelTyped'
  BY DEF ChannelInv, ChannelTyped, AskFits
<1>2. Tries(request)'
  BY TriesPrimed DEF AskFits
<1>3. JobsKept'
  BY DEF ChannelInv, JobsKept, AskFits, Free
<1>4. NewUnknown'
  BY DEF ChannelInv, NewUnknown, AskFits, Busy, Free, Enabled
<1>5. AbilitiesFit'
  BY FitsStay DEF ChannelInv
<1>6. CacheFresh'
  BY FreshUntouched DEF ChannelInv
<1>7. HandKept'
  BY DEF ChannelInv, HandKept, Threatens, ThreatOf, JobOn, Enabled, AutoDisabled, ManuallyDisabled
<1>8. QED
  BY <1>1, <1>2, <1>3, <1>4, <1>5, <1>6, <1>7 DEF ChannelInv

(* The history of the hands does not change.                               *)
LEMMA AskPlain ==
  ASSUME ChannelInv, NEW r, AskFits(r), request' = r,
         UNCHANGED <<channel, ability, job, cached, test, auto, torn, changed, byHand>>,
         \A c \in byHand.off \ byHand.excused : ~ThreatOf(r, c)
  PROVE  ChannelInv'
<1>1. byHand \in [off : SUBSET Channels, excused : SUBSET Channels]
  BY DEF ChannelInv, ChannelTyped
<1>2. QED
  BY <1>1, AskStep

LEMMA IdleFits == AskFits(NoRequest) /\ \A c : ~ThreatOf(NoRequest, c)
<1>1. \A c \in Channels : c # NoRequest.channel /\ c \notin NoRequest.among
  BY NoRequestTries, ChannelIds
<1>2. QED
  BY <1>1, NoRequestTries DEF AskFits, ThreatOf

(* What a request may become when it tries again, or uses a channel.       *)
LEMMA AgainFits ==
  ASSUME NEW r \in Asks, NEW i \in Int, i <= RetryTimes, IsFiniteSet(r.failed),
         i > 0 => r.failed # {} /\ Cardinality(r.failed) + i <= RetryTimes + 1,
         \A c \in Channels : c = r.channel => channel[c].is # "new"
  PROVE  AskFits(TriesAgain(r, i)) /\ \A c : ~ThreatOf(TriesAgain(r, i), c)
<1>1. CASE i > 0
  <2> DEFINE nobody == ""
             q == [r EXCEPT !.pc = "choose", !.i = i, !.among = {}, !.by = nobody]
  <2>0. nobody \in Bys /\ TriesAgain(r, i) = [r EXCEPT !.pc = "choose", !.i = i, !.among = {}, !.by = nobody]
    BY <1>1, Zenon DEF TriesAgain, Bys
  <2> HIDE DEF nobody
  <2>1. TriesAgain(r, i) = q
    BY <2>0
  <2>2. /\ q \in Asks /\ q.pc = "choose" /\ q.i = i /\ q.among = {}
        /\ q.failed = r.failed /\ q.channel = r.channel
    <3>1. i \in 0..RetryTimes
      BY <1>1, ChannelBoundsAssumption
    <3>2. q \in Asks
      BY <2>0, <3>1 DEF Asks
    <3>3. QED
      BY <3>2 DEF Asks
  <2> HIDE DEF q
  <2>3. Tries(q)
    BY <1>1, <2>2 DEF Tries
  <2>4. QED
    BY <2>1, <2>2, <2>3 DEF AskFits, ThreatOf
<1>2. CASE ~(i > 0)
  BY <1>2, IdleFits DEF TriesAgain
<1>3. QED
  BY <1>1, <1>2

LEMMA UsesFits ==
  ASSUME NEW r \in Asks, Tries(r), NEW c \in Channels, channel[c].is # "new", Free("request"),
         \A d \in Channels : d = r.channel => channel[d].is # "new",
         NEW by \in Bys,
         by # "next" => c \notin r.failed,
         Uses(r, c, by)
  PROVE  AskFits(request') /\ \A d : ThreatOf(request', d) => d = c
<1>1. CASE c # r.channel
  <2> DEFINE q == [r EXCEPT !.pc = "relay", !.channel = c, !.among = {}, !.by = by]
  <2>1. request' = q
    BY <1>1 DEF Uses
  <2>2. /\ q \in Asks /\ q.pc = "relay" /\ q.i = r.i /\ q.among = {} /\ q.by = by
        /\ q.failed = r.failed /\ q.channel = c
    BY DEF Asks
  <2> HIDE DEF q
  <2>3. Tries(q)
    BY <2>2 DEF Tries
  <2>4. QED
    BY <2>1, <2>2, <2>3 DEF AskFits, ThreatOf
<1>2. CASE c = r.channel
  <2>1. request' = TriesAgain(r, r.i - 1)
    BY <1>2 DEF Uses
  <2>2. r.i \in 0..RetryTimes /\ IsFiniteSet(r.failed) /\ Cardinality(r.failed) \in Nat
    BY FS_CardinalityType DEF Asks, Tries
  <2>3. r.i - 1 \in Int /\ r.i - 1 <= RetryTimes
        /\ (r.i - 1 > 0 => r.failed # {} /\ Cardinality(r.failed) + (r.i - 1) <= RetryTimes + 1)
    BY <2>2, ChannelBoundsAssumption DEF Tries
  <2>4. QED
    BY <2>1, <2>2, <2>3, AgainFits
<1>3. QED
  BY <1>1, <1>2

LEMMA RequestTyped ==
  ASSUME ChannelInv
  PROVE  /\ request \in Asks /\ Tries(request)
         /\ \A d \in Channels : d = request.channel \/ d \in request.among => channel[d].is # "new"
         /\ \A d \in Channels : channel[d] \in Row /\ ability[d] \in {"none", "on", "off"}
  BY DEF ChannelInv, ChannelTyped, NewUnknown

LEMMA UsableKnown ==
  ASSUME ChannelInv, NEW c \in Channels, Usable(c)
  PROVE  channel[c].is # "new" /\ c \notin byHand.off \ byHand.excused
  BY StatusesDiffer DEF ChannelInv, HandKept, Usable

LEMMA AskBegins == ASSUME ChannelInv, Ask PROVE ChannelInv'
<1>1. /\ request.pc = "idle" /\ Free("request")
      /\ UNCHANGED <<channel, ability, job, cached, test, auto, torn, changed, byHand>>
      /\ \/ request' = [NoRequest EXCEPT !.pc = "choose"]
         \/ \E c \in Channels : Usable(c) /\ Uses(NoRequest, c, "name")
  BY DEF Ask
<1>2. CASE request' = [NoRequest EXCEPT !.pc = "choose"]
  <2> DEFINE q == [NoRequest EXCEPT !.pc = "choose"]
  <2>1. /\ q \in Asks /\ q.pc = "choose" /\ q.i = 0 /\ q.among = {}
        /\ q.failed = {} /\ q.channel = 0
    BY NoRequestTries DEF Asks
  <2> HIDE DEF q
  <2>2. AskFits(q) /\ \A c : ~ThreatOf(q, c)
    BY <2>1, ChannelIds, FS_EmptySet DEF AskFits, Tries, ThreatOf
  <2>3. request' = q
    BY <1>2 DEF q
  <2>4. QED
    BY <1>1, <2>2, <2>3, AskPlain
<1>3. CASE \E c \in Channels : Usable(c) /\ Uses(NoRequest, c, "name")
  <2>1. PICK c \in Channels : Usable(c) /\ Uses(NoRequest, c, "name")
    BY <1>3
  <2>2. NoRequest.failed = {} /\ (\A d \in Channels : d # NoRequest.channel) /\ "name" \in Bys
    BY NoRequestTries, ChannelIds DEF Bys
  <2>3. AskFits(request') /\ \A d : ThreatOf(request', d) => d = c
    BY <1>1, <2>1, <2>2, NoRequestTries, UsableKnown, UsesFits
  <2>4. \A d \in byHand.off \ byHand.excused : ~ThreatOf(request', d)
    BY <2>1, <2>3, UsableKnown
  <2>5. QED
    BY <1>1, <2>3, <2>4, AskPlain
<1>4. QED
  BY <1>1, <1>2, <1>3

LEMMA QueryStep == ASSUME ChannelInv, Query PROVE ChannelInv'
<1>1. /\ request.pc = "choose" /\ ~cached.on /\ Free("request")
      /\ request' = IF request.i = 1 THEN [request EXCEPT !.pc = "next"]
                    ELSE [request EXCEPT !.pc = "look", !.among = Candidates]
      /\ UNCHANGED <<channel, ability, job, cached, test, auto, torn, changed, byHand>>
  BY DEF Query
<1>2. Candidates \subseteq Channels /\ \A c \in Candidates : Usable(c) /\ c \notin request.failed
  BY DEF Candidates, On, TopOf
<1> DEFINE n == [request EXCEPT !.pc = "next"]
           q == [request EXCEPT !.pc = "look", !.among = Candidates]
<1>3. /\ n \in Asks /\ n.pc = "next" /\ n.i = request.i /\ n.among = request.among /\ n.by = request.by
      /\ n.failed = request.failed /\ n.channel = request.channel
  BY RequestTyped DEF Asks
<1>4. /\ q \in Asks /\ q.pc = "look" /\ q.i = request.i /\ q.among = Candidates /\ q.by = request.by
      /\ q.failed = request.failed /\ q.channel = request.channel
  BY <1>2, RequestTyped DEF Asks
<1>5. request' = n \/ request' = q
  BY <1>1
<1> HIDE DEF n, q
<1>6. AskFits(n) /\ \A c : ~ThreatOf(n, c)
  BY <1>1, <1>3, RequestTyped DEF AskFits, ThreatOf, Tries
<1>7. Tries(q)
  BY <1>2, <1>4, RequestTyped DEF Tries
<1>8. AskFits(q) /\ \A c : ~ThreatOf(q, c)
  BY <1>1, <1>2, <1>4, <1>7, RequestTyped, UsableKnown DEF AskFits, ThreatOf
<1>9. QED
  BY <1>1, <1>5, <1>6, <1>8, AskPlain

LEMMA LookStep == ASSUME ChannelInv, Look PROVE ChannelInv'
<1>1. /\ request.pc = "look"
      /\ UNCHANGED <<channel, ability, job, cached, test, auto, torn, changed, byHand>>
      /\ \/ request' = [request EXCEPT !.pc = "next"]
         \/ \E c \in request.among :
               \/ Usable(c) /\ Uses(request, c, "ability")
               \/ request' = [request EXCEPT !.among = @ \ {c}]
  BY DEF Look
<1>2. Free("request") /\ ~cached.on /\ request.among \subseteq Channels
      /\ request.among \cap request.failed = {}
  BY <1>1 DEF ChannelInv, JobsKept, ChannelTyped, Asks, Tries
<1>3. CASE request' = [request EXCEPT !.pc = "next"]
  <2> DEFINE n == [request EXCEPT !.pc = "next"]
  <2>1. /\ n \in Asks /\ n.pc = "next" /\ n.i = request.i /\ n.among = request.among /\ n.by = request.by
        /\ n.failed = request.failed /\ n.channel = request.channel /\ request' = n
    BY <1>3, RequestTyped DEF Asks
  <2> HIDE DEF n
  <2>2. AskFits(n) /\ \A c : ~ThreatOf(n, c)
    BY <1>2, <2>1, RequestTyped DEF AskFits, ThreatOf, Tries
  <2>3. QED
    BY <1>1, <2>1, <2>2, AskPlain
<1>4. ASSUME NEW c \in request.among, Usable(c), Uses(request, c, "ability") PROVE ChannelInv'
  <2>1. c \in Channels /\ c \notin request.failed /\ channel[c].is # "new" /\ c \notin byHand.off \ byHand.excused
    BY <1>2, <1>4, UsableKnown
  <2>2. AskFits(request') /\ \A d : ThreatOf(request', d) => d = c
    BY <1>2, <1>4, <2>1, RequestTyped, UsesFits DEF Bys
  <2>3. \A d \in byHand.off \ byHand.excused : ~ThreatOf(request', d)
    BY <2>1, <2>2
  <2>4. QED
    BY <1>1, <2>2, <2>3, AskPlain
<1>5. ASSUME NEW c \in request.among, request' = [request EXCEPT !.among = @ \ {c}] PROVE ChannelInv'
  <2> DEFINE n == [request EXCEPT !.among = @ \ {c}]
  <2>1. /\ n \in Asks /\ n.pc = "look" /\ n.i = request.i /\ n.among = request.among \ {c} /\ n.by = request.by
        /\ n.failed = request.failed /\ n.channel = request.channel /\ request' = n
    BY <1>1, <1>5, RequestTyped DEF Asks
  <2> HIDE DEF n
  <2>2. AskFits(n) /\ \A d : ~ThreatOf(n, d)
    BY <1>1, <1>2, <2>1, RequestTyped DEF AskFits, ThreatOf, Tries
  <2>3. QED
    BY <1>1, <2>1, <2>2, AskPlain
<1>6. QED
  BY <1>1, <1>3, <1>4, <1>5

(* Channels a history excuses, or that may not be threatened.              *)
LEMMA ExcusedHands ==
  ASSUME ChannelInv, NEW cs \in SUBSET Channels, byHand' = Excused(cs)
  PROVE  /\ byHand' \in [off : SUBSET Channels, excused : SUBSET Channels]
         /\ byHand'.off = byHand.off /\ byHand.excused \subseteq byHand'.excused
         /\ \A c \in cs : c \in byHand'.off \ byHand'.excused =>
               ~Usable(c) /\ IF cached.on THEN c \notin changed.now ELSE c \notin torn /\ ~Busy(c)
<1> DEFINE es == {c \in cs : ~Usable(c) /\ IF cached.on THEN c \in changed.now ELSE c \in torn \/ Busy(c)}
<1>1. byHand \in [off : SUBSET Channels, excused : SUBSET Channels]
  BY DEF ChannelInv, ChannelTyped
<1>2. byHand' = [byHand EXCEPT !.excused = @ \cup es]
  BY DEF Excused
<1>3. es \in SUBSET Channels
  OBVIOUS
<1> HIDE DEF es
<1>4. /\ byHand' \in [off : SUBSET Channels, excused : SUBSET Channels]
      /\ byHand'.off = byHand.off /\ byHand'.excused = byHand.excused \cup es
  BY <1>1, <1>2, <1>3
<1>5. \A c \in cs : c \notin es /\ ~Usable(c) =>
         IF cached.on THEN c \notin changed.now ELSE c \notin torn /\ ~Busy(c)
  BY DEF es
<1>6. \A c \in cs : c \in byHand.off \ byHand.excused => ~Usable(c)
  BY UsableKnown
<1>7. QED
  BY <1>4, <1>5, <1>6

LEMMA NextQueryStep == ASSUME ChannelInv, NextQuery PROVE ChannelInv'
<1> DEFINE cs == TopOf(On \ TopOf(On))
           n == [request EXCEPT !.pc = "nextlook", !.among = cs]
<1>1. /\ request.pc = "next" /\ byHand' = Excused(cs)
      /\ IF cs = {} THEN request' = NoRequest ELSE request' = n
      /\ UNCHANGED <<channel, ability, job, cached, test, auto, torn, changed>>
  BY DEF NextQuery, Idles
<1>2. cs \in SUBSET Channels /\ \A c \in cs : ability[c] = "on"
  BY DEF TopOf, On
<1>3. Free("request") /\ ~cached.on
  BY <1>1 DEF ChannelInv, JobsKept
<1>4. /\ n \in Asks /\ n.pc = "nextlook" /\ n.i = request.i /\ n.among = cs /\ n.by = request.by
      /\ n.failed = request.failed /\ n.channel = request.channel
  BY <1>2, RequestTyped DEF Asks
<1>5. \A c \in cs : channel[c].is # "new"
  BY <1>2 DEF ChannelInv, NewUnknown
<1> HIDE DEF cs, n
<1>6. AskFits(n)
  BY <1>3, <1>4, <1>5, RequestTyped DEF AskFits, Tries
<1>7. \A c \in byHand'.off \ byHand'.excused : ~ThreatOf(n, c)
  <2>1. SUFFICES ASSUME NEW c \in cs, c \in byHand'.off \ byHand'.excused PROVE FALSE
    BY <1>4 DEF ThreatOf
  <2>0. byHand' = Excused(cs)
    BY <1>1
  <2>2. ~Usable(c) /\ c \notin torn /\ ~Busy(c) /\ c \in Channels /\ ability[c] = "on"
    BY <1>2, <1>3, <2>0, <2>1, ExcusedHands
  <2>3. Follows(channel[c], ability[c], channel[c].status)
    BY <2>2, BusyIsJobOn DEF ChannelInv, AbilitiesFit, AbilityFits
  <2>4. QED
    BY <2>2, <2>3 DEF Follows, Usable
<1>8. /\ byHand' \in [off : SUBSET Channels, excused : SUBSET Channels]
      /\ byHand'.off = byHand.off /\ byHand.excused \subseteq byHand'.excused
  BY <1>1, <1>2, ExcusedHands
<1>9. CASE request' = n
  BY <1>1, <1>6, <1>7, <1>8, <1>9, AskStep
<1>10. CASE request' = NoRequest
  BY <1>1, <1>8, <1>10, IdleFits, AskStep
<1>11. QED
  BY <1>1, <1>9, <1>10

LEMMA NextLookStep == ASSUME ChannelInv, NextLook PROVE ChannelInv'
<1>1. PICK c \in request.among :
        /\ request.pc = "nextlook"
        /\ UNCHANGED <<channel, ability, job, cached, test, auto, torn, changed, byHand>>
        /\ IF channel[c].is = "here" THEN Uses(request, c, "next") ELSE request' = NoRequest
  BY DEF NextLook, Idles
<1>2. Free("request") /\ c \in Channels /\ c \notin byHand.off \ byHand.excused /\ channel[c].is # "new"
  BY <1>1, RequestTyped DEF ChannelInv, JobsKept, ChannelTyped, Asks, HandKept, Threatens
<1>3. CASE Uses(request, c, "next")
  <2>1. AskFits(request') /\ \A d : ThreatOf(request', d) => d = c
    BY <1>2, <1>3, RequestTyped, UsesFits DEF Bys
  <2>2. \A d \in byHand.off \ byHand.excused : ~ThreatOf(request', d)
    BY <1>2, <2>1
  <2>3. QED
    BY <1>1, <2>1, <2>2, AskPlain
<1>4. CASE request' = NoRequest
  BY <1>1, <1>4, IdleFits, AskPlain
<1>5. QED
  BY <1>1, <1>3, <1>4

LEMMA FromMemoryStep == ASSUME ChannelInv, FromMemory PROVE ChannelInv'
<1>1. /\ request.pc = "choose" /\ cached.on /\ Free("request")
      /\ UNCHANGED <<channel, ability, job, cached, test, auto, torn, changed>>
      /\ \/ \E c \in cached.now : c \notin request.failed /\ Uses(request, c, "memory") /\ byHand' = Excused({c})
         \/ request' = NoRequest /\ UNCHANGED byHand
  BY DEF FromMemory, NotExcluded, Idles
<1>2. CASE request' = NoRequest /\ UNCHANGED byHand
  BY <1>1, <1>2, IdleFits, AskPlain
<1>3. ASSUME NEW c \in cached.now, c \notin request.failed, Uses(request, c, "memory"), byHand' = Excused({c})
      PROVE  ChannelInv'
  <2>1. c \in Channels /\ {c} \in SUBSET Channels /\ channel[c].is # "new"
    BY DEF ChannelInv, ChannelTyped, NewUnknown
  <2>2. AskFits(request') /\ \A d : ThreatOf(request', d) => d = c
    BY <1>1, <1>3, <2>1, RequestTyped, UsesFits DEF Bys
  <2>3. Usable(c) \/ c \in changed.now
    BY <1>1 DEF ChannelInv, CacheFresh
  <2>4. c \notin byHand'.off \ byHand'.excused
    BY <1>1, <1>3, <2>1, <2>3, ExcusedHands
  <2>5. \A d \in byHand'.off \ byHand'.excused : ~ThreatOf(request', d)
    BY <2>2, <2>4
  <2>6. /\ byHand' \in [off : SUBSET Channels, excused : SUBSET Channels]
        /\ byHand'.off = byHand.off /\ byHand.excused \subseteq byHand'.excused
    BY <1>3, <2>1, ExcusedHands
  <2>7. QED
    BY <1>1, <2>2, <2>5, <2>6, AskStep
<1>4. QED
  BY <1>1, <1>2, <1>3

LEMMA SucceedStep == ASSUME ChannelInv, Succeed PROVE ChannelInv'
  BY IdleFits, AskPlain DEF Succeed, Idles

-----------------------------------------------------------------------------
(* The beginning of an automatic change, and the tests.                    *)

LEMMA MarkBegun ==
  ASSUME ChannelInv, NEW w \in {"request", "test", "auto"}, Free(w), NEW c \in Channels, NEW s \in 1..3,
         UNCHANGED <<channel, ability>>, StartMark(w, c, s) \/ UNCHANGED <<job, torn>>
  PROVE  /\ job' \in [Workers -> Job] /\ torn' \subseteq Channels /\ AbilitiesFit'
         /\ \A v \in Workers : v # w => job'[v] = job[v]
         /\ job'[w] = job[w] \/ (job'[w].pc = "mark" /\ job'[w].channel = c /\ job'[w].status = s)
<1> DEFINE j == [pc |-> "mark", channel |-> c, status |-> s]
<1>1. w \in Workers /\ torn \subseteq Channels /\ job \in [Workers -> Job]
  BY ChannelIds DEF ChannelInv, ChannelTyped
<1>2. CASE UNCHANGED <<job, torn>>
  <2>1. AbilitiesFit'
    BY <1>2, FitsStay DEF ChannelInv
  <2>2. QED
    BY <1>1, <1>2, <2>1
<1>3. CASE StartMark(w, c, s)
  <2>1. job' = [job EXCEPT ![w] = j] /\ torn' = IF Busy(c) THEN torn \cup {c} ELSE torn
    BY <1>3 DEF StartMark, Does, Torn
  <2>2. j \in Job /\ j.pc = "mark" /\ j.channel = c /\ j.status = s
    BY DEF Job, JobPcs
  <2>3. /\ channel[c] \in Row /\ ability[c] \in {"none", "on", "off"}
        /\ channel = [channel EXCEPT ![c] = channel[c]] /\ ability = [ability EXCEPT ![c] = ability[c]]
    BY RowTyped
  <2> HIDE DEF j
  <2>4. Turns(w, c, j, channel[c], ability[c]) /\ OnOne(w, c, j)
    BY <2>1, <2>2, <2>3 DEF Turns, OnOne, Free
  <2>5. c \notin torn' => c \notin torn /\ \A v \in Workers : ~JobOn(v, c)
    BY <2>1, BusyIsJobOn
  <2>6. c \notin torn' => Follows(channel[c], ability[c], channel[c].status)
    BY <2>5 DEF ChannelInv, AbilitiesFit, AbilityFits
  <2>7. TornKept(w, c, j, channel[c], ability[c])
    <3>1. torn' \subseteq Channels /\ torn \ {c} \subseteq torn'
      BY <1>1, <2>1
    <3>2. c \notin torn' => Fits(j, channel[c], ability[c])
      BY <2>2, <2>6 DEF Fits
    <3>3. QED
      BY <2>2, <2>5, <3>1, <3>2 DEF TornKept
  <2>8. ChannelTyped /\ AbilitiesFit
    BY DEF ChannelInv
  <2>9. AbilitiesFit'
    BY <1>1, <2>2, <2>3, <2>4, <2>7, <2>8, OneJobFits
  <2>10. job' \in [Workers -> Job] /\ job'[w] = j /\ \A v \in Workers : v # w => job'[v] = job[v]
    BY <1>1, <2>1, <2>2, <2>8, JobMoves
  <2>11. QED
    BY <2>2, <2>7, <2>9, <2>10 DEF TornKept
<1>4. QED
  BY <1>2, <1>3

TestTypes == [running : BOOLEAN, pc : {"idle", "test", "stuck"}, status : [Channels -> 0..3]]

(* Worker w has a channel c, and begins to change it or leaves it.         *)
LEMMA MarkStep ==
  ASSUME ChannelInv, NEW w \in {"request", "test", "auto"}, Free(w), NEW c \in Channels, NEW s \in 1..3,
         channel[c].is # "new", Threatens(c),
         StartMark(w, c, s) \/ UNCHANGED <<job, torn>>,
         UNCHANGED <<channel, ability, cached, changed, byHand>>,
         NEW r, request' = r, AskFits(r), \A d : ~ThreatOf(r, d) \/ r = request,
         r.pc \in {"look", "next", "nextlook", "relay"} => w # "request",
         test' \in TestTypes, test'.running <=> test'.pc # "idle",
         \A d \in Channels : test'.status[d] \in {test.status[d], 0},
         auto' = 0 \/ (auto' = auto /\ w # "auto")
  PROVE  ChannelInv'
<1>1. /\ job' \in [Workers -> Job] /\ torn' \subseteq Channels /\ AbilitiesFit'
      /\ \A v \in Workers : v # w => job'[v] = job[v]
      /\ job'[w] = job[w] \/ (job'[w].pc = "mark" /\ job'[w].channel = c /\ job'[w].status = s)
  BY MarkBegun
<1>2. ChannelTyped'
  BY <1>1 DEF ChannelInv, ChannelTyped, AskFits, TestTypes
<1>3. Tries(request)'
  BY TriesPrimed DEF AskFits
<1>4. w \in Workers /\ w \notin Admins /\ \A v \in {"request", "test", "auto"} : v \in Workers
  BY ChannelIds
<1>5. JobsKept'
  <2>1. JobsKept
    BY DEF ChannelInv
  <2>2. \A v \in Workers : job'[v].pc # "idle" => job'[v].channel \in Channels
    BY <1>1, <2>1 DEF JobsKept
  <2>3. \A a \in Admins : job'[a].pc \notin {"mark", "row"}
    BY <1>1, <1>4, <2>1, ChannelIds DEF JobsKept
  <2>4. \A v \in {"request", "test", "auto"} : job'[v].pc \in {"idle", "mark", "row"}
    BY <1>1, <1>4, <2>1 DEF JobsKept
  <2>5. \A v \in Workers : job'[v].pc \in {"mark", "row"} => job'[v].status \in 1..3
    BY <1>1, <2>1 DEF JobsKept
  <2>6. r.pc \in {"look", "next", "nextlook", "relay"} => Free("request")'
    BY <1>1, <1>4 DEF AskFits, Free
  <2>7. auto' # 0 => Free("auto")'
    BY <1>1, <1>4, <2>1 DEF JobsKept, Free
  <2>8. QED
    BY <2>2, <2>3, <2>4, <2>5, <2>6, <2>7 DEF JobsKept, AskFits
<1>6. NewUnknown'
  <2>1. SUFFICES ASSUME NEW d \in Channels, channel[d].is = "new"
                 PROVE  /\ channel'[d].status = Enabled /\ (\A v \in Workers : ~JobOn(v, d)') /\ ability'[d] = "none"
                        /\ d \notin cached'.now /\ d \notin cached'.read /\ d # request'.channel /\ d \notin request'.among
                        /\ test'.status[d] = 0 /\ auto' # d /\ d \notin byHand'.off
    BY DEF NewUnknown, Enabled, Busy, Free, JobOn
  <2>2. NewUnknown /\ \A v \in Workers : ~JobOn(v, d)
    BY <2>1, BusyIsJobOn DEF ChannelInv, NewUnknown
  <2>3. \A v \in Workers : ~JobOn(v, d)'
    BY <1>1, <2>1, <2>2 DEF JobOn
  <2>4. d # r.channel /\ d \notin r.among
    BY <2>1 DEF AskFits
  <2>5. d # 0
    BY ChannelIds
  <2>6. QED
    BY <2>1, <2>2, <2>3, <2>4, <2>5 DEF NewUnknown
<1>7. CacheFresh'
  BY FreshUntouched DEF ChannelInv
<1>8. HandKept'
  <2>1. SUFFICES ASSUME NEW d \in byHand.off \ byHand.excused
                 PROVE  ~Threatens(d)' /\ (channel'[d].is = "here" => channel'[d].status = ManuallyDisabled)
    BY DEF HandKept, ManuallyDisabled
  <2>2. d \in Channels /\ ~Threatens(d) /\ (channel[d].is = "here" => channel[d].status = ManuallyDisabled)
    BY DEF ChannelInv, HandKept, ChannelTyped
  <2>3. d # c /\ d # 0
    BY <2>2, ChannelIds
  <2>4. \A v \in {"request", "test", "auto"} : JobOn(v, d)' => JobOn(v, d)
    BY <1>1, <1>4, <2>3 DEF JobOn
  <2>5. ~ThreatOf(r, d)
    BY <2>2 DEF Threatens, ThreatOf
  <2>6. test'.status[d] \notin {Enabled, AutoDisabled} /\ auto' # d
    BY <2>2, <2>3 DEF Threatens, Enabled, AutoDisabled
  <2>7. ~Threatens(d)'
    BY <2>2, <2>4, <2>5, <2>6 DEF Threatens, ThreatOf, Enabled, AutoDisabled
  <2>8. QED
    BY <2>2, <2>7
<1>9. QED
  BY <1>1, <1>2, <1>3, <1>5, <1>6, <1>7, <1>8 DEF ChannelInv

LEMMA TestKept ==
  ASSUME ChannelInv
  PROVE  /\ test \in TestTypes /\ (test.running <=> test.pc # "idle")
         /\ \A c \in Channels : channel[c].is = "new" => test.status[c] = 0 /\ auto # c /\ c # request.channel
         /\ auto \in Channels \cup {0}
         /\ auto # 0 => Free("auto")
         /\ request.pc = "relay" => Free("request") /\ request.channel \in Channels
  BY DEF ChannelInv, ChannelTyped, JobsKept, NewUnknown, TestTypes, Tries

(* Tests that only read, or leave a channel.                               *)
LEMMA TestRestStep ==
  ASSUME ChannelInv, UNCHANGED <<channel, ability, job, cached, request, torn, changed, byHand>>,
         test' \in TestTypes, test'.running <=> test'.pc # "idle",
         auto' \in Channels \cup {0}, auto' # 0 => Free("auto"),
         \A c \in Channels : channel[c].is = "new" => test'.status[c] = 0 /\ auto' # c,
         \A c \in byHand.off \ byHand.excused : test'.status[c] \notin {Enabled, AutoDisabled} /\ auto' # c
  PROVE  ChannelInv'
<1>1. ChannelTyped'
  BY DEF ChannelInv, ChannelTyped, TestTypes
<1>2. Tries(request)'
  BY TriesPrimed DEF ChannelInv
<1>3. JobsKept'
  BY DEF ChannelInv, JobsKept, Free
<1>4. NewUnknown'
  BY DEF ChannelInv, NewUnknown, Busy, Free, Enabled
<1>5. AbilitiesFit'
  BY FitsStay DEF ChannelInv
<1>6. CacheFresh'
  BY FreshUntouched DEF ChannelInv
<1>7. HandKept'
  BY DEF ChannelInv, HandKept, Threatens, JobOn, Enabled, AutoDisabled, ManuallyDisabled
<1>8. QED
  BY <1>1, <1>2, <1>3, <1>4, <1>5, <1>6, <1>7 DEF ChannelInv

LEMMA HandsTested ==
  ASSUME ChannelInv, NEW c \in byHand.off \ byHand.excused
  PROVE  /\ c \in Channels /\ Statuses[c] \notin {Enabled, AutoDisabled}
         /\ test.status[c] \notin {Enabled, AutoDisabled} /\ auto # c
<1>1. c \in Channels /\ ~Threatens(c) /\ (channel[c].is = "here" => channel[c].status = ManuallyDisabled)
  BY DEF ChannelInv, HandKept, ChannelTyped
<1>2. Statuses[c] = ManuallyDisabled \/ Statuses[c] = 0
  BY <1>1 DEF Statuses
<1>3. QED
  BY <1>1, <1>2 DEF Threatens, ManuallyDisabled, Enabled, AutoDisabled

LEMMA TestAllStep == ASSUME ChannelInv, TestAll PROVE ChannelInv'
<1>1. /\ test' = [running |-> TRUE, pc |-> "test", status |-> Statuses]
         \/ test' = [test EXCEPT !.running = TRUE, !.pc = "stuck"]
      /\ UNCHANGED <<channel, ability, job, cached, request, auto, torn, changed, byHand>>
  BY DEF TestAll
<1>2. Statuses \in [Channels -> 0..3] /\ \A c \in Channels : channel[c].is = "new" => Statuses[c] = 0
  BY RequestTyped DEF Statuses, Row
<1>3. test'.status = Statuses \/ test'.status = test.status
  <2>1. CASE test' = [running |-> TRUE, pc |-> "test", status |-> Statuses]
    BY <2>1
  <2>2. CASE test' = [test EXCEPT !.running = TRUE, !.pc = "stuck"]
    BY <2>2, TestKept DEF TestTypes
  <2>3. QED
    BY <1>1, <2>1, <2>2
<1>4. test' \in TestTypes /\ (test'.running <=> test'.pc # "idle")
  <2>1. CASE test' = [running |-> TRUE, pc |-> "test", status |-> Statuses]
    BY <1>2, <2>1 DEF TestTypes
  <2>2. CASE test' = [test EXCEPT !.running = TRUE, !.pc = "stuck"]
    BY <2>2, TestKept DEF TestTypes
  <2>3. QED
    BY <1>1, <2>1, <2>2
<1>5. \A c \in Channels : channel[c].is = "new" => test'.status[c] = 0 /\ auto' # c
  BY <1>1, <1>2, <1>3, TestKept
<1>6. \A c \in byHand.off \ byHand.excused : test'.status[c] \notin {Enabled, AutoDisabled} /\ auto' # c
  BY <1>1, <1>3, HandsTested
<1>7. QED
  BY <1>1, <1>4, <1>5, <1>6, TestKept, TestRestStep

LEMMA TestsEndStep == ASSUME ChannelInv, TestsEnd PROVE ChannelInv'
<1>1. /\ test' = [test EXCEPT !.pc = "idle", !.running = FALSE]
      /\ UNCHANGED <<channel, ability, job, cached, request, auto, torn, changed, byHand>>
  BY DEF TestsEnd, TestsOver
<1>2. test' \in TestTypes /\ (test'.running <=> test'.pc # "idle") /\ test'.status = test.status
  BY <1>1, TestKept DEF TestTypes
<1>3. QED
  BY <1>1, <1>2, TestKept, HandsTested, TestRestStep

LEMMA AutoTestStep == ASSUME ChannelInv, AutoTest PROVE ChannelInv'
<1>1. PICK c \in Channels : Statuses[c] = AutoDisabled /\ auto' = c
  BY DEF AutoTest
<1>2. Free("auto") /\ UNCHANGED <<channel, ability, job, cached, request, test, torn, changed, byHand>>
  BY DEF AutoTest
<1>3. channel[c].is # "new"
  BY <1>1 DEF Statuses, AutoDisabled
<1>4. \A d \in byHand.off \ byHand.excused : test'.status[d] \notin {Enabled, AutoDisabled} /\ auto' # d
  BY <1>1, <1>2, HandsTested
<1>5. QED
  BY <1>1, <1>2, <1>3, <1>4, TestKept, TestRestStep

LEMMA FailStep == ASSUME ChannelInv, Fail PROVE ChannelInv'
<1> DEFINE c == request.channel
           r == [request EXCEPT !.failed = @ \cup {c}]
<1>1. /\ request.pc = "relay" /\ UNCHANGED <<channel, ability, cached, test, auto, changed, byHand>>
      /\ IF request.failed = {} THEN \E i \in {0, RetryTimes} : request' = TriesAgain(r, i)
         ELSE request' = TriesAgain(r, request.i - 1)
      /\ StartMark("request", c, AutoDisabled) \/ UNCHANGED <<job, torn>>
  BY DEF Fail
<1>2. c \in Channels /\ Free("request") /\ channel[c].is # "new" /\ Threatens(c)
  BY <1>1, TestKept DEF Threatens
<1>3. /\ request.i \in 0..RetryTimes /\ IsFiniteSet(request.failed) /\ request.failed \subseteq Channels
      /\ request.failed = {} <=> request.i = 0
      /\ request.i > 0 => Cardinality(request.failed) + request.i <= RetryTimes + 1
  BY RequestTyped DEF Asks, Tries
<1>4. /\ r \in Asks /\ r.channel = c /\ r.failed = request.failed \cup {c}
  BY <1>2, RequestTyped DEF Asks
<1>5. IsFiniteSet(r.failed) /\ Cardinality(r.failed) \in Nat /\ Cardinality(request.failed) \in Nat
      /\ Cardinality(r.failed) <= Cardinality(request.failed) + 1 /\ r.failed # {}
  BY <1>3, <1>4, FS_AddElement, FS_CardinalityType
<1>6. PICK i : /\ request' = TriesAgain(r, i) /\ i \in Int /\ i <= RetryTimes
               /\ i > 0 => Cardinality(r.failed) + i <= RetryTimes + 1
  <2>1. CASE request.failed = {}
    <3>1. Cardinality(r.failed) <= 1
      BY <1>5, <2>1, FS_EmptySet
    <3>2. PICK i \in {0, RetryTimes} : request' = TriesAgain(r, i)
      BY <1>1, <2>1
    <3>3. i \in Int /\ i <= RetryTimes /\ (i > 0 => Cardinality(r.failed) + i <= RetryTimes + 1)
      BY <1>5, <3>1, ChannelBoundsAssumption
    <3>4. QED
      BY <3>2, <3>3
  <2>2. CASE request.failed # {}
    <3>1. request.i > 0
      BY <1>3, <2>2, ChannelBoundsAssumption
    <3>2. request.i - 1 \in Int /\ request.i - 1 <= RetryTimes
          /\ Cardinality(r.failed) + (request.i - 1) <= RetryTimes + 1
      BY <1>3, <1>5, <3>1, ChannelBoundsAssumption
    <3>3. QED
      BY <1>1, <2>2, <3>2
  <2>3. QED
    BY <2>1, <2>2
<1> DEFINE q == TriesAgain(r, i)
<1>7. \A d \in Channels : d = r.channel => channel[d].is # "new"
  BY <1>2, <1>4
<1> HIDE DEF r
<1>8. AskFits(q) /\ \A d : ~ThreatOf(q, d)
  BY <1>4, <1>5, <1>6, <1>7, AgainFits
<1>9. q.pc \notin {"look", "next", "nextlook", "relay"}
  <2>1. NoRequest.pc = "idle"
    BY NoRequestTries
  <2>2. i > 0 => q.pc = "choose"
    BY <1>4 DEF TriesAgain, Asks
  <2>3. ~(i > 0) => q.pc = "idle"
    BY <2>1 DEF TriesAgain
  <2>4. QED
    BY <2>2, <2>3
<1>10. request' = q /\ test' \in TestTypes /\ (test'.running <=> test'.pc # "idle")
       /\ \A d \in Channels : test'.status[d] \in {test.status[d], 0}
  BY <1>1, <1>6, TestKept
<1>11. auto' = auto /\ AutoDisabled \in 1..3
  BY <1>1, StatusesDiffer
<1> HIDE DEF q, c
<1>12. QED
  BY <1>1, <1>2, <1>8, <1>9, <1>10, <1>11, MarkStep

LEMMA TestOneStep == ASSUME ChannelInv, TestOne PROVE ChannelInv'
<1>1. PICK c \in Channels :
        /\ test.status[c] # 0
        /\ test' = [test EXCEPT !.status[c] = 0]
        /\ \/ Tested(test.status[c]) /\ StartMark("test", c, AutoDisabled)
           \/ Tested(test.status[c]) /\ StartMark("test", c, Enabled)
           \/ UNCHANGED <<job, torn>>
  BY DEF TestOne
<1>2. /\ Free("test") /\ UNCHANGED <<channel, ability, cached, request, auto, changed, byHand>>
      /\ test.pc = "test"
  BY DEF TestOne
<1>3. /\ test' \in TestTypes /\ (test'.running <=> test'.pc # "idle")
      /\ \A d \in Channels : test'.status[d] \in {test.status[d], 0}
  BY <1>1, TestKept DEF TestTypes
<1>4. channel[c].is # "new"
  BY <1>1, TestKept
<1>5. AskFits(request) /\ Enabled \in 1..3 /\ AutoDisabled \in 1..3 /\ auto' = auto
  BY <1>2, RequestFits, StatusesDiffer
<1>6. CASE Tested(test.status[c])
  <2>1. Threatens(c)
    BY <1>6 DEF Tested, Threatens
  <2>2. \/ StartMark("test", c, AutoDisabled) \/ UNCHANGED <<job, torn>>
        \/ StartMark("test", c, Enabled) \/ UNCHANGED <<job, torn>>
    BY <1>1
  <2>3. CASE StartMark("test", c, AutoDisabled) \/ UNCHANGED <<job, torn>>
    BY <1>2, <1>3, <1>4, <1>5, <2>1, <2>3, MarkStep
  <2>4. CASE StartMark("test", c, Enabled) \/ UNCHANGED <<job, torn>>
    BY <1>2, <1>3, <1>4, <1>5, <2>1, <2>4, MarkStep
  <2>5. QED
    BY <2>2, <2>3, <2>4
<1>7. CASE ~Tested(test.status[c])
  <2>1. UNCHANGED <<job, torn>>
    BY <1>1, <1>7
  <2>2. \A d \in byHand.off \ byHand.excused : test'.status[d] \notin {Enabled, AutoDisabled} /\ auto' # d
    <3>1. 0 \notin {Enabled, AutoDisabled}
      BY DEF Enabled, AutoDisabled
    <3>2. QED
      BY <1>2, <1>3, <3>1, HandsTested
  <2>3. \A d \in Channels : channel[d].is = "new" => test'.status[d] = 0 /\ auto' # d
    BY <1>2, <1>3, TestKept
  <2>4. auto' \in Channels \cup {0} /\ (auto' # 0 => Free("auto"))
    BY <1>2, TestKept
  <2>5. QED
    BY <1>2, <1>3, <2>1, <2>2, <2>3, <2>4, TestRestStep
<1>8. QED
  BY <1>6, <1>7

LEMMA AutoResultStep == ASSUME ChannelInv, AutoResult PROVE ChannelInv'
<1>1. /\ auto # 0 /\ auto' = 0
      /\ StartMark("auto", auto, Enabled) \/ UNCHANGED <<job, torn>>
      /\ UNCHANGED <<channel, ability, cached, request, test, changed, byHand>>
  BY DEF AutoResult
<1>2. auto \in Channels /\ Free("auto") /\ channel[auto].is # "new" /\ Threatens(auto)
  BY <1>1, TestKept DEF Threatens
<1>3. /\ test' \in TestTypes /\ (test'.running <=> test'.pc # "idle")
      /\ \A d \in Channels : test'.status[d] \in {test.status[d], 0}
  BY <1>1, TestKept
<1>4. AskFits(request) /\ Enabled \in 1..3
  BY RequestFits, StatusesDiffer
<1>5. QED
  BY <1>1, <1>2, <1>3, <1>4, MarkStep

-----------------------------------------------------------------------------
LEMMA ChannelInitInv == ASSUME ChannelInit PROVE ChannelInv
<1>1. PICK new \in SUBSET New, on \in CacheModes :
        /\ channel = [c \in Channels |-> [is |-> IF c \in new THEN "new" ELSE "here", status |-> Enabled]]
        /\ ability = [c \in Channels |-> IF c \in new THEN "none" ELSE "on"]
        /\ cached = [on |-> on, now |-> Channels \ new, read |-> {}, pc |-> "idle"]
  BY DEF ChannelInit
<1>2. /\ job = [w \in Workers |-> NoJob] /\ request = NoRequest
      /\ test = [running |-> FALSE, pc |-> "idle", status |-> [c \in Channels |-> 0]]
      /\ auto = 0 /\ torn = {} /\ changed = [now |-> {}, next |-> {}] /\ byHand = [off |-> {}, excused |-> {}]
  BY DEF ChannelInit
<1>3. on \in BOOLEAN /\ Enabled \in 1..3 /\ \A c \in Channels : c # 0
  BY SentAssumption, StatusesDiffer, ChannelIds
<1>4. \A w \in Workers : job[w] = NoJob /\ job[w].pc = "idle"
  BY <1>2, NoJobTyped
<1>5. /\ channel \in [Channels -> Row] /\ ability \in [Channels -> {"none", "on", "off"}]
      /\ \A c \in Channels : /\ channel[c].status = Enabled
                             /\ channel[c].is = IF c \in new THEN "new" ELSE "here"
                             /\ ability[c] = IF c \in new THEN "none" ELSE "on"
  BY <1>1, <1>3 DEF Row
<1>6. cached \in [on : BOOLEAN, now : SUBSET Channels, read : SUBSET Channels, pc : {"idle", "swap"}]
  BY <1>1, <1>3
<1>7. ChannelTyped
  BY <1>2, <1>5, <1>6, NoJobTyped, NoRequestTries DEF ChannelTyped
<1>8. JobsKept
  BY <1>2, <1>4, NoRequestTries, ChannelIds DEF JobsKept, Free
<1>9. NewUnknown
  BY <1>1, <1>2, <1>3, <1>4, <1>5, NoRequestTries DEF NewUnknown, Busy, Free
<1>10. AbilitiesFit
  BY <1>4, <1>5 DEF AbilitiesFit, AbilityFits, JobOn, Follows
<1>11. CacheFresh
  BY <1>1, <1>2, <1>5 DEF CacheFresh, Usable
<1>12. HandKept
  BY <1>2 DEF HandKept
<1>13. QED
  BY <1>2, <1>7, <1>8, <1>9, <1>10, <1>11, <1>12, NoRequestTries DEF ChannelInv

LEMMA ChannelStutters == ASSUME ChannelInv, UNCHANGED channelVars PROVE ChannelInv'
<1>1. UNCHANGED <<channel, ability, job, cached, request, test, auto, torn, changed, byHand>>
  BY DEF channelVars
<1>2. byHand \in [off : SUBSET Channels, excused : SUBSET Channels]
      /\ \A c \in byHand.off \ byHand.excused : ~ThreatOf(request, c)
  BY DEF ChannelInv, ChannelTyped, HandKept, Threatens, ThreatOf
<1>3. QED
  BY <1>1, <1>2, RequestFits, AskPlain

LEMMA ChannelStep == ASSUME ChannelInv, [ChannelNext]_channelVars PROVE ChannelInv'
<1>1. CASE UNCHANGED channelVars
  BY <1>1, ChannelStutters
<1>2. ASSUME NEW a \in Admins, EditRow(a) \/ EditReread(a) \/ Drop(a) \/ AddAbilities(a) \/ InsertRow(a) \/ DeleteRow(a)
      PROVE  ChannelInv'
  BY <1>2, EditRowStep, EditRereadStep, DropStep, AddAbilitiesStep, InsertRowStep, DeleteRowStep
<1>3. CASE DeleteBatch \/ DeleteDisabled
  BY <1>3, DeleteBatchStep, DeleteDisabledStep
<1>4. ASSUME NEW w \in Workers, MarkAbilities(w) \/ MarkRow(w) PROVE ChannelInv'
  BY <1>4, MarkAbilitiesStep, MarkRowStep
<1>5. CASE SyncRead \/ SyncSwap
  BY <1>5, SyncStep
<1>6. CASE Ask \/ Query \/ Look \/ NextQuery \/ NextLook \/ FromMemory \/ Succeed \/ Fail
  BY <1>6, AskBegins, QueryStep, LookStep, NextQueryStep, NextLookStep, FromMemoryStep, SucceedStep, FailStep
<1>7. CASE TestAll \/ TestOne \/ TestsEnd \/ AutoTest \/ AutoResult
  BY <1>7, TestAllStep, TestOneStep, TestsEndStep, AutoTestStep, AutoResultStep
<1>8. QED
  BY <1>1, <1>2, <1>3, <1>4, <1>5, <1>6, <1>7 DEF ChannelNext

LEMMA ChannelHolds == ASSUME ChannelInv PROVE ChannelTypeOK /\ StatusKept /\ TriedElsewhere
<1>1. ChannelTypeOK
  BY DEF ChannelInv, ChannelTyped, ChannelTypeOK, Row, Asks
<1>2. AbilitiesFollow
  <2>1. SUFFICES ASSUME NEW c \in Channels, ~Busy(c), c \notin torn PROVE ability[c] = "on" <=> Usable(c)
    BY DEF AbilitiesFollow
  <2>2. Follows(channel[c], ability[c], channel[c].status)
    BY <2>1, BusyIsJobOn DEF ChannelInv, AbilitiesFit, AbilityFits
  <2>3. QED
    BY <2>2 DEF Follows, Usable
<1>3. ManualStays
  BY DEF ChannelInv, HandKept, ManualStays
<1>4. TestsMayStart
  BY DEF ChannelInv, ChannelTyped, JobsKept, TestsMayStart
<1>5. TriedElsewhere
  <2>1. IsFiniteSet(request.failed) /\ request.i \in 0..RetryTimes /\ Tries(request)
    BY DEF ChannelInv, ChannelTyped, Asks, Tries
  <2>2. Cardinality(request.failed) <= RetryTimes
    <3>1. CASE request.failed = {}
      BY <3>1, FS_EmptySet, ChannelBoundsAssumption
    <3>2. CASE request.failed # {}
      BY <2>1, <3>2, FS_CardinalityType, ChannelBoundsAssumption DEF Tries
    <3>3. QED
      BY <3>1, <3>2
  <2>3. QED
    BY <2>1, <2>2 DEF Tries, TriedElsewhere
<1>6. QED
  BY <1>1, <1>2, <1>3, <1>4, <1>5 DEF StatusKept

(* A channel disabled by hand stays so, the abilities say what the rows    *)
(* say wherever no two jobs met and no statement failed, and tests may     *)
(* start again (Update, UpdateChannelStatusById, testAllChannels).         *)
THEOREM StatusStays == ChannelSpec => [](ChannelTypeOK /\ StatusKept)
<1>1. ChannelInit => ChannelInv
  BY ChannelInitInv
<1>2. ChannelInv /\ [ChannelNext]_channelVars => ChannelInv'
  BY ChannelStep
<1>3. ChannelInv => ChannelTypeOK /\ StatusKept
  BY ChannelHolds
<1>4. QED
  BY <1>1, <1>2, <1>3, PTL DEF ChannelSpec

(* A retry goes to a channel that has not failed for the request, and      *)
(* there are at most RetryTimes of them (Relay).                           *)
THEOREM RetriesElsewhere == ChannelSpec => []TriedElsewhere
<1>1. ChannelInit => ChannelInv
  BY ChannelInitInv
<1>2. ChannelInv /\ [ChannelNext]_channelVars => ChannelInv'
  BY ChannelStep
<1>3. ChannelInv => TriedElsewhere
  BY ChannelHolds
<1>4. QED
  BY <1>1, <1>2, <1>3, PTL DEF ChannelSpec

-----------------------------------------------------------------------------
(* The limits on rates (RateLimit).                                        *)

HandlerPcs == {"idle", "push", "compare", "turn", "trim", "count"}
Times == 0..MaxClock

\* How many of the handlers f are at pc.
ManyOf(f, pc) == Cardinality({h \in Handlers : f[h] = pc})

\* As many handlers run at once as no overlap allows.
SlotsOf(st) == IF st = {} THEN 1 ELSE Cardinality(Handlers)

\* The lengths of the list and of the admissions within the duration, and the
\* handlers at each command: one about to push found room, one about to turn an
\* oldest time that is past the duration.
RedisBounds(list, admissions, push, compare, turn, trim, slots) ==
    /\ push + compare + turn + trim <= slots
    /\ list < MaxRequestNum => compare = 0 /\ turn = 0 /\ trim = 0 /\ admissions <= list
    /\ list >= MaxRequestNum => list + push <= MaxRequestNum + slots - 1 + trim
    /\ admissions + turn + push <= MaxRequestNum + 2 * (slots - 1)

\* The list holds the newest admissions, the newest first.
RedisHolds(q, r) == \A k \in 1..Len(q) : k <= Len(r) => q[k] = r[Len(r) - k + 1]

\* Nobody who turned the list without an Expire is under way, or no admission is
\* younger than the last Expire.
TouchedLate(f, r, at) == ManyOf(f, "trim") = 0 => \A i \in 1..Len(r) : r[i] <= at

BoundsOf(q, r, f, slots) ==
    RedisBounds(Len(q), Len(r), ManyOf(f, "push"), ManyOf(f, "compare"),
                ManyOf(f, "turn"), ManyOf(f, "trim"), slots)

RedisFits(q, r, f, st, at) ==
    BoundsOf(q, r, f, SlotsOf(st)) /\ RedisHolds(q, r) /\ TouchedLate(f, r, at)
RedisKept == RedisFits(queue, recent, handler, strain, touched)

\* The slice holds them, the oldest first.
MemoryHolds(q, r) == \A k \in 1..Len(r) : q[Len(q) - Len(r) + k] = r[k]
MemoryFits(q, r) == Len(q) <= MaxRequestNum /\ Len(r) <= Len(q) /\ MemoryHolds(q, r)
MemoryKept == MemoryFits(queue, recent)

WindowFits(w, d, c, f) ==
    /\ w.count = d + c /\ d <= ChannelLimit
    /\ c + ManyOf(f, "count") <= d + Cardinality(Handlers)
WindowCounted == WindowFits(window, decided, carried, handler)

Young(r, now) == \A i \in 1..Len(r) : r[i] <= now /\ now - r[i] < Duration
TimesRecent == Young(recent, clock)

HandlersFit ==
    /\ \A h \in Handlers : handler[h] \in {"push", "compare", "turn", "trim"} => limiter = "redis"
    /\ \A h \in Handlers : handler[h] = "count" => limiter = "channel"

\* What holds of the limiter looked at.
LimiterKept ==
    /\ limiter = "redis" /\ strain \subseteq {"overlap"} => RedisKept
    /\ limiter = "memory" => MemoryKept
    /\ limiter = "channel" => WindowCounted

RateInv == RateTypeOK /\ TimesRecent /\ HandlersFit /\ LimiterKept

-----------------------------------------------------------------------------
(* How many handlers are at each command.                                  *)

LEMMA RateConstants ==
  /\ MaxRequestNum \in Nat /\ MaxRequestNum >= 1 /\ ChannelLimit \in Nat /\ ChannelLimit >= 1
  /\ Duration \in Nat /\ Duration >= 1 /\ Expiration \in Nat /\ Duration <= Expiration
  /\ Cardinality(Handlers) \in Nat /\ Cardinality(Handlers) >= 1 /\ IsFiniteSet(Handlers)
  /\ MaxClock \in Nat /\ MaxHandled \in Nat
<1>1. Cardinality(Handlers) \in Nat /\ Cardinality(Handlers) # 0
  BY HandlersAssumption, FS_CardinalityType, FS_EmptySet, Zenon
<1>2. QED
  BY <1>1, LimitAssumption, DurationAssumption, HandlersAssumption, RateBoundsAssumption

LEMMA ManyTypes ==
  \A f, pc : ManyOf(f, pc) \in Nat /\ ManyOf(f, pc) <= Cardinality(Handlers)
<1> SUFFICES ASSUME NEW f, NEW pc
             PROVE  ManyOf(f, pc) \in Nat /\ ManyOf(f, pc) <= Cardinality(Handlers)
  OBVIOUS
<1>1. {h \in Handlers : f[h] = pc} \subseteq Handlers
  OBVIOUS
<1>2. QED
  BY <1>1, FS_Subset, FS_CardinalityType, HandlersAssumption, Zenon DEF ManyOf

LEMMA NoneAt ==
  \A f, pc : ManyOf(f, pc) = 0 <=> \A h \in Handlers : f[h] # pc
<1> SUFFICES ASSUME NEW f, NEW pc
             PROVE  ManyOf(f, pc) = 0 <=> \A h \in Handlers : f[h] # pc
  OBVIOUS
<1> DEFINE S == {h \in Handlers : f[h] = pc}
<1>1. S \subseteq Handlers /\ IsFiniteSet(S)
  BY FS_Subset, HandlersAssumption, Zenon
<1>2. Cardinality(S) = 0 <=> S = {}
  BY <1>1, FS_EmptySet, Zenon
<1>3. QED
  BY <1>2, Zenon DEF ManyOf

\* Handler h goes from p to pc, and with it the numbers of the handlers.
GoesFrom(g, f, h, p, pc) ==
    /\ h \in Handlers /\ f \in [Handlers -> HandlerPcs]
    /\ f[h] = p /\ p # pc /\ g = [f EXCEPT ![h] = pc]
Moved(g, f, p, pc) ==
    /\ ManyOf(f, p) = ManyOf(g, p) + 1 /\ ManyOf(g, pc) = ManyOf(f, pc) + 1
    /\ \A s : s # p /\ s # pc => ManyOf(g, s) = ManyOf(f, s)

LEMMA ManyMoves ==
  \A g, f, h, p, pc : GoesFrom(g, f, h, p, pc) => Moved(g, f, p, pc)
<1> SUFFICES ASSUME NEW g, NEW f, NEW h, NEW p, NEW pc, GoesFrom(g, f, h, p, pc)
             PROVE  Moved(g, f, p, pc)
  OBVIOUS
<1> DEFINE At(k, s) == {x \in Handlers : k[x] = s}
<1>1. \A k, s : IsFiniteSet(At(k, s)) /\ Cardinality(At(k, s)) \in Nat
  BY FS_Subset, FS_CardinalityType, HandlersAssumption, Zenon
<1>2. At(f, p) = At(g, p) \cup {h} /\ h \notin At(g, p)
  BY DEF GoesFrom
<1>3. At(g, pc) = At(f, pc) \cup {h} /\ h \notin At(f, pc)
  BY DEF GoesFrom
<1>4. \A s : s # p /\ s # pc => At(g, s) = At(f, s)
  BY DEF GoesFrom
<1> HIDE DEF At
<1>5. Cardinality(At(f, p)) = Cardinality(At(g, p)) + 1
  BY <1>1, <1>2, FS_AddElement
<1>6. Cardinality(At(g, pc)) = Cardinality(At(f, pc)) + 1
  BY <1>1, <1>3, FS_AddElement
<1>7. \A k, s : ManyOf(k, s) = Cardinality(At(k, s))
  BY DEF ManyOf, At
<1>8. QED
  BY <1>4, <1>5, <1>6, <1>7 DEF Moved

LEMMA DisjointUnion ==
  ASSUME NEW S, NEW T, IsFiniteSet(S), IsFiniteSet(T), S \cap T = {}
  PROVE  IsFiniteSet(S \cup T) /\ Cardinality(S \cup T) = Cardinality(S) + Cardinality(T)
<1>1. Cardinality(S \cap T) = 0
  BY FS_EmptySet
<1>2. Cardinality(S) \in Nat /\ Cardinality(T) \in Nat
  BY FS_CardinalityType, Zenon
<1>3. /\ IsFiniteSet(S \cup T)
      /\ Cardinality(S \cup T) = Cardinality(S) + Cardinality(T) - Cardinality(S \cap T)
  BY FS_Union, Zenon
<1>4. QED
  BY <1>1, <1>2, <1>3

\* The handlers at two or more commands are no more than there are.
AtRedis(f) == ManyOf(f, "push") + ManyOf(f, "compare") + ManyOf(f, "turn") + ManyOf(f, "trim")

LEMMA ManyTogether == \A f : AtRedis(f) <= Cardinality(Handlers)
<1> SUFFICES ASSUME NEW f PROVE AtRedis(f) <= Cardinality(Handlers)
  OBVIOUS
<1> DEFINE At(s) == {x \in Handlers : f[x] = s}
           A == At("push")  B == At("compare")  C == At("turn")  D == At("trim")
<1>1. IsFiniteSet(A) /\ IsFiniteSet(B) /\ IsFiniteSet(C) /\ IsFiniteSet(D)
  BY FS_Subset, HandlersAssumption, Zenon
<1>2. /\ A \cap B = {} /\ (A \cup B) \cap C = {} /\ ((A \cup B) \cup C) \cap D = {}
      /\ ((A \cup B) \cup C) \cup D \subseteq Handlers
  OBVIOUS
<1>3. /\ ManyOf(f, "push") = Cardinality(A) /\ ManyOf(f, "compare") = Cardinality(B)
      /\ ManyOf(f, "turn") = Cardinality(C) /\ ManyOf(f, "trim") = Cardinality(D)
  BY Zenon DEF ManyOf
<1> HIDE DEF A, B, C, D
<1>4. IsFiniteSet(A \cup B) /\ IsFiniteSet((A \cup B) \cup C)
  BY <1>1, <1>2, DisjointUnion, Zenon
<1>5. Cardinality(A \cup B) = Cardinality(A) + Cardinality(B)
  BY <1>1, <1>2, DisjointUnion, Zenon
<1>6. Cardinality((A \cup B) \cup C) = Cardinality(A \cup B) + Cardinality(C)
  BY <1>1, <1>2, <1>4, DisjointUnion, Zenon
<1>7. Cardinality(((A \cup B) \cup C) \cup D) = Cardinality((A \cup B) \cup C) + Cardinality(D)
  BY <1>1, <1>2, <1>4, DisjointUnion, Zenon
<1>8. Cardinality(((A \cup B) \cup C) \cup D) <= Cardinality(Handlers)
  BY <1>2, FS_Subset, HandlersAssumption, Zenon
<1>9. QED
  BY <1>3, <1>5, <1>6, <1>7, <1>8 DEF AtRedis

-----------------------------------------------------------------------------
(* Sequences of times.                                                     *)

LEMMA Appended ==
  ASSUME NEW S, NEW r \in Seq(S), NEW x \in S
  PROVE  /\ Append(r, x) \in Seq(S) /\ Len(Append(r, x)) = Len(r) + 1
         /\ \A i \in 1..Len(r) : Append(r, x)[i] = r[i]
         /\ Append(r, x)[Len(r) + 1] = x
  OBVIOUS

LEMMA Preceded ==
  ASSUME NEW S, NEW q \in Seq(S), NEW x \in S
  PROVE  /\ <<x>> \o q \in Seq(S) /\ Len(<<x>> \o q) = Len(q) + 1
         /\ (<<x>> \o q)[1] = x
         /\ \A i \in 1..Len(q) : (<<x>> \o q)[i + 1] = q[i]
<1>1. <<x>> \in Seq(S) /\ Len(<<x>>) = 1 /\ <<x>>[1] = x
  OBVIOUS
<1> DEFINE one == <<x>>
<1> HIDE DEF one
<1>2. one \in Seq(S) /\ Len(one) = 1 /\ one[1] = x
  BY <1>1 DEF one
<1>3. /\ one \o q \in Seq(S) /\ Len(one \o q) = 1 + Len(q)
      /\ \A i \in 1..1 + Len(q) : (one \o q)[i] = IF i <= 1 THEN one[i] ELSE q[i - 1]
  <2>1. /\ one \o q \in Seq(S) /\ Len(one \o q) = Len(one) + Len(q)
        /\ \A i \in 1..Len(one) + Len(q) :
              (one \o q)[i] = IF i <= Len(one) THEN one[i] ELSE q[i - Len(one)]
    BY <1>2, ConcatProperties, Zenon
  <2>2. QED
    BY <2>1, <1>2
<1>4. Len(q) \in Nat
  BY LenProperties, Zenon
<1>5. (one \o q)[1] = x
  BY <1>2, <1>3, <1>4
<1>6. ASSUME NEW i \in 1..Len(q) PROVE (one \o q)[i + 1] = q[i]
  <2>1. i + 1 \in 1..1 + Len(q) /\ ~(i + 1 <= 1) /\ (i + 1) - 1 = i
    BY <1>4
  <2>2. (one \o q)[i + 1] = IF i + 1 <= 1 THEN one[i + 1] ELSE q[(i + 1) - 1]
    BY <1>3, <2>1
  <2>3. QED
    BY <2>1, <2>2
<1>7. QED
  BY <1>3, <1>4, <1>5, <1>6 DEF one

\* What is left of r without its first k, and the first n of q.
LEMMA Rest ==
  ASSUME NEW S, NEW r \in Seq(S), NEW k \in 0..Len(r)
  PROVE  /\ SubSeq(r, k + 1, Len(r)) \in Seq(S)
         /\ Len(SubSeq(r, k + 1, Len(r))) = Len(r) - k
         /\ \A i \in 1..Len(r) - k : SubSeq(r, k + 1, Len(r))[i] = r[k + i]
<1>1. Len(r) \in Nat /\ k \in Nat /\ k <= Len(r)
  BY LenProperties
<1>2. \A i \in k + 1..Len(r) : r[i] \in S
  BY <1>1, ElementOfSeq
<1> DEFINE m == k + 1  n == Len(r)
<1>3. /\ SubSeq(r, m, n) \in Seq(S)
      /\ Len(SubSeq(r, m, n)) = IF m <= n THEN n - m + 1 ELSE 0
      /\ \A i \in 1..n - m + 1 : SubSeq(r, m, n)[i] = r[m + i - 1]
  <2>1. m \in Int /\ n \in Int /\ \A i \in m..n : r[i] \in S
    BY <1>1, <1>2
  <2> HIDE DEF m, n
  <2>2. QED
    BY <2>1, SubSeqProperties
<1>4. n - m + 1 = n - k /\ \A i \in 1..n - k : m + i - 1 = k + i
  BY <1>1
<1>5. n - k = IF m <= n THEN n - m + 1 ELSE 0
  BY <1>1
<1> HIDE DEF m
<1>6. /\ SubSeq(r, m, n) \in Seq(S) /\ Len(SubSeq(r, m, n)) = n - k
      /\ \A i \in 1..n - k : SubSeq(r, m, n)[i] = r[k + i]
  BY <1>3, <1>4, <1>5, Zenon
<1>7. QED
  BY <1>6 DEF m

LEMMA First ==
  ASSUME NEW S, NEW q \in Seq(S), NEW n \in 0..Len(q)
  PROVE  /\ SubSeq(q, 1, n) \in Seq(S) /\ Len(SubSeq(q, 1, n)) = n
         /\ \A i \in 1..n : SubSeq(q, 1, n)[i] = q[i]
<1>1. Len(q) \in Nat /\ n \in Nat /\ n <= Len(q)
  BY LenProperties
<1>2. \A i \in 1..n : q[i] \in S
  BY <1>1, ElementOfSeq
<1>3. /\ SubSeq(q, 1, n) \in Seq(S)
      /\ Len(SubSeq(q, 1, n)) = IF 1 <= n THEN n - 1 + 1 ELSE 0
      /\ \A i \in 1..n - 1 + 1 : SubSeq(q, 1, n)[i] = q[1 + i - 1]
  <2>1. 1 \in Int /\ n \in Int
    BY <1>1
  <2>2. QED
    BY <1>2, <2>1, SubSeqProperties
<1>4. n - 1 + 1 = n /\ \A i \in 1..n : 1 + i - 1 = i
  BY <1>1
<1>5. QED
  BY <1>1, <1>3, <1>4

-----------------------------------------------------------------------------
(* What the list and the slice hold of the admissions.                     *)

LEMMA HoldsPush ==
  ASSUME NEW q \in Seq(Times), NEW r \in Seq(Times), NEW x \in Times, RedisHolds(q, r)
  PROVE  RedisHolds(<<x>> \o q, Append(r, x))
<1> DEFINE q2 == <<x>> \o q  r2 == Append(r, x)
<1>1. /\ Len(q2) = Len(q) + 1 /\ q2[1] = x /\ \A i \in 1..Len(q) : q2[i + 1] = q[i]
  BY Preceded
<1>2. /\ Len(r2) = Len(r) + 1 /\ r2[Len(r) + 1] = x /\ \A i \in 1..Len(r) : r2[i] = r[i]
  BY Appended
<1>3. Len(q) \in Nat /\ Len(r) \in Nat
  BY LenProperties
<1> HIDE DEF q2, r2
<1>4. ASSUME NEW k \in 1..Len(q2), k <= Len(r2) PROVE q2[k] = r2[Len(r2) - k + 1]
  <2>1. CASE k = 1
    <3>1. Len(r2) - k + 1 = Len(r) + 1
      BY <2>1, <1>2, <1>3
    <3>2. QED
      BY <2>1, <3>1, <1>1, <1>2
  <2>2. CASE k # 1
    <3>1. k - 1 \in 1..Len(q) /\ k - 1 <= Len(r) /\ (k - 1) + 1 = k
      BY <2>2, <1>4, <1>1, <1>2, <1>3
    <3>2. q2[k] = q[k - 1]
      BY <3>1, <1>1
    <3>3. q[k - 1] = r[Len(r) - (k - 1) + 1]
      BY <3>1 DEF RedisHolds
    <3>4. Len(r) - (k - 1) + 1 \in 1..Len(r) /\ Len(r) - (k - 1) + 1 = Len(r2) - k + 1
      BY <3>1, <1>2, <1>3
    <3>5. QED
      BY <3>2, <3>3, <3>4, <1>2
  <2>3. QED
    BY <2>1, <2>2
<1>5. QED
  BY <1>4 DEF RedisHolds, q2, r2

LEMMA HoldsTrim ==
  ASSUME NEW q \in Seq(Times), NEW r \in Seq(Times), NEW n \in 0..Len(q), RedisHolds(q, r)
  PROVE  RedisHolds(SubSeq(q, 1, n), r)
<1> DEFINE q2 == SubSeq(q, 1, n)
<1>1. Len(q2) = n /\ \A i \in 1..n : q2[i] = q[i]
  BY First
<1>2. Len(q) \in Nat /\ \A i \in 1..n : i \in 1..Len(q)
  BY LenProperties
<1> HIDE DEF q2
<1>3. RedisHolds(q2, r)
  BY <1>1, <1>2 DEF RedisHolds
<1>4. QED
  BY <1>3 DEF q2

\* The first k admissions are too old.
LEMMA HoldsForget ==
  ASSUME NEW q \in Seq(Times), NEW r \in Seq(Times), NEW k \in 0..Len(r)
  PROVE  /\ RedisHolds(q, r) => RedisHolds(q, SubSeq(r, k + 1, Len(r)))
         /\ MemoryFits(q, r) => MemoryFits(q, SubSeq(r, k + 1, Len(r)))
<1> DEFINE r2 == SubSeq(r, k + 1, Len(r))
<1>1. Len(r2) = Len(r) - k /\ \A i \in 1..Len(r) - k : r2[i] = r[k + i]
  BY Rest
<1>2. Len(q) \in Nat /\ Len(r) \in Nat
  BY LenProperties
<1> HIDE DEF r2
<1>3. ASSUME RedisHolds(q, r), NEW i \in 1..Len(q), i <= Len(r2)
      PROVE  q[i] = r2[Len(r2) - i + 1]
  <2>1. i <= Len(r) /\ Len(r2) - i + 1 \in 1..Len(r) - k /\ k + (Len(r2) - i + 1) = Len(r) - i + 1
    BY <1>1, <1>2, <1>3
  <2>2. q[i] = r[Len(r) - i + 1]
    BY <1>3, <2>1 DEF RedisHolds
  <2>3. QED
    BY <1>1, <2>1, <2>2
<1>4. ASSUME MemoryFits(q, r), NEW i \in 1..Len(r2)
      PROVE  q[Len(q) - Len(r2) + i] = r2[i]
  <2>1. i \in 1..Len(r) - k /\ k + i \in 1..Len(r) /\ Len(q) - Len(r2) + i = Len(q) - Len(r) + (k + i)
    BY <1>1, <1>2, <1>4
  <2>2. q[Len(q) - Len(r) + (k + i)] = r[k + i]
    BY <1>4, <2>1 DEF MemoryFits, MemoryHolds
  <2>3. QED
    BY <1>1, <2>1, <2>2
<1>5. MemoryFits(q, r) => Len(r2) <= Len(q)
  BY <1>1, <1>2 DEF MemoryFits
<1>6. RedisHolds(q, r) => RedisHolds(q, r2)
  BY <1>3 DEF RedisHolds
<1>7. MemoryFits(q, r) => MemoryFits(q, r2)
  BY <1>4, <1>5 DEF MemoryFits, MemoryHolds
<1>8. QED
  BY <1>6, <1>7 DEF r2

LEMMA YoungLater ==
  ASSUME NEW r \in Seq(Times), NEW now \in Times, Young(r, now)
  PROVE  Young(Append(r, now), now)
<1>1. /\ Len(Append(r, now)) = Len(r) + 1 /\ Append(r, now)[Len(r) + 1] = now
      /\ \A i \in 1..Len(r) : Append(r, now)[i] = r[i]
  BY Appended
<1>2. Len(r) \in Nat /\ now \in Nat /\ now - now < Duration
  BY LenProperties, RateConstants DEF Times
<1>3. ASSUME NEW i \in 1..Len(r) + 1
      PROVE  Append(r, now)[i] <= now /\ now - Append(r, now)[i] < Duration
  <2>1. CASE i = Len(r) + 1
    BY <2>1, <1>1, <1>2
  <2>2. CASE i # Len(r) + 1
    <3>1. i \in 1..Len(r)
      BY <2>2, <1>2
    <3>2. Append(r, now)[i] = r[i] /\ r[i] <= now /\ now - r[i] < Duration
      BY <3>1, <1>1 DEF Young
    <3>3. QED
      BY <3>2
  <2>3. QED
    BY <2>1, <2>2
<1>4. QED
  BY <1>1, <1>3 DEF Young

-----------------------------------------------------------------------------
(* The lengths and numbers, step by step.                                  *)

LEMMA BoundsCount ==
  ASSUME NEW list \in Nat, NEW admissions \in Nat, NEW push \in Nat, NEW compare \in Nat,
         NEW turn \in Nat, NEW trim \in Nat, NEW slots \in Nat, 1 <= slots,
         NEW more \in Nat, slots <= more, push + compare + turn + trim < more,
         RedisBounds(list, admissions, push, compare, turn, trim, slots)
  PROVE  /\ list < MaxRequestNum => RedisBounds(list, admissions, push + 1, compare, turn, trim, more)
         /\ list >= MaxRequestNum => RedisBounds(list, admissions, push, compare + 1, turn, trim, more)
  BY RateConstants DEF RedisBounds

LEMMA BoundsPush ==
  ASSUME NEW list \in Nat, NEW admissions \in Nat, NEW push \in Nat, NEW compare \in Nat,
         NEW turn \in Nat, NEW trim \in Nat, NEW slots \in Nat, 1 <= slots,
         RedisBounds(list, admissions, push + 1, compare, turn, trim, slots)
  PROVE  RedisBounds(list + 1, admissions + 1, push, compare, turn, trim, slots)
  BY RateConstants DEF RedisBounds

LEMMA BoundsCompare ==
  ASSUME NEW list \in Nat, NEW admissions \in Nat, NEW push \in Nat, NEW compare \in Nat,
         NEW turn \in Nat, NEW trim \in Nat, NEW slots \in Nat, 1 <= slots,
         RedisBounds(list, admissions, push, compare + 1, turn, trim, slots)
  PROVE  /\ list >= MaxRequestNum
         /\ RedisBounds(list, admissions, push, compare, turn, trim, slots)
         /\ admissions < list => RedisBounds(list, admissions, push, compare, turn + 1, trim, slots)
  BY RateConstants DEF RedisBounds

LEMMA BoundsTurn ==
  ASSUME NEW list \in Nat, NEW admissions \in Nat, NEW push \in Nat, NEW compare \in Nat,
         NEW turn \in Nat, NEW trim \in Nat, NEW slots \in Nat, 1 <= slots,
         RedisBounds(list, admissions, push, compare, turn + 1, trim, slots)
  PROVE  RedisBounds(list + 1, admissions + 1, push, compare, turn, trim + 1, slots)
  BY RateConstants DEF RedisBounds

LEMMA BoundsTrim ==
  ASSUME NEW list \in Nat, NEW admissions \in Nat, NEW push \in Nat, NEW compare \in Nat,
         NEW turn \in Nat, NEW trim \in Nat, NEW slots \in Nat, 1 <= slots,
         RedisBounds(list, admissions, push, compare, turn, trim + 1, slots)
  PROVE  /\ list >= MaxRequestNum
         /\ RedisBounds(MaxRequestNum, admissions, push, compare, turn, trim, slots)
  BY RateConstants DEF RedisBounds

LEMMA BoundsForget ==
  ASSUME NEW list \in Nat, NEW admissions \in Nat, NEW push \in Nat, NEW compare \in Nat,
         NEW turn \in Nat, NEW trim \in Nat, NEW slots \in Nat, 1 <= slots,
         NEW fewer \in Nat, fewer <= admissions,
         RedisBounds(list, admissions, push, compare, turn, trim, slots)
  PROVE  RedisBounds(list, fewer, push, compare, turn, trim, slots)
  BY RateConstants DEF RedisBounds

LEMMA BoundsExpire ==
  ASSUME NEW slots \in Nat, 1 <= slots PROVE RedisBounds(0, 0, 0, 0, 0, 0, slots)
  BY RateConstants DEF RedisBounds

-----------------------------------------------------------------------------
(* The steps of the handlers.                                              *)

LEMMA RateTypes ==
  ASSUME RateTypeOK
  PROVE  /\ handler \in [Handlers -> HandlerPcs] /\ queue \in Seq(Times) /\ recent \in Seq(Times)
         /\ clock \in Times /\ touched \in Times /\ Len(queue) \in Nat /\ Len(recent) \in Nat
         /\ strain \subseteq {"overlap", "lapsed", "unrecorded"} /\ handled \in 0..MaxHandled
         /\ SlotsOf(strain) \in Nat /\ 1 <= SlotsOf(strain)
<1>1. /\ handler \in [Handlers -> HandlerPcs] /\ queue \in Seq(Times) /\ recent \in Seq(Times)
      /\ clock \in Times /\ touched \in Times
      /\ strain \subseteq {"overlap", "lapsed", "unrecorded"} /\ handled \in 0..MaxHandled
  BY DEF RateTypeOK, HandlerPcs, Times
<1>2. Len(queue) \in Nat /\ Len(recent) \in Nat
  BY <1>1, LenProperties
<1>3. SlotsOf(strain) \in Nat /\ 1 <= SlotsOf(strain)
  BY RateConstants DEF SlotsOf
<1>4. QED
  BY <1>1, <1>2, <1>3

LEMMA HandlerGoes ==
  ASSUME RateTypeOK, NEW h \in Handlers, NEW pc \in HandlerPcs, handler[h] # pc, Moves(h, pc)
  PROVE  /\ handler' \in [Handlers -> HandlerPcs]
         /\ Moved(handler', handler, handler[h], pc)
<1>1. handler \in [Handlers -> HandlerPcs]
  BY RateTypes
<1>2. GoesFrom(handler', handler, h, handler[h], pc)
  BY <1>1 DEF GoesFrom, Moves
<1>3. QED
  BY <1>1, <1>2, ManyMoves DEF Moves

\* Where the handlers of a limiter may be.
LEMMA HandlersStayFit ==
  ASSUME RateInv, NEW h \in Handlers, NEW pc \in HandlerPcs, Moves(h, pc), limiter' = limiter,
         pc \in {"push", "compare", "turn", "trim"} => limiter = "redis",
         pc = "count" => limiter = "channel"
  PROVE  HandlersFit'
<1>1. handler \in [Handlers -> HandlerPcs]
  BY RateTypes DEF RateInv
<1>2. \A x \in Handlers : handler'[x] = IF x = h THEN pc ELSE handler[x]
  BY <1>1 DEF Moves
<1>3. QED
  BY <1>2 DEF RateInv, HandlersFit

LEMMA RedisGoesOn ==
  ASSUME RateInv, limiter = "redis", limiter' = limiter, RateTypeOK', TimesRecent', HandlersFit',
         strain' \subseteq {"overlap"} => RedisFits(queue', recent', handler', strain', touched')
  PROVE  RateInv'
<1>1. strain' \subseteq {"overlap"} => RedisKept'
  BY DEF RedisKept
<1>2. LimiterKept'
  BY <1>1 DEF LimiterKept
<1>3. QED
  BY <1>2 DEF RateInv

LEMMA PushStep == ASSUME RateInv, NEW h \in Handlers, Push(h) PROVE RateInv'
<1>1. /\ RateTypeOK /\ limiter = "redis" /\ limiter' = limiter /\ clock' = clock
      /\ handler[h] = "push" /\ Moves(h, "idle") /\ recent' = Append(recent, clock)
  BY DEF Push, RateInv, HandlersFit, Admitted
<1>2. /\ handler \in [Handlers -> HandlerPcs] /\ queue \in Seq(Times) /\ recent \in Seq(Times)
      /\ clock \in Times /\ touched \in Times /\ Len(queue) \in Nat /\ Len(recent) \in Nat
      /\ strain \subseteq {"overlap", "lapsed", "unrecorded"}
      /\ SlotsOf(strain) \in Nat /\ 1 <= SlotsOf(strain)
  BY <1>1, RateTypes
<1>3. handler' \in [Handlers -> HandlerPcs] /\ Moved(handler', handler, "push", "idle")
  BY <1>1, HandlerGoes DEF HandlerPcs
<1>4. HandlersFit'
  BY <1>1, HandlersStayFit DEF HandlerPcs
<1>5. TimesRecent'
  BY <1>1, <1>2, YoungLater DEF RateInv, TimesRecent
<1>6. recent' \in Seq(Times) /\ Len(recent') = Len(recent) + 1
  BY <1>1, <1>2, Appended
<1>7. RateTypeOK'
  <2>1. queue' \in Seq(Times) /\ touched' \in Times /\ strain' \subseteq {"overlap", "lapsed", "unrecorded"}
    <3>1. CASE queue' = <<clock>> \o queue /\ touched' = clock /\ UNCHANGED strain
      BY <3>1, <1>2, Preceded
    <3>2. CASE UNCHANGED <<queue, touched>> /\ strain' = strain \cup {"unrecorded"}
      BY <3>2, <1>2
    <3>3. QED
      BY <3>1, <3>2 DEF Push
  <2>2. QED
    BY <2>1, <1>1, <1>3, <1>6 DEF RateTypeOK, Push, HandlerPcs, Times, channelCounts
<1>8. ASSUME strain' \subseteq {"overlap"}
      PROVE  RedisFits(queue', recent', handler', strain', touched')
  <2>1. queue' = <<clock>> \o queue /\ touched' = clock /\ strain' = strain
    BY <1>8 DEF Push
  <2>2. RedisKept
    BY <2>1, <1>1, <1>8 DEF RateInv, LimiterKept
  <2>3. Len(queue') = Len(queue) + 1
    BY <2>1, <1>2, Preceded
  <2>4. /\ ManyOf(handler, "push") = ManyOf(handler', "push") + 1
        /\ ManyOf(handler', "compare") = ManyOf(handler, "compare")
        /\ ManyOf(handler', "turn") = ManyOf(handler, "turn")
        /\ ManyOf(handler', "trim") = ManyOf(handler, "trim")
    BY <1>3 DEF Moved
  <2>5. BoundsOf(queue', recent', handler', SlotsOf(strain'))
    <3> DEFINE pu == ManyOf(handler', "push")  co == ManyOf(handler', "compare")
               tu == ManyOf(handler', "turn")  tr == ManyOf(handler', "trim")
    <3>1. pu \in Nat /\ co \in Nat /\ tu \in Nat /\ tr \in Nat
      BY ManyTypes
    <3>2. RedisBounds(Len(queue), Len(recent), pu + 1, co, tu, tr, SlotsOf(strain))
      BY <2>2, <2>4 DEF RedisKept, RedisFits, BoundsOf
    <3> HIDE DEF pu, co, tu, tr
    <3>3. RedisBounds(Len(queue) + 1, Len(recent) + 1, pu, co, tu, tr, SlotsOf(strain))
      BY <3>1, <3>2, <1>2, BoundsPush
    <3>4. QED
      BY <3>3, <2>1, <2>3, <1>6 DEF BoundsOf, pu, co, tu, tr
  <2>6. RedisHolds(queue', recent')
    BY <2>1, <2>2, <1>1, <1>2, HoldsPush DEF RedisKept, RedisFits
  <2>7. TouchedLate(handler', recent', touched')
    BY <2>1, <1>1, <1>5 DEF TouchedLate, TimesRecent, Young
  <2>8. QED
    BY <2>5, <2>6, <2>7 DEF RedisFits
<1>9. QED
  BY <1>1, <1>4, <1>5, <1>7, <1>8, RedisGoesOn

\* One more handler fits, if the others overlap.
LEMMA OneMore ==
  ASSUME RateTypeOK, NEW h \in Handlers, Arrives(h)
  PROVE  /\ SlotsOf(strain) <= SlotsOf(strain') /\ SlotsOf(strain') \in Nat
         /\ AtRedis(handler) < SlotsOf(strain')
<1>1. handler \in [Handlers -> HandlerPcs] /\ handler[h] = "idle"
  BY RateTypes DEF Arrives
<1>2. AtRedis(handler) < Cardinality(Handlers)
  <2> DEFINE g == [handler EXCEPT ![h] = "push"]
  <2>1. GoesFrom(g, handler, h, "idle", "push")
    BY <1>1 DEF GoesFrom
  <2> HIDE DEF g
  <2>2. Moved(g, handler, "idle", "push")
    BY <2>1, ManyMoves
  <2>3. /\ ManyOf(g, "push") = ManyOf(handler, "push") + 1
        /\ ManyOf(g, "compare") = ManyOf(handler, "compare")
        /\ ManyOf(g, "turn") = ManyOf(handler, "turn")
        /\ ManyOf(g, "trim") = ManyOf(handler, "trim")
    BY <2>2 DEF Moved
  <2>4. \A f : /\ ManyOf(f, "push") \in Nat /\ ManyOf(f, "compare") \in Nat
              /\ ManyOf(f, "turn") \in Nat /\ ManyOf(f, "trim") \in Nat
    BY ManyTypes
  <2>5. AtRedis(g) = AtRedis(handler) + 1 /\ AtRedis(g) \in Nat /\ AtRedis(handler) \in Nat
    BY <2>3, <2>4 DEF AtRedis
  <2>6. AtRedis(g) <= Cardinality(Handlers)
    BY ManyTogether
  <2>7. QED
    BY <2>5, <2>6, RateConstants
<1>3. CASE UnderWay
  <2>1. strain' # {}
    BY <1>3 DEF Arrives
  <2>2. QED
    BY <2>1, <1>2, RateConstants DEF SlotsOf
<1>4. CASE ~UnderWay
  <2>1. strain' = strain
    BY <1>4 DEF Arrives
  <2>2. \A x \in Handlers : handler[x] = "idle"
    BY <1>4 DEF UnderWay
  <2>3. /\ ManyOf(handler, "push") = 0 /\ ManyOf(handler, "compare") = 0
        /\ ManyOf(handler, "turn") = 0 /\ ManyOf(handler, "trim") = 0
    BY <2>2, NoneAt
  <2>4. AtRedis(handler) = 0
    BY <2>3 DEF AtRedis
  <2>5. QED
    BY <2>1, <2>4, <1>2, RateTypes
<1>5. QED
  BY <1>3, <1>4

LEMMA CountStep == ASSUME RateInv, NEW h \in Handlers, Count(h) PROVE RateInv'
<1> DEFINE pc == IF Room(Len(queue)) THEN "push" ELSE "compare"
<1>1. /\ RateTypeOK /\ limiter = "redis" /\ limiter' = limiter /\ clock' = clock /\ Arrives(h)
      /\ handler[h] = "idle" /\ Moves(h, pc) /\ UNCHANGED <<queue, recent, touched>>
  BY DEF Count, RateInv, Arrives
<1>2. /\ handler \in [Handlers -> HandlerPcs] /\ queue \in Seq(Times) /\ recent \in Seq(Times)
      /\ clock \in Times /\ touched \in Times /\ Len(queue) \in Nat /\ Len(recent) \in Nat
      /\ strain \subseteq {"overlap", "lapsed", "unrecorded"}
      /\ SlotsOf(strain) \in Nat /\ 1 <= SlotsOf(strain)
  BY <1>1, RateTypes
<1>3. pc \in {"push", "compare"} /\ pc \in HandlerPcs /\ pc # "idle"
  BY DEF HandlerPcs
<1> HIDE DEF pc
<1>4. handler' \in [Handlers -> HandlerPcs] /\ Moved(handler', handler, "idle", pc)
  BY <1>1, <1>3, HandlerGoes
<1>5. HandlersFit'
  BY <1>1, <1>3, HandlersStayFit
<1>6. TimesRecent'
  BY <1>1 DEF RateInv, TimesRecent
<1>7. handled' \in 0..MaxHandled /\ strain' \subseteq {"overlap", "lapsed", "unrecorded"} /\ strain \subseteq strain'
  <2>1. handled' \in 0..MaxHandled
    BY <1>1, RateTypes, RateConstants DEF Arrives
  <2>2. strain' = strain \cup {x \in {"overlap"} : UnderWay}
    BY <1>1 DEF Arrives
  <2>3. QED
    BY <2>1, <2>2, <1>2
<1>8. RateTypeOK'
  BY <1>1, <1>4, <1>7 DEF RateTypeOK, Count, HandlerPcs, channelCounts
<1>9. ASSUME strain' \subseteq {"overlap"}
      PROVE  RedisFits(queue', recent', handler', strain', touched')
  <2>1. RedisKept
    BY <1>1, <1>7, <1>9 DEF RateInv, LimiterKept
  <2>2. \A s : s # "idle" /\ s # pc => ManyOf(handler', s) = ManyOf(handler, s)
    BY <1>4 DEF Moved
  <2>3. BoundsOf(queue, recent, handler', SlotsOf(strain'))
    <3> DEFINE pu == ManyOf(handler, "push")  co == ManyOf(handler, "compare")
               tu == ManyOf(handler, "turn")  tr == ManyOf(handler, "trim")
    <3>1. pu \in Nat /\ co \in Nat /\ tu \in Nat /\ tr \in Nat
      BY ManyTypes
    <3>2. RedisBounds(Len(queue), Len(recent), pu, co, tu, tr, SlotsOf(strain))
      BY <2>1 DEF RedisKept, RedisFits, BoundsOf
    <3>3. SlotsOf(strain) <= SlotsOf(strain') /\ SlotsOf(strain') \in Nat
          /\ pu + co + tu + tr < SlotsOf(strain')
      BY <1>1, OneMore DEF AtRedis
    <3>4. ManyOf(handler', "turn") = tu /\ ManyOf(handler', "trim") = tr
      BY <1>3, <2>2
    <3>5. CASE Room(Len(queue))
      <4>1. pc = "push" /\ Len(queue) < MaxRequestNum
        BY <3>5 DEF pc, Room
      <4>2. ManyOf(handler', "push") = pu + 1 /\ ManyOf(handler', "compare") = co
        BY <4>1, <1>4 DEF Moved
      <4> HIDE DEF pu, co, tu, tr
      <4>3. RedisBounds(Len(queue), Len(recent), pu + 1, co, tu, tr, SlotsOf(strain'))
        BY <3>1, <3>2, <3>3, <4>1, <1>2, BoundsCount
      <4>4. QED
        BY <4>2, <4>3, <3>4 DEF BoundsOf
    <3>6. CASE ~Room(Len(queue))
      <4>1. pc = "compare" /\ Len(queue) >= MaxRequestNum
        BY <3>6, <1>2, RateConstants DEF pc, Room
      <4>2. ManyOf(handler', "push") = pu /\ ManyOf(handler', "compare") = co + 1
        BY <4>1, <1>4 DEF Moved
      <4> HIDE DEF pu, co, tu, tr
      <4>3. RedisBounds(Len(queue), Len(recent), pu, co + 1, tu, tr, SlotsOf(strain'))
        BY <3>1, <3>2, <3>3, <4>1, <1>2, BoundsCount
      <4>4. QED
        BY <4>2, <4>3, <3>4 DEF BoundsOf
    <3>7. QED
      BY <3>5, <3>6
  <2>4. ManyOf(handler', "trim") = ManyOf(handler, "trim")
    BY <1>3, <2>2
  <2>5. RedisHolds(queue, recent) /\ TouchedLate(handler', recent, touched)
    BY <2>1, <2>4 DEF RedisKept, RedisFits, TouchedLate
  <2>6. QED
    BY <1>1, <2>3, <2>5 DEF RedisFits
<1>10. QED
  BY <1>1, <1>5, <1>6, <1>8, <1>9, RedisGoesOn

\* An oldest time past the duration is none of the admissions within it.
LEMMA OldestGone ==
  ASSUME RateTypeOK, TimesRecent, RedisHolds(queue, recent), queue # <<>>,
         clock - Oldest(queue) >= Duration
  PROVE  Len(recent) < Len(queue)
<1>1. Len(queue) \in Nat /\ Len(queue) >= 1 /\ Len(recent) \in Nat
  BY RateTypes, EmptySeq
<1> SUFFICES ASSUME Len(queue) <= Len(recent) PROVE FALSE
  BY <1>1
<1>2. Len(recent) - Len(queue) + 1 \in 1..Len(recent) /\ Len(queue) \in 1..Len(queue)
  BY <1>1
<1>3. queue[Len(queue)] = recent[Len(recent) - Len(queue) + 1]
  BY <1>2 DEF RedisHolds
<1>4. clock - recent[Len(recent) - Len(queue) + 1] < Duration
  BY <1>2 DEF TimesRecent, Young
<1>5. recent[Len(recent) - Len(queue) + 1] \in Times /\ clock \in Times
  BY <1>2, RateTypes, ElementOfSeq
<1>6. QED
  BY <1>3, <1>4, <1>5, RateConstants DEF Oldest, Times

LEMMA CompareStep == ASSUME RateInv, NEW h \in Handlers, Compare(h) PROVE RateInv'
<1> DEFINE late == queue # <<>> /\ clock - Oldest(queue) >= Duration
           pc == IF late THEN "turn" ELSE "idle"
<1>1. /\ RateTypeOK /\ limiter = "redis" /\ limiter' = limiter /\ clock' = clock
      /\ handler[h] = "compare" /\ UNCHANGED <<queue, recent, strain, handled>>
  BY DEF Compare, RateInv, HandlersFit
<1>2. /\ handler \in [Handlers -> HandlerPcs] /\ queue \in Seq(Times) /\ recent \in Seq(Times)
      /\ clock \in Times /\ touched \in Times /\ Len(queue) \in Nat /\ Len(recent) \in Nat
      /\ strain \subseteq {"overlap", "lapsed", "unrecorded"}
      /\ SlotsOf(strain) \in Nat /\ 1 <= SlotsOf(strain)
  BY <1>1, RateTypes
<1>3. touched' \in {touched, clock} /\ Moves(h, pc) /\ (late => touched' = touched)
  <2>1. CASE queue = <<>>
    BY <2>1 DEF Compare
  <2>2. CASE queue # <<>> /\ clock - Oldest(queue) < Duration
    <3>1. ~late
      BY <2>2, <1>2, RateConstants, ElementOfSeq, EmptySeq DEF Oldest, Times
    <3>2. QED
      BY <2>2, <3>1 DEF Compare
  <2>3. CASE queue # <<>> /\ ~(clock - Oldest(queue) < Duration)
    <3>1. late
      <4>1. queue[Len(queue)] \in Times
        BY <2>3, <1>2, ElementOfSeq, EmptySeq
      <4>2. QED
        BY <2>3, <4>1, <1>2, RateConstants DEF Oldest, Times
    <3>2. QED
      BY <2>3, <3>1 DEF Compare
  <2>4. QED
    BY <2>1, <2>2, <2>3
<1>4. pc \in {"turn", "idle"} /\ pc \in HandlerPcs /\ pc # "compare"
  BY DEF HandlerPcs
<1> HIDE DEF pc
<1>5. handler' \in [Handlers -> HandlerPcs] /\ Moved(handler', handler, "compare", pc)
  BY <1>1, <1>3, <1>4, HandlerGoes
<1>6. HandlersFit'
  BY <1>1, <1>3, <1>4, HandlersStayFit
<1>7. TimesRecent'
  BY <1>1 DEF RateInv, TimesRecent
<1>8. RateTypeOK'
  BY <1>1, <1>2, <1>3, <1>5 DEF RateTypeOK, Compare, HandlerPcs, channelCounts, Times
<1>9. ASSUME strain' \subseteq {"overlap"}
      PROVE  RedisFits(queue', recent', handler', strain', touched')
  <2>1. RedisKept
    BY <1>1, <1>9 DEF RateInv, LimiterKept
  <2>2. \A s : s # "compare" /\ s # pc => ManyOf(handler', s) = ManyOf(handler, s)
    BY <1>5 DEF Moved
  <2>3. /\ ManyOf(handler, "compare") = ManyOf(handler', "compare") + 1
        /\ ManyOf(handler', "push") = ManyOf(handler, "push")
        /\ ManyOf(handler', "trim") = ManyOf(handler, "trim")
    BY <1>4, <1>5, <2>2 DEF Moved
  <2>4. BoundsOf(queue, recent, handler', SlotsOf(strain))
    <3> DEFINE pu == ManyOf(handler, "push")  co == ManyOf(handler', "compare")
               tu == ManyOf(handler, "turn")  tr == ManyOf(handler, "trim")
    <3>1. pu \in Nat /\ co \in Nat /\ tu \in Nat /\ tr \in Nat
      BY ManyTypes
    <3>2. RedisBounds(Len(queue), Len(recent), pu, co + 1, tu, tr, SlotsOf(strain))
      BY <2>1, <2>3 DEF RedisKept, RedisFits, BoundsOf
    <3>3. CASE late
      <4>1. pc = "turn"
        BY <3>3 DEF pc
      <4>2. ManyOf(handler', "turn") = tu + 1
        BY <4>1, <1>5 DEF Moved
      <4>3. Len(recent) < Len(queue)
        BY <3>3, <1>1, <2>1, OldestGone DEF RedisKept, RedisFits, RateInv
      <4> HIDE DEF pu, co, tu, tr
      <4>4. RedisBounds(Len(queue), Len(recent), pu, co, tu + 1, tr, SlotsOf(strain))
        BY <3>1, <3>2, <4>3, <1>2, BoundsCompare
      <4>5. QED
        BY <4>2, <4>4, <2>3 DEF BoundsOf, pu, co, tr
    <3>4. CASE ~late
      <4>1. pc = "idle"
        BY <3>4 DEF pc
      <4>2. ManyOf(handler', "turn") = tu
        BY <4>1, <2>2
      <4> HIDE DEF pu, co, tu, tr
      <4>3. RedisBounds(Len(queue), Len(recent), pu, co, tu, tr, SlotsOf(strain))
        BY <3>1, <3>2, <1>2, BoundsCompare
      <4>4. QED
        BY <4>2, <4>3, <2>3 DEF BoundsOf, pu, co, tr
    <3>5. QED
      BY <3>3, <3>4
  <2>5. TouchedLate(handler', recent, touched')
    <3>1. \A i \in 1..Len(recent) : recent[i] <= clock
      BY DEF RateInv, TimesRecent, Young
    <3>2. TouchedLate(handler', recent, touched)
      BY <2>1, <2>3 DEF RedisKept, RedisFits, TouchedLate
    <3>3. QED
      BY <1>3, <3>1, <3>2 DEF TouchedLate
  <2>6. RedisHolds(queue, recent)
    BY <2>1 DEF RedisKept, RedisFits
  <2>7. QED
    BY <1>1, <2>4, <2>5, <2>6 DEF RedisFits
<1>10. QED
  BY <1>1, <1>6, <1>7, <1>8, <1>9, RedisGoesOn

LEMMA RedisTurnStep == ASSUME RateInv, NEW h \in Handlers, Turn(h) PROVE RateInv'
<1>1. /\ RateTypeOK /\ limiter = "redis" /\ limiter' = limiter /\ clock' = clock
      /\ handler[h] = "turn" /\ Moves(h, "trim") /\ recent' = Append(recent, clock)
      /\ queue' = <<clock>> \o queue /\ UNCHANGED <<strain, touched, handled>>
  BY DEF Turn, RateInv, HandlersFit, Admitted
<1>2. /\ handler \in [Handlers -> HandlerPcs] /\ queue \in Seq(Times) /\ recent \in Seq(Times)
      /\ clock \in Times /\ touched \in Times /\ Len(queue) \in Nat /\ Len(recent) \in Nat
      /\ strain \subseteq {"overlap", "lapsed", "unrecorded"}
      /\ SlotsOf(strain) \in Nat /\ 1 <= SlotsOf(strain)
  BY <1>1, RateTypes
<1>3. handler' \in [Handlers -> HandlerPcs] /\ Moved(handler', handler, "turn", "trim")
  BY <1>1, HandlerGoes DEF HandlerPcs
<1>4. HandlersFit'
  BY <1>1, HandlersStayFit DEF HandlerPcs
<1>5. TimesRecent'
  BY <1>1, <1>2, YoungLater DEF RateInv, TimesRecent
<1>6. /\ recent' \in Seq(Times) /\ Len(recent') = Len(recent) + 1
      /\ queue' \in Seq(Times) /\ Len(queue') = Len(queue) + 1
  BY <1>1, <1>2, Appended, Preceded
<1>7. RateTypeOK'
  BY <1>1, <1>3, <1>6 DEF RateTypeOK, Turn, HandlerPcs, Times, channelCounts
<1>8. ASSUME strain' \subseteq {"overlap"}
      PROVE  RedisFits(queue', recent', handler', strain', touched')
  <2>1. RedisKept
    BY <1>1, <1>8 DEF RateInv, LimiterKept
  <2>2. /\ ManyOf(handler, "turn") = ManyOf(handler', "turn") + 1
        /\ ManyOf(handler', "trim") = ManyOf(handler, "trim") + 1
        /\ ManyOf(handler', "push") = ManyOf(handler, "push")
        /\ ManyOf(handler', "compare") = ManyOf(handler, "compare")
    BY <1>3 DEF Moved
  <2>3. BoundsOf(queue', recent', handler', SlotsOf(strain'))
    <3> DEFINE pu == ManyOf(handler, "push")  co == ManyOf(handler, "compare")
               tu == ManyOf(handler', "turn")  tr == ManyOf(handler, "trim")
    <3>1. pu \in Nat /\ co \in Nat /\ tu \in Nat /\ tr \in Nat
      BY ManyTypes
    <3>2. RedisBounds(Len(queue), Len(recent), pu, co, tu + 1, tr, SlotsOf(strain))
      BY <2>1, <2>2 DEF RedisKept, RedisFits, BoundsOf
    <3> HIDE DEF pu, co, tu, tr
    <3>3. RedisBounds(Len(queue) + 1, Len(recent) + 1, pu, co, tu, tr + 1, SlotsOf(strain))
      BY <3>1, <3>2, <1>2, BoundsTurn
    <3>4. QED
      BY <3>3, <1>1, <1>6, <2>2 DEF BoundsOf, pu, co, tu, tr
  <2>4. RedisHolds(queue', recent')
    BY <2>1, <1>1, <1>2, HoldsPush DEF RedisKept, RedisFits
  <2>5. TouchedLate(handler', recent', touched')
    <3>1. ManyOf(handler', "trim") # 0
      BY <2>2, ManyTypes
    <3>2. QED
      BY <3>1 DEF TouchedLate
  <2>6. QED
    BY <2>3, <2>4, <2>5 DEF RedisFits
<1>9. QED
  BY <1>1, <1>4, <1>5, <1>7, <1>8, RedisGoesOn

LEMMA TrimStep == ASSUME RateInv, NEW h \in Handlers, Trim(h) PROVE RateInv'
<1> DEFINE n == IF Len(queue) < MaxRequestNum THEN Len(queue) ELSE MaxRequestNum
<1>1. /\ RateTypeOK /\ limiter = "redis" /\ limiter' = limiter /\ clock' = clock
      /\ handler[h] = "trim" /\ Moves(h, "idle") /\ queue' = SubSeq(queue, 1, n)
      /\ touched' = clock /\ UNCHANGED <<recent, strain, handled>>
  BY DEF Trim, RateInv, HandlersFit
<1>2. /\ handler \in [Handlers -> HandlerPcs] /\ queue \in Seq(Times) /\ recent \in Seq(Times)
      /\ clock \in Times /\ touched \in Times /\ Len(queue) \in Nat /\ Len(recent) \in Nat
      /\ strain \subseteq {"overlap", "lapsed", "unrecorded"}
      /\ SlotsOf(strain) \in Nat /\ 1 <= SlotsOf(strain)
  BY <1>1, RateTypes
<1>3. n \in 0..Len(queue) /\ (Len(queue) >= MaxRequestNum => n = MaxRequestNum)
  BY <1>2, RateConstants
<1> HIDE DEF n
<1>4. handler' \in [Handlers -> HandlerPcs] /\ Moved(handler', handler, "trim", "idle")
  BY <1>1, HandlerGoes DEF HandlerPcs
<1>5. HandlersFit'
  BY <1>1, HandlersStayFit DEF HandlerPcs
<1>6. TimesRecent'
  BY <1>1 DEF RateInv, TimesRecent
<1>7. queue' \in Seq(Times) /\ Len(queue') = n
  BY <1>1, <1>2, <1>3, First
<1>8. RateTypeOK'
  BY <1>1, <1>2, <1>4, <1>7 DEF RateTypeOK, Trim, HandlerPcs, Times, channelCounts
<1>9. ASSUME strain' \subseteq {"overlap"}
      PROVE  RedisFits(queue', recent', handler', strain', touched')
  <2>1. RedisKept
    BY <1>1, <1>9 DEF RateInv, LimiterKept
  <2>2. /\ ManyOf(handler, "trim") = ManyOf(handler', "trim") + 1
        /\ ManyOf(handler', "push") = ManyOf(handler, "push")
        /\ ManyOf(handler', "compare") = ManyOf(handler, "compare")
        /\ ManyOf(handler', "turn") = ManyOf(handler, "turn")
    BY <1>4 DEF Moved
  <2>3. BoundsOf(queue', recent', handler', SlotsOf(strain'))
    <3> DEFINE pu == ManyOf(handler, "push")  co == ManyOf(handler, "compare")
               tu == ManyOf(handler, "turn")  tr == ManyOf(handler', "trim")
    <3>1. pu \in Nat /\ co \in Nat /\ tu \in Nat /\ tr \in Nat
      BY ManyTypes
    <3>2. RedisBounds(Len(queue), Len(recent), pu, co, tu, tr + 1, SlotsOf(strain))
      BY <2>1, <2>2 DEF RedisKept, RedisFits, BoundsOf
    <3> HIDE DEF pu, co, tu, tr
    <3>3. Len(queue) >= MaxRequestNum /\ RedisBounds(MaxRequestNum, Len(recent), pu, co, tu, tr, SlotsOf(strain))
      BY <3>1, <3>2, <1>2, BoundsTrim
    <3>4. QED
      BY <3>3, <1>1, <1>3, <1>7, <2>2 DEF BoundsOf, pu, co, tu, tr
  <2>4. RedisHolds(queue', recent')
    BY <2>1, <1>1, <1>2, <1>3, HoldsTrim DEF RedisKept, RedisFits
  <2>5. TouchedLate(handler', recent', touched')
    BY <1>1 DEF TouchedLate, RateInv, TimesRecent, Young
  <2>6. QED
    BY <2>3, <2>4, <2>5 DEF RedisFits
<1>10. QED
  BY <1>1, <1>5, <1>6, <1>8, <1>9, RedisGoesOn

-----------------------------------------------------------------------------
(* The slice in memory.                                                    *)

LEMMA MemoryAdmits ==
  ASSUME NEW q \in Seq(Times), NEW r \in Seq(Times), NEW x \in Times,
         MemoryHolds(q, r), Len(r) <= Len(q), Len(q) < MaxRequestNum
  PROVE  MemoryFits(Append(q, x), Append(r, x))
<1> DEFINE q2 == Append(q, x)  r2 == Append(r, x)
<1>1. /\ Len(q2) = Len(q) + 1 /\ q2[Len(q) + 1] = x /\ \A i \in 1..Len(q) : q2[i] = q[i]
      /\ Len(r2) = Len(r) + 1 /\ r2[Len(r) + 1] = x /\ \A i \in 1..Len(r) : r2[i] = r[i]
  BY Appended
<1>2. Len(q) \in Nat /\ Len(r) \in Nat
  BY LenProperties
<1> HIDE DEF q2, r2
<1>3. ASSUME NEW k \in 1..Len(r2) PROVE q2[Len(q2) - Len(r2) + k] = r2[k]
  <2>1. Len(q2) - Len(r2) + k = Len(q) - Len(r) + k
    BY <1>1, <1>2
  <2>2. CASE k = Len(r) + 1
    <3>1. Len(q) - Len(r) + k = Len(q) + 1
      BY <2>2, <1>2
    <3>2. QED
      BY <2>1, <2>2, <3>1, <1>1
  <2>3. CASE k # Len(r) + 1
    <3>1. k \in 1..Len(r) /\ Len(q) - Len(r) + k \in 1..Len(q)
      BY <2>3, <1>1, <1>2
    <3>2. q[Len(q) - Len(r) + k] = r[k]
      BY <3>1 DEF MemoryHolds
    <3>3. QED
      BY <2>1, <3>1, <3>2, <1>1
  <2>4. QED
    BY <2>2, <2>3
<1>4. MemoryFits(q2, r2)
  BY <1>1, <1>2, <1>3, RateConstants DEF MemoryFits, MemoryHolds
<1>5. QED
  BY <1>4 DEF q2, r2

LEMMA MemoryTail ==
  ASSUME NEW q \in Seq(Times), NEW r \in Seq(Times), MemoryHolds(q, r), Len(r) < Len(q)
  PROVE  /\ Tail(q) \in Seq(Times) /\ Len(Tail(q)) = Len(q) - 1
         /\ MemoryHolds(Tail(q), r) /\ Len(r) <= Len(Tail(q))
<1>1. Len(q) \in Nat /\ Len(r) \in Nat
  BY LenProperties
<1>2. q # <<>>
  BY <1>1, EmptySeq
<1>3. /\ Tail(q) \in Seq(Times) /\ Len(Tail(q)) = Len(q) - 1
      /\ \A i \in 1..Len(Tail(q)) : Tail(q)[i] = q[i + 1]
  BY <1>2, HeadTailProperties
<1> DEFINE t == Tail(q)
<1> HIDE DEF t
<1>4. ASSUME NEW k \in 1..Len(r) PROVE t[Len(t) - Len(r) + k] = r[k]
  <2>1. /\ Len(t) - Len(r) + k \in 1..Len(t)
        /\ (Len(t) - Len(r) + k) + 1 = Len(q) - Len(r) + k
    BY <1>1, <1>3 DEF t
  <2>2. t[Len(t) - Len(r) + k] = q[(Len(t) - Len(r) + k) + 1]
    BY <1>3, <2>1 DEF t
  <2>3. q[Len(q) - Len(r) + k] = r[k]
    BY DEF MemoryHolds
  <2>4. QED
    BY <2>1, <2>2, <2>3
<1>5. MemoryHolds(t, r)
  BY <1>4 DEF MemoryHolds
<1>6. QED
  BY <1>1, <1>3, <1>5 DEF t

\* The times of the slice that are as old as the duration, or older.
LEMMA MemoryOld ==
  ASSUME RateTypeOK, TimesRecent, MemoryKept, NEW i \in 1..Len(queue), clock - queue[i] >= Duration
  PROVE  i <= Len(queue) - Len(recent)
<1>1. Len(queue) \in Nat /\ Len(recent) \in Nat
  BY RateTypes
<1> SUFFICES ASSUME i > Len(queue) - Len(recent) PROVE FALSE
  BY <1>1
<1> DEFINE k == i - (Len(queue) - Len(recent))
<1>2. k \in 1..Len(recent) /\ Len(queue) - Len(recent) + k = i
  BY <1>1 DEF MemoryKept, MemoryFits
<1> HIDE DEF k
<1>3. queue[i] = recent[k]
  BY <1>2 DEF MemoryKept, MemoryFits, MemoryHolds
<1>4. clock - recent[k] < Duration
  BY <1>2 DEF TimesRecent, Young
<1>5. recent[k] \in Times /\ clock \in Times
  BY <1>2, RateTypes, ElementOfSeq
<1>6. QED
  BY <1>3, <1>4, <1>5, RateConstants DEF Times

LEMMA MemoryGoesOn ==
  ASSUME RateInv, limiter = "memory", limiter' = limiter, RateTypeOK', TimesRecent', handler' = handler,
         MemoryFits(queue', recent')
  PROVE  RateInv'
<1>1. HandlersFit'
  BY DEF RateInv, HandlersFit
<1>2. LimiterKept'
  BY DEF LimiterKept, MemoryKept
<1>3. QED
  BY <1>1, <1>2 DEF RateInv

LEMMA RequestStep == ASSUME RateInv, Request PROVE RateInv'
<1>1. /\ RateTypeOK /\ TimesRecent /\ limiter = "memory" /\ limiter' = limiter /\ clock' = clock
      /\ handler' = handler /\ MemoryKept /\ UNCHANGED <<touched, strain, window, decided, carried>>
      /\ handled' = handled + 1 /\ handled < MaxHandled
  BY DEF Request, RateInv, LimiterKept, channelCounts
<1>2. /\ handler \in [Handlers -> HandlerPcs] /\ queue \in Seq(Times) /\ recent \in Seq(Times)
      /\ clock \in Times /\ touched \in Times /\ Len(queue) \in Nat /\ Len(recent) \in Nat
      /\ strain \subseteq {"overlap", "lapsed", "unrecorded"}
      /\ SlotsOf(strain) \in Nat /\ 1 <= SlotsOf(strain)
  BY <1>1, RateTypes
<1>3. handled' \in 0..MaxHandled
  BY <1>1, RateTypes, RateConstants
<1>4. CASE UNCHANGED <<queue, recent>>
  <2>1. RateTypeOK'
    BY <1>1, <1>3, <1>4 DEF RateTypeOK
  <2>2. TimesRecent'
    BY <1>1, <1>4 DEF TimesRecent
  <2>3. MemoryFits(queue', recent')
    BY <1>1, <1>4 DEF MemoryKept
  <2>4. QED
    BY <1>1, <2>1, <2>2, <2>3, MemoryGoesOn
<1>5. ASSUME NEW q \in Seq(Times), MemoryHolds(q, recent), Len(recent) <= Len(q), Len(q) < MaxRequestNum,
             queue' = Append(q, clock), recent' = Append(recent, clock)
      PROVE  RateInv'
  <2>1. queue' \in Seq(Times) /\ recent' \in Seq(Times)
    BY <1>2, <1>5, Appended
  <2>2. RateTypeOK'
    BY <1>1, <1>3, <2>1 DEF RateTypeOK, Times
  <2>3. TimesRecent'
    BY <1>1, <1>2, <1>5, YoungLater DEF TimesRecent
  <2>4. MemoryFits(queue', recent')
    BY <1>2, <1>5, MemoryAdmits
  <2>5. QED
    BY <1>1, <2>2, <2>3, <2>4, MemoryGoesOn
<1>6. CASE Len(queue) < MaxRequestNum /\ queue' = Append(queue, clock) /\ Admitted
  BY <1>1, <1>2, <1>5, <1>6 DEF Admitted, MemoryKept, MemoryFits
<1>7. CASE /\ Len(queue) >= MaxRequestNum /\ clock - queue[1] >= Duration
           /\ queue' = Append(Tail(queue), clock) /\ Admitted
  <2>1. 1 \in 1..Len(queue) /\ Len(queue) = MaxRequestNum
    BY <1>1, <1>2, <1>7, RateConstants DEF MemoryKept, MemoryFits
  <2>2. 1 <= Len(queue) - Len(recent)
    BY <1>1, <1>7, <2>1, MemoryOld
  <2>3. Len(recent) < Len(queue)
    BY <1>2, <2>2
  <2>4. /\ Tail(queue) \in Seq(Times) /\ Len(Tail(queue)) = Len(queue) - 1
        /\ MemoryHolds(Tail(queue), recent) /\ Len(recent) <= Len(Tail(queue))
    BY <1>1, <1>2, <2>3, MemoryTail DEF MemoryKept, MemoryFits
  <2>5. Len(Tail(queue)) < MaxRequestNum
    BY <1>2, <2>1, <2>4
  <2>6. queue' = Append(Tail(queue), clock) /\ recent' = Append(recent, clock)
    BY <1>7 DEF Admitted
  <2>7. QED
    BY <1>5, <2>4, <2>5, <2>6
<1>8. QED
  BY <1>4, <1>6, <1>7 DEF Request

LEMMA SweepStep == ASSUME RateInv, Sweep PROVE RateInv'
<1>1. /\ RateTypeOK /\ TimesRecent /\ limiter = "memory" /\ limiter' = limiter /\ clock' = clock
      /\ handler' = handler /\ MemoryKept /\ UNCHANGED <<touched, strain, window, decided, carried, handled, recent>>
      /\ queue # <<>> /\ clock - queue[Len(queue)] > Expiration /\ queue' = <<>>
  BY DEF Sweep, RateInv, LimiterKept, channelCounts
<1>2. /\ handler \in [Handlers -> HandlerPcs] /\ queue \in Seq(Times) /\ recent \in Seq(Times)
      /\ clock \in Times /\ touched \in Times /\ Len(queue) \in Nat /\ Len(recent) \in Nat
      /\ strain \subseteq {"overlap", "lapsed", "unrecorded"}
      /\ SlotsOf(strain) \in Nat /\ 1 <= SlotsOf(strain)
  BY <1>1, RateTypes
<1>3. Len(queue) \in 1..Len(queue)
  BY <1>1, <1>2, EmptySeq
<1>4. clock - queue[Len(queue)] >= Duration
  <2>1. queue[Len(queue)] \in Times
    BY <1>2, <1>3, ElementOfSeq
  <2>2. QED
    BY <1>1, <1>2, <2>1, RateConstants DEF Times
<1>5. Len(queue) <= Len(queue) - Len(recent)
  BY <1>1, <1>3, <1>4, MemoryOld
<1>6. Len(recent') = 0 /\ Len(queue') = 0
  BY <1>1, <1>2, <1>5
<1>7. MemoryFits(queue', recent')
  BY <1>6, RateConstants DEF MemoryFits, MemoryHolds
<1>8. queue' \in Seq(Times)
  BY <1>1, EmptySeq
<1>9. RateTypeOK'
  BY <1>1, <1>8 DEF RateTypeOK, Times
<1>10. TimesRecent'
  BY <1>1 DEF TimesRecent
<1>11. QED
  BY <1>1, <1>7, <1>9, <1>10, MemoryGoesOn

-----------------------------------------------------------------------------
(* The counter of a channel.                                               *)

LEMMA WindowTypes ==
  ASSUME RateTypeOK
  PROVE  /\ window \in [count : Nat, reset : Nat] /\ decided \in Nat /\ carried \in Nat
         /\ Fresh \in [count : Nat, reset : Nat] /\ Fresh.count = 1
         /\ Counted \in [count : Nat, reset : Nat] /\ Counted.count = window.count + 1
<1>1. window \in [count : Nat, reset : Nat] /\ decided \in Nat /\ carried \in Nat
  BY DEF RateTypeOK
<1>2. clock + Duration \in Nat
  BY RateTypes, RateConstants DEF Times
<1>3. QED
  BY <1>1, <1>2 DEF Fresh, Counted

LEMMA ChannelGoesOn ==
  ASSUME RateInv, limiter = "channel", limiter' = limiter, RateTypeOK', TimesRecent', HandlersFit',
         WindowFits(window', decided', carried', handler')
  PROVE  RateInv'
<1>1. LimiterKept'
  BY DEF LimiterKept, WindowCounted
<1>2. QED
  BY <1>1 DEF RateInv

LEMMA CheckChannelStep == ASSUME RateInv, NEW h \in Handlers, CheckChannel(h) PROVE RateInv'
<1>1. /\ RateTypeOK /\ limiter = "channel" /\ limiter' = limiter /\ clock' = clock /\ Arrives(h)
      /\ handler[h] = "idle" /\ WindowCounted /\ UNCHANGED <<queue, touched, recent>>
  BY DEF CheckChannel, Arrives, RateInv, LimiterKept
<1>2. /\ handler \in [Handlers -> HandlerPcs] /\ queue \in Seq(Times) /\ recent \in Seq(Times)
      /\ clock \in Times /\ touched \in Times /\ Len(queue) \in Nat /\ Len(recent) \in Nat
      /\ strain \subseteq {"overlap", "lapsed", "unrecorded"}
      /\ SlotsOf(strain) \in Nat /\ 1 <= SlotsOf(strain)
  BY <1>1, RateTypes
<1>3. TimesRecent'
  BY <1>1 DEF RateInv, TimesRecent
<1>4. handled' \in 0..MaxHandled /\ strain' \subseteq {"overlap", "lapsed", "unrecorded"}
  <2>1. handled' \in 0..MaxHandled
    BY <1>1, RateTypes, RateConstants DEF Arrives
  <2>2. strain' = strain \cup {x \in {"overlap"} : UnderWay}
    BY <1>1 DEF Arrives
  <2>3. QED
    BY <2>1, <2>2, <1>2
<1>5. CASE UNCHANGED <<channelCounts, handler>>
  <2>1. RateTypeOK'
    BY <1>1, <1>4, <1>5 DEF RateTypeOK, channelCounts
  <2>2. HandlersFit'
    BY <1>1, <1>5 DEF RateInv, HandlersFit
  <2>3. WindowFits(window', decided', carried', handler')
    BY <1>1, <1>5 DEF WindowCounted, channelCounts
  <2>4. QED
    BY <1>1, <1>3, <2>1, <2>2, <2>3, ChannelGoesOn
<1>6. CASE /\ Moves(h, "count")
           /\ \/ window' = Fresh /\ decided' = 1 /\ carried' = 0
              \/ /\ window.count < ChannelLimit
                 /\ window' = Counted /\ decided' = decided + 1 /\ UNCHANGED carried
  <2>1. handler' \in [Handlers -> HandlerPcs] /\ Moved(handler', handler, "idle", "count")
    BY <1>1, <1>6, HandlerGoes DEF HandlerPcs
  <2>2. HandlersFit'
    BY <1>1, <1>6, HandlersStayFit DEF HandlerPcs
  <2>3. window' \in [count : Nat, reset : Nat] /\ decided' \in Nat /\ carried' \in Nat
    BY <1>1, <1>6, WindowTypes
  <2>4. RateTypeOK'
    BY <1>1, <1>4, <2>1, <2>3 DEF RateTypeOK, HandlerPcs
  <2>5. ManyOf(handler', "count") = ManyOf(handler, "count") + 1
    BY <2>1 DEF Moved
  <2>6. /\ ManyOf(handler', "count") \in Nat /\ ManyOf(handler, "count") \in Nat
        /\ ManyOf(handler', "count") <= Cardinality(Handlers)
    BY ManyTypes
  <2>7. WindowFits(window', decided', carried', handler')
    <3>1. CASE window' = Fresh /\ decided' = 1 /\ carried' = 0
      BY <3>1, <2>6, <1>1, WindowTypes, RateConstants DEF WindowFits
    <3>2. CASE window.count < ChannelLimit /\ window' = Counted /\ decided' = decided + 1 /\ UNCHANGED carried
      BY <3>2, <2>5, <2>6, <1>1, WindowTypes, RateConstants DEF WindowFits, WindowCounted
    <3>3. QED
      BY <1>6, <3>1, <3>2
  <2>8. QED
    BY <1>1, <1>3, <2>2, <2>4, <2>7, ChannelGoesOn
<1>7. QED
  BY <1>5, <1>6 DEF CheckChannel

LEMMA CountChannelStep == ASSUME RateInv, NEW h \in Handlers, CountChannel(h) PROVE RateInv'
<1>1. /\ RateTypeOK /\ limiter = "channel" /\ limiter' = limiter /\ clock' = clock
      /\ handler[h] = "count" /\ Moves(h, "idle") /\ WindowCounted
      /\ UNCHANGED <<queue, touched, recent, handled, strain>>
  BY DEF CountChannel, RateInv, LimiterKept, HandlersFit
<1>2. \/ window' = Fresh /\ decided' = 0 /\ carried' = 1
      \/ window' = Counted /\ carried' = carried + 1 /\ UNCHANGED decided
  BY DEF CountChannel
<1>3. TimesRecent'
  BY <1>1 DEF RateInv, TimesRecent
<1>4. handler' \in [Handlers -> HandlerPcs] /\ Moved(handler', handler, "count", "idle")
  BY <1>1, HandlerGoes DEF HandlerPcs
<1>5. HandlersFit'
  BY <1>1, HandlersStayFit DEF HandlerPcs
<1>6. window' \in [count : Nat, reset : Nat] /\ decided' \in Nat /\ carried' \in Nat
  BY <1>1, <1>2, WindowTypes
<1>7. RateTypeOK'
  BY <1>1, <1>4, <1>6 DEF RateTypeOK, HandlerPcs
<1>8. /\ ManyOf(handler, "count") = ManyOf(handler', "count") + 1
      /\ ManyOf(handler', "count") \in Nat
      /\ ManyOf(handler, "count") \in Nat /\ ManyOf(handler, "count") <= Cardinality(Handlers)
  BY <1>4, ManyTypes DEF Moved
<1>9. WindowFits(window', decided', carried', handler')
  <2>1. CASE window' = Fresh /\ decided' = 0 /\ carried' = 1
    BY <2>1, <1>8, <1>1, WindowTypes, RateConstants DEF WindowFits
  <2>2. CASE window' = Counted /\ carried' = carried + 1 /\ UNCHANGED decided
    BY <2>2, <1>8, <1>1, WindowTypes, RateConstants DEF WindowFits, WindowCounted
  <2>3. QED
    BY <1>2, <2>1, <2>2
<1>10. QED
  BY <1>1, <1>3, <1>5, <1>7, <1>9, ChannelGoesOn

-----------------------------------------------------------------------------
(* Time.                                                                   *)

\* The list expired while nobody was under way: no admission is within the
\* duration any longer.
LEMMA ListExpires ==
  ASSUME RateTypeOK, RedisKept, ~UnderWay, NEW now \in Nat, now - touched >= Expiration,
         NEW i \in 1..Len(recent)
  PROVE  now - recent[i] >= Duration
<1>1. ManyOf(handler, "trim") = 0
  BY NoneAt DEF UnderWay
<1>2. recent[i] <= touched
  BY <1>1 DEF RedisKept, RedisFits, TouchedLate
<1>3. recent[i] \in Times /\ touched \in Times
  BY RateTypes, ElementOfSeq
<1>4. QED
  BY <1>2, <1>3, RateConstants DEF Times

LEMMA StillYoung ==
  ASSUME NEW t \in Nat, NEW now \in Nat, NEW later \in Nat, t <= now, now <= later, ~(later - t >= Duration)
  PROVE  t <= later /\ later - t < Duration
  BY DurationAssumption

LEMMA TimePassesStep == ASSUME RateInv, TimePasses PROVE RateInv'
<1>1. /\ RateTypeOK /\ TimesRecent /\ HandlersFit /\ LimiterKept /\ limiter' = limiter /\ clock' = clock + 1
      /\ clock < MaxClock /\ UNCHANGED <<touched, window, decided, carried, handler, handled>>
      /\ queue' = IF Expires THEN <<>> ELSE queue
      /\ strain' = strain \cup {x \in {"lapsed"} : Expires /\ UnderWay}
  BY DEF TimePasses, RateInv, channelCounts
<1>2. /\ handler \in [Handlers -> HandlerPcs] /\ queue \in Seq(Times) /\ recent \in Seq(Times)
      /\ clock \in Times /\ touched \in Times /\ Len(queue) \in Nat /\ Len(recent) \in Nat
      /\ strain \subseteq {"overlap", "lapsed", "unrecorded"}
      /\ SlotsOf(strain) \in Nat /\ 1 <= SlotsOf(strain)
  BY <1>1, RateTypes
<1>3. PICK k \in 0..Len(recent) :
         /\ \A i \in 1..Len(recent) : i <= k <=> clock' - recent[i] >= Duration
         /\ recent' = SubSeq(recent, k + 1, Len(recent))
  BY DEF TimePasses, Forgets
<1>4. /\ recent' \in Seq(Times) /\ Len(recent') = Len(recent) - k
      /\ \A i \in 1..Len(recent) - k : recent'[i] = recent[k + i]
  BY <1>2, <1>3, Rest
<1>5. clock' \in Times /\ clock <= clock' /\ clock' \in Nat /\ k \in Nat /\ k <= Len(recent)
  BY <1>1, <1>2, <1>3, RateConstants DEF Times
<1>6. \A i \in 1..Len(recent') : k + i \in 1..Len(recent) /\ recent'[i] = recent[k + i] /\ ~(k + i <= k)
  BY <1>2, <1>4, <1>5
<1>7. TimesRecent'
  <2> SUFFICES ASSUME NEW i \in 1..Len(recent')
               PROVE  recent'[i] <= clock' /\ clock' - recent'[i] < Duration
    BY DEF TimesRecent, Young
  <2>1. k + i \in 1..Len(recent) /\ recent'[i] = recent[k + i] /\ ~(k + i <= k)
    BY <1>6
  <2>2. recent[k + i] <= clock /\ recent[k + i] \in Times
    BY <1>1, <1>2, <2>1, ElementOfSeq DEF TimesRecent, Young
  <2>3. ~(clock' - recent[k + i] >= Duration)
    BY <1>3, <2>1
  <2> DEFINE t == recent[k + i]
  <2>4. t \in Nat /\ t <= clock /\ ~(clock' - t >= Duration) /\ clock \in Nat
    BY <2>2, <2>3, <1>2, RateConstants DEF Times
  <2>5. recent'[i] = t
    BY <2>1
  <2> HIDE DEF t
  <2>6. t <= clock' /\ clock' - t < Duration
    BY <2>4, <1>5, StillYoung
  <2>7. QED
    BY <2>5, <2>6
<1>8. queue' \in Seq(Times)
  BY <1>1, <1>2, EmptySeq
<1>9. strain' \subseteq {"overlap", "lapsed", "unrecorded"}
  BY <1>1, <1>2
<1>10. RateTypeOK'
  BY <1>1, <1>4, <1>5, <1>8, <1>9 DEF RateTypeOK, Times
<1>11. HandlersFit'
  BY <1>1 DEF HandlersFit
<1>12. CASE limiter = "memory"
  <2>1. queue' = queue /\ MemoryFits(queue, recent)
    BY <1>1, <1>12 DEF Expires, LimiterKept, MemoryKept
  <2>2. MemoryFits(queue', recent')
    BY <2>1, <1>2, <1>3, HoldsForget
  <2>3. QED
    BY <1>1, <1>7, <1>10, <1>12, <2>2, MemoryGoesOn
<1>13. CASE limiter = "channel"
  <2>1. WindowFits(window', decided', carried', handler')
    BY <1>1, <1>13 DEF LimiterKept, WindowCounted
  <2>2. QED
    BY <1>1, <1>7, <1>10, <1>11, <1>13, <2>1, ChannelGoesOn
<1>14. CASE limiter = "redis"
  <2>1. ASSUME strain' \subseteq {"overlap"}
        PROVE  RedisFits(queue', recent', handler', strain', touched')
    <3>1. ~(Expires /\ UnderWay) /\ strain' = strain
      BY <1>1, <2>1
    <3>2. RedisKept
      BY <1>1, <1>14, <2>1, <3>1 DEF LimiterKept
    <3>3. CASE Expires
      <4>1. ~UnderWay /\ queue' = <<>> /\ clock' - touched >= Expiration
        BY <1>1, <3>1, <3>3 DEF Expires
      <4>2. \A i \in 1..Len(recent) : clock' - recent[i] >= Duration
        BY <1>1, <1>5, <3>2, <4>1, ListExpires
      <4>3. Len(recent') = 0 /\ Len(queue') = 0
        BY <1>2, <1>3, <1>4, <1>5, <4>1, <4>2
      <4>4. /\ ManyOf(handler, "push") = 0 /\ ManyOf(handler, "compare") = 0
            /\ ManyOf(handler, "turn") = 0 /\ ManyOf(handler, "trim") = 0
        BY <4>1, NoneAt DEF UnderWay
      <4>5. BoundsOf(queue', recent', handler', SlotsOf(strain'))
        BY <1>1, <1>2, <3>1, <4>3, <4>4, BoundsExpire DEF BoundsOf
      <4>6. RedisHolds(queue', recent') /\ TouchedLate(handler', recent', touched')
        BY <4>3 DEF RedisHolds, TouchedLate
      <4>7. QED
        BY <4>5, <4>6 DEF RedisFits
    <3>4. CASE ~Expires
      <4>1. queue' = queue
        BY <1>1, <3>4
      <4>2. BoundsOf(queue', recent', handler', SlotsOf(strain'))
        <5> DEFINE pu == ManyOf(handler, "push")  co == ManyOf(handler, "compare")
                   tu == ManyOf(handler, "turn")  tr == ManyOf(handler, "trim")
        <5>1. pu \in Nat /\ co \in Nat /\ tu \in Nat /\ tr \in Nat
          BY ManyTypes
        <5>2. RedisBounds(Len(queue), Len(recent), pu, co, tu, tr, SlotsOf(strain))
          BY <3>2 DEF RedisKept, RedisFits, BoundsOf
        <5> HIDE DEF pu, co, tu, tr
        <5>3. Len(recent') \in Nat /\ Len(recent') <= Len(recent)
          BY <1>2, <1>4, <1>5
        <5>4. RedisBounds(Len(queue), Len(recent'), pu, co, tu, tr, SlotsOf(strain))
          BY <5>1, <5>2, <5>3, <1>2, BoundsForget
        <5>5. QED
          BY <5>4, <1>1, <3>1, <4>1 DEF BoundsOf, pu, co, tu, tr
      <4>3. RedisHolds(queue', recent')
        BY <1>2, <1>3, <3>2, <4>1, HoldsForget DEF RedisKept, RedisFits
      <4>4. TouchedLate(handler', recent', touched')
        BY <1>1, <1>6, <3>2 DEF RedisKept, RedisFits, TouchedLate
      <4>5. QED
        BY <4>2, <4>3, <4>4 DEF RedisFits
    <3>5. QED
      BY <3>3, <3>4
  <2>2. QED
    BY <1>1, <1>7, <1>10, <1>11, <1>14, <2>1, RedisGoesOn DEF RateInv
<1>15. limiter \in {"redis", "memory", "channel"}
  BY <1>1, LimitersAssumption DEF RateTypeOK
<1>16. QED
  BY <1>12, <1>13, <1>14, <1>15

-----------------------------------------------------------------------------
LEMMA RateInitInv == ASSUME RateInit PROVE RateInv
<1>1. /\ queue = <<>> /\ recent = <<>> /\ Len(queue) = 0 /\ Len(recent) = 0
      /\ queue \in Seq(Times) /\ recent \in Seq(Times)
  BY EmptySeq DEF RateInit
<1>2. RateTypeOK
  <2>1. 0 \in Times /\ 0 \in 0..MaxHandled /\ window \in [count : Nat, reset : Nat]
    BY RateConstants DEF RateInit, Times
  <2>2. handler \in [Handlers -> HandlerPcs]
    BY DEF RateInit, HandlerPcs
  <2>3. QED
    BY <1>1, <2>1, <2>2 DEF RateInit, RateTypeOK, Times, HandlerPcs
<1>3. TimesRecent
  BY <1>1 DEF TimesRecent, Young
<1>4. HandlersFit
  BY DEF RateInit, HandlersFit
<1>5. \A x \in Handlers : handler[x] = "idle"
  BY DEF RateInit
<1>6. /\ ManyOf(handler, "push") = 0 /\ ManyOf(handler, "compare") = 0
      /\ ManyOf(handler, "turn") = 0 /\ ManyOf(handler, "trim") = 0 /\ ManyOf(handler, "count") = 0
  BY <1>5, NoneAt
<1>7. RedisKept
  <2>1. RedisBounds(0, 0, 0, 0, 0, 0, SlotsOf(strain))
    BY <1>2, RateTypes, BoundsExpire
  <2>2. QED
    BY <1>1, <1>6, <2>1 DEF RedisKept, RedisFits, BoundsOf, RedisHolds, TouchedLate
<1>8. MemoryKept
  BY <1>1, RateConstants DEF MemoryKept, MemoryFits, MemoryHolds
<1>9. WindowCounted
  BY <1>6, RateConstants DEF RateInit, WindowCounted, WindowFits
<1>10. QED
  BY <1>2, <1>3, <1>4, <1>7, <1>8, <1>9 DEF RateInv, LimiterKept

LEMMA RateStutters == ASSUME RateInv, UNCHANGED rateVars PROVE RateInv'
<1>1. RateTypeOK' /\ TimesRecent' /\ HandlersFit'
  BY DEF RateInv, RateTypeOK, TimesRecent, HandlersFit, rateVars
<1>2. LimiterKept'
  BY DEF RateInv, LimiterKept, RedisKept, MemoryKept, WindowCounted, rateVars
<1>3. QED
  BY <1>1, <1>2 DEF RateInv

LEMMA RateStep == ASSUME RateInv, [RateNext]_rateVars PROVE RateInv'
<1>1. CASE RateNext
  BY <1>1, TimePassesStep, CountStep, PushStep, CompareStep, RedisTurnStep, TrimStep, RequestStep, SweepStep,
     CheckChannelStep, CountChannelStep DEF RateNext
<1>2. QED
  BY <1>1, RateStutters

LEMMA RateHolds == ASSUME RateInv PROVE RateTypeOK /\ LimitKept
<1>1. RateTypeOK /\ Len(recent) \in Nat
  BY RateTypes DEF RateInv
<1>2. ASSUME limiter = "redis", strain \subseteq {"overlap"}
      PROVE  Len(recent) <= MaxRequestNum + 2 * (SlotsOf(strain) - 1)
  <2> DEFINE pu == ManyOf(handler, "push")  tu == ManyOf(handler, "turn")  sl == SlotsOf(strain)
  <2>1. pu \in Nat /\ tu \in Nat /\ sl \in Nat /\ 1 <= sl
    BY <1>1, ManyTypes, RateTypes
  <2>2. Len(recent) + tu + pu <= MaxRequestNum + 2 * (sl - 1)
    BY <1>2 DEF RateInv, LimiterKept, RedisKept, RedisFits, BoundsOf, RedisBounds
  <2> HIDE DEF pu, tu, sl
  <2>3. Len(recent) <= MaxRequestNum + 2 * (sl - 1)
    BY <2>1, <2>2, <1>1, RateConstants
  <2>4. QED
    BY <2>3 DEF sl
<1>3. limiter = "memory" => Len(recent) <= MaxRequestNum
  BY <1>1, RateTypes, RateConstants DEF RateInv, LimiterKept, MemoryKept, MemoryFits
<1>4. limiter = "redis" /\ strain = {} => Len(recent) <= MaxRequestNum
  BY <1>1, <1>2, RateConstants DEF SlotsOf
<1>5. limiter = "redis" /\ strain \subseteq {"overlap"} => Len(recent) <= MaxRequestNum + 2 * Overlaps
  <2> SUFFICES ASSUME limiter = "redis", strain \subseteq {"overlap"}
               PROVE  Len(recent) <= MaxRequestNum + 2 * Overlaps
    OBVIOUS
  <2>1. CASE strain = {}
    BY <2>1, <1>1, <1>4, RateConstants DEF Overlaps
  <2>2. CASE strain # {}
    BY <2>2, <1>2 DEF SlotsOf, Overlaps
  <2>3. QED
    BY <2>1, <2>2
<1>6. limiter = "channel" => ChannelKept
  <2> SUFFICES ASSUME limiter = "channel" PROVE ChannelKept
    OBVIOUS
  <2> DEFINE many == ManyOf(handler, "count")
  <2>1. WindowCounted /\ many \in Nat
    BY ManyTypes DEF RateInv, LimiterKept
  <2>2. decided <= ChannelLimit /\ window.count = decided + carried
        /\ carried + many <= decided + Cardinality(Handlers)
    BY <2>1 DEF WindowCounted, WindowFits
  <2>3. decided \in Nat /\ carried \in Nat /\ window.count \in Nat /\ Cardinality(Handlers) \in Nat
    BY <1>1, WindowTypes, RateConstants
  <2> HIDE DEF many
  <2>4. QED
    BY <2>1, <2>2, <2>3, RateConstants DEF ChannelKept
<1>7. limiter \in {"redis", "memory", "channel"}
  BY <1>1, LimitersAssumption DEF RateTypeOK
<1>8. CASE limiter = "channel"
  BY <1>1, <1>6, <1>8 DEF LimitKept
<1>9. CASE limiter # "channel"
  <2>1. WindowKept
    BY <1>3, <1>4, <1>5, <1>7, <1>9 DEF WindowKept
  <2>2. QED
    BY <1>1, <1>9, <2>1 DEF LimitKept
<1>10. QED
  BY <1>8, <1>9

(* For any number of handlers, limits and times: no more are admitted within  *)
(* the duration than the limit, and the overlaps in Redis, let in; and a     *)
(* channel is used and refused as its count says (redisRateLimiter,          *)
(* memoryRateLimiter, isRateLimited).                                        *)
THEOREM RatesLimited == RateSpec => [](RateTypeOK /\ LimitKept)
<1>1. RateInit => RateInv
  BY RateInitInv
<1>2. RateInv /\ [RateNext]_rateVars => RateInv'
  BY RateStep
<1>3. RateInv => RateTypeOK /\ LimitKept
  BY RateHolds
<1>4. QED
  BY <1>1, <1>2, <1>3, PTL DEF RateSpec

-----------------------------------------------------------------------------
(* The services together: a behaviour is one of a service, and the batched *)
(* updates and the code keep what they promise in each.                    *)

ServerInv ==
    /\ BooksInv /\ CodeInv
    /\ service = "rates" => RateInv
    /\ service = "tasks" => SettledInv
    /\ service = "channels" => ChannelInv

LEMMA ServerInitInv == ServerInit => ServerInv
  BY BooksInitInv, CodeInitInv, RateInitInv, SettledInitInv, ChannelInitInv DEF ServerInit, ServerInv

(* What a step of the server is to each of the services.                   *)
LEMMA ServerMoves ==
  ASSUME [ServerNext]_serverVars
  PROVE  /\ service' = service /\ [BatchNext]_batchVars /\ [CodeNext]_codeVars
         /\ service = "rates" => [RateNext]_rateVars
         /\ service = "tasks" => [MjNext]_mjVars
         /\ service = "channels" => [ChannelNext]_channelVars
<1>1. CASE UNCHANGED serverVars
  BY <1>1 DEF serverVars
<1>2. CASE OnBatch
  BY <1>2 DEF OnBatch, OtherBatch
<1>3. CASE OnCodes
  BY <1>3 DEF OnCodes
<1>4. CASE OnRates
  BY <1>4 DEF OnRates
<1>5. CASE OnTasks
  BY <1>5 DEF OnTasks
<1>6. CASE OnChannels
  BY <1>6 DEF OnChannels
<1>7. QED
  BY <1>1, <1>2, <1>3, <1>4, <1>5, <1>6 DEF ServerNext

LEMMA ServerStep == ServerInv /\ [ServerNext]_serverVars => ServerInv'
<1> SUFFICES ASSUME ServerInv, [ServerNext]_serverVars PROVE ServerInv'
  OBVIOUS
<1>1. /\ service' = service /\ [BatchNext]_batchVars /\ [CodeNext]_codeVars
      /\ service = "rates" => [RateNext]_rateVars
      /\ service = "tasks" => [MjNext]_mjVars
      /\ service = "channels" => [ChannelNext]_channelVars
  BY ServerMoves
<1>2. BooksInv' /\ CodeInv'
  BY <1>1, BooksStep, CodeStep DEF ServerInv
<1>3. service' = "tasks" => SettledInv'
  BY <1>1, SettledStep DEF ServerInv
<1>4. service' = "channels" => ChannelInv'
  BY <1>1, ChannelStep DEF ServerInv
<1>5. service' = "rates" => RateInv'
  BY <1>1, RateStep DEF ServerInv
<1>6. QED
  BY <1>2, <1>3, <1>4, <1>5 DEF ServerInv

LEMMA ServerInvAlways == ServerSpec => []ServerInv
  BY ServerInitInv, ServerStep, PTL DEF ServerSpec

(* Whatever the server does, the amounts of the batched updates are        *)
(* conserved, and at rest the rows agree with the settlements (addNewRecord,*)
(* batchUpdate); a code is given once (Redeem).                            *)
THEOREM ServerBooks == ServerSpec => [](Conserved /\ BooksAgree /\ CodeGivenOnce)
<1>1. ServerInv => Conserved /\ BooksAgree /\ CodeGivenOnce
  BY BooksAtRest, CodeHolds DEF ServerInv, BooksInv, BatchInv
<1>2. QED
  BY <1>1, ServerInvAlways, PTL

(* The limiters keep their limits (redisRateLimiter, memoryRateLimiter,      *)
(* isRateLimited).                                                         *)
THEOREM ServerRates == ServerSpec => []RatesKept
<1>1. ServerInv => RatesKept
  BY RateHolds DEF ServerInv, RatesKept
<1>2. QED
  BY <1>1, ServerInvAlways, PTL

(* Midjourney tasks are settled (UpdateMidjourneyTaskBulk,                 *)
(* RelayMidjourneyNotify).                                                 *)
THEOREM ServerTasks == ServerSpec => []TasksSettled
<1>1. ServerInv => TasksSettled
  BY SettledHolds DEF ServerInv, TasksSettled
<1>2. QED
  BY <1>1, ServerInvAlways, PTL

(* The abilities follow the status of their channel, which stays as it was *)
(* set by hand (Update, UpdateChannelStatusById, testAllChannels).         *)
THEOREM ServerChannels == ServerSpec => []ChannelStatusKept
<1>1. ServerInv => ChannelStatusKept
  BY ChannelHolds DEF ServerInv, ChannelStatusKept
<1>2. QED
  BY <1>1, ServerInvAlways, PTL

(* Retries go to other channels (Relay).                                   *)
THEOREM ServerRetries == ServerSpec => []ChannelTriedElsewhere
<1>1. ServerInv => ChannelTriedElsewhere
  BY ChannelHolds DEF ServerInv, ChannelTriedElsewhere
<1>2. QED
  BY <1>1, ServerInvAlways, PTL

-----------------------------------------------------------------------------
(***************************************************************************)
(* Online top-ups.  Once says who may be under way with an order that was  *)
(* never found pending twice.  Placed says that what is paid has been      *)
(* requested; Explains carries the reason of an answer from the step that  *)
(* makes it true to the answer.  Booked counts who is still to record or   *)
(* reward.                                                                 *)
(***************************************************************************)

Alone(n, o) ==
    /\ credited[o] = 0
    /\ \A m \in Notices : m # n => ~Handling(m, "save", o) /\ ~Handling(m, "credit", o)

Once ==
    \A o \in Orders \ overlapped :
        /\ credited[o] <= 1
        /\ \A n \in Notices : Handling(n, "save", o) \/ Handling(n, "credit", o) => Alone(n, o)
        /\ table[o].status # "success" =>
              credited[o] = 0 /\ \A n \in Notices : ~Handling(n, "credit", o)

Requested(o) == table[o].status # "none"

Placed ==
    /\ \A o \in paid : Requested(o)
    /\ answered \subseteq paid
    /\ \A o, p \in Orders : p < o /\ Requested(o) => Requested(p)
    /\ \A n \in Notices : /\ notice[n].pc # "idle" => notice[n].order \in paid
                          /\ notice[n].pc = "save" => Requested(notice[n].found)

Settled(o) == Handled(o) \/ o \in broken

\* Notifications past the credit, or about another row than the order paid.
Decided(n) ==
    \/ notice[n].pc \in {"record", "reward", "answer"}
    \/ notice[n].pc \in {"save", "credit"} /\ notice[n].found # notice[n].order

Explains ==
    /\ \A o \in Orders : table[o].status = "success" => Settled(o)
    /\ \A o \in answered : Explained(o)
    /\ \A n \in Notices : Decided(n) => Explained(notice[n].order)

OrderInv == OrderTypeOK /\ Once /\ Placed /\ Explains

-----------------------------------------------------------------------------
LEMMA OrderInitInv == OrderInit => OrderInv
<1>1. SUFFICES ASSUME OrderInit PROVE OrderInv
  OBVIOUS
<1>2. OrderTypeOK
  BY <1>1, BoundsAssumption DEF OrderInit, OrderTypeOK, OrderRow, Notice, Idle, Zero
<1>3. Once
  BY <1>1 DEF OrderInit, Once, Handling, Alone, Idle, Zero
<1>4. Placed
  BY <1>1 DEF OrderInit, Placed, Requested, Idle
<1>5. Explains
  BY <1>1 DEF OrderInit, Explains, Decided, Idle
<1>6. QED
  BY <1>2, <1>3, <1>4, <1>5 DEF OrderInv

(* A notification that goes on, or stops.                                  *)
LEMMA NoticeType ==
  ASSUME OrderTypeOK, NEW n \in Notices, NEW k \in Notice,
         k.pc \in {"save", "credit", "record", "reward"} => k.found \in Orders,
         k.pc # "idle" => k.order \in Orders,
         notice' = [notice EXCEPT ![n] = k]
  PROVE  /\ notice' \in [Notices -> Notice]
         /\ \A m \in Notices :
               /\ notice'[m].pc \in {"save", "credit", "record", "reward"} => notice'[m].found \in Orders
               /\ notice'[m].pc # "idle" => notice'[m].order \in Orders
  BY DEF OrderTypeOK

LEMMA GoesType ==
  ASSUME OrderTypeOK, NEW n \in Notices, notice[n].pc \in {"save", "credit", "record", "reward"},
         NEW pc \in {"credit", "record", "reward", "answer"}, NoticeGoes(n, pc)
  PROVE  /\ notice' \in [Notices -> Notice]
         /\ \A m \in Notices :
               /\ notice'[m].pc \in {"save", "credit", "record", "reward"} => notice'[m].found \in Orders
               /\ notice'[m].pc # "idle" => notice'[m].order \in Orders
<1> DEFINE k == [notice[n] EXCEPT !.pc = pc]
<1>1. notice[n] \in Notice /\ notice[n].found \in Orders /\ notice[n].order \in Orders
  BY DEF OrderTypeOK
<1>2. k \in Notice /\ k.found = notice[n].found /\ k.order = notice[n].order /\ k.pc = pc
  BY <1>1 DEF Notice
<1>3. notice' = [notice EXCEPT ![n] = k]
  BY DEF NoticeGoes
<1> HIDE DEF k
<1>4. QED
  BY <1>1, <1>2, <1>3, NoticeType

LEMMA IdleType ==
  ASSUME OrderTypeOK, NEW n \in Notices, notice' = [notice EXCEPT ![n] = Idle]
  PROVE  /\ notice' \in [Notices -> Notice]
         /\ \A m \in Notices :
               /\ notice'[m].pc \in {"save", "credit", "record", "reward"} => notice'[m].found \in Orders
               /\ notice'[m].pc # "idle" => notice'[m].order \in Orders
<1>1. Idle \in Notice /\ Idle.pc = "idle"
  BY DEF Idle, Notice
<1>2. QED
  BY <1>1, NoticeType

LEMMA CutType ==
  ASSUME OrderTypeOK, NEW N \in SUBSET Notices
  PROVE  Cut(N) \subseteq Orders
  BY DEF Cut, OrderTypeOK

LEMMA BumpType ==
  ASSUME NEW f \in [Orders -> Nat], NEW o \in Orders
  PROVE  [f EXCEPT ![o] = @ + 1] \in [Orders -> Nat]
  OBVIOUS

LEMMA OrderTypeInv == OrderTypeOK /\ [OrderNext]_orderVars => OrderTypeOK'
<1>1. SUFFICES ASSUME OrderTypeOK, [OrderNext]_orderVars PROVE OrderTypeOK'
  OBVIOUS
<1>2. CASE UNCHANGED orderVars
  BY <1>1, <1>2 DEF OrderTypeOK, orderVars, books
<1>3. ASSUME NEW o \in Orders, RequestEpay(o) PROVE OrderTypeOK'
  <2>1. PICK ratio \in Ratios :
           table' = [table EXCEPT ![o] = [status |-> "pending", trade |-> millis, ratio |-> ratio]]
    BY <1>3 DEF RequestEpay
  <2>2. [status |-> "pending", trade |-> millis, ratio |-> ratio] \in OrderRow
    BY <1>1, RatiosAssumption DEF OrderTypeOK, OrderRow
  <2>3. QED
    BY <1>1, <1>3, <2>1, <2>2 DEF OrderTypeOK, RequestEpay, books
<1>4. ASSUME NEW o \in Orders, Pay(o) PROVE OrderTypeOK'
  BY <1>1, <1>4 DEF OrderTypeOK, Pay, books
<1>5. CASE DeletePending
  <2>1. \A o \in Orders : [table[o] EXCEPT !.status = "deleted"] \in OrderRow
    BY <1>1 DEF OrderTypeOK, OrderRow
  <2>2. table' \in [Orders -> OrderRow]
    BY <1>1, <1>5, <2>1 DEF OrderTypeOK, DeletePending
  <2>3. QED
    BY <1>1, <1>5, <2>2 DEF OrderTypeOK, DeletePending, books
<1>6. CASE Tick
  BY <1>1, <1>6 DEF OrderTypeOK, Tick, books
<1>7. ASSUME NEW n \in Notices, NEW o \in Orders, Deliver(n, o) PROVE OrderTypeOK'
  <2>1. CASE \E f \in Orders :
               /\ notice' = [notice EXCEPT ![n] = [pc |-> "save", order |-> o, found |-> f]]
               /\ overlapped' \in {overlapped, overlapped \cup {f}}
    <3>1. PICK f \in Orders :
               /\ notice' = [notice EXCEPT ![n] = [pc |-> "save", order |-> o, found |-> f]]
               /\ overlapped' \in {overlapped, overlapped \cup {f}}
      BY <2>1
    <3>2. [pc |-> "save", order |-> o, found |-> f] \in Notice
      BY DEF Notice
    <3>3. QED
      BY <1>1, <1>7, <3>1, <3>2, NoticeType DEF OrderTypeOK, Deliver, books
  <2>2. CASE /\ notice' = [notice EXCEPT ![n] = [pc |-> Unfound, order |-> o, found |-> 0]]
             /\ UNCHANGED overlapped
    <3>1. [pc |-> Unfound, order |-> o, found |-> 0] \in Notice
      BY DEF Notice, Unfound
    <3>2. QED
      BY <1>1, <1>7, <2>2, <3>1, NoticeType DEF OrderTypeOK, Deliver, books, Unfound
  <2>3. QED
    BY <1>7, <2>1, <2>2 DEF Deliver
<1>8. ASSUME NEW n \in Notices, Save(n) PROVE OrderTypeOK'
  <2>1. notice[n].found \in Orders
    BY <1>1, <1>8 DEF OrderTypeOK, Save
  <2>2. [table[notice[n].found] EXCEPT !.status = "success"] \in OrderRow
    BY <1>1, <2>1 DEF OrderTypeOK, OrderRow
  <2>3. QED
    BY <1>1, <1>8, <2>1, <2>2, GoesType DEF OrderTypeOK, Save, books
<1>9. ASSUME NEW n \in Notices, Credit(n) PROVE OrderTypeOK'
  <2>1. notice[n].found \in Orders
    BY <1>1, <1>9 DEF OrderTypeOK, Credit
  <2>2. credited' \in [Orders -> Nat]
    BY <1>1, <1>9, <2>1, BumpType DEF OrderTypeOK, Credit
  <2>3. QED
    BY <1>1, <1>9, <2>1, <2>2, GoesType DEF OrderTypeOK, Credit
<1>10. ASSUME NEW n \in Notices, Record(n) PROVE OrderTypeOK'
  <2>1. notice[n].found \in Orders
    BY <1>1, <1>10 DEF OrderTypeOK, Record
  <2>2. recorded' \in [Orders -> Nat]
    BY <1>1, <1>10, <2>1, BumpType DEF OrderTypeOK, Record
  <2>3. QED
    BY <1>1, <1>10, <2>1, <2>2, GoesType DEF OrderTypeOK, Record
<1>11. ASSUME NEW n \in Notices, Reward(n) PROVE OrderTypeOK'
  <2>1. notice[n].found \in Orders
    BY <1>1, <1>11 DEF OrderTypeOK, Reward
  <2>2. rewarded' \in [Orders -> Nat]
    BY <1>1, <1>11, <2>1, BumpType DEF OrderTypeOK, Reward
  <2>3. QED
    BY <1>1, <1>11, <2>1, <2>2, GoesType DEF OrderTypeOK, Reward
<1>12. ASSUME NEW n \in Notices, Answer(n) PROVE OrderTypeOK'
  BY <1>1, <1>12, IdleType DEF OrderTypeOK, Answer, books
<1>13. ASSUME NEW n \in Notices, Malformed(n) \/ NotifyFails(n) PROVE OrderTypeOK'
  <2>1. faults' \in 0..MaxFaults /\ Stop(n)
    BY <1>1, <1>13, BoundsAssumption DEF OrderTypeOK, Malformed, NotifyFails
  <2>2. broken' \subseteq Orders
    BY <1>1, <2>1, CutType DEF OrderTypeOK, Stop
  <2>3. QED
    BY <1>1, <2>1, <2>2, IdleType DEF OrderTypeOK, Stop, Stopped, books
<1>14. CASE Crash
  <2>1. faults' \in 0..MaxFaults
    BY <1>1, <1>14, BoundsAssumption DEF OrderTypeOK, Crash
  <2>2. broken' \subseteq Orders
    BY <1>1, <1>14, CutType DEF OrderTypeOK, Crash
  <2>3. Idle \in Notice /\ Idle.pc = "idle"
    BY DEF Idle, Notice
  <2>4. QED
    BY <1>1, <1>14, <2>1, <2>2, <2>3 DEF OrderTypeOK, Crash, books
<1>15. ASSUME NEW n \in Notices, NEW o \in Orders, Misread(n, o) PROVE OrderTypeOK'
  <2>1. [pc |-> Unfound, order |-> o, found |-> 0] \in Notice
    BY DEF Notice, Unfound
  <2>2. faults' \in 0..MaxFaults /\ missed' \subseteq Orders
    BY <1>1, <1>15, BoundsAssumption DEF OrderTypeOK, Misread
  <2>3. QED
    BY <1>1, <1>15, <2>1, <2>2, NoticeType DEF OrderTypeOK, Misread, books, Unfound
<1>16. QED
  BY <1>1, <1>2, <1>3, <1>4, <1>5, <1>6, <1>7, <1>8, <1>9, <1>10, <1>11, <1>12, <1>13, <1>14,
     <1>15 DEF OrderNext, NoticeStep

-----------------------------------------------------------------------------
(* Once.                                                                   *)

(* A step that credits nothing, saves nothing and finds nothing.           *)
LEMMA OnceKept ==
  ASSUME Once, credited' = credited, overlapped' = overlapped,
         \A o \in Orders : table'[o].status # "success" => table[o].status # "success",
         \A n \in Notices : notice'[n] = notice[n] \/ notice'[n].pc \notin {"save", "credit"}
  PROVE  Once'
<1>1. SUFFICES ASSUME NEW o \in Orders \ overlapped
               PROVE  /\ credited[o] <= 1
                      /\ \A n \in Notices : (Handling(n, "save", o) \/ Handling(n, "credit", o))' => Alone(n, o)'
                      /\ table'[o].status # "success" =>
                            credited[o] = 0 /\ \A n \in Notices : ~Handling(n, "credit", o)'
  BY DEF Once
<1>2. \A n \in Notices : /\ Handling(n, "save", o)' => Handling(n, "save", o)
                         /\ Handling(n, "credit", o)' => Handling(n, "credit", o)
  BY DEF Handling
<1>3. QED
  BY <1>2 DEF Once, Alone

LEMMA GoesElsewhere ==
  ASSUME OrderTypeOK, NEW n \in Notices, NEW pc \in {"record", "reward", "answer"}, NoticeGoes(n, pc)
  PROVE  \A m \in Notices : notice'[m] = notice[m] \/ notice'[m].pc \notin {"save", "credit"}
<1>1. notice' = [notice EXCEPT ![n] = [notice[n] EXCEPT !.pc = pc]] /\ notice \in [Notices -> Notice]
  BY DEF NoticeGoes, OrderTypeOK
<1>2. notice'[n].pc = pc
  BY <1>1 DEF Notice
<1>3. QED
  BY <1>1, <1>2

LEMMA IdleElsewhere ==
  ASSUME OrderTypeOK, NEW n \in Notices, notice' = [notice EXCEPT ![n] = Idle]
  PROVE  \A m \in Notices : notice'[m] = notice[m] \/ notice'[m].pc \notin {"save", "credit"}
  BY DEF OrderTypeOK, Idle

LEMMA OnceInv == OrderTypeOK /\ Once /\ [OrderNext]_orderVars => Once'
<1>1. SUFFICES ASSUME OrderTypeOK, Once, [OrderNext]_orderVars PROVE Once'
  OBVIOUS
<1>2. CASE UNCHANGED orderVars
  BY <1>1, <1>2, OnceKept DEF orderVars, books
<1>3. ASSUME NEW o \in Orders, RequestEpay(o) PROVE Once'
  BY <1>1, <1>3, OnceKept DEF RequestEpay, books, OrderTypeOK
<1>4. ASSUME NEW o \in Orders, Pay(o) PROVE Once'
  BY <1>1, <1>4, OnceKept DEF Pay, books
<1>5. CASE DeletePending
  <2>1. \A o \in Orders : table'[o].status # "success" => table[o].status # "success"
    BY <1>1, <1>5 DEF DeletePending, OrderTypeOK
  <2>2. QED
    BY <1>1, <1>5, <2>1, OnceKept DEF DeletePending, books
<1>6. CASE Tick
  BY <1>1, <1>6, OnceKept DEF Tick, books
<1>7. ASSUME NEW n \in Notices, NEW o \in Orders, Deliver(n, o) PROVE Once'
  <2>1. CASE \E f \in Orders :
             /\ Found(f, table[o].trade) /\ Pending(f)
             /\ notice' = [notice EXCEPT ![n] = [pc |-> "save", order |-> o, found |-> f]]
             /\ overlapped' = IF \E m \in Notices : Handling(m, "save", f)
                              THEN overlapped \cup {f} ELSE overlapped
    <3>1. PICK f \in Orders :
             /\ Found(f, table[o].trade) /\ Pending(f)
             /\ notice' = [notice EXCEPT ![n] = [pc |-> "save", order |-> o, found |-> f]]
             /\ overlapped' = IF \E m \in Notices : Handling(m, "save", f)
                              THEN overlapped \cup {f} ELSE overlapped
      BY <2>1
    <3>2. notice[n].pc = "idle" /\ UNCHANGED <<table, credited>>
      BY <1>7 DEF Deliver, books
    <3>3. ASSUME NEW q \in Orders \ overlapped'
          PROVE  /\ credited[q] <= 1
                 /\ \A m \in Notices : (Handling(m, "save", q) \/ Handling(m, "credit", q))' => Alone(m, q)'
                 /\ table[q].status # "success" =>
                       credited[q] = 0 /\ \A m \in Notices : ~Handling(m, "credit", q)'
      <4>1. q \notin overlapped
        BY <3>1
      <4>2. /\ \A m \in Notices : Handling(m, "credit", q)' => Handling(m, "credit", q)
            /\ \A m \in Notices : m # n /\ Handling(m, "save", q)' => Handling(m, "save", q)
            /\ Handling(n, "save", q)' => q = f
            /\ ~Handling(n, "credit", q)'
        BY <1>1, <3>1 DEF Handling, OrderTypeOK
      <4>3. CASE q = f
        <5>1. \A m \in Notices : ~Handling(m, "save", f)
          BY <3>1, <4>3
        <5>2. credited[f] = 0 /\ \A m \in Notices : ~Handling(m, "credit", f)
          BY <1>1, <3>1, <4>1, <4>3 DEF Once, Pending
        <5>3. QED
          BY <3>2, <4>2, <4>3, <5>1, <5>2 DEF Alone
      <4>4. CASE q # f
        BY <1>1, <3>2, <4>1, <4>2, <4>4 DEF Once, Alone
      <4>5. QED
        BY <4>3, <4>4
    <3>4. QED
      BY <3>2, <3>3 DEF Once
  <2>2. CASE /\ notice' = [notice EXCEPT ![n] = [pc |-> Unfound, order |-> o, found |-> 0]]
             /\ UNCHANGED overlapped
    BY <1>1, <1>7, <2>2, OnceKept DEF Deliver, books, Unfound, OrderTypeOK
  <2>3. QED
    BY <1>7, <2>1, <2>2 DEF Deliver
<1>8. ASSUME NEW n \in Notices, Save(n) PROVE Once'
  <2> DEFINE f == notice[n].found
  <2>1. /\ f \in Orders /\ notice[n].pc = "save" /\ Handling(n, "save", f)
        /\ table' = [table EXCEPT ![f] = [table[f] EXCEPT !.status = "success"]]
        /\ notice' = [notice EXCEPT ![n] = [notice[n] EXCEPT !.pc = "credit"]]
        /\ UNCHANGED <<credited, overlapped>>
    BY <1>1, <1>8 DEF Save, NoticeGoes, books, OrderTypeOK, Handling
  <2>2. /\ notice'[n].pc = "credit" /\ notice'[n].found = f
        /\ \A m \in Notices : m # n => notice'[m] = notice[m]
    BY <1>1, <2>1 DEF OrderTypeOK, Notice
  <2>3. table'[f].status = "success" /\ \A q \in Orders : q # f => table'[q] = table[q]
    BY <1>1, <2>1 DEF OrderTypeOK, OrderRow
  <2> HIDE DEF f
  <2>4. ASSUME NEW q \in Orders \ overlapped
        PROVE  /\ credited[q] <= 1
               /\ \A m \in Notices : (Handling(m, "save", q) \/ Handling(m, "credit", q))' => Alone(m, q)'
               /\ table'[q].status # "success" =>
                     credited[q] = 0 /\ \A m \in Notices : ~Handling(m, "credit", q)'
    <3>1. CASE q = f
      <4>1. Alone(n, f) /\ credited[q] <= 1
        BY <1>1, <2>1, <3>1 DEF Once
      <4>2. \A m \in Notices : m # n => ~Handling(m, "save", q)' /\ ~Handling(m, "credit", q)'
        BY <2>2, <3>1, <4>1 DEF Alone, Handling
      <4>3. QED
        BY <2>1, <2>3, <3>1, <4>1, <4>2 DEF Alone
    <3>2. CASE q # f
      <4>1. \A m \in Notices : /\ Handling(m, "save", q)' => Handling(m, "save", q)
                               /\ Handling(m, "credit", q)' => Handling(m, "credit", q)
        BY <2>2, <3>2 DEF Handling
      <4>2. QED
        BY <1>1, <2>1, <2>3, <3>2, <4>1 DEF Once, Alone
    <3>3. QED
      BY <3>1, <3>2
  <2>5. QED
    BY <2>1, <2>4 DEF Once
<1>9. ASSUME NEW n \in Notices, Credit(n) PROVE Once'
  <2> DEFINE f == notice[n].found
  <2>1. /\ f \in Orders /\ notice[n].pc = "credit" /\ Handling(n, "credit", f)
        /\ credited' = [credited EXCEPT ![f] = credited[f] + 1]
        /\ notice' = [notice EXCEPT ![n] = [notice[n] EXCEPT !.pc = "record"]]
        /\ UNCHANGED <<table, overlapped>>
    BY <1>1, <1>9 DEF Credit, NoticeGoes, OrderTypeOK, Handling
  <2>2. /\ notice'[n].pc = "record"
        /\ \A m \in Notices : m # n => notice'[m] = notice[m]
    BY <1>1, <2>1 DEF OrderTypeOK, Notice
  <2>3. credited'[f] = credited[f] + 1 /\ \A q \in Orders : q # f => credited'[q] = credited[q]
    BY <1>1, <2>1 DEF OrderTypeOK
  <2> HIDE DEF f
  <2>4. ASSUME NEW q \in Orders \ overlapped
        PROVE  /\ credited'[q] <= 1
               /\ \A m \in Notices : (Handling(m, "save", q) \/ Handling(m, "credit", q))' => Alone(m, q)'
               /\ table[q].status # "success" =>
                     credited'[q] = 0 /\ \A m \in Notices : ~Handling(m, "credit", q)'
    <3>1. CASE q = f
      <4>1. Alone(n, f) /\ table[f].status = "success"
        BY <1>1, <2>1, <3>1 DEF Once
      <4>2. \A m \in Notices : ~Handling(m, "save", q)' /\ ~Handling(m, "credit", q)'
        BY <2>2, <3>1, <4>1 DEF Alone, Handling
      <4>3. credited'[f] = 1
        BY <2>3, <4>1 DEF Alone
      <4>4. QED
        BY <3>1, <4>1, <4>2, <4>3
    <3>2. CASE q # f
      <4>1. \A m \in Notices : /\ Handling(m, "save", q)' => Handling(m, "save", q)
                               /\ Handling(m, "credit", q)' => Handling(m, "credit", q)
        BY <2>2, <3>2 DEF Handling
      <4>2. QED
        BY <1>1, <2>3, <3>2, <4>1 DEF Once, Alone
    <3>3. QED
      BY <3>1, <3>2
  <2>5. QED
    BY <2>1, <2>4 DEF Once
<1>10. ASSUME NEW n \in Notices, Record(n) \/ Reward(n) PROVE Once'
  BY <1>1, <1>10, GoesElsewhere, OnceKept DEF Record, Reward
<1>11. ASSUME NEW n \in Notices, Answer(n) PROVE Once'
  BY <1>1, <1>11, IdleElsewhere, OnceKept DEF Answer, books
<1>12. ASSUME NEW n \in Notices, Malformed(n) \/ NotifyFails(n) PROVE Once'
  BY <1>1, <1>12, IdleElsewhere, OnceKept DEF Malformed, NotifyFails, Stop, Stopped, books
<1>13. CASE Crash
  BY <1>1, <1>13, OnceKept DEF Crash, Idle, books
<1>14. ASSUME NEW n \in Notices, NEW o \in Orders, Misread(n, o) PROVE Once'
  BY <1>1, <1>14, OnceKept DEF Misread, books, Unfound, OrderTypeOK
<1>15. QED
  BY <1>1, <1>2, <1>3, <1>4, <1>5, <1>6, <1>7, <1>8, <1>9, <1>10, <1>11, <1>12, <1>13,
     <1>14 DEF OrderNext, NoticeStep

-----------------------------------------------------------------------------
(* Placed.                                                                 *)

LEMMA PlacedKept ==
  ASSUME OrderTypeOK, Placed, UNCHANGED <<paid, answered>>,
         \A o \in Orders : table'[o].status = "none" <=> table[o].status = "none",
         \A n \in Notices : \/ notice'[n] = notice[n]
                            \/ notice'[n].pc = "idle"
                            \/ /\ notice[n].pc # "idle" /\ notice'[n].pc # "save"
                               /\ notice'[n].order = notice[n].order
  PROVE  Placed'
<1>1. \A o \in Orders : Requested(o)' <=> Requested(o)
  BY DEF Requested
<1>2. ASSUME NEW n \in Notices
      PROVE  /\ notice'[n].pc # "idle" => notice'[n].order \in paid
             /\ notice'[n].pc = "save" => table'[notice'[n].found].status # "none"
  <2>1. CASE notice'[n] = notice[n]
    <3>1. notice[n].pc = "save" => notice[n].found \in Orders /\ Requested(notice[n].found)
      BY DEF OrderTypeOK, Placed
    <3>2. QED
      BY <2>1, <3>1 DEF Placed, Requested
  <2>2. CASE notice'[n].pc # "save"
    BY <2>2 DEF Placed
  <2>3. QED
    BY <2>1, <2>2
<1>3. QED
  BY <1>1, <1>2 DEF Placed, OrderTypeOK, Requested

LEMMA NoticeGoesOn ==
  ASSUME OrderTypeOK, NEW n \in Notices, notice[n].pc # "idle", NEW pc, NoticeGoes(n, pc)
  PROVE  /\ notice'[n].pc = pc
         /\ notice'[n].order = notice[n].order /\ notice'[n].found = notice[n].found
         /\ \A m \in Notices : m # n => notice'[m] = notice[m]
  BY DEF NoticeGoes, OrderTypeOK, Notice

LEMMA PlacedInv == OrderTypeOK /\ Placed /\ [OrderNext]_orderVars => Placed'
<1>1. SUFFICES ASSUME OrderTypeOK, Placed, [OrderNext]_orderVars PROVE Placed'
  OBVIOUS
<1>2. CASE UNCHANGED orderVars
  BY <1>1, <1>2, PlacedKept DEF orderVars, books
<1>3. ASSUME NEW o \in Orders, RequestEpay(o) PROVE Placed'
  <2>1. /\ \A p \in Orders : p < o => Requested(p)
        /\ \A p \in Orders : p # o => table'[p] = table[p]
        /\ table'[o].status = "pending"
        /\ UNCHANGED <<paid, answered, notice>>
    BY <1>1, <1>3 DEF RequestEpay, Requested, OrderTypeOK, OrderRow
  <2>2. \A p \in Orders : Requested(p)' <=> Requested(p) \/ p = o
    BY <2>1 DEF Requested
  <2>3. \A n \in Notices : notice[n].pc = "save" => table'[notice[n].found].status # "none"
    BY <1>1, <2>1 DEF Placed, Requested, OrderTypeOK
  <2>4. QED
    BY <1>1, <2>1, <2>2, <2>3 DEF Placed, OrderTypeOK, Requested
<1>4. ASSUME NEW o \in Orders, Pay(o) PROVE Placed'
  BY <1>1, <1>4 DEF Pay, Placed, Requested
<1>5. CASE DeletePending
  <2>1. \A o \in Orders : table'[o].status = "none" <=> table[o].status = "none"
    BY <1>1, <1>5 DEF DeletePending, OrderTypeOK, OrderRow
  <2>2. QED
    BY <1>1, <1>5, <2>1, PlacedKept DEF DeletePending
<1>6. CASE Tick
  BY <1>1, <1>6, PlacedKept DEF Tick
<1>7. ASSUME NEW n \in Notices, NEW o \in Orders, Deliver(n, o) PROVE Placed'
  <2>1. /\ o \in paid /\ UNCHANGED <<table, paid, answered>>
        /\ notice'[n].order = o /\ \A m \in Notices : m # n => notice'[m] = notice[m]
        /\ notice'[n].pc = "save" => table[notice'[n].found].status # "none"
    BY <1>1, <1>7 DEF Deliver, OrderTypeOK, Found, Present, Unfound
  <2>2. QED
    BY <1>1, <2>1 DEF Placed, Requested
<1>8. ASSUME NEW n \in Notices, Save(n) PROVE Placed'
  <2>1. notice[n].found \in Orders /\ table[notice[n].found].status # "none"
    BY <1>1, <1>8 DEF Save, OrderTypeOK, Placed, Requested
  <2>2. \A o \in Orders : table'[o].status = "none" <=> table[o].status = "none"
    BY <1>1, <1>8, <2>1 DEF Save, OrderTypeOK, OrderRow
  <2>3. QED
    BY <1>1, <1>8, <2>2, NoticeGoesOn, PlacedKept DEF Save
<1>9. ASSUME NEW n \in Notices, Credit(n) \/ Record(n) \/ Reward(n) PROVE Placed'
  BY <1>1, <1>9, NoticeGoesOn, PlacedKept DEF Credit, Record, Reward
<1>10. ASSUME NEW n \in Notices, Answer(n) PROVE Placed'
  <2>1. /\ notice[n].order \in paid /\ notice'[n].pc = "idle"
        /\ \A m \in Notices : m # n => notice'[m] = notice[m]
    BY <1>1, <1>10 DEF Answer, Placed, OrderTypeOK, Idle
  <2>2. answered' \subseteq paid /\ UNCHANGED <<table, paid>>
    BY <1>1, <1>10, <2>1 DEF Answer, Placed
  <2>3. ASSUME NEW m \in Notices
        PROVE  /\ notice'[m].pc # "idle" => notice'[m].order \in paid
               /\ notice'[m].pc = "save" => table[notice'[m].found].status # "none"
    <3>1. CASE m = n
      BY <2>1, <3>1
    <3>2. CASE m # n
      BY <1>1, <2>1, <3>2 DEF Placed, Requested
    <3>3. QED
      BY <3>1, <3>2
  <2>4. QED
    BY <1>1, <2>2, <2>3 DEF Placed, Requested
<1>11. ASSUME NEW n \in Notices, Malformed(n) \/ NotifyFails(n) PROVE Placed'
  BY <1>1, <1>11, PlacedKept DEF Malformed, NotifyFails, Stop, Stopped, Idle, OrderTypeOK
<1>12. CASE Crash
  BY <1>1, <1>12, PlacedKept DEF Crash, Idle
<1>13. ASSUME NEW n \in Notices, NEW o \in Orders, Misread(n, o) PROVE Placed'
  <2>1. /\ o \in paid /\ UNCHANGED <<table, paid, answered>>
        /\ notice'[n].order = o /\ \A m \in Notices : m # n => notice'[m] = notice[m]
        /\ notice'[n].pc # "save"
    BY <1>1, <1>13 DEF Misread, OrderTypeOK, Unfound
  <2>2. QED
    BY <1>1, <2>1 DEF Placed, Requested
<1>14. QED
  BY <1>1, <1>2, <1>3, <1>4, <1>5, <1>6, <1>7, <1>8, <1>9, <1>10, <1>11, <1>12,
     <1>13 DEF OrderNext, NoticeStep

-----------------------------------------------------------------------------
(* Explains: what settles an order, and the reason of an answer, last.     *)

LEMMA BumpUp ==
  ASSUME NEW f \in [Orders -> Nat], NEW i \in Orders, NEW o \in Orders, f[o] > 0
  PROVE  [f EXCEPT ![i] = @ + 1][o] > 0
  OBVIOUS

LEMMA SettledStable ==
  ASSUME OrderTypeOK, [OrderNext]_orderVars, NEW o \in Orders, Settled(o)
  PROVE  Settled(o)'
<1>1. CASE credited[o] > 0
  <2>1. CASE credited' = credited
    BY <1>1, <2>1 DEF Settled, Handled
  <2>2. CASE \E n \in Notices : Credit(n)
    <3>1. PICK n \in Notices : Credit(n)
      BY <2>2
    <3>2. notice[n].found \in Orders
      BY <3>1 DEF OrderTypeOK, Credit
    <3>3. credited'[o] > 0
      BY <1>1, <3>1, <3>2, BumpUp DEF OrderTypeOK, Credit
    <3>4. QED
      BY <3>3 DEF Settled, Handled
  <2>3. QED
    BY <2>1, <2>2 DEF OrderNext, NoticeStep, RequestEpay, Pay, DeletePending, Tick, Deliver, Misread, Save,
       Record, Reward, Answer, Malformed, NotifyFails, Stop, Crash, orderVars, books
<1>2. CASE \E n \in Notices : Handling(n, "credit", o)
  <2>1. PICK n \in Notices : Handling(n, "credit", o)
    BY <1>2
  <2>2. CASE notice'[n] = notice[n]
    BY <2>1, <2>2 DEF Settled, Handled, Handling
  <2>3. CASE Credit(n)
    <3>1. credited'[o] = credited[o] + 1 /\ credited[o] \in Nat
      BY <2>1, <2>3 DEF Credit, Handling, OrderTypeOK
    <3>2. QED
      BY <3>1 DEF Settled, Handled
  <2>4. CASE Malformed(n) \/ NotifyFails(n)
    <3>1. o \in Cut({n})
      BY <2>1 DEF Cut, Handling
    <3>2. QED
      BY <2>4, <3>1 DEF Malformed, NotifyFails, Stop, Settled
  <2>5. CASE Crash
    <3>1. o \in Cut(Notices)
      BY <2>1 DEF Cut, Handling
    <3>2. QED
      BY <2>5, <3>1 DEF Crash, Settled
  <2>6. ASSUME NEW m \in Notices, m # n,
               (\E p \in Orders : Deliver(m, p) \/ Misread(m, p)) \/ NoticeStep(m) \/ NotifyFails(m)
        PROVE  notice'[n] = notice[n]
    BY <2>6 DEF NoticeStep, Deliver, Misread, Save, Credit, Record, Reward, Answer, Malformed, NotifyFails, Stop,
       NoticeGoes, OrderTypeOK
  <2>7. ASSUME (\E p \in Orders : Deliver(n, p) \/ Misread(n, p)) \/ NoticeStep(n) \/ NotifyFails(n)
        PROVE  Credit(n) \/ Malformed(n) \/ NotifyFails(n)
    BY <2>1, <2>7 DEF NoticeStep, Deliver, Misread, Save, Record, Reward, Answer, Handling
  <2>8. ASSUME (\E p \in Orders : RequestEpay(p) \/ Pay(p)) \/ DeletePending \/ Tick \/ UNCHANGED orderVars
        PROVE  notice'[n] = notice[n]
    BY <2>8 DEF RequestEpay, Pay, DeletePending, Tick, orderVars
  <2>9. QED
    BY <2>2, <2>3, <2>4, <2>5, <2>6, <2>7, <2>8 DEF OrderNext
<1>3. CASE o \in broken
  BY <1>3 DEF Settled, OrderNext, NoticeStep, RequestEpay, Pay, DeletePending, Tick, Deliver, Misread, Save, Credit,
     Record, Reward, Answer, Malformed, NotifyFails, Stop, Crash, orderVars, books
<1>4. QED
  BY <1>1, <1>2, <1>3 DEF Settled, Handled

(* What a step does to a row.                                              *)
LEMMA RowStep ==
  ASSUME OrderTypeOK, [OrderNext]_orderVars, NEW o \in Orders, Requested(o)
  PROVE  /\ table'[o].trade = table[o].trade
         /\ \/ table'[o].status = table[o].status
            \/ table[o].status = "pending" /\ table'[o].status = "deleted"
            \/ \E n \in Notices : Save(n) /\ notice[n].found = o
<1>1. CASE UNCHANGED table
  BY <1>1
<1>2. CASE \E p \in Orders : RequestEpay(p)
  BY <1>2 DEF RequestEpay, Requested, OrderTypeOK
<1>3. CASE DeletePending
  BY <1>3 DEF DeletePending, OrderTypeOK, OrderRow
<1>4. CASE \E n \in Notices : Save(n)
  <2>1. PICK n \in Notices : Save(n)
    BY <1>4
  <2>2. notice[n].found \in Orders
    BY <2>1 DEF Save, OrderTypeOK
  <2>3. QED
    BY <2>1, <2>2 DEF Save, OrderTypeOK, OrderRow
<1>5. QED
  BY <1>1, <1>2, <1>3, <1>4 DEF OrderNext, NoticeStep, Pay, Tick, Deliver, Misread, Credit,
     Record, Reward, Answer, Malformed, NotifyFails, Stop, Crash, orderVars, books

LEMMA ExplainedStable ==
  ASSUME OrderTypeOK, Placed, [OrderNext]_orderVars, NEW o \in Orders, Requested(o), Explained(o)
  PROVE  Explained(o)'
<1>1. CASE Settled(o)
  BY <1>1, SettledStable DEF Settled, Explained
<1>2. CASE table[o].status = "deleted"
  <2>1. CASE table'[o].status = "deleted"
    BY <2>1 DEF Explained
  <2>2. CASE \E n \in Notices : Save(n) /\ notice[n].found = o
    <3>1. PICK n \in Notices : Save(n) /\ notice[n].found = o
      BY <2>2
    <3>2. Settled(o)'
      <4>1. notice'[n].pc = "credit" /\ notice'[n].found = o
        BY <3>1, NoticeGoesOn DEF Save
      <4>2. QED
        BY <4>1 DEF Settled, Handled, Handling
    <3>3. QED
      BY <3>2 DEF Settled, Explained
  <2>3. QED
    BY <1>2, <2>1, <2>2, RowStep
<1>3. CASE \E p \in Orders : p < o /\ table[p].trade = table[o].trade
  <2>1. PICK p \in Orders : p < o /\ table[p].trade = table[o].trade
    BY <1>3
  <2>2. Requested(p)
    BY <2>1 DEF Placed
  <2>3. table'[p].trade = table'[o].trade
    BY <2>1, <2>2, RowStep
  <2>4. QED
    BY <2>1, <2>3 DEF Explained
<1>4. CASE o \in missed
  <2>1. missed \subseteq missed'
    BY DEF OrderNext, NoticeStep, RequestEpay, Pay, DeletePending, Tick, Deliver, Misread, Save, Credit,
       Record, Reward, Answer, Malformed, NotifyFails, Stop, Crash, orderVars
  <2>2. QED
    BY <1>4, <2>1 DEF Explained
<1>5. QED
  BY <1>1, <1>2, <1>3, <1>4 DEF Explained, Settled

LEMMA DecidedKept ==
  ASSUME OrderTypeOK, Placed, Explains, [OrderNext]_orderVars, NEW n \in Notices,
         Decided(n), notice'[n].order = notice[n].order
  PROVE  Explained(notice[n].order)'
<1>1. PICK o \in Orders : o = notice[n].order
  BY DEF OrderTypeOK, Decided
<1>2. Requested(o) /\ Explained(o)
  BY <1>1 DEF Explains, Placed, Decided
<1>3. Explained(o)'
  BY <1>2, ExplainedStable
<1>4. QED
  BY <1>1, <1>3 DEF Explained, Handled, Handling

(* A step that saves and answers nothing and decides no notification.      *)
LEMMA ExplainsKept ==
  ASSUME OrderTypeOK, Placed, Explains, [OrderNext]_orderVars, answered' = answered,
         \A o \in Orders : table'[o].status = "success" => table[o].status = "success",
         \A n \in Notices : Decided(n)' => Decided(n) /\ notice'[n].order = notice[n].order
  PROVE  Explains'
<1>1. ASSUME NEW o \in Orders, table'[o].status = "success" PROVE Settled(o)'
  BY <1>1, SettledStable DEF Explains
<1>2. ASSUME NEW o \in answered PROVE Explained(o)'
  BY ExplainedStable DEF Explains, Placed, OrderTypeOK
<1>3. ASSUME NEW n \in Notices, Decided(n)' PROVE Explained(notice[n].order)'
  BY <1>3, DecidedKept
<1>4. QED
  BY <1>1, <1>2, <1>3 DEF Explains

LEMMA ExplainsInv == OrderTypeOK /\ Placed /\ Explains /\ [OrderNext]_orderVars => Explains'
<1>1. SUFFICES ASSUME OrderTypeOK, Placed, Explains, [OrderNext]_orderVars PROVE Explains'
  OBVIOUS
<1>2. CASE UNCHANGED orderVars
  BY <1>1, <1>2, ExplainsKept DEF orderVars, books, Decided
<1>3. ASSUME NEW o \in Orders, RequestEpay(o) PROVE Explains'
  BY <1>1, <1>3, ExplainsKept DEF RequestEpay, Decided, OrderTypeOK, OrderRow
<1>4. ASSUME NEW o \in Orders, Pay(o) PROVE Explains'
  BY <1>1, <1>4, ExplainsKept DEF Pay, Decided
<1>5. CASE DeletePending
  <2>1. \A o \in Orders : table'[o].status = "success" => table[o].status = "success"
    BY <1>1, <1>5 DEF DeletePending, OrderTypeOK, OrderRow
  <2>2. QED
    BY <1>1, <1>5, <2>1, ExplainsKept DEF DeletePending, Decided
<1>6. CASE Tick
  BY <1>1, <1>6, ExplainsKept DEF Tick, Decided
<1>7. ASSUME NEW n \in Notices, NEW o \in Orders, Deliver(n, o) PROVE Explains'
  <2>1. /\ o \in paid /\ Requested(o) /\ UNCHANGED <<table, answered>>
        /\ notice'[n].order = o /\ \A m \in Notices : m # n => notice'[m] = notice[m]
    BY <1>1, <1>7 DEF Deliver, OrderTypeOK, Placed
  <2>2. ASSUME Decided(n)' PROVE Explained(o)
    <3>1. CASE \E f \in Orders : Found(f, table[o].trade) /\ f # o
      <4>1. PICK f \in Orders : Found(f, table[o].trade) /\ f # o
        BY <3>1
      <4>2. CASE f < o
        BY <4>1, <4>2 DEF Found, Present, Explained
      <4>3. CASE ~(f < o)
        <5>1. ~Present(o, table[o].trade)
          BY <4>1, <4>3, OrdersAssumption DEF Found
        <5>2. table[o].status = "deleted"
          BY <1>1, <2>1, <5>1 DEF Present, Requested, OrderTypeOK, OrderRow
        <5>3. QED
          BY <5>2 DEF Explained
      <4>4. QED
        BY <4>2, <4>3
    <3>2. CASE ~\E f \in Orders : Found(f, table[o].trade) /\ f # o
      <4>1. ~\E f \in Orders : Found(f, table[o].trade) /\ Pending(f)
        BY <1>1, <1>7, <2>2, <3>2 DEF Deliver, Decided, OrderTypeOK
      <4>2. CASE table[o].status = "deleted"
        BY <4>2 DEF Explained
      <4>3. CASE Present(o, table[o].trade) /\ table[o].status = "success"
        BY <1>1, <4>3 DEF Explains, Settled, Explained
      <4>4. CASE table[o].status = "pending"
        <5>1. ~Found(o, table[o].trade) /\ Present(o, table[o].trade)
          BY <4>1, <4>4 DEF Pending, Present
        <5>2. PICK p \in Orders : Present(p, table[o].trade) /\ ~(o <= p)
          BY <5>1 DEF Found
        <5>3. p < o
          BY <5>2, OrdersAssumption
        <5>4. QED
          BY <5>2, <5>3 DEF Present, Explained
      <4>5. QED
        BY <1>1, <2>1, <4>2, <4>3, <4>4 DEF Present, Requested, OrderTypeOK, OrderRow
    <3>3. QED
      BY <3>1, <3>2
  <2>3. ASSUME NEW m \in Notices, Decided(m)' PROVE Explained(notice[m].order)'
    <3>1. CASE m = n
      <4>1. Explained(o)'
        BY <1>1, <2>1, <2>2, <2>3, <3>1, ExplainedStable
      <4>2. QED
        BY <2>1, <3>1, <4>1 DEF Explained, Handled, Handling
    <3>2. CASE m # n
      <4>1. Decided(m) /\ notice'[m].order = notice[m].order
        BY <2>1, <2>3, <3>2 DEF Decided
      <4>2. QED
        BY <1>1, <4>1, DecidedKept
    <3>3. QED
      BY <3>1, <3>2
  <2>4. \A p \in Orders : table'[p].status = "success" => Settled(p)'
    BY <1>1, <2>1, SettledStable DEF Explains
  <2>5. \A p \in answered' : Explained(p)'
    BY <1>1, <2>1, ExplainedStable DEF Explains, Placed, OrderTypeOK
  <2>6. QED
    BY <2>3, <2>4, <2>5 DEF Explains
<1>8. ASSUME NEW n \in Notices, Save(n) PROVE Explains'
  <2>1. /\ notice[n].found \in Orders /\ answered' = answered /\ notice[n].pc = "save"
        /\ notice'[n].pc = "credit"
        /\ notice'[n].order = notice[n].order /\ notice'[n].found = notice[n].found
        /\ \A m \in Notices : m # n => notice'[m] = notice[m]
        /\ \A o \in Orders : o # notice[n].found => table'[o] = table[o]
    BY <1>1, <1>8, NoticeGoesOn DEF Save, OrderTypeOK
  <2>2. ASSUME NEW o \in Orders, table'[o].status = "success" PROVE Settled(o)'
    <3>1. CASE o = notice[n].found
      BY <2>1, <3>1 DEF Settled, Handled, Handling
    <3>2. CASE o # notice[n].found
      BY <1>1, <2>1, <2>2, <3>2, SettledStable DEF Explains
    <3>3. QED
      BY <3>1, <3>2
  <2>3. ASSUME NEW m \in Notices, Decided(m)' PROVE Explained(notice[m].order)'
    <3>1. Decided(m) /\ notice'[m].order = notice[m].order
      BY <2>1, <2>3 DEF Decided
    <3>2. QED
      BY <1>1, <3>1, DecidedKept
  <2>4. \A o \in answered' : Explained(o)'
    BY <1>1, <2>1, ExplainedStable DEF Explains, Placed, OrderTypeOK
  <2>5. QED
    BY <2>2, <2>3, <2>4 DEF Explains
<1>9. ASSUME NEW n \in Notices, Credit(n) PROVE Explains'
  <2>1. /\ notice[n].pc = "credit" /\ notice'[n].pc = "record"
        /\ notice[n].found \in Orders /\ UNCHANGED <<table, answered>>
        /\ notice'[n].order = notice[n].order
        /\ \A m \in Notices : m # n => notice'[m] = notice[m]
        /\ credited' = [credited EXCEPT ![notice[n].found] = @ + 1]
    BY <1>1, <1>9, NoticeGoesOn DEF Credit, OrderTypeOK
  <2>2. ASSUME NEW m \in Notices, Decided(m)' PROVE Explained(notice[m].order)'
    <3>1. CASE m = n /\ notice[n].found = notice[n].order
      <4>1. PICK o \in Orders : o = notice[n].order
        BY <2>1, <3>1
      <4>2. credited'[o] = credited[o] + 1 /\ credited[o] \in Nat
        BY <1>1, <2>1, <3>1, <4>1 DEF OrderTypeOK
      <4>3. QED
        BY <2>1, <3>1, <4>1, <4>2 DEF Explained, Handled
    <3>2. CASE ~(m = n /\ notice[n].found = notice[n].order)
      <4>1. Decided(m) /\ notice'[m].order = notice[m].order
        BY <2>1, <2>2, <3>2 DEF Decided
      <4>2. QED
        BY <1>1, <4>1, DecidedKept
    <3>3. QED
      BY <3>1, <3>2
  <2>3. \A o \in Orders : table'[o].status = "success" => Settled(o)'
    BY <1>1, <2>1, SettledStable DEF Explains
  <2>4. \A o \in answered' : Explained(o)'
    BY <1>1, <2>1, ExplainedStable DEF Explains, Placed, OrderTypeOK
  <2>5. QED
    BY <2>2, <2>3, <2>4 DEF Explains
<1>10. ASSUME NEW n \in Notices, Record(n) \/ Reward(n) PROVE Explains'
  <2>1. /\ notice[n].pc \in {"record", "reward"} /\ UNCHANGED <<table, answered>>
        /\ notice'[n].order = notice[n].order
        /\ \A m \in Notices : m # n => notice'[m] = notice[m]
    BY <1>1, <1>10, NoticeGoesOn DEF Record, Reward
  <2>2. \A m \in Notices : Decided(m)' => Decided(m) /\ notice'[m].order = notice[m].order
    BY <2>1 DEF Decided
  <2>3. QED
    BY <1>1, <2>1, <2>2, ExplainsKept
<1>11. ASSUME NEW n \in Notices, Answer(n) PROVE Explains'
  <2>1. /\ notice[n].order \in Orders /\ Decided(n) /\ notice'[n].pc = "idle"
        /\ UNCHANGED table /\ answered' = answered \cup {notice[n].order}
        /\ \A m \in Notices : m # n => notice'[m] = notice[m]
    BY <1>1, <1>11 DEF Answer, OrderTypeOK, Decided, Idle
  <2>2. \A m \in Notices : Decided(m)' => Decided(m) /\ notice'[m].order = notice[m].order
    BY <2>1 DEF Decided
  <2>3. ASSUME NEW o \in answered' PROVE Explained(o)'
    <3>1. o \in Orders /\ Requested(o) /\ Explained(o)
      BY <1>1, <2>1 DEF Explains, Placed, OrderTypeOK, Decided
    <3>2. QED
      BY <1>1, <3>1, ExplainedStable
  <2>4. \A o \in Orders : table'[o].status = "success" => Settled(o)'
    BY <1>1, <2>1, SettledStable DEF Explains
  <2>5. \A m \in Notices : Decided(m)' => Explained(notice[m].order)'
    BY <1>1, <2>2, DecidedKept
  <2>6. QED
    BY <2>3, <2>4, <2>5 DEF Explains
<1>12. ASSUME NEW n \in Notices, Malformed(n) \/ NotifyFails(n) PROVE Explains'
  <2>1. /\ UNCHANGED <<table, answered>> /\ notice'[n].pc = "idle"
        /\ \A m \in Notices : m # n => notice'[m] = notice[m]
    BY <1>1, <1>12 DEF Malformed, NotifyFails, Stop, Stopped, Idle, OrderTypeOK
  <2>2. \A m \in Notices : Decided(m)' => Decided(m) /\ notice'[m].order = notice[m].order
    BY <2>1 DEF Decided
  <2>3. QED
    BY <1>1, <2>1, <2>2, ExplainsKept
<1>13. CASE Crash
  BY <1>1, <1>13, ExplainsKept DEF Crash, Idle, Decided
<1>14. ASSUME NEW n \in Notices, NEW o \in Orders, Misread(n, o) PROVE Explains'
  <2>1. /\ o \in missed' /\ UNCHANGED <<table, answered>>
        /\ notice'[n].order = o /\ \A m \in Notices : m # n => notice'[m] = notice[m]
    BY <1>1, <1>14 DEF Misread, OrderTypeOK
  <2>2. ASSUME NEW m \in Notices, Decided(m)' PROVE Explained(notice[m].order)'
    <3>1. CASE m = n
      BY <2>1, <3>1 DEF Explained
    <3>2. CASE m # n
      <4>1. Decided(m) /\ notice'[m].order = notice[m].order
        BY <2>1, <2>2, <3>2 DEF Decided
      <4>2. QED
        BY <1>1, <4>1, DecidedKept
    <3>3. QED
      BY <3>1, <3>2
  <2>3. \A p \in Orders : table'[p].status = "success" => Settled(p)'
    BY <1>1, <2>1, SettledStable DEF Explains
  <2>4. \A p \in answered' : Explained(p)'
    BY <1>1, <2>1, ExplainedStable DEF Explains, Placed, OrderTypeOK
  <2>5. QED
    BY <2>2, <2>3, <2>4 DEF Explains
<1>15. QED
  BY <1>1, <1>2, <1>3, <1>4, <1>5, <1>6, <1>7, <1>8, <1>9, <1>10, <1>11, <1>12, <1>13,
     <1>14 DEF OrderNext, NoticeStep

-----------------------------------------------------------------------------
LEMMA OrderInductive == OrderSpec => []OrderInv
<1>1. OrderInv /\ [OrderNext]_orderVars => OrderInv'
  BY OrderTypeInv, OnceInv, PlacedInv, ExplainsInv DEF OrderInv
<1>2. QED
  BY <1>1, OrderInitInv, PTL DEF OrderSpec

\* Orders, notifications and books keep their types.
THEOREM OrderTypeCorrect == OrderSpec => []OrderTypeOK
<1>1. OrderInv => OrderTypeOK
  BY DEF OrderInv
<1>2. QED
  BY <1>1, OrderInductive, PTL

\* For any number of notifications, faults and crashes: an order is credited
\* twice only if two notifications found it pending together.
THEOREM CreditedOnce == OrderSpec => []SecondCreditNeedsOverlap
<1>1. OrderInv => SecondCreditNeedsOverlap
  <2>1. SUFFICES ASSUME OrderInv, NEW o \in Orders, o \notin overlapped PROVE ~(credited[o] > 1)
    BY DEF SecondCreditNeedsOverlap
  <2>2. credited[o] \in Nat /\ credited[o] <= 1
    BY <2>1 DEF OrderInv, OrderTypeOK, Once
  <2>3. QED
    BY <2>2
<1>2. QED
  BY <1>1, OrderInductive, PTL

\* An answered payment is credited, or about to be, but for a handler that broke
\* off, an order deleted as pending or a trade number used twice.
THEOREM AnsweredCredited == OrderSpec => []AnsweredIsCredited
<1>1. OrderInv => AnsweredIsCredited
  BY DEF OrderInv, Explains, AnsweredIsCredited
<1>2. QED
  BY <1>1, OrderInductive, PTL

-----------------------------------------------------------------------------
(* The recharge records.  An order whose handling did not break off has    *)
(* one record less than credits for each notification that is about to     *)
(* record, and one reward less for each that is about to record or reward; *)
(* its term does not change once anything was credited.                    *)
Recording(o) == {n \in Notices : Handling(n, "record", o)}
Due(o) == {n \in Notices : Handling(n, "record", o) \/ Handling(n, "reward", o)}

NoneBegun ==
    /\ \A n \in Notices : notice[n].pc \in {"save", "credit", "record", "reward"}
                           => table[notice[n].found].status # "none"
    /\ \A o \in Orders : table[o].status = "none" => credited[o] = 0

Booked(o) ==
    /\ recorded[o] = IF table[o].ratio = "days" THEN credited[o] - Cardinality(Recording(o)) ELSE 0
    /\ rewarded[o] + Cardinality(Due(o)) <= credited[o]

RecordsInv == OrderTypeOK /\ NoneBegun /\ \A o \in Orders \ broken : Booked(o)

LEMMA SetsFinite ==
  ASSUME NEW o
  PROVE  /\ IsFiniteSet(Recording(o)) /\ IsFiniteSet(Due(o))
         /\ Cardinality(Recording(o)) \in Nat /\ Cardinality(Due(o)) \in Nat
<1>1. Recording(o) \in SUBSET Notices /\ Due(o) \in SUBSET Notices
  BY DEF Recording, Due
<1>2. IsFiniteSet(Recording(o)) /\ IsFiniteSet(Due(o))
  BY <1>1, FS_Subset, NoticesAssumption
<1>3. QED
  BY <1>2, FS_CardinalityType

LEMMA BegunInv == OrderTypeOK /\ NoneBegun /\ [OrderNext]_orderVars => NoneBegun'
<1>1. SUFFICES ASSUME OrderTypeOK, NoneBegun, [OrderNext]_orderVars PROVE NoneBegun'
  OBVIOUS
(* A row never goes back to "none", and what is under way has a row.       *)
<1>2. ASSUME \A o \in Orders : table'[o].status = "none" => table[o].status = "none" /\ credited'[o] = credited[o],
             \A n \in Notices :
                \/ notice'[n].pc \in {"idle", "answer"}
                \/ /\ notice[n].pc \in {"save", "credit", "record", "reward"}
                   /\ notice'[n].found = notice[n].found
                \/ notice'[n].found \in Orders /\ table[notice'[n].found].status # "none"
      PROVE  NoneBegun'
  <2>1. \A o \in Orders : table'[o].status = "none" => credited'[o] = 0
    BY <1>1, <1>2 DEF NoneBegun
  <2>2. ASSUME NEW n \in Notices, notice'[n].pc \in {"save", "credit", "record", "reward"}
        PROVE  table'[notice'[n].found].status # "none"
    BY <1>1, <1>2, <2>2 DEF NoneBegun, OrderTypeOK
  <2>3. QED
    BY <2>1, <2>2 DEF NoneBegun
<1>3. CASE UNCHANGED orderVars
  BY <1>1, <1>3 DEF NoneBegun, orderVars, books
<1>4. ASSUME NEW o \in Orders, RequestEpay(o) \/ Pay(o) PROVE NoneBegun'
  <2>1. \A p \in Orders : table'[p].status = "none" => table[p].status = "none" /\ credited'[p] = credited[p]
    BY <1>1, <1>4 DEF RequestEpay, Pay, OrderTypeOK, OrderRow, books
  <2>2. notice' = notice
    BY <1>4 DEF RequestEpay, Pay
  <2>3. ASSUME NEW n \in Notices
        PROVE  \/ notice'[n].pc \in {"idle", "answer"}
               \/ /\ notice[n].pc \in {"save", "credit", "record", "reward"}
                  /\ notice'[n].found = notice[n].found
    BY <1>1, <2>2 DEF OrderTypeOK, Notice
  <2>4. QED
    BY <1>2, <2>1, <2>3
<1>5. CASE DeletePending \/ Tick
  <2>1. \A p \in Orders : table'[p].status = "none" => table[p].status = "none" /\ credited'[p] = credited[p]
    BY <1>1, <1>5 DEF DeletePending, Tick, OrderTypeOK, OrderRow, books
  <2>2. notice' = notice
    BY <1>5 DEF DeletePending, Tick
  <2>3. ASSUME NEW n \in Notices
        PROVE  \/ notice'[n].pc \in {"idle", "answer"}
               \/ /\ notice[n].pc \in {"save", "credit", "record", "reward"}
                  /\ notice'[n].found = notice[n].found
    BY <1>1, <2>2 DEF OrderTypeOK, Notice
  <2>4. QED
    BY <1>2, <2>1, <2>3
(* A notification moves, the others do not.                                *)
<1>6. ASSUME NEW n \in Notices, \A m \in Notices : m # n => notice'[m] = notice[m],
             \/ notice'[n].pc \in {"idle", "answer"}
             \/ /\ notice[n].pc \in {"save", "credit", "record", "reward"}
                /\ notice'[n].found = notice[n].found
             \/ notice'[n].found \in Orders /\ table[notice'[n].found].status # "none",
             \A p \in Orders : table'[p].status = "none" => table[p].status = "none" /\ credited'[p] = credited[p]
      PROVE  NoneBegun'
  <2>1. ASSUME NEW m \in Notices
        PROVE  \/ notice'[m].pc \in {"idle", "answer"}
               \/ /\ notice[m].pc \in {"save", "credit", "record", "reward"}
                  /\ notice'[m].found = notice[m].found
               \/ notice'[m].found \in Orders /\ table[notice'[m].found].status # "none"
    <3>1. CASE m = n
      BY <1>6, <3>1
    <3>2. notice[m].pc \in {"idle", "answer", "save", "credit", "record", "reward"}
      BY <1>1 DEF OrderTypeOK, Notice
    <3>3. CASE m # n
      BY <1>6, <3>2, <3>3
    <3>4. QED
      BY <3>1, <3>3
  <2>2. QED
    BY <1>2, <1>6, <2>1
<1>7. ASSUME NEW n \in Notices, NEW o \in Orders, Deliver(n, o) \/ Misread(n, o) PROVE NoneBegun'
  <2>1. /\ UNCHANGED <<table, credited>> /\ \A m \in Notices : m # n => notice'[m] = notice[m]
        /\ \/ notice'[n].pc \in {"idle", "answer"}
           \/ notice'[n].found \in Orders /\ table[notice'[n].found].status # "none"
    BY <1>1, <1>7 DEF Deliver, Misread, OrderTypeOK, Found, Present, Unfound, books
  <2>2. QED
    BY <1>6, <2>1
<1>8. ASSUME NEW n \in Notices, Save(n) \/ Credit(n) \/ Record(n) \/ Reward(n) PROVE NoneBegun'
  <2>1. /\ \A m \in Notices : m # n => notice'[m] = notice[m]
        /\ notice[n].pc \in {"save", "credit", "record", "reward"}
        /\ notice'[n].found = notice[n].found /\ notice[n].found \in Orders
        /\ table[notice[n].found].status # "none"
    BY <1>1, <1>8, NoticeGoesOn DEF Save, Credit, Record, Reward, NoneBegun, OrderTypeOK
  <2>2. \A p \in Orders : table'[p].status = "none" => table[p].status = "none" /\ credited'[p] = credited[p]
    BY <1>1, <1>8, <2>1 DEF Save, Credit, Record, Reward, OrderTypeOK, OrderRow, books
  <2>3. QED
    BY <1>6, <2>1, <2>2
<1>9. ASSUME NEW n \in Notices, Answer(n) \/ Malformed(n) \/ NotifyFails(n) PROVE NoneBegun'
  <2>1. /\ UNCHANGED <<table, credited>> /\ notice' = [notice EXCEPT ![n] = Idle]
    BY <1>9 DEF Answer, Malformed, NotifyFails, Stop, Stopped, books
  <2>2. notice'[n].pc = "idle" /\ \A m \in Notices : m # n => notice'[m] = notice[m]
    BY <1>1, <2>1 DEF OrderTypeOK, Idle
  <2>3. QED
    BY <1>6, <2>1, <2>2
<1>10. CASE Crash
  <2>1. UNCHANGED <<table, credited>> /\ \A n \in Notices : notice'[n].pc = "idle"
    BY <1>10 DEF Crash, Idle, books
  <2>2. QED
    BY <1>2, <2>1
<1>11. QED
  BY <1>1, <1>3, <1>4, <1>5, <1>7, <1>8, <1>9, <1>10 DEF OrderNext, NoticeStep

(* A step that concerns neither the books of o nor who is at them.         *)
LEMMA BookedKept ==
  ASSUME NEW o, Booked(o),
         \A n \in Notices : /\ Handling(n, "record", o)' <=> Handling(n, "record", o)
                            /\ Handling(n, "reward", o)' <=> Handling(n, "reward", o),
         credited'[o] = credited[o], recorded'[o] = recorded[o], rewarded'[o] = rewarded[o],
         table'[o].ratio = table[o].ratio
  PROVE  Booked(o)'
<1>1. Recording(o)' = Recording(o)
  BY DEF Recording
<1>2. Due(o)' = Due(o)
  BY DEF Due
<1>3. QED
  BY <1>1, <1>2 DEF Booked

LEMMA BookedInv ==
  ASSUME RecordsInv, OrderTypeOK', [OrderNext]_orderVars, NEW o \in Orders, o \notin broken'
  PROVE  Booked(o)'
<1>1. /\ OrderTypeOK /\ NoneBegun /\ notice \in [Notices -> Notice] /\ table \in [Orders -> OrderRow]
      /\ credited \in [Orders -> Nat] /\ recorded \in [Orders -> Nat] /\ rewarded \in [Orders -> Nat]
  BY DEF RecordsInv, OrderTypeOK
<1>2. broken \subseteq broken'
  BY DEF OrderNext, NoticeStep, RequestEpay, Pay, DeletePending, Tick, Deliver, Misread, Save, Credit,
         Record, Reward, Answer, Malformed, NotifyFails, Stop, Crash, orderVars
<1>3. Booked(o)
  BY <1>2 DEF RecordsInv
<1>4. IsFiniteSet(Recording(o)) /\ IsFiniteSet(Due(o))
      /\ Cardinality(Recording(o)) \in Nat /\ Cardinality(Due(o)) \in Nat
  BY SetsFinite
<1>5. CASE UNCHANGED orderVars
  BY <1>3, <1>5, BookedKept DEF orderVars, books, Handling
<1>6. ASSUME NEW p \in Orders, RequestEpay(p) PROVE Booked(o)'
  <2>1. CASE p = o
    <3>1. table[o].status = "none" /\ credited[o] = 0 /\ UNCHANGED <<notice, books>>
      BY <1>1, <1>6, <2>1 DEF RequestEpay, NoneBegun
    <3>2. \A n \in Notices : ~Handling(n, "record", o) /\ ~Handling(n, "reward", o)
      BY <1>1, <3>1 DEF Handling, NoneBegun
    <3>3. Recording(o) = {} /\ Due(o) = {} /\ Recording(o)' = {} /\ Due(o)' = {}
      BY <3>1, <3>2 DEF Recording, Due, Handling
    <3>4. Cardinality({}) = 0
      BY FS_EmptySet
    <3>5. recorded[o] = 0 /\ rewarded[o] = 0
      BY <1>1, <1>3, <3>1, <3>3, <3>4 DEF Booked
    <3>6. recorded'[o] = 0 /\ rewarded'[o] = 0 /\ credited'[o] = 0
      BY <3>1, <3>5 DEF books
    <3>7. QED
      BY <3>3, <3>4, <3>6 DEF Booked
  <2>2. CASE p # o
    BY <1>1, <1>3, <1>6, <2>2, BookedKept DEF RequestEpay, books, Handling
  <2>3. QED
    BY <2>1, <2>2
<1>7. ASSUME NEW p \in Orders, Pay(p) PROVE Booked(o)'
  BY <1>3, <1>7, BookedKept DEF Pay, books, Handling
<1>8. CASE DeletePending \/ Tick
  <2>1. table'[o].ratio = table[o].ratio
    BY <1>1, <1>8 DEF DeletePending, Tick, OrderRow
  <2>2. QED
    BY <1>3, <1>8, <2>1, BookedKept DEF DeletePending, Tick, books, Handling
(* A notification that neither leaves nor enters the books of o.           *)
<1>9. ASSUME NEW n \in Notices, \A m \in Notices : m # n => notice'[m] = notice[m],
             notice'[n].pc \notin {"record", "reward"} \/ notice'[n].found # o,
             notice[n].pc \notin {"record", "reward"} \/ notice[n].found # o,
             credited'[o] = credited[o], recorded'[o] = recorded[o], rewarded'[o] = rewarded[o],
             table'[o].ratio = table[o].ratio
      PROVE  Booked(o)'
  <2>1. ASSUME NEW m \in Notices
        PROVE  /\ Handling(m, "record", o)' <=> Handling(m, "record", o)
               /\ Handling(m, "reward", o)' <=> Handling(m, "reward", o)
    BY <1>9 DEF Handling
  <2>2. QED
    BY <1>3, <1>9, <2>1, BookedKept
<1>10. ASSUME NEW n \in Notices, NEW p \in Orders, Deliver(n, p) \/ Misread(n, p) PROVE Booked(o)'
  <2>1. /\ \A m \in Notices : m # n => notice'[m] = notice[m]
        /\ notice[n].pc = "idle" /\ notice'[n].pc \in {"save", "answer"}
        /\ UNCHANGED <<table, books>>
    BY <1>1, <1>10 DEF Deliver, Misread, Unfound
  <2>2. QED
    BY <1>9, <2>1 DEF books
<1>11. ASSUME NEW n \in Notices, Save(n) PROVE Booked(o)'
  <2>1. /\ \A m \in Notices : m # n => notice'[m] = notice[m]
        /\ notice[n].pc = "save" /\ notice'[n].pc = "credit"
    BY <1>1, <1>11, NoticeGoesOn DEF Save
  <2>2. UNCHANGED books /\ table'[o].ratio = table[o].ratio
    BY <1>1, <1>11 DEF Save, OrderRow
  <2>3. QED
    BY <1>9, <2>1, <2>2 DEF books
<1>12. ASSUME NEW n \in Notices, Credit(n) PROVE Booked(o)'
  <2>1. /\ \A m \in Notices : m # n => notice'[m] = notice[m]
        /\ notice[n].pc = "credit" /\ notice'[n].pc = "record" /\ notice'[n].found = notice[n].found
    BY <1>1, <1>12, NoticeGoesOn DEF Credit
  <2>2. /\ credited' = [credited EXCEPT ![notice[n].found] = @ + 1]
        /\ UNCHANGED <<table, recorded, rewarded>>
    BY <1>12 DEF Credit
  <2>3. CASE notice[n].found # o
    BY <1>1, <1>9, <2>1, <2>2, <2>3
  <2>4. CASE notice[n].found = o
    <3>1. Recording(o)' = Recording(o) \cup {n} /\ n \notin Recording(o)
      BY <2>1, <2>4 DEF Recording, Handling
    <3>2. Due(o)' = Due(o) \cup {n} /\ n \notin Due(o)
      BY <2>1, <2>4 DEF Due, Handling
    <3>3. /\ Cardinality(Recording(o)') = Cardinality(Recording(o)) + 1
          /\ Cardinality(Due(o)') = Cardinality(Due(o)) + 1
      BY <1>4, <3>1, <3>2, FS_AddElement
    <3>4. credited'[o] = credited[o] + 1
      BY <1>1, <2>2, <2>4
    <3>5. QED
      BY <1>1, <1>3, <1>4, <2>2, <3>3, <3>4 DEF Booked
  <2>5. QED
    BY <2>3, <2>4
<1>13. ASSUME NEW n \in Notices, Record(n) PROVE Booked(o)'
  <2>1. /\ \A m \in Notices : m # n => notice'[m] = notice[m]
        /\ notice[n].pc = "record" /\ notice'[n].pc = "reward" /\ notice'[n].found = notice[n].found
    BY <1>1, <1>13, NoticeGoesOn DEF Record
  <2>2. /\ recorded' = IF table[notice[n].found].ratio = "days"
                       THEN [recorded EXCEPT ![notice[n].found] = @ + 1] ELSE recorded
        /\ UNCHANGED <<table, credited, rewarded>>
    BY <1>13 DEF Record, Inserts
  <2>3. CASE notice[n].found # o
    BY <1>1, <1>9, <2>1, <2>2, <2>3
  <2>4. CASE notice[n].found = o
    <3>1. Recording(o)' = Recording(o) \ {n} /\ n \in Recording(o)
      BY <2>1, <2>4 DEF Recording, Handling
    <3>2. Due(o)' = Due(o)
      BY <2>1, <2>4 DEF Due, Handling
    <3>3. Cardinality(Recording(o)') = Cardinality(Recording(o)) - 1
      BY <1>4, <3>1, FS_RemoveElement
    <3>4. recorded'[o] = IF table[o].ratio = "days" THEN recorded[o] + 1 ELSE recorded[o]
      BY <1>1, <2>2, <2>4
    <3>5. QED
      BY <1>1, <1>3, <1>4, <2>2, <3>2, <3>3, <3>4 DEF Booked
  <2>5. QED
    BY <2>3, <2>4
<1>14. ASSUME NEW n \in Notices, Reward(n) PROVE Booked(o)'
  <2>1. /\ \A m \in Notices : m # n => notice'[m] = notice[m]
        /\ notice[n].pc = "reward" /\ notice'[n].pc = "answer"
    BY <1>1, <1>14, NoticeGoesOn DEF Reward
  <2>2. /\ rewarded' \in {rewarded, [rewarded EXCEPT ![notice[n].found] = @ + 1]}
        /\ UNCHANGED <<table, credited, recorded>>
    BY <1>14 DEF Reward
  <2>3. CASE notice[n].found # o
    BY <1>1, <1>9, <2>1, <2>2, <2>3
  <2>4. CASE notice[n].found = o
    <3>1. Due(o)' = Due(o) \ {n} /\ n \in Due(o)
      BY <2>1, <2>4 DEF Due, Handling
    <3>2. Recording(o)' = Recording(o)
      BY <2>1, <2>4 DEF Recording, Handling
    <3>3. Cardinality(Due(o)') = Cardinality(Due(o)) - 1
      BY <1>4, <3>1, FS_RemoveElement
    <3>4. rewarded'[o] \in {rewarded[o], rewarded[o] + 1}
      BY <1>1, <2>2, <2>4
    <3>5. QED
      BY <1>1, <1>3, <1>4, <2>2, <3>2, <3>3, <3>4 DEF Booked
  <2>5. QED
    BY <2>3, <2>4
<1>15. ASSUME NEW n \in Notices, Answer(n) PROVE Booked(o)'
  <2>1. /\ notice[n].pc = "answer" /\ notice' = [notice EXCEPT ![n] = Idle] /\ UNCHANGED <<table, books>>
    BY <1>15 DEF Answer
  <2>2. notice'[n].pc = "idle" /\ \A m \in Notices : m # n => notice'[m] = notice[m]
    BY <1>1, <2>1 DEF Idle
  <2>3. QED
    BY <1>9, <2>1, <2>2 DEF books
<1>16. ASSUME NEW n \in Notices, Malformed(n) \/ NotifyFails(n) PROVE Booked(o)'
  <2>1. /\ notice' = [notice EXCEPT ![n] = Idle] /\ UNCHANGED <<table, books>>
        /\ broken' = broken \cup Cut({n})
    BY <1>16 DEF Malformed, NotifyFails, Stop, Stopped
  <2>2. notice'[n].pc = "idle" /\ \A m \in Notices : m # n => notice'[m] = notice[m]
    BY <1>1, <2>1 DEF Idle
  <2>3. notice[n].pc \notin {"record", "reward"} \/ notice[n].found # o
    <3>1. notice[n].pc \in {"record", "reward"} => notice[n].found \in Cut({n})
      BY DEF Cut
    <3>2. QED
      BY <2>1, <3>1
  <2>4. QED
    BY <1>9, <2>1, <2>2, <2>3 DEF books
<1>17. CASE Crash
  <2>1. /\ \A n \in Notices : notice'[n].pc = "idle"
        /\ UNCHANGED <<table, books>> /\ broken' = broken \cup Cut(Notices)
    BY <1>17 DEF Crash, Idle
  <2>2. ASSUME NEW n \in Notices
        PROVE  notice[n].pc \notin {"record", "reward"} \/ notice[n].found # o
    <3>1. notice[n].pc \in {"record", "reward"} => notice[n].found \in Cut(Notices)
      BY DEF Cut
    <3>2. QED
      BY <2>1, <3>1
  <2>3. \A n \in Notices : /\ Handling(n, "record", o)' <=> Handling(n, "record", o)
                           /\ Handling(n, "reward", o)' <=> Handling(n, "reward", o)
    BY <2>1, <2>2 DEF Handling
  <2>4. QED
    BY <1>3, <2>1, <2>3, BookedKept DEF books
<1>18. QED
  BY <1>5, <1>6, <1>7, <1>8, <1>10, <1>11, <1>12, <1>13, <1>14, <1>15, <1>16,
     <1>17 DEF OrderNext, NoticeStep

LEMMA RecordsInit == OrderInit => RecordsInv
<1>1. SUFFICES ASSUME OrderInit PROVE RecordsInv
  OBVIOUS
<1>2. OrderTypeOK
  BY <1>1, OrderInitInv DEF OrderInv
<1>3. NoneBegun
  BY <1>1 DEF OrderInit, NoneBegun, Idle, Zero
<1>4. ASSUME NEW o \in Orders PROVE Booked(o)
  <2>1. Recording(o) = {} /\ Due(o) = {}
    BY <1>1 DEF OrderInit, Recording, Due, Handling, Idle
  <2>2. Cardinality({}) = 0
    BY FS_EmptySet
  <2>3. QED
    BY <1>1, <2>1, <2>2 DEF OrderInit, Booked, Zero
<1>5. QED
  BY <1>2, <1>3, <1>4 DEF RecordsInv

LEMMA RecordsInductive == OrderSpec => []RecordsInv
<1>1. RecordsInv /\ [OrderNext]_orderVars => RecordsInv'
  <2>1. SUFFICES ASSUME RecordsInv, [OrderNext]_orderVars PROVE RecordsInv'
    OBVIOUS
  <2>2. OrderTypeOK' /\ NoneBegun'
    BY <2>1, OrderTypeInv, BegunInv DEF RecordsInv
  <2>3. \A o \in Orders : o \notin broken' => Booked(o)'
    BY <2>1, <2>2, BookedInv
  <2>4. QED
    BY <2>2, <2>3 DEF RecordsInv
<1>2. QED
  BY <1>1, RecordsInit, PTL DEF OrderSpec

\* Whatever notifications, faults and crashes do to an order whose handling did
\* not break off: as many recharge records as credits but for those that are
\* being recorded, none without a term, and no reward without its credit.
THEOREM RecordsFollow == OrderSpec => []RecordsFollowCredits
<1>1. RecordsInv => RecordsFollowCredits
  <2>1. SUFFICES ASSUME RecordsInv, NEW o \in Orders \ broken
                 PROVE  /\ recorded[o] = IF table[o].ratio = "days"
                              THEN credited[o] - Cardinality({n \in Notices : Handling(n, "record", o)})
                              ELSE 0
                        /\ rewarded[o] <= credited[o]
    BY DEF RecordsFollowCredits
  <2>2. /\ Booked(o) /\ Cardinality(Due(o)) \in Nat
        /\ rewarded[o] \in Nat /\ credited[o] \in Nat
    BY <2>1, SetsFinite DEF RecordsInv, OrderTypeOK
  <2>3. QED
    BY <2>2 DEF Booked, Recording
<1>2. QED
  BY <1>1, RecordsInductive, PTL
=============================================================================
