--------------------------- MODULE UserQuotaProofs ---------------------------
(***************************************************************************)
(* Proofs about UserQuota, for every set of users, requests and credits,   *)
(* both isolation levels and every value of the bounds: type correctness,  *)
(* the bound on the overdraft, the exact ledger, what the recharge records *)
(* promise, and the refinement of QuotaAccount.                            *)
(***************************************************************************)
EXTENDS UserQuota, Sums, TLAPS

\* Versions come from the clock, so a version that was read is used again only
\* while no debit has committed; a call that may still commit was checked.
VersionsPast ==
    /\ \A u \in Users : version[u] <= clock
    /\ \A c \in Requests : call[c].version <= clock

\* While the version a call read is still the version of the row, only credits
\* and expiry moved the quota: what was read is still there, or was forfeited.
ReadStillCovered ==
    \A c \in Requests :
        /\ call[c].pc \in {"have", "draw"} => call[c].need <= call[c].quota
        /\ (call[c].pc \in {"have", "draw"} /\ call[c].version = version[call[c].user])
              => call[c].quota <= quota[call[c].user] + expired[call[c].user]

\* The loop over the records runs with the row lock held, on an unchanged row.
DrawHoldsLock ==
    \A c \in Requests :
        call[c].pc = "draw" => /\ lock[call[c].user] = c
                               /\ call[c].version = version[call[c].user]

IInv == /\ TypeOK
        /\ VersionsPast
        /\ ReadStillCovered
        /\ DrawHoldsLock
        /\ OverdraftBoundedByExpiry
-----------------------------------------------------------------------------
LEMMA InitialValues ==
    /\ NoRecord \in Record
    /\ NoCall \in Call
    /\ NoSweep \in Sweep
  <1>1. PICK u0 \in Users : u0 = CHOOSE u \in Users : TRUE
    BY NonEmptyAssumption
  <1>2. PICK q0 \in Sizes : q0 = CHOOSE q \in Sizes : TRUE
    BY NonEmptyAssumption
  <1>3. PICK e0 \in EndDates : e0 = CHOOSE e \in EndDates : TRUE
    BY NonEmptyAssumption
  <1>4. NoRecord \in Record
    BY <1>1, <1>3 DEF NoRecord, Record
  <1>5. NoCall \in Call
    BY <1>1, <1>2, <1>4 DEF NoCall, Call, MaxRetries
  <1>6. NoSweep \in Sweep
    BY DEF NoSweep, Sweep
  <1>. QED BY <1>4, <1>5, <1>6

\* A call whose transaction ended is a call, in a state of rest or a retry.
LEMMA LeftType ==
    ASSUME NEW k \in Call, NEW pc \in {"read", "ok", "insufficient", "exhausted", "error"}
    PROVE  /\ Left(k, pc) \in Call
           /\ Left(k, pc).pc = pc
           /\ Left(k, pc).user = k.user
           /\ Left(k, pc).need = k.need
           /\ Left(k, pc).version = 0
           /\ Left(k, pc).tries = 0
  BY InitialValues DEF Left, Call, MaxRetries, NoCall

LEMMA RetriedType ==
    ASSUME NEW k \in Call
    PROVE  /\ Retried(k) \in Call
           /\ Retried(k).pc \in {"read", "exhausted"}
           /\ Retried(k).user = k.user
           /\ Retried(k).need = k.need
           /\ Retried(k).version = 0
  <1>1. CASE k.tries + 1 < MaxRetries
    <2>1. /\ Left(k, "read") \in Call
          /\ Left(k, "read").pc = "read"
          /\ Left(k, "read").user = k.user
          /\ Left(k, "read").need = k.need
          /\ Left(k, "read").version = 0
      BY LeftType
    <2>2. k.tries + 1 \in 0..MaxRetries
      BY <1>1 DEF Call, MaxRetries
    <2>. QED BY <1>1, <2>1, <2>2 DEF Retried, Call
  <1>2. CASE ~(k.tries + 1 < MaxRetries)
    BY <1>2, LeftType DEF Retried
  <1>. QED BY <1>1, <1>2

LEMMA RemainingType ==
    ASSUME NEW have \in Nat, NEW due \in Nat
    PROVE  NewAmount(have, due) \in Nat /\ Remaining(have, due) \in Nat
  BY DEF NewAmount, Remaining
-----------------------------------------------------------------------------
(* Type correctness                                                        *)

LEMMA InitType == Init => TypeOK
  BY InitialValues, InitialQuotaAssumption, MaxTimeAssumption, HoldersAssumption
     DEF Init, TypeOK

LEMMA CallUpdate ==
    ASSUME TypeOK, NEW c \in Requests, NEW k \in Call, call' = [call EXCEPT ![c] = k]
    PROVE  call' \in [Requests -> Call]
  BY DEF TypeOK

LEMMA RecordUpdate ==
    ASSUME TypeOK, NEW t \in Topups, NEW r \in Record, record' = [record EXCEPT ![t] = r]
    PROVE  record' \in [Topups -> Record]
  BY DEF TypeOK

LEMMA CallType ==
    ASSUME TypeOK, NEW c \in Requests, Begin(c) \/ CallStep(c) \/ DbError(c)
    PROVE  TypeOK'
  <1>. call[c] \in Call
    BY DEF TypeOK
  <1>1. CASE Begin(c)
    <2>1. PICK u \in Users, q \in Sizes :
              call' = [call EXCEPT ![c] =
                          [call[c] EXCEPT !.pc = "read", !.user = u, !.need = q]]
      BY <1>1 DEF Begin, TypeOK
    <2>2. [call[c] EXCEPT !.pc = "read", !.user = u, !.need = q] \in Call
      BY DEF Call
    <2>3. call' \in [Requests -> Call]
      BY <2>1, <2>2, CallUpdate
    <2>. QED BY <1>1, <2>3 DEF Begin, TypeOK, rows
  <1>2. CASE Read(c)
    <2>1. CASE ~Sufficient(call[c])
      BY <1>2, <2>1, LeftType DEF Read, TypeOK, rows
    <2>2. CASE Sufficient(call[c])
      <3>. DEFINE k == [call[c] EXCEPT
                    !.pc = "have", !.quota = quota[call[c].user],
                    !.version = version[call[c].user],
                    !.seen = IF SnapshotReads THEN record ELSE @]
      <3>1. k \in Call
        BY DEF Call, TypeOK
      <3>2. call' = [call EXCEPT ![c] = k]
        BY <1>2, <2>2 DEF Read
      <3>3. call' \in [Requests -> Call]
        BY <3>1, <3>2, CallUpdate
      <3>. QED BY <1>2, <3>3 DEF Read, TypeOK, rows
    <2>. QED BY <2>1, <2>2
  <1>3. CASE LockRow(c)
    <2>1. CASE ~SameVersion(call[c])
      BY <1>3, <2>1, RetriedType DEF LockRow, TypeOK
    <2>2. CASE SameVersion(call[c])
      <3>. DEFINE seen == IF SnapshotReads THEN call[c].seen ELSE record
                  k == [call[c] EXCEPT
                    !.pc = "draw", !.seen = seen, !.drawn = {},
                    !.todo = Spendable(seen, call[c].user), !.due = call[c].need]
      <3>1. seen \in [Topups -> Record] /\ Spendable(seen, call[c].user) \subseteq Topups
        BY DEF Call, TypeOK, Spendable
      <3>2. k \in Call
        <4>. HIDE DEF seen
        <4>. QED BY <3>1, SizesAssumption DEF Call
      <3>3. call' = [call EXCEPT ![c] = k] /\ lock' = [lock EXCEPT ![call[c].user] = c]
        BY <1>3, <2>2 DEF LockRow
      <3>4. call' \in [Requests -> Call]
        BY <3>2, <3>3, CallUpdate
      <3>. QED BY <1>3, <3>3, <3>4 DEF LockRow, TypeOK
    <2>. QED BY <2>1, <2>2
  <1>4. CASE Draw(c)
    <2>. DEFINE k == call[c]
                drew(t) == [k EXCEPT
                    !.due = Remaining(k.seen[t].amount, k.due),
                    !.seen = [@ EXCEPT ![t].amount = NewAmount(k.seen[t].amount, k.due)],
                    !.drawn = @ \cup {t},
                    !.todo = IF Remaining(k.seen[t].amount, k.due) = 0 THEN {} ELSE @ \ {t}]
    <2>1. PICK t \in k.todo :
              \/ call' = [call EXCEPT ![c] = drew(t)] /\ UNCHANGED lock
              \/ /\ call' = [call EXCEPT ![c] = Retried(k)]
                 /\ lock' = [lock EXCEPT ![k.user] = NoOne]
      BY <1>4 DEF Draw
    <2>2. t \in Topups /\ k.seen[t] \in Record /\ k.due \in Nat /\ k.seen[t].amount \in Nat
      BY DEF Call, Record
    <2>3. /\ NewAmount(k.seen[t].amount, k.due) \in Nat
          /\ Remaining(k.seen[t].amount, k.due) \in Nat
      BY <2>2, RemainingType
    <2>4. drew(t) \in Call
      <3>1. [k.seen EXCEPT ![t].amount = NewAmount(k.seen[t].amount, k.due)]
               \in [Topups -> Record]
        BY <2>2, <2>3 DEF Call, Record
      <3>. QED BY <2>2, <2>3, <3>1 DEF Call
    <2>5. Retried(k) \in Call
      BY RetriedType
    <2>6. call' \in [Requests -> Call]
      <3>. HIDE DEF k, drew
      <3>. QED BY <2>1, <2>4, <2>5 DEF TypeOK
    <2>7. lock' \in [Users -> Requests \cup {NoOne, Sweeper}]
      BY <2>1 DEF TypeOK
    <2>. QED BY <1>4, <2>6, <2>7 DEF Draw, TypeOK
  <1>5. CASE Commit(c)
    <2>1. record' \in [Topups -> Record]
      <3>. DEFINE r(t) == [record[t] EXCEPT !.amount = call[c].seen[t].amount,
                                            !.version = clock + 1]
      <3>1. ASSUME NEW t \in Topups PROVE r(t) \in Record
        <4>1. record[t] \in Record /\ call[c].seen[t] \in Record /\ clock + 1 \in Nat
          BY DEF TypeOK, Call
        <4>2. call[c].seen[t].amount \in Nat
          BY <4>1 DEF Record
        <4>. QED BY <4>1, <4>2 DEF Record
      <3>2. record' = [t \in Topups |-> IF t \in call[c].drawn THEN r(t) ELSE record[t]]
        BY <1>5 DEF Commit
      <3>. QED BY <3>1, <3>2 DEF TypeOK
    <2>2. call' \in [Requests -> Call]
      BY <1>5, LeftType DEF Commit, TypeOK
    <2>3. call[c].need \in Nat /\ call[c].user \in Users
      BY SizesAssumption DEF Call
    <2>4. quota' \in [Users -> Int]
      <3>1. Debited(call[c]) \in Int
        BY <2>3 DEF Debited, TypeOK
      <3>. QED BY <1>5, <3>1 DEF Commit, TypeOK
    <2>5. clock' \in Nat /\ version' \in [Users -> Nat]
      <3>1. clock + 1 \in Nat
        BY DEF TypeOK
      <3>. QED BY <1>5, <3>1 DEF Commit, TypeOK
    <2>6. lock' \in [Users -> Requests \cup {NoOne, Sweeper}]
      BY <1>5 DEF Commit, TypeOK
    <2>. QED BY <1>5, <2>1, <2>2, <2>4, <2>5, <2>6 DEF Commit, TypeOK
  <1>6. CASE DbError(c)
    BY <1>6, LeftType DEF DbError, TypeOK
  <1>. QED BY <1>1, <1>2, <1>3, <1>4, <1>5, <1>6 DEF CallStep

LEMMA CreditType ==
    ASSUME TypeOK, NEW t \in Topups, Credit(t) \/ InsertRecord(t) \/ RedeemCredit(t)
    PROVE  TypeOK'
  <1>. record[t] \in Record
    BY DEF TypeOK
  <1>1. CASE Credit(t)
    <2>1. PICK u \in Users, n \in Sizes :
              /\ quota' = [quota EXCEPT ![u] = @ + n]
              /\ record' = [record EXCEPT
                    ![t] = [record[t] EXCEPT !.state = "credited", !.user = u, !.size = n]]
      BY <1>1 DEF Credit, TypeOK
    <2>2. [record[t] EXCEPT !.state = "credited", !.user = u, !.size = n] \in Record
      BY SizesAssumption DEF Record
    <2>3. record' \in [Topups -> Record]
      BY <2>1, <2>2, RecordUpdate
    <2>4. quota' \in [Users -> Int]
      <3>1. quota[u] + n \in Int
        BY SizesAssumption DEF TypeOK
      <3>. QED BY <2>1, <3>1 DEF TypeOK
    <2>. QED BY <1>1, <2>3, <2>4 DEF Credit, TypeOK
  <1>2. CASE InsertRecord(t)
    <2>1. PICK e \in EndDates :
              record' = [record EXCEPT ![t] =
                  [record[t] EXCEPT !.state = "live", !.amount = record[t].size, !.end = e]]
      BY <1>2 DEF InsertRecord, TypeOK
    <2>2. [record[t] EXCEPT !.state = "live", !.amount = record[t].size, !.end = e]
             \in Record
      BY DEF Record
    <2>3. record' \in [Topups -> Record]
      BY <2>1, <2>2, RecordUpdate
    <2>. QED BY <1>2, <2>3 DEF InsertRecord, TypeOK
  <1>3. CASE RedeemCredit(t)
    BY <1>3, SizesAssumption DEF RedeemCredit, TypeOK, Record
  <1>. QED BY <1>1, <1>2, <1>3

LEMMA SweepType ==
    ASSUME TypeOK, SweepRead \/ SweepDeduct \/ SweepCommit \/ SweepError \/ Tick
    PROVE  TypeOK'
  <1>1. CASE SweepRead
    <2>. DEFINE todo == {t \in Topups : Overdue(t)}
                seen == [t \in Topups |-> record[t].amount]
    <2>1. todo \subseteq Topups /\ seen \in [Topups -> Nat]
      BY DEF TypeOK, Record
    <2>2. [NoSweep EXCEPT !.pc = "deduct", !.todo = todo, !.seen = seen] \in Sweep
      <3>. HIDE DEF todo, seen
      <3>. QED BY <2>1 DEF NoSweep, Sweep
    <2>3. sweep' \in Sweep
      BY <1>1, <2>2 DEF SweepRead
    <2>. QED BY <1>1, <2>3 DEF SweepRead, TypeOK, rows
  <1>2. CASE SweepDeduct
    <2>1. PICK t \in sweep.todo :
              /\ lock' = [lock EXCEPT ![record[t].user] = Sweeper]
              /\ sweep' = [sweep EXCEPT !.todo = @ \ {t}, !.done = @ \cup {t},
                                        !.taken[record[t].user] = @ + sweep.seen[t]]
      BY <1>2 DEF SweepDeduct
    <2>2. t \in Topups /\ record[t].user \in Users /\ sweep.seen[t] \in Nat
      BY DEF TypeOK, Sweep, Record
    <2>3. [sweep.taken EXCEPT ![record[t].user] = @ + sweep.seen[t]] \in [Users -> Nat]
      BY <2>2 DEF TypeOK, Sweep
    <2>4. sweep' \in Sweep
      BY <2>1, <2>2, <2>3 DEF TypeOK, Sweep
    <2>5. lock' \in [Users -> Requests \cup {NoOne, Sweeper}]
      BY <2>1, <2>2 DEF TypeOK
    <2>. QED BY <1>2, <2>4, <2>5 DEF SweepDeduct, TypeOK
  <1>3. CASE SweepCommit
    <2>1. /\ quota' \in [Users -> Int]
          /\ expired' \in [Users -> Nat]
      <3>1. \A u \in Users : quota[u] - sweep.taken[u] \in Int /\ expired[u] + sweep.taken[u] \in Nat
        BY DEF TypeOK, Sweep
      <3>. QED BY <1>3, <3>1 DEF SweepCommit
    <2>2. record' \in [Topups -> Record]
      <3>1. \A t \in Topups : [record[t] EXCEPT !.state = "gone", !.amount = 0] \in Record
        BY DEF TypeOK, Record
      <3>. QED BY <1>3, <3>1 DEF SweepCommit, TypeOK
    <2>3. lock' \in [Users -> Requests \cup {NoOne, Sweeper}] /\ sweep' \in Sweep
      BY <1>3, InitialValues DEF SweepCommit, Unlocked, TypeOK
    <2>. QED BY <1>3, <2>1, <2>2, <2>3 DEF SweepCommit, TypeOK
  <1>4. CASE SweepError
    BY <1>4, InitialValues DEF SweepError, Unlocked, TypeOK
  <1>5. CASE Tick
    BY <1>5, MaxTimeAssumption DEF Tick, TypeOK, rows
  <1>. QED BY <1>1, <1>2, <1>3, <1>4, <1>5

LEMMA NextType == TypeOK /\ [Next]_vars => TypeOK'
  <1>. SUFFICES ASSUME TypeOK, [Next]_vars PROVE TypeOK'
    OBVIOUS
  <1>1. CASE UNCHANGED vars
    BY <1>1 DEF vars, TypeOK
  <1>. QED BY <1>1, CallType, CreditType, SweepType DEF Next

\* Every variable keeps its type.
THEOREM TypeCorrect == Spec => []TypeOK
  BY InitType, NextType, PTL DEF Spec
-----------------------------------------------------------------------------
(* The bound on the overdraft.  IInv is inductive: the version check makes *)
(* the quota that was checked in step 2 still covered when it is debited.  *)

LEMMA InitIInv == Init => IInv
  <1>. SUFFICES ASSUME Init PROVE IInv
    OBVIOUS
  <1>1. TypeOK
    BY InitType
  <1>2. \A c \in Requests : call[c].pc = "idle" /\ call[c].version = 0
    BY DEF Init, NoCall
  <1>. QED BY <1>1, <1>2, InitialQuotaAssumption
           DEF Init, IInv, VersionsPast, ReadStillCovered, DrawHoldsLock,
               OverdraftBoundedByExpiry

\* What the steps of a call leave of the facts IInv says of that call.
CallInv(c) ==
    /\ call[c].version <= clock
    /\ call[c].pc \in {"have", "draw"} => call[c].need <= call[c].quota
    /\ (call[c].pc \in {"have", "draw"} /\ call[c].version = version[call[c].user])
          => call[c].quota <= quota[call[c].user] + expired[call[c].user]
    /\ call[c].pc = "draw" => /\ lock[call[c].user] = c
                              /\ call[c].version = version[call[c].user]

UserInv(u) == version[u] <= clock /\ quota[u] + expired[u] >= 0

LEMMA IInvPointwise ==
    IInv <=> TypeOK /\ (\A c \in Requests : CallInv(c)) /\ (\A u \in Users : UserInv(u))
  BY DEF IInv, VersionsPast, ReadStillCovered, DrawHoldsLock, OverdraftBoundedByExpiry,
         CallInv, UserInv

LEMMA PointwisePrime ==
    ASSUME TypeOK', \A c \in Requests : CallInv(c)', \A u \in Users : UserInv(u)'
    PROVE  IInv'
  BY DEF IInv, VersionsPast, ReadStillCovered, DrawHoldsLock, OverdraftBoundedByExpiry,
         CallInv, UserInv

\* A step that only rewrites one call, outside the loop over the records, and
\* perhaps gives back a lock of that call.
LEMMA AtRest ==
    ASSUME IInv, TypeOK', NEW c \in Requests, NEW k \in Call,
           call' = [call EXCEPT ![c] = k],
           k.version <= clock, k.pc \notin {"have", "draw"},
           UNCHANGED <<quota, version, expired, clock>>,
           \/ UNCHANGED lock
           \/ lock[call[c].user] = c /\ lock' = [lock EXCEPT ![call[c].user] = NoOne]
    PROVE  IInv'
  <1>1. \A u \in Users : UserInv(u)'
    BY IInvPointwise DEF UserInv
  <1>2. ASSUME NEW d \in Requests PROVE CallInv(d)'
    <2>1. CASE d = c
      BY <2>1 DEF CallInv, TypeOK
    <2>2. CASE d # c
      <3>1. call'[d] = call[d] /\ CallInv(d) /\ call[d] \in Call
        BY <2>2, IInvPointwise DEF TypeOK, IInv
      <3>2. call[d].pc = "draw" => lock'[call[d].user] = d
        BY <3>1, <2>2 DEF CallInv, TypeOK, Call, IInv
      <3>. QED BY <3>1, <3>2 DEF CallInv
    <2>. QED BY <2>1, <2>2
  <1>. QED BY <1>1, <1>2, PointwisePrime

\* A step that leaves the calls and their locks alone, and under which no
\* quota-plus-forfeits shrinks and no version changes: credits and expiry.
LEMMA Bystander ==
    ASSUME IInv, TypeOK', UNCHANGED <<call, version, clock>>,
           \A u \in Users : quota'[u] + expired'[u] >= quota[u] + expired[u],
           \A u \in Users : lock[u] \in Requests => lock'[u] = lock[u]
    PROVE  IInv'
  <1>1. \A u \in Users : UserInv(u)'
    BY DEF UserInv, IInv, VersionsPast, OverdraftBoundedByExpiry, TypeOK
  <1>2. ASSUME NEW c \in Requests PROVE CallInv(c)'
    <2>1. call[c] \in Call /\ call[c].user \in Users /\ CallInv(c)
      BY IInvPointwise DEF IInv, TypeOK, Call
    <2>2. call[c].quota \in Int /\ quota[call[c].user] + expired[call[c].user] \in Int
      BY <2>1 DEF IInv, TypeOK, Call
    <2>3. quota'[call[c].user] + expired'[call[c].user] \in Int
      BY <2>1 DEF TypeOK
    <2>. QED BY <2>1, <2>2, <2>3 DEF CallInv
  <1>. QED BY <1>1, <1>2, PointwisePrime

LEMMA BeginInv == ASSUME IInv, TypeOK', NEW c \in Requests, Begin(c) PROVE IInv'
  <1>1. PICK u \in Users, q \in Sizes :
            call' = [call EXCEPT ![c] = [call[c] EXCEPT !.pc = "read", !.user = u, !.need = q]]
    BY DEF Begin, IInv, TypeOK
  <1>. DEFINE k == [call[c] EXCEPT !.pc = "read", !.user = u, !.need = q]
  <1>2. call[c] \in Call /\ call[c].version <= clock
    BY DEF IInv, TypeOK, VersionsPast
  <1>3. k \in Call /\ k.version = call[c].version /\ k.pc = "read"
    BY <1>2 DEF Call
  <1>. QED BY <1>1, <1>2, <1>3, AtRest DEF Begin, rows

LEMMA ReadInv == ASSUME IInv, TypeOK', NEW c \in Requests, Read(c) PROVE IInv'
  <1>. DEFINE k == call[c]
  <1>0. k \in Call /\ 0 <= clock /\ k.user \in Users /\ k.need \in Nat
    <2>1. k \in Call /\ clock \in Nat
      BY DEF IInv, TypeOK
    <2>2. k.user \in Users /\ k.need \in Sizes
      BY <2>1 DEF Call
    <2>3. k.need \in Nat
      BY <2>2, SizesAssumption
    <2>4. 0 <= clock
      BY <2>1
    <2>. HIDE DEF k
    <2>. QED BY <2>1, <2>2, <2>3, <2>4
  <1>1. CASE ~Sufficient(k)
    <2>1. call' = [call EXCEPT ![c] = Left(k, "insufficient")]
          /\ UNCHANGED <<quota, version, expired, clock, lock>>
      BY <1>1 DEF Read, rows
    <2>2. /\ Left(k, "insufficient") \in Call
          /\ Left(k, "insufficient").pc = "insufficient"
          /\ Left(k, "insufficient").version = 0
      BY <1>0, LeftType
    <2>. QED BY <1>0, <2>1, <2>2, AtRest
  <1>2. CASE Sufficient(k)
    <2>1. /\ call' = [call EXCEPT ![c] = [k EXCEPT
                   !.pc = "have", !.quota = quota[k.user], !.version = version[k.user],
                   !.seen = IF SnapshotReads THEN record ELSE @]]
          /\ UNCHANGED <<quota, version, lock, expired, clock>>
      BY <1>2 DEF Read, rows
    <2>2. /\ call'[c].pc = "have" /\ call'[c].quota = quota[k.user]
          /\ call'[c].version = version[k.user] /\ call'[c].user = k.user
          /\ call'[c].need = k.need
      BY <2>1, <1>0 DEF IInv, TypeOK, Call
    <2>3. quota[k.user] \in Int /\ expired[k.user] \in Nat /\ version[k.user] <= clock
      BY <1>0 DEF IInv, TypeOK, VersionsPast
    <2>4. CallInv(c)'
      BY <1>0, <1>2, <2>1, <2>2, <2>3 DEF CallInv, Sufficient
    <2>5. ASSUME NEW d \in Requests, d # c PROVE CallInv(d)'
      BY <2>1, <2>5, IInvPointwise DEF CallInv, IInv, TypeOK
    <2>6. \A u \in Users : UserInv(u)'
      BY <2>1, IInvPointwise DEF UserInv
    <2>. QED BY <2>4, <2>5, <2>6, PointwisePrime
  <1>. QED BY <1>1, <1>2

LEMMA LockRowInv == ASSUME IInv, TypeOK', NEW c \in Requests, LockRow(c) PROVE IInv'
  <1>. DEFINE k == call[c]
              seen == IF SnapshotReads THEN k.seen ELSE record
  <1>0. k \in Call /\ 0 <= clock /\ k.user \in Users /\ CallInv(c)
    BY IInvPointwise DEF IInv, TypeOK, Call
  <1>1. CASE ~SameVersion(k)
    BY <1>0, <1>1, RetriedType, AtRest DEF LockRow
  <1>2. CASE SameVersion(k)
    <2>1. /\ call' = [call EXCEPT ![c] = [k EXCEPT
                   !.pc = "draw", !.seen = seen, !.drawn = {},
                   !.todo = Spendable(seen, k.user), !.due = k.need]]
          /\ lock' = [lock EXCEPT ![k.user] = c]
          /\ lock[k.user] = NoOne
          /\ k.pc = "have"
          /\ UNCHANGED <<quota, version, expired, clock>>
      BY <1>2 DEF LockRow
    <2>2. /\ call'[c].pc = "draw" /\ call'[c].quota = k.quota
          /\ call'[c].version = k.version /\ call'[c].user = k.user
          /\ call'[c].need = k.need /\ lock'[k.user] = c
      BY <2>1, <1>0 DEF IInv, TypeOK, Call
    <2>3. CallInv(c)'
      BY <1>0, <1>2, <2>1, <2>2 DEF CallInv, SameVersion
    <2>4. ASSUME NEW d \in Requests, d # c PROVE CallInv(d)'
      <3>1. call'[d] = call[d] /\ CallInv(d) /\ call[d].user \in Users
        BY <2>1, <2>4, IInvPointwise DEF IInv, TypeOK, Call
      <3>2. call[d].pc = "draw" => lock'[call[d].user] = d
        BY <3>1, <2>1, HoldersAssumption DEF CallInv, IInv, TypeOK
      <3>. QED BY <3>1, <3>2, <2>1 DEF CallInv
    <2>5. \A u \in Users : UserInv(u)'
      BY <2>1, IInvPointwise DEF UserInv
    <2>. QED BY <2>3, <2>4, <2>5, PointwisePrime
  <1>. QED BY <1>1, <1>2

LEMMA DrawInv == ASSUME IInv, TypeOK', NEW c \in Requests, Draw(c) PROVE IInv'
  <1>. DEFINE k == call[c]
              drew(t) == [k EXCEPT
                  !.due = Remaining(k.seen[t].amount, k.due),
                  !.seen = [@ EXCEPT ![t].amount = NewAmount(k.seen[t].amount, k.due)],
                  !.drawn = @ \cup {t},
                  !.todo = IF Remaining(k.seen[t].amount, k.due) = 0 THEN {} ELSE @ \ {t}]
  <1>0. /\ k \in Call /\ 0 <= clock /\ k.user \in Users /\ CallInv(c) /\ k.pc = "draw"
        /\ UNCHANGED <<quota, version, expired, clock>>
    BY IInvPointwise DEF IInv, TypeOK, Call, Draw
  <1>1. PICK t \in k.todo :
            \/ call' = [call EXCEPT ![c] = drew(t)] /\ UNCHANGED lock
            \/ /\ call' = [call EXCEPT ![c] = Retried(k)]
               /\ lock' = [lock EXCEPT ![k.user] = NoOne]
    BY DEF Draw
  <1>2. CASE call' = [call EXCEPT ![c] = drew(t)] /\ UNCHANGED lock
    <2>1. /\ call'[c].pc = "draw" /\ call'[c].quota = k.quota
          /\ call'[c].version = k.version /\ call'[c].user = k.user
          /\ call'[c].need = k.need
      BY <1>0, <1>2 DEF IInv, TypeOK, Call
    <2>2. CallInv(c)'
      BY <1>0, <1>2, <2>1 DEF CallInv
    <2>3. ASSUME NEW d \in Requests, d # c PROVE CallInv(d)'
      BY <1>0, <1>2, <2>3, IInvPointwise DEF CallInv, IInv, TypeOK
    <2>4. \A u \in Users : UserInv(u)'
      BY <1>0, IInvPointwise DEF UserInv
    <2>. QED BY <2>2, <2>3, <2>4, PointwisePrime
  <1>3. CASE /\ call' = [call EXCEPT ![c] = Retried(k)]
             /\ lock' = [lock EXCEPT ![k.user] = NoOne]
    <2>1. lock[k.user] = c
      BY <1>0 DEF CallInv
    <2>2. /\ Retried(k) \in Call /\ Retried(k).pc \notin {"have", "draw"}
          /\ Retried(k).version = 0
      BY <1>0, RetriedType
    <2>. QED BY <1>0, <1>3, <2>1, <2>2, AtRest
  <1>. QED BY <1>1, <1>2, <1>3

\* The heart of the argument: at the commit the version is the one that was
\* read, so what step 2 checked is still there; and the new version is one that
\* no other call has read, so none of them may debit on what it read.
LEMMA CommitInv == ASSUME IInv, TypeOK', NEW c \in Requests, Commit(c) PROVE IInv'
  <1>. DEFINE k == call[c]
  <1>0. /\ k \in Call /\ k.user \in Users /\ k.need \in Nat /\ k.quota \in Int
        /\ CallInv(c) /\ k.pc = "draw" /\ clock \in Nat
    BY IInvPointwise, SizesAssumption DEF IInv, TypeOK, Call, Commit
  <1>1. /\ clock' = clock + 1
        /\ quota' = [quota EXCEPT ![k.user] = quota[k.user] - k.need]
        /\ version' = [version EXCEPT ![k.user] = clock + 1]
        /\ lock' = [lock EXCEPT ![k.user] = NoOne]
        /\ call' = [call EXCEPT ![c] = Left(k, "ok")]
        /\ UNCHANGED expired
    BY DEF Commit, Debited
  <1>2. k.need <= quota[k.user] + expired[k.user]
    <2>1. quota[k.user] \in Int /\ expired[k.user] \in Nat
      BY <1>0 DEF IInv, TypeOK
    <2>2. k.need <= k.quota /\ k.quota <= quota[k.user] + expired[k.user]
      BY <1>0 DEF CallInv
    <2>. QED BY <1>0, <2>1, <2>2
  <1>3. \A u \in Users : UserInv(u)'
    <2>. SUFFICES ASSUME NEW u \in Users PROVE UserInv(u)'
      OBVIOUS
    <2>1. quota[u] \in Int /\ expired[u] \in Nat /\ version[u] \in Nat /\ UserInv(u)
      BY IInvPointwise DEF IInv, TypeOK
    <2>2. CASE u = k.user
      <3>1. /\ quota'[u] = quota[u] - k.need /\ version'[u] = clock + 1
            /\ expired'[u] = expired[u] /\ clock' = clock + 1
        BY <1>1, <2>2 DEF IInv, TypeOK
      <3>. QED BY <1>0, <1>2, <2>1, <2>2, <3>1 DEF UserInv
    <2>3. CASE u # k.user
      <3>1. /\ quota'[u] = quota[u] /\ version'[u] = version[u]
            /\ expired'[u] = expired[u] /\ clock' = clock + 1
        BY <1>1, <2>3 DEF IInv, TypeOK
      <3>. QED BY <1>0, <2>1, <3>1 DEF UserInv
    <2>. QED BY <2>2, <2>3
  <1>4. CallInv(c)'
    <2>1. call'[c] = Left(k, "ok")
      BY <1>1 DEF IInv, TypeOK
    <2>2. Left(k, "ok").pc = "ok" /\ Left(k, "ok").version = 0
      BY <1>0, LeftType
    <2>. QED BY <1>0, <1>1, <2>1, <2>2 DEF CallInv
  <1>5. ASSUME NEW d \in Requests, d # c PROVE CallInv(d)'
    <2>1. /\ call'[d] = call[d] /\ CallInv(d) /\ call[d].user \in Users
          /\ call[d].version \in Nat /\ call[d].version <= clock
      BY <1>1, <1>5, IInvPointwise DEF CallInv, IInv, TypeOK, Call
    <2>2. call'[d].version <= clock'
      BY <1>0, <1>1, <2>1
    <2>3. CASE call[d].user = k.user
      <3>1. version'[k.user] = clock + 1
        BY <1>0, <1>1 DEF IInv, TypeOK
      <3>2. call'[d].version # version'[call'[d].user]
        BY <1>0, <2>1, <2>3, <3>1
      <3>3. call[d].pc # "draw"
        BY <1>0, <1>5, <2>1, <2>3 DEF CallInv
      <3>. QED BY <2>1, <2>2, <3>2, <3>3 DEF CallInv
    <2>4. CASE call[d].user # k.user
      <3>1. /\ version'[call[d].user] = version[call[d].user]
            /\ quota'[call[d].user] = quota[call[d].user]
            /\ lock'[call[d].user] = lock[call[d].user]
            /\ expired' = expired
        BY <1>1, <2>1, <2>4 DEF IInv, TypeOK
      <3>. QED BY <2>1, <2>2, <3>1 DEF CallInv
    <2>. QED BY <2>3, <2>4
  <1>. QED BY <1>3, <1>4, <1>5, PointwisePrime

LEMMA DbErrorInv == ASSUME IInv, TypeOK', NEW c \in Requests, DbError(c) PROVE IInv'
  <1>. DEFINE k == call[c]
  <1>1. /\ call' = [call EXCEPT ![c] = Left(k, "error")]
        /\ UNCHANGED <<quota, version, expired, clock>>
        /\ \/ UNCHANGED lock
           \/ lock[k.user] = c /\ lock' = [lock EXCEPT ![k.user] = NoOne]
    BY DEF DbError
  <1>2. k \in Call /\ 0 <= clock
    BY DEF IInv, TypeOK
  <1>3. /\ Left(k, "error") \in Call /\ Left(k, "error").pc = "error"
        /\ Left(k, "error").version = 0
    BY <1>2, LeftType
  <1>. QED BY <1>1, <1>2, <1>3, AtRest

LEMMA CreditInv ==
    ASSUME IInv, TypeOK', NEW t \in Topups, Credit(t) \/ InsertRecord(t) \/ RedeemCredit(t)
    PROVE  IInv'
  <1>. /\ quota \in [Users -> Int] /\ expired \in [Users -> Nat]
       /\ lock \in [Users -> Requests \cup {NoOne, Sweeper}]
    BY DEF IInv, TypeOK
  <1>1. UNCHANGED <<call, version, clock, lock, expired>>
    BY DEF Credit, InsertRecord, RedeemCredit
  <1>2. \A u \in Users : quota'[u] >= quota[u]
    <2>1. UNCHANGED quota \/ \E u \in Users, n \in Sizes : quota' = [quota EXCEPT ![u] = @ + n]
      BY DEF Credit, InsertRecord, RedeemCredit
    <2>2. CASE UNCHANGED quota
      BY <2>2
    <2>3. ASSUME NEW u \in Users, NEW n \in Sizes, quota' = [quota EXCEPT ![u] = @ + n]
          PROVE  \A v \in Users : quota'[v] >= quota[v]
      BY <2>3, SizesAssumption
    <2>. QED BY <2>1, <2>2, <2>3
  <1>3. \A u \in Users : quota'[u] + expired'[u] >= quota[u] + expired[u]
    <2>1. \A u \in Users : quota'[u] \in Int
      BY DEF TypeOK
    <2>. QED BY <1>1, <1>2, <2>1
  <1>. QED BY <1>1, <1>3, Bystander

LEMMA SweepInv ==
    ASSUME IInv, TypeOK', SweepRead \/ SweepDeduct \/ SweepCommit \/ SweepError \/ Tick
    PROVE  IInv'
  <1>. /\ quota \in [Users -> Int] /\ expired \in [Users -> Nat]
       /\ lock \in [Users -> Requests \cup {NoOne, Sweeper}]
       /\ sweep \in Sweep
    BY DEF IInv, TypeOK
  <1>1. UNCHANGED <<call, version, clock>>
    BY DEF SweepRead, SweepDeduct, SweepCommit, SweepError, Tick, rows
  <1>2. \A u \in Users : quota'[u] + expired'[u] >= quota[u] + expired[u]
    <2>1. CASE SweepCommit
      <3>1. \A u \in Users : /\ quota'[u] = quota[u] - sweep.taken[u]
                             /\ expired'[u] = expired[u] + sweep.taken[u]
                             /\ sweep.taken[u] \in Nat
        BY <2>1 DEF SweepCommit, Sweep
      <3>2. ASSUME NEW q \in Int, NEW e \in Nat, NEW n \in Nat
            PROVE  (q - n) + (e + n) >= q + e
        OBVIOUS
      <3>. QED BY <3>1, <3>2
    <2>2. CASE SweepRead \/ SweepDeduct \/ SweepError \/ Tick
      <3>1. UNCHANGED <<quota, expired>>
        BY <2>2 DEF SweepRead, SweepDeduct, SweepError, Tick, rows
      <3>2. \A u \in Users : quota[u] + expired[u] \in Int
        OBVIOUS
      <3>. QED BY <3>1, <3>2
    <2>. QED BY <2>1, <2>2
  <1>3. \A u \in Users : lock[u] \in Requests => lock'[u] = lock[u]
    BY HoldersAssumption
       DEF SweepRead, SweepDeduct, SweepCommit, SweepError, Tick, Unlocked, rows
  <1>. QED BY <1>1, <1>2, <1>3, Bystander

LEMMA NextIInv == IInv /\ [Next]_vars => IInv'
  <1>. SUFFICES ASSUME IInv, [Next]_vars PROVE IInv'
    OBVIOUS
  <1>1. TypeOK'
    BY NextType DEF IInv
  <1>2. CASE UNCHANGED vars
    BY <1>2 DEF vars, IInv, TypeOK, VersionsPast, ReadStillCovered, DrawHoldsLock,
                OverdraftBoundedByExpiry
  <1>3. CASE Next
    BY <1>1, <1>3, BeginInv, ReadInv, LockRowInv, DrawInv, CommitInv, DbErrorInv,
       CreditInv, SweepInv DEF Next, CallStep
  <1>. QED BY <1>2, <1>3

\* Concurrent debits and credits, retried and rolled back, overdraw an account
\* by no more than the expiry sweep took from it.
THEOREM OverdraftBound == Spec => []OverdraftBoundedByExpiry
  <1>1. IInv => OverdraftBoundedByExpiry
    BY DEF IInv
  <1>. QED BY <1>1, InitIInv, NextIInv, PTL DEF Spec
-----------------------------------------------------------------------------
(* Refinement                                                              *)

\* A step that replaces call c by k changes only that entry of the view.
LEMMA ViewUpdate ==
    ASSUME TypeOK, NEW c \in Requests, NEW k \in Call, call' = [call EXCEPT ![c] = k],
           k.user = call[c].user, k.need = call[c].need
    PROVE  /\ DebitView' = [DebitView EXCEPT ![c].phase = Phase(k.pc)]
           /\ DebitView[c].phase = Phase(call[c].pc)
           /\ DebitView[c].user = call[c].user
           /\ DebitView[c].need = call[c].need
           /\ Phase(k.pc) = Phase(call[c].pc) => UNCHANGED DebitView
  BY DEF DebitView, TypeOK

LEMMA Phases ==
    /\ Phase("idle") = "idle" /\ Phase("ok") = "ok"
    /\ Phase("read") = "running" /\ Phase("have") = "running" /\ Phase("draw") = "running"
    /\ Phase("insufficient") = "failed" /\ Phase("exhausted") = "failed"
    /\ Phase("error") = "failed"
  BY DEF Phase

\* A call that goes from running to running, or fails, with its row untouched.
LEMMA RetryRefines ==
    ASSUME TypeOK, NEW c \in Requests, NEW k \in Call, call' = [call EXCEPT ![c] = k],
           k.user = call[c].user, k.need = call[c].need, UNCHANGED <<quota, expired>>,
           call[c].pc \in {"read", "have", "draw"},
           k.pc \in {"read", "have", "draw", "insufficient", "exhausted", "error"}
    PROVE  [Account!Next]_(Account!vars)
  <1>0. /\ DebitView' = [DebitView EXCEPT ![c].phase = Phase(k.pc)]
        /\ DebitView[c].phase = Phase(call[c].pc)
        /\ Phase(k.pc) = Phase(call[c].pc) => UNCHANGED DebitView
        /\ Phase(call[c].pc) = "running"
    BY ViewUpdate, Phases
  <1>1. CASE k.pc \in {"read", "have", "draw"}
    <2>1. Phase(k.pc) = "running"
      BY <1>1, Phases
    <2>2. UNCHANGED DebitView
      BY <1>0, <2>1
    <2>. QED BY <2>2 DEF Account!vars
  <1>2. CASE k.pc \in {"insufficient", "exhausted", "error"}
    <2>0. Phase(k.pc) = "failed"
      BY <1>2, Phases
    <2>1. Account!Fail(c)
      BY <1>0, <2>0 DEF Account!Fail
    <2>. QED BY <2>1 DEF Account!Next
  <1>. QED BY <1>1, <1>2

LEMMA InitRefines == Init => Account!Init
  <1>. SUFFICES ASSUME Init PROVE Account!Init
    OBVIOUS
  <1>1. NoCall \in Call /\ NoCall.pc = "idle"
    BY InitialValues DEF NoCall
  <1>2. DebitView = [c \in Requests |->
                        [phase |-> "idle", user |-> NoCall.user, need |-> NoCall.need]]
    BY <1>1, Phases DEF Init, DebitView
  <1>3. NoCall.user \in Users /\ NoCall.need \in Sizes
    BY <1>1 DEF Call
  <1>. QED BY <1>2, <1>3 DEF Init, Account!Init, Account!Debit

LEMMA CallRefines ==
    ASSUME IInv, NEW c \in Requests, Begin(c) \/ CallStep(c) \/ DbError(c)
    PROVE  [Account!Next]_(Account!vars)
  <1>. DEFINE k == call[c]
  <1>0. TypeOK /\ k \in Call
    BY DEF IInv, TypeOK
  <1>1. CASE Begin(c)
    <2>1. PICK u \in Users, q \in Sizes :
              call' = [call EXCEPT ![c] = [k EXCEPT !.pc = "read", !.user = u, !.need = q]]
      BY <1>1 DEF Begin
    <2>2. DebitView' = [DebitView EXCEPT ![c] = [phase |-> "running", user |-> u, need |-> q]]
      <3>1. /\ call'[c].pc = "read" /\ call'[c].user = u /\ call'[c].need = q
            /\ \A d \in Requests : d # c => call'[d] = call[d]
        BY <1>0, <2>1 DEF TypeOK, Call
      <3>. QED BY <3>1, Phases DEF DebitView
    <2>3. DebitView[c].phase = "idle" /\ UNCHANGED <<quota, expired>>
      BY <1>1, Phases DEF Begin, DebitView, rows
    <2>4. Account!Call(c)
      BY <2>2, <2>3 DEF Account!Call
    <2>. QED BY <2>4 DEF Account!Next
  <1>2. CASE Read(c)
    <2>1. CASE ~Sufficient(k)
      BY <1>0, <1>2, <2>1, LeftType, RetryRefines DEF Read, rows
    <2>2. CASE Sufficient(k)
      <3>. DEFINE n == [k EXCEPT
                    !.pc = "have", !.quota = quota[k.user], !.version = version[k.user],
                    !.seen = IF SnapshotReads THEN record ELSE @]
      <3>1. n \in Call /\ n.pc = "have" /\ n.user = k.user /\ n.need = k.need
        BY <1>0 DEF Call, TypeOK
      <3>2. call' = [call EXCEPT ![c] = n] /\ UNCHANGED <<quota, expired>> /\ k.pc = "read"
        BY <1>2, <2>2 DEF Read, rows
      <3>. HIDE DEF n, k
      <3>. QED BY <1>0, <3>1, <3>2, RetryRefines DEF k
    <2>. QED BY <2>1, <2>2
  <1>3. CASE LockRow(c)
    <2>1. CASE ~SameVersion(k)
      BY <1>0, <1>3, <2>1, RetriedType, RetryRefines DEF LockRow
    <2>2. CASE SameVersion(k)
      <3>. DEFINE seen == IF SnapshotReads THEN k.seen ELSE record
                  n == [k EXCEPT
                    !.pc = "draw", !.seen = seen, !.drawn = {},
                    !.todo = Spendable(seen, k.user), !.due = k.need]
      <3>1. call' = [call EXCEPT ![c] = n] /\ UNCHANGED <<quota, expired>> /\ k.pc = "have"
        BY <1>3, <2>2 DEF LockRow
      <3>2. n.pc = "draw" /\ n.user = k.user /\ n.need = k.need
        BY <1>0 DEF Call
      <3>3. UNCHANGED DebitView
        <4>1. call'[c] = n /\ \A d \in Requests : d # c => call'[d] = call[d]
          BY <1>0, <3>1 DEF TypeOK
        <4>. QED BY <3>1, <3>2, <4>1, Phases DEF DebitView
      <3>. QED BY <3>1, <3>3 DEF Account!vars
    <2>. QED BY <2>1, <2>2
  <1>4. CASE Draw(c)
    <2>. DEFINE drew(t) == [k EXCEPT
                    !.due = Remaining(k.seen[t].amount, k.due),
                    !.seen = [@ EXCEPT ![t].amount = NewAmount(k.seen[t].amount, k.due)],
                    !.drawn = @ \cup {t},
                    !.todo = IF Remaining(k.seen[t].amount, k.due) = 0 THEN {} ELSE @ \ {t}]
    <2>1. PICK t \in k.todo : \/ call' = [call EXCEPT ![c] = drew(t)]
                              \/ call' = [call EXCEPT ![c] = Retried(k)]
      BY <1>4 DEF Draw
    <2>2. k.pc = "draw" /\ UNCHANGED <<quota, expired>>
      BY <1>4 DEF Draw
    <2>3. CASE call' = [call EXCEPT ![c] = drew(t)]
      <3>1. drew(t).pc = k.pc /\ drew(t).user = k.user /\ drew(t).need = k.need
        BY <1>0 DEF Call
      <3>2. UNCHANGED DebitView
        <4>1. call'[c] = drew(t) /\ \A d \in Requests : d # c => call'[d] = call[d]
          BY <1>0, <2>3 DEF TypeOK
        <4>. QED BY <3>1, <4>1 DEF DebitView
      <3>. QED BY <2>2, <3>2 DEF Account!vars
    <2>4. CASE call' = [call EXCEPT ![c] = Retried(k)]
      BY <1>0, <2>2, <2>4, RetriedType, RetryRefines
    <2>. QED BY <2>1, <2>3, <2>4
  <1>5. CASE Commit(c)
    <2>1. /\ k.pc = "draw" /\ UNCHANGED expired
          /\ quota' = [quota EXCEPT ![k.user] = quota[k.user] - k.need]
          /\ call' = [call EXCEPT ![c] = Left(k, "ok")]
      BY <1>5 DEF Commit, Debited
    <2>2. /\ Left(k, "ok") \in Call /\ Left(k, "ok").pc = "ok"
          /\ Left(k, "ok").user = k.user /\ Left(k, "ok").need = k.need
      BY <1>0, LeftType
    <2>3. /\ DebitView' = [DebitView EXCEPT ![c].phase = "ok"]
          /\ DebitView[c].phase = "running"
          /\ DebitView[c].user = k.user /\ DebitView[c].need = k.need
      <3>1. /\ DebitView' = [DebitView EXCEPT ![c].phase = Phase(Left(k, "ok").pc)]
            /\ DebitView[c].phase = Phase(k.pc)
            /\ DebitView[c].user = k.user /\ DebitView[c].need = k.need
        BY <1>0, <2>1, <2>2, ViewUpdate
      <3>2. Phase(Left(k, "ok").pc) = "ok" /\ Phase(k.pc) = "running"
        BY <2>1, <2>2, Phases
      <3>. QED BY <3>1, <3>2
    <2>4. quota[k.user] + expired[k.user] >= k.need
      <3>1. CallInv(c)
        BY IInvPointwise
      <3>2. k.user \in Users /\ k.need \in Sizes /\ k.quota \in Int
        BY <1>0 DEF Call
      <3>3. quota[k.user] \in Int /\ expired[k.user] \in Nat /\ k.need \in Nat
        BY <1>0, <3>2, SizesAssumption DEF TypeOK
      <3>4. k.need <= k.quota /\ k.quota <= quota[k.user] + expired[k.user]
        BY <2>1, <3>1 DEF CallInv
      <3>. QED BY <3>2, <3>3, <3>4
    <2>5. Account!Take(c)
      BY <2>1, <2>3, <2>4 DEF Account!Take
    <2>. QED BY <2>5 DEF Account!Next
  <1>6. CASE DbError(c)
    BY <1>0, <1>6, LeftType, RetryRefines DEF DbError
  <1>. QED BY <1>1, <1>2, <1>3, <1>4, <1>5, <1>6 DEF CallStep

LEMMA OthersRefine ==
    ASSUME IInv, TypeOK',
           \/ \E t \in Topups : Credit(t) \/ InsertRecord(t) \/ RedeemCredit(t)
           \/ SweepRead \/ SweepDeduct \/ SweepCommit \/ SweepError \/ Tick
    PROVE  [Account!Next]_(Account!vars)
  <1>1. UNCHANGED DebitView
    BY DEF DebitView, Credit, InsertRecord, RedeemCredit, SweepRead, SweepDeduct,
           SweepCommit, SweepError, Tick, rows
  <1>2. ASSUME NEW t \in Topups, Credit(t) \/ RedeemCredit(t) PROVE Account!Credit
    BY <1>1, <1>2 DEF Credit, RedeemCredit, Account!Credit
  <1>3. ASSUME SweepCommit PROVE Account!Forfeit
    <2>1. expired' \in [Users -> Nat]
      BY DEF TypeOK
    <2>2. ASSUME NEW u \in Users
          PROVE  /\ expired'[u] >= expired[u]
                 /\ quota'[u] = quota[u] - (expired'[u] - expired[u])
      <3>1. quota[u] \in Int /\ expired[u] \in Nat /\ sweep.taken[u] \in Nat
        BY DEF IInv, TypeOK, Sweep
      <3>2. quota'[u] = quota[u] - sweep.taken[u] /\ expired'[u] = expired[u] + sweep.taken[u]
        BY <1>3 DEF SweepCommit
      <3>. QED BY <3>1, <3>2
    <2>3. quota' = [u \in Users |-> quota[u] - (expired'[u] - expired[u])]
      BY <2>2 DEF TypeOK
    <2>. QED BY <1>1, <2>1, <2>2, <2>3 DEF Account!Forfeit
  <1>4. CASE (\E t \in Topups : InsertRecord(t)) \/ SweepRead \/ SweepDeduct \/ SweepError \/ Tick
    BY <1>1, <1>4 DEF Account!vars, InsertRecord, SweepRead, SweepDeduct, SweepError, Tick, rows
  <1>. QED BY <1>2, <1>3, <1>4 DEF Account!Next

\* decreaseUserQuota, with its optimistic lock, its retries and its rollbacks,
\* the credits and the expiry sweep implement the abstract account.
THEOREM Refinement == Spec => ImplementsAccount
  <1>1. IInv /\ IInv' /\ [Next]_vars => [Account!Next]_(Account!vars)
    <2>. SUFFICES ASSUME IInv, IInv', [Next]_vars PROVE [Account!Next]_(Account!vars)
      OBVIOUS
    <2>1. CASE UNCHANGED vars
      BY <2>1 DEF vars, Account!vars, DebitView
    <2>. QED BY <2>1, CallRefines, OthersRefine DEF Next, IInv
  <1>. QED BY <1>1, InitIInv, NextIInv, InitRefines, PTL DEF Spec, ImplementsAccount, Account!Spec
-----------------------------------------------------------------------------
(* The ledger.  LedgerInv is inductive: the size of a credit is set by the *)
(* one step that also adds it to the quota, and a call that is "ok" has    *)
(* ended.                                                                  *)

NothingYet == \A t \in Topups : record[t].state = "none" => record[t].size = 0

LedgerInv == TypeOK /\ NothingYet /\ LedgerExact

CreditOf(u) == [t \in Topups |-> IF record[t].user = u THEN record[t].size ELSE 0]
DebitOf(u) == [c \in Requests |->
                  IF call[c].pc = "ok" /\ call[c].user = u THEN call[c].need ELSE 0]

LEMMA NeedType == ASSUME NEW k \in Call PROVE k.need \in Int /\ k.user \in Users
  <1>1. k.need \in Sizes /\ k.user \in Users
    BY DEF Call
  <1>2. k.need \in Nat
    BY <1>1, SizesAssumption
  <1>. QED BY <1>1, <1>2

LEMMA LedgerTypes ==
    ASSUME TypeOK, NEW u \in Users
    PROVE  /\ CreditOf(u) \in [Topups -> Int] /\ Credits(u) \in Int
           /\ DebitOf(u) \in [Requests -> Int] /\ Debits(u) \in Int
  <1>1. \A t \in Topups : record[t].size \in Int
    BY DEF TypeOK, Record
  <1>2. \A c \in Requests : call[c].need \in Int
    BY NeedType DEF TypeOK
  <1>3. CreditOf(u) \in [Topups -> Int] /\ DebitOf(u) \in [Requests -> Int]
    BY <1>1, <1>2 DEF CreditOf, DebitOf
  <1>4. Credits(u) = SumFunction(CreditOf(u)) /\ Debits(u) = SumFunction(DebitOf(u))
    BY Zenon DEF Credits, Debits, CreditOf, DebitOf
  <1>. QED BY <1>3, <1>4, SumType, FiniteAssumption

\* Steps that neither credit nor end a call with "ok" leave both sums alone.
LEMMA CreditsKept ==
    ASSUME NEW u \in Users,
           \A t \in Topups : record'[t].user = record[t].user /\ record'[t].size = record[t].size
    PROVE  Credits(u)' = Credits(u)
  <1>1. [t \in Topups |-> IF record'[t].user = u THEN record'[t].size ELSE 0]
        = [t \in Topups |-> IF record[t].user = u THEN record[t].size ELSE 0]
    OBVIOUS
  <1>. QED BY <1>1, Zenon DEF Credits

LEMMA DebitsKept ==
    ASSUME NEW u \in Users,
           \A c \in Requests : call[c].pc = "ok" \/ call'[c].pc = "ok" => call'[c] = call[c]
    PROVE  Debits(u)' = Debits(u)
  <1>. DEFINE paid(k) == IF k.pc = "ok" /\ k.user = u THEN k.need ELSE 0
  <1>1. \A c \in Requests : paid(call'[c]) = paid(call[c])
    OBVIOUS
  <1>2. [c \in Requests |-> paid(call'[c])] = [c \in Requests |-> paid(call[c])]
    BY <1>1
  <1>. QED BY <1>2, Zenon DEF Debits

\* A credit adds its size to the credits of its user.
LEMMA CreditsAdd ==
    ASSUME TypeOK, TypeOK', NEW t \in Topups, NEW u \in Users, record[t].size = 0,
           record'[t].user = u, \A s \in Topups : s # t => record'[s] = record[s],
           NEW v \in Users
    PROVE  Credits(v)' = Credits(v) + IF v = u THEN record'[t].size ELSE 0
  <1>1. CreditOf(v) \in [Topups -> Int] /\ CreditOf(v)' \in [Topups -> Int]
    <2>1. CreditOf(v) \in [Topups -> Int]
      BY LedgerTypes
    <2>2. \A s \in Topups : record'[s].size \in Int
      BY DEF TypeOK, Record
    <2>. QED BY <2>1, <2>2 DEF CreditOf
  <1>2. \A s \in Topups : s # t => CreditOf(v)'[s] = CreditOf(v)[s]
    BY DEF CreditOf
  <1>3. CreditOf(v)[t] = 0 /\ CreditOf(v)'[t] = IF v = u THEN record'[t].size ELSE 0
    BY DEF CreditOf
  <1>4. Credits(v) = SumFunction(CreditOf(v)) /\ Credits(v)' = SumFunction(CreditOf(v)')
    BY Zenon DEF Credits, CreditOf
  <1>5. SumFunction(CreditOf(v)') = SumFunction(CreditOf(v)) + CreditOf(v)'[t] - CreditOf(v)[t]
    BY <1>1, <1>2, FiniteAssumption, SumChange
  <1>6. SumFunction(CreditOf(v)) \in Int /\ CreditOf(v)'[t] \in Int
    BY <1>1, FiniteAssumption, SumType
  <1>. QED BY <1>3, <1>4, <1>5, <1>6

\* A call that ends with "ok" adds its need to the debits of its user.
LEMMA DebitsAdd ==
    ASSUME TypeOK, TypeOK', NEW c \in Requests, call[c].pc # "ok", call'[c].pc = "ok",
           \A d \in Requests : d # c => call'[d] = call[d], NEW v \in Users
    PROVE  Debits(v)' = Debits(v) + IF v = call'[c].user THEN call'[c].need ELSE 0
  <1>1. DebitOf(v) \in [Requests -> Int] /\ DebitOf(v)' \in [Requests -> Int]
    <2>1. DebitOf(v) \in [Requests -> Int]
      BY LedgerTypes
    <2>2. \A d \in Requests : call'[d].need \in Int
      BY NeedType DEF TypeOK
    <2>. QED BY <2>1, <2>2 DEF DebitOf
  <1>2. \A d \in Requests : d # c => DebitOf(v)'[d] = DebitOf(v)[d]
    BY DEF DebitOf
  <1>3. /\ DebitOf(v)[c] = 0
        /\ DebitOf(v)'[c] = IF v = call'[c].user THEN call'[c].need ELSE 0
    BY DEF DebitOf
  <1>4. Debits(v) = SumFunction(DebitOf(v)) /\ Debits(v)' = SumFunction(DebitOf(v)')
    BY Zenon DEF Debits, DebitOf
  <1>5. SumFunction(DebitOf(v)') = SumFunction(DebitOf(v)) + DebitOf(v)'[c] - DebitOf(v)[c]
    BY <1>1, <1>2, FiniteAssumption, SumChange
  <1>6. SumFunction(DebitOf(v)) \in Int /\ DebitOf(v)'[c] \in Int
    BY <1>1, FiniteAssumption, SumType
  <1>. QED BY <1>3, <1>4, <1>5, <1>6

LEMMA InitLedger == Init => LedgerInv
  <1>. SUFFICES ASSUME Init PROVE LedgerInv
    OBVIOUS
  <1>1. TypeOK
    BY InitType
  <1>2. \A t \in Topups : record[t].size = 0
    BY DEF Init, NoRecord
  <1>3. \A c \in Requests : call[c].pc = "idle"
    BY DEF Init, NoCall
  <1>4. ASSUME NEW u \in Users PROVE Credits(u) = 0 /\ Debits(u) = 0
    <2>1. DOMAIN CreditOf(u) = Topups /\ \A t \in Topups : CreditOf(u)[t] = 0
      BY <1>2 DEF CreditOf
    <2>2. DOMAIN DebitOf(u) = Requests /\ \A c \in Requests : DebitOf(u)[c] = 0
      BY <1>3 DEF DebitOf
    <2>3. SumFunction(CreditOf(u)) = 0 /\ SumFunction(DebitOf(u)) = 0
      BY <2>1, <2>2, SumZero, FiniteAssumption
    <2>. QED BY <2>3, Zenon DEF Credits, Debits, CreditOf, DebitOf
  <1>5. LedgerExact
    BY <1>4, InitialQuotaAssumption DEF Init, LedgerExact
  <1>. QED BY <1>1, <1>2, <1>5 DEF LedgerInv, NothingYet

\* What the step of a call other than its commit leaves alone.
LEMMA CallLedger ==
    ASSUME LedgerInv, TypeOK', NEW c \in Requests, Begin(c) \/ CallStep(c) \/ DbError(c)
    PROVE  LedgerInv'
  <1>. TypeOK /\ call[c] \in Call
    BY DEF LedgerInv, TypeOK
  <1>1. CASE Commit(c)
    <2>. DEFINE k == call[c]
    <2>1. /\ k.pc = "draw" /\ UNCHANGED expired
          /\ quota' = [quota EXCEPT ![k.user] = quota[k.user] - k.need]
          /\ call' = [call EXCEPT ![c] = Left(k, "ok")]
      BY <1>1 DEF Commit, Debited
    <2>2. ASSUME NEW t \in Topups
          PROVE  /\ record'[t].user = record[t].user
                 /\ record'[t].size = record[t].size
                 /\ record'[t].state = record[t].state
      <3>1. record[t] \in Record
        BY DEF TypeOK
      <3>2. record'[t] = IF t \in k.drawn
                         THEN [record[t] EXCEPT !.amount = k.seen[t].amount, !.version = clock + 1]
                         ELSE record[t]
        BY <1>1 DEF Commit
      <3>. QED BY <3>1, <3>2 DEF Record
    <2>3. /\ call'[c].pc = "ok" /\ call'[c].user = k.user /\ call'[c].need = k.need
          /\ \A d \in Requests : d # c => call'[d] = call[d]
      BY <2>1, LeftType DEF TypeOK
    <2>4. ASSUME NEW u \in Users
          PROVE  quota'[u] = InitialQuota - expired'[u] + Credits(u)' - Debits(u)'
      <3>1. Credits(u)' = Credits(u)
        BY <2>2, CreditsKept
      <3>2. Debits(u)' = Debits(u) + IF u = k.user THEN k.need ELSE 0
        BY <2>1, <2>3, DebitsAdd
      <3>3. quota[u] = InitialQuota - expired[u] + Credits(u) - Debits(u)
        BY DEF LedgerInv, LedgerExact
      <3>4. quota'[u] = quota[u] - IF u = k.user THEN k.need ELSE 0
        BY <2>1 DEF TypeOK
      <3>5. /\ quota[u] \in Int /\ expired[u] \in Int /\ k.need \in Int
            /\ Credits(u) \in Int /\ Debits(u) \in Int /\ InitialQuota \in Int
        BY LedgerTypes, NeedType, InitialQuotaAssumption DEF TypeOK
      <3>. QED BY <2>1, <3>1, <3>2, <3>3, <3>4, <3>5
    <2>5. LedgerExact'
      BY <2>4 DEF LedgerExact
    <2>. QED BY <2>2, <2>5 DEF LedgerInv, NothingYet
  <1>2. CASE Begin(c) \/ Read(c) \/ LockRow(c) \/ Draw(c) \/ DbError(c)
    <2>1. UNCHANGED <<quota, record, expired>>
      BY <1>2 DEF Begin, Read, LockRow, Draw, DbError, rows
    <2>2. \A d \in Requests : d # c => call'[d] = call[d]
      BY <1>2 DEF Begin, Read, LockRow, Draw, DbError, TypeOK
    <2>3. call[c].pc # "ok" /\ call'[c].pc # "ok"
      <3>1. CASE Begin(c)
        <4>1. call \in [Requests -> Call] /\ call[c].pc = "idle"
          BY <3>1 DEF Begin, TypeOK
        <4>2. PICK u \in Users, q \in Sizes :
                  call' = [call EXCEPT ![c] = [call[c] EXCEPT !.pc = "read", !.user = u, !.need = q]]
          BY <3>1 DEF Begin
        <4>. DEFINE n == [call[c] EXCEPT !.pc = "read", !.user = u, !.need = q]
        <4>3. n.pc = "read"
          BY <4>1 DEF Call
        <4>4. call'[c] = n
          BY <4>1, <4>2
        <4>. HIDE DEF n
        <4>. QED BY <4>1, <4>3, <4>4
      <3>2. CASE Read(c)
        <4>1. Left(call[c], "insufficient").pc = "insufficient"
          BY LeftType
        <4>. DEFINE n == [call[c] EXCEPT
                       !.pc = "have", !.quota = quota[call[c].user],
                       !.version = version[call[c].user],
                       !.seen = IF SnapshotReads THEN record ELSE @]
        <4>2. /\ call[c].pc = "read"
              /\ \/ call' = [call EXCEPT ![c] = Left(call[c], "insufficient")]
                 \/ call' = [call EXCEPT ![c] = n]
          BY <3>2 DEF Read
        <4>3. n.pc = "have"
          BY DEF Call
        <4>. HIDE DEF n
        <4>. QED BY <4>1, <4>2, <4>3 DEF TypeOK
      <3>3. CASE LockRow(c)
        <4>1. Retried(call[c]).pc # "ok"
          BY RetriedType
        <4>. DEFINE seen == IF SnapshotReads THEN call[c].seen ELSE record
                    n == [call[c] EXCEPT
                       !.pc = "draw", !.seen = seen, !.drawn = {},
                       !.todo = Spendable(seen, call[c].user), !.due = call[c].need]
        <4>2. /\ call[c].pc = "have"
              /\ \/ call' = [call EXCEPT ![c] = Retried(call[c])]
                 \/ call' = [call EXCEPT ![c] = n]
          BY <3>3 DEF LockRow
        <4>3. n.pc = "draw"
          BY DEF Call
        <4>. HIDE DEF n
        <4>. QED BY <4>1, <4>2, <4>3 DEF TypeOK
      <3>4. CASE Draw(c)
        <4>1. Retried(call[c]).pc # "ok"
          BY RetriedType
        <4>. DEFINE k == call[c]
                    drew(t) == [k EXCEPT
                    !.due = Remaining(k.seen[t].amount, k.due),
                    !.seen = [@ EXCEPT ![t].amount = NewAmount(k.seen[t].amount, k.due)],
                    !.drawn = @ \cup {t},
                    !.todo = IF Remaining(k.seen[t].amount, k.due) = 0 THEN {} ELSE @ \ {t}]
        <4>2. PICK t \in k.todo : \/ call' = [call EXCEPT ![c] = drew(t)]
                                  \/ call' = [call EXCEPT ![c] = Retried(k)]
          BY <3>4 DEF Draw
        <4>3. k.pc = "draw" /\ drew(t).pc = k.pc
          BY <3>4 DEF Draw, Call
        <4>. HIDE DEF drew
        <4>. QED BY <4>1, <4>2, <4>3 DEF TypeOK
      <3>5. CASE DbError(c)
        <4>1. Left(call[c], "error").pc = "error"
          BY LeftType
        <4>. QED BY <3>5, <4>1 DEF DbError, TypeOK, Call
      <3>. QED BY <1>2, <3>1, <3>2, <3>3, <3>4, <3>5
    <2>4. ASSUME NEW u \in Users PROVE Credits(u)' = Credits(u) /\ Debits(u)' = Debits(u)
      BY <2>1, <2>2, <2>3, CreditsKept, DebitsKept
    <2>. QED BY <2>1, <2>4 DEF LedgerInv, LedgerExact, NothingYet
  <1>. QED BY <1>1, <1>2 DEF CallStep

LEMMA CreditLedger ==
    ASSUME LedgerInv, TypeOK', NEW t \in Topups, Credit(t) \/ InsertRecord(t) \/ RedeemCredit(t)
    PROVE  LedgerInv'
  <1>. TypeOK /\ record[t] \in Record
    BY DEF LedgerInv, TypeOK
  <1>0. UNCHANGED <<expired, call>>
    BY DEF Credit, InsertRecord, RedeemCredit
  <1>1. CASE InsertRecord(t)
    <2>0. PICK e \in EndDates :
              record' = [record EXCEPT ![t] =
                  [record[t] EXCEPT !.state = "live", !.amount = record[t].size, !.end = e]]
      BY <1>1 DEF InsertRecord
    <2>1. /\ UNCHANGED quota
          /\ \A s \in Topups : /\ record'[s].user = record[s].user
                               /\ record'[s].size = record[s].size
                               /\ record'[s].state = "none" => record[s].state = "none"
      BY <1>1, <2>0 DEF InsertRecord, TypeOK, Record
    <2>2. ASSUME NEW u \in Users PROVE Credits(u)' = Credits(u) /\ Debits(u)' = Debits(u)
      BY <1>0, <2>1, CreditsKept, DebitsKept
    <2>. QED BY <1>0, <2>1, <2>2 DEF LedgerInv, LedgerExact, NothingYet
  <1>2. CASE Credit(t) \/ RedeemCredit(t)
    <2>1. PICK u \in Users, n \in Sizes :
              /\ quota' = [quota EXCEPT ![u] = @ + n]
              /\ record'[t].user = u /\ record'[t].size = n /\ record'[t].state # "none"
              /\ \A s \in Topups : s # t => record'[s] = record[s]
      <3>1. CASE Credit(t)
        <4>1. PICK u \in Users, n \in Sizes :
                  /\ quota' = [quota EXCEPT ![u] = @ + n]
                  /\ record' = [record EXCEPT
                        ![t] = [record[t] EXCEPT !.state = "credited", !.user = u, !.size = n]]
          BY <3>1 DEF Credit, TypeOK
        <4>2. /\ record'[t].user = u /\ record'[t].size = n /\ record'[t].state # "none"
              /\ \A s \in Topups : s # t => record'[s] = record[s]
          BY <4>1 DEF TypeOK, Record
        <4>. QED BY <4>1, <4>2
      <3>2. CASE RedeemCredit(t)
        <4>1. PICK u \in Users, n \in Sizes, e \in EndDates :
                  /\ quota' = [quota EXCEPT ![u] = @ + n]
                  /\ record' = [record EXCEPT ![t] = [state |-> "live", user |-> u, size |-> n,
                                                      amount |-> n, end |-> e, version |-> 0]]
          BY <3>2 DEF RedeemCredit
        <4>2. /\ record'[t].user = u /\ record'[t].size = n /\ record'[t].state # "none"
              /\ \A s \in Topups : s # t => record'[s] = record[s]
          BY <4>1 DEF TypeOK
        <4>. QED BY <4>1, <4>2
      <3>. QED BY <1>2, <3>1, <3>2
    <2>2. record[t].size = 0
      BY <1>2 DEF Credit, RedeemCredit, LedgerInv, NothingYet
    <2>3. ASSUME NEW v \in Users
          PROVE  quota'[v] = InitialQuota - expired'[v] + Credits(v)' - Debits(v)'
      <3>1. Credits(v)' = Credits(v) + IF v = u THEN n ELSE 0
        BY <2>1, <2>2, CreditsAdd
      <3>2. Debits(v)' = Debits(v)
        BY <1>0, DebitsKept
      <3>3. quota[v] = InitialQuota - expired[v] + Credits(v) - Debits(v)
        BY DEF LedgerInv, LedgerExact
      <3>4. quota'[v] = quota[v] + IF v = u THEN n ELSE 0
        BY <2>1, SizesAssumption DEF TypeOK
      <3>5. /\ quota[v] \in Int /\ expired[v] \in Int /\ n \in Int
            /\ Credits(v) \in Int /\ Debits(v) \in Int /\ InitialQuota \in Int
        BY LedgerTypes, SizesAssumption, InitialQuotaAssumption DEF TypeOK
      <3>. QED BY <1>0, <3>1, <3>2, <3>3, <3>4, <3>5
    <2>4. LedgerExact'
      BY <2>3 DEF LedgerExact
    <2>5. NothingYet'
      BY <2>1 DEF LedgerInv, NothingYet
    <2>. QED BY <2>4, <2>5 DEF LedgerInv
  <1>. QED BY <1>1, <1>2

LEMMA SweepLedger ==
    ASSUME LedgerInv, TypeOK', SweepRead \/ SweepDeduct \/ SweepCommit \/ SweepError \/ Tick
    PROVE  LedgerInv'
  <1>. TypeOK
    BY DEF LedgerInv
  <1>1. UNCHANGED call
    BY DEF SweepRead, SweepDeduct, SweepCommit, SweepError, Tick, rows
  <1>2. ASSUME NEW t \in Topups
        PROVE  /\ record'[t].user = record[t].user
               /\ record'[t].size = record[t].size
               /\ record'[t].state = "none" => record[t].state = "none"
    <2>1. record[t] \in Record
      BY DEF TypeOK
    <2>2. record'[t] \in {record[t], [record[t] EXCEPT !.state = "gone", !.amount = 0]}
      BY DEF SweepRead, SweepDeduct, SweepCommit, SweepError, Tick, rows
    <2>. QED BY <2>1, <2>2 DEF Record
  <1>3. ASSUME NEW u \in Users PROVE Credits(u)' = Credits(u) /\ Debits(u)' = Debits(u)
    BY <1>1, <1>2, CreditsKept, DebitsKept
  <1>4. ASSUME NEW u \in Users PROVE quota'[u] + expired'[u] = quota[u] + expired[u]
    <2>1. CASE SweepCommit
      <3>1. /\ quota'[u] = quota[u] - sweep.taken[u]
            /\ expired'[u] = expired[u] + sweep.taken[u]
        BY <2>1 DEF SweepCommit
      <3>2. quota[u] \in Int /\ expired[u] \in Int /\ sweep.taken[u] \in Int
        BY DEF TypeOK, Sweep
      <3>. QED BY <3>1, <3>2
    <2>2. CASE SweepRead \/ SweepDeduct \/ SweepError \/ Tick
      BY <2>2 DEF SweepRead, SweepDeduct, SweepError, Tick, rows
    <2>. QED BY <2>1, <2>2
  <1>5. LedgerExact'
    <2>1. ASSUME NEW u \in Users
          PROVE  quota'[u] = InitialQuota - expired'[u] + Credits(u)' - Debits(u)'
      <3>1. quota[u] = InitialQuota - expired[u] + Credits(u) - Debits(u)
        BY DEF LedgerInv, LedgerExact
      <3>2. /\ quota[u] \in Int /\ expired[u] \in Int /\ quota'[u] \in Int /\ expired'[u] \in Int
            /\ Credits(u) \in Int /\ Debits(u) \in Int /\ InitialQuota \in Int
        BY LedgerTypes, InitialQuotaAssumption DEF TypeOK
      <3>3. quota'[u] = (quota[u] + expired[u]) - expired'[u]
        BY <1>4, <3>2
      <3>4. (quota[u] + expired[u]) = InitialQuota + Credits(u) - Debits(u)
        BY <3>1, <3>2
      <3>. QED BY <1>3, <3>2, <3>3, <3>4
    <2>. QED BY <2>1 DEF LedgerExact
  <1>. QED BY <1>2, <1>5 DEF LedgerInv, NothingYet

\* No credit and no debit is lost, doubled or half done, whatever is retried,
\* rolled back or fails: the quota is exactly what the ledger adds up to.
THEOREM Ledger == Spec => []LedgerExact
  <1>1. LedgerInv /\ [Next]_vars => LedgerInv'
    <2>. SUFFICES ASSUME LedgerInv, [Next]_vars PROVE LedgerInv'
      OBVIOUS
    <2>1. TypeOK'
      BY NextType DEF LedgerInv
    <2>2. CASE UNCHANGED vars
      <3>1. ASSUME NEW u \in Users PROVE Credits(u)' = Credits(u) /\ Debits(u)' = Debits(u)
        BY <2>2, CreditsKept, DebitsKept DEF vars
      <3>. QED BY <2>1, <2>2, <3>1 DEF vars, LedgerInv, NothingYet, LedgerExact
    <2>. QED BY <2>1, <2>2, CallLedger, CreditLedger, SweepLedger DEF Next
  <1>2. LedgerInv => LedgerExact
    BY DEF LedgerInv
  <1>. QED BY <1>1, <1>2, InitLedger, PTL DEF Spec
-----------------------------------------------------------------------------
(* What the recharge records promise.  While expiry has taken nothing from *)
(* a user and no credit waits for its record, a debit that goes on with    *)
(* the version it read knows the records of its user: they are as it saw   *)
(* them, but for new ones, and those came with quota of their own.  The    *)
(* parts are stated of a table rs, and of columns q, e, v, so that they    *)
(* speak of the table after a step as well.                                *)

Known(k, t) == k.seen[t].state = "live" /\ k.seen[t].user = k.user
Reading(k) == k.pc = "draw" \/ (k.pc = "have" /\ SnapshotReads)
Drew(k, t) == k.pc = "draw" /\ t \in k.drawn

\* What the records hold that the call has not read.
Fresh(k, rs) == [t \in Topups |-> IF Known(k, t) THEN 0 ELSE Held(k.user, rs)[t]]

\* What the records will hold once the call has committed.
Plan(k, rs) == [t \in Topups |-> IF t \in k.drawn THEN k.seen[t].amount
                                 ELSE Held(k.user, rs)[t]]

\* A record that was read is still there, unless it held nothing.
AsSeen(k, t, rs) ==
    \/ rs[t].state = "live" /\ Drew(k, t) /\ rs[t].amount > 0
    \/ rs[t].state = "live" /\ ~Drew(k, t) /\ rs[t].amount = k.seen[t].amount
    \/ rs[t].state = "gone" /\ ~Drew(k, t) /\ k.seen[t].amount = 0

\* True of every call, whatever was credited or expired meanwhile.
CallShape(k, rs) ==
    /\ Reading(k) => \A t \in Topups : Known(k, t) =>
                         rs[t].state \in {"live", "gone"} /\ rs[t].user = k.user
    /\ k.pc = "draw" => /\ \A t \in k.drawn \cup k.todo : Known(k, t)
                        /\ k.todo \cap k.drawn = {}
                        /\ \A t \in k.todo : k.seen[t].amount > 0

\* A debit that is not yet covered has emptied what it drew from, and has every
\* other record that holds something before it.
Planned(k, rs) ==
    /\ SumFunction(Plan(k, rs)) + k.need = SumFunction(Held(k.user, rs)) + k.due
    /\ k.due > 0 => \A t \in Topups :
                        Known(k, t) /\ k.seen[t].amount > 0 => t \in k.todo

CallBacked(k, rs, q, e, v) ==
    Reading(k) /\ e[k.user] = 0 /\ v[k.user] = k.version
    => /\ \A t \in Topups : Known(k, t) => AsSeen(k, t, rs)
       /\ k.need + SumFunction(Fresh(k, rs)) <= q[k.user]
       /\ k.pc = "draw" => Planned(k, rs)

UserBacked(u, rs, q, e) == e[u] = 0 => SumFunction(Held(u, rs)) <= q[u]

\* A sweep that has deducted a record of a user takes something from him.
SweepTakes ==
    /\ \A t \in sweep.todo \cup sweep.done : record[t].state # "none" /\ sweep.seen[t] > 0
    /\ \A t \in sweep.done : sweep.taken[record[t].user] > 0

BackedInv ==
    /\ IInv
    /\ SweepTakes
    /\ \A c \in Requests : /\ CallShape(call[c], record)
                           /\ CallBacked(call[c], record, quota, expired, version)
    /\ \A u \in Users : UserBacked(u, record, quota, expired)

Table == [Topups -> Record]

LEMMA CallFields ==
    ASSUME NEW k \in Call
    PROVE  /\ k.user \in Users /\ k.need \in Nat /\ k.due \in Nat /\ k.version \in Nat
           /\ k.seen \in Table /\ k.todo \in SUBSET Topups /\ k.drawn \in SUBSET Topups
  <1>1. k.need \in Sizes
    BY DEF Call
  <1>. QED BY <1>1, SizesAssumption DEF Call, Table

LEMMA HeldType ==
    ASSUME NEW rs \in Table, NEW u
    PROVE  /\ Held(u, rs) \in [Topups -> Nat] /\ SumFunction(Held(u, rs)) \in Nat
           /\ \A t \in Topups : Held(u, rs)[t] =
                  IF rs[t].state = "live" /\ rs[t].user = u THEN rs[t].amount ELSE 0
  <1>1. \A t \in Topups : rs[t].amount \in Nat
    BY DEF Table, Record
  <1>2. Held(u, rs) \in [Topups -> Nat]
    BY <1>1 DEF Held
  <1>3. SumFunction(Held(u, rs)) \in Nat
    BY <1>2, SumAmounts, FiniteAssumption
  <1>4. \A t \in Topups : Held(u, rs)[t] =
            IF rs[t].state = "live" /\ rs[t].user = u THEN rs[t].amount ELSE 0
    BY DEF Held
  <1>. QED BY <1>2, <1>3, <1>4

LEMMA FreshType ==
    ASSUME NEW rs \in Table, NEW k \in Call
    PROVE  /\ Fresh(k, rs) \in [Topups -> Nat] /\ SumFunction(Fresh(k, rs)) \in Nat
           /\ Plan(k, rs) \in [Topups -> Nat] /\ SumFunction(Plan(k, rs)) \in Nat
           /\ \A t \in Topups :
                 /\ Fresh(k, rs)[t] = IF Known(k, t) THEN 0 ELSE Held(k.user, rs)[t]
                 /\ Plan(k, rs)[t] = IF t \in k.drawn THEN k.seen[t].amount
                                     ELSE Held(k.user, rs)[t]
  <1>1. \A t \in Topups : k.seen[t].amount \in Nat
    BY CallFields DEF Table, Record
  <1>2. Held(k.user, rs) \in [Topups -> Nat]
    BY HeldType
  <1>3. Fresh(k, rs) \in [Topups -> Nat]
    BY <1>2 DEF Fresh
  <1>4. Plan(k, rs) \in [Topups -> Nat]
    BY <1>1, <1>2 DEF Plan
  <1>5. SumFunction(Fresh(k, rs)) \in Nat /\ SumFunction(Plan(k, rs)) \in Nat
    BY <1>3, <1>4, SumAmounts, FiniteAssumption
  <1>6. \A t \in Topups :
           /\ Fresh(k, rs)[t] = IF Known(k, t) THEN 0 ELSE Held(k.user, rs)[t]
           /\ Plan(k, rs)[t] = IF t \in k.drawn THEN k.seen[t].amount ELSE Held(k.user, rs)[t]
    BY DEF Fresh, Plan
  <1>. QED BY <1>3, <1>4, <1>5, <1>6

\* Where two tables of records hold the same for a user, so do the sums.
LEMMA SameHeld ==
    ASSUME NEW rs \in Table, NEW ns \in Table, NEW k \in Call, NEW u,
           \A t \in Topups : Held(u, ns)[t] = Held(u, rs)[t]
    PROVE  /\ Held(u, ns) = Held(u, rs)
           /\ k.user = u => Fresh(k, ns) = Fresh(k, rs) /\ Plan(k, ns) = Plan(k, rs)
  <1>1. Held(u, ns) \in [Topups -> Nat] /\ Held(u, rs) \in [Topups -> Nat]
    BY HeldType
  <1>2. Held(u, ns) = Held(u, rs)
    BY <1>1
  <1>3. k.user = u => Fresh(k, ns) = Fresh(k, rs) /\ Plan(k, ns) = Plan(k, rs)
    BY <1>2, Zenon DEF Fresh, Plan
  <1>. QED BY <1>2, <1>3

\* A step that takes nothing from the records of user u: those that disappear
\* held nothing.
Untouched(u, rs, ns) ==
    \A t \in Topups :
        /\ rs[t].state \in {"live", "gone"} /\ rs[t].user = u =>
               /\ ns[t].user = u /\ ns[t].amount = rs[t].amount
               /\ ns[t].state = rs[t].state \/ (ns[t].state = "gone" /\ rs[t].amount = 0)
        /\ Held(u, ns)[t] = Held(u, rs)[t]

LEMMA BackedKept ==
    ASSUME NEW k \in Call, NEW rs \in Table, NEW ns \in Table, NEW q, NEW e, NEW v,
           NEW q2, NEW e2, NEW v2,
           CallShape(k, rs), CallBacked(k, rs, q, e, v),
           v2[k.user] = v[k.user],
           e2[k.user] = 0 => /\ e[k.user] = 0 /\ q2[k.user] = q[k.user]
                             /\ Untouched(k.user, rs, ns)
    PROVE  CallBacked(k, ns, q2, e2, v2)
  <1>. SUFFICES ASSUME Reading(k), e2[k.user] = 0, v2[k.user] = k.version
                PROVE  /\ \A t \in Topups : Known(k, t) => AsSeen(k, t, ns)
                       /\ k.need + SumFunction(Fresh(k, ns)) <= q2[k.user]
                       /\ k.pc = "draw" => Planned(k, ns)
    BY DEF CallBacked
  <1>1. /\ \A t \in Topups : Known(k, t) => AsSeen(k, t, rs)
        /\ k.need + SumFunction(Fresh(k, rs)) <= q[k.user]
        /\ k.pc = "draw" => Planned(k, rs)
        /\ Untouched(k.user, rs, ns) /\ q2[k.user] = q[k.user]
    BY DEF CallBacked
  <1>2. Held(k.user, ns) = Held(k.user, rs) /\ Fresh(k, ns) = Fresh(k, rs)
        /\ Plan(k, ns) = Plan(k, rs)
    BY <1>1, SameHeld DEF Untouched
  <1>3. ASSUME NEW t \in Topups, Known(k, t) PROVE AsSeen(k, t, ns)
    <2>1. rs[t].state \in {"live", "gone"} /\ rs[t].user = k.user
      BY <1>3 DEF CallShape
    <2>2. /\ ns[t].amount = rs[t].amount
          /\ ns[t].state = rs[t].state \/ (ns[t].state = "gone" /\ rs[t].amount = 0)
      BY <2>1, <1>1 DEF Untouched
    <2>3. AsSeen(k, t, rs)
      BY <1>1, <1>3
    <2>. QED BY <2>1, <2>2, <2>3 DEF AsSeen
  <1>4. k.pc = "draw" => Planned(k, ns)
    BY <1>1, <1>2, Zenon DEF Planned
  <1>5. k.need + SumFunction(Fresh(k, ns)) <= q2[k.user]
    BY <1>1, <1>2
  <1>. QED BY <1>3, <1>4, <1>5

LEMMA ShapeKept ==
    ASSUME NEW k \in Call, NEW rs, NEW ns, CallShape(k, rs),
           \A t \in Topups : rs[t].state \in {"live", "gone"} =>
               ns[t].state \in {"live", "gone"} /\ ns[t].user = rs[t].user
    PROVE  CallShape(k, ns)
  BY DEF CallShape

\* Before the read, and after the end, there is nothing to know.
LEMMA RestBacked ==
    ASSUME NEW k, k.pc \notin {"have", "draw"}, NEW rs, NEW q, NEW e, NEW v
    PROVE  CallShape(k, rs) /\ CallBacked(k, rs, q, e, v)
  BY DEF CallShape, CallBacked, Reading

\* The step of one call that leaves the tables alone: only that call counts.
LEMMA CallOnly ==
    ASSUME BackedInv, IInv', NEW c \in Requests, NEW k \in Call,
           call' = [call EXCEPT ![c] = k],
           UNCHANGED <<quota, version, record, expired, sweep>>,
           CallShape(k, record), CallBacked(k, record, quota, expired, version)
    PROVE  BackedInv'
  <1>1. call \in [Requests -> Call]
    BY DEF BackedInv, IInv, TypeOK
  <1>2. ASSUME NEW d \in Requests
        PROVE  /\ CallShape(call'[d], record')
               /\ CallBacked(call'[d], record', quota', expired', version')
    <2>1. CASE d = c
      <3>1. call'[d] = k
        BY <1>1, <2>1
      <3>. QED BY <3>1
    <2>2. CASE d # c
      <3>1. call'[d] = call[d]
        BY <1>1, <2>2
      <3>. QED BY <3>1 DEF BackedInv
    <2>. QED BY <2>1, <2>2
  <1>3. \A u \in Users : UserBacked(u, record', quota', expired')
    BY DEF BackedInv
  <1>4. SweepTakes'
    BY DEF BackedInv, SweepTakes
  <1>. QED BY <1>2, <1>3, <1>4 DEF BackedInv

LEMMA BackedFacts ==
    ASSUME BackedInv
    PROVE  /\ TypeOK /\ record \in Table /\ sweep \in Sweep
           /\ quota \in [Users -> Int] /\ version \in [Users -> Nat]
           /\ expired \in [Users -> Nat] /\ call \in [Requests -> Call]
           /\ \A c \in Requests : call[c] \in Call /\ CallInv(c)
  BY IInvPointwise DEF BackedInv, IInv, TypeOK, Table

\* A read under a snapshot: nothing is fresh, and the check covers the need.
LEMMA ReadBacked ==
    ASSUME BackedInv, IInv', NEW c \in Requests, Read(c)
    PROVE  BackedInv'
  <1>. DEFINE k == call[c]
              n == [k EXCEPT !.pc = "have", !.quota = quota[k.user],
                             !.version = version[k.user],
                             !.seen = IF SnapshotReads THEN record ELSE @]
  <1>0. k \in Call /\ record \in Table /\ quota \in [Users -> Int] /\ k.user \in Users
        /\ k.need \in Nat /\ version \in [Users -> Nat]
    BY BackedFacts, CallFields
  <1>1. UNCHANGED <<quota, version, record, expired, sweep>>
    BY DEF Read, rows
  <1>2. CASE call' = [call EXCEPT ![c] = Left(k, "insufficient")]
    <2>1. Left(k, "insufficient") \in Call /\ Left(k, "insufficient").pc \notin {"have", "draw"}
      BY <1>0, LeftType
    <2>. HIDE DEF k
    <2>. QED BY <1>1, <1>2, <2>1, RestBacked, CallOnly
  <1>3. CASE Sufficient(k) /\ call' = [call EXCEPT ![c] = n]
    <2>1. /\ n \in Call /\ n.pc = "have" /\ n.user = k.user /\ n.need = k.need
          /\ SnapshotReads => n.seen = record
      BY <1>0 DEF Call, Table
    <2>2. k.need <= quota[k.user]
      BY <1>0, <1>3 DEF Sufficient
    <2>. HIDE DEF k, n
    <2>3. CallShape(n, record)
      BY <2>1 DEF CallShape, Reading, Known
    <2>4. CallBacked(n, record, quota, expired, version)
      <3>. SUFFICES ASSUME SnapshotReads
                    PROVE  /\ \A t \in Topups : Known(n, t) => AsSeen(n, t, record)
                           /\ n.need + SumFunction(Fresh(n, record)) <= quota[n.user]
        BY <2>1 DEF CallBacked, Reading
      <3>1. \A t \in Topups : Known(n, t) => AsSeen(n, t, record)
        BY <2>1 DEF Known, AsSeen, Drew
      <3>2. ASSUME NEW t \in Topups PROVE Fresh(n, record)[t] = 0
        BY <1>0, <2>1, FreshType, HeldType DEF Known
      <3>3. SumFunction(Fresh(n, record)) = 0
        <4>1. Fresh(n, record) \in [Topups -> Nat]
          BY <1>0, <2>1, FreshType
        <4>2. DOMAIN Fresh(n, record) = Topups
          BY <4>1
        <4>. QED BY <3>2, <4>2, SumZero, FiniteAssumption
      <3>4. quota[k.user] \in Int
        BY <1>0
      <3>. QED BY <1>0, <2>1, <2>2, <3>1, <3>3, <3>4
    <2>. QED BY <1>1, <1>3, <2>1, <2>3, <2>4, CallOnly
  <1>4. \/ call' = [call EXCEPT ![c] = Left(k, "insufficient")]
        \/ Sufficient(k) /\ call' = [call EXCEPT ![c] = n]
    BY DEF Read
  <1>. QED BY <1>2, <1>3, <1>4

\* The UPDATE of the row: from here on, what was read stays as it is.
LEMMA LockRowBacked ==
    ASSUME BackedInv, IInv', NEW c \in Requests, LockRow(c)
    PROVE  BackedInv'
  <1>. DEFINE k == call[c]
              seen == IF SnapshotReads THEN k.seen ELSE record
              todo == Spendable(seen, k.user)
              n == [k EXCEPT !.pc = "draw", !.seen = seen, !.drawn = {},
                             !.todo = todo, !.due = k.need]
  <1>0. /\ k \in Call /\ record \in Table /\ k.seen \in Table
        /\ quota \in [Users -> Int] /\ expired \in [Users -> Nat]
        /\ k.user \in Users /\ k.need \in Nat /\ k.pc = "have" /\ CallInv(c)
    BY BackedFacts, CallFields DEF LockRow
  <1>1. UNCHANGED <<quota, version, record, expired, sweep>>
    BY DEF LockRow
  <1>2. CASE call' = [call EXCEPT ![c] = Retried(k)]
    <2>1. Retried(k) \in Call /\ Retried(k).pc \notin {"have", "draw"}
      BY <1>0, RetriedType
    <2>. HIDE DEF k
    <2>. QED BY <1>1, <1>2, <2>1, RestBacked, CallOnly
  <1>3. CASE SameVersion(k) /\ call' = [call EXCEPT ![c] = n]
    <2>0. seen \in Table
      BY <1>0
    <2>1. /\ n \in Call /\ n.pc = "draw" /\ n.user = k.user /\ n.need = k.need
          /\ n.seen = seen /\ n.drawn = {} /\ n.todo = todo /\ n.due = k.need
          /\ n.version = k.version
      <3>1. todo \in SUBSET Topups
        BY DEF Spendable
      <3>. HIDE DEF seen, todo
      <3>. QED BY <1>0, <2>0, <3>1 DEF Call, Table
    <2>2. \A t \in Topups : t \in todo <=> Known(n, t) /\ n.seen[t].amount > 0
      <3>. HIDE DEF n, k, seen
      <3>. QED BY <2>1 DEF Spendable, Known
    <2>3. todo \in SUBSET Topups
      BY DEF Spendable
    <2>4. CallShape(k, record) /\ CallBacked(k, record, quota, expired, version)
      BY DEF BackedInv
    <2>5. SnapshotReads => \A t \in Topups : Known(n, t) <=> Known(k, t)
      <3>1. SnapshotReads => n.seen = k.seen
        BY <2>1
      <3>. HIDE DEF n, k
      <3>. QED BY <2>1, <3>1 DEF Known
    <2>6. ~SnapshotReads => \A t \in Topups : Known(n, t) <=>
              record[t].state = "live" /\ record[t].user = n.user
      <3>1. ~SnapshotReads => n.seen = record
        BY <2>1
      <3>. HIDE DEF n, k
      <3>. QED BY <2>1, <3>1 DEF Known
    <2>7. n.seen = IF SnapshotReads THEN k.seen ELSE record
      BY <2>1
    <2>8. ~SnapshotReads /\ expired[k.user] = 0 => k.need <= quota[k.user]
      <3>1. /\ k.need <= k.quota
            /\ k.quota <= quota[k.user] + expired[k.user]
        BY <1>0, <1>3 DEF CallInv, SameVersion
      <3>2. k.quota \in Int /\ quota[k.user] \in Int /\ expired[k.user] \in Nat
        BY <1>0 DEF Call
      <3>. HIDE DEF k
      <3>. QED BY <1>0, <3>1, <3>2
    <2>. HIDE DEF n, k, seen, todo
    <2>9. CallShape(n, record)
      <3>1. ASSUME NEW t \in Topups, Known(n, t)
            PROVE  record[t].state \in {"live", "gone"} /\ record[t].user = n.user
        BY <1>0, <2>1, <2>4, <2>5, <2>6, <3>1 DEF CallShape, Reading
      <3>. QED BY <2>1, <2>2, <2>3, <3>1 DEF CallShape
    <2>10. CallBacked(n, record, quota, expired, version)
      <3>. SUFFICES ASSUME expired[n.user] = 0
                    PROVE  /\ \A t \in Topups : Known(n, t) => AsSeen(n, t, record)
                           /\ n.need + SumFunction(Fresh(n, record)) <= quota[n.user]
                           /\ Planned(n, record)
        BY DEF CallBacked
      <3>1. Planned(n, record)
        <4>1. \A t \in Topups : Plan(n, record)[t] = Held(n.user, record)[t]
          BY <1>0, <2>1, FreshType
        <4>2. Plan(n, record) \in [Topups -> Nat] /\ Held(n.user, record) \in [Topups -> Nat]
          BY <1>0, <2>1, FreshType, HeldType
        <4>3. Plan(n, record) = Held(n.user, record)
          BY <4>1, <4>2
        <4>. QED BY <2>1, <2>2, <4>3 DEF Planned
      <3>2. CASE SnapshotReads
        <4>1. /\ \A t \in Topups : Known(k, t) => AsSeen(k, t, record)
              /\ k.need + SumFunction(Fresh(k, record)) <= quota[k.user]
          BY <1>0, <1>3, <2>1, <2>4, <3>2 DEF CallBacked, Reading, SameVersion
        <4>2. Fresh(n, record) = Fresh(k, record)
          <5>1. \A t \in Topups : Fresh(n, record)[t] = Fresh(k, record)[t]
            BY <1>0, <2>1, <2>5, <3>2, FreshType
          <5>2. Fresh(n, record) \in [Topups -> Nat] /\ Fresh(k, record) \in [Topups -> Nat]
            BY <1>0, <2>1, FreshType
          <5>. QED BY <5>1, <5>2
        <4>3. \A t \in Topups : Known(n, t) => AsSeen(n, t, record)
          BY <1>0, <2>1, <2>5, <2>7, <3>2, <4>1 DEF AsSeen, Drew
        <4>. QED BY <2>1, <3>1, <4>1, <4>2, <4>3
      <3>3. CASE ~SnapshotReads
        <4>1. \A t \in Topups : Known(n, t) => AsSeen(n, t, record)
          BY <2>1, <2>6, <2>7, <3>3 DEF AsSeen, Drew
        <4>2. \A t \in Topups : Fresh(n, record)[t] = 0
          BY <1>0, <2>1, <2>6, <3>3, FreshType, HeldType
        <4>3. SumFunction(Fresh(n, record)) = 0
          <5>1. Fresh(n, record) \in [Topups -> Nat]
            BY <1>0, <2>1, FreshType
          <5>2. DOMAIN Fresh(n, record) = Topups
            BY <5>1
          <5>. QED BY <4>2, <5>2, SumZero, FiniteAssumption
        <4>. QED BY <1>0, <2>1, <2>8, <3>1, <3>3, <4>1, <4>3
      <3>. QED BY <3>2, <3>3
    <2>. QED BY <1>1, <1>3, <2>1, <2>9, <2>10, CallOnly
  <1>4. \/ call' = [call EXCEPT ![c] = Retried(k)]
        \/ SameVersion(k) /\ call' = [call EXCEPT ![c] = n]
    BY DEF LockRow
  <1>. QED BY <1>2, <1>3, <1>4

\* One record drawn: what leaves its amount leaves the remaining need.
LEMMA DrawnAmount ==
    ASSUME NEW have \in Nat, NEW due \in Nat
    PROVE  /\ NewAmount(have, due) \in Nat /\ Remaining(have, due) \in Nat
           /\ NewAmount(have, due) + due = have + Remaining(have, due)
           /\ Remaining(have, due) > 0 => NewAmount(have, due) = 0 /\ due > 0
  BY DEF NewAmount, Remaining

LEMMA DrawBacked ==
    ASSUME BackedInv, IInv', NEW c \in Requests, Draw(c)
    PROVE  BackedInv'
  <1>. DEFINE k == call[c]
              have(t) == k.seen[t].amount
              drew(t) == [k EXCEPT
                  !.due = Remaining(k.seen[t].amount, k.due),
                  !.seen = [@ EXCEPT ![t].amount = NewAmount(k.seen[t].amount, k.due)],
                  !.drawn = @ \cup {t},
                  !.todo = IF Remaining(k.seen[t].amount, k.due) = 0 THEN {} ELSE @ \ {t}]
  <1>0. /\ k \in Call /\ record \in Table /\ k.seen \in Table /\ k.due \in Nat
        /\ quota \in [Users -> Int] /\ expired \in [Users -> Nat]
        /\ k.user \in Users /\ k.need \in Nat /\ k.pc = "draw"
        /\ k.todo \in SUBSET Topups /\ k.drawn \in SUBSET Topups
    BY BackedFacts, CallFields DEF Draw
  <1>1. UNCHANGED <<quota, version, record, expired, sweep>>
    BY DEF Draw
  <1>2. PICK t \in k.todo : \/ call' = [call EXCEPT ![c] = drew(t)]
                            \/ call' = [call EXCEPT ![c] = Retried(k)]
    BY DEF Draw
  <1>3. CASE call' = [call EXCEPT ![c] = Retried(k)]
    <2>1. Retried(k) \in Call /\ Retried(k).pc \notin {"have", "draw"}
      BY <1>0, RetriedType
    <2>. HIDE DEF k
    <2>. QED BY <1>1, <1>3, <2>1, RestBacked, CallOnly
  <1>4. CASE call' = [call EXCEPT ![c] = drew(t)]
    <2>. DEFINE n == drew(t)
                h == k.seen[t].amount
    <2>0. t \in Topups /\ h \in Nat /\ k.seen[t] \in Record
      BY <1>0 DEF Table, Record
    <2>1. /\ NewAmount(h, k.due) \in Nat /\ Remaining(h, k.due) \in Nat
          /\ NewAmount(h, k.due) + k.due = h + Remaining(h, k.due)
          /\ Remaining(h, k.due) > 0 => NewAmount(h, k.due) = 0 /\ k.due > 0
      BY <1>0, <2>0, DrawnAmount
    <2>2. /\ n.pc = "draw" /\ n.user = k.user /\ n.need = k.need /\ n.version = k.version
          /\ n.due = Remaining(h, k.due)
          /\ n.seen = [k.seen EXCEPT ![t].amount = NewAmount(h, k.due)]
          /\ n.drawn = k.drawn \cup {t}
          /\ n.todo = IF Remaining(h, k.due) = 0 THEN {} ELSE k.todo \ {t}
      BY <1>0 DEF Call
    <2>3. n \in Call
      <3>1. n.seen \in Table
        BY <1>0, <2>0, <2>1, <2>2 DEF Table, Record
      <3>. HIDE DEF h
      <3>. QED BY <1>0, <2>0, <2>1, <2>2, <3>1 DEF Call, Table
    <2>4. /\ n.seen[t].amount = NewAmount(h, k.due)
          /\ \A s \in Topups : /\ n.seen[s].state = k.seen[s].state
                               /\ n.seen[s].user = k.seen[s].user
                               /\ s # t => n.seen[s].amount = k.seen[s].amount
      <3>1. n.seen[t] = [k.seen[t] EXCEPT !.amount = NewAmount(h, k.due)]
        BY <1>0, <2>0, <2>2 DEF Table
      <3>2. \A s \in Topups : s # t => n.seen[s] = k.seen[s]
        BY <1>0, <2>2 DEF Table
      <3>. HIDE DEF n, k, h
      <3>. QED BY <2>0, <3>1, <3>2 DEF Record
    <2>5. CallShape(k, record) /\ CallBacked(k, record, quota, expired, version)
      BY DEF BackedInv
    <2>6. /\ Known(k, t) /\ h > 0 /\ t \notin k.drawn
          /\ \A s \in k.todo \cup k.drawn : Known(k, s)
          /\ \A s \in k.todo : k.seen[s].amount > 0
          /\ k.todo \cap k.drawn = {}
      BY <1>0, <2>5 DEF CallShape
    <2>. HIDE DEF k, h, n
    <2>7. \A s \in Topups : Known(n, s) <=> Known(k, s)
      BY <2>2, <2>4 DEF Known
    <2>8. CallShape(n, record)
      <3>1. \A s \in n.drawn \cup n.todo : s \in Topups /\ Known(n, s)
        BY <1>0, <2>0, <2>2, <2>6, <2>7
      <3>2. n.todo \cap n.drawn = {} /\ \A s \in n.todo : n.seen[s].amount > 0
        BY <1>0, <2>2, <2>4, <2>6
      <3>3. \A s \in Topups : Known(n, s) =>
                record[s].state \in {"live", "gone"} /\ record[s].user = n.user
        BY <1>0, <2>2, <2>5, <2>7 DEF CallShape, Reading
      <3>. QED BY <2>2, <3>1, <3>2, <3>3 DEF CallShape
    <2>9. ASSUME expired[n.user] = 0, version[n.user] = n.version
          PROVE  /\ \A s \in Topups : Known(n, s) => AsSeen(n, s, record)
                 /\ n.need + SumFunction(Fresh(n, record)) <= quota[n.user]
                 /\ Planned(n, record)
      <3>1. /\ \A s \in Topups : Known(k, s) => AsSeen(k, s, record)
            /\ k.need + SumFunction(Fresh(k, record)) <= quota[k.user]
            /\ Planned(k, record)
        BY <1>0, <2>2, <2>5, <2>9 DEF CallBacked, Reading
      <3>2. record[t].state = "live" /\ record[t].amount = h /\ record[t].user = k.user
        <4>1. AsSeen(k, t, record)
          BY <2>0, <2>6, <3>1
        <4>2. record[t].user = k.user
          BY <1>0, <2>0, <2>5, <2>6 DEF CallShape, Reading
        <4>3. k.seen[t].amount = h
          BY DEF h
        <4>. QED BY <2>6, <4>1, <4>2, <4>3 DEF AsSeen, Drew
      <3>3. ASSUME NEW s \in Topups, Known(n, s) PROVE AsSeen(n, s, record)
        <4>1. AsSeen(k, s, record)
          BY <2>7, <3>1, <3>3
        <4>2. CASE s = t
          BY <2>2, <2>6, <3>2, <4>2 DEF AsSeen, Drew
        <4>3. CASE s # t
          BY <1>0, <2>2, <2>4, <4>1, <4>3 DEF AsSeen, Drew
        <4>. QED BY <4>2, <4>3
      <3>4. Fresh(n, record) = Fresh(k, record)
        <4>1. \A s \in Topups : Fresh(n, record)[s] = Fresh(k, record)[s]
          BY <1>0, <2>2, <2>3, <2>7, FreshType
        <4>2. Fresh(n, record) \in [Topups -> Nat] /\ Fresh(k, record) \in [Topups -> Nat]
          BY <1>0, <2>3, FreshType
        <4>. QED BY <4>1, <4>2
      <3>5. SumFunction(Plan(n, record)) =
                SumFunction(Plan(k, record)) + (NewAmount(h, k.due) - h)
        <4>1. /\ Plan(n, record) \in [Topups -> Nat] /\ Plan(k, record) \in [Topups -> Nat]
          BY <1>0, <2>3, FreshType
        <4>2. /\ Plan(n, record) \in [Topups -> Int] /\ Plan(k, record) \in [Topups -> Int]
          BY <4>1
        <4>3. ASSUME NEW s \in Topups, s # t
              PROVE  Plan(n, record)[s] = Plan(k, record)[s]
          <5>1. Plan(n, record)[s] = IF s \in n.drawn THEN n.seen[s].amount
                                     ELSE Held(n.user, record)[s]
            BY <1>0, <2>3, FreshType
          <5>2. Plan(k, record)[s] = IF s \in k.drawn THEN k.seen[s].amount
                                     ELSE Held(k.user, record)[s]
            BY <1>0, FreshType
          <5>3. s \in n.drawn <=> s \in k.drawn
            BY <2>2, <4>3
          <5>4. Held(n.user, record) = Held(k.user, record)
            BY <2>2
          <5>. QED BY <2>4, <4>3, <5>1, <5>2, <5>3, <5>4
        <4>4. Plan(n, record)[t] = NewAmount(h, k.due)
          <5>1. t \in n.drawn
            BY <2>2
          <5>. QED BY <1>0, <2>0, <2>3, <2>4, <5>1, FreshType
        <4>5. Plan(k, record)[t] = h
          <5>1. Plan(k, record)[t] = Held(k.user, record)[t]
            BY <1>0, <2>0, <2>6, FreshType
          <5>. QED BY <1>0, <2>0, <3>2, <5>1, HeldType
        <4>. QED BY <2>0, <4>2, <4>3, <4>4, <4>5, SumChange, FiniteAssumption
      <3>6. SumFunction(Plan(n, record)) + n.need = SumFunction(Held(n.user, record)) + n.due
        <4>1. SumFunction(Plan(k, record)) + k.need = SumFunction(Held(k.user, record)) + k.due
          BY <3>1 DEF Planned
        <4>2. /\ SumFunction(Plan(k, record)) \in Nat
              /\ SumFunction(Held(k.user, record)) \in Nat
          BY <1>0, FreshType, HeldType
        <4>3. ASSUME NEW p \in Nat, NEW o \in Nat, NEW need \in Nat, NEW due \in Nat,
                     NEW new \in Nat, NEW rem \in Nat, NEW x \in Nat,
                     p + need = o + due, new + due = x + rem
              PROVE  (p + (new - x)) + need = o + rem
          BY <4>3
        <4>. HIDE DEF Planned
        <4>4. (SumFunction(Plan(k, record)) + (NewAmount(h, k.due) - h)) + k.need
              = SumFunction(Held(k.user, record)) + Remaining(h, k.due)
          BY <1>0, <2>0, <2>1, <4>1, <4>2, <4>3
        <4>5. Held(n.user, record) = Held(k.user, record) /\ n.need = k.need
              /\ n.due = Remaining(h, k.due)
          BY <2>2
        <4>6. SumFunction(Plan(n, record)) + n.need
              = (SumFunction(Plan(k, record)) + (NewAmount(h, k.due) - h)) + k.need
          BY <3>5, <4>5, Zenon
        <4>7. SumFunction(Held(n.user, record)) + n.due
              = SumFunction(Held(k.user, record)) + Remaining(h, k.due)
          BY <4>5, Zenon
        <4>. QED BY <4>4, <4>6, <4>7, Zenon
      <3>7. ASSUME n.due > 0, NEW s \in Topups, Known(n, s), n.seen[s].amount > 0
            PROVE  s \in n.todo
        <4>1. k.due > 0 /\ NewAmount(h, k.due) = 0 /\ Remaining(h, k.due) # 0
          BY <2>1, <2>2, <3>7
        <4>2. s # t
          BY <2>4, <3>7, <4>1
        <4>3. s \in k.todo
          BY <2>4, <2>7, <3>1, <3>7, <4>1, <4>2 DEF Planned
        <4>. QED BY <2>2, <4>1, <4>2, <4>3
      <3>8. Planned(n, record)
        BY <3>6, <3>7 DEF Planned
      <3>. QED BY <2>2, <3>1, <3>3, <3>4, <3>8
    <2>10. CallBacked(n, record, quota, expired, version)
      BY <2>9 DEF CallBacked
    <2>11. call' = [call EXCEPT ![c] = n]
      BY <1>4 DEF n, k
    <2>. QED BY <1>1, <2>3, <2>8, <2>10, <2>11, CallOnly
  <1>. QED BY <1>2, <1>3, <1>4

LEMMA LeaveBacked ==
    ASSUME BackedInv, IInv', NEW c \in Requests, Begin(c) \/ DbError(c)
    PROVE  BackedInv'
  <1>1. UNCHANGED <<quota, version, record, expired, sweep>>
    BY DEF Begin, DbError, rows
  <1>2. call[c] \in Call
    BY BackedFacts
  <1>3. CASE Begin(c)
    <2>1. PICK u \in Users, q \in Sizes :
              call' = [call EXCEPT ![c] = [call[c] EXCEPT !.pc = "read", !.user = u, !.need = q]]
      BY <1>3, BackedFacts DEF Begin
    <2>. DEFINE k == [call[c] EXCEPT !.pc = "read", !.user = u, !.need = q]
    <2>2. k \in Call /\ k.pc \notin {"have", "draw"}
      BY <1>2 DEF Call
    <2>3. call' = [call EXCEPT ![c] = k]
      BY <2>1
    <2>. HIDE DEF k
    <2>. QED BY <1>1, <2>2, <2>3, RestBacked, CallOnly
  <1>4. CASE DbError(c)
    <2>1. call' = [call EXCEPT ![c] = Left(call[c], "error")]
      BY <1>4, BackedFacts DEF DbError
    <2>2. /\ Left(call[c], "error") \in Call
          /\ Left(call[c], "error").pc \notin {"have", "draw"}
      BY <1>2, LeftType
    <2>. QED BY <1>1, <2>1, <2>2, RestBacked, CallOnly
  <1>. QED BY <1>3, <1>4

\* The commit: either the need is covered by what was drawn, or the records
\* that were read are empty and the check of step 2 covers the fresh ones.
LEMMA CommitBacked ==
    ASSUME BackedInv, IInv', NEW c \in Requests, Commit(c)
    PROVE  BackedInv'
  <1>. DEFINE k == call[c]
  <1>0. /\ k \in Call /\ record \in Table /\ k.seen \in Table /\ k.due \in Nat
        /\ quota \in [Users -> Int] /\ expired \in [Users -> Nat]
        /\ version \in [Users -> Nat] /\ call \in [Requests -> Call]
        /\ k.user \in Users /\ k.need \in Nat /\ k.pc = "draw" /\ k.todo = {}
        /\ CallInv(c) /\ clock \in Nat
        /\ CallShape(k, record) /\ CallBacked(k, record, quota, expired, version)
    BY BackedFacts, CallFields DEF Commit, BackedInv, TypeOK
  <1>1. /\ quota' = [quota EXCEPT ![k.user] = quota[k.user] - k.need]
        /\ version' = [version EXCEPT ![k.user] = clock + 1]
        /\ call' = [call EXCEPT ![c] = Left(k, "ok")]
        /\ UNCHANGED <<expired, sweep>>
    BY DEF Commit, Debited
  <1>2. \A t \in Topups : record'[t] =
            IF t \in k.drawn
            THEN [record[t] EXCEPT !.amount = k.seen[t].amount, !.version = clock + 1]
            ELSE record[t]
    BY DEF Commit
  <1>3. record' \in Table
    BY DEF IInv, TypeOK, Table
  <1>4. \A t \in Topups : k.seen[t].amount \in Nat /\ record[t] \in Record
    BY <1>0 DEF Table, Record
  <1>5. \A t \in k.drawn : Known(k, t) /\ t \in Topups
    BY <1>0, CallFields DEF CallShape
  <1>. HIDE DEF k
  <1>6. \A t \in Topups : /\ record'[t].state = record[t].state
                          /\ record'[t].user = record[t].user
                          /\ record'[t].amount = IF t \in k.drawn THEN k.seen[t].amount
                                                 ELSE record[t].amount
    BY <1>2, <1>4 DEF Record
  <1>7. ASSUME NEW w \in Users, w # k.user PROVE Untouched(w, record, record')
    <2>. SUFFICES ASSUME NEW t \in Topups
                  PROVE  /\ record[t].state \in {"live", "gone"} /\ record[t].user = w =>
                                /\ record'[t].user = w /\ record'[t].amount = record[t].amount
                                /\ record'[t].state = record[t].state
                         /\ Held(w, record')[t] = Held(w, record)[t]
      BY Zenon DEF Untouched
    <2>1. t \in k.drawn => record[t].user = k.user
      BY <1>0, <1>5 DEF CallShape, Reading
    <2>2. record[t].user = w => record'[t].amount = record[t].amount
      BY <1>6, <1>7, <2>1
    <2>3. Held(w, record')[t] = Held(w, record)[t]
      BY <1>0, <1>3, <1>6, <2>2, HeldType
    <2>. QED BY <1>6, <2>2, <2>3
  <1>8. ASSUME NEW d \in Requests
        PROVE  /\ CallShape(call'[d], record')
               /\ CallBacked(call'[d], record', quota', expired', version')
    <2>1. CASE d = c
      <3>1. call'[d] = Left(k, "ok") /\ Left(k, "ok").pc \notin {"have", "draw"}
        BY <1>0, <1>1, <2>1, LeftType
      <3>. QED BY <3>1, RestBacked
    <2>2. CASE d # c
      <3>1. /\ call'[d] = call[d] /\ call[d] \in Call /\ CallInv(d)
            /\ CallShape(call[d], record)
            /\ CallBacked(call[d], record, quota, expired, version)
        BY <1>0, <1>1, <2>2, BackedFacts DEF BackedInv
      <3>. DEFINE j == call[d]
      <3>2. j.user \in Users /\ j.version \in Nat /\ j.version <= clock
        BY <3>1, CallFields DEF CallInv
      <3>. HIDE DEF j
      <3>3. CallShape(j, record')
        BY <1>6, <3>1, ShapeKept DEF j
      <3>4. CASE j.user = k.user
        <4>1. version'[j.user] # j.version
          BY <1>0, <1>1, <3>2, <3>4
        <4>. QED BY <3>1, <3>3, <4>1 DEF CallBacked, j
      <3>5. CASE j.user # k.user
        <4>1. /\ version'[j.user] = version[j.user] /\ quota'[j.user] = quota[j.user]
              /\ expired'[j.user] = expired[j.user]
          BY <1>0, <1>1, <3>2, <3>5
        <4>2. Untouched(j.user, record, record')
          BY <1>7, <3>2, <3>5
        <4>3. /\ j \in Call /\ CallShape(j, record)
              /\ CallBacked(j, record, quota, expired, version)
          BY <3>1 DEF j
        <4>4. CallBacked(j, record', quota', expired', version')
          BY <1>0, <1>3, <4>1, <4>2, <4>3, BackedKept
        <4>. QED BY <3>1, <3>3, <4>4 DEF j
      <3>. QED BY <3>4, <3>5
    <2>. QED BY <2>1, <2>2
  <1>9. ASSUME NEW w \in Users PROVE UserBacked(w, record', quota', expired')
    <2>1. CASE w # k.user
      <3>1. \A t \in Topups : Held(w, record')[t] = Held(w, record)[t]
        BY <1>7, <2>1 DEF Untouched
      <3>2. Held(w, record') = Held(w, record)
        BY <1>0, <1>3, <3>1, SameHeld
      <3>3. quota'[w] = quota[w] /\ expired'[w] = expired[w]
        BY <1>0, <1>1, <2>1
      <3>. QED BY <3>2, <3>3 DEF UserBacked, BackedInv
    <2>2. CASE w = k.user
      <3>. SUFFICES ASSUME expired[k.user] = 0
                    PROVE  SumFunction(Held(k.user, record')) <= quota[k.user] - k.need
        BY <1>0, <1>1, <2>2 DEF UserBacked
      <3>1. version[k.user] = k.version
        BY <1>0 DEF CallInv, k
      <3>2. /\ \A t \in Topups : Known(k, t) => AsSeen(k, t, record)
            /\ k.need + SumFunction(Fresh(k, record)) <= quota[k.user]
            /\ Planned(k, record)
        BY <1>0, <3>1 DEF CallBacked, Reading
      <3>3. SumFunction(Held(k.user, record)) <= quota[k.user]
        BY <1>0 DEF BackedInv, UserBacked
      <3>4. ASSUME NEW t \in Topups
            PROVE  Held(k.user, record')[t] = Plan(k, record)[t]
        <4>1. CASE t \in k.drawn
          <5>1. record[t].state = "live" /\ record[t].user = k.user
            BY <1>0, <1>5, <3>2, <4>1 DEF AsSeen, Drew, CallShape, Reading
          <5>2. /\ record'[t].state = "live" /\ record'[t].user = k.user
                /\ record'[t].amount = k.seen[t].amount
            BY <1>6, <4>1, <5>1
          <5>3. Held(k.user, record')[t] = k.seen[t].amount
            BY <1>3, <5>2, HeldType
          <5>4. Plan(k, record)[t] = k.seen[t].amount
            BY <1>0, <4>1, FreshType
          <5>. QED BY <5>3, <5>4
        <4>2. CASE t \notin k.drawn
          <5>1. Held(k.user, record')[t] = Held(k.user, record)[t]
            BY <1>0, <1>3, <1>6, <4>2, HeldType
          <5>2. Plan(k, record)[t] = Held(k.user, record)[t]
            BY <1>0, <4>2, FreshType
          <5>. QED BY <5>1, <5>2
        <4>. QED BY <4>1, <4>2
      <3>5. Held(k.user, record') = Plan(k, record)
        <4>1. /\ Held(k.user, record') \in [Topups -> Nat]
              /\ Plan(k, record) \in [Topups -> Nat]
          BY <1>0, <1>3, HeldType, FreshType
        <4>. QED BY <3>4, <4>1
      <3>6. /\ SumFunction(Plan(k, record)) \in Nat /\ SumFunction(Fresh(k, record)) \in Nat
            /\ SumFunction(Held(k.user, record)) \in Nat /\ quota[k.user] \in Int
        BY <1>0, FreshType, HeldType
      <3>7. CASE k.due = 0
        <4>1. SumFunction(Plan(k, record)) + k.need = SumFunction(Held(k.user, record)) + 0
          BY <3>2, <3>7 DEF Planned
        <4>. QED BY <1>0, <3>3, <3>5, <3>6, <4>1
      <3>8. CASE k.due > 0
        <4>1. ASSUME NEW t \in Topups PROVE Plan(k, record)[t] = Fresh(k, record)[t]
          <5>1. Known(k, t) => k.seen[t].amount = 0
            BY <1>0, <1>4, <3>2, <3>8 DEF Planned
          <5>2. CASE t \in k.drawn
            BY <1>0, <1>5, <5>1, <5>2, FreshType
          <5>3. CASE t \notin k.drawn /\ Known(k, t)
            <6>1. AsSeen(k, t, record)
              BY <3>2, <5>3
            <6>2. record[t].state # "live" \/ record[t].amount = 0
              BY <5>1, <5>3, <6>1 DEF AsSeen, Drew
            <6>3. Held(k.user, record)[t] = 0
              BY <1>0, <6>2, HeldType
            <6>. QED BY <1>0, <5>3, <6>3, FreshType
          <5>4. CASE t \notin k.drawn /\ ~Known(k, t)
            BY <1>0, <5>4, FreshType
          <5>. QED BY <5>2, <5>3, <5>4
        <4>2. Plan(k, record) = Fresh(k, record)
          <5>1. /\ Plan(k, record) \in [Topups -> Nat]
                /\ Fresh(k, record) \in [Topups -> Nat]
            BY <1>0, FreshType
          <5>. QED BY <4>1, <5>1
        <4>. QED BY <1>0, <3>2, <3>5, <3>6, <4>2
      <3>. QED BY <1>0, <3>7, <3>8
    <2>. QED BY <2>1, <2>2
  <1>10. SweepTakes'
    <2>1. sweep \in Sweep
      BY BackedFacts
    <2>2. sweep.todo \cup sweep.done \in SUBSET Topups /\ sweep.done \in SUBSET Topups
      BY <2>1 DEF Sweep
    <2>. QED BY <1>1, <1>6, <2>2 DEF SweepTakes, BackedInv
  <1>. QED BY <1>8, <1>9, <1>10 DEF BackedInv

\* Redeem brings a record and as much quota: it is fresh to every call that
\* goes on without having read it.
LEMMA RedeemBacked ==
    ASSUME BackedInv, IInv', NEW t \in Topups, RedeemCredit(t)
    PROVE  BackedInv'
  <1>0. /\ record \in Table /\ quota \in [Users -> Int] /\ expired \in [Users -> Nat]
        /\ record' \in Table /\ quota' \in [Users -> Int]
        /\ \A c \in Requests : call[c] \in Call /\ CallInv(c)
    BY BackedFacts DEF IInv, TypeOK, Table
  <1>1. PICK u \in Users, n \in Sizes, e \in EndDates :
            /\ lock[u] = NoOne
            /\ quota' = [quota EXCEPT ![u] = @ + n]
            /\ record' = [record EXCEPT ![t] = [state |-> "live", user |-> u, size |-> n,
                                                amount |-> n, end |-> e, version |-> 0]]
    BY DEF RedeemCredit
  <1>2. /\ record[t].state = "none"
        /\ UNCHANGED <<version, expired, call, sweep>>
    BY DEF RedeemCredit
  <1>3. /\ record'[t].state = "live" /\ record'[t].user = u /\ record'[t].amount = n
        /\ \A s \in Topups : s # t => record'[s] = record[s]
    BY <1>0, <1>1 DEF Table
  <1>4. /\ quota'[u] = quota[u] + n /\ quota[u] \in Int /\ n \in Nat
        /\ \A w \in Users : w # u => quota'[w] = quota[w]
    BY <1>0, <1>1, SizesAssumption
  <1>5. ASSUME NEW w \in Users, NEW s \in Topups
        PROVE  Held(w, record')[s] = Held(w, record)[s] + IF w = u /\ s = t THEN n ELSE 0
    <2>1. CASE s = t
      <3>1. Held(w, record)[t] = 0
        BY <1>0, <1>2, HeldType
      <3>2. Held(w, record')[t] = IF w = u THEN n ELSE 0
        BY <1>0, <1>3, HeldType
      <3>. QED BY <1>4, <2>1, <3>1, <3>2
    <2>2. CASE s # t
      <3>1. Held(w, record')[s] = Held(w, record)[s] /\ Held(w, record)[s] \in Nat
        BY <1>0, <1>3, <2>2, HeldType
      <3>. QED BY <2>2, <3>1
    <2>. QED BY <2>1, <2>2
  <1>6. ASSUME NEW w \in Users, w # u PROVE Untouched(w, record, record')
    <2>1. \A s \in Topups : Held(w, record')[s] = Held(w, record)[s]
      <3>1. \A s \in Topups : Held(w, record)[s] \in Nat
        BY <1>0, HeldType
      <3>. QED BY <1>5, <1>6, <3>1
    <2>2. \A s \in Topups : record[s].state \in {"live", "gone"} => record'[s] = record[s]
      BY <1>2, <1>3
    <2>. QED BY <2>1, <2>2 DEF Untouched
  <1>7. ASSUME NEW c \in Requests
        PROVE  /\ CallShape(call'[c], record')
               /\ CallBacked(call'[c], record', quota', expired', version')
    <2>. DEFINE k == call[c]
    <2>1. /\ call'[c] = k /\ k \in Call /\ k.user \in Users /\ k.need \in Nat
          /\ CallShape(k, record)
          /\ CallBacked(k, record, quota, expired, version)
      BY <1>0, <1>2, CallFields DEF BackedInv
    <2>2. k.user = u => k.pc # "draw"
      BY <1>0, <1>1, HoldersAssumption DEF CallInv
    <2>. HIDE DEF k
    <2>3. CallShape(k, record')
      <3>1. \A s \in Topups : record[s].state \in {"live", "gone"} => record'[s] = record[s]
        BY <1>2, <1>3
      <3>. QED BY <2>1, <3>1, ShapeKept
    <2>4. CASE k.user # u
      <3>1. Untouched(k.user, record, record') /\ quota'[k.user] = quota[k.user]
        BY <1>4, <1>6, <2>1, <2>4
      <3>2. CallBacked(k, record', quota', expired', version')
        BY <1>0, <1>2, <2>1, <3>1, BackedKept
      <3>. QED BY <2>1, <2>3, <3>2
    <2>5. CASE k.user = u
      <3>. SUFFICES ASSUME Reading(k), expired[u] = 0, version[u] = k.version
                    PROVE  /\ \A s \in Topups : Known(k, s) => AsSeen(k, s, record')
                           /\ k.need + SumFunction(Fresh(k, record')) <= quota'[u]
        BY <1>2, <2>1, <2>2, <2>3, <2>5 DEF CallBacked
      <3>1. /\ \A s \in Topups : Known(k, s) => AsSeen(k, s, record)
            /\ k.need + SumFunction(Fresh(k, record)) <= quota[u]
        BY <2>1, <2>5 DEF CallBacked
      <3>2. ~Known(k, t)
        BY <1>2, <2>1 DEF CallShape
      <3>3. \A s \in Topups : Known(k, s) => AsSeen(k, s, record')
        <4>1. \A s \in Topups : Known(k, s) => record'[s] = record[s]
          BY <1>3, <3>2
        <4>. QED BY <3>1, <4>1 DEF AsSeen
      <3>4. SumFunction(Fresh(k, record')) = SumFunction(Fresh(k, record)) + n
        <4>1. Fresh(k, record) \in [Topups -> Nat] /\ Fresh(k, record') \in [Topups -> Nat]
          BY <1>0, <2>1, FreshType
        <4>2. Fresh(k, record) \in [Topups -> Int] /\ Fresh(k, record') \in [Topups -> Int]
          BY <4>1
        <4>3. ASSUME NEW s \in Topups
              PROVE  Fresh(k, record')[s] = Fresh(k, record)[s] + IF s = t THEN n ELSE 0
          <5>1. CASE Known(k, s)
            BY <1>0, <2>1, <3>2, <5>1, FreshType
          <5>2. CASE ~Known(k, s)
            <6>1. /\ Fresh(k, record')[s] = Held(u, record')[s]
                  /\ Fresh(k, record)[s] = Held(u, record)[s]
              BY <1>0, <2>1, <2>5, <5>2, FreshType
            <6>. QED BY <1>5, <6>1
          <5>. QED BY <5>1, <5>2
        <4>4. \A s \in Topups : s # t => Fresh(k, record')[s] = Fresh(k, record)[s]
          BY <4>1, <4>3
        <4>5. SumFunction(Fresh(k, record')) =
                  SumFunction(Fresh(k, record)) + Fresh(k, record')[t] - Fresh(k, record)[t]
          BY <4>2, <4>4, SumChange, FiniteAssumption
        <4>6. SumFunction(Fresh(k, record)) \in Nat /\ Fresh(k, record)[t] \in Nat
          BY <1>0, <2>1, <4>1, FreshType
        <4>7. Fresh(k, record')[t] = Fresh(k, record)[t] + n
          BY <4>3
        <4>. QED BY <1>4, <4>5, <4>6, <4>7
      <3>5. SumFunction(Fresh(k, record)) \in Nat
        BY <1>0, <2>1, FreshType
      <3>. QED BY <1>4, <2>1, <3>1, <3>3, <3>4, <3>5
    <2>. QED BY <2>4, <2>5
  <1>8. ASSUME NEW w \in Users PROVE UserBacked(w, record', quota', expired')
    <2>1. UserBacked(w, record, quota, expired)
      BY DEF BackedInv
    <2>2. CASE w # u
      <3>1. Held(w, record') = Held(w, record)
        BY <1>0, <1>6, <2>2, SameHeld, InitialValues DEF Untouched
      <3>. QED BY <1>2, <1>4, <2>1, <2>2, <3>1 DEF UserBacked
    <2>3. CASE w = u
      <3>1. Held(u, record) \in [Topups -> Nat] /\ Held(u, record') \in [Topups -> Nat]
            /\ SumFunction(Held(u, record)) \in Nat
        BY <1>0, HeldType
      <3>2. Held(u, record) \in [Topups -> Int] /\ Held(u, record') \in [Topups -> Int]
        BY <3>1
      <3>3. \A s \in Topups : s # t => Held(u, record')[s] = Held(u, record)[s]
        BY <1>5, <3>1
      <3>4. SumFunction(Held(u, record')) =
                SumFunction(Held(u, record)) + Held(u, record')[t] - Held(u, record)[t]
        BY <3>2, <3>3, SumChange, FiniteAssumption
      <3>5. Held(u, record')[t] = Held(u, record)[t] + n /\ Held(u, record)[t] \in Nat
        BY <1>5, <3>1
      <3>6. SumFunction(Held(u, record')) = SumFunction(Held(u, record)) + n
        BY <1>4, <3>1, <3>4, <3>5
      <3>. QED BY <1>2, <1>4, <2>1, <2>3, <3>1, <3>6 DEF UserBacked
    <2>. QED BY <2>2, <2>3
  <1>9. SweepTakes'
    <2>1. sweep \in Sweep
      BY BackedFacts
    <2>2. sweep.todo \cup sweep.done \in SUBSET Topups /\ sweep.done \in SUBSET Topups
      BY <2>1 DEF Sweep
    <2>3. t \notin sweep.todo \cup sweep.done
      BY <1>2 DEF BackedInv, SweepTakes
    <2>. QED BY <1>2, <1>3, <2>2, <2>3 DEF SweepTakes, BackedInv
  <1>. QED BY <1>7, <1>8, <1>9 DEF BackedInv

\* Expiry: a user it takes something from drops out of the claim; of the
\* others only empty records disappear.
LEMMA SweepCommitBacked ==
    ASSUME BackedInv, IInv', SweepCommit
    PROVE  BackedInv'
  <1>0. /\ record \in Table /\ quota \in [Users -> Int] /\ expired \in [Users -> Nat]
        /\ record' \in Table /\ sweep \in Sweep /\ call \in [Requests -> Call]
    BY BackedFacts DEF IInv, TypeOK, Table
  <1>1. /\ \A u \in Users : /\ quota'[u] = quota[u] - sweep.taken[u]
                            /\ expired'[u] = expired[u] + sweep.taken[u]
        /\ sweep' = NoSweep /\ UNCHANGED <<version, call>>
    BY DEF SweepCommit
  <1>2. \A t \in Topups : record'[t] =
            IF t \in sweep.done \/ (record[t].state = "live" /\ record[t].amount = 0)
            THEN [record[t] EXCEPT !.state = "gone", !.amount = 0] ELSE record[t]
    BY DEF SweepCommit
  <1>3. \A t \in Topups : record[t] \in Record
    BY <1>0 DEF Table
  <1>4. \A t \in Topups :
           /\ record'[t].user = record[t].user
           /\ t \in sweep.done \/ (record[t].state = "live" /\ record[t].amount = 0)
              => record'[t].state = "gone" /\ record'[t].amount = 0
           /\ ~(t \in sweep.done \/ (record[t].state = "live" /\ record[t].amount = 0))
              => record'[t] = record[t]
    BY <1>2, <1>3 DEF Record
  <1>5. ASSUME NEW u \in Users, expired'[u] = 0
        PROVE  /\ expired[u] = 0 /\ quota'[u] = quota[u] /\ Untouched(u, record, record')
    <2>1. sweep.taken[u] \in Nat /\ expired[u] \in Nat /\ quota[u] \in Int
      BY <1>0 DEF Sweep
    <2>2. sweep.taken[u] = 0 /\ expired[u] = 0 /\ quota'[u] = quota[u]
      <3>. DEFINE taken == sweep.taken[u]
      <3>1. expired'[u] = expired[u] + taken /\ quota'[u] = quota[u] - taken
        BY <1>1
      <3>2. taken \in Nat
        BY <2>1
      <3>. HIDE DEF taken
      <3>3. taken = 0 /\ expired[u] = 0 /\ quota'[u] = quota[u]
        BY <1>5, <2>1, <3>1, <3>2
      <3>. QED BY <3>3 DEF taken
    <2>3. \A t \in Topups : record[t].user = u => t \notin sweep.done
      BY <2>2 DEF BackedInv, SweepTakes
    <2>4. ASSUME NEW t \in Topups
          PROVE  /\ record[t].state \in {"live", "gone"} /\ record[t].user = u =>
                       /\ record'[t].user = u /\ record'[t].amount = record[t].amount
                       /\ record'[t].state = record[t].state
                          \/ (record'[t].state = "gone" /\ record[t].amount = 0)
                 /\ Held(u, record')[t] = Held(u, record)[t]
      <3>1. CASE record[t].user = u
        <4>1. Held(u, record')[t] = Held(u, record)[t]
          BY <1>0, <1>4, <2>3, <3>1, HeldType
        <4>. QED BY <1>4, <2>3, <3>1, <4>1
      <3>2. CASE record[t].user # u
        <4>1. Held(u, record')[t] = 0 /\ Held(u, record)[t] = 0
          BY <1>0, <1>4, <3>2, HeldType
        <4>. QED BY <3>2, <4>1
      <3>. QED BY <3>1, <3>2
    <2>. QED BY <2>2, <2>4 DEF Untouched
  <1>6. ASSUME NEW c \in Requests
        PROVE  /\ CallShape(call'[c], record')
               /\ CallBacked(call'[c], record', quota', expired', version')
    <2>. DEFINE k == call[c]
    <2>1. /\ call'[c] = k /\ k \in Call /\ k.user \in Users /\ CallShape(k, record)
          /\ CallBacked(k, record, quota, expired, version)
      BY <1>0, <1>1, CallFields DEF BackedInv
    <2>. HIDE DEF k
    <2>2. CallShape(k, record')
      <3>1. ASSUME NEW t \in Topups, record[t].state \in {"live", "gone"}
            PROVE  record'[t].state \in {"live", "gone"} /\ record'[t].user = record[t].user
        BY <1>4, <3>1
      <3>. QED BY <2>1, <3>1, ShapeKept
    <2>3. expired'[k.user] = 0 => /\ expired[k.user] = 0 /\ quota'[k.user] = quota[k.user]
                                  /\ Untouched(k.user, record, record')
      BY <1>5, <2>1
    <2>4. version'[k.user] = version[k.user]
      BY <1>1
    <2>5. CallBacked(k, record', quota', expired', version')
      BY <1>0, <2>1, <2>3, <2>4, BackedKept
    <2>. QED BY <2>1, <2>2, <2>5
  <1>7. ASSUME NEW u \in Users PROVE UserBacked(u, record', quota', expired')
    <2>. SUFFICES ASSUME expired'[u] = 0
                  PROVE  SumFunction(Held(u, record')) <= quota'[u]
      BY DEF UserBacked
    <2>1. /\ expired[u] = 0 /\ quota'[u] = quota[u] /\ Untouched(u, record, record')
      BY <1>5
    <2>2. Held(u, record') = Held(u, record)
      BY <1>0, <2>1, SameHeld, InitialValues DEF Untouched
    <2>. QED BY <2>1, <2>2 DEF BackedInv, UserBacked
  <1>8. SweepTakes'
    BY <1>1 DEF SweepTakes, NoSweep
  <1>. QED BY <1>6, <1>7, <1>8 DEF BackedInv

LEMMA SweepBacked ==
    ASSUME BackedInv, IInv', SweepRead \/ SweepDeduct \/ SweepError \/ Tick
    PROVE  BackedInv'
  <1>1. UNCHANGED <<quota, version, record, expired, call>>
    BY DEF SweepRead, SweepDeduct, SweepError, Tick, rows
  <1>2. /\ \A c \in Requests : /\ CallShape(call'[c], record')
                               /\ CallBacked(call'[c], record', quota', expired', version')
        /\ \A u \in Users : UserBacked(u, record', quota', expired')
    BY <1>1 DEF BackedInv
  <1>3. SweepTakes'
    <2>0. SweepTakes /\ sweep \in Sweep /\ record \in Table
      BY BackedFacts DEF BackedInv
    <2>1. CASE SweepRead
      <3>1. /\ sweep'.todo = {t \in Topups : Overdue(t)} /\ sweep'.done = {}
            /\ sweep'.seen = [t \in Topups |-> record[t].amount]
        BY <2>1 DEF SweepRead, NoSweep
      <3>. QED BY <1>1, <3>1 DEF SweepTakes, Overdue
    <2>2. CASE SweepDeduct
      <3>1. PICK t \in sweep.todo :
                sweep' = [sweep EXCEPT !.todo = @ \ {t}, !.done = @ \cup {t},
                                       !.taken[record[t].user] = @ + sweep.seen[t]]
        BY <2>2 DEF SweepDeduct
      <3>2. /\ t \in Topups /\ record[t].user \in Users
            /\ sweep.seen[t] \in Nat /\ sweep.seen[t] > 0
            /\ \A u \in Users : sweep.taken[u] \in Nat
            /\ \A s \in Topups : record[s].user \in Users
            /\ sweep.todo \in SUBSET Topups /\ sweep.done \in SUBSET Topups
        BY <2>0 DEF Sweep, SweepTakes, Table, Record
      <3>3. /\ sweep'.todo = sweep.todo \ {t} /\ sweep'.done = sweep.done \cup {t}
            /\ sweep'.seen = sweep.seen
            /\ sweep'.taken =
                  [sweep.taken EXCEPT ![record[t].user] = @ + sweep.seen[t]]
        BY <2>0, <3>1 DEF Sweep
      <3>4. \A u \in Users : sweep'.taken[u] = sweep.taken[u]
                                 + IF u = record[t].user THEN sweep.seen[t] ELSE 0
        BY <2>0, <3>2, <3>3 DEF Sweep
      <3>5. ASSUME NEW s \in sweep'.done PROVE sweep'.taken[record[s].user] > 0
        <4>1. s \in Topups /\ record[s].user \in Users /\ (s = t \/ s \in sweep.done)
          BY <3>2, <3>3
        <4>2. s \in sweep.done => sweep.taken[record[s].user] > 0
          BY <2>0 DEF SweepTakes
        <4>. QED BY <3>2, <3>4, <4>1, <4>2
      <3>. QED BY <1>1, <2>0, <3>3, <3>5 DEF SweepTakes
    <2>3. CASE SweepError
      BY <2>3 DEF SweepError, SweepTakes, NoSweep
    <2>4. CASE Tick
      BY <2>0, <2>4 DEF Tick, SweepTakes, rows
    <2>. QED BY <2>1, <2>2, <2>3, <2>4
  <1>. QED BY <1>2, <1>3 DEF BackedInv

LEMMA InitBacked == Init => BackedInv
  <1>. SUFFICES ASSUME Init PROVE BackedInv
    OBVIOUS
  <1>1. IInv
    BY InitIInv
  <1>2. ASSUME NEW c \in Requests
        PROVE  /\ CallShape(call[c], record)
               /\ CallBacked(call[c], record, quota, expired, version)
    <2>1. call[c].pc \notin {"have", "draw"}
      BY DEF Init, NoCall
    <2>. QED BY <2>1, RestBacked
  <1>3. SweepTakes
    BY DEF Init, SweepTakes, NoSweep
  <1>4. ASSUME NEW u \in Users PROVE UserBacked(u, record, quota, expired)
    <2>0. record \in Table
      BY <1>1 DEF IInv, TypeOK, Table
    <2>1. \A t \in Topups : Held(u, record)[t] = 0
      <3>1. \A t \in Topups : record[t].state = "none"
        BY DEF Init, NoRecord
      <3>. QED BY <2>0, <3>1, HeldType
    <2>2. DOMAIN Held(u, record) = Topups
      BY DEF Held
    <2>3. SumFunction(Held(u, record)) = 0
      BY <2>1, <2>2, SumZero, FiniteAssumption
    <2>. QED BY <2>3, InitialQuotaAssumption DEF Init, UserBacked
  <1>. QED BY <1>1, <1>2, <1>3, <1>4 DEF BackedInv

\* Where every credit brings its record with it, as Redeem does, a user from
\* whom expiry has taken nothing has at least what his records promise: the
\* sweep that expires them later cannot take what was already spent.
THEOREM PromisesBacked == Spec => RecordsBacked
  <1>. DEFINE NoneCredited == \A t \in Topups : record[t].state # "credited"
              Promise == \A u \in Users : expired[u] = 0 => Outstanding(u) <= quota[u]
  <1>1. BackedInv /\ [Next]_vars /\ NoneCredited /\ NoneCredited' => BackedInv'
    <2>. SUFFICES ASSUME BackedInv, [Next]_vars, NoneCredited, NoneCredited'
                  PROVE  BackedInv'
      OBVIOUS
    <2>1. IInv'
      BY NextIInv DEF BackedInv
    <2>2. CASE UNCHANGED vars
      BY <2>1, <2>2 DEF vars, BackedInv, SweepTakes
    <2>3. ASSUME NEW t \in Topups PROVE ~Credit(t) /\ ~InsertRecord(t)
      <3>1. ~InsertRecord(t)
        BY DEF InsertRecord
      <3>2. ASSUME Credit(t) PROVE FALSE
        <4>1. record'[t].state = "credited"
          BY <3>2, BackedFacts DEF Credit, Table, Record
        <4>. QED BY <4>1
      <3>. QED BY <3>1, <3>2
    <2>. HIDE DEF NoneCredited
    <2>4. CASE Next
      BY <2>1, <2>3, <2>4, LeaveBacked, ReadBacked, LockRowBacked, DrawBacked, CommitBacked,
         RedeemBacked, SweepCommitBacked, SweepBacked DEF Next, CallStep
    <2>. QED BY <2>2, <2>4
  <1>2. BackedInv => Promise
    BY DEF BackedInv, UserBacked, Outstanding
  <1>3. RecordsBacked <=> ([]NoneCredited => []Promise)
    BY Zenon DEF RecordsBacked
  <1>. HIDE DEF NoneCredited, Promise
  <1>. QED BY <1>1, <1>2, <1>3, InitBacked, PTL DEF Spec
=============================================================================
