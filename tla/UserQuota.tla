----------------------------- MODULE UserQuota ------------------------------
(***************************************************************************)
(* The quota of the users: the users.quota and users.version columns, the  *)
(* recharge_records table, and every transaction of model/user.go and      *)
(* model/redemption.go that moves quota with an SQL expression.            *)
(*                                                                         *)
(*   decreaseUserQuota   Begin, Read, LockRow, Draw, Commit, DbError       *)
(*   increaseUserQuota   Credit                                            *)
(*   IncreaseRechargeQuota  InsertRecord                                   *)
(*   Redeem (the credit)    RedeemCredit                                   *)
(*   UpdateUserQuotaData    SweepRead, SweepDeduct, SweepCommit, SweepError*)
(*                                                                         *)
(* A transaction is a sequence of steps.  A plain SELECT takes no lock; an *)
(* UPDATE takes the row lock and holds it to the end of the transaction,   *)
(* and what it wrote is seen by others only after the commit.  "lock" is   *)
(* the lock of the users rows; every writer of a recharge record updates   *)
(* the row of its user first, so that lock also orders the record writes.  *)
(***************************************************************************)
EXTENDS Integers, FiniteSets, Functions

CONSTANTS
    Users,          \* rows of the users table
    Requests,       \* calls of decreaseUserQuota
    Topups,         \* credits; a credit has at most one recharge record
    Sizes,          \* the amounts credited and debited
    EndDates,       \* the end_date values of recharge records; -1 never ends
    Paths,          \* how credits arrive: {"epay"}, {"redeem"} or both
    InitialQuota,   \* quota of every user at the start
    MaxTime,        \* bound on the clock that expires records
    SnapshotReads,  \* TRUE: a transaction reads from the snapshot its first
                    \*   read took (MySQL, SQLite); FALSE: read committed
    NoOne, Sweeper  \* lock holders that are not requests

ASSUME SizesAssumption == Sizes \subseteq Nat
ASSUME EndDatesAssumption == EndDates \subseteq Nat \cup {-1}
ASSUME InitialQuotaAssumption == InitialQuota \in Nat
ASSUME MaxTimeAssumption == MaxTime \in Nat
ASSUME FiniteAssumption == IsFiniteSet(Requests) /\ IsFiniteSet(Topups)
ASSUME NonEmptyAssumption == Users # {} /\ Sizes # {} /\ EndDates # {}
ASSUME HoldersAssumption ==
    /\ NoOne \notin Requests
    /\ Sweeper \notin Requests
    /\ NoOne # Sweeper

MaxRetries == 2

VARIABLES
    quota, version,   \* users.quota and users.version, as committed
    lock,             \* the holder of the lock of each users row
    record,           \* recharge_records, as committed, one slot per credit
    now,              \* the wall clock, in units of the end dates
    clock,            \* the last UnixNano used as a version
    call,             \* the running decreaseUserQuota calls
    sweep,            \* the transaction of UpdateUserQuotaData
    expired           \* history: what expiry has deducted from each user

vars == <<quota, version, lock, record, now, clock, call, sweep, expired>>

\* A credit slot: "none" not yet used, "credited" quota added and no record
\* (yet), "live" a row of recharge_records, "gone" a deleted row.
Record == [state : {"none", "credited", "live", "gone"},
           user : Users, size : Nat, amount : Nat, end : EndDates, version : Nat]

\* pc "have" is between the user read and the UPDATE of the users row; "draw"
\* is inside the loop over the records, with the row lock held.
Call == [pc : {"idle", "read", "have", "draw", "ok", "insufficient", "exhausted", "error"},
         user : Users, need : Sizes, tries : 0..MaxRetries,
         quota : Int, version : Nat,       \* the user as read
         seen : [Topups -> Record],        \* the records as read, then as rewritten
         todo : SUBSET Topups, drawn : SUBSET Topups,
         due : Nat]                        \* remainingDecrease

Sweep == [pc : {"idle", "deduct"},
          todo : SUBSET Topups, done : SUBSET Topups,
          seen : [Topups -> Nat],          \* the amounts as read
          taken : [Users -> Nat]]          \* deducted, not yet committed

TypeOK ==
    /\ quota \in [Users -> Int]
    /\ version \in [Users -> Nat]
    /\ lock \in [Users -> Requests \cup {NoOne, Sweeper}]
    /\ record \in [Topups -> Record]
    /\ now \in 0..MaxTime
    /\ clock \in Nat
    /\ call \in [Requests -> Call]
    /\ sweep \in Sweep
    /\ expired \in [Users -> Nat]

NoRecord == [state |-> "none", user |-> CHOOSE u \in Users : TRUE, size |-> 0,
             amount |-> 0, end |-> CHOOSE e \in EndDates : TRUE, version |-> 0]

NoCall == [pc |-> "idle", user |-> CHOOSE u \in Users : TRUE,
           need |-> CHOOSE q \in Sizes : TRUE, tries |-> 0, quota |-> 0, version |-> 0,
           seen |-> [t \in Topups |-> NoRecord], todo |-> {}, drawn |-> {}, due |-> 0]

NoSweep == [pc |-> "idle", todo |-> {}, done |-> {},
            seen |-> [t \in Topups |-> 0], taken |-> [u \in Users |-> 0]]

Init ==
    /\ quota = [u \in Users |-> InitialQuota]
    /\ version = [u \in Users |-> 0]
    /\ lock = [u \in Users |-> NoOne]
    /\ record = [t \in Topups |-> NoRecord]
    /\ now = 0
    /\ clock = 0
    /\ call = [c \in Requests |-> NoCall]
    /\ sweep = NoSweep
    /\ expired = [u \in Users |-> 0]

rows == <<quota, version, lock, record, expired>>
-----------------------------------------------------------------------------
(* decreaseUserQuota                                                       *)

\* Mutant of Spendable: a record is drawn only when it holds enough by itself.
SpendableLarge(rs, u) ==
    {t \in Topups : rs[t].state = "live" /\ rs[t].user = u /\ rs[t].amount > 1}

\* The rows the SELECT of step 4 finds for user u in the table rs.
Spendable(rs, u) ==
    {t \in Topups : rs[t].state = "live" /\ rs[t].user = u /\ rs[t].amount > 0}

Begin(c) ==
    /\ call[c].pc = "idle"
    /\ \E u \in Users, q \in Sizes :
          call' = [call EXCEPT ![c] = [@ EXCEPT !.pc = "read", !.user = u, !.need = q]]
    /\ UNCHANGED <<rows, now, clock, sweep>>

\* The call k with the locals of its transaction dropped: it returns or retries.
Left(k, pc) == [NoCall EXCEPT !.pc = pc, !.user = k.user, !.need = k.need]

\* What a mismatch leads to: the transaction is rolled back and the loop
\* tries again, at most MaxRetries times.
Retried(k) ==
    IF k.tries + 1 < MaxRetries THEN [Left(k, "read") EXCEPT !.tries = k.tries + 1]
    ELSE Left(k, "exhausted")

\* Mutant of Sufficient: the check of step 2 is missing.
NotChecked(k) == TRUE

\* Step 2, on the total quota as it was read.
Sufficient(k) == quota[k.user] >= k.need

\* Steps 1 and 2: a plain SELECT, then the check.
Read(c) ==
    LET k == call[c]
    IN /\ k.pc = "read"
       /\ \/ /\ ~Sufficient(k)
             /\ call' = [call EXCEPT ![c] = Left(k, "insufficient")]
          \/ /\ Sufficient(k)
             /\ call' = [call EXCEPT ![c] = [k EXCEPT
                   !.pc = "have", !.quota = quota[k.user], !.version = version[k.user],
                   !.seen = IF SnapshotReads THEN record ELSE @]]
       /\ UNCHANGED <<rows, now, clock, sweep>>

\* Mutant of SameVersion: UPDATE ... WHERE id = ?
AnyVersion(k) == TRUE

\* UPDATE ... WHERE id = ? AND version = ?
SameVersion(k) == version[k.user] = k.version

\* Step 3, the conditional UPDATE.  It waits for the row lock; when no row has
\* the version that was read it changes nothing.  Step 4 then reads the records.
LockRow(c) ==
    LET k == call[c]
        seen == IF SnapshotReads THEN k.seen ELSE record
    IN /\ k.pc = "have"
       /\ lock[k.user] = NoOne
       /\ \/ /\ ~SameVersion(k)
             /\ call' = [call EXCEPT ![c] = Retried(k)]
             /\ UNCHANGED lock
          \/ /\ SameVersion(k)
             /\ lock' = [lock EXCEPT ![k.user] = c]
             /\ call' = [call EXCEPT ![c] = [k EXCEPT
                   !.pc = "draw", !.seen = seen, !.drawn = {},
                   !.todo = Spendable(seen, k.user), !.due = k.need]]
       /\ UNCHANGED <<quota, version, record, expired, now, clock, sweep>>

\* newAmount and remainingDecrease after a record that holds "have".
NewAmount(have, due) == IF have <= due THEN 0 ELSE have - due
Remaining(have, due) == IF have <= due THEN due - have ELSE 0

\* Step 5, one iteration: the record that ends first (-1 sorts first) gives
\* what it has, under a version check of its own; a mismatch rolls back.
Draw(c) ==
    LET k == call[c]
    IN /\ k.pc = "draw"
       /\ \E t \in k.todo :
          LET have == k.seen[t].amount
              found == record[t].state = "live" /\ record[t].version = k.seen[t].version
          IN /\ \A s \in k.todo : k.seen[t].end <= k.seen[s].end
             /\ \/ /\ found
                   /\ call' = [call EXCEPT ![c] = [k EXCEPT
                         !.due = Remaining(have, k.due),
                         !.seen = [@ EXCEPT ![t].amount = NewAmount(have, k.due)],
                         !.drawn = @ \cup {t},
                         !.todo = IF Remaining(have, k.due) = 0 THEN {} ELSE @ \ {t}]]
                   /\ UNCHANGED lock
                \/ /\ ~found
                   /\ call' = [call EXCEPT ![c] = Retried(k)]
                   /\ lock' = [lock EXCEPT ![k.user] = NoOne]
       /\ UNCHANGED <<quota, version, record, expired, now, clock, sweep>>

\* Mutant of Debited: the value computed from the read is written back.
DebitedFromRead(k) == k.quota - k.need

\* gorm.Expr("quota - ?"): from the row, not from the value that was read.
Debited(k) == quota[k.user] - k.need

\* The loop is over; what the records did not cover is only logged (step 6).
Commit(c) ==
    LET k == call[c]
    IN /\ k.pc = "draw"
       /\ k.todo = {}
       /\ clock' = clock + 1
       /\ quota' = [quota EXCEPT ![k.user] = Debited(k)]
       /\ version' = [version EXCEPT ![k.user] = clock + 1]
       /\ record' = [t \in Topups |->
             IF t \in k.drawn
             THEN [record[t] EXCEPT !.amount = k.seen[t].amount, !.version = clock + 1]
             ELSE record[t]]
       /\ lock' = [lock EXCEPT ![k.user] = NoOne]
       /\ call' = [call EXCEPT ![c] = Left(k, "ok")]
       /\ UNCHANGED <<expired, now, sweep>>

\* Any statement may fail with an error that is not a mismatch: the
\* transaction is rolled back and the call returns the error at once.
DbError(c) ==
    LET u == call[c].user
    IN /\ call[c].pc \in {"read", "have", "draw"}
       /\ call' = [call EXCEPT ![c] = Left(@, "error")]
       /\ lock' = IF lock[u] = c THEN [lock EXCEPT ![u] = NoOne] ELSE lock
       /\ UNCHANGED <<quota, version, record, expired, now, clock, sweep>>
-----------------------------------------------------------------------------
(* Credits                                                                 *)

\* increaseUserQuota: quota + n in one statement, the version is left alone.
Credit(t) ==
    /\ "epay" \in Paths
    /\ record[t].state = "none"
    /\ \E u \in Users, n \in Sizes :
          /\ lock[u] = NoOne
          /\ quota' = [quota EXCEPT ![u] = @ + n]
          /\ record' = [record EXCEPT
                ![t] = [@ EXCEPT !.state = "credited", !.user = u, !.size = n]]
    /\ UNCHANGED <<version, lock, expired, now, clock, call, sweep>>

\* IncreaseRechargeQuota: a transaction of its own, after the credit.
InsertRecord(t) ==
    /\ record[t].state = "credited"
    /\ \E e \in EndDates :
          /\ e = -1 \/ e >= now
          /\ record' = [record EXCEPT
                ![t] = [@ EXCEPT !.state = "live", !.amount = record[t].size, !.end = e]]
    /\ UNCHANGED <<quota, version, lock, expired, now, clock, call, sweep>>

\* Redeem credits the quota and inserts the record in one transaction.
RedeemCredit(t) ==
    /\ "redeem" \in Paths
    /\ record[t].state = "none"
    /\ \E u \in Users, n \in Sizes, e \in EndDates :
          /\ e = -1 \/ e >= now
          /\ lock[u] = NoOne
          /\ quota' = [quota EXCEPT ![u] = @ + n]
          /\ record' = [record EXCEPT ![t] = [state |-> "live", user |-> u, size |-> n,
                                              amount |-> n, end |-> e, version |-> 0]]
    /\ UNCHANGED <<version, lock, expired, now, clock, call, sweep>>
-----------------------------------------------------------------------------
(* UpdateUserQuotaData, the hourly expiry                                  *)

Overdue(t) == /\ record[t].state = "live"
              /\ record[t].amount > 0
              /\ record[t].end # -1
              /\ record[t].end <= now

\* The pre-count, then the SELECT of the overdue records: no lock is taken.
SweepRead ==
    /\ sweep.pc = "idle"
    /\ \E t \in Topups : Overdue(t)
    /\ sweep' = [NoSweep EXCEPT !.pc = "deduct", !.todo = {t \in Topups : Overdue(t)},
                                !.seen = [t \in Topups |-> record[t].amount]]
    /\ UNCHANGED <<rows, now, clock, call>>

\* One record: quota - amount as read, no version check, then amount = 0.
SweepDeduct ==
    /\ sweep.pc = "deduct"
    /\ \E t \in sweep.todo :
          LET u == record[t].user
          IN /\ lock[u] \in {NoOne, Sweeper}
             /\ lock' = [lock EXCEPT ![u] = Sweeper]
             /\ sweep' = [sweep EXCEPT !.todo = @ \ {t}, !.done = @ \cup {t},
                                       !.taken[u] = @ + sweep.seen[t]]
    /\ UNCHANGED <<quota, version, record, expired, now, clock, call>>

\* Mutant of Unlocked: an early return leaves the transaction open.
StillLocked == lock

\* The row locks after the transaction of the sweep ended.
Unlocked == [u \in Users |-> IF lock[u] = Sweeper THEN NoOne ELSE lock[u]]

\* DELETE of every record whose amount is 0, then the commit.
SweepCommit ==
    /\ sweep.pc = "deduct"
    /\ sweep.todo = {}
    /\ quota' = [u \in Users |-> quota[u] - sweep.taken[u]]
    /\ expired' = [u \in Users |-> expired[u] + sweep.taken[u]]
    /\ record' = [t \in Topups |->
          IF t \in sweep.done \/ (record[t].state = "live" /\ record[t].amount = 0)
          THEN [record[t] EXCEPT !.state = "gone", !.amount = 0]
          ELSE record[t]]
    /\ lock' = Unlocked
    /\ sweep' = NoSweep
    /\ UNCHANGED <<version, now, clock, call>>

SweepError ==
    /\ sweep.pc = "deduct"
    /\ lock' = Unlocked
    /\ sweep' = NoSweep
    /\ UNCHANGED <<quota, version, record, expired, now, clock, call>>

Tick ==
    /\ now < MaxTime
    /\ now' = now + 1
    /\ UNCHANGED <<rows, clock, call, sweep>>
-----------------------------------------------------------------------------
CallStep(c) == Read(c) \/ LockRow(c) \/ Draw(c) \/ Commit(c)

Next ==
    \/ \E c \in Requests : Begin(c) \/ CallStep(c) \/ DbError(c)
    \/ \E t \in Topups : Credit(t) \/ InsertRecord(t) \/ RedeemCredit(t)
    \/ SweepRead \/ SweepDeduct \/ SweepCommit \/ SweepError
    \/ Tick

Spec == Init /\ [][Next]_vars

\* The goroutine of a request runs its loop and the ticker goroutine runs its
\* transaction: neither waits for anything but a row lock, and the database
\* serves the waiters of a row lock in turn (strong fairness of a call).
FairSpec == Spec /\ \A c \in Requests : SF_vars(CallStep(c))
                 /\ WF_vars(SweepRead) /\ WF_vars(SweepDeduct) /\ WF_vars(SweepCommit)
-----------------------------------------------------------------------------
(* Properties                                                              *)

\* A debit that passes the check of the total quota (step 2) and the version
\* check (step 3) never takes more than the user had, whatever debits and
\* credits ran in between: the account goes below zero by no more than what
\* expiry, which leaves the version alone, took out of it.
OverdraftBoundedByExpiry == \A u \in Users : quota[u] + expired[u] >= 0

\* No credit and no debit is lost, doubled or left half done by a retry, a
\* rollback or an error: the quota is the credits, minus the needs of exactly
\* the calls that returned nil, minus what expiry deducted.
Credits(u) ==
    SumFunction([t \in Topups |-> IF record[t].user = u THEN record[t].size ELSE 0])
Debits(u) ==
    SumFunction([c \in Requests |->
                    IF call[c].pc = "ok" /\ call[c].user = u THEN call[c].need ELSE 0])
LedgerExact ==
    \A u \in Users : quota[u] = InitialQuota - expired[u] + Credits(u) - Debits(u)

\* Until the sweep has taken something, what the recharge records of a user
\* still promise is in the quota: the sweep that expires them later cannot take
\* what was already spent.  It needs the quota and the record of every credit to
\* appear together, as they do in Redeem and do not after a payment.
Held(u, rs) ==
    [t \in Topups |-> IF rs[t].state = "live" /\ rs[t].user = u THEN rs[t].amount ELSE 0]
Outstanding(u) == SumFunction(Held(u, record))
RecordsBacked ==
    [](\A t \in Topups : record[t].state # "credited")
        => [](\A u \in Users : expired[u] = 0 => Outstanding(u) <= quota[u])

\* Expiry deducts from a user what his deleted records still held, no more.
\* "amount 0 means already deducted from the user's balance": what a debit had
\* drawn from the record was deducted by that debit.
ExpiryTakesWhatIsLeft ==
    [][\A u \in Users : expired'[u] - expired[u] =
          SumFunction([t \in Topups |->
              IF /\ record[t].state = "live"
                 /\ record'[t].state = "gone"
                 /\ record[t].user = u
              THEN record[t].amount ELSE 0])]_<<expired, record>>

\* The account this ledger implements, and how a call looks from outside.
Phase(pc) == CASE pc = "idle" -> "idle"
               [] pc \in {"read", "have", "draw"} -> "running"
               [] pc = "ok" -> "ok"
               [] OTHER -> "failed"
DebitView == [c \in Requests |->
                 [phase |-> Phase(call[c].pc), user |-> call[c].user, need |-> call[c].need]]
Account == INSTANCE QuotaAccount WITH
    balance <- quota, forfeited <- expired, debit <- DebitView

\* decreaseUserQuota and the expiry sweep, with their retries and rollbacks,
\* implement QuotaAccount.
ImplementsAccount == Account!Spec

\* Every call of decreaseUserQuota returns: the retries are bounded and every
\* path of every transaction gives the row lock back.
CallsReturn ==
    \A c \in Requests :
        call[c].pc = "read" ~> call[c].pc \in {"ok", "insufficient", "exhausted", "error"}
=============================================================================
