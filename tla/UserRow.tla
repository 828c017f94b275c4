------------------------------ MODULE UserRow -------------------------------
(***************************************************************************)
(* One row of the users table, and those who read all of it and write it   *)
(* back later:                                                             *)
(*                                                                         *)
(*   TransferAffQuotaToQuota, AffQuotaToQuota, inviteUser, inviteUserVip,  *)
(*   Update                           Read, Save                           *)
(*   UpdateWithdrawalOrderStatusEndpoint, RevertQuotaForRejectedOrder      *)
(*                                    Order, ReadUser, Refund, SetStatus   *)
(*                                                                         *)
(* (model/user.go, model/withdrawalorder.go), beside those who write by    *)
(* expressions over the row (UserQuota has their details):                 *)
(*                                                                         *)
(*   decreaseUserQuota                Begin, Check, Debit                  *)
(*   increaseUserQuota                Credit                               *)
(*                                                                         *)
(* tx.Set("gorm:query_option", "FOR UPDATE") takes no lock in gorm v2      *)
(* (go.mod: v1.25), so Read and ReadUser are plain reads.                  *)
(***************************************************************************)
EXTENDS Integers, FiniteSets, Functions

CONSTANTS
    Debits, Credits,   \* calls of decreaseUserQuota and increaseUserQuota
    Writers,           \* the handlers that read and save the row
    Admins,            \* requests that set the status of a withdrawal
    Amounts,
    InitialQuota, InitialAff,
    MiniQuota          \* least amount of a transfer or a withdrawal

ASSUME AmountsAssumption == Amounts \subseteq Nat /\ Amounts # {} /\ MiniQuota \in Nat
ASSUME FiniteAssumption == IsFiniteSet(Debits) /\ IsFiniteSet(Credits) /\ IsFiniteSet(Writers)
ASSUME InitialAssumption == InitialQuota \in Nat /\ InitialAff \in Nat

MaxRetries == 2

VARIABLES
    row,
    clock,      \* the last value of time.Now() that was used as a version
    debit,
    credit,     \* the amount, -1 before the call
    writer,
    order,      \* the withdrawal order that a writer of that kind created
    admin,
    overwrote   \* history: some save wrote over a change made since its read

vars == <<row, clock, debit, credit, writer, order, admin, overwrote>>

Row == [quota : Int, aff : Int, history : Int, version : Nat]

DebitCall == [pc : {"idle", "check", "debit", "ok", "short", "failed", "error"},
              amount : Amounts, tries : 0..(MaxRetries - 1), version : Nat]

Kinds == {"transfer", "withdraw", "invite", "profile"}
Writer == [pc : {"idle", "save", "done", "refused", "error"},
           kind : Kinds, amount : Amounts, seen : Row]

Statuses == {"none", "pending", "approved", "rejected"}
Withdrawal == [status : Statuses, amount : Amounts,
               refunds : Nat]     \* history: how often it was paid back

Admin == [pc : {"idle", "user", "refund", "status", "done", "error"},
          order : Writers, asked : {"approved", "rejected"},
          status : Statuses, seen : Row]    \* the order and the user as read

TypeOK ==
    /\ row \in Row
    /\ clock \in Nat
    /\ debit \in [Debits -> DebitCall]
    /\ credit \in [Credits -> Amounts \cup {-1}]
    /\ writer \in [Writers -> Writer]
    /\ order \in [Writers -> Withdrawal]
    /\ admin \in [Admins -> Admin]
    /\ overwrote \in BOOLEAN

FirstRow == [quota |-> InitialQuota, aff |-> InitialAff, history |-> InitialAff, version |-> 0]
SomeAmount == CHOOSE n \in Amounts : TRUE

Init ==
    /\ row = FirstRow
    /\ clock = 0
    /\ debit = [d \in Debits |-> [pc |-> "idle", amount |-> SomeAmount, tries |-> 0, version |-> 0]]
    /\ credit = [c \in Credits |-> -1]
    /\ writer = [w \in Writers |-> [pc |-> "idle", kind |-> "profile", amount |-> SomeAmount,
                                    seen |-> FirstRow]]
    /\ order = [w \in Writers |-> [status |-> "none", amount |-> SomeAmount, refunds |-> 0]]
    /\ admin \in [Admins -> [pc : {"idle"}, order : Writers, asked : {"approved", "rejected"},
                             status : {"none"}, seen : {FirstRow}]]
    /\ overwrote = FALSE
-----------------------------------------------------------------------------
(* Expressions over the row                                                *)

Begin(d) ==
    /\ debit[d].pc = "idle"
    /\ \E n \in Amounts : debit' = [debit EXCEPT ![d] = [@ EXCEPT !.pc = "check", !.amount = n]]
    /\ UNCHANGED <<row, clock, credit, writer, order, admin, overwrote>>

\* Mutant of Sufficient: the balance is not looked at.
AnyBalance(n) == TRUE

Sufficient(n) == row.quota >= n

Check(d) ==
    /\ debit[d].pc = "check"
    /\ debit' = [debit EXCEPT ![d] =
          IF Sufficient(debit[d].amount) THEN [@ EXCEPT !.pc = "debit", !.version = row.version]
          ELSE [@ EXCEPT !.pc = "short"]]
    /\ UNCHANGED <<row, clock, credit, writer, order, admin, overwrote>>

\* The loop of maxRetries is over after so many tries and one more.
GivesUp(tries) == tries + 1 >= MaxRetries

\* UPDATE users SET quota = quota - ?, version = now WHERE id = ? AND version = ?
Debit(d) ==
    LET k == debit[d]
    IN /\ k.pc = "debit"
       /\ \/ /\ row.version = k.version
             /\ clock' = clock + 1
             /\ row' = [row EXCEPT !.quota = @ - k.amount, !.version = clock + 1]
             /\ debit' = [debit EXCEPT ![d].pc = "ok"]
          \/ /\ row.version # k.version
             /\ debit' = [debit EXCEPT ![d] =
                   IF GivesUp(k.tries) THEN [k EXCEPT !.pc = "failed"]
                   ELSE [k EXCEPT !.pc = "check", !.tries = k.tries + 1]]
             /\ UNCHANGED <<row, clock>>
          \/ /\ debit' = [debit EXCEPT ![d].pc = "error"]
             /\ UNCHANGED <<row, clock>>
       /\ UNCHANGED <<credit, writer, order, admin, overwrote>>

Credit(c) ==
    /\ credit[c] = -1
    /\ \E n \in Amounts :
          /\ credit' = [credit EXCEPT ![c] = n]
          /\ row' = [row EXCEPT !.quota = @ + n]
    /\ UNCHANGED <<clock, debit, writer, order, admin, overwrote>>
-----------------------------------------------------------------------------
(* Whole rows                                                              *)

\* Mutants: the check of the balance of the inviter is missing; the transferred
\* amount is not taken from it.
AllowedAlways(kind, seen, n) == TRUE
ChangedTwice(kind, seen, n) ==
    CASE kind = "transfer" -> [seen EXCEPT !.quota = @ + n]
      [] kind = "withdraw" -> [seen EXCEPT !.aff = @ - n]
      [] kind = "invite" -> [seen EXCEPT !.aff = @ + n, !.history = @ + n]
      [] OTHER -> seen

Allowed(kind, seen, n) == kind \in {"transfer", "withdraw"} => seen.aff >= n /\ n >= MiniQuota

\* The fields that the handler assigns before it saves.
Changed(kind, seen, n) ==
    CASE kind = "transfer" -> [seen EXCEPT !.aff = @ - n, !.quota = @ + n]
      [] kind = "withdraw" -> [seen EXCEPT !.aff = @ - n]
      [] kind = "invite" -> [seen EXCEPT !.aff = @ + n, !.history = @ + n]
      [] OTHER -> seen

\* Updates(struct) leaves out the zero fields; Save writes every column.
Over(new, old) == IF new = 0 THEN old ELSE new
NonZero(new) == [quota |-> Over(new.quota, row.quota), aff |-> Over(new.aff, row.aff),
                 history |-> Over(new.history, row.history),
                 version |-> Over(new.version, row.version)]
Written(kind, new) == IF kind = "profile" THEN NonZero(new) ELSE new

\* inviteUser(Vip) credit the inviter of somebody who registers or tops up;
\* "profile" is a login, a new access token, a bound email and the like.
Read(w) ==
    /\ writer[w].pc = "idle"
    /\ \E kind \in Kinds, n \in Amounts :
          writer' = [writer EXCEPT ![w] =
              [pc |-> IF Allowed(kind, row, n) THEN "save" ELSE "refused",
               kind |-> kind, amount |-> n, seen |-> row]]
    /\ UNCHANGED <<row, clock, debit, credit, order, admin, overwrote>>

\* AffQuotaToQuota creates the order in the transaction of the save.
Save(w) ==
    LET k == writer[w]
    IN /\ k.pc = "save"
       /\ \/ /\ row' = Written(k.kind, Changed(k.kind, k.seen, k.amount))
             /\ overwrote' = (overwrote \/ Written(k.kind, k.seen) # row)
             /\ order' = IF k.kind = "withdraw"
                         THEN [order EXCEPT ![w] = [@ EXCEPT !.status = "pending", !.amount = k.amount]]
                         ELSE order
             /\ writer' = [writer EXCEPT ![w].pc = "done"]
          \/ /\ writer' = [writer EXCEPT ![w].pc = "error"]
             /\ UNCHANGED <<row, overwrote, order>>
       /\ UNCHANGED <<clock, debit, credit, admin>>
-----------------------------------------------------------------------------
(* Withdrawal orders: the endpoint looks at no status                      *)

Order(a) ==
    LET k == admin[a]
    IN /\ k.pc = "idle"
       /\ order[k.order].status # "none"
       /\ admin' = [admin EXCEPT ![a] = [k EXCEPT
             !.pc = IF k.asked = "rejected" THEN "user" ELSE "status",
             !.status = order[k.order].status]]
       /\ UNCHANGED <<row, clock, debit, credit, writer, order, overwrote>>

ReadUser(a) ==
    /\ admin[a].pc = "user"
    /\ admin' = [admin EXCEPT ![a] = [@ EXCEPT !.pc = "refund", !.seen = row]]
    /\ UNCHANGED <<row, clock, debit, credit, writer, order, overwrote>>

\* The user and the order are saved as they were read, but for the refund.
Refund(a) ==
    LET k == admin[a]
        o == order[k.order]
    IN /\ k.pc = "refund"
       /\ \/ /\ row' = [k.seen EXCEPT !.aff = @ + o.amount]
             /\ overwrote' = (overwrote \/ k.seen # row)
             /\ order' = [order EXCEPT ![k.order] =
                   [o EXCEPT !.status = k.status, !.refunds = o.refunds + 1]]
             /\ admin' = [admin EXCEPT ![a].pc = "status"]
          \/ /\ admin' = [admin EXCEPT ![a].pc = "error"]
             /\ UNCHANGED <<row, overwrote, order>>
       /\ UNCHANGED <<clock, debit, credit, writer>>

SetStatus(a) ==
    LET k == admin[a]
    IN /\ k.pc = "status"
       /\ \/ /\ order' = [order EXCEPT ![k.order] = [@ EXCEPT !.status = k.asked]]
             /\ admin' = [admin EXCEPT ![a].pc = "done"]
          \/ /\ admin' = [admin EXCEPT ![a].pc = "error"]
             /\ UNCHANGED order
       /\ UNCHANGED <<row, clock, debit, credit, writer, overwrote>>
-----------------------------------------------------------------------------
Next ==
    \/ \E d \in Debits : Begin(d) \/ Check(d) \/ Debit(d)
    \/ \E c \in Credits : Credit(c)
    \/ \E w \in Writers : Read(w) \/ Save(w)
    \/ \E a \in Admins : Order(a) \/ ReadUser(a) \/ Refund(a) \/ SetStatus(a)

Spec == Init /\ [][Next]_vars
-----------------------------------------------------------------------------
(* Properties                                                              *)

\* However the handlers overlap, the quota earned by invitations is not spent
\* below zero: what a save takes, it takes from the amount it writes back.
AffNeverNegative == row.aff >= 0

DoneOf(kinds) ==
    SumFunction([w \in Writers |->
        IF writer[w].pc = "done" /\ writer[w].kind \in kinds THEN writer[w].amount ELSE 0])
Refunded == SumFunction([w \in Writers |-> order[w].refunds * order[w].amount])
Debited == SumFunction([d \in Debits |-> IF debit[d].pc = "ok" THEN debit[d].amount ELSE 0])
Credited == SumFunction([c \in Credits |-> IF credit[c] = -1 THEN 0 ELSE credit[c]])

Books ==
    /\ row.quota = InitialQuota + Credited + DoneOf({"transfer"}) - Debited
    /\ row.aff = InitialAff + DoneOf({"invite"}) + Refunded - DoneOf({"transfer", "withdraw"})

\* An amount is lost or made only by a save that writes over a change made
\* since its read; failures, refusals, retries and refunds keep the books.
BooksKeptUnlessOverwritten == ~overwrote => Books

\* The optimistic debit overdraws a user only when a save put an old row, with
\* its version, under the debit.
OverdraftNeedsOverwrite == row.quota < 0 => overwrote

\* "use the optimistic lock to update the user's quota" (decreaseUserQuota),
\* after "check whether the user's total quota is sufficient": no debit takes
\* more than there is.
NoOverdraft == row.quota >= 0
=============================================================================
