------------------------------ MODULE TokenRow ------------------------------
(***************************************************************************)
(* One row of the tokens table and everybody who writes it:                *)
(*                                                                         *)
(*   decreaseTokenQuota  DebitBegin, DebitRead, DebitUpdate, DebitError    *)
(*   increaseTokenQuota  Credit                                            *)
(*   ValidateUserToken   Find, FindMiss, Store, Judge, Stamp, Mark         *)
(*   UpdateToken         EditRead, EditWrite                               *)
(*                                                                         *)
(* (model/token.go, model/cache.go, controller/token.go).  The debit is    *)
(* optimistic: it reads the version and writes on condition that it is     *)
(* still there.  All the others write the row unconditionally and leave    *)
(* the version alone.  The token has a limited quota.                      *)
(***************************************************************************)
EXTENDS Integers, FiniteSets, Functions

CONSTANTS
    Debits, Credits, Edits, Uses,  \* the calls of each kind
    Amounts,         \* of debits and credits, and typed into the edit form
    InitialRemain,
    MaxTime,         \* bound on the clock
    Modes,           \* values of expiry_mode, at the creation and in the form
    Expiries,        \* values of expired_time there; -1 is never
    Duration,        \* of a token in the first_use mode
    FirstEntry,      \* NoEntry with Redis, NoRedis without
    NoEntry, NoRedis

ASSUME AmountsAssumption == Amounts \subseteq Nat /\ Amounts # {} /\ InitialRemain \in Nat
ASSUME FiniteAssumption == IsFiniteSet(Debits) /\ IsFiniteSet(Credits)
ASSUME TimeAssumption == MaxTime \in Nat /\ Duration \in Nat \ {0}
ASSUME FormAssumption == Modes \subseteq {"fixed", "first_use"} /\ Expiries \subseteq Nat \cup {-1}
ASSUME RedisAssumption == FirstEntry \subseteq {NoEntry, NoRedis} /\ NoEntry # NoRedis

MaxRetries == 2

VARIABLES
    row,       \* the committed row
    entry,     \* the Redis key token:<key>, a copy of the row, NoEntry or NoRedis
    now,       \* the wall clock
    debit,     \* calls of decreaseTokenQuota
    credit,    \* calls of increaseTokenQuota: the amount, -1 before the call
    use,       \* calls of ValidateUserToken
    edit       \* calls of UpdateToken

vars == <<row, entry, now, debit, credit, use, edit>>

Row == [remain : Int, used : Int, version : Nat,
        status : {"enabled", "disabled", "exhausted", "expired"},
        mode : {"fixed", "first_use"}, expires : Nat \cup {-1},
        first : Nat]                \* first_used_time, 0 when never used

Debit == [pc : {"idle", "read", "update", "ok", "failed", "error"},
          amount : Amounts, tries : 0..(MaxRetries - 1), version : Nat,
          conflicts : Nat]          \* history: other debits written since the call began

Use == [pc : {"idle", "store", "judge", "stamp", "mark", "valid", "refused"},
        seen : Row]

Edit == [pc : {"idle", "write", "done", "refused"}, seen : Row]

TypeOK ==
    /\ row \in Row
    /\ entry \in Row \cup {NoEntry, NoRedis}
    /\ now \in Nat
    /\ debit \in [Debits -> Debit]
    /\ credit \in [Credits -> Amounts \cup {-1}]
    /\ use \in [Uses -> Use]
    /\ edit \in [Edits -> Edit]

\* Creation and edit: a token that lives from its first use has no expired_time.
ExpiredTime(mode, x) == IF mode = "first_use" THEN -1 ELSE x

FirstRow(mode, x) ==
    [remain |-> InitialRemain, used |-> 0, version |-> 0, status |-> "enabled",
     mode |-> mode, expires |-> ExpiredTime(mode, x), first |-> 0]
SomeAmount == CHOOSE n \in Amounts : TRUE

Init ==
    /\ \E mode \in Modes, x \in Expiries : row = FirstRow(mode, x)
    /\ entry \in FirstEntry
    /\ now = 1
    /\ debit = [d \in Debits |-> [pc |-> "idle", amount |-> SomeAmount, tries |-> 0,
                                  version |-> 0, conflicts |-> 0]]
    /\ credit = [c \in Credits |-> -1]
    /\ use = [v \in Uses |-> [pc |-> "idle", seen |-> row]]
    /\ edit = [e \in Edits |-> [pc |-> "idle", seen |-> row]]
-----------------------------------------------------------------------------
(* Debits and credits                                                      *)

DebitBegin(d) ==
    /\ debit[d].pc = "idle"
    /\ \E n \in Amounts : debit' = [debit EXCEPT ![d] = [@ EXCEPT !.pc = "read", !.amount = n]]
    /\ UNCHANGED <<row, entry, now, credit, use, edit>>

DebitRead(d) ==
    /\ debit[d].pc = "read"
    /\ debit' = [debit EXCEPT ![d] = [@ EXCEPT !.pc = "update", !.version = row.version]]
    /\ UNCHANGED <<row, entry, now, credit, use, edit>>

\* Mutant of GivesUp: one try less.
GivesUpEarly(tries) == tries + 1 >= MaxRetries - 1

\* The loop of maxRetries is over after so many tries and one more.
GivesUp(tries) == tries + 1 >= MaxRetries

\* UPDATE ... WHERE id = ? AND version = ?
Unchanged(k) == row.version = k.version

\* Two expressions over the row, and the clock in milliseconds as new version.
Debited(n) == [row EXCEPT !.remain = @ - n, !.used = @ + n, !.version = now]

DebitUpdate(d) ==
    LET k == debit[d]
    IN /\ k.pc = "update"
       /\ \/ /\ Unchanged(k)
             /\ row' = Debited(k.amount)
             /\ debit' = [o \in Debits |->
                   IF o = d THEN [k EXCEPT !.pc = "ok"]
                   ELSE IF debit[o].pc \in {"read", "update"}
                        THEN [debit[o] EXCEPT !.conflicts = @ + 1] ELSE debit[o]]
          \/ /\ ~Unchanged(k)
             /\ debit' = [debit EXCEPT ![d] =
                   IF GivesUp(k.tries) THEN [k EXCEPT !.pc = "failed"]
                   ELSE [k EXCEPT !.pc = "read", !.tries = k.tries + 1]]
             /\ UNCHANGED row
       /\ UNCHANGED <<entry, now, credit, use, edit>>

DebitError(d) ==
    /\ debit[d].pc \in {"read", "update"}
    /\ debit' = [debit EXCEPT ![d] = [@ EXCEPT !.pc = "error"]]
    /\ UNCHANGED <<row, entry, now, credit, use, edit>>

Credit(c) ==
    /\ credit[c] = -1
    /\ \E n \in Amounts :
          /\ credit' = [credit EXCEPT ![c] = n]
          /\ row' = [row EXCEPT !.remain = @ + n, !.used = @ - n]
    /\ UNCHANGED <<entry, now, debit, use, edit>>
-----------------------------------------------------------------------------
(* ValidateUserToken                                                       *)

UseGoes(v, pc, seen) == use' = [use EXCEPT ![v] = [pc |-> pc, seen |-> seen]]

\* common.RedisEnabled
RedisEnabled == entry # NoRedis

\* CacheGetTokenByKey: from Redis, or from the table when Redis is off.
Find(v) ==
    /\ use[v].pc = "idle"
    /\ entry # NoEntry
    /\ UseGoes(v, "judge", IF RedisEnabled THEN entry ELSE row)
    /\ UNCHANGED <<row, entry, now, debit, credit, edit>>

FindMiss(v) ==
    /\ use[v].pc = "idle"
    /\ entry = NoEntry
    /\ UseGoes(v, "store", row)
    /\ UNCHANGED <<row, entry, now, debit, credit, edit>>

\* The SET that follows a miss: of the row as it was read.
Store(v) ==
    /\ use[v].pc = "store"
    /\ entry' = use[v].seen
    /\ UseGoes(v, "judge", use[v].seen)
    /\ UNCHANGED <<row, now, debit, credit, edit>>

FirstUse(s) == s.mode = "first_use" /\ s.first = 0

Expired(s) ==
    IF s.mode = "first_use" THEN s.first # 0 /\ now > s.first + Duration
    ELSE s.expires # -1 /\ s.expires < now

\* Only without Redis does a refusal mark the row.
Refuse(v, s, status) ==
    IF RedisEnabled THEN UseGoes(v, "refused", s) ELSE UseGoes(v, "mark", [s EXCEPT !.status = status])

CheckQuota(v, s) == IF s.remain > 0 THEN UseGoes(v, "valid", s) ELSE Refuse(v, s, "exhausted")

\* In the first_use mode nothing marks an expired token.
Judge(v) ==
    LET s == use[v].seen
    IN /\ use[v].pc = "judge"
       /\ \/ /\ s.status # "enabled"
             /\ UseGoes(v, "refused", s)
          \/ /\ s.status = "enabled" /\ FirstUse(s)
             /\ UseGoes(v, "stamp", s)
          \/ /\ s.status = "enabled" /\ Expired(s)
             /\ IF s.mode = "first_use" THEN UseGoes(v, "refused", s) ELSE Refuse(v, s, "expired")
          \/ /\ s.status = "enabled" /\ ~FirstUse(s) /\ ~Expired(s)
             /\ CheckQuota(v, s)
       /\ UNCHANGED <<row, entry, now, debit, credit, edit>>

\* UpdateFirstUsedTime, then the check of the quota; an error refuses.
Stamp(v) ==
    LET s == [use[v].seen EXCEPT !.first = now]
    IN /\ use[v].pc = "stamp"
       /\ \/ /\ row' = [row EXCEPT !.first = now]
             /\ CheckQuota(v, s)
          \/ /\ UseGoes(v, "refused", s)
             /\ UNCHANGED row
       /\ UNCHANGED <<entry, now, debit, credit, edit>>

\* Mutant of Marks: the whole row that was read is saved.
MarksRow(s) == s

\* SelectUpdate of the status alone.
Marks(s) == [row EXCEPT !.status = s.status]

Mark(v) ==
    /\ use[v].pc = "mark"
    /\ row' \in {Marks(use[v].seen), row}       \* an error is only logged
    /\ UseGoes(v, "refused", use[v].seen)
    /\ UNCHANGED <<entry, now, debit, credit, edit>>

EntryExpires ==
    /\ entry \notin {NoEntry, NoRedis}
    /\ entry' = NoEntry
    /\ UNCHANGED <<row, now, debit, credit, use, edit>>
-----------------------------------------------------------------------------
(* UpdateToken                                                             *)

\* A token without quota or expired is not enabled.
Enableable(s) ==
    /\ s.expires = -1 \/ s.expires > now
    /\ s.remain > 0

\* A full edit takes the fields of the form.
FormOf(s, n, mode, x) ==
    [s EXCEPT !.remain = n, !.mode = mode, !.expires = ExpiredTime(mode, x)]

Checked(e, s) ==
    edit' = [edit EXCEPT ![e] =
        [pc |-> IF s.status = "enabled" /\ ~Enableable(s) THEN "refused" ELSE "write",
         seen |-> s]]

\* A status edit, an edit of the billing strategy, and a full edit of the row.
EditRead(e) ==
    /\ edit[e].pc = "idle"
    /\ \/ \E status \in {"enabled", "disabled"} : Checked(e, [row EXCEPT !.status = status])
       \/ Checked(e, row)
       \/ \E n \in Amounts, mode \in Modes, x \in Expiries : Checked(e, FormOf(row, n, mode, x))
    /\ UNCHANGED <<row, entry, now, debit, credit, use>>

\* Update: it selects remain_quota, status and the expiry, whatever the kind of
\* the edit.
Saved(s) ==
    [row EXCEPT !.remain = s.remain, !.status = s.status, !.mode = s.mode, !.expires = s.expires]

EditWrite(e) ==
    /\ edit[e].pc = "write"
    /\ row' \in {row, Saved(edit[e].seen)}
    /\ edit' = [edit EXCEPT ![e] = [@ EXCEPT !.pc = "done"]]
    /\ UNCHANGED <<entry, now, debit, credit, use>>
-----------------------------------------------------------------------------
Tick ==
    /\ now < MaxTime
    /\ now' = now + 1
    /\ UNCHANGED <<row, entry, debit, credit, use, edit>>

DebitStep(d) == DebitRead(d) \/ DebitUpdate(d)
UseStep(v) == Find(v) \/ FindMiss(v) \/ Store(v) \/ Judge(v) \/ Stamp(v) \/ Mark(v)

Next ==
    \/ \E d \in Debits : DebitBegin(d) \/ DebitStep(d) \/ DebitError(d)
    \/ \E c \in Credits : Credit(c)
    \/ \E v \in Uses : UseStep(v)
    \/ \E e \in Edits : EditRead(e) \/ EditWrite(e)
    \/ EntryExpires
    \/ Tick

Spec == Init /\ [][Next]_vars
-----------------------------------------------------------------------------
(* Properties                                                              *)

\* used_quota counts every debit that returned nil once and every credit once,
\* whatever retries, conflicts, marks and edits of the row came between.
Spent == SumFunction([d \in Debits |-> IF debit[d].pc = "ok" THEN debit[d].amount ELSE 0])
Returned == SumFunction([c \in Credits |-> IF credit[c] = -1 THEN 0 ELSE credit[c]])
UsedExact == row.used = Spent - Returned

\* "failed to update token quota after max retries" takes two debits that
\* other calls completed in the meantime; one competitor never fails a call.
FailureNeedsConflicts ==
    \A d \in Debits : debit[d].pc = "failed" => debit[d].conflicts >= MaxRetries
=============================================================================
