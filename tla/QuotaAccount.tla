---------------------------- MODULE QuotaAccount ----------------------------
(***************************************************************************)
(* What the quota of a user promises to the code that spends it, without   *)
(* transactions, versions or recharge records: a debit call ends exactly   *)
(* once; it either takes its whole amount in one step or takes nothing,    *)
(* and it never takes more than the balance plus what expiry took away.    *)
(* model/user.go implements it (module UserQuota, by refinement).          *)
(***************************************************************************)
EXTENDS Integers

CONSTANTS Users, Requests, Sizes, InitialQuota

VARIABLES balance,    \* [Users -> Int]: the quota column
          forfeited,  \* [Users -> Nat]: the part of it that expiry took so far
          debit       \* [Requests -> ...]: the debit calls

vars == <<balance, forfeited, debit>>

Debit == [phase : {"idle", "running", "ok", "failed"},
          user : Users, need : Sizes]

Init == /\ balance = [u \in Users |-> InitialQuota]
        /\ forfeited = [u \in Users |-> 0]
        /\ debit \in [Requests -> Debit]
        /\ \A c \in Requests : debit[c].phase = "idle"

Call(c) ==
    /\ debit[c].phase = "idle"
    /\ \E u \in Users, q \in Sizes :
          debit' = [debit EXCEPT ![c] = [phase |-> "running", user |-> u, need |-> q]]
    /\ UNCHANGED <<balance, forfeited>>

Take(c) ==
    LET u == debit[c].user
        q == debit[c].need
    IN /\ debit[c].phase = "running"
       /\ balance[u] + forfeited[u] >= q
       /\ balance' = [balance EXCEPT ![u] = @ - q]
       /\ debit' = [debit EXCEPT ![c].phase = "ok"]
       /\ UNCHANGED forfeited

Fail(c) ==
    /\ debit[c].phase = "running"
    /\ debit' = [debit EXCEPT ![c].phase = "failed"]
    /\ UNCHANGED <<balance, forfeited>>

Credit ==
    /\ \E u \in Users, n \in Sizes : balance' = [balance EXCEPT ![u] = @ + n]
    /\ UNCHANGED <<forfeited, debit>>

\* One expiry transaction: it may lower several balances, each by what it adds
\* to the forfeits of that user.
Forfeit ==
    /\ forfeited' \in [Users -> Nat]
    /\ \A u \in Users : forfeited'[u] >= forfeited[u]
    /\ balance' = [u \in Users |-> balance[u] - (forfeited'[u] - forfeited[u])]
    /\ UNCHANGED debit

Next == \/ \E c \in Requests : Call(c) \/ Take(c) \/ Fail(c)
        \/ Credit
        \/ Forfeit

Spec == Init /\ [][Next]_vars
=============================================================================
