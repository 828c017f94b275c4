--------------------------- MODULE TokenRowProofs ---------------------------
(***************************************************************************)
(* Theorems about TokenRow, for any number of calls, any amounts and any   *)
(* clock: types, that a debit fails only after two conflicts, and that     *)
(* used_quota is exact.                                                    *)
(*                                                                         *)
(* The invariant counts: a debit has seen as many conflicts as it has made *)
(* retries, and one more when the version it read is no longer there.      *)
(***************************************************************************)
EXTENDS TokenRow, Sums, TLAPS

Counted(k) ==
    /\ k.pc = "idle" => k.tries = 0
    /\ k.pc = "read" => k.tries <= k.conflicts
    /\ k.pc = "update" => /\ k.tries <= k.conflicts
                          /\ row.version # k.version => k.tries < k.conflicts
    /\ k.pc = "failed" => k.conflicts >= MaxRetries

ConflictsCounted == \A d \in Debits : Counted(debit[d])

IInv == TypeOK /\ ConflictsCounted

-----------------------------------------------------------------------------
LEMMA InitInv == Init => IInv
<1>1. SUFFICES ASSUME Init PROVE IInv
  OBVIOUS
<1>2. row \in Row
  <2>1. PICK mode \in Modes, x \in Expiries : row = FirstRow(mode, x)
    BY <1>1 DEF Init
  <2>2. mode \in {"fixed", "first_use"} /\ ExpiredTime(mode, x) \in Nat \cup {-1}
    BY FormAssumption DEF ExpiredTime
  <2>3. QED
    BY <2>1, <2>2, AmountsAssumption DEF FirstRow, Row
<1>3. SomeAmount \in Amounts
  BY AmountsAssumption DEF SomeAmount
<1>4. row \in Row /\ entry \in Row \cup {NoEntry, NoRedis} /\ now \in Nat
      /\ credit \in [Credits -> Amounts \cup {-1}]
  BY <1>1, <1>2, RedisAssumption DEF Init
<1>5. debit \in [Debits -> Debit]
  BY <1>1, <1>3 DEF Init, Debit, MaxRetries
<1>6. use \in [Uses -> Use]
  BY <1>1, <1>2 DEF Init, Use
<1>7. edit \in [Edits -> Edit]
  BY <1>1, <1>2 DEF Init, Edit
<1>8. ConflictsCounted
  BY <1>1 DEF Init, ConflictsCounted, Counted
<1>9. QED
  BY <1>4, <1>5, <1>6, <1>7, <1>8 DEF IInv, TypeOK

(* A step that leaves the debits and the version alone.                    *)
LEMMA VersionKept ==
  ASSUME ConflictsCounted, debit' = debit, row'.version = row.version
  PROVE  ConflictsCounted'
  BY DEF ConflictsCounted, Counted

(* A step of one debit that leaves the row alone.                          *)
LEMMA DebitMoves ==
  ASSUME IInv, NEW d \in Debits, NEW k \in Debit, Counted(k),
         debit' = [debit EXCEPT ![d] = k],
         UNCHANGED <<row, entry, now, credit, use, edit>>
  PROVE  IInv'
<1>1. TypeOK'
  BY DEF IInv, TypeOK
<1>2. ConflictsCounted'
  <2>1. ASSUME NEW e \in Debits PROVE Counted(debit[e])'
    <3>1. CASE e = d
      BY <3>1 DEF IInv, TypeOK, Counted
    <3>2. CASE e # d
      BY <3>2 DEF IInv, TypeOK, ConflictsCounted, Counted
    <3>3. QED
      BY <3>1, <3>2
  <2>2. QED
    BY <2>1 DEF ConflictsCounted
<1>3. QED
  BY <1>1, <1>2 DEF IInv

(* The two writers of the quota columns.                                   *)
LEMMA DebitedType ==
  ASSUME row \in Row, now \in Nat, NEW n \in Amounts
  PROVE  /\ Debited(n) \in Row
         /\ [row EXCEPT !.remain = @ + n, !.used = @ - n] \in Row
         /\ [row EXCEPT !.remain = @ + n, !.used = @ - n].version = row.version
<1>1. n \in Int
  BY AmountsAssumption
<1>2. row.remain \in Int /\ row.used \in Int
  BY DEF Row
<1>3. /\ row.remain - n \in Int /\ row.used + n \in Int
      /\ row.remain + n \in Int /\ row.used - n \in Int
  BY <1>1, <1>2
<1>4. [row EXCEPT !.remain = row.remain - n, !.used = row.used + n, !.version = now] \in Row
  BY <1>3 DEF Row
<1>5. /\ [row EXCEPT !.remain = row.remain + n, !.used = row.used - n] \in Row
      /\ [row EXCEPT !.remain = row.remain + n, !.used = row.used - n].version = row.version
  BY <1>3 DEF Row
<1>6. QED
  BY <1>4, <1>5 DEF Debited

LEMMA DebitInv ==
  ASSUME IInv, NEW d \in Debits, DebitBegin(d) \/ DebitStep(d) \/ DebitError(d)
  PROVE  IInv'
<1> DEFINE k == debit[d]
<1>0. /\ k \in Debit /\ row \in Row /\ now \in Nat /\ Counted(k)
      /\ debit \in [Debits -> Debit]
  BY DEF IInv, TypeOK, ConflictsCounted
<1>1. CASE DebitBegin(d)
  <2>1. PICK n \in Amounts : debit' = [debit EXCEPT ![d] = [k EXCEPT !.pc = "read", !.amount = n]]
    BY <1>1 DEF DebitBegin
  <2>2. k.pc = "idle"
    BY <1>1 DEF DebitBegin
  <2>3. [k EXCEPT !.pc = "read", !.amount = n] \in Debit
    BY <1>0 DEF Debit
  <2>4. Counted([k EXCEPT !.pc = "read", !.amount = n])
    BY <1>0, <2>2 DEF Counted, Debit
  <2>5. QED
    BY <1>1, <2>1, <2>3, <2>4, DebitMoves DEF DebitBegin
<1>2. CASE DebitRead(d)
  <2>1. [k EXCEPT !.pc = "update", !.version = row.version] \in Debit
    BY <1>0 DEF Debit, Row
  <2>2. Counted([k EXCEPT !.pc = "update", !.version = row.version])
    BY <1>0, <1>2 DEF Counted, Debit, DebitRead
  <2>3. QED
    BY <1>2, <2>1, <2>2, DebitMoves DEF DebitRead
<1>3. CASE DebitError(d)
  <2>1. [k EXCEPT !.pc = "error"] \in Debit
    BY <1>0 DEF Debit
  <2>2. Counted([k EXCEPT !.pc = "error"])
    BY <1>0, <1>3 DEF Counted, Debit
  <2>3. QED
    BY <1>3, <2>1, <2>2, DebitMoves DEF DebitError
<1>4. CASE DebitUpdate(d) /\ ~Unchanged(k)
  <2>1. k.pc = "update" /\ k.tries < k.conflicts
    BY <1>0, <1>4 DEF DebitUpdate, Unchanged, Counted
  <2>2. CASE GivesUp(k.tries)
    <3>1. [k EXCEPT !.pc = "failed"] \in Debit
      BY <1>0 DEF Debit
    <3>2. k.conflicts >= MaxRetries
      BY <1>0, <2>1, <2>2 DEF GivesUp, Debit, MaxRetries
    <3>3. Counted([k EXCEPT !.pc = "failed"])
      BY <1>0, <3>2 DEF Counted, Debit
    <3>4. QED
      BY <1>4, <2>2, <3>1, <3>3, DebitMoves DEF DebitUpdate
  <2>3. CASE ~GivesUp(k.tries)
    <3>1. k.tries + 1 \in 0..(MaxRetries - 1) /\ k.tries + 1 <= k.conflicts
      BY <1>0, <2>1, <2>3 DEF GivesUp, Debit, MaxRetries
    <3>2. [k EXCEPT !.pc = "read", !.tries = k.tries + 1] \in Debit
      BY <1>0, <3>1 DEF Debit
    <3>3. Counted([k EXCEPT !.pc = "read", !.tries = k.tries + 1])
      BY <1>0, <3>1 DEF Counted, Debit
    <3>4. QED
      BY <1>4, <2>3, <3>2, <3>3, DebitMoves DEF DebitUpdate
  <2>4. QED
    BY <2>2, <2>3
<1>5. CASE DebitUpdate(d) /\ Unchanged(k)
  <2>1. /\ row' = Debited(k.amount)
        /\ debit' = [o \in Debits |->
              IF o = d THEN [k EXCEPT !.pc = "ok"]
              ELSE IF debit[o].pc \in {"read", "update"}
                   THEN [debit[o] EXCEPT !.conflicts = @ + 1] ELSE debit[o]]
        /\ UNCHANGED <<entry, now, credit, use, edit>>
    BY <1>5 DEF DebitUpdate
  <2>2. row' \in Row
    <3> DEFINE n == k.amount
    <3>1. n \in Amounts
      BY <1>0 DEF Debit
    <3>2. QED
      BY <1>0, <2>1, <3>1, DebitedType
  <2>3. ASSUME NEW o \in Debits
        PROVE  debit'[o] \in Debit /\ Counted(debit[o])'
    <3>1. debit[o] \in Debit /\ Counted(debit[o])
      BY DEF IInv, TypeOK, ConflictsCounted
    <3>2. CASE o = d
      BY <1>0, <2>1, <3>2 DEF Debit, Counted
    <3>3. CASE o # d /\ debit[o].pc \in {"read", "update"}
      <4>1. debit'[o] = [debit[o] EXCEPT !.conflicts = debit[o].conflicts + 1]
        BY <2>1, <3>3
      <4> DEFINE k2 == debit[o]
                 n == k2.conflicts + 1
      <4>2. k2 \in Debit /\ n \in Nat /\ k2.conflicts \in Nat /\ k2.tries \in Nat
        BY <3>1 DEF Debit
      <4>3. [k2 EXCEPT !.conflicts = n] \in Debit
        BY <4>2 DEF Debit
      <4>4. k2.tries <= k2.conflicts
        BY <3>1, <3>3 DEF Counted
      <4>5. k2.tries < n
        BY <4>2, <4>4
      <4>6. /\ debit'[o].pc = k2.pc /\ debit'[o].tries = k2.tries
            /\ debit'[o].conflicts = n
        BY <4>1, <4>2 DEF Debit
      <4> HIDE DEF k2, n
      <4>7. Counted(debit[o])'
        BY <3>3, <4>2, <4>5, <4>6 DEF Counted, k2
      <4>8. QED
        BY <4>1, <4>3, <4>7 DEF k2, n
    <3>4. CASE o # d /\ debit[o].pc \notin {"read", "update"}
      <4>1. debit'[o] = debit[o]
        BY <2>1, <3>4
      <4>2. QED
        BY <3>1, <3>4, <4>1 DEF Counted
    <3>5. QED
      BY <3>2, <3>3, <3>4
  <2>4. debit' \in [Debits -> Debit]
    BY <2>1, <2>3
  <2>5. ConflictsCounted'
    BY <2>3 DEF ConflictsCounted
  <2>6. QED
    BY <2>1, <2>2, <2>4, <2>5 DEF IInv, TypeOK
<1>6. QED
  BY <1>1, <1>2, <1>3, <1>4, <1>5 DEF DebitStep

-----------------------------------------------------------------------------
(* The other writers.                                                      *)

LEMMA OtherVars ==
  ASSUME IInv, debit' = debit, row' \in Row, row'.version = row.version,
         entry' \in Row \cup {NoEntry, NoRedis}, now' \in Nat, credit' \in [Credits -> Amounts \cup {-1}],
         use' \in [Uses -> Use], edit' \in [Edits -> Edit]
  PROVE  IInv'
  BY VersionKept DEF IInv, TypeOK

LEMMA CreditInv ==
  ASSUME IInv, NEW c \in Credits, Credit(c)
  PROVE  IInv'
<1>1. PICK n \in Amounts :
         /\ credit' = [credit EXCEPT ![c] = n]
         /\ row' = [row EXCEPT !.remain = @ + n, !.used = @ - n]
  BY DEF Credit
<1>3. row' \in Row /\ row'.version = row.version
  BY <1>1, DebitedType DEF IInv, TypeOK
<1>4. credit' \in [Credits -> Amounts \cup {-1}]
  BY <1>1 DEF IInv, TypeOK
<1>5. QED
  BY <1>3, <1>4, OtherVars DEF IInv, TypeOK, Credit

LEMMA UseGoesType ==
  ASSUME use \in [Uses -> Use], NEW v \in Uses, NEW s \in Row,
         NEW pc \in {"idle", "store", "judge", "stamp", "mark", "valid", "refused"},
         UseGoes(v, pc, s)
  PROVE  use' \in [Uses -> Use]
<1>1. [pc |-> pc, seen |-> s] \in Use
  BY DEF Use
<1>2. QED
  BY <1>1 DEF UseGoes

LEMMA RefuseType ==
  ASSUME use \in [Uses -> Use], NEW v \in Uses, NEW s \in Row,
         NEW status \in {"exhausted", "expired"},
         Refuse(v, s, status) \/ CheckQuota(v, s)
  PROVE  use' \in [Uses -> Use]
<1>1. [s EXCEPT !.status = status] \in Row /\ [s EXCEPT !.status = "exhausted"] \in Row
  BY DEF Row
<1>2. QED
  BY <1>1, UseGoesType DEF Refuse, CheckQuota

LEMMA UseInv ==
  ASSUME IInv, NEW v \in Uses, UseStep(v)
  PROVE  IInv'
<1> DEFINE s == use[v].seen
<1>0. /\ s \in Row /\ row \in Row /\ entry \in Row \cup {NoEntry, NoRedis} /\ now \in Nat
      /\ use \in [Uses -> Use] /\ credit \in [Credits -> Amounts \cup {-1}]
      /\ edit \in [Edits -> Edit]
  BY DEF IInv, TypeOK, Use
<1>1. CASE Find(v)
  <2>1. (IF RedisEnabled THEN entry ELSE row) \in Row
    BY <1>0, <1>1 DEF Find, RedisEnabled
  <2>2. use' \in [Uses -> Use]
    BY <1>0, <1>1, <2>1, UseGoesType DEF Find
  <2>3. QED
    BY <1>0, <1>1, <2>2, OtherVars DEF Find
<1>2. CASE FindMiss(v)
  <2>1. use' \in [Uses -> Use]
    BY <1>0, <1>2, UseGoesType DEF FindMiss
  <2>2. QED
    BY <1>0, <1>2, <2>1, OtherVars DEF FindMiss
<1>3. CASE Store(v)
  <2>1. use' \in [Uses -> Use]
    BY <1>0, <1>3, UseGoesType DEF Store
  <2>2. QED
    BY <1>0, <1>3, <2>1, OtherVars DEF Store
<1>4. CASE Judge(v)
  <2>1. use' \in [Uses -> Use]
    BY <1>0, <1>4, UseGoesType, RefuseType DEF Judge
  <2>2. QED
    BY <1>0, <1>4, <2>1, OtherVars DEF Judge
<1>5. CASE Stamp(v)
  <2>1. [s EXCEPT !.first = now] \in Row /\ [row EXCEPT !.first = now] \in Row
        /\ [row EXCEPT !.first = now].version = row.version
    BY <1>0 DEF Row
  <2>2. use' \in [Uses -> Use]
    BY <1>0, <1>5, <2>1, UseGoesType, RefuseType DEF Stamp
  <2>3. row' \in Row /\ row'.version = row.version
    BY <1>0, <1>5, <2>1 DEF Stamp
  <2>4. QED
    BY <1>0, <1>5, <2>2, <2>3, OtherVars DEF Stamp
<1>6. CASE Mark(v)
  <2>1. use' \in [Uses -> Use]
    BY <1>0, <1>6, UseGoesType DEF Mark
  <2>2. row' \in Row /\ row'.version = row.version
    BY <1>0, <1>6 DEF Mark, Marks, Row
  <2>3. QED
    BY <1>0, <1>6, <2>1, <2>2, OtherVars DEF Mark
<1>7. QED
  BY <1>1, <1>2, <1>3, <1>4, <1>5, <1>6 DEF UseStep

LEMMA CheckedType ==
  ASSUME edit \in [Edits -> Edit], NEW e \in Edits, NEW s \in Row, Checked(e, s)
  PROVE  edit' \in [Edits -> Edit]
<1>1. [pc |-> IF s.status = "enabled" /\ ~Enableable(s) THEN "refused" ELSE "write",
       seen |-> s] \in Edit
  BY DEF Edit
<1>2. QED
  BY <1>1 DEF Checked

LEMMA EditInv ==
  ASSUME IInv, NEW e \in Edits, EditRead(e) \/ EditWrite(e)
  PROVE  IInv'
<1>0. /\ row \in Row /\ entry \in Row \cup {NoEntry, NoRedis} /\ now \in Nat
      /\ use \in [Uses -> Use] /\ credit \in [Credits -> Amounts \cup {-1}]
      /\ edit \in [Edits -> Edit] /\ edit[e].seen \in Row
  BY DEF IInv, TypeOK, Edit
<1>1. CASE EditRead(e)
  <2>1. ASSUME NEW status \in {"enabled", "disabled"}
        PROVE  [row EXCEPT !.status = status] \in Row
    BY <1>0 DEF Row
  <2>2. ASSUME NEW n \in Amounts, NEW mode \in Modes, NEW x \in Expiries
        PROVE  FormOf(row, n, mode, x) \in Row
    <3>1. /\ n \in Int /\ mode \in {"fixed", "first_use"}
          /\ ExpiredTime(mode, x) \in Nat \cup {-1}
      BY AmountsAssumption, FormAssumption DEF ExpiredTime
    <3>2. QED
      BY <1>0, <3>1 DEF FormOf, Row
  <2>3. \/ \E status \in {"enabled", "disabled"} : Checked(e, [row EXCEPT !.status = status])
        \/ Checked(e, row)
        \/ \E n \in Amounts, mode \in Modes, x \in Expiries : Checked(e, FormOf(row, n, mode, x))
    BY <1>1 DEF EditRead
  <2>4. edit' \in [Edits -> Edit]
    BY <1>0, <2>1, <2>2, <2>3, CheckedType
  <2>5. QED
    BY <1>0, <1>1, <2>4, OtherVars DEF EditRead
<1>2. CASE EditWrite(e)
  <2>1. row' \in Row /\ row'.version = row.version
    BY <1>0, <1>2 DEF EditWrite, Saved, Row
  <2>2. edit' \in [Edits -> Edit]
    BY <1>0, <1>2 DEF EditWrite, Edit
  <2>3. QED
    BY <1>0, <1>2, <2>1, <2>2, OtherVars DEF EditWrite
<1>3. QED
  BY <1>1, <1>2

LEMMA NextInv == IInv /\ [Next]_vars => IInv'
<1>1. SUFFICES ASSUME IInv, [Next]_vars PROVE IInv'
  OBVIOUS
<1>2. CASE UNCHANGED vars
  BY <1>1, <1>2 DEF IInv, TypeOK, ConflictsCounted, Counted, vars
<1>3. CASE \E d \in Debits : DebitBegin(d) \/ DebitStep(d) \/ DebitError(d)
  BY <1>1, <1>3, DebitInv
<1>4. CASE \E c \in Credits : Credit(c)
  BY <1>1, <1>4, CreditInv
<1>5. CASE \E v \in Uses : UseStep(v)
  BY <1>1, <1>5, UseInv
<1>6. CASE \E e \in Edits : EditRead(e) \/ EditWrite(e)
  BY <1>1, <1>6, EditInv
<1>7. CASE EntryExpires \/ Tick
  <2>1. now' \in Nat /\ entry' \in Row \cup {NoEntry, NoRedis}
    BY <1>1, <1>7, TimeAssumption DEF EntryExpires, Tick, IInv, TypeOK
  <2>2. QED
    BY <1>1, <1>7, <2>1, OtherVars DEF EntryExpires, Tick, IInv, TypeOK
<1>8. QED
  BY <1>1, <1>2, <1>3, <1>4, <1>5, <1>6, <1>7 DEF Next

-----------------------------------------------------------------------------
LEMMA Inductive == Spec => []IInv
  BY InitInv, NextInv, PTL DEF Spec

\* The row, its cached copy and every call keep their types; a debit makes at
\* most MaxRetries tries.
THEOREM TypeCorrect == Spec => []TypeOK
<1>1. IInv => TypeOK
  BY DEF IInv
<1>2. QED
  BY <1>1, Inductive, PTL

\* A debit of a token fails for conflicts only after two other debits of the
\* same token completed while it ran.
THEOREM FailuresNeedConflicts == Spec => []FailureNeedsConflicts
<1>1. IInv => FailureNeedsConflicts
  BY DEF IInv, ConflictsCounted, Counted, FailureNeedsConflicts
<1>2. QED
  BY <1>1, Inductive, PTL

-----------------------------------------------------------------------------
(* The used quota.  Only a debit that ends with "ok" and a credit move it. *)

PaidBy(k) == IF k.pc = "ok" THEN k.amount ELSE 0
GivenBack(n) == IF n = -1 THEN 0 ELSE n
Paid == [d \in Debits |-> PaidBy(debit[d])]
Given == [c \in Credits |-> GivenBack(credit[c])]

LEMMA SumsOfCalls == Spent = SumFunction(Paid) /\ Returned = SumFunction(Given)
BY Zenon DEF Spent, Returned, Paid, Given, PaidBy, GivenBack

LEMMA AmountType ==
  ASSUME NEW k \in Debit
  PROVE  k.amount \in Int /\ PaidBy(k) \in Int
<1>1. k.amount \in Amounts
  BY DEF Debit
<1>2. k.amount \in Nat
  BY <1>1, AmountsAssumption
<1>3. QED
  BY <1>2 DEF PaidBy

LEMMA CallSums ==
  ASSUME TypeOK
  PROVE  /\ Paid \in [Debits -> Int] /\ Spent \in Int
         /\ Given \in [Credits -> Int] /\ Returned \in Int
<1>1. Paid \in [Debits -> Int]
  BY AmountType DEF TypeOK, Paid
<1>2. Given \in [Credits -> Int]
  <2>1. ASSUME NEW c \in Credits PROVE GivenBack(credit[c]) \in Int
    <3>1. credit[c] \in Amounts \cup {-1}
      BY DEF TypeOK
    <3>2. credit[c] \in Nat \cup {-1}
      BY <3>1, AmountsAssumption
    <3>3. QED
      BY <3>2 DEF GivenBack
  <2>2. QED
    BY <2>1 DEF Given
<1>3. QED
  BY <1>1, <1>2, SumsOfCalls, SumType, FiniteAssumption

LEMMA UsedKept ==
  ASSUME UsedExact, credit' = credit, row'.used = row.used,
         \A d \in Debits : PaidBy(debit'[d]) = PaidBy(debit[d])
  PROVE  UsedExact'
<1>1. Paid' = Paid /\ Given' = Given
  BY DEF Paid, Given
<1>2. Spent' = SumFunction(Paid') /\ Returned' = SumFunction(Given')
  BY Zenon DEF Spent, Returned, Paid, Given, PaidBy, GivenBack
<1>3. QED
  BY <1>1, <1>2, SumsOfCalls DEF UsedExact

\* The step of one debit that does not complete it.
LEMMA UsedByOne ==
  ASSUME TypeOK, UsedExact, NEW d \in Debits, NEW k \in Debit, debit[d].pc # "ok", k.pc # "ok",
         debit' = [debit EXCEPT ![d] = k], UNCHANGED <<row, credit>>
  PROVE  UsedExact'
<1>1. \A o \in Debits : PaidBy(debit'[o]) = PaidBy(debit[o])
  BY DEF TypeOK, PaidBy
<1>2. QED
  BY <1>1, UsedKept

LEMMA UsedByDebit ==
  ASSUME IInv, UsedExact, NEW d \in Debits, DebitBegin(d) \/ DebitStep(d) \/ DebitError(d)
  PROVE  UsedExact'
<1> DEFINE k == debit[d]
<1>0. TypeOK /\ k \in Debit /\ row \in Row /\ debit \in [Debits -> Debit]
  BY DEF IInv, TypeOK
<1>1. CASE DebitBegin(d)
  <2>1. PICK n \in Amounts : debit' = [debit EXCEPT ![d] = [k EXCEPT !.pc = "read", !.amount = n]]
    BY <1>1 DEF DebitBegin
  <2>2. [k EXCEPT !.pc = "read", !.amount = n] \in Debit
        /\ [k EXCEPT !.pc = "read", !.amount = n].pc = "read"
    BY <1>0 DEF Debit
  <2>3. QED
    BY <1>0, <1>1, <2>1, <2>2, UsedByOne DEF DebitBegin
<1>2. CASE DebitRead(d)
  <2>1. [k EXCEPT !.pc = "update", !.version = row.version] \in Debit
        /\ [k EXCEPT !.pc = "update", !.version = row.version].pc = "update"
    BY <1>0 DEF Debit, Row
  <2>2. QED
    BY <1>0, <1>2, <2>1, UsedByOne DEF DebitRead
<1>3. CASE DebitError(d)
  <2>1. [k EXCEPT !.pc = "error"] \in Debit /\ [k EXCEPT !.pc = "error"].pc = "error"
    BY <1>0 DEF Debit
  <2>2. QED
    BY <1>0, <1>3, <2>1, UsedByOne DEF DebitError
<1>4. CASE DebitUpdate(d) /\ ~Unchanged(k)
  <2>1. k.pc = "update" /\ UNCHANGED <<row, credit>>
    BY <1>4 DEF DebitUpdate
  <2>2. CASE GivesUp(k.tries)
    <3>1. [k EXCEPT !.pc = "failed"] \in Debit /\ [k EXCEPT !.pc = "failed"].pc = "failed"
      BY <1>0 DEF Debit
    <3>2. QED
      BY <1>0, <1>4, <2>1, <2>2, <3>1, UsedByOne DEF DebitUpdate
  <2>3. CASE ~GivesUp(k.tries)
    <3>1. k.tries + 1 \in 0..(MaxRetries - 1)
      BY <1>0, <2>3 DEF GivesUp, Debit, MaxRetries
    <3>2. [k EXCEPT !.pc = "read", !.tries = k.tries + 1] \in Debit
          /\ [k EXCEPT !.pc = "read", !.tries = k.tries + 1].pc = "read"
      BY <1>0, <3>1 DEF Debit
    <3>3. QED
      BY <1>0, <1>4, <2>1, <2>3, <3>2, UsedByOne DEF DebitUpdate
  <2>4. QED
    BY <2>2, <2>3
<1>5. CASE DebitUpdate(d) /\ Unchanged(k)
  <2>1. /\ k.pc = "update" /\ UNCHANGED credit
        /\ row' = [row EXCEPT !.remain = @ - k.amount, !.used = @ + k.amount, !.version = now]
        /\ debit' = [o \in Debits |->
              IF o = d THEN [k EXCEPT !.pc = "ok"]
              ELSE IF debit[o].pc \in {"read", "update"}
                   THEN [debit[o] EXCEPT !.conflicts = @ + 1] ELSE debit[o]]
    BY <1>5 DEF DebitUpdate, Debited
  <2>2. row'.used = row.used + k.amount
    BY <1>0, <2>1 DEF Row
  <2>3. PaidBy(k) = 0 /\ PaidBy(debit'[d]) = k.amount
    BY <1>0, <2>1 DEF PaidBy, Debit
  <2>4. ASSUME NEW o \in Debits, o # d PROVE PaidBy(debit'[o]) = PaidBy(debit[o])
    <3>1. debit[o] \in Debit
      BY <1>0
    <3>2. debit'[o] = debit[o]
          \/ debit'[o] = [debit[o] EXCEPT !.conflicts = debit[o].conflicts + 1]
      BY <2>1, <2>4
    <3>3. QED
      BY <3>1, <3>2 DEF PaidBy, Debit
  <2>5. Paid \in [Debits -> Int] /\ Paid' \in [Debits -> Int]
    <3>1. \A o \in Debits : PaidBy(debit[o]) \in Int
      BY <1>0, AmountType
    <3>2. k.amount \in Int
      BY <1>0, AmountType
    <3>3. QED
      BY <2>3, <2>4, <3>1, <3>2 DEF Paid
  <2>6. SumFunction(Paid') = SumFunction(Paid) + Paid'[d] - Paid[d]
    <3>1. \A o \in Debits : o # d => Paid'[o] = Paid[o]
      BY <2>4 DEF Paid
    <3>2. QED
      BY <2>5, <3>1, SumChange, FiniteAssumption
  <2>7. Paid'[d] = k.amount /\ Paid[d] = 0
    BY <2>3 DEF Paid
  <2>8. Spent' = SumFunction(Paid') /\ Spent = SumFunction(Paid) /\ Returned' = Returned
    BY <2>1, Zenon DEF Spent, Returned, Paid, PaidBy
  <2>9. row.used \in Int /\ k.amount \in Int /\ Spent \in Int /\ Returned \in Int
    BY <1>0, AmountType, CallSums DEF Row
  <2>10. QED
    BY <2>2, <2>6, <2>7, <2>8, <2>9 DEF UsedExact
<1>6. QED
  BY <1>1, <1>2, <1>3, <1>4, <1>5 DEF DebitStep

LEMMA UsedByCredit ==
  ASSUME IInv, UsedExact, NEW c \in Credits, Credit(c)
  PROVE  UsedExact'
<1>0. TypeOK /\ row \in Row /\ credit \in [Credits -> Amounts \cup {-1}]
  BY DEF IInv, TypeOK
<1>1. PICK n \in Amounts :
         /\ credit' = [credit EXCEPT ![c] = n]
         /\ row' = [row EXCEPT !.remain = @ + n, !.used = @ - n]
  BY DEF Credit
<1>2. n \in Int /\ n # -1
  <2>1. n \in Nat
    BY AmountsAssumption
  <2>2. QED
    BY <2>1
<1>3. row'.used = row.used - n
  BY <1>0, <1>1 DEF Row
<1>4. Given \in [Credits -> Int] /\ Given' \in [Credits -> Int]
  <2>1. \A e \in Credits : e # c => Given'[e] = Given[e]
    BY <1>0, <1>1 DEF Given
  <2>2. Given'[c] = n
    BY <1>0, <1>1, <1>2 DEF Given, GivenBack
  <2>3. DOMAIN Given' = Credits /\ Given' = [e \in Credits |-> Given'[e]]
    BY DEF Given
  <2>4. Given \in [Credits -> Int]
    BY <1>0, CallSums
  <2>5. QED
    BY <1>2, <2>1, <2>2, <2>3, <2>4
<1>5. SumFunction(Given') = SumFunction(Given) + Given'[c] - Given[c]
  <2>1. \A e \in Credits : e # c => Given'[e] = Given[e]
    BY <1>0, <1>1 DEF Given
  <2>2. QED
    BY <1>4, <2>1, SumChange, FiniteAssumption
<1>6. Given'[c] = n /\ Given[c] = 0
  BY <1>0, <1>1, <1>2 DEF Given, GivenBack, Credit
<1>7. Returned' = SumFunction(Given') /\ Returned = SumFunction(Given) /\ Spent' = Spent
  <2>1. debit' = debit
    BY DEF Credit
  <2>2. QED
    BY <2>1, Zenon DEF Spent, Returned, Given, GivenBack
<1>8. row.used \in Int /\ Spent \in Int /\ Returned \in Int
  BY <1>0, CallSums DEF Row
<1>9. QED
  BY <1>2, <1>3, <1>5, <1>6, <1>7, <1>8 DEF UsedExact

LEMMA NextUsed == IInv /\ UsedExact /\ [Next]_vars => UsedExact'
<1>1. SUFFICES ASSUME IInv, UsedExact, [Next]_vars PROVE UsedExact'
  OBVIOUS
<1>2. CASE UNCHANGED vars
  BY <1>1, <1>2, UsedKept DEF vars
<1>3. CASE \E d \in Debits : DebitBegin(d) \/ DebitStep(d) \/ DebitError(d)
  BY <1>1, <1>3, UsedByDebit
<1>4. CASE \E c \in Credits : Credit(c)
  BY <1>1, <1>4, UsedByCredit
<1>5. CASE \E v \in Uses : UseStep(v)
  <2>1. UNCHANGED <<debit, credit>>
    BY <1>5 DEF UseStep, Find, FindMiss, Store, Judge, Stamp, Mark
  <2>2. row'.used = row.used
    <3>1. row \in Row
      BY <1>1 DEF IInv, TypeOK
    <3>2. row' = row \/ row' = [row EXCEPT !.first = now]
          \/ \E v \in Uses : row' = [row EXCEPT !.status = use[v].seen.status]
      BY <1>5 DEF UseStep, Find, FindMiss, Store, Judge, Stamp, Mark, Marks
    <3>3. QED
      BY <3>1, <3>2 DEF Row
  <2>3. QED
    BY <1>1, <2>1, <2>2, UsedKept
<1>6. CASE \E e \in Edits : EditRead(e) \/ EditWrite(e)
  <2>1. UNCHANGED <<debit, credit>>
    BY <1>6 DEF EditRead, EditWrite
  <2>2. row'.used = row.used
    <3>1. row \in Row
      BY <1>1 DEF IInv, TypeOK
    <3>2. row' = row \/ \E e \in Edits : row' = Saved(edit[e].seen)
      BY <1>6 DEF EditRead, EditWrite
    <3>3. ASSUME NEW s PROVE Saved(s).used = row.used
      BY <3>1 DEF Saved, Row
    <3>4. QED
      BY <3>2, <3>3
  <2>3. QED
    BY <1>1, <2>1, <2>2, UsedKept
<1>7. CASE EntryExpires \/ Tick
  BY <1>1, <1>7, UsedKept DEF EntryExpires, Tick
<1>8. QED
  BY <1>1, <1>2, <1>3, <1>4, <1>5, <1>6, <1>7 DEF Next

LEMMA InitUsed == Init => UsedExact
<1>1. SUFFICES ASSUME Init PROVE UsedExact
  OBVIOUS
<1>2. row.used = 0
  BY <1>1 DEF Init, FirstRow
<1>3. /\ DOMAIN Paid = Debits /\ \A d \in Debits : Paid[d] = 0
      /\ DOMAIN Given = Credits /\ \A c \in Credits : Given[c] = 0
  BY <1>1 DEF Init, Paid, Given, PaidBy, GivenBack
<1>4. SumFunction(Paid) = 0 /\ SumFunction(Given) = 0
  BY <1>3, SumZero, FiniteAssumption
<1>5. QED
  BY <1>2, <1>4, SumsOfCalls DEF UsedExact

\* The used quota of a token is what its completed debits took less what its
\* credits gave back: conflicts, retries, stamps, marks and edits of the same
\* row lose or double none of it.
THEOREM UsedQuota == Spec => []UsedExact
  BY InitUsed, NextUsed, Inductive, PTL DEF Spec
=============================================================================
