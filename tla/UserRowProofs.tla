--------------------------- MODULE UserRowProofs ---------------------------
(***************************************************************************)
(* Theorems about UserRow, for any number of calls of each kind and any    *)
(* amounts: types, that the invitation quota stays non-negative, that the  *)
(* optimistic debit overdraws nobody and the books are kept, unless a save *)
(* overwrote the row.                                                      *)
(*                                                                         *)
(* SavesCovered: what a handler is about to save has the quota that it     *)
(* takes.  DebitsCovered: as long as no save overwrote anything, a debit   *)
(* whose version is still in the row has the balance that it checked; a    *)
(* new version is one that no debit has read.                              *)
(***************************************************************************)
EXTENDS UserRow, Sums, TLAPS

WriterCovered(k) ==
    k.pc = "save" => /\ k.seen.aff >= 0
                     /\ k.kind \in {"transfer", "withdraw"} => k.seen.aff >= k.amount

SavesCovered ==
    /\ row.aff >= 0
    /\ \A w \in Writers : WriterCovered(writer[w])
    /\ \A a \in Admins : admin[a].pc = "refund" => admin[a].seen.aff >= 0

DebitCovered(k) ==
    /\ k.version <= clock
    /\ k.pc = "debit" /\ k.version = row.version => row.quota >= k.amount

DebitsCovered ==
    ~overwrote => /\ row.quota >= 0
                  /\ row.version <= clock
                  /\ \A d \in Debits : DebitCovered(debit[d])

IInv == TypeOK /\ SavesCovered /\ DebitsCovered

-----------------------------------------------------------------------------
LEMMA Constants ==
  /\ \A n \in Amounts : n \in Nat /\ n \in Int /\ n >= 0
  /\ SomeAmount \in Amounts
  /\ FirstRow \in Row /\ FirstRow.aff >= 0 /\ FirstRow.quota >= 0 /\ FirstRow.version = 0
<1>1. \A n \in Amounts : n \in Nat /\ n \in Int /\ n >= 0
  BY AmountsAssumption
<1>2. SomeAmount \in Amounts
  BY AmountsAssumption DEF SomeAmount
<1>3. FirstRow \in Row /\ FirstRow.aff >= 0 /\ FirstRow.quota >= 0 /\ FirstRow.version = 0
  BY InitialAssumption DEF FirstRow, Row
<1>4. QED
  BY <1>1, <1>2, <1>3

(* What a handler makes of the row that it read.                           *)
LEMMA ChangedRow ==
  ASSUME NEW kind \in Kinds, NEW r \in Row, NEW n \in Amounts
  PROVE  /\ Changed(kind, r, n) \in Row
         /\ Changed(kind, r, n).version = r.version
         /\ Changed(kind, r, n).quota >= r.quota
         /\ r.aff >= 0 /\ (kind \in {"transfer", "withdraw"} => r.aff >= n)
               => Changed(kind, r, n).aff >= 0
<1>1. r.quota \in Int /\ r.aff \in Int /\ r.history \in Int /\ r.version \in Nat
  BY DEF Row
<1>2. n \in Int /\ n >= 0
  BY Constants
<1>3. CASE kind = "transfer"
  <2>1. Changed(kind, r, n) = [r EXCEPT !.aff = r.aff - n, !.quota = r.quota + n]
    BY <1>3 DEF Changed
  <2>2. /\ r.aff - n \in Int /\ r.quota + n \in Int
        /\ r.quota + n >= r.quota /\ (r.aff >= n => r.aff - n >= 0)
    BY <1>1, <1>2
  <2>3. /\ Changed(kind, r, n).quota = r.quota + n /\ Changed(kind, r, n).aff = r.aff - n
        /\ Changed(kind, r, n).version = r.version
    BY <2>1 DEF Row
  <2>4. Changed(kind, r, n) \in Row
    BY <2>1, <2>2 DEF Row
  <2>5. QED
    BY <1>3, <2>2, <2>3, <2>4
<1>4. CASE kind = "withdraw"
  <2>1. Changed(kind, r, n) = [r EXCEPT !.aff = r.aff - n]
    BY <1>4 DEF Changed
  <2>2. QED
    BY <1>1, <1>2, <1>4, <2>1 DEF Row
<1>5. CASE kind = "invite"
  <2>1. Changed(kind, r, n) = [r EXCEPT !.aff = r.aff + n, !.history = r.history + n]
    BY <1>5 DEF Changed
  <2>2. /\ r.aff + n \in Int /\ r.history + n \in Int
        /\ r.quota >= r.quota /\ (r.aff >= 0 => r.aff + n >= 0)
    BY <1>1, <1>2
  <2>3. /\ Changed(kind, r, n).quota = r.quota /\ Changed(kind, r, n).aff = r.aff + n
        /\ Changed(kind, r, n).version = r.version
    BY <2>1 DEF Row
  <2>4. Changed(kind, r, n) \in Row
    BY <2>1, <2>2 DEF Row
  <2>5. QED
    BY <2>2, <2>3, <2>4
<1>6. CASE kind = "profile"
  <2>1. Changed(kind, r, n) = r
    BY <1>6 DEF Changed
  <2>2. QED
    BY <1>1, <2>1
<1>7. QED
  BY <1>3, <1>4, <1>5, <1>6 DEF Kinds

LEMMA WrittenRow ==
  ASSUME row \in Row, NEW kind \in Kinds, NEW r \in Row
  PROVE  /\ Written(kind, r) \in Row
         /\ row.aff >= 0 /\ r.aff >= 0 => Written(kind, r).aff >= 0
<1>1. r.quota \in Int /\ r.aff \in Int /\ r.history \in Int /\ r.version \in Nat
  BY DEF Row
<1>2. row.quota \in Int /\ row.aff \in Int /\ row.history \in Int /\ row.version \in Nat
  BY DEF Row
<1>3. NonZero(r) \in Row /\ (row.aff >= 0 /\ r.aff >= 0 => NonZero(r).aff >= 0)
  BY <1>1, <1>2 DEF NonZero, Over, Row
<1>4. QED
  BY <1>3 DEF Written

LEMMA InitInv == Init => IInv
<1>1. SUFFICES ASSUME Init PROVE IInv
  OBVIOUS
<1>2. TypeOK
  <2>1. row \in Row /\ clock \in Nat /\ overwrote \in BOOLEAN
        /\ credit \in [Credits -> Amounts \cup {-1}]
    BY <1>1, Constants DEF Init
  <2>2. debit \in [Debits -> DebitCall]
    BY <1>1, Constants DEF Init, DebitCall, MaxRetries
  <2>3. writer \in [Writers -> Writer]
    BY <1>1, Constants DEF Init, Writer, Kinds
  <2>4. order \in [Writers -> Withdrawal]
    BY <1>1, Constants DEF Init, Withdrawal, Statuses
  <2>5. admin \in [Admins -> Admin]
    BY <1>1, Constants DEF Init, Admin, Statuses
  <2>6. QED
    BY <2>1, <2>2, <2>3, <2>4, <2>5 DEF TypeOK
<1>3. SavesCovered
  BY <1>1, Constants DEF Init, SavesCovered, WriterCovered
<1>4. DebitsCovered
  BY <1>1, Constants DEF Init, DebitsCovered, DebitCovered
<1>5. QED
  BY <1>2, <1>3, <1>4 DEF IInv

-----------------------------------------------------------------------------
(* A step of one debit that leaves the row alone.                          *)
LEMMA DebitMoves ==
  ASSUME IInv, NEW d \in Debits, NEW k \in DebitCall, ~overwrote => DebitCovered(k),
         debit' = [debit EXCEPT ![d] = k],
         UNCHANGED <<row, clock, credit, writer, order, admin, overwrote>>
  PROVE  IInv'
<1>1. TypeOK'
  BY DEF IInv, TypeOK
<1>2. SavesCovered'
  BY DEF IInv, SavesCovered
<1>3. DebitsCovered'
  BY DEF IInv, TypeOK, DebitsCovered, DebitCovered
<1>4. QED
  BY <1>1, <1>2, <1>3 DEF IInv

LEMMA BeginInv == ASSUME IInv, NEW d \in Debits, Begin(d) PROVE IInv'
<1>1. debit[d] \in DebitCall
  BY DEF IInv, TypeOK
<1>2. PICK n \in Amounts : debit' = [debit EXCEPT ![d] = [debit[d] EXCEPT !.pc = "check", !.amount = n]]
  BY DEF Begin
<1> DEFINE k == [debit[d] EXCEPT !.pc = "check", !.amount = n]
<1>3. k \in DebitCall /\ k.pc = "check" /\ k.version = debit[d].version
  BY <1>1 DEF DebitCall
<1>4. ~overwrote => DebitCovered(k)
  BY <1>3 DEF IInv, DebitsCovered, DebitCovered
<1>5. debit' = [debit EXCEPT ![d] = k] /\ UNCHANGED <<row, clock, credit, writer, order, admin, overwrote>>
  BY <1>2 DEF Begin
<1> HIDE DEF k
<1>6. QED
  BY <1>3, <1>4, <1>5, DebitMoves

LEMMA CheckInv == ASSUME IInv, NEW d \in Debits, Check(d) PROVE IInv'
<1>1. debit[d] \in DebitCall /\ row \in Row /\ row.version \in Nat
  BY DEF IInv, TypeOK, Row
<1> DEFINE k == IF Sufficient(debit[d].amount)
                THEN [debit[d] EXCEPT !.pc = "debit", !.version = row.version]
                ELSE [debit[d] EXCEPT !.pc = "short"]
<1>2. k \in DebitCall
  BY <1>1 DEF DebitCall
<1>3. ~overwrote => DebitCovered(k)
  <2>1. CASE Sufficient(debit[d].amount)
    <3>1. k.version = row.version /\ k.amount = debit[d].amount
      BY <1>1, <2>1 DEF DebitCall
    <3>2. QED
      BY <2>1, <3>1 DEF IInv, DebitsCovered, DebitCovered, Sufficient
  <2>2. CASE ~Sufficient(debit[d].amount)
    <3>1. k.version = debit[d].version /\ k.pc = "short"
      BY <1>1, <2>2 DEF DebitCall
    <3>2. QED
      BY <3>1 DEF IInv, DebitsCovered, DebitCovered
  <2>3. QED
    BY <2>1, <2>2
<1>4. debit' = [debit EXCEPT ![d] = k] /\ UNCHANGED <<row, clock, credit, writer, order, admin, overwrote>>
  BY DEF Check
<1> HIDE DEF k
<1>5. QED
  BY <1>2, <1>3, <1>4, DebitMoves

(* The debit succeeds, meets another version, or fails with an error.      *)
LEMMA DebitInv == ASSUME IInv, NEW d \in Debits, Debit(d) PROVE IInv'
<1> DEFINE k == debit[d]
<1>1. k \in DebitCall /\ k.amount \in Nat /\ k.version \in Nat /\ k.tries \in 0..(MaxRetries - 1)
  BY Constants DEF IInv, TypeOK, DebitCall
<1>2. row \in Row /\ row.quota \in Int /\ row.version \in Nat /\ clock \in Nat
  BY DEF IInv, TypeOK, Row
<1>3. UNCHANGED <<credit, writer, order, admin, overwrote>> /\ k.pc = "debit"
  BY DEF Debit
<1>4. CASE /\ row.version = k.version
           /\ clock' = clock + 1
           /\ row' = [row EXCEPT !.quota = @ - k.amount, !.version = clock + 1]
           /\ debit' = [debit EXCEPT ![d].pc = "ok"]
  <2>1. /\ row' \in Row /\ row'.quota = row.quota - k.amount
        /\ row'.version = clock + 1 /\ row'.aff = row.aff
    <3>1. row.quota - k.amount \in Int /\ clock + 1 \in Nat
      BY <1>1, <1>2
    <3>2. row' = [row EXCEPT !.quota = row.quota - k.amount, !.version = clock + 1]
      BY <1>4
    <3>3. row' \in Row
      BY <1>2, <3>1, <3>2 DEF Row
    <3>4. QED
      BY <1>2, <3>2, <3>3 DEF Row
  <2>2. debit' = [debit EXCEPT ![d] = [k EXCEPT !.pc = "ok"]] /\ [k EXCEPT !.pc = "ok"] \in DebitCall
    BY <1>1, <1>4 DEF DebitCall
  <2>3. TypeOK'
    BY <1>2, <1>3, <1>4, <2>1, <2>2 DEF IInv, TypeOK
  <2>4. SavesCovered'
    BY <1>3, <2>1 DEF IInv, SavesCovered
  <2>5. ASSUME ~overwrote, NEW e \in Debits PROVE DebitCovered(debit[e])'
    <3>1. debit[e].version <= clock /\ debit[e].version \in Nat
      BY <2>5 DEF IInv, TypeOK, DebitsCovered, DebitCovered, DebitCall
    <3>2. debit'[e].version = debit[e].version
      BY <1>1, <2>2 DEF IInv, TypeOK, DebitCall
    <3>3. debit'[e].version < clock' /\ debit'[e].version # row'.version
      BY <1>2, <1>4, <2>1, <3>1, <3>2
    <3>4. QED
      BY <1>2, <1>4, <3>1, <3>2, <3>3 DEF DebitCovered
  <2>6. ~overwrote => row.quota >= k.amount
    BY <1>3, <1>4 DEF IInv, DebitsCovered, DebitCovered
  <2>7. DebitsCovered'
    BY <1>1, <1>2, <1>3, <1>4, <2>1, <2>5, <2>6 DEF DebitsCovered
  <2>8. QED
    BY <2>3, <2>4, <2>7 DEF IInv
<1>5. ASSUME NEW pc \in {"check", "failed", "error"}, NEW t \in 0..(MaxRetries - 1),
             debit' = [debit EXCEPT ![d] = [k EXCEPT !.pc = pc, !.tries = t]],
             UNCHANGED <<row, clock>>
      PROVE  IInv'
  <2>1. [k EXCEPT !.pc = pc, !.tries = t] \in DebitCall
    BY <1>1 DEF DebitCall
  <2>2. ~overwrote => DebitCovered([k EXCEPT !.pc = pc, !.tries = t])
    BY <1>1 DEF IInv, DebitsCovered, DebitCovered, DebitCall
  <2>3. QED
    BY <1>3, <1>5, <2>1, <2>2, DebitMoves
<1>6. CASE row.version # k.version /\ UNCHANGED <<row, clock>>
           /\ debit' = [debit EXCEPT ![d] =
                 IF GivesUp(k.tries) THEN [k EXCEPT !.pc = "failed"]
                 ELSE [k EXCEPT !.pc = "check", !.tries = k.tries + 1]]
  <2>1. CASE GivesUp(k.tries)
    <3>1. [k EXCEPT !.pc = "failed"] = [k EXCEPT !.pc = "failed", !.tries = k.tries]
      BY <1>1 DEF DebitCall
    <3>2. QED
      BY <1>1, <1>5, <1>6, <2>1, <3>1
  <2>2. CASE ~GivesUp(k.tries)
    <3>1. k.tries + 1 \in 0..(MaxRetries - 1)
      BY <1>1, <2>2 DEF GivesUp, MaxRetries
    <3>2. QED
      BY <1>5, <1>6, <2>2, <3>1
  <2>3. QED
    BY <2>1, <2>2
<1>7. CASE debit' = [debit EXCEPT ![d].pc = "error"] /\ UNCHANGED <<row, clock>>
  <2>1. debit' = [debit EXCEPT ![d] = [k EXCEPT !.pc = "error", !.tries = k.tries]]
    BY <1>1, <1>7 DEF DebitCall
  <2>2. QED
    BY <1>1, <1>5, <1>7, <2>1
<1>8. QED
  BY <1>4, <1>6, <1>7 DEF Debit

LEMMA CreditInv == ASSUME IInv, NEW c \in Credits, Credit(c) PROVE IInv'
<1>1. row \in Row /\ row.quota \in Int
  BY DEF IInv, TypeOK, Row
<1>2. PICK n \in Amounts : /\ credit' = [credit EXCEPT ![c] = n]
                           /\ row' = [row EXCEPT !.quota = @ + n]
  BY DEF Credit
<1>3. n \in Int /\ n >= 0
  BY Constants
<1>4. /\ row' \in Row /\ row'.quota = row.quota + n
      /\ row'.aff = row.aff /\ row'.version = row.version
  BY <1>1, <1>2, <1>3 DEF Row
<1>5. UNCHANGED <<clock, debit, writer, order, admin, overwrote>>
  BY DEF Credit
<1>6. TypeOK'
  BY <1>2, <1>4, <1>5 DEF IInv, TypeOK
<1>7. SavesCovered'
  BY <1>4, <1>5 DEF IInv, SavesCovered
<1>8. DebitsCovered'
  <2>1. ASSUME ~overwrote, NEW e \in Debits PROVE DebitCovered(debit[e])'
    <3>1. debit[e].amount \in Int
      BY Constants DEF IInv, TypeOK, DebitCall
    <3>2. QED
      BY <1>1, <1>3, <1>4, <1>5, <2>1, <3>1 DEF IInv, DebitsCovered, DebitCovered
  <2>2. QED
    BY <1>1, <1>3, <1>4, <1>5, <2>1 DEF IInv, DebitsCovered
<1>9. QED
  BY <1>6, <1>7, <1>8 DEF IInv

-----------------------------------------------------------------------------
LEMMA ReadInv == ASSUME IInv, NEW w \in Writers, Read(w) PROVE IInv'
<1>1. UNCHANGED <<row, clock, debit, credit, order, admin, overwrote>>
  BY DEF Read
<1>2. PICK kind \in Kinds, n \in Amounts :
        writer' = [writer EXCEPT ![w] =
            [pc |-> IF Allowed(kind, row, n) THEN "save" ELSE "refused",
             kind |-> kind, amount |-> n, seen |-> row]]
  BY DEF Read
<1> DEFINE k == [pc |-> IF Allowed(kind, row, n) THEN "save" ELSE "refused",
                 kind |-> kind, amount |-> n, seen |-> row]
<1>3. k \in Writer
  BY DEF IInv, TypeOK, Writer
<1>4. WriterCovered(k)
  BY DEF IInv, SavesCovered, WriterCovered, Allowed
<1> HIDE DEF k
<1>5. writer' = [writer EXCEPT ![w] = k]
  BY <1>2 DEF k
<1>6. TypeOK'
  BY <1>1, <1>3, <1>5 DEF IInv, TypeOK
<1>7. SavesCovered'
  BY <1>1, <1>4, <1>5 DEF IInv, TypeOK, SavesCovered
<1>8. DebitsCovered'
  BY <1>1 DEF IInv, DebitsCovered, DebitCovered
<1>9. QED
  BY <1>6, <1>7, <1>8 DEF IInv

(* A new row from a save.  If the save wrote over nothing, it left the     *)
(* version alone and took nothing from the quota.                          *)
LEMMA RowSaved ==
  ASSUME IInv, row' \in Row, UNCHANGED <<clock, debit>>,
         overwrote' \in BOOLEAN, overwrote => overwrote',
         ~overwrote' => row'.quota >= row.quota /\ row'.version = row.version
  PROVE  DebitsCovered'
<1>1. row.quota \in Int /\ row'.quota \in Int
  BY DEF IInv, TypeOK, Row
<1>2. ASSUME ~overwrote', NEW e \in Debits PROVE DebitCovered(debit[e])'
  <2>1. debit[e].amount \in Int
    BY Constants DEF IInv, TypeOK, DebitCall
  <2>2. QED
    BY <1>1, <1>2, <2>1 DEF IInv, DebitsCovered, DebitCovered
<1>3. QED
  BY <1>1, <1>2 DEF IInv, DebitsCovered

LEMMA SaveInv == ASSUME IInv, NEW w \in Writers, Save(w) PROVE IInv'
<1> DEFINE k == writer[w]
           new == Changed(k.kind, k.seen, k.amount)
<1>1. /\ k \in Writer /\ k.kind \in Kinds /\ k.seen \in Row /\ k.amount \in Amounts
      /\ row \in Row /\ overwrote \in BOOLEAN
  BY DEF IInv, TypeOK, Writer
<1>2. UNCHANGED <<clock, debit, credit, admin>> /\ k.pc = "save"
  BY DEF Save
<1>3. CASE /\ row' = Written(k.kind, new)
           /\ overwrote' = (overwrote \/ Written(k.kind, k.seen) # row)
           /\ order' = IF k.kind = "withdraw"
                       THEN [order EXCEPT ![w] = [@ EXCEPT !.status = "pending", !.amount = k.amount]]
                       ELSE order
           /\ writer' = [writer EXCEPT ![w].pc = "done"]
  <2>1. /\ new \in Row /\ new.version = k.seen.version /\ new.quota >= k.seen.quota
        /\ new.aff >= 0
    BY <1>1, <1>2, ChangedRow DEF IInv, SavesCovered, WriterCovered
  <2>2. row' \in Row /\ row'.aff >= 0
    BY <1>1, <1>3, <2>1, WrittenRow DEF IInv, SavesCovered
  <2>3. [k EXCEPT !.pc = "done"] \in Writer /\ writer' = [writer EXCEPT ![w] = [k EXCEPT !.pc = "done"]]
    BY <1>1, <1>3 DEF Writer
  <2>4. order' \in [Writers -> Withdrawal]
    <3>1. [order[w] EXCEPT !.status = "pending", !.amount = k.amount] \in Withdrawal
      BY <1>1 DEF IInv, TypeOK, Withdrawal, Statuses
    <3>2. QED
      BY <1>3, <3>1 DEF IInv, TypeOK
  <2>5. TypeOK'
    BY <1>2, <1>3, <2>2, <2>3, <2>4 DEF IInv, TypeOK
  <2>6. SavesCovered'
    <3>1. ASSUME NEW v \in Writers PROVE WriterCovered(writer'[v])
      <4>1. CASE v = w
        BY <1>1, <2>3, <4>1 DEF IInv, TypeOK, WriterCovered
      <4>2. CASE v # w
        BY <2>3, <4>2 DEF IInv, TypeOK, SavesCovered
      <4>3. QED
        BY <4>1, <4>2
    <3>2. QED
      BY <1>2, <2>2, <3>1 DEF IInv, SavesCovered
  <2>7. ~overwrote' => row'.quota >= row.quota /\ row'.version = row.version
    <3>1. SUFFICES ASSUME Written(k.kind, k.seen) = row
                   PROVE  row'.quota >= row.quota /\ row'.version = row.version
      BY <1>3
    <3>2. row.quota \in Int
      BY <1>1 DEF Row
    <3>3. CASE k.kind = "profile"
      <4>1. new = k.seen
        BY <3>3 DEF Changed
      <4>2. row' = row
        BY <1>3, <3>1, <4>1
      <4>3. QED
        BY <3>2, <4>2
    <3>4. CASE k.kind # "profile"
      <4>1. k.seen = row /\ row' = new
        BY <1>3, <3>1, <3>4 DEF Written
      <4>2. QED
        BY <2>1, <4>1
    <3>5. QED
      BY <3>3, <3>4
  <2>8. DebitsCovered'
    BY <1>2, <1>3, <2>2, <2>5, <2>7, RowSaved DEF TypeOK
  <2>9. QED
    BY <2>5, <2>6, <2>8 DEF IInv
<1>4. CASE writer' = [writer EXCEPT ![w].pc = "error"] /\ UNCHANGED <<row, overwrote, order>>
  <2>1. [k EXCEPT !.pc = "error"] \in Writer /\ writer' = [writer EXCEPT ![w] = [k EXCEPT !.pc = "error"]]
    BY <1>1, <1>4 DEF Writer
  <2>2. WriterCovered([k EXCEPT !.pc = "error"])
    BY <1>1 DEF WriterCovered
  <2>3. TypeOK'
    BY <1>2, <1>4, <2>1 DEF IInv, TypeOK
  <2>4. SavesCovered'
    BY <1>2, <1>4, <2>1, <2>2 DEF IInv, TypeOK, SavesCovered
  <2>5. DebitsCovered'
    BY <1>2, <1>4 DEF IInv, DebitsCovered, DebitCovered
  <2>6. QED
    BY <2>3, <2>4, <2>5 DEF IInv
<1>5. QED
  BY <1>3, <1>4 DEF Save

-----------------------------------------------------------------------------
(* A step of one administrator that leaves the row and the writers alone.  *)
LEMMA AdminMoves ==
  ASSUME IInv, NEW a \in Admins, NEW k \in Admin, k.pc = "refund" => k.seen.aff >= 0,
         admin' = [admin EXCEPT ![a] = k], order' \in [Writers -> Withdrawal],
         UNCHANGED <<row, clock, debit, credit, writer, overwrote>>
  PROVE  IInv'
<1>1. TypeOK'
  BY DEF IInv, TypeOK
<1>2. SavesCovered'
  BY DEF IInv, TypeOK, SavesCovered
<1>3. DebitsCovered'
  BY DEF IInv, DebitsCovered, DebitCovered
<1>4. QED
  BY <1>1, <1>2, <1>3 DEF IInv

LEMMA OrderInv == ASSUME IInv, NEW a \in Admins, Order(a) PROVE IInv'
<1> DEFINE k == [admin[a] EXCEPT !.pc = IF admin[a].asked = "rejected" THEN "user" ELSE "status",
                                 !.status = order[admin[a].order].status]
<1>1. admin[a] \in Admin /\ order \in [Writers -> Withdrawal]
  BY DEF IInv, TypeOK
<1>2. order[admin[a].order].status \in Statuses
  BY <1>1 DEF Admin, Withdrawal
<1>3. k \in Admin /\ k.pc # "refund"
  BY <1>1, <1>2 DEF Admin
<1>4. admin' = [admin EXCEPT ![a] = k] /\ UNCHANGED <<row, clock, debit, credit, writer, order, overwrote>>
  BY DEF Order
<1> HIDE DEF k
<1>5. QED
  BY <1>1, <1>3, <1>4, AdminMoves

LEMMA ReadUserInv == ASSUME IInv, NEW a \in Admins, ReadUser(a) PROVE IInv'
<1> DEFINE k == [admin[a] EXCEPT !.pc = "refund", !.seen = row]
<1>1. k \in Admin /\ order \in [Writers -> Withdrawal]
  BY DEF IInv, TypeOK, Admin
<1>2. admin[a] \in Admin
  BY DEF IInv, TypeOK
<1>3. k.seen.aff >= 0
  BY <1>2 DEF IInv, SavesCovered, Admin
<1>4. admin' = [admin EXCEPT ![a] = k] /\ UNCHANGED <<row, clock, debit, credit, writer, order, overwrote>>
  BY DEF ReadUser
<1> HIDE DEF k
<1>5. QED
  BY <1>1, <1>3, <1>4, AdminMoves

LEMMA RefundInv == ASSUME IInv, NEW a \in Admins, Refund(a) PROVE IInv'
<1> DEFINE k == admin[a]
           o == order[k.order]
<1>1. k \in Admin /\ k.order \in Writers /\ k.seen \in Row /\ k.status \in Statuses
  BY DEF IInv, TypeOK, Admin
<1>2. o \in Withdrawal /\ o.amount \in Int /\ o.amount >= 0 /\ o.refunds \in Nat
  BY <1>1, Constants DEF IInv, TypeOK, Withdrawal
<1>3. UNCHANGED <<clock, debit, credit, writer>> /\ k.pc = "refund"
  BY DEF Refund
<1>4. CASE /\ row' = [k.seen EXCEPT !.aff = @ + o.amount]
           /\ overwrote' = (overwrote \/ k.seen # row)
           /\ order' = [order EXCEPT ![k.order] =
                 [o EXCEPT !.status = k.status, !.refunds = o.refunds + 1]]
           /\ admin' = [admin EXCEPT ![a].pc = "status"]
  <2>1. k.seen.aff >= 0 /\ k.seen.aff \in Int
    BY <1>1, <1>3 DEF IInv, SavesCovered, Row
  <2>2. /\ row' \in Row /\ row'.aff >= 0
        /\ row'.quota = k.seen.quota /\ row'.version = k.seen.version
    BY <1>1, <1>2, <1>4, <2>1 DEF Row
  <2>3. order' \in [Writers -> Withdrawal]
    <3>1. [o EXCEPT !.status = k.status, !.refunds = o.refunds + 1] \in Withdrawal
      <4>1. o.refunds + 1 \in Nat
        BY <1>2
      <4>2. QED
        BY <1>1, <1>2, <4>1 DEF Withdrawal
    <3>2. QED
      BY <1>1, <1>4, <3>1 DEF IInv, TypeOK
  <2>4. [k EXCEPT !.pc = "status"] \in Admin /\ admin' = [admin EXCEPT ![a] = [k EXCEPT !.pc = "status"]]
    BY <1>1, <1>4 DEF Admin
  <2>5. overwrote' \in BOOLEAN
    BY <1>4 DEF IInv, TypeOK
  <2>6. TypeOK'
    BY <1>3, <2>2, <2>3, <2>4, <2>5 DEF IInv, TypeOK
  <2>7. SavesCovered'
    <3>1. ASSUME NEW b \in Admins, admin'[b].pc = "refund" PROVE admin'[b].seen.aff >= 0
      <4>1. CASE b = a
        BY <1>1, <2>4, <3>1, <4>1 DEF IInv, TypeOK, Admin
      <4>2. CASE b # a
        BY <2>4, <3>1, <4>2 DEF IInv, TypeOK, SavesCovered
      <4>3. QED
        BY <4>1, <4>2
    <3>2. QED
      BY <1>3, <2>2, <3>1 DEF IInv, SavesCovered
  <2>8. ~overwrote' => row'.quota >= row.quota /\ row'.version = row.version
    <3>1. SUFFICES ASSUME k.seen = row PROVE row'.quota >= row.quota /\ row'.version = row.version
      BY <1>4
    <3>2. row.quota \in Int
      BY DEF IInv, TypeOK, Row
    <3>3. QED
      BY <2>2, <3>1, <3>2
  <2>9. DebitsCovered'
    BY <1>3, <1>4, <2>2, <2>5, <2>8, RowSaved
  <2>10. QED
    BY <2>6, <2>7, <2>9 DEF IInv
<1>5. CASE admin' = [admin EXCEPT ![a].pc = "error"] /\ UNCHANGED <<row, overwrote, order>>
  <2>1. [k EXCEPT !.pc = "error"] \in Admin /\ admin' = [admin EXCEPT ![a] = [k EXCEPT !.pc = "error"]]
        /\ [k EXCEPT !.pc = "error"].pc # "refund"
    BY <1>1, <1>5 DEF Admin
  <2>2. order' \in [Writers -> Withdrawal]
    BY <1>5 DEF IInv, TypeOK
  <2>3. QED
    BY <1>3, <1>5, <2>1, <2>2, AdminMoves
<1>6. QED
  BY <1>4, <1>5 DEF Refund

LEMMA SetStatusInv == ASSUME IInv, NEW a \in Admins, SetStatus(a) PROVE IInv'
<1> DEFINE k == admin[a]
<1>1. k \in Admin /\ k.order \in Writers /\ k.asked \in Statuses
  BY DEF IInv, TypeOK, Admin, Statuses
<1>2. order' \in [Writers -> Withdrawal]
  <2>1. [order[k.order] EXCEPT !.status = k.asked] \in Withdrawal
    BY <1>1 DEF IInv, TypeOK, Withdrawal
  <2>2. order' = order \/ order' = [order EXCEPT ![k.order] = [order[k.order] EXCEPT !.status = k.asked]]
    BY DEF SetStatus
  <2>3. QED
    BY <1>1, <2>1, <2>2 DEF IInv, TypeOK
<1>3. PICK pc \in {"done", "error"} : admin' = [admin EXCEPT ![a] = [k EXCEPT !.pc = pc]]
  BY DEF SetStatus
<1>4. [k EXCEPT !.pc = pc] \in Admin /\ [k EXCEPT !.pc = pc].pc # "refund"
  BY <1>1 DEF Admin
<1>5. UNCHANGED <<row, clock, debit, credit, writer, overwrote>>
  BY DEF SetStatus
<1>6. QED
  BY <1>2, <1>3, <1>4, <1>5, AdminMoves

-----------------------------------------------------------------------------
LEMMA Inductive == IInv /\ [Next]_vars => IInv'
<1>1. SUFFICES ASSUME IInv, [Next]_vars PROVE IInv'
  OBVIOUS
<1>2. CASE \E d \in Debits : Begin(d) \/ Check(d) \/ Debit(d)
  BY <1>1, <1>2, BeginInv, CheckInv, DebitInv
<1>3. CASE \E c \in Credits : Credit(c)
  BY <1>1, <1>3, CreditInv
<1>4. CASE \E w \in Writers : Read(w) \/ Save(w)
  BY <1>1, <1>4, ReadInv, SaveInv
<1>5. CASE \E a \in Admins : Order(a) \/ ReadUser(a) \/ Refund(a) \/ SetStatus(a)
  BY <1>1, <1>5, OrderInv, ReadUserInv, RefundInv, SetStatusInv
<1>6. CASE UNCHANGED vars
  <2>1. TypeOK' /\ SavesCovered'
    BY <1>1, <1>6 DEF vars, IInv, TypeOK, SavesCovered
  <2>2. DebitsCovered'
    BY <1>1, <1>6 DEF vars, IInv, DebitsCovered, DebitCovered
  <2>3. QED
    BY <2>1, <2>2 DEF IInv
<1>7. QED
  BY <1>1, <1>2, <1>3, <1>4, <1>5, <1>6 DEF Next

(* The row, the orders and every call keep their types; a debit makes at   *)
(* most two tries.                                                         *)
THEOREM TypeCorrect == Spec => []TypeOK
<1>1. IInv => TypeOK
  BY DEF IInv
<1>2. QED
  BY <1>1, InitInv, Inductive, PTL DEF Spec

(* However transfers, withdrawals, invitations, profile edits and refunds  *)
(* overlap, the invitation quota is not spent below zero.                  *)
THEOREM AffStaysCovered == Spec => []AffNeverNegative
<1>1. IInv => AffNeverNegative
  BY DEF IInv, SavesCovered, AffNeverNegative
<1>2. QED
  BY <1>1, InitInv, Inductive, PTL DEF Spec

(* The optimistic debit is sound against every writer but a stale save.    *)
THEOREM DebitSound == Spec => []OverdraftNeedsOverwrite
<1>1. IInv => OverdraftNeedsOverwrite
  BY DEF IInv, TypeOK, Row, DebitsCovered, OverdraftNeedsOverwrite
<1>2. QED
  BY <1>1, InitInv, Inductive, PTL DEF Spec

-----------------------------------------------------------------------------
(* The books.  Every sum changes at one entry; what a save adds to the row *)
(* is what the entry of its handler adds, if it saved over nothing.        *)
(* OrdersMade: the save that creates an order finds nothing paid back.     *)

OrdersMade ==
    /\ \A w \in Writers : writer[w].pc # "done" => order[w].refunds = 0 /\ order[w].status = "none"
    /\ \A a \in Admins : admin[a].pc # "idle" => writer[admin[a].order].pc = "done"

BooksInv == OrdersMade /\ BooksKeptUnlessOverwritten

PaidBy(k) == IF k.pc = "ok" THEN k.amount ELSE 0
GivenBack(n) == IF n = -1 THEN 0 ELSE n
DoneBy(k, kinds) == IF k.pc = "done" /\ k.kind \in kinds THEN k.amount ELSE 0
PaidBack(o) == o.refunds * o.amount

LEMMA EntryTypes ==
  /\ \A k \in DebitCall : PaidBy(k) \in Int
  /\ \A n \in Amounts \cup {-1} : GivenBack(n) \in Int
  /\ \A k \in Writer : k.amount \in Int /\ \A kinds : DoneBy(k, kinds) \in Int
  /\ \A o \in Withdrawal : PaidBack(o) \in Int /\ o.refunds \in Nat /\ o.amount \in Nat
<1>1. ASSUME NEW k \in DebitCall PROVE PaidBy(k) \in Int
  <2>1. k.amount \in Int
    BY Constants DEF DebitCall
  <2>2. QED
    BY <2>1 DEF PaidBy
<1>2. ASSUME NEW n \in Amounts \cup {-1} PROVE GivenBack(n) \in Int
  BY Constants DEF GivenBack
<1>3. ASSUME NEW k \in Writer PROVE k.amount \in Int /\ \A kinds : DoneBy(k, kinds) \in Int
  <2>1. k.amount \in Int
    BY Constants DEF Writer
  <2>2. QED
    BY <2>1 DEF DoneBy
<1>4. ASSUME NEW o \in Withdrawal
      PROVE  PaidBack(o) \in Int /\ o.refunds \in Nat /\ o.amount \in Nat
  <2>1. o.amount \in Nat /\ o.refunds \in Nat
    BY Constants DEF Withdrawal
  <2>2. o.refunds * o.amount \in Int
    BY <2>1
  <2>3. QED
    BY <2>1, <2>2 DEF PaidBack
<1>5. QED
  BY <1>1, <1>2, <1>3, <1>4

LEMMA BookTypes ==
  ASSUME TypeOK
  PROVE  /\ Debited \in Int /\ Credited \in Int /\ Refunded \in Int
         /\ \A kinds : DoneOf(kinds) \in Int
         /\ row.quota \in Int /\ row.aff \in Int /\ InitialQuota \in Int /\ InitialAff \in Int
<1>1. [d \in Debits |-> PaidBy(debit[d])] \in [Debits -> Int]
  BY EntryTypes DEF TypeOK
<1>2. [c \in Credits |-> GivenBack(credit[c])] \in [Credits -> Int]
  BY EntryTypes DEF TypeOK
<1>3. [w \in Writers |-> PaidBack(order[w])] \in [Writers -> Int]
  BY EntryTypes DEF TypeOK
<1>4. ASSUME NEW kinds PROVE [w \in Writers |-> DoneBy(writer[w], kinds)] \in [Writers -> Int]
  BY EntryTypes DEF TypeOK
<1>5. Debited \in Int
  BY <1>1, SumType, FiniteAssumption DEF Debited, PaidBy
<1>6. Credited \in Int
  BY <1>2, SumType, FiniteAssumption DEF Credited, GivenBack
<1>7. Refunded \in Int
  BY <1>3, SumType, FiniteAssumption DEF Refunded, PaidBack
<1>8. ASSUME NEW kinds PROVE DoneOf(kinds) \in Int
  BY <1>4, SumType, FiniteAssumption DEF DoneOf, DoneBy
<1>9. row.quota \in Int /\ row.aff \in Int /\ InitialQuota \in Int /\ InitialAff \in Int
  BY InitialAssumption DEF TypeOK, Row
<1>10. QED
  BY <1>5, <1>6, <1>7, <1>8, <1>9

LEMMA DebitedChange ==
  ASSUME TypeOK, NEW d \in Debits, NEW k \in DebitCall, debit' = [debit EXCEPT ![d] = k]
  PROVE  Debited' = Debited + PaidBy(k) - PaidBy(debit[d])
<1> DEFINE f == [e \in Debits |-> PaidBy(debit[e])]
           g == [e \in Debits |-> PaidBy(debit'[e])]
<1>1. f \in [Debits -> Int] /\ f[d] = PaidBy(debit[d])
  BY EntryTypes DEF TypeOK
<1>2. g \in [Debits -> Int] /\ g[d] = PaidBy(k) /\ \A e \in Debits : e # d => g[e] = f[e]
  BY EntryTypes DEF TypeOK
<1>3. Debited = SumFunction(f) /\ Debited' = SumFunction(g)
  BY Zenon DEF Debited, PaidBy
<1> HIDE DEF f, g
<1>4. SumFunction(g) = SumFunction(f) + g[d] - f[d]
  BY <1>1, <1>2, SumChange, FiniteAssumption
<1>5. QED
  BY <1>1, <1>2, <1>3, <1>4

LEMMA CreditedChange ==
  ASSUME TypeOK, NEW c \in Credits, NEW n \in Amounts, credit' = [credit EXCEPT ![c] = n]
  PROVE  Credited' = Credited + GivenBack(n) - GivenBack(credit[c])
<1> DEFINE f == [e \in Credits |-> GivenBack(credit[e])]
           g == [e \in Credits |-> GivenBack(credit'[e])]
<1>1. f \in [Credits -> Int] /\ f[c] = GivenBack(credit[c])
  BY EntryTypes DEF TypeOK
<1>2. g \in [Credits -> Int] /\ g[c] = GivenBack(n) /\ \A e \in Credits : e # c => g[e] = f[e]
  BY EntryTypes DEF TypeOK
<1>3. Credited = SumFunction(f) /\ Credited' = SumFunction(g)
  BY Zenon DEF Credited, GivenBack
<1> HIDE DEF f, g
<1>4. SumFunction(g) = SumFunction(f) + g[c] - f[c]
  BY <1>1, <1>2, SumChange, FiniteAssumption
<1>5. QED
  BY <1>1, <1>2, <1>3, <1>4

LEMMA DoneChange ==
  ASSUME TypeOK, NEW w \in Writers, NEW k \in Writer, writer' = [writer EXCEPT ![w] = k], NEW kinds
  PROVE  DoneOf(kinds)' = DoneOf(kinds) + DoneBy(k, kinds) - DoneBy(writer[w], kinds)
<1> DEFINE f == [e \in Writers |-> DoneBy(writer[e], kinds)]
           g == [e \in Writers |-> DoneBy(writer'[e], kinds)]
<1>1. f \in [Writers -> Int] /\ f[w] = DoneBy(writer[w], kinds)
  BY EntryTypes DEF TypeOK
<1>2. g \in [Writers -> Int] /\ g[w] = DoneBy(k, kinds) /\ \A e \in Writers : e # w => g[e] = f[e]
  BY EntryTypes DEF TypeOK
<1>3. DoneOf(kinds) = SumFunction(f) /\ DoneOf(kinds)' = SumFunction(g)
  BY Zenon DEF DoneOf, DoneBy
<1> HIDE DEF f, g
<1>4. SumFunction(g) = SumFunction(f) + g[w] - f[w]
  BY <1>1, <1>2, SumChange, FiniteAssumption
<1>5. QED
  BY <1>1, <1>2, <1>3, <1>4

LEMMA RefundedChange ==
  ASSUME TypeOK, NEW w \in Writers, NEW o \in Withdrawal, order' = [order EXCEPT ![w] = o]
  PROVE  Refunded' = Refunded + PaidBack(o) - PaidBack(order[w])
<1> DEFINE f == [e \in Writers |-> PaidBack(order[e])]
           g == [e \in Writers |-> PaidBack(order'[e])]
<1>1. f \in [Writers -> Int] /\ f[w] = PaidBack(order[w])
  BY EntryTypes DEF TypeOK
<1>2. g \in [Writers -> Int] /\ g[w] = PaidBack(o) /\ \A e \in Writers : e # w => g[e] = f[e]
  BY EntryTypes DEF TypeOK
<1>3. Refunded = SumFunction(f) /\ Refunded' = SumFunction(g)
  BY Zenon DEF Refunded, PaidBack
<1> HIDE DEF f, g
<1>4. SumFunction(g) = SumFunction(f) + g[w] - f[w]
  BY <1>1, <1>2, SumChange, FiniteAssumption
<1>5. QED
  BY <1>1, <1>2, <1>3, <1>4

(* A sum is untouched by a step that leaves its calls alone.               *)
LEMMA SumsKept ==
  /\ UNCHANGED debit => UNCHANGED Debited
  /\ UNCHANGED credit => UNCHANGED Credited
  /\ UNCHANGED order => UNCHANGED Refunded
  /\ \A kinds : UNCHANGED writer => UNCHANGED DoneOf(kinds)
  BY Zenon DEF Debited, Credited, Refunded, DoneOf

LEMMA InitBooks == Init => BooksInv
<1>1. SUFFICES ASSUME Init PROVE BooksInv
  OBVIOUS
<1>2. TypeOK
  BY <1>1, InitInv DEF IInv
<1>3. OrdersMade
  BY <1>1 DEF Init, OrdersMade
<1>4. Debited = 0
  <2>1. \A d \in Debits : [e \in Debits |-> PaidBy(debit[e])][d] = 0
    BY <1>1 DEF Init, PaidBy
  <2>2. QED
    BY <2>1, SumZero, FiniteAssumption DEF Debited, PaidBy
<1>5. Credited = 0
  <2>1. \A c \in Credits : [e \in Credits |-> GivenBack(credit[e])][c] = 0
    BY <1>1 DEF Init, GivenBack
  <2>2. QED
    BY <2>1, SumZero, FiniteAssumption DEF Credited, GivenBack
<1>6. Refunded = 0
  <2>1. \A w \in Writers : [e \in Writers |-> PaidBack(order[e])][w] = 0
    BY <1>1, Constants DEF Init, PaidBack
  <2>2. QED
    BY <2>1, SumZero, FiniteAssumption DEF Refunded, PaidBack
<1>7. ASSUME NEW kinds PROVE DoneOf(kinds) = 0
  <2>1. \A w \in Writers : [e \in Writers |-> DoneBy(writer[e], kinds)][w] = 0
    BY <1>1 DEF Init, DoneBy
  <2>2. QED
    BY <2>1, SumZero, FiniteAssumption DEF DoneOf, DoneBy
<1>8. Books
  BY <1>1, <1>4, <1>5, <1>6, <1>7, InitialAssumption DEF Init, FirstRow, Books
<1>9. QED
  BY <1>3, <1>8 DEF BooksInv, BooksKeptUnlessOverwritten

(* One debit moves, and the quota by what it paid.                         *)
LEMMA BooksByDebit ==
  ASSUME TypeOK, BooksInv, NEW d \in Debits, NEW k \in DebitCall, debit' = [debit EXCEPT ![d] = k],
         row'.quota = row.quota + PaidBy(debit[d]) - PaidBy(k), row'.aff = row.aff,
         UNCHANGED <<credit, writer, order, admin, overwrote>>
  PROVE  BooksInv'
<1>1. OrdersMade'
  BY DEF BooksInv, OrdersMade
<1>2. Debited' = Debited + PaidBy(k) - PaidBy(debit[d])
  BY DebitedChange
<1>3. UNCHANGED <<Credited, Refunded, DoneOf({"transfer"}), DoneOf({"invite"}),
                  DoneOf({"transfer", "withdraw"})>>
  BY SumsKept
<1>4. PaidBy(k) \in Int /\ PaidBy(debit[d]) \in Int
  BY EntryTypes DEF TypeOK
<1>5. ~overwrote => Books'
  BY <1>2, <1>3, <1>4, BookTypes DEF BooksInv, BooksKeptUnlessOverwritten, Books
<1>6. QED
  BY <1>1, <1>5 DEF BooksInv, BooksKeptUnlessOverwritten

LEMMA DebitBooks ==
  ASSUME IInv, BooksInv, NEW d \in Debits, Begin(d) \/ Check(d) \/ Debit(d)
  PROVE  BooksInv'
<1> DEFINE k == debit[d]
<1>0. TypeOK /\ k \in DebitCall /\ row \in Row /\ row.quota \in Int
  BY DEF IInv, TypeOK, Row
<1>1. UNCHANGED <<credit, writer, order, admin, overwrote>>
  BY DEF Begin, Check, Debit
<1>2. ASSUME NEW n \in DebitCall, debit' = [debit EXCEPT ![d] = n], k.pc # "ok", n.pc # "ok",
             UNCHANGED row
      PROVE  BooksInv'
  <2>1. PaidBy(n) = 0 /\ PaidBy(k) = 0
    BY <1>2 DEF PaidBy
  <2>2. row'.quota = row.quota + PaidBy(k) - PaidBy(n) /\ row'.aff = row.aff
    BY <1>0, <1>2, <2>1
  <2>3. QED
    BY <1>0, <1>1, <1>2, <2>2, BooksByDebit
<1>3. CASE Begin(d)
  <2>1. PICK n \in Amounts : debit' = [debit EXCEPT ![d] = [k EXCEPT !.pc = "check", !.amount = n]]
    BY <1>3 DEF Begin
  <2>2. /\ [k EXCEPT !.pc = "check", !.amount = n] \in DebitCall
        /\ [k EXCEPT !.pc = "check", !.amount = n].pc = "check"
    BY <1>0 DEF DebitCall
  <2>3. k.pc = "idle" /\ UNCHANGED row
    BY <1>3 DEF Begin
  <2>4. QED
    BY <1>2, <2>1, <2>2, <2>3
<1>4. CASE Check(d)
  <2> DEFINE a == [k EXCEPT !.pc = "debit", !.version = row.version]
             b == [k EXCEPT !.pc = "short"]
  <2>1. a \in DebitCall /\ a.pc = "debit" /\ b \in DebitCall /\ b.pc = "short"
    BY <1>0 DEF DebitCall, Row
  <2>2. /\ debit' = [debit EXCEPT ![d] = a] \/ debit' = [debit EXCEPT ![d] = b]
        /\ k.pc = "check" /\ UNCHANGED row
    BY <1>4 DEF Check
  <2> HIDE DEF a, b, k
  <2>3. QED
    BY <1>2, <2>1, <2>2
<1>5. CASE Debit(d)
  <2>0. k.pc = "debit"
    BY <1>5 DEF Debit
  <2>1. CASE /\ row' = [row EXCEPT !.quota = @ - k.amount, !.version = clock + 1]
             /\ debit' = [debit EXCEPT ![d].pc = "ok"]
    <3> DEFINE n == [k EXCEPT !.pc = "ok"]
    <3>1. n \in DebitCall /\ n.pc = "ok" /\ n.amount = k.amount /\ k.amount \in Int
      BY <1>0, Constants DEF DebitCall
    <3>2. PaidBy(n) = k.amount /\ PaidBy(k) = 0
      BY <2>0, <3>1 DEF PaidBy
    <3>3. row'.quota = row.quota - k.amount /\ row'.aff = row.aff
      BY <1>0, <2>1 DEF Row
    <3>4. debit' = [debit EXCEPT ![d] = n]
      BY <2>1
    <3> HIDE DEF n
    <3>5. row'.quota = row.quota + PaidBy(k) - PaidBy(n)
      BY <1>0, <3>1, <3>2, <3>3
    <3>6. QED
      BY <1>0, <1>1, <3>1, <3>3, <3>4, <3>5, BooksByDebit
  <2>2. ASSUME NEW pc \in {"check", "failed", "error"}, NEW t \in 0..(MaxRetries - 1),
               debit' = [debit EXCEPT ![d] = [k EXCEPT !.pc = pc, !.tries = t]], UNCHANGED row
        PROVE  BooksInv'
    <3>1. /\ [k EXCEPT !.pc = pc, !.tries = t] \in DebitCall
          /\ [k EXCEPT !.pc = pc, !.tries = t].pc = pc
      BY <1>0 DEF DebitCall
    <3>2. pc # "ok"
      OBVIOUS
    <3>3. QED
      BY <1>2, <2>0, <2>2, <3>1, <3>2
  <2>3. CASE /\ debit' = [debit EXCEPT ![d] =
                   IF GivesUp(k.tries) THEN [k EXCEPT !.pc = "failed"]
                   ELSE [k EXCEPT !.pc = "check", !.tries = k.tries + 1]]
             /\ UNCHANGED row
    <3>1. CASE GivesUp(k.tries)
      <4>1. [k EXCEPT !.pc = "failed"] = [k EXCEPT !.pc = "failed", !.tries = k.tries]
            /\ k.tries \in 0..(MaxRetries - 1)
        BY <1>0 DEF DebitCall
      <4>2. QED
        BY <2>2, <2>3, <3>1, <4>1
    <3>2. CASE ~GivesUp(k.tries)
      <4>1. k.tries + 1 \in 0..(MaxRetries - 1)
        BY <1>0, <3>2 DEF GivesUp, MaxRetries, DebitCall
      <4>2. QED
        BY <2>2, <2>3, <3>2, <4>1
    <3>3. QED
      BY <3>1, <3>2
  <2>4. CASE debit' = [debit EXCEPT ![d].pc = "error"] /\ UNCHANGED row
    <3>1. debit' = [debit EXCEPT ![d] = [k EXCEPT !.pc = "error", !.tries = k.tries]]
          /\ k.tries \in 0..(MaxRetries - 1)
      BY <1>0, <2>4 DEF DebitCall
    <3>2. QED
      BY <2>2, <2>4, <3>1
  <2>5. QED
    BY <1>5, <2>1, <2>3, <2>4 DEF Debit
<1>6. QED
  BY <1>3, <1>4, <1>5

LEMMA CreditBooks == ASSUME IInv, BooksInv, NEW c \in Credits, Credit(c) PROVE BooksInv'
<1>0. TypeOK /\ row \in Row /\ row.quota \in Int
  BY DEF IInv, TypeOK, Row
<1>1. PICK n \in Amounts : /\ credit' = [credit EXCEPT ![c] = n]
                           /\ row' = [row EXCEPT !.quota = @ + n]
  BY DEF Credit
<1>2. UNCHANGED <<debit, writer, order, admin, overwrote>> /\ credit[c] = -1
  BY DEF Credit
<1>3. n \in Int /\ GivenBack(n) = n /\ GivenBack(credit[c]) = 0
  BY <1>2, Constants DEF GivenBack
<1>4. row'.quota = row.quota + n /\ row'.aff = row.aff
  BY <1>0, <1>1 DEF Row
<1>5. Credited' = Credited + GivenBack(n) - GivenBack(credit[c])
  BY <1>0, <1>1, CreditedChange
<1>6. UNCHANGED <<Debited, Refunded, DoneOf({"transfer"}), DoneOf({"invite"}),
                  DoneOf({"transfer", "withdraw"})>>
  BY <1>2, SumsKept
<1>7. ~overwrote => Books'
  BY <1>0, <1>3, <1>4, <1>5, <1>6, BookTypes DEF BooksInv, BooksKeptUnlessOverwritten, Books
<1>8. OrdersMade'
  BY <1>2 DEF BooksInv, OrdersMade
<1>9. QED
  BY <1>2, <1>7, <1>8 DEF BooksInv, BooksKeptUnlessOverwritten

(* What a handler makes of the row, in the columns of the books.           *)
LEMMA ChangedBooks ==
  ASSUME NEW kind \in Kinds, NEW r \in Row, NEW n \in Amounts
  PROVE  /\ Changed(kind, r, n).quota = r.quota + IF kind \in {"transfer"} THEN n ELSE 0
         /\ Changed(kind, r, n).aff =
               (r.aff + IF kind \in {"invite"} THEN n ELSE 0)
                   - IF kind \in {"transfer", "withdraw"} THEN n ELSE 0
<1>1. r.quota \in Int /\ r.aff \in Int /\ r.history \in Int /\ n \in Int
  BY Constants DEF Row
<1>2. CASE kind = "transfer"
  <2>1. Changed(kind, r, n) = [r EXCEPT !.aff = r.aff - n, !.quota = r.quota + n]
    BY <1>2 DEF Changed
  <2>2. Changed(kind, r, n).quota = r.quota + n /\ Changed(kind, r, n).aff = r.aff - n
    BY <2>1 DEF Row
  <2>3. QED
    BY <1>1, <1>2, <2>2
<1>3. CASE kind = "withdraw"
  <2>1. Changed(kind, r, n) = [r EXCEPT !.aff = r.aff - n]
    BY <1>3 DEF Changed
  <2>2. Changed(kind, r, n).quota = r.quota /\ Changed(kind, r, n).aff = r.aff - n
    BY <2>1 DEF Row
  <2>3. QED
    BY <1>1, <1>3, <2>2
<1>4. CASE kind = "invite"
  <2>1. Changed(kind, r, n) = [r EXCEPT !.aff = r.aff + n, !.history = r.history + n]
    BY <1>4 DEF Changed
  <2>2. Changed(kind, r, n).quota = r.quota /\ Changed(kind, r, n).aff = r.aff + n
    BY <2>1 DEF Row
  <2>3. QED
    BY <1>1, <1>4, <2>2
<1>5. CASE kind = "profile"
  <2>1. Changed(kind, r, n) = r
    BY <1>5 DEF Changed
  <2>2. QED
    BY <1>1, <1>5, <2>1
<1>6. QED
  BY <1>2, <1>3, <1>4, <1>5 DEF Kinds

(* A writer that is not done moves, and nothing else.                      *)
LEMMA WriterBooks ==
  ASSUME TypeOK, BooksInv, NEW w \in Writers, NEW k \in Writer, writer' = [writer EXCEPT ![w] = k],
         writer[w].pc # "done", k.pc # "done",
         UNCHANGED <<row, debit, credit, order, admin, overwrote>>
  PROVE  BooksInv'
<1>1. ASSUME NEW kinds PROVE DoneOf(kinds)' = DoneOf(kinds)
  <2>1. DoneBy(k, kinds) = 0 /\ DoneBy(writer[w], kinds) = 0
    BY DEF DoneBy
  <2>2. DoneOf(kinds)' = DoneOf(kinds) + DoneBy(k, kinds) - DoneBy(writer[w], kinds)
    BY DoneChange
  <2>3. QED
    BY <2>1, <2>2, BookTypes
<1>2. UNCHANGED <<Debited, Credited, Refunded>>
  BY SumsKept
<1>3. ~overwrote => Books'
  BY <1>1, <1>2 DEF BooksInv, BooksKeptUnlessOverwritten, Books
<1>4. OrdersMade'
  BY DEF TypeOK, BooksInv, OrdersMade
<1>5. QED
  BY <1>3, <1>4 DEF BooksInv, BooksKeptUnlessOverwritten

LEMMA ReadBooks == ASSUME IInv, BooksInv, NEW w \in Writers, Read(w) PROVE BooksInv'
<1>0. TypeOK /\ row \in Row
  BY DEF IInv, TypeOK
<1>1. UNCHANGED <<row, debit, credit, order, admin, overwrote>> /\ writer[w].pc = "idle"
  BY DEF Read
<1>2. PICK kind \in Kinds, n \in Amounts :
        writer' = [writer EXCEPT ![w] =
            [pc |-> IF Allowed(kind, row, n) THEN "save" ELSE "refused",
             kind |-> kind, amount |-> n, seen |-> row]]
  BY DEF Read
<1> DEFINE k == [pc |-> IF Allowed(kind, row, n) THEN "save" ELSE "refused",
                 kind |-> kind, amount |-> n, seen |-> row]
<1>3. k \in Writer /\ k.pc # "done"
  BY <1>0 DEF Writer
<1> HIDE DEF k
<1>4. writer' = [writer EXCEPT ![w] = k]
  BY <1>2 DEF k
<1>5. QED
  BY <1>0, <1>1, <1>3, <1>4, WriterBooks

LEMMA SaveBooks == ASSUME IInv, BooksInv, NEW w \in Writers, Save(w) PROVE BooksInv'
<1> DEFINE k == writer[w]
           n == k.amount
           new == Changed(k.kind, k.seen, n)
<1>0. /\ TypeOK /\ k \in Writer /\ k.kind \in Kinds /\ k.seen \in Row /\ n \in Amounts /\ row \in Row
      /\ n \in Int
  BY Constants DEF IInv, TypeOK, Writer
<1>1. UNCHANGED <<debit, credit, admin>> /\ k.pc = "save"
  BY DEF Save
<1>2. CASE /\ row' = Written(k.kind, new)
           /\ overwrote' = (overwrote \/ Written(k.kind, k.seen) # row)
           /\ order' = IF k.kind = "withdraw"
                       THEN [order EXCEPT ![w] = [@ EXCEPT !.status = "pending", !.amount = n]]
                       ELSE order
           /\ writer' = [writer EXCEPT ![w].pc = "done"]
  <2> DEFINE m == [k EXCEPT !.pc = "done"]
  <2>1. /\ m \in Writer /\ m.pc = "done" /\ m.kind = k.kind /\ m.amount = n
        /\ writer' = [writer EXCEPT ![w] = m]
    BY <1>0, <1>2 DEF Writer
  <2>2. ASSUME NEW kinds
        PROVE  DoneOf(kinds)' = DoneOf(kinds) + IF k.kind \in kinds THEN n ELSE 0
    <3>1. DoneBy(k, kinds) = 0 /\ DoneBy(m, kinds) = IF k.kind \in kinds THEN n ELSE 0
      BY <1>1, <2>1, Zenon DEF DoneBy
    <3>2. DoneOf(kinds)' = DoneOf(kinds) + DoneBy(m, kinds) - DoneBy(k, kinds)
      BY <1>0, <2>1, DoneChange
    <3>3. DoneOf(kinds) \in Int
      BY <1>0, BookTypes
    <3>4. QED
      BY <1>0, <3>1, <3>2, <3>3
  <2>3. order[w] \in Withdrawal /\ order[w].refunds = 0 /\ order[w].amount \in Int
    <3>1. order[w] \in Withdrawal
      BY <1>0 DEF TypeOK
    <3>2. QED
      BY <1>1, <3>1, EntryTypes DEF BooksInv, OrdersMade
  <2>4. Refunded' = Refunded
    <3>1. CASE k.kind = "withdraw"
      <4> DEFINE o == [order[w] EXCEPT !.status = "pending", !.amount = n]
      <4>1. o \in Withdrawal /\ o.refunds = 0 /\ o.amount = n
        BY <1>0, <2>3 DEF Withdrawal, Statuses
      <4>2. order' = [order EXCEPT ![w] = o]
        BY <1>2, <3>1
      <4> HIDE DEF o
      <4>3. PaidBack(o) = 0 /\ PaidBack(order[w]) = 0
        BY <1>0, <2>3, <4>1 DEF PaidBack
      <4>4. Refunded' = Refunded + PaidBack(o) - PaidBack(order[w])
        BY <1>0, <4>1, <4>2, RefundedChange
      <4>5. QED
        BY <1>0, <4>3, <4>4, BookTypes
    <3>2. CASE k.kind # "withdraw"
      BY <1>2, <3>2, SumsKept
    <3>3. QED
      BY <3>1, <3>2
  <2>5. UNCHANGED <<Debited, Credited>>
    BY <1>1, SumsKept
  <2>6. ~overwrote' => /\ row'.quota = row.quota + IF k.kind \in {"transfer"} THEN n ELSE 0
                       /\ row'.aff = (row.aff + IF k.kind \in {"invite"} THEN n ELSE 0)
                              - IF k.kind \in {"transfer", "withdraw"} THEN n ELSE 0
    <3>1. SUFFICES ASSUME Written(k.kind, k.seen) = row
                   PROVE  /\ row'.quota = row.quota + IF k.kind \in {"transfer"} THEN n ELSE 0
                          /\ row'.aff = (row.aff + IF k.kind \in {"invite"} THEN n ELSE 0)
                                 - IF k.kind \in {"transfer", "withdraw"} THEN n ELSE 0
      BY <1>2
    <3>2. row' = Changed(k.kind, row, n)
      <4>1. CASE k.kind = "profile"
        BY <1>2, <3>1, <4>1 DEF Changed
      <4>2. CASE k.kind # "profile"
        BY <1>2, <3>1, <4>2 DEF Written
      <4>3. QED
        BY <4>1, <4>2
    <3>3. QED
      BY <1>0, <3>2, ChangedBooks
  <2>7. ASSUME ~overwrote' PROVE Books'
    <3>1. Books
      BY <1>2, <2>7 DEF BooksInv, BooksKeptUnlessOverwritten
    <3> DEFINE t == IF k.kind \in {"transfer"} THEN n ELSE 0
               i == IF k.kind \in {"invite"} THEN n ELSE 0
               v == IF k.kind \in {"transfer", "withdraw"} THEN n ELSE 0
    <3>2. t \in Int /\ i \in Int /\ v \in Int
      BY <1>0
    <3>3. /\ DoneOf({"transfer"})' = DoneOf({"transfer"}) + t
          /\ DoneOf({"invite"})' = DoneOf({"invite"}) + i
          /\ DoneOf({"transfer", "withdraw"})' = DoneOf({"transfer", "withdraw"}) + v
      BY <2>2
    <3>4. row'.quota = row.quota + t /\ row'.aff = (row.aff + i) - v
      BY <2>6, <2>7
    <3> HIDE DEF t, i, v
    <3>5. QED
      BY <1>0, <2>4, <2>5, <3>1, <3>2, <3>3, <3>4, BookTypes DEF Books
  <2>8. OrdersMade'
    <3>1. \A v \in Writers : v # w => order'[v] = order[v] /\ writer'[v] = writer[v]
      BY <1>0, <1>2, <2>1 DEF TypeOK
    <3>2. writer'[w].pc = "done"
      BY <1>0, <2>1 DEF TypeOK
    <3>3. \A v \in Writers : writer[v].pc = "done" => writer'[v].pc = "done"
      BY <3>1, <3>2
    <3>4. \A a \in Admins : admin[a].order \in Writers
      BY <1>0 DEF TypeOK, Admin
    <3>5. QED
      BY <1>1, <3>1, <3>2, <3>3, <3>4 DEF BooksInv, OrdersMade
  <2>9. QED
    BY <2>7, <2>8 DEF BooksInv, BooksKeptUnlessOverwritten
<1>3. CASE writer' = [writer EXCEPT ![w].pc = "error"] /\ UNCHANGED <<row, overwrote, order>>
  <2>1. /\ [k EXCEPT !.pc = "error"] \in Writer /\ [k EXCEPT !.pc = "error"].pc = "error"
        /\ writer' = [writer EXCEPT ![w] = [k EXCEPT !.pc = "error"]]
    BY <1>0, <1>3 DEF Writer
  <2>2. QED
    BY <1>0, <1>1, <1>3, <2>1, WriterBooks
<1>4. QED
  BY <1>2, <1>3 DEF Save

(* An order is saved with the same amount, and the row with the refund.    *)
LEMMA AdminBooks ==
  ASSUME TypeOK, BooksInv, NEW w \in Writers, NEW o \in Withdrawal, order' = [order EXCEPT ![w] = o],
         writer[w].pc = "done",
         ~overwrote' => ~overwrote /\ row'.quota = row.quota
                                   /\ row'.aff = row.aff + PaidBack(o) - PaidBack(order[w]),
         \A a \in Admins : admin'[a].order = admin[a].order
                           /\ (admin[a].pc = "idle" /\ admin'[a].pc # "idle" => admin[a].order = w),
         UNCHANGED <<debit, credit, writer>>
  PROVE  BooksInv'
<1>1. OrdersMade'
  <2>1. \A v \in Writers : v # w => order'[v] = order[v]
    BY DEF TypeOK
  <2>2. QED
    BY <2>1 DEF BooksInv, OrdersMade
<1>2. Refunded' = Refunded + PaidBack(o) - PaidBack(order[w])
  BY RefundedChange
<1>3. UNCHANGED <<Debited, Credited, DoneOf({"transfer"}), DoneOf({"invite"}),
                  DoneOf({"transfer", "withdraw"})>>
  BY SumsKept
<1>4. PaidBack(o) \in Int /\ PaidBack(order[w]) \in Int
  BY EntryTypes DEF TypeOK
<1>5. ~overwrote' => Books'
  BY <1>2, <1>3, <1>4, BookTypes DEF BooksInv, BooksKeptUnlessOverwritten, Books
<1>6. QED
  BY <1>1, <1>5 DEF BooksInv, BooksKeptUnlessOverwritten

LEMMA OrderBooks ==
  ASSUME IInv, BooksInv, NEW a \in Admins, Order(a) \/ ReadUser(a) \/ Refund(a) \/ SetStatus(a)
  PROVE  BooksInv'
<1> DEFINE k == admin[a]
           w == k.order
<1>0. /\ TypeOK /\ k \in Admin /\ w \in Writers /\ order[w] \in Withdrawal /\ k.seen \in Row
      /\ row \in Row /\ k.status \in Statuses /\ k.asked \in Statuses
  <2>1. k \in Admin
    BY DEF IInv, TypeOK
  <2>2. QED
    BY <2>1 DEF IInv, TypeOK, Admin, Statuses
<1>1. UNCHANGED <<debit, credit, writer>>
  BY DEF Order, ReadUser, Refund, SetStatus
<1>2. writer[w].pc = "done"
  BY <1>0 DEF Order, ReadUser, Refund, SetStatus, BooksInv, OrdersMade
<1>3. \A b \in Admins : admin'[b].order = admin[b].order
                        /\ (admin[b].pc = "idle" /\ admin'[b].pc # "idle" => admin[b].order = w)
  <2>1. ASSUME NEW n, admin' = [admin EXCEPT ![a] = n], n.order = w
        PROVE  \A b \in Admins : admin'[b].order = admin[b].order
                        /\ (admin[b].pc = "idle" /\ admin'[b].pc # "idle" => admin[b].order = w)
    BY <1>0, <2>1 DEF TypeOK
  <2>2. CASE Order(a)
    <3> DEFINE n == [k EXCEPT !.pc = IF k.asked = "rejected" THEN "user" ELSE "status",
                              !.status = order[k.order].status]
    <3>1. admin' = [admin EXCEPT ![a] = n] /\ n.order = w
      BY <1>0, <2>2 DEF Order, Admin
    <3> HIDE DEF n
    <3>2. QED
      BY <2>1, <3>1
  <2>3. CASE ReadUser(a)
    <3> DEFINE n == [k EXCEPT !.pc = "refund", !.seen = row]
    <3>1. admin' = [admin EXCEPT ![a] = n] /\ n.order = w
      BY <1>0, <2>3 DEF ReadUser, Admin
    <3> HIDE DEF n
    <3>2. QED
      BY <2>1, <3>1
  <2>4. CASE Refund(a) \/ SetStatus(a)
    <3>1. PICK pc \in {"status", "done", "error"} : admin' = [admin EXCEPT ![a] = [k EXCEPT !.pc = pc]]
      BY <2>4 DEF Refund, SetStatus
    <3>2. [k EXCEPT !.pc = pc].order = w
      BY <1>0 DEF Admin
    <3>3. QED
      BY <2>1, <3>1, <3>2
  <2>5. QED
    BY <2>2, <2>3, <2>4
<1>4. PaidBack(order[w]) \in Int /\ row.aff \in Int
  BY <1>0, EntryTypes DEF Row
<1>5. ASSUME NEW s \in Statuses, order' = [order EXCEPT ![w] = [order[w] EXCEPT !.status = s]],
             UNCHANGED <<row, overwrote>>
      PROVE  BooksInv'
  <2> DEFINE o == [order[w] EXCEPT !.status = s]
  <2>1. o \in Withdrawal /\ o.refunds = order[w].refunds /\ o.amount = order[w].amount
    BY <1>0 DEF Withdrawal
  <2>2. PaidBack(o) = PaidBack(order[w])
    BY <2>1, Zenon DEF PaidBack
  <2>3. row'.quota = row.quota /\ row'.aff = row.aff + PaidBack(o) - PaidBack(order[w])
    BY <1>4, <1>5, <2>2
  <2> HIDE DEF o
  <2>4. order' = [order EXCEPT ![w] = o]
    BY <1>5 DEF o
  <2> HIDE DEF w
  <2>5. QED
    BY <1>0, <1>1, <1>2, <1>3, <1>5, <2>1, <2>3, <2>4, AdminBooks
<1>6. CASE UNCHANGED <<row, overwrote, order>>
  <2>1. order' = [order EXCEPT ![w] = [order[w] EXCEPT !.status = order[w].status]]
        /\ order[w].status \in Statuses
    BY <1>0, <1>6 DEF TypeOK, Withdrawal
  <2>2. QED
    BY <1>5, <1>6, <2>1
<1>7. CASE SetStatus(a)
  <2>1. \/ order' = [order EXCEPT ![w] = [order[w] EXCEPT !.status = k.asked]]
        \/ UNCHANGED order
    BY <1>7 DEF SetStatus
  <2>2. UNCHANGED <<row, overwrote>>
    BY <1>7 DEF SetStatus
  <2>3. QED
    BY <1>0, <1>5, <1>6, <2>1, <2>2
<1>8. CASE /\ Refund(a)
           /\ row' = [k.seen EXCEPT !.aff = @ + order[w].amount]
           /\ overwrote' = (overwrote \/ k.seen # row)
           /\ order' = [order EXCEPT ![w] =
                 [order[w] EXCEPT !.status = k.status, !.refunds = order[w].refunds + 1]]
  <2> DEFINE r == order[w].refunds
             m == order[w].amount
             o == [order[w] EXCEPT !.status = k.status, !.refunds = r + 1]
  <2>1. r \in Nat /\ m \in Nat
    BY <1>0, EntryTypes
  <2>2. o \in Withdrawal /\ o.refunds = r + 1 /\ o.amount = m
    <3>1. r + 1 \in Nat
      BY <2>1
    <3>2. order[w] \in Withdrawal /\ k.status \in Statuses
      BY <1>0 DEF Admin
    <3> HIDE DEF r
    <3>3. o \in Withdrawal
      BY <3>1, <3>2 DEF Withdrawal
    <3>4. QED
      BY <3>2, <3>3 DEF Withdrawal
  <2>3. PaidBack(o) = PaidBack(order[w]) + m
    <3>1. (r + 1) * m = r * m + m
      <4> HIDE DEF r, m
      <4>1. QED
        BY <2>1
    <3>2. PaidBack(o) = (r + 1) * m /\ PaidBack(order[w]) = r * m
      BY <2>2, Zenon DEF PaidBack
    <3>3. QED
      BY <3>1, <3>2, Zenon
  <2>4. ~overwrote' => ~overwrote /\ row'.quota = row.quota
                                  /\ row'.aff = row.aff + PaidBack(o) - PaidBack(order[w])
    <3>1. SUFFICES ASSUME ~overwrote, k.seen = row
                   PROVE  row'.quota = row.quota
                          /\ row'.aff = row.aff + PaidBack(o) - PaidBack(order[w])
      BY <1>8
    <3>2. row'.quota = row.quota /\ row'.aff = row.aff + m
      BY <1>0, <1>8, <3>1 DEF Row
    <3> HIDE DEF o, m
    <3>3. m \in Int
      BY <2>1
    <3>4. QED
      BY <1>4, <2>3, <3>2, <3>3
  <2>5. order' = [order EXCEPT ![w] = o]
    BY <1>8
  <2> HIDE DEF o, w
  <2>6. QED
    BY <1>0, <1>1, <1>2, <1>3, <2>2, <2>4, <2>5, AdminBooks
<1>9. QED
  BY <1>6, <1>7, <1>8 DEF Order, ReadUser, Refund

LEMMA NextBooks == IInv /\ BooksInv /\ [Next]_vars => BooksInv'
<1>1. SUFFICES ASSUME IInv, BooksInv, [Next]_vars PROVE BooksInv'
  OBVIOUS
<1>2. CASE \E d \in Debits : Begin(d) \/ Check(d) \/ Debit(d)
  BY <1>1, <1>2, DebitBooks
<1>3. CASE \E c \in Credits : Credit(c)
  BY <1>1, <1>3, CreditBooks
<1>4. CASE \E w \in Writers : Read(w) \/ Save(w)
  BY <1>1, <1>4, ReadBooks, SaveBooks
<1>5. CASE \E a \in Admins : Order(a) \/ ReadUser(a) \/ Refund(a) \/ SetStatus(a)
  BY <1>1, <1>5, OrderBooks
<1>6. CASE UNCHANGED vars
  BY <1>1, <1>6, SumsKept DEF vars, BooksInv, OrdersMade, BooksKeptUnlessOverwritten, Books
<1>7. QED
  BY <1>1, <1>2, <1>3, <1>4, <1>5, <1>6 DEF Next

(* An amount of the user's quota or of his invitation quota is lost or     *)
(* made only by a save over a change it did not see: failures, refusals,   *)
(* retries and refunds, in any order, keep both books.                     *)
THEOREM BooksKept == Spec => []BooksKeptUnlessOverwritten
<1>1. BooksInv => BooksKeptUnlessOverwritten
  BY DEF BooksInv
<1>2. QED
  BY <1>1, InitInv, Inductive, InitBooks, NextBooks, PTL DEF Spec
=============================================================================
