---------------------------- MODULE TopUpOrder -----------------------------
(***************************************************************************)
(* Online top-ups: the orders of the top_ups table and the notifications   *)
(* of the payment provider (controller/topup.go, model/topup.go).          *)
(*                                                                         *)
(*   RequestEpay   RequestEpay                                             *)
(*   EpayNotify    Deliver, Misread, Save, Credit, Record, Reward, Answer, *)
(*                 and Malformed, NotifyFails, Crash where it ends         *)
(*                 unanswered                                              *)
(*   DeleteTopUp   DeletePending                                           *)
(*                                                                         *)
(* The provider is external: it may notify of a paid order at any time,    *)
(* several times and concurrently, and it goes on until a notification is  *)
(* answered "success".  A notification that is not of a successful trade   *)
(* or does not verify changes nothing and is left out.                     *)
(***************************************************************************)
EXTENDS Integers, FiniteSets

CONSTANTS
    Orders,      \* in the order of their ids
    Notices,     \* notifications handled at the same time
    Ratios,      \* kinds of topup_ratio, as IncreaseRechargeQuota tells them apart
    MaxTime,     \* bound on the clock, in milliseconds
    MaxFaults    \* bound on failing statements, lost answers and crashes

ASSUME OrdersAssumption == Orders \subseteq Nat
ASSUME RatiosAssumption == Ratios \subseteq {"none", "days", "malformed"}
ASSUME BoundsAssumption == MaxTime \in Nat /\ MaxFaults \in Nat
ASSUME NoticesAssumption == IsFiniteSet(Notices)

VARIABLES
    table,       \* rows of top_ups
    millis,
    paid,        \* orders paid at the provider
    answered,    \* orders of which a notification was answered "success"
    notice,      \* notifications being handled
    credited, recorded, rewarded,   \* quota, recharge records, rebates by order
    overlapped,  \* history: orders that two notifications found pending together
    missed,      \* history: orders paid whose row could not be read
    broken,      \* history: orders whose handling stopped after they were saved
    faults

books == <<credited, recorded, rewarded>>
orderVars == <<table, millis, paid, answered, notice, books, overlapped, missed, broken, faults>>

OrderRow == [status : {"none", "pending", "success", "deleted"}, trade : Nat,
        ratio : {"none", "days", "malformed"}]

\* order is what was paid, found the row with its trade number.
Notice == [pc : {"idle", "save", "credit", "record", "reward", "answer"},
           order : Orders \cup {0}, found : Orders \cup {0}]

Idle == [pc |-> "idle", order |-> 0, found |-> 0]

OrderTypeOK ==
    /\ table \in [Orders -> OrderRow]
    /\ millis \in Nat
    /\ paid \subseteq Orders /\ answered \subseteq Orders
    /\ notice \in [Notices -> Notice]
    /\ \A n \in Notices :
          /\ notice[n].pc \in {"save", "credit", "record", "reward"} => notice[n].found \in Orders
          /\ notice[n].pc # "idle" => notice[n].order \in Orders
    /\ credited \in [Orders -> Nat] /\ recorded \in [Orders -> Nat] /\ rewarded \in [Orders -> Nat]
    /\ overlapped \subseteq Orders /\ missed \subseteq Orders /\ broken \subseteq Orders
    /\ faults \in 0..MaxFaults

Zero == [o \in Orders |-> 0]

OrderInit ==
    /\ table = [o \in Orders |-> [status |-> "none", trade |-> 0, ratio |-> "none"]]
    /\ millis = 1
    /\ paid = {} /\ answered = {}
    /\ notice = [n \in Notices |-> Idle]
    /\ credited = Zero /\ recorded = Zero /\ rewarded = Zero
    /\ overlapped = {} /\ missed = {} /\ broken = {}
    /\ faults = 0
-----------------------------------------------------------------------------
(* The order                                                               *)

\* The trade number is the time of the request.
RequestEpay(o) ==
    /\ table[o].status = "none"
    /\ \A p \in Orders : p < o => table[p].status # "none"
    /\ \E ratio \in Ratios :
          table' = [table EXCEPT ![o] = [status |-> "pending", trade |-> millis, ratio |-> ratio]]
    /\ UNCHANGED <<millis, paid, answered, notice, books, overlapped, missed, broken, faults>>

\* At the provider, by the link the request returned.
Pay(o) ==
    /\ table[o].status # "none"
    /\ o \notin paid
    /\ paid' = paid \cup {o}
    /\ UNCHANGED <<table, millis, answered, notice, books, overlapped, missed, broken, faults>>

\* DeleteTopUpsWithStatusPending, one statement.
DeletePending ==
    /\ table' = [o \in Orders |->
          IF table[o].status = "pending" THEN [table[o] EXCEPT !.status = "deleted"] ELSE table[o]]
    /\ UNCHANGED <<millis, paid, answered, notice, books, overlapped, missed, broken, faults>>

\* Only a request reads the clock, and only to tell orders apart: time passes
\* between two of them.
Tick ==
    /\ millis < MaxTime
    /\ \E o, p \in Orders : table[o].status # "none" /\ table[p].status = "none"
    /\ millis' = millis + 1
    /\ UNCHANGED <<table, paid, answered, notice, books, overlapped, missed, broken, faults>>
-----------------------------------------------------------------------------
(* EpayNotify                                                              *)

Present(o, trade) == table[o].status \in {"pending", "success"} /\ table[o].trade = trade

\* GetTopUpByTradeNo: First takes the lowest id.
Found(o, trade) ==
    /\ Present(o, trade)
    /\ \A p \in Orders : Present(p, trade) => o <= p

\* Mutant of Pending: any order found is credited.
PendingAnyway(o) == TRUE

Pending(o) == table[o].status = "pending"

Handling(n, pc, o) == notice[n].pc = pc /\ notice[n].found = o
NoticeGoes(n, pc) == notice' = [notice EXCEPT ![n] = [@ EXCEPT !.pc = pc]]

\* Mutant of Unfound: an order that is gone is not answered.
UnfoundEnds == "idle"

\* What becomes of a notification without a row, or of a row that is not pending.
Unfound == "answer"

\* The row is read by its trade number.
Deliver(n, o) ==
    /\ notice[n].pc = "idle"
    /\ o \in paid
    /\ \/ \E f \in Orders :
             /\ Found(f, table[o].trade) /\ Pending(f)
             /\ notice' = [notice EXCEPT ![n] = [pc |-> "save", order |-> o, found |-> f]]
             /\ overlapped' = IF \E m \in Notices : Handling(m, "save", f)
                              THEN overlapped \cup {f} ELSE overlapped
       \/ /\ ~\E f \in Orders : Found(f, table[o].trade) /\ Pending(f)
          /\ notice' = [notice EXCEPT ![n] = [pc |-> Unfound, order |-> o, found |-> 0]]
          /\ UNCHANGED overlapped
    /\ UNCHANGED <<table, millis, paid, answered, books, missed, broken, faults>>

\* GetTopUpByTradeNo returns nil of a failing read as of a missing row.
Misread(n, o) ==
    /\ notice[n].pc = "idle"
    /\ o \in paid
    /\ faults < MaxFaults
    /\ faults' = faults + 1
    /\ notice' = [notice EXCEPT ![n] = [pc |-> Unfound, order |-> o, found |-> 0]]
    /\ missed' = missed \cup {o}
    /\ UNCHANGED <<table, millis, paid, answered, books, overlapped, broken>>

\* topUp.Update: gorm saves the row that was read and inserts it again when it
\* has been deleted.
Save(n) ==
    LET f == notice[n].found
    IN /\ notice[n].pc = "save"
       /\ table' = [table EXCEPT ![f] = [@ EXCEPT !.status = "success"]]
       /\ NoticeGoes(n, "credit")
       /\ UNCHANGED <<millis, paid, answered, books, overlapped, missed, broken, faults>>

Credit(n) ==
    LET f == notice[n].found
    IN /\ notice[n].pc = "credit"
       /\ credited' = [credited EXCEPT ![f] = @ + 1]
       /\ NoticeGoes(n, "record")
       /\ UNCHANGED <<table, millis, paid, answered, recorded, rewarded, overlapped, missed, broken, faults>>

\* Mutant of Inserts: a record for an order without a term too.
InsertsAlways(o) == table[o].ratio # "malformed"

Inserts(o) == table[o].ratio = "days"

\* IncreaseRechargeQuota, when the term parses.
Record(n) ==
    LET f == notice[n].found
    IN /\ notice[n].pc = "record"
       /\ table[f].ratio # "malformed"
       /\ recorded' = IF Inserts(f) THEN [recorded EXCEPT ![f] = @ + 1] ELSE recorded
       /\ NoticeGoes(n, "reward")
       /\ UNCHANGED <<table, millis, paid, answered, credited, rewarded, overlapped, missed, broken, faults>>

\* VipInsert, whose error is ignored, and VipUserQuota.
Reward(n) ==
    LET f == notice[n].found
    IN /\ notice[n].pc = "reward"
       /\ rewarded' \in {rewarded, [rewarded EXCEPT ![f] = @ + 1]}
       /\ NoticeGoes(n, "answer")
       /\ UNCHANGED <<table, millis, paid, answered, credited, recorded, overlapped, missed, broken, faults>>

Answer(n) ==
    /\ notice[n].pc = "answer"
    /\ answered' = answered \cup {notice[n].order}
    /\ notice' = [notice EXCEPT ![n] = Idle]
    /\ UNCHANGED <<table, millis, paid, books, overlapped, missed, broken, faults>>

\* Orders marked paid whose handling ends when these notifications stop.
Cut(N) == {notice[n].found : n \in {m \in N : notice[m].pc \in {"credit", "record", "reward"}}}

\* Mutant of Stopped: the handler goes on to its answer.
StoppedAnswers(n) == [notice[n] EXCEPT !.pc = "answer"]

\* A handler that meets an error returns without an answer.
Stopped(n) == Idle

Stop(n) ==
    /\ notice' = [notice EXCEPT ![n] = Stopped(n)]
    /\ broken' = broken \cup Cut({n})
    /\ UNCHANGED <<table, millis, paid, answered, books, overlapped, missed>>

Malformed(n) ==
    /\ notice[n].pc = "record"
    /\ table[notice[n].found].ratio = "malformed"
    /\ Stop(n)
    /\ UNCHANGED faults

\* A failing statement, or an answer that is lost.
NotifyFails(n) ==
    /\ notice[n].pc # "idle"
    /\ faults < MaxFaults
    /\ faults' = faults + 1
    /\ Stop(n)

Crash ==
    /\ faults < MaxFaults
    /\ faults' = faults + 1
    /\ notice' = [n \in Notices |-> Idle]
    /\ broken' = broken \cup Cut(Notices)
    /\ UNCHANGED <<table, millis, paid, answered, books, overlapped, missed>>

NoticeStep(n) ==
    Save(n) \/ Credit(n) \/ Record(n) \/ Reward(n) \/ Answer(n) \/ Malformed(n)

OrderNext ==
    \/ \E o \in Orders : RequestEpay(o) \/ Pay(o)
    \/ DeletePending
    \/ Tick
    \/ \E n \in Notices, o \in Orders : Deliver(n, o) \/ Misread(n, o)
    \/ \E n \in Notices : NoticeStep(n) \/ NotifyFails(n)
    \/ Crash

OrderSpec == OrderInit /\ [][OrderNext]_orderVars

\* Handlers run on; the provider goes on notifying while it has no answer.
OrderFairSpec ==
    /\ OrderSpec
    /\ \A n \in Notices : WF_orderVars(NoticeStep(n))
    /\ \A o \in Orders : SF_orderVars(o \notin answered /\ \E n \in Notices : Deliver(n, o))
-----------------------------------------------------------------------------
(* Properties                                                              *)

\* However often the provider notifies, crashes and failing statements
\* included, an order is credited twice only if two notifications both found it
\* pending before either had saved it.
SecondCreditNeedsOverlap == \A o \in Orders : credited[o] > 1 => o \in overlapped

Handled(o) == credited[o] > 0 \/ \E n \in Notices : Handling(n, "credit", o)

Explained(o) ==
    \/ Handled(o) \/ o \in broken
    \/ o \in missed
    \/ table[o].status = "deleted"
    \/ \E p \in Orders : p < o /\ table[p].trade = table[o].trade

\* A payment that was answered "success" is credited, or about to be, unless
\* the handler broke off after it had marked the order, its row could not be
\* read, it was deleted as pending, or another order has its trade number.
AnsweredIsCredited == \A o \in answered : Explained(o)

\* Unless a handler broke off, an order with a term has a recharge record for
\* each credit that is not being recorded, one without a term has none, and
\* nobody is rewarded for an order more often than it was credited.
RecordsFollowCredits ==
    \A o \in Orders \ broken :
        /\ recorded[o] = IF table[o].ratio = "days"
                         THEN credited[o] - Cardinality({n \in Notices : Handling(n, "record", o)})
                         ELSE 0
        /\ rewarded[o] <= credited[o]

\* Every payment is answered in the end, whatever became of its order.
PaidIsAnswered == \A o \in Orders : o \in paid ~> o \in answered
=============================================================================
