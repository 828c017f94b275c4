--------------------------- MODULE MidjourneyTask ---------------------------
(***************************************************************************)
(* A Midjourney task: charged when it is submitted, polled and notified of *)
(* until it ends, and paid back when it failed (controller/midjourney.go,  *)
(* relay/channel/midjourney/main.go).                                      *)
(*                                                                         *)
(*   RelayMidjourneySubmit   Submit, Charge                                *)
(*   UpdateMidjourneyTask    PollRead, PollMissing, PollAsk, PollSave,     *)
(*                           PollFinish, PollRefund, PollStops             *)
(*   RelayMidjourneyNotify   NoticeRead, NoticeSave                        *)
(*                                                                         *)
(* The upstream service is external: it works on the task, reports on it   *)
(* when asked, and sends a notice of each change, which may come late,     *)
(* again or never.  Every instance of this service polls.                  *)
(***************************************************************************)
EXTENDS Integers, FiniteSets

CONSTANTS
    Pollers,      \* instances of the service
    Notifiers,    \* notices handled at the same time
    MaxNotices,   \* bound on the notices handled
    MaxMjFaults   \* bound on failing statements and stopped rounds

ASSUME MjBoundsAssumption == MaxNotices \in Nat /\ MaxMjFaults \in Nat
ASSUME PollersAssumption == IsFiniteSet(Pollers)

VARIABLES
    mjRow,       \* the row; its kind "none" before the submit
    remote,      \* the task at the upstream service
    reported,    \* what notices were sent of it
    poller,      \* each instance: the row it read or holds, what it was answered
    notifier,    \* each notice being handled: the row it will save
    charged,     \* "not", "due", "charged"
    refunds,
    seeds,       \* image seeds stored
    slips,       \* history: what may lead to another refund
    mjNoted,     \* history: what may keep one from being paid
    mjTally      \* notices and faults so far

mjVars == <<mjRow, remote, reported, poller, notifier, charged, refunds, seeds, slips, mjNoted, mjTally>>

Report == [progress : {"0%", "50%", "100%"}, status : {"", "IN_PROGRESS", "SUCCESS", "FAILURE"}, fail : BOOLEAN]
MjRow == [kind : {"none", "paid", "modal"}, code : {0, 1, 21, 22, 23, 24}, is : Report]

Begun == [progress |-> "0%", status |-> "", fail |-> FALSE]
Unknown == [progress |-> "0%", status |-> "", fail |-> TRUE]    \* no such task upstream
Running == [progress |-> "50%", status |-> "IN_PROGRESS", fail |-> FALSE]
Success == [progress |-> "100%", status |-> "SUCCESS", fail |-> FALSE]
Failures == {[progress |-> p, status |-> "FAILURE", fail |-> TRUE] : p \in {"50%", "100%"}}

NoRow == [kind |-> "none", code |-> 0, is |-> Begun]
AtRestMj == [pc |-> "idle", row |-> NoRow, answer |-> Begun]

MjInit ==
    /\ mjRow = NoRow /\ remote = Unknown /\ reported = {}
    /\ poller = [p \in Pollers |-> AtRestMj] /\ notifier = [n \in Notifiers |-> AtRestMj]
    /\ charged = "not" /\ refunds = 0 /\ seeds = 0 /\ slips = 0
    /\ mjNoted = {} /\ mjTally = [notices |-> 0, faults |-> 0]

Faulty == mjTally.faults < MaxMjFaults /\ mjTally' = [mjTally EXCEPT !.faults = @ + 1]
Ended(report) == report.progress = "100%"
-----------------------------------------------------------------------------
(* RelayMidjourneySubmit                                                   *)

\* The rows inserted for an answer.  1 and 22: the task is under way, a modal one
\* is done at once if it is not queued; 21: there is such a task; 23: the queue is
\* full; 24 and others: refused, without an id.
Inserted ==
    {[kind |-> k, code |-> c, is |-> Begun] : k \in {"paid"}, c \in {1, 22}}
        \cup {[kind |-> "modal", code |-> 1, is |-> Success], [kind |-> "modal", code |-> 22, is |-> Begun]}
        \cup {[kind |-> "paid", code |-> 21, is |-> r] : r \in {[Running EXCEPT !.progress = "0%"], Success}}
        \cup {[kind |-> "paid", code |-> 23, is |-> Unknown], [kind |-> "paid", code |-> 24, is |-> [Unknown EXCEPT !.progress = "100%"]]}

\* The request upstream and the insertion of the row.
Submit ==
    /\ mjRow.kind = "none"
    /\ \E row \in Inserted :
          /\ mjRow' = row
          /\ remote' = CASE row.code \in {1, 22} /\ row.is = Begun -> Begun
                         [] row.code = 21 -> IF Ended(row.is) THEN Success ELSE Running
                         [] row.is = Success -> Success
                         [] OTHER -> Unknown
          /\ charged' = IF row.kind = "paid" /\ row.code \in {1, 21, 22} THEN "due" ELSE "not"
    /\ UNCHANGED <<reported, poller, notifier, refunds, seeds, slips, mjNoted, mjTally>>

\* The deferred PostConsumeTokenQuota; its error is only logged, and it is left out
\* if the answer could not be copied to the client.
Charge ==
    /\ charged = "due"
    /\ \/ charged' = "charged" /\ UNCHANGED <<mjNoted, mjTally>>
       \/ charged' = "not" /\ mjNoted' = mjNoted \cup {"uncharged"} /\ Faulty
    /\ UNCHANGED <<mjRow, remote, reported, poller, notifier, refunds, seeds, slips>>

\* The upstream service goes on with the task, and sends a notice.
Work ==
    /\ remote \in {Begun, Running}
    /\ \E r \in {Running, Success} \cup Failures :
          /\ r # remote
          /\ remote' = r /\ reported' = reported \cup {r}
    /\ UNCHANGED <<mjRow, poller, notifier, charged, refunds, seeds, slips, mjNoted, mjTally>>
-----------------------------------------------------------------------------
(* UpdateMidjourneyTask                                                    *)

Polls(p, pc, row, answer) == poller' = [poller EXCEPT ![p] = [pc |-> pc, row |-> row, answer |-> answer]]
Rests(p) == poller' = [poller EXCEPT ![p] = AtRestMj]

\* GetAllUnFinishTasks.
PollRead(p) ==
    /\ poller[p].pc = "idle"
    /\ mjRow.kind # "none" /\ ~Ended(mjRow.is)
    /\ Polls(p, "ask", mjRow, Begun)
    /\ UNCHANGED <<mjRow, remote, reported, notifier, charged, refunds, seeds, slips, mjNoted, mjTally>>

\* CacheGetChannel finds no channel, or with the memory cache none that is enabled:
\* MjBulkUpdate sets three columns of the row.
PollMissing(p) ==
    /\ poller[p].pc = "ask" /\ Rests(p)
    /\ mjRow' = [mjRow EXCEPT !.is = [progress |-> "100%", status |-> "FAILURE", fail |-> TRUE]]
    /\ mjNoted' = mjNoted \cup {"missing"}
    /\ UNCHANGED <<remote, reported, notifier, charged, refunds, seeds, slips, mjTally>>

\* checkMjTaskNeedUpdate; a modal task is not updated.
NeedsUpdate(row, report) == row.kind # "modal" /\ (row.code # 1 \/ row.is # report)

\* The answer of the upstream service, if it has one.
PollAsk(p) ==
    /\ poller[p].pc = "ask"
    /\ IF remote # Unknown /\ NeedsUpdate(poller[p].row, remote)
       THEN Polls(p, "save", [poller[p].row EXCEPT !.code = 1, !.is = remote], remote)
       ELSE Rests(p)
    /\ UNCHANGED <<mjRow, remote, reported, notifier, charged, refunds, seeds, slips, mjNoted, mjTally>>

\* Another refund may follow: a row that had ended is set back or ended again,
\* or one that is paid back stays unfinished.
Slipped(row, saved) ==
    slips + (IF (Ended(mjRow.is) /\ (~Ended(row.is) \/ row.is.fail)) \/ (~saved /\ row.is.fail) THEN 1 ELSE 0)

\* task.Update, of the whole row; a failure is logged, and the round goes on.
Saves(row) ==
    \/ mjRow' = row /\ slips' = Slipped(row, TRUE) /\ UNCHANGED mjTally
    \/ Faulty /\ slips' = Slipped(row, FALSE) /\ UNCHANGED mjRow

PollSave(p) ==
    /\ poller[p].pc = "save"
    /\ Saves(poller[p].row)
    /\ Polls(p, "finish", poller[p].row, poller[p].answer)
    /\ UNCHANGED <<remote, reported, notifier, charged, refunds, seeds, mjNoted>>

\* Mutant of Refundable: whatever did not succeed, with a fail reason or none.
RefundableUnlessDone(row) == row.is.status # "SUCCESS"

Refundable(row) == row.is.fail

\* HandleTaskCompletion: the image seed of a task that succeeded is stored, and
\* a task that failed is set to 100% if it was not.
PollFinish(p) ==
    LET row == poller[p].row IN
    /\ poller[p].pc = "finish"
    /\ \/ /\ row.is = Success /\ Rests(p)
          /\ seeds' \in {seeds, seeds + 1}
          /\ UNCHANGED <<mjRow, slips, mjTally>>
       \/ /\ row.is # Success /\ Refundable(row)
          /\ IF Ended(row.is) THEN UNCHANGED <<mjRow, slips, mjTally>>
             ELSE Saves([row EXCEPT !.is.progress = "100%"])
          /\ Polls(p, "refund", row, Begun) /\ UNCHANGED seeds
       \/ row.is # Success /\ ~Refundable(row) /\ Rests(p) /\ UNCHANGED <<mjRow, seeds, slips, mjTally>>
    /\ UNCHANGED <<remote, reported, notifier, charged, refunds, mjNoted>>

\* IncreaseUserQuota, unless it fails or the cached quota cannot be renewed before.
PollRefund(p) ==
    /\ poller[p].pc = "refund" /\ Rests(p)
    /\ \/ refunds' = refunds + 1 /\ UNCHANGED <<mjNoted, mjTally>>
       \/ Faulty /\ mjNoted' = mjNoted \cup {"failed"} /\ UNCHANGED refunds
    /\ UNCHANGED <<mjRow, remote, reported, notifier, charged, seeds, slips>>

\* The process stops, or the request upstream fails.
PollStops(p) ==
    /\ poller[p].pc # "idle" /\ Rests(p) /\ Faulty
    /\ mjNoted' = mjNoted \cup {x \in {"stopped"} : poller[p].pc \in {"finish", "refund"}}
    /\ UNCHANGED <<mjRow, remote, reported, notifier, charged, refunds, seeds, slips>>
-----------------------------------------------------------------------------
(* RelayMidjourneyNotify                                                   *)

\* The row is read, and gets what the notice reports.
NoticeRead(n) ==
    /\ notifier[n].pc = "idle" /\ mjRow.kind # "none"
    /\ mjTally.notices < MaxNotices
    /\ mjTally' = [mjTally EXCEPT !.notices = @ + 1]
    /\ \E r \in reported :
          notifier' = [notifier EXCEPT ![n] = [pc |-> "save", row |-> [mjRow EXCEPT !.is = r], answer |-> Begun]]
    /\ UNCHANGED <<mjRow, remote, reported, poller, charged, refunds, seeds, slips, mjNoted>>

NoticeSave(n) ==
    LET row == notifier[n].row IN
    /\ notifier[n].pc = "save"
    /\ notifier' = [notifier EXCEPT ![n] = AtRestMj]
    /\ \/ /\ mjRow' = row
          /\ slips' = slips + (IF Ended(mjRow.is) /\ ~Ended(row.is) THEN 1 ELSE 0)
          /\ mjNoted' = mjNoted \cup {x \in {"notified"} : Ended(row.is)}
          /\ UNCHANGED mjTally
       \/ Faulty /\ UNCHANGED <<mjRow, slips, mjNoted>>
    /\ UNCHANGED <<remote, reported, poller, charged, refunds, seeds>>

MjNext ==
    \/ Submit \/ Charge \/ Work
    \/ \E p \in Pollers : PollRead(p) \/ PollMissing(p) \/ PollAsk(p) \/ PollSave(p) \/ PollFinish(p)
                          \/ PollRefund(p) \/ PollStops(p)
    \/ \E n \in Notifiers : NoticeRead(n) \/ NoticeSave(n)

MjSpec == MjInit /\ [][MjNext]_mjVars
-----------------------------------------------------------------------------
MjCall == [pc : {"idle", "ask", "save", "finish", "refund"}, row : MjRow, answer : Report]

MjTypeOK ==
    /\ mjRow \in MjRow /\ remote \in Report /\ reported \subseteq Report
    /\ poller \in [Pollers -> MjCall] /\ notifier \in [Notifiers -> MjCall]
    /\ charged \in {"not", "due", "charged"} /\ refunds \in Nat /\ seeds \in Nat /\ slips \in Nat

MjAtRest == /\ \A p \in Pollers : poller[p].pc = "idle"
            /\ \A n \in Notifiers : notifier[n].pc = "idle"

\* A task is paid back once, and again only for each time that a row which had
\* ended was set back by a late notice or ended again by another instance, or was
\* paid back without being saved.
RefundedOnce == refunds <= 1 + slips

\* Nothing is paid back for a task that did not fail upstream, nor for one that
\* was not charged, unless the charge failed or is on its way.
RefundsFailures ==
    refunds > 0 => /\ remote.fail /\ mjRow.kind = "paid"
                   /\ charged = "not" => "uncharged" \in mjNoted

\* Once its row has ended, a task that was charged and failed has been paid back,
\* unless a notice came first, its channel was not found, or the round stopped.
FailuresRefunded ==
    MjAtRest /\ Ended(mjRow.is) /\ charged = "charged" /\ remote \in Failures
        /\ mjNoted \cap {"notified", "missing", "failed", "stopped"} = {}
    => refunds > 0

\* HandleTaskCompletion, compensateForTaskFailure.
TaskSettled == RefundedOnce /\ RefundsFailures /\ FailuresRefunded
=============================================================================
