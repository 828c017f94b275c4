--------------------------- MODULE RedemptionCode ---------------------------
(***************************************************************************)
(* A code that is redeemed for quota, and its editing by administrators    *)
(* (model/redemption.go, controller/redemption.go).                        *)
(*                                                                         *)
(*   Redeem             RedeemRead, then RedeemCommit or RedeemRollback    *)
(*   UpdateRedemption   EditRead, then EditWrite                           *)
(*   DeleteRedemption   DeleteCode                                         *)
(*                                                                         *)
(* The transaction of Redeem writes nothing before its commit that another *)
(* reads, so its statements after the first are one step; the rebate of    *)
(* the inviter and the log entry that follow are left out.  The query      *)
(* option "FOR UPDATE" is one of an older gorm, and locks nothing here.    *)
(***************************************************************************)
EXTENDS Integers

CONSTANTS
    Redeemers,    \* requests to redeem the code, each of a user
    Editors,      \* requests to edit it
    Worths,       \* quotas a code may have
    MaxCodeEdits  \* bound on the edits

ASSUME RedeemersAssumption == Redeemers \subseteq Nat \ {0}
ASSUME WorthsAssumption == Worths \subseteq Nat /\ Worths # {} /\ MaxCodeEdits \in Nat

CodeEnabled == 1
CodeDisabled == 2
CodeUsed == 3

VARIABLES
    code,         \* the row, if it is there
    redeem,       \* the requests to redeem: the row each has read
    edit,         \* the requests to edit: the row each has read and changed
    given,        \* history: how often quota was given for the code
    reopened,     \* history: how often a code that had been used was enabled
    overtaken,    \* history: redemptions of a code read as enabled, and used, disabled or deleted since
    codeEdits

codeVars == <<code, redeem, edit, given, reopened, overtaken, codeEdits>>

Code == [there : BOOLEAN, status : 1..3, quota : Worths, usedBy : Redeemers \cup {0}, timed : BOOLEAN]
CodeCall == [pc : {"idle", "read", "done", "refused"}, row : Code]

CodeInit ==
    /\ \E w \in Worths :
          LET row == [there |-> TRUE, status |-> CodeEnabled, quota |-> w, usedBy |-> 0, timed |-> FALSE] IN
          /\ code = row
          /\ redeem = [r \in Redeemers |-> [pc |-> "idle", row |-> row]]
          /\ edit = [e \in Editors |-> [pc |-> "idle", row |-> row]]
    /\ given = 0 /\ reopened = 0 /\ overtaken = 0 /\ codeEdits = 0
-----------------------------------------------------------------------------
\* Mutant of Redeemable: the status is not looked at.
RedeemableIfThere(row) == row.there

Redeemable(row) == row.there /\ row.status = CodeEnabled

\* First finds the row, and its status is looked at.
RedeemRead(r) ==
    /\ redeem[r].pc = "idle"
    /\ redeem' = [redeem EXCEPT ![r] = [pc |-> IF Redeemable(code) THEN "read" ELSE "refused", row |-> code]]
    /\ UNCHANGED <<code, edit, given, reopened, overtaken, codeEdits>>

MarkedUsed(row, r) == [row EXCEPT !.status = CodeUsed, !.usedBy = r, !.timed = TRUE]

\* The user gets the quota that was read, with a recharge record, and the whole
\* row is saved: Save inserts one that was deleted meanwhile.
RedeemCommit(r) ==
    /\ redeem[r].pc = "read"
    /\ code' = MarkedUsed(redeem[r].row, r)
    /\ redeem' = [redeem EXCEPT ![r].pc = "done"]
    /\ given' = given + 1
    /\ overtaken' = overtaken + (IF redeem[r].row.status = CodeEnabled /\ ~(code.there /\ code.status = CodeEnabled)
                                 THEN 1 ELSE 0)
    /\ UNCHANGED <<edit, reopened, codeEdits>>

\* A statement fails.
RedeemRollback(r) ==
    /\ redeem[r].pc = "read"
    /\ redeem' = [redeem EXCEPT ![r].pc = "refused"]
    /\ UNCHANGED <<code, edit, given, reopened, overtaken, codeEdits>>

\* With status_only the status is set, else the name and the quota.
Edited(row) == {[row EXCEPT !.status = s] : s \in {CodeEnabled, CodeDisabled}}
                   \cup {[row EXCEPT !.quota = w] : w \in Worths}

EditRead(e) ==
    /\ edit[e].pc = "idle" /\ codeEdits < MaxCodeEdits
    /\ code.there
    /\ \E row \in Edited(code) : edit' = [edit EXCEPT ![e] = [pc |-> "read", row |-> row]]
    /\ codeEdits' = codeEdits + 1
    /\ UNCHANGED <<code, redeem, given, reopened, overtaken>>

\* The columns Update selects, of the row that was read; used_user_id is not one.
Rewritten(row) == [code EXCEPT !.status = row.status, !.quota = row.quota, !.timed = row.timed]

EditWrite(e) ==
    LET row == edit[e].row IN
    /\ edit[e].pc = "read"
    /\ code' = IF code.there THEN Rewritten(row) ELSE code
    /\ reopened' = reopened + (IF /\ code.there /\ code.usedBy # 0
                                  /\ code.status # CodeEnabled /\ row.status = CodeEnabled THEN 1 ELSE 0)
    /\ edit' = [edit EXCEPT ![e].pc = "idle"]
    /\ UNCHANGED <<redeem, given, overtaken, codeEdits>>

DeleteCode ==
    /\ code.there
    /\ code' = [code EXCEPT !.there = FALSE]
    /\ UNCHANGED <<redeem, edit, given, reopened, overtaken, codeEdits>>

CodeNext ==
    \/ \E r \in Redeemers : RedeemRead(r) \/ RedeemCommit(r) \/ RedeemRollback(r)
    \/ \E e \in Editors : EditRead(e) \/ EditWrite(e)
    \/ DeleteCode

CodeSpec == CodeInit /\ [][CodeNext]_codeVars
-----------------------------------------------------------------------------
CodeTypeOK ==
    /\ code \in Code
    /\ redeem \in [Redeemers -> CodeCall]
    /\ edit \in [Editors -> CodeCall]
    /\ given \in Nat /\ reopened \in Nat /\ overtaken \in Nat /\ codeEdits \in Nat

\* Quota is given for a code once, and again only for each time that a used code
\* was enabled, by hand or by an edit that had read it before, and for each
\* redemption that had read the code before another, an edit or a deletion got
\* in; and a code that says it was used names who got the quota, whatever was
\* edited (Redeem, UpdateRedemption).
CodeGivenOnce ==
    /\ given <= 1 + reopened + overtaken
    /\ code.status = CodeUsed => code.usedBy \in Redeemers /\ redeem[code.usedBy].pc = "done"
=============================================================================
