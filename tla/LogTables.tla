----------------------------- MODULE LogTables -----------------------------
(***************************************************************************)
(* The tables of web-admin/src/components that list what happened:         *)
(* withdrawals, top-ups, Midjourney tasks and the two logs.                *)
(***************************************************************************)
EXTENDS ListPage

\* setOrderFormat, setLogsFormat: a page more than held.
Growing(n) == n + ItemsPerPage
LogRows == Slice(ItemsPerPage)

\* refresh: setActivePage(1), and the first page by the form of now.
FirstPage(c) ==
    /\ pager' = [pager EXCEPT !.page = 1]
    /\ Starts(c, LoadOf(search.word, 0, ItemsPerPage), {"loading"})
    /\ UNCHANGED <<view, db, list, search, picked, knob>>
-----------------------------------------------------------------------------
(* WithdrawalTable                                                         *)

WithdrawRefresh == \E c \in Calls : FirstPage(c)
WithdrawType == \E q \in {"", "key"} : Type(q)
WithdrawTurn == list.rows # <<>> /\ TurnPage(search.word, ItemsPerPage, {"loading"})
WithdrawLoaded(c) == Loaded(c, ItemsPerPage, Growing)

\* showEditModal, the status chosen in it, and cancelling.
WithdrawEdit ==
    \/ \E r \in ToSet(LogRows) : Pick({r})
    \/ \E r \in picked, s \in {1, 2} : Pick({[r EXCEPT !.status = s]})
    \/ Pick({})

\* updateOrderStatusAndComment: the modal is open until the answer.
WithdrawSubmit == \E c \in Calls, r \in picked : Sends(c, Switch(r, r.status), {})
WithdrawUpdated(c) ==
    /\ Answered(c, "switch") /\ ~Broken(c)
    /\ picked' = {}
    /\ IF Good(c) THEN /\ GoOn(c, LoadOf(call[c].search.word, 0, ItemsPerPage))
                       /\ pager' = [pager EXCEPT !.page = 1]
                       /\ spin' = spin \cup {"loading"}
                  ELSE End(c) /\ UNCHANGED <<pager, spin>>
    /\ Notes(c, {})
    /\ Still /\ UNCHANGED <<list, search, knob>>

WithdrawStep ==
    \/ WithdrawRefresh \/ WithdrawType \/ WithdrawTurn \/ WithdrawEdit \/ WithdrawSubmit
    \/ \E c \in Calls : \/ WithdrawLoaded(c) \/ WithdrawUpdated(c)
                        \/ Thrown(c, {"loading"}) /\ call[c].req.op = "load"
                        \/ Thrown(c, {}) /\ call[c].req.op = "switch"
-----------------------------------------------------------------------------
(* TopUpsTable                                                             *)

\* Every change of the form, and of the page size, is an effect: refresh.
TopUpRefresh == \E c \in Calls : FirstPage(c)
TopUpType ==
    \E q \in {"", "key"} \ {search.word}, c \in Calls :
        /\ search' = [search EXCEPT !.word = q]
        /\ pager' = [pager EXCEPT !.page = 1]
        /\ AskWith(c, LoadOf(q, 0, ItemsPerPage), search')
        /\ spin' = spin \cup {"loading"}
        /\ UNCHANGED <<view, db, list, picked, knob>>
TopUpResize ==
    \E n \in Sizes \ {pager.size}, c \in Calls :
        /\ pager' = [pager EXCEPT !.size = n, !.page = 1]
        /\ Starts(c, LoadOf(search.word, 0, ItemsPerPage), {"loading"})
        /\ UNCHANGED <<view, db, list, search, picked, knob>>
\* The page size is the pager's alone: rows are loaded and cut by ItemsPerPage.
TopUpTurn == TurnPage(search.word, ItemsPerPage, {"loading"})
TopUpLoaded(c) == Loaded(c, ItemsPerPage, Growing)

\* deleteTopUps: whatever was answered, or nothing, refresh starts.
TopUpPurge == \E c \in Calls : Sends(c, Purge, {"loading"})
TopUpPurged(c) ==
    /\ Answered(c, "purge")
    /\ GoOn(c, LoadOf(call[c].search.word, 0, ItemsPerPage))
    /\ pager' = [pager EXCEPT !.page = 1]
    /\ spin' = spin \ {"loading"}
    /\ Notes(c, {"deleted"})
    /\ Still /\ UNCHANGED <<list, search, picked, knob>>

TopUpStep ==
    \/ TopUpRefresh \/ TopUpType \/ TopUpResize \/ TopUpTurn \/ TopUpPurge
    \/ \E c \in Calls : \/ TopUpLoaded(c) \/ TopUpPurged(c)
                        \/ Thrown(c, {}) /\ call[c].req.op = "load"
-----------------------------------------------------------------------------
(* MjLogsTable                                                             *)

MjRefresh == \E c \in Calls : FirstPage(c)
MjType == \E q \in {"", "key"} : Type(q)
MjTurn == TurnPage(search.word, ItemsPerPage, {"loading"})
MjLoaded(c) == Loaded(c, ItemsPerPage, Growing)

MjStep ==
    \/ MjRefresh \/ MjType \/ MjTurn
    \/ \E c \in Calls : MjLoaded(c) \/ Thrown(c, {})
-----------------------------------------------------------------------------
(* LogsTable: the server cuts the pages                                    *)

LogRefresh ==
    \E c \in Calls :
        /\ pager' = [pager EXCEPT !.page = 1]
        /\ Starts(c, Reload(search.word, pager.size), {"loading"})
        /\ UNCHANGED <<view, db, list, search, picked, knob>>
LogInput == \E q \in {"", "key"} : Type(q)
\* setLogType, whose effect is refresh.
LogType ==
    \E q \in {"", "key"} \ {search.word}, c \in Calls :
        /\ search' = [search EXCEPT !.word = q]
        /\ pager' = [pager EXCEPT !.page = 1]
        /\ AskWith(c, Reload(q, pager.size), search')
        /\ spin' = spin \cup {"loading"}
        /\ UNCHANGED <<view, db, list, picked, knob>>
\* handlePageChange; the effect on activePage loads.
LogTurn ==
    \E p \in 1..Ceil(pager.count, pager.size), c \in Calls :
        /\ p # pager.page
        /\ pager' = [pager EXCEPT !.page = p]
        /\ Starts(c, LoadOf(search.word, p - 1, pager.size), {"loading"})
        /\ UNCHANGED <<view, db, list, search, picked, knob>>
\* handlePageSizeChange loads in the closure, by the old size; the effect
\* refreshes by the new one.
LogResize ==
    \E n \in Sizes \ {pager.size}, c, d \in Calls :
        /\ pager' = [pager EXCEPT !.size = n, !.page = 1]
        /\ AskTwo(c, d, LoadOf(search.word, 0, pager.size), Reload(search.word, n), pager')
        /\ spin' = spin \cup {"loading"}
        /\ UNCHANGED <<view, db, list, search, picked, knob>>
\* loadLogs; refresh goes on with handleEyeClick, which asks for the totals
\* only if its closure shows none, and toggles.
LogLoaded(c) ==
    LET k == call[c] IN
    /\ Answered(c, "load")
    /\ IF Good(c) THEN /\ Show(Objects(k.data), k.req.query)
                       /\ pager' = [pager EXCEPT !.count = k.total]
                  ELSE UNCHANGED <<list, pager>>
    /\ spin' = spin \ {"loading"}
    /\ \/ /\ k.req.to = 0
          /\ End(c) /\ Notes(c, {}) /\ UNCHANGED search
       \/ /\ k.req.to = 1 /\ ~k.search.filtering
          /\ GoOn(c, Totals(k.req.query)) /\ Notes(c, {}) /\ UNCHANGED search
       \/ /\ k.req.to = 1 /\ k.search.filtering
          /\ search' = [search EXCEPT !.filtering = FALSE]
          /\ End(c) /\ Notes(c, {"toggled"})
    /\ Still /\ UNCHANGED <<picked, knob>>
LogTotals(c) ==
    /\ Answered(c, "totals") /\ ~Broken(c)
    /\ search' = [search EXCEPT !.filtering = TRUE,
                      !.stat = IF Good(c) THEN call[c].req.query ELSE @]
    /\ End(c) /\ Notes(c, {})
    /\ Still /\ UNCHANGED <<list, pager, spin, picked, knob>>

LogStep ==
    \/ LogRefresh \/ LogInput \/ LogType \/ LogTurn \/ LogResize
    \/ \E c \in Calls : \/ LogLoaded(c) \/ LogTotals(c)
                        \/ Thrown(c, {}) /\ call[c].req.op = "totals"
=============================================================================
