----------------------------- MODULE UserTables -----------------------------
(***************************************************************************)
(* The tables of web-user/src/views: the user's tokens, logs, Midjourney   *)
(* tasks and withdrawals.  pager.page counts from one.                     *)
(***************************************************************************)
EXTENDS ListPage
-----------------------------------------------------------------------------
(* Token/index.js and Token/component/TableRow.js                          *)

\* A row is a component of its own, mounted while it is on the page; its
\* statusSwitch starts as the status of its item and is kept from then on.
Mounted(l, p) == ToSet(SubSeq(l.rows, (p.page - 1) * p.size + 1,
                     IF p.page * p.size < Len(l.rows) THEN p.page * p.size ELSE Len(l.rows)))
StatusIn(rows, i) == (CHOOSE r \in rows : r.id = i).status

\* The rows after a change of the list or of the page; f are the requests.
Mount(f) ==
    LET now == Mounted(list', pager')
        gone == {i \in Ids : knob[i] # 0} \ NamesOf(now)
        lost(d) == f[d] # NoCall /\ f[d].req.op = "switch" /\ NamesOf(f[d].req.rows) \cap gone # {}
    IN
    /\ knob' = [i \in Ids |-> IF i \notin NamesOf(now) THEN 0
                              ELSE IF knob[i] # 0 THEN knob[i] ELSE StatusIn(now, i)]
    /\ call' = [d \in Calls |-> IF lost(d) THEN [f[d] EXCEPT !.mounted = FALSE] ELSE f[d]]

\* A status that only the row knew, or was about to know.
Forgotten ==
    LET gone == {i \in Ids : knob[i] # 0} \ NamesOf(Mounted(list', pager')) IN
    {h \in {"forgotten"} :
        \/ \E i \in gone : \E r \in ToSet(list.rows) : r.id = i /\ knob[i] # r.status
        \/ \E d \in Calls : ~Idle(d) /\ call[d].req.op = "switch"
                            /\ NamesOf(call[d].req.rows) \cap gone # {}}

\* handleStatus, handleBillingChange, handleDelete: by the id of the row.
MineControls(r) == {Switch(r, IF knob[r.id] = 1 THEN 2 ELSE 1), Delete(r)}
MineManage ==
    \E c \in Calls, r \in Mounted(list, pager) : \E req \in MineControls(r) : Sends(c, req, {})

\* handleRefresh; the keyword is emptied after the answer.
MineRefresh == \E c \in Calls : Sends(c, ThenPage(Load(0, ItemsPerPage), 1), {"loading"})

\* onPaginationChange loads by the default size, whatever rowsPerPage is, and
\* turns the page after the answer.
MineTurn ==
    \E p \in {pager.page - 1, pager.page + 1} \ {0} :
        IF p - 1 >= Ceil(Len(list.rows), pager.size)
        THEN \E c \in Calls : Sends(c, ThenPage(Load(p - 1, ItemsPerPage), p), {"loading"})
        ELSE /\ pager' = [pager EXCEPT !.page = p]
             /\ list' = list
             /\ Mount(call) /\ history' = history \cup Forgotten \cup Early
             /\ UNCHANGED <<view, db, search, spin, picked, bounds>>

\* handleRowsPerPageChange, and the effect on rowsPerPage.
MineResize ==
    \E n \in Sizes \ {pager.size}, c, d \in Calls :
        /\ pager' = [pager EXCEPT !.size = n, !.page = 1]
        /\ list' = list
        /\ Free(c) /\ c < d /\ Idle(d)
        /\ bounds.asked + 1 < MaxCalls[view]
        /\ bounds' = [bounds EXCEPT !.asked = @ + 2]
        /\ Mount([call EXCEPT ![c] = Sent(Load(0, n), bounds.asked + 1, pager, search),
                              ![d] = Sent(Load(0, n), bounds.asked + 2, pager', search)])
        /\ history' = history \cup Forgotten \cup Clash(Load(0, n))
        /\ spin' = spin \cup {"loading"}
        /\ UNCHANGED <<view, db, search, picked>>

\* searchTokens asks the server for the empty keyword, too.
MineSearch == \E c \in Calls : Sends(c, ThenPage(Search(search.word), 1), {"loading"})
MineType == \E q \in {"", "key"} : Type(q)

\* loadTokens and searchTokens, with what handleRefresh, onPaginationChange or
\* the search do after it.
MineLoaded(c) ==
    LET k == call[c] IN
    /\ Answered(c, "load") \/ Answered(c, "search")
    /\ IF Good(c) THEN list' = [arr |-> Fresh, rows |-> Placed(c, k.req.size), of |-> Of(c)]
                  ELSE list' = list
    /\ pager' = [pager EXCEPT !.page =
                    IF k.req.op = "search" /\ ~Good(c) THEN pager.page ELSE PageAfter(c)]
    /\ search' = [search EXCEPT !.word = IF k.req.op = "load" /\ k.req.page = 0 /\ k.req.to = 1 THEN "" ELSE @]
    /\ Mount([call EXCEPT ![c] = NoCall])
    /\ Notes(c, Forgotten \cup (IF Good(c) THEN Misfits(c, k.req.size) ELSE {}))
    /\ spin' = spin \ {"loading"}
    /\ Still /\ UNCHANGED picked

\* manageToken: a deletion loads the first page again; the answer of a switch
\* is told to the row that asked, while it is mounted.
MineManaged(c) ==
    LET k == call[c]
        i == (CHOOSE r \in k.req.rows : TRUE).id
    IN
    /\ \/ /\ Answered(c, "switch") /\ ~Broken(c)
          /\ knob' = IF Good(c) /\ k.mounted THEN [knob EXCEPT ![i] = k.req.to] ELSE knob
          /\ End(c) /\ Notes(c, {}) /\ UNCHANGED spin
       \/ /\ Answered(c, "delete") /\ ~Broken(c)
          /\ IF Good(c) THEN GoOn(c, Load(0, ItemsPerPage)) /\ spin' = spin \cup {"loading"}
                        ELSE End(c) /\ UNCHANGED spin
          /\ Notes(c, {"deleted"}) /\ UNCHANGED knob
    /\ Still /\ UNCHANGED <<list, pager, search, picked>>

\* handleSelectOne, handleSelectAllClick: ids, whatever page is shown.
MinePick ==
    \/ \E r \in Mounted(list, pager) :
          Pick(IF r.id \in NamesOf(picked) THEN {p \in picked : p.id # r.id} ELSE picked \cup Keys({r}))
    \/ \E S \in {{}, Keys(ToSet(list.rows))} : Pick(S)

\* handleDeleteSelected: API never rejects, all are taken for deleted.
MineBatch == picked # {} /\ \E c \in Calls : Sends(c, Drop(picked), {})
MineDropped(c) ==
    /\ Answered(c, "drop")
    /\ picked' = {}
    /\ GoOn(c, Load(0, ItemsPerPage)) /\ spin' = spin \cup {"loading"}
    /\ Notes(c, {"deleted"})
    /\ Still /\ UNCHANGED <<list, pager, search, knob>>

MineStep ==
    \/ MineManage \/ MineRefresh \/ MineTurn \/ MineResize \/ MineSearch \/ MineType
    \/ MinePick \/ MineBatch
    \/ \E c \in Calls : \/ MineLoaded(c) \/ MineManaged(c) \/ MineDropped(c)
                        \/ Thrown(c, {}) /\ call[c].req.op \in {"switch", "delete"}
-----------------------------------------------------------------------------
(* Log/index.js and MjLog/index.js                                         *)

HistoryInput == \E q \in {"", "key"} : Type(q)

\* searchLogs turns to the first page after the answer.
HistorySearch == \E c \in Calls : Sends(c, ThenPage(LoadOf(search.word, 0, pager.size), 1), {"loading"})

\* handleRefresh: the effect on initPage runs twice; its first load still has
\* the old form in its closure.
HistoryReset ==
    \E c, d \in Calls :
        /\ pager' = [pager EXCEPT !.page = 1]
        /\ search' = [search EXCEPT !.word = ""]
        /\ AskTwo(c, d, LoadOf(search.word, 0, pager.size), Load(0, pager.size), pager')
        /\ spin' = spin \cup {"loading"}
        /\ UNCHANGED <<view, db, list, picked, knob>>

\* Log/index.js: onPaginationChange, one page on or back.
LogPageTurn ==
    \E p \in {pager.page - 1, pager.page + 1} \cap 1..Ceil(pager.count, pager.size) :
        /\ pager' = [pager EXCEPT !.page = p]
        /\ IF p - 1 = Ceil(Len(list.rows), pager.size)
           THEN \E c \in Calls : Starts(c, LoadOf(search.word, p - 1, pager.size), {"loading"})
           ELSE Turned /\ UNCHANGED spin
        /\ UNCHANGED <<view, db, list, search, picked, knob>>

\* handleChangeRowsPerPage loads by the old size; the effect empties the form
\* and loads by the new size and the old form.
LogPageResize ==
    \E n \in Sizes \ {pager.size}, c, d \in Calls :
        /\ pager' = [pager EXCEPT !.size = n, !.page = 1]
        /\ search' = [search EXCEPT !.word = ""]
        /\ AskTwo(c, d, LoadOf(search.word, 0, pager.size), LoadOf(search.word, 0, n), pager')
        /\ spin' = spin \cup {"loading"}
        /\ UNCHANGED <<view, db, list, picked, knob>>

\* loadLogs: splice, and the total of the server; finally ends the spinner.
LogPageLoaded(c) ==
    /\ Answered(c, "load")
    /\ IF Good(c) THEN /\ Show(Placed(c, call[c].req.size), Of(c))
                       /\ pager' = [pager EXCEPT !.page = PageAfter(c), !.count = call[c].total]
                       /\ Notes(c, Misfits(c, call[c].req.size))
                  ELSE /\ UNCHANGED list /\ Notes(c, {})
                       /\ pager' = [pager EXCEPT !.page = PageAfter(c)]
    /\ spin' = spin \ {"loading"}
    /\ End(c)
    /\ Still /\ UNCHANGED <<search, picked, knob>>

LogPageStep ==
    \/ HistoryInput \/ HistorySearch \/ HistoryReset \/ LogPageTurn \/ LogPageResize
    \/ \E c \in Calls : LogPageLoaded(c)

\* MjLog/index.js: the pager is told one row more when the last page is full;
\* the page is turned after the answer, and not when it throws.
MjPageCount == Len(list.rows) + IF Len(list.rows) % ItemsPerPage = 0 THEN 1 ELSE 0
MjPageTurn ==
    \E p \in {pager.page - 1, pager.page + 1} \cap 1..Ceil(MjPageCount, ItemsPerPage) :
        IF p - 1 = Ceil(Len(list.rows), ItemsPerPage)
        THEN \E c \in Calls : Sends(c, ThenPage(LoadOf(search.word, p - 1, ItemsPerPage), p), {"loading"})
        ELSE /\ pager' = [pager EXCEPT !.page = p]
             /\ Turned /\ UNCHANGED <<view, db, list, search, spin, picked, knob>>
MjPageLoaded(c) ==
    /\ Answered(c, "load") /\ ~Broken(c)
    /\ IF Good(c) THEN /\ Show(Placed(c, ItemsPerPage), Of(c))
                       /\ Notes(c, Misfits(c, ItemsPerPage))
                  ELSE UNCHANGED list /\ Notes(c, {})
    /\ pager' = [pager EXCEPT !.page = PageAfter(c)]
    /\ spin' = spin \ {"loading"}
    /\ End(c)
    /\ Still /\ UNCHANGED <<search, picked, knob>>

MjPageStep ==
    \/ HistoryInput \/ HistorySearch \/ HistoryReset \/ MjPageTurn
    \/ \E c \in Calls : MjPageLoaded(c) \/ Thrown(c, {})
-----------------------------------------------------------------------------
(* Withdrawal/index.js: all orders in one answer, cut into pages           *)

OrdersTurn ==
    \E p \in 1..Ceil(Len(list.rows), pager.size) :
        /\ p # pager.page /\ pager' = [pager EXCEPT !.page = p]
        /\ Turned /\ UNCHANGED <<view, db, list, search, spin, picked, knob>>
OrdersLoaded(c) ==
    /\ Answered(c, "search")
    /\ IF Good(c) THEN Show(Objects(call[c].data), "") ELSE Show(<<>>, "")
    /\ End(c) /\ Notes(c, {})
    /\ Still /\ UNCHANGED <<pager, search, spin, picked, knob>>
OrdersStep == OrdersTurn \/ \E c \in Calls : OrdersLoaded(c)
=============================================================================
