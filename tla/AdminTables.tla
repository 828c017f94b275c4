---------------------------- MODULE AdminTables ----------------------------
(***************************************************************************)
(* The tables of web-admin/src/components whose rows can be changed:       *)
(* channels, tokens, users and redemption codes.  Each is what its         *)
(* handlers, and the answers to its requests, do to the rows it holds.     *)
(***************************************************************************)
EXTENDS ListPage

RowOf(c) == CHOOSE r \in call[c].req.rows : TRUE

\* setTokensFormat, setChannelFormat: a page more than held, if one is full.
AnotherPage(n, width) == IF n >= width THEN n + width ELSE n
-----------------------------------------------------------------------------
(* ChannelsTable                                                           *)

ChannelRows == IF search.filtering THEN list.rows ELSE Slice(pager.size)

\* The controls of a row: the switch, and the deletion.
ChannelControls(r) == {Switch(r, IF r.status = 1 THEN 2 ELSE 1), Delete(r)}

ChannelManage ==
    \E c \in Calls, r \in ToSet(ChannelRows) : \E req \in ChannelControls(r) : Sends(c, req, {})

\* The effect of the first rendering; refresh, after a form was saved, loads
\* the page that is open.
ChannelFirst == Load(0, ItemsPerPage)
ChannelRefresh == \E c \in Calls : Sends(c, Load(pager.page - 1, pager.size), {"loading"})

\* loadChannels: setChannelFormat copies every row.
ChannelLoaded(c) ==
    /\ Answered(c, "load") /\ ~Broken(c)
    /\ IF Refused(c) THEN UNCHANGED <<list, pager>> /\ Notes(c, {})
       ELSE LET rows == Placed(c, call[c].req.size)
            IN  /\ Show(Renewed(rows), Of(c))
                /\ pager' = [pager EXCEPT !.count = AnotherPage(Len(rows), call[c].pager.size)]
                /\ Notes(c, Misfits(c, call[c].req.size))
    /\ spin' = spin \ {"loading"}
    /\ End(c)
    /\ Still /\ UNCHANGED <<search, picked, knob>>

\* handlePageChange
ChannelTurn == ~search.filtering /\ TurnPage("", pager.size, {"loading"})

\* handlePageSizeChange: a load of its own, then the one of the effect.
ChannelResize ==
    /\ ~search.filtering
    /\ \E n \in Sizes \ {pager.size} :
          /\ pager' = [pager EXCEPT !.size = n, !.page = 1]
          /\ \E c, d \in Calls : AskTwo(c, d, Load(0, n), Load(0, n), pager')
    /\ spin' = spin \cup {"loading"}
    /\ UNCHANGED <<view, db, list, search, picked, knob>>

\* searchChannels: filtering follows the keyword at once.
ChannelSearch ==
    /\ \E c \in Calls, q \in {"", "key"} :
          /\ Starts(c, Search(q), {"searching"})
          /\ search' = [search EXCEPT !.word = q, !.filtering = q # ""]
    /\ UNCHANGED <<view, db, list, pager, picked, knob>>

\* resetSearch
ChannelReset ==
    \E c, d \in Calls :
        /\ AskTwo(c, d, Search(""), Load(pager.page - 1, pager.size), pager)
        /\ search' = [search EXCEPT !.word = "", !.filtering = FALSE]
        /\ spin' = spin \cup {"loading", "searching"}
        /\ UNCHANGED <<view, db, list, pager, picked, knob>>

\* setChannelFormat, and the plain length unless the closure was filtering.
ChannelSearched(c) ==
    /\ Answered(c, "search") /\ ~Broken(c)
    /\ IF Refused(c) THEN UNCHANGED <<list, pager, picked>>
       ELSE LET rows == Objects(call[c].data)
            IN  /\ Show(rows, call[c].req.query)
                /\ pager' = [pager EXCEPT !.count =
                                IF call[c].search.filtering THEN AnotherPage(Len(rows), call[c].pager.size)
                                                            ELSE Len(rows)]
                /\ picked' = {}
    /\ spin' = spin \ {"searching"}
    /\ End(c) /\ Notes(c, {})
    /\ Still /\ UNCHANGED <<search, knob>>

\* manageChannel; after a deletion removeRecord, of the same closure, runs
\* whether the server agreed or not.
ChannelManaged(c) ==
    /\ \/ /\ Answered(c, "switch") /\ Good(c)
          /\ Show(Set(RowOf(c), call[c].req.to, call[c].seen.rows), call[c].seen.of)
          /\ Assign(c, RowOf(c), call[c].req.to) /\ Notes(c, {})
       \/ /\ Answered(c, "switch") /\ Refused(c)
          /\ End(c) /\ Notes(c, {}) /\ UNCHANGED list
       \/ /\ Answered(c, "delete") /\ ~Broken(c)
          /\ Show(Without(call[c].seen.rows, RowOf(c).id), call[c].seen.of)
          /\ End(c) /\ Notes(c, {"deleted"} \cup Denied(c))
    /\ Still /\ UNCHANGED <<pager, search, spin, picked, knob>>

\* The selection, kept by key, and the buttons it brings: copy for one, delete
\* for more.
ChannelPick == \E S \in SUBSET Keys(ToSet(ChannelRows)) : Pick(S)
ChannelSelected ==
    {Drop(S) : S \in {T \in {picked} : Cardinality(T) > 1}}
        \cup {Copy(row) : row \in {r \in ToSet(list.rows) : NamesOf(picked) = {r.id}}}
ChannelBatch == \E c \in Calls : \E req \in ChannelSelected : Sends(c, req, {})
ChannelPurge == \E c \in Calls : Sends(c, Purge, {})

\* The function goes on to refresh, of its closure: the page that was open.
Refreshes(c) ==
    /\ GoOn(c, Load(call[c].pager.page - 1, call[c].pager.size))
    /\ spin' = spin \cup {"loading"}

\* deleteSelectedChannels: API never throws, so all are taken for deleted.
ChannelDropped(c) ==
    /\ Answered(c, "drop")
    /\ picked' = {}
    /\ Refreshes(c) /\ Notes(c, {"deleted"})
    /\ Still /\ UNCHANGED <<list, pager, search, knob>>

\* copySelectedChannel
ChannelCopied(c) ==
    /\ Answered(c, "copy") /\ ~Broken(c)
    /\ IF Refused(c) THEN End(c) /\ UNCHANGED spin ELSE Refreshes(c)
    /\ Notes(c, {})
    /\ Still /\ UNCHANGED <<list, pager, search, picked, knob>>

\* deleteAllDisabledChannels says how many, and leaves the rows.
ChannelPurged(c) ==
    /\ Answered(c, "purge") /\ ~Broken(c)
    /\ End(c) /\ Notes(c, {})
    /\ Still /\ UNCHANGED <<list, pager, search, spin, picked, knob>>

ChannelStep ==
    \/ ChannelManage \/ ChannelRefresh \/ ChannelTurn \/ ChannelResize \/ ChannelSearch \/ ChannelReset
    \/ ChannelPick \/ ChannelBatch \/ ChannelPurge
    \/ \E c \in Calls : \/ ChannelLoaded(c) \/ ChannelSearched(c) \/ ChannelManaged(c)
                        \/ ChannelDropped(c) \/ ChannelCopied(c) \/ ChannelPurged(c)
                        \/ Thrown(c, {}) /\ call[c].req.op # "drop"
-----------------------------------------------------------------------------
(* TokensTable                                                             *)

TokenRows == Slice(pager.size)

\* The switch of renderStatus, the deletion, the strategy when it is offered.
TokenControls(r) == {Switch(r, IF r.status = 1 THEN 2 ELSE 1), Delete(r), Rank(r)}

Strategic(req) == req.op = "switch" /\ req.to = 0

TokenManage ==
    \E c \in Calls, r \in ToSet(TokenRows) :
        \E req \in TokenControls(r) : Sends(c, req, {"loading"})

TokenRefresh == \E c \in Calls : Sends(c, Load(pager.page - 1, pager.size), {"loading"})
TokenTurn == TurnPage("", pager.size, {"loading"})

\* onPageSizeChange; the effect on pageSize loads.
TokenResize ==
    \E n \in Sizes \ {pager.size}, c \in Calls :
        /\ pager' = [pager EXCEPT !.size = n, !.page = 1]
        /\ Asked(c, Load(0, n), pager') /\ spin' = spin \cup {"loading"}
        /\ UNCHANGED <<view, db, list, search, picked, knob>>

\* searchTokens: without a keyword it is a load, and the page is turned later.
TokenSearch ==
    \E c \in Calls :
        IF search.word = "" THEN Sends(c, ThenPage(Load(0, pager.size), 1), {"loading"})
                            ELSE Sends(c, Search(search.word), {"searching"})
TokenType == \E q \in {"", "key"} : Type(q)

\* setTokensFormat of the closure.
TokensFormat(c, rows, of) ==
    /\ Show(rows, of)
    /\ pager' = [pager EXCEPT !.count = AnotherPage(Len(rows), call[c].pager.size)]

TokenLoaded(c) == Loaded(c, call[c].req.size, LAMBDA n : AnotherPage(n, call[c].pager.size))

\* Mutant of TokenSearched: the pager is not told how many were found.
TokenSearchedUncounted(c) ==
    /\ Answered(c, "search") /\ ~Broken(c)
    /\ IF Refused(c) THEN UNCHANGED <<list, pager>>
       ELSE /\ Show(Objects(call[c].data), call[c].req.query)
            /\ pager' = [pager EXCEPT !.page = 1]
    /\ spin' = spin \ {"searching"}
    /\ End(c) /\ Notes(c, {})
    /\ Still /\ UNCHANGED <<search, picked, knob>>
TokenSearched(c) ==
    /\ Answered(c, "search") /\ ~Broken(c)
    /\ IF Refused(c) THEN UNCHANGED <<list, pager>>
       ELSE LET rows == Objects(call[c].data)
            IN  /\ Show(rows, call[c].req.query)
                /\ pager' = [pager EXCEPT !.page = 1, !.count = AnotherPage(Len(rows), call[c].pager.size)]
    /\ spin' = spin \ {"searching"}
    /\ End(c) /\ Notes(c, {})
    /\ Still /\ UNCHANGED <<search, picked, knob>>

\* manageToken and removeRecord.
TokenManaged(c) ==
    LET k == call[c] IN
    /\ k.pc = "answered" /\ ~Broken(c)
    /\ \/ /\ Answered(c, "switch") /\ k.req.to # 0 /\ Good(c)
          /\ TokensFormat(c, Set(RowOf(c), k.req.to, k.seen.rows), k.seen.of)
          /\ Assign(c, RowOf(c), k.req.to)
          /\ Notes(c, {})
       \/ /\ Answered(c, "switch") /\ k.req.to # 0 /\ Refused(c)
          /\ End(c) /\ Notes(c, {}) /\ UNCHANGED <<list, pager>>
       \/ /\ Answered(c, "delete")
          /\ TokensFormat(c, Without(k.seen.rows, RowOf(c).id), k.seen.of)
          /\ End(c) /\ Notes(c, {"deleted"} \cup Denied(c))
    /\ spin' = spin \ {"loading"}
    /\ Still /\ UNCHANGED <<search, picked, knob>>

\* updateTokenBillingStrategy: refresh is not awaited, finally ends the spinner.
\* Its load may renew the rows that other switches under way still hold.
TokenStrategy(c) ==
    /\ Answered(c, "switch") /\ call[c].req.to = 0
    /\ IF Good(c) THEN GoOn(c, Load(call[c].pager.page - 1, call[c].pager.size)) ELSE End(c)
    /\ spin' = spin \ {"loading"}
    /\ Notes(c, {h \in {"clash"} : Good(c) /\ \E d \in Calls \ {c} : ~Idle(d)})
    /\ Still /\ UNCHANGED <<list, pager, search, picked, knob>>

\* deleteSelectedTokens keeps the rows that are not among the selected objects.
TokenPick == \E S \in SUBSET ToSet(TokenRows) : Pick(S)
TokenBatch == picked # {} /\ \E c \in Calls : Sends(c, Drop(picked), {"loading"})
Same(r, S) == \E o \in S : o.id = r.id /\ o.arr = r.arr
TokenDropped(c) ==
    LET k == call[c] IN
    /\ Answered(c, "drop")
    /\ Show(At(k.seen.rows, {p \in DOMAIN k.seen.rows : ~Same(k.seen.rows[p], k.req.rows)}), k.seen.of)
    /\ picked' = {}
    /\ spin' = spin \ {"loading"}
    /\ End(c)
    /\ Notes(c, {"deleted"} \cup Denied(c) \cup {h \in {"stale"} : \E r \in k.req.rows : ~Same(r, ToSet(k.seen.rows))})
    /\ Still /\ UNCHANGED <<pager, search, knob>>

TokenStep ==
    \/ TokenManage \/ TokenRefresh \/ TokenTurn \/ TokenResize \/ TokenSearch \/ TokenType
    \/ TokenPick \/ TokenBatch
    \/ \E c \in Calls : \/ TokenLoaded(c) \/ TokenSearched(c) \/ TokenManaged(c)
                        \/ TokenStrategy(c) \/ TokenDropped(c)
                        \/ Thrown(c, {}) /\ call[c].req.op # "drop" /\ ~Strategic(call[c].req)
-----------------------------------------------------------------------------
(* UsersTable and RedemptionsTable                                         *)

FullRows == Slice(ItemsPerPage)

\* newUsers.push(...data): the array that the closure held, seen by everyone
\* who holds it, becomes the state again.
Pushed(c) ==
    LET k == call[c]
        rows == k.seen.rows \o Objects(k.data)
    IN  /\ list' = [k.seen EXCEPT !.rows = rows]
        /\ call' = [d \in Calls |->
                        IF d = c \/ Idle(d) THEN NoCall
                        ELSE IF call[d].seen.arr = k.seen.arr THEN [call[d] EXCEPT !.seen.rows = rows]
                        ELSE call[d]]

\* setCount, setRedemptionFormat: one more than held, if the page is full.
OneMore(c, n) == IF n >= call[c].pager.page * ItemsPerPage THEN n + 1 ELSE n

\* loadUsers, loadRedemptions
PushLoaded(c) ==
    LET k == call[c]
        n == Len(k.data) + IF k.req.page = 0 THEN 0 ELSE Len(k.seen.rows)
    IN
    /\ Answered(c, "load") /\ ~Broken(c)
    /\ \/ /\ Refused(c)
          /\ End(c) /\ Notes(c, {}) /\ UNCHANGED list
          /\ pager' = [pager EXCEPT !.page = PageAfter(c)]
       \/ /\ Good(c) /\ k.req.page = 0
          /\ Show(Objects(k.data), k.req.query)
          /\ End(c) /\ Notes(c, {})
          /\ pager' = [pager EXCEPT !.page = PageAfter(c), !.count = OneMore(c, n)]
       \/ /\ Good(c) /\ k.req.page > 0
          /\ Pushed(c)
          /\ Notes(c, Misfits(c, ItemsPerPage)
                        \cup {h \in {"pushed"} : Len(k.seen.rows) > k.req.page * ItemsPerPage})
          /\ pager' = [pager EXCEPT !.count = OneMore(c, n)]
    /\ spin' = spin \ {"loading"}
    /\ Still /\ UNCHANGED <<search, picked, knob>>

\* Mutant of PushSearched: setLoading(false) for setSearching(false).
PushSearchedSpinning(c) ==
    /\ Answered(c, "search") /\ ~Broken(c)
    /\ IF Refused(c) THEN UNCHANGED <<list, pager>>
       ELSE /\ Show(Objects(call[c].data), call[c].req.query)
            /\ pager' = [pager EXCEPT !.page = 1]
    /\ spin' = spin \ {"loading"}
    /\ End(c) /\ Notes(c, {})
    /\ Still /\ UNCHANGED <<search, picked, knob>>
\* The rows found replace all; the number announced stays.
PushSearched(c) ==
    /\ Answered(c, "search") /\ ~Broken(c)
    /\ IF Refused(c) THEN UNCHANGED <<list, pager>>
       ELSE /\ Show(Objects(call[c].data), call[c].req.query)
            /\ pager' = [pager EXCEPT !.page = 1]
    /\ spin' = spin \ {"searching"}
    /\ End(c) /\ Notes(c, {})
    /\ Still /\ UNCHANGED <<search, picked, knob>>

\* manageUser, manageRedemption: the status is the one the server answered.
PushManaged(c) ==
    LET k == call[c] IN
    /\ k.pc = "answered" /\ ~Broken(c)
    /\ \/ /\ Answered(c, "switch") /\ Good(c)
          /\ LET s == k.data[1].status
             IN  Show(Set(RowOf(c), s, k.seen.rows), k.seen.of) /\ Assign(c, RowOf(c), s)
          /\ Notes(c, {})
       \/ /\ Answered(c, "switch") /\ Refused(c)
          /\ End(c) /\ Notes(c, {}) /\ UNCHANGED list
       \/ /\ Answered(c, "delete")
          /\ Show(Without(k.seen.rows, RowOf(c).id), k.seen.of)
          /\ End(c) /\ Notes(c, {"deleted"} \cup Denied(c))
    /\ Still /\ UNCHANGED <<pager, search, spin, picked, knob>>

\* Status 3 of a user: deleted by itself; only the deletion is left.
UserControls(r) ==
    {Delete(r)} \cup
        {req \in {Rank(r), Switch(r, IF r.status = 1 THEN 2 ELSE 1)} : r.status # 3}
UserManage ==
    \E c \in Calls, r \in ToSet(FullRows) : \E req \in UserControls(r) : Sends(c, req, {})

UserTurn == TurnPage("", ItemsPerPage, {})
\* searchUsers(searchKeyword, searchGroup)
UserSearch ==
    \E c \in Calls :
        IF search.word = "" THEN Sends(c, ThenPage(Load(0, ItemsPerPage), 1), {})
                            ELSE Sends(c, Search(search.word), {"searching"})
\* refresh calls searchUsers() with nothing to search for.
UserRefresh ==
    \E c \in Calls :
        IF search.word = "" THEN Sends(c, Load(pager.page - 1, ItemsPerPage), {})
                            ELSE Sends(c, Search("undefined"), {"searching"})
UserType == \E q \in {"", "key"} : Type(q)

UserStep ==
    \/ UserManage \/ UserTurn \/ UserSearch \/ UserRefresh \/ UserType
    \/ \E c \in Calls : PushLoaded(c) \/ PushSearched(c) \/ PushManaged(c) \/ Thrown(c, {})

\* Mutant of CodeControls: the switch is there whatever the status.
CodeControlsAlways(r) == {Delete(r), Switch(r, IF r.status = 1 THEN 2 ELSE 1)}
\* A used code is neither enabled nor disabled.
CodeControls(r) == {Delete(r)} \cup {req \in {Switch(r, IF r.status = 1 THEN 2 ELSE 1)} : r.status # 3}
CodeManage ==
    \E c \in Calls, r \in ToSet(FullRows) : \E req \in CodeControls(r) : Sends(c, req, {})

CodeTurn == TurnPage("", ItemsPerPage, {})
CodeRefresh == \E c \in Calls : Sends(c, Load(pager.page - 1, ItemsPerPage), {})
\* searchRedemptions
CodeSearch ==
    \E c \in Calls :
        IF search.word = "" THEN Sends(c, ThenPage(Load(0, ItemsPerPage), 1), {})
                            ELSE Sends(c, Search(search.word), {"searching"})
CodeType == \E q \in {"", "key"} : Type(q)

\* handleDeletion: "success": false counts as deleted; an undefined result
\* ends the function before the rows are loaded again.
CodePick == \E S \in SUBSET ToSet(FullRows) : Pick(S)
CodeBatch == picked # {} /\ \E c \in Calls : Sends(c, Drop(picked), {})
CodeDropped(c) ==
    /\ Answered(c, "drop") /\ ~Broken(c)
    /\ picked' = {}
    /\ GoOn(c, Load(call[c].pager.page - 1, ItemsPerPage))
    /\ Notes(c, {"deleted"})
    /\ Still /\ UNCHANGED <<list, pager, search, spin, knob>>

CodeStep ==
    \/ CodeManage \/ CodeTurn \/ CodeRefresh \/ CodeSearch \/ CodeType \/ CodePick \/ CodeBatch
    \/ \E c \in Calls : \/ PushLoaded(c) \/ PushSearched(c) \/ PushManaged(c) \/ CodeDropped(c)
                        \/ Thrown(c, {})
=============================================================================
