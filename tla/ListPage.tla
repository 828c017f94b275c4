------------------------------ MODULE ListPage ------------------------------
(***************************************************************************)
(* What the tables of the two web interfaces share.  A table keeps the     *)
(* rows it was sent, asks for more when a page is turned, and changes its  *)
(* copy when a change was answered.  Every request is an async function:   *)
(* it works with the rows and the pager of the rendering it was called     *)
(* from (its closure), whatever has been answered since.  The modules      *)
(* AdminTables and UserTables hold what each table does.                   *)
(***************************************************************************)
EXTENDS Integers, Sequences, FiniteSets, SequencesExt

CONSTANTS
    Ids,        \* ids of the rows; the server lists the highest first
    Hits,       \* ids found by the keyword of a search
    Views,      \* the tables looked at
    Sizes,      \* page sizes on offer
    Calls,      \* requests that may be under way together
    MaxCalls,   \* bound on the requests of each table
    MaxPicked,  \* bound on the rows selected
    MaxUpsets   \* bound on refused and broken requests and on changes by others

ASSUME IdsAssumption == Ids \subseteq Nat \ {0} /\ IsFiniteSet(Ids) /\ Hits \subseteq Ids
ASSUME SizesAssumption == Sizes \subseteq Nat \ {0} /\ Sizes # {}
ASSUME CallsAssumption == Calls \subseteq Nat /\ IsFiniteSet(Calls)

VARIABLES
    view,       \* the table that is open
    db,         \* status of each row at the server: 0 no row, 1 enabled or paid,
                \* 2 disabled or pending, 3 used, expired, disabled by the program
    list,       \* rows held by the page, the array they are in, their query
    pager,      \* page, page size, number of rows announced to the pager
    search,     \* keyword in the form: "", "key"; filtering: isFiltering, showStat;
                \* stat: query the totals are of
    spin,       \* "loading", "searching": indicators that are on
    picked,     \* selected rows, or the row a modal shows
    knob,       \* statusSwitch of the rows of the user's tokens, or 0
    call,       \* requests under way
    bounds,     \* requests and upsets so far
    history     \* what happened that excuses a page: see Excuses

listVars == <<view, db, list, pager, search, spin, picked, knob, call, bounds, history>>

\* helpers/api.js: ITEMS_PER_PAGE, "must keep same as the one defined in backend"
ItemsPerPage == CHOOSE n \in Sizes : \A m \in Sizes : n <= m

-----------------------------------------------------------------------------
(* The server                                                              *)

\* refresh of UsersTable searches for undefined, which finds nothing.
Finds(q) ==
    {i \in Ids : /\ db[i] # 0
                 /\ CASE q = "" -> TRUE [] q = "key" -> i \in Hits [] OTHER -> FALSE}

\* The highest first.
InOrder(S) == CHOOSE s \in [1..Cardinality(S) -> S] : \A j, k \in DOMAIN s : j < k => s[j] > s[k]

\* Order("id desc").Limit(num).Offset(from)
Lines(q, from, num) ==
    LET all == InOrder(Finds(q))
    IN  SubSeq(all, from + 1, IF from + num < Len(all) THEN from + num ELSE Len(all))
-----------------------------------------------------------------------------
(* Requests                                                                *)

Load(page, size) == [op |-> "load", page |-> page, size |-> size, query |-> "", rows |-> {}, to |-> 0]
LoadOf(q, page, size) == [Load(page, size) EXCEPT !.query = q]
\* The load of refresh, which the totals follow.
Reload(q, size) == [LoadOf(q, 0, size) EXCEPT !.to = 1]
\* A load after which setActivePage(page) is called.
ThenPage(req, page) == [req EXCEPT !.to = page]
Totals(q) == [LoadOf(q, 0, 0) EXCEPT !.op = "totals"]
Search(q) == [Load(0, 0) EXCEPT !.op = "search", !.query = q]
Switch(row, to) == [Load(0, 0) EXCEPT !.op = "switch", !.rows = {row}, !.to = to]
\* Requests that leave the status alone: a role, a billing strategy.
Rank(row) == Switch(row, 0)
Delete(row) == [Load(0, 0) EXCEPT !.op = "delete", !.rows = {row}]
Drop(S) == [Load(0, 0) EXCEPT !.op = "drop", !.rows = S]
Copy(row) == [Load(0, 0) EXCEPT !.op = "copy", !.rows = {row}]
Purge == [Load(0, 0) EXCEPT !.op = "purge"]

NoCall == [pc |-> "idle"]
Idle(c) == call[c].pc = "idle"
\* The slot the next request takes.
Free(c) == Idle(c) /\ \A d \in Calls : d < c => ~Idle(d)
Quiet == \A c \in Calls : Idle(c)
NamesOf(rows) == {r.id : r \in rows}
\* A selection by key: which row, not which object.
Keys(rows) == {[id |-> i, arr |-> 0, status |-> 1] : i \in NamesOf(rows)}

\* Two switches of different rows.
Apart(req, other) ==
    /\ req.op = "switch" /\ other.op = "switch"
    /\ NamesOf(req.rows) \cap NamesOf(other.rows) = {}

\* A request is sent while another is under way that it may not expect: one of
\* them changes rows, or its answer is put behind rows that may be replaced.
Changes(req) == req.op \in {"switch", "delete", "drop", "copy", "purge"}
Clash(req) ==
    {h \in {"clash"} : \E d \in Calls :
        /\ ~Idle(d) /\ ~Apart(req, call[d].req)
        /\ Changes(req) \/ Changes(call[d].req) \/ req.page > 0}

\* A request in the closure of a rendering: the rows of now, pager p, form f.
Sent(req, no, p, f) ==
    [pc |-> "sent", req |-> req, no |-> no, seen |-> list, pager |-> p,
     search |-> f, data |-> <<>>, total |-> 0, mounted |-> TRUE,
     answer |-> "ok", second |-> FALSE]

AskBy(c, req, p, f) ==
    /\ Free(c)
    /\ bounds.asked < MaxCalls[view]
    /\ bounds' = [bounds EXCEPT !.asked = @ + 1]
    /\ history' = history \cup Clash(req)
    /\ call' = [call EXCEPT ![c] = Sent(req, bounds.asked + 1, p, f)]

Ask(c, req) == AskBy(c, req, pager, search)
Asked(c, req, p) == AskBy(c, req, p, search)
AskWith(c, req, f) == AskBy(c, req, pager, f)
NoRequest == UNCHANGED <<bounds, history, call>>

\* One event sends two: pager p is what the second finds.
AskTwo(c, d, req, other, p) ==
    /\ Free(c) /\ c < d /\ Idle(d)
    /\ bounds.asked + 1 < MaxCalls[view]
    /\ bounds' = [bounds EXCEPT !.asked = @ + 2]
    /\ history' = history \cup Clash(req) \cup Clash(other)
    /\ call' = [call EXCEPT ![c] = Sent(req, bounds.asked + 1, pager, search),
                            ![d] = Sent(other, bounds.asked + 2, p, search)]

\* The async function goes on with a second request, in the same closure.
GoOn(c, req) == call' = [call EXCEPT ![c].pc = "sent", ![c].req = req, ![c].second = TRUE]
End(c) == call' = [call EXCEPT ![c] = NoCall]

Page == <<view, list, pager, search, spin, picked, knob>>

\* What the answer of c, handled now, does to the excuses.
Notes(c, events) ==
    history' = history \cup events
        \cup {h \in {"reordered"} : \E d \in Calls : ~Idle(d) /\ call[d].no < call[c].no}

\* The answer holds the rows as they are once the request was carried out.
Answer(c, ids, ok) ==
    call' = [call EXCEPT ![c].pc = "answered", ![c].answer = IF ok THEN "ok" ELSE "refused",
                 ![c].total = Cardinality(Finds(call[c].req.query)),
                 ![c].data = [k \in DOMAIN ids |-> [id |-> ids[k], status |-> db'[ids[k]]]]]

\* A token that is expired or exhausted is not enabled.
Accepted(i, to) == db[i] # 0 /\ ~(view \in {"tokens", "mine"} /\ db[i] = 3 /\ to = 1)

\* The server handles a request.
Serve(c) ==
    LET req == call[c].req
        ids == NamesOf(req.rows)
        there == {i \in ids : Accepted(i, req.to)}
        free == {i \in Ids : \A j \in Ids : db[j] # 0 => j < i}
    IN
    /\ call[c].pc = "sent"
    /\ \/ /\ req.op = "load"
          /\ UNCHANGED <<db, history>>
          /\ Answer(c, Lines(req.query, req.page * req.size, req.size), TRUE)
       \/ /\ req.op = "totals"
          /\ UNCHANGED <<db, history>>
          /\ Answer(c, <<>>, TRUE)
       \/ /\ req.op = "search"
          /\ UNCHANGED <<db, history>>
          /\ Answer(c, InOrder(Finds(req.query)), TRUE)
       \/ /\ req.op = "switch"
          /\ db' = [i \in Ids |-> IF i \in there /\ req.to # 0 THEN req.to ELSE db[i]]
          /\ Answer(c, InOrder(there), there # {})
          /\ UNCHANGED history
       \/ /\ req.op \in {"delete", "drop"}
          /\ db' = [i \in Ids |-> IF i \in ids THEN 0 ELSE db[i]]
          /\ \E ok \in {TRUE, there # {}} : Answer(c, <<>>, ok)
          /\ history' = history \cup {h \in {"shifted"} : req.op = "drop" /\ call[c].pager.page > 1}
       \/ /\ req.op = "copy"
          /\ free # {}
          /\ LET i == CHOOSE i \in free : \A j \in free : i <= j
             IN  \E r \in req.rows : db' = [db EXCEPT ![i] = r.status]
          /\ Answer(c, <<>>, TRUE)
          /\ history' = history \cup {h \in {"shifted"} : call[c].pager.page > 1}
       \/ /\ req.op = "purge"
          /\ db' = [i \in Ids |-> IF db[i] = 1 THEN 1 ELSE 0]
          /\ Answer(c, <<>>, TRUE)
          /\ history' = history \cup {h \in {"shifted"} : view = "channels"}
    /\ UNCHANGED Page /\ UNCHANGED bounds

Upset ==
    /\ bounds.upsets < MaxUpsets
    /\ bounds' = [bounds EXCEPT !.upsets = @ + 1]

\* The rows are not loaded again after a change.
Unloaded(c) == {h \in {"unloaded"} : call[c].second}

\* "success": false, after nothing was changed; or an error of the transport,
\* which the interceptor shows and turns into an undefined result.
Refuse(c) ==
    /\ call[c].pc = "sent"
    /\ Upset
    /\ \E a \in {"refused", "broken"} :
          /\ call' = [call EXCEPT ![c].pc = "answered", ![c].answer = a]
          /\ history' = history \cup {a} \cup Unloaded(c)
    /\ UNCHANGED Page /\ UNCHANGED db

\* The answer of a request that was carried out does not arrive.
Lose(c) ==
    /\ call[c].pc = "answered" /\ call[c].answer # "broken"
    /\ Upset
    /\ call' = [call EXCEPT ![c].answer = "broken"]
    /\ history' = history \cup {"lost"} \cup Unloaded(c)
    /\ UNCHANGED Page /\ UNCHANGED db

\* A row is used, expires, is deleted or inserted by somebody else.
Foreign ==
    /\ Upset
    /\ \E i \in Ids :
          \/ /\ db[i] # 0
             /\ \E s \in IF db[i] = 1 THEN {0, 3} ELSE {0} : db' = [db EXCEPT ![i] = s]
          \/ /\ \A j \in Ids : db[j] # 0 => j < i
             /\ db' = [db EXCEPT ![i] = 1]
    /\ history' = history \cup {"foreign"}
    /\ UNCHANGED Page /\ UNCHANGED call
-----------------------------------------------------------------------------
(* The rows of a page                                                      *)

\* A row object is known by its id and the array it was first sent in: an
\* assignment to one of its fields shows in every array that holds it.
ArraysOf(l) == {l.arr} \cup {r.arr : r \in ToSet(l.rows)}
Arrays == ArraysOf(list) \cup (UNION {ArraysOf(call[c].seen) : c \in {d \in Calls : ~Idle(d)}})
              \cup {r.arr : r \in picked}
Fresh == CHOOSE n \in 0..Cardinality(Arrays) :
             n \notin Arrays /\ \A m \in 0..(n - 1) : m \in Arrays

Objects(data) == [k \in DOMAIN data |-> [id |-> data[k].id, arr |-> Fresh, status |-> data[k].status]]
\* {...channel}: objects of their own.
Renewed(rows) == [k \in DOMAIN rows |-> [rows[k] EXCEPT !.arr = Fresh]]

\* Mutant of Splice: newRows.splice(at, 0, ...rows).
SpliceNone(old, at, rows) ==
    SubSeq(old, 1, IF at < Len(old) THEN at ELSE Len(old)) \o rows \o SubSeq(old, at + 1, Len(old))
\* newRows.splice(at, rows.length, ...rows): past the end it appends.
Splice(old, at, rows) ==
    SubSeq(old, 1, IF at < Len(old) THEN at ELSE Len(old)) \o rows
        \o SubSeq(old, at + Len(rows) + 1, Len(old))

\* The rows at some positions, in their order.
At(rows, places) ==
    LET n == Cardinality(places)
    IN  [k \in 1..n |-> rows[InOrder(places)[n + 1 - k]]]
Without(rows, i) == At(rows, {k \in DOMAIN rows : rows[k].id # i})

Show(rows, of) == list' = [arr |-> Fresh, rows |-> rows, of |-> of]

Set(o, s, rows) ==
    [k \in DOMAIN rows |->
        IF rows[k].id = o.id /\ rows[k].arr = o.arr THEN [rows[k] EXCEPT !.status = s] ELSE rows[k]]

\* record.status = s, seen through every array that holds the record; the
\* request c is over.
Assign(c, o, s) ==
    call' = [d \in Calls |-> IF d = c \/ Idle(d) THEN NoCall
                             ELSE [call[d] EXCEPT !.seen.rows = Set(o, s, @)]]

Ceil(a, b) == (a + b - 1) \div b
-----------------------------------------------------------------------------
(* Steps all tables are made of                                            *)

Starts(c, req, flags) == Ask(c, req) /\ spin' = spin \cup flags

Slice(width) == SubSeq(list.rows, (pager.page - 1) * width + 1,
                       IF pager.page * width < Len(list.rows) THEN pager.page * width ELSE Len(list.rows))

\* A page is turned while a request is under way.
Early == {h \in {"turned"} : ~Quiet}
Turned == history' = history \cup Early /\ UNCHANGED <<bounds, call>>

\* Mutant of NotHeld: off by one.
BeyondNext(p, width) == p > Ceil(Len(list.rows), width) + 1
NotHeld(p, width) == p = Ceil(Len(list.rows), width) + 1

\* setActivePage, and a request when the page is the one after the last held.
TurnPage(word, width, flags) ==
    /\ \E p \in 1..Ceil(pager.count, pager.size) :
          /\ pager' = [pager EXCEPT !.page = p]
          /\ IF NotHeld(p, width)
             THEN \E c \in Calls : Starts(c, LoadOf(word, p - 1, width), flags)
             ELSE p # pager.page /\ Turned /\ UNCHANGED spin
    /\ UNCHANGED <<view, db, list, search, picked, knob>>

Pick(S) ==
    /\ picked # S /\ Cardinality(S) <= MaxPicked
    /\ picked' = S
    /\ NoRequest /\ UNCHANGED <<view, db, list, pager, search, spin, knob>>
Type(q) ==
    /\ search.word # q /\ search' = [search EXCEPT !.word = q]
    /\ NoRequest /\ UNCHANGED <<view, db, list, pager, spin, picked, knob>>
Sends(c, req, flags) ==
    Starts(c, req, flags) /\ UNCHANGED <<view, db, list, pager, search, picked, knob>>

\* The rows of an answer to a load: the first page replaces all.
Placed(c, width) ==
    LET k == call[c] IN
    IF k.req.page = 0 THEN Objects(k.data)
                      ELSE Splice(k.seen.rows, k.req.page * width, Objects(k.data))
Of(c) == IF call[c].req.page = 0 THEN call[c].req.query ELSE call[c].seen.of

\* Rows of a later page that do not continue those held.
Misfits(c, width) ==
    LET k == call[c] IN
    {h \in {"gap"} : Len(k.seen.rows) < k.req.page * width}
        \cup {h \in {"mixed"} : k.req.page > 0 /\ k.req.query # k.seen.of}

\* setActivePage, or the page that is open.
PageAfter(c) == IF call[c].req.to = 0 THEN pager.page ELSE call[c].req.to

Answered(c, op) == call[c].pc = "answered" /\ call[c].req.op = op
Good(c) == call[c].answer = "ok"
Refused(c) == call[c].answer = "refused"
\* The page takes an answer for a success that was none.
Denied(c) == {h \in {"denied"} : ~Good(c)}
Broken(c) == call[c].answer = "broken"
Still == UNCHANGED <<view, db, bounds>>

\* The answer of a load: rows and pager, or a message; then setLoading(false).
Loaded(c, width, count(_)) ==
    /\ Answered(c, "load") /\ ~Broken(c)
    /\ pager' = [pager EXCEPT !.page = PageAfter(c),
                     !.count = IF Good(c) THEN count(Len(Placed(c, width))) ELSE @]
    /\ IF Good(c) THEN Show(Placed(c, width), Of(c)) /\ Notes(c, Misfits(c, width))
                  ELSE UNCHANGED list /\ Notes(c, {})
    /\ spin' = spin \ {"loading"}
    /\ End(c)
    /\ Still /\ UNCHANGED <<search, picked, knob>>

\* The undefined result is destructured: the function ends there, and what it
\* would have reset stays, unless a finally or a catch resets it.
Thrown(c, reset) ==
    /\ call[c].pc = "answered" /\ Broken(c)
    /\ spin' = spin \ reset
    /\ End(c) /\ Notes(c, {})
    /\ Still /\ UNCHANGED <<list, pager, search, picked, knob>>
=============================================================================
