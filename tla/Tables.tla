------------------------------- MODULE Tables -------------------------------
(***************************************************************************)
(* The tables of both web interfaces, each with the server it lists rows   *)
(* of, and what a table promises to who looks at it.                       *)
(***************************************************************************)
EXTENDS AdminTables, LogTables, UserTables

CONSTANT FirstDb    \* the rows the server may hold when a table is opened

ASSUME FirstDbAssumption == \A v \in Views : FirstDb[v] \subseteq [Ids -> 0..3]

\* What the effects of the first rendering send.
Mounts(v) ==
    CASE v = "logs" -> <<Reload("", ItemsPerPage), Load(0, ItemsPerPage)>>
      [] v \in {"minelogs", "minemj"} -> <<Load(0, ItemsPerPage), Load(0, ItemsPerPage)>>
      [] v = "minewd" -> <<Search("")>>
      [] OTHER -> <<Load(0, ItemsPerPage)>>

EmptyList == [arr |-> 0, rows |-> <<>>, of |-> ""]
FirstPager == [page |-> 1, size |-> ItemsPerPage, count |-> ItemsPerPage]
NoSearch == [word |-> "", filtering |-> FALSE, stat |-> ""]

\* The requests of the first rendering find a slot each.
ASSUME SlotsAssumption == \A v \in Views : DOMAIN Mounts(v) \subseteq Calls

Init ==
    /\ view \in Views
    /\ db \in FirstDb[view]
    /\ list = EmptyList /\ pager = FirstPager /\ search = NoSearch
    /\ spin = {"loading"} \ {s \in {"loading"} : view = "minewd"}
    /\ picked = {} /\ knob = [i \in Ids |-> 0]
    /\ LET m == Mounts(view) IN
       call = [c \in Calls |-> IF c \in DOMAIN m THEN Sent(m[c], 0, pager, search) ELSE NoCall]
    /\ bounds = [asked |-> 0, upsets |-> 0]
    /\ history = {}

Server == Foreign \/ \E c \in Calls : Serve(c) \/ Refuse(c) \/ Lose(c)

PageStep ==
    \/ view = "channels" /\ ChannelStep
    \/ view = "tokens" /\ TokenStep
    \/ view = "users" /\ UserStep
    \/ view = "redemptions" /\ CodeStep
    \/ view = "withdrawals" /\ WithdrawStep
    \/ view = "topups" /\ TopUpStep
    \/ view = "mjlogs" /\ MjStep
    \/ view = "logs" /\ LogStep
    \/ view = "mine" /\ MineStep
    \/ view = "minelogs" /\ LogPageStep
    \/ view = "minemj" /\ MjPageStep
    \/ view = "minewd" /\ OrdersStep

Next == PageStep \/ Server

Spec == Init /\ [][Next]_listVars
-----------------------------------------------------------------------------
Row == [id : Ids, arr : Nat, status : 1..3]

\* Types of the page.
TypeOK ==
    /\ view \in Views /\ db \in [Ids -> 0..3]
    /\ list.rows \in Seq(Row) /\ list.of \in {"", "key", "undefined"}
    /\ pager.page \in Nat \ {0} /\ pager.size \in Sizes /\ pager.count \in Nat
    /\ search.word \in {"", "key"} /\ spin \subseteq {"loading", "searching"}
    /\ picked \subseteq Row /\ knob \in [Ids -> 0..3]
    /\ \A c \in Calls : call[c].pc \in {"idle", "sent", "answered"}

\* What a page does not cope with: requests that overlap or are answered out
\* of order, changes by others, a failure taken for a success or the other way
\* round, and the pages after the first of rows that have moved.
Excuses == {"clash", "reordered", "foreign", "denied", "lost", "unloaded",
            "gap", "shifted", "mixed", "stale", "pushed", "forgotten"}
Calm == Quiet /\ history \cap Excuses = {}

\* The user's tokens show the switch of the row, while it is on the page.
Shown(r) == IF knob[r.id] # 0 THEN knob[r.id] ELSE r.status
Seen(rows) == [k \in DOMAIN rows |-> [id |-> rows[k].id, status |-> Shown(rows[k])]]
AtServer(ids) == [k \in DOMAIN ids |-> [id |-> ids[k], status |-> db[ids[k]]]]
Listed == InOrder(Finds(list.of))
Width == IF view \in {"channels", "tokens", "logs", "mine", "minelogs", "minewd"} THEN pager.size ELSE ItemsPerPage

Faulty == history \cap {"refused", "broken"} # {}

\* Once nothing is under way the rows held are the first of those the server
\* finds for the query they were loaded by (of the logs: the page), each with
\* the status it has there, in spite of splices into an older copy, statuses
\* set in place, rows removed locally, and requests refused.  (The logs turn
\* the page first: a load that fails leaves the page before under its number.)
ListSound ==
    Calm /\ (view = "logs" => ~Faulty)
        => IF view = "logs" THEN Seen(list.rows) = AtServer(Lines(list.of, (pager.page - 1) * Width, Width))
           ELSE IsPrefix(Seen(list.rows), AtServer(Listed))

\* An indicator that is on when nothing is under way was left by a request that
\* threw, in a table whose loads have no catch or finally.
SpinnerExplained ==
    Quiet /\ spin # {} => /\ history \cap {"broken", "lost"} # {}
                          /\ view \notin {"withdrawals", "logs", "mine", "minelogs", "minewd"}

\* The page shown has rows if there are any for it at the server.  (The user's
\* tokens turn by pages of another size than the one chosen: MineTurn.)
PageFilled ==
    Calm /\ ~Faulty /\ history \cap {"deleted", "turned"} = {}
         /\ (view = "mine" => pager.size = ItemsPerPage)
         /\ (pager.page - 1) * Width < Len(Listed)
        => IF view = "logs" THEN list.rows # <<>> ELSE (pager.page - 1) * Width < Len(list.rows)

\* The pager has a page for every row held.  It does not count the users and
\* codes found by a keyword, and the top-ups ignore the page size it offers.
PagesReach ==
    Calm /\ view \notin {"mine", "minemj", "minewd"}
         /\ (view \in {"users", "redemptions"} => list.of = "")
         /\ (view = "topups" => pager.size = ItemsPerPage)
        => Len(list.rows) <= Width * Ceil(pager.count, pager.size)

\* What surrounds the rows is in order: the page shown, the pages that can be
\* turned to, and the indicators; and every variable keeps its type.
TableRests == TypeOK /\ PageFilled /\ PagesReach /\ SpinnerExplained

\* A code that was used, a user that left, stays so: none is switched on again
\* from a page, unless it was used after the page was loaded.
UsedStays ==
    [][(view \in {"users", "redemptions"} /\ "foreign" \notin history')
        => \A i \in Ids : db[i] = 3 => db'[i] \in {0, 3}]_listVars
=============================================================================
