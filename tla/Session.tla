------------------------------- MODULE Session -------------------------------
(***************************************************************************)
(* Who is logged in: the session cookie, localStorage.user and the store   *)
(* of each open tab.  The two consoles have one origin, so their tabs      *)
(* share the first two.                                                    *)
(***************************************************************************)
EXTENDS Integers

CONSTANTS
    Windows,    \* tabs of the browser
    Opened,     \* the consoles each tab may show, "admin" or "user"
    Users,      \* who may log in; 0 is nobody
    Wires,      \* requests that may be under way together
    MaxWired,   \* bound on the requests
    MaxReloads, \* bound on reloads
    MaxBreaks   \* bound on requests that break and on sessions that expire

\* The browser shows at least one tab.
ASSUME WindowsAssumption == Windows # {}

VARIABLES
    console,    \* the console each tab shows
    at,         \* "login" (or the home page) or "inside" of each tab
    store,      \* state.account.user, userState.user
    storage,    \* localStorage.user
    cookie,     \* the user of the session
    wire,       \* requests under way
    budget,     \* requests, reloads, breaks
    excuse      \* for each tab, why its store may differ

sessionVars == <<console, at, store, storage, cookie, wire, budget, excuse>>

NoWire == [pc |-> "idle"]
AllQuiet == \A w \in Wires : wire[w].pc = "idle"
Sends(t, op, u) ==
    /\ budget.wired < MaxWired
    /\ budget' = [budget EXCEPT !.wired = @ + 1]
    /\ \E w \in Wires :
          /\ wire[w].pc = "idle" /\ \A k \in Wires : k < w => wire[k].pc # "idle"
          /\ wire' = [wire EXCEPT ![w] = [pc |-> "sent", tab |-> t, op |-> op, user |-> u, answer |-> "ok", alive |-> TRUE]]
Awaits(t, ops) == \E w \in Wires : wire[w].pc # "idle" /\ wire[w].tab = t /\ wire[w].op \in ops
Turns == {"login", "logout", "delete"}
Crossing == \E t \in Windows : Awaits(t, Turns)
Excused(ts, why) == excuse' = [t \in Windows |-> IF t \in ts THEN excuse[t] \cup {why} ELSE excuse[t]]
-----------------------------------------------------------------------------
\* login, githubLogin, wechatLogin, handleSubmit: only the forms made with
\* Formik refuse a second click.
LogIn(t) ==
    /\ at[t] = "login"
    /\ console[t] = "user" => ~Awaits(t, {"login"})
    /\ \E u \in Users : Sends(t, "login", u)
    /\ IF Crossing THEN Excused({t}, "crossed") ELSE UNCHANGED excuse
    /\ UNCHANGED <<console, at, store, storage, cookie>>
LogOut(t) ==
    /\ at[t] = "inside" /\ store[t] # 0
    /\ Sends(t, "logout", 0)
    /\ IF Crossing THEN Excused({t}, "crossed") ELSE UNCHANGED excuse
    /\ UNCHANGED <<console, at, store, storage, cookie>>
\* deleteAccount of the admin console, which logs out after it.
DeleteAccount(t) ==
    /\ at[t] = "inside" /\ console[t] = "admin" /\ store[t] # 0
    /\ Sends(t, "delete", 0)
    /\ IF Crossing THEN Excused({t}, "crossed") ELSE UNCHANGED excuse
    /\ UNCHANGED <<console, at, store, storage, cookie>>
\* getUserData of the admin console; any request of either.
AskSelf(t) ==
    /\ at[t] = "inside"
    /\ \E op \in {"self", "other"} : (op = "self" => console[t] = "admin") /\ Sends(t, op, 0)
    /\ UNCHANGED <<console, at, store, storage, cookie, excuse>>

\* PrivateRoute looks at localStorage, AuthGuard at the store.
MayEnter(t) == IF console[t] = "admin" THEN storage # 0 ELSE store[t] # 0
GoInside(t) ==
    /\ at[t] = "login" /\ MayEnter(t)
    /\ at' = [at EXCEPT ![t] = "inside"]
    /\ UNCHANGED <<console, store, storage, cookie, wire, budget, excuse>>
Guard(t) ==
    /\ at[t] = "inside" /\ console[t] = "user" /\ store[t] = 0
    /\ at' = [at EXCEPT ![t] = "login"]
    /\ UNCHANGED <<console, store, storage, cookie, wire, budget, excuse>>

\* A page that is loaded again reads localStorage, and forgets its requests.
Forgotten(t, ws) == [w \in Wires |-> IF ws[w].pc # "idle" /\ ws[w].tab = t THEN [ws[w] EXCEPT !.alive = FALSE] ELSE ws[w]]
Reload(t) ==
    /\ budget.reloads < MaxReloads
    /\ budget' = [budget EXCEPT !.reloads = @ + 1]
    /\ store' = [store EXCEPT ![t] = storage]
    /\ at' = [at EXCEPT ![t] = IF console[t] = "admin" /\ storage = 0 THEN "login" ELSE @]
    /\ wire' = Forgotten(t, wire)
    \* A login whose answer is not read: the session is there, the page does not know.
    /\ IF Awaits(t, Turns) THEN Excused({t}, "forgot") ELSE UNCHANGED excuse
    /\ UNCHANGED <<console, storage, cookie>>
-----------------------------------------------------------------------------
Others(t) == Windows \ {t}
NowOf(w, a, u) == wire' = [wire EXCEPT ![w].pc = "back", ![w].answer = a, ![w].user = u]
Handled(w) ==
    LET r == wire[w] IN
    /\ r.pc = "sent"
    /\ CASE r.op = "login" ->
              cookie' = r.user /\ NowOf(w, "ok", r.user) /\ Excused(Others(r.tab), "elsewhere")
         [] r.op = "logout" ->
              cookie' = 0 /\ NowOf(w, "ok", 0) /\ Excused(Others(r.tab), "elsewhere")
         [] r.op \notin {"login", "logout"} /\ cookie = 0 ->
              NowOf(w, "401", 0) /\ UNCHANGED <<cookie, excuse>>
         [] OTHER ->
              NowOf(w, "ok", cookie) /\ UNCHANGED <<cookie, excuse>>
    /\ UNCHANGED <<console, at, store, storage, budget>>
Breaking == budget.breaks < MaxBreaks /\ budget' = [budget EXCEPT !.breaks = @ + 1]
WireBreaks(w) ==
    /\ Breaking
    /\ wire[w].pc \in {"sent", "back"} /\ wire[w].answer = "ok"
    /\ NowOf(w, "broken", wire[w].user)
    /\ Excused({t \in Windows : t = wire[w].tab /\ wire[w].op = "login"}, "forgot")
    /\ UNCHANGED <<console, at, store, storage, cookie>>
SessionExpires ==
    /\ Breaking /\ cookie # 0
    /\ cookie' = 0 /\ Excused(Windows, "expired")
    /\ UNCHANGED <<console, at, store, storage, wire>>
-----------------------------------------------------------------------------
Arrived(w, op) == wire[w].pc = "back" /\ wire[w].op = op /\ wire[w].alive
Ends(w) == wire' = [wire EXCEPT ![w] = NoWire]
Passed(w) == wire[w].answer = "ok"
\* The page that awaited it is gone.
Unread(w) ==
    /\ wire[w].pc = "back" /\ ~wire[w].alive
    /\ Ends(w) /\ UNCHANGED <<console, at, store, storage, cookie, budget, excuse>>

\* The interceptors: both go to another page, which is loaded anew, but only
\* the one of the user console forgets the user.
Unauthorized(w) ==
    LET t == wire[w].tab IN
    /\ wire[w].pc = "back" /\ wire[w].alive /\ wire[w].answer = "401"
    /\ IF console[t] = "user"
       THEN storage' = 0 /\ store' = [store EXCEPT ![t] = 0]
       ELSE store' = [store EXCEPT ![t] = storage] /\ UNCHANGED storage
    \* The answer to a logout, say, is not read any more.
    /\ excuse' = [x \in Windows |-> excuse[x] \cup IF x = t THEN {e \in {"forgot"} : Awaits(t, Turns)}
                                                   ELSE {e \in {"elsewhere"} : console[t] = "user"}]
    /\ at' = [at EXCEPT ![t] = "login"]
    /\ wire' = Forgotten(t, [wire EXCEPT ![w] = NoWire])
    /\ UNCHANGED <<console, cookie, budget>>

\* Mutant of LoggedIn: localStorage is not set.
LoggedInHere(w) ==
    LET t == wire[w].tab IN
    /\ Arrived(w, "login")
    /\ IF Passed(w)
       THEN /\ store' = [store EXCEPT ![t] = wire[w].user]
            /\ at' = [at EXCEPT ![t] = "inside"] /\ Excused(Others(t), "elsewhere")
       ELSE UNCHANGED <<store, at, excuse>>
    /\ Ends(w) /\ UNCHANGED <<console, storage, cookie, budget>>
LoggedIn(w) ==
    LET t == wire[w].tab IN
    /\ Arrived(w, "login")
    /\ IF Passed(w)
       THEN /\ storage' = wire[w].user /\ store' = [store EXCEPT ![t] = wire[w].user]
            /\ at' = [at EXCEPT ![t] = "inside"] /\ Excused(Others(t), "elsewhere")
       ELSE UNCHANGED <<storage, store, at, excuse>>
    /\ Ends(w) /\ UNCHANGED <<console, cookie, budget>>
\* Mutant of LoggedOut: localStorage is not emptied.
LoggedOutHere(w) ==
    LET t == wire[w].tab IN
    /\ Arrived(w, "logout")
    /\ store' = [store EXCEPT ![t] = 0] /\ at' = [at EXCEPT ![t] = "login"]
    /\ Excused(Others(t), "elsewhere")
    /\ Ends(w) /\ UNCHANGED <<console, storage, cookie, budget>>
\* Whatever the answer: the interceptors do not throw.
LoggedOut(w) ==
    LET t == wire[w].tab IN
    /\ Arrived(w, "logout")
    /\ storage' = 0 /\ store' = [store EXCEPT ![t] = 0] /\ at' = [at EXCEPT ![t] = "login"]
    /\ Excused(Others(t), "elsewhere")
    /\ Ends(w) /\ UNCHANGED <<console, cookie, budget>>
AccountDeleted(w) ==
    /\ Arrived(w, "delete") /\ wire[w].answer # "401"
    /\ wire' = [wire EXCEPT ![w] = IF Passed(w) THEN [@ EXCEPT !.op = "logout", !.pc = "sent"] ELSE NoWire]
    /\ UNCHANGED <<console, at, store, storage, cookie, budget, excuse>>
\* userDispatch, whoever logged out in between; nothing else is kept.
SelfAnswered(w) ==
    LET t == wire[w].tab IN
    /\ Arrived(w, "self") /\ wire[w].answer # "401"
    /\ store' = IF Passed(w) THEN [store EXCEPT ![t] = wire[w].user] ELSE store
    /\ IF Passed(w) /\ storage # wire[w].user THEN Excused({t}, "late") ELSE UNCHANGED excuse
    /\ Ends(w) /\ UNCHANGED <<console, at, storage, cookie, budget>>
OtherAnswered(w) ==
    /\ Arrived(w, "other") /\ wire[w].answer # "401"
    /\ Ends(w) /\ UNCHANGED <<console, at, store, storage, cookie, budget, excuse>>

SessionStep ==
    \/ \E t \in Windows : LogIn(t) \/ LogOut(t) \/ DeleteAccount(t) \/ AskSelf(t) \/ GoInside(t) \/ Guard(t) \/ Reload(t)
    \/ SessionExpires
    \/ \E w \in Wires : \/ Handled(w) \/ WireBreaks(w) \/ Unread(w) \/ Unauthorized(w)
                        \/ LoggedIn(w) \/ LoggedOut(w) \/ AccountDeleted(w) \/ SelfAnswered(w) \/ OtherAnswered(w)

\* loadUser: a first tab is opened by nobody, or by who was there before.
SessionInit ==
    /\ console \in Opened
    /\ \E u \in {0} \cup Users : cookie = u /\ storage = u /\ store = [t \in Windows |-> u]
    /\ at = [t \in Windows |-> "login"]
    /\ wire = [w \in Wires |-> NoWire]
    /\ budget = [wired |-> 0, reloads |-> 0, breaks |-> 0]
    /\ excuse = [t \in Windows |-> {}]

SessionSpec == SessionInit /\ [][SessionStep]_sessionVars
-----------------------------------------------------------------------------
\* Types of the session.
SessionTypeOK ==
    /\ store \in [Windows -> {0} \cup Users] /\ storage \in {0} \cup Users /\ cookie \in {0} \cup Users
    /\ at \in [Windows -> {"login", "inside"}]

\* The user a tab shows is the one kept in localStorage and, unless the session
\* expired, the one of the session, when nothing is under way.  Other tabs are
\* not told; an answer may set who was logged out since; requests that log in
\* and out may cross, and the answer may not be read.
ShownIsSession ==
    AllQuiet => \A t \in Windows :
        /\ store[t] # storage => excuse[t] \cap {"elsewhere", "late"} # {}
        /\ store[t] \notin {0, cookie} => excuse[t] \cap {"elsewhere", "late", "expired", "crossed", "forgot"} # {}

\* Nobody is remembered in localStorage whose session has ended by a logout.
RememberedHasSession ==
    AllQuiet /\ storage \notin {0, cookie} =>
        \E t \in Windows : excuse[t] \cap {"expired", "crossed", "forgot"} # {}
=============================================================================
