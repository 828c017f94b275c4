------------------------------ MODULE Channels ------------------------------
(***************************************************************************)
(* The channels of one group and model: their status and abilities, which  *)
(* a request is given, its retries, and the tests that disable and enable  *)
(* them (model/channel.go, model/ability.go, model/cache.go,               *)
(* controller/relay.go, controller/channel-test.go).                       *)
(*                                                                         *)
(*   Channel.Update           EditRow, EditReread, Drop, AddAbilities      *)
(*   Channel.Insert, .Delete  InsertRow, AddAbilities; DeleteRow, Drop     *)
(*   UpdateChannelStatusById  MarkAbilities, MarkRow                       *)
(*   InitChannelCache         SyncRead, SyncSwap                           *)
(*   GetRandomSatisfiedChannel  Query, Look, NextQuery, NextLook           *)
(*   Relay                    Ask, Succeed, Fail                           *)
(*   testAllChannels          TestAll, TestOne, TestsEnd                   *)
(*   testChannelAndHandleResult  AutoTest, AutoResult                      *)
(*                                                                         *)
(* Every statement is a step of its own.  A worker that changes a channel  *)
(* does so by a job of several statements, and waits for its end.          *)
(***************************************************************************)
EXTENDS Integers, FiniteSets

CONSTANTS
    Channels,     \* ids
    New,          \* of them, those that may not be inserted yet
    Limited,      \* of them, those with a rate limit: they may be passed over
    Priority,     \* of each
    Admins,       \* administrators at work together
    CacheModes,   \* values MemoryCacheEnabled takes
    RetryTimes,
    Sent,         \* statuses an edit may send, 0 for none
    MaxStarts     \* bound on the jobs of administrators, requests, rounds of tests,
                  \*   synchronisations of the cache and failing statements

ASSUME PriorityAssumption == Priority \in [Channels -> Nat] /\ New \subseteq Channels /\ Limited \subseteq Channels
\* Ids start at 1.
ASSUME ChannelsAssumption == Channels \subseteq Nat \ {0}
ASSUME AdminsAssumption == Admins \cap {"request", "test", "auto"} = {}
ASSUME SentAssumption == Sent \subseteq 0..3 /\ CacheModes \subseteq BOOLEAN
ASSUME ChannelBoundsAssumption == RetryTimes \in Nat /\ MaxStarts \in Nat

Enabled == 1
ManuallyDisabled == 2
AutoDisabled == 3

VARIABLES
    channel,   \* the rows
    ability,   \* "none", "on", "off": those of a channel
    job,       \* of each worker
    cached,    \* MemoryCacheEnabled, the channels in memory, and those read to be put there
    request,   \* a relayed request
    test,      \* testAllChannelsRunning, and the channels as they were read
    auto,      \* a test of a channel found disabled
    torn,      \* history: channels whose abilities may differ from the row
    changed,   \* history: channels that changed since the cache was read
    byHand,    \* history: channels disabled by hand, and those that were in use
    starts     \* so far

channelVars == <<channel, ability, job, cached, request, test, auto, torn, changed, byHand, starts>>

Workers == Admins \cup {"request", "test", "auto"}
NoJob == [pc |-> "idle", channel |-> 0, status |-> 0]
NoRequest == [pc |-> "idle", i |-> 0, channel |-> 0, failed |-> {}, among |-> {}, by |-> ""]

ChannelInit ==
    /\ \E new \in SUBSET New, on \in CacheModes :
          /\ channel = [c \in Channels |-> [is |-> IF c \in new THEN "new" ELSE "here", status |-> Enabled]]
          /\ ability = [c \in Channels |-> IF c \in new THEN "none" ELSE "on"]
          /\ cached = [on |-> on, now |-> Channels \ new, read |-> {}, pc |-> "idle"]
    /\ job = [w \in Workers |-> NoJob]
    /\ request = NoRequest
    /\ test = [running |-> FALSE, pc |-> "idle", status |-> [c \in Channels |-> 0]]
    /\ auto = 0
    /\ torn = {} /\ changed = [now |-> {}, next |-> {}]
    /\ byHand = [off |-> {}, excused |-> {}]
    /\ starts = 0

Usable(c) == channel[c].is = "here" /\ channel[c].status = Enabled
Free(w) == job[w].pc = "idle"
Busy(c) == \E w \in Workers : ~Free(w) /\ job[w].channel = c
Starts == starts < MaxStarts /\ starts' = starts + 1

\* What an automatic change may still come from: a request or a test that has
\* the channel, or a job of either.
InUse(c) ==
    \/ request.pc \in {"relay", "next", "nextlook"} /\ c \in {request.channel} \cup request.among
    \/ test.status[c] \in {Enabled, AutoDisabled} \/ auto = c
    \/ \E w \in Workers \ Admins : ~Free(w) /\ job[w].channel = c

\* A worker goes on with a job, or ends it.
Does(w, pc, c, s) == job' = [job EXCEPT ![w] = [pc |-> pc, channel |-> c, status |-> s]]
Goes(w, pc) == job' = [job EXCEPT ![w].pc = pc]
Ends(w) == job' = [job EXCEPT ![w] = NoJob]

\* A job on a channel that another one is changing.
Torn(c) == IF Busy(c) THEN torn \cup {c} ELSE torn
TouchedAll(cs) == changed' = [now |-> IF cached.on THEN changed.now \cup cs ELSE {},
                              next |-> IF cached.pc = "swap" THEN changed.next \cup cs ELSE {}]
Touched(c) == TouchedAll({c})
-----------------------------------------------------------------------------
(* Jobs on a channel                                                       *)

\* UpdateChannel: the row is written; a status of 0 is left out of it.  An edit
\* that runs alone renews the abilities.
EditRow(a) ==
    /\ Free(a) /\ Starts
    /\ \E c \in Channels, s \in Sent :
          /\ channel[c].is = "here"
          /\ Does(a, "reread", c, s)
          /\ channel' = [channel EXCEPT ![c].status = IF s = 0 THEN @ ELSE s]
          /\ torn' = IF Busy(c) THEN torn \cup {c} ELSE torn \ {c}
          /\ Touched(c)
          /\ byHand' = CASE s = ManuallyDisabled ->
                              [off |-> byHand.off \cup {c},
                               excused |-> IF c \notin byHand.off /\ ~InUse(c) THEN byHand.excused \ {c}
                                           ELSE IF InUse(c) THEN byHand.excused \cup {c} ELSE byHand.excused]
                         [] s = 0 -> byHand
                         [] OTHER -> [byHand EXCEPT !.off = @ \ {c}]
    /\ UNCHANGED <<ability, cached, request, test, auto>>

\* First reads the row again; a row that is gone leaves the status as it was sent.
StatusRead(c, s) == IF channel[c].is = "here" THEN channel[c].status ELSE s

\* An error of First is not looked at.
EditReread(a) ==
    LET c == job[a].channel IN
    /\ job[a].pc = "reread"
    /\ \/ Does(a, "renew", c, StatusRead(c, job[a].status)) /\ UNCHANGED <<torn, starts>>
       \/ Goes(a, "renew") /\ torn' = torn \cup {c} /\ Starts
    /\ UNCHANGED <<channel, ability, cached, request, test, auto, changed, byHand>>

\* DeleteAbilities, of an edit or of a deletion.
Drop(a) ==
    LET c == job[a].channel IN
    /\ job[a].pc \in {"renew", "drop"}
    /\ \/ /\ ability' = [ability EXCEPT ![c] = "none"]
          /\ IF job[a].pc = "renew" THEN Goes(a, "add") ELSE Ends(a)
          /\ UNCHANGED <<torn, starts>>
       \/ Ends(a) /\ torn' = torn \cup {c} /\ Starts /\ UNCHANGED ability
    /\ UNCHANGED <<channel, cached, request, test, auto, changed, byHand>>

\* AddAbilities creates them with the status of the job, unless there are some,
\* which have the same key.
AddAbilities(a) ==
    LET c == job[a].channel IN
    /\ job[a].pc = "add" /\ Ends(a)
    /\ \/ /\ ability[c] = "none"
          /\ ability' = [ability EXCEPT ![c] = IF job[a].status = Enabled THEN "on" ELSE "off"]
          /\ UNCHANGED <<torn, starts>>
       \/ ability[c] # "none" /\ UNCHANGED <<ability, torn, starts>>
       \/ torn' = torn \cup {c} /\ Starts /\ UNCHANGED ability
    /\ UNCHANGED <<channel, cached, request, test, auto, changed, byHand>>

\* BatchInsertChannels.
InsertRow(a) ==
    /\ Free(a) /\ Starts
    /\ \E c \in Channels :
          /\ channel[c].is = "new"
          /\ channel' = [channel EXCEPT ![c].is = "here"]
          /\ Does(a, "add", c, Enabled) /\ Touched(c)
    /\ UNCHANGED <<ability, cached, request, test, auto, torn, byHand>>

Gone(cs) == channel' = [c \in Channels |-> IF c \in cs THEN [channel[c] EXCEPT !.is = "gone"] ELSE channel[c]]

DeleteRow(a) ==
    /\ Free(a) /\ Starts
    /\ \E c \in Channels :
          /\ channel[c].is = "here" /\ Gone({c}) /\ Touched(c)
          /\ Does(a, "drop", c, 0) /\ torn' = Torn(c)
    /\ UNCHANGED <<ability, cached, request, test, auto, byHand>>

\* BatchDeleteChannels, in a transaction.
DeleteBatch ==
    /\ Starts
    /\ \E cs \in SUBSET {c \in Channels : channel[c].is = "here"} \ {{}} :
          /\ Gone(cs) /\ TouchedAll(cs)
          /\ ability' = [c \in Channels |-> IF c \in cs THEN "none" ELSE ability[c]]
          /\ torn' = torn \cup {c \in cs : Busy(c)}
    /\ UNCHANGED <<job, cached, request, test, auto, byHand>>

\* DeleteDisabledChannel leaves the abilities.
DeleteDisabled ==
    LET cs == {c \in Channels : channel[c].is = "here" /\ ~Usable(c)} IN
    /\ cs # {} /\ Starts
    /\ Gone(cs) /\ TouchedAll(cs)
    /\ torn' = torn \cup cs
    /\ UNCHANGED <<ability, job, cached, request, test, auto, byHand>>

\* UpdateChannelStatusById: the abilities, then the row; errors are logged.
StartMark(w, c, s) == Does(w, "mark", c, s) /\ torn' = Torn(c)

\* UpdateAbilityStatus.
Marked(c, s) == IF ability[c] = "none" THEN ability
                ELSE [ability EXCEPT ![c] = IF s = Enabled THEN "on" ELSE "off"]

MarkAbilities(w) ==
    LET c == job[w].channel IN
    /\ job[w].pc = "mark" /\ Goes(w, "row")
    /\ \/ ability' = Marked(c, job[w].status) /\ UNCHANGED <<torn, starts>>
       \/ torn' = torn \cup {c} /\ Starts /\ UNCHANGED ability
    /\ UNCHANGED <<channel, cached, request, test, auto, changed, byHand>>

MarkRow(w) ==
    LET c == job[w].channel IN
    /\ job[w].pc = "row" /\ Ends(w)
    /\ \/ /\ channel' = IF channel[c].is = "here" THEN [channel EXCEPT ![c].status = job[w].status] ELSE channel
          /\ Touched(c) /\ UNCHANGED <<torn, starts>>
       \/ torn' = torn \cup {c} /\ Starts /\ UNCHANGED <<channel, changed>>
    /\ UNCHANGED <<ability, cached, request, test, auto, byHand>>
-----------------------------------------------------------------------------
(* The cache in memory                                                     *)

SyncRead ==
    /\ cached.on /\ cached.pc = "idle" /\ Starts
    /\ cached' = [cached EXCEPT !.read = {c \in Channels : Usable(c)}, !.pc = "swap"]
    /\ UNCHANGED <<channel, ability, job, request, test, auto, torn, changed, byHand>>

SyncSwap ==
    /\ cached.pc = "swap"
    /\ cached' = [cached EXCEPT !.now = cached.read, !.read = {}, !.pc = "idle"]
    /\ changed' = [now |-> changed.next, next |-> {}]
    /\ UNCHANGED <<channel, ability, job, request, test, auto, torn, byHand, starts>>
-----------------------------------------------------------------------------
(* A request and its retries                                               *)

\* Channels that are found although they are disabled, in the cache or by an
\* ability left on: a failure will disable them automatically.
Excused(cs) ==
    [byHand EXCEPT !.excused = @ \cup {c \in cs : ~Usable(c) /\ IF cached.on THEN c \in changed.now
                                                               ELSE c \in torn \/ Busy(c)}]

TriesAgain(r, i) == IF i > 0 THEN [r EXCEPT !.pc = "choose", !.i = i, !.among = {}, !.by = ""] ELSE NoRequest

\* The channel is used, unless it is the one that failed last.
Uses(r, c, by) ==
    request' = IF c # r.channel THEN [r EXCEPT !.pc = "relay", !.channel = c, !.among = {}, !.by = by]
               ELSE TriesAgain(r, r.i - 1)
Idles == request' = NoRequest

\* Distribute, for a token that names a channel or not.
Ask ==
    /\ request.pc = "idle" /\ Free("request") /\ Starts
    /\ \/ request' = [NoRequest EXCEPT !.pc = "choose"]
       \/ \E c \in Channels : Usable(c) /\ Uses(NoRequest, c, "name")
    /\ UNCHANGED <<channel, ability, job, cached, test, auto, torn, changed, byHand>>

\* i != retryTimes, and false for the first choice.
IgnoreFirstPriority == request.i > 0 /\ request.i # RetryTimes
TopOf(cs) == {c \in cs : \A d \in cs : Priority[c] >= Priority[d]}
On == {c \in Channels : ability[c] = "on"}

\* getAbilitiesByPriority.
Candidates == {c \in (IF IgnoreFirstPriority THEN On ELSE TopOf(On)) : Usable(c) /\ c \notin request.failed}

Query ==
    /\ request.pc = "choose" /\ ~cached.on /\ Free("request")
    /\ request' = IF request.i = 1 THEN [request EXCEPT !.pc = "next"]
                  ELSE [request EXCEPT !.pc = "look", !.among = Candidates]
    /\ UNCHANGED <<channel, ability, job, cached, test, auto, torn, changed, byHand, starts>>

\* The row is read; one that is not enabled, or over its rate limit, is removed.
Look ==
    /\ request.pc = "look"
    /\ \/ request.among = {} /\ request' = [request EXCEPT !.pc = "next"]
       \/ \E c \in request.among :
             \/ Usable(c) /\ Uses(request, c, "ability")
             \/ (~Usable(c) \/ c \in Limited) /\ request' = [request EXCEPT !.among = @ \ {c}]
    /\ UNCHANGED <<channel, ability, job, cached, test, auto, torn, changed, byHand, starts>>

\* getNextPriorityAbilities: neither exclusions nor the status are looked at.
NextQuery ==
    /\ request.pc = "next"
    /\ LET cs == TopOf(On \ TopOf(On)) IN
       /\ byHand' = Excused(cs)
       /\ IF cs = {} THEN Idles ELSE request' = [request EXCEPT !.pc = "nextlook", !.among = cs]
    /\ UNCHANGED <<channel, ability, job, cached, test, auto, torn, changed, starts>>
NextLook ==
    /\ request.pc = "nextlook"
    /\ \E c \in request.among :
          IF channel[c].is = "here" THEN Uses(request, c, "next") ELSE Idles
    /\ UNCHANGED <<channel, ability, job, cached, test, auto, torn, changed, byHand, starts>>

\* Mutant of NotExcluded: only the channel that failed last.
NotLast(cs) == cs \ {request.channel}

\* filterAndWeightChannels.
NotExcluded(cs) == cs \ request.failed

\* selectChannel: from the first or the next priority down to the first one at which
\* a channel is found; at one with a rate limited channel none may be.
FromMemory ==
    /\ request.pc = "choose" /\ cached.on /\ Free("request")
    /\ LET all == cached.now
           from == IF IgnoreFirstPriority /\ request.i = 1 THEN all \ TopOf(all) ELSE all
           left == NotExcluded(from)
           passed(c) == {d \in left : Priority[d] > Priority[c]}
           skippable(ds) == \A d \in ds : \E l \in ds \cap Limited : Priority[l] = Priority[d]
       IN  \/ \E c \in left : skippable(passed(c)) /\ Uses(request, c, "memory") /\ byHand' = Excused({c})
           \/ skippable(left) /\ Idles /\ UNCHANGED byHand
    /\ UNCHANGED <<channel, ability, job, cached, test, auto, torn, changed, starts>>

Succeed ==
    /\ request.pc = "relay" /\ Idles
    /\ UNCHANGED <<channel, ability, job, cached, test, auto, torn, changed, byHand, starts>>

\* processChannelRelayError may disable the channel.  The first failure decides
\* whether there are retries, also for a token that named its channel.
Fail ==
    /\ request.pc = "relay"
    /\ LET c == request.channel
           retry(i) == request' = TriesAgain([request EXCEPT !.failed = @ \cup {c}], i)
       IN  /\ IF request.failed = {} THEN \E i \in {0, RetryTimes} : retry(i) ELSE retry(request.i - 1)
           /\ \/ StartMark("request", c, AutoDisabled)
              \/ UNCHANGED <<job, torn>>
    /\ UNCHANGED <<channel, ability, cached, test, auto, changed, byHand, starts>>
-----------------------------------------------------------------------------
(* Tests                                                                   *)

Statuses == [c \in Channels |-> IF channel[c].is = "here" THEN channel[c].status ELSE 0]

\* GetAllChannels may fail: testAllChannelsRunning stays set.
TestAll ==
    /\ ~test.running
    /\ \/ test' = [running |-> TRUE, pc |-> "test", status |-> Statuses] /\ Starts
       \/ /\ test' = [test EXCEPT !.running = TRUE, !.pc = "stuck"]
          /\ Starts
    /\ UNCHANGED <<channel, ability, job, cached, request, auto, torn, changed, byHand>>

\* Mutant of Tested: every channel is.
TestedAll(s) == s \in 1..3

Tested(s) == s \in {Enabled, AutoDisabled}

\* One channel of the loop: it is disabled for an error of the model or for being
\* slow unless AutoBan is off, and enabled in any other case.
TestOne ==
    /\ test.pc = "test" /\ Free("test")
    /\ \E c \in Channels :
          /\ test.status[c] # 0
          /\ test' = [test EXCEPT !.status[c] = 0]
          /\ \/ Tested(test.status[c]) /\ test.status[c] # AutoDisabled /\ StartMark("test", c, AutoDisabled)
             \/ Tested(test.status[c]) /\ test.status[c] # Enabled /\ StartMark("test", c, Enabled)
             \/ UNCHANGED <<job, torn>>
    /\ UNCHANGED <<channel, ability, cached, request, auto, changed, byHand, starts>>

TestsOver == [test EXCEPT !.pc = "idle", !.running = FALSE]

TestsEnd ==
    /\ test.pc = "test" /\ Free("test") /\ \A c \in Channels : test.status[c] = 0
    /\ test' = TestsOver
    /\ UNCHANGED <<channel, ability, job, cached, request, auto, torn, changed, byHand, starts>>

\* AutomaticallyTestDisabledChannels finds a channel disabled; the test may pass.
AutoTest ==
    /\ auto = 0 /\ Free("auto") /\ Starts
    /\ \E c \in Channels : Statuses[c] = AutoDisabled /\ auto' = c
    /\ UNCHANGED <<channel, ability, job, cached, request, test, torn, changed, byHand>>
AutoResult ==
    /\ auto # 0 /\ auto' = 0
    /\ \/ StartMark("auto", auto, Enabled)
       \/ UNCHANGED <<job, torn>>
    /\ UNCHANGED <<channel, ability, cached, request, test, changed, byHand, starts>>

ChannelNext ==
    \/ \E a \in Admins : EditRow(a) \/ EditReread(a) \/ Drop(a) \/ AddAbilities(a) \/ InsertRow(a) \/ DeleteRow(a)
    \/ DeleteBatch \/ DeleteDisabled
    \/ \E w \in Workers : MarkAbilities(w) \/ MarkRow(w)
    \/ SyncRead \/ SyncSwap
    \/ Ask \/ Query \/ Look \/ NextQuery \/ NextLook \/ FromMemory \/ Succeed \/ Fail
    \/ TestAll \/ TestOne \/ TestsEnd \/ AutoTest \/ AutoResult

ChannelSpec == ChannelInit /\ [][ChannelNext]_channelVars
-----------------------------------------------------------------------------
ChannelTypeOK ==
    /\ channel \in [Channels -> [is : {"new", "here", "gone"}, status : 1..3]]
    /\ ability \in [Channels -> {"none", "on", "off"}]
    /\ request.channel \in Channels \cup {0} /\ request.i \in 0..RetryTimes
    /\ request.failed \subseteq Channels /\ request.among \subseteq Channels

\* The abilities of a channel that no job is changing are on exactly if the row
\* is there and enabled, unless two jobs overlapped or a statement failed since
\* it was last edited alone (Update, UpdateChannelStatusById, Delete, Insert).
AbilitiesFollow ==
    \A c \in Channels : ~Busy(c) /\ c \notin torn => (ability[c] = "on" <=> Usable(c))

\* A channel disabled by hand stays so until it is edited again, unless a request
\* or a test had it already, or a request still found it in the cache or by an
\* ability that was left on: a failure then makes it one disabled automatically,
\* which the next test enables.
ManualStays ==
    \A c \in byHand.off \ byHand.excused : channel[c].is = "here" => channel[c].status = ManuallyDisabled

\* Only tests under way keep others from starting, unless the channels could
\* not be read (testAllChannels).
TestsMayStart == test.running => test.pc \in {"test", "stuck"}

\* What the statements of the writers leave of the status of a channel.
StatusKept == AbilitiesFollow /\ ManualStays /\ TestsMayStart

\* A retry goes to a channel that has not failed for this request, and there are
\* no more than RetryTimes of them.  Without the cache the last retry, and any for
\* which no candidate is left, may go back to one that has (Relay).
TriedElsewhere ==
    request.pc = "relay" => /\ request.by \in {"name", "ability", "memory"} => request.channel \notin request.failed
                            /\ Cardinality(request.failed) <= RetryTimes
=============================================================================
