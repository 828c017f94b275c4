------------------------------- MODULE Server -------------------------------
(***************************************************************************)
(* Services of the server that share nothing with each other: the batched  *)
(* updates, redemption codes, limits on rates, Midjourney tasks, and       *)
(* channels.  A behaviour is one of a service.  In it the batched updates  *)
(* and the code rest at their start, if they are not the one looked at,    *)
(* and the variables of the others stay at None.                           *)
(***************************************************************************)
EXTENDS BatchUpdate, RedemptionCode, RateLimit, MidjourneyTask, Channels

CONSTANTS
    Services,   \* those looked at
    None        \* the value of what is not looked at

VARIABLE service

serverVars == <<service, batchVars, codeVars, rateVars, mjVars, channelVars>>

NoRate ==
    /\ limiter = None /\ clock = None /\ queue = None /\ touched = None /\ window = None
    /\ handler = None /\ handled = None /\ recent = None /\ decided = None /\ carried = None
    /\ strain = None
NoMj ==
    /\ mjRow = None /\ remote = None /\ reported = None /\ poller = None /\ notifier = None
    /\ charged = None /\ refunds = None /\ seeds = None /\ slips = None /\ mjNoted = None
    /\ mjTally = None
NoChannel ==
    /\ channel = None /\ ability = None /\ job = None /\ cached = None /\ request = None
    /\ test = None /\ auto = None /\ torn = None /\ changed = None /\ byHand = None /\ starts = None

ServerInit ==
    /\ service \in Services
    /\ BatchInit
    /\ CodeInit
    /\ IF service = "rates" THEN RateInit ELSE NoRate
    /\ IF service = "tasks" THEN MjInit ELSE NoMj
    /\ IF service = "channels" THEN ChannelInit ELSE NoChannel

OtherBatch == <<service, codeVars, rateVars, mjVars, channelVars>>
OnBatch == service = "batch" /\ BatchNext /\ UNCHANGED OtherBatch
OnCodes == service = "codes" /\ CodeNext /\ UNCHANGED <<service, batchVars, rateVars, mjVars, channelVars>>
OnRates == service = "rates" /\ RateNext /\ UNCHANGED <<service, batchVars, codeVars, mjVars, channelVars>>
OnTasks == service = "tasks" /\ MjNext /\ UNCHANGED <<service, batchVars, codeVars, rateVars, channelVars>>
OnChannels == service = "channels" /\ ChannelNext /\ UNCHANGED <<service, batchVars, codeVars, rateVars, mjVars>>

ServerNext == OnBatch \/ OnCodes \/ OnRates \/ OnTasks \/ OnChannels

\* The goroutine of batchUpdate wakes up again and again.
ServerSpec ==
    /\ ServerInit /\ [][ServerNext]_serverVars
    /\ WF_serverVars(service = "batch" /\ Updater /\ UNCHANGED OtherBatch)
-----------------------------------------------------------------------------
\* The limiters of requests and of channels let no more through than their limits,
\* but for the overlaps LimitKept names.
RatesKept == service = "rates" => RateTypeOK /\ LimitKept

\* A Midjourney task is paid back if and only if it failed, and once, but for the
\* events TaskSettled names.
TasksSettled == service = "tasks" => MjTypeOK /\ TaskSettled

\* Abilities follow the status of their channel, which stays as it was set by hand.
ChannelStatusKept == service = "channels" => ChannelTypeOK /\ StatusKept
\* Retries go to other channels.
ChannelTriedElsewhere == service = "channels" => TriedElsewhere
=============================================================================
