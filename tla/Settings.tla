------------------------------ MODULE Settings ------------------------------
(***************************************************************************)
(* The pages an administrator sets the options of the site on.  A page     *)
(* loads all options once, keeps what was loaded beside what is typed, and *)
(* a button saves the options of its group one request after the other,    *)
(* some only if they differ from what was loaded.                          *)
(***************************************************************************)
EXTENDS Integers, Sequences, FiniteSetsExt

CONSTANTS
    Tabs,       \* the pages looked at
    Edited,     \* options that are changed, here or elsewhere
    Buttons,    \* groups whose button is pressed
    Lines,      \* submits that may be under way together
    MaxEdits,   \* bound on the changes of fields of each page
    MaxSubmits, \* bound on the submits
    MaxBad      \* bound on troubles and on changes made elsewhere

VARIABLES
    tab,        \* which page
    option,     \* the options at the server
    inputs,     \* what the fields hold
    origin,     \* originInputs: what the page takes the server to hold
    face,       \* getOptions under way, it ended well, something was submitted before that,
                \* setLoading, the white list is a text
    line,       \* submits under way
    meant,      \* the values typed for each option that is tested for changes
    unsent,     \* options changed since their group was submitted
    forgiven,   \* options the page may show otherwise than the server holds them
    tally       \* edits, submits and troubles so far

settingVars == <<tab, option, inputs, origin, face, line, meant, unsent, forgiven, tally>>
-----------------------------------------------------------------------------
(* What the buttons save, in order                                         *)

\* f beside g; the @@ of TLC, which has no definition to prove with.
f ++ g == [x \in DOMAIN f \cup DOMAIN g |-> IF x \in DOMAIN f THEN f[x] ELSE g[x]]

Save(k) == [key |-> k, changed |-> FALSE, filled |-> "", json |-> "", trim |-> FALSE]
IfFilled(k) == [Save(k) EXCEPT !.filled = k]
IfChanged(k) == [Save(k) EXCEPT !.changed = TRUE]
IfChangedAndFilled(k) == [IfChanged(k) EXCEPT !.filled = k]
Trimmed(s) == [s EXCEPT !.trim = TRUE]
\* verifyJSON of another field than the one saved, once.
CheckedBy(k, other) == [IfChanged(k) EXCEPT !.json = other]
Checked(k) == CheckedBy(k, k)
AllOf(keys) == [n \in DOMAIN keys |-> Save(keys[n])]

RegisterSaves == AllOf(<<"PasswordRegisterEnabled", "EmailVerificationEnabled", "GitHubOAuthEnabled",
                         "WeChatAuthEnabled", "RegisterEnabled", "TurnstileCheckEnabled", "GroupEnable">>)
SMTPSaves == <<IfChanged("SMTPServer"), IfChanged("SMTPAccount"), IfChanged("SMTPFrom"),
               IfChangedAndFilled("SMTPPort"), IfChangedAndFilled("SMTPToken")>>
PusherSaves == <<IfChanged("AppToken"), IfChanged("Uids"), IfChanged("NotificationEmail"),
                 Save("EmailNotificationsEnabled"), Save("WxPusherNotificationsEnabled")>>
\* The second test is of SMTPToken.
WhitelistSaves == <<Save("EmailDomainRestrictionEnabled"),
                    [IfChanged("EmailDomainWhitelist") EXCEPT !.filled = "SMTPToken"]>>
WeChatSaves == <<Trimmed(IfChanged("WeChatServerAddress")), IfChanged("WeChatAccountQRCodeImageURL"),
                 IfChangedAndFilled("WeChatServerToken")>>
GitHubSaves == <<IfChanged("GitHubClientId"), IfChangedAndFilled("GitHubClientSecret")>>
TurnstileSaves == <<IfChanged("TurnstileSiteKey"), IfChangedAndFilled("TurnstileSecretKey")>>
AddressSaves == <<Trimmed(Save("ServerAddress"))>>
ProxySaves == <<Trimmed(Save("OutProxyUrl"))>>

ScreenSaves == AllOf(<<"DataExportInterval", "LogConsumeEnabled", "LogContentEnabled">>)
GeneralSaves == <<Save("ChatLink"), IfFilled("QuotaPerUnit"), IfFilled("RetryTimes"),
                  Save("DisplayInCurrencyEnabled"), Save("DisplayTokenStatEnabled"), Save("BlankReplyRetryEnabled")>>
ChannelSaves == AllOf(<<"ChannelDisableThreshold", "QuotaRemindThreshold", "AutomaticDisableChannelEnabled">>)
QuotaSaves == AllOf(<<"QuotaForNewUser", "PreConsumedQuota", "QuotaForInvitee", "QuotaForInviter",
                      "MiniQuota", "ProporTions">>)
RatioSaves == <<Checked("ModelRatio"), Checked("ModelPrice"), Checked("GroupRatio"),
                CheckedBy("CompletionRatio", "GroupRatio"),
                Save("ModelRatioEnabled"), Save("BillingByRequestEnabled")>>
\* The option compared with is misspelt: it always differs.
UserGroupSaves == <<[Checked("GroupUserRatio") EXCEPT !.changed = FALSE], Save("UserGroupEnabled")>>

PaySaves == <<Trimmed(Save("PayAddress")), IfFilled("EpayId"), IfFilled("EpayKey"), Save("YzfZfb"), Save("YzfWx")>>
TopUpSaves == <<Save("TopupAmountEnabled"), Checked("TopupGroupRatio"), Checked("TopupRatio"), Checked("TopupAmount")>>
CodeSaves == AllOf(<<"TopUpLink", "RedempTionCount">>)

\* The selects save when something is chosen.
Chosen == {"UserGroup", "VipUserGroup"}
Lone == {"Notice", "Footer", "SystemName", "SystemText", "Logo", "About", "HomePageContent"}
SystemSaves == [Register |-> RegisterSaves, SMTP |-> SMTPSaves, Pusher |-> PusherSaves,
                Whitelist |-> WhitelistSaves, WeChat |-> WeChatSaves, GitHub |-> GitHubSaves,
                Turnstile |-> TurnstileSaves, Address |-> AddressSaves, Proxy |-> ProxySaves]
                ++ [k \in Chosen |-> <<Save(k)>>]
OperationSaves == [Screen |-> ScreenSaves, General |-> GeneralSaves, Channel |-> ChannelSaves,
                   Quota |-> QuotaSaves, Ratio |-> RatioSaves, UserGroup |-> UserGroupSaves]
PaymentSaves == [Pay |-> PaySaves, TopUp |-> TopUpSaves, Code |-> CodeSaves]
OtherSaves == [k \in Lone |-> <<Save(k)>>]
SavesOn == [t \in Tabs |-> CASE t = "system" -> SystemSaves [] t = "operation" -> OperationSaves
                             [] t = "payment" -> PaymentSaves [] OTHER -> OtherSaves]
Saves == SavesOn[tab]

\* The submits that end with setOriginInputs(inputs), of all options there are.
Remembers(g) == g \in {"Address", "Proxy", "SMTP", "Pusher", "Whitelist", "WeChat", "GitHub", "Turnstile"}
-----------------------------------------------------------------------------
(* The forms: the fields each shows, and what can be put in                *)

Shows(keys, how) == [k \in keys |-> how]
AddressForm == Shows({"ServerAddress"}, "url")
ProxyForm == Shows({"OutProxyUrl"}, "url")
RegisterForm == Shows({"PasswordRegisterEnabled", "EmailVerificationEnabled", "RegisterEnabled", "GitHubOAuthEnabled",
                       "WeChatAuthEnabled", "TurnstileCheckEnabled", "GroupEnable"}, "tick") ++ Shows(Chosen, "chosen")
PusherForm == Shows({"AppToken", "Uids", "NotificationEmail"}, "text")
    ++ Shows({"EmailNotificationsEnabled", "WxPusherNotificationsEnabled"}, "tick")
WhitelistForm == Shows({"EmailDomainRestrictionEnabled"}, "tick") ++ Shows({"EmailDomainWhitelist"}, "list")
SMTPForm == Shows({"SMTPServer", "SMTPAccount", "SMTPFrom"}, "text") ++ Shows({"SMTPPort", "SMTPToken"}, "blankable")
LoginForms == Shows({"WeChatServerAddress"}, "url")
    ++ Shows({"GitHubClientId", "WeChatAccountQRCodeImageURL", "TurnstileSiteKey"}, "text")
    ++ Shows({"GitHubClientSecret", "WeChatServerToken", "TurnstileSecretKey"}, "blankable")
GeneralForm == Shows({"ChatLink"}, "text") ++ Shows({"QuotaPerUnit", "RetryTimes"}, "blankable")
    ++ Shows({"DisplayInCurrencyEnabled", "DisplayTokenStatEnabled", "BlankReplyRetryEnabled"}, "tick")
ScreenForm == Shows({"DataExportInterval"}, "text") ++ Shows({"LogConsumeEnabled", "LogContentEnabled"}, "tick")
ChannelForm == Shows({"ChannelDisableThreshold", "QuotaRemindThreshold"}, "text")
    ++ Shows({"AutomaticDisableChannelEnabled"}, "tick")
QuotaForm == Shows({"QuotaForNewUser", "PreConsumedQuota", "QuotaForInvitee", "QuotaForInviter",
                    "MiniQuota", "ProporTions"}, "text")
RatioForm == Shows({"ModelRatio", "ModelPrice", "CompletionRatio", "GroupRatio", "GroupUserRatio"}, "json")
    ++ Shows({"ModelRatioEnabled", "BillingByRequestEnabled", "UserGroupEnabled"}, "tick")
PayForm == Shows({"PayAddress"}, "url") ++ Shows({"EpayId", "EpayKey"}, "blankable") ++ Shows({"YzfZfb", "YzfWx"}, "tick")
TopUpForm == Shows({"TopupRatio", "TopupGroupRatio", "TopupAmount"}, "json")
    ++ Shows({"TopupAmountEnabled"}, "tick") ++ Shows({"TopUpLink", "RedempTionCount"}, "text")
OtherForm == Shows(Lone, "text")
FormOn == [t \in Tabs |->
    CASE t = "system" -> AddressForm ++ ProxyForm ++ RegisterForm ++ PusherForm ++ WhitelistForm ++ SMTPForm ++ LoginForms
      [] t = "operation" -> GeneralForm ++ ScreenForm ++ ChannelForm ++ QuotaForm ++ RatioForm
      [] t = "payment" -> PayForm ++ TopUpForm ++ Shows({"ServerAddress"}, "hidden")
      [] OTHER -> OtherForm]
Form == FormOn[tab]
\* Only the options of the buttons looked at, and two these need to be set.
OptionsOn == [t \in Tabs |-> DOMAIN FormOn[t] \cap
    ({"ServerAddress", "SMTPToken"} \cup UNION {{SavesOn[t][g][n].key : n \in DOMAIN SavesOn[t][g]} : g \in Buttons \cap DOMAIN SavesOn[t]})]
Options == OptionsOn[tab]

\* A value: the one there was, another, another with a slash at its end,
\* nothing, no JSON; undefined for what is not there, 0 for a number.
CanBe(k) ==
    CASE Form[k] = "url" -> {"first", "new", "new/"}
      [] Form[k] = "json" -> {"first", "new", "bad"}
      [] Form[k] = "list" -> {"", "new"}
      [] Form[k] = "blankable" -> {"first", "new", ""}
      [] OTHER -> {"first", "new"}
Trim(v) == IF v = "new/" THEN "new" ELSE v

\* The options saved only if they differ from what was loaded.
GuardedOn == [t \in Tabs |->
    {k \in OptionsOn[t] \ {"EmailDomainWhitelist"} :
        \E g \in Buttons \cap DOMAIN SavesOn[t] : \E n \in DOMAIN SavesOn[t][g] :
            SavesOn[t][g][n].key = k /\ SavesOn[t][g][n].changed}]
Guarded(k) == k \in GuardedOn[tab]
-----------------------------------------------------------------------------
(* The server                                                              *)

\* GetOptions leaves out the options named ...Token and ...Secret.
Secret == {"SMTPToken", "AppToken", "WeChatServerToken", "GitHubClientSecret"}
Sent == [k \in Options |-> IF k \in Secret THEN "undefined" ELSE option[k]]

\* Each switch can be turned on only if the option it needs is set.
NeededBy(k) ==
    CASE k = "GitHubOAuthEnabled" -> "GitHubClientId"
      [] k = "EmailDomainRestrictionEnabled" -> "EmailDomainWhitelist"
      [] k = "WeChatAuthEnabled" -> "WeChatServerAddress"
      [] k = "TurnstileCheckEnabled" -> "TurnstileSiteKey"
      [] OTHER -> k
Refuses(k, v) == NeededBy(k) # k /\ v = "new" /\ option[NeededBy(k)] = ""
-----------------------------------------------------------------------------
(* The page                                                                *)

\* The first value of the state; numbers in it are no option values.
Numbers == {"QuotaForNewUser", "QuotaForInviter", "QuotaForInvitee", "QuotaRemindThreshold", "PreConsumedQuota",
            "QuotaPerUnit", "ChannelDisableThreshold", "DataExportInterval", "RetryTimes", "MiniQuota", "ProporTions"}
Unmentioned == {"AppToken", "Uids", "NotificationEmail"}
FirstInputs == [k \in Options |-> IF k \in Numbers THEN "0" ELSE IF k \in Unmentioned THEN "undefined" ELSE ""]
Nothing == [k \in Options |-> "undefined"]
FreshFace == [load |-> "sent", data |-> Nothing, loaded |-> FALSE, early |-> FALSE, waiting |-> FALSE, text |-> TRUE]

\* JSON.parse of the four ratios, and the two of the payments, throws in getOptions.
Parsed == {"ModelRatio", "GroupRatio", "ModelPrice", "CompletionRatio", "TopupRatio", "TopupGroupRatio"}

ReadOptions ==
    /\ face.load = "sent"
    /\ face' = [face EXCEPT !.load = "read", !.data = Sent]
    /\ UNCHANGED <<tab, option, inputs, origin, line, meant, unsent, forgiven, tally>>

Unreadable == \E k \in Parsed \cap Options : face.data[k] = "bad"
OptionsLoaded ==
    /\ face.load = "read"
    /\ face' = [face EXCEPT !.load = "none", !.data = Nothing, !.loaded = @ \/ ~Unreadable, !.text = @ /\ Unreadable]
    /\ IF Unreadable THEN UNCHANGED <<inputs, origin, unsent, forgiven>>
       ELSE /\ inputs' = face.data
            /\ origin' = IF tab = "other" THEN origin ELSE face.data
            /\ unsent' = {}
            /\ forgiven' = {k \in Options : face.data[k] # option[k]}
    /\ UNCHANGED <<tab, option, line, meant, tally>>

Bad == tally.bad < MaxBad /\ tally' = [tally EXCEPT !.bad = @ + 1]
OptionsNotLoaded ==
    /\ face.load # "none" /\ Bad
    /\ face' = [face EXCEPT !.load = "none", !.data = Nothing]
    /\ UNCHANGED <<tab, option, inputs, origin, line, meant, unsent, forgiven>>

\* The page is left and opened again; submits under way go on.
Reopen ==
    /\ Bad /\ face.load = "none"
    /\ inputs' = FirstInputs /\ origin' = Nothing /\ face' = FreshFace
    /\ line' = [l \in Lines |-> [line[l] EXCEPT !.here = FALSE]]
    /\ unsent' = {} /\ forgiven' = {}
    /\ UNCHANGED <<tab, option, meant>>

\* handleInputChange, handleCheckboxChange, handleTagInputChange.
ChangeField ==
    /\ tally.edits < MaxEdits[tab]
    /\ \E k \in Edited \cap Options :
          /\ Form[k] \notin {"chosen", "hidden"}
          /\ \E v \in CanBe(k) \ {inputs[k]} :
                /\ inputs' = [inputs EXCEPT ![k] = v]
                /\ meant' = [meant EXCEPT ![k] = IF Guarded(k) THEN @ \cup {Trim(v)} ELSE @]
          /\ unsent' = unsent \cup {k}
          /\ face' = [face EXCEPT !.text = @ /\ k # "EmailDomainWhitelist"]
    /\ tally' = [tally EXCEPT !.edits = @ + 1]
    /\ UNCHANGED <<tab, option, origin, line, forgiven>>
-----------------------------------------------------------------------------
(* submit                                                                  *)

Idle == [pc |-> "idle", group |-> "", at |-> 0, seen |-> <<>>, base |-> <<>>,
         text |-> FALSE, here |-> TRUE, loaded |-> FALSE, answer |-> ""]
Steps(r) == Saves[r.group]
Keys(g) == {Saves[g][n].key : n \in DOMAIN Saves[g]}

\* Mutant of Skips: what did not change is saved, too.
SkipsBlank(r, s) == s.filled # "" /\ r.seen[s.filled] = ""
\* The closure decides, whatever the page shows by now.
Skips(r, s) ==
    \/ s.changed /\ s.key # "EmailDomainWhitelist" /\ r.seen[s.key] = r.base[s.key]
    \/ s.key = "EmailDomainWhitelist" /\ ~r.text /\ r.seen[s.key] = r.base[s.key]
    \/ s.filled # "" /\ r.seen[s.filled] = ""
\* Mutant of Stops: no verifyJSON.
StopsAtText(r, s) == s.key = "EmailDomainWhitelist" /\ r.text
\* No JSON, or join of what is a text.
Stops(r, s) ==
    \/ s.json # "" /\ r.seen[s.json] \in {"bad", "", "undefined"}
    \/ s.key = "EmailDomainWhitelist" /\ r.text
Value(r, s) == IF s.trim THEN Trim(r.seen[s.key]) ELSE r.seen[s.key]

\* Mutant of LeftOf: one option is passed over.
LeftOfAfter(r) == {n \in DOMAIN Steps(r) : n > r.at + 1 /\ ~Skips(r, Steps(r)[n])}
LeftOf(r) == {n \in DOMAIN Steps(r) : n > r.at /\ ~Skips(r, Steps(r)[n])}

\* The white list is an array in inputs from then on, and so in originInputs.
Remembered(r) == IF "EmailDomainWhitelist" \in Options THEN [r.seen EXCEPT !["EmailDomainWhitelist"] = "array"] ELSE r.seen

\* The rest of the group is not saved.
NotSaved(r, n) == {Steps(r)[m].key : m \in n..Len(Steps(r))}

\* From one updateOption to the next one, or to the end; shown and pardoned are
\* the page and forgiven as the last one left them.
Proceed(l, r, shown, pardoned) ==
    LET stopped == LeftOf(r) # {} /\ Stops(r, Steps(r)[Min(LeftOf(r))])
        ended == LeftOf(r) = {}
        sends == ~ended /\ ~stopped
    IN  /\ line' = [line EXCEPT ![l] = IF sends THEN [r EXCEPT !.pc = "sent", !.at = Min(LeftOf(r)), !.answer = ""]
                                       ELSE Idle]
        /\ face' = [shown EXCEPT !.waiting = @ \/ (sends /\ r.here)]
        /\ origin' = IF ended /\ r.here /\ Remembers(r.group) THEN Remembered(r) ELSE origin
        /\ forgiven' = IF stopped /\ r.here THEN pardoned \cup NotSaved(r, Min(LeftOf(r))) ELSE pardoned

\* Options that are not sent: the page takes them for saved, or they are blank.
PassedOver(r) ==
    {k \in Keys(r.group) : /\ Trim(r.seen[k]) # option[k]
                           /\ \E n \in DOMAIN Steps(r) : Steps(r)[n].key = k /\ Skips(r, Steps(r)[n])}

Start(g, seen) ==
    /\ tally.submits < MaxSubmits
    /\ tally' = [tally EXCEPT !.submits = @ + 1]
    /\ g = "Pay" => inputs.ServerAddress # ""
    /\ \E l \in Lines :
          LET r == [Idle EXCEPT !.group = g, !.seen = seen, !.base = origin, !.text = face.text, !.loaded = face.loaded /\ ~face.early]
          IN  /\ line[l].pc = "idle" /\ \A m \in Lines : m < l => line[m].pc # "idle"
              /\ Proceed(l, r, [face EXCEPT !.early = @ \/ ~face.loaded], (forgiven \ Keys(g)) \cup PassedOver(r))
    /\ unsent' = unsent \ Keys(g)
    /\ UNCHANGED <<tab, option, inputs, meant>>

SubmitGroup == \E g \in (Buttons \cap DOMAIN Saves) \ Chosen : Start(g, inputs)
Choose == \E k \in Buttons \cap Chosen \cap Options : \E v \in CanBe(k) : Start(k, [inputs EXCEPT ![k] = v])

\* UpdateOption.  A value that is no JSON is stored before it is refused; a
\* number is no text, and a value that is missing is the empty one.
HandleSave(l) ==
    LET r == line[l]
        k == Steps(r)[r.at].key
        v == IF Value(r, Steps(r)[r.at]) = "undefined" THEN "" ELSE Value(r, Steps(r)[r.at])
        stores == ~Refuses(k, v) /\ v # "0"
    IN  /\ r.pc = "sent"
        /\ option' = IF stores THEN [option EXCEPT ![k] = v] ELSE option
        /\ line' = [line EXCEPT ![l].pc = "back",
                        ![l].answer = CASE v = "0" -> "broken" [] Refuses(k, v) \/ v = "bad" -> "refused" [] OTHER -> "ok"]
        /\ forgiven' = IF stores /\ ~r.here /\ v # option[k] THEN forgiven \cup {k} ELSE forgiven
        /\ UNCHANGED <<tab, inputs, origin, face, meant, unsent, tally>>

\* Refused or broken before the option was changed, or the answer lost.
SaveTrouble(l) ==
    /\ Bad
    /\ \/ /\ line[l].pc = "sent"
          /\ \E a \in {"refused", "broken"} : line' = [line EXCEPT ![l].pc = "back", ![l].answer = a]
       \/ /\ line[l].pc = "back" /\ line[l].answer = "ok"
          /\ line' = [line EXCEPT ![l].answer = "broken"]
    /\ UNCHANGED <<tab, option, inputs, origin, face, meant, unsent, forgiven>>

\* The rest of updateOption, then the next one.
SaveAnswered(l) ==
    LET r == line[l]
        k == Steps(r)[r.at].key
        v == Value(r, Steps(r)[r.at])
        shows == r.here /\ r.answer = "ok"
    IN  /\ r.pc = "back" /\ r.answer # "broken"
        /\ inputs' = IF shows THEN [inputs EXCEPT ![k] = v] ELSE inputs
        /\ Proceed(l, r, [face EXCEPT !.waiting = @ /\ ~r.here, !.text = @ \/ (shows /\ k = "EmailDomainWhitelist")],
                   forgiven \cup {j \in {k} : r.here /\ (option[k] # v \/ ~shows)})
        /\ UNCHANGED <<tab, option, meant, unsent, tally>>

\* res is undefined: updateOption throws, and so does its caller.
SaveBroke(l) ==
    /\ line[l].pc = "back" /\ line[l].answer = "broken"
    /\ line' = [line EXCEPT ![l] = Idle]
    /\ forgiven' = IF line[l].here THEN forgiven \cup NotSaved(line[l], line[l].at) ELSE forgiven
    /\ UNCHANGED <<tab, option, inputs, origin, face, meant, unsent, tally>>

ChangedElsewhere ==
    /\ Bad
    /\ \E k \in Edited \cap Options : \E v \in CanBe(k) \ {option[k], "new/", "bad"} :
          /\ option' = [option EXCEPT ![k] = v]
          /\ forgiven' = forgiven \cup {k}
    /\ UNCHANGED <<tab, inputs, origin, face, line, meant, unsent>>

SettingsStep ==
    \/ ReadOptions \/ OptionsLoaded \/ OptionsNotLoaded \/ Reopen
    \/ ChangeField \/ SubmitGroup \/ Choose \/ ChangedElsewhere
    \/ \E l \in Lines : HandleSave(l) \/ SaveTrouble(l) \/ SaveAnswered(l) \/ SaveBroke(l)

SettingsInit ==
    /\ tab \in Tabs
    /\ option = [k \in Options |-> IF k = "EmailDomainWhitelist" THEN "" ELSE "first"]
    /\ inputs = FirstInputs /\ origin = Nothing /\ face = FreshFace
    /\ line = [l \in Lines |-> Idle]
    /\ meant = [k \in Options |-> {}]
    /\ unsent = {} /\ forgiven = {}
    /\ tally = [edits |-> 0, submits |-> 0, bad |-> 0]

SettingsSpec == SettingsInit /\ [][SettingsStep]_settingVars
-----------------------------------------------------------------------------
\* Types of the settings.
SettingsTypeOK ==
    /\ \A k \in Options : option[k] \in CanBe(k) \cup {"", "first"}
    /\ DOMAIN inputs = Options /\ DOMAIN origin = Options
    /\ \A l \in Lines : line[l].pc \in {"idle", "sent", "back"}
    /\ unsent \subseteq Options /\ forgiven \subseteq Options

\* Once the submits have ended, the server holds what the fields show, except
\* for fields changed since their button was pressed.  The exceptions are in
\* forgiven: requests refused or broken, options changed elsewhere, secrets
\* left blank, a group stopped at a text that is no JSON, and those the page
\* took for saved because of a submit of another group.
SubmittedIsStored ==
    face.loaded /\ ~face.early /\ (\A l \in Lines : line[l].pc = "idle") =>
        \A k \in Options \ (unsent \cup forgiven) :
            inputs[k] # "undefined" => Trim(inputs[k]) = option[k]

\* An option that is tested for changes is only ever set to what was typed for
\* it: a submit does not undo what was changed elsewhere since the page was
\* loaded.  Not so of a page whose options were not loaded.
OnlyMeantSaved ==
    [][\A l \in Lines : HandleSave(l) /\ line[l].loaded =>
           \A k \in Options : Guarded(k) /\ option'[k] # option[k] => option'[k] \in meant[k]]_settingVars

\* No text that is no JSON gets stored, except as the completion ratio, whose
\* test is of another field; nor does an empty one.
JsonStored ==
    \A k \in Options \ {"CompletionRatio"} : Form[k] = "json" => option[k] \notin {"bad", ""}
=============================================================================
