----------------------------- MODULE EditSheet -----------------------------
(***************************************************************************)
(* The sheets and dialogs that edit a row or make a new one.  A sheet      *)
(* stays mounted: it is shown and hidden, and an effect on the id it was   *)
(* given loads the row or empties the form.  What a field holds is known   *)
(* by where it comes from: a row, the keyboard, or the blank form.         *)
(***************************************************************************)
EXTENDS Integers, Sequences, FiniteSets

CONSTANTS
    Kinds,      \* the sheets looked at
    Rows,       \* ids that can be edited; 0 stands for a new row
    Plain,      \* channels stored without a config
    Slots,      \* requests that may be under way together
    MaxAsked,   \* bound on the requests of a sheet
    MaxTyped,   \* bound on the changes of fields
    MaxCount,   \* bound on the rows made by one submit
    MaxTrouble  \* bound on requests refused or broken

ASSUME RowsAssumption == Rows \subseteq Nat \ {0} /\ IsFiniteSet(Rows) /\ Plain \subseteq Rows
ASSUME KindsAssumption == Kinds \subseteq {"channel", "batch", "token", "mytoken", "user", "newuser", "code"}

VARIABLES
    kind,       \* which sheet
    sheet,      \* shown or not, the id it was given, setLoading, isSubmitting
    form,       \* where each field has its value from
    count,      \* tokenCount, batchAddCount
    stored,     \* where each field of each row has its value from
    unlisted,   \* rows were changed and the table was not refreshed since
    slot,       \* requests under way
    used,       \* requests, changes of fields and troubles so far
    events      \* what happened that excuses a sheet

sheetVars == <<kind, sheet, form, count, stored, unlisted, slot, used, events>>

Blank == <<"blank", 0>>
OfRow(i) == <<"row", i>>
Typed(i) == <<"typed", i>>

\* What the forms let one change.  EditChannel keeps config and the switches
\* (auto ban, limits, priority, weight, ...) beside inputs, EditToken the
\* group.  key is the field of inputs that a config overrides; models must not
\* be empty.
ChannelFields == {"inputs", "models", "key", "config", "switches"}
BatchFields == {"inputs", "models", "switches", "groups"}
TokenFields == {"inputs", "group"}
MyTokenFields == {"inputs"}
UserFields == {"inputs"}
NewUserFields == {"inputs"}
CodeFields == {"inputs"}
Fields ==
    CASE kind = "channel" -> ChannelFields
      [] kind = "batch" -> BatchFields
      [] kind = "token" -> TokenFields
      [] kind = "mytoken" -> MyTokenFields
      [] kind = "user" -> UserFields
      [] kind = "newuser" -> NewUserFields
      [] OTHER -> CodeFields
BlankForm == [f \in Fields |-> Blank]

\* The form of a row as the server sends it.
RowForm(i) == [f \in Fields |-> IF i = 0 THEN OfRow(0) ELSE stored[i][f]]

NoRequest == [pc |-> "idle"]
Unused(c) == slot[c].pc = "idle"
AllIdle == \A c \in Slots : Unused(c)
FirstUnused(c) == Unused(c) /\ \A d \in Slots : d < c => ~Unused(d)

\* op "load" or "save"; id the row, 0 for a new one; left: saves to come.
Request(op, id, values, ids, left) ==
    [pc |-> "sent", op |-> op, id |-> id, values |-> values, ids |-> ids, left |-> left,
     fails |-> 0, kept |-> 0, answer |-> "ok", data |-> BlankForm]

Send(c, r) ==
    /\ FirstUnused(c) /\ used.asked < MaxAsked
    /\ used' = [used EXCEPT !.asked = @ + 1]
    /\ slot' = [slot EXCEPT ![c] = r]
Silent == UNCHANGED <<slot, used>>
Done(c) == slot' = [slot EXCEPT ![c] = NoRequest]

\* A load is asked for while another answer may still come and be shown.
Late == {e \in {"late"} : \E c \in Slots : ~Unused(c) /\ slot[c].op = "load"}
-----------------------------------------------------------------------------
(* Opening and closing                                                     *)

\* What the effect puts in the form of a new row: setInputs(originInputs).
Emptied ==
    CASE kind = "channel" -> [form EXCEPT !.inputs = Blank, !.models = Blank, !.key = Blank]
      [] kind = "batch" -> [form EXCEPT !.inputs = Blank, !.models = Blank, !.groups = Blank]
      [] OTHER -> BlankForm
\* Fields of another row that the effect leaves.
KeptBy(f) == {e \in {"kept"} : \E x \in DOMAIN f : f[x] # Blank}

\* EditUser: no id means the administrator's own row; the others: a new row.
LoadsOn(i) == i # 0 \/ kind = "user"

\* The edit button of a row, the add button; an effect runs if the id changed.
Open ==
    \E i \in Rows \cup {0} :
        /\ ~sheet.shown
        /\ kind = "newuser" => i = 0
        /\ kind \in {"user", "batch"} => i # 0
        /\ IF i = sheet.id \/ kind = "newuser"
           THEN /\ sheet' = [sheet EXCEPT !.shown = TRUE]
                /\ Silent /\ UNCHANGED <<form, count, events>>
           ELSE /\ IF LoadsOn(i)
                   THEN /\ \E c \in Slots : Send(c, Request("load", i, BlankForm, {}, 0))
                        /\ events' = events \cup Late
                        /\ UNCHANGED form
                   ELSE /\ form' = Emptied
                        /\ events' = events \cup KeptBy(Emptied) \cup Late
                        /\ Silent
                /\ sheet' = [sheet EXCEPT !.shown = TRUE, !.id = i,
                                 !.busy = @ \/ (LoadsOn(i) /\ kind # "mytoken")]
                /\ count' = IF i = 0 /\ kind = "mytoken" THEN 1 ELSE count
        /\ UNCHANGED <<kind, stored, unlisted>>

\* handleCancel; handleCloseModal of the user's tokens also takes the id, so
\* the effect empties the form.
Hidden(s) == IF kind = "mytoken" THEN [s EXCEPT !.shown = FALSE, !.id = 0, !.submitting = FALSE] ELSE [s EXCEPT !.shown = FALSE]
EmptyIfGone(f) == IF kind = "mytoken" /\ sheet.id # 0 THEN BlankForm ELSE f
CountIfGone == IF kind = "mytoken" /\ sheet.id # 0 THEN 1 ELSE count
Cancel ==
    /\ sheet.shown
    /\ sheet' = Hidden(sheet) /\ form' = EmptyIfGone(form) /\ count' = CountIfGone
    /\ events' = events \cup {e \in Late : kind = "mytoken"}
    /\ Silent /\ UNCHANGED <<kind, stored, unlisted>>

\* editingChannelIds={Array.from(selectedChannels)}: a new array with every
\* rendering of the table, and the effect loads the first channel again.
TableRendered ==
    /\ kind = "batch" /\ sheet.id # 0
    /\ \E c \in Slots : Send(c, Request("load", sheet.id, BlankForm, {}, 0))
    /\ events' = events \cup Late
    /\ sheet' = [sheet EXCEPT !.busy = TRUE]
    /\ UNCHANGED <<kind, form, count, stored, unlisted>>

TypeIn(f) ==
    /\ f \in Fields /\ form[f] # Typed(sheet.id)
    /\ form' = [form EXCEPT ![f] = Typed(sheet.id)]
\* A type chosen for a channel without models may bring its own.
ChooseType ==
    /\ kind = "channel" /\ form.models = Blank /\ form.inputs # Typed(sheet.id)
    /\ form' = [form EXCEPT !.inputs = Typed(sheet.id), !.models = Typed(sheet.id)]
TypeChannel == kind = "channel" /\ TypeIn("inputs")
TypeKey == TypeIn("key")
\* handleConfigChange, and the setters of the switches.
TypeConfig == TypeIn("config")
Toggle == kind = "channel" /\ TypeIn("switches")
\* The models, and the model of one's own.
PickModels == kind = "channel" /\ TypeIn("models")
TypeAll == kind = "batch" /\ TypeIn("inputs")
PickGroupsOfAll == TypeIn("groups")
PickModelsOfAll == kind = "batch" /\ TypeIn("models")
ToggleAll == kind = "batch" /\ TypeIn("switches")
TypeToken == kind = "token" /\ TypeIn("inputs")
PickGroup == TypeIn("group")
TypeMyToken == kind = "mytoken" /\ TypeIn("inputs")
TypeUser == kind = "user" /\ TypeIn("inputs")
TypeNewUser == kind = "newuser" /\ TypeIn("inputs")
TypeRedemption == kind = "code" /\ TypeIn("inputs")
Change ==
    /\ sheet.shown /\ used.typed < MaxTyped
    /\ \/ TypeChannel \/ ChooseType \/ TypeKey \/ TypeConfig \/ Toggle \/ PickModels
       \/ TypeAll \/ PickGroupsOfAll \/ PickModelsOfAll \/ ToggleAll
       \/ TypeToken \/ PickGroup \/ TypeMyToken \/ TypeUser \/ TypeNewUser \/ TypeRedemption
    /\ used' = [used EXCEPT !.typed = @ + 1]
    /\ UNCHANGED <<kind, sheet, count, stored, unlisted, slot, events>>
\* handleGetModels: the answer is added to the models of the form of then.
FetchModels ==
    /\ kind = "channel" /\ sheet.shown
    /\ \E c \in Slots : Send(c, Request("models", sheet.id, BlankForm, {}, 0))
    /\ UNCHANGED <<kind, sheet, form, count, stored, unlisted, events>>
ModelsFetched(c) ==
    /\ slot[c].pc = "back" /\ slot[c].op = "models"
    /\ form' = IF slot[c].answer = "ok" THEN [form EXCEPT !.models = Typed(slot[c].id)] ELSE form
    /\ events' = events \cup {e \in {"late"} : sheet.id # slot[c].id}
    /\ Done(c) /\ UNCHANGED <<kind, sheet, count, stored, unlisted, used>>

\* Mutant of Multiply: no smallest number.
MultiplyByNone ==
    /\ sheet.shown /\ sheet.id = 0 /\ kind \in {"token", "mytoken"}
    /\ \E n \in 0..MaxCount : n # count /\ count' = n
    /\ Silent /\ UNCHANGED <<kind, sheet, form, stored, unlisted, events>>
\* handleTokenCountChange, handleBatchAddChange: offered for new rows only.
Multiply ==
    /\ sheet.shown /\ sheet.id = 0 /\ kind \in {"token", "mytoken"}
    /\ \E n \in 1..MaxCount : n # count /\ count' = n
    /\ Silent /\ UNCHANGED <<kind, sheet, form, stored, unlisted, events>>
-----------------------------------------------------------------------------
(* submit                                                                  *)

\* A complete config makes the key; models is empty in the blank form.
Values ==
    IF kind = "channel" /\ form.config # Blank THEN [form EXCEPT !.key = form.config] ELSE form
Complete ==
    CASE kind \in {"channel", "batch"} -> form.models # Blank
      [] kind \in {"code", "mytoken"} -> sheet.id = 0 => form.inputs # Blank
      [] kind = "newuser" -> form.inputs # Blank
      [] OTHER -> TRUE

\* The rows saved one after the other: those selected, or count new ones.  The
\* user's tokens repeat an edit, too.
Repeats ==
    CASE kind = "mytoken" -> count
      [] kind = "token" /\ sheet.id = 0 -> count
      [] kind = "batch" -> Cardinality(Rows)
      [] OTHER -> 1

Submit ==
    /\ sheet.shown /\ Complete
    /\ kind = "mytoken" => ~sheet.submitting
    /\ \E c \in Slots : Send(c, Request("save", sheet.id, Values,
                                  IF kind = "batch" THEN Rows ELSE {sheet.id}, Repeats))
    \* inputs.key = ..., on the state itself.
    /\ form' = Values
    /\ sheet' = [sheet EXCEPT !.busy = @ \/ kind \in {"token", "user", "code", "newuser"},
                              !.submitting = (kind = "mytoken")]
    /\ events' = events \cup Late \cup {e \in {"suffixed"} : kind = "mytoken" /\ sheet.id # 0 /\ count > 1}
    /\ UNCHANGED <<kind, count, stored, unlisted>>

\* AddUser: setLoading(true) comes before the check of the fields.
SubmitEmpty ==
    /\ kind = "newuser" /\ sheet.shown /\ ~Complete /\ ~sheet.busy
    /\ sheet' = [sheet EXCEPT !.busy = TRUE]
    /\ events' = events \cup {"incomplete"}
    /\ Silent /\ UNCHANGED <<kind, form, count, stored, unlisted>>
-----------------------------------------------------------------------------
(* The server                                                              *)

Target(r) == IF kind = "batch" THEN CHOOSE i \in r.ids : \A j \in r.ids : i <= j ELSE r.id
Handle(c) ==
    LET r == slot[c] IN
    /\ r.pc = "sent"
    /\ \/ /\ r.op = "load"
          /\ slot' = [slot EXCEPT ![c].pc = "back", ![c].data = RowForm(r.id)]
          /\ UNCHANGED <<stored, unlisted>>
       \/ /\ r.op = "models"
          /\ slot' = [slot EXCEPT ![c].pc = "back"]
          /\ UNCHANGED <<stored, unlisted>>
       \/ /\ r.op = "save"
          /\ stored' = IF Target(r) = 0 THEN stored
                       ELSE [stored EXCEPT ![Target(r)] = [f \in Fields |->
                                IF f = "group" THEN stored[Target(r)][f] ELSE r.values[f]]]
          /\ unlisted' = TRUE
          /\ slot' = [slot EXCEPT ![c].pc = "back"]
    /\ UNCHANGED <<kind, sheet, form, count, used, events>>

\* Refused, broken before anything was changed, or after.
Trouble(c) ==
    /\ used.trouble < MaxTrouble
    /\ used' = [used EXCEPT !.trouble = @ + 1]
    /\ \/ /\ slot[c].pc = "sent"
          /\ \E a \in {"refused", "broken"} :
                /\ slot' = [slot EXCEPT ![c].pc = "back", ![c].answer = a]
                /\ events' = events \cup {a}
       \/ /\ slot[c].pc = "back" /\ slot[c].answer = "ok"
          /\ slot' = [slot EXCEPT ![c].answer = "broken"]
          /\ events' = events \cup {"lost"}
    /\ UNCHANGED <<kind, sheet, form, count, stored, unlisted>>
-----------------------------------------------------------------------------
(* Answers                                                                 *)

Back(c, op) == slot[c].pc = "back" /\ slot[c].op = op
Fine(c) == slot[c].answer = "ok"
Threw(c) == slot[c].answer = "broken"

\* Mutant of Filled: a field is not set from the row.
FilledPartly(c) == [slot[c].data EXCEPT !.inputs = form.inputs]
\* loadChannel, fetchChannelDataByID, loadToken, loadUser, loadRedemption: the
\* row goes into the form whatever the sheet shows by now.  An empty config
\* leaves the one there is; the groups of the batch sheet are never sent.
Filled(c) ==
    LET d == slot[c].data IN
    [f \in Fields |-> IF f = "groups" \/ (f = "config" /\ d[f] = Blank) THEN form[f] ELSE d[f]]
Loaded(c) ==
    /\ Back(c, "load") /\ (Threw(c) => kind = "batch")
    /\ form' = IF Fine(c) THEN Filled(c) ELSE form
    /\ events' = events
           \cup {e \in {"kept"} : Fine(c) /\ kind = "channel" /\ slot[c].data.config = Blank /\ form.config # Blank}
           \cup {e \in {"unloaded"} : ~Fine(c)}
    /\ sheet' = [sheet EXCEPT !.busy = @ /\ kind = "mytoken"]
    /\ Done(c) /\ UNCHANGED <<kind, count, stored, unlisted, used>>

\* The loop goes on with the next row, unless EditToken meets a failure.
GoesOn(c) ==
    /\ slot[c].left > 1
    /\ kind = "token" => Fine(c)
    /\ kind = "mytoken" => ~Threw(c)
SavedOne(c) ==
    /\ Back(c, "save") /\ GoesOn(c)
    /\ slot' = [slot EXCEPT ![c].pc = "sent", ![c].left = @ - 1, ![c].answer = "ok",
                    ![c].ids = IF kind = "batch" THEN @ \ {Target(slot[c])} ELSE @,
                    ![c].fails = @ + IF Fine(c) THEN 0 ELSE 1,
                    ![c].kept = @ + IF Fine(c) THEN 1 ELSE 0]
    /\ UNCHANGED <<kind, sheet, form, count, stored, unlisted, used, events>>

\* The end of submit: refresh and close if it went well (the batch sheet: in
\* any case); EditToken empties the form in its finally.
Well(c) == Fine(c) /\ slot[c].fails = 0
Closes(c) == Well(c) \/ kind = "batch"
\* Mutant of Unrefreshed: refresh is left to the submits that make a row.
UnrefreshedEdits(c) == unlisted /\ ~(Closes(c) /\ slot[c].id = 0)
Unrefreshed(c) == unlisted /\ ~Closes(c)
\* Mutant of Rested: setLoading(false) is forgotten.
RestedBusy(s) == [s EXCEPT !.submitting = FALSE]
Rested(s) == [s EXCEPT !.busy = FALSE, !.submitting = FALSE]
AllSaved(c) ==
    LET ends == Closes(c) IN
    /\ Back(c, "save") /\ ~GoesOn(c) /\ (Threw(c) => kind \in {"token", "mytoken", "batch"})
    /\ unlisted' = Unrefreshed(c)
    /\ sheet' = Rested(IF ends THEN Hidden(sheet) ELSE sheet)
    /\ form' = CASE kind = "token" -> [form EXCEPT !.inputs = Blank]
                 [] kind \in {"channel", "code", "newuser"} /\ ends /\ slot[c].id = 0 -> Emptied
                 [] ends -> EmptyIfGone(form)
                 [] OTHER -> form
    /\ count' = IF kind = "token" THEN 1 ELSE IF ends THEN CountIfGone ELSE count
    /\ events' = events
           \cup {e \in {"wiped"} : kind = "token"}
           \cup {e \in {"partial"} : ~ends /\ (slot[c].kept > 0 \/ Fine(c))}
           \cup {e \in {"kept"} : kind = "channel" /\ ends /\ slot[c].id = 0 /\ KeptBy(Emptied) # {}}
           \cup {e \in {"overtaken"} : sheet.id # slot[c].id}
    /\ Done(c) /\ UNCHANGED <<kind, stored, used>>

\* The result is undefined: nothing after the await is done.
Aborted(c) ==
    /\ slot[c].pc = "back" /\ Threw(c)
    /\ IF slot[c].op = "load" THEN kind # "batch" ELSE kind \in {"channel", "user", "code", "newuser"}
    /\ events' = events \cup {e \in {"unloaded"} : slot[c].op = "load"}
    /\ Done(c) /\ UNCHANGED <<kind, sheet, form, count, stored, unlisted, used>>

SheetStep ==
    \/ Open \/ Cancel \/ TableRendered \/ Change \/ FetchModels \/ Multiply
    \/ Submit \/ SubmitEmpty
    \/ \E c \in Slots : \/ Handle(c) \/ Trouble(c)
                        \/ Loaded(c) \/ ModelsFetched(c) \/ SavedOne(c) \/ AllSaved(c) \/ Aborted(c)

SheetInit ==
    /\ kind \in Kinds
    /\ sheet = [shown |-> FALSE, id |-> 0, busy |-> FALSE, submitting |-> FALSE]
    /\ form = BlankForm /\ count = 1
    /\ stored = [i \in Rows |-> [f \in Fields |->
                    IF f = "config" /\ i \in Plain THEN Blank ELSE OfRow(i)]]
    /\ unlisted = FALSE
    \* editingUser is {id: undefined}: the first rendering loads the own row.
    /\ slot = [c \in Slots |-> IF c = 1 /\ kind = "user" THEN Request("load", 0, BlankForm, {}, 0)
                                                        ELSE NoRequest]
    /\ used = [asked |-> 0, typed |-> 0, trouble |-> 0]
    /\ events = {}

SheetSpec == SheetInit /\ [][SheetStep]_sheetVars
-----------------------------------------------------------------------------
\* Types of the sheet.
SheetTypeOK ==
    /\ kind \in Kinds
    /\ sheet.id \in Rows \cup {0} /\ sheet.shown \in BOOLEAN /\ sheet.busy \in BOOLEAN
    /\ DOMAIN form = Fields /\ count \in 1..MaxCount
    /\ \A f \in Fields : form[f] = Blank \/ form[f][2] \in Rows \cup {0}
    /\ unlisted \in BOOLEAN

\* What is saved for a row is the row's own, or was typed on its sheet: no
\* value of another row, nor of the blank form, gets into it.  The sheets miss
\* that when loads overlap or fail, after EditToken emptied the form of a token
\* that stays open, and where EditChannel keeps a config or the switches.
Own(v, f, i) == v[2] = i \/ (v = Blank /\ f = "config" /\ i \in Plain)
SavesOwn ==
    events \cap {"late", "unloaded", "wiped", "kept", "overtaken"} = {} =>
        \A i \in Rows : \A f \in Fields \ {"groups", "group"} :
            kind # "batch" => Own(stored[i][f], f, i)

\* Rows that were changed or made are on the table once nothing is under way,
\* unless some of several were not saved or an answer was lost.
ListedOnceSaved ==
    AllIdle /\ unlisted => events \cap {"partial", "lost"} # {}

\* A sheet that spins although nothing is under way was left so by an answer
\* that broke, or by a submit without name and password.
SpinsForAReason ==
    AllIdle /\ sheet.busy => events \cap {"broken", "lost", "incomplete"} # {}
=============================================================================
