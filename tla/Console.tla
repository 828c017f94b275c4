------------------------------- MODULE Console -------------------------------
(***************************************************************************)
(* The pages of the web interfaces that edit something: sheets, settings,  *)
(* the wallet, the forms that send codes by mail, and who is logged in.    *)
(* They share nothing but the server, each other rows of it; a behaviour   *)
(* is one of a page, and the variables of the others stay at None.         *)
(***************************************************************************)
EXTENDS EditSheet, Settings, Wallet, Mails, Session

CONSTANTS
    Pages,      \* the pages looked at
    None        \* the value of what is not looked at

VARIABLE page

consoleVars == <<page, sheetVars, settingVars, walletVars, mailVars, sessionVars>>

NoSheet ==
    /\ kind = None /\ sheet = None /\ form = None /\ count = None /\ stored = None
    /\ unlisted = None /\ slot = None /\ used = None /\ events = None
NoSettings ==
    /\ tab = None /\ option = None /\ inputs = None /\ origin = None /\ face = None /\ line = None
    /\ meant = None /\ unsent = None /\ forgiven = None /\ tally = None
NoWallet ==
    /\ part = None /\ card = None /\ invite = None /\ server = None /\ paid = None /\ lane = None
    /\ spent = None /\ past = None
NoMails ==
    /\ desk = None /\ entry = None /\ account = None /\ proof = None /\ password = None
    /\ codes = None /\ mails = None /\ letter = None /\ written = None /\ takenAt = None
    /\ noted = None
NoSession ==
    /\ console = None /\ at = None /\ store = None /\ storage = None /\ cookie = None
    /\ wire = None /\ budget = None /\ excuse = None

ConsoleInit ==
    /\ page \in Pages
    /\ IF page = "sheet" THEN SheetInit ELSE NoSheet
    /\ IF page = "settings" THEN SettingsInit ELSE NoSettings
    /\ IF page = "wallet" THEN WalletInit ELSE NoWallet
    /\ IF page = "mails" THEN MailInit ELSE NoMails
    /\ IF page = "session" THEN SessionInit ELSE NoSession

OnSheet == page = "sheet" /\ SheetStep /\ UNCHANGED <<page, settingVars, walletVars, mailVars, sessionVars>>
OnSettings == page = "settings" /\ SettingsStep /\ UNCHANGED <<page, sheetVars, walletVars, mailVars, sessionVars>>
OnWallet == page = "wallet" /\ WalletStep /\ UNCHANGED <<page, sheetVars, settingVars, mailVars, sessionVars>>
OnMails == page = "mails" /\ MailStep /\ UNCHANGED <<page, sheetVars, settingVars, walletVars, sessionVars>>
OnSession == page = "session" /\ SessionStep /\ UNCHANGED <<page, sheetVars, settingVars, walletVars, mailVars>>

ConsoleNext == OnSheet \/ OnSettings \/ OnWallet \/ OnMails \/ OnSession

ConsoleSpec == ConsoleInit /\ [][ConsoleNext]_consoleVars
-----------------------------------------------------------------------------
\* Types of the page looked at.
ConsoleTypeOK ==
    /\ page = "sheet" => SheetTypeOK
    /\ page = "settings" => SettingsTypeOK
    /\ page = "wallet" => WalletTypeOK
    /\ page = "mails" => MailsTypeOK
    /\ page = "session" => SessionTypeOK

\* No value of another row, nor of the blank form, is saved for a row by the
\* sheets of channels, tokens, users and codes, but in the cases SavesOwn names.
SheetSavesOwn == page = "sheet" => SavesOwn
\* How the submit of a sheet ends: the table is refreshed if it changed a row, and
\* setLoading(true) was followed by setLoading(false), unless an await threw.
SheetEnds == page = "sheet" => ListedOnceSaved /\ SpinsForAReason

\* What the fields of the settings show is what the server holds, and verifyJSON
\* keeps what is no JSON out of the options.
SettingsStored == page = "settings" => SubmittedIsStored /\ JsonStored
\* A submit of the settings sets no option that was not typed.
SettingsMeant ==
    [][page = "settings" =>
         \A l \in Lines : HandleSave(l) /\ line[l].loaded =>
             \A k \in Options : Guarded(k) /\ option'[k] # option[k] => option'[k] \in meant[k]]_consoleVars

\* The dialog that pays shows the price of what is chosen in it, and what is paid
\* for is what the dialog showed.
WalletPaid == page = "wallet" => AmountTrue /\ PaidAsShown
\* The quota of TopupCard and the invitation quota of InviteCard are those of the row.
WalletShown == page = "wallet" => QuotaIsRows /\ AffIsRows

\* A row gets an address only by a code that was mailed there, and an address goes
\* to two rows only if their codes were made while nobody had it.
MailShared == page = "mails" => AddressProven /\ SharedOnlyByRace
\* A form waits for the code it asked for before it asks for another, its button
\* is enabled again, and the new password it shows is the one set.
MailForms == page = "mails" => OneCodeAsked /\ ButtonComesBack /\ PasswordShownWorks

\* The user shown by a tab is the one of the session and of localStorage, which
\* remembers no user who logged out.
SessionShown == page = "session" => ShownIsSession /\ RememberedHasSession
=============================================================================
