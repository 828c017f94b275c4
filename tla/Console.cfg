SPECIFICATION ConsoleSpec
SYMMETRY Addresses
CONSTANTS
    None = None
    Pages <- AllPages
    Kinds <- AllKinds
    Rows = {1, 2}
    Plain = {2}
    Slots = {1, 2}
    MaxAsked = 3
    MaxTyped = 1
    MaxCount = 2
    MaxTrouble = 1
    Tabs <- AllTabs
    Edited <- SomeOptions
    Buttons <- SomeButtons
    Lines = {1, 2}
    MaxEdits <- Edits
    MaxSubmits = 2
    MaxBad = 1
    Parts = {"pay", "quotas"}
    Counts = {"1", "2", "02"}
    Days = {30, 90}
    Codes = {1}
    Lanes = {1, 2, 3}
    MaxCalled = 3
    MaxTouched = 2
    MaxMishaps = 1
    People = {1, 2}
    mail1 = mail1
    mail2 = mail2
    Emails <- TwoEmails
    Seats <- Pairs
    Letters = {1, 2}
    Restricted = {TRUE, FALSE}
    Ticks = 1
    MaxMailed = 2
    MaxWritten = 4
    MaxTypedIn = 2
    MaxFaults = 1
    Windows = {1, 2}
    Opened <- TabPairs
    Users = {1, 2}
    Wires = {1, 2}
    MaxWired = 3
    MaxReloads = 1
    MaxBreaks = 1
INVARIANTS ConsoleTypeOK SheetSavesOwn SheetEnds SettingsStored WalletPaid WalletShown
      SessionShown
 
CHECK_DEADLOCK FALSE
