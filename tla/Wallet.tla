------------------------------- MODULE Wallet -------------------------------
(***************************************************************************)
(* The top-up page of a user: the card that shows the quota, redeems codes *)
(* and pays, and the card of the invitation quota beside it.  An amount is *)
(* known by what it is the price of: a number and the days it is valid.    *)
(***************************************************************************)
EXTENDS Integers

CONSTANTS
    Parts,      \* the parts of the page looked at: paying, or the two quotas, which share nothing
    Counts,     \* what can be typed as the number to pay for
    Days,       \* the days offered, the first one chosen with the dialog
    Codes,      \* redemption codes typed
    Lanes,      \* requests that may be under way together
    MaxCalled,  \* bound on the requests of the page
    MaxTouched, \* bound on the changes of fields
    MaxMishaps  \* bound on the troubles and on changes made elsewhere

\* The page starts with two requests.
ASSUME LanesAssumption == {1, 2} \subseteq Lanes

VARIABLES
    part,       \* which part
    card,       \* TopupCard
    invite,     \* InviteCard
    server,     \* the quotas of the user's row, the codes used
    paid,       \* requests for payment the server accepted
    lane,       \* requests under way
    spent,      \* requests, changes of fields and mishaps so far
    past        \* what happened that excuses the page

walletVars == <<part, card, invite, server, paid, lane, spent, past>>

FirstDays == CHOOSE d \in Days : \A e \in Days : d <= e
Worth == 1      \* what a code, and a transfer, is worth
Unpriced == [count |-> 0, days |-> 0]

\* parseInt, and the comparison of its text with what was typed; NaN is sent
\* as null, which the server reads as 0.
NumberIn(t) == CASE t = "1" -> 1 [] t \in {"2", "02"} -> 2 [] OTHER -> 0
IsPlain(t) == t \in {"0", "1", "2"}

FreeLane == [pc |-> "idle"]
Resting == \A l \in Lanes : lane[l].pc = "idle"
Pending(ops) == \E l \in Lanes : lane[l].pc # "idle" /\ lane[l].op \in ops

\* count and days are those of the rendering the handler belongs to.
Ask(op, t, d) == [pc |-> "sent", op |-> op, typed |-> t, days |-> d, answer |-> "ok",
                  data |-> 0, shown |-> Unpriced, hasty |-> FALSE]
\* Mutant of Pay: the days are not the ones picked.
PayFirstDays(t, d, shown, hasty) == [Ask("pay", t, FirstDays) EXCEPT !.shown = shown, !.hasty = hasty]
Pay(t, d, shown, hasty) == [Ask("pay", t, d) EXCEPT !.shown = shown, !.hasty = hasty]
Call(r) ==
    /\ spent.called < MaxCalled
    /\ spent' = [spent EXCEPT !.called = @ + 1]
    /\ \E l \in Lanes : /\ lane[l].pc = "idle" /\ \A k \in Lanes : k < l => lane[k].pc # "idle"
                        /\ lane' = [lane EXCEPT ![l] = r]
NoCall == UNCHANGED <<lane, spent>>
Touch == spent.touched < MaxTouched /\ spent' = [spent EXCEPT !.touched = @ + 1]

\* getAmount: an answer may overtake an earlier one.
Priced == {"amount", "amountThenPay"}
AskAmount(op, t, d) ==
    IF IsPlain(t) THEN /\ Call(Ask(op, t, d))
                       /\ past' = past \cup {e \in {"reordered"} : Pending(Priced)}
    ELSE NoCall /\ UNCHANGED past
-----------------------------------------------------------------------------
(* The dialog that pays                                                    *)

\* onChange of the select and of the field; the dialog covers both.
TypeCount ==
    /\ part = "pay" /\ ~card.open
    /\ \E t \in Counts \ {card.count} :
          /\ card' = [card EXCEPT !.count = t]
          /\ AskAmount("amount", t, card.days)
    /\ UNCHANGED <<invite, server, paid>>

\* The ways to pay are shown when the options say so.  The callback given to
\* setTopUpDays is never called; the effect on days and open asks.
PreTopUp ==
    /\ part = "pay" /\ ~card.open /\ card.ready
    /\ card' = [card EXCEPT !.open = TRUE, !.days = FirstDays]
    /\ AskAmount("amount", card.count, FirstDays)
    /\ UNCHANGED <<invite, server, paid>>
\* Mutant of PickDays: no amount is asked for.
PickDaysSilently ==
    /\ card.open
    /\ \E d \in Days \ {card.days} : card' = [card EXCEPT !.days = d]
    /\ NoCall /\ UNCHANGED <<invite, server, paid, past>>
PickDays ==
    /\ card.open
    /\ \E d \in Days \ {card.days} :
          /\ card' = [card EXCEPT !.days = d]
          /\ AskAmount("amount", card.count, d)
    /\ UNCHANGED <<invite, server, paid>>
CloseDialog ==
    /\ card.open /\ card' = [card EXCEPT !.open = FALSE]
    /\ NoCall /\ UNCHANGED <<invite, server, paid, past>>

\* onlineTopUp: without an amount it waits for one, and pays whatever it is.
Unseen == card.amount = Unpriced
OnlineTopUp ==
    /\ card.open /\ ~card.redeeming
    /\ IF Unseen /\ IsPlain(card.count)
       THEN /\ AskAmount("amountThenPay", card.count, card.days)
            /\ UNCHANGED card
       ELSE /\ card' = [card EXCEPT !.open = FALSE]
            /\ Call(Pay(card.count, card.days, card.amount, Pending(Priced) \/ Unseen))
            /\ UNCHANGED past
    /\ UNCHANGED <<invite, server, paid>>
-----------------------------------------------------------------------------
(* Redeeming, and the invitation quota                                     *)

TypeCode ==
    /\ part = "quotas" /\ Touch
    /\ \E k \in Codes \ {card.code} : card' = [card EXCEPT !.code = k]
    /\ UNCHANGED <<invite, server, paid, lane, past>>
TopUp ==
    /\ part = "quotas" /\ ~card.redeeming /\ card.code # 0
    /\ card' = [card EXCEPT !.redeeming = TRUE]
    /\ Call([Ask("redeem", "", 0) EXCEPT !.data = card.code])
    /\ past' = past \cup {e \in {"raced"} : Pending({"quota"})}
    /\ UNCHANGED <<invite, server, paid>>

\* The dialogs to transfer and to withdraw; the transfer's onClose opens it.
OpenInvite ==
    /\ part = "quotas" /\ invite.open = "" /\ \E w \in {"transfer", "withdraw"} : invite' = [invite EXCEPT !.open = w]
    /\ NoCall /\ UNCHANGED <<card, server, paid, past>>
CloseInvite ==
    /\ invite.open # "" /\ invite' = [invite EXCEPT !.open = ""]
    /\ NoCall /\ UNCHANGED <<card, server, paid, past>>
\* Compared with what the card shows; nothing keeps the button from a second click.
TransferOrWithdraw ==
    /\ invite.open # "" /\ Worth <= invite.aff
    /\ Call(Ask(invite.open, "", 0))
    /\ UNCHANGED <<card, invite, server, paid, past>>
-----------------------------------------------------------------------------
(* The server                                                              *)

Answer(l, a, d) == lane' = [lane EXCEPT ![l].pc = "back", ![l].answer = a, ![l].data = d]
Serve(l) ==
    LET r == lane[l]
        n == NumberIn(r.typed)
    IN  /\ r.pc = "sent"
        /\ CASE r.op \in {"quota", "aff", "options"} ->
                  /\ Answer(l, "ok", IF r.op = "aff" THEN server.aff ELSE server.quota)
                  /\ UNCHANGED <<server, paid>>
             [] r.op \in Priced ->
                  /\ Answer(l, IF n < 1 THEN "refused" ELSE "ok", 0)
                  /\ UNCHANGED <<server, paid>>
             [] r.op = "pay" ->
                  /\ Answer(l, IF n < 1 THEN "refused" ELSE "ok", 0)
                  /\ paid' = IF n < 1 THEN paid
                             ELSE paid \cup {[typed |-> r.typed, days |-> r.days, shown |-> r.shown, hasty |-> r.hasty]}
                  /\ UNCHANGED server
             [] r.op = "redeem" ->
                  /\ IF r.data \in server.used
                     THEN Answer(l, "refused", 0) /\ UNCHANGED server
                     ELSE /\ Answer(l, "ok", Worth)
                          /\ server' = [server EXCEPT !.quota = @ + Worth, !.used = @ \cup {r.data}]
                  /\ UNCHANGED paid
             [] OTHER ->
                  /\ IF server.aff < Worth THEN Answer(l, "refused", 0) /\ UNCHANGED server
                     ELSE /\ Answer(l, "ok", 0)
                          /\ server' = [server EXCEPT !.aff = @ - Worth,
                                            !.quota = @ + IF r.op = "transfer" THEN Worth ELSE 0]
                  /\ UNCHANGED paid
    /\ past' = past \cup {e \in {"transferred"} : r.op = "transfer"}
                    \cup {e \in {"refused"} : r.op \in Priced /\ n < 1}
    /\ UNCHANGED <<card, invite, spent>>

Mishap == spent.mishaps < MaxMishaps /\ spent' = [spent EXCEPT !.mishaps = @ + 1]

\* Refused or broken at the server, or the answer lost after it acted.
CallFails(l) ==
    /\ Mishap
    /\ \/ /\ lane[l].pc = "sent"
          /\ \E a \in {"refused", "broken"} :
                lane' = [lane EXCEPT ![l].pc = "back", ![l].answer = a] /\ past' = past \cup {a}
       \/ /\ lane[l].pc = "back" /\ lane[l].answer = "ok"
          /\ lane' = [lane EXCEPT ![l].answer = "broken"] /\ past' = past \cup {"lost"}
    /\ UNCHANGED <<card, invite, server, paid>>

\* Requests of the user's tokens, an invited user's payment.
ServerChanges ==
    /\ part = "quotas" /\ Mishap
    /\ \E q \in {0, 1} : server' = [server EXCEPT !.quota = @ - q, !.aff = @ + (1 - q)]
    /\ past' = past \cup {"elsewhere"}
    /\ UNCHANGED <<card, invite, paid, lane>>
-----------------------------------------------------------------------------
(* Answers                                                                 *)

Returned(l, ops) == lane[l].pc = "back" /\ lane[l].op \in ops
IsOk(l) == lane[l].answer = "ok"
Over(l) == lane' = [lane EXCEPT ![l] = FreeLane]

QuotaShown(l) ==
    /\ Returned(l, {"quota"})
    /\ card' = IF IsOk(l) THEN [card EXCEPT !.quota = lane[l].data] ELSE card
    /\ Over(l) /\ UNCHANGED <<invite, server, paid, spent, past>>
OptionsShown(l) ==
    /\ Returned(l, {"options"})
    /\ card' = IF IsOk(l) THEN [card EXCEPT !.ready = TRUE] ELSE card
    /\ Over(l) /\ UNCHANGED <<invite, server, paid, spent, past>>
AffShown(l) ==
    /\ Returned(l, {"aff"})
    /\ invite' = IF IsOk(l) THEN [invite EXCEPT !.aff = lane[l].data] ELSE invite
    /\ Over(l) /\ UNCHANGED <<card, server, paid, spent, past>>
AmountShown(l) ==
    LET r == lane[l] IN
    /\ Returned(l, Priced)
    /\ card' = [card EXCEPT !.amount = IF IsOk(l) THEN [count |-> NumberIn(r.typed), days |-> r.days] ELSE @,
                            !.open = @ /\ r.op = "amount"]
    /\ lane' = [lane EXCEPT ![l] = IF r.op = "amount" THEN FreeLane
                                   ELSE Pay(r.typed, r.days, Unpriced, TRUE)]
    /\ UNCHANGED <<invite, server, paid, spent, past>>
\* The form of the payment is sent to another window.
PayAnswered(l) ==
    /\ Returned(l, {"pay"})
    /\ Over(l) /\ UNCHANGED <<card, invite, server, paid, spent, past>>
\* Mutant of Redeemed: setUserQuota is forgotten.
RedeemedUnseen(l) ==
    /\ Returned(l, {"redeem"})
    /\ card' = [card EXCEPT !.redeeming = FALSE]
    /\ Over(l) /\ UNCHANGED <<invite, server, paid, spent, past>>
Redeemed(l) ==
    /\ Returned(l, {"redeem"})
    /\ card' = IF IsOk(l) THEN [card EXCEPT !.quota = @ + lane[l].data, !.code = 0, !.redeeming = FALSE]
               ELSE [card EXCEPT !.redeeming = FALSE]
    /\ Over(l) /\ UNCHANGED <<invite, server, paid, spent, past>>
\* Mutant of Transferred: getUserQuota is forgotten.
TransferredUnseen(l) ==
    /\ Returned(l, {"transfer", "withdraw"})
    /\ invite' = IF IsOk(l) THEN [invite EXCEPT !.open = ""] ELSE invite
    /\ Over(l) /\ UNCHANGED <<card, server, paid, spent, past>>
\* getUserQuota of this card only.
Transferred(l) ==
    /\ Returned(l, {"transfer", "withdraw"})
    /\ invite' = IF IsOk(l) THEN [invite EXCEPT !.open = ""] ELSE invite
    /\ lane' = [lane EXCEPT ![l] = IF IsOk(l) THEN Ask("aff", "", 0) ELSE FreeLane]
    /\ past' = past \cup {e \in {"affReordered"} : IsOk(l) /\ Pending({"aff"})}
    /\ UNCHANGED <<card, server, paid, spent>>

WalletStep ==
    /\ UNCHANGED part
    /\ \/ TypeCount \/ PreTopUp \/ PickDays \/ CloseDialog \/ OnlineTopUp
       \/ TypeCode \/ TopUp \/ OpenInvite \/ CloseInvite \/ TransferOrWithdraw
       \/ ServerChanges
       \/ \E l \in Lanes : \/ Serve(l) \/ CallFails(l)
                           \/ QuotaShown(l) \/ OptionsShown(l) \/ AffShown(l) \/ AmountShown(l)
                           \/ PayAnswered(l) \/ Redeemed(l) \/ Transferred(l)

WalletInit ==
    /\ part \in Parts
    /\ card = [count |-> "1", days |-> 0, amount |-> Unpriced, open |-> FALSE, redeeming |-> FALSE,
               code |-> 0, quota |-> 0, ready |-> FALSE]
    /\ invite = [aff |-> 0, open |-> ""]
    /\ server = [quota |-> 1, aff |-> 2, used |-> {}]
    /\ paid = {}
    /\ lane = [l \in Lanes |->
                 CASE part = "pay" /\ l = 1 -> Ask("options", "", 0)
                   [] part = "quotas" /\ l = 1 -> Ask("quota", "", 0)
                   [] part = "quotas" /\ l = 2 -> Ask("aff", "", 0)
                   [] OTHER -> FreeLane]
    /\ spent = [called |-> 0, touched |-> 0, mishaps |-> 0]
    /\ past = {}

WalletSpec == WalletInit /\ [][WalletStep]_walletVars
-----------------------------------------------------------------------------
\* Types of the wallet.
WalletTypeOK ==
    /\ card.count \in Counts /\ card.days \in Days \cup {0} /\ card.code \in Codes \cup {0}
    /\ card.amount.days \in Days \cup {0} /\ card.amount.count \in 0..2
    /\ invite.open \in {"", "transfer", "withdraw"} /\ invite.aff \in 0..(2 + MaxMishaps)
    /\ server.aff >= 0 /\ server.used \subseteq Codes

IsPriceOf(a, t, d) == a.count = NumberIn(t) /\ a.days = d

\* While the dialog is open and no price is under way, the amount in it is the
\* price of the number and the days in it.  Not so of a number the page does
\* not ask for, after a refusal or a failure, and when answers overtook.
AmountTrue ==
    card.open /\ ~Pending(Priced) /\ IsPlain(card.count) =>
        \/ IsPriceOf(card.amount, card.count, card.days)
        \/ past \cap {"reordered", "refused", "broken", "lost"} # {}

\* What is paid for is what the amount in the dialog was the price of, unless
\* it was confirmed before the amount arrived.
PaidAsShown ==
    \A p \in paid :
        \/ IsPriceOf(p.shown, p.typed, p.days) \/ p.hasty \/ ~IsPlain(p.typed)
        \/ past \cap {"reordered", "refused", "broken", "lost"} # {}

\* The quota shown is the row's once the answers have arrived.  A transfer does
\* not reach the other card, and a code redeemed while the quota is being
\* loaded may be counted twice or not at all.
QuotaIsRows ==
    part = "quotas" /\ Resting /\ card.quota # server.quota =>
        past \cap {"transferred", "raced", "refused", "broken", "lost", "elsewhere"} # {}

\* So is the invitation quota, unless two refreshes overtook each other.
AffIsRows ==
    part = "quotas" /\ Resting /\ invite.aff # server.aff =>
        past \cap {"affReordered", "refused", "broken", "lost", "elsewhere"} # {}
=============================================================================
