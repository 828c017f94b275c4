----------------------------- MODULE MCConsole -----------------------------
EXTENDS Console, TLC

CONSTANTS mail1, mail2
TwoEmails == {mail1, mail2}
\* No address differs from another.
Addresses == Permutations(TwoEmails)

AllPages == {"sheet", "settings", "wallet", "mails", "session"}
AllKinds == {"channel", "batch", "token", "user", "code", "newuser", "mytoken"}
AllTabs == {"system", "operation", "payment", "other"}

\* One option at least of every way there is to save one.
SomeOptions == {"GitHubClientSecret", "EmailDomainWhitelist",
                "ModelRatio", "CompletionRatio", "PayAddress", "TopupRatio", "Notice"}
SomeButtons == {"GitHub", "Whitelist", "UserGroup", "Ratio", "Pay", "TopUp", "Notice", "About"}
\* Pairs of forms of which one can get in the way of the other.
Pairs == {<<"register", "register">>, <<"register", "personal">>, <<"forgot", "bind">>}
\* Two tabs of the user's console, and one of each.
TabPairs == {<<"admin", "user">>, <<"user", "user">>}

Edits == [t \in Tabs |-> IF t \in {"system", "payment"} THEN 1 ELSE 2]
=============================================================================
