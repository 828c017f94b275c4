------------------------------ MODULE MCTables ------------------------------
EXTENDS Tables

AllViews == {"channels", "tokens", "users", "redemptions", "withdrawals", "topups",
             "mjlogs", "logs", "mine", "minelogs", "minemj", "minewd"}

\* Rows 1 to n, the second used or expired.
Rows(n) == [i \in Ids |-> IF i > n THEN 0 ELSE IF i = 2 THEN 3 ELSE 1]

\* Three rows where the page changes none; where rows come and go there are
\* two at first and there is room for a third.
Plain == {"users", "topups", "mjlogs", "minelogs", "minemj"}
FirstRows == [v \in Views |-> {Rows(IF v \in Plain THEN 3 ELSE 2)}]
Requests == [v \in Views |-> 2]
=============================================================================
