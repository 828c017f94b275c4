---------------------------- MODULE MCUserQuota -----------------------------
(***************************************************************************)
(* Small instances of UserQuota for TLC.                                   *)
(***************************************************************************)
EXTENDS UserQuota, TLC

CONSTANTS u1, c1, c2, t1, t2

OneUser == {u1}
TwoRequests == {c1, c2}
OneTopup == {t1}
TwoTopups == {t1, t2}
BothPaths == {"epay", "redeem"}
Redeem == {"redeem"}

\* -1 (never) sorts before every date, 1 is reached by the clock
NeverOrOne == {-1, 1}
=============================================================================
