--------------------------- MODULE MCRelayBilling ---------------------------
(***************************************************************************)
(* Small instances of RelayBilling for TLC.                                *)
(***************************************************************************)
EXTENDS RelayBilling, TLC

CONSTANTS u1, t1, t2, r1, r2

OneUser == {u1}
OneToken == {t1}
TwoTokens == {t1, t2}
NoToken == {}
SecondToken == {t2}
OneRequest == {r1}
TwoRequests == {r1, r2}

\* Every token belongs to the one user.
OwnedByOne == [t \in Tokens |-> u1]

\* The two requests play the same part.
SameRequests == Permutations(Requests)

=============================================================================
