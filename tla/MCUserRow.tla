----------------------------- MODULE MCUserRow ------------------------------
(***************************************************************************)
(* Small instances of UserRow for TLC.                                     *)
(***************************************************************************)
EXTENDS UserRow, TLC

CONSTANTS d1, d2, c1, w1, w2, a1, a2

NoCalls == {}
OneDebit == {d1}
TwoDebits == {d1, d2}
OneCredit == {c1}
OneWriter == {w1}
TwoWriters == {w1, w2}
TwoAdmins == {a1, a2}

\* Calls of one kind play the same part.
Same == Permutations(Debits) \cup Permutations(Writers) \cup Permutations(Admins)
=============================================================================
