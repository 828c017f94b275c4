----------------------------- MODULE MCTokenRow -----------------------------
(***************************************************************************)
(* Small instances of TokenRow for TLC.                                    *)
(***************************************************************************)
EXTENDS TokenRow, TLC

CONSTANTS d1, d2, d3, c1, v1, e1

ThreeDebits == {d1, d2, d3}
OneCredit == {c1}
OneUse == {v1}
OneEdit == {e1}

\* The debits play the same part.
SameDebits == Permutations(Debits)
=============================================================================
