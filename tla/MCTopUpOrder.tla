---------------------------- MODULE MCTopUpOrder ----------------------------
(***************************************************************************)
(* Small instances of TopUpOrder for TLC.                                  *)
(***************************************************************************)
EXTENDS TopUpOrder

CONSTANTS n1, n2

TwoNotices == {n1, n2}
=============================================================================
