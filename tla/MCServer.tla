------------------------------ MODULE MCServer ------------------------------
(***************************************************************************)
(* Small instances of the services for TLC.                                *)
(***************************************************************************)
EXTENDS Server

CONSTANTS s1, s2, i1

AllServices == {"batch", "codes", "rates", "tasks", "channels"}
TwoSettlements == {s1, s2}
OneId == {i1}

\* The first channel is preferred.
FirstPreferred == [c \in Channels |-> IF c = 1 THEN 2 ELSE 1]
=============================================================================
