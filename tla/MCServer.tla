------------------------------- MODULE MCServer -------------------------------
(* Small instances of Server for TLC. *)
EXTENDS Server

MCIntervals == {2, 12}
MCBufferSize == [l \in Loops |-> 1]

MCOneTier == {1}
MCTwoTiers == {2, 3}
=============================================================================
