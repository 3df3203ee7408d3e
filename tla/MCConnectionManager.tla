------------------------- MODULE MCConnectionManager --------------------------
(* Small instances of ConnectionManager for TLC. *)
EXTENDS ConnectionManager

MCIntervals == {1, 4}
=============================================================================
