--------------------------- MODULE MCFastCollectors ---------------------------
(* Small instances of FastCollectors for TLC. *)
EXTENDS FastCollectors, TLC

WorkerSymmetry == Permutations(Workers)
=============================================================================
