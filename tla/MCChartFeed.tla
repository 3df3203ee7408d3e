------------------------------ MODULE MCChartFeed -----------------------------
(* A small instance of ChartFeed for TLC. *)
EXTENDS ChartFeed
=============================================================================
