--------------------------- MODULE MCMeasuredRun ---------------------------
(* Two runs on one database, one of them a restart run, and two workers.   *)
EXTENDS MeasuredRun

CONSTANTS h1, h2, w1, w2, j1, j2
=============================================================================
