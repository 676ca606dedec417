------------------------------ MODULE MCMetrics ------------------------------
(* MetricsPanel for TLC.                                                   *)
EXTENDS MetricsPanel
=============================================================================
