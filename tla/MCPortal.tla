------------------------------- MODULE MCPortal -------------------------------
(* Portal for TLC, alone and with its fairness.                            *)
EXTENDS Portal
=============================================================================
