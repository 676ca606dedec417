------------------------------- MODULE MCSetup -------------------------------
(* Setup for TLC.                                                          *)
EXTENDS Setup
=============================================================================
