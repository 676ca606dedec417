------------------------------- MODULE MCHome -------------------------------
(* Home and what it puts on the screen, for TLC.                           *)
EXTENDS Frame
=============================================================================
