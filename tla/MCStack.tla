------------------------------- MODULE MCStack -------------------------------
(* Instance of Update, with Install and Startup, for TLC. *)
EXTENDS Update
=============================================================================
