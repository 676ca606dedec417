----------------------------- MODULE MCTerminal -----------------------------
(* Terminal for TLC: the first tab asks for bash, the second for a shell   *)
(* of any kind.  Tabs have nothing but tickets and the display in common,  *)
(* and tickets are spent before the handler looks at the kind.             *)
EXTENDS Terminal

CONSTANT t1

MCInit == Init /\ kind[t1] = "bash"
MCSpec == MCInit /\ [][Next]_vars
=============================================================================
