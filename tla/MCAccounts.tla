----------------------------- MODULE MCAccounts -----------------------------
(* Accounts, and the rate limiter that stands before its routes, for TLC.  *)
(* They are side by side as the parts of Desk are: no step of one is seen  *)
(* by the other, and a behaviour is one of the part in focus.              *)
(*                                                                         *)
(* All but the first admin are interchangeable.  One key of the limiter    *)
(* has a window as long as the idle age of the sweep, as for setup, and    *)
(* one a shorter window, as for login.                                     *)
EXTENDS Accounts, RateLimit, TLC

CONSTANTS setup, login

VARIABLE focus

Symmetry == Permutations(Secrets) \cup Permutations(Tokens) \cup Permutations(Requests)
              \cup Permutations(Users \ {First})

MCClients == {setup, login}
MCWindow == [k \in MCClients |-> IF k = setup THEN 3 ELSE 2]
MCMax    == [k \in MCClients |-> IF k = setup THEN 2 ELSE 1]

MCInit == focus \in {"accounts", "limiter"} /\ Init /\ RInit

MCNext ==
  \/ focus = "accounts" /\ Next /\ UNCHANGED <<focus, rvars>>
  \/ focus = "limiter" /\ RNext /\ UNCHANGED <<focus, vars>>

MCSpec == MCInit /\ [][MCNext]_<<focus, vars, rvars>>
=============================================================================
