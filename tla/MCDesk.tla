-------------------------------- MODULE MCDesk --------------------------------
(* Desk for TLC: the models, and the slots for calls, are alike, and one   *)
(* thing is amiss at a time.                                               *)
EXTENDS Desk, TLC

Symmetry == Permutations(Models) \cup Permutations(Calls)

\* The collectors and readers of Readings, by name, and the idle CPU.
OneAmiss ==
  {{}} \cup {{b} : b \in {"usage", "loadAvg", "memory", "disk", "info", "procs", "df", "uptime",
                          "loadavg", "meminfo", "sensors", "gpu", "ups", "ps", "data", "netdev",
                          "idle"}}
=============================================================================
