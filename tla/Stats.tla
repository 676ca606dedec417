-------------------------------- MODULE Stats --------------------------------
(* app/api/stats/route.ts and app/api/stats/history/route.ts: a request    *)
(* reads the containers, then asks the host agent, puts what it found into *)
(* metrics_history and answers.  The agent is given up after two seconds   *)
(* and its work goes on.  Values are abstracted to when they were had: the *)
(* n-th set of readings that was put together, the time of the agent's.    *)
EXTENDS HostAgent, FiniteSets, Sequences

CONSTANTS
  Limit,     \* how many rows the history route answers: 120
  MaxReads   \* bound on the requests for stats

ASSUME StatsAssumption == MaxReads \in Nat /\ Limit \in Nat \ {0}

VARIABLES
  calls,   \* calls[c]: NULL, or a request on its way
  rows,    \* metrics_history in the order of id, by the numbers of the readings
  reads    \* the number of stats requests that have heard the agent so far

stats == <<agent, calls, rows, reads>>

StatsInit == AgentInit /\ calls = [c \in Calls |-> NULL] /\ rows = <<>> /\ reads = 0

\* A call is "sent", "reading", "waiting" for the agent, "ok" or "failed".  It carries the number of its
\* reading, what the agent gave it (-1: nothing), and the rows of a history.
Request(what, who, range) ==
  [what |-> what, who |-> who, range |-> range, stage |-> "sent", n |-> 0, at |-> -1,
   list |-> <<>>]

At(c, what, stage) == calls[c] # NULL /\ calls[c].what = what /\ calls[c].stage = stage

\* docker stats, which nothing bounds.
ReadContainers(c) ==
  /\ At(c, "stats", "sent")
  /\ calls' = [calls EXCEPT ![c].stage = "reading"]
  /\ UNCHANGED <<agent, rows, reads>>

\* The storage scan and the readers of GPU, temperatures, disks, swap, power, UPS and the rest,
\* each of which catches its own errors; then the agent is asked and looks into its cache, if
\* there is one that can be reached.
ReadHost(c) ==
  /\ At(c, "stats", "reading")
  /\ calls' = [calls EXCEPT ![c].stage = "waiting"]
  /\ \/ req' = [req EXCEPT ![c] = GetMetrics]
     \/ req' = req
  /\ UNCHANGED <<now, kind, cache, rows, reads>>

\* What nobody waits for is dropped.
Answered(c, call) == [calls EXCEPT ![c] = IF call.who = "other" THEN NULL ELSE call]

\* docker stats fails: the answer is an error, whatever the rest would have said.
DockerFails(c) ==
  /\ At(c, "stats", "sent")
  /\ calls' = Answered(c, [calls[c] EXCEPT !.stage = "failed"])
  /\ UNCHANGED <<agent, rows, reads>>

\* fetchAgentMetrics: a reading, or none in time.
AgentReading(c) == IF InStage(c, "answered") THEN req[c].at ELSE -1

\* Rows older than a day are deleted, by every request of either kind: the first so many.
Pruned == {SubSeq(rows, i, Len(rows)) : i \in 1..(Len(rows) + 1)}

\* The agent has answered, with a reading or not at all, or was given up (AbortSignal.timeout) and
\* its answer comes too late: the mounts of Linux or the containers have to do.
Hears(c) ==
  /\ At(c, "stats", "waiting")
  /\ req' = [req EXCEPT ![c] = IF InStage(c, "answered") THEN NULL ELSE @]
  /\ UNCHANGED <<now, kind, cache>>

\* docker ps has been waited for meanwhile.  A history that cannot be written is no error.
MergeAndStore(c) ==
  /\ Hears(c)
  /\ reads' = reads + 1
  /\ \E at \in {AgentReading(c), -1} :
       calls' = Answered(c, [calls[c] EXCEPT !.stage = "ok", !.n = reads + 1, !.at = at])
  /\ \/ \E kept \in Pruned : rows' = Append(kept, reads + 1)
     \/ rows' = rows

\* readContainerHealth: the directory of the migration locks cannot be read.
HealthFails(c) ==
  /\ Hears(c)
  /\ reads' = reads + 1
  /\ calls' = Answered(c, [calls[c] EXCEPT !.stage = "failed"])
  /\ UNCHANGED rows

\* The agent answers a route that has given it up.
AnswerDropped(c) ==
  /\ InStage(c, "answered") /\ ~At(c, "stats", "waiting")
  /\ req' = [req EXCEPT ![c] = NULL]
  /\ UNCHANGED <<now, kind, cache, calls, rows, reads>>

\* Mutated form: the rows are left as they were selected, the newest first.
MutNewest(table) == [i \in 1..(IF Len(table) < Limit THEN Len(table) ELSE Limit) |->
                       table[Len(table) + 1 - i]]

\* ORDER BY id DESC LIMIT 120, turned round; whatever range is asked for.
Newest(table) == SubSeq(table, IF Len(table) > Limit THEN Len(table) - Limit + 1 ELSE 1, Len(table))

ServeHistory(c) ==
  /\ At(c, "history", "sent")
  /\ rows' \in Pruned
  /\ calls' = [calls EXCEPT ![c] = [calls[c] EXCEPT !.stage = "ok", !.list = Newest(rows')]]
  /\ UNCHANGED <<agent, reads>>

\* An answer that is no list changes nothing.
HistoryFails(c) ==
  /\ At(c, "history", "sent")
  /\ calls' = [calls EXCEPT ![c] = NULL]
  /\ UNCHANGED <<agent, rows, reads>>

Serve(c) ==
  ReadContainers(c) \/ ReadHost(c) \/ MergeAndStore(c) \/ AnswerDropped(c) \/ ServeHistory(c)
Fail(c)  == DockerFails(c) \/ HealthFails(c) \/ HistoryFails(c)
=============================================================================
