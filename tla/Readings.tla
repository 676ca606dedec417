------------------------------ MODULE Readings ------------------------------
(* What is in an answer of app/api/stats/route.ts, and what the panel of   *)
(* components/dashboard/metrics-section.tsx makes of it.  A number comes   *)
(* from a host agent (agent/main.go, scripts/host-agent.js), from the      *)
(* mounts of a Linux host, or from docker and the dashboard's own          *)
(* container; of a number only this, its unit and whether it is zero are   *)
(* kept.  When an answer is made and whether it arrives is in Stats and    *)
(* MetricsPanel; here each answer finds the machine in a state of its own. *)

CONSTANTS
  Containers,  \* the containers of the project
  Amiss,       \* bound: the sets of things that are amiss at a time
  NULL

VARIABLES
  source,    \* the machine as the last answer found it
  row,       \* the row of metrics_history written with that answer
  screen,    \* stats of the panel
  expanded,  \* expandedContainer
  menu       \* rangeOpen

vars == <<source, row, screen, expanded, menu>>

-----------------------------------------------------------------------------
(* The machine.  agent: which one answers in time; mounts: /host/proc is   *)
(* there; amiss: what cannot be collected or read, and "idle" if the CPU   *)
(* has done nothing that a number rounded to tenths shows; docker: the     *)
(* containers docker stats lists, with what docker ps says of them then    *)
(* (unhealthy stands for exited, dead, paused and restarting, too, which   *)
(* are passed on alike); locks: the services with a migration lock.        *)

Collectors == {"usage", "loadAvg", "memory", "disk", "info"}
Readers    == {"procs", "df", "uptime", "loadavg", "meminfo", "sensors", "gpu", "ups", "ps", "data",
               "netdev"}
States     == {"up", "unhealthy", "gone", "unlisted"}

Machines ==
  [agent : {"go", "node", "none"}, mounts : BOOLEAN, amiss : Amiss,
   docker : [Containers -> States], locks : SUBSET Containers]

\* The numbers: who has taken it, in which unit, and whether it is zero.
Sources == {"agent", "mounts", "docker", "container", "nobody"}
Units   == {"percent", "bytes", "MB", "seconds", "days", "tasks", "degrees", "errors"}
Numbers == [from : Sources, unit : Units, zero : BOOLEAN]

Value(from, unit) == [from |-> from, unit |-> unit, zero |-> FALSE]
ZeroIf(broken, v) == [v EXCEPT !.zero = broken]
NullIf(broken, v) == IF broken THEN NULL ELSE v

\* What || and ?: of JavaScript let pass, and what ?? and ?. let pass.
Truthy(v)  == v # NULL /\ ~v.zero
Present(v) == v # NULL

-----------------------------------------------------------------------------
(* The agents, by the names the route reads.                               *)

Agent(unit) == Value("agent", unit)

\* A collector of the Go agent that fails leaves zeros, or no disks; so does an idle CPU.
GoAgent(s) ==
  [load     |-> ZeroIf(s.amiss \cap {"usage", "idle"} # {}, Agent("percent")),
   usedPerc |-> ZeroIf("memory" \in s.amiss, Agent("percent")),
   total    |-> ZeroIf("memory" \in s.amiss, Agent("bytes")),
   disk     |-> NullIf("disk" \in s.amiss, Agent("percent")),
   uptime   |-> ZeroIf("info" \in s.amiss, Agent("seconds")),
   loadAvg  |-> ZeroIf("loadAvg" \in s.amiss, Agent("tasks"))]

\* Mutated form: without the alias for usage, as the Node agent has it.
MutGo(s) == [GoAgent(s) EXCEPT !.load = NULL]

Go(s) == GoAgent(s)

\* The collectors of the Node agent, of which the route can only miss the disks.
NodeReads(s) ==
  [usage |-> Agent("percent"), memory |-> [usedPerc |-> Agent("percent"), total |-> Agent("bytes")],
   disk |-> NullIf("disk" \in s.amiss, Agent("percent"))]

\* Its answer has the usage of the CPU and the load averages under other names.
Node(s) ==
  [load |-> NULL, usedPerc |-> NodeReads(s).memory.usedPerc, total |-> NodeReads(s).memory.total,
   disk |-> NodeReads(s).disk, uptime |-> Agent("seconds"), loadAvg |-> NULL]

\* The mounts of a Linux host: no disks, and the load averages where nobody looks for them.
Mounts ==
  [load |-> NULL, usedPerc |-> Value("mounts", "percent"), total |-> Value("mounts", "bytes"),
   disk |-> NULL, uptime |-> Value("mounts", "days"), loadAvg |-> NULL]

Nothing == [k \in DOMAIN Mounts |-> NULL]

\* fetchAgentMetrics: the tiers.  One file of the mounts that cannot be read loses them all.
AgentData(s) ==
  CASE s.agent = "go"   -> Go(s)
    [] s.agent = "node" -> Node(s)
    [] s.agent = "none" /\ s.mounts /\ "procs" \notin s.amiss -> Mounts
    [] OTHER            -> Nothing

-----------------------------------------------------------------------------
(* The readers of the route: null if the command or file is not there.     *)

Local(s, reader, unit) == NullIf(reader \in s.amiss, Value("container", unit))

DiskUsage(s) == Local(s, "df", "percent")
Uptime(s)    == Local(s, "uptime", "days")
LoadAvg(s)   == Local(s, "loadavg", "tasks")
Swap(s)      == Local(s, "meminfo", "percent")
Temps(s)     == Local(s, "sensors", "degrees")
Gpu(s)       == Local(s, "gpu", "percent")
Ups(s)       == Local(s, "ups", "percent")
NetErrors(s) == Local(s, "netdev", "errors")

\* The directories of /data and the file systems of the container, whatever the agent says of
\* disks; no entry at all if they cannot be listed.
Storage(s) == Local(s, "data", "bytes")
Disks(s)   == Local(s, "df", "percent")

\* The agent's word, or whether the mounts of a Linux host are there.
Platform(s) ==
  CASE s.agent # "none"             -> "host"
    [] s.agent = "none" /\ s.mounts -> "linux"
    [] OTHER                        -> "docker-vm"

\* docker stats, summed up over the containers it lists.
Listed(s)    == {c \in Containers : s.docker[c] # "unlisted"}
Sum(s, unit) == ZeroIf(Listed(s) = {}, Value("docker", unit))

\* readContainerHealth.  If docker ps fails, or does not know a container, it is running.
Health(s, c) ==
  CASE "ps" \in s.amiss                   -> "running"
    [] "ps" \notin s.amiss /\ c \in s.locks -> "migrating"
    [] OTHER -> IF s.docker[c] = "unhealthy" THEN "unhealthy" ELSE "running"

\* "Merge Agent Data if available".
Merged(s) ==
  LET a == AgentData(s)
  IN  [cpu        |-> IF Truthy(a.load) THEN a.load ELSE Sum(s, "percent"),
       memPerc    |-> IF Truthy(a.usedPerc) THEN a.usedPerc ELSE Sum(s, "percent"),
       memBytes   |-> IF Truthy(a.total) THEN a.total ELSE Sum(s, "bytes"),
       down       |-> Sum(s, "MB"),
       disk       |-> IF Present(a.disk) THEN a.disk ELSE DiskUsage(s),
       uptime     |-> IF Present(a.uptime) THEN a.uptime ELSE Uptime(s),
       load       |-> IF Present(a.loadAvg) THEN a.loadAvg ELSE LoadAvg(s),
       swap       |-> Swap(s), temp |-> Temps(s), ups |-> Ups(s), net |-> NetErrors(s),
       storage    |-> Storage(s), disks |-> Disks(s), platform |-> Platform(s),
       containers |-> [c \in Listed(s) |-> Health(s, c)],
       connected  |-> s.agent # "none"]

OrZero(v) == IF v = NULL THEN ZeroIf(TRUE, Value("container", "percent")) ELSE v

\* The history has what docker and the container say, whatever the agent does.
Row(s) == [cpu |-> Sum(s, "percent"), memory |-> Sum(s, "percent"), down |-> Sum(s, "bytes"),
           disk |-> OrZero(DiskUsage(s)), gpu |-> OrZero(Gpu(s))]

-----------------------------------------------------------------------------
(* The panel.                                                              *)

\* EMPTY_STATS, the answer of nobody.
Empty ==
  LET zero(unit) == ZeroIf(TRUE, Value("nobody", unit))
  IN  [cpu |-> zero("percent"), memPerc |-> zero("percent"), memBytes |-> zero("bytes"),
       down |-> zero("MB"),
       disk |-> NULL, uptime |-> NULL, load |-> NULL, swap |-> NULL, temp |-> NULL, ups |-> NULL,
       net |-> NULL, storage |-> NULL, disks |-> NULL, platform |-> "linux",
       containers |-> [c \in {} |-> "running"], connected |-> FALSE]

\* The badges of the header.
Badges == {screen.platform} \cup (IF screen.connected THEN {"Agent Connected"} ELSE {})

\* The units that the pills, the block of the system, the tables of the right column, of which
\* an empty one is left out, and the block of the UPS write beside a value.
Pills  == [cpu |-> "percent", memPerc |-> "percent", disk |-> "percent", uptime |-> "days"]
System == [swap |-> "percent", load |-> "tasks", temp |-> "degrees", net |-> "errors"]
Stored == [storage |-> "bytes"]
Tables == IF Present(screen.disks) THEN [disks |-> "percent"] ELSE [k \in {} |-> "percent"]
Battery == IF Present(screen.ups) THEN [ups |-> "percent"] ELSE [k \in {} |-> "percent"]

\* The curves of the two charts, and the points they get from the history and from an answer.
Curves == [cpu |-> "percent", memory |-> "percent", down |-> "MB"]
Past   == [cpu |-> row.cpu, memory |-> row.memory, down |-> [row.down EXCEPT !.unit = "MB"]]
Live   == [cpu |-> screen.cpu, memory |-> screen.memPerc, down |-> screen.down]

\* What is written beside the value of a field, in whichever block it is shown.
Written(k) == CASE k \in DOMAIN Pills  -> Pills[k]
                [] k \in DOMAIN System -> System[k]
                [] k \in DOMAIN Stored -> Stored[k]
                [] k \in DOMAIN Tables -> Tables[k]
                [] OTHER               -> Battery[k]

\* statusLabel and statusColor: a status they do not know is a running one.
Label(status) ==
  CASE status = "migrating" -> "amber" [] status = "unhealthy" -> "red" [] OTHER -> "green"

\* The table of the containers.
Rows == [c \in DOMAIN screen.containers |-> Label(screen.containers[c])]

Init ==
  /\ source = [agent |-> "none", mounts |-> FALSE, amiss |-> {},
               docker |-> [c \in Containers |-> "up"], locks |-> {}]
  /\ row = NULL /\ screen = Empty /\ expanded = NULL /\ menu = FALSE

\* GET api/stats, its row and what the panel shows of it.
Answer(s) ==
  /\ source' = s /\ row' = Row(s) /\ screen' = Merged(s)
  /\ UNCHANGED <<expanded, menu>>

\* A click on the row of a container.  It stays expanded while it is not listed.
ToggleRow(c) ==
  /\ c \in DOMAIN Rows /\ expanded' = IF expanded = c THEN NULL ELSE c
  /\ UNCHANGED <<source, row, screen, menu>>

\* The button of the range, a range, or the mouse beside them.
ToggleMenu == menu' = ~menu /\ UNCHANGED <<source, row, screen, expanded>>

Next ==
  \/ ToggleMenu
  \/ \E s \in Machines : Answer(s)
  \/ \E c \in Containers : ToggleRow(c)

Spec == Init /\ [][Next]_vars

-----------------------------------------------------------------------------
TypeOK ==
  /\ source \in Machines /\ menu \in BOOLEAN /\ expanded \in Containers \cup {NULL}
  /\ DOMAIN screen = DOMAIN Empty /\ (row # NULL => DOMAIN row = {"cpu", "memory", "down", "disk", "gpu"})

\* The Go agent writes its answer for a reader in another language (main.go:47 "must match
\* dashboard expectations in app/api/stats/route.ts"; :51 and :92 name the fields): while all
\* its collectors work the header says that it is connected, and the use of the machine on the
\* screen (CPU, memory, disk, load) is the agent's, in the unit written beside it, and never
\* the sum over the containers, which looks the same, but for the CPU of an idle machine.
\* Without an agent the header says so, and nothing on the screen is an agent's.  The points of
\* a curve are in its unit, whether they were read from the history or live.  The uptime is not
\* among them: see the README.
GoAgentUnderstood ==
  /\ source.agent = "go" /\ source.amiss \cap Collectors = {} =>
       /\ "Agent Connected" \in Badges
       /\ \A k \in {"cpu", "memPerc", "disk", "load"} :
            /\ screen[k].unit = Written(k)
            /\ screen[k].from = "agent" \/ (k = "cpu" /\ "idle" \in source.amiss)
  /\ source.agent = "none" =>
       /\ "Agent Connected" \notin Badges
       /\ \A k \in DOMAIN Pills \cup DOMAIN System \cup DOMAIN Stored \cup DOMAIN Tables :
            Present(screen[k]) => screen[k].from # "agent" /\ screen[k].unit = Written(k)
  /\ row # NULL => \A k \in DOMAIN Curves : {Past[k].unit, Live[k].unit} = {Curves[k]}

\* "Priority: Agent > Linux Mounts > Container Stats" (stats/route.ts:508): while the Go agent
\* answers and its collectors work, the CPU on the screen is the agent's, a zero included.
\* The code does not keep to it.
AgentFirst ==
  source.agent = "go" /\ source.amiss \cap Collectors = {} => screen.cpu.from = "agent"
=============================================================================
