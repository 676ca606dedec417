----------------------------- MODULE MetricsProofs -----------------------------
(* What the run of MetricsPanel shows of the ages and the order of readings, *)
(* for any number of requests at once, times to live and slow collections.   *)
EXTENDS MetricsPanel, FiniteSetTheorems, SequenceTheorems, TLAPS

AgentRequest == [stage : {"collecting", "answered"}, at : Nat, age : Int]
Call == [what : {"stats", "history"}, who : {"panel", "other", "gone"}, range : {"1h", "6h"},
         stage : {"sent", "reading", "waiting", "ok", "failed"}, n : Nat, at : Nat \cup {-1},
         list : Seq(Nat)]
Reading == [n : Nat, at : Nat \cup {-1}]

AgentType ==
  /\ now \in Nat /\ kind \in {"go", "node"}
  /\ cache \in {NULL} \cup [at : Nat, updated : Nat]
  /\ req \in [Calls -> {NULL} \cup AgentRequest]
RouteType == calls \in [Calls -> {NULL} \cup Call] /\ rows \in Seq(Nat) /\ reads \in Nat
PanelType ==
  /\ shown \in {NULL} \cup Reading /\ chart \in Seq(Nat)
  /\ cached \in [stats : {NULL} \cup Reading, chart : Seq(Nat)]

\* Every value that has one is of its type.
TypeOK == AgentType /\ RouteType /\ PanelType

\* A cache entry is as old as its stamp, or as much older as a collection may take; a collection
\* that runs is not slower than Slow.
Ages ==
  /\ cache # NULL =>
       /\ cache.updated <= now
       /\ IF kind = "go" THEN cache.at <= cache.updated /\ cache.updated <= cache.at + Slow
                         ELSE cache.updated = cache.at
  /\ \A c \in Calls : InStage(c, "collecting") => req[c].at <= now /\ now <= req[c].at + Slow
  /\ AnswersAreRecent

Fetches(c) == calls[c] # NULL /\ calls[c].what = "stats" /\ calls[c].who = "panel"

\* The panel asks for stats once at a time, and only while it is there.
OneFetch ==
  \A c \in Calls : Fetches(c) => mounted /\ isFetching /\ \A d \in Calls : Fetches(d) => d = c

\* The agent has nothing yet for a request whose route has not asked it.
NotAsked ==
  \A c \in Calls : calls[c] # NULL /\ calls[c].stage \in {"sent", "reading"} => req[c] = NULL

\* The readings are numbered as they are put together.
Numbered ==
  /\ shown # NULL => shown.n <= reads
  /\ cached.stats # NULL => cached.stats.n <= reads
  /\ \A c \in Calls : Fetches(c) /\ calls[c].stage = "ok" /\ shown # NULL => shown.n <= calls[c].n
  /\ \A c \in Calls : calls[c] # NULL => calls[c].n <= reads

\* No reading of the agent that anybody has is later than t.
UpTo(t) ==
  /\ shown # NULL => shown.at <= t
  /\ cached.stats # NULL => cached.stats.at <= t
  /\ \A c \in Calls : (InStage(c, "answered") => req[c].at <= t) /\ (calls[c] # NULL => calls[c].at <= t)

\* One collection at a time: the cache is the latest reading there is, and what a collection
\* brings is later still.
InTime ==
  /\ UpTo(now) /\ (cache # NULL => cache.at <= now)
  /\ ~overlapped =>
       /\ \A c, d \in Calls : InStage(c, "collecting") /\ InStage(d, "collecting") => c = d
       /\ cache # NULL => UpTo(cache.at)
       /\ \A c \in Calls : InStage(c, "collecting") =>
            UpTo(req[c].at) /\ (cache # NULL => cache.at <= req[c].at)

\* What the panel is about to hear is not older than what it shows.
Newer ==
  ~overlapped => \A c \in Calls : Fetches(c) /\ shown # NULL =>
    /\ calls[c].stage = "waiting" /\ InStage(c, "answered") => shown.at <= req[c].at
    /\ calls[c].stage = "ok" /\ calls[c].at >= 0 => shown.at <= calls[c].at

IInv == TypeOK /\ Ages /\ OneFetch /\ NotAsked /\ Numbered /\ InTime /\ Newer

-----------------------------------------------------------------------------
(* Types.                                                                  *)

\* The fields of a request on its way are written one or a few at a time.
LEMMA CallEdits ==
  ASSUME NEW call \in Call
  PROVE  /\ \A s \in {"sent", "reading", "waiting", "ok", "failed"} : [call EXCEPT !.stage = s] \in Call
         /\ \A w \in {"panel", "other", "gone"} : [call EXCEPT !.who = w] \in Call
         /\ \A n \in Nat, a \in Nat \cup {-1} :
              [call EXCEPT !.stage = "ok", !.n = n, !.at = a] \in Call
         /\ \A l \in Seq(Nat) : [call EXCEPT !.stage = "ok", !.list = l] \in Call
<1>1. \A s \in {"sent", "reading", "waiting", "ok", "failed"} : [call EXCEPT !.stage = s] \in Call
  BY DEF Call
<1>2. \A w \in {"panel", "other", "gone"} : [call EXCEPT !.who = w] \in Call
  BY DEF Call
<1>3. \A n \in Nat, a \in Nat \cup {-1} : [call EXCEPT !.stage = "ok", !.n = n, !.at = a] \in Call
  BY DEF Call
<1>4. \A l \in Seq(Nat) : [call EXCEPT !.stage = "ok", !.list = l] \in Call
  BY DEF Call
<1> QED BY <1>1, <1>2, <1>3, <1>4

\* A request as it is sent has a type.
LEMMA Requests ==
  ASSUME NEW what \in {"stats", "history"}, NEW who \in {"panel", "other", "gone"},
         NEW r \in {"1h", "6h"}
  PROVE  Request(what, who, r) \in Call
BY DEF Request, Call

\* metrics_history stays a list of readings whatever is deleted from it and whatever is selected.
LEMMA Tables ==
  ASSUME rows \in Seq(Nat)
  PROVE  /\ Pruned \subseteq Seq(Nat)
         /\ \A table \in Seq(Nat) : Newest(table) \in Seq(Nat)
<1>1. ASSUME NEW i \in 1..(Len(rows) + 1) PROVE SubSeq(rows, i, Len(rows)) \in Seq(Nat)
  BY <1>1, SubSeqProperties, LenProperties
<1>2. ASSUME NEW table \in Seq(Nat) PROVE Newest(table) \in Seq(Nat)
  BY <1>2, StatsAssumption, SubSeqProperties, LenProperties DEF Newest
<1> QED BY <1>1, <1>2 DEF Pruned

\* The agent's variables keep their types in every step of the agent and of the routes.
LEMMA AgentTypes ==
  ASSUME AgentType
  PROVE  /\ AgentRestarts => AgentType'
         /\ Tick => AgentType'
         /\ \A c \in Calls : Collected(c) => AgentType'
         /\ \A c \in Calls : UNCHANGED <<now, kind, cache>> /\ req' = [req EXCEPT ![c] = GetMetrics] => AgentType'
         /\ \A c \in Calls : UNCHANGED <<now, kind, cache>> /\ req' = [req EXCEPT ![c] = NULL] => AgentType'
         /\ UNCHANGED agent => AgentType'
<1> USE DEF AgentType
<1>1. AgentRestarts => AgentType'
  BY DEF AgentRestarts, InStage
<1>2. Tick => AgentType'
  BY DEF Tick
<1>3. ASSUME NEW c \in Calls, Collected(c) PROVE AgentType'
  <2>1. req[c] \in AgentRequest /\ req[c].at \in Nat
    BY <1>3 DEF Collected, InStage, AgentRequest
  <2>2. Answer(req[c].at) \in AgentRequest
    BY <2>1 DEF Answer, AgentRequest
  <2>3. cache' \in [at : Nat, updated : Nat]
    BY <1>3, <2>1 DEF Collected, GoStamp, NodeStamp
  <2> QED BY <1>3, <2>2, <2>3 DEF Collected
<1>4. ASSUME NEW c \in Calls, UNCHANGED <<now, kind, cache>>, req' = [req EXCEPT ![c] = GetMetrics]
      PROVE AgentType'
  <2>1. CASE Cached
    <3>1. cache.at \in Nat BY <2>1 DEF Cached
    <3>2. GetMetrics \in AgentRequest BY <2>1, <3>1 DEF GetMetrics, Answer, AgentRequest
    <3> QED BY <1>4, <3>2
  <2>2. CASE ~Cached
    <3>2. GetMetrics \in AgentRequest BY <2>2 DEF GetMetrics, AgentRequest
    <3> QED BY <1>4, <3>2
  <2> QED BY <2>1, <2>2
<1>5. ASSUME NEW c \in Calls, UNCHANGED <<now, kind, cache>>, req' = [req EXCEPT ![c] = NULL]
      PROVE AgentType'
  BY <1>5
<1>6. UNCHANGED agent => AgentType'
  BY DEF agent
<1> QED BY <1>1, <1>2, <1>3, <1>4, <1>5, <1>6

\* A route takes the agent's answer out of its slot, or leaves a collection to go on in it.
LEMMA HeardAgent ==
  ASSUME AgentType, NEW c \in Calls, Hears(c)
  PROVE  /\ UNCHANGED <<now, kind, cache>>
         /\ req' = req \/ req' = [req EXCEPT ![c] = NULL]
         /\ InStage(c, "answered") => req' = [req EXCEPT ![c] = NULL]
BY DEF Hears, AgentType

\* What the agent gave a route is a time, or nothing.
LEMMA ReadingTypes ==
  ASSUME AgentType, NEW c \in Calls
  PROVE  AgentReading(c) \in Nat \cup {-1}
BY DEF AgentType, AgentReading, InStage, AgentRequest

\* What Send does, whichever slot it takes.
LEMMA Sent ==
  ASSUME RouteType, NEW call \in Call, Send(call)
  PROVE  \E c \in Calls : c \in Spare /\ calls' = [calls EXCEPT ![c] = call]
<1> DEFINE e == CHOOSE c \in Spare : TRUE
<1>1. Spare # {} /\ calls' = [calls EXCEPT ![e] = call]
  BY DEF Send
<1>2. e \in Spare
  BY <1>1
<1> QED BY <1>1, <1>2 DEF Spare

\* The window opens with two requests in slots of their own.
LEMMA Opened ==
  ASSUME RouteType, Mount
  PROVE  \E c, d \in Spare :
           /\ c # d
           /\ calls' = [calls EXCEPT ![c] = Request("stats", "panel", "1h"),
                                     ![d] = Request("history", "panel", "1h")]
<1> DEFINE e == CHOOSE c \in Spare : TRUE
           f == CHOOSE d \in Spare \ {e} : TRUE
<1>1. Cardinality(Spare) > 1 /\ calls' = [calls EXCEPT ![e] = Request("stats", "panel", "1h"),
                                                     ![f] = Request("history", "panel", "1h")]
  BY DEF Mount
<1>2. Spare # {}
  BY <1>1, FS_EmptySet
<1>3. e \in Spare
  BY <1>2
<1>4. Spare # {e}
  <2>1. SUFFICES ASSUME Spare = {e} PROVE FALSE
    OBVIOUS
  <2>2. Cardinality({e}) = 1
    BY FS_Singleton
  <2>3. Cardinality(Spare) = 1
    BY <2>1, <2>2
  <2> QED BY <2>3, <1>1
<1>5. Spare \ {e} # {}
  BY <1>3, <1>4
<1>6. f \in Spare \ {e}
  BY <1>5
<1> HIDE DEF e, f
<1> QED BY <1>1, <1>3, <1>6

\* Closing the window changes who hears the answers.
LEMMA Closed ==
  ASSUME RouteType, Unmount
  PROVE  /\ calls' \in [Calls -> {NULL} \cup Call]
         /\ \A c \in Calls : calls'[c] = calls[c] \/ calls'[c] = [calls[c] EXCEPT !.who = "gone"]
         /\ \A c \in Calls : ~Fetches(c)'
<1>1. \A c \in Calls : calls'[c] = IF calls[c] = NULL \/ calls[c].who = "other" THEN calls[c]
                                    ELSE [calls[c] EXCEPT !.who = "gone"]
  BY DEF Unmount
<1>2. ASSUME NEW c \in Calls PROVE calls'[c] \in {NULL} \cup Call /\ ~Fetches(c)'
  <2>1. CASE calls[c] = NULL
    BY <2>1, <1>1 DEF Fetches
  <2>2. CASE calls[c] # NULL
    <3>1. calls[c] \in Call
      BY <2>2 DEF RouteType
    <3>2. [calls[c] EXCEPT !.who = "gone"] \in Call
      BY <3>1, CallEdits
    <3>3. [calls[c] EXCEPT !.who = "gone"].who = "gone"
      BY <3>1 DEF Call
    <3>4. CASE calls[c].who = "other"
      BY <1>1, <3>1, <3>4 DEF Fetches
    <3>5. CASE calls[c].who # "other"
      BY <1>1, <2>2, <3>2, <3>3, <3>5 DEF Fetches
    <3> QED BY <3>4, <3>5
  <2> QED BY <2>1, <2>2
<1>3. calls' = [c \in Calls |-> calls'[c]]
  BY DEF Unmount
<1> QED BY <1>1, <1>2, <1>3

\* What the panel sends, and the other panels.
LEMMA SendTypes ==
  ASSUME RouteType, NEW call \in Call, Send(call), UNCHANGED <<rows, reads>>
  PROVE  RouteType'
<1>1. PICK c \in Calls : calls' = [calls EXCEPT ![c] = call]
  BY Sent
<1> QED BY <1>1 DEF RouteType

\* A route's own steps leave its calls and its table in their types.
LEMMA RouteTypes ==
  ASSUME AgentType, RouteType, NEW c \in Calls, Serve(c) \/ Fail(c)
  PROVE  AgentType' /\ RouteType'
<1> USE DEF RouteType
<1>0. calls[c] # NULL => calls[c] \in Call
  OBVIOUS
<1>1. CASE ReadContainers(c)
  <2>1. calls' = [calls EXCEPT ![c] = [calls[c] EXCEPT !.stage = "reading"]] /\ UNCHANGED <<agent, rows, reads>>
    BY <1>1 DEF ReadContainers
  <2>2. [calls[c] EXCEPT !.stage = "reading"] \in Call
    BY <1>0, <1>1, CallEdits DEF ReadContainers, At
  <2> QED BY <2>1, <2>2, AgentTypes
<1>2. CASE ReadHost(c)
  <2>1. calls' = [calls EXCEPT ![c] = [calls[c] EXCEPT !.stage = "waiting"]] /\ UNCHANGED <<rows, reads>>
    BY <1>2 DEF ReadHost
  <2>2. [calls[c] EXCEPT !.stage = "waiting"] \in Call
    BY <1>0, <1>2, CallEdits DEF ReadHost, At
  <2>3. UNCHANGED <<now, kind, cache>> /\ (req' = [req EXCEPT ![c] = GetMetrics] \/ UNCHANGED agent)
    BY <1>2 DEF ReadHost, agent
  <2>4. AgentType'
    BY <2>3, AgentTypes
  <2> QED BY <2>1, <2>2, <2>4
<1>3. CASE MergeAndStore(c)
  <2>0. PICK at \in {AgentReading(c), -1} :
          calls' = Answered(c, [calls[c] EXCEPT !.stage = "ok", !.n = reads + 1, !.at = at])
    BY <1>3 DEF MergeAndStore
  <2> DEFINE call == [calls[c] EXCEPT !.stage = "ok", !.n = reads + 1, !.at = at]
  <2>1. calls' = Answered(c, call) /\ reads' = reads + 1
    BY <1>3, <2>0 DEF MergeAndStore
  <2>2. call \in Call
    <3>1. calls[c] \in Call
      BY <1>0, <1>3 DEF MergeAndStore, Hears, At
    <3>2. at \in Nat \cup {-1} /\ reads + 1 \in Nat
      BY ReadingTypes, <2>0
    <3> QED BY <3>1, <3>2, CallEdits
  <2>3. rows' \in Seq(Nat)
    <3>1. CASE rows' = rows
      BY <3>1
    <3>2. CASE \E kept \in Pruned : rows' = Append(kept, reads + 1)
      <4>1. PICK kept \in Pruned : rows' = Append(kept, reads + 1)
        BY <3>2
      <4>2. kept \in Seq(Nat) /\ reads + 1 \in Nat
        BY Tables
      <4> QED BY <4>1, <4>2, AppendProperties
    <3> QED BY <1>3, <3>1, <3>2 DEF MergeAndStore
  <2>4. AgentType'
    BY <1>3, HeardAgent, AgentTypes DEF MergeAndStore, agent
  <2> HIDE DEF call
  <2> QED BY <2>1, <2>2, <2>3, <2>4 DEF Answered
<1>4. CASE AnswerDropped(c)
  <2>1. UNCHANGED <<now, kind, cache, calls, rows, reads>> /\ req' = [req EXCEPT ![c] = NULL]
    BY <1>4 DEF AnswerDropped
  <2> QED BY <2>1, AgentTypes
<1>5. CASE ServeHistory(c)
  <2> DEFINE call == [calls[c] EXCEPT !.stage = "ok", !.list = Newest(rows')]
  <2>1. calls' = [calls EXCEPT ![c] = call] /\ UNCHANGED <<agent, reads>>
    BY <1>5 DEF ServeHistory
  <2>2. rows' \in Seq(Nat) /\ Newest(rows') \in Seq(Nat)
    BY <1>5, Tables DEF ServeHistory
  <2>3. call \in Call
    BY <1>0, <1>5, <2>2, CallEdits DEF ServeHistory, At
  <2> HIDE DEF call
  <2> QED BY <2>1, <2>2, <2>3, AgentTypes
<1>6. CASE DockerFails(c)
  <2> DEFINE call == [calls[c] EXCEPT !.stage = "failed"]
  <2>1. calls' = Answered(c, call) /\ UNCHANGED <<agent, rows, reads>>
    BY <1>6 DEF DockerFails
  <2>2. call \in Call
    BY <1>0, <1>6, CallEdits DEF DockerFails, At
  <2> HIDE DEF call
  <2> QED BY <2>1, <2>2, AgentTypes DEF Answered
<1>7. CASE HistoryFails(c)
  BY <1>7, AgentTypes DEF HistoryFails
<1>8. CASE HealthFails(c)
  <2> DEFINE call == [calls[c] EXCEPT !.stage = "failed"]
  <2>1. calls' = Answered(c, call) /\ rows' = rows /\ reads' = reads + 1
    BY <1>8 DEF HealthFails
  <2>2. call \in Call
    BY <1>0, <1>8, CallEdits DEF HealthFails, Hears, At
  <2>3. AgentType'
    BY <1>8, HeardAgent, AgentTypes DEF HealthFails, agent
  <2> HIDE DEF call
  <2> QED BY <2>1, <2>2, <2>3 DEF Answered
<1> QED BY <1>1, <1>2, <1>3, <1>4, <1>5, <1>6, <1>7, <1>8 DEF Serve, Fail

\* A reading is shown, and one that nobody shows goes into the copies; a history goes wherever
\* its range is shown.
LEMMA ArrivalTypes ==
  ASSUME TypeOK, NEW c \in Calls, StatsArrive(c) \/ HistoryArrives(c)
  PROVE  TypeOK'
<1> USE DEF TypeOK
<1>0. calls[c] \in Call
  BY DEF StatsArrive, HistoryArrives, At, RouteType
<1>1. UNCHANGED <<agent, rows, reads>> /\ calls' = [calls EXCEPT ![c] = NULL]
  BY DEF StatsArrive, HistoryArrives, Gone
<1>2. AgentType' /\ RouteType'
  BY <1>1, AgentTypes DEF RouteType
<1>3. CASE StatsArrive(c)
  <2> DEFINE s == [n |-> calls[c].n, at |-> calls[c].at]
  <2>1. s \in Reading /\ s.n \in Nat
    BY <1>0 DEF Call, Reading
  <2>2. \A l \in Seq(Nat) : Append(l, s.n) \in Seq(Nat)
    BY <2>1, AppendProperties
  <2>3. /\ shown' \in {s, shown} /\ chart' \in {Append(chart, s.n), chart}
        /\ cached' \in {[stats |-> s, chart |-> Append(cached.chart, s.n)], cached}
    BY <1>3 DEF StatsArrive
  <2> HIDE DEF s
  <2>4. shown' \in {NULL} \cup Reading /\ chart' \in Seq(Nat)
    BY <2>1, <2>2, <2>3 DEF PanelType
  <2>5. [stats |-> s, chart |-> Append(cached.chart, s.n)] \in [stats : {NULL} \cup Reading, chart : Seq(Nat)]
    BY <2>1, <2>2 DEF PanelType
  <2> QED BY <1>2, <2>3, <2>4, <2>5 DEF PanelType
<1>4. CASE HistoryArrives(c)
  <2>1. calls[c].list \in Seq(Nat)
    BY <1>0 DEF Call
  <2>2. shown' = shown /\ chart' \in {calls[c].list, chart} /\ cached' \in {[cached EXCEPT !.chart = calls[c].list], cached}
    BY <1>4 DEF HistoryArrives
  <2> QED BY <1>2, <2>1, <2>2 DEF PanelType
<1> QED BY <1>3, <1>4

\* Types are kept by every step.
LEMMA TypeStep ==
  ASSUME TypeOK, [Next]_vars
  PROVE  TypeOK'
<1> USE DEF TypeOK
<1>1. CASE Mount
  <2>1. PICK c \in Spare, d \in Spare :
           calls' = [calls EXCEPT ![c] = Request("stats", "panel", "1h"),
                                  ![d] = Request("history", "panel", "1h")]
    BY <1>1, Opened
  <2>2. RouteType'
    <3> DEFINE x == Request("stats", "panel", "1h")
               y == Request("history", "panel", "1h")
    <3>1. x \in Call /\ y \in Call
      BY Requests
    <3>2. UNCHANGED <<rows, reads>>
      BY <1>1 DEF Mount
    <3> HIDE DEF x, y
    <3>3. calls' \in [Calls -> {NULL} \cup Call]
      BY <2>1, <3>1 DEF RouteType, x, y
    <3> QED BY <3>2, <3>3 DEF RouteType
  <2>3. AgentType' /\ PanelType'
    BY <1>1, AgentTypes DEF Mount, PanelType
  <2> QED BY <2>2, <2>3
<1>2. CASE Unmount
  <2>1. RouteType'
    BY <1>2, Closed DEF Unmount, RouteType
  <2>2. AgentType' /\ PanelType'
    BY <1>2, AgentTypes DEF Unmount, PanelType
  <2> QED BY <2>1, <2>2
<1>3. CASE Poll
  BY <1>3, SendTypes, Requests, AgentTypes DEF Poll, PanelType
<1>4. CASE OtherPoll
  BY <1>4, SendTypes, Requests, AgentTypes DEF OtherPoll, PanelType, panel
<1>5. CASE AgentStep
  BY <1>5, AgentTypes DEF AgentStep, PanelType, RouteType, panel
<1>6. ASSUME NEW r \in {"1h", "6h"}, ChooseRange(r) PROVE TypeOK'
  BY <1>6, SendTypes, Requests, AgentTypes DEF ChooseRange, PanelType
<1>7. ASSUME NEW c \in Calls, Route(c) PROVE TypeOK'
  BY <1>7, RouteTypes DEF Route, PanelType, panel
<1>8. ASSUME NEW c \in Calls, StatsArrive(c) \/ HistoryArrives(c) PROVE TypeOK'
  BY <1>8, ArrivalTypes
<1>9. CASE UNCHANGED vars
  BY <1>9, AgentTypes DEF vars, stats, panel, agent, RouteType, PanelType
<1> QED BY <1>1, <1>2, <1>3, <1>4, <1>5, <1>6, <1>7, <1>8, <1>9 DEF Next

-----------------------------------------------------------------------------
(* Ages.                                                                   *)

\* What a step does to the agent.
LEMMA AgentEffects ==
  ASSUME TypeOK, [Next]_vars
  PROVE  \/ AgentRestarts \/ Tick \/ UNCHANGED agent
         \/ \E c \in Calls : Collected(c)
         \/ \E c \in Calls : UNCHANGED <<now, kind, cache>> /\ req' = [req EXCEPT ![c] = GetMetrics]
         \/ \E c \in Calls : UNCHANGED <<now, kind, cache>> /\ req' = [req EXCEPT ![c] = NULL]
<1>1. ASSUME NEW c \in Calls, Serve(c) \/ Fail(c)
      PROVE  \/ UNCHANGED agent
             \/ UNCHANGED <<now, kind, cache>> /\ req' = [req EXCEPT ![c] = GetMetrics]
             \/ UNCHANGED <<now, kind, cache>> /\ req' = [req EXCEPT ![c] = NULL]
  <2>1. CASE MergeAndStore(c) \/ HealthFails(c)
    BY <2>1, HeardAgent DEF MergeAndStore, HealthFails, TypeOK, agent
  <2>2. CASE ReadHost(c)
    BY <2>2 DEF ReadHost, agent
  <2>3. CASE AnswerDropped(c)
    BY <2>3 DEF AnswerDropped
  <2>4. CASE ReadContainers(c) \/ ServeHistory(c) \/ DockerFails(c) \/ HistoryFails(c)
    BY <2>4 DEF ReadContainers, ServeHistory, DockerFails, HistoryFails
  <2> QED BY <1>1, <2>1, <2>2, <2>3, <2>4 DEF Serve, Fail
<1>2. ASSUME NEW c \in Calls, StatsArrive(c) \/ HistoryArrives(c) PROVE UNCHANGED agent
  BY <1>2 DEF StatsArrive, HistoryArrives
<1>3. ASSUME Mount \/ Unmount \/ Poll \/ OtherPoll \/ \E r \in {"1h", "6h"} : ChooseRange(r)
      PROVE  UNCHANGED agent
  BY <1>3 DEF Mount, Unmount, Poll, OtherPoll, ChooseRange
<1>4. CASE AgentStep
  BY <1>4 DEF AgentStep
<1>5. CASE UNCHANGED vars
  BY <1>5 DEF vars, stats
<1> QED BY <1>1, <1>2, <1>3, <1>4, <1>5 DEF Next, Route

\* A collection is stamped by the clock of its end or of its beginning, and is not slower than
\* Slow when it ends.
LEMMA AgesStep ==
  ASSUME TypeOK, Ages, [Next]_vars
  PROVE  Ages'
<1> USE HostAgentAssumption
<1>0. \A c \in Calls : req[c] # NULL => req[c] \in AgentRequest /\ req[c].at \in Nat /\ req[c].age \in Int
  BY DEF TypeOK, AgentType, AgentRequest
<1>1. CASE AgentRestarts
  BY <1>1 DEF AgentRestarts, Ages, AnswersAreRecent, InStage
<1>2. CASE Tick
  BY <1>0, <1>2 DEF Tick, Ages, AnswersAreRecent, InStage, TypeOK, AgentType
<1>3. ASSUME NEW c \in Calls, Collected(c) PROVE Ages'
  <2>1. req[c].at <= now /\ now <= req[c].at + Slow /\ req[c].at \in Nat /\ now \in Nat
    BY <1>0, <1>3 DEF Collected, Ages, TypeOK, AgentType, InStage
  <2>2. /\ UNCHANGED <<now, kind>> /\ req' = [req EXCEPT ![c] = Answer(req[c].at)]
        /\ cache' = [at |-> req[c].at, updated |-> IF kind = "go" THEN now ELSE req[c].at]
    BY <1>3 DEF Collected, GoStamp, NodeStamp
  <2>3. \A d \in Calls : d # c => req'[d] = req[d]
    BY <2>2 DEF TypeOK, AgentType
  <2>4. req'[c].stage = "answered" /\ req'[c].age = now - req[c].at
    BY <2>2 DEF TypeOK, AgentType, Answer
  <2>5. (\A d \in Calls : InStage(d, "collecting") => req[d].at <= now /\ now <= req[d].at + Slow)'
    BY <2>2, <2>3, <2>4 DEF Ages, InStage
  <2>6. AnswersAreRecent'
    <3> SUFFICES ASSUME NEW d \in Calls, InStage(d, "answered")'
                 PROVE  IF kind = "go" THEN req'[d].age < Ttl + Slow
                                       ELSE req'[d].age < Ttl \/ req'[d].age <= Slow
      BY <2>2 DEF AnswersAreRecent
    <3>1. CASE d = c
      BY <2>1, <2>4, <3>1
    <3>2. CASE d # c
      BY <2>3, <3>2 DEF Ages, AnswersAreRecent, InStage
    <3> QED BY <3>1, <3>2
  <2> QED BY <2>1, <2>2, <2>5, <2>6 DEF Ages
<1>4. ASSUME NEW c \in Calls, UNCHANGED <<now, kind, cache>>, req' = [req EXCEPT ![c] = GetMetrics]
      PROVE  Ages'
  <2>1. \A d \in Calls : d # c => req'[d] = req[d]
    BY <1>4 DEF TypeOK, AgentType
  <2>2. req'[c] = GetMetrics /\ now \in Nat
    BY <1>4 DEF TypeOK, AgentType
  <2>3. CASE Cached
    <3>1. /\ cache # NULL /\ now - cache.updated < Ttl /\ cache.at \in Nat /\ cache.updated \in Nat
      BY <2>3 DEF Cached, TypeOK, AgentType
    <3>2. req'[c].stage = "answered" /\ req'[c].age = now - cache.at
      BY <2>2, <2>3 DEF GetMetrics, Answer
    <3>3. AnswersAreRecent'
      <4> SUFFICES ASSUME NEW d \in Calls, InStage(d, "answered")'
                   PROVE  IF kind = "go" THEN req'[d].age < Ttl + Slow
                                         ELSE req'[d].age < Ttl \/ req'[d].age <= Slow
        BY <1>4 DEF AnswersAreRecent
      <4>1. CASE d = c
        BY <2>2, <3>1, <3>2, <4>1 DEF Ages
      <4>2. CASE d # c
        BY <2>1, <4>2 DEF Ages, AnswersAreRecent, InStage
      <4> QED BY <4>1, <4>2
    <3>4. (\A d \in Calls : InStage(d, "collecting") => req[d].at <= now /\ now <= req[d].at + Slow)'
      BY <1>4, <2>1, <3>2 DEF Ages, InStage
    <3> QED BY <1>4, <3>3, <3>4 DEF Ages
  <2>4. CASE ~Cached
    <3>1. req'[c].stage = "collecting" /\ req'[c].at = now
      BY <2>2, <2>4 DEF GetMetrics
    <3>2. AnswersAreRecent'
      BY <1>4, <2>1, <3>1 DEF Ages, AnswersAreRecent, InStage
    <3>3. (\A d \in Calls : InStage(d, "collecting") => req[d].at <= now /\ now <= req[d].at + Slow)'
      BY <1>4, <2>1, <2>2, <3>1 DEF Ages, InStage
    <3> QED BY <1>4, <3>2, <3>3 DEF Ages
  <2> QED BY <2>3, <2>4
<1>5. ASSUME NEW c \in Calls, UNCHANGED <<now, kind, cache>>, req' = [req EXCEPT ![c] = NULL]
      PROVE  Ages'
  <2>1. \A d \in Calls : req'[d] = NULL \/ req'[d] = req[d]
    BY <1>5 DEF TypeOK, AgentType
  <2> QED BY <1>5, <2>1 DEF Ages, AnswersAreRecent, InStage
<1>6. CASE UNCHANGED agent
  BY <1>6 DEF agent, Ages, AnswersAreRecent, InStage
<1> QED BY <1>1, <1>2, <1>3, <1>4, <1>5, <1>6, AgentEffects

-----------------------------------------------------------------------------
(* What a step does to the calls.                                          *)

SameCall(c) == calls[c] # NULL /\ calls'[c].what = calls[c].what /\ calls'[c].who = calls[c].who
SameReading(c) == calls'[c].n = calls[c].n /\ calls'[c].at = calls[c].at

Finishes(c) ==
  /\ SameCall(c) /\ SameReading(c) /\ req' = req /\ calls[c].stage = "sent"
  /\ \/ calls'[c].stage \in {"reading", "failed"}
     \/ calls'[c].stage = "ok" /\ calls[c].what = "history"
Asks(c) ==
  /\ SameCall(c) /\ SameReading(c) /\ calls[c].stage = "reading" /\ calls'[c].stage = "waiting"
  /\ req'[c] \in {GetMetrics, req[c]} /\ reads' = reads
Merges(c) ==
  /\ SameCall(c) /\ calls[c].stage = "waiting" /\ calls'[c].stage = "ok"
  /\ calls'[c].n = reads + 1 /\ calls'[c].at \in {AgentReading(c), -1} /\ reads' = reads + 1
  /\ req'[c] \in {NULL, req[c]}
Breaks(c) ==
  /\ SameCall(c) /\ SameReading(c) /\ calls[c].stage = "waiting" /\ calls'[c].stage = "failed"
  /\ reads' = reads + 1 /\ req'[c] \in {NULL, req[c]}
Drops(c) == calls'[c] \in {NULL, calls[c]} /\ req'[c] \in {NULL, req[c]}

\* A step of a route moves one call on, or ends it.
LEMMA RouteEffects ==
  ASSUME TypeOK, NEW c \in Calls, Serve(c) \/ Fail(c)
  PROVE  /\ UNCHANGED <<now, kind, cache>> /\ reads' \in {reads, reads + 1}
         /\ \A d \in Calls : d # c => calls'[d] = calls[d] /\ req'[d] = req[d]
         /\ Finishes(c) \/ Asks(c) \/ Merges(c) \/ Breaks(c) \/ Drops(c)
<1> USE DEF TypeOK, AgentType, RouteType
<1>0. calls[c] # NULL => calls[c] \in Call
  OBVIOUS
<1>1. CASE ReadContainers(c)
  <2>1. calls' = [calls EXCEPT ![c] = [calls[c] EXCEPT !.stage = "reading"]] /\ UNCHANGED <<agent, rows, reads>>
    BY <1>1 DEF ReadContainers
  <2>2. calls[c] \in Call /\ calls[c] # NULL /\ calls[c].stage = "sent"
    BY <1>0, <1>1 DEF ReadContainers, At
  <2>3. calls'[c] = [calls[c] EXCEPT !.stage = "reading"]
    BY <2>1
  <2>4. SameCall(c) /\ SameReading(c) /\ calls'[c].stage = "reading"
    BY <2>2, <2>3 DEF SameCall, SameReading, Call
  <2>5. \A d \in Calls : d # c => calls'[d] = calls[d]
    BY <2>1
  <2>6. UNCHANGED <<now, kind, cache, req>>
    BY <2>1 DEF agent
  <2>7. Finishes(c)
    BY <2>2, <2>4, <2>6 DEF Finishes
  <2> QED BY <2>1, <2>5, <2>6, <2>7
<1>2. CASE ReadHost(c)
  <2>1. calls' = [calls EXCEPT ![c] = [calls[c] EXCEPT !.stage = "waiting"]] /\ UNCHANGED <<now, kind, cache, rows, reads>>
    BY <1>2 DEF ReadHost
  <2>2. calls[c] \in Call /\ calls[c] # NULL /\ calls[c].stage = "reading"
    BY <1>0, <1>2 DEF ReadHost, At
  <2>3. calls'[c] = [calls[c] EXCEPT !.stage = "waiting"]
    BY <2>1
  <2>4. SameCall(c) /\ SameReading(c) /\ calls'[c].stage = "waiting"
    BY <2>2, <2>3 DEF SameCall, SameReading, Call
  <2>5. req'[c] \in {GetMetrics, req[c]} /\ \A d \in Calls : d # c => req'[d] = req[d]
    BY <1>2 DEF ReadHost
  <2> QED BY <2>1, <2>2, <2>4, <2>5 DEF Asks
<1>3. CASE MergeAndStore(c)
  <2>0. PICK at \in {AgentReading(c), -1} :
          calls' = Answered(c, [calls[c] EXCEPT !.stage = "ok", !.n = reads + 1, !.at = at])
    BY <1>3 DEF MergeAndStore
  <2> DEFINE call == [calls[c] EXCEPT !.stage = "ok", !.n = reads + 1, !.at = at]
  <2>1. calls' = Answered(c, call) /\ reads' = reads + 1
    BY <1>3, <2>0 DEF MergeAndStore
  <2>2. calls[c] \in Call /\ calls[c] # NULL /\ calls[c].stage = "waiting"
    BY <1>0, <1>3 DEF MergeAndStore, Hears, At
  <2>3. /\ call.what = calls[c].what /\ call.who = calls[c].who /\ call.stage = "ok"
        /\ call.n = reads + 1 /\ call.at \in {AgentReading(c), -1}
    BY <2>0, <2>2 DEF Call
  <2>4. UNCHANGED <<now, kind, cache>> /\ req'[c] \in {NULL, req[c]} /\ \A d \in Calls : d # c => req'[d] = req[d]
    BY <1>3, HeardAgent DEF MergeAndStore
  <2> HIDE DEF call
  <2>5. \A d \in Calls : d # c => calls'[d] = calls[d]
    BY <2>1 DEF Answered
  <2>6. CASE call.who = "other"
    BY <2>1, <2>4, <2>5, <2>6 DEF Answered, Drops
  <2>7. CASE call.who # "other"
    <3>1. calls'[c] = call
      BY <2>1, <2>7 DEF Answered
    <3>2. Merges(c)
      BY <2>1, <2>2, <2>3, <2>4, <3>1 DEF Merges, SameCall
    <3> QED BY <2>1, <2>4, <2>5, <3>2
  <2> QED BY <2>6, <2>7
<1>4. CASE AnswerDropped(c)
  BY <1>4 DEF AnswerDropped, Drops
<1>5. CASE ServeHistory(c)
  <2> DEFINE call == [calls[c] EXCEPT !.stage = "ok", !.list = Newest(rows')]
  <2>1. calls' = [calls EXCEPT ![c] = call] /\ UNCHANGED <<agent, reads>>
    BY <1>5 DEF ServeHistory
  <2>2. calls[c] \in Call /\ calls[c] # NULL /\ calls[c].stage = "sent" /\ calls[c].what = "history"
    BY <1>0, <1>5 DEF ServeHistory, At
  <2>3. /\ call.what = calls[c].what /\ call.who = calls[c].who /\ call.stage = "ok"
        /\ call.n = calls[c].n /\ call.at = calls[c].at
    BY <2>2 DEF Call
  <2> HIDE DEF call
  <2>4. calls'[c] = call
    BY <2>1
  <2> QED BY <2>1, <2>2, <2>3, <2>4 DEF Finishes, SameCall, SameReading, agent
<1>6. CASE DockerFails(c)
  <2> DEFINE call == [calls[c] EXCEPT !.stage = "failed"]
  <2>1. calls' = Answered(c, call) /\ UNCHANGED <<agent, rows, reads>>
    BY <1>6 DEF DockerFails
  <2>2. calls[c] \in Call /\ calls[c] # NULL /\ calls[c].stage = "sent"
    BY <1>0, <1>6 DEF DockerFails, At
  <2>3. /\ call.what = calls[c].what /\ call.who = calls[c].who /\ call.stage = "failed"
        /\ call.n = calls[c].n /\ call.at = calls[c].at
    BY <2>2 DEF Call
  <2> HIDE DEF call
  <2>4. calls'[c] \in {NULL, call} /\ \A d \in Calls : d # c => calls'[d] = calls[d]
    BY <2>1 DEF Answered
  <2>5. CASE calls'[c] = NULL
    BY <2>1, <2>4, <2>5 DEF Drops, agent
  <2>6. CASE calls'[c] = call
    <3>1. UNCHANGED <<now, kind, cache, req>>
      BY <2>1 DEF agent
    <3>2. Finishes(c)
      BY <2>2, <2>3, <2>6, <3>1 DEF Finishes, SameCall, SameReading
    <3> QED BY <2>1, <2>4, <3>1, <3>2
  <2> QED BY <2>4, <2>5, <2>6
<1>7. CASE HistoryFails(c)
  BY <1>7 DEF HistoryFails, Drops, agent
<1>8. CASE HealthFails(c)
  <2> DEFINE call == [calls[c] EXCEPT !.stage = "failed"]
  <2>1. calls' = Answered(c, call) /\ rows' = rows /\ reads' = reads + 1
    BY <1>8 DEF HealthFails
  <2>2. calls[c] \in Call /\ calls[c] # NULL /\ calls[c].stage = "waiting"
    BY <1>0, <1>8 DEF HealthFails, Hears, At
  <2>3. /\ call.what = calls[c].what /\ call.who = calls[c].who /\ call.stage = "failed"
        /\ call.n = calls[c].n /\ call.at = calls[c].at
    BY <2>2 DEF Call
  <2>4. /\ UNCHANGED <<now, kind, cache>> /\ req'[c] \in {NULL, req[c]}
        /\ \A d \in Calls : d # c => req'[d] = req[d]
    BY <1>8, HeardAgent DEF HealthFails
  <2> HIDE DEF call
  <2>5. calls'[c] \in {NULL, call} /\ \A d \in Calls : d # c => calls'[d] = calls[d]
    BY <2>1 DEF Answered
  <2>6. Breaks(c) \/ Drops(c)
    BY <2>1, <2>2, <2>3, <2>4, <2>5 DEF Breaks, Drops, SameCall, SameReading
  <2> QED BY <2>1, <2>4, <2>5, <2>6
<1> QED BY <1>1, <1>2, <1>3, <1>4, <1>5, <1>6, <1>7, <1>8 DEF Serve, Fail

Fresh(c) == calls'[c].stage = "sent" /\ calls'[c].n = 0 /\ calls'[c].at = -1 /\ req[c] = NULL

\* What the window and the other panels send is new, in slots that were free.
LEMMA SendEffects ==
  ASSUME TypeOK, Mount \/ Poll \/ OtherPoll \/ \E r \in {"1h", "6h"} : ChooseRange(r)
  PROVE  /\ UNCHANGED <<agent, rows, reads, overlapped>>
         /\ \A c \in Calls : calls'[c] = calls[c] \/ Fresh(c)
<1>1. \A what, who, r :
        /\ Request(what, who, r).stage = "sent" /\ Request(what, who, r).n = 0
        /\ Request(what, who, r).at = -1
  BY DEF Request
<1>2. ASSUME NEW call \in Call, Send(call), call.stage = "sent", call.n = 0, call.at = -1
      PROVE  \A c \in Calls : calls'[c] = calls[c] \/ Fresh(c)
  <2>1. PICK e \in Calls : e \in Spare /\ calls' = [calls EXCEPT ![e] = call]
    BY <1>2, Sent DEF TypeOK
  <2>2. req[e] = NULL
    BY <2>1 DEF Spare
  <2> QED BY <1>2, <2>1, <2>2 DEF Fresh, TypeOK, RouteType
<1>3. CASE Mount
  <2>1. PICK c \in Spare, d \in Spare :
           calls' = [calls EXCEPT ![c] = Request("stats", "panel", "1h"),
                                  ![d] = Request("history", "panel", "1h")]
    BY <1>3, Opened DEF TypeOK
  <2>2. \A e \in Calls :
          \/ calls'[e] = calls[e]
          \/ /\ e \in {c, d}
             /\ calls'[e] \in {Request("stats", "panel", "1h"), Request("history", "panel", "1h")}
    BY <2>1 DEF TypeOK, RouteType, Spare
  <2>3. \A e \in {c, d} : req[e] = NULL
    BY <2>1 DEF Spare
  <2> QED BY <1>1, <1>3, <2>2, <2>3 DEF Mount, Fresh
<1>4. CASE Poll
  BY <1>1, <1>2, <1>4, Requests DEF Poll
<1>5. CASE OtherPoll
  BY <1>1, <1>2, <1>5, Requests DEF OtherPoll
<1>6. ASSUME NEW r \in {"1h", "6h"}, ChooseRange(r)
      PROVE  /\ UNCHANGED <<agent, rows, reads, overlapped>>
             /\ \A c \in Calls : calls'[c] = calls[c] \/ Fresh(c)
  BY <1>1, <1>2, <1>6, Requests DEF ChooseRange
<1> QED BY <1>3, <1>4, <1>5, <1>6

\* No step of a route makes a call of somebody else the panel's.
LEMMA CallMoves ==
  ASSUME TypeOK, NEW c \in Calls, Finishes(c) \/ Asks(c) \/ Merges(c) \/ Breaks(c) \/ Drops(c)
  PROVE  Fetches(c)' => Fetches(c)
BY DEF Finishes, Asks, Merges, Breaks, Drops, SameCall, Fetches

\* isFetching keeps the interval from asking a second time; closing the window leaves nobody to
\* hear the answer.
LEMMA FetchStep ==
  ASSUME TypeOK, OneFetch, [Next]_vars
  PROVE  OneFetch'
<1>1. CASE Mount
  <2>1. \A e \in Calls : ~Fetches(e)
    BY <1>1 DEF OneFetch, Mount
  <2>2. PICK c \in Spare, d \in Spare :
          /\ c # d
          /\ calls' = [calls EXCEPT ![c] = Request("stats", "panel", "1h"),
                                    ![d] = Request("history", "panel", "1h")]
    BY <1>1, Opened DEF TypeOK
  <2>3. Request("history", "panel", "1h").what = "history"
    BY DEF Request
  <2>4. \A e \in Calls : e # c => ~Fetches(e)'
    BY <2>1, <2>2, <2>3 DEF Fetches, TypeOK, RouteType, Spare
  <2>5. mounted' /\ isFetching'
    BY <1>1 DEF Mount
  <2> QED BY <2>2, <2>4, <2>5 DEF OneFetch
<1>2. CASE Unmount
  BY <1>2, Closed DEF TypeOK, OneFetch
<1>3. CASE Poll
  <2>1. \A e \in Calls : ~Fetches(e)
    BY <1>3 DEF OneFetch, Poll, MayFetch
  <2>2. PICK c \in Calls : calls' = [calls EXCEPT ![c] = Request("stats", "panel", "1h")]
    BY <1>3, Sent, Requests DEF Poll, TypeOK
  <2>3. \A e \in Calls : e # c => ~Fetches(e)'
    BY <2>1, <2>2 DEF Fetches, TypeOK, RouteType
  <2>4. mounted' /\ isFetching'
    BY <1>3 DEF Poll
  <2> QED BY <2>2, <2>3, <2>4 DEF OneFetch
<1>4. ASSUME NEW call \in Call, Send(call), call.what # "stats" \/ call.who # "panel",
             UNCHANGED <<mounted, isFetching>>
      PROVE  OneFetch'
  <2>1. PICK c \in Calls : calls' = [calls EXCEPT ![c] = call]
    BY <1>4, Sent DEF TypeOK
  <2>2. \A e \in Calls : Fetches(e)' => Fetches(e)
    BY <1>4, <2>1 DEF Fetches, TypeOK, RouteType
  <2> QED BY <1>4, <2>2 DEF OneFetch
<1>5. CASE OtherPoll
  <2>1. Request("stats", "other", "1h").who = "other"
    BY DEF Request
  <2> QED BY <1>4, <1>5, <2>1, Requests DEF OtherPoll, panel
<1>6. ASSUME NEW r \in {"1h", "6h"}, ChooseRange(r) PROVE OneFetch'
  <2>1. Request("history", "panel", r).what = "history"
    BY DEF Request
  <2> QED BY <1>4, <1>6, <2>1, Requests DEF ChooseRange
<1>7. CASE AgentStep
  BY <1>7 DEF AgentStep, OneFetch, Fetches, panel
<1>8. ASSUME NEW c \in Calls, Route(c) PROVE OneFetch'
  <2>1. \A e \in Calls : Fetches(e)' => Fetches(e)
    <3>1. \A e \in Calls : e # c => calls'[e] = calls[e]
      BY <1>8, RouteEffects DEF Route
    <3>2. Fetches(c)' => Fetches(c)
      BY <1>8, RouteEffects, CallMoves DEF Route
    <3> QED BY <3>1, <3>2 DEF Fetches
  <2>2. UNCHANGED <<mounted, isFetching>>
    BY <1>8 DEF Route, panel
  <2> QED BY <2>1, <2>2 DEF OneFetch
<1>9. ASSUME NEW c \in Calls, StatsArrive(c) PROVE OneFetch'
  <2>1. calls' = [calls EXCEPT ![c] = NULL] /\ mounted' = mounted
    BY <1>9 DEF StatsArrive, Gone
  <2>2. \A e \in Calls : Fetches(e)' => e # c /\ Fetches(e)
    BY <2>1 DEF Fetches, TypeOK, RouteType
  <2>3. calls[c] # NULL /\ calls[c].what = "stats"
    BY <1>9 DEF StatsArrive, At
  <2>4. CASE Heard(c)
    BY <2>2, <2>3, <2>4 DEF Heard, OneFetch, Fetches
  <2>5. CASE ~Heard(c)
    <3>1. isFetching => isFetching'
      BY <1>9, <2>5 DEF StatsArrive
    <3> QED BY <2>1, <2>2, <3>1 DEF OneFetch
  <2> QED BY <2>4, <2>5
<1>10. ASSUME NEW c \in Calls, HistoryArrives(c) PROVE OneFetch'
  <2>1. calls' = [calls EXCEPT ![c] = NULL] /\ UNCHANGED <<mounted, isFetching>>
    BY <1>10 DEF HistoryArrives, Gone
  <2>2. \A e \in Calls : Fetches(e)' => Fetches(e)
    BY <2>1 DEF Fetches, TypeOK, RouteType
  <2> QED BY <2>1, <2>2 DEF OneFetch
<1>11. CASE UNCHANGED vars
  BY <1>11 DEF vars, stats, panel, OneFetch, Fetches
<1> QED BY <1>1, <1>2, <1>3, <1>5, <1>6, <1>7, <1>8, <1>9, <1>10, <1>11 DEF Next

\* ReadHost is the first to ask, and takes only a slot that nothing is in; an answer to a route
\* that gave up is dropped before its slot is taken again.
LEMMA NotAskedStep ==
  ASSUME TypeOK, NotAsked, [Next]_vars
  PROVE  NotAsked'
<1>0. \A c \in Calls : calls[c] # NULL => calls[c] \in Call
  BY DEF TypeOK, RouteType
<1>1. CASE Mount \/ Poll \/ OtherPoll \/ \E r \in {"1h", "6h"} : ChooseRange(r)
  <2>1. req' = req
    BY <1>1, SendEffects DEF agent
  <2> QED BY <1>1, <2>1, SendEffects DEF NotAsked, Fresh
<1>2. CASE Unmount
  <2>1. \A c \in Calls : calls[c] \in Call => [calls[c] EXCEPT !.who = "gone"].stage = calls[c].stage
    BY DEF Call
  <2>2. \A c \in Calls : calls'[c] = calls[c] \/ (calls[c] # NULL /\ calls'[c] = [calls[c] EXCEPT !.who = "gone"])
    BY <1>2 DEF Unmount
  <2>3. req' = req
    BY <1>2 DEF Unmount, agent
  <2> QED BY <1>0, <2>1, <2>2, <2>3 DEF NotAsked
<1>3. CASE AgentStep
  <2>1. calls' = calls
    BY <1>3 DEF AgentStep
  <2>2. \A c \in Calls : req[c] = NULL => req'[c] = NULL
    BY <1>3 DEF AgentStep, AgentRestarts, Tick, Collected, InStage, TypeOK, AgentType
  <2> QED BY <2>1, <2>2 DEF NotAsked
<1>4. ASSUME NEW c \in Calls, Route(c) PROVE NotAsked'
  <2>1. /\ \A d \in Calls : d # c => calls'[d] = calls[d] /\ req'[d] = req[d]
        /\ Finishes(c) \/ Asks(c) \/ Merges(c) \/ Breaks(c) \/ Drops(c)
    BY <1>4, RouteEffects DEF Route
  <2>2. calls'[c] # NULL /\ calls'[c].stage \in {"sent", "reading"} => req'[c] = NULL
    BY <2>1 DEF Finishes, Asks, Merges, Breaks, Drops, SameCall, NotAsked
  <2> QED BY <2>1, <2>2 DEF NotAsked
<1>5. ASSUME NEW c \in Calls, StatsArrive(c) \/ HistoryArrives(c) PROVE NotAsked'
  BY <1>5 DEF StatsArrive, HistoryArrives, Gone, agent, NotAsked, TypeOK, RouteType
<1>6. CASE UNCHANGED vars
  BY <1>6 DEF vars, stats, agent, NotAsked
<1> QED BY <1>1, <1>2, <1>3, <1>4, <1>5, <1>6 DEF Next

\* Readings are numbered by the request that puts them together; what is shown comes from an
\* answer or from a copy of one.
LEMMA NumberedStep ==
  ASSUME TypeOK, OneFetch, Numbered, [Next]_vars
  PROVE  Numbered'
<1>0. /\ \A c \in Calls : calls[c] # NULL => calls[c] \in Call /\ calls[c].n \in Nat
      /\ reads \in Nat
      /\ shown # NULL => shown.n \in Nat
      /\ cached.stats # NULL => cached.stats.n \in Nat
  BY DEF TypeOK, RouteType, PanelType, Call, Reading
<1>1. CASE Poll \/ OtherPoll \/ \E r \in {"1h", "6h"} : ChooseRange(r)
  <2>1. UNCHANGED <<reads, shown, cached>>
    BY <1>1 DEF Poll, OtherPoll, ChooseRange, panel
  <2>2. \A c \in Calls : calls'[c] = calls[c] \/ Fresh(c)
    BY <1>1, SendEffects
  <2>3. (\A c \in Calls : calls[c] # NULL => calls[c].n <= reads)'
    BY <1>0, <2>1, <2>2 DEF Numbered, Fresh
  <2>4. (\A c \in Calls : Fetches(c) /\ calls[c].stage = "ok" /\ shown # NULL => shown.n <= calls[c].n)'
    BY <2>1, <2>2 DEF Numbered, Fresh, Fetches
  <2> QED BY <2>1, <2>3, <2>4 DEF Numbered
<1>2. CASE Mount
  <2>1. reads' = reads /\ cached' = cached /\ shown' = cached.stats
    BY <1>2 DEF Mount
  <2>2. \A c \in Calls : calls'[c] = calls[c] \/ Fresh(c)
    BY <1>2, SendEffects
  <2>3. \A c \in Calls : ~Fetches(c)
    BY <1>2 DEF OneFetch, Mount
  <2>4. (\A c \in Calls : calls[c] # NULL => calls[c].n <= reads)'
    BY <1>0, <2>1, <2>2 DEF Numbered, Fresh
  <2>5. (\A c \in Calls : Fetches(c) /\ calls[c].stage = "ok" /\ shown # NULL => shown.n <= calls[c].n)'
    BY <2>2, <2>3 DEF Fresh, Fetches
  <2> QED BY <2>1, <2>4, <2>5 DEF Numbered
<1>3. CASE Unmount
  <2>1. reads' = reads /\ cached' = cached /\ shown' = NULL
    BY <1>3 DEF Unmount
  <2>2. \A c \in Calls : calls'[c] = calls[c] \/ (calls[c] # NULL /\ calls'[c] = [calls[c] EXCEPT !.who = "gone"])
    BY <1>3 DEF Unmount
  <2>3. \A call \in Call : [call EXCEPT !.who = "gone"].n = call.n
    BY DEF Call
  <2>4. (\A c \in Calls : calls[c] # NULL => calls[c].n <= reads)'
    <3> SUFFICES ASSUME NEW c \in Calls, calls'[c] # NULL PROVE calls'[c].n <= reads'
      OBVIOUS
    <3>1. CASE calls'[c] = calls[c]
      BY <2>1, <3>1 DEF Numbered
    <3>2. CASE calls[c] # NULL /\ calls'[c] = [calls[c] EXCEPT !.who = "gone"]
      <4>1. calls'[c].n = calls[c].n
        BY <1>0, <2>3, <3>2
      <4> QED BY <2>1, <3>2, <4>1 DEF Numbered
    <3> QED BY <2>2, <3>1, <3>2
  <2>5. \A c \in Calls : ~Fetches(c)'
    BY <1>3, Closed DEF TypeOK
  <2> QED BY <2>1, <2>4, <2>5 DEF Numbered
<1>4. CASE AgentStep
  BY <1>4 DEF AgentStep, panel, Numbered, Fetches
<1>5. ASSUME NEW c \in Calls, Route(c) PROVE Numbered'
  <2>1. /\ reads' \in {reads, reads + 1}
        /\ \A d \in Calls : d # c => calls'[d] = calls[d]
        /\ Finishes(c) \/ Asks(c) \/ Merges(c) \/ Breaks(c) \/ Drops(c)
    BY <1>5, RouteEffects DEF Route
  <2>2. shown' = shown /\ cached' = cached
    BY <1>5 DEF Route, panel
  <2>3. calls'[c] # NULL => calls'[c].n <= reads'
    BY <1>0, <2>1 DEF Finishes, Asks, Merges, Breaks, Drops, SameCall, SameReading, Numbered
  <2>4. Fetches(c)' /\ calls'[c].stage = "ok" /\ shown # NULL => shown.n <= calls'[c].n
    BY <1>0, <2>1 DEF Finishes, Asks, Merges, Breaks, Drops, SameCall, Numbered, Fetches
  <2>5. (\A d \in Calls : calls[d] # NULL => calls[d].n <= reads)'
    BY <1>0, <2>1, <2>3 DEF Numbered
  <2>6. (\A d \in Calls : Fetches(d) /\ calls[d].stage = "ok" /\ shown # NULL => shown.n <= calls[d].n)'
    BY <2>1, <2>2, <2>4 DEF Numbered, Fetches
  <2>7. (shown # NULL => shown.n <= reads)' /\ (cached.stats # NULL => cached.stats.n <= reads)'
    BY <1>0, <2>1, <2>2 DEF Numbered
  <2> QED BY <2>5, <2>6, <2>7 DEF Numbered
<1>6. ASSUME NEW c \in Calls, StatsArrive(c) PROVE Numbered'
  <2> DEFINE s == [n |-> calls[c].n, at |-> calls[c].at]
  <2>1. calls' = [calls EXCEPT ![c] = NULL] /\ reads' = reads
    BY <1>6 DEF StatsArrive, Gone
  <2>2. \A d \in Calls : calls'[d] = IF d = c THEN NULL ELSE calls[d]
    BY <2>1 DEF TypeOK, RouteType
  <2>3. calls[c] # NULL /\ calls[c].what = "stats" /\ s.n = calls[c].n
    BY <1>6 DEF StatsArrive, At
  <2>4. cached'.stats \in {s, cached.stats} /\ (shown' = shown \/ (shown' = s /\ Heard(c)))
    BY <1>6 DEF StatsArrive
  <2> HIDE DEF s
  <2>5. (\A d \in Calls : calls[d] # NULL => calls[d].n <= reads)'
    BY <2>1, <2>2 DEF Numbered
  <2>6. (shown # NULL => shown.n <= reads)' /\ (cached.stats # NULL => cached.stats.n <= reads)'
    BY <2>1, <2>3, <2>4 DEF Numbered
  <2>7. (\A d \in Calls : Fetches(d) /\ calls[d].stage = "ok" /\ shown # NULL => shown.n <= calls[d].n)'
    <3>1. CASE shown' = shown
      BY <2>2, <3>1 DEF Numbered, Fetches
    <3>2. CASE Heard(c)
      BY <2>2, <2>3, <3>2 DEF Heard, OneFetch, Fetches
    <3> QED BY <2>4, <3>1, <3>2
  <2> QED BY <2>5, <2>6, <2>7 DEF Numbered
<1>7. ASSUME NEW c \in Calls, HistoryArrives(c) PROVE Numbered'
  <2>1. calls' = [calls EXCEPT ![c] = NULL] /\ reads' = reads /\ shown' = shown
    BY <1>7 DEF HistoryArrives, Gone
  <2>2. cached'.stats = cached.stats
    BY <1>7 DEF HistoryArrives, TypeOK, PanelType
  <2>3. \A d \in Calls : calls'[d] = IF d = c THEN NULL ELSE calls[d]
    BY <2>1 DEF TypeOK, RouteType
  <2> QED BY <2>1, <2>2, <2>3 DEF Numbered, Fetches
<1>8. CASE UNCHANGED vars
  BY <1>8 DEF vars, stats, panel, Numbered, Fetches
<1> QED BY <1>1, <1>2, <1>3, <1>4, <1>5, <1>6, <1>7, <1>8 DEF Next

-----------------------------------------------------------------------------
(* Which reading is the latest.                                            *)

\* UpTo of the state after a step.
UpToAfter(t) ==
  /\ shown' # NULL => shown'.at <= t
  /\ cached'.stats # NULL => cached'.stats.at <= t
  /\ \A c \in Calls : (InStage(c, "answered")' => req'[c].at <= t) /\ (calls'[c] # NULL => calls'[c].at <= t)

\* A reading reaches a call from the agent's answer, and the panel and the copies from a call.
LEMMA UpToKept ==
  ASSUME TypeOK, [Next]_vars
  PROVE  \A t \in Nat :
           UpTo(t) /\ (\A c \in Calls : InStage(c, "answered")' => req'[c].at <= t) => UpToAfter(t)
<1> SUFFICES ASSUME NEW t \in Nat, UpTo(t), \A c \in Calls : InStage(c, "answered")' => req'[c].at <= t
             PROVE  UpToAfter(t)
  OBVIOUS
<1>0. \A c \in Calls : calls[c] # NULL => calls[c] \in Call
  BY DEF TypeOK, RouteType
<1>1. CASE Mount \/ Poll \/ OtherPoll \/ \E r \in {"1h", "6h"} : ChooseRange(r)
  <2>1. cached' = cached /\ shown' \in {shown, cached.stats}
    BY <1>1 DEF Mount, Poll, OtherPoll, ChooseRange, panel
  <2>2. \A c \in Calls : calls'[c] = calls[c] \/ Fresh(c)
    BY <1>1, SendEffects
  <2>3. \A c \in Calls : calls'[c] # NULL => calls'[c].at <= t
    BY <2>2 DEF UpTo, Fresh
  <2> QED BY <2>1, <2>3 DEF UpTo, UpToAfter
<1>2. CASE Unmount
  <2>1. cached' = cached /\ shown' = NULL
    BY <1>2 DEF Unmount
  <2>2. \A c \in Calls : calls'[c] = calls[c] \/ (calls[c] # NULL /\ calls'[c] = [calls[c] EXCEPT !.who = "gone"])
    BY <1>2 DEF Unmount
  <2>3. \A call \in Call : [call EXCEPT !.who = "gone"].at = call.at
    BY DEF Call
  <2>4. ASSUME NEW c \in Calls, calls'[c] # NULL PROVE calls'[c].at <= t
    <3>1. CASE calls'[c] = calls[c]
      BY <2>4, <3>1 DEF UpTo
    <3>2. CASE calls[c] # NULL /\ calls'[c] = [calls[c] EXCEPT !.who = "gone"]
      <4>1. calls'[c].at = calls[c].at
        BY <1>0, <2>3, <3>2
      <4> QED BY <3>2, <4>1 DEF UpTo
    <3> QED BY <2>2, <3>1, <3>2
  <2> QED BY <2>1, <2>4 DEF UpTo, UpToAfter
<1>3. CASE AgentStep
  BY <1>3 DEF AgentStep, panel, UpTo, UpToAfter
<1>4. ASSUME NEW c \in Calls, Route(c) PROVE UpToAfter(t)
  <2>1. /\ \A d \in Calls : d # c => calls'[d] = calls[d]
        /\ Finishes(c) \/ Asks(c) \/ Merges(c) \/ Breaks(c) \/ Drops(c)
    BY <1>4, RouteEffects DEF Route
  <2>2. shown' = shown /\ cached' = cached
    BY <1>4 DEF Route, panel
  <2>3. AgentReading(c) <= t
    BY DEF AgentReading, UpTo
  <2>4. calls'[c] # NULL => calls'[c].at <= t
    BY <2>1, <2>3 DEF Finishes, Asks, Merges, Breaks, Drops, SameCall, SameReading, UpTo
  <2> QED BY <2>1, <2>2, <2>4 DEF UpTo, UpToAfter
<1>5. ASSUME NEW c \in Calls, StatsArrive(c) PROVE UpToAfter(t)
  <2> DEFINE s == [n |-> calls[c].n, at |-> calls[c].at]
  <2>1. calls' = [calls EXCEPT ![c] = NULL]
    BY <1>5 DEF StatsArrive, Gone
  <2>2. \A d \in Calls : calls'[d] = IF d = c THEN NULL ELSE calls[d]
    BY <2>1 DEF TypeOK, RouteType
  <2>3. calls[c] # NULL /\ s.at = calls[c].at
    BY <1>5 DEF StatsArrive, At
  <2>4. cached'.stats \in {s, cached.stats} /\ shown' \in {shown, s}
    BY <1>5 DEF StatsArrive
  <2> HIDE DEF s
  <2> QED BY <2>2, <2>3, <2>4 DEF UpTo, UpToAfter
<1>6. ASSUME NEW c \in Calls, HistoryArrives(c) PROVE UpToAfter(t)
  <2>1. calls' = [calls EXCEPT ![c] = NULL] /\ shown' = shown
    BY <1>6 DEF HistoryArrives, Gone
  <2>2. cached'.stats = cached.stats
    BY <1>6 DEF HistoryArrives, TypeOK, PanelType
  <2>3. \A d \in Calls : calls'[d] = IF d = c THEN NULL ELSE calls[d]
    BY <2>1 DEF TypeOK, RouteType
  <2> QED BY <2>1, <2>2, <2>3 DEF UpTo, UpToAfter
<1>7. CASE UNCHANGED vars
  BY <1>7 DEF vars, stats, panel, UpTo, UpToAfter
<1> QED BY <1>1, <1>2, <1>3, <1>4, <1>5, <1>6, <1>7 DEF Next

\* That two collections ran at once is never forgotten.
LEMMA Overlapped ==
  ASSUME TypeOK, [Next]_vars, ~overlapped'
  PROVE  ~overlapped
<1>1. ASSUME NEW c \in Calls, Route(c) \/ StatsArrive(c) \/ HistoryArrives(c) PROVE ~overlapped
  BY <1>1 DEF Route, StatsArrive, HistoryArrives
<1>2. CASE Unmount \/ AgentStep \/ UNCHANGED vars
  BY <1>2 DEF Unmount, AgentStep, vars
<1>3. CASE Mount \/ Poll \/ OtherPoll \/ \E r \in {"1h", "6h"} : ChooseRange(r)
  BY <1>3, SendEffects
<1> QED BY <1>1, <1>2, <1>3 DEF Next

\* Two collections that run are counted: the history variable sees them.
LEMMA OneCollection ==
  ASSUME NEW c \in Calls, Route(c), ~overlapped', NEW d \in Calls, NEW e \in Calls,
         InStage(d, "collecting")', InStage(e, "collecting")'
  PROVE  d = e
<1>1. ~(Cardinality(Collecting') > 1)
  BY DEF Route
<1>2. SUFFICES ASSUME d # e PROVE FALSE
  OBVIOUS
<1>3. {d, e} \subseteq Collecting' /\ Collecting' \subseteq Calls
  BY DEF Collecting
<1>4. IsFiniteSet(Collecting')
  BY <1>3, MetricsPanelAssumption, FS_Subset
<1>5. Cardinality({d, e}) <= Cardinality(Collecting') /\ Cardinality(Collecting') \in Nat
  BY <1>3, <1>4, FS_Subset, FS_CardinalityType
<1>6. Cardinality({d, e}) = 2
  <2>1. IsFiniteSet({d}) /\ Cardinality({d}) = 1 /\ e \notin {d}
    BY <1>2, FS_Singleton
  <2>2. Cardinality({d} \cup {e}) = Cardinality({d}) + 1
    BY <2>1, FS_AddElement
  <2>3. {d} \cup {e} = {d, e}
    OBVIOUS
  <2> QED BY <2>1, <2>2, <2>3
<1> QED BY <1>1, <1>5, <1>6

\* Where the agent learns nothing new, what was the latest stays the latest.
LEMMA Quiet ==
  ASSUME TypeOK, InTime, [Next]_vars, now' = now, cache' = cache \/ cache' = NULL,
         \A c \in Calls : req'[c] = NULL \/ req'[c] = req[c]
  PROVE  InTime'
<1>0. /\ cache # NULL => cache.at \in Nat
      /\ now \in Nat
      /\ \A c \in Calls : req[c] # NULL => req[c].at \in Nat
  BY DEF TypeOK, AgentType, AgentRequest
<1>1. ASSUME NEW t \in Nat, UpTo(t) PROVE UpToAfter(t)
  <2>1. \A c \in Calls : InStage(c, "answered")' => req'[c].at <= t
    BY <1>1 DEF UpTo, InStage
  <2> QED BY <1>1, <2>1, UpToKept
<1>2. UpToAfter(now)
  BY <1>0, <1>1 DEF InTime
<1>3. UpTo(now)' /\ (cache # NULL => cache.at <= now)'
  BY <1>2 DEF InTime, UpTo, UpToAfter, InStage
<1>4. ASSUME ~overlapped' PROVE ~overlapped
  BY <1>4, Overlapped
<1>5. ASSUME ~overlapped', cache' # NULL PROVE UpTo(cache.at)'
  <2>1. UpToAfter(cache.at)
    BY <1>0, <1>1, <1>4, <1>5 DEF InTime
  <2> QED BY <1>5, <2>1 DEF UpTo, UpToAfter, InStage
<1>6. ASSUME ~overlapped', NEW c \in Calls, InStage(c, "collecting")'
      PROVE  UpTo(req[c].at)' /\ (cache # NULL => cache.at <= req[c].at)'
  <2>1. InStage(c, "collecting") /\ req'[c] = req[c] /\ req[c].at \in Nat
    BY <1>0, <1>6 DEF InStage
  <2>2. UpToAfter(req[c].at) /\ (cache # NULL => cache.at <= req[c].at)
    BY <1>1, <1>4, <1>6, <2>1 DEF InTime
  <2> QED BY <2>1, <2>2 DEF UpTo, UpToAfter, InStage
<1>7. ASSUME ~overlapped', NEW c \in Calls, NEW d \in Calls,
             InStage(c, "collecting")', InStage(d, "collecting")'
      PROVE  c = d
  <2>1. InStage(c, "collecting") /\ InStage(d, "collecting")
    BY <1>7 DEF InStage
  <2> QED BY <1>4, <1>7, <2>1 DEF InTime
<1> QED BY <1>3, <1>5, <1>6, <1>7 DEF InTime

\* The clock moves on, and everything anybody has is older.
LEMMA TickStep ==
  ASSUME TypeOK, InTime, AgentStep, Tick
  PROVE  InTime'
<1>1. UNCHANGED <<cache, req, calls, shown, cached, overlapped>> /\ now' = now + 1 /\ now \in Nat
  BY DEF AgentStep, Tick, panel, TypeOK, AgentType
<1>2. UpTo(now)'
  <2>1. /\ shown # NULL => shown.at \in Int
        /\ cached.stats # NULL => cached.stats.at \in Int
        /\ \A c \in Calls : calls[c] # NULL => calls[c].at \in Int
        /\ \A c \in Calls : req[c] # NULL => req[c].at \in Int
    BY DEF TypeOK, AgentType, RouteType, PanelType, AgentRequest, Call, Reading
  <2> QED BY <1>1, <2>1 DEF InTime, UpTo, InStage
<1>3. (cache # NULL => cache.at <= now)'
  BY <1>1 DEF InTime, TypeOK, AgentType
<1>4. (~overlapped =>
        /\ \A c, d \in Calls : InStage(c, "collecting") /\ InStage(d, "collecting") => c = d
        /\ cache # NULL => UpTo(cache.at)
        /\ \A c \in Calls : InStage(c, "collecting") =>
             UpTo(req[c].at) /\ (cache # NULL => cache.at <= req[c].at))'
  BY <1>1 DEF InTime, UpTo, InStage
<1> QED BY <1>2, <1>3, <1>4 DEF InTime

\* A collection ends: it was the only one, began after the cached one and after what anybody has.
LEMMA CollectedStep ==
  ASSUME TypeOK, Ages, InTime, AgentStep, NEW c \in Calls, Collected(c)
  PROVE  InTime'
<1>1. /\ InStage(c, "collecting") /\ now' = now /\ cache'.at = req[c].at
      /\ UNCHANGED <<calls, shown, cached, overlapped>>
  BY DEF AgentStep, Collected, panel
<1>2. req[c].at \in Nat /\ req[c].at <= now /\ now \in Nat
  BY <1>1 DEF TypeOK, AgentType, AgentRequest, Ages, InStage
<1>3. req'[c].stage = "answered" /\ req'[c].at = req[c].at /\ \A d \in Calls : d # c => req'[d] = req[d]
  BY DEF Collected, Answer, TypeOK, AgentType
<1>4. UpTo(now)' /\ (cache # NULL => cache.at <= now)'
  BY <1>1, <1>2, <1>3 DEF InTime, UpTo, InStage
<1>5. ASSUME ~overlapped PROVE UpTo(cache.at)'
  BY <1>1, <1>2, <1>3, <1>5 DEF InTime, UpTo, InStage
<1>6. ASSUME ~overlapped, NEW d \in Calls PROVE ~InStage(d, "collecting")'
  BY <1>1, <1>3, <1>6 DEF InTime, InStage
<1> QED BY <1>1, <1>4, <1>5, <1>6 DEF InTime

\* A route asks: it gets the cached reading, or a collection of this moment begins.
LEMMA AskStep ==
  ASSUME TypeOK, NotAsked, InTime, NEW c \in Calls, Route(c), Asks(c), req'[c] = GetMetrics,
         UNCHANGED <<now, kind, cache>>, \A d \in Calls : d # c => req'[d] = req[d]
  PROVE  InTime'
<1>0. /\ cache # NULL => cache.at \in Nat
      /\ now \in Nat /\ [Next]_vars
      /\ \A d \in Calls : req[d] # NULL => req[d].at \in Nat
  BY DEF TypeOK, AgentType, AgentRequest, Next
<1>1. req[c] = NULL
  BY DEF Asks, SameCall, NotAsked
<1>2. ASSUME ~overlapped' PROVE ~overlapped
  BY <1>0, <1>2, Overlapped
<1>3. CASE Cached
  <2>1. cache # NULL /\ req'[c].stage = "answered" /\ req'[c].at = cache.at
    BY <1>3 DEF Cached, GetMetrics, Answer
  <2>2. ASSUME NEW t \in Nat, UpTo(t), cache.at <= t PROVE UpToAfter(t)
    <3>1. \A d \in Calls : InStage(d, "answered")' => req'[d].at <= t
      BY <2>1, <2>2 DEF UpTo, InStage
    <3> QED BY <1>0, <2>2, <3>1, UpToKept
  <2>3. UpTo(now)' /\ (cache # NULL => cache.at <= now)'
    <3>1. UpToAfter(now)
      BY <1>0, <2>1, <2>2 DEF InTime
    <3> QED BY <3>1 DEF InTime, UpTo, UpToAfter, InStage
  <2>4. ASSUME ~overlapped' PROVE UpTo(cache.at)'
    <3>1. UpToAfter(cache.at)
      BY <1>0, <1>2, <2>1, <2>2, <2>4 DEF InTime
    <3> QED BY <3>1 DEF UpTo, UpToAfter, InStage
  <2>5. ASSUME ~overlapped', NEW d \in Calls, InStage(d, "collecting")'
        PROVE  UpTo(req[d].at)' /\ (cache # NULL => cache.at <= req[d].at)'
    <3>1. InStage(d, "collecting") /\ req'[d] = req[d] /\ req[d].at \in Nat
      BY <1>0, <2>1, <2>5 DEF InStage
    <3>2. UpTo(req[d].at) /\ cache.at <= req[d].at
      BY <1>2, <2>1, <2>5, <3>1 DEF InTime
    <3>3. UpToAfter(req[d].at)
      BY <2>2, <3>1, <3>2
    <3> QED BY <3>1, <3>2, <3>3 DEF UpTo, UpToAfter, InStage
  <2>6. ASSUME ~overlapped', NEW d \in Calls, NEW e \in Calls,
               InStage(d, "collecting")', InStage(e, "collecting")'
        PROVE  d = e
    BY <2>6, OneCollection
  <2> QED BY <2>3, <2>4, <2>5, <2>6 DEF InTime
<1>4. CASE ~Cached
  <2>1. req'[c].stage = "collecting" /\ req'[c].at = now
    BY <1>4 DEF GetMetrics
  <2>2. ASSUME NEW t \in Nat, UpTo(t) PROVE UpToAfter(t)
    <3>1. \A d \in Calls : InStage(d, "answered")' => req'[d].at <= t
      BY <2>1, <2>2 DEF UpTo, InStage
    <3> QED BY <1>0, <2>2, <3>1, UpToKept
  <2>3. UpToAfter(now)
    BY <1>0, <2>2 DEF InTime
  <2>4. UpTo(now)' /\ (cache # NULL => cache.at <= now)'
    BY <2>3 DEF InTime, UpTo, UpToAfter, InStage
  <2>5. ASSUME ~overlapped', cache' # NULL PROVE UpTo(cache.at)'
    <3>1. UpToAfter(cache.at)
      BY <1>0, <1>2, <2>2, <2>5 DEF InTime
    <3> QED BY <3>1 DEF UpTo, UpToAfter, InStage
  <2>7. ASSUME ~overlapped', NEW d \in Calls, InStage(d, "collecting")'
        PROVE  UpTo(req[d].at)' /\ (cache # NULL => cache.at <= req[d].at)'
    <3>1. CASE d = c
      BY <2>1, <2>3, <3>1 DEF InTime, UpTo, UpToAfter, InStage
    <3>2. CASE d # c
      <4>1. InStage(d, "collecting") /\ req'[d] = req[d] /\ req[d].at \in Nat
        BY <1>0, <2>7, <3>2 DEF InStage
      <4>2. UpToAfter(req[d].at) /\ (cache # NULL => cache.at <= req[d].at)
        BY <1>2, <2>2, <2>7, <4>1 DEF InTime
      <4> QED BY <4>1, <4>2 DEF UpTo, UpToAfter, InStage
    <3> QED BY <3>1, <3>2
  <2>8. ASSUME ~overlapped', NEW d \in Calls, NEW e \in Calls,
               InStage(d, "collecting")', InStage(e, "collecting")'
        PROVE  d = e
    BY <2>8, OneCollection
  <2> QED BY <2>4, <2>5, <2>7, <2>8 DEF InTime
<1> QED BY <1>3, <1>4

\* The order of collections is the order of readings, until two of them overlap.
LEMMA InTimeStep ==
  ASSUME TypeOK, Ages, NotAsked, InTime, [Next]_vars
  PROVE  InTime'
<1>1. CASE AgentStep
  <2>1. CASE AgentRestarts
    <3>1. \A c \in Calls : req'[c] = NULL \/ req'[c] = req[c]
      BY <2>1 DEF AgentRestarts
    <3> QED BY <2>1, <3>1, Quiet DEF AgentRestarts
  <2>2. CASE Tick
    BY <1>1, <2>2, TickStep
  <2>3. ASSUME NEW c \in Calls, Collected(c) PROVE InTime'
    BY <1>1, <2>3, CollectedStep
  <2> QED BY <1>1, <2>1, <2>2, <2>3 DEF AgentStep
<1>2. ASSUME NEW c \in Calls, Route(c) PROVE InTime'
  <2>1. /\ UNCHANGED <<now, kind, cache>>
        /\ \A d \in Calls : d # c => calls'[d] = calls[d] /\ req'[d] = req[d]
        /\ Finishes(c) \/ Asks(c) \/ Merges(c) \/ Breaks(c) \/ Drops(c)
    BY <1>2, RouteEffects DEF Route
  <2>2. CASE Asks(c) /\ req'[c] = GetMetrics
    BY <1>2, <2>1, <2>2, AskStep
  <2>3. CASE req'[c] \in {NULL, req[c]}
    BY <2>1, <2>3, Quiet
  <2> QED BY <2>1, <2>2, <2>3 DEF Finishes, Asks, Merges, Breaks, Drops
<1>3. CASE UNCHANGED agent
  BY <1>3, Quiet DEF agent
<1>4. ASSUME NEW c \in Calls, StatsArrive(c) \/ HistoryArrives(c) PROVE UNCHANGED agent
  BY <1>4 DEF StatsArrive, HistoryArrives
<1>5. ASSUME Mount \/ Unmount \/ Poll \/ OtherPoll \/ \E r \in {"1h", "6h"} : ChooseRange(r)
      PROVE  UNCHANGED agent
  BY <1>5 DEF Mount, Unmount, Poll, OtherPoll, ChooseRange
<1>6. ASSUME UNCHANGED vars PROVE UNCHANGED agent
  BY <1>6 DEF vars, stats
<1> QED BY <1>1, <1>2, <1>3, <1>4, <1>5, <1>6 DEF Next

\* What the agent answers the panel's request is the latest there is, and the request carries it.
LEMMA NewerStep ==
  ASSUME TypeOK, OneFetch, NotAsked, InTime, Newer, [Next]_vars
  PROVE  Newer'
<1> SUFFICES ASSUME ~overlapped', NEW c \in Calls, Fetches(c)', shown' # NULL
             PROVE  /\ calls'[c].stage = "waiting" /\ InStage(c, "answered")' => shown'.at <= req'[c].at
                    /\ calls'[c].stage = "ok" /\ calls'[c].at >= 0 => shown'.at <= calls'[c].at
  BY DEF Newer
<1>0. ~overlapped
  BY Overlapped
<1>1. CASE Mount
  <2>1. ~Fetches(c)
    BY <1>1 DEF OneFetch, Mount
  <2>2. Fresh(c)
    BY <1>1, <2>1, SendEffects DEF Fetches
  <2> QED BY <2>2 DEF Fresh
<1>2. CASE Poll \/ OtherPoll \/ \E r \in {"1h", "6h"} : ChooseRange(r)
  <2>1. shown' = shown /\ req' = req
    BY <1>2 DEF Poll, OtherPoll, ChooseRange, panel, agent
  <2>2. calls'[c] = calls[c] \/ Fresh(c)
    BY <1>2, SendEffects
  <2> QED BY <1>0, <2>1, <2>2 DEF Fresh, Newer, Fetches, InStage
<1>3. CASE Unmount
  BY <1>3 DEF Unmount
<1>4. CASE AgentStep
  <2>1. UNCHANGED <<calls, shown>>
    BY <1>4 DEF AgentStep, panel
  <2>2. CASE AgentRestarts \/ Tick
    <3>1. req'[c] = NULL \/ req'[c] = req[c]
      BY <2>2 DEF AgentRestarts, Tick
    <3> QED BY <1>0, <2>1, <3>1 DEF Newer, Fetches, InStage
  <2>3. ASSUME NEW d \in Calls, Collected(d)
        PROVE  /\ calls'[c].stage = "waiting" /\ InStage(c, "answered")' => shown'.at <= req'[c].at
               /\ calls'[c].stage = "ok" /\ calls'[c].at >= 0 => shown'.at <= calls'[c].at
    <3>1. req'[d].at = req[d].at /\ \A e \in Calls : e # d => req'[e] = req[e]
      BY <2>3 DEF Collected, Answer, TypeOK, AgentType
    <3>2. shown.at <= req[d].at
      BY <1>0, <2>1, <2>3 DEF Collected, InTime, UpTo
    <3>3. calls'[c].stage = "waiting" /\ InStage(c, "answered")' => shown'.at <= req'[c].at
      BY <1>0, <2>1, <3>1, <3>2 DEF Newer, Fetches, InStage
    <3>4. calls'[c].stage = "ok" /\ calls'[c].at >= 0 => shown'.at <= calls'[c].at
      BY <1>0, <2>1 DEF Newer, Fetches
    <3> QED BY <3>3, <3>4
  <2> QED BY <1>4, <2>2, <2>3 DEF AgentStep
<1>5. ASSUME NEW d \in Calls, Route(d)
      PROVE  /\ calls'[c].stage = "waiting" /\ InStage(c, "answered")' => shown'.at <= req'[c].at
             /\ calls'[c].stage = "ok" /\ calls'[c].at >= 0 => shown'.at <= calls'[c].at
  <2>1. /\ UNCHANGED <<now, kind, cache>>
        /\ \A e \in Calls : e # d => calls'[e] = calls[e] /\ req'[e] = req[e]
        /\ Finishes(d) \/ Asks(d) \/ Merges(d) \/ Breaks(d) \/ Drops(d)
    BY <1>5, RouteEffects DEF Route
  <2>2. shown' = shown
    BY <1>5 DEF Route, panel
  <2>3. CASE c # d
    BY <1>0, <2>1, <2>2, <2>3 DEF Newer, Fetches, InStage
  <2>4. CASE c = d /\ Finishes(d)
    <3>1. calls[c].what = "stats"
      BY <2>4 DEF Finishes, SameCall, Fetches
    <3> QED BY <2>4, <3>1 DEF Finishes
  <2>5. CASE c = d /\ Asks(d)
    <3>1. req[c] = NULL /\ calls'[c].stage = "waiting"
      BY <2>5 DEF Asks, SameCall, NotAsked
    <3>2. CASE req'[c] = req[c]
      BY <3>1, <3>2 DEF InStage
    <3>3. CASE req'[c] = GetMetrics /\ Cached
      <4>1. req'[c].at = cache.at /\ cache # NULL
        BY <3>3 DEF GetMetrics, Answer, Cached
      <4> QED BY <1>0, <2>2, <3>1, <4>1 DEF InTime, UpTo
    <3>4. CASE req'[c] = GetMetrics /\ ~Cached
      BY <3>1, <3>4 DEF GetMetrics, InStage
    <3> QED BY <2>5, <3>2, <3>3, <3>4 DEF Asks
  <2>8. CASE c = d /\ Breaks(d)
    BY <2>8 DEF Breaks
  <2>6. CASE c = d /\ Merges(d)
    <3>1. /\ Fetches(c) /\ calls[c].stage = "waiting" /\ calls'[c].stage = "ok"
          /\ calls'[c].at \in {AgentReading(c), -1}
      BY <2>6 DEF Merges, SameCall, Fetches
    <3> QED BY <1>0, <2>2, <3>1 DEF AgentReading, Newer
  <2>7. CASE c = d /\ Drops(d)
    <3>1. calls'[c] = calls[c] /\ (req'[c] = NULL \/ req'[c] = req[c])
      BY <2>7 DEF Drops, Fetches
    <3> QED BY <1>0, <2>2, <3>1 DEF Newer, Fetches, InStage
  <2> QED BY <2>1, <2>3, <2>4, <2>5, <2>6, <2>7, <2>8
<1>6. ASSUME NEW d \in Calls, StatsArrive(d)
      PROVE  /\ calls'[c].stage = "waiting" /\ InStage(c, "answered")' => shown'.at <= req'[c].at
             /\ calls'[c].stage = "ok" /\ calls'[c].at >= 0 => shown'.at <= calls'[c].at
  <2>1. calls' = [calls EXCEPT ![d] = NULL] /\ req' = req
    BY <1>6 DEF StatsArrive, Gone, agent
  <2>2. c # d /\ calls'[c] = calls[c] /\ Fetches(c)
    BY <2>1 DEF Fetches, TypeOK, RouteType
  <2>3. ~Heard(d)
    BY <1>6, <2>2 DEF Heard, OneFetch, Fetches, StatsArrive, At
  <2>4. shown' = shown
    BY <1>6, <2>3 DEF StatsArrive
  <2> QED BY <1>0, <2>1, <2>2, <2>4 DEF Newer, InStage
<1>7. ASSUME NEW d \in Calls, HistoryArrives(d)
      PROVE  /\ calls'[c].stage = "waiting" /\ InStage(c, "answered")' => shown'.at <= req'[c].at
             /\ calls'[c].stage = "ok" /\ calls'[c].at >= 0 => shown'.at <= calls'[c].at
  <2>1. calls' = [calls EXCEPT ![d] = NULL] /\ req' = req /\ shown' = shown
    BY <1>7 DEF HistoryArrives, Gone, agent
  <2>2. calls'[c] = calls[c] /\ Fetches(c)
    BY <2>1 DEF Fetches, TypeOK, RouteType
  <2> QED BY <1>0, <2>1, <2>2 DEF Newer, InStage
<1>8. CASE UNCHANGED vars
  BY <1>0, <1>8 DEF vars, stats, panel, agent, Newer, Fetches, InStage
<1> QED BY <1>1, <1>2, <1>3, <1>4, <1>5, <1>6, <1>7, <1>8 DEF Next

-----------------------------------------------------------------------------
(* The theorems.                                                           *)

\* Nobody has asked for anything when the dashboard is opened.
LEMMA Start ==
  ASSUME Init
  PROVE  IInv
<1> USE DEF Init, StatsInit, AgentInit
<1>1. TypeOK
  BY DEF TypeOK, AgentType, RouteType, PanelType
<1>2. Ages /\ NotAsked
  BY DEF Ages, AnswersAreRecent, NotAsked, InStage
<1>3. OneFetch /\ Numbered
  BY DEF OneFetch, Numbered, Fetches
<1>4. InTime
  BY DEF InTime, UpTo, InStage
<1>5. Newer
  BY DEF Newer, Fetches
<1> QED BY <1>1, <1>2, <1>3, <1>4, <1>5 DEF IInv

\* The agents, the routes and the panel keep the invariant: types, ages, one request of the panel
\* at a time, and the order of readings.
THEOREM Invariance == Spec => []IInv
<1>1. Init => IInv
  BY Start
<1>2. IInv /\ [Next]_vars => IInv'
  BY TypeStep, AgesStep, FetchStep, NotAskedStep, NumberedStep, InTimeStep, NewerStep DEF IInv
<1> QED BY <1>1, <1>2, PTL DEF Spec

\* Every variable of the agent, the routes and the panel has its type.
THEOREM TypeCorrect == Spec => []TypeOK
<1>1. IInv => TypeOK
  BY DEF IInv
<1> QED BY <1>1, Invariance, PTL

\* However many requests overlap and however slow a collection is, no answer of either agent is
\* older than its cache and its stamps allow.
THEOREM AgesBounded == Spec => []AnswersAreRecent
<1>1. IInv => AnswersAreRecent
  BY DEF IInv, Ages
<1> QED BY <1>1, Invariance, PTL

\* The panel's one step that shows another reading shows one that is not older.
LEMMA ShownSteps ==
  ASSUME IInv, [Next]_vars, mounted, mounted', shown # NULL, shown' # NULL, ~overlapped
  PROVE  /\ shown.n <= shown'.n
         /\ shown.at >= 0 /\ shown'.at >= 0 => shown.at <= shown'.at
<1>0. shown.n \in Int /\ shown.at \in Int
  BY DEF IInv, TypeOK, PanelType, Reading
<1>1. CASE shown' = shown
  BY <1>0, <1>1
<1>2. ASSUME NEW c \in Calls, StatsArrive(c), shown' # shown
      PROVE  /\ shown.n <= shown'.n
             /\ shown.at >= 0 /\ shown'.at >= 0 => shown.at <= shown'.at
  <2>1. /\ shown' = [n |-> calls[c].n, at |-> calls[c].at] /\ calls[c].stage = "ok"
        /\ calls[c].who = "panel" /\ calls[c].what = "stats" /\ calls[c] # NULL
    BY <1>2 DEF StatsArrive, Heard, At
  <2>2. Fetches(c) /\ shown'.n = calls[c].n /\ shown'.at = calls[c].at
    BY <2>1 DEF Fetches
  <2>3. shown.n <= calls[c].n
    BY <2>1, <2>2 DEF IInv, Numbered
  <2>4. calls[c].at >= 0 => shown.at <= calls[c].at
    BY <2>1, <2>2 DEF IInv, Newer
  <2> QED BY <2>2, <2>3, <2>4
<1>3. ASSUME NEW c \in Calls, Route(c) \/ HistoryArrives(c) PROVE shown' = shown
  BY <1>3 DEF Route, HistoryArrives, panel
<1>4. ASSUME Mount \/ Unmount PROVE FALSE
  BY <1>4 DEF Mount, Unmount
<1>5. ASSUME Poll \/ OtherPoll \/ AgentStep \/ UNCHANGED vars \/ \E r \in {"1h", "6h"} : ChooseRange(r)
      PROVE  shown' = shown
  BY <1>5 DEF Poll, OtherPoll, AgentStep, ChooseRange, vars, panel
<1> QED BY <1>1, <1>2, <1>3, <1>4, <1>5 DEF Next

\* An open panel never goes back to an older reading, of the containers or of the host, while no
\* two collections of the agent have run at once.
THEOREM NeverBack == Spec => ShownNeverGoesBack
<1>1. IInv /\ [Next]_vars =>
        [mounted /\ mounted' /\ shown # NULL /\ shown' # NULL /\ ~overlapped =>
           /\ shown.n <= shown'.n
           /\ shown.at >= 0 /\ shown'.at >= 0 => shown.at <= shown'.at]_vars
  BY ShownSteps
<1> QED BY <1>1, Invariance, PTL DEF Spec, ShownNeverGoesBack

-----------------------------------------------------------------------------
(* The order of the chart.                                                 *)

Below(seq, n) == \A i \in DOMAIN seq : seq[i] < n
Ordered(seq, n) == Increases(seq) /\ Below(seq, n)

\* The table has the readings in the order in which they were put together, whatever is deleted
\* from it and whichever could not be written; and so has every history that was read from it.
Tabled ==
  /\ Ordered(rows, reads + 1)
  /\ \A c \in Calls : calls[c] # NULL => Ordered(calls[c].list, reads + 1)

\* The chart has nothing that was not put together; only this page keeps an answer, which then
\* has a number.
Charted ==
  /\ Below(chart, reads + 1) /\ Below(cached.chart, reads + 1)
  /\ \A c \in Calls : At(c, "stats", "ok") => calls[c].who # "other" /\ calls[c].n > 0

\* A page that was not opened again too early waits for one answer at most, and hears it while
\* it is open.
OnePending ==
  ~crossed =>
    /\ \A c, d \in Pending : c = d
    /\ mounted => \A c \in Pending : calls[c].who = "panel"

\* What has not arrived is newer than all there is on the chart.
Ahead ==
  ~crossed =>
    /\ Increases(chart) /\ Increases(cached.chart)
    /\ \A c \in Pending : calls[c].n > 0 => Below(chart, calls[c].n) /\ Below(cached.chart, calls[c].n)

ChartInv == Tabled /\ Charted /\ OnePending /\ Ahead

\* What is below a number is below a greater one.
LEMMA BelowMore ==
  ASSUME NEW seq \in Seq(Nat), NEW n \in Nat, NEW m \in Nat, n <= m, Below(seq, n)
  PROVE  Below(seq, m)
<1> SUFFICES ASSUME NEW i \in DOMAIN seq PROVE seq[i] < m
  BY DEF Below
<1>1. seq[i] \in Nat /\ seq[i] < n
  BY ElementOfSeq, LenProperties DEF Below
<1> QED BY <1>1

\* The end of a list that is in order is in order: what the deletion leaves, and what the
\* history route selects.
LEMMA EndOrdered ==
  ASSUME NEW seq \in Seq(Nat), NEW n \in Nat, Ordered(seq, n), NEW i \in 1..(Len(seq) + 1)
  PROVE  Ordered(SubSeq(seq, i, Len(seq)), n)
<1> DEFINE s == SubSeq(seq, i, Len(seq))
<1>1. Len(seq) \in Nat /\ DOMAIN seq = 1..Len(seq)
  BY LenProperties
<1>2. s \in Seq(Nat) /\ Len(s) = Len(seq) - i + 1 /\ \A j \in 1..(Len(seq) - i + 1) : s[j] = seq[i + j - 1]
  BY <1>1, SubSeqProperties
<1>3. DOMAIN s = 1..(Len(seq) - i + 1)
  BY <1>2, LenProperties
<1> HIDE DEF s
<1>4. \A j \in DOMAIN s : i + j - 1 \in DOMAIN seq /\ s[j] = seq[i + j - 1]
  <2> DEFINE N == Len(seq)
  <2>1. \A k \in Nat : \A j \in 1..(k - i + 1) : i + j - 1 \in 1..k
    OBVIOUS
  <2>2. \A j \in 1..(N - i + 1) : i + j - 1 \in 1..N
    BY <1>1, <2>1
  <2> QED BY <1>1, <1>2, <1>3, <2>2
<1>5. Below(s, n)
  BY <1>4 DEF Ordered, Below
<1>6. ASSUME NEW j \in DOMAIN s, NEW k \in DOMAIN s, j < k PROVE s[j] < s[k]
  <2>1. i + j - 1 < i + k - 1
    BY <1>1, <1>3, <1>6
  <2> QED BY <1>4, <2>1 DEF Ordered, Increases
<1> QED BY <1>5, <1>6 DEF Ordered, Increases, s

\* What is appended is the greatest.
LEMMA AppendOrdered ==
  ASSUME NEW seq \in Seq(Nat), NEW n \in Nat
  PROVE  /\ Below(seq, n) => Below(Append(seq, n), n + 1)
         /\ Below(seq, n) /\ Increases(seq) => Increases(Append(seq, n))
<1> DEFINE s == Append(seq, n)
<1>1. Len(seq) \in Nat /\ DOMAIN seq = 1..Len(seq)
  BY LenProperties
<1>2. s \in Seq(Nat) /\ Len(s) = Len(seq) + 1 /\ s[Len(seq) + 1] = n /\ \A j \in 1..Len(seq) : s[j] = seq[j]
  BY AppendProperties
<1>3. DOMAIN s = 1..(Len(seq) + 1)
  BY <1>2, LenProperties
<1> HIDE DEF s
<1>4. \A j \in DOMAIN s : IF j \in DOMAIN seq THEN s[j] = seq[j] ELSE j = Len(seq) + 1 /\ s[j] = n
  BY <1>1, <1>2, <1>3
<1>5. \A j \in DOMAIN seq : seq[j] \in Nat
  BY <1>1, ElementOfSeq
<1>6. Below(seq, n) => Below(s, n + 1)
  BY <1>4, <1>5 DEF Below
<1>7. ASSUME Below(seq, n), Increases(seq), NEW j \in DOMAIN s, NEW k \in DOMAIN s, j < k
      PROVE  s[j] < s[k]
  <2>1. j \in DOMAIN seq
    BY <1>1, <1>3, <1>7
  <2> QED BY <1>4, <1>7, <2>1 DEF Below, Increases
<1> QED BY <1>6, <1>7 DEF Increases, s

\* The history route answers what it selected in the order of the table.
LEMMA NewestOrdered ==
  ASSUME NEW table \in Seq(Nat), NEW n \in Nat, Ordered(table, n)
  PROVE  Ordered(Newest(table), n)
<1>1. Len(table) \in Nat
  BY LenProperties
<1> DEFINE i == IF Len(table) > Limit THEN Len(table) - Limit + 1 ELSE 1
<1>2. i \in 1..(Len(table) + 1)
  BY <1>1, StatsAssumption
<1>3. Newest(table) = SubSeq(table, i, Len(table))
  BY DEF Newest
<1> HIDE DEF i
<1> QED BY <1>2, <1>3, EndOrdered

\* The rows of a history on its way are those its route read, and nothing but that route writes
\* them; the table loses its first rows and gets the reading that was put together last.
LEMMA RouteLists ==
  ASSUME TypeOK, NEW c \in Calls, Serve(c) \/ Fail(c)
  PROVE  /\ \/ reads' = reads /\ rows' \in Pruned \cup {rows}
            \/ reads' = reads + 1 /\ \E kept \in Pruned \cup {rows} : rows' \in {kept, Append(kept, reads + 1)}
         /\ calls'[c] # NULL =>
              calls'[c].list = Newest(rows') \/ (calls[c] # NULL /\ calls'[c].list = calls[c].list)
<1> USE DEF TypeOK, RouteType
<1>0. calls[c] # NULL => calls[c] \in Call
  OBVIOUS
<1>1. ASSUME NEW call \in Call
      PROVE  /\ \A s \in {"reading", "waiting", "failed"} : [call EXCEPT !.stage = s].list = call.list
             /\ \A n, a : [call EXCEPT !.stage = "ok", !.n = n, !.at = a].list = call.list
             /\ \A l : [call EXCEPT !.stage = "ok", !.list = l].list = l
  BY DEF Call
<1>2. CASE ReadContainers(c)
  <2>1. calls' = [calls EXCEPT ![c] = [calls[c] EXCEPT !.stage = "reading"]] /\ UNCHANGED <<rows, reads>>
    BY <1>2 DEF ReadContainers
  <2>2. calls[c] \in Call /\ calls[c] # NULL
    BY <1>0, <1>2 DEF ReadContainers, At
  <2> QED BY <1>1, <2>1, <2>2
<1>3. CASE ReadHost(c)
  <2>1. calls' = [calls EXCEPT ![c] = [calls[c] EXCEPT !.stage = "waiting"]] /\ UNCHANGED <<rows, reads>>
    BY <1>3 DEF ReadHost
  <2>2. calls[c] \in Call /\ calls[c] # NULL
    BY <1>0, <1>3 DEF ReadHost, At
  <2> QED BY <1>1, <2>1, <2>2
<1>4. CASE MergeAndStore(c)
  <2>0. PICK at \in {AgentReading(c), -1} :
          calls' = Answered(c, [calls[c] EXCEPT !.stage = "ok", !.n = reads + 1, !.at = at])
    BY <1>4 DEF MergeAndStore
  <2> DEFINE call == [calls[c] EXCEPT !.stage = "ok", !.n = reads + 1, !.at = at]
  <2>1. /\ calls' = Answered(c, call) /\ reads' = reads + 1
        /\ \/ \E kept \in Pruned : rows' = Append(kept, reads + 1)
           \/ rows' = rows
    BY <1>4, <2>0 DEF MergeAndStore
  <2>2. calls[c] \in Call /\ calls[c] # NULL
    BY <1>0, <1>4 DEF MergeAndStore, Hears, At
  <2>3. call.list = calls[c].list
    BY <1>1, <2>2
  <2> HIDE DEF call
  <2>4. calls'[c] # NULL => calls'[c] = call
    BY <2>1 DEF Answered
  <2> QED BY <2>1, <2>2, <2>3, <2>4
<1>5. CASE AnswerDropped(c)
  BY <1>5 DEF AnswerDropped
<1>6. CASE ServeHistory(c)
  <2> DEFINE call == [calls[c] EXCEPT !.stage = "ok", !.list = Newest(rows')]
  <2>1. calls' = [calls EXCEPT ![c] = call] /\ reads' = reads /\ rows' \in Pruned
    BY <1>6 DEF ServeHistory
  <2>2. calls[c] \in Call
    BY <1>0, <1>6 DEF ServeHistory, At
  <2>3. call.list = Newest(rows')
    BY <1>1, <2>2
  <2> HIDE DEF call
  <2> QED BY <2>1, <2>3
<1>7. CASE DockerFails(c)
  <2> DEFINE call == [calls[c] EXCEPT !.stage = "failed"]
  <2>1. calls' = Answered(c, call) /\ UNCHANGED <<rows, reads>>
    BY <1>7 DEF DockerFails
  <2>2. calls[c] \in Call /\ calls[c] # NULL
    BY <1>0, <1>7 DEF DockerFails, At
  <2>3. call.list = calls[c].list
    BY <1>1, <2>2
  <2> HIDE DEF call
  <2>4. calls'[c] # NULL => calls'[c] = call
    BY <2>1 DEF Answered
  <2> QED BY <2>1, <2>2, <2>3, <2>4
<1>8. CASE HistoryFails(c)
  BY <1>8 DEF HistoryFails
<1>9. CASE HealthFails(c)
  <2> DEFINE call == [calls[c] EXCEPT !.stage = "failed"]
  <2>1. calls' = Answered(c, call) /\ rows' = rows /\ reads' = reads + 1
    BY <1>9 DEF HealthFails
  <2>2. calls[c] \in Call /\ calls[c] # NULL
    BY <1>0, <1>9 DEF HealthFails, Hears, At
  <2>3. call.list = calls[c].list
    BY <1>1, <2>2
  <2> HIDE DEF call
  <2>4. calls'[c] # NULL => calls'[c] = call
    BY <2>1 DEF Answered
  <2> QED BY <2>1, <2>2, <2>3, <2>4
<1> QED BY <1>2, <1>3, <1>4, <1>5, <1>6, <1>7, <1>8, <1>9 DEF Serve, Fail

\* A reading is stored after all that were put together before it, and a history is read in the
\* order of the table.
LEMMA TabledStep ==
  ASSUME TypeOK, Tabled, [Next]_vars
  PROVE  Tabled'
<1> USE DEF TypeOK, RouteType
<1>0. reads \in Nat /\ \A c \in Calls : calls[c] # NULL => calls[c] \in Call /\ calls[c].list \in Seq(Nat)
  BY DEF Call
<1>1. ASSUME UNCHANGED <<rows, reads>>,
             \A c \in Calls : calls'[c] # NULL =>
               calls'[c].list = <<>> \/ (calls[c] # NULL /\ calls'[c].list = calls[c].list)
      PROVE  Tabled'
  BY <1>1 DEF Tabled, Ordered, Increases, Below
<1>2. CASE Mount
  <2>1. PICK c \in Spare, d \in Spare :
           calls' = [calls EXCEPT ![c] = Request("stats", "panel", "1h"),
                                  ![d] = Request("history", "panel", "1h")]
    BY <1>2, Opened
  <2>2. Request("stats", "panel", "1h").list = <<>> /\ Request("history", "panel", "1h").list = <<>>
    BY DEF Request
  <2>3. \A e \in Calls : calls'[e] \in {calls[e], Request("stats", "panel", "1h"), Request("history", "panel", "1h")}
    BY <2>1 DEF Spare
  <2> QED BY <1>1, <1>2, <2>2, <2>3 DEF Mount
<1>3. ASSUME NEW call \in Call, Send(call), call.list = <<>>, UNCHANGED <<rows, reads>> PROVE Tabled'
  <2>1. PICK c \in Calls : calls' = [calls EXCEPT ![c] = call]
    BY <1>3, Sent
  <2> QED BY <1>1, <1>3, <2>1
<1>4. CASE Poll \/ OtherPoll
  <2>1. Request("stats", "panel", "1h").list = <<>> /\ Request("stats", "other", "1h").list = <<>>
    BY DEF Request
  <2> QED BY <1>3, <1>4, <2>1, Requests DEF Poll, OtherPoll
<1>5. ASSUME NEW r \in {"1h", "6h"}, ChooseRange(r) PROVE Tabled'
  <2>1. Request("history", "panel", r).list = <<>>
    BY DEF Request
  <2> QED BY <1>3, <1>5, <2>1, Requests DEF ChooseRange
<1>6. CASE Unmount
  <2>1. \A c \in Calls : calls'[c] = calls[c] \/ (calls[c] # NULL /\ calls'[c] = [calls[c] EXCEPT !.who = "gone"])
    BY <1>6 DEF Unmount
  <2>2. \A call \in Call : [call EXCEPT !.who = "gone"].list = call.list
    BY DEF Call
  <2>3. \A c \in Calls : calls'[c] # NULL => calls[c] # NULL /\ calls'[c].list = calls[c].list
    BY <1>0, <2>1, <2>2
  <2> QED BY <1>1, <1>6, <2>3 DEF Unmount
<1>7. CASE AgentStep
  BY <1>1, <1>7 DEF AgentStep
<1>8. ASSUME NEW c \in Calls, StatsArrive(c) \/ HistoryArrives(c) PROVE Tabled'
  <2>1. calls' = [calls EXCEPT ![c] = NULL] /\ UNCHANGED <<rows, reads>>
    BY <1>8 DEF StatsArrive, HistoryArrives, Gone
  <2> QED BY <1>1, <2>1
<1>9. ASSUME NEW c \in Calls, Route(c) PROVE Tabled'
  <2>1. \A kept \in Pruned \cup {rows} : kept \in Seq(Nat) /\ Ordered(kept, reads + 1)
    <3>1. \A kept \in Pruned : kept \in Seq(Nat)
      BY Tables
    <3>2. \A i \in 1..(Len(rows) + 1) : Ordered(SubSeq(rows, i, Len(rows)), reads + 1)
      BY <1>0, EndOrdered DEF Tabled
    <3> QED BY <3>1, <3>2 DEF Pruned, Tabled
  <2>2. rows' \in Seq(Nat) /\ reads' \in {reads, reads + 1} /\ Ordered(rows', reads' + 1)
    <3>1. CASE reads' = reads /\ rows' \in Pruned \cup {rows}
      BY <2>1, <3>1
    <3>2. ASSUME NEW kept \in Pruned \cup {rows}, reads' = reads + 1, rows' \in {kept, Append(kept, reads + 1)}
          PROVE  rows' \in Seq(Nat) /\ Ordered(rows', reads' + 1)
      <4>1. Below(kept, reads + 2) /\ Increases(kept)
        BY <1>0, <2>1, BelowMore DEF Ordered
      <4>2. Below(Append(kept, reads + 1), reads + 2) /\ Increases(Append(kept, reads + 1))
        <5>1. reads + 1 \in Nat /\ reads + 1 + 1 = reads + 2
          BY <1>0
        <5> QED BY <2>1, <5>1, AppendOrdered DEF Ordered
      <4>3. reads' + 1 = reads + 2
        BY <1>0, <3>2
      <4>4. Append(kept, reads + 1) \in Seq(Nat)
        BY <1>0, <2>1, AppendProperties
      <4> QED BY <2>1, <3>2, <4>1, <4>2, <4>3, <4>4 DEF Ordered
    <3> QED BY <1>9, <3>1, <3>2, RouteLists DEF Route
  <2>3. Ordered(Newest(rows'), reads' + 1)
    BY <1>0, <2>2, NewestOrdered
  <2>4. ASSUME NEW d \in Calls, calls[d] # NULL PROVE Ordered(calls[d].list, reads' + 1)
    <3>1. Ordered(calls[d].list, reads + 1) /\ calls[d].list \in Seq(Nat)
      BY <1>0, <2>4 DEF Tabled
    <3>2. reads' + 1 \in Nat /\ reads + 1 \in Nat /\ reads + 1 <= reads' + 1
      <4>1. reads \in Nat /\ (reads' = reads \/ reads' = reads + 1)
        BY <1>0, <2>2
      <4> HIDE DEF TypeOK
      <4> QED BY <4>1
    <3> QED BY <3>1, <3>2, BelowMore DEF Ordered
  <2>5. ASSUME NEW d \in Calls, calls'[d] # NULL PROVE Ordered(calls'[d].list, reads' + 1)
    <3>1. CASE d # c
      <4>1. calls'[d] = calls[d]
        BY <1>9, <3>1, RouteEffects DEF Route
      <4> QED BY <2>4, <2>5, <4>1
    <3>2. CASE d = c
      BY <1>9, <2>3, <2>4, <2>5, <3>2, RouteLists DEF Route
    <3> QED BY <3>1, <3>2
  <2> QED BY <2>2, <2>5 DEF Tabled
<1>10. CASE UNCHANGED vars
  BY <1>1, <1>10 DEF vars, stats
<1> QED BY <1>2, <1>4, <1>5, <1>6, <1>7, <1>8, <1>9, <1>10 DEF Next

\* That a history overtook an answer is never forgotten.
LEMMA Crossed ==
  ASSUME [Next]_vars, ~crossed'
  PROVE  ~crossed
<1>1. ASSUME NEW c \in Calls, Route(c) \/ StatsArrive(c) \/ HistoryArrives(c) PROVE ~crossed
  BY <1>1 DEF Route, StatsArrive, HistoryArrives
<1>2. CASE Mount \/ Unmount \/ Poll \/ OtherPoll \/ AgentStep \/ UNCHANGED vars
  BY <1>2 DEF Mount, Unmount, Poll, OtherPoll, AgentStep, vars
<1>3. ASSUME NEW r \in {"1h", "6h"}, ChooseRange(r) PROVE ~crossed
  BY <1>3 DEF ChooseRange
<1> QED BY <1>1, <1>2, <1>3 DEF Next

\* An answer that a route keeps belongs to this page and carries a number.
LEMMA RouteAnswers ==
  ASSUME TypeOK, NEW c \in Calls, Serve(c) \/ Fail(c), At(c, "stats", "ok")'
  PROVE  \/ At(c, "stats", "ok") /\ calls'[c] = calls[c]
         \/ calls'[c].who # "other" /\ calls'[c].n = reads + 1
<1>1. CASE MergeAndStore(c)
  <2>0. PICK at \in {AgentReading(c), -1} :
          calls' = Answered(c, [calls[c] EXCEPT !.stage = "ok", !.n = reads + 1, !.at = at])
    BY <1>1 DEF MergeAndStore
  <2> DEFINE call == [calls[c] EXCEPT !.stage = "ok", !.n = reads + 1, !.at = at]
  <2>1. calls' = Answered(c, call)
    BY <2>0
  <2>2. calls[c] \in Call
    BY <1>1 DEF MergeAndStore, Hears, At, TypeOK, RouteType
  <2>3. call.n = reads + 1
    BY <2>2 DEF Call
  <2> HIDE DEF call
  <2>4. calls'[c] = (IF call.who = "other" THEN NULL ELSE call)
    BY <2>1 DEF Answered, TypeOK, RouteType
  <2> QED BY <2>3, <2>4 DEF At
<1>2. CASE ~MergeAndStore(c)
  <2>1. Finishes(c) \/ Asks(c) \/ Merges(c) \/ Breaks(c) \/ Drops(c)
    BY RouteEffects
  <2>2. ~Finishes(c) /\ ~Asks(c) /\ ~Breaks(c)
    BY DEF Finishes, Asks, Breaks, SameCall, At
  <2>3. CASE Drops(c)
    BY <2>3 DEF Drops, At
  <2>4. CASE Merges(c)
    <3>1. calls[c].stage = "waiting" /\ calls'[c].n = reads + 1 /\ calls[c] # NULL
      BY <2>4 DEF Merges, SameCall
    <3>2. CASE AnswerDropped(c)
      BY <3>1, <3>2 DEF AnswerDropped, At, Merges
    <3>3. CASE ReadContainers(c) \/ ReadHost(c) \/ ServeHistory(c) \/ DockerFails(c) \/ HistoryFails(c)
      BY <3>1, <3>3 DEF ReadContainers, ReadHost, ServeHistory, DockerFails, HistoryFails, At
    <3>4. CASE HealthFails(c)
      <4> DEFINE call == [calls[c] EXCEPT !.stage = "failed"]
      <4>1. calls' = Answered(c, call)
        BY <3>4 DEF HealthFails
      <4>2. call.stage = "failed"
        BY <3>1 DEF TypeOK, RouteType, Call
      <4> HIDE DEF call
      <4>3. calls'[c] \in {NULL, call}
        BY <4>1 DEF Answered, TypeOK, RouteType
      <4> QED BY <2>4, <4>2, <4>3 DEF Merges, At
    <3> QED BY <1>2, <3>2, <3>3, <3>4 DEF Serve, Fail
  <2> QED BY <2>1, <2>2, <2>3, <2>4
<1> QED BY <1>1, <1>2

\* What is awaited after a step of a route was awaited before it.
LEMMA PendingRoute ==
  ASSUME TypeOK, NEW c \in Calls, Serve(c) \/ Fail(c), NEW d \in Calls, d \in Pending'
  PROVE  /\ d \in Pending /\ calls'[d].who = calls[d].who
         /\ calls'[d].n = calls[d].n \/ (calls'[d].n = reads + 1 /\ reads' = reads + 1)
<1>1. /\ d # c => calls'[d] = calls[d]
      /\ Finishes(c) \/ Asks(c) \/ Merges(c) \/ Breaks(c) \/ Drops(c)
  BY RouteEffects
<1>2. calls'[d] # NULL /\ calls'[d].what = "stats" /\ calls'[d].who # "other"
  BY DEF Pending
<1>3. CASE calls'[d] = calls[d]
  BY <1>2, <1>3 DEF Pending
<1>4. CASE d = c /\ SameCall(c) /\ (SameReading(c) \/ (calls'[c].n = reads + 1 /\ reads' = reads + 1))
  BY <1>2, <1>4 DEF SameCall, SameReading, Pending
<1> QED BY <1>1, <1>2, <1>3, <1>4 DEF Finishes, Asks, Merges, Breaks, Drops

\* What is awaited after an arrival was awaited before it, and is another call.
LEMMA PendingLess ==
  ASSUME TypeOK, NEW c \in Calls, calls' = [calls EXCEPT ![c] = NULL], NEW d \in Calls, d \in Pending'
  PROVE  d # c /\ d \in Pending /\ calls'[d] = calls[d]
BY DEF Pending, TypeOK, RouteType

\* A call that is no request of this page for stats does not make it wait.
LEMMA PendingSame ==
  ASSUME TypeOK, NEW call \in Call, Send(call), call.what = "history" \/ call.who = "other",
         NEW d \in Calls, d \in Pending'
  PROVE  d \in Pending /\ calls'[d] = calls[d]
<1>1. PICK c \in Calls : calls' = [calls EXCEPT ![c] = call]
  BY Sent DEF TypeOK
<1> QED BY <1>1 DEF Pending, TypeOK, RouteType

\* The interval asks for nothing while an answer is awaited.
LEMMA PollPending ==
  ASSUME TypeOK, OneFetch, OnePending, Poll, ~crossed
  PROVE  \E c \in Calls : Pending' \subseteq {c} /\ calls'[c].who = "panel" /\ calls'[c].n = 0
<1>1. Pending = {}
  BY DEF OnePending, OneFetch, Poll, MayFetch, Pending, Fetches
<1>2. PICK c \in Calls : c \in Spare /\ calls' = [calls EXCEPT ![c] = Request("stats", "panel", "1h")]
  BY Sent, Requests DEF Poll, TypeOK
<1>3. /\ Request("stats", "panel", "1h").what = "stats" /\ Request("stats", "panel", "1h").who = "panel"
      /\ Request("stats", "panel", "1h").n = 0
  BY DEF Request
<1>4. \A d \in Calls : calls'[d] = IF d = c THEN Request("stats", "panel", "1h") ELSE calls[d]
  BY <1>2 DEF TypeOK, RouteType
<1> QED BY <1>1, <1>3, <1>4 DEF Pending

\* The window that opens asks for stats in one slot, and nothing was awaited.
LEMMA MountPending ==
  ASSUME TypeOK, Mount, ~crossed'
  PROVE  \E c \in Calls : Pending' \subseteq {c} /\ calls'[c].who = "panel" /\ calls'[c].n = 0
<1>1. Pending = {}
  BY DEF Mount
<1>2. PICK c \in Spare, d \in Spare :
         /\ c # d
         /\ calls' = [calls EXCEPT ![c] = Request("stats", "panel", "1h"),
                                   ![d] = Request("history", "panel", "1h")]
  BY Opened DEF TypeOK
<1>3. /\ Request("stats", "panel", "1h").who = "panel" /\ Request("stats", "panel", "1h").n = 0
      /\ Request("history", "panel", "1h").what = "history"
  BY DEF Request
<1>4. \A e \in Calls : calls'[e] = IF e = d THEN Request("history", "panel", "1h")
                                   ELSE IF e = c THEN Request("stats", "panel", "1h") ELSE calls[e]
  BY <1>2 DEF TypeOK, RouteType, Spare
<1>5. c \in Calls /\ d \in Calls
  BY <1>2 DEF Spare
<1>6. \A e \in Calls : e # c => e \notin Pending'
  BY <1>1, <1>3, <1>4 DEF Pending
<1> QED BY <1>2, <1>3, <1>4, <1>5, <1>6 DEF Pending

\* Closing the window leaves what is awaited awaited.
LEMMA UnmountPending ==
  ASSUME TypeOK, Unmount, NEW d \in Calls, d \in Pending'
  PROVE  d \in Pending /\ calls'[d].n = calls[d].n
<1>1. calls'[d] = IF calls[d] = NULL \/ calls[d].who = "other" THEN calls[d]
                  ELSE [calls[d] EXCEPT !.who = "gone"]
  BY DEF Unmount
<1>2. calls[d] # NULL /\ calls[d].who # "other"
  BY <1>1 DEF Pending
<1>3. calls[d] \in Call
  BY <1>2 DEF TypeOK, RouteType
<1>4. calls'[d].what = calls[d].what /\ calls'[d].n = calls[d].n
  BY <1>1, <1>2, <1>3 DEF Call
<1> QED BY <1>2, <1>4 DEF Pending

\* The panel appends what has a number, and takes over what the table had.
LEMMA ChartedStep ==
  ASSUME TypeOK, Numbered, Tabled, Charted, [Next]_vars
  PROVE  Charted'
<1> USE DEF TypeOK, RouteType, PanelType
<1>0. /\ reads \in Nat /\ chart \in Seq(Nat) /\ cached.chart \in Seq(Nat)
      /\ \A c \in Calls : calls[c] # NULL => calls[c] \in Call /\ calls[c].n \in Nat
  BY DEF Call
<1>1. CASE Mount \/ Poll \/ OtherPoll \/ \E r \in {"1h", "6h"} : ChooseRange(r)
  <2>1. reads' = reads /\ cached' = cached /\ chart' \in {chart, cached.chart}
    BY <1>1 DEF Mount, Poll, OtherPoll, ChooseRange, panel
  <2>2. \A c \in Calls : calls'[c] = calls[c] \/ calls'[c].stage = "sent"
    BY <1>1, SendEffects DEF Fresh
  <2>3. \A c \in Calls : At(c, "stats", "ok")' => calls'[c].who # "other" /\ calls'[c].n > 0
    BY <2>2 DEF At, Charted
  <2> QED BY <2>1, <2>3 DEF Charted
<1>2. CASE Unmount
  <2>1. reads' = reads /\ cached' = cached /\ chart' = <<>>
    BY <1>2 DEF Unmount
  <2>2. \A c \in Calls : calls'[c] = calls[c] \/ (calls[c] # NULL /\ calls'[c] = [calls[c] EXCEPT !.who = "gone"])
    BY <1>2 DEF Unmount
  <2>3. \A call \in Call : /\ [call EXCEPT !.who = "gone"].n = call.n
                           /\ [call EXCEPT !.who = "gone"].who = "gone"
                           /\ [call EXCEPT !.who = "gone"].what = call.what
                           /\ [call EXCEPT !.who = "gone"].stage = call.stage
    BY DEF Call
  <2>4. ASSUME NEW c \in Calls, At(c, "stats", "ok")' PROVE calls'[c].who # "other" /\ calls'[c].n > 0
    <3>1. CASE calls'[c] = calls[c]
      BY <2>4, <3>1 DEF At, Charted
    <3>2. CASE calls[c] # NULL /\ calls'[c] = [calls[c] EXCEPT !.who = "gone"]
      <4>1. /\ calls'[c].n = calls[c].n /\ calls'[c].who = "gone" /\ calls'[c].what = calls[c].what
            /\ calls'[c].stage = calls[c].stage
        BY <1>0, <2>3, <3>2
      <4> QED BY <2>4, <3>2, <4>1 DEF At, Charted
    <3> QED BY <2>2, <3>1, <3>2
  <2>5. Below(<<>>, reads + 1)
    BY DEF Below
  <2> QED BY <2>1, <2>4, <2>5 DEF Charted
<1>3. CASE AgentStep
  BY <1>3 DEF AgentStep, panel, Charted, At
<1>4. ASSUME NEW c \in Calls, Route(c) PROVE Charted'
  <2>1. chart' = chart /\ cached' = cached /\ reads' \in {reads, reads + 1}
    BY <1>4, RouteEffects DEF Route, panel
  <2>2. Below(chart, reads' + 1) /\ Below(cached.chart, reads' + 1)
    <3>1. reads + 1 \in Nat /\ reads' + 1 \in Nat /\ reads + 1 <= reads' + 1
      <4>1. reads \in Nat /\ (reads' = reads \/ reads' = reads + 1)
        BY <1>0, <2>1
      <4> HIDE DEF TypeOK
      <4> QED BY <4>1
    <3> QED BY <1>0, <3>1, BelowMore DEF Charted
  <2>3. ASSUME NEW d \in Calls, At(d, "stats", "ok")' PROVE calls'[d].who # "other" /\ calls'[d].n > 0
    <3>1. CASE d # c
      <4>1. calls'[d] = calls[d]
        BY <1>4, <3>1, RouteEffects DEF Route
      <4> QED BY <2>3, <4>1 DEF At, Charted
    <3>2. CASE d = c
      <4>1. \/ At(c, "stats", "ok") /\ calls'[c] = calls[c]
            \/ calls'[c].who # "other" /\ calls'[c].n = reads + 1
        BY <1>4, <2>3, <3>2, RouteAnswers DEF Route
      <4> QED BY <1>0, <3>2, <4>1 DEF Charted
    <3> QED BY <3>1, <3>2
  <2> QED BY <2>1, <2>2, <2>3 DEF Charted
<1>5. ASSUME NEW c \in Calls, StatsArrive(c) \/ HistoryArrives(c) PROVE Charted'
  <2>1. calls' = [calls EXCEPT ![c] = NULL] /\ reads' = reads /\ calls[c] # NULL
    BY <1>5 DEF StatsArrive, HistoryArrives, Gone, At
  <2>2. \A d \in Calls : At(d, "stats", "ok")' => At(d, "stats", "ok") /\ calls'[d] = calls[d]
    BY <2>1 DEF At
  <2>3. Below(calls[c].list, reads + 1)
    BY <2>1 DEF Tabled, Ordered
  <2>4. ASSUME NEW seq \in Seq(Nat), Below(seq, reads + 1), calls[c].n > 0, StatsArrive(c),
               seq = chart \/ seq = cached.chart
        PROVE  Below(Append(seq, calls[c].n), reads + 1)
    <3>1. Len(seq) \in Nat /\ DOMAIN seq = 1..Len(seq)
      BY LenProperties
    <3>2. /\ DOMAIN Append(seq, calls[c].n) = 1..(Len(seq) + 1)
          /\ Append(seq, calls[c].n)[Len(seq) + 1] = calls[c].n
          /\ \A i \in 1..Len(seq) : Append(seq, calls[c].n)[i] = seq[i]
      BY <1>0, <2>1, AppendProperties, LenProperties
    <3>3. calls[c].n < reads + 1
      BY <1>0, <2>1 DEF Numbered
    <3>4. \A i \in 1..(Len(seq) + 1) : i \in 1..Len(seq) \/ i = Len(seq) + 1
      BY <3>1
    <3> QED BY <2>4, <3>1, <3>2, <3>3, <3>4 DEF Below
  <2>5. CASE StatsArrive(c) /\ calls[c].stage = "ok"
    <3>1. calls[c].n > 0
      BY <2>5 DEF StatsArrive, At, Charted
    <3>2. /\ chart' \in {chart, Append(chart, calls[c].n)}
          /\ cached'.chart = Append(cached.chart, calls[c].n)
      BY <2>5 DEF StatsArrive
    <3> QED BY <1>0, <2>1, <2>2, <2>4, <2>5, <3>1, <3>2 DEF Charted
  <2>6. CASE StatsArrive(c) /\ calls[c].stage # "ok"
    <3>1. chart' = chart /\ cached' = cached
      BY <2>6 DEF StatsArrive
    <3> QED BY <2>1, <2>2, <3>1 DEF Charted
  <2>7. CASE HistoryArrives(c)
    <3>1. chart' \in {chart, calls[c].list} /\ cached'.chart \in {cached.chart, calls[c].list}
      BY <2>7 DEF HistoryArrives
    <3> QED BY <2>1, <2>2, <2>3, <3>1 DEF Charted
  <2> QED BY <1>5, <2>5, <2>6, <2>7
<1>6. CASE UNCHANGED vars
  BY <1>6 DEF vars, stats, panel, Charted, At
<1> QED BY <1>1, <1>2, <1>3, <1>4, <1>5, <1>6 DEF Next

\* One request at a time, and the window opened again only when its last answer had come.
LEMMA OnePendingStep ==
  ASSUME TypeOK, OneFetch, OnePending, [Next]_vars
  PROVE  OnePending'
<1> SUFFICES ASSUME ~crossed' PROVE OnePending'
  BY DEF OnePending
<1>0. ~crossed
  BY Crossed
<1>1. ASSUME mounted' => mounted,
             \A d \in Calls : d \in Pending' => d \in Pending /\ calls'[d].who = calls[d].who
      PROVE  OnePending'
  BY <1>0, <1>1 DEF OnePending, Pending
<1>2. ASSUME NEW c \in Calls, Pending' \subseteq {c}, calls'[c].who = "panel" PROVE OnePending'
  BY <1>2 DEF OnePending
<1>3. CASE Mount
  BY <1>2, <1>3, MountPending
<1>4. CASE Poll
  BY <1>0, <1>2, <1>4, PollPending
<1>5. CASE OtherPoll
  <2>1. Request("stats", "other", "1h").who = "other" /\ mounted' = mounted
    BY <1>5 DEF Request, OtherPoll, panel
  <2> QED BY <1>1, <1>5, <2>1, PendingSame, Requests DEF OtherPoll
<1>6. ASSUME NEW r \in {"1h", "6h"}, ChooseRange(r) PROVE OnePending'
  <2>1. Request("history", "panel", r).what = "history" /\ mounted' = mounted
    BY <1>6 DEF Request, ChooseRange
  <2> QED BY <1>1, <1>6, <2>1, PendingSame, Requests DEF ChooseRange
<1>7. CASE Unmount
  <2>1. ~mounted'
    BY <1>7 DEF Unmount
  <2>2. \A d \in Calls : d \in Pending' => d \in Pending
    BY <1>7, UnmountPending
  <2> QED BY <1>0, <2>1, <2>2 DEF OnePending, Pending
<1>8. CASE AgentStep
  <2>1. mounted' = mounted /\ calls' = calls
    BY <1>8 DEF AgentStep, panel
  <2> QED BY <1>1, <2>1 DEF Pending
<1>9. ASSUME NEW c \in Calls, Route(c) PROVE OnePending'
  <2>1. mounted' = mounted
    BY <1>9 DEF Route, panel
  <2> QED BY <1>1, <1>9, <2>1, PendingRoute DEF Route
<1>10. ASSUME NEW c \in Calls, StatsArrive(c) \/ HistoryArrives(c) PROVE OnePending'
  <2>1. calls' = [calls EXCEPT ![c] = NULL] /\ mounted' = mounted
    BY <1>10 DEF StatsArrive, HistoryArrives, Gone
  <2> QED BY <1>1, <2>1, PendingLess
<1>11. CASE UNCHANGED vars
  <2>1. mounted' = mounted /\ calls' = calls
    BY <1>11 DEF vars, stats, panel
  <2> QED BY <1>1, <2>1 DEF Pending
<1> QED BY <1>3, <1>4, <1>5, <1>6, <1>7, <1>8, <1>9, <1>10, <1>11 DEF Next

\* A reading gets the next number; an answer goes to the end of the chart, and was the only one
\* awaited; a history takes the chart's place and holds nothing that is still awaited.
LEMMA AheadStep ==
  ASSUME TypeOK, OneFetch, Tabled, Charted, OnePending, Ahead, [Next]_vars
  PROVE  Ahead'
<1> USE DEF TypeOK, RouteType, PanelType
<1> SUFFICES ASSUME ~crossed' PROVE Ahead'
  BY DEF Ahead
<1>0. /\ ~crossed /\ reads \in Nat /\ chart \in Seq(Nat) /\ cached.chart \in Seq(Nat)
      /\ \A c \in Calls : calls[c] # NULL => calls[c] \in Call /\ calls[c].n \in Nat
  BY Crossed DEF Call
<1>1. ASSUME chart' \in {chart, cached.chart, <<>>}, cached'.chart = cached.chart,
             \A d \in Calls : d \in Pending' =>
               \/ d \in Pending /\ calls'[d].n = calls[d].n
               \/ calls'[d].n = 0
               \/ calls'[d].n = reads + 1
      PROVE  Ahead'
  <2>1. Increases(chart') /\ Increases(cached'.chart)
    BY <1>0, <1>1 DEF Ahead, Increases
  <2>2. ASSUME NEW d \in Calls, d \in Pending', calls'[d].n > 0
        PROVE  Below(chart', calls'[d].n) /\ Below(cached'.chart, calls'[d].n)
    <3>1. Below(<<>>, calls'[d].n)
      BY DEF Below
    <3>2. CASE d \in Pending /\ calls'[d].n = calls[d].n
      BY <1>0, <1>1, <2>2, <3>1, <3>2 DEF Ahead
    <3>3. CASE calls'[d].n = reads + 1
      BY <1>1, <3>1, <3>3 DEF Charted
    <3> QED BY <1>1, <2>2, <3>2, <3>3
  <2> QED BY <2>1, <2>2 DEF Ahead, Pending
<1>2. CASE Mount
  BY <1>1, <1>2, MountPending DEF Mount
<1>3. CASE Poll
  BY <1>0, <1>1, <1>3, PollPending DEF Poll
<1>4. CASE OtherPoll
  <2>1. Request("stats", "other", "1h").who = "other" /\ chart' = chart /\ cached' = cached
    BY <1>4 DEF Request, OtherPoll, panel
  <2> QED BY <1>1, <1>4, <2>1, PendingSame, Requests DEF OtherPoll
<1>5. ASSUME NEW r \in {"1h", "6h"}, ChooseRange(r) PROVE Ahead'
  <2>1. Request("history", "panel", r).what = "history" /\ chart' = chart /\ cached' = cached
    BY <1>5 DEF Request, ChooseRange
  <2> QED BY <1>1, <1>5, <2>1, PendingSame, Requests DEF ChooseRange
<1>6. CASE Unmount
  BY <1>1, <1>6, UnmountPending DEF Unmount
<1>7. CASE AgentStep \/ UNCHANGED vars
  <2>1. chart' = chart /\ cached' = cached /\ calls' = calls
    BY <1>7 DEF AgentStep, vars, stats, panel
  <2> QED BY <1>1, <2>1 DEF Pending
<1>8. ASSUME NEW c \in Calls, Route(c) PROVE Ahead'
  <2>1. chart' = chart /\ cached' = cached
    BY <1>8 DEF Route, panel
  <2> QED BY <1>1, <1>8, <2>1, PendingRoute DEF Route
<1>9. ASSUME NEW c \in Calls, StatsArrive(c), calls[c].stage = "ok" PROVE Ahead'
  <2>1. /\ calls' = [calls EXCEPT ![c] = NULL] /\ calls[c] # NULL
        /\ chart' \in {chart, Append(chart, calls[c].n)}
        /\ cached'.chart = Append(cached.chart, calls[c].n)
    BY <1>9 DEF StatsArrive, Gone, At
  <2>2. c \in Pending /\ calls[c].n > 0
    BY <1>9 DEF StatsArrive, At, Charted, Pending
  <2>3. Pending' = {}
    BY <1>0, <2>1, <2>2, PendingLess DEF OnePending, Pending
  <2>4. Increases(chart) /\ Below(chart, calls[c].n) /\ Increases(cached.chart) /\ Below(cached.chart, calls[c].n)
    BY <1>0, <2>2 DEF Ahead
  <2>5. Increases(Append(chart, calls[c].n)) /\ Increases(Append(cached.chart, calls[c].n))
    BY <1>0, <2>1, <2>4, AppendOrdered
  <2> QED BY <2>1, <2>3, <2>4, <2>5 DEF Ahead
<1>10. ASSUME NEW c \in Calls, StatsArrive(c), calls[c].stage # "ok" PROVE Ahead'
  <2>1. calls' = [calls EXCEPT ![c] = NULL] /\ chart' = chart /\ cached' = cached
    BY <1>10 DEF StatsArrive, Gone
  <2> QED BY <1>1, <2>1, PendingLess
<1>11. ASSUME NEW c \in Calls, HistoryArrives(c) PROVE Ahead'
  <2> DEFINE list == calls[c].list
  <2>1. /\ calls' = [calls EXCEPT ![c] = NULL] /\ calls[c] # NULL
        /\ chart' \in {chart, list} /\ cached'.chart \in {cached.chart, list}
        /\ \A d \in Pending, i \in DOMAIN list : ~(0 < calls[d].n /\ calls[d].n <= list[i])
    BY <1>11 DEF HistoryArrives, Gone, At
  <2>2. list \in Seq(Nat) /\ Increases(list)
    BY <1>0, <2>1 DEF Call, Tabled, Ordered
  <2> HIDE DEF list
  <2>3. \A i \in DOMAIN list : list[i] \in Nat
    BY <2>2, ElementOfSeq, LenProperties
  <2>4. ASSUME NEW d \in Pending, calls[d].n > 0 PROVE Below(list, calls[d].n)
    <3>1. calls[d].n \in Nat
      BY <1>0 DEF Pending
    <3> QED BY <2>1, <2>3, <2>4, <3>1 DEF Below
  <2>5. ASSUME NEW d \in Calls, d \in Pending' PROVE d \in Pending /\ calls'[d] = calls[d]
    BY <2>1, <2>5, PendingLess
  <2>6. ASSUME NEW d \in Pending', calls'[d].n > 0
        PROVE  Below(chart', calls'[d].n) /\ Below(cached'.chart, calls'[d].n)
    <3>1. d \in Pending /\ calls'[d] = calls[d]
      BY <2>5 DEF Pending
    <3> QED BY <1>0, <2>1, <2>4, <2>6, <3>1 DEF Ahead
  <2>7. Increases(chart') /\ Increases(cached'.chart)
    BY <1>0, <2>1, <2>2 DEF Ahead
  <2> QED BY <2>6, <2>7 DEF Ahead
<1> QED BY <1>2, <1>3, <1>4, <1>5, <1>6, <1>7, <1>8, <1>9, <1>10, <1>11 DEF Next

\* The table, the histories on their way, the answers on their way and the chart are in order in
\* every state, for as long as no answer was overtaken.
THEOREM ChartInvariance == Spec => []ChartInv
<1>1. Init => ChartInv
  <2> USE DEF Init, StatsInit, AgentInit
  <2>1. Init => Ordered(<<>>, reads + 1) /\ Below(<<>>, reads + 1) /\ Increases(<<>>)
    BY DEF Ordered, Increases, Below
  <2>2. Init => Tabled /\ Charted
    BY <2>1 DEF Tabled, Charted, At
  <2>3. Init => OnePending /\ Ahead
    BY <2>1 DEF OnePending, Ahead, Pending
  <2> QED BY <2>2, <2>3 DEF ChartInv
<1>2. IInv /\ ChartInv /\ [Next]_vars => ChartInv'
  BY TabledStep, ChartedStep, OnePendingStep, AheadStep DEF IInv, ChartInv
<1> QED BY <1>1, <1>2, Invariance, PTL DEF Spec

\* The chart has its readings in order and each of them once, however many histories, live
\* readings and other browsers there are: unless a history has overtaken a live reading that it
\* contains, or the window was opened again before the last answer came.
THEOREM ChartSafe == Spec => []ChartInOrder
<1>1. ChartInv => ChartInOrder
  BY DEF ChartInv, Ahead, ChartInOrder
<1> QED BY <1>1, ChartInvariance, PTL

=============================================================================
