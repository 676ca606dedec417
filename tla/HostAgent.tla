------------------------------ MODULE HostAgent ------------------------------
(* The host agents, agent/main.go and scripts/host-agent.js: a request is  *)
(* answered from a cache that is younger than its time to live, else from  *)
(* a collection that takes a while and fills the cache.  Requests do not   *)
(* wait for each other, so collections overlap.                            *)
EXTENDS Integers

CONSTANTS
  Calls,    \* slots for requests that are on their way at once
  Ttl,      \* cacheTTL, CACHE_TTL: 2 s
  Slow,     \* the longest collection
  MaxTime,  \* bound on the clock
  NULL

ASSUME HostAgentAssumption == Ttl \in Nat \ {0} /\ Slow \in Nat /\ MaxTime \in Nat

VARIABLES
  now,
  kind,   \* which agent is installed: "go" or "node"
  cache,  \* NULL, or [at, updated]: a reading by the time its collection began, and its stamp
  req     \* req[c]: NULL, or [stage, at, age] of a request; age is that of the answer

agent == <<now, kind, cache, req>>

AgentInit ==
  /\ now = 0 /\ kind \in {"go", "node"}
  /\ cache = NULL /\ req = [c \in Calls |-> NULL]

Answer(at)        == [stage |-> "answered", at |-> at, age |-> now - at]
InStage(c, stage) == req[c] # NULL /\ req[c].stage = stage

\* cache.get, and the condition of getMetrics.
Cached == cache # NULL /\ now - cache.updated < Ttl

\* handleMetrics and metricsHandler.
GetMetrics ==
  IF Cached THEN Answer(cache.at) ELSE [stage |-> "collecting", at |-> now, age |-> 0]

\* cache.set stamps with the time at which the collection ended.
GoStamp(c) == now

\* Mutated form: cacheTime = Date.now() after the await.
MutNodeStamp(c) == now

\* getMetrics stamps with the time at which it looked at the cache.
NodeStamp(c) == req[c].at

\* collectMetrics has its reading: it is stored, whatever is there by now, and answered.
Collected(c) ==
  /\ InStage(c, "collecting")
  /\ cache' = [at |-> req[c].at, updated |-> IF kind = "go" THEN GoStamp(c) ELSE NodeStamp(c)]
  /\ req' = [req EXCEPT ![c] = Answer(req[c].at)]
  /\ UNCHANGED <<now, kind>>

\* It dies, and KeepAlive of launchd, Restart=always of systemd or the user brings it back.
AgentRestarts ==
  /\ cache' = NULL
  /\ req' = [c \in Calls |-> IF InStage(c, "collecting") THEN NULL ELSE req[c]]
  /\ UNCHANGED <<now, kind>>

Tick ==
  /\ now < MaxTime /\ now' = now + 1
  /\ \A c \in Calls : InStage(c, "collecting") => now - req[c].at < Slow
  /\ UNCHANGED <<kind, cache, req>>

-----------------------------------------------------------------------------
\* How old an answer is at most.  Go stamps its cache when a collection ends, so the time the
\* collection took comes on top of the time to live; Node stamps it with its beginning.
AnswersAreRecent ==
  \A c \in Calls : InStage(c, "answered") =>
    IF kind = "go" THEN req[c].age < Ttl + Slow ELSE req[c].age < Ttl \/ req[c].age <= Slow
=============================================================================
