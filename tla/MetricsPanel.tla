----------------------------- MODULE MetricsPanel -----------------------------
(* MetricsSection of components/dashboard/metrics-section.tsx, composed    *)
(* with the routes and the agent behind it: stats every five seconds, one  *)
(* request at a time, each appended to the chart; a history whenever the   *)
(* range is chosen, which replaces it; and module-level copies of both     *)
(* that outlive the window.  Other parts of the dashboard poll the same    *)
(* route.  The demonstration of the landing page is left out.              *)
EXTENDS Stats

CONSTANT MaxClicks  \* bound on what the user does

ASSUME MetricsPanelAssumption == MaxClicks \in Nat /\ IsFiniteSet(Calls)

VARIABLES
  mounted,
  isFetching,
  shown,       \* `stats': [n, at], or NULL
  chart,       \* `history', by the numbers of the readings
  range,
  cached,      \* [stats, chart]: cachedStats and cachedHistory["1h"], the one that is read
  clicks,
  overlapped,  \* history: two collections of the agent ran at once
  crossed      \* history: a stats answer was on its way past a newer history or a second window

panel == <<mounted, isFetching, shown, chart, range, cached>>
vars  == <<stats, panel, clicks, overlapped, crossed>>

Init ==
  /\ StatsInit
  /\ mounted = FALSE /\ isFetching = FALSE /\ shown = NULL /\ chart = <<>> /\ range = "1h"
  /\ cached = [stats |-> NULL, chart |-> <<>>]
  /\ clicks = 0 /\ overlapped = FALSE /\ crossed = FALSE

Click == clicks < MaxClicks /\ clicks' = clicks + 1

Spare  == {c \in Calls : calls[c] = NULL /\ req[c] = NULL}
Unread == {c \in Calls : \E s \in {"sent", "reading", "waiting"} : At(c, "stats", s)}
MayAsk == reads + Cardinality(Unread) < MaxReads

\* One slot is as good as another.
Send(call) ==
  /\ Spare # {}
  /\ calls' = [calls EXCEPT ![CHOOSE c \in Spare : TRUE] = call]

\* Stats of this page that are not there yet.
Pending == {c \in Calls : calls[c] # NULL /\ calls[c].what = "stats" /\ calls[c].who # "other"}

-----------------------------------------------------------------------------
\* The first history and the first stats are asked for together.
Mount ==
  /\ ~mounted /\ Click /\ MayAsk
  /\ Cardinality(Spare) > 1
  /\ LET c == CHOOSE c \in Spare : TRUE
         d == CHOOSE d \in Spare \ {c} : TRUE
     IN  calls' = [calls EXCEPT ![c] = Request("stats", "panel", "1h"),
                                ![d] = Request("history", "panel", "1h")]
  /\ mounted' = TRUE /\ isFetching' = TRUE /\ range' = "1h"
  /\ shown' = cached.stats /\ chart' = cached.chart
  /\ crossed' = (crossed \/ Pending # {})
  /\ UNCHANGED <<agent, rows, reads, cached, overlapped>>

\* What was asked for arrives all the same, and goes into the copies.
Unmount ==
  /\ mounted /\ Click
  /\ mounted' = FALSE /\ isFetching' = FALSE /\ shown' = NULL /\ chart' = <<>> /\ range' = "1h"
  /\ calls' = [c \in Calls |-> IF calls[c] = NULL \/ calls[c].who = "other" THEN calls[c]
                               ELSE [calls[c] EXCEPT !.who = "gone"]]
  /\ UNCHANGED <<agent, rows, reads, cached, overlapped, crossed>>

\* setRange, and the effect that follows it.
ChooseRange(r) ==
  /\ mounted /\ r # range /\ Click
  /\ range' = r /\ Send(Request("history", "panel", r))
  /\ UNCHANGED <<agent, rows, reads, mounted, isFetching, shown, chart, cached, overlapped, crossed>>

\* Mutated form: every tick of the interval fetches.
MutMayFetch == TRUE

MayFetch == ~isFetching

\* fetchStats, by the interval.
Poll ==
  /\ mounted /\ MayFetch /\ MayAsk
  /\ isFetching' = TRUE /\ Send(Request("stats", "panel", "1h"))
  /\ UNCHANGED <<agent, rows, reads, mounted, shown, chart, range, cached, clicks, overlapped,
                 crossed>>

\* The dashboard's other panels, and other browsers.
OtherPoll ==
  /\ MayAsk /\ Send(Request("stats", "other", "1h"))
  /\ UNCHANGED <<agent, rows, reads, panel, clicks, overlapped, crossed>>

-----------------------------------------------------------------------------
Gone(c) == [calls EXCEPT ![c] = NULL]
Heard(c) == calls[c].who = "panel"

\* The reading is shown and appended; the copies take it even when nobody shows it any more.
StatsArrive(c) ==
  /\ At(c, "stats", "ok") \/ At(c, "stats", "failed")
  /\ LET new == calls[c].stage = "ok"
         s   == [n |-> calls[c].n, at |-> calls[c].at]
     IN  /\ shown'  = IF new /\ Heard(c) THEN s ELSE shown
         /\ chart'  = IF new /\ Heard(c) THEN Append(chart, s.n) ELSE chart
         /\ cached' = IF new THEN [stats |-> s, chart |-> Append(cached.chart, s.n)] ELSE cached
  /\ isFetching' = (isFetching /\ ~Heard(c))
  /\ calls' = Gone(c)
  /\ UNCHANGED <<agent, rows, reads, mounted, range, clicks, overlapped, crossed>>

\* Whatever was appended since the history was read is replaced with it.
HistoryArrives(c) ==
  /\ At(c, "history", "ok")
  /\ LET list == calls[c].list
     IN  /\ chart'   = IF Heard(c) THEN list ELSE chart
         /\ cached'  = IF calls[c].range = "1h" THEN [cached EXCEPT !.chart = list] ELSE cached
         /\ crossed' = (crossed \/ \E d \in Pending, i \in DOMAIN list : 0 < calls[d].n /\ calls[d].n <= list[i])
  /\ calls' = Gone(c)
  /\ UNCHANGED <<agent, rows, reads, mounted, isFetching, shown, range, clicks, overlapped>>

Collecting == {c \in Calls : InStage(c, "collecting")}

AgentStep ==
  /\ \/ AgentRestarts \/ Tick
     \/ \E c \in Calls : Collected(c)
  /\ UNCHANGED <<calls, rows, reads, panel, clicks, overlapped, crossed>>

Route(c) ==
  /\ Serve(c) \/ Fail(c)
  /\ overlapped' = (overlapped \/ Cardinality(Collecting') > 1)
  /\ UNCHANGED <<panel, clicks, crossed>>

Next ==
  \/ Mount \/ Unmount \/ Poll \/ OtherPoll \/ AgentStep
  \/ \E r \in {"1h", "6h"} : ChooseRange(r)
  \/ \E c \in Calls : Route(c) \/ StatsArrive(c) \/ HistoryArrives(c)

Spec == Init /\ [][Next]_vars

-----------------------------------------------------------------------------
\* An open panel never shows an older reading after a newer one, of the containers or of the
\* host, as long as the agent did not collect for two requests at once: then the slower one is
\* stored last, and its reading is older.
ShownNeverGoesBack ==
  [][mounted /\ mounted' /\ shown # NULL /\ shown' # NULL /\ ~overlapped =>
       /\ shown.n <= shown'.n
       /\ shown.at >= 0 /\ shown'.at >= 0 => shown.at <= shown'.at]_vars

Increases(seq) == \A i, j \in DOMAIN seq : i < j => seq[i] < seq[j]

\* The chart has its readings in order and each of them once, although it is put together from
\* histories and live readings: unless a history has overtaken a live reading that it contains,
\* or the window was opened again before the last answer came.
ChartInOrder == ~crossed => Increases(chart) /\ Increases(cached.chart)
=============================================================================
