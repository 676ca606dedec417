-------------------------------- MODULE Ollama --------------------------------
(* components/dashboard/ollama-section.tsx and its routes under            *)
(* app/api/ollama: the list of models, a pull that streams its progress, a *)
(* deletion that is shown before it is done, and the drawer of details, in *)
(* a window that is unmounted whenever it is minimised.                    *)
(*                                                                         *)
(* A call is on its way until the server has dealt with it and its answer  *)
(* arrives; answers overtake each other.  The routes answer in time or     *)
(* with a 503 or 504, but what a request did at Ollama stays done.  The    *)
(* pull route does not hand the abort of the browser on to Ollama          *)
(* (pull/route.ts:17-21), so a pull may go on there with nobody to hear    *)
(* of it; whether it does is up to the server that runs the route.         *)
EXTENDS Integers

CONSTANTS
  Models,
  Calls,      \* slots for list and delete calls that may be on their way at once
  MaxClicks,  \* bound on what the user does
  NULL

States    == {"sent", "ok", "failed"}
Listings  == [kind : {"list"}, own : BOOLEAN, state : States, answer : SUBSET Models]
Deletions == [kind : {"delete"}, model : Models, saved : (SUBSET Models) \cup {NULL}, state : States]
Pulls     == [name : Models, at : {"stream", "done", "listing"}, said : BOOLEAN, bad : BOOLEAN]

ASSUME OllamaAssumption ==
  /\ MaxClicks \in Nat
  /\ NULL \notin Models \cup Listings \cup Deletions \cup Pulls \cup BOOLEAN
  /\ \A s \in SUBSET Models : s # NULL

VARIABLES
  library,   \* the models at Ollama
  streams,   \* streams of the pull route that this page has open
  orphans,   \* the models whose pull goes on at Ollama with no stream to the page
  mounted,
  list,      \* models, healthy, loading
  calls,     \* calls[c]: a list or delete call on its way, or NULL
  pull,      \* the call of handlePull that runs, or NULL: then isPulling is false
  progress,  \* pullProgress
  timers,    \* entries of progress whose removal is pending
  drawer,    \* drawerModel, drawerData (the model it is about), drawerLoading
  asked,     \* asked[m]: show calls on their way
  confirm,   \* deleteConfirm
  clicks,
  crossed,   \* history: list and delete calls overlapped, or the end of one was not heard of
  mixed      \* history: two models were asked for at once

serverVars == <<library, streams, orphans>>
pullVars   == <<pull, progress, timers>>
drawVars   == <<drawer, asked, mixed>>
vars == <<serverVars, mounted, list, calls, pullVars, drawVars, confirm, clicks, crossed>>

Fresh  == [models |-> {}, healthy |-> NULL, loading |-> TRUE]
Closed == [model |-> NULL, data |-> NULL, loading |-> FALSE]
Empty  == [m \in Models |-> "none"]

Listing(own)     == [kind |-> "list", own |-> own, state |-> "sent", answer |-> {}]
Deletion(m, old) == [kind |-> "delete", model |-> m, saved |-> old, state |-> "sent"]

\* call is on its way.
Send(c, call) ==
  /\ calls[c] = NULL
  /\ calls' = [calls EXCEPT ![c] = call]
  /\ crossed' = (crossed \/ \E d \in Calls : calls[d] # NULL)

Click == clicks < MaxClicks /\ clicks' = clicks + 1

Init ==
  /\ library \in SUBSET Models /\ streams = 0 /\ orphans = {}
  /\ mounted = FALSE /\ list = Fresh /\ calls = [c \in Calls |-> NULL]
  /\ pull = NULL /\ progress = Empty /\ timers = {}
  /\ drawer = Closed /\ asked = [m \in Models |-> 0] /\ confirm = NULL
  /\ clicks = 0 /\ crossed = FALSE /\ mixed = FALSE

-----------------------------------------------------------------------------
(* The window.                                                             *)

\* The first effect fetches the list.
Mount ==
  /\ ~mounted /\ Click
  /\ mounted' = TRUE
  /\ \E c \in Calls : Send(c, Listing(FALSE))
  /\ UNCHANGED <<serverVars, list, pullVars, drawVars, confirm>>

\* Mutated form: the page reads on behind a window that is gone.
MutAborted == streams

\* The effect without dependencies aborts the fetch of the pull.
Aborted == IF pull # NULL /\ pull.at # "listing" THEN streams - 1 ELSE streams

\* When the page hears no more of its pull, Ollama may stop or go on.
Leave ==
  \/ UNCHANGED orphans
  \/ pull # NULL /\ pull.at = "stream" /\ orphans' = orphans \cup {pull.name}

\* Such a pull ends, with the model or without; nobody who has asked before hears of it.
LeftEnds(m) ==
  /\ m \in orphans /\ orphans' = orphans \ {m}
  /\ library' \in {library, library \cup {m}}
  /\ crossed' = (crossed \/ (library' # library /\ (mounted \/ \E c \in Calls : calls[c] # NULL)))
  /\ UNCHANGED <<streams, mounted, list, calls, pullVars, drawVars, confirm, clicks>>

\* All state is lost; answers find nobody.  A deletion goes on at the server.
Unmount ==
  /\ mounted /\ Click
  /\ mounted' = FALSE
  /\ streams' = Aborted /\ Leave
  /\ list' = Fresh /\ pull' = NULL /\ progress' = Empty /\ timers' = {}
  /\ drawer' = Closed /\ asked' = [m \in Models |-> 0] /\ confirm' = NULL
  /\ calls' = [c \in Calls |->
                 IF calls[c] # NULL /\ calls[c].kind = "delete"
                 THEN [calls[c] EXCEPT !.saved = NULL] ELSE NULL]
  /\ UNCHANGED <<library, crossed, mixed>>

\* The refresh button, disabled while a list is loaded.
Refresh ==
  /\ mounted /\ ~list.loading /\ Click
  /\ list' = [list EXCEPT !.loading = TRUE]
  /\ \E c \in Calls : Send(c, Listing(FALSE))
  /\ UNCHANGED <<serverVars, mounted, pullVars, drawVars, confirm>>

-----------------------------------------------------------------------------
(* Ollama behind the routes.                                               *)

ServeList(c) ==
  /\ calls[c] # NULL /\ calls[c].kind = "list" /\ calls[c].state = "sent"
  /\ \/ calls' = [calls EXCEPT ![c] = [calls[c] EXCEPT !.state = "ok", !.answer = library]]
     \/ calls' = [calls EXCEPT ![c] = [calls[c] EXCEPT !.state = "failed"]]
  /\ UNCHANGED <<serverVars, mounted, list, pullVars, drawVars, confirm, clicks, crossed>>

\* The answer may be a 504 although Ollama has deleted the model, or will have.
ServeDelete(c) ==
  /\ calls[c] # NULL /\ calls[c].kind = "delete" /\ calls[c].state = "sent"
  /\ \E done \in {d \in BOOLEAN : d => calls[c].model \in library}, heard \in BOOLEAN :
       /\ library' = IF done THEN library \ {calls[c].model} ELSE library
       /\ calls' = [calls EXCEPT ![c] = [calls[c] EXCEPT
                                           !.state = IF done /\ heard THEN "ok" ELSE "failed"]]
       /\ crossed' = (crossed \/ (done /\ ~heard))
  /\ UNCHANGED <<streams, orphans, mounted, list, pullVars, drawVars, confirm, clicks>>

-----------------------------------------------------------------------------
(* Lists and deletions.                                                    *)

\* Each change of pullProgress clears the timers and sets those of the entries that ended.
Report(p) ==
  /\ progress' = p
  /\ timers' = {m \in Models : p[m] \in {"success", "error"}}

\* fetchModels, and the rest of handlePull if that is who waits.
ListArrives(c) ==
  /\ calls[c] # NULL /\ calls[c].kind = "list" /\ calls[c].state # "sent"
  /\ list' = [models |-> calls[c].answer, healthy |-> calls[c].state = "ok", loading |-> FALSE]
  /\ IF calls[c].own
     THEN Report([progress EXCEPT ![pull.name] = "success"]) /\ pull' = NULL
     ELSE UNCHANGED pullVars
  /\ calls' = [calls EXCEPT ![c] = NULL]
  /\ UNCHANGED <<serverVars, mounted, drawVars, confirm, clicks, crossed>>

\* A model may be chosen for deletion in the list or in the drawer.
Choosable(m) == (list.healthy # FALSE /\ m \in list.models /\ drawer.model = NULL)
                \/ (drawer.model = m /\ ~drawer.loading)

AskDelete(m) ==
  /\ Choosable(m) /\ confirm # m
  /\ confirm' = m
  /\ UNCHANGED <<serverVars, mounted, list, calls, pullVars, drawVars, clicks, crossed>>

Cancel ==
  /\ confirm # NULL /\ Choosable(confirm)
  /\ confirm' = NULL
  /\ UNCHANGED <<serverVars, mounted, list, calls, pullVars, drawVars, clicks, crossed>>

\* handleDelete takes the model off the list at once; from the drawer, it also closes it.
Delete ==
  /\ confirm # NULL /\ Choosable(confirm) /\ Click
  /\ \E c \in Calls : Send(c, Deletion(confirm, list.models))
  /\ list' = [list EXCEPT !.models = @ \ {confirm}]
  /\ drawer' = IF drawer.model # NULL THEN [drawer EXCEPT !.model = NULL] ELSE drawer
  /\ confirm' = NULL
  /\ UNCHANGED <<serverVars, mounted, pullVars, asked, mixed>>

\* Mutated form: a failure is not looked at.
MutAfterDelete(call) == list.models

\* The list is put back as it was when the deletion began.
AfterDelete(call) == IF call.state = "failed" THEN call.saved ELSE list.models

DeleteArrives(c) ==
  /\ calls[c] # NULL /\ calls[c].kind = "delete" /\ calls[c].state # "sent"
  /\ list' = IF calls[c].saved = NULL THEN list
             ELSE [list EXCEPT !.models = AfterDelete(calls[c])]
  /\ calls' = [calls EXCEPT ![c] = NULL]
  /\ UNCHANGED <<serverVars, mounted, pullVars, drawVars, confirm, clicks, crossed>>

-----------------------------------------------------------------------------
(* Pulling.  pull.at: the stream runs; Ollama has the model; the list is   *)
(* fetched.  said: a line of the stream told its end; bad: with an error.  *)

\* The field and the button are off while a pull runs.
CanPull == mounted /\ pull = NULL

Pull(m) ==
  /\ CanPull /\ Click
  /\ pull' = [name |-> m, at |-> "stream", said |-> FALSE, bad |-> FALSE]
  /\ streams' = streams + 1
  /\ Report([progress EXCEPT ![m] = "going"])
  /\ UNCHANGED <<library, orphans, mounted, list, calls, drawVars, confirm, crossed>>

Streaming == pull # NULL /\ pull.at # "listing"

\* Another percent, or the error Ollama ends with.
Line(status) ==
  /\ Streaming /\ pull.at = "stream" /\ ~pull.said
  /\ Report([progress EXCEPT ![pull.name] = status])
  /\ pull' = [pull EXCEPT !.said = (status = "error"), !.bad = (status = "error")]
  /\ UNCHANGED <<serverVars, mounted, list, calls, drawVars, confirm, clicks, crossed>>

Pulled ==
  /\ Streaming /\ pull.at = "stream" /\ ~pull.said
  /\ library' = library \cup {pull.name} /\ pull' = [pull EXCEPT !.at = "done"]
  /\ UNCHANGED <<streams, orphans, mounted, list, calls, progress, timers, drawVars, confirm,
                 clicks, crossed>>

LastLine ==
  /\ Streaming /\ pull.at = "done" /\ ~pull.said
  /\ Report([progress EXCEPT ![pull.name] = "success"])
  /\ pull' = [pull EXCEPT !.said = TRUE]
  /\ UNCHANGED <<serverVars, mounted, list, calls, drawVars, confirm, clicks, crossed>>

\* The stream ends after its last line, or with a 503 or 404 whose text has no line feed and
\* is never read: that counts as a success.
End ==
  /\ Streaming /\ (pull.said \/ (pull.at = "stream" /\ progress[pull.name] = "going"))
  /\ streams' = streams - 1
  /\ IF pull.bad
     THEN pull' = NULL /\ UNCHANGED <<list, calls, crossed>>
     ELSE /\ pull' = [pull EXCEPT !.at = "listing"]
          /\ list' = [list EXCEPT !.loading = TRUE]
          /\ \E c \in Calls : Send(c, Listing(TRUE))
  /\ UNCHANGED <<library, orphans, mounted, progress, timers, drawVars, confirm, clicks>>

\* fetch or read rejects.
Break ==
  /\ Streaming
  /\ streams' = streams - 1 /\ pull' = NULL /\ Leave
  /\ Report([progress EXCEPT ![pull.name] = "error"])
  /\ crossed' = (crossed \/ pull.at = "done")
  /\ UNCHANGED <<library, mounted, list, calls, drawVars, confirm, clicks>>

Forget(m) ==
  /\ m \in timers
  /\ Report([progress EXCEPT ![m] = "none"])
  /\ UNCHANGED <<serverVars, mounted, list, calls, pull, drawVars, confirm, clicks, crossed>>

-----------------------------------------------------------------------------
(* The drawer.                                                             *)

\* Mutated form: the last drawer is not cleared.
MutOpened(m) == [drawer EXCEPT !.model = m]

Opened(m) == [model |-> m, data |-> NULL, loading |-> TRUE]

\* handleOpenDrawer, from a row that does not ask for confirmation; its backdrop covers the rows.
OpenDrawer(m) ==
  /\ list.healthy # FALSE /\ m \in list.models /\ confirm # m /\ drawer.model = NULL /\ Click
  /\ drawer' = Opened(m)
  /\ asked' = [asked EXCEPT ![m] = @ + 1]
  /\ mixed' = (mixed \/ \E n \in Models \ {m} : asked[n] > 0)
  /\ UNCHANGED <<serverVars, mounted, list, calls, pullVars, confirm, crossed>>

\* The answer, whosever drawer is open by now.
Details(m) ==
  /\ asked[m] > 0
  /\ asked' = [asked EXCEPT ![m] = @ - 1]
  /\ \E data \in {m, NULL} : drawer' = [drawer EXCEPT !.data = data, !.loading = FALSE]
  /\ UNCHANGED <<serverVars, mounted, list, calls, pullVars, mixed, confirm, clicks, crossed>>

\* Its body: a spinner, the details of some model, or that there are none (NULL).
Told == IF drawer.loading THEN {} ELSE {drawer.data}

CloseDrawer ==
  /\ drawer.model # NULL
  /\ drawer' = [drawer EXCEPT !.model = NULL]
  /\ UNCHANGED <<serverVars, mounted, list, calls, pullVars, asked, mixed, confirm, clicks, crossed>>

-----------------------------------------------------------------------------
(* What is on the screen.                                                  *)

\* The badge of the header.
Badge == CASE list.healthy = NULL -> "checking" [] list.healthy = FALSE -> "offline"
           [] OTHER -> "online"

\* activePulls: each has a bar, also if it failed, until it is forgotten.
Bars == {m \in Models : progress[m] \in {"going", "error"}}

Next ==
  \/ Mount \/ Unmount \/ Refresh \/ Cancel \/ Delete \/ CloseDrawer
  \/ Line("going") \/ Line("error") \/ Pulled \/ LastLine \/ End \/ Break
  \/ \E c \in Calls : ServeList(c) \/ ServeDelete(c) \/ ListArrives(c) \/ DeleteArrives(c)
  \/ \E m \in Models : AskDelete(m) \/ Pull(m) \/ Forget(m) \/ OpenDrawer(m) \/ Details(m)
  \/ \E m \in Models : LeftEnds(m)

Spec == Init /\ [][Next]_vars

-----------------------------------------------------------------------------
TypeOK ==
  /\ library \subseteq Models /\ streams \in 0 .. 1 /\ orphans \subseteq Models
  /\ {mounted, crossed, mixed} \subseteq BOOLEAN
  /\ list \in [models : SUBSET Models, healthy : BOOLEAN \cup {NULL}, loading : BOOLEAN]
  /\ calls \in [Calls -> Listings \cup Deletions \cup {NULL}]
  /\ pull \in Pulls \cup {NULL} /\ confirm \in Models \cup {NULL}
  /\ progress \in [Models -> {"none", "going", "success", "error"}] /\ timers \subseteq Models
  /\ drawer \in [model : Models \cup {NULL}, data : Models \cup {NULL}, loading : BOOLEAN]
  /\ asked \in [Models -> Nat]

\* Who lets one thing end before the next begins is told the truth: with no list, deletion or
\* pull under way the list is Ollama's, whatever failed, as long as list and delete calls did
\* not overlap, no success was lost on its way and no pull that was left behind ended meanwhile.
ListIsLibrary ==
  mounted /\ Badge = "online" /\ pull = NULL /\ (\A c \in Calls : calls[c] = NULL) /\ ~crossed
    => list.models = library

\* The page never reads two pulls, also if the window is minimised and opened in between, and
\* the one that it reads has its bar, though a timer of an earlier pull of the model takes bars
\* away.  Pulls that it has left behind at Ollama have neither, and there may be such.
OnePullAtATime ==
  streams <= 1 /\ (Streaming /\ ~pull.said => progress[pull.name] = "going" /\ pull.name \in Bars)

\* The details under the name of a model are that model's, unless another model was asked for
\* before the answer had come.
DrawerTellsOfItsModel ==
  drawer.model # NULL /\ ~mixed => Told \subseteq {drawer.model, NULL}
=============================================================================
