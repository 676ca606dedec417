----------------------------- MODULE BackupPanel -----------------------------
(* components/dashboard/backup-section.tsx and its routes under            *)
(* app/api/backup, composed with the service behind them: a list polled    *)
(* every five seconds, a backup that is answered before its work is done,  *)
(* and restores and deletions that ask twice.                              *)
(*                                                                         *)
(* A call waits at the sidecar while that is busy, and the dashboard gives *)
(* it up after five minutes; the sidecar deals with it all the same.       *)
(* Answers overtake each other.  The widget of metrics-section.tsx is a    *)
(* second panel on the same routes: it has the newest rows only, deletes   *)
(* nothing, and polls whether or not the page can be seen.  The            *)
(* demonstration of the landing page, which calls nobody, is left out.     *)
EXTENDS BackupService, FiniteSets, Integers

CONSTANTS
  AvailableServices,  \* what there is to back up
  Calls,     \* slots for calls that may be on their way at once
  Rows,      \* how many rows the widget keeps: 5
  MaxClicks  \* bound on what the user does

\* The rows of a list, and the calls that may be on their way.
RowStates == {"none"} \cup Kept

BackupCalls ==
  [kind : {"list", "backup", "restore", "delete"}, job : Jobs \cup {NULL},
   services : SUBSET AvailableServices, state : {"sent", "working", "ok", "failed"},
   heard : BOOLEAN, rows : [Jobs -> RowStates]]

ASSUME BackupPanelAssumption ==
  /\ Jobs \subseteq Nat /\ IsFiniteSet(Jobs)
  /\ "all" \notin AvailableServices /\ Rows \in Nat \ {0} /\ MaxClicks \in Nat
  /\ NULL \notin BackupCalls

VARIABLES
  names,     \* names[j]: the services column
  view,      \* which panel it is: "section" or "widget"
  mounted,
  hidden,    \* document.hidden
  eye,       \* isVisibleRef
  shown,     \* shown[j]: the status of the row of j in `backups', "none" if there is none
  loading,   \* isLoading, of the section only
  chosen,    \* selectedServices
  starting,  \* backingUp: the button is off and the progress bar goes
  ask,       \* showRestoreModal or showDeleteModal: [kind, job], or NULL
  calls,     \* calls[c]: a call on its way, or NULL
  newer,     \* history: pairs of lists on their way, the second read after the first
  overtaken, \* history: the lists on their way that a newer one has overtaken
  crossed,   \* history: an older list arrived after a newer one
  clicks

panel == <<mounted, hidden, eye, shown, loading, chosen, starting, ask>>
past  == <<newer, overtaken, crossed>>
panelVars == <<service, names, view, panel, calls, past, clicks>>

Nothing == [j \in Jobs |-> "none"]

PanelInit ==
  /\ ServiceInit /\ names = [j \in Jobs |-> {}]
  /\ view \in {"section", "widget"}
  /\ mounted = FALSE /\ hidden = FALSE /\ eye = TRUE /\ shown = Nothing /\ loading = TRUE
  /\ chosen = {"all"} /\ starting = FALSE /\ ask = NULL
  /\ calls = [c \in Calls |-> NULL]
  /\ newer = {} /\ overtaken = {} /\ crossed = FALSE /\ clicks = 0

Click == clicks < MaxClicks /\ clicks' = clicks + 1

\* A call is on its way; its state is "sent", "working", "ok" or "failed".
Request(kind, job, services) ==
  [kind |-> kind, job |-> job, services |-> services, state |-> "sent", heard |-> TRUE,
   rows |-> Nothing]

Send(call) == \E c \in Calls : calls[c] = NULL /\ calls' = [calls EXCEPT ![c] = call]

Waiting(c) == calls[c] # NULL /\ calls[c].state = "sent"
Moved(c, state) == [calls EXCEPT ![c].state = state]

Gone(c) == [calls EXCEPT ![c] = NULL]

-----------------------------------------------------------------------------
(* The window.                                                             *)

Mount ==
  /\ ~mounted /\ Click
  /\ mounted' = TRUE /\ eye' = TRUE
  /\ Send(Request("list", NULL, {}))
  /\ UNCHANGED <<service, names, view, hidden, shown, loading, chosen, starting, ask, past>>

\* All state is lost; what was asked for goes on.
Unmount ==
  /\ mounted /\ Click
  /\ mounted' = FALSE /\ eye' = FALSE
  /\ shown' = Nothing /\ loading' = TRUE /\ chosen' = {"all"} /\ starting' = FALSE /\ ask' = NULL
  /\ calls' = [c \in Calls |->
                 IF calls[c] = NULL \/ calls[c].kind = "list" THEN NULL
                 ELSE [calls[c] EXCEPT !.heard = FALSE]]
  /\ newer' = {} /\ overtaken' = {}
  /\ UNCHANGED <<service, names, view, hidden, crossed>>

\* Mutated form: a hidden page stops looking and a shown one does not begin again.
MutSees(hid) == eye /\ ~hid

Sees(hid) == ~hid

\* handleVisibility.
Turn ==
  /\ mounted /\ Click
  /\ hidden' = ~hidden /\ eye' = Sees(~hidden)
  /\ UNCHANGED <<service, names, view, mounted, shown, loading, chosen, starting, ask, calls, past>>

Looks == view = "widget" \/ eye

\* The interval: fetchBackups, which the section leaves out while the page is hidden.
Poll ==
  /\ mounted /\ Looks /\ Send(Request("list", NULL, {}))
  /\ UNCHANGED <<service, names, view, panel, past, clicks>>

-----------------------------------------------------------------------------
(* The routes and the sidecar.  What it cannot answer ends as an error.    *)

Listing == [j \in Jobs |-> IF status[j] = "deleted" THEN "none" ELSE status[j]]

\* Lists that were read and have not arrived.
OnTheirWay == {c \in Calls : calls[c] # NULL /\ calls[c].kind = "list" /\ calls[c].state = "ok"}

ServeList(c) ==
  /\ Waiting(c) /\ calls[c].kind = "list" /\ Free
  /\ calls' = [calls EXCEPT ![c] = [calls[c] EXCEPT !.state = "ok", !.rows = Listing]]
  /\ newer' = newer \cup {<<d, c>> : d \in OnTheirWay}
  /\ UNCHANGED <<service, names, view, panel, overtaken, crossed, clicks>>

\* Rows are numbered in the order in which they were made.
Fresh(j) == \A i \in Jobs : i < j => status[i] # "none"

\* A row is inserted and its job begins.
Inserted(services) == \E j \in Jobs : Fresh(j) /\ Begin(j) /\ names' = [names EXCEPT ![j] = services]

\* POST /backups.  The answer is written before the job takes the event loop, if the socket
\* takes it at once, else after it.
ServeStart(c) ==
  /\ Waiting(c) /\ calls[c].kind = "backup"
  /\ Inserted(calls[c].services)
  /\ \E state \in {"ok", "working"} : calls' = Moved(c, state)
  /\ UNCHANGED <<view, panel, past, clicks>>

\* An id for every backup that was asked for.
Spare == Cardinality({c \in Calls : Waiting(c) /\ calls[c].kind = "backup"})
           < Cardinality({j \in Jobs : status[j] = "none"})

\* scheduler.ts, at three o'clock.
Scheduled ==
  /\ Spare /\ Inserted(AvailableServices)
  /\ UNCHANGED <<view, panel, calls, past, clicks>>

\* POST /restore, answered when the job is over, and 404 for a row that is gone.
ServeRestore(c) ==
  /\ Waiting(c) /\ calls[c].kind = "restore"
  /\ \/ BeginRestore(calls[c].job) /\ calls' = Moved(c, "working")
     \/ Free /\ status[calls[c].job] \notin Kept /\ calls' = Moved(c, "failed")
        /\ UNCHANGED service
  /\ UNCHANGED <<names, view, panel, past, clicks>>

\* DELETE /backups/:jobId, and 404 likewise.
ServeDelete(c) ==
  /\ Waiting(c) /\ calls[c].kind = "delete"
  /\ \/ Remove(calls[c].job) /\ calls' = Moved(c, "ok")
     \/ Free /\ status[calls[c].job] \notin Kept /\ calls' = Moved(c, "failed")
        /\ UNCHANGED service
  /\ UNCHANGED <<names, view, panel, past, clicks>>

\* The job is over, and with it the request that began it.
JobEnds ==
  /\ End
  /\ calls' = [c \in Calls |-> IF calls[c] # NULL /\ calls[c].state = "working"
                               THEN [calls[c] EXCEPT !.state = "ok"] ELSE calls[c]]
  /\ UNCHANGED <<names, view, panel, past, clicks>>

\* Every connection breaks.
SidecarDies ==
  /\ Die
  /\ calls' = [c \in Calls |-> IF calls[c] # NULL /\ calls[c].state \in {"sent", "working"}
                               THEN [calls[c] EXCEPT !.state = "failed"] ELSE calls[c]]
  /\ UNCHANGED <<names, view, panel, past, clicks>>

SidecarRises == Rise /\ UNCHANGED <<names, view, panel, calls, past, clicks>>

\* What a panel keeps of a list that is ordered by created_at, newest first.
Window(rows) ==
  [j \in Jobs |->
     IF view = "widget" /\ Cardinality({i \in Jobs : i > j /\ rows[i] # "none"}) >= Rows
     THEN "none" ELSE rows[j]]

\* Mutated form: an answer that is no list empties the table.
MutListed(c) == Window(calls[c].rows)

\* A failed answer leaves the table: the route drops its status, and it is not an array.
Listed(c) == IF calls[c].state = "ok" THEN Window(calls[c].rows) ELSE shown

ListArrives(c) ==
  /\ calls[c] # NULL /\ calls[c].kind = "list" /\ calls[c].state \in {"ok", "failed"}
  /\ shown' = Listed(c) /\ loading' = FALSE /\ calls' = Gone(c)
  /\ crossed' = (crossed \/ c \in overtaken)
  /\ overtaken' = (overtaken \cup {d \in Calls : <<d, c>> \in newer}) \ {c}
  /\ newer' = {p \in newer : p[1] # c /\ p[2] # c}
  /\ UNCHANGED <<service, names, view, mounted, hidden, eye, chosen, starting, ask, clicks>>

\* handleBackup, handleRestore and handleDelete go on, with or without success; a list is
\* fetched after a backup that answered, after a deletion always.
Then(c) ==
  /\ calls[c] # NULL /\ calls[c].kind # "list" /\ calls[c].state \in {"ok", "failed"}
  /\ calls' = IF /\ calls[c].heard /\ Looks
                 /\ \/ calls[c].kind = "backup" /\ calls[c].state = "ok"
                    \/ calls[c].kind = "delete"
              THEN [calls EXCEPT ![c] = Request("list", NULL, {})] ELSE Gone(c)
  /\ starting' = (starting /\ ~(calls[c].heard /\ calls[c].kind = "backup"))
  /\ UNCHANGED <<service, names, view, mounted, hidden, eye, shown, loading, chosen, ask, past, clicks>>

\* The dashboard gives up a call and the panel is told; the sidecar has it still.  (After a
\* restore or a deletion this changes nothing the interval would not.)
GiveUp(c) ==
  /\ calls[c] # NULL /\ calls[c].kind = "backup" /\ calls[c].heard
  /\ calls[c].state \in {"sent", "working"}
  /\ calls' = [calls EXCEPT ![c].heard = FALSE]
  /\ starting' = FALSE
  /\ UNCHANGED <<service, names, view, mounted, hidden, eye, shown, loading, chosen, ask, past, clicks>>

-----------------------------------------------------------------------------
(* The user.                                                               *)

Flipped(s) == IF s \in chosen THEN chosen \ {s} ELSE (chosen \ {"all"}) \cup {s}

\* toggleService of the section: there may be none, and all of them together are "all".
Toggled(s) ==
  IF s = "all" THEN (IF "all" \in chosen THEN {} ELSE {"all"})
  ELSE IF Flipped(s) = AvailableServices THEN {"all"} ELSE Flipped(s)

\* toggleService of the widget: none of them is "all".
WidgetToggled(s) == IF s = "all" \/ Flipped(s) = {} THEN {"all"} ELSE Flipped(s)

Toggle(s) ==
  /\ mounted /\ Click
  /\ chosen' = IF view = "section" THEN Toggled(s) ELSE WidgetToggled(s)
  /\ UNCHANGED <<service, names, view, mounted, hidden, eye, shown, loading, starting, ask, calls, past>>

\* `disabled' of the button of the widget: a job that is shown as running is in the way.
Idle == ~starting /\ \A j \in Jobs : shown[j] # "in_progress"

\* The section wants a service; the widget backs up all of them whatever is chosen.
CanStart == Idle /\ (view = "section" => chosen # {})

\* The buttons of the services that are lit; "all" reads Deselect All or Select All.
LitServices == IF "all" \in chosen THEN AvailableServices ELSE chosen

Wanted == IF view = "widget" THEN AvailableServices ELSE LitServices

\* handleBackup.
Start ==
  /\ mounted /\ CanStart /\ ask = NULL /\ Spare /\ Click
  /\ starting' = TRUE
  /\ Send(Request("backup", NULL, Wanted))
  /\ UNCHANGED <<service, names, view, mounted, hidden, eye, shown, loading, chosen, ask, past>>

\* The buttons of a row open a dialogue; only what succeeded can be restored.
AskRestore(j) == shown[j] \in {"success", "restored"} /\ ask' = [kind |-> "restore", job |-> j]

\* Only the section deletes.
AskDelete(j) == view = "section" /\ shown[j] # "none" /\ ask' = [kind |-> "delete", job |-> j]

Ask(j) ==
  /\ mounted /\ ask = NULL /\ (AskRestore(j) \/ AskDelete(j))
  /\ UNCHANGED <<service, names, view, mounted, hidden, eye, shown, loading, chosen, starting, calls, past,
                 clicks>>

Cancel ==
  /\ ask # NULL /\ ask' = NULL
  /\ UNCHANGED <<service, names, view, mounted, hidden, eye, shown, loading, chosen, starting, calls, past,
                 clicks>>

\* The services of the row, as `backups' has it when the user confirms.
ServicesOf(j) == IF shown[j] = "none" THEN {} ELSE names[j]

Confirm ==
  /\ ask # NULL /\ Click
  /\ ask' = NULL
  /\ Send(Request(ask.kind, ask.job, IF ask.kind = "restore" THEN ServicesOf(ask.job) ELSE {}))
  /\ UNCHANGED <<service, names, view, mounted, hidden, eye, shown, loading, chosen, starting, past>>

-----------------------------------------------------------------------------
(* What is on the screen, for a list of rows and isLoading.                *)

\* The dot and the word of a row: everything that is not known is a failure.
Badge(s) ==
  CASE s = "success" -> "emerald" [] s = "restored" -> "cyan" [] s = "in_progress" -> "amber"
    [] OTHER -> "red"

\* fetchRestoreLogs: no route answers /api/backup/restore-logs.
RestoreLogs == {}

\* The table of a tab; the note says that there is nothing.  The widget knows no tabs and does
\* not wait.
Table(tab, rows, waits) ==
  LET Has(j)    == IF tab = "history" THEN rows[j] # "none" ELSE j \in RestoreLogs
      Skeletons == waits /\ view = "section"
  IN  [skeletons |-> Skeletons,
       note      |-> ~Skeletons /\ \A j \in Jobs : ~Has(j),
       rows      |-> [j \in Jobs |-> IF Has(j) /\ ~Skeletons THEN Badge(rows[j]) ELSE "none"]]

\* The cards of a narrow screen have two colours, and do not wait.
Cards(rows) == [j \in {i \in Jobs : rows[i] # "none"} |->
                  IF rows[j] = "success" THEN "emerald" ELSE "red"]

\* The pills: how many rows there are, whatever became of them, and which was the last success.
Pills(rows) ==
  [snapshots |-> Cardinality({j \in Jobs : rows[j] # "none"}),
   lastRun   |-> {j \in Jobs : /\ rows[j] \in {"success", "restored"}
                               /\ \A i \in Jobs : i > j => rows[i] \notin {"success", "restored"}}]

-----------------------------------------------------------------------------
Net(c) ==
  \/ ServeList(c) \/ ServeStart(c) \/ ServeRestore(c) \/ ServeDelete(c)
  \/ ListArrives(c) \/ Then(c)

PanelNext ==
  \/ Mount \/ Unmount \/ Turn \/ Poll \/ Start \/ Cancel \/ Confirm
  \/ Scheduled \/ JobEnds \/ SidecarDies \/ SidecarRises
  \/ \E c \in Calls : Net(c) \/ GiveUp(c)
  \/ \E s \in AvailableServices \cup {"all"} : Toggle(s)
  \/ \E j \in Jobs : Ask(j)

PanelSpec == PanelInit /\ [][PanelNext]_panelVars

\* The interval fires, calls are served and answered, jobs end and the sidecar is restarted;
\* nobody has to click, and the sidecar may die as often as it likes.
FairSpec ==
  PanelSpec /\ SF_panelVars(Poll) /\ WF_panelVars(JobEnds) /\ WF_panelVars(SidecarRises)
       /\ \A c \in Calls : WF_panelVars(Net(c))

-----------------------------------------------------------------------------
\* A restore is asked for with the services that the backup names, although they are looked up
\* in a list that is replaced while the dialogue is open: unless the row was deleted, or an
\* older list came after a newer one, or the widget keeps fewer rows than there are.
RestoreNamesServices ==
  ~crossed /\ (view = "widget" => Cardinality(Jobs) <= Rows) =>
    \A c \in Calls :
      calls[c] # NULL /\ calls[c].kind = "restore" /\ status[calls[c].job] # "deleted" =>
        calls[c].services = names[calls[c].job]

\* A visible panel ends up with the rows of the sidecar, or with the newest of them, once those
\* change no more and it stops dying: its table, its cards and its pills say what they say, and nothing
\* is left loading.
ListCatchesUp ==
  \A rows \in [Jobs -> {"none", "in_progress", "success", "failed", "restored"}] :
    <>[](/\ mounted /\ (hidden => view = "widget") /\ up
         /\ \A j \in Jobs : rows[j] = (IF status[j] = "deleted" THEN "none" ELSE status[j]))
      => <>[](/\ Table("history", shown, loading) = Table("history", Window(rows), FALSE)
              /\ Cards(shown) = Cards(Window(rows)) /\ Pills(shown) = Pills(Window(rows)))
=============================================================================
