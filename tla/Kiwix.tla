-------------------------------- MODULE Kiwix --------------------------------
(* components/dashboard/kiwix-section.tsx and its routes, app/api/kiwix:   *)
(* the window of the offline library, which lists the files of a directory *)
(* and restarts the reader after the manager has changed them.  The window *)
(* is unmounted when it is minimised; what was on its way is then told to  *)
(* nobody, so a call belongs to one mount of the window.                   *)
EXTENDS Naturals

CONSTANTS
  MaxFiles,  \* bound on the files in the directory
  Limit      \* turns of 2 s that fit into the 30 s of a poll

VARIABLES
  shelf,       \* the number of ZIM files in /data/kiwix
  shown,       \* the window is mounted
  zimFiles,    \* their number in the window
  scanning,    \* loading
  tab,         \* "browse" or "manage"
  first,       \* the first list: "none", "sent" or "answered"
  restarting,  \* handleRefresh: "no", "restart", "pause", "sent" or "answered"
  answers,     \* the answers that are on their way
  before,      \* the number of files the poll compares with
  turns,       \* turns of the poll
  chosen,      \* history: the user went to the manager
  emptied      \* history: this window has heard of an empty list, or of none

pollVars == <<restarting, before, turns>>
listVars == <<zimFiles, scanning, tab, emptied>>
vars == <<shelf, shown, listVars, first, pollVars, answers, chosen>>

Counts == 0 .. MaxFiles

\* Mutated form: it does not wait for the first list.
MutTabOf(t, n, s) == IF n = 0 THEN "manage" ELSE t

\* The effect that turns to the manager when the library is empty, once there is a list.
TabOf(t, n, s) == IF ~s /\ n = 0 THEN "manage" ELSE t

Init ==
  /\ shelf \in Counts /\ shown = FALSE /\ zimFiles = 0 /\ scanning = TRUE /\ tab = "browse"
  /\ first = "none" /\ restarting = "no" /\ answers = [first |-> 0, poll |-> 0]
  /\ before = 0 /\ turns = 0 /\ chosen = FALSE /\ emptied = FALSE

\* The window is opened or restored: its state is new, and it asks for the list.
Mount ==
  /\ ~shown /\ shown' = TRUE /\ zimFiles' = 0 /\ scanning' = TRUE
  /\ tab' = TabOf("browse", 0, TRUE) /\ first' = "sent"
  /\ chosen' = FALSE /\ emptied' = FALSE
  /\ UNCHANGED <<shelf, pollVars, answers>>

\* It is minimised or closed.
Unmount ==
  /\ shown /\ shown' = FALSE /\ first' = "none" /\ restarting' = "no"
  /\ UNCHANGED <<shelf, listVars, before, turns, answers, chosen>>

\* The manager uploads files or removes them.
Manage ==
  /\ shelf' \in Counts \ {shelf}
  /\ UNCHANGED <<shown, listVars, first, pollVars, answers, chosen>>

\* GET api/kiwix: the files of the directory, none if it cannot be read.
Listed == {shelf, 0}

ServeFirst ==
  /\ first = "sent" /\ first' = "answered"
  /\ \E n \in Listed : answers' = [answers EXCEPT !.first = n]
  /\ UNCHANGED <<shelf, shown, listVars, pollVars, chosen>>

ServePoll ==
  /\ restarting = "sent" /\ restarting' = "answered"
  /\ \E n \in Listed : answers' = [answers EXCEPT !.poll = n]
  /\ UNCHANGED <<shelf, shown, listVars, first, before, turns, chosen>>

\* fetchZimFiles, where a failure is an empty list, and the effect if it has changed anything.
Hears(n, s) ==
  /\ zimFiles' = n /\ scanning' = s /\ emptied' = (emptied \/ n = 0)
  /\ tab' = (IF n # zimFiles \/ s # scanning THEN TabOf(tab, n, s) ELSE tab)

FirstArrives ==
  /\ first = "answered" /\ first' = "none" /\ Hears(answers.first, FALSE)
  /\ UNCHANGED <<shelf, shown, pollVars, answers, chosen>>

Select(t) ==
  /\ shown /\ tab' = t /\ chosen' = (chosen \/ t = "manage")
  /\ UNCHANGED <<shelf, shown, zimFiles, scanning, emptied, first, pollVars, answers>>

\* The button is off, and its icon turns, while a refresh goes on.
CanRefresh == shown /\ restarting = "no"

\* handleRefresh, with the number of files of this render.
Refresh ==
  /\ CanRefresh /\ restarting' = "restart" /\ before' = zimFiles /\ turns' = 0
  /\ UNCHANGED <<shelf, shown, listVars, first, answers, chosen>>

\* POST api/kiwix/restart answers, well or not; or the call throws and nothing is polled.
Restarted ==
  /\ restarting = "restart" /\ restarting' \in {"pause", "no"}
  /\ UNCHANGED <<shelf, shown, listVars, first, before, turns, answers, chosen>>

\* A turn of the poll: 2 s or more have passed, and another list is fetched, or the 30 s are
\* over.
Turn ==
  /\ restarting = "pause"
  /\ \/ turns <= Limit /\ restarting' = "sent" /\ turns' \in turns + 1 .. Limit + 1
     \/ turns > Limit /\ restarting' = "no" /\ UNCHANGED turns
  /\ UNCHANGED <<shelf, shown, listVars, first, before, answers, chosen>>

\* The list of the poll, which ends when there are more files, or fewer, than on the screen
\* when it was begun; before the first list is here that is none.
PollArrives ==
  /\ restarting = "answered" /\ Hears(answers.poll, scanning)
  /\ restarting' = (IF answers.poll # before THEN "no" ELSE "pause")
  /\ UNCHANGED <<shelf, shown, first, before, turns, answers, chosen>>

-----------------------------------------------------------------------------
(* What is on the screen.                                                  *)

\* The status bar.
Bar == CASE scanning -> "scanning" [] ~scanning /\ zimFiles > 0 -> "files" [] OTHER -> "empty"

\* The panel: the manager's page; or the reader's, under a note if there is nothing to read.
Panel ==
  CASE tab = "manage"                   -> {"manager"}
    [] tab = "browse" /\ Bar = "empty" -> {"reader", "note"}
    [] OTHER                            -> {"reader"}

Next ==
  \/ Mount \/ Unmount \/ Manage \/ ServeFirst \/ ServePoll \/ FirstArrives
  \/ Select("browse") \/ Select("manage") \/ Refresh \/ Restarted \/ Turn \/ PollArrives

Spec == Init /\ [][Next]_vars

-----------------------------------------------------------------------------
TypeOK ==
  /\ {shelf, zimFiles, before} \subseteq Counts /\ tab \in {"browse", "manage"}
  /\ answers \in [first : Counts, poll : Counts] /\ turns \in 0 .. Limit + 1
  /\ {shown, scanning, chosen, emptied} \subseteq BOOLEAN
  /\ first \in {"none", "sent", "answered"}
  /\ restarting \in {"no", "restart", "pause", "sent", "answered"}

\* "Default to manage tab when library is empty" (kiwix-section.tsx:54): nobody is taken from
\* the reader to the manager, or told that there is nothing to read, unless he went there or
\* this window has heard of an empty library.
ManagerHasReason ==
  shown => /\ "manager" \in Panel => chosen \/ emptied
           /\ "note" \in Panel \/ Bar = "empty" => emptied
=============================================================================
