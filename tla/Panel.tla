-------------------------------- MODULE Panel --------------------------------
(* The terminal panel at the foot of the dashboard (TerminalPanel of       *)
(* components/dashboard/terminal-panel.tsx): its tabs, and the timers that *)
(* fit a terminal to its box.  What a tab does on the wire is in Terminal. *)
(*                                                                         *)
(* A handler, the render after it and the effects of that render are one   *)
(* step.  The panel is hidden by a transform, so its box is the same while *)
(* it is hidden; a terminal that is not the active one has no box, and a   *)
(* fit of it does nothing.                                                 *)
EXTENDS Naturals, Sequences, SequencesExt, FiniteSets

CONSTANT MaxTabs  \* bound on tabCounter

VARIABLES
  isOpen,
  everOpened,  \* hasEverOpened: until then nothing is rendered
  tabs,        \* the ids, in order
  activeTab,
  tabCounter,
  fitFns,      \* the tabs that have a fit function in the map
  isMaximized,
  strip,       \* the resize strip: "none", "dead" (without a listener), "live"
  dragging,
  moving,      \* the box is on its way to another size (transition-all, 300 ms)
  refits,      \* the timers pending: whose terminal, and what has set them
  fitted,      \* the tabs whose terminal was fitted since the box changed
  stale        \* history: the box has changed, and no code has been told

tabVars == <<tabs, activeTab, tabCounter, fitFns>>
boxVars == <<moving, isMaximized>>
vars    == <<isOpen, everOpened, tabVars, boxVars, strip, dragging, refits, fitted, stale>>

Init ==
  /\ isOpen = FALSE /\ everOpened = FALSE
  /\ tabs = <<1>> /\ activeTab = 1 /\ tabCounter = 1 /\ fitFns = {}
  /\ isMaximized = FALSE /\ strip = "none" /\ dragging = FALSE
  /\ moving = FALSE /\ refits = {} /\ fitted = {} /\ stale = FALSE

Timer(t, by) == [tab |-> t, by |-> by]

\* The timers that are left when tab t becomes the active one: the effects of the panel, and
\* of the terminal that was active, clear theirs and those of t are set.  The fit of a
\* terminal that has just been mounted is one of its own.
Activated(t) ==
  {r \in refits : r.by = "drag"} \cup {Timer(t, "own"), Timer(t, "panel")}

\* The effect of the strip ran: after a change of the active tab or of open, not of
\* isMaximized.
Strip == IF isMaximized THEN "none" ELSE "live"

-----------------------------------------------------------------------------
\* The panel slides into view; the first time its terminals are mounted.
Open ==
  /\ ~isOpen /\ isOpen' = TRUE /\ everOpened' = TRUE
  /\ fitFns' = IF everOpened THEN fitFns ELSE {1}
  /\ refits' = refits \cup {Timer(activeTab, "panel")}
                 \cup (IF everOpened THEN {} ELSE {Timer(1, "own")})
  /\ strip' = Strip /\ stale' = FALSE
  /\ UNCHANGED <<tabs, activeTab, tabCounter, boxVars, dragging, fitted>>

\* It slides out of view.  The timer set for its being open is cleared, not one that
\* isMaximized has set.
Hidden ==
  /\ isOpen' = FALSE /\ strip' = Strip
  /\ refits' \in {refits, {r \in refits : r.by # "panel"}}

\* A click on something of the panel: not while the strip is held.
Click == isOpen /\ ~dragging

\* The cross of the panel, or the icon in the sidebar.
Close ==
  /\ Click /\ Hidden
  /\ UNCHANGED <<everOpened, tabVars, boxVars, dragging, fitted, stale>>

NextId == tabCounter + 1

\* addTab and addOllamaTab.
AddTab ==
  /\ Click /\ tabCounter < MaxTabs
  /\ tabCounter' = NextId
  /\ tabs' = Append(tabs, NextId) /\ activeTab' = NextId
  /\ fitFns' = fitFns \cup {NextId}
  /\ refits' = Activated(NextId)
  /\ strip' = Strip /\ stale' = FALSE
  /\ UNCHANGED <<isOpen, everOpened, boxVars, dragging, fitted>>

Select(t) ==
  /\ Click /\ t # activeTab /\ t \in ToSet(tabs)
  /\ activeTab' = t
  /\ refits' = Activated(t) /\ strip' = Strip /\ stale' = FALSE
  /\ UNCHANGED <<isOpen, everOpened, tabs, tabCounter, fitFns, boxVars, dragging, fitted>>

\* closeTab: the last tab stays and the panel hides, but its fit function is gone.
CloseLastTab ==
  /\ Click /\ Len(tabs) = 1 /\ Hidden
  /\ fitFns' = fitFns \ {tabs[1]}
  /\ UNCHANGED <<everOpened, tabs, activeTab, tabCounter, boxVars, dragging, fitted, stale>>

\* The tabs but t, in order: prev.filter(t => t.id !== tabId).
Without(t) ==
  LET kept == {i \in DOMAIN tabs : tabs[i] # t}
      at(n) == CHOOSE i \in kept : Cardinality({h \in kept : h <= i}) = n
  IN  [n \in 1 .. Cardinality(kept) |-> tabs[at(n)]]

\* closeTab: the terminal is unmounted and takes its timers with it.
CloseTab(t) ==
  /\ Click /\ Len(tabs) > 1 /\ t \in ToSet(tabs)
  /\ fitFns' = fitFns \ {t}
  /\ tabs' = Without(t)
  /\ activeTab' = IF activeTab = t THEN tabs'[1] ELSE activeTab
  /\ LET left == IF activeTab = t THEN Activated(tabs'[1]) ELSE refits
     IN  refits' = {r \in left : r.tab # t \/ r.by # "own"}
  /\ strip' = (IF activeTab = t THEN Strip ELSE strip)
  /\ stale' = (stale /\ activeTab # t)
  /\ UNCHANGED <<isOpen, everOpened, tabCounter, boxVars, dragging, fitted>>

-----------------------------------------------------------------------------
(* The box.                                                                *)

\* The strip is rendered anew when the panel is restored, and gets no listener.
Maximize ==
  /\ Click /\ isMaximized' = ~isMaximized /\ moving' = TRUE
  /\ strip' = (IF isMaximized THEN "dead" ELSE "none")
  /\ refits' = refits \cup {Timer(activeTab, "panel")}
  /\ fitted' = {} /\ stale' = FALSE
  /\ UNCHANGED <<isOpen, everOpened, tabVars, dragging>>

\* The panel has its size; the timer of Maximize (100 ms) was over long before.
Arrive ==
  /\ moving /\ moving' = FALSE /\ fitted' = {} /\ stale' = TRUE
  /\ UNCHANGED <<isOpen, everOpened, tabVars, isMaximized, strip, dragging, refits>>

Grab ==
  /\ Click /\ strip = "live" /\ dragging' = TRUE
  /\ UNCHANGED <<isOpen, everOpened, tabVars, boxVars, strip, refits, fitted, stale>>

Drag ==
  /\ dragging /\ fitted' = {}
  /\ UNCHANGED <<isOpen, everOpened, tabVars, boxVars, strip, dragging, refits, stale>>

\* Mutated form: the listener is the one of the first tab.
MutDragged == 1

\* The listener knows the active tab, being renewed with it.
Dragged == activeTab

Release ==
  /\ dragging /\ dragging' = FALSE
  /\ refits' = refits \cup {Timer(Dragged, "drag")}
  /\ stale' = FALSE
  /\ UNCHANGED <<isOpen, everOpened, tabVars, boxVars, strip, fitted>>

\* The browser window changes its size, which nothing listens for.
ResizeWindow ==
  /\ fitted' = {} /\ stale' = TRUE
  /\ UNCHANGED <<isOpen, everOpened, tabVars, boxVars, strip, dragging, refits>>

\* A timer fires.  The terminal's own fit it directly, the others through the map.
Refit(r) ==
  /\ refits' = refits \ {r}
  /\ IF r.tab = activeTab /\ (r.by = "own" \/ r.tab \in fitFns)
       THEN fitted' = fitted \cup {r.tab} ELSE UNCHANGED fitted
  /\ UNCHANGED <<isOpen, everOpened, tabVars, boxVars, strip, dragging, stale>>

-----------------------------------------------------------------------------
(* What is on the screen while the panel is open.                          *)

\* The tabs of the bar that are lit.
LitTabs == {i \in DOMAIN tabs : tabs[i] = activeTab}

\* All terminals are mounted; an instance that is not active has no box.
Mounted   == IF everOpened THEN ToSet(tabs) ELSE {}
Displayed == {t \in Mounted : t = activeTab}

Next ==
  \/ Open \/ Close \/ AddTab \/ CloseLastTab \/ Maximize \/ Arrive
  \/ Grab \/ Drag \/ Release \/ ResizeWindow
  \/ \E t \in 1 .. MaxTabs : Select(t) \/ CloseTab(t)
  \/ \E r \in refits : Refit(r)

Spec == Init /\ [][Next]_vars

-----------------------------------------------------------------------------
TypeOK ==
  /\ {isOpen, everOpened, isMaximized, dragging, moving, stale} \subseteq BOOLEAN
  /\ tabs \in Seq(1 .. MaxTabs) /\ activeTab \in 1 .. MaxTabs /\ tabCounter \in 1 .. MaxTabs
  /\ fitFns \subseteq 1 .. MaxTabs /\ strip \in {"none", "dead", "live"}
  /\ refits \subseteq [tab : 1 .. MaxTabs, by : {"panel", "own", "drag"}]
  /\ fitted \subseteq 1 .. MaxTabs

\* Whatever tabs are opened and closed, one tab is lit and one terminal is shown, for no two
\* tabs go by one id.  "Fix #4: re-fit when panel slides back into view"
\* (terminal-panel.tsx:277), and after a drag, and for another tab: when the timers are over
\* that terminal has the size of its box, unless nothing was told that the box changed, or the
\* tab was closed as the last one and lives on without its fit function.
ShownFits ==
  isOpen =>
    /\ Cardinality(LitTabs) = 1 /\ Cardinality(Displayed) = 1
    /\ ~dragging /\ refits = {} /\ ~stale /\ activeTab \in fitFns => Displayed \subseteq fitted
=============================================================================
