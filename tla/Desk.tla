--------------------------------- MODULE Desk ---------------------------------
(* The pages and panels of the dashboard that share no state with each     *)
(* other, side by side: the Ollama window, the way in (Portal), the terminal *)
(* panel, the sidebar, the Kiwix window and what the metrics are made of.  *)
(* In the program they take turns in any order.  Since no step of one can  *)
(* be seen by another, a behaviour here is one of a single part, the one   *)
(* in focus, and the rest stays in one of its initial states.              *)
EXTENDS Ollama

CONSTANTS
  Keys, Required, MaxPages,                             \* Portal, MaxPages for its MaxClicks
  MaxTabs,                                              \* Panel
  Pages, Themes, Default, Icons, MaxBounces,            \* Sidebar
  MaxFiles, Limit,                                      \* Kiwix
  Containers, Amiss                                     \* Readings

VARIABLES
  focus,
  server, rival, secure, cookie, page, status, wizard, deriving, login, call, redirect, kept,
  raced, visits,
  isOpen, everOpened, tabs, activeTab, tabCounter, fitFns, isMaximized, strip, dragging, moving,
  refits, fitted, stale,
  stored, look, popups, bouncing, bounces, last,
  shelf, shown, zimFiles, scanning, tab, first, restarting, answers, before, turns, chosen, emptied,
  source, row, screen, expanded, menu

portal   == <<server, rival, secure, cookie, page, status, wizard, deriving, login, call, redirect,
              kept, raced, visits>>
panel    == <<isOpen, everOpened, tabs, activeTab, tabCounter, fitFns, isMaximized, strip, dragging,
              moving, refits, fitted, stale>>
sidebar  == <<stored, look, popups, bouncing, bounces, last>>
kiwix    == <<shelf, shown, zimFiles, scanning, tab, first, restarting, answers, before, turns,
              chosen, emptied>>
readings == <<source, row, screen, expanded, menu>>

P == INSTANCE Portal WITH MaxClicks <- MaxPages, clicks <- visits
T == INSTANCE Panel
S == INSTANCE Sidebar
K == INSTANCE Kiwix
R == INSTANCE Readings

\* The bounds leave room for what is there from the start, colorThemes[0] is a theme, an
\* entropy key is none of the words used beside it, NULL is none of the values, and there is a
\* time when nothing is amiss.
ASSUME DeskAssumption ==
  /\ MaxTabs \in Nat \ {0} /\ {MaxBounces, MaxFiles, Limit} \subseteq Nat
  /\ Default \in Themes
  /\ Keys \cap {"none", "over"} = {}
  /\ NULL \notin Keys \cup Pages \cup Themes
  /\ NULL \notin [key : Keys, sum : Keys]
  /\ NULL \notin P!Fetches
  /\ NULL \notin R!Numbers
  /\ {} \in Amiss /\ Amiss \subseteq SUBSET (R!Collectors \cup R!Readers \cup {"idle"})

\* What is not in focus is in one initial state.
DeskInit ==
  /\ focus \in {"ollama", "portal", "panel", "sidebar", "kiwix", "readings"}
  /\ Init /\ P!Init /\ T!Init /\ S!Init /\ K!Init /\ R!Init
  /\ focus = "ollama"  \/ library = {}
  /\ focus = "portal"  \/ ~secure
  /\ focus = "sidebar" \/ stored = NULL
  /\ focus = "kiwix"   \/ shelf = 0

OllamaStep ==
  focus = "ollama" /\ Next /\ UNCHANGED <<focus, portal, panel, sidebar, kiwix, readings>>
PortalStep ==
  focus = "portal" /\ P!Next /\ UNCHANGED <<focus, vars, panel, sidebar, kiwix, readings>>
PanelStep ==
  focus = "panel" /\ T!Next /\ UNCHANGED <<focus, vars, portal, sidebar, kiwix, readings>>
SidebarStep ==
  focus = "sidebar" /\ S!Next /\ UNCHANGED <<focus, vars, portal, panel, kiwix, readings>>
KiwixStep ==
  focus = "kiwix" /\ K!Next /\ UNCHANGED <<focus, vars, portal, panel, sidebar, readings>>
ReadingsStep ==
  focus = "readings" /\ R!Next /\ UNCHANGED <<focus, vars, portal, panel, sidebar, kiwix>>

DeskNext ==
  \/ OllamaStep \/ PortalStep \/ PanelStep \/ SidebarStep \/ KiwixStep \/ ReadingsStep

deskVars == <<focus, vars, portal, panel, sidebar, kiwix, readings>>

DeskSpec == DeskInit /\ [][DeskNext]_deskVars

-----------------------------------------------------------------------------
\* app/setup/page.tsx: the recovery key that was kept is that of the server's key (Portal).
KeptKeyMatches == P!KeptKeyMatches

\* terminal-panel.tsx: one terminal is shown, and it fits its box (Panel).
ShownFits == T!ShownFits

\* theme-provider.tsx: the theme outlives a reload (Sidebar).
ReloadKeepsLook == S!ReloadKeepsLook

\* kiwix-section.tsx: who sees the manager has chosen it or has heard of no files (Kiwix).
ManagerHasReason == K!ManagerHasReason

\* stats/route.ts: an agent that answers in full is believed, in the right units (Readings).
GoAgentUnderstood == R!GoAgentUnderstood
=============================================================================
