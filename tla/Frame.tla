-------------------------------- MODULE Frame --------------------------------
(***************************************************************************)
(* What of Home is on the screen: the panels of the windows, the sections  *)
(* of the page (app/page.tsx), and the buttons of the sidebar              *)
(* (components/dashboard/sidebar.tsx) that say where the user is.  There   *)
(* is no state here, only the conditions of the markup.                    *)
(*                                                                         *)
(* Opacities are taken at the positions Home tells apart, 0, 1 and 2       *)
(* screens, where each is 1 or nothing.                                    *)
(***************************************************************************)
EXTENDS Home, FiniteSets

SectionNames == <<"home", "metrics", "backups">>

\* The windows that are neither minimised nor closing: hasOpenWindow.
Front == {a \in Apps : win[a] # NULL /\ ~win[a].min /\ ~win[a].closing}

\* Panels are drawn unless they are minimised; a closing one fades and lets the pointer through.
Painted == {a \in Apps : win[a] # NULL /\ ~win[a].min}
Reacts(a) == a \in Painted /\ ~win[a].closing

\* dockApps: every window, and whether it is open and in front.
DockApps == [a \in {b \in Apps : win[b] # NULL} |-> [isOpen |-> ~win[a].closing, isActive |-> a \in Front]]

\* The icon of a window: a closing one is grey and has no dot.
IconOf(a) ==
  LET app == DockApps[a]
  IN  [look |-> CASE app.isActive -> "active" [] ~app.isOpen -> "closing" [] OTHER -> "minimised",
       dot  |-> app.isOpen]

\* Mutated form: the nearer threshold is asked first.
MutHighlighted ==
  IF view # "home" THEN view
  ELSE IF progress >= 1 THEN "metrics" ELSE IF progress >= 2 THEN "backups" ELSE "home"

\* highlightedSection: past 0.55 screens it is metrics, past 1.55 backups.
Highlighted ==
  IF view # "home" THEN view
  ELSE IF progress >= 2 THEN "backups" ELSE IF progress >= 1 THEN "metrics" ELSE "home"

\* activeSection: an application is, as long as a window is open, minimised or not.
Active == IF \E a \in Apps : win[a] # NULL /\ ~win[a].closing THEN "app" ELSE Highlighted

\* The buttons of the navigation that are in the accent colour.
Lit == {s \in {"home", "metrics", "backups"} : Front = {} /\ Active = s}

\* The sections of <main> that can be seen: one of its own, or those of the home page whose
\* opacity is not 0; a window in front hides the welcome section.
Opaque ==
  IF view # "home" THEN {view}
  ELSE {SectionNames[i + 1] : i \in {s \in Sections : progress = s /\ (s = 0 => Front = {})}}

\* What a click on the welcome section finds: its cards, or nothing under a window.
CardsReact == view = "home" /\ Front = {}

-----------------------------------------------------------------------------
\* What is on the screen is one thing, and what the sidebar says of it is true: either one
\* window is in front, which alone is lit, alone takes the pointer and covers the welcome
\* section, or the section the page rests at can be seen and its button is lit.  Excepted are
\* the page that was left and has not been scrolled since, which is drawn for where it was,
\* and the button while windows are minimised (page.tsx:430).
ScreenFollows ==
  /\ Cardinality(Front) <= 1
  /\ Front # {} => /\ Lit = {} /\ ~CardsReact
                   /\ \A a \in Apps : Reacts(a) <=> win[a] # NULL /\ IconOf(a).look = "active"
  /\ view = "home" /\ still /\ ~lock /\ ~away /\ Front = {} =>
       /\ Opaque = {SectionNames[y + 1]}
       /\ Active # "app" => Lit = Opaque
=============================================================================
