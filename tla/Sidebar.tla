------------------------------- MODULE Sidebar -------------------------------
(* components/theme-provider.tsx and the sidebar of the dashboard          *)
(* (components/dashboard/sidebar.tsx): the colour theme of a page, kept in *)
(* localStorage, which the pages of a browser share, the two popups it is  *)
(* chosen in, and the icons that bounce.  A colour theme is a palette and  *)
(* a name; of the palette only its name is kept here.                      *)
EXTENDS Naturals

CONSTANTS
  Pages,       \* pages of this origin in the browser
  Themes,      \* colorThemes, by their ids
  Default,     \* colorThemes[0]
  Icons,       \* icons of applications
  MaxBounces,  \* bound on the timers pending in a page
  NULL

VARIABLES
  stored,    \* colorThemeId in localStorage: an id, NULL, or "retired", one of no theme
  look,      \* look[p]: the state of the provider and what it did to <html>
  popups,    \* popups[p]: showSettings, showThemes
  bouncing,  \* bouncing[p]: bouncingId
  bounces,   \* bounces[p]: the timers that end a bounce
  last       \* history: the page that has chosen last, or NULL

vars == <<stored, look, popups, bouncing, bounces, last>>

-----------------------------------------------------------------------------
(* The provider.                                                           *)

\* Mutated form: the list in the effect has lost its last name.
MutLightToLoad == {"classic", "cloud", "chalk"}

\* The light themes, a list that is written in the effect that loads, in setColorTheme and in
\* the button of the library, each for itself.
LightToLoad == {"classic", "cloud", "chalk", "paper"}
LightToChoose == {"classic", "cloud", "chalk", "paper"}
LightToShow == {"classic", "cloud", "chalk", "paper"}

ModeOf(t, light) == IF t \in light THEN "light" ELSE "dark"

\* Before the effect: the state has its defaults, the script of the layout has set the
\* class, and the style sheet gives the colours.
Plain == [theme |-> Default, mode |-> "dark", css |-> NULL, dark |-> TRUE]

\* applyColorTheme, and the class of <html>.
Dressed(t, m) == [theme |-> t, mode |-> m, css |-> t, dark |-> (m = "dark")]

\* The effect of the provider: what is stored, the default if nothing is, and nothing at all
\* for an id that is in no theme.
Loaded ==
  CASE stored = NULL    -> Dressed(Default, "dark")
    [] stored \in Themes -> Dressed(stored, ModeOf(stored, LightToLoad))
    [] OTHER            -> Plain

Closed == [settings |-> FALSE, themes |-> FALSE]

Init ==
  /\ stored \in Themes \cup {NULL, "retired"}
  /\ look = [p \in Pages |-> Plain] /\ popups = [p \in Pages |-> Closed]
  /\ bouncing = [p \in Pages |-> NULL] /\ bounces = [p \in Pages |-> 0]
  /\ last = NULL

\* A page is loaded, for the first time or again.
Load(p) ==
  /\ look' = [look EXCEPT ![p] = Loaded]
  /\ popups' = [popups EXCEPT ![p] = Closed]
  /\ bouncing' = [bouncing EXCEPT ![p] = NULL] /\ bounces' = [bounces EXCEPT ![p] = 0]
  /\ UNCHANGED <<stored, last>>

\* setColorTheme, by a button of the library of themes.
Choose(p, t) ==
  /\ popups[p].settings /\ popups[p].themes
  /\ look' = [look EXCEPT ![p] = Dressed(t, ModeOf(t, LightToChoose))]
  /\ stored' = t /\ last' = p
  /\ UNCHANGED <<popups, bouncing, bounces>>

\* The user clears the data of the site.
Clear ==
  /\ stored' = NULL /\ last' = NULL
  /\ UNCHANGED <<look, popups, bouncing, bounces>>

-----------------------------------------------------------------------------
(* The popups and the icons.                                               *)

Popups(p, q) ==
  /\ popups' = [popups EXCEPT ![p] = q]
  /\ UNCHANGED <<stored, look, bouncing, bounces, last>>

\* The gear hides the library of themes with the settings, and shows it with them again.
ToggleSettings(p) == Popups(p, [popups[p] EXCEPT !.settings = ~@])

CloseSettings(p) == popups[p].settings /\ Popups(p, Closed)

ToggleThemes(p) == popups[p].settings /\ Popups(p, [popups[p] EXCEPT !.themes = ~@])

CloseThemes(p) ==
  popups[p].settings /\ popups[p].themes /\ Popups(p, [popups[p] EXCEPT !.themes = FALSE])

\* handleBounceClick; what the click does to the window is in Home.
Bounce(p, i) ==
  /\ bounces[p] < MaxBounces
  /\ bouncing' = [bouncing EXCEPT ![p] = i] /\ bounces' = [bounces EXCEPT ![p] = @ + 1]
  /\ UNCHANGED <<stored, look, popups, last>>

\* After 600 ms, whichever icon bounces by then.
BounceEnds(p) ==
  /\ bounces[p] > 0
  /\ bouncing' = [bouncing EXCEPT ![p] = NULL] /\ bounces' = [bounces EXCEPT ![p] = @ - 1]
  /\ UNCHANGED <<stored, look, popups, last>>

-----------------------------------------------------------------------------
\* The library of themes: the button of the theme in use is marked, and each says whether its
\* theme is a light one.
Buttons(p) == [t \in Themes |-> [on |-> look[p].theme = t, label |-> ModeOf(t, LightToShow)]]

\* The style of the page agrees with what the library says of the marked theme.
Honest(p) == \A t \in Themes : Buttons(p)[t].on => Buttons(p)[t].label = look[p].mode

Next ==
  \/ Clear
  \/ \E p \in Pages :
       \/ Load(p) \/ ToggleSettings(p) \/ CloseSettings(p) \/ ToggleThemes(p) \/ CloseThemes(p)
       \/ BounceEnds(p)
       \/ \E t \in Themes : Choose(p, t)
       \/ \E i \in Icons : Bounce(p, i)

Spec == Init /\ [][Next]_vars

-----------------------------------------------------------------------------
TypeOK ==
  /\ stored \in Themes \cup {NULL, "retired"} /\ last \in Pages \cup {NULL}
  /\ look \in [Pages -> [theme : Themes, mode : {"dark", "light"}, css : Themes \cup {NULL},
                         dark : BOOLEAN]]
  /\ popups \in [Pages -> [settings : BOOLEAN, themes : BOOLEAN]]
  /\ bouncing \in [Pages -> Icons \cup {NULL}] /\ bounces \in [Pages -> 0 .. MaxBounces]

\* The theme outlives a reload (theme-provider.tsx:197): the page that was the last to choose
\* looks after it as it did before, though loading and choosing decide on light and dark by
\* lists of their own, and the library a third to say which themes are
\* light.  Another page of the browser keeps its theme until it is loaded.
ReloadKeepsLook ==
  [][\A p \in Pages : last = p /\ Load(p) => look'[p] = look[p] /\ Honest(p)']_vars
=============================================================================
