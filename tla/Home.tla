-------------------------------- MODULE Home --------------------------------
(***************************************************************************)
(* app/page.tsx: the windows of the applications, and the home page whose  *)
(* three sections (0 home, 1 metrics, 2 backups) the wheel turns one by    *)
(* one.  Metrics and backups scroll inside until they reach an edge.       *)
(*                                                                         *)
(* Positions are sections: y is the one scrollY rounds to, goal the one a  *)
(* smooth scroll is on its way to.  Two spans of time are kept apart since *)
(* the code relates them: `fresh' says that the last wheel event was more  *)
(* than 180 ms ago, `cool' that less than 220 ms have passed since a snap  *)
(* ended or a wheel event was swallowed for that reason.  Everything else  *)
(* timed (400 ms of fading, 1200 ms of patience, 2000 ms to confirm) may   *)
(* end at any moment.  The content of a section loads, grows and is moved  *)
(* by hand, so at each event its scroller may be at its edge or not.       *)
(***************************************************************************)
EXTENDS Integers

CONSTANTS
  Apps,       \* applications that open in a window (Ollama, Kiwix)
  MaxTimers,  \* bound on the pending removal timers of an application
  NULL

Sections == 0 .. 2
Inner    == {1, 2}          \* the sections with a scroller of their own
Dirs     == {-1, 1}
Window   == [min : BOOLEAN, closing : BOOLEAN]

ASSUME HomeAssumption == MaxTimers \in Nat /\ NULL \notin Sections /\ NULL \notin Window

VARIABLES
  win,      \* win[a]: the window of a in openWindows, or NULL
  timers,   \* timers[a]: the pending setTimeouts of closeApp(a)
  asked,    \* history: the closing windows whose icon was clicked
  view,     \* currentSection
  y,        \* the section at scrollY
  goal,     \* the section the page is scrolling to
  still,    \* the page is at rest there; until then another scroll event will come
  progress, \* scrollProgress
  target,   \* snapTargetRef
  lock,     \* snapLockRef
  settle,   \* the section whose animation frame and timeout are pending
  cool,     \* postSnapCooldownRef is in the future
  fresh,    \* the next wheel event begins a gesture
  confirm,  \* boundaryConfirmRef
  did,      \* history: what the wheel has moved in this gesture
  away      \* history: home was left, and no scroll event was handled since

winVars   == <<win, timers, asked>>
pageVars  == <<view, y, goal, still, progress, away>>
snapVars  == <<target, lock, settle, cool, confirm>>
wheelVars == <<fresh, did>>
vars      == <<winVars, pageVars, snapVars, wheelVars>>

Init ==
  /\ win = [a \in Apps |-> NULL] /\ timers = [a \in Apps |-> 0] /\ asked = {}
  /\ view = "home" /\ y = 0 /\ goal = 0 /\ still = TRUE /\ progress = 0 /\ away = FALSE
  /\ target = NULL /\ lock = FALSE /\ settle = NULL /\ cool = FALSE /\ confirm = NULL
  /\ fresh = TRUE /\ did = "nothing"

\* window.scrollTo: a smooth scroll (html has scroll-behavior: smooth), and nothing at all
\* if the page is there already.
ScrollTo(i) == goal' = i /\ still' = (still /\ y = i)

-----------------------------------------------------------------------------
(* Windows.                                                                *)

\* The window of a is shown and all the others are minimised.
InFront(a) ==
  [b \in Apps |-> CASE b = a -> [min |-> FALSE, closing |-> FALSE]
                    [] b # a /\ win[b] # NULL -> [win[b] EXCEPT !.min = TRUE]
                    [] OTHER -> NULL]

\* openApp, from a card of the welcome section: nothing while the window is closing.
OpenApp(a) ==
  /\ view = "home"
  /\ win[a] # NULL => ~win[a].closing
  /\ win' = InFront(a)
  /\ UNCHANGED <<timers, asked, pageVars, snapVars, wheelVars>>

\* handleDockClick: restore or minimise; for a closing window it calls openApp, which does
\* nothing with one.
DockClick(a) ==
  /\ win[a] # NULL
  /\ \/ win[a].closing /\ win' = win /\ asked' = asked \cup {a}
     \/ ~win[a].closing /\ win[a].min /\ win' = InFront(a) /\ UNCHANGED asked
     \/ ~win[a].closing /\ ~win[a].min /\ win' = [win EXCEPT ![a].min = TRUE] /\ UNCHANGED asked
  /\ UNCHANGED <<timers, pageVars, snapVars, wheelVars>>

\* The buttons of a title bar, which is there until the window is minimised or gone.
Minimise(a) ==
  /\ win[a] # NULL /\ ~win[a].min
  /\ win' = [win EXCEPT ![a].min = TRUE]
  /\ UNCHANGED <<timers, asked, pageVars, snapVars, wheelVars>>

\* Mutated form: no timer, the window is left to its transition.
MutFading(a) == timers[a]

\* closeApp sets one timer more.
Fading(a) == timers[a] + 1

CloseApp(a) ==
  /\ win[a] # NULL /\ ~win[a].min /\ timers[a] < MaxTimers
  /\ win' = [win EXCEPT ![a] = [min |-> FALSE, closing |-> TRUE]]
  /\ timers' = [timers EXCEPT ![a] = Fading(a)]
  /\ UNCHANGED <<asked, pageVars, snapVars, wheelVars>>

\* Mutated form: the filter looks at the id alone.
MutRemoves(a) == win[a] # NULL

\* The filter of the timer: the window may be another one than it was set for.
Removes(a) == win[a] # NULL /\ win[a].closing

Faded(a) ==
  /\ timers[a] > 0
  /\ timers' = [timers EXCEPT ![a] = @ - 1]
  /\ win' = IF Removes(a) THEN [win EXCEPT ![a] = NULL] ELSE win
  /\ asked' = IF Removes(a) THEN asked \ {a} ELSE asked
  /\ UNCHANGED <<pageVars, snapVars, wheelVars>>

AllMinimised ==
  [a \in Apps |-> IF win[a] # NULL /\ ~win[a].closing THEN [win[a] EXCEPT !.min = TRUE]
                                                       ELSE win[a]]

-----------------------------------------------------------------------------
(* Navigation.                                                             *)

\* The home button on the home page: a pending snap is not called off.
GoTop ==
  /\ view = "home"
  /\ win' = AllMinimised
  /\ ScrollTo(0)
  /\ did' = "nothing"
  /\ UNCHANGED <<timers, asked, view, y, progress, away, snapVars, fresh>>

\* The home button elsewhere: the page is at its top, and since nothing scrolls no event brings
\* target and progress up to date.
ComeHome ==
  /\ view # "home"
  /\ win' = AllMinimised
  /\ view' = "home"
  /\ UNCHANGED <<timers, asked, y, goal, still, progress, away, snapVars, fresh, did>>

\* What the effect of the wheel listener takes back.
Cleanup == settle' = NULL /\ confirm' = NULL /\ lock' = FALSE

\* The metrics or backups button.  The page shrinks to one screen; the scroll event this
\* causes finds no handler of the home page.
Leave(v) ==
  /\ v # view
  /\ win' = AllMinimised
  /\ view' = v
  /\ \/ /\ view = "home"
        /\ Cleanup
        /\ y' = 0 /\ goal' = 0 /\ still' = TRUE /\ away' = TRUE /\ did' = "nothing"
     \/ /\ view # "home"
        /\ UNCHANGED <<settle, confirm, lock, y, goal, still, away, did>>
  /\ UNCHANGED <<timers, asked, progress, target, cool, fresh>>

-----------------------------------------------------------------------------
(* The wheel.                                                              *)

\* The section a wheel event is about.
Current == IF target # NULL THEN target ELSE y

\* What the gesture has moved when it moves m as well.
Did(m) == LET d == IF fresh THEN "nothing" ELSE did
          IN  IF d = "nothing" \/ (d = "inner" /\ m = "inner") THEN m ELSE "two"

\* An event that moves nothing.
Swallowed == did' = IF fresh THEN "nothing" ELSE did

\* The edge was hit by an earlier gesture in the same direction.
Confirmed(dir) == confirm = [idx |-> Current, dir |-> dir] /\ fresh

\* A snap is on its way, or has just ended.
WheelHeld ==
  /\ lock \/ cool
  /\ Swallowed
  /\ UNCHANGED <<snapVars, goal, still>>

\* The inner scroller can go on, and does if the pointer is over it: not if the page rests
\* at another section.
WheelInner ==
  /\ ~lock /\ ~cool /\ Current \in Inner
  /\ confirm' = NULL
  /\ \/ (still => y = Current) /\ did' = Did("inner")
     \/ Swallowed
  /\ UNCHANGED <<target, lock, settle, cool, goal, still>>

\* The inner scroller is at its edge: another gesture has to confirm.
WheelEdge(dir) ==
  /\ ~lock /\ ~cool /\ Current \in Inner /\ ~Confirmed(dir)
  /\ confirm' = [idx |-> Current, dir |-> dir]
  /\ Swallowed
  /\ UNCHANGED <<target, lock, settle, cool, goal, still>>

May(dir) == ~lock /\ ~cool /\ (Current \in Inner => Confirmed(dir))

\* clampHomeSectionIndex leaves i as it is.
There(i) == i \in Sections

\* There is no section in that direction.
WheelEnd(dir) ==
  /\ May(dir) /\ ~There(Current + dir)
  /\ target' = Current /\ confirm' = NULL
  /\ Swallowed
  /\ UNCHANGED <<lock, settle, cool, goal, still>>

\* The snap to the next section; settleHomeSnap sets a frame and a timeout.
WheelSnap(dir) ==
  /\ May(dir) /\ There(Current + dir)
  /\ confirm' = NULL /\ lock' = TRUE
  /\ target' = Current + dir /\ settle' = Current + dir /\ ScrollTo(Current + dir)
  /\ did' = Did("snap")
  /\ UNCHANGED cool

Wheel(dir) ==
  /\ view = "home"
  /\ WheelHeld \/ WheelInner \/ WheelEdge(dir) \/ WheelEnd(dir) \/ WheelSnap(dir)
  /\ fresh' = FALSE
  /\ UNCHANGED <<winVars, view, y, progress, away>>

-----------------------------------------------------------------------------
(* Scrolling, timers and the passing of time.                              *)

\* Mutated form: only a wheel event moves the target.
MutFollow(i) == target

\* handleScroll: the target follows the page unless a snap has set it.
Follow(i) == IF lock THEN target ELSE i

\* The page gets on, by a section or the rest of one, and its handler hears of it.
Scroll ==
  /\ view = "home" /\ ~still
  /\ y' = CASE y < goal -> y + 1 [] y > goal -> y - 1 [] OTHER -> y
  /\ still' = (y' = goal)
  /\ progress' = y' /\ target' = Follow(y') /\ away' = FALSE
  /\ did' = IF lock THEN did ELSE "nothing"
  /\ UNCHANGED <<winVars, view, goal, lock, settle, cool, confirm, fresh>>

\* The scrollbar, the keyboard, a touch.
Drag(i) ==
  /\ view = "home" /\ i # goal
  /\ goal' = i /\ still' = FALSE /\ did' = "nothing"
  /\ UNCHANGED <<winVars, view, y, progress, away, snapVars, fresh>>

\* releaseHomeSnapLock.
Release == target' = settle /\ lock' = FALSE /\ settle' = NULL /\ cool' = TRUE

\* An animation frame finds the page where it should be.
Settled ==
  /\ settle # NULL /\ y = settle
  /\ Release
  /\ UNCHANGED <<winVars, pageVars, confirm, wheelVars>>

Patience == settle # NULL

\* After 1200 ms the page is sent there again and the lock is released all the same.
GiveUp ==
  /\ Patience
  /\ Release
  /\ ScrollTo(settle)
  /\ UNCHANGED <<winVars, view, y, progress, away, confirm, wheelVars>>

\* 220 ms without a wheel event are also 180 ms without one.
CoolEnds ==
  /\ cool
  /\ cool' = FALSE /\ fresh' = TRUE
  /\ UNCHANGED <<winVars, pageVars, target, lock, settle, confirm, did>>

Pause ==
  /\ ~fresh
  /\ fresh' = TRUE
  /\ UNCHANGED <<winVars, pageVars, snapVars, did>>

ConfirmExpires ==
  /\ confirm # NULL
  /\ confirm' = NULL
  /\ UNCHANGED <<winVars, pageVars, target, lock, settle, cool, wheelVars>>

-----------------------------------------------------------------------------
Next ==
  \/ \E a \in Apps : OpenApp(a) \/ DockClick(a) \/ Minimise(a) \/ CloseApp(a) \/ Faded(a)
  \/ GoTop \/ ComeHome \/ Leave("metrics") \/ Leave("backups")
  \/ \E dir \in Dirs : Wheel(dir)
  \/ \E i \in Sections : Drag(i)
  \/ Scroll \/ Settled \/ GiveUp \/ CoolEnds \/ Pause \/ ConfirmExpires

Spec == Init /\ [][Next]_vars

\* Timers fire, frames are drawn and the browser finishes its scrolling; nobody has to
\* click, turn the wheel or keep still.
FairSpec ==
  /\ Spec /\ WF_vars(Scroll) /\ WF_vars(Settled) /\ WF_vars(GiveUp)
  /\ \A a \in Apps : WF_vars(Faded(a))

-----------------------------------------------------------------------------
TypeOK ==
  /\ win \in [Apps -> Window \cup {NULL}]
  /\ timers \in [Apps -> 0 .. MaxTimers] /\ asked \subseteq Apps
  /\ view \in {"home", "metrics", "backups"}
  /\ {y, goal, progress} \subseteq Sections
  /\ target \in Sections \cup {NULL} /\ settle \in Sections \cup {NULL}
  /\ {still, lock, cool, fresh, away} \subseteq BOOLEAN
  /\ confirm \in [idx : Inner, dir : Dirs] \cup {NULL}
  /\ did \in {"nothing", "inner", "snap", "two"}

\* At most one window is in front of the page, whatever is opened, restored, closed or
\* minimised while another one fades.
OneWindowShown ==
  \A a, b \in Apps :
    (\A c \in {a, b} : win[c] # NULL /\ win[c] = [min |-> FALSE, closing |-> FALSE]) => a = b

\* The timer of an earlier close does not take a window that was opened since.
OpenWindowsStay ==
  [][\A a \in Apps : win[a] # NULL /\ ~win[a].closing => win'[a] # NULL]_vars

\* A window that was closed goes, also if it is minimised or closed again while it fades,
\* unless its icon is clicked before: the comment of handleDockClick promises another thing.
ClosedWindowsGo ==
  \A a \in Apps : (win[a] # NULL /\ win[a].closing) ~> (win[a] = NULL \/ a \in asked)

\* "Click app while closing -> reopen immediately" (27_Dock_UX.md:56), "if closing -> reopen"
\* (page.tsx:310): a window whose icon was clicked while it was closing is not taken away.
\* The code does not keep to it.
ClickedWindowsReopen == [][\A a \in asked : win'[a] # NULL]_vars

\* "a fresh wheel gesture is required before moving from one full-page section to the
\* next" (61_Home_Scroll_Snap_Refinement.md:24): one gesture scrolls inside a section or
\* turns one page, whatever its momentum, as long as nothing else moves the page.
OneThingPerGesture == did # "two"

\* The lock is held exactly while the frame and the timeout that release it are pending,
\* and never on another page: nothing scrolls the home page for a snap long gone.
LockHasTimers == (lock <=> settle # NULL) /\ (lock => view = "home")

\* When the home page has come to rest, the next wheel event starts from the section on
\* the screen and the sections are drawn for it, unless the page was left and nothing has
\* scrolled since.
RestsWhereItThinks ==
  view = "home" /\ ~lock /\ still /\ ~away => target \in {NULL, y} /\ progress = y

\* The inductive invariant of HomeProofs: a gesture that turned a page is held back until
\* it is over, and one that scrolled inside a section is still about that section.
GestureHeld ==
  ~fresh =>
    /\ did = "snap" => lock \/ cool
    /\ did = "inner" => ~lock /\ Current \in Inner

\* Every scroll event is handled unless home was left.
Drawn == (~away => progress = y) /\ (view # "home" => away)

IInv ==
  /\ TypeOK /\ OneWindowShown /\ OneThingPerGesture /\ LockHasTimers /\ RestsWhereItThinks
  /\ GestureHeld /\ Drawn
=============================================================================
