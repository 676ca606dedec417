----------------------------- MODULE HomeProofs -----------------------------
(* What Home.tla keeps for every set of applications and every bound: IInv *)
(* is inductive, shown one group of conjuncts at a time.  At the end, what *)
(* Frame.tla shows of it.                                                  *)
EXTENDS Frame, FiniteSetTheorems, TLAPS

\* The windows are functions into windows and NULL, whichever of the two ways several of
\* them change at once.
LEMMA InFrontTyped ==
  ASSUME NEW a \in Apps, win \in [Apps -> Window \cup {NULL}]
  PROVE  InFront(a) \in [Apps -> Window \cup {NULL}]
<1>1. [min |-> FALSE, closing |-> FALSE] \in Window
  BY DEF Window
<1>2. ASSUME NEW b \in Apps, win[b] # NULL
      PROVE  [win[b] EXCEPT !.min = TRUE] \in Window
  <2>1. win[b] \in Window
    BY <1>2
  <2> QED BY <2>1 DEF Window
<1>3. ASSUME NEW b \in Apps
      PROVE  (CASE b = a -> [min |-> FALSE, closing |-> FALSE]
                [] b # a /\ win[b] # NULL -> [win[b] EXCEPT !.min = TRUE]
                [] OTHER -> NULL) \in Window \cup {NULL}
  <2>1. CASE b = a
    BY <2>1, <1>1
  <2>2. CASE b # a /\ win[b] # NULL
    BY <2>2, <1>2
  <2>3. CASE b # a /\ win[b] = NULL
    BY <2>3
  <2> QED BY <2>1, <2>2, <2>3
<1> QED BY <1>3 DEF InFront

\* page.tsx: minimising every window leaves windows.
LEMMA AllMinimisedTyped ==
  ASSUME win \in [Apps -> Window \cup {NULL}]
  PROVE  AllMinimised \in [Apps -> Window \cup {NULL}]
<1>1. ASSUME NEW b \in Apps, win[b] # NULL
      PROVE  [win[b] EXCEPT !.min = TRUE] \in Window
  <2>1. win[b] \in Window
    BY <1>1
  <2> QED BY <2>1 DEF Window
<1>2. ASSUME NEW b \in Apps
      PROVE  (IF win[b] # NULL /\ ~win[b].closing THEN [win[b] EXCEPT !.min = TRUE]
                                                  ELSE win[b]) \in Window \cup {NULL}
  BY <1>1
<1> QED BY <1>2 DEF AllMinimised

-----------------------------------------------------------------------------
(* Windows.                                                                *)

Shown(w, a) == w[a] # NULL /\ ~w[a].min /\ ~w[a].closing

Alone(w) == \A a, b \in Apps : Shown(w, a) /\ Shown(w, b) => a = b

\* Alone is OneWindowShown, of any windows w and without its records.
LEMMA ShownOnce ==
  ASSUME NEW w \in [Apps -> Window \cup {NULL}]
  PROVE  Alone(w) <=>
           \A a, b \in Apps :
             (\A c \in {a, b} : w[c] # NULL /\ w[c] = [min |-> FALSE, closing |-> FALSE]) => a = b
<1>1. ASSUME NEW a \in Apps, w[a] # NULL
      PROVE  w[a] = [min |-> FALSE, closing |-> FALSE] <=> ~w[a].min /\ ~w[a].closing
  <2>1. w[a] \in Window
    BY <1>1
  <2> QED BY <2>1 DEF Window
<1>2. ASSUME NEW a \in Apps, NEW b \in Apps
      PROVE  (\A c \in {a, b} : w[c] # NULL /\ w[c] = [min |-> FALSE, closing |-> FALSE])
               <=> Shown(w, a) /\ Shown(w, b)
  BY <1>1 DEF Shown
<1> QED BY <1>2 DEF Alone

\* Opening a window hides every other one, whatever it was doing.
LEMMA InFrontAlone ==
  ASSUME NEW a \in Apps, NEW b \in Apps, win \in [Apps -> Window \cup {NULL}],
         Shown(InFront(a), b)
  PROVE  b = a
<1> SUFFICES ASSUME b # a PROVE FALSE
  OBVIOUS
<1>1. CASE win[b] # NULL
  <2>1. win[b] \in Window
    BY <1>1
  <2>2. InFront(a)[b] = [win[b] EXCEPT !.min = TRUE]
    BY <1>1 DEF InFront
  <2> QED BY <2>1, <2>2 DEF Shown, Window
<1>2. CASE win[b] = NULL
  <2>1. InFront(a)[b] = NULL
    BY <1>2 DEF InFront
  <2> QED BY <2>1 DEF Shown
<1> QED BY <1>1, <1>2

\* Minimising one window or all of them shows none that was not shown.
LEMMA MinimisedHides ==
  ASSUME NEW a \in Apps, NEW b \in Apps, win \in [Apps -> Window \cup {NULL}],
         win[a] # NULL, Shown([win EXCEPT ![a].min = TRUE], b)
  PROVE  Shown(win, b)
<1>1. win[a] \in Window
  OBVIOUS
<1>2. b # a
  BY <1>1 DEF Shown, Window
<1> QED BY <1>2 DEF Shown

\* When every window is minimised none is shown.
LEMMA AllMinimisedHides ==
  ASSUME NEW b \in Apps, win \in [Apps -> Window \cup {NULL}], Shown(AllMinimised, b)
  PROVE  FALSE
<1>1. CASE win[b] # NULL /\ ~win[b].closing
  <2>1. win[b] \in Window
    BY <1>1
  <2>2. AllMinimised[b] = [win[b] EXCEPT !.min = TRUE]
    BY <1>1 DEF AllMinimised
  <2> QED BY <2>1, <2>2 DEF Shown, Window
<1>2. CASE ~(win[b] # NULL /\ ~win[b].closing)
  BY <1>2 DEF AllMinimised, Shown
<1> QED BY <1>1, <1>2

WinTyped ==
  /\ win \in [Apps -> Window \cup {NULL}] /\ timers \in [Apps -> 0 .. MaxTimers]
  /\ asked \subseteq Apps

\* The windows stay typed and at most one of them shown, whoever acts.
LEMMA WindowStep ==
  ASSUME WinTyped, OneWindowShown, [Next]_vars
  PROVE  WinTyped' /\ OneWindowShown'
<1>0. /\ win \in [Apps -> Window \cup {NULL}] /\ timers \in [Apps -> 0 .. MaxTimers]
      /\ MaxTimers \in Nat /\ asked \subseteq Apps
  BY HomeAssumption DEF WinTyped
<1>1. Alone(win)
  BY <1>0, ShownOnce DEF OneWindowShown
<1>2. SUFFICES WinTyped' /\ Alone(win')
  BY ShownOnce DEF OneWindowShown, WinTyped
<1>3. ASSUME NEW a \in Apps, OpenApp(a)
      PROVE  WinTyped' /\ Alone(win')
  BY <1>0, <1>3, InFrontTyped, InFrontAlone DEF OpenApp, WinTyped, Alone
<1>4. ASSUME NEW a \in Apps, Minimise(a)
      PROVE  WinTyped' /\ Alone(win')
  <2>1. win' \in [Apps -> Window \cup {NULL}]
    <3>1. win[a] \in Window
      BY <1>0, <1>4 DEF Minimise
    <3>2. [win[a] EXCEPT !.min = TRUE] \in Window
      BY <3>1 DEF Window
    <3> QED BY <1>0, <1>4, <3>2 DEF Minimise
  <2>2. \A b \in Apps : Shown(win', b) => Shown(win, b)
    BY <1>0, <1>4, MinimisedHides DEF Minimise
  <2> QED BY <1>0, <1>1, <1>4, <2>1, <2>2 DEF Minimise, WinTyped, Alone
<1>5. ASSUME NEW a \in Apps, DockClick(a)
      PROVE  WinTyped' /\ Alone(win')
  <2>1. CASE win[a].closing
    BY <1>0, <1>1, <1>5, <2>1 DEF DockClick, WinTyped
  <2>2. CASE ~win[a].closing /\ win[a].min
    BY <1>0, <1>5, <2>2, InFrontTyped, InFrontAlone DEF DockClick, WinTyped, Alone
  <2>3. CASE ~win[a].closing /\ ~win[a].min
    <3>1. Minimise(a)
      BY <1>5, <2>3 DEF DockClick, Minimise
    <3> QED BY <1>4, <3>1
  <2> QED BY <2>1, <2>2, <2>3
<1>6. ASSUME NEW a \in Apps, CloseApp(a)
      PROVE  WinTyped' /\ Alone(win')
  <2>1. win' \in [Apps -> Window \cup {NULL}]
    BY <1>0, <1>6 DEF CloseApp, Window
  <2>2. timers' \in [Apps -> 0 .. MaxTimers]
    BY <1>0, <1>6 DEF CloseApp, Fading
  <2>3. \A b \in Apps : Shown(win', b) => Shown(win, b)
    BY <1>0, <1>6 DEF CloseApp, Shown
  <2> QED BY <1>0, <1>1, <1>6, <2>1, <2>2, <2>3 DEF CloseApp, WinTyped, Alone
<1>7. ASSUME NEW a \in Apps, Faded(a)
      PROVE  WinTyped' /\ Alone(win')
  <2>1. win' \in [Apps -> Window \cup {NULL}]
    BY <1>0, <1>7 DEF Faded
  <2>2. timers' \in [Apps -> 0 .. MaxTimers]
    BY <1>0, <1>7 DEF Faded
  <2>3. \A b \in Apps : Shown(win', b) => Shown(win, b)
    BY <1>0, <1>7 DEF Faded, Shown
  <2>4. asked' \subseteq Apps
    BY <1>0, <1>7 DEF Faded
  <2> QED BY <1>1, <2>1, <2>2, <2>3, <2>4 DEF WinTyped, Alone
<1>8. ASSUME win' = AllMinimised, UNCHANGED <<timers, asked>>
      PROVE  WinTyped' /\ Alone(win')
  <2>1. \A b \in Apps : ~Shown(win', b)
    BY <1>0, <1>8, AllMinimisedHides
  <2> QED BY <1>0, <1>8, <2>1, AllMinimisedTyped DEF WinTyped, Alone
<1>9. ASSUME UNCHANGED winVars
      PROVE  WinTyped' /\ Alone(win')
  BY <1>0, <1>1, <1>9 DEF winVars, WinTyped
<1> QED
  BY <1>3, <1>4, <1>5, <1>6, <1>7, <1>8, <1>9
  DEF Next, vars, GoTop, ComeHome, Leave, Wheel, Drag, Scroll, Settled, GiveUp, CoolEnds, Pause,
      ConfirmExpires

-----------------------------------------------------------------------------
(* The page and the wheel.                                                 *)

PageTyped ==
  /\ view \in {"home", "metrics", "backups"}
  /\ y \in Sections /\ goal \in Sections /\ progress \in Sections
  /\ target \in Sections \cup {NULL} /\ settle \in Sections \cup {NULL}
  /\ still \in BOOLEAN /\ lock \in BOOLEAN /\ cool \in BOOLEAN /\ fresh \in BOOLEAN
  /\ away \in BOOLEAN
  /\ confirm \in [idx : Inner, dir : Dirs] \cup {NULL}
  /\ did \in {"nothing", "inner", "snap", "two"}

PageInv ==
  PageTyped /\ OneThingPerGesture /\ LockHasTimers /\ RestsWhereItThinks /\ GestureHeld /\ Drawn

\* What a gesture has moved, after an event that moves m.
LEMMA DidIs ==
  ASSUME NEW m \in {"inner", "snap"}
  PROVE  /\ fresh => Did(m) = m
         /\ did = "nothing" => Did(m) = m
         /\ did = "inner" /\ m = "inner" => Did(m) = m
BY DEF Did

\* A wheel event: what it moves, it moves alone in its gesture.
LEMMA WheelStep ==
  ASSUME PageInv, NEW dir \in Dirs, Wheel(dir)
  PROVE  PageInv'
<1> USE HomeAssumption DEF PageInv, PageTyped, Sections, Inner, Dirs
<1>1. Current \in Sections
  BY DEF Current
<1>2. did # "two" /\ (lock <=> settle # NULL)
  BY DEF OneThingPerGesture, LockHasTimers
<1>3. view = "home" /\ fresh' = FALSE /\ UNCHANGED <<view, y, progress, away>>
  BY DEF Wheel
<1>4. Drawn'
  BY <1>3 DEF Drawn
<1>5. CASE WheelHeld
  <2>1. UNCHANGED <<target, lock, settle, cool, confirm, goal, still>> /\ (lock \/ cool)
    BY <1>5 DEF WheelHeld, snapVars
  <2>2. did' = IF fresh THEN "nothing" ELSE did
    BY <1>5 DEF WheelHeld, Swallowed
  <2>3. PageTyped' /\ OneThingPerGesture' /\ LockHasTimers' /\ RestsWhereItThinks'
    BY <1>2, <1>3, <2>1, <2>2 DEF OneThingPerGesture, LockHasTimers, RestsWhereItThinks
  <2>4. GestureHeld'
    BY <1>3, <2>1, <2>2 DEF GestureHeld, Current
  <2> QED BY <1>4, <2>3, <2>4
<1>6. CASE WheelInner
  <2>1. /\ UNCHANGED <<target, lock, settle, cool, goal, still>> /\ confirm' = NULL
        /\ ~lock /\ ~cool /\ Current \in Inner
    BY <1>6 DEF WheelInner
  <2>2. fresh \/ did \in {"nothing", "inner"}
    BY <1>2, <2>1 DEF GestureHeld
  <2>3. did' \in {"nothing", "inner"}
    BY <1>6, <2>2, DidIs DEF WheelInner, Swallowed
  <2>4. PageTyped' /\ OneThingPerGesture' /\ LockHasTimers' /\ RestsWhereItThinks'
    BY <1>2, <1>3, <2>1, <2>3 DEF OneThingPerGesture, LockHasTimers, RestsWhereItThinks
  <2>5. GestureHeld'
    BY <1>3, <2>1, <2>3 DEF GestureHeld, Current
  <2> QED BY <1>4, <2>4, <2>5
<1>7. CASE WheelEdge(dir)
  <2>1. /\ UNCHANGED <<target, lock, settle, cool, goal, still>>
        /\ confirm' = [idx |-> Current, dir |-> dir]
        /\ ~lock /\ ~cool /\ Current \in Inner
    BY <1>7 DEF WheelEdge
  <2>2. did' \in {"nothing", "inner"}
    BY <1>2, <1>7, <2>1 DEF GestureHeld, WheelEdge, Swallowed
  <2>3. PageTyped' /\ OneThingPerGesture' /\ LockHasTimers' /\ RestsWhereItThinks'
    BY <1>2, <1>3, <2>1, <2>2 DEF OneThingPerGesture, LockHasTimers, RestsWhereItThinks
  <2>4. GestureHeld'
    BY <1>3, <2>1, <2>2 DEF GestureHeld, Current
  <2> QED BY <1>4, <2>3, <2>4
<1>8. CASE WheelEnd(dir)
  <2>1. /\ UNCHANGED <<lock, settle, cool, goal, still>> /\ target' = Current /\ confirm' = NULL
        /\ ~lock /\ ~cool
    BY <1>8 DEF WheelEnd, May
  <2>2. /\ did' \in {"nothing", "inner"}
        /\ did' = "inner" => ~fresh /\ did = "inner"
    BY <1>2, <1>8, <2>1 DEF GestureHeld, WheelEnd, Swallowed
  <2>3. PageTyped' /\ OneThingPerGesture' /\ LockHasTimers'
    BY <1>1, <1>2, <1>3, <2>1, <2>2 DEF OneThingPerGesture, LockHasTimers
  <2>4. RestsWhereItThinks'
    BY <1>3, <2>1 DEF RestsWhereItThinks, Current
  <2>5. GestureHeld'
    BY <1>1, <2>1, <2>2 DEF GestureHeld, Current
  <2> QED BY <1>4, <2>3, <2>4, <2>5
<1>9. CASE WheelSnap(dir)
  <2>1. /\ lock' = TRUE /\ cool' = cool /\ confirm' = NULL
        /\ Current + dir \in Sections
        /\ target' = Current + dir /\ settle' = Current + dir
        /\ goal' = Current + dir /\ still' \in BOOLEAN
    BY <1>9 DEF WheelSnap, There, ScrollTo
  <2>2. fresh \/ did = "nothing"
    BY <1>2, <1>9 DEF WheelSnap, May, Confirmed, GestureHeld
  <2>3. did' = "snap"
    BY <1>9, <2>2, DidIs DEF WheelSnap
  <2>4. settle' # NULL
    BY <2>1
  <2>5. PageTyped' /\ OneThingPerGesture' /\ LockHasTimers' /\ RestsWhereItThinks'
    BY <1>3, <2>1, <2>3, <2>4 DEF OneThingPerGesture, LockHasTimers, RestsWhereItThinks
  <2>6. GestureHeld'
    BY <2>1, <2>3 DEF GestureHeld
  <2> QED BY <1>4, <2>5, <2>6
<1> QED BY <1>5, <1>6, <1>7, <1>8, <1>9 DEF Wheel

\* The page scrolls, and the target follows unless a snap has set it.
LEMMA ScrollStep ==
  ASSUME PageInv, Scroll
  PROVE  PageInv'
<1> USE HomeAssumption DEF PageInv, PageTyped, Sections
<1>1. /\ view = "home" /\ UNCHANGED <<view, goal, lock, settle, cool, confirm, fresh>>
      /\ progress' = y' /\ away' = FALSE /\ still' = (y' = goal)
      /\ target' = IF lock THEN target ELSE y'
      /\ did' = IF lock THEN did ELSE "nothing"
  BY DEF Scroll, Follow
<1>2. y' \in Sections
  BY DEF Scroll
<1>3. PageTyped' /\ OneThingPerGesture' /\ LockHasTimers' /\ RestsWhereItThinks' /\ Drawn'
  BY <1>1, <1>2 DEF OneThingPerGesture, LockHasTimers, RestsWhereItThinks, Drawn
<1>4. GestureHeld'
  BY <1>1 DEF GestureHeld
<1> QED BY <1>3, <1>4

\* The lock is released with the target where the page is or is being sent.
LEMMA ReleaseStep ==
  ASSUME PageInv, Settled \/ GiveUp
  PROVE  PageInv'
<1> USE HomeAssumption DEF PageInv, PageTyped, Sections
<1>1. /\ settle # NULL /\ target' = settle /\ lock' = FALSE /\ settle' = NULL /\ cool' = TRUE
      /\ UNCHANGED <<view, y, progress, away, confirm, fresh, did>>
  BY DEF Settled, GiveUp, Patience, Release, pageVars, wheelVars
<1>2. goal' \in Sections /\ still' \in BOOLEAN /\ (still' => still /\ y = settle)
  <2>1. CASE Settled
    BY <2>1 DEF Settled, pageVars
  <2>2. CASE GiveUp
    BY <2>2 DEF GiveUp, Patience, ScrollTo
  <2> QED BY <2>1, <2>2
<1>3. PageTyped' /\ OneThingPerGesture' /\ LockHasTimers' /\ Drawn'
  BY <1>1, <1>2 DEF OneThingPerGesture, LockHasTimers, Drawn
<1>4. RestsWhereItThinks'
  BY <1>1, <1>2 DEF RestsWhereItThinks, Drawn
<1>5. GestureHeld'
  BY <1>1 DEF GestureHeld, LockHasTimers
<1> QED BY <1>3, <1>4, <1>5

\* The buttons of the dock and a scroll by hand.
LEMMA NavigationStep ==
  ASSUME PageInv,
         \/ GoTop \/ ComeHome \/ Leave("metrics") \/ Leave("backups")
         \/ \E i \in Sections : Drag(i)
  PROVE  PageInv'
<1> USE HomeAssumption DEF PageInv, PageTyped, Sections
<1>1. CASE GoTop
  <2>1. /\ goal' = 0 /\ still' = (still /\ y = 0) /\ did' = "nothing"
        /\ UNCHANGED <<view, y, progress, away, target, lock, settle, cool, confirm, fresh>>
    BY <1>1 DEF GoTop, ScrollTo, snapVars
  <2> QED BY <2>1 DEF OneThingPerGesture, LockHasTimers, RestsWhereItThinks, GestureHeld, Drawn
<1>2. CASE ComeHome
  <2>1. /\ view # "home" /\ view' = "home"
        /\ UNCHANGED <<y, goal, still, progress, away, target, lock, settle, cool, confirm,
                       fresh, did>>
    BY <1>2 DEF ComeHome, snapVars
  <2> QED
    BY <2>1
    DEF OneThingPerGesture, LockHasTimers, RestsWhereItThinks, GestureHeld, Drawn, Current
<1>3. ASSUME NEW v \in {"metrics", "backups"}, Leave(v)
      PROVE  PageInv'
  <2>1. view' = v /\ v # "home" /\ UNCHANGED <<progress, target, cool, fresh>>
    BY <1>3 DEF Leave
  <2>2. CASE view = "home"
    <3>1. /\ settle' = NULL /\ confirm' = NULL /\ lock' = FALSE
          /\ y' = 0 /\ goal' = 0 /\ still' = TRUE /\ away' = TRUE /\ did' = "nothing"
      BY <1>3, <2>2 DEF Leave, Cleanup
    <3>2. PageTyped' /\ OneThingPerGesture' /\ LockHasTimers'
      <4>1. confirm' \in [idx : Inner, dir : Dirs] \cup {NULL}
        BY <3>1, Zenon
      <4>2. settle' \in Sections \cup {NULL}
        BY <3>1
      <4>3. PageTyped'
        <5>1. y' \in Sections /\ goal' \in Sections
          BY <3>1
        <5>2. still' \in BOOLEAN /\ lock' \in BOOLEAN /\ away' \in BOOLEAN
          BY <3>1, Zenon
        <5> QED BY <2>1, <3>1, <4>1, <4>2, <5>1, <5>2, Zenon DEF PageTyped
      <4> QED BY <2>1, <3>1, <4>3 DEF OneThingPerGesture, LockHasTimers
    <3>3. RestsWhereItThinks' /\ Drawn'
      BY <2>1, <3>1 DEF RestsWhereItThinks, Drawn
    <3>4. GestureHeld'
      BY <3>1 DEF GestureHeld
    <3> QED BY <3>2, <3>3, <3>4
  <2>3. CASE view # "home"
    <3>1. UNCHANGED <<settle, confirm, lock, y, goal, still, away, did>>
      BY <1>3, <2>3 DEF Leave
    <3> QED
      BY <2>1, <2>3, <3>1
      DEF OneThingPerGesture, LockHasTimers, RestsWhereItThinks, GestureHeld, Drawn, Current
  <2> QED BY <2>2, <2>3
<1>4. ASSUME NEW i \in Sections, Drag(i)
      PROVE  PageInv'
  <2>1. /\ goal' = i /\ still' = FALSE /\ did' = "nothing"
        /\ UNCHANGED <<view, y, progress, away, target, lock, settle, cool, confirm, fresh>>
    BY <1>4 DEF Drag, snapVars
  <2> QED
    BY <1>4, <2>1 DEF OneThingPerGesture, LockHasTimers, RestsWhereItThinks, GestureHeld, Drawn
<1> QED BY <1>1, <1>2, <1>3, <1>4

\* Time passes.
LEMMA TimeStep ==
  ASSUME PageInv, CoolEnds \/ Pause \/ ConfirmExpires
  PROVE  PageInv'
<1> USE HomeAssumption DEF PageInv, PageTyped, Sections
<1>1. /\ UNCHANGED <<view, y, goal, still, progress, away, target, lock, settle, did>>
      /\ confirm' \in {confirm, NULL} /\ cool' \in BOOLEAN /\ fresh' \in BOOLEAN
      /\ fresh' = TRUE \/ UNCHANGED <<cool, fresh>>
  BY DEF CoolEnds, Pause, ConfirmExpires, pageVars, snapVars, wheelVars
<1> QED
  BY <1>1 DEF OneThingPerGesture, LockHasTimers, RestsWhereItThinks, GestureHeld, Drawn, Current

\* What leaves the page alone.
LEMMA PageUnchanged ==
  ASSUME PageInv, UNCHANGED <<pageVars, snapVars, wheelVars>>
  PROVE  PageInv'
BY DEF PageInv, PageTyped, OneThingPerGesture, LockHasTimers, RestsWhereItThinks, GestureHeld,
       Drawn, Current, pageVars, snapVars, wheelVars

\* A step of the page keeps what IInv says of the page.
LEMMA PageStep ==
  ASSUME PageInv, [Next]_vars
  PROVE  PageInv'
<1>1. ASSUME NEW a \in Apps, OpenApp(a) \/ DockClick(a) \/ Minimise(a) \/ CloseApp(a) \/ Faded(a)
      PROVE  PageInv'
  BY <1>1, PageUnchanged DEF OpenApp, DockClick, Minimise, CloseApp, Faded
<1>2. CASE UNCHANGED vars
  BY <1>2, PageUnchanged DEF vars
<1> QED
  BY <1>1, <1>2, WheelStep, ScrollStep, ReleaseStep, NavigationStep, TimeStep DEF Next

-----------------------------------------------------------------------------
\* IInv is inductive: what nobody at the page can make untrue.
LEMMA Groups == IInv <=> WinTyped /\ OneWindowShown /\ PageInv
BY DEF IInv, TypeOK, WinTyped, PageInv, PageTyped

\* Page.tsx: IInv is inductive.
THEOREM Invariance == Spec => []IInv
<1>1. Init => IInv
  <2>1. ASSUME Init PROVE WinTyped /\ OneWindowShown
    BY <2>1, HomeAssumption DEF Init, WinTyped, OneWindowShown
  <2>2. ASSUME Init PROVE PageInv
    <3>1. PageTyped
      <4>1. confirm \in [idx : Inner, dir : Dirs] \cup {NULL}
        BY <2>2, Zenon DEF Init
      <4>2. settle \in Sections \cup {NULL} /\ target \in Sections \cup {NULL}
        BY <2>2 DEF Init
      <4>3. view = "home" /\ did = "nothing" /\ {y, goal, progress} = {0} /\ 0 \in Sections
        BY <2>2 DEF Init, Sections
      <4>4. {still, lock, cool, fresh, away} \subseteq BOOLEAN
        BY <2>2, Zenon DEF Init
      <4> QED BY <4>1, <4>2, <4>3, <4>4, Zenon DEF PageTyped
    <3>2. OneThingPerGesture /\ LockHasTimers
      BY <2>2 DEF Init, OneThingPerGesture, LockHasTimers
    <3>3. RestsWhereItThinks /\ GestureHeld /\ Drawn
      BY <2>2 DEF Init, RestsWhereItThinks, GestureHeld, Drawn
    <3> QED BY <3>1, <3>2, <3>3 DEF PageInv
  <2> QED BY <2>1, <2>2, Groups
<1>2. IInv /\ [Next]_vars => IInv'
  <2>1. ASSUME IInv, [Next]_vars
        PROVE  (WinTyped /\ OneWindowShown /\ PageInv)'
    BY <2>1, Groups, WindowStep, PageStep
  <2> QED BY <2>1, Groups, PTL
<1> QED BY <1>1, <1>2, PTL DEF Spec

\* Windows, timers and the page keep their types.
THEOREM TypeCorrect == Spec => []TypeOK
BY Invariance, PTL DEF IInv

\* openApp, handleDockClick and closeApp never leave two windows in front of the page.
THEOREM OneWindow == Spec => []OneWindowShown
BY Invariance, PTL DEF IInv

\* The wheel listener turns one page or scrolls one section per gesture.
THEOREM OneThing == Spec => []OneThingPerGesture
BY Invariance, PTL DEF IInv

\* settleHomeSnap holds the lock exactly while it has something pending.
THEOREM LockSafe == Spec => []LockHasTimers
BY Invariance, PTL DEF IInv

\* snapTargetRef and scrollProgress are right whenever the page is at rest and was not left.
THEOREM RestSafe == Spec => []RestsWhereItThinks
BY Invariance, PTL DEF IInv

\* No timer of closeApp removes a window that is open again.
THEOREM OpenWindows == Spec => OpenWindowsStay
<1>1. ASSUME TypeOK, [Next]_vars
      PROVE  \A a \in Apps : win[a] # NULL /\ ~win[a].closing => win'[a] # NULL
  <2> SUFFICES ASSUME NEW a \in Apps, win[a] # NULL, ~win[a].closing
               PROVE  win'[a] # NULL
    OBVIOUS
  <2>1. /\ win \in [Apps -> Window \cup {NULL}] /\ win[a] \in Window
        /\ NULL \notin Window
    BY <1>1, HomeAssumption DEF TypeOK
  <2>2. [win[a] EXCEPT !.min = TRUE] \in Window
    BY <2>1 DEF Window
  <2>3. \A m, c \in BOOLEAN : [min |-> m, closing |-> c] # NULL
    BY <2>1 DEF Window
  <2>4. ASSUME NEW b \in Apps
        PROVE  InFront(b)[a] # NULL
    BY <2>1, <2>2, <2>3 DEF InFront
  <2>5. AllMinimised[a] # NULL
    BY <2>1, <2>2 DEF AllMinimised
  <2>6. ASSUME NEW b \in Apps
        PROVE  [win EXCEPT ![b].min = TRUE][a] # NULL
    <3>1. CASE b = a
      <4>1. [win EXCEPT ![b].min = TRUE][a] = [win[a] EXCEPT !.min = TRUE]
        BY <2>1, <3>1
      <4> QED BY <2>1, <2>2, <4>1
    <3>2. CASE b # a
      BY <2>1, <3>2
    <3> QED BY <3>1, <3>2
  <2>7. ASSUME NEW b \in Apps, OpenApp(b) \/ DockClick(b) \/ Minimise(b)
        PROVE  win'[a] # NULL
    BY <2>4, <2>6, <2>7 DEF OpenApp, DockClick, Minimise
  <2>8. ASSUME NEW b \in Apps, CloseApp(b)
        PROVE  win'[a] # NULL
    BY <2>1, <2>3, <2>8 DEF CloseApp
  <2>9. ASSUME NEW b \in Apps, Faded(b)
        PROVE  win'[a] # NULL
    BY <2>1, <2>9 DEF Faded, Removes
  <2>10. CASE UNCHANGED winVars
    BY <2>10 DEF winVars
  <2> QED
    BY <1>1, <2>5, <2>7, <2>8, <2>9, <2>10
    DEF Next, vars, winVars, GoTop, ComeHome, Leave, Wheel, Drag, Scroll, Settled, GiveUp,
        CoolEnds, Pause, ConfirmExpires
<1> QED BY <1>1, TypeCorrect, PTL DEF OpenWindowsStay, Spec

-----------------------------------------------------------------------------
(* What is on the screen.                                                  *)

\* hasOpenWindow (page.tsx): no two windows are in front.
LEMMA FrontIsOne ==
  ASSUME TypeOK, OneWindowShown
  PROVE  Cardinality(Front) <= 1
<1>1. Alone(win)
  BY ShownOnce DEF TypeOK, OneWindowShown
<1>2. CASE Front = {}
  BY <1>2, FS_EmptySet
<1>3. CASE Front # {}
  <2>1. PICK a \in Apps : a \in Front
    BY <1>3 DEF Front
  <2>2. Front = {a}
    BY <1>1, <2>1 DEF Front, Alone, Shown
  <2> QED BY <2>2, FS_Singleton
<1> QED BY <1>2, <1>3

\* dockApps (page.tsx): the icon of a window is the active one exactly if it is in front.
LEMMA IconTellsFront ==
  ASSUME NEW a \in Apps, win[a] # NULL
  PROVE  IconOf(a).look = "active" <=> a \in Front
<1>1. DockApps[a] = [isOpen |-> ~win[a].closing, isActive |-> a \in Front]
  BY DEF DockApps
<1>2. DockApps[a].isActive = (a \in Front) /\ DockApps[a].isOpen = (~win[a].closing)
  BY <1>1
<1>3. IconOf(a).look = CASE DockApps[a].isActive -> "active" [] ~DockApps[a].isOpen -> "closing"
                         [] OTHER -> "minimised"
  BY DEF IconOf
<1>4. a \in Front => ~win[a].closing
  BY DEF Front
<1>5. CASE a \in Front
  <2>1. DockApps[a].isActive /\ DockApps[a].isOpen
    BY <1>2, <1>4, <1>5
  <2>2. IconOf(a).look = "active"
    BY <1>3, <2>1
  <2> QED BY <1>5, <2>2
<1>6. CASE a \notin Front
  <2>1. IconOf(a).look \in {"closing", "minimised"}
    BY <1>2, <1>3, <1>6
  <2> QED BY <1>6, <2>1
<1> QED BY <1>5, <1>6

\* The opacities of the sections and highlightedSection (page.tsx, sidebar.tsx): with no
\* window in front, the one section that is drawn is the one the page rests at, and it is the
\* highlighted one.
LEMMA OneSection ==
  ASSUME progress = y, y \in Sections, view = "home", Front = {}
  PROVE  Opaque = {SectionNames[y + 1]} /\ Highlighted = SectionNames[y + 1]
<1>1. Opaque = {SectionNames[i + 1] : i \in {y}}
  BY DEF Opaque
<1>2. y \in {0, 1, 2}
  BY DEF Sections
<1>3. CASE y = 0
  BY <1>1, <1>3 DEF Highlighted, SectionNames
<1>4. CASE y = 1
  BY <1>1, <1>4 DEF Highlighted, SectionNames
<1>5. CASE y = 2
  BY <1>1, <1>5 DEF Highlighted, SectionNames
<1> QED BY <1>1, <1>2, <1>3, <1>4, <1>5

\* page.tsx and sidebar.tsx: what is on the screen is one thing, and the sidebar says which.
THEOREM ScreenSafe == Spec => []ScreenFollows
<1>1. ASSUME IInv
      PROVE  ScreenFollows
  <2>0. TypeOK /\ OneWindowShown /\ RestsWhereItThinks
    BY <1>1 DEF IInv
  <2>1. Cardinality(Front) <= 1
    BY <2>0, FrontIsOne
  <2>2. ASSUME Front # {}
        PROVE  /\ Lit = {} /\ ~CardsReact
               /\ \A a \in Apps : Reacts(a) <=> win[a] # NULL /\ IconOf(a).look = "active"
    <3>1. Lit = {} /\ ~CardsReact
      BY <2>2 DEF Lit, CardsReact
    <3>2. ASSUME NEW a \in Apps
          PROVE  Reacts(a) <=> win[a] # NULL /\ IconOf(a).look = "active"
      <4>1. Reacts(a) <=> a \in Front
        BY DEF Reacts, Painted, Front
      <4>2. a \in Front => win[a] # NULL
        BY DEF Front
      <4> QED BY <4>1, <4>2, IconTellsFront
    <3> QED BY <3>1, <3>2
  <2>3. ASSUME view = "home", still, ~lock, ~away, Front = {}
        PROVE  /\ Opaque = {SectionNames[y + 1]}
               /\ Active # "app" => Lit = Opaque
    <3>1. progress = y /\ y \in Sections
      BY <2>0, <2>3 DEF RestsWhereItThinks, TypeOK
    <3>2. Opaque = {SectionNames[y + 1]} /\ Highlighted = SectionNames[y + 1]
      BY <2>3, <3>1, OneSection
    <3>3. ASSUME Active # "app"
          PROVE  Lit = Opaque
      <4>1. Active = SectionNames[y + 1]
        BY <3>2, <3>3 DEF Active
      <4>2. SectionNames[y + 1] \in {"home", "metrics", "backups"}
        BY <3>1 DEF Sections, SectionNames
      <4> QED BY <2>3, <3>2, <4>1, <4>2 DEF Lit
    <3> QED BY <3>2, <3>3
  <2> QED BY <2>1, <2>2, <2>3 DEF ScreenFollows
<1> QED BY <1>1, Invariance, PTL
=============================================================================
