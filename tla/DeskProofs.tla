----------------------------- MODULE DeskProofs -----------------------------
(* The parts of Desk.tla, each with its own inductive invariant: a step of *)
(* one leaves the variables of the others alone, so each of them behaves   *)
(* as its module says, and what the modules promise holds of the whole.    *)
EXTENDS Desk, FiniteSetTheorems, SequenceTheorems, TLAPS

-----------------------------------------------------------------------------
(* Taking turns.                                                           *)

\* A step of the desk is one of each part, or leaves that part as it is.
LEMMA Turns ==
  ASSUME [DeskNext]_deskVars
  PROVE  /\ [Next]_vars /\ [P!Next]_(P!vars) /\ [T!Next]_(T!vars)
         /\ [S!Next]_(S!vars) /\ [K!Next]_(K!vars) /\ [R!Next]_(R!vars)
<1> USE DEF portal, panel, sidebar, kiwix, readings,
            P!vars, P!netVars, P!wizardVars, T!vars, T!tabVars, T!boxVars, S!vars,
            K!vars, K!listVars, K!pollVars, R!vars
<1>1. CASE OllamaStep
  BY <1>1 DEF OllamaStep
<1>2. CASE PortalStep
  BY <1>2 DEF PortalStep
<1>3. CASE PanelStep
  BY <1>3 DEF PanelStep
<1>4. CASE SidebarStep
  BY <1>4 DEF SidebarStep
<1>5. CASE KiwixStep
  BY <1>5 DEF KiwixStep
<1>6. CASE ReadingsStep
  BY <1>6 DEF ReadingsStep
<1>7. CASE UNCHANGED deskVars
  BY <1>7 DEF deskVars
<1> QED BY <1>1, <1>2, <1>3, <1>4, <1>5, <1>6, <1>7 DEF DeskNext

\* The desk is each of its parts (the pages and windows of the dashboard share no state).
THEOREM Parts == DeskSpec => Spec /\ P!Spec /\ T!Spec /\ S!Spec /\ K!Spec /\ R!Spec
<1>1. DeskInit => Init /\ P!Init /\ T!Init /\ S!Init /\ K!Init /\ R!Init
  BY DEF DeskInit
<1> QED
  BY <1>1, Turns, PTL DEF DeskSpec, Spec, P!Spec, T!Spec, S!Spec, K!Spec, R!Spec

-----------------------------------------------------------------------------
(* The Kiwix window.                                                       *)

\* Who is at the manager has a reason, and only an answer says that the library is empty.
KiwixInv ==
  /\ K!TypeOK
  /\ shown => /\ tab = "manage" => chosen \/ emptied
              /\ ~scanning /\ zimFiles = 0 => emptied

\* kiwix-section.tsx: every handler, and the effect after it, keeps KiwixInv.
LEMMA KiwixStays ==
  ASSUME KiwixInv, [K!Next]_(K!vars)
  PROVE  KiwixInv'
<1>0. /\ MaxFiles \in Nat /\ Limit \in Nat
      /\ shelf \in K!Counts /\ zimFiles \in K!Counts /\ before \in K!Counts
      /\ answers \in [first : K!Counts, poll : K!Counts] /\ turns \in 0 .. Limit + 1
      /\ 0 \in K!Counts
  BY DeskAssumption DEF KiwixInv, K!TypeOK, K!Counts
<1> USE <1>0 DEF KiwixInv, K!TypeOK
<1>1. CASE K!Mount
  BY <1>1 DEF K!Mount, K!TabOf, K!pollVars
<1>2. CASE K!Unmount
  BY <1>2 DEF K!Unmount, K!listVars
<1>3. CASE K!Manage
  BY <1>3 DEF K!Manage, K!listVars, K!pollVars
<1>4. CASE K!ServeFirst
  BY <1>4 DEF K!ServeFirst, K!Listed, K!listVars, K!pollVars
<1>5. CASE K!ServePoll
  BY <1>5 DEF K!ServePoll, K!Listed, K!listVars
<1>6. CASE K!FirstArrives
  BY <1>6 DEF K!FirstArrives, K!Hears, K!TabOf, K!pollVars
<1>7. ASSUME NEW t \in {"browse", "manage"}, K!Select(t)
      PROVE  KiwixInv'
  BY <1>7 DEF K!Select, K!pollVars
<1>8. CASE K!Refresh
  BY <1>8 DEF K!Refresh, K!listVars
<1>9. CASE K!Restarted
  BY <1>9 DEF K!Restarted, K!listVars
<1>10. CASE K!Turn
  BY <1>10 DEF K!Turn, K!listVars
<1>11. CASE K!PollArrives
  BY <1>11 DEF K!PollArrives, K!Hears, K!TabOf
<1>12. CASE UNCHANGED K!vars
  BY <1>12 DEF K!vars, K!listVars, K!pollVars
<1> QED
  BY <1>1, <1>2, <1>3, <1>4, <1>5, <1>6, <1>7, <1>8, <1>9, <1>10, <1>11, <1>12 DEF K!Next

\* The window of the library keeps its invariant for ever.
THEOREM KiwixInvariance == K!Spec => []KiwixInv
<1>1. ASSUME K!Init
      PROVE  KiwixInv
  <2>1. 0 \in K!Counts /\ 0 \in 0 .. Limit + 1
    BY DeskAssumption DEF K!Counts
  <2> QED BY <1>1, <2>1 DEF K!Init, KiwixInv, K!TypeOK
<1> QED BY <1>1, KiwixStays, PTL DEF K!Spec

\* kiwix-section.tsx:54: nobody is taken to the manager, or told that there is nothing to
\* read, without a reason.
THEOREM ManagerReason == DeskSpec => []ManagerHasReason
<1>1. ASSUME KiwixInv
      PROVE  ManagerHasReason
  <2>1. zimFiles \in Nat /\ scanning \in BOOLEAN /\ tab \in {"browse", "manage"}
    BY <1>1, DeskAssumption DEF KiwixInv, K!TypeOK, K!Counts
  <2>2. K!Bar = "empty" => ~scanning /\ zimFiles = 0
    BY <2>1 DEF K!Bar
  <2>3. "manager" \in K!Panel => tab = "manage"
    BY <2>1 DEF K!Panel
  <2>4. "note" \in K!Panel => K!Bar = "empty"
    BY <2>1 DEF K!Panel
  <2> QED
    BY <1>1, <2>2, <2>3, <2>4 DEF KiwixInv, ManagerHasReason, K!ManagerHasReason
<1> QED BY <1>1, Parts, KiwixInvariance, PTL

-----------------------------------------------------------------------------
(* The themes.                                                             *)

\* The page that was the last to choose is dressed as what it has stored says.
SidebarInv ==
  /\ S!TypeOK
  /\ last \in Pages => stored \in Themes /\ look[last] = S!Dressed(stored, S!ModeOf(stored, S!LightToChoose))

\* theme-provider.tsx: what the provider puts on is of the type of a look.
LEMMA LooksTyped ==
  /\ \A t \in Themes : S!Dressed(t, S!ModeOf(t, S!LightToChoose)) \in
       [theme : Themes, mode : {"dark", "light"}, css : Themes \cup {NULL}, dark : BOOLEAN]
  /\ S!Plain \in
       [theme : Themes, mode : {"dark", "light"}, css : Themes \cup {NULL}, dark : BOOLEAN]
  /\ S!Dressed(Default, "dark") \in
       [theme : Themes, mode : {"dark", "light"}, css : Themes \cup {NULL}, dark : BOOLEAN]
BY DeskAssumption DEF S!Dressed, S!ModeOf, S!Plain

\* theme-provider.tsx and sidebar.tsx: every handler keeps SidebarInv.
LEMMA SidebarStays ==
  ASSUME SidebarInv, [S!Next]_(S!vars)
  PROVE  SidebarInv'
<1> DEFINE Looks == [theme : Themes, mode : {"dark", "light"}, css : Themes \cup {NULL},
                     dark : BOOLEAN]
<1>0. /\ MaxBounces \in Nat /\ NULL \notin Pages /\ Default \in Themes
      /\ stored \in Themes \cup {NULL, "retired"} /\ last \in Pages \cup {NULL}
      /\ look \in [Pages -> Looks] /\ popups \in [Pages -> [settings : BOOLEAN, themes : BOOLEAN]]
      /\ bouncing \in [Pages -> Icons \cup {NULL}] /\ bounces \in [Pages -> 0 .. MaxBounces]
  BY DeskAssumption DEF SidebarInv, S!TypeOK
<1>1. ASSUME NEW p \in Pages, S!Load(p)
      PROVE  SidebarInv'
  <2>1. S!Loaded \in Looks
    BY <1>0, LooksTyped DEF S!Loaded, S!LightToLoad, S!LightToChoose
  <2>2. S!Closed \in [settings : BOOLEAN, themes : BOOLEAN]
    BY DEF S!Closed
  <2>3. S!TypeOK'
    BY <1>0, <1>1, <2>1, <2>2 DEF S!TypeOK, S!Load
  <2>4. ASSUME last \in Pages
        PROVE  stored \in Themes /\ look'[last] = S!Dressed(stored, S!ModeOf(stored, S!LightToChoose))
    <3>1. stored \in Themes /\ stored # NULL
      BY <2>4, DeskAssumption DEF SidebarInv
    <3>2. S!Loaded = S!Dressed(stored, S!ModeOf(stored, S!LightToChoose))
      BY <3>1 DEF S!Loaded, S!LightToLoad, S!LightToChoose
    <3> QED BY <1>0, <1>1, <2>4, <3>1, <3>2 DEF S!Load, SidebarInv
  <2> QED BY <1>1, <2>3, <2>4 DEF S!Load, SidebarInv, S!Dressed, S!ModeOf
<1>2. ASSUME NEW p \in Pages, NEW t \in Themes, S!Choose(p, t)
      PROVE  SidebarInv'
  <2>1. S!TypeOK'
    BY <1>0, <1>2, LooksTyped DEF S!TypeOK, S!Choose
  <2> QED BY <1>0, <1>2, <2>1 DEF S!Choose, SidebarInv, S!Dressed, S!ModeOf
<1>3. CASE S!Clear
  BY <1>0, <1>3 DEF S!Clear, SidebarInv, S!TypeOK
<1>4. ASSUME NEW p \in Pages, NEW q \in [settings : BOOLEAN, themes : BOOLEAN], S!Popups(p, q)
      PROVE  SidebarInv'
  BY <1>0, <1>4 DEF S!Popups, SidebarInv, S!TypeOK, S!Dressed, S!ModeOf
<1>5. ASSUME NEW p \in Pages,
             S!ToggleSettings(p) \/ S!CloseSettings(p) \/ S!ToggleThemes(p) \/ S!CloseThemes(p)
      PROVE  SidebarInv'
  <2>1. PICK q \in [settings : BOOLEAN, themes : BOOLEAN] : S!Popups(p, q)
    BY <1>0, <1>5
    DEF S!ToggleSettings, S!CloseSettings, S!ToggleThemes, S!CloseThemes, S!Closed
  <2> QED BY <1>4, <2>1
<1>6. ASSUME NEW p \in Pages, NEW i \in Icons, S!Bounce(p, i)
      PROVE  SidebarInv'
  BY <1>0, <1>6 DEF S!Bounce, SidebarInv, S!TypeOK, S!Dressed, S!ModeOf
<1>7. ASSUME NEW p \in Pages, S!BounceEnds(p)
      PROVE  SidebarInv'
  BY <1>0, <1>7 DEF S!BounceEnds, SidebarInv, S!TypeOK, S!Dressed, S!ModeOf
<1>8. CASE UNCHANGED S!vars
  BY <1>8 DEF S!vars, SidebarInv, S!TypeOK, S!Dressed, S!ModeOf
<1> QED BY <1>1, <1>2, <1>3, <1>5, <1>6, <1>7, <1>8 DEF S!Next

\* The provider and the sidebar keep their invariant for ever.
THEOREM SidebarInvariance == S!Spec => []SidebarInv
<1>1. ASSUME S!Init
      PROVE  SidebarInv
  BY <1>1, DeskAssumption, LooksTyped DEF S!Init, S!Closed, SidebarInv, S!TypeOK
<1> QED BY <1>1, SidebarStays, PTL DEF S!Spec

\* theme-provider.tsx:197: the theme outlives a reload of the page that was the last to choose.
THEOREM ReloadSafe == DeskSpec => ReloadKeepsLook
<1>1. ASSUME SidebarInv
      PROVE  \A p \in Pages : last = p /\ S!Load(p) => look'[p] = look[p] /\ S!Honest(p)'
  <2> SUFFICES ASSUME NEW p \in Pages, last = p, S!Load(p)
               PROVE  look'[p] = look[p] /\ S!Honest(p)'
    OBVIOUS
  <2>1. stored \in Themes /\ stored # NULL /\ look[p] = S!Dressed(stored, S!ModeOf(stored, S!LightToChoose))
    BY <1>1, DeskAssumption DEF SidebarInv
  <2>2. S!Loaded = S!Dressed(stored, S!ModeOf(stored, S!LightToChoose))
    BY <2>1 DEF S!Loaded, S!LightToLoad, S!LightToChoose
  <2>3. look'[p] = S!Dressed(stored, S!ModeOf(stored, S!LightToChoose))
    BY <1>1, <2>2 DEF S!Load, SidebarInv, S!TypeOK
  <2>4. look'[p].theme = stored /\ look'[p].mode = S!ModeOf(stored, S!LightToChoose)
    BY <2>3 DEF S!Dressed
  <2>5. S!Honest(p)'
    BY <2>4 DEF S!Honest, S!Buttons, S!ModeOf, S!LightToChoose, S!LightToShow
  <2> QED BY <2>1, <2>3, <2>5
<1> QED
  BY <1>1, Parts, SidebarInvariance, PTL DEF ReloadKeepsLook, S!ReloadKeepsLook

-----------------------------------------------------------------------------
(* The readings.                                                           *)

\* What is on the screen is nobody's, or what the last answer made of the machine.
ReadingsInv ==
  /\ source \in R!Machines
  /\ \/ row = NULL /\ screen = R!Empty /\ source.agent = "none"
     \/ row = R!Row(source) /\ screen = R!Merged(source)

\* metrics-section.tsx: a range or a row of the table opened changes no reading.
LEMMA ReadingsStay ==
  ASSUME ReadingsInv, [R!Next]_(R!vars)
  PROVE  ReadingsInv'
<1>1. ASSUME NEW s \in R!Machines, R!Answer(s)
      PROVE  ReadingsInv'
  <2>1. source' = s /\ row' = R!Row(source') /\ screen' = R!Merged(source')
    BY <1>1 DEF R!Answer
  <2> QED BY <2>1 DEF ReadingsInv
<1>2. CASE UNCHANGED <<source, row, screen>>
  BY <1>2 DEF ReadingsInv
<1> QED BY <1>1, <1>2 DEF R!Next, R!ToggleMenu, R!ToggleRow, R!vars

\* stats/route.ts and metrics-section.tsx keep ReadingsInv for ever.
THEOREM ReadingsInvariance == R!Spec => []ReadingsInv
<1>1. ASSUME R!Init
      PROVE  ReadingsInv
  <2>1. source \in R!Machines
    BY <1>1, DeskAssumption DEF R!Init, R!Machines, R!States
  <2> QED BY <1>1, <2>1 DEF R!Init, ReadingsInv
<1> QED BY <1>1, ReadingsStay, PTL DEF R!Spec

\* Numbers, zero or not, and what is made of them when they are missing (stats/route.ts).
LEMMA NumberForms ==
  ASSUME NEW from \in R!Sources, NEW unit \in R!Units, NEW broken \in BOOLEAN
  PROVE  /\ R!Value(from, unit) = [from |-> from, unit |-> unit, zero |-> FALSE]
         /\ R!ZeroIf(broken, R!Value(from, unit)) = [from |-> from, unit |-> unit, zero |-> broken]
         /\ R!ZeroIf(FALSE, R!Value(from, unit)) = R!Value(from, unit)
         /\ R!Truthy(R!Value(from, unit)) /\ R!Present(R!Value(from, unit))
         /\ R!Truthy(R!ZeroIf(FALSE, R!Value(from, unit)))
         /\ R!Present(R!ZeroIf(broken, R!Value(from, unit)))
         /\ ~R!Truthy(NULL) /\ ~R!Present(NULL)
<1>1. [from |-> from, unit |-> unit, zero |-> FALSE] \in R!Numbers
  BY DEF R!Numbers
<1>2. [from |-> from, unit |-> unit, zero |-> broken] \in R!Numbers
  BY DEF R!Numbers
<1>3. NULL \notin R!Numbers
  BY DeskAssumption DEF R!Numbers
<1>4. /\ R!Value(from, unit) = [from |-> from, unit |-> unit, zero |-> FALSE]
      /\ R!ZeroIf(FALSE, R!Value(from, unit)) = [from |-> from, unit |-> unit, zero |-> FALSE]
      /\ R!ZeroIf(broken, R!Value(from, unit)) = [from |-> from, unit |-> unit, zero |-> broken]
  <2>1. R!Value(from, unit) = [from |-> from, unit |-> unit, zero |-> FALSE]
    BY DEF R!Value
  <2>2. \A v \in R!Numbers, z \in BOOLEAN : [v EXCEPT !.zero = z] =
                                          [from |-> v.from, unit |-> v.unit, zero |-> z]
    BY DEF R!Numbers
  <2>3. R!Value(from, unit).from = from /\ R!Value(from, unit).unit = unit
    BY <2>1
  <2>4. \A z \in BOOLEAN : [R!Value(from, unit) EXCEPT !.zero = z] =
                           [from |-> from, unit |-> unit, zero |-> z]
    BY <1>1, <2>1, <2>2, <2>3
  <2> QED BY <2>1, <2>4 DEF R!ZeroIf
<1>5. ~[from |-> from, unit |-> unit, zero |-> FALSE].zero
  OBVIOUS
<1> QED BY <1>1, <1>2, <1>3, <1>4, <1>5 DEF R!Truthy, R!Present

\* metrics-section.tsx: what is written beside each field.
LEMMA WrittenBeside ==
  /\ \A k \in {"cpu", "memPerc", "disk", "swap"} : R!Written(k) = "percent"
  /\ R!Written("uptime") = "days" /\ R!Written("load") = "tasks"
  /\ R!Written("temp") = "degrees" /\ R!Written("net") = "errors"
  /\ R!Written("storage") = "bytes"
  /\ R!Present(screen.disks) => R!Written("disks") = "percent"
<1>1. /\ DOMAIN R!Pills = {"cpu", "memPerc", "disk", "uptime"}
      /\ DOMAIN R!System = {"swap", "load", "temp", "net"}
      /\ DOMAIN R!Stored = {"storage"} /\ DOMAIN R!Tables \subseteq {"disks"}
  BY DEF R!Pills, R!System, R!Stored, R!Tables
<1>2. ASSUME NEW k \in {"cpu", "memPerc", "disk", "uptime"}
      PROVE  R!Written(k) = R!Pills[k]
  BY <1>1 DEF R!Written
<1>3. ASSUME NEW k \in {"swap", "load", "temp", "net"}
      PROVE  R!Written(k) = R!System[k]
  BY <1>1 DEF R!Written
<1>4. R!Written("storage") = R!Stored["storage"]
  BY <1>1 DEF R!Written
<1>5. ASSUME R!Present(screen.disks)
      PROVE  R!Written("disks") = "percent"
  <2>1. R!Tables = [disks |-> "percent"]
    BY <1>5 DEF R!Tables
  <2>2. R!Written("disks") = R!Tables["disks"]
    BY <1>1, <2>1 DEF R!Written
  <2> QED BY <2>1, <2>2
<1> QED BY <1>2, <1>3, <1>4, <1>5 DEF R!Pills, R!System, R!Stored

\* v is a number from there, in that unit, and not nothing.
Number(v, from, unit) == v # NULL /\ v.from = from /\ v.unit = unit

\* What stats/route.ts reads itself is a number from there, zero only where the reading failed.
LEMMA NumberValue ==
  ASSUME NEW from \in R!Sources, NEW unit \in R!Units, NEW broken \in BOOLEAN
  PROVE  /\ Number(R!Value(from, unit), from, unit)
         /\ Number(R!ZeroIf(broken, R!Value(from, unit)), from, unit)
<1>1. R!Value(from, unit) # NULL /\ R!ZeroIf(broken, R!Value(from, unit)) # NULL
  BY NumberForms DEF R!Present
<1>2. R!Value(from, unit) = [from |-> from, unit |-> unit, zero |-> FALSE]
  BY NumberForms
<1>3. R!ZeroIf(broken, R!Value(from, unit)) = [from |-> from, unit |-> unit, zero |-> broken]
  BY NumberForms
<1> QED BY <1>1, <1>2, <1>3 DEF Number

\* stats/route.ts: what is merged into each field.
LEMMA MergedFields ==
  ASSUME NEW s
  PROVE  LET a == R!AgentData(s)
             m == R!Merged(s)
         IN  /\ m.cpu = IF R!Truthy(a.load) THEN a.load ELSE R!Sum(s, "percent")
             /\ m.memPerc = IF R!Truthy(a.usedPerc) THEN a.usedPerc ELSE R!Sum(s, "percent")
             /\ m.down = R!Sum(s, "MB")
             /\ m.disk = IF R!Present(a.disk) THEN a.disk ELSE R!DiskUsage(s)
             /\ m.uptime = IF R!Present(a.uptime) THEN a.uptime ELSE R!Uptime(s)
             /\ m.load = IF R!Present(a.loadAvg) THEN a.loadAvg ELSE R!LoadAvg(s)
             /\ m.swap = R!Swap(s) /\ m.temp = R!Temps(s) /\ m.net = R!NetErrors(s)
             /\ m.storage = R!Storage(s) /\ m.disks = R!Disks(s) /\ m.platform = R!Platform(s)
             /\ m.connected = (s.agent # "none")
BY DEF R!Merged

\* agent/main.go: with all its collectors at work the Go agent's numbers are whole, the use of
\* an idle CPU a zero.
LEMMA GoIsWhole ==
  ASSUME NEW s, s.agent = "go", s.amiss \cap R!Collectors = {}
  PROVE  LET a == R!AgentData(s)
         IN  /\ "idle" \notin s.amiss => a.load = R!Value("agent", "percent")
             /\ a.usedPerc = R!Value("agent", "percent")
             /\ a.disk = R!Value("agent", "percent") /\ a.loadAvg = R!Value("agent", "tasks")
<1>1. /\ ("usage" \in s.amiss) = FALSE /\ ("memory" \in s.amiss) = FALSE
      /\ ("disk" \in s.amiss) = FALSE /\ ("loadAvg" \in s.amiss) = FALSE
  BY DEF R!Collectors
<1>2. \A unit \in R!Units : R!ZeroIf(FALSE, R!Value("agent", unit)) = R!Value("agent", unit)
  BY NumberForms DEF R!Sources
<1>3. R!AgentData(s) = R!GoAgent(s)
  BY DEF R!AgentData, R!Go
<1>4. /\ "idle" \notin s.amiss =>
           R!GoAgent(s).load = R!ZeroIf(FALSE, R!Value("agent", "percent"))
      /\ R!GoAgent(s).usedPerc = R!ZeroIf(FALSE, R!Value("agent", "percent"))
      /\ R!GoAgent(s).disk = R!Value("agent", "percent")
      /\ R!GoAgent(s).loadAvg = R!ZeroIf(FALSE, R!Value("agent", "tasks"))
  BY <1>1 DEF R!GoAgent, R!Agent, R!NullIf
<1> QED BY <1>2, <1>3, <1>4 DEF R!Units

\* stats/route.ts: without an agent its numbers are those of the mounts, or none.
LEMMA NoAgent ==
  ASSUME NEW s, s.agent = "none"
  PROVE  LET a == R!AgentData(s)
         IN  /\ a.load = NULL /\ a.disk = NULL /\ a.loadAvg = NULL
             /\ a.usedPerc \in {R!Value("mounts", "percent"), NULL}
             /\ a.uptime \in {R!Value("mounts", "days"), NULL}
<1>1. CASE R!AgentData(s) = R!Mounts
  BY <1>1 DEF R!Mounts
<1>2. CASE R!AgentData(s) = R!Nothing
  BY <1>2 DEF R!Nothing, R!Mounts
<1>3. R!AgentData(s) \in {R!Mounts, R!Nothing}
  BY DEF R!AgentData
<1> QED BY <1>1, <1>2, <1>3

\* stats/route.ts: whichever agent answers, and whatever it cannot collect, it says the use of
\* the CPU and of the memory in percent, or nothing.
LEMMA AgentUnits ==
  ASSUME NEW s \in R!Machines
  PROVE  /\ R!AgentData(s).load # NULL => R!AgentData(s).load.unit = "percent"
         /\ R!AgentData(s).usedPerc # NULL => R!AgentData(s).usedPerc.unit = "percent"
<1>1. \A b \in BOOLEAN : R!ZeroIf(b, R!Agent("percent")).unit = "percent"
  <2> SUFFICES ASSUME NEW b \in BOOLEAN
               PROVE  R!ZeroIf(b, R!Agent("percent")).unit = "percent"
    OBVIOUS
  <2>1. "agent" \in R!Sources /\ "percent" \in R!Units
    BY DEF R!Sources, R!Units
  <2>2. R!ZeroIf(b, R!Value("agent", "percent")) =
          [from |-> "agent", unit |-> "percent", zero |-> b]
    BY <2>1, NumberForms
  <2> QED BY <2>2 DEF R!Agent
<1>2. R!Agent("percent").unit = "percent"
  BY DEF R!Agent, R!Value
<1>3. CASE s.agent = "go"
  <2>1. /\ R!AgentData(s).load = R!ZeroIf(s.amiss \cap {"usage", "idle"} # {}, R!Agent("percent"))
        /\ R!AgentData(s).usedPerc = R!ZeroIf("memory" \in s.amiss, R!Agent("percent"))
    BY <1>3 DEF R!AgentData, R!Go, R!GoAgent
  <2>2. (s.amiss \cap {"usage", "idle"} # {}) \in BOOLEAN /\ ("memory" \in s.amiss) \in BOOLEAN
    OBVIOUS
  <2> QED BY <1>1, <2>1, <2>2
<1>4. CASE s.agent = "node"
  <2>1. R!AgentData(s).load = NULL /\ R!AgentData(s).usedPerc = R!Agent("percent")
    BY <1>4 DEF R!AgentData, R!Node, R!NodeReads
  <2> QED BY <1>2, <2>1
<1>5. CASE s.agent = "none"
  <2>1. R!Value("mounts", "percent").unit = "percent"
    BY DEF R!Value
  <2> QED BY <1>5, <2>1, NoAgent
<1>6. s.agent \in {"go", "node", "none"}
  BY DEF R!Machines
<1> QED BY <1>3, <1>4, <1>5, <1>6

\* stats/route.ts: what the route reads or adds up itself is the container's or docker's.
LEMMA OwnReadings ==
  ASSUME NEW s
  PROVE  /\ \A unit \in R!Units : Number(R!Sum(s, unit), "docker", unit)
         /\ \A reader : \A unit \in R!Units :
              R!Local(s, reader, unit) = NULL \/ Number(R!Local(s, reader, unit), "container", unit)
<1>1. ASSUME NEW unit \in R!Units
      PROVE  Number(R!Sum(s, unit), "docker", unit)
  <2>1. CASE R!Listed(s) = {}
    <3>1. R!Sum(s, unit) = R!ZeroIf(TRUE, R!Value("docker", unit))
      BY <2>1 DEF R!Sum
    <3> QED BY <3>1, NumberValue DEF R!Sources
  <2>2. CASE R!Listed(s) # {}
    <3>1. R!Sum(s, unit) = R!ZeroIf(FALSE, R!Value("docker", unit))
      BY <2>2 DEF R!Sum
    <3> QED BY <3>1, NumberValue DEF R!Sources
  <2> QED BY <2>1, <2>2
<1>2. ASSUME NEW reader, NEW unit \in R!Units
      PROVE  R!Local(s, reader, unit) = NULL \/ Number(R!Local(s, reader, unit), "container", unit)
  <2>1. R!Local(s, reader, unit) \in {NULL, R!Value("container", unit)}
    BY DEF R!Local, R!NullIf
  <2>2. Number(R!Value("container", unit), "container", unit)
    BY NumberValue DEF R!Sources
  <2> QED BY <2>1, <2>2
<1> QED BY <1>1, <1>2

\* agent/main.go:47, stats/route.ts: an agent that answers in full is believed, in the units
\* that the panel writes; without one nothing on the screen is an agent's.
THEOREM GoUnderstood == DeskSpec => []GoAgentUnderstood
<1>1. ASSUME ReadingsInv, source.agent = "go", source.amiss \cap R!Collectors = {}
      PROVE  /\ "Agent Connected" \in R!Badges
             /\ \A k \in {"cpu", "memPerc", "disk", "load"} :
                  /\ screen[k].unit = R!Written(k)
                  /\ screen[k].from = "agent" \/ (k = "cpu" /\ "idle" \in source.amiss)
  <2>1. screen = R!Merged(source)
    BY <1>1 DEF ReadingsInv
  <2>2. screen.connected = TRUE
    BY <1>1, <2>1, MergedFields
  <2>3. /\ screen.memPerc = R!Value("agent", "percent")
        /\ screen.disk = R!Value("agent", "percent") /\ screen.load = R!Value("agent", "tasks")
        /\ "idle" \notin source.amiss => screen.cpu = R!Value("agent", "percent")
    <3>1. \A unit \in R!Units :
            R!Truthy(R!Value("agent", unit)) /\ R!Present(R!Value("agent", unit))
      BY NumberForms DEF R!Sources
    <3>2. /\ R!Truthy(R!Value("agent", "percent")) /\ R!Present(R!Value("agent", "percent"))
          /\ R!Present(R!Value("agent", "tasks"))
      BY <3>1 DEF R!Units
    <3> QED BY <1>1, <2>1, <3>2, MergedFields, GoIsWhole
  <2>4. /\ R!Value("agent", "percent").from = "agent" /\ R!Value("agent", "percent").unit = "percent"
        /\ R!Value("agent", "tasks").from = "agent" /\ R!Value("agent", "tasks").unit = "tasks"
    BY DEF R!Value
  <2>5. "Agent Connected" \in R!Badges
    BY <2>2 DEF R!Badges
  <2>6. screen.cpu.unit = "percent"
    <3>1. \/ screen.cpu = R!Sum(source, "percent")
          \/ screen.cpu = R!AgentData(source).load /\ R!AgentData(source).load # NULL
      BY <2>1, MergedFields DEF R!Truthy
    <3>2. R!Sum(source, "percent").unit = "percent"
      BY OwnReadings DEF Number, R!Units
    <3> QED BY <1>1, <3>1, <3>2, AgentUnits DEF ReadingsInv
  <2>7. screen.cpu.from = "agent" \/ "idle" \in source.amiss
    BY <2>3, <2>4
  <2>8. ASSUME NEW k \in {"cpu", "memPerc", "disk", "load"}
        PROVE  /\ screen[k].unit = R!Written(k)
               /\ screen[k].from = "agent" \/ (k = "cpu" /\ "idle" \in source.amiss)
    <3>1. CASE k = "load"
      BY <2>3, <2>4, <3>1, WrittenBeside
    <3>2. CASE k = "cpu"
      BY <2>6, <2>7, <3>2, WrittenBeside
    <3>3. CASE k \in {"memPerc", "disk"}
      BY <2>3, <2>4, <3>3, WrittenBeside
    <3> QED BY <3>1, <3>2, <3>3
  <2> QED BY <2>5, <2>8
<1>2. ASSUME ReadingsInv, source.agent = "none"
      PROVE  /\ "Agent Connected" \notin R!Badges
             /\ \A k \in DOMAIN R!Pills \cup DOMAIN R!System \cup DOMAIN R!Stored
                           \cup DOMAIN R!Tables :
                  R!Present(screen[k]) => screen[k].from # "agent" /\ screen[k].unit = R!Written(k)
  <2> DEFINE Own(k, unit) == R!Present(screen[k]) =>
                               screen[k].from # "agent" /\ screen[k].unit = unit
  <2>1. /\ screen.connected = FALSE /\ screen.platform # "Agent Connected"
        /\ \A k \in {"cpu", "memPerc", "disk", "swap", "disks"} : Own(k, "percent")
        /\ Own("uptime", "days") /\ Own("load", "tasks") /\ Own("temp", "degrees")
        /\ Own("net", "errors") /\ Own("storage", "bytes")
    <3>1. CASE screen = R!Empty
      <4>1. R!Empty.connected = FALSE /\ R!Empty.platform = "linux"
        BY DEF R!Empty
      <4>2. \A unit \in R!Units : Number(R!ZeroIf(TRUE, R!Value("nobody", unit)), "nobody", unit)
        BY NumberValue DEF R!Sources
      <4>3. Number(R!Empty.cpu, "nobody", "percent") /\ Number(R!Empty.memPerc, "nobody", "percent")
        BY <4>2 DEF R!Empty, R!Units
      <4>4. \A k \in {"disk", "uptime", "load", "swap", "temp", "net", "storage", "disks"} :
              R!Empty[k] = NULL
        BY DEF R!Empty
      <4> QED BY <3>1, <4>1, <4>3, <4>4 DEF Number, R!Present
    <3>2. CASE screen = R!Merged(source)
      <4>1. screen.connected = FALSE
        BY <1>2, <3>2, MergedFields
      <4>2. screen.platform # "Agent Connected"
        BY <3>2, MergedFields DEF R!Platform
      <4>3. \A unit \in R!Units : Number(R!Value("mounts", unit), "mounts", unit)
        BY NumberValue DEF R!Sources
      <4>4. \A unit \in R!Units : Number(R!Sum(source, unit), "docker", unit)
        BY OwnReadings
      <4>5. \A reader : \A unit \in R!Units :
              \/ R!Local(source, reader, unit) = NULL
              \/ Number(R!Local(source, reader, unit), "container", unit)
        BY OwnReadings
      <4>6. screen.cpu = R!Sum(source, "percent")
        BY <1>2, <3>2, MergedFields, NoAgent DEF R!Truthy
      <4>7. screen.memPerc \in {R!Value("mounts", "percent"), R!Sum(source, "percent")}
        BY <1>2, <3>2, MergedFields, NoAgent DEF R!Truthy
      <4>8. /\ screen.disk = R!Local(source, "df", "percent")
            /\ screen.load = R!Local(source, "loadavg", "tasks")
        BY <1>2, <3>2, MergedFields, NoAgent DEF R!Present, R!DiskUsage, R!LoadAvg
      <4>9. screen.uptime \in {R!Value("mounts", "days"), R!Local(source, "uptime", "days")}
        BY <1>2, <3>2, MergedFields, NoAgent DEF R!Present, R!Uptime
      <4>10. /\ screen.swap = R!Local(source, "meminfo", "percent")
             /\ screen.disks = R!Local(source, "df", "percent")
             /\ screen.temp = R!Local(source, "sensors", "degrees")
             /\ screen.net = R!Local(source, "netdev", "errors")
             /\ screen.storage = R!Local(source, "data", "bytes")
        BY <3>2, MergedFields DEF R!Swap, R!Disks, R!Temps, R!NetErrors, R!Storage
      <4>11. {"percent", "days", "tasks", "degrees", "errors", "bytes"} \subseteq R!Units
        BY DEF R!Units
      <4>12. Own("cpu", "percent") /\ Own("memPerc", "percent")
        BY <4>3, <4>4, <4>6, <4>7, <4>11 DEF Number
      <4>13. Own("disk", "percent") /\ Own("load", "tasks") /\ Own("uptime", "days")
        BY <4>3, <4>5, <4>8, <4>9, <4>11 DEF Number, R!Present
      <4>14. /\ Own("swap", "percent") /\ Own("disks", "percent") /\ Own("temp", "degrees")
             /\ Own("net", "errors") /\ Own("storage", "bytes")
        BY <4>5, <4>10, <4>11 DEF Number, R!Present
      <4> QED BY <4>1, <4>2, <4>12, <4>13, <4>14
    <3> QED BY <1>2, <3>1, <3>2 DEF ReadingsInv
  <2>2. "Agent Connected" \notin R!Badges
    BY <2>1 DEF R!Badges
  <2>3. /\ DOMAIN R!Pills = {"cpu", "memPerc", "disk", "uptime"}
        /\ DOMAIN R!System = {"swap", "load", "temp", "net"}
        /\ DOMAIN R!Stored = {"storage"}
        /\ DOMAIN R!Tables \subseteq {"disks"}
    BY DEF R!Pills, R!System, R!Stored, R!Tables
  <2>4. ASSUME NEW k \in DOMAIN R!Pills \cup DOMAIN R!System \cup DOMAIN R!Stored
                         \cup DOMAIN R!Tables
        PROVE  Own(k, R!Written(k))
    <3>1. k \in {"cpu", "memPerc", "disk", "swap", "disks"}
            \cup {"uptime", "load", "temp", "net", "storage"}
      BY <2>3, <2>4
    <3>2. CASE k \in {"cpu", "memPerc", "disk", "swap", "disks"}
      <4>1. Own(k, "percent")
        BY <2>1, <3>2
      <4>2. R!Present(screen[k]) => R!Written(k) = "percent"
        BY <3>2, WrittenBeside
      <4> QED BY <4>1, <4>2
    <3>3. CASE k \in {"uptime", "load", "temp", "net", "storage"}
      <4> HIDE DEF Own
      <4> QED BY <2>1, <3>3, WrittenBeside
    <3> QED BY <3>1, <3>2, <3>3
  <2> QED BY <2>2, <2>4
<1>3. ASSUME ReadingsInv, row # NULL, NEW k \in DOMAIN R!Curves
      PROVE  {R!Past[k].unit, R!Live[k].unit} = {R!Curves[k]}
  <2>1. row = R!Row(source) /\ screen = R!Merged(source)
    BY <1>3 DEF ReadingsInv
  <2>2. k \in {"cpu", "memory", "down"}
    BY DEF R!Curves
  <2>3. \A unit \in R!Units : R!Sum(source, unit).unit = unit
    BY OwnReadings DEF Number
  <2>4. /\ R!Past.cpu.unit = "percent" /\ R!Past.memory.unit = "percent"
        /\ R!Past.down.unit = "MB"
    <3>1. /\ row.cpu = R!Sum(source, "percent") /\ row.memory = R!Sum(source, "percent")
          /\ row.down = R!Sum(source, "bytes")
      BY <2>1 DEF R!Row
    <3>2. R!Sum(source, "bytes") \in R!Numbers
      BY DEF R!Sum, R!ZeroIf, R!Value, R!Numbers, R!Sources, R!Units
    <3>3. [row.down EXCEPT !.unit = "MB"].unit = "MB"
      BY <3>1, <3>2 DEF R!Numbers
    <3> QED BY <2>3, <3>1, <3>3 DEF R!Past, R!Units
  <2>5. /\ R!Live.cpu.unit = "percent" /\ R!Live.memory.unit = "percent"
        /\ R!Live.down.unit = "MB"
    <3>1. screen.down = R!Sum(source, "MB")
      BY <2>1, MergedFields
    <3>2. screen.cpu \in {R!AgentData(source).load, R!Sum(source, "percent")}
      BY <2>1, MergedFields
    <3>3. screen.memPerc \in {R!AgentData(source).usedPerc, R!Sum(source, "percent")}
      BY <2>1, MergedFields
    <3>4. screen.cpu # NULL /\ screen.memPerc # NULL
      <4>1. R!Sum(source, "percent") # NULL
        BY OwnReadings DEF R!Units, Number
      <4> QED BY <2>1, <4>1, MergedFields DEF R!Truthy
    <3>5. screen.cpu.unit = "percent" /\ screen.memPerc.unit = "percent"
      BY <1>3, <2>3, <3>2, <3>3, <3>4, AgentUnits DEF R!Units, ReadingsInv
    <3> QED BY <2>3, <3>1, <3>5 DEF R!Live, R!Units
  <2> QED BY <2>2, <2>4, <2>5 DEF R!Curves
<1>4. ReadingsInv => GoAgentUnderstood
  BY <1>1, <1>2, <1>3 DEF GoAgentUnderstood, R!GoAgentUnderstood
<1> QED BY <1>4, Parts, ReadingsInvariance, PTL

-----------------------------------------------------------------------------
(* The terminal panel.                                                     *)

\* Panel counts as FiniteSets does.
LEMMA CountsAlike == \A X : T!Cardinality(X) = Cardinality(X)
BY DEF Cardinality, T!Cardinality

\* No two tabs have one id.
Distinct(s) == \A i, j \in DOMAIN s : s[i] = s[j] => i = j

\* A refit of the terminal that is shown is pending, or was the last thing that happened to it.
Fitting == activeTab \in fitted \/ \E r \in refits : r.tab = activeTab

PanelInv ==
  /\ T!TypeOK /\ Distinct(tabs) /\ \A i \in DOMAIN tabs : tabs[i] <= tabCounter
  /\ activeTab \in T!ToSet(tabs)
  /\ isOpen => everOpened
  /\ isOpen /\ ~dragging /\ ~stale /\ activeTab \in fitFns => Fitting

\* closeTab (terminal-panel.tsx): the filter takes out one tab and moves the rest up.
LEMMA WithoutOne ==
  ASSUME tabs \in Seq(1 .. MaxTabs), Distinct(tabs), NEW p \in DOMAIN tabs
  PROVE  T!Without(tabs[p]) =
           [n \in 1 .. Len(tabs) - 1 |-> IF n < p THEN tabs[n] ELSE tabs[n + 1]]
<1> DEFINE rest == {i \in DOMAIN tabs : tabs[i] # tabs[p]}
           upTo(i) == {h \in rest : h <= i}
           at(n) == CHOOSE i \in rest : Cardinality(upTo(i)) = n
<1>1. /\ Len(tabs) \in Nat /\ DOMAIN tabs = 1 .. Len(tabs) /\ p \in 1 .. Len(tabs)
      /\ rest = (1 .. Len(tabs)) \ {p}
  BY DEF Distinct
<1>2. \A k \in Nat : IsFiniteSet(1 .. k) /\ Cardinality(1 .. k) = k
  BY FS_Interval
<1>3. \A k \in Nat : p \in 1 .. k => Cardinality((1 .. k) \ {p}) = k - 1
  BY <1>2, FS_RemoveElement
<1>4. Cardinality(rest) = Len(tabs) - 1
  BY <1>1, <1>3
<1>5. ASSUME NEW i \in rest
      PROVE  /\ i < p => Cardinality(upTo(i)) = i
             /\ i > p => Cardinality(upTo(i)) = i - 1
  <2>1. i \in Nat
    BY <1>1
  <2>2. ASSUME i < p
        PROVE  upTo(i) = 1 .. i
    BY <1>1, <2>2
  <2>3. ASSUME i > p
        PROVE  upTo(i) = (1 .. i) \ {p} /\ p \in 1 .. i
    BY <1>1, <2>3
  <2> HIDE DEF upTo
  <2> QED BY <1>2, <1>3, <2>1, <2>2, <2>3
<1>6. ASSUME NEW n \in 1 .. Len(tabs) - 1
      PROVE  at(n) = IF n < p THEN n ELSE n + 1
  <2> DEFINE i == IF n < p THEN n ELSE n + 1
  <2>1. i \in rest /\ (i < p \/ i > p)
    BY <1>1
  <2>2. Cardinality(upTo(i)) = n
    <3> HIDE DEF upTo, rest
    <3> QED BY <1>1, <1>5, <2>1
  <2>3. ASSUME NEW j \in rest, Cardinality(upTo(j)) = n
        PROVE  j = i
    <3>1. j \in Nat /\ j # p
      BY <1>1
    <3> HIDE DEF upTo, rest
    <3> QED BY <1>1, <1>5, <2>3, <3>1
  <2> HIDE DEF upTo, rest, i
  <2>4. at(n) = i
    BY <2>1, <2>2, <2>3
  <2> QED BY <2>4 DEF i
<1>7. T!Without(tabs[p]) = [n \in 1 .. Cardinality(rest) |-> tabs[at(n)]]
  BY DEF T!Without, T!Cardinality, Cardinality
<1> HIDE DEF rest, at
<1> QED BY <1>1, <1>4, <1>6, <1>7

\* closeTab: without one of two tabs or more there is a tab left, no id twice, and none new.
LEMMA WithoutKeeps ==
  ASSUME tabs \in Seq(1 .. MaxTabs), Distinct(tabs), Len(tabs) > 1, NEW t \in T!ToSet(tabs)
  PROVE  /\ T!Without(t) \in Seq(1 .. MaxTabs) /\ Distinct(T!Without(t))
         /\ 1 \in DOMAIN T!Without(t)
         /\ T!ToSet(T!Without(t)) = T!ToSet(tabs) \ {t}
<1>1. PICK p \in DOMAIN tabs : t = tabs[p]
  BY DEF T!ToSet
<1>2. /\ Len(tabs) \in Nat /\ DOMAIN tabs = 1 .. Len(tabs)
      /\ \A i \in 1 .. Len(tabs) : tabs[i] \in 1 .. MaxTabs
  BY LenProperties, ElementOfSeq
<1> DEFINE w == [n \in 1 .. Len(tabs) - 1 |-> IF n < p THEN tabs[n] ELSE tabs[n + 1]]
<1>3. T!Without(t) = w
  BY <1>1, WithoutOne
<1>4. w \in Seq(1 .. MaxTabs) /\ DOMAIN w = 1 .. Len(tabs) - 1
  <2>1. w \in [1 .. Len(tabs) - 1 -> 1 .. MaxTabs]
    BY <1>1, <1>2
  <2> QED BY <1>2, <2>1
<1>5. Distinct(w)
  <2> SUFFICES ASSUME NEW i \in 1 .. Len(tabs) - 1, NEW j \in 1 .. Len(tabs) - 1, w[i] = w[j]
               PROVE  i = j
    BY <1>4 DEF Distinct
  <2> DEFINE at(n) == IF n < p THEN n ELSE n + 1
  <2>1. w[i] = tabs[at(i)] /\ w[j] = tabs[at(j)]
    OBVIOUS
  <2>2. at(i) \in DOMAIN tabs /\ at(j) \in DOMAIN tabs
    BY <1>1, <1>2
  <2>3. at(i) = at(j)
    <3> HIDE DEF at, w
    <3> QED BY <2>1, <2>2 DEF Distinct
  <2> QED BY <1>1, <1>2, <2>3
<1>6. 1 \in DOMAIN w
  BY <1>2, <1>4
<1>7. {w[n] : n \in 1 .. Len(tabs) - 1} = {tabs[i] : i \in DOMAIN tabs} \ {t}
  <2>1. ASSUME NEW n \in 1 .. Len(tabs) - 1
        PROVE  w[n] \in {tabs[i] : i \in DOMAIN tabs} \ {t}
    BY <1>1, <1>2 DEF Distinct
  <2>2. ASSUME NEW i \in DOMAIN tabs, tabs[i] # t
        PROVE  \E n \in 1 .. Len(tabs) - 1 : w[n] = tabs[i]
    <3>1. CASE i < p
      BY <1>1, <1>2, <3>1
    <3>2. CASE i > p
      <4>1. i - 1 \in 1 .. Len(tabs) - 1 /\ w[i - 1] = tabs[i]
        BY <1>1, <1>2, <3>2
      <4> QED BY <4>1
    <3> QED BY <1>1, <1>2, <2>2, <3>1, <3>2
  <2> DEFINE left == {w[n] : n \in 1 .. Len(tabs) - 1}
             others == {tabs[i] : i \in DOMAIN tabs} \ {t}
  <2> HIDE DEF w
  <2>3. left \subseteq others
    BY <2>1
  <2>4. others \subseteq left
    BY <2>2
  <2>5. left = others
    <3> HIDE DEF left, others
    <3> QED BY <2>3, <2>4
  <2> QED BY <2>5
<1> HIDE DEF w
<1> QED BY <1>3, <1>4, <1>5, <1>6, <1>7 DEF T!ToSet

\* The conjuncts of the panel's type invariant one by one, and so in the next state.
LEMMA PanelTypes ==
  /\ T!TypeOK <=>
       /\ isOpen \in BOOLEAN /\ everOpened \in BOOLEAN /\ isMaximized \in BOOLEAN
       /\ dragging \in BOOLEAN /\ moving \in BOOLEAN /\ stale \in BOOLEAN
       /\ tabs \in Seq(1 .. MaxTabs) /\ activeTab \in 1 .. MaxTabs /\ tabCounter \in 1 .. MaxTabs
       /\ fitFns \subseteq 1 .. MaxTabs /\ strip \in {"none", "dead", "live"}
       /\ refits \subseteq [tab : 1 .. MaxTabs, by : {"panel", "own", "drag"}]
       /\ fitted \subseteq 1 .. MaxTabs
  /\ (T!TypeOK)' <=>
       /\ isOpen' \in BOOLEAN /\ everOpened' \in BOOLEAN /\ isMaximized' \in BOOLEAN
       /\ dragging' \in BOOLEAN /\ moving' \in BOOLEAN /\ stale' \in BOOLEAN
       /\ tabs' \in Seq(1 .. MaxTabs) /\ activeTab' \in 1 .. MaxTabs
       /\ tabCounter' \in 1 .. MaxTabs
       /\ fitFns' \subseteq 1 .. MaxTabs /\ strip' \in {"none", "dead", "live"}
       /\ refits' \subseteq [tab : 1 .. MaxTabs, by : {"panel", "own", "drag"}]
       /\ fitted' \subseteq 1 .. MaxTabs
<1>1. \A X : {isOpen, everOpened, isMaximized, dragging, moving, stale} \subseteq X <=>
         /\ isOpen \in X /\ everOpened \in X /\ isMaximized \in X
         /\ dragging \in X /\ moving \in X /\ stale \in X
  BY Zenon
<1>2. \A X : {isOpen', everOpened', isMaximized', dragging', moving', stale'} \subseteq X <=>
         /\ isOpen' \in X /\ everOpened' \in X /\ isMaximized' \in X
         /\ dragging' \in X /\ moving' \in X /\ stale' \in X
  BY Zenon
<1> QED BY <1>1, <1>2, Zenon DEF T!TypeOK

\* Timers of terminals that exist, and the fits they are for, are typed.
LEMMA TimersTyped ==
  ASSUME T!TypeOK, NEW t \in 1 .. MaxTabs
  PROVE  /\ \A by \in {"panel", "own", "drag"} :
              T!Timer(t, by) \in [tab : 1 .. MaxTabs, by : {"panel", "own", "drag"}]
         /\ \A by \in {"panel", "own", "drag"} : T!Timer(t, by).tab = t /\ T!Timer(t, by).by = by
         /\ T!Activated(t) \subseteq [tab : 1 .. MaxTabs, by : {"panel", "own", "drag"}]
         /\ T!Timer(t, "panel") \in T!Activated(t)
<1>1. \A by \in {"panel", "own", "drag"} :
        /\ T!Timer(t, by) \in [tab : 1 .. MaxTabs, by : {"panel", "own", "drag"}]
        /\ T!Timer(t, by).tab = t /\ T!Timer(t, by).by = by
  BY DEF T!Timer
<1>2. T!Timer(t, "panel") \in T!Activated(t)
  BY DEF T!Activated
<1> HIDE DEF T!Timer
<1> QED BY <1>1, <1>2, PanelTypes DEF T!Activated

\* Whatever happens to the panel, PanelInv is kept if a refit of the active tab is pending.
LEMMA RefitPending ==
  ASSUME (T!TypeOK)', Distinct(tabs)', (\A i \in DOMAIN tabs : tabs[i] <= tabCounter)',
         (activeTab \in T!ToSet(tabs))', isOpen' => everOpened',
         NEW r \in refits', r.tab = activeTab'
  PROVE  PanelInv'
BY DEF PanelInv, Fitting

\* What the tabs owe PanelInv stays while no tab comes, goes or becomes the active one.
LEMMA TabsStay ==
  ASSUME PanelInv, UNCHANGED <<tabs, activeTab, tabCounter>>
  PROVE  /\ Distinct(tabs)' /\ (\A i \in DOMAIN tabs : tabs[i] <= tabCounter)'
         /\ (activeTab \in T!ToSet(tabs))'
BY DEF PanelInv, Distinct, T!ToSet

\* terminal-panel.tsx, the panel itself: shown, hidden, maximised.
LEMMA BoxSteps ==
  ASSUME PanelInv,
         T!Open \/ T!Close \/ T!CloseLastTab \/ T!Maximize \/ T!Arrive \/ T!Grab \/ T!Drag
           \/ T!Release \/ T!ResizeWindow
  PROVE  PanelInv'
<1>0. /\ T!TypeOK /\ (isOpen => everOpened)
      /\ activeTab \in 1 .. MaxTabs /\ 1 \in 1 .. MaxTabs
  BY DeskAssumption, PanelTypes DEF PanelInv
<1> DEFINE opened == T!Timer(activeTab, "panel")
           dragged == T!Timer(activeTab, "drag")
           fresh == T!Timer(1, "own")
<1>t. /\ {opened, dragged, fresh} \subseteq [tab : 1 .. MaxTabs, by : {"panel", "own", "drag"}]
      /\ opened.tab = activeTab /\ dragged.tab = activeTab
  BY <1>0, TimersTyped
<1> HIDE DEF opened, dragged, fresh
<1>1. CASE T!Open
  <2>1. /\ opened \in refits' /\ isOpen' = TRUE /\ everOpened' = TRUE
        /\ refits' \subseteq refits \cup {opened, fresh}
        /\ UNCHANGED <<tabs, activeTab, tabCounter>>
    BY <1>1 DEF T!Open, opened, fresh
  <2>2. strip' \in {"none", "dead", "live"} /\ fitFns' \subseteq 1 .. MaxTabs
    BY <1>0, <1>1, PanelTypes DEF T!Open, T!Strip
  <2>3. stale' = FALSE /\ UNCHANGED <<moving, isMaximized, dragging, fitted>>
    BY <1>1 DEF T!Open, T!boxVars
  <2>4. (T!TypeOK)'
    BY <1>0, <1>t, <2>1, <2>2, <2>3, PanelTypes
  <2> QED
    BY <1>t, <2>1, <2>4, TabsStay, RefitPending
<1>2. CASE T!Close \/ T!CloseLastTab
  <2>1. /\ isOpen' = FALSE /\ refits' \subseteq refits /\ fitFns' \subseteq fitFns
        /\ strip' \in {"none", "dead", "live"}
        /\ UNCHANGED <<everOpened, tabs, activeTab, tabCounter, moving, isMaximized, dragging,
                       fitted, stale>>
    BY <1>2 DEF T!Close, T!CloseLastTab, T!Hidden, T!Strip, T!boxVars, T!tabVars
  <2>2. (T!TypeOK)'
    BY <1>0, <2>1, PanelTypes
  <2> QED BY <2>1, <2>2, TabsStay DEF PanelInv
<1>3. CASE T!Maximize
  <2>1. /\ isMaximized' = ~isMaximized /\ moving' = TRUE /\ fitted' = {} /\ stale' = FALSE
        /\ strip' \in {"none", "dead", "live"}
        /\ refits' = refits \cup {opened}
        /\ UNCHANGED <<isOpen, everOpened, tabs, activeTab, tabCounter, fitFns, dragging>>
    BY <1>3 DEF T!Maximize, T!tabVars, opened
  <2>2. (T!TypeOK)'
    BY <1>0, <1>t, <2>1, PanelTypes
  <2> QED BY <1>0, <1>t, <2>1, <2>2, TabsStay, RefitPending
<1>4. CASE T!Arrive \/ T!ResizeWindow
  <2>1. /\ moving' \in {moving, FALSE} /\ fitted' = {} /\ stale' = TRUE
        /\ UNCHANGED <<isOpen, everOpened, tabs, activeTab, tabCounter, fitFns, isMaximized, strip,
                       dragging, refits>>
    BY <1>4 DEF T!Arrive, T!ResizeWindow, T!tabVars, T!boxVars
  <2>2. (T!TypeOK)'
    BY <1>0, <2>1, PanelTypes
  <2> QED BY <1>0, <2>1, <2>2, TabsStay DEF PanelInv
<1>5. CASE T!Grab \/ T!Drag
  <2>1. /\ dragging' /\ fitted' \subseteq fitted /\ dragging' \in BOOLEAN
        /\ UNCHANGED <<isOpen, everOpened, tabs, activeTab, tabCounter, fitFns, isMaximized, strip,
                       moving, refits, stale>>
    BY <1>0, <1>5, PanelTypes DEF T!Grab, T!Drag, T!tabVars, T!boxVars
  <2>2. (T!TypeOK)'
    BY <1>0, <2>1, PanelTypes
  <2> QED BY <1>0, <2>1, <2>2, TabsStay DEF PanelInv
<1>6. CASE T!Release
  <2>1. /\ dragging' = FALSE /\ stale' = FALSE /\ refits' = refits \cup {dragged}
        /\ UNCHANGED <<isOpen, everOpened, tabs, activeTab, tabCounter, fitFns, isMaximized, strip,
                       moving, fitted>>
    BY <1>6 DEF T!Release, T!Dragged, T!tabVars, T!boxVars, dragged
  <2>2. (T!TypeOK)'
    BY <1>0, <1>t, <2>1, PanelTypes
  <2> QED BY <1>0, <1>t, <2>1, <2>2, TabsStay, RefitPending
<1> QED BY <1>1, <1>2, <1>3, <1>4, <1>5, <1>6

\* addTab: the counter makes an id that no tab has, and the new terminal is to be fitted.
LEMMA AddTabStep ==
  ASSUME PanelInv, T!AddTab
  PROVE  PanelInv'
<1>0. /\ T!TypeOK /\ (isOpen => everOpened)
      /\ MaxTabs \in Nat /\ tabs \in Seq(1 .. MaxTabs) /\ tabCounter \in 1 .. MaxTabs
  BY DeskAssumption, PanelTypes DEF PanelInv
<1> DEFINE new == tabCounter + 1
<1>1. new \in 1 .. MaxTabs /\ T!NextId = new /\ tabs' = Append(tabs, new)
  BY <1>0 DEF T!AddTab, T!NextId
<1>2. /\ isOpen' = isOpen /\ everOpened' = everOpened /\ tabCounter' = new /\ activeTab' = new
      /\ fitFns' = fitFns \cup {new} /\ refits' = T!Activated(new) /\ stale' = FALSE
      /\ strip' \in {"none", "dead", "live"}
      /\ UNCHANGED <<moving, isMaximized, dragging, fitted>>
  BY <1>1 DEF T!AddTab, T!Strip, T!boxVars
<1>3. /\ tabs' \in Seq(1 .. MaxTabs) /\ Len(tabs') = Len(tabs) + 1
      /\ \A i \in 1 .. Len(tabs) : tabs'[i] = tabs[i]
      /\ tabs'[Len(tabs) + 1] = new
  BY <1>0, <1>1, AppendProperties
<1>4. Len(tabs) \in Nat /\ DOMAIN tabs = 1 .. Len(tabs) /\ DOMAIN tabs' = 1 .. Len(tabs) + 1
  BY <1>0, <1>3, LenProperties
<1>5. /\ \A i \in 1 .. Len(tabs) : tabs[i] \in Nat /\ tabs[i] <= tabCounter
      /\ \A i, j \in 1 .. Len(tabs) : tabs[i] = tabs[j] => i = j
  <2>1. \A i \in 1 .. Len(tabs) : tabs[i] \in 1 .. MaxTabs
    BY <1>0, ElementOfSeq
  <2>2. \A i \in DOMAIN tabs : tabs[i] <= tabCounter
    BY DEF PanelInv
  <2>3. \A i, j \in DOMAIN tabs : tabs[i] = tabs[j] => i = j
    BY DEF PanelInv, Distinct
  <2>4. \A i \in 1 .. Len(tabs) : tabs[i] \in Nat
    BY <1>0, <1>4, <2>1
  <2> QED BY <1>4, <2>2, <2>3, <2>4
<1>6. \A i \in 1 .. Len(tabs) + 1 : i \in 1 .. Len(tabs) \/ i = Len(tabs) + 1
  BY <1>4
<1>7. Distinct(tabs)'
  <2>1. \A i \in 1 .. Len(tabs) : tabs[i] # new
    BY <1>0, <1>5
  <2> SUFFICES ASSUME NEW i \in 1 .. Len(tabs) + 1, NEW j \in 1 .. Len(tabs) + 1,
                      tabs'[i] = tabs'[j]
               PROVE  i = j
    BY <1>4 DEF Distinct
  <2> HIDE DEF new
  <2> QED BY <1>3, <1>5, <1>6, <2>1
<1>8. (\A i \in DOMAIN tabs : tabs[i] <= tabCounter)'
  <2>1. \A i \in 1 .. Len(tabs) : tabs[i] <= new
    BY <1>0, <1>5
  <2>2. new <= new
    BY <1>0
  <2> HIDE DEF new
  <2> QED BY <1>2, <1>3, <1>4, <1>6, <2>1, <2>2
<1>9. (activeTab \in T!ToSet(tabs))'
  <2>1. Len(tabs) + 1 \in DOMAIN tabs'
    BY <1>4
  <2> QED BY <1>2, <1>3, <2>1 DEF T!ToSet
<1> HIDE DEF new
<1>10. (T!TypeOK)'
  BY <1>0, <1>1, <1>2, <1>3, TimersTyped, PanelTypes
<1>11. T!Timer(new, "panel") \in refits' /\ T!Timer(new, "panel").tab = activeTab'
  BY <1>0, <1>1, <1>2, TimersTyped
<1> QED BY <1>0, <1>2, <1>7, <1>8, <1>9, <1>10, <1>11, RefitPending

\* A click on a tab: its terminal gets a box, and is to be fitted.
LEMMA SelectStep ==
  ASSUME PanelInv, NEW t \in 1 .. MaxTabs, T!Select(t)
  PROVE  PanelInv'
<1>0. T!TypeOK /\ (isOpen => everOpened)
  BY DEF PanelInv
<1>1. /\ activeTab' = t /\ t \in T!ToSet(tabs) /\ refits' = T!Activated(t) /\ stale' = FALSE
      /\ strip' \in {"none", "dead", "live"}
      /\ UNCHANGED <<isOpen, everOpened, tabs, tabCounter, fitFns, moving, isMaximized, dragging,
                     fitted>>
  BY DEF T!Select, T!Strip, T!boxVars
<1>2. (T!TypeOK)'
  BY <1>0, <1>1, TimersTyped, PanelTypes
<1>3. /\ Distinct(tabs)' /\ (\A i \in DOMAIN tabs : tabs[i] <= tabCounter)'
      /\ (activeTab \in T!ToSet(tabs))'
  BY <1>1 DEF PanelInv, Distinct, T!ToSet
<1>4. T!Timer(t, "panel") \in refits' /\ T!Timer(t, "panel").tab = activeTab'
  BY <1>0, <1>1, TimersTyped
<1> QED BY <1>0, <1>1, <1>2, <1>3, <1>4, RefitPending

\* closeTab: a tab goes, and with it the timers of its terminal; if it was the active one the
\* first of the others takes its place and is to be fitted.
LEMMA CloseTabStep ==
  ASSUME PanelInv, NEW t \in 1 .. MaxTabs, T!CloseTab(t)
  PROVE  PanelInv'
<1> DEFINE w == T!Without(t)
<1>0. /\ T!TypeOK /\ (isOpen => everOpened)
      /\ MaxTabs \in Nat /\ tabs \in Seq(1 .. MaxTabs) /\ tabCounter \in 1 .. MaxTabs
      /\ Distinct(tabs) /\ activeTab \in T!ToSet(tabs)
  BY DeskAssumption, PanelTypes DEF PanelInv
<1>1. /\ tabs' = w /\ Len(tabs) > 1 /\ t \in T!ToSet(tabs) /\ fitFns' = fitFns \ {t}
      /\ UNCHANGED <<isOpen, everOpened, tabCounter, moving, isMaximized, dragging, fitted>>
  BY DEF T!CloseTab, T!boxVars
<1>2. /\ w \in Seq(1 .. MaxTabs) /\ Distinct(w) /\ 1 \in DOMAIN w
      /\ T!ToSet(w) = T!ToSet(tabs) \ {t}
  BY <1>0, <1>1, WithoutKeeps
<1> HIDE DEF w
<1>3. \A u \in T!ToSet(tabs) : u <= tabCounter
  BY DEF PanelInv, T!ToSet
<1>4. \A i \in DOMAIN w : w[i] \in T!ToSet(w)
  BY DEF T!ToSet
<1>5. (\A i \in DOMAIN tabs : tabs[i] <= tabCounter)'
  BY <1>1, <1>2, <1>3, <1>4
<1>6. Distinct(tabs)'
  BY <1>1, <1>2 DEF Distinct
<1>7. CASE activeTab = t
  <2>1. /\ activeTab' = w[1] /\ stale' = FALSE /\ strip' \in {"none", "dead", "live"}
        /\ refits' = {r \in T!Activated(w[1]) : r.tab # t \/ r.by # "own"}
    BY <1>1, <1>7, PanelTypes, <1>0 DEF T!CloseTab, T!Strip
  <2>2. w[1] \in T!ToSet(w) /\ w[1] \in 1 .. MaxTabs
    <3>1. \A i \in DOMAIN w : w[i] \in 1 .. MaxTabs
      BY <1>2, LenProperties, ElementOfSeq
    <3> QED BY <1>2, <1>4, <3>1
  <2>3. (T!TypeOK)'
    BY <1>0, <1>1, <1>2, <2>1, <2>2, TimersTyped, PanelTypes
  <2>4. (activeTab \in T!ToSet(tabs))'
    BY <1>1, <2>1, <2>2 DEF T!ToSet
  <2>5. T!Timer(w[1], "panel") \in refits' /\ T!Timer(w[1], "panel").tab = activeTab'
    <3>1. /\ T!Timer(w[1], "panel") \in T!Activated(w[1])
          /\ T!Timer(w[1], "panel").tab = w[1] /\ T!Timer(w[1], "panel").by = "panel"
      BY <1>0, <2>2, TimersTyped
    <3> QED BY <2>1, <3>1
  <2> QED BY <1>0, <1>1, <1>5, <1>6, <2>3, <2>4, <2>5, RefitPending
<1>8. CASE activeTab # t
  <2>1. /\ activeTab' = activeTab /\ strip' = strip
        /\ refits' = {r \in refits : r.tab # t \/ r.by # "own"}
    BY <1>8 DEF T!CloseTab
  <2>2. stale' = stale
    BY <1>0, <1>8, PanelTypes DEF T!CloseTab
  <2>3. (T!TypeOK)'
    BY <1>0, <1>1, <1>2, <2>1, <2>2, PanelTypes
  <2>4. (activeTab \in T!ToSet(tabs))'
    <3>1. activeTab \in T!ToSet(w)
      BY <1>0, <1>2, <1>8
    <3> QED BY <1>1, <2>1, <3>1 DEF T!ToSet
  <2>5. (isOpen /\ ~dragging /\ ~stale /\ activeTab \in fitFns => Fitting)'
    <3>1. \A r \in refits : r.tab = activeTab => r \in refits'
      BY <1>8, <2>1
    <3> QED BY <1>1, <2>1, <2>2, <3>1 DEF PanelInv, Fitting
  <2> QED BY <1>0, <1>1, <1>5, <1>6, <2>3, <2>4, <2>5 DEF PanelInv
<1> QED BY <1>7, <1>8

\* A timer fires: the terminal it is for is fitted, if it is the one on the screen.
LEMMA RefitStep ==
  ASSUME PanelInv, NEW r \in refits, T!Refit(r)
  PROVE  PanelInv'
<1>0. T!TypeOK /\ (isOpen => everOpened)
  BY DEF PanelInv
<1>1. /\ refits' = refits \ {r} /\ fitted \subseteq fitted'
      /\ r.tab = activeTab /\ activeTab \in fitFns => activeTab \in fitted'
      /\ fitted' \subseteq fitted \cup {activeTab}
      /\ UNCHANGED <<isOpen, everOpened, tabs, activeTab, tabCounter, fitFns, moving, isMaximized,
                     strip, dragging, stale>>
  BY DEF T!Refit, T!tabVars, T!boxVars
<1>2. (T!TypeOK)'
  BY <1>0, <1>1, PanelTypes
<1>3. (isOpen /\ ~dragging /\ ~stale /\ activeTab \in fitFns => Fitting)'
  <2>1. ASSUME NEW q \in refits, q.tab = activeTab, activeTab \in fitFns
        PROVE  activeTab \in fitted' \/ q \in refits'
    BY <1>1, <2>1
  <2> QED BY <1>1, <2>1 DEF PanelInv, Fitting
<1> QED BY <1>0, <1>1, <1>2, <1>3, TabsStay DEF PanelInv

\* PanelInv is inductive.
THEOREM PanelInvariance == T!Spec => []PanelInv
<1>1. T!Init => PanelInv
  <2> SUFFICES ASSUME T!Init PROVE PanelInv
    OBVIOUS
  <2>1. MaxTabs \in Nat \ {0} /\ 1 \in 1 .. MaxTabs /\ <<1>> \in Seq(1 .. MaxTabs)
    BY DeskAssumption
  <2>2. T!TypeOK
    BY <2>1, PanelTypes DEF T!Init
  <2> QED BY <2>2 DEF PanelInv, T!Init, Distinct, T!ToSet
<1>2. PanelInv /\ [T!Next]_(T!vars) => PanelInv'
  <2> SUFFICES ASSUME PanelInv, [T!Next]_(T!vars) PROVE PanelInv'
    OBVIOUS
  <2>1. CASE UNCHANGED T!vars
    <3>1. UNCHANGED <<isOpen, everOpened, tabs, activeTab, tabCounter, fitFns, moving, isMaximized,
                      strip, dragging, refits, fitted, stale>>
      BY <2>1 DEF T!vars, T!tabVars, T!boxVars
    <3>2. (T!TypeOK)'
      BY <3>1, PanelTypes DEF PanelInv
    <3> QED BY <3>1, <3>2, TabsStay DEF PanelInv, Fitting
  <2>2. CASE T!Next
    BY <2>2, BoxSteps, AddTabStep, SelectStep, CloseTabStep, RefitStep DEF T!Next
  <2> QED BY <2>1, <2>2
<1> QED BY <1>1, <1>2, PTL DEF T!Spec

\* addTab counts on and closeTab filters: a new tab has an id that no tab ever had, so that a tab
\* that was closed, whose terminal is gone, is none of the tabs again.
LEMMA TabIds ==
  ASSUME PanelInv, [T!Next]_(T!vars)
  PROVE  /\ tabCounter <= tabCounter'
         /\ \A t \in 1 .. tabCounter : t \in T!ToSet(tabs') => t \in T!ToSet(tabs)
<1>0. /\ MaxTabs \in Nat /\ tabs \in Seq(1 .. MaxTabs) /\ tabCounter \in 1 .. MaxTabs /\ Distinct(tabs)
  BY DeskAssumption, PanelTypes DEF PanelInv
<1>1. CASE UNCHANGED <<tabs, tabCounter>>
  BY <1>0, <1>1
<1>2. CASE T!AddTab
  <2>1. tabs' = Append(tabs, tabCounter + 1) /\ tabCounter' = tabCounter + 1
    BY <1>2 DEF T!AddTab, T!NextId
  <2>2. /\ Len(tabs') = Len(tabs) + 1 /\ tabs'[Len(tabs) + 1] = tabCounter + 1
        /\ \A i \in 1 .. Len(tabs) : tabs'[i] = tabs[i]
        /\ DOMAIN tabs = 1 .. Len(tabs) /\ DOMAIN tabs' = 1 .. Len(tabs) + 1 /\ Len(tabs) \in Nat
    BY <1>0, <2>1, AppendProperties, LenProperties
  <2>3. ASSUME NEW i \in DOMAIN tabs', tabs'[i] \in 1 .. tabCounter
        PROVE  tabs'[i] \in T!ToSet(tabs)
    <3>1. i \in 1 .. Len(tabs) \/ i = Len(tabs) + 1
      BY <2>2
    <3>2. i # Len(tabs) + 1
      BY <1>0, <2>2, <2>3
    <3> QED BY <2>2, <3>1, <3>2 DEF T!ToSet
  <2> QED BY <1>0, <2>1, <2>3 DEF T!ToSet
<1>3. ASSUME NEW t \in 1 .. MaxTabs, T!CloseTab(t)
      PROVE  tabCounter' = tabCounter /\ T!ToSet(tabs') \subseteq T!ToSet(tabs)
  <2>1. tabs' = T!Without(t) /\ Len(tabs) > 1 /\ t \in T!ToSet(tabs) /\ tabCounter' = tabCounter
    BY <1>3 DEF T!CloseTab
  <2>2. T!ToSet(T!Without(t)) = T!ToSet(tabs) \ {t}
    BY <1>0, <2>1, WithoutKeeps
  <2> QED BY <2>1, <2>2
<1>4. CASE \/ T!Open \/ T!Close \/ T!CloseLastTab \/ T!Maximize \/ T!Arrive \/ T!Grab \/ T!Drag
           \/ T!Release \/ T!ResizeWindow
  BY <1>1, <1>4 DEF T!Open, T!Close, T!CloseLastTab, T!Maximize, T!Arrive, T!Grab, T!Drag, T!Release,
     T!ResizeWindow, T!tabVars
<1>5. CASE (\E t \in 1 .. MaxTabs : T!Select(t)) \/ (\E r \in refits : T!Refit(r))
  BY <1>1, <1>5 DEF T!Select, T!Refit, T!tabVars
<1>6. CASE \E t \in 1 .. MaxTabs : T!CloseTab(t)
  BY <1>0, <1>3, <1>6
<1>7. CASE UNCHANGED T!vars
  BY <1>1, <1>7 DEF T!vars, T!tabVars
<1> QED BY <1>2, <1>4, <1>5, <1>6, <1>7 DEF T!Next

\* However many tabs are opened and closed, also the last one and the one in front: an id that a
\* closed tab had never names another terminal, and the timers, fit functions and sockets that go by
\* ids cannot reach the wrong one.
THEOREM TabsStayClosed ==
  DeskSpec => [][/\ tabCounter <= tabCounter'
                 /\ \A t \in 1 .. tabCounter : t \in T!ToSet(tabs') => t \in T!ToSet(tabs)]_(T!vars)
<1>1. PanelInv /\ [T!Next]_(T!vars) =>
        [/\ tabCounter <= tabCounter'
         /\ \A t \in 1 .. tabCounter : t \in T!ToSet(tabs') => t \in T!ToSet(tabs)]_(T!vars)
  BY TabIds
<1> QED BY <1>1, PanelInvariance, Parts, PTL DEF T!Spec

\* terminal-panel.tsx: of any number of tabs, opened and closed in any order, one is lit and
\* one terminal is shown, and once the timers are over it fits its box.
THEOREM PanelSafe == DeskSpec => []ShownFits
<1>1. PanelInv => ShownFits
  <2> SUFFICES ASSUME PanelInv, isOpen
               PROVE  /\ T!Cardinality(T!LitTabs) = 1 /\ T!Cardinality(T!Displayed) = 1
                      /\ ~dragging /\ refits = {} /\ ~stale /\ activeTab \in fitFns
                           => T!Displayed \subseteq fitted
    BY DEF ShownFits, T!ShownFits
  <2>1. PICK i \in DOMAIN tabs : tabs[i] = activeTab
    BY DEF PanelInv, T!ToSet
  <2>2. T!LitTabs = {i}
    BY <2>1 DEF T!LitTabs, PanelInv, Distinct
  <2>3. T!Displayed = {activeTab}
    BY DEF T!Displayed, T!Mounted, PanelInv
  <2>4. T!Cardinality({i}) = 1 /\ T!Cardinality({activeTab}) = 1
    BY CountsAlike, FS_Singleton
  <2> QED BY <2>2, <2>3, <2>4 DEF PanelInv, Fitting
<1> QED BY <1>1, Parts, PanelInvariance, PTL

-----------------------------------------------------------------------------
(* The Ollama window.                                                      *)

OnWay(c)     == calls[c] # NULL
OwnList(c)   == OnWay(c) /\ calls[c].kind = "list" /\ calls[c].own
Answered(c)  == OnWay(c) /\ calls[c].kind = "list" /\ calls[c].state = "ok"
Deleting(c)  == OnWay(c) /\ calls[c].kind = "delete"

\* One pull runs while handlePull reads its stream; its list comes after it, and no timer
\* takes its bar away.
OnePull ==
  /\ streams = (IF Streaming THEN 1 ELSE 0)
  /\ \A c \in Calls : OwnList(c) => pull # NULL /\ pull.at = "listing"
  /\ \A c, d \in Calls : OwnList(c) /\ OwnList(d) => c = d
  /\ Streaming /\ ~pull.said => progress[pull.name] = "going"
  /\ timers = {m \in Models : progress[m] \in {"success", "error"}}
  /\ pull # NULL /\ pull.bad => pull.at = "stream" /\ pull.said

\* One model is asked for, the one the drawer is open for.
OneDrawer ==
  ~mixed /\ drawer.model # NULL =>
    /\ drawer.loading \/ drawer.data \in {drawer.model, NULL}
    /\ \A m \in Models : asked[m] > 0 => m = drawer.model

\* No pull has changed the library behind the list.
Clean == pull = NULL \/ pull.at = "stream"

\* What the list is while it is loaded, a model is deleted, or nothing is under way.
OneList ==
  ~crossed =>
    /\ \A c, d \in Calls : OnWay(c) /\ OnWay(d) => c = d
    /\ \A c \in Calls : mounted /\ Deleting(c) => calls[c].saved # NULL
    /\ \A c \in Calls : Answered(c) /\ (calls[c].own \/ Clean) => calls[c].answer = library
    /\ mounted /\ list.healthy = TRUE /\ Clean =>
         /\ (\A c \in Calls : ~OnWay(c)) => list.models = library
         /\ \A c \in Calls : Deleting(c) =>
              CASE calls[c].state = "sent"   -> /\ calls[c].saved = library
                                                /\ list.models = library \ {calls[c].model}
                [] calls[c].state = "ok"     -> list.models = library
                [] calls[c].state = "failed" -> calls[c].saved = library

OllamaInv == TypeOK /\ OnePull /\ OneDrawer /\ OneList

\* The conjuncts of the window's type invariant one by one, and so in the next state.
LEMMA OllamaTypes ==
  /\ TypeOK <=>
       /\ library \subseteq Models /\ streams \in 0 .. 1 /\ orphans \subseteq Models
       /\ mounted \in BOOLEAN /\ crossed \in BOOLEAN /\ mixed \in BOOLEAN
       /\ list \in [models : SUBSET Models, healthy : BOOLEAN \cup {NULL}, loading : BOOLEAN]
       /\ calls \in [Calls -> Listings \cup Deletions \cup {NULL}]
       /\ pull \in Pulls \cup {NULL} /\ confirm \in Models \cup {NULL}
       /\ progress \in [Models -> {"none", "going", "success", "error"}] /\ timers \subseteq Models
       /\ drawer \in [model : Models \cup {NULL}, data : Models \cup {NULL}, loading : BOOLEAN]
       /\ asked \in [Models -> Nat]
  /\ TypeOK' <=>
       /\ library' \subseteq Models /\ streams' \in 0 .. 1 /\ orphans' \subseteq Models
       /\ mounted' \in BOOLEAN /\ crossed' \in BOOLEAN /\ mixed' \in BOOLEAN
       /\ list' \in [models : SUBSET Models, healthy : BOOLEAN \cup {NULL}, loading : BOOLEAN]
       /\ calls' \in [Calls -> Listings \cup Deletions \cup {NULL}]
       /\ pull' \in Pulls \cup {NULL} /\ confirm' \in Models \cup {NULL}
       /\ progress' \in [Models -> {"none", "going", "success", "error"}] /\ timers' \subseteq Models
       /\ drawer' \in [model : Models \cup {NULL}, data : Models \cup {NULL}, loading : BOOLEAN]
       /\ asked' \in [Models -> Nat]
<1>1. \A X : {mounted, crossed, mixed} \subseteq X <=> mounted \in X /\ crossed \in X /\ mixed \in X
  BY Zenon
<1>2. \A X : {mounted', crossed', mixed'} \subseteq X
         <=> mounted' \in X /\ crossed' \in X /\ mixed' \in X
  BY Zenon
<1> QED BY <1>1, <1>2, Zenon DEF TypeOK

\* A call on its way is a listing or a deletion, and its kind tells which.
LEMMA CallFields ==
  ASSUME NEW x \in Listings \cup Deletions
  PROVE  /\ x # NULL /\ x.state \in States /\ x.kind \in {"list", "delete"}
         /\ x.kind = "list" => x \in Listings /\ x.own \in BOOLEAN /\ x.answer \subseteq Models
         /\ x.kind = "delete" => /\ x \in Deletions /\ x.model \in Models
                                 /\ x.saved \in (SUBSET Models) \cup {NULL}
<1>1. x # NULL
  BY OllamaAssumption
<1>2. CASE x \in Listings
  BY <1>1, <1>2 DEF Listings, States
<1>3. CASE x \in Deletions
  BY <1>1, <1>3 DEF Deletions, States
<1> QED BY <1>2, <1>3

\* The calls of the window as they are sent.
LEMMA CallsSent ==
  /\ \A own \in BOOLEAN : /\ Listing(own) \in Listings /\ Listing(own).own = own
                          /\ Listing(own).kind = "list" /\ Listing(own).state = "sent"
  /\ \A m \in Models, old \in SUBSET Models :
       /\ Deletion(m, old) \in Deletions /\ Deletion(m, old).kind = "delete"
       /\ Deletion(m, old).state = "sent" /\ Deletion(m, old).model = m
       /\ Deletion(m, old).saved = old
BY DEF Listing, Deletion, Listings, Deletions, States

\* What an answer changes in a call, and what the window forgets of a deletion.
LEMMA ListingChanged ==
  ASSUME NEW x \in Listings
  PROVE  /\ \A s \in SUBSET Models :
              LET y == [x EXCEPT !.state = "ok", !.answer = s]
              IN  y \in Listings /\ y.kind = "list" /\ y.own = x.own /\ y.state = "ok" /\ y.answer = s
         /\ LET y == [x EXCEPT !.state = "failed"]
            IN  y \in Listings /\ y.kind = "list" /\ y.own = x.own /\ y.state = "failed"
BY DEF Listings, States

\* An answer changes nothing of a deletion but its state.
LEMMA DeletionAnswered ==
  ASSUME NEW x \in Deletions, NEW s \in States
  PROVE  /\ [x EXCEPT !.state = s] \in Deletions
         /\ [x EXCEPT !.state = s].kind = "delete" /\ [x EXCEPT !.state = s].state = s
         /\ [x EXCEPT !.state = s].model = x.model
         /\ [x EXCEPT !.state = s].saved = x.saved
<1> DEFINE Olds == (SUBSET Models) \cup {NULL}
<1>1. Deletions = [kind : {"delete"}, model : Models, saved : Olds, state : States]
  BY DEF Deletions
<1> HIDE DEF Olds
<1> QED BY <1>1

\* A window that is unmounted forgets what a deletion would put back.
LEMMA DeletionForgotten ==
  ASSUME NEW x \in Deletions
  PROVE  [x EXCEPT !.saved = NULL] \in Deletions /\ [x EXCEPT !.saved = NULL].kind = "delete"
<1> DEFINE Olds == (SUBSET Models) \cup {NULL}
<1>1. Deletions = [kind : {"delete"}, model : Models, saved : Olds, state : States]
  BY DEF Deletions
<1>2. NULL \in Olds
  OBVIOUS
<1> HIDE DEF Olds
<1> QED BY <1>1, <1>2

\* What becomes of a pull.
LEMMA PullFields ==
  ASSUME NEW x \in Pulls
  PROVE  /\ x # NULL /\ x.name \in Models /\ x.at \in {"stream", "done", "listing"}
         /\ x.said \in BOOLEAN /\ x.bad \in BOOLEAN
         /\ \A s \in BOOLEAN :
              LET y == [x EXCEPT !.said = s]
              IN  y \in Pulls /\ y.name = x.name /\ y.at = x.at /\ y.said = s /\ y.bad = x.bad
         /\ \A a \in {"done", "listing"} :
              LET y == [x EXCEPT !.at = a]
              IN  y \in Pulls /\ y.name = x.name /\ y.at = a /\ y.said = x.said /\ y.bad = x.bad
<1>1. x # NULL
  BY OllamaAssumption
<1> QED BY <1>1 DEF Pulls

\* What becomes of the list and of the drawer.
LEMMA ScreenFields ==
  ASSUME TypeOK
  PROVE  /\ list.models \subseteq Models /\ list.healthy \in BOOLEAN \cup {NULL}
         /\ list.loading \in BOOLEAN
         /\ LET y == [list EXCEPT !.loading = TRUE]
            IN  /\ y \in [models : SUBSET Models, healthy : BOOLEAN \cup {NULL}, loading : BOOLEAN]
                /\ y.models = list.models /\ y.healthy = list.healthy
         /\ \A s \in SUBSET Models :
              LET y == [list EXCEPT !.models = s]
              IN  /\ y \in [models : SUBSET Models, healthy : BOOLEAN \cup {NULL}, loading : BOOLEAN]
                  /\ y.models = s /\ y.healthy = list.healthy
         /\ drawer.model \in Models \cup {NULL} /\ drawer.data \in Models \cup {NULL}
         /\ drawer.loading \in BOOLEAN
         /\ LET y == [drawer EXCEPT !.model = NULL]
            IN  /\ y \in [model : Models \cup {NULL}, data : Models \cup {NULL}, loading : BOOLEAN]
                /\ y.model = NULL
         /\ \A m \in Models \cup {NULL} :
              LET y == [drawer EXCEPT !.data = m, !.loading = FALSE]
              IN  /\ y \in [model : Models \cup {NULL}, data : Models \cup {NULL},
                            loading : BOOLEAN]
                  /\ y.model = drawer.model /\ y.data = m
BY OllamaTypes

\* The parts of OllamaInv stay while nothing they are about changes.
LEMMA PullStays ==
  ASSUME OnePull, UNCHANGED <<streams, pull, progress, timers>>,
         \A c \in Calls : OwnList(c)' => OwnList(c)
  PROVE  OnePull'
BY DEF OnePull, Streaming

\* OneDrawer stays while the drawer and what it asked for do not change.
LEMMA DrawerStays ==
  ASSUME OneDrawer, UNCHANGED <<drawer, asked, mixed>>
  PROVE  OneDrawer'
BY DEF OneDrawer

\* OneList stays while the list, the library and the calls do not change.
LEMMA ListStays ==
  ASSUME OneList, UNCHANGED <<library, mounted, list, calls, crossed>>, Clean' => Clean
  PROVE  OneList'
BY DEF OneList, OnWay, Deleting, Answered

\* A call takes a slot that is free, and overlaps with those in the others.
LEMMA SendEffect ==
  ASSUME TypeOK, NEW c \in Calls, NEW x \in Listings \cup Deletions, Send(c, x)
  PROVE  /\ calls' \in [Calls -> Listings \cup Deletions \cup {NULL}] /\ crossed' \in BOOLEAN
         /\ calls[c] = NULL /\ calls'[c] = x /\ \A d \in Calls \ {c} : calls'[d] = calls[d]
         /\ ~crossed' => ~crossed /\ \A d \in Calls : ~OnWay(d)
<1>1. calls \in [Calls -> Listings \cup Deletions \cup {NULL}] /\ crossed \in BOOLEAN
  BY OllamaTypes
<1>2. calls[c] = NULL /\ calls' = [calls EXCEPT ![c] = x]
  BY DEF Send
<1>3. crossed' = (crossed \/ \E d \in Calls : OnWay(d))
  BY DEF Send, OnWay
<1> QED BY <1>1, <1>2, <1>3

\* Once the list is asked for, nothing is owed of it until the answer is there.
LEMMA ListAsked ==
  ASSUME TypeOK, NEW c \in Calls, NEW own \in BOOLEAN, Send(c, Listing(own))
  PROVE  /\ calls' \in [Calls -> Listings \cup Deletions \cup {NULL}] /\ crossed' \in BOOLEAN
         /\ \A d \in Calls : OwnList(d)' => OwnList(d) \/ (d = c /\ own)
         /\ OneList'
<1>1. /\ Listing(own) \in Listings /\ Listing(own).kind = "list" /\ Listing(own).state = "sent"
      /\ Listing(own).own = own /\ Listing(own) # NULL
  BY CallsSent, CallFields
<1> DEFINE x == Listing(own)
<1>2. /\ calls' \in [Calls -> Listings \cup Deletions \cup {NULL}] /\ crossed' \in BOOLEAN
      /\ calls[c] = NULL /\ calls'[c] = x /\ \A d \in Calls \ {c} : calls'[d] = calls[d]
      /\ ~crossed' => ~crossed /\ \A d \in Calls : ~OnWay(d)
  BY <1>1, SendEffect
<1>3. \A d \in Calls : OwnList(d)' => OwnList(d) \/ (d = c /\ own)
  BY <1>1, <1>2 DEF OwnList, OnWay
<1>4. ASSUME ~crossed'
      PROVE  /\ \A d \in Calls : OnWay(d)' <=> d = c
             /\ ~Deleting(c)' /\ ~Answered(c)'
  BY <1>1, <1>2, <1>4 DEF OnWay, Deleting, Answered
<1>5. \A d \in Calls : Deleting(d)' \/ Answered(d)' => OnWay(d)'
  BY DEF Deleting, Answered
<1> HIDE DEF x
<1>6. OneList'
  <2> SUFFICES ASSUME ~crossed' PROVE OneList'
    BY DEF OneList
  <2>1. \A d \in Calls : ~Deleting(d)' /\ ~Answered(d)'
    BY <1>4, <1>5
  <2> QED BY <1>4, <2>1 DEF OneList
<1> QED BY <1>2, <1>3, <1>6

\* The window: opened, minimised, refreshed.
LEMMA WindowSteps ==
  ASSUME OllamaInv, Mount \/ Unmount \/ Refresh
  PROVE  OllamaInv'
<1>0. TypeOK /\ OnePull /\ OneDrawer /\ OneList
  BY DEF OllamaInv
<1>1. CASE Mount
  <2>1. PICK c \in Calls : Send(c, Listing(FALSE))
    BY <1>1 DEF Mount
  <2>2. /\ mounted' = TRUE
        /\ UNCHANGED <<library, streams, orphans, list, pull, progress, timers, drawer, asked, mixed, confirm>>
    BY <1>1 DEF Mount, serverVars, pullVars, drawVars
  <2>3. /\ calls' \in [Calls -> Listings \cup Deletions \cup {NULL}] /\ crossed' \in BOOLEAN
        /\ \A d \in Calls : OwnList(d)' => OwnList(d)
        /\ OneList'
    BY <1>0, <2>1, ListAsked
  <2>4. TypeOK'
    BY <1>0, <2>2, <2>3, OllamaTypes
  <2> QED BY <1>0, <2>2, <2>3, <2>4, PullStays, DrawerStays DEF OllamaInv
<1>2. CASE Refresh
  <2>1. PICK c \in Calls : Send(c, Listing(FALSE))
    BY <1>2 DEF Refresh
  <2>2. /\ list' = [list EXCEPT !.loading = TRUE]
        /\ UNCHANGED <<library, streams, orphans, mounted, pull, progress, timers, drawer, asked, mixed,
                       confirm>>
    BY <1>2 DEF Refresh, serverVars, pullVars, drawVars
  <2>3. /\ calls' \in [Calls -> Listings \cup Deletions \cup {NULL}] /\ crossed' \in BOOLEAN
        /\ \A d \in Calls : OwnList(d)' => OwnList(d)
        /\ OneList'
    BY <1>0, <2>1, ListAsked
  <2>4. list' \in [models : SUBSET Models, healthy : BOOLEAN \cup {NULL}, loading : BOOLEAN]
    BY <1>0, <2>2, ScreenFields
  <2>5. TypeOK'
    BY <1>0, <2>2, <2>3, <2>4, OllamaTypes
  <2> QED BY <1>0, <2>2, <2>3, <2>5, PullStays, DrawerStays DEF OllamaInv
<1>3. CASE Unmount
  <2>1. /\ mounted' = FALSE /\ streams' = Aborted
        /\ list' = Fresh /\ pull' = NULL /\ progress' = Empty /\ timers' = {}
        /\ drawer' = Closed /\ asked' = [m \in Models |-> 0] /\ confirm' = NULL
        /\ UNCHANGED <<library, crossed, mixed>>
    BY <1>3 DEF Unmount
  <2>0. orphans' \subseteq Models
    <3>1. pull # NULL => pull.name \in Models
      BY <1>0, OllamaTypes, PullFields
    <3> QED BY <1>0, <1>3, <3>1, OllamaTypes DEF Unmount, Leave
  <2>2. calls' = [c \in Calls |-> IF calls[c] # NULL /\ calls[c].kind = "delete"
                                  THEN [calls[c] EXCEPT !.saved = NULL] ELSE NULL]
    BY <1>3 DEF Unmount
  <2>3. calls \in [Calls -> Listings \cup Deletions \cup {NULL}]
    BY <1>0, OllamaTypes
  <2>4. ASSUME NEW c \in Calls, calls[c] # NULL, calls[c].kind = "delete"
        PROVE  [calls[c] EXCEPT !.saved = NULL] \in Deletions
               /\ [calls[c] EXCEPT !.saved = NULL].kind = "delete"
    <3>1. calls[c] \in Deletions
      BY <2>3, <2>4, CallFields
    <3> QED BY <3>1, DeletionForgotten
  <2>5. \A c \in Calls : /\ calls'[c] \in Deletions \cup {NULL}
                         /\ calls'[c] # NULL => calls'[c].kind = "delete" /\ calls[c] # NULL
    BY <2>2, <2>4
  <2>6. calls' \in [Calls -> Listings \cup Deletions \cup {NULL}]
    BY <2>2, <2>5
  <2>7. \A c \in Calls : ~OwnList(c)' /\ ~Answered(c)' /\ (OnWay(c)' => OnWay(c))
    BY <2>5 DEF OwnList, Answered, OnWay
  <2>8. streams' = 0 /\ ~Streaming'
    <3>1. pull # NULL => pull.at \in {"stream", "done", "listing"}
      BY <1>0, OllamaTypes, PullFields
    <3> QED BY <1>0, <2>1, <3>1 DEF Aborted, OnePull, Streaming
  <2>9. TypeOK'
    <3>1. list' \in [models : SUBSET Models, healthy : BOOLEAN \cup {NULL}, loading : BOOLEAN]
      BY <2>1 DEF Fresh
    <3>2. drawer' \in [model : Models \cup {NULL}, data : Models \cup {NULL}, loading : BOOLEAN]
      BY <2>1 DEF Closed
    <3>3. /\ progress' \in [Models -> {"none", "going", "success", "error"}]
          /\ asked' \in [Models -> Nat]
      BY <2>1 DEF Empty
    <3>4. /\ library' \subseteq Models /\ streams' \in 0 .. 1 /\ mounted' \in BOOLEAN
          /\ crossed' \in BOOLEAN /\ mixed' \in BOOLEAN
          /\ pull' \in Pulls \cup {NULL} /\ confirm' \in Models \cup {NULL}
          /\ timers' \subseteq Models /\ orphans' \subseteq Models
      <4>1. streams' \in 0 .. 1
        BY <2>8
      <4> QED BY <1>0, <2>0, <2>1, <4>1, OllamaTypes, Zenon
    <3> QED BY <2>6, <3>1, <3>2, <3>3, <3>4, OllamaTypes
  <2>10. OnePull'
    BY <2>1, <2>7, <2>8 DEF OnePull, Empty
  <2>11. OneDrawer'
    BY <2>1 DEF OneDrawer, Closed
  <2>12. OneList'
    BY <1>0, <2>1, <2>7 DEF OneList
  <2> QED BY <2>9, <2>10, <2>11, <2>12 DEF OllamaInv
<1> QED BY <1>1, <1>2, <1>3

\* One slot of the calls changes.
LEMMA SlotChanged ==
  ASSUME TypeOK, NEW c \in Calls, NEW y \in Listings \cup Deletions \cup {NULL},
         calls' = [calls EXCEPT ![c] = y]
  PROVE  /\ calls \in [Calls -> Listings \cup Deletions \cup {NULL}]
         /\ calls' \in [Calls -> Listings \cup Deletions \cup {NULL}]
         /\ calls'[c] = y /\ \A d \in Calls \ {c} : calls'[d] = calls[d]
<1>1. calls \in [Calls -> Listings \cup Deletions \cup {NULL}]
  BY OllamaTypes
<1> QED BY <1>1

\* Progress of one model is reported, and the timers are set anew.
LEMMA Reported ==
  ASSUME TypeOK, NEW n \in Models, NEW s \in {"none", "going", "success", "error"},
         Report([progress EXCEPT ![n] = s])
  PROVE  /\ progress' \in [Models -> {"none", "going", "success", "error"}]
         /\ timers' \subseteq Models
         /\ timers' = {m \in Models : progress'[m] \in {"success", "error"}}
         /\ progress'[n] = s /\ \A m \in Models \ {n} : progress'[m] = progress[m]
<1>1. progress \in [Models -> {"none", "going", "success", "error"}]
  BY OllamaTypes
<1> QED BY <1>1 DEF Report

\* app/api/ollama/tags: the list as it is at Ollama, or a failure.
LEMMA ServeListStep ==
  ASSUME OllamaInv, NEW c \in Calls, ServeList(c)
  PROVE  OllamaInv'
<1>0. TypeOK /\ OnePull /\ OneDrawer /\ OneList
  BY DEF OllamaInv
<1>1. /\ calls[c] # NULL /\ calls[c].kind = "list" /\ calls[c].state = "sent"
      /\ UNCHANGED <<library, streams, orphans, mounted, list, pull, progress, timers, drawer, asked, mixed,
                     confirm, crossed>>
  BY DEF ServeList, serverVars, pullVars, drawVars
<1>2. calls[c] \in Listings /\ library \in SUBSET Models
  BY <1>0, <1>1, OllamaTypes, CallFields
<1>3. PICK y \in Listings : /\ calls' = [calls EXCEPT ![c] = y]
                            /\ y.kind = "list" /\ y.own = calls[c].own
                            /\ y.state = "ok" => y.answer = library
  <2>1. \/ calls' = [calls EXCEPT ![c] = [calls[c] EXCEPT !.state = "ok", !.answer = library]]
        \/ calls' = [calls EXCEPT ![c] = [calls[c] EXCEPT !.state = "failed"]]
    BY DEF ServeList
  <2>2. CASE calls' = [calls EXCEPT ![c] = [calls[c] EXCEPT !.state = "ok", !.answer = library]]
    <3> DEFINE z == [calls[c] EXCEPT !.state = "ok", !.answer = library]
    <3>1. z \in Listings /\ z.kind = "list" /\ z.own = calls[c].own /\ z.answer = library
      BY <1>2 DEF Listings, States
    <3> HIDE DEF z
    <3>2. calls' = [calls EXCEPT ![c] = z]
      BY <2>2 DEF z
    <3>3. z \in Listings
      BY <3>1
    <3> WITNESS z \in Listings
    <3> QED BY <3>1, <3>2
  <2>3. CASE calls' = [calls EXCEPT ![c] = [calls[c] EXCEPT !.state = "failed"]]
    BY <1>2, <2>3, ListingChanged
  <2> QED BY <2>1, <2>2, <2>3
<1>4. /\ calls' \in [Calls -> Listings \cup Deletions \cup {NULL}]
      /\ calls'[c] = y /\ \A d \in Calls \ {c} : calls'[d] = calls[d]
      /\ y # NULL
  BY <1>0, <1>3, SlotChanged, CallFields
<1>5. TypeOK'
  BY <1>0, <1>1, <1>4, OllamaTypes
<1>6. \A d \in Calls : (OwnList(d)' => OwnList(d)) /\ (OnWay(d)' <=> OnWay(d))
  BY <1>1, <1>3, <1>4 DEF OwnList, OnWay
<1>7. /\ \A d \in Calls : Deleting(d)' => Deleting(d) /\ calls'[d] = calls[d]
      /\ \A d \in Calls : Answered(d)' => \/ d = c /\ calls'[d].answer = library
                                          \/ Answered(d) /\ calls'[d] = calls[d]
  BY <1>1, <1>3, <1>4 DEF Deleting, Answered, OnWay
<1>8. OneList'
  <2> SUFFICES ASSUME ~crossed' PROVE OneList'
    BY DEF OneList
  <2>1. ~crossed /\ (Clean' <=> Clean)
    BY <1>1 DEF Clean
  <2>2. /\ \A d, e \in Calls : OnWay(d)' /\ OnWay(e)' => d = e
        /\ OnWay(c)' /\ ~Deleting(c)
    BY <1>0, <1>1, <1>6, <2>1 DEF OneList, OnWay, Deleting
  <2>3. \A d \in Calls : ~Deleting(d)'
    BY <1>6, <1>7, <2>2 DEF Deleting
  <2>4. \A d \in Calls : Answered(d)' => d = c /\ calls'[c].answer = library
    BY <1>1, <1>6, <1>7, <2>2 DEF Answered, OnWay
  <2> QED BY <1>1, <2>2, <2>3, <2>4 DEF OneList
<1> QED BY <1>0, <1>1, <1>5, <1>6, <1>8, PullStays, DrawerStays DEF OllamaInv

\* app/api/ollama/delete: done and heard of, done and not heard of, or not done.
LEMMA ServeDeleteStep ==
  ASSUME OllamaInv, NEW c \in Calls, ServeDelete(c)
  PROVE  OllamaInv'
<1>0. TypeOK /\ OnePull /\ OneDrawer /\ OneList
  BY DEF OllamaInv
<1>1. /\ calls[c] # NULL /\ calls[c].kind = "delete" /\ calls[c].state = "sent"
      /\ UNCHANGED <<streams, orphans, mounted, list, pull, progress, timers, drawer, asked, mixed, confirm>>
  BY DEF ServeDelete, pullVars, drawVars
<1>2. calls[c] \in Deletions
  BY <1>0, <1>1, OllamaTypes, CallFields
<1>3. PICK done \in BOOLEAN, heard \in BOOLEAN :
        /\ library' = IF done THEN library \ {calls[c].model} ELSE library
        /\ calls' = [calls EXCEPT ![c] = [calls[c] EXCEPT
                                            !.state = IF done /\ heard THEN "ok" ELSE "failed"]]
        /\ crossed' = (crossed \/ (done /\ ~heard))
  BY DEF ServeDelete
<1> DEFINE s == IF done /\ heard THEN "ok" ELSE "failed"
           y == [calls[c] EXCEPT !.state = s]
<1>4. /\ y \in Deletions /\ y.kind = "delete" /\ y.state = s
      /\ y.model = calls[c].model /\ y.saved = calls[c].saved
  <2>1. s \in States
    BY DEF States
  <2> HIDE DEF s
  <2> QED BY <1>2, <2>1, DeletionAnswered
<1>5. calls' = [calls EXCEPT ![c] = y]
  BY <1>3
<1> HIDE DEF y
<1>6. /\ calls' \in [Calls -> Listings \cup Deletions \cup {NULL}]
      /\ calls'[c] = y /\ \A d \in Calls \ {c} : calls'[d] = calls[d]
      /\ y # NULL
  BY <1>0, <1>4, <1>5, SlotChanged, CallFields
<1>7. library' \subseteq Models /\ crossed' \in BOOLEAN
  BY <1>0, <1>3, OllamaTypes
<1>8. TypeOK'
  BY <1>0, <1>1, <1>6, <1>7, OllamaTypes
<1>9. \A d \in Calls : (OwnList(d)' => OwnList(d)) /\ (OnWay(d)' <=> OnWay(d))
  BY <1>1, <1>4, <1>6 DEF OwnList, OnWay
<1>10. OneList'
  <2> SUFFICES ASSUME ~crossed' PROVE OneList'
    BY DEF OneList
  <2>1. ~crossed /\ (done => heard)
    BY <1>3
  <2>2. \A d \in Calls : OnWay(d) => d = c
    BY <1>0, <1>1, <2>1 DEF OneList, OnWay
  <2>3. /\ Deleting(c) /\ Deleting(c)' /\ \A d \in Calls : ~Answered(d)'
        /\ \A d \in Calls : Deleting(d)' => d = c
    BY <1>1, <1>4, <1>6, <1>9, <2>2 DEF Deleting, Answered, OnWay
  <2>4. mounted' => calls'[c].saved # NULL
    BY <1>0, <1>1, <1>4, <1>6, <2>1, <2>3 DEF OneList
  <2>5. ASSUME mounted', list'.healthy = TRUE, Clean'
        PROVE  CASE y.state = "sent"   -> y.saved = library' /\ list'.models = library' \ {y.model}
                 [] y.state = "ok"     -> list'.models = library'
                 [] y.state = "failed" -> y.saved = library'
    <3>1. calls[c].saved = library /\ list.models = library \ {calls[c].model}
      BY <1>0, <1>1, <2>1, <2>3, <2>5 DEF OneList, Clean
    <3>2. CASE done /\ heard
      <4>1. y.state = "ok"
        BY <1>4, <3>2
      <4>2. list'.models = library'
        BY <1>1, <1>3, <3>1, <3>2
      <4> QED BY <4>1, <4>2
    <3>3. CASE ~done
      <4>1. y.state = "failed"
        BY <1>4, <3>3
      <4>2. y.saved = library'
        BY <1>3, <1>4, <3>1, <3>3
      <4> QED BY <4>1, <4>2
    <3> QED BY <2>1, <3>2, <3>3
  <2> HIDE DEF s
  <2> QED BY <1>6, <1>9, <2>2, <2>3, <2>4, <2>5 DEF OneList, OnWay
<1> QED BY <1>0, <1>1, <1>8, <1>9, <1>10, PullStays, DrawerStays DEF OllamaInv

\* fetchModels: the list is shown; it ends the pull that has asked for it.
LEMMA ListArrivesStep ==
  ASSUME OllamaInv, NEW c \in Calls, ListArrives(c)
  PROVE  OllamaInv'
<1>0. TypeOK /\ OnePull /\ OneDrawer /\ OneList
  BY DEF OllamaInv
<1>1. /\ calls[c] # NULL /\ calls[c].kind = "list" /\ calls[c].state # "sent"
      /\ list' = [models |-> calls[c].answer, healthy |-> calls[c].state = "ok", loading |-> FALSE]
      /\ calls' = [calls EXCEPT ![c] = NULL]
      /\ UNCHANGED <<library, streams, orphans, mounted, drawer, asked, mixed, confirm, crossed>>
  BY DEF ListArrives, serverVars, drawVars
<1>2. calls[c] \in Listings /\ calls[c].own \in BOOLEAN /\ calls[c].answer \subseteq Models
  BY <1>0, <1>1, OllamaTypes, CallFields
<1>3. /\ calls' \in [Calls -> Listings \cup Deletions \cup {NULL}]
      /\ calls'[c] = NULL /\ \A d \in Calls \ {c} : calls'[d] = calls[d]
  BY <1>0, <1>1, SlotChanged
<1>4. /\ list' \in [models : SUBSET Models, healthy : BOOLEAN \cup {NULL}, loading : BOOLEAN]
      /\ list'.models = calls[c].answer /\ list'.healthy = (calls[c].state = "ok")
  BY <1>1, <1>2
<1>5. \A d \in Calls : /\ OwnList(d)' => OwnList(d) /\ d # c
                       /\ OnWay(d)' => OnWay(d) /\ d # c
                       /\ Deleting(d)' => Deleting(d) /\ d # c
                       /\ Answered(d)' => Answered(d) /\ d # c /\ calls'[d] = calls[d]
  BY <1>3 DEF OwnList, OnWay, Deleting, Answered
<1>6. Clean' => Clean \/ calls[c].own
  BY <1>2 DEF ListArrives, Clean, pullVars
<1>7. OneList'
  <2> SUFFICES ASSUME ~crossed' PROVE OneList'
    BY DEF OneList
  <2>1. \A d \in Calls : ~OnWay(d)' /\ ~Deleting(d)' /\ ~Answered(d)'
    BY <1>0, <1>1, <1>5 DEF OneList, OnWay, Deleting, Answered
  <2>2. ASSUME Clean', list'.healthy = TRUE
        PROVE  list'.models = library'
    <3>1. Answered(c) /\ (calls[c].own \/ Clean)
      BY <1>1, <1>4, <1>6, <2>2 DEF Answered, OnWay
    <3> QED BY <1>0, <1>1, <1>4, <3>1 DEF OneList
  <2> QED BY <2>1, <2>2 DEF OneList
<1>8. /\ pull' \in Pulls \cup {NULL} /\ timers' \subseteq Models /\ OnePull'
      /\ progress' \in [Models -> {"none", "going", "success", "error"}]
  <2>1. CASE ~calls[c].own
    <3>1. UNCHANGED <<pull, progress, timers>>
      BY <2>1 DEF ListArrives, pullVars
    <3> QED BY <1>0, <1>1, <1>5, <3>1, OllamaTypes, PullStays
  <2>2. CASE calls[c].own
    <3>1. OwnList(c) /\ pull # NULL /\ pull.at = "listing" /\ pull.name \in Models
      BY <1>0, <1>1, <2>2, OllamaTypes, PullFields DEF OwnList, OnWay, OnePull
    <3>2. pull' = NULL /\ Report([progress EXCEPT ![pull.name] = "success"])
      BY <2>2 DEF ListArrives
    <3>3. /\ progress' \in [Models -> {"none", "going", "success", "error"}]
          /\ timers' \subseteq Models
          /\ timers' = {m \in Models : progress'[m] \in {"success", "error"}}
      BY <1>0, <3>1, <3>2, Reported
    <3>4. streams' = 0 /\ ~Streaming'
      BY <1>0, <1>1, <3>1, <3>2 DEF OnePull, Streaming
    <3>5. \A d \in Calls : ~OwnList(d)'
      BY <1>0, <1>5, <3>1 DEF OnePull
    <3> QED BY <3>2, <3>3, <3>4, <3>5 DEF OnePull
  <2> QED BY <1>2, <2>1, <2>2
<1>9. TypeOK'
  BY <1>0, <1>1, <1>3, <1>4, <1>8, OllamaTypes
<1> QED BY <1>0, <1>1, <1>7, <1>8, <1>9, DrawerStays DEF OllamaInv

\* handleDelete, the rest: the list is put back if the deletion failed.
LEMMA DeleteArrivesStep ==
  ASSUME OllamaInv, NEW c \in Calls, DeleteArrives(c)
  PROVE  OllamaInv'
<1>0. TypeOK /\ OnePull /\ OneDrawer /\ OneList
  BY DEF OllamaInv
<1>1. /\ calls[c] # NULL /\ calls[c].kind = "delete" /\ calls[c].state # "sent"
      /\ calls' = [calls EXCEPT ![c] = NULL]
      /\ UNCHANGED <<library, streams, orphans, mounted, pull, progress, timers, drawer, asked, mixed, confirm,
                     crossed>>
  BY DEF DeleteArrives, serverVars, pullVars, drawVars
<1>2. /\ calls[c] \in Deletions /\ calls[c].saved \in (SUBSET Models) \cup {NULL}
      /\ calls[c].state \in {"ok", "failed"}
  BY <1>0, <1>1, OllamaTypes, CallFields DEF States
<1>3. /\ calls' \in [Calls -> Listings \cup Deletions \cup {NULL}]
      /\ calls'[c] = NULL /\ \A d \in Calls \ {c} : calls'[d] = calls[d]
  BY <1>0, <1>1, SlotChanged
<1>4. /\ list' \in [models : SUBSET Models, healthy : BOOLEAN \cup {NULL}, loading : BOOLEAN]
      /\ list'.healthy = list.healthy
      /\ calls[c].saved # NULL => list'.models = AfterDelete(calls[c])
  <2>1. CASE calls[c].saved = NULL
    <3>1. list' = list
      BY <2>1 DEF DeleteArrives
    <3> QED BY <1>0, <2>1, <3>1, OllamaTypes
  <2>2. CASE calls[c].saved # NULL
    <3>1. AfterDelete(calls[c]) \in SUBSET Models
      BY <1>0, <1>2, <2>2, ScreenFields DEF AfterDelete
    <3>2. list' = [list EXCEPT !.models = AfterDelete(calls[c])]
      BY <2>2 DEF DeleteArrives
    <3> QED BY <1>0, <3>1, <3>2, ScreenFields
  <2> QED BY <2>1, <2>2
<1>5. \A d \in Calls : /\ OwnList(d)' => OwnList(d)
                       /\ OnWay(d)' => OnWay(d) /\ d # c
  BY <1>3 DEF OwnList, OnWay
<1>6. OneList'
  <2> SUFFICES ASSUME ~crossed' PROVE OneList'
    BY DEF OneList
  <2>1. Deleting(c) /\ OnWay(c)
    BY <1>1 DEF Deleting, OnWay
  <2>2. \A d \in Calls : ~OnWay(d)' /\ ~Deleting(d)' /\ ~Answered(d)'
    BY <1>0, <1>1, <1>5, <2>1 DEF OneList, Deleting, Answered
  <2>3. ASSUME mounted', list'.healthy = TRUE, Clean'
        PROVE  list'.models = library'
    <3>1. calls[c].saved # NULL /\ mounted /\ list.healthy = TRUE /\ Clean
      BY <1>0, <1>1, <1>4, <2>1, <2>3 DEF OneList, Clean
    <3>2. /\ calls[c].state = "ok" => list.models = library
          /\ calls[c].state = "failed" => calls[c].saved = library
      BY <1>0, <1>1, <1>2, <2>1, <3>1 DEF OneList
    <3> QED BY <1>1, <1>2, <1>4, <3>1, <3>2 DEF AfterDelete
  <2> QED BY <2>2, <2>3 DEF OneList
<1>7. TypeOK'
  BY <1>0, <1>1, <1>3, <1>4, OllamaTypes
<1> QED BY <1>0, <1>1, <1>5, <1>6, <1>7, PullStays, DrawerStays DEF OllamaInv

\* handleDelete, up to the await: the model leaves the list before it is deleted.
LEMMA DeleteStep ==
  ASSUME OllamaInv, Delete
  PROVE  OllamaInv'
<1>0. TypeOK /\ OnePull /\ OneDrawer /\ OneList
  BY DEF OllamaInv
<1>1. /\ confirm # NULL /\ list' = [list EXCEPT !.models = @ \ {confirm}]
      /\ drawer' = IF drawer.model # NULL THEN [drawer EXCEPT !.model = NULL] ELSE drawer
      /\ confirm' = NULL
      /\ UNCHANGED <<library, streams, orphans, mounted, pull, progress, timers, asked, mixed>>
  BY DEF Delete, serverVars, pullVars
<1>2. PICK c \in Calls : Send(c, Deletion(confirm, list.models))
  BY DEF Delete
<1> DEFINE x == Deletion(confirm, list.models)
<1>3. confirm \in Models /\ list.models \in SUBSET Models
  BY <1>0, <1>1, OllamaTypes, ScreenFields
<1>4. /\ x \in Deletions /\ x.kind = "delete" /\ x.state = "sent"
      /\ x.model = confirm /\ x.saved = list.models /\ x # NULL
  BY <1>3, CallsSent, CallFields
<1> HIDE DEF x
<1>5. /\ calls' \in [Calls -> Listings \cup Deletions \cup {NULL}] /\ crossed' \in BOOLEAN
      /\ calls[c] = NULL /\ calls'[c] = x /\ \A d \in Calls \ {c} : calls'[d] = calls[d]
      /\ ~crossed' => ~crossed /\ \A d \in Calls : ~OnWay(d)
  BY <1>0, <1>2, <1>4, SendEffect DEF x
<1>6. /\ list' \in [models : SUBSET Models, healthy : BOOLEAN \cup {NULL}, loading : BOOLEAN]
      /\ list'.healthy = list.healthy /\ list'.models = list.models \ {confirm}
  <2> DEFINE rest == list.models \ {confirm}
  <2>1. rest \in SUBSET Models /\ list' = [list EXCEPT !.models = rest]
    BY <1>1, <1>3
  <2> HIDE DEF rest
  <2>2. /\ list' \in [models : SUBSET Models, healthy : BOOLEAN \cup {NULL}, loading : BOOLEAN]
        /\ list'.healthy = list.healthy /\ list'.models = rest
    BY <1>0, <2>1, ScreenFields
  <2> QED BY <2>2 DEF rest
<1>7. drawer' \in [model : Models \cup {NULL}, data : Models \cup {NULL}, loading : BOOLEAN]
      /\ drawer'.model = NULL
  BY <1>0, <1>1, OllamaTypes, ScreenFields
<1>8. TypeOK'
  BY <1>0, <1>1, <1>5, <1>6, <1>7, OllamaTypes
<1>9. \A d \in Calls : OwnList(d)' => OwnList(d)
  BY <1>4, <1>5 DEF OwnList, OnWay
<1>10. OneDrawer'
  BY <1>7 DEF OneDrawer
<1>11. OneList'
  <2> SUFFICES ASSUME ~crossed' PROVE OneList'
    BY DEF OneList
  <2>1. ~crossed /\ \A d \in Calls : ~OnWay(d)
    BY <1>5
  <2>2. \A d \in Calls : OnWay(d)' <=> d = c
    BY <1>4, <1>5, <2>1 DEF OnWay
  <2>3. \A d \in Calls : (Deleting(d)' => d = c) /\ ~Answered(d)'
    BY <1>4, <1>5, <2>2 DEF Deleting, Answered
  <2>4. calls'[c].saved # NULL
    BY <1>3, <1>4, <1>5, OllamaAssumption
  <2>5. ASSUME mounted', list'.healthy = TRUE, Clean'
        PROVE  x.saved = library' /\ list'.models = library' \ {x.model}
    <3>1. list.models = library
      BY <1>0, <1>1, <1>6, <2>1, <2>5 DEF OneList, Clean
    <3> QED BY <1>1, <1>4, <1>6, <3>1
  <2>6. calls'[c] = x /\ x.state = "sent" /\ OnWay(c)'
    BY <1>4, <1>5, <2>2
  <2> QED BY <2>2, <2>3, <2>4, <2>5, <2>6 DEF OneList
<1> QED BY <1>0, <1>1, <1>8, <1>9, <1>10, <1>11, PullStays DEF OllamaInv

\* The drawer, and the question whether to delete.
LEMMA DrawerSteps ==
  ASSUME OllamaInv,
         \/ Cancel \/ CloseDrawer
         \/ \E m \in Models : AskDelete(m) \/ OpenDrawer(m) \/ Details(m)
  PROVE  OllamaInv'
<1>0. TypeOK /\ OnePull /\ OneDrawer /\ OneList
  BY DEF OllamaInv
<1>1. UNCHANGED <<library, streams, orphans, mounted, list, calls, pull, progress, timers, crossed>>
  BY DEF Cancel, CloseDrawer, AskDelete, OpenDrawer, Details, serverVars, pullVars
<1>2. OnePull' /\ OneList'
  <2>1. (\A c \in Calls : OwnList(c)' => OwnList(c)) /\ (Clean' => Clean)
    BY <1>1 DEF OwnList, OnWay, Clean
  <2> QED BY <1>0, <1>1, <2>1, PullStays, ListStays
<1>3. CASE Cancel \/ \E m \in Models : AskDelete(m)
  <2>1. confirm' \in Models \cup {NULL} /\ UNCHANGED <<drawer, asked, mixed>>
    BY <1>3 DEF Cancel, AskDelete, drawVars
  <2>2. TypeOK'
    BY <1>0, <1>1, <2>1, OllamaTypes
  <2> QED BY <1>0, <1>2, <2>1, <2>2, DrawerStays DEF OllamaInv
<1>4. CASE CloseDrawer
  <2>1. drawer' = [drawer EXCEPT !.model = NULL] /\ UNCHANGED <<asked, mixed, confirm>>
    BY <1>4 DEF CloseDrawer
  <2>2. drawer' \in [model : Models \cup {NULL}, data : Models \cup {NULL}, loading : BOOLEAN]
        /\ drawer'.model = NULL
    BY <1>0, <2>1, ScreenFields
  <2>3. TypeOK'
    BY <1>0, <1>1, <2>1, <2>2, OllamaTypes
  <2> QED BY <1>2, <2>2, <2>3 DEF OllamaInv, OneDrawer
<1>5. ASSUME NEW m \in Models, OpenDrawer(m)
      PROVE  OllamaInv'
  <2>1. /\ drawer' = Opened(m) /\ asked' = [asked EXCEPT ![m] = @ + 1] /\ confirm' = confirm
        /\ mixed' = (mixed \/ \E n \in Models \ {m} : asked[n] > 0)
    BY <1>5 DEF OpenDrawer
  <2>2. drawer' \in [model : Models \cup {NULL}, data : Models \cup {NULL}, loading : BOOLEAN]
        /\ drawer'.model = m /\ drawer'.loading = TRUE
    BY <2>1 DEF Opened
  <2>3. asked \in [Models -> Nat] /\ mixed \in BOOLEAN
    BY <1>0, OllamaTypes
  <2>4. /\ asked' \in [Models -> Nat] /\ \A n \in Models \ {m} : asked'[n] = asked[n]
        /\ mixed' \in BOOLEAN
    BY <2>1, <2>3
  <2>5. TypeOK'
    BY <1>0, <1>1, <2>1, <2>2, <2>4, OllamaTypes
  <2>6. OneDrawer'
    BY <2>1, <2>2, <2>4 DEF OneDrawer
  <2> QED BY <1>2, <2>5, <2>6 DEF OllamaInv
<1>6. ASSUME NEW m \in Models, Details(m)
      PROVE  OllamaInv'
  <2>1. /\ asked[m] > 0 /\ asked' = [asked EXCEPT ![m] = @ - 1]
        /\ UNCHANGED <<mixed, confirm>>
    BY <1>6 DEF Details
  <2>2. PICK data \in {m, NULL} : drawer' = [drawer EXCEPT !.data = data, !.loading = FALSE]
    BY <1>6 DEF Details
  <2>3. drawer' \in [model : Models \cup {NULL}, data : Models \cup {NULL}, loading : BOOLEAN]
        /\ drawer'.model = drawer.model /\ drawer'.data = data
    BY <1>0, <2>2, ScreenFields
  <2>4. asked \in [Models -> Nat]
    BY <1>0, OllamaTypes
  <2>5. asked' \in [Models -> Nat] /\ \A n \in Models : asked'[n] > 0 => asked[n] > 0
    BY <2>1, <2>4
  <2>6. TypeOK'
    BY <1>0, <1>1, <2>1, <2>3, <2>5, OllamaTypes
  <2>7. OneDrawer'
    BY <1>0, <2>1, <2>2, <2>3, <2>5 DEF OneDrawer
  <2> QED BY <1>2, <2>6, <2>7 DEF OllamaInv
<1> QED BY <1>3, <1>4, <1>5, <1>6

\* handlePull up to its fetch: no other pull runs, for the button is off.
LEMMA PullStep ==
  ASSUME OllamaInv, NEW m \in Models, Pull(m)
  PROVE  OllamaInv'
<1>0. TypeOK /\ OnePull /\ OneDrawer /\ OneList
  BY DEF OllamaInv
<1>1. /\ pull = NULL /\ streams' = streams + 1
      /\ UNCHANGED <<library, orphans, mounted, list, calls, drawer, asked, mixed, confirm, crossed>>
  BY DEF Pull, CanPull, drawVars
<1>2. /\ pull' \in Pulls /\ pull' # NULL
      /\ pull'.name = m /\ pull'.at = "stream" /\ ~pull'.said /\ ~pull'.bad
  <2>1. pull' = [name |-> m, at |-> "stream", said |-> FALSE, bad |-> FALSE]
    BY DEF Pull
  <2>2. pull' \in Pulls
    BY <2>1 DEF Pulls
  <2> QED BY <2>1, <2>2, PullFields
<1>3. /\ progress' \in [Models -> {"none", "going", "success", "error"}] /\ timers' \subseteq Models
      /\ timers' = {n \in Models : progress'[n] \in {"success", "error"}}
      /\ progress'[m] = "going"
  BY <1>0, Reported DEF Pull
<1>4. streams' = 1
  BY <1>0, <1>1 DEF OnePull, Streaming
<1>5. TypeOK'
  BY <1>0, <1>1, <1>2, <1>3, <1>4, OllamaTypes
<1>6. \A c \in Calls : ~OwnList(c)'
  BY <1>0, <1>1 DEF OnePull, OwnList, OnWay
<1>7. OnePull'
  BY <1>2, <1>3, <1>4, <1>6 DEF OnePull, Streaming
<1>8. Clean' => Clean
  BY <1>1 DEF Clean
<1> QED BY <1>0, <1>1, <1>5, <1>7, <1>8, DrawerStays, ListStays DEF OllamaInv

\* While the stream is read: Streaming, and what is the same for each of its events.
LEMMA StreamFields ==
  ASSUME TypeOK, OnePull, Streaming
  PROVE  /\ pull \in Pulls /\ pull # NULL /\ pull.name \in Models
         /\ pull.at \in {"stream", "done"} /\ streams = 1
         /\ \A c \in Calls : ~OwnList(c)
<1>1. pull \in Pulls /\ pull # NULL
  BY OllamaTypes DEF Streaming
<1> QED BY <1>1, PullFields DEF OnePull, Streaming

\* A line of the stream.
LEMMA LineStep ==
  ASSUME OllamaInv, Line("going") \/ Line("error") \/ LastLine
  PROVE  OllamaInv'
<1>0. TypeOK /\ OnePull /\ OneDrawer /\ OneList
  BY DEF OllamaInv
<1>1. /\ Streaming /\ ~pull.said
      /\ UNCHANGED <<library, streams, orphans, mounted, list, calls, drawer, asked, mixed, confirm, crossed>>
  BY DEF Line, LastLine, serverVars, drawVars
<1>2. /\ pull \in Pulls /\ pull # NULL /\ pull.name \in Models
      /\ pull.at \in {"stream", "done"} /\ streams = 1
      /\ \A c \in Calls : ~OwnList(c)
  BY <1>0, <1>1, StreamFields
<1>3. \A c \in Calls : ~OwnList(c)'
  BY <1>1, <1>2 DEF OwnList, OnWay
<1>4. ASSUME NEW word \in {"going", "error", "success"},
             Report([progress EXCEPT ![pull.name] = word]),
             pull' \in Pulls, pull'.name = pull.name, pull'.at = pull.at,
             pull'.said <=> word # "going", pull'.bad => word = "error" /\ pull.at = "stream"
      PROVE  OllamaInv'
  <2>1. /\ progress' \in [Models -> {"none", "going", "success", "error"}]
        /\ timers' \subseteq Models
        /\ timers' = {n \in Models : progress'[n] \in {"success", "error"}}
        /\ progress'[pull.name] = word
    BY <1>0, <1>2, <1>4, Reported
  <2>2. pull' # NULL
    BY <1>4, PullFields
  <2>3. TypeOK'
    BY <1>0, <1>1, <1>4, <2>1, OllamaTypes
  <2>4. Streaming' /\ (Clean' => Clean)
    BY <1>2, <1>4, <2>2 DEF Streaming, Clean
  <2>5. OnePull'
    BY <1>1, <1>2, <1>3, <1>4, <2>1, <2>2, <2>4 DEF OnePull
  <2> QED BY <1>0, <1>1, <2>3, <2>4, <2>5, DrawerStays, ListStays DEF OllamaInv
<1>5. ASSUME NEW word \in {"going", "error"}, Line(word)
      PROVE  OllamaInv'
  <2>1. /\ pull' = [pull EXCEPT !.said = (word = "error"), !.bad = (word = "error")]
        /\ pull.at = "stream"
        /\ Report([progress EXCEPT ![pull.name] = word])
    BY <1>5 DEF Line
  <2>2. /\ pull' \in Pulls /\ pull'.name = pull.name /\ pull'.at = pull.at
        /\ pull'.said = (word = "error") /\ pull'.bad = (word = "error")
    <3> DEFINE e == word = "error"
    <3>1. e \in BOOLEAN /\ pull' = [pull EXCEPT !.said = e, !.bad = e]
      BY <2>1
    <3> HIDE DEF e
    <3>2. /\ pull' \in Pulls /\ pull'.name = pull.name /\ pull'.at = pull.at
          /\ pull'.said = e /\ pull'.bad = e
      BY <1>2, <3>1 DEF Pulls
    <3> QED BY <3>2 DEF e
  <2> QED BY <1>4, <2>1, <2>2
<1>6. CASE LastLine
  <2>1. /\ pull' = [pull EXCEPT !.said = TRUE] /\ pull.at = "done"
        /\ Report([progress EXCEPT ![pull.name] = "success"])
    BY <1>6 DEF LastLine
  <2>2. /\ pull' \in Pulls /\ pull'.name = pull.name /\ pull'.at = pull.at
        /\ pull'.said = TRUE /\ pull'.bad = pull.bad
    BY <1>2, <2>1, PullFields
  <2>3. ~pull.bad
    BY <1>0, <1>2, <2>1 DEF OnePull
  <2> QED BY <1>4, <2>1, <2>2, <2>3
<1> QED BY <1>5, <1>6

\* Ollama has the model: from here the list on the screen is behind.
LEMMA PulledStep ==
  ASSUME OllamaInv, Pulled
  PROVE  OllamaInv'
<1>0. TypeOK /\ OnePull /\ OneDrawer /\ OneList
  BY DEF OllamaInv
<1>1. /\ Streaming /\ ~pull.said /\ pull.at = "stream"
      /\ library' = library \cup {pull.name} /\ pull' = [pull EXCEPT !.at = "done"]
      /\ UNCHANGED <<streams, orphans, mounted, list, calls, progress, timers, drawer, asked, mixed, confirm,
                     crossed>>
  BY DEF Pulled, drawVars
<1>2. /\ pull \in Pulls /\ pull # NULL /\ pull.name \in Models /\ streams = 1
      /\ \A c \in Calls : ~OwnList(c)
  BY <1>0, <1>1, StreamFields
<1>3. /\ pull' \in Pulls /\ pull' # NULL /\ pull'.name = pull.name /\ pull'.at = "done"
      /\ pull'.said = pull.said /\ pull'.bad = pull.bad
  BY <1>1, <1>2, PullFields
<1>4. library' \subseteq Models
  BY <1>0, <1>1, <1>2, OllamaTypes
<1>5. TypeOK'
  BY <1>0, <1>1, <1>3, <1>4, OllamaTypes
<1>6. \A c \in Calls : /\ ~OwnList(c)' /\ (OnWay(c)' <=> OnWay(c))
                       /\ (Deleting(c)' <=> Deleting(c)) /\ (Answered(c)' => ~calls'[c].own)
  BY <1>1, <1>2 DEF OwnList, OnWay, Deleting, Answered
<1>7. OnePull'
  BY <1>0, <1>1, <1>2, <1>3, <1>6 DEF OnePull, Streaming
<1>8. ~Clean'
  BY <1>3 DEF Clean
<1>9. OneList'
  <2> SUFFICES ASSUME ~crossed' PROVE OneList'
    BY DEF OneList
  <2> QED BY <1>0, <1>1, <1>6, <1>8 DEF OneList
<1> QED BY <1>0, <1>1, <1>5, <1>7, <1>9, DrawerStays DEF OllamaInv

\* handlePull behind its loop: the stream is over, and the list is fetched unless it failed.
LEMMA EndStep ==
  ASSUME OllamaInv, End
  PROVE  OllamaInv'
<1>0. TypeOK /\ OnePull /\ OneDrawer /\ OneList
  BY DEF OllamaInv
<1>1. /\ Streaming /\ streams' = streams - 1
      /\ UNCHANGED <<library, orphans, mounted, progress, timers, drawer, asked, mixed, confirm>>
  BY DEF End, drawVars
<1>2. /\ pull \in Pulls /\ pull # NULL /\ pull.name \in Models /\ streams = 1
      /\ \A c \in Calls : ~OwnList(c)
  BY <1>0, <1>1, StreamFields
<1>3. streams' = 0
  BY <1>1, <1>2
<1>4. CASE pull.bad
  <2>1. pull' = NULL /\ UNCHANGED <<list, calls, crossed>>
    BY <1>4 DEF End
  <2>2. Clean
    BY <1>0, <1>2, <1>4 DEF OnePull, Clean
  <2>3. TypeOK'
    BY <1>0, <1>1, <1>3, <2>1, OllamaTypes
  <2>4. \A c \in Calls : ~OwnList(c)'
    BY <1>2, <2>1 DEF OwnList, OnWay
  <2>5. OnePull'
    BY <1>0, <1>1, <1>3, <2>1, <2>4 DEF OnePull, Streaming
  <2> QED BY <1>0, <1>1, <2>1, <2>2, <2>3, <2>5, DrawerStays, ListStays DEF OllamaInv
<1>5. CASE ~pull.bad
  <2>1. pull' = [pull EXCEPT !.at = "listing"] /\ list' = [list EXCEPT !.loading = TRUE]
    BY <1>5 DEF End
  <2>2. PICK c \in Calls : Send(c, Listing(TRUE))
    BY <1>5 DEF End
  <2>3. /\ calls' \in [Calls -> Listings \cup Deletions \cup {NULL}] /\ crossed' \in BOOLEAN
        /\ \A d \in Calls : OwnList(d)' => OwnList(d) \/ d = c
        /\ OneList'
    BY <1>0, <2>2, ListAsked
  <2>4. /\ pull' \in Pulls /\ pull' # NULL /\ pull'.at = "listing" /\ pull'.bad = pull.bad
    BY <1>2, <2>1, PullFields
  <2>5. list' \in [models : SUBSET Models, healthy : BOOLEAN \cup {NULL}, loading : BOOLEAN]
    BY <1>0, <2>1, ScreenFields
  <2>6. TypeOK'
    BY <1>0, <1>1, <1>3, <2>3, <2>4, <2>5, OllamaTypes
  <2>7. OnePull'
    <3>1. ~Streaming'
      BY <2>4 DEF Streaming
    <3> QED BY <1>0, <1>1, <1>2, <1>3, <1>5, <2>3, <2>4, <3>1 DEF OnePull
  <2> QED BY <1>0, <1>1, <2>3, <2>6, <2>7, DrawerStays DEF OllamaInv
<1> QED BY <1>2, <1>4, <1>5, PullFields

\* The catch of handlePull, and the timer that takes a bar away.
LEMMA BreakStep ==
  ASSUME OllamaInv, Break
  PROVE  OllamaInv'
<1>0. TypeOK /\ OnePull /\ OneDrawer /\ OneList
  BY DEF OllamaInv
<1>1. /\ Streaming /\ streams' = streams - 1 /\ pull' = NULL
      /\ crossed' = (crossed \/ pull.at = "done")
      /\ UNCHANGED <<library, mounted, list, calls, drawer, asked, mixed, confirm>>
  BY DEF Break, drawVars
<1>2. /\ pull \in Pulls /\ pull # NULL /\ pull.name \in Models /\ streams = 1
      /\ pull.at \in {"stream", "done"}
      /\ \A c \in Calls : ~OwnList(c)
  BY <1>0, <1>1, StreamFields
<1>3. /\ progress' \in [Models -> {"none", "going", "success", "error"}] /\ timers' \subseteq Models
      /\ timers' = {n \in Models : progress'[n] \in {"success", "error"}}
  BY <1>0, <1>2, Reported DEF Break
<1>4. streams' = 0 /\ crossed' \in BOOLEAN
  BY <1>0, <1>1, <1>2, OllamaTypes
<1>5. TypeOK'
  <2>1. orphans' \subseteq Models
    BY <1>0, <1>2, OllamaTypes DEF Break, Leave
  <2> QED BY <1>0, <1>1, <1>3, <1>4, <2>1, OllamaTypes
<1>6. \A c \in Calls : ~OwnList(c)'
  BY <1>1, <1>2 DEF OwnList, OnWay
<1>7. OnePull'
  BY <1>1, <1>3, <1>4, <1>6 DEF OnePull, Streaming
<1>8. OneList'
  <2>1. CASE crossed'
    BY <2>1 DEF OneList
  <2>2. CASE ~crossed'
    <3>1. Clean /\ crossed' = crossed
      BY <1>0, <1>1, <1>2, <2>2, OllamaTypes DEF Clean
    <3> QED BY <1>0, <1>1, <3>1, ListStays
  <2> QED BY <2>1, <2>2
<1> QED BY <1>0, <1>1, <1>5, <1>7, <1>8, DrawerStays DEF OllamaInv

\* Ollama-section.tsx:116: the bar that the timer takes away is not the one of a pull that runs.
LEMMA ForgetStep ==
  ASSUME OllamaInv, NEW m \in Models, Forget(m)
  PROVE  OllamaInv'
<1>0. TypeOK /\ OnePull /\ OneDrawer /\ OneList
  BY DEF OllamaInv
<1>1. /\ m \in timers
      /\ UNCHANGED <<library, streams, orphans, mounted, list, calls, pull, drawer, asked, mixed, confirm,
                     crossed>>
  BY DEF Forget, serverVars, drawVars
<1>2. /\ progress' \in [Models -> {"none", "going", "success", "error"}] /\ timers' \subseteq Models
      /\ timers' = {n \in Models : progress'[n] \in {"success", "error"}}
      /\ \A n \in Models \ {m} : progress'[n] = progress[n]
  BY <1>0, Reported DEF Forget
<1>3. TypeOK'
  BY <1>0, <1>1, <1>2, OllamaTypes
<1>4. progress[m] # "going"
  BY <1>0, <1>1 DEF OnePull
<1>5. \A c \in Calls : OwnList(c)' <=> OwnList(c)
  BY <1>1 DEF OwnList, OnWay
<1>6. OnePull'
  <2>1. Streaming' <=> Streaming
    BY <1>1 DEF Streaming
  <2>2. Streaming => pull.name \in Models
    BY <1>0, StreamFields
  <2> QED BY <1>0, <1>1, <1>2, <1>4, <1>5, <2>1, <2>2 DEF OnePull
<1>7. Clean' => Clean
  BY <1>1 DEF Clean
<1> QED BY <1>0, <1>1, <1>3, <1>6, <1>7, DrawerStays, ListStays DEF OllamaInv

\* A pull that was left behind changes the library: no list that is owed tells of it.
LEMMA LeftEndsStep ==
  ASSUME OllamaInv, NEW m \in Models, LeftEnds(m)
  PROVE  OllamaInv'
<1>0. TypeOK /\ OnePull /\ OneDrawer /\ OneList
  BY DEF OllamaInv
<1>1. /\ orphans' \subseteq orphans /\ library' \in {library, library \cup {m}}
      /\ UNCHANGED <<streams, mounted, list, calls, pull, progress, timers, drawer, asked, mixed,
                     confirm>>
  BY DEF LeftEnds, pullVars, drawVars
<1>2. crossed' = (crossed \/ (library' # library /\ (mounted \/ \E c \in Calls : OnWay(c))))
  BY DEF LeftEnds, OnWay
<1>3. TypeOK'
  <2>1. crossed' \in BOOLEAN
    BY <1>0, <1>2, OllamaTypes
  <2> QED BY <1>0, <1>1, <2>1, OllamaTypes
<1>4. (\A c \in Calls : OwnList(c)' => OwnList(c)) /\ (Clean' => Clean)
  BY <1>1 DEF OwnList, OnWay, Clean
<1>5. OneList'
  <2>1. CASE crossed'
    BY <2>1 DEF OneList
  <2>2. CASE library' = library
    BY <1>0, <1>1, <1>2, <1>4, <2>2, ListStays, OllamaTypes
  <2>3. CASE ~crossed' /\ library' # library
    <3>1. ~mounted' /\ \A c \in Calls : ~OnWay(c)'
      BY <1>1, <1>2, <2>3 DEF OnWay
    <3> QED BY <3>1 DEF OneList, Answered, Deleting
  <2> QED BY <2>1, <2>2, <2>3
<1> QED BY <1>0, <1>1, <1>3, <1>4, <1>5, PullStays, DrawerStays DEF OllamaInv

\* OllamaInv is inductive.
THEOREM OllamaInvariance == Spec => []OllamaInv
<1>1. Init => OllamaInv
  <2> SUFFICES ASSUME Init PROVE OllamaInv
    OBVIOUS
  <2>1. /\ library \in SUBSET Models /\ streams = 0 /\ orphans = {}
        /\ mounted = FALSE /\ list = Fresh /\ calls = [c \in Calls |-> NULL]
        /\ pull = NULL /\ progress = Empty /\ timers = {}
        /\ drawer = Closed /\ asked = [m \in Models |-> 0] /\ confirm = NULL
        /\ crossed = FALSE /\ mixed = FALSE
    BY DEF Init
  <2>2. list \in [models : SUBSET Models, healthy : BOOLEAN \cup {NULL}, loading : BOOLEAN]
    BY <2>1 DEF Fresh
  <2>3. drawer \in [model : Models \cup {NULL}, data : Models \cup {NULL}, loading : BOOLEAN]
        /\ drawer.model = NULL
    BY <2>1 DEF Closed
  <2>4. /\ progress \in [Models -> {"none", "going", "success", "error"}]
        /\ asked \in [Models -> Nat] /\ calls \in [Calls -> Listings \cup Deletions \cup {NULL}]
    BY <2>1 DEF Empty
  <2>5. streams \in 0 .. 1
    BY <2>1
  <2>6. TypeOK
    BY <2>1, <2>2, <2>3, <2>4, <2>5, OllamaTypes, Zenon
  <2>7. \A c \in Calls : ~OnWay(c) /\ ~OwnList(c) /\ ~Answered(c) /\ ~Deleting(c)
    BY <2>1 DEF OnWay, OwnList, Answered, Deleting
  <2>8. OnePull
    BY <2>1, <2>7 DEF OnePull, Streaming, Empty
  <2>9. OneDrawer
    BY <2>3 DEF OneDrawer
  <2>10. OneList
    BY <2>1, <2>7 DEF OneList
  <2> QED BY <2>6, <2>8, <2>9, <2>10 DEF OllamaInv
<1>2. OllamaInv /\ [Next]_vars => OllamaInv'
  <2> SUFFICES ASSUME OllamaInv, [Next]_vars PROVE OllamaInv'
    OBVIOUS
  <2>1. CASE UNCHANGED vars
    <3>0. TypeOK /\ OnePull /\ OneDrawer /\ OneList
      BY DEF OllamaInv
    <3>1. UNCHANGED <<library, streams, orphans, mounted, list, calls, pull, progress, timers, drawer, asked,
                      mixed, confirm, clicks, crossed>>
      BY <2>1 DEF vars, serverVars, pullVars, drawVars
    <3>2. TypeOK'
      BY <3>0, <3>1, OllamaTypes
    <3>3. (\A c \in Calls : OwnList(c)' => OwnList(c)) /\ (Clean' => Clean)
      BY <3>1 DEF OwnList, OnWay, Clean
    <3> QED BY <3>0, <3>1, <3>2, <3>3, PullStays, DrawerStays, ListStays DEF OllamaInv
  <2>2. CASE Mount \/ Unmount \/ Refresh
    BY <2>2, WindowSteps
  <2>3. CASE \/ Cancel \/ CloseDrawer
             \/ \E m \in Models : AskDelete(m) \/ OpenDrawer(m) \/ Details(m)
    BY <2>3, DrawerSteps
  <2>4. CASE \E c \in Calls : ServeList(c) \/ ServeDelete(c) \/ ListArrives(c) \/ DeleteArrives(c)
    BY <2>4, ServeListStep, ServeDeleteStep, ListArrivesStep, DeleteArrivesStep
  <2>5. CASE \/ Delete \/ Line("going") \/ Line("error") \/ Pulled \/ LastLine \/ End \/ Break
             \/ \E m \in Models : Pull(m) \/ Forget(m) \/ LeftEnds(m)
    BY <2>5, DeleteStep, LineStep, PulledStep, EndStep, BreakStep, PullStep, ForgetStep, LeftEndsStep
  <2> QED BY <2>1, <2>2, <2>3, <2>4, <2>5 DEF Next
<1> QED BY <1>1, <1>2, PTL DEF Spec

\* ollama-section.tsx: whatever is pulled, minimised and opened again, and whatever goes on at
\* Ollama behind it, the page never reads two pulls, and the bar of the one it reads is there.
THEOREM PullSafe == Spec => []OnePullAtATime
<1>1. OllamaInv => OnePullAtATime
  <2> SUFFICES ASSUME OllamaInv PROVE OnePullAtATime
    OBVIOUS
  <2>1. Streaming => pull.name \in Models
    BY StreamFields DEF OllamaInv
  <2> QED BY <2>1 DEF OllamaInv, OnePull, OnePullAtATime, Bars
<1> QED BY <1>1, OllamaInvariance, PTL

\* ollama-section.tsx: the drawer that is open for a model tells of that model, as long as
\* no two are asked for at once.
THEOREM DrawerSafe == Spec => []DrawerTellsOfItsModel
<1>1. OllamaInv => DrawerTellsOfItsModel
  BY DEF OllamaInv, OneDrawer, DrawerTellsOfItsModel, Told
<1> QED BY <1>1, OllamaInvariance, PTL

\* ollama-section.tsx: when nothing is under way any more the list is the one at Ollama,
\* whatever was pulled, deleted, put back or lost on the way, if the calls did not overlap.
THEOREM ListSafe == Spec => []ListIsLibrary
<1>1. OllamaInv => ListIsLibrary
  <2> SUFFICES ASSUME OllamaInv, mounted, Badge = "online", pull = NULL,
                      \A c \in Calls : calls[c] = NULL, ~crossed
               PROVE  list.models = library
    BY DEF ListIsLibrary
  <2>1. list.healthy = TRUE
    <3>1. list.healthy \in BOOLEAN \cup {NULL}
      BY ScreenFields DEF OllamaInv
    <3>2. list.healthy # NULL /\ list.healthy # FALSE
      BY OllamaAssumption DEF Badge
    <3> QED BY <3>1, <3>2
  <2> QED BY <2>1 DEF OllamaInv, OneList, Clean, OnWay
<1> QED BY <1>1, OllamaInvariance, PTL

-----------------------------------------------------------------------------
(* The way in.                                                             *)

Wizards == [step : {"collect", "confirm", "account", "totp", "done"}, points : Nat, done : BOOLEAN,
            entropy : Keys \cup {NULL}, recovery : [key : Keys, sum : Keys] \cup {NULL},
            saved : BOOLEAN]

PortalTyped == P!TypeOK /\ wizard \in Wizards /\ call \in P!Fetches \cup {NULL}

\* Which calls a page may be waiting for.
CallFits ==
  call # NULL =>
    /\ call.kind \in {"setup", "secret"} => page = "setup" /\ wizard.step = "account"
    /\ call.kind = "verify"              => page = "setup" /\ wizard.step = "totp"
    /\ call.kind \in {"login", "second"} => page = "login"
    /\ call.state = "hashing"            => call.kind = "setup"

\* One key is derived, after the bar was filled, and it is the one the wizard goes on with.
OneKey ==
  /\ \A k \in Keys : deriving[k] # "none" =>
       /\ page = "setup" /\ wizard.step = "collect" /\ wizard.done
       /\ \A j \in Keys : deriving[j] # "none" => j = k
       /\ deriving[k] = "encode" => wizard.entropy = k
  /\ wizard.step # "collect" =>
       /\ page = "setup" /\ wizard.entropy \in Keys
       /\ wizard.recovery = P!RecoveryKey(P!Entropy(wizard.entropy))
  /\ wizard.step \in {"account", "totp", "done"} => kept = wizard.recovery

\* The server keeps the key of this wizard once its request was the last, or the only one.
KeyStored ==
  ~raced =>
    /\ call # NULL /\ call.kind = "setup" /\ call.state = "hashing" => server.key = wizard.entropy
    /\ \/ call # NULL /\ call.kind = "setup" /\ call.state = "ok"
       \/ call # NULL /\ call.kind \in {"secret", "verify"}
       \/ wizard.step \in {"totp", "done"}
       => server.done /\ server.key = wizard.entropy

PortalInv == PortalTyped /\ CallFits /\ OneKey /\ KeyStored

\* The conjuncts of the portal's type invariant one by one, and so in the next state.
LEMMA PortalTypes ==
  /\ PortalTyped <=>
       /\ server \in [done : BOOLEAN, key : Keys \cup {NULL}, totp : {"off", "pending", "on"}]
       /\ rival \in Keys \cup {"none", "over"}
       /\ secure \in BOOLEAN /\ cookie \in BOOLEAN /\ redirect \in BOOLEAN /\ raced \in BOOLEAN
       /\ page \in {"login", "setup", "home"}
       /\ status \in {"sent", "complete", "incomplete", "unauthorized", "none", "lost"}
       /\ wizard.step \in {"collect", "confirm", "account", "totp", "done"} /\ wizard \in Wizards
       /\ deriving \in [Keys -> {"none", "hash", "encode"}] /\ login \in {"credentials", "totp"}
       /\ call \in P!Fetches \cup {NULL}
  /\ PortalTyped' <=>
       /\ server' \in [done : BOOLEAN, key : Keys \cup {NULL}, totp : {"off", "pending", "on"}]
       /\ rival' \in Keys \cup {"none", "over"}
       /\ secure' \in BOOLEAN /\ cookie' \in BOOLEAN /\ redirect' \in BOOLEAN /\ raced' \in BOOLEAN
       /\ page' \in {"login", "setup", "home"}
       /\ status' \in {"sent", "complete", "incomplete", "unauthorized", "none", "lost"}
       /\ wizard'.step \in {"collect", "confirm", "account", "totp", "done"} /\ wizard' \in Wizards
       /\ deriving' \in [Keys -> {"none", "hash", "encode"}] /\ login' \in {"credentials", "totp"}
       /\ call' \in P!Fetches \cup {NULL}
<1>1. \A X : {secure, cookie, redirect, raced} \subseteq X
         <=> secure \in X /\ cookie \in X /\ redirect \in X /\ raced \in X
  BY Zenon
<1>2. \A X : {secure', cookie', redirect', raced'} \subseteq X
         <=> secure' \in X /\ cookie' \in X /\ redirect' \in X /\ raced' \in X
  BY Zenon
<1>3. (P!TypeOK)' <=>
        /\ server' \in [done : BOOLEAN, key : Keys \cup {NULL}, totp : {"off", "pending", "on"}]
        /\ rival' \in Keys \cup {"none", "over"}
        /\ {secure', cookie', redirect', raced'} \subseteq BOOLEAN
        /\ page' \in {"login", "setup", "home"}
        /\ status' \in {"sent", "complete", "incomplete", "unauthorized", "none", "lost"}
        /\ wizard'.step \in {"collect", "confirm", "account", "totp", "done"}
        /\ deriving' \in [Keys -> {"none", "hash", "encode"}] /\ login' \in {"credentials", "totp"}
  BY Zenon DEF P!TypeOK
<1> QED BY <1>1, <1>2, <1>3, Zenon DEF P!TypeOK, PortalTyped

\* What is known of a wizard, and what its steps make of it.
LEMMA WizardFields ==
  ASSUME NEW w \in Wizards
  PROVE  /\ w.step \in {"collect", "confirm", "account", "totp", "done"} /\ w.points \in Nat
         /\ w.done \in BOOLEAN /\ w.entropy \in Keys \cup {NULL} /\ w.saved \in BOOLEAN
         /\ w.recovery \in [key : Keys, sum : Keys] \cup {NULL}
         /\ \A s \in {"collect", "confirm", "account", "totp", "done"} :
              LET v == [w EXCEPT !.step = s]
              IN  /\ v \in Wizards /\ v.step = s /\ v.done = w.done
                  /\ v.entropy = w.entropy /\ v.recovery = w.recovery
BY DEF Wizards

\* A call, and its answer.
LEMMA CallForms ==
  /\ \A kind \in {"setup", "secret", "verify", "login", "second"} :
       P!Fetch(kind) => call' \in P!Fetches /\ call' # NULL /\ call'.kind = kind /\ call'.state = "sent"
  /\ \A s \in {"sent", "hashing", "ok", "totp", "error"} : call \in P!Fetches /\ P!Answers(s) =>
       call' \in P!Fetches /\ call' # NULL /\ call'.kind = call.kind /\ call'.state = s
  /\ call \in P!Fetches => /\ call # NULL
                         /\ call.kind \in {"setup", "secret", "verify", "login", "second"}
                         /\ call.state \in {"sent", "hashing", "ok", "totp", "error"}
<1>1. \A x \in P!Fetches : x # NULL
  BY DeskAssumption
<1>2. ASSUME NEW kind \in {"setup", "secret", "verify", "login", "second"}, P!Fetch(kind)
      PROVE  call' \in P!Fetches /\ call'.kind = kind /\ call'.state = "sent"
  BY <1>2 DEF P!Fetch, P!Fetches
<1>3. ASSUME NEW s \in {"sent", "hashing", "ok", "totp", "error"}, call \in P!Fetches, P!Answers(s)
      PROVE  call' \in P!Fetches /\ call'.kind = call.kind /\ call'.state = s
  BY <1>3 DEF P!Answers, P!Fetches
<1>4. call \in P!Fetches => /\ call.kind \in {"setup", "secret", "verify", "login", "second"}
                          /\ call.state \in {"sent", "hashing", "ok", "totp", "error"}
  BY DEF P!Fetches
<1> QED BY <1>1, <1>2, <1>3, <1>4

\* The parts of PortalInv stay while nothing they are about changes.
LEMMA CallStays ==
  ASSUME CallFits, UNCHANGED <<call, page, wizard>>
  PROVE  CallFits'
BY DEF CallFits

\* OneKey stays while nothing is derived and the wizard stays where it is.
LEMMA KeyStays ==
  ASSUME OneKey, UNCHANGED <<deriving, page, wizard, kept>>
  PROVE  OneKey'
BY DEF OneKey, P!RecoveryKey, P!Entropy

\* KeyStored stays while neither the server nor the call changes.
LEMMA StoreStays ==
  ASSUME KeyStored, UNCHANGED <<raced, call, wizard, server>>
  PROVE  KeyStored'
BY DEF KeyStored

\* While the wizard waits for no answer of its own it has no call.
LEMMA NoCall ==
  ASSUME PortalTyped, CallFits
  PROVE  /\ page = "setup" /\ wizard.step \in {"collect", "confirm", "done"} => call = NULL
         /\ page = "home" => call = NULL
<1>1. call = NULL \/ call.kind \in {"setup", "secret", "verify", "login", "second"}
  BY PortalTypes, CallForms
<1> QED BY <1>1 DEF CallFits

\* A page that is loaded begins anew: nothing is owed of it.
LEMMA Loaded ==
  ASSUME PortalInv, NEW p \in {"login", "setup", "home"}, P!Loads(p),
         UNCHANGED <<server, rival, secure, raced>>, cookie' \in BOOLEAN
  PROVE  PortalInv'
<1>1. /\ page' = p /\ wizard' = P!Fresh /\ deriving' = P!Idle /\ login' = "credentials"
      /\ kept' = NULL /\ redirect' = FALSE /\ call' = NULL /\ status' \in {"sent", "none"}
  BY DEF P!Loads
<1>2. wizard' \in Wizards /\ wizard'.step = "collect"
  BY <1>1 DEF Wizards, P!Fresh
<1>3. deriving' \in [Keys -> {"none", "hash", "encode"}] /\ \A k \in Keys : deriving'[k] = "none"
  BY <1>1 DEF P!Idle
<1>4. PortalTyped'
  BY <1>1, <1>2, <1>3, PortalTypes DEF PortalInv
<1>5. CallFits' /\ OneKey' /\ KeyStored'
  BY <1>1, <1>2, <1>3 DEF CallFits, OneKey, KeyStored
<1> QED BY <1>4, <1>5 DEF PortalInv

\* The status of the setup, and where it sends the page.
LEMMA StatusSteps ==
  ASSUME PortalInv, P!StatusServed \/ P!StatusArrives
  PROVE  PortalInv'
<1>0. PortalTyped /\ CallFits /\ OneKey /\ KeyStored
  BY DEF PortalInv
<1>1. ASSUME UNCHANGED <<server, rival, secure, cookie, redirect, raced, page, wizard, deriving, login,
                         call, kept>>,
             status' \in {"sent", "complete", "incomplete", "unauthorized", "none", "lost"}
      PROVE  PortalInv'
  <2>1. PortalTyped'
    BY <1>0, <1>1, PortalTypes
  <2> QED BY <1>0, <1>1, <2>1, CallStays, KeyStays, StoreStays DEF PortalInv
<1>2. CASE P!StatusServed
  BY <1>1, <1>2 DEF P!StatusServed, P!Answer, P!netVars, P!wizardVars
<1>3. CASE P!StatusArrives
  <2>1. UNCHANGED <<server, rival, secure, cookie, raced>> /\ cookie \in BOOLEAN
    BY <1>0, <1>3, PortalTypes DEF P!StatusArrives, P!netVars
  <2>2. \/ P!Loads("login") \/ P!Loads("setup")
        \/ status' = "none" /\ UNCHANGED <<page, wizard, deriving, kept, login, call, redirect>>
    BY <1>3 DEF P!StatusArrives, P!wizardVars
  <2>3. CASE P!Loads("login") \/ P!Loads("setup")
    BY <2>1, <2>3, Loaded
  <2> QED BY <1>1, <2>1, <2>2, <2>3
<1> QED BY <1>2, <1>3

\* A page is visited, left or logged out of.
LEMMA LoadSteps ==
  ASSUME PortalInv,
         \/ \E p \in {"login", "setup", "home"} : P!Visit(p)
         \/ P!Redirect \/ P!Logout
  PROVE  PortalInv'
<1>1. \A p \in {"login", "setup", "home"} : P!Guarded(p) \in {"login", "setup", "home"}
  BY DEF P!Guarded
<1>2. /\ UNCHANGED <<server, rival, secure, raced>> /\ cookie' \in {cookie, FALSE}
      /\ \E p \in {"login", "setup", "home"} : P!Loads(p)
  BY <1>1 DEF P!Visit, P!Redirect, P!Logout, P!netVars
<1>3. cookie \in BOOLEAN
  BY PortalTypes DEF PortalInv
<1> QED BY <1>2, <1>3, Loaded

\* The mouse moves: only the point that fills the bar begins to derive a key.
LEMMA MoveStep ==
  ASSUME PortalInv, P!Move
  PROVE  PortalInv'
<1>0. PortalTyped /\ CallFits /\ OneKey /\ KeyStored
  BY DEF PortalInv
<1>1. /\ page = "setup" /\ wizard.step = "collect"
      /\ UNCHANGED <<server, rival, secure, cookie, redirect, raced, page, status, login, call, kept>>
  BY DEF P!Move, P!netVars
<1> DEFINE b == wizard.done \/ P!Fills(wizard)
<1>2. b \in BOOLEAN /\ wizard' = [wizard EXCEPT !.points = wizard.points + 1, !.done = b]
  BY DEF P!Move
<1> HIDE DEF b
<1>3. /\ wizard \in Wizards /\ wizard' \in Wizards /\ wizard'.step = "collect" /\ wizard'.done = b
      /\ wizard'.entropy = wizard.entropy /\ wizard'.recovery = wizard.recovery
  <2>1. wizard \in Wizards
    BY <1>0, PortalTypes
  <2>2. wizard.points + 1 \in Nat
    BY <2>1 DEF Wizards
  <2> QED BY <1>1, <1>2, <2>1, <2>2 DEF Wizards
<1>4. deriving \in [Keys -> {"none", "hash", "encode"}] /\ wizard.done \in BOOLEAN
  BY <1>0, <1>3, PortalTypes, WizardFields
<1>5. ~wizard.done /\ \A k \in Keys : deriving[k] = "none"
  <2>1. ~wizard.done
    BY DEF P!Move, P!Fills
  <2> QED BY <1>0, <2>1 DEF OneKey
<1>6. /\ deriving' \in [Keys -> {"none", "hash", "encode"}]
      /\ \A k \in Keys : deriving'[k] # "none" =>
           b /\ deriving'[k] = "hash" /\ \A j \in Keys : deriving'[j] # "none" => j = k
  <2>1. CASE P!Fills(wizard) /\ secure
    <3>1. PICK i \in Keys : deriving' = [deriving EXCEPT ![i] = "hash"]
      BY <2>1 DEF P!Move
    <3> QED BY <1>4, <1>5, <2>1, <3>1 DEF b
  <2>2. CASE ~(P!Fills(wizard) /\ secure)
    <3>1. deriving' = deriving
      BY <2>2 DEF P!Move
    <3> QED BY <1>4, <1>5, <3>1
  <2> QED BY <2>1, <2>2
<1>7. call = NULL
  BY <1>0, <1>1, NoCall
<1>8. PortalTyped'
  BY <1>0, <1>1, <1>3, <1>6, PortalTypes
<1>9. CallFits' /\ KeyStored'
  BY <1>1, <1>3, <1>7 DEF CallFits, KeyStored
<1>10. OneKey'
  BY <1>1, <1>3, <1>6 DEF OneKey
<1> QED BY <1>8, <1>9, <1>10 DEF PortalInv

\* handleEntropyComplete: the key that was derived, and no other, becomes the wizard's.
LEMMA DeriveSteps ==
  ASSUME PortalInv, NEW k \in Keys, P!Derived(k) \/ P!Encoded(k)
  PROVE  PortalInv'
<1>0. PortalTyped /\ CallFits /\ OneKey /\ KeyStored
  BY DEF PortalInv
<1>1. /\ deriving[k] # "none"
      /\ UNCHANGED <<server, rival, secure, cookie, redirect, raced, page, status, login, call, kept>>
  BY DEF P!Derived, P!Encoded, P!netVars
<1>2. /\ page = "setup" /\ wizard.step = "collect" /\ wizard.done
      /\ \A j \in Keys : deriving[j] # "none" => j = k
      /\ deriving[k] = "encode" => wizard.entropy = k
  BY <1>0, <1>1 DEF OneKey
<1>3. wizard \in Wizards /\ deriving \in [Keys -> {"none", "hash", "encode"}]
  BY <1>0, PortalTypes
<1>4. call = NULL
  BY <1>0, <1>2, NoCall
<1>5. CASE P!Derived(k)
  <2>1. /\ wizard' = [wizard EXCEPT !.entropy = k]
        /\ deriving' = [deriving EXCEPT ![k] = "encode"]
    BY <1>5 DEF P!Derived
  <2>2. wizard' \in Wizards /\ wizard'.step = "collect" /\ wizard'.done /\ wizard'.entropy = k
    BY <1>2, <1>3, <2>1 DEF Wizards
  <2>3. /\ deriving' \in [Keys -> {"none", "hash", "encode"}]
        /\ \A j \in Keys : deriving'[j] # "none" => j = k
    BY <1>2, <1>3, <2>1
  <2>4. PortalTyped'
    BY <1>0, <1>1, <2>2, <2>3, PortalTypes
  <2>5. OneKey'
    BY <1>1, <1>2, <2>2, <2>3 DEF OneKey
  <2> QED BY <1>1, <1>4, <2>2, <2>4, <2>5 DEF PortalInv, CallFits, KeyStored
<1>6. CASE P!Encoded(k)
  <2>1. /\ wizard' = [wizard EXCEPT !.recovery = P!RecoveryKey(P!Entropy(k)), !.step = "confirm"]
        /\ deriving' = [deriving EXCEPT ![k] = "none"] /\ deriving[k] = "encode"
    BY <1>6 DEF P!Encoded
  <2>2. /\ wizard' \in Wizards /\ wizard'.step = "confirm" /\ wizard'.entropy = k
        /\ wizard'.recovery = P!RecoveryKey(P!Entropy(k))
    <3> DEFINE r == P!RecoveryKey(P!Entropy(k))
    <3>1. r \in [key : Keys, sum : Keys]
      BY DEF P!RecoveryKey, P!Entropy
    <3> HIDE DEF r
    <3>2. wizard' = [wizard EXCEPT !.recovery = r, !.step = "confirm"]
      BY <2>1 DEF r
    <3>3. wizard' \in Wizards /\ wizard'.step = "confirm" /\ wizard'.entropy = k
          /\ wizard'.recovery = r
      BY <1>2, <1>3, <2>1, <3>1, <3>2 DEF Wizards
    <3> QED BY <3>3 DEF r
  <2>3. /\ deriving' \in [Keys -> {"none", "hash", "encode"}]
        /\ \A j \in Keys : deriving'[j] = "none"
    BY <1>2, <1>3, <2>1
  <2>4. PortalTyped'
    BY <1>0, <1>1, <2>2, <2>3, PortalTypes
  <2>5. (wizard.recovery = P!RecoveryKey(P!Entropy(wizard.entropy)))'
    BY <2>2 DEF P!RecoveryKey, P!Entropy
  <2>6. OneKey'
    BY <1>1, <1>2, <2>2, <2>3, <2>5 DEF OneKey
  <2> QED BY <1>1, <1>4, <2>2, <2>4, <2>6 DEF PortalInv, CallFits, KeyStored
<1> QED BY <1>5, <1>6

\* The step of the wizard changes, or the box, while its keys stay.
LEMMA WizardGoes ==
  ASSUME PortalTyped, OneKey, wizard.step # "collect",
         wizard' \in Wizards, wizard'.step # "collect",
         wizard'.entropy = wizard.entropy, wizard'.recovery = wizard.recovery,
         UNCHANGED <<deriving, page>>,
         wizard'.step \in {"account", "totp", "done"} => kept' = wizard.recovery
  PROVE  OneKey'
<1>1. \A k \in Keys : deriving'[k] = "none"
  BY DEF OneKey
<1>2. (wizard.recovery = P!RecoveryKey(P!Entropy(wizard.entropy)))'
  BY DEF OneKey, P!RecoveryKey, P!Entropy
<1> QED BY <1>1, <1>2 DEF OneKey

\* Clicks on the wizard: the box, "continue", "back" and "skip".
LEMMA WizardSteps ==
  ASSUME PortalInv, P!Tick \/ P!Continue \/ P!Back \/ P!Skip
  PROVE  PortalInv'
<1>0. PortalTyped /\ CallFits /\ OneKey /\ KeyStored
  BY DEF PortalInv
<1>1. /\ page = "setup"
      /\ UNCHANGED <<server, rival, secure, cookie, redirect, raced, page, status, deriving, login,
                     call>>
  BY DEF P!Tick, P!Continue, P!Back, P!Skip, P!Form, P!Pairing, P!netVars
<1>2. wizard \in Wizards /\ kept \in {kept, NULL}
  BY <1>0, PortalTypes
<1>3. call = NULL
  BY <1>0, NoCall DEF P!Tick, P!Continue, P!Back, P!Skip, P!Form, P!Pairing
<1>4. ASSUME NEW s \in {"confirm", "account", "done"}, wizard' \in Wizards, wizard'.step = s,
             wizard'.entropy = wizard.entropy, wizard'.recovery = wizard.recovery,
             wizard.step # "collect", s = "done" => wizard.step = "totp",
             s \in {"account", "done"} => kept' = wizard.recovery
      PROVE  PortalInv'
  <2>1. PortalTyped'
    BY <1>0, <1>1, <1>4, PortalTypes
  <2>2. OneKey'
    BY <1>0, <1>1, <1>4, WizardGoes
  <2>3. KeyStored'
    BY <1>0, <1>1, <1>3, <1>4 DEF KeyStored
  <2> QED BY <1>1, <1>3, <2>1, <2>2, <2>3 DEF PortalInv, CallFits
<1>5. CASE P!Tick
  <2>1. wizard.saved \in BOOLEAN /\ (~wizard.saved) \in BOOLEAN
    BY <1>2, WizardFields
  <2>2. wizard.step = "confirm" /\ wizard' = [wizard EXCEPT !.saved = ~wizard.saved]
    BY <1>5 DEF P!Tick
  <2>3. /\ wizard' \in Wizards /\ wizard'.step = "confirm"
        /\ wizard'.entropy = wizard.entropy /\ wizard'.recovery = wizard.recovery
    BY <1>2, <2>1, <2>2 DEF Wizards
  <2> QED BY <1>4, <2>2, <2>3
<1>6. CASE P!Continue
  <2>1. /\ wizard.step = "confirm" /\ wizard' = [wizard EXCEPT !.step = "account"]
        /\ kept' = wizard.recovery
    BY <1>6 DEF P!Continue
  <2>2. /\ wizard' \in Wizards /\ wizard'.step = "account"
        /\ wizard'.entropy = wizard.entropy /\ wizard'.recovery = wizard.recovery
    BY <1>2, <2>1, WizardFields
  <2> QED BY <1>4, <2>1, <2>2
<1>7. CASE P!Back
  <2>1. wizard.step = "account" /\ wizard' = [wizard EXCEPT !.step = "confirm"]
    BY <1>7 DEF P!Back, P!Form
  <2>2. /\ wizard' \in Wizards /\ wizard'.step = "confirm"
        /\ wizard'.entropy = wizard.entropy /\ wizard'.recovery = wizard.recovery
    BY <1>2, <2>1, WizardFields
  <2> QED BY <1>4, <2>1, <2>2
<1>8. CASE P!Skip
  <2>1. wizard.step = "totp" /\ wizard' = [wizard EXCEPT !.step = "done"] /\ kept' = kept
    BY <1>8 DEF P!Skip, P!Pairing
  <2>2. /\ wizard' \in Wizards /\ wizard'.step = "done"
        /\ wizard'.entropy = wizard.entropy /\ wizard'.recovery = wizard.recovery
    BY <1>2, <2>1, WizardFields
  <2>3. kept' = wizard.recovery
    BY <1>0, <2>1 DEF OneKey
  <2> QED BY <1>4, <2>1, <2>2, <2>3
<1> QED BY <1>5, <1>6, <1>7, <1>8

\* The forms of the pages: a call is made, and nothing else changes.
LEMMA FormSteps ==
  ASSUME PortalInv, P!Submit \/ P!Verify \/ P!Credentials \/ P!SecondFactor \/ P!BackToCredentials
  PROVE  PortalInv'
<1>0. PortalTyped /\ CallFits /\ OneKey /\ KeyStored
  BY DEF PortalInv
<1>1. UNCHANGED <<server, rival, secure, cookie, redirect, raced, page, status, wizard, deriving, kept>>
  BY DEF P!Submit, P!Verify, P!Credentials, P!SecondFactor, P!BackToCredentials, P!netVars,
         P!wizardVars
<1>2. OneKey'
  BY <1>0, <1>1, KeyStays
<1>3. ASSUME NEW kind \in {"setup", "verify", "login", "second"}, P!Fetch(kind), login' = login,
             kind = "setup"  => page = "setup" /\ wizard.step = "account",
             kind = "verify" => page = "setup" /\ wizard.step = "totp",
             kind \in {"login", "second"} => page = "login"
      PROVE  PortalInv'
  <2>1. call' \in P!Fetches /\ call' # NULL /\ call'.kind = kind /\ call'.state = "sent"
    BY <1>3, CallForms
  <2>2. PortalTyped'
    BY <1>0, <1>1, <1>3, <2>1, PortalTypes
  <2>3. CallFits'
    BY <1>1, <1>3, <2>1 DEF CallFits
  <2>4. KeyStored'
    BY <1>0, <1>1, <1>3, <2>1 DEF KeyStored
  <2> QED BY <1>2, <2>2, <2>3, <2>4 DEF PortalInv
<1>4. CASE P!Submit
  BY <1>3, <1>4 DEF P!Submit, P!Form
<1>5. CASE P!Verify
  BY <1>3, <1>5 DEF P!Verify, P!Pairing
<1>6. CASE P!Credentials
  BY <1>3, <1>6 DEF P!Credentials, P!LoginForm
<1>7. CASE P!SecondFactor
  BY <1>3, <1>7 DEF P!SecondFactor, P!LoginForm
<1>8. CASE P!BackToCredentials
  <2>1. login' = "credentials" /\ call' = call
    BY <1>8 DEF P!BackToCredentials
  <2>2. PortalTyped'
    BY <1>0, <1>1, <2>1, PortalTypes
  <2> QED BY <1>0, <1>1, <1>2, <2>1, <2>2, CallStays, StoreStays DEF PortalInv
<1> QED BY <1>4, <1>5, <1>6, <1>7, <1>8

\* app/setup/page.tsx: what an answer makes of the wizard.
LEMMA AnswerOfWizardStep ==
  ASSUME PortalInv, P!AnswerOfWizard
  PROVE  PortalInv'
<1>0. PortalTyped /\ CallFits /\ OneKey /\ KeyStored
  BY DEF PortalInv
<1>1. /\ call # NULL /\ page = "setup" /\ call.state \in {"ok", "error"}
      /\ UNCHANGED <<server, rival, secure, cookie, raced, page, status, deriving, login, kept>>
  BY DEF P!AnswerOfWizard, P!netVars
<1>2. wizard \in Wizards /\ redirect \in BOOLEAN /\ call \in P!Fetches
  BY <1>0, <1>1, PortalTypes
<1>3. CASE call.kind = "setup" /\ call.state = "ok" /\ P!Fetch("secret") /\ UNCHANGED <<wizard, redirect>>
  <2>1. call' \in P!Fetches /\ call' # NULL /\ call'.kind = "secret" /\ call'.state = "sent"
    BY <1>3, CallForms
  <2>2. PortalTyped'
    BY <1>0, <1>1, <1>3, <2>1, PortalTypes
  <2>3. CallFits'
    BY <1>0, <1>1, <1>3, <2>1 DEF CallFits
  <2>4. KeyStored'
    BY <1>0, <1>1, <1>3, <2>1 DEF KeyStored
  <2> QED BY <1>0, <1>1, <1>3, <2>2, <2>3, <2>4, KeyStays DEF PortalInv
<1>4. ASSUME NEW s \in {"totp", "done"}, wizard' = [wizard EXCEPT !.step = s], call' = NULL,
             redirect' \in BOOLEAN,
             \/ call.kind = "secret"
             \/ call.kind = "verify"
      PROVE  PortalInv'
  <2>1. /\ wizard' \in Wizards /\ wizard'.step = s
        /\ wizard'.entropy = wizard.entropy /\ wizard'.recovery = wizard.recovery
    BY <1>2, <1>4 DEF Wizards
  <2>2. PortalTyped'
    BY <1>0, <1>1, <1>4, <2>1, PortalTypes
  <2>3. wizard.step \in {"account", "totp"}
    BY <1>0, <1>1, <1>4 DEF CallFits
  <2>4. kept' = wizard.recovery
    BY <1>0, <1>1, <2>3 DEF OneKey
  <2>5. OneKey'
    BY <1>0, <1>1, <2>1, <2>3, <2>4, WizardGoes
  <2>6. KeyStored'
    BY <1>0, <1>1, <1>4, <2>1 DEF KeyStored
  <2> QED BY <1>4, <2>2, <2>5, <2>6 DEF PortalInv, CallFits
<1>5. CASE call.kind = "secret"
  <2>1. /\ call' = NULL /\ redirect' = (call.state = "error")
        /\ wizard' = [wizard EXCEPT !.step = IF call.state = "ok" THEN "totp" ELSE "done"]
    BY <1>5 DEF P!AnswerOfWizard
  <2>2. (IF call.state = "ok" THEN "totp" ELSE "done") \in {"totp", "done"} /\ redirect' \in BOOLEAN
    BY <2>1
  <2> QED BY <1>4, <1>5, <2>1, <2>2
<1>6. CASE call.kind = "verify" /\ call.state = "ok"
  <2>1. call' = NULL /\ redirect' \in BOOLEAN /\ wizard' = [wizard EXCEPT !.step = "done"]
    BY <1>2, <1>6 DEF P!AnswerOfWizard
  <2> QED BY <1>4, <1>6, <2>1
<1>7. CASE call' = NULL /\ UNCHANGED <<wizard, redirect>>
  <2>1. PortalTyped'
    BY <1>0, <1>1, <1>7, PortalTypes
  <2>2. KeyStored'
    BY <1>0, <1>1, <1>7 DEF KeyStored
  <2> QED BY <1>0, <1>1, <1>7, <2>1, <2>2, KeyStays DEF PortalInv, CallFits
<1> QED BY <1>3, <1>5, <1>6, <1>7 DEF P!AnswerOfWizard

\* app/login/page.tsx: a session, the second factor, or an error on the page.
LEMMA AnswerOfLoginStep ==
  ASSUME PortalInv, P!AnswerOfLogin
  PROVE  PortalInv'
<1>0. PortalTyped /\ CallFits /\ OneKey /\ KeyStored
  BY DEF PortalInv
<1>1. UNCHANGED <<server, rival, secure, cookie, raced>> /\ cookie \in BOOLEAN
  BY <1>0, PortalTypes DEF P!AnswerOfLogin, P!netVars
<1>2. CASE P!Loads(P!Guarded("home"))
  <2>1. P!Guarded("home") \in {"login", "setup", "home"}
    BY DEF P!Guarded
  <2> QED BY <1>1, <1>2, <2>1, Loaded
<1>3. CASE /\ call' = NULL /\ login' \in {"totp", login}
           /\ UNCHANGED <<page, status, wizard, deriving, kept, redirect>>
  <2>1. PortalTyped'
    BY <1>0, <1>1, <1>3, PortalTypes
  <2>2. KeyStored'
    BY <1>0, <1>1, <1>3 DEF KeyStored
  <2> QED BY <1>0, <1>1, <1>3, <2>1, <2>2, KeyStays DEF PortalInv, CallFits
<1> QED BY <1>2, <1>3 DEF P!AnswerOfLogin, P!wizardVars

\* What the server keeps is a record, and each route sets one field of it.
LEMMA ServerFields ==
  ASSUME PortalTyped, NEW k \in Keys \cup {NULL}
  PROVE  /\ server.done \in BOOLEAN /\ server.key \in Keys \cup {NULL}
         /\ LET s == [server EXCEPT !.key = k]
            IN  /\ s \in [done : BOOLEAN, key : Keys \cup {NULL}, totp : {"off", "pending", "on"}]
                /\ s.key = k /\ s.done = server.done
         /\ LET s == [server EXCEPT !.done = TRUE]
            IN  /\ s \in [done : BOOLEAN, key : Keys \cup {NULL}, totp : {"off", "pending", "on"}]
                /\ s.key = server.key /\ s.done = TRUE
         /\ \A t \in {"pending", "on"} :
              LET s == [server EXCEPT !.totp = t]
              IN  /\ s \in [done : BOOLEAN, key : Keys \cup {NULL}, totp : {"off", "pending", "on"}]
                  /\ s.key = server.key /\ s.done = server.done
BY PortalTypes

\* app/api/auth/setup: the key of this wizard is stored, unless setup is complete.
LEMMA SetupBeginsStep ==
  ASSUME PortalInv, P!SetupBegins
  PROVE  PortalInv'
<1>0. PortalTyped /\ CallFits /\ OneKey /\ KeyStored
  BY DEF PortalInv
<1>1. /\ call # NULL /\ call.kind = "setup"
      /\ UNCHANGED <<secure, cookie, page, status, wizard, deriving, kept, login, redirect>>
  BY DEF P!SetupBegins, P!wizardVars
<1>2. call \in P!Fetches /\ raced \in BOOLEAN /\ wizard.entropy \in Keys \cup {NULL}
  BY <1>0, <1>1, PortalTypes, WizardFields
<1>3. wizard.step = "account" /\ page = "setup"
  BY <1>0, <1>1 DEF CallFits
<1>4. CASE server.done
  <2>1. P!Answers("error") /\ UNCHANGED <<server, rival, raced>>
    BY <1>4 DEF P!SetupBegins, P!netVars
  <2>2. call' \in P!Fetches /\ call' # NULL /\ call'.kind = "setup" /\ call'.state = "error"
    BY <1>1, <1>2, <2>1, CallForms
  <2>3. PortalTyped'
    BY <1>0, <1>1, <2>1, <2>2, PortalTypes
  <2>4. CallFits' /\ KeyStored'
    BY <1>1, <1>3, <2>2 DEF CallFits, KeyStored
  <2> QED BY <1>0, <1>1, <2>3, <2>4, KeyStays DEF PortalInv
<1>5. CASE ~server.done
  <2>1. /\ P!Answers("hashing") /\ server' = [server EXCEPT !.key = wizard.entropy]
        /\ raced' = (raced \/ rival \in Keys) /\ UNCHANGED rival
    BY <1>5 DEF P!SetupBegins
  <2>2. call' \in P!Fetches /\ call' # NULL /\ call'.kind = "setup" /\ call'.state = "hashing"
    BY <1>1, <1>2, <2>1, CallForms
  <2>3. /\ server' \in [done : BOOLEAN, key : Keys \cup {NULL}, totp : {"off", "pending", "on"}]
        /\ server'.key = wizard.entropy /\ raced' \in BOOLEAN
    BY <1>0, <1>2, <2>1, ServerFields
  <2>4. PortalTyped'
    BY <1>0, <1>1, <2>1, <2>2, <2>3, PortalTypes
  <2>5. CallFits' /\ KeyStored'
    BY <1>1, <1>3, <2>2, <2>3 DEF CallFits, KeyStored
  <2> QED BY <1>0, <1>1, <2>4, <2>5, KeyStays DEF PortalInv
<1> QED BY <1>4, <1>5

\* ... and the account is made.
LEMMA SetupEndsStep ==
  ASSUME PortalInv, P!SetupEnds
  PROVE  PortalInv'
<1>0. PortalTyped /\ CallFits /\ OneKey /\ KeyStored
  BY DEF PortalInv
<1>1. /\ call # NULL /\ call.kind = "setup" /\ call.state = "hashing"
      /\ UNCHANGED <<rival, raced, secure, page, status, wizard, deriving, kept, login, redirect>>
  BY DEF P!SetupEnds, P!wizardVars
<1>2. call \in P!Fetches /\ cookie \in BOOLEAN /\ secure \in BOOLEAN
  BY <1>0, <1>1, PortalTypes
<1>3. wizard.step = "account" /\ page = "setup" /\ (~raced => server.key = wizard.entropy)
  BY <1>0, <1>1 DEF CallFits, KeyStored
<1>4. \/ /\ P!Answers("ok") /\ server' = [server EXCEPT !.done = TRUE] /\ cookie' = secure
      \/ /\ raced /\ P!Answers("error") /\ UNCHANGED <<server, cookie>>
  BY DEF P!SetupEnds, P!NewCookie
<1>5. /\ call' \in P!Fetches /\ call' # NULL /\ call'.kind = "setup"
      /\ call'.state = "ok" \/ (raced /\ call'.state = "error")
  BY <1>1, <1>2, <1>4, CallForms
<1>6. /\ server' \in [done : BOOLEAN, key : Keys \cup {NULL}, totp : {"off", "pending", "on"}]
      /\ cookie' \in BOOLEAN /\ (~raced => server'.done /\ server'.key = server.key)
  <2>1. CASE server' = [server EXCEPT !.done = TRUE] /\ cookie' = secure
    BY <1>0, <1>2, <2>1, ServerFields
  <2>2. CASE raced /\ UNCHANGED <<server, cookie>>
    BY <1>0, <1>2, <2>2, PortalTypes
  <2> QED BY <1>4, <2>1, <2>2
<1>7. PortalTyped'
  BY <1>0, <1>1, <1>5, <1>6, PortalTypes
<1>8. CallFits' /\ KeyStored'
  BY <1>1, <1>3, <1>5, <1>6 DEF CallFits, KeyStored
<1> QED BY <1>0, <1>1, <1>7, <1>8, KeyStays DEF PortalInv

\* The wizard of the other browser: its key is stored over this one's only while setup is not
\* complete.
LEMMA RivalSteps ==
  ASSUME PortalInv, (\E k \in Keys : P!RivalBegins(k)) \/ P!RivalEnds
  PROVE  PortalInv'
<1>0. PortalTyped /\ CallFits /\ OneKey /\ KeyStored
  BY DEF PortalInv
<1>1. UNCHANGED <<secure, cookie, page, status, wizard, deriving, kept, login, call, redirect>>
  BY DEF P!RivalBegins, P!RivalEnds, P!wizardVars
<1>2. CallFits' /\ OneKey'
  BY <1>0, <1>1, CallStays, KeyStays
<1>3. ASSUME NEW k \in Keys, P!RivalBegins(k)
      PROVE  PortalInv'
  <2>1. /\ ~server.done /\ rival' = k /\ server' = [server EXCEPT !.key = k]
        /\ raced' = (raced \/ (call # NULL /\ call.state = "hashing"))
    BY <1>3 DEF P!RivalBegins
  <2>2. /\ server' \in [done : BOOLEAN, key : Keys \cup {NULL}, totp : {"off", "pending", "on"}]
        /\ raced' \in BOOLEAN
    BY <1>0, <2>1, ServerFields, PortalTypes
  <2>3. PortalTyped'
    BY <1>0, <1>1, <2>1, <2>2, PortalTypes
  <2>4. KeyStored'
    BY <1>0, <1>1, <2>1 DEF KeyStored
  <2> QED BY <1>2, <2>3, <2>4 DEF PortalInv
<1>4. CASE P!RivalEnds
  <2>1. rival' = "over" /\ server' = [server EXCEPT !.done = TRUE] /\ raced' = raced
    BY <1>4 DEF P!RivalEnds
  <2>2. /\ server' \in [done : BOOLEAN, key : Keys \cup {NULL}, totp : {"off", "pending", "on"}]
        /\ server'.key = server.key /\ server'.done = TRUE
    BY <1>0, <2>1, ServerFields
  <2>3. PortalTyped'
    BY <1>0, <1>1, <2>1, <2>2, PortalTypes
  <2>4. KeyStored'
    BY <1>0, <1>1, <2>1, <2>2 DEF KeyStored
  <2> QED BY <1>2, <2>3, <2>4 DEF PortalInv
<1> QED BY <1>3, <1>4

\* The other routes, and answers that are lost: neither touches the key.
LEMMA ServedSteps ==
  ASSUME PortalInv, P!Served \/ P!Lost
  PROVE  PortalInv'
<1>0. PortalTyped /\ CallFits /\ OneKey /\ KeyStored
  BY DEF PortalInv
<1>1. /\ call # NULL /\ call.state # "hashing"
      /\ UNCHANGED <<rival, raced, secure, page, status, wizard, deriving, kept, login, redirect>>
  BY DEF P!Served, P!Lost, P!netVars, P!wizardVars
<1>2. call \in P!Fetches /\ secure \in BOOLEAN /\ cookie \in BOOLEAN
  BY <1>0, <1>1, PortalTypes
<1>3. /\ \E s \in {"ok", "totp", "error"} : P!Answers(s) /\ (call.kind = "setup" => s = "error")
      /\ cookie' \in {cookie, secure}
      /\ server' = server \/ \E t \in {"pending", "on"} : server' = [server EXCEPT !.totp = t]
  <2>1. CASE P!Served
    BY <2>1 DEF P!Served, P!NewCookie
  <2>2. CASE P!Lost
    BY <2>2 DEF P!Lost, P!netVars
  <2> QED BY <2>1, <2>2
<1>4. /\ call' \in P!Fetches /\ call' # NULL /\ call'.kind = call.kind
      /\ call'.state \in {"ok", "totp", "error"} /\ (call.kind = "setup" => call'.state = "error")
  BY <1>2, <1>3, CallForms
<1>5. /\ server' \in [done : BOOLEAN, key : Keys \cup {NULL}, totp : {"off", "pending", "on"}]
      /\ server'.key = server.key /\ server'.done = server.done
  BY <1>0, <1>3, ServerFields, PortalTypes
<1>6. PortalTyped'
  BY <1>0, <1>1, <1>2, <1>3, <1>4, <1>5, PortalTypes
<1>7. CallFits'
  BY <1>0, <1>1, <1>4 DEF CallFits
<1>8. KeyStored'
  BY <1>0, <1>1, <1>4, <1>5 DEF KeyStored
<1> QED BY <1>0, <1>1, <1>6, <1>7, <1>8, KeyStays DEF PortalInv

\* PortalInv is inductive.
THEOREM PortalInvariance == P!Spec => []PortalInv
<1>1. P!Init => PortalInv
  <2> SUFFICES ASSUME P!Init PROVE PortalInv
    OBVIOUS
  <2>1. /\ server = [done |-> FALSE, key |-> NULL, totp |-> "off"] /\ rival = "none"
        /\ secure \in BOOLEAN /\ cookie = FALSE
        /\ page = "login" /\ status = "sent" /\ wizard = P!Fresh /\ deriving = P!Idle
        /\ login = "credentials" /\ call = NULL /\ redirect = FALSE
        /\ kept = NULL /\ raced = FALSE
    BY DEF P!Init
  <2>2. server \in [done : BOOLEAN, key : Keys \cup {NULL}, totp : {"off", "pending", "on"}]
    BY <2>1
  <2>3. wizard \in Wizards /\ wizard.step = "collect"
    BY <2>1 DEF Wizards, P!Fresh
  <2>4. deriving \in [Keys -> {"none", "hash", "encode"}] /\ \A k \in Keys : deriving[k] = "none"
    BY <2>1 DEF P!Idle
  <2>5. PortalTyped
    BY <2>1, <2>2, <2>3, <2>4, PortalTypes
  <2>6. CallFits /\ OneKey /\ KeyStored
    BY <2>1, <2>3, <2>4 DEF CallFits, OneKey, KeyStored
  <2> QED BY <2>5, <2>6 DEF PortalInv
<1>2. PortalInv /\ [P!Next]_(P!vars) => PortalInv'
  <2> SUFFICES ASSUME PortalInv, [P!Next]_(P!vars) PROVE PortalInv'
    OBVIOUS
  <2>1. CASE UNCHANGED P!vars
    <3>1. UNCHANGED <<server, rival, secure, cookie, page, status, wizard, deriving, login, call,
                      redirect, kept, raced>>
      BY <2>1 DEF P!vars, P!netVars, P!wizardVars
    <3>2. PortalTyped'
      BY <3>1, PortalTypes DEF PortalInv
    <3> QED BY <3>1, <3>2, CallStays, KeyStays, StoreStays DEF PortalInv
  <2>2. CASE \/ \E p \in {"login", "setup", "home"} : P!Visit(p)
             \/ P!Redirect \/ P!Logout \/ P!StatusServed \/ P!StatusArrives
    BY <2>2, LoadSteps, StatusSteps
  <2>3. CASE \/ P!Move \/ P!Tick \/ P!Continue \/ P!Back \/ P!Skip
             \/ \E k \in Keys : P!Derived(k) \/ P!Encoded(k)
    BY <2>3, MoveStep, WizardSteps, DeriveSteps
  <2>4. CASE \/ P!Submit \/ P!Verify \/ P!Credentials \/ P!SecondFactor \/ P!BackToCredentials
             \/ P!AnswerOfWizard \/ P!AnswerOfLogin
    BY <2>4, FormSteps, AnswerOfWizardStep, AnswerOfLoginStep
  <2>5. CASE \/ P!SetupBegins \/ P!SetupEnds \/ (\E k \in Keys : P!RivalBegins(k)) \/ P!RivalEnds
             \/ P!Served \/ P!Lost
    BY <2>5, SetupBeginsStep, SetupEndsStep, RivalSteps, ServedSteps
  <2> QED BY <2>1, <2>2, <2>3, <2>4, <2>5 DEF P!Next
<1> QED BY <1>1, <1>2, PTL DEF P!Spec

\* app/setup/page.tsx: whatever is lost, loaded again or tried twice, the recovery key that was
\* kept is the one of the key the server has, unless two wizards overlapped.
THEOREM KeptKey == DeskSpec => []KeptKeyMatches
<1>1. PortalInv => KeptKeyMatches
  <2> SUFFICES ASSUME PortalInv, page = "setup", 2 \in P!Bars, ~raced
               PROVE  kept = P!RecoveryKey(P!Entropy(server.key))
    BY DEF KeptKeyMatches, P!KeptKeyMatches
  <2>1. wizard.step \in {"totp", "done"}
    <3>1. wizard.step \in {"collect", "confirm", "account", "totp", "done"}
      BY PortalTypes DEF PortalInv
    <3> QED BY <3>1 DEF P!Bars, P!Order
  <2>2. /\ server.key = wizard.entropy
        /\ kept = P!RecoveryKey(P!Entropy(wizard.entropy))
    BY <2>1 DEF PortalInv, OneKey, KeyStored
  <2> QED BY <2>2
<1> QED BY <1>1, Parts, PortalInvariance, PTL
=============================================================================
