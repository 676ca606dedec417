------------------------------ MODULE Terminal ------------------------------
(***************************************************************************)
(* The browser terminal: a tab of terminal-panel.tsx fetches a ticket      *)
(* (app/api/auth/ws-ticket), opens a WebSocket with it, and custom-server  *)
(* .ts gives it a shell behind a PTY.  Each `await' of either side is a    *)
(* scheduling point, and the tab may be closed at every one of them.       *)
(*                                                                         *)
(* A tab is one mount of the component: it fetches one ticket and opens at *)
(* most one socket, so the server's state is indexed by the tab as well.   *)
(* A ticket is "<ms>.<hmac of ms>", so it is its issue time; every ticket  *)
(* here was issued by the route, so its HMAC is right.  What the shell     *)
(* prints and the reads of the terminal are left out.                      *)
(***************************************************************************)
EXTENDS Integers, Sequences

CONSTANTS
  Tabs,       \* mounts of a terminal tab
  Ttl,        \* life of a ticket (5000 ms)
  MaxTime,    \* bound on the clock
  MaxTyped,   \* bound on what is done in the tabs: keys, changes of a box, clicks on a title
  MaxCrashes  \* bound on the deaths of the server process

ASSUME TerminalAssumption ==
  Ttl \in Nat \ {0} /\ MaxTime \in Nat /\ MaxTyped \in Nat /\ MaxCrashes \in Nat

\* The shell a tab asks for: bash or ollama, a container of the whitelist, or another.
Kinds == {"bash", "container", "unlisted"}

VARIABLES
  now,        \* Date.now(), the same for the dashboard and the server
  view,       \* view[t]: the tab in the page: "fitting" is displayed with its 50 ms timer pending
  call,       \* call[t]: its fetch of a ticket
  ticket,     \* ticket[t]: the ticket in the answer
  kind,       \* kind[t]: the shell of the query string
  sock,       \* sock[t]: the WebSocket; "closing" from the first close() of either end
  phase,      \* phase[t]: where the connection handler of the server stands
  inbox,      \* inbox[t]: frames on their way to the server
  typed,      \* how much of that was done
  shell,      \* shell[t]: the process behind the PTY
  idle,       \* idle[t]: the idle timer is armed
  size,       \* size[t]: the dimensions of the PTY
  used,       \* _usedTickets
  evictions,  \* the pending setTimeouts that delete a ticket from _usedTickets
  accepted,   \* history: the acceptances of this server process
  up,         \* the server process runs
  crashes     \* its deaths so far

tabVars    == <<view, call, ticket, kind, typed>>
ticketVars == <<used, evictions, accepted>>
ptyVars    == <<shell, idle, size>>
hostVars   == <<now, up, crashes>>
vars == <<tabVars, sock, phase, inbox, ptyVars, ticketVars, hostVars>>

Init ==
  /\ now = 0
  /\ view = [t \in Tabs |-> "new"]
  /\ call = [t \in Tabs |-> "none"]
  /\ ticket = [t \in Tabs |-> 0]
  /\ kind \in [Tabs -> Kinds]
  /\ sock = [t \in Tabs |-> "none"]
  /\ phase = [t \in Tabs |-> "none"]
  /\ inbox = [t \in Tabs |-> <<>>]
  /\ typed = 0
  /\ shell = [t \in Tabs |-> "none"]
  /\ idle = [t \in Tabs |-> FALSE]
  /\ size = [t \in Tabs |-> "default"]
  /\ used = {} /\ evictions = {} /\ accepted = {}
  /\ up = TRUE /\ crashes = 0

\* ws.close() and WebSocket.close(): nothing unless the socket is open.
Closed(t) == [sock EXCEPT ![t] = IF @ = "open" THEN "closing" ELSE @]

-----------------------------------------------------------------------------
(* The tab (terminal-panel.tsx) and the ticket route.                      *)

Displayed(t) == view[t] \in {"fitting", "shown"}
Mounted(t)   == Displayed(t) \/ view[t] = "hidden"

\* setActiveTab(t): the display moves to t, whose effect sets a timer; the effect of the
\* tab that had it clears its own.
Display(t) ==
  view' = [u \in Tabs |-> IF u = t THEN "fitting" ELSE IF Displayed(u) THEN "hidden" ELSE view[u]]

\* A new tab is the active one; its effect runs and calls connect().
Mount(t) ==
  /\ view[t] = "new"
  /\ Display(t)
  /\ call' = [call EXCEPT ![t] = "asked"]
  /\ UNCHANGED <<ticket, kind, typed, sock, phase, inbox, ptyVars, ticketVars, hostVars>>

\* A click on the title of a tab in the background.
Select(t) ==
  /\ view[t] = "hidden" /\ typed < MaxTyped
  /\ Display(t)
  /\ typed' = typed + 1
  /\ UNCHANGED <<call, ticket, kind, sock, phase, inbox, ptyVars, ticketVars, hostVars>>

\* The time in a ticket is the time of its issue.
Stamp == now

\* GET /api/auth/ws-ticket: a ticket, or 401 without a session.
Issue(t) ==
  /\ call[t] = "asked"
  /\ \/ call' = [call EXCEPT ![t] = "answered"] /\ ticket' = [ticket EXCEPT ![t] = Stamp]
     \/ call' = [call EXCEPT ![t] = "over"] /\ UNCHANGED ticket
  /\ UNCHANGED <<view, kind, typed, sock, phase, inbox, ptyVars, ticketVars, hostVars>>

\* Mutated form: connect() does not look at `cancelled' after the await.
MutCancelled(t) == FALSE

Cancelled(t) == view[t] = "gone"

\* connect() resumes with the ticket: it returns if the tab is gone, or opens the socket.
Connect(t) ==
  /\ call[t] = "answered"
  /\ call' = [call EXCEPT ![t] = "over"]
  /\ \/ /\ Cancelled(t)
        /\ UNCHANGED <<sock, phase>>
     \/ /\ ~Cancelled(t) /\ up
        /\ sock' = [sock EXCEPT ![t] = "open"]
        /\ phase' = [phase EXCEPT ![t] = "arriving"]
     \/ /\ ~Cancelled(t) /\ ~up
        /\ sock' = [sock EXCEPT ![t] = "closed"]
        /\ UNCHANGED phase
  /\ UNCHANGED <<view, ticket, kind, typed, inbox, ptyVars, ticketVars, hostVars>>

Heard(t) == sock[t] = "open" /\ phase[t] \notin {"none", "arriving"}

Send(t, f) == inbox' = [inbox EXCEPT ![t] = Append(@, f)]

\* The timer of the displayed tab: it fits the terminal and sends the size, if the
\* socket is open by then.
Fit(t) ==
  /\ view[t] = "fitting"
  /\ view' = [view EXCEPT ![t] = "shown"]
  /\ IF Heard(t) THEN Send(t, "resize") ELSE UNCHANGED inbox
  /\ UNCHANGED <<call, ticket, kind, typed, sock, phase, ptyVars, ticketVars, hostVars>>

\* What proposeDimensions makes of a tab: a tab in the background has no box, and its
\* numbers are NaN, which JSON writes as null.
Dims(t) == IF Displayed(t) THEN "resize" ELSE "bad"

\* A keystroke, or the size again when the box has changed: the timer of a drag fits the
\* tab that was active when the mouse went down.
Type(t) ==
  /\ Mounted(t) /\ Heard(t) /\ typed < MaxTyped
  /\ typed' = typed + 1
  /\ Send(t, Dims(t)) \/ (Displayed(t) /\ Send(t, "input"))
  /\ UNCHANGED <<view, call, ticket, kind, sock, phase, ptyVars, ticketVars, hostVars>>

\* The clean-up of the effect: the tab is closed, and another one is displayed in its
\* place, if there is one and this was the active tab.
Unmount(t) ==
  /\ Mounted(t)
  /\ \/ /\ ~Displayed(t) \/ (\A u \in Tabs : view[u] # "hidden")
        /\ view' = [view EXCEPT ![t] = "gone"]
     \/ /\ Displayed(t)
        /\ \E u \in Tabs : /\ view[u] = "hidden"
                           /\ view' = [view EXCEPT ![t] = "gone", ![u] = "fitting"]
  /\ sock' = Closed(t)
  /\ UNCHANGED <<call, ticket, kind, typed, phase, inbox, ptyVars, ticketVars, hostVars>>

-----------------------------------------------------------------------------
(* Tickets (verifyWsTicket).                                               *)

Fresh(t) == now - ticket[t] <= Ttl

\* Mutated form: nobody looks whether the ticket was spent.
MutValid(t) == Fresh(t)

Valid(t) == Fresh(t) /\ ticket[t] \notin used

\* The ticket is spent, and a timer set to forget it.
Record(t) ==
  /\ used' = used \cup {ticket[t]}
  /\ evictions' = evictions \cup {[ticket |-> ticket[t], due |-> now + Ttl]}

\* The timer fires when it is due, or later if the event loop is late.
Evict(e) ==
  /\ up /\ e.due <= now
  /\ used' = used \ {e.ticket}
  /\ evictions' = evictions \ {e}
  /\ UNCHANGED <<tabVars, sock, phase, inbox, ptyVars, accepted, hostVars>>

-----------------------------------------------------------------------------
(* The connection handler of custom-server.ts.                             *)

\* Mutated form: onopen does not send the size.
MutOpened(t) == UNCHANGED inbox

\* The socket opens in the browser, which sends the size of the terminal: a tab that went
\* to the background before its terminal was drawn has none, one that went later a bad one.
Opened(t) == Send(t, Dims(t)) \/ (view[t] = "hidden" /\ UNCHANGED inbox)

\* pty.spawn and the registration of the listeners, or the catch around the spawn.
Spawn(t) ==
  \/ /\ shell' = [shell EXCEPT ![t] = "running"]
     /\ idle' = [idle EXCEPT ![t] = TRUE]
     /\ phase' = [phase EXCEPT ![t] = "live"]
     /\ UNCHANGED <<sock, size>>
  \/ /\ phase' = [phase EXCEPT ![t] = "done"]
     /\ sock' = Closed(t)
     /\ UNCHANGED ptyVars

\* The handler up to its await, or to its end.
Connection(t) ==
  /\ up /\ phase[t] = "arriving"
  /\ IF sock[t] = "open" THEN Opened(t) ELSE UNCHANGED inbox
  /\ \/ /\ Valid(t)
        /\ Record(t)
        /\ accepted' = accepted \cup {[ticket |-> ticket[t], by |-> t, at |-> now]}
        /\ \/ kind[t] = "bash" /\ Spawn(t)
           \/ kind[t] = "container" /\ phase' = [phase EXCEPT ![t] = "checking"]
              /\ UNCHANGED <<sock, ptyVars>>
           \/ kind[t] = "unlisted" /\ phase' = [phase EXCEPT ![t] = "done"]
              /\ sock' = Closed(t) /\ UNCHANGED ptyVars
     \/ /\ ~Valid(t)
        /\ phase' = [phase EXCEPT ![t] = "done"]
        /\ sock' = Closed(t)
        /\ UNCHANGED <<ptyVars, ticketVars>>
  /\ UNCHANGED <<tabVars, hostVars>>

\* isContainerRunning answers, or gives up after two seconds.
Checked(t) ==
  /\ up /\ phase[t] = "checking"
  /\ \/ Spawn(t)
     \/ /\ phase' = [phase EXCEPT ![t] = "done"]
        /\ sock' = Closed(t)
        /\ UNCHANGED ptyVars
  /\ UNCHANGED <<tabVars, inbox, ticketVars, hostVars>>

Rearm(t) == idle' = [idle EXCEPT ![t] = TRUE]

\* A frame arrives; one that nobody listens for yet is dropped.  A bad size makes
\* shell.resize throw, and the catch writes its JSON text into the shell.
Message(t) ==
  /\ up /\ phase[t] # "arriving" /\ sock[t] \in {"open", "closing"} /\ inbox[t] # <<>>
  /\ inbox' = [inbox EXCEPT ![t] = Tail(@)]
  /\ \/ /\ phase[t] = "live"
        /\ Rearm(t)
        /\ size' = [size EXCEPT ![t] = IF Head(inbox[t]) = "resize" THEN "fitted" ELSE @]
     \/ /\ phase[t] # "live"
        /\ UNCHANGED <<idle, size>>
  /\ UNCHANGED <<tabVars, sock, phase, shell, ticketVars, hostVars>>

\* The session was idle for thirty minutes.
Idle(t) ==
  /\ up /\ idle[t]
  /\ idle' = [idle EXCEPT ![t] = FALSE]
  /\ sock' = Closed(t)
  /\ UNCHANGED <<tabVars, phase, inbox, shell, size, ticketVars, hostVars>>

\* The shell ends of itself: exit, or its container stops.
Exit(t) ==
  /\ up /\ shell[t] = "running"
  /\ shell' = [shell EXCEPT ![t] = "dead"]
  /\ sock' = Closed(t)
  /\ UNCHANGED <<tabVars, phase, inbox, idle, size, ticketVars, hostVars>>

\* Mutated form: clean-up clears the timer and leaves the shell.
MutCleanup(t) == idle' = [idle EXCEPT ![t] = FALSE] /\ UNCHANGED shell

Cleanup(t) ==
  /\ idle' = [idle EXCEPT ![t] = FALSE]
  /\ shell' = [shell EXCEPT ![t] = IF @ = "running" THEN "dead" ELSE @]

\* The socket is closed at both ends: the close event, which a handler that has not
\* come back from its await does not hear.  Frames still on their way are lost.
CloseEvent(t) ==
  /\ up /\ sock[t] = "closing" /\ phase[t] # "arriving"
  /\ sock' = [sock EXCEPT ![t] = "closed"]
  /\ inbox' = [inbox EXCEPT ![t] = <<>>]
  /\ \/ phase[t] = "live" /\ Cleanup(t) /\ phase' = [phase EXCEPT ![t] = "done"]
     \/ phase[t] # "live" /\ UNCHANGED <<shell, idle, phase>>
  /\ UNCHANGED <<tabVars, size, ticketVars, hostVars>>

\* A tab that is closed before the handshake is over never reaches the handler.
Aborted(t) ==
  /\ sock[t] = "closing" /\ phase[t] = "arriving"
  /\ sock' = [sock EXCEPT ![t] = "closed"]
  /\ phase' = [phase EXCEPT ![t] = "done"]
  /\ UNCHANGED <<tabVars, inbox, ptyVars, ticketVars, hostVars>>

-----------------------------------------------------------------------------
(* The server process.                                                     *)

\* It dies: sockets and PTYs with it.  start.sh runs it in the background.
Crash ==
  /\ up /\ crashes < MaxCrashes
  /\ up' = FALSE /\ crashes' = crashes + 1
  /\ sock' = [t \in Tabs |-> IF sock[t] = "none" THEN "none" ELSE "closed"]
  /\ phase' = [t \in Tabs |-> IF phase[t] = "none" THEN "none" ELSE "done"]
  /\ inbox' = [t \in Tabs |-> <<>>]
  /\ shell' = [t \in Tabs |-> IF shell[t] = "running" THEN "dead" ELSE shell[t]]
  /\ idle' = [t \in Tabs |-> FALSE]
  /\ used' = {} /\ evictions' = {} /\ accepted' = {}
  /\ UNCHANGED <<tabVars, size, now>>

\* Only a restart of the container brings it back, with no memory of spent tickets.
Restart ==
  /\ ~up
  /\ up' = TRUE
  /\ UNCHANGED <<tabVars, sock, phase, inbox, ptyVars, ticketVars, now, crashes>>

Tick ==
  /\ now < MaxTime
  /\ now' = now + 1
  /\ UNCHANGED <<tabVars, sock, phase, inbox, ptyVars, ticketVars, up, crashes>>

-----------------------------------------------------------------------------
Server(t) ==
  \/ Connection(t) \/ Checked(t) \/ Message(t) \/ Idle(t) \/ CloseEvent(t) \/ Aborted(t)

Tab(t) ==
  \/ Mount(t) \/ Select(t) \/ Fit(t) \/ Unmount(t)
  \/ Issue(t) \/ Connect(t) \/ Type(t)

Next ==
  \/ \E t \in Tabs : Tab(t) \/ Server(t) \/ Exit(t)
  \/ \E e \in evictions : Evict(e)
  \/ Crash \/ Restart \/ Tick

Spec == Init /\ [][Next]_vars

\* Events reach a running server and its timers fire; nobody has to type, close a tab,
\* leave a shell or restart the container.
FairSpec == Spec /\ \A t \in Tabs : WF_vars(Server(t))

-----------------------------------------------------------------------------
TypeOK ==
  /\ now \in 0 .. MaxTime
  /\ view \in [Tabs -> {"new", "fitting", "shown", "hidden", "gone"}]
  /\ call \in [Tabs -> {"none", "asked", "answered", "over"}]
  /\ ticket \in [Tabs -> 0 .. MaxTime]
  /\ kind \in [Tabs -> Kinds]
  /\ sock \in [Tabs -> {"none", "open", "closing", "closed"}]
  /\ phase \in [Tabs -> {"none", "arriving", "checking", "live", "done"}]
  /\ inbox \in [Tabs -> Seq({"input", "resize", "bad"})]
  /\ typed \in 0 .. MaxTyped
  /\ shell \in [Tabs -> {"none", "running", "dead"}]
  /\ idle \in [Tabs -> BOOLEAN]
  /\ size \in [Tabs -> {"default", "fitted"}]
  /\ used \subseteq 0 .. MaxTime
  /\ evictions \subseteq [ticket : 0 .. MaxTime, due : Nat]
  /\ accepted \subseteq [ticket : 0 .. MaxTime, by : Tabs, at : 0 .. MaxTime]
  /\ up \in BOOLEAN /\ crashes \in 0 .. MaxCrashes

\* A ticket that was spent is refused for the rest of its life but the last millisecond:
\* of two acceptances of one ticket the first is in the millisecond of its issue and the
\* second, after the eviction, exactly Ttl later; a third is impossible.
ReuseOnlyAtExpiry ==
  \A a, b \in accepted :
    a.ticket = b.ticket /\ a.by # b.by =>
      {a.at, b.at} = {a.ticket, a.ticket + Ttl}

\* "Auto-evict after TTL to bound memory growth": whatever is in _usedTickets has a timer
\* that will delete it.
SpentTicketsExpire == \A k \in used : \E e \in evictions : e.ticket = k

\* A closed tab keeps no socket, also when it was closed while its ticket was on the way.
ClosedTabHasNoSocket == \A t \in Tabs : view[t] = "gone" => sock[t] # "open"

\* A shell whose handler heard of the end of its socket does not outlive it: only the
\* handler of a container, which waits before it listens, can miss the close event.
ShellHasSocket ==
  \A t \in Tabs : shell[t] = "running" /\ sock[t] = "closed" => kind[t] = "container"

\* Every running shell has its idle timer or its socket is on the way out.
IdleTimerArmed ==
  \A t \in Tabs : shell[t] = "running" /\ ~idle[t] => sock[t] # "open"

\* A shell without a container check has the size of its tab once the tab is displayed,
\* its timer has fired and its frames have arrived: whether its socket opened in the
\* foreground or, to no good, in the background.
SizeReaches ==
  \A t \in Tabs :
    ( /\ shell[t] = "running" /\ sock[t] = "open" /\ kind[t] = "bash"
      /\ view[t] = "shown" /\ inbox[t] = <<>> ) => size[t] = "fitted"

\* The inductive invariant of TerminalProofs: what the server remembers of a ticket ...
TicketMemory ==
  /\ \A t \in Tabs : ticket[t] <= now
  /\ \A a \in accepted :
       /\ a.ticket <= a.at /\ a.at <= a.ticket + Ttl /\ a.at <= now
       /\ a.ticket \in used \/ a.at + Ttl <= now
  /\ \A e \in evictions :
       /\ e.ticket \in used
       /\ \A f \in evictions : f.ticket = e.ticket => f = e
       /\ \A a \in accepted : a.ticket = e.ticket => a.at + Ttl <= e.due

\* ... where a tab, its socket, its handler and its shell can stand ...
Lockstep ==
  \A t \in Tabs :
    /\ view[t] = "new" => call[t] = "none"
    /\ call[t] # "over" => phase[t] = "none" /\ sock[t] = "none" /\ shell[t] = "none"
    /\ shell[t] = "running" => phase[t] = "live"
    /\ phase[t] = "arriving" => sock[t] \in {"open", "closing"}
    /\ phase[t] = "checking" => kind[t] = "container"
    /\ phase[t] = "live" /\ kind[t] # "container" => sock[t] # "closed"

\* ... and that the size of a tab whose timer has fired is on its way until it has arrived.
SizeUnderWay ==
  \A t \in Tabs :
    ( /\ phase[t] = "live" /\ sock[t] = "open" /\ kind[t] = "bash"
      /\ view[t] = "shown" /\ size[t] # "fitted" ) =>
        \E i \in 1 .. Len(inbox[t]) : inbox[t][i] = "resize"

IInv ==
  /\ TypeOK /\ TicketMemory /\ SpentTicketsExpire /\ ReuseOnlyAtExpiry
  /\ Lockstep /\ ClosedTabHasNoSocket /\ IdleTimerArmed /\ SizeUnderWay

\* A shell that still has its socket when it starts ends, of idleness at the latest.
ShellsWithSocketsEnd ==
  \A t \in Tabs : (shell[t] = "running" /\ sock[t] # "closed") ~> (shell[t] = "dead")
=============================================================================
