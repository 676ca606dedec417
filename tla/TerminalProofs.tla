---------------------------- MODULE TerminalProofs ----------------------------
(***************************************************************************)
(* The safety of Terminal for any set of tabs, any clock and any number of *)
(* keystrokes and crashes.  One lemma per action shows that it preserves   *)
(* IInv: first the types, then the tickets, then the sessions.             *)
(***************************************************************************)
EXTENDS Terminal, TLAPS

Tickets == TicketMemory /\ SpentTicketsExpire /\ ReuseOnlyAtExpiry

Sessions == Lockstep /\ ClosedTabHasNoSocket /\ IdleTimerArmed /\ SizeUnderWay

\* Actions that touch neither the tickets nor the clock.
LEMMA TicketsKept ==
  ASSUME IInv, UNCHANGED <<now, ticket, ticketVars>>
  PROVE  Tickets'
BY DEF IInv, Tickets, ticketVars, TicketMemory, SpentTicketsExpire, ReuseOnlyAtExpiry

\* Actions that touch no tab, socket or shell.
LEMMA SessionsKept ==
  ASSUME IInv, UNCHANGED <<tabVars, sock, phase, inbox, ptyVars>>
  PROVE  Sessions'
BY DEF IInv, Sessions, tabVars, ptyVars, Lockstep, ClosedTabHasNoSocket, IdleTimerArmed,
       SizeUnderWay

LEMMA InvariantInit == Init => IInv
BY TerminalAssumption
   DEF TerminalAssumption, Init, IInv, TypeOK, TicketMemory, SpentTicketsExpire,
       ReuseOnlyAtExpiry, Lockstep, ClosedTabHasNoSocket, IdleTimerArmed, SizeUnderWay, Kinds

\* Where a step of the handler leaves its session: a shell has started, the container is
\* being looked up, or the socket is closed.
Started(t) ==
  /\ shell' = [shell EXCEPT ![t] = "running"]
  /\ idle' = [idle EXCEPT ![t] = TRUE]
  /\ phase' = [phase EXCEPT ![t] = "live"]
  /\ UNCHANGED <<sock, size>>

LookedUp(t) ==
  /\ phase' = [phase EXCEPT ![t] = "checking"]
  /\ UNCHANGED <<sock, shell, idle, size>>

Refused(t) ==
  /\ phase' = [phase EXCEPT ![t] = "done"]
  /\ sock' = Closed(t)
  /\ UNCHANGED <<shell, idle, size>>

SessionTypes ==
  /\ sock \in [Tabs -> {"none", "open", "closing", "closed"}]
  /\ phase \in [Tabs -> {"none", "arriving", "checking", "live", "done"}]
  /\ shell \in [Tabs -> {"none", "running", "dead"}]
  /\ idle \in [Tabs -> BOOLEAN]
  /\ size \in [Tabs -> {"default", "fitted"}]

LEMMA OutcomeTypes ==
  ASSUME TypeOK, NEW t \in Tabs, Started(t) \/ LookedUp(t) \/ Refused(t)
  PROVE  SessionTypes'
<1>1. CASE Started(t)
  BY <1>1 DEF TypeOK, SessionTypes, Started
<1>2. CASE LookedUp(t)
  BY <1>2 DEF TypeOK, SessionTypes, LookedUp
<1>3. CASE Refused(t)
  <2>1. sock' \in [Tabs -> {"none", "open", "closing", "closed"}]
    BY <1>3 DEF TypeOK, Refused, Closed
  <2>2. QED
    BY <1>3, <2>1 DEF TypeOK, SessionTypes, Refused
<1>4. QED
  BY <1>1, <1>2, <1>3

LEMMA OutcomeSessions ==
  ASSUME IInv, NEW t \in Tabs, UNCHANGED tabVars, phase[t] \in {"arriving", "checking"},
         \/ Started(t) /\ (kind[t] = "container" \/ phase[t] = "arriving")
         \/ LookedUp(t) /\ kind[t] = "container"
         \/ Refused(t)
  PROVE  Lockstep' /\ ClosedTabHasNoSocket' /\ IdleTimerArmed'
<1> USE DEF IInv, TypeOK, tabVars, Lockstep, ClosedTabHasNoSocket, IdleTimerArmed
<1>1. CASE Started(t) /\ (kind[t] = "container" \/ phase[t] = "arriving")
  BY <1>1 DEF Started
<1>2. CASE LookedUp(t) /\ kind[t] = "container"
  BY <1>2 DEF LookedUp
<1>3. CASE Refused(t)
  BY <1>3 DEF Refused, Closed
<1>4. QED
  BY <1>1, <1>2, <1>3

Views == {"new", "fitting", "shown", "hidden", "gone"}

\* Moving the display shows no tab before its timer has fired, and touches no session.
LEMMA DisplaySessions ==
  ASSUME IInv, UNCHANGED <<sock, phase, inbox, kind, ptyVars>>,
         \A u \in Tabs : /\ view'[u] = "new" => view[u] = "new" /\ call'[u] = call[u]
                         /\ view'[u] = "shown" => view[u] = "shown"
                         /\ view'[u] = "gone" => view[u] = "gone"
                         /\ call'[u] = call[u] \/ call[u] # "over"
  PROVE  Sessions'
<1> USE DEF ptyVars, IInv
<1>1. Lockstep' /\ ClosedTabHasNoSocket' /\ IdleTimerArmed'
  BY DEF Lockstep, ClosedTabHasNoSocket, IdleTimerArmed
<1>2. SizeUnderWay'
  BY DEF SizeUnderWay
<1> QED BY <1>1, <1>2 DEF Sessions

LEMMA DisplayViews ==
  ASSUME TypeOK, NEW t \in Tabs, Display(t), view[t] \in {"new", "hidden"}
  PROVE  /\ view' \in [Tabs -> Views]
         /\ \A u \in Tabs : /\ view'[u] = "new" => view[u] = "new" /\ u # t
                            /\ view'[u] # "shown"
                            /\ view'[u] = "gone" => view[u] = "gone"
<1>1. view \in [Tabs -> Views]
  BY DEF TypeOK, Views
<1>2. \A u \in Tabs : view'[u] = IF u = t THEN "fitting" ELSE IF Displayed(u) THEN "hidden" ELSE view[u]
  BY DEF Display
<1>3. view' \in [Tabs -> Views]
  <2>1. DOMAIN view' = Tabs /\ view' = [u \in Tabs |-> view'[u]]
    BY DEF Display
  <2>2. \A u \in Tabs : view'[u] \in Views
    BY <1>1, <1>2 DEF Views
  <2> QED BY <2>1, <2>2
<1> QED BY <1>2, <1>3 DEF Displayed

LEMMA MountStep ==
  ASSUME NEW t \in Tabs, IInv, Mount(t)
  PROVE  IInv'
<1> USE TerminalAssumption
    DEF TerminalAssumption, Mount, hostVars, ticketVars, ptyVars
<1>0. TypeOK /\ view[t] = "new" /\ call[t] = "none"
  BY DEF IInv, Lockstep
<1>1. TypeOK'
  <2>1. view' \in [Tabs -> Views]
    BY <1>0, DisplayViews
  <2>2. call' \in [Tabs -> {"none", "asked", "answered", "over"}]
    BY <1>0 DEF TypeOK
  <2> QED BY <1>0, <2>1, <2>2 DEF TypeOK, Views
<1>2. Tickets'
  BY TicketsKept
<1>3. Sessions'
  <2>1. \A u \in Tabs : u # t => call'[u] = call[u]
    BY <1>0 DEF TypeOK
  <2>2. \A u \in Tabs : /\ view'[u] = "new" => view[u] = "new" /\ u # t
                        /\ view'[u] # "shown"
                        /\ view'[u] = "gone" => view[u] = "gone"
    BY <1>0, DisplayViews
  <2> QED BY <1>0, <2>1, <2>2, DisplaySessions
<1>4. QED
  BY <1>1, <1>2, <1>3 DEF IInv, Tickets, Sessions

LEMMA SelectStep ==
  ASSUME NEW t \in Tabs, IInv, Select(t)
  PROVE  IInv'
<1> USE TerminalAssumption
    DEF TerminalAssumption, Select, hostVars, ticketVars, ptyVars
<1>0. TypeOK
  BY DEF IInv
<1>1. TypeOK'
  <2>1. view' \in [Tabs -> Views]
    BY <1>0, DisplayViews
  <2>2. typed' \in 0 .. MaxTyped
    BY <1>0 DEF TypeOK
  <2> QED BY <1>0, <2>1, <2>2 DEF TypeOK, Views
<1>2. Tickets'
  BY TicketsKept
<1>3. Sessions'
  <2>1. \A u \in Tabs : /\ view'[u] = "new" => view[u] = "new" /\ u # t
                        /\ view'[u] # "shown"
                        /\ view'[u] = "gone" => view[u] = "gone"
    BY <1>0, DisplayViews
  <2> QED BY <2>1, DisplaySessions
<1>4. QED
  BY <1>1, <1>2, <1>3 DEF IInv, Tickets, Sessions

Frames == {"input", "resize", "bad"}

\* A frame that is sent leaves the frames before it where they are.
LEMMA SendKeeps ==
  ASSUME TypeOK, NEW t \in Tabs, NEW f \in Frames, Send(t, f)
  PROVE  /\ inbox' \in [Tabs -> Seq(Frames)]
         /\ inbox'[t] # <<>> /\ inbox'[t][Len(inbox'[t])] = f /\ Len(inbox'[t]) \in 1 .. Len(inbox'[t])
         /\ \A s \in Tabs : \A i \in 1 .. Len(inbox[s]) :
              i \in 1 .. Len(inbox'[s]) /\ inbox'[s][i] = inbox[s][i]
<1>1. inbox \in [Tabs -> Seq(Frames)]
  BY DEF TypeOK, Frames
<1>2. inbox' = [inbox EXCEPT ![t] = Append(inbox[t], f)]
  BY DEF Send
<1>3. ASSUME NEW q \in Seq(Frames)
      PROVE  /\ Append(q, f) \in Seq(Frames) /\ Append(q, f) # <<>>
             /\ Len(Append(q, f)) \in 1 .. Len(Append(q, f)) /\ Append(q, f)[Len(Append(q, f))] = f
             /\ \A i \in 1 .. Len(q) : i \in 1 .. Len(Append(q, f)) /\ Append(q, f)[i] = q[i]
  OBVIOUS
<1>4. inbox'[t] = Append(inbox[t], f) /\ \A s \in Tabs \ {t} : inbox'[s] = inbox[s]
  BY <1>1, <1>2
<1>5. inbox' \in [Tabs -> Seq(Frames)]
  BY <1>1, <1>2, <1>3
<1>6. \A s \in Tabs : \A i \in 1 .. Len(inbox[s]) :
        i \in 1 .. Len(inbox'[s]) /\ inbox'[s][i] = inbox[s][i]
  <2>1. ASSUME NEW s \in Tabs, NEW i \in 1 .. Len(inbox[s])
        PROVE  i \in 1 .. Len(inbox'[s]) /\ inbox'[s][i] = inbox[s][i]
    <3>1. CASE s = t
      BY <1>1, <1>3, <1>4, <3>1
    <3>2. CASE s # t
      BY <1>4, <3>2
    <3> QED BY <3>1, <3>2
  <2> QED BY <2>1
<1> QED BY <1>1, <1>3, <1>4, <1>5, <1>6

LEMMA FitStep ==
  ASSUME NEW t \in Tabs, IInv, Fit(t)
  PROVE  IInv'
<1> USE TerminalAssumption
    DEF TerminalAssumption, Fit, hostVars, ticketVars, ptyVars
<1>0. TypeOK
  BY DEF IInv
<1>a. \/ Heard(t) /\ Send(t, "resize")
      \/ ~Heard(t) /\ inbox' = inbox
  OBVIOUS
<1>b. /\ view' \in [Tabs -> Views]
      /\ view'[t] = "shown" /\ \A u \in Tabs \ {t} : view'[u] = view[u]
  BY <1>0 DEF TypeOK, Views
<1>1. TypeOK'
  <2>1. inbox' \in [Tabs -> Seq(Frames)]
    BY <1>0, <1>a, SendKeeps DEF Frames, TypeOK
  <2> QED BY <1>0, <1>b, <2>1 DEF TypeOK, Views, Frames
<1>2. Tickets'
  BY TicketsKept
<1>3. Sessions'
  <2>1. Lockstep' /\ ClosedTabHasNoSocket' /\ IdleTimerArmed'
    BY <1>b DEF IInv, Lockstep, ClosedTabHasNoSocket, IdleTimerArmed
  <2>2. ASSUME NEW s \in Tabs, phase[s] = "live", sock[s] = "open", kind[s] = "bash",
               view'[s] = "shown", size[s] # "fitted"
        PROVE  \E i \in 1 .. Len(inbox'[s]) : inbox'[s][i] = "resize"
    <3>1. CASE s = t
      <4>1. Heard(t)
        BY <2>2, <3>1 DEF Heard
      <4>2. Send(t, "resize")
        BY <1>a, <4>1
      <4>3. inbox'[t][Len(inbox'[t])] = "resize" /\ Len(inbox'[t]) \in 1 .. Len(inbox'[t])
        BY <1>0, <4>2, SendKeeps DEF Frames
      <4> QED BY <3>1, <4>3
    <3>2. CASE s # t
      <4>1. view[s] = "shown"
        BY <1>b, <2>2, <3>2
      <4>2. PICK i \in 1 .. Len(inbox[s]) : inbox[s][i] = "resize"
        BY <2>2, <4>1 DEF IInv, SizeUnderWay
      <4>3. i \in 1 .. Len(inbox'[s]) /\ inbox'[s][i] = inbox[s][i]
        BY <1>0, <1>a, <4>2, SendKeeps DEF Frames
      <4> QED BY <4>2, <4>3
    <3> QED BY <3>1, <3>2
  <2>3. SizeUnderWay'
    BY <2>2 DEF SizeUnderWay
  <2> QED BY <2>1, <2>3 DEF Sessions
<1>4. QED
  BY <1>1, <1>2, <1>3 DEF IInv, Tickets, Sessions

LEMMA IssueStep ==
  ASSUME NEW t \in Tabs, IInv, Issue(t)
  PROVE  IInv'
<1> USE TerminalAssumption
    DEF TerminalAssumption, Issue, Stamp, hostVars, tabVars, ticketVars, ptyVars
<1>1. TypeOK'
  <2>1. /\ call \in [Tabs -> {"none", "asked", "answered", "over"}]
        /\ ticket \in [Tabs -> 0 .. MaxTime] /\ now \in 0 .. MaxTime
    BY DEF IInv, TypeOK
  <2>2. /\ call' \in [Tabs -> {"none", "asked", "answered", "over"}]
        /\ ticket' \in [Tabs -> 0 .. MaxTime]
    BY <2>1
  <2>3. QED
    BY <2>2 DEF IInv, TypeOK
<1>2. Tickets'
  <2>1. \A s \in Tabs : ticket'[s] = ticket[s] \/ ticket'[s] = now
    BY DEF IInv, TypeOK
  <2>2. \A s \in Tabs : ticket'[s] <= now
    BY <2>1 DEF IInv, TypeOK, TicketMemory
  <2>3. QED
    BY <2>2 DEF IInv, Tickets, TicketMemory, SpentTicketsExpire, ReuseOnlyAtExpiry
<1>3. Sessions'
  <2>1. Lockstep' /\ ClosedTabHasNoSocket' /\ IdleTimerArmed'
    BY DEF IInv, TypeOK, Lockstep, ClosedTabHasNoSocket, IdleTimerArmed
  <2>2. SizeUnderWay'
    BY DEF IInv, TypeOK, Lockstep, SizeUnderWay
  <2>3. QED
    BY <2>1, <2>2 DEF Sessions
<1>4. QED
  BY <1>1, <1>2, <1>3 DEF IInv, Tickets, Sessions

LEMMA ConnectStep ==
  ASSUME NEW t \in Tabs, IInv, Connect(t)
  PROVE  IInv'
<1> USE TerminalAssumption
    DEF TerminalAssumption, Connect, Cancelled, hostVars, tabVars, ticketVars, ptyVars
<1>1. TypeOK'
  <2>1. /\ call \in [Tabs -> {"none", "asked", "answered", "over"}]
        /\ sock \in [Tabs -> {"none", "open", "closing", "closed"}]
        /\ phase \in [Tabs -> {"none", "arriving", "checking", "live", "done"}]
    BY DEF IInv, TypeOK
  <2>2. /\ call' \in [Tabs -> {"none", "asked", "answered", "over"}]
        /\ sock' \in [Tabs -> {"none", "open", "closing", "closed"}]
        /\ phase' \in [Tabs -> {"none", "arriving", "checking", "live", "done"}]
    BY <2>1
  <2>3. QED
    BY <2>2 DEF IInv, TypeOK
<1>2. Tickets'
  BY TicketsKept
<1>3. Sessions'
  <2>1. Lockstep' /\ ClosedTabHasNoSocket' /\ IdleTimerArmed'
    BY DEF IInv, TypeOK, Lockstep, ClosedTabHasNoSocket, IdleTimerArmed
  <2>2. SizeUnderWay'
    <3>1. UNCHANGED <<inbox, kind, size>> /\ \A u \in Tabs \ {t} : UNCHANGED <<phase[u], sock[u]>>
      <4>1. sock \in [Tabs -> {"none", "open", "closing", "closed"}] /\ DOMAIN phase = Tabs
        BY DEF IInv, TypeOK
      <4>2. UNCHANGED <<inbox, kind, size>>
        OBVIOUS
      <4>3. ASSUME NEW u \in Tabs \ {t}
            PROVE  phase'[u] = phase[u] /\ sock'[u] = sock[u]
        BY <4>1
      <4>4. QED
        BY <4>2, <4>3
    <3>2. phase'[t] # "live"
      BY DEF IInv, TypeOK, Lockstep
    <3>3. ASSUME NEW u \in Tabs, phase'[u] = "live", sock'[u] = "open", kind[u] = "bash",
                 view[u] = "shown", size[u] # "fitted"
          PROVE  \E i \in 1 .. Len(inbox'[u]) : inbox'[u][i] = "resize"
      BY <3>1, <3>2, <3>3 DEF IInv, SizeUnderWay
    <3>4. QED
      BY <3>1, <3>3 DEF SizeUnderWay
  <2>3. QED
    BY <2>1, <2>2 DEF Sessions
<1>4. QED
  BY <1>1, <1>2, <1>3 DEF IInv, Tickets, Sessions

LEMMA TypeStep ==
  ASSUME NEW t \in Tabs, IInv, Type(t)
  PROVE  IInv'
<1> USE TerminalAssumption
    DEF TerminalAssumption, Type, hostVars, tabVars, ticketVars, ptyVars
<1>0. TypeOK
  BY DEF IInv
<1>a. PICK f \in Frames : Send(t, f)
  BY DEF Frames, Dims
<1>b. /\ inbox' \in [Tabs -> Seq(Frames)]
      /\ \A s \in Tabs : \A i \in 1 .. Len(inbox[s]) :
           i \in 1 .. Len(inbox'[s]) /\ inbox'[s][i] = inbox[s][i]
  BY <1>0, <1>a, SendKeeps
<1>1. TypeOK'
  <2>1. typed' \in 0 .. MaxTyped
    BY <1>0 DEF TypeOK
  <2> QED BY <1>0, <1>b, <2>1 DEF TypeOK, Frames
<1>2. Tickets'
  BY TicketsKept
<1>3. Sessions'
  <2>1. Lockstep' /\ ClosedTabHasNoSocket' /\ IdleTimerArmed'
    BY DEF IInv, Lockstep, ClosedTabHasNoSocket, IdleTimerArmed
  <2>2. ASSUME NEW s \in Tabs, phase[s] = "live", sock[s] = "open", kind[s] = "bash",
               view[s] = "shown", size[s] # "fitted"
        PROVE  \E i \in 1 .. Len(inbox'[s]) : inbox'[s][i] = "resize"
    <3>1. PICK i \in 1 .. Len(inbox[s]) : inbox[s][i] = "resize"
      BY <2>2 DEF IInv, SizeUnderWay
    <3>2. i \in 1 .. Len(inbox'[s]) /\ inbox'[s][i] = inbox[s][i]
      BY <1>b
    <3> QED BY <3>1, <3>2
  <2>3. SizeUnderWay'
    BY <2>2 DEF SizeUnderWay
  <2> QED BY <2>1, <2>3 DEF Sessions
<1>4. QED
  BY <1>1, <1>2, <1>3 DEF IInv, Tickets, Sessions

LEMMA UnmountStep ==
  ASSUME NEW t \in Tabs, IInv, Unmount(t)
  PROVE  IInv'
<1> USE TerminalAssumption
    DEF TerminalAssumption, Unmount, hostVars, ticketVars, ptyVars
<1>0. TypeOK /\ view[t] # "new"
  BY DEF IInv, Mounted, Displayed
<1>a. \/ view' = [view EXCEPT ![t] = "gone"]
      \/ \E u \in Tabs : view[u] = "hidden" /\ view' = [view EXCEPT ![t] = "gone", ![u] = "fitting"]
  OBVIOUS
<1>b. /\ view' \in [Tabs -> Views]
      /\ \A u \in Tabs : /\ view'[u] = "new" => view[u] = "new"
                         /\ view'[u] = "shown" => view[u] = "shown"
                         /\ view'[u] = "gone" => view[u] = "gone" \/ u = t
  <2>0. view \in [Tabs -> Views]
    BY <1>0 DEF TypeOK, Views
  <2>1. CASE view' = [view EXCEPT ![t] = "gone"]
    BY <2>0, <2>1 DEF Views
  <2>2. ASSUME NEW v \in Tabs, view[v] = "hidden", view' = [view EXCEPT ![t] = "gone", ![v] = "fitting"]
        PROVE  /\ view' \in [Tabs -> Views]
               /\ \A u \in Tabs : /\ view'[u] = "new" => view[u] = "new"
                                  /\ view'[u] = "shown" => view[u] = "shown"
                                  /\ view'[u] = "gone" => view[u] = "gone" \/ u = t
    BY <2>0, <2>2 DEF Views
  <2> QED BY <1>a, <2>1, <2>2
<1>c. /\ sock' \in [Tabs -> {"none", "open", "closing", "closed"}] /\ sock'[t] # "open"
      /\ \A u \in Tabs : /\ sock'[u] = sock[u] \/ (sock[u] = "open" /\ sock'[u] = "closing")
  BY <1>0 DEF TypeOK, Closed
<1>1. TypeOK'
  BY <1>0, <1>b, <1>c DEF TypeOK, Views
<1>2. Tickets'
  BY TicketsKept
<1>3. Sessions'
  <2>1. Lockstep' /\ ClosedTabHasNoSocket' /\ IdleTimerArmed'
    BY <1>b, <1>c DEF IInv, Lockstep, ClosedTabHasNoSocket, IdleTimerArmed
  <2>2. SizeUnderWay'
    BY <1>b, <1>c DEF IInv, SizeUnderWay
  <2>3. QED
    BY <2>1, <2>2 DEF Sessions
<1>4. QED
  BY <1>1, <1>2, <1>3 DEF IInv, Tickets, Sessions

LEMMA ConnectionStep ==
  ASSUME NEW t \in Tabs, IInv, Connection(t)
  PROVE  IInv'
<1> USE TerminalAssumption
    DEF TerminalAssumption, Connection, Spawn, Closed,
        hostVars, tabVars, ticketVars, ptyVars
<1>0. TypeOK
  BY DEF IInv
<1>c. \/ inbox' = inbox /\ (sock[t] # "open" \/ ~Displayed(t))
      \/ Send(t, "resize")
      \/ Send(t, "bad") /\ ~Displayed(t)
  BY DEF Opened, Dims, Displayed
<1>a. \/ Started(t) /\ kind[t] = "bash"
      \/ LookedUp(t) /\ kind[t] = "container"
      \/ Refused(t)
  BY DEF Started, LookedUp, Refused
<1>b. UNCHANGED tabVars /\ phase[t] = "arriving"
  OBVIOUS
<1>1. TypeOK'
  <2>1. SessionTypes'
    BY <1>a, OutcomeTypes DEF IInv
  <2>2. /\ used' \subseteq 0 .. MaxTime
        /\ evictions' \subseteq [ticket : 0 .. MaxTime, due : Nat]
        /\ accepted' \subseteq [ticket : 0 .. MaxTime, by : Tabs, at : 0 .. MaxTime]
    <3>1. CASE ~Valid(t)
      BY <3>1 DEF IInv, TypeOK
    <3>2. CASE Valid(t)
      <4>1. /\ used' = used \cup {ticket[t]}
            /\ evictions' = evictions \cup {[ticket |-> ticket[t], due |-> now + Ttl]}
            /\ accepted' = accepted \cup {[ticket |-> ticket[t], by |-> t, at |-> now]}
        BY <3>2 DEF Record
      <4>2. ticket[t] \in 0 .. MaxTime /\ now \in 0 .. MaxTime /\ now + Ttl \in Nat
        BY DEF IInv, TypeOK
      <4>3. /\ [ticket |-> ticket[t], due |-> now + Ttl] \in [ticket : 0 .. MaxTime, due : Nat]
            /\ [ticket |-> ticket[t], by |-> t, at |-> now]
                 \in [ticket : 0 .. MaxTime, by : Tabs, at : 0 .. MaxTime]
        BY <4>2
      <4>4. QED
        BY <4>1, <4>2, <4>3, Zenon DEF IInv, TypeOK
    <3>3. QED
      BY <3>1, <3>2
  <2>3. inbox' \in [Tabs -> Seq(Frames)]
    <3>1. inbox \in [Tabs -> Seq(Frames)]
      BY <1>0 DEF TypeOK, Frames
    <3> QED BY <1>0, <1>c, <3>1, SendKeeps DEF Frames
  <2>4. QED
    BY <2>1, <2>2, <2>3 DEF IInv, TypeOK, SessionTypes, Frames
<1>2. Tickets'
  <2>1. CASE ~Valid(t)
    <3>1. UNCHANGED <<now, ticket, ticketVars>>
      BY <2>1
    <3>2. QED
      BY <3>1, TicketsKept
  <2>2. CASE Valid(t)
    <3> DEFINE new  == [ticket |-> ticket[t], by |-> t, at |-> now]
               fate == [ticket |-> ticket[t], due |-> now + Ttl]
    <3>1. /\ used' = used \cup {ticket[t]}
          /\ evictions' = evictions \cup {fate}
          /\ accepted' = accepted \cup {new}
          /\ UNCHANGED <<now, ticket>>
      BY <2>2 DEF Record
    <3>2. /\ ticket[t] \in Nat /\ now \in Nat /\ ticket[t] <= now
          /\ now <= ticket[t] + Ttl /\ ticket[t] \notin used
      BY <2>2 DEF Valid, Fresh, IInv, TypeOK, TicketMemory
    <3>3. \A a \in accepted :
            a.ticket = ticket[t] => a.at = ticket[t] /\ now = ticket[t] + Ttl
      <4>1. SUFFICES ASSUME NEW a \in accepted, a.ticket = ticket[t]
                     PROVE  a.at = ticket[t] /\ now = ticket[t] + Ttl
        OBVIOUS
      <4>2. /\ a.ticket <= a.at /\ a.at <= a.ticket + Ttl
            /\ a.ticket \in used \/ a.at + Ttl <= now
        BY DEF IInv, TicketMemory
      <4>3. a.at \in Nat /\ Ttl \in Nat
        BY DEF IInv, TypeOK
      <4>4. QED
        BY <3>2, <4>1, <4>2, <4>3
    <3>4. \A e \in evictions : e.ticket # ticket[t]
      BY <3>2 DEF IInv, TicketMemory
    <3>5. TicketMemory'
      <4>1. \A s \in Tabs : ticket'[s] <= now'
        BY <3>1 DEF IInv, TicketMemory
      <4>2. \A a \in accepted' :
              /\ a.ticket <= a.at /\ a.at <= a.ticket + Ttl /\ a.at <= now'
              /\ a.ticket \in used' \/ a.at + Ttl <= now'
        BY <3>1, <3>2 DEF IInv, TicketMemory
      <4>3. \A e \in evictions' :
              /\ e.ticket \in used'
              /\ \A f \in evictions' : f.ticket = e.ticket => f = e
        BY <3>1, <3>4 DEF IInv, TicketMemory
      <4>4. \A e \in evictions', a \in accepted' : a.ticket = e.ticket => a.at + Ttl <= e.due
        <5>1. SUFFICES ASSUME NEW e \in evictions', NEW a \in accepted', a.ticket = e.ticket
                       PROVE  a.at + Ttl <= e.due
          OBVIOUS
        <5>2. CASE e \in evictions
          BY <3>1, <3>4, <5>1, <5>2 DEF IInv, TicketMemory
        <5>3. CASE e = fate
          BY <3>1, <3>2, <5>1, <5>3 DEF IInv, TypeOK, TicketMemory
        <5>4. QED
          BY <3>1, <5>2, <5>3
      <4>5. QED
        BY <4>1, <4>2, <4>3, <4>4 DEF TicketMemory
    <3>6. SpentTicketsExpire'
      <4>1. \A k \in used : \E e \in evictions' : e.ticket = k
        BY <3>1 DEF IInv, SpentTicketsExpire
      <4>2. fate \in evictions' /\ fate.ticket = ticket[t]
        BY <3>1
      <4>3. QED
        BY <3>1, <4>1, <4>2 DEF SpentTicketsExpire
    <3>7. ReuseOnlyAtExpiry'
      <4>1. SUFFICES ASSUME NEW a \in accepted', NEW b \in accepted',
                            a.ticket = b.ticket, a.by # b.by
                     PROVE  {a.at, b.at} = {a.ticket, a.ticket + Ttl}
        BY DEF ReuseOnlyAtExpiry
      <4>2. CASE a \in accepted /\ b \in accepted
        BY <4>1, <4>2 DEF IInv, ReuseOnlyAtExpiry
      <4>3. CASE a \in accepted /\ b = new
        BY <3>3, <4>1, <4>3
      <4>4. CASE a = new /\ b \in accepted
        BY <3>3, <4>1, <4>4
      <4>5. CASE a = new /\ b = new
        BY <4>1, <4>5
      <4>6. QED
        BY <3>1, <4>2, <4>3, <4>4, <4>5
    <3>8. QED
      BY <3>5, <3>6, <3>7 DEF Tickets
  <2>3. QED
    BY <2>1, <2>2
<1>3. Sessions'
  <2>1. Lockstep' /\ ClosedTabHasNoSocket' /\ IdleTimerArmed'
    BY <1>a, <1>b, OutcomeSessions
  <2>2. ASSUME NEW s \in Tabs, phase'[s] = "live", sock'[s] = "open", kind[s] = "bash",
               view[s] = "shown", size'[s] # "fitted"
        PROVE  \E i \in 1 .. Len(inbox'[s]) : inbox'[s][i] = "resize"
    <3>1. CASE s = t
      <4>1. sock[t] = "open" /\ Displayed(t)
        BY <2>2, <3>1 DEF IInv, TypeOK, Lockstep, Displayed
      <4>2. Send(t, "resize")
        BY <1>c, <4>1
      <4>3. Len(inbox'[t]) \in 1 .. Len(inbox'[t]) /\ inbox'[t][Len(inbox'[t])] = "resize"
        BY <1>0, <4>2, SendKeeps DEF Frames
      <4>4. QED
        BY <3>1, <4>3
    <3>2. CASE s # t
      <4>1. phase[s] = "live" /\ sock[s] = "open" /\ size[s] # "fitted"
        BY <2>2, <3>2 DEF IInv, TypeOK
      <4>2. PICK i \in 1 .. Len(inbox[s]) : inbox[s][i] = "resize"
        BY <2>2, <4>1 DEF IInv, SizeUnderWay
      <4>3. i \in 1 .. Len(inbox'[s]) /\ inbox'[s][i] = inbox[s][i]
        BY <1>0, <1>c, <4>2, SendKeeps DEF Frames
      <4>4. QED
        BY <4>2, <4>3
    <3>3. QED
      BY <3>1, <3>2
  <2>3. QED
    BY <2>1, <2>2 DEF Sessions, SizeUnderWay
<1>4. QED
  BY <1>1, <1>2, <1>3 DEF IInv, Tickets, Sessions

LEMMA CheckedStep ==
  ASSUME NEW t \in Tabs, IInv, Checked(t)
  PROVE  IInv'
<1> USE TerminalAssumption
    DEF TerminalAssumption, Checked, Spawn, Closed, hostVars, tabVars, ticketVars, ptyVars
<1>a. Started(t) \/ Refused(t)
  BY DEF Started, Refused
<1>b. UNCHANGED tabVars /\ phase[t] = "checking" /\ kind[t] = "container"
  BY DEF IInv, Lockstep
<1>1. TypeOK'
  <2>1. SessionTypes'
    BY <1>a, OutcomeTypes DEF IInv
  <2>2. QED
    BY <2>1 DEF IInv, TypeOK, SessionTypes
<1>2. Tickets'
  BY TicketsKept
<1>3. Sessions'
  <2>1. Lockstep' /\ ClosedTabHasNoSocket' /\ IdleTimerArmed'
    BY <1>a, <1>b, OutcomeSessions
  <2>2. UNCHANGED <<inbox, kind, size>> /\ \A s \in Tabs \ {t} : UNCHANGED <<phase[s], sock[s]>>
    BY <1>a DEF IInv, TypeOK, Started, Refused
  <2>3. SizeUnderWay'
    BY <1>b, <2>2 DEF IInv, SizeUnderWay
  <2>4. QED
    BY <2>1, <2>3 DEF Sessions
<1>4. QED
  BY <1>1, <1>2, <1>3 DEF IInv, Tickets, Sessions

LEMMA MessageStep ==
  ASSUME NEW t \in Tabs, IInv, Message(t)
  PROVE  IInv'
<1> USE TerminalAssumption
    DEF TerminalAssumption, Message, Rearm, hostVars, tabVars, ticketVars, ptyVars
<1>1. TypeOK'
  <2>1. Tail(inbox[t]) \in Seq({"input", "resize", "bad"})
    BY DEF IInv, TypeOK
  <2>2. inbox' \in [Tabs -> Seq({"input", "resize", "bad"})]
    BY <2>1 DEF IInv, TypeOK
  <2>3. idle' \in [Tabs -> BOOLEAN] /\ size' \in [Tabs -> {"default", "fitted"}]
    BY DEF IInv, TypeOK
  <2>4. QED
    BY <2>2, <2>3 DEF IInv, TypeOK
<1>2. Tickets'
  BY TicketsKept
<1>3. Sessions'
  <2>1. Lockstep' /\ ClosedTabHasNoSocket' /\ IdleTimerArmed'
    <3>1. \A s \in Tabs : idle[s] => idle'[s]
      <4>1. idle \in [Tabs -> BOOLEAN]
        BY DEF IInv, TypeOK
      <4>2. QED
        BY <4>1
    <3>2. QED
      BY <3>1 DEF IInv, Lockstep, ClosedTabHasNoSocket, IdleTimerArmed
  <2>2. ASSUME NEW s \in Tabs, phase[s] = "live", sock[s] = "open", kind[s] = "bash",
               view[s] = "shown", size'[s] # "fitted"
        PROVE  \E i \in 1 .. Len(inbox'[s]) : inbox'[s][i] = "resize"
    <3>1. size[s] # "fitted"
      BY <2>2 DEF IInv, TypeOK
    <3>2. PICK i \in 1 .. Len(inbox[s]) : inbox[s][i] = "resize"
      BY <2>2, <3>1 DEF IInv, SizeUnderWay
    <3>3. CASE s = t
      <4>1. Head(inbox[t]) # "resize"
        BY <2>2, <3>3 DEF IInv, TypeOK
      <4>2. inbox[t] \in Seq({"input", "resize", "bad"}) /\ inbox[t] # <<>>
        BY DEF IInv, TypeOK
      <4>3. i # 1
        BY <3>2, <3>3, <4>1, <4>2
      <4>4. inbox'[t] = Tail(inbox[t])
        BY DEF IInv, TypeOK
      <4>5. i - 1 \in 1 .. Len(inbox'[t]) /\ inbox'[t][i - 1] = "resize"
        <5> DEFINE q == inbox[t]
        <5>1. q \in Seq({"input", "resize", "bad"}) /\ q # <<>> /\ i \in 2 .. Len(q) /\ q[i] = "resize"
          BY <3>2, <3>3, <4>2, <4>3
        <5> HIDE DEF q
        <5>2. Len(Tail(q)) = Len(q) - 1 /\ Tail(q)[i - 1] = q[i]
          BY <5>1
        <5>3. i - 1 \in 1 .. Len(Tail(q)) /\ Tail(q)[i - 1] = "resize"
          BY <5>1, <5>2
        <5>4. QED
          BY <4>4, <5>3 DEF q
      <4>6. QED
        BY <3>3, <4>5
    <3>4. CASE s # t
      BY <3>2, <3>4 DEF IInv, TypeOK
    <3>5. QED
      BY <3>3, <3>4
  <2>3. QED
    BY <2>1, <2>2 DEF Sessions, SizeUnderWay
<1>4. QED
  BY <1>1, <1>2, <1>3 DEF IInv, Tickets, Sessions

LEMMA IdleStep ==
  ASSUME NEW t \in Tabs, IInv, Idle(t)
  PROVE  IInv'
<1> USE TerminalAssumption
    DEF TerminalAssumption, Idle, Closed, hostVars, tabVars, ticketVars, ptyVars
<1>1. TypeOK'
  BY DEF IInv, TypeOK, Kinds
<1>2. Tickets'
  BY TicketsKept
<1>3. Sessions'
  <2>1. Lockstep' /\ ClosedTabHasNoSocket' /\ IdleTimerArmed'
    BY DEF IInv, TypeOK, Lockstep, ClosedTabHasNoSocket, IdleTimerArmed
  <2>2. SizeUnderWay'
    BY DEF IInv, TypeOK, Lockstep, SizeUnderWay
  <2>3. QED
    BY <2>1, <2>2 DEF Sessions
<1>4. QED
  BY <1>1, <1>2, <1>3 DEF IInv, Tickets, Sessions

LEMMA ExitStep ==
  ASSUME NEW t \in Tabs, IInv, Exit(t)
  PROVE  IInv'
<1> USE TerminalAssumption
    DEF TerminalAssumption, Exit, Closed, hostVars, tabVars, ticketVars, ptyVars
<1>1. TypeOK'
  BY DEF IInv, TypeOK, Kinds
<1>2. Tickets'
  BY TicketsKept
<1>3. Sessions'
  <2>1. Lockstep' /\ ClosedTabHasNoSocket' /\ IdleTimerArmed'
    BY DEF IInv, TypeOK, Lockstep, ClosedTabHasNoSocket, IdleTimerArmed
  <2>2. SizeUnderWay'
    BY DEF IInv, TypeOK, Lockstep, SizeUnderWay
  <2>3. QED
    BY <2>1, <2>2 DEF Sessions
<1>4. QED
  BY <1>1, <1>2, <1>3 DEF IInv, Tickets, Sessions

LEMMA CloseEventStep ==
  ASSUME NEW t \in Tabs, IInv, CloseEvent(t)
  PROVE  IInv'
<1> USE TerminalAssumption
    DEF TerminalAssumption, CloseEvent, Cleanup, hostVars, tabVars, ticketVars, ptyVars
<1>1. TypeOK'
  <2>1. inbox' \in [Tabs -> Seq({"input", "resize", "bad"})]
    BY DEF IInv, TypeOK
  <2>2. SessionTypes
    BY DEF IInv, TypeOK, SessionTypes
  <2>3. SessionTypes'
    BY <2>2 DEF SessionTypes
  <2>4. QED
    BY <2>1, <2>3 DEF IInv, TypeOK, SessionTypes
<1>2. Tickets'
  BY TicketsKept
<1>3. Sessions'
  <2>1. Lockstep' /\ ClosedTabHasNoSocket' /\ IdleTimerArmed'
    BY DEF IInv, TypeOK, Lockstep, ClosedTabHasNoSocket, IdleTimerArmed
  <2>2. SizeUnderWay'
    BY DEF IInv, TypeOK, Lockstep, SizeUnderWay
  <2>3. QED
    BY <2>1, <2>2 DEF Sessions
<1>4. QED
  BY <1>1, <1>2, <1>3 DEF IInv, Tickets, Sessions

LEMMA AbortedStep ==
  ASSUME NEW t \in Tabs, IInv, Aborted(t)
  PROVE  IInv'
<1> USE TerminalAssumption
    DEF TerminalAssumption, Aborted, hostVars, tabVars, ticketVars, ptyVars
<1>1. TypeOK'
  BY DEF IInv, TypeOK, Kinds
<1>2. Tickets'
  BY TicketsKept
<1>3. Sessions'
  <2>1. Lockstep' /\ ClosedTabHasNoSocket' /\ IdleTimerArmed'
    BY DEF IInv, TypeOK, Lockstep, ClosedTabHasNoSocket, IdleTimerArmed
  <2>2. SizeUnderWay'
    BY DEF IInv, TypeOK, Lockstep, SizeUnderWay
  <2>3. QED
    BY <2>1, <2>2 DEF Sessions
<1>4. QED
  BY <1>1, <1>2, <1>3 DEF IInv, Tickets, Sessions

LEMMA EvictStep ==
  ASSUME NEW e \in evictions, IInv, Evict(e)
  PROVE  IInv'
<1> USE TerminalAssumption DEF TerminalAssumption, Evict, hostVars
<1>1. TypeOK'
  BY DEF IInv, TypeOK, tabVars, ptyVars, Kinds
<1>2. Tickets'
  <2>1. /\ used' = used \ {e.ticket} /\ evictions' = evictions \ {e}
        /\ UNCHANGED <<now, ticket, accepted>> /\ e.due <= now
    BY DEF tabVars
  <2>2. \A a \in accepted : a.ticket = e.ticket => a.at + Ttl <= now
    BY <2>1 DEF IInv, TypeOK, TicketMemory
  <2>3. \A f \in evictions' : f.ticket # e.ticket
    BY <2>1 DEF IInv, TicketMemory
  <2>4. TicketMemory'
    BY <2>1, <2>2, <2>3 DEF IInv, TicketMemory
  <2>5. SpentTicketsExpire' /\ ReuseOnlyAtExpiry'
    BY <2>1 DEF IInv, SpentTicketsExpire, ReuseOnlyAtExpiry
  <2>6. QED
    BY <2>4, <2>5 DEF Tickets
<1>3. Sessions'
  BY SessionsKept
<1>4. QED
  BY <1>1, <1>2, <1>3 DEF IInv, Tickets, Sessions

LEMMA CrashStep ==
  ASSUME IInv, Crash
  PROVE  IInv'
<1> USE TerminalAssumption
    DEF TerminalAssumption, Crash, hostVars, tabVars, ticketVars, ptyVars
<1>1. TypeOK'
  <2>1. crashes' \in 0 .. MaxCrashes /\ inbox' \in [Tabs -> Seq({"input", "resize", "bad"})]
    BY DEF IInv, TypeOK
  <2>2. SessionTypes'
    BY DEF IInv, TypeOK, SessionTypes
  <2>3. QED
    BY <2>1, <2>2 DEF IInv, TypeOK, SessionTypes
<1>2. Tickets'
  BY DEF IInv, TypeOK, Tickets, TicketMemory, SpentTicketsExpire, ReuseOnlyAtExpiry
<1>3. Sessions'
  <2>1. Lockstep' /\ ClosedTabHasNoSocket' /\ IdleTimerArmed'
    BY DEF IInv, TypeOK, Lockstep, ClosedTabHasNoSocket, IdleTimerArmed
  <2>2. SizeUnderWay'
    BY DEF IInv, TypeOK, Lockstep, SizeUnderWay
  <2>3. QED
    BY <2>1, <2>2 DEF Sessions
<1>4. QED
  BY <1>1, <1>2, <1>3 DEF IInv, Tickets, Sessions

LEMMA RestartStep ==
  ASSUME IInv, Restart
  PROVE  IInv'
<1> USE TerminalAssumption
    DEF TerminalAssumption, Restart, hostVars, tabVars, ticketVars, ptyVars
<1>1. TypeOK'
  BY DEF IInv, TypeOK, Kinds
<1>2. Tickets'
  BY TicketsKept
<1>3. Sessions'
  BY SessionsKept
<1>4. QED
  BY <1>1, <1>2, <1>3 DEF IInv, Tickets, Sessions

LEMMA TickStep ==
  ASSUME IInv, Tick
  PROVE  IInv'
<1> USE TerminalAssumption
    DEF TerminalAssumption, Tick, hostVars, tabVars, ticketVars, ptyVars
<1>1. TypeOK'
  BY DEF IInv, TypeOK, Kinds
<1>2. Tickets'
  <2>1. /\ now' = now + 1 /\ UNCHANGED <<ticket, used, evictions, accepted>>
        /\ now \in Nat /\ Ttl \in Nat
    BY DEF IInv, TypeOK
  <2>2. \A t \in Tabs : ticket[t] <= now'
    BY <2>1 DEF IInv, TypeOK, TicketMemory
  <2>3. \A a \in accepted : a.at <= now' /\ (a.ticket \in used \/ a.at + Ttl <= now')
    BY <2>1 DEF IInv, TypeOK, TicketMemory
  <2>4. TicketMemory'
    BY <2>1, <2>2, <2>3 DEF IInv, TicketMemory
  <2>5. QED
    BY <2>1, <2>4 DEF IInv, Tickets, SpentTicketsExpire, ReuseOnlyAtExpiry
<1>3. Sessions'
  BY SessionsKept
<1>4. QED
  BY <1>1, <1>2, <1>3 DEF IInv, Tickets, Sessions

\* Custom-server.ts: IInv is inductive.
THEOREM Invariance == Spec => []IInv
<1>1. IInv /\ [Next]_vars => IInv'
  <2> SUFFICES ASSUME IInv, [Next]_vars PROVE IInv'
    OBVIOUS
  <2>1. ASSUME NEW t \in Tabs, Tab(t) PROVE IInv'
    BY <2>1, MountStep, SelectStep, FitStep, IssueStep, ConnectStep, TypeStep, UnmountStep
       DEF Tab
  <2>2. ASSUME NEW t \in Tabs, Server(t) \/ Exit(t) PROVE IInv'
    BY <2>2, ConnectionStep, CheckedStep, MessageStep, IdleStep, ExitStep, CloseEventStep,
       AbortedStep DEF Server
  <2>3. CASE UNCHANGED vars
    <3>1. UNCHANGED <<tabVars, sock, phase, inbox, ptyVars, ticketVars, hostVars>>
      BY <2>3 DEF vars
    <3>2. TypeOK'
      BY <3>1 DEF IInv, TypeOK, tabVars, ptyVars, ticketVars, hostVars
    <3>3. Tickets' /\ Sessions'
      BY <3>1, TicketsKept, SessionsKept DEF hostVars, tabVars
    <3>4. QED
      BY <3>2, <3>3 DEF IInv, Tickets, Sessions
  <2>4. QED
    BY <2>1, <2>2, <2>3, EvictStep, CrashStep, RestartStep, TickStep DEF Next
<1>2. QED
  BY <1>1, InvariantInit, PTL DEF Spec

-----------------------------------------------------------------------------
(* What the runs check.                                                    *)

\* Every variable keeps its type.
THEOREM TypeCorrect == Spec => []TypeOK
<1>1. IInv => TypeOK
  BY DEF IInv
<1>2. QED
  BY <1>1, Invariance, PTL

\* A spent ticket is refused for the rest of its life but the last millisecond.
THEOREM ReuseSafe == Spec => []ReuseOnlyAtExpiry
<1>1. IInv => ReuseOnlyAtExpiry
  BY DEF IInv
<1>2. QED
  BY <1>1, Invariance, PTL

\* Every entry of _usedTickets has a timer that deletes it.
THEOREM SpentSafe == Spec => []SpentTicketsExpire
<1>1. IInv => SpentTicketsExpire
  BY DEF IInv
<1>2. QED
  BY <1>1, Invariance, PTL

\* A closed tab keeps no socket.
THEOREM ClosedTabSafe == Spec => []ClosedTabHasNoSocket
<1>1. IInv => ClosedTabHasNoSocket
  BY DEF IInv
<1>2. QED
  BY <1>1, Invariance, PTL

\* A shell other than a container's does not outlive its socket.
THEOREM ShellSafe == Spec => []ShellHasSocket
<1>1. IInv => ShellHasSocket
  BY DEF IInv, Lockstep, ShellHasSocket
<1>2. QED
  BY <1>1, Invariance, PTL

\* A running shell whose socket is open has its idle timer.
THEOREM IdleTimerSafe == Spec => []IdleTimerArmed
<1>1. IInv => IdleTimerArmed
  BY DEF IInv
<1>2. QED
  BY <1>1, Invariance, PTL

\* Once its timer has fired and its frames have arrived, the bash of a displayed tab has its size.
THEOREM SizeSafe == Spec => []SizeReaches
<1>1. IInv => SizeReaches
  <2> SUFFICES ASSUME IInv, NEW t \in Tabs, shell[t] = "running", sock[t] = "open",
                      inbox[t] = <<>>, kind[t] = "bash", view[t] = "shown", size[t] # "fitted"
               PROVE  FALSE
    BY DEF SizeReaches
  <2>1. phase[t] = "live" /\ Len(inbox[t]) = 0
    BY DEF IInv, Lockstep
  <2>2. QED
    BY <2>1 DEF IInv, SizeUnderWay
<1>2. QED
  BY <1>1, Invariance, PTL
-----------------------------------------------------------------------------
(* What a ticket buys.                                                     *)

\* A handler that is past verifyWsTicket has an acceptance, in this process, of the ticket its tab
\* came with.
Paid(t) == \E a \in accepted : a.by = t /\ a.ticket = ticket[t]

PastTheTicket == \A t \in Tabs : phase[t] \in {"checking", "live"} => Paid(t)

\* The lookup of a container, a frame, a closed tab or a late timer lets nobody in: only Connection
\* does, with the ticket it records; a ticket changes only before its tab connects.
LEMMA PaidStep ==
  ASSUME IInv, PastTheTicket, [Next]_vars
  PROVE  PastTheTicket'
<1>0. /\ phase \in [Tabs -> {"none", "arriving", "checking", "live", "done"}]
      /\ ticket \in [Tabs -> 0 .. MaxTime]
  BY DEF IInv, TypeOK
<1>1. ASSUME NEW t \in Tabs, ticket' = ticket, accepted' = accepted,
             \A u \in Tabs : u # t => phase'[u] = phase[u],
             phase'[t] \in {"checking", "live"} => phase[t] \in {"checking", "live"}
      PROVE  PastTheTicket'
  BY <1>1 DEF PastTheTicket, Paid
<1>2. ASSUME UNCHANGED <<phase, ticket, accepted>> PROVE PastTheTicket'
  BY <1>2 DEF PastTheTicket, Paid
<1>3. ASSUME NEW t \in Tabs, Issue(t) PROVE PastTheTicket'
  <2>1. phase' = phase /\ accepted' = accepted /\ \A u \in Tabs : u # t => ticket'[u] = ticket[u]
    BY <1>0, <1>3 DEF Issue, ticketVars
  <2>2. phase[t] = "none"
    BY <1>3 DEF Issue, IInv, Lockstep
  <2> QED BY <2>1, <2>2 DEF PastTheTicket, Paid
<1>4. ASSUME NEW t \in Tabs, Connect(t) PROVE PastTheTicket'
  <2>1. /\ ticket' = ticket /\ accepted' = accepted
        /\ phase' = phase \/ phase' = [phase EXCEPT ![t] = "arriving"]
    BY <1>4 DEF Connect, ticketVars
  <2> QED BY <1>0, <1>1, <2>1
<1>5. ASSUME NEW t \in Tabs, Connection(t) PROVE PastTheTicket'
  <2>1. ticket' = ticket /\ \A u \in Tabs : u # t => phase'[u] = phase[u]
    BY <1>0, <1>5 DEF Connection, Spawn, tabVars
  <2>2. CASE Valid(t)
    <3>1. accepted' = accepted \cup {[ticket |-> ticket[t], by |-> t, at |-> now]}
      BY <1>5, <2>2 DEF Connection
    <3>2. \E a \in accepted' : a.by = t /\ a.ticket = ticket'[t]
      <4>1. [ticket |-> ticket[t], by |-> t, at |-> now] \in accepted'
        BY <3>1
      <4>2. /\ [ticket |-> ticket[t], by |-> t, at |-> now].by = t
            /\ [ticket |-> ticket[t], by |-> t, at |-> now].ticket = ticket'[t]
        BY <2>1
      <4> QED BY <4>1, <4>2
    <3> QED BY <2>1, <3>1, <3>2 DEF PastTheTicket, Paid
  <2>3. CASE ~Valid(t)
    <3>1. accepted' = accepted /\ phase'[t] = "done"
      BY <1>0, <1>5, <2>3 DEF Connection, ticketVars
    <3> QED BY <1>1, <2>1, <3>1
  <2> QED BY <2>2, <2>3
<1>6. ASSUME NEW t \in Tabs, Checked(t) PROVE PastTheTicket'
  <2>1. /\ ticket' = ticket /\ accepted' = accepted /\ phase[t] = "checking"
        /\ \A u \in Tabs : u # t => phase'[u] = phase[u]
    BY <1>0, <1>6 DEF Checked, Spawn, tabVars, ticketVars
  <2> QED BY <1>1, <2>1
<1>7. ASSUME NEW t \in Tabs, CloseEvent(t) \/ Aborted(t) PROVE PastTheTicket'
  <2>1. /\ ticket' = ticket /\ accepted' = accepted
        /\ phase' = phase \/ phase' = [phase EXCEPT ![t] = "done"]
    BY <1>7 DEF CloseEvent, Aborted, tabVars, ticketVars
  <2> QED BY <1>0, <1>1, <2>1
<1>8. ASSUME NEW t \in Tabs, Mount(t) \/ Select(t) \/ Fit(t) \/ Type(t) \/ Unmount(t) \/ Message(t) \/ Idle(t) \/ Exit(t)
      PROVE  PastTheTicket'
  BY <1>2, <1>8 DEF Mount, Select, Fit, Type, Unmount, Message, Idle, Exit, tabVars, ticketVars
<1>9. CASE Crash
  BY <1>0, <1>9 DEF Crash, PastTheTicket
<1>10. CASE Restart \/ Tick \/ UNCHANGED vars \/ \E e \in evictions : Evict(e)
  BY <1>2, <1>10 DEF Restart, Tick, Evict, vars, tabVars, ticketVars
<1> QED BY <1>3, <1>4, <1>5, <1>6, <1>7, <1>8, <1>9, <1>10 DEF Next, Tab, Server

Both(p, q, x, y) == {p, q} = {x, y}

\* No two of three things can be the same two things.
LEMMA NoThird ==
  ASSUME NEW p, NEW q, NEW r, NEW x, NEW y,
         Both(p, q, x, y), Both(q, r, x, y), Both(p, r, x, y)
  PROVE  x = y
<1>1. /\ p \in {x, y} /\ q \in {x, y} /\ r \in {x, y}
      /\ x \in {p, q} /\ y \in {p, q} /\ x \in {q, r} /\ y \in {q, r} /\ x \in {p, r} /\ y \in {p, r}
  BY DEF Both
<1> QED BY <1>1

\* Every running shell was paid for with the ticket of its tab while that was alive, and one ticket
\* never has three of them.
ShellsHaveTickets ==
  /\ \A t \in Tabs : shell[t] = "running" =>
       \E a \in accepted : a.by = t /\ a.ticket = ticket[t] /\ a.at \in ticket[t] .. ticket[t] + Ttl
  /\ \A t, u, v \in Tabs :
       ( /\ shell[t] = "running" /\ shell[u] = "running" /\ shell[v] = "running"
         /\ ticket[t] = ticket[u] /\ ticket[u] = ticket[v] ) => t = u \/ u = v \/ t = v

\* custom-server.ts verifies a ticket once, before its first await: whatever comes between the
\* ticket and the shell, from crashes to evictions that are late, nobody has a shell for nothing.
THEOREM ShellsPaid == Spec => []ShellsHaveTickets
<1>1. Init => PastTheTicket
  BY DEF Init, PastTheTicket
<1>2. IInv /\ PastTheTicket => ShellsHaveTickets
  <2> SUFFICES ASSUME IInv, PastTheTicket PROVE ShellsHaveTickets
    OBVIOUS
  <2>1. ASSUME NEW t \in Tabs, shell[t] = "running"
        PROVE  \E a \in accepted : a.by = t /\ a.ticket = ticket[t] /\ a.at \in ticket[t] .. ticket[t] + Ttl
    <3>1. PICK a \in accepted : a.by = t /\ a.ticket = ticket[t]
      BY <2>1 DEF IInv, Lockstep, PastTheTicket, Paid
    <3>2. a.ticket <= a.at /\ a.at <= a.ticket + Ttl
      BY DEF IInv, TicketMemory
    <3>3. a.at \in Nat /\ a.ticket \in Nat /\ Ttl \in Nat
      BY TerminalAssumption DEF IInv, TypeOK
    <3> QED BY <3>1, <3>2, <3>3
  <2>2. ASSUME NEW t \in Tabs, NEW u \in Tabs, NEW v \in Tabs, t # u, u # v, t # v,
               shell[t] = "running", shell[u] = "running", shell[v] = "running",
               ticket[t] = ticket[u], ticket[u] = ticket[v]
        PROVE  FALSE
    <3>1. PICK a \in accepted : a.by = t /\ a.ticket = ticket[t]
      BY <2>1, <2>2
    <3>2. PICK b \in accepted : b.by = u /\ b.ticket = ticket[t]
      BY <2>1, <2>2
    <3>3. PICK c \in accepted : c.by = v /\ c.ticket = ticket[t]
      BY <2>1, <2>2
    <3>4. ASSUME NEW d \in accepted, NEW e \in accepted, d.ticket = ticket[t], e.ticket = d.ticket, d.by # e.by
          PROVE  Both(d.at, e.at, ticket[t], ticket[t] + Ttl)
      BY <3>4 DEF Both, IInv, ReuseOnlyAtExpiry
    <3>5. /\ Both(a.at, b.at, ticket[t], ticket[t] + Ttl) /\ Both(b.at, c.at, ticket[t], ticket[t] + Ttl)
          /\ Both(a.at, c.at, ticket[t], ticket[t] + Ttl)
      BY <2>2, <3>1, <3>2, <3>3, <3>4
    <3>6. ticket[t] # ticket[t] + Ttl
      <4>1. ticket[t] \in Nat /\ Ttl \in Nat \ {0}
        BY TerminalAssumption DEF IInv, TypeOK
      <4> QED BY <4>1
    <3>7. ticket[t] = ticket[t] + Ttl
      <4> HIDE <2>2, <3>1, <3>2, <3>3, <3>4, <3>6
      <4> QED BY <3>5, NoThird, Zenon
    <3> QED BY <3>6, <3>7
  <2>3. \A t, u, v \in Tabs :
          ( /\ shell[t] = "running" /\ shell[u] = "running" /\ shell[v] = "running"
            /\ ticket[t] = ticket[u] /\ ticket[u] = ticket[v] ) => t = u \/ u = v \/ t = v
    BY <2>2, Zenon
  <2>4. \A t \in Tabs : shell[t] = "running" =>
          \E a \in accepted : a.by = t /\ a.ticket = ticket[t] /\ a.at \in ticket[t] .. ticket[t] + Ttl
    BY <2>1, Zenon
  <2> QED BY <2>3, <2>4, Zenon DEF ShellsHaveTickets
<1> QED BY <1>1, <1>2, Invariance, PaidStep, PTL DEF Spec
=============================================================================
