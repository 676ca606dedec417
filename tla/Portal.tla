-------------------------------- MODULE Portal --------------------------------
(* What a browser meets before the dashboard: middleware.ts, the setup     *)
(* wizard (app/setup/page.tsx, lib/recovery-key.ts) and the login page     *)
(* (app/login/page.tsx), with as much of the routes as the pages see; the  *)
(* modules Setup and Accounts have what these do.  A second browser may    *)
(* run the wizard at the same time.                                        *)
(*                                                                         *)
(* A browser that does not trust the page's origin (plain http, another    *)
(* host than localhost) has no crypto.subtle and keeps no Secure cookie.   *)
(* A call may be lost before it reaches the server, or its answer after.   *)
EXTENDS Integers

CONSTANTS
  Keys,       \* entropy keys, each derived at most once
  Required,   \* points of the mouse that fill the bar (150 in the code)
  MaxClicks,  \* bound on what the user does after the mouse has been moved
  NULL

VARIABLES
  server,    \* done (setup_complete), key (the entropy key stored), totp of the admin
  rival,     \* the request of the other wizard: "none", its key while it is hashing, "over"
  secure,    \* the origin is trusted
  cookie,    \* a session
  page,      \* "login", "setup", "home"
  status,    \* the call of the page to setup/status: its answer, "sent", "none" or "lost"
  wizard,    \* the state of SetupPage and its canvas
  deriving,  \* deriving[k]: "none", "hash" (deriveEntropyKey), "encode" (generateRecoveryKey)
  login,     \* loginStep and tempToken of LoginPage: "credentials" or "totp"
  call,      \* the call the page waits for, or NULL; loading is call # NULL
  redirect,  \* the timer that leaves the wizard is set
  kept,      \* history: the recovery key on the screen when the user confirmed to have it
  raced,     \* history: the requests of both wizards overlapped
  clicks

wizardVars == <<wizard, deriving, kept>>
netVars    == <<server, rival, raced>>
vars == <<netVars, secure, cookie, page, status, wizardVars, login, call, redirect, clicks>>

-----------------------------------------------------------------------------
(* Keys.                                                                   *)

\* An entropy key of 64 bytes: SHA-512 of the random seed and the points.
Entropy(k) == [head |-> k, tail |-> k]

\* The recovery key: its first half and a checksum.
RecoveryKey(e) == [key |-> e.head, sum |-> e.head]

\* What a recovery key gives back: the first half, filled up with zeros.
Decoded(r) == IF r.sum = r.key THEN [head |-> r.key, tail |-> NULL] ELSE NULL

\* What the database, the cookies and the tickets are keyed with is derived from all of it.
Opens(r, e) == r # NULL /\ Decoded(r) = e

-----------------------------------------------------------------------------
(* Pages.                                                                  *)

Fresh == [step |-> "collect", points |-> 0, done |-> FALSE, entropy |-> NULL,
          recovery |-> NULL, saved |-> FALSE]
Idle == [k \in Keys |-> "none"]

Public(p) == p \in {"login", "setup"}

\* sessionOptions: in production the cookie of a session is Secure.
NewCookie == secure

\* The guard sends a request for the dashboard without a session to /login.
Guarded(p) == IF Public(p) \/ cookie THEN p ELSE "login"

\* A page begins: its state is new, and but for the dashboard it asks for the status.
Loads(p) ==
  /\ page' = p
  /\ status' = IF Public(p) THEN "sent" ELSE "none"
  /\ wizard' = Fresh /\ deriving' = Idle /\ login' = "credentials" /\ kept' = NULL
  /\ redirect' = FALSE /\ call' = NULL

Init ==
  /\ server = [done |-> FALSE, key |-> NULL, totp |-> "off"] /\ rival = "none"
  /\ secure \in BOOLEAN /\ cookie = FALSE
  /\ page = "login" /\ status = "sent" /\ wizard = Fresh /\ deriving = Idle
  /\ login = "credentials" /\ call = NULL /\ redirect = FALSE
  /\ kept = NULL /\ raced = FALSE /\ clicks = 0

Click == clicks < MaxClicks /\ clicks' = clicks + 1

\* An address is entered or the page is loaded again, while it waits for no answer.
Visit(p) ==
  /\ Click /\ call = NULL /\ Loads(Guarded(p))
  /\ UNCHANGED <<netVars, secure, cookie>>

\* GET setup/status.
Answer == IF ~server.done THEN "incomplete" ELSE IF cookie THEN "complete" ELSE "unauthorized"

StatusServed ==
  /\ status = "sent"
  /\ status' \in {Answer, "lost"}
  /\ UNCHANGED <<netVars, secure, cookie, page, wizardVars, login, call, redirect, clicks>>

\* The wizard leaves for /login when setup is complete: a 401 does not say so.  /login
\* leaves for the wizard when it is not.
StatusArrives ==
  /\ status \in {"complete", "incomplete", "unauthorized"}
  /\ CASE page = "setup" /\ status = "complete"   -> Loads("login")
       [] page = "login" /\ status = "incomplete" -> Loads("setup")
       [] OTHER -> status' = "none" /\ UNCHANGED <<page, wizardVars, login, call, redirect>>
  /\ UNCHANGED <<netVars, secure, cookie, clicks>>

-----------------------------------------------------------------------------
(* The wizard.                                                             *)

\* Mutated form: nothing remembers that the key is being derived.
MutFills(w) == w.points + 1 >= Required

\* Another point fills the bar, for the first time.
Fills(w) == w.points + 1 >= Required /\ ~w.done

\* The mouse moves over the canvas by three pixels or more.
Move ==
  /\ page = "setup" /\ wizard.step = "collect" /\ wizard.points <= Required
  /\ ~wizard.done \/ Fills(wizard)
  /\ wizard' = [wizard EXCEPT !.points = @ + 1, !.done = @ \/ Fills(wizard)]
  /\ IF Fills(wizard) /\ secure
       THEN \E k \in Keys : /\ deriving[k] = "none" /\ server.key # k
                            /\ deriving' = [deriving EXCEPT ![k] = "hash"]
       ELSE UNCHANGED deriving
  /\ UNCHANGED <<netVars, secure, cookie, page, status, login, call, redirect, kept, clicks>>

\* handleEntropyComplete, up to the await.
Derived(k) ==
  /\ deriving[k] = "hash"
  /\ deriving' = [deriving EXCEPT ![k] = "encode"]
  /\ wizard' = [wizard EXCEPT !.entropy = k]
  /\ UNCHANGED <<netVars, secure, cookie, page, status, login, call, redirect, kept, clicks>>

\* handleEntropyComplete, the rest.
Encoded(k) ==
  /\ deriving[k] = "encode"
  /\ deriving' = [deriving EXCEPT ![k] = "none"]
  /\ wizard' = [wizard EXCEPT !.recovery = RecoveryKey(Entropy(k)), !.step = "confirm"]
  /\ UNCHANGED <<netVars, secure, cookie, page, status, login, call, redirect, kept, clicks>>

\* The box is ticked, or not, whether or not the key was revealed.
Tick ==
  /\ Click /\ page = "setup" /\ wizard.step = "confirm"
  /\ wizard' = [wizard EXCEPT !.saved = ~@]
  /\ UNCHANGED <<netVars, secure, cookie, page, status, deriving, login, call, redirect, kept>>

Continue ==
  /\ Click /\ page = "setup" /\ wizard.step = "confirm" /\ wizard.saved
  /\ wizard' = [wizard EXCEPT !.step = "account"] /\ kept' = wizard.recovery
  /\ UNCHANGED <<netVars, secure, cookie, page, status, deriving, login, call, redirect>>

\* The form of the account, while nothing is on its way.
Form == page = "setup" /\ wizard.step = "account" /\ call = NULL

Back ==
  /\ Click /\ Form
  /\ wizard' = [wizard EXCEPT !.step = "confirm"]
  /\ UNCHANGED <<netVars, secure, cookie, page, status, deriving, login, call, redirect, kept>>

\* The calls of the two pages.
Fetches == [kind : {"setup", "secret", "verify", "login", "second"},
            state : {"sent", "hashing", "ok", "totp", "error"}]

Fetch(kind) == call' = [kind |-> kind, state |-> "sent"]

\* handleAccountSubmit with passwords that agree and are long enough.
Submit ==
  /\ Click /\ Form /\ Fetch("setup")
  /\ UNCHANGED <<netVars, secure, cookie, page, status, wizardVars, login, redirect>>

\* The answer to a call of the wizard, an error shown where it is one.
AnswerOfWizard ==
  /\ call # NULL /\ page = "setup" /\ call.state \in {"ok", "error"}
  /\ \/ /\ call.kind = "setup" /\ call.state = "ok" /\ Fetch("secret")
        /\ UNCHANGED <<wizard, redirect>>
     \/ /\ call.kind = "secret" /\ call' = NULL
        /\ wizard' = [wizard EXCEPT !.step = IF call.state = "ok" THEN "totp" ELSE "done"]
        /\ redirect' = (call.state = "error")
     \/ /\ call.kind = "verify" /\ call.state = "ok" /\ call' = NULL
        /\ wizard' = [wizard EXCEPT !.step = "done"] /\ UNCHANGED redirect
     \/ /\ call.kind # "secret" /\ call.state = "error" /\ call' = NULL
        /\ UNCHANGED <<wizard, redirect>>
  /\ UNCHANGED <<netVars, secure, cookie, page, status, deriving, login, kept, clicks>>

\* The step of the QR code, while nothing is on its way.
Pairing == page = "setup" /\ wizard.step = "totp" /\ call = NULL

Verify ==
  /\ Click /\ Pairing /\ Fetch("verify")
  /\ UNCHANGED <<netVars, secure, cookie, page, status, wizardVars, login, redirect>>

Skip ==
  /\ Click /\ Pairing
  /\ wizard' = [wizard EXCEPT !.step = "done"]
  /\ UNCHANGED <<netVars, secure, cookie, page, status, deriving, login, call, redirect, kept>>

\* After 1500 ms, which only handleAccountSubmit waits for.
Redirect ==
  /\ redirect /\ Loads(Guarded("home"))
  /\ UNCHANGED <<netVars, secure, cookie, clicks>>

-----------------------------------------------------------------------------
(* The login page.                                                         *)

LoginForm(step) == page = "login" /\ login = step /\ call = NULL

Credentials ==
  /\ Click /\ LoginForm("credentials") /\ Fetch("login")
  /\ UNCHANGED <<netVars, secure, cookie, page, status, wizardVars, login, redirect>>

SecondFactor ==
  /\ Click /\ LoginForm("totp") /\ Fetch("second")
  /\ UNCHANGED <<netVars, secure, cookie, page, status, wizardVars, login, redirect>>

BackToCredentials ==
  /\ Click /\ LoginForm("totp") /\ login' = "credentials"
  /\ UNCHANGED <<netVars, secure, cookie, page, status, wizardVars, call, redirect>>

AnswerOfLogin ==
  /\ call # NULL /\ page = "login" /\ call.state \in {"ok", "totp", "error"}
  /\ CASE call.state = "ok"   -> Loads(Guarded("home"))
       [] call.state = "totp" -> login' = "totp" /\ call' = NULL
                                 /\ UNCHANGED <<page, status, wizardVars, redirect>>
       [] OTHER -> call' = NULL /\ UNCHANGED <<page, status, wizardVars, login, redirect>>
  /\ UNCHANGED <<netVars, secure, cookie, clicks>>

\* The button of the sidebar, which loads /login whatever the answer; without one it stays.
Logout ==
  /\ Click /\ page = "home" /\ cookie' = FALSE /\ Loads("login")
  /\ UNCHANGED <<netVars, secure>>

-----------------------------------------------------------------------------
(* The server.                                                             *)

Answers(s) == call' = [call EXCEPT !.state = s]

\* POST setup, up to the hashing of the password: the key is stored.
SetupBegins ==
  /\ call # NULL /\ call.kind = "setup" /\ call.state = "sent"
  /\ IF server.done THEN Answers("error") /\ UNCHANGED netVars
     ELSE /\ Answers("hashing") /\ server' = [server EXCEPT !.key = wizard.entropy]
          /\ raced' = (raced \/ rival \in Keys) /\ UNCHANGED rival
  /\ UNCHANGED <<secure, cookie, page, status, wizardVars, login, redirect, clicks>>

\* The account is there, the mark set and the cookie on its way; or the name is taken.
SetupEnds ==
  /\ call # NULL /\ call.kind = "setup" /\ call.state = "hashing"
  /\ \/ /\ Answers("ok") /\ server' = [server EXCEPT !.done = TRUE] /\ cookie' = NewCookie
     \/ /\ raced /\ Answers("error") /\ UNCHANGED <<server, cookie>>
  /\ UNCHANGED <<rival, raced, secure, page, status, wizardVars, login, redirect, clicks>>

\* The same request of the other wizard.
RivalBegins(k) ==
  /\ rival = "none" /\ ~server.done
  /\ deriving[k] = "none" /\ k \notin {wizard.entropy, server.key}
  /\ rival' = k /\ server' = [server EXCEPT !.key = k]
  /\ raced' = (raced \/ (call # NULL /\ call.state = "hashing"))
  /\ UNCHANGED <<secure, cookie, page, status, wizardVars, login, call, redirect, clicks>>

RivalEnds ==
  /\ rival \in Keys /\ rival' = "over" /\ server' = [server EXCEPT !.done = TRUE]
  /\ UNCHANGED <<raced, secure, cookie, page, status, wizardVars, login, call, redirect, clicks>>

\* The other routes: a password or a code may be wrong, and a session is asked for.
Served ==
  /\ call # NULL /\ call.state = "sent" /\ call.kind # "setup"
  /\ \/ Answers("error") /\ UNCHANGED <<server, cookie>>
     \/ /\ call.kind = "secret" /\ cookie /\ server.totp # "on" /\ Answers("ok")
        /\ server' = [server EXCEPT !.totp = "pending"] /\ UNCHANGED cookie
     \/ /\ call.kind = "verify" /\ cookie /\ server.totp # "off" /\ Answers("ok")
        /\ server' = [server EXCEPT !.totp = "on"] /\ UNCHANGED cookie
     \/ /\ call.kind = "login" /\ server.done /\ UNCHANGED server
        /\ IF server.totp = "on" THEN Answers("totp") /\ UNCHANGED cookie
                                 ELSE Answers("ok") /\ cookie' = NewCookie
     \/ /\ call.kind = "second" /\ server.totp = "on" /\ UNCHANGED server
        /\ Answers("ok") /\ cookie' = NewCookie
  /\ UNCHANGED <<rival, raced, secure, page, status, wizardVars, login, redirect, clicks>>

\* The request, or its answer, is lost: a network error for the page.
Lost ==
  /\ call # NULL /\ call.state \notin {"hashing", "error"} /\ Answers("error")
  /\ UNCHANGED <<netVars, secure, cookie, page, status, wizardVars, login, redirect, clicks>>

-----------------------------------------------------------------------------
(* What the wizard says of itself.                                         *)

Order == [collect |-> 0, confirm |-> 1, account |-> 2, totp |-> 3, done |-> 4]

\* The bars above it that are lit: one for every step that is over.
Bars == {i \in 0..3 : Order[wizard.step] > i}

\* The last panel.
SaysDone == page = "setup" /\ wizard.step = "done"

-----------------------------------------------------------------------------
Next ==
  \/ \E p \in {"login", "setup", "home"} : Visit(p)
  \/ StatusServed \/ StatusArrives
  \/ Move \/ Tick \/ Continue \/ Back \/ Submit \/ AnswerOfWizard \/ Verify \/ Skip \/ Redirect
  \/ \E k \in Keys : Derived(k) \/ Encoded(k) \/ RivalBegins(k)
  \/ Credentials \/ SecondFactor \/ BackToCredentials \/ AnswerOfLogin \/ Logout
  \/ SetupBegins \/ SetupEnds \/ RivalEnds \/ Served \/ Lost

Spec == Init /\ [][Next]_vars

\* Calls are answered and timers fire; nobody has to click.
FairSpec ==
  /\ Spec /\ WF_vars(StatusServed) /\ WF_vars(StatusArrives) /\ WF_vars(Redirect)
  /\ WF_vars(AnswerOfWizard) /\ WF_vars(AnswerOfLogin)
  /\ WF_vars(SetupBegins) /\ WF_vars(SetupEnds) /\ WF_vars(Served)

-----------------------------------------------------------------------------
TypeOK ==
  /\ server \in [done : BOOLEAN, key : Keys \cup {NULL}, totp : {"off", "pending", "on"}]
  /\ rival \in Keys \cup {"none", "over"} /\ {secure, cookie, redirect, raced} \subseteq BOOLEAN
  /\ page \in {"login", "setup", "home"}
  /\ status \in {"sent", "complete", "incomplete", "unauthorized", "none", "lost"}
  /\ wizard.step \in {"collect", "confirm", "account", "totp", "done"}
  /\ deriving \in [Keys -> {"none", "hash", "encode"}] /\ login \in {"credentials", "totp"}

\* Once the wizard shows the account as made, its third bar lit, the recovery key the user
\* confirmed to have saved is the one of the key the server keeps, whatever was derived, loaded
\* again, lost or submitted twice before, unless two wizards were at work at once.
KeptKeyMatches ==
  page = "setup" /\ 2 \in Bars /\ ~raced
    => kept = RecoveryKey(Entropy(server.key))

\* "You can recover your entire HomeForge installation from this key alone"
\* (app/setup/page.tsx:299): that recovery key, decoded, is what the server keeps.
\* The code does not keep to it.
KeyRecovers ==
  page = "setup" /\ 2 \in Bars /\ ~raced
    => Opens(kept, Entropy(server.key))

\* "Setup complete! Redirecting to your dashboard" (app/setup/page.tsx:524): a wizard that
\* says so is left.
DoneLeavesWizard == SaysDone ~> ~SaysDone
=============================================================================
