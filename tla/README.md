# HomeForge: TLA+ models, model checking and proofs

HomeForge is a self-hosted home server: a Next.js dashboard in one Node process, a terminal server beside it, a
backup sidecar, two interchangeable host agents, and a set of third-party services (Nextcloud, Matrix, Jellyfin,
Vaultwarden, Ollama, Kiwix, ...) run by Docker Compose. This directory holds models of the parts of it whose
correctness depends on order: who wrote which file before the crash, which callback ran while another request was
waiting, which timer fired late. The models are translated from the code, action by action; `PROJECT.json` names, for
every definition, the lines it stands for. Paths below are relative to the root of the repository; `Dashboard1` stands
for `Dashboard/Dashboard1`.

Contents: 1 the system; 2 the modules; 3 the runs; 4 the proofs; 5 where code and documents part; 6 what is not
modelled; 7 the plan; 8 how to run.

## 1. The system

### 1.1 How the parts interact

    browser ── HTTP ──> dashboard (Next.js, one process) ── HTTP + token ──> backup sidecar ── docker, cp, restic ──> volumes
       │                     │  └── HTTP ──> host agent, Ollama, docker                             ^
       └── WebSocket ──> custom-server.ts (same container, own process) ── docker exec ──> shells   │
                             │                                                                      │
                    data/: key file, homeforge.db  <─────────── the sidecar reads the key file ─────┘

The dashboard and the sidecar share a file (the wrapped entropy key) and derive the same internal token from it. The
dashboard and the terminal server share a secret, created at container start, that authenticates tickets. The database
belongs to the dashboard alone. Handlers of one Node process interleave at `await`, never between; processes die
between any two system calls and Docker restarts them, with one exception: `start.sh` runs the terminal server in the
background and nobody restarts it alone.

### 1.2 Components

| Component | State it keeps | Operations | What is hard | What makes it correct |
|---|---|---|---|---|
| Setup and master key (`app/api/auth/setup`, `lib/keystore.ts`, `lib/db/index.ts`, `scripts/bootstrap.ts`, `start.sh`, sidecar `crypto.ts`) | key file, database key, admins, `setup_complete`, the process environment, the open handle, the sidecar's cached token | first-run setup, boot, first use of the database, sidecar start | several writes to two stores, a crash between any two, two setups at once, values cached at start | the key file opens the database; setup never ends without an admin; both holders agree on the token |
| Rate limiter (`lib/rate-limit.ts`) | a map from key to time stamps | `checkRateLimit`, hourly sweep, Retry-After of its callers | the edge of the window, rounding to seconds, a sweep that must not forget what still counts | no window holds more than the limit; who waits as told is let in; memory is bounded |
| Terminal (`custom-server.ts`, `ws-ticket`, `terminal-panel.tsx`) | spent tickets and their timers, a socket, a PTY and an idle timer per tab | issue, connect, verify, spawn, message, idle, exit, close, crash | a tab closed during any `await`, late timers, a listener registered after an `await` | tickets are spent once; a closed tab leaves nothing behind; every shell ends |
| Backup sidecar (`backup-sidecar/src`) | `backup_history`, `restore_log`, staging directories, restic repository; the containers it pauses or stops | back up, restore, delete, three-o'clock timer | every external command can fail, the process can die between any two, services write while it copies | containers run again; a success is whole; copies are of one moment |
| Accounts and sessions (`app/api/auth/{login,totp,users,logout}`, `lib/auth.ts`, `lib/session.ts`, `lib/db/{users,totp}.ts`) | users, TOTP secrets, temporary tokens, sealed cookies | login, second factor, pairing, disabling, user management | rows read before an `await` and used after it, the role inside the cookie, two tabs pairing at once | a second factor that is on is usable and needed; a token buys one session; the deleted stay out |
| Windows, dock and home scroll (`app/page.tsx`, `dock.tsx`, `sidebar.tsx`) | open windows with closing and minimised marks, removal timers; section, snap lock, cool-down, boundary confirmation | open, close, minimise, navigate; wheel, scroll, settle | timers that outlive what they were set for, an animation and a timeout racing to release one lock | a window goes only when closed; one section per gesture; the lock is always released |
| Ollama manager (`ollama-section.tsx`, `app/api/ollama`) | models, progress entries and their timers, an abortable stream, the drawer | list, pull, delete with rollback, inspect, minimise | answers out of order, a stream that ends in the middle, snapshots written back, a window unmounted in a pull | the list is Ollama's when nothing is under way; one pull at a time; a drawer tells of its model |
| Backup panel and proxies (`backup-section.tsx`, the widget of `metrics-section.tsx`, `app/api/backup`) | polled list, choice of services, confirmation, progress | start, restore, delete, poll | polls that overtake each other, a sidecar that answers nothing while it works, a list replaced under a dialogue | it ends up showing what the sidecar holds; a restore names its services |
| Host agents (`agent/main.go`, `scripts/host-agent.js`) | a cache of metrics | `/metrics` | requests that miss together; a contract between two languages | answers are recent; each field is understood in its unit |
| Stats routes and metrics panels (`app/api/stats`, `metrics-section.tsx`) | `metrics_history`, the chart, module-level copies | collect, insert, prune, read history, poll | a history that overtakes a live reading, windows that come and go, fallbacks number by number | a panel never goes back; the chart is in order |
| Start-up and migration locks (`config/nextcloud/startup-waiter.sh`, `config/matrix/entrypoint.sh`, `scripts/wait-for-db.sh`) | lock files, versions of the data | wait, lock, migrate, unlock, serve | containers killed in a migration | a lock tells of a migration |
| Update and rollback (`scripts/update.sh`, `rollback.sh`) | archives, images, containers | archive, pull, up, roll back | a failure or an interrupt between any two commands | an update stands on its own whole archive; no old version on new data |
| Installation and secrets (`boom.sh`, `install.sh`, `migrate-secrets.sh`) | `.env`, directories, secret files | create once, reuse | interruption after the first file | the databases keep the passwords they were made with |
| Setup wizard, login page, middleware (`app/setup/page.tsx`, `app/login/page.tsx`, `lib/recovery-key.ts`) | step, points of the mouse, recovery key, pending call, cookie | collect, confirm, submit, pair, skip, log in | a derivation awaited while the mouse moves, lost answers, a second browser, plain http | the key the user kept is the key of the server |
| Theme and sidebar (`theme-provider.tsx`, `sidebar.tsx`) | theme of each page, `localStorage`, popups, bouncing icon | choose, load, bounce | a list of light themes written three times, several pages | a reload keeps the look |
| Kiwix window (`kiwix-section.tsx`, `app/api/kiwix`) | list of files, tab, restart and its poll | list, choose, restart | an effect that runs at every render, failed lists | nobody is sent to the manager without a reason |
| Media panels and toasts; vendored UI kit; deployment configuration; health scripts; Tailscale status | display, static files | - | - | - |

`PROJECT.json` lists forty hazards at the line where they bite, with the properties that would catch them. Others were
judged smaller and are kept here only: the sidecar's staging directory stays in `/tmp` after a failure
(`snapshot.ts:119`); the calendar of the scheduler, which a delayed tick can skip (`scheduler.ts:8`); an admin who takes
his own role away (`users/[id]/route.ts:32`); memory of the rate limiter and of spent tickets, and the release of the
lock of a snap, each settled by a proof (`MemorySafe`, `RetrySafe`, `SpentSafe`, `LockSafe`).

## 2. The modules

### 2.1 Setup

`POST /api/auth/setup` checks the rate limit and `setup_complete`, awaits the body, writes the entropy key to
`.homeforge.key`, re-encrypts the database with a key derived from it, awaits a password hash, inserts the first admin
and marks setup complete. Each write is an action (`StoreOpen`, `StoreWrite`, `Rekey`, `Insert`, `Mark`), so `Crash`
falls between any two, and each may throw instead: the rekey before it is committed or, in the pragma that returns to
WAL, behind it (`RekeyThrows` leaves either key in the database), the `INSERT` (`InsertThrows`) and the last `UPDATE`
(`MarkThrows`, which leaves an account behind). `cpu` is the request that holds the event loop in between, so no other
handler does. `Boot` is `bootstrap.ts` and `start.sh`: it derives the database key from the machine UUID while there
is no key file, from the file afterwards, and refuses a torn file. `GetDb` is the singleton `_db`: opened at first use
with whatever the environment holds, and kept even if the key was wrong. `SidecarBoot` is the module load of the
sidecar's `crypto.ts`.

Abstractions: a key derived from an entropy key is that key (derivation is assumed injective); "torn" is any content
that is not a complete wrapped key; the SQLite `rekey` is one transaction.

### 2.2 SlidingWindow and RateLimit

`SlidingWindow` is the promise: a limiter that remembers every request for ever and allows one when fewer than
`Max[k]` were allowed in the window. `RateLimit` is `lib/rate-limit.ts`: filter, compare, push; a sweep of idle keys;
and the `Retry-After` header its callers compute from `resetAt`. Time is an integer; `Second` is its ticks per second,
so the rounding of the code (`ceil` on one side, `floor` on the other) is in the model. `SlidingWindowSpec`, the
specification of `SlidingWindow` under the identity mapping of `now`, `log`, `serial` and `answer`, is a property of
`RateLimit`.

### 2.3 Terminal

A tab of `terminal-panel.tsx` (mount, fetch of a ticket, `connect`, unmount), the ticket route, and
`custom-server.ts`: the connection handler up to and after its `await isContainerRunning`, `_usedTickets` with the
timers that delete from it, messages, the idle timer, the end of a shell, clean-up. A socket is "closing" from the first
`close()` of either end to the close event, so that a handler that has not registered its listener misses the event
exactly when the code does. `Crash` kills the server with its sockets, shells and memory of tickets; `Restart` is the
restart of the container. Every ticket in the model was issued by the route, so its HMAC is right and is left out; it is
its issue time, so two tabs of one millisecond hold the same ticket, as in the code.

Sizes depend on which tab is in front. `view[t]` is "fitting" while the tab is displayed and its 50 ms timer pends,
"shown" after it, "hidden" in the background; `Mount`, `Select` and `Unmount` move the display, `Fit` is the timer. A
hidden tab has no box, so what it sends when its socket opens, or when a drag of the panel ends that began while it was
in front, is a size of nulls (`Dims`: a "bad" frame): `node-pty` throws on it, and `custom-server.ts:227` types the JSON
text into the shell. A tab that was hidden before its terminal was drawn sends nothing (`Opened`). In either case the
PTY keeps its default size until the tab is selected and its timer fires, which is what `SizeReaches` says.

### 2.4 Backup

A job of the sidecar uses synchronous commands, so it holds the event loop from its first command to its last: `job` is
that job, and requests, deletions and the timer run only when it is `Idle`. Each external command (`restic init`, `docker
pause`, `cp`, `docker unpause`, `restic backup`, ..., `docker start`) is a step that succeeds or fails as the code's
`try`/`catch`/`finally` lets it, with two exceptions that are part of the preceding step: making directories, and the
removal of the restore directory. `cp` is two steps, the start and the end of its reading, since services that are not
paused write meanwhile. The content of a directory is its origin and a count of writes. `Container` is `containerMap`,
`Writers` says who really writes to the mounted directory (`docker-compose.yml:680-685`). The constant `Restic` stands
for what lies outside the code, the answer of `restic restore` to what `restore.ts` asks of it: it may not know the id it
is given ("unknown"; the code gives it the id of a job, so it does not), put the services below the absolute path that
was backed up ("below", what restic does once it knows the id), or at the top of the target, where `restore.ts:66` looks
("top"). The run and the proofs allow all three, and `found[r]` is what restore `r` finds where it looks. Each command of
a restore may fail with its work undone or half done (`Breaks`); mounts that refuse to be written to are one cause. The
two `UPDATE`s at its end are two steps (`LogRestore`, `MarkRestored`), and a crash falls between them. `seen` records
which kinds of faults have occurred, so that properties can be stated "unless docker refused or the sidecar died" and
are still checked with all faults enabled.

### 2.5 Accounts

Login, the exchange of a temporary token for a session, the pairing of an authenticator, and user management, over the
tables `users` and `totp_temp_tokens`. A handler is split where it awaits something that leaves the process: `Login` /
`PasswordOk` around argon2, `VerifyToken` / `Grant` around the sealing of the cookie, `DisableRead` / `Disable` around the
body of the request. `verifyTotpCode` computes before it returns, so a code is checked in the step that read the row.
A cookie carries user and role; `requireAdmin` looks at nothing else, and so does `Admin(c)`. A code is the secret it
was computed from. `shown[u]` is what the authenticator of `u` was given; `bought[k]` counts the sessions a token was
exchanged for. `older` is a history too: the logins that were under way when their user enabled the second factor, and
may still end with the password alone. `Init` is the state after setup.

### 2.6 Home

`app/page.tsx`, in one browser. *Windows*: `openWindows` as a function from applications to a window (minimised,
closing) or `NULL`, and the number of removal timers an application has pending; `OpenApp`, `DockClick`, `Minimise`,
`CloseApp` and `Faded` are the handlers and the callback of the 400 ms timer. A click on the icon of a window that
fades calls `openApp`, which does nothing with one; `asked`, a history, remembers it. *Navigation*: `GoTop`,
`ComeHome` and `Leave` are the three buttons that change the view, with what the clean-up of the wheel effect takes
back. *Wheel*: one action per way through `onWheel` (held, inner scroller, edge, end, snap), `Scroll` is the scroll
handler, `Settled` and `GiveUp` are the animation frame and the 1200 ms timeout of `settleHomeSnap`, which share
`Release`.

A position is a section: `y` is what `scrollY` rounds to, `goal` where a smooth scroll is going, `still` whether it has
arrived. Whether an inner scroller is at its edge is a free choice at each event, because its content loads and is
scrolled by hand. Of the times in the code two are related and kept so: 220 ms of cool-down outlast the 180 ms that
separate two gestures (`CoolEnds` also makes the next wheel event fresh). The rest may end at any moment. `Drag` is what
the browser does by itself: scrollbar, keyboard, touch. `did` and `away` are histories: what the wheel has moved in this
gesture, and whether the page was left and has not scrolled since.

`Frame` has no state: it is what of `Home` is painted, opaque, lit in the sidebar and reached by the pointer, at the
three positions `Home` tells apart. It is how stale state becomes visible.

### 2.7 BackupService and BackupPanel

`BackupService` is what the sidecar promises: a status per job, one job worked on at a time, no answer while it works.
It is used twice. `Backup` implements it (`ImplementsService`: a service that is busy with the job whose commands run,
and the status column; deaths of the process and rows left behind included), and `BackupPanel` is composed with it, so
that the panel relies on nothing the detailed model does not deliver. `BackupPanel` is `backup-section.tsx` or, by the
initial value of `view`, the widget in `metrics-section.tsx`; the routes in between forward one call each. A call is
"sent" until the sidecar takes it, "ok" or "failed" until its answer is heard, in any order; the five minutes after
which Node gives up the call that starts a backup are `GiveUp`, at any time after it is sent. Three histories say
which lists have overtaken which: `newer` orders those on their way by when they were read, `overtaken` are those of
them that a newer one has preceded to the panel, and `crossed` remembers that one of these arrived. (An earlier form,
which kept the newest list only, missed an overtaking among three; with two calls at once there are no three, so the
run could not tell. The attempt to prove `RestoreNamesServices` for any number of calls did.)

### 2.8 HostAgent, Stats, MetricsPanel

Three layers, each `EXTENDS` the one below. `HostAgent` is the cache of either agent: get, collect outside the lock, set;
the Go agent stamps the cache at the end of a collection, the Node agent at its beginning. `Stats` adds the two
routes: containers first, then the agent for at most two seconds, `docker ps` and the directory of the locks, a row into
`metrics_history` with pruning, the answer. The agent is heard (`Hears`) with a reading, without one, or too late; the
directory may be unreadable, which is a 500 without a row (`HealthFails`).
`MetricsPanel` adds the window that polls, the range buttons, the copies at module level that outlive the window, and
everybody else who polls the same route (`OtherPoll`: other panels, other browsers). A reading is the time it was collected
at and the number of the answer it was merged into; everything numeric is left to `Readings`.

### 2.9 Readings

What an answer is made of, number by number: for each of some twenty values, which machine it comes from (the agent,
the mounts of a Linux host, the dashboard's own container, the sum over the containers) and in which unit, for every
agent, with mounts and without, and whatever is `amiss`: failed collectors, unreadable files, and "idle", a CPU whose
load is 0.0, which `stats/route.ts:509` takes for none. `Amiss` bounds which of these come together. Then what the
panel makes of it (`Pills`, `System`, `Stored`, `Tables`, `Curves`, `Badges`), including its `||` and `??`, which
differ when a number is zero.

### 2.10 Startup, Install, Update

One stack of modules over the host: `Startup` is two containers that wait for the database, lock, migrate, unlock and
serve, with Docker's `on-failure` restarts, deaths of either and of the database. An image of Synapse without
`update_synapse_database` migrates as it starts, without a lock (`StartsUnlocked`, `MigratesUnlocked`, `ServerFails`).
`Install` is `install.sh` with `migrate-secrets.sh`, and `boom.sh`; `Update` is `update.sh` with `rollback.sh`. A
script is one action per command that changes something, `pc` is its next command; a command fails as `set -e`, `||`
and `if` of the script say, and `Interrupted` ends a script between any two. A secret is the number of the run that
made it; the shell makes its file before openssl has written, so a cut there (`SecretCut`) leaves an empty one that
later runs accept, and a database that has to start on an empty password does not (`UpFails`). `dbPass` is the
password each of MariaDB and Postgres was initialised with. Data and images are versions; an archive is the versions
and locks tar found, each service read before or after what it does meanwhile, and whether tar came to its end. Of a
directory that tar reads while it changes only the version it tells is kept: that such a copy may be torn inside is
not in the model. Unpacking may stop anywhere, by an error or an interrupt and not only at the end of a broken
archive, with each directory and lock old or new.

### 2.11 Portal

What a browser meets before the dashboard: the middleware, the wizard with its canvas, its two derivations and four
steps, and the login page. A call of the page is one record whose answer, or the call itself, may be lost. `secure`
says whether the browser trusts the origin: if not, `crypto.subtle` and Secure cookies are missing. `rival` is the
request of a second browser. The entropy key is two halves, the recovery key encodes the first and decodes to it with
zeros behind it, as in `recovery-key.ts`; Base58 and checksum are a bijection here. `kept` is the key on the screen
when the user confirmed to have it.

### 2.12 Ollama, Panel, Sidebar, Kiwix

`Ollama` is the manager's window with its routes and the server's library: list and delete calls that overlap in
slots, a pull whose stream reports, breaks or ends, optimistic deletion that writes its snapshot back on failure, the
drawer, and `Unmount`, which is what minimising does. The abort of the page's fetch ends the stream to the page; the
pull route hands no signal on, so the pull may go on at Ollama (`orphans`, `Leave`) and end with a model nobody heard
of (`LeftEnds`). `Panel` is the terminal panel around the tabs of `Terminal`: ids, fit functions, the box (height,
maximised, on its way), drags, and every timer that fits a terminal. `Sidebar` is the theme provider in several pages
of one browser with the storage they share, and the sidebar's popups and bounces; the list of light themes is three
definitions there, as it is written out three times in the code. `Kiwix` is the window of the offline library with its
first list, restart and poll.

### 2.13 MC modules and constants

`MCAccounts` puts `RateLimit` beside `Accounts`, of which it shares nothing (a behaviour is one of the module in `focus`),
and adds symmetry and the functions that a `.cfg` cannot write; `MCBackup` adds such functions, `MCDesk` symmetry and
`OneAmiss`, `MCTerminal` what kind of shell the first tab asks for, `MCHome` the module `Frame`; `MCSetup`,
`MCBackupPanel`, `MCMetrics`, `MCStack` and `MCPortal` add nothing. `Desk` puts the six modules of 2.9, 2.11 and 2.12
side by side: they share no variable and no step of one is seen by another, so a behaviour is one of a single module
(`focus`), with the others in an initial state, and the reachable states are the union of theirs, not the product.
Symmetry is used only in runs without liveness properties. The definitions that begin with `Mut` are mutated forms of
the definition after them, with the mistake a programmer might make; `PROJECT.json` pairs each with the property it
breaks, which shows that the property depends on that line of the code.

## 3. The runs

All states are reachable under the bounds below; TLC explores each run completely. Deadlock is not checked where the
system may really stop (a server nobody calls, a clock at its bound); it is checked for `Backup` and `Home`.

| Run | Bounds | Distinct states |
|---|---|---|
| `setup` | 2 requests, 2 keys, 2 names, 2 faults | 41 512 |
| `accounts` | 2 users, 2 secrets, 1 token, 2 requests in flight; or 2 keys of the limiter (window as long as the sweep age; shorter window), limits 2 and 1, 2 ticks per second, clock to 6 | 1 923 643 |
| `terminal` | 2 tabs, life of a ticket 1, clock to 1, 1 thing done in a tab, 1 crash | 2 294 208 |
| `terminal_ends` | 1 tab, life of a ticket 1, clock to 2, 2 things done in it, 1 crash | 34 442 |
| `backup` | 1 backup job, 1 restore, 2 services, 3 containers, 1 write per directory, any answer of restic, any faults | 316 590 |
| `home` | 2 applications (as many as open in a window), 2 removal timers each | 170 560 |
| `desk` | 2 models, 2 calls, 5 clicks; 3 entropy keys, 2 points, 7 clicks; 3 tabs; 2 pages, 3 themes (1 light), 2 icons; 2 files, 2 turns; 1 container, 1 thing amiss | 901 913 |
| `backup_panel` | 1 job, 2 services, 2 calls, 4 clicks, section or widget | 358 551 |
| `metrics` | 2 calls, time to live 2, slowest collection 1, clock to 4, 2 rows kept, 2 readings, 3 clicks | 5 871 759 |
| `stack` | 2 services, versions 1 and 2, 1 retry, 2 faults, 3 scripts | 3 212 677 |
| violation runs | as above, or smaller | one disagreement each (section 5) |

Every counter that a bound of the table caps counts what the environment does (clicks, faults, requests, scripts, time),
never what the code does; the programs themselves run to their end within it.

**setup.** Two requests are what it takes to have a handler overtake another; two different keys, for one to replace
the other; two faults, for a crash after an I/O error, two of either, or a retry that is struck as well. Shown:
between handlers the key file opens the database unless a failure fell between the truncation of the key file and the
end of the rekey (`OpenableUnlessInterrupted`); the tokens agree unless two keys were stored; a request past the rekey
ends with setup complete, unless it is struck itself or asks for the name of an account that a stopped request has
left behind (`RekeyedLeadsToSetup`; a retry under another name gets through). *Fairness:* `WF(Boot)` and
`WF(SidecarBoot)` are `restart: unless-stopped`; `WF` of a handler that has begun is the event loop. No request has to
arrive.

**terminal.** Two tabs suffice for two uses of one ticket, and for one to be in the background while its socket opens;
the clock reaches the last millisecond of a ticket issued at 0, and the timer that forgets it may fire late. The one
thing done in the tabs is a key, a change of the box or a click on a title. Shown: two acceptances of one ticket are
exactly its life apart; a closed tab keeps no socket; a `bash` has the size of its tab once the tab is shown and its
frames have arrived, whatever was sent or typed while it was hidden.

**terminal_ends.** Tabs share the display and tickets, and neither decides when a shell ends, so one tab will do; with it
there is room for two frames, which the idle timer has to outlast. Shown: a shell that had its socket ends. *Fairness:*
weak fairness of the server's own events for a tab, which the event loop delivers while the server runs; none for
typing, closing, exiting, crashing or restarting. (After a crash the shells are dead with the server, so nothing needs the
restart.)

**backup.** One job and one restore interleave with two services (one whose writer is paused, one whose writer is
not), deletion, crash and restart; a second job cannot overlap the first since a job holds the event loop. Shown: only
the service at work is down unless docker refused or the sidecar died; copies of paused services are of one moment; a
logged restore has put back all it was asked for and found where it looks, and touched nothing else; what the history
calls a success has a whole snapshot of every service it names (`SuccessIsWhole`), though `cp`, restic, a deletion or
the process may fail in between; jobs end (unless the sidecar dies); and every behaviour is one of `BackupService`.
*Fairness:* the job's next step (it is one synchronous call chain) and `WF(Restart)` (restart policy).

**accounts.** An admin and one more user, who may be a second admin or a viewer; two requests in flight is what every
race here takes; two secrets, so that one can replace the other. Shown: an enabled second factor has a secret its user
was shown; a token buys one session though sent twice; while a second factor is on, the password alone gives a cookie
only to a login that was under way when it was enabled (`PasswordIsNotEnough`); a deleted user gets sessions only from
requests that were in flight at his deletion. The limiter is checked beside them: the clock runs over three windows of
one key and two of the other, and past two sweeps; two ticks per second let an oldest hit fall on a full second and between
two. Shown: no window holds too many requests, wherever it ends (`WindowCap`), although the store is pruned and swept;
every answer is that of the limiter that forgets nothing (`SlidingWindowSpec`).

**home.** Two applications are all that open in a window; two timers let one closed, reopened and closed again have a
late one. Shown: no timer of an earlier close takes a window that is open again (`OpenWindowsStay`) and a closed one
goes, also if it is minimised while it fades, unless its icon is clicked before, which a comment says should bring it
back (section 5); at rest the page is where the next wheel event starts from, unless home was left and nothing has
scrolled since (`RestsWhereItThinks`); and then exactly one thing can be seen and the sidebar says which
(`ScreenFollows`). *Fairness:* timers fire, frames are drawn and the browser ends its scrolling (`WF` of `Faded`,
`Settled`, `GiveUp`, `Scroll`); nobody has to click, turn the wheel or keep still.

**desk.** Each part from every initial state of its own. Two models and two calls let answers overtake each other and
one pull follow another; three keys are two derivations and a rival's; three tabs are one that goes, one that stays
and one that is new under an id that must not be used again; two pages share a storage; two files and an empty shelf
are more, fewer and none. Shown: once nothing is under way the list of models is the library, unless list and delete
calls overlapped or a pull that was left behind ended meanwhile; the page reads one pull at a time; a drawer tells of
its model, unless two were asked for at once; the recovery key a user kept is the one of the key the server keeps; one
terminal is shown and fits its box, unless nothing was told that the box changed; a reload keeps the look of a page,
three lists of light themes notwithstanding; nobody is sent to Kiwix's manager without a reason; a Go agent that
answers in full is believed in the right units, but for the CPU of an idle machine, and without an agent nothing
claims to be one's.

**backup_panel.** Two calls let a list overtake another and a start race with a poll. Shown: a restore is asked for
with the services of its backup although the list changes under the dialogue; and (liveness) a panel that stays open
and visible ends up with the table, cards and pills of the rows the sidecar holds. *Fairness:* `SF(Poll)` is the
interval, strong because a tick may find both slots taken; `WF` of calls being dealt with and heard, of the end of a
job and of the restart of the sidecar. Nobody has to click.

**metrics.** Four ticks are twice the time to live; two readings and two rows let a history overtake a live reading.
Shown: an answer of the Go agent is younger than time to live plus collection, one of the Node agent younger than the
time to live or collected just now; a panel never goes back as long as the agent does not collect twice at once; the
chart increases unless a history has overtaken a reading it contains.

**stack.** Three scripts are an installation, an update and the rollback of it, or any three others; two faults are a cut in
one and a failure in the next, or two deaths in a migration. Shown: update.sh touches images only behind a whole archive of
its own, and its rollback unpacks that one; no container starts on data a newer version has migrated; a migration has its
lock, unless Synapse migrates by itself, and a lock that outlives it belongs to a container that was killed; the passwords
MariaDB and Postgres were initialised with are never replaced. The faults include the empty secret and the unpacking cut
off in the middle.

## 4. The proofs

Eight modules hold the proofs: `SetupProofs`, `TerminalProofs`, `AccountsProofs` (with the rate limiter), `HomeProofs`
(with `Frame`), `UpdateProofs` (with the backup panel), `BackupProofs`, `MetricsProofs` and `DeskProofs`. They hold for
every value of the constants that the named assumptions of the modules allow: `SetupAssumption`, `TerminalAssumption`,
`AccountsAssumption`, `RateLimitAssumption`, `HomeAssumption`, `StartupAssumption` with `InstallAssumption`,
`BackupPanelAssumption`, `BackupAssumption`, `HostAgentAssumption` with `StatsAssumption` and `MetricsPanelAssumption`,
and `DeskAssumption` with `OllamaAssumption`. What they ask for is that bounds are numbers, that a counted set is
finite, that `NULL` is none of the values it stands beside, and, of the code, what is said below; TLC evaluates them in
every run. Each proof has an inductive invariant, checked by TLC before it was proved, one lemma per action or per part
of the invariant, and one theorem per property. Every invariant that a passing run lists is a theorem,
and so is every action property. The type invariants and the
inductive invariants are therefore not among the properties of the runs. To check them with TLC all the same, as one
does before changing a module, let its MC module extend the proof module and add them to the `.cfg`.

- **Setup.** None of the properties is inductive alone: that the database opens depends on where each request stands and
  on whether it died. `IInv` adds `LoopDiscipline` (between two disk writes the event loop belongs to one live request),
  `ProcessState` (a live request has a living process and an open handle), `KeyWindow` (the keys part only while a
  request is, or was stopped, in the window of the rekey) and `Provenance` (where every key and token came from). From
  it: `TypeCorrect`, `Invariance`, `OpenableSafe`, `AdminSafe`, `TokensSafe`, `SettledFinal`, and `ServingSafe`, which
  says that a server cannot read its database only if a set-up was interrupted, and is stated by the theorem only.
- **RateLimit.** The store is not the log: entries are pruned and swept. `NothingRecentLost` says that the store holds
  every hit a window still counts; with it the filter equals the window of the log (`FilterIsWindow`), hence `CapSafe`,
  `MemorySafe` and `LimiterRefines`: `RateLimit` implements `SlidingWindow`. `RetrySafe` needs more: a client that was
  refused is told a time at which its oldest hit has left, so `RetryReason` carries the hits that were the reason for
  each refusal, and `RoundUp` is the arithmetic of the two roundings. The assumption that no window exceeds the age of
  the sweep is needed, and is what the values in the code (5 min, 15 min, 1 h against 1 h) satisfy.
- **Terminal.** `TicketMemory` relates spent tickets, their timers and the acceptances of the past: a ticket that was
  accepted is remembered until its timer, which is not due before its life is over. `Lockstep` says where a tab, its
  socket, its handler and its shell can stand together; `SizeUnderWay` that the size of a tab whose timer has fired,
  if it has not arrived, is still in the inbox. From them: reuse, spent tickets, closed tabs, shells, idle timers,
  sizes. `ShellsPaid` follows a shell back to its ticket: the ticket is verified once, before the first `await` of the
  handler, so `PastTheTicket` carries the acceptance through everything that may come between (the lookup of the
  container, a crash, a late eviction), and since two acceptances are exactly one life apart (`ReuseOnlyAtExpiry`), a
  ticket never has three shells.
- **Accounts.** `Pairing` (a secret in the table has been shown; enabled means there is one) and `Spent` (a token that
  is gone has bought one session or is buying it in exactly one request). From them `FactorUsable`, `TokenOnce`,
  `SecretStays`; with `NewCookies` (what a new cookie comes from) the action properties `SecondFactorHolds`, which
  needs `Overtaken` (a login that read a row without the second factor is older than its enabling, for as long as that
  lasts), and `GoneStayOut`, for which `Spent` says that a token in use keeps its user.
- **Home.** Windows and page have no variable in common, so `IInv` is proved in two groups (`WindowStep`, `PageStep`).
  For the page the strengthening is `GestureHeld` (a gesture that turned a page is held back by the lock or the
  cool-down until it is over; one that scrolled inside a section is still about that section) and `Drawn` (every scroll
  event is handled unless home was left). From it: `OneWindow`, `OneThing`, `LockSafe`, `RestSafe`, and the action
  property `OpenWindows`. `ScreenSafe` puts the two groups together with `Frame`: at most one window is in front
  (`OneWindowShown`), and at rest `y`, `at` and what is lit agree (`RestsWhereItThinks`). The proof needs `Highlighted`
  to be the chain of `?:` that it is in `page.tsx:331`: as a `CASE` with two arms that overlap, which it was once, it
  says nothing about which is taken.
- **Update** (with `Install` and `Startup`, whose actions it composes). `IInv` has four parts. `ContainersSafe` adds
  `LocksExplained` (a lock belongs to a migration or to one that was killed) and `Current` (no data and no container
  is ahead of the images; rollback.sh leaves the images alone, so this is never undone). `ArchivesSafe` says the same
  of the data in every archive, and with `Packing` that the newest archive is the one tar is writing for this update:
  hence whatever is unpacked is old enough to run. `Stopped` keeps the containers away meanwhile. `HostSafe` is about
  the secrets: a file that is there, empty or not, stays as it is, and a database was initialised from the file it
  has. From them: `BackedUp`, `NeverDowngrades`, `LocksTell`, `PasswordSafe`, for any number of runs and archives; the
  facts on `[seq EXCEPT ![i] = e]` and on `SubSeq` are the library's.
- **Backup.** The parts of `IInv` are independent but for the types. `HeldByItsJob` says which command has a container
  down, so that its counterpart brings it up. `CopiesSound`: while `cp` reads a directory that only the paused container
  writes, what it read first is what is there. `StagedSoFar`: at every point of the job, the staging directory is the
  list of the row without what is still to do; so restic stores all of it (`SnapshotsNamed`). `PutSoFar` is the same for
  a restore. From them: `OnlyOneDown`, `CopiesAreStates`, `LogsAreTrue` (for whatever restic may do),
  and `StepSimulation`, hence `ServiceSafety`: the safety part of the refinement of `BackupService`. `SuccessSafe`
  needs one fact more than they give: `StagedSoFar` says which services are staged, `ReadSoFar` that each staged copy has
  been read to its end, so what restic stores is whole (`StoredWhole`), and no snapshot goes again (`SnapshotsStay`). The
  assumption that "unread" is no id of a job keeps the mark of a half copy apart from the marks of data. `HistoryKept` is
  the action property beside it: a row keeps its services, a deleted one stays deleted, the repository only grows.
- **Metrics** (`MetricsPanel` with the routes and the agent below it). `AnswersAreRecent` needs `Ages`: how far the
  stamp of a cache entry may be from its reading, for each agent. That the panel never goes back needs where every
  reading is on its way: `OneFetch` (the panel waits for one answer at a time), `Numbered` (answers are numbered as they
  are put together) and `InTime` (while collections do not overlap, the cache holds the latest reading anybody has, and
  a running collection is later still), hence `Newer`: what is about to be heard is not older than what is shown. From
  them: `AgesBounded` and the action property `NeverBack`. `Quiet` and `UpToKept` carry `InTime` through the steps in
  which the agent learns nothing. That the chart increases has an invariant of its own, `ChartInv`: the table and every
  history read from it are in order, whatever is pruned and whichever rows could not be written (`Tabled`); the chart
  has nothing that was not put together (`Charted`); a page waits for one answer at most (`OnePending`), which is newer
  than all there is on the chart (`Ahead`). Lemmas on sequences (`EndOrdered`, `AppendOrdered`, `NewestOrdered`) carry
  it through cutting, appending and replacing. From it: `ChartSafe`.
- **BackupPanel**, in `UpdateProofs`, with the service it is composed with. A restore is confirmed in a dialogue about a
  row, and its services are looked up in a list that is replaced meanwhile. `PanelInv` says why that row is still there:
  lists on their way are ordered by when they were read, and a later one has every row of an earlier one that was not
  deleted (`ListsOrdered`); one that was not overtaken has every such row of the table (`TableGrows`); so the row asked
  about is on the screen until it is deleted (`AskedIsShown`). `HaveRows` adds that nothing is shown, listed or asked
  about that never had a row. From it: `RestoreSafe`. `PanelUsesService`: hidden behind its panel, the service is driven
  only as `BackupService` lets itself be driven (`PanelSpec` implies its initial condition and its steps), which is the
  assumption under which `ServiceSafety` replaces it by the sidecar. `RowsMoveOn` holds the rows the panel shows to their
  order: none changes its services, comes back after a deletion or begins anew.
- **Desk.** `Parts` says that a behaviour of `Desk` is one of each of its six modules: `Turns` shows it for a step, so
  each has an inductive invariant over its own variables and nothing else.
  *Ollama* (`OllamaInv`): `OnePull` relates the streams the page reads to the call of `handlePull` that runs, allows
  its list only after its stream, and gives a timer to exactly the bars that are over, so that no timer takes the bar
  of a running pull; `OneDrawer` says that all that is asked for is the model of the drawer; `OneList` what the list
  is in the middle of a deletion: before Ollama has answered it is the library without the model, with the library
  kept aside to be put back, unless a pull that was left behind has ended (`crossed`). From them `PullSafe`,
  `DrawerSafe`, `ListSafe`.
  *Portal* (`PortalInv`): `CallFits` (which calls a page may be waiting for), `OneKey` (one derivation begins, and what
  it derives is what the wizard goes on with and the user keeps), `KeyStored` (from the first write of the set-up to the
  end, the server has that key). From them `KeptKey`: the recovery key that was kept is that key's.
  *Panel* (`PanelInv`): ids of tabs are distinct and below the counter, the active one is among them, and a terminal
  that can be fitted has been, or a timer will do it. Closing a tab is a filter over a sequence: `WithoutOne` shows that
  it takes out one tab and moves up the rest. From it `PanelSafe`, and `TabsStayClosed`: the counter never goes back and
  an id that was closed names no other tab, so no late timer, fit function or socket reaches the wrong one.
  *Sidebar* (`SidebarInv`): the page that was the last to choose is dressed as the storage says; `ReloadSafe`.
  *Kiwix* (`KiwixInv`): an empty list that is not being fetched is one that was heard of; `ManagerReason`.
  *Readings* (`ReadingsInv`): the screen is what the last answer made of the machine; `GoUnderstood` then follows
  field by field, for every machine and for anything amiss at once (`Amiss` is any set of such sets here), from lemmas on
  what the route merges and in which unit the panel writes it.

Some of the theorems state properties that no run lists any more, since they are proved for all values:
`SetupDoneHasAdmin`, `SettledIsFinal`, `EntryBounded`, `RetryHonoured`, `SpentTicketsExpire`, `ShellHasSocket`,
`IdleTimerArmed`, `ServesUnlessInterrupted`, `SecretKept`, `OneWindowShown`, `OneThingPerGesture`, `LockHasTimers`.

Only model-checked: everything under fairness, which the prover does not reach (`RekeyedLeadsToSetup`,
`ShellsWithSocketsEnd`, `JobsEnd`, `ClosedWindowsGo`, `ListCatchesUp`, and the fairness of `BackupService` in
`ImplementsService`, whose safety part is `ServiceSafety`); and the two runs that expect a violation.

## 5. Where code and documents part

Each of these has a run in which TLC finds the behaviour, and an entry under "findings" with the quoted line.

| Run | What happens |
|---|---|
| `backup_restore_works` | `restore.ts:40` takes the id of the job for the id of a snapshot and `:48` hands it to restic, which knows no such id: the restore of a successful backup ends as failed before it has touched a service. |
| `wizard_redirects` | A wizard whose second factor is verified or skipped says "Redirecting to your dashboard" and stays: only the step before sets the timer, and only when no pairing could be begun. |

Three more are stated as properties that the code does not keep to, in the modules they are about: `ClickedWindowsReopen`
(`Home`), `KeyRecovers` (`Portal`) and `AgentFirst` (`Readings`). No run lists them. As a `PROPERTY` of `Home.cfg`, or as an
`INVARIANT` in a `.cfg` for `Portal` or `Readings` alone, TLC finds each violated in a few steps:

- a click on the icon of a window that is closing calls `openApp` (`page.tsx:314`), which returns the list as it was
  (`:277`), and the timer takes the window; the comment at `page.tsx:310` says "if closing -> reopen", and
  `27_Dock_UX.md:56` "Click app while closing -> reopen immediately". `ClosedWindowsGo` excepts such a window (`asked`);
- the recovery key encodes the first 32 of the 64 bytes of the entropy key and decodes to them with zeros behind
  (`recovery-key.ts:103`), while the keys of the database and the sessions are derived from all 64
  (`lib/crypto/entropy.ts:70-78`): the decoded key opens nothing, nothing calls `verifyAndDecodeRecoveryKey`, and
  `app/setup/page.tsx:299` says that everything can be recovered "from this key alone". `KeptKeyMatches` says only that
  the key that was kept is the right half;
- a load of 0.0, which the Go agent reports for an idle machine (`main.go:127-131`), is passed over for the sum of the
  containers (`stats/route.ts:509`), although the comment above it says "Priority: Agent > Linux Mounts > Container Stats"
  and the panel shows the agent as connected. `GoAgentUnderstood` excepts it.

Met while reading, without a run of their own. *Setup and tokens:*

- a crash after the key file is touched (`setup/route.ts:63`) and before the rekey commits: the next boot derives a key that
  does not open the database, although `bootstrap.ts:23-24` says that it "stays consistent across pre-setup reboots".
  `OpenableUnlessInterrupted` names this window;
- `INTERNAL_TOKEN` is exported by a boot that finds the key file (`bootstrap.ts:46`); the process that performed the
  setup has none, so the sidecar refuses its requests until a restart, against `38_Backup_Sidecar_Migration.md:59`
  ("authenticated proxies");
- a second setup that overlaps the first, or follows one that failed, overwrites the key file (`keystore.ts:49`,
  `setup/route.ts:18`): `setup_complete` is checked once, before the first `await`;
- the recovery key can be confirmed as saved without having been revealed;
- an account left by a set-up that stopped between the `INSERT` and the last `UPDATE` makes a retry under the same name
  end with 500 (`users.ts:36`), and the wizard does not say that another name would do;
- a visitor without a session gets 401 from `setup/status` once setup is complete and stays on the wizard
  (`app/setup/page.tsx:165` says he is redirected);
- over plain http on a host other than localhost `crypto.subtle` is missing, so the wizard stays at 100 %, and the
  Secure cookie is not kept, so a login leads back to the login page.

*Terminal:*

- a tab whose socket opens while it is in the background sends a size of nulls, or none (`terminal-panel.tsx:158-161`);
  the `catch` at `custom-server.ts:227` types the JSON text of the former into the shell, and the size is right only once
  the tab has been selected;
- a tab closed while the server awaits `isContainerRunning` (`custom-server.ts:148`): the close event precedes the
  listener, the shell is spawned, and the idle timer closes a socket that is closed already; the shell runs for ever,
  against `19_Terminal_Redesign.md:37`. `ShellsWithSocketsEnd` is about the others;
- a ticket lives one millisecond longer than it is remembered (`custom-server.ts:81`: `>` against a timer that is due at
  the same millisecond); `ReuseOnlyAtExpiry` states exactly that; `docs/ARCHITECTURE.md` gives 30 s for its life, the
  code 5 s;
- the first `resize` frame of a container shell may arrive before the listener and is lost (`custom-server.ts:211`),
  which is why `SizeReaches` speaks of `bash` only;
- closing the last tab hides the panel and keeps the tab, but deletes its fit function (`terminal-panel.tsx:362`);
  maximising fits the terminal at 100 ms while the box moves for 300 ms; after maximising and restoring, the resize
  strip has no listener; the browser window's own resizing is heard by nobody; `execTarget` is never set.

*Backup:*

- `containerMap` pauses the Matrix server, but the mounted directory is the one its database container writes
  (`snapshot.ts:12`, `docker-compose.yml:684`), so that copy is not of frozen files (`38_Backup_Sidecar_Migration.md:45`);
  `PausedCopyIsOneState` is about the paused ones;
- a restore that fails half way leaves a cleared or partial directory (`restore.ts:72-76`); nothing keeps the old one;
- `DELETE /backups/:id` looks for a file that never exists, so the snapshot stays (`index.ts:82-100`);
- the `UPDATE` of a failed backup names a column that the table does not have (`snapshot.ts:133`); the row becomes
  failed only through the catch of the caller, and the original error is lost;
- restic is given the absolute path of the staging directory and restores it below its target, while `restore.ts:66` looks
  for the services directly below the target. The wrong id keeps the code from getting there; with a right one every
  service would be skipped and the restore logged as a success that put back nothing (`Restic` = "below"), so
  `LoggedRestoreIsComplete` speaks of what was found;
- the directories that a restore clears and writes are mounted read-only (`docker-compose.yml:680-686`), so a restore that
  got that far would fail at its first file (`Breaks` has it);
- the panel's "Restore logs" tab asks for `/api/backup/restore-logs`, which does not exist, and is always empty; a
  first list that fails shows "No Snapshots"; the pill "Snapshots" counts failed rows too;
- `POST /backups` is answered before or after the work, so the button may come back while the job runs; while it runs
  the sidecar answers no list, so a "Running..." row that can be seen is one a crash has left, and it disables the
  button until it is deleted; the widget ignores the services chosen in it.

*Accounts:*

- disabling the second factor checks the code against a row read before the body arrived (`totp/verify/route.ts:96`), so
  the flag of a factor that was disabled and paired again meanwhile can be cleared;
- `session.test.ts:32` expects `sameSite` `lax`, the code and the change log say `strict`.

*Windows, scrolling, themes:*

- `closeAllWindows` (`page.tsx:299`), the `Dock` component, `window-wrapper.tsx`, `dashboard-section.tsx` and
  `components/metrics` are used by nobody; a minimised window is unmounted, although `06.2_Design_Extension.md:13`
  lets the user "maintain state across multiple applications"; the home section is transparent behind an open window
  (`27_Dock_UX.md:43` says visible);
- a minimised window leaves no button of the sidebar lit (`page.tsx:430`); this is the exception of `ScreenFollows`;
- the home button pressed during a snap is undone: 1200 ms after the snap began its timeout sends the page to the section
  again (`page.tsx:157`), since `handleNavigate` calls nothing off;
- leaving home from the second or third section and coming back leaves `snapTargetRef` and `scrollProgress` as they were,
  with the page at its top (`page.tsx:350-360`): until something scrolls the next wheel event starts from the old section,
  the welcome section is transparent, and the button of the old section is lit;
- `page.tsx:353` asks for an instant scroll with `behavior: "auto"`, which takes the `smooth` of the style sheet
  (`page.tsx:592`); the wheel over an open window turns the page behind it (`page.tsx:168` does not look at windows);
- a stored theme id of no theme applies nothing; the timer of a first bounce ends a second one early.

*Ollama and Kiwix:*

- the pull route hands the abort of the browser to nobody (`pull/route.ts:17-21`): a pull whose window was closed or
  minimised may go on at Ollama, beside a new pull of the same model; the page reads one of them;
- a pull that ends with a line that lacks its line feed, such as the route's own 503 or 504, or in the middle, is shown
  as a success (`ollama-section.tsx:209`);
- the refresh of Kiwix compares with the number of files of an older render: clicked while the first list is on its
  way, its poll ends at the first answer; if nothing has changed it spins its full 30 s; a failed list counts as an
  empty one, hence as a change.

*Statistics:*

- the Go agent gives its uptime in seconds (`main.go:86`) and the route passes it on as days (`stats/route.ts:531`),
  against `main.go:47`; a failed `host.Info` or `load.Avg` gives zero, which is shown instead of the route's own
  reading for the one and is taken for a missing value for the other; the Node agent has no load in the place where
  the route looks for it;
- a row of history is written per GET, whoever asks, although a comment speaks of 30 s intervals; it stores the
  containers' CPU and memory where the live curve shows the agent's; the route ignores `range`, and of the copies at
  module level only that of `1h` is read;
- in the Go agent two requests that miss at once both collect, and the slower, older one is stored last (`main.go:317`);
  `ShownNeverGoesBack` excepts it; `docker stats` has no timeout; a failed `docker ps` shows everything as running.

*Scripts:*

- `boom.sh:187` and `migrate-secrets.sh:39` let the shell make a secret's file before openssl has written: a cut there
  leaves an empty secret that every later run accepts and no database starts on;
- an image of Synapse without `update_synapse_database` migrates when it starts, and no lock tells of it
  (`entrypoint.sh:28-30`);
- sh runs no EXIT trap for a signal it does not handle, so the lock of a killed migration stays, although
  `55_Migration_Waiter_Phase9.md:24` says that the trap cleans up; Nextcloud's is removed by its next upgrade only;
- on a fresh clone `boom.sh` stops at `touch ./data/matrix/synapse/homeserver.log` (`boom.sh:167`): nothing has made the
  directory; the "Self-Healing" of the secrets (`boom.sh:177`) looks at the first file only;
- an interrupted `tar` leaves a partial archive that is the newest (`rollback.sh` run by hand takes it); `rollback.sh`
  leaves the images of the update, so the old data is migrated again at once.

## 6. What is not modelled, and why

The components marked `not_modelled` in `PROJECT.json` each have the reason there. In short: pure input and output
(health scripts, parsers), display (media panels, toasts), generated or vendored code (the UI kit), static
configuration (except what it says about mounts and restart policies, which are constants and fairness here), and code
that nothing calls. Inside modelled components: key derivation, HMACs and password hashes are injective or correct by
assumption; SQLite transactions are atomic; formatting, validation messages, logging, sizes, colours and animation
curves are left out; so are the media directory and the `mysqldump` of a backup, whose failure is only logged, the
collectors of the agents but for whether they fail, package installation and certificates, and the demonstrations of
the landing page.

## 7. The plan

What is left, in order of what the system gains from each:

1. `BackupPanel` over the detailed `Backup`: `PanelUsesService` and `ServiceSafety` are the two halves; the statement
   about both in one module is not written down.
2. The calendar of the scheduler, as a module between `Backup` and a clock.
3. That the models a panel shows after a deletion that failed are those of before, as an action property of `Ollama`;
   `OneList` has it as a state.

## 8. How to run

    cd tla
    tlc -workers 2 -config Setup.cfg MCSetup        # any pair of the table "runs" in PROJECT.json
    tlapm SetupProofs.tla                           # any of the eight proof modules

With two workers `accounts`, `desk`, `metrics` and `stack` take one to three minutes each, `backup`, `backup_panel`, `home`
and `terminal` about one, every other run seconds.
