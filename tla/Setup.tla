-------------------------------- MODULE Setup --------------------------------
(***************************************************************************)
(* The first-run setup of the dashboard and the life of its master key.    *)
(*                                                                         *)
(* POST /api/auth/setup stores the entropy key on disk, re-encrypts the    *)
(* SQLite database from the machine-UUID key to the entropy-derived key,   *)
(* creates the first admin and sets setup_complete.  At every container    *)
(* start bootstrap.ts derives DB_KEY and INTERNAL_TOKEN from whatever the  *)
(* disk then holds; the backup sidecar derives the same token from the     *)
(* same file when it starts.  The module composes the three processes over *)
(* the shared disk and lets them crash between any two writes.             *)
(*                                                                         *)
(* One Node process serves all requests: a handler runs alone from one     *)
(* await to the next.  `cpu' is the request that holds the event loop in   *)
(* the middle of such a segment; a segment whose writes a crash can tell   *)
(* apart is split into one action per write.                               *)
(***************************************************************************)
EXTENDS Naturals, FiniteSets

CONSTANTS
  Keys,       \* entropy keys the wizard may generate (a sub-key stands for its key)
  Names,      \* user names, up to letter case (the column is COLLATE NOCASE)
  Requests,   \* POST /api/auth/setup calls
  MaxFaults   \* bound on crashes and I/O errors in a behaviour

Idle == "idle"

ASSUME SetupAssumption ==
  /\ MaxFaults \in Nat
  /\ {"none", "torn", "uuid"} \cap Keys = {}
  /\ Idle \notin Requests

VARIABLES
  keyFile,    \* .homeforge.key: "none", "torn" (truncated, not yet written) or a key
  dbKey,      \* the key homeforge.db is encrypted with: "none" (no file), "uuid" or a key
  admins,     \* names of the admin rows of table users
  setupDone,  \* app_state.setup_complete
  up,         \* the dashboard process runs
  envDb,      \* process.env.DB_KEY of that process
  envToken,   \* process.env.INTERNAL_TOKEN, "none" when undefined
  handle,     \* the _db singleton: "closed", "open", or "broken" (opened with a wrong key)
  cpu,        \* the request holding the event loop between two disk writes, or Idle
  body,       \* the parsed body of each request
  pc,         \* where each request stands
  dead,       \* requests in flight when their process died
  sidecar,    \* the token the running sidecar cached, "none" while it is down
  faults      \* crashes and I/O errors so far

disk    == <<keyFile, dbKey, admins, setupDone>>
process == <<up, envDb, envToken, handle>>
vars    == <<keyFile, dbKey, admins, setupDone, up, envDb, envToken, handle,
             cpu, body, pc, dead, sidecar, faults>>

Answers == {"limited", "conflict", "invalid", "storeFailed", "rekeyFailed", "broken",
            "createFailed", "markFailed", "duplicate", "done"}
Writing == {"store", "rekey", "mark"}       \* in the middle of a segment
Points  == {"new", "checked", "hash"} \cup Writing \cup Answers

\* Requests that wrote the key file to the end.
Stored == {r \in Requests : pc[r] \in {"rekey", "rekeyFailed", "hash", "createFailed", "mark",
                                       "markFailed", "duplicate", "done"}}

TypeOK ==
  /\ keyFile \in Keys \cup {"none", "torn"}
  /\ dbKey \in Keys \cup {"none", "uuid"}
  /\ admins \subseteq Names
  /\ setupDone \in BOOLEAN
  /\ up \in BOOLEAN
  /\ envDb \in Keys \cup {"none", "uuid"}
  /\ envToken \in Keys \cup {"none"}
  /\ handle \in {"closed", "open", "broken"}
  /\ cpu \in Requests \cup {Idle}
  /\ body \in [Requests -> [key : Keys, name : Names]]
  /\ pc \in [Requests -> Points]
  /\ dead \subseteq Requests
  /\ sidecar \in Keys \cup {"none"}
  /\ faults \in 0 .. MaxFaults

Init ==
  /\ keyFile = "none" /\ dbKey = "none" /\ admins = {} /\ setupDone = FALSE
  /\ up = FALSE /\ envDb = "none" /\ envToken = "none" /\ handle = "closed"
  /\ cpu = Idle
  /\ body \in [Requests -> [key : Keys, name : Names]]
  /\ pc = [r \in Requests |-> "new"]
  /\ dead = {}
  /\ sidecar = "none"
  /\ faults = 0

-----------------------------------------------------------------------------
(* Container start.                                                        *)

\* DB_KEY as bootstrap.ts derives it: from the machine UUID until a key file
\* exists, from the key file afterwards; it throws on a torn one.
BootKey == IF keyFile = "none" THEN "uuid" ELSE keyFile

\* Mutated form: the internal token is drawn at random like the pre-setup secrets.
MutBootRandomToken ==
  /\ ~up
  /\ keyFile # "torn"
  /\ up' = TRUE /\ envDb' = BootKey /\ envToken' \in Keys /\ handle' = "closed"
  /\ UNCHANGED <<disk, cpu, body, pc, dead, sidecar, faults>>

\* start.sh: bootstrap, then the servers.  With a torn key file bootstrap throws,
\* the exports are empty and start.sh exits: the container never comes up.
Boot ==
  /\ ~up
  /\ keyFile # "torn"
  /\ up' = TRUE
  /\ envDb' = BootKey
  /\ envToken' = IF keyFile = "none" THEN "none" ELSE keyFile
  /\ handle' = "closed"
  /\ UNCHANGED <<disk, cpu, body, pc, dead, sidecar, faults>>

\* The process dies between two steps; Docker restarts it (Boot).
Crash ==
  /\ up
  /\ faults < MaxFaults
  /\ up' = FALSE /\ envDb' = "none" /\ envToken' = "none" /\ handle' = "closed"
  /\ cpu' = Idle
  /\ dead' = dead \cup {r \in Requests : pc[r] \notin Answers \cup {"new"}}
  /\ faults' = faults + 1
  /\ UNCHANGED <<disk, body, pc, sidecar>>

\* getDb: the first use opens the file with DB_KEY and creates it when absent;
\* a handle opened with a wrong key stays in _db and every query on it throws.
GetDb ==
  /\ handle' = IF handle # "closed" THEN handle
               ELSE IF dbKey \in {"none", envDb} THEN "open" ELSE "broken"
  /\ dbKey' = IF handle = "closed" /\ dbKey = "none" THEN envDb ELSE dbKey

\* Any other route that reads the database first (setup status, login, stats).
OtherRoute ==
  /\ up /\ cpu = Idle /\ handle = "closed"
  /\ GetDb
  /\ UNCHANGED <<keyFile, admins, setupDone, up, envDb, envToken, cpu, body, pc,
                 dead, sidecar, faults>>

-----------------------------------------------------------------------------
(* POST /api/auth/setup.                                                   *)

\* Request r is at point p of a living process and may run.
At(r, p) ==
  /\ up
  /\ pc[r] = p
  /\ r \notin dead
  /\ cpu = IF p \in Writing THEN r ELSE Idle

Goto(r, p) == pc' = [pc EXCEPT ![r] = p]

\* checkRateLimit, then isSetupComplete, up to the await of the body.
Check(r) ==
  /\ At(r, "new")
  /\ \/ Goto(r, "limited") /\ UNCHANGED <<dbKey, handle>>
     \/ /\ GetDb
        /\ Goto(r, CASE handle' = "broken" -> "broken"
                     [] handle' # "broken" /\ setupDone -> "conflict"
                     [] OTHER -> "checked")
  /\ UNCHANGED <<keyFile, admins, setupDone, up, envDb, envToken, cpu, body, dead,
                 sidecar, faults>>

\* The body fails the schema.
Reject(r) ==
  /\ At(r, "checked")
  /\ Goto(r, "invalid")
  /\ UNCHANGED <<disk, process, cpu, body, dead, sidecar, faults>>

\* storeEntropyKey: writeFileSync first truncates the file ...
StoreOpen(r) ==
  /\ At(r, "checked")
  /\ keyFile' = "torn"
  /\ Goto(r, "store")
  /\ cpu' = r
  /\ UNCHANGED <<dbKey, admins, setupDone, process, body, dead, sidecar, faults>>

\* Mutated form: an await lets other handlers run before the rekey.
MutStoreWriteYields(r) ==
  /\ At(r, "store")
  /\ keyFile' = body[r].key
  /\ Goto(r, "rekey")
  /\ cpu' = Idle
  /\ UNCHANGED <<dbKey, admins, setupDone, process, body, dead, sidecar, faults>>

\* ... then writes the wrapped key.
StoreWrite(r) ==
  /\ At(r, "store")
  /\ keyFile' = body[r].key
  /\ Goto(r, "rekey")
  /\ UNCHANGED <<dbKey, admins, setupDone, process, cpu, body, dead, sidecar, faults>>

\* The write throws (disk full): the handler answers 500.
StoreThrows(r) ==
  /\ At(r, "store")
  /\ faults < MaxFaults
  /\ faults' = faults + 1
  /\ Goto(r, "storeFailed")
  /\ cpu' = Idle
  /\ UNCHANGED <<disk, process, body, dead, sidecar>>

\* rekeyDatabase: one SQLite transaction, then process.env.DB_KEY, then the
\* handler awaits argon2.hash inside createUser.
Rekey(r) ==
  /\ At(r, "rekey")
  /\ dbKey' = body[r].key
  /\ envDb' = body[r].key
  /\ Goto(r, "hash")
  /\ cpu' = Idle
  /\ UNCHANGED <<keyFile, admins, setupDone, up, envToken, handle, body, dead,
                 sidecar, faults>>

\* Mutated form: the error path never gives the event loop back.
MutRekeyThrowsHangs(r) ==
  /\ At(r, "rekey")
  /\ faults < MaxFaults
  /\ faults' = faults + 1
  /\ Goto(r, "rekeyFailed")
  /\ dbKey' \in {dbKey, body[r].key}
  /\ UNCHANGED <<keyFile, admins, setupDone, process, cpu, body, dead, sidecar>>

\* One of the three pragmas throws: the rekey is rolled back, or it is committed and
\* the return to WAL fails.  Either way DB_KEY keeps the old value.
RekeyThrows(r) ==
  /\ At(r, "rekey")
  /\ faults < MaxFaults
  /\ faults' = faults + 1
  /\ Goto(r, "rekeyFailed")
  /\ cpu' = Idle
  /\ dbKey' \in {dbKey, body[r].key}
  /\ UNCHANGED <<keyFile, admins, setupDone, process, body, dead, sidecar>>

\* createUser resumes: INSERT, which throws when the name is taken.
Insert(r) ==
  /\ At(r, "hash")
  /\ \/ /\ body[r].name \notin admins
        /\ admins' = admins \cup {body[r].name}
        /\ Goto(r, "mark")
        /\ cpu' = r
     \/ /\ body[r].name \in admins
        /\ Goto(r, "duplicate")
        /\ UNCHANGED <<admins, cpu>>
  /\ UNCHANGED <<keyFile, dbKey, setupDone, process, body, dead, sidecar, faults>>

\* argon2.hash or the INSERT throws (no memory, disk full): no row, an answer 500.
InsertThrows(r) ==
  /\ At(r, "hash")
  /\ faults < MaxFaults
  /\ faults' = faults + 1
  /\ Goto(r, "createFailed")
  /\ UNCHANGED <<disk, process, cpu, body, dead, sidecar>>

\* markSetupComplete, the session cookie and the answer.
Mark(r) ==
  /\ At(r, "mark")
  /\ setupDone' = TRUE
  /\ Goto(r, "done")
  /\ cpu' = Idle
  /\ UNCHANGED <<keyFile, dbKey, admins, process, body, dead, sidecar, faults>>

\* The row is in, and the UPDATE of setup_complete throws: the account stays.
MarkThrows(r) ==
  /\ At(r, "mark")
  /\ faults < MaxFaults
  /\ faults' = faults + 1
  /\ Goto(r, "markFailed")
  /\ cpu' = Idle
  /\ UNCHANGED <<disk, process, body, dead, sidecar>>

Handle(r) ==
  \/ Check(r) \/ Reject(r) \/ StoreOpen(r) \/ StoreWrite(r) \/ StoreThrows(r)
  \/ Rekey(r) \/ RekeyThrows(r) \/ Insert(r) \/ InsertThrows(r)
  \/ Mark(r) \/ MarkThrows(r)

-----------------------------------------------------------------------------
(* The backup sidecar: its module load throws until the key file can be    *)
(* read, and Docker restarts it; the token is cached until it dies.        *)

SidecarBoot ==
  /\ sidecar = "none"
  /\ keyFile \in Keys
  /\ sidecar' = keyFile
  /\ UNCHANGED <<disk, process, cpu, body, pc, dead, faults>>

SidecarCrash ==
  /\ sidecar # "none"
  /\ faults < MaxFaults
  /\ faults' = faults + 1
  /\ sidecar' = "none"
  /\ UNCHANGED <<disk, process, cpu, body, pc, dead>>

Next ==
  \/ Boot \/ Crash \/ OtherRoute
  \/ \E r \in Requests : Handle(r)
  \/ SidecarBoot \/ SidecarCrash

\* Docker restarts both containers (restart: unless-stopped) and the event loop
\* runs every callback that is due; nobody is obliged to send a request.
Fairness ==
  /\ WF_vars(Boot)
  /\ WF_vars(SidecarBoot)
  /\ \A r \in Requests : WF_vars(Handle(r) /\ pc[r] # "new")

Spec == Init /\ [][Next]_vars /\ Fairness

-----------------------------------------------------------------------------
(* Safety.                                                                 *)

\* A failure hit r between the truncation of the key file and the end of the rekey.
Interrupted(r) ==
  \/ r \in dead /\ pc[r] \in {"store", "rekey"}
  \/ pc[r] \in {"storeFailed", "rekeyFailed"}

\* A restart now would derive the key the database is encrypted with.
Openable == dbKey \in {"none", BootKey}

\* Between two segments of any handlers, however many setups interleave and wherever
\* the process died, the key file on disk opens the database, unless a crash or an
\* I/O error fell between storeEntropyKey and the end of rekeyDatabase.
OpenableUnlessInterrupted ==
  cpu = Idle /\ (\A r \in Requests : ~Interrupted(r)) => Openable

\* The handle in use and process.env.DB_KEY part only when a rekey was committed and
\* the pragma after it threw (the comment in rekeyDatabase: "keep in sync").
ConnectionKeyInSync ==
  handle = "open" => envDb = dbKey \/ \E r \in Requests : pc[r] = "rekeyFailed"

\* The dashboard never comes up with a database it cannot read, unless a setup was
\* interrupted in that same window.
ServesUnlessInterrupted ==
  handle = "broken" => \E r \in Requests : Interrupted(r)

\* No crash leaves an installation that refuses /setup and has nobody to log in as.
SetupDoneHasAdmin == setupDone => admins # {}

\* An admin row in an installation whose setup is not complete (its name then answers
\* 500 in the wizard) is explained by a request at, or stopped at, markSetupComplete.
OrphanAdminOnlyAtMark ==
  admins # {} /\ ~setupDone => \E r \in Requests : pc[r] \in {"mark", "markFailed"}

\* Dashboard and sidecar hold the same internal token, unless setups stored two
\* different keys: the sidecar keeps the token of the key it read first.
TokensAgreeUnlessReplaced ==
  envToken # "none" /\ sidecar # "none" /\ envToken # sidecar =>
    \E r, q \in Stored : body[r].key # body[q].key

\* Setup is complete and every request was answered, died or has not begun.
Settled ==
  setupDone /\ \A r \in Requests : pc[r] \in Answers \cup {"new"} \/ r \in dead

\* From then on no request, crash or restart changes the keys or the admins.
SettledIsFinal == [][Settled => Settled' /\ UNCHANGED disk]_vars

(* The inductive invariant the proofs of SetupProofs rest on.              *)

Live(r) == r \notin dead /\ pc[r] \notin Answers \cup {"new"}

\* The event loop is held by the one live request between two disk writes.
LoopDiscipline ==
  /\ cpu # Idle => Live(cpu) /\ pc[cpu] \in Writing
  /\ \A r \in Requests : Live(r) /\ pc[r] \in Writing => cpu = r
  /\ \A r \in dead : pc[r] \notin Answers \cup {"new"}

\* A live request runs in a living process with the database open.
ProcessState ==
  /\ ~up => handle = "closed" /\ envToken = "none"
  /\ \A r \in Requests : Live(r) => up /\ handle = "open"
  /\ up => envDb # "none"
  /\ handle = "open" => dbKey # "none"
  /\ up /\ handle = "closed" => envDb = BootKey

\* The keys part only while some request is, or was stopped, in the window.
KeyWindow ==
  /\ \A r \in Requests : Live(r) /\ pc[r] = "rekey" => keyFile = body[r].key
  /\ (\A r \in Requests : pc[r] \notin {"store", "rekey", "storeFailed", "rekeyFailed"})
       => Openable

\* What a marked installation holds, and where every token in use came from.
Provenance ==
  /\ dbKey = "none" => ~setupDone /\ admins = {}
  /\ \A r \in Requests : pc[r] \in {"mark", "markFailed"} => admins # {}
  /\ \A x \in {keyFile, envToken, sidecar} \ {"none", "torn"} :
       \E r \in Stored : body[r].key = x

IInv ==
  /\ TypeOK /\ LoopDiscipline /\ ProcessState /\ KeyWindow /\ Provenance
  /\ ConnectionKeyInSync /\ ServesUnlessInterrupted
  /\ SetupDoneHasAdmin /\ OrphanAdminOnlyAtMark

(* Liveness.                                                               *)

\* Request q inserted its admin and was stopped before setup_complete: the process
\* died there or the UPDATE threw.
StoppedAtMark(q) == pc[q] = "markFailed" \/ (pc[q] = "mark" /\ q \in dead)

\* A request whose rekey is done ends with the setup complete, unless it is struck
\* itself (its process dies, an I/O error) or asks for a name whose account an earlier,
\* stopped request has left behind: a retry under another name gets through.
RekeyedLeadsToSetup ==
  \A r \in Requests :
    pc[r] = "hash" ~> \/ setupDone
                      \/ r \in dead \/ pc[r] \in {"createFailed", "markFailed"}
                      \/ \E q \in Requests : StoppedAtMark(q) /\ body[q].name = body[r].name

=============================================================================
