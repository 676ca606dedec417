------------------------------- MODULE Backup -------------------------------
(***************************************************************************)
(* The backup sidecar: backup jobs (snapshot.ts), restore jobs             *)
(* (restore.ts), the history database (db.ts) and the requests and the     *)
(* timer that start them (index.ts, scheduler.ts).                         *)
(*                                                                         *)
(* A job blocks the event loop from its first external command to its      *)
(* last: nothing else of the sidecar runs in between, but the services     *)
(* do, and the process can die between two commands.  docker, cp, restic   *)
(* and the volumes are external.  The content of a directory is where it   *)
(* came from and how often it was written since; cp reads it at two        *)
(* moments.  docker-compose.yml mounts a directory for every service of    *)
(* containerMap, so none is missing.                                       *)
(***************************************************************************)
EXTENDS Integers, FiniteSets

CONSTANTS
  Services,   \* the services of containerMap
  Containers,
  Container,  \* containerMap: the container that a job pauses, stops and starts
  Writers,    \* Writers[s]: the containers that write to the directory of s
  Jobs,       \* ids of backup jobs
  Restores,   \* ids of rows of restore_log
  MaxWrites,  \* bound on the writes to a directory
  Restic      \* what restic restore may do: not know the id that it is given, or put the
              \* services below the path that was backed up, or at the top of the target

ASSUME BackupAssumption ==
  /\ Container \in [Services -> Containers]
  /\ Writers \in [Services -> SUBSET Containers]
  /\ MaxWrites \in Nat
  /\ Restic \subseteq {"unknown", "below", "top"}
  /\ "unread" \notin Jobs

VARIABLES
  up,         \* the sidecar runs
  job,        \* the job that holds the event loop
  rows,       \* backup_history
  log,        \* restore_log
  inited,     \* the restic repository has a config
  staging,    \* staging[j]: the copies in /tmp/staging-<j>
  repo,       \* the snapshots in the repository
  ctr,        \* ctr[c]: the state of a container
  data,       \* data[s]: the directory of a service
  found,      \* found[r]: the services that are where restore r looks for them
  put,        \* history: put[r]: the services that restore r copied back
  seen        \* history: the kinds of faults so far

tables == <<rows, log>>
host   == <<ctr, data>>
vars   == <<up, job, tables, inited, staging, repo, host, found, put, seen>>

Content == [of : {"live", "wiped", "partial"} \cup Jobs, writes : 0 .. MaxWrites]
Unread  == [of |-> "unread", writes |-> 0]
Copy    == [svc : Services, first : Content, last : Content \cup {Unread}]

NoService == "no service"
NoRow     == [status |-> "none", services |-> {}, error |-> "none"]
NoJob     == "no job"
NoEntry   == [status |-> "none", job |-> NoJob, of |-> {}]
Idle      == [kind |-> "idle"]

Init ==
  /\ up = TRUE /\ job = Idle
  /\ rows = [j \in Jobs |-> NoRow]
  /\ log = [r \in Restores |-> NoEntry]
  /\ inited = FALSE
  /\ staging = [j \in Jobs |-> {}]
  /\ repo = {}
  /\ ctr = [c \in Containers |-> "running"]
  /\ data = [s \in Services |-> [of |-> "live", writes |-> 0]]
  /\ found = [r \in Restores |-> {}]
  /\ put = [r \in Restores |-> {}]
  /\ seen = {}

Free      == up /\ job = Idle
At(k, p)  == up /\ job.kind = k /\ job.at = p
Goto(p)   == job' = [job EXCEPT !.at = p]
Fault(k)  == seen' = seen \cup {k}

\* A docker command: it takes effect, or fails and the sidecar logs a warning.
Docker(from, to) ==
  LET c == Container[job'.svc]
  IN  \/ ctr' = [ctr EXCEPT ![c] = IF @ \in from THEN to ELSE @] /\ UNCHANGED seen
      \/ Fault("docker") /\ UNCHANGED ctr

\* A running container writes to its directory.
Write(s) ==
  /\ \E c \in Writers[s] : ctr[c] = "running"
  /\ data[s].writes < MaxWrites
  /\ data' = [data EXCEPT ![s].writes = @ + 1]
  /\ UNCHANGED <<up, job, tables, inited, staging, repo, ctr, found, put, seen>>

-----------------------------------------------------------------------------
(* Backups.                                                                *)

\* POST /backups, or the timer at three o'clock: the row comes first.
StartBackup(j, S) ==
  /\ Free /\ rows[j].status = "none"
  /\ rows' = [rows EXCEPT ![j] = [status |-> "in_progress", services |-> S, error |-> "none"]]
  /\ job' = [kind |-> "backup", at |-> "init", id |-> j, todo |-> S, svc |-> NoService]
  /\ UNCHANGED <<up, log, inited, staging, repo, host, found, put, seen>>

\* initResticRepo.
InitRepo ==
  /\ At("backup", "init")
  /\ \/ inited' = TRUE /\ Goto("next") /\ UNCHANGED seen
     \/ Goto("fail") /\ Fault("io") /\ UNCHANGED inited
  /\ UNCHANGED <<up, tables, staging, repo, host, found, put>>

\* Mutated form: the container is paused when the copy has been made.
MutPauses == FALSE

\* pauseContainer comes before cp.
Pauses == TRUE

\* The next service is paused and cp starts to read.
Pause(s) ==
  /\ At("backup", "next") /\ s \in job.todo
  /\ job' = [job EXCEPT !.at = "copying", !.todo = @ \ {s}, !.svc = s]
  /\ staging' = [staging EXCEPT ![job.id] =
                   @ \cup {[svc |-> s, first |-> data[s], last |-> Unread]}]
  /\ IF Pauses THEN Docker({"running"}, "paused") ELSE UNCHANGED <<ctr, seen>>
  /\ UNCHANGED <<up, tables, inited, repo, data, found, put>>

\* cp has read everything, or fails.
CopyOut ==
  /\ At("backup", "copying")
  /\ \/ /\ staging' = [staging EXCEPT ![job.id] =
                         {IF c.svc = job.svc THEN [c EXCEPT !.last = data[c.svc]] ELSE c : c \in @}]
        /\ Goto("copied")
        /\ UNCHANGED seen
     \/ Goto("threw") /\ Fault("io") /\ UNCHANGED staging
  /\ UNCHANGED <<up, tables, inited, repo, host, found, put>>

\* Mutated form: a catch that logs a warning, as around the docker commands.
MutAfter(p) == "next"

\* What follows the finally block: the next service, or the error.
After(p) == IF p = "copied" THEN "next" ELSE "fail"

\* Mutated form: no finally around cp.
MutFinally == {"copied"}

\* What the finally blocks run after: success and failure.
Finally == {"copied", "threw"}

\* unpauseContainer.
Unpause ==
  /\ At("backup", "copied") \/ At("backup", "threw")
  /\ Goto(After(job.at))
  /\ IF job.at \in Finally THEN Docker({"paused"}, "running") ELSE UNCHANGED <<ctr, seen>>
  /\ UNCHANGED <<up, tables, inited, staging, repo, data, found, put>>

\* restic backup stores the staging directory.
Store ==
  /\ At("backup", "next") /\ job.todo = {}
  /\ \/ /\ repo' = repo \cup {[tag |-> job.id, tree |-> staging[job.id]]}
        /\ Goto("parse")
        /\ UNCHANGED seen
     \/ Goto("fail") /\ Fault("io") /\ UNCHANGED repo
  /\ UNCHANGED <<up, tables, inited, staging, host, found, put>>

\* JSON.parse of restic's output, which may be several documents; then staging goes.
Parse ==
  /\ At("backup", "parse")
  /\ \/ staging' = [staging EXCEPT ![job.id] = {}] /\ Goto("record") /\ UNCHANGED seen
     \/ Goto("fail") /\ Fault("io") /\ UNCHANGED staging
  /\ UNCHANGED <<up, tables, inited, repo, host, found, put>>

\* The row becomes a success.
Record ==
  /\ At("backup", "record")
  /\ rows' = [rows EXCEPT ![job.id].status = "success"]
  /\ job' = Idle
  /\ UNCHANGED <<up, log, inited, staging, repo, host, found, put, seen>>

\* Mutated form: the failed UPDATE of the catch ends the job.
MutFailedRow(row) == row

\* The UPDATE of the catch names a column that does not exist and throws; the catch of the
\* caller stores that error.
FailedRow(row) == [row EXCEPT !.status = "failed", !.error = "no such column"]

BackupFails ==
  /\ At("backup", "fail")
  /\ rows' = [rows EXCEPT ![job.id] = FailedRow(@)]
  /\ job' = Idle
  /\ UNCHANGED <<up, log, inited, staging, repo, host, found, put, seen>>

\* DELETE /backups/:jobId: no file has the name "restic-<jobId>", the row goes.
Delete(j) ==
  /\ Free /\ rows[j].status \notin {"none", "deleted"}
  /\ rows' = [rows EXCEPT ![j].status = "deleted"]
  /\ UNCHANGED <<up, job, log, inited, staging, repo, host, found, put, seen>>

-----------------------------------------------------------------------------
(* Restores.                                                               *)

\* POST /restore of some services for a row of any status.
StartRestore(r, j, S) ==
  /\ Free /\ log[r].status = "none" /\ rows[j].status \notin {"none", "deleted"}
  /\ log' = [log EXCEPT ![r] = [status |-> "in_progress", job |-> j, of |-> S]]
  /\ job' = [kind |-> "restore", at |-> "fetch", id |-> j, run |-> r,
             todo |-> S, svc |-> NoService]
  /\ UNCHANGED <<up, rows, inited, staging, repo, host, found, put, seen>>

Stored == \E x \in repo : x.tag = job.id
Tree   == UNION {x.tree : x \in {y \in repo : y.tag = job.id}}

\* restic restore of the id of the job, which is no id of a snapshot.  It fails on that, or
\* because there is no snapshot, or for reasons of its own; what it restores of an absolute
\* path lies below that path, and restore.ts looks at the top of the target.
Fetch ==
  /\ At("restore", "fetch")
  /\ \/ /\ Stored /\ Restic \ {"unknown"} # {}
        /\ found' \in {[found EXCEPT ![job.run] = IF p = "top" THEN {c.svc : c \in Tree} ELSE {}] :
                       p \in Restic \ {"unknown"}}
        /\ Goto("next") /\ UNCHANGED seen
     \/ /\ ~Stored \/ "unknown" \in Restic
        /\ Goto("fail") /\ UNCHANGED <<found, seen>>
     \/ Goto("fail") /\ Fault("io") /\ UNCHANGED found
  /\ UNCHANGED <<up, tables, inited, staging, repo, host, put>>

\* The directory of s is where restore.ts looks for it.
Present(s) == s \in found[job.run]

\* A service that is not there is skipped.
Skip(s) ==
  /\ At("restore", "next") /\ s \in job.todo /\ ~Present(s)
  /\ job' = [job EXCEPT !.todo = @ \ {s}]
  /\ UNCHANGED <<up, tables, inited, staging, repo, host, found, put, seen>>

\* stopContainer.
Stop(s) ==
  /\ At("restore", "next") /\ s \in job.todo /\ Present(s)
  /\ job' = [job EXCEPT !.at = "clear", !.todo = @ \ {s}, !.svc = s]
  /\ Docker({"running", "paused"}, "stopped")
  /\ UNCHANGED <<up, tables, inited, staging, repo, data, found, put>>

\* A command that fails has done nothing, or a part of its work.
Breaks ==
  /\ data' \in {data, [data EXCEPT ![job.svc].of = "partial"]}
  /\ Goto("threw") /\ Fault("io")

\* The destination is cleared, entry by entry.
Clear ==
  /\ At("restore", "clear")
  /\ \/ /\ data' = [data EXCEPT ![job.svc].of = "wiped"]
        /\ Goto("copy") /\ UNCHANGED seen
     \/ Breaks
  /\ UNCHANGED <<up, tables, inited, staging, repo, ctr, found, put>>

\* cp brings the directory back.
CopyBack ==
  /\ At("restore", "copy")
  /\ \/ /\ data' = [data EXCEPT ![job.svc].of = job.id]
        /\ put' = [put EXCEPT ![job.run] = @ \cup {job.svc}]
        /\ Goto("copied") /\ UNCHANGED seen
     \/ Breaks /\ UNCHANGED put
  /\ UNCHANGED <<up, tables, inited, staging, repo, ctr, found>>

\* startContainer.
Start ==
  /\ At("restore", "copied") \/ At("restore", "threw")
  /\ Goto(After(job.at))
  /\ IF job.at \in Finally THEN Docker({"stopped"}, "running") ELSE UNCHANGED <<ctr, seen>>
  /\ UNCHANGED <<up, tables, inited, staging, repo, data, found, put>>

\* A restore is a success in the log and restored in the history: their CHECKs differ.
Logged == "success"

\* The restored files go, and the log says so.
LogRestore ==
  /\ At("restore", "next") /\ job.todo = {}
  /\ \/ /\ log' = [log EXCEPT ![job.run].status = Logged]
        /\ Goto("mark") /\ UNCHANGED seen
     \/ Goto("fail") /\ Fault("io") /\ UNCHANGED log
  /\ UNCHANGED <<up, rows, inited, staging, repo, host, found, put>>

\* Then the history says so.
MarkRestored ==
  /\ At("restore", "mark")
  /\ \/ /\ rows' = [rows EXCEPT ![job.id].status = "restored"]
        /\ job' = Idle /\ UNCHANGED seen
     \/ Goto("fail") /\ Fault("io") /\ UNCHANGED rows
  /\ UNCHANGED <<up, log, inited, staging, repo, host, found, put>>

RestoreFails ==
  /\ At("restore", "fail")
  /\ log' = [log EXCEPT ![job.run].status = "failed"]
  /\ job' = Idle
  /\ UNCHANGED <<up, rows, inited, staging, repo, host, found, put, seen>>

-----------------------------------------------------------------------------
\* The sidecar dies in the middle of anything; docker starts it again and nothing looks
\* at what was left.
Crash ==
  /\ up
  /\ up' = FALSE /\ job' = Idle /\ Fault("crash")
  /\ UNCHANGED <<tables, inited, staging, repo, host, found, put>>

Restart ==
  /\ ~up /\ up' = TRUE
  /\ UNCHANGED <<job, tables, inited, staging, repo, host, found, put, seen>>

BackupStep ==
  \/ InitRepo \/ CopyOut \/ Unpause \/ Store \/ Parse \/ Record \/ BackupFails
  \/ \E s \in Services : Pause(s)

RestoreStep ==
  \/ Fetch \/ Clear \/ CopyBack \/ Start \/ LogRestore \/ MarkRestored \/ RestoreFails
  \/ \E s \in Services : Skip(s) \/ Stop(s)

Request ==
  \/ \E j \in Jobs : Delete(j) \/ \E S \in SUBSET Services : StartBackup(j, S)
  \/ \E r \in Restores, j \in Jobs, S \in SUBSET Services : StartRestore(r, j, S)

Next ==
  \/ BackupStep \/ RestoreStep \/ Request \/ Crash \/ Restart
  \/ \E s \in Services : Write(s)

Spec == Init /\ [][Next]_vars

\* A job runs to its end unless the process dies; docker restarts the process.
FairSpec == Spec /\ WF_vars(BackupStep \/ RestoreStep) /\ WF_vars(Restart)

-----------------------------------------------------------------------------
Holding(c) ==
  job # Idle /\ job.at \in {"copying", "copied", "threw", "clear", "copy"}
  /\ Container[job.svc] = c

\* Whatever fails, a container is down only while the job works on its own service, unless
\* docker refused or the sidecar died.
OnlyTheServiceAtWorkIsDown ==
  seen \cap {"docker", "crash"} = {} =>
    \A c \in Containers : ctr[c] # "running" => Holding(c)

\* The copy of a service that only its own container writes is a state it had at one
\* moment, unless docker did not pause it: no write comes between pause and unpause.
PausedCopyIsOneState ==
  "docker" \notin seen =>
    \A x \in repo : \A c \in x.tree :
      Writers[c.svc] \subseteq {Container[c.svc]} => c.first = c.last

\* A restore that is logged as a success has put back every service it was asked for that it
\* found where it looks, and touched no other: none is left out, emptied or half copied
\* because a command failed.  It does not say that it found any.
LoggedRestoreIsComplete ==
  \A r \in Restores : log[r].status = "success" =>
    /\ put[r] = log[r].of \cap found[r]
    /\ found[r] \subseteq rows[log[r].job].services

\* What the history shows as a success, or as restored, is whole: there is a snapshot of every
\* service it names, and none of them is the half of a copy that failed.
SuccessIsWhole ==
  \A j \in Jobs : rows[j].status \in {"success", "restored"} =>
    \E x \in repo : /\ x.tag = j /\ {c.svc : c \in x.tree} = rows[j].services
                    /\ \A c \in x.tree : c.last # Unread

\* Every job ends, and the containers run again, unless docker refused or the sidecar died.
JobsEnd ==
  /\ \A j \in Jobs : (rows[j].status = "in_progress")
                       ~> (rows[j].status # "in_progress" \/ "crash" \in seen)
  /\ \A c \in Containers : (ctr[c] # "running")
                       ~> (ctr[c] = "running" \/ seen \cap {"docker", "crash"} # {})

-----------------------------------------------------------------------------
(* What others see of the sidecar (BackupService).                         *)

Work == IF job = Idle THEN Idle ELSE [kind |-> job.kind, job |-> job.id]

Service == INSTANCE BackupService
             WITH NULL <- Idle, busy <- Work, status <- [j \in Jobs |-> rows[j].status]

\* However its commands fail, the sidecar is a service that works on one job at a time, ends
\* every job it does not die in, and changes a row only by the job that it belongs to.
ImplementsService == Service!ServiceSpec

-----------------------------------------------------------------------------
(* What the documents and the user interface say.                          *)

\* "Wipe target volume and extract backup" (38_Backup_Sidecar_Migration.md:54): without a
\* fault a restore of a service that a successful backup has does not fail.
RestoreWorks ==
  [][\A r \in Restores :
       (/\ seen = {} /\ job # Idle /\ log[r].status = "in_progress"
        /\ rows[job.id].status \in {"success", "restored"}
        /\ log[r].of \cap rows[job.id].services # {})
         => log'[r].status # "failed"]_vars
=============================================================================
