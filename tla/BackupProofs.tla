----------------------------- MODULE BackupProofs -----------------------------
(* What the runs of Backup show on two services and one job, for any number *)
(* of services, jobs, restores, containers and writes, and that the sidecar *)
(* takes only the steps that BackupService allows.                          *)
EXTENDS Backup, TLAPS

BackupPoints  == {"init", "next", "copying", "copied", "threw", "parse", "record", "fail"}
RestorePoints == {"fetch", "next", "clear", "copy", "copied", "threw", "mark", "fail"}

BackupJob  == [kind : {"backup"}, at : BackupPoints, id : Jobs, todo : SUBSET Services,
               svc : Services \cup {NoService}]
RestoreJob == [kind : {"restore"}, at : RestorePoints, id : Jobs, run : Restores,
               todo : SUBSET Services, svc : Services \cup {NoService}]

RowStatus == {"none", "in_progress", "success", "failed", "restored", "deleted"}

Row   == [status : RowStatus, services : SUBSET Services, error : {"none", "no such column"}]
Entry == [status : {"none", "in_progress", "success", "failed"}, job : Jobs \cup {NoJob},
          of : SUBSET Services]

\* The points between the command that takes a container down and the one that brings it back.
AtWork == {"copying", "copied", "threw", "clear", "copy"}

JobType  == job = Idle \/ (job \in BackupJob \cup RestoreJob /\ (job.at \in AtWork => job.svc \in Services))
HostType == ctr \in [Containers -> {"running", "paused", "stopped"}] /\ data \in [Services -> Content]
DiskType == staging \in [Jobs -> SUBSET Copy] /\ repo \in SUBSET [tag : Jobs, tree : SUBSET Copy]
LogType  ==
  /\ rows \in [Jobs -> Row] /\ log \in [Restores -> Entry]
  /\ put \in [Restores -> SUBSET Services] /\ found \in [Restores -> SUBSET Services]

\* The variables of the sidecar and of the host have their types; a dead process holds no job.
TypeOK ==
  /\ up \in BOOLEAN /\ inited \in BOOLEAN /\ seen \in SUBSET {"docker", "io", "crash"}
  /\ JobType /\ HostType /\ DiskType /\ LogType
  /\ ~up => job = Idle

Clean == seen \cap {"docker", "crash"} = {}

\* A container that a job holds is down by the command of that job, which undoes it.
HeldByItsJob ==
  Clean => \A c \in Containers : ctr[c] # "running" =>
    /\ Holding(c)
    /\ ctr[c] = IF job.kind = "backup" THEN "paused" ELSE "stopped"

OneState(c) == Writers[c.svc] \subseteq {Container[c.svc]} => c.first = c.last

\* The copies of a job: each service once, whole ones of one moment, and the one that cp reads
\* of a directory that nobody writes.
CopiesSound ==
  job.kind = "backup" /\ "docker" \notin seen =>
    /\ job.at \in {"next", "copied"} => \A c \in staging[job.id] : OneState(c)
    /\ job.at = "copying" =>
         /\ ctr[Container[job.svc]] # "running"
         /\ \A c \in staging[job.id] :
              IF c.svc = job.svc
                THEN Writers[c.svc] \subseteq {Container[c.svc]} => c.first = data[c.svc]
                ELSE OneState(c)

\* A staging directory belongs to a row, and has what its job has done so far.
StagedSoFar ==
  /\ \A j \in Jobs : rows[j].status = "none" => staging[j] = {}
  /\ job.kind = "backup" =>
       /\ rows[job.id].status = "in_progress" /\ job.todo \subseteq rows[job.id].services
       /\ job.at = "init" => staging[job.id] = {} /\ job.todo = rows[job.id].services
       /\ job.at \in {"next", "copying", "copied", "threw"} =>
            {c.svc : c \in staging[job.id]} = rows[job.id].services \ job.todo

\* A snapshot has the services of its row.
SnapshotsNamed ==
  \A x \in repo : /\ rows[x.tag].status # "none"
                  /\ {c.svc : c \in x.tree} = rows[x.tag].services

\* A restore has put back what it has taken from its list and found, and found what the backup
\* names at most.
PutSoFar ==
  /\ \A r \in Restores : log[r].status = "none" => put[r] = {} /\ found[r] = {}
  /\ \A r \in Restores : log[r].status # "none" => log[r].job \in Jobs /\ rows[log[r].job].status # "none"
  /\ job.kind = "restore" =>
       /\ log[job.run].status \in {"in_progress", "success"} /\ log[job.run].job = job.id
       /\ job.at \notin {"mark", "fail"} => log[job.run].status = "in_progress"
       /\ rows[job.id].status \in {"in_progress", "success", "failed", "restored"}
       /\ job.todo \subseteq log[job.run].of
       /\ job.at = "fetch" => put[job.run] = {} /\ job.todo = log[job.run].of
       /\ job.at \notin {"fetch", "fail"} => \E x \in repo : x.tag = job.id
       /\ found[job.run] \subseteq rows[job.id].services
       /\ job.at \in {"next", "copied"} => put[job.run] = (log[job.run].of \ job.todo) \cap found[job.run]
       /\ job.at \in {"clear", "copy"} =>
            /\ job.svc \in log[job.run].of \cap found[job.run]
            /\ put[job.run] \cup {job.svc} = (log[job.run].of \ job.todo) \cap found[job.run]

IInv ==
  /\ TypeOK /\ HeldByItsJob
  /\ CopiesSound /\ PausedCopyIsOneState
  /\ StagedSoFar /\ SnapshotsNamed /\ PutSoFar /\ LoggedRestoreIsComplete

-----------------------------------------------------------------------------
(* Types.                                                                  *)

\* Where a job may stand, by its kind.
LEMMA Kinds ==
  ASSUME TypeOK
  PROVE  /\ job.kind = "backup" => job \in BackupJob /\ job # Idle
         /\ job.kind = "restore" => job \in RestoreJob /\ job # Idle
         /\ job # Idle => job.kind \in {"backup", "restore"}
         /\ job.kind # "idle" <=> job # Idle
BY DEF TypeOK, JobType, BackupJob, RestoreJob, Idle

\* A backup that goes on is a backup.
LEMMA BackupGoes ==
  ASSUME job \in BackupJob, NEW p \in BackupPoints, Goto(p), p \in AtWork => job.svc \in Services
  PROVE  /\ JobType' /\ job' \in BackupJob /\ job'.at = p /\ job' # Idle
         /\ job'.id = job.id /\ job'.todo = job.todo /\ job'.svc = job.svc /\ job'.kind = "backup"
BY DEF JobType, BackupJob, Goto, Idle

\* A restore that goes on is a restore.
LEMMA RestoreGoes ==
  ASSUME job \in RestoreJob, NEW p \in RestorePoints, Goto(p), p \in AtWork => job.svc \in Services
  PROVE  /\ JobType' /\ job' \in RestoreJob /\ job'.at = p /\ job' # Idle
         /\ job'.id = job.id /\ job'.todo = job.todo /\ job'.svc = job.svc /\ job'.kind = "restore"
         /\ job'.run = job.run
BY DEF JobType, RestoreJob, Goto, Idle

\* The next service of a list.
LEMMA Takes ==
  ASSUME NEW s \in Services, NEW p,
         job' = [job EXCEPT !.at = p, !.todo = @ \ {s}, !.svc = s]
  PROVE  /\ job \in BackupJob /\ p \in BackupPoints =>
              /\ JobType' /\ job' \in BackupJob /\ job'.at = p /\ job' # Idle
              /\ job'.id = job.id /\ job'.todo = job.todo \ {s} /\ job'.svc = s /\ job'.kind = "backup"
         /\ job \in RestoreJob /\ p \in RestorePoints =>
              /\ JobType' /\ job' \in RestoreJob /\ job'.at = p /\ job' # Idle
              /\ job'.id = job.id /\ job'.todo = job.todo \ {s} /\ job'.svc = s /\ job'.kind = "restore"
              /\ job'.run = job.run
BY DEF JobType, BackupJob, RestoreJob, Idle

\* A docker command changes the container of the service at work, or is refused.
LEMMA DockerType ==
  ASSUME HostType, seen \in SUBSET {"docker", "io", "crash"}, job'.svc \in Services,
         NEW from, NEW to \in {"running", "paused", "stopped"}, Docker(from, to)
  PROVE  /\ ctr' \in [Containers -> {"running", "paused", "stopped"}]
         /\ seen' \in SUBSET {"docker", "io", "crash"}
         /\ \A c \in Containers \ {Container[job'.svc]} : ctr'[c] = ctr[c]
         /\ Container[job'.svc] \in Containers
         /\ \/ seen' = seen /\ ctr'[Container[job'.svc]] =
                 IF ctr[Container[job'.svc]] \in from THEN to ELSE ctr[Container[job'.svc]]
            \/ "docker" \in seen'
BY BackupAssumption DEF HostType, Docker, Fault

\* Only the status of a row or an entry is changed, and the error of a row that fails.
LEMMA RowChanges ==
  ASSUME LogType, NEW j \in Jobs, NEW st \in RowStatus, rows' = [rows EXCEPT ![j].status = st]
  PROVE  /\ rows' \in [Jobs -> Row] /\ rows'[j].status = st
         /\ \A i \in Jobs : rows'[i].services = rows[i].services
         /\ \A i \in Jobs \ {j} : rows'[i] = rows[i]
BY DEF LogType, Row

\* What is left of the catch of runBackup: the error is another one, the services are the same.
LEMMA RowFails ==
  ASSUME LogType, NEW j \in Jobs, rows' = [rows EXCEPT ![j] = FailedRow(@)]
  PROVE  /\ rows' \in [Jobs -> Row] /\ rows'[j].status = "failed"
         /\ \A i \in Jobs : rows'[i].services = rows[i].services
         /\ \A i \in Jobs \ {j} : rows'[i] = rows[i]
<1>1. \A row \in Row : /\ FailedRow(row) \in Row /\ FailedRow(row).status = "failed"
                       /\ FailedRow(row).services = row.services
  BY DEF Row, FailedRow, RowStatus
<1>2. rows' = [rows EXCEPT ![j] = FailedRow(rows[j])] /\ rows[j] \in Row
  BY DEF LogType
<1> QED BY <1>1, <1>2 DEF LogType

\* The same of restore_log.
LEMMA EntryChanges ==
  ASSUME LogType, NEW r \in Restores, NEW st \in {"success", "failed"},
         log' = [log EXCEPT ![r].status = st]
  PROVE  /\ log' \in [Restores -> Entry] /\ log'[r].status = st
         /\ \A q \in Restores : log'[q].job = log[q].job /\ log'[q].of = log[q].of
         /\ \A q \in Restores \ {r} : log'[q] = log[q]
BY DEF LogType, Entry

\* Types along a backup.
LEMMA BackupTypes ==
  ASSUME TypeOK, BackupStep
  PROVE  TypeOK'
<1> USE DEF TypeOK, At, Fault
<1>1. CASE InitRepo
  BY <1>1, Kinds, BackupGoes DEF InitRepo, HostType, DiskType, LogType, BackupPoints, AtWork, host, tables
<1>2. CASE \E s \in Services : Pause(s)
  <2>1. PICK s \in Services : Pause(s)
    BY <1>2
  <2>2. job' = [job EXCEPT !.at = "copying", !.todo = @ \ {s}, !.svc = s] /\ job \in BackupJob
    BY <2>1, Kinds DEF Pause
  <2>3. JobType' /\ job'.svc = s
    BY <2>2, Takes DEF BackupPoints
  <2>4. HostType' /\ seen' \in SUBSET {"docker", "io", "crash"}
    BY <2>1, <2>3, DockerType DEF Pause, HostType, Pauses
  <2>5. [svc |-> s, first |-> data[s], last |-> Unread] \in Copy
    BY DEF Copy, HostType
  <2>6. DiskType'
    BY <2>1, <2>2, <2>5 DEF Pause, DiskType, BackupJob
  <2> QED BY <2>1, <2>3, <2>4, <2>6 DEF Pause, LogType, tables
<1>3. CASE CopyOut
  <2>1. job \in BackupJob /\ job.svc \in Services /\ data[job.svc] \in Content
    BY <1>3, Kinds DEF CopyOut, JobType, AtWork, HostType, Idle
  <2>2. JobType'
    BY <1>3, <2>1, BackupGoes DEF CopyOut, BackupPoints
  <2>3. DiskType'
    <3>1. \A c \in Copy : c.svc = job.svc => [c EXCEPT !.last = data[c.svc]] \in Copy
      BY <2>1 DEF Copy
    <3>2. {IF c.svc = job.svc THEN [c EXCEPT !.last = data[c.svc]] ELSE c : c \in staging[job.id]}
             \in SUBSET Copy
      BY <2>1, <3>1 DEF DiskType, BackupJob
    <3> QED BY <1>3, <2>1, <3>2 DEF CopyOut, DiskType, BackupJob
  <2> QED BY <1>3, <2>2, <2>3 DEF CopyOut, HostType, LogType, host, tables
<1>4. CASE Unpause
  <2>1. job \in BackupJob /\ job.svc \in Services /\ job.at \in Finally
    BY <1>4, Kinds DEF Unpause, JobType, AtWork, Finally, Idle
  <2>2. JobType' /\ job'.svc = job.svc
    BY <1>4, <2>1, BackupGoes DEF Unpause, After, BackupPoints, AtWork
  <2>3. HostType' /\ seen' \in SUBSET {"docker", "io", "crash"}
    BY <1>4, <2>1, <2>2, DockerType DEF Unpause, HostType
  <2> QED BY <1>4, <2>2, <2>3 DEF Unpause, DiskType, LogType, tables
<1>5. CASE Store
  <2>1. job \in BackupJob
    BY <1>5, Kinds DEF Store
  <2>2. JobType'
    BY <1>5, <2>1, BackupGoes DEF Store, BackupPoints, AtWork
  <2>3. DiskType'
    BY <1>5, <2>1 DEF Store, DiskType, BackupJob
  <2> QED BY <1>5, <2>2, <2>3 DEF Store, HostType, LogType, host, tables
<1>6. CASE Parse
  BY <1>6, Kinds, BackupGoes DEF Parse, HostType, DiskType, LogType, BackupPoints, AtWork, host, tables
<1>7. CASE Record \/ BackupFails
  <2>1. job \in BackupJob
    BY <1>7, Kinds DEF Record, BackupFails
  <2>2. rows' \in [Jobs -> Row]
    <3>1. job.id \in Jobs
      BY <2>1 DEF BackupJob
    <3>2. CASE Record
      BY <3>1, <3>2, RowChanges DEF Record, RowStatus
    <3>3. CASE BackupFails
      BY <3>1, <3>3, RowFails DEF BackupFails
    <3> QED BY <1>7, <3>2, <3>3
  <2> QED BY <1>7, <2>2 DEF Record, BackupFails, JobType, HostType, DiskType, LogType, host
<1> QED BY <1>1, <1>2, <1>3, <1>4, <1>5, <1>6, <1>7 DEF BackupStep

\* Types along a restore.
LEMMA RestoreTypes ==
  ASSUME TypeOK, RestoreStep
  PROVE  TypeOK'
<1> USE DEF TypeOK, At, Fault
<1>1. CASE Fetch
  <2>1. job \in RestoreJob /\ job.run \in Restores
    BY <1>1, Kinds DEF Fetch, RestoreJob
  <2>2. JobType'
    BY <1>1, <2>1, RestoreGoes DEF Fetch, RestorePoints, AtWork
  <2>3. {c.svc : c \in Tree} \subseteq Services
    BY DEF Tree, DiskType, Copy
  <2>4. found' \in [Restores -> SUBSET Services]
    BY <1>1, <2>1, <2>3 DEF Fetch, LogType
  <2> QED BY <1>1, <2>2, <2>4 DEF Fetch, HostType, DiskType, LogType, host, tables
<1>2. CASE \E s \in Services : Skip(s)
  <2>1. PICK s \in Services : Skip(s)
    BY <1>2
  <2>2. JobType'
    BY <2>1, Kinds DEF Skip, JobType, RestoreJob, AtWork
  <2> QED BY <2>1, <2>2 DEF Skip, HostType, DiskType, LogType, host, tables
<1>3. CASE \E s \in Services : Stop(s)
  <2>1. PICK s \in Services : Stop(s)
    BY <1>3
  <2>2. JobType' /\ job'.svc = s
    BY <2>1, Kinds, Takes DEF Stop, RestorePoints
  <2>3. HostType' /\ seen' \in SUBSET {"docker", "io", "crash"}
    BY <2>1, <2>2, DockerType DEF Stop, HostType
  <2> QED BY <2>1, <2>2, <2>3 DEF Stop, DiskType, LogType, tables
<1>4. CASE Clear \/ CopyBack
  <2>1. job \in RestoreJob /\ job.svc \in Services
    BY <1>4, Kinds DEF Clear, CopyBack, JobType, AtWork, Idle
  <2>2. JobType'
    BY <1>4, <2>1, RestoreGoes DEF Clear, CopyBack, Breaks, RestorePoints
  <2>3. data' \in [Services -> Content]
    <3>1. \A d \in Content, o \in {"wiped", "partial", job.id} : [d EXCEPT !.of = o] \in Content
      BY <2>1 DEF Content, RestoreJob
    <3>2. data' \in {data} \cup {[data EXCEPT ![job.svc] = [data[job.svc] EXCEPT !.of = o]] :
                                  o \in {"wiped", "partial", job.id}}
      BY <1>4 DEF Clear, CopyBack, Breaks
    <3> QED BY <2>1, <3>1, <3>2 DEF HostType
  <2>4. put' \in [Restores -> SUBSET Services]
    BY <1>4, <2>1 DEF Clear, CopyBack, LogType, RestoreJob
  <2> QED BY <1>4, <2>2, <2>3, <2>4 DEF Clear, CopyBack, Breaks, HostType, DiskType, LogType, tables
<1>5. CASE Start
  <2>1. job \in RestoreJob /\ job.svc \in Services /\ job.at \in Finally
    BY <1>5, Kinds DEF Start, JobType, AtWork, Finally, Idle
  <2>2. JobType' /\ job'.svc = job.svc
    BY <1>5, <2>1, RestoreGoes DEF Start, After, RestorePoints, AtWork
  <2>3. HostType' /\ seen' \in SUBSET {"docker", "io", "crash"}
    BY <1>5, <2>1, <2>2, DockerType DEF Start, HostType
  <2> QED BY <1>5, <2>2, <2>3 DEF Start, DiskType, LogType, tables
<1>6. CASE LogRestore \/ MarkRestored \/ RestoreFails
  <2>1. job \in RestoreJob /\ job.id \in Jobs /\ job.run \in Restores
    BY <1>6, Kinds DEF LogRestore, MarkRestored, RestoreFails, RestoreJob
  <2>2. JobType'
    BY <1>6, <2>1, RestoreGoes DEF LogRestore, MarkRestored, RestoreFails, RestorePoints, AtWork, JobType
  <2>3. log' \in [Restores -> Entry]
    BY <1>6, <2>1, EntryChanges DEF LogRestore, MarkRestored, RestoreFails, Logged, LogType
  <2>4. rows' \in [Jobs -> Row]
    <3>1. rows' \in {rows, [rows EXCEPT ![job.id].status = "restored"]}
      BY <1>6 DEF LogRestore, MarkRestored, RestoreFails
    <3>2. CASE rows' = rows
      BY <3>2 DEF LogType
    <3>3. CASE rows' = [rows EXCEPT ![job.id].status = "restored"]
      BY <2>1, <3>3, RowChanges DEF RowStatus
    <3> QED BY <3>1, <3>2, <3>3
  <2> QED BY <1>6, <2>2, <2>3, <2>4
          DEF LogRestore, MarkRestored, RestoreFails, HostType, DiskType, LogType, host
<1> QED BY <1>1, <1>2, <1>3, <1>4, <1>5, <1>6 DEF RestoreStep

\* Types along requests, crashes and writes.
LEMMA OtherTypes ==
  ASSUME TypeOK, Request \/ Crash \/ Restart \/ \E s \in Services : Write(s)
  PROVE  TypeOK'
<1> USE DEF TypeOK, Free, Fault
<1>1. CASE Request
  <2>1. CASE \E j \in Jobs : Delete(j)
    <3>1. PICK j \in Jobs : Delete(j)
      BY <2>1
    <3>2. rows' \in [Jobs -> Row]
      BY <3>1, RowChanges DEF Delete, RowStatus
    <3> QED BY <3>1, <3>2 DEF Delete, HostType, DiskType, LogType, host, JobType, AtWork
  <2>2. CASE \E j \in Jobs, S \in SUBSET Services : StartBackup(j, S)
    <3>1. PICK j \in Jobs, S \in SUBSET Services : StartBackup(j, S)
      BY <2>2
    <3>2. JobType'
      BY <3>1 DEF StartBackup, JobType, BackupJob, BackupPoints, AtWork
    <3>3. rows' \in [Jobs -> Row]
      BY <3>1 DEF StartBackup, LogType, Row, RowStatus
    <3> QED BY <3>1, <3>2, <3>3 DEF StartBackup, HostType, DiskType, LogType, host
  <2>3. CASE \E r \in Restores, j \in Jobs, S \in SUBSET Services : StartRestore(r, j, S)
    <3>1. PICK r \in Restores, j \in Jobs, S \in SUBSET Services : StartRestore(r, j, S)
      BY <2>3
    <3>2. JobType'
      BY <3>1 DEF StartRestore, JobType, RestoreJob, RestorePoints, AtWork
    <3>3. log' \in [Restores -> Entry]
      BY <3>1 DEF StartRestore, LogType, Entry
    <3> QED BY <3>1, <3>2, <3>3 DEF StartRestore, HostType, DiskType, LogType, host
  <2> QED BY <1>1, <2>1, <2>2, <2>3 DEF Request
<1>2. CASE Crash \/ Restart
  BY <1>2 DEF Crash, Restart, JobType, HostType, DiskType, LogType, host, tables, AtWork
<1>3. CASE \E s \in Services : Write(s)
  <2>1. PICK s \in Services : Write(s)
    BY <1>3
  <2>2. data' \in [Services -> Content]
    <3>1. data[s] \in Content /\ data[s].writes < MaxWrites
      BY <2>1 DEF Write, HostType
    <3>2. [data[s] EXCEPT !.writes = @ + 1] \in Content
      BY <3>1, BackupAssumption DEF Content
    <3> QED BY <2>1, <3>2 DEF Write, HostType
  <2> QED BY <2>1, <2>2 DEF Write, JobType, HostType, DiskType, LogType, tables, AtWork
<1> QED BY <1>1, <1>2, <1>3

-----------------------------------------------------------------------------
(* Containers.                                                             *)

\* HeldByItsJob: outside the commands of a job nothing is down, between them it stays the same one.
LEMMA HeldStep ==
  ASSUME TypeOK, HeldByItsJob, Next
  PROVE  HeldByItsJob'
<1> USE DEF At, Fault
<1>1. seen \subseteq seen' /\ (Clean' => Clean)
  BY DEF Next, BackupStep, RestoreStep, Request, InitRepo, Pause, CopyOut, Unpause, Store, Parse, Record,
     BackupFails, Fetch, Skip, Stop, Clear, CopyBack, Breaks, Start, LogRestore, MarkRestored, RestoreFails, Delete, StartBackup,
     StartRestore, Crash, Restart, Write, Docker, Clean
\* Outside the commands of a job everything runs, and nothing is taken down.
<1>2. ASSUME job = Idle \/ job.at \notin AtWork, UNCHANGED ctr PROVE HeldByItsJob'
  BY <1>1, <1>2 DEF HeldByItsJob, Holding, AtWork
\* Between them the same container stays down.
<1>3. ASSUME job.at \in AtWork, job'.at \in AtWork, job # Idle, job' # Idle, UNCHANGED ctr,
             job'.svc = job.svc, job'.kind = job.kind
      PROVE  HeldByItsJob'
  BY <1>1, <1>3 DEF HeldByItsJob, Holding, AtWork
\* A container that is taken down is the one of the service that is next.
<1>4. ASSUME NEW s \in Services, job # Idle, job.at = "next", job'.svc = s, job' # Idle, job'.at \in AtWork,
             job'.kind = job.kind, NEW from, "running" \in from,
             Docker(from, IF job.kind = "backup" THEN "paused" ELSE "stopped")
      PROVE  HeldByItsJob'
  <2>1. SUFFICES ASSUME Clean' PROVE HeldByItsJob'
    BY DEF HeldByItsJob
  <2>2. \A c \in Containers : ctr[c] = "running"
    BY <1>1, <1>4, <2>1 DEF HeldByItsJob, Holding
  <2>3. /\ \A c \in Containers \ {Container[s]} : ctr'[c] = "running"
        /\ ctr'[Container[s]] = IF job.kind = "backup" THEN "paused" ELSE "stopped"
    BY <1>4, <2>1, <2>2, BackupAssumption DEF Docker, TypeOK, HostType, Clean
  <2> QED BY <1>4, <2>3 DEF HeldByItsJob, Holding, AtWork
\* And it is brought up again by the same job.
<1>5. ASSUME job # Idle, job.at \in AtWork, job.svc \in Services, job'.svc = job.svc,
             NEW from, from = {IF job.kind = "backup" THEN "paused" ELSE "stopped"}, Docker(from, "running")
      PROVE  HeldByItsJob'
  <2>1. SUFFICES ASSUME Clean' PROVE HeldByItsJob'
    BY DEF HeldByItsJob
  <2>2. \A c \in Containers : ctr[c] # "running" =>
          /\ c = Container[job.svc]
          /\ ctr[c] = IF job.kind = "backup" THEN "paused" ELSE "stopped"
    BY <1>1, <2>1 DEF HeldByItsJob, Holding
  <2>3. \A c \in Containers : ctr'[c] = "running"
    BY <1>5, <2>1, <2>2, BackupAssumption DEF Docker, TypeOK, HostType, Clean
  <2> QED BY <2>3 DEF HeldByItsJob
<1>6. CASE BackupStep
  <2>1. job \in BackupJob /\ job # Idle /\ job.kind = "backup"
    BY <1>6, Kinds DEF BackupStep, InitRepo, Pause, CopyOut, Unpause, Store, Parse, Record, BackupFails
  <2>2. CASE InitRepo \/ Store \/ Parse \/ Record \/ BackupFails
    BY <1>2, <2>1, <2>2 DEF InitRepo, Store, Parse, Record, BackupFails, AtWork, host
  <2>3. CASE CopyOut
    <3>1. job'.at \in {"copied", "threw"} /\ job' # Idle /\ job'.svc = job.svc /\ job'.kind = job.kind
      <4>1. job.svc \in Services /\ \E p \in {"copied", "threw"} : Goto(p)
        BY <2>1, <2>3 DEF CopyOut, TypeOK, JobType, AtWork
      <4> QED BY <2>1, <4>1, BackupGoes DEF BackupPoints
    <3> QED BY <1>3, <2>1, <2>3, <3>1 DEF CopyOut, AtWork, host
  <2>4. CASE \E s \in Services : Pause(s)
    <3>1. PICK s \in Services : Pause(s)
      BY <2>4
    <3>2. job'.svc = s /\ job' # Idle /\ job'.at = "copying" /\ job'.kind = "backup"
      BY <2>1, <3>1, Takes DEF Pause, BackupPoints
    <3>3. Docker({"running"}, "paused")
      BY <3>1 DEF Pause, Pauses
    <3> QED BY <1>4, <2>1, <3>1, <3>2, <3>3 DEF Pause, AtWork
  <2>5. CASE Unpause
    <3>1. job.svc \in Services /\ job.at \in Finally \cap AtWork
      BY <2>1, <2>5 DEF Unpause, TypeOK, JobType, AtWork, Finally
    <3>2. job'.svc = job.svc
      BY <2>1, <2>5, <3>1, BackupGoes DEF Unpause, After, BackupPoints, AtWork
    <3> QED BY <1>5, <2>1, <2>5, <3>1, <3>2 DEF Unpause
  <2> QED BY <1>6, <2>2, <2>3, <2>4, <2>5 DEF BackupStep
<1>7. CASE RestoreStep
  <2>1. job \in RestoreJob /\ job # Idle /\ job.kind = "restore"
    BY <1>7, Kinds DEF RestoreStep, Fetch, Skip, Stop, Clear, CopyBack, Breaks, Start, LogRestore, MarkRestored, RestoreFails
  <2>2. CASE Fetch \/ LogRestore \/ MarkRestored \/ RestoreFails \/ \E s \in Services : Skip(s)
    BY <1>2, <2>1, <2>2 DEF Fetch, LogRestore, MarkRestored, RestoreFails, Skip, AtWork, host
  <2>3. CASE Clear \/ CopyBack
    <3>1. job'.at \in AtWork /\ job' # Idle /\ job'.svc = job.svc /\ job'.kind = job.kind
      <4>1. job.svc \in Services /\ \E p \in {"copy", "copied", "threw"} : Goto(p)
        BY <2>1, <2>3 DEF Clear, CopyBack, Breaks, TypeOK, JobType, AtWork
      <4> QED BY <2>1, <4>1, RestoreGoes DEF RestorePoints, AtWork
    <3> QED BY <1>3, <2>1, <2>3, <3>1 DEF Clear, CopyBack, Breaks, AtWork
  <2>4. CASE \E s \in Services : Stop(s)
    <3>1. PICK s \in Services : Stop(s)
      BY <2>4
    <3>2. job'.svc = s /\ job' # Idle /\ job'.at = "clear" /\ job'.kind = "restore"
      BY <2>1, <3>1, Takes DEF Stop, RestorePoints
    <3> QED BY <1>4, <2>1, <3>1, <3>2 DEF Stop, AtWork
  <2>5. CASE Start
    <3>1. job.svc \in Services /\ job.at \in Finally \cap AtWork
      BY <2>1, <2>5 DEF Start, TypeOK, JobType, AtWork, Finally
    <3>2. job'.svc = job.svc
      BY <2>1, <2>5, <3>1, RestoreGoes DEF Start, After, RestorePoints, AtWork
    <3> QED BY <1>5, <2>1, <2>5, <3>1, <3>2 DEF Start
  <2> QED BY <1>7, <2>2, <2>3, <2>4, <2>5 DEF RestoreStep
<1>8. CASE Request \/ Restart
  BY <1>2, <1>8 DEF Request, Restart, Delete, StartBackup, StartRestore, Free, TypeOK, host
<1>9. CASE Crash
  BY <1>9 DEF Crash, HeldByItsJob, Clean
<1>10. CASE \E s \in Services : Write(s)
  BY <1>1, <1>10 DEF Write, HeldByItsJob, Holding
<1> QED BY <1>6, <1>7, <1>8, <1>9, <1>10 DEF Next

-----------------------------------------------------------------------------
(* Copies.                                                                 *)

\* What is staged while docker obeys is of one moment, and only that is stored.
LEMMA CopiesStep ==
  ASSUME TypeOK, CopiesSound, PausedCopyIsOneState, StagedSoFar, Next
  PROVE  CopiesSound' /\ PausedCopyIsOneState'
<1> USE DEF At, Fault
<1>1. "docker" \in seen => "docker" \in seen'
  BY DEF Next, BackupStep, RestoreStep, Request, InitRepo, Pause, CopyOut, Unpause, Store, Parse, Record,
     BackupFails, Fetch, Skip, Stop, Clear, CopyBack, Breaks, Start, LogRestore, MarkRestored, RestoreFails, Delete, StartBackup,
     StartRestore, Crash, Restart, Write, Docker
<1>2. ASSUME UNCHANGED repo PROVE PausedCopyIsOneState'
  BY <1>1, <1>2 DEF PausedCopyIsOneState
<1>3. ASSUME ~(job'.kind = "backup" /\ job'.at \in {"next", "copying", "copied"}) PROVE CopiesSound'
  BY <1>3 DEF CopiesSound
<1>4. CASE InitRepo
  <2>1. job \in BackupJob
    BY <1>4, Kinds DEF InitRepo
  <2>2. job'.id = job.id /\ job'.at \in {"next", "fail"} /\ staging[job.id] = {} /\ UNCHANGED <<repo, staging>>
    BY <1>4, <2>1, BackupGoes DEF InitRepo, BackupPoints, AtWork, StagedSoFar
  <2> QED BY <1>2, <2>2 DEF CopiesSound
<1>5. CASE \E s \in Services : Pause(s)
  <2>1. PICK s \in Services : Pause(s)
    BY <1>5
  <2>2. /\ job \in BackupJob /\ job.at = "next" /\ s \in job.todo /\ UNCHANGED <<repo, data>>
        /\ job'.id = job.id /\ job'.svc = s /\ job'.at = "copying" /\ job'.kind = "backup"
    BY <2>1, Kinds, Takes DEF Pause, BackupPoints
  <2> DEFINE new == [svc |-> s, first |-> data[s], last |-> Unread]
  <2>3. staging'[job.id] = staging[job.id] \cup {new}
    BY <2>1, <2>2 DEF Pause, TypeOK, DiskType, BackupJob
  <2>4. \A c \in staging[job.id] : c.svc # s
    BY <2>2 DEF StagedSoFar, BackupJob
  <2>5. "docker" \notin seen' => ctr'[Container[s]] # "running"
    BY <2>1, <2>2, DockerType DEF Pause, Pauses, TypeOK
  <2>6. ASSUME "docker" \notin seen', NEW c \in staging'[job.id]
        PROVE  IF c.svc = s THEN Writers[c.svc] \subseteq {Container[c.svc]} => c.first = data'[c.svc]
                            ELSE OneState(c)
    <3>1. CASE c = new
      BY <2>2, <3>1
    <3>2. CASE c \in staging[job.id]
      BY <1>1, <2>2, <2>4, <2>6, <3>2 DEF CopiesSound, BackupJob
    <3> QED BY <2>3, <2>6, <3>1, <3>2
  <2> QED BY <1>2, <2>2, <2>5, <2>6 DEF CopiesSound, OneState
<1>6. CASE CopyOut
  <2>1. job \in BackupJob /\ job.svc \in Services /\ job.at = "copying" /\ UNCHANGED repo
    BY <1>6, Kinds DEF CopyOut, TypeOK, JobType, AtWork, Idle
  <2>2. job'.id = job.id /\ job'.at \in {"copied", "threw"}
    BY <1>6, <2>1, BackupGoes DEF CopyOut, BackupPoints
  <2>3. CASE job'.at = "copied"
    <3>1. /\ UNCHANGED seen /\ job.id \in Jobs
          /\ staging' = [staging EXCEPT ![job.id] =
               {IF c.svc = job.svc THEN [c EXCEPT !.last = data[c.svc]] ELSE c : c \in @}]
      BY <1>6, <2>1, <2>3, BackupGoes DEF CopyOut, BackupPoints, BackupJob
    <3>2. staging'[job.id] =
            {IF c.svc = job.svc THEN [c EXCEPT !.last = data[c.svc]] ELSE c : c \in staging[job.id]}
      BY <3>1 DEF TypeOK, DiskType
    <3>3. ASSUME "docker" \notin seen', NEW d \in staging'[job.id] PROVE OneState(d)
      <4>1. PICK c \in staging[job.id] :
              d = IF c.svc = job.svc THEN [c EXCEPT !.last = data[c.svc]] ELSE c
        BY <3>2
      <4>2. c \in Copy
        BY <3>1 DEF TypeOK, DiskType
      <4>3. CASE c.svc = job.svc
        <5>1. Writers[c.svc] \subseteq {Container[c.svc]} => c.first = data[c.svc]
          BY <2>1, <3>1, <3>3, <4>3 DEF CopiesSound, BackupJob
        <5>2. d.svc = c.svc /\ d.first = c.first /\ d.last = data[c.svc]
          BY <4>1, <4>2, <4>3 DEF Copy
        <5> QED BY <5>1, <5>2 DEF OneState
      <4>4. CASE c.svc # job.svc
        BY <2>1, <3>1, <3>3, <4>1, <4>4 DEF CopiesSound, BackupJob
      <4> QED BY <4>3, <4>4
    <3> QED BY <1>2, <2>1, <2>2, <2>3, <3>3 DEF CopiesSound, OneState
  <2> QED BY <1>2, <1>3, <2>1, <2>2, <2>3
<1>7. CASE Unpause
  <2>1. job \in BackupJob /\ job.svc \in Services /\ UNCHANGED <<repo, staging>>
    BY <1>7, Kinds DEF Unpause, TypeOK, JobType, AtWork, Idle
  <2>2. job'.id = job.id /\ (job'.at = "fail" \/ (job.at = "copied" /\ job'.at = "next"))
    BY <1>7, <2>1, BackupGoes DEF Unpause, After, BackupPoints, AtWork
  <2> QED BY <1>1, <1>2, <2>1, <2>2 DEF CopiesSound, OneState, BackupJob
<1>8. CASE Store
  <2>1. job \in BackupJob /\ job.at = "next" /\ seen \subseteq seen'
    BY <1>8, Kinds DEF Store
  <2>2. job'.at \in {"parse", "fail"}
    BY <1>8, <2>1, BackupGoes DEF Store, BackupPoints, AtWork
  <2>3. repo' \subseteq repo \cup {[tag |-> job.id, tree |-> staging[job.id]]}
    BY <1>8 DEF Store
  <2>4. "docker" \notin seen' => \A c \in staging[job.id] : OneState(c)
    BY <1>1, <2>1 DEF CopiesSound, BackupJob
  <2>5. PausedCopyIsOneState'
    <3> SUFFICES ASSUME "docker" \notin seen', NEW x \in repo', NEW c \in x.tree,
                        Writers[c.svc] \subseteq {Container[c.svc]}
                 PROVE  c.first = c.last
      BY DEF PausedCopyIsOneState
    <3>1. CASE x \in repo
      BY <1>1, <3>1 DEF PausedCopyIsOneState
    <3>2. CASE x = [tag |-> job.id, tree |-> staging[job.id]]
      BY <2>4, <3>2 DEF OneState
    <3> QED BY <2>3, <3>1, <3>2
  <2> QED BY <1>3, <2>2, <2>5
<1>9. CASE Parse \/ Record \/ BackupFails
  <2>1. job \in BackupJob /\ UNCHANGED repo
    BY <1>9, Kinds DEF Parse, Record, BackupFails
  <2>2. job' = Idle \/ job'.at \in {"record", "fail"}
    BY <1>9, <2>1, BackupGoes DEF Parse, Record, BackupFails, BackupPoints, AtWork
  <2> QED BY <1>2, <1>3, <2>1, <2>2 DEF Idle
<1>10. CASE RestoreStep
  <2>1. job \in RestoreJob /\ UNCHANGED repo
    BY <1>10, Kinds DEF RestoreStep, Fetch, Skip, Stop, Clear, CopyBack, Breaks, Start, LogRestore, MarkRestored, RestoreFails
  <2>2. job' = Idle \/ job'.kind = job.kind
    BY <1>10, <2>1 DEF RestoreStep, Fetch, Skip, Stop, Clear, CopyBack, Breaks, Start, LogRestore, MarkRestored, RestoreFails, Goto,
       RestoreJob
  <2> QED BY <1>2, <1>3, <2>1, <2>2 DEF Idle, RestoreJob
<1>11. CASE Request \/ Crash \/ Restart
  <2>1. UNCHANGED repo /\ (UNCHANGED job \/ job' = Idle \/ job'.at \in {"init", "fetch"})
    BY <1>11 DEF Request, Crash, Restart, Delete, StartBackup, StartRestore
  <2>2. UNCHANGED job => job = Idle
    BY <1>11 DEF Request, Crash, Restart, Delete, StartBackup, StartRestore, Free, TypeOK
  <2> QED BY <1>2, <1>3, <2>1, <2>2 DEF Idle
<1>12. CASE \E s \in Services : Write(s)
  <2>1. PICK s \in Services : Write(s)
    BY <1>12
  <2>2. /\ UNCHANGED <<job, repo, staging, ctr, seen>> /\ \A t \in Services \ {s} : data'[t] = data[t]
        /\ \E c \in Writers[s] : ctr[c] = "running"
    BY <2>1 DEF Write, TypeOK, HostType
  <2>3. ASSUME job.kind = "backup", job.at = "copying", "docker" \notin seen, job.svc = s
        PROVE  ~(Writers[s] \subseteq {Container[s]})
    BY <2>2, <2>3 DEF CopiesSound
  <2>4. job.kind = "backup" /\ job.at = "copying" => job.svc \in Services
    BY Kinds DEF TypeOK, JobType, AtWork
  <2> QED BY <1>2, <2>2, <2>3, <2>4 DEF CopiesSound, OneState
<1> QED BY <1>4, <1>5, <1>6, <1>7, <1>8, <1>9, <1>10, <1>11, <1>12 DEF Next, BackupStep

-----------------------------------------------------------------------------
(* Rows, staging directories and snapshots.                                *)

\* A row that is there stays, with the services it names; only a backup job or a deletion
\* changes the status of one that is not being restored.
LEMMA RowsStay ==
  ASSUME TypeOK, Next
  PROVE  \A j \in Jobs : rows[j].status # "none" =>
           rows'[j].services = rows[j].services /\ rows'[j].status # "none"
<1> USE DEF At, TypeOK
<1>1. CASE Record \/ BackupFails \/ MarkRestored
  <2>1. job.id \in Jobs
    BY <1>1, Kinds DEF Record, BackupFails, MarkRestored, BackupJob, RestoreJob
  <2>2. CASE Record
    BY <2>1, <2>2, RowChanges DEF Record, RowStatus
  <2>3. CASE BackupFails
    BY <2>1, <2>3, RowFails DEF BackupFails
  <2>4. CASE MarkRestored
    BY <2>1, <2>4, RowChanges DEF MarkRestored, RowStatus
  <2> QED BY <1>1, <2>2, <2>3, <2>4
<1>2. CASE \E j \in Jobs : Delete(j)
  BY <1>2, RowChanges DEF Delete, RowStatus
<1>3. CASE \E j \in Jobs, S \in SUBSET Services : StartBackup(j, S)
  BY <1>3 DEF StartBackup, LogType
<1>4. CASE UNCHANGED rows
  BY <1>4
<1> QED BY <1>1, <1>2, <1>3, <1>4 DEF Next, BackupStep, RestoreStep, Request, InitRepo, Pause, CopyOut,
        Unpause, Store, Parse, Fetch, Skip, Stop, Clear, CopyBack, Breaks, Start, LogRestore, RestoreFails, StartRestore,
        Crash, Restart, Write, tables

\* What the job has staged, as a set of services.
Staged == {c.svc : c \in staging[job.id]}

\* Pause takes one service from the list and stages it; nothing else does either.
LEMMA StagedStep ==
  ASSUME TypeOK, StagedSoFar, Next
  PROVE  StagedSoFar'
<1> USE DEF At
<1>1. ASSUME job \in BackupJob, UNCHANGED <<rows, staging>>, job'.id = job.id, job'.todo = job.todo,
             job'.kind = "backup", job'.at # "init",
             job'.at \in {"next", "copying", "copied", "threw"} => Staged = rows[job.id].services \ job.todo
      PROVE  StagedSoFar'
  BY <1>1 DEF StagedSoFar, Staged, BackupJob
<1>2. ASSUME job'.kind # "backup", UNCHANGED staging,
             \A j \in Jobs : rows'[j].status = "none" => rows[j].status = "none"
      PROVE  StagedSoFar'
  BY <1>2 DEF StagedSoFar
<1>3. CASE InitRepo
  <2>1. job \in BackupJob /\ staging[job.id] = {} /\ job.todo = rows[job.id].services
    BY <1>3, Kinds DEF InitRepo, StagedSoFar
  <2>2. PICK p \in {"next", "fail"} : Goto(p)
    BY <1>3 DEF InitRepo
  <2>3. job'.id = job.id /\ job'.todo = job.todo /\ job'.kind = "backup" /\ job'.at = p
    BY <2>1, <2>2, BackupGoes DEF BackupPoints, AtWork
  <2>4. Staged = {}
    BY <2>1 DEF Staged
  <2> QED BY <1>1, <1>3, <2>1, <2>2, <2>3, <2>4 DEF InitRepo, tables
<1>4. CASE \E s \in Services : Pause(s)
  <2>1. PICK s \in Services : Pause(s)
    BY <1>4
  <2>2. /\ job \in BackupJob /\ job.at = "next" /\ s \in job.todo /\ UNCHANGED rows
        /\ job'.id = job.id /\ job'.todo = job.todo \ {s} /\ job'.at = "copying" /\ job'.kind = "backup"
    BY <2>1, Kinds, Takes DEF Pause, BackupPoints, tables
  <2> DEFINE new == [svc |-> s, first |-> data[s], last |-> Unread]
  <2>3. /\ staging'[job.id] = staging[job.id] \cup {new} /\ job.id \in Jobs
        /\ \A j \in Jobs \ {job.id} : staging'[j] = staging[j]
    BY <2>1, <2>2 DEF Pause, TypeOK, DiskType, BackupJob
  <2>4. {c.svc : c \in staging'[job.id]} = {c.svc : c \in staging[job.id]} \cup {s}
    <3>1. new.svc = s
      OBVIOUS
    <3> HIDE DEF new
    <3> QED BY <2>3, <3>1
  <2>5. /\ {c.svc : c \in staging[job.id]} = rows[job.id].services \ job.todo
        /\ job.todo \subseteq rows[job.id].services /\ rows[job.id].status = "in_progress"
    BY <2>2 DEF StagedSoFar, BackupJob
  <2>6. {c.svc : c \in staging'[job.id]} = rows[job.id].services \ (job.todo \ {s})
    BY <2>2, <2>4, <2>5
  <2> HIDE DEF new
  <2> QED BY <2>2, <2>3, <2>5, <2>6 DEF StagedSoFar
<1>5. CASE CopyOut
  <2>1. job \in BackupJob /\ job.svc \in Services /\ job.at = "copying" /\ UNCHANGED rows /\ job.id \in Jobs
    BY <1>5, Kinds DEF CopyOut, TypeOK, JobType, AtWork, Idle, tables, BackupJob
  <2>2. PICK p \in {"copied", "threw"} : Goto(p)
    BY <1>5 DEF CopyOut
  <2>3. job'.id = job.id /\ job'.todo = job.todo /\ job'.kind = "backup" /\ job'.at = p
    BY <2>1, <2>2, BackupGoes DEF BackupPoints
  <2>4. Staged = rows[job.id].services \ job.todo /\ rows[job.id].status = "in_progress"
        /\ job.todo \subseteq rows[job.id].services
    BY <2>1 DEF StagedSoFar, Staged, BackupJob
  <2>5. CASE UNCHANGED staging
    BY <1>1, <2>1, <2>2, <2>3, <2>4, <2>5
  <2>6. CASE staging' = [staging EXCEPT ![job.id] =
               {IF c.svc = job.svc THEN [c EXCEPT !.last = data[c.svc]] ELSE c : c \in @}]
    <3>1. /\ staging'[job.id] =
               {IF c.svc = job.svc THEN [c EXCEPT !.last = data[c.svc]] ELSE c : c \in staging[job.id]}
          /\ \A j \in Jobs \ {job.id} : staging'[j] = staging[j]
      BY <2>1, <2>6 DEF TypeOK, DiskType
    <3>2. \A c \in staging[job.id] :
            (IF c.svc = job.svc THEN [c EXCEPT !.last = data[c.svc]] ELSE c).svc = c.svc
      BY <2>1 DEF TypeOK, DiskType, Copy
    <3>3. {c.svc : c \in staging'[job.id]} = Staged
      <4> DEFINE g(c) == IF c.svc = job.svc THEN [c EXCEPT !.last = data[c.svc]] ELSE c
      <4>1. staging'[job.id] = {g(c) : c \in staging[job.id]} /\ \A c \in staging[job.id] : g(c).svc = c.svc
        BY <3>1, <3>2
      <4> HIDE DEF g
      <4> QED BY <4>1 DEF Staged
    <3> QED BY <2>1, <2>2, <2>3, <2>4, <3>1, <3>3 DEF StagedSoFar
  <2> QED BY <1>5, <2>5, <2>6 DEF CopyOut
<1>6. CASE Unpause
  <2>1. job \in BackupJob /\ job.svc \in Services /\ UNCHANGED <<rows, staging>>
    BY <1>6, Kinds DEF Unpause, TypeOK, JobType, AtWork, Idle, tables
  <2>2. job'.id = job.id /\ job'.todo = job.todo /\ job'.kind = "backup" /\ job'.at \in {"next", "fail"}
    BY <1>6, <2>1, BackupGoes DEF Unpause, After, BackupPoints, AtWork
  <2>3. Staged = rows[job.id].services \ job.todo
    BY <1>6, <2>1 DEF Unpause, StagedSoFar, Staged, BackupJob
  <2> QED BY <1>1, <2>1, <2>2, <2>3
<1>7. CASE Store
  <2>1. job \in BackupJob /\ UNCHANGED <<rows, staging>>
    BY <1>7, Kinds DEF Store, tables
  <2>2. /\ job'.id = job.id /\ job'.todo = job.todo /\ job'.kind = "backup"
        /\ job'.at \in {"parse", "fail"}
    BY <1>7, <2>1, BackupGoes DEF Store, BackupPoints, AtWork
  <2> QED BY <1>1, <2>1, <2>2
<1>8. CASE Parse
  <2>1. job \in BackupJob /\ UNCHANGED rows /\ job.id \in Jobs
    BY <1>8, Kinds DEF Parse, tables, BackupJob
  <2>2. /\ job'.id = job.id /\ job'.todo = job.todo /\ job'.kind = "backup"
        /\ job'.at \in {"record", "fail"}
    BY <1>8, <2>1, BackupGoes DEF Parse, BackupPoints, AtWork
  <2>3. \A j \in Jobs : staging'[j] \in {staging[j], {}}
    BY <1>8, <2>1 DEF Parse, TypeOK, DiskType
  <2> QED BY <2>1, <2>2, <2>3 DEF StagedSoFar, BackupJob
<1>9. CASE Record \/ BackupFails \/ RestoreStep \/ Crash \/ Restart \/ \E j \in Jobs : Delete(j)
  <2>1. job'.kind # "backup" /\ UNCHANGED staging
    <3>1. CASE Record \/ BackupFails \/ Crash
      BY <3>1 DEF Record, BackupFails, Crash, Idle
    <3>2. CASE RestoreStep
      <4>1. job \in RestoreJob
        BY <3>2, Kinds DEF RestoreStep, Fetch, Skip, Stop, Clear, CopyBack, Breaks, Start, LogRestore, MarkRestored, RestoreFails
      <4>2. job' = Idle \/ job'.kind = job.kind
        BY <3>2, <4>1 DEF RestoreStep, Fetch, Skip, Stop, Clear, CopyBack, Breaks, Start, LogRestore, MarkRestored,
     RestoreFails,
           Goto, RestoreJob
      <4>3. UNCHANGED staging
        BY <3>2 DEF RestoreStep, Fetch, Skip, Stop, Clear, CopyBack, Breaks, Start, LogRestore, MarkRestored, RestoreFails
      <4> QED BY <4>1, <4>2, <4>3 DEF RestoreJob, Idle
    <3>3. CASE Restart \/ \E j \in Jobs : Delete(j)
      BY <3>3 DEF Restart, Delete, Free, TypeOK, Idle
    <3> QED BY <1>9, <3>1, <3>2, <3>3
  <2>2. \A j \in Jobs : rows'[j].status = "none" => rows[j].status = "none"
    BY RowsStay
  <2> QED BY <1>2, <2>1, <2>2
<1>10. CASE \E j \in Jobs, S \in SUBSET Services : StartBackup(j, S)
  <2>1. PICK j \in Jobs, S \in SUBSET Services : StartBackup(j, S)
    BY <1>10
  <2>2. /\ job'.kind = "backup" /\ job'.id = j /\ job'.todo = S /\ job'.at = "init"
        /\ UNCHANGED staging /\ rows[j].status = "none"
    BY <2>1 DEF StartBackup
  <2>3. /\ rows'[j].status = "in_progress" /\ rows'[j].services = S
        /\ \A i \in Jobs \ {j} : rows'[i] = rows[i]
    BY <2>1 DEF StartBackup, TypeOK, LogType
  <2> QED BY <2>2, <2>3 DEF StagedSoFar
<1>11. CASE \E r \in Restores, j \in Jobs, S \in SUBSET Services : StartRestore(r, j, S)
  BY <1>2, <1>11 DEF StartRestore
<1>12. CASE \E s \in Services : Write(s)
  BY <1>12 DEF Write, StagedSoFar, tables
<1> QED BY <1>3, <1>4, <1>5, <1>6, <1>7, <1>8, <1>9, <1>10, <1>11, <1>12 DEF Next, BackupStep, Request

\* restic stores what is staged when the list is empty: all that the row names.
LEMMA NamedStep ==
  ASSUME TypeOK, StagedSoFar, SnapshotsNamed, Next
  PROVE  SnapshotsNamed'
<1>1. \A x \in repo : x.tag \in Jobs
  BY DEF TypeOK, DiskType
<1>2. CASE UNCHANGED repo
  BY <1>1, <1>2, RowsStay DEF SnapshotsNamed
<1>3. CASE Store
  <2>1. job \in BackupJob /\ job.id \in Jobs /\ job.at = "next" /\ job.todo = {} /\ UNCHANGED rows
    BY <1>3, Kinds DEF Store, At, tables, BackupJob
  <2>2. rows[job.id].status # "none" /\ {c.svc : c \in staging[job.id]} = rows[job.id].services
    BY <2>1 DEF StagedSoFar, BackupJob
  <2>3. repo' \subseteq repo \cup {[tag |-> job.id, tree |-> staging[job.id]]}
    BY <1>3 DEF Store
  <2> SUFFICES ASSUME NEW x \in repo'
               PROVE  rows[x.tag].status # "none" /\ {c.svc : c \in x.tree} = rows[x.tag].services
    BY <2>1 DEF SnapshotsNamed
  <2>4. CASE x \in repo
    BY <2>4 DEF SnapshotsNamed
  <2>5. CASE x = [tag |-> job.id, tree |-> staging[job.id]]
    <3>1. x.tag = job.id /\ x.tree = staging[job.id]
      BY <2>5
    <3> QED BY <2>2, <3>1
  <2> QED BY <2>3, <2>4, <2>5
<1> QED BY <1>2, <1>3 DEF Next, BackupStep, RestoreStep, Request, InitRepo, Pause, CopyOut, Unpause,
        Parse, Record, BackupFails, Fetch, Skip, Stop, Clear, CopyBack, Breaks, Start, LogRestore, MarkRestored,
     RestoreFails,
        Delete, StartBackup, StartRestore, Crash, Restart, Write

-----------------------------------------------------------------------------
(* Restores.                                                               *)

\* What restic brings is of the services that the row names.
LEMMA TreeIsNamed ==
  ASSUME SnapshotsNamed
  PROVE  {c.svc : c \in Tree} \subseteq rows[job.id].services
<1> SUFFICES ASSUME NEW c \in Tree PROVE c.svc \in rows[job.id].services
  OBVIOUS
<1>1. PICK x \in repo : x.tag = job.id /\ c \in x.tree
  BY DEF Tree
<1> QED BY <1>1 DEF SnapshotsNamed

\* Skip takes only what was not found, CopyBack puts back what Stop has taken.
LEMMA PutStep ==
  ASSUME TypeOK, SnapshotsNamed, PutSoFar, Next
  PROVE  PutSoFar'
<1> USE DEF At
<1> DEFINE Blank  == \A r \in Restores : log[r].status = "none" => put[r] = {} /\ found[r] = {}
           Named  == \A r \in Restores : log[r].status # "none" =>
                       log[r].job \in Jobs /\ rows[log[r].job].status # "none"
           Active == job.kind = "restore" =>
       /\ log[job.run].status \in {"in_progress", "success"} /\ log[job.run].job = job.id
       /\ job.at \notin {"mark", "fail"} => log[job.run].status = "in_progress"
       /\ rows[job.id].status \in {"in_progress", "success", "failed", "restored"}
       /\ job.todo \subseteq log[job.run].of
       /\ job.at = "fetch" => put[job.run] = {} /\ job.todo = log[job.run].of
       /\ job.at \notin {"fetch", "fail"} => \E x \in repo : x.tag = job.id
       /\ found[job.run] \subseteq rows[job.id].services
       /\ job.at \in {"next", "copied"} => put[job.run] = (log[job.run].of \ job.todo) \cap found[job.run]
       /\ job.at \in {"clear", "copy"} =>
            /\ job.svc \in log[job.run].of \cap found[job.run]
            /\ put[job.run] \cup {job.svc} = (log[job.run].of \ job.todo) \cap found[job.run]
<1>1. Blank /\ Named /\ Active
  BY DEF PutSoFar
<1>2. Blank' /\ Named' /\ Active' => PutSoFar'
  BY DEF PutSoFar
<1>3. UNCHANGED <<log, put, found>> => Blank' /\ Named'
  BY <1>1, RowsStay
<1>4. ASSUME UNCHANGED <<log, put, found>>, job'.kind # "restore" PROVE PutSoFar'
  BY <1>2, <1>3, <1>4
<1>5. CASE BackupStep
  <2>1. job \in BackupJob
    BY <1>5, Kinds DEF BackupStep, InitRepo, Pause, CopyOut, Unpause, Store, Parse, Record, BackupFails
  <2>2. UNCHANGED <<log, put, found>> /\ (job' = Idle \/ job'.kind = job.kind)
    BY <1>5, <2>1 DEF BackupStep, InitRepo, Pause, CopyOut, Unpause, Store, Parse, Record, BackupFails,
       Goto, BackupJob, tables
  <2> QED BY <1>4, <2>1, <2>2 DEF BackupJob, Idle
<1>6. CASE Crash \/ Restart \/ \E j \in Jobs : Delete(j) \/ \E S \in SUBSET Services : StartBackup(j, S)
  <2>1. UNCHANGED <<log, put, found>> /\ job'.kind # "restore"
    BY <1>6 DEF Crash, Restart, Delete, StartBackup, Free, TypeOK, Idle, tables
  <2> QED BY <1>4, <2>1
<1>7. CASE \E s \in Services : Write(s)
  <2>1. UNCHANGED <<job, rows, log, put, found, repo>>
    BY <1>7 DEF Write, tables
  <2> QED BY <1>1, <1>2, <2>1
<1>8. CASE \E r \in Restores, j \in Jobs, S \in SUBSET Services : StartRestore(r, j, S)
  <2>1. PICK r \in Restores, j \in Jobs, S \in SUBSET Services : StartRestore(r, j, S)
    BY <1>8
  <2>2. /\ job'.kind = "restore" /\ job'.at = "fetch" /\ job'.id = j /\ job'.run = r /\ job'.todo = S
        /\ UNCHANGED <<rows, put, found, repo>> /\ log[r].status = "none"
        /\ rows[j].status \in RowStatus \ {"none", "deleted"}
    BY <2>1 DEF StartRestore, TypeOK, LogType, Row
  <2>3. /\ log'[r].status = "in_progress" /\ log'[r].job = j /\ log'[r].of = S
        /\ \A q \in Restores \ {r} : log'[q] = log[q]
    BY <2>1 DEF StartRestore, TypeOK, LogType
  <2>4. Blank' /\ Named'
    BY <1>1, <2>2, <2>3
  <2>5. Active'
    BY <1>1, <2>2, <2>3 DEF RowStatus
  <2> QED BY <1>2, <2>4, <2>5
<1>9. CASE RestoreStep
  <2>1. job \in RestoreJob /\ job.kind = "restore" /\ job.id \in Jobs /\ job.run \in Restores
    BY <1>9, Kinds DEF RestoreStep, Fetch, Skip, Stop, Clear, CopyBack, Breaks, Start, LogRestore, MarkRestored,
     RestoreFails,
       RestoreJob
  <2>2. CASE Fetch
    <3>1. PICK p \in {"next", "fail"} : Goto(p) /\ (p = "next" => \E x \in repo : x.tag = job.id)
      BY <2>2 DEF Fetch, Stored
    <3>2. /\ UNCHANGED <<rows, log, put, repo>> /\ job.at = "fetch"
          /\ job'.at = p /\ job'.id = job.id /\ job'.run = job.run /\ job'.todo = job.todo
      BY <2>1, <2>2, <3>1, RestoreGoes DEF Fetch, tables, RestorePoints, AtWork
    <3>3. /\ found'[job.run] \in {found[job.run], {}, {c.svc : c \in Tree}}
          /\ \A r \in Restores \ {job.run} : found'[r] = found[r]
      BY <2>1, <2>2 DEF Fetch, TypeOK, LogType
    <3>4. found'[job.run] \subseteq rows[job.id].services
      BY <1>1, <2>1, <3>3, TreeIsNamed
    <3>5. Active'
      BY <1>1, <2>1, <3>1, <3>2, <3>4
    <3>6. Blank' /\ Named'
      BY <1>1, <2>1, <3>2, <3>3
    <3> QED BY <1>2, <3>5, <3>6
  <2>3. CASE \E s \in Services : Skip(s)
    <3>1. PICK s \in Services : Skip(s)
      BY <2>3
    <3>2. /\ UNCHANGED <<rows, log, put, found, repo>> /\ job.at = "next" /\ s \in job.todo /\ ~Present(s)
          /\ job'.at = "next" /\ job'.id = job.id /\ job'.run = job.run /\ job'.todo = job.todo \ {s}
      BY <2>1, <3>1 DEF Skip, tables, RestoreJob
    <3>3. s \notin found[job.run]
      BY <3>2 DEF Present
    <3>4. Active'
      BY <1>1, <2>1, <3>2, <3>3
    <3> QED BY <1>2, <1>3, <3>2, <3>4
  <2>4. CASE \E s \in Services : Stop(s)
    <3>1. PICK s \in Services : Stop(s)
      BY <2>4
    <3>2. /\ UNCHANGED <<rows, log, put, found, repo>> /\ job.at = "next" /\ s \in job.todo /\ Present(s)
          /\ job'.at = "clear" /\ job'.id = job.id /\ job'.run = job.run /\ job'.todo = job.todo \ {s}
          /\ job'.svc = s
      BY <2>1, <3>1, Takes DEF Stop, tables, RestorePoints
    <3>3. s \in found[job.run]
      BY <3>2 DEF Present
    <3>4. Active'
      BY <1>1, <2>1, <3>2, <3>3
    <3> QED BY <1>2, <1>3, <3>2, <3>4
  <2>5. CASE Clear
    <3>1. PICK p \in {"copy", "threw"} : Goto(p)
      BY <2>5 DEF Clear, Breaks
    <3>2. job.svc \in Services
      BY <2>1, <2>5 DEF Clear, TypeOK, JobType, AtWork, Idle
    <3>3. /\ UNCHANGED <<rows, log, put, found, repo>> /\ job.at = "clear"
          /\ job'.at = p /\ job'.id = job.id /\ job'.run = job.run /\ job'.todo = job.todo
          /\ job'.svc = job.svc
      BY <2>1, <2>5, <3>1, <3>2, RestoreGoes DEF Clear, tables, RestorePoints
    <3>4. Active'
      BY <1>1, <2>1, <3>1, <3>3
    <3> QED BY <1>2, <1>3, <3>3, <3>4
  <2>6. CASE CopyBack
    <3>1. PICK p \in {"copied", "threw"} : Goto(p) /\ (p = "threw" => UNCHANGED put)
                 /\ put' \in {put, [put EXCEPT ![job.run] = @ \cup {job.svc}]}
                 /\ (p = "copied" => put' = [put EXCEPT ![job.run] = @ \cup {job.svc}])
      BY <2>6 DEF CopyBack, Breaks
    <3>2. job.svc \in Services
      BY <2>1, <2>6 DEF CopyBack, TypeOK, JobType, AtWork, Idle
    <3>3. /\ UNCHANGED <<rows, log, found, repo>> /\ job.at = "copy"
          /\ job'.at = p /\ job'.id = job.id /\ job'.run = job.run /\ job'.todo = job.todo
          /\ job'.svc = job.svc
      BY <2>1, <2>6, <3>1, <3>2, RestoreGoes DEF CopyBack, tables, RestorePoints
    <3>4. /\ \A r \in Restores \ {job.run} : put'[r] = put[r]
          /\ p = "copied" => put'[job.run] = put[job.run] \cup {job.svc}
      BY <2>1, <3>1 DEF TypeOK, LogType
    <3>5. Active'
      BY <1>1, <2>1, <3>1, <3>3, <3>4
    <3>6. Blank' /\ Named'
      BY <1>1, <2>1, <3>3, <3>4
    <3> QED BY <1>2, <3>5, <3>6
  <2>7. CASE Start
    <3>1. job.svc \in Services
      BY <2>1, <2>7 DEF Start, TypeOK, JobType, AtWork, Idle
    <3>2. /\ UNCHANGED <<rows, log, put, found, repo>>
          /\ (job'.at = "fail" \/ (job.at = "copied" /\ job'.at = "next"))
          /\ job'.id = job.id /\ job'.run = job.run /\ job'.todo = job.todo
      BY <2>1, <2>7, <3>1, RestoreGoes DEF Start, After, tables, RestorePoints, AtWork
    <3>3. Active'
      BY <1>1, <2>1, <3>2
    <3> QED BY <1>2, <1>3, <3>2, <3>3
  <2>8. CASE LogRestore
    <3>1. PICK p \in {"mark", "fail"} : Goto(p)
      BY <2>8 DEF LogRestore
    <3>2. /\ UNCHANGED <<rows, put, found, repo>> /\ job.at = "next"
          /\ job'.at = p /\ job'.id = job.id /\ job'.run = job.run /\ job'.todo = job.todo
      BY <2>1, <2>8, <3>1, RestoreGoes DEF LogRestore, RestorePoints, AtWork
    <3>3. log' \in {log, [log EXCEPT ![job.run].status = "success"]}
      BY <2>8 DEF LogRestore, Logged
    <3>4. /\ log'[job.run].status \in {log[job.run].status, "success"}
          /\ \A q \in Restores : log'[q].job = log[q].job /\ log'[q].of = log[q].of
          /\ \A q \in Restores \ {job.run} : log'[q] = log[q]
      BY <2>1, <3>3, EntryChanges DEF TypeOK
    <3>5. Active'
      BY <1>1, <2>1, <3>1, <3>2, <3>4
    <3>6. Blank' /\ Named'
      BY <1>1, <2>1, <3>2, <3>4
    <3> QED BY <1>2, <3>5, <3>6
  <2>9. CASE MarkRestored
    <3>1. UNCHANGED <<log, put, found, repo>> /\ (job' = Idle \/ (Goto("fail") /\ UNCHANGED rows))
      BY <2>9 DEF MarkRestored
    <3>2. CASE job' = Idle
      BY <1>4, <3>1, <3>2 DEF Idle
    <3>3. CASE Goto("fail") /\ UNCHANGED rows
      <4>1. job'.at = "fail" /\ job'.id = job.id /\ job'.run = job.run /\ job'.todo = job.todo
        BY <2>1, <3>3, RestoreGoes DEF RestorePoints, AtWork
      <4>2. Active'
        BY <1>1, <2>1, <3>1, <3>3, <4>1
      <4> QED BY <1>2, <1>3, <3>1, <4>2
    <3> QED BY <3>1, <3>2, <3>3
  <2>10. CASE RestoreFails
    <3>1. /\ log'[job.run].status = "failed"
          /\ \A q \in Restores : log'[q].job = log[q].job
          /\ \A q \in Restores \ {job.run} : log'[q] = log[q]
      BY <2>1, <2>10, EntryChanges DEF RestoreFails, TypeOK
    <3>2. UNCHANGED <<put, found>> /\ job' = Idle
      BY <2>10 DEF RestoreFails
    <3>3. log[job.run].status # "none"
      BY <1>1, <2>1
    <3>4. Blank' /\ Named'
      BY <1>1, <2>1, <3>1, <3>2, <3>3, RowsStay
    <3> QED BY <1>2, <3>2, <3>4 DEF Idle
  <2> QED BY <1>9, <2>2, <2>3, <2>4, <2>5, <2>6, <2>7, <2>8, <2>9, <2>10 DEF RestoreStep
<1> QED BY <1>5, <1>6, <1>7, <1>8, <1>9 DEF Next, Request

\* An entry becomes a success when the list is empty, and is touched again only to say that its
\* job failed.
LEMMA LogsStep ==
  ASSUME TypeOK, PutSoFar, LoggedRestoreIsComplete, Next
  PROVE  LoggedRestoreIsComplete'
<1> DEFINE Complete(r) == /\ put[r] = log[r].of \cap found[r]
                          /\ found[r] \subseteq rows[log[r].job].services
<1> SUFFICES ASSUME NEW r \in Restores, log'[r].status = "success"
             PROVE  Complete(r)'
  BY DEF LoggedRestoreIsComplete
<1> USE DEF At
\* An entry that was a success before is left alone.
<1>1. ASSUME log'[r] = log[r], put'[r] = put[r], found'[r] = found[r] PROVE Complete(r)'
  <2>1. log[r].job \in Jobs /\ rows[log[r].job].status # "none"
    BY <1>1 DEF PutSoFar
  <2> QED BY <1>1, <2>1, RowsStay DEF LoggedRestoreIsComplete
<1>2. CASE LogRestore
  <2>1. job \in RestoreJob /\ job.kind = "restore" /\ job.run \in Restores /\ job.id \in Jobs
    BY <1>2, Kinds DEF LogRestore, RestoreJob
  <2>2. UNCHANGED <<put, found, rows>> /\ job.at = "next" /\ job.todo = {}
    BY <1>2 DEF LogRestore
  <2>3. log' \in {log, [log EXCEPT ![job.run].status = "success"]}
    BY <1>2 DEF LogRestore, Logged
  <2>4. /\ \A q \in Restores : log'[q].job = log[q].job /\ log'[q].of = log[q].of
        /\ \A q \in Restores \ {job.run} : log'[q] = log[q]
    BY <2>1, <2>3, EntryChanges DEF TypeOK
  <2>5. /\ put[job.run] = log[job.run].of \cap found[job.run] /\ log[job.run].job = job.id
        /\ found[job.run] \subseteq rows[job.id].services
    BY <2>1, <2>2 DEF PutSoFar
  <2> QED BY <1>1, <2>2, <2>4, <2>5
<1>3. CASE RestoreFails
  <2>1. job \in RestoreJob /\ job.run \in Restores
    BY <1>3, Kinds DEF RestoreFails, RestoreJob
  <2>2. /\ log'[job.run].status = "failed"
        /\ \A q \in Restores \ {job.run} : log'[q] = log[q]
    BY <1>3, <2>1, EntryChanges DEF RestoreFails, TypeOK
  <2> QED BY <1>1, <1>3, <2>2 DEF RestoreFails
<1>4. CASE CopyBack \/ Fetch
  <2>1. job \in RestoreJob /\ job.kind = "restore" /\ job.run \in Restores
    BY <1>4, Kinds DEF CopyBack, Fetch, RestoreJob
  <2>2. log[job.run].status = "in_progress"
    BY <1>4, <2>1 DEF PutSoFar, CopyBack, Fetch
  <2>3. UNCHANGED log /\ \A q \in Restores \ {job.run} : put'[q] = put[q] /\ found'[q] = found[q]
    BY <1>4, <2>1 DEF CopyBack, Fetch, tables, TypeOK, LogType
  <2> QED BY <1>1, <2>2, <2>3
<1>5. CASE \E q \in Restores, j \in Jobs, S \in SUBSET Services : StartRestore(q, j, S)
  <2>1. PICK q \in Restores, j \in Jobs, S \in SUBSET Services : StartRestore(q, j, S)
    BY <1>5
  <2>2. /\ log'[q].status = "in_progress" /\ UNCHANGED <<put, found>>
        /\ \A p \in Restores \ {q} : log'[p] = log[p]
    BY <2>1 DEF StartRestore, TypeOK, LogType
  <2> QED BY <1>1, <2>2
<1>6. CASE UNCHANGED <<log, put, found>>
  BY <1>1, <1>6
<1> QED BY <1>2, <1>3, <1>4, <1>5, <1>6 DEF Next, BackupStep, RestoreStep, Request, InitRepo, Pause, CopyOut,
        Unpause, Store, Parse, Record, BackupFails, Skip, Stop, Clear, Start, MarkRestored, Delete,
        StartBackup, Crash, Restart, Write, tables

-----------------------------------------------------------------------------
(* The invariant.                                                          *)

\* An empty history, and services that run.
LEMMA InitSafe == Init => IInv
<1> SUFFICES ASSUME Init PROVE IInv
  OBVIOUS
<1> USE BackupAssumption DEF Init
<1>1. TypeOK
  <2>1. [of |-> "live", writes |-> 0] \in Content /\ NoRow \in Row /\ NoEntry \in Entry
    BY DEF Content, NoRow, Row, RowStatus, NoEntry, Entry
  <2>2. HostType /\ LogType
    BY <2>1 DEF HostType, LogType
  <2> QED BY <2>2 DEF TypeOK, JobType, DiskType
<1>2. job.kind = "idle" /\ \A r \in Restores : log[r].status = "none"
  BY DEF Idle, NoEntry
<1>3. HeldByItsJob /\ CopiesSound /\ PausedCopyIsOneState /\ StagedSoFar /\ SnapshotsNamed
  BY <1>2 DEF HeldByItsJob, CopiesSound, PausedCopyIsOneState, StagedSoFar, SnapshotsNamed
<1>4. PutSoFar /\ LoggedRestoreIsComplete
  BY <1>2 DEF PutSoFar, LoggedRestoreIsComplete
<1> QED BY <1>1, <1>3, <1>4 DEF IInv

\* Every part of the invariant needs the types, and those before it.
LEMMA Inductive == IInv /\ [Next]_vars => IInv'
<1> SUFFICES ASSUME IInv, [Next]_vars PROVE IInv'
  OBVIOUS
<1>1. CASE Next
  <2>1. TypeOK'
    BY <1>1, BackupTypes, RestoreTypes, OtherTypes DEF Next, IInv
  <2>2. HeldByItsJob'
    BY <1>1, HeldStep DEF IInv
  <2>3. CopiesSound' /\ PausedCopyIsOneState'
    BY <1>1, CopiesStep DEF IInv
  <2>4. StagedSoFar' /\ SnapshotsNamed'
    BY <1>1, StagedStep, NamedStep DEF IInv
  <2>5. PutSoFar' /\ LoggedRestoreIsComplete'
    BY <1>1, PutStep, LogsStep DEF IInv
  <2> QED BY <2>1, <2>2, <2>3, <2>4, <2>5 DEF IInv
<1>2. CASE UNCHANGED vars
  <2>1. UNCHANGED <<up, job, rows, log, inited, staging, repo, ctr, data, found, put, seen>>
    BY <1>2 DEF vars, tables, host
  <2>2. TypeOK'
    BY <2>1 DEF IInv, TypeOK, JobType, HostType, DiskType, LogType, AtWork
  <2>3. HeldByItsJob' /\ CopiesSound' /\ PausedCopyIsOneState'
    BY <2>1 DEF IInv, HeldByItsJob, Clean, Holding, CopiesSound, OneState, PausedCopyIsOneState
  <2>4. StagedSoFar' /\ SnapshotsNamed'
    BY <2>1 DEF IInv, StagedSoFar, SnapshotsNamed
  <2>5. PutSoFar' /\ LoggedRestoreIsComplete'
    BY <2>1 DEF IInv, PutSoFar, LoggedRestoreIsComplete
  <2> QED BY <2>2, <2>3, <2>4, <2>5 DEF IInv
<1> QED BY <1>1, <1>2

-----------------------------------------------------------------------------
(* The service.                                                            *)

\* The status column, as the service sees it.
LEMMA StatusMoves ==
  ASSUME LogType, NEW j \in Jobs, NEW st \in RowStatus, rows' = [rows EXCEPT ![j].status = st]
  PROVE  [i \in Jobs |-> rows'[i].status] = [[i \in Jobs |-> rows[i].status] EXCEPT ![j] = st]
<1>1. rows'[j].status = st /\ \A i \in Jobs \ {j} : rows'[i] = rows[i]
  BY RowChanges
<1>2. \A i \in Jobs : rows'[i].status = IF i = j THEN st ELSE rows[i].status
  BY <1>1
<1> DEFINE f == [i \in Jobs |-> rows[i].status]
           g == [f EXCEPT ![j] = st]
<1>3. g = [i \in Jobs |-> IF i = j THEN st ELSE rows[i].status]
  OBVIOUS
<1> QED BY <1>2, <1>3

\* Inside a job nothing can be seen but that it is under way.
LEMMA StepSimulation ==
  ASSUME TypeOK, PutSoFar, [Next]_vars
  PROVE  [Service!ServiceNext]_(Service!service)
<1> DEFINE status == [j \in Jobs |-> rows[j].status]
<1> USE DEF At, TypeOK
<1>1. ASSUME UNCHANGED <<up, rows>>, job # Idle, job' # Idle, job'.kind = job.kind, job'.id = job.id
      PROVE  UNCHANGED Service!service
  BY <1>1 DEF Service!service, Work
<1>2. CASE BackupStep
  <2>1. job \in BackupJob /\ job # Idle /\ job.id \in Jobs /\ UNCHANGED up
    BY <1>2, Kinds DEF BackupStep, InitRepo, Pause, CopyOut, Unpause, Store, Parse, Record, BackupFails,
       BackupJob
  <2>2. CASE Record \/ BackupFails
    <3>1. PICK st \in {"success", "failed"} : status' = [status EXCEPT ![job.id] = st]
      <4>1. CASE Record
        <5>1. rows' = [rows EXCEPT ![job.id].status = "success"]
          BY <4>1 DEF Record
        <5>2. status' = [status EXCEPT ![job.id] = "success"]
          BY <2>1, <5>1, StatusMoves DEF RowStatus
        <5> QED BY <5>2
      <4>2. CASE BackupFails
        BY <2>1, <4>2, RowFails DEF BackupFails
      <4> QED BY <2>2, <4>1, <4>2
    <3>2. Work = [kind |-> "backup", job |-> job.id] /\ Work # Idle /\ Work' = Idle
      BY <2>1, <2>2 DEF Work, BackupJob, Record, BackupFails, Idle
    <3> QED BY <2>1, <3>1, <3>2 DEF Service!ServiceNext, Service!End, Service!Outcomes
  <2>3. CASE ~(Record \/ BackupFails)
    <3>1. UNCHANGED rows
      BY <1>2, <2>3 DEF BackupStep, InitRepo, Pause, CopyOut, Unpause, Store, Parse, tables
    <3>2. job' # Idle /\ job'.kind = job.kind /\ job'.id = job.id
      BY <1>2, <2>1, <2>3 DEF BackupStep, InitRepo, Pause, CopyOut, Unpause, Store, Parse, Goto, BackupJob, Idle
    <3> QED BY <1>1, <2>1, <3>1, <3>2
  <2> QED BY <2>2, <2>3
<1>3. CASE RestoreStep
  <2>1. job \in RestoreJob /\ job # Idle /\ job.id \in Jobs /\ UNCHANGED up
    BY <1>3, Kinds DEF RestoreStep, Fetch, Skip, Stop, Clear, CopyBack, Breaks, Start, LogRestore, MarkRestored,
     RestoreFails,
       RestoreJob
  <2>2. CASE job' = Idle
    <3>0. MarkRestored \/ RestoreFails
      BY <1>3, <2>1, <2>2, RestoreGoes DEF RestoreStep, Fetch, Skip, Stop, Clear, CopyBack, Breaks, Start,
         LogRestore, Goto, RestoreJob, Idle
    <3>1. PICK st \in {"restored", status[job.id]} : status' = [status EXCEPT ![job.id] = st]
      <4>1. CASE MarkRestored
        <5>1. rows' = [rows EXCEPT ![job.id].status = "restored"]
          BY <2>1, <2>2, <4>1 DEF MarkRestored, Goto, RestoreJob, Idle
        <5>2. status' = [status EXCEPT ![job.id] = "restored"]
          BY <2>1, <5>1, StatusMoves DEF RowStatus
        <5> QED BY <5>2
      <4>2. CASE RestoreFails
        BY <2>1, <4>2 DEF RestoreFails
      <4> QED BY <3>0, <4>1, <4>2
    <3>2. Work = [kind |-> "restore", job |-> job.id] /\ Work # Idle /\ Work' = Idle
      BY <2>1, <2>2 DEF Work, RestoreJob, Idle
    <3> QED BY <2>1, <3>1, <3>2 DEF Service!ServiceNext, Service!End, Service!Outcomes
  <2>3. CASE job' # Idle
    <3>1. UNCHANGED rows
      BY <1>3, <2>3 DEF RestoreStep, Fetch, Skip, Stop, Clear, CopyBack, Breaks, Start, LogRestore, MarkRestored,
         RestoreFails, tables
    <3>2. job' # Idle /\ job'.kind = job.kind /\ job'.id = job.id
      BY <1>3, <2>1, <2>3 DEF RestoreStep, Fetch, Skip, Stop, Clear, CopyBack, Breaks, Start, LogRestore,
         MarkRestored, RestoreFails, Goto, RestoreJob, Idle
    <3> QED BY <1>1, <2>1, <3>1, <3>2
  <2> QED BY <2>2, <2>3
<1>4. CASE Request
  <2>1. CASE \E j \in Jobs : Delete(j)
    <3>1. PICK j \in Jobs : Delete(j)
      BY <2>1
    <3>2. status' = [status EXCEPT ![j] = "deleted"] /\ status[j] \in RowStatus \ {"none", "deleted"}
      <4>1. rows' = [rows EXCEPT ![j].status = "deleted"] /\ rows[j].status \notin {"none", "deleted"}
        BY <3>1 DEF Delete
      <4>2. status' = [status EXCEPT ![j] = "deleted"]
        BY <4>1, StatusMoves DEF RowStatus
      <4> QED BY <4>1, <4>2 DEF LogType, Row
    <3>3. up /\ Work = Idle /\ Work' = Idle /\ UNCHANGED up
      BY <3>1 DEF Delete, Free, Work
    <3> QED BY <3>2, <3>3 DEF Service!ServiceNext, Service!Remove, Service!Free, Service!Kept, RowStatus
  <2>2. CASE \E j \in Jobs, S \in SUBSET Services : StartBackup(j, S)
    <3>1. PICK j \in Jobs, S \in SUBSET Services : StartBackup(j, S)
      BY <2>2
    <3>2. status' = [status EXCEPT ![j] = "in_progress"] /\ status[j] = "none"
      BY <3>1 DEF StartBackup, LogType
    <3>3. up /\ Work = Idle /\ UNCHANGED up /\ Work' = [kind |-> "backup", job |-> j]
      BY <3>1 DEF StartBackup, Free, Work, Idle
    <3> QED BY <3>2, <3>3 DEF Service!ServiceNext, Service!Begin, Service!Free
  <2>3. CASE \E r \in Restores, j \in Jobs, S \in SUBSET Services : StartRestore(r, j, S)
    <3>1. PICK r \in Restores, j \in Jobs, S \in SUBSET Services : StartRestore(r, j, S)
      BY <2>3
    <3>2. UNCHANGED status /\ status[j] \in RowStatus \ {"none", "deleted"}
      BY <3>1 DEF StartRestore, LogType, Row
    <3>3. up /\ Work = Idle /\ UNCHANGED up /\ Work' = [kind |-> "restore", job |-> j]
      BY <3>1 DEF StartRestore, Free, Work, Idle
    <3> QED BY <3>2, <3>3 DEF Service!ServiceNext, Service!BeginRestore, Service!Free, Service!Kept, RowStatus
  <2> QED BY <1>4, <2>1, <2>2, <2>3 DEF Request
<1>5. CASE Crash
  BY <1>5 DEF Crash, tables, Work, Service!ServiceNext, Service!Die
<1>6. CASE Restart
  BY <1>6 DEF Restart, tables, Work, Service!ServiceNext, Service!Rise
<1>7. CASE \E s \in Services : Write(s)
  BY <1>7 DEF Write, tables, Work, Service!service
<1>8. CASE UNCHANGED vars
  BY <1>8 DEF vars, tables, Work, Service!service
<1> QED BY <1>2, <1>3, <1>4, <1>5, <1>6, <1>7, <1>8 DEF Next

-----------------------------------------------------------------------------
(* What follows for every behaviour.                                       *)

\* The inductive invariant holds whatever jobs, failures, crashes and writes there are.
THEOREM Invariance == Spec => []IInv
BY InitSafe, Inductive, PTL DEF Spec

\* Rows, entries, jobs, snapshots and containers have their types.
THEOREM TypeCorrect == Spec => []TypeOK
<1>1. IInv => TypeOK
  BY DEF IInv
<1> QED BY <1>1, Invariance, PTL

\* The finally blocks of snapshot.ts and restore.ts: whatever command of a job fails, the only
\* container that is down is the one it works on, while docker obeys and the sidecar lives.
THEOREM OnlyOneDown == Spec => []OnlyTheServiceAtWorkIsDown
<1>1. IInv => OnlyTheServiceAtWorkIsDown
  BY DEF IInv, HeldByItsJob, Clean, OnlyTheServiceAtWorkIsDown
<1> QED BY <1>1, Invariance, PTL

\* A snapshot holds one moment of every service that its own container alone writes: the pause
\* spans the copy, and no failed copy is ever stored.
THEOREM CopiesAreStates == Spec => []PausedCopyIsOneState
<1>1. IInv => PausedCopyIsOneState
  BY DEF IInv
<1> QED BY <1>1, Invariance, PTL

\* Whatever restic makes of the id and wherever it puts the services, a restore that is logged as a
\* success has put back, whole, every service it was asked for that lay where restore.ts looks, and
\* that is no service that its backup does not name; no command that failed is passed over.
THEOREM LogsAreTrue == Spec => []LoggedRestoreIsComplete
<1>1. IInv => LoggedRestoreIsComplete
  BY DEF IInv
<1> QED BY <1>1, Invariance, PTL

\* The sidecar takes no step that BackupService does not allow: one job at a time, a row changed
\* by its own job only, nothing answered meanwhile, and a crash loses the job but no row.
THEOREM ServiceSafety == Spec => Service!ServiceInit /\ [][Service!ServiceNext]_(Service!service)
<1>1. Init => Service!ServiceInit
  BY DEF Init, Service!ServiceInit, Work, NoRow
<1>2. IInv /\ [Next]_vars => [Service!ServiceNext]_(Service!service)
  BY StepSimulation DEF IInv
<1> QED BY <1>1, <1>2, Invariance, PTL DEF Spec
-----------------------------------------------------------------------------
(* What a success is worth.                                                *)

HasSnapshot(j) == \E x \in repo : x.tag = j

\* The copies that a job has made are whole, but for the one that cp is at; a job that has come to
\* parse has stored them; and no row says that it can be restored before that.
ReadSoFar ==
  /\ \A x \in repo : \A c \in x.tree : c.last # Unread
  /\ job.kind = "backup" =>
       /\ job.at \in {"init", "next", "copied"} => \A c \in staging[job.id] : c.last # Unread
       /\ job.at = "copying" => \A c \in staging[job.id] : c.svc # job.svc => c.last # Unread
       /\ job.at \in {"parse", "record"} => HasSnapshot(job.id)
  /\ \A j \in Jobs : rows[j].status \in {"success", "restored"} => HasSnapshot(j)

\* What cp has read to the end is the content of a directory.
LEMMA ReadIsWhole ==
  ASSUME TypeOK, NEW s \in Services
  PROVE  data[s] # Unread
<1>1. data[s] \in Content
  BY DEF TypeOK, HostType
<1>2. data[s].of \in {"live", "wiped", "partial"} \cup Jobs
  BY <1>1 DEF Content
<1>3. Unread.of = "unread" /\ "unread" \notin Jobs
  BY BackupAssumption DEF Unread
<1> QED BY <1>2, <1>3

\* No step takes a snapshot away.
LEMMA SnapshotsStay ==
  ASSUME Next
  PROVE  repo \subseteq repo'
BY DEF Next, BackupStep, RestoreStep, Request, InitRepo, Pause, CopyOut, Unpause, Store, Parse, Record,
   BackupFails, Fetch, Skip, Stop, Clear, CopyBack, Breaks, Start, LogRestore, MarkRestored, RestoreFails, Delete, StartBackup,
   StartRestore, Crash, Restart, Write

\* What Store stores is whole.
LEMMA StoredWhole ==
  ASSUME TypeOK, ReadSoFar, Next
  PROVE  \A x \in repo' : \A c \in x.tree : c.last # Unread
<1>1. CASE UNCHANGED repo
  BY <1>1 DEF ReadSoFar
<1>2. CASE Store
  <2>1. \A c \in staging[job.id] : c.last # Unread
    BY <1>2 DEF Store, At, ReadSoFar
  <2>2. \A x \in repo' : x \in repo \/ x.tree = staging[job.id]
    BY <1>2 DEF Store
  <2> QED BY <2>1, <2>2 DEF ReadSoFar
<1> QED BY <1>1, <1>2 DEF Next, BackupStep, RestoreStep, Request, InitRepo, Pause, CopyOut, Unpause,
        Parse, Record, BackupFails, Fetch, Skip, Stop, Clear, CopyBack, Breaks, Start, LogRestore, MarkRestored,
     RestoreFails,
        Delete, StartBackup, StartRestore, Crash, Restart, Write

\* A row becomes a success behind Store, and restored behind a restore that found its snapshot.
LEMMA SuccessHasSnapshot ==
  ASSUME TypeOK, PutSoFar, ReadSoFar, Next, NEW j \in Jobs, rows'[j].status \in {"success", "restored"}
  PROVE  HasSnapshot(j)'
<1> SUFFICES HasSnapshot(j)
  BY SnapshotsStay DEF HasSnapshot
<1>0. rows[j].status \in {"success", "restored"} => HasSnapshot(j)
  BY DEF ReadSoFar
<1>1. CASE Record
  <2>1. job.id \in Jobs /\ HasSnapshot(job.id)
    BY <1>1, Kinds DEF Record, At, BackupJob, ReadSoFar
  <2>2. j # job.id => rows'[j] = rows[j]
    BY <1>1, <2>1, RowChanges DEF Record, RowStatus, TypeOK
  <2> QED BY <1>0, <2>1, <2>2
<1>2. CASE MarkRestored
  <2>1. job.id \in Jobs /\ HasSnapshot(job.id)
    BY <1>2, Kinds DEF MarkRestored, At, RestoreJob, PutSoFar, HasSnapshot
  <2>2. j # job.id => rows'[j] = rows[j]
    BY <1>2, <2>1, RowChanges DEF MarkRestored, RowStatus, TypeOK
  <2> QED BY <1>0, <2>1, <2>2
<1>3. CASE BackupFails
  <2>1. job.id \in Jobs
    BY <1>3, Kinds DEF BackupFails, At, BackupJob
  <2>2. rows'[job.id].status = "failed" /\ (j # job.id => rows'[j] = rows[j])
    BY <1>3, <2>1, RowFails DEF BackupFails, TypeOK
  <2> QED BY <1>0, <2>2
<1>4. CASE \E i \in Jobs : Delete(i)
  <2>1. PICK i \in Jobs : Delete(i)
    BY <1>4
  <2>2. rows'[i].status = "deleted" /\ (j # i => rows'[j] = rows[j])
    BY <2>1, RowChanges DEF Delete, RowStatus, TypeOK
  <2> QED BY <1>0, <2>2
<1>5. CASE \E i \in Jobs, S \in SUBSET Services : StartBackup(i, S)
  <2>1. PICK i \in Jobs, S \in SUBSET Services : StartBackup(i, S)
    BY <1>5
  <2>2. rows'[i].status = "in_progress" /\ (j # i => rows'[j] = rows[j])
    BY <2>1 DEF StartBackup, LogType, TypeOK
  <2> QED BY <1>0, <2>2
<1>6. CASE UNCHANGED rows
  BY <1>0, <1>6
<1> QED BY <1>1, <1>2, <1>3, <1>4, <1>5, <1>6 DEF Next, BackupStep, RestoreStep, Request, InitRepo, Pause,
        CopyOut, Unpause, Store, Parse, Fetch, Skip, Stop, Clear, CopyBack, Breaks, Start, LogRestore, RestoreFails,
        StartRestore, Crash, Restart, Write, tables

\* The copies of the job at work.
CopiesRead ==
  job.kind = "backup" =>
    /\ job.at \in {"init", "next", "copied"} => \A c \in staging[job.id] : c.last # Unread
    /\ job.at = "copying" => \A c \in staging[job.id] : c.svc # job.svc => c.last # Unread
    /\ job.at \in {"parse", "record"} => HasSnapshot(job.id)

\* Pause adds a copy that is not whole, CopyOut makes it so or throws, and an error never leads to
\* Store.
LEMMA CopiesReadStep ==
  ASSUME TypeOK, StagedSoFar, CopiesRead, Next
  PROVE  CopiesRead'
<1> USE DEF At
<1>1. CASE \E i \in Jobs, S \in SUBSET Services : StartBackup(i, S)
  <2>1. PICK i \in Jobs, S \in SUBSET Services : StartBackup(i, S)
    BY <1>1
  <2>2. job'.at = "init" /\ job'.id = i /\ staging' = staging /\ rows[i].status = "none"
    BY <2>1 DEF StartBackup
  <2>3. staging[i] = {}
    BY <2>2 DEF StagedSoFar
  <2> QED BY <2>2, <2>3 DEF CopiesRead
<1>2. CASE InitRepo
  <2>1. job \in BackupJob /\ job.at = "init" /\ staging' = staging
    BY <1>2, Kinds DEF InitRepo
  <2>2. job'.id = job.id /\ job'.at \in {"next", "fail"}
    BY <1>2, <2>1 DEF InitRepo, Goto, BackupJob
  <2> QED BY <2>1, <2>2 DEF CopiesRead, BackupJob
<1>3. CASE \E s \in Services : Pause(s)
  <2>1. PICK s \in Services : Pause(s)
    BY <1>3
  <2>2. /\ job \in BackupJob /\ job.at = "next"
        /\ job' = [job EXCEPT !.at = "copying", !.todo = @ \ {s}, !.svc = s]
    BY <2>1, Kinds DEF Pause
  <2>3. job'.id = job.id /\ job'.at = "copying" /\ job'.svc = s
    BY <2>2 DEF BackupJob
  <2>4. staging'[job.id] = staging[job.id] \cup {[svc |-> s, first |-> data[s], last |-> Unread]}
    BY <2>1, <2>2 DEF Pause, TypeOK, DiskType, BackupJob
  <2>5. \A c \in staging[job.id] : c.last # Unread
    BY <2>2 DEF CopiesRead, BackupJob
  <2>6. \A c \in staging'[job.id] : c.svc # s => c.last # Unread
    BY <2>4, <2>5
  <2> QED BY <2>3, <2>6 DEF CopiesRead
<1>4. CASE CopyOut
  <2>1. job \in BackupJob /\ job.at = "copying" /\ job.id \in Jobs /\ job.svc \in Services
    BY <1>4, Kinds DEF CopyOut, TypeOK, JobType, AtWork, BackupJob
  <2>2. job'.id = job.id /\ job'.at \in {"copied", "threw"}
    BY <1>4, <2>1 DEF CopyOut, Goto, BackupJob
  <2> SUFFICES ASSUME job'.at = "copied" PROVE \A c \in staging'[job.id] : c.last # Unread
    BY <2>2 DEF CopiesRead
  <2>3. staging' = [staging EXCEPT ![job.id] =
                      {IF c.svc = job.svc THEN [c EXCEPT !.last = data[c.svc]] ELSE c : c \in @}]
    BY <1>4, <2>1 DEF CopyOut, Goto, BackupJob
  <2>4. staging'[job.id] =
          {IF c.svc = job.svc THEN [c EXCEPT !.last = data[c.svc]] ELSE c : c \in staging[job.id]}
    BY <2>1, <2>3 DEF TypeOK, DiskType
  <2>5. \A c \in staging[job.id] : c \in Copy /\ (c.svc # job.svc => c.last # Unread)
    BY <2>1 DEF TypeOK, DiskType, CopiesRead, BackupJob
  <2> SUFFICES ASSUME NEW c \in staging[job.id], c.svc = job.svc
               PROVE  [c EXCEPT !.last = data[c.svc]].last # Unread
    BY <2>4, <2>5
  <2>6. [c EXCEPT !.last = data[c.svc]].last = data[job.svc]
    BY <2>5 DEF Copy
  <2> QED BY <2>1, <2>6, ReadIsWhole
<1>5. CASE Unpause
  <2>1. job \in BackupJob /\ job.at \in {"copied", "threw"} /\ staging' = staging
    BY <1>5, Kinds DEF Unpause
  <2>2. job'.id = job.id /\ job'.at = After(job.at)
    BY <1>5, <2>1 DEF Unpause, Goto, BackupJob
  <2> QED BY <2>1, <2>2 DEF CopiesRead, BackupJob, After
<1>6. CASE Store
  <2>1. job \in BackupJob
    BY <1>6, Kinds DEF Store
  <2>2. job'.id = job.id /\ job'.at \in {"parse", "fail"}
    BY <1>6, <2>1 DEF Store, Goto, BackupJob
  <2>3. ASSUME job'.at = "parse" PROVE \E x \in repo' : x.tag = job'.id
    <3>1. [tag |-> job.id, tree |-> staging[job.id]] \in repo'
      BY <1>6, <2>1, <2>3 DEF Store, Goto, BackupJob
    <3>2. [tag |-> job.id, tree |-> staging[job.id]].tag = job'.id
      BY <2>2
    <3> QED BY <3>1, <3>2
  <2> QED BY <2>2, <2>3 DEF CopiesRead, HasSnapshot
<1>7. CASE Parse
  <2>1. job \in BackupJob /\ job.at = "parse" /\ repo' = repo
    BY <1>7, Kinds DEF Parse
  <2>2. job'.id = job.id /\ job'.at \in {"record", "fail"}
    BY <1>7, <2>1 DEF Parse, Goto, BackupJob
  <2> QED BY <2>1, <2>2 DEF CopiesRead, BackupJob, HasSnapshot
<1>8. CASE RestoreStep
  <2>1. job' = Idle \/ (job \in RestoreJob /\ job'.kind = job.kind)
    BY <1>8, Kinds DEF RestoreStep, Fetch, Skip, Stop, Clear, CopyBack, Breaks, Start, LogRestore, MarkRestored,
     RestoreFails,
       Goto, RestoreJob
  <2> QED BY <2>1 DEF CopiesRead, Idle, RestoreJob
<1>9. CASE \E r \in Restores, j \in Jobs, S \in SUBSET Services : StartRestore(r, j, S)
  <2>1. job'.kind = "restore"
    BY <1>9 DEF StartRestore
  <2> QED BY <2>1 DEF CopiesRead
<1>10. CASE Record \/ BackupFails \/ Crash
  <2>1. job' = Idle
    BY <1>10 DEF Record, BackupFails, Crash
  <2> QED BY <2>1 DEF CopiesRead, Idle
<1>11. CASE Restart \/ (\E j \in Jobs : Delete(j)) \/ (\E s \in Services : Write(s))
  <2>1. UNCHANGED <<job, staging, repo>>
    BY <1>11 DEF Restart, Delete, Write
  <2> QED BY <2>1 DEF CopiesRead, HasSnapshot
<1> QED BY <1>1, <1>2, <1>3, <1>4, <1>5, <1>6, <1>7, <1>8, <1>9, <1>10, <1>11
        DEF Next, BackupStep, Request

\* However its commands fail and whenever it dies, the sidecar keeps the three together.
LEMMA ReadStep ==
  ASSUME IInv, ReadSoFar, [Next]_vars
  PROVE  ReadSoFar'
<1>0. TypeOK /\ StagedSoFar /\ PutSoFar
  BY DEF IInv
<1>1. CASE Next
  <2>1. CopiesRead'
    BY <1>0, <1>1, CopiesReadStep DEF ReadSoFar, CopiesRead
  <2>2. \A j \in Jobs : rows'[j].status \in {"success", "restored"} => HasSnapshot(j)'
    BY <1>0, <1>1, SuccessHasSnapshot
  <2>3. \A x \in repo' : \A c \in x.tree : c.last # Unread
    BY <1>0, <1>1, StoredWhole
  <2> QED BY <2>1, <2>2, <2>3 DEF ReadSoFar, CopiesRead
<1>2. CASE UNCHANGED vars
  BY <1>2 DEF ReadSoFar, HasSnapshot, vars, tables
<1> QED BY <1>1, <1>2

\* The history of backups tells the truth about what is stored: the try blocks of snapshot.ts
\* let no job with a failed command come to the row's success, deleting never takes a snapshot, and
\* each has the services that its row names, whole.
THEOREM SuccessSafe == Spec => []SuccessIsWhole
<1>1. Init => ReadSoFar
  BY DEF Init, ReadSoFar, Idle, NoRow
<1>2. IInv /\ ReadSoFar /\ [Next]_vars => ReadSoFar'
  BY ReadStep
<1>3. IInv /\ ReadSoFar => SuccessIsWhole
  BY DEF IInv, ReadSoFar, SnapshotsNamed, SuccessIsWhole, HasSnapshot
<1> QED BY <1>1, <1>2, <1>3, Invariance, PTL DEF Spec

\* No request, timer, failure or crash rewrites the history: a row keeps the services it was made
\* with, one that was deleted stays so, and no snapshot goes, whatever is deleted.
THEOREM HistoryKept ==
  Spec => [][/\ \A j \in Jobs : rows[j].status # "none" =>
                  /\ rows'[j].services = rows[j].services /\ rows'[j].status # "none"
                  /\ rows[j].status = "deleted" => rows'[j].status = "deleted"
             /\ repo \subseteq repo']_vars
<1>1. ASSUME IInv, Next, NEW j \in Jobs, rows[j].status = "deleted"
      PROVE  rows'[j].status = "deleted"
  <2>1. \/ rows'[j].status = rows[j].status
        \/ rows[j].status = "none"
        \/ job.id = j /\ job.kind \in {"backup", "restore"}
        \/ \E i \in Jobs : Delete(i) /\ i = j
    <3>1. CASE Record \/ BackupFails \/ MarkRestored
      <4>1. job.kind \in {"backup", "restore"} /\ job.id \in Jobs
        BY <1>1, <3>1, Kinds DEF IInv, Record, BackupFails, MarkRestored, At, BackupJob, RestoreJob
      <4>2. j # job.id => rows'[j] = rows[j]
        BY <1>1, <3>1, <4>1, RowChanges, RowFails
           DEF IInv, TypeOK, Record, BackupFails, MarkRestored, RowStatus
      <4> QED BY <4>1, <4>2
    <3>2. CASE \E i \in Jobs : Delete(i)
      BY <1>1, <3>2, RowChanges DEF IInv, TypeOK, Delete, RowStatus
    <3>3. CASE \E i \in Jobs, S \in SUBSET Services : StartBackup(i, S)
      BY <1>1, <3>3 DEF IInv, TypeOK, LogType, StartBackup
    <3>4. CASE UNCHANGED rows
      BY <3>4
    <3> QED BY <1>1, <3>1, <3>2, <3>3, <3>4 DEF Next, BackupStep, RestoreStep, Request, InitRepo, Pause,
            CopyOut, Unpause, Store, Parse, Fetch, Skip, Stop, Clear, CopyBack, Breaks, Start, LogRestore, RestoreFails,
            StartRestore, Crash, Restart, Write, tables
  <2>2. job.kind \in {"backup", "restore"} => rows[job.id].status # "deleted"
    BY <1>1 DEF IInv, StagedSoFar, PutSoFar
  <2> QED BY <1>1, <2>1, <2>2 DEF Delete
<1>2. IInv /\ [Next]_vars =>
        [/\ \A j \in Jobs : rows[j].status # "none" =>
              /\ rows'[j].services = rows[j].services /\ rows'[j].status # "none"
              /\ rows[j].status = "deleted" => rows'[j].status = "deleted"
         /\ repo \subseteq repo']_vars
  BY <1>1, RowsStay, SnapshotsStay DEF IInv
<1> QED BY <1>2, Invariance, PTL DEF Spec
=============================================================================
