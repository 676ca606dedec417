---------------------------- MODULE BackupService ----------------------------
(* What the backup sidecar promises to those who talk to it: jobs have a   *)
(* status, one job is worked on at a time, and nothing is answered while   *)
(* it is.  Backup implements this specification; BackupPanel is composed   *)
(* with it.                                                                *)
CONSTANTS Jobs, NULL

VARIABLES
  up,      \* the sidecar runs
  busy,    \* the job it works on: [kind, job], or NULL
  status   \* status[j]: the status column of backup_history

service == <<up, busy, status>>

Kept == {"in_progress", "success", "failed", "restored"}

ServiceInit == up = TRUE /\ busy = NULL /\ status = [j \in Jobs |-> "none"]

Free == up /\ busy = NULL

\* A row comes before its work.
Begin(j) ==
  /\ Free /\ status[j] = "none"
  /\ status' = [status EXCEPT ![j] = "in_progress"]
  /\ busy' = [kind |-> "backup", job |-> j]
  /\ UNCHANGED up

\* A restore does not touch the row until it is done.
BeginRestore(j) ==
  /\ Free /\ status[j] \in Kept
  /\ busy' = [kind |-> "restore", job |-> j]
  /\ UNCHANGED <<up, status>>

Outcomes(b) ==
  IF b.kind = "backup" THEN {"success", "failed"} ELSE {"restored", status[b.job]}

End ==
  /\ busy # NULL
  /\ \E s \in Outcomes(busy) : status' = [status EXCEPT ![busy.job] = s]
  /\ busy' = NULL
  /\ UNCHANGED up

Remove(j) ==
  /\ Free /\ status[j] \in Kept
  /\ status' = [status EXCEPT ![j] = "deleted"]
  /\ UNCHANGED <<up, busy>>

\* The work is lost and its row stays as it is.
Die  == up /\ up' = FALSE /\ busy' = NULL /\ UNCHANGED status
Rise == ~up /\ up' = TRUE /\ UNCHANGED <<busy, status>>

ServiceNext ==
  \/ End \/ Die \/ Rise
  \/ \E j \in Jobs : Begin(j) \/ BeginRestore(j) \/ Remove(j)

\* A job ends, unless the process dies, which comes back.
ServiceSpec ==
  /\ ServiceInit /\ [][ServiceNext]_service
  /\ WF_service(End) /\ WF_service(Rise)
=============================================================================
