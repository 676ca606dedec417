------------------------------- MODULE Startup -------------------------------
(* The start of the two containers that migrate a database before they     *)
(* serve: config/nextcloud/startup-waiter.sh and config/matrix/            *)
(* entrypoint.sh, both behind scripts/wait-for-db.sh, restarted by Docker  *)
(* (on-failure:5), and the lock files that tell the dashboard "migrating". *)
EXTENDS Integers, FiniteSets

CONSTANTS
  Tries,      \* how often Docker restarts a container that fails: 5
  Newest,     \* the newest version of the images
  MaxFaults   \* bound on crashes and interrupts

ASSUME StartupAssumption == Tries \in Nat /\ Newest \in Nat \ {0} /\ MaxFaults \in Nat

Services == {"nextcloud", "synapse"}

VARIABLES
  db,      \* the databases that accept connections
  data,    \* data[s]: the version of the data of s, 0 before the first start
  run,     \* run[s]: the state of the container
  image,   \* image[s]: the version it runs
  tries,   \* tries[s]: its restarts
  lock,    \* data/.migration-locks
  faults,
  killed   \* history: the locks whose holder was killed, or that came out of an archive

containers == <<run, image, tries>>
startup    == <<db, data, containers, lock, faults, killed>>

States == {"none", "waiting", "checking", "migrating", "migrated", "starting", "serving",
           "exited"}

StartupInit ==
  /\ db = Services /\ data = [s \in Services |-> 0]
  /\ run = [s \in Services |-> "none"] /\ image = [s \in Services |-> 0]
  /\ tries = [s \in Services |-> 0]
  /\ lock = {} /\ faults = 0 /\ killed = {}

Fault == faults < MaxFaults /\ faults' = faults + 1

Becomes(s, state) == run' = [run EXCEPT ![s] = state]

\* The container ends with an error: Docker counts and starts it again, or not.
Fails(s) ==
  /\ Becomes(s, IF tries[s] < Tries THEN "waiting" ELSE "exited")
  /\ tries' = [tries EXCEPT ![s] = IF @ < Tries THEN @ + 1 ELSE @]

-----------------------------------------------------------------------------
\* wait-for-db.sh has a connection.
WaiterReady(s) ==
  /\ run[s] = "waiting" /\ s \in db
  /\ Becomes(s, "checking")
  /\ UNCHANGED <<db, data, image, tries, lock, faults, killed>>

\* After 90 attempts the script ends, and set -e ends the container.
TimesOut(s) == Fails(s)

WaiterTimesOut(s) ==
  /\ run[s] = "waiting" /\ s \notin db
  /\ TimesOut(s)
  /\ UNCHANGED <<db, data, image, lock, faults, killed>>

\* The status of occ cannot be had without the database; then, as on a fresh install, nothing
\* is upgraded.
NeedsUpgrade == "nextcloud" \in db /\ data["nextcloud"] \in 1..(image["nextcloud"] - 1)

Installed(s) == IF data[s] = 0 /\ s \in db THEN [data EXCEPT ![s] = image[s]] ELSE data

NextcloudSkips ==
  /\ run["nextcloud"] = "checking" /\ ~NeedsUpgrade
  /\ Becomes("nextcloud", "serving") /\ data' = Installed("nextcloud")
  /\ UNCHANGED <<db, image, tries, lock, faults, killed>>

\* Mutated form: only the trap of a failure removes the file.
MutUnlocked(s) == IF data[s] = image[s] THEN lock ELSE lock \ {s}

Unlocked(s) == lock \ {s}

\* mkdir, touch, trap.  Synapse runs its script at every start; its flock only keeps two
\* containers apart.  Whether the image of Synapse has the script is left open.
Locks(s) ==
  /\ run[s] = "checking" /\ (s = "nextcloud" => NeedsUpgrade)
  /\ Becomes(s, "migrating") /\ lock' = lock \cup {s}
  /\ UNCHANGED <<db, data, image, tries, faults, killed>>

\* occ upgrade, update_synapse_database.
Migrates(s) ==
  /\ run[s] = "migrating" /\ s \in db
  /\ Becomes(s, "migrated") /\ data' = [data EXCEPT ![s] = image[s]]
  /\ UNCHANGED <<db, image, tries, lock, faults, killed>>

\* By itself, or with the database gone.  set -e: the trap releases the lock and the container ends.
MigrationFails(s) ==
  /\ run[s] = "migrating" /\ (Fault \/ (s \notin db /\ UNCHANGED faults))
  /\ Fails(s) /\ lock' = Unlocked(s) /\ killed' = killed \ {s}
  /\ UNCHANGED <<db, data, image>>

\* rm -f, or the trap of the subshell.
Releases(s) ==
  /\ run[s] = "migrated"
  /\ Becomes(s, "serving") /\ lock' = Unlocked(s) /\ killed' = killed \ {s}
  /\ UNCHANGED <<db, data, image, tries, faults>>

\* update_synapse_database not found: the server migrates when it starts, without a lock.
StartsUnlocked ==
  /\ run["synapse"] = "checking" /\ Becomes("synapse", "starting")
  /\ UNCHANGED <<db, data, image, tries, lock, faults, killed>>

MigratesUnlocked ==
  /\ run["synapse"] = "starting" /\ "synapse" \in db
  /\ Becomes("synapse", "serving") /\ data' = [data EXCEPT !["synapse"] = image["synapse"]]
  /\ UNCHANGED <<db, image, tries, lock, faults, killed>>

\* By itself, or with the database gone.
ServerFails ==
  /\ run["synapse"] = "starting" /\ (Fault \/ ("synapse" \notin db /\ UNCHANGED faults))
  /\ Fails("synapse")
  /\ UNCHANGED <<db, data, image, lock, killed>>

\* The process is killed, with no time for a trap: sh runs none for a signal.
Killed(s) ==
  /\ run[s] \notin {"none", "exited"} /\ Fault
  /\ Fails(s) /\ killed' = killed \cup ({s} \cap lock)
  /\ UNCHANGED <<db, data, image, lock>>

DbDown(s) == s \in db /\ Fault /\ db' = db \ {s} /\ UNCHANGED <<data, containers, lock, killed>>
DbUp(s) == s \notin db /\ db' = db \cup {s} /\ UNCHANGED <<data, containers, lock, faults, killed>>

StartStep(s) ==
  \/ WaiterReady(s) \/ WaiterTimesOut(s) \/ Locks(s) \/ Migrates(s) \/ Releases(s)
  \/ s = "nextcloud" /\ NextcloudSkips
  \/ s = "synapse" /\ (StartsUnlocked \/ MigratesUnlocked)
  \/ s \notin db /\ (MigrationFails(s) \/ (s = "synapse" /\ ServerFails))

FaultStep(s) == MigrationFails(s) \/ (s = "synapse" /\ ServerFails) \/ Killed(s) \/ DbDown(s)

-----------------------------------------------------------------------------
(* What docker compose does to them.                                       *)

\* up -d: what has no container, one that has exited, or one of another image is made anew.
Anew(tags) == {s \in Services : run[s] \in {"none", "exited"} \/ image[s] # tags[s]}

Recreated(set, tags) ==
  /\ run' = [s \in Services |-> IF s \in set THEN "waiting" ELSE run[s]]
  /\ image' = [s \in Services |-> IF s \in set THEN tags[s] ELSE image[s]]
  /\ tries' = [s \in Services |-> IF s \in set THEN 0 ELSE tries[s]]
  /\ killed' = killed \cup (set \cap lock)

\* down: they are stopped, whatever they are at, and removed.
Down ==
  /\ run' = [s \in Services |-> "none"] /\ image' = [s \in Services |-> 0]
  /\ tries' = [s \in Services |-> 0] /\ killed' = killed \cup lock

\* readContainerHealth: a container that runs and has a lock file.
ShownMigrating(s) == run[s] \notin {"none", "exited"} /\ s \in lock
=============================================================================
