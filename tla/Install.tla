------------------------------- MODULE Install -------------------------------
(* install.sh (with scripts/migrate-secrets.sh) and boom.sh: the scripts    *)
(* that prepare the host and bring the containers up.  One script runs at a *)
(* time; set -e or an interrupt may end it between any two of its commands. *)
EXTENDS Startup, Sequences

CONSTANT MaxRuns   \* bound on the scripts that are run

ASSUME InstallAssumption == MaxRuns \in Nat

\* Three of the secrets stand for all: the first of the list of boom.sh, the others that
\* docker-compose.yml declares, and the one that only the backup sidecar reads.
Declared == {"mysql_root_password", "mysql_password"}
\* The password of the administrator of the MariaDB of Nextcloud, and of the Postgres of Synapse.
PassFile == [nextcloud |-> "mysql_root_password", synapse |-> "mysql_password"]

BoomList == <<"mysql_root_password", "mysql_password", "restic_password">>

VARIABLES
  pc,        \* the script and its next command, "idle" when none runs
  runs,      \* the scripts begun so far
  env,       \* .env exists
  synapse,   \* the directory data/matrix/synapse exists
  secrets,   \* secrets[f]: the run that made the value in the file, Empty, or Absent
  dbPass,    \* dbPass[s]: the password that the database of s was initialised with
  tags       \* tags[s]: the version the local image of s has

Absent == -1
Empty  == 0

host    == <<env, synapse, secrets>>
install == <<pc, runs, host, dbPass, tags>>

InstallInit ==
  /\ pc = "idle" /\ runs = 0
  /\ env = FALSE /\ synapse = FALSE
  /\ secrets = [f \in Declared \cup {"restic_password"} |-> Absent]
  /\ dbPass = [s \in Services |-> Absent] /\ tags = [s \in Services |-> 1]

Begins(at) == pc = "idle" /\ runs < MaxRuns /\ runs' = runs + 1 /\ pc' = at

Complete == \A f \in Declared : secrets[f] # Absent

\* Mutated form: the files are written whether they exist or not.
MutWrites(set) == set

\* [ ! -f ... ]
Writes(set) == {f \in set : secrets[f] = Absent}

\* openssl rand -hex 32 > file: the shell makes the file, empty, before its value is there.
Makes(f) == secrets' = [secrets EXCEPT ![f] = runs]
Cuts(f)  == secrets' = [secrets EXCEPT ![f] = Empty]

-----------------------------------------------------------------------------
(* docker compose up -d and down.                                          *)

\* A database that starts for the first time takes the password in its file, unless it is empty.
Empties == {s \in Services : dbPass[s] = Absent /\ secrets[PassFile[s]] = Empty}
Initialised(begun) ==
  [s \in Services |-> IF s \in begun /\ dbPass[s] = Absent THEN secrets[PassFile[s]] ELSE dbPass[s]]

\* All the secrets are there, and what depends_on waits for gets healthy.
UpWorks ==
  /\ Complete /\ Empties = {} /\ db = Services
  /\ Recreated(Anew(tags), tags) /\ dbPass' = Initialised(Services)
  /\ UNCHANGED <<db, data, lock, faults>>

\* It fails on a secret, or on the way: a database, a port, an image.  A container waits for
\* its database to be healthy.
UpFails ==
  \/ ~Complete /\ UNCHANGED <<startup, dbPass>>
  \/ /\ Complete /\ (Fault \/ ((Empties # {} \/ db # Services) /\ UNCHANGED faults))
     /\ \E begun \in SUBSET (Services \ Empties) :
          /\ dbPass' = Initialised(begun)
          /\ \E some \in SUBSET (Anew(tags) \cap begun) : Recreated(some, tags)
     /\ UNCHANGED <<db, data, lock>>

GoesDown  == Down /\ UNCHANGED <<db, data, lock, faults>>
DownFails == Fault /\ UNCHANGED <<db, data, containers, lock, killed>>

Goes(from, to) == pc = from /\ pc' = to /\ UNCHANGED runs

-----------------------------------------------------------------------------
(* install.sh                                                              *)

\* .env, the directories; or Docker, Compose or python3 is not there.
InstallBegins ==
  /\ env' = TRUE
  /\ \/ Begins("install.secrets") /\ synapse' = TRUE
     \/ Begins("idle") /\ UNCHANGED synapse
  /\ UNCHANGED <<startup, secrets, dbPass, tags>>

\* migrate-secrets.sh, one turn of its loop; the keys of an array have no order.
MigratesSecret ==
  /\ Goes("install.secrets", "install.secrets")
  /\ \E f \in Writes(Declared) : Makes(f)
  /\ UNCHANGED <<startup, env, synapse, dbPass, tags>>

\* The loop is over; without a LAN address the script ends.
SecretsMigrated ==
  /\ Complete
  /\ Goes("install.secrets", "install.up") \/ Goes("install.secrets", "idle")
  /\ UNCHANGED <<startup, host, dbPass, tags>>

InstallUp ==
  /\ \/ UpWorks /\ Goes("install.up", "install.wait")
     \/ UpFails /\ Goes("install.up", "idle")
  /\ UNCHANGED <<host, tags>>

\* Until occ status says installed, 40 times at most; then the applications and the crontab.
InstallWaits ==
  /\ Goes("install.wait", "idle")
  /\ UNCHANGED <<startup, host, dbPass, tags>>

-----------------------------------------------------------------------------
(* boom.sh                                                                 *)

\* Without .env it writes one and asks to be run again, unless forced; touch homeserver.log
\* needs the directory that install.sh or a container makes.
BoomBegins ==
  /\ env' \in {env, TRUE}
  /\ IF env' /\ synapse THEN Begins("boom.secrets") \/ (~env /\ Begins("idle"))
                        ELSE Begins("idle")
  /\ UNCHANGED <<startup, synapse, secrets, dbPass, tags>>

\* The one file that is looked at before the list is gone through.
ChecksSecrets ==
  /\ Goes("boom.secrets",
          IF secrets["mysql_root_password"] # Absent THEN "boom.port" ELSE "boom.list")
  /\ UNCHANGED <<startup, host, dbPass, tags>>

\* The turn of the i-th secret has come.
IsNext(i) == Writes({BoomList[i]}) # {} /\ \A j \in 1..(i - 1) : Writes({BoomList[j]}) = {}

MakesSecret ==
  /\ \E i \in 1..Len(BoomList) :
       /\ IsNext(i) /\ Makes(BoomList[i])
       /\ Goes("boom.list", IF i = Len(BoomList) THEN "boom.port" ELSE "boom.list")
  /\ UNCHANGED <<startup, env, synapse, dbPass, tags>>

\* lsof: the dashboard or Traefik of a stack that is up holds the port.
ChecksPort ==
  /\ Goes("boom.port", "boom.down") \/ Goes("boom.port", "idle")
  /\ UNCHANGED <<startup, host, dbPass, tags>>

\* Its failure is ignored.
BoomDown ==
  /\ Goes("boom.down", "boom.up") /\ (GoesDown \/ DownFails)
  /\ UNCHANGED <<host, dbPass, tags>>

\* up -d --build, and the dashboard is waited for 30 times at most.
BoomUp ==
  /\ Goes("boom.up", "idle") /\ (UpWorks \/ UpFails)
  /\ UNCHANGED <<host, tags>>

\* Control-C, a lost terminal, a reboot.
Interrupted ==
  /\ pc # "idle" /\ pc' = "idle" /\ Fault
  /\ UNCHANGED <<db, data, containers, lock, killed, runs, host, dbPass, tags>>

\* Any of these, or a full disk, once the file is made: it is there, and later runs take it so.
SecretCut ==
  /\ Fault /\ UNCHANGED runs /\ pc' = "idle"
  /\ \/ pc = "install.secrets" /\ \E f \in Writes(Declared) : Cuts(f)
     \/ pc = "boom.list" /\ \E i \in 1..Len(BoomList) : IsNext(i) /\ Cuts(BoomList[i])
  /\ UNCHANGED <<db, data, containers, lock, killed, env, synapse, dbPass, tags>>

InstallStep == MigratesSecret \/ SecretsMigrated \/ InstallUp \/ InstallWaits
BoomStep == ChecksSecrets \/ MakesSecret \/ ChecksPort \/ BoomDown \/ BoomUp
=============================================================================
