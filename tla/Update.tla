-------------------------------- MODULE Update --------------------------------
(* scripts/update.sh and rollback.sh: the data directory is packed into an  *)
(* archive while the services run, the images are pulled and the containers *)
(* made anew; when that fails, the newest archive is unpacked over the data. *)
EXTENDS Install

VARIABLES
  archives,  \* data/backups, the newest last
  updates    \* the run of the update.sh at work, 0 when none is

vars == <<startup, install, archives, updates>>

none == UNCHANGED <<db, data, containers, lock, killed, host, dbPass>>
Latest == archives[Len(archives)]

Init == StartupInit /\ InstallInit /\ archives = <<>> /\ updates = 0

\* pre-update-check.sh looks, and asks; the operator may stop here.
UpdateBegins ==
  /\ Begins("update.tar") /\ updates' = runs'
  /\ none /\ UNCHANGED <<faults, tags, archives>>

\* tar begins to write: from here on the file is the newest one.
TarBegins ==
  /\ Goes("update.tar", "update.packing")
  /\ archives' = Append(archives, [of |-> updates, whole |-> FALSE, data |-> data, lock |-> lock])
  /\ none /\ UNCHANGED <<faults, tags, updates>>

\* The services run: tar reads the directory of each before or after what they do meanwhile, or
\* during it, and of such a mixture only the version that it tells is kept here.
TarEnds ==
  /\ Goes("update.packing", "update.pull")
  /\ \E late \in SUBSET Services :
       archives' = [archives EXCEPT ![Len(archives)] =
         [of |-> Latest.of, whole |-> TRUE, lock |-> Latest.lock \cup lock,
          data |-> [s \in Services |-> IF s \in late THEN data[s] ELSE Latest.data[s]]]]
  /\ none /\ UNCHANGED <<faults, tags, updates>>

\* Mutated form: a failure is reported and the update goes on with what there is.
MutTarred == pc' = "update.pull" /\ UNCHANGED archives

\* rm -f and exit 1.
Tarred == pc' = "idle" /\ archives' = SubSeq(archives, 1, Len(archives) - 1)

\* tar ends with an error, as it does when a file changes under it, or the file is too small.
TarFails ==
  /\ pc = "update.packing" /\ Tarred
  /\ none /\ UNCHANGED <<runs, faults, tags, updates>>

\* docker compose pull fetches the images one by one; when one fails the others stay.
Pull ==
  /\ \/ Goes("update.pull", "update.up") /\ tags' = [s \in Services |-> Newest]
     \/ /\ Goes("update.pull", "idle")
        /\ \E some \in SUBSET Services :
             tags' = [s \in Services |-> IF s \in some THEN Newest ELSE tags[s]]
  /\ none /\ UNCHANGED <<faults, archives, updates>>

\* Then the health of the containers is looked at, and only told.
UpdateUp ==
  /\ \/ UpWorks /\ Goes("update.up", "idle")
     \/ UpFails /\ Goes("update.up", "rollback.find")
  /\ UNCHANGED <<host, tags, archives, updates>>

-----------------------------------------------------------------------------
\* By itself, or from update.sh.
RollbackBegins ==
  /\ Begins("rollback.find") /\ updates' = 0
  /\ none /\ UNCHANGED <<faults, tags, archives>>

\* There is no archive, or the operator does not say y.
RollbackAborts ==
  /\ Goes("rollback.find", "idle")
  /\ none /\ UNCHANGED <<faults, tags, archives, updates>>

\* Mutated form: the images go back with the data, before the data does.
MutImages == [s \in Services |-> 1]

\* The images stay what they are.
Images == tags

RollbackDown ==
  /\ archives # <<>>
  /\ \/ Goes("rollback.find", "rollback.unpack") /\ GoesDown
     \/ Goes("rollback.find", "idle") /\ DownFails
  /\ tags' = Images
  /\ UNCHANGED <<host, dbPass, archives, updates>>

\* These directories tell the version of the archive, and these locks are there again: files
\* come back, and none goes that the archive lacks.
Unpacked(some, back) ==
  /\ data' = [s \in Services |-> IF s \in some THEN Latest.data[s] ELSE data[s]]
  /\ lock' = lock \cup back /\ killed' = killed \cup back

\* tar -x --overwrite.  It stops at the end of an archive that is not whole, on an error or
\* when it is interrupted, in the middle of any directory, with the services down.
Unpack ==
  /\ \/ /\ Goes("rollback.unpack", "rollback.up") /\ Latest.whole /\ UNCHANGED faults
        /\ Unpacked(Services, Latest.lock)
     \/ /\ Goes("rollback.unpack", "idle") /\ (Fault \/ (~Latest.whole /\ UNCHANGED faults))
        /\ \E some \in SUBSET Services, back \in SUBSET Latest.lock : Unpacked(some, back)
  /\ UNCHANGED <<db, containers, host, dbPass, tags, archives, updates>>

RollbackUp ==
  /\ Goes("rollback.up", "idle") /\ (UpWorks \/ UpFails)
  /\ UNCHANGED <<host, tags, archives, updates>>

-----------------------------------------------------------------------------
UpdateStep == TarBegins \/ TarEnds \/ TarFails \/ Pull \/ UpdateUp
RollbackStep == RollbackAborts \/ RollbackDown \/ Unpack \/ RollbackUp
Script ==
  \/ (InstallStep \/ BoomStep) /\ UNCHANGED <<archives, updates>>
  \/ UpdateStep \/ RollbackStep

Operator ==
  \/ (InstallBegins \/ BoomBegins) /\ updates' = 0 /\ UNCHANGED archives
  \/ (Interrupted \/ SecretCut) /\ UNCHANGED <<archives, updates>>
  \/ UpdateBegins \/ RollbackBegins

Container(s) == StartStep(s) /\ UNCHANGED <<install, archives, updates>>
Faults(s) == (FaultStep(s) \/ DbUp(s)) /\ UNCHANGED <<install, archives, updates>>

Next == Script \/ Operator \/ \E s \in Services : Container(s) \/ Faults(s)

Spec == Init /\ [][Next]_vars

-----------------------------------------------------------------------------
\* update.sh changes an image or a container only behind a whole archive of its own, and that
\* is the one its rollback unpacks: an aborted or an older one is never taken for it.
UpdateIsBackedUp ==
  (\/ pc \in {"update.pull", "update.up"}
   \/ pc \in {"rollback.find", "rollback.unpack", "rollback.up"} /\ updates > 0)
    => archives # <<>> /\ Latest.whole /\ Latest.of = updates

\* No script, and no order of scripts and failures, starts a version of a service on data
\* that a newer one has migrated: rollback.sh leaves the images alone.
NoDowngrade == \A s \in Services : run[s] \notin {"none", "exited"} => data[s] <= image[s]

\* What startup-waiter.sh and entrypoint.sh lock: while such a migration runs (not one of a
\* Synapse that migrates by itself, "starting" here) the lock is there, and
\* a service that serves is shown as migrating only after a kill or a restored lock file; the
\* script of Synapse, which locks at every start, heals even that.
LockTellsMigration ==
  \A s \in Services :
    /\ run[s] \in {"migrating", "migrated"} => ShownMigrating(s)
    /\ run[s] = "serving" /\ ShownMigrating(s) => s \in killed

\* install.sh and boom.sh never replace a password that a database was initialised with.
DbPasswordKept ==
  \A s \in Services : dbPass[s] # Absent => secrets[PassFile[s]] = dbPass[s]
=============================================================================
