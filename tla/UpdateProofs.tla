----------------------------- MODULE UpdateProofs -----------------------------
(* The invariants of the scripts and of the containers they make, for any  *)
(* number of runs, faults and restarts, and any newest version; and those  *)
(* of the panel that asks the sidecar for backups and restores, for any    *)
(* number of rows, of calls on their way and of services.                  *)
EXTENDS Update, BackupPanel, FiniteSetTheorems, SequenceTheorems, TLAPS

Archive == [of : Nat, whole : BOOLEAN, data : [Services -> 0 .. Newest], lock : SUBSET Services]

Scripts == {"idle", "install.secrets", "install.up", "install.wait", "boom.secrets", "boom.list",
            "boom.port", "boom.down", "boom.up", "update.tar", "update.packing", "update.pull",
            "update.up", "rollback.find", "rollback.unpack", "rollback.up"}

ContainerType ==
  /\ db \subseteq Services /\ lock \subseteq Services /\ killed \subseteq Services
  /\ data \in [Services -> 0 .. Newest] /\ image \in [Services -> 0 .. Newest]
  /\ run \in [Services -> States] /\ tries \in [Services -> 0 .. Tries] /\ faults \in 0 .. MaxFaults
  /\ tags \in [Services -> 1 .. Newest]

HostType ==
  /\ runs \in 0 .. MaxRuns /\ {env, synapse} \subseteq BOOLEAN
  /\ secrets \in [Declared \cup {"restic_password"} -> Nat \cup {Absent}]
  /\ dbPass \in [Services -> Nat \cup {Absent}]

ArchiveType == archives \in Seq(Archive) /\ updates \in Nat /\ pc \in Scripts

\* Every variable of the host has its type.
TypeOK == ContainerType /\ HostType /\ ArchiveType

\* A lock belongs to a migration, or to one that was killed.
LocksExplained == \A s \in lock : s \in killed \/ run[s] \in {"migrating", "migrated"}

\* No data, no container and no archive is ahead of the images.
Current == \A s \in Services : data[s] <= tags[s] /\ image[s] <= tags[s]
ArchivesCurrent == \A i \in 1 .. Len(archives) : \A s \in Services : archives[i].data[s] <= tags[s]

\* While tar writes, the newest archive is the one of this update.
Packing == pc = "update.packing" => archives # <<>> /\ Latest.of = updates

\* There is an archive to unpack, and no container on the data it goes over.
Stopped == pc = "rollback.unpack" => archives # <<>> /\ \A s \in Services : run[s] = "none"

ContainersSafe == ContainerType /\ LockTellsMigration /\ LocksExplained /\ NoDowngrade /\ Current
HostSafe       == HostType /\ DbPasswordKept
ArchivesSafe   == ArchiveType /\ ArchivesCurrent /\ Packing /\ UpdateIsBackedUp

IInv == ContainersSafe /\ HostSafe /\ ArchivesSafe /\ Stopped


-----------------------------------------------------------------------------
(* The containers.                                                         *)

\* ContainersSafe speaks of its variables only.
LEMMA ContainersKept ==
  ASSUME ContainersSafe, UNCHANGED <<startup, tags>>
  PROVE  ContainersSafe'
BY DEF ContainersSafe, ContainerType, LockTellsMigration, LocksExplained, NoDowngrade, Current,
       ShownMigrating, startup, containers

\* docker compose up makes some containers anew, of the images there are.
LEMMA RecreatedSafe ==
  ASSUME ContainersSafe, NEW set \in SUBSET Services, Recreated(set, tags),
         UNCHANGED <<db, data, lock, tags>>, faults' \in 0 .. MaxFaults
  PROVE  ContainersSafe'
<1> USE StartupAssumption
<1>1. ContainerType'
  BY DEF ContainersSafe, ContainerType, Recreated, States
<1>2. LockTellsMigration' /\ LocksExplained'
  BY DEF ContainersSafe, ContainerType, LockTellsMigration, LocksExplained, ShownMigrating, Recreated
<1>3. NoDowngrade' /\ Current'
  BY DEF ContainersSafe, ContainerType, NoDowngrade, Current, Recreated
<1> QED BY <1>1, <1>2, <1>3 DEF ContainersSafe

\* docker compose down, whatever the containers are at.
LEMMA DownSafe ==
  ASSUME ContainersSafe, Down, UNCHANGED <<db, data, lock, tags>>, faults' \in 0 .. MaxFaults
  PROVE  ContainersSafe'
<1> USE StartupAssumption
<1>1. ContainerType'
  BY DEF ContainersSafe, ContainerType, Down, States
<1>2. LockTellsMigration' /\ LocksExplained' /\ NoDowngrade' /\ Current'
  BY DEF ContainersSafe, ContainerType, LockTellsMigration, LocksExplained, NoDowngrade, Current,
         ShownMigrating, Down
<1> QED BY <1>1, <1>2 DEF ContainersSafe

\* A container that ends with an error waits again or is left.
LEMMA FailsType ==
  ASSUME ContainerType, NEW s \in Services, Fails(s)
  PROVE  /\ run' \in [Services -> States] /\ tries' \in [Services -> 0 .. Tries]
         /\ run'[s] \in {"waiting", "exited"}
         /\ \A t \in Services \ {s} : run'[t] = run[t]
BY StartupAssumption DEF ContainerType, Fails, Becomes, States

\* The steps of the start-up scripts, and what may befall a container or its database.
LEMMA StartSafe ==
  ASSUME ContainersSafe, NEW s \in Services, StartStep(s) \/ FaultStep(s) \/ DbUp(s), UNCHANGED tags
  PROVE  ContainersSafe'
<1> USE StartupAssumption DEF ContainersSafe
<1> USE DEF ContainerType, States, Becomes, containers
<1>1. CASE WaiterReady(s)
  BY <1>1 DEF WaiterReady, LockTellsMigration, LocksExplained, NoDowngrade, Current, ShownMigrating
<1>2. CASE WaiterTimesOut(s)
  BY <1>2, FailsType DEF WaiterTimesOut, TimesOut, LockTellsMigration, LocksExplained, NoDowngrade, Current,
     ShownMigrating, Fails
<1>3. CASE Locks(s)
  BY <1>3 DEF Locks, LockTellsMigration, LocksExplained, NoDowngrade, Current, ShownMigrating
<1>4. CASE Migrates(s)
  BY <1>4 DEF Migrates, LockTellsMigration, LocksExplained, NoDowngrade, Current, ShownMigrating
<1>5. CASE Releases(s)
  BY <1>5 DEF Releases, Unlocked, LockTellsMigration, LocksExplained, NoDowngrade, Current, ShownMigrating
<1>6. CASE s = "nextcloud" /\ NextcloudSkips
  BY <1>6 DEF NextcloudSkips, Installed, LockTellsMigration, LocksExplained, NoDowngrade, Current, ShownMigrating
<1>7. CASE MigrationFails(s)
  <2>1. faults' \in 0 .. MaxFaults
    BY <1>7 DEF MigrationFails, Fault
  <2> QED BY <1>7, <2>1, FailsType DEF MigrationFails, Unlocked, LockTellsMigration, LocksExplained,
             NoDowngrade, Current, ShownMigrating, Fails
<1>8. CASE Killed(s)
  <2>1. faults' \in 0 .. MaxFaults
    BY <1>8 DEF Killed, Fault
  <2> QED BY <1>8, <2>1, FailsType DEF Killed, LockTellsMigration, LocksExplained, NoDowngrade, Current,
             ShownMigrating, Fails
<1>9. CASE DbDown(s) \/ DbUp(s)
  BY <1>9 DEF DbDown, DbUp, Fault, LockTellsMigration, LocksExplained, NoDowngrade, Current, ShownMigrating
<1>10. CASE s = "synapse" /\ (StartsUnlocked \/ MigratesUnlocked)
  <2>1. CASE StartsUnlocked
    BY <1>10, <2>1 DEF StartsUnlocked, LockTellsMigration, LocksExplained, NoDowngrade, Current, ShownMigrating
  <2>2. CASE MigratesUnlocked
    <3>1. /\ run[s] = "starting" /\ run' = [run EXCEPT ![s] = "serving"]
          /\ data' = [data EXCEPT ![s] = image[s]]
          /\ UNCHANGED <<db, image, tries, lock, faults, killed>>
      BY <1>10, <2>2 DEF MigratesUnlocked
    <3>2. s \in lock => s \in killed
      BY <3>1 DEF LocksExplained
    <3> QED BY <3>1, <3>2 DEF LockTellsMigration, LocksExplained, NoDowngrade, Current, ShownMigrating
  <2> QED BY <1>10, <2>1, <2>2
<1>11. CASE s = "synapse" /\ ServerFails
  <2>1. faults' \in 0 .. MaxFaults
    BY <1>11 DEF ServerFails, Fault
  <2> QED BY <1>11, <2>1, FailsType DEF ServerFails, LockTellsMigration, LocksExplained, NoDowngrade,
             Current, ShownMigrating, Fails
<1> HIDE DEF ContainersSafe, Becomes, containers
<1>12. CASE StartStep(s)
  BY <1>1, <1>2, <1>3, <1>4, <1>5, <1>6, <1>7, <1>10, <1>11, <1>12, Zenon DEF StartStep
<1>13. CASE FaultStep(s) \/ DbUp(s)
  BY <1>7, <1>8, <1>9, <1>11, <1>13, Zenon DEF FaultStep
<1> QED BY <1>12, <1>13

-----------------------------------------------------------------------------
(* The host.                                                               *)

\* HostSafe speaks of its variables only.
LEMMA HostKept ==
  ASSUME HostSafe, UNCHANGED <<runs, host, dbPass>>
  PROVE  HostSafe'
BY DEF HostSafe, HostType, DbPasswordKept, host

\* Only a file that is not there is written: the password in use is in one that is.
LEMMA MakesSafe ==
  ASSUME HostSafe, NEW f \in Declared \cup {"restic_password"}, secrets[f] = Absent,
         Makes(f) \/ Cuts(f), UNCHANGED <<runs, env, synapse, dbPass>>
  PROVE  HostSafe'
<1>1. PICK v \in Nat : secrets' = [secrets EXCEPT ![f] = v]
  BY InstallAssumption DEF HostSafe, HostType, Makes, Cuts, Empty
<1>2. HostType'
  BY <1>1 DEF HostSafe, HostType
<1>3. DbPasswordKept'
  <2> SUFFICES ASSUME NEW s \in Services, dbPass[s] # Absent
               PROVE  secrets'[PassFile[s]] = dbPass[s]
    BY DEF DbPasswordKept
  <2>1. secrets[PassFile[s]] = dbPass[s]
    BY DEF HostSafe, DbPasswordKept
  <2>2. PassFile[s] \in Declared /\ PassFile[s] # f
    BY <2>1 DEF PassFile, Services, Declared
  <2> QED BY <1>1, <2>1, <2>2 DEF HostSafe, HostType
<1> QED BY <1>2, <1>3 DEF HostSafe

\* docker compose up, whether it ends well or not.
LEMMA UpSafe ==
  ASSUME ContainersSafe, HostSafe, UpWorks \/ UpFails, UNCHANGED <<runs, host, tags>>
  PROVE  ContainersSafe' /\ HostSafe'
<1>1. ContainersSafe'
  <2>1. Anew(tags) \in SUBSET Services
    BY DEF Anew
  <2>2. CASE UpWorks
    BY <2>1, <2>2, RecreatedSafe DEF UpWorks, ContainersSafe, ContainerType
  <2>3. CASE UpFails /\ Complete
    <3>1. faults' \in 0 .. MaxFaults
      BY <2>3, StartupAssumption DEF UpFails, Fault, ContainersSafe, ContainerType
    <3>2. PICK some \in SUBSET Anew(tags) : Recreated(some, tags)
      BY <2>3, Zenon DEF UpFails
    <3> QED BY <2>1, <2>3, <3>1, <3>2, RecreatedSafe DEF UpFails
  <2>4. CASE UpFails /\ ~Complete
    BY <2>4, ContainersKept DEF UpFails
  <2> QED BY <2>2, <2>3, <2>4
<1>2. dbPass' = dbPass \/ \E begun \in SUBSET Services : dbPass' = Initialised(begun)
  <2>1. CASE UpWorks
    BY <2>1, Zenon DEF UpWorks
  <2>2. CASE UpFails
    BY <2>2, Zenon DEF UpFails
  <2> QED BY <2>1, <2>2
<1>3. \A s \in Services : PassFile[s] \in Declared
  BY DEF PassFile, Services, Declared
<1>4. HostSafe'
  <2>1. CASE dbPass' = dbPass
    BY <2>1, HostKept
  <2>2. CASE \E begun \in SUBSET Services : dbPass' = Initialised(begun)
    <3>1. PICK begun \in SUBSET Services : dbPass' = Initialised(begun)
      BY <2>2
    <3>2. dbPass' \in [Services -> Nat \cup {Absent}]
      BY <1>3, <3>1 DEF HostSafe, HostType, Initialised
    <3>3. DbPasswordKept'
      BY <1>3, <3>1 DEF HostSafe, HostType, DbPasswordKept, Initialised, host
    <3> QED BY <3>2, <3>3 DEF HostSafe, HostType, host
  <2> QED BY <1>2, <2>1, <2>2
<1> QED BY <1>1, <1>4

-----------------------------------------------------------------------------
(* The archives.                                                           *)

Guarded == {"update.packing", "update.pull", "update.up", "rollback.find", "rollback.unpack", "rollback.up"}

\* Where no archive is asked for, none has to be there.
LEMMA ArchivesQuiet ==
  ASSUME ArchivesSafe, UNCHANGED <<archives, tags>>, updates' \in Nat, pc' \in Scripts \ Guarded
  PROVE  ArchivesSafe'
BY DEF ArchivesSafe, ArchiveType, ArchivesCurrent, Packing, UpdateIsBackedUp, Guarded

\* From one guarded place to the next the archive is the same.
LEMMA ArchivesPassed ==
  ASSUME ArchivesSafe, UNCHANGED <<archives, updates>>,
         \A s \in Services : tags[s] \in Nat /\ tags'[s] \in Nat /\ tags[s] <= tags'[s],
         pc \in Guarded \ {"update.packing"}, pc' \in {"idle"} \cup (Guarded \ {"update.packing"}),
         pc \in {"update.pull", "update.up"} \/ pc' \in {"idle", "rollback.find", "rollback.unpack", "rollback.up"}
  PROVE  ArchivesSafe'
<1>1. ArchiveType'
  BY DEF ArchivesSafe, ArchiveType, Guarded, Scripts
<1>2. ArchivesCurrent'
  <2> SUFFICES ASSUME NEW i \in 1 .. Len(archives), NEW s \in Services
               PROVE  archives[i].data[s] <= tags'[s]
    BY DEF ArchivesCurrent
  <2>1. archives[i] \in Archive
    BY DEF ArchivesSafe, ArchiveType
  <2>2. archives[i].data[s] \in Int
    BY <2>1, StartupAssumption DEF Archive
  <2>3. archives[i].data[s] <= tags[s]
    BY DEF ArchivesSafe, ArchivesCurrent
  <2> QED BY <2>2, <2>3
<1>3. Packing' /\ UpdateIsBackedUp'
  BY DEF ArchivesSafe, Packing, UpdateIsBackedUp, Guarded, Latest
<1> QED BY <1>1, <1>2, <1>3 DEF ArchivesSafe

\* The new archive is the newest one, of data no newer than the images.
LEMMA TarBeginsSafe ==
  ASSUME ArchivesSafe, ContainersSafe, TarBegins
  PROVE  ArchivesSafe'
<1> USE StartupAssumption
<1> DEFINE new == [of |-> updates, whole |-> FALSE, data |-> data, lock |-> lock]
<1>1. new \in Archive
  BY DEF Archive, ArchivesSafe, ArchiveType, ContainersSafe, ContainerType
<1>2. archives' = Append(archives, new) /\ archives \in Seq(Archive)
  BY DEF TarBegins, ArchivesSafe, ArchiveType
<1>3. /\ archives' \in Seq(Archive) /\ Len(archives') = Len(archives) + 1
      /\ \A i \in 1 .. Len(archives) : archives'[i] = archives[i]
      /\ archives'[Len(archives) + 1] = new
      /\ Len(archives) \in Nat
  BY <1>1, <1>2
<1>4. ArchiveType'
  BY <1>3 DEF TarBegins, Goes, none, ArchivesSafe, ArchiveType, Scripts
<1>5. ArchivesCurrent'
  <2> SUFFICES ASSUME NEW i \in 1 .. Len(archives'), NEW s \in Services
               PROVE  archives'[i].data[s] <= tags[s]
    BY DEF ArchivesCurrent, TarBegins
  <2>1. CASE i = Len(archives) + 1
    BY <1>3, <2>1 DEF ContainersSafe, Current
  <2>2. CASE i \in 1 .. Len(archives)
    BY <1>3, <2>2 DEF ArchivesSafe, ArchivesCurrent
  <2> QED BY <1>3, <2>1, <2>2
<1>6. Packing' /\ UpdateIsBackedUp'
  BY <1>3 DEF TarBegins, Goes, Packing, UpdateIsBackedUp, Latest
<1> QED BY <1>4, <1>5, <1>6 DEF ArchivesSafe

\* Whichever directories tar read late, what it read is no newer than the images.
LEMMA TarEndsSafe ==
  ASSUME ArchivesSafe, ContainersSafe, TarEnds
  PROVE  ArchivesSafe'
<1> USE StartupAssumption
<1> DEFINE n == Len(archives)
           mix(late) == [s \in Services |-> IF s \in late THEN data[s] ELSE archives[n].data[s]]
           new(late) == [of |-> archives[n].of, whole |-> TRUE, lock |-> archives[n].lock \cup lock,
                         data |-> mix(late)]
<1>1. archives \in Seq(Archive) /\ n \in 1 .. n /\ archives[n] \in Archive /\ archives[n].of = updates
  BY DEF TarEnds, Goes, ArchivesSafe, ArchiveType, Packing, Latest
<1>2. PICK late \in SUBSET Services : archives' = [archives EXCEPT ![n] = new(late)]
  BY DEF TarEnds, Latest
<1>3. new(late) \in Archive
  <2>1. mix(late) \in [Services -> 0 .. Newest]
    BY <1>1 DEF Archive, ContainersSafe, ContainerType
  <2>2. archives[n].of \in Nat /\ archives[n].lock \cup lock \in SUBSET Services
    BY <1>1 DEF Archive, ContainersSafe, ContainerType
  <2> QED BY <2>1, <2>2 DEF Archive
<1>4. /\ archives' \in Seq(Archive) /\ Len(archives') = n
      /\ \A i \in 1 .. n : archives'[i] = IF i = n THEN new(late) ELSE archives[i]
  <2> DEFINE e == new(late)
             written == [archives EXCEPT ![n] = e]
             Replaced(q) == /\ q \in Seq(Archive) /\ Len(q) = n
                            /\ \A i \in 1 .. n : q[i] = IF i = n THEN e ELSE archives[i]
  <2>1. e \in Archive /\ archives' = written
    BY <1>2, <1>3
  <2> HIDE DEF e
  <2>2. Replaced(written)
    BY <1>1, <2>1, ExceptSeq
  <2>3. Replaced(archives')
    <3> HIDE DEF written, Replaced
    <3> QED BY <2>1, <2>2
  <2> QED BY <2>3 DEF e
<1>5. ArchiveType'
  <2>1. pc' = "update.pull" /\ updates' = updates
    BY DEF TarEnds, Goes
  <2>2. updates \in Nat
    BY DEF ArchivesSafe, ArchiveType
  <2> HIDE DEF new
  <2> QED BY <1>4, <2>1, <2>2 DEF ArchiveType, Scripts
<1>6. ArchivesCurrent'
  <2> HIDE DEF new, mix, n
  <2>0. UNCHANGED tags
    BY DEF TarEnds
  <2> SUFFICES ASSUME NEW i \in 1 .. n, NEW s \in Services
               PROVE  archives'[i].data[s] <= tags[s]
    BY <1>4, <2>0 DEF ArchivesCurrent
  <2>1. archives[i].data[s] <= tags[s] /\ data[s] <= tags[s]
    BY DEF n, ArchivesSafe, ArchivesCurrent, ContainersSafe, Current
  <2>2. CASE i = n
    <3>1. archives'[i] = new(late)
      BY <1>4, <2>2
    <3>2. new(late).data = mix(late)
      BY DEF new
    <3>3. mix(late)[s] \in {data[s], archives[n].data[s]}
      BY DEF mix
    <3> QED BY <2>1, <2>2, <3>1, <3>2, <3>3
  <2>3. CASE i # n
    BY <1>4, <2>1, <2>3
  <2> QED BY <2>2, <2>3
<1>7. Packing' /\ UpdateIsBackedUp'
  <2>1. pc' = "update.pull" /\ updates' = updates
    BY DEF TarEnds, Goes
  <2>2. archives' # <<>> /\ Latest' = new(late)
    <3> HIDE DEF new
    <3> QED BY <1>1, <1>4 DEF Latest
  <2>3. new(late).of = updates /\ new(late).whole = TRUE
    BY <1>1
  <2> HIDE DEF new
  <2> QED BY <2>1, <2>2, <2>3 DEF Packing, UpdateIsBackedUp
<1> QED BY <1>5, <1>6, <1>7 DEF ArchivesSafe

\* The archive that is removed is the one that was being written: those before it stay.
LEMMA TarFailsSafe ==
  ASSUME ArchivesSafe, TarFails
  PROVE  ArchivesSafe'
<1>1. archives \in Seq(Archive) /\ Len(archives) \in Nat \ {0}
  BY DEF TarFails, ArchivesSafe, ArchiveType, Packing
<1>2. /\ archives' = SubSeq(archives, 1, Len(archives) - 1) /\ pc' = "idle"
      /\ updates' = updates /\ tags' = tags
  BY DEF TarFails, Tarred
<1>3. /\ archives' \in Seq(Archive) /\ Len(archives') = Len(archives) - 1
      /\ \A i \in 1 .. Len(archives') : archives'[i] = archives[i]
  <2>1. \A i \in 1 .. Len(archives) - 1 : archives[i] \in Archive
    BY <1>1
  <2>2. 1 \in Int /\ Len(archives) - 1 \in Int
    BY <1>1
  <2> DEFINE m == Len(archives) - 1
            front == SubSeq(archives, 1, m)
  <2>3. /\ front \in Seq(Archive) /\ Len(front) = IF 1 <= m THEN m - 1 + 1 ELSE 0
        /\ \A i \in 1 .. m - 1 + 1 : front[i] = archives[1 + i - 1]
    BY <2>1, <2>2, SubSeqProperties
  <2>4. archives' = front
    BY <1>2
  <2> HIDE DEF front
  <2>5. Len(front) = m
    <3>1. m \in Nat
      BY <1>1
    <3> HIDE DEF m
    <3> QED BY <2>3, <3>1
  <2>6. ASSUME NEW i \in 1 .. m PROVE front[i] = archives[i]
    <3>1. i \in 1 .. m - 1 + 1 /\ 1 + i - 1 = i
      BY <1>1
    <3> QED BY <2>3, <3>1
  <2> QED BY <2>3, <2>4, <2>5, <2>6, Zenon
<1>4. ArchivesCurrent'
  BY <1>1, <1>2, <1>3 DEF ArchivesSafe, ArchivesCurrent
<1> QED BY <1>2, <1>3, <1>4 DEF ArchivesSafe, ArchiveType, Packing, UpdateIsBackedUp, Scripts

-----------------------------------------------------------------------------
(* The steps.                                                              *)

\* An empty host.
LEMMA InitSafe == Init => IInv
<1> SUFFICES ASSUME Init PROVE IInv
  OBVIOUS
<1> USE StartupAssumption, InstallAssumption DEF Init, StartupInit, InstallInit
<1>1. ContainersSafe
  BY DEF ContainersSafe, ContainerType, LockTellsMigration, LocksExplained, NoDowngrade, Current,
         ShownMigrating, States
<1>2. HostSafe
  <2>1. /\ dbPass = [s \in Services |-> Absent] /\ dbPass \in [Services -> Nat \cup {Absent}]
        /\ runs \in 0 .. MaxRuns
    OBVIOUS
  <2>2. {env, synapse} \subseteq BOOLEAN /\ env \in BOOLEAN /\ synapse \in BOOLEAN
    BY Zenon
  <2>3. secrets \in [Declared \cup {"restic_password"} -> Nat \cup {Absent}]
    OBVIOUS
  <2>4. \A s \in Services : dbPass[s] = Absent
    BY <2>1
  <2> QED BY <2>1, <2>2, <2>3, <2>4, Zenon DEF HostSafe, HostType, DbPasswordKept
<1>3. ArchivesSafe /\ Stopped
  BY DEF ArchivesSafe, ArchiveType, ArchivesCurrent, Packing, UpdateIsBackedUp, Stopped, Scripts
<1> QED BY <1>1, <1>2, <1>3 DEF IInv

\* What changes neither containers nor secrets, and asks for no archive.
LEMMA QuietSafe ==
  ASSUME IInv, UNCHANGED <<startup, tags, secrets, dbPass, archives>>, updates' \in Nat,
         runs' \in 0 .. MaxRuns, env' \in BOOLEAN, synapse' \in BOOLEAN,
         pc' \in Scripts \ Guarded
  PROVE  IInv'
<1>1. ContainersSafe'
  BY ContainersKept DEF IInv
<1>2. HostSafe'
  BY DEF IInv, HostSafe, HostType, DbPasswordKept
<1>3. ArchivesSafe'
  BY ArchivesQuiet DEF IInv
<1>4. Stopped'
  BY DEF Stopped, Guarded
<1> QED BY <1>1, <1>2, <1>3, <1>4 DEF IInv

\* docker compose up, from a place where the archives are as they should be.
LEMMA UpStep ==
  ASSUME IInv, UpWorks \/ UpFails, UNCHANGED <<runs, host, tags>>, ArchivesSafe',
         pc' # "rollback.unpack"
  PROVE  IInv'
BY UpSafe DEF IInv, Stopped

\* docker compose down, where a script calls it.
LEMMA DownStep ==
  ASSUME IInv, GoesDown \/ DownFails, UNCHANGED <<runs, host, dbPass, tags>>
  PROVE  ContainersSafe' /\ HostSafe'
<1>1. CASE GoesDown
  BY <1>1, DownSafe, HostKept DEF GoesDown, IInv, ContainersSafe, ContainerType
<1>2. CASE DownFails
  <2>1. ContainersSafe'
    BY <1>2, StartupAssumption DEF DownFails, Fault, IInv, ContainersSafe, ContainerType, containers,
       LockTellsMigration, LocksExplained, NoDowngrade, Current, ShownMigrating
  <2> QED BY <2>1, HostKept DEF IInv
<1> QED BY <1>1, <1>2

\* install.sh with migrate-secrets.sh, and boom.sh.
LEMMA InstallStepSafe ==
  ASSUME IInv, InstallStep \/ BoomStep, UNCHANGED <<archives, updates>>
  PROVE  IInv'
<1> USE DEF Goes, Scripts, Guarded
<1>1. ASSUME UNCHANGED tags, pc' \in Scripts \ Guarded PROVE ArchivesSafe' /\ pc' # "rollback.unpack"
  BY <1>1, ArchivesQuiet DEF IInv, ArchivesSafe, ArchiveType
<1>2. CASE MigratesSecret \/ MakesSecret
  <2>1. PICK f \in Declared \cup {"restic_password"} : secrets[f] = Absent /\ Makes(f)
    BY <1>2 DEF MigratesSecret, MakesSecret, IsNext, Writes, Declared, BoomList
  <2>2. /\ UNCHANGED <<startup, runs, env, synapse, dbPass, tags>>
        /\ pc' \in {"install.secrets", "boom.list", "boom.port"}
    BY <1>2 DEF MigratesSecret, MakesSecret
  <2>3. ContainersSafe' /\ HostSafe'
    BY <2>1, <2>2, ContainersKept, MakesSafe DEF IInv
  <2> QED BY <1>1, <2>2, <2>3 DEF IInv, Stopped
<1>3. CASE SecretsMigrated \/ InstallWaits \/ ChecksSecrets \/ ChecksPort
  <2>1. UNCHANGED <<startup, tags, secrets, dbPass, runs, env, synapse>>
    BY <1>3 DEF SecretsMigrated, InstallWaits, ChecksSecrets, ChecksPort, host
  <2>2. pc' \in {"install.up", "idle", "boom.port", "boom.list", "boom.down"}
    BY <1>3 DEF SecretsMigrated, InstallWaits, ChecksSecrets, ChecksPort
  <2> QED BY <2>1, <2>2, QuietSafe DEF IInv, HostSafe, HostType, ArchivesSafe, ArchiveType
<1>4. CASE InstallUp \/ BoomUp
  <2>1. (UpWorks \/ UpFails) /\ UNCHANGED <<runs, host, tags>> /\ pc' \in {"install.wait", "idle"}
    BY <1>4 DEF InstallUp, BoomUp
  <2> QED BY <1>1, <2>1, UpStep
<1>5. CASE BoomDown
  BY <1>1, <1>5, DownStep DEF BoomDown, IInv, Stopped
<1> QED BY <1>2, <1>3, <1>4, <1>5 DEF InstallStep, BoomStep

\* update.sh: pack, pull, up.
LEMMA UpdateStepSafe ==
  ASSUME IInv, UpdateStep
  PROVE  IInv'
<1> USE DEF Goes
<1>1. CASE TarBegins \/ TarEnds \/ TarFails
  <2>1. UNCHANGED <<startup, tags, runs, host, dbPass>> /\ pc' # "rollback.unpack"
    BY <1>1 DEF TarBegins, TarEnds, TarFails, Tarred, none, startup
  <2>2. ArchivesSafe'
    BY <1>1, TarBeginsSafe, TarEndsSafe, TarFailsSafe DEF IInv
  <2> QED BY <2>1, <2>2, ContainersKept, HostKept DEF IInv, Stopped
<1>2. CASE Pull
  <2>1. /\ UNCHANGED <<startup, runs, host, dbPass, archives, updates>>
        /\ pc = "update.pull" /\ pc' \in {"update.up", "idle"}
        /\ \A s \in Services : tags'[s] \in {tags[s], Newest}
        /\ tags' \in [Services -> {tags[s] : s \in Services} \cup {Newest}]
    BY <1>2 DEF Pull, none, startup
  <2>2. /\ tags' \in [Services -> 1 .. Newest]
        /\ \A s \in Services : tags[s] \in Nat /\ tags'[s] \in Nat /\ tags[s] <= tags'[s]
    BY <2>1, StartupAssumption DEF IInv, ContainersSafe, ContainerType
  <2>3. ContainersSafe'
    <3>1. ContainerType' /\ Current'
      BY <2>1, <2>2, StartupAssumption DEF IInv, ContainersSafe, ContainerType, Current, startup, containers
    <3>2. LockTellsMigration' /\ LocksExplained' /\ NoDowngrade'
      BY <2>1 DEF IInv, ContainersSafe, LockTellsMigration, LocksExplained, NoDowngrade, ShownMigrating,
         startup, containers
    <3> QED BY <3>1, <3>2 DEF ContainersSafe
  <2>4. ArchivesSafe'
    BY <2>1, <2>2, ArchivesPassed DEF IInv, Guarded
  <2> QED BY <2>1, <2>3, <2>4, HostKept DEF IInv, Stopped
<1>3. CASE UpdateUp
  <2>1. /\ (UpWorks \/ UpFails) /\ UNCHANGED <<runs, host, tags, archives, updates>>
        /\ pc = "update.up" /\ pc' \in {"idle", "rollback.find"}
    BY <1>3 DEF UpdateUp
  <2>2. ArchivesSafe'
    BY <2>1, ArchivesPassed, StartupAssumption DEF IInv, Guarded, ContainersSafe, ContainerType
  <2> QED BY <2>1, <2>2, UpStep
<1> QED BY <1>1, <1>2, <1>3 DEF UpdateStep

\* What comes out of an archive is no newer than the images, and runs under no container.
LEMMA UnpackSafe ==
  ASSUME IInv, Unpack
  PROVE  ContainersSafe'
<1> USE StartupAssumption
<1>0. PICK some \in SUBSET Services, back \in SUBSET Latest.lock : Unpacked(some, back)
  BY Zenon DEF Unpack
<1>1. archives # <<>> /\ \A s \in Services : run[s] = "none"
  BY DEF Unpack, Goes, IInv, Stopped
<1>2. Len(archives) \in 1 .. Len(archives) /\ Latest \in Archive
  BY <1>1 DEF IInv, ArchivesSafe, ArchiveType, Latest
<1>3. \A s \in Services : Latest.data[s] <= tags[s]
  BY <1>2 DEF IInv, ArchivesSafe, ArchivesCurrent, Latest
<1>4. Latest.data \in [Services -> 0 .. Newest] /\ Latest.lock \subseteq Services
  BY <1>2 DEF Archive
<1>5. data \in [Services -> 0 .. Newest] /\ \A s \in Services : data[s] <= tags[s]
  BY DEF IInv, ContainersSafe, ContainerType, Current
<1>6. /\ data' \in [Services -> 0 .. Newest]
      /\ \A s \in Services : data'[s] <= tags[s]
  BY <1>3, <1>4, <1>5, <1>0 DEF Unpacked
<1>7. /\ UNCHANGED <<db, containers, tags>> /\ faults' \in 0 .. MaxFaults
      /\ lock' = lock \cup back /\ killed' = killed \cup back /\ back \subseteq Services
  BY <1>0, <1>4 DEF Unpack, Fault, Unpacked, IInv, ContainersSafe, ContainerType
<1>8. ContainerType' /\ Current'
  BY <1>4, <1>6, <1>7 DEF IInv, ContainersSafe, ContainerType, Current, containers
<1>9. LockTellsMigration' /\ LocksExplained' /\ NoDowngrade'
  BY <1>1, <1>4, <1>7 DEF IInv, ContainersSafe, ContainerType, LockTellsMigration, LocksExplained,
     NoDowngrade, ShownMigrating, containers
<1> QED BY <1>8, <1>9 DEF ContainersSafe

\* rollback.sh: find, down, unpack, up.
LEMMA RollbackStepSafe ==
  ASSUME IInv, RollbackStep
  PROVE  IInv'
<1> USE DEF Goes
<1>1. /\ UNCHANGED <<tags, archives, updates, runs, host>>
      /\ pc \in {"rollback.find", "rollback.unpack", "rollback.up"}
      /\ pc' \in {"idle", "rollback.unpack", "rollback.up"}
  BY DEF RollbackStep, RollbackAborts, RollbackDown, Unpack, RollbackUp, none, Images
<1>2. ArchivesSafe'
  BY <1>1, ArchivesPassed, StartupAssumption DEF IInv, Guarded, ContainersSafe, ContainerType
<1>3. CASE RollbackAborts
  BY <1>1, <1>2, <1>3, ContainersKept, HostKept DEF RollbackAborts, none, startup, IInv, Stopped
<1>4. CASE RollbackDown
  <2>1. ContainersSafe' /\ HostSafe'
    BY <1>1, <1>4, DownStep DEF RollbackDown
  <2>2. Stopped'
    BY <1>4 DEF RollbackDown, GoesDown, Down, Stopped
  <2> QED BY <1>2, <2>1, <2>2 DEF IInv
<1>5. CASE Unpack
  BY <1>1, <1>2, <1>5, UnpackSafe, HostKept DEF Unpack, IInv, Stopped
<1>6. CASE RollbackUp
  BY <1>1, <1>2, <1>6, UpStep DEF RollbackUp
<1> QED BY <1>3, <1>4, <1>5, <1>6 DEF RollbackStep

\* The operator begins a script, or interrupts one.
LEMMA OperatorSafe ==
  ASSUME IInv, Operator
  PROVE  IInv'
<1> USE StartupAssumption, InstallAssumption
<1>1. runs \in Nat /\ runs <= MaxRuns /\ updates \in Nat /\ env \in BOOLEAN /\ synapse \in BOOLEAN
  BY DEF IInv, HostSafe, HostType, ArchivesSafe, ArchiveType
<1>2. CASE InstallBegins /\ updates' = 0 /\ UNCHANGED archives
  <2>1. UNCHANGED <<startup, tags, secrets, dbPass, archives>> /\ updates' \in Nat
    BY <1>2 DEF InstallBegins
  <2>2. env' \in BOOLEAN /\ synapse' \in BOOLEAN
    BY <1>1, <1>2, Zenon DEF InstallBegins
  <2>3. runs' = runs + 1 /\ runs < MaxRuns /\ pc' \in {"idle", "install.secrets"}
    BY <1>2, Zenon DEF InstallBegins, Begins
  <2>4. runs' \in 0 .. MaxRuns /\ pc' \in Scripts \ Guarded
    BY <1>1, <2>3 DEF Scripts, Guarded
  <2> QED BY <2>1, <2>2, <2>4, QuietSafe
<1>3. CASE BoomBegins /\ updates' = 0 /\ UNCHANGED archives
  <2>1. UNCHANGED <<startup, tags, secrets, dbPass, archives>> /\ updates' \in Nat
    BY <1>3 DEF BoomBegins
  <2>2. env' \in BOOLEAN /\ synapse' \in BOOLEAN
    BY <1>1, <1>3, Zenon DEF BoomBegins
  <2>3. runs' = runs + 1 /\ runs < MaxRuns /\ pc' \in {"idle", "boom.secrets"}
    BY <1>3, Zenon DEF BoomBegins, Begins
  <2>4. runs' \in 0 .. MaxRuns /\ pc' \in Scripts \ Guarded
    BY <1>1, <2>3 DEF Scripts, Guarded
  <2> QED BY <2>1, <2>2, <2>4, QuietSafe
<1>4. CASE UpdateBegins
  <2>1. /\ UNCHANGED <<startup, tags, secrets, dbPass, archives, env, synapse>> /\ updates' \in Nat
        /\ runs' \in 0 .. MaxRuns /\ pc' \in Scripts \ Guarded
    BY <1>1, <1>4 DEF UpdateBegins, Begins, none, host, startup, Scripts, Guarded
  <2> QED BY <1>1, <2>1, QuietSafe
<1>5. CASE RollbackBegins
  <2>1. /\ UNCHANGED <<startup, tags, secrets, dbPass, archives, env, synapse>> /\ updates' = 0
        /\ runs' \in 0 .. MaxRuns /\ pc' = "rollback.find"
    BY <1>1, <1>5 DEF RollbackBegins, Begins, none, host, startup
  <2>2. ArchivesSafe'
    BY <2>1 DEF IInv, ArchivesSafe, ArchiveType, ArchivesCurrent, Packing, UpdateIsBackedUp, Scripts
  <2>3. HostSafe'
    BY <2>1 DEF IInv, HostSafe, HostType, DbPasswordKept
  <2> QED BY <2>1, <2>2, <2>3, ContainersKept DEF IInv, Stopped
<1>7. CASE SecretCut /\ UNCHANGED <<archives, updates>>
  <2>1. /\ UNCHANGED <<db, data, containers, lock, killed, tags, runs, env, synapse, dbPass, archives,
                      updates>>
        /\ faults' \in 0 .. MaxFaults /\ pc' = "idle"
    BY <1>7 DEF SecretCut, Fault, IInv, ContainersSafe, ContainerType
  <2>2. PICK f \in Declared \cup {"restic_password"} : secrets[f] = Absent /\ Cuts(f)
    BY <1>7 DEF SecretCut, IsNext, Writes, Declared, BoomList
  <2>3. ContainersSafe'
    BY <2>1 DEF IInv, ContainersSafe, ContainerType, LockTellsMigration, LocksExplained, NoDowngrade,
       Current, ShownMigrating, containers
  <2>4. ArchivesSafe'
    BY <2>1, ArchivesQuiet DEF IInv, ArchivesSafe, ArchiveType, Scripts, Guarded
  <2>5. HostSafe'
    BY <2>1, <2>2, MakesSafe DEF IInv
  <2> QED BY <2>1, <2>3, <2>4, <2>5 DEF IInv, Stopped
<1>6. CASE Interrupted /\ UNCHANGED <<archives, updates>>
  <2>1. /\ UNCHANGED <<db, data, containers, lock, killed, tags, runs, host, dbPass, archives, updates>>
        /\ faults' \in 0 .. MaxFaults /\ pc' = "idle"
    BY <1>6 DEF Interrupted, Fault, IInv, ContainersSafe, ContainerType
  <2>2. ContainersSafe'
    BY <2>1 DEF IInv, ContainersSafe, ContainerType, LockTellsMigration, LocksExplained, NoDowngrade,
       Current, ShownMigrating, containers
  <2>3. ArchivesSafe'
    BY <2>1, ArchivesQuiet DEF IInv, ArchivesSafe, ArchiveType, Scripts, Guarded
  <2> QED BY <2>1, <2>2, <2>3, HostKept DEF IInv, Stopped
<1> QED BY <1>2, <1>3, <1>4, <1>5, <1>6, <1>7 DEF Operator

\* A container that is not there takes no step: none begins while an archive is unpacked.
LEMMA ContainerStepSafe ==
  ASSUME IInv, NEW s \in Services, Container(s) \/ Faults(s)
  PROVE  IInv'
<1>1. (StartStep(s) \/ FaultStep(s) \/ DbUp(s)) /\ UNCHANGED <<install, archives, updates>>
  BY DEF Container, Faults
<1>2. UNCHANGED <<pc, runs, host, dbPass, tags, archives, updates>>
  BY <1>1 DEF install
<1>3. ContainersSafe' /\ HostSafe'
  BY <1>1, <1>2, StartSafe, HostKept DEF IInv
<1>4. ArchivesSafe'
  BY <1>2 DEF IInv, ArchivesSafe, ArchiveType, ArchivesCurrent, Packing, UpdateIsBackedUp, Latest
<1>5. Stopped'
  <2> SUFFICES ASSUME pc = "rollback.unpack" PROVE \A t \in Services : run'[t] = "none"
    BY <1>2 DEF IInv, Stopped
  <2>1. \A t \in Services : run[t] = "none"
    BY DEF IInv, Stopped
  <2>2. run' = run
    BY <1>1, <2>1 DEF StartStep, FaultStep, WaiterReady, WaiterTimesOut, Locks, Migrates, Releases,
       NextcloudSkips, StartsUnlocked, MigratesUnlocked, ServerFails, MigrationFails, Killed, DbDown, DbUp, containers, Services
  <2> QED BY <2>1, <2>2
<1> QED BY <1>3, <1>4, <1>5 DEF IInv

\* Scripts, operator, containers and faults take turns in any order.
LEMMA Inductive == IInv /\ [Next]_vars => IInv'
<1> SUFFICES ASSUME IInv, [Next]_vars PROVE IInv'
  OBVIOUS
<1>1. CASE Script
  BY <1>1, InstallStepSafe, UpdateStepSafe, RollbackStepSafe DEF Script
<1>2. CASE Operator
  BY <1>2, OperatorSafe
<1>3. CASE \E s \in Services : Container(s) \/ Faults(s)
  BY <1>3, ContainerStepSafe
<1>4. CASE UNCHANGED vars
  <2>1. UNCHANGED <<startup, tags, runs, host, dbPass, archives, updates, pc>>
    BY <1>4 DEF vars, install
  <2>2. ContainersSafe' /\ HostSafe'
    BY <2>1, ContainersKept, HostKept DEF IInv
  <2> QED BY <2>1, <2>2 DEF IInv, ArchivesSafe, ArchiveType, ArchivesCurrent, Packing, UpdateIsBackedUp,
          Latest, Stopped, startup, containers
<1> QED BY <1>1, <1>2, <1>3, <1>4 DEF Next

-----------------------------------------------------------------------------
(* What follows for every behaviour.                                       *)

\* The inductive invariant holds of every order of scripts, containers, faults and interrupts.
THEOREM Invariance == Spec => []IInv
BY InitSafe, Inductive, PTL DEF Spec

\* Every variable of the host has its type, whatever the scripts and the faults do.
THEOREM TypeCorrect == Spec => []TypeOK
<1>1. IInv => TypeOK
  BY DEF IInv, ContainersSafe, HostSafe, ArchivesSafe, TypeOK
<1> QED BY <1>1, Invariance, PTL

\* update.sh pulls and makes containers anew only behind a whole archive that it packed itself,
\* and the rollback it falls into unpacks that one, however many archives lie there.
THEOREM BackedUp == Spec => []UpdateIsBackedUp
<1>1. IInv => UpdateIsBackedUp
  BY DEF IInv, ArchivesSafe
<1> QED BY <1>1, Invariance, PTL

\* No mix of updates, rollbacks, kills and restarts runs a version on data of a newer one.
THEOREM NeverDowngrades == Spec => []NoDowngrade
<1>1. IInv => NoDowngrade
  BY DEF IInv, ContainersSafe
<1> QED BY <1>1, Invariance, PTL

\* The lock files of startup-waiter.sh and entrypoint.sh: there while a migration runs, and left
\* under a service that serves only by a kill or by an archive.
THEOREM LocksTell == Spec => []LockTellsMigration
<1>1. IInv => LockTellsMigration
  BY DEF IInv, ContainersSafe
<1> QED BY <1>1, Invariance, PTL

\* However often install.sh and boom.sh are run and interrupted, the password file is the one
\* that the databases were initialised with.
THEOREM PasswordSafe == Spec => []DbPasswordKept
<1>1. IInv => DbPasswordKept
  BY DEF IInv, HostSafe
<1> QED BY <1>1, Invariance, PTL

-----------------------------------------------------------------------------
(* The backup panel.                                                       *)

\* Every variable of the service and the panel that is more than a flag has its type; a call about
\* a row names it, and a list is answered at once.
PanelTyped ==
  /\ status \in [Jobs -> RowStates \cup {"deleted"}]
  /\ busy \in {NULL} \cup [kind : {"backup", "restore"}, job : Jobs]
  /\ names \in [Jobs -> SUBSET AvailableServices]
  /\ shown \in [Jobs -> RowStates]
  /\ chosen \in SUBSET (AvailableServices \cup {"all"})
  /\ ask \in {NULL} \cup [kind : {"restore", "delete"}, job : Jobs]
  /\ calls \in [Calls -> {NULL} \cup BackupCalls]
  /\ \A c \in Calls : calls[c] # NULL =>
       /\ calls[c].kind \in {"restore", "delete"} => calls[c].job \in Jobs
       /\ calls[c].kind = "list" => calls[c].state # "working"

\* What is worked on, shown, listed, asked about or called about has a row, which may be deleted.
HaveRows ==
  /\ busy # NULL => status[busy.job] \in Kept
  /\ \A j \in Jobs : shown[j] # "none" => status[j] # "none"
  /\ \A c \in OnTheirWay, j \in Jobs : calls[c].rows[j] # "none" => status[j] # "none"
  /\ ask # NULL => status[ask.job] # "none"
  /\ \A c \in Calls : calls[c] # NULL /\ calls[c].kind \in {"restore", "delete"} => status[calls[c].job] # "none"

\* Nothing that is in the first table and was not deleted since is missing in the second.
Keeps(first, second) ==
  \A j \in Jobs : first[j] # "none" /\ status[j] # "deleted" => second[j] # "none"

\* The lists on their way are ordered by when they were read, and a later one has all that is
\* left of an earlier one.
ListsOrdered ==
  /\ newer \subseteq OnTheirWay \X OnTheirWay
  /\ \A c, d \in OnTheirWay : c = d \/ <<c, d>> \in newer \/ <<d, c>> \in newer
  /\ \A c, d \in OnTheirWay : <<c, d>> \in newer => Keeps(calls[c].rows, calls[d].rows)

\* A list that was not overtaken has all that is left of the table on the screen.
TableGrows == ~crossed => \A c \in OnTheirWay : c \notin overtaken => Keeps(shown, calls[c].rows)

\* The row of an open dialogue is on the screen until it is deleted.
AskedIsShown ==
  ~crossed /\ (view = "widget" => Cardinality(Jobs) <= Rows) =>
    (ask # NULL /\ status[ask.job] # "deleted" => shown[ask.job] # "none")

PanelInv == PanelTyped /\ HaveRows /\ ListsOrdered /\ TableGrows /\ AskedIsShown /\ RestoreNamesServices

\* A call that is given up, or whose window was closed, is the same call.
LEMMA Unheard ==
  ASSUME NEW call \in BackupCalls
  PROVE  /\ [call EXCEPT !.heard = FALSE] \in BackupCalls
         /\ [call EXCEPT !.heard = FALSE].state = call.state
         /\ [call EXCEPT !.heard = FALSE].kind = call.kind /\ [call EXCEPT !.heard = FALSE].job = call.job
         /\ [call EXCEPT !.heard = FALSE].services = call.services
         /\ [call EXCEPT !.heard = FALSE].rows = call.rows
BY DEF BackupCalls

\* A call as it is sent.
LEMMA NewCalls ==
  ASSUME NEW kind \in {"list", "backup", "restore", "delete"}, NEW j \in Jobs \cup {NULL},
         NEW s \in SUBSET AvailableServices
  PROVE  /\ Request(kind, j, s) \in BackupCalls /\ Request(kind, j, s).kind = kind
         /\ Request(kind, j, s).job = j /\ Request(kind, j, s).services = s
         /\ Request(kind, j, s).state = "sent"
<1>1. Nothing \in [Jobs -> RowStates]
  BY DEF Nothing, RowStates
<1> HIDE DEF Nothing
<1> QED BY <1>1 DEF Request, BackupCalls

\* The row that a job or a panel's click is about, and no other, moves on.
RowMoves(j) ==
  \/ status'[j] = status[j] /\ names'[j] = names[j]
  \/ status[j] = "none" /\ status'[j] = "in_progress"
  \/ status[j] \in Kept /\ status'[j] \in Kept \cup {"deleted"} /\ names'[j] = names[j]

\* What may become of the rows and of the work in a step: only a job that is worked on ends, and
\* nothing is deleted meanwhile.
LEMMA RowSteps ==
  ASSUME PanelTyped, HaveRows, [PanelNext]_panelVars
  PROVE  /\ \A j \in Jobs : RowMoves(j)
         /\ status' \in [Jobs -> RowStates \cup {"deleted"}]
         /\ names' \in [Jobs -> SUBSET AvailableServices]
         /\ busy' \in {NULL} \cup [kind : {"backup", "restore"}, job : Jobs]
         /\ busy' # NULL => status'[busy'.job] \in Kept
<1> DEFINE Good ==
      /\ \A j \in Jobs : RowMoves(j)
      /\ status' \in [Jobs -> RowStates \cup {"deleted"}]
      /\ names' \in [Jobs -> SUBSET AvailableServices]
      /\ busy' \in {NULL} \cup [kind : {"backup", "restore"}, job : Jobs]
      /\ busy' # NULL => status'[busy'.job] \in Kept
<1>0. /\ status \in [Jobs -> RowStates \cup {"deleted"}] /\ names \in [Jobs -> SUBSET AvailableServices]
      /\ busy \in {NULL} \cup [kind : {"backup", "restore"}, job : Jobs]
      /\ busy # NULL => status[busy.job] \in Kept
  BY DEF PanelTyped, HaveRows
<1>1. ASSUME UNCHANGED <<service, names>> PROVE Good
  BY <1>0, <1>1 DEF service, RowMoves
<1>2. ASSUME NEW s \in SUBSET AvailableServices, Inserted(s) PROVE Good
  <2>1. PICK j \in Jobs : Begin(j) /\ names' = [names EXCEPT ![j] = s]
    BY <1>2 DEF Inserted
  <2>2. /\ status[j] = "none" /\ status' = [status EXCEPT ![j] = "in_progress"]
        /\ busy' = [kind |-> "backup", job |-> j]
    BY <2>1 DEF Begin
  <2>3. status'[j] = "in_progress" /\ \A i \in Jobs : i # j => status'[i] = status[i] /\ names'[i] = names[i]
    BY <1>0, <2>1, <2>2
  <2>4. \A i \in Jobs : RowMoves(i)
    BY <2>2, <2>3 DEF RowMoves
  <2>5. status' \in [Jobs -> RowStates \cup {"deleted"}]
    BY <1>0, <2>2 DEF RowStates, Kept
  <2>6. names' \in [Jobs -> SUBSET AvailableServices]
    BY <1>0, <2>1
  <2>7. busy' \in [kind : {"backup", "restore"}, job : Jobs] /\ busy'.job = j
    BY <2>2
  <2>8. status'[busy'.job] \in Kept
    BY <2>3, <2>7 DEF Kept
  <2> QED BY <2>4, <2>5, <2>6, <2>7, <2>8
<1>3. ASSUME NEW j \in Jobs, BeginRestore(j), UNCHANGED names PROVE Good
  <2>1. status[j] \in Kept /\ status' = status /\ busy' = [kind |-> "restore", job |-> j]
    BY <1>3 DEF BeginRestore
  <2>2. busy' \in [kind : {"backup", "restore"}, job : Jobs] /\ busy'.job = j
    BY <2>1
  <2> QED BY <1>0, <1>3, <2>1, <2>2 DEF RowMoves
<1>4. ASSUME NEW j \in Jobs, Remove(j), UNCHANGED names PROVE Good
  <2>1. status[j] \in Kept /\ status' = [status EXCEPT ![j] = "deleted"] /\ busy' = busy /\ busy = NULL
    BY <1>4 DEF Remove, Free
  <2>2. \A i \in Jobs : RowMoves(i)
    BY <1>0, <1>4, <2>1 DEF RowMoves
  <2>3. status' \in [Jobs -> RowStates \cup {"deleted"}]
    BY <1>0, <2>1
  <2> QED BY <1>0, <1>4, <2>1, <2>2, <2>3
<1>5. ASSUME End, UNCHANGED names PROVE Good
  <2>1. busy # NULL /\ busy' = NULL
    BY <1>5 DEF End
  <2>2. busy.job \in Jobs /\ status[busy.job] \in Kept
    BY <1>0, <2>1
  <2>3. PICK s \in Outcomes(busy) : status' = [status EXCEPT ![busy.job] = s]
    BY <1>5 DEF End
  <2>4. s \in Kept
    BY <2>2, <2>3 DEF Outcomes, Kept
  <2>5. \A i \in Jobs : RowMoves(i)
    BY <1>0, <1>5, <2>2, <2>3, <2>4 DEF RowMoves
  <2>6. status' \in [Jobs -> RowStates \cup {"deleted"}]
    BY <1>0, <2>2, <2>3, <2>4 DEF RowStates
  <2> QED BY <1>0, <1>5, <2>1, <2>5, <2>6
<1>6. ASSUME Die \/ Rise, UNCHANGED names PROVE Good
  BY <1>0, <1>6 DEF Die, Rise, RowMoves
<1>7. CASE Mount \/ Unmount \/ Turn \/ Poll \/ Start \/ Cancel \/ Confirm \/ UNCHANGED panelVars
  BY <1>1, <1>7 DEF Mount, Unmount, Turn, Poll, Start, Cancel, Confirm, panelVars
<1>8. CASE Scheduled
  BY <1>2, <1>8 DEF Scheduled
<1>9. CASE JobEnds
  BY <1>5, <1>9 DEF JobEnds
<1>10. CASE SidecarDies \/ SidecarRises
  BY <1>6, <1>10 DEF SidecarDies, SidecarRises
<1>11. ASSUME NEW c \in Calls, ServeList(c) \/ ListArrives(c) \/ Then(c) \/ GiveUp(c) PROVE Good
  BY <1>1, <1>11 DEF ServeList, ListArrives, Then, GiveUp
<1>12. ASSUME NEW c \in Calls, ServeStart(c) PROVE Good
  <2>1. calls[c] \in BackupCalls /\ Inserted(calls[c].services)
    BY <1>12 DEF ServeStart, Waiting, PanelTyped
  <2>2. calls[c].services \in SUBSET AvailableServices
    BY <2>1 DEF BackupCalls
  <2> QED BY <1>2, <2>1, <2>2
<1>13. ASSUME NEW c \in Calls, ServeRestore(c) PROVE Good
  <2>1. calls[c].job \in Jobs /\ names' = names
    BY <1>13 DEF ServeRestore, Waiting, PanelTyped
  <2>2. BeginRestore(calls[c].job) \/ UNCHANGED service
    BY <1>13 DEF ServeRestore
  <2> QED BY <1>1, <1>3, <2>1, <2>2
<1>14. ASSUME NEW c \in Calls, ServeDelete(c) PROVE Good
  <2>1. calls[c].job \in Jobs /\ names' = names
    BY <1>14 DEF ServeDelete, Waiting, PanelTyped
  <2>2. Remove(calls[c].job) \/ UNCHANGED service
    BY <1>14 DEF ServeDelete
  <2> QED BY <1>1, <1>4, <2>1, <2>2
<1>15. ASSUME \/ \E s \in AvailableServices \cup {"all"} : Toggle(s)
              \/ \E j \in Jobs : Ask(j)
       PROVE  Good
  BY <1>1, <1>15 DEF Toggle, Ask
<1> QED BY <1>7, <1>8, <1>9, <1>10, <1>11, <1>12, <1>13, <1>14, <1>15 DEF PanelNext, Net

-----------------------------------------------------------------------------
(* What a step does to the calls of the panel.                             *)

\* A call goes on: what it asks for stays, and a list is read by nothing but its route.
GoesOn(c) ==
  /\ calls[c] # NULL /\ calls'[c] \in BackupCalls
  /\ calls'[c].kind = calls[c].kind /\ calls'[c].job = calls[c].job
  /\ calls'[c].services = calls[c].services /\ calls'[c].rows = calls[c].rows
  /\ calls'[c].kind = "list" =>
       calls'[c].state # "working" /\ (calls'[c].state = "ok" <=> calls[c].state = "ok")

NoList(c) == calls[c] = NULL \/ calls[c].kind # "list"

\* A slot that had no list is empty, or has a list or a backup that was asked for just now.
Renewed(c) ==
  /\ NoList(c)
  /\ calls'[c] = NULL \/ (/\ calls'[c] \in BackupCalls /\ calls'[c].state = "sent"
                          /\ calls'[c].kind \in {"list", "backup"})

CallStays(c) == calls'[c] = calls[c] \/ GoesOn(c) \/ Renewed(c)

\* One slot, that had none, has a call.
LEMMA SentCall ==
  ASSUME PanelTyped, NEW call \in BackupCalls, Send(call)
  PROVE  /\ \E c \in Calls : /\ calls[c] = NULL /\ calls'[c] = call
                             /\ \A d \in Calls : d # c => calls'[d] = calls[d]
         /\ calls' \in [Calls -> {NULL} \cup BackupCalls]
BY DEF Send, PanelTyped

\* Nothing but reading a list, its arrival, closing the window and confirming a dialogue does more
\* to the calls than to move one on or to send one about no row.
LEMMA CallSteps ==
  ASSUME PanelTyped, [PanelNext]_panelVars, ~Unmount, ~Confirm,
         \A c \in Calls : ~ServeList(c) /\ ~ListArrives(c)
  PROVE  \A c \in Calls : CallStays(c)
<1>0. /\ calls \in [Calls -> {NULL} \cup BackupCalls]
      /\ \A c \in Calls : calls[c] # NULL => calls[c] \in BackupCalls
      /\ \A c \in Calls : calls[c] # NULL /\ calls[c].kind = "list" => calls[c].state # "working"
  BY DEF PanelTyped
<1>1. ASSUME UNCHANGED calls PROVE \A c \in Calls : CallStays(c)
  BY <1>1 DEF CallStays
<1>2. ASSUME NEW kind \in {"list", "backup"}, NEW s \in SUBSET AvailableServices, Send(Request(kind, NULL, s))
      PROVE  \A c \in Calls : CallStays(c)
  <2>1. /\ Request(kind, NULL, s) \in BackupCalls /\ Request(kind, NULL, s).kind = kind
        /\ Request(kind, NULL, s).state = "sent"
    BY NewCalls
  <2> QED BY <1>2, <2>1, SentCall DEF CallStays, Renewed, NoList
<1>3. ASSUME NEW c \in Calls, calls[c] # NULL, calls[c].kind # "list",
             NEW state \in {"sent", "working", "ok", "failed"}, calls' = Moved(c, state)
      PROVE  \A d \in Calls : CallStays(d)
  <2>1. calls'[c] = [calls[c] EXCEPT !.state = state] /\ \A d \in Calls : d # c => calls'[d] = calls[d]
    BY <1>0, <1>3 DEF Moved
  <2>2. calls[c] \in BackupCalls
    BY <1>0, <1>3
  <2>3. GoesOn(c)
    BY <1>3, <2>1, <2>2 DEF GoesOn, BackupCalls
  <2> QED BY <2>1, <2>3 DEF CallStays
<1>4. CASE Mount \/ Poll
  BY <1>2, <1>4 DEF Mount, Poll
<1>5. CASE Start
  <2>1. Wanted \in SUBSET AvailableServices
    BY DEF Wanted, LitServices, PanelTyped
  <2> QED BY <1>2, <1>5, <2>1 DEF Start
<1>6. CASE Turn \/ Cancel \/ Scheduled \/ SidecarRises \/ UNCHANGED panelVars
  BY <1>1, <1>6 DEF Turn, Cancel, Scheduled, SidecarRises, panelVars
<1>7. CASE JobEnds
  <2> SUFFICES ASSUME NEW c \in Calls PROVE CallStays(c)
    OBVIOUS
  <2>1. calls'[c] = IF calls[c] # NULL /\ calls[c].state = "working"
                    THEN [calls[c] EXCEPT !.state = "ok"] ELSE calls[c]
    BY <1>7 DEF JobEnds
  <2>2. CASE calls[c] # NULL /\ calls[c].state = "working"
    <3>1. calls[c] \in BackupCalls /\ calls[c].kind # "list" /\ calls'[c] = [calls[c] EXCEPT !.state = "ok"]
      BY <1>0, <2>1, <2>2
    <3>2. GoesOn(c)
      BY <2>2, <3>1 DEF GoesOn, BackupCalls
    <3> QED BY <3>2 DEF CallStays
  <2>3. CASE ~(calls[c] # NULL /\ calls[c].state = "working")
    BY <2>1, <2>3 DEF CallStays
  <2> QED BY <2>2, <2>3
<1>8. CASE SidecarDies
  <2> SUFFICES ASSUME NEW c \in Calls PROVE CallStays(c)
    OBVIOUS
  <2>1. calls'[c] = IF calls[c] # NULL /\ calls[c].state \in {"sent", "working"}
                    THEN [calls[c] EXCEPT !.state = "failed"] ELSE calls[c]
    BY <1>8 DEF SidecarDies
  <2>2. CASE calls[c] # NULL /\ calls[c].state \in {"sent", "working"}
    <3>1. calls[c] \in BackupCalls /\ calls'[c] = [calls[c] EXCEPT !.state = "failed"]
      BY <1>0, <2>1, <2>2
    <3>2. GoesOn(c)
      BY <2>2, <3>1 DEF GoesOn, BackupCalls
    <3> QED BY <3>2 DEF CallStays
  <2>3. CASE ~(calls[c] # NULL /\ calls[c].state \in {"sent", "working"})
    BY <2>1, <2>3 DEF CallStays
  <2> QED BY <2>2, <2>3
<1>9. ASSUME NEW c \in Calls, ServeStart(c) PROVE \A d \in Calls : CallStays(d)
  <2>1. calls[c] # NULL /\ calls[c].kind = "backup" /\ \E state \in {"ok", "working"} : calls' = Moved(c, state)
    BY <1>9 DEF ServeStart, Waiting
  <2> QED BY <1>3, <2>1
<1>10. ASSUME NEW c \in Calls, ServeRestore(c) \/ ServeDelete(c) PROVE \A d \in Calls : CallStays(d)
  <2>1. /\ calls[c] # NULL /\ calls[c].kind \in {"restore", "delete"}
        /\ \E state \in {"ok", "working", "failed"} : calls' = Moved(c, state)
    BY <1>10 DEF ServeRestore, ServeDelete, Waiting
  <2> QED BY <1>3, <2>1
<1>11. ASSUME NEW c \in Calls, Then(c) PROVE \A d \in Calls : CallStays(d)
  <2>1. /\ calls[c] # NULL /\ calls[c].kind # "list"
        /\ calls' = [calls EXCEPT ![c] = Request("list", NULL, {})] \/ calls' = Gone(c)
    BY <1>11 DEF Then
  <2>2. /\ Request("list", NULL, {}) \in BackupCalls /\ Request("list", NULL, {}).kind = "list"
        /\ Request("list", NULL, {}).state = "sent"
    BY NewCalls
  <2>3. calls'[c] \in {NULL, Request("list", NULL, {})} /\ \A d \in Calls : d # c => calls'[d] = calls[d]
    BY <1>0, <2>1 DEF Gone
  <2>4. Renewed(c)
    BY <2>1, <2>2, <2>3 DEF Renewed, NoList
  <2> QED BY <2>3, <2>4 DEF CallStays
<1>12. ASSUME NEW c \in Calls, GiveUp(c) PROVE \A d \in Calls : CallStays(d)
  <2>1. /\ calls[c] \in BackupCalls /\ calls[c] # NULL /\ calls[c].kind = "backup"
        /\ calls' = [calls EXCEPT ![c] = [calls[c] EXCEPT !.heard = FALSE]]
    BY <1>0, <1>12 DEF GiveUp
  <2>2. calls'[c] = [calls[c] EXCEPT !.heard = FALSE] /\ \A d \in Calls : d # c => calls'[d] = calls[d]
    BY <1>0, <2>1
  <2>3. GoesOn(c)
    BY <2>1, <2>2, Unheard DEF GoesOn
  <2> QED BY <2>2, <2>3 DEF CallStays
<1>13. ASSUME \/ \E s \in AvailableServices \cup {"all"} : Toggle(s)
              \/ \E j \in Jobs : Ask(j)
       PROVE  \A c \in Calls : CallStays(c)
  BY <1>1, <1>13 DEF Toggle, Ask
<1> QED BY <1>4, <1>5, <1>6, <1>7, <1>8, <1>9, <1>10, <1>11, <1>12, <1>13 DEF PanelNext, Net

\* What was confirmed has its row and its services; other calls stay.
LEMMA Confirmed ==
  ASSUME PanelTyped, Confirm
  PROVE  /\ calls' \in [Calls -> {NULL} \cup BackupCalls] /\ ask # NULL /\ ask \in [kind : {"restore", "delete"}, job : Jobs]
         /\ \E c \in Calls :
              /\ calls[c] = NULL /\ calls'[c].kind = ask.kind /\ calls'[c].job = ask.job
              /\ ask.kind = "restore" => calls'[c].services = ServicesOf(ask.job)
              /\ \A d \in Calls : d # c => calls'[d] = calls[d]
<1> DEFINE s == IF ask.kind = "restore" THEN ServicesOf(ask.job) ELSE {}
<1>1. ask # NULL /\ ask \in [kind : {"restore", "delete"}, job : Jobs] /\ Send(Request(ask.kind, ask.job, s))
  BY DEF Confirm, PanelTyped
<1>2. s \in SUBSET AvailableServices
  BY <1>1 DEF ServicesOf, PanelTyped
<1>3. ask.kind = "restore" => s = ServicesOf(ask.job)
  OBVIOUS
<1> HIDE DEF s
<1>4. /\ Request(ask.kind, ask.job, s) \in BackupCalls /\ Request(ask.kind, ask.job, s).kind = ask.kind
      /\ Request(ask.kind, ask.job, s).job = ask.job /\ Request(ask.kind, ask.job, s).services = s
  BY <1>1, <1>2, NewCalls
<1> QED BY <1>1, <1>3, <1>4, SentCall

\* A list is read: its slot has the rows of this moment.
LEMMA ListRead ==
  ASSUME PanelTyped, NEW c \in Calls, ServeList(c)
  PROVE  /\ calls' \in [Calls -> {NULL} \cup BackupCalls] /\ c \notin OnTheirWay
         /\ OnTheirWay' = OnTheirWay \cup {c}
         /\ calls'[c].kind = "list" /\ calls'[c].state = "ok" /\ calls'[c].rows = Listing
         /\ \A d \in Calls : d # c => calls'[d] = calls[d]
<1>1. calls[c] \in BackupCalls /\ calls[c] # NULL /\ calls[c].kind = "list" /\ calls[c].state = "sent"
  BY DEF ServeList, Waiting, PanelTyped
<1>2. Listing \in [Jobs -> RowStates]
  BY DEF Listing, PanelTyped, RowStates
<1>3. calls' = [calls EXCEPT ![c] = [calls[c] EXCEPT !.state = "ok", !.rows = Listing]]
  BY DEF ServeList
<1> HIDE DEF Listing
<1>4. /\ [calls[c] EXCEPT !.state = "ok", !.rows = Listing] \in BackupCalls
      /\ [calls[c] EXCEPT !.state = "ok", !.rows = Listing].kind = "list"
      /\ [calls[c] EXCEPT !.state = "ok", !.rows = Listing].state = "ok"
      /\ [calls[c] EXCEPT !.state = "ok", !.rows = Listing].rows = Listing
  BY <1>1, <1>2 DEF BackupCalls
<1>5. calls'[c] = [calls[c] EXCEPT !.state = "ok", !.rows = Listing] /\ \A d \in Calls : d # c => calls'[d] = calls[d]
  BY <1>3 DEF PanelTyped
<1>6. calls' \in [Calls -> {NULL} \cup BackupCalls] /\ calls'[c] # NULL
  BY <1>3, <1>4, <1>5, BackupPanelAssumption DEF PanelTyped
<1>7. c \notin OnTheirWay
  BY <1>1 DEF OnTheirWay
<1> QED BY <1>4, <1>5, <1>6, <1>7 DEF OnTheirWay

\* A list arrives: its slot is free again.
LEMMA ListGone ==
  ASSUME PanelTyped, NEW c \in Calls, ListArrives(c)
  PROVE  /\ calls' \in [Calls -> {NULL} \cup BackupCalls]
         /\ OnTheirWay' = OnTheirWay \ {c}
         /\ calls'[c] = NULL /\ \A d \in Calls : d # c => calls'[d] = calls[d]
<1>1. calls' = [calls EXCEPT ![c] = NULL] /\ calls \in [Calls -> {NULL} \cup BackupCalls]
  BY DEF ListArrives, Gone, PanelTyped
<1>2. calls'[c] = NULL /\ \A d \in Calls : d # c => calls'[d] = calls[d]
  BY <1>1
<1> QED BY <1>1, <1>2 DEF OnTheirWay

\* Closing the window gives up the lists; nobody hears of the rest.
LEMMA Closing ==
  ASSUME PanelTyped, Unmount
  PROVE  /\ OnTheirWay' = {}
         /\ \A c \in Calls : calls'[c] = NULL \/ GoesOn(c)
         /\ calls' = [c \in Calls |-> calls'[c]]
<1>1. \A c \in Calls : calls'[c] = IF calls[c] = NULL \/ calls[c].kind = "list" THEN NULL
                                   ELSE [calls[c] EXCEPT !.heard = FALSE]
  BY DEF Unmount
<1>2. ASSUME NEW c \in Calls, calls[c] # NULL, calls[c].kind # "list" PROVE GoesOn(c)
  <2>1. calls[c] \in BackupCalls /\ calls'[c] = [calls[c] EXCEPT !.heard = FALSE]
    BY <1>1, <1>2 DEF PanelTyped
  <2> QED BY <1>2, <2>1, Unheard DEF GoesOn
<1>3. \A c \in Calls : calls'[c] = NULL \/ (GoesOn(c) /\ calls'[c].kind # "list")
  BY <1>1, <1>2 DEF GoesOn
<1>4. calls' = [c \in Calls |-> calls'[c]]
  BY DEF Unmount
<1> QED BY <1>3, <1>4 DEF OnTheirWay

\* What stays leaves the lists on their way as they are.
LEMMA ListsStay ==
  ASSUME PanelTyped, \A c \in Calls : CallStays(c)
  PROVE  /\ OnTheirWay' = OnTheirWay
         /\ \A c \in OnTheirWay : calls'[c].rows = calls[c].rows
<1> SUFFICES ASSUME NEW c \in Calls
             PROVE  /\ c \in OnTheirWay' <=> c \in OnTheirWay
                    /\ c \in OnTheirWay => calls'[c].rows = calls[c].rows
  BY DEF OnTheirWay
<1>1. CASE calls'[c] = calls[c]
  BY <1>1 DEF OnTheirWay
<1>2. CASE GoesOn(c)
  <2>1. calls'[c] # NULL
    BY <1>2, BackupPanelAssumption DEF GoesOn
  <2> QED BY <1>2, <2>1 DEF GoesOn, OnTheirWay
<1>3. CASE Renewed(c)
  BY <1>3 DEF Renewed, NoList, OnTheirWay
<1> QED BY <1>1, <1>2, <1>3 DEF CallStays

-----------------------------------------------------------------------------
(* The steps.                                                              *)

\* What the widget keeps of a list is a list.
LEMMA Windows ==
  ASSUME NEW r \in [Jobs -> RowStates]
  PROVE  /\ Window(r) \in [Jobs -> RowStates]
         /\ \A j \in Jobs : Window(r)[j] \in {"none", r[j]}
         /\ (view = "widget" => Cardinality(Jobs) <= Rows) => \A j \in Jobs : Window(r)[j] = r[j]
<1>1. \A j \in Jobs : Window(r)[j] = IF view = "widget" /\ Cardinality({i \in Jobs : i > j /\ r[i] # "none"}) >= Rows
                                     THEN "none" ELSE r[j]
  BY DEF Window
<1>2. Window(r) \in [Jobs -> RowStates]
  BY DEF Window, RowStates
<1>3. ASSUME view = "widget" => Cardinality(Jobs) <= Rows, NEW j \in Jobs PROVE Window(r)[j] = r[j]
  <2> DEFINE Later == {i \in Jobs : i > j /\ r[i] # "none"}
  <2>1. IsFiniteSet(Jobs) /\ Later \subseteq Jobs \ {j} /\ j \in Nat
    BY BackupPanelAssumption
  <2>2. IsFiniteSet(Jobs \ {j}) /\ Cardinality(Jobs \ {j}) = Cardinality(Jobs) - 1
    BY <2>1, FS_RemoveElement
  <2>3. Cardinality(Later) <= Cardinality(Jobs) - 1 /\ Cardinality(Later) \in Nat /\ Cardinality(Jobs) \in Nat
    BY <2>1, <2>2, FS_Subset, FS_CardinalityType
  <2>4. view = "widget" => ~(Cardinality(Later) >= Rows)
    BY <1>3, <2>3, BackupPanelAssumption
  <2> QED BY <1>1, <2>4
<1> QED BY <1>1, <1>2, <1>3

\* What a step does to the table, the choice and the dialogue.
LEMMA ScreenSteps ==
  ASSUME PanelTyped, [PanelNext]_panelVars
  PROVE  /\ view' = view
         /\ shown' \in [Jobs -> RowStates] /\ chosen' \in SUBSET (AvailableServices \cup {"all"})
         /\ ask' \in {NULL} \cup [kind : {"restore", "delete"}, job : Jobs]
         /\ \/ shown' = shown
            \/ shown' = Nothing /\ ask' = NULL
            \/ \E c \in OnTheirWay : ListArrives(c) /\ shown' = Window(calls[c].rows)
         /\ ask' \in {NULL, ask} \/ (ask'.job \in Jobs /\ shown[ask'.job] # "none" /\ shown' = shown)
<1> USE DEF PanelTyped
<1>1. CASE Mount \/ Turn \/ Poll \/ Start \/ Scheduled \/ JobEnds \/ SidecarDies \/ SidecarRises \/ UNCHANGED panelVars
  BY <1>1 DEF Mount, Turn, Poll, Start, Scheduled, JobEnds, SidecarDies, SidecarRises, panelVars, panel
<1>2. CASE Unmount
  <2>1. Nothing \in [Jobs -> RowStates] /\ {"all"} \in SUBSET (AvailableServices \cup {"all"})
    BY DEF Nothing, RowStates
  <2> QED BY <1>2, <2>1 DEF Unmount
<1>3. CASE Cancel \/ Confirm
  BY <1>3 DEF Cancel, Confirm
<1>4. ASSUME NEW c \in Calls, ServeList(c) \/ ServeStart(c) \/ ServeRestore(c) \/ ServeDelete(c) \/ Then(c) \/ GiveUp(c)
      PROVE  UNCHANGED <<view, shown, chosen, ask>>
  BY <1>4 DEF ServeList, ServeStart, ServeRestore, ServeDelete, Then, GiveUp, panel
<1>5. ASSUME NEW c \in Calls, ListArrives(c)
      PROVE  /\ UNCHANGED <<view, chosen, ask>> /\ shown' \in [Jobs -> RowStates]
             /\ shown' = shown \/ (c \in OnTheirWay /\ shown' = Window(calls[c].rows))
  <2>1. UNCHANGED <<view, chosen, ask>> /\ shown' = Listed(c) /\ calls[c] # NULL /\ calls[c].kind = "list"
    BY <1>5 DEF ListArrives
  <2>2. CASE calls[c].state = "ok"
    <3>1. calls[c] \in BackupCalls /\ c \in OnTheirWay
      BY <2>1, <2>2 DEF OnTheirWay
    <3>2. calls[c].rows \in [Jobs -> RowStates]
      BY <3>1 DEF BackupCalls
    <3>3. shown' = Window(calls[c].rows)
      BY <2>1, <2>2 DEF Listed
    <3> QED BY <2>1, <3>1, <3>2, <3>3, Windows
  <2>3. CASE calls[c].state # "ok"
    BY <2>1, <2>3 DEF Listed
  <2> QED BY <2>1, <2>2, <2>3
<1>6. ASSUME NEW s \in AvailableServices \cup {"all"}, Toggle(s)
      PROVE  /\ UNCHANGED <<view, shown, ask>>
             /\ chosen' \in SUBSET (AvailableServices \cup {"all"})
  <2>1. UNCHANGED <<view, shown, ask>> /\ chosen' \in {Toggled(s), WidgetToggled(s)}
    BY <1>6 DEF Toggle
  <2>2. Flipped(s) \in SUBSET (AvailableServices \cup {"all"})
    BY DEF Flipped
  <2>3. {Toggled(s), WidgetToggled(s)} \subseteq {{}, {"all"}, Flipped(s)}
    BY DEF Toggled, WidgetToggled
  <2> QED BY <2>1, <2>2, <2>3
<1>7. ASSUME NEW j \in Jobs, Ask(j)
      PROVE  /\ UNCHANGED <<view, shown, chosen>> /\ ask' \in [kind : {"restore", "delete"}, job : Jobs]
             /\ ask'.job = j /\ shown[j] # "none"
  <2>1. UNCHANGED <<view, shown, chosen>>
    BY <1>7 DEF Ask
  <2>2. /\ ask' = [kind |-> "restore", job |-> j] \/ ask' = [kind |-> "delete", job |-> j]
        /\ shown[j] # "none"
    BY <1>7 DEF Ask, AskRestore, AskDelete
  <2> QED BY <2>1, <2>2
<1> QED BY <1>1, <1>2, <1>3, <1>4, <1>5, <1>6, <1>7 DEF PanelNext, Net

\* A call about a row keeps its row and its services, or was confirmed just now.
LEMMA RowCalls ==
  ASSUME PanelTyped, [PanelNext]_panelVars, NEW c \in Calls, calls'[c] # NULL,
         calls'[c].kind \in {"restore", "delete"}
  PROVE  \/ /\ calls[c] # NULL /\ calls'[c].kind = calls[c].kind /\ calls'[c].job = calls[c].job
            /\ calls'[c].services = calls[c].services
         \/ /\ Confirm /\ ask # NULL /\ calls'[c].kind = ask.kind /\ calls'[c].job = ask.job
            /\ ask.kind = "restore" => calls'[c].services = ServicesOf(ask.job)
<1>1. CASE Confirm
  BY <1>1, Confirmed
<1>2. ASSUME NEW d \in Calls, ServeList(d) \/ ListArrives(d)
      PROVE  calls'[c] = calls[c]
  BY <1>2, ListRead, ListGone
<1>3. CASE Unmount
  BY <1>3, Closing DEF GoesOn
<1>4. CASE CallStays(c)
  BY <1>4 DEF CallStays, GoesOn, Renewed
<1> QED BY <1>1, <1>2, <1>3, <1>4, CallSteps

\* The slots stay the same.
LEMMA SlotsStay ==
  ASSUME PanelTyped, [PanelNext]_panelVars
  PROVE  calls' = [c \in Calls |-> calls'[c]]
<1>0. calls = [c \in Calls |-> calls[c]]
  BY DEF PanelTyped
<1>1. ASSUME NEW c, NEW v, calls' = [calls EXCEPT ![c] = v] PROVE calls' = [d \in Calls |-> calls'[d]]
  BY <1>0, <1>1
<1>2. ASSUME NEW call, Send(call) PROVE calls' = [d \in Calls |-> calls'[d]]
  BY <1>1, <1>2 DEF Send
<1>3. CASE Mount \/ Poll \/ Start \/ Confirm
  BY <1>2, <1>3 DEF Mount, Poll, Start, Confirm
<1>4. CASE Unmount \/ JobEnds \/ SidecarDies
  BY <1>4 DEF Unmount, JobEnds, SidecarDies
<1>5. CASE Turn \/ Cancel \/ Scheduled \/ SidecarRises \/ UNCHANGED panelVars
  BY <1>0, <1>5 DEF Turn, Cancel, Scheduled, SidecarRises, panelVars
<1>6. ASSUME NEW c \in Calls, Net(c) \/ GiveUp(c) PROVE calls' = [d \in Calls |-> calls'[d]]
  <2>1. CASE ServeList(c)
    BY <1>1, <2>1 DEF ServeList
  <2>2. CASE ServeStart(c)
    BY <1>1, <2>2 DEF ServeStart, Moved
  <2>3. CASE ServeRestore(c) \/ ServeDelete(c)
    BY <1>1, <2>3 DEF ServeRestore, ServeDelete, Moved
  <2>4. CASE ListArrives(c)
    BY <1>1, <2>4 DEF ListArrives, Gone
  <2>5. CASE Then(c)
    BY <1>1, <2>5 DEF Then, Gone
  <2>6. CASE GiveUp(c)
    BY <1>1, <2>6 DEF GiveUp
  <2> QED BY <1>6, <2>1, <2>2, <2>3, <2>4, <2>5, <2>6 DEF Net
<1>7. ASSUME \/ \E s \in AvailableServices \cup {"all"} : Toggle(s)
             \/ \E j \in Jobs : Ask(j)
      PROVE  calls' = [d \in Calls |-> calls'[d]]
  BY <1>0, <1>7 DEF Toggle, Ask
<1> QED BY <1>3, <1>4, <1>5, <1>6, <1>7 DEF PanelNext

\* Types are kept by every step of the panel, its routes and the service.
LEMMA PanelTypedStep ==
  ASSUME PanelTyped, HaveRows, [PanelNext]_panelVars
  PROVE  PanelTyped'
<1>1. calls' \in [Calls -> {NULL} \cup BackupCalls]
  <2>1. ASSUME \A c \in Calls : CallStays(c), calls' = [c \in Calls |-> calls'[c]]
        PROVE  calls' \in [Calls -> {NULL} \cup BackupCalls]
    <3> SUFFICES ASSUME NEW c \in Calls PROVE calls'[c] \in {NULL} \cup BackupCalls
      BY <2>1
    <3> QED BY <2>1 DEF CallStays, GoesOn, Renewed, PanelTyped
  <2>2. ASSUME NEW c \in Calls, ServeList(c) \/ ListArrives(c)
        PROVE  calls' \in [Calls -> {NULL} \cup BackupCalls]
    BY <2>2, ListRead, ListGone
  <2>3. CASE Confirm
    BY <2>3, Confirmed
  <2>4. CASE Unmount
    <3> SUFFICES ASSUME NEW c \in Calls PROVE calls'[c] \in {NULL} \cup BackupCalls
      BY <2>4, Closing
    <3> QED BY <2>4, Closing DEF GoesOn
  <2>5. calls' = [c \in Calls |-> calls'[c]]
    BY SlotsStay
  <2> QED BY <2>1, <2>2, <2>3, <2>4, <2>5, CallSteps
<1>2. ASSUME NEW c \in Calls, calls'[c] # NULL, calls'[c].kind \in {"restore", "delete"}
      PROVE  calls'[c].job \in Jobs
  BY <1>2, RowCalls, Confirmed DEF PanelTyped
<1>3. ASSUME NEW c \in Calls, calls'[c] # NULL, calls'[c].kind = "list"
      PROVE  calls'[c].state # "working"
  <2>1. CASE CallStays(c)
    BY <1>3, <2>1 DEF CallStays, GoesOn, Renewed, PanelTyped
  <2>2. ASSUME NEW d \in Calls, ServeList(d) \/ ListArrives(d) PROVE calls'[c].state # "working"
    BY <1>3, <2>2, ListRead, ListGone DEF PanelTyped
  <2>3. CASE Unmount
    BY <1>3, <2>3, Closing DEF GoesOn
  <2>4. CASE Confirm
    <3>1. ask.kind # "list"
      BY <2>4, Confirmed
    <3> QED BY <1>3, <2>4, <3>1, Confirmed DEF PanelTyped
  <2> QED BY <2>1, <2>2, <2>3, <2>4, CallSteps
<1> QED BY <1>1, <1>2, <1>3, RowSteps, ScreenSteps DEF PanelTyped

\* A row that is there stays, if only as deleted, and so do its services.
LEMMA RowsStay ==
  ASSUME PanelTyped, HaveRows, [PanelNext]_panelVars, NEW j \in Jobs, status[j] # "none"
  PROVE  status'[j] # "none" /\ names'[j] = names[j] /\ (status[j] = "deleted" => status'[j] = "deleted")
BY RowSteps DEF RowMoves, Kept

\* Whatever is shown or asked about comes from a list, and a list from the rows.
LEMMA HaveRowsStep ==
  ASSUME PanelTyped, HaveRows, [PanelNext]_panelVars
  PROVE  HaveRows'
<1>1. ASSUME NEW j \in Jobs, shown'[j] # "none" PROVE status'[j] # "none"
  <2>1. CASE shown' = shown
    BY <1>1, <2>1, RowsStay DEF HaveRows
  <2>2. CASE shown' = Nothing
    BY <1>1, <2>2 DEF Nothing
  <2>3. ASSUME NEW c \in OnTheirWay, shown' = Window(calls[c].rows) PROVE status'[j] # "none"
    <3>1. calls[c].rows \in [Jobs -> RowStates]
      BY DEF OnTheirWay, PanelTyped, BackupCalls
    <3>2. calls[c].rows[j] # "none"
      BY <1>1, <2>3, <3>1, Windows
    <3> QED BY <3>2, RowsStay DEF HaveRows
  <2> QED BY <2>1, <2>2, <2>3, ScreenSteps
<1>2. ASSUME NEW c \in OnTheirWay', NEW j \in Jobs, calls'[c].rows[j] # "none" PROVE status'[j] # "none"
  <2>1. c \in Calls
    BY DEF OnTheirWay
  <2>2. ASSUME NEW d \in Calls, ServeList(d), c = d PROVE status'[j] # "none"
    <3>1. calls'[c].rows = Listing
      BY <2>2, ListRead
    <3>2. status[j] # "none"
      BY <1>2, <3>1 DEF Listing
    <3> QED BY <3>2, RowsStay
  <2>3. ASSUME c \in OnTheirWay, calls'[c].rows = calls[c].rows PROVE status'[j] # "none"
    BY <1>2, <2>3, RowsStay DEF HaveRows
  <2>4. ASSUME NEW d \in Calls, ServeList(d), c # d PROVE c \in OnTheirWay /\ calls'[c].rows = calls[c].rows
    BY <1>2, <2>1, <2>4, ListRead
  <2>5. ASSUME NEW d \in Calls, ListArrives(d) PROVE c \in OnTheirWay /\ calls'[c].rows = calls[c].rows
    BY <1>2, <2>1, <2>5, ListGone
  <2>6. CASE Unmount
    BY <1>2, <2>6, Closing
  <2>7. ASSUME Confirm PROVE c \in OnTheirWay /\ calls'[c].rows = calls[c].rows
    <3>1. ask.kind # "list"
      BY <2>7, Confirmed
    <3> QED BY <1>2, <2>1, <2>7, <3>1, Confirmed DEF OnTheirWay
  <2>8. ASSUME \A d \in Calls : CallStays(d) PROVE c \in OnTheirWay /\ calls'[c].rows = calls[c].rows
    BY <1>2, <2>8, ListsStay
  <2> QED BY <2>2, <2>3, <2>4, <2>5, <2>6, <2>7, <2>8, CallSteps
<1>3. ASSUME ask' # NULL PROVE status'[ask'.job] # "none"
  <2>1. CASE ask' = ask
    <3>1. ask.job \in Jobs
      BY <1>3, <2>1 DEF PanelTyped
    <3> QED BY <1>3, <2>1, <3>1, RowsStay DEF HaveRows
  <2>2. CASE ask'.job \in Jobs /\ shown[ask'.job] # "none"
    BY <2>2, RowsStay DEF HaveRows
  <2> QED BY <1>3, <2>1, <2>2, ScreenSteps
<1>4. ASSUME NEW c \in Calls, calls'[c] # NULL, calls'[c].kind \in {"restore", "delete"}
      PROVE  status'[calls'[c].job] # "none"
  <2>1. calls'[c].job \in Jobs
    BY <1>4, PanelTypedStep DEF PanelTyped
  <2>2. status[calls'[c].job] # "none"
    BY <1>4, RowCalls DEF HaveRows
  <2> QED BY <2>1, <2>2, RowsStay
<1> QED BY <1>1, <1>2, <1>3, <1>4, RowSteps DEF HaveRows

\* A table that had all that is left of another has it still: nothing that was deleted comes back.
LEMMA StillKeeps ==
  ASSUME PanelTyped, HaveRows, [PanelNext]_panelVars, NEW r, NEW s, Keeps(r, s), \A j \in Jobs : r[j] # "none" => status[j] # "none"
  PROVE  \A j \in Jobs : r[j] # "none" /\ status'[j] # "deleted" => s[j] # "none"
BY RowsStay DEF Keeps

\* What happens to the lists on their way, and to the record of their order.
LEMMA OrderSteps ==
  ASSUME PanelTyped, [PanelNext]_panelVars
  PROVE  \/ /\ OnTheirWay' = OnTheirWay /\ \A c \in OnTheirWay : calls'[c].rows = calls[c].rows
            /\ UNCHANGED <<newer, overtaken, crossed>>
         \/ \E c \in Calls : ServeList(c)
         \/ \E c \in Calls : ListArrives(c)
         \/ Unmount
<1> DEFINE Quiet == /\ OnTheirWay' = OnTheirWay /\ \A c \in OnTheirWay : calls'[c].rows = calls[c].rows
                    /\ UNCHANGED <<newer, overtaken, crossed>>
<1> SUFFICES ASSUME ~Unmount, \A c \in Calls : ~ServeList(c) /\ ~ListArrives(c) PROVE Quiet
  OBVIOUS
<1>1. UNCHANGED past
  <2>1. ASSUME NEW c \in Calls, Net(c) \/ GiveUp(c) PROVE UNCHANGED past
    BY <2>1 DEF Net, ServeStart, ServeRestore, ServeDelete, Then, GiveUp
  <2>2. CASE \/ Mount \/ Turn \/ Poll \/ Start \/ Cancel \/ Confirm \/ UNCHANGED panelVars
             \/ Scheduled \/ JobEnds \/ SidecarDies \/ SidecarRises
    BY <2>2 DEF Mount, Turn, Poll, Start, Cancel, Confirm, panelVars, Scheduled, JobEnds, SidecarDies, SidecarRises
  <2>3. ASSUME \/ \E s \in AvailableServices \cup {"all"} : Toggle(s)
               \/ \E j \in Jobs : Ask(j)
        PROVE  UNCHANGED past
    BY <2>3 DEF Toggle, Ask
  <2> QED BY <2>1, <2>2, <2>3 DEF PanelNext
<1>2. CASE Confirm
  <2>1. ask.kind # "list"
    BY <1>2, Confirmed
  <2>2. OnTheirWay' = OnTheirWay /\ \A c \in OnTheirWay : calls'[c].rows = calls[c].rows
    BY <1>2, <2>1, Confirmed DEF OnTheirWay
  <2> QED BY <1>1, <2>2 DEF past
<1>3. CASE ~Confirm
  BY <1>1, <1>3, CallSteps, ListsStay DEF past
<1> QED BY <1>2, <1>3

\* A list that is read has all that is left of those before it, and comes after them.
LEMMA ListsOrderedStep ==
  ASSUME PanelTyped, HaveRows, ListsOrdered, [PanelNext]_panelVars
  PROVE  ListsOrdered'
<1>0. \A c \in OnTheirWay, j \in Jobs : calls[c].rows[j] # "none" => status[j] # "none"
  BY DEF HaveRows
<1>1. ASSUME NEW c \in OnTheirWay, NEW d \in OnTheirWay, Keeps(calls[c].rows, calls[d].rows),
             calls'[c].rows = calls[c].rows, calls'[d].rows = calls[d].rows
      PROVE  Keeps(calls[c].rows, calls[d].rows)'
  BY <1>0, <1>1, StillKeeps DEF Keeps
<1>2. ASSUME OnTheirWay' \subseteq OnTheirWay, \A c \in OnTheirWay' : calls'[c].rows = calls[c].rows,
             newer' = newer \cap (OnTheirWay' \X OnTheirWay')
      PROVE  ListsOrdered'
  <2>1. newer' \subseteq OnTheirWay' \X OnTheirWay'
    BY <1>2
  <2>2. \A c, d \in OnTheirWay' : c = d \/ <<c, d>> \in newer' \/ <<d, c>> \in newer'
    BY <1>2 DEF ListsOrdered
  <2>3. ASSUME NEW c \in OnTheirWay', NEW d \in OnTheirWay', <<c, d>> \in newer'
        PROVE  Keeps(calls[c].rows, calls[d].rows)'
    <3>1. c \in OnTheirWay /\ d \in OnTheirWay /\ <<c, d>> \in newer
      BY <1>2, <2>3
    <3>2. Keeps(calls[c].rows, calls[d].rows)
      BY <3>1 DEF ListsOrdered
    <3> QED BY <1>1, <1>2, <3>1, <3>2
  <2> QED BY <2>1, <2>2, <2>3 DEF ListsOrdered
<1>3. CASE /\ OnTheirWay' = OnTheirWay /\ \A c \in OnTheirWay : calls'[c].rows = calls[c].rows
           /\ UNCHANGED <<newer, overtaken, crossed>>
  BY <1>2, <1>3 DEF ListsOrdered
<1>4. ASSUME NEW c \in Calls, ServeList(c) PROVE ListsOrdered'
  <2>1. newer' = newer \cup {<<d, c>> : d \in OnTheirWay} /\ UNCHANGED service
    BY <1>4 DEF ServeList
  <2>2. /\ OnTheirWay' = OnTheirWay \cup {c} /\ c \notin OnTheirWay /\ calls'[c].rows = Listing
        /\ \A d \in OnTheirWay : calls'[d].rows = calls[d].rows
    <3>1. OnTheirWay \subseteq Calls
      BY DEF OnTheirWay
    <3> QED BY <1>4, <3>1, ListRead
  <2>3. newer' \subseteq OnTheirWay' \X OnTheirWay'
    BY <2>1, <2>2 DEF ListsOrdered
  <2>4. \A d, e \in OnTheirWay' : d = e \/ <<d, e>> \in newer' \/ <<e, d>> \in newer'
    BY <2>1, <2>2 DEF ListsOrdered
  <2>5. ASSUME NEW d \in OnTheirWay', NEW e \in OnTheirWay', <<d, e>> \in newer'
        PROVE  Keeps(calls[d].rows, calls[e].rows)'
    <3>1. CASE <<d, e>> \in newer
      <4>1. d \in OnTheirWay /\ e \in OnTheirWay /\ Keeps(calls[d].rows, calls[e].rows)
        BY <3>1 DEF ListsOrdered
      <4> QED BY <1>1, <2>2, <4>1
    <3>2. CASE d \in OnTheirWay /\ e = c
      <4>1. calls'[d].rows = calls[d].rows /\ calls'[e].rows = Listing /\ status' = status
        BY <2>1, <2>2, <3>2 DEF service
      <4>2. \A j \in Jobs : calls[d].rows[j] # "none" /\ status[j] # "deleted" => Listing[j] # "none"
        BY <1>0, <3>2 DEF Listing
      <4> QED BY <4>1, <4>2 DEF Keeps
    <3> QED BY <2>1, <2>5, <3>1, <3>2
  <2> QED BY <2>3, <2>4, <2>5 DEF ListsOrdered
<1>5. ASSUME NEW c \in Calls, ListArrives(c) PROVE ListsOrdered'
  <2>1. newer' = {p \in newer : p[1] # c /\ p[2] # c}
    BY <1>5 DEF ListArrives
  <2>2. OnTheirWay' = OnTheirWay \ {c} /\ \A d \in OnTheirWay' : calls'[d].rows = calls[d].rows
    <3>1. OnTheirWay' \subseteq Calls
      BY DEF OnTheirWay
    <3> QED BY <1>5, <3>1, ListGone
  <2>3. newer' = newer \cap (OnTheirWay' \X OnTheirWay')
    BY <2>1, <2>2 DEF ListsOrdered
  <2> QED BY <1>2, <2>2, <2>3
<1>6. CASE Unmount
  <2>1. OnTheirWay' = {} /\ newer' = {}
    BY <1>6, Closing DEF Unmount
  <2> QED BY <2>1 DEF ListsOrdered
<1> QED BY <1>3, <1>4, <1>5, <1>6, OrderSteps

\* A list takes the place of the table; those that were read after it have all that is left of it.
LEMMA TableGrowsStep ==
  ASSUME PanelTyped, HaveRows, ListsOrdered, TableGrows, [PanelNext]_panelVars
  PROVE  TableGrows'
<1> SUFFICES ASSUME ~crossed', NEW e \in OnTheirWay', e \notin overtaken' PROVE Keeps(shown, calls[e].rows)'
  BY DEF TableGrows
<1>0. /\ \A j \in Jobs : shown[j] # "none" => status[j] # "none"
      /\ \A c \in OnTheirWay, j \in Jobs : calls[c].rows[j] # "none" => status[j] # "none"
  BY DEF HaveRows
<1>1. ASSUME e \in OnTheirWay, e \notin overtaken, ~crossed, calls'[e].rows = calls[e].rows, shown' = shown
      PROVE  Keeps(shown, calls[e].rows)'
  <2>1. Keeps(shown, calls[e].rows)
    BY <1>1 DEF TableGrows
  <2> QED BY <1>0, <1>1, <2>1, StillKeeps DEF Keeps
<1>2. CASE shown' = Nothing
  BY <1>2 DEF Keeps, Nothing
<1>3. CASE /\ OnTheirWay' = OnTheirWay /\ \A c \in OnTheirWay : calls'[c].rows = calls[c].rows
           /\ UNCHANGED <<newer, overtaken, crossed>> /\ shown' = shown
  BY <1>1, <1>3
<1>4. ASSUME NEW c \in Calls, ServeList(c) PROVE Keeps(shown, calls[e].rows)'
  <2>1. UNCHANGED <<service, shown, overtaken, crossed>>
    BY <1>4 DEF ServeList, panel, past
  <2>2. CASE e = c
    <3>1. calls'[e].rows = Listing /\ shown' = shown /\ status' = status
      BY <1>4, <2>1, <2>2, ListRead DEF service
    <3>2. \A j \in Jobs : shown[j] # "none" /\ status[j] # "deleted" => Listing[j] # "none"
      BY <1>0 DEF Listing
    <3> QED BY <3>1, <3>2 DEF Keeps
  <2>3. CASE e # c
    <3>1. e \in OnTheirWay /\ calls'[e].rows = calls[e].rows
      BY <1>4, <2>3, ListRead DEF OnTheirWay
    <3> QED BY <1>1, <2>1, <3>1
  <2> QED BY <2>2, <2>3
<1>5. ASSUME NEW c \in Calls, ListArrives(c) PROVE Keeps(shown, calls[e].rows)'
  <2>1. /\ overtaken' = (overtaken \cup {d \in Calls : <<d, c>> \in newer}) \ {c} /\ UNCHANGED service
        /\ shown' = Listed(c) /\ ~crossed /\ c \notin overtaken /\ calls[c] # NULL /\ calls[c].kind = "list"
    BY <1>5 DEF ListArrives
  <2>2. e \in OnTheirWay /\ e # c /\ calls'[e].rows = calls[e].rows
    <3>1. OnTheirWay' \subseteq Calls
      BY DEF OnTheirWay
    <3> QED BY <1>5, <3>1, ListGone
  <2>3. e \in Calls /\ e \notin overtaken /\ <<e, c>> \notin newer
    BY <2>1, <2>2 DEF OnTheirWay
  <2>4. CASE calls[c].state = "ok"
    <3>1. c \in OnTheirWay /\ shown' = Window(calls[c].rows)
      BY <2>1, <2>4 DEF OnTheirWay, Listed
    <3>2. Keeps(calls[c].rows, calls[e].rows)
      BY <2>2, <2>3, <3>1 DEF ListsOrdered
    <3>3. calls[c].rows \in [Jobs -> RowStates]
      BY <3>1 DEF OnTheirWay, PanelTyped, BackupCalls
    <3>4. \A j \in Jobs : shown'[j] # "none" => calls[c].rows[j] # "none"
      BY <3>1, <3>3, Windows
    <3> QED BY <2>1, <2>2, <3>2, <3>4 DEF Keeps, service
  <2>5. CASE calls[c].state # "ok"
    BY <1>1, <2>1, <2>2, <2>3, <2>5 DEF Listed
  <2> QED BY <2>4, <2>5
<1>6. CASE Unmount
  BY <1>6, Closing
<1>7. ASSUME NEW c \in OnTheirWay, ListArrives(c) PROVE Keeps(shown, calls[e].rows)'
  BY <1>5, <1>7 DEF OnTheirWay
<1> QED BY <1>2, <1>3, <1>4, <1>5, <1>6, <1>7, OrderSteps, ScreenSteps

\* That an older list overtook a newer one is never forgotten.
LEMMA Overtaken ==
  ASSUME PanelTyped, [PanelNext]_panelVars, ~crossed'
  PROVE  ~crossed /\ \A c \in Calls : ListArrives(c) => c \notin overtaken
<1>1. ASSUME NEW c \in Calls, ServeList(c) \/ ListArrives(c)
      PROVE  ~crossed
  BY <1>1 DEF ServeList, ListArrives, past
<1>2. ASSUME Unmount PROVE ~crossed
  BY <1>2 DEF Unmount
<1>3. ~crossed
  BY <1>1, <1>2, OrderSteps
<1> QED BY <1>3 DEF ListArrives

\* A list that takes the table's place while a dialogue is open has the dialogue's row.
LEMMA AskedIsShownStep ==
  ASSUME PanelTyped, HaveRows, TableGrows, AskedIsShown, [PanelNext]_panelVars
  PROVE  AskedIsShown'
<1> SUFFICES ASSUME ~crossed', view = "widget" => Cardinality(Jobs) <= Rows, ask' # NULL,
                    status'[ask'.job] # "deleted"
             PROVE  shown'[ask'.job] # "none"
  BY ScreenSteps DEF AskedIsShown
<1>1. CASE ask'.job \in Jobs /\ shown[ask'.job] # "none" /\ shown' = shown
  BY <1>1
<1>2. CASE ask' = ask
  <2>1. ask.job \in Jobs /\ status[ask.job] # "none"
    BY <1>2 DEF PanelTyped, HaveRows
  <2>2. status[ask.job] # "deleted"
    BY <1>2, <2>1, RowsStay
  <2>3. ~crossed /\ shown[ask.job] # "none"
    BY <1>2, <2>2, Overtaken DEF AskedIsShown
  <2>4. CASE shown' = shown
    BY <1>2, <2>3, <2>4
  <2>5. ASSUME NEW c \in OnTheirWay, ListArrives(c), shown' = Window(calls[c].rows)
        PROVE  shown'[ask'.job] # "none"
    <3>1. c \in Calls /\ calls[c].rows \in [Jobs -> RowStates]
      BY DEF OnTheirWay, PanelTyped, BackupCalls
    <3>2. c \notin overtaken
      BY <2>5, <3>1, Overtaken
    <3>3. calls[c].rows[ask.job] # "none"
      BY <2>1, <2>2, <2>3, <3>2 DEF TableGrows, Keeps
    <3> QED BY <1>2, <2>1, <2>5, <3>1, <3>3, Windows
  <2> QED BY <2>4, <2>5, ScreenSteps
<1> QED BY <1>1, <1>2, ScreenSteps

\* The services are looked up where the row still is, and are those of the row from then on.
LEMMA ServicesStep ==
  ASSUME PanelTyped, HaveRows, AskedIsShown, RestoreNamesServices, [PanelNext]_panelVars
  PROVE  RestoreNamesServices'
<1> SUFFICES ASSUME ~crossed', view = "widget" => Cardinality(Jobs) <= Rows, NEW c \in Calls,
                    calls'[c] # NULL, calls'[c].kind = "restore", status'[calls'[c].job] # "deleted"
             PROVE  calls'[c].services = names'[calls'[c].job]
  BY ScreenSteps DEF RestoreNamesServices
<1>1. CASE /\ calls[c] # NULL /\ calls'[c].kind = calls[c].kind /\ calls'[c].job = calls[c].job
           /\ calls'[c].services = calls[c].services
  <2>1. calls[c].job \in Jobs /\ status[calls[c].job] # "none"
    BY <1>1 DEF PanelTyped, HaveRows
  <2>2. status[calls[c].job] # "deleted" /\ names'[calls[c].job] = names[calls[c].job]
    BY <1>1, <2>1, RowsStay
  <2> QED BY <1>1, <2>2, Overtaken DEF RestoreNamesServices
<1>2. CASE /\ ask # NULL /\ calls'[c].kind = ask.kind /\ calls'[c].job = ask.job
           /\ ask.kind = "restore" => calls'[c].services = ServicesOf(ask.job)
  <2>1. ask.job \in Jobs /\ status[ask.job] # "none"
    BY <1>2 DEF PanelTyped, HaveRows
  <2>2. status[ask.job] # "deleted" /\ names'[ask.job] = names[ask.job]
    BY <1>2, <2>1, RowsStay
  <2>3. shown[ask.job] # "none"
    BY <1>2, <2>2, Overtaken DEF AskedIsShown
  <2> QED BY <1>2, <2>2, <2>3 DEF ServicesOf
<1> QED BY <1>1, <1>2, RowCalls

\* At the start nothing is shown, listed, asked or called.
LEMMA PanelStart ==
  ASSUME PanelInit
  PROVE  PanelInv
<1> USE DEF PanelInit, ServiceInit
<1>1. PanelTyped
  BY DEF PanelTyped, Nothing, RowStates
<1>2. HaveRows /\ ListsOrdered /\ TableGrows
  BY DEF HaveRows, ListsOrdered, TableGrows, OnTheirWay, Nothing
<1>3. AskedIsShown /\ RestoreNamesServices
  BY DEF AskedIsShown, RestoreNamesServices
<1> QED BY <1>1, <1>2, <1>3 DEF PanelInv

\* The rows, the lists on their way, the table and the dialogue keep together in every state, for
\* any number of lists and jobs, whenever the sidecar dies.
THEOREM BackupPanelInvariance == PanelSpec => []PanelInv
<1>1. PanelInit => PanelInv
  BY PanelStart
<1>2. PanelInv /\ [PanelNext]_panelVars => PanelInv'
  BY PanelTypedStep, HaveRowsStep, ListsOrderedStep, TableGrowsStep, AskedIsShownStep, ServicesStep DEF PanelInv
<1> QED BY <1>1, <1>2, PTL DEF PanelSpec

\* A restore is asked for with the services that its backup names, although they are looked up in
\* a list that is replaced while the dialogue is open.
THEOREM RestoreSafe == PanelSpec => []RestoreNamesServices
<1>1. PanelInv => RestoreNamesServices
  BY DEF PanelInv
<1> QED BY <1>1, BackupPanelInvariance, PTL

\* Whatever the panel, its calls and the clock of the scheduler do, the sidecar behind them takes a
\* step that BackupService allows, or none.
LEMMA PanelKeepsService ==
  ASSUME PanelTyped, [PanelNext]_panelVars
  PROVE  [ServiceNext]_service
<1> DEFINE Good == ServiceNext \/ UNCHANGED service
<1>1. ASSUME NEW s, Inserted(s) PROVE Good
  BY <1>1 DEF Inserted, ServiceNext
<1>2. ASSUME NEW c \in Calls, ServeStart(c) PROVE Good
  BY <1>1, <1>2 DEF ServeStart
<1>3. CASE Scheduled
  BY <1>1, <1>3 DEF Scheduled
<1>4. CASE JobEnds \/ SidecarDies \/ SidecarRises
  BY <1>4 DEF JobEnds, SidecarDies, SidecarRises, ServiceNext
<1>5. CASE Mount \/ Unmount \/ Turn \/ Poll \/ Start \/ Cancel \/ Confirm \/ UNCHANGED panelVars
  BY <1>5 DEF Mount, Unmount, Turn, Poll, Start, Cancel, Confirm, panelVars
<1>6. ASSUME NEW c \in Calls, ServeList(c) \/ ListArrives(c) \/ Then(c) \/ GiveUp(c) PROVE Good
  BY <1>6 DEF ServeList, ListArrives, Then, GiveUp
<1>7. ASSUME NEW c \in Calls, ServeRestore(c) \/ ServeDelete(c) PROVE Good
  <2>1. calls[c].job \in Jobs
    BY <1>7 DEF ServeRestore, ServeDelete, Waiting, PanelTyped
  <2>2. BeginRestore(calls[c].job) \/ Remove(calls[c].job) \/ UNCHANGED service
    BY <1>7 DEF ServeRestore, ServeDelete
  <2> QED BY <2>1, <2>2 DEF ServiceNext
<1>8. ASSUME \/ \E s \in AvailableServices \cup {"all"} : Toggle(s)
             \/ \E j \in Jobs : Ask(j)
      PROVE  Good
  BY <1>8 DEF Toggle, Ask
<1> QED BY <1>2, <1>3, <1>4, <1>5, <1>6, <1>7, <1>8 DEF PanelNext, Net

\* The panels and their routes drive the sidecar only as BackupService, which the sidecar is shown
\* to implement, lets itself be driven: no call of theirs names a row that is not there to it, and
\* none is served while a job is worked on.
THEOREM PanelUsesService == PanelSpec => ServiceInit /\ [][ServiceNext]_service
<1>1. PanelInit => ServiceInit
  BY DEF PanelInit
<1>2. PanelInv /\ [PanelNext]_panelVars => [ServiceNext]_service
  BY PanelKeepsService DEF PanelInv
<1> QED BY <1>1, <1>2, BackupPanelInvariance, PTL DEF PanelSpec

\* A step of the service makes no row one of a running backup again.
LEMMA NoneBeginsAnew ==
  ASSUME PanelTyped, [ServiceNext]_service, NEW j \in Jobs, status'[j] = "in_progress"
  PROVE  status[j] \in {"none", "in_progress"}
<1>0. /\ status \in [Jobs -> RowStates \cup {"deleted"}]
      /\ busy \in {NULL} \cup [kind : {"backup", "restore"}, job : Jobs]
  BY DEF PanelTyped
<1>1. CASE End
  <2>1. busy.job \in Jobs
    BY <1>0, <1>1 DEF End
  <2>2. PICK s \in Outcomes(busy) : status' = [status EXCEPT ![busy.job] = s]
    BY <1>1 DEF End
  <2>3. s \in {"success", "failed", "restored", status[busy.job]}
    BY <2>2 DEF Outcomes
  <2>4. CASE j = busy.job
    BY <1>0, <2>2, <2>3, <2>4
  <2>5. CASE j # busy.job
    BY <1>0, <2>1, <2>2, <2>5
  <2> QED BY <2>4, <2>5
<1>2. CASE Die \/ Rise \/ UNCHANGED service
  BY <1>2 DEF Die, Rise, service
<1>3. ASSUME NEW i \in Jobs, Begin(i) \/ BeginRestore(i) \/ Remove(i)
      PROVE  status[j] \in {"none", "in_progress"}
  BY <1>0, <1>3 DEF Begin, BeginRestore, Remove
<1> QED BY <1>1, <1>2, <1>3 DEF ServiceNext

\* No order of clicks, lost calls, crashes and late answers rewrites the history: a row keeps the
\* services it was made with, one that was deleted never comes back, and none begins anew.
THEOREM RowsMoveOn ==
  PanelSpec => [][\A j \in Jobs : /\ RowMoves(j)
                                  /\ status'[j] = "in_progress" => status[j] \in {"none", "in_progress"}]_panelVars
<1>1. PanelInv /\ [PanelNext]_panelVars =>
        [\A j \in Jobs : /\ RowMoves(j)
                         /\ status'[j] = "in_progress" => status[j] \in {"none", "in_progress"}]_panelVars
  BY RowSteps, PanelKeepsService, NoneBeginsAnew DEF PanelInv
<1> QED BY <1>1, BackupPanelInvariance, PTL DEF PanelSpec

=============================================================================
