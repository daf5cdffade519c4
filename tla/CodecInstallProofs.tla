------------------------- MODULE CodecInstallProofs -------------------------
(***************************************************************************)
(* For any number of builds, chunks, installations and crashes: the types, *)
(* SuccessIsInstalled, VersionTellsLibrary and ArchivesRemoved.            *)
(*                                                                         *)
(* What they rest on: the popup is up from the confirmation of a codec to  *)
(* the end of its installation, so that there is one at a time and nothing *)
(* is left of the one before; an installation that is going on has found   *)
(* no version file, or the codec is being installed again; and an update   *)
(* never gets as far as the disk, because nobody keeps its Core.           *)
(***************************************************************************)
EXTENDS CodecInstall, FiniteSetTheorems, TLAPS

Active == {"receiving", "extracting", "unpacking"}
JobStates == [phase : {"none", "receiving", "extracting", "unpacking", "over"},
              read : 0 .. MaxChunks, seen : 0 .. MaxChunks]
Disks == [lib : File, new : File, version : Releases, archives : Nat]

Installing == job["install"].phase \in Active

\* The update of a codec is nobody's, and leaves nothing but its archive.
UpdateGoesNowhere ==
  /\ held["update"] = "nobody"
  /\ job["update"].phase \in {"none", "receiving", "over"}
  /\ disk.new = NoFile

\* A process that is not up does nothing.
NothingDown ==
  app # "up" => /\ job["install"].phase = "none" /\ job["update"].phase = "none"
                /\ popup = "none" /\ ~toLoad /\ told = "nothing"

\* One installation at a time, and what is posted is of the last one.
OneInstallation ==
  /\ Installing => popup = "loading" /\ ~toLoad /\ told = "nothing"
  /\ toLoad => popup = "loading" /\ told = "nothing"
  /\ told # "nothing" => popup = "loading"

\* What is to be loaded, or was, is whole and of this build.
InstalledIsWhole ==
  toLoad \/ told = "loaded" => disk.lib = Whole(release) /\ disk.version = release

\* The version file, as long as no codec is installed again.
VersionIsRight ==
  ~again => /\ Installing => disk.version = 0
            /\ disk.version # 0 => disk.lib = Whole(disk.version)

IInv == /\ TypeOK /\ UpdateGoesNowhere /\ NothingDown /\ OneInstallation
        /\ InstalledIsWhole /\ VersionIsRight /\ ArchivesRemoved

-----------------------------------------------------------------------------
(* The downloads that run, and their number.                               *)
LEMMA RunningJobs ==
  /\ Running = {j \in Jobs : job[j].phase \in Active}
  /\ IsFiniteSet(Running) /\ Cardinality(Running) \in Nat
<1>1. Running = {j \in Jobs : job[j].phase \in Active}
  BY DEF Running, InPhase, Active
<1>2. IsFiniteSet(Jobs)
  <2>1. IsFiniteSet({}) /\ Jobs = ({} \cup {"install"}) \cup {"update"}
    BY FS_EmptySet DEF Jobs
  <2>2. IsFiniteSet({} \cup {"install"})
    BY <2>1, FS_AddElement
  <2>3. IsFiniteSet(({} \cup {"install"}) \cup {"update"})
    BY <2>2, FS_AddElement
  <2> QED
    BY <2>1, <2>3
<1>3. Running \subseteq Jobs
  BY <1>1
<1>4. IsFiniteSet(Running)
  BY <1>2, <1>3, FS_Subset
<1> QED
  BY <1>1, <1>4, FS_CardinalityType

(* One job changes its phase.                                              *)
LEMMA PhaseChange ==
  ASSUME NEW j \in Jobs, \A k \in Jobs \ {j} : job'[k].phase = job[k].phase
  PROVE  /\ job'[j].phase \in Active => Running' = Running \cup {j}
         /\ job'[j].phase \notin Active => Running' = Running \ {j}
<1>1. Running = {k \in Jobs : job[k].phase \in Active}
  BY RunningJobs
<1>2. Running' = {k \in Jobs : job'[k].phase \in Active}
  BY DEF Running, InPhase, Active
<1> QED
  BY <1>1, <1>2

LEMMA RunningStarts ==
  ASSUME NEW j \in Jobs, \A k \in Jobs \ {j} : job'[k].phase = job[k].phase,
         job[j].phase \notin Active, job'[j].phase \in Active
  PROVE  Cardinality(Running)' = Cardinality(Running) + 1
<1>1. Running' = Running \cup {j} /\ j \notin Running
  BY PhaseChange, RunningJobs
<1> QED
  BY <1>1, RunningJobs, FS_AddElement

LEMMA RunningEnds ==
  ASSUME NEW j \in Jobs, \A k \in Jobs \ {j} : job'[k].phase = job[k].phase,
         job[j].phase \in Active, job'[j].phase \notin Active
  PROVE  Cardinality(Running)' = Cardinality(Running) - 1 /\ Cardinality(Running) > 0
<1>1. Running' = Running \ {j} /\ j \in Running
  BY PhaseChange, RunningJobs
<1>2. Cardinality(Running)' = Cardinality(Running) - 1
  BY <1>1, RunningJobs, FS_RemoveElement
<1>3. Cardinality(Running) # 0
  BY <1>1, RunningJobs, FS_EmptySet
<1> QED
  BY <1>2, <1>3, RunningJobs

LEMMA RunningStays ==
  ASSUME NEW j \in Jobs, \A k \in Jobs \ {j} : job'[k].phase = job[k].phase,
         (job[j].phase \in Active) <=> (job'[j].phase \in Active)
  PROVE  Running' = Running
<1>1. \A k \in Jobs : job'[k].phase \in Active <=> job[k].phase \in Active
  OBVIOUS
<1>2. Running' = {k \in Jobs : job'[k].phase \in Active}
  BY DEF Running, InPhase, Active
<1> QED
  BY <1>1, <1>2, RunningJobs

(* The phase of one job is set.                                            *)
LEMMA GoesTo ==
  ASSUME NEW j \in Jobs, NEW p \in {"none", "receiving", "extracting", "unpacking", "over"},
         job \in [Jobs -> JobStates], \A k \in Jobs : job[k].seen <= job[k].read,
         Goes(j, p)
  PROVE  /\ job' \in [Jobs -> JobStates] /\ \A k \in Jobs : job'[k].seen <= job'[k].read
         /\ job'[j].phase = p
         /\ \A k \in Jobs \ {j} : job'[k] = job[k]
BY DEF Goes, JobStates

(* What is unpacked, and what is removed.                                  *)
LEMMA PutFields ==
  ASSUME NEW j \in Jobs, NEW f \in File, disk \in Disks
  PROVE  /\ Put(j, f) \in Disks
         /\ Put(j, f).version = disk.version /\ Put(j, f).archives = disk.archives
         /\ j = "install" => Put(j, f).lib = f /\ Put(j, f).new = disk.new
         /\ j # "install" => Put(j, f).lib = disk.lib
BY DEF Put, Disks

LEMMA ClearedFields ==
  ASSUME NEW d \in Disks, d.archives > 0
  PROVE  /\ Cleared(d) \in Disks /\ Cleared(d).archives = d.archives - 1
         /\ Cleared(d).lib = d.lib /\ Cleared(d).new = d.new /\ Cleared(d).version = d.version
BY DEF Cleared, Disks

LEMMA Files ==
  ASSUME NEW r \in Releases
  PROVE  NoFile \in File /\ Whole(r) \in File /\ Part(r) \in File /\ Whole(r).of = r
BY CodecAssumption DEF NoFile, Whole, Part, File, Releases

LEMMA Types ==
  ASSUME TypeOK
  PROVE  /\ job \in [Jobs -> JobStates] /\ \A k \in Jobs : job[k].seen <= job[k].read
         /\ disk \in Disks /\ release \in Releases /\ release # 0
BY DEF TypeOK, JobStates, Disks

(* What loads is a codec of some build, and one that is loaded stays.      *)
LEMMA Loads ==
  ASSUME NEW files \in Disks, loaded \in Releases, NEW l \in Loadable(files)
  PROVE  l \in Releases /\ (loaded # 0 => l = loaded)
<1>1. files.lib.of \in Releases
  BY DEF Disks, File
<1> QED
  BY <1>1 DEF Loadable

-----------------------------------------------------------------------------
LEMMA InitInv == Init => IInv
<1> SUFFICES ASSUME Init PROVE IInv
  OBVIOUS
<1>1. \A j \in Jobs : job[j] = NoJob
  BY DEF Init
<1>2. NoJob \in JobStates /\ NoJob.phase = "none" /\ NoJob.seen = 0 /\ NoJob.read = 0
  BY CodecAssumption DEF NoJob, JobStates
<1>3. "install" \in Jobs /\ "update" \in Jobs
  BY DEF Jobs
<1>4. TypeOK
  <2>0. job = [j \in Jobs |-> NoJob]
    BY DEF Init
  <2>1. job \in [Jobs -> JobStates] /\ \A j \in Jobs : job[j].seen <= job[j].read
    BY <1>1, <1>2, <2>0
  <2>2. release \in Releases \ {0} /\ 0 \in Releases
    BY CodecAssumption DEF Init, Releases
  <2>3. disk \in Disks /\ loaded \in Releases
    BY <2>2, Files DEF Init, Disks
  <2>4. installs \in 0 .. MaxInstalls /\ crashes \in 0 .. MaxCrashes /\ lost \in Nat
    BY CodecAssumption DEF Init
  <2>5. held \in [Jobs -> {"list", "qml", "nobody"}]
    BY DEF Init
  <2> QED
    BY <2>1, <2>2, <2>3, <2>4, <2>5 DEF Init, TypeOK, JobStates, Disks, Places
<1>5. ArchivesRemoved
  <2>1. Running = {}
    BY <1>1, <1>2, RunningJobs DEF Active
  <2> QED
    BY <2>1, FS_EmptySet DEF Init, ArchivesRemoved
<1>6. UpdateGoesNowhere /\ NothingDown /\ OneInstallation /\ InstalledIsWhole /\ VersionIsRight
  BY <1>1, <1>2, <1>3 DEF Init, UpdateGoesNowhere, NothingDown, OneInstallation,
     InstalledIsWhole, VersionIsRight, Installing, Active
<1> QED
  BY <1>4, <1>5, <1>6 DEF IInv

(* What the network, bzip2 and the timers have to say is of an             *)
(* installation.                                                           *)
LEMMA OnlyInstall ==
  ASSUME IInv, NEW j \in Jobs, Heard(j) \/ job[j].phase \in {"extracting", "unpacking"}
  PROVE  j = "install"
BY DEF IInv, UpdateGoesNowhere, Heard, Jobs

LEMMA TwoJobs == "install" \in Jobs /\ "update" \in Jobs /\ Jobs \ {"install"} = {"update"}
                 /\ Jobs \ {"update"} = {"install"}
BY DEF Jobs

(* Steps that leave the downloads and the disk as they were.               *)
LEMMA QuietArchives ==
  ASSUME ArchivesRemoved, disk'.archives = disk.archives, lost' = lost,
         \A j \in Jobs : job'[j].phase = job[j].phase
  PROVE  ArchivesRemoved'
<1>1. Running' = Running
  BY TwoJobs, RunningStays
<1> QED
  BY <1>1 DEF ArchivesRemoved

LEMMA NewReleaseStep ==
  ASSUME IInv, NewRelease PROVE IInv'
<1>1. /\ release < MaxRelease /\ release' = release + 1 /\ app = "down"
      /\ UNCHANGED <<disk, app, loaded, offered, job, held, place, popup, toLoad, told>>
      /\ UNCHANGED <<installs, crashes, lost, again>>
  BY DEF NewRelease, process, history
<1>2. release' \in Releases \ {0}
  BY <1>1, Types, CodecAssumption DEF IInv, Releases
<1>3. TypeOK'
  BY <1>1, <1>2 DEF IInv, TypeOK
<1>4. ArchivesRemoved'
  BY <1>1, QuietArchives DEF IInv
<1>5. UpdateGoesNowhere' /\ NothingDown' /\ OneInstallation' /\ VersionIsRight'
  BY <1>1 DEF IInv, UpdateGoesNowhere, NothingDown, OneInstallation, VersionIsRight, Installing, Whole
<1>6. InstalledIsWhole'
  BY <1>1 DEF IInv, NothingDown, InstalledIsWhole
<1> QED
  BY <1>3, <1>4, <1>5, <1>6 DEF IInv

LEMMA RemoveOldStep ==
  ASSUME IInv, RemoveOld PROVE IInv'
<1>1. /\ app = "down" /\ app' = "updating" /\ disk' = disk
      /\ UNCHANGED <<release, loaded, offered, job, held, place, popup, toLoad, told>>
      /\ UNCHANGED <<installs, crashes, lost, again>>
  BY DEF RemoveOld, history, IInv, UpdateGoesNowhere
<1>2. TypeOK'
  BY <1>1 DEF IInv, TypeOK
<1>3. ArchivesRemoved'
  BY <1>1, QuietArchives DEF IInv
<1>4. /\ UpdateGoesNowhere' /\ NothingDown' /\ OneInstallation' /\ VersionIsRight'
      /\ InstalledIsWhole'
  BY <1>1 DEF IInv, UpdateGoesNowhere, NothingDown, OneInstallation, VersionIsRight,
     InstalledIsWhole, Installing
<1> QED
  BY <1>2, <1>3, <1>4 DEF IInv

LEMMA LaunchStep ==
  ASSUME IInv, Launch PROVE IInv'
<1>1. /\ app = "updating" /\ app' = "up" /\ Renamed = disk
      /\ UNCHANGED <<release, place, popup, toLoad, told, installs, crashes, lost, again>>
      /\ popup = "none" /\ ~toLoad /\ told = "nothing"
      /\ job["install"].phase = "none" /\ job["update"].phase = "none"
  BY DEF Launch, history, IInv, UpdateGoesNowhere, NothingDown, Renamed
<1>2. loaded' \in Releases
  BY <1>1, Types, Loads DEF Launch, IInv, TypeOK
<1>3. offered' \in SUBSET Places
  BY DEF Launch, Places
<1>4. CASE /\ job' = [job EXCEPT !["update"] = Receiving]
           /\ held' = [held EXCEPT !["update"] = UpdateHolder]
           /\ disk' = [disk EXCEPT !.archives = @ + 1]
  <2>1. /\ job' \in [Jobs -> JobStates] /\ job'["update"] = Receiving
        /\ job'["install"] = job["install"] /\ Receiving.phase = "receiving"
        /\ \A k \in Jobs : job'[k].seen <= job'[k].read
    BY <1>4, TwoJobs, Types, CodecAssumption DEF IInv, Receiving, JobStates
  <2>2. held' \in [Jobs -> {"list", "qml", "nobody"}] /\ held'["update"] = "nobody"
    BY <1>4, TwoJobs DEF UpdateHolder, IInv, TypeOK
  <2>3. /\ disk' \in Disks /\ disk'.lib = disk.lib /\ disk'.new = disk.new
        /\ disk'.version = disk.version /\ disk'.archives = disk.archives + 1
    BY <1>4, Types DEF IInv, Disks
  <2>4. TypeOK'
    BY <1>1, <1>2, <1>3, <2>1, <2>2, <2>3 DEF IInv, TypeOK, JobStates, Disks
  <2>5. ArchivesRemoved'
    <3>1. Cardinality(Running)' = Cardinality(Running) + 1
      BY <1>1, <2>1, TwoJobs, RunningStarts DEF Active
    <3> QED
      BY <1>1, <2>3, <3>1, RunningJobs DEF IInv, TypeOK, ArchivesRemoved
  <2>6. UpdateGoesNowhere' /\ NothingDown' /\ OneInstallation' /\ InstalledIsWhole'
    BY <1>1, <2>1, <2>2, <2>3 DEF IInv, UpdateGoesNowhere, NothingDown, OneInstallation,
       InstalledIsWhole, Installing, Active
  <2>7. VersionIsRight'
    BY <1>1, <2>1, <2>3 DEF IInv, VersionIsRight, Installing, Active
  <2> QED
    BY <2>4, <2>5, <2>6, <2>7 DEF IInv
<1>5. CASE disk' = disk /\ UNCHANGED <<job, held>>
  <2>1. TypeOK'
    BY <1>1, <1>2, <1>3, <1>5 DEF IInv, TypeOK
  <2>2. ArchivesRemoved'
    BY <1>1, <1>5, QuietArchives DEF IInv
  <2>3. /\ UpdateGoesNowhere' /\ NothingDown' /\ OneInstallation' /\ InstalledIsWhole'
        /\ VersionIsRight'
    BY <1>1, <1>5 DEF IInv, UpdateGoesNowhere, NothingDown, OneInstallation,
       InstalledIsWhole, VersionIsRight, Installing, Active
  <2> QED
    BY <2>1, <2>2, <2>3 DEF IInv
<1> QED
  BY <1>1, <1>4, <1>5 DEF Launch

LEMMA CrashStep ==
  ASSUME IInv, Crash PROVE IInv'
<1>1. /\ app' = "down" /\ loaded' = 0 /\ offered' = {}
      /\ place' = "main" /\ popup' = "none" /\ toLoad' = FALSE /\ told' = "nothing"
      /\ crashes' = crashes + 1 /\ crashes < MaxCrashes
      /\ lost' = lost + Cardinality(Running)
      /\ UNCHANGED <<release, installs, again>>
      /\ job' = [j \in Jobs |-> NoJob] /\ held' = [j \in Jobs |-> "nobody"]
  BY DEF Crash
<1>2. /\ NoJob \in JobStates /\ NoJob.phase = "none" /\ NoJob.seen = 0 /\ NoJob.read = 0
      /\ 0 \in Releases /\ release \in Releases
  BY Types, CodecAssumption DEF IInv, NoJob, JobStates, Releases
<1>3. /\ job' \in [Jobs -> JobStates] /\ \A j \in Jobs : job'[j].seen <= job'[j].read
      /\ \A j \in Jobs : job'[j].phase = "none"
  BY <1>1, <1>2
<1>4. /\ disk' \in Disks /\ disk'.archives = disk.archives /\ disk'.version = disk.version
      /\ disk'.new = disk.new /\ (disk'.lib = disk.lib \/ Installing)
  <2>1. CASE disk' = disk
    BY <2>1, Types DEF IInv
  <2>2. CASE disk' # disk
    <3>1. PICK j \in InPhase("unpacking"), f \in {NoFile, Whole(release)} : disk' = Put(j, f)
      BY <2>2 DEF Crash
    <3>2. j = "install" /\ j \in Jobs /\ f \in File /\ Installing
      BY <1>2, <3>1, OnlyInstall, Files DEF InPhase, Installing, Active
    <3> QED
      BY <3>1, <3>2, PutFields, Types DEF IInv
  <2> QED
    BY <2>1, <2>2
<1>5. TypeOK'
  <2>1. crashes' \in 0 .. MaxCrashes /\ lost' \in Nat
    BY <1>1, CodecAssumption, RunningJobs DEF IInv, TypeOK
  <2>2. held' \in [Jobs -> {"list", "qml", "nobody"}]
    BY <1>1
  <2> QED
    BY <1>1, <1>2, <1>3, <1>4, <2>1, <2>2 DEF IInv, TypeOK, JobStates, Disks, Places
<1>6. ArchivesRemoved'
  <2>1. Running' = {}
    BY <1>3 DEF Running, InPhase
  <2> QED
    BY <1>1, <1>4, <2>1, FS_EmptySet, RunningJobs DEF IInv, TypeOK, ArchivesRemoved
<1>7. UpdateGoesNowhere' /\ NothingDown' /\ OneInstallation' /\ InstalledIsWhole'
  BY <1>1, <1>3, <1>4, TwoJobs DEF IInv, UpdateGoesNowhere, NothingDown, OneInstallation,
     InstalledIsWhole, Installing, Active
<1>8. VersionIsRight'
  BY <1>1, <1>3, <1>4, TwoJobs DEF IInv, VersionIsRight, Installing, Active, Whole
<1> QED
  BY <1>5, <1>6, <1>7, <1>8 DEF IInv

LEMMA ConfirmStep ==
  ASSUME IInv, NEW p \in Places, Confirm(p) PROVE IInv'
<1>1. /\ app = "up" /\ popup = "none" /\ ~Installing /\ ~toLoad /\ told = "nothing"
      /\ UNCHANGED <<release, app, loaded, offered, toLoad, told, crashes, lost>>
      /\ installs < MaxInstalls /\ installs' = installs + 1
      /\ again' = (again \/ disk.version # 0)
  BY DEF Confirm, Free, IInv, OneInstallation
<1>2. installs' \in 0 .. MaxInstalls /\ again' \in BOOLEAN
  BY <1>1, CodecAssumption DEF IInv, TypeOK
<1>3. CASE /\ popup' = "loading" /\ place' = p
           /\ held' = [held EXCEPT !["install"] = "list"]
           /\ job' = [job EXCEPT !["install"] = Receiving]
           /\ disk' = [disk EXCEPT !.archives = @ + 1]
  <2>1. /\ job' \in [Jobs -> JobStates] /\ job'["install"] = Receiving
        /\ job'["update"] = job["update"] /\ Receiving.phase = "receiving"
        /\ \A k \in Jobs : job'[k].seen <= job'[k].read
    BY <1>3, TwoJobs, Types, CodecAssumption DEF IInv, Receiving, JobStates
  <2>2. held' \in [Jobs -> {"list", "qml", "nobody"}] /\ held'["update"] = held["update"]
    BY <1>3, TwoJobs DEF IInv, TypeOK
  <2>3. /\ disk' \in Disks /\ disk'.lib = disk.lib /\ disk'.new = disk.new
        /\ disk'.version = disk.version /\ disk'.archives = disk.archives + 1
    BY <1>3, Types DEF IInv, Disks
  <2>4. TypeOK'
    BY <1>1, <1>2, <1>3, <2>1, <2>2, <2>3 DEF IInv, TypeOK, JobStates, Disks
  <2>5. ArchivesRemoved'
    <3>1. Cardinality(Running)' = Cardinality(Running) + 1
      BY <1>1, <2>1, TwoJobs, RunningStarts DEF Installing, Active
    <3> QED
      BY <1>1, <2>3, <3>1, RunningJobs DEF IInv, TypeOK, ArchivesRemoved
  <2>6. UpdateGoesNowhere' /\ NothingDown' /\ OneInstallation' /\ InstalledIsWhole'
    BY <1>1, <1>3, <2>1, <2>2, <2>3 DEF IInv, UpdateGoesNowhere, NothingDown, OneInstallation,
       InstalledIsWhole
  <2>7. VersionIsRight'
    BY <1>1, <2>3 DEF IInv, VersionIsRight
  <2> QED
    BY <2>4, <2>5, <2>6, <2>7 DEF IInv
<1>4. CASE UNCHANGED <<popup, place, held, job, disk>>
  <2>1. TypeOK'
    BY <1>1, <1>2, <1>4 DEF IInv, TypeOK
  <2>2. ArchivesRemoved'
    BY <1>1, <1>4, QuietArchives DEF IInv
  <2>3. /\ UpdateGoesNowhere' /\ NothingDown' /\ OneInstallation' /\ InstalledIsWhole'
        /\ VersionIsRight'
    BY <1>1, <1>4 DEF IInv, UpdateGoesNowhere, NothingDown, OneInstallation,
       InstalledIsWhole, VersionIsRight, Installing
  <2> QED
    BY <2>1, <2>2, <2>3 DEF IInv
<1> QED
  BY <1>3, <1>4 DEF Confirm

(* The counters of a download move.                                        *)
LEMMA CountersStep ==
  ASSUME IInv, NEW j \in Jobs, Heard(j),
         \/ job[j].read < MaxChunks /\ job' = [job EXCEPT ![j].read = @ + 1]
         \/ job' = [job EXCEPT ![j].seen = job[j].read],
         UNCHANGED <<release, disk, app, loaded, offered, held, place, popup, toLoad, told>>,
         UNCHANGED history
  PROVE  IInv'
<1>1. UNCHANGED <<installs, crashes, lost, again>>
  BY DEF history
<1>2. /\ job' \in [Jobs -> JobStates] /\ \A k \in Jobs : job'[k].seen <= job'[k].read
      /\ \A k \in Jobs : job'[k].phase = job[k].phase
  <2>1. job[j] \in JobStates /\ job[j].read \in 0 .. MaxChunks /\ job[j].seen <= job[j].read
    BY Types DEF IInv, JobStates
  <2>2. CASE job[j].read < MaxChunks /\ job' = [job EXCEPT ![j].read = @ + 1]
    <3>1. job[j].read + 1 \in 0 .. MaxChunks /\ job[j].seen <= job[j].read + 1
      BY <2>1, <2>2, CodecAssumption DEF JobStates
    <3> QED
      BY <2>2, <3>1, Types DEF IInv, JobStates
  <2>3. CASE job' = [job EXCEPT ![j].seen = job[j].read]
    BY <2>1, <2>3, Types DEF IInv, JobStates
  <2> QED
    BY <2>2, <2>3
<1>3. TypeOK'
  BY <1>1, <1>2 DEF IInv, TypeOK, JobStates
<1>4. ArchivesRemoved'
  BY <1>1, <1>2, QuietArchives DEF IInv
<1>5. /\ UpdateGoesNowhere' /\ NothingDown' /\ OneInstallation' /\ InstalledIsWhole'
      /\ VersionIsRight'
  BY <1>1, <1>2, TwoJobs DEF IInv, UpdateGoesNowhere, NothingDown, OneInstallation,
     InstalledIsWhole, VersionIsRight, Installing
<1> QED
  BY <1>3, <1>4, <1>5 DEF IInv

(* An installation goes on, or ends with the removal of its archive.       *)
LEMMA InstallMoves ==
  ASSUME IInv, Installing, NEW p \in {"extracting", "unpacking", "over"}, Goes("install", p),
         disk' \in Disks, disk'.new = disk.new,
         disk'.archives = IF p = "over" THEN disk.archives - 1 ELSE disk.archives,
         popup' \in {"none", "loading"}, toLoad' \in BOOLEAN,
         UNCHANGED <<release, app, loaded, offered, held, place, told>>, UNCHANGED history
  PROVE  /\ TypeOK' /\ ArchivesRemoved' /\ UpdateGoesNowhere' /\ NothingDown'
         /\ job'["install"].phase = p /\ ~toLoad /\ told = "nothing" /\ popup = "loading"
         /\ (Installing' <=> p # "over") /\ again' = again
         /\ (~again => disk.version = 0)
<1>1. UNCHANGED <<installs, crashes, lost, again>>
  BY DEF history
<1>2. /\ job' \in [Jobs -> JobStates] /\ \A k \in Jobs : job'[k].seen <= job'[k].read
      /\ job'["install"].phase = p /\ job'["update"] = job["update"]
      /\ \A k \in Jobs \ {"install"} : job'[k].phase = job[k].phase
  BY TwoJobs, GoesTo, Types DEF IInv
<1>3. TypeOK'
  BY <1>1, <1>2 DEF IInv, TypeOK, JobStates, Disks
<1>4. ArchivesRemoved'
  <2>1. CASE p = "over"
    <3>1. Cardinality(Running)' = Cardinality(Running) - 1
      BY <1>2, <2>1, TwoJobs, RunningEnds DEF Installing, Active
    <3> QED
      BY <1>1, <2>1, <3>1, RunningJobs DEF IInv, TypeOK, ArchivesRemoved
  <2>2. CASE p # "over"
    <3>1. Running' = Running
      BY <1>2, <2>2, TwoJobs, RunningStays DEF Installing, Active
    <3> QED
      BY <1>1, <2>2, <3>1 DEF IInv, ArchivesRemoved
  <2> QED
    BY <2>1, <2>2
<1>5. app = "up" /\ ~toLoad /\ told = "nothing" /\ popup = "loading" /\ (~again => disk.version = 0)
  BY DEF IInv, NothingDown, OneInstallation, VersionIsRight, Installing, Active
<1>6. UpdateGoesNowhere' /\ NothingDown'
  BY <1>2, <1>5 DEF IInv, UpdateGoesNowhere, NothingDown
<1>7. Installing' <=> p # "over"
  BY <1>2 DEF Installing, Active
<1> QED
  BY <1>1, <1>2, <1>3, <1>4, <1>5, <1>6, <1>7

LEMMA InstallingArchive ==
  ASSUME IInv, Installing PROVE disk.archives > 0
<1>1. "install" \in Running
  BY TwoJobs, RunningJobs DEF Installing
<1>2. Cardinality(Running) # 0
  BY <1>1, RunningJobs, FS_EmptySet
<1> QED
  BY <1>2, RunningJobs DEF IInv, ArchivesRemoved, TypeOK

LEMMA GiveUpStep ==
  ASSUME IInv, NEW j \in Jobs, Heard(j), GiveUp(j) PROVE IInv'
<1>1. j = "install" /\ Installing
  BY OnlyInstall DEF Heard, Installing, Active
<1>2. /\ Goes("install", "over") /\ popup' = "none" /\ disk' = Cleared(disk)
      /\ UNCHANGED <<release, app, loaded, offered, held, place, told, toLoad>>
      /\ UNCHANGED history
  BY <1>1 DEF GiveUp, Tell
<1>3. /\ disk' \in Disks /\ disk'.archives = disk.archives - 1 /\ disk'.lib = disk.lib
      /\ disk'.new = disk.new /\ disk'.version = disk.version
  BY <1>1, <1>2, InstallingArchive, Types, ClearedFields DEF IInv
<1>4. /\ TypeOK' /\ ArchivesRemoved' /\ UpdateGoesNowhere' /\ NothingDown'
      /\ ~toLoad /\ told = "nothing" /\ ~Installing' /\ again' = again
      /\ (~again => disk.version = 0)
  BY <1>1, <1>2, <1>3, InstallMoves DEF IInv, TypeOK
<1> QED
  BY <1>2, <1>3, <1>4 DEF IInv, OneInstallation, InstalledIsWhole, VersionIsRight

LEMMA DownloadFinishedStep ==
  ASSUME IInv, NEW j \in Jobs, DownloadFinished(j) PROVE IInv'
<1>1. j = "install" /\ Installing
  BY OnlyInstall DEF DownloadFinished, Heard, Installing, Active
<1>2. CASE GiveUp(j)
  BY <1>2, GiveUpStep DEF DownloadFinished
<1>3. CASE /\ Goes(j, "extracting") /\ disk' = Put(j, NoFile)
           /\ UNCHANGED <<release, app, loaded, offered, held, place, popup, toLoad, told, history>>
  <2>1. /\ disk' \in Disks /\ disk'.archives = disk.archives /\ disk'.lib = NoFile
        /\ disk'.new = disk.new /\ disk'.version = disk.version
    <3>1. NoFile \in File
      BY Types, Files DEF IInv
    <3> QED
      BY <1>1, <1>3, <3>1, Types, PutFields DEF IInv
  <2>2. popup' \in {"none", "loading"} /\ toLoad' \in BOOLEAN
    BY <1>3 DEF IInv, TypeOK
  <2>3. /\ TypeOK' /\ ArchivesRemoved' /\ UpdateGoesNowhere' /\ NothingDown'
        /\ ~toLoad /\ told = "nothing" /\ popup = "loading" /\ Installing' /\ again' = again
        /\ (~again => disk.version = 0)
    BY <1>1, <1>3, <2>1, <2>2, InstallMoves
  <2> QED
    BY <1>3, <2>1, <2>3 DEF IInv, OneInstallation, InstalledIsWhole, VersionIsRight
<1> QED
  BY <1>2, <1>3 DEF DownloadFinished

LEMMA UnpackStep ==
  ASSUME IInv, NEW j \in Jobs, Unpack(j) PROVE IInv'
<1>1. j = "install" /\ Installing
  BY OnlyInstall DEF Unpack, Installing, Active
<1>2. /\ Goes("install", "unpacking") /\ disk' = Put(j, Part(release))
      /\ UNCHANGED <<release, app, loaded, offered, held, place, popup, toLoad, told, history>>
  BY <1>1 DEF Unpack
<1>3. /\ disk' \in Disks /\ disk'.archives = disk.archives
      /\ disk'.new = disk.new /\ disk'.version = disk.version
  <2>1. Part(release) \in File
    BY Types, Files DEF IInv
  <2> QED
    BY <1>1, <1>2, <2>1, Types, PutFields DEF IInv
<1>4. popup' \in {"none", "loading"} /\ toLoad' \in BOOLEAN
  BY <1>2 DEF IInv, TypeOK
<1>5. /\ TypeOK' /\ ArchivesRemoved' /\ UpdateGoesNowhere' /\ NothingDown'
      /\ ~toLoad /\ told = "nothing" /\ popup = "loading" /\ Installing' /\ again' = again
      /\ (~again => disk.version = 0)
  BY <1>1, <1>2, <1>3, <1>4, InstallMoves
<1> QED
  BY <1>2, <1>3, <1>5 DEF IInv, OneInstallation, InstalledIsWhole, VersionIsRight

LEMMA ExtractedStep ==
  ASSUME IInv, NEW j \in Jobs, Extracted(j) PROVE IInv'
<1>1. j = "install" /\ Installing
  BY OnlyInstall DEF Extracted, Installing, Active
<1> DEFINE files == [Put(j, Whole(release)) EXCEPT !.version = release]
<1>2. /\ Goes("install", "over") /\ disk' = Cleared(files) /\ toLoad' = TRUE
      /\ UNCHANGED <<release, app, loaded, offered, held, place, popup, told, history>>
  BY <1>1 DEF Extracted
<1>3. /\ files \in Disks /\ files.archives = disk.archives /\ files.new = disk.new
      /\ files.lib = Whole(release) /\ files.version = release
  <2>1. Whole(release) \in File
    BY Types, Files DEF IInv
  <2>2. /\ Put(j, Whole(release)) \in Disks /\ Put(j, Whole(release)).archives = disk.archives
        /\ Put(j, Whole(release)).new = disk.new /\ Put(j, Whole(release)).lib = Whole(release)
    BY <1>1, <2>1, Types, PutFields DEF IInv
  <2> QED
    BY <2>2, Types DEF IInv, Disks
<1> HIDE DEF files
<1>4. /\ disk' \in Disks /\ disk'.archives = disk.archives - 1 /\ disk'.new = disk.new
      /\ disk'.lib = Whole(release) /\ disk'.version = release
  BY <1>1, <1>2, <1>3, InstallingArchive, ClearedFields
<1>5. popup' \in {"none", "loading"}
  BY <1>2 DEF IInv, TypeOK
<1>6. /\ TypeOK' /\ ArchivesRemoved' /\ UpdateGoesNowhere' /\ NothingDown'
      /\ ~toLoad /\ told = "nothing" /\ popup = "loading" /\ ~Installing' /\ again' = again
  BY <1>1, <1>2, <1>4, <1>5, InstallMoves
<1> QED
  BY <1>2, <1>4, <1>6 DEF IInv, OneInstallation, InstalledIsWhole, VersionIsRight, Whole

LEMMA ExtractFailsStep ==
  ASSUME IInv, NEW j \in Jobs, ExtractFails(j) PROVE IInv'
<1>1. j = "install" /\ Installing
  BY OnlyInstall DEF ExtractFails, Installing, Active
<1>2. PICK files \in Failures(j) : disk' = Cleared(files)
  BY DEF ExtractFails
<1>3. /\ Goes("install", "over") /\ popup' = "none"
      /\ UNCHANGED <<release, app, loaded, offered, held, place, toLoad, told>>
      /\ UNCHANGED history
  BY <1>1 DEF ExtractFails, Tell
<1>4. /\ files \in Disks /\ files.archives = disk.archives /\ files.new = disk.new
      /\ files.version \in {0, disk.version}
  <2>1. Whole(release) \in File /\ NoFile \in File /\ 0 \in Releases
    BY Types, Files, CodecAssumption DEF IInv, Releases
  <2>2. \A f \in {Whole(release), NoFile} :
           /\ Put(j, f) \in Disks /\ Put(j, f).archives = disk.archives
           /\ Put(j, f).new = disk.new /\ Put(j, f).version = disk.version
    BY <1>1, <2>1, Types, PutFields DEF IInv
  <2>3. \/ files = Put(j, NoFile) \/ files = Put(j, Whole(release))
        \/ files = [Put(j, NoFile) EXCEPT !.version = 0]
    BY DEF Failures
  <2>4. CASE files = [Put(j, NoFile) EXCEPT !.version = 0]
    BY <2>1, <2>2, <2>4 DEF Disks
  <2> QED
    BY <2>2, <2>3, <2>4
<1>5. /\ disk' \in Disks /\ disk'.archives = disk.archives - 1 /\ disk'.new = disk.new
      /\ disk'.version \in {0, disk.version}
  BY <1>1, <1>2, <1>4, InstallingArchive, ClearedFields
<1>6. /\ TypeOK' /\ ArchivesRemoved' /\ UpdateGoesNowhere' /\ NothingDown'
      /\ ~toLoad /\ told = "nothing" /\ ~Installing' /\ again' = again
      /\ (~again => disk.version = 0)
  BY <1>1, <1>3, <1>5, InstallMoves DEF IInv, TypeOK
<1> QED
  BY <1>3, <1>5, <1>6 DEF IInv, OneInstallation, InstalledIsWhole, VersionIsRight

(* Steps of the lists and of QML, which leave the downloads and the disk   *)
(* alone.                                                                  *)
LEMMA QuietStep ==
  ASSUME IInv, UNCHANGED <<release, disk, app, job, place, popup, toLoad, told>>,
         UNCHANGED history,
         loaded' \in Loadable(disk), offered' \in SUBSET Places,
         held' \in [Jobs -> {"list", "qml", "nobody"}], held'["update"] = held["update"]
  PROVE  IInv'
<1>1. UNCHANGED <<installs, crashes, lost, again>>
  BY DEF history
<1>2. loaded' \in Releases /\ (loaded # 0 => loaded' = loaded)
  BY Types, Loads DEF IInv, TypeOK
<1>3. TypeOK'
  BY <1>1, <1>2 DEF IInv, TypeOK
<1>4. ArchivesRemoved'
  BY <1>1, QuietArchives DEF IInv
<1>5. UpdateGoesNowhere' /\ NothingDown' /\ OneInstallation' /\ VersionIsRight'
  BY <1>1 DEF IInv, UpdateGoesNowhere, NothingDown, OneInstallation, VersionIsRight, Installing
<1>6. InstalledIsWhole'
  BY <1>2 DEF IInv, InstalledIsWhole
<1> QED
  BY <1>3, <1>4, <1>5, <1>6 DEF IInv

LEMMA ListCodecsStep ==
  ASSUME IInv, NEW p \in Places, ListCodecs(p) PROVE IInv'
<1>1. offered' \in SUBSET Places
  BY DEF ListCodecs, IInv, TypeOK
<1>2. held' \in [Jobs -> {"list", "qml", "nobody"}] /\ held'["update"] = held["update"]
  BY TwoJobs DEF ListCodecs, IInv, TypeOK
<1> QED
  BY <1>1, <1>2, QuietStep DEF ListCodecs

LEMMA CollectStep ==
  ASSUME IInv, Collect PROVE IInv'
<1>1. held' \in [Jobs -> {"list", "qml", "nobody"}] /\ held'["update"] = held["update"]
  BY TwoJobs DEF Collect, IInv, TypeOK
<1>2. loaded' \in Loadable(disk) /\ offered' \in SUBSET Places
  BY DEF Collect, Loadable, IInv, TypeOK
<1> QED
  BY <1>1, <1>2, QuietStep DEF Collect

LEMMA DestroyStep ==
  ASSUME IInv, NEW j \in Jobs, Destroy(j) PROVE IInv'
<1>1. /\ Goes(j, "over") /\ app = "up" /\ job[j].phase \in Active
      /\ UNCHANGED <<release, app, loaded, offered, held, place, popup, toLoad, told>>
      /\ UNCHANGED <<installs, crashes, again>>
  BY DEF Destroy, Free, Active
<1>2. /\ job' \in [Jobs -> JobStates] /\ \A k \in Jobs : job'[k].seen <= job'[k].read
      /\ job'[j].phase = "over" /\ \A k \in Jobs \ {j} : job'[k] = job[k]
  BY <1>1, GoesTo, Types DEF IInv
<1>3. Cardinality(Running)' = Cardinality(Running) - 1 /\ Cardinality(Running) > 0
  BY <1>1, <1>2, RunningEnds DEF Active
<1>4. disk.archives \in Nat /\ lost \in Nat /\ disk.archives = Cardinality(Running) + lost
  BY DEF IInv, TypeOK, ArchivesRemoved
<1>5. disk.archives > 0
  BY <1>3, <1>4, RunningJobs
<1>6. /\ disk' \in Disks /\ lost' \in Nat
      /\ disk'.archives = (Cardinality(Running) - 1) + lost'
      /\ disk'.lib = disk.lib /\ disk'.new = disk.new /\ disk'.version = disk.version
  <2>1. CASE disk' = Aborted(disk) /\ lost' = lost
    <3>1. /\ Cleared(disk) \in Disks /\ Cleared(disk).archives = disk.archives - 1
          /\ Cleared(disk).lib = disk.lib /\ Cleared(disk).new = disk.new
          /\ Cleared(disk).version = disk.version
      BY <1>5, Types, ClearedFields DEF IInv
    <3> QED
      BY <2>1, <3>1, <1>4, RunningJobs DEF Aborted
  <2>2. CASE disk' = disk /\ lost' = lost + 1
    BY <2>2, <1>4, Types, RunningJobs DEF IInv
  <2> QED
    BY <2>1, <2>2 DEF Destroy
<1>7. TypeOK'
  BY <1>1, <1>2, <1>6 DEF IInv, TypeOK, JobStates, Disks
<1>8. ArchivesRemoved'
  BY <1>3, <1>6 DEF ArchivesRemoved
<1>9. Installing' => Installing
  BY <1>2, TwoJobs DEF Installing, Active
<1>10. UpdateGoesNowhere' /\ NothingDown'
  BY <1>1, <1>2, <1>6, TwoJobs DEF IInv, UpdateGoesNowhere, NothingDown
<1>11. OneInstallation' /\ InstalledIsWhole' /\ VersionIsRight'
  BY <1>1, <1>6, <1>9 DEF IInv, OneInstallation, InstalledIsWhole, VersionIsRight
<1> QED
  BY <1>7, <1>8, <1>10, <1>11 DEF IInv

LEMMA LoadLibraryStep ==
  ASSUME IInv, LoadLibrary PROVE IInv'
<1>1. /\ toLoad /\ toLoad' = FALSE /\ app = "up" /\ loaded' \in Loadable(disk)
      /\ told' \in {"failed", "loaded"}
      /\ UNCHANGED <<release, disk, app, offered, job, held, place, popup>>
      /\ UNCHANGED <<installs, crashes, lost, again>>
  BY DEF LoadLibrary, Loadable, history
<1>2. loaded' \in Releases
  BY <1>1, Types, Loads DEF IInv, TypeOK
<1>3. TypeOK'
  BY <1>1, <1>2 DEF IInv, TypeOK
<1>4. ArchivesRemoved'
  BY <1>1, QuietArchives DEF IInv
<1>5. UpdateGoesNowhere' /\ NothingDown' /\ VersionIsRight' /\ (Installing' <=> Installing)
  BY <1>1 DEF IInv, UpdateGoesNowhere, NothingDown, VersionIsRight, Installing
<1>6. OneInstallation' /\ InstalledIsWhole'
  BY <1>1, <1>5 DEF IInv, OneInstallation, InstalledIsWhole, Whole
<1> QED
  BY <1>3, <1>4, <1>5, <1>6 DEF IInv

LEMMA LoadedStep ==
  ASSUME IInv, Loaded PROVE IInv'
<1>1. /\ told # "nothing" /\ told' = "nothing" /\ popup' = "none" /\ app = "up"
      /\ UNCHANGED <<release, disk, app, loaded, job, held, place, toLoad>>
      /\ UNCHANGED <<installs, crashes, lost, again>>
  BY DEF Loaded, Free, history
<1>2. offered' \in SUBSET Places
  BY DEF Loaded, IInv, TypeOK
<1>3. TypeOK'
  BY <1>1, <1>2 DEF IInv, TypeOK
<1>4. ArchivesRemoved'
  BY <1>1, QuietArchives DEF IInv
<1>5. ~Installing /\ ~toLoad /\ (Installing' <=> Installing)
  BY <1>1 DEF IInv, OneInstallation, Installing
<1>6. /\ UpdateGoesNowhere' /\ NothingDown' /\ VersionIsRight' /\ OneInstallation'
      /\ InstalledIsWhole'
  BY <1>1, <1>5 DEF IInv, UpdateGoesNowhere, NothingDown, VersionIsRight, OneInstallation,
     InstalledIsWhole
<1> QED
  BY <1>3, <1>4, <1>6 DEF IInv

LEMMA ReceiveStep ==
  ASSUME IInv, NEW j \in Jobs, Receive(j) PROVE IInv'
BY CountersStep DEF Receive

LEMMA TimeoutStep ==
  ASSUME IInv, NEW j \in Jobs, Timeout(j) PROVE IInv'
BY CountersStep, GiveUpStep DEF Timeout

LEMMA StutterStep ==
  ASSUME IInv, UNCHANGED vars PROVE IInv'
<1>1. Running' = Running
  BY DEF vars, process, Running, InPhase
<1>2. TypeOK' /\ ArchivesRemoved'
  BY <1>1 DEF IInv, TypeOK, ArchivesRemoved, vars, process, history
<1>3. /\ UpdateGoesNowhere' /\ NothingDown' /\ VersionIsRight' /\ OneInstallation'
      /\ InstalledIsWhole'
  BY DEF IInv, UpdateGoesNowhere, NothingDown, VersionIsRight, OneInstallation,
     InstalledIsWhole, Installing, vars, process, history
<1> QED
  BY <1>2, <1>3 DEF IInv

LEMMA NextInv ==
  ASSUME IInv, [Next]_vars PROVE IInv'
<1>1. CASE NewRelease \/ RemoveOld \/ Launch \/ Crash \/ Collect \/ LoadLibrary \/ Loaded
  BY <1>1, NewReleaseStep, RemoveOldStep, LaunchStep, CrashStep, CollectStep,
     LoadLibraryStep, LoadedStep
<1>2. CASE \E p \in Places : Confirm(p) \/ ListCodecs(p)
  BY <1>2, ConfirmStep, ListCodecsStep
<1>3. CASE \E j \in Jobs : Receive(j) \/ Network(j)
  BY <1>3, ReceiveStep, GiveUpStep, DownloadFinishedStep DEF Network, DownloadFails
<1>4. CASE \E j \in Jobs : Works(j)
  BY <1>4, TimeoutStep, UnpackStep, ExtractedStep, ExtractFailsStep, DestroyStep DEF Works
<1>5. CASE UNCHANGED vars
  BY <1>5, StutterStep
<1> QED
  BY <1>1, <1>2, <1>3, <1>4, <1>5 DEF Next

-----------------------------------------------------------------------------
(* The inductive invariant holds of every behaviour, whatever fairness.    *)
THEOREM Invariance == Spec => []IInv
<1>1. Init => IInv
  BY InitInv
<1>2. IInv /\ [Next]_vars => IInv'
  BY NextInv
<1> QED
  BY <1>1, <1>2, PTL DEF Spec

(* The folder, the downloads and the messages keep their types; a download *)
(* has never counted more at its last look than it has read.               *)
THEOREM TypeCorrect == Spec => []TypeOK
<1>1. IInv => TypeOK
  BY DEF IInv
<1> QED
  BY <1>1, Invariance, PTL

(* "The codec was installed" is said (DownloadablePayloadTypeCore.cpp:81)  *)
(* only when the library on the disk is whole and of the running build,    *)
(* and the version beside it is its own.                                   *)
THEOREM SuccessIsTrue == Spec => []SuccessIsInstalled
<1>1. IInv => SuccessIsInstalled
  BY DEF IInv, InstalledIsWhole, SuccessIsInstalled
<1> QED
  BY <1>1, Invariance, PTL

(* The version file that checkDownloadedCodecsUpdates() trusts is that of  *)
(* the library beside it, until the codec is installed over another.  Of   *)
(* the two disjuncts of VersionTellsLibrary it is the first: no update     *)
(* gets to the disk.                                                       *)
THEOREM VersionIsTold == Spec => []VersionTellsLibrary
<1>1. IInv => VersionTellsLibrary
  BY DEF IInv, VersionIsRight, VersionTellsLibrary
<1> QED
  BY <1>1, Invariance, PTL

(* No archive is removed twice and none is forgotten by the handlers of    *)
(* FileDownloader and FileExtractor: there are as many as downloads that   *)
(* run, and as were lost with their process or their Core.                 *)
THEOREM ArchivesAccounted == Spec => []ArchivesRemoved
<1>1. IInv => ArchivesRemoved
  BY DEF IInv
<1> QED
  BY <1>1, Invariance, PTL
=============================================================================
