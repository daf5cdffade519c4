---------------------------- MODULE CodecInstall ----------------------------
(***************************************************************************)
(* The H264 codec: downloaded, unpacked and loaded at the user's request   *)
(* (QML, DownloadablePayloadTypeCore, FileDownloader, FileExtractor),      *)
(* looked for at each launch (App::initCore, ToolModel), and brought up to *)
(* date when the program was built with another address                    *)
(* (Utils::checkDownloadedCodecsUpdates).                                  *)
(*                                                                         *)
(* Everything but the loading runs on the UI thread: the network's         *)
(* signals, the timers, the unpacking, which blocks it.  The process may   *)
(* die at any moment; the codecs folder stays.                             *)
(***************************************************************************)
EXTENDS Naturals, FiniteSets

CONSTANTS MaxRelease,    \* builds of the program, each with its own address
          MaxChunks,     \* pieces in which an archive arrives
          MaxInstalls,   \* installations the user confirms
          MaxCrashes     \* times the process dies or is quit

ASSUME CodecAssumption ==
  /\ MaxRelease \in Nat \ {0}
  /\ MaxChunks \in Nat /\ MaxInstalls \in Nat /\ MaxCrashes \in Nat

\* The two lists that offer the codec, and the two downloads there can be.
Places == {"main", "settings"}
Jobs == {"install", "update"}
Releases == 0 .. MaxRelease          \* 0: nothing

VARIABLES
  release,     \* the address this build downloads from
  disk,        \* the codecs folder
  app,         \* the process: "down", "updating" (in updateCodecs), "up"
  loaded,      \* what the linphone core has loaded in this process
  offered,     \* the lists that show the codec as one to download
  job,         \* the downloads
  held,        \* who holds the Core of each
  place,       \* the list the user chose the codec from
  popup,       \* the modal popup of the main window
  toLoad,      \* a loadLibrary() is posted to the SDK thread
  told,        \* its result is posted to the UI thread
  installs, crashes,    \* bounds of the runs
  lost, again  \* history: archives nobody is left to remove; the codec was
               \* installed again over a version that was there

process == <<app, loaded, offered, job, held, place, popup, toLoad, told>>
history == <<installs, crashes, lost, again>>
vars == <<release, disk, process, history>>

\* A file holds a release, whole or not.
File == [of : Releases, whole : BOOLEAN]
NoFile == [of |-> 0, whole |-> FALSE]
Whole(r) == [of |-> r, whole |-> TRUE]
Part(r) == [of |-> r, whole |-> FALSE]

NoJob == [phase |-> "none", read |-> 0, seen |-> 0]
MutReceiving == [phase |-> "receiving", read |-> 0, seen |-> 1]
Receiving == [phase |-> "receiving", read |-> 0, seen |-> 0]
InPhase(phase) == {j \in Jobs : job[j].phase = phase}
Running == InPhase("receiving") \cup InPhase("extracting") \cup InPhase("unpacking")

\* Types.
TypeOK ==
  /\ release \in Releases \ {0}
  /\ disk \in [lib : File, new : File, version : Releases, archives : Nat]
  /\ app \in {"down", "updating", "up"}
  /\ loaded \in Releases
  /\ offered \in SUBSET Places
  /\ job \in [Jobs -> [phase : {"none", "receiving", "extracting", "unpacking", "over"},
                       read : 0 .. MaxChunks, seen : 0 .. MaxChunks]]
  /\ held \in [Jobs -> {"list", "qml", "nobody"}]
  /\ place \in Places
  /\ popup \in {"none", "loading"}
  /\ toLoad \in BOOLEAN
  /\ told \in {"nothing", "loaded", "failed"}
  /\ installs \in 0 .. MaxInstalls /\ crashes \in 0 .. MaxCrashes
  /\ lost \in Nat /\ again \in BOOLEAN
  /\ \A j \in Jobs : job[j].seen <= job[j].read

Init ==
  /\ release = 1
  /\ disk = [lib |-> NoFile, new |-> NoFile, version |-> 0, archives |-> 0]
  /\ app = "down" /\ loaded = 0 /\ offered = {}
  /\ job = [j \in Jobs |-> NoJob] /\ held = [j \in Jobs |-> "nobody"]
  /\ place = "main" /\ popup = "none" /\ toLoad = FALSE /\ told = "nothing"
  /\ installs = 0 /\ crashes = 0 /\ lost = 0 /\ again = FALSE

-----------------------------------------------------------------------------
(***************************************************************************)
(* The process.                                                            *)
(***************************************************************************)

\* Another build, with another address, is installed.
NewRelease ==
  /\ app = "down" /\ release < MaxRelease
  /\ release' = release + 1
  /\ UNCHANGED <<disk, process, history>>

\* updateCodecs() removes the library that a downloaded update replaces ...
RemoveOld ==
  /\ app = "down"
  /\ app' = "updating"
  /\ disk' = IF disk.new = NoFile THEN disk ELSE [disk EXCEPT !.lib = NoFile]
  /\ UNCHANGED <<release, loaded, offered, job, held, place, popup, toLoad, told, history>>

Renamed == IF disk.new = NoFile THEN disk
           ELSE [disk EXCEPT !.lib = disk.new, !.new = NoFile]

\* What may be loaded after loadDownloadedCodecs() or loadLibrary(): a library
\* that is not whole does not load, any may fail to, and one that is stays.
Loadable(files) == {loaded} \cup (IF loaded = 0 /\ files.lib.whole THEN {files.lib.of} ELSE {})

ShouldDownloadUpdate(files) ==
  /\ files.version # 0 \/ files.lib # NoFile
  /\ files.version # release

\* The closure that begins the download of an update held the only reference to
\* its Core.
MutUpdateHolder == "list"
UpdateHolder == "nobody"

\* ... and renames it; the codecs are loaded, the main window lists them, and
\* the update, if there is one, begins (or fails to open its file).
Launch ==
  /\ app = "updating"
  /\ app' = "up"
  /\ loaded' \in Loadable(Renamed)
  /\ offered' = IF loaded' = 0 THEN {"main"} ELSE {}
  /\ \/ /\ ShouldDownloadUpdate(Renamed)
        /\ job' = [job EXCEPT !["update"] = Receiving]
        /\ held' = [held EXCEPT !["update"] = UpdateHolder]
        /\ disk' = [Renamed EXCEPT !.archives = @ + 1]
     \/ disk' = Renamed /\ UNCHANGED <<job, held>>
  /\ UNCHANGED <<release, place, popup, toLoad, told, history>>

\* Where a job unpacks: an update beside the library, under another name.
Put(j, file) == IF j = "install" THEN [disk EXCEPT !.lib = file]
                                 ELSE [disk EXCEPT !.new = file]

\* The process dies, or is quit.  The archives of its downloads stay; of an
\* unpacking, what bzip2 has made of it, or will, being a process of its own.
Crash ==
  /\ app # "down" /\ crashes < MaxCrashes
  /\ app' = "down" /\ loaded' = 0 /\ offered' = {}
  /\ job' = [j \in Jobs |-> NoJob] /\ held' = [j \in Jobs |-> "nobody"]
  /\ place' = "main" /\ popup' = "none" /\ toLoad' = FALSE /\ told' = "nothing"
  /\ crashes' = crashes + 1
  /\ lost' = lost + Cardinality(Running)
  /\ disk' \in {disk} \cup {Put(j, f) : j \in InPhase("unpacking"), f \in {NoFile, Whole(release)}}
  /\ UNCHANGED <<release, installs, again>>

-----------------------------------------------------------------------------
(***************************************************************************)
(* A download.                                                             *)
(***************************************************************************)

\* The UI thread is there, and not waiting for bzip2.
Free == app = "up" /\ InPhase("unpacking") = {}

\* The network has something to say of a download.  An update whose Core is
\* nobody's is destroyed first: the deletion was posted before the request.
Heard(j) == Free /\ job[j].phase = "receiving" /\ (j = "install" \/ held[j] # "nobody")

Goes(j, phase) == job' = [job EXCEPT ![j].phase = phase]

\* The archive of a download is removed from what is on the disk.
Cleared(files) == [files EXCEPT !.archives = @ - 1]

\* downloadError(), extractError(): QML closes the popup of an installation.
Tell(j) == popup' = IF j = "install" THEN "none" ELSE popup

\* The user confirms the download a list offers.  The file may be impossible
\* to open, which ends it at once.
Confirm(p) ==
  /\ Free /\ popup = "none" /\ p \in offered
  /\ installs < MaxInstalls /\ installs' = installs + 1
  /\ again' = (again \/ disk.version # 0)
  /\ \/ /\ popup' = "loading" /\ place' = p
        /\ held' = [held EXCEPT !["install"] = "list"]
        /\ job' = [job EXCEPT !["install"] = Receiving]
        /\ disk' = [disk EXCEPT !.archives = @ + 1]
     \/ UNCHANGED <<popup, place, held, job, disk>>
  /\ UNCHANGED <<release, app, loaded, offered, toLoad, told, crashes, lost>>

\* Data arrives, is written, and is counted.
Receive(j) ==
  /\ Heard(j) /\ job[j].read < MaxChunks
  /\ job' = [job EXCEPT ![j].read = @ + 1]
  /\ UNCHANGED <<release, disk, app, loaded, offered, held, place, popup, toLoad,
                 told, history>>

\* A download ends badly: its file is removed, and the reason told.
GiveUp(j) ==
  /\ Goes(j, "over") /\ Tell(j) /\ disk' = Cleared(disk)
  /\ UNCHANGED <<release, app, loaded, offered, held, place, toLoad, told, history>>

\* An error of the network or of a write, a redirection, or a bad checksum.
DownloadFails(j) == Heard(j) /\ GiveUp(j)

MutStalled(j) == job[j].read = 0 /\ job[j].seen = 0
Stalled(j) == job[j].read = job[j].seen

\* Every five seconds: a download that has not moved is aborted.
Timeout(j) ==
  /\ Heard(j)
  /\ \/ Stalled(j) /\ GiveUp(j)
     \/ /\ ~Stalled(j)
        /\ job' = [job EXCEPT ![j].seen = job[j].read]
        /\ UNCHANGED <<release, disk, app, loaded, offered, held, place, popup,
                       toLoad, told, history>>

\* The download is finished and its checksum is right: extract() removes the
\* file it is to make, or fails, and starts a timer.
DownloadFinished(j) ==
  /\ Heard(j)
  /\ \/ /\ Goes(j, "extracting") /\ disk' = Put(j, NoFile)
        /\ UNCHANGED <<release, app, loaded, offered, held, place, popup, toLoad,
                       told, history>>
     \/ GiveUp(j)

\* handleExtraction() runs bzip2 and waits for it.
Unpack(j) ==
  /\ Free /\ job[j].phase = "extracting"
  /\ Goes(j, "unpacking") /\ disk' = Put(j, Part(release))
  /\ UNCHANGED <<release, app, loaded, offered, held, place, popup, toLoad, told, history>>

\* bzip2 has succeeded: the version file is written, the archive removed, and
\* the library is to be loaded.  (That of an update has a name which cannot.)
MutExtracted(j) ==
  /\ job[j].phase = "unpacking"
  /\ Goes(j, "over")
  /\ disk' = Cleared(Put(j, Whole(release)))
  /\ toLoad' = (toLoad \/ j = "install")
  /\ UNCHANGED <<release, app, loaded, offered, held, place, popup, told, history>>
Extracted(j) ==
  /\ job[j].phase = "unpacking"
  /\ Goes(j, "over")
  /\ disk' = Cleared([Put(j, Whole(release)) EXCEPT !.version = release])
  /\ toLoad' = (toLoad \/ j = "install")
  /\ UNCHANGED <<release, app, loaded, offered, held, place, popup, told, history>>

\* bzip2 has failed and removed what it made; or the version file cannot be
\* opened; or it cannot be written, and goes with the library.
MutFailures(j) == {Put(j, NoFile), Put(j, Whole(release)),
                   [Put(j, NoFile) EXCEPT !.version = release]}
Failures(j) == {Put(j, NoFile), Put(j, Whole(release)),
                [Put(j, NoFile) EXCEPT !.version = 0]}

ExtractFails(j) ==
  /\ job[j].phase = "unpacking"
  /\ Goes(j, "over") /\ Tell(j)
  /\ \E files \in Failures(j) : disk' = Cleared(files)
  /\ UNCHANGED <<release, app, loaded, offered, held, place, toLoad, told, history>>

-----------------------------------------------------------------------------
(***************************************************************************)
(* The Core of a download, and the lists.                                  *)
(***************************************************************************)

\* PayloadTypeList::lUpdate: when its list is made, when a configuration has
\* been fetched, and when a codec was installed from the settings.  New Cores
\* replace the old ones.
ListCodecs(p) ==
  /\ Free
  /\ loaded' \in Loadable(disk)
  /\ offered' = IF loaded' = 0 THEN offered \cup {p} ELSE offered \ {p}
  /\ held' = IF place = p /\ held["install"] = "list"
               THEN [held EXCEPT !["install"] = "qml"] ELSE held
  /\ UNCHANGED <<release, disk, app, job, place, popup, toLoad, told, history>>

\* QML's collector takes the last reference to a Core its list has dropped.
Collect ==
  /\ Free /\ held["install"] = "qml" /\ ~toLoad
  /\ held' = [held EXCEPT !["install"] = "nobody"]
  /\ UNCHANGED <<release, disk, app, loaded, offered, job, place, popup, toLoad,
                 told, history>>

\* abort() in the destructor of the FileDownloader reaches handleError().
MutAborted(files) == files
Aborted(files) == Cleared(files)

\* The Core is destroyed, and with it the FileDownloader, whose destructor
\* aborts what it receives, and the FileExtractor.  Nobody is connected to the
\* Core any more, so nobody is told.
Destroy(j) ==
  /\ Free /\ held[j] = "nobody"
  /\ \/ job[j].phase = "receiving" /\ disk' = Aborted(disk) /\ lost' = lost
     \/ job[j].phase = "extracting" /\ disk' = disk /\ lost' = lost + 1
  /\ Goes(j, "over")
  /\ UNCHANGED <<release, app, loaded, offered, held, place, popup, toLoad, told,
                 installs, crashes, again>>

\* DownloadablePayloadTypeModel::loadLibrary() on the SDK thread.  The answer is
\* that of library.load(); whether reloadMsPlugins() then finds a codec in the
\* library is not looked at.
LoadLibrary ==
  /\ app = "up" /\ toLoad
  /\ toLoad' = FALSE
  /\ \/ disk.lib.whole /\ told' = "loaded" /\ loaded' \in Loadable(disk)
     \/ told' = "failed" /\ UNCHANGED loaded
  /\ UNCHANGED <<release, disk, app, offered, job, held, place, popup, history>>

\* QML is told how it went.  (Success reloads the lists of the settings.)
Loaded ==
  /\ Free /\ told # "nothing"
  /\ told' = "nothing" /\ popup' = "none"
  /\ offered' = IF told = "loaded" /\ place = "settings" THEN offered \ {"settings"} ELSE offered
  /\ UNCHANGED <<release, disk, app, loaded, job, held, place, toLoad, history>>

Network(j) == DownloadFails(j) \/ DownloadFinished(j)
Works(j) == Timeout(j) \/ Unpack(j) \/ Extracted(j) \/ ExtractFails(j) \/ Destroy(j)

Next ==
  \/ NewRelease \/ RemoveOld \/ Launch \/ Crash \/ Collect \/ LoadLibrary \/ Loaded
  \/ \E p \in Places : Confirm(p) \/ ListCodecs(p)
  \/ \E j \in Jobs : Receive(j) \/ Network(j) \/ Works(j)

\* The event loops go on and bzip2 ends.  Nothing obliges the network, a user,
\* the collector or the end of the process.
Spec == Init /\ [][Next]_vars /\ WF_vars(LoadLibrary) /\ WF_vars(Loaded)
             /\ \A j \in Jobs : WF_vars(Works(j))

-----------------------------------------------------------------------------
(***************************************************************************)
(* Properties.                                                             *)
(***************************************************************************)

\* When the user is told that the codec was installed it is: after stalls,
\* crashes and new builds, the library is whole and of the running build, and
\* so says the version beside it.  (Not that the linphone core has the codec:
\* loadLibrary() does not look.)
SuccessIsInstalled ==
  told = "loaded" => disk.lib = Whole(release) /\ disk.version = release

\* The version file, which decides whether to look for an update, tells the
\* truth about the library through crashes, failures and new releases, as long
\* as the codec is not installed again over a version that is there.
VersionTellsLibrary ==
  ~again /\ disk.version # 0 /\ app # "updating" =>
     \/ disk.lib = Whole(disk.version)
     \/ disk.new = Whole(disk.version)

\* Every archive is removed when its download or its unpacking ends, however
\* it ends; what is left was lost with the process, or with a Core destroyed
\* between the two.
ArchivesRemoved == disk.archives = Cardinality(Running) + lost

\* The popup of an installation, which has no button, is closed in the end,
\* unless the Core that would close it went with its list.
InstallAnswered ==
  popup = "loading" ~> (popup = "none" \/ held["install"] = "nobody")

\* "Updates are downloaded with .in suffix as they can't overwrite already
\* loaded plugin they are loaded at next app startup" (ToolModel.cpp:631-633):
\* an update that is being downloaded is given up only for a reason of its own,
\* and not because nobody is left to wait for it.
UpdatesAreAwaited ==
  [][job["update"].phase = "receiving" /\ app' = "up" /\ job'["update"].phase = "over"
       => held["update"] # "nobody"]_vars

=============================================================================
