# Material Phone: TLA+ specifications

Material Phone is a Linphone desktop client (Qt/C++ and QML) with a PBX panel
added to it. This directory holds TLA+ models of the parts of it that are hard
to test, the TLC configurations that check them, and proofs checked by TLAPS.
Paths below are relative to `src/Linphone/`.

    tlc -workers 2 -config SafeConnection.cfg SafeConnection.tla
    tlapm SafeConnectionProofs.tla

The other modules to check are `MCPbxSession`, `PbxService`, `MCCoreRestart`,
`MCCallList`, `CodecInstall`, `OpenIdConnect` and `AccountList`; the modules with
proofs are those named `...Proofs`.

`PROJECT.json` lists the components, the runs, the hazards, the theorems, and
the source lines of every definition.

## 1. The system

The program has two long-lived threads and a thread pool.

* The **UI thread** runs the Qt event loop, QML, and every `*Core` and `*List`
  object. `App` lives here.
* The **SDK thread** ("linphone thread") runs the linphone library, every
  `*Model` object, `CoreModel` and `CliModel`. Its own event loop iterates the
  linphone core with a timer.
* The **global thread pool** runs the tasks of the PBX panel.

Nothing but `SafeConnection` keeps the two threads' objects apart. A Core that
wants something done by its Model posts a closure to the SDK thread, a Model
that has news posts one to the UI thread; each event loop runs what was posted
to it, in order. Almost every question about this program is a question about
what such a closure finds when it runs at last: which objects are still alive,
and what has changed since it was posted.

| Component | State | Operations | What makes it correct |
|---|---|---|---|
| **Core/Model bridge** `tool/thread` | two weak pointers, their strong upgrades and counts, one lock, on objects two threads destroy | `invokeToModel`, `invokeToCore`, slots, destruction | no call runs on a dead object; every call ends; counts return to zero and the Core is freed |
| **PBX provider** `pbx` | resources, revisions, receipts, events, under one mutex | `execute`, `list_resources`, `read_events`, each with a cancellation token and a deadline | a command with a key takes effect once; no lost update; no silent gap in the events; a refusal changes nothing |
| **PBX panel service** `model/pbx` | busy flag, token, watcher, the result QML shows; an unlocked provider and session used by pool tasks | `refresh`, `cancel`, `applyRefreshResult`, destructor | one task at a time; what is shown is one whole result; refreshes end |
| **Launch and restart** `core/App`, `model/core/CoreModel`, `main` | the linphone core, `mCoreStarted`, `mIsRestarting`, the lists, the main window | `initCore`, `restartCore`, state changes | when quiet the window tells the truth about the core; it comes to rest |
| **Commands** `model/cli` | a priority queue, slots deferred until the core is on | `executeCommand`, `runProcess`, `cli*` handlers | a command runs once, after its configuration, and does what it says |
| **Calls** `core/call`, `model/call` | the list, the current call, `haveCall`, a `CallCore` for each call | `lUpdate`, `callCreated`, state changes, automatic resume | the list shows the live calls and the current one is the active one |
| **Accounts** `core/account`, `core/login`, `core/register` | the account list, its default account, whether it is initialized | `lUpdate`, `setDefaultAccount`, the handlers of `CoreModel`'s signals, login and registration | once nothing is on its way the rows and the default account are the SDK's; the main page comes |
| **OpenID Connect** `model/auth`, `core/App` | the connections, their two minutes, the UI's one refresh timer | the flow's answers, `forceTimeout`, Cancel | a token given is final; every connection ends and the SDK is told; the timer follows the connections |
| **Chat** `core/chat` | rooms, messages, unread counts | loading, sending, marking as read | counts follow the SDK |
| **Conferences** `core/conference`, `core/participant` | participants and devices of the conference shown | `setConferenceCore`, `lUpdateParticipants` | what is shown belongs to the conference shown |
| **Codecs and downloads** `core/payload-type`, `tool/file`, `tool/Utils` | the codecs folder, the downloads and who holds them, the popup, what the SDK has loaded | `downloadAndExtract`, the ends of a download and of an unpacking, `loadLibrary`, `updateCodecs`, `checkDownloadedCodecsUpdates` | a success is a whole library; the version file tells the truth; nothing is left behind; the popup closes |
| **History, friends, settings, recorder** | copies of SDK objects | one bridge call per getter or setter | the copies follow the originals |
| **Notifications** `core/notifier` | at most a few popups on a stack | create, delete | the bound holds, popups leave |
| **List proxies** `core/proxy` | filter and window over a list | paging | each item once |

How they interact: `App` creates `CoreModel` and the lists and connects to
them through the bridge; the lists read the linphone core through the bridge;
`CliModel` asks `App` (a call on the UI thread) for a configuration and
`CoreModel` asks it for the restart; `PbxService` hands the provider's session
to a pool task. What is hard: objects of one thread destroyed while the other
uses them, closures that cross changes of state, restarts of the core while
commands and lists are waiting for it, retries of commands whose answer was
lost, cancellation and deadlines that race completion, bounded logs and
receipts, and the order of signals that are posted one by one. `PROJECT.json`
lists these hazards by line, each with the properties that watch it.

## 2. Modules

| Module | Lines read | Contents |
|---|---|---|
| `ProtectedCalls` | - | abstract promise of the bridge to its callers |
| `SafeConnection` | `SafeConnection.hpp`, `SafeSharedPointer.hpp`, `CallCore.cpp` | the bridge, refines `ProtectedCalls` |
| `SafeConnectionProofs` | | the theorems about it |
| `CommandLedger` | - | abstract promise of a PBX session to those who send commands |
| `PbxSession`, `MCPbxSession` | `simulator_pbx_provider.cpp`, `pbx_provider.cpp` | one session called by several threads, refines `CommandLedger` |
| `PbxSessionProofs` | | the theorems about it |
| `PbxService` | `PbxService.cpp` | the panel, its tasks, `cancel()` and destruction |
| `PbxServiceProofs` | | the theorems about it |
| `CoreRestart`, `MCCoreRestart` | `App.cpp`, `CoreModel.cpp`, `CliModel.cpp`, `main.cpp` | launch, restarts and the commands that wait for them |
| `CoreRestartProofs` | | the theorems about it |
| `CallList`, `MCCallList` | `CallList.cpp`, `CallCore.cpp`, `CallModel.cpp`, `App.cpp` | the list of calls and the current call |
| `CallListProofs` | | the theorems about it |
| `Selections` | - | the elements of a sequence at some of its places, for `PbxSession` and `CallList` |
| `CodecInstall` | `DownloadablePayloadTypeCore.cpp`, `FileDownloader.cpp`, `FileExtractor.cpp`, `PayloadTypeList.cpp`, `ToolModel.cpp`, `Utils.cpp`, `utils.js` | the downloaded codec, from the user's click or a launch to the linphone core |
| `CodecInstallProofs` | | the theorems about it |
| `OpenIdConnect` | `OIDCModel.cpp`, `CoreModel.cpp`, `App.cpp` | single sign-on connections and the timer that shows them |
| `OpenIdConnectProofs` | | the theorems about it |
| `AccountList` | `AccountList.cpp`, `AccountProxy.cpp`, `CoreModel.cpp`, `App.cpp` | the accounts shown and the default one |
| `AccountListProofs` | | the theorems about it |

The conventions are the same everywhere. An action is one closure, or one step
between two points where another thread can interfere: `SafeConnection` splits
`tryLock()` into its two locks, where the other modules take a whole closure of
an event loop at once, because nothing but the loop itself runs on that thread.
Event loops are sequences; a posted closure is a record whose `do` field names
it. History variables, read by no action, say what happened; each module lists
them last. Definitions named `Mut...` are plausible mistakes in the definition
they precede; no action uses them, they are there to show that the properties
notice (see "mutants" in `PROJECT.json`).

**SafeConnection.** `LockCore`, `LockModel`, then `Accept` or `Refuse` are
`tryLock()`; `RunDirectly`, `Post`, `TakeCall`, `Unlock` and `EndCall` are
`invokeToX` and its closure; `CoreSignal`, `ModelSignal` and `NestedCall` are
where calls come from; `DropGui`, `DropKeeper` and `Destroy...` release and
destroy. Losing the last strong pointer *condemns* an object (`deleteLater()`)
and the event loop of its thread destroys it. A slot of a Model signal runs on
the SDK thread with a bare pointer (`phase = "inSlot"`); reading it after the
members are gone is undefined behaviour, modelled by its harmless outcome,
phase `"wild"`, so that what other steps rely on is not hidden.

**PbxSession.** A call is two steps: `Call` checks the context and the request,
then one of `GiveUp`, `ReplayCommand`, `RefuseCommand`, `ApplyCommand`,
`ListResources` and `ReadPage` answers under the mutex. Between the two
`EndContext` may cancel the call or let its deadline pass. `Refusal` lists the
checks of `execute()` in their order. `Payload` is what the event of a command
carries: what the command set, and the number of its receipt under `command_id`
unless the command set an attribute of that name itself.

**PbxService.** `Refresh`, `Cancel`, `ApplyRefreshResult`, `Destroy` and
`Destroyed` on the UI thread; `Begin`, `Open`, `ListResources` and `Finish` on
a pool thread, with a look at the token and the deadline wherever the session
has one. `Expire` is the two seconds.

**CoreRestart.** One action per closure of either event loop. `initCore` blocks
the UI thread (`"waiting"`) until `Start` has run on the SDK thread. The
linphone core is external: it is on at once, or spends a while in
`Configuring`. A command may carry a configuration to fetch, which CliModel
queues as a process of its own with a higher priority. A fetch deferred until
the core is on may find its file or URL gone then (`Choices`), as one made at
once may.

**CallList.** The SDK thread changes calls and posts `setState`, `add`,
`lastCallEnded` and the answer to `lUpdate`; the UI thread runs them. A
`CallCore` is identified by its call and by what made it (`callCreated`, or the
n-th `lUpdate`), since after an update old and new ones listen side by side
until QML's collector takes the old. A restart stops the core in two steps,
`StopCore` and `CoreStopped`, between which the core ends and releases its calls
while the UI thread goes on. `PausedByRemote`, `Updating` and the
states in which nothing differs for the list are left out.

**CodecInstall.** `disk` is the codecs folder, which outlives the process: the
library, an update beside it (`.in`), the version file and the archives. A file
is of a release and whole or not. `RemoveOld` and `Launch` are a start of the
program, in two steps because it may die between them; `Crash` is its end, at
any moment. `Confirm` is the popup of QML; `Receive`, `Timeout`,
`DownloadFails`, `DownloadFinished`, `Unpack`, `Extracted` and `ExtractFails` are
handlers of `FileDownloader` and `FileExtractor`. `held` says who has the last
reference to the Core a download belongs to: its list, QML's collector, or
nobody, in which case `Destroy` takes the download with it. Unpacking blocks
the UI thread (`Free`). The library itself is external: one that is whole loads
or does not, and `loadLibrary()` answers by that alone, whether or not the
linphone core then finds a codec in it.

**OpenIdConnect.** Each request of the SDK is a connection with a `phase`; every
handler is an action named for the answer it handles. `ForceTimeout` and
`StopTimeoutTimer` are the two ways to end, which `CoreModel` and `OIDCModel`
share between them. The deferred deletion is an action of its own (`Delete`),
so that a late answer or a Cancel may come first. The two words posted to the
UI thread, `start` and `stop`, drive one timer for all connections: `dim` and
`reopened`, histories, remember whom the last word left out.

**AccountList.** The handlers of the SDK's signals run on the SDK thread, in
`Add`, `MakeDefault`, `Remove`, `BearerAccountAdded` and `StopCore`: they take a
snapshot, or look for the default account in the rows *of the UI thread*, and
post what they found. `RunUpdate` and `StartCore` are what the UI thread
posted. When the core is on again the list posts a snapshot and `App` calls
`initLists`, in either order: `App` hears of the core first if it was waiting for
one that was configuring, and after `initCore()` otherwise. `InitLists`, `ResetData`, `Reset`, `SetDefaultAccount` and
`NotInitialized` run on the UI thread.

## 3. Runs

| Run | Instance | Distinct states | Shows |
|---|---|---|---|
| `safe_connection` | 3 calls, connection at home on the UI thread | 28,255 | safety of the bridge, every call ends, the Core is freed, `ProtectedCalls` is implemented |
| `safe_connection_slots` | same | (violation) | a slot is not protected |
| `pbx_session` | 2 clients, 7 commands, 3 resources, 2 events, 2 receipts | 71,626 | exactly once, no lost update, events and attributes, pages, `CommandLedger` is implemented |
| `pbx_session_modes` | 2 clients, 3 commands, every failure mode, 4 events, 1 receipt | 34,822 | gaps are told, every call is answered, in every mode |
| `pbx_service` | 5 kinds, 3 refreshes | 138,603 | one task, whole results, no stuck panel |
| `core_restart` | 4 commands, 2 with a configuration | 158,163 | the window follows the core, commands run after their configuration, once, none lost or overtaken |
| `call_list` | 3 calls, 1 restart | 841,633 | list and current call follow the SDK |
| `call_list_closes` | 2 calls | (violation) | `haveCall` is false during the only call |
| `codec_install` | 2 builds, 2 chunks, 2 installations, 2 crashes | 100,126 | success is true, the version file is, archives go, the popup closes |
| `codec_updates` | same | (violation) | an update is aborted as it begins |
| `openid` | 2 requests, 1 Cancel | 112,421 | a grant is final, connections end, the refresh timer follows both connections |
| `account_list` | 3 accounts, 1 restart | 224,460 | rows and default account are the SDK's, the main page comes |

Bounds, and why they are enough:

* *Calls of the bridge: 3.* Two suffice for every pairwise race (one on each
  thread, or one nested in the other); the third lets a race happen while a
  further closure is queued. The theorems of section 5 hold for any number.
* *PBX: `MaxEvents` 2 or 4, `MaxReceipts` 1 or 2* where the code has 4096 of
  each: the bounds are constants of the module, and each run reaches
  them, trims the log and refuses for lack of room. Two clients are every
  pairwise race; three resources, of two kinds, make a page that ends before
  the listing and a command of the wrong kind. The `EventGap` mode needs four
  seeded events. `pbx_session` uses symmetry between clients, and checks safety
  only; `pbx_session_modes`, which checks liveness, does not use symmetry.
* *Refreshes: 3*: a cancelled one, one after it, and one more to meet a session
  that is there already.
* *Commands: 4*, each received once: enough for two overlapping restarts and a
  command caught in the middle of each. Each restart needs a configuration, so
  there are at most two.
* *Call list: 3 calls, 1 restart, `MaxPosted` 1*: the SDK makes no further
  change while two or more closures of the UI thread wait. Three calls are an
  active one, the next and another one to be picked wrongly. The theorems of
  section 5 have none of these bounds.
* *Codec: 2 builds, 2 chunks, 2 installations, 2 crashes*: an update needs a
  second build; a stall after progress needs a second chunk (the first look of
  the timer finds one, the next finds no more); a codec installed again needs a
  second installation; the second crash may meet what the first left.
* *Single sign-on: 2 requests, 1 Cancel*: a connection that ends while another
  begins, and a Cancel posted before either. The posts are not bounded: each
  connection posts a few.
* *Accounts: 3, `MaxPosted` 2, 1 restart*: a default account, the one that
  replaces it, and one more that is not shown yet.


`CHECK_DEADLOCK FALSE` is set where the system may stop for good: all calls
made, every command received, the panel gone.

### Fairness

* Each event loop runs what was posted to it (Qt delivers in order and callables
  return): `WF` of a thread's steps as a whole in `CoreRestart`; in
  `SafeConnection` of each thread's `Progress` and of each deletion.
* A caller of a PBX session gets the mutex in the end, because the holder always
  lets go of it and callers are few: `WF_vars(Proceed(c))`.
* The thread pool runs each task (`WF` of `Task(r)`); `QFutureWatcher` delivers.
* The download of a configuration ends: the SDK bounds it (`Configured`).
* In `CodecInstall` the two event loops go on and bzip2 ends: `WF` of
  `LoadLibrary`, of `Loaded`, and of each download's own steps, its five-second
  timer among them. The network owes nothing: a download that hangs is ended by
  that timer.
* In `OpenIdConnect` only the two-minute timer and the deferred deletion are
  fair (`FairSpec`); in `AccountList` each thread runs what is posted to it.
* Nothing obliges a user, QML's collector, or the other side of a call to act.
  No action has strong fairness, and `CallList` has no fairness at all.

## 4. What the checks found

Most of the properties hold. These do not, each in a run of its own:

1. `SlotProtected`. `SafeConnection` says that it protects sender and receiver
   "while running a signal/call"; slots of Model signals run before any lock is
   taken. `disconnect()` in a Core's destructor cannot close the window: its
   `tryLock()` fails because the Core has expired, and then it disconnects
   nothing.
2. `ClosingWarns`. `haveCall` is computed before the first call is added, so the
   calls window closes without its warning.
3. `UpdatesAreAwaited`. The closure that begins the update of a codec holds the
   only reference to the Core that downloads it: the download is aborted at
   once, at each launch, and an installed codec is never updated.

Met while modelling, part of the models, and without a run of their own:

* The test `event_after_command` requires that the event of a command "must
  reference its receipt" (`src/tester/material-phone-pbx/pbx_provider_tests.cpp:374`).
  `simulator_pbx_provider.cpp:316-318` takes the command's own attributes first
  and emplaces `command_id` among them, which does nothing if the client's
  arguments name an attribute `command_id`: the event then says what the client
  said. `EventsTellEffects` promises the receipt of every other command.
* A command whose configuration cannot be fetched stays in the queue, where the
  log (`CoreModel.cpp:266`) says it was cleaned: `LeftoversExplained` names it.
* Accept and decline received before the core is on are deferred to the
  handler of bye (`CliModel.cpp:213`, `233`). The model does what the code does
  (`Postponed`); no property says that it should.
* The end of one connection stops the refresh timer while the user still waits
  for another (`dim` of `RefreshFollows`), until the next start; and a
  configuration that arrives after a Cancel starts the two minutes of a
  connection that is about to be deleted, so that the refresh timer runs with
  nobody waiting until the next end (`reopened`).
* `loadLibrary()` says `loaded(true)` whether or not `reloadMsPlugins()` found a
  codec in the library (`DownloadablePayloadTypeModel.cpp:45-48`).
* `getNextCall` picks a call that may be ringing or dialling, where its comment
  takes all other calls to be paused (`CallList.cpp:252`).
* A default account set before the UI has its row is shown as none until the
  next snapshot: the `missed` of `DefaultShown`, which demands that no other
  account is shown meanwhile. A bearer account added while a snapshot that
  initializes is on its way does not bring the main page: the `raced` of
  `MainPageComes`, against the comment at `AccountList.cpp:98`. It comes again
  once the lists are initialized again, by a restart.
* A refused authentication, or an error that `requestFailed` does not list,
  ends a connection without `abortAuthentication()` (`silent` in
  `EndsAndTells`); a connection whose reply handler cannot listen (`"deaf"`)
  never ends, and the SDK is not told. `CoreModel` keeps bare pointers to its
  connections (`CoreModel.cpp:428`).
* The main window's list of codecs may be older than an installation made from
  the settings and offer the codec again, over its version file: the `again`
  of `VersionTellsLibrary`. The popup stays open when its Core goes with its
  list in the middle of a download: the exception of `InstallAnswered`.

## 5. Proofs

`SafeConnectionProofs` proves, for every finite set of calls, any home thread
and any two threads:

| Theorem | States |
|---|---|
| `TypeCorrect` | `[]TypeOK` |
| `CountsCorrect` | `[]RefsCountCalls` |
| `Protection` | `[]CallsRunOnLiveObjects` |
| `ConnectionKept` | `[]ConnectionOutlivesCalls` |
| `DestroyedClean` | `[]CleanDestruction` |
| `Refinement` | `Spec => KeepsPromise`, that is `ProtectedCalls!Spec` |

The assumptions are the module's own: the two threads differ and `Calls` is
finite.

The protection property is not inductive: that a callable runs says nothing of
why the objects are there. The inductive invariant `IInv` adds what the code
relies on. `RefsCountCalls` ties each count to the calls that hold the object;
`DataCounted` says that the strong pointer is set exactly when the count is not
zero; `HeldAlive` says that whatever somebody holds is alive; `QueuedOnce` says
that a posted closure is at one place of one queue, without which two loops
could run one closure. From them: a running call counts in both counts, so both
strong pointers are set, so both objects are alive (`Protection`).
`CountMove` and `RefMove` are the arithmetic: how one call that changes phase
changes the cardinality of the set of calls in a set of phases. Each action has
a lemma; actions of the same shape share one (`MoveStep`, `ReleaseStep`,
`LifeStep`).

`DestroyedClean` needs more, since a call inside `tryLock()` holds a count for
a moment without any claim to the connection: `LockInv` says that such a call
is the innermost of the thread that has `mLocker`, and the destructor of the
connection takes that lock.

`PbxServiceProofs` proves, for any number of kinds of resources and of refreshes:

| Theorem | States |
|---|---|
| `TypeCorrect` | `[]TypeOK` |
| `OneTask` | `[]OneTaskAtATime` |
| `SessionOnce` | `[]SessionReused` |
| `WholeShown` | `[]ShownIsWhole` |
| `CancelOwn` | `[]OnlyTheAskedIsCancelled` |
| `CancelStops` | `[]CancelStopsTheTask` |
| `Quiet` | `[]GoneIsQuiet` |

The module's assumption is that there is at least one kind. Again the properties
are not inductive. What makes the panel work, with no lock around the session
its tasks use, is said by `LatestOnly`: the watcher and the token are those of
the latest refresh, every older task is done, and a panel that is not busy has
no task at all; `refresh()` tests `mBusy` and `applyRefreshResult()` clears it
only when `finished()` has come, which is what keeps it true. From it the
destructor's wait for one task is a wait for all (`Quiet`). `TokensOwned`
says that a task holds the token of its own refresh and that a token is
cancelled only by the `cancel()` of that refresh; `OpenedOnce` that a task
that opens a session has found none; `ResultsWhole` that a result is blank
until its task returns it and then is a whole page or an error. The lemmas
`MoveStep` and `ReturnStep` are what all steps of a task have in common.

`PbxSessionProofs` proves, for any clients, commands, resources, modes and
bounds of the stores:

| Theorem | States |
|---|---|
| `TypeCorrect` | `[]TypeOK` |
| `KeysTakeEffectOnce` | `[]ExactlyOnce` |
| `UpdatesAreNotLost` | `[]NoLostUpdate` |
| `EventsAreTheEffects` | `[]EventsTellEffects` |
| `PagesAreSnapshots` | `[]PagesShowTheirSnapshot` |
| `ReadersMissNothing` | `[]NoSilentGap` |
| `SessionIsALedger` | `Spec => KeepsLedger`, that is `CommandLedger!Spec` |

The assumptions are the module's: what the seed is, and that commands carry
arguments of their type. Commands are numbered in the order they took effect.
`InStep` keeps the store and that history in step; `Remembered` and `Numbered`
say that receipts and applied commands name each other, which is why the second
command of a key finds a receipt and takes no effect, whatever room is left;
`Told` carries this to what each client was answered, which outlives the
receipt. `AttributesApplied`, a part of `EventsTellEffects`, is
inductive by itself (`AttributesKept`): each attribute is what the last command
that set it left, so that a refusal or a cancellation, however late, has left
nothing. `EventsKept` says that the retained events are the latest of all, and
`Counted` that there is a receipt for each applied command, which is what the
ledger counts. A page outlives the state it was cut from: `PagesTrue` says of
each answer under way that it is `TrueListing` of a version in the history, or
`TruePage` of the log, and `Continues` that later effects only extend the two.

`OpenIdConnectProofs` proves, for any set of requests and any number of Cancels:

| Theorem | States |
|---|---|
| `TypeCorrect` | `[]TypeOK` |
| `TimerFollows` | `[]RefreshFollows` |
| `GrantFinal` | `Spec => GrantIsFinal` |

`GrantedIsOver` says that a granted connection has no timer and waits for
nothing, so that none of the ways to abort reaches it. For the timer, what
matters is not what the UI thread has been told but what it will have been told
when all posts are taken: `WordIsRight` says of the last word, with any number of
connections under way, that a start was given for one that waits, or that
started again while it was ending (`reopened`), and that whoever waits after a
stop was left out by the end of another (`dim`).

`AccountListProofs` proves, for any accounts and bounds:

| Theorem | States |
|---|---|
| `TypeCorrect` | `[]TypeOK` |
| `RowsAreTheAccounts` | `[]RowsMatch` |
| `DefaultIsShown` | `[]DefaultShown` |

It is the same idea with snapshots: the last one on its way, or else what is
shown, is the state of the core, unless another is about to be taken
(`Coming`), because every handler that changes the accounts posts one, in
order, and the restart, which empties the rows without saying so, asks for one.

`CodecInstallProofs` proves, for any number of builds, chunks, installations and
crashes:

| Theorem | States |
|---|---|
| `TypeCorrect` | `[]TypeOK` |
| `SuccessIsTrue` | `[]SuccessIsInstalled` |
| `VersionIsTold` | `[]VersionTellsLibrary` |
| `ArchivesAccounted` | `[]ArchivesRemoved` |

There is no lock around the codecs folder. `OneInstallation` says what there is
instead: the modal popup is up from the confirmation to the last message of an
installation, so that one installation at a time writes the folder and what is
posted is of that one. `UpdateGoesNowhere` is the third finding of section 4 as
an invariant: as the code stands no update reaches the disk, so the branch of
`VersionTellsLibrary` for a downloaded update is never needed, and an update
never competes with an installation. `VersionIsRight` adds that an installation
under way has found no version file, which is what makes its intermediate
states harmless.

`CallListProofs` proves, for any calls, any number of restarts and event loops
of any length:

| Theorem | States |
|---|---|
| `TypeCorrect` | `[]TypeOK` |
| `ListShowsTheCalls` | `[]ListShowsCalls` |
| `CurrentIsActive` | `[]CurrentFollowsActive` |

The assumptions are that a session has finitely many calls, and what the bounds
are. Both properties speak of a moment when nothing waits, and are far from
inductive: while closures wait, the list lags behind the calls by any number of
changes, and old and new CallCores of a call hear of the same change. `View`
says what the list *will* show. Once `lUpdate()` has run (`UpToDate`), look at
the last reset that waits, or at the list if none does: its CallCores, with
those added after it, are what the list will be (`Shows`, `Ahead`). That list
has every live call, oldest first; a released call only if its release is still
to be told; and only the newest CallCore of each call. The CallCore of the
active call will be the current one (`WillBeCurrent`): an event for it waits
and nothing after it moves the current call (`Answers`), or it is what the list
starts with and nothing at all moves it.

Three things keep that true. Each CallCore hears of each change of its call, in
turn, and never of the same state twice (`Told`), so that `isNew` in
`RunSetState` never drops the event that counts. No CallCore is told anything
before it is listed (`Placed`), so that `onStateChanged` does not miss it in the
list. And the events of one change are posted to the CallCores of a call oldest
first, so that the newest, which is the one listed (`Newest`), speaks last: an
old CallCore that becomes active sets the current call to none, and the new one
sets it right. `Chain` is the restart: the closures that empty the list, start
the core, and ask for the calls again exclude each other, so that no answer to
an `lUpdate()` from before a restart is the last one. `Steps` reduces the
actions to a few shapes; a change of calls, whoever makes it, is
`Speaks`, what it posts.

`CoreRestartProofs` proves, for any commands, of any kinds, with or without a
configuration:

| Theorem | States |
|---|---|
| `TypeCorrect` | `[]TypeOK` |
| `WindowFollows` | `[]UiFollowsCore` |
| `AbandonedByOverlap` | `[]OnlyOverlapsAbandon` |
| `ArgumentsComeFirst` | `[]ArgumentsFirst` |
| `NeverTwice` | `[]PerformedOnce` |
| `NoneLostNorOvertaken` | `[]CommandsKept` |
| `LeftForFetches` | `[]LeftoversExplained` |

The assumption is what a command is. A restart is spread over two event loops
and a blocked thread, and no variable says how far it has come. `StartsOnce`,
`CoreReturns` and `RestartEnds` say instead that it is always somewhere, as a
closure that asks for its next step: a core that is off has a `coreStopped` on
its way or an `initCore` that waits, so two empty loops mean a core that is on.
`Synchronized` is about the last word posted to the UI thread, as in
`OpenIdConnect`: it is the state of the core unless that core is being replaced
(`Replaced`). `OneRestart` says what holds only without overlap: the steps of a
restart exclude each other, so the core that `Start` replaces is off. For the
commands, `OnePlace` says that each is at one place (message, queue, deferred
slot, performed) and moves one way only. Has, Once and Tells, what an event loop
contains, and how appending and taking the head change it, are proved once
at the top.

`LeftForFetches` rests on a count. When an argument is taken in place of a
command, one more process stays in the queue, and one more fetch is under way:
in a deferred slot, as a closure of either loop, as a step of the restart it
asked for, or as the `sendCommand` of a UI thread that is blocked meanwhile.
`Ways` adds these places up, and `FetchesAccounted` says that the queue is never
longer than the fetches that led nowhere and those under way. Every step but
three moves one way to another place; `SetFetchConfig` may end one, `RunProcess`
ends one and takes a process, `ExecuteCommand` adds one for the process it
leaves. The lemmas on `Count` are the bijections behind these sums.

`NoneLostNorOvertaken` needs no more than itself and that nothing waits in a slot
while the core is on (`KeptInv`): whoever leaves the queue is put at the end of
what was performed or of what waits, and the change to On performs all that
waits, in its order.

Some theorems are about properties no run checks any more, because they hold
for every value of the constants by their proofs: `TypeCorrect` and
`ConnectionKept` of `SafeConnection`; `TypeCorrect`, `SessionOnce`, `CancelOwn`
and `Quiet` of `PbxService`; `TypeCorrect` of `PbxSession` and of `CoreRestart`.

Only model-checked: liveness (`CallsComplete`, `CoreEventuallyFreed`,
`EveryCallAnswered`, `RefreshEnds`, `ComesToRest`, `InstallAnswered`,
`EndsAndTells` and `MainPageComes`), because the prover has no `ENABLED`. Every
invariant and every other action property that a passing run checks is proved.
What the code selects from a sequence is written with `Selections` rather than
with the library's `SelectSeq`, which is defined by induction and about which
nothing can be proved here: `Picked` takes a set of places, and that it keeps
their order follows from counting them.

## 6. Not modelled, and why

* Inside the linphone library: calls, downloads of configurations and
  registrations are external, taken from what the code does with them.
* Vendored code (`core/singleapplication`), QML presentation, and calls of
  operating system services.
* `data/languages/*.ts`, 156,000 lines and almost every file of the repository
  that ends in `.ts`: Qt's translation tables, data without behaviour. The
  program is the C++ and QML beside them.
* `src/site/app.ts`, the project's web page: preferences kept in the browser's
  local storage, a command palette and a regex builder on one browser thread,
  apart from the phone. Read and noted: the range sliders say "Site preference
  saved locally" on `change` even when the write was refused on `input`
  (`app.ts:321-324`, against `docs/site/settings.md`), and *Reset* forgets the
  regex of the settings filter without filtering again (`app.ts:364`).
* Formatting, parsing and translation; the parser of command lines and URIs.
* Quitting (`App::clean`) and the listeners of `CoreModel` that only forward.
* In `CallList`: merging calls into a conference, `haveNonAdminMeeting`, which
  only conferences set, and the filter of `CallProxy`.
* Conferences and participants. What `ParticipantList` should show depends on
  the SDK's conference objects, of which the code here says little. Read and
  noted for whoever models it: `addAddress` creates its `ParticipantCore` without
  `setSelf`, so that its invitation timeout never fires; a null current call
  leaves the list with the conference it had.
* Account settings (`AccountCore`), login, and the creation of an account
  (`AccountManager`, `RegisterPage`): bridge calls, and requests that the SDK
  answers once.
* Of downloads: `synchronousDownload`, which nothing calls, and bzip2 fetched on
  Windows. Of codecs: enabling them, their order and their bitrate.
* Chat, history, friends, search, settings, recorder: copies of SDK objects kept
  by the closures that `CallList` and `AccountList` model, with no protocol of
  their own. The recorder answers on the wrong thread (`RecorderCore.cpp:76`),
  which needs no model to be seen.
* Memory order: `mIsRestarting` is written by both threads without a lock; the
  model takes writes as atomic, in the order of the steps.

## 7. What remains

In order of importance:

1. *Conferences*: `ParticipantList`, whose answer may belong to the conference
   shown before, over a small model of the SDK's conferences.
2. *Quitting* in `CoreRestart`: `clean()` runs an event loop after the engine is
   gone.
3. *Notifier* and *list proxies*: the bounded stack, and paging as a pure
   algorithm against a reference definition.

An abstract specification worth stating with them: a list that mirrors a source
seen through a queue of changes, which `CallList`, `AccountList` and
`ParticipantList` should each implement.
