----------------------------- MODULE CoreRestart ----------------------------
(***************************************************************************)
(* Launching and restarting the linphone core, and the commands that wait   *)
(* for it.  Sources: Linphone/core/App.cpp, Linphone/model/core/CoreModel,  *)
(* Linphone/model/cli/CliModel, Linphone/main.cpp.                          *)
(*                                                                          *)
(* The UI thread and the SDK thread each run the closures posted to their   *)
(* event loop in order, one at a time.  A command line, a URI or the QML    *)
(* pages hand commands to CliModel; a command may carry a configuration to  *)
(* fetch, which runs first and restarts the core, and "Run waiting process" *)
(* after the restart resumes the rest.  The linphone core itself is         *)
(* external: it starts at once or spends a while in Configuring.            *)
(***************************************************************************)
EXTENDS Naturals, Sequences, FiniteSets

CONSTANTS
  Commands,    \* ids of the commands received in the session, each once
  MainOf,      \* what each asks for
  WithFetch    \* the commands that carry a fetch-config argument

Kinds == {"show", "call", "bye", "accept", "decline", "fetch-config"}

ASSUME CommandsAssumption ==
  IsFiniteSet(Commands) /\ WithFetch \subseteq Commands /\ MainOf \in [Commands -> Kinds]

VARIABLES
  \* The UI thread (App).
  main,          \* main() is in its "launch" or in exec(), the "loop"
  initCore,      \* initCore(), which blocks: "idle", "waiting" or "returned"
  uiLoop,        \* closures posted to the UI thread
  coreStarted,   \* mCoreStarted
  lists,         \* mAccountList, mCallList...: "none", "reset" or "filled"
  awaiting,      \* initLists is connected to coreStartedChanged
  window,        \* mMainWindow is set
  applies,       \* commands whose configuration waits for mainWindowChanged
  \* The SDK thread (CoreModel, CliModel).
  sdkLoop,       \* closures posted to the SDK thread
  core,          \* mCore's global state: "none", "Configuring", "On" or "Off"
  queue,         \* mQueue, as a set: std::sort may leave equals in any order
  deferred,      \* single-shot slots connected to globalStateChanged, in order,
  fetches,       \* and those that fetch a configuration, which they post
  \* Written by both.
  restarting,    \* mIsRestarting
  \* History variables, read by the properties only.
  received,      \* commands that arrived
  taken,         \* processes that left the queue, in order
  performed,     \* what was done to calls, in order
  fruitless,     \* fetches that led to no restart
  overlapped,    \* a restart was asked for while another was under way
  abandoned      \* cores that were replaced without having been stopped

ui      == <<main, initCore, coreStarted, lists, awaiting, window, applies>>
sdk     == <<core, queue, deferred, fetches>>
history == <<received, taken, performed, fruitless, overlapped, abandoned>>
vars    == <<ui, uiLoop, sdk, sdkLoop, restarting, history>>

\* Closures.
Do(what)           == [do |-> what]
SetCoreStarted(on) == [do |-> "setCoreStarted", on |-> on]
ForCommand(what,c) == [do |-> what, cmd |-> c]

Init ==
  /\ main = "launch" /\ initCore = "idle" /\ coreStarted = FALSE
  /\ lists = "none" /\ awaiting = FALSE /\ window = FALSE /\ applies = <<>>
  /\ uiLoop = <<>> /\ sdkLoop = <<>>
  /\ core = "none" /\ queue = {} /\ deferred = <<>> /\ fetches = <<>>
  /\ restarting = FALSE
  /\ received = {} /\ taken = <<>> /\ performed = <<>> /\ fruitless = 0
  /\ overlapped = FALSE /\ abandoned = 0

-----------------------------------------------------------------------------
\* The UI thread.

InitCore ==
  /\ initCore' = "waiting"
  /\ sdkLoop' = Append(sdkLoop, Do("start"))

\* main() starts the core first.
Launch ==
  /\ main = "launch" /\ initCore = "idle"
  /\ InitCore
  /\ UNCHANGED <<main, coreStarted, lists, awaiting, window, applies, uiLoop, sdk, restarting, history>>

\* setSelf(): App connects to CoreModel, and asks for the state it missed.
MutSynchronize == <<>>
Synchronize == <<Do("synchronize")>>

ConnectModels ==
  /\ main = "launch" /\ initCore = "returned"
  /\ main' = "loop" /\ initCore' = "idle"
  /\ sdkLoop' = sdkLoop \o Synchronize
  /\ UNCHANGED <<coreStarted, lists, awaiting, window, applies, uiLoop, sdk, restarting, history>>

\* After a restart: sendCommand(false), "Run waiting process".
MutWaitingProcess == <<>>
WaitingProcess == <<Do("runProcess")>>

SendCommand ==
  /\ main = "loop" /\ initCore = "returned"
  /\ initCore' = "idle"
  /\ sdkLoop' = sdkLoop \o WaitingProcess
  /\ UNCHANGED <<main, coreStarted, lists, awaiting, window, applies, uiLoop, sdk, restarting, history>>

\* A command of the command line, of another instance or of a QML page.
ReceivedMessage(c) ==
  /\ main = "loop" /\ initCore = "idle"
  /\ c \notin received
  /\ received' = received \cup {c}
  /\ sdkLoop' = Append(sdkLoop, ForCommand("executeCommand", c))
  /\ UNCHANGED <<ui, uiLoop, sdk, restarting, taken, performed, fruitless, overlapped, abandoned>>

UiRuns(what) ==
  /\ main = "loop" /\ initCore = "idle"
  /\ uiLoop # <<>> /\ Head(uiLoop).do = what
  /\ uiLoop' = Tail(uiLoop)

\* initLists(), called when the core is on, or on coreStartedChanged.
InitLists(on) == /\ lists' = IF on THEN "filled" ELSE IF lists = "none" THEN "none" ELSE "reset"
                 /\ awaiting' = (awaiting /\ ~on)

ChangeCoreStarted(on) ==
  /\ coreStarted' = on
  /\ IF awaiting /\ on # coreStarted THEN InitLists(on) ELSE UNCHANGED <<lists, awaiting>>

RunSetCoreStarted ==
  /\ UiRuns("setCoreStarted")
  /\ ChangeCoreStarted(Head(uiLoop).on)
  /\ UNCHANGED <<main, initCore, window, applies, sdk, sdkLoop, restarting, history>>

\* The closure that initCore() posts from the SDK thread.  Loading the main
\* window ends in another closure.
CreateUi ==
  /\ main = "loop" /\ initCore = "idle"
  /\ uiLoop # <<>> /\ Head(uiLoop).do = "createUi"
  /\ uiLoop' = IF window THEN Tail(uiLoop) ELSE Append(Tail(uiLoop), Do("setMainWindow"))
  /\ IF coreStarted THEN InitLists(TRUE) ELSE awaiting' = TRUE /\ UNCHANGED lists
  /\ UNCHANGED <<main, initCore, coreStarted, window, applies, sdk, sdkLoop, restarting, history>>

SetMainWindow ==
  /\ UiRuns("setMainWindow")
  /\ window' = TRUE
  /\ applies' = <<>>
  /\ sdkLoop' = sdkLoop \o [i \in DOMAIN applies |-> ForCommand("setFetchConfig", applies[i])]
  /\ UNCHANGED <<main, initCore, coreStarted, lists, awaiting, sdk, restarting, history>>

RequestFetchConfig ==
  /\ UiRuns("requestFetchConfig")
  /\ LET c == Head(uiLoop).cmd IN
       IF window
       THEN sdkLoop' = Append(sdkLoop, ForCommand("setFetchConfig", c)) /\ UNCHANGED applies
       ELSE applies' = Append(applies, c) /\ UNCHANGED sdkLoop
  /\ UNCHANGED <<main, initCore, coreStarted, lists, awaiting, window, sdk, restarting, history>>

\* A restart is under way: from restartCore() to the new core.
UnderWay == \/ \E i \in DOMAIN sdkLoop : sdkLoop[i].do \in {"stop", "start"}
            \/ \E i \in DOMAIN uiLoop : uiLoop[i].do = "coreStopped"

\* restartCore()
MutRestartCoreAtOnce ==
  /\ main = "loop" /\ initCore = "idle"
  /\ uiLoop # <<>> /\ Head(uiLoop).do = "restartCore"
  /\ uiLoop' = Append(Tail(uiLoop), Do("coreStopped"))
  /\ restarting' = TRUE
  /\ overlapped' = (overlapped \/ UnderWay)
  /\ UNCHANGED <<ui, sdk, sdkLoop, received, taken, performed, fruitless, abandoned>>

RestartCore ==
  /\ UiRuns("restartCore")
  /\ restarting' = TRUE
  /\ sdkLoop' = Append(sdkLoop, Do("stop"))
  /\ overlapped' = (overlapped \/ UnderWay)
  /\ UNCHANGED <<ui, sdk, received, taken, performed, fruitless, abandoned>>

\* The core has stopped: resets what it fed, then starts it again.
CoreStopped ==
  /\ UiRuns("coreStopped")
  /\ coreStarted' = FALSE
  /\ lists' = IF lists = "none" THEN "none" ELSE "reset"
  /\ InitCore
  /\ UNCHANGED <<main, awaiting, window, applies, sdk, restarting, history>>

-----------------------------------------------------------------------------
\* The SDK thread.

\* App listens to CoreModel.
Connected == main = "loop"

ToConnected(closures) == IF Connected THEN closures ELSE <<>>

\* A single-shot slot leaves with the change that runs it.
MutLeftConnected == deferred
LeftConnected == <<>>

\* The ways to keep some of n places, in their order.
Choices(n) ==
  UNION {{at \in [1..k -> 1..n] : \A i, j \in 1..k : i < j => at[i] < at[j]} : k \in 0..n}

\* The deferred fetches whose file or URL is still found.
Found(at) == [i \in DOMAIN at |-> fetches[at[i]]]

Requested(commands) ==
  [i \in DOMAIN commands |-> ForCommand("requestFetchConfig", commands[i])]

\* The change to On: App's slot posts to the UI thread, then the deferred
\* commands run, in the order they were deferred.  ConfiguringStatus comes just
\* before.  The other changes run them too: they find the core not On and defer
\* themselves again, which changes nothing.
TurnOn(before, after) ==
  \E at \in Choices(Len(fetches)) :
    /\ core' = "On"
    /\ performed' = performed \o deferred
    /\ deferred' = LeftConnected /\ fetches' = <<>>
    /\ fruitless' = fruitless + (Len(fetches) - Len(Found(at)))
    /\ restarting' = (restarting /\ ~Connected)
    /\ uiLoop' = uiLoop \o before
                 \o ToConnected(<<SetCoreStarted(TRUE)>>)
                 \o Requested(Found(at))
                 \o after

SdkRuns(what) ==
  /\ sdkLoop # <<>> /\ Head(sdkLoop).do = what
  /\ sdkLoop' = Tail(sdkLoop)

\* The closure of initCore(): CoreModel::start() replaces the core, if any; the
\* new one is on at once, or has a configuration to download first.
Start ==
  /\ SdkRuns("start")
  /\ \/ TurnOn(ToConnected(<<SetCoreStarted(FALSE)>>), <<Do("createUi")>>)
     \/ /\ core' = "Configuring"
        /\ uiLoop' = uiLoop \o ToConnected(<<SetCoreStarted(FALSE)>>) \o <<Do("createUi")>>
        /\ UNCHANGED <<deferred, fetches, performed, fruitless, restarting>>
  /\ initCore' = "returned"
  /\ abandoned' = abandoned + (IF core \in {"On", "Configuring"} THEN 1 ELSE 0)
  /\ UNCHANGED <<main, coreStarted, lists, awaiting, window, applies,
                 queue, received, taken, overlapped>>

\* The download ends, well or badly, in a tick of the iterate timer.
Configured ==
  /\ core = "Configuring"
  /\ TurnOn(<<>>, <<>>)
  /\ UNCHANGED <<ui, sdkLoop, queue, received, taken, overlapped, abandoned>>

\* The closure of restartCore(): mCore->stop().
Stop ==
  /\ SdkRuns("stop")
  /\ core' = "Off"
  /\ uiLoop' = uiLoop \o (IF core # "Off" THEN <<SetCoreStarted(FALSE)>> ELSE <<>>)
                      \o <<Do("coreStopped")>>
  /\ UNCHANGED <<ui, queue, deferred, fetches, restarting, history>>

SynchronizeState ==
  /\ SdkRuns("synchronize")
  /\ uiLoop' = Append(uiLoop, SetCoreStarted(core = "On"))
  /\ UNCHANGED <<ui, sdk, restarting, history>>

\* setFetchConfig(): a configuration the core takes asks for a restart; one it
\* refuses leaves the queue as it is.
SetFetchConfig ==
  /\ SdkRuns("setFetchConfig")
  /\ \/ /\ uiLoop' = Append(uiLoop, Do("restartCore"))
        /\ UNCHANGED fruitless
     \/ /\ fruitless' = fruitless + 1
        /\ UNCHANGED uiLoop
  /\ UNCHANGED <<ui, sdk, restarting, received, taken, performed, overlapped, abandoned>>

-----------------------------------------------------------------------------
\* CliModel.

MutPriority(process) == IF process.role = "argument" THEN 0 ELSE 1
Priority(process) == IF process.role = "argument" THEN 1 ELSE 0

\* addProcess() for each part of a command; the queue is sorted by priority.
Processes(c) ==
  {[cmd |-> c, role |-> "command"]}
    \cup (IF c \in WithFetch THEN {[cmd |-> c, role |-> "argument"]} ELSE {})

\* The slot each command connects while the core is not on.
Postponed(kind) == IF kind \in {"accept", "decline"} THEN "bye" ELSE kind

MutPostponeLatest(c, as) == /\ deferred' = <<[cmd |-> c, as |-> as]>>
                            /\ UNCHANGED <<fetches, uiLoop, performed, fruitless>>

Postpone(c, as) == /\ deferred' = Append(deferred, [cmd |-> c, as |-> as])
                   /\ UNCHANGED <<fetches, uiLoop, performed, fruitless>>

\* What is done to no call.
Idle == {"show", "fetch-config"}

\* Runs the process: cliFetchConfig, cliCall, cliBye...  The configuration may
\* not be found; fetch-config without one, like show, does nothing here.
Run(process) ==
  LET c == process.cmd
      nothing == MainOf[c] \in Idle
  IN
  \/ /\ process.role = "argument" /\ core = "On"
     /\ \/ uiLoop' = Append(uiLoop, ForCommand("requestFetchConfig", c)) /\ UNCHANGED fruitless
        \/ fruitless' = fruitless + 1 /\ UNCHANGED uiLoop
     /\ UNCHANGED <<deferred, fetches, performed>>
  \/ /\ process.role = "argument" /\ core # "On"
     /\ fetches' = Append(fetches, c)
     /\ UNCHANGED <<uiLoop, deferred, performed, fruitless>>
  \/ /\ process.role = "command" /\ nothing
     /\ UNCHANGED <<uiLoop, deferred, fetches, performed, fruitless>>
  \/ /\ process.role = "command" /\ ~nothing /\ core = "On"
     /\ performed' = Append(performed, [cmd |-> c, as |-> MainOf[c]])
     /\ UNCHANGED <<uiLoop, deferred, fetches, fruitless>>
  \/ /\ process.role = "command" /\ ~nothing /\ core # "On"
     /\ Postpone(c, Postponed(MainOf[c]))

\* runProcess(): the first of the queue, and no other.
RunFirst(processes) ==
  IF processes = {}
  THEN /\ queue' = {}
       /\ UNCHANGED <<uiLoop, deferred, fetches, performed, fruitless, taken>>
  ELSE \E first \in processes :
       /\ \A other \in processes : Priority(first) >= Priority(other)
       /\ queue' = processes \ {first}
       /\ taken' = Append(taken, first)
       /\ Run(first)

ExecuteCommand ==
  /\ SdkRuns("executeCommand")
  /\ RunFirst(queue \cup Processes(Head(sdkLoop).cmd))
  /\ UNCHANGED <<ui, core, restarting, received, overlapped, abandoned>>

RunProcess ==
  /\ SdkRuns("runProcess")
  /\ RunFirst(queue)
  /\ UNCHANGED <<ui, core, restarting, received, overlapped, abandoned>>

-----------------------------------------------------------------------------
UiThread ==
  \/ Launch \/ ConnectModels \/ SendCommand
  \/ RunSetCoreStarted \/ CreateUi \/ SetMainWindow
  \/ RequestFetchConfig \/ RestartCore \/ CoreStopped

SdkThread ==
  \/ Start \/ Stop \/ SynchronizeState \/ SetFetchConfig
  \/ ExecuteCommand \/ RunProcess

Next == UiThread \/ SdkThread \/ Configured \/ \E c \in Commands : ReceivedMessage(c)

\* Both event loops run what is posted to them, and a download ends (the SDK
\* bounds it); nobody has to send a command.
Spec ==
  Init /\ [][Next]_vars /\ WF_vars(UiThread) /\ WF_vars(SdkThread) /\ WF_vars(Configured)

-----------------------------------------------------------------------------
Closures ==
  [do : {"start", "synchronize", "runProcess", "stop", "createUi", "setMainWindow",
         "restartCore", "coreStopped"}]
  \cup [do : {"setCoreStarted"}, on : BOOLEAN]
  \cup [do : {"executeCommand", "setFetchConfig", "requestFetchConfig"}, cmd : Commands]

Process == [cmd : Commands, role : {"command", "argument"}]

\* The type invariant.
TypeOK ==
  /\ main \in {"launch", "loop"} /\ initCore \in {"idle", "waiting", "returned"}
  /\ uiLoop \in Seq(Closures) /\ sdkLoop \in Seq(Closures)
  /\ coreStarted \in BOOLEAN /\ awaiting \in BOOLEAN /\ window \in BOOLEAN
  /\ lists \in {"none", "reset", "filled"}
  /\ applies \in Seq(Commands)
  /\ core \in {"none", "Configuring", "On", "Off"}
  /\ queue \subseteq Process
  /\ deferred \in Seq([cmd : Commands, as : Kinds]) /\ fetches \in Seq(Commands)
  /\ restarting \in BOOLEAN
  /\ received \subseteq Commands /\ taken \in Seq(Process)
  /\ performed \in Seq([cmd : Commands, as : Kinds])
  /\ fruitless \in Nat /\ abandoned \in Nat /\ overlapped \in BOOLEAN

\* Nothing is under way in either thread.
Settled ==
  /\ main = "loop" /\ initCore = "idle"
  /\ uiLoop = <<>> /\ sdkLoop = <<>> /\ applies = <<>> /\ deferred = <<>> /\ fetches = <<>>
  /\ core # "Configuring"

\* When all is quiet the window tells the truth: the core is on, mCoreStarted
\* says so, the lists are filled from it and the restart is over, whatever the
\* order in which the state changes and the UI's closures crossed.
UiFollowsCore ==
  Settled => core = "On" /\ coreStarted /\ lists = "filled" /\ ~restarting /\ ~awaiting

\* CoreModel::start() drops mCore without stopping it only if a restart was
\* asked for while another was under way.
OnlyOverlapsAbandon == abandoned > 0 => overlapped

\* A command runs after the fetch-config that came with it.
ArgumentsFirst ==
  \A i \in DOMAIN taken :
     taken[i].role = "command" /\ taken[i].cmd \in WithFetch =>
       \E j \in 1..(i - 1) : taken[j] = [cmd |-> taken[i].cmd, role |-> "argument"]

\* However long the core is away, a command is performed once: a deferred one
\* is neither run by two state changes nor by its slot and the queue.
PerformedOnce == \A i, j \in DOMAIN performed : performed[i].cmd = performed[j].cmd => i = j

\* A command for the calls that has left the queue is performed or waits for
\* the core, and none overtakes another: the slots that each state change of
\* the core runs and connects again neither lose one nor change their order.
CommandsKept ==
  LET after == performed \o deferred
      Took(i, c) == taken[i] = [cmd |-> c, role |-> "command"]
  IN /\ \A i \in DOMAIN taken : taken[i].role = "command" /\ MainOf[taken[i].cmd] \notin Idle =>
          \E k \in DOMAIN after : after[k].cmd = taken[i].cmd
     /\ \A j, k \in DOMAIN after : j < k =>
          \E a, b \in DOMAIN taken : a < b /\ Took(a, after[j].cmd) /\ Took(b, after[k].cmd)

\* A command only waits for a restart that is coming: when all is quiet, what
\* is left in the queue are commands whose fetch led to no restart.
LeftoversExplained == Settled => Cardinality(queue) <= fruitless

\* The two threads always come to rest with the core on, even though the UI
\* thread blocks while the SDK thread starts it.
ComesToRest == <>[](Settled /\ core = "On")
=============================================================================
