------------------------------ MODULE CallList ------------------------------
(***************************************************************************)
(* The list of calls QML shows, and its current call.                       *)
(* Sources: Linphone/core/call/CallList.cpp, CallCore.cpp, core/proxy.      *)
(*                                                                          *)
(* The linphone core, on the SDK thread, creates calls and changes their    *)
(* states; every CallCore made for a call, and the list, hear of it by      *)
(* closures posted to the UI thread, which runs them in order.  lUpdate()   *)
(* asks the SDK thread for all the calls again, and gets new CallCores for  *)
(* them, while QML may hold on to the old ones.  The list itself resumes a  *)
(* call when the current one is released.                                   *)
(***************************************************************************)
EXTENDS Naturals, Sequences, FiniteSets, Functions, Selections

CONSTANTS
  Calls,         \* the linphone::Calls of a session
  MaxRestarts,   \* bound: restarts of the core
  MaxPosted      \* bound: the SDK changes no call while more closures than this
                 \* wait for the UI thread

ASSUME CallListAssumption == IsFiniteSet(Calls) /\ MaxRestarts \in Nat /\ MaxPosted \in Nat

\* CallCores: made by callCreated, or by the n-th lUpdate.
Made  == 0..(MaxRestarts + 1)
Cores == Calls \X Made
None  == <<>>

VARIABLES
  \* The SDK thread.
  core,       \* the linphone core: "on", "stopping" or "off"
  calls,      \* its calls that are not released, oldest first
  state,      \* of each call
  listening,  \* CallCores that exist
  sdkLoop,    \* closures posted to the SDK thread
  updates,    \* lUpdate closures run so far
  restarts,   \* restarts of the core so far
  \* The UI thread.
  connected,  \* the CallList exists
  list,       \* mList
  current,    \* mCurrentCall
  haveCall,   \* mHaveCall
  seen,       \* mState of each CallCore
  uiLoop      \* closures posted to the UI thread

sdk  == <<core, calls, state, listening, updates, restarts>>
ui   == <<connected, list, current, haveCall, seen>>
vars == <<sdk, sdkLoop, ui, uiLoop>>

\* Call states, those in which a call is one of Core::getCalls(), and those of
\* the one call that has the sound devices.  Idle, PausedByRemote, Updating and
\* the like, for which the list does nothing, are left out.
Live   == {"ringing", "dialing", "progress", "running", "paused", "resuming"}
Active == {"progress", "running", "resuming"}
States == Live \cup {"none", "ended", "released"}

Do(what)       == [do |-> what]
SetState(x, s) == [do |-> "setState", core |-> x, state |-> s]
Resume(x)      == [do |-> "resume", core |-> x]

Init ==
  /\ core = "on"
  /\ calls = <<>> /\ state = [c \in Calls |-> "none"] /\ listening = {}
  /\ updates = 0 /\ restarts = 0
  /\ connected = FALSE
  /\ list = <<>> /\ current = None /\ haveCall = FALSE
  /\ seen = [x \in Cores |-> "none"]
  /\ sdkLoop = <<>> /\ uiLoop = <<Do("initLists")>>

-----------------------------------------------------------------------------
\* The SDK thread.

\* CallModel::stateChanged runs in each CallCore of the call, oldest first.
Events(c, s) ==
  LET all == [n \in 1..(MaxRestarts + 2) |-> SetState(<<c, n - 1>>, s)]
  IN  Picked(all, {n \in DOMAIN all : <<c, n - 1>> \in listening})

\* Core::lastCallEnded.
LastCallEnded == IF connected THEN <<Do("lastCallEnded")>> ELSE <<>>

Others(c, S) == {d \in Calls \ {c} : state[d] \in S}

\* A list without one of its items.
Without(s, x) == Picked(s, {i \in DOMAIN s : s[i] # x})

MayChange == Len(uiLoop) <= MaxPosted

\* A call comes in or is dialled: createCallCore(), and the closure that adds it.
CallCreated(c, s) ==
  /\ core = "on" /\ MayChange /\ state[c] = "none"
  /\ state' = [state EXCEPT ![c] = s]
  /\ calls' = Append(calls, c)
  /\ IF connected
     THEN /\ listening' = listening \cup {<<c, 0>>}
          /\ seen' = [seen EXCEPT ![<<c, 0>>] = s]
          /\ uiLoop' = Append(uiLoop, [do |-> "add", core |-> <<c, 0>>])
     ELSE UNCHANGED <<listening, seen, uiLoop>>
  /\ UNCHANGED <<core, updates, restarts, sdkLoop, connected, list, current, haveCall>>

\* A call goes to state s.  One that becomes active takes the sound devices
\* from the one that has them, which must be running and is paused.
Change(c, s) ==
  LET taken == s \in Active /\ state[c] \notin Active /\ Others(c, Active) # {}
  IN /\ \/ /\ ~taken
           /\ state' = [state EXCEPT ![c] = s]
           /\ uiLoop' = uiLoop \o Events(c, s)
        \/ \E d \in Others(c, Active) :
             /\ taken /\ state[d] = "running"
             /\ state' = [state EXCEPT ![c] = s, ![d] = "paused"]
             /\ uiLoop' = uiLoop \o Events(d, "paused") \o Events(c, s)
     /\ UNCHANGED <<core, calls, listening, updates, restarts, ui>>

Follows == {<<"dialing", "progress">>, <<"progress", "running">>, <<"ringing", "running">>,
            <<"running", "paused">>, <<"paused", "resuming">>, <<"resuming", "running">>}

CallProgresses(c) ==
  /\ core = "on" /\ MayChange
  /\ \E s \in States : <<state[c], s>> \in Follows /\ Change(c, s)
  /\ UNCHANGED sdkLoop

CallEnds(c) ==
  /\ MayChange /\ state[c] \in Live
  /\ state' = [state EXCEPT ![c] = "ended"]
  /\ uiLoop' = uiLoop \o Events(c, "ended")
                      \o (IF Others(c, Live) = {} THEN LastCallEnded ELSE <<>>)
  /\ UNCHANGED <<core, calls, listening, updates, restarts, sdkLoop, ui>>

CallReleased(c) ==
  /\ MayChange /\ state[c] = "ended"
  /\ state' = [state EXCEPT ![c] = "released"]
  /\ calls' = Without(calls, c)
  /\ uiLoop' = uiLoop \o Events(c, "released")
  /\ UNCHANGED <<core, listening, updates, restarts, sdkLoop, ui>>

\* App::restartCore(): mCore->stop() ends and releases every call, while the
\* UI thread goes on and the closures posted to the SDK thread wait.
StopCore ==
  /\ core = "on" /\ MayChange /\ restarts < MaxRestarts
  /\ core' = "stopping" /\ restarts' = restarts + 1
  /\ UNCHANGED <<calls, state, listening, updates, sdkLoop, ui, uiLoop>>

CoreStopped ==
  /\ core = "stopping" /\ calls = <<>>
  /\ core' = "off"
  /\ uiLoop' = Append(uiLoop, Do("resetData"))
  /\ UNCHANGED <<calls, state, listening, updates, restarts, sdkLoop, ui>>

SdkRuns(what) ==
  /\ core # "stopping"
  /\ sdkLoop # <<>> /\ Head(sdkLoop).do = what
  /\ sdkLoop' = Tail(sdkLoop)

\* The core is started again; initLists follows on the UI thread.
StartCore ==
  /\ SdkRuns("start")
  /\ core' = "on"
  /\ uiLoop' = Append(uiLoop, Do("initLists"))
  /\ UNCHANGED <<calls, state, listening, updates, restarts, ui>>

\* CallModel::setPaused(false): a call that is not paused is not resumed.
RunResume ==
  /\ SdkRuns("resume")
  /\ LET c == Head(sdkLoop).core[1] IN
       IF state[c] = "paused" /\ \A d \in Others(c, Active) : state[d] = "running"
       THEN Change(c, "resuming")
       ELSE UNCHANGED <<sdk, ui, uiLoop>>

MutCurrentIn(fresh) == {None}
\* The CallCore of Core::getCurrentCall(): the active call or, when there is
\* none, maybe one that rings.
CurrentIn(fresh) ==
  LET IsIn(S) == {x \in Range(fresh) : state[x[1]] \in S}
  IN  IF IsIn(Active) # {} THEN IsIn(Active) ELSE {None} \cup IsIn({"ringing"})

\* The closure of lUpdate(): a new CallCore for each of Core::getCalls().
RunUpdate ==
  /\ SdkRuns("update")
  /\ updates' = updates + 1
  /\ LET live  == Picked(calls, {i \in DOMAIN calls : state[calls[i]] \in Live})
         fresh == [i \in DOMAIN live |-> <<live[i], updates + 1>>]
     IN /\ listening' = listening \cup Range(fresh)
        /\ seen' = [x \in Cores |-> IF x \in Range(fresh) THEN state[x[1]] ELSE seen[x]]
        /\ \E x \in CurrentIn(fresh) :
             uiLoop' = Append(uiLoop, [do |-> "reset", cores |-> fresh, current |-> x])
  /\ UNCHANGED <<core, calls, state, restarts, connected, list, current, haveCall>>

-----------------------------------------------------------------------------
\* The UI thread.

UiRuns(what) ==
  /\ uiLoop # <<>> /\ Head(uiLoop).do = what
  /\ uiLoop' = Tail(uiLoop)

\* initLists: CallList::create(), whose setSelf() connects to CoreModel, or the
\* list there is; both lUpdate().
InitLists ==
  /\ UiRuns("initLists")
  /\ connected' = TRUE
  /\ sdkLoop' = Append(sdkLoop, Do("update"))
  /\ UNCHANGED <<sdk, list, current, haveCall, seen>>

\* resetData() empties the list and leaves mCurrentCall; then the core is started.
ResetList ==
  /\ UiRuns("resetData")
  /\ list' = <<>>
  /\ sdkLoop' = Append(sdkLoop, Do("start"))
  /\ UNCHANGED <<sdk, connected, current, haveCall, seen>>

\* The answer to lUpdate().
Reset ==
  /\ UiRuns("reset")
  /\ list' = Head(uiLoop).cores
  /\ haveCall' = (Head(uiLoop).cores # <<>>)
  /\ current' = Head(uiLoop).current
  /\ UNCHANGED <<sdk, sdkLoop, connected, seen>>

MutAdd ==
  /\ UiRuns("add")
  /\ current' = IF list = <<>> THEN Head(uiLoop).core ELSE current
  /\ haveCall' = (list # <<>>)
  /\ list' = list \o <<Head(uiLoop).core, Head(uiLoop).core>>
  /\ UNCHANGED <<sdk, sdkLoop, connected, seen>>

\* callCreated: haveCall is computed before the call is added.
Add ==
  /\ UiRuns("add")
  /\ current' = IF list = <<>> THEN Head(uiLoop).core ELSE current
  /\ haveCall' = (list # <<>>)
  /\ list' = Append(list, Head(uiLoop).core)
  /\ UNCHANGED <<sdk, sdkLoop, connected, seen>>

RunLastCallEnded ==
  /\ UiRuns("lastCallEnded")
  /\ haveCall' = FALSE /\ current' = None
  /\ UNCHANGED <<sdk, sdkLoop, connected, list, seen>>

\* getNextCall(): the first of the list that is not current, if there is one.
NextCall ==
  LET others == Without(list, current)
  IN  IF others = <<>> THEN None ELSE Head(others)

MutRelease(x) ==
  IF current = x
  THEN /\ current' = NextCall
       /\ list' = Without(list, x)
       /\ sdkLoop' = sdkLoop
  ELSE UNCHANGED <<current, sdkLoop, list>>

\* A released call leaves the list; if it was current the next one becomes
\* current and is asked to resume.
Release(x) ==
  /\ list' = Without(list, x)
  /\ IF current = x
     THEN /\ current' = NextCall
          /\ sdkLoop' = IF NextCall = None THEN sdkLoop ELSE Append(sdkLoop, Resume(NextCall))
     ELSE UNCHANGED <<current, sdkLoop>>

\* setState() and, the first time, onStateChanged().
RunSetState ==
  /\ UiRuns("setState")
  /\ LET x == Head(uiLoop).core
         s == Head(uiLoop).state
         isNew == seen[x] # s
         listed == x \in Range(list)
     IN /\ seen' = [seen EXCEPT ![x] = s]
        /\ \/ /\ isNew /\ s \in {"running", "resuming", "progress"}
              /\ current' = IF listed THEN x ELSE None
              /\ UNCHANGED <<list, sdkLoop>>
           \/ /\ isNew /\ s = "released" /\ listed
              /\ Release(x)
           \/ /\ \/ ~isNew
                 \/ s \notin {"running", "resuming", "progress", "released"}
                 \/ s = "released" /\ ~listed
              /\ UNCHANGED <<list, current, sdkLoop>>
  /\ UNCHANGED <<sdk, connected, haveCall>>

\* Those who hold a CallCore: the list, the closures posted to the UI thread
\* and, when neither does, maybe QML.
Carries(f, x) == \/ f.do = "add" /\ f.core = x
                 \/ f.do = "reset" /\ x \in Range(f.cores)
IsEvent(f, x) == f.do = "setState" /\ f.core = x

Held(x) ==
  \/ x \in Range(list) \/ x = current
  \/ \E i \in DOMAIN uiLoop : Carries(uiLoop[i], x) \/ IsEvent(uiLoop[i], x)

Collect(x) ==
  /\ x \in listening /\ ~Held(x)
  /\ listening' = listening \ {x}
  /\ seen' = [seen EXCEPT ![x] = "none"]
  /\ UNCHANGED <<core, calls, state, updates, restarts, sdkLoop,
                 connected, list, current, haveCall, uiLoop>>

-----------------------------------------------------------------------------
SdkThread == StartCore \/ RunResume \/ RunUpdate

UiThread == InitLists \/ ResetList \/ Reset \/ Add \/ RunLastCallEnded \/ RunSetState

Next ==
  \/ SdkThread \/ UiThread \/ StopCore \/ CoreStopped
  \/ \E c \in Calls : \/ \E s \in {"ringing", "dialing"} : CallCreated(c, s)
                      \/ CallProgresses(c) \/ CallEnds(c) \/ CallReleased(c)
  \/ \E x \in Cores : Collect(x)

Spec == Init /\ [][Next]_vars

-----------------------------------------------------------------------------
\* The type invariant.
TypeOK ==
  /\ core \in {"on", "stopping", "off"} /\ connected \in BOOLEAN /\ haveCall \in BOOLEAN
  /\ calls \in Seq(Calls) /\ IsInjective(calls)
  /\ state \in [Calls -> States]
  /\ listening \subseteq Cores /\ seen \in [Cores -> States]
  /\ updates \in 0..(MaxRestarts + 1) /\ restarts \in 0..MaxRestarts
  /\ list \in Seq(Cores) /\ IsInjective(list)
  /\ current \in Cores \cup {None}

\* Nothing is on its way between the two threads, and the core is on.
Settled == connected /\ core = "on" /\ uiLoop = <<>> /\ sdkLoop = <<>>

\* When all is quiet the list shows each live call once, in the order they were
\* made, and no released one; the current call is in the list.
ListShowsCalls ==
  Settled =>
    LET shown == [i \in DOMAIN list |-> list[i][1]]
        IsLive(c) == state[c] \in Live
        Older(c, d) == \E i, j \in DOMAIN calls : i < j /\ calls[i] = c /\ calls[j] = d
    IN /\ \A c \in Calls : IsLive(c) => c \in Range(shown)
       /\ \A i, j \in DOMAIN shown :
            i < j /\ IsLive(shown[i]) /\ IsLive(shown[j]) => Older(shown[i], shown[j])
       /\ \A i \in DOMAIN shown : state[shown[i]] # "released"
       /\ current # None => current \in Range(list)

\* When all is quiet the current call is the one that has the sound devices, if
\* there is one: whatever was paused, resumed and released, by the user, by the
\* other side or by the list, and whatever old CallCores still listen.
CurrentFollowsActive ==
  Settled => \A c \in Calls : state[c] \in Active => current # None /\ current[1] = c

\* haveCall is what makes the calls window warn that closing it ends all calls
\* (CallsWindow.qml:98-101, 226-229): it is true when there is a call.
ClosingWarns ==
  Settled /\ (\E c \in Calls : state[c] \in Live) => haveCall
=============================================================================
