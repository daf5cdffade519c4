--------------------------- MODULE SafeConnection ---------------------------
(***************************************************************************)
(* The bridge between a Core object, which lives on the UI thread, and its  *)
(* Model object, which lives on the SDK (linphone) thread.                  *)
(* Source: Linphone/tool/thread/SafeConnection.hpp, SafeSharedPointer.hpp.  *)
(*                                                                          *)
(* The QML engine owns the Core through a QSharedPointer (gui); the Core's  *)
(* members own the Model and the SafeConnection; the SafeConnection holds   *)
(* weak pointers to both, upgraded to strong ones, and counted, for as long *)
(* as a call made through it is outstanding.  A call is one execution of    *)
(* invokeToCore or invokeToModel, from tryLock() to the end of its closure. *)
(*                                                                          *)
(* Losing its last strong pointer condemns an object: deleteLater() posts   *)
(* its deletion to the thread it lives on.  Closures and deletions are not  *)
(* ordered here; a queued closure keeps both objects, so at the moment one  *)
(* is condemned there is none to be ordered with.                           *)
(***************************************************************************)
EXTENDS Naturals, Sequences, FiniteSets

CONSTANTS UI,     \* the main thread: QML and every Core object
          SDK,    \* the linphone thread: every Model object
          Home,   \* the thread setSelf() ran on, where the connection lives
          Calls   \* calls made through this connection (bounds a run)

Threads == {UI, SDK}

NoThread == "nobody"

ASSUME ThreadsAssumption == UI # SDK /\ NoThread \notin Threads /\ Home \in Threads
ASSUME CallsAssumption   == IsFiniteSet(Calls)

VARIABLES
  gui,        \* the QML engine holds its QSharedPointer to the Core
  keeper,     \* somebody else (the SDK, a list model) holds the Model
  coreLife,   \* "alive", "condemned" (deleteLater posted), "destructing", "dead"
  modelLife,  \* "alive", "condemned", "dead"
  connLife,   \* the same, for the SafeConnection object
  connected,  \* Model signals are connected to slots of the Core
  locker,     \* thread that holds mLocker, or NoThread
  coreRef,    \* mCore.mCountRef
  coreData,   \* mCore.mQData is set
  modelRef,   \* mModel.mCountRef
  modelData,  \* mModel.mQData or mStdData is set
  phase,      \* how far each call is
  dest,       \* thread of the object each call is for
  stack,      \* calls a thread is inside of, innermost first
  queue       \* closures posted to each thread

lifeVars == <<gui, keeper, coreLife, modelLife, connLife, connected>>
refVars  == <<coreRef, coreData, modelRef, modelData>>
vars     == <<lifeVars, locker, refVars, phase, dest, stack, queue>>

Phases == {"free", "inSlot", "calling", "coreOk", "coreFail", "both", "onlyCore",
           "onlyModel", "neither", "accepted", "posted", "running", "unlocked",
           "done", "refused", "wild"}

-----------------------------------------------------------------------------
(* Ownership.                                                               *)

\* A Core has its members until its destructor has run.
MembersExist(life) == life \in {"alive", "condemned"}

\* Closures hold a strong pointer to the connection: invokeToX captures
\* mSelf.lock() by value, until the closure itself is destroyed.
Closures(ph) == {c \in Calls : ph[c] \in {"posted", "running", "unlocked"}}

\* Every step that may drop a strong pointer ends with these: what nobody
\* holds any more is condemned.
ReapCore ==
  coreLife' = IF coreLife = "alive" /\ ~gui' /\ ~coreData'
              THEN "condemned" ELSE coreLife

ReapModel ==
  modelLife' = IF /\ modelLife = "alive"
                  /\ ~MembersExist(coreLife') /\ ~keeper' /\ ~modelData'
               THEN "condemned" ELSE modelLife

ReapConn ==
  connLife' = IF /\ connLife = "alive"
                 /\ ~MembersExist(coreLife') /\ Closures(phase') = {}
              THEN "condemned" ELSE connLife

Top(t)       == Head(stack[t])
Idle(t)      == stack[t] = <<>>
Inside(t, p) == ~Idle(t) /\ phase[Top(t)] = p

\* The event loop of t is reached, and not from inside a destructor.
AtLoop(t) == Idle(t) /\ (t = UI => coreLife # "destructing")

Goto(c, p)   == phase' = [phase EXCEPT ![c] = p]
Enter(t, c)  == stack' = [stack EXCEPT ![t] = <<c>> \o @]
Leave(t)     == stack' = [stack EXCEPT ![t] = Tail(@)]

Init ==
  /\ gui = TRUE
  /\ keeper \in BOOLEAN
  /\ coreLife = "alive" /\ modelLife = "alive" /\ connLife = "alive"
  /\ connected = TRUE
  /\ locker = NoThread
  /\ coreRef = 0 /\ coreData = FALSE
  /\ modelRef = 0 /\ modelData = FALSE
  /\ phase = [c \in Calls |-> "free"]
  /\ dest = [c \in Calls |-> UI]
  /\ stack = [t \in Threads |-> <<>>]
  /\ queue = [t \in Threads |-> <<>>]

-----------------------------------------------------------------------------
(* Where calls come from.                                                   *)

\* Call c, for the object on thread to, starts on thread t at phase p.
Start(t, c, to, p) ==
  /\ phase[c] = "free"
  /\ Goto(c, p)
  /\ dest' = [dest EXCEPT ![c] = to]
  /\ Enter(t, c)
  /\ UNCHANGED <<lifeVars, locker, refVars, queue>>

\* QML emits a Core signal (lSomething): its slot calls invokeToX directly.
CoreSignal(c, to) == AtLoop(UI) /\ gui /\ Start(UI, c, to, "calling")

\* The Model emits a signal on the SDK thread: the slot, a lambda holding a
\* bare pointer to the Core, is entered through a direct connection.
ModelSignal(c, to) ==
  /\ Idle(SDK) \/ Inside(SDK, "running")
  /\ connected /\ modelLife # "dead"
  /\ Start(SDK, c, to, "inSlot")

\* A callable makes a further call, to the other thread or to its own.
NestedCall(t, c, to) == Inside(t, "running") /\ Start(t, c, to, "calling")

\* The slot reads the Core's connection member and calls invokeToX on it.
SlotCalls ==
  /\ Inside(SDK, "inSlot")
  /\ MembersExist(coreLife)
  /\ Goto(Top(SDK), "calling")
  /\ UNCHANGED <<lifeVars, locker, refVars, dest, stack, queue>>

\* The member, or the connection it named, is gone: undefined behaviour.  Of
\* what the build can produce, the outcome in which the call has no effect.
TouchesFreed ==
  /\ \/ Inside(SDK, "inSlot") /\ ~MembersExist(coreLife)
     \/ Inside(SDK, "calling") /\ connLife = "dead"
  /\ Goto(Top(SDK), "wild")
  /\ Leave(SDK)
  /\ UNCHANGED <<lifeVars, locker, refVars, dest, queue>>

-----------------------------------------------------------------------------
(* tryLock(): both objects or none, under mLocker.                          *)

\* mLocker.lock(); mCore.lock(): a count above zero is raised; at zero the
\* weak pointer is upgraded, which fails once the last strong pointer is gone.
MutLockIgnoresExpiry(t) ==
  /\ Inside(t, "calling") /\ connLife # "dead"
  /\ locker = NoThread
  /\ locker' = t
  /\ LET ok == coreRef > 0 \/ coreLife # "dead"
     IN /\ Goto(Top(t), IF ok THEN "coreOk" ELSE "coreFail")
        /\ coreRef' = IF ok THEN coreRef + 1 ELSE coreRef
        /\ coreData' = (coreData \/ ok)
  /\ UNCHANGED <<lifeVars, modelRef, modelData, dest, stack, queue>>

LockCore(t) ==
  /\ Inside(t, "calling") /\ connLife # "dead"
  /\ locker = NoThread
  /\ locker' = t
  /\ LET ok == coreRef > 0 \/ coreLife = "alive"
     IN /\ Goto(Top(t), IF ok THEN "coreOk" ELSE "coreFail")
        /\ coreRef' = IF ok THEN coreRef + 1 ELSE coreRef
        /\ coreData' = (coreData \/ ok)
  /\ UNCHANGED <<lifeVars, modelRef, modelData, dest, stack, queue>>

\* mModel.lock(), whatever became of the Core.
LockModel(t) ==
  /\ Inside(t, "coreOk") \/ Inside(t, "coreFail")
  /\ LET ok   == modelRef > 0 \/ modelLife = "alive"
         core == Inside(t, "coreOk")
     IN /\ Goto(Top(t), IF core THEN IF ok THEN "both" ELSE "onlyCore"
                                ELSE IF ok THEN "onlyModel" ELSE "neither")
        /\ modelRef' = IF ok THEN modelRef + 1 ELSE modelRef
        /\ modelData' = (modelData \/ ok)
  /\ UNCHANGED <<lifeVars, locker, coreRef, coreData, dest, stack, queue>>

\* Both locked: mLocker is released and the call is accepted.
MutAcceptEither(t) ==
  /\ Inside(t, "both") \/ Inside(t, "onlyModel")
  /\ locker' = NoThread
  /\ Goto(Top(t), "accepted")
  /\ UNCHANGED <<lifeVars, refVars, dest, stack, queue>>

Accept(t) ==
  /\ Inside(t, "both")
  /\ locker' = NoThread
  /\ Goto(Top(t), "accepted")
  /\ UNCHANGED <<lifeVars, refVars, dest, stack, queue>>

\* SafeSharedPointer::unlock() of the Core, of the Model, of both, of neither:
\* at zero the strong pointer is let go.
MutUnlockKeepsPointer(core, model) ==
  /\ coreRef' = IF core THEN coreRef - 1 ELSE coreRef
  /\ coreData' = coreData
  /\ modelRef' = IF model THEN modelRef - 1 ELSE modelRef
  /\ modelData' = modelData

UnlockObjects(core, model) ==
  /\ coreRef' = IF core THEN coreRef - 1 ELSE coreRef
  /\ coreData' = (coreData /\ coreRef' > 0)
  /\ modelRef' = IF model THEN modelRef - 1 ELSE modelRef
  /\ modelData' = (modelData /\ modelRef' > 0)

\* One side is missing: what was locked is unlocked again, tryLock() is false.
MutRefuseKeepsModel(t) ==
  /\ Inside(t, "onlyCore") \/ Inside(t, "onlyModel") \/ Inside(t, "neither")
  /\ locker' = NoThread
  /\ Goto(Top(t), "refused")
  /\ Leave(t)
  /\ UNCHANGED <<lifeVars, refVars, dest, queue>>

Refuse(t) ==
  /\ Inside(t, "onlyCore") \/ Inside(t, "onlyModel") \/ Inside(t, "neither")
  /\ UnlockObjects(Inside(t, "onlyCore"), Inside(t, "onlyModel"))
  /\ locker' = NoThread
  /\ Goto(Top(t), "refused")
  /\ Leave(t)
  /\ UNCHANGED <<gui, keeper, connLife, connected, dest, queue>>
  /\ ReapCore /\ ReapModel

-----------------------------------------------------------------------------
(* The accepted call: QMetaObject::invokeMethod() on the target runs the    *)
(* closure at once on the target's own thread and posts it to another.      *)

RunDirectly(t) ==
  /\ Inside(t, "accepted") /\ dest[Top(t)] = t
  /\ Goto(Top(t), "running")
  /\ UNCHANGED <<lifeVars, locker, refVars, dest, stack, queue>>

Post(t) ==
  /\ Inside(t, "accepted") /\ dest[Top(t)] # t
  /\ Goto(Top(t), "posted")
  /\ Leave(t)
  /\ queue' = [queue EXCEPT ![dest[Top(t)]] = Append(@, Top(t))]
  /\ UNCHANGED <<lifeVars, locker, refVars, dest>>

\* The event loop reaches the closure.
TakeCall(t) ==
  /\ AtLoop(t)
  /\ queue[t] # <<>>
  /\ Goto(Head(queue[t]), "running")
  /\ Enter(t, Head(queue[t]))
  /\ queue' = [queue EXCEPT ![t] = Tail(@)]
  /\ UNCHANGED <<lifeVars, locker, refVars, dest>>

\* The callable returns; unlock() takes mLocker and drops one count of each
\* object.  mLocker is still held at the end of the step.
MutUnlockForgetsModel(t) ==
  /\ Inside(t, "running")
  /\ locker = NoThread
  /\ locker' = t
  /\ Goto(Top(t), "unlocked")
  /\ UnlockObjects(TRUE, FALSE)
  /\ UNCHANGED <<gui, keeper, connLife, connected, dest, stack, queue>>
  /\ ReapCore /\ ReapModel

Unlock(t) ==
  /\ Inside(t, "running")
  /\ locker = NoThread
  /\ locker' = t
  /\ Goto(Top(t), "unlocked")
  /\ UnlockObjects(TRUE, TRUE)
  /\ UNCHANGED <<gui, keeper, connLife, connected, dest, stack, queue>>
  /\ ReapCore /\ ReapModel

\* unlock() releases mLocker, a member of the connection; then the closure,
\* and with it its pointer to the connection, is destroyed.
MutEndCallKeepsLocker(t) ==
  /\ Inside(t, "unlocked")
  /\ Goto(Top(t), "done")
  /\ Leave(t)
  /\ coreLife' = coreLife /\ ReapConn
  /\ UNCHANGED <<gui, keeper, modelLife, connected, locker, refVars, dest, queue>>

EndCall(t) ==
  /\ Inside(t, "unlocked")
  /\ locker' = NoThread
  /\ Goto(Top(t), "done")
  /\ Leave(t)
  /\ coreLife' = coreLife /\ ReapConn
  /\ UNCHANGED <<gui, keeper, modelLife, connected, refVars, dest, queue>>

-----------------------------------------------------------------------------
(* Release and destruction.                                                 *)

\* The JavaScript garbage collector destroys the QML object.
DropGui ==
  /\ gui
  /\ AtLoop(UI) \/ Inside(UI, "running")
  /\ gui' = FALSE
  /\ coreData' = coreData /\ ReapCore
  /\ UNCHANGED <<keeper, modelLife, connLife, connected, locker,
                 coreRef, modelRef, modelData, phase, dest, stack, queue>>

\* The other holder of the Model lets go of it.
DropKeeper ==
  /\ keeper
  /\ Idle(SDK) \/ Inside(SDK, "running")
  /\ keeper' = FALSE
  /\ coreLife' = coreLife /\ modelData' = modelData /\ ReapModel
  /\ UNCHANGED <<gui, connLife, connected, locker,
                 coreRef, coreData, modelRef, phase, dest, stack, queue>>

\* The Core's destructor: disconnect() runs tryLock(), which takes mLocker and
\* fails, the Core being expired, so nothing is disconnected; then the members
\* are destroyed, the pointers to the Model and to the connection with them.
DestroyCoreMembers ==
  /\ AtLoop(UI) /\ coreLife = "condemned"
  /\ locker = NoThread
  /\ coreLife' = "destructing"
  /\ keeper' = keeper /\ modelData' = modelData /\ phase' = phase
  /\ UNCHANGED <<gui, connected, locker, coreRef, coreData, modelRef, dest, stack, queue>>
  /\ ReapModel /\ ReapConn

\* ~QObject() of the Core cuts its connections.
DestroyCoreBase ==
  /\ coreLife = "destructing"
  /\ coreLife' = "dead"
  /\ connected' = FALSE
  /\ UNCHANGED <<gui, keeper, modelLife, connLife, locker, refVars, phase, dest, stack, queue>>

\* The SDK thread's event loop deletes the Model.
DestroyModel ==
  /\ AtLoop(SDK) /\ modelLife = "condemned"
  /\ modelLife' = "dead"
  /\ connected' = FALSE
  /\ UNCHANGED <<gui, keeper, coreLife, connLife, locker, refVars, phase, dest, stack, queue>>

\* ~SafeConnection() reads the two counts under mLocker.
DestroyConn ==
  /\ AtLoop(Home) /\ connLife = "condemned"
  /\ locker = NoThread
  /\ connLife' = "dead"
  /\ UNCHANGED <<gui, keeper, coreLife, modelLife, connected, locker, refVars,
                 phase, dest, stack, queue>>

-----------------------------------------------------------------------------
\* What thread t does once it is inside a call or has something to run.
Progress(t) ==
  \/ LockCore(t) \/ LockModel(t) \/ Accept(t) \/ Refuse(t)
  \/ RunDirectly(t) \/ Post(t) \/ TakeCall(t) \/ Unlock(t) \/ EndCall(t)

Next ==
  \/ \E t \in Threads : Progress(t)
  \/ \E c \in Calls, to \in Threads :
       \/ CoreSignal(c, to)
       \/ ModelSignal(c, to)
       \/ \E t \in Threads : NestedCall(t, c, to)
  \/ SlotCalls \/ TouchesFreed
  \/ DropGui \/ DropKeeper
  \/ DestroyCoreMembers \/ DestroyCoreBase \/ DestroyModel \/ DestroyConn

\* Both threads keep running: a thread inside a call goes on, an event loop
\* gets to what is posted to it, callables return.  Nothing obliges QML or the
\* SDK to start a call or to drop a pointer.
Fairness ==
  /\ \A t \in Threads : WF_vars(Progress(t))
  /\ WF_vars(SlotCalls) /\ WF_vars(TouchesFreed)
  /\ WF_vars(DestroyCoreMembers) /\ WF_vars(DestroyCoreBase)
  /\ WF_vars(DestroyModel) /\ WF_vars(DestroyConn)

Spec == Init /\ [][Next]_vars /\ Fairness

-----------------------------------------------------------------------------
(* Properties.                                                              *)

\* The phases in which a call has locked the Core, or the Model, and not yet
\* unlocked it.
CoreHeld  == {"coreOk", "both", "onlyCore", "accepted", "posted", "running"}
ModelHeld == {"both", "onlyModel", "accepted", "posted", "running"}

CallsIn(p, S) == {c \in Calls : p[c] \in S}

\* Every variable has its type.
TypeOK ==
  /\ gui \in BOOLEAN /\ keeper \in BOOLEAN /\ connected \in BOOLEAN
  /\ coreLife \in {"alive", "condemned", "destructing", "dead"}
  /\ modelLife \in {"alive", "condemned", "dead"}
  /\ connLife \in {"alive", "condemned", "dead"}
  /\ locker \in Threads \cup {NoThread}
  /\ coreRef \in Nat /\ coreData \in BOOLEAN
  /\ modelRef \in Nat /\ modelData \in BOOLEAN
  /\ phase \in [Calls -> Phases]
  /\ dest \in [Calls -> Threads]
  /\ stack \in [Threads -> Seq(Calls)]
  /\ queue \in [Threads -> Seq(Calls)]

\* While a callable runs, on either thread, the Core, the Model and the
\* connection whose unlock() comes next are all alive, not even condemned:
\* what SafeConnection.hpp:30-31 says the class is for.
CallsRunOnLiveObjects ==
  \A c \in Calls : phase[c] = "running" =>
    coreLife = "alive" /\ modelLife = "alive" /\ connLife = "alive"

\* mCountRef is the number of calls that locked the object and have not
\* unlocked it: tryLock() backs out of half a lock, and every closure unlocks
\* once, in whatever order the two threads interleave.
RefsCountCalls ==
  /\ coreRef = Cardinality(CallsIn(phase, CoreHeld))
  /\ modelRef = Cardinality(CallsIn(phase, ModelHeld))

\* The connection is there for as long as anything of an accepted call still
\* touches it: mSelf.lock() in the caller, unlock() and mLocker in the closure.
ConnectionOutlivesCalls ==
  \A c \in Calls : phase[c] \in {"both", "accepted", "posted", "running", "unlocked"} =>
    connLife = "alive"

\* ~SafeConnection() finds both counts at zero: its lCritical messages, a
\* Core or a Model "still in memory" (SafeConnection.hpp:79-88), never appear.
CleanDestruction == connLife = "dead" => coreRef = 0 /\ modelRef = 0

\* Every call comes to its end, refused or with its closure completed: the two
\* threads, each of which may be inside several calls and want mLocker, which
\* is not recursive, never wait for each other or for themselves.
CallsComplete ==
  \A c \in Calls : phase[c] = "calling" ~> phase[c] \in {"done", "refused", "wild"}

\* Once QML has let go of the Core, it is destroyed: no call keeps it for ever.
CoreEventuallyFreed == ~gui ~> coreLife = "dead"

\* No slot of the Core, and nothing of a connection, is used once the Core's
\* destructor has released its members.
SlotProtected == \A c \in Calls : phase[c] # "wild"

\* What a caller can tell of a call that has reached phase p: pending once both
\* objects are locked, finished once the callable has returned.
Status(p) == CASE p \in {"both", "accepted", "posted"} -> "pending"
               [] p = "running" -> "executing"
               [] p \in {"unlocked", "done"} -> "finished"
               [] p \in {"refused", "wild"} -> "refused"
               [] OTHER -> "idle"

Promise == INSTANCE ProtectedCalls WITH
  status  <- [c \in Calls |-> Status(phase[c])],
  coreUp  <- MembersExist(coreLife),
  modelUp <- modelLife # "dead"

\* Every step of the two threads is a step, or a stutter, of the promise.
KeepsPromise == Promise!Spec
=============================================================================
