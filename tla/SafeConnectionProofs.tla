------------------------ MODULE SafeConnectionProofs ------------------------
(***************************************************************************)
(* For any set of calls and either home of the connection: every variable   *)
(* of SafeConnection keeps its type, the two reference counts count exactly *)
(* the outstanding calls, and a callable only ever runs on live objects.    *)
(***************************************************************************)
EXTENDS SafeConnection, FiniteSetTheorems, TLAPS

\* The strong pointers are set exactly while the counts are not zero.
DataCounted ==
  /\ coreData <=> coreRef > 0
  /\ modelData <=> modelRef > 0

\* Whoever holds an object, for QML, through the Core's members, or for a
\* call, finds it alive.
HeldAlive ==
  /\ gui \/ coreData => coreLife = "alive"
  /\ MembersExist(coreLife) \/ modelData => modelLife = "alive"
  /\ MembersExist(coreLife) \/ Closures(phase) # {} => connLife = "alive"

\* A closure is in one event queue, at one place, and only while it is posted.
QueuedOnce ==
  /\ \A t \in Threads : \A i \in 1..Len(queue[t]) : phase[queue[t][i]] = "posted"
  /\ \A t, u \in Threads : \A i \in 1..Len(queue[t]), j \in 1..Len(queue[u]) :
       queue[t][i] = queue[u][j] => t = u /\ i = j

\* The inductive invariant.
IInv == TypeOK /\ RefsCountCalls /\ DataCounted /\ HeldAlive /\ QueuedOnce

-----------------------------------------------------------------------------
(* What one move of one call does to the number of calls in a set of phases. *)

\* What a call in phase p contributes to the count of the phases in S.
Weight(S, p) == IF p \in S THEN 1 ELSE 0

\* A call that enters S counts once more, one that leaves S once less.
LEMMA CountMove ==
  ASSUME NEW S, NEW p \in [Calls -> Phases], NEW c \in Calls, NEW q \in Phases,
         NEW p2, p2 = [p EXCEPT ![c] = q]
  PROVE  /\ Cardinality(CallsIn(p, S)) \in Nat /\ Cardinality(CallsIn(p2, S)) \in Nat
         /\ p[c] \in S => Cardinality(CallsIn(p, S)) > 0
         /\ Cardinality(CallsIn(p2, S)) =
              Cardinality(CallsIn(p, S)) + Weight(S, q) - Weight(S, p[c])
<1> DEFINE before == CallsIn(p, S)
           after  == CallsIn(p2, S)
<1>0. before \in SUBSET Calls /\ after \in SUBSET Calls
  BY DEF CallsIn
<1>1. IsFiniteSet(before) /\ IsFiniteSet(after)
  BY <1>0, CallsAssumption, FS_Subset
<1>2. Cardinality(before) \in Nat /\ Cardinality(after) \in Nat
  BY <1>1, FS_CardinalityType
<1>3. p[c] \in S => Cardinality(before) > 0
  <2>1. p[c] \in S => before # {}
    BY DEF CallsIn
  <2>. QED  BY <2>1, <1>1, <1>2, FS_EmptySet
<1>4. (p[c] \in S <=> q \in S) => after = before
  BY DEF CallsIn
<1>5. p[c] \notin S /\ q \in S => Cardinality(after) = Cardinality(before) + 1
  <2>1. p[c] \notin S /\ q \in S => after = before \cup {c} /\ c \notin before
    BY DEF CallsIn
  <2>. QED  BY <2>1, <1>1, FS_AddElement
<1>6. p[c] \in S /\ q \notin S => Cardinality(after) = Cardinality(before) - 1
  <2>1. p[c] \in S /\ q \notin S => after = before \ {c} /\ c \in before
    BY DEF CallsIn
  <2>. QED  BY <2>1, <1>1, FS_RemoveElement
<1>. QED  BY <1>2, <1>3, <1>4, <1>5, <1>6 DEF Weight

\* A step that moves call c to phase q and changes each count by what c gains
\* or loses keeps the counts right; a held object's count is not zero.
LEMMA RefMove ==
  ASSUME TypeOK, RefsCountCalls, NEW c \in Calls, NEW q \in Phases, Goto(c, q)
  PROVE  /\ phase[c] \in CoreHeld => coreRef > 0
         /\ phase[c] \in ModelHeld => modelRef > 0
         /\ /\ coreRef' = coreRef + Weight(CoreHeld, q) - Weight(CoreHeld, phase[c])
            /\ modelRef' = modelRef + Weight(ModelHeld, q) - Weight(ModelHeld, phase[c])
            => RefsCountCalls' /\ coreRef' \in Nat /\ modelRef' \in Nat
<1>1. phase \in [Calls -> Phases] /\ phase' = [phase EXCEPT ![c] = q]
      /\ coreRef \in Nat /\ modelRef \in Nat
  BY DEF TypeOK, Goto
<1>2. /\ coreRef = Cardinality(CallsIn(phase, CoreHeld))
      /\ modelRef = Cardinality(CallsIn(phase, ModelHeld))
  BY DEF RefsCountCalls
<1>3. RefsCountCalls' <=> /\ coreRef' = Cardinality(CallsIn(phase', CoreHeld))
                          /\ modelRef' = Cardinality(CallsIn(phase', ModelHeld))
  BY DEF RefsCountCalls, CallsIn, CoreHeld, ModelHeld
<1>4. /\ phase[c] \in CoreHeld => coreRef > 0
      /\ Cardinality(CallsIn(phase', CoreHeld)) \in Nat
      /\ Cardinality(CallsIn(phase', CoreHeld)) =
           coreRef + Weight(CoreHeld, q) - Weight(CoreHeld, phase[c])
  BY <1>1, <1>2, CountMove
<1>5. /\ phase[c] \in ModelHeld => modelRef > 0
      /\ Cardinality(CallsIn(phase', ModelHeld)) \in Nat
      /\ Cardinality(CallsIn(phase', ModelHeld)) =
           modelRef + Weight(ModelHeld, q) - Weight(ModelHeld, phase[c])
  BY <1>1, <1>2, CountMove
<1>. QED  BY <1>3, <1>4, <1>5

\* The innermost call of a thread that is inside one is a call, not posted.
LEMMA TopCall ==
  ASSUME TypeOK, NEW t \in Threads, ~Idle(t)
  PROVE  Top(t) \in Calls /\ Tail(stack[t]) \in Seq(Calls)
BY DEF TypeOK, Idle, Top

\* A step that moves a call that is in no queue, and no queue, keeps QueuedOnce.
LEMMA QueueKept ==
  ASSUME TypeOK, QueuedOnce, NEW c \in Calls, NEW q \in Phases, Goto(c, q),
         phase[c] # "posted", UNCHANGED queue
  PROVE  QueuedOnce'
<1>1. ASSUME NEW t \in Threads, NEW i \in 1..Len(queue[t])
      PROVE  phase'[queue[t][i]] = "posted"
  <2>1. queue[t][i] \in Calls /\ phase[queue[t][i]] = "posted"
    BY <1>1 DEF QueuedOnce, TypeOK
  <2>. QED  BY <2>1 DEF Goto, TypeOK
<1>. QED  BY <1>1 DEF QueuedOnce

-----------------------------------------------------------------------------

LEMMA InitIInv == Init => IInv
<1>. SUFFICES ASSUME Init PROVE IInv
  OBVIOUS
<1>1. TypeOK
  <2>1. <<>> \in Seq(Calls) /\ UI \in Threads /\ "free" \in Phases
    BY DEF Threads, Phases
  <2>2. /\ phase \in [Calls -> Phases] /\ dest \in [Calls -> Threads]
        /\ stack \in [Threads -> Seq(Calls)] /\ queue \in [Threads -> Seq(Calls)]
    BY <2>1 DEF Init
  <2>3. gui \in BOOLEAN /\ keeper \in BOOLEAN /\ connected \in BOOLEAN
        /\ coreData \in BOOLEAN /\ modelData \in BOOLEAN
    BY DEF Init
  <2>4. locker \in Threads \cup {NoThread} /\ coreRef \in Nat /\ modelRef \in Nat
    BY DEF Init
  <2>5. /\ coreLife \in {"alive", "condemned", "destructing", "dead"}
        /\ modelLife \in {"alive", "condemned", "dead"}
        /\ connLife \in {"alive", "condemned", "dead"}
    BY DEF Init
  <2>. QED  BY <2>2, <2>3, <2>4, <2>5 DEF TypeOK
<1>2. RefsCountCalls
  <2>1. CallsIn(phase, CoreHeld) = {} /\ CallsIn(phase, ModelHeld) = {}
    BY DEF Init, CallsIn, CoreHeld, ModelHeld
  <2>. QED  BY <2>1, FS_EmptySet DEF Init, RefsCountCalls
<1>3. DataCounted /\ QueuedOnce
  <2>1. \A t \in Threads : Len(queue[t]) = 0
    BY DEF Init
  <2>2. QueuedOnce
    BY <2>1 DEF QueuedOnce
  <2>. QED  BY <2>2 DEF Init, DataCounted
<1>4. HeldAlive
  BY DEF Init, HeldAlive
<1>. QED  BY <1>1, <1>2, <1>3, <1>4 DEF IInv

\* Steps that move one call between phases with the same locks, and at most
\* enter or leave it: nothing that lives or counts changes.
LEMMA MoveStep ==
  ASSUME IInv, NEW c \in Calls, NEW q \in Phases, Goto(c, q),
         phase[c] # "posted",
         UNCHANGED <<lifeVars, refVars, queue>>,
         locker' \in Threads \cup {NoThread},
         dest' \in [Calls -> Threads], stack' \in [Threads -> Seq(Calls)],
         phase[c] \in CoreHeld <=> q \in CoreHeld,
         phase[c] \in ModelHeld <=> q \in ModelHeld,
         q \in {"posted", "running", "unlocked"} => phase[c] \in CoreHeld
  PROVE  IInv'
<1>0. TypeOK /\ RefsCountCalls /\ DataCounted /\ HeldAlive /\ QueuedOnce
  BY DEF IInv
<1>1. RefsCountCalls' /\ (phase[c] \in CoreHeld => coreRef > 0)
  <2>1. Weight(CoreHeld, q) = Weight(CoreHeld, phase[c])
        /\ Weight(ModelHeld, q) = Weight(ModelHeld, phase[c])
        /\ Weight(CoreHeld, q) \in Nat /\ Weight(ModelHeld, q) \in Nat
    BY DEF Weight
  <2>2. coreRef \in Nat /\ modelRef \in Nat /\ coreRef' = coreRef /\ modelRef' = modelRef
    BY <1>0 DEF TypeOK, refVars
  <2>. QED  BY <1>0, <2>1, <2>2, RefMove
<1>2. TypeOK'
  BY <1>0 DEF TypeOK, lifeVars, refVars, Goto
<1>3. DataCounted'
  BY <1>0 DEF DataCounted, refVars
<1>4. HeldAlive'
  <2>1. CASE phase[c] \in CoreHeld
    BY <2>1, <1>0, <1>1 DEF HeldAlive, DataCounted, MembersExist, lifeVars, refVars
  <2>2. CASE phase[c] \notin CoreHeld
    <3>1. Closures(phase') \subseteq Closures(phase)
      BY <2>2, <1>0 DEF Closures, Goto, TypeOK
    <3>. QED  BY <3>1, <1>0 DEF HeldAlive, lifeVars, refVars, MembersExist
  <2>. QED  BY <2>1, <2>2
<1>5. QueuedOnce'
  BY <1>0, QueueKept
<1>. QED  BY <1>1, <1>2, <1>3, <1>4, <1>5 DEF IInv

\* A signal or a callable starts a call, a slot goes on or falls on freed
\* memory, a call is accepted, or starts running in its caller.
LEMMA CallMoves ==
  ASSUME IInv,
         \/ \E c \in Calls, to \in Threads :
              \/ CoreSignal(c, to) \/ ModelSignal(c, to)
              \/ \E t \in Threads : NestedCall(t, c, to)
         \/ SlotCalls \/ TouchesFreed
         \/ \E t \in Threads : Accept(t) \/ RunDirectly(t)
  PROVE  IInv'
<1>0. TypeOK /\ UI \in Threads /\ SDK \in Threads
  BY DEF IInv, Threads
<1>1. ASSUME NEW c \in Calls, NEW to \in Threads, NEW t \in Threads,
             NEW p \in {"calling", "inSlot"}, Start(t, c, to, p)
      PROVE  IInv'
  <2>1. stack' \in [Threads -> Seq(Calls)]
    <3>1. <<c>> \o stack[t] \in Seq(Calls)
      BY <1>0 DEF TypeOK
    <3>. QED  BY <3>1, <1>1, <1>0 DEF TypeOK, Start, Enter
  <2>2. dest' \in [Calls -> Threads] /\ locker' \in Threads \cup {NoThread}
    BY <1>1, <1>0 DEF TypeOK, Start
  <2>3. phase[c] = "free" /\ Goto(c, p) /\ UNCHANGED <<lifeVars, refVars, queue>>
    BY <1>1 DEF Start
  <2>. QED  BY <2>1, <2>2, <2>3, MoveStep DEF CoreHeld, ModelHeld, Phases
<1>2. CASE SlotCalls
  <2>1. Top(SDK) \in Calls
    BY <1>0, <1>2, TopCall DEF SlotCalls, Inside
  <2>2. phase[Top(SDK)] = "inSlot" /\ Goto(Top(SDK), "calling")
        /\ UNCHANGED <<lifeVars, refVars, queue, locker, dest, stack>>
    BY <1>2 DEF SlotCalls, Inside
  <2>3. dest' \in [Calls -> Threads] /\ locker' \in Threads \cup {NoThread}
        /\ stack' \in [Threads -> Seq(Calls)]
    BY <2>2, <1>0 DEF TypeOK
  <2>. QED  BY <2>1, <2>2, <2>3, MoveStep DEF CoreHeld, ModelHeld, Phases
<1>3. CASE TouchesFreed
  <2>1. Top(SDK) \in Calls /\ Tail(stack[SDK]) \in Seq(Calls)
    BY <1>0, <1>3, TopCall DEF TouchesFreed, Inside
  <2>2. phase[Top(SDK)] \in {"inSlot", "calling"} /\ Goto(Top(SDK), "wild")
        /\ UNCHANGED <<lifeVars, refVars, queue, locker, dest>>
    BY <1>3 DEF TouchesFreed, Inside
  <2>3. dest' \in [Calls -> Threads] /\ locker' \in Threads \cup {NoThread}
        /\ stack' \in [Threads -> Seq(Calls)]
    BY <2>1, <2>2, <1>0, <1>3 DEF TypeOK, TouchesFreed, Leave
  <2>. QED  BY <2>1, <2>2, <2>3, MoveStep DEF CoreHeld, ModelHeld, Phases
<1>4. ASSUME NEW t \in Threads, Accept(t) \/ RunDirectly(t)
      PROVE  IInv'
  <2>1. Top(t) \in Calls
    BY <1>0, <1>4, TopCall DEF Accept, RunDirectly, Inside
  <2>2. /\ \/ phase[Top(t)] = "both" /\ Goto(Top(t), "accepted")
           \/ phase[Top(t)] = "accepted" /\ Goto(Top(t), "running")
        /\ UNCHANGED <<lifeVars, refVars, queue, dest, stack>>
    BY <1>4 DEF Accept, RunDirectly, Inside
  <2>3. dest' \in [Calls -> Threads] /\ locker' \in Threads \cup {NoThread}
        /\ stack' \in [Threads -> Seq(Calls)]
    BY <2>2, <1>0, <1>4 DEF TypeOK, Accept, RunDirectly
  <2>. QED  BY <2>1, <2>2, <2>3, MoveStep DEF CoreHeld, ModelHeld, Phases
<1>. QED
  BY <1>0, <1>1, <1>2, <1>3, <1>4 DEF CoreSignal, ModelSignal, NestedCall

\* mCore.lock() on a live, or already locked, Core; on an expired one.
LEMMA LockCoreStep == ASSUME IInv, NEW t \in Threads, LockCore(t) PROVE IInv'
<1> DEFINE c == Top(t)
           ok == coreRef > 0 \/ coreLife = "alive"
<1>0. TypeOK /\ RefsCountCalls /\ DataCounted /\ HeldAlive /\ QueuedOnce
  BY DEF IInv
<1>1. c \in Calls /\ phase[c] = "calling"
  BY <1>0, TopCall DEF LockCore, Inside
<1>2. PICK q \in {"coreOk", "coreFail"} :
        /\ Goto(c, q) /\ (q = "coreOk" <=> ok)
        /\ coreRef' = IF ok THEN coreRef + 1 ELSE coreRef
        /\ coreData' = (coreData \/ ok)
        /\ locker' = t
        /\ UNCHANGED <<lifeVars, modelRef, modelData, dest, stack, queue>>
  BY DEF LockCore
<1>3. q \in Phases /\ phase \in [Calls -> Phases] /\ coreRef \in Nat /\ modelRef \in Nat
  BY <1>0 DEF Phases, TypeOK
<1>4. RefsCountCalls' /\ coreRef' \in Nat /\ modelRef' \in Nat
  <2>1. Weight(CoreHeld, q) = (IF ok THEN 1 ELSE 0) /\ Weight(CoreHeld, phase[c]) = 0
        /\ Weight(ModelHeld, q) = 0 /\ Weight(ModelHeld, phase[c]) = 0
    BY <1>1, <1>2 DEF Weight, CoreHeld, ModelHeld
  <2>. HIDE DEF ok
  <2>. QED  BY <1>0, <1>1, <1>2, <1>3, <2>1, RefMove
<1>5. TypeOK'
  BY <1>0, <1>2, <1>3, <1>4 DEF TypeOK, lifeVars, Goto
<1>6. DataCounted'
  <2>1. coreData' <=> coreData \/ ok
    BY <1>2
  <2>2. ok => coreRef' = coreRef + 1
    BY <1>2
  <2>3. ~ok => coreRef' = coreRef
    BY <1>2
  <2>4. UNCHANGED <<modelRef, modelData>>
    BY <1>2
  <2>. HIDE DEF ok
  <2>. QED  BY <1>0, <1>3, <2>1, <2>2, <2>3, <2>4 DEF DataCounted
<1>7. HeldAlive'
  <2>1. ok => coreLife = "alive"
    BY <1>0 DEF HeldAlive, DataCounted
  <2>2. Closures(phase') = Closures(phase)
    BY <1>1, <1>2, <1>3 DEF Closures, Goto
  <2>. HIDE DEF ok
  <2>. QED  BY <1>0, <1>2, <2>1, <2>2 DEF HeldAlive, MembersExist, lifeVars
<1>8. QueuedOnce'
  BY <1>0, <1>1, <1>2, <1>3, QueueKept
<1>. QED  BY <1>4, <1>5, <1>6, <1>7, <1>8 DEF IInv

\* mModel.lock(), after a Core that was, or was not, locked.
LEMMA LockModelStep == ASSUME IInv, NEW t \in Threads, LockModel(t) PROVE IInv'
<1> DEFINE c == Top(t)
           ok == modelRef > 0 \/ modelLife = "alive"
<1>0. TypeOK /\ RefsCountCalls /\ DataCounted /\ HeldAlive /\ QueuedOnce
  BY DEF IInv
<1>1. c \in Calls /\ phase[c] \in {"coreOk", "coreFail"}
  BY <1>0, TopCall DEF LockModel, Inside
<1>2. PICK q \in {"both", "onlyCore", "onlyModel", "neither"} :
        /\ Goto(c, q)
        /\ q \in {"both", "onlyModel"} <=> ok
        /\ q \in {"both", "onlyCore"} <=> phase[c] = "coreOk"
        /\ modelRef' = IF ok THEN modelRef + 1 ELSE modelRef
        /\ modelData' = (modelData \/ ok)
        /\ UNCHANGED <<lifeVars, locker, coreRef, coreData, dest, stack, queue>>
  BY DEF LockModel, Inside
<1>3. q \in Phases /\ phase \in [Calls -> Phases] /\ coreRef \in Nat /\ modelRef \in Nat
  BY <1>0 DEF Phases, TypeOK
<1>4. RefsCountCalls' /\ coreRef' \in Nat /\ modelRef' \in Nat
  <2>1. Weight(CoreHeld, q) = Weight(CoreHeld, phase[c]) /\ Weight(CoreHeld, q) \in Nat
        /\ Weight(ModelHeld, q) = (IF ok THEN 1 ELSE 0)
        /\ Weight(ModelHeld, phase[c]) = 0
    BY <1>1, <1>2 DEF Weight, CoreHeld, ModelHeld
  <2>. HIDE DEF ok
  <2>. QED  BY <1>0, <1>1, <1>2, <1>3, <2>1, RefMove
<1>5. TypeOK'
  BY <1>0, <1>2, <1>3, <1>4 DEF TypeOK, lifeVars, Goto
<1>6. DataCounted'
  <2>1. modelData' <=> modelData \/ ok
    BY <1>2
  <2>2. ok => modelRef' = modelRef + 1
    BY <1>2
  <2>3. ~ok => modelRef' = modelRef
    BY <1>2
  <2>4. UNCHANGED <<coreRef, coreData>>
    BY <1>2
  <2>. HIDE DEF ok
  <2>. QED  BY <1>0, <1>3, <2>1, <2>2, <2>3, <2>4 DEF DataCounted
<1>7. HeldAlive'
  <2>1. ok => modelLife = "alive"
    BY <1>0 DEF HeldAlive, DataCounted
  <2>2. Closures(phase') = Closures(phase)
    BY <1>1, <1>2, <1>3 DEF Closures, Goto
  <2>. HIDE DEF ok
  <2>. QED  BY <1>0, <1>2, <2>1, <2>2 DEF HeldAlive, MembersExist, lifeVars
<1>8. QueuedOnce'
  BY <1>0, <1>1, <1>2, <1>3, QueueKept
<1>. QED  BY <1>4, <1>5, <1>6, <1>7, <1>8 DEF IInv

\* A call gives back exactly what it had locked; what is no longer held is
\* condemned, and nothing that is.
LEMMA ReleaseStep ==
  ASSUME IInv, NEW c \in Calls, NEW q \in {"refused", "unlocked"}, Goto(c, q),
         NEW core \in BOOLEAN, NEW model \in BOOLEAN,
         core <=> phase[c] \in CoreHeld, model <=> phase[c] \in ModelHeld,
         phase[c] \notin {"posted", "unlocked"},
         q = "unlocked" <=> phase[c] = "running",
         UnlockObjects(core, model), ReapCore, ReapModel,
         UNCHANGED <<gui, keeper, connLife, connected, dest, queue>>,
         locker' \in Threads \cup {NoThread}, stack' \in [Threads -> Seq(Calls)]
  PROVE  IInv'
<1>0. TypeOK /\ RefsCountCalls /\ DataCounted /\ HeldAlive /\ QueuedOnce
  BY DEF IInv
<1>1. q \in Phases /\ q \notin CoreHeld /\ q \notin ModelHeld
  BY DEF Phases, CoreHeld, ModelHeld
<1>2. phase \in [Calls -> Phases] /\ coreRef \in Nat /\ modelRef \in Nat
  BY <1>0 DEF TypeOK
<1>3. /\ coreRef' = IF core THEN coreRef - 1 ELSE coreRef
      /\ modelRef' = IF model THEN modelRef - 1 ELSE modelRef
      /\ coreData' <=> coreData /\ coreRef' > 0
      /\ modelData' <=> modelData /\ modelRef' > 0
      /\ coreData' \in BOOLEAN /\ modelData' \in BOOLEAN
  BY DEF UnlockObjects
<1>4. RefsCountCalls' /\ coreRef' \in Nat /\ modelRef' \in Nat
  <2>1. Weight(CoreHeld, q) = 0 /\ Weight(ModelHeld, q) = 0
        /\ Weight(CoreHeld, phase[c]) = (IF core THEN 1 ELSE 0)
        /\ Weight(ModelHeld, phase[c]) = (IF model THEN 1 ELSE 0)
    BY <1>1 DEF Weight
  <2>. QED  BY <1>0, <1>1, <1>2, <1>3, <2>1, RefMove
<1>5. DataCounted'
  BY <1>0, <1>2, <1>3, <1>4 DEF DataCounted
<1>6. /\ coreLife' \in {coreLife, "condemned"} /\ modelLife' \in {modelLife, "condemned"}
      /\ MembersExist(coreLife') <=> MembersExist(coreLife)
  BY DEF ReapCore, ReapModel, MembersExist
<1>7. TypeOK'
  <2>1. phase' \in [Calls -> Phases]
    BY <1>1, <1>2 DEF Goto
  <2>2. coreLife' \in {"alive", "condemned", "destructing", "dead"}
        /\ modelLife' \in {"alive", "condemned", "dead"}
    BY <1>0, <1>6 DEF TypeOK
  <2>. QED  BY <1>0, <1>3, <1>4, <2>1, <2>2 DEF TypeOK
<1>8. HeldAlive'
  <2>1. Closures(phase') = Closures(phase)
    BY <1>2 DEF Closures, Goto
  <2>2. gui' \/ coreData' => coreLife' = "alive"
    BY <1>0, <1>3 DEF HeldAlive, ReapCore
  <2>3. MembersExist(coreLife') \/ modelData' => modelLife' = "alive"
    BY <1>0, <1>3, <1>6 DEF HeldAlive, ReapModel
  <2>. QED  BY <1>0, <1>6, <2>1, <2>2, <2>3 DEF HeldAlive
<1>9. QueuedOnce'
  BY <1>0, <1>1, QueueKept
<1>. QED  BY <1>4, <1>5, <1>7, <1>8, <1>9 DEF IInv

\* tryLock() backs out, or the closure unlocks what tryLock() locked.
LEMMA RefuseUnlockStep ==
  ASSUME IInv, NEW t \in Threads, Refuse(t) \/ Unlock(t)  PROVE IInv'
<1>0. TypeOK
  BY DEF IInv
<1>1. Top(t) \in Calls /\ Tail(stack[t]) \in Seq(Calls)
  BY <1>0, TopCall DEF Refuse, Unlock, Inside
<1>2. CASE Refuse(t)
  <2> DEFINE core == Inside(t, "onlyCore")
             model == Inside(t, "onlyModel")
  <2>1. phase[Top(t)] \in {"onlyCore", "onlyModel", "neither"}
        /\ core = (phase[Top(t)] = "onlyCore") /\ model = (phase[Top(t)] = "onlyModel")
    BY <1>2 DEF Refuse, Inside
  <2>2. core \in BOOLEAN /\ model \in BOOLEAN
        /\ (core <=> phase[Top(t)] \in CoreHeld) /\ (model <=> phase[Top(t)] \in ModelHeld)
    BY <2>1 DEF CoreHeld, ModelHeld
  <2>3. locker' \in Threads \cup {NoThread} /\ stack' \in [Threads -> Seq(Calls)]
    BY <1>0, <1>1, <1>2 DEF Refuse, Leave, TypeOK
  <2>4. UnlockObjects(core, model) /\ ReapCore /\ ReapModel /\ Goto(Top(t), "refused")
        /\ UNCHANGED <<gui, keeper, connLife, connected, dest, queue>>
    BY <1>2 DEF Refuse
  <2>. HIDE DEF core, model
  <2>. QED  BY <1>1, <2>1, <2>2, <2>3, <2>4, ReleaseStep
<1>3. CASE Unlock(t)
  <2>1. phase[Top(t)] = "running" /\ "running" \in CoreHeld /\ "running" \in ModelHeld
    BY <1>3 DEF Unlock, Inside, CoreHeld, ModelHeld
  <2>2. locker' \in Threads \cup {NoThread} /\ stack' \in [Threads -> Seq(Calls)]
    BY <1>0, <1>3 DEF Unlock, TypeOK
  <2>3. UnlockObjects(TRUE, TRUE) /\ ReapCore /\ ReapModel /\ Goto(Top(t), "unlocked")
        /\ UNCHANGED <<gui, keeper, connLife, connected, dest, queue>>
    BY <1>3 DEF Unlock
  <2>. QED  BY <1>1, <2>1, <2>2, <2>3, ReleaseStep
<1>. QED  BY <1>2, <1>3

\* An accepted call for the other thread goes to the end of its queue.
LEMMA PostStep == ASSUME IInv, NEW t \in Threads, Post(t) PROVE IInv'
<1> DEFINE c == Top(t)
           d == dest[c]
<1>0. TypeOK /\ RefsCountCalls /\ DataCounted /\ HeldAlive /\ QueuedOnce
  BY DEF IInv
<1>1. c \in Calls /\ Tail(stack[t]) \in Seq(Calls) /\ phase[c] = "accepted" /\ d \in Threads
  BY <1>0, TopCall DEF Post, Inside, TypeOK
<1>2. /\ Goto(c, "posted") /\ queue' = [queue EXCEPT ![d] = Append(@, c)]
      /\ stack' = [stack EXCEPT ![t] = Tail(@)]
      /\ UNCHANGED <<lifeVars, locker, refVars, dest>>
  BY DEF Post, Leave
<1>3. phase \in [Calls -> Phases] /\ queue \in [Threads -> Seq(Calls)]
      /\ coreRef \in Nat /\ modelRef \in Nat /\ "posted" \in Phases
  BY <1>0 DEF TypeOK, Phases
<1>. HIDE DEF c, d
<1>4. RefsCountCalls' /\ coreRef > 0
  <2>1. Weight(CoreHeld, "posted") = 1 /\ Weight(CoreHeld, phase[c]) = 1
        /\ Weight(ModelHeld, "posted") = 1 /\ Weight(ModelHeld, phase[c]) = 1
        /\ phase[c] \in CoreHeld
    BY <1>1 DEF Weight, CoreHeld, ModelHeld
  <2>2. coreRef' = coreRef /\ modelRef' = modelRef
    BY <1>2 DEF refVars
  <2>. QED  BY <1>0, <1>1, <1>2, <1>3, <2>1, <2>2, RefMove
<1>5. TypeOK'
  <2>1. queue' \in [Threads -> Seq(Calls)] /\ stack' \in [Threads -> Seq(Calls)]
        /\ phase' \in [Calls -> Phases]
    BY <1>0, <1>1, <1>2, <1>3 DEF TypeOK, Goto
  <2>. QED  BY <1>0, <1>2, <2>1 DEF TypeOK, lifeVars, refVars
<1>6. DataCounted' /\ HeldAlive'
  BY <1>0, <1>2, <1>4 DEF DataCounted, HeldAlive, MembersExist, lifeVars, refVars
<1>7. QueuedOnce'
  <2>1. \A u \in Threads : \A i \in 1..Len(queue[u]) :
          queue[u][i] \in Calls /\ queue[u][i] # c /\ phase[queue[u][i]] = "posted"
    BY <1>0, <1>1, <1>3 DEF QueuedOnce
  <2>2. /\ Len(queue'[d]) = Len(queue[d]) + 1 /\ queue'[d][Len(queue[d]) + 1] = c
        /\ \A i \in 1..Len(queue[d]) : queue'[d][i] = queue[d][i]
        /\ \A u \in Threads \ {d} : queue'[u] = queue[u]
        /\ \A u \in Threads : Len(queue[u]) \in Nat
    BY <1>1, <1>2, <1>3
  <2>3. phase'[c] = "posted" /\ \A e \in Calls \ {c} : phase'[e] = phase[e]
    BY <1>1, <1>2, <1>3 DEF Goto
  <2>4. ASSUME NEW u \in Threads, NEW i \in 1..Len(queue'[u])
        PROVE  \/ i \in 1..Len(queue[u]) /\ queue'[u][i] = queue[u][i]
               \/ u = d /\ i = Len(queue[d]) + 1 /\ queue'[u][i] = c
    BY <1>1, <2>2
  <2>5. ASSUME NEW u \in Threads, NEW i \in 1..Len(queue'[u])
        PROVE  phase'[queue'[u][i]] = "posted"
    BY <2>1, <2>3, <2>4
  <2>6. ASSUME NEW u \in Threads, NEW v \in Threads, NEW i \in 1..Len(queue'[u]),
               NEW j \in 1..Len(queue'[v]), queue'[u][i] = queue'[v][j]
        PROVE  u = v /\ i = j
    <3>1. \/ i \in 1..Len(queue[u]) /\ queue'[u][i] = queue[u][i]
          \/ u = d /\ i = Len(queue[d]) + 1 /\ queue'[u][i] = c
      BY <2>4
    <3>2. \/ j \in 1..Len(queue[v]) /\ queue'[v][j] = queue[v][j]
          \/ v = d /\ j = Len(queue[d]) + 1 /\ queue'[v][j] = c
      BY <2>4
    <3>. QED  BY <3>1, <3>2, <2>1, <2>6, <1>0 DEF QueuedOnce
  <2>. QED  BY <2>5, <2>6 DEF QueuedOnce
<1>. QED  BY <1>4, <1>5, <1>6, <1>7 DEF IInv

\* The event loop takes the closure at the head of its queue.
LEMMA TakeCallStep == ASSUME IInv, NEW t \in Threads, TakeCall(t) PROVE IInv'
<1> DEFINE c == Head(queue[t])
<1>0. TypeOK /\ RefsCountCalls /\ DataCounted /\ HeldAlive /\ QueuedOnce
  BY DEF IInv
<1>1. phase \in [Calls -> Phases] /\ queue \in [Threads -> Seq(Calls)]
      /\ coreRef \in Nat /\ modelRef \in Nat /\ "running" \in Phases
  BY <1>0 DEF TypeOK, Phases
<1>2. queue[t] # <<>> /\ Len(queue[t]) > 0 /\ c = queue[t][1] /\ c \in Calls
      /\ Tail(queue[t]) \in Seq(Calls)
  BY <1>1 DEF TakeCall
<1>3. phase[c] = "posted"
  BY <1>0, <1>1, <1>2 DEF QueuedOnce
<1>4. /\ Goto(c, "running") /\ queue' = [queue EXCEPT ![t] = Tail(@)]
      /\ stack' = [stack EXCEPT ![t] = <<c>> \o @]
      /\ UNCHANGED <<lifeVars, locker, refVars, dest>>
  BY DEF TakeCall, Enter
<1>. HIDE DEF c
<1>5. RefsCountCalls' /\ coreRef > 0
  <2>1. Weight(CoreHeld, "running") = 1 /\ Weight(CoreHeld, phase[c]) = 1
        /\ Weight(ModelHeld, "running") = 1 /\ Weight(ModelHeld, phase[c]) = 1
        /\ phase[c] \in CoreHeld
    BY <1>3 DEF Weight, CoreHeld, ModelHeld
  <2>2. coreRef' = coreRef /\ modelRef' = modelRef
    BY <1>4 DEF refVars
  <2>. QED  BY <1>0, <1>1, <1>2, <1>4, <2>1, <2>2, RefMove
<1>6. TypeOK'
  <2>1. <<c>> \o stack[t] \in Seq(Calls)
    BY <1>0, <1>2 DEF TypeOK
  <2>2. queue' \in [Threads -> Seq(Calls)] /\ stack' \in [Threads -> Seq(Calls)]
        /\ phase' \in [Calls -> Phases]
    BY <1>0, <1>1, <1>2, <1>4, <2>1 DEF TypeOK, Goto
  <2>. QED  BY <1>0, <1>4, <2>2 DEF TypeOK, lifeVars, refVars
<1>7. DataCounted' /\ HeldAlive'
  BY <1>0, <1>4, <1>5 DEF DataCounted, HeldAlive, MembersExist, lifeVars, refVars
<1>8. QueuedOnce'
  <2>1. \A e \in Calls \ {c} : phase'[e] = phase[e]
    BY <1>1, <1>2, <1>4 DEF Goto
  <2>2. /\ Len(queue'[t]) = Len(queue[t]) - 1
        /\ \A i \in 1..Len(queue'[t]) : queue'[t][i] = queue[t][i + 1]
        /\ \A u \in Threads \ {t} : queue'[u] = queue[u]
        /\ \A u \in Threads : Len(queue[u]) \in Nat
    BY <1>1, <1>2, <1>4
  <2>3. ASSUME NEW u \in Threads, NEW i \in 1..Len(queue'[u])
        PROVE  \E k \in 1..Len(queue[u]) :
                 /\ queue'[u][i] = queue[u][k]
                 /\ k = IF u = t THEN i + 1 ELSE i
    BY <2>2
  <2>4. \A u \in Threads : \A k \in 1..Len(queue[u]) :
          queue[u][k] \in Calls /\ (queue[u][k] = c => u = t /\ k = 1)
    BY <1>0, <1>1, <1>2 DEF QueuedOnce
  <2>5. ASSUME NEW u \in Threads, NEW i \in 1..Len(queue'[u])
        PROVE  phase'[queue'[u][i]] = "posted"
    <3>1. PICK k \in 1..Len(queue[u]) :
            queue'[u][i] = queue[u][k] /\ k = IF u = t THEN i + 1 ELSE i
      BY <2>3
    <3>2. queue[u][k] # c
      BY <3>1, <2>4
    <3>. QED  BY <3>1, <3>2, <2>1, <2>4, <1>0 DEF QueuedOnce
  <2>6. ASSUME NEW u \in Threads, NEW v \in Threads, NEW i \in 1..Len(queue'[u]),
               NEW j \in 1..Len(queue'[v]), queue'[u][i] = queue'[v][j]
        PROVE  u = v /\ i = j
    <3>1. PICK k \in 1..Len(queue[u]) :
            queue'[u][i] = queue[u][k] /\ k = IF u = t THEN i + 1 ELSE i
      BY <2>3
    <3>2. PICK l \in 1..Len(queue[v]) :
            queue'[v][j] = queue[v][l] /\ l = IF v = t THEN j + 1 ELSE j
      BY <2>3
    <3>3. u = v /\ k = l
      BY <3>1, <3>2, <2>6, <1>0 DEF QueuedOnce
    <3>. QED  BY <3>1, <3>2, <3>3
  <2>. QED  BY <2>5, <2>6 DEF QueuedOnce
<1>. QED  BY <1>5, <1>6, <1>7, <1>8 DEF IInv

\* The closure is destroyed, and the connection condemned if that was all.
LEMMA EndCallStep == ASSUME IInv, NEW t \in Threads, EndCall(t) PROVE IInv'
<1> DEFINE c == Top(t)
<1>0. TypeOK /\ RefsCountCalls /\ DataCounted /\ HeldAlive /\ QueuedOnce
  BY DEF IInv
<1>1. c \in Calls /\ Tail(stack[t]) \in Seq(Calls) /\ phase[c] = "unlocked"
  BY <1>0, TopCall DEF EndCall, Inside
<1>2. /\ Goto(c, "done") /\ locker' = NoThread /\ coreLife' = coreLife /\ ReapConn
      /\ stack' = [stack EXCEPT ![t] = Tail(@)]
      /\ UNCHANGED <<gui, keeper, modelLife, connected, refVars, dest, queue>>
  BY DEF EndCall, Leave
<1>3. phase \in [Calls -> Phases] /\ coreRef \in Nat /\ modelRef \in Nat /\ "done" \in Phases
  BY <1>0 DEF TypeOK, Phases
<1>. HIDE DEF c
<1>4. RefsCountCalls'
  <2>1. Weight(CoreHeld, "done") = 0 /\ Weight(CoreHeld, phase[c]) = 0
        /\ Weight(ModelHeld, "done") = 0 /\ Weight(ModelHeld, phase[c]) = 0
    BY <1>1 DEF Weight, CoreHeld, ModelHeld
  <2>2. coreRef' = coreRef /\ modelRef' = modelRef
    BY <1>2 DEF refVars
  <2>. QED  BY <1>0, <1>1, <1>2, <1>3, <2>1, <2>2, RefMove
<1>5. TypeOK'
  <2>1. stack' \in [Threads -> Seq(Calls)] /\ phase' \in [Calls -> Phases]
    BY <1>0, <1>1, <1>2, <1>3 DEF TypeOK, Goto
  <2>2. connLife' \in {"alive", "condemned", "dead"}
    BY <1>0, <1>2 DEF ReapConn, TypeOK
  <2>. QED  BY <1>0, <1>2, <2>1, <2>2 DEF TypeOK, refVars
<1>6. DataCounted'
  BY <1>0, <1>2 DEF DataCounted, refVars
<1>7. HeldAlive'
  <2>1. Closures(phase') \subseteq Closures(phase)
    BY <1>1, <1>2, <1>3 DEF Closures, Goto
  <2>. QED  BY <1>0, <1>2, <2>1 DEF HeldAlive, MembersExist, ReapConn, refVars
<1>8. QueuedOnce'
  BY <1>0, <1>1, <1>2, <1>3, QueueKept
<1>. QED  BY <1>4, <1>5, <1>6, <1>7, <1>8 DEF IInv

\* A pointer outside the calls is dropped, or an object's deletion is run.
LEMMA LifeStep ==
  ASSUME IInv,
         \/ DropGui \/ DropKeeper \/ DestroyCoreMembers \/ DestroyCoreBase
         \/ DestroyModel \/ DestroyConn
  PROVE  IInv'
<1>0. TypeOK /\ RefsCountCalls /\ DataCounted /\ HeldAlive /\ QueuedOnce
  BY DEF IInv
<1>1. UNCHANGED <<locker, refVars, phase, dest, stack, queue>>
  BY DEF DropGui, DropKeeper, DestroyCoreMembers, DestroyCoreBase, DestroyModel,
         DestroyConn, refVars
<1>2. RefsCountCalls' /\ DataCounted' /\ QueuedOnce'
  BY <1>0, <1>1 DEF RefsCountCalls, CallsIn, CoreHeld, ModelHeld, DataCounted,
                    QueuedOnce, refVars
<1>3. Closures(phase') = Closures(phase)
  BY <1>1
<1>4. /\ gui' \in BOOLEAN /\ keeper' \in BOOLEAN /\ connected' \in BOOLEAN
      /\ coreLife' \in {"alive", "condemned", "destructing", "dead"}
      /\ modelLife' \in {"alive", "condemned", "dead"}
      /\ connLife' \in {"alive", "condemned", "dead"}
  <2>1. CASE DropGui
    BY <2>1, <1>0 DEF DropGui, ReapCore, TypeOK
  <2>2. CASE DropKeeper
    BY <2>2, <1>0 DEF DropKeeper, ReapModel, TypeOK
  <2>3. CASE DestroyCoreMembers
    BY <2>3, <1>0 DEF DestroyCoreMembers, ReapModel, ReapConn, TypeOK
  <2>4. CASE DestroyCoreBase
    BY <2>4, <1>0 DEF DestroyCoreBase, TypeOK
  <2>5. CASE DestroyModel
    BY <2>5, <1>0 DEF DestroyModel, TypeOK
  <2>6. CASE DestroyConn
    BY <2>6, <1>0 DEF DestroyConn, TypeOK
  <2>. QED  BY <2>1, <2>2, <2>3, <2>4, <2>5, <2>6
<1>5. TypeOK'
  BY <1>0, <1>1, <1>4 DEF TypeOK, refVars
<1>6. HeldAlive'
  <2>0. UNCHANGED <<coreData, modelData>> /\ HeldAlive
    BY <1>0, <1>1 DEF refVars
  <2>. USE <1>3 DEF HeldAlive, MembersExist
  <2>1. CASE DropGui
    BY <2>0, <2>1 DEF DropGui, ReapCore
  <2>2. CASE DropKeeper
    BY <2>0, <2>2 DEF DropKeeper, ReapModel
  <2>3. CASE DestroyCoreMembers
    BY <2>0, <2>3 DEF DestroyCoreMembers, ReapModel, ReapConn
  <2>4. CASE DestroyCoreBase
    BY <2>0, <2>4 DEF DestroyCoreBase
  <2>5. CASE DestroyModel
    BY <2>0, <2>5 DEF DestroyModel
  <2>6. CASE DestroyConn
    BY <2>0, <2>6 DEF DestroyConn
  <2>. QED  BY <2>1, <2>2, <2>3, <2>4, <2>5, <2>6
<1>. QED  BY <1>2, <1>5, <1>6 DEF IInv

-----------------------------------------------------------------------------

\* The invariant is inductive.
THEOREM Invariance == Spec => []IInv
<1>1. Init => IInv
  BY InitIInv
<1>2. IInv /\ [Next]_vars => IInv'
  <2>. SUFFICES ASSUME IInv, [Next]_vars PROVE IInv'
    OBVIOUS
  <2>1. ASSUME NEW t \in Threads, Progress(t)  PROVE IInv'
    BY <2>1, LockCoreStep, LockModelStep, RefuseUnlockStep, CallMoves, PostStep,
       TakeCallStep, EndCallStep DEF Progress
  <2>2. CASE UNCHANGED vars
    BY <2>2 DEF vars, lifeVars, refVars, IInv, TypeOK, RefsCountCalls, CallsIn, CoreHeld,
                ModelHeld, DataCounted, HeldAlive, MembersExist, Closures, QueuedOnce
  <2>3. CASE SlotCalls \/ TouchesFreed
    BY <2>3, CallMoves
  <2>4. ASSUME NEW c \in Calls, NEW to \in Threads,
               \/ CoreSignal(c, to) \/ ModelSignal(c, to)
               \/ \E t \in Threads : NestedCall(t, c, to)
        PROVE  IInv'
    BY <2>4, CallMoves
  <2>5. CASE \/ DropGui \/ DropKeeper \/ DestroyCoreMembers \/ DestroyCoreBase
             \/ DestroyModel \/ DestroyConn
    BY <2>5, LifeStep
  <2>. QED  BY <2>1, <2>2, <2>3, <2>4, <2>5 DEF Next
<1>. QED  BY <1>1, <1>2, PTL DEF Spec

\* Every variable keeps its type: a count never falls below zero ("too much
\* unlocking", SafeSharedPointer.hpp:60-61, is never logged).
THEOREM TypeCorrect == Spec => []TypeOK
<1>1. IInv => TypeOK
  BY DEF IInv
<1>. QED  BY <1>1, Invariance, PTL

\* The two mCountRef are the numbers of calls that hold the two objects.
THEOREM CountsCorrect == Spec => []RefsCountCalls
<1>1. IInv => RefsCountCalls
  BY DEF IInv
<1>. QED  BY <1>1, Invariance, PTL

\* A count is not zero while a call holds the object.
LEMMA HeldCount ==
  ASSUME IInv, NEW c \in Calls
  PROVE  /\ phase[c] \in CoreHeld => coreRef > 0
         /\ phase[c] \in ModelHeld => modelRef > 0
<1>1. phase \in [Calls -> Phases] /\ phase[c] \in Phases
      /\ phase = [phase EXCEPT ![c] = phase[c]]
  BY DEF IInv, TypeOK
<1>. QED  BY <1>1, CountMove DEF IInv, RefsCountCalls

\* While a callable runs, the Core, the Model and the connection are alive.
THEOREM Protection == Spec => []CallsRunOnLiveObjects
<1>1. IInv => CallsRunOnLiveObjects
  <2>. SUFFICES ASSUME IInv, NEW c \in Calls, phase[c] = "running"
                PROVE  coreLife = "alive" /\ modelLife = "alive" /\ connLife = "alive"
    BY DEF CallsRunOnLiveObjects
  <2>1. coreRef > 0 /\ modelRef > 0
    BY HeldCount DEF CoreHeld, ModelHeld
  <2>2. coreData /\ modelData
    BY <2>1 DEF IInv, DataCounted
  <2>. QED  BY <2>2 DEF IInv, HeldAlive, MembersExist
<1>. QED  BY <1>1, Invariance, PTL

\* The connection outlives every call that was accepted.
THEOREM ConnectionKept == Spec => []ConnectionOutlivesCalls
<1>1. IInv => ConnectionOutlivesCalls
  <2>. SUFFICES ASSUME IInv, NEW c \in Calls,
                       phase[c] \in {"both", "accepted", "posted", "running", "unlocked"}
                PROVE  connLife = "alive"
    BY DEF ConnectionOutlivesCalls
  <2>1. CASE phase[c] = "unlocked"
    BY <2>1 DEF IInv, HeldAlive, Closures
  <2>2. CASE phase[c] # "unlocked"
    <3>1. coreRef > 0
      BY <2>2, HeldCount DEF CoreHeld
    <3>2. coreData
      BY <3>1 DEF IInv, DataCounted
    <3>. QED  BY <3>2 DEF IInv, HeldAlive, MembersExist
  <2>. QED  BY <2>1, <2>2
<1>. QED  BY <1>1, Invariance, PTL

-----------------------------------------------------------------------------
(* Who is under mLocker.                                                    *)

TryLocking == {"coreOk", "coreFail", "both", "onlyCore", "onlyModel", "neither"}
UnderLock  == TryLocking \cup {"unlocked"}

\* The one call under mLocker is the innermost of the thread that holds it,
\* and the connection is not destroyed under a tryLock().
LockInv ==
  /\ \A c \in Calls : phase[c] \in UnderLock =>
       locker \in Threads /\ ~Idle(locker) /\ Top(locker) = c
  /\ connLife = "dead" => \A c \in Calls : phase[c] \notin TryLocking

\* A step of thread t that takes its call out of mLocker, or never had it
\* there, and leaves the other thread's stack alone.
LEMMA LockKept ==
  ASSUME TypeOK, LockInv, NEW c \in Calls, NEW q \in Phases \ UnderLock, Goto(c, q),
         NEW t \in Threads,
         Idle(t) \/ Top(t) = c \/ phase[Top(t)] \notin UnderLock,
         \A u \in Threads \ {t} : stack'[u] = stack[u],
         locker' = locker \/ phase[c] \in UnderLock,
         connLife' = "dead" => connLife = "dead"
  PROVE  LockInv'
<1>1. phase' \in [Calls -> Phases] /\ phase'[c] = q
      /\ \A d \in Calls \ {c} : phase'[d] = phase[d]
  BY DEF TypeOK, Goto
<1>2. ASSUME NEW d \in Calls, phase'[d] \in UnderLock
      PROVE  d # c /\ phase[d] \in UnderLock
  BY <1>1, <1>2
<1>3. ASSUME NEW d \in Calls, phase'[d] \in UnderLock
      PROVE  locker' \in Threads /\ ~Idle(locker)' /\ Top(locker)' = d
  <2>1. d # c /\ phase[d] \in UnderLock
    BY <1>2, <1>3
  <2>2. locker \in Threads /\ ~Idle(locker) /\ Top(locker) = d
    BY <2>1 DEF LockInv
  <2>3. phase[c] \notin UnderLock
    BY <2>1, <2>2 DEF LockInv
  <2>4. locker' = locker /\ locker # t
    BY <2>1, <2>2, <2>3
  <2>. QED  BY <2>2, <2>4 DEF Idle, Top
<1>4. connLife' = "dead" => \A d \in Calls : phase'[d] \notin TryLocking
  BY <1>1, <1>2 DEF LockInv, UnderLock
<1>. QED  BY <1>3, <1>4 DEF LockInv, UnderLock, TryLocking

LEMMA LockInvariance == Spec => []LockInv
<1>1. Init => LockInv
  BY DEF Init, LockInv, UnderLock, TryLocking
<1>2. TypeOK /\ LockInv /\ [Next]_vars => LockInv'
  <2>. SUFFICES ASSUME TypeOK, LockInv, [Next]_vars  PROVE LockInv'
    OBVIOUS
  <2>0. UI \in Threads /\ SDK \in Threads /\ phase \in [Calls -> Phases]
        /\ \A p \in {"free", "inSlot", "calling", "accepted", "posted", "running",
                     "done", "refused", "wild"} : p \in Phases \ UnderLock
    BY DEF TypeOK, Threads, Phases, UnderLock, TryLocking
  <2>1. ASSUME NEW c \in Calls, NEW to \in Threads, NEW t \in Threads,
               NEW p \in {"calling", "inSlot"}, Start(t, c, to, p),
               Idle(t) \/ Inside(t, "running")
        PROVE  LockInv'
    <3>1. \A u \in Threads \ {t} : stack'[u] = stack[u]
      BY <2>1 DEF Start, Enter, TypeOK
    <3>2. Goto(c, p) /\ locker' = locker /\ connLife' = connLife
      BY <2>1 DEF Start, lifeVars
    <3>3. Idle(t) \/ phase[Top(t)] \notin UnderLock
      BY <2>0, <2>1 DEF Inside
    <3>. QED  BY <2>0, <3>1, <3>2, <3>3, LockKept
  <2>2. ASSUME NEW t \in Threads, LockCore(t)  PROVE LockInv'
    <3>1. \A c \in Calls : phase[c] \notin UnderLock
      BY <2>2, ThreadsAssumption DEF LockInv, LockCore
    <3>2. Top(t) \in Calls /\ ~Idle(t) /\ connLife # "dead"
      BY <2>2, TopCall DEF LockCore, Inside
    <3>3. \E q \in {"coreOk", "coreFail"} : Goto(Top(t), q)
      BY <2>2 DEF LockCore
    <3>4. locker' = t /\ UNCHANGED <<stack, connLife>>
      BY <2>2 DEF LockCore, lifeVars
    <3>. QED  BY <2>0, <3>1, <3>2, <3>3, <3>4 DEF LockInv, Goto, Idle, Top
  <2>3. ASSUME NEW t \in Threads, LockModel(t)  PROVE LockInv'
    <3>1. Top(t) \in Calls /\ phase[Top(t)] \in TryLocking
      BY <2>3, TopCall DEF LockModel, Inside, TryLocking
    <3>2. \E q \in TryLocking : Goto(Top(t), q)
      BY <2>3 DEF LockModel, TryLocking
    <3>3. UNCHANGED <<locker, stack, connLife>>
      BY <2>3 DEF LockModel, lifeVars
    <3>. QED  BY <2>0, <3>1, <3>2, <3>3 DEF LockInv, Goto, Idle, Top, UnderLock
  <2>4. ASSUME NEW t \in Threads, Unlock(t)  PROVE LockInv'
    <3>1. \A c \in Calls : phase[c] \notin UnderLock
      BY <2>4, ThreadsAssumption DEF LockInv, Unlock
    <3>2. Top(t) \in Calls /\ ~Idle(t)
      BY <2>4, TopCall DEF Unlock, Inside
    <3>3. Goto(Top(t), "unlocked") /\ locker' = t /\ UNCHANGED <<stack, connLife>>
      BY <2>4 DEF Unlock
    <3>4. "unlocked" \notin TryLocking
      BY DEF TryLocking
    <3>. QED  BY <2>0, <3>1, <3>2, <3>3, <3>4 DEF LockInv, Goto, Idle, Top, UnderLock
  <2>5. ASSUME NEW t \in Threads,
               \/ Accept(t) \/ Refuse(t) \/ RunDirectly(t) \/ Post(t) \/ EndCall(t)
               \/ t = SDK /\ (SlotCalls \/ TouchesFreed)
        PROVE  LockInv'
    <3>1. Top(t) \in Calls
      BY <2>5, TopCall DEF Accept, Refuse, RunDirectly, Post, EndCall, SlotCalls,
                           TouchesFreed, Inside
    <3>2. \A u \in Threads \ {t} : stack'[u] = stack[u]
      BY <2>5 DEF Accept, Refuse, RunDirectly, Post, EndCall, SlotCalls, TouchesFreed,
                  Leave, TypeOK
    <3>3. \E q \in {"accepted", "refused", "running", "posted", "done", "calling", "wild"} :
            Goto(Top(t), q)
      BY <2>5 DEF Accept, Refuse, RunDirectly, Post, EndCall, SlotCalls, TouchesFreed
    <3>4. locker' = locker \/ phase[Top(t)] \in UnderLock
      BY <2>5 DEF Accept, Refuse, RunDirectly, Post, EndCall, SlotCalls, TouchesFreed,
                  Inside, UnderLock, TryLocking
    <3>5. connLife' = "dead" => connLife = "dead"
      BY <2>5 DEF Accept, Refuse, RunDirectly, Post, EndCall, SlotCalls, TouchesFreed,
                  lifeVars, ReapConn
    <3>. QED  BY <2>0, <3>1, <3>2, <3>3, <3>4, <3>5, LockKept
  <2>6. ASSUME NEW t \in Threads, TakeCall(t)  PROVE LockInv'
    <3>1. Head(queue[t]) \in Calls
      BY <2>6 DEF TakeCall, TypeOK
    <3>2. \A u \in Threads \ {t} : stack'[u] = stack[u]
      BY <2>6 DEF TakeCall, Enter, TypeOK
    <3>3. Goto(Head(queue[t]), "running") /\ Idle(t) /\ UNCHANGED <<locker, connLife>>
      BY <2>6 DEF TakeCall, AtLoop, lifeVars
    <3>. QED  BY <2>0, <3>1, <3>2, <3>3, LockKept
  <2>7. CASE DestroyConn
    BY <2>7, ThreadsAssumption DEF DestroyConn, LockInv, UnderLock, TryLocking, Idle, Top
  <2>8. CASE \/ DropGui \/ DropKeeper \/ DestroyCoreMembers \/ DestroyCoreBase
             \/ DestroyModel \/ UNCHANGED vars
    <3>1. UNCHANGED <<locker, stack, phase>> /\ (connLife' = "dead" => connLife = "dead")
      BY <2>8 DEF DropGui, DropKeeper, DestroyCoreMembers, DestroyCoreBase, DestroyModel,
                  ReapConn, vars, lifeVars
    <3>. QED  BY <3>1 DEF LockInv, UnderLock, TryLocking, Idle, Top
  <2>9. ASSUME NEW c \in Calls, NEW to \in Threads,
               \/ CoreSignal(c, to) \/ ModelSignal(c, to)
               \/ \E t \in Threads : NestedCall(t, c, to)
        PROVE  LockInv'
    BY <2>0, <2>1, <2>9 DEF CoreSignal, ModelSignal, NestedCall, AtLoop
  <2>. QED  BY <2>0, <2>2, <2>3, <2>4, <2>5, <2>6, <2>7, <2>8, <2>9 DEF Next, Progress
<1>. QED  BY <1>1, <1>2, TypeCorrect, PTL DEF Spec

\* ~SafeConnection() never finds an object still counted.
THEOREM DestroyedClean == Spec => []CleanDestruction
<1>1. IInv /\ LockInv => CleanDestruction
  <2>. SUFFICES ASSUME IInv, LockInv, connLife = "dead" PROVE coreRef = 0 /\ modelRef = 0
    BY DEF CleanDestruction
  <2>1. coreRef = 0
    BY DEF IInv, HeldAlive, MembersExist, DataCounted, TypeOK
  <2>2. \A c \in Calls : phase[c] \notin CoreHeld
    BY <2>1, HeldCount
  <2>3. CallsIn(phase, ModelHeld) = {}
    BY <2>2 DEF LockInv, TryLocking, CallsIn, CoreHeld, ModelHeld
  <2>4. modelRef = 0
    BY <2>3, FS_EmptySet DEF IInv, RefsCountCalls
  <2>. QED  BY <2>1, <2>4
<1>. QED  BY <1>1, Invariance, LockInvariance, PTL

-----------------------------------------------------------------------------
(* The connection implements ProtectedCalls.                                *)

\* What a step that moves one call shows of it.
LEMMA StatusMove ==
  ASSUME TypeOK, NEW c \in Calls, NEW q \in Phases, Goto(c, q)
  PROVE  LET status == [d \in Calls |-> Status(phase[d])]
         IN  /\ status[c] = Status(phase[c])
             /\ status' = [status EXCEPT ![c] = Status(q)]
             /\ Status(phase[c]) = Status(q) => status' = status
<1> DEFINE status == [d \in Calls |-> Status(phase[d])]
<1>1. phase \in [Calls -> Phases] /\ phase' = [phase EXCEPT ![c] = q]
  BY DEF TypeOK, Goto
<1>2. status' = [d \in Calls |-> Status(phase'[d])]
  BY DEF Status
<1>. QED  BY <1>1, <1>2

\* Every step of the connection is a step of the promise, or a stutter.
LEMMA StepRefines ==
  ASSUME IInv, [Next]_vars
  PROVE  [Promise!Next]_(Promise!vars)
<1> DEFINE status == [d \in Calls |-> Status(phase[d])]
           coreUp == MembersExist(coreLife)
           modelUp == modelLife # "dead"
<1>0. TypeOK /\ phase \in [Calls -> Phases]
  BY DEF IInv, TypeOK
<1>1. ASSUME UNCHANGED <<status, coreUp, modelUp>>
      PROVE  [Promise!Next]_(Promise!vars)
  BY <1>1 DEF Promise!vars
<1>2. ASSUME UNCHANGED <<coreUp, modelUp>>, NEW c \in Calls, NEW q \in Phases, Goto(c, q),
             \/ Status(phase[c]) = Status(q)
             \/ Status(phase[c]) = "idle" /\ Status(q) = "refused"
             \/ Status(phase[c]) = "idle" /\ Status(q) = "pending" /\ coreUp /\ modelUp
             \/ Status(phase[c]) = "pending" /\ Status(q) = "executing"
             \/ Status(phase[c]) = "executing" /\ Status(q) = "finished"
      PROVE  [Promise!Next]_(Promise!vars)
  <2>1. /\ status[c] = Status(phase[c])
        /\ status' = [status EXCEPT ![c] = Status(q)]
        /\ Status(phase[c]) = Status(q) => status' = status
    BY <1>0, <1>2, StatusMove
  <2>. HIDE DEF status, coreUp, modelUp
  <2>2. CASE Status(phase[c]) = Status(q)
    BY <1>1, <1>2, <2>1, <2>2
  <2>3. CASE Status(phase[c]) = "idle" /\ Status(q) = "refused"
    BY <1>2, <2>1, <2>3 DEF Promise!Next, Promise!Refuse, status, coreUp, modelUp
  <2>4. CASE Status(phase[c]) = "idle" /\ Status(q) = "pending" /\ coreUp /\ modelUp
    BY <1>2, <2>1, <2>4 DEF Promise!Next, Promise!Accept, status, coreUp, modelUp
  <2>5. CASE Status(phase[c]) = "pending" /\ Status(q) = "executing"
    BY <1>2, <2>1, <2>5 DEF Promise!Next, Promise!Execute, status, coreUp, modelUp
  <2>6. CASE Status(phase[c]) = "executing" /\ Status(q) = "finished"
    BY <1>2, <2>1, <2>6 DEF Promise!Next, Promise!Finish, status, coreUp, modelUp
  <2>. QED  BY <1>2, <2>2, <2>3, <2>4, <2>5, <2>6
<1>. HIDE DEF status
<1>3. ASSUME NEW t \in Threads,
             \/ LockCore(t) \/ LockModel(t) \/ Accept(t) \/ Refuse(t) \/ RunDirectly(t)
             \/ Post(t) \/ Unlock(t) \/ EndCall(t)
             \/ t = SDK /\ (SlotCalls \/ TouchesFreed)
      PROVE  [Promise!Next]_(Promise!vars)
  <2> DEFINE c == Top(t)
  <2>1. c \in Calls
    BY <1>0, <1>3, TopCall DEF LockCore, LockModel, Accept, Refuse, RunDirectly, Post,
                               Unlock, EndCall, SlotCalls, TouchesFreed, Inside
  <2>2. UNCHANGED <<coreUp, modelUp>>
    <3>1. CASE Refuse(t) \/ Unlock(t)
      <4>1. ReapCore /\ ReapModel
        BY <3>1 DEF Refuse, Unlock
      <4>. QED  BY <4>1 DEF ReapCore, ReapModel, MembersExist
    <3>2. CASE ~(Refuse(t) \/ Unlock(t))
      <4>1. UNCHANGED <<coreLife, modelLife>>
        BY <1>3, <3>2 DEF LockCore, LockModel, Accept, RunDirectly, Post, EndCall,
                          SlotCalls, TouchesFreed, lifeVars
      <4>. QED  BY <4>1
    <3>. QED  BY <3>1, <3>2
  <2>3. CASE LockModel(t) /\ Goto(c, "both")
    <3>1. phase[c] \in {"coreOk", "coreFail"}
      BY <2>3 DEF LockModel, Inside
    <3>2. phase[c] = "coreOk"
      BY <2>1, <2>3, <3>1, <1>0 DEF LockModel, Inside, Goto
    <3>3. coreRef > 0 /\ coreData
      BY <2>1, <3>2, HeldCount DEF CoreHeld, IInv, DataCounted
    <3>4. coreUp /\ modelUp
      BY <3>3 DEF IInv, HeldAlive, MembersExist
    <3>5. Status(phase[c]) = "idle" /\ Status("both") = "pending" /\ "both" \in Phases
      BY <3>2 DEF Status, Phases
    <3>. QED  BY <1>2, <2>1, <2>2, <2>3, <3>4, <3>5
  <2>4. CASE ~(LockModel(t) /\ Goto(c, "both"))
    <3>1. \/ /\ phase[c] \in {"calling", "coreOk", "coreFail", "inSlot"}
             /\ \E q \in {"coreOk", "coreFail", "onlyCore", "onlyModel", "neither",
                          "calling"} : Goto(c, q)
          \/ phase[c] = "both" /\ Goto(c, "accepted")
          \/ /\ phase[c] \in {"onlyCore", "onlyModel", "neither"} /\ Goto(c, "refused")
          \/ phase[c] = "accepted" /\ \E q \in {"running", "posted"} : Goto(c, q)
          \/ phase[c] = "running" /\ Goto(c, "unlocked")
          \/ phase[c] = "unlocked" /\ Goto(c, "done")
          \/ phase[c] \in {"inSlot", "calling"} /\ Goto(c, "wild")
      BY <1>3, <2>4 DEF LockCore, LockModel, Accept, Refuse, RunDirectly, Post, Unlock,
                        EndCall, SlotCalls, TouchesFreed, Inside
    <3>2. /\ \A p \in {"calling", "coreOk", "coreFail", "inSlot", "onlyCore", "onlyModel",
                       "neither"} : Status(p) = "idle" /\ p \in Phases
          /\ \A p \in {"both", "accepted", "posted"} : Status(p) = "pending" /\ p \in Phases
          /\ Status("running") = "executing" /\ "running" \in Phases
          /\ \A p \in {"unlocked", "done"} : Status(p) = "finished" /\ p \in Phases
          /\ \A p \in {"refused", "wild"} : Status(p) = "refused" /\ p \in Phases
      BY DEF Status, Phases
    <3>. HIDE DEF c, coreUp, modelUp
    <3>. QED  BY <1>2, <2>1, <2>2, <3>1, <3>2
  <2>. QED  BY <2>3, <2>4
<1>4. ASSUME NEW t \in Threads, TakeCall(t)
      PROVE  [Promise!Next]_(Promise!vars)
  <2>1. Head(queue[t]) \in Calls /\ phase[Head(queue[t])] = "posted"
    <3>1. queue[t] \in Seq(Calls) /\ queue[t] # <<>>
      BY <1>0, <1>4 DEF TakeCall, TypeOK
    <3>2. 1 \in 1..Len(queue[t]) /\ Head(queue[t]) = queue[t][1] /\ Head(queue[t]) \in Calls
      BY <3>1
    <3>. QED  BY <3>2 DEF IInv, QueuedOnce
  <2>2. Goto(Head(queue[t]), "running") /\ UNCHANGED <<coreUp, modelUp>>
    BY <1>4 DEF TakeCall, lifeVars, MembersExist
  <2>3. Status("posted") = "pending" /\ Status("running") = "executing" /\ "running" \in Phases
    BY DEF Status, Phases
  <2>. QED  BY <1>2, <2>1, <2>2, <2>3
<1>5. ASSUME NEW c \in Calls, NEW to \in Threads, NEW t \in Threads,
             NEW p \in {"calling", "inSlot"}, Start(t, c, to, p)
      PROVE  [Promise!Next]_(Promise!vars)
  <2>1. phase[c] = "free" /\ Goto(c, p) /\ UNCHANGED <<coreUp, modelUp>>
    BY <1>5 DEF Start, lifeVars, MembersExist
  <2>2. Status("free") = "idle" /\ Status(p) = "idle" /\ p \in Phases
    BY DEF Status, Phases
  <2>. QED  BY <1>2, <2>1, <2>2
<1>6. CASE DestroyCoreMembers
  <2>1. coreUp /\ ~coreUp' /\ UNCHANGED <<phase, modelUp>>
    BY <1>6 DEF DestroyCoreMembers, MembersExist, ReapModel
  <2>2. coreRef = 0
    BY <1>6 DEF DestroyCoreMembers, IInv, HeldAlive, DataCounted, TypeOK
  <2>3. \A c \in Calls : phase[c] \notin CoreHeld
    BY <2>2, HeldCount
  <2>4. \A c \in Calls : Status(phase[c]) \notin {"pending", "executing"}
    BY <2>3 DEF CoreHeld, Status
  <2>5. Promise!Outstanding = {}
    BY <2>4 DEF Promise!Outstanding
  <2>6. status' = status
    BY <2>1 DEF status, Status
  <2>. QED  BY <2>1, <2>5, <2>6 DEF Promise!Next, Promise!CoreDown, status
<1>7. CASE DestroyModel
  <2>1. modelUp /\ ~modelUp' /\ UNCHANGED <<phase, coreUp>>
    BY <1>7 DEF DestroyModel, MembersExist
  <2>2. modelRef = 0
    BY <1>7 DEF DestroyModel, IInv, HeldAlive, DataCounted, TypeOK
  <2>3. \A c \in Calls : phase[c] \notin ModelHeld
    BY <2>2, HeldCount
  <2>4. \A c \in Calls : Status(phase[c]) \notin {"pending", "executing"}
    BY <2>3 DEF ModelHeld, Status
  <2>5. Promise!Outstanding = {}
    BY <2>4 DEF Promise!Outstanding
  <2>6. status' = status
    BY <2>1 DEF status, Status
  <2>. QED  BY <2>1, <2>5, <2>6 DEF Promise!Next, Promise!ModelDown, status
<1>8. CASE DropGui \/ DropKeeper \/ DestroyCoreBase \/ DestroyConn \/ UNCHANGED vars
  <2>1. UNCHANGED <<phase, coreUp, modelUp>>
    BY <1>8 DEF DropGui, DropKeeper, DestroyCoreBase, DestroyConn, vars, lifeVars,
                MembersExist, ReapCore, ReapModel
  <2>2. status' = status
    BY <2>1 DEF status, Status
  <2>. QED  BY <1>1, <2>1, <2>2
<1>9. ASSUME NEW c \in Calls, NEW to \in Threads,
             \/ CoreSignal(c, to) \/ ModelSignal(c, to)
             \/ \E t \in Threads : NestedCall(t, c, to)
      PROVE  [Promise!Next]_(Promise!vars)
  BY <1>5, <1>9, UI \in Threads, SDK \in Threads
     DEF CoreSignal, ModelSignal, NestedCall, Threads
<1>10. SDK \in Threads
  BY DEF Threads
<1>. QED
  BY <1>3, <1>4, <1>6, <1>7, <1>8, <1>9, <1>10 DEF Next, Progress

\* A SafeConnection keeps what ProtectedCalls promises: refused or run exactly
\* once, with both objects standing from acceptance to completion.
THEOREM Refinement == Spec => KeepsPromise
<1>1. Init => Promise!Init
  <2>1. Status("free") = "idle"
    BY DEF Status
  <2>. QED  BY <2>1 DEF Init, Promise!Init, MembersExist
<1>2. IInv /\ [Next]_vars => [Promise!Next]_(Promise!vars)
  BY StepRefines
<1>. QED  BY <1>1, <1>2, Invariance, PTL DEF Spec, KeepsPromise, Promise!Spec
=============================================================================
