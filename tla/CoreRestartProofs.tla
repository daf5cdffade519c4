------------------------- MODULE CoreRestartProofs --------------------------
(***************************************************************************)
(* For any commands: the types, UiFollowsCore, OnlyOverlapsAbandon,        *)
(* ArgumentsFirst, PerformedOnce, LeftoversExplained and CommandsKept.     *)
(*                                                                         *)
(* What they rest on: a restart is always somewhere, as a closure that     *)
(* asks for the next step of it; the last state posted to the UI thread is *)
(* that of the core, unless a new core is on its way; and a command is at  *)
(* one place, from the message that brings it to its performance.          *)
(***************************************************************************)
EXTENDS CoreRestart, SequenceTheorems, FiniteSetTheorems, TLAPS

\* Closures of a kind, and what a loop or a list says of them.
Of(what) == {x \in Closures : x.do = what}
Has(s, C) == \E i \in DOMAIN s : s[i] \in C
Once(s, C) == \A i, j \in DOMAIN s : s[i] \in C /\ s[j] \in C => i = j

\* The new core is on its way: what the old one said is no longer true.
Replaced == Has(uiLoop, Of("coreStopped")) \/ initCore = "waiting"

\* initCore() waits for the one start there is.
StartsOnce ==
  /\ Once(sdkLoop, Of("start"))
  /\ initCore = "waiting" <=> Has(sdkLoop, Of("start"))

\* Before exec() there is no restart.
Launching ==
  /\ core = "none" => main = "launch" /\ initCore # "returned"
  /\ main = "launch" => /\ ~Has(sdkLoop, Of("stop")) /\ ~Has(uiLoop, Of("coreStopped"))
                        /\ ~restarting
                        /\ initCore # "returned" => core = "none"

\* A core that is off will be replaced, and a restart goes on.
CoreReturns == core = "Off" => Replaced
RestartEnds == restarting => Has(sdkLoop, Of("stop")) \/ Replaced \/ core = "Configuring"

\* The last state on its way to the UI thread, or the one it has.
Words == Of("setCoreStarted")
Tells(s, shown, on) ==
  \/ ~Has(s, Words) /\ shown = on
  \/ \E i \in DOMAIN s : /\ s[i] \in Words /\ s[i].on = on
                         /\ \A j \in DOMAIN s : j > i => s[j] \notin Words

Synchronized ==
  main = "loop" /\ ~Replaced /\ ~Has(sdkLoop, Of("synchronize"))
    => Tells(uiLoop, coreStarted, core = "On")

\* The lists are filled, or wait for the core to be on.
ListsFollow ==
  /\ awaiting => ~coreStarted
  /\ core # "none" /\ ~Replaced /\ ~Has(uiLoop, Of("createUi")) => awaiting \/ lists = "filled"

\* Without overlap there is one restart, at one step, and the core it replaces
\* is off by the time it starts the next.
OneRestart ==
  ~overlapped /\ main = "loop" =>
    /\ Once(sdkLoop, Of("stop")) /\ Once(uiLoop, Of("coreStopped"))
    /\ Replaced => ~Has(sdkLoop, Of("stop")) /\ core = "Off"
    /\ ~(Has(uiLoop, Of("coreStopped")) /\ Has(sdkLoop, Of("start")))

\* The argument of a command is before it in the queue, or was taken.
Argument(c) == [cmd |-> c, role |-> "argument"]
ArgumentsKnown ==
  \A p \in queue : p.role = "command" /\ p.cmd \in WithFetch =>
     Argument(p.cmd) \in queue \/ \E i \in DOMAIN taken : taken[i] = Argument(p.cmd)

\* A command is ordered, then queued, then deferred or not, then performed.
Orders(c) == {x \in Of("executeCommand") : x.cmd = c}
Main(c) == [cmd |-> c, role |-> "command"]
Slots(c) == {d \in [cmd : Commands, as : Kinds] : d.cmd = c}
InPlace(c) ==
  /\ Once(sdkLoop, Orders(c)) /\ Once(deferred, Slots(c)) /\ Once(performed, Slots(c))
  /\ Has(sdkLoop, Orders(c)) => c \in received /\ Main(c) \notin queue
                                /\ ~Has(deferred, Slots(c)) /\ ~Has(performed, Slots(c))
  /\ Main(c) \in queue => c \in received /\ ~Has(deferred, Slots(c)) /\ ~Has(performed, Slots(c))
  /\ Has(deferred, Slots(c)) => c \in received /\ ~Has(performed, Slots(c))
  /\ Has(performed, Slots(c)) => c \in received
OnePlace == \A c \in Commands : InPlace(c)

CoreInv == /\ StartsOnce /\ Launching /\ CoreReturns /\ RestartEnds /\ Synchronized
           /\ ListsFollow /\ OneRestart /\ OnlyOverlapsAbandon
IInv == TypeOK /\ CoreInv /\ ArgumentsKnown /\ ArgumentsFirst /\ OnePlace

-----------------------------------------------------------------------------
LEMMA Halves ==
  ASSUME NEW m \in Nat, NEW n \in Nat
  PROVE  \A i \in 1 .. m + n : i \in 1 .. m \/ (i - m \in 1 .. n /\ m + (i - m) = i)
OBVIOUS

(* Sequences that get longer at the end ...                                *)
LEMMA Longer ==
  ASSUME NEW S, NEW s \in Seq(S), NEW p \in Seq(S)
  PROVE  /\ s \o p \in Seq(S)
         /\ \A i \in DOMAIN s : i \in DOMAIN (s \o p) /\ (s \o p)[i] = s[i]
         /\ \A i \in DOMAIN p : Len(s) + i \in DOMAIN (s \o p) /\ (s \o p)[Len(s) + i] = p[i]
         /\ \A i \in DOMAIN (s \o p) : i \in DOMAIN s \/ (i - Len(s) \in DOMAIN p
                                                        /\ Len(s) + (i - Len(s)) = i)
         /\ DOMAIN s = 1 .. Len(s) /\ DOMAIN p = 1 .. Len(p) /\ Len(s) \in Nat /\ Len(p) \in Nat
         /\ DOMAIN (s \o p) = 1 .. Len(s) + Len(p)
<1>1. /\ s \o p \in Seq(S) /\ Len(s \o p) = Len(s) + Len(p)
      /\ \A i \in 1 .. Len(s) + Len(p) :
           (s \o p)[i] = IF i <= Len(s) THEN s[i] ELSE p[i - Len(s)]
  BY ConcatProperties
<1>2. /\ DOMAIN s = 1 .. Len(s) /\ DOMAIN p = 1 .. Len(p) /\ Len(s) \in Nat /\ Len(p) \in Nat
      /\ DOMAIN (s \o p) = 1 .. Len(s) + Len(p)
  BY <1>1, LenProperties
<1>3. \A i \in DOMAIN s : i \in DOMAIN (s \o p) /\ (s \o p)[i] = s[i]
  BY <1>1, <1>2
<1>4. \A i \in DOMAIN p : Len(s) + i \in DOMAIN (s \o p) /\ (s \o p)[Len(s) + i] = p[i]
  <2> TAKE i \in DOMAIN p
  <2>1. /\ Len(s) + i \in 1 .. Len(s) + Len(p) /\ ~(Len(s) + i <= Len(s))
        /\ (Len(s) + i) - Len(s) = i
    BY <1>2
  <2> QED
    BY <1>1, <1>2, <2>1
<1>5. \A i \in DOMAIN (s \o p) : i \in DOMAIN s \/ (i - Len(s) \in DOMAIN p
                                                  /\ Len(s) + (i - Len(s)) = i)
  <2>1. \A i \in 1 .. Len(s) + Len(p) : i \in 1 .. Len(s)
          \/ (i - Len(s) \in 1 .. Len(p) /\ Len(s) + (i - Len(s)) = i)
    BY <1>2, Halves
  <2> QED
    BY <1>2, <2>1, Zenon
<1> QED
  BY <1>1, <1>2, <1>3, <1>4, <1>5

LEMMA HasLonger ==
  ASSUME NEW S, NEW s \in Seq(S), NEW p \in Seq(S)
  PROVE  /\ \A C : Has(s \o p, C) <=> Has(s, C) \/ Has(p, C)
         /\ \A C : Once(s \o p, C) <=> Once(s, C) /\ Once(p, C) /\ ~(Has(s, C) /\ Has(p, C))
<1>1. ASSUME NEW C PROVE Has(s \o p, C) <=> Has(s, C) \/ Has(p, C)
  <2>1. Has(s, C) => Has(s \o p, C)
    BY Longer DEF Has
  <2>2. ASSUME Has(p, C) PROVE Has(s \o p, C)
    <3>1. PICK i \in DOMAIN p : p[i] \in C
      BY <2>2 DEF Has
    <3>2. Len(s) + i \in DOMAIN (s \o p) /\ (s \o p)[Len(s) + i] \in C
      BY <3>1, Longer
    <3> QED
      BY <3>2 DEF Has
  <2>3. ASSUME Has(s \o p, C) PROVE Has(s, C) \/ Has(p, C)
    <3>1. PICK i \in DOMAIN (s \o p) : (s \o p)[i] \in C
      BY <2>3 DEF Has
    <3>2. CASE i \in DOMAIN s
      BY <3>1, <3>2, Longer DEF Has
    <3>3. CASE i - Len(s) \in DOMAIN p /\ Len(s) + (i - Len(s)) = i
      BY <3>1, <3>3, Longer DEF Has
    <3> QED
      BY <3>2, <3>3, Longer
  <2> QED
    BY <2>1, <2>2, <2>3
<1>2. ASSUME NEW C, Once(s \o p, C)
      PROVE  Once(s, C) /\ Once(p, C) /\ ~(Has(s, C) /\ Has(p, C))
  <2>1. \A i, j \in DOMAIN (s \o p) : (s \o p)[i] \in C /\ (s \o p)[j] \in C => i = j
    BY <1>2 DEF Once
  <2>2. Once(s, C)
    BY <2>1, Longer DEF Once
  <2>3. ASSUME NEW i \in DOMAIN p, NEW j \in DOMAIN p, p[i] \in C, p[j] \in C PROVE i = j
    <3>1. /\ Len(s) + i \in DOMAIN (s \o p) /\ (s \o p)[Len(s) + i] \in C
          /\ Len(s) + j \in DOMAIN (s \o p) /\ (s \o p)[Len(s) + j] \in C
      BY <2>3, Longer
    <3>2. Len(s) + i = Len(s) + j
      BY <2>1, <3>1
    <3>3. i \in 1 .. Len(p) /\ j \in 1 .. Len(p) /\ Len(s) \in Nat
      BY Longer
    <3> QED
      BY <3>2, <3>3
  <2>4. ASSUME NEW i \in DOMAIN s, NEW j \in DOMAIN p, s[i] \in C, p[j] \in C PROVE FALSE
    <3>1. /\ i \in DOMAIN (s \o p) /\ (s \o p)[i] \in C
          /\ Len(s) + j \in DOMAIN (s \o p) /\ (s \o p)[Len(s) + j] \in C
      BY <2>4, Longer
    <3>2. i = Len(s) + j
      BY <2>1, <3>1
    <3>3. i \in 1 .. Len(s) /\ j \in 1 .. Len(p) /\ Len(s) \in Nat
      BY Longer
    <3> QED
      BY <3>2, <3>3
  <2> QED
    BY <2>2, <2>3, <2>4 DEF Once, Has
<1>3. ASSUME NEW C, Once(s, C), Once(p, C), ~(Has(s, C) /\ Has(p, C))
      PROVE  Once(s \o p, C)
  <2>1. ASSUME NEW i \in DOMAIN (s \o p), NEW j \in DOMAIN (s \o p),
               (s \o p)[i] \in C, (s \o p)[j] \in C
        PROVE  i = j
    <3>1. CASE i \in DOMAIN s /\ j \in DOMAIN s
      BY <1>3, <2>1, <3>1, Longer DEF Once
    <3>2. CASE i \notin DOMAIN s /\ j \notin DOMAIN s
      <4>1. /\ i - Len(s) \in DOMAIN p /\ Len(s) + (i - Len(s)) = i /\ p[i - Len(s)] \in C
            /\ j - Len(s) \in DOMAIN p /\ Len(s) + (j - Len(s)) = j /\ p[j - Len(s)] \in C
        BY <2>1, <3>2, Longer
      <4>2. i - Len(s) = j - Len(s)
        BY <1>3, <4>1 DEF Once
      <4> QED
        BY <4>1, <4>2
    <3>3. CASE i \in DOMAIN s /\ j \notin DOMAIN s
      <4>1. j - Len(s) \in DOMAIN p /\ p[j - Len(s)] \in C /\ s[i] \in C
        BY <2>1, <3>3, Longer
      <4> QED
        BY <1>3, <3>3, <4>1 DEF Has
    <3>4. CASE i \notin DOMAIN s /\ j \in DOMAIN s
      <4>1. i - Len(s) \in DOMAIN p /\ p[i - Len(s)] \in C /\ s[j] \in C
        BY <2>1, <3>4, Longer
      <4> QED
        BY <1>3, <3>4, <4>1 DEF Has
    <3> QED
      BY <3>1, <3>2, <3>3, <3>4
  <2> QED
    BY <2>1 DEF Once
<1> QED
  BY <1>1, <1>2, <1>3

LEMMA HasOne ==
  ASSUME NEW S, NEW c \in S
  PROVE  /\ <<c>> \in Seq(S) /\ <<>> \in Seq(S)
         /\ \A C : (Has(<<c>>, C) <=> c \in C) /\ Once(<<c>>, C)
         /\ \A C : ~Has(<<>>, C) /\ Once(<<>>, C)
<1>1. <<c>> \in Seq(S) /\ <<>> \in Seq(S)
  OBVIOUS
<1>2. DOMAIN <<c>> = {1} /\ <<c>>[1] = c /\ DOMAIN <<>> = {}
  OBVIOUS
<1> QED
  BY <1>1, <1>2 DEF Has, Once

LEMMA HasAppended ==
  ASSUME NEW S, NEW s \in Seq(S), NEW c \in S
  PROVE  /\ Append(s, c) \in Seq(S) /\ Append(s, c) = s \o <<c>>
         /\ \A C : Has(Append(s, c), C) <=> Has(s, C) \/ c \in C
         /\ \A C : Once(Append(s, c), C) <=> Once(s, C) /\ ~(Has(s, C) /\ c \in C)
<1>1. Append(s, c) = s \o <<c>> /\ <<c>> \in Seq(S)
  BY HasOne, AppendIsConcat
<1>2. \A C : Has(s \o <<c>>, C) <=> Has(s, C) \/ c \in C
  BY <1>1, HasOne, HasLonger
<1>3. \A C : Once(s \o <<c>>, C) <=> Once(s, C) /\ ~(Has(s, C) /\ c \in C)
  BY <1>1, HasOne, HasLonger
<1> QED
  BY <1>1, <1>2, <1>3, Longer

LEMMA HasNothing == \A C : ~Has(<<>>, C) /\ Once(<<>>, C)
BY DEF Has, Once

(* ... and lose their head.                                                *)
LEMMA HasTail ==
  ASSUME NEW S, NEW s \in Seq(S), s # <<>>
  PROVE  /\ Head(s) \in S /\ Tail(s) \in Seq(S) /\ Head(s) = s[1]
         /\ s = <<Head(s)>> \o Tail(s)
         /\ \A C : Has(s, C) <=> Head(s) \in C \/ Has(Tail(s), C)
         /\ \A C : Once(s, C) <=> Once(Tail(s), C) /\ ~(Has(Tail(s), C) /\ Head(s) \in C)
<1>1. /\ Head(s) \in S /\ Tail(s) \in Seq(S) /\ Head(s) = s[1]
      /\ Len(Tail(s)) = Len(s) - 1 /\ \A i \in 1 .. Len(Tail(s)) : Tail(s)[i] = s[i + 1]
      /\ Len(s) \in Nat \ {0}
  BY HeadTailProperties, EmptySeq
<1>2. <<Head(s)>> \in Seq(S) /\ Len(<<Head(s)>>) = 1 /\ <<Head(s)>>[1] = Head(s)
  BY <1>1
<1>3. s = <<Head(s)>> \o Tail(s)
  <2>1. /\ <<Head(s)>> \o Tail(s) \in Seq(S) /\ Len(<<Head(s)>> \o Tail(s)) = Len(s)
        /\ \A i \in 1 .. 1 + Len(Tail(s)) : (<<Head(s)>> \o Tail(s))[i] =
             IF i <= 1 THEN <<Head(s)>>[i] ELSE Tail(s)[i - 1]
    BY <1>1, <1>2, ConcatProperties
  <2>2. ASSUME NEW i \in 1 .. Len(s) PROVE s[i] = (<<Head(s)>> \o Tail(s))[i]
    <3>1. CASE i = 1
      BY <1>1, <1>2, <2>1, <3>1
    <3>2. CASE i # 1
      <4>1. i - 1 \in 1 .. Len(Tail(s)) /\ (i - 1) + 1 = i /\ i \in 1 .. 1 + Len(Tail(s)) /\ ~(i <= 1)
        BY <1>1, <3>2
      <4> QED
        BY <1>1, <2>1, <4>1
    <3> QED
      BY <3>1, <3>2
  <2> QED
    BY <2>1, <2>2, SeqEqual
<1>4. \A C : Has(<<Head(s)>> \o Tail(s), C) <=> Head(s) \in C \/ Has(Tail(s), C)
  BY <1>1, <1>2, HasOne, HasLonger
<1>5. \A C : Once(<<Head(s)>> \o Tail(s), C)
             <=> Once(Tail(s), C) /\ ~(Has(Tail(s), C) /\ Head(s) \in C)
  <2> TAKE C
  <2>1. (Has(<<Head(s)>>, C) <=> Head(s) \in C) /\ Once(<<Head(s)>>, C)
    BY <1>1, HasOne
  <2>2. Once(<<Head(s)>> \o Tail(s), C)
        <=> /\ Once(<<Head(s)>>, C) /\ Once(Tail(s), C)
            /\ ~(Has(<<Head(s)>>, C) /\ Has(Tail(s), C))
    BY <1>1, <1>2, HasLonger
  <2> QED
    BY <2>1, <2>2
<1> QED
  BY <1>1, <1>3, <1>4, <1>5
-----------------------------------------------------------------------------
(* The closures.                                                           *)
Plain == {"start", "synchronize", "runProcess", "stop", "createUi", "setMainWindow",
          "restartCore", "coreStopped"}
Bearing == {"executeCommand", "setFetchConfig", "requestFetchConfig"}

LEMMA Closing ==
  /\ \A w \in Plain : Do(w) \in Closures /\ \A v : Do(w) \in Of(v) <=> v = w
  /\ \A on \in BOOLEAN : /\ SetCoreStarted(on) \in Closures /\ SetCoreStarted(on).on = on
                         /\ \A v : SetCoreStarted(on) \in Of(v) <=> v = "setCoreStarted"
  /\ \A w \in Bearing, c \in Commands :
        /\ ForCommand(w, c) \in Closures /\ ForCommand(w, c).cmd = c
        /\ \A v : ForCommand(w, c) \in Of(v) <=> v = w
<1>1. \A w \in Plain : Do(w) \in Closures /\ Do(w).do = w
  BY DEF Plain, Do, Closures
<1>2. \A on \in BOOLEAN : /\ SetCoreStarted(on) \in Closures /\ SetCoreStarted(on).on = on
                          /\ SetCoreStarted(on).do = "setCoreStarted"
  BY DEF SetCoreStarted, Closures
<1>3. \A w \in Bearing, c \in Commands :
        /\ ForCommand(w, c) \in Closures /\ ForCommand(w, c).cmd = c
        /\ ForCommand(w, c).do = w
  BY DEF Bearing, ForCommand, Closures
<1> QED
  BY <1>1, <1>2, <1>3 DEF Of

LEMMA Heads ==
  ASSUME NEW x \in Closures
  PROVE  /\ \A v : x \in Of(v) <=> v = x.do
         /\ x.do = "setCoreStarted" => x.on \in BOOLEAN
         /\ x.do \in Bearing => x.cmd \in Commands
         /\ \A c : x.do # "executeCommand" => x \notin Orders(c)
BY DEF Of, Closures, Bearing, Orders

(* Commands sent on, one closure each.                                     *)
LEMMA SentOn ==
  ASSUME NEW w \in Bearing \ {"executeCommand"}, NEW s \in Seq(Commands)
  PROVE  LET posts == [i \in DOMAIN s |-> ForCommand(w, s[i])]
         IN /\ posts \in Seq(Closures)
            /\ \A v : v # w => ~Has(posts, Of(v)) /\ Once(posts, Of(v))
            /\ \A c : ~Has(posts, Orders(c))
<1> DEFINE posts == [i \in DOMAIN s |-> ForCommand(w, s[i])]
<1>1. Len(s) \in Nat /\ DOMAIN s = 1 .. Len(s) /\ \A i \in DOMAIN s : s[i] \in Commands
  BY LenProperties, ElementOfSeq
<1>2. \A i \in DOMAIN s : ForCommand(w, s[i]) \in Closures
                          /\ \A v : ForCommand(w, s[i]) \in Of(v) <=> v = w
  BY <1>1, Closing
<1>3. posts \in [1 .. Len(s) -> Closures]
  BY <1>1, <1>2
<1>4. posts \in Seq(Closures)
  BY <1>1, <1>3, SeqDef
<1>5. DOMAIN posts = DOMAIN s /\ \A i \in DOMAIN posts : posts[i] = ForCommand(w, s[i])
  OBVIOUS
<1> HIDE DEF posts
<1>6. \A v : v # w => ~Has(posts, Of(v)) /\ Once(posts, Of(v))
  BY <1>2, <1>5 DEF Has, Once
<1>7. \A c : ~Has(posts, Orders(c))
  BY <1>2, <1>5 DEF Has, Orders
<1> QED
  BY <1>4, <1>6, <1>7 DEF posts

-----------------------------------------------------------------------------
(* The last word to the UI thread: a new one, another closure, the head.   *)
LEMMA TellsLonger ==
  ASSUME NEW s \in Seq(Closures), NEW p \in Seq(Closures), NEW shown, NEW on
  PROVE  /\ ~Has(p, Words) /\ Tells(s, shown, on) => Tells(s \o p, shown, on)
         /\ \A other : Has(p, Words) /\ Tells(p, other, on) => Tells(s \o p, shown, on)
<1>1. ASSUME ~Has(p, Words), Tells(s, shown, on) PROVE Tells(s \o p, shown, on)
  <2>1. CASE ~Has(s, Words) /\ shown = on
    BY <1>1, <2>1, HasLonger DEF Tells
  <2>2. CASE \E i \in DOMAIN s : /\ s[i] \in Words /\ s[i].on = on
                                 /\ \A j \in DOMAIN s : j > i => s[j] \notin Words
    <3>1. PICK i \in DOMAIN s : /\ s[i] \in Words /\ s[i].on = on
                                /\ \A j \in DOMAIN s : j > i => s[j] \notin Words
      BY <2>2
    <3>2. i \in DOMAIN (s \o p) /\ (s \o p)[i] = s[i]
      BY Longer
    <3>3. ASSUME NEW j \in DOMAIN (s \o p), j > i PROVE (s \o p)[j] \notin Words
      <4>1. CASE j \in DOMAIN s
        BY <3>1, <3>3, <4>1, Longer
      <4>2. CASE j - Len(s) \in DOMAIN p /\ Len(s) + (j - Len(s)) = j
        <5>1. (s \o p)[Len(s) + (j - Len(s))] = p[j - Len(s)]
          BY <4>2, Longer
        <5> QED
          BY <1>1, <4>2, <5>1 DEF Has
      <4> QED
        BY <4>1, <4>2, Longer
    <3> QED
      BY <3>1, <3>2, <3>3 DEF Tells
  <2> QED
    BY <1>1, <2>1, <2>2 DEF Tells
<1>2. ASSUME NEW other, Has(p, Words), Tells(p, other, on) PROVE Tells(s \o p, shown, on)
  <2>1. PICK i \in DOMAIN p : /\ p[i] \in Words /\ p[i].on = on
                              /\ \A j \in DOMAIN p : j > i => p[j] \notin Words
    BY <1>2 DEF Tells
  <2>2. Len(s) + i \in DOMAIN (s \o p) /\ (s \o p)[Len(s) + i] = p[i]
    BY Longer
  <2>3. ASSUME NEW j \in DOMAIN (s \o p), j > Len(s) + i PROVE (s \o p)[j] \notin Words
    <3>1. i \in 1 .. Len(p) /\ Len(s) \in Nat /\ Len(p) \in Nat /\ DOMAIN s = 1 .. Len(s)
          /\ DOMAIN (s \o p) = 1 .. Len(s) + Len(p)
      BY Longer
    <3>2. j \notin DOMAIN s /\ j - Len(s) > i
      BY <2>3, <3>1
    <3>3. j - Len(s) \in DOMAIN p /\ Len(s) + (j - Len(s)) = j
      BY <3>2, Longer
    <3>4. (s \o p)[Len(s) + (j - Len(s))] = p[j - Len(s)]
      BY <3>3, Longer
    <3> QED
      BY <2>1, <3>2, <3>3, <3>4
  <2> QED
    BY <2>1, <2>2, <2>3 DEF Tells
<1> QED
  BY <1>1, <1>2

LEMMA TellsWord ==
  ASSUME NEW on \in BOOLEAN, NEW shown
  PROVE  <<SetCoreStarted(on)>> \in Seq(Closures) /\ Has(<<SetCoreStarted(on)>>, Words)
         /\ Tells(<<SetCoreStarted(on)>>, shown, on)
         /\ \A v : v # "setCoreStarted" => /\ ~Has(<<SetCoreStarted(on)>>, Of(v))
                                          /\ Once(<<SetCoreStarted(on)>>, Of(v))
<1> DEFINE c == SetCoreStarted(on)
<1>1. c \in Closures /\ c \in Words /\ c.on = on /\ \A v : c \in Of(v) <=> v = "setCoreStarted"
  BY Closing DEF Words
<1> HIDE DEF c
<1>2. <<c>> \in Seq(Closures) /\ DOMAIN <<c>> = {1} /\ <<c>>[1] = c
  BY <1>1
<1>3. Has(<<c>>, Words)
  BY <1>1, <1>2 DEF Has
<1>4. Tells(<<c>>, shown, on)
  BY <1>1, <1>2 DEF Tells
<1>5. \A v : v # "setCoreStarted" => ~Has(<<c>>, Of(v)) /\ Once(<<c>>, Of(v))
  BY <1>1, HasOne
<1> QED
  BY <1>2, <1>3, <1>4, <1>5 DEF c

LEMMA TellsAppended ==
  ASSUME NEW s \in Seq(Closures), NEW c \in Closures, NEW shown, NEW on
  PROVE  /\ c \notin Words /\ Tells(s, shown, on) => Tells(Append(s, c), shown, on)
         /\ on \in BOOLEAN /\ c = SetCoreStarted(on) => Tells(Append(s, c), shown, on)
<1>1. Append(s, c) = s \o <<c>> /\ <<c>> \in Seq(Closures) /\ (Has(<<c>>, Words) <=> c \in Words)
  BY HasAppended, HasOne
<1> QED
  BY <1>1, TellsLonger, TellsWord

LEMMA TellsTail ==
  ASSUME NEW s \in Seq(Closures), s # <<>>, NEW shown, NEW on, Tells(s, shown, on)
  PROVE  /\ Head(s) \notin Words => Tells(Tail(s), shown, on)
         /\ Head(s) \in Words => Tells(Tail(s), Head(s).on, on)
<1>1. /\ Head(s) \in Closures /\ Tail(s) \in Seq(Closures) /\ Head(s) = s[1]
      /\ Has(s, Words) <=> Head(s) \in Words \/ Has(Tail(s), Words)
  BY HasTail
<1>2. /\ Len(s) \in Nat \ {0} /\ Len(Tail(s)) = Len(s) - 1
      /\ DOMAIN s = 1 .. Len(s) /\ DOMAIN Tail(s) = 1 .. Len(s) - 1
      /\ \A i \in DOMAIN Tail(s) : Tail(s)[i] = s[i + 1]
  BY <1>1, HeadTailProperties, EmptySeq, LenProperties
<1>3. CASE ~Has(s, Words) /\ shown = on
  BY <1>1, <1>3 DEF Tells
<1>4. CASE \E i \in DOMAIN s : /\ s[i] \in Words /\ s[i].on = on
                               /\ \A j \in DOMAIN s : j > i => s[j] \notin Words
  <2>1. PICK i \in DOMAIN s : /\ s[i] \in Words /\ s[i].on = on
                              /\ \A j \in DOMAIN s : j > i => s[j] \notin Words
    BY <1>4
  <2>2. \A j \in DOMAIN Tail(s) : j + 1 > i => Tail(s)[j] \notin Words
    BY <1>2, <2>1
  <2>3. CASE i = 1
    <3>1. \A j \in DOMAIN Tail(s) : Tail(s)[j] \notin Words
      BY <1>2, <2>2, <2>3
    <3> QED
      BY <1>1, <2>1, <2>3, <3>1 DEF Tells, Has
  <2>4. CASE i # 1
    <3>1. i - 1 \in DOMAIN Tail(s) /\ (i - 1) + 1 = i
      BY <1>2, <2>4
    <3>2. Tail(s)[i - 1] = s[i]
      BY <1>2, <3>1
    <3>3. \A j \in DOMAIN Tail(s) : j > i - 1 => Tail(s)[j] \notin Words
      BY <1>2, <2>2
    <3> QED
      BY <2>1, <3>1, <3>2, <3>3 DEF Tells
  <2> QED
    BY <2>3, <2>4
<1> QED
  BY <1>3, <1>4 DEF Tells
-----------------------------------------------------------------------------
(* The loops.                                                              *)
LEMMA SdkTakes ==
  ASSUME TypeOK, NEW what, SdkRuns(what)
  PROVE  /\ sdkLoop' \in Seq(Closures) /\ Head(sdkLoop) \in Closures /\ Head(sdkLoop).do = what
         /\ Has(sdkLoop, Of(what))
         /\ \A v : v # what => (Has(sdkLoop, Of(v)) <=> Has(sdkLoop', Of(v)))
         /\ \A v : v # what => (Once(sdkLoop, Of(v)) <=> Once(sdkLoop', Of(v)))
         /\ Once(sdkLoop, Of(what)) <=> Once(sdkLoop', Of(what)) /\ ~Has(sdkLoop', Of(what))
<1>1. sdkLoop \in Seq(Closures) /\ sdkLoop # <<>> /\ Head(sdkLoop).do = what /\ sdkLoop' = Tail(sdkLoop)
  BY DEF TypeOK, SdkRuns
<1>2. /\ Head(sdkLoop) \in Closures /\ sdkLoop' \in Seq(Closures)
      /\ \A C : Has(sdkLoop, C) <=> Head(sdkLoop) \in C \/ Has(sdkLoop', C)
      /\ \A C : Once(sdkLoop, C) <=> Once(sdkLoop', C) /\ ~(Has(sdkLoop', C) /\ Head(sdkLoop) \in C)
  BY <1>1, HasTail
<1>3. \A v : Head(sdkLoop) \in Of(v) <=> v = what
  BY <1>1, <1>2, Heads
<1> QED
  BY <1>1, <1>2, <1>3

LEMMA SdkKeepsOrders ==
  ASSUME TypeOK, NEW what, SdkRuns(what), what # "executeCommand", NEW c
  PROVE  /\ Has(sdkLoop, Orders(c)) <=> Has(sdkLoop', Orders(c))
         /\ Once(sdkLoop, Orders(c)) <=> Once(sdkLoop', Orders(c))
<1>1. sdkLoop \in Seq(Closures) /\ sdkLoop # <<>> /\ Head(sdkLoop).do = what /\ sdkLoop' = Tail(sdkLoop)
  BY DEF TypeOK, SdkRuns
<1>2. Head(sdkLoop) \notin Orders(c)
  BY <1>1, HasTail, Heads
<1> QED
  BY <1>1, <1>2, HasTail

LEMMA UiTakes ==
  ASSUME TypeOK, uiLoop # <<>>
  PROVE  /\ Tail(uiLoop) \in Seq(Closures) /\ Head(uiLoop) \in Closures
         /\ \A v : Has(uiLoop, Of(v)) <=> v = Head(uiLoop).do \/ Has(Tail(uiLoop), Of(v))
         /\ \A v : Once(uiLoop, Of(v))
                   <=> Once(Tail(uiLoop), Of(v)) /\ ~(v = Head(uiLoop).do /\ Has(Tail(uiLoop), Of(v)))
         /\ \A shown, on : Tells(uiLoop, shown, on) =>
              /\ Head(uiLoop).do # "setCoreStarted" => Tells(Tail(uiLoop), shown, on)
              /\ Head(uiLoop).do = "setCoreStarted" => Tells(Tail(uiLoop), Head(uiLoop).on, on)
<1>1. uiLoop \in Seq(Closures)
  BY DEF TypeOK
<1>2. /\ Head(uiLoop) \in Closures /\ Tail(uiLoop) \in Seq(Closures)
      /\ \A C : Has(uiLoop, C) <=> Head(uiLoop) \in C \/ Has(Tail(uiLoop), C)
      /\ \A C : Once(uiLoop, C) <=> Once(Tail(uiLoop), C)
                                    /\ ~(Has(Tail(uiLoop), C) /\ Head(uiLoop) \in C)
  BY <1>1, HasTail
<1>3. \A v : Head(uiLoop) \in Of(v) <=> v = Head(uiLoop).do
  BY <1>2, Heads
<1>4. ASSUME NEW shown, NEW on, Tells(uiLoop, shown, on)
      PROVE  /\ Head(uiLoop).do # "setCoreStarted" => Tells(Tail(uiLoop), shown, on)
             /\ Head(uiLoop).do = "setCoreStarted" => Tells(Tail(uiLoop), Head(uiLoop).on, on)
  BY <1>1, <1>3, <1>4, TellsTail DEF Words
<1> QED
  BY <1>2, <1>3, <1>4

(* A closure that is not an order is posted to the SDK thread.             *)
LEMMA SdkGets ==
  ASSUME TypeOK, NEW c \in Closures, NEW w, c.do = w, w # "executeCommand",
         sdkLoop' = Append(sdkLoop, c) \/ sdkLoop' = sdkLoop \o <<c>>
  PROVE  /\ sdkLoop' \in Seq(Closures)
         /\ \A v : Has(sdkLoop', Of(v)) <=> Has(sdkLoop, Of(v)) \/ v = w
         /\ \A v : Once(sdkLoop', Of(v)) <=> Once(sdkLoop, Of(v)) /\ ~(Has(sdkLoop, Of(v)) /\ v = w)
         /\ \A d : /\ Has(sdkLoop, Orders(d)) <=> Has(sdkLoop', Orders(d))
                   /\ Once(sdkLoop, Orders(d)) <=> Once(sdkLoop', Orders(d))
<1>1. sdkLoop \in Seq(Closures)
  BY DEF TypeOK
<1>2. Append(sdkLoop, c) \in Seq(Closures) /\ Append(sdkLoop, c) = sdkLoop \o <<c>>
  BY <1>1, HasAppended
<1>3. sdkLoop' = Append(sdkLoop, c)
  BY <1>2
<1>4. /\ \A C : Has(sdkLoop', C) <=> Has(sdkLoop, C) \/ c \in C
      /\ \A C : Once(sdkLoop', C) <=> Once(sdkLoop, C) /\ ~(Has(sdkLoop, C) /\ c \in C)
  BY <1>1, <1>3, HasAppended
<1>5. (\A v : c \in Of(v) <=> v = w) /\ (\A d : c \notin Orders(d))
  BY Heads
<1> QED
  BY <1>2, <1>3, <1>4, <1>5

LEMMA Dos ==
  /\ \A w \in Plain : Do(w) \in Closures /\ Do(w).do = w
  /\ \A w \in Bearing, c \in Commands : ForCommand(w, c) \in Closures /\ ForCommand(w, c).do = w
  /\ \A on \in BOOLEAN : SetCoreStarted(on) \in Closures /\ SetCoreStarted(on).do = "setCoreStarted"
BY Closing DEF Do, ForCommand, SetCoreStarted

(* What a step leaves alone.                                               *)
LEMMA ArgumentsStay ==
  ASSUME IInv, UNCHANGED <<queue, taken>>
  PROVE  ArgumentsKnown' /\ ArgumentsFirst'
BY DEF IInv, ArgumentsKnown, ArgumentsFirst

LEMMA PlacesStay ==
  ASSUME IInv, UNCHANGED <<queue, deferred, performed, received>>,
         \A c : /\ Has(sdkLoop, Orders(c)) <=> Has(sdkLoop', Orders(c))
                /\ Once(sdkLoop, Orders(c)) <=> Once(sdkLoop', Orders(c))
  PROVE  OnePlace'
BY DEF IInv, OnePlace, InPlace

-----------------------------------------------------------------------------
LEMMA InitInv == Init => IInv
<1> SUFFICES ASSUME Init PROVE IInv
  OBVIOUS
<1>1. TypeOK
  <2>1. \A S : <<>> \in Seq(S)
    BY EmptySeq
  <2> QED
    BY <2>1 DEF Init, TypeOK
<1>2. \A C : /\ ~Has(sdkLoop, C) /\ Once(sdkLoop, C) /\ ~Has(uiLoop, C) /\ Once(uiLoop, C)
             /\ ~Has(deferred, C) /\ Once(deferred, C) /\ ~Has(performed, C) /\ Once(performed, C)
  BY HasNothing DEF Init
<1>3. CoreInv
  BY <1>2 DEF Init, CoreInv, StartsOnce, Launching, CoreReturns, RestartEnds, Synchronized,
     ListsFollow, OneRestart, OnlyOverlapsAbandon
<1>4. ArgumentsKnown /\ ArgumentsFirst
  BY DEF Init, ArgumentsKnown, ArgumentsFirst
<1>5. OnePlace
  BY <1>2 DEF Init, OnePlace, InPlace
<1> QED
  BY <1>1, <1>3, <1>4, <1>5 DEF IInv

(* Steps of the UI thread.                                                 *)
LEMMA LaunchStep ==
  ASSUME IInv, Launch PROVE IInv'
<1>1. /\ main = "launch" /\ initCore = "idle" /\ initCore' = "waiting"
      /\ sdkLoop' = Append(sdkLoop, Do("start"))
      /\ UNCHANGED <<main, coreStarted, lists, awaiting, window, applies, uiLoop>>
      /\ UNCHANGED <<core, queue, deferred, fetches, restarting>>
      /\ UNCHANGED <<received, taken, performed, fruitless, overlapped, abandoned>>
  BY DEF Launch, InitCore, sdk, history
<1>2. Do("start") \in Closures /\ Do("start").do = "start"
  BY Dos DEF Plain
<1>3. /\ sdkLoop' \in Seq(Closures)
      /\ \A v : Has(sdkLoop', Of(v)) <=> Has(sdkLoop, Of(v)) \/ v = "start"
      /\ \A v : Once(sdkLoop', Of(v)) <=> Once(sdkLoop, Of(v)) /\ ~(Has(sdkLoop, Of(v)) /\ v = "start")
      /\ \A d : /\ Has(sdkLoop, Orders(d)) <=> Has(sdkLoop', Orders(d))
                /\ Once(sdkLoop, Orders(d)) <=> Once(sdkLoop', Orders(d))
  BY <1>1, <1>2, SdkGets DEF IInv
<1>4. TypeOK'
  BY <1>1, <1>3 DEF IInv, TypeOK
<1>5. CoreInv'
  BY <1>1, <1>3 DEF IInv, CoreInv, StartsOnce, Launching, CoreReturns, RestartEnds, Synchronized,
     ListsFollow, OneRestart, OnlyOverlapsAbandon, Replaced
<1>6. ArgumentsKnown' /\ ArgumentsFirst'
  BY <1>1, ArgumentsStay
<1>7. OnePlace'
  BY <1>1, <1>3, PlacesStay
<1> QED
  BY <1>4, <1>5, <1>6, <1>7 DEF IInv

LEMMA ConnectModelsStep ==
  ASSUME IInv, ConnectModels PROVE IInv'
<1>1. /\ main = "launch" /\ initCore = "returned" /\ main' = "loop" /\ initCore' = "idle"
      /\ sdkLoop' = sdkLoop \o <<Do("synchronize")>>
      /\ UNCHANGED <<coreStarted, lists, awaiting, window, applies, uiLoop>>
      /\ UNCHANGED <<core, queue, deferred, fetches, restarting>>
      /\ UNCHANGED <<received, taken, performed, fruitless, overlapped, abandoned>>
  BY DEF ConnectModels, Synchronize, sdk, history
<1>2. Do("synchronize") \in Closures /\ Do("synchronize").do = "synchronize"
  BY Dos DEF Plain
<1>3. /\ sdkLoop' \in Seq(Closures)
      /\ \A v : Has(sdkLoop', Of(v)) <=> Has(sdkLoop, Of(v)) \/ v = "synchronize"
      /\ \A v : Once(sdkLoop', Of(v)) <=> Once(sdkLoop, Of(v)) /\ ~(Has(sdkLoop, Of(v)) /\ v = "synchronize")
      /\ \A d : /\ Has(sdkLoop, Orders(d)) <=> Has(sdkLoop', Orders(d))
                /\ Once(sdkLoop, Orders(d)) <=> Once(sdkLoop', Orders(d))
  BY <1>1, <1>2, SdkGets DEF IInv
<1>4. TypeOK'
  BY <1>1, <1>3 DEF IInv, TypeOK
<1>5. Once(sdkLoop, Of("stop")) /\ Once(uiLoop, Of("coreStopped"))
  BY <1>1 DEF IInv, CoreInv, Launching, Has, Once
<1>6. CoreInv'
  BY <1>1, <1>3, <1>5 DEF IInv, CoreInv, StartsOnce, Launching, CoreReturns, RestartEnds,
     Synchronized, ListsFollow, OneRestart, OnlyOverlapsAbandon, Replaced
<1>7. ArgumentsKnown' /\ ArgumentsFirst'
  BY <1>1, ArgumentsStay
<1>8. OnePlace'
  BY <1>1, <1>3, PlacesStay
<1> QED
  BY <1>4, <1>6, <1>7, <1>8 DEF IInv
LEMMA SendCommandStep ==
  ASSUME IInv, SendCommand PROVE IInv'
<1>1. /\ main = "loop" /\ initCore = "returned" /\ initCore' = "idle"
      /\ sdkLoop' = sdkLoop \o <<Do("runProcess")>>
      /\ UNCHANGED <<main, coreStarted, lists, awaiting, window, applies, uiLoop>>
      /\ UNCHANGED <<core, queue, deferred, fetches, restarting>>
      /\ UNCHANGED <<received, taken, performed, fruitless, overlapped, abandoned>>
  BY DEF SendCommand, WaitingProcess, sdk, history
<1>2. Do("runProcess") \in Closures /\ Do("runProcess").do = "runProcess"
  BY Dos DEF Plain
<1>3. /\ sdkLoop' \in Seq(Closures)
      /\ \A v : Has(sdkLoop', Of(v)) <=> Has(sdkLoop, Of(v)) \/ v = "runProcess"
      /\ \A v : Once(sdkLoop', Of(v)) <=> Once(sdkLoop, Of(v)) /\ ~(Has(sdkLoop, Of(v)) /\ v = "runProcess")
      /\ \A d : /\ Has(sdkLoop, Orders(d)) <=> Has(sdkLoop', Orders(d))
                /\ Once(sdkLoop, Orders(d)) <=> Once(sdkLoop', Orders(d))
  BY <1>1, <1>2, SdkGets DEF IInv
<1>4. TypeOK'
  BY <1>1, <1>3 DEF IInv, TypeOK
<1>5. CoreInv'
  BY <1>1, <1>3 DEF IInv, CoreInv, StartsOnce, Launching, CoreReturns, RestartEnds, Synchronized,
     ListsFollow, OneRestart, OnlyOverlapsAbandon, Replaced
<1>6. ArgumentsKnown' /\ ArgumentsFirst'
  BY <1>1, ArgumentsStay
<1>7. OnePlace'
  BY <1>1, <1>3, PlacesStay
<1> QED
  BY <1>4, <1>5, <1>6, <1>7 DEF IInv

LEMMA ReceivedMessageStep ==
  ASSUME IInv, NEW c \in Commands, ReceivedMessage(c) PROVE IInv'
<1> DEFINE order == ForCommand("executeCommand", c)
<1>1. /\ c \notin received /\ received' = received \cup {c}
      /\ sdkLoop' = Append(sdkLoop, order)
      /\ UNCHANGED <<main, initCore, coreStarted, lists, awaiting, window, applies, uiLoop>>
      /\ UNCHANGED <<core, queue, deferred, fetches, restarting>>
      /\ UNCHANGED <<taken, performed, fruitless, overlapped, abandoned>>
  BY DEF ReceivedMessage, ui, sdk
<1>2. order \in Closures /\ order.cmd = c /\ \A v : order \in Of(v) <=> v = "executeCommand"
  BY Closing DEF Bearing
<1>3. \A d : order \in Orders(d) <=> d = c
  BY <1>2 DEF Orders
<1> HIDE DEF order
<1>4. /\ sdkLoop' \in Seq(Closures)
      /\ \A C : Has(sdkLoop', C) <=> Has(sdkLoop, C) \/ order \in C
      /\ \A C : Once(sdkLoop', C) <=> Once(sdkLoop, C) /\ ~(Has(sdkLoop, C) /\ order \in C)
  BY <1>1, <1>2, HasAppended DEF IInv, TypeOK
<1>5. TypeOK'
  BY <1>1, <1>4 DEF IInv, TypeOK
<1>6. /\ \A v : v # "executeCommand" => (Has(sdkLoop', Of(v)) <=> Has(sdkLoop, Of(v)))
      /\ \A v : v # "executeCommand" => (Once(sdkLoop', Of(v)) <=> Once(sdkLoop, Of(v)))
  BY <1>2, <1>4
<1>7. CoreInv'
  BY <1>1, <1>6 DEF IInv, CoreInv, StartsOnce, Launching, CoreReturns, RestartEnds, Synchronized,
     ListsFollow, OneRestart, OnlyOverlapsAbandon, Replaced
<1>8. ArgumentsKnown' /\ ArgumentsFirst'
  BY <1>1, ArgumentsStay
<1>9. OnePlace'
  <2> SUFFICES ASSUME NEW d \in Commands PROVE InPlace(d)'
    BY DEF OnePlace
  <2>1. InPlace(d)
    BY DEF IInv, OnePlace
  <2>2. /\ Has(sdkLoop', Orders(d)) <=> Has(sdkLoop, Orders(d)) \/ d = c
        /\ Once(sdkLoop', Orders(d)) <=> Once(sdkLoop, Orders(d)) /\ ~(Has(sdkLoop, Orders(d)) /\ d = c)
    BY <1>3, <1>4
  <2> QED
    BY <1>1, <2>1, <2>2 DEF InPlace
<1> QED
  BY <1>5, <1>7, <1>8, <1>9 DEF IInv

LEMMA SetCoreStartedStep ==
  ASSUME IInv, RunSetCoreStarted PROVE IInv'
<1> DEFINE on == Head(uiLoop).on
<1>1. /\ main = "loop" /\ initCore = "idle" /\ uiLoop # <<>> /\ Head(uiLoop).do = "setCoreStarted"
      /\ uiLoop' = Tail(uiLoop) /\ coreStarted' = on
      /\ IF awaiting /\ on # coreStarted THEN InitLists(on) ELSE UNCHANGED <<lists, awaiting>>
      /\ UNCHANGED <<main, initCore, window, applies, sdkLoop>>
      /\ UNCHANGED <<core, queue, deferred, fetches, restarting>>
      /\ UNCHANGED <<received, taken, performed, fruitless, overlapped, abandoned>>
  BY DEF RunSetCoreStarted, UiRuns, ChangeCoreStarted, sdk, history
<1>2. /\ uiLoop' \in Seq(Closures) /\ on \in BOOLEAN
      /\ \A v : v # "setCoreStarted" => (Has(uiLoop', Of(v)) <=> Has(uiLoop, Of(v)))
      /\ \A v : v # "setCoreStarted" => (Once(uiLoop', Of(v)) <=> Once(uiLoop, Of(v)))
      /\ \A shown, last : Tells(uiLoop, shown, last) => Tells(uiLoop', on, last)
  BY <1>1, UiTakes, Heads DEF IInv
<1> HIDE DEF on
<1>3. /\ awaiting' => awaiting /\ ~coreStarted'
      /\ lists' \in {"none", "reset", "filled"} /\ awaiting' \in BOOLEAN
      /\ awaiting \/ lists = "filled" => awaiting' \/ lists' = "filled"
  BY <1>1, <1>2 DEF IInv, CoreInv, ListsFollow, InitLists, TypeOK
<1>4. TypeOK'
  BY <1>1, <1>2, <1>3 DEF IInv, TypeOK
<1>5. Synchronized'
  BY <1>1, <1>2 DEF IInv, CoreInv, Synchronized, Replaced
<1>6. CoreInv'
  BY <1>1, <1>2, <1>3, <1>5 DEF IInv, CoreInv, StartsOnce, Launching, CoreReturns, RestartEnds,
     ListsFollow, OneRestart, OnlyOverlapsAbandon, Replaced
<1>7. ArgumentsKnown' /\ ArgumentsFirst'
  BY <1>1, ArgumentsStay
<1>8. OnePlace'
  BY <1>1, PlacesStay
<1> QED
  BY <1>4, <1>6, <1>7, <1>8 DEF IInv
LEMMA CreateUiStep ==
  ASSUME IInv, CreateUi PROVE IInv'
<1>1. /\ main = "loop" /\ initCore = "idle" /\ uiLoop # <<>> /\ Head(uiLoop).do = "createUi"
      /\ uiLoop' = IF window THEN Tail(uiLoop) ELSE Append(Tail(uiLoop), Do("setMainWindow"))
      /\ IF coreStarted THEN InitLists(TRUE) ELSE awaiting' = TRUE /\ UNCHANGED lists
      /\ UNCHANGED <<main, initCore, coreStarted, window, applies, sdkLoop>>
      /\ UNCHANGED <<core, queue, deferred, fetches, restarting>>
      /\ UNCHANGED <<received, taken, performed, fruitless, overlapped, abandoned>>
  BY DEF CreateUi, sdk, history
<1>2. /\ Tail(uiLoop) \in Seq(Closures)
      /\ \A v : v # "createUi" => (Has(Tail(uiLoop), Of(v)) <=> Has(uiLoop, Of(v)))
      /\ \A v : v # "createUi" => (Once(Tail(uiLoop), Of(v)) <=> Once(uiLoop, Of(v)))
      /\ \A shown, last : Tells(uiLoop, shown, last) => Tells(Tail(uiLoop), shown, last)
  BY <1>1, UiTakes DEF IInv
<1>3. /\ Do("setMainWindow") \in Closures /\ Do("setMainWindow") \notin Words
      /\ \A v : Do("setMainWindow") \in Of(v) <=> v = "setMainWindow"
  BY Closing DEF Plain, Words
<1>4. /\ uiLoop' \in Seq(Closures)
      /\ Has(uiLoop', Of("coreStopped")) <=> Has(uiLoop, Of("coreStopped"))
      /\ Once(uiLoop', Of("coreStopped")) <=> Once(uiLoop, Of("coreStopped"))
      /\ \A shown, last : Tells(uiLoop, shown, last) => Tells(uiLoop', shown, last)
  <2>1. CASE window
    BY <1>1, <1>2, <2>1
  <2>2. CASE ~window
    <3>1. uiLoop' = Append(Tail(uiLoop), Do("setMainWindow"))
      BY <1>1, <2>2
    <3>2. /\ uiLoop' \in Seq(Closures)
          /\ \A C : Has(uiLoop', C) <=> Has(Tail(uiLoop), C) \/ Do("setMainWindow") \in C
          /\ \A C : Once(uiLoop', C)
                    <=> Once(Tail(uiLoop), C) /\ ~(Has(Tail(uiLoop), C) /\ Do("setMainWindow") \in C)
      BY <1>2, <1>3, <3>1, HasAppended
    <3>3. \A shown, last : Tells(Tail(uiLoop), shown, last) => Tells(uiLoop', shown, last)
      BY <1>2, <1>3, <3>1, TellsAppended
    <3> QED
      BY <1>2, <1>3, <3>2, <3>3
  <2> QED
    BY <2>1, <2>2
<1>5. /\ awaiting' \in BOOLEAN /\ lists' \in {"none", "reset", "filled"}
      /\ awaiting' => ~coreStarted /\ (awaiting' \/ lists' = "filled")
      /\ awaiting' \/ lists' = "filled"
  BY <1>1 DEF IInv, TypeOK, InitLists
<1>6. TypeOK'
  BY <1>1, <1>4, <1>5 DEF IInv, TypeOK
<1>7. Synchronized'
  BY <1>1, <1>4 DEF IInv, CoreInv, Synchronized, Replaced
<1>8. CoreInv'
  BY <1>1, <1>4, <1>5, <1>7 DEF IInv, CoreInv, StartsOnce, Launching, CoreReturns, RestartEnds,
     ListsFollow, OneRestart, OnlyOverlapsAbandon, Replaced
<1>9. ArgumentsKnown' /\ ArgumentsFirst'
  BY <1>1, ArgumentsStay
<1>10. OnePlace'
  BY <1>1, PlacesStay
<1> QED
  BY <1>6, <1>8, <1>9, <1>10 DEF IInv

LEMMA SetMainWindowStep ==
  ASSUME IInv, SetMainWindow PROVE IInv'
<1> DEFINE posts == [i \in DOMAIN applies |-> ForCommand("setFetchConfig", applies[i])]
<1>1. /\ main = "loop" /\ initCore = "idle" /\ uiLoop # <<>> /\ Head(uiLoop).do = "setMainWindow"
      /\ uiLoop' = Tail(uiLoop) /\ window' = TRUE /\ applies' = <<>>
      /\ sdkLoop' = sdkLoop \o posts
      /\ UNCHANGED <<main, initCore, coreStarted, lists, awaiting>>
      /\ UNCHANGED <<core, queue, deferred, fetches, restarting>>
      /\ UNCHANGED <<received, taken, performed, fruitless, overlapped, abandoned>>
  BY DEF SetMainWindow, UiRuns, sdk, history
<1>2. /\ uiLoop' \in Seq(Closures)
      /\ \A v : v # "setMainWindow" => (Has(uiLoop', Of(v)) <=> Has(uiLoop, Of(v)))
      /\ \A v : v # "setMainWindow" => (Once(uiLoop', Of(v)) <=> Once(uiLoop, Of(v)))
      /\ \A shown, last : Tells(uiLoop, shown, last) => Tells(uiLoop', shown, last)
  BY <1>1, UiTakes DEF IInv
<1>3. /\ posts \in Seq(Closures)
      /\ \A v : v # "setFetchConfig" => ~Has(posts, Of(v)) /\ Once(posts, Of(v))
      /\ \A d : ~Has(posts, Orders(d))
  BY SentOn DEF Bearing, IInv, TypeOK
<1>4. \A d : Once(posts, Orders(d))
  BY <1>3 DEF Has, Once
<1> HIDE DEF posts
<1>5. sdkLoop \in Seq(Closures)
  BY DEF IInv, TypeOK
<1>6. /\ sdkLoop' \in Seq(Closures)
      /\ \A v : v # "setFetchConfig" => (Has(sdkLoop', Of(v)) <=> Has(sdkLoop, Of(v)))
      /\ \A v : v # "setFetchConfig" => (Once(sdkLoop', Of(v)) <=> Once(sdkLoop, Of(v)))
      /\ \A d : /\ Has(sdkLoop, Orders(d)) <=> Has(sdkLoop', Orders(d))
                /\ Once(sdkLoop, Orders(d)) <=> Once(sdkLoop', Orders(d))
  BY <1>1, <1>3, <1>4, <1>5, HasLonger, Longer
<1>7. TypeOK'
  <2>1. applies' \in Seq(Commands)
    BY <1>1, EmptySeq
  <2> QED
    BY <1>1, <1>2, <1>6, <2>1 DEF IInv, TypeOK
<1>8. Synchronized'
  BY <1>1, <1>2, <1>6 DEF IInv, CoreInv, Synchronized, Replaced
<1>9. CoreInv'
  BY <1>1, <1>2, <1>6, <1>8 DEF IInv, CoreInv, StartsOnce, Launching, CoreReturns, RestartEnds,
     ListsFollow, OneRestart, OnlyOverlapsAbandon, Replaced
<1>10. ArgumentsKnown' /\ ArgumentsFirst'
  BY <1>1, ArgumentsStay
<1>11. OnePlace'
  BY <1>1, <1>6, PlacesStay
<1> QED
  BY <1>7, <1>9, <1>10, <1>11 DEF IInv

LEMMA RequestFetchConfigStep ==
  ASSUME IInv, RequestFetchConfig PROVE IInv'
<1> DEFINE c == Head(uiLoop).cmd
           apply == ForCommand("setFetchConfig", c)
<1>1. /\ main = "loop" /\ initCore = "idle" /\ uiLoop # <<>> /\ Head(uiLoop).do = "requestFetchConfig"
      /\ uiLoop' = Tail(uiLoop)
      /\ \/ sdkLoop' = Append(sdkLoop, apply) /\ UNCHANGED applies
         \/ applies' = Append(applies, c) /\ UNCHANGED sdkLoop
      /\ UNCHANGED <<main, initCore, coreStarted, lists, awaiting, window>>
      /\ UNCHANGED <<core, queue, deferred, fetches, restarting>>
      /\ UNCHANGED <<received, taken, performed, fruitless, overlapped, abandoned>>
  BY DEF RequestFetchConfig, UiRuns, sdk, history
<1>2. /\ uiLoop' \in Seq(Closures) /\ Head(uiLoop) \in Closures
      /\ \A v : v # "requestFetchConfig" => (Has(uiLoop', Of(v)) <=> Has(uiLoop, Of(v)))
      /\ \A v : v # "requestFetchConfig" => (Once(uiLoop', Of(v)) <=> Once(uiLoop, Of(v)))
      /\ \A shown, last : Tells(uiLoop, shown, last) => Tells(uiLoop', shown, last)
  BY <1>1, UiTakes DEF IInv
<1>3. c \in Commands
  BY <1>1, <1>2, Heads DEF Bearing
<1>4. apply \in Closures /\ apply.do = "setFetchConfig"
  BY <1>3, Dos DEF Bearing
<1> HIDE DEF c, apply
<1>5. /\ sdkLoop' \in Seq(Closures) /\ applies' \in Seq(Commands)
      /\ \A v : v # "setFetchConfig" => (Has(sdkLoop', Of(v)) <=> Has(sdkLoop, Of(v)))
      /\ \A v : v # "setFetchConfig" => (Once(sdkLoop', Of(v)) <=> Once(sdkLoop, Of(v)))
      /\ \A d : /\ Has(sdkLoop, Orders(d)) <=> Has(sdkLoop', Orders(d))
                /\ Once(sdkLoop, Orders(d)) <=> Once(sdkLoop', Orders(d))
  <2>1. CASE sdkLoop' = Append(sdkLoop, apply) /\ UNCHANGED applies
    BY <1>4, <2>1, SdkGets DEF IInv, TypeOK
  <2>2. CASE applies' = Append(applies, c) /\ UNCHANGED sdkLoop
    BY <1>3, <2>2, AppendProperties DEF IInv, TypeOK
  <2> QED
    BY <1>1, <2>1, <2>2
<1>6. TypeOK'
  BY <1>1, <1>2, <1>5 DEF IInv, TypeOK
<1>7. Synchronized'
  BY <1>1, <1>2, <1>5 DEF IInv, CoreInv, Synchronized, Replaced
<1>8. CoreInv'
  BY <1>1, <1>2, <1>5, <1>7 DEF IInv, CoreInv, StartsOnce, Launching, CoreReturns, RestartEnds,
     ListsFollow, OneRestart, OnlyOverlapsAbandon, Replaced
<1>9. ArgumentsKnown' /\ ArgumentsFirst'
  BY <1>1, ArgumentsStay
<1>10. OnePlace'
  BY <1>1, <1>5, PlacesStay
<1> QED
  BY <1>6, <1>8, <1>9, <1>10 DEF IInv

LEMMA Underway ==
  ASSUME TypeOK
  PROVE  UnderWay <=> \/ Has(sdkLoop, Of("stop")) \/ Has(sdkLoop, Of("start"))
                      \/ Has(uiLoop, Of("coreStopped"))
<1>1. /\ \A i \in DOMAIN sdkLoop : sdkLoop[i] \in Closures
      /\ \A i \in DOMAIN uiLoop : uiLoop[i] \in Closures
  BY ElementOfSeq, LenProperties DEF TypeOK
<1> QED
  BY <1>1 DEF UnderWay, Has, Of

LEMMA RestartCoreStep ==
  ASSUME IInv, RestartCore PROVE IInv'
<1>1. /\ main = "loop" /\ initCore = "idle" /\ uiLoop # <<>> /\ Head(uiLoop).do = "restartCore"
      /\ uiLoop' = Tail(uiLoop) /\ restarting' = TRUE
      /\ sdkLoop' = Append(sdkLoop, Do("stop"))
      /\ overlapped' = (overlapped \/ UnderWay)
      /\ UNCHANGED <<main, initCore, coreStarted, lists, awaiting, window, applies>>
      /\ UNCHANGED <<core, queue, deferred, fetches>>
      /\ UNCHANGED <<received, taken, performed, fruitless, abandoned>>
  BY DEF RestartCore, UiRuns, ui, sdk
<1>2. /\ uiLoop' \in Seq(Closures)
      /\ \A v : v # "restartCore" => (Has(uiLoop', Of(v)) <=> Has(uiLoop, Of(v)))
      /\ \A v : v # "restartCore" => (Once(uiLoop', Of(v)) <=> Once(uiLoop, Of(v)))
      /\ \A shown, last : Tells(uiLoop, shown, last) => Tells(uiLoop', shown, last)
  BY <1>1, UiTakes DEF IInv
<1>3. Do("stop") \in Closures /\ Do("stop").do = "stop"
  BY Dos DEF Plain
<1>4. /\ sdkLoop' \in Seq(Closures)
      /\ \A v : Has(sdkLoop', Of(v)) <=> Has(sdkLoop, Of(v)) \/ v = "stop"
      /\ \A v : Once(sdkLoop', Of(v)) <=> Once(sdkLoop, Of(v)) /\ ~(Has(sdkLoop, Of(v)) /\ v = "stop")
      /\ \A d : /\ Has(sdkLoop, Orders(d)) <=> Has(sdkLoop', Orders(d))
                /\ Once(sdkLoop, Orders(d)) <=> Once(sdkLoop', Orders(d))
  BY <1>1, <1>3, SdkGets DEF IInv
<1>5. TypeOK'
  BY <1>1, <1>2, <1>4 DEF IInv, TypeOK, UnderWay
<1>6. Synchronized'
  BY <1>1, <1>2, <1>4 DEF IInv, CoreInv, Synchronized, Replaced
<1>7. ~overlapped' => /\ ~Has(sdkLoop, Of("stop")) /\ ~Has(sdkLoop, Of("start"))
                      /\ ~Has(uiLoop, Of("coreStopped"))
  BY <1>1, Underway DEF IInv
<1>8. OneRestart' /\ OnlyOverlapsAbandon'
  BY <1>1, <1>2, <1>4, <1>7 DEF IInv, CoreInv, OneRestart, OnlyOverlapsAbandon, Replaced
<1>9. CoreInv'
  BY <1>1, <1>2, <1>4, <1>6, <1>8 DEF IInv, CoreInv, StartsOnce, Launching, CoreReturns,
     RestartEnds, ListsFollow, Replaced
<1>10. ArgumentsKnown' /\ ArgumentsFirst'
  BY <1>1, ArgumentsStay
<1>11. OnePlace'
  BY <1>1, <1>4, PlacesStay
<1> QED
  BY <1>5, <1>9, <1>10, <1>11 DEF IInv

LEMMA CoreStoppedStep ==
  ASSUME IInv, CoreStopped PROVE IInv'
<1>1. /\ main = "loop" /\ initCore = "idle" /\ uiLoop # <<>> /\ Head(uiLoop).do = "coreStopped"
      /\ uiLoop' = Tail(uiLoop) /\ coreStarted' = FALSE /\ initCore' = "waiting"
      /\ lists' = IF lists = "none" THEN "none" ELSE "reset"
      /\ sdkLoop' = Append(sdkLoop, Do("start"))
      /\ UNCHANGED <<main, awaiting, window, applies>>
      /\ UNCHANGED <<core, queue, deferred, fetches, restarting>>
      /\ UNCHANGED <<received, taken, performed, fruitless, overlapped, abandoned>>
  BY DEF CoreStopped, InitCore, UiRuns, sdk, history
<1>2. /\ uiLoop' \in Seq(Closures)
      /\ Has(uiLoop, Of("coreStopped"))
      /\ Once(uiLoop, Of("coreStopped")) <=> /\ Once(uiLoop', Of("coreStopped"))
                                             /\ ~Has(uiLoop', Of("coreStopped"))
  BY <1>1, UiTakes DEF IInv
<1>3. Do("start") \in Closures /\ Do("start").do = "start"
  BY Dos DEF Plain
<1>4. /\ sdkLoop' \in Seq(Closures)
      /\ \A v : Has(sdkLoop', Of(v)) <=> Has(sdkLoop, Of(v)) \/ v = "start"
      /\ \A v : Once(sdkLoop', Of(v)) <=> Once(sdkLoop, Of(v)) /\ ~(Has(sdkLoop, Of(v)) /\ v = "start")
      /\ \A d : /\ Has(sdkLoop, Orders(d)) <=> Has(sdkLoop', Orders(d))
                /\ Once(sdkLoop, Orders(d)) <=> Once(sdkLoop', Orders(d))
  BY <1>1, <1>3, SdkGets DEF IInv
<1>5. TypeOK'
  BY <1>1, <1>2, <1>4 DEF IInv, TypeOK
<1>6. CoreInv'
  BY <1>1, <1>2, <1>4 DEF IInv, CoreInv, StartsOnce, Launching, CoreReturns, RestartEnds,
     Synchronized, ListsFollow, OneRestart, OnlyOverlapsAbandon, Replaced
<1>7. ArgumentsKnown' /\ ArgumentsFirst'
  BY <1>1, ArgumentsStay
<1>8. OnePlace'
  BY <1>1, <1>4, PlacesStay
<1> QED
  BY <1>5, <1>6, <1>7, <1>8 DEF IInv
(* The core turns on.                                                      *)
LEMMA Deferrals ==
  ASSUME TypeOK
  PROVE  /\ deferred \in Seq([cmd : Commands, as : Kinds])
         /\ performed \in Seq([cmd : Commands, as : Kinds])
BY DEF TypeOK

(* Those of the fetches that are still found.                              *)
LEMMA FoundSome ==
  ASSUME TypeOK, NEW at \in Choices(Len(fetches))
  PROVE  /\ Found(at) \in Seq(Commands)
         /\ Len(Found(at)) \in Nat /\ Len(fetches) \in Nat /\ Len(Found(at)) <= Len(fetches)
<1> DEFINE n == Len(fetches)
<1>1. n \in Nat /\ \A i \in 1 .. n : fetches[i] \in Commands
  BY LenProperties, ElementOfSeq DEF TypeOK
<1>2. PICK k \in 0 .. n : at \in [1 .. k -> 1 .. n]
  BY DEF Choices
<1> HIDE DEF n
<1>3. k \in Nat /\ k <= n
  BY <1>1, <1>2
<1>4. Found(at) \in [1 .. k -> Commands]
  BY <1>1, <1>2 DEF Found
<1>5. Found(at) \in Seq(Commands) /\ Len(Found(at)) = k
  BY <1>3, <1>4
<1> QED
  BY <1>1, <1>3, <1>5 DEF n

LEMMA TurnsOn ==
  ASSUME TypeOK, NEW before \in Seq(Closures), NEW after \in Seq(Closures),
         \A v : v # "setCoreStarted" => ~Has(before, Of(v)),
         ~Has(after, Words), ~Has(after, Of("coreStopped")), TurnOn(before, after)
  PROVE  /\ uiLoop' \in Seq(Closures)
         /\ Has(uiLoop', Of("coreStopped")) <=> Has(uiLoop, Of("coreStopped"))
         /\ Once(uiLoop', Of("coreStopped")) <=> Once(uiLoop, Of("coreStopped"))
         /\ Has(uiLoop', Of("createUi")) <=> Has(uiLoop, Of("createUi")) \/ Has(after, Of("createUi"))
         /\ main = "loop" => \A shown : Tells(uiLoop', shown, TRUE)
         /\ core' = "On" /\ restarting' = (restarting /\ main # "loop")
         /\ deferred' = <<>> /\ fetches' = <<>> /\ performed' = performed \o deferred
         /\ performed' \in Seq([cmd : Commands, as : Kinds]) /\ fruitless' \in Nat
<1>0. PICK at \in Choices(Len(fetches)) :
        /\ core' = "On" /\ performed' = performed \o deferred
        /\ deferred' = LeftConnected /\ fetches' = <<>>
        /\ fruitless' = fruitless + (Len(fetches) - Len(Found(at)))
        /\ restarting' = (restarting /\ ~Connected)
        /\ uiLoop' = uiLoop \o before \o ToConnected(<<SetCoreStarted(TRUE)>>)
                     \o Requested(Found(at)) \o after
  BY DEF TurnOn
<1> DEFINE word == ToConnected(<<SetCoreStarted(TRUE)>>)
           posts == Requested(Found(at))
           first == uiLoop \o before
           second == first \o word
           third == second \o posts
<1>1. /\ uiLoop' = third \o after
      /\ core' = "On" /\ restarting' = (restarting /\ main # "loop")
      /\ deferred' = <<>> /\ fetches' = <<>> /\ performed' = performed \o deferred
  BY <1>0 DEF LeftConnected, Connected
<1>found. /\ Found(at) \in Seq(Commands)
          /\ Len(Found(at)) \in Nat /\ Len(fetches) \in Nat /\ Len(Found(at)) <= Len(fetches)
  BY FoundSome
<1>2. /\ posts \in Seq(Closures)
      /\ \A v : v # "requestFetchConfig" => ~Has(posts, Of(v)) /\ Once(posts, Of(v))
  BY <1>found, SentOn DEF Bearing, Requested
<1>3. /\ <<SetCoreStarted(TRUE)>> \in Seq(Closures) /\ <<>> \in Seq(Closures)
      /\ \A C : Has(<<SetCoreStarted(TRUE)>>, C) <=> SetCoreStarted(TRUE) \in C
      /\ \A v : SetCoreStarted(TRUE) \in Of(v) <=> v = "setCoreStarted"
  BY HasOne, Closing
<1>4. word \in Seq(Closures) /\ \A v : v # "setCoreStarted" => ~Has(word, Of(v))
  BY <1>3, HasNothing DEF ToConnected
<1>5. \A v : /\ v # "setCoreStarted" => Once(word, Of(v)) /\ Once(before, Of(v))
             /\ ~Has(after, Of(v)) => Once(after, Of(v))
  BY <1>4 DEF Has, Once
<1>6. main = "loop" => Has(word, Words) /\ \A shown : Tells(word, shown, TRUE)
  BY TellsWord DEF ToConnected, Connected
<1>7. uiLoop \in Seq(Closures)
  BY DEF TypeOK
<1> HIDE DEF word, posts
<1>8. /\ first \in Seq(Closures)
      /\ \A C : Has(first, C) <=> Has(uiLoop, C) \/ Has(before, C)
      /\ \A C : Once(first, C) <=> Once(uiLoop, C) /\ Once(before, C) /\ ~(Has(uiLoop, C) /\ Has(before, C))
  BY <1>7, Longer, HasLonger
<1> HIDE DEF first
<1>9. /\ second \in Seq(Closures)
      /\ \A C : Has(second, C) <=> Has(first, C) \/ Has(word, C)
      /\ \A C : Once(second, C) <=> Once(first, C) /\ Once(word, C) /\ ~(Has(first, C) /\ Has(word, C))
      /\ main = "loop" => \A shown : Tells(second, shown, TRUE)
  BY <1>4, <1>6, <1>8, Longer, HasLonger, TellsLonger
<1> HIDE DEF second
<1>10. ~Has(posts, Words)
  BY <1>2 DEF Words
<1>11. /\ third \in Seq(Closures)
       /\ \A C : Has(third, C) <=> Has(second, C) \/ Has(posts, C)
       /\ \A C : Once(third, C) <=> Once(second, C) /\ Once(posts, C) /\ ~(Has(second, C) /\ Has(posts, C))
       /\ main = "loop" => \A shown : Tells(third, shown, TRUE)
  BY <1>2, <1>9, <1>10, Longer, HasLonger, TellsLonger
<1> HIDE DEF third
<1>12. /\ uiLoop' \in Seq(Closures)
       /\ \A C : Has(uiLoop', C) <=> Has(third, C) \/ Has(after, C)
       /\ \A C : Once(uiLoop', C) <=> Once(third, C) /\ Once(after, C) /\ ~(Has(third, C) /\ Has(after, C))
       /\ main = "loop" => \A shown : Tells(uiLoop', shown, TRUE)
  BY <1>1, <1>11, Longer, HasLonger, TellsLonger
<1>13. Has(uiLoop', Of("coreStopped")) <=> Has(uiLoop, Of("coreStopped"))
  BY <1>2, <1>4, <1>8, <1>9, <1>11, <1>12
<1>14. Once(uiLoop', Of("coreStopped")) <=> Once(uiLoop, Of("coreStopped"))
  BY <1>2, <1>4, <1>5, <1>8, <1>9, <1>11, <1>12
<1>15. Has(uiLoop', Of("createUi")) <=> Has(uiLoop, Of("createUi")) \/ Has(after, Of("createUi"))
  BY <1>2, <1>4, <1>8, <1>9, <1>11, <1>12
<1>16. performed' \in Seq([cmd : Commands, as : Kinds])
  BY <1>1, Deferrals, Longer
<1>17. fruitless' \in Nat
  BY <1>0, <1>found DEF TypeOK
<1> QED
  BY <1>1, <1>12, <1>13, <1>14, <1>15, <1>16, <1>17

LEMMA PlacesTurnOn ==
  ASSUME IInv, UNCHANGED <<queue, received>>, performed' = performed \o deferred, deferred' = <<>>,
         \A c : /\ Has(sdkLoop, Orders(c)) <=> Has(sdkLoop', Orders(c))
                /\ Once(sdkLoop, Orders(c)) <=> Once(sdkLoop', Orders(c))
  PROVE  OnePlace'
<1>1. SUFFICES ASSUME NEW c \in Commands PROVE InPlace(c)'
  BY DEF OnePlace
<1>2. InPlace(c)
  BY DEF IInv, OnePlace
<1>3. /\ Has(performed', Slots(c)) <=> Has(performed, Slots(c)) \/ Has(deferred, Slots(c))
      /\ Once(performed', Slots(c)) <=> /\ Once(performed, Slots(c)) /\ Once(deferred, Slots(c))
                                        /\ ~(Has(performed, Slots(c)) /\ Has(deferred, Slots(c)))
  BY Deferrals, HasLonger DEF IInv
<1>4. ~Has(deferred', Slots(c)) /\ Once(deferred', Slots(c))
  BY HasNothing
<1> QED
  BY <1>2, <1>3, <1>4 DEF InPlace

LEMMA ConfiguredStep ==
  ASSUME IInv, Configured PROVE IInv'
<1>1. /\ core = "Configuring" /\ TurnOn(<<>>, <<>>)
      /\ UNCHANGED <<main, initCore, coreStarted, lists, awaiting, window, applies, sdkLoop, queue>>
      /\ UNCHANGED <<received, taken, overlapped, abandoned>>
  BY DEF Configured, ui
<1>2. <<>> \in Seq(Closures)
  BY EmptySeq
<1>3. /\ uiLoop' \in Seq(Closures)
      /\ Has(uiLoop', Of("coreStopped")) <=> Has(uiLoop, Of("coreStopped"))
      /\ Once(uiLoop', Of("coreStopped")) <=> Once(uiLoop, Of("coreStopped"))
      /\ Has(uiLoop', Of("createUi")) <=> Has(uiLoop, Of("createUi"))
      /\ main = "loop" => \A shown : Tells(uiLoop', shown, TRUE)
      /\ core' = "On" /\ restarting' = (restarting /\ main # "loop")
      /\ deferred' = <<>> /\ fetches' = <<>> /\ performed' = performed \o deferred
      /\ performed' \in Seq([cmd : Commands, as : Kinds]) /\ fruitless' \in Nat
  BY <1>1, <1>2, TurnsOn, HasNothing DEF IInv
<1>4. TypeOK'
  <2>1. fetches' \in Seq(Commands) /\ deferred' \in Seq([cmd : Commands, as : Kinds])
    BY <1>3, EmptySeq
  <2>2. restarting' \in BOOLEAN
    BY <1>3
  <2> QED
    BY <1>1, <1>3, <2>1, <2>2 DEF IInv, TypeOK
<1>5. StartsOnce' /\ Launching' /\ CoreReturns' /\ ListsFollow' /\ OneRestart' /\ OnlyOverlapsAbandon'
  BY <1>1, <1>3 DEF IInv, CoreInv, StartsOnce, Launching, CoreReturns, ListsFollow, OneRestart,
     OnlyOverlapsAbandon, Replaced
<1>6. RestartEnds'
  BY <1>1, <1>3 DEF IInv, CoreInv, Launching, RestartEnds, TypeOK
<1>7. Synchronized'
  BY <1>1, <1>3 DEF Synchronized
<1>8. CoreInv'
  BY <1>5, <1>6, <1>7 DEF CoreInv
<1>9. ArgumentsKnown' /\ ArgumentsFirst'
  BY <1>1, ArgumentsStay
<1>10. OnePlace'
  BY <1>1, <1>3, PlacesTurnOn
<1> QED
  BY <1>4, <1>8, <1>9, <1>10 DEF IInv
(* Steps of the SDK thread.                                                *)
LEMMA StartStep ==
  ASSUME IInv, Start PROVE IInv'
<1> DEFINE word == ToConnected(<<SetCoreStarted(FALSE)>>)
           after == <<Do("createUi")>>
<1>1. /\ SdkRuns("start") /\ initCore' = "returned"
      /\ abandoned' = abandoned + (IF core \in {"On", "Configuring"} THEN 1 ELSE 0)
      /\ UNCHANGED <<main, coreStarted, lists, awaiting, window, applies>>
      /\ UNCHANGED <<queue, received, taken, overlapped>>
  BY DEF Start
<1>2. \/ TurnOn(word, after)
      \/ /\ core' = "Configuring" /\ uiLoop' = uiLoop \o word \o after
         /\ UNCHANGED <<deferred, fetches, performed, fruitless, restarting>>
  BY DEF Start
<1>3. /\ sdkLoop' \in Seq(Closures) /\ Has(sdkLoop, Of("start"))
      /\ \A v : v # "start" => (Has(sdkLoop, Of(v)) <=> Has(sdkLoop', Of(v)))
      /\ \A v : v # "start" => (Once(sdkLoop, Of(v)) <=> Once(sdkLoop', Of(v)))
      /\ Once(sdkLoop, Of("start")) <=> Once(sdkLoop', Of("start")) /\ ~Has(sdkLoop', Of("start"))
  BY <1>1, SdkTakes DEF IInv
<1>orders. \A c : /\ Has(sdkLoop, Orders(c)) <=> Has(sdkLoop', Orders(c))
                  /\ Once(sdkLoop, Orders(c)) <=> Once(sdkLoop', Orders(c))
  BY <1>1, SdkKeepsOrders DEF IInv
<1>4. /\ word \in Seq(Closures) /\ \A v : v # "setCoreStarted" => ~Has(word, Of(v)) /\ Once(word, Of(v))
      /\ main = "loop" => Has(word, Words) /\ \A shown : Tells(word, shown, FALSE)
  <2>1. CASE main = "loop"
    <3>1. word = <<SetCoreStarted(FALSE)>>
      BY <2>1 DEF ToConnected, Connected
    <3> QED
      BY <3>1, TellsWord
  <2>2. CASE main # "loop"
    <3>1. word = <<>>
      BY <2>2 DEF ToConnected, Connected
    <3> QED
      BY <2>2, <3>1, HasNothing, EmptySeq
  <2> QED
    BY <2>1, <2>2
<1>5. /\ after \in Seq(Closures)
      /\ \A v : Has(after, Of(v)) <=> v = "createUi"
      /\ \A v : Once(after, Of(v))
      /\ ~Has(after, Words)
  BY HasOne, Closing DEF Plain, Words
<1> HIDE DEF word, after
<1>6. /\ uiLoop' \in Seq(Closures)
      /\ Has(uiLoop', Of("coreStopped")) <=> Has(uiLoop, Of("coreStopped"))
      /\ Once(uiLoop', Of("coreStopped")) <=> Once(uiLoop, Of("coreStopped"))
      /\ Has(uiLoop', Of("createUi"))
      /\ main = "loop" => \A shown : Tells(uiLoop', shown, core' = "On")
      /\ core' \in {"On", "Configuring"}
      /\ restarting' \in BOOLEAN
      /\ restarting' => restarting /\ (core' = "Configuring" \/ main # "loop")
      /\ \/ UNCHANGED <<deferred, fetches, performed>>
         \/ deferred' = <<>> /\ fetches' = <<>> /\ performed' = performed \o deferred
      /\ performed' \in Seq([cmd : Commands, as : Kinds]) /\ fruitless' \in Nat
  <2>1. CASE TurnOn(word, after)
    <3>0. /\ TypeOK /\ ~Has(after, Of("coreStopped"))
          /\ \A v : v # "setCoreStarted" => ~Has(word, Of(v))
      BY <1>4, <1>5 DEF IInv
    <3>1. /\ uiLoop' \in Seq(Closures)
          /\ Has(uiLoop', Of("coreStopped")) <=> Has(uiLoop, Of("coreStopped"))
          /\ Once(uiLoop', Of("coreStopped")) <=> Once(uiLoop, Of("coreStopped"))
          /\ Has(uiLoop', Of("createUi")) <=> Has(uiLoop, Of("createUi")) \/ Has(after, Of("createUi"))
          /\ main = "loop" => \A shown : Tells(uiLoop', shown, TRUE)
          /\ core' = "On" /\ restarting' = (restarting /\ main # "loop")
          /\ deferred' = <<>> /\ fetches' = <<>> /\ performed' = performed \o deferred
          /\ performed' \in Seq([cmd : Commands, as : Kinds]) /\ fruitless' \in Nat
      BY <1>4, <1>5, <2>1, <3>0, TurnsOn
    <3>2. (core' = "On") = TRUE /\ restarting' \in BOOLEAN
      BY <3>1
    <3> QED
      BY <1>5, <3>1, <3>2
  <2>2. CASE /\ core' = "Configuring" /\ uiLoop' = uiLoop \o word \o after
             /\ UNCHANGED <<deferred, fetches, performed, fruitless, restarting>>
    <3> DEFINE first == uiLoop \o word
    <3>1. uiLoop \in Seq(Closures)
      BY DEF IInv, TypeOK
    <3>2. /\ first \in Seq(Closures)
          /\ \A C : Has(first, C) <=> Has(uiLoop, C) \/ Has(word, C)
          /\ \A C : Once(first, C) <=> Once(uiLoop, C) /\ Once(word, C) /\ ~(Has(uiLoop, C) /\ Has(word, C))
          /\ main = "loop" => \A shown : Tells(first, shown, FALSE)
      BY <1>4, <3>1, Longer, HasLonger, TellsLonger
    <3>3. uiLoop' = first \o after
      BY <2>2
    <3> HIDE DEF first
    <3>4. /\ uiLoop' \in Seq(Closures)
          /\ \A C : Has(uiLoop', C) <=> Has(first, C) \/ Has(after, C)
          /\ \A C : Once(uiLoop', C) <=> Once(first, C) /\ Once(after, C) /\ ~(Has(first, C) /\ Has(after, C))
          /\ main = "loop" => \A shown : Tells(uiLoop', shown, FALSE)
      BY <1>5, <3>2, <3>3, Longer, HasLonger, TellsLonger
    <3>5. (core' = "On") = FALSE /\ core' \in {"On", "Configuring"}
      BY <2>2
    <3>6. /\ Has(uiLoop', Of("coreStopped")) <=> Has(uiLoop, Of("coreStopped"))
          /\ Once(uiLoop', Of("coreStopped")) <=> Once(uiLoop, Of("coreStopped"))
          /\ Has(uiLoop', Of("createUi"))
      BY <1>4, <1>5, <3>2, <3>4
    <3>7. main = "loop" => \A shown : Tells(uiLoop', shown, core' = "On")
      BY <3>4, <3>5
    <3>8. performed' \in Seq([cmd : Commands, as : Kinds]) /\ restarting' \in BOOLEAN /\ fruitless' \in Nat
      BY <2>2 DEF IInv, TypeOK
    <3> QED
      BY <2>2, <3>4, <3>5, <3>6, <3>7, <3>8
  <2> QED
    BY <1>2, <2>1, <2>2
<1>7. TypeOK'
  <2>1. fetches' \in Seq(Commands) /\ deferred' \in Seq([cmd : Commands, as : Kinds])
    BY <1>6, EmptySeq DEF IInv, TypeOK
  <2>2. abandoned' \in Nat
    BY <1>1 DEF IInv, TypeOK
  <2>3. /\ core' \in {"none", "Configuring", "On", "Off"} /\ initCore' \in {"idle", "waiting", "returned"}
        /\ uiLoop' \in Seq(Closures) /\ sdkLoop' \in Seq(Closures) /\ restarting' \in BOOLEAN
        /\ performed' \in Seq([cmd : Commands, as : Kinds]) /\ fruitless' \in Nat
    <3>1. core' \in {"none", "Configuring", "On", "Off"} /\ initCore' \in {"idle", "waiting", "returned"}
      BY <1>1, <1>6
    <3> QED
      BY <1>3, <1>6, <3>1
  <2> QED
    BY <1>1, <2>1, <2>2, <2>3 DEF IInv, TypeOK
<1>8. initCore = "waiting" /\ ~Has(sdkLoop', Of("start")) /\ Replaced
  BY <1>3 DEF IInv, CoreInv, StartsOnce, Replaced
<1>9. main = "launch" => core = "none"
  BY <1>8 DEF IInv, CoreInv, Launching
<1>10. ~overlapped /\ main = "loop" => core = "Off" /\ ~Has(uiLoop, Of("coreStopped"))
  BY <1>3, <1>8 DEF IInv, CoreInv, OneRestart
<1>11. StartsOnce' /\ CoreReturns' /\ ListsFollow'
  BY <1>1, <1>3, <1>6, <1>8 DEF IInv, CoreInv, StartsOnce, CoreReturns, ListsFollow
<1>17. Launching' /\ RestartEnds'
  <2>1. restarting => main = "loop"
    BY DEF IInv, TypeOK, CoreInv, Launching
  <2>2. RestartEnds'
    BY <1>6, <2>1 DEF RestartEnds
  <2>3. main = "launch" => ~restarting'
    BY <1>6, <2>1
  <2> QED
    BY <1>1, <1>3, <1>6, <2>2, <2>3 DEF IInv, CoreInv, Launching
<1>12. OneRestart'
  BY <1>1, <1>3, <1>6, <1>8, <1>10 DEF IInv, CoreInv, OneRestart, Replaced
<1>13. OnlyOverlapsAbandon'
  BY <1>1, <1>9, <1>10 DEF IInv, CoreInv, OnlyOverlapsAbandon, TypeOK
<1>14. Synchronized'
  BY <1>1, <1>6 DEF Synchronized
<1>15. ArgumentsKnown' /\ ArgumentsFirst'
  BY <1>1, ArgumentsStay
<1>16. OnePlace'
  <2>1. CASE UNCHANGED <<deferred, fetches, performed>>
    BY <1>1, <1>orders, <2>1, PlacesStay
  <2>2. CASE deferred' = <<>> /\ performed' = performed \o deferred
    BY <1>1, <1>orders, <2>2, PlacesTurnOn
  <2> QED
    BY <1>6, <2>1, <2>2
<1> QED
  BY <1>7, <1>11, <1>12, <1>13, <1>14, <1>15, <1>16, <1>17 DEF IInv, CoreInv

LEMMA StopStep ==
  ASSUME IInv, Stop PROVE IInv'
<1> DEFINE word == IF core # "Off" THEN <<SetCoreStarted(FALSE)>> ELSE <<>>
           after == <<Do("coreStopped")>>
           first == uiLoop \o word
<1>1. /\ SdkRuns("stop") /\ core' = "Off" /\ uiLoop' = first \o after
      /\ UNCHANGED <<main, initCore, coreStarted, lists, awaiting, window, applies>>
      /\ UNCHANGED <<queue, deferred, fetches, restarting>>
      /\ UNCHANGED <<received, taken, performed, fruitless, overlapped, abandoned>>
  BY DEF Stop, ui, history
<1>2. /\ sdkLoop' \in Seq(Closures) /\ Has(sdkLoop, Of("stop"))
      /\ \A v : v # "stop" => (Has(sdkLoop, Of(v)) <=> Has(sdkLoop', Of(v)))
      /\ \A v : v # "stop" => (Once(sdkLoop, Of(v)) <=> Once(sdkLoop', Of(v)))
      /\ Once(sdkLoop, Of("stop")) <=> Once(sdkLoop', Of("stop")) /\ ~Has(sdkLoop', Of("stop"))
  BY <1>1, SdkTakes DEF IInv
<1>orders. \A c : /\ Has(sdkLoop, Orders(c)) <=> Has(sdkLoop', Orders(c))
                  /\ Once(sdkLoop, Orders(c)) <=> Once(sdkLoop', Orders(c))
  BY <1>1, SdkKeepsOrders DEF IInv
<1>3. word \in Seq(Closures) /\ \A v : v # "setCoreStarted" => ~Has(word, Of(v)) /\ Once(word, Of(v))
  <2>1. CASE core # "Off"
    <3>1. word = <<SetCoreStarted(FALSE)>>
      BY <2>1
    <3> QED
      BY <3>1, TellsWord
  <2>2. CASE core = "Off"
    <3>1. word = <<>>
      BY <2>2
    <3> QED
      BY <3>1, HasNothing, EmptySeq
  <2> QED
    BY <2>1, <2>2
<1>4. /\ after \in Seq(Closures)
      /\ \A v : (Has(after, Of(v)) <=> v = "coreStopped") /\ Once(after, Of(v))
  BY HasOne, Closing DEF Plain
<1>5. uiLoop \in Seq(Closures)
  BY DEF IInv, TypeOK
<1> HIDE DEF word, after
<1>6. /\ first \in Seq(Closures)
      /\ \A C : Has(first, C) <=> Has(uiLoop, C) \/ Has(word, C)
      /\ \A C : Once(first, C) <=> Once(uiLoop, C) /\ Once(word, C) /\ ~(Has(uiLoop, C) /\ Has(word, C))
  BY <1>3, <1>5, Longer, HasLonger
<1> HIDE DEF first
<1>7. /\ uiLoop' \in Seq(Closures)
      /\ Has(uiLoop', Of("coreStopped"))
      /\ Once(uiLoop, Of("coreStopped")) /\ ~Has(uiLoop, Of("coreStopped"))
           => Once(uiLoop', Of("coreStopped"))
  BY <1>1, <1>3, <1>4, <1>6, Longer, HasLonger
<1>8. TypeOK'
  BY <1>1, <1>2, <1>7 DEF IInv, TypeOK
<1>9. main = "loop"
  BY <1>2 DEF IInv, CoreInv, Launching, TypeOK
<1>10. StartsOnce' /\ Launching' /\ CoreReturns' /\ RestartEnds' /\ ListsFollow' /\ Synchronized'
  BY <1>1, <1>2, <1>7, <1>9 DEF IInv, CoreInv, StartsOnce, Launching, CoreReturns, RestartEnds,
     ListsFollow, Synchronized, Replaced
<1>11. OneRestart' /\ OnlyOverlapsAbandon'
  BY <1>1, <1>2, <1>7, <1>9 DEF IInv, CoreInv, StartsOnce, OneRestart, OnlyOverlapsAbandon, Replaced
<1>12. ArgumentsKnown' /\ ArgumentsFirst'
  BY <1>1, ArgumentsStay
<1>13. OnePlace'
  BY <1>1, <1>orders, PlacesStay
<1> QED
  BY <1>8, <1>10, <1>11, <1>12, <1>13 DEF IInv, CoreInv

LEMMA SynchronizeStep ==
  ASSUME IInv, SynchronizeState PROVE IInv'
<1> DEFINE on == core = "On"
<1>1. /\ SdkRuns("synchronize") /\ uiLoop' = Append(uiLoop, SetCoreStarted(on))
      /\ UNCHANGED <<main, initCore, coreStarted, lists, awaiting, window, applies>>
      /\ UNCHANGED <<core, queue, deferred, fetches, restarting>>
      /\ UNCHANGED <<received, taken, performed, fruitless, overlapped, abandoned>>
  BY DEF SynchronizeState, ui, sdk, history
<1>2. on \in BOOLEAN /\ on = (core' = "On")
  BY <1>1
<1> HIDE DEF on
<1>3. /\ sdkLoop' \in Seq(Closures)
      /\ \A v : v # "synchronize" => (Has(sdkLoop, Of(v)) <=> Has(sdkLoop', Of(v)))
      /\ \A v : v # "synchronize" => (Once(sdkLoop, Of(v)) <=> Once(sdkLoop', Of(v)))
  BY <1>1, SdkTakes DEF IInv
<1>orders. \A c : /\ Has(sdkLoop, Orders(c)) <=> Has(sdkLoop', Orders(c))
                  /\ Once(sdkLoop, Orders(c)) <=> Once(sdkLoop', Orders(c))
  BY <1>1, SdkKeepsOrders DEF IInv
<1>4. uiLoop \in Seq(Closures)
  BY DEF IInv, TypeOK
<1>5. SetCoreStarted(on) \in Closures /\ \A v : SetCoreStarted(on) \in Of(v) <=> v = "setCoreStarted"
  BY <1>2, Closing
<1>6. /\ uiLoop' \in Seq(Closures)
      /\ \A v : v # "setCoreStarted" => (Has(uiLoop', Of(v)) <=> Has(uiLoop, Of(v)))
      /\ \A v : v # "setCoreStarted" => (Once(uiLoop', Of(v)) <=> Once(uiLoop, Of(v)))
  BY <1>1, <1>4, <1>5, HasAppended
<1>7. \A shown : Tells(uiLoop', shown, on)
  BY <1>1, <1>2, <1>4, <1>5, TellsAppended
<1>8. TypeOK'
  BY <1>1, <1>3, <1>6 DEF IInv, TypeOK
<1>9. Synchronized'
  BY <1>2, <1>7 DEF Synchronized
<1>10. CoreInv'
  BY <1>1, <1>3, <1>6, <1>9 DEF IInv, CoreInv, StartsOnce, Launching, CoreReturns, RestartEnds,
     ListsFollow, OneRestart, OnlyOverlapsAbandon, Replaced
<1>11. ArgumentsKnown' /\ ArgumentsFirst'
  BY <1>1, ArgumentsStay
<1>12. OnePlace'
  BY <1>1, <1>orders, PlacesStay
<1> QED
  BY <1>8, <1>10, <1>11, <1>12 DEF IInv
LEMMA UiGets ==
  ASSUME TypeOK, NEW c \in Closures, NEW w, c.do = w, w # "setCoreStarted", uiLoop' = Append(uiLoop, c)
  PROVE  /\ uiLoop' \in Seq(Closures)
         /\ \A v : v # w => (Has(uiLoop', Of(v)) <=> Has(uiLoop, Of(v)))
         /\ \A v : v # w => (Once(uiLoop', Of(v)) <=> Once(uiLoop, Of(v)))
         /\ \A shown, last : Tells(uiLoop, shown, last) => Tells(uiLoop', shown, last)
<1>1. uiLoop \in Seq(Closures) /\ \A v : c \in Of(v) <=> v = w
  BY Heads DEF TypeOK
<1>2. c \notin Words
  BY <1>1 DEF Words
<1> QED
  BY <1>1, <1>2, HasAppended, TellsAppended

LEMMA SetFetchConfigStep ==
  ASSUME IInv, SetFetchConfig PROVE IInv'
<1>1. /\ SdkRuns("setFetchConfig")
      /\ \/ uiLoop' = Append(uiLoop, Do("restartCore")) /\ UNCHANGED fruitless
         \/ fruitless' = fruitless + 1 /\ UNCHANGED uiLoop
      /\ UNCHANGED <<main, initCore, coreStarted, lists, awaiting, window, applies>>
      /\ UNCHANGED <<core, queue, deferred, fetches, restarting>>
      /\ UNCHANGED <<received, taken, performed, overlapped, abandoned>>
  BY DEF SetFetchConfig, ui, sdk
<1>2. /\ sdkLoop' \in Seq(Closures)
      /\ \A v : v # "setFetchConfig" => (Has(sdkLoop, Of(v)) <=> Has(sdkLoop', Of(v)))
      /\ \A v : v # "setFetchConfig" => (Once(sdkLoop, Of(v)) <=> Once(sdkLoop', Of(v)))
  BY <1>1, SdkTakes DEF IInv
<1>orders. \A c : /\ Has(sdkLoop, Orders(c)) <=> Has(sdkLoop', Orders(c))
                  /\ Once(sdkLoop, Orders(c)) <=> Once(sdkLoop', Orders(c))
  BY <1>1, SdkKeepsOrders DEF IInv
<1>3. Do("restartCore") \in Closures /\ Do("restartCore").do = "restartCore"
  BY Dos DEF Plain
<1>4. /\ uiLoop' \in Seq(Closures)
      /\ \A v : v # "restartCore" => (Has(uiLoop', Of(v)) <=> Has(uiLoop, Of(v)))
      /\ \A v : v # "restartCore" => (Once(uiLoop', Of(v)) <=> Once(uiLoop, Of(v)))
      /\ \A shown, last : Tells(uiLoop, shown, last) => Tells(uiLoop', shown, last)
  <2>1. CASE uiLoop' = Append(uiLoop, Do("restartCore"))
    BY <1>3, <2>1, UiGets DEF IInv
  <2>2. CASE UNCHANGED uiLoop
    BY <2>2 DEF IInv, TypeOK
  <2> QED
    BY <1>1, <2>1, <2>2
<1>5. TypeOK'
  <2>1. fruitless' \in Nat
    BY <1>1 DEF IInv, TypeOK
  <2> QED
    BY <1>1, <1>2, <1>4, <2>1 DEF IInv, TypeOK
<1>6. Synchronized'
  BY <1>1, <1>2, <1>4 DEF IInv, CoreInv, Synchronized, Replaced
<1>7. CoreInv'
  BY <1>1, <1>2, <1>4, <1>6 DEF IInv, CoreInv, StartsOnce, Launching, CoreReturns, RestartEnds,
     ListsFollow, OneRestart, OnlyOverlapsAbandon, Replaced
<1>8. ArgumentsKnown' /\ ArgumentsFirst'
  BY <1>1, ArgumentsStay
<1>9. OnePlace'
  BY <1>1, <1>orders, PlacesStay
<1> QED
  BY <1>5, <1>7, <1>8, <1>9 DEF IInv

(* What running a process changes.                                         *)
LEMMA RunEffects ==
  ASSUME TypeOK, NEW first \in Process, Run(first)
  PROVE  /\ \/ UNCHANGED <<deferred, performed>>
            \/ /\ first = Main(first.cmd) /\ UNCHANGED deferred
               /\ performed' = Append(performed, [cmd |-> first.cmd, as |-> MainOf[first.cmd]])
            \/ /\ first = Main(first.cmd) /\ UNCHANGED performed
               /\ deferred' = Append(deferred, [cmd |-> first.cmd, as |-> Postponed(MainOf[first.cmd])])
         /\ deferred' \in Seq([cmd : Commands, as : Kinds]) /\ fetches' \in Seq(Commands)
         /\ performed' \in Seq([cmd : Commands, as : Kinds]) /\ fruitless' \in Nat
         /\ uiLoop' \in Seq(Closures)
         /\ \A v : v # "requestFetchConfig" => (Has(uiLoop', Of(v)) <=> Has(uiLoop, Of(v)))
         /\ \A v : v # "requestFetchConfig" => (Once(uiLoop', Of(v)) <=> Once(uiLoop, Of(v)))
         /\ \A shown, last : Tells(uiLoop, shown, last) => Tells(uiLoop', shown, last)
<1> DEFINE c == first.cmd
           fetch == ForCommand("requestFetchConfig", c)
           deed == [cmd |-> c, as |-> MainOf[c]]
           slot == [cmd |-> c, as |-> Postponed(MainOf[c])]
<1>1. /\ c \in Commands /\ MainOf[c] \in Kinds
      /\ first.role = "command" => first = Main(c)
  BY CommandsAssumption DEF Process, Main
<1>2. fetch \in Closures /\ fetch.do = "requestFetchConfig"
  BY <1>1, Dos DEF Bearing
<1>3. deed \in [cmd : Commands, as : Kinds]
  BY <1>1
<1>4. MainOf[c] \notin Idle => slot \in [cmd : Commands, as : Kinds]
  BY <1>1 DEF Kinds, Postponed
<1>5. \/ /\ UNCHANGED <<deferred, performed>>
         /\ UNCHANGED fetches \/ fetches' = Append(fetches, c)
         /\ UNCHANGED fruitless \/ fruitless' = fruitless + 1
         /\ UNCHANGED uiLoop \/ uiLoop' = Append(uiLoop, fetch)
      \/ /\ first.role = "command" /\ performed' = Append(performed, deed)
         /\ UNCHANGED <<uiLoop, deferred, fetches, fruitless>>
      \/ /\ first.role = "command" /\ deferred' = Append(deferred, slot)
         /\ MainOf[c] \notin Idle
         /\ UNCHANGED <<fetches, uiLoop, performed, fruitless>>
  BY DEF Run, Postpone
<1> HIDE DEF fetch, deed, slot, c
<1>6. /\ deferred' \in Seq([cmd : Commands, as : Kinds]) /\ fetches' \in Seq(Commands)
      /\ performed' \in Seq([cmd : Commands, as : Kinds]) /\ fruitless' \in Nat
  <2> DEFINE Slot == [cmd : Commands, as : Kinds]
             Deed == Slot
  <2>1. /\ deferred \in Seq(Slot) /\ fetches \in Seq(Commands)
        /\ performed \in Seq(Deed) /\ fruitless \in Nat
    BY DEF TypeOK
  <2>2. deed \in Deed /\ (MainOf[c] \notin Idle => slot \in Slot)
    BY <1>3, <1>4
  <2> HIDE DEF Slot, Deed
  <2>3. fetches' \in Seq(Commands)
    <3>1. Append(fetches, c) \in Seq(Commands)
      BY <1>1, <2>1, AppendProperties
    <3> QED
      BY <1>5, <2>1, <3>1
  <2>4. performed' \in Seq(Deed)
    <3>1. Append(performed, deed) \in Seq(Deed)
      BY <2>1, <2>2, AppendProperties
    <3> QED
      BY <1>5, <2>1, <3>1
  <2>5. deferred' \in Seq(Slot)
    <3>1. MainOf[c] \notin Idle => Append(deferred, slot) \in Seq(Slot)
      BY <2>1, <2>2, AppendProperties
    <3> QED
      BY <1>5, <2>1, <3>1
  <2>6. fruitless' \in Nat
    BY <1>5, <2>1
  <2> QED
    BY <2>3, <2>4, <2>5, <2>6 DEF Slot, Deed
<1>7. /\ uiLoop' \in Seq(Closures)
      /\ \A v : v # "requestFetchConfig" => (Has(uiLoop', Of(v)) <=> Has(uiLoop, Of(v)))
      /\ \A v : v # "requestFetchConfig" => (Once(uiLoop', Of(v)) <=> Once(uiLoop, Of(v)))
      /\ \A shown, last : Tells(uiLoop, shown, last) => Tells(uiLoop', shown, last)
  <2>1. CASE uiLoop' = Append(uiLoop, fetch)
    BY <1>2, <2>1, UiGets
  <2>2. CASE UNCHANGED uiLoop
    BY <2>2 DEF TypeOK
  <2> QED
    BY <1>5, <2>1, <2>2
<1> QED
  BY <1>1, <1>5, <1>6, <1>7 DEF deed, slot, c

(* The argument of a command is taken before it, whatever the others.      *)
LEMMA FirstsInOrder ==
  ASSUME TypeOK, ArgumentsFirst, NEW processes \in SUBSET Process, RunFirst(processes),
         \A p \in processes : p.role = "command" /\ p.cmd \in WithFetch =>
            Argument(p.cmd) \in processes \/ \E i \in DOMAIN taken : taken[i] = Argument(p.cmd)
  PROVE  ArgumentsKnown' /\ ArgumentsFirst' /\ queue' \subseteq Process /\ taken' \in Seq(Process)
<1>1. CASE processes = {}
  BY <1>1 DEF RunFirst, ArgumentsKnown, ArgumentsFirst, TypeOK
<1>2. CASE processes # {}
  <2>1. PICK first \in processes : /\ \A other \in processes : Priority(first) >= Priority(other)
                                   /\ queue' = processes \ {first} /\ taken' = Append(taken, first)
    BY <1>2 DEF RunFirst
  <2>2. /\ taken' \in Seq(Process) /\ Len(taken) \in Nat /\ DOMAIN taken = 1 .. Len(taken)
        /\ DOMAIN taken' = 1 .. Len(taken) + 1
        /\ taken'[Len(taken) + 1] = first /\ \A i \in 1 .. Len(taken) : taken'[i] = taken[i]
    BY <2>1, AppendProperties, LenProperties DEF TypeOK
  <2>3. first.role = "command" /\ first.cmd \in WithFetch =>
          \E i \in DOMAIN taken : taken[i] = Argument(first.cmd)
    <3>1. Argument(first.cmd) \in processes => Priority(first) >= Priority(Argument(first.cmd))
      BY <2>1
    <3>2. Priority(Argument(first.cmd)) = 1
      BY DEF Priority, Argument
    <3>3. first.role = "command" => Priority(first) = 0
      BY DEF Priority
    <3> QED
      BY <3>1, <3>2, <3>3
  <2>4. ArgumentsFirst'
    <3> SUFFICES ASSUME NEW i \in 1 .. Len(taken) + 1,
                        taken'[i].role = "command", taken'[i].cmd \in WithFetch
                 PROVE  \E j \in 1 .. (i - 1) : taken'[j] = Argument(taken'[i].cmd)
      BY <2>2 DEF ArgumentsFirst, Argument
    <3>1. CASE i = Len(taken) + 1
      <4>1. taken'[i] = first /\ i - 1 = Len(taken)
        BY <2>2, <3>1
      <4>2. PICK j \in 1 .. Len(taken) : taken[j] = Argument(first.cmd)
        BY <2>2, <2>3, <4>1
      <4> QED
        BY <2>2, <4>1, <4>2
    <3>2. CASE i \in 1 .. Len(taken)
      <4>1. taken'[i] = taken[i]
        BY <2>2, <3>2
      <4>2. PICK j \in 1 .. (i - 1) : taken[j] = Argument(taken[i].cmd)
        BY <2>2, <3>2, <4>1 DEF ArgumentsFirst, Argument
      <4>3. j \in 1 .. Len(taken)
        BY <2>2, <3>2
      <4> QED
        BY <2>2, <4>1, <4>2, <4>3
    <3> QED
      BY <2>2, <3>1, <3>2
  <2>5. ArgumentsKnown'
    <3> SUFFICES ASSUME NEW p \in queue', p.role = "command", p.cmd \in WithFetch
                 PROVE  Argument(p.cmd) \in queue' \/ \E i \in DOMAIN taken' : taken'[i] = Argument(p.cmd)
      BY DEF ArgumentsKnown, Argument
    <3>1. CASE Argument(p.cmd) = first
      <4>1. Len(taken) + 1 \in DOMAIN taken' /\ taken'[Len(taken) + 1] = Argument(p.cmd)
        BY <2>2, <3>1
      <4> QED
        BY <4>1
    <3>2. CASE Argument(p.cmd) \in processes /\ Argument(p.cmd) # first
      BY <2>1, <3>2
    <3>3. CASE \E i \in DOMAIN taken : taken[i] = Argument(p.cmd)
      <4>1. PICK i \in 1 .. Len(taken) : taken[i] = Argument(p.cmd)
        BY <2>2, <3>3
      <4>2. i \in DOMAIN taken' /\ taken'[i] = Argument(p.cmd)
        BY <2>2, <4>1
      <4> QED
        BY <4>2
    <3> QED
      BY <2>1, <3>1, <3>2, <3>3
  <2> QED
    BY <2>1, <2>2, <2>4, <2>5
<1> QED
  BY <1>1, <1>2
(* One process leaves the queue for at most one place.                     *)
LEMMA FirstsPlace ==
  ASSUME TypeOK, NEW processes \in SUBSET Process, RunFirst(processes), UNCHANGED received,
         NEW c \in Commands, Once(sdkLoop', Orders(c)), Once(deferred, Slots(c)), Once(performed, Slots(c)),
         Has(sdkLoop', Orders(c)) => c \in received /\ Main(c) \notin processes
                                     /\ ~Has(deferred, Slots(c)) /\ ~Has(performed, Slots(c)),
         Main(c) \in processes => c \in received /\ ~Has(deferred, Slots(c)) /\ ~Has(performed, Slots(c)),
         Has(deferred, Slots(c)) => c \in received /\ ~Has(performed, Slots(c)),
         Has(performed, Slots(c)) => c \in received
  PROVE  InPlace(c)'
<1>1. CASE UNCHANGED <<deferred, performed>> /\ queue' \subseteq processes
  BY <1>1 DEF InPlace
<1>2. ASSUME NEW first \in processes, first = Main(first.cmd), queue' = processes \ {first},
             NEW as \in Kinds, NEW entry, entry = [cmd |-> first.cmd, as |-> as],
             \/ UNCHANGED deferred /\ performed' = Append(performed, entry)
             \/ UNCHANGED performed /\ deferred' = Append(deferred, entry)
      PROVE  InPlace(c)'
  <2>1. entry \in [cmd : Commands, as : Kinds] /\ (entry \in Slots(c) <=> first.cmd = c)
    BY <1>2 DEF Process, Slots
  <2>2. first.cmd = c => first = Main(c) /\ Main(c) \in processes /\ Main(c) \notin queue'
    BY <1>2
  <2>3. queue' \subseteq processes
    BY <1>2
  <2>4. /\ \A C : Has(Append(performed, entry), C) <=> Has(performed, C) \/ entry \in C
        /\ \A C : Once(Append(performed, entry), C)
                  <=> Once(performed, C) /\ ~(Has(performed, C) /\ entry \in C)
        /\ \A C : Has(Append(deferred, entry), C) <=> Has(deferred, C) \/ entry \in C
        /\ \A C : Once(Append(deferred, entry), C)
                  <=> Once(deferred, C) /\ ~(Has(deferred, C) /\ entry \in C)
    <3> DEFINE S == [cmd : Commands, as : Kinds]
    <3>1. entry \in S /\ performed \in Seq(S) /\ deferred \in Seq(S)
      BY <2>1, Deferrals
    <3> HIDE DEF S
    <3> QED
      BY <3>1, HasAppended
  <2>5. CASE UNCHANGED deferred /\ performed' = Append(performed, entry)
    BY <2>1, <2>2, <2>3, <2>4, <2>5 DEF InPlace
  <2>6. CASE UNCHANGED performed /\ deferred' = Append(deferred, entry)
    BY <2>1, <2>2, <2>3, <2>4, <2>6 DEF InPlace
  <2> QED
    BY <1>2, <2>5, <2>6
<1>3. CASE processes = {}
  BY <1>1, <1>3 DEF RunFirst
<1>4. CASE processes # {}
  <2>1. PICK first \in processes : queue' = processes \ {first} /\ Run(first)
    BY <1>4 DEF RunFirst
  <2>2. /\ first \in Process /\ first.cmd \in Commands /\ MainOf[first.cmd] \in Kinds
        /\ Postponed(MainOf[first.cmd]) \in Kinds
    BY CommandsAssumption DEF Process, Postponed, Kinds
  <2>3. \/ UNCHANGED <<deferred, performed>>
        \/ /\ first = Main(first.cmd) /\ UNCHANGED deferred
           /\ performed' = Append(performed, [cmd |-> first.cmd, as |-> MainOf[first.cmd]])
        \/ /\ first = Main(first.cmd) /\ UNCHANGED performed
           /\ deferred' = Append(deferred, [cmd |-> first.cmd, as |-> Postponed(MainOf[first.cmd])])
    BY <2>1, <2>2, RunEffects
  <2>4. CASE UNCHANGED <<deferred, performed>>
    BY <1>1, <2>1, <2>4
  <2>5. CASE /\ first = Main(first.cmd) /\ UNCHANGED deferred
             /\ performed' = Append(performed, [cmd |-> first.cmd, as |-> MainOf[first.cmd]])
    BY <1>2, <2>1, <2>2, <2>5
  <2>6. CASE /\ first = Main(first.cmd) /\ UNCHANGED performed
             /\ deferred' = Append(deferred, [cmd |-> first.cmd, as |-> Postponed(MainOf[first.cmd])])
    BY <1>2, <2>1, <2>2, <2>6
  <2> QED
    BY <2>3, <2>4, <2>5, <2>6
<1> QED
  BY <1>3, <1>4

(* What CliModel does is no state of the core.                             *)
LEMMA CliStep ==
  ASSUME IInv, NEW what, what \in {"executeCommand", "runProcess"}, SdkRuns(what),
         NEW processes \in SUBSET Process, RunFirst(processes),
         UNCHANGED <<ui, core, restarting, received, overlapped, abandoned>>,
         ArgumentsKnown', ArgumentsFirst', queue' \subseteq Process, taken' \in Seq(Process), OnePlace'
  PROVE  IInv'
<1>1. /\ deferred' \in Seq([cmd : Commands, as : Kinds]) /\ fetches' \in Seq(Commands)
      /\ performed' \in Seq([cmd : Commands, as : Kinds]) /\ fruitless' \in Nat
      /\ uiLoop' \in Seq(Closures)
      /\ \A v : v # "requestFetchConfig" => (Has(uiLoop', Of(v)) <=> Has(uiLoop, Of(v)))
      /\ \A v : v # "requestFetchConfig" => (Once(uiLoop', Of(v)) <=> Once(uiLoop, Of(v)))
      /\ \A shown, last : Tells(uiLoop, shown, last) => Tells(uiLoop', shown, last)
  <2>1. CASE processes = {}
    BY <2>1 DEF RunFirst, IInv, TypeOK
  <2>2. CASE processes # {}
    <3>1. PICK first \in processes : Run(first)
      BY <2>2 DEF RunFirst
    <3> QED
      BY <3>1, RunEffects DEF IInv
  <2> QED
    BY <2>1, <2>2
<1>2. /\ UNCHANGED <<main, initCore, coreStarted, lists, awaiting, window, applies>>
      /\ UNCHANGED <<core, restarting, received, overlapped, abandoned>>
  BY DEF ui
<1>3. /\ sdkLoop' \in Seq(Closures)
      /\ \A v : v # what => (Has(sdkLoop, Of(v)) <=> Has(sdkLoop', Of(v)))
      /\ \A v : v # what => (Once(sdkLoop, Of(v)) <=> Once(sdkLoop', Of(v)))
  BY SdkTakes DEF IInv
<1>4. TypeOK'
  BY <1>1, <1>2, <1>3 DEF IInv, TypeOK
<1>5. Synchronized'
  BY <1>1, <1>2, <1>3 DEF IInv, CoreInv, Synchronized, Replaced
<1>6. CoreInv'
  BY <1>1, <1>2, <1>3, <1>5 DEF IInv, CoreInv, StartsOnce, Launching, CoreReturns, RestartEnds,
     ListsFollow, OneRestart, OnlyOverlapsAbandon, Replaced
<1> QED
  BY <1>4, <1>6 DEF IInv

LEMMA ExecuteCommandStep ==
  ASSUME IInv, ExecuteCommand PROVE IInv'
<1> DEFINE c == Head(sdkLoop).cmd
           processes == queue \cup Processes(c)
<1>1. /\ SdkRuns("executeCommand") /\ RunFirst(processes)
      /\ UNCHANGED <<ui, core, restarting, received, overlapped, abandoned>>
  BY DEF ExecuteCommand
<1>2. /\ sdkLoop \in Seq(Closures) /\ sdkLoop # <<>> /\ sdkLoop' = Tail(sdkLoop)
      /\ Head(sdkLoop).do = "executeCommand"
  BY <1>1 DEF SdkRuns, IInv, TypeOK
<1>3. /\ Head(sdkLoop) \in Closures
      /\ \A C : Has(sdkLoop, C) <=> Head(sdkLoop) \in C \/ Has(sdkLoop', C)
      /\ \A C : Once(sdkLoop, C) <=> Once(sdkLoop', C) /\ ~(Has(sdkLoop', C) /\ Head(sdkLoop) \in C)
  BY <1>2, HasTail
<1>4. c \in Commands /\ \A d : Head(sdkLoop) \in Orders(d) <=> d = c
  BY <1>2, <1>3, Heads DEF Bearing, Orders, Of
<1> HIDE DEF c
<1>5. /\ processes \in SUBSET Process
      /\ \A d : Main(d) \in processes <=> Main(d) \in queue \/ d = c
      /\ \A p \in processes : p.role = "command" /\ p.cmd \in WithFetch =>
           Argument(p.cmd) \in processes \/ \E i \in DOMAIN taken : taken[i] = Argument(p.cmd)
  <2>1. processes \in SUBSET Process
    BY <1>4 DEF Processes, Process, IInv, TypeOK
  <2>2. \A d : Main(d) \in processes <=> Main(d) \in queue \/ d = c
    <3>1. \A d : Main(d) \in Processes(c) <=> d = c
      BY DEF Processes, Main
    <3> QED
      BY <3>1
  <2>3. ASSUME NEW p \in processes, p.role = "command", p.cmd \in WithFetch
        PROVE  Argument(p.cmd) \in processes \/ \E i \in DOMAIN taken : taken[i] = Argument(p.cmd)
    <3>1. CASE p \in queue
      BY <2>3, <3>1 DEF IInv, ArgumentsKnown
    <3>2. CASE p \in Processes(c)
      BY <2>3, <3>2 DEF Processes, Argument
    <3> QED
      BY <2>3, <3>1, <3>2
  <2> QED
    BY <2>1, <2>2, <2>3
<1> HIDE DEF processes
<1>6. ArgumentsKnown' /\ ArgumentsFirst' /\ queue' \subseteq Process /\ taken' \in Seq(Process)
  BY <1>1, <1>5, FirstsInOrder DEF IInv
<1>7. OnePlace'
  <2> SUFFICES ASSUME NEW d \in Commands PROVE InPlace(d)'
    BY DEF OnePlace
  <2>1. InPlace(d) /\ UNCHANGED received
    BY <1>1 DEF IInv, OnePlace
  <2>2. /\ Has(sdkLoop, Orders(d)) <=> d = c \/ Has(sdkLoop', Orders(d))
        /\ Once(sdkLoop, Orders(d)) <=> Once(sdkLoop', Orders(d)) /\ ~(Has(sdkLoop', Orders(d)) /\ d = c)
    BY <1>3, <1>4
  <2>3. /\ Once(sdkLoop', Orders(d)) /\ Once(deferred, Slots(d)) /\ Once(performed, Slots(d))
        /\ Has(sdkLoop', Orders(d)) => /\ d \in received /\ Main(d) \notin processes
                                       /\ ~Has(deferred, Slots(d)) /\ ~Has(performed, Slots(d))
        /\ Main(d) \in processes =>
             d \in received /\ ~Has(deferred, Slots(d)) /\ ~Has(performed, Slots(d))
        /\ Has(deferred, Slots(d)) => d \in received /\ ~Has(performed, Slots(d))
        /\ Has(performed, Slots(d)) => d \in received
    BY <1>5, <2>1, <2>2 DEF InPlace
  <2> QED
    BY <1>1, <1>5, <2>1, <2>3, FirstsPlace DEF IInv
<1> QED
  BY <1>1, <1>5, <1>6, <1>7, CliStep

LEMMA RunProcessStep ==
  ASSUME IInv, RunProcess PROVE IInv'
<1>1. /\ SdkRuns("runProcess") /\ RunFirst(queue) /\ queue \in SUBSET Process
      /\ UNCHANGED <<ui, core, restarting, received, overlapped, abandoned>>
  BY DEF RunProcess, IInv, TypeOK
<1>2. \A c : /\ Has(sdkLoop, Orders(c)) <=> Has(sdkLoop', Orders(c))
             /\ Once(sdkLoop, Orders(c)) <=> Once(sdkLoop', Orders(c))
  BY <1>1, SdkKeepsOrders DEF IInv
<1>3. ArgumentsKnown' /\ ArgumentsFirst' /\ queue' \subseteq Process /\ taken' \in Seq(Process)
  BY <1>1, FirstsInOrder DEF IInv, ArgumentsKnown
<1>4. OnePlace'
  <2> SUFFICES ASSUME NEW d \in Commands PROVE InPlace(d)'
    BY DEF OnePlace
  <2>1. InPlace(d) /\ UNCHANGED received
    BY <1>1 DEF IInv, OnePlace
  <2>2. /\ Once(sdkLoop', Orders(d)) /\ Once(deferred, Slots(d)) /\ Once(performed, Slots(d))
        /\ Has(sdkLoop', Orders(d)) => /\ d \in received /\ Main(d) \notin queue
                                       /\ ~Has(deferred, Slots(d)) /\ ~Has(performed, Slots(d))
        /\ Main(d) \in queue =>
             d \in received /\ ~Has(deferred, Slots(d)) /\ ~Has(performed, Slots(d))
        /\ Has(deferred, Slots(d)) => d \in received /\ ~Has(performed, Slots(d))
        /\ Has(performed, Slots(d)) => d \in received
    BY <1>2, <2>1 DEF InPlace
  <2> QED
    BY <1>1, <2>1, <2>2, FirstsPlace DEF IInv
<1> QED
  BY <1>1, <1>3, <1>4, CliStep
LEMMA StutterStep ==
  ASSUME IInv, UNCHANGED vars PROVE IInv'
<1>1. /\ UNCHANGED <<main, initCore, coreStarted, lists, awaiting, window, applies, uiLoop>>
      /\ UNCHANGED <<core, queue, deferred, fetches, sdkLoop, restarting>>
      /\ UNCHANGED <<received, taken, performed, fruitless, overlapped, abandoned>>
  BY DEF vars, ui, sdk, history
<1>2. TypeOK'
  BY <1>1 DEF IInv, TypeOK
<1>3. CoreInv'
  BY <1>1 DEF IInv, CoreInv, StartsOnce, Launching, CoreReturns, RestartEnds, Synchronized,
     ListsFollow, OneRestart, OnlyOverlapsAbandon, Replaced
<1>4. ArgumentsKnown' /\ ArgumentsFirst'
  BY <1>1, ArgumentsStay
<1>5. OnePlace'
  BY <1>1, PlacesStay
<1> QED
  BY <1>2, <1>3, <1>4, <1>5 DEF IInv

LEMMA NextInv == IInv /\ [Next]_vars => IInv'
<1> SUFFICES ASSUME IInv, [Next]_vars PROVE IInv'
  OBVIOUS
<1>1. CASE UiThread
  BY <1>1, LaunchStep, ConnectModelsStep, SendCommandStep, SetCoreStartedStep, CreateUiStep,
     SetMainWindowStep, RequestFetchConfigStep, RestartCoreStep, CoreStoppedStep DEF UiThread
<1>2. CASE SdkThread
  BY <1>2, StartStep, StopStep, SynchronizeStep, SetFetchConfigStep, ExecuteCommandStep,
     RunProcessStep DEF SdkThread
<1>3. CASE Configured
  BY <1>3, ConfiguredStep
<1>4. CASE \E c \in Commands : ReceivedMessage(c)
  BY <1>4, ReceivedMessageStep
<1>5. CASE UNCHANGED vars
  BY <1>5, StutterStep
<1> QED
  BY <1>1, <1>2, <1>3, <1>4, <1>5 DEF Next

(* The strengthened invariant: no restart, no state change and no command  *)
(* is lost between the two event loops.                                    *)
THEOREM Invariance == Spec => []IInv
<1>1. Init => IInv
  BY InitInv
<1>2. IInv /\ [Next]_vars => IInv'
  BY NextInv
<1> QED
  BY <1>1, <1>2, PTL DEF Spec

(* Both threads keep the types of what they share, and post closures only. *)
THEOREM TypeCorrect == Spec => []TypeOK
<1>1. IInv => TypeOK
  BY DEF IInv
<1> QED
  BY <1>1, Invariance, PTL

(* When both loops are empty the window shows the core that is on, however *)
(* state changes, restarts and the creation of the window crossed.         *)
THEOREM WindowFollows == Spec => []UiFollowsCore
<1>1. IInv => UiFollowsCore
  <2> SUFFICES ASSUME IInv, Settled
               PROVE  core = "On" /\ coreStarted /\ lists = "filled" /\ ~restarting /\ ~awaiting
    BY DEF UiFollowsCore
  <2>1. /\ main = "loop" /\ initCore = "idle" /\ uiLoop = <<>> /\ sdkLoop = <<>>
        /\ core # "Configuring"
    BY DEF Settled
  <2>2. \A C : ~Has(uiLoop, C) /\ ~Has(sdkLoop, C)
    BY <2>1, HasNothing
  <2>3. ~Replaced
    BY <2>1, <2>2 DEF Replaced
  <2>4. core = "On"
    BY <2>1, <2>3 DEF IInv, TypeOK, CoreInv, Launching, CoreReturns
  <2>5. Tells(uiLoop, coreStarted, core = "On")
    BY <2>1, <2>2, <2>3 DEF IInv, CoreInv, Synchronized
  <2>6. coreStarted
    <3>1. DOMAIN uiLoop = {}
      BY <2>1
    <3> QED
      BY <2>4, <2>5, <3>1 DEF Tells
  <2>7. lists = "filled" /\ ~awaiting
    BY <2>2, <2>3, <2>4, <2>6 DEF IInv, CoreInv, ListsFollow
  <2>8. ~restarting
    BY <2>1, <2>2, <2>3 DEF IInv, CoreInv, RestartEnds
  <2> QED
    BY <2>4, <2>6, <2>7, <2>8
<1> QED
  BY <1>1, Invariance, PTL

(* CoreModel::start() only drops a running core when restarts overlapped.  *)
THEOREM AbandonedByOverlap == Spec => []OnlyOverlapsAbandon
<1>1. IInv => OnlyOverlapsAbandon
  BY DEF IInv, CoreInv
<1> QED
  BY <1>1, Invariance, PTL

(* The fetch-config of a command is taken from mQueue before the command,  *)
(* however other commands and restarts come between.                       *)
THEOREM ArgumentsComeFirst == Spec => []ArgumentsFirst
<1>1. IInv => ArgumentsFirst
  BY DEF IInv
<1> QED
  BY <1>1, Invariance, PTL

(* A command is performed at most once, run at once or by the slot that    *)
(* waited for the core.                                                    *)
THEOREM NeverTwice == Spec => []PerformedOnce
<1>1. IInv => PerformedOnce
  <2> SUFFICES ASSUME IInv, NEW i \in DOMAIN performed, NEW j \in DOMAIN performed,
                      performed[i].cmd = performed[j].cmd
               PROVE  i = j
    BY DEF PerformedOnce
  <2> DEFINE c == performed[i].cmd
  <2>1. /\ performed[i] \in [cmd : Commands, as : Kinds]
        /\ performed[j] \in [cmd : Commands, as : Kinds]
    BY ElementOfSeq, LenProperties DEF IInv, TypeOK
  <2>2. c \in Commands /\ performed[i] \in Slots(c) /\ performed[j] \in Slots(c)
    BY <2>1 DEF Slots
  <2>3. Once(performed, Slots(c))
    BY <2>2 DEF IInv, OnePlace, InPlace
  <2> QED
    BY <2>2, <2>3 DEF Once
<1> QED
  BY <1>1, Invariance, PTL
-----------------------------------------------------------------------------
(***************************************************************************)
(* LeftoversExplained: a command only waits in the queue for a restart     *)
(* that is coming.                                                         *)
(*                                                                         *)
(* What it rests on is a count.  A process stays in the queue when the     *)
(* argument of a command was taken in its place; from then on the fetch,   *)
(* then the restart it asks for, is on its way at one of the places that   *)
(* Ways adds up, until it comes to nothing or runs a process of the queue. *)
(***************************************************************************)
Count(s, C) == Cardinality({i \in DOMAIN s : s[i] \in C})

\* Closures that fetch a configuration or go on with a restart.
UiKinds == {"requestFetchConfig", "restartCore", "coreStopped"}
SdkKinds == {"setFetchConfig", "stop", "runProcess"}
UiWays == {x \in Closures : x.do \in UiKinds}
SdkWays == {x \in Closures : x.do \in SdkKinds}

Blocked == IF main = "loop" /\ initCore # "idle" THEN 1 ELSE 0
Ways == Len(fetches) + Len(applies) + Count(uiLoop, UiWays) + Count(sdkLoop, SdkWays) + Blocked

FetchesAccounted == Cardinality(queue) <= fruitless + Ways

-----------------------------------------------------------------------------
(* What a loop holds of a kind is counted: nothing, one closure ...        *)
LEMMA Counted ==
  ASSUME NEW S, NEW s \in Seq(S), NEW C
  PROVE  IsFiniteSet({i \in DOMAIN s : s[i] \in C}) /\ Count(s, C) \in Nat
<1>1. Len(s) \in Nat /\ DOMAIN s = 1 .. Len(s)
  BY LenProperties
<1>2. IsFiniteSet(1 .. Len(s))
  BY <1>1, FS_Interval
<1>3. IsFiniteSet({i \in DOMAIN s : s[i] \in C})
  BY <1>1, <1>2, FS_Subset
<1> QED
  BY <1>3, FS_CardinalityType DEF Count

LEMMA CountOne ==
  /\ \A C : Count(<<>>, C) = 0
  /\ \A c, C : Count(<<c>>, C) = IF c \in C THEN 1 ELSE 0
<1>1. ASSUME NEW C PROVE Count(<<>>, C) = 0
  <2>1. {i \in DOMAIN <<>> : <<>>[i] \in C} = {}
    OBVIOUS
  <2> QED
    BY <2>1, FS_EmptySet DEF Count
<1>2. ASSUME NEW c, NEW C PROVE Count(<<c>>, C) = IF c \in C THEN 1 ELSE 0
  <2>1. DOMAIN <<c>> = {1} /\ <<c>>[1] = c
    OBVIOUS
  <2>2. {i \in DOMAIN <<c>> : <<c>>[i] \in C} = IF c \in C THEN {1} ELSE {}
    BY <2>1
  <2> QED
    BY <2>2, FS_EmptySet, FS_Singleton DEF Count
<1> QED
  BY <1>1, <1>2

(* ... and a loop that gets longer at the end.                             *)
LEMMA CountLonger ==
  ASSUME NEW S, NEW s \in Seq(S), NEW p \in Seq(S), NEW C
  PROVE  Count(s \o p, C) = Count(s, C) + Count(p, C)
<1> DEFINE A == {i \in DOMAIN s : s[i] \in C}
           B == {i \in DOMAIN p : p[i] \in C}
           All == {i \in DOMAIN (s \o p) : (s \o p)[i] \in C}
           Late == {i \in All : i \notin DOMAIN s}
           f == [i \in B |-> Len(s) + i]
<1>1. /\ s \o p \in Seq(S) /\ Len(s) \in Nat /\ Len(p) \in Nat
      /\ DOMAIN s = 1 .. Len(s) /\ DOMAIN p = 1 .. Len(p)
  BY Longer
<1>2. IsFiniteSet(A) /\ IsFiniteSet(B) /\ IsFiniteSet(All) /\ IsFiniteSet(Late)
  <2>1. IsFiniteSet(A) /\ IsFiniteSet(B) /\ IsFiniteSet(All)
    BY <1>1, Counted
  <2> QED
    BY <2>1, FS_Subset
<1>3. ExistsBijection(B, Late)
  <2>1. ASSUME NEW i \in B PROVE f[i] \in Late
    <3>1. i \in DOMAIN p /\ p[i] \in C /\ i \in Nat \ {0}
      BY <1>1
    <3>2. Len(s) + i \in DOMAIN (s \o p) /\ (s \o p)[Len(s) + i] = p[i]
      BY <3>1, Longer
    <3>3. Len(s) + i \notin DOMAIN s
      BY <1>1, <3>1
    <3> QED
      BY <3>1, <3>2, <3>3
  <2>2. \A i, j \in B : f[i] = f[j] => i = j
    BY <1>1
  <2>3. ASSUME NEW k \in Late PROVE \E i \in B : f[i] = k
    <3>1. /\ k - Len(s) \in DOMAIN p /\ Len(s) + (k - Len(s)) = k
      BY Longer
    <3>2. (s \o p)[Len(s) + (k - Len(s))] = p[k - Len(s)]
      BY <3>1, Longer
    <3>3. k - Len(s) \in B
      BY <3>1, <3>2
    <3> QED
      BY <3>1, <3>3
  <2>4. f \in [B -> Late]
    BY <2>1
  <2>5. f \in Bijection(B, Late)
    BY <2>2, <2>3, <2>4 DEF Bijection, Injection, Surjection, IsInjective
  <2> QED
    BY <2>5 DEF ExistsBijection
<1>4. Cardinality(Late) = Cardinality(B)
  BY <1>2, <1>3, FS_Bijection
<1>5. All = A \cup Late /\ A \cap Late = {}
  <2>1. \A i \in A : i \in All
    BY Longer
  <2>2. \A i \in DOMAIN s : (s \o p)[i] = s[i]
    BY Longer
  <2> QED
    BY <2>1, <2>2
<1>6. Cardinality(All) = Cardinality(A) + Cardinality(Late) - Cardinality({})
  BY <1>2, <1>5, FS_Union
<1>7. Cardinality({}) = 0 /\ Cardinality(A) \in Nat /\ Cardinality(B) \in Nat
  BY <1>2, FS_EmptySet, FS_CardinalityType
<1> HIDE DEF A, B, All, Late, f
<1>8. Cardinality(All) = Cardinality(A) + Cardinality(B)
  BY <1>4, <1>6, <1>7
<1> QED
  BY <1>8 DEF Count, A, B, All

LEMMA CountAppended ==
  ASSUME NEW S, NEW s \in Seq(S), NEW c \in S, NEW C
  PROVE  Count(Append(s, c), C) = Count(s, C) + IF c \in C THEN 1 ELSE 0
<1>1. Append(s, c) = s \o <<c>> /\ <<c>> \in Seq(S)
  BY HasOne, HasAppended
<1>2. Count(s \o <<c>>, C) = Count(s, C) + Count(<<c>>, C)
  BY <1>1, CountLonger
<1> QED
  BY <1>1, <1>2, CountOne

LEMMA CountTail ==
  ASSUME NEW S, NEW s \in Seq(S), s # <<>>, NEW C
  PROVE  Count(s, C) = Count(Tail(s), C) + IF Head(s) \in C THEN 1 ELSE 0
<1>1. s = <<Head(s)>> \o Tail(s) /\ <<Head(s)>> \in Seq(S) /\ Tail(s) \in Seq(S)
  BY HasTail, HasOne
<1>2. Count(<<Head(s)>> \o Tail(s), C) = Count(<<Head(s)>>, C) + Count(Tail(s), C)
  BY <1>1, CountLonger
<1>3. Count(<<Head(s)>>, C) = IF Head(s) \in C THEN 1 ELSE 0
  BY CountOne
<1>4. Count(Tail(s), C) \in Nat
  BY <1>1, Counted
<1>5. Count(s, C) = Count(<<Head(s)>> \o Tail(s), C)
  BY <1>1, Zenon
<1> DEFINE n == IF Head(s) \in C THEN 1 ELSE 0
<1>6. Count(s, C) = n + Count(Tail(s), C) /\ n \in Nat
  BY <1>2, <1>3, <1>5
<1> HIDE DEF n
<1>7. n + Count(Tail(s), C) = Count(Tail(s), C) + n
  BY <1>4, <1>6
<1> QED
  BY <1>6, <1>7 DEF n

(* Commands sent on count one by one.                                      *)
LEMMA CountSentOn ==
  ASSUME NEW w \in {"setFetchConfig", "requestFetchConfig"}, NEW s \in Seq(Commands)
  PROVE  LET posts == [i \in DOMAIN s |-> ForCommand(w, s[i])]
         IN /\ posts \in Seq(Closures)
            /\ w = "setFetchConfig" => Count(posts, SdkWays) = Len(s)
            /\ w = "requestFetchConfig" => Count(posts, UiWays) = Len(s)
<1> DEFINE posts == [i \in DOMAIN s |-> ForCommand(w, s[i])]
<1>1. Len(s) \in Nat /\ DOMAIN s = 1 .. Len(s) /\ \A i \in DOMAIN s : s[i] \in Commands
  BY LenProperties, ElementOfSeq
<1>2. w \in Bearing \ {"executeCommand"}
  BY DEF Bearing
<1>3. posts \in Seq(Closures)
  BY <1>2, SentOn
<1>4. \A i \in DOMAIN s : ForCommand(w, s[i]) \in Closures /\ ForCommand(w, s[i]).do = w
  BY <1>1, <1>2, Dos
<1>5. DOMAIN posts = DOMAIN s /\ \A i \in DOMAIN posts : posts[i] = ForCommand(w, s[i])
  OBVIOUS
<1> HIDE DEF posts
<1>6. ASSUME NEW C, \A i \in DOMAIN s : ForCommand(w, s[i]) \in C PROVE Count(posts, C) = Len(s)
  <2>1. {i \in DOMAIN posts : posts[i] \in C} = 1 .. Len(s)
    BY <1>1, <1>5, <1>6
  <2>2. Cardinality(1 .. Len(s)) = Len(s)
    BY <1>1, FS_Interval
  <2> QED
    BY <2>1, <2>2 DEF Count
<1>7. w = "setFetchConfig" => Count(posts, SdkWays) = Len(s)
  BY <1>4, <1>6 DEF SdkWays, SdkKinds
<1>8. w = "requestFetchConfig" => Count(posts, UiWays) = Len(s)
  BY <1>4, <1>6 DEF UiWays, UiKinds
<1> QED
  BY <1>3, <1>7, <1>8 DEF posts

-----------------------------------------------------------------------------
(* The numbers that Ways adds up.                                          *)
Numbered ==
  /\ Len(fetches) \in Nat /\ Len(applies) \in Nat /\ Blocked \in {0, 1}
  /\ Count(uiLoop, UiWays) \in Nat /\ Count(sdkLoop, SdkWays) \in Nat
  /\ fruitless \in Nat /\ Ways \in Nat
  /\ IsFiniteSet(queue) /\ Cardinality(queue) \in Nat

LEMMA Numbers == TypeOK => Numbered
<1> SUFFICES ASSUME TypeOK PROVE Numbered
  OBVIOUS
<1>1. /\ fetches \in Seq(Commands) /\ applies \in Seq(Commands) /\ fruitless \in Nat
      /\ uiLoop \in Seq(Closures) /\ sdkLoop \in Seq(Closures) /\ queue \subseteq Process
  BY DEF TypeOK
<1>2. /\ Len(fetches) \in Nat /\ Len(applies) \in Nat
      /\ Count(uiLoop, UiWays) \in Nat /\ Count(sdkLoop, SdkWays) \in Nat
  BY <1>1, Counted, LenProperties
<1>3. Blocked \in {0, 1}
  BY DEF Blocked
<1>4. IsFiniteSet(queue)
  <2>1. IsFiniteSet(Commands) /\ IsFiniteSet({"command", "argument"})
    <3>1. {"command", "argument"} = {"command"} \cup {"argument"}
      OBVIOUS
    <3>2. IsFiniteSet({"command"}) /\ IsFiniteSet(Commands)
      BY CommandsAssumption, FS_Singleton
    <3>3. IsFiniteSet({"command"} \cup {"argument"})
      BY <3>2, FS_AddElement
    <3> QED
      BY <3>1, <3>2, <3>3
  <2>2. IsFiniteSet(Commands \X {"command", "argument"})
    BY <2>1, FS_Product
  <2> DEFINE f == [p \in Commands \X {"command", "argument"} |-> [cmd |-> p[1], role |-> p[2]]]
  <2>3. f \in Surjection(Commands \X {"command", "argument"}, Process)
    <3>1. f \in [Commands \X {"command", "argument"} -> Process]
      BY DEF Process
    <3>2. ASSUME NEW x \in Process
          PROVE  \E p \in Commands \X {"command", "argument"} : f[p] = x
      <4>1. x.cmd \in Commands /\ x.role \in {"command", "argument"}
            /\ x = [cmd |-> x.cmd, role |-> x.role]
        BY DEF Process
      <4>2. <<x.cmd, x.role>> \in Commands \X {"command", "argument"}
        BY <4>1
      <4>3. f[<<x.cmd, x.role>>] = x
        BY <4>1, <4>2
      <4> QED
        BY <4>2, <4>3
    <3> QED
      BY <3>1, <3>2 DEF Surjection
  <2>4. IsFiniteSet(Process)
    BY <2>2, <2>3, FS_Surjection
  <2> QED
    BY <1>1, <2>4, FS_Subset
<1> QED
  BY <1>1, <1>2, <1>3, <1>4, FS_CardinalityType DEF Ways, Numbered

LEMMA NumbersNext == TypeOK' => Numbered'
BY Numbers, PTL

LEMMA Adding ==
  ASSUME NEW a \in Nat, NEW b \in Nat, NEW d \in Nat, NEW h \in Nat,
         NEW f \in Nat, NEW u \in Nat, NEW k \in Nat, NEW r \in Nat,
         NEW f1 \in Nat, NEW u1 \in Nat, NEW k1 \in Nat, NEW r1 \in Nat,
         r + (f + u + k) + d <= r1 + (f1 + u1 + k1) + h
  PROVE  r + (f + a + u + k + b) + d <= r1 + (f1 + a + u1 + k1 + b) + h
OBVIOUS

\* The ways that a step of the SDK thread changes.
SdkSum == fruitless + (Len(fetches) + Count(uiLoop, UiWays) + Count(sdkLoop, SdkWays))

LEMMA WaysGrow ==
  ASSUME TypeOK, Blocked' = Blocked, applies' = applies,
         Len(fetches') \in Nat, Count(uiLoop', UiWays) \in Nat,
         Count(sdkLoop', SdkWays) \in Nat, fruitless' \in Nat,
         NEW d \in Nat, NEW h \in Nat, SdkSum + d <= SdkSum' + h
  PROVE  fruitless + Ways + d <= fruitless' + Ways' + h
<1>1. /\ Len(fetches) \in Nat /\ Len(applies) \in Nat /\ fruitless \in Nat
      /\ Count(uiLoop, UiWays) \in Nat /\ Count(sdkLoop, SdkWays) \in Nat /\ Blocked \in {0, 1}
  BY Numbers DEF Numbered
<1>2. Blocked \in Nat
  BY <1>1
<1>3. fruitless + (Len(fetches) + Count(uiLoop, UiWays) + Count(sdkLoop, SdkWays)) + d
      <= fruitless' + (Len(fetches') + Count(uiLoop', UiWays) + Count(sdkLoop', SdkWays)) + h
  BY DEF SdkSum
<1>4. fruitless + (Len(fetches) + Len(applies) + Count(uiLoop, UiWays)
                   + Count(sdkLoop, SdkWays) + Blocked) + d
      <= fruitless' + (Len(fetches') + Len(applies) + Count(uiLoop', UiWays)
                       + Count(sdkLoop', SdkWays) + Blocked) + h
  BY <1>1, <1>2, <1>3, Adding
<1>5. Ways = Len(fetches) + Len(applies) + Count(uiLoop, UiWays) + Count(sdkLoop, SdkWays) + Blocked
  BY DEF Ways
<1>6. Ways' = Len(fetches') + Len(applies) + Count(uiLoop', UiWays)
              + Count(sdkLoop', SdkWays) + Blocked
  BY DEF Ways
<1> QED
  BY <1>4, <1>5, <1>6, Zenon

LEMMA NoLess == ASSUME NEW m \in Nat, NEW n \in Nat, m + 0 <= n + 0 PROVE m <= n
OBVIOUS

LEMMA WaysKept ==
  ASSUME TypeOK, TypeOK', fruitless + Ways + 0 <= fruitless' + Ways' + 0
  PROVE  fruitless + Ways <= fruitless' + Ways'
<1>1. fruitless + Ways \in Nat
  BY Numbers DEF Numbered
<1>2. fruitless' \in Nat
  BY NumbersNext DEF Numbered
<1>3. Ways' \in Nat
  BY NumbersNext DEF Numbered
<1>4. \A x, y \in Nat : x + y \in Nat
  OBVIOUS
<1>5. fruitless' + Ways' \in Nat
  BY <1>2, <1>3, <1>4
<1> QED
  BY <1>1, <1>5, NoLess

(* A step that leaves the queue alone must not lose one.                   *)
LEMMA Balanced ==
  ASSUME TypeOK, TypeOK', FetchesAccounted, queue' = queue,
         fruitless + Ways <= fruitless' + Ways'
  PROVE  FetchesAccounted'
<1> DEFINE k == Cardinality(queue)
           m == fruitless + Ways
           n == fruitless' + Ways'
<1>1. \A x, y \in Nat : x + y \in Nat
  OBVIOUS
<1>2. k \in Nat /\ m \in Nat
  BY <1>1, Numbers DEF Numbered
<1>3. fruitless' \in Nat
  BY NumbersNext DEF Numbered
<1>4. Ways' \in Nat
  BY NumbersNext DEF Numbered
<1>5. n \in Nat
  BY <1>1, <1>3, <1>4
<1>6. k <= m /\ m <= n /\ Cardinality(queue') = k
  BY DEF FetchesAccounted
<1> HIDE DEF k, m, n
<1>7. Cardinality(queue') <= n
  BY <1>2, <1>5, <1>6
<1> QED
  BY <1>7 DEF FetchesAccounted, n

(* What the loops count when a closure is taken or posted.                 *)
UiOne(what) == IF what \in UiKinds THEN 1 ELSE 0
SdkOne(what) == IF what \in SdkKinds THEN 1 ELSE 0

LEMMA CountPosted ==
  ASSUME NEW s \in Seq(Closures), NEW c \in Closures
  PROVE  /\ Append(s, c) \in Seq(Closures) /\ s \o <<c>> = Append(s, c)
         /\ Count(Append(s, c), UiWays) = Count(s, UiWays) + UiOne(c.do)
         /\ Count(Append(s, c), SdkWays) = Count(s, SdkWays) + SdkOne(c.do)
<1>1. /\ Append(s, c) \in Seq(Closures) /\ s \o <<c>> = Append(s, c)
      /\ Count(Append(s, c), UiWays) = Count(s, UiWays) + (IF c \in UiWays THEN 1 ELSE 0)
      /\ Count(Append(s, c), SdkWays) = Count(s, SdkWays) + (IF c \in SdkWays THEN 1 ELSE 0)
  BY HasAppended, CountAppended
<1>2. (c \in UiWays <=> c.do \in UiKinds) /\ (c \in SdkWays <=> c.do \in SdkKinds)
  BY DEF UiWays, SdkWays
<1> QED
  BY <1>1, <1>2 DEF UiOne, SdkOne

LEMMA UiTakesOne ==
  ASSUME TypeOK, uiLoop # <<>>
  PROVE  /\ Tail(uiLoop) \in Seq(Closures) /\ Head(uiLoop) \in Closures
         /\ Count(Tail(uiLoop), UiWays) \in Nat
         /\ Count(uiLoop, UiWays) = Count(Tail(uiLoop), UiWays) + UiOne(Head(uiLoop).do)
<1>1. /\ uiLoop \in Seq(Closures) /\ Tail(uiLoop) \in Seq(Closures) /\ Head(uiLoop) \in Closures
  BY HasTail DEF TypeOK
<1>2. /\ Count(uiLoop, UiWays) = Count(Tail(uiLoop), UiWays)
                                 + (IF Head(uiLoop) \in UiWays THEN 1 ELSE 0)
      /\ Count(Tail(uiLoop), UiWays) \in Nat
  BY <1>1, CountTail, Counted
<1>3. Head(uiLoop) \in UiWays <=> Head(uiLoop).do \in UiKinds
  BY <1>1 DEF UiWays
<1> QED
  BY <1>1, <1>2, <1>3 DEF UiOne

LEMMA SdkTakesOne ==
  ASSUME TypeOK, NEW what, SdkRuns(what)
  PROVE  /\ sdkLoop' \in Seq(Closures) /\ Head(sdkLoop) \in Closures
         /\ Count(sdkLoop', SdkWays) \in Nat
         /\ Count(sdkLoop, SdkWays) = Count(sdkLoop', SdkWays) + SdkOne(what)
<1>1. /\ sdkLoop \in Seq(Closures) /\ sdkLoop' = Tail(sdkLoop) /\ Head(sdkLoop).do = what
      /\ sdkLoop # <<>>
  BY DEF TypeOK, SdkRuns
<1>2. Tail(sdkLoop) \in Seq(Closures) /\ Head(sdkLoop) \in Closures
  BY <1>1, HasTail
<1>3. /\ Count(sdkLoop, SdkWays) = Count(Tail(sdkLoop), SdkWays)
                                   + (IF Head(sdkLoop) \in SdkWays THEN 1 ELSE 0)
      /\ Count(Tail(sdkLoop), SdkWays) \in Nat
  BY <1>1, <1>2, CountTail, Counted
<1>4. Head(sdkLoop) \in SdkWays <=> what \in SdkKinds
  BY <1>1, <1>2 DEF SdkWays
<1> QED
  BY <1>1, <1>2, <1>3, <1>4 DEF SdkOne

-----------------------------------------------------------------------------
(* The UI thread's steps.                                                  *)
Stays == queue' = queue /\ fruitless' = fruitless

LEMMA LaunchWays ==
  ASSUME TypeOK, Launch \/ ConnectModels \/ SendCommand \/ \E c \in Commands : ReceivedMessage(c)
  PROVE  Stays /\ Ways' = Ways
<1>1. sdkLoop \in Seq(Closures)
  BY DEF TypeOK
<1>2. CASE Launch
  <2>1. Do("start") \in Closures /\ Do("start").do = "start"
    BY Dos DEF Plain
  <2>2. Count(sdkLoop', SdkWays) = Count(sdkLoop, SdkWays)
    BY <1>1, <1>2, <2>1, CountPosted, Numbers DEF Numbered, Launch, InitCore, SdkOne, SdkKinds
  <2> QED
    BY <1>2, <2>2 DEF Launch, InitCore, Ways, Blocked, Stays, sdk, history
<1>3. CASE ConnectModels
  <2>1. Do("synchronize") \in Closures /\ Do("synchronize").do = "synchronize"
    BY Dos DEF Plain
  <2>2. Count(sdkLoop', SdkWays) = Count(sdkLoop, SdkWays)
    <3>1. sdkLoop' = sdkLoop \o <<Do("synchronize")>>
      BY <1>3 DEF ConnectModels, Synchronize
    <3>2. Count(sdkLoop', SdkWays) = Count(sdkLoop, SdkWays) + SdkOne("synchronize")
      BY <1>1, <2>1, <3>1, CountPosted
    <3> QED
      BY <3>2, Numbers DEF Numbered, SdkOne, SdkKinds
  <2> QED
    BY <1>3, <2>2 DEF ConnectModels, Ways, Blocked, Stays, sdk, history
<1>4. CASE SendCommand
  <2>1. Do("runProcess") \in Closures /\ Do("runProcess").do = "runProcess"
    BY Dos DEF Plain
  <2>2. Count(sdkLoop', SdkWays) = Count(sdkLoop, SdkWays) + 1
    BY <1>1, <1>4, <2>1, CountPosted DEF SendCommand, WaitingProcess, SdkOne, SdkKinds
  <2>3. Blocked = 1 /\ Blocked' = 0
    BY <1>4 DEF SendCommand, Blocked
  <2> QED
    BY <1>4, <2>2, <2>3, Numbers DEF Numbered, SendCommand, Ways, Stays, sdk, history
<1>5. CASE \E c \in Commands : ReceivedMessage(c)
  <2>1. PICK c \in Commands : ReceivedMessage(c)
    BY <1>5
  <2>2. ForCommand("executeCommand", c) \in Closures
        /\ ForCommand("executeCommand", c).do = "executeCommand"
    BY Dos DEF Bearing
  <2>3. Count(sdkLoop', SdkWays) = Count(sdkLoop, SdkWays)
    BY <1>1, <2>1, <2>2, CountPosted, Numbers DEF Numbered, ReceivedMessage, SdkOne, SdkKinds
  <2> QED
    BY <2>1, <2>3 DEF ReceivedMessage, Ways, Blocked, Stays, sdk, ui
<1> QED
  BY <1>2, <1>3, <1>4, <1>5

LEMMA UiHead ==
  ASSUME TypeOK, NEW what, UiRuns(what)
  PROVE  /\ uiLoop' \in Seq(Closures) /\ Head(uiLoop) \in Closures /\ Head(uiLoop).do = what
         /\ main = "loop" /\ Blocked = 0
         /\ Count(uiLoop', UiWays) \in Nat
         /\ Count(uiLoop, UiWays) = Count(uiLoop', UiWays) + UiOne(what)
BY UiTakesOne DEF UiRuns, Blocked

LEMMA WindowWays ==
  ASSUME TypeOK, RunSetCoreStarted \/ CreateUi \/ SetMainWindow
  PROVE  Stays /\ Ways' = Ways
<1>1. CASE RunSetCoreStarted
  <2>1. Count(uiLoop', UiWays) = Count(uiLoop, UiWays)
    BY <1>1, UiHead DEF RunSetCoreStarted, UiOne, UiKinds
  <2> QED
    BY <1>1, <2>1 DEF RunSetCoreStarted, Ways, Blocked, Stays, sdk, history
<1>2. CASE CreateUi
  <2>1. /\ Tail(uiLoop) \in Seq(Closures) /\ Count(Tail(uiLoop), UiWays) \in Nat
        /\ Count(uiLoop, UiWays) = Count(Tail(uiLoop), UiWays)
    BY <1>2, UiTakesOne DEF CreateUi, UiOne, UiKinds
  <2>2. Do("setMainWindow") \in Closures /\ Do("setMainWindow").do = "setMainWindow"
    BY Dos DEF Plain
  <2>3. Count(Append(Tail(uiLoop), Do("setMainWindow")), UiWays) = Count(Tail(uiLoop), UiWays)
    <3>1. Count(Append(Tail(uiLoop), Do("setMainWindow")), UiWays)
          = Count(Tail(uiLoop), UiWays) + UiOne("setMainWindow")
      BY <2>1, <2>2, CountPosted
    <3> QED
      BY <2>1, <3>1 DEF UiOne, UiKinds
  <2>4. Count(uiLoop', UiWays) = Count(uiLoop, UiWays)
    BY <1>2, <2>1, <2>3 DEF CreateUi
  <2> QED
    BY <1>2, <2>4 DEF CreateUi, Ways, Blocked, Stays, sdk, history
<1>3. CASE SetMainWindow
  <2> DEFINE posts == [i \in DOMAIN applies |-> ForCommand("setFetchConfig", applies[i])]
  <2>1. Count(uiLoop', UiWays) = Count(uiLoop, UiWays)
    BY <1>3, UiHead DEF SetMainWindow, UiOne, UiKinds
  <2>2. posts \in Seq(Closures) /\ Count(posts, SdkWays) = Len(applies) /\ Len(applies) \in Nat
    BY CountSentOn, Numbers DEF TypeOK, Numbered
  <2>3. sdkLoop \in Seq(Closures) /\ sdkLoop' = sdkLoop \o posts /\ applies' = <<>>
    BY <1>3 DEF TypeOK, SetMainWindow
  <2> HIDE DEF posts
  <2>4. Count(sdkLoop', SdkWays) = Count(sdkLoop, SdkWays) + Len(applies)
    BY <2>2, <2>3, CountLonger
  <2>5. Len(applies') = 0
    BY <2>3
  <2>6. Stays /\ Blocked' = Blocked /\ fetches' = fetches
    BY <1>3 DEF SetMainWindow, Stays, Blocked, sdk, history
  <2> QED
    BY <2>1, <2>4, <2>5, <2>6, Numbers DEF Ways, Numbered
<1> QED
  BY <1>1, <1>2, <1>3

LEMMA RequestFetchConfigWays ==
  ASSUME TypeOK, RequestFetchConfig
  PROVE  Stays /\ Ways' = Ways
<1> DEFINE c == Head(uiLoop).cmd
<1>1. /\ UiRuns("requestFetchConfig") /\ fetches' = fetches /\ Blocked' = Blocked /\ Stays
      /\ \/ sdkLoop' = Append(sdkLoop, ForCommand("setFetchConfig", c)) /\ applies' = applies
         \/ applies' = Append(applies, c) /\ sdkLoop' = sdkLoop
  BY DEF RequestFetchConfig, Blocked, Stays, sdk, history
<1>2. Count(uiLoop, UiWays) = Count(uiLoop', UiWays) + 1 /\ Count(uiLoop', UiWays) \in Nat
  BY <1>1, UiHead DEF UiOne, UiKinds
<1>3. c \in Commands
  BY <1>1, UiHead, Heads DEF Bearing
<1> HIDE DEF c
<1>4. CASE sdkLoop' = Append(sdkLoop, ForCommand("setFetchConfig", c)) /\ applies' = applies
  <2>1. /\ ForCommand("setFetchConfig", c) \in Closures
        /\ ForCommand("setFetchConfig", c).do = "setFetchConfig"
    BY <1>3, Dos DEF Bearing
  <2>2. Count(sdkLoop', SdkWays) = Count(sdkLoop, SdkWays) + 1
    BY <1>4, <2>1, CountPosted DEF TypeOK, SdkOne, SdkKinds
  <2> QED
    BY <1>1, <1>2, <1>4, <2>2, Numbers DEF Ways, Numbered
<1>5. CASE applies' = Append(applies, c) /\ sdkLoop' = sdkLoop
  <2>1. Len(applies') = Len(applies) + 1
    BY <1>3, <1>5 DEF TypeOK
  <2> QED
    BY <1>1, <1>2, <1>5, <2>1, Numbers DEF Ways, Numbered
<1> QED
  BY <1>1, <1>4, <1>5

LEMMA RestartWays ==
  ASSUME TypeOK, RestartCore \/ CoreStopped
  PROVE  Stays /\ Ways' = Ways
<1>1. sdkLoop \in Seq(Closures)
  BY DEF TypeOK
<1>2. CASE RestartCore
  <2>1. Do("stop") \in Closures /\ Do("stop").do = "stop"
    BY Dos DEF Plain
  <2>2. Count(sdkLoop', SdkWays) = Count(sdkLoop, SdkWays) + 1
    BY <1>1, <1>2, <2>1, CountPosted DEF RestartCore, SdkOne, SdkKinds
  <2>3. Count(uiLoop, UiWays) = Count(uiLoop', UiWays) + 1 /\ Count(uiLoop', UiWays) \in Nat
    BY <1>2, UiHead DEF RestartCore, UiOne, UiKinds
  <2>4. Stays /\ Blocked' = Blocked /\ fetches' = fetches /\ applies' = applies
    BY <1>2 DEF RestartCore, Stays, Blocked, sdk, ui
  <2> QED
    BY <2>2, <2>3, <2>4, Numbers DEF Ways, Numbered
<1>3. CASE CoreStopped
  <2>1. Do("start") \in Closures /\ Do("start").do = "start"
    BY Dos DEF Plain
  <2>2. Count(sdkLoop', SdkWays) = Count(sdkLoop, SdkWays)
    BY <1>1, <1>3, <2>1, CountPosted, Numbers
       DEF Numbered, CoreStopped, InitCore, SdkOne, SdkKinds
  <2>3. Count(uiLoop, UiWays) = Count(uiLoop', UiWays) + 1 /\ Count(uiLoop', UiWays) \in Nat
    BY <1>3, UiHead DEF CoreStopped, UiOne, UiKinds
  <2>4. Blocked = 0 /\ Blocked' = 1
    BY <1>3, UiHead DEF CoreStopped, InitCore, Blocked
  <2>5. Stays /\ fetches' = fetches /\ applies' = applies
    BY <1>3 DEF CoreStopped, Stays, sdk, history
  <2> QED
    BY <2>2, <2>3, <2>4, <2>5, Numbers DEF Ways, Numbered
<1> QED
  BY <1>2, <1>3

-----------------------------------------------------------------------------
(* The SDK thread's steps.                                                 *)
LEMMA TurnOnWays ==
  ASSUME TypeOK, NEW before \in Seq(Closures), NEW after \in Seq(Closures), TurnOn(before, after)
  PROVE  /\ Len(fetches') = 0
         /\ fruitless + Count(uiLoop, UiWays) + Len(fetches) <= fruitless' + Count(uiLoop', UiWays)
         /\ Count(uiLoop', UiWays) \in Nat /\ fruitless' \in Nat
<1>0. PICK at \in Choices(Len(fetches)) :
        /\ fetches' = <<>>
        /\ fruitless' = fruitless + (Len(fetches) - Len(Found(at)))
        /\ uiLoop' = uiLoop \o before \o ToConnected(<<SetCoreStarted(TRUE)>>)
                     \o Requested(Found(at)) \o after
  BY DEF TurnOn
<1> DEFINE told == ToConnected(<<SetCoreStarted(TRUE)>>)
           posts == Requested(Found(at))
<1>1. fetches' = <<>> /\ uiLoop' = uiLoop \o before \o told \o posts \o after
  BY <1>0
<1>2. uiLoop \in Seq(Closures)
  BY DEF TypeOK
<1>3. told \in Seq(Closures)
  <2>1. <<SetCoreStarted(TRUE)>> \in Seq(Closures) /\ <<>> \in Seq(Closures)
    BY Dos, HasOne
  <2> QED
    BY <2>1 DEF ToConnected
<1>found. /\ Found(at) \in Seq(Commands)
          /\ Len(Found(at)) \in Nat /\ Len(fetches) \in Nat /\ Len(Found(at)) <= Len(fetches)
  BY FoundSome
<1>4. posts \in Seq(Closures) /\ Count(posts, UiWays) = Len(Found(at))
  BY <1>found, CountSentOn DEF Requested
<1>11. fruitless \in Nat
  BY DEF TypeOK
<1> HIDE DEF told, posts
<1> DEFINE u1 == uiLoop \o before
           u2 == u1 \o told
           u3 == u2 \o posts
<1>5. u1 \in Seq(Closures) /\ Count(u1, UiWays) = Count(uiLoop, UiWays) + Count(before, UiWays)
  BY <1>2, Longer, CountLonger
<1> HIDE DEF u1
<1>6. u2 \in Seq(Closures) /\ Count(u2, UiWays) = Count(u1, UiWays) + Count(told, UiWays)
  BY <1>3, <1>5, Longer, CountLonger
<1> HIDE DEF u2
<1>7. u3 \in Seq(Closures) /\ Count(u3, UiWays) = Count(u2, UiWays) + Count(posts, UiWays)
  BY <1>4, <1>6, Longer, CountLonger
<1> HIDE DEF u3
<1>8. Count(u3 \o after, UiWays) = Count(u3, UiWays) + Count(after, UiWays)
  BY <1>7, CountLonger
<1>9. uiLoop' = u3 \o after /\ Len(fetches') = 0
  BY <1>1 DEF u1, u2, u3
<1>10. /\ Count(uiLoop, UiWays) \in Nat /\ Count(before, UiWays) \in Nat
       /\ Count(told, UiWays) \in Nat /\ Count(after, UiWays) \in Nat
  BY <1>2, <1>3, Counted
<1> DEFINE f == Len(fetches)
           g == Len(Found(at))
           u == Count(uiLoop, UiWays)
           v == Count(uiLoop', UiWays)
           x == Count(before, UiWays) + Count(told, UiWays) + Count(after, UiWays)
<1>12. /\ f \in Nat /\ g \in Nat /\ u \in Nat /\ x \in Nat /\ fruitless \in Nat /\ g <= f
       /\ fruitless' = fruitless + (f - g) /\ v = u + g + x
  <2>1. /\ f \in Nat /\ g \in Nat /\ u \in Nat /\ x \in Nat /\ fruitless \in Nat /\ g <= f
        /\ fruitless' = fruitless + (f - g)
    BY <1>0, <1>found, <1>10, <1>11
  <2>2. v = u + Count(before, UiWays) + Count(told, UiWays) + g + Count(after, UiWays)
    BY <1>4, <1>5, <1>6, <1>7, <1>8, <1>9
  <2> DEFINE b == Count(before, UiWays)
             t == Count(told, UiWays)
             a == Count(after, UiWays)
  <2>3. b \in Nat /\ t \in Nat /\ a \in Nat /\ x = b + t + a /\ v = u + b + t + g + a
    BY <1>10, <2>2
  <2> HIDE DEF f, g, u, v, x, b, t, a
  <2>4. v = u + g + x
    BY <2>1, <2>3
  <2> QED
    BY <2>1, <2>4
<1> HIDE DEF f, g, u, v, x
<1>13. fruitless + u + f <= fruitless' + v /\ v \in Nat /\ fruitless' \in Nat
  BY <1>12
<1> QED
  BY <1>9, <1>13 DEF f, u, v

LEMMA OthersStay ==
  ASSUME NEW f \in Nat, NEW l \in Nat, NEW u \in Nat, NEW k \in Nat, NEW b \in Nat, NEW r \in Nat,
         NEW f1 \in Nat, NEW u1 \in Nat, NEW b1 \in Nat, NEW r1 \in Nat,
         r + u + f <= r1 + u1 + f1, b <= b1
  PROVE  r + (f + l + u + k + b) <= r1 + (f1 + l + u1 + k + b1)
OBVIOUS

LEMMA StartWays ==
  ASSUME TypeOK, Start
  PROVE  queue' = queue /\ fruitless + Ways <= fruitless' + Ways'
<1>1. /\ SdkRuns("start") /\ initCore' = "returned" /\ main' = main /\ applies' = applies
      /\ queue' = queue
  BY DEF Start
<1>2. Count(sdkLoop', SdkWays) = Count(sdkLoop, SdkWays) /\ Count(sdkLoop', SdkWays) \in Nat
  BY <1>1, SdkTakesOne DEF SdkOne, SdkKinds
<1>3. Blocked <= Blocked' /\ Blocked' \in {0, 1} /\ Blocked \in {0, 1}
  BY <1>1 DEF Blocked
<1> DEFINE before == ToConnected(<<SetCoreStarted(FALSE)>>)
           after == <<Do("createUi")>>
<1>4. before \in Seq(Closures) /\ after \in Seq(Closures)
  <2>1. <<SetCoreStarted(FALSE)>> \in Seq(Closures) /\ <<>> \in Seq(Closures)
    BY Dos, HasOne
  <2>2. <<Do("createUi")>> \in Seq(Closures)
    BY Dos DEF Plain
  <2> QED
    BY <2>1, <2>2 DEF ToConnected
<1>5. \/ TurnOn(before, after)
      \/ uiLoop' = uiLoop \o before \o after /\ fetches' = fetches /\ fruitless' = fruitless
  BY DEF Start
<1> HIDE DEF before, after
<1>6. /\ Len(fetches') \in Nat /\ Count(uiLoop', UiWays) \in Nat
      /\ fruitless' \in Nat
      /\ fruitless + Count(uiLoop, UiWays) + Len(fetches)
           <= fruitless' + Count(uiLoop', UiWays) + Len(fetches')
  <2>1. CASE TurnOn(before, after)
    <3>1. /\ Len(fetches') = 0 /\ Count(uiLoop', UiWays) \in Nat /\ fruitless' \in Nat
          /\ fruitless + Count(uiLoop, UiWays) + Len(fetches) <= fruitless' + Count(uiLoop', UiWays)
      BY <1>4, <2>1, TurnOnWays
    <3> QED
      BY <3>1
  <2>2. CASE uiLoop' = uiLoop \o before \o after /\ fetches' = fetches /\ fruitless' = fruitless
    <3>1. uiLoop \in Seq(Closures)
      BY DEF TypeOK
    <3>2. /\ uiLoop \o before \in Seq(Closures)
          /\ Count(uiLoop \o before, UiWays) = Count(uiLoop, UiWays) + Count(before, UiWays)
      BY <1>4, <3>1, Longer, CountLonger
    <3>3. Count(uiLoop', UiWays) = Count(uiLoop \o before, UiWays) + Count(after, UiWays)
      BY <1>4, <2>2, <3>2, CountLonger
    <3>4. Count(before, UiWays) \in Nat /\ Count(after, UiWays) \in Nat
      BY <1>4, Counted
    <3> QED
      BY <2>2, <3>2, <3>3, <3>4, Numbers DEF Numbered
  <2> QED
    BY <1>5, <2>1, <2>2
<1>7. /\ Len(fetches) \in Nat /\ Len(applies) \in Nat /\ fruitless \in Nat
      /\ Count(uiLoop, UiWays) \in Nat /\ Count(sdkLoop, SdkWays) \in Nat /\ Blocked \in {0, 1}
  BY Numbers DEF Numbered
<1>8. Blocked \in Nat /\ Blocked' \in Nat
  BY <1>3
<1>9. fruitless + (Len(fetches) + Len(applies) + Count(uiLoop, UiWays)
                   + Count(sdkLoop, SdkWays) + Blocked)
      <= fruitless' + (Len(fetches') + Len(applies) + Count(uiLoop', UiWays)
                       + Count(sdkLoop, SdkWays) + Blocked')
  BY <1>3, <1>6, <1>7, <1>8, OthersStay
<1> QED
  BY <1>1, <1>2, <1>9 DEF Ways

LEMMA ConfiguredWays ==
  ASSUME TypeOK, Configured
  PROVE  queue' = queue /\ fruitless + Ways <= fruitless' + Ways'
<1>1. TurnOn(<<>>, <<>>) /\ queue' = queue /\ Blocked' = Blocked /\ applies' = applies /\ sdkLoop' = sdkLoop
  BY DEF Configured, Blocked, ui
<1>2. <<>> \in Seq(Closures)
  OBVIOUS
<1>3. /\ Len(fetches') = 0 /\ Count(uiLoop', UiWays) \in Nat /\ fruitless' \in Nat
      /\ fruitless + Count(uiLoop, UiWays) + Len(fetches) <= fruitless' + Count(uiLoop', UiWays)
  BY <1>1, <1>2, TurnOnWays
<1>4. /\ Len(fetches) \in Nat /\ Len(applies) \in Nat /\ fruitless \in Nat
      /\ Count(uiLoop, UiWays) \in Nat /\ Count(sdkLoop, SdkWays) \in Nat /\ Blocked \in {0, 1}
  BY Numbers DEF Numbered
<1>5. /\ Blocked \in Nat /\ Blocked <= Blocked /\ Len(fetches') \in Nat
      /\ fruitless + Count(uiLoop, UiWays) + Len(fetches)
           <= fruitless' + Count(uiLoop', UiWays) + Len(fetches')
  BY <1>3, <1>4
<1>6. fruitless + (Len(fetches) + Len(applies) + Count(uiLoop, UiWays)
                   + Count(sdkLoop, SdkWays) + Blocked)
      <= fruitless' + (Len(fetches') + Len(applies) + Count(uiLoop', UiWays)
                       + Count(sdkLoop, SdkWays) + Blocked)
  BY <1>3, <1>4, <1>5, OthersStay
<1> QED
  BY <1>1, <1>6 DEF Ways

LEMMA StopWays ==
  ASSUME TypeOK, TypeOK', Stop \/ SynchronizeState \/ SetFetchConfig
  PROVE  /\ queue' = queue /\ fruitless + Ways <= fruitless' + Ways'
<1>1. uiLoop \in Seq(Closures)
  BY DEF TypeOK
<1>2. CASE Stop
  <2> DEFINE said == IF core # "Off" THEN <<SetCoreStarted(FALSE)>> ELSE <<>>
  <2>1. said \in Seq(Closures)
    <3>1. <<SetCoreStarted(FALSE)>> \in Seq(Closures) /\ <<>> \in Seq(Closures)
      BY Dos, HasOne
    <3> QED
      BY <3>1
  <2>2. uiLoop' = uiLoop \o said \o <<Do("coreStopped")>>
    BY <1>2 DEF Stop
  <2> HIDE DEF said
  <2>3. Do("coreStopped") \in Closures /\ Do("coreStopped").do = "coreStopped"
    BY Dos DEF Plain
  <2>4. /\ uiLoop \o said \in Seq(Closures)
        /\ Count(uiLoop \o said, UiWays) = Count(uiLoop, UiWays) + Count(said, UiWays)
        /\ Count(said, UiWays) \in Nat
    <3>1. uiLoop \o said \in Seq(Closures)
      BY <1>1, <2>1, Longer
    <3>2. Count(uiLoop \o said, UiWays) = Count(uiLoop, UiWays) + Count(said, UiWays)
      BY <1>1, <2>1, CountLonger
    <3>3. Count(said, UiWays) \in Nat
      BY <2>1, Counted
    <3> QED
      BY <3>1, <3>2, <3>3
  <2>5. Count(uiLoop', UiWays) = Count(uiLoop \o said, UiWays) + UiOne("coreStopped")
    BY <2>2, <2>3, <2>4, CountPosted
  <2>6. UiOne("coreStopped") = 1
    BY DEF UiOne, UiKinds
  <2>7. Count(sdkLoop, SdkWays) = Count(sdkLoop', SdkWays) + 1 /\ Count(sdkLoop', SdkWays) \in Nat
    BY <1>2, SdkTakesOne DEF Stop, SdkOne, SdkKinds
  <2>8. Stays /\ Blocked' = Blocked /\ fetches' = fetches /\ applies' = applies
    BY <1>2 DEF Stop, Stays, Blocked, ui, history
  <2>9. /\ Len(fetches) \in Nat /\ fruitless \in Nat /\ Ways \in Nat
        /\ Count(uiLoop, UiWays) \in Nat /\ Count(sdkLoop, SdkWays) \in Nat
    BY Numbers DEF Numbered
  <2>10. /\ Len(fetches') \in Nat /\ fruitless' \in Nat /\ Count(uiLoop', UiWays) \in Nat
    BY <2>4, <2>5, <2>6, <2>8, <2>9 DEF Stays
  <2>11. SdkSum + 0 <= SdkSum' + 0
    BY <2>4, <2>5, <2>6, <2>7, <2>8, <2>9 DEF SdkSum, Stays
  <2>12. fruitless + Ways + 0 <= fruitless' + Ways' + 0
    BY <2>7, <2>8, <2>10, <2>11, WaysGrow
  <2> QED
    BY <2>8, <2>12, WaysKept DEF Stays
<1>3. CASE SynchronizeState
  <2>1. /\ SetCoreStarted(core = "On") \in Closures
        /\ SetCoreStarted(core = "On").do = "setCoreStarted"
    BY Dos
  <2>2. Count(uiLoop', UiWays) = Count(uiLoop, UiWays) + UiOne("setCoreStarted")
    BY <1>1, <1>3, <2>1, CountPosted DEF SynchronizeState
  <2>3. UiOne("setCoreStarted") = 0
    BY DEF UiOne, UiKinds
  <2>4. Count(sdkLoop, SdkWays) = Count(sdkLoop', SdkWays) /\ Count(sdkLoop', SdkWays) \in Nat
    BY <1>3, SdkTakesOne DEF SynchronizeState, SdkOne, SdkKinds
  <2>5. Stays /\ Blocked' = Blocked /\ fetches' = fetches /\ applies' = applies
    BY <1>3 DEF SynchronizeState, Stays, Blocked, ui, sdk, history
  <2> QED
    BY <2>2, <2>3, <2>4, <2>5, Numbers DEF Ways, Numbered, Stays
<1>4. CASE SetFetchConfig
  <2>1. Count(sdkLoop, SdkWays) = Count(sdkLoop', SdkWays) + 1 /\ Count(sdkLoop', SdkWays) \in Nat
    BY <1>4, SdkTakesOne DEF SetFetchConfig, SdkOne, SdkKinds
  <2>2. queue' = queue /\ Blocked' = Blocked /\ fetches' = fetches /\ applies' = applies
    BY <1>4 DEF SetFetchConfig, Blocked, ui, sdk
  <2>3. fruitless' + Count(uiLoop', UiWays) = fruitless + Count(uiLoop, UiWays) + 1
        /\ fruitless' \in Nat /\ Count(uiLoop', UiWays) \in Nat
    <3>1. Do("restartCore") \in Closures /\ Do("restartCore").do = "restartCore"
      BY Dos DEF Plain
    <3>2. CASE uiLoop' = Append(uiLoop, Do("restartCore")) /\ fruitless' = fruitless
      <4>1. Count(uiLoop', UiWays) = Count(uiLoop, UiWays) + 1
        BY <1>1, <3>1, <3>2, CountPosted DEF UiOne, UiKinds
      <4>2. fruitless \in Nat /\ Count(uiLoop, UiWays) \in Nat
        BY Numbers DEF Numbered
      <4> QED
        BY <3>2, <4>1, <4>2
    <3>3. CASE fruitless' = fruitless + 1 /\ uiLoop' = uiLoop
      BY <3>3, Numbers DEF Numbered
    <3> QED
      BY <1>4, <3>2, <3>3 DEF SetFetchConfig
  <2>4. /\ Len(fetches) \in Nat /\ fruitless \in Nat /\ Ways \in Nat
        /\ Count(uiLoop, UiWays) \in Nat /\ Count(sdkLoop, SdkWays) \in Nat
    BY Numbers DEF Numbered
  <2>5. Len(fetches') \in Nat
    BY <2>2, <2>4
  <2>6. SdkSum + 0 <= SdkSum' + 0
    BY <2>1, <2>2, <2>3, <2>4 DEF SdkSum
  <2>7. fruitless + Ways + 0 <= fruitless' + Ways' + 0
    BY <2>1, <2>2, <2>3, <2>5, <2>6, WaysGrow
  <2> QED
    BY <2>2, <2>7, WaysKept
<1> QED
  BY <1>2, <1>3, <1>4 DEF Stays

-----------------------------------------------------------------------------
(* CliModel's steps: taking an argument adds a way, and the argument of a  *)
(* command is taken before any command.                                    *)
LEMMA RunWays ==
  ASSUME TypeOK, NEW process \in Process, Run(process)
  PROVE  /\ Len(fetches') \in Nat /\ Count(uiLoop', UiWays) \in Nat /\ fruitless' \in Nat
         /\ fruitless + Len(fetches) + Count(uiLoop, UiWays)
              + (IF process.role = "argument" THEN 1 ELSE 0)
            <= fruitless' + Len(fetches') + Count(uiLoop', UiWays)
<1> DEFINE c == process.cmd
           More == fruitless + Len(fetches) + Count(uiLoop, UiWays) + 1
                   <= fruitless' + Len(fetches') + Count(uiLoop', UiWays)
<1>1. /\ Len(fetches) \in Nat /\ Count(uiLoop, UiWays) \in Nat /\ fruitless \in Nat
      /\ fetches \in Seq(Commands) /\ uiLoop \in Seq(Closures) /\ c \in Commands
  BY Numbers DEF Numbered, TypeOK, Process
<1>2. /\ ForCommand("requestFetchConfig", c) \in Closures
      /\ ForCommand("requestFetchConfig", c).do = "requestFetchConfig"
  BY <1>1, Dos DEF Bearing
<1> HIDE DEF c
<1>3. CASE /\ process.role = "argument"
           /\ uiLoop' = Append(uiLoop, ForCommand("requestFetchConfig", c))
           /\ UNCHANGED <<fetches, fruitless>>
  <2>1. Count(uiLoop', UiWays) = Count(uiLoop, UiWays) + 1
    BY <1>1, <1>2, <1>3, CountPosted DEF UiOne, UiKinds
  <2> QED
    BY <1>1, <1>3, <2>1
<1>4. CASE process.role = "argument" /\ fruitless' = fruitless + 1 /\ UNCHANGED <<fetches, uiLoop>>
  BY <1>1, <1>4
<1>5. CASE process.role = "argument" /\ fetches' = Append(fetches, c) /\ UNCHANGED <<fruitless, uiLoop>>
  <2>1. Len(fetches') = Len(fetches) + 1
    BY <1>1, <1>5
  <2> QED
    BY <1>1, <1>5, <2>1
<1>6. CASE process.role # "argument" /\ UNCHANGED <<fetches, fruitless, uiLoop>>
  BY <1>1, <1>6
<1>7. \/ process.role # "argument" /\ UNCHANGED <<fetches, fruitless, uiLoop>>
      \/ process.role = "argument" /\ fetches' = Append(fetches, c) /\ UNCHANGED <<fruitless, uiLoop>>
      \/ process.role = "argument" /\ fruitless' = fruitless + 1 /\ UNCHANGED <<fetches, uiLoop>>
      \/ /\ process.role = "argument"
         /\ uiLoop' = Append(uiLoop, ForCommand("requestFetchConfig", c))
         /\ UNCHANGED <<fetches, fruitless>>
  BY DEF Run, Postpone, c
<1> QED
  BY <1>3, <1>4, <1>5, <1>6, <1>7

LEMMA FirstWays ==
  ASSUME TypeOK, NEW processes \in SUBSET Process, IsFiniteSet(processes),
         processes # {}, RunFirst(processes)
  PROVE  /\ Len(fetches') \in Nat /\ Count(uiLoop', UiWays) \in Nat /\ fruitless' \in Nat
         /\ fruitless + Len(fetches) + Count(uiLoop, UiWays)
              + (IF \E x \in processes : x.role = "argument" THEN 1 ELSE 0)
            <= fruitless' + Len(fetches') + Count(uiLoop', UiWays)
         /\ Cardinality(processes) \in Nat \ {0}
         /\ Cardinality(queue') = Cardinality(processes) - 1
<1>1. PICK first \in processes :
        /\ \A other \in processes : Priority(first) >= Priority(other)
        /\ queue' = processes \ {first}
        /\ Run(first)
  BY DEF RunFirst
<1>2. (\E x \in processes : x.role = "argument") => first.role = "argument"
  BY <1>1 DEF Priority
<1>3. /\ Cardinality(queue') = Cardinality(processes) - 1
      /\ Cardinality(processes) \in Nat /\ Cardinality(processes) # 0
  BY <1>1, FS_RemoveElement, FS_CardinalityType, FS_EmptySet
<1>4. (\E x \in processes : x.role = "argument") <=> first.role = "argument"
  BY <1>2
<1>5. first \in Process
  OBVIOUS
<1> QED
  BY <1>1, <1>3, <1>4, <1>5, RunWays

LEMMA SumGrows ==
  ASSUME NEW e \in Nat, NEW h \in Nat,
         NEW f \in Nat, NEW u \in Nat, NEW k \in Nat, NEW r \in Nat,
         NEW f1 \in Nat, NEW u1 \in Nat, NEW k1 \in Nat, NEW r1 \in Nat,
         r + f + u + e <= r1 + f1 + u1, k = k1 + h
  PROVE  r + (f + u + k) + e <= r1 + (f1 + u1 + k1) + h
OBVIOUS

LEMMA CardinalityAdds ==
  ASSUME NEW S, NEW x, IsFiniteSet(S)
  PROVE  /\ IsFiniteSet(S \cup {x})
         /\ Cardinality(S) \in Nat /\ Cardinality(S \cup {x}) \in Nat
         /\ Cardinality(S \cup {x}) <= Cardinality(S) + 1
<1> DEFINE m == Cardinality(S)
           n == Cardinality(S \cup {x})
<1>1. IsFiniteSet(S \cup {x}) /\ (n = m \/ n = m + 1)
  BY FS_AddElement
<1>2. m \in Nat /\ n \in Nat
  BY <1>1, FS_CardinalityType
<1> HIDE DEF m, n
<1>3. n <= m + 1
  BY <1>1, <1>2
<1> QED
  BY <1>1, <1>2, <1>3 DEF m, n

LEMMA RunProcessWays ==
  ASSUME TypeOK, TypeOK', RunProcess, FetchesAccounted
  PROVE  FetchesAccounted'
<1>1. /\ SdkRuns("runProcess") /\ RunFirst(queue) /\ Blocked' = Blocked /\ applies' = applies
  BY DEF RunProcess, Blocked, ui
<1>2. Count(sdkLoop, SdkWays) = Count(sdkLoop', SdkWays) + 1 /\ Count(sdkLoop', SdkWays) \in Nat
  BY <1>1, SdkTakesOne DEF SdkOne, SdkKinds
<1>3. /\ Len(fetches) \in Nat /\ fruitless \in Nat /\ Ways \in Nat
      /\ Count(uiLoop, UiWays) \in Nat /\ Count(sdkLoop, SdkWays) \in Nat
      /\ IsFiniteSet(queue) /\ queue \in SUBSET Process
  BY Numbers DEF Numbered, TypeOK
<1>4. CASE queue = {}
  <2>1. Cardinality(queue') = 0
    BY <1>1, <1>4, FS_EmptySet DEF RunFirst
  <2>2. fruitless' \in Nat /\ Ways' \in Nat
    BY NumbersNext DEF Numbered
  <2>3. \A x, y \in Nat : 0 <= x + y
    OBVIOUS
  <2>4. 0 <= fruitless' + Ways'
    BY <2>2, <2>3
  <2> QED
    BY <2>1, <2>4 DEF FetchesAccounted
<1>5. CASE queue # {}
  <2>1. /\ Len(fetches') \in Nat /\ Count(uiLoop', UiWays) \in Nat /\ fruitless' \in Nat
        /\ fruitless + Len(fetches) + Count(uiLoop, UiWays)
             + (IF \E x \in queue : x.role = "argument" THEN 1 ELSE 0)
           <= fruitless' + Len(fetches') + Count(uiLoop', UiWays)
        /\ Cardinality(queue) \in Nat
        /\ Cardinality(queue') = Cardinality(queue) - 1
    BY <1>1, <1>3, <1>5, FirstWays
  <2>2. fruitless + Len(fetches) + Count(uiLoop, UiWays) + 0
        <= fruitless' + Len(fetches') + Count(uiLoop', UiWays)
    BY <1>3, <2>1
  <2>3. SdkSum + 0 <= SdkSum' + 1
    BY <1>2, <1>3, <2>1, <2>2, SumGrows DEF SdkSum
  <2>4. fruitless + Ways + 0 <= fruitless' + Ways' + 1
    BY <1>1, <1>2, <2>1, <2>3, WaysGrow
  <2> DEFINE m == fruitless' + Ways'
  <2>5. m \in Nat
    <3>1. fruitless' \in Nat
      BY <2>1
    <3>2. Ways' \in Nat
      BY NumbersNext DEF Numbered
    <3>3. \A x, y \in Nat : x + y \in Nat
      OBVIOUS
    <3> QED
      BY <3>1, <3>2, <3>3
  <2>6. Cardinality(queue) <= fruitless + Ways /\ fruitless + Ways + 0 <= m + 1
    BY <2>4 DEF FetchesAccounted
  <2> HIDE DEF m
  <2>7. Cardinality(queue') <= m
    BY <1>3, <2>1, <2>5, <2>6
  <2> QED
    BY <2>7 DEF m, FetchesAccounted
<1> QED
  BY <1>4, <1>5

LEMMA ExecuteCommandWays ==
  ASSUME TypeOK, TypeOK', ExecuteCommand, FetchesAccounted
  PROVE  FetchesAccounted'
<1> DEFINE c == Head(sdkLoop).cmd
           processes == queue \cup Processes(c)
<1>1. /\ SdkRuns("executeCommand") /\ RunFirst(processes) /\ Blocked' = Blocked
      /\ applies' = applies
  BY DEF ExecuteCommand, Blocked, ui
<1>2. Count(sdkLoop, SdkWays) = Count(sdkLoop', SdkWays) /\ Count(sdkLoop', SdkWays) \in Nat
  BY <1>1, SdkTakesOne DEF SdkOne, SdkKinds
<1>3. /\ Len(fetches) \in Nat /\ fruitless \in Nat /\ Ways \in Nat
      /\ Count(uiLoop, UiWays) \in Nat /\ Count(sdkLoop, SdkWays) \in Nat
      /\ IsFiniteSet(queue) /\ Cardinality(queue) \in Nat /\ queue \in SUBSET Process
  BY Numbers DEF Numbered, TypeOK
<1>4. c \in Commands
  BY <1>1, SdkTakes, Heads DEF Bearing
<1> HIDE DEF c
<1> DEFINE e == IF \E x \in processes : x.role = "argument" THEN 1 ELSE 0
<1>5. /\ processes \in SUBSET Process /\ IsFiniteSet(processes) /\ processes # {}
      /\ Cardinality(processes) <= Cardinality(queue) + 1 + e
  <2> DEFINE one == queue \cup {Main(c)}
  <2>1. Main(c) \in Process /\ Argument(c) \in Process /\ Argument(c).role = "argument"
    BY <1>4 DEF Main, Argument, Process
  <2>2. IsFiniteSet(one) /\ Cardinality(one) \in Nat /\ Cardinality(one) <= Cardinality(queue) + 1
    BY <1>3, CardinalityAdds
  <2> HIDE DEF one
  <2>3. CASE c \in WithFetch
    <3>1. processes = one \cup {Argument(c)}
      BY <2>3 DEF Processes, Main, Argument, one
    <3>2. e = 1
      BY <2>1, <3>1
    <3>3. /\ IsFiniteSet(processes) /\ Cardinality(processes) \in Nat
          /\ Cardinality(processes) <= Cardinality(one) + 1
      BY <2>2, <3>1, CardinalityAdds
    <3>4. processes \in SUBSET Process /\ processes # {}
      BY <1>3, <2>1, <3>1 DEF one
    <3> HIDE DEF processes, e
    <3> QED
      BY <1>3, <2>2, <3>2, <3>3, <3>4
  <2>4. CASE c \notin WithFetch
    <3>1. processes = one
      BY <2>4 DEF Processes, Main, one
    <3>2. e \in {0, 1}
      OBVIOUS
    <3>3. processes \in SUBSET Process /\ processes # {}
      BY <1>3, <2>1, <3>1 DEF one
    <3> HIDE DEF processes, e
    <3> QED
      BY <1>3, <2>2, <3>1, <3>2, <3>3
  <2> QED
    BY <2>3, <2>4
<1>6. e \in {0, 1}
  OBVIOUS
<1>7. /\ Len(fetches') \in Nat /\ Count(uiLoop', UiWays) \in Nat /\ fruitless' \in Nat
      /\ fruitless + Len(fetches) + Count(uiLoop, UiWays) + e
         <= fruitless' + Len(fetches') + Count(uiLoop', UiWays)
      /\ Cardinality(processes) \in Nat
      /\ Cardinality(queue') = Cardinality(processes) - 1
  BY <1>1, <1>5, FirstWays
<1> HIDE DEF e, processes
<1>8. SdkSum + e <= SdkSum' + 0
  <2>1. e \in Nat /\ Count(sdkLoop, SdkWays) = Count(sdkLoop', SdkWays) + 0
    BY <1>2, <1>6
  <2> QED
    BY <1>2, <1>3, <1>7, <2>1, SumGrows DEF SdkSum
<1>9. fruitless + Ways + e <= fruitless' + Ways' + 0
  <2>1. e \in Nat
    BY <1>6
  <2> QED
    BY <1>1, <1>2, <1>7, <1>8, <2>1, WaysGrow
<1> DEFINE m == fruitless' + Ways'
           n == fruitless + Ways
<1>10. m \in Nat
  <2>1. Ways' \in Nat
    BY NumbersNext DEF Numbered
  <2>2. \A x, y \in Nat : x + y \in Nat
    OBVIOUS
  <2> QED
    BY <1>7, <2>1, <2>2
<1>11. n \in Nat /\ Cardinality(queue) <= n /\ n + e <= m + 0
  BY <1>3, <1>9 DEF FetchesAccounted
<1> HIDE DEF m, n
<1> DEFINE p == Cardinality(processes)
           q == Cardinality(queue)
<1>12. p \in Nat /\ q \in Nat /\ p <= q + 1 + e /\ q <= n /\ Cardinality(queue') = p - 1
  BY <1>3, <1>5, <1>7, <1>11
<1> HIDE DEF p, q
<1>13. Cardinality(queue') <= m
  BY <1>6, <1>10, <1>11, <1>12
<1> QED
  BY <1>13 DEF m, FetchesAccounted

-----------------------------------------------------------------------------
LEMMA InitAccounted == Init => FetchesAccounted
<1> SUFFICES ASSUME Init PROVE FetchesAccounted
  OBVIOUS
<1>1. TypeOK
  BY InitInv DEF IInv
<1>2. Cardinality(queue) = 0
  BY FS_EmptySet DEF Init
<1>3. \A x, y \in Nat : 0 <= x + y
  OBVIOUS
<1>4. 0 <= fruitless + Ways
  BY <1>1, <1>3, Numbers DEF Numbered
<1> QED
  BY <1>2, <1>4 DEF FetchesAccounted

LEMMA NextAccounted ==
  TypeOK /\ TypeOK' /\ FetchesAccounted /\ [Next]_vars => FetchesAccounted'
<1> SUFFICES ASSUME TypeOK, TypeOK', FetchesAccounted, [Next]_vars PROVE FetchesAccounted'
  OBVIOUS
<1>1. ASSUME Stays, Ways' = Ways PROVE FetchesAccounted'
  <2>1. fruitless + Ways <= fruitless' + Ways' /\ queue' = queue
    <3>1. fruitless + Ways = fruitless' + Ways' /\ fruitless + Ways \in Nat
      BY <1>1, Numbers DEF Stays, Numbered
    <3> QED
      BY <1>1, <3>1 DEF Stays
  <2> QED
    BY <2>1, Balanced
<1>2. ASSUME queue' = queue, fruitless + Ways <= fruitless' + Ways' PROVE FetchesAccounted'
  BY <1>2, Balanced
<1>3. CASE Launch \/ ConnectModels \/ SendCommand \/ \E c \in Commands : ReceivedMessage(c)
  BY <1>1, <1>3, LaunchWays
<1>4. CASE RunSetCoreStarted \/ CreateUi \/ SetMainWindow
  BY <1>1, <1>4, WindowWays
<1>5. CASE RequestFetchConfig
  BY <1>1, <1>5, RequestFetchConfigWays
<1>6. CASE RestartCore \/ CoreStopped
  BY <1>1, <1>6, RestartWays
<1>7. CASE Start
  BY <1>2, <1>7, StartWays
<1>8. CASE Configured
  BY <1>2, <1>8, ConfiguredWays
<1>9. CASE Stop \/ SynchronizeState \/ SetFetchConfig
  BY <1>2, <1>9, StopWays
<1>10. CASE ExecuteCommand
  BY <1>10, ExecuteCommandWays
<1>11. CASE RunProcess
  BY <1>11, RunProcessWays
<1>12. CASE UNCHANGED vars
  <2>1. Stays /\ Ways' = Ways
    BY <1>12 DEF vars, ui, sdk, history, Stays, Ways, Blocked
  <2> QED
    BY <1>1, <2>1
<1> QED
  BY <1>3, <1>4, <1>5, <1>6, <1>7, <1>8, <1>9, <1>10, <1>11, <1>12
     DEF Next, UiThread, SdkThread

(* When all is quiet nothing is on its way: what is left in the queue are  *)
(* commands whose fetch led to no restart.  executeCommand and runProcess  *)
(* of CliModel.cpp, restartCore of App.cpp.                                *)
THEOREM LeftForFetches == Spec => []LeftoversExplained
<1>1. IInv /\ FetchesAccounted => LeftoversExplained
  <2> SUFFICES ASSUME IInv, FetchesAccounted, Settled PROVE Cardinality(queue) <= fruitless
    BY DEF LeftoversExplained
  <2>1. TypeOK
    BY DEF IInv
  <2>2. Ways = 0
    <3>1. /\ Count(uiLoop, UiWays) = 0 /\ Count(sdkLoop, SdkWays) = 0
          /\ Len(fetches) = 0 /\ Len(applies) = 0 /\ Blocked = 0
      BY CountOne DEF Settled, Blocked
    <3> QED
      BY <3>1 DEF Ways
  <2> DEFINE n == Cardinality(queue)
  <2>3. n <= fruitless + 0 /\ n \in Nat /\ fruitless \in Nat
    BY <2>1, <2>2, Numbers DEF FetchesAccounted, Numbered
  <2> HIDE DEF n
  <2>4. n <= fruitless
    BY <2>3
  <2> QED
    BY <2>4 DEF n
<1>2. Init => IInv /\ FetchesAccounted
  BY InitInv, InitAccounted
<1>3. IInv /\ FetchesAccounted /\ [Next]_vars => (IInv /\ FetchesAccounted)'
  BY NextInv, NextAccounted DEF IInv
<1> QED
  BY <1>1, <1>2, <1>3, PTL DEF Spec

-----------------------------------------------------------------------------
(* The commands performed and those deferred, in order, are those taken.   *)
Slot  == [cmd : Commands, as : Kinds]
After == performed \o deferred

\* Each command was taken.  Each process taken for the calls is among the
\* commands.  They are in the order they were taken in.
Comes(after, took) == \A k \in DOMAIN after : \E a \in DOMAIN took : took[a] = Main(after[k].cmd)
Includes(after, took) ==
  \A i \in DOMAIN took : took[i].role = "command" /\ MainOf[took[i].cmd] \notin Idle =>
    \E k \in DOMAIN after : after[k].cmd = took[i].cmd
InOrder(took, x, y) ==
  \E a, b \in DOMAIN took : a < b /\ took[a] = Main(x.cmd) /\ took[b] = Main(y.cmd)
Follows(after, took) ==
  \A j, k \in DOMAIN after : j < k => InOrder(took, after[j], after[k])
Kept(after, took) == Comes(after, took) /\ Includes(after, took) /\ Follows(after, took)

KeptInv == (core = "On" => deferred = <<>>) /\ Kept(After, taken)

LEMMA KeptMeans == KeptInv => CommandsKept
BY DEF KeptInv, Kept, CommandsKept, Includes, Follows, InOrder, After, Main

LEMMA AfterTyped ==
  ASSUME TypeOK
  PROVE  /\ performed \in Seq(Slot) /\ deferred \in Seq(Slot) /\ After \in Seq(Slot)
         /\ Len(After) \in Nat /\ DOMAIN After = 1 .. Len(After)
         /\ taken \in Seq(Process) /\ Len(taken) \in Nat /\ DOMAIN taken = 1 .. Len(taken)
<1>1. performed \in Seq(Slot) /\ deferred \in Seq(Slot) /\ taken \in Seq(Process)
  BY DEF TypeOK, Slot
<1>2. After \in Seq(Slot)
  BY <1>1, ConcatProperties DEF After
<1> QED
  BY <1>1, <1>2, LenProperties

(* The order in which two were taken is kept when one more process is.     *)
LEMMA OrderKept ==
  ASSUME NEW took, NEW later, NEW x, NEW y, NEW n \in Nat,
         DOMAIN took = 1 .. n, DOMAIN later = 1 .. n + 1,
         \A i \in 1 .. n : later[i] = took[i], InOrder(took, x, y)
  PROVE  InOrder(later, x, y)
<1>1. PICK a \in 1 .. n, b \in 1 .. n :
        a < b /\ took[a] = Main(x.cmd) /\ took[b] = Main(y.cmd)
  BY DEF InOrder
<1>2. /\ a \in DOMAIN later /\ b \in DOMAIN later
      /\ later[a] = took[a] /\ later[b] = took[b]
  OBVIOUS
<1> QED
  BY <1>1, <1>2 DEF InOrder

LEMMA OrderLast ==
  ASSUME NEW took, NEW later, NEW x, NEW y, NEW n \in Nat, NEW a \in 1 .. n,
         DOMAIN took = 1 .. n, DOMAIN later = 1 .. n + 1,
         \A i \in 1 .. n : later[i] = took[i],
         took[a] = Main(x.cmd), later[n + 1] = Main(y.cmd)
  PROVE  InOrder(later, x, y)
<1>1. /\ a \in DOMAIN later /\ n + 1 \in DOMAIN later
      /\ a < n + 1 /\ later[a] = Main(x.cmd)
  OBVIOUS
<1> QED
  BY <1>1 DEF InOrder

(* One more process is taken for which nothing is done to calls.           *)
LEMMA KeptOn ==
  ASSUME NEW after \in Seq(Slot), NEW took \in Seq(Process), NEW first \in Process,
         first.role = "command" => MainOf[first.cmd] \in Idle,
         Kept(after, took)
  PROVE  Kept(after, Append(took, first))
<1> DEFINE n == Len(took)
           m == Len(after)
           later == Append(took, first)
<1>1. /\ n \in Nat /\ m \in Nat /\ DOMAIN after = 1 .. m /\ DOMAIN took = 1 .. n
      /\ DOMAIN later = 1 .. n + 1 /\ later[n + 1] = first
      /\ \A i \in 1 .. n : later[i] = took[i]
  BY AppendProperties, LenProperties
<1> HIDE DEF n, m, later
<1> USE <1>1
<1>3. Comes(after, later)
  <2> SUFFICES ASSUME NEW k \in 1 .. m
               PROVE  \E a \in DOMAIN later : later[a] = Main(after[k].cmd)
    BY DEF Comes
  <2>1. PICK a \in 1 .. n : took[a] = Main(after[k].cmd)
    BY DEF Kept, Comes
  <2> QED
    BY <2>1
<1>4. Includes(after, later)
  <2> SUFFICES ASSUME NEW i \in 1 .. n + 1,
                      later[i].role = "command", MainOf[later[i].cmd] \notin Idle
               PROVE  \E k \in DOMAIN after : after[k].cmd = later[i].cmd
    BY DEF Includes
  <2>1. i # n + 1
    OBVIOUS
  <2>2. i \in 1 .. n /\ later[i] = took[i]
    BY <2>1
  <2> QED
    BY <2>2 DEF Kept, Includes
<1>5. Follows(after, later)
  <2> SUFFICES ASSUME NEW j \in 1 .. m, NEW k \in 1 .. m, j < k
               PROVE  InOrder(later, after[j], after[k])
    BY DEF Follows
  <2>1. InOrder(took, after[j], after[k])
    BY DEF Kept, Follows
  <2> QED
    BY <2>1, OrderKept
<1> QED
  BY <1>3, <1>4, <1>5 DEF Kept, later

(* One more process is taken, for a command that is the last.              *)
LEMMA KeptLast ==
  ASSUME NEW after \in Seq(Slot), NEW took \in Seq(Process), NEW d \in Slot, Kept(after, took)
  PROVE  Kept(Append(after, d), Append(took, Main(d.cmd)))
<1> DEFINE n == Len(took)
           m == Len(after)
           later == Append(took, Main(d.cmd))
           more == Append(after, d)
<1>1. /\ n \in Nat /\ m \in Nat /\ DOMAIN after = 1 .. m /\ DOMAIN took = 1 .. n
      /\ DOMAIN more = 1 .. m + 1 /\ more[m + 1] = d
      /\ \A k \in 1 .. m : more[k] = after[k]
  BY AppendProperties, LenProperties
<1>2. /\ DOMAIN later = 1 .. n + 1 /\ later[n + 1] = Main(d.cmd)
      /\ \A i \in 1 .. n : later[i] = took[i]
  <2>1. Main(d.cmd) \in Process
    BY DEF Main, Slot, Process
  <2> QED
    BY <2>1, AppendProperties, LenProperties
<1> HIDE DEF n, m, later, more
<1> USE <1>1, <1>2
<1>3. Comes(more, later)
  <2> SUFFICES ASSUME NEW k \in 1 .. m + 1
               PROVE  \E a \in DOMAIN later : later[a] = Main(more[k].cmd)
    BY DEF Comes
  <2>1. CASE k = m + 1
    BY <2>1
  <2>2. CASE k \in 1 .. m
    <3>1. PICK a \in 1 .. n : took[a] = Main(after[k].cmd)
      BY <2>2 DEF Kept, Comes
    <3> QED
      BY <2>2, <3>1
  <2> QED
    BY <2>1, <2>2
<1>4. Includes(more, later)
  <2> SUFFICES ASSUME NEW i \in 1 .. n + 1,
                      later[i].role = "command", MainOf[later[i].cmd] \notin Idle
               PROVE  \E k \in DOMAIN more : more[k].cmd = later[i].cmd
    BY DEF Includes
  <2>1. CASE i = n + 1
    <3>1. later[i].cmd = d.cmd /\ m + 1 \in DOMAIN more
      BY <2>1 DEF Main
    <3> QED
      BY <3>1
  <2>2. CASE i \in 1 .. n
    <3>1. PICK k \in 1 .. m : after[k].cmd = took[i].cmd
      BY <2>2 DEF Kept, Includes
    <3> QED
      BY <2>2, <3>1
  <2> QED
    BY <2>1, <2>2
<1>5. Follows(more, later)
  <2> SUFFICES ASSUME NEW j \in 1 .. m + 1, NEW k \in 1 .. m + 1, j < k
               PROVE  InOrder(later, more[j], more[k])
    BY DEF Follows
  <2>1. j \in 1 .. m /\ more[j] = after[j]
    OBVIOUS
  <2>2. CASE k = m + 1
    <3>1. PICK a \in 1 .. n : took[a] = Main(more[j].cmd)
      BY <2>1 DEF Kept, Comes
    <3>2. later[n + 1] = Main(more[k].cmd)
      BY <2>2
    <3> QED
      BY <3>1, <3>2, OrderLast
  <2>3. CASE k \in 1 .. m
    <3>1. InOrder(took, more[j], more[k])
      BY <2>1, <2>3 DEF Kept, Follows
    <3> QED
      BY <3>1, OrderKept
  <2> QED
    BY <2>2, <2>3
<1> QED
  BY <1>3, <1>4, <1>5 DEF Kept, later, more

(* runProcess() takes a process, and does with it what Run says.           *)
LEMMA KeptWhenTaken ==
  ASSUME TypeOK, KeptInv, NEW first \in Process, taken' = Append(taken, first),
         core' = "On" => deferred' = <<>>, NEW d \in Slot,
         \/ After' = After /\ (first.role = "command" => MainOf[first.cmd] \in Idle)
         \/ After' = Append(After, d) /\ first = Main(d.cmd)
  PROVE  KeptInv'
<1>1. taken \in Seq(Process) /\ After \in Seq(Slot) /\ Kept(After, taken)
  BY AfterTyped DEF KeptInv
<1>2. CASE After' = After /\ (first.role = "command" => MainOf[first.cmd] \in Idle)
  <2>1. Kept(After, Append(taken, first))
    BY <1>1, <1>2, KeptOn
  <2> QED
    BY <1>2, <2>1 DEF KeptInv
<1>3. CASE After' = Append(After, d) /\ first = Main(d.cmd)
  <2>1. Kept(Append(After, d), Append(taken, Main(d.cmd)))
    BY <1>1, KeptLast
  <2> QED
    BY <1>3, <2>1 DEF KeptInv
<1> QED
  BY <1>2, <1>3

(* runProcess() of CliModel.cpp.                                           *)
LEMMA KeptByRunFirst ==
  ASSUME TypeOK, TypeOK', KeptInv, NEW processes \in SUBSET Process, RunFirst(processes), core' = core
  PROVE  KeptInv'
<1>1. CASE processes = {}
  <2>1. taken' = taken /\ performed' = performed /\ deferred' = deferred
    BY <1>1 DEF RunFirst
  <2> QED
    BY <2>1 DEF KeptInv, After
<1>2. CASE processes # {}
  <2>1. PICK first \in processes : taken' = Append(taken, first) /\ Run(first)
    BY <1>2 DEF RunFirst
  <2> DEFINE c == first.cmd
             deed == [cmd |-> c, as |-> MainOf[c]]
             slot == [cmd |-> c, as |-> Postponed(MainOf[c])]
  <2>2. first \in Process /\ c \in Commands /\ (first.role = "command" => first = Main(c))
    BY DEF Process, Main
  <2>3. deed \in Slot /\ slot \in Slot
    BY <2>2, CommandsAssumption DEF CommandsAssumption, Slot, Kinds, Postponed
  <2>4. performed \in Seq(Slot) /\ deferred \in Seq(Slot)
    BY AfterTyped
  <2>5. \/ /\ performed' = performed /\ deferred' = deferred
           /\ first.role = "command" => MainOf[c] \in Idle
        \/ /\ first.role = "command" /\ core = "On"
           /\ performed' = Append(performed, deed) /\ deferred' = deferred
        \/ /\ first.role = "command" /\ core # "On"
           /\ performed' = performed /\ deferred' = Append(deferred, slot)
    BY <2>1, <2>2 DEF Run, Postpone, Process
  <2> HIDE DEF deed, slot
  <2>6. CASE /\ performed' = performed /\ deferred' = deferred
             /\ first.role = "command" => MainOf[c] \in Idle
    <3>1. After' = After /\ (core' = "On" => deferred' = <<>>)
      BY <2>6 DEF After, KeptInv
    <3> QED
      BY <2>1, <2>2, <2>3, <2>6, <3>1, KeptWhenTaken
  <2>7. CASE /\ first.role = "command" /\ core = "On"
             /\ performed' = Append(performed, deed) /\ deferred' = deferred
    <3>1. deferred = <<>>
      BY <2>7 DEF KeptInv
    <3>2. After = performed /\ After' = Append(After, deed)
      <4>1. Append(performed, deed) \in Seq(Slot)
        BY <2>3, <2>4, AppendProperties
      <4>2. After' = Append(performed, deed) \o <<>> /\ After = performed \o <<>>
        BY <2>7, <3>1 DEF After
      <4> QED
        BY <2>4, <4>1, <4>2, ConcatEmptySeq
    <3>3. deed.cmd = c /\ (core' = "On" => deferred' = <<>>)
      BY <2>7, <3>1 DEF deed
    <3> QED
      BY <2>1, <2>2, <2>3, <2>7, <3>2, <3>3, KeptWhenTaken
  <2>8. CASE /\ first.role = "command" /\ core # "On"
             /\ performed' = performed /\ deferred' = Append(deferred, slot)
    <3>1. After' = Append(After, slot)
      <4>1. After' = performed \o Append(deferred, slot) /\ After = performed \o deferred
        BY <2>8 DEF After
      <4>2. /\ Append(deferred, slot) = deferred \o <<slot>> /\ <<slot>> \in Seq(Slot)
            /\ performed \o deferred \in Seq(Slot)
        BY <2>3, <2>4, AppendIsConcat, ConcatProperties
      <4>3. performed \o (deferred \o <<slot>>) = (performed \o deferred) \o <<slot>>
        BY <2>4, <4>2, ConcatAssociative
      <4>4. Append(performed \o deferred, slot) = (performed \o deferred) \o <<slot>>
        BY <2>3, <4>2, AppendIsConcat
      <4> QED
        BY <4>1, <4>2, <4>3, <4>4
    <3>2. slot.cmd = c /\ core' # "On"
      BY <2>8 DEF slot
    <3> QED
      BY <2>1, <2>2, <2>3, <2>8, <3>1, <3>2, KeptWhenTaken
  <2> QED
    BY <2>5, <2>6, <2>7, <2>8
<1> QED
  BY <1>1, <1>2

LEMMA KeptInit == Init => KeptInv
<1> SUFFICES ASSUME Init PROVE KeptInv
  OBVIOUS
<1>1. performed = <<>> /\ deferred = <<>> /\ taken = <<>> /\ core = "none"
  BY DEF Init
<1>2. After = <<>> /\ DOMAIN After = {} /\ DOMAIN taken = {}
  BY <1>1 DEF After
<1> QED
  BY <1>1, <1>2 DEF KeptInv, Kept, Comes, Includes, Follows

LEMMA KeptNext == TypeOK /\ TypeOK' /\ KeptInv /\ [Next]_vars => KeptInv'
<1> SUFFICES ASSUME TypeOK, TypeOK', KeptInv, [Next]_vars PROVE KeptInv'
  OBVIOUS
<1>1. ASSUME UNCHANGED <<performed, deferred, taken>>, core' = "On" => core = "On"
      PROVE  KeptInv'
  BY <1>1 DEF KeptInv, After
<1>2. ASSUME NEW before, NEW after, TurnOn(before, after), taken' = taken
      PROVE  KeptInv'
  <2>1. performed' = performed \o deferred /\ deferred' = <<>>
    BY <1>2 DEF TurnOn, LeftConnected
  <2>2. After' = After
    <3>1. After' = After \o <<>> /\ After \in Seq(Slot)
      BY <2>1, AfterTyped DEF After
    <3> QED
      BY <3>1, ConcatEmptySeq
  <2> QED
    BY <1>2, <2>1, <2>2 DEF KeptInv
<1>3. CASE UiThread
  <2>1. UNCHANGED <<performed, deferred, taken, core>>
    BY <1>3 DEF UiThread, Launch, ConnectModels, SendCommand, RunSetCoreStarted, CreateUi,
       SetMainWindow, RequestFetchConfig, RestartCore, CoreStopped, sdk, history
  <2> QED
    BY <1>1, <2>1
<1>4. CASE Start \/ Configured
  <2>1. taken' = taken
    BY <1>4 DEF Start, Configured
  <2>2. CASE \E before, after : TurnOn(before, after)
    BY <1>2, <2>1, <2>2
  <2>3. CASE core' = "Configuring" /\ UNCHANGED <<deferred, performed>>
    BY <1>1, <2>1, <2>3
  <2> QED
    BY <1>4, <2>2, <2>3 DEF Start, Configured
<1>5. CASE Stop \/ SynchronizeState \/ SetFetchConfig
  <2>1. UNCHANGED <<performed, deferred, taken>> /\ (core' = core \/ core' = "Off")
    BY <1>5 DEF Stop, SynchronizeState, SetFetchConfig, sdk, history
  <2> QED
    BY <1>1, <2>1
<1>6. CASE ExecuteCommand
  <2>1. Head(sdkLoop).cmd \in Commands
    BY <1>6, SdkTakes, Heads DEF ExecuteCommand, SdkRuns, Bearing
  <2>2. queue \cup Processes(Head(sdkLoop).cmd) \in SUBSET Process
    BY <2>1 DEF TypeOK, Processes, Process
  <2> QED
    BY <1>6, <2>2, KeptByRunFirst DEF ExecuteCommand
<1>7. CASE RunProcess
  BY <1>7, KeptByRunFirst DEF RunProcess, TypeOK
<1>8. CASE (\E c \in Commands : ReceivedMessage(c)) \/ UNCHANGED vars
  <2>1. UNCHANGED <<performed, deferred, taken, core>>
    BY <1>8 DEF ReceivedMessage, vars, sdk, history
  <2> QED
    BY <1>1, <2>1
<1> QED
  BY <1>3, <1>4, <1>5, <1>6, <1>7, <1>8 DEF Next, SdkThread

(* Whatever restarts the core goes through, a command for the calls that   *)
(* was taken from the queue is performed or waits for the core, in its     *)
(* turn: the single-shot slots of cliCall, cliBye, cliAccept and           *)
(* cliDecline lose none and keep their order.                              *)
THEOREM NoneLostNorOvertaken == Spec => []CommandsKept
<1>1. IInv /\ KeptInv /\ [Next]_vars => (IInv /\ KeptInv)'
  BY NextInv, KeptNext DEF IInv
<1> QED
  BY <1>1, InitInv, KeptInit, KeptMeans, PTL DEF Spec
=============================================================================
