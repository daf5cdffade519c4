--------------------------- MODULE CallListProofs ---------------------------
(***************************************************************************)
(* The list of calls, for any calls, restarts and lengths of the loops:    *)
(* when all is quiet it shows the live calls in order, and its current     *)
(* call is the active one.                                                 *)
(*                                                                         *)
(* What they rest on looks ahead: of the closures that wait for the UI     *)
(* thread, those after the last reset say which CallCores the list will    *)
(* show, and the last that moves the current call says which it will be.   *)
(* The invariant holds of that list at each step, and the list is that one *)
(* when nothing waits.                                                     *)
(***************************************************************************)
EXTENDS CallList, SequenceTheorems, FiniteSetTheorems, TLAPS

\* What is posted to either loop.
Closures ==
  {Do("initLists"), Do("resetData"), Do("lastCallEnded")}
    \cup [do : {"add"}, core : Cores]
    \cup [do : {"setState"}, core : Cores, state : States]
    \cup [do : {"reset"}, cores : Seq(Cores), current : Cores \cup {None}]

SdkClosures == {Do("update"), Do("start")} \cup [do : {"resume"}, core : Cores]

\* The types of the state and of the loops.
Types ==
  /\ core \in {"on", "stopping", "off"} /\ connected \in BOOLEAN /\ haveCall \in BOOLEAN
  /\ calls \in Seq(Calls) /\ IsInjective(calls)
  /\ state \in [Calls -> States]
  /\ listening \subseteq Cores /\ seen \in [Cores -> States]
  /\ updates \in Nat /\ restarts \in 0 .. MaxRestarts
  /\ list \in Seq(Cores) /\ IsInjective(list)
  /\ current \in Cores \cup {None}
  /\ uiLoop \in Seq(Closures) /\ sdkLoop \in Seq(SdkClosures)

\* Closures of a kind in a loop: some, one at most, and all of one before the other.
Has(q, what)    == \E i \in DOMAIN q : q[i].do = what
Once(q, what)   == \A i, j \in DOMAIN q : q[i].do = what /\ q[j].do = what => i = j
InTurn(q, a, b) == \A i, j \in DOMAIN q : q[i].do = a /\ q[j].do = b => i < j

\* lUpdate() is on its way.
Asking == Has(uiLoop, "initLists") \/ Has(sdkLoop, "update")

\* A launch or a restart is one chain: resetData, start, initLists, update.  No
\* two of its closures wait at once, the core is off until it is started, and
\* each chain makes one lUpdate().
Chain ==
  /\ Once(uiLoop, "initLists") /\ Once(uiLoop, "resetData")
  /\ Once(sdkLoop, "update") /\ Once(sdkLoop, "start")
  /\ Has(uiLoop, "initLists") => ~Has(sdkLoop, "update") /\ ~Has(sdkLoop, "start")
  /\ Has(uiLoop, "resetData") => ~Has(sdkLoop, "start")
  /\ InTurn(uiLoop, "initLists", "resetData") /\ InTurn(sdkLoop, "update", "start")
  /\ core = "off" <=> Has(uiLoop, "resetData") \/ Has(sdkLoop, "start")
  /\ connected \/ Has(uiLoop, "initLists")
  /\ updates + (IF Asking THEN 1 ELSE 0) + (IF core = "on" THEN 0 ELSE 1) = restarts + 1

\* lUpdate() has run since the core was started.
UpToDate == core = "on" /\ ~Asking

\* A CallCore in use listens; its number is that of an lUpdate() that has run;
\* the core's calls are those not released; one at most is active.
Kept == \A x \in Cores : Held(x) => x \in listening
Numbers == \A x \in listening : x[2] <= updates /\ state[x[1]] # "none"
CallsKnown == \A c \in Calls : c \in Range(calls) <=> state[c] \in Live \cup {"ended"}
OneActive == \A c, d \in Calls : state[c] \in Active /\ state[d] \in Active => c = d

\* A closure of callCreated.
IsAdd(f, x) == f.do = "add" /\ f.core = x

\* No CallCore waits to be listed after one of its events; callCreated adds one
\* once; those of a reset are all different and from lUpdate(), as is its current.
Placed ==
  /\ \A x \in Cores : \A i, j \in DOMAIN uiLoop :
       i < j /\ IsEvent(uiLoop[i], x) => ~Carries(uiLoop[j], x)
  /\ \A x \in Cores : \A i \in DOMAIN uiLoop : IsAdd(uiLoop[i], x) =>
       /\ x[2] = 0 /\ x \notin Range(list)
       /\ \A j \in DOMAIN uiLoop : IsAdd(uiLoop[j], x) => i = j
  /\ \A i \in DOMAIN uiLoop : uiLoop[i].do = "reset" =>
       /\ IsInjective(uiLoop[i].cores)
       /\ \A x \in Range(uiLoop[i].cores) : x[2] # 0
       /\ uiLoop[i].current \in Range(uiLoop[i].cores) \cup {None}

\* A CallCore sees a release, or is told of one, only of a released call.
ReleasedIsTrue ==
  /\ \A x \in Cores : seen[x] = "released" => state[x[1]] = "released"
  /\ \A i \in DOMAIN uiLoop : uiLoop[i].do = "setState" /\ uiLoop[i].state = "released"
       => state[uiLoop[i].core[1]] = "released"

\* A CallCore is told of each change of its call, in turn: the first event that
\* waits differs from what it saw, each from the one before, and the last is the
\* state of the call.
Told ==
  \A x \in listening :
    /\ (\A i \in DOMAIN uiLoop : ~IsEvent(uiLoop[i], x)) => seen[x] = state[x[1]]
    /\ \A i \in DOMAIN uiLoop : IsEvent(uiLoop[i], x) =>
         /\ (\A j \in DOMAIN uiLoop : j > i => ~IsEvent(uiLoop[j], x))
              => uiLoop[i].state = state[x[1]]
         /\ (\A j \in DOMAIN uiLoop : j < i => ~IsEvent(uiLoop[j], x))
              => uiLoop[i].state # seen[x]
    /\ \A i, j \in DOMAIN uiLoop :
         /\ i < j /\ IsEvent(uiLoop[i], x) /\ IsEvent(uiLoop[j], x)
         /\ \A k \in DOMAIN uiLoop : i < k /\ k < j => ~IsEvent(uiLoop[k], x)
         => uiLoop[i].state # uiLoop[j].state

\* The list starts at p: 0, the list there is, or the last reset that waits.
LastReset(q, p) ==
  /\ p \in 0 .. Len(q) /\ (p > 0 => q[p].do = "reset")
  /\ \A i \in DOMAIN q : i > p => q[i].do # "reset"

\* What will be listed then: the reset's CallCores and those added after it.
Base(q, l, p) == IF p = 0 THEN l ELSE q[p].cores
Added(q, p, x) == \E i \in DOMAIN q : i > p /\ IsAdd(q[i], x)
Shows(q, l, p, x) == x \in Range(Base(q, l, p)) \/ Added(q, p, x)
AddsInTurn(q, p, x, y) ==
  \E i, j \in DOMAIN q : p < i /\ i < j /\ IsAdd(q[i], x) /\ IsAdd(q[j], y)
\* x before y in a sequence, and in the list to be.
Follow(s, x, y) == \E i, j \in DOMAIN s : i < j /\ s[i] = x /\ s[j] = y
Ahead(q, l, p, x, y) ==
  \/ Follow(Base(q, l, p), x, y)
  \/ x \in Range(Base(q, l, p)) /\ Added(q, p, y)
  \/ AddsInTurn(q, p, x, y)

\* c was made before d.
Older(c, d) == Follow(calls, c, d)

\* What changes the current call, whichever CallCores are listed.
Moves(f) == \/ f.do = "lastCallEnded"
            \/ f.do = "setState" /\ f.state \in Active
Quiet(q, p) == \A i \in DOMAIN q : i > p => ~Moves(q[i])

\* No event waits for a CallCore.
Silent(q, x) == \A i \in DOMAIN q : ~IsEvent(q[i], x)

\* The e-th closure makes x current, and nothing after it undoes that: x will be
\* the current call by such an event, or because it is the one it starts with.
Answers(q, e, x) == /\ IsEvent(q[e], x) /\ Quiet(q, e)
                    /\ \A i \in DOMAIN q : i > e => ~IsEvent(q[i], x)
WillBeCurrent(q, l, now, p, x) ==
  \/ \E e \in DOMAIN q : Answers(q, e, x)
  \/ /\ Silent(q, x) /\ Quiet(q, p) /\ x \in Range(Base(q, l, p))
     /\ x = IF p = 0 THEN now ELSE q[p].current

\* The list to be has each live call,
Complete(q, l, p) ==
  \A c \in Calls : state[c] \in Live => \E x \in Cores : x[1] = c /\ Shows(q, l, p, x)
\* the older one first,
InOrder(q, l, p) ==
  \A x, y \in Cores : Ahead(q, l, p, x, y) /\ state[x[1]] \in Live /\ state[y[1]] \in Live
                        => Older(x[1], y[1])
\* a released one only if its CallCore is still to be told,
Leaving(q, l, p) ==
  \A x \in Cores : Shows(q, l, p, x) /\ state[x[1]] = "released" =>
    /\ seen[x] # "released"
    /\ \E i \in DOMAIN q : IsEvent(q[i], x) /\ q[i].state = "released"
\* the newest CallCore of each call,
Newest(q, l, p) ==
  \A x \in Cores : Shows(q, l, p, x) => \A y \in listening : y[1] = x[1] => y[2] <= x[2]
\* and a current call that is listed, the active one if there is one.
CurrentListed(l, now, p) == p = 0 => now \in Range(l) \cup {None}
CurrentFollows(q, l, now, p) ==
  \A x \in Cores : Shows(q, l, p, x) /\ state[x[1]] \in Active => WillBeCurrent(q, l, now, p, x)

Fits(q, l, now, p) ==
  /\ Complete(q, l, p) /\ InOrder(q, l, p) /\ Leaving(q, l, p)
  /\ Newest(q, l, p) /\ CurrentListed(l, now, p) /\ CurrentFollows(q, l, now, p)

\* Once lUpdate() has run, the list to be fits the calls.
View == UpToDate => \A p \in 0 .. Len(uiLoop) :
                      LastReset(uiLoop, p) => Fits(uiLoop, list, current, p)

IInv ==
  /\ Types /\ Chain /\ Kept /\ Numbers /\ CallsKnown /\ OneActive
  /\ Placed /\ ReleasedIsTrue /\ Told /\ View

-----------------------------------------------------------------------------
(* Sequences.  What is posted, and what is run.                            *)
LEMMA Joined ==
  ASSUME NEW S, NEW q \in Seq(S), NEW b \in Seq(S)
  PROVE  /\ q \o b \in Seq(S) /\ Len(q \o b) = Len(q) + Len(b)
         /\ Len(q) \in Nat /\ Len(b) \in Nat
         /\ DOMAIN q = 1 .. Len(q) /\ DOMAIN b = 1 .. Len(b)
         /\ DOMAIN (q \o b) = 1 .. Len(q) + Len(b)
         /\ \A i \in DOMAIN q : i \in DOMAIN (q \o b) /\ (q \o b)[i] = q[i]
         /\ \A i \in DOMAIN b : Len(q) + i \in DOMAIN (q \o b) /\ (q \o b)[Len(q) + i] = b[i]
         /\ \A i \in DOMAIN (q \o b) :
              i \in DOMAIN q \/ (i - Len(q) \in DOMAIN b /\ i = Len(q) + (i - Len(q)))
<1>1. /\ Len(q) \in Nat /\ Len(b) \in Nat
      /\ DOMAIN q = 1 .. Len(q) /\ DOMAIN b = 1 .. Len(b)
  BY LenProperties
<1>2. /\ q \o b \in Seq(S) /\ Len(q \o b) = Len(q) + Len(b)
      /\ \A i \in 1 .. Len(q) : (q \o b)[i] = q[i]
      /\ \A i \in 1 .. Len(b) : (q \o b)[Len(q) + i] = b[i]
  BY <1>1
<1>3. DOMAIN (q \o b) = 1 .. Len(q) + Len(b)
  BY <1>2, LenProperties
<1> QED
  BY <1>1, <1>2, <1>3

\* What is left of a loop after its first closure.
LEMMA Popped ==
  ASSUME NEW S, NEW q \in Seq(S), q # <<>>
  PROVE  /\ Tail(q) \in Seq(S) /\ Len(q) \in Nat /\ Len(Tail(q)) = Len(q) - 1
         /\ DOMAIN q = 1 .. Len(q) /\ 1 \in DOMAIN q /\ q[1] = Head(q) /\ q[1] \in S
         /\ DOMAIN Tail(q) = 1 .. Len(q) - 1
         /\ \A i \in DOMAIN Tail(q) : i + 1 \in DOMAIN q /\ Tail(q)[i] = q[i + 1]
         /\ \A i \in DOMAIN q : i = 1 \/ (i - 1 \in DOMAIN Tail(q) /\ Tail(q)[i - 1] = q[i])
<1>1. Len(q) \in Nat /\ DOMAIN q = 1 .. Len(q) /\ Len(q) # 0
  BY LenProperties, EmptySeq
<1>2. /\ Tail(q) \in Seq(S) /\ Len(Tail(q)) = Len(q) - 1
      /\ \A i \in 1 .. Len(Tail(q)) : Tail(q)[i] = q[i + 1]
      /\ Head(q) \in S /\ Head(q) = q[1]
  BY <1>1, HeadTailProperties
<1>3. DOMAIN Tail(q) = 1 .. Len(q) - 1
  BY <1>2, LenProperties
<1> QED
  BY <1>1, <1>2, <1>3

(* The members of a selection, in order.                                   *)
LEMMA PickedFacts ==
  ASSUME NEW S, NEW s \in Seq(S), NEW P \in SUBSET DOMAIN s
  PROVE  /\ Cardinality(P) \in Nat /\ Picked(s, P) \in Seq(S)
         /\ Len(Picked(s, P)) = Cardinality(P) /\ DOMAIN Picked(s, P) = 1 .. Cardinality(P)
         /\ \A n \in 1 .. Cardinality(P) :
              Nth(P, n) \in P /\ Picked(s, P)[n] = s[Nth(P, n)]
         /\ \A m, n \in 1 .. Cardinality(P) : m < n => Nth(P, m) < Nth(P, n)
         /\ \A p \in P : \E n \in 1 .. Cardinality(P) : Nth(P, n) = p
<1> DEFINE k == Cardinality(P)
<1>1. DOMAIN s = 1 .. Len(s) /\ Len(s) \in Nat
  BY LenProperties
<1>2. IsFiniteSet(DOMAIN s)
  BY <1>1, FS_Interval
<1>3. IsFiniteSet(P) /\ k \in Nat
  BY <1>2, FS_Subset, FS_CardinalityType
<1>4. ASSUME NEW p \in P
      PROVE  Before(P, p) \in 0 .. k - 1
  <2> DEFINE B == {q \in P : q < p}
  <2>1. B \in SUBSET P /\ p \in P \ B
    BY <1>1
  <2>2. Cardinality(B) <= k /\ IsFiniteSet(B)
    BY <1>3, <2>1, FS_Subset
  <2>3. Cardinality(B) # k
    BY <1>3, <2>1, FS_Subset
  <2>4. Cardinality(B) \in Nat
    BY <2>2, FS_CardinalityType
  <2> HIDE DEF B
  <2>5. Cardinality(B) \in 0 .. k - 1
    BY <1>3, <2>2, <2>3, <2>4
  <2> QED
    BY <2>5 DEF Before, B
<1>5. ASSUME NEW p \in P, NEW r \in P, p < r
      PROVE  Before(P, p) < Before(P, r)
  <2> DEFINE B == {q \in P : q < p}
             C == {q \in P : q < r}
  <2>1. B \in SUBSET C /\ p \in C \ B
    BY <1>1, <1>5
  <2>2. C \in SUBSET P
    OBVIOUS
  <2>3. IsFiniteSet(C)
    BY <1>3, <2>2, FS_Subset
  <2>4. Cardinality(B) <= Cardinality(C) /\ Cardinality(B) # Cardinality(C) /\ IsFiniteSet(B)
    BY <2>1, <2>3, FS_Subset
  <2>5. Cardinality(B) \in Nat /\ Cardinality(C) \in Nat
    BY <2>3, <2>4, FS_CardinalityType
  <2> HIDE DEF B, C
  <2>6. Cardinality(B) < Cardinality(C)
    BY <2>4, <2>5
  <2> QED
    BY <2>6 DEF Before, B, C
<1> DEFINE f == [p \in P |-> Before(P, p) + 1]
<1>6. f \in Injection(P, 1 .. k)
  <2>1. f \in [P -> 1 .. k]
    BY <1>3, <1>4
  <2>2. ASSUME NEW p \in P, NEW r \in P, f[p] = f[r]
        PROVE  p = r
    <3>1. Before(P, p) = Before(P, r)
      BY <2>2, <1>4, <1>3
    <3>2. p \in Nat /\ r \in Nat
      BY <1>1
    <3>3. ~(p < r) /\ ~(r < p)
      BY <3>1, <1>4, <1>5, <1>3
    <3> QED
      BY <3>2, <3>3
  <2> QED
    BY <2>1, <2>2 DEF Injection, IsInjective
<1>7. f \in Surjection(P, 1 .. k)
  <2>1. IsFiniteSet(1 .. k) /\ Cardinality(1 .. k) = k
    <3>1. 1 \in Int /\ k \in Int
      BY <1>3
    <3>2. /\ IsFiniteSet(1 .. k) /\ Cardinality(1 .. k) = IF 1 > k THEN 0 ELSE k - 1 + 1
      BY <3>1, FS_Interval
    <3> QED
      BY <3>2, <1>3
  <2> HIDE DEF f
  <2> QED
    BY <1>6, <2>1, FS_Injection
<1>8. ASSUME NEW n \in 1 .. k
      PROVE  Nth(P, n) \in P /\ Before(P, Nth(P, n)) = n - 1
  <2>1. PICK p \in P : f[p] = n
    BY <1>7 DEF Surjection
  <2>2. Before(P, p) = n - 1
    BY <2>1, <1>4, <1>3
  <2> QED
    BY <2>2 DEF Nth
<1>9. \A p \in P : Before(P, p) + 1 \in 1 .. k /\ Nth(P, Before(P, p) + 1) = p
  <2> SUFFICES ASSUME NEW p \in P
               PROVE  Before(P, p) + 1 \in 1 .. k /\ Nth(P, Before(P, p) + 1) = p
    OBVIOUS
  <2> DEFINE n == Before(P, p) + 1
             r == Nth(P, n)
  <2>1. n \in 1 .. k /\ Before(P, p) = n - 1
    BY <1>3, <1>4
  <2>2. r \in P /\ Before(P, r) = n - 1
    BY <2>1, <1>8
  <2>3. p \in Nat /\ r \in Nat
    BY <1>1, <2>2
  <2>4. ~(p < r) /\ ~(r < p)
    BY <2>1, <2>2, <1>4, <1>5
  <2> QED
    BY <2>1, <2>3, <2>4
<1>10. ASSUME NEW m \in 1 .. k, NEW n \in 1 .. k, m < n
       PROVE  Nth(P, m) < Nth(P, n)
  <2> DEFINE p == Nth(P, m)
             r == Nth(P, n)
  <2>1. p \in P /\ r \in P /\ Before(P, p) = m - 1 /\ Before(P, r) = n - 1
    BY <1>8
  <2>2. p \in Nat /\ r \in Nat
    BY <1>1, <2>1
  <2>3. p # r
    BY <2>1, <1>10
  <2>4. ~(r < p)
    BY <2>1, <1>5, <1>10
  <2> QED
    BY <2>2, <2>3, <2>4
<1>11. Picked(s, P) = [n \in 1 .. k |-> s[Nth(P, n)]]
  BY DEF Picked
<1>12. \A n \in 1 .. k : s[Nth(P, n)] \in S
  BY <1>1, <1>8, ElementOfSeq
<1> HIDE DEF k, f
<1>13. Picked(s, P) \in Seq(S) /\ Len(Picked(s, P)) = k /\ DOMAIN Picked(s, P) = 1 .. k
  BY <1>3, <1>11, <1>12
<1>14. \A n \in 1 .. k : Nth(P, n) \in P /\ Picked(s, P)[n] = s[Nth(P, n)]
  BY <1>8, <1>11
<1>15. \A m, n \in 1 .. k : m < n => Nth(P, m) < Nth(P, n)
  BY <1>10
<1>16. \A p \in P : \E n \in 1 .. k : Nth(P, n) = p
  BY <1>9
<1> QED
  BY <1>3, <1>13, <1>14, <1>15, <1>16 DEF k

-----------------------------------------------------------------------------
\* A selection of a sequence has its members, in its order, each once.
LEMMA PickedOrder ==
  ASSUME NEW S, NEW s \in Seq(S), NEW P \in SUBSET DOMAIN s
  PROVE  /\ Picked(s, P) \in Seq(S) /\ Cardinality(P) \in Nat
         /\ DOMAIN Picked(s, P) = 1 .. Cardinality(P)
         /\ \A i \in DOMAIN Picked(s, P) : \E k \in P : Picked(s, P)[i] = s[k]
         /\ \A k \in P : \E i \in DOMAIN Picked(s, P) : Picked(s, P)[i] = s[k]
         /\ \A i, j \in DOMAIN Picked(s, P) : i < j =>
              \E k, l \in P : k < l /\ s[k] = Picked(s, P)[i] /\ s[l] = Picked(s, P)[j]
         /\ \A k, l \in P : k < l =>
              \E i, j \in DOMAIN Picked(s, P) :
                i < j /\ Picked(s, P)[i] = s[k] /\ Picked(s, P)[j] = s[l]
         /\ IsInjective(s) => IsInjective(Picked(s, P))
<1> DEFINE k == Cardinality(P)
           g == Picked(s, P)
<1>1. /\ k \in Nat /\ g \in Seq(S) /\ DOMAIN g = 1 .. k
      /\ \A n \in 1 .. k : Nth(P, n) \in P /\ g[n] = s[Nth(P, n)]
      /\ \A m, n \in 1 .. k : m < n => Nth(P, m) < Nth(P, n)
      /\ \A p \in P : \E n \in 1 .. k : Nth(P, n) = p
  BY PickedFacts
<1>2. DOMAIN s \subseteq Nat
  BY LenProperties
<1> HIDE DEF k, g
<1>3. \A i \in DOMAIN g : \E p \in P : g[i] = s[p]
  BY <1>1
<1>4. \A p \in P : \E i \in DOMAIN g : g[i] = s[p]
  BY <1>1
<1>5. \A i, j \in DOMAIN g : i < j =>
        \E p, r \in P : p < r /\ s[p] = g[i] /\ s[r] = g[j]
  BY <1>1
<1>6. ASSUME NEW p \in P, NEW r \in P, p < r
      PROVE  \E i, j \in DOMAIN g : i < j /\ g[i] = s[p] /\ g[j] = s[r]
  <2>1. PICK i \in 1 .. k : Nth(P, i) = p
    BY <1>1
  <2>2. PICK j \in 1 .. k : Nth(P, j) = r
    BY <1>1
  <2>3. p \in Nat /\ r \in Nat
    BY <1>2
  <2>4. ~(j < i) /\ i # j
    BY <1>1, <1>6, <2>1, <2>2, <2>3
  <2>5. i < j
    BY <2>4, <1>1
  <2> QED
    BY <1>1, <2>1, <2>2, <2>5
<1>7. ASSUME IsInjective(s)
      PROVE  IsInjective(g)
  <2> SUFFICES ASSUME NEW i \in DOMAIN g, NEW j \in DOMAIN g, g[i] = g[j]
               PROVE  i = j
    BY DEF IsInjective
  <2>1. Nth(P, i) = Nth(P, j)
    BY <1>1, <1>7 DEF IsInjective
  <2>2. Nth(P, i) \in Nat /\ ~(i < j) /\ ~(j < i)
    BY <1>1, <1>2, <2>1
  <2> QED
    BY <1>1, <2>2
<1> QED
  BY <1>1, <1>3, <1>4, <1>5, <1>6, <1>7 DEF k, g

\* A list without an item keeps the others, in order.
LEMMA WithoutFacts ==
  ASSUME NEW S, NEW s \in Seq(S), NEW x
  PROVE  /\ Without(s, x) \in Seq(S)
         /\ IsInjective(s) => IsInjective(Without(s, x))
         /\ Range(Without(s, x)) = Range(s) \ {x}
         /\ \A i, j \in DOMAIN Without(s, x) : i < j =>
              \E k, l \in DOMAIN s : k < l /\ s[k] = Without(s, x)[i] /\ s[l] = Without(s, x)[j]
         /\ \A k, l \in DOMAIN s : k < l /\ s[k] # x /\ s[l] # x =>
              \E i, j \in DOMAIN Without(s, x) :
                i < j /\ Without(s, x)[i] = s[k] /\ Without(s, x)[j] = s[l]
<1> DEFINE P == {i \in DOMAIN s : s[i] # x}
           w == Picked(s, P)
<1>1. P \in SUBSET DOMAIN s
  OBVIOUS
<1>2. /\ w \in Seq(S)
      /\ \A i \in DOMAIN w : \E k \in P : w[i] = s[k]
      /\ \A k \in P : \E i \in DOMAIN w : w[i] = s[k]
      /\ \A i, j \in DOMAIN w : i < j => \E k, l \in P : k < l /\ s[k] = w[i] /\ s[l] = w[j]
      /\ \A k, l \in P : k < l => \E i, j \in DOMAIN w : i < j /\ w[i] = s[k] /\ w[j] = s[l]
      /\ IsInjective(s) => IsInjective(w)
  <2> HIDE DEF P
  <2> QED
    BY <1>1, PickedOrder
<1>3. w = Without(s, x)
  BY DEF Without
<1> HIDE DEF w
<1>4. Range(w) = Range(s) \ {x}
  BY <1>2 DEF Range
<1> QED
  BY <1>2, <1>3, <1>4

\* The closures a call's change of state posts: one for each CallCore it has.
LEMMA EventsFacts ==
  ASSUME listening \subseteq Cores, NEW c \in Calls, NEW s \in States
  PROVE  LET e == Events(c, s) IN
         /\ e \in Seq(Closures)
         /\ \A i \in DOMAIN e : /\ e[i].do = "setState" /\ e[i].state = s
                                /\ e[i].core \in listening /\ e[i].core[1] = c
         /\ \A x \in listening : x[1] = c => \E i \in DOMAIN e : e[i].core = x
         /\ \A i, j \in DOMAIN e : i < j => e[i].core[2] < e[j].core[2]
<1> DEFINE all == [n \in 1 .. MaxRestarts + 2 |-> SetState(<<c, n - 1>>, s)]
           P == {n \in DOMAIN all : <<c, n - 1>> \in listening}
           e == Picked(all, P)
<1>1. MaxRestarts \in Nat
  BY CallListAssumption
<1>2. \A n \in 1 .. MaxRestarts + 2 : <<c, n - 1>> \in Cores
  BY <1>1 DEF Cores, Made
<1>3. \A n \in 1 .. MaxRestarts + 2 : all[n] \in Closures
  BY <1>2 DEF SetState, Closures
<1>4. all \in Seq(Closures) /\ DOMAIN all = 1 .. MaxRestarts + 2
  BY <1>1, <1>3
<1>5. \A n \in DOMAIN all : /\ all[n].do = "setState" /\ all[n].state = s
                            /\ all[n].core = <<c, n - 1>>
  BY <1>4 DEF SetState
<1> HIDE DEF all
<1>6. /\ e \in Seq(Closures) /\ Cardinality(P) \in Nat /\ DOMAIN e = 1 .. Cardinality(P)
      /\ \A i \in DOMAIN e : \E k \in P : e[i] = all[k]
      /\ \A k \in P : \E i \in DOMAIN e : e[i] = all[k]
      /\ \A i, j \in DOMAIN e : i < j => \E k, l \in P : k < l /\ all[k] = e[i] /\ all[l] = e[j]
  <2>1. P \in SUBSET DOMAIN all /\ all \in Seq(Closures)
    BY <1>4
  <2> HIDE DEF P
  <2> QED
    BY <2>1, PickedOrder
<1>7. e = Events(c, s)
  BY DEF Events, all
<1> HIDE DEF e
<1>8. \A i \in DOMAIN e : /\ e[i].do = "setState" /\ e[i].state = s
                          /\ e[i].core \in listening /\ e[i].core[1] = c
  <2> SUFFICES ASSUME NEW i \in DOMAIN e
               PROVE  /\ e[i].do = "setState" /\ e[i].state = s
                      /\ e[i].core \in listening /\ e[i].core[1] = c
    OBVIOUS
  <2>1. PICK k \in P : e[i] = all[k]
    BY <1>6
  <2>2. /\ all[k].do = "setState" /\ all[k].state = s
        /\ all[k].core = <<c, k - 1>>
    BY <1>5
  <2> QED
    BY <2>1, <2>2
<1>9. ASSUME NEW x \in listening, x[1] = c
      PROVE  \E i \in DOMAIN e : e[i].core = x
  <2>1. x \in Cores
    OBVIOUS
  <2>2. x = <<c, x[2]>> /\ x[2] \in 0 .. MaxRestarts + 1
    BY <2>1, <1>9 DEF Cores, Made
  <2> DEFINE n == x[2] + 1
  <2>3. n \in DOMAIN all /\ n - 1 = x[2]
    BY <2>2, <1>4, <1>1
  <2>4. n \in P
    BY <2>2, <2>3
  <2>5. all[n].core = x
    BY <2>2, <2>3, <1>5
  <2> QED
    BY <2>4, <2>5, <1>6
<1>10. \A i, j \in DOMAIN e : i < j => e[i].core[2] < e[j].core[2]
  <2> SUFFICES ASSUME NEW i \in DOMAIN e, NEW j \in DOMAIN e, i < j
               PROVE  e[i].core[2] < e[j].core[2]
    OBVIOUS
  <2>1. PICK k \in P, l \in P : k < l /\ all[k] = e[i] /\ all[l] = e[j]
    BY <1>6
  <2>2. e[i].core = <<c, k - 1>> /\ e[j].core = <<c, l - 1>>
    BY <2>1, <1>5
  <2>3. k \in Nat /\ l \in Nat
    BY <1>4, <1>1
  <2> QED
    BY <2>1, <2>2, <2>3
<1> QED
  BY <1>6, <1>7, <1>8, <1>9, <1>10

\* What a loop holds after a closure is posted, or several that are not what.
LEMMA Holding ==
  ASSUME NEW S, NEW q \in Seq(S), NEW b \in Seq(S), NEW what
  PROVE  /\ Has(q \o b, what) <=> Has(q, what) \/ Has(b, what)
         /\ Once(q, what) /\ ~Has(b, what) => Once(q \o b, what)
         /\ \A other : InTurn(q, what, other) /\ ~Has(b, what) => InTurn(q \o b, what, other)
<1> DEFINE t == q \o b
<1>1. /\ Len(q) \in Nat /\ Len(b) \in Nat
      /\ DOMAIN q = 1 .. Len(q) /\ DOMAIN b = 1 .. Len(b) /\ DOMAIN t = 1 .. Len(q) + Len(b)
      /\ \A i \in DOMAIN q : i \in DOMAIN t /\ t[i] = q[i]
      /\ \A i \in DOMAIN b : Len(q) + i \in DOMAIN t /\ t[Len(q) + i] = b[i]
      /\ \A i \in DOMAIN t : i \in DOMAIN q \/ (i - Len(q) \in DOMAIN b /\ i = Len(q) + (i - Len(q)))
  BY Joined
<1> HIDE DEF t
<1>2. Has(t, what) <=> Has(q, what) \/ Has(b, what)
  BY <1>1 DEF Has
<1>3. ASSUME ~Has(b, what)
      PROVE  \A i \in DOMAIN t : t[i].do = what => i \in DOMAIN q /\ q[i].do = what
  BY <1>1, <1>3 DEF Has
<1>4. Once(q, what) /\ ~Has(b, what) => Once(t, what)
  BY <1>3 DEF Once
<1>5. ASSUME NEW other, InTurn(q, what, other), ~Has(b, what)
      PROVE  InTurn(t, what, other)
  <2> SUFFICES ASSUME NEW i \in DOMAIN t, NEW j \in DOMAIN t, t[i].do = what, t[j].do = other
               PROVE  i < j
    BY DEF InTurn
  <2>1. i \in DOMAIN q /\ q[i].do = what
    BY <1>3, <1>5
  <2>2. CASE j \in DOMAIN q
    BY <2>1, <2>2, <1>1, <1>5 DEF InTurn
  <2>3. CASE j \notin DOMAIN q
    BY <2>1, <2>3, <1>1
  <2> QED
    BY <2>2, <2>3
<1> QED
  BY <1>2, <1>4, <1>5 DEF t

\* ... after one closure is posted.
LEMMA HoldingOne ==
  ASSUME NEW S, NEW q \in Seq(S), NEW f \in S, NEW what
  PROVE  /\ Append(q, f) = q \o <<f>> /\ <<f>> \in Seq(S)
         /\ Has(Append(q, f), what) <=> Has(q, what) \/ f.do = what
         /\ Once(q, what) /\ (f.do = what => ~Has(q, what)) => Once(Append(q, f), what)
         /\ \A other : /\ InTurn(q, what, other) /\ what # other
                       /\ f.do = what => ~Has(q, other)
                       => InTurn(Append(q, f), what, other)
<1> DEFINE t == Append(q, f)
<1>1. /\ Len(q) \in Nat /\ DOMAIN q = 1 .. Len(q) /\ DOMAIN t = 1 .. Len(q) + 1
      /\ \A i \in DOMAIN q : i \in DOMAIN t /\ t[i] = q[i]
      /\ Len(q) + 1 \in DOMAIN t /\ t[Len(q) + 1] = f
      /\ \A i \in DOMAIN t : i \in DOMAIN q \/ i = Len(q) + 1
  BY AppendProperties, LenProperties
<1>2. t = q \o <<f>> /\ <<f>> \in Seq(S)
  BY AppendIsConcat
<1> HIDE DEF t
<1>3. Has(t, what) <=> Has(q, what) \/ f.do = what
  BY <1>1 DEF Has
<1>4. ASSUME Once(q, what), f.do = what => ~Has(q, what)
      PROVE  Once(t, what)
  BY <1>1, <1>4 DEF Once, Has
<1>5. ASSUME NEW other, InTurn(q, what, other), what # other, f.do = what => ~Has(q, other)
      PROVE  InTurn(t, what, other)
  BY <1>1, <1>5 DEF InTurn, Has
<1> QED
  BY <1>2, <1>3, <1>4, <1>5 DEF t

\* ... after the first has run.
LEMMA HoldingRest ==
  ASSUME NEW S, NEW q \in Seq(S), q # <<>>, NEW what
  PROVE  /\ Has(q, what) <=> Head(q).do = what \/ Has(Tail(q), what)
         /\ Once(q, what) => Once(Tail(q), what) /\ (Head(q).do = what => ~Has(Tail(q), what))
         /\ \A other : InTurn(q, what, other) =>
              InTurn(Tail(q), what, other) /\ (Head(q).do = other => ~Has(q, what))
<1> DEFINE t == Tail(q)
<1>1. /\ Len(q) \in Nat /\ DOMAIN q = 1 .. Len(q) /\ 1 \in DOMAIN q /\ q[1] = Head(q)
      /\ DOMAIN t = 1 .. Len(q) - 1
      /\ \A i \in DOMAIN t : i + 1 \in DOMAIN q /\ t[i] = q[i + 1]
      /\ \A i \in DOMAIN q : i = 1 \/ (i - 1 \in DOMAIN t /\ t[i - 1] = q[i])
  BY Popped
<1> HIDE DEF t
<1>2. Has(q, what) <=> Head(q).do = what \/ Has(t, what)
  BY <1>1 DEF Has
<1>3. ASSUME Once(q, what)
      PROVE  Once(t, what) /\ (Head(q).do = what => ~Has(t, what))
  BY <1>1, <1>3 DEF Once, Has
<1>4. ASSUME NEW other, InTurn(q, what, other)
      PROVE  InTurn(t, what, other) /\ (Head(q).do = other => ~Has(q, what))
  BY <1>1, <1>4 DEF InTurn, Has
<1> QED
  BY <1>2, <1>3, <1>4 DEF t

-----------------------------------------------------------------------------
(* A change of the states of some calls, and the closures that tell of it.  *)
Speaks(b) ==
  /\ b \in Seq(Closures) /\ uiLoop' = uiLoop \o b
  /\ \A i \in DOMAIN b : b[i].do \in {"setState", "lastCallEnded"}
  /\ \A i \in DOMAIN b : b[i].do = "setState" =>
       /\ b[i].core \in listening
       /\ state'[b[i].core[1]] = b[i].state /\ state[b[i].core[1]] # b[i].state
  /\ \A x \in listening : state'[x[1]] # state[x[1]] => \E i \in DOMAIN b : IsEvent(b[i], x)
  /\ \A i, j \in DOMAIN b :
       /\ i < j /\ b[i].do = "setState" /\ b[j].do = "setState"
       /\ b[i].core[1] = b[j].core[1]
       => b[i].core[2] < b[j].core[2]
  /\ \A c \in Calls : \A i \in DOMAIN b :
       state'[c] \in Active /\ Moves(b[i]) => b[i].do = "setState" /\ b[i].core[1] = c

Changes ==
  /\ state' \in [Calls -> States]
  /\ \A c \in Calls : state'[c] # state[c] =>
       /\ state[c] \in Live \cup {"ended"} /\ state'[c] # "none"
       /\ state'[c] \in Live \cup {"ended"} => state[c] \in Live
       /\ state'[c] = "released" => state[c] = "ended"
  /\ calls' \in Seq(Calls) /\ IsInjective(calls')
  /\ \A c \in Calls : c \in Range(calls') <=> state'[c] \in Live \cup {"ended"}
  /\ \A c, d \in Calls : Older(c, d) /\ state'[c] \in Live /\ state'[d] \in Live => Older(c, d)'
  /\ \A c, d \in Calls : state'[c] \in Active /\ state'[d] \in Active => c = d
  /\ UNCHANGED <<core, listening, updates, restarts, ui>>

\* The events of one call.
LEMMA EventsSpeak ==
  ASSUME Types, NEW c \in Calls, NEW s \in States, s # state[c],
         state' = [state EXCEPT ![c] = s], uiLoop' = uiLoop \o Events(c, s),
         \A d \in Calls : state'[d] \in Active /\ s \in Active => d = c
  PROVE  Speaks(Events(c, s))
<1> DEFINE e == Events(c, s)
<1>1. /\ e \in Seq(Closures)
      /\ \A i \in DOMAIN e : /\ e[i].do = "setState" /\ e[i].state = s
                             /\ e[i].core \in listening /\ e[i].core[1] = c
      /\ \A x \in listening : x[1] = c => \E i \in DOMAIN e : e[i].core = x
      /\ \A i, j \in DOMAIN e : i < j => e[i].core[2] < e[j].core[2]
  BY EventsFacts DEF Types
<1>2. uiLoop' = uiLoop \o e
  OBVIOUS
<1> HIDE DEF e
<1>3. state \in [Calls -> States] /\ listening \subseteq Cores
  BY DEF Types
<1>4. state'[c] = s /\ \A d \in Calls \ {c} : state'[d] = state[d]
  BY <1>3
<1>5. \A x \in Cores : x[1] \in Calls
  BY DEF Cores
<1>6. \A i \in DOMAIN e : e[i].do = "setState" =>
        /\ e[i].core \in listening
        /\ state'[e[i].core[1]] = e[i].state /\ state[e[i].core[1]] # e[i].state
  BY <1>1, <1>4
<1>7. \A x \in listening : state'[x[1]] # state[x[1]] => \E i \in DOMAIN e : IsEvent(e[i], x)
  BY <1>1, <1>3, <1>4, <1>5 DEF IsEvent
<1>8. \A d \in Calls : \A i \in DOMAIN e :
        state'[d] \in Active /\ Moves(e[i]) => e[i].do = "setState" /\ e[i].core[1] = d
  BY <1>1 DEF Moves
<1>9. Speaks(e)
  BY <1>1, <1>2, <1>6, <1>7, <1>8 DEF Speaks
<1> QED
  BY <1>9 DEF e

\* A change of state between those of known calls keeps the calls.
LEMMA SameCalls ==
  ASSUME Types, CallsKnown, calls' = calls, state' \in [Calls -> States],
         \A c \in Calls : state'[c] \in Live \cup {"ended"} <=> state[c] \in Live \cup {"ended"}
  PROVE  /\ calls' \in Seq(Calls) /\ IsInjective(calls')
         /\ \A c \in Calls : c \in Range(calls') <=> state'[c] \in Live \cup {"ended"}
         /\ \A c, d \in Calls : Older(c, d) => Older(c, d)'
BY DEF Types, CallsKnown, Older, Follow

\* Change(c, s) tells of c and of the call that loses the sound devices.
LEMMA ChangeTells ==
  ASSUME Types, CallsKnown, OneActive, NEW c \in Calls, NEW s \in States,
         <<state[c], s>> \in Follows, Change(c, s)
  PROVE  Changes /\ \E b \in Seq(Closures) : Speaks(b)
<1>1. /\ state \in [Calls -> States] /\ listening \subseteq Cores /\ uiLoop \in Seq(Closures)
      /\ \A x \in Cores : x[1] \in Calls
  BY DEF Types, Cores
<1>2. s # state[c] /\ state[c] \in Live /\ s \in Live
  BY DEF Follows, Live
<1>3. UNCHANGED <<core, calls, listening, updates, restarts, ui>>
  BY DEF Change
<1>4. Active \subseteq Live /\ Live \subseteq States /\ "paused" \in Live \ Active /\ "none" \notin Live
      /\ "ended" \notin Live /\ "released" \notin Live
  BY DEF Active, Live, States
<1> DEFINE taken == s \in Active /\ state[c] \notin Active /\ Others(c, Active) # {}
<1>5. CASE /\ ~taken
           /\ state' = [state EXCEPT ![c] = s]
           /\ uiLoop' = uiLoop \o Events(c, s)
  <2>1. state' \in [Calls -> States] /\ state'[c] = s /\ \A d \in Calls \ {c} : state'[d] = state[d]
    BY <1>1, <1>5
  <2>2. \A d \in Calls : state'[d] \in Active /\ s \in Active => d = c
    BY <2>1, <1>5, <1>2 DEF OneActive, Others
  <2>3. Speaks(Events(c, s))
    BY <1>2, <1>5, <2>2, EventsSpeak
  <2>4. \A d, e \in Calls : state'[d] \in Active /\ state'[e] \in Active => d = e
    BY <2>1, <2>2 DEF OneActive
  <2>5. \A d \in Calls : state'[d] # state[d] => state[d] \in Live /\ state'[d] \in Live
    BY <2>1, <1>2
  <2>6. /\ calls' \in Seq(Calls) /\ IsInjective(calls')
        /\ \A d \in Calls : d \in Range(calls') <=> state'[d] \in Live \cup {"ended"}
        /\ \A d, e \in Calls : Older(d, e) => Older(d, e)'
    <3>1. \A d \in Calls : state'[d] \in Live \cup {"ended"} <=> state[d] \in Live \cup {"ended"}
      BY <2>5
    <3>2. calls' = calls
      BY <1>3
    <3> QED
      BY <2>1, <3>1, <3>2, SameCalls
  <2>7. Changes
    BY <1>3, <1>4, <2>1, <2>4, <2>5, <2>6 DEF Changes
  <2> QED
    BY <2>3, <2>7 DEF Speaks
<1>6. ASSUME NEW d \in Others(c, Active), taken, state[d] = "running",
             state' = [state EXCEPT ![c] = s, ![d] = "paused"],
             uiLoop' = uiLoop \o Events(d, "paused") \o Events(c, s)
      PROVE  Changes /\ \E b \in Seq(Closures) : Speaks(b)
  <2> DEFINE f == Events(d, "paused")
             g == Events(c, s)
             b == f \o g
  <2>1. d \in Calls /\ d # c /\ state[d] \in Active
    BY <1>6 DEF Others
  <2>2. /\ state' \in [Calls -> States] /\ state'[c] = s /\ state'[d] = "paused"
        /\ \A e \in Calls \ {c, d} : state'[e] = state[e]
    BY <1>1, <1>6, <2>1, <1>4
  <2>3. \A e \in Calls : state'[e] \in Active => e = c
    BY <2>1, <2>2, <1>4 DEF OneActive
  <2>4. \A e \in Calls : state'[e] # state[e] => state[e] \in Live /\ state'[e] \in Live
    BY <2>1, <2>2, <1>2, <1>4
  <2>5. /\ calls' \in Seq(Calls) /\ IsInjective(calls')
        /\ \A e \in Calls : e \in Range(calls') <=> state'[e] \in Live \cup {"ended"}
        /\ \A e, h \in Calls : Older(e, h) => Older(e, h)'
    <3>1. \A e \in Calls : state'[e] \in Live \cup {"ended"} <=> state[e] \in Live \cup {"ended"}
      BY <2>4
    <3>2. calls' = calls
      BY <1>3
    <3> QED
      BY <2>2, <3>1, <3>2, SameCalls
  <2>6. Changes
    BY <1>3, <1>4, <2>2, <2>3, <2>4, <2>5 DEF Changes
  <2>7. /\ f \in Seq(Closures)
        /\ \A i \in DOMAIN f : /\ f[i].do = "setState" /\ f[i].state = "paused"
                               /\ f[i].core \in listening /\ f[i].core[1] = d
        /\ \A x \in listening : x[1] = d => \E i \in DOMAIN f : f[i].core = x
        /\ \A i, j \in DOMAIN f : i < j => f[i].core[2] < f[j].core[2]
    <3>1. "paused" \in States
      BY <1>4
    <3> QED
      BY <1>1, <2>1, <3>1, EventsFacts
  <2>8. /\ g \in Seq(Closures)
        /\ \A i \in DOMAIN g : /\ g[i].do = "setState" /\ g[i].state = s
                               /\ g[i].core \in listening /\ g[i].core[1] = c
        /\ \A x \in listening : x[1] = c => \E i \in DOMAIN g : g[i].core = x
        /\ \A i, j \in DOMAIN g : i < j => g[i].core[2] < g[j].core[2]
    BY <1>1, EventsFacts
  <2>9. uiLoop' = (uiLoop \o f) \o g
    BY <1>6
  <2> HIDE DEF f, g
  <2>10. /\ b \in Seq(Closures) /\ Len(f) \in Nat /\ DOMAIN f = 1 .. Len(f)
         /\ DOMAIN b = 1 .. Len(f) + Len(g) /\ Len(g) \in Nat
         /\ \A i \in DOMAIN f : i \in DOMAIN b /\ b[i] = f[i]
         /\ \A i \in DOMAIN g : Len(f) + i \in DOMAIN b /\ b[Len(f) + i] = g[i]
         /\ \A i \in DOMAIN b : i \in DOMAIN f \/ (i - Len(f) \in DOMAIN g /\ i = Len(f) + (i - Len(f)))
    BY <2>7, <2>8, Joined
  <2>11. uiLoop' = uiLoop \o b
    BY <2>7, <2>8, <2>9, <1>1, ConcatAssociative
  <2> HIDE DEF b
  <2>12. \A i \in DOMAIN b : \/ i \in DOMAIN f /\ b[i] = f[i]
                             \/ i - Len(f) \in DOMAIN g /\ b[i] = g[i - Len(f)] /\ i \notin DOMAIN f
    <3> SUFFICES ASSUME NEW i \in DOMAIN b
                 PROVE  \/ i \in DOMAIN f /\ b[i] = f[i]
                        \/ i - Len(f) \in DOMAIN g /\ b[i] = g[i - Len(f)] /\ i \notin DOMAIN f
      OBVIOUS
    <3>1. CASE i \in DOMAIN f
      BY <3>1, <2>10
    <3>2. CASE i \notin DOMAIN f
      <4>1. i - Len(f) \in DOMAIN g /\ i = Len(f) + (i - Len(f))
        BY <3>2, <2>10
      <4> QED
        BY <4>1, <3>2, <2>10
    <3> QED
      BY <3>1, <3>2
  <2>13. \A i \in DOMAIN b : /\ b[i].do = "setState" /\ b[i].core \in listening
                             /\ \/ b[i].core[1] = d /\ b[i].state = "paused"
                                \/ b[i].core[1] = c /\ b[i].state = s
    BY <2>12, <2>7, <2>8
  <2>14. \A i \in DOMAIN b : b[i].do = "setState" =>
           /\ b[i].core \in listening
           /\ state'[b[i].core[1]] = b[i].state /\ state[b[i].core[1]] # b[i].state
    BY <2>13, <2>1, <2>2, <1>2, <1>6
  <2>15. ASSUME NEW x \in listening, state'[x[1]] # state[x[1]]
         PROVE  \E i \in DOMAIN b : IsEvent(b[i], x)
    <3>1. x[1] = c \/ x[1] = d
      BY <2>15, <2>2, <1>1
    <3>2. CASE x[1] = c
      <4>1. PICK i \in DOMAIN g : g[i].core = x
        BY <3>2, <2>8
      <4> QED
        BY <4>1, <2>8, <2>10 DEF IsEvent
    <3>3. CASE x[1] = d
      <4>1. PICK i \in DOMAIN f : f[i].core = x
        BY <3>3, <2>7
      <4> QED
        BY <4>1, <2>7, <2>10 DEF IsEvent
    <3> QED
      BY <3>1, <3>2, <3>3
  <2>16. ASSUME NEW i \in DOMAIN b, NEW j \in DOMAIN b, i < j, b[i].core[1] = b[j].core[1]
         PROVE  b[i].core[2] < b[j].core[2]
    <3>1. CASE b[i].core[1] = d
      <4>1. i \in DOMAIN f /\ b[i] = f[i] /\ j \in DOMAIN f /\ b[j] = f[j]
        BY <2>12, <2>8, <3>1, <2>16, <2>1
      <4> QED
        BY <4>1, <2>7, <2>16
    <3>2. CASE b[i].core[1] = c
      <4>1. /\ i - Len(f) \in DOMAIN g /\ b[i] = g[i - Len(f)]
            /\ j - Len(f) \in DOMAIN g /\ b[j] = g[j - Len(f)]
        BY <2>12, <2>7, <3>2, <2>16, <2>1
      <4>2. i - Len(f) < j - Len(f)
        BY <2>10, <2>16
      <4> QED
        BY <4>1, <4>2, <2>8
    <3> QED
      BY <3>1, <3>2, <2>13
  <2>17. \A e \in Calls : \A i \in DOMAIN b :
           state'[e] \in Active /\ Moves(b[i]) => b[i].do = "setState" /\ b[i].core[1] = e
    BY <2>3, <2>13, <1>4 DEF Moves
  <2>18. Speaks(b)
    BY <2>10, <2>11, <2>13, <2>14, <2>15, <2>16, <2>17 DEF Speaks
  <2> QED
    BY <2>6, <2>10, <2>18
<1> QED
  BY <1>5, <1>6 DEF Change

\* So does the end of a call,
LEMMA EndTells ==
  ASSUME Types, CallsKnown, OneActive, NEW c \in Calls, CallEnds(c)
  PROVE  Changes /\ sdkLoop' = sdkLoop /\ \E b \in Seq(Closures) : Speaks(b)
<1>1. /\ state \in [Calls -> States] /\ listening \subseteq Cores /\ uiLoop \in Seq(Closures)
      /\ \A x \in Cores : x[1] \in Calls
  BY DEF Types, Cores
<1>2. /\ Active \subseteq Live /\ Live \subseteq States /\ "none" \notin Live
      /\ "ended" \in States /\ "ended" \notin Live /\ "released" \notin Live
  BY DEF Active, Live, States
<1>3. state[c] \in Live /\ UNCHANGED <<core, calls, listening, updates, restarts, sdkLoop, ui>>
  BY DEF CallEnds
<1>4. state' = [state EXCEPT ![c] = "ended"]
  BY DEF CallEnds
<1>5. /\ state' \in [Calls -> States] /\ state'[c] = "ended"
      /\ \A d \in Calls \ {c} : state'[d] = state[d]
  BY <1>1, <1>2, <1>4
<1>6. \A d \in Calls : state'[d] # state[d] => d = c
  BY <1>5
<1>7. /\ calls' \in Seq(Calls) /\ IsInjective(calls')
      /\ \A d \in Calls : d \in Range(calls') <=> state'[d] \in Live \cup {"ended"}
      /\ \A d, e \in Calls : Older(d, e) => Older(d, e)'
  <2>1. \A d \in Calls : state'[d] \in Live \cup {"ended"} <=> state[d] \in Live \cup {"ended"}
    BY <1>3, <1>5
  <2>2. calls' = calls
    BY <1>3
  <2> QED
    BY <1>5, <2>1, <2>2, SameCalls
<1>8. \A d, e \in Calls : state'[d] \in Active /\ state'[e] \in Active => d = e
  BY <1>5, <1>2 DEF OneActive
<1>9. Changes
  BY <1>2, <1>3, <1>5, <1>6, <1>7, <1>8 DEF Changes
<1> DEFINE f == Events(c, "ended")
           g == IF Others(c, Live) = {} THEN LastCallEnded ELSE <<>>
           b == f \o g
<1>10. /\ f \in Seq(Closures)
       /\ \A i \in DOMAIN f : /\ f[i].do = "setState" /\ f[i].state = "ended"
                              /\ f[i].core \in listening /\ f[i].core[1] = c
       /\ \A x \in listening : x[1] = c => \E i \in DOMAIN f : f[i].core = x
       /\ \A i, j \in DOMAIN f : i < j => f[i].core[2] < f[j].core[2]
  BY <1>1, <1>2, EventsFacts
<1>11. /\ g \in Seq(Closures) /\ \A i \in DOMAIN g : g[i].do = "lastCallEnded"
       /\ DOMAIN g # {} => Others(c, Live) = {}
  <2>1. Do("lastCallEnded") \in Closures /\ Do("lastCallEnded").do = "lastCallEnded"
    BY DEF Closures, Do
  <2>2. CASE g = <<>>
    <3> HIDE DEF g
    <3>1. g \in Seq(Closures) /\ Len(g) = 0
      BY <2>2, EmptySeq
    <3>2. DOMAIN g = {}
      BY <3>1, LenProperties
    <3> QED
      BY <3>1, <3>2
  <2>3. CASE g # <<>>
    <3>1. g = <<Do("lastCallEnded")>> /\ Others(c, Live) = {}
      BY <2>3 DEF LastCallEnded
    <3> HIDE DEF g
    <3>2. g \in Seq(Closures) /\ DOMAIN g = {1} /\ g[1] = Do("lastCallEnded")
      BY <3>1, <2>1
    <3> QED
      BY <3>1, <3>2, <2>1
  <2> QED
    BY <2>2, <2>3
<1>12. uiLoop' = (uiLoop \o f) \o g
  BY DEF CallEnds
<1> HIDE DEF f, g
<1>13. /\ b \in Seq(Closures) /\ Len(f) \in Nat /\ DOMAIN f = 1 .. Len(f)
       /\ DOMAIN b = 1 .. Len(f) + Len(g) /\ Len(g) \in Nat
       /\ \A i \in DOMAIN f : i \in DOMAIN b /\ b[i] = f[i]
       /\ \A i \in DOMAIN g : Len(f) + i \in DOMAIN b /\ b[Len(f) + i] = g[i]
       /\ \A i \in DOMAIN b : i \in DOMAIN f \/ (i - Len(f) \in DOMAIN g /\ i = Len(f) + (i - Len(f)))
  BY <1>10, <1>11, Joined
<1>14. uiLoop' = uiLoop \o b
  BY <1>10, <1>11, <1>12, <1>1, ConcatAssociative
<1> HIDE DEF b
<1>15. \A i \in DOMAIN b : \/ i \in DOMAIN f /\ b[i] = f[i]
                           \/ b[i].do = "lastCallEnded" /\ Others(c, Live) = {}
  <2> SUFFICES ASSUME NEW i \in DOMAIN b, i \notin DOMAIN f
               PROVE  b[i].do = "lastCallEnded" /\ Others(c, Live) = {}
    BY <1>13
  <2>1. i - Len(f) \in DOMAIN g /\ i = Len(f) + (i - Len(f))
    BY <1>13
  <2>2. b[i] = g[i - Len(f)]
    BY <2>1, <1>13
  <2> QED
    BY <2>1, <2>2, <1>11
<1>16. \A i \in DOMAIN b : b[i].do \in {"setState", "lastCallEnded"}
  BY <1>10, <1>15
<1>17. \A i \in DOMAIN b : b[i].do = "setState" =>
         /\ i \in DOMAIN f /\ b[i] = f[i] /\ b[i].core \in listening
         /\ state'[b[i].core[1]] = b[i].state /\ state[b[i].core[1]] # b[i].state
  BY <1>10, <1>15, <1>5, <1>3, <1>2
<1>18. ASSUME NEW x \in listening, state'[x[1]] # state[x[1]]
       PROVE  \E i \in DOMAIN b : IsEvent(b[i], x)
  <2>1. x[1] = c
    BY <1>1, <1>6, <1>18
  <2>2. PICK i \in DOMAIN f : f[i].core = x
    BY <1>10, <2>1
  <2> QED
    BY <2>2, <1>10, <1>13 DEF IsEvent
<1>19. \A i, j \in DOMAIN b :
         i < j /\ b[i].do = "setState" /\ b[j].do = "setState" => b[i].core[2] < b[j].core[2]
  BY <1>10, <1>17
<1>20. \A d \in Calls : \A i \in DOMAIN b :
         state'[d] \in Active /\ Moves(b[i]) => b[i].do = "setState" /\ b[i].core[1] = d
  <2> SUFFICES ASSUME NEW d \in Calls, NEW i \in DOMAIN b, state'[d] \in Active, Moves(b[i])
               PROVE  FALSE
    OBVIOUS
  <2>1. b[i].do # "setState"
    BY <1>10, <1>17, <1>2 DEF Moves
  <2>2. Others(c, Live) = {}
    BY <1>10, <1>15, <2>1
  <2> QED
    BY <2>2, <1>5, <1>2 DEF Others
<1>21. Speaks(b)
  BY <1>13, <1>14, <1>16, <1>17, <1>18, <1>19, <1>20 DEF Speaks
<1> QED
  BY <1>3, <1>9, <1>13, <1>21

\* and its release.
LEMMA ReleaseTells ==
  ASSUME Types, CallsKnown, OneActive, NEW c \in Calls, CallReleased(c)
  PROVE  Changes /\ sdkLoop' = sdkLoop /\ \E b \in Seq(Closures) : Speaks(b)
<1>1. /\ state \in [Calls -> States] /\ calls \in Seq(Calls) /\ IsInjective(calls)
  BY DEF Types
<1>2. /\ Active \subseteq Live /\ "none" \notin Live /\ "released" \in States
      /\ "ended" \notin Live /\ "released" \notin Live
  BY DEF Active, Live, States
<1>3. /\ state[c] = "ended" /\ UNCHANGED <<core, listening, updates, restarts, sdkLoop, ui>>
      /\ state' = [state EXCEPT ![c] = "released"] /\ calls' = Without(calls, c)
      /\ uiLoop' = uiLoop \o Events(c, "released")
  BY DEF CallReleased
<1>4. /\ state' \in [Calls -> States] /\ state'[c] = "released"
      /\ \A d \in Calls \ {c} : state'[d] = state[d]
  BY <1>1, <1>2, <1>3
<1>5. /\ calls' \in Seq(Calls) /\ IsInjective(calls') /\ Range(calls') = Range(calls) \ {c}
      /\ \A k, l \in DOMAIN calls : k < l /\ calls[k] # c /\ calls[l] # c =>
           \E i, j \in DOMAIN calls' : i < j /\ calls'[i] = calls[k] /\ calls'[j] = calls[l]
  BY <1>1, <1>3, WithoutFacts
<1>6. \A d \in Calls : d \in Range(calls') <=> state'[d] \in Live \cup {"ended"}
  BY <1>2, <1>4, <1>5 DEF CallsKnown
<1>7. ASSUME NEW d \in Calls, NEW e \in Calls, Older(d, e), state'[d] \in Live, state'[e] \in Live
      PROVE  Older(d, e)'
  <2>1. d # c /\ e # c
    BY <1>2, <1>4, <1>7
  <2> QED
    BY <1>5, <1>7, <2>1 DEF Older, Follow
<1>8. \A d, e \in Calls : state'[d] \in Active /\ state'[e] \in Active => d = e
  BY <1>4, <1>2 DEF OneActive
<1>9. Changes
  BY <1>2, <1>3, <1>4, <1>5, <1>6, <1>7, <1>8 DEF Changes
<1>10. Speaks(Events(c, "released"))
  BY <1>2, <1>3, EventsSpeak
<1> QED
  BY <1>3, <1>9, <1>10 DEF Speaks

-----------------------------------------------------------------------------
\* No CallCore is None.
LEMMA NoneIsNoCore == None \notin Cores
BY DEF None, Cores

\* The fields of a closure, by its kind,
LEMMA Shapes ==
  ASSUME NEW f \in Closures
  PROVE  /\ f.do = "add" => f.core \in Cores
         /\ f.do = "setState" => f.core \in Cores /\ f.state \in States
         /\ f.do = "reset" => f.cores \in Seq(Cores) /\ f.current \in Cores \cup {None}
<1> DEFINE R == [do : {"reset"}, cores : Seq(Cores), current : Cores \cup {None}]
<1>1. CASE f \in R
  BY <1>1
<1>2. CASE f \in [do : {"setState"}, core : Cores, state : States]
  BY <1>2
<1>3. CASE f \in [do : {"add"}, core : Cores]
  BY <1>3
<1>4. CASE f \in {Do("initLists"), Do("resetData"), Do("lastCallEnded")}
  BY <1>4 DEF Do
<1> QED
  BY <1>1, <1>2, <1>3, <1>4 DEF Closures

\* and the closures the actions post.
LEMMA Posted ==
  /\ \A what \in {"initLists", "resetData", "lastCallEnded"} :
       Do(what) \in Closures /\ Do(what).do = what
  /\ \A x \in Cores :
       LET f == [do |-> "add", core |-> x] IN f \in Closures /\ f.do = "add" /\ f.core = x
  /\ \A s \in Seq(Cores), x \in Cores \cup {None} :
       LET f == [do |-> "reset", cores |-> s, current |-> x]
       IN  f \in Closures /\ f.do = "reset" /\ f.cores = s /\ f.current = x
  /\ \A what \in {"update", "start"} : Do(what) \in SdkClosures /\ Do(what).do = what
  /\ \A x \in Cores : Resume(x) \in SdkClosures /\ Resume(x).do = "resume"
BY DEF Closures, SdkClosures, Do, Resume

\* The SDK thread runs a closure.
LEMMA SdkPopped ==
  ASSUME Types, NEW what, SdkRuns(what)
  PROVE  /\ core # "stopping" /\ sdkLoop # <<>> /\ sdkLoop \in Seq(SdkClosures)
         /\ sdkLoop' = Tail(sdkLoop) /\ sdkLoop' \in Seq(SdkClosures)
         /\ Head(sdkLoop) \in SdkClosures /\ Head(sdkLoop).do = what
BY Popped DEF Types, SdkRuns

\* The closures the UI thread runs: q is what waits, t what waits afterwards.
LEMMA UiPopped ==
  ASSUME Types, NEW what, UiRuns(what)
  PROVE  /\ uiLoop \in Seq(Closures) /\ uiLoop # <<>>
         /\ uiLoop' = Tail(uiLoop) /\ uiLoop' \in Seq(Closures)
         /\ Len(uiLoop) \in Nat /\ Len(uiLoop') = Len(uiLoop) - 1
         /\ DOMAIN uiLoop = 1 .. Len(uiLoop) /\ 1 \in DOMAIN uiLoop
         /\ DOMAIN uiLoop' = 1 .. Len(uiLoop) - 1
         /\ uiLoop[1] = Head(uiLoop) /\ Head(uiLoop) \in Closures /\ Head(uiLoop).do = what
         /\ \A i \in DOMAIN uiLoop' : i + 1 \in DOMAIN uiLoop /\ uiLoop'[i] = uiLoop[i + 1]
         /\ \A i \in DOMAIN uiLoop : i = 1 \/ (i - 1 \in DOMAIN uiLoop' /\ uiLoop'[i - 1] = uiLoop[i])
<1>1. uiLoop \in Seq(Closures) /\ uiLoop # <<>> /\ uiLoop' = Tail(uiLoop) /\ Head(uiLoop).do = what
  BY DEF Types, UiRuns
<1> QED
  BY <1>1, Popped

\* getNextCall() gives another call of the list.
LEMMA NextIsListed ==
  ASSUME Types
  PROVE  /\ NextCall \in Cores \cup {None} /\ (NextCall # None => NextCall \in Cores)
         /\ NextCall # None => NextCall \in Range(list) \ {current}
<1> DEFINE w == Without(list, current)
<1>1. w \in Seq(Cores) /\ Range(w) = Range(list) \ {current}
  BY WithoutFacts DEF Types
<1>2. NextCall = IF w = <<>> THEN None ELSE Head(w)
  BY DEF NextCall
<1> HIDE DEF w
<1>3. w # <<>> => Head(w) \in Cores /\ Head(w) \in Range(w)
  <2> SUFFICES ASSUME w # <<>>
               PROVE  Head(w) \in Cores /\ Head(w) \in Range(w)
    OBVIOUS
  <2>1. 1 \in DOMAIN w /\ w[1] = Head(w) /\ w[1] \in Cores
    BY <1>1, Popped
  <2> QED
    BY <2>1 DEF Range
<1> QED
  BY <1>1, <1>2, <1>3

-----------------------------------------------------------------------------
(* The steps, by what they do to the two loops.                            *)
Spoken == /\ Changes /\ \E b \in Seq(Closures) : Speaks(b)
          /\ sdkLoop' = sdkLoop \/ SdkRuns("resume")

Skipped == SdkRuns("resume") /\ UNCHANGED <<sdk, ui, uiLoop>>

\* Each step is one of these.
LEMMA Steps ==
  ASSUME Types, CallsKnown, OneActive, Next
  PROVE  \/ Spoken \/ Skipped
         \/ \E c \in Calls, s \in {"ringing", "dialing"} : CallCreated(c, s)
         \/ StopCore \/ CoreStopped \/ StartCore \/ RunUpdate
         \/ InitLists \/ ResetList \/ Reset \/ Add \/ RunLastCallEnded \/ RunSetState
         \/ \E x \in Cores : Collect(x)
<1>1. ASSUME NEW c \in Calls, CallProgresses(c)
      PROVE  Spoken
  <2>1. sdkLoop' = sdkLoop /\ \E s \in States : <<state[c], s>> \in Follows /\ Change(c, s)
    BY <1>1 DEF CallProgresses
  <2> QED
    BY <2>1, ChangeTells DEF Spoken
<1>2. ASSUME NEW c \in Calls, CallEnds(c)
      PROVE  Spoken
  BY <1>2, EndTells DEF Spoken
<1>3. ASSUME NEW c \in Calls, CallReleased(c)
      PROVE  Spoken
  BY <1>3, ReleaseTells DEF Spoken
<1>4. ASSUME RunResume
      PROVE  Spoken \/ Skipped
  <2> DEFINE c == Head(sdkLoop).core[1]
  <2>1. SdkRuns("resume")
    BY <1>4 DEF RunResume
  <2>2. Head(sdkLoop) \in SdkClosures /\ Head(sdkLoop).do = "resume"
    BY <2>1, SdkPopped
  <2>3. Head(sdkLoop).core \in Cores
    BY <2>2 DEF SdkClosures, Do
  <2>4. c \in Calls
    BY <2>3 DEF Cores
  <2>5. \/ state[c] = "paused" /\ Change(c, "resuming")
        \/ UNCHANGED <<sdk, ui, uiLoop>>
    BY <1>4 DEF RunResume
  <2> HIDE DEF c
  <2>6. CASE state[c] = "paused" /\ Change(c, "resuming")
    <3>1. "resuming" \in States /\ <<state[c], "resuming">> \in Follows
      BY <2>6 DEF States, Live, Follows
    <3> QED
      BY <2>1, <2>4, <2>6, <3>1, ChangeTells DEF Spoken
  <2> QED
    BY <2>1, <2>5, <2>6 DEF Skipped
<1> QED
  BY <1>1, <1>2, <1>3, <1>4 DEF Next, SdkThread, UiThread

\* What lUpdate() makes.
Renews(fresh, x) ==
  /\ fresh \in Seq(Cores) /\ IsInjective(fresh)
  /\ \A y \in Range(fresh) : /\ y \in Cores /\ y \notin listening
                             /\ y[2] = updates + 1 /\ y[2] # 0 /\ state[y[1]] \in Live
  /\ \A c \in Calls : state[c] \in Live => \E y \in Range(fresh) : y[1] = c
  /\ \A i, j \in DOMAIN fresh : i < j => Older(fresh[i][1], fresh[j][1])
  /\ x \in Range(fresh) \cup {None}
  /\ (\E y \in Range(fresh) : state[y[1]] \in Active) => x # None /\ state[x[1]] \in Active
  /\ listening' = listening \cup Range(fresh)
  /\ seen' = [y \in Cores |-> IF y \in Range(fresh) THEN state[y[1]] ELSE seen[y]]
  /\ uiLoop' = Append(uiLoop, [do |-> "reset", cores |-> fresh, current |-> x])

\* A CallCore for each live call, in order, numbered by this lUpdate().
LEMMA UpdateRenews ==
  ASSUME Types, Chain, Numbers, CallsKnown, RunUpdate
  PROVE  /\ updates' = updates + 1 /\ updates + 1 \in 1 .. MaxRestarts + 1
         /\ \E fresh \in Seq(Cores), x \in Cores \cup {None} : Renews(fresh, x)
<1> DEFINE L == {i \in DOMAIN calls : state[calls[i]] \in Live}
           live == Picked(calls, L)
           fresh == [i \in DOMAIN live |-> <<live[i], updates + 1>>]
<1>1. /\ SdkRuns("update") /\ updates' = updates + 1
      /\ listening' = listening \cup Range(fresh)
      /\ seen' = [y \in Cores |-> IF y \in Range(fresh) THEN state[y[1]] ELSE seen[y]]
      /\ \E x \in CurrentIn(fresh) :
           uiLoop' = Append(uiLoop, [do |-> "reset", cores |-> fresh, current |-> x])
  BY DEF RunUpdate
<1>2. updates + 1 \in 1 .. MaxRestarts + 1
  <2>1. sdkLoop \in Seq(SdkClosures) /\ sdkLoop # <<>> /\ Head(sdkLoop).do = "update"
    BY <1>1, SdkPopped
  <2>2. Has(sdkLoop, "update")
    BY <2>1, HoldingRest
  <2>3. updates + 1 + (IF core = "on" THEN 0 ELSE 1) = restarts + 1
    BY <2>2 DEF Chain, Asking
  <2> QED
    BY <2>3, CallListAssumption DEF Types
<1>3. calls \in Seq(Calls) /\ IsInjective(calls) /\ L \in SUBSET DOMAIN calls
  BY DEF Types
<1>4. /\ live \in Seq(Calls)
      /\ \A i \in DOMAIN live : \E k \in L : live[i] = calls[k]
      /\ \A k \in L : \E i \in DOMAIN live : live[i] = calls[k]
      /\ \A i, j \in DOMAIN live : i < j => \E k, l \in L : k < l /\ calls[k] = live[i] /\ calls[l] = live[j]
      /\ IsInjective(live)
  <2> HIDE DEF L
  <2> QED
    BY <1>3, PickedOrder
<1> HIDE DEF live
<1>5. \A c \in Calls : <<c, updates + 1>> \in Cores
  BY <1>2 DEF Cores, Made
<1>6. fresh \in Seq(Cores) /\ DOMAIN fresh = DOMAIN live
      /\ \A i \in DOMAIN live : fresh[i] = <<live[i], updates + 1>> /\ live[i] \in Calls
  BY <1>4, <1>5
<1>7. \E x \in CurrentIn(fresh) :
        uiLoop' = Append(uiLoop, [do |-> "reset", cores |-> fresh, current |-> x])
  BY <1>1
<1>8. /\ listening' = listening \cup Range(fresh)
      /\ seen' = [y \in Cores |-> IF y \in Range(fresh) THEN state[y[1]] ELSE seen[y]]
  BY <1>1
<1> HIDE DEF fresh
<1>9. IsInjective(fresh)
  BY <1>4, <1>6 DEF IsInjective
<1>10. \A y \in Range(fresh) : \E i \in DOMAIN live : y = fresh[i]
  BY <1>6 DEF Range
<1>11. ASSUME NEW y \in Range(fresh)
       PROVE  /\ y \in Cores /\ y \notin listening
              /\ y[2] = updates + 1 /\ y[2] # 0 /\ state[y[1]] \in Live
  <2>1. PICK i \in DOMAIN live : y = <<live[i], updates + 1>> /\ live[i] \in Calls
    BY <1>6, <1>10
  <2>2. PICK k \in L : live[i] = calls[k]
    BY <1>4
  <2>3. y \in Cores /\ y[2] = updates + 1 /\ y[2] # 0
    BY <2>1, <1>5, <1>2
  <2>4. y \notin listening
    BY <2>3, <1>2 DEF Numbers, Types
  <2> QED
    BY <2>1, <2>2, <2>3, <2>4
<1>12. ASSUME NEW c \in Calls, state[c] \in Live
       PROVE  \E y \in Range(fresh) : y[1] = c
  <2>1. c \in Range(calls)
    BY <1>12 DEF CallsKnown
  <2>2. PICK k \in DOMAIN calls : calls[k] = c
    BY <2>1 DEF Range
  <2>3. PICK i \in DOMAIN live : live[i] = c
    BY <2>2, <1>4, <1>12
  <2>4. fresh[i] \in Range(fresh) /\ fresh[i][1] = c
    BY <2>3, <1>6 DEF Range
  <2> QED
    BY <2>4
<1>13. ASSUME NEW i \in DOMAIN fresh, NEW j \in DOMAIN fresh, i < j
       PROVE  Older(fresh[i][1], fresh[j][1])
  <2>1. PICK k \in L, l \in L : k < l /\ calls[k] = live[i] /\ calls[l] = live[j]
    BY <1>13, <1>4, <1>6
  <2>2. fresh[i][1] = live[i] /\ fresh[j][1] = live[j]
    BY <1>6
  <2> QED
    BY <2>1, <2>2 DEF Older, Follow
<1>14. PICK x \in CurrentIn(fresh) :
         uiLoop' = Append(uiLoop, [do |-> "reset", cores |-> fresh, current |-> x])
  BY <1>7
<1>15. x \in Range(fresh) \cup {None}
  BY <1>14 DEF CurrentIn
<1>16. x \in Cores \cup {None}
  BY <1>11, <1>15
<1>17. (\E y \in Range(fresh) : state[y[1]] \in Active) => x # None /\ state[x[1]] \in Active
  <2> SUFFICES ASSUME NEW y \in Range(fresh), state[y[1]] \in Active
               PROVE  x # None /\ state[x[1]] \in Active
    OBVIOUS
  <2>1. x \in {z \in Range(fresh) : state[z[1]] \in Active}
    BY <1>14 DEF CurrentIn
  <2> QED
    BY <2>1, <1>11, NoneIsNoCore
<1>18. Renews(fresh, x)
  BY <1>6, <1>8, <1>9, <1>11, <1>12, <1>13, <1>14, <1>15, <1>17 DEF Renews
<1> QED
  BY <1>1, <1>2, <1>6, <1>16, <1>18

-----------------------------------------------------------------------------
(* The state and the loops have their types.                               *)
LEMMA TypesKept ==
  ASSUME Types, Chain, Numbers, CallsKnown, OneActive, Placed, Next
  PROVE  Types'
<1>1. CASE Spoken
  <2>1. PICK b \in Seq(Closures) : Speaks(b)
    BY <1>1 DEF Spoken
  <2>2. uiLoop' \in Seq(Closures)
    BY <2>1, Joined DEF Types, Speaks
  <2>3. sdkLoop' \in Seq(SdkClosures)
    BY <1>1, SdkPopped DEF Spoken, Types
  <2> QED
    BY <1>1, <2>2, <2>3 DEF Spoken, Changes, Types, ui
<1>2. CASE Skipped
  <2>1. sdkLoop' \in Seq(SdkClosures)
    BY <1>2, SdkPopped DEF Skipped
  <2> QED
    BY <1>2, <2>1 DEF Skipped, Types, ui, sdk
<1>3. ASSUME NEW c \in Calls, NEW s \in {"ringing", "dialing"}, CallCreated(c, s)
      PROVE  Types'
  <2>1. /\ state[c] = "none" /\ s \in States /\ "none" \notin Live \cup {"ended"}
        /\ <<c, 0>> \in Cores
    BY <1>3, CallListAssumption DEF CallCreated, States, Live, Cores, Made
  <2>2. c \notin Range(calls)
    BY <2>1 DEF CallsKnown
  <2>3. calls' = Append(calls, c)
    BY <1>3 DEF CallCreated
  <2>4. /\ calls' \in Seq(Calls) /\ Len(calls) \in Nat
        /\ DOMAIN calls = 1 .. Len(calls) /\ DOMAIN calls' = 1 .. Len(calls) + 1
        /\ \A i \in DOMAIN calls : calls'[i] = calls[i]
        /\ calls'[Len(calls) + 1] = c
    BY <2>3, AppendProperties, LenProperties DEF Types
  <2>5. IsInjective(calls')
    <3>1. IsInjective(calls) /\ \A i \in DOMAIN calls : calls[i] # c
      BY <2>2 DEF Types, Range
    <3> QED
      BY <2>4, <3>1 DEF IsInjective
  <2>6. state' \in [Calls -> States]
    BY <1>3, <2>1 DEF CallCreated, Types
  <2>7. listening' \subseteq Cores /\ seen' \in [Cores -> States]
    BY <1>3, <2>1 DEF CallCreated, Types
  <2>8. uiLoop' \in Seq(Closures)
    <3>1. CASE connected
      <4>1. [do |-> "add", core |-> <<c, 0>>] \in Closures
        BY <2>1, Posted
      <4>2. uiLoop' = Append(uiLoop, [do |-> "add", core |-> <<c, 0>>])
        BY <1>3, <3>1 DEF CallCreated
      <4> QED
        BY <4>1, <4>2, AppendProperties DEF Types
    <3>2. CASE ~connected
      BY <1>3, <3>2 DEF CallCreated, Types
    <3> QED
      BY <3>1, <3>2
  <2>9. UNCHANGED <<core, updates, restarts, sdkLoop, connected, list, current, haveCall>>
    BY <1>3 DEF CallCreated
  <2> QED
    BY <2>4, <2>5, <2>6, <2>7, <2>8, <2>9 DEF Types
<1>4. CASE StopCore
  <2>1. restarts + 1 \in 0 .. MaxRestarts
    BY <1>4, CallListAssumption DEF StopCore, Types
  <2> QED
    BY <1>4, <2>1 DEF StopCore, Types, ui
<1>5. CASE CoreStopped
  <2>1. uiLoop' \in Seq(Closures)
    BY <1>5, Posted, AppendProperties DEF CoreStopped, Types
  <2> QED
    BY <1>5, <2>1 DEF CoreStopped, Types, ui
<1>6. CASE StartCore
  <2>1. uiLoop' \in Seq(Closures)
    BY <1>6, Posted, AppendProperties DEF StartCore, Types
  <2>2. sdkLoop' \in Seq(SdkClosures)
    BY <1>6, SdkPopped DEF StartCore
  <2> QED
    BY <1>6, <2>1, <2>2 DEF StartCore, Types, ui
<1>7. CASE RunUpdate
  <2>1. updates' = updates + 1 /\ updates + 1 \in 1 .. MaxRestarts + 1
    BY <1>7, UpdateRenews
  <2>2. PICK fresh \in Seq(Cores), x \in Cores \cup {None} : Renews(fresh, x)
    BY <1>7, UpdateRenews
  <2>3. uiLoop' \in Seq(Closures)
    <3>1. [do |-> "reset", cores |-> fresh, current |-> x] \in Closures
      BY Posted
    <3> QED
      BY <2>2, <3>1, AppendProperties DEF Renews, Types
  <2>4. sdkLoop' \in Seq(SdkClosures)
    BY <1>7, SdkPopped DEF RunUpdate
  <2>5. listening' \subseteq Cores
    BY <2>2 DEF Renews, Types
  <2>6. seen' \in [Cores -> States]
    <3>1. \A y \in Cores : state[y[1]] \in States
      BY DEF Types, Cores
    <3> QED
      BY <2>2, <3>1 DEF Renews, Types
  <2>7. updates' \in Nat
    BY <2>1
  <2>8. UNCHANGED <<core, calls, state, restarts, connected, list, current, haveCall>>
    BY <1>7 DEF RunUpdate
  <2> QED
    BY <2>3, <2>4, <2>5, <2>6, <2>7, <2>8 DEF Types
<1>8. CASE InitLists
  <2>1. uiLoop' \in Seq(Closures)
    BY <1>8, UiPopped DEF InitLists
  <2>2. sdkLoop' \in Seq(SdkClosures)
    BY <1>8, Posted, AppendProperties DEF InitLists, Types
  <2> QED
    BY <1>8, <2>1, <2>2 DEF InitLists, Types, sdk
<1>9. CASE ResetList
  <2>1. uiLoop' \in Seq(Closures)
    BY <1>9, UiPopped DEF ResetList
  <2>2. sdkLoop' \in Seq(SdkClosures)
    BY <1>9, Posted, AppendProperties DEF ResetList, Types
  <2>3. list' \in Seq(Cores) /\ IsInjective(list')
    <3>1. list' = <<>>
      BY <1>9 DEF ResetList
    <3>2. list' \in Seq(Cores) /\ Len(list') = 0
      BY <3>1, EmptySeq
    <3>3. DOMAIN list' = {}
      BY <3>2, LenProperties
    <3> QED
      BY <3>2, <3>3 DEF IsInjective
  <2> QED
    BY <1>9, <2>1, <2>2, <2>3 DEF ResetList, Types, sdk
<1>10. CASE Reset
  <2>1. /\ uiLoop' \in Seq(Closures) /\ 1 \in DOMAIN uiLoop
        /\ uiLoop[1] = Head(uiLoop) /\ Head(uiLoop) \in Closures /\ Head(uiLoop).do = "reset"
    BY <1>10, UiPopped DEF Reset
  <2>2. Head(uiLoop).cores \in Seq(Cores) /\ Head(uiLoop).current \in Cores \cup {None}
    BY <2>1, Shapes
  <2>3. IsInjective(Head(uiLoop).cores)
    BY <2>1 DEF Placed
  <2> QED
    BY <1>10, <2>1, <2>2, <2>3 DEF Reset, Types, sdk
<1>11. CASE Add
  <2>1. /\ uiLoop' \in Seq(Closures) /\ 1 \in DOMAIN uiLoop
        /\ uiLoop[1] = Head(uiLoop) /\ Head(uiLoop) \in Closures /\ Head(uiLoop).do = "add"
    BY <1>11, UiPopped DEF Add
  <2> DEFINE x == Head(uiLoop).core
  <2>2. x \in Cores
    BY <2>1, Shapes
  <2>3. x \notin Range(list)
    BY <2>1, <2>2 DEF Placed, IsAdd
  <2>4. /\ list' = Append(list, x) /\ current' \in {x, current}
        /\ haveCall' \in BOOLEAN
    BY <1>11 DEF Add
  <2> HIDE DEF x
  <2>5. /\ list' \in Seq(Cores) /\ Len(list) \in Nat
        /\ DOMAIN list = 1 .. Len(list) /\ DOMAIN list' = 1 .. Len(list) + 1
        /\ \A i \in DOMAIN list : list'[i] = list[i]
        /\ list'[Len(list) + 1] = x
    BY <2>2, <2>4, AppendProperties, LenProperties DEF Types
  <2>6. IsInjective(list')
    <3>1. IsInjective(list) /\ \A i \in DOMAIN list : list[i] # x
      BY <2>3 DEF Types, Range
    <3> QED
      BY <2>5, <3>1 DEF IsInjective
  <2> QED
    BY <1>11, <2>1, <2>2, <2>4, <2>5, <2>6 DEF Add, Types, sdk
<1>12. CASE RunLastCallEnded
  <2>1. uiLoop' \in Seq(Closures)
    BY <1>12, UiPopped DEF RunLastCallEnded
  <2> QED
    BY <1>12, <2>1 DEF RunLastCallEnded, Types, sdk
<1>13. CASE RunSetState
  <2> DEFINE x == Head(uiLoop).core
             s == Head(uiLoop).state
  <2>1. /\ uiLoop' \in Seq(Closures)
        /\ Head(uiLoop) \in Closures /\ Head(uiLoop).do = "setState"
    BY <1>13, UiPopped DEF RunSetState
  <2>2. x \in Cores /\ s \in States
    BY <2>1, Shapes
  <2>3. NextCall \in Cores \cup {None} /\ (NextCall # None => NextCall \in Cores)
    BY NextIsListed
  <2>4. /\ list \in Seq(Cores) /\ IsInjective(list)
        /\ Without(list, x) \in Seq(Cores) /\ IsInjective(Without(list, x))
    BY WithoutFacts DEF Types
  <2>5. /\ seen' = [seen EXCEPT ![x] = s]
        /\ \/ /\ current' = (IF x \in Range(list) THEN x ELSE None)
              /\ UNCHANGED <<list, sdkLoop>>
           \/ Release(x)
           \/ UNCHANGED <<list, current, sdkLoop>>
        /\ UNCHANGED <<sdk, connected, haveCall>>
    BY <1>13 DEF RunSetState
  <2> HIDE DEF x, s
  <2>6. seen' \in [Cores -> States]
    BY <2>2, <2>5 DEF Types
  <2>7. /\ list' \in Seq(Cores) /\ IsInjective(list') /\ current' \in Cores \cup {None}
        /\ sdkLoop' \in Seq(SdkClosures)
    <3>1. CASE Release(x)
      <4>1. list' \in Seq(Cores) /\ IsInjective(list')
        BY <2>4, <3>1 DEF Release
      <4>2. current' \in Cores \cup {None}
        BY <2>3, <3>1 DEF Release, Types
      <4>3. sdkLoop' \in Seq(SdkClosures)
        <5>1. sdkLoop \in Seq(SdkClosures)
          BY DEF Types
        <5>2. sdkLoop' = sdkLoop \/ (NextCall # None /\ sdkLoop' = Append(sdkLoop, Resume(NextCall)))
          BY <3>1 DEF Release
        <5>3. NextCall # None => Resume(NextCall) \in SdkClosures
          BY <2>3, Posted
        <5> QED
          BY <5>1, <5>2, <5>3, AppendProperties
      <4> QED
        BY <4>1, <4>2, <4>3
    <3> QED
      BY <2>2, <2>5, <3>1 DEF Types
  <2> QED
    BY <2>1, <2>5, <2>6, <2>7 DEF Types, sdk
<1>14. ASSUME NEW x \in Cores, Collect(x)
       PROVE  Types'
  <2>1. "none" \in States
    BY DEF States
  <2>2. listening' \subseteq Cores /\ seen' \in [Cores -> States]
    BY <1>14, <2>1 DEF Collect, Types
  <2> QED
    BY <1>14, <2>2 DEF Collect, Types
<1> QED
  BY Steps, <1>1, <1>2, <1>3, <1>4, <1>5, <1>6, <1>7, <1>8, <1>9, <1>10, <1>11, <1>12,
     <1>13, <1>14

-----------------------------------------------------------------------------
(* One lUpdate() at most is on its way, and none while the core is off.    *)
LEMMA ChainKept ==
  ASSUME Types, Chain, Numbers, CallsKnown, OneActive, Next
  PROVE  Chain'
<1> DEFINE ChainFits(u, s, c, k, n, r) ==
      /\ Once(u, "initLists") /\ Once(u, "resetData")
      /\ Once(s, "update") /\ Once(s, "start")
      /\ Has(u, "initLists") => ~Has(s, "update") /\ ~Has(s, "start")
      /\ Has(u, "resetData") => ~Has(s, "start")
      /\ InTurn(u, "initLists", "resetData") /\ InTurn(s, "update", "start")
      /\ c = "off" <=> Has(u, "resetData") \/ Has(s, "start")
      /\ k \/ Has(u, "initLists")
      /\ n + (IF Has(u, "initLists") \/ Has(s, "update") THEN 1 ELSE 0)
           + (IF c = "on" THEN 0 ELSE 1) = r + 1
<1>1. ChainFits(uiLoop, sdkLoop, core, connected, updates, restarts)
  BY DEF Chain, Asking
<1>2. Chain' <=> ChainFits(uiLoop', sdkLoop', core', connected', updates', restarts')
  BY DEF Chain, Asking
<1> SUFFICES ChainFits(uiLoop', sdkLoop', core', connected', updates', restarts')
  BY <1>2
<1>3. uiLoop \in Seq(Closures) /\ sdkLoop \in Seq(SdkClosures) /\ updates \in Nat /\ restarts \in Nat
  BY DEF Types
<1>4. ASSUME SdkRuns("resume")
      PROVE  /\ \A what \in {"update", "start"} : Has(sdkLoop', what) <=> Has(sdkLoop, what)
             /\ Once(sdkLoop, "update") => Once(sdkLoop', "update")
             /\ Once(sdkLoop, "start") => Once(sdkLoop', "start")
             /\ InTurn(sdkLoop, "update", "start") => InTurn(sdkLoop', "update", "start")
  <2>1. sdkLoop # <<>> /\ sdkLoop' = Tail(sdkLoop) /\ Head(sdkLoop).do = "resume"
    BY <1>4, SdkPopped
  <2> QED
    BY <2>1, <1>3, HoldingRest
<1>5. ASSUME SdkRuns("resume") \/ sdkLoop' = sdkLoop,
             UNCHANGED <<core, connected, updates, restarts>>,
             \A what \in {"initLists", "resetData"} : Has(uiLoop', what) <=> Has(uiLoop, what),
             Once(uiLoop', "initLists"), Once(uiLoop', "resetData"),
             InTurn(uiLoop', "initLists", "resetData")
      PROVE  ChainFits(uiLoop', sdkLoop', core', connected', updates', restarts')
  BY <1>1, <1>4, <1>5
<1>6. ASSUME NEW b \in Seq(Closures), uiLoop' = uiLoop \o b,
             \A i \in DOMAIN b : b[i].do \notin {"initLists", "resetData"}
      PROVE  /\ \A what \in {"initLists", "resetData"} : Has(uiLoop', what) <=> Has(uiLoop, what)
             /\ Once(uiLoop', "initLists") /\ Once(uiLoop', "resetData")
             /\ InTurn(uiLoop', "initLists", "resetData")
  <2>1. ~Has(b, "initLists") /\ ~Has(b, "resetData")
    BY <1>6 DEF Has
  <2> QED
    BY <2>1, <1>1, <1>3, <1>6, Holding
<1>7. ASSUME NEW f \in Closures, uiLoop' = Append(uiLoop, f),
             f.do \notin {"initLists", "resetData"}
      PROVE  /\ \A what \in {"initLists", "resetData"} : Has(uiLoop', what) <=> Has(uiLoop, what)
             /\ Once(uiLoop', "initLists") /\ Once(uiLoop', "resetData")
             /\ InTurn(uiLoop', "initLists", "resetData")
  BY <1>1, <1>3, <1>7, HoldingOne
<1>8. ASSUME uiLoop # <<>>, uiLoop' = Tail(uiLoop),
             Head(uiLoop).do \notin {"initLists", "resetData"}
      PROVE  /\ \A what \in {"initLists", "resetData"} : Has(uiLoop', what) <=> Has(uiLoop, what)
             /\ Once(uiLoop', "initLists") /\ Once(uiLoop', "resetData")
             /\ InTurn(uiLoop', "initLists", "resetData")
  BY <1>1, <1>3, <1>8, HoldingRest
<1>9. ASSUME sdkLoop' = sdkLoop \/ \E x \in Cores : sdkLoop' = Append(sdkLoop, Resume(x)),
             UNCHANGED <<core, connected, updates, restarts>>,
             uiLoop # <<>>, uiLoop' = Tail(uiLoop),
             Head(uiLoop).do \notin {"initLists", "resetData"}
      PROVE  ChainFits(uiLoop', sdkLoop', core', connected', updates', restarts')
  <2>1. CASE sdkLoop' = sdkLoop
    BY <2>1, <1>1, <1>8, <1>9
  <2>2. ASSUME NEW x \in Cores, sdkLoop' = Append(sdkLoop, Resume(x))
        PROVE  ChainFits(uiLoop', sdkLoop', core', connected', updates', restarts')
    <3>1. Resume(x) \in SdkClosures /\ Resume(x).do = "resume"
      BY Posted
    <3>2. /\ \A what \in {"update", "start"} : Has(sdkLoop', what) <=> Has(sdkLoop, what)
          /\ Once(sdkLoop', "update") /\ Once(sdkLoop', "start")
          /\ InTurn(sdkLoop', "update", "start")
      BY <1>1, <1>3, <2>2, <3>1, HoldingOne
    <3> QED
      BY <3>2, <1>1, <1>8, <1>9
  <2> QED
    BY <2>1, <2>2, <1>9
<1> HIDE DEF ChainFits
<1>10. CASE Spoken
  <2>1. PICK b \in Seq(Closures) : Speaks(b)
    BY <1>10 DEF Spoken
  <2>2. uiLoop' = uiLoop \o b /\ \A i \in DOMAIN b : b[i].do \notin {"initLists", "resetData"}
    BY <2>1 DEF Speaks
  <2>3. UNCHANGED <<core, connected, updates, restarts>>
    BY <1>10 DEF Spoken, Changes, ui
  <2> QED
    BY <1>5, <1>6, <1>10, <2>2, <2>3 DEF Spoken
<1>11. CASE Skipped
  BY <1>1, <1>5, <1>11 DEF Skipped, sdk, ui, ChainFits
<1>12. ASSUME NEW c \in Calls, NEW s \in {"ringing", "dialing"}, CallCreated(c, s)
       PROVE  ChainFits(uiLoop', sdkLoop', core', connected', updates', restarts')
  <2>1. sdkLoop' = sdkLoop /\ UNCHANGED <<core, connected, updates, restarts>>
    BY <1>12 DEF CallCreated
  <2>2. CASE connected
    <3>1. <<c, 0>> \in Cores
      BY CallListAssumption DEF Cores, Made
    <3> DEFINE f == [do |-> "add", core |-> <<c, 0>>]
    <3>2. f \in Closures /\ f.do = "add"
      BY <3>1, Posted
    <3>3. uiLoop' = Append(uiLoop, f)
      BY <1>12, <2>2 DEF CallCreated
    <3> QED
      BY <1>5, <1>7, <2>1, <3>2, <3>3
  <2>3. CASE ~connected
    <3>1. uiLoop' = uiLoop
      BY <1>12, <2>3 DEF CallCreated
    <3> QED
      BY <1>1, <2>1, <3>1
  <2> QED
    BY <2>2, <2>3
<1>13. CASE StopCore
  <2>1. /\ core = "on" /\ core' = "stopping" /\ restarts' = restarts + 1
        /\ UNCHANGED <<uiLoop, sdkLoop, connected, updates>>
    BY <1>13 DEF StopCore, ui
  <2> QED
    BY <2>1, <1>1, <1>3 DEF ChainFits
<1>14. CASE CoreStopped
  <2>1. /\ core = "stopping" /\ core' = "off" /\ uiLoop' = Append(uiLoop, Do("resetData"))
        /\ UNCHANGED <<sdkLoop, connected, updates, restarts>>
    BY <1>14 DEF CoreStopped, ui
  <2>2. Do("resetData") \in Closures /\ Do("resetData").do = "resetData"
    BY Posted
  <2>3. ~Has(uiLoop, "resetData") /\ ~Has(sdkLoop, "start")
    BY <1>1, <2>1 DEF ChainFits
  <2>4. /\ Has(uiLoop', "initLists") <=> Has(uiLoop, "initLists")
        /\ Has(uiLoop', "resetData")
        /\ Once(uiLoop', "initLists") /\ Once(uiLoop', "resetData")
        /\ InTurn(uiLoop', "initLists", "resetData")
    BY <1>1, <1>3, <2>1, <2>2, <2>3, HoldingOne DEF ChainFits
  <2> QED
    BY <1>1, <2>1, <2>3, <2>4 DEF ChainFits
<1>15. CASE StartCore
  <2>1. /\ SdkRuns("start") /\ core' = "on" /\ uiLoop' = Append(uiLoop, Do("initLists"))
        /\ UNCHANGED <<connected, updates, restarts>>
    BY <1>15 DEF StartCore, ui
  <2>2. Do("initLists") \in Closures /\ Do("initLists").do = "initLists"
    BY Posted
  <2>3. sdkLoop # <<>> /\ sdkLoop' = Tail(sdkLoop) /\ Head(sdkLoop).do = "start"
    BY <2>1, SdkPopped
  <2>4. /\ Has(sdkLoop, "start") /\ ~Has(sdkLoop, "update") /\ ~Has(sdkLoop', "update")
        /\ ~Has(sdkLoop', "start") /\ Once(sdkLoop', "update") /\ Once(sdkLoop', "start")
        /\ InTurn(sdkLoop', "update", "start")
    BY <1>1, <1>3, <2>3, HoldingRest DEF ChainFits
  <2>5. ~Has(uiLoop, "initLists") /\ ~Has(uiLoop, "resetData") /\ core = "off"
    BY <1>1, <2>4 DEF ChainFits
  <2>6. /\ Has(uiLoop', "initLists") /\ ~Has(uiLoop', "resetData")
        /\ Once(uiLoop', "initLists") /\ Once(uiLoop', "resetData")
        /\ InTurn(uiLoop', "initLists", "resetData")
    BY <1>1, <1>3, <2>1, <2>2, <2>5, HoldingOne DEF ChainFits
  <2> QED
    BY <1>1, <1>3, <2>1, <2>4, <2>5, <2>6 DEF ChainFits
<1>16. CASE RunUpdate
  <2>1. SdkRuns("update") /\ updates' = updates + 1 /\ UNCHANGED <<core, connected, restarts>>
    BY <1>16 DEF RunUpdate
  <2>2. PICK fresh \in Seq(Cores), x \in Cores \cup {None} : Renews(fresh, x)
    BY <1>16, UpdateRenews
  <2> DEFINE f == [do |-> "reset", cores |-> fresh, current |-> x]
  <2>3. f \in Closures /\ f.do = "reset" /\ uiLoop' = Append(uiLoop, f)
    BY <2>2, Posted DEF Renews
  <2> HIDE DEF f
  <2>4. sdkLoop # <<>> /\ sdkLoop' = Tail(sdkLoop) /\ Head(sdkLoop).do = "update" /\ core # "stopping"
    BY <2>1, SdkPopped
  <2>5. /\ Has(sdkLoop, "update") /\ ~Has(sdkLoop', "update")
        /\ Has(sdkLoop', "start") <=> Has(sdkLoop, "start")
        /\ Once(sdkLoop', "update") /\ Once(sdkLoop', "start")
        /\ InTurn(sdkLoop', "update", "start")
    BY <1>1, <1>3, <2>4, HoldingRest DEF ChainFits
  <2>6. /\ ~Has(uiLoop, "initLists")
        /\ \A what \in {"initLists", "resetData"} : Has(uiLoop', what) <=> Has(uiLoop, what)
        /\ Once(uiLoop', "initLists") /\ Once(uiLoop', "resetData")
        /\ InTurn(uiLoop', "initLists", "resetData")
    BY <1>1, <1>7, <2>3, <2>5 DEF ChainFits
  <2> QED
    BY <1>1, <1>3, <2>1, <2>5, <2>6 DEF ChainFits
<1>17. CASE InitLists
  <2>1. /\ connected' = TRUE /\ sdkLoop' = Append(sdkLoop, Do("update"))
        /\ UNCHANGED <<core, updates, restarts>>
    BY <1>17 DEF InitLists, sdk
  <2>2. uiLoop # <<>> /\ uiLoop' = Tail(uiLoop) /\ Head(uiLoop).do = "initLists"
    BY <1>17 DEF InitLists, UiRuns
  <2>3. Do("update") \in SdkClosures /\ Do("update").do = "update"
    BY Posted
  <2>4. /\ Has(uiLoop, "initLists") /\ ~Has(uiLoop', "initLists")
        /\ Has(uiLoop', "resetData") <=> Has(uiLoop, "resetData")
        /\ Once(uiLoop', "initLists") /\ Once(uiLoop', "resetData")
        /\ InTurn(uiLoop', "initLists", "resetData")
    BY <1>1, <1>3, <2>2, HoldingRest DEF ChainFits
  <2>5. ~Has(sdkLoop, "update") /\ ~Has(sdkLoop, "start")
    BY <1>1, <2>4 DEF ChainFits
  <2>6. /\ Has(sdkLoop', "update") /\ ~Has(sdkLoop', "start")
        /\ Once(sdkLoop', "update") /\ Once(sdkLoop', "start")
        /\ InTurn(sdkLoop', "update", "start")
    BY <1>1, <1>3, <2>1, <2>3, <2>5, HoldingOne DEF ChainFits
  <2> QED
    BY <1>1, <2>1, <2>4, <2>5, <2>6 DEF ChainFits
<1>18. CASE ResetList
  <2>1. /\ sdkLoop' = Append(sdkLoop, Do("start"))
        /\ UNCHANGED <<core, updates, restarts, connected>>
    BY <1>18 DEF ResetList, sdk
  <2>2. uiLoop # <<>> /\ uiLoop' = Tail(uiLoop) /\ Head(uiLoop).do = "resetData"
    BY <1>18 DEF ResetList, UiRuns
  <2>3. Do("start") \in SdkClosures /\ Do("start").do = "start"
    BY Posted
  <2>4. /\ Has(uiLoop, "resetData") /\ ~Has(uiLoop', "resetData")
        /\ ~Has(uiLoop, "initLists") /\ ~Has(uiLoop', "initLists")
        /\ Once(uiLoop', "initLists") /\ Once(uiLoop', "resetData")
        /\ InTurn(uiLoop', "initLists", "resetData")
    BY <1>1, <1>3, <2>2, HoldingRest DEF ChainFits
  <2>5. ~Has(sdkLoop, "start")
    BY <1>1, <2>4 DEF ChainFits
  <2>6. /\ Has(sdkLoop', "update") <=> Has(sdkLoop, "update")
        /\ Has(sdkLoop', "start")
        /\ Once(sdkLoop', "update") /\ Once(sdkLoop', "start")
        /\ InTurn(sdkLoop', "update", "start")
    BY <1>1, <1>3, <2>1, <2>3, <2>5, HoldingOne DEF ChainFits
  <2> QED
    BY <1>1, <2>1, <2>4, <2>5, <2>6 DEF ChainFits
<1>19. CASE Reset
  BY <1>9, <1>19 DEF Reset, UiRuns, sdk
<1>20. CASE Add
  BY <1>9, <1>20 DEF Add, UiRuns, sdk
<1>21. CASE RunLastCallEnded
  BY <1>9, <1>21 DEF RunLastCallEnded, UiRuns, sdk
<1>22. CASE RunSetState
  <2>1. /\ uiLoop # <<>> /\ uiLoop' = Tail(uiLoop) /\ Head(uiLoop).do = "setState"
        /\ UNCHANGED <<core, connected, updates, restarts>>
    BY <1>22 DEF RunSetState, UiRuns, sdk
  <2>2. sdkLoop' = sdkLoop \/ (NextCall # None /\ sdkLoop' = Append(sdkLoop, Resume(NextCall)))
    BY <1>22 DEF RunSetState, Release
  <2>3. NextCall # None => NextCall \in Cores
    BY NextIsListed
  <2> QED
    BY <1>9, <2>1, <2>2, <2>3
<1>23. ASSUME NEW x \in Cores, Collect(x)
       PROVE  ChainFits(uiLoop', sdkLoop', core', connected', updates', restarts')
  BY <1>1, <1>23 DEF Collect
<1> QED
  BY Steps, <1>10, <1>11, <1>12, <1>13, <1>14, <1>15, <1>16, <1>17, <1>18, <1>19, <1>20,
     <1>21, <1>22, <1>23

-----------------------------------------------------------------------------
(* Calls that are known, and the one that is active.                       *)
LEMMA SameUnlessSpoken ==
  ASSUME Types, CallsKnown, OneActive, Next
  PROVE  \/ Spoken
         \/ \E c \in Calls, s \in {"ringing", "dialing"} : CallCreated(c, s)
         \/ UNCHANGED <<calls, state>>
BY Steps DEF Skipped, StopCore, CoreStopped, StartCore, RunUpdate, InitLists, ResetList, Reset,
             Add, RunLastCallEnded, RunSetState, Collect, sdk

\* The calls known stay those not released, and one at most is active.
LEMMA CallsKept ==
  ASSUME Types, CallsKnown, OneActive, Next
  PROVE  /\ CallsKnown' /\ OneActive'
         /\ \A c \in Calls : state[c] = "released" => state'[c] = "released"
         /\ \A c \in Calls : state[c] # "none" => state'[c] # "none"
<1>1. CASE Spoken
  <2>1. Changes
    BY <1>1 DEF Spoken
  <2>2. "released" \notin Live \cup {"ended"}
    BY DEF Live
  <2> QED
    BY <2>1, <2>2 DEF Changes, CallsKnown, OneActive
<1>2. ASSUME NEW c \in Calls, NEW s \in {"ringing", "dialing"}, CallCreated(c, s)
      PROVE  /\ CallsKnown' /\ OneActive'
             /\ \A d \in Calls : state[d] = "released" => state'[d] = "released"
             /\ \A d \in Calls : state[d] # "none" => state'[d] # "none"
  <2>1. /\ state[c] = "none" /\ calls' = Append(calls, c)
        /\ state' = [state EXCEPT ![c] = s]
    BY <1>2 DEF CallCreated
  <2>2. s \in Live /\ s \notin Active /\ s # "none"
    BY DEF Live, Active
  <2>3. state'[c] = s /\ \A d \in Calls \ {c} : state'[d] = state[d]
    BY <2>1 DEF Types
  <2>4. /\ Len(calls) \in Nat /\ DOMAIN calls = 1 .. Len(calls) /\ DOMAIN calls' = 1 .. Len(calls) + 1
        /\ \A i \in DOMAIN calls : calls'[i] = calls[i]
        /\ calls'[Len(calls) + 1] = c
    BY <2>1, AppendProperties, LenProperties DEF Types
  <2>5. Range(calls') = Range(calls) \cup {c}
    BY <2>4 DEF Range
  <2>6. CallsKnown'
    BY <2>2, <2>3, <2>5 DEF CallsKnown
  <2>7. OneActive'
    BY <2>2, <2>3 DEF OneActive
  <2> QED
    BY <2>1, <2>2, <2>3, <2>6, <2>7
<1>3. CASE UNCHANGED <<calls, state>>
  BY <1>3 DEF CallsKnown, OneActive
<1> QED
  BY SameUnlessSpoken, <1>1, <1>2, <1>3

-----------------------------------------------------------------------------
(* What a CallCore is held by listens to its call.                         *)
Waits(q, x) == \E i \in DOMAIN q : Carries(q[i], x) \/ IsEvent(q[i], x)

\* A CallCore that a closure carries is held.
LEMMA WaitsFacts ==
  ASSUME NEW x
  PROVE  /\ Held(x) <=> x \in Range(list) \/ x = current \/ Waits(uiLoop, x)
         /\ Held(x)' <=> x \in Range(list') \/ x = current' \/ Waits(uiLoop', x)
BY DEF Held, Waits, Carries, IsEvent

\* It waits in what is posted,
LEMMA WaitsJoined ==
  ASSUME NEW S, NEW q \in Seq(S), NEW b \in Seq(S), NEW x
  PROVE  Waits(q \o b, x) <=> Waits(q, x) \/ Waits(b, x)
<1> DEFINE t == q \o b
<1>1. /\ \A i \in DOMAIN q : i \in DOMAIN t /\ t[i] = q[i]
      /\ \A i \in DOMAIN b : Len(q) + i \in DOMAIN t /\ t[Len(q) + i] = b[i]
      /\ \A i \in DOMAIN t : i \in DOMAIN q \/ (i - Len(q) \in DOMAIN b /\ i = Len(q) + (i - Len(q)))
  BY Joined
<1> HIDE DEF t
<1>2. Waits(t, x) <=> Waits(q, x) \/ Waits(b, x)
  BY <1>1 DEF Waits
<1> QED
  BY <1>2 DEF t

\* in one closure that is posted,
LEMMA WaitsOne ==
  ASSUME NEW S, NEW q \in Seq(S), NEW f \in S, NEW x
  PROVE  Waits(Append(q, f), x) <=> Waits(q, x) \/ Carries(f, x) \/ IsEvent(f, x)
<1> DEFINE t == Append(q, f)
<1>1. /\ Len(q) \in Nat /\ DOMAIN q = 1 .. Len(q) /\ DOMAIN t = 1 .. Len(q) + 1
      /\ \A i \in DOMAIN q : i \in DOMAIN t /\ t[i] = q[i]
      /\ Len(q) + 1 \in DOMAIN t /\ t[Len(q) + 1] = f
      /\ \A i \in DOMAIN t : i \in DOMAIN q \/ i = Len(q) + 1
  BY AppendProperties, LenProperties
<1> HIDE DEF t
<1>2. Waits(t, x) <=> Waits(q, x) \/ Carries(f, x) \/ IsEvent(f, x)
  BY <1>1 DEF Waits
<1> QED
  BY <1>2 DEF t

\* or in what is left.
LEMMA WaitsRest ==
  ASSUME NEW S, NEW q \in Seq(S), q # <<>>, NEW x
  PROVE  Waits(q, x) <=> Carries(Head(q), x) \/ IsEvent(Head(q), x) \/ Waits(Tail(q), x)
<1> DEFINE t == Tail(q)
<1>1. /\ 1 \in DOMAIN q /\ q[1] = Head(q)
      /\ \A i \in DOMAIN t : i + 1 \in DOMAIN q /\ t[i] = q[i + 1]
      /\ \A i \in DOMAIN q : i = 1 \/ (i - 1 \in DOMAIN t /\ t[i - 1] = q[i])
  BY Popped
<1> HIDE DEF t
<1>2. Waits(q, x) <=> Carries(Head(q), x) \/ IsEvent(Head(q), x) \/ Waits(t, x)
  BY <1>1 DEF Waits
<1> QED
  BY <1>2 DEF t

\* Only a CallCore that nobody holds stops listening.
LEMMA KeptKept ==
  ASSUME Types, Chain, Kept, Numbers, CallsKnown, OneActive, Placed, Next
  PROVE  Kept'
<1> SUFFICES ASSUME NEW x \in Cores, Held(x)'
             PROVE  x \in listening'
  BY DEF Kept
<1>1. x \in Range(list') \/ x = current' \/ Waits(uiLoop', x)
  BY WaitsFacts
<1>2. x \in Range(list) \/ x = current \/ Waits(uiLoop, x) => x \in listening
  BY WaitsFacts DEF Kept
<1>3. uiLoop \in Seq(Closures) /\ x # None
  BY NoneIsNoCore DEF Types
<1>4. ASSUME uiLoop # <<>>, uiLoop' = Tail(uiLoop)
      PROVE  /\ Waits(uiLoop', x) => x \in listening
             /\ Carries(Head(uiLoop), x) \/ IsEvent(Head(uiLoop), x) => x \in listening
  BY <1>2, <1>3, <1>4, WaitsRest
<1>5. CASE Spoken
  <2>1. PICK b \in Seq(Closures) : Speaks(b)
    BY <1>5 DEF Spoken
  <2>2. listening' = listening /\ list' = list /\ current' = current
    BY <1>5 DEF Spoken, Changes, ui
  <2>3. ASSUME Waits(b, x)
        PROVE  x \in listening
    <3>1. PICK i \in DOMAIN b : Carries(b[i], x) \/ IsEvent(b[i], x)
      BY <2>3 DEF Waits
    <3>2. IsEvent(b[i], x)
      BY <2>1, <3>1 DEF Speaks, Carries
    <3> QED
      BY <2>1, <3>2 DEF Speaks, IsEvent
  <2>4. uiLoop' = uiLoop \o b
    BY <2>1 DEF Speaks
  <2>5. Waits(uiLoop', x) => Waits(uiLoop, x) \/ Waits(b, x)
    BY <1>3, <2>4, WaitsJoined
  <2> QED
    BY <1>1, <1>2, <2>2, <2>3, <2>5
<1>6. CASE Skipped
  BY <1>1, <1>2, <1>6 DEF Skipped, sdk, ui
<1>7. ASSUME NEW c \in Calls, NEW s \in {"ringing", "dialing"}, CallCreated(c, s)
      PROVE  x \in listening'
  <2>1. list' = list /\ current' = current
    BY <1>7 DEF CallCreated
  <2>2. CASE connected
    <3> DEFINE f == [do |-> "add", core |-> <<c, 0>>]
    <3>1. <<c, 0>> \in Cores
      BY CallListAssumption DEF Cores, Made
    <3>2. f \in Closures /\ f.do = "add" /\ f.core = <<c, 0>>
      BY <3>1, Posted
    <3>3. uiLoop' = Append(uiLoop, f) /\ listening' = listening \cup {<<c, 0>>}
      BY <1>7, <2>2 DEF CallCreated
    <3> HIDE DEF f
    <3>4. Waits(uiLoop', x) <=> Waits(uiLoop, x) \/ Carries(f, x) \/ IsEvent(f, x)
      BY <1>3, <3>2, <3>3, WaitsOne
    <3>5. Carries(f, x) \/ IsEvent(f, x) => x = <<c, 0>>
      BY <3>2 DEF Carries, IsEvent
    <3> QED
      BY <1>1, <1>2, <2>1, <3>3, <3>4, <3>5
  <2>3. CASE ~connected
    BY <1>1, <1>2, <1>7, <2>1, <2>3 DEF CallCreated
  <2> QED
    BY <2>2, <2>3
<1>8. CASE StopCore
  BY <1>1, <1>2, <1>8 DEF StopCore, ui
<1>9. ASSUME NEW what \in {"initLists", "resetData"},
             uiLoop' = Append(uiLoop, Do(what)), UNCHANGED <<listening, list, current>>
      PROVE  x \in listening'
  <2>1. Do(what) \in Closures /\ Do(what).do = what
    BY Posted
  <2>2. Waits(uiLoop', x) <=> Waits(uiLoop, x) \/ Carries(Do(what), x) \/ IsEvent(Do(what), x)
    BY <1>3, <1>9, <2>1, WaitsOne
  <2>3. ~Carries(Do(what), x) /\ ~IsEvent(Do(what), x)
    BY <2>1 DEF Carries, IsEvent
  <2> QED
    BY <1>1, <1>2, <1>9, <2>2, <2>3
<1>10. CASE CoreStopped
  BY <1>9, <1>10 DEF CoreStopped, ui
<1>11. CASE StartCore
  BY <1>9, <1>11 DEF StartCore, ui
<1>12. CASE RunUpdate
  <2>1. PICK fresh \in Seq(Cores), y \in Cores \cup {None} : Renews(fresh, y)
    BY <1>12, UpdateRenews
  <2> DEFINE f == [do |-> "reset", cores |-> fresh, current |-> y]
  <2>2. f \in Closures /\ f.do = "reset" /\ f.cores = fresh
    BY Posted
  <2>3. uiLoop' = Append(uiLoop, f) /\ listening' = listening \cup Range(fresh)
    BY <2>1 DEF Renews
  <2> HIDE DEF f
  <2>4. Waits(uiLoop', x) <=> Waits(uiLoop, x) \/ Carries(f, x) \/ IsEvent(f, x)
    BY <1>3, <2>2, <2>3, WaitsOne
  <2>5. Carries(f, x) \/ IsEvent(f, x) => x \in Range(fresh)
    BY <2>2 DEF Carries, IsEvent
  <2>6. list' = list /\ current' = current
    BY <1>12 DEF RunUpdate
  <2> QED
    BY <1>1, <1>2, <2>3, <2>4, <2>5, <2>6
<1>13. CASE InitLists
  BY <1>1, <1>2, <1>4, <1>13 DEF InitLists, UiRuns, sdk
<1>14. CASE ResetList
  <2>1. list' = <<>> /\ listening' = listening /\ current' = current
    BY <1>14 DEF ResetList, sdk
  <2>2. x \notin Range(list')
    <3>1. list' \in Seq(Cores) /\ Len(list') = 0
      BY <2>1, EmptySeq
    <3>2. DOMAIN list' = {}
      BY <3>1, LenProperties
    <3> QED
      BY <3>2 DEF Range
  <2>3. uiLoop # <<>> /\ uiLoop' = Tail(uiLoop)
    BY <1>14 DEF ResetList, UiRuns
  <2> QED
    BY <1>1, <1>2, <1>4, <2>1, <2>2, <2>3
<1>15. CASE Reset
  <2>1. /\ uiLoop # <<>> /\ uiLoop' = Tail(uiLoop) /\ Head(uiLoop).do = "reset"
        /\ list' = Head(uiLoop).cores /\ current' = Head(uiLoop).current /\ listening' = listening
    BY <1>15 DEF Reset, UiRuns, sdk
  <2>2. current' \in Range(list') \cup {None}
    <3>1. 1 \in DOMAIN uiLoop /\ uiLoop[1] = Head(uiLoop)
      BY <2>1, <1>3, Popped
    <3> QED
      BY <2>1, <3>1 DEF Placed
  <2>3. x \in Range(list') => Carries(Head(uiLoop), x)
    BY <2>1 DEF Carries
  <2> QED
    BY <1>1, <1>3, <1>4, <2>1, <2>2, <2>3
<1>16. CASE Add
  <2> DEFINE y == Head(uiLoop).core
  <2>1. /\ uiLoop # <<>> /\ uiLoop' = Tail(uiLoop) /\ Head(uiLoop).do = "add"
        /\ list' = Append(list, y) /\ current' \in {y, current} /\ listening' = listening
    BY <1>16 DEF Add, UiRuns, sdk
  <2>2. y \in Cores
    <3>1. Head(uiLoop) \in Closures
      BY <2>1, <1>3, Popped
    <3> QED
      BY <2>1, <3>1, Shapes
  <2>3. x = y => Carries(Head(uiLoop), x)
    BY <2>1 DEF Carries
  <2> HIDE DEF y
  <2>4. x \in Range(list') => x \in Range(list) \/ x = y
    <3>1. /\ Len(list) \in Nat /\ DOMAIN list = 1 .. Len(list)
          /\ DOMAIN list' = 1 .. Len(list) + 1
          /\ \A i \in DOMAIN list : list'[i] = list[i]
          /\ list'[Len(list) + 1] = y
      BY <2>1, <2>2, AppendProperties, LenProperties DEF Types
    <3> QED
      BY <3>1 DEF Range
  <2> QED
    BY <1>1, <1>2, <1>4, <2>1, <2>3, <2>4
<1>17. CASE RunLastCallEnded
  BY <1>1, <1>2, <1>3, <1>4, <1>17 DEF RunLastCallEnded, UiRuns, sdk
<1>18. CASE RunSetState
  <2> DEFINE y == Head(uiLoop).core
  <2>1. /\ uiLoop # <<>> /\ uiLoop' = Tail(uiLoop) /\ listening' = listening
        /\ \/ current' = (IF y \in Range(list) THEN y ELSE None) /\ list' = list
           \/ Release(y)
           \/ list' = list /\ current' = current
    BY <1>18 DEF RunSetState, UiRuns, sdk
  <2> HIDE DEF y
  <2>2. Range(Without(list, y)) \subseteq Range(list)
    BY WithoutFacts DEF Types
  <2>3. NextCall \in Range(list) \cup {None}
    BY NextIsListed
  <2>4. Range(list') \subseteq Range(list) /\ current' \in Range(list) \cup {None, current}
    BY <2>1, <2>2, <2>3 DEF Release
  <2> QED
    BY <1>1, <1>2, <1>3, <1>4, <2>1, <2>4
<1>19. ASSUME NEW y \in Cores, Collect(y)
       PROVE  x \in listening'
  <2>1. /\ ~Held(y) /\ listening' = listening \ {y}
        /\ list' = list /\ current' = current /\ uiLoop' = uiLoop
    BY <1>19 DEF Collect
  <2> QED
    BY <1>1, <1>2, <2>1, WaitsFacts
<1> QED
  BY Steps, <1>5, <1>6, <1>7, <1>8, <1>10, <1>11, <1>12, <1>13, <1>14, <1>15, <1>16, <1>17,
     <1>18, <1>19

\* A new CallCore is numbered by the lUpdate() that makes it.
LEMMA NumbersKept ==
  ASSUME Types, Chain, Numbers, CallsKnown, OneActive, Next
  PROVE  Numbers'
<1>1. \A c \in Calls : state[c] # "none" => state'[c] # "none"
  BY CallsKept
<1>2. \A x \in Cores : x[1] \in Calls /\ x[2] \in Nat
  BY DEF Cores, Made
<1>3. ASSUME listening' \subseteq listening, updates' = updates
      PROVE  Numbers'
  BY <1>1, <1>2, <1>3 DEF Numbers, Types
<1>4. ASSUME NEW c \in Calls, NEW s \in {"ringing", "dialing"}, CallCreated(c, s)
      PROVE  Numbers'
  <2>1. /\ state'[c] = s /\ updates' = updates
        /\ listening' \subseteq listening \cup {<<c, 0>>}
    BY <1>4 DEF CallCreated, Types
  <2>2. updates \in Nat
    BY DEF Types
  <2> QED
    BY <1>1, <1>2, <2>1, <2>2 DEF Numbers, Types
<1>5. CASE RunUpdate
  <2>1. updates' = updates + 1 /\ updates \in Nat
    BY <1>5, UpdateRenews DEF Types
  <2>2. PICK fresh \in Seq(Cores), y \in Cores \cup {None} : Renews(fresh, y)
    BY <1>5, UpdateRenews
  <2>3. state' = state /\ "none" \notin Live
    BY <1>5 DEF RunUpdate, Live
  <2> SUFFICES ASSUME NEW x \in listening'
               PROVE  x[2] <= updates' /\ state'[x[1]] # "none"
    BY DEF Numbers
  <2>4. CASE x \in listening
    <3>1. x[2] \in Nat /\ x[2] <= updates /\ state[x[1]] # "none"
      BY <1>2, <2>4 DEF Numbers, Types
    <3> QED
      BY <3>1, <2>1, <2>3
  <2>5. CASE x \in Range(fresh)
    <3>1. x[2] = updates + 1 /\ state[x[1]] \in Live
      BY <2>2, <2>5 DEF Renews
    <3> QED
      BY <3>1, <2>1, <2>3
  <2> QED
    BY <2>2, <2>4, <2>5 DEF Renews
<1>6. \/ RunUpdate \/ \E c \in Calls, s \in {"ringing", "dialing"} : CallCreated(c, s)
      \/ listening' \subseteq listening /\ updates' = updates
  BY Steps DEF Spoken, Changes, Skipped, StopCore, CoreStopped, StartCore, InitLists, ResetList,
               Reset, Add, RunLastCallEnded, RunSetState, Collect, sdk
<1> QED
  BY <1>3, <1>4, <1>5, <1>6

-----------------------------------------------------------------------------
(* The closures of uiLoop after some are posted.                           *)
LEMMA JoinedEach ==
  ASSUME NEW S, NEW q \in Seq(S), NEW b \in Seq(S)
  PROVE  /\ Len(q) \in Nat /\ DOMAIN q = 1 .. Len(q)
         /\ Len(b) \in Nat /\ DOMAIN b = 1 .. Len(b)
         /\ Len(q \o b) = Len(q) + Len(b) /\ DOMAIN (q \o b) = 1 .. Len(q) + Len(b)
         /\ \A i \in DOMAIN q : i \in DOMAIN (q \o b) /\ (q \o b)[i] = q[i]
         /\ \A i \in DOMAIN b : Len(q) + i \in DOMAIN (q \o b) /\ (q \o b)[Len(q) + i] = b[i]
         /\ \A i \in DOMAIN (q \o b) :
              \/ i \in DOMAIN q /\ (q \o b)[i] = q[i]
              \/ i > Len(q) /\ i - Len(q) \in DOMAIN b /\ (q \o b)[i] = b[i - Len(q)]
<1> DEFINE t == q \o b
<1>1. /\ Len(q) \in Nat /\ DOMAIN q = 1 .. Len(q)
      /\ Len(b) \in Nat /\ DOMAIN b = 1 .. Len(b)
      /\ Len(t) = Len(q) + Len(b) /\ DOMAIN t = 1 .. Len(q) + Len(b)
      /\ \A i \in DOMAIN q : i \in DOMAIN t /\ t[i] = q[i]
      /\ \A i \in DOMAIN b : Len(q) + i \in DOMAIN t /\ t[Len(q) + i] = b[i]
      /\ \A i \in DOMAIN t : i \in DOMAIN q \/ (i - Len(q) \in DOMAIN b /\ i = Len(q) + (i - Len(q)))
  BY Joined
<1> HIDE DEF t
<1>2. ASSUME NEW i \in DOMAIN t
      PROVE  \/ i \in DOMAIN q /\ t[i] = q[i]
             \/ i > Len(q) /\ i - Len(q) \in DOMAIN b /\ t[i] = b[i - Len(q)]
  <2>1. CASE i \in DOMAIN q
    BY <2>1, <1>1
  <2>2. CASE i \notin DOMAIN q
    <3>1. i - Len(q) \in DOMAIN b /\ i = Len(q) + (i - Len(q))
      BY <2>2, <1>1
    <3>2. t[i] = b[i - Len(q)]
      BY <3>1, <1>1
    <3>3. i > Len(q)
      BY <3>1, <1>1
    <3> QED
      BY <3>1, <3>2, <3>3
  <2> QED
    BY <2>1, <2>2
<1> QED
  BY <1>1, <1>2 DEF t

\* ... after one is posted.
LEMMA PostedEach ==
  ASSUME NEW S, NEW q \in Seq(S), NEW f \in S
  PROVE  LET t == Append(q, f) IN
         /\ Len(q) \in Nat /\ DOMAIN q = 1 .. Len(q)
         /\ Len(t) = Len(q) + 1 /\ DOMAIN t = 1 .. Len(q) + 1
         /\ \A i \in DOMAIN q : i \in DOMAIN t /\ t[i] = q[i]
         /\ Len(q) + 1 \in DOMAIN t /\ t[Len(q) + 1] = f
         /\ \A i \in DOMAIN t : \/ i \in DOMAIN q /\ t[i] = q[i]
                                \/ i = Len(q) + 1 /\ t[i] = f
BY AppendProperties, LenProperties

-----------------------------------------------------------------------------
(* A CallCore hears nothing before the list has it.                        *)
Ordered(q) == \A x \in Cores : \A i, j \in DOMAIN q :
                i < j /\ IsEvent(q[i], x) => ~Carries(q[j], x)
AddsFit(q, l) == \A x \in Cores : \A i \in DOMAIN q : IsAdd(q[i], x) =>
                   /\ x[2] = 0 /\ x \notin Range(l)
                   /\ \A j \in DOMAIN q : IsAdd(q[j], x) => i = j
ResetsFit(q) == \A i \in DOMAIN q : q[i].do = "reset" =>
                  /\ IsInjective(q[i].cores)
                  /\ \A x \in Range(q[i].cores) : x[2] # 0
                  /\ q[i].current \in Range(q[i].cores) \cup {None}

\* Placed, as a property of any loop and list.
LEMMA PlacedIs ==
  /\ Placed <=> Ordered(uiLoop) /\ AddsFit(uiLoop, list) /\ ResetsFit(uiLoop)
  /\ Placed' <=> Ordered(uiLoop') /\ AddsFit(uiLoop', list') /\ ResetsFit(uiLoop')
BY DEF Placed, Ordered, AddsFit, ResetsFit, IsEvent, Carries, IsAdd

\* It holds after a closure is posted that carries no CallCore that waits,
LEMMA PlacedAfterPost ==
  ASSUME NEW q \in Seq(Closures), NEW f \in Closures, NEW l,
         Ordered(q), AddsFit(q, l), ResetsFit(q),
         \A x \in Cores : Carries(f, x) => ~Waits(q, x),
         f.do = "reset" => /\ IsInjective(f.cores)
                           /\ \A x \in Range(f.cores) : x[2] # 0
                           /\ f.current \in Range(f.cores) \cup {None},
         f.do = "add" => f.core[2] = 0 /\ f.core \notin Range(l)
  PROVE  LET t == Append(q, f) IN Ordered(t) /\ AddsFit(t, l) /\ ResetsFit(t)
<1> DEFINE t == Append(q, f)
<1>1. /\ Len(q) \in Nat /\ DOMAIN q = 1 .. Len(q)
      /\ \A i \in DOMAIN t : \/ i \in DOMAIN q /\ t[i] = q[i]
                             \/ i = Len(q) + 1 /\ t[i] = f
  BY PostedEach
<1> HIDE DEF t
<1>2. ASSUME NEW x \in Cores, NEW i \in DOMAIN t, NEW j \in DOMAIN t, i < j, IsEvent(t[i], x)
      PROVE  ~Carries(t[j], x)
  <2>1. i \in DOMAIN q /\ t[i] = q[i]
    BY <1>1, <1>2
  <2>2. Waits(q, x)
    BY <1>2, <2>1 DEF Waits
  <2>3. CASE j \in DOMAIN q /\ t[j] = q[j]
    BY <1>2, <2>1, <2>3 DEF Ordered
  <2>4. CASE t[j] = f
    BY <2>2, <2>4
  <2> QED
    BY <1>1, <2>3, <2>4
<1>3. ASSUME NEW x \in Cores, NEW i \in DOMAIN t, IsAdd(t[i], x)
      PROVE  /\ x[2] = 0 /\ x \notin Range(l)
             /\ \A j \in DOMAIN t : IsAdd(t[j], x) => i = j
  <2>1. IsAdd(f, x) => \A j \in DOMAIN q : ~IsAdd(q[j], x)
    BY DEF IsAdd, Carries, Waits
  <2>2. x[2] = 0 /\ x \notin Range(l)
    <3>1. IsAdd(f, x) => x[2] = 0 /\ x \notin Range(l)
      BY DEF IsAdd
    <3> QED
      BY <1>1, <1>3, <3>1 DEF AddsFit
  <2> QED
    BY <1>1, <1>3, <2>1, <2>2 DEF AddsFit
<1>4. ResetsFit(t)
  BY <1>1 DEF ResetsFit
<1> QED
  BY <1>2, <1>3, <1>4 DEF Ordered, AddsFit, t

\* after one has run,
LEMMA PlacedAfterPop ==
  ASSUME NEW q \in Seq(Closures), q # <<>>, NEW l, Ordered(q), AddsFit(q, l), ResetsFit(q)
  PROVE  LET t == Tail(q) IN Ordered(t) /\ AddsFit(t, l) /\ ResetsFit(t)
<1> DEFINE t == Tail(q)
<1>1. /\ Len(q) \in Nat /\ DOMAIN t = 1 .. Len(q) - 1
      /\ \A i \in DOMAIN t : i + 1 \in DOMAIN q /\ t[i] = q[i + 1]
  BY Popped
<1> HIDE DEF t
<1>2. Ordered(t)
  BY <1>1 DEF Ordered
<1>3. ASSUME NEW x \in Cores, NEW i \in DOMAIN t, IsAdd(t[i], x)
      PROVE  /\ x[2] = 0 /\ x \notin Range(l)
             /\ \A j \in DOMAIN t : IsAdd(t[j], x) => i = j
  <2>1. x[2] = 0 /\ x \notin Range(l)
    BY <1>1, <1>3 DEF AddsFit
  <2>2. ASSUME NEW j \in DOMAIN t, IsAdd(t[j], x)
        PROVE  i = j
    <3>1. i + 1 = j + 1
      BY <1>1, <1>3, <2>2 DEF AddsFit
    <3> QED
      BY <3>1, <1>1
  <2> QED
    BY <2>1, <2>2
<1>4. ResetsFit(t)
  BY <1>1 DEF ResetsFit
<1> QED
  BY <1>2, <1>3, <1>4 DEF AddsFit, t

\* and of a shorter list.
LEMMA AddsFitLess ==
  ASSUME NEW q, NEW l, NEW m, AddsFit(q, l), Range(m) \subseteq Range(l)
  PROVE  AddsFit(q, m)
BY DEF AddsFit

\* A CallCore is listed before anything is said to it, in each step.
LEMMA PlacedKept ==
  ASSUME Types, Chain, Kept, Numbers, CallsKnown, OneActive, Placed, Next
  PROVE  Placed'
<1>1. Ordered(uiLoop) /\ AddsFit(uiLoop, list) /\ ResetsFit(uiLoop)
  BY PlacedIs
<1>2. uiLoop \in Seq(Closures)
  BY DEF Types
<1> SUFFICES Ordered(uiLoop') /\ AddsFit(uiLoop', list') /\ ResetsFit(uiLoop')
  BY PlacedIs
<1>3. ASSUME uiLoop # <<>>, uiLoop' = Tail(uiLoop)
      PROVE  Ordered(uiLoop') /\ AddsFit(uiLoop', list) /\ ResetsFit(uiLoop')
  BY <1>1, <1>2, <1>3, PlacedAfterPop
<1>4. CASE Spoken
  <2>1. PICK b \in Seq(Closures) : Speaks(b)
    BY <1>4 DEF Spoken
  <2>2. uiLoop' = uiLoop \o b /\ \A i \in DOMAIN b : b[i].do \in {"setState", "lastCallEnded"}
    BY <2>1 DEF Speaks
  <2>3. list' = list
    BY <1>4 DEF Spoken, Changes, ui
  <2>4. /\ Len(uiLoop) \in Nat /\ DOMAIN uiLoop = 1 .. Len(uiLoop)
        /\ DOMAIN uiLoop' = 1 .. Len(uiLoop) + Len(b) /\ Len(b) \in Nat
        /\ \A i \in DOMAIN uiLoop' :
             \/ i \in DOMAIN uiLoop /\ uiLoop'[i] = uiLoop[i]
             \/ i > Len(uiLoop) /\ i - Len(uiLoop) \in DOMAIN b /\ uiLoop'[i] = b[i - Len(uiLoop)]
    BY <1>2, <2>2, JoinedEach
  <2>5. \A i \in DOMAIN uiLoop' :
          \/ i \in DOMAIN uiLoop /\ uiLoop'[i] = uiLoop[i]
          \/ i > Len(uiLoop) /\ uiLoop'[i].do \in {"setState", "lastCallEnded"}
    BY <2>2, <2>4
  <2>6. ASSUME NEW x \in Cores, NEW i \in DOMAIN uiLoop', NEW j \in DOMAIN uiLoop',
               i < j, IsEvent(uiLoop'[i], x)
        PROVE  ~Carries(uiLoop'[j], x)
    <3>1. CASE uiLoop'[j].do \in {"setState", "lastCallEnded"}
      BY <3>1 DEF Carries
    <3>2. CASE j \in DOMAIN uiLoop /\ uiLoop'[j] = uiLoop[j]
      <4>1. i \in DOMAIN uiLoop /\ uiLoop'[i] = uiLoop[i]
        BY <3>2, <2>4, <2>5, <2>6
      <4> QED
        BY <4>1, <3>2, <2>6, <1>1 DEF Ordered
    <3> QED
      BY <2>5, <3>1, <3>2
  <2>7. AddsFit(uiLoop', list')
    BY <1>1, <2>3, <2>5 DEF AddsFit, IsAdd
  <2>8. ResetsFit(uiLoop')
    BY <1>1, <2>5 DEF ResetsFit
  <2> QED
    BY <2>6, <2>7, <2>8 DEF Ordered
<1>5. CASE Skipped
  BY <1>1, <1>5 DEF Skipped, ui
<1>6. ASSUME NEW c \in Calls, NEW s \in {"ringing", "dialing"}, CallCreated(c, s)
      PROVE  Ordered(uiLoop') /\ AddsFit(uiLoop', list') /\ ResetsFit(uiLoop')
  <2> DEFINE x == <<c, 0>>
             f == [do |-> "add", core |-> x]
  <2>1. x \in Cores /\ x[1] = c /\ x[2] = 0
    BY CallListAssumption DEF Cores, Made
  <2>2. f \in Closures /\ f.do = "add" /\ f.core = x
    BY <2>1, Posted
  <2>3. /\ list' = list /\ state[c] = "none"
        /\ uiLoop' = Append(uiLoop, f) \/ uiLoop' = uiLoop
    BY <1>6 DEF CallCreated
  <2> HIDE DEF x, f
  <2>4. ~Held(x)
    BY <2>1, <2>3 DEF Kept, Numbers
  <2>5. ~Waits(uiLoop, x) /\ x \notin Range(list)
    BY <2>4, WaitsFacts
  <2>6. \A y \in Cores : Carries(f, y) => ~Waits(uiLoop, y)
    BY <2>2, <2>5 DEF Carries
  <2>7. CASE uiLoop' = Append(uiLoop, f)
    BY <1>1, <1>2, <2>1, <2>2, <2>3, <2>5, <2>6, <2>7, PlacedAfterPost
  <2>8. CASE uiLoop' = uiLoop
    BY <1>1, <2>3, <2>8
  <2> QED
    BY <2>3, <2>7, <2>8
<1>7. CASE StopCore
  BY <1>1, <1>7 DEF StopCore, ui
<1>8. ASSUME NEW what \in {"initLists", "resetData"}, uiLoop' = Append(uiLoop, Do(what)), list' = list
      PROVE  Ordered(uiLoop') /\ AddsFit(uiLoop', list') /\ ResetsFit(uiLoop')
  <2>1. Do(what) \in Closures /\ Do(what).do = what
    BY Posted
  <2>2. \A y \in Cores : ~Carries(Do(what), y)
    BY <2>1 DEF Carries
  <2> QED
    BY <1>1, <1>2, <1>8, <2>1, <2>2, PlacedAfterPost
<1>9. CASE CoreStopped
  BY <1>8, <1>9 DEF CoreStopped, ui
<1>10. CASE StartCore
  BY <1>8, <1>10 DEF StartCore, ui
<1>11. CASE RunUpdate
  <2>1. PICK fresh \in Seq(Cores), y \in Cores \cup {None} : Renews(fresh, y)
    BY <1>11, UpdateRenews
  <2> DEFINE f == [do |-> "reset", cores |-> fresh, current |-> y]
  <2>2. f \in Closures /\ f.do = "reset" /\ f.cores = fresh /\ f.current = y
    BY Posted
  <2>3. uiLoop' = Append(uiLoop, f)
    BY <2>1 DEF Renews
  <2> HIDE DEF f
  <2>4. \A z \in Cores : Carries(f, z) => ~Waits(uiLoop, z)
    <3> SUFFICES ASSUME NEW z \in Cores, Carries(f, z)
                 PROVE  ~Waits(uiLoop, z)
      OBVIOUS
    <3>1. z \in Range(fresh)
      BY <2>2 DEF Carries
    <3>2. z \notin listening
      BY <2>1, <3>1 DEF Renews
    <3> QED
      BY <3>2, WaitsFacts DEF Kept
  <2>5. /\ IsInjective(f.cores) /\ \A z \in Range(f.cores) : z[2] # 0
        /\ f.current \in Range(f.cores) \cup {None}
    BY <2>1, <2>2 DEF Renews
  <2>6. list' = list
    BY <1>11 DEF RunUpdate
  <2> QED
    BY <1>1, <1>2, <2>2, <2>3, <2>4, <2>5, <2>6, PlacedAfterPost
<1>12. CASE InitLists
  BY <1>3, <1>12 DEF InitLists, UiRuns
<1>13. CASE ResetList
  <2>1. list' = <<>> /\ uiLoop # <<>> /\ uiLoop' = Tail(uiLoop)
    BY <1>13 DEF ResetList, UiRuns
  <2>2. Range(list') \subseteq Range(list)
    <3>1. list' \in Seq(Cores) /\ Len(list') = 0
      BY <2>1, EmptySeq
    <3>2. DOMAIN list' = {}
      BY <3>1, LenProperties
    <3> QED
      BY <3>2 DEF Range
  <2> QED
    BY <1>3, <2>1, <2>2, AddsFitLess
<1>14. CASE Reset
  <2>1. uiLoop # <<>> /\ uiLoop' = Tail(uiLoop) /\ Head(uiLoop).do = "reset" /\ list' = Head(uiLoop).cores
    BY <1>14 DEF Reset, UiRuns
  <2>2. \A x \in Range(list') : x[2] # 0
    <3>1. 1 \in DOMAIN uiLoop /\ uiLoop[1] = Head(uiLoop)
      BY <1>2, <2>1, Popped
    <3> QED
      BY <2>1, <3>1, <1>1 DEF ResetsFit
  <2>3. AddsFit(uiLoop', list')
    BY <1>3, <2>1, <2>2 DEF AddsFit
  <2> QED
    BY <1>3, <2>1, <2>3
<1>15. CASE Add
  <2> DEFINE y == Head(uiLoop).core
  <2>1. uiLoop # <<>> /\ uiLoop' = Tail(uiLoop) /\ Head(uiLoop).do = "add" /\ list' = Append(list, y)
    BY <1>15 DEF Add, UiRuns
  <2>2. /\ 1 \in DOMAIN uiLoop /\ uiLoop[1] = Head(uiLoop) /\ Head(uiLoop) \in Closures
        /\ Len(uiLoop) \in Nat /\ DOMAIN uiLoop' = 1 .. Len(uiLoop) - 1
        /\ \A i \in DOMAIN uiLoop' : i + 1 \in DOMAIN uiLoop /\ uiLoop'[i] = uiLoop[i + 1]
    BY <1>2, <2>1, Popped
  <2>3. y \in Cores /\ IsAdd(uiLoop[1], y)
    BY <2>1, <2>2, Shapes DEF IsAdd
  <2> HIDE DEF y
  <2>4. \A i \in DOMAIN uiLoop' : ~IsAdd(uiLoop'[i], y)
    <3> SUFFICES ASSUME NEW i \in DOMAIN uiLoop', IsAdd(uiLoop'[i], y)
                 PROVE  FALSE
      OBVIOUS
    <3>1. i + 1 = 1
      BY <2>2, <2>3, <1>1 DEF AddsFit
    <3> QED
      BY <3>1, <2>2
  <2>5. Range(list') \subseteq Range(list) \cup {y}
    <3>1. /\ \A i \in DOMAIN list' : \/ i \in DOMAIN list /\ list'[i] = list[i]
                                     \/ list'[i] = y
      BY <2>1, <2>3, PostedEach DEF Types
    <3> QED
      BY <3>1 DEF Range
  <2>6. AddsFit(uiLoop', list')
    BY <1>3, <2>1, <2>4, <2>5 DEF AddsFit
  <2> QED
    BY <1>3, <2>1, <2>6
<1>16. CASE RunLastCallEnded
  BY <1>3, <1>16 DEF RunLastCallEnded, UiRuns
<1>17. CASE RunSetState
  <2> DEFINE y == Head(uiLoop).core
  <2>1. uiLoop # <<>> /\ uiLoop' = Tail(uiLoop) /\ (list' = list \/ Release(y))
    BY <1>17 DEF RunSetState, UiRuns
  <2> HIDE DEF y
  <2>2. Range(Without(list, y)) \subseteq Range(list)
    BY WithoutFacts DEF Types
  <2>3. Range(list') \subseteq Range(list)
    BY <2>1, <2>2 DEF Release
  <2> QED
    BY <1>3, <2>1, <2>3, AddsFitLess
<1>18. ASSUME NEW x \in Cores, Collect(x)
       PROVE  Ordered(uiLoop') /\ AddsFit(uiLoop', list') /\ ResetsFit(uiLoop')
  BY <1>1, <1>18 DEF Collect
<1> QED
  BY Steps, <1>4, <1>5, <1>6, <1>7, <1>9, <1>10, <1>11, <1>12, <1>13, <1>14, <1>15, <1>16,
     <1>17, <1>18

-----------------------------------------------------------------------------
(* A CallCore is told of a release only when its call is released.         *)
SaysReleased(f) == f.do = "setState" /\ f.state = "released"

\* A released call stays released.
LEMMA ReleasedKept ==
  ASSUME Types, Chain, Kept, Numbers, CallsKnown, OneActive, Placed, ReleasedIsTrue, Next
  PROVE  ReleasedIsTrue'
<1>1. uiLoop \in Seq(Closures) /\ uiLoop' \in Seq(Closures) /\ state \in [Calls -> States]
  BY TypesKept DEF Types
<1>2. \A c \in Calls : state[c] = "released" => state'[c] = "released"
  BY CallsKept
<1>3. \A x \in Cores : x[1] \in Calls
  BY DEF Cores
<1>4. \A i \in DOMAIN uiLoop : SaysReleased(uiLoop[i]) => state'[uiLoop[i].core[1]] = "released"
  <2> SUFFICES ASSUME NEW i \in DOMAIN uiLoop, SaysReleased(uiLoop[i])
               PROVE  state'[uiLoop[i].core[1]] = "released"
    OBVIOUS
  <2>1. state[uiLoop[i].core[1]] = "released"
    BY DEF ReleasedIsTrue, SaysReleased
  <2>2. uiLoop[i] \in Closures
    BY <1>1, ElementOfSeq, LenProperties
  <2>3. uiLoop[i].core[1] \in Calls
    BY <2>2, <1>3, Shapes DEF SaysReleased
  <2> QED
    BY <1>2, <2>1, <2>3
<1>5. \A x \in Cores : seen[x] = "released" => state'[x[1]] = "released"
  BY <1>2, <1>3 DEF ReleasedIsTrue
<1>6. ASSUME \A i \in DOMAIN uiLoop' : SaysReleased(uiLoop'[i]) =>
               \/ \E j \in DOMAIN uiLoop : uiLoop'[i] = uiLoop[j]
               \/ state'[uiLoop'[i].core[1]] = "released",
             \A x \in Cores : seen'[x] = "released" =>
               seen[x] = "released" \/ state'[x[1]] = "released"
      PROVE  ReleasedIsTrue'
  BY <1>4, <1>5, <1>6 DEF ReleasedIsTrue, SaysReleased
<1>7. CASE Spoken
  <2>1. PICK b \in Seq(Closures) : Speaks(b)
    BY <1>7 DEF Spoken
  <2>2. seen' = seen
    BY <1>7 DEF Spoken, Changes, ui
  <2>3. uiLoop' = uiLoop \o b
    BY <2>1 DEF Speaks
  <2>4. \A i \in DOMAIN uiLoop' : (\E j \in DOMAIN uiLoop : uiLoop'[i] = uiLoop[j])
                                  \/ \E j \in DOMAIN b : uiLoop'[i] = b[j]
    BY <1>1, <2>3, JoinedEach
  <2>5. \A j \in DOMAIN b : SaysReleased(b[j]) => state'[b[j].core[1]] = "released"
    BY <2>1 DEF Speaks, SaysReleased
  <2> QED
    BY <1>6, <2>2, <2>4, <2>5
<1>8. ASSUME NEW c \in Calls, NEW s \in {"ringing", "dialing"}, CallCreated(c, s)
      PROVE  ReleasedIsTrue'
  <2> DEFINE f == [do |-> "add", core |-> <<c, 0>>]
  <2>1. <<c, 0>> \in Cores
    BY CallListAssumption DEF Cores, Made
  <2>2. f \in Closures /\ ~SaysReleased(f)
    BY <2>1, Posted DEF SaysReleased
  <2>3. uiLoop' = Append(uiLoop, f) \/ uiLoop' = uiLoop
    BY <1>8 DEF CallCreated
  <2> HIDE DEF f
  <2>4. \A i \in DOMAIN uiLoop' : SaysReleased(uiLoop'[i]) =>
          \E j \in DOMAIN uiLoop : uiLoop'[i] = uiLoop[j]
    BY <1>1, <2>2, <2>3, PostedEach
  <2>5. \A x \in Cores : seen'[x] = "released" => seen[x] = "released"
    BY <1>8 DEF CallCreated, Types
  <2> QED
    BY <1>6, <2>4, <2>5
<1>9. ASSUME NEW f \in Closures, ~SaysReleased(f), uiLoop' = Append(uiLoop, f)
      PROVE  \A i \in DOMAIN uiLoop' : SaysReleased(uiLoop'[i]) =>
               \E j \in DOMAIN uiLoop : uiLoop'[i] = uiLoop[j]
  BY <1>1, <1>9, PostedEach
<1>10. ASSUME uiLoop # <<>>, uiLoop' = Tail(uiLoop)
       PROVE  \A i \in DOMAIN uiLoop' : \E j \in DOMAIN uiLoop : uiLoop'[i] = uiLoop[j]
  BY <1>1, <1>10, Popped
<1>11. CASE Skipped \/ StopCore
  BY <1>6, <1>11 DEF Skipped, StopCore, ui
<1>12. ASSUME NEW what \in {"initLists", "resetData"}, uiLoop' = Append(uiLoop, Do(what)), seen' = seen
       PROVE  ReleasedIsTrue'
  <2>1. Do(what) \in Closures /\ ~SaysReleased(Do(what))
    BY Posted DEF SaysReleased
  <2> QED
    BY <1>6, <1>9, <1>12, <2>1
<1>13. CASE CoreStopped
  BY <1>12, <1>13 DEF CoreStopped, ui
<1>14. CASE StartCore
  BY <1>12, <1>14 DEF StartCore, ui
<1>15. CASE RunUpdate
  <2>1. PICK fresh \in Seq(Cores), y \in Cores \cup {None} : Renews(fresh, y)
    BY <1>15, UpdateRenews
  <2> DEFINE f == [do |-> "reset", cores |-> fresh, current |-> y]
  <2>2. f \in Closures /\ ~SaysReleased(f)
    BY Posted DEF SaysReleased
  <2>3. uiLoop' = Append(uiLoop, f)
    BY <2>1 DEF Renews
  <2> HIDE DEF f
  <2>4. state' = state
    BY <1>15 DEF RunUpdate
  <2>5. \A x \in Cores : seen'[x] = seen[x] \/ seen'[x] = state'[x[1]]
    BY <2>1, <2>4 DEF Renews
  <2>6. \A x \in Cores : seen'[x] = "released" => seen[x] = "released" \/ state'[x[1]] = "released"
    BY <2>5
  <2> QED
    BY <1>6, <1>9, <2>2, <2>3, <2>6
<1>16. CASE InitLists \/ ResetList \/ Reset \/ Add \/ RunLastCallEnded
  BY <1>6, <1>10, <1>16 DEF InitLists, ResetList, Reset, Add, RunLastCallEnded, UiRuns
<1>17. CASE RunSetState
  <2> DEFINE y == Head(uiLoop).core
             s == Head(uiLoop).state
  <2>1. /\ uiLoop # <<>> /\ uiLoop' = Tail(uiLoop) /\ Head(uiLoop).do = "setState"
        /\ seen' = [seen EXCEPT ![y] = s]
    BY <1>17 DEF RunSetState, UiRuns
  <2>2. 1 \in DOMAIN uiLoop /\ uiLoop[1] = Head(uiLoop)
    BY <1>1, <2>1, Popped
  <2>3. s = "released" => state'[y[1]] = "released"
    BY <1>4, <2>1, <2>2 DEF SaysReleased
  <2> HIDE DEF y, s
  <2>4. \A x \in Cores : seen'[x] = "released" => seen[x] = "released" \/ state'[x[1]] = "released"
    BY <2>1, <2>3 DEF Types
  <2> QED
    BY <1>6, <1>10, <2>1, <2>4
<1>18. ASSUME NEW x \in Cores, Collect(x)
       PROVE  ReleasedIsTrue'
  <2>1. uiLoop' = uiLoop /\ seen' = [seen EXCEPT ![x] = "none"]
    BY <1>18 DEF Collect
  <2>2. \A y \in Cores : seen'[y] = "released" => seen[y] = "released"
    BY <2>1 DEF Types
  <2> QED
    BY <1>6, <2>1, <2>2
<1> QED
  BY Steps, <1>7, <1>8, <1>11, <1>13, <1>14, <1>15, <1>16, <1>17, <1>18

-----------------------------------------------------------------------------
(* A CallCore hears of every change of its call, in order: v is what it     *)
(* has seen, w the state of the call.                                      *)
Tells(q, x, v, w) ==
  /\ Silent(q, x) => v = w
  /\ \A i \in DOMAIN q : IsEvent(q[i], x) =>
       /\ (\A j \in DOMAIN q : j > i => ~IsEvent(q[j], x)) => q[i].state = w
       /\ (\A j \in DOMAIN q : j < i => ~IsEvent(q[j], x)) => q[i].state # v
  /\ \A i, j \in DOMAIN q :
       /\ i < j /\ IsEvent(q[i], x) /\ IsEvent(q[j], x)
       /\ \A k \in DOMAIN q : i < k /\ k < j => ~IsEvent(q[k], x)
       => q[i].state # q[j].state

\* Told, of one CallCore and any loop.
LEMMA ToldIs ==
  /\ Told <=> \A x \in listening : Tells(uiLoop, x, seen[x], state[x[1]])
  /\ Told' <=> \A x \in listening' : Tells(uiLoop', x, seen'[x], state'[x[1]])
BY DEF Told, Tells, Silent, IsEvent

\* More is posted, and none of it is for x,
LEMMA TellsMore ==
  ASSUME NEW S, NEW q \in Seq(S), NEW b \in Seq(S), NEW x, NEW v, NEW w, Tells(q, x, v, w),
         Silent(b, x)
  PROVE  Tells(q \o b, x, v, w)
<1> DEFINE t == q \o b
<1>1. /\ Len(q) \in Nat /\ DOMAIN q = 1 .. Len(q)
      /\ \A i \in DOMAIN q : i \in DOMAIN t /\ t[i] = q[i]
      /\ \A i \in DOMAIN t :
           \/ i \in DOMAIN q /\ t[i] = q[i]
           \/ i > Len(q) /\ i - Len(q) \in DOMAIN b /\ t[i] = b[i - Len(q)]
  BY JoinedEach
<1> HIDE DEF t
<1>2. \A i \in DOMAIN t : IsEvent(t[i], x) => i \in DOMAIN q /\ t[i] = q[i]
  BY <1>1 DEF Silent
<1>3. Silent(t, x) => Silent(q, x)
  BY <1>1 DEF Silent
<1>4. ASSUME NEW i \in DOMAIN t, IsEvent(t[i], x)
      PROVE  /\ (\A j \in DOMAIN t : j > i => ~IsEvent(t[j], x)) => t[i].state = w
             /\ (\A j \in DOMAIN t : j < i => ~IsEvent(t[j], x)) => t[i].state # v
  <2>1. i \in DOMAIN q /\ t[i] = q[i] /\ IsEvent(q[i], x)
    BY <1>2, <1>4
  <2>2. (\A j \in DOMAIN t : j > i => ~IsEvent(t[j], x)) =>
          \A j \in DOMAIN q : j > i => ~IsEvent(q[j], x)
    BY <1>1
  <2>3. (\A j \in DOMAIN t : j < i => ~IsEvent(t[j], x)) =>
          \A j \in DOMAIN q : j < i => ~IsEvent(q[j], x)
    BY <1>1
  <2> QED
    BY <2>1, <2>2, <2>3 DEF Tells
<1>5. ASSUME NEW i \in DOMAIN t, NEW j \in DOMAIN t, i < j, IsEvent(t[i], x), IsEvent(t[j], x),
             \A k \in DOMAIN t : i < k /\ k < j => ~IsEvent(t[k], x)
      PROVE  t[i].state # t[j].state
  <2>1. /\ i \in DOMAIN q /\ t[i] = q[i] /\ IsEvent(q[i], x)
        /\ j \in DOMAIN q /\ t[j] = q[j] /\ IsEvent(q[j], x)
    BY <1>2, <1>5
  <2>2. \A k \in DOMAIN q : i < k /\ k < j => ~IsEvent(q[k], x)
    BY <1>1, <1>5
  <2> QED
    BY <2>1, <2>2, <1>5 DEF Tells
<1>6. Tells(t, x, v, w)
  BY <1>3, <1>4, <1>5 DEF Tells
<1> QED
  BY <1>6 DEF t

\* or one event of it, of a change,
LEMMA TellsChange ==
  ASSUME NEW S, NEW q \in Seq(S), NEW b \in Seq(S), NEW x, NEW v, NEW w, Tells(q, x, v, w),
         NEW n \in DOMAIN b, IsEvent(b[n], x), b[n].state # w,
         \A i \in DOMAIN b : IsEvent(b[i], x) => i = n
  PROVE  Tells(q \o b, x, v, b[n].state)
<1> DEFINE t == q \o b
           m == Len(q) + n
<1>1. /\ Len(q) \in Nat /\ DOMAIN q = 1 .. Len(q) /\ DOMAIN b = 1 .. Len(b) /\ Len(b) \in Nat
      /\ \A i \in DOMAIN q : i \in DOMAIN t /\ t[i] = q[i]
      /\ \A i \in DOMAIN b : Len(q) + i \in DOMAIN t /\ t[Len(q) + i] = b[i]
      /\ \A i \in DOMAIN t :
           \/ i \in DOMAIN q /\ t[i] = q[i]
           \/ i > Len(q) /\ i - Len(q) \in DOMAIN b /\ t[i] = b[i - Len(q)]
      /\ DOMAIN t = 1 .. Len(q) + Len(b)
  BY JoinedEach
<1> HIDE DEF t
<1>2. m \in DOMAIN t /\ t[m] = b[n] /\ m \notin DOMAIN q /\ \A i \in DOMAIN q : i < m
  BY <1>1
<1>3. ASSUME NEW i \in DOMAIN t, IsEvent(t[i], x)
      PROVE  \/ i \in DOMAIN q /\ t[i] = q[i] /\ IsEvent(q[i], x)
             \/ i = m
  <2>1. CASE i \in DOMAIN q /\ t[i] = q[i]
    BY <2>1, <1>3
  <2>2. CASE i - Len(q) \in DOMAIN b /\ t[i] = b[i - Len(q)]
    <3>1. i - Len(q) = n
      BY <2>2, <1>3
    <3> QED
      BY <3>1, <1>1
  <2> QED
    BY <1>1, <2>1, <2>2
<1> HIDE DEF m
<1>4. ~Silent(t, x)
  BY <1>2 DEF Silent
<1>5. ASSUME NEW i \in DOMAIN t, IsEvent(t[i], x)
      PROVE  /\ (\A j \in DOMAIN t : j > i => ~IsEvent(t[j], x)) => t[i].state = b[n].state
             /\ (\A j \in DOMAIN t : j < i => ~IsEvent(t[j], x)) => t[i].state # v
  <2>1. CASE i \in DOMAIN q /\ t[i] = q[i] /\ IsEvent(q[i], x)
    <3>1. ~(\A j \in DOMAIN t : j > i => ~IsEvent(t[j], x))
      BY <1>1, <1>2, <2>1
    <3>2. (\A j \in DOMAIN t : j < i => ~IsEvent(t[j], x)) =>
            \A j \in DOMAIN q : j < i => ~IsEvent(q[j], x)
      BY <1>1
    <3> QED
      BY <2>1, <3>1, <3>2 DEF Tells
  <2>2. CASE i = m
    <3>1. (\A j \in DOMAIN t : j < i => ~IsEvent(t[j], x)) => Silent(q, x)
      BY <2>2, <1>1, <1>2 DEF Silent
    <3> QED
      BY <2>2, <3>1, <1>2 DEF Tells
  <2> QED
    BY <1>3, <1>5, <2>1, <2>2
<1>6. ASSUME NEW i \in DOMAIN t, NEW j \in DOMAIN t, i < j, IsEvent(t[i], x), IsEvent(t[j], x),
             \A k \in DOMAIN t : i < k /\ k < j => ~IsEvent(t[k], x)
      PROVE  t[i].state # t[j].state
  <2>1. i \in DOMAIN q /\ t[i] = q[i] /\ IsEvent(q[i], x)
    <3>1. i # m
      <4>1. j = m \/ j < m
        BY <1>2, <1>3, <1>6
      <4>2. j \in Nat /\ m \in Nat
        BY <1>1, <1>2
      <4> QED
        BY <4>1, <4>2, <1>6
    <3> QED
      BY <3>1, <1>3, <1>6
  <2>2. CASE j \in DOMAIN q /\ t[j] = q[j] /\ IsEvent(q[j], x)
    <3>1. \A k \in DOMAIN q : i < k /\ k < j => ~IsEvent(q[k], x)
      BY <1>1, <1>6
    <3> QED
      BY <2>1, <2>2, <3>1, <1>6 DEF Tells
  <2>3. CASE j = m
    <3>1. \A k \in DOMAIN q : k > i => ~IsEvent(q[k], x)
      BY <2>3, <1>1, <1>2, <1>6
    <3>2. q[i].state = w
      BY <2>1, <3>1 DEF Tells
    <3> QED
      BY <2>1, <2>3, <3>2, <1>2
  <2> QED
    BY <1>3, <1>6, <2>2, <2>3
<1>7. Tells(t, x, v, b[n].state)
  BY <1>4, <1>5, <1>6 DEF Tells
<1> QED
  BY <1>7 DEF t

\* or the first has run.
LEMMA TellsRest ==
  ASSUME NEW S, NEW q \in Seq(S), q # <<>>, NEW x, NEW v, NEW w, Tells(q, x, v, w)
  PROVE  /\ ~IsEvent(Head(q), x) => Tells(Tail(q), x, v, w)
         /\ IsEvent(Head(q), x) => /\ Head(q).state # v
                                   /\ Tells(Tail(q), x, Head(q).state, w)
<1> DEFINE t == Tail(q)
           s == IF IsEvent(Head(q), x) THEN Head(q).state ELSE v
<1>1. /\ Len(q) \in Nat /\ DOMAIN q = 1 .. Len(q) /\ 1 \in DOMAIN q /\ q[1] = Head(q)
      /\ DOMAIN t = 1 .. Len(q) - 1
      /\ \A i \in DOMAIN t : i + 1 \in DOMAIN q /\ t[i] = q[i + 1]
      /\ \A i \in DOMAIN q : i = 1 \/ (i - 1 \in DOMAIN t /\ t[i - 1] = q[i])
  BY Popped
<1> HIDE DEF t
<1>2. IsEvent(Head(q), x) => Head(q).state # v
  <2> SUFFICES ASSUME IsEvent(q[1], x)
               PROVE  q[1].state # v
    BY <1>1
  <2>1. \A j \in DOMAIN q : ~(j < 1)
    BY <1>1
  <2> QED
    BY <2>1, <1>1 DEF Tells
<1>3. Silent(t, x) => s = w
  <2> SUFFICES ASSUME Silent(t, x)
               PROVE  s = w
    OBVIOUS
  <2>1. \A j \in DOMAIN q : j > 1 => ~IsEvent(q[j], x)
    <3> SUFFICES ASSUME NEW j \in DOMAIN q, j > 1
                 PROVE  ~IsEvent(q[j], x)
      OBVIOUS
    <3>1. j - 1 \in DOMAIN t /\ t[j - 1] = q[j]
      BY <1>1
    <3> QED
      BY <3>1 DEF Silent
  <2>2. CASE IsEvent(q[1], x)
    BY <2>1, <2>2, <1>1 DEF Tells
  <2>3. CASE ~IsEvent(q[1], x)
    <3>1. Silent(q, x)
      BY <2>1, <2>3, <1>1 DEF Silent
    <3> QED
      BY <3>1, <2>3, <1>1 DEF Tells
  <2> QED
    BY <2>2, <2>3
<1>4. ASSUME NEW i \in DOMAIN t, IsEvent(t[i], x)
      PROVE  /\ (\A j \in DOMAIN t : j > i => ~IsEvent(t[j], x)) => t[i].state = w
             /\ (\A j \in DOMAIN t : j < i => ~IsEvent(t[j], x)) => t[i].state # s
  <2>1. i + 1 \in DOMAIN q /\ t[i] = q[i + 1] /\ IsEvent(q[i + 1], x) /\ i \in Nat /\ i # 0
    BY <1>1, <1>4
  <2>2. ASSUME \A j \in DOMAIN t : j > i => ~IsEvent(t[j], x)
        PROVE  t[i].state = w
    <3>1. \A j \in DOMAIN q : j > i + 1 => ~IsEvent(q[j], x)
      <4> SUFFICES ASSUME NEW j \in DOMAIN q, j > i + 1
                   PROVE  ~IsEvent(q[j], x)
        OBVIOUS
      <4>1. j - 1 \in DOMAIN t /\ t[j - 1] = q[j] /\ j - 1 > i
        BY <1>1, <2>1
      <4> QED
        BY <4>1, <2>2
    <3> QED
      BY <2>1, <3>1 DEF Tells
  <2>3. ASSUME \A j \in DOMAIN t : j < i => ~IsEvent(t[j], x)
        PROVE  t[i].state # s
    <3>1. \A j \in DOMAIN q : 1 < j /\ j < i + 1 => ~IsEvent(q[j], x)
      <4> SUFFICES ASSUME NEW j \in DOMAIN q, 1 < j, j < i + 1
                   PROVE  ~IsEvent(q[j], x)
        OBVIOUS
      <4>1. j - 1 \in DOMAIN t /\ t[j - 1] = q[j] /\ j - 1 < i
        BY <1>1, <2>1
      <4> QED
        BY <4>1, <2>3
    <3>2. CASE IsEvent(q[1], x)
      <4>1. 1 < i + 1
        BY <2>1
      <4>2. q[1].state # q[i + 1].state
        BY <1>1, <2>1, <3>1, <3>2, <4>1 DEF Tells
      <4> QED
        BY <4>2, <2>1, <3>2, <1>1
    <3>3. CASE ~IsEvent(q[1], x)
      <4>1. \A j \in DOMAIN q : j < i + 1 => ~IsEvent(q[j], x)
        <5> SUFFICES ASSUME NEW j \in DOMAIN q, j < i + 1
                     PROVE  ~IsEvent(q[j], x)
          OBVIOUS
        <5>1. j = 1 \/ 1 < j
          BY <1>1
        <5> QED
          BY <5>1, <3>1, <3>3
      <4>2. q[i + 1].state # v
        BY <4>1, <2>1 DEF Tells
      <4> QED
        BY <4>2, <2>1, <3>3, <1>1
    <3> QED
      BY <3>2, <3>3
  <2> QED
    BY <2>2, <2>3
<1>5. ASSUME NEW i \in DOMAIN t, NEW j \in DOMAIN t, i < j, IsEvent(t[i], x), IsEvent(t[j], x),
             \A k \in DOMAIN t : i < k /\ k < j => ~IsEvent(t[k], x)
      PROVE  t[i].state # t[j].state
  <2>1. /\ i + 1 \in DOMAIN q /\ t[i] = q[i + 1] /\ IsEvent(q[i + 1], x)
        /\ j + 1 \in DOMAIN q /\ t[j] = q[j + 1] /\ IsEvent(q[j + 1], x)
        /\ i \in Nat /\ j \in Nat /\ i # 0 /\ i + 1 < j + 1
    BY <1>1, <1>5
  <2>2. \A k \in DOMAIN q : i + 1 < k /\ k < j + 1 => ~IsEvent(q[k], x)
    <3> SUFFICES ASSUME NEW k \in DOMAIN q, i + 1 < k, k < j + 1
                 PROVE  ~IsEvent(q[k], x)
      OBVIOUS
    <3>1. k - 1 \in DOMAIN t /\ t[k - 1] = q[k] /\ i < k - 1 /\ k - 1 < j
      BY <1>1, <2>1
    <3> QED
      BY <3>1, <1>5
  <2>3. q[i + 1].state # q[j + 1].state
    BY <2>1, <2>2 DEF Tells
  <2> QED
    BY <2>1, <2>3
<1> HIDE DEF s
<1>6. Tells(t, x, s, w)
  BY <1>3, <1>4, <1>5 DEF Tells
<1> QED
  BY <1>2, <1>6 DEF t, s

-----------------------------------------------------------------------------
\* Nothing to tell.
LEMMA TellsSilent ==
  ASSUME NEW q, NEW x, NEW v, Silent(q, x)
  PROVE  Tells(q, x, v, v)
BY DEF Tells, Silent

\* A closure is posted that is no event of x.
LEMMA TellsAppend ==
  ASSUME NEW q \in Seq(Closures), NEW f \in Closures, NEW x, NEW v, NEW w, Tells(q, x, v, w),
         ~IsEvent(f, x)
  PROVE  Tells(Append(q, f), x, v, w)
<1>1. Append(q, f) = q \o <<f>> /\ <<f>> \in Seq(Closures)
  BY AppendIsConcat
<1>2. Silent(<<f>>, x)
  BY DEF Silent
<1> QED
  BY <1>1, <1>2, TellsMore

\* No event waits for a CallCore that is new.
LEMMA SilentAppend ==
  ASSUME NEW q \in Seq(Closures), NEW f \in Closures, NEW x, ~Waits(q, x), ~IsEvent(f, x)
  PROVE  Silent(Append(q, f), x)
BY PostedEach DEF Silent, Waits

\* A change has one event for a CallCore.
LEMMA SpeaksOnce ==
  ASSUME NEW b, Speaks(b), NEW x \in Cores, NEW i \in DOMAIN b, NEW j \in DOMAIN b,
         IsEvent(b[i], x), IsEvent(b[j], x)
  PROVE  i = j
<1>1. x[2] \in Nat
  BY CallListAssumption DEF Cores, Made
<1>2. DOMAIN b \subseteq Nat
  BY LenProperties DEF Speaks
<1>3. ~(i < j) /\ ~(j < i)
  BY <1>1 DEF Speaks, IsEvent
<1> QED
  BY <1>2, <1>3

\* Each change of a call is told to each CallCore of it, in each step.
LEMMA ToldKept ==
  ASSUME Types, Chain, Kept, Numbers, CallsKnown, OneActive, Placed, Told, Next
  PROVE  Told'
<1>1. \A x \in listening : Tells(uiLoop, x, seen[x], state[x[1]])
  BY ToldIs
<1>2. uiLoop \in Seq(Closures) /\ listening \subseteq Cores /\ \A x \in Cores : x[1] \in Calls
  BY DEF Types, Cores
<1> SUFFICES ASSUME NEW x \in listening'
             PROVE  Tells(uiLoop', x, seen'[x], state'[x[1]])
  BY ToldIs
<1>3. x \in Cores
  BY TypesKept DEF Types
<1>4. CASE Spoken
  <2>1. PICK b \in Seq(Closures) : Speaks(b)
    BY <1>4 DEF Spoken
  <2>2. x \in listening /\ seen' = seen
    BY <1>4 DEF Spoken, Changes, ui
  <2>3. uiLoop' = uiLoop \o b
    BY <2>1 DEF Speaks
  <2>4. Tells(uiLoop, x, seen[x], state[x[1]])
    BY <1>1, <2>2
  <2>5. CASE state'[x[1]] = state[x[1]]
    <3>1. Silent(b, x)
      BY <2>1, <2>5 DEF Speaks, Silent, IsEvent
    <3>2. Tells(uiLoop', x, seen[x], state[x[1]])
      BY <1>2, <2>3, <2>4, <3>1, TellsMore
    <3> QED
      BY <3>2, <2>2, <2>5
  <2>6. CASE state'[x[1]] # state[x[1]]
    <3>1. PICK n \in DOMAIN b : IsEvent(b[n], x)
      BY <2>1, <2>2, <2>6 DEF Speaks
    <3>2. b[n].state = state'[x[1]]
      BY <2>1, <3>1 DEF Speaks, IsEvent
    <3>3. \A i \in DOMAIN b : IsEvent(b[i], x) => i = n
      BY <1>3, <2>1, <3>1, SpeaksOnce
    <3>4. Tells(uiLoop', x, seen[x], b[n].state)
      <4>1. b[n].state # state[x[1]]
        BY <2>6, <3>2
      <4> QED
        BY <1>2, <2>3, <2>4, <3>1, <3>3, <4>1, TellsChange
    <3> QED
      BY <2>2, <3>2, <3>4
  <2> QED
    BY <2>5, <2>6
<1>5. CASE Skipped \/ StopCore
  BY <1>1, <1>5 DEF Skipped, StopCore, sdk, ui
<1>6. ASSUME NEW c \in Calls, NEW s \in {"ringing", "dialing"}, CallCreated(c, s)
      PROVE  Tells(uiLoop', x, seen'[x], state'[x[1]])
  <2> DEFINE z == <<c, 0>>
             f == [do |-> "add", core |-> z]
  <2>1. z \in Cores /\ z[1] = c
    BY CallListAssumption DEF Cores, Made
  <2>2. f \in Closures /\ \A y : ~IsEvent(f, y)
    BY <2>1, Posted DEF IsEvent
  <2>3. /\ state[c] = "none" /\ state' = [state EXCEPT ![c] = s]
        /\ \/ /\ listening' = listening \cup {z} /\ seen' = [seen EXCEPT ![z] = s]
              /\ uiLoop' = Append(uiLoop, f)
           \/ listening' = listening /\ seen' = seen /\ uiLoop' = uiLoop
    BY <1>6 DEF CallCreated
  <2> HIDE DEF z, f
  <2>4. \A y \in listening : y[1] # c
    BY <2>3 DEF Numbers
  <2>5. CASE x \in listening
    <3>1. x[1] # c /\ x # z
      BY <2>1, <2>4, <2>5
    <3>2. seen'[x] = seen[x] /\ state'[x[1]] = state[x[1]]
      BY <1>2, <1>3, <2>3, <3>1 DEF Types
    <3>3. Tells(uiLoop, x, seen[x], state[x[1]])
      BY <1>1, <2>5
    <3>4. Tells(Append(uiLoop, f), x, seen[x], state[x[1]])
      BY <1>2, <2>2, <3>3, TellsAppend
    <3> QED
      BY <2>3, <3>2, <3>3, <3>4
  <2>6. CASE x \notin listening
    <3>1. x = z /\ seen'[x] = s /\ state'[x[1]] = s /\ uiLoop' = Append(uiLoop, f)
      BY <2>1, <2>3, <2>6 DEF Types
    <3>2. ~Waits(uiLoop, x)
      BY <1>3, <2>6, WaitsFacts DEF Kept
    <3>3. Silent(uiLoop', x)
      BY <1>2, <2>2, <3>1, <3>2, SilentAppend
    <3> QED
      BY <3>1, <3>3, TellsSilent
  <2> QED
    BY <2>5, <2>6
<1>7. ASSUME NEW what \in {"initLists", "resetData"}, uiLoop' = Append(uiLoop, Do(what)),
             UNCHANGED <<listening, seen, state>>
      PROVE  Tells(uiLoop', x, seen'[x], state'[x[1]])
  <2>1. Do(what) \in Closures /\ ~IsEvent(Do(what), x)
    BY Posted DEF IsEvent
  <2> QED
    BY <1>1, <1>2, <1>7, <2>1, TellsAppend
<1>8. CASE CoreStopped
  BY <1>7, <1>8 DEF CoreStopped, ui
<1>9. CASE StartCore
  BY <1>7, <1>9 DEF StartCore, ui
<1>10. CASE RunUpdate
  <2>1. PICK fresh \in Seq(Cores), y \in Cores \cup {None} : Renews(fresh, y)
    BY <1>10, UpdateRenews
  <2> DEFINE f == [do |-> "reset", cores |-> fresh, current |-> y]
  <2>2. f \in Closures /\ ~IsEvent(f, x)
    BY Posted DEF IsEvent
  <2>3. uiLoop' = Append(uiLoop, f)
    BY <2>1 DEF Renews
  <2> HIDE DEF f
  <2>4. state' = state
    BY <1>10 DEF RunUpdate
  <2>5. CASE x \in Range(fresh)
    <3>1. x \notin listening /\ seen'[x] = state[x[1]]
      BY <1>3, <2>1, <2>5 DEF Renews
    <3>2. ~Waits(uiLoop, x)
      BY <1>3, <3>1, WaitsFacts DEF Kept
    <3>3. Silent(uiLoop', x)
      BY <1>2, <2>2, <2>3, <3>2, SilentAppend
    <3> QED
      BY <2>4, <3>1, <3>3, TellsSilent
  <2>6. CASE x \notin Range(fresh)
    <3>1. x \in listening /\ seen'[x] = seen[x]
      BY <1>3, <2>1, <2>6 DEF Renews
    <3> QED
      BY <1>1, <1>2, <2>2, <2>3, <2>4, <3>1, TellsAppend
  <2> QED
    BY <2>5, <2>6
<1>11. ASSUME uiLoop # <<>>, uiLoop' = Tail(uiLoop), Head(uiLoop).do # "setState",
              UNCHANGED <<listening, seen, state>>
       PROVE  Tells(uiLoop', x, seen'[x], state'[x[1]])
  <2>1. ~IsEvent(Head(uiLoop), x)
    BY <1>11 DEF IsEvent
  <2> QED
    BY <1>1, <1>2, <1>11, <2>1, TellsRest
<1>12. CASE InitLists
  BY <1>11, <1>12 DEF InitLists, UiRuns, sdk
<1>13. CASE ResetList
  BY <1>11, <1>13 DEF ResetList, UiRuns, sdk
<1>14. CASE Reset
  BY <1>11, <1>14 DEF Reset, UiRuns, sdk
<1>15. CASE Add
  BY <1>11, <1>15 DEF Add, UiRuns, sdk
<1>16. CASE RunLastCallEnded
  BY <1>11, <1>16 DEF RunLastCallEnded, UiRuns, sdk
<1>17. CASE RunSetState
  <2> DEFINE y == Head(uiLoop).core
             s == Head(uiLoop).state
  <2>1. /\ uiLoop # <<>> /\ uiLoop' = Tail(uiLoop) /\ Head(uiLoop).do = "setState"
        /\ seen' = [seen EXCEPT ![y] = s] /\ listening' = listening /\ state' = state
    BY <1>17 DEF RunSetState, UiRuns, sdk
  <2>2. IsEvent(Head(uiLoop), x) <=> y = x
    BY <2>1 DEF IsEvent
  <2> HIDE DEF y
  <2>3. CASE y = x
    <3>1. seen'[x] = s
      BY <1>3, <2>1, <2>3 DEF Types
    <3>2. Tells(uiLoop', x, s, state[x[1]])
      BY <1>1, <1>2, <2>1, <2>2, <2>3, TellsRest
    <3> QED
      BY <2>1, <3>1, <3>2
  <2>4. CASE y # x
    <3>1. seen'[x] = seen[x]
      BY <1>3, <2>1, <2>4 DEF Types
    <3>2. Tells(uiLoop', x, seen[x], state[x[1]])
      BY <1>1, <1>2, <2>1, <2>2, <2>4, TellsRest
    <3> QED
      BY <2>1, <3>1, <3>2
  <2> QED
    BY <2>3, <2>4
<1>18. ASSUME NEW y \in Cores, Collect(y)
       PROVE  Tells(uiLoop', x, seen'[x], state'[x[1]])
  <2>1. /\ x \in listening /\ x # y /\ uiLoop' = uiLoop /\ state' = state
        /\ seen' = [seen EXCEPT ![y] = "none"]
    BY <1>18 DEF Collect
  <2>2. seen'[x] = seen[x]
    BY <1>3, <2>1 DEF Types
  <2> QED
    BY <1>1, <2>1, <2>2
<1> QED
  BY Steps, <1>4, <1>5, <1>6, <1>8, <1>9, <1>10, <1>12, <1>13, <1>14, <1>15, <1>16, <1>17, <1>18

-----------------------------------------------------------------------------
(* The list as it will be when the UI thread has run what waits.           *)

\* Closures that are posted do not start the list again.
LEMMA ShownAfterPost ==
  ASSUME NEW q \in Seq(Closures), NEW b \in Seq(Closures), NEW l, NEW p,
         \A i \in DOMAIN b : b[i].do # "reset", LastReset(q \o b, p)
  PROVE  /\ p \in 0 .. Len(q) /\ LastReset(q, p)
         /\ Base(q \o b, l, p) = Base(q, l, p) /\ (p > 0 => (q \o b)[p] = q[p])
         /\ \A x : Added(q \o b, p, x) <=> Added(q, p, x) \/ \E i \in DOMAIN b : IsAdd(b[i], x)
         /\ \A x, y : Ahead(q \o b, l, p, x, y) =>
              \/ Ahead(q, l, p, x, y)
              \/ Shows(q, l, p, x) /\ \E i \in DOMAIN b : IsAdd(b[i], y)
              \/ AddsInTurn(b, 0, x, y)
<1> DEFINE t == q \o b
<1>1. /\ Len(q) \in Nat /\ DOMAIN q = 1 .. Len(q) /\ Len(b) \in Nat
      /\ Len(t) = Len(q) + Len(b) /\ DOMAIN t = 1 .. Len(q) + Len(b)
      /\ DOMAIN b = 1 .. Len(b)
      /\ \A i \in DOMAIN q : i \in DOMAIN t /\ t[i] = q[i]
      /\ \A i \in DOMAIN b : Len(q) + i \in DOMAIN t /\ t[Len(q) + i] = b[i]
      /\ \A i \in DOMAIN t :
           \/ i \in DOMAIN q /\ t[i] = q[i]
           \/ i > Len(q) /\ i - Len(q) \in DOMAIN b /\ t[i] = b[i - Len(q)]
  BY JoinedEach
<1>2. LastReset(t, p)
  OBVIOUS
<1> HIDE DEF t
<1>3. p \in 0 .. Len(t) /\ (p > 0 => p \in DOMAIN t)
  BY <1>1, <1>2 DEF LastReset
<1>4. p > 0 => p \in DOMAIN q /\ t[p] = q[p]
  BY <1>1, <1>2, <1>3 DEF LastReset
<1>5. p \in 0 .. Len(q)
  BY <1>1, <1>3, <1>4
<1>6. LastReset(q, p)
  BY <1>1, <1>2, <1>4, <1>5 DEF LastReset
<1>7. Base(t, l, p) = Base(q, l, p)
  BY <1>3, <1>4, <1>1 DEF Base
<1>8. ASSUME NEW x
      PROVE  Added(t, p, x) <=> Added(q, p, x) \/ \E i \in DOMAIN b : IsAdd(b[i], x)
  <2>1. ASSUME Added(t, p, x)
        PROVE  Added(q, p, x) \/ \E i \in DOMAIN b : IsAdd(b[i], x)
    BY <1>1, <2>1 DEF Added
  <2>2. Added(q, p, x) => Added(t, p, x)
    BY <1>1 DEF Added
  <2>3. ASSUME NEW i \in DOMAIN b, IsAdd(b[i], x)
        PROVE  Added(t, p, x)
    <3>1. Len(q) + i \in DOMAIN t /\ t[Len(q) + i] = b[i] /\ Len(q) + i > p
      BY <1>1, <1>5
    <3> QED
      BY <2>3, <3>1 DEF Added
  <2> QED
    BY <2>1, <2>2, <2>3
<1>9. ASSUME NEW x, NEW y, Ahead(t, l, p, x, y)
      PROVE  \/ Ahead(q, l, p, x, y)
             \/ Shows(q, l, p, x) /\ \E i \in DOMAIN b : IsAdd(b[i], y)
             \/ AddsInTurn(b, 0, x, y)
  <2>1. CASE Follow(Base(t, l, p), x, y)
    BY <1>7, <2>1 DEF Ahead
  <2>2. CASE x \in Range(Base(t, l, p)) /\ Added(t, p, y)
    BY <1>7, <1>8, <2>2 DEF Ahead, Shows
  <2>3. ASSUME NEW i \in DOMAIN t, NEW j \in DOMAIN t,
               p < i, i < j, IsAdd(t[i], x), IsAdd(t[j], y)
        PROVE  \/ Ahead(q, l, p, x, y)
               \/ Shows(q, l, p, x) /\ \E k \in DOMAIN b : IsAdd(b[k], y)
               \/ AddsInTurn(b, 0, x, y)
    <3>1. CASE j \in DOMAIN q /\ t[j] = q[j]
      <4>1. i \in DOMAIN q /\ t[i] = q[i]
        BY <3>1, <2>3, <1>1
      <4> QED
        BY <3>1, <4>1, <2>3 DEF Ahead, AddsInTurn
    <3>2. CASE j - Len(q) \in DOMAIN b /\ t[j] = b[j - Len(q)]
      <4>1. \E k \in DOMAIN b : IsAdd(b[k], y)
        BY <3>2, <2>3
      <4>2. CASE i \in DOMAIN q /\ t[i] = q[i]
        <5>1. Shows(q, l, p, x)
          BY <4>2, <2>3 DEF Shows, Added
        <5> QED
          BY <4>1, <5>1
      <4>3. CASE i - Len(q) \in DOMAIN b /\ t[i] = b[i - Len(q)]
        <5>1. 0 < i - Len(q) /\ i - Len(q) < j - Len(q)
          BY <1>1, <2>3, <4>3
        <5> QED
          BY <3>2, <4>3, <5>1, <2>3 DEF AddsInTurn
      <4> QED
        BY <4>2, <4>3, <1>1
    <3> QED
      BY <3>1, <3>2, <1>1
  <2> QED
    BY <1>9, <2>1, <2>2, <2>3 DEF Ahead, AddsInTurn
<1> QED
  BY <1>4, <1>5, <1>6, <1>7, <1>8, <1>9 DEF t

\* The UI thread runs the first of what waits, and the list is started again
\* later or by it.
LEMMA ShownAfterReset ==
  ASSUME NEW q \in Seq(Closures), q # <<>>, NEW l, NEW m, NEW p, LastReset(Tail(q), p),
         p > 0 \/ (Head(q).do = "reset" /\ m = Head(q).cores)
  PROVE  /\ p + 1 \in 1 .. Len(q) /\ LastReset(q, p + 1)
         /\ Base(Tail(q), m, p) = Base(q, l, p + 1) /\ (p > 0 => Tail(q)[p] = q[p + 1])
         /\ \A x : Shows(Tail(q), m, p, x) <=> Shows(q, l, p + 1, x)
         /\ \A x, y : Ahead(Tail(q), m, p, x, y) => Ahead(q, l, p + 1, x, y)
<1> DEFINE t == Tail(q)
<1>1. /\ Len(q) \in Nat /\ DOMAIN q = 1 .. Len(q) /\ q[1] = Head(q)
      /\ DOMAIN t = 1 .. Len(q) - 1 /\ Len(t) = Len(q) - 1
      /\ \A i \in DOMAIN t : i + 1 \in DOMAIN q /\ t[i] = q[i + 1]
      /\ \A i \in DOMAIN q : i = 1 \/ (i - 1 \in DOMAIN t /\ t[i - 1] = q[i])
      /\ 1 \in DOMAIN q
  BY Popped
<1>2. LastReset(t, p)
  OBVIOUS
<1> HIDE DEF t
<1>3. p \in 0 .. Len(q) - 1 /\ p + 1 \in 1 .. Len(q)
  BY <1>1, <1>2 DEF LastReset
<1>4. p > 0 => p \in DOMAIN t /\ t[p] = q[p + 1]
  BY <1>1, <1>3
<1>5. q[p + 1].do = "reset"
  BY <1>1, <1>2, <1>3, <1>4 DEF LastReset
<1>6. \A i \in DOMAIN q : i > p + 1 => i - 1 \in DOMAIN t /\ t[i - 1] = q[i] /\ i - 1 > p
  BY <1>1, <1>3
<1>7. LastReset(q, p + 1)
  BY <1>2, <1>3, <1>5, <1>6 DEF LastReset
<1>8. Base(t, m, p) = Base(q, l, p + 1)
  BY <1>1, <1>3, <1>4 DEF Base
<1>9. ASSUME NEW x
      PROVE  Added(t, p, x) <=> Added(q, p + 1, x)
  <2>1. Added(q, p + 1, x) => Added(t, p, x)
    BY <1>6 DEF Added
  <2>2. ASSUME NEW i \in DOMAIN t, i > p, IsAdd(t[i], x)
        PROVE  Added(q, p + 1, x)
    <3>1. i + 1 \in DOMAIN q /\ t[i] = q[i + 1] /\ i + 1 > p + 1
      BY <1>1, <1>3, <2>2
    <3> QED
      BY <2>2, <3>1 DEF Added
  <2> QED
    BY <2>1, <2>2 DEF Added
<1>10. ASSUME NEW x, NEW y, Ahead(t, m, p, x, y)
       PROVE  Ahead(q, l, p + 1, x, y)
  <2>1. ASSUME NEW i \in DOMAIN t, NEW j \in DOMAIN t, p < i, i < j, IsAdd(t[i], x), IsAdd(t[j], y)
        PROVE  Ahead(q, l, p + 1, x, y)
    <3>1. /\ i + 1 \in DOMAIN q /\ t[i] = q[i + 1] /\ p + 1 < i + 1
          /\ j + 1 \in DOMAIN q /\ t[j] = q[j + 1] /\ i + 1 < j + 1
      BY <1>1, <1>3, <2>1
    <3> QED
      BY <2>1, <3>1 DEF Ahead, AddsInTurn
  <2>2. CASE Follow(Base(t, m, p), x, y)
    BY <1>8, <2>2 DEF Ahead
  <2>3. CASE x \in Range(Base(t, m, p)) /\ Added(t, p, y)
    BY <1>8, <1>9, <2>3 DEF Ahead
  <2> QED
    BY <1>10, <2>1, <2>2, <2>3 DEF Ahead, AddsInTurn
<1> QED
  BY <1>3, <1>4, <1>7, <1>8, <1>9, <1>10 DEF t, Shows

\* Or the list is not started again.
LEMMA ShownAfterRun ==
  ASSUME NEW q \in Seq(Closures), q # <<>>, Head(q).do # "reset", LastReset(Tail(q), 0)
  PROVE  /\ LastReset(q, 0)
         /\ \A x : Added(q, 0, x) <=> IsAdd(Head(q), x) \/ Added(Tail(q), 0, x)
         /\ \A x, y : AddsInTurn(Tail(q), 0, x, y) => AddsInTurn(q, 0, x, y)
         /\ \A x, y : IsAdd(Head(q), x) /\ Added(Tail(q), 0, y) => AddsInTurn(q, 0, x, y)
<1> DEFINE t == Tail(q)
<1>1. /\ Len(q) \in Nat /\ DOMAIN q = 1 .. Len(q) /\ q[1] = Head(q)
      /\ DOMAIN t = 1 .. Len(q) - 1 /\ Len(t) = Len(q) - 1 /\ 1 \in DOMAIN q
      /\ \A i \in DOMAIN t : i + 1 \in DOMAIN q /\ t[i] = q[i + 1]
      /\ \A i \in DOMAIN q : i = 1 \/ (i - 1 \in DOMAIN t /\ t[i - 1] = q[i])
  BY Popped
<1>2. LastReset(t, 0)
  OBVIOUS
<1> HIDE DEF t
<1>3. LastReset(q, 0)
  <2>1. \A i \in DOMAIN q : q[i].do # "reset"
    <3> SUFFICES ASSUME NEW i \in DOMAIN q, i # 1
                 PROVE  q[i].do # "reset"
      BY <1>1
    <3>1. i - 1 \in DOMAIN t /\ t[i - 1] = q[i] /\ i - 1 > 0
      BY <1>1
    <3> QED
      BY <3>1, <1>2 DEF LastReset
  <2> QED
    BY <2>1, <1>1 DEF LastReset
<1>4. ASSUME NEW x
      PROVE  Added(q, 0, x) <=> IsAdd(q[1], x) \/ Added(t, 0, x)
  <2>1. ASSUME NEW i \in DOMAIN q, IsAdd(q[i], x)
        PROVE  IsAdd(q[1], x) \/ Added(t, 0, x)
    <3>1. i = 1 \/ (i - 1 \in DOMAIN t /\ t[i - 1] = q[i] /\ i - 1 > 0)
      BY <1>1
    <3> QED
      BY <2>1, <3>1 DEF Added
  <2>2. ASSUME NEW i \in DOMAIN t, IsAdd(t[i], x)
        PROVE  Added(q, 0, x)
    <3>1. i + 1 \in DOMAIN q /\ t[i] = q[i + 1] /\ i + 1 > 0
      BY <1>1
    <3> QED
      BY <2>2, <3>1 DEF Added
  <2>3. IsAdd(q[1], x) => Added(q, 0, x)
    <3>1. 1 \in DOMAIN q /\ 1 > 0
      BY <1>1
    <3> QED
      BY <3>1 DEF Added
  <2> QED
    BY <2>1, <2>2, <2>3 DEF Added
<1>5. ASSUME NEW x, NEW y, NEW i \in DOMAIN t, NEW j \in DOMAIN t, i < j, IsAdd(t[i], x), IsAdd(t[j], y)
      PROVE  AddsInTurn(q, 0, x, y)
  <2>1. /\ i + 1 \in DOMAIN q /\ t[i] = q[i + 1] /\ 0 < i + 1
        /\ j + 1 \in DOMAIN q /\ t[j] = q[j + 1] /\ i + 1 < j + 1
    BY <1>1, <1>5
  <2> QED
    BY <1>5, <2>1 DEF AddsInTurn
<1>6. ASSUME NEW x, NEW y, IsAdd(q[1], x), NEW j \in DOMAIN t, IsAdd(t[j], y)
      PROVE  AddsInTurn(q, 0, x, y)
  <2>1. j + 1 \in DOMAIN q /\ t[j] = q[j + 1] /\ 1 < j + 1 /\ 0 < 1
    BY <1>1
  <2> QED
    BY <1>1, <1>6, <2>1 DEF AddsInTurn
<1>7. \A x, y : AddsInTurn(t, 0, x, y) => AddsInTurn(q, 0, x, y)
  BY <1>5 DEF AddsInTurn
<1>8. \A x, y : IsAdd(q[1], x) /\ Added(t, 0, y) => AddsInTurn(q, 0, x, y)
  BY <1>6 DEF Added
<1> QED
  BY <1>1, <1>3, <1>4, <1>7, <1>8 DEF t

\* What of the current call is unaffected by running the first of what waits.
LEMMA AnswersRest ==
  ASSUME NEW q \in Seq(Closures), q # <<>>, NEW x, NEW e \in DOMAIN q, e # 1, Answers(q, e, x)
  PROVE  \E i \in DOMAIN Tail(q) : Answers(Tail(q), i, x)
<1> DEFINE t == Tail(q)
<1>1. /\ Len(q) \in Nat /\ DOMAIN q = 1 .. Len(q)
      /\ DOMAIN t = 1 .. Len(q) - 1
      /\ \A i \in DOMAIN t : i + 1 \in DOMAIN q /\ t[i] = q[i + 1]
      /\ \A i \in DOMAIN q : i = 1 \/ (i - 1 \in DOMAIN t /\ t[i - 1] = q[i])
  BY Popped
<1> HIDE DEF t
<1>2. e - 1 \in DOMAIN t /\ t[e - 1] = q[e]
  BY <1>1
<1>3. \A i \in DOMAIN t : i > e - 1 => i + 1 \in DOMAIN q /\ t[i] = q[i + 1] /\ i + 1 > e
  BY <1>1
<1>4. Answers(t, e - 1, x)
  BY <1>2, <1>3 DEF Answers, Quiet
<1> QED
  BY <1>2, <1>4 DEF t

\* ... nor is the quiet of what waits.
LEMMA QuietRest ==
  ASSUME NEW q \in Seq(Closures), q # <<>>, NEW p \in Nat
  PROVE  /\ Quiet(q, p + 1) => Quiet(Tail(q), p)
         /\ Quiet(q, 0) => Quiet(Tail(q), 0) /\ ~Moves(Head(q))
         /\ \A x : Silent(q, x) => Silent(Tail(q), x) /\ ~IsEvent(Head(q), x)
<1> DEFINE t == Tail(q)
<1>1. /\ Len(q) \in Nat /\ DOMAIN q = 1 .. Len(q) /\ 1 \in DOMAIN q /\ q[1] = Head(q)
      /\ DOMAIN t = 1 .. Len(q) - 1
      /\ \A i \in DOMAIN t : i + 1 \in DOMAIN q /\ t[i] = q[i + 1]
  BY Popped
<1> HIDE DEF t
<1>2. Quiet(q, p + 1) => Quiet(t, p)
  <2>1. \A i \in DOMAIN t : i > p => i + 1 \in DOMAIN q /\ t[i] = q[i + 1] /\ i + 1 > p + 1
    BY <1>1
  <2> QED
    BY <2>1 DEF Quiet
<1>3. Quiet(q, 0) => Quiet(t, 0) /\ ~Moves(q[1])
  <2>1. \A i \in DOMAIN t : i + 1 \in DOMAIN q /\ t[i] = q[i + 1] /\ i + 1 > 0
    BY <1>1
  <2> QED
    BY <2>1, <1>1 DEF Quiet
<1>4. \A x : Silent(q, x) => Silent(t, x) /\ ~IsEvent(q[1], x)
  BY <1>1 DEF Silent
<1> QED
  BY <1>1, <1>2, <1>3, <1>4 DEF t

-----------------------------------------------------------------------------
\* When lUpdate() has been answered it had been, or is answered now.
LEMMA UpToDateBefore ==
  ASSUME Types, Chain, CallsKnown, OneActive, Next, UpToDate'
  PROVE  \/ RunUpdate
         \/ /\ UpToDate
            /\ \/ Spoken \/ Skipped
               \/ \E c \in Calls, s \in {"ringing", "dialing"} : CallCreated(c, s)
               \/ Reset \/ Add \/ RunLastCallEnded \/ RunSetState
               \/ \E x \in Cores : Collect(x)
<1>1. uiLoop \in Seq(Closures) /\ sdkLoop \in Seq(SdkClosures)
  BY DEF Types
<1>2. core' = "on" /\ ~Has(uiLoop', "initLists") /\ ~Has(sdkLoop', "update")
  BY DEF UpToDate, Asking
<1>3. ASSUME SdkRuns("resume") \/ sdkLoop' = sdkLoop
      PROVE  ~Has(sdkLoop, "update")
  <2>1. CASE SdkRuns("resume")
    <3>1. sdkLoop # <<>> /\ sdkLoop' = Tail(sdkLoop) /\ Head(sdkLoop).do = "resume"
      BY <2>1, SdkPopped
    <3> QED
      BY <1>1, <1>2, <3>1, HoldingRest
  <2> QED
    BY <1>2, <1>3, <2>1
<1>4. ASSUME uiLoop # <<>>, uiLoop' = Tail(uiLoop), Head(uiLoop).do # "initLists"
      PROVE  ~Has(uiLoop, "initLists")
  BY <1>1, <1>2, <1>4, HoldingRest
<1>5. ASSUME core' = core, ~Has(uiLoop, "initLists"), ~Has(sdkLoop, "update")
      PROVE  UpToDate
  BY <1>2, <1>5 DEF UpToDate, Asking
<1>6. CASE Spoken
  <2>1. PICK b \in Seq(Closures) : Speaks(b)
    BY <1>6 DEF Spoken
  <2>2. uiLoop' = uiLoop \o b
    BY <2>1 DEF Speaks
  <2>3. ~Has(uiLoop, "initLists")
    BY <1>1, <1>2, <2>2, Holding
  <2>4. core' = core
    BY <1>6 DEF Spoken, Changes
  <2>5. UpToDate
    BY <1>3, <1>5, <1>6, <2>3, <2>4 DEF Spoken
  <2> QED
    BY <1>6, <2>5
<1>7. CASE Skipped
  <2>1. core' = core /\ uiLoop' = uiLoop
    BY <1>7 DEF Skipped, sdk
  <2>2. UpToDate
    BY <1>2, <1>3, <1>5, <1>7, <2>1 DEF Skipped
  <2> QED
    BY <1>7, <2>2
<1>8. ASSUME NEW c \in Calls, NEW s \in {"ringing", "dialing"}, CallCreated(c, s)
      PROVE  UpToDate
  <2> DEFINE f == [do |-> "add", core |-> <<c, 0>>]
  <2>1. f \in Closures
    <3>1. <<c, 0>> \in Cores
      BY CallListAssumption DEF Cores, Made
    <3> QED
      BY <3>1, Posted
  <2>2. core' = core /\ sdkLoop' = sdkLoop /\ (uiLoop' = Append(uiLoop, f) \/ uiLoop' = uiLoop)
    BY <1>8 DEF CallCreated
  <2> HIDE DEF f
  <2>3. ~Has(uiLoop, "initLists")
    <3>1. Has(uiLoop, "initLists") => Has(Append(uiLoop, f), "initLists")
      BY <1>1, <2>1, HoldingOne
    <3> QED
      BY <1>2, <2>2, <3>1
  <2> QED
    BY <1>2, <1>5, <2>2, <2>3
<1>9. ~StopCore /\ ~CoreStopped
  BY <1>2 DEF StopCore, CoreStopped
<1>10. ~StartCore
  <2> SUFFICES ASSUME StartCore
               PROVE  FALSE
    OBVIOUS
  <2>1. uiLoop' = Append(uiLoop, Do("initLists"))
    BY DEF StartCore
  <2>2. Do("initLists") \in Closures /\ Do("initLists").do = "initLists"
    BY Posted
  <2> QED
    BY <1>1, <1>2, <2>1, <2>2, HoldingOne
<1>11. ~InitLists
  <2> SUFFICES ASSUME InitLists
               PROVE  FALSE
    OBVIOUS
  <2>1. sdkLoop' = Append(sdkLoop, Do("update"))
    BY DEF InitLists
  <2>2. Do("update") \in SdkClosures /\ Do("update").do = "update"
    BY Posted
  <2> QED
    BY <1>1, <1>2, <2>1, <2>2, HoldingOne
<1>12. ~ResetList
  <2> SUFFICES ASSUME ResetList
               PROVE  FALSE
    OBVIOUS
  <2>1. uiLoop # <<>> /\ Head(uiLoop).do = "resetData" /\ core' = core
    BY DEF ResetList, UiRuns, sdk
  <2>2. Has(uiLoop, "resetData")
    BY <1>1, <2>1, HoldingRest
  <2> QED
    BY <1>2, <2>1, <2>2 DEF Chain
<1>13. CASE Reset \/ Add \/ RunLastCallEnded
  <2>1. /\ uiLoop # <<>> /\ uiLoop' = Tail(uiLoop) /\ Head(uiLoop).do # "initLists"
        /\ core' = core /\ sdkLoop' = sdkLoop
    BY <1>13 DEF Reset, Add, RunLastCallEnded, UiRuns, sdk
  <2>2. UpToDate
    BY <1>2, <1>4, <1>5, <2>1
  <2> QED
    BY <1>13, <2>2
<1>14. CASE RunSetState
  <2>1. /\ uiLoop # <<>> /\ uiLoop' = Tail(uiLoop) /\ Head(uiLoop).do # "initLists" /\ core' = core
    BY <1>14 DEF RunSetState, UiRuns, sdk
  <2>2. sdkLoop' = sdkLoop \/ (NextCall # None /\ sdkLoop' = Append(sdkLoop, Resume(NextCall)))
    BY <1>14 DEF RunSetState, Release
  <2>3. NextCall # None => Resume(NextCall) \in SdkClosures
    BY NextIsListed, Posted
  <2>4. ~Has(sdkLoop, "update")
    <3>1. NextCall # None /\ Has(sdkLoop, "update") => Has(Append(sdkLoop, Resume(NextCall)), "update")
      BY <1>1, <2>3, HoldingOne
    <3> QED
      BY <1>2, <2>2, <3>1
  <2>5. UpToDate
    BY <1>4, <1>5, <2>1, <2>4
  <2> QED
    BY <1>14, <2>5
<1>15. ASSUME NEW x \in Cores, Collect(x)
       PROVE  UpToDate
  BY <1>2, <1>5, <1>15 DEF Collect
<1> QED
  BY Steps, <1>6, <1>7, <1>8, <1>9, <1>10, <1>11, <1>12, <1>13, <1>14, <1>15

-----------------------------------------------------------------------------
(* What the list will show, after each step.                               *)
Sound == /\ Types /\ Chain /\ Kept /\ Numbers /\ CallsKnown /\ OneActive
         /\ Placed /\ ReleasedIsTrue /\ Told

\* A CallCore that is shown is held.
LEMMA ShownIsHeld ==
  ASSUME Types, Kept, NEW p, LastReset(uiLoop, p), NEW x \in Cores, Shows(uiLoop, list, p, x)
  PROVE  x \in listening /\ x[1] \in Calls
<1> SUFFICES x \in listening
  BY DEF Cores
<1>1. DOMAIN uiLoop = 1 .. Len(uiLoop) /\ Len(uiLoop) \in Nat
  BY LenProperties DEF Types
<1>2. x \in Range(list) \/ Waits(uiLoop, x) => x \in listening
  BY WaitsFacts DEF Kept
<1>3. CASE x \in Range(Base(uiLoop, list, p)) /\ p = 0
  BY <1>2, <1>3 DEF Base
<1>4. CASE x \in Range(Base(uiLoop, list, p)) /\ p # 0
  <2>1. p \in DOMAIN uiLoop /\ uiLoop[p].do = "reset" /\ x \in Range(uiLoop[p].cores)
    BY <1>1, <1>4 DEF Base, LastReset
  <2>2. Carries(uiLoop[p], x)
    BY <2>1 DEF Carries
  <2> QED
    BY <1>2, <2>1, <2>2 DEF Waits
<1>5. CASE Added(uiLoop, p, x)
  BY <1>2, <1>5 DEF Added, IsAdd, Waits, Carries
<1> QED
  BY <1>3, <1>4, <1>5 DEF Shows

\* One of two CallCores in order is listed.
LEMMA AheadIsShown ==
  ASSUME NEW q \in Seq(Closures), NEW l, NEW p \in Nat, NEW x, NEW y, Ahead(q, l, p, x, y)
  PROVE  Shows(q, l, p, x) /\ Shows(q, l, p, y)
<1>1. CASE Follow(Base(q, l, p), x, y)
  BY <1>1 DEF Follow, Shows, Range
<1>2. CASE x \in Range(Base(q, l, p)) /\ Added(q, p, y)
  BY <1>2 DEF Shows
<1>3. CASE AddsInTurn(q, p, x, y)
  BY <1>3, LenProperties DEF AddsInTurn, Shows, Added
<1> QED
  BY <1>1, <1>2, <1>3 DEF Ahead

\* Nor does the current call change by what moves no call.
LEMMA StillCurrent ==
  ASSUME NEW q, NEW t, NEW l, NEW m, NEW now, NEW p, NEW x, WillBeCurrent(q, l, now, p, x),
         \A i \in DOMAIN q : i \in DOMAIN t /\ t[i] = q[i],
         \A i \in DOMAIN t : \/ i \in DOMAIN q /\ t[i] = q[i]
                             \/ ~Moves(t[i]) /\ ~IsEvent(t[i], x),
         Base(t, m, p) = Base(q, l, p), p = 0 \/ t[p] = q[p]
  PROVE  WillBeCurrent(t, m, now, p, x)
<1>1. \A e \in DOMAIN q : Answers(q, e, x) => e \in DOMAIN t /\ Answers(t, e, x)
  BY DEF Answers, Quiet
<1>2. (Silent(q, x) => Silent(t, x)) /\ (Quiet(q, p) => Quiet(t, p))
  BY DEF Silent, Quiet
<1>3. CASE \E e \in DOMAIN q : Answers(q, e, x)
  BY <1>1, <1>3 DEF WillBeCurrent
<1>4. CASE /\ Silent(q, x) /\ Quiet(q, p) /\ x \in Range(Base(q, l, p))
           /\ x = IF p = 0 THEN now ELSE q[p].current
  BY <1>2, <1>4 DEF WillBeCurrent
<1> QED
  BY <1>3, <1>4 DEF WillBeCurrent

\* The parts of what must hold after a step.
LEMMA FitsNext ==
  ASSUME NEW p,
         \A c \in Calls : state'[c] \in Live => \E x \in Cores : x[1] = c /\ Shows(uiLoop', list', p, x),
         \A x, y \in Cores :
           Ahead(uiLoop', list', p, x, y) /\ state'[x[1]] \in Live /\ state'[y[1]] \in Live
             => Older(x[1], y[1])',
         \A x \in Cores : Shows(uiLoop', list', p, x) /\ state'[x[1]] = "released" =>
           /\ seen'[x] # "released"
           /\ \E i \in DOMAIN uiLoop' : IsEvent(uiLoop'[i], x) /\ uiLoop'[i].state = "released",
         \A x \in Cores : Shows(uiLoop', list', p, x) =>
           \A y \in listening' : y[1] = x[1] => y[2] <= x[2],
         p = 0 => current' \in Range(list') \cup {None},
         \A x \in Cores : Shows(uiLoop', list', p, x) /\ state'[x[1]] \in Active =>
           WillBeCurrent(uiLoop', list', current', p, x)
  PROVE  Fits(uiLoop, list, current, p)'
BY DEF Fits, Complete, InOrder, Leaving, Newest, CurrentListed, CurrentFollows, Older

\* A change of calls: the last event of the newest CallCore makes it current.
LEMMA ViewSpoken ==
  ASSUME Sound, View, UpToDate, Spoken, NEW p, LastReset(uiLoop', p)
  PROVE  Fits(uiLoop, list, current, p)'
<1>1. PICK b \in Seq(Closures) : Speaks(b)
  BY DEF Spoken
<1>2. /\ uiLoop' = uiLoop \o b /\ uiLoop \in Seq(Closures) /\ Changes
      /\ list' = list /\ current' = current /\ listening' = listening /\ seen' = seen
  BY <1>1 DEF Spoken, Changes, Speaks, Sound, Types, ui
<1>3. \A i \in DOMAIN b : b[i].do \in {"setState", "lastCallEnded"}
  BY <1>1 DEF Speaks
<1>4. \A i \in DOMAIN b : b[i].do # "reset" /\ \A x : ~IsAdd(b[i], x)
  BY <1>3 DEF IsAdd
<1>5. /\ p \in 0 .. Len(uiLoop) /\ LastReset(uiLoop, p)
      /\ Base(uiLoop', list, p) = Base(uiLoop, list, p) /\ (p > 0 => uiLoop'[p] = uiLoop[p])
      /\ \A x : Added(uiLoop', p, x) <=> Added(uiLoop, p, x)
      /\ \A x, y : Ahead(uiLoop', list, p, x, y) => Ahead(uiLoop, list, p, x, y)
  <2>1. /\ p \in 0 .. Len(uiLoop) /\ LastReset(uiLoop, p)
        /\ Base(uiLoop', list, p) = Base(uiLoop, list, p) /\ (p > 0 => uiLoop'[p] = uiLoop[p])
        /\ \A x : Added(uiLoop', p, x) <=> Added(uiLoop, p, x) \/ \E i \in DOMAIN b : IsAdd(b[i], x)
        /\ \A x, y : Ahead(uiLoop', list, p, x, y) =>
             \/ Ahead(uiLoop, list, p, x, y)
             \/ Shows(uiLoop, list, p, x) /\ \E i \in DOMAIN b : IsAdd(b[i], y)
             \/ AddsInTurn(b, 0, x, y)
    BY <1>2, <1>4, ShownAfterPost
  <2>2. \A x, y : ~AddsInTurn(b, 0, x, y)
    BY <1>4 DEF AddsInTurn
  <2> QED
    BY <1>4, <2>1, <2>2
<1>6. \A x : Shows(uiLoop', list, p, x) <=> Shows(uiLoop, list, p, x)
  BY <1>5 DEF Shows
<1>7. Fits(uiLoop, list, current, p)
  BY <1>5 DEF View
<1>8. /\ Len(uiLoop) \in Nat /\ DOMAIN uiLoop = 1 .. Len(uiLoop)
      /\ Len(b) \in Nat /\ DOMAIN b = 1 .. Len(b)
      /\ DOMAIN uiLoop' = 1 .. Len(uiLoop) + Len(b)
      /\ \A i \in DOMAIN uiLoop : i \in DOMAIN uiLoop' /\ uiLoop'[i] = uiLoop[i]
      /\ \A i \in DOMAIN b : Len(uiLoop) + i \in DOMAIN uiLoop' /\ uiLoop'[Len(uiLoop) + i] = b[i]
      /\ \A i \in DOMAIN uiLoop' :
           \/ i \in DOMAIN uiLoop /\ uiLoop'[i] = uiLoop[i]
           \/ i > Len(uiLoop) /\ i - Len(uiLoop) \in DOMAIN b /\ uiLoop'[i] = b[i - Len(uiLoop)]
  BY <1>2, JoinedEach
<1>9. \A x \in Cores : Shows(uiLoop, list, p, x) => x \in listening /\ x[1] \in Calls
  BY <1>5, ShownIsHeld DEF Sound
<1>10. \A x \in listening : state'[x[1]] # state[x[1]] =>
         \E i \in DOMAIN b : IsEvent(b[i], x) /\ b[i].state = state'[x[1]]
  BY <1>1 DEF Speaks, IsEvent
<1>11. Live \cap {"none", "ended", "released"} = {} /\ Active \subseteq Live
  BY DEF Live, Active
<1>12. \A c \in Calls : state'[c] \in Live => state[c] \in Live
  BY <1>2, <1>11 DEF Changes
<1>13. \A c \in Calls : state'[c] \in Live =>
         \E x \in Cores : x[1] = c /\ Shows(uiLoop', list', p, x)
  BY <1>2, <1>6, <1>7, <1>12 DEF Fits, Complete
<1>14. \A x, y \in Cores :
         Ahead(uiLoop', list', p, x, y) /\ state'[x[1]] \in Live /\ state'[y[1]] \in Live
           => Older(x[1], y[1])'
  <2>1. \A x \in Cores : x[1] \in Calls
    BY DEF Cores
  <2> QED
    BY <1>2, <1>5, <1>7, <1>12, <2>1 DEF Fits, InOrder, Changes
<1>15. ASSUME NEW x \in Cores, Shows(uiLoop', list', p, x), state'[x[1]] = "released"
       PROVE  /\ seen'[x] # "released"
              /\ \E i \in DOMAIN uiLoop' : IsEvent(uiLoop'[i], x) /\ uiLoop'[i].state = "released"
  <2>1. Shows(uiLoop, list, p, x) /\ x \in listening /\ x[1] \in Calls
    BY <1>2, <1>6, <1>9, <1>15
  <2>2. CASE state[x[1]] = "released"
    <3>1. /\ seen[x] # "released"
          /\ \E i \in DOMAIN uiLoop : IsEvent(uiLoop[i], x) /\ uiLoop[i].state = "released"
      BY <1>7, <2>1, <2>2 DEF Fits, Leaving
    <3> QED
      BY <1>2, <1>8, <3>1
  <2>3. CASE state[x[1]] # "released"
    <3>1. seen[x] # "released"
      BY <2>3 DEF Sound, ReleasedIsTrue
    <3>2. PICK i \in DOMAIN b : IsEvent(b[i], x) /\ b[i].state = "released"
      BY <1>10, <1>15, <2>1, <2>3
    <3>3. Len(uiLoop) + i \in DOMAIN uiLoop' /\ uiLoop'[Len(uiLoop) + i] = b[i]
      BY <1>8
    <3> QED
      BY <1>2, <3>1, <3>2, <3>3
  <2> QED
    BY <2>2, <2>3
<1>16. \A x \in Cores : Shows(uiLoop', list', p, x) =>
         \A y \in listening' : y[1] = x[1] => y[2] <= x[2]
  BY <1>2, <1>6, <1>7 DEF Fits, Newest
<1>17. p = 0 => current' \in Range(list') \cup {None}
  BY <1>2, <1>7 DEF Fits, CurrentListed
<1>18. ASSUME NEW x \in Cores, Shows(uiLoop', list', p, x), state'[x[1]] \in Active
       PROVE  WillBeCurrent(uiLoop', list', current', p, x)
  <2>1. Shows(uiLoop, list, p, x) /\ x \in listening /\ x[1] \in Calls
    BY <1>2, <1>6, <1>9, <1>18
  <2>2. \A i \in DOMAIN b : Moves(b[i]) => b[i].do = "setState" /\ b[i].core[1] = x[1]
    BY <1>1, <1>18, <2>1 DEF Speaks
  <2>3. CASE state'[x[1]] = state[x[1]]
    <3>1. \A i \in DOMAIN b : b[i].do = "setState" => b[i].core[1] # x[1]
      BY <1>1, <2>3 DEF Speaks
    <3>2. \A i \in DOMAIN b : ~Moves(b[i]) /\ ~IsEvent(b[i], x)
      BY <2>2, <3>1 DEF IsEvent
    <3>3. \A i \in DOMAIN uiLoop' : \/ i \in DOMAIN uiLoop /\ uiLoop'[i] = uiLoop[i]
                                    \/ ~Moves(uiLoop'[i]) /\ ~IsEvent(uiLoop'[i], x)
      BY <1>8, <3>2
    <3>4. WillBeCurrent(uiLoop, list, current, p, x)
      BY <1>7, <1>18, <2>1, <2>3 DEF Fits, CurrentFollows
    <3>5. /\ Base(uiLoop', list', p) = Base(uiLoop, list, p) /\ current' = current
          /\ p = 0 \/ uiLoop'[p] = uiLoop[p]
      BY <1>2, <1>5
    <3> QED
      BY <1>8, <3>3, <3>4, <3>5, StillCurrent
  <2>4. CASE state'[x[1]] # state[x[1]]
    <3>1. PICK i \in DOMAIN b : IsEvent(b[i], x)
      BY <1>10, <2>1, <2>4
    <3>2. ASSUME NEW j \in DOMAIN b, i < j
          PROVE  ~IsEvent(b[j], x) /\ ~Moves(b[j])
      <4>1. ~IsEvent(b[j], x)
        <5>1. i \in Nat
          BY <1>8
        <5> QED
          BY <1>1, <3>1, <3>2, <5>1, SpeaksOnce
      <4>2. ASSUME Moves(b[j])
            PROVE  FALSE
        <5>1. b[j].do = "setState" /\ b[j].core[1] = x[1]
          BY <2>2, <4>2
        <5>2. b[i].core = x /\ b[i].do = "setState"
          BY <3>1 DEF IsEvent
        <5>3. x[2] < b[j].core[2] /\ b[j].core \in listening
          BY <1>1, <3>2, <5>1, <5>2 DEF Speaks
        <5>4. b[j].core[2] <= x[2]
          BY <1>7, <2>1, <5>1, <5>3 DEF Fits, Newest
        <5>5. b[j].core[2] \in Nat /\ x[2] \in Nat
          <6>1. \A y \in Cores : y[2] \in Nat
            BY DEF Cores, Made
          <6>2. listening \subseteq Cores
            BY DEF Sound, Types
          <6> QED
            BY <5>3, <6>1, <6>2
        <5> QED
          BY <5>3, <5>4, <5>5
      <4> QED
        BY <4>1, <4>2
    <3> DEFINE e == Len(uiLoop) + i
    <3>3. e \in DOMAIN uiLoop' /\ uiLoop'[e] = b[i] /\ \A j \in DOMAIN uiLoop : j < e
      BY <1>8
    <3>4. ASSUME NEW j \in DOMAIN uiLoop', j > e
          PROVE  ~IsEvent(uiLoop'[j], x) /\ ~Moves(uiLoop'[j])
      <4>1. j - Len(uiLoop) \in DOMAIN b /\ uiLoop'[j] = b[j - Len(uiLoop)] /\ i < j - Len(uiLoop)
        BY <1>8, <3>4
      <4> QED
        BY <3>2, <4>1
    <3> HIDE DEF e
    <3>5. Answers(uiLoop', e, x)
      BY <3>1, <3>3, <3>4 DEF Answers, Quiet
    <3> QED
      BY <3>3, <3>5 DEF WillBeCurrent
  <2> QED
    BY <2>3, <2>4
<1> QED
  BY <1>13, <1>14, <1>15, <1>16, <1>17, <1>18, FitsNext

-----------------------------------------------------------------------------
\* A call is created: it is the newest, and listed last.
LEMMA ViewCreated ==
  ASSUME Sound, View, UpToDate, NEW c \in Calls, NEW s \in {"ringing", "dialing"},
         CallCreated(c, s), NEW p, LastReset(uiLoop', p)
  PROVE  Fits(uiLoop, list, current, p)'
<1> DEFINE z == <<c, 0>>
           f == [do |-> "add", core |-> z]
           b == <<f>>
<1>1. z \in Cores /\ z[1] = c /\ z[2] = 0
  BY CallListAssumption DEF Cores, Made
<1>2. f \in Closures /\ f.do = "add" /\ f.core = z
  BY <1>1, Posted
<1>3. connected
  BY DEF UpToDate, Asking, Sound, Chain
<1>4. /\ state[c] = "none" /\ state' = [state EXCEPT ![c] = s] /\ calls' = Append(calls, c)
      /\ listening' = listening \cup {z} /\ seen' = [seen EXCEPT ![z] = s]
      /\ uiLoop' = Append(uiLoop, f) /\ list' = list /\ current' = current
  BY <1>3 DEF CallCreated
<1>5. /\ uiLoop \in Seq(Closures) /\ listening \subseteq Cores
      /\ state \in [Calls -> States] /\ seen \in [Cores -> States] /\ calls \in Seq(Calls)
  BY DEF Sound, Types
<1> HIDE DEF z, f
<1>6. state'[c] = s /\ \A d \in Calls \ {c} : state'[d] = state[d]
  BY <1>4, <1>5
<1>7. \A x \in Cores : x # z => seen'[x] = seen[x]
  BY <1>4, <1>5
<1>8. \A x \in listening : x[1] # c
  BY <1>4 DEF Sound, Numbers
<1>9. /\ b \in Seq(Closures) /\ uiLoop' = uiLoop \o b /\ DOMAIN b = {1} /\ b[1] = f
  BY <1>2, <1>4, <1>5, AppendIsConcat
<1> HIDE DEF b
<1>10. \A i \in DOMAIN b : b[i].do # "reset" /\ \A x : IsAdd(b[i], x) <=> x = z
  BY <1>2, <1>9 DEF IsAdd
<1>11. /\ p \in 0 .. Len(uiLoop) /\ LastReset(uiLoop, p)
       /\ Base(uiLoop', list, p) = Base(uiLoop, list, p) /\ (p > 0 => uiLoop'[p] = uiLoop[p])
       /\ \A x : Added(uiLoop', p, x) <=> Added(uiLoop, p, x) \/ x = z
       /\ \A x, y : Ahead(uiLoop', list, p, x, y) =>
            Ahead(uiLoop, list, p, x, y) \/ (Shows(uiLoop, list, p, x) /\ y = z)
  <2>1. /\ p \in 0 .. Len(uiLoop) /\ LastReset(uiLoop, p)
        /\ Base(uiLoop', list, p) = Base(uiLoop, list, p) /\ (p > 0 => uiLoop'[p] = uiLoop[p])
        /\ \A x : Added(uiLoop', p, x) <=> Added(uiLoop, p, x) \/ \E i \in DOMAIN b : IsAdd(b[i], x)
        /\ \A x, y : Ahead(uiLoop', list, p, x, y) =>
             \/ Ahead(uiLoop, list, p, x, y)
             \/ Shows(uiLoop, list, p, x) /\ \E i \in DOMAIN b : IsAdd(b[i], y)
             \/ AddsInTurn(b, 0, x, y)
    <3>1. /\ uiLoop' = uiLoop \o b /\ b \in Seq(Closures) /\ uiLoop \in Seq(Closures)
          /\ \A i \in DOMAIN b : b[i].do # "reset"
      BY <1>5, <1>9, <1>10
    <3>2. LastReset(uiLoop \o b, p)
      BY <3>1
    <3> DEFINE t == uiLoop \o b
    <3>3. /\ p \in 0 .. Len(uiLoop) /\ LastReset(uiLoop, p)
          /\ Base(t, list, p) = Base(uiLoop, list, p) /\ (p > 0 => t[p] = uiLoop[p])
          /\ \A x : Added(t, p, x) <=> Added(uiLoop, p, x) \/ \E i \in DOMAIN b : IsAdd(b[i], x)
          /\ \A x, y : Ahead(t, list, p, x, y) =>
               \/ Ahead(uiLoop, list, p, x, y)
               \/ Shows(uiLoop, list, p, x) /\ \E i \in DOMAIN b : IsAdd(b[i], y)
               \/ AddsInTurn(b, 0, x, y)
      BY <3>1, <3>2, ShownAfterPost
    <3>4. uiLoop' = t
      BY <3>1
    <3> HIDE DEF t
    <3> QED
      BY <3>3, <3>4
  <2>2. \A x, y : ~AddsInTurn(b, 0, x, y)
    BY <1>9 DEF AddsInTurn
  <2>3. \A x : (\E i \in DOMAIN b : IsAdd(b[i], x)) <=> x = z
    BY <1>9, <1>10
  <2> QED
    BY <2>1, <2>2, <2>3
<1>12. \A x : Shows(uiLoop', list, p, x) <=> Shows(uiLoop, list, p, x) \/ x = z
  BY <1>11 DEF Shows
<1>13. Fits(uiLoop, list, current, p)
  BY <1>11 DEF View
<1>14. \A x \in Cores : Shows(uiLoop, list, p, x) => x \in listening /\ x[1] \in Calls /\ x[1] # c
  BY <1>8, <1>11, ShownIsHeld DEF Sound
<1>15. s \in Live /\ s \notin Active /\ s # "released" /\ "none" \notin Live
  BY DEF Live, Active
<1>16. \A d \in Calls : state'[d] \in Live =>
         \E x \in Cores : x[1] = d /\ Shows(uiLoop', list', p, x)
  <2>1. \A d \in Calls \ {c} : state'[d] \in Live =>
          \E x \in Cores : x[1] = d /\ Shows(uiLoop, list, p, x)
    BY <1>6, <1>13 DEF Fits, Complete
  <2> QED
    BY <1>1, <1>4, <1>12, <2>1
<1>17. \A x, y \in Cores :
         Ahead(uiLoop', list', p, x, y) /\ state'[x[1]] \in Live /\ state'[y[1]] \in Live
           => Older(x[1], y[1])'
  <2>1. /\ Len(calls) \in Nat /\ DOMAIN calls = 1 .. Len(calls)
        /\ DOMAIN calls' = 1 .. Len(calls) + 1
        /\ \A i \in DOMAIN calls : i \in DOMAIN calls' /\ calls'[i] = calls[i]
        /\ Len(calls) + 1 \in DOMAIN calls' /\ calls'[Len(calls) + 1] = c
    BY <1>4, <1>5, PostedEach
  <2>2. \A d, e \in Calls : Older(d, e) => Older(d, e)'
    BY <2>1 DEF Older, Follow
  <2>3. ASSUME NEW d \in Calls, state[d] \in Live
        PROVE  Older(d, c)'
    <3>1. d \in Range(calls)
      BY <2>3 DEF Sound, CallsKnown
    <3>2. PICK i \in DOMAIN calls : calls[i] = d
      BY <3>1 DEF Range
    <3>3. i < Len(calls) + 1 /\ i \in DOMAIN calls' /\ calls'[i] = d
      BY <2>1, <3>2
    <3> QED
      BY <2>1, <3>3 DEF Older, Follow
  <2> SUFFICES ASSUME NEW x \in Cores, NEW y \in Cores, Ahead(uiLoop', list', p, x, y),
                      state'[x[1]] \in Live, state'[y[1]] \in Live
               PROVE  Older(x[1], y[1])'
    OBVIOUS
  <2>4. x[1] \in Calls /\ y[1] \in Calls
    BY DEF Cores
  <2>5. CASE Ahead(uiLoop, list, p, x, y)
    <3>1. Shows(uiLoop, list, p, x) /\ Shows(uiLoop, list, p, y)
      BY <1>5, <1>11, <2>5, AheadIsShown
    <3>2. state[x[1]] \in Live /\ state[y[1]] \in Live
      BY <1>6, <1>14, <3>1
    <3>3. Older(x[1], y[1])
      BY <1>13, <2>5, <3>2 DEF Fits, InOrder
    <3> QED
      BY <2>2, <2>4, <3>3
  <2>6. CASE Shows(uiLoop, list, p, x) /\ y = z
    <3>1. x[1] # c
      BY <1>14, <2>6
    <3>2. state[x[1]] \in Live
      BY <1>6, <2>4, <3>1
    <3> QED
      BY <1>1, <2>3, <2>4, <2>6, <3>2
  <2> QED
    BY <1>4, <1>11, <2>5, <2>6
<1>18. ASSUME NEW x \in Cores, Shows(uiLoop', list', p, x), state'[x[1]] = "released"
       PROVE  /\ seen'[x] # "released"
              /\ \E i \in DOMAIN uiLoop' : IsEvent(uiLoop'[i], x) /\ uiLoop'[i].state = "released"
  <2>1. x # z
    BY <1>1, <1>6, <1>15, <1>18
  <2>2. Shows(uiLoop, list, p, x)
    BY <1>4, <1>12, <1>18, <2>1
  <2>3. state[x[1]] = "released"
    BY <1>6, <1>14, <1>18, <2>2
  <2>4. /\ seen[x] # "released"
        /\ \E i \in DOMAIN uiLoop : IsEvent(uiLoop[i], x) /\ uiLoop[i].state = "released"
    BY <1>13, <2>2, <2>3 DEF Fits, Leaving
  <2>5. \A i \in DOMAIN uiLoop : i \in DOMAIN uiLoop' /\ uiLoop'[i] = uiLoop[i]
    BY <1>2, <1>4, <1>5, PostedEach
  <2> QED
    BY <1>7, <2>1, <2>4, <2>5
<1>19. ASSUME NEW x \in Cores, Shows(uiLoop', list', p, x), NEW y \in listening', y[1] = x[1]
       PROVE  y[2] <= x[2]
  <2>1. CASE x = z
    <3>1. y = z
      BY <1>1, <1>4, <1>8, <1>19, <2>1
    <3> QED
      BY <1>1, <2>1, <3>1
  <2>2. CASE Shows(uiLoop, list, p, x)
    <3>1. y \in listening
      BY <1>1, <1>4, <1>14, <1>19, <2>2
    <3> QED
      BY <1>13, <1>19, <2>2, <3>1 DEF Fits, Newest
  <2> QED
    BY <1>4, <1>12, <1>19, <2>1, <2>2
<1>20. p = 0 => current' \in Range(list') \cup {None}
  BY <1>4, <1>13 DEF Fits, CurrentListed
<1>21. ASSUME NEW x \in Cores, Shows(uiLoop', list', p, x), state'[x[1]] \in Active
       PROVE  WillBeCurrent(uiLoop', list', current', p, x)
  <2>1. Shows(uiLoop, list, p, x)
    BY <1>1, <1>4, <1>6, <1>12, <1>15, <1>21
  <2>2. state[x[1]] \in Active
    BY <1>6, <1>14, <1>21, <2>1
  <2>3. WillBeCurrent(uiLoop, list, current, p, x)
    BY <1>13, <2>1, <2>2 DEF Fits, CurrentFollows
  <2>4. \A i \in DOMAIN uiLoop : i \in DOMAIN uiLoop' /\ uiLoop'[i] = uiLoop[i]
    BY <1>2, <1>4, <1>5, PostedEach
  <2>5. \A i \in DOMAIN uiLoop' : \/ i \in DOMAIN uiLoop /\ uiLoop'[i] = uiLoop[i]
                                  \/ ~Moves(uiLoop'[i]) /\ ~IsEvent(uiLoop'[i], x)
    <3>1. ~Moves(f) /\ ~IsEvent(f, x)
      BY <1>2 DEF Moves, IsEvent
    <3> QED
      BY <1>2, <1>4, <1>5, <3>1, PostedEach
  <2>6. Base(uiLoop', list', p) = Base(uiLoop, list, p) /\ current' = current
        /\ (p = 0 \/ uiLoop'[p] = uiLoop[p])
    BY <1>4, <1>11
  <2> QED
    BY <2>3, <2>4, <2>5, <2>6, StillCurrent
<1> QED
  BY <1>16, <1>17, <1>18, <1>19, <1>20, <1>21, FitsNext

\* lUpdate(): the list will be that of the live calls.
LEMMA ViewUpdate ==
  ASSUME Sound, RunUpdate, NEW p, LastReset(uiLoop', p)
  PROVE  Fits(uiLoop, list, current, p)'
<1>1. PICK fresh \in Seq(Cores), n \in Cores \cup {None} : Renews(fresh, n)
  BY UpdateRenews DEF Sound
<1> DEFINE f == [do |-> "reset", cores |-> fresh, current |-> n]
<1>2. f \in Closures /\ f.do = "reset" /\ f.cores = fresh /\ f.current = n
  BY Posted
<1>3. uiLoop' = Append(uiLoop, f) /\ uiLoop \in Seq(Closures)
  BY <1>1 DEF Renews, Sound, Types
<1> HIDE DEF f
<1>4. /\ Len(uiLoop) \in Nat /\ DOMAIN uiLoop = 1 .. Len(uiLoop)
      /\ Len(uiLoop') = Len(uiLoop) + 1 /\ DOMAIN uiLoop' = 1 .. Len(uiLoop) + 1
      /\ Len(uiLoop) + 1 \in DOMAIN uiLoop' /\ uiLoop'[Len(uiLoop) + 1] = f
      /\ \A i \in DOMAIN uiLoop' : \/ i \in DOMAIN uiLoop /\ uiLoop'[i] = uiLoop[i]
                                   \/ i = Len(uiLoop) + 1 /\ uiLoop'[i] = f
  BY <1>2, <1>3, PostedEach
<1>5. p = Len(uiLoop) + 1 /\ p > 0 /\ uiLoop'[p] = f /\ \A i \in DOMAIN uiLoop' : ~(i > p)
  <2>1. p \in 0 .. Len(uiLoop) + 1 /\ ~(Len(uiLoop) + 1 > p)
    BY <1>2, <1>4 DEF LastReset
  <2> QED
    BY <2>1, <1>4
<1>6. Base(uiLoop', list', p) = fresh
  BY <1>2, <1>5 DEF Base
<1>7. \A x, y : /\ Shows(uiLoop', list', p, x) <=> x \in Range(fresh)
                /\ Ahead(uiLoop', list', p, x, y) => Follow(fresh, x, y)
  <2>1. \A x, y : ~Added(uiLoop', p, x) /\ ~AddsInTurn(uiLoop', p, x, y)
    BY <1>5 DEF Added, AddsInTurn
  <2> QED
    BY <1>6, <2>1 DEF Shows, Ahead
<1>8. state' = state /\ calls' = calls /\ listening' = listening \cup Range(fresh)
  BY <1>1 DEF RunUpdate, Renews
<1>9. \A x \in Range(fresh) : x \in Cores /\ x \notin listening
                              /\ x[2] = updates + 1 /\ state[x[1]] \in Live
  BY <1>1 DEF Renews
<1>10. \A c \in Calls : state'[c] \in Live =>
         \E x \in Cores : x[1] = c /\ Shows(uiLoop', list', p, x)
  BY <1>1, <1>7, <1>8, <1>9 DEF Renews
<1>11. \A x, y \in Cores :
         Ahead(uiLoop', list', p, x, y) /\ state'[x[1]] \in Live /\ state'[y[1]] \in Live
           => Older(x[1], y[1])'
  <2>1. \A x, y \in Cores : Follow(fresh, x, y) => Older(x[1], y[1])
    BY <1>1 DEF Renews, Follow
  <2> QED
    BY <1>7, <1>8, <2>1 DEF Older
<1>12. \A x \in Cores : Shows(uiLoop', list', p, x) /\ state'[x[1]] = "released" =>
         /\ seen'[x] # "released"
         /\ \E i \in DOMAIN uiLoop' : IsEvent(uiLoop'[i], x) /\ uiLoop'[i].state = "released"
  BY <1>7, <1>8, <1>9 DEF Live
<1>13. ASSUME NEW x \in Cores, Shows(uiLoop', list', p, x), NEW y \in listening', y[1] = x[1]
       PROVE  y[2] <= x[2]
  <2>1. x[2] = updates + 1 /\ updates \in Nat
    BY <1>7, <1>9, <1>13 DEF Sound, Types
  <2>2. CASE y \in listening
    <3>1. y[2] <= updates /\ y[2] \in Nat
      <4>1. y \in Cores
        BY <2>2 DEF Sound, Types
      <4> QED
        BY <2>2, <4>1 DEF Sound, Numbers, Cores, Made
    <3> QED
      BY <2>1, <3>1
  <2>3. CASE y \in Range(fresh)
    BY <1>9, <2>1, <2>3
  <2> QED
    BY <1>8, <2>2, <2>3
<1>14. ASSUME NEW x \in Cores, Shows(uiLoop', list', p, x), state'[x[1]] \in Active
       PROVE  WillBeCurrent(uiLoop', list', current', p, x)
  <2>1. x \in Range(fresh) /\ state[x[1]] \in Active
    BY <1>7, <1>8, <1>14
  <2>2. n \in Range(fresh) /\ state[n[1]] \in Active
    BY <1>1, <2>1 DEF Renews
  <2>3. n = x
    <3>1. n \in Cores /\ n[2] = updates + 1 /\ x[2] = updates + 1
      BY <1>9, <2>1, <2>2
    <3>2. n[1] = x[1]
      <4>1. n[1] \in Calls /\ x[1] \in Calls
        BY <3>1 DEF Cores
      <4> QED
        BY <2>1, <2>2, <4>1 DEF Sound, OneActive
    <3>3. n = <<n[1], n[2]>> /\ x = <<x[1], x[2]>>
      BY <3>1 DEF Cores
    <3> QED
      BY <3>1, <3>2, <3>3
  <2>4. Silent(uiLoop', x)
    <3>1. x \notin listening
      BY <1>9, <2>1
    <3>2. ~Waits(uiLoop, x)
      BY <3>1, WaitsFacts DEF Sound, Kept
    <3>3. ~IsEvent(f, x)
      BY <1>2 DEF IsEvent
    <3> QED
      BY <1>2, <1>3, <3>2, <3>3, SilentAppend
  <2>5. Quiet(uiLoop', p)
    BY <1>5 DEF Quiet
  <2> QED
    BY <1>2, <1>5, <1>6, <2>1, <2>3, <2>4, <2>5 DEF WillBeCurrent
<1>15. p = 0 => current' \in Range(list') \cup {None}
  BY <1>5
<1> QED
  BY <1>10, <1>11, <1>12, <1>13, <1>14, <1>15, FitsNext

-----------------------------------------------------------------------------
\* A CallCore that a later closure adds to the list has no event before it.
LEMMA NotSaidBefore ==
  ASSUME Types, Placed, uiLoop # <<>>, NEW x \in Cores, IsEvent(Head(uiLoop), x)
  PROVE  /\ ~Added(uiLoop, 0, x)
         /\ \A r \in DOMAIN uiLoop : LastReset(uiLoop, r) => ~Shows(uiLoop, list, r, x)
<1>1. /\ Len(uiLoop) \in Nat /\ DOMAIN uiLoop = 1 .. Len(uiLoop) /\ 1 \in DOMAIN uiLoop
      /\ uiLoop[1] = Head(uiLoop)
  BY Popped DEF Types
<1>2. \A j \in DOMAIN uiLoop : ~Carries(uiLoop[j], x)
  <2>1. \A j \in DOMAIN uiLoop : 1 < j => ~Carries(uiLoop[j], x)
    BY <1>1 DEF Placed
  <2>2. ~Carries(uiLoop[1], x)
    BY <1>1 DEF IsEvent, Carries
  <2>3. \A j \in DOMAIN uiLoop : j = 1 \/ 1 < j
    BY <1>1
  <2> QED
    BY <2>1, <2>2, <2>3
<1>3. \A r : ~Added(uiLoop, r, x)
  BY <1>2 DEF Added, IsAdd, Carries
<1>4. ASSUME NEW r \in DOMAIN uiLoop, LastReset(uiLoop, r)
      PROVE  x \notin Range(Base(uiLoop, list, r))
  <2>1. r > 0 /\ uiLoop[r].do = "reset" /\ Base(uiLoop, list, r) = uiLoop[r].cores
    BY <1>1, <1>4 DEF LastReset, Base
  <2> QED
    BY <1>2, <2>1 DEF Carries
<1> QED
  BY <1>3, <1>4 DEF Shows

\* The UI thread runs a closure, and the list is started again later, or by it.
LEMMA ViewLater ==
  ASSUME Sound, View, UpToDate, uiLoop # <<>>, uiLoop' = Tail(uiLoop),
         NEW p, LastReset(uiLoop', p),
         p > 0 \/ (/\ Head(uiLoop).do = "reset" /\ list' = Head(uiLoop).cores
                   /\ current' = Head(uiLoop).current),
         UNCHANGED <<calls, state, listening>>,
         \A x \in Cores : seen'[x] = seen[x] \/ IsEvent(Head(uiLoop), x)
  PROVE  Fits(uiLoop, list, current, p)'
<1>1. uiLoop \in Seq(Closures)
  BY DEF Sound, Types
<1>2. /\ Len(uiLoop) \in Nat /\ DOMAIN uiLoop = 1 .. Len(uiLoop) /\ uiLoop[1] = Head(uiLoop)
      /\ \A i \in DOMAIN uiLoop : i = 1 \/ (i - 1 \in DOMAIN uiLoop' /\ uiLoop'[i - 1] = uiLoop[i])
  BY <1>1, Popped
<1> DEFINE r == p + 1
<1>3. /\ r \in 1 .. Len(uiLoop) /\ LastReset(uiLoop, r)
      /\ Base(uiLoop', list', p) = Base(uiLoop, list, r) /\ (p > 0 => uiLoop'[p] = uiLoop[r])
      /\ \A x : Shows(uiLoop', list', p, x) <=> Shows(uiLoop, list, r, x)
      /\ \A x, y : Ahead(uiLoop', list', p, x, y) => Ahead(uiLoop, list, r, x, y)
  BY <1>1, ShownAfterReset
<1>4. Fits(uiLoop, list, current, r)
  BY <1>2, <1>3 DEF View
<1>5. p \in Nat /\ (p = 0 => r = 1)
  BY <1>3 DEF LastReset
<1> HIDE DEF r
<1>6. \A x \in Cores : Shows(uiLoop', list', p, x) => ~IsEvent(uiLoop[1], x)
  BY <1>2, <1>3, NotSaidBefore DEF Sound
<1>7. \A c \in Calls : state'[c] \in Live =>
        \E x \in Cores : x[1] = c /\ Shows(uiLoop', list', p, x)
  BY <1>3, <1>4 DEF Fits, Complete
<1>8. \A x, y \in Cores :
        Ahead(uiLoop', list', p, x, y) /\ state'[x[1]] \in Live /\ state'[y[1]] \in Live
          => Older(x[1], y[1])'
  BY <1>3, <1>4 DEF Fits, InOrder, Older
<1>9. ASSUME NEW x \in Cores, Shows(uiLoop', list', p, x), state'[x[1]] = "released"
      PROVE  /\ seen'[x] # "released"
             /\ \E i \in DOMAIN uiLoop' : IsEvent(uiLoop'[i], x) /\ uiLoop'[i].state = "released"
  <2>1. ~IsEvent(uiLoop[1], x) /\ Shows(uiLoop, list, r, x) /\ state[x[1]] = "released"
    BY <1>3, <1>6, <1>9
  <2>2. seen[x] # "released" /\ seen'[x] = seen[x]
    BY <1>2, <1>4, <2>1 DEF Fits, Leaving
  <2>3. PICK i \in DOMAIN uiLoop : IsEvent(uiLoop[i], x) /\ uiLoop[i].state = "released"
    BY <1>4, <2>1 DEF Fits, Leaving
  <2>4. i - 1 \in DOMAIN uiLoop' /\ uiLoop'[i - 1] = uiLoop[i]
    BY <1>2, <2>1, <2>3
  <2> QED
    BY <2>2, <2>3, <2>4
<1>10. \A x \in Cores : Shows(uiLoop', list', p, x) =>
         \A y \in listening' : y[1] = x[1] => y[2] <= x[2]
  BY <1>3, <1>4 DEF Fits, Newest
<1>11. p = 0 => current' \in Range(list') \cup {None}
  <2>1. Head(uiLoop).do = "reset" => Head(uiLoop).current \in Range(Head(uiLoop).cores) \cup {None}
    <3>1. 1 \in DOMAIN uiLoop
      BY <1>1, Popped
    <3> QED
      BY <1>2, <3>1 DEF Sound, Placed
  <2> QED
    BY <1>5, <2>1
<1>12. ASSUME NEW x \in Cores, Shows(uiLoop', list', p, x), state'[x[1]] \in Active
       PROVE  WillBeCurrent(uiLoop', list', current', p, x)
  <2>1. WillBeCurrent(uiLoop, list, current, r, x)
    BY <1>3, <1>4, <1>12 DEF Fits, CurrentFollows
  <2>2. CASE \E e \in DOMAIN uiLoop : Answers(uiLoop, e, x)
    <3>1. PICK e \in DOMAIN uiLoop : Answers(uiLoop, e, x)
      BY <2>2
    <3>2. e # 1
      BY <1>6, <1>12, <3>1 DEF Answers
    <3> QED
      BY <1>1, <3>1, <3>2, AnswersRest DEF WillBeCurrent
  <2>3. CASE /\ Silent(uiLoop, x) /\ Quiet(uiLoop, r) /\ x \in Range(Base(uiLoop, list, r))
             /\ x = IF r = 0 THEN current ELSE uiLoop[r].current
    <3>1. Silent(uiLoop', x) /\ Quiet(uiLoop', p)
      BY <1>1, <1>5, <2>3, QuietRest DEF r
    <3>2. x = uiLoop[r].current
      BY <1>3, <2>3
    <3>3. x = IF p = 0 THEN current' ELSE uiLoop'[p].current
      <4>1. CASE p = 0
        <5>1. current' = Head(uiLoop).current
          BY <1>5, <4>1
        <5> QED
          BY <1>2, <1>5, <3>2, <4>1, <5>1
      <4>2. CASE p # 0
        <5>1. p > 0
          BY <1>5, <4>2
        <5> QED
          BY <1>3, <3>2, <4>2, <5>1
      <4> QED
        BY <4>1, <4>2
    <3> QED
      BY <1>3, <2>3, <3>1, <3>3 DEF WillBeCurrent
  <2> QED
    BY <2>1, <2>2, <2>3 DEF WillBeCurrent
<1> QED
  BY <1>7, <1>8, <1>9, <1>10, <1>11, <1>12, FitsNext

\* Or the list is not started again, and CallCores are added to the one there is.
LEMMA ViewAdd ==
  ASSUME Sound, View, UpToDate, Add, LastReset(uiLoop', 0)
  PROVE  Fits(uiLoop, list, current, 0)'
<1> DEFINE z == Head(uiLoop).core
<1>1. /\ uiLoop \in Seq(Closures) /\ uiLoop # <<>> /\ uiLoop' = Tail(uiLoop)
      /\ DOMAIN uiLoop = 1 .. Len(uiLoop) /\ Len(uiLoop) \in Nat /\ 1 \in DOMAIN uiLoop
      /\ uiLoop[1] = Head(uiLoop) /\ Head(uiLoop).do = "add" /\ Head(uiLoop) \in Closures
      /\ \A i \in DOMAIN uiLoop : i = 1 \/ (i - 1 \in DOMAIN uiLoop' /\ uiLoop'[i - 1] = uiLoop[i])
  BY UiPopped DEF Add, Sound
<1>2. z \in Cores
  BY <1>1, Shapes
<1>3. IsAdd(uiLoop[1], z) /\ \A x : IsAdd(uiLoop[1], x) <=> x = z
  BY <1>1 DEF IsAdd
<1>4. /\ list' = Append(list, z) /\ list \in Seq(Cores)
      /\ current' = (IF list = <<>> THEN z ELSE current)
      /\ UNCHANGED <<calls, state, listening, seen>>
  BY DEF Add, Sound, Types, sdk
<1> HIDE DEF z
<1>5. /\ LastReset(uiLoop, 0)
      /\ \A x : Added(uiLoop, 0, x) <=> x = z \/ Added(uiLoop', 0, x)
      /\ \A x, y : AddsInTurn(uiLoop', 0, x, y) => AddsInTurn(uiLoop, 0, x, y)
      /\ \A y : Added(uiLoop', 0, y) => AddsInTurn(uiLoop, 0, z, y)
  <2>1. Head(uiLoop).do # "reset"
    BY <1>1
  <2> QED
    BY <1>1, <1>3, <2>1, ShownAfterRun
<1>6. Fits(uiLoop, list, current, 0)
  BY <1>1, <1>5 DEF View
<1>7. /\ DOMAIN list' = 1 .. Len(list) + 1 /\ Len(list) \in Nat /\ DOMAIN list = 1 .. Len(list)
      /\ \A i \in DOMAIN list : list'[i] = list[i]
      /\ list'[Len(list) + 1] = z /\ Len(list) + 1 \in DOMAIN list'
      /\ \A i \in DOMAIN list' : \/ i \in DOMAIN list /\ list'[i] = list[i]
                                 \/ i = Len(list) + 1 /\ list'[i] = z
  BY <1>2, <1>4, PostedEach
<1>8. \A x : x \in Range(list') <=> x \in Range(list) \/ x = z
  <2>1. \A x \in Range(list') : x \in Range(list) \/ x = z
    BY <1>7 DEF Range
  <2>2. \A x \in Range(list) : x \in Range(list')
    BY <1>7 DEF Range
  <2>3. z \in Range(list')
    BY <1>7 DEF Range
  <2> QED
    BY <2>1, <2>2, <2>3
<1>9. Base(uiLoop', list', 0) = list' /\ Base(uiLoop, list, 0) = list
  BY DEF Base
<1>10. \A x : Shows(uiLoop', list', 0, x) <=> Shows(uiLoop, list, 0, x)
  BY <1>5, <1>8, <1>9 DEF Shows
<1>11. ASSUME NEW x, NEW y, Ahead(uiLoop', list', 0, x, y)
       PROVE  Ahead(uiLoop, list, 0, x, y)
  <2>1. CASE Follow(list', x, y)
    <3>1. PICK i \in DOMAIN list', j \in DOMAIN list' : i < j /\ list'[i] = x /\ list'[j] = y
      BY <2>1 DEF Follow
    <3>2. i \in DOMAIN list /\ list[i] = x
      BY <1>7, <3>1
    <3>3. CASE j \in DOMAIN list
      BY <1>7, <1>9, <3>1, <3>2, <3>3 DEF Ahead, Follow
    <3>4. CASE y = z
      BY <1>5, <1>9, <3>2, <3>4 DEF Ahead, Range
    <3> QED
      BY <1>7, <3>1, <3>3, <3>4
  <2>2. CASE x \in Range(list') /\ Added(uiLoop', 0, y)
    BY <1>5, <1>8, <1>9, <2>2 DEF Ahead
  <2>3. CASE AddsInTurn(uiLoop', 0, x, y)
    BY <1>5, <2>3 DEF Ahead
  <2> QED
    BY <1>9, <1>11, <2>1, <2>2, <2>3 DEF Ahead
<1>12. \A c \in Calls : state'[c] \in Live =>
         \E x \in Cores : x[1] = c /\ Shows(uiLoop', list', 0, x)
  BY <1>4, <1>6, <1>10 DEF Fits, Complete
<1>13. \A x, y \in Cores :
         Ahead(uiLoop', list', 0, x, y) /\ state'[x[1]] \in Live /\ state'[y[1]] \in Live
           => Older(x[1], y[1])'
  BY <1>4, <1>6, <1>11 DEF Fits, InOrder, Older
<1>14. ASSUME NEW x \in Cores, Shows(uiLoop', list', 0, x), state'[x[1]] = "released"
       PROVE  /\ seen'[x] # "released"
              /\ \E i \in DOMAIN uiLoop' : IsEvent(uiLoop'[i], x) /\ uiLoop'[i].state = "released"
  <2>1. Shows(uiLoop, list, 0, x) /\ state[x[1]] = "released"
    BY <1>4, <1>10, <1>14
  <2>2. PICK i \in DOMAIN uiLoop : IsEvent(uiLoop[i], x) /\ uiLoop[i].state = "released"
    BY <1>6, <2>1 DEF Fits, Leaving
  <2>3. i - 1 \in DOMAIN uiLoop' /\ uiLoop'[i - 1] = uiLoop[i]
    BY <1>1, <2>2 DEF IsEvent
  <2>4. seen'[x] # "released"
    BY <1>4, <1>6, <2>1 DEF Fits, Leaving
  <2> QED
    BY <2>2, <2>3, <2>4
<1>15. \A x \in Cores : Shows(uiLoop', list', 0, x) =>
         \A y \in listening' : y[1] = x[1] => y[2] <= x[2]
  BY <1>4, <1>6, <1>10 DEF Fits, Newest
<1>16. current' \in Range(list') \cup {None}
  BY <1>4, <1>6, <1>8 DEF Fits, CurrentListed
<1>17. ASSUME NEW x \in Cores, Shows(uiLoop', list', 0, x), state'[x[1]] \in Active
       PROVE  WillBeCurrent(uiLoop', list', current', 0, x)
  <2>1. WillBeCurrent(uiLoop, list, current, 0, x)
    BY <1>4, <1>6, <1>10, <1>17 DEF Fits, CurrentFollows
  <2>2. CASE \E e \in DOMAIN uiLoop : Answers(uiLoop, e, x)
    <3>1. PICK e \in DOMAIN uiLoop : Answers(uiLoop, e, x)
      BY <2>2
    <3>2. e # 1
      BY <1>1, <3>1 DEF Answers, IsEvent
    <3> QED
      BY <1>1, <3>1, <3>2, AnswersRest DEF WillBeCurrent
  <2>3. CASE Silent(uiLoop, x) /\ Quiet(uiLoop, 0) /\ x \in Range(list) /\ x = current
    <3>1. Silent(uiLoop', x) /\ Quiet(uiLoop', 0)
      BY <1>1, <2>3, QuietRest
    <3>2. list # <<>>
      BY <2>3 DEF Range
    <3>3. x = current' /\ x \in Range(list')
      BY <1>4, <1>8, <2>3, <3>2
    <3> QED
      BY <1>9, <3>1, <3>3 DEF WillBeCurrent
  <2> QED
    BY <1>9, <2>1, <2>2, <2>3 DEF WillBeCurrent
<1> QED
  BY <1>12, <1>13, <1>14, <1>15, <1>16, <1>17, FitsNext

-----------------------------------------------------------------------------
\* A closure that adds nothing runs, and at most a CallCore leaves the list.
LEMMA ShownLess ==
  ASSUME Types, uiLoop # <<>>, uiLoop' = Tail(uiLoop), Head(uiLoop).do \notin {"reset", "add"},
         LastReset(uiLoop', 0), NEW y, list' = list \/ list' = Without(list, y)
  PROVE  /\ LastReset(uiLoop, 0)
         /\ Range(list') \subseteq Range(list) /\ Range(list) \subseteq Range(list') \cup {y}
         /\ \A x : Shows(uiLoop', list', 0, x) => Shows(uiLoop, list, 0, x)
         /\ \A x : Shows(uiLoop, list, 0, x) => x = y \/ Shows(uiLoop', list', 0, x)
         /\ \A x, z : Ahead(uiLoop', list', 0, x, z) => Ahead(uiLoop, list, 0, x, z)
<1>1. uiLoop \in Seq(Closures) /\ list \in Seq(Cores)
  BY DEF Types
<1>2. \A x : ~IsAdd(Head(uiLoop), x)
  BY DEF IsAdd
<1>3. Head(uiLoop).do # "reset"
  OBVIOUS
<1>4. /\ LastReset(uiLoop, 0)
      /\ \A x : Added(uiLoop, 0, x) <=> Added(uiLoop', 0, x)
      /\ \A x, z : AddsInTurn(uiLoop', 0, x, z) => AddsInTurn(uiLoop, 0, x, z)
  BY <1>1, <1>2, <1>3, ShownAfterRun
<1>5. Base(uiLoop', list', 0) = list' /\ Base(uiLoop, list, 0) = list
  BY DEF Base
<1>6. Range(Without(list, y)) = Range(list) \ {y}
  BY <1>1, WithoutFacts
<1>7. Range(list') \subseteq Range(list) /\ Range(list) \subseteq Range(list') \cup {y}
  BY <1>6
<1>8. \A x, z : Follow(list', x, z) => Follow(list, x, z)
  <2>1. \A x, z : Follow(Without(list, y), x, z) => Follow(list, x, z)
    <3>1. \A i, j \in DOMAIN Without(list, y) : i < j =>
            \E k, l \in DOMAIN list :
              k < l /\ list[k] = Without(list, y)[i] /\ list[l] = Without(list, y)[j]
      BY <1>1, WithoutFacts
    <3> QED
      BY <3>1 DEF Follow
  <2> QED
    BY <2>1
<1>9. \A x, z : Ahead(uiLoop', list', 0, x, z) => Ahead(uiLoop, list, 0, x, z)
  BY <1>4, <1>5, <1>7, <1>8 DEF Ahead
<1> QED
  BY <1>4, <1>5, <1>7, <1>9 DEF Shows

\* The last call has ended: there was no call to be current.
LEMMA ViewLastCallEnded ==
  ASSUME Sound, View, UpToDate, RunLastCallEnded, LastReset(uiLoop', 0)
  PROVE  Fits(uiLoop, list, current, 0)'
<1>1. /\ uiLoop \in Seq(Closures) /\ uiLoop # <<>> /\ uiLoop' = Tail(uiLoop)
      /\ DOMAIN uiLoop = 1 .. Len(uiLoop) /\ Len(uiLoop) \in Nat /\ 1 \in DOMAIN uiLoop
      /\ uiLoop[1] = Head(uiLoop) /\ Head(uiLoop).do = "lastCallEnded"
      /\ \A i \in DOMAIN uiLoop : i = 1 \/ (i - 1 \in DOMAIN uiLoop' /\ uiLoop'[i - 1] = uiLoop[i])
  BY UiPopped DEF RunLastCallEnded, Sound
<1>2. list' = list /\ current' = None /\ UNCHANGED <<calls, state, listening, seen>>
  BY DEF RunLastCallEnded, sdk
<1>3. Moves(uiLoop[1]) /\ \A x : ~IsEvent(uiLoop[1], x)
  BY <1>1 DEF Moves, IsEvent
<1>4. /\ LastReset(uiLoop, 0)
      /\ \A x : Shows(uiLoop', list', 0, x) => Shows(uiLoop, list, 0, x)
      /\ \A x, z : Ahead(uiLoop', list', 0, x, z) => Ahead(uiLoop, list, 0, x, z)
  <2>1. Head(uiLoop).do \notin {"reset", "add"} /\ Types
    BY <1>1 DEF Sound
  <2> QED
    BY <1>1, <1>2, <2>1, ShownLess
<1>5. \A x \in Cores : Shows(uiLoop, list, 0, x) => Shows(uiLoop', list', 0, x)
  <2>1. Head(uiLoop).do \notin {"reset", "add"} /\ Types
    BY <1>1 DEF Sound
  <2>2. \A x : Shows(uiLoop, list, 0, x) => x = None \/ Shows(uiLoop', list', 0, x)
    BY <1>1, <1>2, <2>1, ShownLess
  <2> QED
    BY <2>2, NoneIsNoCore
<1>6. Fits(uiLoop, list, current, 0)
  BY <1>1, <1>4 DEF View
<1>7. \A c \in Calls : state'[c] \in Live =>
        \E x \in Cores : x[1] = c /\ Shows(uiLoop', list', 0, x)
  BY <1>2, <1>5, <1>6 DEF Fits, Complete
<1>8. \A x, y \in Cores :
        Ahead(uiLoop', list', 0, x, y) /\ state'[x[1]] \in Live /\ state'[y[1]] \in Live
          => Older(x[1], y[1])'
  BY <1>2, <1>4, <1>6 DEF Fits, InOrder, Older
<1>9. ASSUME NEW x \in Cores, Shows(uiLoop', list', 0, x), state'[x[1]] = "released"
      PROVE  /\ seen'[x] # "released"
             /\ \E i \in DOMAIN uiLoop' : IsEvent(uiLoop'[i], x) /\ uiLoop'[i].state = "released"
  <2>1. Shows(uiLoop, list, 0, x) /\ state[x[1]] = "released"
    BY <1>2, <1>4, <1>9
  <2>2. PICK i \in DOMAIN uiLoop : IsEvent(uiLoop[i], x) /\ uiLoop[i].state = "released"
    BY <1>6, <2>1 DEF Fits, Leaving
  <2>3. i - 1 \in DOMAIN uiLoop' /\ uiLoop'[i - 1] = uiLoop[i]
    BY <1>1, <1>3, <2>2
  <2>4. seen'[x] # "released"
    BY <1>2, <1>6, <2>1 DEF Fits, Leaving
  <2> QED
    BY <2>2, <2>3, <2>4
<1>10. \A x \in Cores : Shows(uiLoop', list', 0, x) =>
         \A y \in listening' : y[1] = x[1] => y[2] <= x[2]
  BY <1>2, <1>4, <1>6 DEF Fits, Newest
<1>11. ASSUME NEW x \in Cores, Shows(uiLoop', list', 0, x), state'[x[1]] \in Active
       PROVE  WillBeCurrent(uiLoop', list', current', 0, x)
  <2>1. WillBeCurrent(uiLoop, list, current, 0, x)
    BY <1>2, <1>4, <1>6, <1>11 DEF Fits, CurrentFollows
  <2>2. ~Quiet(uiLoop, 0)
    <3>1. 1 > 0
      OBVIOUS
    <3> QED
      BY <1>1, <1>3, <3>1 DEF Quiet
  <2>3. PICK e \in DOMAIN uiLoop : Answers(uiLoop, e, x)
    BY <2>1, <2>2 DEF WillBeCurrent
  <2>4. e # 1
    BY <1>3, <2>3 DEF Answers
  <2> QED
    BY <1>1, <2>3, <2>4, AnswersRest DEF WillBeCurrent
<1> QED
  BY <1>2, <1>7, <1>8, <1>9, <1>10, <1>11, FitsNext

-----------------------------------------------------------------------------
\* What the event of a CallCore does to the list and the current call.
LEMMA EventRuns ==
  ASSUME Sound, RunSetState
  PROVE  LET y == Head(uiLoop).core
             s == Head(uiLoop).state
         IN /\ seen' = [seen EXCEPT ![y] = s]
            /\ \/ /\ s \in Active /\ s # seen[y]
                  /\ list' = list /\ current' = (IF y \in Range(list) THEN y ELSE None)
               \/ /\ s = "released" /\ y \in Range(list) /\ state[y[1]] = "released"
                  /\ list' = Without(list, y)
                  /\ current' # current => current = y /\ current' \in (Range(list) \ {y}) \cup {None}
                  /\ current = y => current' # current
               \/ /\ s \in Active => s = seen[y]
                  /\ s = "released" => s = seen[y] \/ y \notin Range(list)
                  /\ list' = list /\ current' = current
<1> DEFINE y == Head(uiLoop).core
           s == Head(uiLoop).state
<1>1. /\ uiLoop # <<>> /\ uiLoop \in Seq(Closures) /\ Head(uiLoop).do = "setState"
      /\ 1 \in DOMAIN uiLoop /\ uiLoop[1] = Head(uiLoop) /\ Head(uiLoop) \in Closures
  BY UiPopped DEF RunSetState, Sound
<1>2. y \in Cores /\ s \in States
  BY <1>1, Shapes
<1>3. s = "released" => state[y[1]] = "released"
  BY <1>1 DEF Sound, ReleasedIsTrue
<1>4. seen' = [seen EXCEPT ![y] = s]
  BY DEF RunSetState
<1>5. {"running", "resuming", "progress"} = Active /\ "released" \notin Active
  BY DEF Active
<1>6. \/ /\ seen[y] # s /\ s \in {"running", "resuming", "progress"}
         /\ current' = (IF y \in Range(list) THEN y ELSE None) /\ list' = list
      \/ /\ seen[y] # s /\ s = "released" /\ y \in Range(list) /\ Release(y)
      \/ /\ \/ seen[y] = s
            \/ s \notin {"running", "resuming", "progress", "released"}
            \/ s = "released" /\ y \notin Range(list)
         /\ list' = list /\ current' = current
  BY DEF RunSetState
<1> HIDE DEF y, s
<1>7. CASE /\ seen[y] # s /\ s = "released" /\ y \in Range(list) /\ Release(y)
  <2>1. list' = Without(list, y) /\ current' = (IF current = y THEN NextCall ELSE current)
    BY <1>7 DEF Release
  <2>2. NextCall = None \/ NextCall \in Range(list) \ {current}
    BY NextIsListed DEF Sound
  <2>3. current = y => current' # current
    BY <1>2, <2>1, <2>2, NoneIsNoCore
  <2>4. current' # current => current = y /\ current' \in (Range(list) \ {y}) \cup {None}
    BY <2>1, <2>2
  <2> QED
    BY <1>3, <1>4, <1>7, <2>1, <2>3, <2>4 DEF y, s
<1>8. CASE /\ seen[y] # s /\ s \in {"running", "resuming", "progress"}
           /\ current' = (IF y \in Range(list) THEN y ELSE None) /\ list' = list
  <2>1. s \in Active /\ s # seen[y]
    BY <1>5, <1>8
  <2> QED
    BY <1>4, <1>8, <2>1 DEF y, s
<1>9. CASE /\ \/ seen[y] = s
              \/ s \notin {"running", "resuming", "progress", "released"}
              \/ s = "released" /\ y \notin Range(list)
           /\ list' = list /\ current' = current
  <2>1. (s \in Active => s = seen[y]) /\ (s = "released" => s = seen[y] \/ y \notin Range(list))
    BY <1>5, <1>9
  <2> QED
    BY <1>4, <1>9, <2>1 DEF y, s
<1> QED
  BY <1>6, <1>7, <1>8, <1>9

\* A CallCore is told of a change: it becomes current, leaves, or stays.
LEMMA ViewSetState ==
  ASSUME Sound, View, UpToDate, RunSetState, LastReset(uiLoop', 0)
  PROVE  Fits(uiLoop, list, current, 0)'
<1> DEFINE y == Head(uiLoop).core
           s == Head(uiLoop).state
           Becomes == /\ s \in Active /\ s # seen[y]
                      /\ list' = list /\ current' = (IF y \in Range(list) THEN y ELSE None)
           Leaves == /\ s = "released" /\ y \in Range(list) /\ state[y[1]] = "released"
                     /\ list' = Without(list, y)
                     /\ current' # current => current = y /\ current' \in (Range(list) \ {y}) \cup {None}
                     /\ current = y => current' # current
           Stays == /\ s \in Active => s = seen[y]
                    /\ s = "released" => s = seen[y] \/ y \notin Range(list)
                    /\ list' = list /\ current' = current
<1>1. /\ uiLoop \in Seq(Closures) /\ uiLoop # <<>> /\ uiLoop' = Tail(uiLoop)
      /\ DOMAIN uiLoop = 1 .. Len(uiLoop) /\ Len(uiLoop) \in Nat /\ 1 \in DOMAIN uiLoop
      /\ uiLoop[1] = Head(uiLoop) /\ Head(uiLoop).do = "setState" /\ Head(uiLoop) \in Closures
      /\ \A i \in DOMAIN uiLoop : i = 1 \/ (i - 1 \in DOMAIN uiLoop' /\ uiLoop'[i - 1] = uiLoop[i])
  BY UiPopped DEF RunSetState, Sound
<1>2. y \in Cores /\ s \in States
  BY <1>1, Shapes
<1>3. /\ uiLoop[1].state = s /\ IsEvent(uiLoop[1], y)
      /\ \A x : IsEvent(uiLoop[1], x) => x = y
  BY <1>1 DEF IsEvent
<1>4. seen' = [seen EXCEPT ![y] = s] /\ (Becomes \/ Leaves \/ Stays)
  BY EventRuns
<1>5. UNCHANGED <<calls, state, listening>> /\ seen \in [Cores -> States]
  BY DEF RunSetState, sdk, Sound, Types
<1>6. Moves(uiLoop[1]) <=> s \in Active
  BY <1>1 DEF Moves
<1> HIDE DEF y, s
<1>7. seen'[y] = s /\ \A x \in Cores : x # y => seen'[x] = seen[x]
  BY <1>2, <1>4, <1>5
<1>8. list' = list \/ list' = Without(list, y)
  BY <1>4
<1>9. /\ LastReset(uiLoop, 0)
      /\ Range(list') \subseteq Range(list) /\ Range(list) \subseteq Range(list') \cup {y}
      /\ \A x : Shows(uiLoop', list', 0, x) => Shows(uiLoop, list, 0, x)
      /\ \A x : Shows(uiLoop, list, 0, x) => x = y \/ Shows(uiLoop', list', 0, x)
      /\ \A x, z : Ahead(uiLoop', list', 0, x, z) => Ahead(uiLoop, list, 0, x, z)
  <2>1. Head(uiLoop).do \notin {"reset", "add"} /\ Types
    BY <1>1 DEF Sound
  <2> QED
    BY <1>1, <1>8, <2>1, ShownLess
<1>10. Fits(uiLoop, list, current, 0)
  BY <1>1, <1>9 DEF View
<1>11. Base(uiLoop', list', 0) = list' /\ Base(uiLoop, list, 0) = list
  BY DEF Base
<1>12. ~Added(uiLoop, 0, y)
  BY <1>1, <1>2, <1>3, NotSaidBefore DEF Sound
<1>13. Shows(uiLoop, list, 0, y) => y \in Range(list)
  BY <1>11, <1>12 DEF Shows
<1>14. y \in listening => s # seen[y]
  <2>1. \A j \in DOMAIN uiLoop : ~(j < 1)
    BY <1>1
  <2> QED
    BY <1>1, <1>3, <2>1 DEF Sound, Told
<1>15. \A x \in Cores : Shows(uiLoop, list, 0, x) => x \in listening /\ x[1] \in Calls
  BY <1>9, ShownIsHeld DEF Sound
<1>16. Shows(uiLoop', list', 0, y) => s # "released"
  <2> SUFFICES ASSUME Shows(uiLoop', list', 0, y), s = "released"
               PROVE  FALSE
    OBVIOUS
  <2>1. Shows(uiLoop, list, 0, y) /\ y \in Range(list) /\ y \in listening /\ s # seen[y]
    BY <1>2, <1>9, <1>13, <1>14, <1>15
  <2>2. "released" \notin Active
    BY DEF Active
  <2>3. Leaves
    BY <1>4, <2>1, <2>2
  <2>4. y \notin Range(list')
    <3>1. Range(Without(list, y)) = Range(list) \ {y}
      BY WithoutFacts DEF Sound, Types
    <3> QED
      BY <2>3, <3>1
  <2>5. Added(uiLoop', 0, y)
    BY <1>11, <2>4 DEF Shows
  <2>6. Added(uiLoop, 0, y)
    <3>1. Head(uiLoop).do # "reset"
      BY <1>1
    <3> QED
      BY <1>1, <2>5, <3>1, ShownAfterRun
  <2> QED
    BY <1>12, <2>6
<1>17. \A c \in Calls : state'[c] \in Live =>
         \E x \in Cores : x[1] = c /\ Shows(uiLoop', list', 0, x)
  <2> SUFFICES ASSUME NEW c \in Calls, state[c] \in Live
               PROVE  \E x \in Cores : x[1] = c /\ Shows(uiLoop', list', 0, x)
    BY <1>5
  <2>1. PICK x \in Cores : x[1] = c /\ Shows(uiLoop, list, 0, x)
    BY <1>10 DEF Fits, Complete
  <2>2. CASE Leaves
    <3>1. x # y
      BY <2>1, <2>2 DEF Live
    <3> QED
      BY <1>9, <2>1, <3>1
  <2>3. CASE list' = list
    <3>1. Shows(uiLoop', list', 0, x)
      <4>1. Range(list') = Range(list)
        BY <2>3
      <4>2. x = y => x \in Range(list)
        BY <1>13, <2>1
      <4> QED
        BY <1>9, <1>11, <2>1, <4>1, <4>2 DEF Shows
    <3> QED
      BY <2>1, <3>1
  <2> QED
    BY <1>4, <2>2, <2>3
<1>18. \A x, z \in Cores :
         Ahead(uiLoop', list', 0, x, z) /\ state'[x[1]] \in Live /\ state'[z[1]] \in Live
           => Older(x[1], z[1])'
  BY <1>5, <1>9, <1>10 DEF Fits, InOrder, Older
<1>19. ASSUME NEW x \in Cores, Shows(uiLoop', list', 0, x), state'[x[1]] = "released"
       PROVE  /\ seen'[x] # "released"
              /\ \E i \in DOMAIN uiLoop' : IsEvent(uiLoop'[i], x) /\ uiLoop'[i].state = "released"
  <2>1. Shows(uiLoop, list, 0, x) /\ state[x[1]] = "released"
    BY <1>5, <1>9, <1>19
  <2>2. seen[x] # "released"
    BY <1>10, <2>1 DEF Fits, Leaving
  <2>3. PICK i \in DOMAIN uiLoop : IsEvent(uiLoop[i], x) /\ uiLoop[i].state = "released"
    BY <1>10, <2>1 DEF Fits, Leaving
  <2>4. x = y => s # "released"
    BY <1>16, <1>19
  <2>5. seen'[x] # "released"
    BY <1>7, <2>2, <2>4
  <2>6. i # 1
    BY <1>3, <2>3, <2>4
  <2>7. i - 1 \in DOMAIN uiLoop' /\ uiLoop'[i - 1] = uiLoop[i]
    BY <1>1, <2>6
  <2> QED
    BY <2>3, <2>5, <2>7
<1>20. \A x \in Cores : Shows(uiLoop', list', 0, x) =>
         \A z \in listening' : z[1] = x[1] => z[2] <= x[2]
  BY <1>5, <1>9, <1>10 DEF Fits, Newest
<1>21. current' \in Range(list') \cup {None}
  <2>1. current \in Range(list) \cup {None}
    BY <1>10 DEF Fits, CurrentListed
  <2>2. CASE Becomes
    BY <2>2
  <2>3. CASE Leaves
    <3>1. Range(list') = Range(list) \ {y}
      BY <2>3, WithoutFacts DEF Sound, Types
    <3> QED
      BY <2>1, <2>3, <3>1
  <2>4. CASE Stays
    BY <2>1, <2>4
  <2> QED
    BY <1>4, <2>2, <2>3, <2>4
<1>22. ASSUME NEW x \in Cores, Shows(uiLoop', list', 0, x), state'[x[1]] \in Active
       PROVE  WillBeCurrent(uiLoop', list', current', 0, x)
  <2>1. Shows(uiLoop, list, 0, x) /\ x \in listening /\ state[x[1]] \in Active
    BY <1>5, <1>9, <1>15, <1>22
  <2>2. WillBeCurrent(uiLoop, list, current, 0, x)
    BY <1>10, <2>1 DEF Fits, CurrentFollows
  <2>3. ASSUME NEW e \in DOMAIN uiLoop, Answers(uiLoop, e, x), e # 1
        PROVE  WillBeCurrent(uiLoop', list', current', 0, x)
    BY <1>1, <2>3, AnswersRest DEF WillBeCurrent
  <2>4. CASE Answers(uiLoop, 1, x)
    <3>1. x = y /\ s # seen[y] /\ y \in Range(list)
      BY <1>3, <1>13, <1>14, <2>1, <2>4 DEF Answers
    <3>2. s = state[x[1]]
      <4>1. IsEvent(uiLoop[1], x) /\ \A j \in DOMAIN uiLoop : j > 1 => ~IsEvent(uiLoop[j], x)
        BY <2>4 DEF Answers
      <4> QED
        BY <1>1, <1>3, <2>1, <4>1 DEF Sound, Told
    <3>3. list' = list /\ current' = x
      <4>1. s # "released"
        BY <2>1, <3>2 DEF Active
      <4> QED
        BY <1>4, <2>1, <3>1, <3>2, <4>1
    <3>4. Silent(uiLoop', x) /\ Quiet(uiLoop', 0)
      <4>1. \A i \in DOMAIN uiLoop' : i + 1 \in DOMAIN uiLoop /\ uiLoop'[i] = uiLoop[i + 1] /\ i + 1 > 1
        BY <1>1, Popped
      <4> QED
        BY <2>4, <4>1 DEF Answers, Quiet, Silent
    <3> QED
      BY <1>11, <3>1, <3>3, <3>4 DEF WillBeCurrent
  <2>5. CASE Silent(uiLoop, x) /\ Quiet(uiLoop, 0) /\ x \in Range(list) /\ x = current
    <3>1. Silent(uiLoop', x) /\ Quiet(uiLoop', 0) /\ ~Moves(uiLoop[1]) /\ ~IsEvent(uiLoop[1], x)
      BY <1>1, <2>5, QuietRest
    <3>2. x # y /\ s \notin Active
      BY <1>3, <1>6, <3>1
    <3>3. x \in Range(list')
      BY <1>9, <2>5, <3>2
    <3>4. current' = x
      BY <1>4, <2>5, <3>2
    <3> QED
      BY <1>11, <3>1, <3>3, <3>4 DEF WillBeCurrent
  <2> QED
    BY <1>11, <2>2, <2>3, <2>4, <2>5 DEF WillBeCurrent
<1> QED
  BY <1>17, <1>18, <1>19, <1>20, <1>21, <1>22, FitsNext

-----------------------------------------------------------------------------
\* A step that changes no call, list, current call or waiting closure.
LEMMA ViewSame ==
  ASSUME View, UpToDate, NEW p, LastReset(uiLoop', p), p \in 0 .. Len(uiLoop'),
         UNCHANGED <<calls, state, list, current, uiLoop>>, listening' \subseteq listening,
         \A x \in Cores : Shows(uiLoop, list, p, x) => seen'[x] = seen[x]
  PROVE  Fits(uiLoop, list, current, p)'
<1>1. Fits(uiLoop, list, current, p)
  BY DEF View
<1>2. \A c \in Calls : state'[c] \in Live => \E x \in Cores : x[1] = c /\ Shows(uiLoop', list', p, x)
  BY <1>1 DEF Fits, Complete
<1>3. \A x, y \in Cores :
        Ahead(uiLoop', list', p, x, y) /\ state'[x[1]] \in Live /\ state'[y[1]] \in Live
          => Older(x[1], y[1])'
  BY <1>1 DEF Fits, InOrder, Older
<1>4. \A x \in Cores : Shows(uiLoop', list', p, x) /\ state'[x[1]] = "released" =>
        /\ seen'[x] # "released"
        /\ \E i \in DOMAIN uiLoop' : IsEvent(uiLoop'[i], x) /\ uiLoop'[i].state = "released"
  BY <1>1 DEF Fits, Leaving
<1>5. \A x \in Cores : Shows(uiLoop', list', p, x) =>
        \A y \in listening' : y[1] = x[1] => y[2] <= x[2]
  BY <1>1 DEF Fits, Newest
<1>6. p = 0 => current' \in Range(list') \cup {None}
  BY <1>1 DEF Fits, CurrentListed
<1>7. \A x \in Cores : Shows(uiLoop', list', p, x) /\ state'[x[1]] \in Active =>
        WillBeCurrent(uiLoop', list', current', p, x)
  BY <1>1 DEF Fits, CurrentFollows
<1> QED
  BY <1>2, <1>3, <1>4, <1>5, <1>6, <1>7, FitsNext

\* The list to be fits the calls after each step.
LEMMA ViewKept ==
  ASSUME Sound, View, Next
  PROVE  View'
<1> SUFFICES ASSUME UpToDate', NEW p \in 0 .. Len(uiLoop'), LastReset(uiLoop', p)
             PROVE  Fits(uiLoop, list, current, p)'
  BY DEF View
<1>1. CASE RunUpdate
  BY <1>1, ViewUpdate
<1>2. CASE UpToDate /\ Spoken
  BY <1>2, ViewSpoken
<1>3. CASE UpToDate /\ Skipped
  <2>1. UNCHANGED <<calls, state, list, current, uiLoop, listening, seen>>
    BY <1>3 DEF Skipped, sdk, ui
  <2> QED
    BY <1>3, <2>1, ViewSame
<1>4. ASSUME UpToDate, NEW c \in Calls, NEW s \in {"ringing", "dialing"}, CallCreated(c, s)
      PROVE  Fits(uiLoop, list, current, p)'
  BY <1>4, ViewCreated
<1>5. CASE UpToDate /\ Reset
  <2>1. /\ uiLoop # <<>> /\ uiLoop' = Tail(uiLoop) /\ Head(uiLoop).do = "reset"
        /\ list' = Head(uiLoop).cores /\ current' = Head(uiLoop).current
        /\ UNCHANGED <<calls, state, listening, seen>>
    BY <1>5 DEF Reset, UiRuns, sdk
  <2> QED
    BY <1>5, <2>1, ViewLater
<1>6. CASE UpToDate /\ Add
  <2>1. CASE p = 0
    BY <1>6, <2>1, ViewAdd
  <2>2. CASE p # 0
    <3>1. uiLoop # <<>> /\ uiLoop' = Tail(uiLoop) /\ UNCHANGED <<calls, state, listening, seen>>
      BY <1>6 DEF Add, UiRuns, sdk
    <3>2. p > 0
      BY <2>2
    <3> QED
      BY <1>6, <3>1, <3>2, ViewLater
  <2> QED
    BY <2>1, <2>2
<1>7. CASE UpToDate /\ RunLastCallEnded
  <2>1. CASE p = 0
    BY <1>7, <2>1, ViewLastCallEnded
  <2>2. CASE p # 0
    <3>1. uiLoop # <<>> /\ uiLoop' = Tail(uiLoop) /\ UNCHANGED <<calls, state, listening, seen>>
      BY <1>7 DEF RunLastCallEnded, UiRuns, sdk
    <3>2. p > 0
      BY <2>2
    <3> QED
      BY <1>7, <3>1, <3>2, ViewLater
  <2> QED
    BY <2>1, <2>2
<1>8. CASE UpToDate /\ RunSetState
  <2>1. CASE p = 0
    BY <1>8, <2>1, ViewSetState
  <2>2. CASE p # 0
    <3>1. /\ uiLoop # <<>> /\ uiLoop' = Tail(uiLoop) /\ UNCHANGED <<calls, state, listening>>
          /\ Head(uiLoop).do = "setState"
          /\ seen' = [seen EXCEPT ![Head(uiLoop).core] = Head(uiLoop).state]
      BY <1>8 DEF RunSetState, UiRuns, sdk
    <3>2. \A x \in Cores : seen'[x] = seen[x] \/ IsEvent(Head(uiLoop), x)
      <4>1. seen \in [Cores -> States]
        BY DEF Sound, Types
      <4> QED
        BY <3>1, <4>1 DEF IsEvent
    <3>3. p > 0
      BY <2>2
    <3> QED
      BY <1>8, <3>1, <3>2, <3>3, ViewLater
  <2> QED
    BY <2>1, <2>2
<1>9. ASSUME UpToDate, NEW x \in Cores, Collect(x)
      PROVE  Fits(uiLoop, list, current, p)'
  <2>1. /\ UNCHANGED <<calls, state, list, current, uiLoop>> /\ listening' \subseteq listening
        /\ ~Held(x) /\ seen' = [seen EXCEPT ![x] = "none"] /\ seen \in [Cores -> States]
    BY <1>9 DEF Collect, Sound, Types
  <2>2. \A y \in Cores : y # x => seen'[y] = seen[y]
    BY <2>1
  <2>3. ~Shows(uiLoop, list, p, x)
    <3> SUFFICES ASSUME Shows(uiLoop, list, p, x)
                 PROVE  FALSE
      OBVIOUS
    <3>1. /\ DOMAIN uiLoop = 1 .. Len(uiLoop) /\ Len(uiLoop) \in Nat
      BY LenProperties DEF Sound, Types
    <3>2. x \notin Range(list) /\ ~Waits(uiLoop, x)
      BY <2>1, WaitsFacts
    <3>3. ~Added(uiLoop, p, x)
      BY <3>2 DEF Added, IsAdd, Waits, Carries
    <3>4. CASE p = 0
      BY <3>2, <3>3, <3>4 DEF Shows, Base
    <3>5. CASE p # 0
      <4>1. p \in DOMAIN uiLoop /\ uiLoop[p].do = "reset"
        BY <2>1, <3>1, <3>5 DEF LastReset
      <4>2. x \in Range(uiLoop[p].cores)
        BY <3>3, <3>5 DEF Shows, Base
      <4> QED
        BY <3>2, <4>1, <4>2 DEF Waits, Carries
    <3> QED
      BY <3>4, <3>5
  <2>4. \A y \in Cores : Shows(uiLoop, list, p, y) => seen'[y] = seen[y]
    BY <2>2, <2>3
  <2> QED
    BY <1>9, <2>1, <2>4, ViewSame
<1> QED
  BY UpToDateBefore, <1>1, <1>2, <1>3, <1>4, <1>5, <1>6, <1>7, <1>8, <1>9 DEF Sound

-----------------------------------------------------------------------------
(* The theorems.                                                           *)
\* At the start the list is empty, and lUpdate() on its way.
LEMMA InitIInv ==
  ASSUME Init
  PROVE  IInv
<1>1. /\ core = "on" /\ calls = <<>> /\ state = [c \in Calls |-> "none"] /\ listening = {}
      /\ updates = 0 /\ restarts = 0 /\ connected = FALSE
      /\ list = <<>> /\ current = None /\ haveCall = FALSE
      /\ seen = [x \in Cores |-> "none"]
      /\ sdkLoop = <<>> /\ uiLoop = <<Do("initLists")>>
  BY DEF Init
<1>2. /\ Do("initLists") \in Closures /\ Do("initLists").do = "initLists"
  BY Posted
<1>3. DOMAIN uiLoop = {1} /\ uiLoop[1].do = "initLists" /\ Len(uiLoop) = 1 /\ uiLoop \in Seq(Closures)
  BY <1>1, <1>2
<1>4. DOMAIN sdkLoop = {} /\ DOMAIN calls = {} /\ DOMAIN list = {}
  BY <1>1
<1>5. Types
  <2>1. IsInjective(calls) /\ IsInjective(list)
    BY <1>4 DEF IsInjective
  <2>2. "none" \in States /\ 0 \in 0 .. MaxRestarts
    BY CallListAssumption DEF States
  <2>3. calls \in Seq(Calls) /\ list \in Seq(Cores) /\ sdkLoop \in Seq(SdkClosures)
    BY <1>1
  <2> QED
    BY <1>1, <1>3, <2>1, <2>2, <2>3 DEF Types
<1>6. /\ Has(uiLoop, "initLists") /\ ~Has(uiLoop, "resetData")
      /\ \A what : ~Has(sdkLoop, what) /\ Once(sdkLoop, what) /\ Once(uiLoop, what)
  BY <1>3, <1>4 DEF Has, Once
<1>7. Chain
  <2>1. InTurn(uiLoop, "initLists", "resetData") /\ InTurn(sdkLoop, "update", "start")
    BY <1>3, <1>4 DEF InTurn
  <2>2. Asking
    BY <1>6 DEF Asking
  <2>3. updates + (IF Asking THEN 1 ELSE 0) + (IF core = "on" THEN 0 ELSE 1) = restarts + 1
    BY <1>1, <2>2
  <2> QED
    BY <1>1, <1>6, <2>1, <2>3 DEF Chain
<1>8. \A i \in DOMAIN uiLoop : uiLoop[i].do = "initLists"
  BY <1>3
<1>9. \A i \in DOMAIN uiLoop : \A x : ~Carries(uiLoop[i], x) /\ ~IsEvent(uiLoop[i], x)
  BY <1>8 DEF Carries, IsEvent
<1>10. Kept /\ Numbers
  <2>1. \A x \in Cores : x \notin Range(list) /\ x # current
    BY <1>1, <1>4, NoneIsNoCore DEF Range
  <2>2. \A x \in Cores : ~Held(x)
    BY <1>9, <2>1 DEF Held
  <2> QED
    BY <1>1, <2>2 DEF Kept, Numbers
<1>11. CallsKnown /\ OneActive
  <2>1. "none" \notin Live \cup {"ended"} /\ "none" \notin Active
    BY DEF Live, Active
  <2>2. \A c \in Calls : state[c] = "none" /\ c \notin Range(calls)
    BY <1>1, <1>4 DEF Range
  <2> QED
    BY <2>1, <2>2 DEF CallsKnown, OneActive
<1>12. Placed
  BY <1>8, <1>9 DEF Placed, IsAdd
<1>13. ReleasedIsTrue
  BY <1>1, <1>8 DEF ReleasedIsTrue
<1>14. Told
  BY <1>1 DEF Told
<1>15. View
  BY <1>6 DEF View, UpToDate, Asking
<1> QED
  BY <1>5, <1>7, <1>10, <1>11, <1>12, <1>13, <1>14, <1>15 DEF IInv

\* The invariant is inductive.
LEMMA IInvKept ==
  ASSUME IInv, [Next]_vars
  PROVE  IInv'
<1>1. CASE Next
  <2>1. Sound /\ View
    BY DEF IInv, Sound
  <2>2. Types' /\ Chain'
    BY <1>1, TypesKept, ChainKept DEF IInv
  <2>3. Kept' /\ Numbers' /\ CallsKnown' /\ OneActive'
    BY <1>1, KeptKept, NumbersKept, CallsKept DEF IInv
  <2>4. Placed' /\ ReleasedIsTrue'
    BY <1>1, PlacedKept, ReleasedKept DEF IInv
  <2>5. Told'
    BY <1>1, ToldKept DEF IInv
  <2>6. View'
    BY <1>1, <2>1, ViewKept
  <2> QED
    BY <2>2, <2>3, <2>4, <2>5, <2>6 DEF IInv
<1>2. CASE UNCHANGED vars
  <2>1. /\ core' = core /\ calls' = calls /\ state' = state /\ listening' = listening
        /\ updates' = updates /\ restarts' = restarts /\ sdkLoop' = sdkLoop
        /\ connected' = connected /\ list' = list /\ current' = current
        /\ haveCall' = haveCall /\ seen' = seen /\ uiLoop' = uiLoop
    BY <1>2 DEF vars, sdk, ui
  <2>2. Types'
    BY <2>1 DEF IInv, Types
  <2>3. Asking' <=> Asking
    BY <2>1 DEF Asking
  <2>4. Chain'
    BY <2>1, <2>3 DEF IInv, Chain
  <2>5. Kept' /\ Numbers'
    <3>1. \A x : Held(x)' <=> Held(x)
      BY <2>1 DEF Held
    <3> QED
      BY <2>1, <3>1 DEF IInv, Kept, Numbers
  <2>6. CallsKnown' /\ OneActive' /\ Placed' /\ ReleasedIsTrue' /\ Told'
    <3>1. CallsKnown' /\ OneActive'
      BY <2>1 DEF IInv, CallsKnown, OneActive
    <3>2. Placed'
      BY <2>1 DEF IInv, Placed
    <3>3. ReleasedIsTrue'
      BY <2>1 DEF IInv, ReleasedIsTrue
    <3>4. Told'
      BY <2>1 DEF IInv, Told
    <3> QED
      BY <3>1, <3>2, <3>3, <3>4
  <2>7. View'
    <3> SUFFICES ASSUME UpToDate', NEW p \in 0 .. Len(uiLoop'), LastReset(uiLoop', p)
                 PROVE  Fits(uiLoop, list, current, p)'
      BY DEF View
    <3>1. UpToDate
      BY <2>1, <2>3 DEF UpToDate
    <3>2. View
      BY DEF IInv
    <3> QED
      BY <2>1, <3>1, <3>2, ViewSame
  <2> QED
    BY <2>2, <2>4, <2>5, <2>6, <2>7 DEF IInv
<1> QED
  BY <1>1, <1>2

\* The calls, the CallCores and the closures that wait fit together: each
\* CallCore that the list will show, when the closures have run, is the newest
\* of its call, hears every change of it in turn, and the last of them that
\* moves the current call (CallList.cpp:60-90, CallCore.cpp setState).
THEOREM Invariance == Spec => []IInv
<1> QED
  BY InitIInv, IInvKept, PTL DEF Spec

\* Every variable has its type, no CallCore is listed twice, and lUpdate() runs
\* at most once for the launch and each restart.
THEOREM TypeCorrect == Spec => []TypeOK
<1>1. ASSUME IInv
      PROVE  TypeOK
  <2>1. updates \in 0 .. (MaxRestarts + 1)
    <3>1. /\ updates \in Nat /\ restarts \in 0 .. MaxRestarts
          /\ updates + (IF Asking THEN 1 ELSE 0) + (IF core = "on" THEN 0 ELSE 1) = restarts + 1
      BY <1>1 DEF IInv, Types, Chain
    <3>2. (IF Asking THEN 1 ELSE 0) \in Nat /\ (IF core = "on" THEN 0 ELSE 1) \in Nat
      OBVIOUS
    <3> HIDE DEF Asking
    <3> QED
      BY <3>1, <3>2, CallListAssumption
  <2> QED
    BY <1>1, <2>1 DEF IInv, Types, TypeOK
<1> QED
  BY <1>1, Invariance, PTL

\* When nothing waits, the list is the one the invariant speaks of.
LEMMA WhenSettled ==
  ASSUME IInv, Settled
  PROVE  /\ Fits(uiLoop, list, current, 0) /\ list \in Seq(Cores)
         /\ \A x : Shows(uiLoop, list, 0, x) <=> x \in Range(list)
         /\ \A x, y : Follow(list, x, y) => Ahead(uiLoop, list, 0, x, y)
         /\ DOMAIN uiLoop = {}
<1>1. DOMAIN uiLoop = {} /\ DOMAIN sdkLoop = {} /\ Len(uiLoop) = 0 /\ core = "on"
  BY DEF Settled
<1>2. UpToDate /\ LastReset(uiLoop, 0) /\ 0 \in 0 .. Len(uiLoop)
  BY <1>1 DEF UpToDate, Asking, Has, LastReset
<1>3. Fits(uiLoop, list, current, 0)
  BY <1>2 DEF IInv, View
<1>4. \A x : Shows(uiLoop, list, 0, x) <=> x \in Range(list)
  BY <1>1 DEF Shows, Base, Added
<1>5. \A x, y : Follow(list, x, y) => Ahead(uiLoop, list, 0, x, y)
  BY DEF Ahead, Base
<1> QED
  BY <1>1, <1>3, <1>4, <1>5 DEF IInv, Types

\* When all is quiet the list shows each live call, in the order they were
\* made, no released one, and the current call if there is one.
THEOREM ListShowsTheCalls == Spec => []ListShowsCalls
<1>1. ASSUME IInv, Settled
      PROVE  ListShowsCalls
  <2>1. /\ Fits(uiLoop, list, current, 0) /\ list \in Seq(Cores)
        /\ \A x : Shows(uiLoop, list, 0, x) <=> x \in Range(list)
        /\ \A x, y : Follow(list, x, y) => Ahead(uiLoop, list, 0, x, y)
        /\ DOMAIN uiLoop = {}
    BY <1>1, WhenSettled
  <2> DEFINE shown == [i \in DOMAIN list |-> list[i][1]]
  <2>2. \A i \in DOMAIN list : list[i] \in Cores /\ list[i] \in Range(list)
    BY <2>1 DEF Range
  <2>3. ASSUME NEW c \in Calls, state[c] \in Live
        PROVE  c \in Range(shown)
    <3>1. PICK x \in Cores : x[1] = c /\ x \in Range(list)
      BY <2>1, <2>3 DEF Fits, Complete
    <3>2. PICK i \in DOMAIN list : list[i] = x
      BY <3>1 DEF Range
    <3>3. i \in DOMAIN shown /\ shown[i] = c
      BY <3>1, <3>2
    <3> QED
      BY <3>3 DEF Range
  <2>4. ASSUME NEW i \in DOMAIN shown, NEW j \in DOMAIN shown, i < j,
               state[shown[i]] \in Live, state[shown[j]] \in Live
        PROVE  \E k, l \in DOMAIN calls : k < l /\ calls[k] = shown[i] /\ calls[l] = shown[j]
    <3>1. Ahead(uiLoop, list, 0, list[i], list[j]) /\ list[i] \in Cores /\ list[j] \in Cores
      BY <2>1, <2>2, <2>4 DEF Follow
    <3>2. Older(list[i][1], list[j][1])
      BY <2>1, <2>4, <3>1 DEF Fits, InOrder
    <3> QED
      BY <3>2 DEF Older, Follow
  <2>5. \A i \in DOMAIN shown : state[shown[i]] # "released"
    BY <2>1, <2>2 DEF Fits, Leaving
  <2>6. current # None => current \in Range(list)
    BY <2>1 DEF Fits, CurrentListed
  <2> QED
    BY <2>3, <2>4, <2>5, <2>6 DEF ListShowsCalls
<1>2. IInv => ListShowsCalls
  BY <1>1 DEF ListShowsCalls
<1> QED
  BY <1>2, Invariance, PTL

\* When all is quiet the current call is the one that has the sound devices, if
\* there is one.
THEOREM CurrentIsActive == Spec => []CurrentFollowsActive
<1>1. ASSUME IInv, Settled, NEW c \in Calls, state[c] \in Active
      PROVE  current # None /\ current[1] = c
  <2>1. /\ Fits(uiLoop, list, current, 0) /\ DOMAIN uiLoop = {}
        /\ \A x : Shows(uiLoop, list, 0, x) <=> x \in Range(list)
    BY <1>1, WhenSettled
  <2>2. PICK x \in Cores : x[1] = c /\ Shows(uiLoop, list, 0, x)
    <3>1. state[c] \in Live
      BY <1>1 DEF Live, Active
    <3> QED
      BY <2>1, <3>1 DEF Fits, Complete
  <2>3. WillBeCurrent(uiLoop, list, current, 0, x)
    BY <1>1, <2>1, <2>2 DEF Fits, CurrentFollows
  <2>4. x = current
    BY <2>1, <2>3 DEF WillBeCurrent
  <2> QED
    BY <2>2, <2>4, NoneIsNoCore
<1>2. IInv => CurrentFollowsActive
  BY <1>1 DEF CurrentFollowsActive
<1> QED
  BY <1>2, Invariance, PTL
=============================================================================
