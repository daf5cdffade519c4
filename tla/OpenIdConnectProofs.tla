------------------------ MODULE OpenIdConnectProofs -------------------------
(***************************************************************************)
(* For any set of requests: the types, GrantIsFinal and RefreshFollows.    *)
(*                                                                         *)
(* What they rest on: a granted connection has nothing left to wait for    *)
(* and no timer; and the last word on its way to the UI thread, whoever    *)
(* posted it, tells it what RefreshFollows says of the timer once it is    *)
(* taken.                                                                  *)
(***************************************************************************)
EXTENDS OpenIdConnect, SequenceTheorems, TLAPS

Words == {"start", "stop"}

\* A granted connection is over and its timer is stopped.
GrantedIsOver ==
  \A r \in granted : phase[r] \in {"over", "gone"} /\ r \notin timer

\* What the UI thread's timer is told when all posts are taken.
LastWord == IF posts = <<>> THEN refresh ELSE posts[Len(posts)]
WordIsRight ==
  /\ LastWord = "start" => Waiting # {} \/ reopened # {}
  /\ LastWord = "stop" => Waiting \subseteq dim

IInv == TypeOK /\ GrantedIsOver /\ WordIsRight

-----------------------------------------------------------------------------
(* Posting makes the posted word the last one.                             *)
LEMMA PostIsLast ==
  ASSUME NEW what \in Words, posts \in Seq(Words), posts' = Append(posts, what)
  PROVE  posts' \in Seq(Words) /\ LastWord' = what
<1>1. /\ posts' \in Seq(Words) /\ posts' # <<>>
      /\ Len(posts') = Len(posts) + 1 /\ posts'[Len(posts) + 1] = what
  BY AppendProperties
<1> QED
  BY <1>1 DEF LastWord

LEMMA StartIsLast ==
  ASSUME posts \in Seq(Words), NEW r, Start(r)
  PROVE  posts' \in Seq(Words) /\ LastWord' = "start"
BY PostIsLast DEF Start, Words

LEMMA FinishIsLast ==
  ASSUME posts \in Seq(Words), NEW S, Finish(S)
  PROVE  posts' \in Seq(Words) /\ LastWord' = "stop"
BY PostIsLast DEF Finish, Words

(* Taking a post leaves the last word as it was.                           *)
LEMMA TakeKeepsLast ==
  ASSUME posts \in Seq(Words), TakePost
  PROVE  posts' \in Seq(Words) /\ refresh' \in Words /\ LastWord' = LastWord
<1>1. posts # <<>> /\ posts' = Tail(posts) /\ refresh' = Head(posts)
  BY DEF TakePost
<1>2. /\ Head(posts) \in Words /\ Tail(posts) \in Seq(Words)
      /\ Len(Tail(posts)) = Len(posts) - 1
      /\ \A i \in 1 .. Len(Tail(posts)) : Tail(posts)[i] = posts[i + 1]
  BY <1>1, HeadTailProperties
<1>3. Len(posts) \in Nat \ {0} /\ Head(posts) = posts[1]
  BY <1>1, EmptySeq, LenProperties
<1>4. CASE Len(posts) = 1
  <2>1. posts' = <<>>
    BY <1>1, <1>2, <1>4, EmptySeq
  <2> QED
    BY <1>1, <1>2, <1>3, <1>4, <2>1 DEF LastWord
<1>5. CASE Len(posts) # 1
  <2>0. Len(posts') \in Nat \ {0}
    BY <1>1, <1>2, <1>3, <1>5
  <2>1. Len(posts') \in 1 .. Len(posts') /\ posts' # <<>>
    BY <2>0, EmptySeq
  <2>2. posts'[Len(posts')] = posts[Len(posts)]
    BY <1>1, <1>2, <1>3, <2>1
  <2> QED
    BY <1>1, <1>2, <2>1, <2>2 DEF LastWord
<1> QED
  BY <1>4, <1>5

-----------------------------------------------------------------------------
LEMMA InitInv == Init => IInv
<1> SUFFICES ASSUME Init PROVE IInv
  OBVIOUS
<1>1. TypeOK
  <2>1. <<>> \in Seq({"start", "stop"})
    BY EmptySeq
  <2>2. phase \in [Requests -> Phases] /\ timer = {}
    BY DEF Init, Phases
  <2>3. clicks \in 0 .. MaxCancels /\ cancels \in 0 .. clicks
    BY OpenIdAssumption DEF OpenIdAssumption, Init
  <2>4. /\ ending = {} /\ aborted = {} /\ granted = {} /\ silent = {}
        /\ posts = <<>> /\ refresh = "stop" /\ dim = {} /\ reopened = {}
    BY DEF Init
  <2> QED
    BY <2>1, <2>2, <2>3, <2>4 DEF TypeOK
<1>2. GrantedIsOver
  BY DEF Init, GrantedIsOver
<1>3. WordIsRight
  BY DEF Init, WordIsRight, LastWord, Waiting
<1> QED
  BY <1>1, <1>2, <1>3 DEF IInv

LEMMA TypeStep ==
  ASSUME TypeOK, [Next]_vars
  PROVE  TypeOK'
<1> USE OpenIdAssumption DEF OpenIdAssumption
<1>0. posts \in Seq(Words)
  BY DEF TypeOK, Words
<1>1. ASSUME NEW r \in Requests, NEW listening \in BOOLEAN, Begin(r, listening)
      PROVE  TypeOK'
  <2>1. posts' \in Seq({"start", "stop"})
    BY <1>0, <1>1, StartIsLast DEF Begin, told, Words
  <2> QED
    BY <1>1, <2>1 DEF TypeOK, Begin, Start, told, Phases, Alive
<1>2. ASSUME NEW r \in Requests, ConfigFails(r) \/ RequestFailed(r) \/ NoToken(r)
      PROVE  TypeOK'
  <2>1. posts' \in Seq({"start", "stop"})
    BY <1>0, <1>2, FinishIsLast DEF ConfigFails, RequestFailed, NoToken, ForceTimeout, Words
  <2> QED
    BY <1>2, <2>1 DEF TypeOK, ConfigFails, RequestFailed, NoToken, ForceTimeout, Finish,
       Waiting, Phases, Alive
<1>3. ASSUME NEW r \in Requests, BrowserOpens(r)
      PROVE  TypeOK'
  <2>1. posts' \in Seq({"start", "stop"})
    BY <1>0, <1>3, StartIsLast DEF BrowserOpens, Words
  <2> QED
    BY <1>3, <2>1 DEF TypeOK, BrowserOpens, Start, Phases, Alive
<1>4. ASSUME NEW r \in Requests, BrowserStaysClosed(r)
      PROVE  TypeOK'
  BY <1>4 DEF TypeOK, BrowserStaysClosed, told, Phases, Alive
<1>5. ASSUME NEW r \in Requests, Granted(r) \/ Refused(r)
      PROVE  TypeOK'
  <2>1. posts' \in Seq({"start", "stop"})
    BY <1>0, <1>5, FinishIsLast DEF Granted, Refused, StopTimeoutTimer, Words
  <2> QED
    BY <1>5, <2>1 DEF TypeOK, Granted, Refused, StopTimeoutTimer, Finish, Waiting, Phases, Alive
<1>6. ASSUME NEW r \in Requests, TimeoutReached(r)
      PROVE  TypeOK'
  <2>1. posts' \in Seq({"start", "stop"})
    BY <1>0, <1>6, FinishIsLast DEF TimeoutReached, Words
  <2> QED
    BY <1>6, <2>1 DEF TypeOK, TimeoutReached, Finish, Waiting, Alive
<1>7. ASSUME NEW r \in Requests, Delete(r)
      PROVE  TypeOK'
  BY <1>7 DEF TypeOK, Delete, told, Phases, Alive
<1>8. CASE Click
  BY <1>8 DEF TypeOK, Click, conn, told, Alive
<1>9. CASE Cancel
  <2>1. posts' \in Seq({"start", "stop"})
    BY <1>0, <1>9, FinishIsLast DEF Cancel, ForceTimeout, told, Words
  <2> QED
    BY <1>9, <2>1 DEF TypeOK, Cancel, ForceTimeout, Finish, Waiting, told, Alive
<1>10. CASE TakePost
  <2>1. posts' \in Seq({"start", "stop"}) /\ refresh' \in {"start", "stop"}
    BY <1>0, <1>10, TakeKeepsLast DEF Words
  <2> QED
    BY <1>10, <2>1 DEF TypeOK, TakePost, conn, Alive
<1>11. CASE UNCHANGED vars
  BY <1>11 DEF TypeOK, vars, conn, told, Alive
<1> QED
  BY <1>1, <1>2, <1>3, <1>4, <1>5, <1>6, <1>7, <1>8, <1>9, <1>10, <1>11 DEF Next, Answer

(* Whose timer is stopped and who is over: each step in turn.              *)
LEMMA EndsStep ==
  ASSUME IInv, [Next]_vars
  PROVE  GrantedIsOver'
<1> USE DEF IInv, TypeOK, GrantedIsOver
<1>1. ASSUME NEW r \in Requests, NEW listening \in BOOLEAN, Begin(r, listening)
      PROVE  GrantedIsOver'
  BY <1>1 DEF Begin, Start
<1>2. ASSUME NEW r \in Requests, ConfigFails(r) \/ RequestFailed(r) \/ NoToken(r)
      PROVE  GrantedIsOver'
  BY <1>2 DEF ConfigFails, RequestFailed, NoToken, ForceTimeout
<1>3. ASSUME NEW r \in Requests, BrowserOpens(r) \/ BrowserStaysClosed(r)
      PROVE  GrantedIsOver'
  BY <1>3 DEF BrowserOpens, BrowserStaysClosed, Start
<1>4. ASSUME NEW r \in Requests, Granted(r) \/ Refused(r)
      PROVE  GrantedIsOver'
  BY <1>4 DEF Granted, Refused, StopTimeoutTimer
<1>5. ASSUME NEW r \in Requests, TimeoutReached(r) \/ Delete(r)
      PROVE  GrantedIsOver'
  BY <1>5 DEF TimeoutReached, Delete
<1>6. CASE Cancel
  BY <1>6 DEF Cancel, ForceTimeout
<1>7. CASE Click \/ TakePost \/ UNCHANGED vars
  BY <1>7 DEF Click, TakePost, vars, conn
<1> QED
  BY <1>1, <1>2, <1>3, <1>4, <1>5, <1>6, <1>7 DEF Next, Answer

(* A start tells of the connection that starts, waited for or reopened.    *)
LEMMA StartRight ==
  ASSUME TypeOK, NEW r \in Requests, Start(r), ending' = ending
  PROVE  WordIsRight'
<1>1. LastWord' = "start"
  BY StartIsLast DEF TypeOK, Words
<1>2. Waiting' # {} \/ reopened' # {}
  BY DEF Start, Waiting
<1> QED
  BY <1>1, <1>2 DEF WordIsRight

(* A stop tells of those that end: who still waits waited beside them.     *)
LEMMA FinishRight ==
  ASSUME TypeOK, NEW S, Finish(S), timer' \subseteq timer
  PROVE  WordIsRight'
<1>1. LastWord' = "stop"
  BY FinishIsLast DEF TypeOK, Words
<1>2. Waiting' \subseteq dim'
  BY DEF Finish, Waiting
<1> QED
  BY <1>1, <1>2 DEF WordIsRight

(* Nothing is posted, and nobody begins to wait or stops waiting.          *)
LEMMA QuietRight ==
  ASSUME WordIsRight, UNCHANGED <<told, refresh>>, Waiting' = Waiting
  PROVE  WordIsRight'
BY DEF WordIsRight, LastWord, told

LEMMA WordStep ==
  ASSUME IInv, [Next]_vars
  PROVE  WordIsRight'
<1> USE DEF IInv
<1>1. ASSUME NEW r \in Requests, Begin(r, TRUE) \/ BrowserOpens(r)
      PROVE  WordIsRight'
  BY <1>1, StartRight DEF Begin, BrowserOpens
<1>2. ASSUME NEW r \in Requests, Begin(r, FALSE) \/ BrowserStaysClosed(r)
      PROVE  WordIsRight'
  BY <1>2, QuietRight DEF Begin, BrowserStaysClosed, Waiting
<1>3. ASSUME NEW r \in Requests,
             \/ ConfigFails(r) \/ RequestFailed(r) \/ NoToken(r)
             \/ Granted(r) \/ Refused(r) \/ TimeoutReached(r)
      PROVE  WordIsRight'
  <2>1. Finish({r}) /\ timer' \subseteq timer
    BY <1>3 DEF ConfigFails, RequestFailed, NoToken, Granted, Refused, TimeoutReached,
       ForceTimeout, StopTimeoutTimer
  <2> QED
    BY <2>1, FinishRight
<1>4. ASSUME NEW r \in Requests, Delete(r)
      PROVE  WordIsRight'
  <2>1. UNCHANGED <<told, refresh>> /\ Waiting' = Waiting
    BY <1>4 DEF Delete, Waiting
  <2> QED
    BY <2>1, QuietRight
<1>5. CASE Cancel
  <2>1. CASE timer = {}
    <3>1. UNCHANGED <<told, refresh>> /\ Waiting' = Waiting
      BY <1>5, <2>1 DEF Cancel, Waiting
    <3> QED
      BY <3>1, QuietRight
  <2>2. CASE timer # {}
    <3>1. Finish(timer) /\ timer' \subseteq timer
      BY <1>5, <2>2 DEF Cancel, ForceTimeout
    <3> QED
      BY <3>1, FinishRight
  <2> QED
    BY <2>1, <2>2
<1>6. CASE TakePost
  <2>1. LastWord' = LastWord /\ UNCHANGED <<conn, dim, reopened>>
    BY <1>6, TakeKeepsLast DEF TakePost, TypeOK, Words
  <2> QED
    BY <2>1 DEF WordIsRight, Waiting, conn
<1>7. CASE Click \/ UNCHANGED vars
  <2>1. UNCHANGED <<conn, told, refresh>>
    BY <1>7 DEF Click, vars
  <2> QED
    BY <2>1, QuietRight DEF Waiting, conn
<1> QED
  BY <1>1, <1>2, <1>3, <1>4, <1>5, <1>6, <1>7 DEF Next, Answer

-----------------------------------------------------------------------------
(* The invariant the three theorems rest on.                               *)
THEOREM Invariance == Spec => []IInv
<1>1. IInv /\ [Next]_vars => IInv'
  BY TypeStep, EndsStep, WordStep DEF IInv
<1> QED
  BY <1>1, InitInv, PTL DEF Spec

(* Every connection, post and click keeps its type: in particular only     *)
(* living connections have a running timer, and only ending ones were told.*)
THEOREM TypeCorrect == Spec => []TypeOK
BY Invariance, PTL DEF IInv

(* However many connections wait, end and start again at once: when all    *)
(* posts are taken the UI's refresh timer does not run when the user waits *)
(* for none, except after the restart of one that was ending, and stands   *)
(* still while the user waits for one only since the end of another.       *)
THEOREM TimerFollows == Spec => []RefreshFollows
<1>1. IInv => RefreshFollows
  BY DEF IInv, WordIsRight, LastWord, RefreshFollows
<1> QED
  BY <1>1, Invariance, PTL

(* No connection whose bearers the SDK has is reported as aborted.         *)
THEOREM GrantFinal == Spec => GrantIsFinal
<1>1. ASSUME IInv, [Next]_vars
      PROVE  [(aborted' \ aborted) \cap granted = {}]_vars
  <2> SUFFICES ASSUME NEW r \in aborted', r \notin aborted, r \in granted
               PROVE  FALSE
    OBVIOUS
  <2>1. phase[r] \in {"over", "gone"} /\ r \notin timer /\ r \in ending
    BY <1>1 DEF IInv, GrantedIsOver, TypeOK
  <2> QED
    BY <1>1, <2>1 DEF Next, Answer, Begin, ConfigFails, BrowserOpens, BrowserStaysClosed,
       Granted, Refused, RequestFailed, NoToken, TimeoutReached, Delete, Click, Cancel,
       TakePost, ForceTimeout, StopTimeoutTimer, Start, Finish, Waiting, conn, vars
<1> QED
  BY <1>1, Invariance, PTL DEF Spec, GrantIsFinal
=============================================================================
