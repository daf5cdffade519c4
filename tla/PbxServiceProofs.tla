-------------------------- MODULE PbxServiceProofs --------------------------
(***************************************************************************)
(* For any number of kinds and of refreshes: the pool tasks of PbxService   *)
(* never meet, one session serves them all, and what is shown is always one *)
(* whole result, however refresh(), cancel(), the deadline and the          *)
(* destructor are interleaved with the task.                                *)
(***************************************************************************)
EXTENDS PbxService, FiniteSetTheorems, TLAPS

\* Only the latest refresh can have a task that runs, and the watcher and the
\* token are that refresh's; a panel that is not busy has none.
LatestOnly ==
  /\ watched = started /\ token = started
  /\ \A r \in Refreshes : r < started => step[r] = "done"
  /\ \A r \in Refreshes : r <= started <=> step[r] # "unborn"
  /\ ~busy => \A r \in Refreshes : r <= started => step[r] = "done"
  /\ busy => started > 0
  /\ announced => busy /\ step[started] = "done"

\* A task holds the token of its refresh; a token is cancelled when its refresh
\* is, and early enough if the task had yet to look at it.
TokensOwned ==
  /\ cancelled = asked /\ early \subseteq asked
  /\ asked \subseteq 1..started
  /\ \A r \in Refreshes : step[r] # "unborn" => holds[r] = r
  /\ \A r \in early : step[r] # "returning" /\ output[r].page = 0

\* A task opens a session only if there is none.
OpenedOnce ==
  /\ opened = IF session THEN 1 ELSE 0
  /\ \A r \in Refreshes : step[r] = "opening" => ~session

\* The result of a task stays blank until it returns, and then is a whole page
\* or an error.
ResultOf(r) ==
  /\ output[r].of = r
  /\ step[r] # "done" => output[r].error = "" /\ output[r].page = 0
  /\ step[r] \in {"unborn", "queued", "opening", "listing"} => listed[r] < Kinds
  /\ step[r] \in {"listing", "returning"} => output[r].available
  /\ step[r] = "done" => \/ output[r].error = "" /\ output[r].page = Kinds /\ output[r].available
                         \/ output[r].error # "" /\ output[r].page = 0

ResultsWhole == \A r \in Refreshes : ResultOf(r)

\* The inductive invariant.
IInv ==
  /\ TypeOK
  /\ LatestOnly /\ TokensOwned /\ OpenedOnce /\ ResultsWhole
  /\ ShownIsWhole /\ OnlyTheAskedIsCancelled /\ GoneIsQuiet

-----------------------------------------------------------------------------
\* A record of a result keeps its type when one field is given another value.
LEMMA ResultFields ==
  ASSUME NEW x \in Results, NEW e \in {"", "cancelled", "deadline_exceeded"}, NEW n \in 0..Kinds
  PROVE  /\ [x EXCEPT !.error = e] \in Results
         /\ [x EXCEPT !.error = e].error = e /\ [x EXCEPT !.error = e].page = x.page
         /\ [x EXCEPT !.error = e].of = x.of
         /\ [x EXCEPT !.error = e].available = x.available
         /\ [x EXCEPT !.page = n] \in Results
         /\ [x EXCEPT !.page = n].error = x.error /\ [x EXCEPT !.page = n].page = n
         /\ [x EXCEPT !.page = n].of = x.of
         /\ [x EXCEPT !.page = n].available = x.available
         /\ [x EXCEPT !.available = TRUE] \in Results
         /\ [x EXCEPT !.available = TRUE].error = x.error
         /\ [x EXCEPT !.available = TRUE].page = x.page
         /\ [x EXCEPT !.available = TRUE].of = x.of
         /\ [x EXCEPT !.available = TRUE].available = TRUE
BY DEF Results

\* The result a task starts from.
LEMMA BlankResult ==
  ASSUME NEW r \in 0..MaxRefreshes
  PROVE  /\ Blank(r) \in Results
         /\ Blank(r).error = "" /\ Blank(r).page = 0 /\ Blank(r).of = r
BY PbxServiceAssumption DEF PbxServiceAssumption, Blank, Results

\* What a result may be is the same in every state.
LEMMA SameResults == Results' = Results
BY DEF Results

LEMMA InitIInv == Init => IInv
<1>. SUFFICES ASSUME Init PROVE IInv
  OBVIOUS
<1>. USE PbxServiceAssumption DEF PbxServiceAssumption, Init, Refreshes, NoRefresh
<1>1. shown = Blank(0) /\ 0 \in 0..MaxRefreshes
  OBVIOUS
<1>2. output = [r \in Refreshes |-> Blank(r)] /\ \A r \in Refreshes : r \in 0..MaxRefreshes
  OBVIOUS
<1>3. TypeOK
  <2>1. /\ step \in [Refreshes -> {"unborn", "queued", "opening", "listing", "returning", "done"}]
        /\ holds \in [Refreshes -> 0..MaxRefreshes] /\ listed \in [Refreshes -> 0..Kinds]
    OBVIOUS
  <2>2. /\ object = "alive" /\ timer \in BOOLEAN /\ busy \in BOOLEAN /\ announced \in BOOLEAN
        /\ session \in BOOLEAN /\ token = 0 /\ watched = 0 /\ started = 0 /\ opened = 0
        /\ cancelled = {} /\ late = {} /\ asked = {} /\ early = {}
    OBVIOUS
  <2>. HIDE DEF Init, Refreshes
  <2>3. shown \in Results
    BY <1>1, BlankResult
  <2>4. output \in [Refreshes -> Results]
    BY <1>2, BlankResult
  <2>5. 0 \in 0..MaxRefreshes /\ 0 \in Nat
    OBVIOUS
  <2>. QED  BY <2>1, <2>2, <2>3, <2>4, <2>5 DEF TypeOK
<1>4. LatestOnly
  BY DEF LatestOnly
<1>5. TokensOwned /\ OpenedOnce
  BY DEF TokensOwned, OpenedOnce
<1>6. \A r \in Refreshes : output[r].error = "" /\ output[r].page = 0 /\ output[r].of = r
  <2>. HIDE DEF Init, Refreshes
  <2>. QED  BY <1>2, BlankResult
<1>7. ResultsWhole
  <2>1. \A r \in Refreshes : step[r] = "unborn" /\ listed[r] < Kinds
    OBVIOUS
  <2>. HIDE DEF Init, Refreshes
  <2>. QED  BY <1>6, <2>1 DEF ResultsWhole, ResultOf
<1>8. ShownIsWhole
  <2>1. started = 0 /\ ~(started > 0) /\ 0 # Kinds
    OBVIOUS
  <2>. HIDE DEF Init
  <2>2. shown.page = 0 /\ shown.of = 0
    BY <1>1, BlankResult
  <2>. QED  BY <2>1, <2>2 DEF ShownIsWhole
<1>9. OnlyTheAskedIsCancelled /\ GoneIsQuiet
  BY <1>6 DEF OnlyTheAskedIsCancelled, GoneIsQuiet
<1>. QED  BY <1>3, <1>4, <1>5, <1>7, <1>8, <1>9 DEF IInv

-----------------------------------------------------------------------------
(* The UI thread.                                                           *)

LEMMA RefreshStep ==
  ASSUME IInv, NEW byTimer \in BOOLEAN, Refresh(byTimer)
  PROVE  IInv'
<1>1. shown \in Results /\ shown' = [shown EXCEPT !.error = ""]
  BY DEF IInv, TypeOK, Refresh
<1>2. shown' \in Results
  BY <1>1, ResultFields DEF Results
<1>3. /\ object = "alive" /\ ~busy /\ started < MaxRefreshes
      /\ timer' \in BOOLEAN /\ busy' = TRUE /\ token' = started + 1 /\ started' = started + 1
      /\ step' = [step EXCEPT ![started + 1] = "queued"]
      /\ holds' = [holds EXCEPT ![started + 1] = started + 1]
      /\ watched' = started + 1 /\ announced' = FALSE
      /\ UNCHANGED <<object, cancelled, listed, late, output, session, opened, asked, early>>
  BY DEF Refresh, MayRefresh, NewToken, history, IInv, TypeOK
<1>. USE PbxServiceAssumption DEF PbxServiceAssumption, Refreshes
<1>4. started \in Nat /\ started + 1 \in Refreshes /\ step[started + 1] = "unborn"
  BY <1>3 DEF IInv, TypeOK, LatestOnly
<1>5. TypeOK'
  <2>1. /\ step' \in [Refreshes -> {"unborn", "queued", "opening", "listing", "returning", "done"}]
        /\ holds' \in [Refreshes -> 0..MaxRefreshes]
    BY <1>3, <1>4 DEF IInv, TypeOK
  <2>2. started' \in 0..MaxRefreshes /\ token' = started' /\ watched' = started'
    BY <1>3, <1>4
  <2>. HIDE DEF Refreshes
  <2>. QED  BY <1>2, <1>3, <2>1, <2>2, SameResults DEF IInv, TypeOK
<1>6. LatestOnly'
  BY <1>3, <1>4 DEF IInv, TypeOK, LatestOnly
<1>7. TokensOwned' /\ OpenedOnce'
  BY <1>3, <1>4 DEF IInv, TypeOK, TokensOwned, OpenedOnce
<1>8. ResultsWhole'
  BY <1>3, <1>4 DEF IInv, TypeOK, ResultsWhole, ResultOf
<1>9. ShownIsWhole'
  <2>1. shown'.error = "" /\ shown'.page = shown.page /\ shown'.available = shown.available
    BY <1>1, ResultFields DEF Results
  <2>. QED  BY <2>1, <1>3 DEF IInv, ShownIsWhole
<1>10. OnlyTheAskedIsCancelled' /\ GoneIsQuiet'
  BY <1>3 DEF IInv, OnlyTheAskedIsCancelled, GoneIsQuiet
<1>. QED  BY <1>5, <1>6, <1>7, <1>8, <1>9, <1>10 DEF IInv

\* cancel(), on its own or in the destructor, cancels the latest refresh.
LEMMA StopStep ==
  ASSUME IInv, StopTask, object' \in {object, "dying"}, timer' \in BOOLEAN,
         UNCHANGED <<busy, token, watched, announced, shown, started, pool, opened>>
  PROVE  IInv'
<1>1. /\ started \in 0..MaxRefreshes /\ token = started
      /\ busy => started \in Refreshes /\ started \in 1..started
  BY PbxServiceAssumption DEF PbxServiceAssumption, IInv, TypeOK, LatestOnly, Refreshes
<1>2. /\ cancelled' = IF busy THEN cancelled \cup {started} ELSE cancelled
      /\ asked' = IF busy THEN asked \cup {started} ELSE asked
      /\ early' = IF busy THEN early \cup ({started} \cap Checking) ELSE early
      /\ UNCHANGED <<step, holds, listed, late, output, session>>
  BY <1>1 DEF StopTask, pool
<1>3. TypeOK'
  <2>1. asked' \subseteq Refreshes /\ early' \subseteq Refreshes
    BY <1>1, <1>2 DEF IInv, TypeOK
  <2>2. cancelled' \subseteq 0..MaxRefreshes
    BY <1>1, <1>2 DEF IInv, TypeOK
  <2>. QED  BY <1>2, <2>1, <2>2, SameResults DEF IInv, TypeOK
<1>4. LatestOnly' /\ OpenedOnce' /\ ResultsWhole' /\ ShownIsWhole'
  BY <1>2 DEF IInv, LatestOnly, OpenedOnce, ResultsWhole, ResultOf, ShownIsWhole
<1>5. TokensOwned'
  <2>1. cancelled' = asked' /\ early' \subseteq asked' /\ asked' \subseteq 1..started'
    BY <1>1, <1>2 DEF IInv, TokensOwned
  <2>2. \A r \in Checking : r \in Refreshes /\ step[r] # "returning" /\ output[r].page = 0
    BY DEF IInv, ResultsWhole, ResultOf, Checking
  <2>. QED  BY <1>2, <2>1, <2>2 DEF IInv, TokensOwned
<1>6. OnlyTheAskedIsCancelled' /\ GoneIsQuiet'
  BY <1>2 DEF IInv, OnlyTheAskedIsCancelled, GoneIsQuiet, Running, Checking
<1>. QED  BY <1>3, <1>4, <1>5, <1>6 DEF IInv

\* applyRefreshResult() shows the result of the task that has returned.
LEMMA ApplyStep == ASSUME IInv, ApplyRefreshResult PROVE IInv'
<1>1. /\ object = "alive" /\ announced /\ announced' = FALSE
      /\ shown' = output[watched] /\ busy' = FALSE
      /\ UNCHANGED <<object, timer, token, cancelled, watched, started>>
      /\ UNCHANGED <<step, holds, listed, late, output, session>> /\ UNCHANGED <<opened, asked, early>>
  BY DEF ApplyRefreshResult, AppliedBusy, pool, history
<1>2. watched = started /\ started \in Refreshes /\ step[started] = "done"
  BY <1>1, PbxServiceAssumption DEF PbxServiceAssumption, IInv, LatestOnly, TypeOK, Refreshes
<1>3. TypeOK'
  <2>1. shown' \in Results
    BY <1>1, <1>2 DEF IInv, TypeOK
  <2>. QED  BY <1>1, <2>1, SameResults DEF IInv, TypeOK
<1>4. LatestOnly'
  <2>1. \A r \in Refreshes : r <= started => r < started \/ r = started
    BY PbxServiceAssumption DEF PbxServiceAssumption, IInv, TypeOK, Refreshes
  <2>. QED  BY <1>1, <1>2, <2>1 DEF IInv, LatestOnly
<1>5. TokensOwned' /\ OpenedOnce' /\ ResultsWhole' /\ OnlyTheAskedIsCancelled' /\ GoneIsQuiet'
  BY <1>1 DEF IInv, TokensOwned, OpenedOnce, ResultsWhole, ResultOf, OnlyTheAskedIsCancelled, GoneIsQuiet,
              Running, Checking
<1>6. ShownIsWhole'
  <2>1. /\ shown'.of = started'
        /\ \/ shown'.error = "" /\ shown'.page = Kinds /\ shown'.available
           \/ shown'.error # "" /\ shown'.page = 0
    BY <1>1, <1>2 DEF IInv, ResultsWhole, ResultOf
  <2>2. Kinds # 0
    BY PbxServiceAssumption DEF PbxServiceAssumption
  <2>. QED  BY <2>1, <2>2 DEF ShownIsWhole
<1>. QED  BY <1>3, <1>4, <1>5, <1>6 DEF IInv

\* The destructor returns when the watcher's task is done: no other runs.
LEMMA DestroyedStep == ASSUME IInv, Destroyed PROVE IInv'
<1>1. /\ object' = "gone" /\ announced' = FALSE /\ watched \notin Running
      /\ UNCHANGED <<timer, busy, token, cancelled, watched, shown, started>>
      /\ UNCHANGED <<step, holds, listed, late, output, session>> /\ UNCHANGED <<opened, asked, early>>
  BY DEF Destroyed, Waited, pool, history
<1>2. Running = {}
  <2>1. \A r \in Running : r \in Refreshes /\ step[r] # "done" /\ step[r] # "unborn"
    BY DEF Running, Checking
  <2>2. \A r \in Running : r <= started /\ ~(r < started) /\ watched = started
    BY <2>1 DEF IInv, LatestOnly
  <2>3. \A r \in Running : r = watched
    BY <2>1, <2>2, PbxServiceAssumption DEF PbxServiceAssumption, IInv, TypeOK, Refreshes
  <2>. QED  BY <1>1, <2>3
<1>3. TypeOK'
  BY <1>1, SameResults DEF IInv, TypeOK
<1>4. LatestOnly' /\ TokensOwned' /\ OpenedOnce' /\ ResultsWhole'
  BY <1>1 DEF IInv, LatestOnly, TokensOwned, OpenedOnce, ResultsWhole, ResultOf
<1>5. ShownIsWhole' /\ OnlyTheAskedIsCancelled'
  BY <1>1 DEF IInv, ShownIsWhole, OnlyTheAskedIsCancelled
<1>6. GoneIsQuiet'
  BY <1>1, <1>2 DEF GoneIsQuiet, Running, Checking
<1>. QED  BY <1>3, <1>4, <1>5, <1>6 DEF IInv

-----------------------------------------------------------------------------
(* A task.                                                                  *)

\* The task that runs is the latest refresh's, for a panel that is busy.
LEMMA TheTask ==
  ASSUME IInv, NEW r \in Refreshes, step[r] \notin {"unborn", "done"}
  PROVE  r = started /\ watched = r /\ busy /\ holds[r] = r /\ object # "gone"
<1>1. r <= started /\ ~(r < started) /\ watched = started /\ busy /\ holds[r] = r
  BY DEF IInv, LatestOnly, TokensOwned
<1>2. r = started
  BY <1>1, PbxServiceAssumption DEF PbxServiceAssumption, IInv, TypeOK, Refreshes
<1>3. r \in Running
  BY DEF Running, Checking, IInv, TypeOK
<1>. QED  BY <1>1, <1>2, <1>3 DEF IInv, GoneIsQuiet

\* The task goes on to step q, with n kinds listed and x for its result so far.
LEMMA MoveStep ==
  ASSUME IInv, NEW r \in Refreshes, step[r] \notin {"unborn", "done"},
         NEW q \in {"opening", "listing", "returning"}, step' = [step EXCEPT ![r] = q],
         q = "returning" => r \notin early,
         NEW n \in 0..Kinds, listed' = [listed EXCEPT ![r] = n], q # "returning" => n < Kinds,
         NEW x \in Results, output' = [output EXCEPT ![r] = x],
         x.of = r, x.error = "", x.page = 0, q # "opening" => x.available,
         session' \in BOOLEAN, opened' = IF session' THEN 1 ELSE 0, q = "opening" => ~session',
         UNCHANGED <<object, timer, busy, token, cancelled, watched, announced, shown, started>>,
         UNCHANGED <<holds, late, asked, early>>
  PROVE  IInv'
<1>1. r = started /\ watched = r /\ busy /\ holds[r] = r /\ object # "gone"
  BY TheTask
<1>2. /\ step \in [Refreshes -> {"unborn", "queued", "opening", "listing", "returning", "done"}]
      /\ output \in [Refreshes -> Results] /\ listed \in [Refreshes -> 0..Kinds]
  BY DEF IInv, TypeOK
<1>3. TypeOK'
  <2>1. opened' \in Nat
    OBVIOUS
  <2>2. /\ step' \in [Refreshes -> {"unborn", "queued", "opening", "listing", "returning", "done"}]
        /\ output' \in [Refreshes -> Results] /\ listed' \in [Refreshes -> 0..Kinds]
    BY <1>2
  <2>. QED  BY <2>1, <2>2, SameResults DEF IInv, TypeOK
<1>4. /\ step'[r] = q /\ output'[r] = x /\ listed'[r] = n
      /\ \A s \in Refreshes \ {r} :
           step'[s] = step[s] /\ output'[s] = output[s] /\ listed'[s] = listed[s]
  BY <1>2
<1>5. LatestOnly'
  <2>1. ~(r < started) /\ r <= started
    BY DEF IInv, LatestOnly
  <2>2. step[r] # "done" /\ ~announced
    BY <1>1 DEF IInv, LatestOnly
  <2>3. \A s \in Refreshes : s < started => step'[s] = "done"
    BY <1>4, <2>1 DEF IInv, LatestOnly
  <2>4. \A s \in Refreshes : s <= started <=> step'[s] # "unborn"
    BY <1>4, <2>1 DEF IInv, LatestOnly
  <2>. QED  BY <1>1, <2>2, <2>3, <2>4 DEF IInv, LatestOnly
<1>6. TokensOwned'
  BY <1>1, <1>4 DEF IInv, TokensOwned, TypeOK
<1>7. OpenedOnce'
  <2>1. \A s \in Refreshes \ {r} : step'[s] # "opening"
    <3>1. \A s \in Refreshes \ {r} : step[s] # "opening"
      BY <1>1, TheTask
    <3>. QED  BY <3>1, <1>4
  <2>. QED  BY <1>4, <2>1 DEF OpenedOnce
<1>8. ResultsWhole'
  <2>. SUFFICES ASSUME NEW s \in Refreshes
                PROVE  ResultOf(s)'
    BY DEF ResultsWhole
  <2>1. CASE s = r
    <3>1. /\ output'[s].of = s /\ output'[s].error = "" /\ output'[s].page = 0
          /\ q # "opening" => output'[s].available
      BY <2>1, <1>4 DEF Results
    <3>2. step'[s] = q /\ listed'[s] = n
      BY <2>1, <1>4
    <3>3. q # "returning" => listed'[s] < Kinds
      BY <3>2
    <3>. QED  BY <3>1, <3>2, <3>3 DEF ResultOf
  <2>2. CASE s # r
    <3>1. ResultOf(s)
      BY DEF IInv, ResultsWhole
    <3>. QED  BY <2>2, <3>1, <1>4 DEF ResultOf
  <2>. QED  BY <2>1, <2>2
<1>9. ShownIsWhole' /\ OnlyTheAskedIsCancelled'
  BY <1>4 DEF IInv, ShownIsWhole, OnlyTheAskedIsCancelled
<1>10. GoneIsQuiet'
  BY <1>1 DEF GoneIsQuiet
<1>. QED  BY <1>3, <1>5, <1>6, <1>7, <1>8, <1>9, <1>10 DEF IInv

\* The task returns x, a whole page or an error.
LEMMA ReturnStep ==
  ASSUME IInv, NEW r \in Refreshes, step[r] \notin {"unborn", "done"},
         NEW x \in Results, Return(r, x), x.of = r,
         \/ x.error = "" /\ x.page = Kinds /\ x.available /\ r \notin early
         \/ x.error # "" /\ x.page = 0 /\ (x.error = "cancelled" => r \in asked),
         UNCHANGED <<holds, listed, late, session, opened, asked, early>>
  PROVE  IInv'
<1>1. r = started /\ watched = r /\ busy /\ holds[r] = r /\ object # "gone"
  BY TheTask
<1>2. /\ step' = [step EXCEPT ![r] = "done"] /\ output' = [output EXCEPT ![r] = x]
      /\ announced' = TRUE
      /\ UNCHANGED <<object, timer, busy, token, cancelled, watched, shown, started>>
  BY <1>1 DEF Return
<1>3. /\ step \in [Refreshes -> {"unborn", "queued", "opening", "listing", "returning", "done"}]
      /\ output \in [Refreshes -> Results]
  BY DEF IInv, TypeOK
<1>4. TypeOK'
  <2>1. /\ step' \in [Refreshes -> {"unborn", "queued", "opening", "listing", "returning", "done"}]
        /\ output' \in [Refreshes -> Results]
    BY <1>2, <1>3
  <2>. QED  BY <1>2, <2>1, SameResults DEF IInv, TypeOK
<1>5. /\ step'[r] = "done" /\ output'[r] = x
      /\ \A s \in Refreshes \ {r} : step'[s] = step[s] /\ output'[s] = output[s]
  BY <1>2, <1>3
<1>6. LatestOnly'
  <2>1. ~(r < started) /\ r <= started /\ started > 0
    BY <1>1 DEF IInv, LatestOnly
  <2>. QED  BY <1>1, <1>2, <1>5, <2>1 DEF IInv, LatestOnly
<1>7. TokensOwned'
  <2>1. r \in early => x.page = 0
    OBVIOUS
  <2>. QED  BY <1>1, <1>2, <1>5, <2>1 DEF IInv, TokensOwned, TypeOK
<1>8. OpenedOnce'
  BY <1>5 DEF IInv, OpenedOnce
<1>9. ResultsWhole'
  <2>. SUFFICES ASSUME NEW s \in Refreshes
                PROVE  ResultOf(s)'
    BY DEF ResultsWhole
  <2>1. CASE s = r
    BY <2>1, <1>5 DEF ResultOf
  <2>2. CASE s # r
    <3>1. ResultOf(s) /\ UNCHANGED listed
      BY DEF IInv, ResultsWhole
    <3>. QED  BY <2>2, <3>1, <1>5 DEF ResultOf
  <2>. QED  BY <2>1, <2>2
<1>10. ShownIsWhole'
  BY <1>1, <1>2 DEF IInv, ShownIsWhole
<1>11. OnlyTheAskedIsCancelled'
  BY <1>5 DEF IInv, OnlyTheAskedIsCancelled
<1>12. GoneIsQuiet'
  BY <1>1, <1>2 DEF GoneIsQuiet
<1>. QED  BY <1>4, <1>6, <1>7, <1>8, <1>9, <1>10, <1>11, <1>12 DEF IInv

\* What a task's check of its token and of its deadline can say.
LEMMA Refusal ==
  ASSUME IInv, NEW r \in Refreshes, step[r] \notin {"unborn", "done"}
  PROVE  /\ Refused(r) \in {"", "cancelled", "deadline_exceeded"}
         /\ Refused(r) = "cancelled" => r \in asked
         /\ Refused(r) = "" => r \notin early
  BY TheTask DEF Refused, IInv, TokensOwned

\* The first step of a task.
LEMMA BeginStep == ASSUME IInv, NEW r \in Refreshes, Begin(r) PROVE IInv'
<1>. DEFINE x == IF session THEN [output[r] EXCEPT !.available = TRUE] ELSE output[r]
            q == IF session THEN "listing" ELSE "opening"
<1>1. output \in [Refreshes -> Results] /\ listed \in [Refreshes -> 0..Kinds] /\ session \in BOOLEAN
  BY DEF IInv, TypeOK
<1>2. /\ step[r] = "queued" /\ step' = [step EXCEPT ![r] = q]
      /\ output' = [output EXCEPT ![r] = x] /\ listed' = [listed EXCEPT ![r] = listed[r]]
  BY <1>1 DEF Begin, FirstStep, Available, Goto
<1>3. output[r].of = r /\ output[r].error = "" /\ output[r].page = 0 /\ listed[r] < Kinds
  BY <1>2 DEF IInv, ResultsWhole, ResultOf
<1>4. x \in Results /\ x.of = r /\ x.error = "" /\ x.page = 0 /\ (session => x.available)
  BY <1>1, <1>3 DEF Results
<1>5. /\ UNCHANGED <<object, timer, busy, token, cancelled, watched, announced, shown, started>>
      /\ UNCHANGED <<holds, late, asked, early, session, opened>>
  BY DEF Begin, Goto, ui, history
<1>6. opened = IF session THEN 1 ELSE 0
  BY DEF IInv, OpenedOnce
<1>. HIDE DEF x
<1>. QED  BY <1>1, <1>2, <1>3, <1>4, <1>5, <1>6, MoveStep

\* The task opens a session, or is refused one.
LEMMA OpenStep == ASSUME IInv, NEW r \in Refreshes, Open(r) PROVE IInv'
<1>1. output \in [Refreshes -> Results] /\ listed \in [Refreshes -> 0..Kinds]
  BY DEF IInv, TypeOK
<1>2. /\ step[r] = "opening" /\ output[r] \in Results
      /\ output[r].of = r /\ output[r].error = "" /\ output[r].page = 0 /\ listed[r] < Kinds
      /\ ~session /\ opened = 0
  BY <1>1 DEF Open, IInv, ResultsWhole, ResultOf, OpenedOnce
<1>3. UNCHANGED <<holds, listed, late, asked, early>>
  BY DEF Open
<1>4. CASE Refused(r) # ""
  <2>. DEFINE x == [output[r] EXCEPT !.error = Refused(r)]
  <2>1. Return(r, x) /\ UNCHANGED <<session, opened>>
    BY <1>4 DEF Open
  <2>2. /\ Refused(r) \in {"", "cancelled", "deadline_exceeded"}
        /\ Refused(r) = "cancelled" => r \in asked
    BY <1>2, Refusal
  <2>3. x \in Results /\ x.of = r /\ x.error = Refused(r) /\ x.page = 0
    BY <1>2, <2>2 DEF Results
  <2>. HIDE DEF x
  <2>. QED  BY <1>2, <1>3, <1>4, <2>1, <2>2, <2>3, ReturnStep
<1>5. CASE Refused(r) = ""
  <2>. DEFINE x == [output[r] EXCEPT !.available = TRUE]
  <2>1. /\ session' = TRUE /\ opened' = 1 /\ output' = [output EXCEPT ![r] = x]
        /\ step' = [step EXCEPT ![r] = "listing"] /\ listed' = [listed EXCEPT ![r] = listed[r]]
        /\ UNCHANGED <<object, timer, busy, token, cancelled, watched, announced, shown, started>>
    <3>1. /\ session' = TRUE /\ opened' = opened + 1 /\ Available(r) /\ Goto(r, "listing")
          /\ listed' = listed
      BY <1>5 DEF Open
    <3>2. output' = [output EXCEPT ![r] = x]
      BY <1>1, <1>2, <3>1 DEF Available, Results
    <3>3. listed' = [listed EXCEPT ![r] = listed[r]]
      BY <1>1, <3>1
    <3>. HIDE DEF x
    <3>4. opened = 0
      BY <1>2
    <3>5. opened' = 1
      BY <3>1, <3>4
    <3>. QED  BY <3>1, <3>2, <3>3, <3>5 DEF Goto, ui
  <2>2. x \in Results /\ x.of = r /\ x.error = "" /\ x.page = 0
    BY <1>2 DEF Results
  <2>3. x.available
    BY <1>2 DEF Results
  <2>4. listed[r] \in 0..Kinds /\ session' \in BOOLEAN /\ opened' = IF session' THEN 1 ELSE 0
    BY <1>1, <2>1
  <2>. DEFINE q == "listing"
  <2>5. q \in {"opening", "listing", "returning"} /\ q # "returning" /\ q # "opening"
    OBVIOUS
  <2>6. step' = [step EXCEPT ![r] = q]
    BY <2>1
  <2>. HIDE DEF x, q
  <2>. QED  BY <1>2, <1>3, <2>1, <2>2, <2>3, <2>4, <2>5, <2>6, MoveStep
<1>. QED  BY <1>4, <1>5

\* The task lists the next kind, or is refused it and gives no page.
LEMMA ListStep == ASSUME IInv, NEW r \in Refreshes, ListResources(r) PROVE IInv'
<1>1. output \in [Refreshes -> Results] /\ listed \in [Refreshes -> 0..Kinds]
  BY DEF IInv, TypeOK
<1>2. /\ step[r] = "listing" /\ output[r] \in Results /\ listed[r] \in 0..Kinds /\ output[r].available
      /\ output[r].of = r /\ output[r].error = "" /\ output[r].page = 0 /\ listed[r] < Kinds
  BY <1>1 DEF ListResources, IInv, ResultsWhole, ResultOf
<1>3. UNCHANGED <<holds, late, session, opened, asked, early>>
  BY DEF ListResources, history
<1>4. CASE Refused(r) # ""
  <2>. DEFINE y == [output[r] EXCEPT !.error = Refused(r)]
              x == [y EXCEPT !.page = 0]
  <2>1. Return(r, [output[r] EXCEPT !.error = Refused(r), !.page = 0]) /\ UNCHANGED listed
    BY <1>4 DEF ListResources, PageOnError
  <2>2. x = [output[r] EXCEPT !.error = Refused(r), !.page = 0]
    OBVIOUS
  <2>3. /\ Refused(r) \in {"", "cancelled", "deadline_exceeded"}
        /\ Refused(r) = "cancelled" => r \in asked
    BY <1>2, Refusal
  <2>4. y \in Results /\ y.of = r /\ y.error = Refused(r) /\ 0 \in 0..Kinds
    BY <1>2, <2>3, PbxServiceAssumption DEF PbxServiceAssumption, Results
  <2>. HIDE DEF y
  <2>5. x \in Results /\ x.of = r /\ x.error = Refused(r) /\ x.page = 0
    BY <2>4 DEF Results
  <2>6. Return(r, x)
    BY <2>1, <2>2
  <2>. HIDE DEF x
  <2>. QED  BY <1>2, <1>3, <1>4, <2>1, <2>3, <2>5, <2>6, ReturnStep
<1>5. CASE Refused(r) = ""
  <2>. DEFINE q == IF listed[r] + 1 = Kinds THEN "returning" ELSE "listing"
              n == listed[r] + 1
  <2>1. /\ listed' = [listed EXCEPT ![r] = n] /\ output' = output
        /\ IF n = Kinds THEN Goto(r, "returning") ELSE UNCHANGED <<step, ui>>
    BY <1>5 DEF ListResources, LastKind
  <2>2. step \in [Refreshes -> {"unborn", "queued", "opening", "listing", "returning", "done"}]
    BY DEF IInv, TypeOK
  <2>3. /\ step' = [step EXCEPT ![r] = q] /\ output' = [output EXCEPT ![r] = output[r]]
        /\ UNCHANGED <<object, timer, busy, token, cancelled, watched, announced, shown, started>>
    <3>1. output' = [output EXCEPT ![r] = output[r]]
      BY <1>1, <2>1
    <3>2. CASE n = Kinds
      BY <2>1, <3>1, <3>2 DEF Goto, ui
    <3>3. CASE n # Kinds
      <4>1. step = [step EXCEPT ![r] = "listing"]
        BY <1>2, <2>2
      <4>. QED  BY <2>1, <3>1, <3>3, <4>1 DEF ui
    <3>. QED  BY <3>2, <3>3
  <2>4. n \in 0..Kinds /\ (q # "returning" => n < Kinds)
    <3>1. listed[r] \in 0..Kinds /\ listed[r] < Kinds
      BY <1>2
    <3>. QED  BY <3>1, PbxServiceAssumption DEF PbxServiceAssumption
  <2>5. q \in {"opening", "listing", "returning"} /\ q # "opening" /\ r \notin early
    BY <1>2, <1>5, Refusal
  <2>6. session \in BOOLEAN /\ opened = IF session THEN 1 ELSE 0
    BY DEF IInv, TypeOK, OpenedOnce
  <2>. HIDE DEF n, q
  <2>. QED  BY <1>1, <1>2, <1>3, <2>1, <2>3, <2>4, <2>5, <2>6, MoveStep
<1>. QED  BY <1>4, <1>5

\* The task returns the page.
LEMMA FinishStep == ASSUME IInv, NEW r \in Refreshes, Finish(r) PROVE IInv'
<1>. DEFINE x == [output[r] EXCEPT !.page = Kinds]
<1>1. /\ step[r] = "returning" /\ Return(r, x)
      /\ UNCHANGED <<holds, listed, late, session, opened, asked, early>>
  BY DEF Finish, history
<1>2. output[r] \in Results /\ Kinds \in 0..Kinds
  BY PbxServiceAssumption DEF PbxServiceAssumption, IInv, TypeOK
<1>3. output[r].of = r /\ output[r].error = "" /\ output[r].available /\ r \notin early
  BY <1>1 DEF IInv, ResultsWhole, ResultOf, TokensOwned
<1>4. x \in Results /\ x.of = r /\ x.error = "" /\ x.page = Kinds /\ x.available
  BY <1>2, <1>3 DEF Results
<1>. HIDE DEF x
<1>. QED  BY <1>1, <1>3, <1>4, ReturnStep

\* The timer that is dropped, and the deadline that passes.
LEMMA SmallSteps ==
  ASSUME IInv, RefreshReturns \/ (\E r \in Refreshes : Expire(r)) \/ UNCHANGED vars
  PROVE  IInv'
<1>1. /\ UNCHANGED <<object, busy, token, cancelled, watched, announced, shown, started>>
      /\ UNCHANGED <<step, holds, listed, output, session, opened, asked, early>>
      /\ timer' \in BOOLEAN /\ late' \subseteq Refreshes
  BY DEF RefreshReturns, Expire, vars, ui, pool, history, IInv, TypeOK
<1>2. TypeOK'
  BY <1>1, SameResults DEF IInv, TypeOK
<1>3. LatestOnly' /\ TokensOwned' /\ OpenedOnce' /\ ResultsWhole'
  BY <1>1 DEF IInv, LatestOnly, TokensOwned, OpenedOnce, ResultsWhole, ResultOf
<1>4. ShownIsWhole' /\ OnlyTheAskedIsCancelled' /\ GoneIsQuiet'
  BY <1>1 DEF IInv, ShownIsWhole, OnlyTheAskedIsCancelled, GoneIsQuiet, Running, Checking
<1>. QED  BY <1>2, <1>3, <1>4 DEF IInv

-----------------------------------------------------------------------------
\* The inductive invariant holds of every execution of PbxService, whatever
\* the order of refresh(), cancel(), the deadline, the task and the destructor.
THEOREM Invariance == Spec => []IInv
<1>1. Init => IInv
  BY InitIInv
<1>2. IInv /\ [Next]_vars => IInv'
  <2>. SUFFICES ASSUME IInv, [Next]_vars PROVE IInv'
    OBVIOUS
  <2>1. ASSUME NEW byTimer \in BOOLEAN, Refresh(byTimer) PROVE IInv'
    BY <2>1, RefreshStep
  <2>2. CASE Cancel
    <3>1. object' = object /\ timer' = timer /\ timer \in BOOLEAN
      BY <2>2 DEF Cancel, IInv, TypeOK
    <3>. QED  BY <2>2, <3>1, StopStep DEF Cancel
  <2>3. CASE Destroy
    BY <2>3, StopStep DEF Destroy
  <2>4. CASE ApplyRefreshResult
    BY <2>4, ApplyStep
  <2>5. CASE Destroyed
    BY <2>5, DestroyedStep
  <2>6. ASSUME NEW r \in Refreshes, Task(r) PROVE IInv'
    BY <2>6, BeginStep, OpenStep, ListStep, FinishStep DEF Task
  <2>7. CASE RefreshReturns \/ (\E r \in Refreshes : Expire(r)) \/ UNCHANGED vars
    BY <2>7, SmallSteps
  <2>. QED  BY <2>1, <2>2, <2>3, <2>4, <2>5, <2>6, <2>7 DEF Next
<1>. QED  BY <1>1, <1>2, PTL DEF Spec

\* Every variable of PbxService keeps its type.
THEOREM TypeCorrect == Spec => []TypeOK
<1>1. IInv => TypeOK
  BY DEF IInv
<1>. QED  BY <1>1, Invariance, PTL

\* WorkerState, which has no lock, is used by at most one task of the pool,
\* although a refresh may follow a cancelled one at once (PbxService.cpp:73-76).
THEOREM OneTask == Spec => []OneTaskAtATime
<1>1. IInv => OneTaskAtATime
  <2>. SUFFICES ASSUME IInv PROVE Cardinality(Running) <= 1
    BY DEF OneTaskAtATime
  <2>1. \A r \in Running : r \in Refreshes /\ step[r] \notin {"unborn", "done"}
    BY DEF Running, Checking
  <2>2. Running \subseteq {started}
    BY <2>1, TheTask
  <2>3. IsFiniteSet({started}) /\ Cardinality({started}) = 1
    BY FS_Singleton
  <2>4. Cardinality(Running) <= Cardinality({started})
    BY <2>2, <2>3, FS_Subset
  <2>. QED  BY <2>3, <2>4
<1>. QED  BY <1>1, Invariance, PTL

\* The session the first task opens serves all later refreshes.
THEOREM SessionOnce == Spec => []SessionReused
<1>1. IInv => SessionReused
  BY DEF IInv, OpenedOnce, SessionReused
<1>. QED  BY <1>1, Invariance, PTL

\* QML reads one whole result, and on an idle panel the latest one.
THEOREM WholeShown == Spec => []ShownIsWhole
<1>1. IInv => ShownIsWhole
  BY DEF IInv
<1>. QED  BY <1>1, Invariance, PTL

\* cancel() ends its own refresh only: the token is made anew by each one.
THEOREM CancelOwn == Spec => []OnlyTheAskedIsCancelled
<1>1. IInv => OnlyTheAskedIsCancelled
  BY DEF IInv
<1>. QED  BY <1>1, Invariance, PTL

\* A cancel() that comes before the task's last check is obeyed.
THEOREM CancelStops == Spec => []CancelStopsTheTask
<1>1. IInv => CancelStopsTheTask
  BY DEF IInv, TokensOwned, CancelStopsTheTask
<1>. QED  BY <1>1, Invariance, PTL

\* The destructor waits for one task, and there is no other.
THEOREM Quiet == Spec => []GoneIsQuiet
<1>1. IInv => GoneIsQuiet
  BY DEF IInv
<1>. QED  BY <1>1, Invariance, PTL
=============================================================================
