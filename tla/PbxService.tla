----------------------------- MODULE PbxService -----------------------------
(***************************************************************************)
(* The PBX panel's service object.  Source: Linphone/model/pbx/PbxService.* *)
(*                                                                          *)
(* PbxService lives on the UI thread.  refresh() hands the provider and the *)
(* session, which nothing locks (WorkerState), to a task of the global      *)
(* thread pool; the watcher posts the end of the task to the UI thread,     *)
(* where applyRefreshResult() copies the result to the properties QML shows.*)
(* cancel() and the destructor may come at any moment of a refresh.         *)
(***************************************************************************)
EXTENDS Naturals, FiniteSets

CONSTANTS
  Kinds,          \* number of resource kinds, listed one after the other
  MaxRefreshes    \* bound: refresh() calls that start a task

ASSUME PbxServiceAssumption == Kinds \in Nat \ {0} /\ MaxRefreshes \in Nat

Refreshes == 1..MaxRefreshes
NoRefresh == 0

VARIABLES
  object,      \* PbxService: "alive", "dying" (in its destructor) or "gone"
  timer,       \* the constructor's single-shot timer is pending
  busy,        \* mBusy
  token,       \* mCancellation, named after the refresh that made it
  cancelled,   \* tokens that were cancelled
  watched,     \* the task whose future mRefreshWatcher holds
  announced,   \* its finished() is on the way to the UI thread
  shown,       \* what QML reads: mProviderAvailable .. mErrorMessage
  started,     \* refreshes that handed a task to the thread pool
  step,        \* where the task of each refresh is
  holds,       \* the token each task holds
  listed,      \* the kinds each task has listed
  late,        \* tasks whose two seconds are over
  output,      \* the RefreshResult of each task
  session,     \* WorkerState::session exists
  \* History variables, read by the properties only.
  opened,      \* sessions that were ever opened
  asked,       \* refreshes that cancel() was called in
  early        \* those whose task had a check to make then

ui      == <<object, timer, busy, token, cancelled, watched, announced, shown, started>>
pool    == <<step, holds, listed, late, output, session>>
history == <<opened, asked, early>>
vars    == <<ui, pool, history>>

\* A RefreshResult; page is the number of kinds it shows, available
\* stands for the capabilities too, of is the refresh the result is from.
Blank(r) == [available |-> FALSE, page |-> 0, error |-> "", of |-> r]

Init ==
  /\ object = "alive" /\ timer = TRUE /\ busy = FALSE
  /\ token = NoRefresh /\ cancelled = {}
  /\ watched = NoRefresh /\ announced = FALSE
  /\ shown = Blank(NoRefresh)
  /\ started = 0
  /\ step = [r \in Refreshes |-> "unborn"]
  /\ holds = [r \in Refreshes |-> NoRefresh]
  /\ listed = [r \in Refreshes |-> 0]
  /\ late = {}
  /\ output = [r \in Refreshes |-> Blank(r)]
  /\ session = FALSE
  /\ opened = 0 /\ asked = {} /\ early = {}

\* Tasks that will check their token again, and tasks that have not returned.
Checking == {r \in Refreshes : step[r] \in {"queued", "opening", "listing"}}
Running  == Checking \cup {r \in Refreshes : step[r] = "returning"}

-----------------------------------------------------------------------------
\* The UI thread.

MutMayRefreshAnyTime == TRUE
MayRefresh == ~busy

NewToken == started + 1

\* refresh(), from the first timer or from QML: a new token; the last error is
\* cleared and the rest stays shown until the answer.
Refresh(byTimer) ==
  /\ object = "alive" /\ (byTimer => timer)
  /\ MayRefresh
  /\ started < MaxRefreshes
  /\ timer' = (timer /\ ~byTimer)
  /\ busy' = TRUE
  /\ token' = NewToken
  /\ shown' = [shown EXCEPT !.error = ""]
  /\ started' = started + 1
  /\ step' = [step EXCEPT ![started + 1] = "queued"]
  /\ holds' = [holds EXCEPT ![started + 1] = token']
  /\ watched' = started + 1
  /\ announced' = FALSE
  /\ UNCHANGED <<object, cancelled, listed, late, output, session, history>>

\* The timer finds a refresh from QML under way.
RefreshReturns ==
  /\ object = "alive" /\ timer /\ ~MayRefresh
  /\ timer' = FALSE
  /\ UNCHANGED <<object, busy, token, cancelled, watched, announced, shown, started, pool, history>>

\* cancel()
StopTask ==
  /\ cancelled' = IF busy THEN cancelled \cup {token} ELSE cancelled
  /\ asked' = IF busy THEN asked \cup {started} ELSE asked
  /\ early' = IF busy THEN early \cup ({started} \cap Checking) ELSE early

Cancel ==
  /\ object = "alive" /\ StopTask
  /\ UNCHANGED <<object, timer, busy, token, watched, announced, shown, started, pool, opened>>

MutAppliedBusy(result) == busy /\ result.error # ""
AppliedBusy(result) == FALSE

\* applyRefreshResult()
ApplyRefreshResult ==
  /\ object = "alive" /\ announced
  /\ announced' = FALSE
  /\ shown' = output[watched]
  /\ busy' = AppliedBusy(output[watched])
  /\ UNCHANGED <<object, timer, token, cancelled, watched, started, pool, history>>

\* ~PbxService(): cancels, then waits for the task the watcher holds.
Destroy ==
  /\ object = "alive"
  /\ object' = "dying"
  /\ timer' = FALSE
  /\ StopTask
  /\ UNCHANGED <<busy, token, watched, announced, shown, started, pool, opened>>

Waited == watched \notin Running

Destroyed ==
  /\ object = "dying" /\ Waited
  /\ object' = "gone"
  /\ announced' = FALSE
  /\ UNCHANGED <<timer, busy, token, cancelled, watched, shown, started, pool, history>>

-----------------------------------------------------------------------------
\* A task, on a thread of the pool.

\* check_request_context(), which every call of the session makes.
MutRefusedWhenLate(r) == IF r \in late THEN "deadline_exceeded" ELSE ""
Refused(r) ==
  IF holds[r] \in cancelled THEN "cancelled"
  ELSE IF r \in late THEN "deadline_exceeded" ELSE ""

\* Returns a result; the watcher posts finished() if it holds this future.
Return(r, result) ==
  /\ output' = [output EXCEPT ![r] = result]
  /\ step' = [step EXCEPT ![r] = "done"]
  /\ announced' = (announced \/ watched = r)
  /\ UNCHANGED <<object, timer, busy, token, cancelled, watched, shown, started>>

Goto(r, label) == step' = [step EXCEPT ![r] = label] /\ UNCHANGED ui

Available(r) ==
  output' = [output EXCEPT ![r].available = TRUE]

\* Sets the deadline, makes the provider if need be, looks for a session.
FirstStep(r) == IF session THEN "listing" ELSE "opening"

Begin(r) ==
  /\ step[r] = "queued"
  /\ IF FirstStep(r) = "listing" THEN Available(r) ELSE UNCHANGED output
  /\ Goto(r, FirstStep(r))
  /\ UNCHANGED <<holds, listed, late, session, history>>

Open(r) ==
  /\ step[r] = "opening"
  /\ IF Refused(r) # ""
     THEN Return(r, [output[r] EXCEPT !.error = Refused(r)]) /\ UNCHANGED <<session, opened>>
     ELSE /\ session' = TRUE /\ opened' = opened + 1
          /\ Available(r)
          /\ Goto(r, "listing")
  /\ UNCHANGED <<holds, listed, late, asked, early>>

MutPageSoFar(r) == listed[r]
PageOnError(r) == 0

LastKind(r) == listed[r] + 1 = Kinds

ListResources(r) ==
  /\ step[r] = "listing"
  /\ \/ /\ Refused(r) # ""
        /\ Return(r, [output[r] EXCEPT !.error = Refused(r), !.page = PageOnError(r)])
        /\ UNCHANGED listed
     \/ /\ Refused(r) = ""
        /\ listed' = [listed EXCEPT ![r] = @ + 1]
        /\ IF LastKind(r) THEN Goto(r, "returning") ELSE UNCHANGED <<step, ui>>
        /\ UNCHANGED output
  /\ UNCHANGED <<holds, late, session, history>>

\* The page is put in the result; the token is not looked at again.
Finish(r) ==
  /\ step[r] = "returning"
  /\ Return(r, [output[r] EXCEPT !.page = Kinds])
  /\ UNCHANGED <<holds, listed, late, session, history>>

\* The two seconds of a task, counted from Begin, are over.
Expire(r) ==
  /\ step[r] \in {"opening", "listing"} /\ r \notin late
  /\ late' = late \cup {r}
  /\ UNCHANGED <<ui, step, holds, listed, output, session, history>>

Task(r) == Begin(r) \/ Open(r) \/ ListResources(r) \/ Finish(r)

Next ==
  \/ \E byTimer \in BOOLEAN : Refresh(byTimer)
  \/ RefreshReturns
  \/ Cancel \/ ApplyRefreshResult
  \/ Destroy \/ Destroyed
  \/ \E r \in Refreshes : Task(r) \/ Expire(r)

\* The pool runs every task and the UI thread's loop delivers every event;
\* nothing makes the user refresh, cancel or quit.
Fairness ==
  /\ \A r \in Refreshes : WF_vars(Task(r))
  /\ WF_vars(ApplyRefreshResult)
  /\ WF_vars(Destroyed)

Spec == Init /\ [][Next]_vars /\ Fairness

-----------------------------------------------------------------------------
Results == [available : BOOLEAN, page : 0..Kinds,
            error : {"", "cancelled", "deadline_exceeded"}, of : 0..MaxRefreshes]

\* The type invariant.
TypeOK ==
  /\ object \in {"alive", "dying", "gone"}
  /\ timer \in BOOLEAN /\ busy \in BOOLEAN /\ announced \in BOOLEAN /\ session \in BOOLEAN
  /\ token \in 0..MaxRefreshes /\ watched \in 0..MaxRefreshes /\ started \in 0..MaxRefreshes
  /\ cancelled \subseteq 0..MaxRefreshes
  /\ shown \in Results
  /\ step \in [Refreshes -> {"unborn", "queued", "opening", "listing", "returning", "done"}]
  /\ holds \in [Refreshes -> 0..MaxRefreshes]
  /\ listed \in [Refreshes -> 0..Kinds]
  /\ late \subseteq Refreshes
  /\ output \in [Refreshes -> Results]
  /\ opened \in Nat /\ asked \subseteq Refreshes /\ early \subseteq Refreshes

\* WorkerState has no lock: at most one task may be using it, whatever is
\* pressed and whenever (PbxService.cpp:73-76, 121-127).
OneTaskAtATime == Cardinality(Running) <= 1

\* The session of the first refresh serves every later one, those after a
\* cancelled or timed out refresh too: it is never opened twice.
SessionReused == opened <= 1

\* What is shown is the whole result of one refresh: a page with all the kinds
\* and no error, or an error and no page; and when the panel is not busy, the
\* result of the latest refresh.
ShownIsWhole ==
  /\ shown.page \in {0, Kinds}
  /\ shown.page = Kinds => shown.error = "" /\ shown.available
  /\ ~busy => /\ shown.of = started
              /\ started > 0 => (shown.page = Kinds <=> shown.error = "")

\* Only a refresh that cancel() was called in ends as cancelled: the token of
\* one refresh does not reach the next.
OnlyTheAskedIsCancelled ==
  \A r \in Refreshes : output[r].error = "cancelled" => r \in asked

\* A refresh cancelled before the last check of its task gives no page.
CancelStopsTheTask ==
  \A r \in early : step[r] # "returning" /\ output[r].page = 0

\* No task outlives the service object it was started by.
GoneIsQuiet == object = "gone" => Running = {}

\* A busy panel does not stay busy, and the destructor returns.
RefreshEnds ==
  /\ busy ~> (~busy \/ object # "alive")
  /\ (object = "dying") ~> (object = "gone")
=============================================================================
