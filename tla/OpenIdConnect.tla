--------------------------- MODULE OpenIdConnect ----------------------------
(***************************************************************************)
(* Single sign-on.  The SDK asks for a bearer token; CoreModel starts an   *)
(* OIDCModel, which reads the provider's configuration, sends the user to  *)
(* a browser and waits, two minutes at most, for the token.  The SDK must  *)
(* be told the end: addAuthInfo() or abortAuthentication().                *)
(*                                                                         *)
(* The connections live on the SDK thread.  The UI thread shows the time   *)
(* left, which ONE timer of App refreshes for all of them, and offers the  *)
(* Cancel button; posted lambdas carry the one and the other across.       *)
(***************************************************************************)
EXTENDS Naturals, Sequences

CONSTANTS Requests,     \* the SDK's calls of onAuthenticationRequested
          MaxCancels    \* clicks on Cancel

ASSUME OpenIdAssumption == MaxCancels \in Nat

(* What the flow waits for: the provider's configuration, the browser and  *)
(* the token, an error Qt reports, nothing more ("over").  "deaf": the     *)
(* reply handler could not listen, the constructor returned early.         *)
Phases == {"none", "deaf", "config", "browser", "failing", "over", "gone"}

VARIABLES
  phase,      \* of each connection
  timer,      \* those whose two minutes run (mTimeout)
  ending,     \* those that emitted finished: deleteLater() is posted
  aborted,    \* those abortAuthentication() was called for
  granted,    \* those whose bearers were given to the SDK
  posts,      \* posted to the UI thread: "start", "stop"
  cancels,    \* posted to the SDK thread: forceOidcTimeout
  clicks,     \* bound of the runs
  refresh,    \* the last order given to App::mOIDCRefreshTimer
  silent,     \* history: those that finished without telling the SDK
  \* history, since a start or a stop was last posted:
  dim,        \* those that waited when the end of another posted "stop"
  reopened    \* those that posted "start" though they were ending

conn == <<phase, timer, ending, aborted, granted, silent>>
told == <<posts, dim, reopened>>
vars == <<conn, told, cancels, clicks, refresh>>

Init ==
  /\ phase = [r \in Requests |-> "none"]
  /\ timer = {} /\ ending = {} /\ aborted = {} /\ granted = {} /\ silent = {}
  /\ posts = <<>> /\ cancels = 0 /\ clicks = 0
  /\ refresh = "stop" /\ dim = {} /\ reopened = {}

Alive(r) == phase[r] \notin {"none", "deaf", "gone"}

\* The connections the user waits for.
Waiting == timer \ ending

-----------------------------------------------------------------------------
(* mTimeout.start(), timeoutTimerStarted: a lambda is posted to the UI.    *)
Start(r) ==
  /\ timer' = timer \cup {r}
  /\ posts' = Append(posts, "start")
  /\ dim' = {}
  /\ reopened' = reopened \cup ({r} \cap ending)

(* timeoutTimerStopped, and finished: deleteLater() is posted.  Equal posts*)
(* of one step have the effect of one.                                     *)
Finish(S) ==
  /\ ending' = ending \cup S
  /\ posts' = Append(posts, "stop")
  /\ dim' = dim \cup (Waiting \ S)
  /\ reopened' = {}

(* OIDCModel::OIDCModel, onAuthenticationRequested.  The constructor's     *)
(* signals reach nobody; CoreModel looks at the timer once it is connected.*)
MutBegin(r, listening) ==
  /\ phase[r] = "none"
  /\ phase' = [phase EXCEPT ![r] = IF listening THEN "config" ELSE "deaf"]
  /\ Start(r)
  /\ UNCHANGED <<ending, aborted, granted, silent, cancels, clicks, refresh>>
Begin(r, listening) ==
  /\ phase[r] = "none"
  /\ phase' = [phase EXCEPT ![r] = IF listening THEN "config" ELSE "deaf"]
  /\ IF listening THEN Start(r) ELSE UNCHANGED <<timer, told>>
  /\ UNCHANGED <<ending, aborted, granted, silent, cancels, clicks, refresh>>

(* forceTimeout(): stop the timer, close the reply handler, abort, finish. *)
MutForceTimeout(S) ==
  /\ timer' = timer \ S
  /\ Finish(S)
  /\ UNCHANGED aborted
ForceTimeout(S) ==
  /\ timer' = timer \ S
  /\ aborted' = aborted \cup S
  /\ Finish(S)

(* stopTimeoutTimer(), then finished without forceTimeout().               *)
MutStopTimeoutTimer(r) ==
  /\ timer' = timer
  /\ Finish({r})
StopTimeoutTimer(r) ==
  /\ timer' = timer \ {r}
  /\ Finish({r})

(* openIdConfigReceived: a configuration without its endpoints.            *)
(* requestFailed makes CoreModel force the timeout, finished follows.      *)
ConfigFails(r) ==
  /\ phase[r] = "config"
  /\ phase' = [phase EXCEPT ![r] = "over"]
  /\ ForceTimeout({r})
  /\ UNCHANGED <<granted, silent, cancels, clicks, refresh>>

(* grant() opens the browser, and the two minutes start again; or it does  *)
(* not, when an endpoint is empty, and only the timer is left.             *)
BrowserOpens(r) ==
  /\ phase[r] = "config"
  /\ phase' = [phase EXCEPT ![r] = "browser"]
  /\ Start(r)
  /\ UNCHANGED <<ending, aborted, granted, silent, cancels, clicks, refresh>>

BrowserStaysClosed(r) ==
  /\ phase[r] = "config"
  /\ phase' = [phase EXCEPT ![r] = "over"]
  /\ UNCHANGED <<timer, told, ending, aborted, granted, silent,
                 cancels, clicks, refresh>>

(* Status::Granted: authenticated, hence setBearers().                     *)
Granted(r) ==
  /\ phase[r] = "browser"
  /\ phase' = [phase EXCEPT ![r] = "over"]
  /\ granted' = granted \cup {r}
  /\ StopTimeoutTimer(r)
  /\ UNCHANGED <<aborted, silent, cancels, clicks, refresh>>

(* Status::NotAuthenticated, or an error the switch of requestFailed does  *)
(* not list: finished, and the SDK is not told.                            *)
Refused(r) ==
  /\ phase[r] = "browser"
  /\ phase' = [phase EXCEPT ![r] = "over"]
  /\ silent' = silent \cup {r}
  /\ StopTimeoutTimer(r)
  /\ UNCHANGED <<aborted, granted, cancels, clicks, refresh>>

(* An error it lists.                                                      *)
RequestFailed(r) ==
  /\ phase[r] \in {"browser", "failing"}
  /\ phase' = [phase EXCEPT ![r] = "over"]
  /\ ForceTimeout({r})
  /\ UNCHANGED <<granted, silent, cancels, clicks, refresh>>

(* Before Qt 6.9: an answer without a token, an error Qt reports after it. *)
NoToken(r) ==
  /\ phase[r] = "browser"
  /\ phase' = [phase EXCEPT ![r] = "failing"]
  /\ ForceTimeout({r})
  /\ UNCHANGED <<granted, silent, cancels, clicks, refresh>>

(* The two minutes are over.  The timer is left running: it dies with the  *)
(* connection, long before it fires again.                                 *)
MutTimeoutReached(r) ==
  /\ Alive(r) /\ r \in Waiting
  /\ aborted' = aborted \cup {r}
  /\ ending' = ending \cup {r}
  /\ UNCHANGED <<phase, timer, granted, silent, told, cancels, clicks, refresh>>
TimeoutReached(r) ==
  /\ Alive(r) /\ r \in Waiting
  /\ aborted' = aborted \cup {r}
  /\ Finish({r})
  /\ UNCHANGED <<phase, timer, granted, silent, cancels, clicks, refresh>>

(* The deferred delete.  Answers that were already posted came before it.  *)
Delete(r) ==
  /\ Alive(r) /\ r \in ending
  /\ phase' = [phase EXCEPT ![r] = "gone"]
  /\ timer' = timer \ {r}
  /\ UNCHANGED <<ending, aborted, granted, silent, told, cancels, clicks,
                 refresh>>

-----------------------------------------------------------------------------
(* The Cancel button: lForceOidcTimeout, posted to the SDK thread.         *)
Click ==
  /\ clicks < MaxCancels
  /\ clicks' = clicks + 1
  /\ cancels' = cancels + 1
  /\ UNCHANGED <<conn, told, refresh>>

(* forceOidcTimeout reaches every connection whose timer runs.             *)
Cancel ==
  /\ cancels > 0
  /\ cancels' = cancels - 1
  /\ IF timer = {} THEN UNCHANGED <<timer, aborted, ending, told>>
     ELSE ForceTimeout(timer)
  /\ UNCHANGED <<phase, granted, silent, clicks, refresh>>

(* The UI thread takes the next post.                                      *)
TakePost ==
  /\ posts # <<>>
  /\ refresh' = Head(posts)
  /\ posts' = Tail(posts)
  /\ UNCHANGED <<conn, cancels, clicks, dim, reopened>>

-----------------------------------------------------------------------------
Answer(r) ==
  \/ ConfigFails(r) \/ BrowserOpens(r) \/ BrowserStaysClosed(r)
  \/ Granted(r) \/ Refused(r) \/ RequestFailed(r) \/ NoToken(r)

Next ==
  \/ \E r \in Requests :
       \/ \E listening \in BOOLEAN : Begin(r, listening)
       \/ Answer(r) \/ TimeoutReached(r) \/ Delete(r)
  \/ Click \/ Cancel \/ TakePost

(* The timer fires and the deferred delete is handled.  Nothing is assumed *)
(* of the provider, of the browser or of the user.                         *)
Spec == Init /\ [][Next]_vars
FairSpec ==
  /\ Spec
  /\ \A r \in Requests : WF_vars(TimeoutReached(r)) /\ WF_vars(Delete(r))

-----------------------------------------------------------------------------
TypeOK ==
  /\ phase \in [Requests -> Phases]
  /\ timer \subseteq {r \in Requests : Alive(r)}
  /\ ending \subseteq Requests /\ aborted \subseteq ending
  /\ granted \subseteq ending /\ silent \subseteq ending
  /\ posts \in Seq({"start", "stop"}) /\ refresh \in {"start", "stop"}
  /\ clicks \in 0 .. MaxCancels /\ cancels \in 0 .. clicks
  /\ dim \subseteq Requests /\ reopened \subseteq ending

(* Once its bearers are given to the SDK, a connection is not reported as  *)
(* aborted: neither by its timer, nor by a Cancel that was already posted  *)
(* when the token came, nor by a later error.                              *)
GrantIsFinal == [][(aborted' \ aborted) \cap granted = {}]_vars

(* A connection that could listen always ends, whatever the provider, the  *)
(* browser and the user do; and when it is deleted the SDK has been told,  *)
(* except by the ends that say nothing (Refused).                          *)
EndsAndTells ==
  \A r \in Requests :
    (phase[r] = "config")
      ~> (phase[r] = "gone" /\ r \in aborted \cup granted \cup silent)

(* The UI's single refresh timer, however many connections there are and   *)
(* whatever crosses.  With no post on its way it never runs when the user  *)
(* waits for none, unless one that was ending started its two minutes      *)
(* again; and it is never stopped while the user waits for one, unless the *)
(* end of another stopped it: then it runs again at the next start.        *)
RefreshFollows ==
  posts = <<>> =>
    /\ refresh = "start" => Waiting # {} \/ reopened # {}
    /\ refresh = "stop" => Waiting \subseteq dim
=============================================================================
