---------------------------- MODULE AccountList -----------------------------
(***************************************************************************)
(* The accounts QML shows and the default one among them.                  *)
(* Sources: core/account/AccountList.cpp, AccountProxy.cpp, model/core     *)
(* (CoreModel), model/account (AccountModel, AccountManager).              *)
(*                                                                         *)
(* The linphone core, on the SDK thread, has the accounts.  The list's     *)
(* handlers run there too: they take a snapshot, or look for the default   *)
(* account among the UI's rows, and post what they found to the UI thread. *)
(***************************************************************************)
EXTENDS Naturals, Sequences

CONSTANTS Accounts,
          NoAccount,
          MaxPosted,     \* bound: the SDK changes nothing while more closures
                         \* than this wait for the UI thread
          MaxRestarts    \* bound: restarts of the core

ASSUME AccountListAssumption ==
  /\ NoAccount \notin Accounts
  /\ MaxPosted \in Nat /\ MaxRestarts \in Nat

VARIABLES
  \* The SDK thread.
  on,          \* the linphone core is on
  accounts,    \* its accounts
  default,     \* its default account
  toSdk,       \* closures posted to the SDK thread
  restarts,    \* bound of the runs
  \* The UI thread.
  connected,   \* the AccountList exists
  rows,        \* mList
  have,        \* mHaveAccount
  shown,       \* mDefaultAccount
  initialized, \* mIsInitialized, which the SDK thread writes too
  proxy,       \* mInitialized of the main window's AccountProxy
  toUi,        \* closures posted to the UI thread
  \* History.
  missed,      \* the UI had no row for the default account, and no snapshot
               \* was taken since
  raced        \* a bearer account came while a snapshot that initializes was
               \* on its way, and the lists were not initialized since

sdk == <<on, accounts, default, restarts>>
ui == <<connected, rows, have, shown, proxy>>
history == <<missed, raced>>
vars == <<sdk, toSdk, ui, initialized, toUi, history>>

Do(what) == [do |-> what]
OrNone(S) == S \cup {NoAccount}

Init ==
  /\ on = TRUE /\ accounts = {} /\ default = NoAccount
  /\ connected = FALSE /\ rows = {} /\ have = FALSE /\ shown = NoAccount
  /\ initialized = FALSE /\ proxy = FALSE
  /\ toSdk = <<>> /\ toUi = <<Do("initLists")>>
  /\ restarts = 0 /\ missed = FALSE /\ raced = FALSE

-----------------------------------------------------------------------------
\* The handlers, on the SDK thread.  None before the list is connected.
Handled(posts) == toUi' = IF connected THEN toUi \o posts ELSE toUi

MutSnapshot(init) ==
  [do |-> "reset", rows |-> accounts, default |-> default', init |-> init]
\* lUpdate(isInitialization): the accounts and the default one, as they are.
Snapshot(init) ==
  [do |-> "reset", rows |-> accounts', default |-> default', init |-> init]

\* defaultAccountChanged: findAccountByAddress() looks in the rows of the UI.
Found(a) == [do |-> "default", account |-> IF a \in rows THEN a ELSE NoAccount]

MayChange == on /\ Len(toUi) <= MaxPosted

\* A login, a remote configuration: onAccountAdded.
Add(a) ==
  /\ MayChange /\ a \notin accounts
  /\ accounts' = accounts \cup {a} /\ default' = default
  /\ Handled(<<Snapshot(TRUE)>>)
  /\ missed' = FALSE
  /\ UNCHANGED <<on, toSdk, restarts, ui, initialized, raced>>

\* Core::setDefaultAccount: the user's choice, or the end of a login.
MakeDefault(a) ==
  /\ MayChange /\ a \in accounts
  /\ default' = a
  /\ Handled(<<Found(a)>>)
  /\ missed' = (a \notin rows)
  /\ UNCHANGED <<on, accounts, toSdk, restarts, ui, initialized, raced>>

MutRemove(a) ==
  /\ MayChange /\ a \in accounts
  /\ accounts' = accounts \ {a}
  /\ default' = IF default = a THEN NoAccount ELSE default
  /\ Handled(IF default = a THEN <<Found(NoAccount)>> ELSE <<>>)
  /\ missed' = missed
  /\ UNCHANGED <<on, toSdk, restarts, ui, initialized, raced>>
\* The core forgets a default account it loses; onAccountRemoved then makes
\* the first that is left the default one.
Remove(a) ==
  /\ MayChange /\ a \in accounts
  /\ accounts' = accounts \ {a}
  /\ LET gone == IF default = a THEN NoAccount ELSE default
     IN /\ default' \in IF gone = NoAccount /\ accounts' # {} THEN accounts' ELSE {gone}
        /\ Handled((IF gone # default THEN <<Found(gone)>> ELSE <<>>)
                   \o (IF default' # gone THEN <<Found(default')>> ELSE <<>>)
                   \o <<Snapshot(FALSE)>>)
  /\ missed' = FALSE
  /\ UNCHANGED <<on, toSdk, restarts, ui, initialized, raced>>

\* bearerAccountAdded: setInitialized(false) on the SDK thread, whose signal
\* reaches the proxy as a posted closure; then lUpdate(true).
InitOnItsWay == \E i \in DOMAIN toUi : toUi[i].do = "reset" /\ toUi[i].init
BearerAccountAdded ==
  /\ MayChange /\ connected
  /\ UNCHANGED <<accounts, default>>
  /\ initialized' = FALSE
  /\ Handled((IF initialized THEN <<Do("notInitialized")>> ELSE <<>>)
             \o <<Snapshot(TRUE)>>)
  /\ missed' = FALSE
  /\ raced' = InitOnItsWay
  /\ UNCHANGED <<on, toSdk, restarts, ui>>

\* App::restartCore(): the core stops, then the UI thread empties the lists.
StopCore ==
  /\ MayChange /\ connected /\ restarts < MaxRestarts
  /\ on' = FALSE /\ restarts' = restarts + 1
  /\ toUi' = Append(toUi, Do("resetData"))
  /\ UNCHANGED <<accounts, default, toSdk, ui, initialized, history>>

SdkRuns(what) ==
  /\ toSdk # <<>> /\ Head(toSdk).do = what
  /\ toSdk' = Tail(toSdk)

\* GlobalState::On: whatever the new configuration holds.  App was told first:
\* if it waited for a core that was configuring, it calls initLists then; else
\* it does when initCore() is over, after the list's own lUpdate().
StartCore ==
  /\ SdkRuns("start")
  /\ on' = TRUE
  /\ accounts' \in SUBSET Accounts
  /\ default' \in OrNone(accounts')
  /\ \/ toUi' = toUi \o <<Snapshot(FALSE), Do("initLists")>>
     \/ toUi' = toUi \o <<Do("initLists"), Snapshot(FALSE)>>
  /\ missed' = FALSE
  /\ UNCHANGED <<restarts, ui, initialized, raced>>

\* The closure of lUpdate(true).
RunUpdate ==
  /\ SdkRuns("update")
  /\ UNCHANGED <<accounts, default>>
  /\ toUi' = Append(toUi, Snapshot(TRUE))
  /\ missed' = FALSE
  /\ UNCHANGED <<on, restarts, ui, initialized, raced>>

-----------------------------------------------------------------------------
\* The UI thread.
UiRuns(what) ==
  /\ toUi # <<>> /\ Head(toUi).do = what
  /\ toUi' = Tail(toUi)

\* initLists: AccountList::create(), or the list there is, not initialized any
\* more; lUpdate(true).  The proxy is made again when the core has started.
InitLists ==
  /\ UiRuns("initLists")
  /\ connected' = TRUE
  /\ initialized' = FALSE /\ proxy' = FALSE
  /\ toSdk' = Append(toSdk, Do("update"))
  /\ raced' = (raced /\ \E i \in DOMAIN toUi' : toUi'[i].do = "notInitialized")
  /\ UNCHANGED <<sdk, rows, have, shown, missed>>

\* resetData() empties the rows, nothing else; the core is started again.
ResetData ==
  /\ UiRuns("resetData")
  /\ rows' = {}
  /\ toSdk' = Append(toSdk, Do("start"))
  /\ UNCHANGED <<sdk, connected, have, shown, initialized, proxy, history>>

MutSetInitialized ==
  /\ initialized' = TRUE /\ proxy' = proxy
\* setInitialized(true) signals only a change.
SetInitialized ==
  /\ initialized' = TRUE
  /\ proxy' = IF initialized THEN proxy ELSE TRUE

\* The answer of lUpdate.
Reset ==
  /\ UiRuns("reset")
  /\ rows' = Head(toUi).rows
  /\ have' = (Head(toUi).rows # {})
  /\ shown' = Head(toUi).default
  /\ IF Head(toUi).init THEN SetInitialized ELSE UNCHANGED <<initialized, proxy>>
  /\ UNCHANGED <<sdk, toSdk, connected, history>>

MutSetDefaultAccount ==
  /\ UiRuns("default")
  /\ shown' = IF Head(toUi).account = NoAccount THEN shown ELSE Head(toUi).account
  /\ UNCHANGED <<sdk, toSdk, connected, rows, have, initialized, proxy, history>>
SetDefaultAccount ==
  /\ UiRuns("default")
  /\ shown' = Head(toUi).account
  /\ UNCHANGED <<sdk, toSdk, connected, rows, have, initialized, proxy, history>>

\* AccountProxy::setInitialized(false), posted by the SDK thread's signal.
NotInitialized ==
  /\ UiRuns("notInitialized")
  /\ proxy' = FALSE
  /\ UNCHANGED <<sdk, toSdk, connected, rows, have, shown, initialized, history>>

-----------------------------------------------------------------------------
SdkThread == StartCore \/ RunUpdate
UiThread == InitLists \/ ResetData \/ Reset \/ SetDefaultAccount \/ NotInitialized

Next ==
  \/ SdkThread \/ UiThread \/ BearerAccountAdded \/ StopCore
  \/ \E a \in Accounts : Add(a) \/ MakeDefault(a) \/ Remove(a)

(* Each thread runs what is posted to it.                                  *)
Spec == Init /\ [][Next]_vars /\ WF_vars(SdkThread) /\ WF_vars(UiThread)

-----------------------------------------------------------------------------
TypeOK ==
  /\ on \in BOOLEAN /\ connected \in BOOLEAN /\ have \in BOOLEAN
  /\ initialized \in BOOLEAN /\ proxy \in BOOLEAN
  /\ missed \in BOOLEAN /\ raced \in BOOLEAN
  /\ accounts \subseteq Accounts /\ default \in OrNone(accounts)
  /\ rows \subseteq Accounts /\ shown \in OrNone(Accounts)
  /\ restarts \in 0 .. MaxRestarts
  /\ \A i \in DOMAIN toUi : toUi[i].do = "reset"
                              => /\ toUi[i].rows \subseteq Accounts
                                 /\ toUi[i].default \in OrNone(toUi[i].rows)

Settled == on /\ connected /\ toSdk = <<>> /\ toUi = <<>>

(* When nothing is on its way the rows are the core's accounts, however    *)
(* additions, removals, restarts and updates asked by both threads crossed.*)
RowsMatch == Settled => rows = accounts /\ have = (accounts # {})

(* And the default account shown is the core's.  The one exception: the    *)
(* default account changed before the UI had its row, which the handler    *)
(* takes for "no default account" (AccountList.cpp:89-92), and no snapshot *)
(* was taken afterwards.                                                   *)
DefaultShown == Settled => shown = default \/ (missed /\ shown = NoAccount)

(* The main window always gets to its first page: after a start, after a   *)
(* restart, and when a bearer account is added "to automatically go on the *)
(* main page" (AccountList.cpp:98), unless a snapshot that initializes was *)
(* then on its way: it consumes the change the later one should signal.    *)
MainPageComes == []<>(proxy \/ raced \/ ~on)
=============================================================================
