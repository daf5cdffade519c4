--------------------------- MODULE ProtectedCalls ---------------------------
(***************************************************************************)
(* What a SafeConnection promises to the two objects it joins, stated       *)
(* without locks, reference counts, threads or event queues: a call is      *)
(* either refused or accepted; an accepted call runs exactly once; and from *)
(* acceptance to completion neither object is torn down.                    *)
(* Abstract counterpart of module SafeConnection.                           *)
(***************************************************************************)

CONSTANT Calls   \* the invokeToCore / invokeToModel calls that can be made

VARIABLES status,   \* [Calls -> {"idle", "pending", "executing", "finished", "refused"}]
          coreUp,   \* the Core's destructor has not started
          modelUp   \* the Model's destructor has not started

vars == <<status, coreUp, modelUp>>

Outstanding == {c \in Calls : status[c] \in {"pending", "executing"}}

Init == /\ status = [c \in Calls |-> "idle"]
        /\ coreUp = TRUE
        /\ modelUp = TRUE

Accept(c) == /\ status[c] = "idle"
             /\ coreUp /\ modelUp
             /\ status' = [status EXCEPT ![c] = "pending"]
             /\ UNCHANGED <<coreUp, modelUp>>

Refuse(c) == /\ status[c] = "idle"
             /\ status' = [status EXCEPT ![c] = "refused"]
             /\ UNCHANGED <<coreUp, modelUp>>

Execute(c) == /\ status[c] = "pending"
              /\ status' = [status EXCEPT ![c] = "executing"]
              /\ UNCHANGED <<coreUp, modelUp>>

Finish(c) == /\ status[c] = "executing"
             /\ status' = [status EXCEPT ![c] = "finished"]
             /\ UNCHANGED <<coreUp, modelUp>>

CoreDown == /\ coreUp
            /\ Outstanding = {}
            /\ coreUp' = FALSE
            /\ UNCHANGED <<status, modelUp>>

ModelDown == /\ modelUp
             /\ Outstanding = {}
             /\ modelUp' = FALSE
             /\ UNCHANGED <<status, coreUp>>

Next == \/ \E c \in Calls : Accept(c) \/ Refuse(c) \/ Execute(c) \/ Finish(c)
        \/ CoreDown
        \/ ModelDown

Spec == Init /\ [][Next]_vars
=============================================================================
