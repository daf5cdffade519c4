---------------------------- MODULE MCPbxSession ----------------------------
(* A small session for TLC: a call and two queues, and commands that race    *)
(* on one revision, reuse a key, miss their target, hit a limit or set an    *)
(* attribute that has the name and the look of a command's number.           *)
EXTENDS PbxSession, TLC

Cmd(k, kind, target, expected, arguments) ==
  [key |-> k, kind |-> kind, target |-> target, expected |-> expected,
   arguments |-> arguments]

MCResources == <<"call", "queue", "queue2">>
MCKindOf == [t \in {"call", "queue", "queue2"} |-> IF t = "call" THEN "Call" ELSE "Queue"]
MCSeedRevision == [t \in {"call", "queue", "queue2"} |-> IF t = "call" THEN 2 ELSE 0]
MCSeedAttributes == [t \in {"call", "queue", "queue2"} |->
                      IF t = "call" THEN [k \in {"state"} |-> "ringing"]
                      ELSE [k \in {"paused"} |-> "false"]]
MCSeedEvents == <<[resource |-> "call", revision |-> 2]>>

MCCommands == {
  Cmd("A", "StartCall", "call", {2}, <<>>),
  Cmd("A", "EndCall", "call", {}, <<>>),           \* key reused
  Cmd("B", "EndCall", "call", {2}, <<>>),                    \* races with A
  Cmd("C", "UpdateResource", "queue", {}, [k \in {"command_id"} |-> CommandId(1)]),
  Cmd("F", "UpdateResource", "queue", {}, [k \in {"label", "group"} |-> "y"]),  \* too many
  Cmd("D", "PauseQueue", "queue2", {0}, <<>>),
  Cmd("E", "ResumeQueue", "call", {}, <<>>)}       \* wrong kind

\* For the run that injects failures: two keys, a command refused for good and
\* seed events enough for the deliberate gap.
MCFewCommands == {
  Cmd("A", "StartCall", "call", {2}, <<>>),
  Cmd("B", "EndCall", "call", {}, <<>>),
  Cmd("C", "UpdateResource", "gone", {}, <<>>)}
MCFourSeedEvents == [i \in 1..4 |-> [resource |-> "call", revision |-> 2]]

\* Clients are interchangeable.  Used for safety only.
ClientSymmetry == Permutations(Clients)
=============================================================================
