----------------------------- MODULE PbxSession -----------------------------
(***************************************************************************)
(* One open session of the PBX provider, called from several threads.       *)
(* Source: Linphone/pbx/src/simulator_pbx_provider.cpp, pbx_provider.cpp.   *)
(*                                                                          *)
(* Every operation checks its context (cancellation token and deadline) and *)
(* its request, takes the session's mutex, checks the context again, and    *)
(* does the rest under the mutex: a call is two steps, Call and the answer, *)
(* between which other calls may be answered and its context may end.       *)
(***************************************************************************)
EXTENDS Naturals, Sequences, FiniteSets, Functions, Selections

CONSTANTS
  Clients,         \* threads that call the session
  Commands,        \* PbxCommands: [kind, target, key, arguments, expected],
                   \* expected_revision as a set of at most one number
  Resources,       \* ids of resources_, in the order of the vector
  KindOf,          \* the ResourceKind of each
  SeedRevision,    \* revisions and attributes seed() gives them
  SeedAttributes,
  SeedEvents,      \* the events seed() leaves in the log: [resource, revision]
  Modes,           \* values of SimulatorOptions::state to consider
  MaxEvents,       \* kMaxSimulatorEvents
  MaxReceipts,     \* kMaxSimulatorIdempotencyRecords
  MaxAttributes,   \* kMaxAttributeEntries
  Limits           \* page limits that clients ask for

Targets == Range(Resources)
Keys    == {cmd.key : cmd \in Commands}

ASSUME BoundsAssumption ==
  MaxEvents \in Nat \ {0} /\ MaxReceipts \in Nat /\ MaxAttributes \in Nat
  /\ Limits \subseteq Nat \ {0}

ASSUME SeedAssumption ==
  /\ Resources \in Seq(Targets) /\ IsInjective(Resources)
  /\ SeedRevision \in [Targets -> Nat]
  /\ SeedEvents \in Seq([resource : Targets, revision : Nat])
  /\ Len(SeedEvents) <= MaxEvents
  /\ DOMAIN SeedAttributes = Targets
  /\ \A t \in Targets : /\ IsFiniteSet(DOMAIN SeedAttributes[t])
                        /\ Cardinality(DOMAIN SeedAttributes[t]) <= MaxAttributes

ASSUME ArgumentsAssumption ==
  \A cmd \in Commands : IsFiniteSet(DOMAIN cmd.arguments)

\* Offline and Unauthorized sessions are never opened; MixedVersion differs
\* from Healthy in schema versions only.
ASSUME ModeAssumption ==
  Modes \subseteq {"Healthy", "PartialPermission", "RateLimited", "EventGap", "Conflict"}

VARIABLES
  mode,        \* options_.state, fixed for the session
  revision, attributes,   \* of each resource
  events,      \* events_, oldest first: [sequence, resource, revision, payload]
  receipts,    \* receipts_: idempotency key -> [fingerprint, id, revision]
  snapshot,    \* snapshot_revision_
  nextCommand, nextEvent,
  request,     \* the call each client is in, or Idle
  context,     \* its RequestContext: "live", "Cancelled" or "DeadlineExceeded"
  result,      \* the outcome of the client's latest call
  \* History variables, read by the properties only.
  applied,     \* commands that took effect, in order
  versions,    \* versions[s]: the revisions when snapshot_revision_ was s
  log          \* every event there has been

store   == <<revision, attributes, events, receipts, snapshot, nextCommand, nextEvent>>
history == <<applied, versions, log>>
vars    == <<mode, store, request, context, result, history>>

Idle    == [op |-> "idle"]
Failure(code) == [op |-> "failure", code |-> code]

-----------------------------------------------------------------------------
Fingerprint(cmd) == <<cmd.kind, cmd.target, cmd.expected, cmd.arguments>>

\* The capabilities a session in PartialPermission lacks are the three that
\* commands need; none is needed to list, and ReadEvents is always there.
Permitted(req) == req.op = "execute" => mode # "PartialPermission"

\* The kind a target must have; any kind will do for UpdateResource.
Compatible(cmd) ==
  CASE cmd.kind \in {"StartCall", "EndCall"}     -> KindOf[cmd.target] = "Call"
    [] cmd.kind \in {"PauseQueue", "ResumeQueue"} -> KindOf[cmd.target] = "Queue"
    [] OTHER -> TRUE

One(key, value) == [k \in {key} |-> value]

\* The attributes a command sets.
Mutations(cmd) ==
  CASE cmd.kind = "StartCall"   -> One("state", "connected")
    [] cmd.kind = "EndCall"     -> One("state", "ended")
    [] cmd.kind = "PauseQueue"  -> One("paused", "true")
    [] cmd.kind = "ResumeQueue" -> One("paused", "false")
    [] OTHER -> cmd.arguments

Overlay(old, new) ==
  [k \in DOMAIN old \cup DOMAIN new |-> IF k \in DOMAIN new THEN new[k] ELSE old[k]]

\* The payload of a command's event: what it set, and the number of its receipt
\* under "command_id", where it has set no attribute of that name itself.
CommandId(n)    == <<"sim-command", n>>
Payload(cmd, n) == Overlay(One("command_id", CommandId(n)), Mutations(cmd))

\* The checks execute() makes under the mutex for a key it has not seen, in
\* order: the first that fails is the answer.
MutRefusalIgnoresRevision(cmd) ==
  CASE cmd.target \notin Targets -> "NotFound"
    [] ~Compatible(cmd) -> "InvalidArgument"
    [] mode = "Conflict" -> "Conflict"
    [] cmd.kind # "UpdateResource" /\ cmd.arguments # <<>> -> "InvalidArgument"
    [] Cardinality(DOMAIN Overlay(attributes[cmd.target], Mutations(cmd))) > MaxAttributes
         -> "ResourceExhausted"
    [] Cardinality(DOMAIN receipts) >= MaxReceipts -> "ResourceExhausted"
    [] OTHER -> "none"

MutRefusalOffByOne(cmd) ==
  CASE cmd.target \notin Targets -> "NotFound"
    [] ~Compatible(cmd) -> "InvalidArgument"
    [] mode = "Conflict" -> "Conflict"
    [] ~(cmd.expected \subseteq {revision[cmd.target]}) -> "Conflict"
    [] cmd.kind # "UpdateResource" /\ cmd.arguments # <<>> -> "InvalidArgument"
    [] Cardinality(DOMAIN Overlay(attributes[cmd.target], Mutations(cmd))) > MaxAttributes
         -> "ResourceExhausted"
    [] Cardinality(DOMAIN receipts) > MaxReceipts -> "ResourceExhausted"
    [] OTHER -> "none"

Refusal(cmd) ==
  CASE cmd.target \notin Targets -> "NotFound"
    [] ~Compatible(cmd) -> "InvalidArgument"
    [] mode = "Conflict" -> "Conflict"
    [] ~(cmd.expected \subseteq {revision[cmd.target]}) -> "Conflict"
    [] cmd.kind # "UpdateResource" /\ cmd.arguments # <<>> -> "InvalidArgument"
    [] Cardinality(DOMAIN Overlay(attributes[cmd.target], Mutations(cmd))) > MaxAttributes
         -> "ResourceExhausted"
    [] Cardinality(DOMAIN receipts) >= MaxReceipts -> "ResourceExhausted"
    [] OTHER -> "none"

\* The log keeps its latest MaxEvents events.
MutRetainKeepsOldest(s) == IF Len(s) > MaxEvents THEN SubSeq(s, 1, MaxEvents) ELSE s
Retain(s) == IF Len(s) > MaxEvents THEN Tail(s) ELSE s

-----------------------------------------------------------------------------
Init ==
  /\ mode \in Modes
  /\ revision = SeedRevision
  /\ attributes = SeedAttributes
  /\ events = [i \in 1..Len(SeedEvents) |->
                 [sequence |-> i, resource |-> SeedEvents[i].resource,
                  revision |-> SeedEvents[i].revision, payload |-> <<>>]]
  /\ receipts = <<>>
  /\ snapshot = 1
  /\ nextCommand = 1
  /\ nextEvent = Len(SeedEvents) + 1
  /\ request = [c \in Clients |-> Idle]
  /\ context = [c \in Clients |-> "live"]
  /\ result = [c \in Clients |-> Idle]
  /\ applied = <<>>
  /\ versions = <<SeedRevision>>
  /\ log = events

Listed(kind) == Picked(Resources, {i \in DOMAIN Resources : KindOf[Resources[i]] = kind})

Execute(cmd)       == [op |-> "execute", command |-> cmd]
ReadEvents(n, lim) == [op |-> "read", after |-> n, limit |-> lim]
List(k, n, lim)    == [op |-> "list", kind |-> k, offset |-> n, limit |-> lim]

\* Cursors clients present: any event sequence, any offset, stale ones included.
Requests ==
  {Execute(cmd) : cmd \in Commands}
    \cup {ReadEvents(n, lim) : n \in 0..Len(log), lim \in Limits}
    \cup UNION {{List(k, n, lim) : n \in 0..(Len(Listed(k)) + 1)} :
                  k \in Range(KindOf), lim \in Limits}

\* The call up to the mutex.  RateLimited is answered by the first preflight.
Rejected(c, code) ==
  /\ request[c] = Idle
  /\ result' = [result EXCEPT ![c] = Failure(code)]
  /\ UNCHANGED <<mode, store, request, context, history>>

Call(c, req) ==
  /\ request[c] = Idle
  /\ mode # "RateLimited" /\ Permitted(req)
  /\ request' = [request EXCEPT ![c] = req]
  /\ context' = [context EXCEPT ![c] = "live"]
  /\ result' = [result EXCEPT ![c] = Idle]
  /\ UNCHANGED <<mode, store, history>>

Reject(c, req) ==
  \/ mode = "RateLimited" /\ Rejected(c, "RateLimited")
  \/ mode # "RateLimited" /\ ~Permitted(req) /\ Rejected(c, "PermissionDenied")

\* Somebody cancels the token, or the deadline passes, before the mutex is had.
EndContext(c, why) ==
  /\ request[c] # Idle /\ context[c] = "live"
  /\ context' = [context EXCEPT ![c] = why]
  /\ UNCHANGED <<mode, store, request, result, history>>

Answer(c, r) ==
  /\ result' = [result EXCEPT ![c] = r]
  /\ request' = [request EXCEPT ![c] = Idle]
  /\ UNCHANGED <<mode, context>>

\* The second preflight, under the mutex.
GiveUp(c) ==
  /\ request[c] # Idle /\ context[c] # "live"
  /\ Answer(c, Failure(context[c]))
  /\ UNCHANGED <<store, history>>

Ready(c, op) == request[c].op = op /\ context[c] = "live"

Receipt(cmd, how, rec) ==
  [op |-> "receipt", command |-> cmd, status |-> how, id |-> rec.id, revision |-> rec.revision]

\* The key was used before: the first receipt again, or a conflict.
MutReplayAnyCommand(c) ==
  /\ Ready(c, "execute")
  /\ LET cmd == request[c].command
     IN /\ cmd.key \in DOMAIN receipts
        /\ Answer(c, Receipt(cmd, "Replayed", receipts[cmd.key]))
  /\ UNCHANGED <<store, history>>

ReplayCommand(c) ==
  /\ Ready(c, "execute")
  /\ LET cmd == request[c].command
     IN /\ cmd.key \in DOMAIN receipts
        /\ Answer(c, IF receipts[cmd.key].fingerprint = Fingerprint(cmd)
                     THEN Receipt(cmd, "Replayed", receipts[cmd.key])
                     ELSE Failure("Conflict"))
  /\ UNCHANGED <<store, history>>

MutRefuseWaitsForRoom(c) ==
  /\ Ready(c, "execute")
  /\ LET cmd == request[c].command
     IN /\ cmd.key \notin DOMAIN receipts
        /\ Refusal(cmd) \notin {"none", "ResourceExhausted"}
        /\ Answer(c, Failure(Refusal(cmd)))
  /\ UNCHANGED <<store, history>>

\* A new key whose command fails a check: nothing has been changed yet.
RefuseCommand(c) ==
  /\ Ready(c, "execute")
  /\ LET cmd == request[c].command
     IN /\ cmd.key \notin DOMAIN receipts
        /\ Refusal(cmd) # "none"
        /\ Answer(c, Failure(Refusal(cmd)))
  /\ UNCHANGED <<store, history>>

MutEffectKeepsSnapshot(c, cmd) ==
  LET rec == [fingerprint |-> Fingerprint(cmd), id |-> nextCommand,
              revision |-> revision[cmd.target] + 1]
      ev  == [sequence |-> nextEvent, resource |-> cmd.target,
              revision |-> rec.revision, payload |-> Payload(cmd, nextCommand)]
  IN  /\ attributes' = [attributes EXCEPT ![cmd.target] = Overlay(@, Mutations(cmd))]
      /\ revision' = [revision EXCEPT ![cmd.target] = @ + 1]
      /\ snapshot' = IF cmd.kind = "UpdateResource" THEN snapshot + 1 ELSE snapshot
      /\ nextCommand' = nextCommand + 1
      /\ receipts' = Overlay(receipts, One(cmd.key, rec))
      /\ nextEvent' = nextEvent + 1
      /\ events' = Retain(Append(events, ev))
      /\ applied' = Append(applied, cmd)
      /\ versions' = Append(versions, revision')
      /\ log' = Append(log, ev)
      /\ Answer(c, Receipt(cmd, "Applied", rec))

\* The command takes effect: attributes, revisions, receipt and event.
Effect(c, cmd) ==
  LET rec == [fingerprint |-> Fingerprint(cmd), id |-> nextCommand,
              revision |-> revision[cmd.target] + 1]
      ev  == [sequence |-> nextEvent, resource |-> cmd.target,
              revision |-> rec.revision, payload |-> Payload(cmd, nextCommand)]
  IN  /\ attributes' = [attributes EXCEPT ![cmd.target] = Overlay(@, Mutations(cmd))]
      /\ revision' = [revision EXCEPT ![cmd.target] = @ + 1]
      /\ snapshot' = snapshot + 1
      /\ nextCommand' = nextCommand + 1
      /\ receipts' = Overlay(receipts, One(cmd.key, rec))
      /\ nextEvent' = nextEvent + 1
      /\ events' = Retain(Append(events, ev))
      /\ applied' = Append(applied, cmd)
      /\ versions' = Append(versions, revision')
      /\ log' = Append(log, ev)
      /\ Answer(c, Receipt(cmd, "Applied", rec))

ApplyCommand(c) ==
  /\ Ready(c, "execute")
  /\ LET cmd == request[c].command
     IN /\ cmd.key \notin DOMAIN receipts
        /\ Refusal(cmd) = "none"
        /\ Effect(c, cmd)

\* list_resources(): a slice of the resources of one kind, as they are now.
ListResources(c) ==
  /\ Ready(c, "list")
  /\ LET req == request[c]
         all == Listed(req.kind)
         end == IF req.offset + req.limit < Len(all) THEN req.offset + req.limit ELSE Len(all)
     IN Answer(c, IF req.offset > Len(all)
                  THEN Failure("InvalidArgument")
                  ELSE [op |-> "page", kind |-> req.kind, offset |-> req.offset,
                        snapshot |-> snapshot, more |-> end < Len(all),
                        items |-> [i \in 1..(end - req.offset) |->
                                     revision[all[req.offset + i]]]])
  /\ UNCHANGED <<store, history>>

\* read_events(): what is retained after a sequence number, or a gap.
Retained(n)   == Picked(events, {i \in DOMAIN events : events[i].sequence > n})
FirstSequence == events[1].sequence

MutGapOffByOne(n) ==
  \/ events # <<>> /\ n + 2 < FirstSequence
  \/ mode = "EventGap" /\ n < 3

Gap(n) ==
  \/ events # <<>> /\ n + 1 < FirstSequence
  \/ mode = "EventGap" /\ n < 3

ReadPage(c) ==
  /\ Ready(c, "read")
  /\ LET req  == request[c]
         rest == Retained(req.after)
         size == IF req.limit < Len(rest) THEN req.limit ELSE Len(rest)
     IN Answer(c, IF Gap(req.after)
                  THEN Failure("EventGap")
                  ELSE [op |-> "events", after |-> req.after,
                        items |-> SubSeq(rest, 1, size), more |-> size < Len(rest)])
  /\ UNCHANGED <<store, history>>

Next ==
  \E c \in Clients :
    \/ \E req \in Requests : Call(c, req) \/ Reject(c, req)
    \/ \E why \in {"Cancelled", "DeadlineExceeded"} : EndContext(c, why)
    \/ GiveUp(c)
    \/ ReplayCommand(c) \/ RefuseCommand(c) \/ ApplyCommand(c)
    \/ ListResources(c) \/ ReadPage(c)

\* A client that has made a call is given the mutex in the end.
Proceed(c) ==
  \/ GiveUp(c) \/ ReplayCommand(c) \/ RefuseCommand(c) \/ ApplyCommand(c)
  \/ ListResources(c) \/ ReadPage(c)

Spec == Init /\ [][Next]_vars /\ \A c \in Clients : WF_vars(Proceed(c))

-----------------------------------------------------------------------------
(* Properties.                                                              *)

Revisions == [Targets -> Nat]
Codes == {"InvalidArgument", "Cancelled", "DeadlineExceeded", "PermissionDenied",
          "RateLimited", "NotFound", "Conflict", "EventGap", "ResourceExhausted"}

\* Every variable has its type, and nothing retained exceeds its bound.
TypeOK ==
  /\ mode \in Modes
  /\ revision \in Revisions
  /\ DOMAIN attributes = Targets
  /\ \A t \in Targets : Cardinality(DOMAIN attributes[t]) <= MaxAttributes
  /\ Len(events) <= MaxEvents
  /\ Cardinality(DOMAIN receipts) <= MaxReceipts
  /\ DOMAIN receipts \subseteq Keys
  /\ snapshot \in Nat /\ nextCommand \in Nat /\ nextEvent \in Nat
  /\ context \in [Clients -> {"live", "Cancelled", "DeadlineExceeded"}]
  /\ \A c \in Clients : result[c].op = "failure" => result[c].code \in Codes
  /\ applied \in Seq(Commands) /\ versions \in Seq(Revisions)

\* An idempotency key takes effect once, however many threads send it and
\* resend it, and every receipt ever given for it, first or replayed, names
\* that one effect, for the very command that was sent, with the revision the
\* effect gave the resource.
ExactlyOnce ==
  /\ \A i, j \in 1..Len(applied) : applied[i].key = applied[j].key => i = j
  /\ \A c \in Clients : result[c].op = "receipt" =>
       LET cmd == result[c].command  id == result[c].id
       IN /\ id \in 1..Len(applied)
          /\ applied[id].key = cmd.key
          /\ Fingerprint(applied[id]) = Fingerprint(cmd)
          /\ versions[id + 1][cmd.target] = result[c].revision

\* A command with an expected revision takes effect on exactly that revision:
\* two clients that read the same revision never both overwrite it.
NoLostUpdate ==
  \A i \in 1..Len(applied) : applied[i].expected \subseteq {versions[i][applied[i].target]}

\* The resources hold what was applied to them and nothing else: each attribute
\* is as the last command that set it left it, or as it was seeded.
Setters(t, k) ==
  {i \in 1..Len(applied) : applied[i].target = t /\ k \in DOMAIN Mutations(applied[i])}
Holds(t, k) ==
  \/ /\ Setters(t, k) = {} /\ k \in DOMAIN SeedAttributes[t]
     /\ attributes[t][k] = SeedAttributes[t][k]
  \/ \E i \in Setters(t, k) : /\ \A j \in Setters(t, k) : j <= i
                              /\ attributes[t][k] = Mutations(applied[i])[k]
AttributesApplied ==
  /\ \A t \in Targets : /\ DOMAIN SeedAttributes[t] \subseteq DOMAIN attributes[t]
                        /\ \A k \in DOMAIN attributes[t] : Holds(t, k)
  /\ \A i \in 1..Len(applied) :
       DOMAIN Mutations(applied[i]) \subseteq DOMAIN attributes[applied[i].target]

\* The events retained are the latest of all there have been, consecutively
\* numbered, and command i is told of once, in its turn, with the revision it
\* made and all it set.  The event names the receipt of its command, as the test
\* event_after_command requires, of every command that does not set an attribute
\* "command_id" of its own: such a command may say any number, another's too.
\* And what the log tells is all that happened: a command that was refused at a
\* late check, or given up while it waited for the mutex, changed no attribute.
EventsTellEffects ==
  /\ Len(log) = Len(SeedEvents) + Len(applied)
  /\ \A i \in 1..Len(log) : log[i].sequence = i
  /\ \A i \in 1..Len(applied) :
       LET ev == log[Len(SeedEvents) + i]
           set == Mutations(applied[i])
       IN /\ ev.resource = applied[i].target
          /\ ev.revision = versions[i + 1][ev.resource]
          /\ \A k \in DOMAIN set : ev.payload[k] = set[k]
          /\ "command_id" \notin DOMAIN set => ev.payload["command_id"] = CommandId(i)
  /\ \E n \in 0..Len(log) : events = SubSeq(log, n + 1, Len(log))
  /\ AttributesApplied

\* A page of events is what follows the sequence number asked for, with none
\* left out: a reader that is not told of a gap has missed nothing.
NoSilentGap ==
  \A c \in Clients : result[c].op = "events" =>
    LET page == result[c]
    IN /\ page.items = SubSeq(log, page.after + 1, page.after + Len(page.items))
       /\ page.more => page.items # <<>> /\ page.after + Len(page.items) < Len(log)

\* The resources of a page are as they were at its snapshot_revision, so two
\* pages of one listing with the same snapshot_revision fit together.
PagesShowTheirSnapshot ==
  \A c \in Clients : result[c].op = "page" =>
    LET page == result[c]
    IN /\ page.items = [i \in 1..Len(page.items) |->
                          versions[page.snapshot][Listed(page.kind)[page.offset + i]]]
       /\ page.more <=> page.offset + Len(page.items) < Len(Listed(page.kind))

\* Every call is answered.
EveryCallAnswered == \A c \in Clients : request[c] # Idle ~> request[c] = Idle

\* The session seen through its receipts alone: the key whose receipt has
\* number i is at place i of the ledger.
KeyNumbered(i) == CHOOSE k \in DOMAIN receipts : receipts[k].id = i

KeyLedger == [i \in 1..Cardinality(DOMAIN receipts) |-> KeyNumbered(i)]

Replies == [c \in Clients |-> IF result[c].op = "receipt"
                              THEN <<result[c].command.key, result[c].id>> ELSE <<>>]

Ledger == INSTANCE CommandLedger WITH
  Bound <- MaxReceipts, ledger <- KeyLedger, reply <- Replies

\* Calls, made concurrently and cancelled at any time, are atomic steps on an
\* append-only ledger of keys.
KeepsLedger == Ledger!Spec
=============================================================================
