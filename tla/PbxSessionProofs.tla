-------------------------- MODULE PbxSessionProofs --------------------------
(***************************************************************************)
(* A session of the PBX provider, for any clients, commands, resources and *)
(* bounds: a key takes effect once, no update is lost, and pages, of       *)
(* resources and of events, show what there was.                           *)
(*                                                                         *)
(* What they rest on: commands are numbered in the order they took effect; *)
(* versions[n + 1] is what the n-th left; the receipt retained for a key   *)
(* is that of the one command applied with it.                             *)
(***************************************************************************)
EXTENDS PbxSession, SequenceTheorems, FiniteSetTheorems, TLAPS

\* The store and its history keep step.
InStep ==
  /\ revision \in Revisions
  /\ applied \in Seq(Commands)
  /\ versions \in Seq(Revisions)
  /\ Len(versions) = Len(applied) + 1
  /\ versions[Len(versions)] = revision
  /\ nextCommand = Len(applied) + 1
  /\ snapshot = Len(versions)

\* The calls under way, and a place for each client's answer.
InCalls ==
  /\ DOMAIN request = Clients /\ DOMAIN result = Clients
  /\ \A c \in Clients : request[c].op = "execute" => request[c].command \in Commands

\* What a receipt for a command of this key and fingerprint must say, given
\* the commands app that took effect and the revisions ver they made.
Names(app, ver, id, rev, key, fingerprint) ==
  /\ id \in 1 .. Len(app)
  /\ app[id].key = key
  /\ Fingerprint(app[id]) = fingerprint
  /\ ver[id + 1][app[id].target] = rev

\* A retained receipt names the command applied with its key ...
Remembered ==
  \A k \in DOMAIN receipts :
    Names(applied, versions, receipts[k].id, receipts[k].revision, k,
          receipts[k].fingerprint)

\* ... and every applied command is remembered.
Numbered ==
  \A i \in 1 .. Len(applied) :
    applied[i].key \in DOMAIN receipts /\ receipts[applied[i].key].id = i

\* So is what the clients were told.
Told ==
  \A c \in Clients : result[c].op = "receipt" =>
    Names(applied, versions, result[c].id, result[c].revision,
          result[c].command.key, Fingerprint(result[c].command))

IInv == InStep /\ InCalls /\ Remembered /\ Numbered /\ Told /\ NoLostUpdate

-----------------------------------------------------------------------------
(* A command that is not refused has a target, finds the revision it       *)
(* expects, and room for its receipt and its attributes.                   *)
LEMMA NotRefused ==
  ASSUME NEW cmd, Refusal(cmd) = "none"
  PROVE  /\ cmd.target \in Targets
         /\ cmd.expected \subseteq {revision[cmd.target]}
         /\ ~(Cardinality(DOMAIN receipts) >= MaxReceipts)
         /\ ~(Cardinality(DOMAIN Overlay(attributes[cmd.target], Mutations(cmd)))
                > MaxAttributes)
BY DEF Refusal

(* Equal fingerprints are of commands for the same target.                 *)
LEMMA FingerprintTarget ==
  ASSUME NEW a, NEW b, Fingerprint(a) = Fingerprint(b)
  PROVE  a.target = b.target
BY DEF Fingerprint

(* What execute() leaves when the command takes effect.                    *)
LEMMA ApplyFacts ==
  ASSUME InStep, InCalls, NEW c \in Clients, ApplyCommand(c)
  PROVE  LET cmd == request[c].command
             id  == Len(applied) + 1
         IN /\ cmd \in Commands /\ cmd.key \notin DOMAIN receipts
            /\ cmd.expected \subseteq {versions[id][cmd.target]}
            /\ Len(applied) \in Nat
            /\ applied' \in Seq(Commands) /\ Len(applied') = id
            /\ applied'[id] = cmd
            /\ \A i \in 1 .. Len(applied) : applied'[i] = applied[i]
            /\ versions' \in Seq(Revisions) /\ Len(versions') = id + 1
            /\ versions'[id + 1] = revision'
            /\ \A i \in 1 .. id : versions'[i] = versions[i]
            /\ revision' \in Revisions
            /\ nextCommand' = id + 1 /\ snapshot' = id + 1
            /\ DOMAIN receipts' = DOMAIN receipts \cup {cmd.key}
            /\ receipts'[cmd.key].id = id
            /\ receipts'[cmd.key].revision = revision'[cmd.target]
            /\ receipts'[cmd.key].fingerprint = Fingerprint(cmd)
            /\ \A k \in DOMAIN receipts : receipts'[k] = receipts[k]
<1> DEFINE cmd == request[c].command
           id  == Len(applied) + 1
           rec == [fingerprint |-> Fingerprint(cmd), id |-> nextCommand,
                   revision |-> revision[cmd.target] + 1]
<1>1. cmd \in Commands /\ cmd.key \notin DOMAIN receipts /\ Refusal(cmd) = "none"
  BY DEF ApplyCommand, Ready, InCalls
<1>2. cmd.target \in Targets /\ cmd.expected \subseteq {revision[cmd.target]}
  BY <1>1, NotRefused
<1>3. Len(applied) \in Nat /\ Len(versions) = id
  BY LenProperties DEF InStep
<1>4. /\ revision' = [revision EXCEPT ![cmd.target] = @ + 1]
      /\ snapshot' = snapshot + 1 /\ nextCommand' = nextCommand + 1
      /\ receipts' = Overlay(receipts, One(cmd.key, rec))
      /\ applied' = Append(applied, cmd)
      /\ versions' = Append(versions, revision')
  BY DEF ApplyCommand, Effect
<1>5. revision' \in Revisions /\ revision'[cmd.target] = revision[cmd.target] + 1
  BY <1>2, <1>4 DEF InStep, Revisions
<1>6. /\ applied' \in Seq(Commands) /\ Len(applied') = id
      /\ applied'[id] = cmd
      /\ \A i \in 1 .. Len(applied) : applied'[i] = applied[i]
  BY <1>1, <1>4, AppendProperties DEF InStep
<1>7. /\ versions' \in Seq(Revisions) /\ Len(versions') = id + 1
      /\ versions'[id + 1] = revision'
      /\ \A i \in 1 .. id : versions'[i] = versions[i]
  BY <1>3, <1>4, <1>5, AppendProperties DEF InStep
<1>8. /\ DOMAIN receipts' = DOMAIN receipts \cup {cmd.key}
      /\ receipts'[cmd.key] = rec
      /\ \A k \in DOMAIN receipts : receipts'[k] = receipts[k]
  <2> DEFINE key == cmd.key
  <2>1. key \notin DOMAIN receipts /\ receipts' = Overlay(receipts, One(key, rec))
    BY <1>1, <1>4
  <2> HIDE DEF key, rec
  <2>2. receipts' = [k \in DOMAIN receipts \cup {key} |->
                       IF k \in {key} THEN rec ELSE receipts[k]]
    BY <2>1 DEF Overlay, One
  <2>3. /\ DOMAIN receipts' = DOMAIN receipts \cup {key}
        /\ receipts'[key] = rec
        /\ \A k \in DOMAIN receipts : receipts'[k] = receipts[k]
    BY <2>1, <2>2
  <2> QED
    BY <2>3 DEF key
<1>9. nextCommand' = id + 1 /\ snapshot' = id + 1 /\ rec.id = id
  BY <1>3, <1>4 DEF InStep
<1>10. versions[id] = revision
  BY <1>3 DEF InStep
<1> QED
  BY <1>1, <1>2, <1>3, <1>5, <1>6, <1>7, <1>8, <1>9, <1>10

(* What was named stays named when one more command takes effect.          *)
LEMMA NamesKept ==
  ASSUME NEW a, NEW v, NEW a2, NEW v2, Len(a) \in Nat, Len(a2) = Len(a) + 1,
         \A i \in 1 .. Len(a) : a2[i] = a[i],
         \A i \in 1 .. Len(a) + 1 : v2[i] = v[i],
         NEW id, NEW rev, NEW key, NEW fingerprint,
         Names(a, v, id, rev, key, fingerprint)
  PROVE  Names(a2, v2, id, rev, key, fingerprint)
<1>1. id \in 1 .. Len(a) /\ id \in 1 .. Len(a2) /\ id + 1 \in 1 .. Len(a) + 1
  BY DEF Names
<1>2. a2[id] = a[id] /\ v2[id + 1] = v[id + 1]
  BY <1>1
<1> QED
  BY <1>1, <1>2 DEF Names

(* What clients ask to be executed are commands.                           *)
LEMMA RequestsTyped ==
  ASSUME NEW req \in Requests, req.op = "execute"
  PROVE  req.command \in Commands
BY DEF Requests, Execute, ReadEvents, List

(* The invariant holds at first.                                           *)
LEMMA InitInv == Init => IInv
<1> SUFFICES ASSUME Init PROVE IInv
  OBVIOUS
<1>1. /\ revision = SeedRevision /\ receipts = <<>> /\ snapshot = 1 /\ nextCommand = 1
      /\ applied = <<>> /\ versions = <<SeedRevision>>
      /\ request = [c \in Clients |-> Idle] /\ result = [c \in Clients |-> Idle]
  BY DEF Init
<1>2. SeedRevision \in Revisions
  BY SeedAssumption DEF SeedAssumption, Revisions
<1>3. /\ applied \in Seq(Commands) /\ Len(applied) = 0
      /\ versions \in Seq(Revisions) /\ Len(versions) = 1 /\ versions[1] = revision
      /\ DOMAIN receipts = {}
  BY <1>1, <1>2
<1>4. InStep
  BY <1>1, <1>2, <1>3 DEF InStep
<1>5. InCalls /\ Told
  BY <1>1 DEF InCalls, Told, Idle
<1>6. Remembered /\ Numbered /\ NoLostUpdate
  BY <1>3 DEF Remembered, Numbered, NoLostUpdate
<1> QED
  BY <1>4, <1>5, <1>6 DEF IInv

(* A step that leaves the store and its history alone.                     *)
LEMMA StoreKept ==
  ASSUME IInv, UNCHANGED <<store, history>>, InCalls', Told'
  PROVE  IInv'
<1>1. UNCHANGED <<revision, receipts, snapshot, nextCommand, applied, versions>>
  BY DEF store, history
<1>2. InStep'
  BY <1>1 DEF IInv, InStep
<1>3. Remembered'
  BY <1>1 DEF IInv, Remembered
<1>4. Numbered' /\ NoLostUpdate'
  BY <1>1 DEF IInv, Numbered, NoLostUpdate
<1> QED
  BY <1>2, <1>3, <1>4 DEF IInv

(* An answer to one client is that client's result, and ends its call.     *)
LEMMA AnswerFacts ==
  ASSUME InCalls, NEW c \in Clients, NEW r, Answer(c, r)
  PROVE  /\ InCalls'
         /\ result'[c] = r
         /\ \A d \in Clients \ {c} : result'[d] = result[d]
<1>1. /\ result' = [result EXCEPT ![c] = r]
      /\ request' = [request EXCEPT ![c] = Idle]
  BY DEF Answer
<1>2. InCalls'
  BY <1>1 DEF InCalls, Idle
<1> QED
  BY <1>1, <1>2 DEF InCalls

(* So is an answer that is no receipt, when nothing else changes.          *)
LEMMA PlainAnswer ==
  ASSUME IInv, NEW c \in Clients, NEW r, Answer(c, r), r.op # "receipt",
         UNCHANGED <<store, history>>
  PROVE  IInv'
<1>1. /\ InCalls'
      /\ result'[c] = r
      /\ \A d \in Clients \ {c} : result'[d] = result[d]
  BY AnswerFacts DEF IInv
<1>2. UNCHANGED <<applied, versions>>
  BY DEF history
<1>3. Told'
  BY <1>1, <1>2 DEF IInv, Told
<1> QED
  BY <1>1, <1>3, StoreKept

-----------------------------------------------------------------------------
(* One step of the session keeps the invariant.                            *)
LEMMA CallKeeps ==
  ASSUME IInv, NEW c \in Clients, NEW req \in Requests, Call(c, req) \/ Reject(c, req)
  PROVE  IInv'
<1>1. UNCHANGED <<store, history>> /\ UNCHANGED <<applied, versions>>
  BY DEF Call, Reject, Rejected, history
<1>2. CASE Call(c, req)
  <2>1. /\ request' = [request EXCEPT ![c] = req]
        /\ result' = [result EXCEPT ![c] = Idle]
    BY <1>2 DEF Call
  <2>2. InCalls'
    BY <2>1, RequestsTyped DEF IInv, InCalls
  <2>3. Told'
    BY <2>1, <1>1 DEF IInv, InCalls, Told, Idle
  <2> QED
    BY <1>1, <2>2, <2>3, StoreKept
<1>3. CASE Reject(c, req)
  <2>1. PICK code : Rejected(c, code)
    BY <1>3 DEF Reject
  <2>2. request' = request /\ result' = [result EXCEPT ![c] = Failure(code)]
    BY <2>1 DEF Rejected
  <2>3. InCalls'
    BY <2>2 DEF IInv, InCalls
  <2>4. Told'
    BY <2>2, <1>1 DEF IInv, InCalls, Told, Failure
  <2> QED
    BY <1>1, <2>3, <2>4, StoreKept
<1> QED
  BY <1>2, <1>3

LEMMA ReplayKeeps ==
  ASSUME IInv, NEW c \in Clients, ReplayCommand(c)
  PROVE  IInv'
<1> DEFINE cmd == request[c].command
           rec == receipts[cmd.key]
<1>1. cmd.key \in DOMAIN receipts /\ UNCHANGED <<store, history>>
  BY DEF ReplayCommand
<1>2. CASE rec.fingerprint # Fingerprint(cmd)
  <2>1. Answer(c, Failure("Conflict"))
    BY <1>2 DEF ReplayCommand
  <2>2. Failure("Conflict").op # "receipt"
    BY DEF Failure
  <2> QED
    BY <1>1, <2>1, <2>2, PlainAnswer
<1>3. CASE rec.fingerprint = Fingerprint(cmd)
  <2> DEFINE r == Receipt(cmd, "Replayed", rec)
  <2>1. Answer(c, r)
    BY <1>3 DEF ReplayCommand
  <2>2. /\ r.id = rec.id /\ r.revision = rec.revision /\ r.command = cmd
    BY DEF Receipt
  <2>3. Names(applied, versions, rec.id, rec.revision, cmd.key, Fingerprint(cmd))
    BY <1>1, <1>3 DEF IInv, Remembered
  <2> HIDE DEF r
  <2>4. /\ InCalls'
        /\ result'[c] = r
        /\ \A d \in Clients \ {c} : result'[d] = result[d]
    BY <2>1, AnswerFacts DEF IInv
  <2>5. UNCHANGED <<applied, versions>>
    BY <1>1 DEF history
  <2>6. Told'
    BY <2>2, <2>3, <2>4, <2>5 DEF IInv, Told
  <2> QED
    BY <1>1, <2>4, <2>6, StoreKept
<1> QED
  BY <1>2, <1>3

LEMMA ApplyKeeps ==
  ASSUME IInv, NEW c \in Clients, ApplyCommand(c)
  PROVE  IInv'
<1> DEFINE cmd == request[c].command
           id  == Len(applied) + 1
<1>1. /\ cmd \in Commands /\ cmd.key \notin DOMAIN receipts
      /\ cmd.expected \subseteq {versions[id][cmd.target]}
      /\ Len(applied) \in Nat
      /\ applied' \in Seq(Commands) /\ Len(applied') = id
      /\ applied'[id] = cmd
      /\ \A i \in 1 .. Len(applied) : applied'[i] = applied[i]
  BY ApplyFacts DEF IInv
<1>2. /\ versions' \in Seq(Revisions) /\ Len(versions') = id + 1
      /\ versions'[id + 1] = revision'
      /\ \A i \in 1 .. id : versions'[i] = versions[i]
      /\ revision' \in Revisions
      /\ nextCommand' = id + 1 /\ snapshot' = id + 1
  BY ApplyFacts DEF IInv
<1>3. /\ DOMAIN receipts' = DOMAIN receipts \cup {cmd.key}
      /\ receipts'[cmd.key].id = id
      /\ receipts'[cmd.key].revision = revision'[cmd.target]
      /\ receipts'[cmd.key].fingerprint = Fingerprint(cmd)
      /\ \A k \in DOMAIN receipts : receipts'[k] = receipts[k]
  BY ApplyFacts DEF IInv
<1>4. PICK r : /\ Answer(c, r)
               /\ r.id = nextCommand /\ r.revision = revision[cmd.target] + 1
               /\ r.command = cmd
  <2> DEFINE rec == [fingerprint |-> Fingerprint(cmd), id |-> nextCommand,
                     revision |-> revision[cmd.target] + 1]
  <2>1. Answer(c, Receipt(cmd, "Applied", rec))
    BY DEF ApplyCommand, Effect
  <2>2. /\ Receipt(cmd, "Applied", rec).id = nextCommand
        /\ Receipt(cmd, "Applied", rec).revision = revision[cmd.target] + 1
        /\ Receipt(cmd, "Applied", rec).command = cmd
    BY DEF Receipt
  <2> QED
    BY <2>1, <2>2
<1>5. /\ InCalls'
      /\ result'[c] = r
      /\ \A d \in Clients \ {c} : result'[d] = result[d]
  BY <1>4, AnswerFacts DEF IInv
<1>6. nextCommand = id /\ revision'[cmd.target] = revision[cmd.target] + 1
  <2>1. cmd.target \in Targets
    BY NotRefused DEF ApplyCommand
  <2>2. revision' = [revision EXCEPT ![cmd.target] = @ + 1]
    BY DEF ApplyCommand, Effect
  <2> QED
    BY <2>1, <2>2 DEF IInv, InStep, Revisions
<1> HIDE DEF cmd
<1>7. Names(applied', versions', id, revision'[cmd.target], cmd.key, Fingerprint(cmd))
  BY <1>1, <1>2 DEF Names
<1>8. \A i, rev, key, fp : Names(applied, versions, i, rev, key, fp)
                            => Names(applied', versions', i, rev, key, fp)
  BY <1>1, <1>2, NamesKept
<1>9. InStep'
  BY <1>1, <1>2 DEF InStep
<1>10. Remembered'
  <2> SUFFICES ASSUME NEW k \in DOMAIN receipts'
               PROVE  Names(applied', versions', receipts'[k].id, receipts'[k].revision,
                            k, receipts'[k].fingerprint)
    BY DEF Remembered
  <2>1. CASE k = cmd.key
    BY <2>1, <1>3, <1>7
  <2>2. CASE k \in DOMAIN receipts
    BY <2>2, <1>3, <1>8 DEF IInv, Remembered
  <2> QED
    BY <2>1, <2>2, <1>3
<1>11. Numbered'
  <2> SUFFICES ASSUME NEW i \in 1 .. Len(applied')
               PROVE  applied'[i].key \in DOMAIN receipts' /\ receipts'[applied'[i].key].id = i
    BY DEF Numbered
  <2>1. CASE i = id
    BY <2>1, <1>1, <1>3
  <2>2. CASE i \in 1 .. Len(applied)
    BY <2>2, <1>1, <1>3 DEF IInv, Numbered
  <2> QED
    BY <2>1, <2>2, <1>1
<1>12. Told'
  <2> SUFFICES ASSUME NEW d \in Clients, result'[d].op = "receipt"
               PROVE  Names(applied', versions', result'[d].id, result'[d].revision,
                            result'[d].command.key, Fingerprint(result'[d].command))
    BY DEF Told
  <2>1. CASE d = c
    BY <2>1, <1>4, <1>5, <1>6, <1>7
  <2>2. CASE d # c
    BY <2>2, <1>5, <1>8 DEF IInv, Told
  <2> QED
    BY <2>1, <2>2
<1>13. NoLostUpdate'
  <2> SUFFICES ASSUME NEW i \in 1 .. Len(applied')
               PROVE  applied'[i].expected \subseteq {versions'[i][applied'[i].target]}
    BY DEF NoLostUpdate
  <2>1. CASE i = id
    BY <2>1, <1>1, <1>2
  <2>2. CASE i \in 1 .. Len(applied)
    <3>1. applied'[i] = applied[i] /\ versions'[i] = versions[i]
      BY <2>2, <1>1, <1>2
    <3> QED
      BY <2>2, <3>1 DEF IInv, NoLostUpdate
  <2> QED
    BY <2>1, <2>2, <1>1
<1> QED
  BY <1>5, <1>9, <1>10, <1>11, <1>12, <1>13 DEF IInv

LEMMA OthersKeep ==
  ASSUME IInv, NEW c \in Clients,
         GiveUp(c) \/ RefuseCommand(c) \/ ListResources(c) \/ ReadPage(c)
  PROVE  IInv'
<1>1. CASE GiveUp(c)
  <2>1. Failure(context[c]).op # "receipt"
    BY DEF Failure
  <2> QED
    BY <1>1, <2>1, PlainAnswer DEF GiveUp
<1>2. CASE RefuseCommand(c)
  <2> DEFINE r == Failure(Refusal(request[c].command))
  <2>1. r.op # "receipt"
    BY DEF Failure
  <2> QED
    BY <1>2, <2>1, PlainAnswer DEF RefuseCommand
<1>3. CASE ListResources(c)
  <2>1. \E r : Answer(c, r) /\ r.op # "receipt"
    BY <1>3 DEF ListResources, Failure
  <2> QED
    BY <1>3, <2>1, PlainAnswer DEF ListResources
<1>4. CASE ReadPage(c)
  <2>1. \E r : Answer(c, r) /\ r.op # "receipt"
    BY <1>4 DEF ReadPage, Failure
  <2> QED
    BY <1>4, <2>1, PlainAnswer DEF ReadPage
<1> QED
  BY <1>1, <1>2, <1>3, <1>4

LEMMA NextInv == IInv /\ [Next]_vars => IInv'
<1> SUFFICES ASSUME IInv, [Next]_vars PROVE IInv'
  OBVIOUS
<1>1. CASE Next
  <2>1. PICK c \in Clients :
          \/ \E req \in Requests : Call(c, req) \/ Reject(c, req)
          \/ \E why \in {"Cancelled", "DeadlineExceeded"} : EndContext(c, why)
          \/ ReplayCommand(c) \/ ApplyCommand(c)
          \/ GiveUp(c) \/ RefuseCommand(c) \/ ListResources(c) \/ ReadPage(c)
    BY <1>1 DEF Next
  <2>2. CASE \E req \in Requests : Call(c, req) \/ Reject(c, req)
    BY <2>2, CallKeeps
  <2>3. CASE \E why \in {"Cancelled", "DeadlineExceeded"} : EndContext(c, why)
    <3>1. UNCHANGED <<store, history, request, result>>
      BY <2>3 DEF EndContext
    <3>2. UNCHANGED <<request, result, applied, versions>>
      BY <3>1 DEF history
    <3>3. InCalls' /\ Told'
      BY <3>2 DEF IInv, InCalls, Told
    <3> QED
      BY <3>1, <3>3, StoreKept
  <2> QED
    BY <2>1, <2>2, <2>3, ReplayKeeps, ApplyKeeps, OthersKeep
<1>2. CASE UNCHANGED vars
  <2>1. UNCHANGED <<store, history, request, result>>
    BY <1>2 DEF vars
  <2>2. UNCHANGED <<request, result, applied, versions>>
    BY <2>1 DEF history
  <2>3. InCalls' /\ Told'
    BY <2>2 DEF IInv, InCalls, Told
  <2> QED
    BY <2>1, <2>3, StoreKept
<1> QED
  BY <1>1, <1>2

-----------------------------------------------------------------------------
(* The invariant holds in every state of the session.                      *)
THEOREM Invariance == Spec => []IInv
BY InitInv, NextInv, PTL DEF Spec

(* However many threads send a key and resend it, and whatever calls are   *)
(* cancelled meanwhile, execute() lets it take effect once, and every      *)
(* receipt given for it names that one effect.                             *)
THEOREM KeysTakeEffectOnce == Spec => []ExactlyOnce
<1>1. IInv => ExactlyOnce
  <2> SUFFICES ASSUME IInv PROVE ExactlyOnce
    OBVIOUS
  <2>1. ASSUME NEW i \in 1 .. Len(applied), NEW j \in 1 .. Len(applied),
               applied[i].key = applied[j].key
        PROVE  i = j
    BY <2>1 DEF IInv, Numbered
  <2>2. ASSUME NEW c \in Clients, result[c].op = "receipt"
        PROVE  LET cmd == result[c].command  id == result[c].id
               IN /\ id \in 1..Len(applied)
                  /\ applied[id].key = cmd.key
                  /\ Fingerprint(applied[id]) = Fingerprint(cmd)
                  /\ versions[id + 1][cmd.target] = result[c].revision
    <3> DEFINE cmd == result[c].command
               id  == result[c].id
    <3>1. /\ id \in 1 .. Len(applied)
          /\ applied[id].key = cmd.key
          /\ Fingerprint(applied[id]) = Fingerprint(cmd)
          /\ versions[id + 1][applied[id].target] = result[c].revision
      BY <2>2 DEF IInv, Told, Names
    <3>2. applied[id].target = cmd.target
      BY <3>1, FingerprintTarget
    <3> QED
      BY <3>1, <3>2
  <2> QED
    BY <2>1, <2>2 DEF ExactlyOnce
<1> QED
  BY <1>1, Invariance, PTL

(* The revision execute() compares under the mutex is the one its command  *)
(* then replaces: no update made on a stale revision takes effect.         *)
THEOREM UpdatesAreNotLost == Spec => []NoLostUpdate
<1>1. IInv => NoLostUpdate
  BY DEF IInv
<1> QED
  BY <1>1, Invariance, PTL

-----------------------------------------------------------------------------
(* The events.  All there have been are numbered from 1, the n-th command's *)
(* follows those of the seed, and those retained are the latest.            *)
Payloads == {Payload(cmd, n) : cmd \in Commands, n \in Nat} \cup {<<>>}
Events == [sequence : Nat, resource : Targets, revision : Nat, payload : Payloads]

\* s is the latest events of l.
Latest(s, l) ==
  /\ s \in Seq(Events) /\ Len(s) <= Len(l)
  /\ \A i \in 1 .. Len(s) : s[i] = l[Len(l) - Len(s) + i]

EventsKept ==
  /\ log \in Seq(Events) /\ Latest(events, log)
  /\ nextEvent = Len(log) + 1
  /\ Len(log) = Len(SeedEvents) + Len(applied)
  /\ \A i \in 1 .. Len(log) : log[i].sequence = i
  /\ \A i \in 1 .. Len(applied) :
       /\ log[Len(SeedEvents) + i].resource = applied[i].target
       /\ log[Len(SeedEvents) + i].payload = Payload(applied[i], i)
       /\ log[Len(SeedEvents) + i].revision = versions[i + 1][applied[i].target]

(* The latest of a log, with one more event and one fewer if there is no   *)
(* room, are the latest of the log with that event.                        *)
LEMMA RetainLatest ==
  ASSUME NEW l \in Seq(Events), NEW s, Latest(s, l), NEW ev \in Events
  PROVE  Latest(Retain(Append(s, ev)), Append(l, ev))
<1> DEFINE l2 == Append(l, ev)
           s2 == Retain(Append(s, ev))
<1> DEFINE a == Append(s, ev)
<1>0. /\ s \in Seq(Events) /\ Len(s) <= Len(l)
      /\ \A i \in 1 .. Len(s) : s[i] = l[Len(l) - Len(s) + i]
  BY DEF Latest
<1>1. /\ a \in Seq(Events) /\ Len(a) = Len(s) + 1 /\ a[Len(s) + 1] = ev
      /\ \A i \in 1 .. Len(s) : a[i] = s[i]
  BY <1>0, AppendProperties
<1>2. /\ Len(l2) = Len(l) + 1 /\ l2[Len(l) + 1] = ev
      /\ \A i \in 1 .. Len(l) : l2[i] = l[i]
  BY AppendProperties
<1>3. Len(s) \in Nat /\ Len(l) \in Nat
  BY <1>0, LenProperties
<1>4. s2 = Retain(a)
  OBVIOUS
<1> HIDE DEF a, l2, s2
<1>5. \A i \in 1 .. Len(a) : a[i] = l2[Len(l2) - Len(a) + i]
  <2> SUFFICES ASSUME NEW i \in 1 .. Len(a)
               PROVE  a[i] = l2[Len(l2) - Len(a) + i]
    OBVIOUS
  <2>1. CASE i = Len(s) + 1
    BY <2>1, <1>1, <1>2, <1>3
  <2>2. CASE i \in 1 .. Len(s)
    <3>1. Len(l2) - Len(a) + i = Len(l) - Len(s) + i /\ Len(l) - Len(s) + i \in 1 .. Len(l)
      BY <2>2, <1>0, <1>1, <1>2, <1>3
    <3> QED
      BY <2>2, <3>1, <1>0, <1>1, <1>2
  <2> QED
    BY <2>1, <2>2, <1>1, <1>3
<1>6. CASE ~(Len(a) > MaxEvents)
  <2>1. s2 = a
    BY <1>4, <1>6 DEF Retain
  <2>2. Len(a) <= Len(l2)
    BY <1>0, <1>1, <1>2, <1>3
  <2>3. Latest(a, l2)
    BY <2>2, <1>1, <1>5 DEF Latest
  <2> QED
    BY <2>1, <2>3 DEF l2, s2
<1>7. CASE Len(a) > MaxEvents
  <2>1. s2 = Tail(a)
    BY <1>4, <1>7 DEF Retain
  <2>2. a # <<>>
    BY <1>1, <1>3, EmptySeq
  <2>3. /\ s2 \in Seq(Events) /\ Len(s2) = Len(s)
        /\ \A i \in 1 .. Len(s2) : s2[i] = a[i + 1]
    BY <2>1, <2>2, <1>1, <1>3, HeadTailProperties
  <2>4. ASSUME NEW i \in 1 .. Len(s2)
        PROVE  s2[i] = l2[Len(l2) - Len(s2) + i]
    <3>1. i + 1 \in 1 .. Len(a) /\ Len(l2) - Len(a) + (i + 1) = Len(l2) - Len(s2) + i
      BY <2>3, <1>1, <1>2, <1>3
    <3> QED
      BY <3>1, <2>3, <1>5
  <2>5. Len(s2) <= Len(l2)
    BY <2>3, <1>0, <1>2, <1>3
  <2>6. Latest(s2, l2)
    BY <2>3, <2>4, <2>5 DEF Latest
  <2> QED
    BY <2>6 DEF l2, s2
<1> QED
  BY <1>6, <1>7

LEMMA EventsInit == Init => EventsKept
<1> SUFFICES ASSUME Init PROVE EventsKept
  OBVIOUS
<1>1. /\ events = [i \in 1..Len(SeedEvents) |->
                    [sequence |-> i, resource |-> SeedEvents[i].resource,
                     revision |-> SeedEvents[i].revision, payload |-> <<>>]]
      /\ log = events /\ nextEvent = Len(SeedEvents) + 1 /\ applied = <<>>
  BY DEF Init
<1>2. Len(SeedEvents) \in Nat
      /\ \A i \in 1 .. Len(SeedEvents) : SeedEvents[i] \in [resource : Targets, revision : Nat]
  BY SeedAssumption, LenProperties, ElementOfSeq DEF SeedAssumption
<1>3. events \in Seq(Events) /\ Len(events) = Len(SeedEvents)
      /\ \A i \in 1 .. Len(events) : events[i].sequence = i
  BY <1>1, <1>2 DEF Events, Payloads
<1>4. Latest(events, log)
  BY <1>1, <1>2, <1>3 DEF Latest
<1>5. Len(applied) = 0
  BY <1>1
<1> QED
  BY <1>1, <1>2, <1>3, <1>4, <1>5 DEF EventsKept

LEMMA EventsNext == IInv /\ EventsKept /\ [Next]_vars => EventsKept'
<1> SUFFICES ASSUME IInv, EventsKept, [Next]_vars PROVE EventsKept'
  OBVIOUS
<1>1. CASE UNCHANGED <<store, history>>
  BY <1>1 DEF EventsKept, store, history
<1>2. CASE \E c \in Clients : ApplyCommand(c)
  <2> PICK c \in Clients : ApplyCommand(c)
    BY <1>2
  <2> DEFINE cmd == request[c].command
             id  == Len(applied) + 1
             ev  == [sequence |-> nextEvent, resource |-> cmd.target,
                     revision |-> revision[cmd.target] + 1,
                     payload |-> Payload(cmd, nextCommand)]
  <2>1. /\ Len(applied) \in Nat /\ Len(applied') = id /\ applied'[id] = cmd
        /\ \A i \in 1 .. Len(applied) : applied'[i] = applied[i]
        /\ Len(versions') = id + 1 /\ versions'[id + 1] = revision'
        /\ \A i \in 1 .. id : versions'[i] = versions[i]
    BY ApplyFacts DEF IInv
  <2>2. cmd.target \in Targets
    BY NotRefused DEF ApplyCommand
  <2>3. /\ revision' = [revision EXCEPT ![cmd.target] = @ + 1]
        /\ nextEvent' = nextEvent + 1
        /\ log' = Append(log, ev) /\ events' = Retain(Append(events, ev))
    BY DEF ApplyCommand, Effect
  <2>4. /\ revision[cmd.target] \in Nat /\ revision'[cmd.target] = revision[cmd.target] + 1
        /\ nextCommand = id /\ Len(log) \in Nat
    BY <2>2, <2>3, LenProperties DEF IInv, InStep, Revisions, EventsKept
  <2>5. nextEvent = Len(log) + 1 /\ nextEvent \in Nat /\ nextCommand \in Nat
    BY <2>1, <2>4 DEF EventsKept
  <2>6. /\ ev \in Events /\ ev.sequence = Len(log) + 1 /\ ev.resource = cmd.target
        /\ ev.payload = Payload(cmd, id) /\ ev.revision = revision'[cmd.target]
    <3>1. cmd \in Commands
      BY ApplyFacts DEF IInv
    <3>2. Payload(cmd, nextCommand) \in Payloads
      BY <3>1, <2>5 DEF Payloads
    <3> QED
      BY <3>2, <2>2, <2>4, <2>5 DEF Events
  <2> HIDE DEF ev, cmd
  <2>7. /\ log' \in Seq(Events) /\ Len(log') = Len(log) + 1 /\ log'[Len(log) + 1] = ev
        /\ \A i \in 1 .. Len(log) : log'[i] = log[i]
    BY <2>3, <2>6, AppendProperties DEF EventsKept
  <2>8. Latest(events', log')
    <3>1. log \in Seq(Events) /\ Latest(events, log)
      BY DEF EventsKept
    <3>2. log' = Append(log, ev) /\ events' = Retain(Append(events, ev)) /\ ev \in Events
      BY <2>3, <2>6
    <3>3. Latest(Retain(Append(events, ev)), Append(log, ev))
      BY <3>1, <3>2, RetainLatest
    <3> QED
      BY <3>2, <3>3
  <2>9. nextEvent' = Len(log') + 1
    BY <2>3, <2>4, <2>5, <2>7
  <2>10. Len(log') = Len(SeedEvents) + Len(applied') /\ Len(SeedEvents) \in Nat
    BY <2>1, <2>4, <2>7, SeedAssumption, LenProperties DEF EventsKept, SeedAssumption
  <2>11. \A i \in 1 .. Len(log') : log'[i].sequence = i
    BY <2>4, <2>6, <2>7 DEF EventsKept
  <2>12. ASSUME NEW i \in 1 .. Len(applied')
         PROVE  /\ log'[Len(SeedEvents) + i].resource = applied'[i].target
                /\ log'[Len(SeedEvents) + i].payload = Payload(applied'[i], i)
                /\ log'[Len(SeedEvents) + i].revision = versions'[i + 1][applied'[i].target]
    <3>1. CASE i = id
      <4>1. log'[Len(SeedEvents) + i] = ev
        BY <3>1, <2>1, <2>4, <2>7, <2>10
      <4> QED
        BY <4>1, <3>1, <2>1, <2>6
    <3>2. CASE i \in 1 .. Len(applied)
      <4>1. Len(SeedEvents) + i \in 1 .. Len(log) /\ i + 1 \in 1 .. id
        BY <3>2, <2>1, <2>10 DEF EventsKept
      <4>2. /\ log'[Len(SeedEvents) + i] = log[Len(SeedEvents) + i]
            /\ applied'[i] = applied[i] /\ versions'[i + 1] = versions[i + 1]
        BY <3>2, <4>1, <2>1, <2>7
      <4> QED
        BY <3>2, <4>2 DEF EventsKept
    <3> QED
      BY <3>1, <3>2, <2>1
  <2> QED
    BY <2>7, <2>8, <2>9, <2>10, <2>11, <2>12 DEF EventsKept
<1> QED
  BY <1>1, <1>2 DEF Next, vars, store, history, Call, Reject, Rejected, EndContext, GiveUp,
                    ReplayCommand, RefuseCommand, ListResources, ReadPage

(* An event says what its command set, whatever that is, and names its     *)
(* receipt if the command did not set an attribute of that name.           *)
LEMMA PayloadSays ==
  ASSUME NEW cmd, NEW n
  PROVE  LET set == Mutations(cmd)
         IN /\ \A k \in DOMAIN set : Payload(cmd, n)[k] = set[k]
            /\ "command_id" \notin DOMAIN set => Payload(cmd, n)["command_id"] = CommandId(n)
<1> DEFINE set == Mutations(cmd)
           own == One("command_id", CommandId(n))
<1>1. DOMAIN own = {"command_id"} /\ own["command_id"] = CommandId(n)
  BY DEF One
<1>2. Payload(cmd, n) = Overlay(own, set)
  BY DEF Payload
<1> HIDE DEF own, set
<1>3. Payload(cmd, n) = [k \in DOMAIN own \cup DOMAIN set |->
                           IF k \in DOMAIN set THEN set[k] ELSE own[k]]
  BY <1>2 DEF Overlay
<1>4. /\ \A k \in DOMAIN set : Payload(cmd, n)[k] = set[k]
      /\ "command_id" \notin DOMAIN set => Payload(cmd, n)["command_id"] = CommandId(n)
  BY <1>1, <1>3
<1> QED
  BY <1>4 DEF set

(* The attributes are those the commands applied have left.                *)
AttributesKept == DOMAIN attributes = Targets /\ AttributesApplied

LEMMA AttributesInit == Init => AttributesKept
<1> SUFFICES ASSUME Init PROVE AttributesKept
  OBVIOUS
<1>1. attributes = SeedAttributes /\ applied = <<>> /\ Len(applied) = 0
  BY DEF Init
<1>2. \A t, k : Setters(t, k) = {}
  BY <1>1 DEF Setters
<1> QED
  BY <1>1, <1>2, SeedAssumption DEF SeedAssumption, AttributesKept, AttributesApplied, Holds

(* One more command is applied: it is the last to set what it sets.        *)
LEMMA AttributesAfter ==
  ASSUME AttributesKept, NEW cmd \in Commands, cmd.target \in Targets,
         Len(applied) \in Nat, Len(applied') = Len(applied) + 1,
         applied'[Len(applied) + 1] = cmd,
         \A i \in 1 .. Len(applied) : applied'[i] = applied[i],
         attributes' = [attributes EXCEPT ![cmd.target] = Overlay(@, Mutations(cmd))]
  PROVE  AttributesKept'
<1> DEFINE n   == Len(applied)
           set == Mutations(cmd)
           old == attributes[cmd.target]
<1>1. /\ DOMAIN attributes' = Targets
      /\ attributes'[cmd.target] = Overlay(old, set)
      /\ \A t \in Targets \ {cmd.target} : attributes'[t] = attributes[t]
  BY DEF AttributesKept
<1>2. Overlay(old, set) = [k \in DOMAIN old \cup DOMAIN set |->
                             IF k \in DOMAIN set THEN set[k] ELSE old[k]]
  BY DEF Overlay
<1> HIDE DEF set, old
<1>3. /\ DOMAIN attributes'[cmd.target] = DOMAIN old \cup DOMAIN set
      /\ \A k \in DOMAIN set : attributes'[cmd.target][k] = set[k]
      /\ \A k \in DOMAIN old \ DOMAIN set : attributes'[cmd.target][k] = old[k]
  BY <1>1, <1>2
<1>4. \A i \in 1 .. n + 1 : i = n + 1 \/ i \in 1 .. n
  OBVIOUS
<1>5. ASSUME NEW t \in Targets, NEW k, t # cmd.target \/ k \notin DOMAIN set
      PROVE  Setters(t, k)' = Setters(t, k)
  BY <1>4, <1>5 DEF Setters, set
<1>6. ASSUME NEW t \in Targets, NEW k \in DOMAIN attributes[t],
             t # cmd.target \/ k \notin DOMAIN set, attributes'[t][k] = attributes[t][k]
      PROVE  Holds(t, k)'
  <2>1. Holds(t, k) /\ Setters(t, k)' = Setters(t, k)
    BY <1>5, <1>6 DEF AttributesKept, AttributesApplied
  <2>2. \A i \in Setters(t, k) : applied'[i] = applied[i]
    BY DEF Setters
  <2> QED
    BY <1>6, <2>1, <2>2 DEF Holds
<1>7. ASSUME NEW k \in DOMAIN set PROVE Holds(cmd.target, k)'
  <2>1. n + 1 \in Setters(cmd.target, k)' /\ \A j \in Setters(cmd.target, k)' : j <= n + 1
    BY <1>7 DEF Setters, set
  <2>2. attributes'[cmd.target][k] = Mutations(applied'[n + 1])[k]
    BY <1>3, <1>7 DEF set
  <2> QED
    BY <2>1, <2>2 DEF Holds
<1>8. ASSUME NEW t \in Targets, NEW k \in DOMAIN attributes'[t] PROVE Holds(t, k)'
  <2>1. CASE t # cmd.target
    BY <1>1, <1>6, <1>8, <2>1
  <2>2. CASE t = cmd.target /\ k \in DOMAIN set
    BY <1>7, <2>2
  <2>3. CASE t = cmd.target /\ k \notin DOMAIN set
    <3>1. k \in DOMAIN attributes[t] /\ attributes'[t][k] = attributes[t][k]
      BY <1>3, <1>8, <2>3 DEF old
    <3> QED
      BY <1>6, <2>3, <3>1
  <2> QED
    BY <2>1, <2>2, <2>3
<1>9. \A t \in Targets : DOMAIN attributes[t] \subseteq DOMAIN attributes'[t]
  BY <1>1, <1>3 DEF old
<1>10. \A t \in Targets : DOMAIN SeedAttributes[t] \subseteq DOMAIN attributes'[t]
  BY <1>9 DEF AttributesKept, AttributesApplied
<1>11. ASSUME NEW i \in 1 .. Len(applied')
       PROVE  DOMAIN Mutations(applied'[i]) \subseteq DOMAIN attributes'[applied'[i].target]
  <2>1. CASE i = n + 1
    BY <1>3, <2>1 DEF set
  <2>2. CASE i \in 1 .. n
    <3>1. /\ applied'[i] = applied[i]
          /\ DOMAIN Mutations(applied[i]) \subseteq DOMAIN attributes[applied[i].target]
      BY <2>2 DEF AttributesKept, AttributesApplied
    <3>2. CASE applied[i].target = cmd.target
      BY <1>3, <3>1, <3>2 DEF old
    <3>3. CASE applied[i].target \in Targets \ {cmd.target}
      BY <1>1, <3>1, <3>3
    <3>4. CASE applied[i].target \notin Targets
      BY <1>1, <3>1, <3>4
    <3> QED
      BY <3>2, <3>3, <3>4
  <2> QED
    BY <1>4, <2>1, <2>2
<1> QED
  BY <1>1, <1>8, <1>10, <1>11 DEF AttributesKept, AttributesApplied

LEMMA AttributesNext == IInv /\ AttributesKept /\ [Next]_vars => AttributesKept'
<1> SUFFICES ASSUME IInv, AttributesKept, [Next]_vars PROVE AttributesKept'
  OBVIOUS
<1>1. CASE UNCHANGED <<store, history>>
  BY <1>1 DEF AttributesKept, AttributesApplied, Holds, Setters, store, history
<1>2. CASE \E c \in Clients : ApplyCommand(c)
  <2> PICK c \in Clients : ApplyCommand(c)
    BY <1>2
  <2> DEFINE cmd == request[c].command
  <2>1. /\ cmd \in Commands /\ Len(applied) \in Nat /\ Len(applied') = Len(applied) + 1
        /\ applied'[Len(applied) + 1] = cmd
        /\ \A i \in 1 .. Len(applied) : applied'[i] = applied[i]
    BY ApplyFacts DEF IInv
  <2>2. /\ cmd.target \in Targets
        /\ attributes' = [attributes EXCEPT ![cmd.target] = Overlay(@, Mutations(cmd))]
    BY NotRefused DEF ApplyCommand, Effect
  <2> QED
    BY <2>1, <2>2, AttributesAfter
<1> QED
  BY <1>1, <1>2 DEF Next, vars, store, history, Call, Reject, Rejected, EndContext, GiveUp,
                    ReplayCommand, RefuseCommand, ListResources, ReadPage

(* Readers of events: every command that takes effect is told of once, in  *)
(* order, with the revision it made and what it set; its event names its   *)
(* receipt unless the client's own argument "command_id" has that place;   *)
(* only the oldest events are dropped by execute(); and no attribute is    *)
(* changed by anything else.                                               *)
THEOREM EventsAreTheEffects == Spec => []EventsTellEffects
<1>1. EventsKept /\ AttributesKept => EventsTellEffects
  <2> SUFFICES ASSUME EventsKept, AttributesKept PROVE EventsTellEffects
    OBVIOUS
  <2> DEFINE n == Len(log) - Len(events)
             t == SubSeq(log, n + 1, Len(log))
  <2>1. Len(log) \in Nat /\ Len(events) \in Nat
    BY LenProperties DEF EventsKept, Latest
  <2>2. n \in 0 .. Len(log)
    BY <2>1 DEF EventsKept, Latest
  <2>3. \A i \in n + 1 .. Len(log) : log[i] \in Events
    BY <2>1, <2>2, ElementOfSeq DEF EventsKept
  <2>4. /\ t \in Seq(Events)
        /\ Len(t) = IF n + 1 <= Len(log) THEN Len(log) - (n + 1) + 1 ELSE 0
        /\ \A i \in 1 .. Len(log) - (n + 1) + 1 : t[i] = log[n + 1 + i - 1]
    BY <2>1, <2>2, <2>3, SubSeqProperties
  <2>5. Len(t) = Len(events) /\ \A i \in 1 .. Len(events) : t[i] = log[n + i]
    BY <2>1, <2>2, <2>4
  <2>6. events = t
    BY <2>4, <2>5, SeqEqual DEF EventsKept, Latest
  <2>7. ASSUME NEW i \in 1 .. Len(applied)
        PROVE  LET ev == log[Len(SeedEvents) + i]
                   set == Mutations(applied[i])
               IN /\ ev.resource = applied[i].target
                  /\ ev.revision = versions[i + 1][ev.resource]
                  /\ \A k \in DOMAIN set : ev.payload[k] = set[k]
                  /\ "command_id" \notin DOMAIN set =>
                       ev.payload["command_id"] = CommandId(i)
    <3>1. /\ log[Len(SeedEvents) + i].resource = applied[i].target
          /\ log[Len(SeedEvents) + i].payload = Payload(applied[i], i)
          /\ log[Len(SeedEvents) + i].revision = versions[i + 1][applied[i].target]
      BY DEF EventsKept
    <3> QED
      BY <3>1, PayloadSays
  <2>8. events = SubSeq(log, n + 1, Len(log))
    BY <2>6
  <2>9. \E m \in 0 .. Len(log) : events = SubSeq(log, m + 1, Len(log))
    BY <2>2, <2>8
  <2>10. Len(log) = Len(SeedEvents) + Len(applied) /\ \A i \in 1 .. Len(log) : log[i].sequence = i
    BY DEF EventsKept
  <2> QED
    BY <2>7, <2>9, <2>10 DEF EventsTellEffects, AttributesKept
<1> QED
  BY <1>1, EventsInit, EventsNext, AttributesInit, AttributesNext, Invariance, PTL DEF Spec

-----------------------------------------------------------------------------
(* The session implements the ledger of module CommandLedger: there are as *)
(* many receipts as commands applied, so the key of receipt i is that of   *)
(* command i.                                                              *)
Counted ==
  IsFiniteSet(DOMAIN receipts) /\ Cardinality(DOMAIN receipts) = Len(applied)

LEMMA CountedInit == Init => Counted
<1> SUFFICES ASSUME Init PROVE Counted
  OBVIOUS
<1>1. DOMAIN receipts = {} /\ Len(applied) = 0
  BY DEF Init
<1> QED
  BY <1>1, FS_EmptySet DEF Counted

LEMMA CountedNext == IInv /\ Counted /\ [Next]_vars => Counted'
<1> SUFFICES ASSUME IInv, Counted, [Next]_vars PROVE Counted'
  OBVIOUS
<1>1. CASE UNCHANGED <<store, history>>
  BY <1>1 DEF Counted, store, history
<1>2. ASSUME NEW c \in Clients, ApplyCommand(c)
      PROVE  Counted'
  <2> DEFINE key == request[c].command.key
  <2>1. /\ key \notin DOMAIN receipts
        /\ DOMAIN receipts' = DOMAIN receipts \cup {key}
        /\ Len(applied') = Len(applied) + 1
    BY <1>2, ApplyFacts DEF IInv
  <2> HIDE DEF key
  <2>2. /\ IsFiniteSet(DOMAIN receipts \cup {key})
        /\ Cardinality(DOMAIN receipts \cup {key}) = Cardinality(DOMAIN receipts) + 1
    BY <2>1, FS_AddElement DEF Counted
  <2> QED
    BY <2>1, <2>2 DEF Counted
<1> QED
  BY <1>1, <1>2 DEF Next, vars, Call, Reject, Rejected, EndContext, GiveUp,
                    ReplayCommand, RefuseCommand, ListResources, ReadPage

KeysOfApplied ==
  /\ KeyLedger \in Seq(Keys) /\ Len(KeyLedger) = Len(applied)
  /\ \A i \in 1 .. Len(applied) : KeyLedger[i] = applied[i].key

LEMMA LedgerIs == IInv /\ Counted => KeysOfApplied
<1> SUFFICES ASSUME IInv, Counted PROVE KeysOfApplied
  OBVIOUS
<1>1. /\ Len(applied) \in Nat
      /\ \A i \in 1 .. Len(applied) : applied[i].key \in Keys
  BY LenProperties, ElementOfSeq DEF IInv, InStep, Keys
<1>2. ASSUME NEW i \in 1 .. Len(applied)
      PROVE  KeyNumbered(i) = applied[i].key
  <2>1. applied[i].key \in DOMAIN receipts /\ receipts[applied[i].key].id = i
    BY DEF IInv, Numbered
  <2>2. \A k \in DOMAIN receipts : receipts[k].id = i => k = applied[i].key
    BY DEF IInv, Remembered, Names
  <2> QED
    BY <2>1, <2>2 DEF KeyNumbered
<1>3. KeyLedger = [i \in 1 .. Len(applied) |-> applied[i].key]
  BY <1>2 DEF KeyLedger, Counted
<1>4. KeyLedger \in Seq(Keys)
  BY <1>1, <1>3
<1>5. Len(KeyLedger) = Len(applied)
  BY <1>1, <1>3
<1> QED
  BY <1>3, <1>4, <1>5 DEF KeysOfApplied

(* What an answer is for the ledger.                                       *)
Reply(r) == IF r.op = "receipt" THEN <<r.command.key, r.id>> ELSE <<>>

LEMMA RepliesFacts ==
  ASSUME InCalls, NEW c \in Clients, NEW r, result' = [result EXCEPT ![c] = r]
  PROVE  Replies' = [Replies EXCEPT ![c] = Reply(r)]
BY DEF InCalls, Replies, Reply

LEMMA Declines ==
  ASSUME InCalls, NEW c \in Clients, NEW r, result' = [result EXCEPT ![c] = r],
         r.op # "receipt", UNCHANGED store
  PROVE  Ledger!Decline(c)
<1>1. Replies' = [Replies EXCEPT ![c] = <<>>]
  BY RepliesFacts DEF Reply
<1>2. KeyLedger' = KeyLedger
  BY DEF store, KeyLedger, KeyNumbered
<1> QED
  BY <1>1, <1>2 DEF Ledger!Decline

LEMMA ReplaysOrDeclines ==
  ASSUME IInv, Counted, NEW c \in Clients, ReplayCommand(c)
  PROVE  (\E k \in Keys : Ledger!Replay(c, k)) \/ Ledger!Decline(c)
<1> DEFINE cmd == request[c].command
           rec == receipts[cmd.key]
<1>1. /\ InCalls /\ cmd \in Commands /\ cmd.key \in DOMAIN receipts
      /\ UNCHANGED store
  BY DEF ReplayCommand, Ready, IInv, InCalls
<1>2. CASE rec.fingerprint # Fingerprint(cmd)
  <2>1. /\ result' = [result EXCEPT ![c] = Failure("Conflict")]
        /\ Failure("Conflict").op # "receipt"
    BY <1>2 DEF ReplayCommand, Answer, Failure
  <2> QED
    BY <1>1, <2>1, Declines
<1>3. CASE rec.fingerprint = Fingerprint(cmd)
  <2> DEFINE r == Receipt(cmd, "Replayed", rec)
  <2>1. result' = [result EXCEPT ![c] = r]
    BY <1>3 DEF ReplayCommand, Answer
  <2>2. Reply(r) = <<cmd.key, rec.id>>
    BY DEF Receipt, Reply
  <2> HIDE DEF r
  <2>3. Replies' = [Replies EXCEPT ![c] = <<cmd.key, rec.id>>]
    BY <1>1, <2>1, <2>2, RepliesFacts
  <2>4. KeyLedger' = KeyLedger
    BY <1>1 DEF store, KeyLedger, KeyNumbered
  <2>5. rec.id \in 1 .. Len(KeyLedger) /\ KeyLedger[rec.id] = cmd.key
    BY <1>1, LedgerIs DEF IInv, Remembered, Names, KeysOfApplied
  <2>6. rec.id \in Ledger!Places(cmd.key)
    BY <2>5 DEF Ledger!Places
  <2>7. cmd.key \in Keys
    BY <1>1 DEF Keys
  <2>8. Ledger!Replay(c, cmd.key)
    BY <2>3, <2>4, <2>6 DEF Ledger!Replay
  <2> QED
    BY <2>7, <2>8
<1> QED
  BY <1>2, <1>3

LEMMA Applies ==
  ASSUME IInv, Counted, NEW c \in Clients, ApplyCommand(c), IInv', Counted'
  PROVE  \E k \in Keys : Ledger!Apply(c, k)
<1> DEFINE cmd == request[c].command
           id  == Len(applied) + 1
<1>1. /\ cmd \in Commands /\ cmd.key \notin DOMAIN receipts
      /\ Len(applied) \in Nat /\ Len(applied') = id /\ applied'[id] = cmd
      /\ \A i \in 1 .. Len(applied) : applied'[i] = applied[i]
  BY ApplyFacts DEF IInv
<1>2. cmd.key \in Keys
  BY <1>1 DEF Keys
<1>3. /\ KeyLedger \in Seq(Keys) /\ Len(KeyLedger) = Len(applied)
      /\ \A i \in 1 .. Len(applied) : KeyLedger[i] = applied[i].key
  BY LedgerIs DEF KeysOfApplied
<1>4. IInv' /\ Counted' => KeysOfApplied'
  BY LedgerIs, PTL
<1>5. PICK r : result' = [result EXCEPT ![c] = r] /\ Reply(r) = <<cmd.key, id>>
  <2> DEFINE rec == [fingerprint |-> Fingerprint(cmd), id |-> nextCommand,
                     revision |-> revision[cmd.target] + 1]
  <2>1. result' = [result EXCEPT ![c] = Receipt(cmd, "Applied", rec)]
    BY DEF ApplyCommand, Effect, Answer
  <2>2. Reply(Receipt(cmd, "Applied", rec)) = <<cmd.key, nextCommand>>
    BY DEF Receipt, Reply
  <2>3. nextCommand = id
    BY DEF IInv, InStep
  <2> QED
    BY <2>1, <2>2, <2>3
<1>6. Len(applied) < MaxReceipts
  <2>1. ~(Cardinality(DOMAIN receipts) >= MaxReceipts)
    BY NotRefused DEF ApplyCommand
  <2> QED
    BY <2>1, <1>1, BoundsAssumption DEF Counted, BoundsAssumption
<1> HIDE DEF cmd
<1>7. Replies' = [Replies EXCEPT ![c] = <<cmd.key, id>>]
  BY <1>5, RepliesFacts DEF IInv
<1>8. KeyLedger' = Append(KeyLedger, cmd.key)
  <2> DEFINE a == Append(KeyLedger, cmd.key)
  <2>1. /\ a \in Seq(Keys) /\ Len(a) = id /\ a[id] = cmd.key
        /\ \A i \in 1 .. Len(applied) : a[i] = KeyLedger[i]
    BY <1>2, <1>3, AppendProperties
  <2> HIDE DEF a
  <2>2. KeyLedger' \in Seq(Keys) /\ Len(KeyLedger') = id
        /\ \A i \in 1 .. id : KeyLedger'[i] = applied'[i].key
    BY <1>1, <1>4 DEF KeysOfApplied
  <2>3. ASSUME NEW i \in 1 .. id
        PROVE  KeyLedger'[i] = a[i]
    <3>1. CASE i = id
      BY <3>1, <2>1, <2>2, <1>1
    <3>2. CASE i \in 1 .. Len(applied)
      BY <3>2, <2>1, <2>2, <1>1, <1>3
    <3> QED
      BY <3>1, <3>2, <1>1
  <2>4. KeyLedger' = a
    BY <2>1, <2>2, <2>3, SeqEqual
  <2> QED
    BY <2>4 DEF a
<1>9. Ledger!Places(cmd.key) = {}
  <2> SUFFICES ASSUME NEW i \in 1 .. Len(KeyLedger), KeyLedger[i] = cmd.key PROVE FALSE
    BY DEF Ledger!Places
  <2>1. applied[i].key = cmd.key
    BY <1>3
  <2> QED
    BY <2>1, <1>1, <1>3 DEF IInv, Numbered
<1>10. Len(KeyLedger) < MaxReceipts /\ Len(KeyLedger) + 1 = id
  BY <1>3, <1>6
<1>11. Ledger!Apply(c, cmd.key)
  BY <1>7, <1>8, <1>9, <1>10 DEF Ledger!Apply
<1> QED
  BY <1>2, <1>11

LEMMA LedgerInit == Init => Ledger!Init
<1> SUFFICES ASSUME Init PROVE Ledger!Init
  OBVIOUS
<1>1. KeyLedger \in Seq(Keys) /\ Len(KeyLedger) = 0
  BY InitInv, CountedInit, LedgerIs DEF KeysOfApplied, Init
<1>2. KeyLedger = <<>>
  BY <1>1, EmptySeq
<1>3. Replies = [c \in Clients |-> <<>>]
  BY DEF Init, Replies, Idle
<1> QED
  BY <1>2, <1>3 DEF Ledger!Init

LEMMA LedgerStep ==
  IInv /\ Counted /\ IInv' /\ Counted' /\ [Next]_vars => [Ledger!Next]_(Ledger!vars)
<1> SUFFICES ASSUME IInv, Counted, IInv', Counted', [Next]_vars
             PROVE  [Ledger!Next]_(Ledger!vars)
  OBVIOUS
<1>1. ASSUME NEW c \in Clients, Ledger!Decline(c)
      PROVE  Ledger!Next
  BY <1>1 DEF Ledger!Next
<1>2. ASSUME UNCHANGED <<store, result>>
      PROVE  UNCHANGED Ledger!vars
  BY <1>2 DEF Ledger!vars, KeyLedger, KeyNumbered, Replies, store
<1>3. ASSUME NEW c \in Clients, NEW req \in Requests, Call(c, req) \/ Reject(c, req)
      PROVE  Ledger!Next
  <2>1. PICK r : r.op # "receipt" /\ result' = [result EXCEPT ![c] = r]
    BY <1>3 DEF Call, Reject, Rejected, Idle, Failure
  <2>2. UNCHANGED store
    BY <1>3 DEF Call, Reject, Rejected
  <2> QED
    BY <2>1, <2>2, <1>1, Declines DEF IInv
<1>4. ASSUME NEW c \in Clients,
             GiveUp(c) \/ RefuseCommand(c) \/ ListResources(c) \/ ReadPage(c)
      PROVE  Ledger!Next
  <2>1. UNCHANGED store
    BY <1>4 DEF GiveUp, RefuseCommand, ListResources, ReadPage
  <2>2. PICK r : r.op # "receipt" /\ result' = [result EXCEPT ![c] = r]
    BY <1>4 DEF GiveUp, RefuseCommand, ListResources, ReadPage, Answer, Failure
  <2> QED
    BY <2>1, <2>2, <1>1, Declines DEF IInv
<1>5. ASSUME NEW c \in Clients, ReplayCommand(c) \/ ApplyCommand(c)
      PROVE  Ledger!Next
  BY <1>5, ReplaysOrDeclines, Applies DEF Ledger!Next
<1>6. ASSUME NEW c \in Clients, NEW why, EndContext(c, why)
      PROVE  UNCHANGED Ledger!vars
  BY <1>6, <1>2 DEF EndContext
<1>7. ASSUME UNCHANGED vars
      PROVE  UNCHANGED Ledger!vars
  BY <1>7, <1>2 DEF vars
<1> QED
  BY <1>3, <1>4, <1>5, <1>6, <1>7 DEF Next

(* Calls under the mutex, whatever their interleaving, cancellation and    *)
(* deadlines, are atomic steps of an append-only ledger of keys.           *)
THEOREM SessionIsALedger == Spec => KeepsLedger
<1>1. Spec => []Counted
  BY CountedInit, CountedNext, Invariance, PTL DEF Spec
<1> QED
  BY <1>1, Invariance, LedgerInit, LedgerStep, PTL DEF Spec, KeepsLedger, Ledger!Spec

-----------------------------------------------------------------------------
(* Types and bounds.                                                       *)
StoreTyped ==
  /\ mode \in Modes
  /\ DOMAIN attributes = Targets
  /\ \A t \in Targets : /\ IsFiniteSet(DOMAIN attributes[t])
                        /\ Cardinality(DOMAIN attributes[t]) <= MaxAttributes
  /\ Len(events) <= MaxEvents
  /\ Cardinality(DOMAIN receipts) <= MaxReceipts
  /\ DOMAIN receipts \subseteq Keys

CallsTyped ==
  /\ context \in [Clients -> {"live", "Cancelled", "DeadlineExceeded"}]
  /\ \A c \in Clients : result[c].op = "failure" => result[c].code \in Codes

(* What a command sets is finite.                                          *)
LEMMA MutationsFinite ==
  ASSUME NEW cmd \in Commands
  PROVE  IsFiniteSet(DOMAIN Mutations(cmd))
<1>1. IsFiniteSet(DOMAIN cmd.arguments)
  BY ArgumentsAssumption DEF ArgumentsAssumption
<1>2. \A k, v : DOMAIN One(k, v) = {k}
  BY DEF One
<1>3. \A k : IsFiniteSet({k})
  BY FS_Singleton
<1> QED
  BY <1>1, <1>2, <1>3 DEF Mutations

LEMMA StoreTypedNext ==
  ASSUME IInv, EventsKept, Counted, StoreTyped, NEW c \in Clients, ApplyCommand(c)
  PROVE  StoreTyped'
<1> DEFINE cmd == request[c].command
           set == DOMAIN Overlay(attributes[cmd.target], Mutations(cmd))
           ev  == [sequence |-> nextEvent, resource |-> cmd.target,
                   revision |-> revision[cmd.target] + 1, payload |-> Payload(cmd, nextCommand)]
<1>1. /\ cmd \in Commands /\ Len(applied) \in Nat /\ Len(applied') = Len(applied) + 1
      /\ DOMAIN receipts' = DOMAIN receipts \cup {cmd.key}
  BY ApplyFacts DEF IInv
<1>2. /\ cmd.target \in Targets
      /\ ~(Cardinality(DOMAIN receipts) >= MaxReceipts) /\ ~(Cardinality(set) > MaxAttributes)
  BY NotRefused DEF ApplyCommand
<1>3. /\ mode' = mode
      /\ attributes' = [attributes EXCEPT ![cmd.target] = Overlay(@, Mutations(cmd))]
      /\ events' = Retain(Append(events, ev))
  BY DEF ApplyCommand, Effect, Answer
<1>4. /\ DOMAIN receipts' \subseteq Keys
  BY <1>1 DEF StoreTyped, Keys
<1>5. Cardinality(DOMAIN receipts') <= MaxReceipts
  <2>1. cmd.key \notin DOMAIN receipts
    BY ApplyFacts DEF IInv
  <2> HIDE DEF cmd
  <2>2. Cardinality(DOMAIN receipts \cup {cmd.key}) = Cardinality(DOMAIN receipts) + 1
    BY <2>1, FS_AddElement DEF Counted
  <2>3. Cardinality(DOMAIN receipts) \in Nat /\ MaxReceipts \in Nat
    BY <1>1, BoundsAssumption DEF Counted, BoundsAssumption
  <2> QED
    BY <2>2, <2>3, <1>1, <1>2
<1>6. set = DOMAIN attributes[cmd.target] \cup DOMAIN Mutations(cmd)
  BY DEF Overlay
<1>7. IsFiniteSet(set) /\ Cardinality(set) <= MaxAttributes
  <2>1. IsFiniteSet(DOMAIN attributes[cmd.target]) /\ IsFiniteSet(DOMAIN Mutations(cmd))
    BY <1>1, <1>2, MutationsFinite DEF StoreTyped
  <2>2. IsFiniteSet(set)
    BY <2>1, <1>6, FS_Union
  <2>3. Cardinality(set) \in Nat /\ MaxAttributes \in Nat
    BY <2>2, FS_CardinalityType, BoundsAssumption DEF BoundsAssumption
  <2> QED
    BY <2>2, <2>3, <1>2
<1>8. /\ DOMAIN attributes' = Targets
      /\ \A t \in Targets : /\ IsFiniteSet(DOMAIN attributes'[t])
                            /\ Cardinality(DOMAIN attributes'[t]) <= MaxAttributes
  <2>1. /\ DOMAIN attributes' = Targets
        /\ attributes'[cmd.target] = Overlay(attributes[cmd.target], Mutations(cmd))
        /\ \A t \in Targets \ {cmd.target} : attributes'[t] = attributes[t]
    BY <1>2, <1>3 DEF StoreTyped
  <2> QED
    BY <2>1, <1>7 DEF StoreTyped
<1>9. Len(events') <= MaxEvents
  <2>1. events \in Seq(Events) /\ Len(events) \in Nat /\ Len(events) <= MaxEvents
    BY LenProperties DEF EventsKept, Latest, StoreTyped
  <2>2. ev \in Events
    <3>1. revision[cmd.target] \in Nat /\ nextCommand \in Nat
      BY <1>1, <1>2 DEF IInv, InStep, Revisions
    <3>2. nextEvent \in Nat
      BY LenProperties DEF EventsKept
    <3>3. Payload(cmd, nextCommand) \in Payloads
      BY <1>1, <3>1 DEF Payloads
    <3> QED
      BY <3>1, <3>2, <3>3, <1>2 DEF Events
  <2> HIDE DEF ev
  <2> DEFINE a == Append(events, ev)
  <2>3. a \in Seq(Events) /\ Len(a) = Len(events) + 1
    BY <2>1, <2>2, AppendProperties
  <2>4. events' = Retain(a)
    BY <1>3
  <2> HIDE DEF a
  <2>5. MaxEvents \in Nat
    BY BoundsAssumption DEF BoundsAssumption
  <2>6. CASE Len(a) > MaxEvents
    <3>1. a # <<>>
      BY <2>1, <2>3, EmptySeq
    <3>2. Len(Tail(a)) = Len(events)
      BY <3>1, <2>1, <2>3, HeadTailProperties
    <3> QED
      BY <3>2, <2>1, <2>4, <2>6 DEF Retain
  <2>7. CASE ~(Len(a) > MaxEvents)
    <3>1. events' = a
      BY <2>4, <2>7 DEF Retain
    <3> QED
      BY <3>1, <2>1, <2>3, <2>5, <2>7
  <2> QED
    BY <2>6, <2>7
<1> QED
  BY <1>3, <1>4, <1>5, <1>8, <1>9 DEF StoreTyped

(* An answer whose code, if it has one, is one of Codes.                   *)
LEMMA AnswerTyped ==
  ASSUME InCalls, CallsTyped, NEW c \in Clients, NEW r, Answer(c, r),
         r.op = "failure" => r.code \in Codes
  PROVE  CallsTyped'
<1>1. context' = context /\ result' = [result EXCEPT ![c] = r]
  BY DEF Answer
<1> QED
  BY <1>1 DEF CallsTyped, InCalls

LEMMA CallsTypedNext ==
  ASSUME InCalls, CallsTyped, NEW c \in Clients,
         \/ GiveUp(c) \/ ReplayCommand(c) \/ RefuseCommand(c) \/ ApplyCommand(c)
         \/ ListResources(c) \/ ReadPage(c)
  PROVE  CallsTyped'
<1>0. \A code : Failure(code).op = "failure" /\ Failure(code).code = code
  BY DEF Failure
<1>1. CASE GiveUp(c)
  <2>1. Answer(c, Failure(context[c])) /\ context[c] \in Codes
    BY <1>1 DEF GiveUp, CallsTyped, Codes
  <2> QED
    BY <2>1, <1>0, AnswerTyped
<1>2. CASE RefuseCommand(c)
  <2> DEFINE code == Refusal(request[c].command)
  <2>1. Answer(c, Failure(code)) /\ code # "none"
    BY <1>2 DEF RefuseCommand
  <2>2. code \in Codes
    BY <2>1 DEF Refusal, Codes
  <2> HIDE DEF code
  <2> QED
    BY <2>1, <2>2, <1>0, AnswerTyped
<1>3. CASE ReplayCommand(c) \/ ApplyCommand(c)
  <2>1. \E cmd, how, rec : \/ Answer(c, Receipt(cmd, how, rec))
                          \/ Answer(c, Failure("Conflict"))
    BY <1>3 DEF ReplayCommand, ApplyCommand, Effect
  <2>2. \A cmd, how, rec : Receipt(cmd, how, rec).op = "receipt"
    BY DEF Receipt
  <2>3. "Conflict" \in Codes
    BY DEF Codes
  <2> QED
    BY <2>1, <2>2, <2>3, <1>0, AnswerTyped
<1>4. CASE ListResources(c)
  <2>1. \E r : Answer(c, r) /\ (r = Failure("InvalidArgument") \/ r.op = "page")
    BY <1>4 DEF ListResources
  <2>2. "InvalidArgument" \in Codes
    BY DEF Codes
  <2> QED
    BY <2>1, <2>2, <1>0, AnswerTyped
<1>5. CASE ReadPage(c)
  <2>1. \E r : Answer(c, r) /\ (r = Failure("EventGap") \/ r.op = "events")
    BY <1>5 DEF ReadPage
  <2>2. "EventGap" \in Codes
    BY DEF Codes
  <2> QED
    BY <2>1, <2>2, <1>0, AnswerTyped
<1> QED
  BY <1>1, <1>2, <1>3, <1>4, <1>5

LEMMA TypedInit == Init => StoreTyped /\ CallsTyped
<1> SUFFICES ASSUME Init PROVE StoreTyped /\ CallsTyped
  OBVIOUS
<1>1. /\ mode \in Modes /\ attributes = SeedAttributes /\ DOMAIN receipts = {}
      /\ Len(events) = Len(SeedEvents)
      /\ context = [c \in Clients |-> "live"] /\ result = [c \in Clients |-> Idle]
  BY SeedAssumption, LenProperties DEF Init, SeedAssumption
<1>2. Cardinality(DOMAIN receipts) <= MaxReceipts
  BY <1>1, FS_EmptySet, BoundsAssumption DEF BoundsAssumption
<1>3. StoreTyped
  BY <1>1, <1>2, SeedAssumption DEF StoreTyped, SeedAssumption
<1>4. CallsTyped
  BY <1>1 DEF CallsTyped, Idle
<1> QED
  BY <1>3, <1>4

LEMMA TypedNext ==
  IInv /\ EventsKept /\ Counted /\ StoreTyped /\ CallsTyped /\ [Next]_vars
    => StoreTyped' /\ CallsTyped'
<1> SUFFICES ASSUME IInv, EventsKept, Counted, StoreTyped, CallsTyped, [Next]_vars
             PROVE  StoreTyped' /\ CallsTyped'
  OBVIOUS
<1>1. ASSUME UNCHANGED <<mode, store>>
      PROVE  StoreTyped'
  BY <1>1 DEF StoreTyped, store
<1>2. ASSUME NEW c \in Clients, NEW req \in Requests, Call(c, req)
      PROVE  StoreTyped' /\ CallsTyped'
  <2>1. /\ UNCHANGED <<mode, store>>
        /\ context' = [context EXCEPT ![c] = "live"]
        /\ result' = [result EXCEPT ![c] = Idle]
    BY <1>2 DEF Call
  <2>2. CallsTyped'
    BY <2>1 DEF IInv, InCalls, CallsTyped, Idle
  <2> QED
    BY <1>1, <2>1, <2>2
<1>3. ASSUME NEW c \in Clients, NEW req \in Requests, Reject(c, req)
      PROVE  StoreTyped' /\ CallsTyped'
  <2>1. PICK code \in Codes : Rejected(c, code)
    BY <1>3 DEF Reject, Codes
  <2>2. /\ UNCHANGED <<mode, store, context>>
        /\ result' = [result EXCEPT ![c] = Failure(code)]
    BY <2>1 DEF Rejected
  <2>3. CallsTyped'
    BY <2>2 DEF IInv, InCalls, CallsTyped, Failure
  <2> QED
    BY <1>1, <2>2, <2>3
<1>4. ASSUME NEW c \in Clients, NEW why \in {"Cancelled", "DeadlineExceeded"},
             EndContext(c, why)
      PROVE  StoreTyped' /\ CallsTyped'
  <2>1. /\ UNCHANGED <<mode, store, result>>
        /\ context' = [context EXCEPT ![c] = why]
    BY <1>4 DEF EndContext
  <2>2. CallsTyped'
    BY <2>1 DEF CallsTyped
  <2> QED
    BY <1>1, <2>1, <2>2
<1>5. ASSUME NEW c \in Clients,
             \/ GiveUp(c) \/ ReplayCommand(c) \/ RefuseCommand(c)
             \/ ListResources(c) \/ ReadPage(c)
      PROVE  StoreTyped' /\ CallsTyped'
  <2>1. UNCHANGED <<mode, store>>
    BY <1>5 DEF GiveUp, ReplayCommand, RefuseCommand, ListResources, ReadPage, Answer
  <2> QED
    BY <1>1, <1>5, <2>1, CallsTypedNext DEF IInv
<1>6. ASSUME NEW c \in Clients, ApplyCommand(c)
      PROVE  StoreTyped' /\ CallsTyped'
  BY <1>6, StoreTypedNext, CallsTypedNext DEF IInv
<1>7. ASSUME UNCHANGED vars
      PROVE  StoreTyped' /\ CallsTyped'
  <2>1. UNCHANGED <<mode, store, context, result>>
    BY <1>7 DEF vars
  <2>2. CallsTyped'
    BY <2>1 DEF CallsTyped
  <2> QED
    BY <1>1, <2>1, <2>2
<1> QED
  BY <1>2, <1>3, <1>4, <1>5, <1>6, <1>7 DEF Next

(* Every variable has its type, and what the session retains - events,     *)
(* receipts, attributes - is bounded by the kMax... constants.             *)
THEOREM TypeCorrect == Spec => []TypeOK
<1>1. IInv /\ EventsKept /\ StoreTyped /\ CallsTyped => TypeOK
  <2> SUFFICES ASSUME IInv, EventsKept, StoreTyped, CallsTyped PROVE TypeOK
    OBVIOUS
  <2>1. /\ revision \in Revisions /\ applied \in Seq(Commands) /\ versions \in Seq(Revisions)
        /\ snapshot \in Nat /\ nextCommand \in Nat
    BY LenProperties DEF IInv, InStep
  <2>2. nextEvent \in Nat
    BY LenProperties DEF EventsKept
  <2> QED
    BY <2>1, <2>2 DEF TypeOK, StoreTyped, CallsTyped
<1>2. Spec => []Counted
  BY CountedInit, CountedNext, Invariance, PTL DEF Spec
<1>3. Spec => []EventsKept
  BY EventsInit, EventsNext, Invariance, PTL DEF Spec
<1>4. Spec => [](StoreTyped /\ CallsTyped)
  BY <1>2, <1>3, TypedInit, TypedNext, Invariance, PTL DEF Spec
<1> QED
  BY <1>1, <1>3, <1>4, Invariance, PTL

-----------------------------------------------------------------------------
(* Pages.  What is picked at an interval of places is that interval ...    *)
LEMMA NthOfInterval ==
  ASSUME NEW a \in Nat, NEW b \in Nat, NEW n \in Nat \ {0}, a + n - 1 <= b
  PROVE  Nth(a .. b, n) = a + n - 1
<1>1. ASSUME NEW p \in a .. b
      PROVE  Before(a .. b, p) = p - a
  <2>1. {q \in a .. b : q < p} = a .. p - 1
    OBVIOUS
  <2>2. a \in Int /\ p - 1 \in Int /\ p - 1 - a + 1 = p - a /\ (a > p - 1 => p - a = 0)
    OBVIOUS
  <2>3. Cardinality(a .. p - 1) = IF a > p - 1 THEN 0 ELSE p - 1 - a + 1
    BY <2>2, FS_Interval
  <2> QED
    BY <2>1, <2>2, <2>3 DEF Before
<1>2. \A p \in a .. b : Before(a .. b, p) = n - 1 <=> p = a + n - 1
  BY <1>1
<1>3. a + n - 1 \in a .. b
  OBVIOUS
<1> QED
  BY <1>2, <1>3 DEF Nth

LEMMA PickedInterval ==
  ASSUME NEW S, NEW s \in Seq(S), NEW a \in Nat \ {0}, NEW k \in Nat,
         a + k = Len(s) + 1 \/ (k = 0 /\ a > Len(s))
  PROVE  /\ Picked(s, a .. Len(s)) \in Seq(S) /\ Len(Picked(s, a .. Len(s))) = k
         /\ \A n \in 1 .. k : Picked(s, a .. Len(s))[n] = s[a + n - 1]
<1> DEFINE t == Picked(s, a .. Len(s))
<1>1. Len(s) \in Nat
  BY LenProperties
<1>2. Cardinality(a .. Len(s)) = k
  <2>1. a \in Int /\ Len(s) \in Int
    BY <1>1
  <2>2. Cardinality(a .. Len(s)) = IF a > Len(s) THEN 0 ELSE Len(s) - a + 1
    BY <2>1, FS_Interval
  <2> QED
    BY <1>1, <2>2
<1>3. t = [n \in 1 .. k |-> s[Nth(a .. Len(s), n)]]
  BY <1>2 DEF Picked
<1>4. ASSUME NEW n \in 1 .. k
      PROVE  t[n] = s[a + n - 1] /\ s[a + n - 1] \in S
  <2>1. n \in Nat \ {0} /\ a + n - 1 <= Len(s) /\ a + n - 1 \in 1 .. Len(s)
    BY <1>1
  <2>2. Nth(a .. Len(s), n) = a + n - 1
    BY <1>1, <2>1, NthOfInterval
  <2>3. s[a + n - 1] \in S
    BY <2>1, ElementOfSeq
  <2> QED
    BY <1>3, <2>2, <2>3
<1> HIDE DEF t
<1>5. t \in Seq(S) /\ Len(t) = k
  BY <1>3, <1>4
<1> QED
  BY <1>4, <1>5 DEF t

(* ... and what is picked anywhere has a length.                           *)
LEMMA ListedLength ==
  ASSUME NEW kind
  PROVE  Len(Listed(kind)) \in Nat
<1> DEFINE P == {i \in DOMAIN Resources : KindOf[Resources[i]] = kind}
<1>1. Resources \in Seq(Targets)
  BY SeedAssumption DEF SeedAssumption
<1>2. IsFiniteSet(DOMAIN Resources)
  BY <1>1, LenProperties, FS_Interval
<1>3. Cardinality(P) \in Nat
  BY <1>2, FS_Subset, FS_CardinalityType
<1> HIDE DEF P
<1>4. Listed(kind) = [n \in 1 .. Cardinality(P) |-> Resources[Nth(P, n)]]
  BY DEF Listed, Picked, P
<1> QED
  BY <1>3, <1>4

-----------------------------------------------------------------------------
(* What clients ask to read and to list.                                   *)
Asked ==
  \A c \in Clients :
    /\ request[c].op = "read" => request[c].after \in Nat /\ request[c].limit \in Nat \ {0}
    /\ request[c].op = "list" => request[c].offset \in Nat /\ request[c].limit \in Nat \ {0}

\* A page of resources, given the revisions ver there have been.
TrueListing(page, ver) ==
  /\ page.snapshot \in 1 .. Len(ver)
  /\ page.items = [i \in 1 .. Len(page.items) |->
                      ver[page.snapshot][Listed(page.kind)[page.offset + i]]]
  /\ page.more <=> page.offset + Len(page.items) < Len(Listed(page.kind))

\* A page of events, given the log l.
TruePage(page, l) ==
  /\ page.after \in Nat /\ page.items \in Seq(Events)
  /\ \A i \in 1 .. Len(page.items) :
       page.after + i <= Len(l) /\ page.items[i] = l[page.after + i]
  /\ page.more => page.items # <<>> /\ page.after + Len(page.items) < Len(l)

PagesTrue ==
  \A c \in Clients :
    /\ result[c].op = "page" => TrueListing(result[c], versions)
    /\ result[c].op = "events" => TruePage(result[c], log)

\* A history goes on.
Continues(v2, v) ==
  /\ Len(v) \in Nat /\ Len(v2) \in Nat /\ Len(v) <= Len(v2)
  /\ \A i \in 1 .. Len(v) : v2[i] = v[i]

(* Pages stay true when there is more to tell.                             *)
LEMMA ListingStaysTrue ==
  ASSUME NEW page, NEW v, NEW v2, Continues(v2, v), TrueListing(page, v)
  PROVE  TrueListing(page, v2)
<1>1. page.snapshot \in 1 .. Len(v) /\ page.snapshot \in 1 .. Len(v2)
  BY DEF TrueListing, Continues
<1>2. v2[page.snapshot] = v[page.snapshot]
  BY <1>1 DEF Continues
<1> QED
  BY <1>1, <1>2 DEF TrueListing

LEMMA PageStaysTrue ==
  ASSUME NEW page, NEW l, NEW l2, Continues(l2, l), TruePage(page, l)
  PROVE  TruePage(page, l2)
<1>0. /\ Len(l) \in Nat /\ Len(l2) \in Nat /\ Len(l) <= Len(l2)
      /\ \A i \in 1 .. Len(l) : l2[i] = l[i]
  BY DEF Continues
<1>1. /\ page.after \in Nat /\ page.items \in Seq(Events) /\ Len(page.items) \in Nat
      /\ \A i \in 1 .. Len(page.items) :
           page.after + i <= Len(l) /\ page.items[i] = l[page.after + i]
      /\ page.more => page.items # <<>> /\ page.after + Len(page.items) < Len(l)
  BY LenProperties DEF TruePage
<1>2. ASSUME NEW i \in 1 .. Len(page.items)
      PROVE  page.after + i <= Len(l2) /\ page.items[i] = l2[page.after + i]
  <2>1. page.after + i <= Len(l) /\ page.items[i] = l[page.after + i]
        /\ page.after + i \in 1 .. Len(l)
    BY <1>0, <1>1
  <2> QED
    BY <1>0, <2>1
<1>3. page.more => page.after + Len(page.items) < Len(l2)
  BY <1>0, <1>1
<1> QED
  BY <1>1, <1>2, <1>3 DEF TruePage

(* list_resources() gives a page that is true ...                          *)
LEMMA ListingTrue ==
  ASSUME IInv, Asked, NEW c \in Clients, ListResources(c)
  PROVE  \E r : /\ Answer(c, r)
                /\ r.op \in {"failure", "page"}
                /\ r.op = "page" => TrueListing(r, versions)
<1> DEFINE req == request[c]
           all == Listed(req.kind)
           end == IF req.offset + req.limit < Len(all) THEN req.offset + req.limit ELSE Len(all)
           page == [op |-> "page", kind |-> req.kind, offset |-> req.offset,
                    snapshot |-> snapshot, more |-> end < Len(all),
                    items |-> [i \in 1..(end - req.offset) |-> revision[all[req.offset + i]]]]
<1>1. /\ req.offset \in Nat /\ req.limit \in Nat /\ Len(all) \in Nat
  BY ListedLength DEF ListResources, Ready, Asked
<1>2. Answer(c, IF req.offset > Len(all) THEN Failure("InvalidArgument") ELSE page)
  BY DEF ListResources
<1>3. CASE req.offset > Len(all)
  BY <1>2, <1>3 DEF Failure
<1>4. CASE ~(req.offset > Len(all))
  <2>1. Answer(c, page)
    BY <1>2, <1>4
  <2>2. versions[snapshot] = revision /\ snapshot \in 1 .. Len(versions)
    BY LenProperties DEF IInv, InStep
  <2> DEFINE n == end - req.offset
  <2>3. n \in Nat /\ req.offset + n = end
    BY <1>1, <1>4
  <2>4. /\ page.kind = req.kind /\ page.offset = req.offset /\ page.snapshot = snapshot
        /\ page.more = (end < Len(all)) /\ page.op = "page"
        /\ page.items = [i \in 1 .. n |-> revision[all[req.offset + i]]]
    OBVIOUS
  <2> HIDE DEF page, n, end
  <2>5. Len(page.items) = n
    BY <2>3, <2>4
  <2>6. TrueListing(page, versions)
    BY <2>2, <2>3, <2>4, <2>5 DEF TrueListing
  <2> QED
    BY <2>1, <2>4, <2>6
<1> QED
  BY <1>3, <1>4

(* Places among the events retained and in the log.                        *)
LEMMA Offsets ==
  ASSUME NEW after \in Nat, NEW k \in Nat, NEW m \in Nat, NEW j \in Nat,
         NEW a \in Nat \ {0}, NEW l \in Nat,
         a = after - k + 1, l = k + m, j > 0 => a + j = m + 1
  PROVE  /\ j > 0 => after + j = l
         /\ \A n \in 1 .. j : /\ a + n - 1 \in 1 .. m /\ k + (a + n - 1) = after + n
                                /\ after + n <= l
OBVIOUS

(* ... and so does read_events(), unless it tells of a gap: what is picked *)
(* of the events retained is all that follows the number asked for.        *)
LEMMA PageTrue ==
  ASSUME IInv, EventsKept, Asked, NEW c \in Clients, ReadPage(c)
  PROVE  \E r : /\ Answer(c, r)
                /\ r.op \in {"failure", "events"}
                /\ r.op = "events" => TruePage(r, log)
<1> DEFINE after == request[c].after
           limit == request[c].limit
           rest  == Retained(after)
           size  == IF limit < Len(rest) THEN limit ELSE Len(rest)
           page  == [op |-> "events", after |-> after,
                     items |-> SubSeq(rest, 1, size), more |-> size < Len(rest)]
           m     == Len(events)
           k     == Len(log) - m
           a     == after - k + 1
<1>1. after \in Nat /\ limit \in Nat \ {0}
  BY DEF ReadPage, Ready, Asked
<1>2. Answer(c, IF Gap(after) THEN Failure("EventGap") ELSE page)
  BY DEF ReadPage
<1>3. CASE Gap(after)
  BY <1>2, <1>3 DEF Failure
<1>4. CASE ~Gap(after)
  <2>1. Answer(c, page)
    BY <1>2, <1>4
  <2>2. /\ log \in Seq(Events) /\ events \in Seq(Events) /\ m \in Nat /\ Len(log) \in Nat
        /\ m <= Len(log) /\ k \in Nat
        /\ \A i \in 1 .. m : events[i] = log[k + i]
        /\ \A i \in 1 .. Len(log) : log[i].sequence = i
    BY LenProperties DEF EventsKept, Latest
  <2>3. ASSUME NEW i \in 1 .. m
        PROVE  events[i].sequence = k + i
    <3>1. k + i \in 1 .. Len(log)
      BY <2>2
    <3> QED
      BY <3>1, <2>2
  <2>4. m = 0 \/ after >= k
    <3>1. SUFFICES ASSUME m # 0 PROVE after >= k
      OBVIOUS
    <3>2. events # <<>> /\ events[1].sequence = k + 1
      BY <3>1, <2>2, <2>3
    <3>3. ~(after + 1 < k + 1)
      BY <1>4, <3>2 DEF Gap, FirstSequence
    <3> QED
      BY <3>3, <1>1, <2>2
  <2>5. /\ rest \in Seq(Events) /\ Len(rest) \in Nat
        /\ \A n \in 1 .. Len(rest) : after + n <= Len(log) /\ rest[n] = log[after + n]
        /\ Len(rest) > 0 => after + Len(rest) = Len(log)
    <3> DEFINE P == {i \in DOMAIN events : events[i].sequence > after}
    <3>1. CASE m = 0
      <4>1. P = 1 .. Len(events)
        BY <3>1, <2>2
      <4>2. /\ rest = Picked(events, 1 .. Len(events))
        BY <4>1 DEF Retained
      <4>3. 1 > Len(events) /\ 0 \in Nat /\ 1 \in Nat \ {0}
        BY <3>1
      <4>4. Picked(events, 1 .. Len(events)) \in Seq(Events)
            /\ Len(Picked(events, 1 .. Len(events))) = 0
        BY <4>3, <2>2, PickedInterval
      <4>5. rest \in Seq(Events) /\ Len(rest) = 0
        BY <4>2, <4>4
      <4> QED
        BY <4>5
    <3>2. CASE after >= k
      <4>1. a \in Nat \ {0}
        BY <3>2, <1>1, <2>2
      <4>2. P = a .. Len(events)
        <5>1. m \in Nat /\ k \in Nat /\ after \in Nat /\ DOMAIN events = 1 .. m /\ Len(events) = m
          BY <1>1, <2>2
        <5>2. ASSUME NEW i \in 1 .. m
              PROVE  events[i].sequence > after <=> i >= a
          <6>1. events[i].sequence = k + i
            BY <2>3
          <6>2. k + i > after <=> i >= after - k + 1
            BY <5>1
          <6> QED
            BY <6>1, <6>2
        <5>3. a .. Len(events) = {i \in 1 .. m : i >= a}
          BY <4>1, <5>1
        <5> QED
          BY <5>1, <5>2, <5>3
      <4>3. rest = Picked(events, a .. Len(events))
        BY <4>2 DEF Retained
      <4> DEFINE j == IF a > Len(events) THEN 0 ELSE Len(events) - a + 1
      <4>4. /\ a + j = Len(events) + 1 \/ (j = 0 /\ a > Len(events))
            /\ j \in Nat
        BY <2>2, <4>1
      <4>6. /\ a = after - k + 1 /\ Len(log) = k + m /\ (j > 0 => a + j = m + 1)
            /\ Len(log) \in Nat /\ Len(events) = m
        BY <1>1, <2>2, <4>1, <4>4
      <4> HIDE DEF a, k, rest, j, m, after
      <4>5. /\ rest \in Seq(Events) /\ Len(rest) = j
            /\ \A n \in 1 .. j : rest[n] = events[a + n - 1]
        <5>1. a + j = Len(events) + 1 \/ (j = 0 /\ a > Len(events))
          BY <4>4
        <5>0. events \in Seq(Events) /\ j \in Nat /\ a \in Nat \ {0}
          BY <4>1, <4>4, <2>2
        <5>2. /\ Picked(events, a .. Len(events)) \in Seq(Events)
              /\ Len(Picked(events, a .. Len(events))) = j
              /\ \A n \in 1 .. j : Picked(events, a .. Len(events))[n] = events[a + n - 1]
          BY <5>0, <5>1, PickedInterval
        <5> QED
          BY <5>2, <4>3
      <4>7. /\ j > 0 => after + j = Len(log)
            /\ \A n \in 1 .. j : /\ a + n - 1 \in 1 .. m /\ k + (a + n - 1) = after + n
                                   /\ after + n <= Len(log)
        BY <1>1, <2>2, <4>1, <4>4, <4>6, Offsets
      <4>8. ASSUME NEW n \in 1 .. j
            PROVE  after + n <= Len(log) /\ rest[n] = log[after + n]
        <5>1. a + n - 1 \in 1 .. m /\ k + (a + n - 1) = after + n /\ after + n <= Len(log)
          BY <4>7
        <5>2. rest[n] = events[a + n - 1]
          BY <4>5
        <5>3. events[a + n - 1] = log[k + (a + n - 1)]
          BY <5>1, <2>2
        <5> QED
          BY <5>1, <5>2, <5>3
      <4> QED
        BY <4>4, <4>5, <4>7, <4>8
    <3> QED
      BY <2>4, <3>1, <3>2
  <2> HIDE DEF rest
  <2>6. size \in 0 .. Len(rest) /\ size \in Nat /\ (size < Len(rest) => size # 0)
    BY <1>1, <2>5
  <2>7. /\ page.after = after /\ page.more = (size < Len(rest)) /\ page.op = "events"
        /\ page.items = SubSeq(rest, 1, size)
    OBVIOUS
  <2>8. /\ page.items \in Seq(Events) /\ Len(page.items) = size
        /\ \A i \in 1 .. size : page.items[i] = rest[i]
    <3>1. \A i \in 1 .. size : rest[i] \in Events
      BY <2>5, <2>6, ElementOfSeq
    <3> HIDE DEF size
    <3>2. /\ SubSeq(rest, 1, size) \in Seq(Events)
          /\ Len(SubSeq(rest, 1, size)) = size
          /\ \A i \in 1 .. size : SubSeq(rest, 1, size)[i] = rest[i]
      BY <3>1, <2>6, SubSeqProperties
    <3> QED
      BY <3>2, <2>7
  <2> HIDE DEF page, size
  <2>9. TruePage(page, log)
    <3>1. ASSUME NEW i \in 1 .. Len(page.items)
          PROVE  after + i <= Len(log) /\ page.items[i] = log[after + i]
      BY <2>5, <2>6, <2>8
    <3>2. ASSUME page.more
          PROVE  page.items # <<>> /\ after + Len(page.items) < Len(log)
      <4>1. size < Len(rest) /\ size # 0 /\ size \in Nat /\ Len(page.items) = size
        BY <3>2, <2>6, <2>7, <2>8
      <4>2. after + Len(rest) = Len(log)
        BY <4>1, <2>5
      <4>3. page.items # <<>>
        BY <4>1, <2>8
      <4> QED
        BY <4>1, <4>2, <4>3, <1>1, <2>5
    <3> QED
      BY <1>1, <2>7, <2>8, <3>1, <3>2 DEF TruePage
  <2> QED
    BY <2>1, <2>7, <2>9
<1> QED
  BY <1>3, <1>4

LEMMA AskedInit == Init => Asked /\ PagesTrue
BY DEF Init, Asked, PagesTrue, Idle

LEMMA AskedNext == InCalls /\ EventsKept /\ Asked /\ [Next]_vars => Asked'
<1> SUFFICES ASSUME InCalls, EventsKept, Asked, [Next]_vars PROVE Asked'
  OBVIOUS
<1>1. ASSUME NEW c \in Clients, NEW req \in Requests, Call(c, req)
      PROVE  Asked'
  <2>1. request' = [request EXCEPT ![c] = req]
    BY <1>1 DEF Call
  <2>2. /\ req.op = "read" => req.after \in Nat /\ req.limit \in Nat \ {0}
        /\ req.op = "list" => req.offset \in Nat /\ req.limit \in Nat \ {0}
    <3>1. Limits \subseteq Nat \ {0} /\ Len(log) \in Nat
      BY LenProperties, BoundsAssumption DEF EventsKept, BoundsAssumption
    <3>2. CASE \E cmd \in Commands : req = Execute(cmd)
      BY <3>2 DEF Execute
    <3>3. CASE \E n \in 0..Len(log), lim \in Limits : req = ReadEvents(n, lim)
      BY <3>1, <3>3 DEF ReadEvents
    <3>4. ASSUME NEW k, NEW lim \in Limits, NEW n \in 0..(Len(Listed(k)) + 1),
                 req = List(k, n, lim)
          PROVE  req.op = "list" /\ req.offset \in Nat /\ req.limit \in Nat \ {0}
      <4>1. Len(Listed(k)) \in Nat
        BY ListedLength
      <4>2. n \in Nat /\ lim \in Nat \ {0}
        BY <3>1, <4>1
      <4> QED
        BY <3>4, <4>2 DEF List
    <3>5. CASE \E k : \E lim \in Limits : \E n \in 0..(Len(Listed(k)) + 1) : req = List(k, n, lim)
      BY <3>4, <3>5
    <3> QED
      BY <3>2, <3>3, <3>5 DEF Requests
  <2> QED
    BY <2>1, <2>2 DEF Asked, InCalls
<1>2. ASSUME NEW c \in Clients, request' = [request EXCEPT ![c] = Idle]
      PROVE  Asked'
  BY <1>2 DEF Asked, InCalls, Idle
<1>3. CASE request' = request
  BY <1>3 DEF Asked
<1> QED
  BY <1>1, <1>2, <1>3
     DEF Next, vars, Reject, Rejected, EndContext, GiveUp, ReplayCommand, RefuseCommand,
         ApplyCommand, Effect, ListResources, ReadPage, Answer

(* An answer is a page that is true, or no page, and leaves what the other *)
(* clients were told.                                                      *)
LEMMA PagesAnswered ==
  ASSUME InCalls, PagesTrue, NEW c \in Clients, NEW r, result' = [result EXCEPT ![c] = r],
         r.op = "page" => TrueListing(r, versions'),
         r.op = "events" => TruePage(r, log'),
         Continues(versions', versions), Continues(log', log)
  PROVE  PagesTrue'
<1> SUFFICES ASSUME NEW d \in Clients
             PROVE  /\ result'[d].op = "page" => TrueListing(result'[d], versions')
                    /\ result'[d].op = "events" => TruePage(result'[d], log')
  BY DEF PagesTrue
<1>1. CASE d = c
  BY <1>1 DEF InCalls
<1>2. CASE d # c
  <2>1. result'[d] = result[d]
    BY <1>2 DEF InCalls
  <2>2. ASSUME result[d].op = "page" PROVE TrueListing(result[d], versions')
    <3>1. TrueListing(result[d], versions)
      BY <2>2 DEF PagesTrue
    <3> QED
      BY <3>1, ListingStaysTrue
  <2>3. ASSUME result[d].op = "events" PROVE TruePage(result[d], log')
    <3>1. TruePage(result[d], log)
      BY <2>3 DEF PagesTrue
    <3> QED
      BY <3>1, PageStaysTrue
  <2> QED
    BY <2>1, <2>2, <2>3
<1> QED
  BY <1>1, <1>2

LEMMA PagesNext == IInv /\ EventsKept /\ Asked /\ PagesTrue /\ [Next]_vars => PagesTrue'
<1> SUFFICES ASSUME IInv, EventsKept, Asked, PagesTrue, [Next]_vars PROVE PagesTrue'
  OBVIOUS
<1>0. InCalls /\ Len(versions) \in Nat /\ Len(log) \in Nat
  BY LenProperties DEF IInv, InStep, EventsKept
<1>1. ASSUME UNCHANGED history, NEW c \in Clients, NEW r, result' = [result EXCEPT ![c] = r],
             r.op = "page" => TrueListing(r, versions),
             r.op = "events" => TruePage(r, log)
      PROVE  PagesTrue'
  <2>1. versions' = versions /\ log' = log
    BY <1>1 DEF history
  <2>2. /\ r.op = "page" => TrueListing(r, versions')
        /\ r.op = "events" => TruePage(r, log')
    BY <1>1, <2>1
  <2>3. Continues(versions', versions) /\ Continues(log', log)
    BY <1>0, <2>1 DEF Continues
  <2> QED
    BY <1>0, <1>1, <2>2, <2>3, PagesAnswered
<1>2. ASSUME NEW c \in Clients, NEW req \in Requests, Call(c, req) \/ Reject(c, req)
      PROVE  PagesTrue'
  <2>1. \/ result' = [result EXCEPT ![c] = Idle]
        \/ \E code \in Codes : result' = [result EXCEPT ![c] = Failure(code)]
    BY <1>2 DEF Call, Reject, Rejected, Codes
  <2>2. UNCHANGED history
    BY <1>2 DEF Call, Reject, Rejected
  <2> QED
    BY <1>1, <2>1, <2>2 DEF Idle, Failure
<1>3. ASSUME NEW c \in Clients, GiveUp(c) \/ ReplayCommand(c) \/ RefuseCommand(c)
      PROVE  PagesTrue'
  <2>1. UNCHANGED history
    BY <1>3 DEF GiveUp, ReplayCommand, RefuseCommand
  <2>2. PICK r : result' = [result EXCEPT ![c] = r] /\ r.op \in {"failure", "receipt"}
    <3>1. \A code : Failure(code).op = "failure"
      BY DEF Failure
    <3>2. \A cmd, how, rec : Receipt(cmd, how, rec).op = "receipt"
      BY DEF Receipt
    <3>3. CASE GiveUp(c)
      BY <3>1, <3>3 DEF GiveUp, Answer
    <3>4. CASE ReplayCommand(c)
      <4> DEFINE cmd == request[c].command
                 r == IF receipts[cmd.key].fingerprint = Fingerprint(cmd)
                      THEN Receipt(cmd, "Replayed", receipts[cmd.key]) ELSE Failure("Conflict")
      <4>1. Answer(c, r)
        BY <3>4 DEF ReplayCommand
      <4>2. r.op \in {"failure", "receipt"}
        BY <3>1, <3>2
      <4> HIDE DEF r
      <4> QED
        BY <4>1, <4>2 DEF Answer
    <3>5. CASE RefuseCommand(c)
      BY <3>1, <3>5 DEF RefuseCommand, Answer
    <3> QED
      BY <1>3, <3>3, <3>4, <3>5
  <2> QED
    BY <1>1, <2>1, <2>2
<1>4. ASSUME NEW c \in Clients, ListResources(c)
      PROVE  PagesTrue'
  <2>1. UNCHANGED history
    BY <1>4 DEF ListResources
  <2>2. PICK r : /\ Answer(c, r)
                 /\ r.op \in {"failure", "page"}
                 /\ r.op = "page" => TrueListing(r, versions)
    BY <1>4, ListingTrue
  <2>3. result' = [result EXCEPT ![c] = r] /\ r.op # "events"
    BY <2>2 DEF Answer
  <2> QED
    BY <1>1, <2>1, <2>2, <2>3
<1>5. ASSUME NEW c \in Clients, ReadPage(c)
      PROVE  PagesTrue'
  <2>1. UNCHANGED history
    BY <1>5 DEF ReadPage
  <2>2. PICK r : /\ Answer(c, r)
                 /\ r.op \in {"failure", "events"}
                 /\ r.op = "events" => TruePage(r, log)
    BY <1>5, PageTrue
  <2>3. result' = [result EXCEPT ![c] = r] /\ r.op # "page"
    BY <2>2 DEF Answer
  <2> QED
    BY <1>1, <2>1, <2>2, <2>3
<1>6. ASSUME NEW c \in Clients, ApplyCommand(c)
      PROVE  PagesTrue'
  <2>1. PICK ev, r : log' = Append(log, ev) /\ ev \in Events
                     /\ result' = [result EXCEPT ![c] = r] /\ r.op = "receipt"
    <3> DEFINE cmd == request[c].command
               e   == [sequence |-> nextEvent, resource |-> cmd.target,
                       revision |-> revision[cmd.target] + 1, payload |-> Payload(cmd, nextCommand)]
               rec == [fingerprint |-> Fingerprint(cmd), id |-> nextCommand,
                       revision |-> revision[cmd.target] + 1]
    <3>1. log' = Append(log, e) /\ Answer(c, Receipt(cmd, "Applied", rec))
      BY <1>6 DEF ApplyCommand, Effect
    <3>2. e \in Events
      <4>1. cmd.target \in Targets
        BY <1>6, NotRefused DEF ApplyCommand
      <4>2. revision[cmd.target] \in Nat /\ nextEvent \in Nat /\ nextCommand \in Nat
        BY <1>0, <4>1, LenProperties DEF IInv, InStep, EventsKept, Revisions
      <4>3. cmd \in Commands
        BY <1>0, <1>6, ApplyFacts DEF IInv
      <4>4. Payload(cmd, nextCommand) \in Payloads
        BY <4>2, <4>3 DEF Payloads
      <4> QED
        BY <4>1, <4>2, <4>4 DEF Events
    <3>3. result' = [result EXCEPT ![c] = Receipt(cmd, "Applied", rec)]
          /\ Receipt(cmd, "Applied", rec).op = "receipt"
      BY <3>1 DEF Answer, Receipt
    <3> QED
      BY <3>1, <3>2, <3>3
  <2>2. /\ Len(log') = Len(log) + 1 /\ \A i \in 1 .. Len(log) : log'[i] = log[i]
    BY <2>1, AppendProperties DEF EventsKept
  <2>3. /\ Len(versions') = Len(versions) + 1
        /\ \A i \in 1 .. Len(versions) : versions'[i] = versions[i]
    BY <1>6, ApplyFacts DEF IInv, InStep
  <2>4. Continues(versions', versions) /\ Continues(log', log)
    BY <1>0, <2>2, <2>3 DEF Continues
  <2>5. /\ r.op = "page" => TrueListing(r, versions')
        /\ r.op = "events" => TruePage(r, log')
    BY <2>1
  <2> QED
    BY <1>0, <2>1, <2>4, <2>5, PagesAnswered
<1>7. ASSUME UNCHANGED <<result, history>>
      PROVE  PagesTrue'
  BY <1>7 DEF PagesTrue, history
<1> QED
  BY <1>2, <1>3, <1>4, <1>5, <1>6, <1>7 DEF Next, vars, EndContext

LEMMA PagesKept == Spec => [](EventsKept /\ PagesTrue)
<1>1. IInv => InCalls
  BY DEF IInv
<1>2. Spec => []EventsKept
  BY EventsInit, EventsNext, Invariance, PTL DEF Spec
<1>3. Spec => []Asked
  BY <1>1, <1>2, AskedInit, AskedNext, Invariance, PTL DEF Spec
<1> QED
  BY <1>2, <1>3, AskedInit, PagesNext, Invariance, PTL DEF Spec

(* Two pages of one listing with one snapshot_revision fit together: what  *)
(* list_resources() returned is how the resources were at that revision,   *)
(* whatever execute() did between the two calls.                           *)
THEOREM PagesAreSnapshots == Spec => []PagesShowTheirSnapshot
<1>1. PagesTrue => PagesShowTheirSnapshot
  BY DEF PagesTrue, TrueListing, PagesShowTheirSnapshot
<1> QED
  BY <1>1, PagesKept, PTL

(* A reader that read_events() did not tell of a gap has missed nothing:   *)
(* its page is the events that follow the number it asked for, however     *)
(* many were dropped meanwhile, and it is told when there is more.         *)
THEOREM ReadersMissNothing == Spec => []NoSilentGap
<1>1. EventsKept /\ PagesTrue => NoSilentGap
  <2> SUFFICES ASSUME EventsKept, PagesTrue, NEW c \in Clients, result[c].op = "events"
               PROVE  LET page == result[c]
                      IN /\ page.items = SubSeq(log, page.after + 1, page.after + Len(page.items))
                         /\ page.more => page.items # <<>>
                                         /\ page.after + Len(page.items) < Len(log)
    BY DEF NoSilentGap
  <2> DEFINE n     == result[c].after
             items == result[c].items
             t     == SubSeq(log, n + 1, n + Len(items))
  <2>1. /\ n \in Nat /\ items \in Seq(Events) /\ Len(items) \in Nat /\ Len(log) \in Nat
        /\ log \in Seq(Events)
        /\ \A i \in 1 .. Len(items) : n + i <= Len(log) /\ items[i] = log[n + i]
        /\ result[c].more => items # <<>> /\ n + Len(items) < Len(log)
    BY LenProperties DEF PagesTrue, TruePage, EventsKept
  <2> HIDE DEF n, items
  <2>2. ASSUME NEW i \in n + 1 .. n + Len(items)
        PROVE  log[i] \in Events
    <3>1. i - n \in 1 .. Len(items) /\ n + (i - n) = i
      BY <2>1
    <3>2. i \in 1 .. Len(log)
      BY <2>1, <3>1
    <3> QED
      BY <2>1, <3>2, ElementOfSeq
  <2> DEFINE lo == n + 1
             hi == n + Len(items)
  <2>3. lo \in Int /\ hi \in Int /\ lo - 1 = n /\ hi - lo + 1 = Len(items)
    BY <2>1
  <2>4. \A i \in lo .. hi : log[i] \in Events
    BY <2>2
  <2> HIDE DEF lo, hi
  <2>5. /\ SubSeq(log, lo, hi) \in Seq(Events)
        /\ Len(SubSeq(log, lo, hi)) = IF lo <= hi THEN hi - lo + 1 ELSE 0
        /\ \A i \in 1 .. hi - lo + 1 : SubSeq(log, lo, hi)[i] = log[lo + i - 1]
    BY <2>3, <2>4, SubSeqProperties
  <2>6. t = SubSeq(log, lo, hi)
    BY DEF lo, hi
  <2> HIDE DEF t
  <2>7. /\ t \in Seq(Events) /\ Len(t) = Len(items)
        /\ \A i \in 1 .. Len(items) : t[i] = items[i]
    <3>1. Len(t) = Len(items)
      BY <2>1, <2>3, <2>5, <2>6
    <3>2. ASSUME NEW i \in 1 .. Len(items)
          PROVE  t[i] = items[i]
      <4>1. lo + i - 1 = n + i
        BY <2>1, <2>3
      <4> QED
        BY <2>1, <2>3, <2>5, <2>6, <4>1
    <3> QED
      BY <2>5, <2>6, <3>1, <3>2
  <2>8. items = t
    BY <2>1, <2>7, SeqEqual
  <2> QED
    BY <2>1, <2>8 DEF n, items, t
<1> QED
  BY <1>1, PagesKept, PTL
=============================================================================
