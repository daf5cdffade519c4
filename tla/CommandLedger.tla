--------------------------- MODULE CommandLedger ----------------------------
(***************************************************************************)
(* What a PBX session promises to those who send it commands, stated        *)
(* without resources, revisions, receipts, events or locks: the commands    *)
(* that took effect form a ledger that only grows, with each idempotency    *)
(* key in it at most once, and every successful answer for a key names the  *)
(* key's one place in it.                                                   *)
(* Abstract counterpart of module PbxSession.                               *)
(***************************************************************************)
EXTENDS Naturals, Sequences

CONSTANTS Clients, Keys, Bound   \* Bound: how many keys a session remembers

VARIABLES ledger,   \* keys in the order their commands took effect
          reply     \* each client's latest answer: <<key, place>>, or <<>>

vars == <<ledger, reply>>

Places(k) == {i \in 1..Len(ledger) : ledger[i] = k}

Init == /\ ledger = <<>>
        /\ reply = [c \in Clients |-> <<>>]

\* The first command with key k takes effect.
Apply(c, k) ==
  /\ Places(k) = {}
  /\ Len(ledger) < Bound
  /\ ledger' = Append(ledger, k)
  /\ reply' = [reply EXCEPT ![c] = <<k, Len(ledger) + 1>>]

\* Any later one is told where the first one is.
Replay(c, k) ==
  /\ \E i \in Places(k) : reply' = [reply EXCEPT ![c] = <<k, i>>]
  /\ UNCHANGED ledger

\* A refusal, or the answer to another question, changes nothing.
Decline(c) ==
  /\ reply' = [reply EXCEPT ![c] = <<>>]
  /\ UNCHANGED ledger

Next == \E c \in Clients : \/ \E k \in Keys : Apply(c, k) \/ Replay(c, k)
                           \/ Decline(c)

Spec == Init /\ [][Next]_vars
=============================================================================
