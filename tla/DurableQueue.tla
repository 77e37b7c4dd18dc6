----------------------------- MODULE DurableQueue -----------------------------
(***************************************************************************)
(* What a live session's persistence promises its callers                  *)
(* (packages/session/session-persistence/src/write-behind.ts): admitted    *)
(* events become durable in order, durability is never taken back, and a   *)
(* flush resolves only over events that are durable.                       *)
(***************************************************************************)
EXTENDS Naturals

VARIABLES
  admitted,   \* events handed to the controller
  stored,     \* durable events, a prefix of the admitted ones
  acked       \* events a resolved flush vouched for

queue == <<admitted, stored, acked>>

Init == admitted = 0 /\ stored = 0 /\ acked = 0

Admit == admitted' = admitted + 1 /\ UNCHANGED <<stored, acked>>

Store ==
  /\ stored' \in Nat
  /\ stored < stored' /\ stored' <= admitted
  /\ UNCHANGED <<admitted, acked>>

Ack ==
  /\ acked' \in Nat
  /\ acked <= acked' /\ acked' <= stored
  /\ UNCHANGED <<admitted, stored>>

Next == Admit \/ Store \/ Ack

Spec == Init /\ [][Next]_queue
=============================================================================
