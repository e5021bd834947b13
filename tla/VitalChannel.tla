---------------------------- MODULE VitalChannel ----------------------------
(***************************************************************************)
(* What a connection promises about NETSENDFLAG_VITAL messages, without    *)
(* sequence numbers, packets, acks or resends: each side queues messages   *)
(* 1, 2, 3, ... and the other side's application receives them in that     *)
(* order, each exactly once, never one that was not queued.                *)
(*                                                                         *)
(* The promise is conditional.  Once a message was queued while the resend *)
(* buffer had no room (CNetConnection::QueueChunkEx "hope nobody will ask  *)
(* for resend"), the stream of that sender is broken, and nothing is said  *)
(* about the order or the completeness of what arrives afterwards.         *)
(***************************************************************************)
EXTENDS Integers

CONSTANTS Server, Client

VARIABLES
  sent,     \* sent[p]: how many vital messages p has queued
  got,      \* got[p]: the number of the last message p's application received
  broken    \* broken[p]: p queued a message it could not keep for a resend

Peers == {Server, Client}

Other(p) == IF p = Server THEN Client ELSE Server

vars == <<sent, got, broken>>

Init ==
  /\ sent = [p \in Peers |-> 0]
  /\ got = [p \in Peers |-> 0]
  /\ broken = [p \in Peers |-> FALSE]

Queue(p) ==
  /\ sent' = [sent EXCEPT ![p] = @ + 1]
  /\ \E b \in BOOLEAN : broken' = [broken EXCEPT ![p] = @ \/ b]
  /\ UNCHANGED got

\* p's application receives the next message of the other side.
Deliver(p) ==
  /\ got[p] < sent[Other(p)]
  /\ got' = [got EXCEPT ![p] = @ + 1]
  /\ UNCHANGED <<sent, broken>>

\* The same, of a sender whose stream is broken: any message it queued.
DeliverBroken(p) ==
  /\ broken[Other(p)]
  /\ \E i \in 1 .. sent[Other(p)] : got' = [got EXCEPT ![p] = i]
  /\ UNCHANGED <<sent, broken>>

Next == \E p \in Peers : Queue(p) \/ Deliver(p) \/ DeliverBroken(p)

Spec == Init /\ [][Next]_vars
=============================================================================
