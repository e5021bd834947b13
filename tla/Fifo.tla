-------------------------------- MODULE Fifo --------------------------------
(***************************************************************************)
(* What a CRingBufferBase without FLAG_RECYCLE promises its owner: items   *)
(* come out (First, PopFirst) in the order they went in (Allocate), none   *)
(* is lost or changed in between; Init empties it.  An Allocate that finds *)
(* no room leaves everything as it is.                                     *)
(***************************************************************************)
EXTENDS Sequences

CONSTANT Values

VARIABLE queue

Init == queue = <<>>

Put == \E v \in Values : queue' = Append(queue, v)

Get == queue # <<>> /\ queue' = Tail(queue)

Clear == queue' = <<>>

Next == Put \/ Get \/ Clear

Spec == Init /\ [][Next]_queue
=============================================================================
