---------------------------- MODULE TransmitFifo ----------------------------
(***************************************************************************)
(* What the transmit side of the network interface promises: frames leave  *)
(* once and in the order they were accepted, with one exception.  The      *)
(* queue holds Capacity frames; one that is sent when it is full takes the *)
(* place of the oldest, which is lost (or Torn, if it was on its way out). *)
(* After that the send may be refused, or may be granted because a frame   *)
(* has left meanwhile: then Put adds the frame once more, and it leaves    *)
(* twice.  Nothing else is lost, repeated or changed.                      *)
(***************************************************************************)
EXTENDS FrameFifo, Naturals

CONSTANTS Capacity, Torn

\* A frame is copied over the oldest one in a full queue.
Replace == /\ Len(queue) = Capacity
           /\ \E f \in Frames \cup {Torn} : queue' = <<f>> \o Tail(queue)
           /\ UNCHANGED out

ReplacingSpec == Init /\ [][Put \/ Take \/ Replace]_vars
=============================================================================
