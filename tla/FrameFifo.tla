----------------------------- MODULE FrameFifo -----------------------------
(***************************************************************************)
(* What a network interface promises the stack about a direction: frames   *)
(* come out whole, once, and in the order they went in; one that was put   *)
(* in may be given up before it comes out (there was no buffer for it),    *)
(* and nothing else is lost.                                               *)
(***************************************************************************)
EXTENDS Sequences

CONSTANTS Frames, Nothing

VARIABLES queue,  \* the frames put in and not yet out
          out     \* the frame that came out last

vars == <<queue, out>>

Init == queue = <<>> /\ out = Nothing

Put == \E f \in Frames : queue' = Append(queue, f) /\ UNCHANGED out

Take == /\ queue # <<>>
        /\ out' = Head(queue)
        /\ queue' = Tail(queue)

GiveUp == /\ queue # <<>>
          /\ queue' = Tail(queue)
          /\ UNCHANGED out

LossySpec == Init /\ [][Put \/ Take \/ GiveUp]_vars
=============================================================================
