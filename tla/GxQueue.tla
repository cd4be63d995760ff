------------------------------- MODULE GxQueue -------------------------------
(***************************************************************************)
(* What the command ring of the D3D9 render thread promises the client:    *)
(* the device receives the calls in the order in which the client made     *)
(* them, each call once and with the arguments it was made with.           *)
(*                                                                         *)
(* A call is either queued, and executed later by the render thread, or    *)
(* made directly by the main thread.  A direct call may be made only when  *)
(* no queued call is outstanding.  The one licence the code takes is the   *)
(* abandoned drain (kDrainGiveUpMs): a direct call that is late, because   *)
(* it follows one, may overtake calls that are still queued.               *)
(***************************************************************************)
EXTENDS Integers, Sequences

CONSTANTS Payload,      \* the arguments a call can carry
          None          \* no call has reached the device yet

VARIABLES pending,      \* calls accepted and not executed, oldest first
          device,       \* the last call the device received
          alive,        \* the render thread has not faulted
          late          \* a drain was abandoned before the direct call due

vars == <<pending, device, alive>>

Init == pending = <<>> /\ device = None /\ alive = TRUE

Enqueue == /\ alive
           /\ Len(pending') = Len(pending) + 1
           /\ SubSeq(pending', 1, Len(pending)) = pending
           /\ pending'[Len(pending')] \in Payload
           /\ UNCHANGED <<device, alive>>

Execute == /\ pending # <<>>
           /\ device' = Head(pending)
           /\ pending' = Tail(pending)
           /\ UNCHANGED alive

Direct == /\ pending = <<>> \/ late
          /\ device' \in Payload
          /\ UNCHANGED <<pending, alive>>

\* The render thread faulted: what it had not executed is lost.
Abandon == alive /\ alive' = FALSE /\ pending' = <<>> /\ UNCHANGED device

Next == Enqueue \/ Execute \/ Direct \/ Abandon

Spec == Init /\ [][Next]_vars
=============================================================================
