---------------------------- MODULE BoundedFifo ----------------------------
(***************************************************************************)
(* What the keyboard buffer promises: scancodes come out in the order they *)
(* went in; one that arrives while Capacity are waiting is dropped, and    *)
(* nothing already accepted is ever lost, reordered or duplicated.         *)
(***************************************************************************)
EXTENDS Naturals, Sequences

CONSTANTS Capacity, Items, None

VARIABLES queue,   \* accepted and not yet taken, oldest first
          popped   \* the latest answer of Take

vars == <<queue, popped>>

Init == queue = <<>> /\ popped = None

Offer(s) ==
  /\ queue' = IF Len(queue) < Capacity THEN Append(queue, s) ELSE queue
  /\ UNCHANGED popped

Take ==
  IF queue = <<>>
  THEN popped' = None /\ UNCHANGED queue
  ELSE popped' = Head(queue) /\ queue' = Tail(queue)

Next == Take \/ \E s \in Items : Offer(s)

Spec == Init /\ [][Next]_vars
=============================================================================
