----------------------------- MODULE BoundedFifo -----------------------------
(***************************************************************************)
(* What the queues of queue/ promise their callers: a first-in first-out   *)
(* buffer that never holds more than Bound items.  out is the item handed  *)
(* over last.                                                              *)
(***************************************************************************)
EXTENDS Naturals, Sequences

CONSTANTS Value,   \* what a caller may put in the buffer
          None,    \* "nothing was handed over yet"
          Bound    \* the largest number of items the buffer ever holds

VARIABLES items, out

vars == <<items, out>>

Init == items = <<>> /\ out = None

Put(v) == /\ Len(items) < Bound
          /\ items' = Append(items, v)
          /\ UNCHANGED out

Take == /\ items # <<>>
        /\ out' = Head(items)
        /\ items' = Tail(items)

Next == Take \/ \E v \in Value : Put(v)

Spec == Init /\ [][Next]_vars
=============================================================================
