---------------------------- MODULE BoundedQueue ----------------------------
(***************************************************************************)
(* What a fifo promises: values leave in the order in which they came, and *)
(* there are never more of them than it has room for.                      *)
(***************************************************************************)
EXTENDS Sequences, Naturals

CONSTANTS Capacity, Values

VARIABLES
  queue,  \* the values inside
  taken   \* the values that the last call took

vars == <<queue, taken>>

Init == queue = <<>> /\ taken = <<>>

Put(values) ==
  /\ Len(queue) + Len(values) <= Capacity
  /\ queue' = queue \o values
  /\ UNCHANGED taken

Take(n) ==
  /\ n <= Len(queue)
  /\ taken' = SubSeq(queue, 1, n)
  /\ queue' = SubSeq(queue, n + 1, Len(queue))

Drop(n) ==
  /\ n <= Len(queue)
  /\ taken' = <<>>
  /\ queue' = SubSeq(queue, n + 1, Len(queue))

Clear == queue' = <<>> /\ UNCHANGED taken

Next ==
  \/ \E n \in 1..Capacity : \E values \in [1..n -> Values] : Put(values)
  \/ \E n \in 1..Capacity : Take(n)
  \/ \E n \in 0..Capacity : Drop(n)
  \/ Clear

Spec == Init /\ [][Next]_vars
=============================================================================
