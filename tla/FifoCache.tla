------------------------------ MODULE FifoCache ------------------------------
(***************************************************************************)
(* What first-in-first-out replacement promises: pages leave memory in the *)
(* order in which they entered it, and a hit does not change that order.   *)
(***************************************************************************)
EXTENDS Naturals, Sequences

CONSTANTS Page, capacity

VARIABLE queue      \* the resident pages, the oldest first

FifoCacheInit == queue = <<>>

Resident == {queue[i] : i \in 1 .. Len(queue)}

Enter(p) ==
  /\ p \notin Resident
  /\ Len(queue) < capacity
  /\ queue' = Append(queue, p)

Cycle(p) ==
  /\ p \notin Resident
  /\ Len(queue) = capacity
  /\ queue' = Append(Tail(queue), p)

FifoCacheSpec ==
  FifoCacheInit /\ [][\E p \in Page : Enter(p) \/ Cycle(p)]_queue
==============================================================================
