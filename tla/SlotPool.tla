------------------------------ MODULE SlotPool ------------------------------
(***************************************************************************)
(* What the swap bitmap promises: a pool of numbered slots.  A request     *)
(* gets a slot nobody has, and is refused only when every slot is taken.   *)
(***************************************************************************)
EXTENDS Naturals

CONSTANT Refused

VARIABLES size,     \* the pool is the slots 0 .. size - 1
          taken,    \* slots in use
          answer    \* what the last request was answered

slotVars == <<size, taken, answer>>

Pool == 0 .. size - 1

PoolInit == size \in Nat /\ taken = {} /\ answer = Refused

Take   == \E s \in Pool \ taken : taken' = taken \cup {s} /\ answer' = s
Refuse == taken = Pool /\ answer' = Refused /\ UNCHANGED taken
Claim  == \E s \in Pool \ taken : taken' = taken \cup {s} /\ UNCHANGED answer
Return == \E s \in taken : taken' = taken \ {s} /\ UNCHANGED answer

PoolSpec ==
  PoolInit /\ [][UNCHANGED size /\ (Take \/ Refuse \/ Claim \/ Return)]_slotVars
==============================================================================
