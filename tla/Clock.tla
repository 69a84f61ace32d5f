-------------------------------- MODULE Clock --------------------------------
(***************************************************************************)
(* The `clock' algorithm (clock.c) over the paging core, with the PG_REF   *)
(* bits that find_physpage and clock.c write.  The hand is the index that  *)
(* fifo.c uses as well, and goes round the frames in the same way.         *)
(***************************************************************************)
EXTENDS Fifo

VARIABLE refbit     \* PG_REF of each page's entry

clockVars == <<core, index, refbit>>

ClockInit == FifoInit /\ refbit = [p \in Pages |-> FALSE]

Unreference(ref, p) == [ref EXCEPT ![p] = FALSE]

(* Mutated form: a level that only forwarded the victim leaves the hand. *)
Forwarded(rest) == rest

Returned(rest) == [rest EXCEPT !.index = Advance(@)]

(* clock_evict, recursion included: a referenced candidate loses its bit   *)
(* and the search goes on from the next frame; every level, the one that   *)
(* found the victim and those that only forwarded it, moves the hand again *)
(* before it returns.                                                      *)
clock_evict(hand, bits) ==
  LET search[s \in [index : Frames, ref : [Pages -> BOOLEAN]]] ==
        LET here == coremap[s.index]
        IN  IF s.ref[here]
            THEN Returned(search[[index |-> Advance(s.index),
                                  ref   |-> Unreference(s.ref, here)]])
            ELSE [evict |-> s.index, index |-> Advance(s.index), ref |-> s.ref]
  IN  search[[index |-> hand, ref |-> bits]]

(* find_physpage sets PG_REF of the page that is accessed; clock_ref then  *)
(* sets it for the page under the hand, whatever page was passed to it.    *)
Reference(p, ref) == refbit' = [ref EXCEPT ![p] = TRUE, ![coremap'[index']] = TRUE]

ClockHit(p, t) ==
  Hit(p, t) /\ UNCHANGED index /\ Reference(p, refbit)

ClockFill(p, t) ==
  MissFree(p, t) /\ UNCHANGED index /\ Reference(p, refbit)

ClockEvict(p, t) ==
  /\ FreeFrames = {}
  /\ LET choice == clock_evict(index, refbit)
     IN  /\ Miss(p, t, choice.evict)
         /\ index' = choice.index
         /\ Reference(p, choice.ref)

ClockNext ==
  \E p \in Pages, t \in AccessTypes :
    /\ count.ref < TraceLen
    /\ ClockHit(p, t) \/ ClockFill(p, t) \/ ClockEvict(p, t)

ClockSpec == ClockInit /\ [][ClockNext]_clockVars

------------------------------------------------------------------------------
(* Second chance: a page whose reference bit is on is evicted only when    *)
(* the bits of all the resident pages are on, and then it is the page the  *)
(* hand points at, after a whole turn.                                     *)
ChanceGiven ==
  \A q \in Pages : Evicted(q) /\ refbit[q] =>
    /\ \A r \in Pages : pte[r].valid => refbit[r]
    /\ q = coremap[index]

(* The victim is the first unreferenced page from the hand on: everything  *)
(* the hand passed to reach it was referenced.  This is the reference      *)
(* definition of the clock algorithm, against the recursion of the code.   *)
HandPassedReferenced ==
  \A f \in Frames : FreeFrames = {} /\ Evicted(coremap[f]) /\ ~refbit[coremap[f]] =>
    \A k \in 0 .. ((f - index) % memsize) - 1 :
      refbit[coremap[(index + k) % memsize]]

(* The recursion moves the hand once on the way down and once more on the  *)
(* way back for each frame it passes, and once past the victim: after an   *)
(* eviction the hand is twice the frames it passed, and one, further on,   *)
(* and not on the frame after the victim as in the textbook's clock.       *)
HandMovesOn ==
  \A f \in Frames : FreeFrames = {} /\ Evicted(coremap[f]) =>
    LET passed == IF refbit[coremap[f]] THEN memsize ELSE (f - index) % memsize
    IN  index' = (index + 2 * passed + 1) % memsize

(* PG_REF is `set if page has been referenced' (pagetable.h:15): the bit   *)
(* goes on only for the page whose reference is being served.              *)
OnlyReferencedPagesMarked ==
  [][\A q \in Pages : ~refbit[q] /\ refbit'[q] /\ pte[q].valid =>
       \E p \in Pages : p = q /\ \E t \in AccessTypes : Hit(p, t)]_clockVars
==============================================================================
