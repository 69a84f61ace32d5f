------------------------------ MODULE LruCache ------------------------------
(***************************************************************************)
(* What least-recently-used replacement promises: whichever page is        *)
(* referenced next becomes the first in the order of last references, a    *)
(* resident one too, and the page referenced longest ago makes room for    *)
(* one that is not resident.  Every reference but one that repeats the     *)
(* reference before it, which asks for no change, is a step here.          *)
(***************************************************************************)
EXTENDS Naturals, Sequences, SequencesExt

CONSTANTS Page, capacity

VARIABLES
  recency,    \* the resident pages, the one referenced last first
  asked       \* the page of the last reference

LruCacheInit == recency = <<>> /\ asked \notin Page

Reuse(p) ==
  \E i \in 1 .. Len(recency) :
    /\ recency[i] = p
    /\ recency' = Cons(p, RemoveAt(recency, i))

Enter(p) ==
  /\ ~Contains(recency, p)
  /\ recency' = Cons(p, IF Len(recency) < capacity THEN recency
                        ELSE Front(recency))

Refers(p) == asked' = p /\ (Reuse(p) \/ Enter(p))

LruCacheSpec ==
  LruCacheInit /\ [][\E p \in Page : Refers(p)]_<<recency, asked>>
==============================================================================
