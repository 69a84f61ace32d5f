----------------------------- MODULE DemandCache -----------------------------
(***************************************************************************)
(* What the simulator of Assignment2 promises about residency, whatever    *)
(* the replacement algorithm: a set of at most `capacity' pages is in      *)
(* memory; a reference to one of them is a hit and moves nothing; any      *)
(* other reference is a miss that brings exactly that page in, and pushes  *)
(* exactly one page out only when memory is full.                          *)
(***************************************************************************)
EXTENDS Naturals, FiniteSets

CONSTANTS Page,       \* the virtual pages of the trace
          capacity    \* number of page frames

VARIABLES resident,   \* the pages in memory
          hits,       \* references that found their page in memory
          misses,     \* references that did not
          evictions   \* pages pushed out

cacheVars == <<resident, hits, misses, evictions>>

CacheInit == resident = {} /\ hits = 0 /\ misses = 0 /\ evictions = 0

Reuse(p) ==
  /\ p \in resident
  /\ hits' = hits + 1
  /\ UNCHANGED <<resident, misses, evictions>>

Fill(p) ==
  /\ p \notin resident
  /\ Cardinality(resident) < capacity
  /\ resident' = resident \cup {p}
  /\ misses' = misses + 1
  /\ UNCHANGED <<hits, evictions>>

Replace(p, victim) ==
  /\ p \notin resident
  /\ Cardinality(resident) = capacity
  /\ resident' = (resident \ {victim}) \cup {p}
  /\ misses' = misses + 1
  /\ evictions' = evictions + 1
  /\ UNCHANGED hits

CacheNext ==
  \E p \in Page : Reuse(p) \/ Fill(p) \/ \E v \in resident : Replace(p, v)

CacheSpec == CacheInit /\ [][CacheNext]_cacheVars
==============================================================================
