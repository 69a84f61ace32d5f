------------------------------ MODULE Simulator ------------------------------
(***************************************************************************)
(* The simulator of Assignment2 as main composes it (sim.c): the paging    *)
(* core with one of the five algorithms of algs[], chosen at the start.    *)
(* The state of the other algorithms stays as it is initialised.           *)
(***************************************************************************)
EXTENDS Clock, Lru, Opt

CONSTANT Algs       \* the values of -a that are used

ASSUME SimulatorAssumption == Algs \subseteq {"rand", "lru", "fifo", "clock", "opt"}

VARIABLE alg        \* replacement_alg

simVars == <<alg, core, index, refbit, list, latest, addrs, memory, cur>>

(* Only opt_init reads the trace before it is replayed. *)
Unread == [i \in Times |-> NoPage]

SimInit ==
  /\ alg \in Algs
  /\ ClockInit /\ LruInit /\ OptStart
  /\ addrs \in IF alg = "opt" THEN Traces ELSE {Unread}

fifoIdle  == UNCHANGED index
clockIdle == UNCHANGED refbit
lruIdle   == UNCHANGED <<list, latest>>
optIdle   == UNCHANGED <<addrs, memory, cur>>

(* init_fcn, ref_fcn and evict_fcn are those of one algorithm throughout. *)
SimNext ==
  /\ UNCHANGED alg
  /\ \/ alg = "rand"  /\ RandNext  /\ fifoIdle /\ clockIdle /\ lruIdle /\ optIdle
     \/ alg = "fifo"  /\ FifoNext  /\ clockIdle /\ lruIdle /\ optIdle
     \/ alg = "clock" /\ ClockNext /\ lruIdle /\ optIdle
     \/ alg = "lru"   /\ LruNext   /\ fifoIdle /\ clockIdle /\ optIdle
     \/ alg = "opt"   /\ OptNext   /\ fifoIdle /\ clockIdle /\ lruIdle

SimSpec == SimInit /\ [][SimNext]_simVars

------------------------------------------------------------------------------
(* Whatever the algorithm, every reference is a hit, a fill of a spare     *)
(* frame, or the replacement of exactly one page: evict_fcn is called only *)
(* when memory is full, and the algorithms change nothing of the page      *)
(* table and the coremap.                                                  *)
AllImplementCache == ImplementsCache

(* fifo: the round-robin index evicts the page that entered memory first,  *)
(* although frames are filled by allocate_frame's own scan.                *)
Queue == INSTANCE FifoCache WITH Page <- Pages, capacity <- memsize,
           queue <- IF alg = "fifo" THEN QueueOfFrames ELSE <<>>
FifoEvictsOldest == Queue!FifoCacheSpec

(* clock: the recursion of clock_evict, whose every level moves the hand   *)
(* once more, finds the first unreferenced page from the hand on; a page   *)
(* whose PG_REF is on is evicted only when a whole turn found no other, so *)
(* every referenced page has its chance; and the hand is left twice the    *)
(* frames passed, and one, further on.                                     *)
ClockVictim ==
  [][alg = "clock" => HandPassedReferenced /\ ChanceGiven /\ HandMovesOn]_simVars

(* lru: on a trace that names no page twice in a row, as fastslim.py       *)
(* writes them, each reference puts the page of its line first in lru's    *)
(* list, hits included, and lru_evict evicts the page whose last line in   *)
(* the trace is the oldest.                                                *)
Recency == INSTANCE LruCache WITH Page <- Pages, capacity <- memsize,
             recency <- IF alg = "lru" THEN PagesByRecency ELSE <<>>,
             asked   <- IF alg = "lru" THEN latest ELSE NoPage
LruEvictsLeastRecent == Recency!LruCacheSpec

(* lru: what lru_ref unlinks, frees and allocates again leaves one list of *)
(* live nodes, the same in both directions, with one node for each frame.  *)
LruListSound == alg = "lru" => ListSound

(* opt: memory[], which opt_ref updates one reference late, tells when     *)
(* each page is next referenced, but for the page referenced last.         *)
OptNextUseKnown == alg = "opt" => NextUseKnown

(* opt: the victim of opt_evict is one referenced last, setting aside the  *)
(* page referenced last before.                                            *)
OptEvictsLatest == [][alg = "opt" => LatestGoes]_simVars
==============================================================================
