-------------------------------- MODULE Fifo --------------------------------
(***************************************************************************)
(* The `fifo' algorithm (fifo.c) over the paging core: one index that goes *)
(* round the frames stands for the queue of pages.                         *)
(***************************************************************************)
EXTENDS PageTable, Sequences

VARIABLE index      \* coremap->index: the next frame to evict

fifoVars == <<core, index>>

FifoInit == PageTableInit /\ index = 0

(* Mutated form: the index never moves on. *)
Stuck(i) == i

(* index++, reset to 0 at the end of the frames. *)
Advance(i) == IF i + 1 >= memsize THEN 0 ELSE i + 1

(* fifo_evict is called only when no frame is free; fifo_ref does nothing. *)
FifoEvict(p, t) == Miss(p, t, index) /\ index' = Advance(index)

FifoNext ==
  \E p \in Pages, t \in AccessTypes :
    /\ count.ref < TraceLen
    /\ \/ Hit(p, t) /\ UNCHANGED index
       \/ MissFree(p, t) /\ UNCHANGED index
       \/ FifoEvict(p, t)

FifoSpec == FifoInit /\ [][FifoNext]_fifoVars

------------------------------------------------------------------------------
(* The pages in memory from the index on, round the frames in use. *)
QueueOfFrames ==
  [i \in 1 .. Cardinality(Frames \ FreeFrames) |->
     coremap[(index + i - 1) % memsize]]
==============================================================================
