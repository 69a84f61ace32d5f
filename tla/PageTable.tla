------------------------------ MODULE PageTable ------------------------------
(***************************************************************************)
(* The demand-paging core of Assignment2: pagetable.c (page table, coremap *)
(* and frame allocation), the swap file of swap.c and access_mem of sim.c, *)
(* under the `rand' algorithm, whose victim is any frame.  The other       *)
(* algorithms reuse these actions and choose the victim their own way.     *)
(*                                                                         *)
(* One reference of the trace is one action: the simulator is sequential.  *)
(* PG_REF is written here but read by clock.c alone: module Clock has it.  *)
(***************************************************************************)
EXTENDS Integers, FiniteSets

CONSTANTS Pages,        \* the page-aligned addresses of the trace
          NoPage,       \* a null pte pointer; also `no page copied here'
          memsize,      \* number of page frames (-m)
          swapsize,     \* number of page slots of the swap file (-s)
          AccessTypes,  \* the reference types the trace uses
          TraceLen      \* bound: number of lines of the trace

ASSUME PageTableAssumption ==
  /\ NoPage \notin Pages
  /\ memsize \in Nat \ {0}
  /\ swapsize \in Nat
  /\ AccessTypes \subseteq {"I", "L", "S", "M"}
  /\ TraceLen \in Nat

VARIABLES
  pte,       \* page table entry of each page
  coremap,   \* the page each frame holds (NoPage: in_use is 0)
  physmem,   \* content of each frame
  swapmap,   \* the bits set in the bitmap of swap slots
  swapfile,  \* content of each swap slot
  count      \* hit_count, miss_count, ref_count, evict_*_count

core == <<pte, coremap, physmem, swapmap, swapfile, count>>

Frames == 0 .. memsize - 1
Slots  == 0 .. swapsize - 1
INVALID_SWAP == -1

Content == [vaddr : Pages \cup {NoPage}, version : Nat]
Blank   == [vaddr |-> NoPage, version |-> 0]
Entry   == [frame : Frames, valid : BOOLEAN, dirty : BOOLEAN,
            onswap : BOOLEAN, swap_off : Slots \cup {INVALID_SWAP}]
Counters == [hit : Nat, miss : Nat, ref : Nat, clean : Nat, dirty : Nat]

(* What find_physpage, allocate_frame and swap_pageout leave in the page   *)
(* table, the coremap, the bitmap and the swap file, failed writes         *)
(* included: frame numbers and slots in range, counters that never wrap.   *)
TypeOK ==
  /\ pte \in [Pages -> Entry]
  /\ coremap \in [Frames -> Pages \cup {NoPage}]
  /\ physmem \in [Frames -> Content]
  /\ swapmap \subseteq Slots
  /\ swapfile \in [Slots -> Content]
  /\ count \in Counters

(* An entry as init_second_level leaves it: no flag, no swap slot. *)
NewEntry == [frame |-> 0, valid |-> FALSE, dirty |-> FALSE,
             onswap |-> FALSE, swap_off |-> INVALID_SWAP]

PageTableInit ==
  /\ pte = [p \in Pages |-> NewEntry]
  /\ coremap = [f \in Frames |-> NoPage]
  /\ physmem = [f \in Frames |-> Blank]
  /\ swapmap = {}
  /\ swapfile = [s \in Slots |-> Blank]
  /\ count = [hit |-> 0, miss |-> 0, ref |-> 0, clean |-> 0, dirty |-> 0]

Lowest(S) == CHOOSE i \in S : \A j \in S : i <= j
FreeFrames == {f \in Frames : coremap[f] = NoPage}

(* Mutated forms: one slot too many; a slot in use handed out again. *)
OneSlotTooMany == (0 .. swapsize) \ swapmap
AnySlot == Slots

FreeSlots  == Slots \ swapmap
Writes(t)  == t \in {"S", "M"}

------------------------------------------------------------------------------
(* swap_pageout(frame, swap_offset): the outcomes it can have.  A page     *)
(* that has no slot yet claims the lowest free one; with none left nothing *)
(* is written.  A failed seek or a short write is reported as INVALID_SWAP *)
(* after the slot has been claimed, and may leave the slot torn.           *)
PageOut(f, off) ==
  LET slot    == IF off = INVALID_SWAP THEN Lowest(FreeSlots) ELSE off
      claimed == swapmap \cup {slot}
      Put(c)  == [swapfile EXCEPT ![slot] = c]
  IN  IF off = INVALID_SWAP /\ FreeSlots = {}
      THEN {[offset |-> INVALID_SWAP, map |-> swapmap, file |-> swapfile]}
      ELSE {[offset |-> slot, map |-> claimed, file |-> Put(physmem[f])],
            [offset |-> INVALID_SWAP, map |-> claimed, file |-> swapfile],
            [offset |-> INVALID_SWAP, map |-> claimed, file |-> Put(Blank)]}

(* Mutated forms: PG_ONSWAP set without looking at the result of the       *)
(* write; PG_VALID of the victim left on after a failed write.             *)
OnSwapAnyway(e, o) ==
  [e EXCEPT !.valid = FALSE, !.onswap = TRUE,
            !.swap_off = IF o.offset = INVALID_SWAP THEN @ ELSE o.offset]
StillValid(e, o) ==
  IF o.offset = INVALID_SWAP
  THEN e
  ELSE [e EXCEPT !.valid = FALSE, !.onswap = TRUE, !.swap_off = o.offset]

(* The victim's entry after a dirty eviction with outcome o. *)
SwappedOut(e, o) ==
  IF o.offset = INVALID_SWAP
  THEN [e EXCEPT !.valid = FALSE]
  ELSE [e EXCEPT !.valid = FALSE, !.onswap = TRUE, !.swap_off = o.offset]

(* p->frame = frame << PAGE_SHIFT replaces the whole word: every flag of   *)
(* the old entry goes, PG_ONSWAP included; swap_off is another field.      *)
Placed(e, f) == [NewEntry EXCEPT !.frame = f, !.swap_off = e.swap_off]

(* Mutated form: only a store dirties the page, not a modify. *)
StoreOnly(e, t) == [e EXCEPT !.valid = TRUE, !.dirty = @ \/ t = "S"]

(* The flags find_physpage sets on the way out. *)
Marked(e, t) == [e EXCEPT !.valid = TRUE, !.dirty = @ \/ Writes(t)]

(* Mutated form: init_frame clears the frame after writing the address. *)
ClearedAfter(p, e, file) == IF e.onswap THEN file[e.swap_off] ELSE Blank

(* What find_physpage puts in the frame: the swap copy of a page on swap,  *)
(* else a zeroed frame that records the address (init_frame).              *)
Filled(p, e, file) ==
  IF e.onswap THEN file[e.swap_off] ELSE [vaddr |-> p, version |-> 0]

(* access_mem increments the version word of the frame on a write. *)
Stored(c, t) == IF Writes(t) THEN [c EXCEPT !.version = @ + 1] ELSE c

(* The part every miss shares, once frame f is free for page p: pt and     *)
(* file are the page table and the swap file after the eviction, if any.   *)
Load(p, t, f, pt, file) ==
  LET e == Placed(pt[p], f)
  IN  /\ coremap' = [coremap EXCEPT ![f] = p]
      /\ pte' = [pt EXCEPT ![p] = Marked(e, t)]
      /\ physmem' = [physmem EXCEPT ![f] = Stored(Filled(p, e, file), t)]

Hit(p, t) ==
  /\ pte[p].valid
  /\ pte' = [pte EXCEPT ![p] = Marked(@, t)]
  /\ physmem' = [physmem EXCEPT ![pte[p].frame] = Stored(@, t)]
  /\ count' = [count EXCEPT !.hit = @ + 1, !.ref = @ + 1]
  /\ UNCHANGED <<coremap, swapmap, swapfile>>

MissFree(p, t) ==
  /\ ~pte[p].valid
  /\ FreeFrames # {}
  /\ Load(p, t, Lowest(FreeFrames), pte, swapfile)
  /\ count' = [count EXCEPT !.miss = @ + 1, !.ref = @ + 1]
  /\ UNCHANGED <<swapmap, swapfile>>

(* Mutated form: PG_VALID of a clean victim is left on. *)
CleanStays(p, t, f) ==
  /\ ~pte[p].valid
  /\ FreeFrames = {}
  /\ ~pte[coremap[f]].dirty
  /\ Load(p, t, f, pte, swapfile)
  /\ count' = [count EXCEPT !.miss = @ + 1, !.ref = @ + 1, !.clean = @ + 1]
  /\ UNCHANGED <<swapmap, swapfile>>

MissClean(p, t, f) ==
  /\ ~pte[p].valid
  /\ FreeFrames = {}
  /\ ~pte[coremap[f]].dirty
  /\ Load(p, t, f, [pte EXCEPT ![coremap[f]].valid = FALSE], swapfile)
  /\ count' = [count EXCEPT !.miss = @ + 1, !.ref = @ + 1, !.clean = @ + 1]
  /\ UNCHANGED <<swapmap, swapfile>>

(* Mutated form: a dirty eviction is counted only when the write succeeded. *)
MissDirtyIfWritten(p, t, f) ==
  /\ ~pte[p].valid
  /\ FreeFrames = {}
  /\ pte[coremap[f]].dirty
  /\ \E o \in PageOut(f, pte[coremap[f]].swap_off) :
       /\ Load(p, t, f, [pte EXCEPT ![coremap[f]] = SwappedOut(@, o)], o.file)
       /\ swapmap' = o.map
       /\ swapfile' = o.file
       /\ count' = [count EXCEPT !.miss = @ + 1, !.ref = @ + 1,
                     !.dirty = IF o.offset = INVALID_SWAP THEN @ ELSE @ + 1]

MissDirty(p, t, f) ==
  /\ ~pte[p].valid
  /\ FreeFrames = {}
  /\ pte[coremap[f]].dirty
  /\ \E o \in PageOut(f, pte[coremap[f]].swap_off) :
       /\ Load(p, t, f, [pte EXCEPT ![coremap[f]] = SwappedOut(@, o)], o.file)
       /\ swapmap' = o.map
       /\ swapfile' = o.file
  /\ count' = [count EXCEPT !.miss = @ + 1, !.ref = @ + 1, !.dirty = @ + 1]

(* allocate_frame with every frame in use: the page in frame f goes. *)
Miss(p, t, f) == MissClean(p, t, f) \/ MissDirty(p, t, f)

(* rand_evict: random() % memsize. *)
RandVictims == Frames

(* One line of the trace: access_mem(type, vaddr). *)
RandNext ==
  \E p \in Pages, t \in AccessTypes :
    /\ count.ref < TraceLen
    /\ \/ Hit(p, t)
       \/ MissFree(p, t)
       \/ \E f \in RandVictims : Miss(p, t, f)

Spec == PageTableInit /\ [][RandNext]_core

------------------------------------------------------------------------------
(* The page that a step puts out of memory. *)
Evicted(q) == pte[q].valid /\ ~pte'[q].valid

(* The page table and the coremap are inverse to each other: a frame in    *)
(* use is the frame of the valid entry it points back to, and a valid      *)
(* entry is the one its frame points back to.  allocate_frame and          *)
(* find_physpage each keep one half, in different functions.               *)
FramesMatch ==
  /\ \A f \in Frames : coremap[f] # NoPage =>
       pte[coremap[f]].valid /\ pte[coremap[f]].frame = f
  /\ \A p \in Pages : pte[p].valid => coremap[pte[p].frame] = p

(* The check of access_mem (sim.c:54) never fails: the frame a lookup      *)
(* returns holds the content of the page that was looked up.               *)
ContentMatches ==
  \A f \in Frames : coremap[f] # NoPage => physmem[f].vaddr = coremap[f]

(* A clean eviction drops nothing: a resident page whose PG_DIRTY is off   *)
(* has not been stored to since its frame was filled, and the converse.    *)
DirtyIffStored ==
  \A f \in Frames : coremap[f] # NoPage =>
    (pte[coremap[f]].dirty <=> physmem[f].version > 0)

(* Two pages never share a swap slot and a page's slot is marked in the    *)
(* bitmap, so no page can be overwritten in the swap file by another one.  *)
SlotsNotShared ==
  \A p \in Pages : pte[p].swap_off # INVALID_SWAP =>
    /\ pte[p].swap_off \in swapmap
    /\ \A q \in Pages : pte[q].swap_off = pte[p].swap_off => q = p

(* PG_ONSWAP tells the truth, even after a failed write: a page marked on  *)
(* swap is not in memory and its slot holds a stored-to copy of that page. *)
OnSwapHasCopy ==
  \A p \in Pages : pte[p].onswap =>
    /\ ~pte[p].valid
    /\ pte[p].swap_off # INVALID_SWAP
    /\ swapfile[pte[p].swap_off].vaddr = p
    /\ swapfile[pte[p].swap_off].version > 0

(* The statistics main prints add up: every reference is a hit or a miss,  *)
(* and every miss either took a free frame or evicted one page.            *)
CountersAgree ==
  /\ count.ref = count.hit + count.miss
  /\ count.miss = count.clean + count.dirty
                  + Cardinality({f \in Frames : coremap[f] # NoPage})

(* Residency implements the abstract cache. *)
Cache == INSTANCE DemandCache
           WITH Page <- Pages, capacity <- memsize,
                resident <- {p \in Pages : pte[p].valid},
                hits <- count.hit, misses <- count.miss,
                evictions <- count.clean + count.dirty

(* Every step of the simulator is a hit, a fill of a spare frame, or the   *)
(* replacement of exactly one page, in the sense of DemandCache.           *)
ImplementsCache == Cache!CacheSpec

(* What the comment of find_physpage says (pagetable.c:145): a page that   *)
(* is invalid and on swap is filled by reading its data from swap.         *)
ReloadReadsSwap ==
  [][\A p \in Pages :
       pte[p].onswap /\ ~pte[p].valid /\ pte'[p].valid =>
         physmem'[pte'[p].frame].version >= swapfile[pte[p].swap_off].version
    ]_core
==============================================================================
