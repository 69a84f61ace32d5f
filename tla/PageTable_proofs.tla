--------------------------- MODULE PageTable_proofs ---------------------------
(***************************************************************************)
(* Proofs about the paging core, for any set of pages, any number of       *)
(* frames, any size of the swap file and any failures of the swap writes.  *)
(***************************************************************************)
EXTENDS PageTable, WellFoundedInduction, FiniteSetTheorems, TLAPS

(* The conjunction that is inductive.  FramesMatch and ContentMatches are  *)
(* what OnSwapHasCopy needs when a victim is written; SlotsNotShared keeps *)
(* the copies of the other pages out of the way of that write.             *)
IInv == TypeOK /\ FramesMatch /\ ContentMatches /\ DirtyIffStored
               /\ SlotsNotShared /\ OnSwapHasCopy

(* Page table pt, swap bitmap map and swap file file are consistent with a *)
(* memory whose frame f has just been freed for page p: the state between  *)
(* the eviction and the end of find_physpage.                              *)
Ready(p, f, pt, map, file) ==
  /\ p \in Pages /\ f \in Frames
  /\ pt \in [Pages -> Entry]
  /\ map \subseteq Slots
  /\ file \in [Slots -> Content]
  /\ ~pt[p].valid
  /\ \A g \in Frames \ {f} : coremap[g] # NoPage =>
       /\ pt[coremap[g]].valid
       /\ pt[coremap[g]].frame = g
       /\ pt[coremap[g]].dirty <=> physmem[g].version > 0
  /\ \A q \in Pages : pt[q].valid => pt[q].frame # f /\ coremap[pt[q].frame] = q
  /\ \A q \in Pages : pt[q].swap_off # INVALID_SWAP =>
       /\ pt[q].swap_off \in map
       /\ \A r \in Pages : pt[r].swap_off = pt[q].swap_off => r = q
  /\ \A q \in Pages : pt[q].onswap =>
       /\ ~pt[q].valid
       /\ pt[q].swap_off # INVALID_SWAP
       /\ file[pt[q].swap_off].vaddr = q
       /\ file[pt[q].swap_off].version > 0

(* The scans for a free frame (allocate_frame) and a free slot             *)
(* (bitmap_alloc) find the first one whenever there is one.                *)
LEMMA LowestIn ==
  ASSUME NEW S, S \subseteq Nat, S # {}
  PROVE  Lowest(S) \in S /\ \A j \in S : Lowest(S) <= j
<1> DEFINE R == {ss \in Nat \X Nat : ss[1] < ss[2]}
<1>1. IsWellFoundedOn(R, Nat)
  BY NatLessThanWellFounded DEF OpToRel
<1>2. PICK x \in S : \A y \in S : ~(<<y, x>> \in R)
  <2> HIDE DEF R
  <2> QED BY <1>1, WFMin
<1>3. ASSUME NEW y \in S PROVE x <= y
  <2>1. x \in Nat /\ y \in Nat /\ <<y, x>> \in Nat \X Nat
    OBVIOUS
  <2>2. <<y, x>>[1] = y /\ <<y, x>>[2] = x
    OBVIOUS
  <2>3. ~(y < x)
    BY <1>2, <2>1, <2>2
  <2> QED BY <2>1, <2>3
<1>4. \E i \in S : \A j \in S : i <= j
  BY <1>3
<1> HIDE DEF R
<1> QED BY <1>4 DEF Lowest

(* What swap_pageout can leave behind: slots of other pages are untouched, *)
(* and an offset it returns is the page's own slot or one that was free,   *)
(* marked in the bitmap and holding the frame.                             *)
LEMMA PageOutResult ==
  ASSUME TypeOK, NEW f \in Frames, NEW off \in Slots \cup {INVALID_SWAP},
         NEW o \in PageOut(f, off)
  PROVE  /\ o.offset \in Slots \cup {INVALID_SWAP}
         /\ o.map \subseteq Slots /\ swapmap \subseteq o.map
         /\ o.file \in [Slots -> Content]
         /\ \A s \in swapmap \ {off} : o.file[s] = swapfile[s]
         /\ o.offset # INVALID_SWAP =>
              /\ o.offset \in o.map
              /\ off # INVALID_SWAP => o.offset = off
              /\ off = INVALID_SWAP => o.offset \notin swapmap
              /\ o.file[o.offset] = physmem[f]
<1> DEFINE slot == IF off = INVALID_SWAP THEN Lowest(FreeSlots) ELSE off
<1>1. Slots \subseteq Nat /\ INVALID_SWAP \notin Slots
  BY PageTableAssumption DEF Slots, INVALID_SWAP
<1>2. /\ physmem[f] \in Content /\ Blank \in Content
      /\ swapmap \subseteq Slots /\ swapfile \in [Slots -> Content]
  BY DEF TypeOK, Content, Blank
<1>3. CASE off = INVALID_SWAP /\ FreeSlots = {}
  BY <1>2, <1>3 DEF PageOut
<1>4. CASE ~(off = INVALID_SWAP /\ FreeSlots = {})
  <2>1. slot \in Slots /\ (off # INVALID_SWAP => slot = off)
                       /\ (off = INVALID_SWAP => slot \notin swapmap)
    BY <1>1, <1>4, LowestIn DEF FreeSlots
  <2> HIDE DEF slot
  <2>2. \A c \in Content : /\ [swapfile EXCEPT ![slot] = c] \in [Slots -> Content]
                           /\ [swapfile EXCEPT ![slot] = c][slot] = c
                           /\ \A s \in swapmap \ {off} :
                                [swapfile EXCEPT ![slot] = c][s] = swapfile[s]
    BY <1>2, <2>1
  <2>3. o \in {[offset |-> slot, map |-> swapmap \cup {slot},
                file |-> [swapfile EXCEPT ![slot] = physmem[f]]],
               [offset |-> INVALID_SWAP, map |-> swapmap \cup {slot},
                file |-> swapfile],
               [offset |-> INVALID_SWAP, map |-> swapmap \cup {slot},
                file |-> [swapfile EXCEPT ![slot] = Blank]]}
    BY <1>4 DEF PageOut, slot
  <2> DEFINE claimed == swapmap \cup {slot}
             Put(c)  == [swapfile EXCEPT ![slot] = c]
  <2>4. claimed \subseteq Slots /\ swapmap \subseteq claimed /\ slot \in claimed
    BY <1>2, <2>1
  <2>5. o.map = claimed
    BY <2>3
  <2>6. \/ o.offset = slot /\ o.file = Put(physmem[f])
        \/ o.offset = INVALID_SWAP /\ o.file \in {swapfile, Put(Blank)}
    BY <2>3
  <2> HIDE DEF claimed
  <2>7. CASE o.offset = slot /\ o.file = Put(physmem[f])
    BY <1>1, <1>2, <2>1, <2>2, <2>4, <2>5, <2>7
  <2>8. CASE o.offset = INVALID_SWAP /\ o.file \in {swapfile, Put(Blank)}
    BY <1>1, <1>2, <2>2, <2>4, <2>5, <2>8
  <2> QED BY <2>6, <2>7, <2>8
<1> QED BY <1>3, <1>4

(* find_physpage on a miss, from the free frame on: whatever the eviction  *)
(* did, as long as it left page table, bitmap and swap file in order, the  *)
(* new page is placed without disturbing the rest.                         *)
LEMMA LoadPreserves ==
  ASSUME NEW p, NEW t, NEW f, NEW pt, NEW map, NEW file,
         TypeOK, ContentMatches, Ready(p, f, pt, map, file),
         Load(p, t, f, pt, file), swapmap' = map, swapfile' = file,
         count' \in Counters
  PROVE  IInv'
<1> DEFINE e == Placed(pt[p], f)
           new == Marked(e, t)
           old == Filled(p, e, file)
<1>1. /\ p \in Pages /\ f \in Frames /\ pt \in [Pages -> Entry]
      /\ map \subseteq Slots /\ file \in [Slots -> Content] /\ ~pt[p].valid
  BY DEF Ready
<1>2. /\ e \in Entry /\ e.frame = f /\ ~e.valid /\ ~e.dirty /\ ~e.onswap
      /\ e.swap_off = pt[p].swap_off
  BY <1>1 DEF Placed, NewEntry, Entry
<1>3. /\ new \in Entry /\ new.frame = f /\ new.valid /\ ~new.onswap
      /\ new.swap_off = pt[p].swap_off /\ (new.dirty <=> Writes(t))
  <2> HIDE DEF e
  <2>1. Writes(t) \in BOOLEAN
    BY DEF Writes
  <2> DEFINE d == e.dirty \/ Writes(t)
  <2>2. d \in BOOLEAN /\ (d <=> Writes(t))
    BY <1>2, <2>1
  <2>3. new = [e EXCEPT !.valid = TRUE, !.dirty = d]
    BY Zenon DEF Marked
  <2> HIDE DEF d, new
  <2> QED BY <1>1, <1>2, <2>2, <2>3 DEF Entry
<1>4. old \in Content /\ old.vaddr = p /\ old.version = 0
  BY <1>1, <1>2 DEF Filled, Content
<1>5. /\ Stored(old, t) \in Content /\ Stored(old, t).vaddr = p
      /\ Stored(old, t).version > 0 <=> Writes(t)
  <2> HIDE DEF old
  <2> QED BY <1>4 DEF Stored, Content
<1>6. /\ coremap' = [coremap EXCEPT ![f] = p]
      /\ pte' = [pt EXCEPT ![p] = new]
      /\ physmem' = [physmem EXCEPT ![f] = Stored(old, t)]
  BY DEF Load
<1> HIDE DEF e, new, old
<1>7. TypeOK'
  BY <1>1, <1>3, <1>5, <1>6 DEF TypeOK
<1>8. /\ coremap'[f] = p /\ physmem'[f] = Stored(old, t) /\ pte'[p] = new
      /\ \A g \in Frames \ {f} : coremap'[g] = coremap[g] /\ physmem'[g] = physmem[g]
      /\ \A q \in Pages \ {p} : pte'[q] = pt[q]
  BY <1>1, <1>6 DEF TypeOK
<1>9. p # NoPage
  BY <1>1, PageTableAssumption
<1>10. \A g \in Frames \ {f} : coremap[g] # NoPage =>
         coremap[g] \in Pages /\ coremap[g] # p
  BY <1>1 DEF TypeOK, Ready
<1>11. FramesMatch'
  <2>1. \A g \in Frames : coremap'[g] # NoPage =>
          pte'[coremap'[g]].valid /\ pte'[coremap'[g]].frame = g
    BY <1>1, <1>3, <1>8, <1>10 DEF Ready
  <2>2. \A q \in Pages : pt[q].valid => pt[q].frame \in Frames \ {f}
    BY <1>1 DEF Ready, Entry
  <2>3. \A q \in Pages : pte'[q].valid => coremap'[pte'[q].frame] = q
    BY <1>3, <1>8, <2>2 DEF Ready
  <2> QED BY <2>1, <2>3 DEF FramesMatch
<1>12. ContentMatches'
  BY <1>5, <1>8 DEF ContentMatches
<1>13. DirtyIffStored'
  BY <1>1, <1>3, <1>5, <1>8, <1>10 DEF DirtyIffStored, Ready
<1>14. SlotsNotShared'
  <2>1. \A q \in Pages : pte'[q].swap_off = pt[q].swap_off
    BY <1>3, <1>8
  <2> QED BY <2>1 DEF SlotsNotShared, Ready
<1>15. OnSwapHasCopy'
  BY <1>3, <1>8 DEF OnSwapHasCopy, Ready
<1> QED BY <1>7, <1>11, <1>12, <1>13, <1>14, <1>15 DEF IInv

(* The counters stay counters. *)
LEMMA CountersGrow ==
  ASSUME count \in Counters
  PROVE  /\ [count EXCEPT !.hit = @ + 1, !.ref = @ + 1] \in Counters
         /\ [count EXCEPT !.miss = @ + 1, !.ref = @ + 1] \in Counters
         /\ [count EXCEPT !.miss = @ + 1, !.ref = @ + 1, !.clean = @ + 1] \in Counters
         /\ [count EXCEPT !.miss = @ + 1, !.ref = @ + 1, !.dirty = @ + 1] \in Counters
<1>1. /\ count.hit \in Nat /\ count.miss \in Nat /\ count.ref \in Nat
      /\ count.clean \in Nat /\ count.dirty \in Nat
  BY DEF Counters
<1> DEFINE h == count.hit + 1
           m == count.miss + 1
           r == count.ref + 1
           c == count.clean + 1
           d == count.dirty + 1
<1>2. /\ [count EXCEPT !.hit = @ + 1, !.ref = @ + 1]
           = [count EXCEPT !.hit = h, !.ref = r]
      /\ [count EXCEPT !.miss = @ + 1, !.ref = @ + 1]
           = [count EXCEPT !.miss = m, !.ref = r]
      /\ [count EXCEPT !.miss = @ + 1, !.ref = @ + 1, !.clean = @ + 1]
           = [count EXCEPT !.miss = m, !.ref = r, !.clean = c]
      /\ [count EXCEPT !.miss = @ + 1, !.ref = @ + 1, !.dirty = @ + 1]
           = [count EXCEPT !.miss = m, !.ref = r, !.dirty = d]
  BY Zenon
<1>3. h \in Nat /\ m \in Nat /\ r \in Nat /\ c \in Nat /\ d \in Nat
  BY <1>1
<1> HIDE DEF h, m, r, c, d
<1>4. /\ [count EXCEPT !.hit = h, !.ref = r] \in Counters
      /\ [count EXCEPT !.miss = m, !.ref = r] \in Counters
      /\ [count EXCEPT !.miss = m, !.ref = r, !.clean = c] \in Counters
      /\ [count EXCEPT !.miss = m, !.ref = r, !.dirty = d] \in Counters
  BY <1>3 DEF Counters
<1> QED BY <1>2, <1>4

(* The simulator starts in the invariant: nothing is mapped or in use. *)
LEMMA InitInvariant == PageTableInit => IInv
<1> SUFFICES ASSUME PageTableInit PROVE IInv
  OBVIOUS
<1>1. 0 \in Frames
  BY PageTableAssumption DEF Frames
<1>2. NewEntry \in Entry /\ ~NewEntry.valid /\ ~NewEntry.onswap
      /\ NewEntry.swap_off = INVALID_SWAP
  BY <1>1 DEF NewEntry, Entry
<1>3. Blank \in Content
  BY DEF Blank, Content
<1> USE DEF PageTableInit
<1>4. TypeOK
  BY <1>2, <1>3 DEF TypeOK, Counters
<1>5. FramesMatch /\ SlotsNotShared /\ OnSwapHasCopy
  BY <1>2 DEF FramesMatch, SlotsNotShared, OnSwapHasCopy
<1>6. ContentMatches /\ DirtyIffStored
  BY DEF ContentMatches, DirtyIffStored
<1> QED BY <1>4, <1>5, <1>6 DEF IInv

(* A hit touches the flags and the content of one resident page. *)
LEMMA HitPreserves ==
  ASSUME IInv, NEW p \in Pages, NEW t, Hit(p, t)
  PROVE  IInv'
<1> DEFINE f == pte[p].frame
           new == Marked(pte[p], t)
           d == pte[p].dirty \/ Writes(t)
           c == Stored(physmem[f], t)
<1>1. /\ pte[p] \in Entry /\ pte[p].valid /\ f \in Frames /\ coremap[f] = p
      /\ physmem[f] \in Content /\ p # NoPage /\ ~pte[p].onswap
  BY PageTableAssumption
     DEF IInv, TypeOK, FramesMatch, Entry, Hit, OnSwapHasCopy
<1>2. /\ physmem[f].vaddr = p
      /\ pte[p].dirty <=> physmem[f].version > 0
  BY <1>1 DEF IInv, ContentMatches, DirtyIffStored
<1>3. Writes(t) \in BOOLEAN
  BY DEF Writes
<1>4. d \in BOOLEAN /\ (d <=> pte[p].dirty \/ Writes(t))
  BY <1>1, <1>3 DEF Entry
<1>5. /\ new \in Entry /\ new.frame = f /\ new.valid /\ ~new.onswap
      /\ new.swap_off = pte[p].swap_off /\ new.dirty = d
  <2>1. new = [pte[p] EXCEPT !.valid = TRUE, !.dirty = d]
    BY Zenon DEF Marked
  <2> HIDE DEF d, new
  <2> QED BY <1>1, <1>4, <2>1 DEF Entry
<1>6. c \in Content /\ c.vaddr = p /\ (c.version > 0 <=> d)
  <2>1. c = IF Writes(t) THEN [physmem[f] EXCEPT !.version = @ + 1] ELSE physmem[f]
    BY DEF Stored
  <2> HIDE DEF c, d
  <2> QED BY <1>1, <1>2, <1>4, <2>1 DEF Content
<1>7. /\ pte' = [pte EXCEPT ![p] = new]
      /\ physmem' = [physmem EXCEPT ![f] = c]
      /\ coremap' = coremap /\ swapmap' = swapmap /\ swapfile' = swapfile
      /\ count' = [count EXCEPT !.hit = @ + 1, !.ref = @ + 1]
  BY DEF Hit
<1> HIDE DEF f, new, d, c
<1>8. TypeOK'
  <2>1. count' \in Counters
    BY <1>7, CountersGrow DEF IInv, TypeOK
  <2> QED BY <1>1, <1>5, <1>6, <1>7, <2>1 DEF IInv, TypeOK
<1>9. /\ pte'[p] = new /\ \A q \in Pages \ {p} : pte'[q] = pte[q]
      /\ physmem'[f] = c /\ \A g \in Frames \ {f} : physmem'[g] = physmem[g]
      /\ \A g \in Frames : coremap[g] # NoPage => coremap[g] \in Pages
  BY <1>1, <1>7 DEF IInv, TypeOK
<1>10. \A g \in Frames \ {f} : coremap[g] # p
  BY <1>1 DEF IInv, FramesMatch, f
<1>11. FramesMatch'
  BY <1>1, <1>5, <1>7, <1>9, <1>10 DEF IInv, FramesMatch
<1>12. ContentMatches'
  BY <1>1, <1>6, <1>7, <1>9 DEF IInv, ContentMatches
<1>13. DirtyIffStored'
  BY <1>1, <1>5, <1>6, <1>7, <1>9, <1>10 DEF IInv, DirtyIffStored
<1>14. SlotsNotShared'
  <2>1. \A q \in Pages : pte'[q].swap_off = pte[q].swap_off
    BY <1>5, <1>9
  <2> QED BY <1>7, <2>1 DEF IInv, SlotsNotShared
<1>15. OnSwapHasCopy'
  BY <1>5, <1>7, <1>9 DEF IInv, OnSwapHasCopy
<1> QED BY <1>8, <1>11, <1>12, <1>13, <1>14, <1>15 DEF IInv

(* A miss while a frame is free: allocate_frame takes the first one. *)
LEMMA MissFreePreserves ==
  ASSUME IInv, NEW p \in Pages, NEW t, MissFree(p, t)
  PROVE  IInv'
<1> DEFINE f == Lowest(FreeFrames)
<1>1. f \in Frames /\ coremap[f] = NoPage
  <2>1. FreeFrames \subseteq Nat /\ FreeFrames # {}
    BY PageTableAssumption DEF FreeFrames, Frames, MissFree
  <2>2. f \in FreeFrames
    BY <2>1, LowestIn
  <2> QED BY <2>2 DEF FreeFrames
<1> HIDE DEF f
<1>2. ~pte[p].valid /\ Load(p, t, f, pte, swapfile)
      /\ swapmap' = swapmap /\ swapfile' = swapfile
      /\ count' = [count EXCEPT !.miss = @ + 1, !.ref = @ + 1]
  BY DEF MissFree, f
<1>3. count' \in Counters
  BY <1>2, CountersGrow DEF IInv, TypeOK
<1>4. \A q \in Pages : pte[q].valid => pte[q].frame # f
  BY <1>1, PageTableAssumption DEF IInv, FramesMatch
<1>5. Ready(p, f, pte, swapmap, swapfile)
  BY <1>1, <1>2, <1>4
     DEF IInv, Ready, TypeOK, FramesMatch, DirtyIffStored, SlotsNotShared,
         OnSwapHasCopy
<1> QED BY <1>2, <1>3, <1>5, LoadPreserves DEF IInv

(* What both evictions need of the page in frame f. *)
LEMMA Victim ==
  ASSUME IInv, NEW p \in Pages, ~pte[p].valid, NEW f \in Frames, FreeFrames = {}
  PROVE  /\ coremap[f] \in Pages /\ coremap[f] # p
         /\ pte[coremap[f]] \in Entry /\ pte[coremap[f]].valid
         /\ pte[coremap[f]].frame = f /\ ~pte[coremap[f]].onswap
         /\ \A g \in Frames \ {f} : coremap[g] # coremap[f]
         /\ \A q \in Pages \ {coremap[f]} : pte[q].valid => pte[q].frame # f
BY DEF IInv, TypeOK, FramesMatch, OnSwapHasCopy, FreeFrames

(* A clean eviction only turns the victim's PG_VALID off. *)
LEMMA MissCleanPreserves ==
  ASSUME IInv, NEW p \in Pages, NEW t, NEW f \in Frames, MissClean(p, t, f)
  PROVE  IInv'
<1> DEFINE v == coremap[f]
           pt == [pte EXCEPT ![v].valid = FALSE]
<1>1. /\ ~pte[p].valid /\ FreeFrames = {} /\ Load(p, t, f, pt, swapfile)
      /\ swapmap' = swapmap /\ swapfile' = swapfile
      /\ count' = [count EXCEPT !.miss = @ + 1, !.ref = @ + 1, !.clean = @ + 1]
  BY DEF MissClean
<1>2. /\ v \in Pages /\ v # p /\ pte[v] \in Entry /\ ~pte[v].onswap
      /\ \A g \in Frames \ {f} : coremap[g] # v
      /\ \A q \in Pages \ {v} : pte[q].valid => pte[q].frame # f
  BY <1>1, Victim
<1>3. /\ pt \in [Pages -> Entry]
      /\ \A q \in Pages \ {v} : pt[q] = pte[q]
      /\ ~pt[v].valid /\ ~pt[v].onswap /\ pt[v].swap_off = pte[v].swap_off
  BY <1>2 DEF IInv, TypeOK, Entry
<1>4. count' \in Counters
  BY <1>1, CountersGrow DEF IInv, TypeOK
<1> HIDE DEF v, pt
<1>5. \A q \in Pages : pt[q].swap_off = pte[q].swap_off
  BY <1>3
<1>6. Ready(p, f, pt, swapmap, swapfile)
  BY <1>1, <1>2, <1>3, <1>5
     DEF IInv, Ready, TypeOK, FramesMatch, DirtyIffStored, SlotsNotShared,
         OnSwapHasCopy
<1> QED BY <1>1, <1>4, <1>6, LoadPreserves DEF IInv

(* A dirty eviction: the victim's entry and its slot change together, or,  *)
(* when the write fails, neither names the other any more than before.     *)
LEMMA MissDirtyPreserves ==
  ASSUME IInv, NEW p \in Pages, NEW t, NEW f \in Frames, MissDirty(p, t, f)
  PROVE  IInv'
<1> DEFINE v == coremap[f]
           off == pte[v].swap_off
<1>1. /\ ~pte[p].valid /\ FreeFrames = {} /\ pte[v].dirty
      /\ count' = [count EXCEPT !.miss = @ + 1, !.ref = @ + 1, !.dirty = @ + 1]
  BY DEF MissDirty
<1>2. PICK o \in PageOut(f, off) :
        /\ Load(p, t, f, [pte EXCEPT ![v] = SwappedOut(@, o)], o.file)
        /\ swapmap' = o.map /\ swapfile' = o.file
  BY DEF MissDirty
<1> DEFINE new == SwappedOut(pte[v], o)
           pt == [pte EXCEPT ![v] = new]
<1>3. /\ v \in Pages /\ v # p /\ pte[v] \in Entry /\ ~pte[v].onswap
      /\ \A g \in Frames \ {f} : coremap[g] # v
      /\ \A q \in Pages \ {v} : pte[q].valid => pte[q].frame # f
  BY <1>1, Victim
<1>4. off \in Slots \cup {INVALID_SWAP}
  BY <1>3 DEF Entry
<1>5. physmem[f].vaddr = v /\ physmem[f].version > 0
  BY <1>1, <1>3, PageTableAssumption DEF IInv, ContentMatches, DirtyIffStored
<1>6. /\ o.offset \in Slots \cup {INVALID_SWAP}
      /\ o.map \subseteq Slots /\ swapmap \subseteq o.map
      /\ o.file \in [Slots -> Content]
      /\ \A s \in swapmap \ {off} : o.file[s] = swapfile[s]
      /\ o.offset # INVALID_SWAP =>
           /\ o.offset \in o.map
           /\ off # INVALID_SWAP => o.offset = off
           /\ off = INVALID_SWAP => o.offset \notin swapmap
           /\ o.file[o.offset] = physmem[f]
  BY <1>4, PageOutResult DEF IInv
<1> HIDE DEF v, off
<1>7. /\ new \in Entry /\ ~new.valid
      /\ o.offset = INVALID_SWAP => ~new.onswap /\ new.swap_off = off
      /\ o.offset # INVALID_SWAP => new.onswap /\ new.swap_off = o.offset
  BY <1>3, <1>6 DEF SwappedOut, Entry, off
<1> HIDE DEF new
<1>8. /\ pt \in [Pages -> Entry] /\ pt[v] = new
      /\ \A q \in Pages \ {v} : pt[q] = pte[q]
  BY <1>3, <1>7 DEF IInv, TypeOK
<1>9. Load(p, t, f, pt, o.file)
  BY <1>2 DEF new
<1> HIDE DEF pt
<1>10. count' \in Counters
  BY <1>1, CountersGrow DEF IInv, TypeOK
<1>11. \A q \in Pages \ {v} : pte[q].swap_off # INVALID_SWAP =>
         pte[q].swap_off \in swapmap \ {off}
  BY <1>3 DEF IInv, SlotsNotShared, off
<1>12. \A q \in Pages : pt[q].swap_off # INVALID_SWAP =>
         /\ pt[q].swap_off \in o.map
         /\ \A r \in Pages : pt[r].swap_off = pt[q].swap_off => r = q
  <2>1. off # INVALID_SWAP => off \in swapmap
    BY <1>3 DEF IInv, SlotsNotShared, off
  <2>2. new.swap_off # INVALID_SWAP =>
          /\ new.swap_off \in o.map
          /\ new.swap_off = off \/ new.swap_off \notin swapmap
    BY <1>6, <1>7, <2>1
  <2>3. \A q, r \in Pages :
          pte[q].swap_off # INVALID_SWAP /\ pte[r].swap_off = pte[q].swap_off => r = q
    BY DEF IInv, SlotsNotShared
  <2> QED BY <1>6, <1>8, <1>11, <2>2, <2>3
<1>13. \A q \in Pages : pt[q].onswap =>
         /\ ~pt[q].valid
         /\ pt[q].swap_off # INVALID_SWAP
         /\ o.file[pt[q].swap_off].vaddr = q
         /\ o.file[pt[q].swap_off].version > 0
  BY <1>5, <1>6, <1>7, <1>8, <1>11 DEF IInv, OnSwapHasCopy
<1>14. /\ f \in Frames /\ p \in Pages /\ ~pt[p].valid
       /\ \A g \in Frames \ {f} : coremap[g] # NoPage =>
            /\ pt[coremap[g]].valid
            /\ pt[coremap[g]].frame = g
            /\ pt[coremap[g]].dirty <=> physmem[g].version > 0
       /\ \A q \in Pages : pt[q].valid =>
            pt[q].frame # f /\ coremap[pt[q].frame] = q
  BY <1>1, <1>3, <1>7, <1>8
     DEF IInv, TypeOK, FramesMatch, DirtyIffStored
<1>15. Ready(p, f, pt, o.map, o.file)
  BY <1>6, <1>8, <1>12, <1>13, <1>14 DEF Ready
<1> QED BY <1>2, <1>9, <1>10, <1>15, LoadPreserves DEF IInv

(* One reference of the trace, whatever the algorithm evicts. *)
LEMMA NextInvariant == IInv /\ [RandNext]_core => IInv'
<1> SUFFICES ASSUME IInv, [RandNext]_core PROVE IInv'
  OBVIOUS
<1>1. CASE UNCHANGED core
  BY <1>1 DEF core, IInv, TypeOK, FramesMatch, ContentMatches, DirtyIffStored,
              SlotsNotShared, OnSwapHasCopy
<1>2. ASSUME NEW p \in Pages, NEW t \in AccessTypes, Hit(p, t) PROVE IInv'
  BY <1>2, HitPreserves
<1>3. ASSUME NEW p \in Pages, NEW t \in AccessTypes, MissFree(p, t) PROVE IInv'
  BY <1>3, MissFreePreserves
<1>4. ASSUME NEW p \in Pages, NEW t \in AccessTypes, NEW f \in Frames,
             Miss(p, t, f)
      PROVE  IInv'
  BY <1>4, MissCleanPreserves, MissDirtyPreserves DEF Miss
<1> QED BY <1>1, <1>2, <1>3, <1>4 DEF RandNext, RandVictims

(* The conjunction holds in every reachable state of the paging core. *)
THEOREM Invariant == Spec => []IInv
  BY InitInvariant, NextInvariant, PTL DEF Spec

(* Every variable keeps its type. *)
THEOREM TypeCorrect == Spec => []TypeOK
<1>1. IInv => TypeOK
  BY DEF IInv
<1> QED BY <1>1, Invariant, PTL

(* allocate_frame and find_physpage keep the page table and the coremap    *)
(* inverse to each other, for any replacement choice.                      *)
THEOREM MappingCorrect == Spec => []FramesMatch
<1>1. IInv => FramesMatch
  BY DEF IInv
<1> QED BY <1>1, Invariant, PTL

(* The error check of access_mem (sim.c:54) never fires. *)
THEOREM LookupCorrect == Spec => []ContentMatches
<1>1. IInv => ContentMatches
  BY DEF IInv
<1> QED BY <1>1, Invariant, PTL

(* evict_clean never throws a store away: PG_DIRTY is exact. *)
THEOREM DirtyCorrect == Spec => []DirtyIffStored
<1>1. IInv => DirtyIffStored
  BY DEF IInv
<1> QED BY <1>1, Invariant, PTL

(* No two pages share a swap slot, for any number of slots. *)
THEOREM SlotsCorrect == Spec => []SlotsNotShared
<1>1. IInv => SlotsNotShared
  BY DEF IInv
<1> QED BY <1>1, Invariant, PTL

(* A page marked PG_ONSWAP has a good copy, even though writes may fail. *)
THEOREM SwapCorrect == Spec => []OnSwapHasCopy
<1>1. IInv => OnSwapHasCopy
  BY DEF IInv
<1> QED BY <1>1, Invariant, PTL

------------------------------------------------------------------------------
(* The frames in use, the pages in memory, and how many there are. *)
UsedFrames == {f \in Frames : coremap[f] # NoPage}
Resident == {p \in Pages : pte[p].valid}

(* There are memsize frames. *)
LEMMA FramesFinite ==
  ASSUME TypeOK
  PROVE  /\ IsFiniteSet(Frames) /\ Cardinality(Frames) = memsize
         /\ IsFiniteSet(UsedFrames) /\ Cardinality(UsedFrames) \in Nat
         /\ Cardinality(UsedFrames) <= memsize
         /\ Cardinality(UsedFrames) = memsize <=> FreeFrames = {}
<1>1. IsFiniteSet(Frames) /\ Cardinality(Frames) = memsize
  BY PageTableAssumption, FS_Interval DEF Frames
<1>2. UsedFrames \in SUBSET Frames /\ (FreeFrames = {} <=> UsedFrames = Frames)
  BY DEF UsedFrames, FreeFrames
<1>3. /\ IsFiniteSet(UsedFrames) /\ Cardinality(UsedFrames) <= memsize
      /\ Cardinality(Frames) = Cardinality(UsedFrames) => UsedFrames = Frames
  BY <1>1, <1>2, FS_Subset
<1>4. Cardinality(UsedFrames) \in Nat
  BY <1>3, FS_CardinalityType
<1> QED BY <1>1, <1>2, <1>3, <1>4

(* The coremap is a bijection between the frames in use and the pages in   *)
(* memory.                                                                 *)
LEMMA ResidentCount ==
  ASSUME IInv
  PROVE  IsFiniteSet(Resident) /\ Cardinality(Resident) = Cardinality(UsedFrames)
<1> DEFINE g == [f \in UsedFrames |-> coremap[f]]
<1>1. \A f \in UsedFrames : coremap[f] \in Resident /\ pte[coremap[f]].frame = f
  BY DEF IInv, TypeOK, FramesMatch, UsedFrames, Resident
<1>2. \A p \in Resident : pte[p].frame \in UsedFrames /\ coremap[pte[p].frame] = p
  BY PageTableAssumption DEF IInv, TypeOK, FramesMatch, UsedFrames, Resident, Entry
<1>3. g \in Bijection(UsedFrames, Resident)
  <2>1. g \in [UsedFrames -> Resident]
    BY <1>1
  <2>2. \A a, b \in UsedFrames : g[a] = g[b] => a = b
    BY <1>1
  <2>3. \A p \in Resident : \E f \in UsedFrames : g[f] = p
    BY <1>2
  <2> HIDE DEF g
  <2> QED BY <2>1, <2>2, <2>3 DEF Bijection, Injection, Surjection, IsInjective
<1>4. ExistsBijection(UsedFrames, Resident)
  BY <1>3 DEF ExistsBijection
<1> QED BY <1>4, FramesFinite, FS_Bijection DEF IInv

(* What a reference does to the counters, the pages in memory and the      *)
(* frames in use.                                                          *)
Counts(hit, miss, clean, dirty) ==
  /\ count'.hit = hit /\ count'.miss = miss /\ count'.ref = count.ref + 1
  /\ count'.clean = clean /\ count'.dirty = dirty

(* What a reference of each kind adds to the statistics. *)
LEMMA CountEffects ==
  ASSUME IInv, NEW p, NEW t, NEW f
  PROVE  /\ Hit(p, t) => Counts(count.hit + 1, count.miss, count.clean, count.dirty)
         /\ MissFree(p, t) => Counts(count.hit, count.miss + 1, count.clean, count.dirty)
         /\ MissClean(p, t, f) =>
              Counts(count.hit, count.miss + 1, count.clean + 1, count.dirty)
         /\ MissDirty(p, t, f) =>
              Counts(count.hit, count.miss + 1, count.clean, count.dirty + 1)
<1>1. count \in Counters
  BY DEF IInv, TypeOK
<1>2. Hit(p, t) => Counts(count.hit + 1, count.miss, count.clean, count.dirty)
  BY <1>1 DEF Hit, Counts, Counters
<1>3. MissFree(p, t) => Counts(count.hit, count.miss + 1, count.clean, count.dirty)
  BY <1>1 DEF MissFree, Counts, Counters
<1>4. MissClean(p, t, f) =>
        Counts(count.hit, count.miss + 1, count.clean + 1, count.dirty)
  BY <1>1 DEF MissClean, Counts, Counters
<1>5. MissDirty(p, t, f) =>
        Counts(count.hit, count.miss + 1, count.clean, count.dirty + 1)
  BY <1>1 DEF MissDirty, Counts, Counters
<1> QED BY <1>2, <1>3, <1>4, <1>5

(* A hit moves no page. *)
LEMMA HitEffects ==
  ASSUME IInv, NEW p \in Pages, NEW t, Hit(p, t)
  PROVE  /\ p \in Resident /\ coremap' = coremap
         /\ \A q \in Pages : pte'[q].valid = pte[q].valid /\ pte'[q].frame = pte[q].frame
         /\ Resident' = Resident
<1> DEFINE new == Marked(pte[p], t)
<1>1. pte[p] \in Entry /\ pte[p].valid /\ coremap' = coremap
      /\ pte' = [pte EXCEPT ![p] = new] /\ pte \in [Pages -> Entry]
  BY DEF IInv, TypeOK, Hit
<1>2. new.valid = TRUE /\ new.frame = pte[p].frame
  BY <1>1 DEF Marked, Entry
<1>3. pte[p].valid = TRUE
  BY <1>1 DEF Entry
<1> HIDE DEF new
<1>4. \A q \in Pages : pte'[q].valid = pte[q].valid /\ pte'[q].frame = pte[q].frame
  BY <1>1, <1>2, <1>3
<1> QED BY <1>1, <1>4 DEF Resident

(* A miss with room puts the page in the lowest free frame. *)
LEMMA FillEffects ==
  ASSUME IInv, NEW p \in Pages, NEW t, MissFree(p, t)
  PROVE  LET f == Lowest(FreeFrames)
         IN  /\ f \in FreeFrames /\ p \notin Resident
             /\ coremap' = [coremap EXCEPT ![f] = p]
             /\ UsedFrames' = UsedFrames \cup {f}
             /\ Resident' = Resident \cup {p}
             /\ pte'[p].frame = f
             /\ \A q \in Pages \ {p} : pte'[q] = pte[q]
<1> DEFINE f == Lowest(FreeFrames)
           new == Marked(Placed(pte[p], f), t)
<1>1. f \in FreeFrames /\ f \in Frames
  <2>1. FreeFrames \subseteq Nat /\ FreeFrames # {}
    BY PageTableAssumption DEF FreeFrames, Frames, MissFree
  <2> QED BY <2>1, LowestIn DEF FreeFrames
<1>2. /\ ~pte[p].valid /\ coremap' = [coremap EXCEPT ![f] = p]
      /\ pte' = [pte EXCEPT ![p] = new]
      /\ pte \in [Pages -> Entry] /\ coremap \in [Frames -> Pages \cup {NoPage}]
  BY DEF MissFree, Load, IInv, TypeOK
<1>3. new.valid = TRUE /\ new.frame = f
  BY DEF Marked, Placed, NewEntry
<1> HIDE DEF f, new
<1>4. Resident' = Resident \cup {p}
  BY <1>2, <1>3 DEF Resident
<1>5. UsedFrames' = UsedFrames \cup {f}
  BY <1>1, <1>2, PageTableAssumption DEF UsedFrames
<1> QED BY <1>1, <1>2, <1>3, <1>4, <1>5 DEF f, Resident

(* A miss with memory full: the page in frame f makes room, and nothing    *)
(* else moves.                                                             *)
LEMMA EvictEffects ==
  ASSUME IInv, NEW p \in Pages, NEW t, NEW f \in Frames, Miss(p, t, f)
  PROVE  /\ FreeFrames = {} /\ p \notin Resident /\ coremap[f] \in Resident
         /\ coremap' = [coremap EXCEPT ![f] = p]
         /\ UsedFrames' = UsedFrames
         /\ Resident' = (Resident \ {coremap[f]}) \cup {p}
         /\ pte'[p].frame = f /\ pte'[p].valid /\ ~pte'[coremap[f]].valid
         /\ \A q \in Pages \ {p, coremap[f]} : pte'[q] = pte[q]
<1> DEFINE v == coremap[f]
<1>1. FreeFrames = {} /\ ~pte[p].valid
  BY DEF Miss, MissClean, MissDirty
<1>2. /\ v \in Pages /\ v # p /\ pte[v] \in Entry /\ pte[v].valid
      /\ pte \in [Pages -> Entry] /\ coremap \in [Frames -> Pages \cup {NoPage}]
  BY <1>1, Victim DEF IInv, TypeOK
<1>3. PICK new, out : /\ coremap' = [coremap EXCEPT ![f] = p]
                      /\ ~out.valid
                      /\ pte' = [[pte EXCEPT ![v] = out] EXCEPT ![p] = new]
                      /\ new.valid = TRUE /\ new.frame = f
  <2>1. CASE MissClean(p, t, f)
    <3> DEFINE out == [pte[v] EXCEPT !.valid = FALSE]
               pt == [pte EXCEPT ![v].valid = FALSE]
               new == Marked(Placed(pt[p], f), t)
    <3>1. pt = [pte EXCEPT ![v] = out] /\ ~out.valid
      BY <1>2 DEF Entry
    <3>2. coremap' = [coremap EXCEPT ![f] = p] /\ pte' = [pt EXCEPT ![p] = new]
      BY <2>1 DEF MissClean, Load
    <3>3. new.valid = TRUE /\ new.frame = f
      BY DEF Marked, Placed, NewEntry
    <3> HIDE DEF out, pt, new
    <3> QED BY <3>1, <3>2, <3>3
  <2>2. CASE MissDirty(p, t, f)
    <3>1. PICK o : Load(p, t, f, [pte EXCEPT ![v] = SwappedOut(@, o)], o.file)
      BY <2>2 DEF MissDirty
    <3> DEFINE out == SwappedOut(pte[v], o)
               pt == [pte EXCEPT ![v] = out]
               new == Marked(Placed(pt[p], f), t)
    <3>2. ~out.valid
      BY <1>2 DEF SwappedOut, Entry
    <3>3. coremap' = [coremap EXCEPT ![f] = p] /\ pte' = [pt EXCEPT ![p] = new]
      BY <3>1 DEF Load
    <3>4. new.valid = TRUE /\ new.frame = f
      BY DEF Marked, Placed, NewEntry
    <3> HIDE DEF out, new
    <3> QED BY <3>2, <3>3, <3>4
  <2> QED BY <2>1, <2>2 DEF Miss
<1> HIDE DEF v
<1>4. /\ pte'[p] = new /\ pte'[v] = out
      /\ \A q \in Pages \ {p, v} : pte'[q] = pte[q]
  BY <1>2, <1>3
<1>5. Resident' = (Resident \ {v}) \cup {p}
  BY <1>2, <1>3, <1>4 DEF Resident
<1>6. UsedFrames' = UsedFrames
  BY <1>1, <1>2, <1>3, PageTableAssumption DEF UsedFrames, FreeFrames
<1> QED BY <1>1, <1>2, <1>3, <1>4, <1>5, <1>6 DEF v, Resident

(* A reference served in any of the three ways. *)
Served(p, t, f) == Hit(p, t) \/ MissFree(p, t) \/ Miss(p, t, f)

(* The statistics add up after each reference: a miss that takes a free    *)
(* frame makes one more frame used, one that evicts makes one eviction     *)
(* more.                                                                   *)
LEMMA CountersPreserved ==
  ASSUME IInv, CountersAgree, NEW p \in Pages, NEW t, NEW f \in Frames,
         Served(p, t, f)
  PROVE  CountersAgree'
<1>1. /\ count.hit \in Nat /\ count.miss \in Nat /\ count.ref \in Nat
      /\ count.clean \in Nat /\ count.dirty \in Nat
  BY DEF IInv, TypeOK, Counters
<1>2. /\ IsFiniteSet(UsedFrames) /\ Cardinality(UsedFrames) \in Nat
  BY FramesFinite DEF IInv
<1>3. /\ count.ref = count.hit + count.miss
      /\ count.miss = count.clean + count.dirty + Cardinality(UsedFrames)
  BY DEF CountersAgree, UsedFrames
<1>4. /\ count'.ref = count'.hit + count'.miss
      /\ count'.miss = count'.clean + count'.dirty + Cardinality(UsedFrames')
  <2>1. CASE Hit(p, t)
    <3>1. UsedFrames' = UsedFrames
      BY <2>1, HitEffects DEF UsedFrames
    <3> QED BY <1>1, <1>2, <1>3, <2>1, <3>1, CountEffects DEF Counts
  <2>2. CASE MissFree(p, t)
    <3>1. PICK g : g \notin UsedFrames /\ UsedFrames' = UsedFrames \cup {g}
      BY <2>2, FillEffects DEF FreeFrames, UsedFrames
    <3>2. Cardinality(UsedFrames') = Cardinality(UsedFrames) + 1
      BY <1>2, <3>1, FS_AddElement
    <3> QED BY <1>1, <1>2, <1>3, <2>2, <3>2, CountEffects DEF Counts
  <2>3. CASE Miss(p, t, f)
    <3>1. UsedFrames' = UsedFrames
      BY <2>3, EvictEffects
    <3> QED BY <1>1, <1>2, <1>3, <2>3, <3>1, CountEffects DEF Counts, Miss
  <2> QED BY <2>1, <2>2, <2>3 DEF Served
<1> QED BY <1>4 DEF CountersAgree, UsedFrames

(* The statistics main prints add up at every point of every trace. *)
THEOREM StatisticsCorrect == Spec => []CountersAgree
<1>1. PageTableInit => CountersAgree
  <2> SUFFICES ASSUME PageTableInit PROVE CountersAgree
    OBVIOUS
  <2>1. {f \in Frames : coremap[f] # NoPage} = {}
    BY DEF PageTableInit
  <2> QED BY <2>1, FS_EmptySet DEF PageTableInit, CountersAgree
<1>2. IInv /\ CountersAgree /\ [RandNext]_core => CountersAgree'
  <2> SUFFICES ASSUME IInv, CountersAgree, [RandNext]_core PROVE CountersAgree'
    OBVIOUS
  <2>1. CASE UNCHANGED core
    BY <2>1 DEF core, CountersAgree
  <2>2. ASSUME NEW p \in Pages, NEW t \in AccessTypes,
               \/ Hit(p, t)
               \/ MissFree(p, t)
               \/ \E f \in Frames : Miss(p, t, f)
        PROVE  CountersAgree'
    <3>1. \E f \in Frames : Served(p, t, f)
      BY <2>2, PageTableAssumption DEF Served, Frames
    <3> QED BY <3>1, CountersPreserved
  <2> QED BY <2>1, <2>2 DEF RandNext, RandVictims
<1> QED BY <1>1, <1>2, Invariant, PTL DEF Spec

(* DemandCache counts the way this module does. *)
LEMMA SameCardinality == \A S : Cache!Cardinality(S) = Cardinality(S)
  BY DEF Cache!Cardinality, Cardinality

(* One reference is one step of the abstract cache. *)
LEMMA ServedIsCacheStep ==
  ASSUME IInv, NEW p \in Pages, NEW t, NEW f \in Frames, Served(p, t, f)
  PROVE  Cache!CacheNext
<1>1. /\ count.hit \in Nat /\ count.miss \in Nat
      /\ count.clean \in Nat /\ count.dirty \in Nat
  BY DEF IInv, TypeOK, Counters
<1>2. /\ Cardinality(UsedFrames) \in Nat
      /\ Cardinality(UsedFrames) <= memsize
      /\ Cardinality(UsedFrames) = memsize <=> FreeFrames = {}
      /\ Cardinality(Resident) = Cardinality(UsedFrames)
      /\ memsize \in Nat
  BY FramesFinite, ResidentCount, PageTableAssumption DEF IInv
<1>3. CASE Hit(p, t)
  <2>1. Cache!Reuse(p)
    BY <1>1, <1>3, HitEffects, CountEffects DEF Cache!Reuse, Resident, Counts
  <2> QED BY <2>1 DEF Cache!CacheNext
<1>4. CASE MissFree(p, t)
  <2>1. FreeFrames # {} /\ Cardinality(Resident) < memsize
    BY <1>2, <1>4 DEF MissFree
  <2>2. p \notin Resident /\ Resident' = Resident \cup {p}
    BY <1>4, FillEffects
  <2>3. /\ count'.hit = count.hit /\ count'.miss = count.miss + 1
        /\ count'.clean + count'.dirty = count.clean + count.dirty
    BY <1>4, CountEffects DEF Counts
  <2>4. Cache!Fill(p)
    BY <2>1, <2>2, <2>3, SameCardinality, Zenon DEF Cache!Fill, Resident
  <2> QED BY <2>4 DEF Cache!CacheNext
<1>5. CASE Miss(p, t, f)
  <2>1. PICK v : v = coremap[f]
    OBVIOUS
  <2>2. /\ FreeFrames = {} /\ p \notin Resident /\ v \in Resident
        /\ Resident' = (Resident \ {v}) \cup {p}
    BY <1>5, <2>1, EvictEffects
  <2>3. /\ count'.hit = count.hit /\ count'.miss = count.miss + 1
        /\ count'.clean + count'.dirty = count.clean + count.dirty + 1
    BY <1>1, <1>5, CountEffects DEF Miss, Counts
  <2>4. Cardinality(Resident) = memsize
    BY <1>2, <2>2
  <2>5. Cache!Replace(p, v)
    BY <2>2, <2>3, <2>4, SameCardinality, Zenon DEF Cache!Replace, Resident
  <2> QED BY <2>2, <2>5 DEF Cache!CacheNext, Resident
<1> QED BY <1>3, <1>4, <1>5 DEF Served

(* Empty memory is the abstract cache's initial state. *)
LEMMA CacheStart == PageTableInit => Cache!CacheInit
  BY DEF PageTableInit, NewEntry, Cache!CacheInit

(* Under rand, whatever frame random() picks, residency implements the     *)
(* abstract cache: at most memsize pages are in memory, a hit moves        *)
(* nothing, and a page is pushed out only to make room in a full memory.   *)
THEOREM RandImplementsCache == Spec => ImplementsCache
<1>1. IInv /\ [RandNext]_core => [Cache!CacheNext]_Cache!cacheVars
  <2> SUFFICES ASSUME IInv, [RandNext]_core
               PROVE  [Cache!CacheNext]_Cache!cacheVars
    OBVIOUS
  <2>1. CASE UNCHANGED core
    BY <2>1 DEF core, Cache!cacheVars
  <2>2. ASSUME NEW p \in Pages, NEW t \in AccessTypes,
               \/ Hit(p, t)
               \/ MissFree(p, t)
               \/ \E f \in Frames : Miss(p, t, f)
        PROVE  Cache!CacheNext
    <3>1. \E f \in Frames : Served(p, t, f)
      BY <2>2, PageTableAssumption DEF Served, Frames
    <3> QED BY <3>1, ServedIsCacheStep
  <2> QED BY <2>1, <2>2 DEF RandNext, RandVictims
<1> QED BY <1>1, CacheStart, Invariant, PTL DEF Spec, ImplementsCache, Cache!CacheSpec

(* Frame 0 exists. *)
LEMMA AFrame == 0 \in Frames /\ Frames \subseteq Nat
BY PageTableAssumption DEF Frames

(* A reference as the algorithms see it: the page, the frame it is in      *)
(* afterwards, and the other frames, which keep their pages.               *)
LEMMA ServedPage ==
  ASSUME IInv, NEW p \in Pages, NEW t, NEW f \in Frames,
         \/ Hit(p, t) /\ f = pte[p].frame
         \/ MissFree(p, t) /\ f = Lowest(FreeFrames)
         \/ Miss(p, t, f)
  PROVE  /\ coremap' = [coremap EXCEPT ![f] = p]
         /\ IInv'
         /\ \A g \in Frames \ {f} : coremap'[g] = coremap[g] /\ coremap[g] # p
<1>1. coremap \in [Frames -> Pages \cup {NoPage}]
  BY DEF IInv, TypeOK
<1>2. coremap' = [coremap EXCEPT ![f] = p]
  <2>1. CASE Hit(p, t) /\ f = pte[p].frame
    <3>1. coremap' = coremap /\ coremap[f] = p
      BY <2>1, HitEffects DEF Hit, IInv, FramesMatch
    <3> QED BY <1>1, <3>1
  <2>2. CASE MissFree(p, t) /\ f = Lowest(FreeFrames)
    BY <2>2, FillEffects
  <2>3. CASE Miss(p, t, f)
    BY <2>3, EvictEffects
  <2> QED BY <2>1, <2>2, <2>3
<1>3. IInv'
  BY HitPreserves, MissFreePreserves, MissCleanPreserves, MissDirtyPreserves DEF Miss
<1>4. \A g \in Frames \ {f} : coremap'[g] = coremap[g]
  BY <1>1, <1>2
<1>5. coremap'[f] = p /\ p # NoPage
  BY <1>1, <1>2, PageTableAssumption
<1>6. ASSUME NEW g \in Frames \ {f}, coremap[g] = p
      PROVE  FALSE
  <2>1. coremap'[g] = p
    BY <1>4, <1>6
  <2> QED BY <1>3, <1>5, <2>1 DEF IInv, FramesMatch
<1> QED BY <1>2, <1>3, <1>4, <1>6
==============================================================================
