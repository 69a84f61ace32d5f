-------------------------- MODULE Simulator_proofs --------------------------
(***************************************************************************)
(* Proofs about the simulator with each of its five algorithms.  What they *)
(* share is that the frame an algorithm gives up is a frame: then every    *)
(* reference is one of the three ways PageTable_proofs knows of serving    *)
(* it.                                                                     *)
(***************************************************************************)
EXTENDS Simulator, Lru_proofs, SequenceTheorems

(* Modulo memsize, for what is at most one turn ahead. *)
LEMMA Turn ==
  ASSUME NEW m \in Nat \ {0}, NEW a \in 0 .. m - 1, NEW k \in 0 .. m
  PROVE  /\ (a + k) % m = IF a + k < m THEN a + k ELSE a + k - m
         /\ (a + k) % m \in 0 .. m - 1
OBVIOUS

(* fifo's index and the clock's hand step from the last frame to frame 0. *)
LEMMA AdvanceFrame ==
  ASSUME NEW i \in Frames
  PROVE  Advance(i) \in Frames /\ Advance(i) = (i + 1) % memsize
BY PageTableAssumption DEF Advance, Frames

------------------------------------------------------------------------------
(* opt: the table of next uses, the position in the trace, and the frame   *)
(* of the reference before, which opt_ref is about to update.              *)
OptType ==
  /\ memory \in [Frames -> Times \cup {-1}]
  /\ addrs \in Traces
  /\ cur \in [time : 0 .. KnownLen, pre : Frames \cup {-1}]
  /\ cur.time = 0 => cur.pre = -1
  /\ cur.time > 0 => cur.pre \in Frames /\ coremap[cur.pre] = addrs[cur.time - 1]

(* Times of the trace are numbers, and there is at least one. *)
LEMMA TimesAreNats == Times \subseteq Nat /\ KnownLen \in Nat \ {0}
BY OptAssumption, PageTableAssumption DEF Times

(* The next use from time i is the first later time with that page, or -1. *)
LEMMA NextUseType ==
  ASSUME NEW p, NEW i \in Nat
  PROVE  /\ NextUse(p, i) \in Times \cup {-1}
         /\ NextUse(p, i) = -1 <=> ~ \E j \in Times : j >= i /\ addrs[j] = p
         /\ NextUse(p, i) # -1 =>
              /\ NextUse(p, i) \in Times /\ NextUse(p, i) >= i
              /\ addrs[NextUse(p, i)] = p
              /\ \A j \in Times : j >= i /\ addrs[j] = p => NextUse(p, i) <= j
<1> DEFINE later == {j \in Times : j >= i /\ addrs[j] = p}
<1>1. later \in SUBSET Nat
  BY TimesAreNats
<1>2. later # {} => Min(later) \in later /\ \A j \in later : Min(later) <= j
  BY <1>1, MinIn
<1>3. NextUse(p, i) = IF later = {} THEN -1 ELSE Min(later)
  BY DEF NextUse
<1> QED BY <1>1, <1>2, <1>3

(* The scan of opt_evict ends at a frame: one of those that are not used   *)
(* again, or one used again last.                                          *)
LEMMA OptVictim ==
  ASSUME OptType
  PROVE  /\ opt_evict \in Frames
         /\ memory[opt_evict] = -1 \/ \A g \in Frames : memory[opt_evict] >= memory[g]
         /\ (\E g \in Frames : memory[g] = -1) => memory[opt_evict] = -1
<1> DEFINE never == {f \in Frames : memory[f] = -1}
           last == {f \in Frames : \A g \in Frames : memory[f] >= memory[g]}
<1>1. never \in SUBSET Nat /\ last \in SUBSET Nat
  BY AFrame
<1>2. CASE never # {}
  BY <1>1, <1>2, MinIn DEF opt_evict
<1>3. CASE never = {}
  <2> DEFINE M == {memory[f] : f \in Frames}
  <2>1. M \in SUBSET (0 .. KnownLen) /\ M # {}
    BY <1>3, AFrame DEF OptType, Times
  <2>2. last # {}
    BY <2>1, MaxIn, TimesAreNats
  <2> QED BY <1>1, <1>3, <2>2, MinIn DEF opt_evict
<1> QED BY <1>2, <1>3

(* A reference to another page does not change when q is used next. *)
LEMMA NextUseLater ==
  ASSUME NEW q, NEW i \in Times, addrs[i] # q
  PROVE  NextUse(q, i) = NextUse(q, i + 1)
<1>1. {j \in Times : j >= i /\ addrs[j] = q} = {j \in Times : j >= i + 1 /\ addrs[j] = q}
  <2>1. \A j \in Times : j >= i /\ addrs[j] = q => j >= i + 1
    <3> SUFFICES ASSUME NEW j \in Times, j >= i, addrs[j] = q PROVE j >= i + 1
      OBVIOUS
    <3>1. j # i /\ j \in Nat /\ i \in Nat
      BY TimesAreNats
    <3> QED BY <3>1
  <2>2. \A j \in Times : j >= i + 1 => j >= i
    BY TimesAreNats
  <2> QED BY <2>1, <2>2
<1> QED BY <1>1 DEF NextUse

(* A reference keeps the types of opt and the table of next uses right:    *)
(* opt_ref is one reference late, and by then the page of the reference    *)
(* before is still in the frame whose time it writes, or that frame is the *)
(* one being written about again.                                          *)
LEMMA OptRefKeeps ==
  ASSUME IInv, OptType, NextUseKnown, NEW t, NEW f \in Frames,
         cur.time < KnownLen, addrs' = addrs, OptRef(f),
         LET p == addrs[cur.time]
         IN  \/ Hit(p, t) /\ f = pte[p].frame
             \/ MissFree(p, t) /\ f = Lowest(FreeFrames)
             \/ Miss(p, t, f)
  PROVE  IInv' /\ OptType' /\ NextUseKnown'
<1> DEFINE p == addrs[cur.time]
           i == cur.time
<1>1. i \in Times /\ i \in 0 .. KnownLen - 1 /\ i + 1 \in Times /\ p \in Pages
  BY TimesAreNats DEF OptType, Traces, Times
<1>2. /\ coremap' = [coremap EXCEPT ![f] = p] /\ IInv'
      /\ \A g \in Frames \ {f} : coremap'[g] = coremap[g] /\ coremap[g] # p
  BY <1>1, ServedPage
<1>3. /\ cur'.time = i + 1 /\ cur'.pre = f
      /\ cur' \in [time : 0 .. KnownLen, pre : Frames \cup {-1}]
  BY <1>1, TimesAreNats DEF OptRef, Times
<1>4. coremap'[f] = p
  BY <1>2 DEF IInv, TypeOK
<1>5. memory' \in [Frames -> Times \cup {-1}]
  <2>1. NextUse(addrs[i - 1], i) \in Times \cup {-1}
    BY <1>1, NextUseType, TimesAreNats
  <2> QED BY <2>1 DEF OptRef, OptType
<1>6. OptType'
  BY <1>1, <1>3, <1>4, <1>5 DEF OptType
<1>7. ASSUME NEW g \in Frames \ {f}, coremap'[g] # NoPage
      PROVE  memory'[g] = NextUse(coremap'[g], i + 1)
  <2>1. memory'[g] = NextUse(coremap[g], i)
    <3>1. CASE g = cur.pre
      <4>1. i > 0 /\ coremap[g] = addrs[i - 1] /\ i # 0
        BY <3>1, <1>1, AFrame, TimesAreNats DEF OptType
      <4> QED BY <3>1, <4>1 DEF OptRef, OptType
    <3>2. CASE g # cur.pre
      <4>1. memory'[g] = memory[g]
        BY <3>2 DEF OptRef, OptType
      <4> QED BY <1>2, <1>7, <3>2, <4>1 DEF NextUseKnown
    <3> QED BY <3>1, <3>2
  <2>2. NextUse(coremap[g], i) = NextUse(coremap[g], i + 1)
    BY <1>1, <1>2, NextUseLater
  <2> QED BY <1>2, <2>1, <2>2
<1>8. NextUseKnown'
  BY <1>3, <1>7 DEF NextUseKnown, NextUse
<1> QED BY <1>2, <1>6, <1>8

(* When a page is referenced, in terms of what the table holds: nothing    *)
(* and the phantom entry both mean never.                                  *)
LEMMA WhenIsNextUse ==
  ASSUME OptType, cur.time < KnownLen, NEW p
  PROVE  LET n == NextUse(p, cur.time)
         IN  When(p) = IF n = -1 \/ n = KnownLen THEN KnownLen ELSE n
<1> DEFINE i == cur.time
           n == NextUse(p, i)
           later == {j \in 0 .. KnownLen - 1 : j >= i /\ addrs[j] = p}
<1>1. i \in Nat /\ KnownLen \in Nat /\ Times = 0 .. KnownLen
  BY TimesAreNats DEF OptType, Times
<1>2. When(p) = IF later = {} THEN KnownLen ELSE Min(later)
  BY DEF When
<1>3. /\ n \in Times \cup {-1}
      /\ n = -1 <=> ~ \E j \in Times : j >= i /\ addrs[j] = p
      /\ n # -1 => /\ n \in Times /\ n >= i /\ addrs[n] = p
                   /\ \A j \in Times : j >= i /\ addrs[j] = p => n <= j
  BY <1>1, NextUseType
<1>4. later \in SUBSET Nat
  BY <1>1
<1>5. CASE n = -1 \/ n = KnownLen
  <2>1. later = {}
    BY <1>1, <1>3, <1>5
  <2> QED BY <1>2, <1>5, <2>1
<1>6. CASE n # -1 /\ n # KnownLen
  <2>1. n \in later /\ \A j \in later : n <= j
    BY <1>1, <1>3, <1>6
  <2>2. Min(later) \in later /\ \A j \in later : Min(later) <= j
    BY <1>4, <2>1, MinIn
  <2>3. Min(later) = n
    BY <1>4, <2>1, <2>2
  <2> QED BY <1>2, <1>6, <2>1, <2>3
<1> QED BY <1>5, <1>6

(* The page opt_evict sends away is not needed before any other, setting   *)
(* aside the page referenced last.                                         *)
LEMMA OptLatest ==
  ASSUME IInv, OptType, NextUseKnown, cur.time < KnownLen,
         NEW p \in Pages, NEW t, Served(p, t, opt_evict)
  PROVE  LatestGoes
<1> SUFFICES ASSUME NEW q \in Pages, Evicted(q), pte[q].frame # cur.pre,
                    NEW r \in Pages, pte[r].valid, pte[r].frame # cur.pre
             PROVE  When(r) <= When(q)
  BY DEF LatestGoes
<1> DEFINE v == opt_evict
           i == cur.time
<1>1. /\ v \in Frames
      /\ memory[v] = -1 \/ \A g \in Frames : memory[v] >= memory[g]
      /\ (\E g \in Frames : memory[g] = -1) => memory[v] = -1
  BY OptVictim
<1>2. Miss(p, t, v) /\ q = coremap[v]
  <2>1. ~Hit(p, t)
    BY HitEffects DEF Evicted
  <2>2. ~MissFree(p, t)
    BY FillEffects DEF Evicted, Resident
  <2>3. Miss(p, t, v)
    BY <2>1, <2>2 DEF Served
  <2> QED BY <1>1, <2>3, EvictEffects DEF Evicted
<1>3. pte[q].frame = v /\ coremap[v] # NoPage
  BY <1>1, <1>2, EvictEffects, PageTableAssumption DEF Resident, IInv, FramesMatch
<1>4. pte[r].frame \in Frames /\ coremap[pte[r].frame] = r /\ r # NoPage
  BY PageTableAssumption DEF IInv, TypeOK, FramesMatch, Entry
<1>5. /\ memory[v] = NextUse(q, i)
      /\ memory[pte[r].frame] = NextUse(r, i)
  BY <1>1, <1>2, <1>3, <1>4 DEF NextUseKnown
<1>6. /\ NextUse(q, i) \in 0 .. KnownLen \cup {-1}
      /\ NextUse(r, i) \in 0 .. KnownLen \cup {-1}
      /\ KnownLen \in Nat
  BY <1>1, <1>4, <1>5, TimesAreNats DEF OptType, Times
<1>7. /\ When(q) = IF NextUse(q, i) \in {-1, KnownLen} THEN KnownLen ELSE NextUse(q, i)
      /\ When(r) = IF NextUse(r, i) \in {-1, KnownLen} THEN KnownLen ELSE NextUse(r, i)
  BY WhenIsNextUse
<1> QED BY <1>1, <1>4, <1>5, <1>6, <1>7

------------------------------------------------------------------------------
(* fifo: as long as frames are free the index has not moved and the pages  *)
(* fill the frames from 0 on, which is why one index can stand for the     *)
(* queue.                                                                  *)
FifoOrder ==
  /\ index \in Frames
  /\ FreeFrames # {} => index = 0
  /\ \A f \in Frames \ FreeFrames : \A g \in 0 .. f : coremap[g] # NoPage

(* fifo's queue: the frames in use from the index on, round the memory. *)
LEMMA QueueShape ==
  ASSUME TypeOK, FifoOrder
  PROVE  LET n == Cardinality(UsedFrames)
         IN  /\ n \in 0 .. memsize /\ (n = memsize <=> FreeFrames = {})
             /\ UsedFrames = 0 .. n - 1
             /\ FreeFrames # {} => Lowest(FreeFrames) = n
             /\ QueueOfFrames = [i \in 1 .. n |-> coremap[(index + i - 1) % memsize]]
             /\ \A i \in 1 .. n : (index + i - 1) % memsize \in UsedFrames
<1> DEFINE n == Cardinality(UsedFrames)
<1>1. /\ n \in 0 .. memsize /\ (n = memsize <=> FreeFrames = {})
      /\ IsFiniteSet(UsedFrames)
  BY FramesFinite, PageTableAssumption
<1>2. Frames \ FreeFrames = UsedFrames
  BY DEF FreeFrames, UsedFrames
<1>3. QueueOfFrames = [i \in 1 .. n |-> coremap[(index + i - 1) % memsize]]
  BY <1>2 DEF QueueOfFrames
<1>4. ASSUME FreeFrames # {}
      PROVE  Lowest(FreeFrames) = n /\ UsedFrames = 0 .. n - 1
  <2> DEFINE k == Lowest(FreeFrames)
  <2>1. FreeFrames \subseteq Nat
    BY AFrame DEF FreeFrames
  <2>2. k \in FreeFrames /\ \A j \in FreeFrames : k <= j
    BY <1>4, <2>1, LowestIn
  <2>3. k \in Nat /\ k \in Frames
    BY <2>1, <2>2 DEF FreeFrames
  <2> HIDE DEF k
  <2>4. ASSUME NEW f \in Frames PROVE f \in UsedFrames <=> f < k
    <3>1. CASE f < k
      <4>1. f \notin FreeFrames
        BY <2>1, <2>2, <2>3, <3>1, AFrame
      <4> QED BY <1>2, <3>1, <4>1
    <3>2. CASE ~(f < k)
      <4>1. k \in 0 .. f
        BY <2>3, <3>2, AFrame
      <4>2. f \notin UsedFrames
        BY <1>2, <2>2, <4>1 DEF FifoOrder, FreeFrames
      <4> QED BY <3>2, <4>2
    <3> QED BY <3>1, <3>2
  <2>5. UsedFrames = 0 .. k - 1
    BY <2>3, <2>4, PageTableAssumption DEF Frames, UsedFrames
  <2>6. Cardinality(0 .. k - 1) = k
    BY <2>3, FS_Interval
  <2> QED BY <2>5, <2>6 DEF k
<1>5. UsedFrames = 0 .. n - 1
  <2>1. CASE FreeFrames = {}
    BY <1>1, <1>2, <2>1 DEF Frames
  <2> QED BY <1>4, <2>1
<1>6. ASSUME NEW i \in 1 .. n PROVE (index + i - 1) % memsize \in UsedFrames
  <2>1. CASE FreeFrames = {}
    <3>1. i - 1 \in 0 .. memsize /\ index + i - 1 = index + (i - 1)
      BY <1>1, PageTableAssumption DEF FifoOrder, Frames
    <3>2. (index + i - 1) % memsize \in Frames
      BY <3>1, Turn, PageTableAssumption DEF FifoOrder, Frames
    <3> QED BY <1>2, <2>1, <3>2
  <2>2. CASE FreeFrames # {}
    <3>1. index = 0 /\ i - 1 \in 0 .. n - 1 /\ i - 1 \in 0 .. memsize - 1
      BY <1>1, <2>2, PageTableAssumption DEF FifoOrder
    <3>2. (index + i - 1) % memsize = i - 1
      BY <3>1, PageTableAssumption
    <3> QED BY <1>5, <3>1, <3>2
  <2> QED BY <2>1, <2>2
<1> QED BY <1>1, <1>3, <1>4, <1>5, <1>6

(* The queue is a sequence of the pages in memory. *)
QueueSound ==
  LET q == QueueOfFrames
  IN  /\ q \in Seq(Pages) /\ Len(q) = Cardinality(UsedFrames)
      /\ \A i \in 1 .. Len(q) : /\ q[i] = coremap[(index + i - 1) % memsize]
                                /\ q[i] \in Resident

(* Each place of the queue holds a page that is in memory. *)
LEMMA QueuePages == IInv /\ FifoOrder => QueueSound
<1> SUFFICES ASSUME IInv, FifoOrder PROVE QueueSound
  OBVIOUS
<1> DEFINE q == QueueOfFrames
           n == Cardinality(UsedFrames)
<1>1. /\ n \in Nat /\ q = [i \in 1 .. n |-> coremap[(index + i - 1) % memsize]]
      /\ \A i \in 1 .. n : (index + i - 1) % memsize \in UsedFrames
  BY QueueShape, PageTableAssumption DEF IInv
<1>2. \A f \in UsedFrames : coremap[f] \in Resident /\ coremap[f] \in Pages
  BY DEF UsedFrames, Resident, IInv, TypeOK, FramesMatch
<1> HIDE DEF n, q
<1>3. q \in [1 .. n -> Pages] /\ \A i \in 1 .. n : q[i] \in Resident
  BY <1>1, <1>2
<1>4. q \in Seq(Pages)
  BY <1>1, <1>3, SeqDef
<1>5. Len(q) = n
  BY <1>1, <1>3, <1>4, LenProperties
<1> QED BY <1>1, <1>3, <1>4, <1>5 DEF q, n, QueueSound

(* A miss with a free frame: the page goes behind the others. *)
LEMMA FifoFills ==
  ASSUME IInv, FifoOrder, alg = "fifo", alg' = alg,
         NEW p \in Pages, NEW t, MissFree(p, t), index' = index
  PROVE  IInv' /\ FifoOrder' /\ Queue!Enter(p)
<1> DEFINE n == Cardinality(UsedFrames)
           q == QueueOfFrames
<1>1. /\ n \in 0 .. memsize - 1 /\ UsedFrames = 0 .. n - 1
      /\ Lowest(FreeFrames) = n /\ n \in Frames /\ index = 0
  BY QueueShape, PageTableAssumption DEF IInv, MissFree, FifoOrder, Frames
<1>2. /\ coremap' = [coremap EXCEPT ![n] = p] /\ UsedFrames' = UsedFrames \cup {n}
      /\ p \notin Resident
  BY <1>1, FillEffects
<1>3. IInv' /\ coremap \in [Frames -> Pages \cup {NoPage}] /\ p # NoPage
  BY MissFreePreserves, PageTableAssumption DEF IInv, TypeOK
<1>4. Frames' \ FreeFrames' = UsedFrames' /\ Frames' = Frames
  BY DEF UsedFrames, FreeFrames, Frames
<1>5. FifoOrder'
  <2>1. UsedFrames' = 0 .. n
    BY <1>1, <1>2
  <2>2. index' \in Frames' /\ index' = 0
    BY <1>1, <1>4 DEF FifoOrder
  <2>3. \A f \in UsedFrames' : \A g \in 0 .. f : g \in UsedFrames'
    BY <1>1, <2>1
  <2> QED BY <1>4, <2>2, <2>3 DEF FifoOrder, UsedFrames
<1>6. Cardinality(UsedFrames') = n + 1
  <2>1. IsFiniteSet(UsedFrames) /\ n \notin UsedFrames
    BY <1>1, FramesFinite DEF IInv
  <2> QED BY <1>2, <2>1, FS_AddElement
<1>7. /\ q \in Seq(Pages) /\ Len(q) = n
      /\ \A i \in 1 .. n : q[i] = coremap[(index + i - 1) % memsize] /\ q[i] \in Resident
  BY QueuePages DEF QueueSound
<1>8. /\ q' \in Seq(Pages) /\ Len(q') = n + 1
      /\ \A i \in 1 .. n + 1 : q'[i] = coremap'[(index' + i - 1) % memsize]
  <2>1. QueueSound'
    BY <1>3, <1>5, QueuePages, PTL
  <2> QED BY <1>6, <2>1 DEF QueueSound
<1> HIDE DEF n, q
<1>9. q' = Append(q, p)
  <2>1. /\ Append(q, p) \in Seq(Pages) /\ Len(Append(q, p)) = n + 1
        /\ \A i \in 1 .. n : Append(q, p)[i] = q[i]
        /\ Append(q, p)[n + 1] = p
    BY <1>7, AppendProperties
  <2>2. ASSUME NEW i \in 1 .. n + 1 PROVE q'[i] = Append(q, p)[i]
    <3>1. (index + i - 1) % memsize = i - 1 /\ i - 1 \in Frames
      BY <1>1, PageTableAssumption DEF Frames
    <3>2. coremap'[i - 1] = IF i = n + 1 THEN p ELSE coremap[i - 1]
      BY <1>1, <1>2, <1>3, <3>1
    <3> QED BY <1>1, <1>7, <1>8, <2>1, <3>1, <3>2
  <2> QED BY <1>8, <2>1, <2>2, SeqEqual
<1>10. p \notin {q[i] : i \in 1 .. Len(q)} /\ Len(q) < memsize
  BY <1>1, <1>2, <1>7, PageTableAssumption
<1>11. Queue!Enter(p)
  BY <1>9, <1>10 DEF Queue!Enter, Queue!Resident, q
<1> QED BY <1>3, <1>5, <1>11

(* A miss with memory full: the oldest page goes, the new one is last. *)
LEMMA FifoCycles ==
  ASSUME IInv, FifoOrder, alg = "fifo", alg' = alg,
         NEW p \in Pages, NEW t, FifoEvict(p, t)
  PROVE  IInv' /\ FifoOrder' /\ Queue!Cycle(p)
<1> DEFINE m == memsize
           q == QueueOfFrames
<1>1. /\ index \in Frames /\ index' = Advance(index) /\ Miss(p, t, index)
      /\ m \in Nat \ {0} /\ Frames = 0 .. m - 1
  BY PageTableAssumption DEF FifoEvict, FifoOrder, Frames
<1>2. /\ FreeFrames = {} /\ p \notin Resident
      /\ coremap' = [coremap EXCEPT ![index] = p]
      /\ UsedFrames' = UsedFrames
  BY <1>1, EvictEffects
<1>3. IInv' /\ coremap \in [Frames -> Pages \cup {NoPage}]
  BY <1>1, MissCleanPreserves, MissDirtyPreserves DEF IInv, TypeOK, Miss
<1>4. /\ UsedFrames = Frames /\ FreeFrames' = {}
      /\ index' \in Frames /\ index' = (index + 1) % m
  BY <1>1, <1>2, AdvanceFrame DEF UsedFrames, FreeFrames, Frames
<1>5. FifoOrder'
  <2>1. \A f \in Frames : \A g \in 0 .. f : g \in UsedFrames'
    BY <1>1, <1>2, <1>4
  <2> QED BY <1>4, <2>1 DEF FifoOrder, UsedFrames, Frames
<1>6. Cardinality(UsedFrames) = m
  BY <1>2, FramesFinite DEF IInv
<1>7. /\ q \in Seq(Pages) /\ Len(q) = m
      /\ \A i \in 1 .. m : q[i] = coremap[(index + i - 1) % m] /\ q[i] \in Resident
  BY <1>6, QueuePages DEF QueueSound
<1>8. /\ q' \in Seq(Pages) /\ Len(q') = m
      /\ \A i \in 1 .. m : q'[i] = coremap'[(index' + i - 1) % m]
  <2>1. QueueSound'
    BY <1>3, <1>5, QueuePages, PTL
  <2> QED BY <1>2, <1>6, <2>1 DEF QueueSound
<1> HIDE DEF m, q
<1>0. /\ \A k \in 0 .. m : (index + k) % m = IF index + k < m THEN index + k
                                                              ELSE index + k - m
      /\ index \in 0 .. m - 1 /\ m \in Nat \ {0}
  <2>1. index \in 0 .. m - 1
    BY <1>1
  <2> QED BY <1>1, <2>1, Turn
<1>9. q' = Append(Tail(q), p)
  <2>1. /\ Tail(q) \in Seq(Pages) /\ Len(Tail(q)) = m - 1
        /\ \A i \in 1 .. m - 1 : Tail(q)[i] = q[i + 1]
    BY <1>1, <1>7, EmptySeq, HeadTailProperties
  <2>2. /\ Append(Tail(q), p) \in Seq(Pages) /\ Len(Append(Tail(q), p)) = m
        /\ \A i \in 1 .. m - 1 : Append(Tail(q), p)[i] = q[i + 1]
        /\ Append(Tail(q), p)[m] = p
    BY <1>1, <2>1, AppendProperties
  <2>3. ASSUME NEW i \in 1 .. m PROVE q'[i] = Append(Tail(q), p)[i]
    <3>1. (index' + i - 1) % m = (index + i) % m
      <4>1. index' = IF index + 1 < m THEN index + 1 ELSE 0
        BY <1>0, <1>4
      <4>2. (index + i) % m = IF index + i < m THEN index + i ELSE index + i - m
        <5>1. i \in 0 .. m
          BY <1>0
        <5> QED BY <1>0, <5>1
      <4>3. i - 1 \in 0 .. m /\ index' + i - 1 = index' + (i - 1)
        BY <1>1, <1>4
      <4>4. (index' + i - 1) % m = IF index' + i - 1 < m THEN index' + i - 1
                                                        ELSE index' + i - 1 - m
        BY <1>1, <1>4, <4>3, Turn
      <4> QED BY <1>1, <4>1, <4>2, <4>4
    <3>2. CASE i = m
      <4>1. (index + m) % m = index
        BY <1>0
      <4>2. q'[i] = p
        BY <1>1, <1>2, <1>3, <1>8, <3>1, <3>2, <4>1
      <4> QED BY <2>2, <3>2, <4>2
    <3>3. CASE i # m
      <4>1. (index + i) % m \in Frames /\ (index + i) % m # index
        BY <1>0, <1>1, <3>3
      <4>2. q'[i] = coremap[(index + i) % m]
        BY <1>1, <1>2, <1>3, <1>8, <3>1, <4>1
      <4>3. i + 1 \in 1 .. m /\ index + (i + 1) - 1 = index + i
        BY <1>1, <3>3
      <4>4. q[i + 1] = coremap[(index + i) % m]
        BY <1>7, <4>3
      <4>5. i \in 1 .. m - 1
        BY <1>1, <3>3
      <4> QED BY <2>2, <4>2, <4>4, <4>5
    <3> QED BY <3>2, <3>3
  <2> QED BY <1>8, <2>2, <2>3, SeqEqual
<1>10. p \notin {q[i] : i \in 1 .. Len(q)} /\ Len(q) = memsize
  BY <1>2, <1>7 DEF m
<1>11. Queue!Cycle(p)
  BY <1>9, <1>10 DEF Queue!Cycle, Queue!Resident, q
<1> QED BY <1>3, <1>5, <1>11

------------------------------------------------------------------------------
(* clock: the recursion of clock_evict, in closed form.  From a hand and   *)
(* reference bits it passes the frames whose pages are referenced, a whole *)
(* turn at the most, and moves the hand twice for each of them.            *)
Hands == [index : Frames, ref : [Pages -> BOOLEAN]]

(* Frame numbers up to three turns ahead. *)
Wrap(a) == IF a < memsize THEN a
           ELSE IF a < 2 * memsize THEN a - memsize
           ELSE IF a < 3 * memsize THEN a - 2 * memsize ELSE a - 3 * memsize

Page(s, k) == coremap[Wrap(s.index + k)]

Passed(s) == Lowest({k \in 0 .. memsize : k = memsize \/ ~s.ref[Page(s, k)]})

Search == [s \in Hands |->
             [evict |-> Wrap(s.index + Passed(s)),
              index |-> Wrap(s.index + 2 * Passed(s) + 1),
              ref   |-> [q \in Pages |->
                           s.ref[q] /\ \A k \in 0 .. Passed(s) - 1 : Page(s, k) # q]]]

(* The state the recursive call starts from. *)
Onward(s) == [index |-> Advance(s.index), ref |-> Unreference(s.ref, coremap[s.index])]

(* Walking on from a frame, up to three times round the memory. *)
LEMMA WrapFrames ==
  ASSUME NEW a \in 0 .. 3 * memsize
  PROVE  /\ Wrap(a) \in Frames
         /\ a < 3 * memsize => Advance(Wrap(a)) = Wrap(a + 1)
         /\ a < memsize => Wrap(a) = a
         /\ a <= 2 * memsize => Wrap(a + memsize) = Wrap(a)
BY PageTableAssumption DEF Wrap, Frames, Advance

(* The frames up to one round ahead of the hand are all different. *)
LEMMA WrapAhead ==
  ASSUME NEW h \in Frames, NEW k \in 0 .. memsize
  PROVE  /\ Wrap(h + k) \in Frames
         /\ Wrap(h + k) = (h + k) % memsize
         /\ k # memsize => (Wrap(h + k) - h) % memsize = k
         /\ \A j \in 0 .. memsize - 1 : j # k /\ k # memsize => Wrap(h + j) # Wrap(h + k)
BY PageTableAssumption DEF Wrap, Frames

(* The hand passes the referenced pages up to the first that is not. *)
LEMMA PassedIs ==
  ASSUME TypeOK, FreeFrames = {}, NEW s \in Hands
  PROVE  /\ Passed(s) \in 0 .. memsize
         /\ \A k \in 0 .. Passed(s) - 1 : s.ref[Page(s, k)]
         /\ Passed(s) = memsize \/ ~s.ref[Page(s, Passed(s))]
         /\ \A n \in 0 .. memsize :
              /\ \A k \in 0 .. n - 1 : s.ref[Page(s, k)]
              /\ n = memsize \/ ~s.ref[Page(s, n)]
              => n = Passed(s)
<1> DEFINE S == {k \in 0 .. memsize : k = memsize \/ ~s.ref[Page(s, k)]}
<1>1. S \subseteq Nat /\ S # {} /\ memsize \in Nat
  BY PageTableAssumption
<1>2. Passed(s) \in S /\ \A k \in S : Passed(s) <= k
  BY <1>1, LowestIn DEF Passed
<1> HIDE DEF Passed
<1>3. ASSUME NEW k \in 0 .. Passed(s) - 1 PROVE s.ref[Page(s, k)]
  BY <1>1, <1>2
<1>4. ASSUME NEW n \in 0 .. memsize,
             \A k \in 0 .. n - 1 : s.ref[Page(s, k)],
             n = memsize \/ ~s.ref[Page(s, n)]
      PROVE  n = Passed(s)
  <2>1. n \in S /\ Passed(s) <= n
    BY <1>2, <1>4
  <2>2. ~(Passed(s) < n)
    <3> SUFFICES ASSUME Passed(s) < n PROVE FALSE
      OBVIOUS
    <3>1. Passed(s) \in 0 .. n - 1 /\ Passed(s) # memsize
      BY <1>1, <1>2
    <3> QED BY <1>2, <1>4, <3>1
  <2> QED BY <1>1, <1>2, <2>1, <2>2
<1> QED BY <1>2, <1>3, <1>4

(* One level of the recursion: a referenced page is passed, and what is    *)
(* passed from there on is one less.                                       *)
LEMMA PassedOnward ==
  ASSUME IInv, FreeFrames = {}, NEW s \in Hands, s.ref[coremap[s.index]]
  PROVE  /\ Onward(s) \in Hands /\ Passed(s) >= 1
         /\ Passed(Onward(s)) = Passed(s) - 1
         /\ \A k \in 0 .. memsize - 1 : Page(Onward(s), k) = Page(s, k + 1)
<1> DEFINE h == s.index
           n == Passed(s)
           v == coremap[h]
           o == Onward(s)
<1>1. /\ h \in Frames /\ s.ref \in [Pages -> BOOLEAN]
      /\ h \in 0 .. memsize - 1 /\ memsize \in Nat \ {0}
  BY PageTableAssumption DEF Hands, Frames
<1>2. \A f \in Frames : coremap[f] \in Pages
  BY DEF IInv, TypeOK, FreeFrames
<1>3. \A f, g \in Frames : coremap[f] = coremap[g] => f = g
  BY <1>2, PageTableAssumption DEF IInv, FramesMatch
<1>4. o.index = Advance(h) /\ o.ref = [s.ref EXCEPT ![v] = FALSE] /\ o \in Hands
  BY <1>1, <1>2, AdvanceFrame DEF Onward, Unreference, Hands
<1>5. /\ n \in 0 .. memsize
      /\ \A k \in 0 .. n - 1 : s.ref[Page(s, k)]
      /\ n = memsize \/ ~s.ref[Page(s, n)]
  BY PassedIs DEF IInv
<1>6. Page(s, 0) = v /\ s.ref[v]
  BY <1>1 DEF Page, Wrap
<1> HIDE DEF n, h, o
<1>7. n >= 1
  <2>1. n # 0
    BY <1>1, <1>5, <1>6
  <2> QED BY <1>5, <2>1
<1>8. ASSUME NEW k \in 0 .. memsize - 1
      PROVE  Page(o, k) = Page(s, k + 1) /\ Wrap(h + (k + 1)) \in Frames
  <2>1. Advance(h) = Wrap(h + 1) /\ Wrap(Wrap(h + 1) + k) = Wrap(h + (k + 1))
    BY <1>1 DEF Wrap, Advance
  <2>2. k + 1 \in 0 .. memsize
    BY <1>1
  <2> QED BY <1>1, <1>4, <2>1, <2>2, WrapAhead DEF Page, h
<1>9. ASSUME NEW k \in 0 .. memsize - 1
      PROVE  /\ k + 1 # memsize => o.ref[Page(o, k)] = s.ref[Page(s, k + 1)]
             /\ k + 1 = memsize => o.ref[Page(o, k)] = FALSE
  <2>1. /\ Page(s, k + 1) = coremap[Wrap(h + (k + 1))]
        /\ Wrap(h + (k + 1)) \in Frames /\ Page(s, k + 1) \in Pages
    BY <1>2, <1>8 DEF Page, h
  <2>2. k + 1 # memsize => Wrap(h + (k + 1)) # h
    BY <1>1 DEF Wrap
  <2>3. k + 1 = memsize => Wrap(h + (k + 1)) = h
    BY <1>1 DEF Wrap
  <2>4. CASE k + 1 # memsize
    <3>1. Page(s, k + 1) # v
      BY <1>1, <1>3, <2>1, <2>2, <2>4
    <3> QED BY <1>1, <1>4, <1>8, <2>1, <2>4, <3>1
  <2>5. CASE k + 1 = memsize
    <3>1. Page(s, k + 1) = v
      BY <2>1, <2>3, <2>5
    <3> QED BY <1>1, <1>4, <1>8, <2>1, <2>5, <3>1
  <2> QED BY <2>4, <2>5
<1>10. Passed(o) = n - 1
  <2>1. n - 1 \in 0 .. memsize
    BY <1>1, <1>5, <1>7
  <2>2. ASSUME NEW k \in 0 .. n - 1 - 1 PROVE o.ref[Page(o, k)]
    <3>1. k \in 0 .. memsize - 1 /\ k + 1 # memsize /\ k + 1 \in 0 .. n - 1
      BY <1>1, <1>5
    <3> QED BY <1>5, <1>9, <3>1
  <2>3. n - 1 = memsize \/ ~o.ref[Page(o, n - 1)]
    <3>1. n - 1 \in 0 .. memsize - 1 /\ n - 1 + 1 = n
      BY <1>1, <1>5, <1>7
    <3> QED BY <1>5, <1>9, <3>1
  <2> QED BY <1>4, <2>1, <2>2, <2>3, PassedIs DEF IInv
<1> QED BY <1>4, <1>7, <1>8, <1>10 DEF n, o

(* The closed form is a solution of the equation that clock_evict's search *)
(* is defined by.                                                          *)
Level(F, s) ==
  IF s.ref[coremap[s.index]]
  THEN [F[Onward(s)] EXCEPT !.index = Advance(@)]
  ELSE [evict |-> s.index, index |-> Advance(s.index), ref |-> s.ref]

(* The recursion of clock_evict: take the frame, or clear its bit and go on. *)
LEMMA SearchLevel ==
  ASSUME IInv, FreeFrames = {}, NEW s \in Hands
  PROVE  Search[s] = Level(Search, s)
<1> DEFINE h == s.index
           n == Passed(s)
           o == Onward(s)
           R(x) == [q \in Pages |-> x.ref[q] /\ \A k \in 0 .. Passed(x) - 1 : Page(x, k) # q]
<1>1. /\ h \in Frames /\ s.ref \in [Pages -> BOOLEAN]
      /\ h \in 0 .. memsize - 1 /\ memsize \in Nat \ {0}
  BY PageTableAssumption DEF Hands, Frames
<1>2. /\ n \in 0 .. memsize
      /\ \A k \in 0 .. n - 1 : s.ref[Page(s, k)]
      /\ n = memsize \/ ~s.ref[Page(s, n)]
      /\ Page(s, 0) = coremap[h]
  BY <1>1, PassedIs DEF IInv, Page, Wrap
<1>3. Search[s] = [evict |-> Wrap(h + n), index |-> Wrap(h + 2 * n + 1), ref |-> R(s)]
  BY DEF Search
<1>4. CASE s.ref[coremap[h]]
  <2>1. /\ o \in Hands /\ n >= 1 /\ Passed(o) = n - 1
        /\ \A k \in 0 .. memsize - 1 : Page(o, k) = Page(s, k + 1)
    BY <1>4, PassedOnward
  <2>2. Search[o] = [evict |-> Wrap(o.index + (n - 1)),
                     index |-> Wrap(o.index + 2 * (n - 1) + 1), ref |-> R(o)]
    BY <2>1 DEF Search
  <2>3. o.index = Wrap(h + 1) /\ o.ref = [s.ref EXCEPT ![coremap[h]] = FALSE]
    BY <1>1 DEF Onward, Unreference, Advance, Wrap
  <2> HIDE DEF n, h, o
  <2>4. Wrap(o.index + (n - 1)) = Wrap(h + n)
    BY <1>1, <1>2, <2>1, <2>3 DEF Wrap
  <2>5. Advance(Wrap(o.index + 2 * (n - 1) + 1)) = Wrap(h + 2 * n + 1)
    BY <1>1, <1>2, <2>1, <2>3 DEF Wrap, Advance
  <2>6. R(o) = R(s)
    <3> SUFFICES ASSUME NEW q \in Pages
                 PROVE  (o.ref[q] /\ \A k \in 0 .. n - 1 - 1 : Page(o, k) # q)
                          = (s.ref[q] /\ \A k \in 0 .. n - 1 : Page(s, k) # q)
      BY <2>1 DEF n
    <3>1. (\A k \in 0 .. n - 1 : Page(s, k) # q) <=>
             Page(s, 0) # q /\ \A k \in 0 .. n - 1 - 1 : Page(o, k) # q
      <4>1. \A k \in 1 .. n - 1 : k - 1 \in 0 .. n - 1 - 1 /\ Page(o, k - 1) = Page(s, k)
        BY <1>1, <1>2, <2>1
      <4>2. \A k \in 0 .. n - 1 - 1 : k + 1 \in 1 .. n - 1 /\ Page(o, k) = Page(s, k + 1)
        BY <1>1, <1>2, <2>1
      <4>3. 0 .. n - 1 = {0} \cup 1 .. n - 1
        BY <1>2, <2>1
      <4> QED BY <4>1, <4>2, <4>3
    <3>2. o.ref[q] = IF q = coremap[h] THEN FALSE ELSE s.ref[q]
      BY <1>1, <2>3
    <3> QED BY <1>1, <1>2, <3>1, <3>2
  <2> QED BY <1>3, <1>4, <2>2, <2>4, <2>5, <2>6 DEF Level, h, o
<1>5. CASE ~s.ref[coremap[h]]
  <2>1. n = 0
    <3>1. 0 \in 0 .. n - 1 \/ n = 0
      BY <1>2
    <3> QED BY <1>2, <1>5, <3>1
  <2>2. Wrap(h + n) = h /\ Wrap(h + 2 * n + 1) = Advance(h)
    BY <1>1, <2>1 DEF Wrap, Advance
  <2>3. R(s) = s.ref
    BY <1>1, <2>1
  <2> QED BY <1>3, <1>5, <2>2, <2>3 DEF Level
<1> QED BY <1>4, <1>5

(* So it is the only one, and clock_evict is that closed form. *)
LEMMA ClockEvictIs ==
  ASSUME IInv, FreeFrames = {}, NEW hand \in Frames, NEW bits \in [Pages -> BOOLEAN]
  PROVE  clock_evict(hand, bits) = Search[[index |-> hand, ref |-> bits]]
<1> DEFINE Solves(F) == F = [s \in Hands |-> Level(F, s)]
           F0 == CHOOSE F : Solves(F)
<1>1. Solves(Search)
  <2>1. Search = [s \in Hands |-> Search[s]]
    BY DEF Search
  <2> QED BY <2>1, SearchLevel
<1>2. Solves(F0)
  BY <1>1
<1>3. clock_evict(hand, bits) = F0[[index |-> hand, ref |-> bits]]
  BY DEF clock_evict, Returned, Level, Onward, Hands
<1> HIDE DEF F0
<1>4. \A s \in Hands : F0[s] = Search[s]
  <2> DEFINE Bad == {n \in 0 .. memsize : \E s \in Hands : Passed(s) = n /\ F0[s] # Search[s]}
  <2> SUFFICES ASSUME NEW r \in Hands, F0[r] # Search[r] PROVE FALSE
    OBVIOUS
  <2>1. Bad \subseteq Nat /\ Bad # {}
    BY PassedIs, PageTableAssumption DEF IInv
  <2>2. Lowest(Bad) \in Bad /\ \A j \in Bad : Lowest(Bad) <= j
    BY <2>1, LowestIn
  <2>3. PICK s \in Hands : Passed(s) = Lowest(Bad) /\ F0[s] # Search[s]
    BY <2>2
  <2>4. F0[s] = Level(F0, s) /\ Search[s] = Level(Search, s)
    BY <1>2, SearchLevel
  <2>5. s.ref[coremap[s.index]] /\ F0[Onward(s)] # Search[Onward(s)]
    BY <2>3, <2>4 DEF Level
  <2>6. Onward(s) \in Hands /\ Passed(Onward(s)) = Passed(s) - 1 /\ Passed(s) >= 1
    BY <2>5, PassedOnward
  <2>7. Passed(s) - 1 \in Bad
    <3>1. Passed(Onward(s)) \in 0 .. memsize
      BY <2>6, PassedIs DEF IInv
    <3> QED BY <2>5, <2>6, <3>1
  <2>8. Passed(s) \in Nat
    BY <2>1, <2>2, <2>3
  <2> QED BY <2>2, <2>3, <2>7, <2>8
<1>5. [index |-> hand, ref |-> bits] \in Hands
  BY DEF Hands
<1> QED BY <1>3, <1>4, <1>5

(* What clock keeps: the hand on a frame, the bits bits. *)
ClockType == index \in Frames /\ refbit \in [Pages -> BOOLEAN]

(* A reference leaves the bits bits. *)
LEMMA ReferenceKeeps ==
  ASSUME NEW p, NEW ref \in [Pages -> BOOLEAN], Reference(p, ref)
  PROVE  refbit' \in [Pages -> BOOLEAN]
BY DEF Reference

(* The hand after its moves: at most twice round, and one more. *)
LEMMA WrapIsMod ==
  ASSUME NEW h \in Frames, NEW n \in 0 .. memsize
  PROVE  Wrap(h + 2 * n + 1) = (h + 2 * n + 1) % memsize
<1> DEFINE a == h + 2 * n + 1
<1>1. memsize \in Nat \ {0} /\ a \in 0 .. 3 * memsize
  BY PageTableAssumption DEF Frames
<1> HIDE DEF a
<1> QED BY <1>1 DEF Wrap, a

(* The victim of clock: the first unreferenced page from the hand on, or   *)
(* the page under the hand after a whole turn.                             *)
LEMMA ClockChooses ==
  ASSUME IInv, FreeFrames = {}, ClockType
  PROVE  LET choice == clock_evict(index, refbit)
         IN  /\ choice.evict \in Frames /\ choice.index \in Frames
             /\ choice.ref \in [Pages -> BOOLEAN]
             /\ \E n \in 0 .. memsize :
                  /\ choice.evict = (index + n) % memsize
                  /\ n # memsize => (choice.evict - index) % memsize = n
                  /\ \A k \in 0 .. n - 1 : refbit[coremap[(index + k) % memsize]]
                  /\ n # memsize => ~refbit[coremap[choice.evict]]
                  /\ choice.index = (index + 2 * n + 1) % memsize
<1> DEFINE s == [index |-> index, ref |-> refbit]
           n == Passed(s)
           choice == clock_evict(index, refbit)
<1>1. s \in Hands /\ s.index = index /\ s.ref = refbit
  BY DEF ClockType, Hands
<1>2. choice = [evict |-> Wrap(index + n),
                index |-> Wrap(index + 2 * n + 1),
                ref   |-> [q \in Pages |->
                             refbit[q] /\ \A k \in 0 .. n - 1 : Page(s, k) # q]]
  <2>1. choice = Search[s]
    BY ClockEvictIs DEF ClockType
  <2> HIDE DEF s, choice
  <2> QED BY <1>1, <2>1 DEF Search
<1>3. /\ n \in 0 .. memsize
      /\ \A k \in 0 .. n - 1 : refbit[Page(s, k)]
      /\ n = memsize \/ ~refbit[Page(s, n)]
  BY <1>1, PassedIs DEF IInv
<1>4. memsize \in Nat \ {0} /\ index \in 0 .. memsize - 1
  BY PageTableAssumption DEF ClockType, Frames
<1>5. \A k \in 0 .. memsize : Page(s, k) = coremap[(index + k) % memsize]
  BY <1>1, WrapAhead DEF Page, ClockType
<1>6. /\ choice.evict = Wrap(index + n) /\ choice.index = Wrap(index + 2 * n + 1)
      /\ choice.ref \in [Pages -> BOOLEAN]
  BY <1>2 DEF ClockType
<1> HIDE DEF n, s, choice
<1>7. /\ choice.evict \in Frames /\ choice.evict = (index + n) % memsize
      /\ n # memsize => (choice.evict - index) % memsize = n
  BY <1>3, <1>6, WrapAhead DEF ClockType
<1>8. choice.index \in Frames
  BY <1>3, <1>4, <1>6, WrapFrames
<1>9. \A k \in 0 .. n - 1 : refbit[coremap[(index + k) % memsize]]
  <2>1. \A k \in 0 .. n - 1 : k \in 0 .. memsize
    BY <1>3, <1>4
  <2> QED BY <1>3, <1>5, <2>1
<1>10. n # memsize => ~refbit[coremap[choice.evict]]
  BY <1>3, <1>5, <1>7
<1>11. choice.index = (index + 2 * n + 1) % memsize
  <2>1. Wrap(index + 2 * n + 1) = (index + 2 * n + 1) % memsize
    BY <1>3, WrapIsMod DEF ClockType
  <2> QED BY <1>6, <2>1
<1> QED BY <1>3, <1>6, <1>7, <1>8, <1>9, <1>10, <1>11 DEF choice

(* Every referenced page has its chance, and the hand moves on. *)
LEMMA ClockIsFair ==
  ASSUME IInv, ClockType, NEW p \in Pages, NEW t,
         \/ Hit(p, t)
         \/ MissFree(p, t)
         \/ /\ FreeFrames = {} /\ Miss(p, t, clock_evict(index, refbit).evict)
            /\ index' = clock_evict(index, refbit).index
  PROVE  HandPassedReferenced /\ ChanceGiven /\ HandMovesOn
<1>1. CASE Hit(p, t) \/ MissFree(p, t)
  <2>1. \A q \in Pages : ~Evicted(q)
    <3>1. CASE Hit(p, t)
      BY <3>1, HitEffects DEF Evicted
    <3>2. CASE MissFree(p, t)
      BY <3>2, FillEffects DEF Evicted, Resident
    <3> QED BY <1>1, <3>1, <3>2
  <2>2. \A f \in Frames : FreeFrames = {} => coremap[f] \in Pages
    BY DEF IInv, TypeOK, FreeFrames
  <2> QED BY <2>1, <2>2 DEF HandPassedReferenced, ChanceGiven, HandMovesOn
<1>2. CASE /\ FreeFrames = {} /\ Miss(p, t, clock_evict(index, refbit).evict)
           /\ index' = clock_evict(index, refbit).index
  <2> DEFINE v == clock_evict(index, refbit).evict
  <2>1. PICK n \in 0 .. memsize :
          /\ v \in Frames /\ v = (index + n) % memsize
          /\ n # memsize => (v - index) % memsize = n
          /\ \A k \in 0 .. n - 1 : refbit[coremap[(index + k) % memsize]]
          /\ n # memsize => ~refbit[coremap[v]]
          /\ index' = (index + 2 * n + 1) % memsize
    BY <1>2, ClockChooses
  <2> HIDE DEF v
  <2>2. \A q \in Pages : Evicted(q) => q = coremap[v]
    BY <1>2, <2>1, EvictEffects DEF Evicted, v
  <2>3. /\ \A f \in Frames : coremap[f] \in Pages
        /\ \A f, g \in Frames : coremap[f] = coremap[g] => f = g
    BY <1>2, PageTableAssumption DEF IInv, TypeOK, FreeFrames, FramesMatch
  <2>4. memsize \in Nat \ {0} /\ index \in 0 .. memsize - 1 /\ Frames = 0 .. memsize - 1
    BY PageTableAssumption DEF ClockType, Frames
  <2>5. CASE n = memsize
    <3>1. v = index
      <4>1. memsize \in 0 .. memsize /\ (index + memsize) % memsize = index
        BY <2>4
      <4> QED BY <2>1, <2>5, <4>1
    <3>2. ASSUME NEW f \in Frames PROVE refbit[coremap[f]]
      <4> DEFINE k == IF f >= index THEN f - index ELSE f - index + memsize
      <4>1. k \in 0 .. memsize - 1 /\ (index + k) % memsize = f
        BY <2>4
      <4> QED BY <2>1, <2>5, <4>1
    <3>3. ChanceGiven
      <4>1. \A r \in Pages : pte[r].valid => \E f \in Frames : r = coremap[f]
        BY DEF IInv, TypeOK, FramesMatch, Entry
      <4> QED BY <2>2, <3>1, <3>2, <4>1 DEF ChanceGiven
    <3>4. HandPassedReferenced
      BY <3>2 DEF HandPassedReferenced
    <3>5. HandMovesOn
      BY <2>1, <2>5, <3>2 DEF HandMovesOn
    <3> QED BY <3>3, <3>4, <3>5
  <2>6. CASE n # memsize
    <3>1. HandPassedReferenced
      BY <2>1, <2>2, <2>3, <2>6 DEF HandPassedReferenced
    <3>2. ChanceGiven
      BY <2>1, <2>2, <2>6 DEF ChanceGiven
    <3>3. HandMovesOn
      <4>1. ASSUME NEW f \in Frames, Evicted(coremap[f])
            PROVE  f = v
        BY <2>1, <2>2, <2>3, <4>1
      <4> QED BY <2>1, <2>6, <4>1 DEF HandMovesOn
    <3> QED BY <3>1, <3>2, <3>3
  <2> QED BY <2>5, <2>6
<1> QED BY <1>1, <1>2

------------------------------------------------------------------------------
(* lru: sequences in which an element comes to the front. *)
LEMMA ConsSeq ==
  ASSUME NEW S, NEW s \in Seq(S), NEW e \in S
  PROVE  /\ <<e>> \o s \in Seq(S) /\ Len(<<e>> \o s) = Len(s) + 1
         /\ \A j \in 1 .. Len(s) + 1 :
              (<<e>> \o s)[j] = IF j = 1 THEN e ELSE s[j - 1]
<1>1. <<e>> \in Seq(S) /\ Len(<<e>>) = 1 /\ <<e>>[1] = e
  OBVIOUS
<1>2. Len(s) \in Nat
  OBVIOUS
<1> DEFINE h == <<e>>
<1>3. h \in Seq(S) /\ Len(h) = 1 /\ h[1] = e
  BY <1>1
<1> HIDE DEF h
<1>4. /\ h \o s \in Seq(S) /\ Len(h \o s) = 1 + Len(s)
      /\ \A j \in 1 .. 1 + Len(s) : (h \o s)[j] = IF j <= 1 THEN h[j] ELSE s[j - 1]
  <2>1. /\ h \o s \in Seq(S) /\ Len(h \o s) = Len(h) + Len(s)
        /\ \A j \in 1 .. Len(h) + Len(s) :
             (h \o s)[j] = IF j <= Len(h) THEN h[j] ELSE s[j - Len(h)]
    BY <1>3, ConcatProperties
  <2> QED BY <1>3, <2>1
<1>5. \A j \in 1 .. Len(s) + 1 : (h \o s)[j] = IF j = 1 THEN e ELSE s[j - 1]
  <2> TAKE j \in 1 .. Len(s) + 1
  <2>1. j \in 1 .. 1 + Len(s) /\ (j <= 1 <=> j = 1)
    BY <1>2
  <2> QED BY <1>3, <1>4, <2>1
<1> QED BY <1>2, <1>4, <1>5 DEF h

(* A sequence without its member at i. *)
LEMMA WithoutOne ==
  ASSUME NEW S, NEW s \in Seq(S), NEW i \in 1 .. Len(s)
  PROVE  LET r == SubSeq(s, 1, i - 1) \o SubSeq(s, i + 1, Len(s))
         IN  /\ r \in Seq(S) /\ Len(r) = Len(s) - 1
             /\ \A j \in 1 .. Len(s) - 1 : r[j] = IF j < i THEN s[j] ELSE s[j + 1]
<1> DEFINE n == Len(s)
           a == SubSeq(s, 1, i - 1)
           b == SubSeq(s, i + 1, n)
<1>1. n \in Nat /\ i \in 1 .. n /\ i \in Int /\ \A j \in 1 .. n : s[j] \in S
  OBVIOUS
<1>2. /\ a \in Seq(S) /\ Len(a) = i - 1
      /\ \A j \in 1 .. i - 1 : a[j] = s[j]
  <2>1. /\ i - 1 \in Int /\ 1 \in Int /\ \A j \in 1 .. i - 1 : s[j] \in S
    BY <1>1
  <2>2. /\ a \in Seq(S) /\ Len(a) = IF 1 <= i - 1 THEN i - 1 - 1 + 1 ELSE 0
        /\ \A j \in 1 .. i - 1 - 1 + 1 : a[j] = s[1 + j - 1]
    BY <2>1, SubSeqProperties
  <2> HIDE DEF a
  <2> QED BY <1>1, <2>2
<1>3. /\ b \in Seq(S) /\ Len(b) = n - i
      /\ \A j \in 1 .. n - i : b[j] = s[i + j]
  <2>1. /\ i + 1 \in Int /\ n \in Int /\ \A j \in i + 1 .. n : s[j] \in S
    BY <1>1
  <2>2. /\ b \in Seq(S) /\ Len(b) = IF i + 1 <= n THEN n - (i + 1) + 1 ELSE 0
        /\ \A j \in 1 .. n - (i + 1) + 1 : b[j] = s[i + 1 + j - 1]
    BY <2>1, SubSeqProperties
  <2> HIDE DEF b, n
  <2> QED BY <1>1, <2>2
<1> HIDE DEF a, b, n
<1>4. /\ a \o b \in Seq(S) /\ Len(a \o b) = i - 1 + (n - i)
      /\ \A j \in 1 .. i - 1 + (n - i) :
           (a \o b)[j] = IF j <= i - 1 THEN a[j] ELSE b[j - (i - 1)]
  <2>1. /\ a \o b \in Seq(S) /\ Len(a \o b) = Len(a) + Len(b)
        /\ \A j \in 1 .. Len(a) + Len(b) :
             (a \o b)[j] = IF j <= Len(a) THEN a[j] ELSE b[j - Len(a)]
    BY <1>2, <1>3, ConcatProperties
  <2> QED BY <1>2, <1>3, <2>1
<1>5. ASSUME NEW j \in 1 .. n - 1
      PROVE  (a \o b)[j] = IF j < i THEN s[j] ELSE s[j + 1]
  <2>1. j \in 1 .. i - 1 + (n - i)
    BY <1>1
  <2>2. CASE j < i
    BY <1>1, <1>2, <1>4, <2>1, <2>2
  <2>3. CASE ~(j < i)
    <3>1. j - (i - 1) \in 1 .. n - i /\ i + (j - (i - 1)) = j + 1 /\ ~(j <= i - 1)
      BY <1>1, <2>3
    <3> QED BY <1>3, <1>4, <2>1, <2>3, <3>1
  <2> QED BY <2>2, <2>3
<1>6. Len(a \o b) = n - 1
  BY <1>1, <1>4
<1> QED BY <1>4, <1>5, <1>6 DEF a, b, n

(* The pages of the listed frames form a sequence of pages in memory. *)
PageSeq(q, n, fs) ==
  /\ q \in Seq(Pages) /\ Len(q) = n
  /\ \A k \in 1 .. n : q[k] = coremap[fs[k]] /\ q[k] \in Resident

SequencesAreRight ==
  \A n, fs : IInv /\ (\E sq : Listed(list, n, sq, fs)) /\ Current(n, fs)
              => PageSeq(PagesByRecency, n, fs)

(* PagesByRecency reads the pages off the list, newest first. *)
LEMMA RecencySequence == SequencesAreRight
<1> SUFFICES ASSUME NEW n, NEW fs,
                    IInv, \E sq : Listed(list, n, sq, fs), Current(n, fs)
             PROVE  PageSeq(PagesByRecency, n, fs)
  BY DEF SequencesAreRight
<1>0. PICK sq : Listed(list, n, sq, fs)
  OBVIOUS
<1> DEFINE q == PagesByRecency
<1>1. n \in Nat /\ fs \in [1 .. n -> Frames] /\ q = [k \in 1 .. n |-> coremap[fs[k]]]
  <2>1. n \in Nat /\ fs \in [1 .. n -> Frames]
    BY <1>0 DEF Listed, Linked
  <2>2. PagesByRecency = [k \in 1 .. n |-> coremap[fs[k]]]
    BY <1>0, PagesInOrder
  <2> QED BY <2>1, <2>2
<1>2. \A k \in 1 .. n : fs[k] \in UsedFrames
  BY DEF Current, FramesOf
<1>3. \A f \in UsedFrames : coremap[f] \in Resident /\ coremap[f] \in Pages
  BY DEF UsedFrames, Resident, IInv, TypeOK, FramesMatch
<1> HIDE DEF q
<1>4. q \in [1 .. n -> Pages] /\ \A k \in 1 .. n : q[k] = coremap[fs[k]] /\ q[k] \in Resident
  BY <1>1, <1>2, <1>3
<1>5. q \in Seq(Pages)
  BY <1>1, <1>4, SeqDef
<1>6. Len(q) = n
  BY <1>1, <1>4, <1>5, LenProperties
<1> QED BY <1>4, <1>5, <1>6 DEF q, PageSeq

(* LruCache's operators on sequences, spelled out. *)
LEMMA RecencyOperators ==
  /\ \A e, s : Recency!Cons(e, s) = <<e>> \o s
  /\ \A s, i : Recency!RemoveAt(s, i) = SubSeq(s, 1, i - 1) \o SubSeq(s, i + 1, Len(s))
  /\ \A s : Recency!Front(s) = SubSeq(s, 1, Len(s) - 1)
  /\ \A s, e : Recency!Contains(s, e) <=> \E i \in 1 .. Len(s) : s[i] = e
BY Zenon DEF Recency!Cons, Recency!RemoveAt, Recency!Front, Recency!Contains

(* A hit brings its page to the front. *)
LEMMA RecencyReuse ==
  ASSUME alg = "lru", alg' = "lru", NEW p \in Pages,
         NEW n \in Nat, NEW fs, NEW i \in 1 .. n,
         PageSeq(PagesByRecency, n, fs), coremap[fs[i]] = p, coremap' = coremap,
         PageSeq(PagesByRecency, n, Moved(n, fs, i))'
  PROVE  Recency!Reuse(p)
<1> DEFINE q == PagesByRecency
           r == SubSeq(q, 1, i - 1) \o SubSeq(q, i + 1, Len(q))
<1>1. /\ q \in Seq(Pages) /\ Len(q) = n
      /\ \A k \in 1 .. n : q[k] = coremap[fs[k]]
  BY DEF PageSeq
<1>2. /\ q' \in Seq(Pages) /\ Len(q') = n
      /\ \A k \in 1 .. n : q'[k] = coremap[Moved(n, fs, i)[k]]
  BY DEF PageSeq
<1> HIDE DEF q
<1>3. /\ r \in Seq(Pages) /\ Len(r) = n - 1
      /\ \A j \in 1 .. n - 1 : r[j] = IF j < i THEN q[j] ELSE q[j + 1]
  BY <1>1, WithoutOne
<1> HIDE DEF r
<1>4. /\ <<p>> \o r \in Seq(Pages) /\ Len(<<p>> \o r) = n
      /\ \A j \in 1 .. n : (<<p>> \o r)[j] = IF j = 1 THEN p ELSE r[j - 1]
  <2>1. n - 1 + 1 = n
    OBVIOUS
  <2> QED BY <1>3, <2>1, ConsSeq
<1> DEFINE c == <<p>> \o r
<1> HIDE DEF c
<1>5. ASSUME NEW j \in 1 .. n PROVE q'[j] = c[j]
  <2>1. Moved(n, fs, i)[j] = IF j = 1 THEN fs[i] ELSE IF j <= i THEN fs[j - 1] ELSE fs[j]
    BY DEF Moved
  <2>2. CASE j = 1
    BY <1>2, <1>4, <2>1, <2>2 DEF c
  <2>3. CASE j # 1
    <3>1. j - 1 \in 1 .. n - 1 /\ j - 1 \in 1 .. n /\ (j - 1 < i <=> j <= i) /\ j - 1 + 1 = j
      BY <2>3
    <3>2. c[j] = IF j <= i THEN q[j - 1] ELSE q[j]
      BY <1>3, <1>4, <2>3, <3>1 DEF c
    <3> QED BY <1>1, <1>2, <2>1, <2>3, <3>1, <3>2
  <2> QED BY <2>2, <2>3
<1>6. q' = c
  BY <1>2, <1>4, <1>5, SeqEqual DEF c
<1>7. q[i] = p /\ i \in 1 .. Len(q)
  BY <1>1
<1>8. PagesByRecency' = Recency!Cons(p, Recency!RemoveAt(PagesByRecency, i))
  BY <1>6, RecencyOperators, Zenon DEF c, r, q
<1> QED BY <1>7, <1>8, Zenon DEF Recency!Reuse, q

(* A miss puts its page in front of the others, *)
LEMMA RecencyFill ==
  ASSUME alg = "lru", alg' = "lru", NEW p \in Pages, p \notin Resident,
         NEW n \in Nat, n < memsize, NEW fs \in [1 .. n -> Frames], NEW f \in Frames,
         PageSeq(PagesByRecency, n, fs), coremap \in [Frames -> Pages \cup {NoPage}],
         \A k \in 1 .. n : fs[k] # f, coremap' = [coremap EXCEPT ![f] = p],
         PageSeq(PagesByRecency, n + 1, InFront(n, fs, f))'
  PROVE  Recency!Enter(p)
<1> DEFINE q == PagesByRecency
           c == <<p>> \o q
<1>1. /\ q \in Seq(Pages) /\ Len(q) = n
      /\ \A k \in 1 .. n : q[k] = coremap[fs[k]] /\ q[k] # p
  BY DEF PageSeq
<1>2. /\ q' \in Seq(Pages) /\ Len(q') = n + 1
      /\ \A k \in 1 .. n + 1 : q'[k] = coremap'[InFront(n, fs, f)[k]]
  BY DEF PageSeq
<1> HIDE DEF q
<1>3. /\ c \in Seq(Pages) /\ Len(c) = n + 1
      /\ \A j \in 1 .. n + 1 : c[j] = IF j = 1 THEN p ELSE q[j - 1]
  BY <1>1, ConsSeq
<1> HIDE DEF c
<1>4. ASSUME NEW j \in 1 .. n + 1 PROVE q'[j] = c[j]
  <2>1. InFront(n, fs, f)[j] = IF j = 1 THEN f ELSE fs[j - 1]
    BY DEF InFront
  <2>2. CASE j = 1
    BY <1>2, <1>3, <2>1, <2>2
  <2>3. CASE j # 1
    <3>1. j - 1 \in 1 .. n
      BY <2>3
    <3>2. coremap'[fs[j - 1]] = coremap[fs[j - 1]]
      BY <3>1
    <3> QED BY <1>1, <1>2, <1>3, <2>1, <2>3, <3>1, <3>2
  <2> QED BY <2>2, <2>3
<1>5. q' = c
  BY <1>2, <1>3, <1>4, SeqEqual
<1>6. Len(q) < memsize /\ ~ \E i \in 1 .. Len(q) : q[i] = p
  BY <1>1
<1>7. ~Recency!Contains(PagesByRecency, p)
  BY <1>6, RecencyOperators, Zenon DEF q
<1>8. PagesByRecency' = Recency!Cons(p, PagesByRecency)
  BY <1>5, RecencyOperators, Zenon DEF c, q
<1> QED BY <1>6, <1>7, <1>8, Zenon DEF Recency!Enter, q

(* and the one referenced longest ago is gone when memory was full. *)
LEMMA RecencyEvict ==
  ASSUME alg = "lru", alg' = "lru", NEW p \in Pages, p \notin Resident,
         NEW n \in Nat, n = memsize, n # 0, NEW fs \in [1 .. n -> Frames],
         PageSeq(PagesByRecency, n, fs), coremap \in [Frames -> Pages \cup {NoPage}],
         \A i, j \in 1 .. n : fs[i] = fs[j] => i = j,
         coremap' = [coremap EXCEPT ![fs[n]] = p],
         PageSeq(PagesByRecency, n, Moved(n, fs, n))'
  PROVE  Recency!Enter(p)
<1> DEFINE q == PagesByRecency
           r == SubSeq(q, 1, Len(q) - 1)
           c == <<p>> \o r
<1>1. /\ q \in Seq(Pages) /\ Len(q) = n
      /\ \A k \in 1 .. n : q[k] = coremap[fs[k]] /\ q[k] # p
  BY DEF PageSeq
<1>2. /\ q' \in Seq(Pages) /\ Len(q') = n
      /\ \A k \in 1 .. n : q'[k] = coremap'[Moved(n, fs, n)[k]]
  BY DEF PageSeq
<1> HIDE DEF q
<1>3. /\ r \in Seq(Pages) /\ Len(r) = n - 1 /\ \A j \in 1 .. n - 1 : r[j] = q[j]
  <2>1. /\ n - 1 \in Int /\ 1 \in Int /\ \A j \in 1 .. n - 1 : q[j] \in Pages
    BY <1>1
  <2>2. /\ r \in Seq(Pages) /\ Len(r) = IF 1 <= n - 1 THEN n - 1 - 1 + 1 ELSE 0
        /\ \A j \in 1 .. n - 1 - 1 + 1 : r[j] = q[1 + j - 1]
    BY <1>1, <2>1, SubSeqProperties
  <2> HIDE DEF r
  <2> QED BY <1>1, <2>2
<1> HIDE DEF r
<1>4. /\ c \in Seq(Pages) /\ Len(c) = n
      /\ \A j \in 1 .. n : c[j] = IF j = 1 THEN p ELSE r[j - 1]
  <2>1. n - 1 + 1 = n
    OBVIOUS
  <2> QED BY <1>3, <2>1, ConsSeq
<1> HIDE DEF c
<1>5. ASSUME NEW j \in 1 .. n PROVE q'[j] = c[j]
  <2>1. Moved(n, fs, n)[j] = IF j = 1 THEN fs[n] ELSE fs[j - 1]
    BY DEF Moved
  <2>2. n \in 1 .. n /\ fs[n] \in Frames
    OBVIOUS
  <2>3. CASE j = 1
    BY <1>2, <1>4, <2>1, <2>2, <2>3
  <2>4. CASE j # 1
    <3>1. j - 1 \in 1 .. n /\ j - 1 \in 1 .. n - 1 /\ j - 1 # n
      BY <2>4
    <3>2. fs[j - 1] # fs[n]
      BY <2>2, <3>1
    <3>3. coremap'[fs[j - 1]] = coremap[fs[j - 1]]
      BY <3>1, <3>2
    <3> QED BY <1>1, <1>2, <1>3, <1>4, <2>1, <2>4, <3>1, <3>3
  <2> QED BY <2>3, <2>4
<1>6. q' = c
  BY <1>2, <1>4, <1>5, SeqEqual
<1>7. ~(Len(q) < memsize) /\ ~ \E i \in 1 .. Len(q) : q[i] = p
  BY <1>1
<1>8. ~Recency!Contains(PagesByRecency, p)
  BY <1>7, RecencyOperators, Zenon DEF q
<1>9. PagesByRecency' = Recency!Cons(p, Recency!Front(PagesByRecency))
  BY <1>6, RecencyOperators, Zenon DEF c, r, q
<1> QED BY <1>7, <1>8, <1>9, Zenon DEF Recency!Enter, q

------------------------------------------------------------------------------
(* The composition.  The frame each algorithm gives up is a frame because  *)
(* of what the algorithm keeps; the page table needs no more.              *)
SimInv ==
  /\ IInv
  /\ ClockType
  /\ alg = "fifo" => FifoOrder
  /\ alg = "lru"  => LruType
  /\ alg = "opt"  => OptType /\ NextUseKnown

AReference == \E p \in Pages, t \in AccessTypes, f \in Frames : Served(p, t, f)

(* However it is served, a reference keeps the invariants of paging. *)
LEMMA ServedKeeps ==
  ASSUME IInv, NEW p \in Pages, NEW t \in AccessTypes, NEW f \in Frames, Served(p, t, f)
  PROVE  IInv'
BY HitPreserves, MissFreePreserves, MissCleanPreserves, MissDirtyPreserves
   DEF Miss, Served

(* Every algorithm starts with an empty memory and its own state in order. *)
LEMMA SimStart == SimInit => SimInv
<1> SUFFICES ASSUME SimInit PROVE SimInv
  OBVIOUS
<1>1. PageTableInit /\ index = 0 /\ refbit = [p \in Pages |-> FALSE]
  BY DEF SimInit, ClockInit, FifoInit
<1>2. IInv
  BY <1>1, InitInvariant
<1>3. ClockType
  BY <1>1, AFrame DEF ClockType
<1>4. \A f \in Frames : coremap[f] = NoPage
  BY <1>1 DEF PageTableInit
<1>5. FifoOrder
  BY <1>1, <1>4, AFrame DEF FifoOrder, FreeFrames
<1>6. LruType
  BY <1>4, AFrame DEF LruType, SimInit, LruInit, Heap, Cells, Link, UsedFrames
<1>7. alg = "opt" => OptType /\ NextUseKnown
  BY <1>4, TimesAreNats DEF OptType, NextUseKnown, SimInit, OptStart
<1> QED BY <1>2, <1>3, <1>5, <1>6, <1>7 DEF SimInv

(* What the algorithms that are not chosen leave alone. *)
LEMMA RandStep ==
  ASSUME SimInv, alg = "rand", alg' = alg, RandNext, fifoIdle, clockIdle
  PROVE  SimInv' /\ AReference
<1>1. PICK p \in Pages, t \in AccessTypes, f \in Frames : Served(p, t, f)
  BY AFrame DEF RandNext, RandVictims, Served
<1>2. IInv'
  BY <1>1, ServedKeeps DEF SimInv
<1> QED BY <1>1, <1>2 DEF SimInv, AReference, fifoIdle, clockIdle, ClockType, Frames

(* The queue of pages, while the algorithm is fifo. *)
QueueNow == IF alg = "fifo" THEN QueueOfFrames ELSE <<>>
QueueStep == \E p \in Pages : Queue!Enter(p) \/ Queue!Cycle(p)

(* A step of fifo serves a reference and the abstract queue follows. *)
LEMMA FifoStep ==
  ASSUME SimInv, alg = "fifo", alg' = alg, FifoNext, clockIdle
  PROVE  SimInv' /\ AReference /\ [QueueStep]_QueueNow
<1>1. IInv /\ FifoOrder /\ ClockType
  BY DEF SimInv
<1>2. PICK p \in Pages, t \in AccessTypes :
        \/ Hit(p, t) /\ UNCHANGED index
        \/ MissFree(p, t) /\ UNCHANGED index
        \/ FifoEvict(p, t)
  BY DEF FifoNext
<1>3. IInv' /\ FifoOrder' /\ [QueueStep]_QueueNow
  <2>1. CASE Hit(p, t) /\ UNCHANGED index
    <3>1. coremap' = coremap /\ IInv'
      BY <1>1, <2>1, HitEffects, HitPreserves
    <3>2. FifoOrder'
      BY <1>1, <2>1, <3>1 DEF FifoOrder, FreeFrames, Frames
    <3>3. QueueNow' = QueueNow
      BY <2>1, <3>1 DEF QueueNow, QueueOfFrames, FreeFrames, Frames
    <3> QED BY <3>1, <3>2, <3>3
  <2>2. CASE MissFree(p, t) /\ UNCHANGED index
    BY <1>1, <2>2, FifoFills DEF QueueStep
  <2>3. CASE FifoEvict(p, t)
    BY <1>1, <2>3, FifoCycles DEF QueueStep
  <2> QED BY <1>2, <2>1, <2>2, <2>3
<1>4. AReference
  BY <1>1, <1>2, AFrame DEF AReference, Served, FifoEvict, FifoOrder
<1>5. ClockType'
  BY <1>1, <1>3 DEF ClockType, clockIdle, FifoOrder, Frames
<1> QED BY <1>3, <1>4, <1>5 DEF SimInv

(* A step of clock serves a reference and passes referenced pages only. *)
LEMMA ClockStep ==
  ASSUME SimInv, alg = "clock", alg' = alg, ClockNext
  PROVE  SimInv' /\ AReference /\ HandPassedReferenced /\ ChanceGiven /\ HandMovesOn
<1>1. IInv /\ ClockType
  BY DEF SimInv
<1>2. PICK p \in Pages, t \in AccessTypes :
        ClockHit(p, t) \/ ClockFill(p, t) \/ ClockEvict(p, t)
  BY DEF ClockNext
<1>3. /\ AReference /\ IInv' /\ ClockType'
      /\ \/ Hit(p, t)
         \/ MissFree(p, t)
         \/ /\ FreeFrames = {} /\ Miss(p, t, clock_evict(index, refbit).evict)
            /\ index' = clock_evict(index, refbit).index
  <2>1. CASE ClockHit(p, t) \/ ClockFill(p, t)
    <3>1. Served(p, t, 0) /\ UNCHANGED index /\ Reference(p, refbit)
      BY <2>1 DEF ClockHit, ClockFill, Served
    <3>2. IInv' /\ AReference
      BY <1>1, <3>1, AFrame, ServedKeeps DEF AReference
    <3>3. ClockType'
      BY <1>1, <3>1, ReferenceKeeps DEF ClockType, Frames
    <3> QED BY <2>1, <3>2, <3>3 DEF ClockHit, ClockFill
  <2>2. CASE ClockEvict(p, t)
    <3> DEFINE choice == clock_evict(index, refbit)
    <3>1. FreeFrames = {} /\ Miss(p, t, choice.evict)
          /\ index' = choice.index /\ Reference(p, choice.ref)
      BY <2>2 DEF ClockEvict
    <3>2. /\ choice.evict \in Frames /\ choice.index \in Frames
          /\ choice.ref \in [Pages -> BOOLEAN]
      BY <1>1, <3>1, ClockChooses
    <3> HIDE DEF choice
    <3>3. Served(p, t, choice.evict)
      BY <3>1 DEF Served
    <3>4. IInv' /\ AReference
      BY <1>1, <3>2, <3>3, ServedKeeps DEF AReference
    <3>5. ClockType'
      BY <3>1, <3>2, ReferenceKeeps DEF ClockType, Frames
    <3> QED BY <3>1, <3>4, <3>5 DEF choice
  <2> QED BY <1>2, <2>1, <2>2
<1>4. HandPassedReferenced /\ ChanceGiven /\ HandMovesOn
  BY <1>1, <1>3, ClockIsFair
<1> QED BY <1>3, <1>4 DEF SimInv

(* A step of lru serves a reference. *)
LEMMA LruStep ==
  ASSUME SimInv, alg = "lru", alg' = alg, LruNext, fifoIdle, clockIdle
  PROVE  SimInv' /\ AReference
<1>1. IInv /\ LruType /\ ClockType
  BY DEF SimInv
<1>2. PICK p \in Pages, t \in AccessTypes :
        LruHit(p, t) \/ LruFill(p, t) \/ LruEvict(p, t)
  BY DEF LruNext
<1>3. PICK f \in Frames : Served(p, t, f) /\ \E l \in Heap : Refer(l, f)
  <2>1. CASE LruHit(p, t)
    <3>1. pte[p].frame \in Frames
      BY <1>1 DEF IInv, TypeOK, Entry
    <3> QED BY <1>1, <2>1, <3>1 DEF LruHit, LruType, Served
  <2>2. CASE LruFill(p, t)
    <3>1. Lowest(FreeFrames) \in Frames
      BY <1>1, <2>2, FillEffects DEF LruFill, FreeFrames
    <3> QED BY <1>1, <2>2, <3>1 DEF LruFill, LruType, Served
  <2>3. CASE LruEvict(p, t)
    <3>1. list.node[LastNode(list)].index \in Frames /\ DropLast(list) \in Heap
      BY <1>1, <2>3, LruVictim DEF LruEvict
    <3> QED BY <2>3, <3>1 DEF LruEvict, Served
  <2> QED BY <1>2, <2>1, <2>2, <2>3
<1>4. IInv' /\ AReference
  BY <1>1, <1>3, ServedKeeps DEF AReference
<1>5. list' \in Heap /\ list'.head # NULL
  BY <1>3, ReferType
<1>6. LruType'
  BY <1>5 DEF LruType, Heap, Cells, Link, Frames
<1> QED BY <1>1, <1>4, <1>6 DEF SimInv, fifoIdle, clockIdle, ClockType, Frames

(* A step of opt serves a reference and evicts the page needed last. *)
LEMMA OptStep ==
  ASSUME SimInv, alg = "opt", alg' = alg, OptNext, fifoIdle, clockIdle
  PROVE  SimInv' /\ AReference /\ LatestGoes
<1>1. IInv /\ OptType /\ NextUseKnown /\ ClockType /\ cur.time < KnownLen /\ addrs' = addrs
  BY DEF SimInv, OptNext
<1> DEFINE p == addrs[cur.time]
<1>2. p \in Pages
  BY <1>1, TimesAreNats DEF OptType, Traces, Times
<1>3. PICK t \in AccessTypes : OptHit(p, t) \/ OptFill(p, t) \/ OptEvict(p, t)
  BY DEF OptNext
<1>4. opt_evict \in Frames
  BY <1>1, OptVictim
<1>5. Served(p, t, opt_evict)
  BY <1>3 DEF OptHit, OptFill, OptEvict, Served
<1>6. \E f \in Frames : OptRef(f) /\ \/ Hit(p, t) /\ f = pte[p].frame
                                     \/ MissFree(p, t) /\ f = Lowest(FreeFrames)
                                     \/ Miss(p, t, f)
  <2>1. pte[p].frame \in Frames
    BY <1>1, <1>2 DEF IInv, TypeOK, Entry
  <2>2. MissFree(p, t) => Lowest(FreeFrames) \in Frames
    BY <1>1, <1>2, FillEffects DEF FreeFrames
  <2> QED BY <1>3, <1>4, <2>1, <2>2 DEF OptHit, OptFill, OptEvict
<1>7. IInv' /\ OptType' /\ NextUseKnown'
  BY <1>1, <1>6, OptRefKeeps
<1>8. LatestGoes
  BY <1>1, <1>2, <1>5, OptLatest
<1>9. AReference
  BY <1>2, <1>4, <1>5 DEF AReference
<1> QED BY <1>1, <1>7, <1>8, <1>9 DEF SimInv, fifoIdle, clockIdle, ClockType, Frames

(* The invariant is inductive, and what each step is. *)
LEMMA SimStep ==
  ASSUME SimInv, [SimNext]_simVars
  PROVE  /\ SimInv'
         /\ AReference \/ UNCHANGED core
         /\ [QueueStep]_QueueNow
         /\ SimNext => (alg = "clock" => HandPassedReferenced /\ ChanceGiven /\ HandMovesOn)
         /\ SimNext => (alg = "opt" => LatestGoes)
<1>1. CASE UNCHANGED simVars /\ ~SimNext
  <2>1. /\ UNCHANGED <<pte, coremap, physmem, swapmap, swapfile, count>>
        /\ UNCHANGED <<alg, index, refbit, list, latest, addrs, memory, cur>>
    BY <1>1 DEF simVars, core
  <2>2. IInv'
    BY <2>1 DEF SimInv, IInv, TypeOK, Frames, Slots, Content, Entry, Counters, FramesMatch,
                ContentMatches, DirtyIffStored, SlotsNotShared, OnSwapHasCopy
  <2>3. ClockType' /\ QueueNow' = QueueNow
    BY <2>1 DEF SimInv, ClockType, Frames, QueueNow, QueueOfFrames, FreeFrames
  <2>4. (alg = "fifo" => FifoOrder)'
    BY <2>1 DEF SimInv, FifoOrder, FreeFrames, Frames
  <2>5. (alg = "lru" => LruType)'
    BY <2>1 DEF SimInv, LruType, UsedFrames, Frames, Heap, Cells, Link
  <2>6. (alg = "opt" => OptType /\ NextUseKnown)'
    BY <2>1 DEF SimInv, OptType, NextUseKnown, NextUse, Frames, Times, Traces
  <2> QED BY <1>1, <2>1, <2>2, <2>3, <2>4, <2>5, <2>6 DEF SimInv, core
<1>2. ASSUME SimNext, alg # "fifo" PROVE QueueNow' = QueueNow
  BY <1>2 DEF QueueNow, SimNext
<1>3. CASE SimNext /\ alg = "rand"
  BY <1>2, <1>3, RandStep DEF SimNext
<1>4. CASE SimNext /\ alg = "fifo"
  BY <1>4, FifoStep DEF SimNext
<1>5. CASE SimNext /\ alg = "clock"
  BY <1>2, <1>5, ClockStep DEF SimNext
<1>6. CASE SimNext /\ alg = "lru"
  BY <1>2, <1>6, LruStep DEF SimNext
<1>7. CASE SimNext /\ alg = "opt"
  BY <1>2, <1>7, OptStep DEF SimNext
<1>8. SimNext => alg \in {"rand", "fifo", "clock", "lru", "opt"}
  BY DEF SimNext
<1> QED BY <1>1, <1>3, <1>4, <1>5, <1>6, <1>7, <1>8

(* Under each of the five algorithms, with any trace, memory size and swap *)
(* size and with writes to the swap file that may fail, the page table,    *)
(* the coremap, the frames and the swap file stay consistent, and the      *)
(* algorithm's own state stays one that yields a frame to give up.         *)
THEOREM SimInvariant == SimSpec => []SimInv
<1>1. SimInv /\ [SimNext]_simVars => SimInv'
  BY SimStep
<1> QED BY <1>1, SimStart, PTL DEF SimSpec

(* The statistics main prints add up under every algorithm. *)
THEOREM SimStatistics == SimSpec => []CountersAgree
<1>1. SimInit => CountersAgree
  <2> SUFFICES ASSUME SimInit PROVE CountersAgree
    OBVIOUS
  <2>1. PageTableInit
    BY DEF SimInit, LruInit
  <2>2. {f \in Frames : coremap[f] # NoPage} = {}
    BY <2>1 DEF PageTableInit
  <2> QED BY <2>1, <2>2, FS_EmptySet DEF PageTableInit, CountersAgree
<1>2. SimInv /\ CountersAgree /\ [SimNext]_simVars => CountersAgree'
  <2> SUFFICES ASSUME SimInv, CountersAgree, [SimNext]_simVars PROVE CountersAgree'
    OBVIOUS
  <2>1. CASE UNCHANGED core
    BY <2>1 DEF core, CountersAgree, Frames
  <2>2. CASE AReference
    BY <2>2, CountersPreserved DEF AReference, SimInv
  <2> QED BY <2>1, <2>2, SimStep
<1> QED BY <1>1, <1>2, SimInvariant, PTL DEF SimSpec

(* Whatever the algorithm, every reference is a hit, a fill of a spare     *)
(* frame, or the replacement of exactly one page of a full memory.         *)
THEOREM SimImplementsCache == SimSpec => AllImplementCache
<1>1. SimInv /\ [SimNext]_simVars => [Cache!CacheNext]_Cache!cacheVars
  <2> SUFFICES ASSUME SimInv, [SimNext]_simVars
               PROVE  [Cache!CacheNext]_Cache!cacheVars
    OBVIOUS
  <2>1. CASE UNCHANGED core
    BY <2>1 DEF core, Cache!cacheVars
  <2>2. CASE AReference
    BY <2>2, ServedIsCacheStep DEF AReference, SimInv
  <2> QED BY <2>1, <2>2, SimStep
<1>2. SimInit => Cache!CacheInit
  BY CacheStart DEF SimInit, LruInit
<1> QED BY <1>1, <1>2, SimInvariant, PTL
        DEF SimSpec, AllImplementCache, ImplementsCache, Cache!CacheSpec

(* fifo: one index that goes round the frames evicts pages in the order in *)
(* which they entered memory.                                              *)
THEOREM FifoIsQueue == SimSpec => FifoEvictsOldest
<1>1. SimInit => QueueNow = <<>>
  <2> SUFFICES ASSUME SimInit PROVE QueueNow = <<>>
    OBVIOUS
  <2>1. SimInv /\ PageTableInit
    BY SimStart DEF SimInit, LruInit
  <2>2. CASE alg = "fifo"
    <3>1. QueueSound
      BY <2>1, <2>2, QueuePages DEF SimInv
    <3>2. UsedFrames = {}
      BY <2>1 DEF PageTableInit, UsedFrames
    <3>3. QueueOfFrames \in Seq(Pages) /\ Len(QueueOfFrames) = 0
      BY <3>1, <3>2, FS_EmptySet DEF QueueSound
    <3> QED BY <2>2, <3>3, EmptySeq DEF QueueNow
  <2>3. CASE alg # "fifo"
    BY <2>3 DEF QueueNow
  <2> QED BY <2>2, <2>3
<1>2. SimInv /\ [SimNext]_simVars => [QueueStep]_QueueNow
  BY SimStep
<1> QED BY <1>1, <1>2, SimInvariant, PTL
        DEF SimSpec, FifoEvictsOldest, Queue!FifoCacheSpec, Queue!FifoCacheInit,
            QueueNow, QueueStep

(* clock: the victim is the first unreferenced page from the hand on, and  *)
(* a referenced page is evicted only after a whole turn found no other.    *)
THEOREM ClockSecondChance == SimSpec => ClockVictim
<1>1. SimInv /\ [SimNext]_simVars =>
        [alg = "clock" => HandPassedReferenced /\ ChanceGiven /\ HandMovesOn]_simVars
  BY SimStep
<1> QED BY <1>1, SimInvariant, PTL DEF SimSpec, ClockVictim

(* opt: what memory[] says of each frame's next use is right, but for the  *)
(* frame referenced last.                                                  *)
THEOREM OptTableCorrect == SimSpec => []OptNextUseKnown
<1>1. SimInv => OptNextUseKnown
  BY DEF SimInv, OptNextUseKnown
<1> QED BY <1>1, SimInvariant, PTL

(* opt: the victim is not needed before any other page, setting aside the  *)
(* page referenced last.                                                   *)
THEOREM OptVictimCorrect == SimSpec => OptEvictsLatest
<1>1. SimInv /\ [SimNext]_simVars => [alg = "opt" => LatestGoes]_simVars
  BY SimStep
<1> QED BY <1>1, SimInvariant, PTL DEF SimSpec, OptEvictsLatest

------------------------------------------------------------------------------
(* lru, where no page is referenced twice in a row: the list lists the     *)
(* frames in use in the order of their last references.                    *)
OrderInv == NoRepeats /\ SimInv /\ (alg = "lru" => LruOrder)

RecencyNow == IF alg = "lru" THEN PagesByRecency ELSE <<>>
AskedNow   == IF alg = "lru" THEN latest ELSE NoPage
RecencyStep == \E p \in Pages : Recency!Refers(p)

(* lru starts with an empty list. *)
LEMMA LruStart ==
  ASSUME SimInit
  PROVE  LruOrder /\ RecencyNow = <<>> /\ AskedNow = NoPage
<1> DEFINE sq == [i \in 1 .. 0 |-> NULL]
           fs == [i \in 1 .. 0 |-> 0]
<1>1. PageTableInit /\ list.used = {} /\ list.head = NULL
  BY DEF SimInit, LruInit
<1>2. UsedFrames = {} /\ 1 .. 0 = {}
  BY <1>1 DEF PageTableInit, UsedFrames
<1>3. sq \in [1 .. 0 -> Nodes] /\ fs \in [1 .. 0 -> Frames] /\ 0 \in Nat
  BY <1>2
<1> HIDE DEF sq, fs
<1>4. Listed(list, 0, sq, fs)
  BY <1>1, <1>2, <1>3 DEF Listed, Linked
<1>5. Current(0, fs)
  BY <1>2 DEF Current, FramesOf
<1>6. PageSeq(PagesByRecency, 0, fs)
  BY <1>4, <1>5, SimStart, RecencySequence DEF SimInv, SequencesAreRight
<1>7. PagesByRecency = <<>>
  BY <1>6, EmptySeq DEF PageSeq
<1> QED BY <1>4, <1>5, <1>7 DEF LruOrder, RecencyNow, AskedNow, SimInit, LruInit

(* A step of lru moves the page in the list as in the order of use. *)
LEMMA LruOrderStep ==
  ASSUME OrderInv, SimInv', alg = "lru", alg' = alg, LruNext
  PROVE  LruOrder' /\ RecencyStep
<1>1. NoRepeats /\ IInv /\ IInv' /\ LruType /\ LruOrder
  BY DEF OrderInv, SimInv
<1>2. PICK n, sq, fs : Listed(list, n, sq, fs) /\ Current(n, fs)
  BY <1>1 DEF LruOrder
<1>3. PICK p \in Pages, t \in AccessTypes :
        /\ p # latest /\ latest' = p
        /\ LruHit(p, t) \/ LruFill(p, t) \/ LruEvict(p, t)
  BY <1>1 DEF LruNext, NoRepeats
<1>4. /\ n \in Nat /\ fs \in [1 .. n -> Frames] /\ n <= memsize
      /\ \A i, j \in 1 .. n : fs[i] = fs[j] => i = j
      /\ coremap \in [Frames -> Pages \cup {NoPage}]
  BY <1>1, <1>2, ListedBound DEF Listed, IInv, TypeOK
<1>5. PageSeq(PagesByRecency, n, fs)
  BY <1>1, <1>2, RecencySequence DEF SequencesAreRight
<1>0. SequencesAreRight'
  BY RecencySequence, PTL
<1>9. alg = "lru" /\ alg' = "lru"
  OBVIOUS
<1>10. Recency!Reuse(p) \/ Recency!Enter(p) => RecencyStep
  BY <1>3, <1>9 DEF RecencyStep, Recency!Refers
<1>6. CASE LruHit(p, t)
  <2>1. PICK i \in 2 .. n :
          /\ coremap[fs[i]] = p /\ coremap' = coremap
          /\ \E s2 : Listed(list', n, s2, Moved(n, fs, i))
          /\ Current(n, Moved(n, fs, i))'
    BY <1>1, <1>2, <1>3, <1>6, LruHits
  <2>2. PageSeq(PagesByRecency, n, Moved(n, fs, i))'
    BY <1>0, <1>1, <2>1 DEF SequencesAreRight
  <2>3. i \in 1 .. n
    BY <1>4
  <2>4. Recency!Reuse(p)
    BY <1>4, <1>5, <2>1, <2>2, <2>3, RecencyReuse
  <2> QED BY <1>10, <2>1, <2>4 DEF LruOrder
<1>7. CASE LruFill(p, t)
  <2>1. PICK f \in FreeFrames :
           /\ coremap' = [coremap EXCEPT ![f] = p]
           /\ \E s2 : Listed(list', n + 1, s2, InFront(n, fs, f))
           /\ Current(n + 1, InFront(n, fs, f))'
    BY <1>1, <1>2, <1>3, <1>7, LruFills
  <2>2. PageSeq(PagesByRecency, n + 1, InFront(n, fs, f))'
    BY <1>0, <1>1, <2>1 DEF SequencesAreRight
  <2>3. p \notin Resident /\ f \in Frames
    BY <1>1, <1>7, FillEffects DEF LruFill, FreeFrames
  <2>4. \A k \in 1 .. n : fs[k] # f
    BY <1>2 DEF Current, FramesOf, UsedFrames, FreeFrames
  <2>5. n < memsize
    <3>1. n + 1 <= memsize
      BY <2>1, ListedBound
    <3> QED BY <1>4, <3>1, PageTableAssumption
  <2>6. Recency!Enter(p)
    BY <1>4, <1>5, <2>1, <2>2, <2>3, <2>4, <2>5, RecencyFill
  <2> QED BY <1>10, <2>1, <2>6 DEF LruOrder
<1>8. CASE LruEvict(p, t)
  <2>1. /\ n = memsize /\ fs[n] \in Frames /\ Miss(p, t, fs[n])
        /\ coremap' = [coremap EXCEPT ![fs[n]] = p]
        /\ \E s2 : Listed(list', n, s2, Moved(n, fs, n))
        /\ Current(n, Moved(n, fs, n))'
    BY <1>1, <1>2, <1>3, <1>8, LruEvicts
  <2>2. PageSeq(PagesByRecency, n, Moved(n, fs, n))'
    BY <1>0, <1>1, <2>1 DEF SequencesAreRight
  <2>3. p \notin Resident /\ n # 0
    BY <1>1, <2>1, EvictEffects, PageTableAssumption
  <2>4. Recency!Enter(p)
    BY <1>4, <1>5, <2>1, <2>2, <2>3, RecencyEvict
  <2> QED BY <1>10, <2>1, <2>4 DEF LruOrder
<1> QED BY <1>3, <1>6, <1>7, <1>8

(* Steps of the other algorithms do not touch the list. *)
LEMMA OrderStep ==
  OrderInv /\ [SimNext]_simVars => OrderInv' /\ [RecencyStep]_<<RecencyNow, AskedNow>>
<1> SUFFICES ASSUME OrderInv, [SimNext]_simVars
             PROVE  OrderInv' /\ [RecencyStep]_<<RecencyNow, AskedNow>>
  OBVIOUS
<1>1. SimInv'
  BY SimStep DEF OrderInv
<1>2. CASE SimNext /\ alg = "lru"
  BY <1>1, <1>2, LruOrderStep DEF SimNext, OrderInv, NoRepeats
<1>3. CASE SimNext /\ alg # "lru"
  BY <1>1, <1>3 DEF SimNext, OrderInv, RecencyNow, AskedNow, NoRepeats
<1>4. CASE UNCHANGED simVars
  <2>1. UNCHANGED <<alg, coremap, list, latest>>
    BY <1>4 DEF simVars, core
  <2>2. UNCHANGED <<RecencyNow, AskedNow>>
    BY <2>1 DEF RecencyNow, AskedNow, PagesByRecency, Met, Walk
  <2>3. ASSUME alg = "lru" PROVE LruOrder'
    <3>1. PICK n, sq, fs : Listed(list, n, sq, fs) /\ Current(n, fs)
      BY <2>3 DEF OrderInv, LruOrder
    <3>2. Current(n, fs)'
      BY <2>1, <3>1 DEF Current, UsedFrames, Frames
    <3> QED BY <2>1, <3>1, <3>2 DEF LruOrder
  <2> QED BY <1>1, <2>1, <2>2, <2>3 DEF OrderInv, NoRepeats
<1> QED BY <1>2, <1>3, <1>4

(* lru: on a trace without a page twice in a row, with at least two        *)
(* frames, what lru_ref unlinks, frees and allocates again leaves one list *)
(* of live nodes, the same in both directions, one node for each frame.    *)
THEOREM LruListCorrect == NoRepeats /\ SimSpec => []LruListSound
<1>1. NoRepeats /\ SimInit => OrderInv
  BY SimStart, LruStart DEF OrderInv
<1>2. OrderInv => LruListSound
  BY OrderIsSound DEF OrderInv, LruListSound
<1> QED BY <1>1, <1>2, OrderStep, PTL DEF SimSpec

(* lru: then each reference, a hit too, puts the page of its line first in *)
(* the order of use, and the page evicted is the one referenced longest    *)
(* ago.                                                                    *)
THEOREM LruIsLeastRecent == NoRepeats /\ SimSpec => LruEvictsLeastRecent
<1>1. NoRepeats /\ SimInit => OrderInv /\ RecencyNow = <<>> /\ AskedNow \notin Pages
  BY SimStart, LruStart, PageTableAssumption DEF OrderInv
<1> QED BY <1>1, OrderStep, PTL
        DEF SimSpec, LruEvictsLeastRecent, Recency!LruCacheSpec, Recency!LruCacheInit,
            RecencyNow, AskedNow, RecencyStep
=============================================================================
