----------------------------- MODULE Lru_proofs -----------------------------
(***************************************************************************)
(* Proofs about the list of lru.c.                                         *)
(***************************************************************************)
EXTENDS Lru, PageTable_proofs

(* Min and Max of sets of integers.  *)
LEMMA MinIn ==
  ASSUME NEW S \in SUBSET Nat, S # {}
  PROVE  Min(S) \in S /\ \A j \in S : Min(S) <= j
<1>1. Min(S) = Lowest(S)
  BY DEF Min, Lowest
<1> QED BY <1>1, LowestIn

(* The greatest member of a set of numbers, bounded by n, is in it. *)
LEMMA MaxIn ==
  ASSUME NEW n \in Nat, NEW S \in SUBSET (0 .. n), S # {}
  PROVE  Max(S) \in S /\ \A j \in S : Max(S) >= j
<1> DEFINE D == {n - j : j \in S}
<1>1. D \in SUBSET Nat /\ D # {}
  <2>1. \A j \in S : n - j \in Nat
    OBVIOUS
  <2> QED BY <2>1, Zenon
<1>2. PICK i \in S : Min(D) = n - i
  BY <1>1, MinIn
<1>3. \A j \in S : n - i <= n - j
  BY <1>1, <1>2, MinIn
<1>4. \A j \in S : i >= j
  <2> TAKE j \in S
  <2> i \in 0 .. n /\ j \in 0 .. n
    OBVIOUS
  <2> QED BY <1>3
<1> QED BY <1>4 DEF Max

------------------------------------------------------------------------------
(* The walk along the list. *)
Follow(l, n) == IF n = NULL THEN NULL ELSE l.node[n].nxt

Along(l, w, m) == w = [k \in 0 .. m |-> IF k = 0 THEN l.head ELSE Follow(l, w[k - 1])]

(* There are more nodes than frames, and finitely many. *)
LEMMA NodesFinite == Cardinality(Nodes) \in Nat /\ Cardinality(Nodes) > memsize
BY LruAssumption, FS_CardinalityType

(* The walk from the head: each node is the one after the node before. *)
LEMMA WalkIs ==
  ASSUME NEW l
  PROVE  LET c == Cardinality(Nodes)
             w == Walk(l)
         IN  /\ DOMAIN w = 0 .. c /\ w[0] = l.head
             /\ \A k \in 0 .. c - 1 : w[k + 1] = Follow(l, w[k])
<1> DEFINE c == Cardinality(Nodes)
           w == Walk(l)
<1>1. c \in Nat
  BY NodesFinite
<1>2. \E v : Along(l, v, c)
  <2> DEFINE Bad == {m \in Nat : ~\E v : Along(l, v, m)}
  <2> SUFFICES ASSUME Bad # {} PROVE FALSE
    BY <1>1
  <2>1. PICK m \in Bad : \A j \in Bad : m <= j
    BY LowestIn
  <2>2. CASE m = 0
    <3> DEFINE v == [k \in 0 .. 0 |-> l.head]
    <3>1. Along(l, v, 0)
      BY DEF Along
    <3> QED BY <2>2, <3>1
  <2>3. CASE m # 0
    <3>1. m - 1 \in Nat /\ m - 1 \notin Bad /\ m \in Nat
      BY <2>1, <2>3
    <3>2. PICK v : Along(l, v, m - 1)
      BY <3>1
    <3> DEFINE u == [k \in 0 .. m |-> IF k = m THEN Follow(l, v[m - 1]) ELSE v[k]]
    <3>3. \A k \in 0 .. m - 1 : v[k] = IF k = 0 THEN l.head ELSE Follow(l, v[k - 1])
      BY <3>2 DEF Along
    <3>4. ASSUME NEW k \in 0 .. m
          PROVE  u[k] = IF k = 0 THEN l.head ELSE Follow(l, u[k - 1])
      BY <2>3, <3>1, <3>3
    <3>5. Along(l, u, m)
      BY <3>4 DEF Along
    <3> QED BY <3>5
  <2> QED BY <2>2, <2>3
<1>3. Along(l, w, c)
  <2>1. w = CHOOSE v : Along(l, v, c)
    BY DEF Walk, Along, Follow
  <2> HIDE DEF w
  <2> QED BY <1>2, <2>1
<1> HIDE DEF w, c
<1>4. DOMAIN w = 0 .. c /\ \A k \in 0 .. c : w[k] = IF k = 0 THEN l.head ELSE Follow(l, w[k - 1])
  BY <1>3 DEF Along
<1>5. \A k \in 0 .. c - 1 : k + 1 \in 0 .. c /\ k + 1 # 0 /\ k + 1 - 1 = k
  BY <1>1
<1>6. 0 \in 0 .. c
  BY <1>1
<1> QED BY <1>4, <1>5, <1>6 DEF w, c

------------------------------------------------------------------------------
(* Whatever happens to the list, links lead to nodes and nodes name        *)
(* frames; and there is a head once a frame is in use.                     *)
Link == Nodes \cup {NULL}
Cells == [Nodes -> [pre : Link, nxt : Link, index : Frames]]
Heap == [node : Cells, used : SUBSET Nodes, head : Link]

LruType == list \in Heap /\ (list.head = NULL => UsedFrames = {})

(* The walk meets nodes, and then NULL. *)
LEMMA WalkType ==
  ASSUME NEW l \in Heap
  PROVE  /\ Met(l) \subseteq 0 .. Cardinality(Nodes)
         /\ \A k \in 0 .. Cardinality(Nodes) : Walk(l)[k] \in Link
         /\ \A k \in Met(l) : Walk(l)[k] \in Nodes
<1> DEFINE c == Cardinality(Nodes)
           w == Walk(l)
<1>1. /\ c \in Nat /\ DOMAIN w = 0 .. c /\ w[0] = l.head
      /\ \A k \in 0 .. c - 1 : w[k + 1] = Follow(l, w[k])
  BY WalkIs, NodesFinite
<1>2. l.head \in Link /\ \A n \in Nodes : l.node[n].nxt \in Link
  BY DEF Heap, Cells
<1> HIDE DEF c, w
<1>3. \A k \in 0 .. c : w[k] \in Link
  <2> DEFINE Bad == {k \in 0 .. c : w[k] \notin Link}
  <2> SUFFICES ASSUME Bad # {} PROVE FALSE
    OBVIOUS
  <2>1. Bad \subseteq Nat
    BY <1>1
  <2>2. PICK k \in Bad : \A j \in Bad : k <= j
    BY <2>1, LowestIn
  <2>3. k # 0 /\ k \in 0 .. c
    BY <1>1, <1>2, <2>2
  <2>4. k - 1 \in 0 .. c - 1 /\ k - 1 \in 0 .. c /\ k - 1 + 1 = k /\ ~(k <= k - 1)
    BY <1>1, <2>3
  <2>5. w[k - 1] \in Link
    BY <2>2, <2>4
  <2>6. w[k] = Follow(l, w[k - 1])
    BY <1>1, <2>4
  <2>7. w[k] \in Link
    BY <1>2, <2>5, <2>6 DEF Follow, Link
  <2> QED BY <2>2, <2>7
<1> QED BY <1>1, <1>3 DEF Met, Link, c, w

(* The last node that the walk meets is a node. *)
LEMMA LastNodeType ==
  ASSUME NEW l \in Heap, l.head # NULL
  PROVE  LastNode(l) \in Nodes /\ Max(Met(l)) \in Met(l)
<1>1. 0 \in Met(l)
  BY WalkIs, NodesFinite DEF Met
<1>2. Met(l) \in SUBSET (0 .. Cardinality(Nodes)) /\ Cardinality(Nodes) \in Nat
  BY WalkType, NodesFinite
<1>3. Max(Met(l)) \in Met(l)
  BY <1>1, <1>2, MaxIn
<1> QED BY <1>3, WalkType DEF LastNode

(* Writing a link of a node, if there is one. *)
NxtSet(new, node, n, to) ==
  /\ new \in Cells
  /\ \A m \in Nodes : /\ new[m].nxt = IF m = n THEN to ELSE node[m].nxt
                      /\ new[m].pre = node[m].pre
                      /\ new[m].index = node[m].index
PreSet(new, node, n, to) ==
  /\ new \in Cells
  /\ \A m \in Nodes : /\ new[m].pre = IF m = n THEN to ELSE node[m].pre
                      /\ new[m].nxt = node[m].nxt
                      /\ new[m].index = node[m].index

(* Setting a link of a node changes that link; through NULL it changes nothing. *)
LEMMA SetLinks ==
  ASSUME NEW node \in Cells, NEW n \in Link, NEW to \in Link
  PROVE  /\ NxtSet(SetNxt(node, n, to), node, n, to)
         /\ PreSet(SetPre(node, n, to), node, n, to)
<1> USE DEF NxtSet, PreSet, Cells
<1>1. CASE n = NULL
  BY <1>1, LruAssumption DEF SetNxt, SetPre
<1>2. CASE n \in Nodes
  <2>1. n # NULL
    BY <1>2, LruAssumption
  <2>2. SetNxt(node, n, to) = [node EXCEPT ![n] = [node[n] EXCEPT !.nxt = to]]
    BY <1>2, <2>1 DEF SetNxt
  <2>3. SetPre(node, n, to) = [node EXCEPT ![n] = [node[n] EXCEPT !.pre = to]]
    BY <1>2, <2>1 DEF SetPre
  <2>4. node[n] \in [pre : Link, nxt : Link, index : Frames]
    BY <1>2
  <2> QED BY <1>2, <2>2, <2>3, <2>4
<1> QED BY <1>1, <1>2 DEF Link

(* lru_evict and the two halves of lru_ref, link by link. *)
LEMMA DropLastEffect ==
  ASSUME NEW l \in Heap, l.head # NULL
  PROVE  LET last == LastNode(l)
             d == DropLast(l)
         IN  /\ d \in Heap /\ d.head = l.head /\ d.used = l.used \ {last}
             /\ \A m \in Nodes :
                  /\ d.node[m].index = l.node[m].index
                  /\ d.node[m].pre = l.node[m].pre
                  /\ d.node[m].nxt = IF m = l.node[last].pre THEN NULL ELSE l.node[m].nxt
<1> DEFINE last == LastNode(l)
           new == SetNxt(l.node, l.node[last].pre, NULL)
           d == DropLast(l)
<1>1. last \in Nodes
  BY LastNodeType
<1>2. d = [l EXCEPT !.used = l.used \ {last}, !.node = new]
  BY DEF DropLast
<1>3. l.node \in Cells /\ NULL \in Link
      /\ l.node[last].pre \in Link
  BY <1>1 DEF Heap, Link, Cells
<1> HIDE DEF last
<1>4. NxtSet(new, l.node, l.node[last].pre, NULL)
  BY <1>3, SetLinks
<1> HIDE DEF new, d
<1>5. d \in Heap /\ d.head = l.head /\ d.used = l.used \ {last} /\ d.node = new
  BY <1>2, <1>4 DEF Heap, NxtSet
<1> QED BY <1>4, <1>5 DEF last, d, NxtSet

(* The places of the list at which frame f is, and list u as l without the *)
(* node old.                                                               *)
Here(l, f) == {k \in Met(l) : l.node[Walk(l)[k]].index = f}
Without(u, l, old) ==
  /\ u.head = l.head /\ u.used = l.used \ {old}
  /\ \A m \in Nodes :
       /\ u.node[m].index = l.node[m].index
       /\ u.node[m].nxt = IF m = l.node[old].pre THEN l.node[old].nxt ELSE l.node[m].nxt
       /\ u.node[m].pre = IF m = l.node[old].nxt THEN l.node[old].pre ELSE l.node[m].pre

(* Taking a frame's node out of the list joins its two neighbours. *)
LEMMA UnlinkedEffect ==
  ASSUME NEW l \in Heap, NEW f
  PROVE  /\ Here(l, f) = {} => Unlinked(l, f) = l
         /\ Here(l, f) # {} =>
              /\ Min(Here(l, f)) \in Here(l, f)
              /\ Unlinked(l, f) \in Heap
              /\ Without(Unlinked(l, f), l, Walk(l)[Min(Here(l, f))])
<1> DEFINE here == Here(l, f)
           old == Walk(l)[Min(here)]
           mid == SetNxt(l.node, l.node[old].pre, l.node[old].nxt)
           new == SetPre(mid, l.node[old].nxt, l.node[old].pre)
           u == Unlinked(l, f)
<1>1. here = {} => u = l
  BY DEF Unlinked, Here
<1> SUFFICES ASSUME here # {}
             PROVE  Min(here) \in here /\ u \in Heap /\ Without(u, l, old)
  BY <1>1
<1>2. here \in SUBSET Nat
  BY WalkType, NodesFinite DEF Here
<1>3. Min(here) \in here
  BY <1>2, MinIn
<1>4. old \in Nodes
  BY <1>3, WalkType DEF Here
<1>5. u = [l EXCEPT !.used = l.used \ {old}, !.node = new]
  BY DEF Unlinked, Here
<1> HIDE DEF here, old
<1>6. /\ l.node \in Cells
      /\ l.node[old].pre \in Link /\ l.node[old].nxt \in Link
  BY <1>4 DEF Heap, Cells
<1>7. NxtSet(mid, l.node, l.node[old].pre, l.node[old].nxt)
  BY <1>6, SetLinks
<1> HIDE DEF mid
<1>8. PreSet(new, mid, l.node[old].nxt, l.node[old].pre)
  <2>1. mid \in Cells
    BY <1>7 DEF NxtSet
  <2> QED BY <1>6, <2>1, SetLinks
<1> HIDE DEF new, u
<1>9. u \in Heap /\ u.head = l.head /\ u.used = l.used \ {old} /\ u.node = new
  BY <1>5, <1>8 DEF Heap, PreSet
<1> QED BY <1>3, <1>7, <1>8, <1>9 DEF NxtSet, PreSet, Without

(* A new node at the head points to the head before it. *)
LEMMA PushEffect ==
  ASSUME NEW l \in Heap, NEW f \in Frames, NEW n \in Nodes
  PROVE  LET u == Push(l, f, n)
         IN  /\ u \in Heap /\ u.head = n /\ u.used = l.used \cup {n}
             /\ \A m \in Nodes :
                  /\ u.node[m].index = IF m = n THEN f ELSE l.node[m].index
                  /\ u.node[m].nxt = IF m = n THEN l.head ELSE l.node[m].nxt
                  /\ u.node[m].pre = IF m = l.head THEN n
                                     ELSE IF m = n THEN NULL ELSE l.node[m].pre
<1> DEFINE mid == [l.node EXCEPT ![n] = [pre |-> NULL, nxt |-> l.head, index |-> f]]
           new == SetPre(mid, l.head, n)
           u == Push(l, f, n)
<1>1. /\ l.node \in Cells
      /\ l.head \in Link /\ l.used \subseteq Nodes /\ NULL \in Link /\ n \in Link
  BY DEF Heap, Link
<1>2. /\ mid \in Cells
      /\ \A m \in Nodes :
           /\ mid[m].index = IF m = n THEN f ELSE l.node[m].index
           /\ mid[m].nxt = IF m = n THEN l.head ELSE l.node[m].nxt
           /\ mid[m].pre = IF m = n THEN NULL ELSE l.node[m].pre
  BY <1>1 DEF Cells
<1>3. u = [node |-> new, used |-> l.used \cup {n}, head |-> n]
  BY DEF Push
<1> HIDE DEF mid
<1>4. PreSet(new, mid, l.head, n)
  BY <1>1, <1>2, SetLinks
<1> HIDE DEF new, u
<1>5. u \in Heap /\ u.head = n /\ u.used = l.used \cup {n} /\ u.node = new
  BY <1>1, <1>3, <1>4 DEF Heap, PreSet
<1> QED BY <1>2, <1>4, <1>5 DEF u, PreSet

(* lru_ref leaves a typed heap with a head, even when it has read and      *)
(* written freed nodes.                                                    *)
LEMMA ReferType ==
  ASSUME NEW l \in Heap, NEW f \in Frames, Refer(l, f)
  PROVE  list' \in Heap /\ list'.head # NULL
<1>1. Unlinked(l, f) \in Heap
  BY UnlinkedEffect
<1>2. PICK n \in Nodes : list' = Push(Unlinked(l, f), f, n)
  BY DEF Refer
<1> QED BY <1>1, <1>2, PushEffect, LruAssumption

(* The frame lru_evict gives up is a frame. *)
LEMMA LruVictim ==
  ASSUME LruType, FreeFrames = {}
  PROVE  /\ list.head # NULL /\ list.node[LastNode(list)].index \in Frames
         /\ DropLast(list) \in Heap
<1>1. UsedFrames # {}
  BY AFrame DEF UsedFrames, FreeFrames
<1> QED BY <1>1, LastNodeType, DropLastEffect DEF LruType, Heap, Cells

------------------------------------------------------------------------------
(* The list as a sequence of n nodes: distinct, all of them allocated and  *)
(* no other, linked in both directions.                                    *)
Linked(l, n, sq) ==
  /\ n \in Nat /\ sq \in [1 .. n -> Nodes]
  /\ \A i, j \in 1 .. n : sq[i] = sq[j] => i = j
  /\ l.head = IF n = 0 THEN NULL ELSE sq[1]
  /\ l.used = {sq[i] : i \in 1 .. n}
  /\ \A i \in 1 .. n : /\ l.node[sq[i]].nxt = IF i = n THEN NULL ELSE sq[i + 1]
                       /\ l.node[sq[i]].pre = IF i = 1 THEN NULL ELSE sq[i - 1]

(* The walk meets the nodes in that order. *)
LEMMA LinkedWalk ==
  ASSUME NEW l, NEW n, NEW sq, Linked(l, n, sq), n <= Cardinality(Nodes)
  PROVE  /\ \A k \in 0 .. Cardinality(Nodes) :
              Walk(l)[k] = IF k < n THEN sq[k + 1] ELSE NULL
         /\ Met(l) = {k \in 0 .. Cardinality(Nodes) : k < n}
         /\ Ended(l)
<1> DEFINE c == Cardinality(Nodes)
           w == Walk(l)
<1>1. /\ c \in Nat /\ DOMAIN w = 0 .. c /\ w[0] = l.head
      /\ \A k \in 0 .. c - 1 : w[k + 1] = Follow(l, w[k])
  BY WalkIs, NodesFinite
<1>2. n \in Nat /\ \A i \in 1 .. n : sq[i] \in Nodes /\ sq[i] # NULL
  BY LruAssumption DEF Linked
<1> HIDE DEF c, w
<1>3. \A k \in 0 .. c : w[k] = IF k < n THEN sq[k + 1] ELSE NULL
  <2> DEFINE Bad == {k \in 0 .. c : w[k] # IF k < n THEN sq[k + 1] ELSE NULL}
  <2> SUFFICES ASSUME Bad # {} PROVE FALSE
    OBVIOUS
  <2>1. Bad \subseteq Nat
    BY <1>1
  <2>2. PICK k \in Bad : \A j \in Bad : k <= j
    BY <2>1, LowestIn
  <2>3. k # 0 /\ k \in 0 .. c
    BY <1>1, <1>2, <2>2 DEF Linked
  <2>4. k - 1 \in 0 .. c - 1 /\ k - 1 \in 0 .. c /\ k - 1 + 1 = k /\ ~(k <= k - 1)
    BY <1>1, <2>3
  <2>5. w[k - 1] = IF k - 1 < n THEN sq[k] ELSE NULL
    BY <2>2, <2>4
  <2>6. w[k] = Follow(l, w[k - 1])
    BY <1>1, <2>4
  <2>7. CASE k - 1 < n
    <3>1. k \in 1 .. n /\ w[k - 1] = sq[k] /\ sq[k] # NULL
      BY <1>2, <2>3, <2>5, <2>7
    <3>2. w[k] = IF k = n THEN NULL ELSE sq[k + 1]
      BY <2>6, <3>1 DEF Follow, Linked
    <3> QED BY <1>2, <2>2, <3>1, <3>2
  <2>8. CASE ~(k - 1 < n)
    <3>1. ~(k < n) /\ w[k - 1] = NULL
      BY <1>2, <2>3, <2>5, <2>8
    <3> QED BY <2>2, <2>6, <3>1 DEF Follow
  <2> QED BY <2>7, <2>8
<1>4. \A k \in 0 .. c : w[k] # NULL <=> k < n
  <2>1. \A k \in 0 .. c : k < n => k + 1 \in 1 .. n
    BY <1>1, <1>2
  <2> QED BY <1>2, <1>3, <2>1
<1>5. Met(l) = {k \in 0 .. c : k < n}
  BY <1>1, <1>4 DEF Met, w
<1>6. Ended(l)
  <2>1. c \in 0 .. c /\ ~(c < n)
    BY <1>1, <1>2 DEF c
  <2> QED BY <1>4, <2>1 DEF Ended, w, c
<1> QED BY <1>3, <1>5, <1>6 DEF c, w

(* Taking out a node that is not the first. *)
LEMMA RemoveLinked ==
  ASSUME NEW l, NEW n, NEW sq, Linked(l, n, sq), NEW i \in 2 .. n,
         NEW u, Without(u, l, sq[i])
  PROVE  Linked(u, n - 1, [j \in 1 .. n - 1 |-> IF j < i THEN sq[j] ELSE sq[j + 1]])
<1> DEFINE s2 == [j \in 1 .. n - 1 |-> IF j < i THEN sq[j] ELSE sq[j + 1]]
<1> USE DEF Without
<1>1. /\ n \in Nat /\ n >= 2 /\ i \in 1 .. n /\ i - 1 \in 1 .. n /\ i >= 2
      /\ \A j \in 1 .. n : sq[j] \in Nodes /\ sq[j] # NULL
      /\ \A j, k \in 1 .. n : sq[j] = sq[k] => j = k
  <2>1. n \in Nat /\ \A j \in 1 .. n : sq[j] \in Nodes /\ sq[j] # NULL
    BY LruAssumption DEF Linked
  <2>2. n >= 2 /\ i \in 1 .. n /\ i - 1 \in 1 .. n /\ i >= 2
    BY <2>1
  <2> QED BY <2>1, <2>2 DEF Linked
<1>2. /\ l.node[sq[i]].pre = sq[i - 1]
      /\ l.node[sq[i]].nxt = IF i = n THEN NULL ELSE sq[i + 1]
  BY <1>1 DEF Linked
<1>3. n - 1 \in Nat /\ s2 \in [1 .. n - 1 -> Nodes]
  BY <1>1
<1>4. \A j, k \in 1 .. n - 1 : s2[j] = s2[k] => j = k
  BY <1>1
<1>5. u.head = IF n - 1 = 0 THEN NULL ELSE s2[1]
  BY <1>1 DEF Linked
<1>6. u.used = {s2[j] : j \in 1 .. n - 1}
  <2>1. \A j \in 1 .. n - 1 : s2[j] \in l.used /\ s2[j] # sq[i]
    BY <1>1 DEF Linked
  <2>2. ASSUME NEW j \in 1 .. n, j # i PROVE \E k \in 1 .. n - 1 : sq[j] = s2[k]
    <3>1. CASE j < i
      <4>1. j \in 1 .. n - 1 /\ s2[j] = sq[j]
        BY <1>1, <3>1
      <4> QED BY <4>1
    <3>2. CASE j > i
      <4>1. j - 1 \in 1 .. n - 1 /\ s2[j - 1] = sq[j]
        BY <1>1, <3>2
      <4> QED BY <4>1
    <3> QED BY <1>1, <2>2, <3>1, <3>2
  <2>3. l.used = {sq[j] : j \in 1 .. n}
    BY DEF Linked
  <2> HIDE DEF s2
  <2>4. ASSUME NEW x \in u.used PROVE x \in {s2[j] : j \in 1 .. n - 1}
    <3>1. PICK j \in 1 .. n : x = sq[j] /\ j # i
      BY <2>3
    <3> QED BY <2>2, <3>1
  <2>5. \A j \in 1 .. n - 1 : s2[j] \in u.used
    BY <2>1
  <2> QED BY <2>4, <2>5
<1>7. ASSUME NEW j \in 1 .. n - 1
      PROVE  /\ u.node[s2[j]].nxt = IF j = n - 1 THEN NULL ELSE s2[j + 1]
             /\ u.node[s2[j]].pre = IF j = 1 THEN NULL ELSE s2[j - 1]
  <2>1. CASE j < i
    <3>1. s2[j] = sq[j] /\ j \in 1 .. n
      BY <1>1, <2>1
    <3>2. u.node[sq[j]].nxt = IF j = i - 1 THEN l.node[sq[i]].nxt ELSE sq[j + 1]
      <4>1. sq[j] = l.node[sq[i]].pre <=> j = i - 1
        BY <1>1, <1>2, <3>1
      <4>2. l.node[sq[j]].nxt = sq[j + 1]
        BY <1>1, <2>1, <3>1 DEF Linked
      <4> QED BY <1>1, <3>1, <4>1, <4>2
    <3>3. u.node[sq[j]].pre = IF j = 1 THEN NULL ELSE sq[j - 1]
      <4>1. sq[j] # l.node[sq[i]].nxt
        BY <1>1, <1>2, <2>1, <3>1
      <4>2. u.node[sq[j]].pre = l.node[sq[j]].pre
        BY <1>1, <3>1, <4>1
      <4> QED BY <3>1, <4>2 DEF Linked
    <3> QED BY <1>1, <1>2, <2>1, <3>1, <3>2, <3>3
  <2>2. CASE ~(j < i)
    <3>1. s2[j] = sq[j + 1] /\ j + 1 \in 1 .. n /\ j + 1 > i
      BY <1>1, <2>2
    <3>2. u.node[sq[j + 1]].nxt = IF j + 1 = n THEN NULL ELSE sq[j + 2]
      BY <1>1, <1>2, <2>2, <3>1 DEF Linked
    <3>3. u.node[sq[j + 1]].pre = IF j = i THEN sq[i - 1] ELSE sq[j]
      <4>1. sq[j + 1] = l.node[sq[i]].nxt <=> j = i
        BY <1>1, <1>2, <2>2, <3>1
      <4>2. u.node[sq[j + 1]].pre = IF j = i THEN sq[i - 1] ELSE l.node[sq[j + 1]].pre
        BY <1>1, <1>2, <3>1, <4>1
      <4>3. l.node[sq[j + 1]].pre = sq[j]
        BY <1>1, <3>1 DEF Linked
      <4> QED BY <4>2, <4>3
    <3> QED BY <1>1, <1>2, <2>2, <3>1, <3>2, <3>3
  <2> QED BY <2>1, <2>2
<1> QED BY <1>3, <1>4, <1>5, <1>6, <1>7 DEF Linked

(* Putting a new node in front. *)
LEMMA PushLinked ==
  ASSUME NEW l \in Heap, NEW n, NEW sq, Linked(l, n, sq), NEW f \in Frames,
         NEW new \in Nodes \ l.used
  PROVE  Linked(Push(l, f, new), n + 1,
                [j \in 1 .. n + 1 |-> IF j = 1 THEN new ELSE sq[j - 1]])
<1> DEFINE u == Push(l, f, new)
           s2 == [j \in 1 .. n + 1 |-> IF j = 1 THEN new ELSE sq[j - 1]]
<1>1. /\ n \in Nat /\ new \in Nodes /\ new # NULL
      /\ \A j \in 1 .. n : sq[j] \in Nodes /\ sq[j] # NULL /\ sq[j] # new
      /\ \A j, k \in 1 .. n : sq[j] = sq[k] => j = k
      /\ l.head = IF n = 0 THEN NULL ELSE sq[1]
  BY LruAssumption DEF Linked
<1>2. /\ u.head = new /\ u.used = l.used \cup {new}
      /\ \A m \in Nodes :
           /\ u.node[m].nxt = IF m = new THEN l.head ELSE l.node[m].nxt
           /\ u.node[m].pre = IF m = l.head THEN new
                              ELSE IF m = new THEN NULL ELSE l.node[m].pre
  BY PushEffect
<1>3. /\ n + 1 \in Nat /\ n + 1 # 0 /\ s2 \in [1 .. n + 1 -> Nodes] /\ s2[1] = new
      /\ \A j \in 2 .. n + 1 : j - 1 \in 1 .. n /\ s2[j] = sq[j - 1]
      /\ \A j \in 1 .. n : j + 1 \in 2 .. n + 1 /\ s2[j + 1] = sq[j]
      /\ 1 .. n + 1 = {1} \cup 2 .. n + 1
  BY <1>1
<1> HIDE DEF u, s2
<1>4. \A j, k \in 1 .. n + 1 : s2[j] = s2[k] => j = k
  <2>1. \A j, k \in 2 .. n + 1 : s2[j] = s2[k] => j = k
    BY <1>1, <1>3
  <2>2. \A j \in 2 .. n + 1 : s2[j] # s2[1]
    <3> TAKE j \in 2 .. n + 1
    <3>1. sq[j - 1] # new /\ s2[j] = sq[j - 1]
      BY <1>1, <1>3
    <3> QED BY <1>3, <3>1
  <2> QED BY <1>3, <2>1, <2>2
<1>5. u.used = {s2[j] : j \in 1 .. n + 1}
  <2>1. l.used = {sq[j] : j \in 1 .. n}
    BY DEF Linked
  <2>2. \A x \in u.used : \E j \in 1 .. n + 1 : x = s2[j]
    BY <1>2, <1>3, <2>1
  <2>3. \A j \in 1 .. n + 1 : s2[j] \in u.used
    BY <1>2, <1>3, <2>1
  <2> QED BY <2>2, <2>3
<1>6. /\ u.node[s2[1]].nxt = IF 1 = n + 1 THEN NULL ELSE s2[1 + 1]
      /\ u.node[s2[1]].pre = NULL
  <2>1. new # l.head
    BY <1>1
  <2> QED BY <1>1, <1>2, <1>3, <2>1
<1>7. ASSUME NEW j \in 2 .. n + 1
      PROVE  /\ u.node[s2[j]].nxt = IF j = n + 1 THEN NULL ELSE s2[j + 1]
             /\ u.node[s2[j]].pre = s2[j - 1]
  <2> DEFINE i == j - 1
  <2>1. i \in 1 .. n /\ s2[j] = sq[i] /\ (i = n <=> j = n + 1) /\ j = i + 1
    BY <1>1, <1>3
  <2>2. /\ u.node[sq[i]].nxt = IF i = n THEN NULL ELSE sq[i + 1]
        /\ u.node[sq[i]].pre = IF i = 1 THEN new ELSE sq[i - 1]
    <3>1. sq[i] = l.head <=> i = 1
      BY <1>1, <2>1
    <3>2. /\ l.node[sq[i]].nxt = IF i = n THEN NULL ELSE sq[i + 1]
          /\ l.node[sq[i]].pre = IF i = 1 THEN NULL ELSE sq[i - 1]
      BY <2>1 DEF Linked
    <3> QED BY <1>1, <1>2, <2>1, <3>1, <3>2
  <2>3. i # n => i + 1 \in 1 .. n /\ s2[j + 1] = sq[i + 1]
    BY <1>1, <1>3, <2>1
  <2>4. i # 1 => i - 1 \in 1 .. n /\ s2[j - 1] = sq[i - 1]
    BY <1>1, <1>3, <2>1
  <2> HIDE DEF i
  <2> QED BY <1>3, <2>1, <2>2, <2>3, <2>4 DEF i
<1>8. ASSUME NEW j \in 1 .. n + 1
      PROVE  /\ u.node[s2[j]].nxt = IF j = n + 1 THEN NULL ELSE s2[j + 1]
             /\ u.node[s2[j]].pre = IF j = 1 THEN NULL ELSE s2[j - 1]
  BY <1>1, <1>3, <1>6, <1>7
<1> QED BY <1>2, <1>3, <1>4, <1>5, <1>8 DEF Linked, u, s2

(* ... and the frames its nodes are for, no frame twice. *)
Listed(l, n, sq, fs) ==
  /\ Linked(l, n, sq)
  /\ fs \in [1 .. n -> Frames]
  /\ \A i \in 1 .. n : l.node[sq[i]].index = fs[i]
  /\ \A i, j \in 1 .. n : fs[i] = fs[j] => i = j

(* A list of distinct frames is no longer than memory, so a node is free. *)
LEMMA ListedBound ==
  ASSUME NEW l, NEW n, NEW sq, NEW fs, Listed(l, n, sq, fs)
  PROVE  n \in Nat /\ n <= memsize /\ n < Cardinality(Nodes)
<1>1. n \in Nat /\ fs \in Injection(1 .. n, Frames)
  BY DEF Listed, Linked, Injection, IsInjective
<1>2. /\ IsFiniteSet(Frames) /\ Cardinality(Frames) = memsize
      /\ Cardinality(1 .. n) = n
  BY <1>1, FS_Interval, PageTableAssumption DEF Frames
<1>3. n <= memsize
  BY <1>1, <1>2, FS_Injection
<1> QED BY <1>1, <1>3, NodesFinite, PageTableAssumption

(* The frames of a list after frame fs[i] has moved to the front, or frame *)
(* f has been put there.                                                   *)
Moved(n, fs, i) ==
  [j \in 1 .. n |-> IF j = 1 THEN fs[i] ELSE IF j <= i THEN fs[j - 1] ELSE fs[j]]
InFront(n, fs, f) == [j \in 1 .. n + 1 |-> IF j = 1 THEN f ELSE fs[j - 1]]

(* What the search of lru_ref finds. *)
LEMMA FoundNode ==
  ASSUME NEW l, NEW n, NEW sq, NEW fs, Listed(l, n, sq, fs), NEW f
  PROVE  /\ (\A i \in 1 .. n : fs[i] # f) => Here(l, f) = {}
         /\ \A i \in 1 .. n : fs[i] = f =>
              Here(l, f) = {i - 1} /\ Walk(l)[i - 1] = sq[i]
<1> DEFINE here == Here(l, f)
           c == Cardinality(Nodes)
<1>1. n \in Nat /\ n < c /\ c \in Nat
  BY ListedBound, NodesFinite
<1>2. /\ \A k \in 0 .. c : Walk(l)[k] = IF k < n THEN sq[k + 1] ELSE NULL
      /\ Met(l) = {k \in 0 .. c : k < n}
  BY <1>1, LinkedWalk DEF Listed
<1>3. Met(l) = 0 .. n - 1
  BY <1>1, <1>2
<1>4. \A k \in 0 .. n - 1 : /\ k + 1 \in 1 .. n /\ Walk(l)[k] = sq[k + 1]
                            /\ l.node[Walk(l)[k]].index = fs[k + 1]
  BY <1>1, <1>2 DEF Listed
<1>5. here = {k \in 0 .. n - 1 : fs[k + 1] = f}
  BY <1>3, <1>4 DEF Here
<1> HIDE DEF here
<1>6. ASSUME \A i \in 1 .. n : fs[i] # f PROVE here = {}
  BY <1>4, <1>5, <1>6
<1>7. ASSUME NEW i \in 1 .. n, fs[i] = f PROVE here = {i - 1} /\ Walk(l)[i - 1] = sq[i]
  <2>1. i - 1 \in 0 .. n - 1 /\ i - 1 + 1 = i
    BY <1>1
  <2>2. \A k \in 0 .. n - 1 : fs[k + 1] = f => k = i - 1
    <3> SUFFICES ASSUME NEW k \in 0 .. n - 1, fs[k + 1] = f PROVE k = i - 1
      OBVIOUS
    <3>1. k + 1 = i
      BY <1>4, <1>7 DEF Listed
    <3> QED BY <1>1, <3>1
  <2> QED BY <1>4, <1>5, <1>7, <2>1, <2>2
<1> QED BY <1>6, <1>7 DEF here

(* A push puts the frame in front of the list. *)
LEMMA PushListed ==
  ASSUME NEW l \in Heap, NEW n, NEW sq, NEW fs, Listed(l, n, sq, fs),
         NEW f \in Frames, \A i \in 1 .. n : fs[i] # f, NEW new \in Nodes \ l.used
  PROVE  Listed(Push(l, f, new), n + 1,
                [j \in 1 .. n + 1 |-> IF j = 1 THEN new ELSE sq[j - 1]],
                InFront(n, fs, f))
<1> DEFINE u == Push(l, f, new)
           s2 == [j \in 1 .. n + 1 |-> IF j = 1 THEN new ELSE sq[j - 1]]
           f2 == InFront(n, fs, f)
<1>1. /\ n \in Nat /\ fs \in [1 .. n -> Frames]
      /\ \A i \in 1 .. n : l.node[sq[i]].index = fs[i] /\ sq[i] \in Nodes /\ sq[i] \in l.used
      /\ \A i, j \in 1 .. n : fs[i] = fs[j] => i = j
  BY DEF Listed, Linked
<1>2. Linked(u, n + 1, s2)
  BY PushLinked DEF Listed
<1>3. \A m \in Nodes : u.node[m].index = IF m = new THEN f ELSE l.node[m].index
  BY PushEffect
<1>4. f2 \in [1 .. n + 1 -> Frames]
  BY <1>1 DEF InFront
<1>5. ASSUME NEW j \in 1 .. n + 1 PROVE u.node[s2[j]].index = f2[j]
  <2>1. CASE j = 1
    BY <1>1, <1>3, <2>1 DEF InFront
  <2>2. CASE j # 1
    <3>1. j - 1 \in 1 .. n
      BY <1>1, <2>2
    <3> QED BY <1>1, <1>3, <2>2, <3>1 DEF InFront
  <2> QED BY <2>1, <2>2
<1>6. \A i, j \in 1 .. n + 1 : f2[i] = f2[j] => i = j
  BY <1>1 DEF InFront
<1> QED BY <1>2, <1>4, <1>5, <1>6 DEF Listed

(* lru_ref for a frame that is not in the list. *)
LEMMA ReferAbsent ==
  ASSUME NEW l \in Heap, NEW n, NEW sq, NEW fs, Listed(l, n, sq, fs),
         NEW f \in Frames, \A i \in 1 .. n : fs[i] # f, Refer(l, f)
  PROVE  \E s2 : Listed(list', n + 1, s2, InFront(n, fs, f))
<1>1. Unlinked(l, f) = l
  BY FoundNode, UnlinkedEffect
<1>2. PICK new \in Nodes \ l.used : list' = Push(l, f, new)
  BY <1>1 DEF Refer
<1> QED BY <1>2, PushListed

(* A node that is not the first is taken out. *)
LEMMA RemoveListed ==
  ASSUME NEW l, NEW n, NEW sq, NEW fs, Listed(l, n, sq, fs), NEW i \in 2 .. n,
         NEW u, Without(u, l, sq[i])
  PROVE  Listed(u, n - 1, [j \in 1 .. n - 1 |-> IF j < i THEN sq[j] ELSE sq[j + 1]],
                          [j \in 1 .. n - 1 |-> IF j < i THEN fs[j] ELSE fs[j + 1]])
<1> DEFINE s2 == [j \in 1 .. n - 1 |-> IF j < i THEN sq[j] ELSE sq[j + 1]]
           f2 == [j \in 1 .. n - 1 |-> IF j < i THEN fs[j] ELSE fs[j + 1]]
<1>1. /\ n \in Nat /\ fs \in [1 .. n -> Frames]
      /\ \A j \in 1 .. n : l.node[sq[j]].index = fs[j] /\ sq[j] \in Nodes
      /\ \A j, k \in 1 .. n : fs[j] = fs[k] => j = k
  BY DEF Listed, Linked
<1>2. Linked(u, n - 1, s2)
  BY RemoveLinked DEF Listed
<1>3. f2 \in [1 .. n - 1 -> Frames]
  BY <1>1
<1>4. \A j \in 1 .. n - 1 : u.node[s2[j]].index = f2[j]
  BY <1>1 DEF Without
<1>5. \A j, k \in 1 .. n - 1 : f2[j] = f2[k] => j = k
  BY <1>1
<1> QED BY <1>2, <1>3, <1>4, <1>5 DEF Listed

(* lru_ref for a frame that is in the list, but is not the first.  *)
LEMMA ReferPresent ==
  ASSUME NEW l \in Heap, NEW n, NEW sq, NEW fs, Listed(l, n, sq, fs),
         NEW i \in 2 .. n, Refer(l, fs[i])
  PROVE  \E s2 : Listed(list', n, s2, Moved(n, fs, i))
<1> DEFINE f == fs[i]
           u == Unlinked(l, f)
           here == Here(l, f)
           s1 == [j \in 1 .. n - 1 |-> IF j < i THEN sq[j] ELSE sq[j + 1]]
           f1 == [j \in 1 .. n - 1 |-> IF j < i THEN fs[j] ELSE fs[j + 1]]
<1>1. /\ n \in Nat /\ i \in 1 .. n /\ i >= 2 /\ fs \in [1 .. n -> Frames] /\ f \in Frames
      /\ \A j, k \in 1 .. n : fs[j] = fs[k] => j = k
  BY DEF Listed, Linked
<1>2. here = {i - 1} /\ Walk(l)[i - 1] = sq[i]
  BY <1>1, FoundNode
<1>3. here # {} /\ Min(here) = i - 1
  <2>1. here # {} /\ Min(here) \in here
    BY <1>2, UnlinkedEffect
  <2> HIDE DEF here
  <2> QED BY <1>2, <2>1
<1>4. u \in Heap /\ Without(u, l, sq[i])
  <2>1. Walk(l)[Min(here)] = sq[i]
    BY <1>2, <1>3
  <2> QED BY <1>3, <2>1, UnlinkedEffect
<1> HIDE DEF here, u
<1>5. Listed(u, n - 1, s1, f1)
  BY <1>4, RemoveListed
<1>6. \A j \in 1 .. n - 1 : f1[j] # f
  BY <1>1
<1>7. PICK new \in Nodes \ u.used : list' = Push(u, f, new)
  BY DEF Refer, u
<1> HIDE DEF f, s1, f1
<1>8. PICK s2 : Listed(list', n - 1 + 1, s2, InFront(n - 1, f1, f))
  BY <1>1, <1>4, <1>5, <1>6, <1>7, PushListed
<1>9. n - 1 + 1 = n /\ InFront(n - 1, f1, f) = Moved(n, fs, i)
  BY <1>1 DEF InFront, Moved, f1, f
<1> QED BY <1>8, <1>9

(* lru_evict: the last node goes, and the new page's node comes in front. *)
LEMMA LastIsLast ==
  ASSUME NEW l, NEW n, NEW sq, NEW fs, Listed(l, n, sq, fs), n # 0
  PROVE  LastNode(l) = sq[n] /\ l.node[LastNode(l)].index = fs[n]
<1> DEFINE c == Cardinality(Nodes)
<1>1. n \in Nat /\ n < c /\ c \in Nat /\ n \in 1 .. n
  BY ListedBound, NodesFinite
<1>2. /\ \A k \in 0 .. c : Walk(l)[k] = IF k < n THEN sq[k + 1] ELSE NULL
      /\ Met(l) = {k \in 0 .. c : k < n}
  BY <1>1, LinkedWalk DEF Listed
<1>3. n - 1 \in Met(l) /\ \A k \in Met(l) : k <= n - 1
  BY <1>1, <1>2
<1>4. Met(l) \in SUBSET (0 .. c) /\ Met(l) # {}
  BY <1>2, <1>3
<1>5. Max(Met(l)) \in Met(l) /\ \A k \in Met(l) : Max(Met(l)) >= k
  BY <1>1, <1>4, MaxIn
<1>6. Max(Met(l)) = n - 1
  BY <1>1, <1>3, <1>4, <1>5
<1>7. Walk(l)[n - 1] = sq[n]
  BY <1>1, <1>2
<1> QED BY <1>1, <1>6, <1>7 DEF LastNode, Listed

(* Dropping the last node and pushing its frame moves the frame to the front. *)
LEMMA EvictListed ==
  ASSUME NEW l \in Heap, NEW n, NEW sq, NEW fs, Listed(l, n, sq, fs), n >= 2,
         Refer(DropLast(l), fs[n])
  PROVE  \E s2 : Listed(list', n, s2, Moved(n, fs, n))
<1> DEFINE d == DropLast(l)
           s1 == [j \in 1 .. n - 1 |-> IF j < n THEN sq[j] ELSE sq[j + 1]]
           f1 == [j \in 1 .. n - 1 |-> IF j < n THEN fs[j] ELSE fs[j + 1]]
<1>1. /\ n \in Nat /\ n \in 2 .. n /\ n \in 1 .. n /\ fs \in [1 .. n -> Frames]
      /\ fs[n] \in Frames
      /\ \A j, k \in 1 .. n : fs[j] = fs[k] => j = k
  BY DEF Listed, Linked
<1>2. l.head # NULL /\ l.node[sq[n]].nxt = NULL
  BY <1>1, LruAssumption DEF Listed, Linked
<1>3. LastNode(l) = sq[n]
  BY <1>1, LastIsLast
<1>4. d \in Heap /\ Without(d, l, sq[n])
  BY <1>2, <1>3, DropLastEffect, LruAssumption DEF Without
<1> HIDE DEF d, s1, f1
<1>5. Listed(d, n - 1, s1, f1)
  BY <1>1, <1>4, RemoveListed DEF s1, f1
<1>6. \A j \in 1 .. n - 1 : f1[j] # fs[n]
  BY <1>1 DEF f1
<1>7. Refer(d, fs[n])
  BY DEF d
<1>8. PICK s2 : Listed(list', n - 1 + 1, s2, InFront(n - 1, f1, fs[n]))
  BY <1>1, <1>4, <1>5, <1>6, <1>7, ReferAbsent
<1>9. n - 1 + 1 = n /\ InFront(n - 1, f1, fs[n]) = Moved(n, fs, n)
  BY <1>1 DEF InFront, Moved, f1
<1> QED BY <1>8, <1>9

------------------------------------------------------------------------------
(* The list lists the frames in use, the one referenced last in front.     *)
FramesOf(n, fs) == {fs[i] : i \in 1 .. n}

Current(n, fs) ==
  /\ FramesOf(n, fs) = UsedFrames
  /\ n # 0 => coremap[fs[1]] = latest

LruOrder == \E n, sq, fs : Listed(list, n, sq, fs) /\ Current(n, fs)

(* Where lru keeps its promise: no page is referenced twice in a row, as   *)
(* in the traces fastslim.py writes, and there are at least two frames.    *)
NoRepeats == Repeats = FALSE /\ memsize >= 2

(* Moving a frame to the front changes no frame in the list. *)
LEMMA MovedFrames ==
  ASSUME NEW n \in Nat, NEW fs \in [1 .. n -> Frames], NEW i \in 1 .. n
  PROVE  /\ FramesOf(n, Moved(n, fs, i)) = FramesOf(n, fs)
         /\ Moved(n, fs, i)[1] = fs[i] /\ 1 \in 1 .. n
<1> DEFINE m == Moved(n, fs, i)
<1>1. \A j \in 1 .. n : m[j] = IF j = 1 THEN fs[i] ELSE IF j <= i THEN fs[j - 1] ELSE fs[j]
  BY DEF Moved
<1>2. 1 \in 1 .. n /\ m[1] = fs[i]
  BY <1>1
<1> HIDE DEF m
<1>3. ASSUME NEW j \in 1 .. n PROVE m[j] \in {fs[k] : k \in 1 .. n}
  <2>1. \/ m[j] = fs[i] \/ m[j] = fs[j] \/ (m[j] = fs[j - 1] /\ j - 1 \in 1 .. n)
    BY <1>1
  <2> QED BY <2>1
<1>4. ASSUME NEW j \in 1 .. n PROVE fs[j] \in {m[k] : k \in 1 .. n}
  <2>1. CASE j = i
    BY <1>2, <2>1
  <2>2. CASE j < i
    <3>1. j + 1 \in 1 .. n /\ m[j + 1] = fs[j]
      BY <1>1, <2>2
    <3> QED BY <3>1
  <2>3. CASE j > i
    <3>1. m[j] = fs[j]
      BY <1>1, <2>3
    <3> QED BY <3>1
  <2> QED BY <2>1, <2>2, <2>3
<1>5. {m[j] : j \in 1 .. n} = {fs[j] : j \in 1 .. n}
  BY <1>3, <1>4
<1> QED BY <1>2, <1>5 DEF m, FramesOf

(* What a reference does to the order of the frames. *)
LEMMA LruHits ==
  ASSUME IInv, LruType, NoRepeats,
         NEW n, NEW sq, NEW fs, Listed(list, n, sq, fs), Current(n, fs),
         NEW p \in Pages, NEW t, LruHit(p, t), p # latest, latest' = p
  PROVE  \E i \in 2 .. n :
           /\ coremap[fs[i]] = p /\ coremap' = coremap
           /\ \E s2 : Listed(list', n, s2, Moved(n, fs, i))
           /\ Current(n, Moved(n, fs, i))'
<1>1. /\ n \in Nat /\ fs \in [1 .. n -> Frames]
      /\ {fs[i] : i \in 1 .. n} = UsedFrames
      /\ n # 0 => coremap[fs[1]] = latest
  BY DEF Listed, Linked, Current, FramesOf
<1>2. Hit(p, t) /\ Refer(list, pte[p].frame) /\ pte[p].valid
  BY DEF LruHit, Hit
<1>3. coremap' = coremap
  BY <1>2, HitEffects
<1>4. pte[p].frame \in UsedFrames /\ coremap[pte[p].frame] = p
  BY <1>2, PageTableAssumption DEF IInv, TypeOK, FramesMatch, UsedFrames, Entry
<1>5. PICK i \in 1 .. n : fs[i] = pte[p].frame
  BY <1>1, <1>4
<1>6. i # 1 /\ i \in 2 .. n /\ n # 0
  BY <1>1, <1>4, <1>5
<1>7. \E s2 : Listed(list', n, s2, Moved(n, fs, i))
  BY <1>2, <1>5, <1>6, ReferPresent DEF LruType
<1>8. Current(n, Moved(n, fs, i))'
  <2>1. UsedFrames' = UsedFrames
    BY <1>3 DEF UsedFrames
  <2>2. /\ FramesOf(n, Moved(n, fs, i)) = FramesOf(n, fs)
        /\ Moved(n, fs, i)[1] = fs[i]
    BY <1>1, MovedFrames
  <2> QED BY <1>1, <1>3, <1>4, <1>5, <2>1, <2>2 DEF Current, FramesOf
<1> QED BY <1>3, <1>4, <1>5, <1>6, <1>7, <1>8

(* A page that is loaded into a free frame comes to the front. *)
LEMMA LruFills ==
  ASSUME IInv, LruType,
         NEW n, NEW sq, NEW fs, Listed(list, n, sq, fs), Current(n, fs),
         NEW p \in Pages, NEW t, LruFill(p, t), latest' = p
  PROVE  \E f \in FreeFrames :
           /\ coremap' = [coremap EXCEPT ![f] = p]
           /\ \E s2 : Listed(list', n + 1, s2, InFront(n, fs, f))
           /\ Current(n + 1, InFront(n, fs, f))'
<1>1. /\ n \in Nat /\ fs \in [1 .. n -> Frames]
      /\ {fs[i] : i \in 1 .. n} = UsedFrames
  BY DEF Listed, Linked, Current, FramesOf
<1>2. PICK f \in Frames : f = Lowest(FreeFrames) /\ f \in FreeFrames
  BY FillEffects DEF LruFill, FreeFrames
<1>3. /\ coremap' = [coremap EXCEPT ![f] = p] /\ UsedFrames' = UsedFrames \cup {f}
      /\ Refer(list, f)
  BY <1>2, FillEffects DEF LruFill
<1>4. \A i \in 1 .. n : fs[i] # f
  BY <1>1, <1>2 DEF UsedFrames, FreeFrames
<1>5. \E s2 : Listed(list', n + 1, s2, InFront(n, fs, f))
  BY <1>3, <1>4, ReferAbsent DEF LruType
<1> DEFINE g == InFront(n, fs, f)
<1>6. /\ 1 \in 1 .. n + 1 /\ g[1] = f
      /\ \A j \in 1 .. n + 1 : j # 1 => j - 1 \in 1 .. n /\ g[j] = fs[j - 1]
      /\ \A j \in 1 .. n : j + 1 \in 1 .. n + 1 /\ g[j + 1] = fs[j]
  BY <1>1 DEF InFront
<1> HIDE DEF g
<1>7. {g[j] : j \in 1 .. n + 1} = UsedFrames \cup {f}
  <2>1. \A j \in 1 .. n + 1 : g[j] \in UsedFrames \cup {f}
    BY <1>1, <1>6
  <2>2. \A x \in UsedFrames \cup {f} : \E j \in 1 .. n + 1 : x = g[j]
    <3>1. \A x \in UsedFrames : \E j \in 1 .. n : x = fs[j]
      BY <1>1
    <3> QED BY <1>6, <3>1
  <2> QED BY <2>1, <2>2
<1>8. coremap'[f] = p
  BY <1>3 DEF IInv, TypeOK
<1>9. Current(n + 1, g)'
  BY <1>3, <1>6, <1>7, <1>8 DEF Current, FramesOf
<1> QED BY <1>2, <1>3, <1>5, <1>9 DEF g

(* In a full memory the frame of the last node is taken and comes to the front. *)
LEMMA LruEvicts ==
  ASSUME IInv, LruType, NoRepeats,
         NEW n, NEW sq, NEW fs, Listed(list, n, sq, fs), Current(n, fs),
         NEW p \in Pages, NEW t, LruEvict(p, t), latest' = p
  PROVE  /\ n = memsize /\ fs[n] \in Frames
         /\ Miss(p, t, fs[n])
         /\ coremap' = [coremap EXCEPT ![fs[n]] = p]
         /\ \E s2 : Listed(list', n, s2, Moved(n, fs, n))
         /\ Current(n, Moved(n, fs, n))'
<1>1. /\ n \in Nat /\ fs \in [1 .. n -> Frames]
      /\ {fs[i] : i \in 1 .. n} = UsedFrames
      /\ \A i, j \in 1 .. n : fs[i] = fs[j] => i = j
      /\ FreeFrames = {} /\ memsize \in Nat /\ memsize >= 2
  BY PageTableAssumption DEF Listed, Linked, Current, FramesOf, LruEvict, NoRepeats
<1>2. n = memsize
  <2>1. fs \in Bijection(1 .. n, UsedFrames)
    BY <1>1 DEF Bijection, Injection, Surjection, IsInjective
  <2>2. ExistsBijection(1 .. n, UsedFrames)
    BY <2>1 DEF ExistsBijection
  <2>3. IsFiniteSet(1 .. n) /\ Cardinality(1 .. n) = n
    BY <1>1, FS_Interval
  <2>4. Cardinality(UsedFrames) = n
    BY <2>2, <2>3, FS_Bijection
  <2> QED BY <1>1, <2>4, FramesFinite DEF IInv
<1>3. n # 0 /\ n >= 2 /\ n \in 1 .. n /\ fs[n] \in Frames
  BY <1>1, <1>2
<1>4. list.node[LastNode(list)].index = fs[n]
  BY <1>3, LastIsLast
<1>5. Miss(p, t, fs[n]) /\ Refer(DropLast(list), fs[n])
  BY <1>4 DEF LruEvict
<1>6. coremap' = [coremap EXCEPT ![fs[n]] = p] /\ UsedFrames' = UsedFrames
  BY <1>3, <1>5, EvictEffects
<1>7. \E s2 : Listed(list', n, s2, Moved(n, fs, n))
  BY <1>3, <1>5, EvictListed DEF LruType
<1>8. Current(n, Moved(n, fs, n))'
  <2>1. coremap'[fs[n]] = p
    BY <1>3, <1>6 DEF IInv, TypeOK
  <2>2. /\ FramesOf(n, Moved(n, fs, n)) = FramesOf(n, fs)
        /\ Moved(n, fs, n)[1] = fs[n]
    BY <1>1, <1>3, MovedFrames
  <2> QED BY <1>1, <1>6, <2>1, <2>2 DEF Current, FramesOf
<1> QED BY <1>2, <1>3, <1>5, <1>6, <1>7, <1>8

(* The list is what lru.c means it to be. *)
LEMMA OrderIsSound ==
  ASSUME LruOrder
  PROVE  ListSound
<1>1. PICK n, sq, fs : Listed(list, n, sq, fs) /\ Current(n, fs)
  BY DEF LruOrder
<1> DEFINE c == Cardinality(Nodes)
<1>2. n \in Nat /\ n < c /\ c \in Nat
  BY <1>1, ListedBound, NodesFinite
<1>3. /\ \A k \in 0 .. c : Walk(list)[k] = IF k < n THEN sq[k + 1] ELSE NULL
      /\ Met(list) = {k \in 0 .. c : k < n}
      /\ Ended(list)
  BY <1>1, <1>2, LinkedWalk DEF Listed
<1>4. /\ \A k \in Met(list) : k \in 0 .. n - 1 /\ k + 1 \in 1 .. n /\ Walk(list)[k] = sq[k + 1]
      /\ \A i \in 1 .. n : i - 1 \in Met(list) /\ Walk(list)[i - 1] = sq[i]
  BY <1>2, <1>3
<1>5. list.used = {Walk(list)[k] : k \in Met(list)}
  <2>1. list.used = {sq[i] : i \in 1 .. n}
    BY <1>1 DEF Listed, Linked
  <2>2. \A x \in list.used : \E k \in Met(list) : x = Walk(list)[k]
    BY <1>4, <2>1
  <2>3. \A k \in Met(list) : Walk(list)[k] \in list.used
    BY <1>4, <2>1
  <2> QED BY <2>2, <2>3
<1>6. ASSUME NEW f \in Frames \ FreeFrames
      PROVE  Cardinality({x \in list.used : list.node[x].index = f}) = 1
  <2>1. PICK i \in 1 .. n : fs[i] = f
    BY <1>1 DEF Current, FramesOf, UsedFrames, FreeFrames
  <2>2. /\ list.used = {sq[j] : j \in 1 .. n}
        /\ \A j \in 1 .. n : list.node[sq[j]].index = fs[j]
        /\ \A j, k \in 1 .. n : fs[j] = fs[k] => j = k
    BY <1>1 DEF Listed, Linked
  <2>3. {x \in list.used : list.node[x].index = f} = {sq[i]}
    BY <2>1, <2>2
  <2> QED BY <2>3, FS_Singleton
<1>7. ASSUME NEW k \in Met(list)
      PROVE  list.node[Walk(list)[k]].pre = IF k = 0 THEN NULL ELSE Walk(list)[k - 1]
  <2>1. \A i \in 1 .. n : list.node[sq[i]].pre = IF i = 1 THEN NULL ELSE sq[i - 1]
    BY <1>1 DEF Listed, Linked
  <2>2. ASSUME k # 0 PROVE k - 1 \in Met(list) /\ Walk(list)[k - 1] = sq[k]
    <3>1. k \in 0 .. n - 1
      BY <1>4
    <3>2. k \in 1 .. n
      BY <1>2, <2>2, <3>1
    <3> QED BY <1>4, <3>2
  <2>3. k + 1 - 1 = k /\ (k + 1 = 1 <=> k = 0) /\ k + 1 \in 1 .. n
    BY <1>2, <1>4
  <2> QED BY <1>4, <2>1, <2>2, <2>3
<1> QED BY <1>3, <1>5, <1>6, <1>7 DEF ListSound

(* The pages in the order of the list. *)
LEMMA PagesInOrder ==
  ASSUME NEW n, NEW sq, NEW fs, Listed(list, n, sq, fs)
  PROVE  PagesByRecency = [k \in 1 .. n |-> coremap[fs[k]]]
<1> DEFINE c == Cardinality(Nodes)
<1>1. n \in Nat /\ n < c /\ c \in Nat
  BY ListedBound, NodesFinite
<1>2. /\ \A k \in 0 .. c : Walk(list)[k] = IF k < n THEN sq[k + 1] ELSE NULL
      /\ Met(list) = {k \in 0 .. c : k < n}
  BY <1>1, LinkedWalk DEF Listed
<1>3. Met(list) = 0 .. n - 1
  BY <1>1, <1>2
<1>4. Cardinality(Met(list)) = n
  BY <1>1, <1>3, FS_Interval
<1>5. \A k \in 1 .. n : Walk(list)[k - 1] = sq[k]
  BY <1>1, <1>2
<1>6. \A k \in 1 .. n : list.node[Walk(list)[k - 1]].index = fs[k]
  BY <1>5 DEF Listed
<1> QED BY <1>4, <1>6 DEF PagesByRecency
=============================================================================
