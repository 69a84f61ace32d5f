--------------------------------- MODULE Lru ---------------------------------
(***************************************************************************)
(* The `lru' algorithm (lru.c) over the paging core: a doubly linked list  *)
(* in the heap, one node per frame, from the newest to the oldest.         *)
(*                                                                         *)
(* malloc returns any node that is not allocated, and a freed node keeps   *)
(* what was in it: freed memory is read and written by lru_ref when the    *)
(* frame it looks for is the first of the list.                            *)
(***************************************************************************)
EXTENDS PageTable, FiniteSetsExt

CONSTANTS Nodes,      \* the heap chunks a node can be in
          NULL,
          Repeats     \* whether a trace may name a page twice in a row

ASSUME LruAssumption ==
  /\ NULL \notin Nodes
  /\ IsFiniteSet(Nodes)
  /\ Cardinality(Nodes) > memsize
  /\ Repeats \in BOOLEAN

VARIABLES
  list,       \* the heap, the allocated nodes and coremap->head
  latest      \* the page of the last line of the trace

lruVars == <<core, list, latest>>

LruInit ==
  /\ PageTableInit
  /\ list = [node |-> [n \in Nodes |-> [pre |-> NULL, nxt |-> NULL, index |-> 0]],
             used |-> {}, head |-> NULL]
  /\ latest = NoPage

(* The nodes met from the head on; NULL once the list is over.  A list     *)
(* that is not over after as many nodes as there are has no end.           *)
Walk(l) ==
  LET at[k \in 0 .. Cardinality(Nodes)] ==
        IF k = 0 THEN l.head
        ELSE IF at[k - 1] = NULL THEN NULL ELSE l.node[at[k - 1]].nxt
  IN  at
Ended(l) == Walk(l)[Cardinality(Nodes)] = NULL
Met(l)   == {k \in DOMAIN Walk(l) : Walk(l)[k] # NULL}

SetNxt(node, n, to) == IF n = NULL THEN node ELSE [node EXCEPT ![n].nxt = to]
SetPre(node, n, to) == IF n = NULL THEN node ELSE [node EXCEPT ![n].pre = to]

(* lru_evict frees the last node. *)
LastNode(l) == Walk(l)[Max(Met(l))]
DropLast(l) ==
  [l EXCEPT !.used = @ \ {LastNode(l)},
            !.node = SetNxt(@, @[LastNode(l)].pre, NULL)]

(* Mutated form: the node after the unlinked one keeps pointing back to it. *)
PreKept(l, f) ==
  LET here == {k \in Met(l) : l.node[Walk(l)[k]].index = f}
      old  == Walk(l)[Min(here)]
  IN  IF here = {} THEN l
      ELSE [l EXCEPT !.used = @ \ {old},
                     !.node = SetNxt(@, @[old].pre, @[old].nxt)]

(* lru_ref: unlink and free the first node of the frame, if there is one;  *)
(* coremap->head is left as it was.                                        *)
Unlinked(l, f) ==
  LET here == {k \in Met(l) : l.node[Walk(l)[k]].index = f}
      old  == Walk(l)[Min(here)]
  IN  IF here = {} THEN l
      ELSE [l EXCEPT !.used = @ \ {old},
              !.node = SetPre(SetNxt(@, @[old].pre, @[old].nxt),
                              @[old].nxt, @[old].pre)]

(* ... and make a new head of node n. *)
Push(l, f, n) ==
  [node |-> SetPre([l.node EXCEPT ![n] = [pre |-> NULL, nxt |-> l.head, index |-> f]],
                   l.head, n),
   used |-> l.used \cup {n}, head |-> n]

(* lru_ref for frame f.  The search for a frame that is not in a list      *)
(* without an end never returns: there is no step then.                    *)
Refer(l, f) ==
  /\ ~Ended(l) => \E k \in Met(l) : l.node[Walk(l)[k]].index = f
  /\ \E n \in Nodes \ Unlinked(l, f).used : list' = Push(Unlinked(l, f), f, n)

(* Mutated form: lru_ref does nothing for a page that is resident. *)
HitUnnoticed(p, t) == Hit(p, t) /\ UNCHANGED list

LruHit(p, t)  == Hit(p, t) /\ Refer(list, pte[p].frame)
LruFill(p, t) == MissFree(p, t) /\ Refer(list, Lowest(FreeFrames))
LruEvict(p, t) ==
  /\ FreeFrames = {} /\ Ended(list)
  /\ LET f == list.node[LastNode(list)].index
     IN  Miss(p, t, f) /\ Refer(DropLast(list), f)

LruNext ==
  \E p \in Pages, t \in AccessTypes :
    /\ count.ref < TraceLen
    /\ ~Repeats => p # latest
    /\ latest' = p
    /\ LruHit(p, t) \/ LruFill(p, t) \/ LruEvict(p, t)

LruSpec == LruInit /\ [][LruNext]_lruVars

------------------------------------------------------------------------------
(* The pages of the frames in the list, the newest first. *)
PagesByRecency ==
  [k \in 1 .. Cardinality(Met(list)) |->
     coremap[list.node[Walk(list)[k - 1]].index]]

(* The list and the memory agree: every frame in use is in the list once,  *)
(* pre is the inverse of nxt, and no node is leaked or used after free.    *)
ListSound ==
  /\ Ended(list)
  /\ list.used = {Walk(list)[k] : k \in Met(list)}
  /\ \A f \in Frames \ FreeFrames :
       Cardinality({n \in list.used : list.node[n].index = f}) = 1
  /\ \A k \in Met(list) :
       list.node[Walk(list)[k]].pre = IF k = 0 THEN NULL ELSE Walk(list)[k - 1]

(* `Last node contains the least recent page' (lru.c:46): there is a last  *)
(* node, also after a reference to the page that was referenced last.      *)
LastNodeExists == Ended(list)
==============================================================================
