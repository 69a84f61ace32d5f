--------------------------------- MODULE Opt ---------------------------------
(***************************************************************************)
(* The `opt' algorithm (opt.c) over the paging core.  opt_init has read    *)
(* the whole trace; opt_ref keeps, for each frame, the time of the next    *)
(* reference to its page, and is one reference late in doing so.           *)
(***************************************************************************)
EXTENDS PageTable, FiniteSetsExt

CONSTANT KnownLen     \* the length of the trace, of which opt_init knows the whole

ASSUME OptAssumption == KnownLen \in 1 .. TraceLen

VARIABLES
  addrs,      \* the trace: the page referenced at each time
  memory,     \* for each frame the time of the next reference, or -1
  cur         \* the TraceItem in turn: its time, and its predecessor's frame

optVars == <<core, addrs, memory, cur>>

(* Times are 0 .. KnownLen - 1.  opt_init counts one line more than the    *)
(* trace has and reads one entry more: its address is what malloc left     *)
(* there, any page or none.                                                *)
Times == 0 .. KnownLen
Traces == {a \in [Times -> Pages \cup {NoPage}] :
             \A i \in 0 .. KnownLen - 1 : a[i] # NoPage}
OptStart ==
  /\ memory = [f \in Frames |-> -1]
  /\ cur = [time |-> 0, pre |-> -1]
OptInit == PageTableInit /\ addrs \in Traces /\ OptStart

(* Mutated form: the search starts one entry too late. *)
FromNext(p, i) ==
  LET later == {j \in Times : j > i /\ addrs[j] = p}
  IN  IF later = {} THEN -1 ELSE Min(later)

(* The first entry for page p from time i on, -1 if there is none. *)
NextUse(p, i) ==
  LET later == {j \in Times : j >= i /\ addrs[j] = p}
  IN  IF later = {} THEN -1 ELSE Min(later)

(* Mutated form: -1 is not taken for `never'. *)
opt_largest ==
  Min({f \in Frames : \A g \in Frames : memory[f] >= memory[g]})

(* opt_evict: the first frame whose page is not referenced again; if there *)
(* is none, the first of those referenced again last.                      *)
opt_evict ==
  LET never == {f \in Frames : memory[f] = -1}
  IN  IF never # {} THEN Min(never)
      ELSE Min({f \in Frames : \A g \in Frames : memory[f] >= memory[g]})

(* opt_ref, called with the frame of the page just referenced, updates the *)
(* frame of the reference before it.                                       *)
OptRef(f) ==
  /\ memory' = IF cur.time = 0 THEN memory
               ELSE [memory EXCEPT ![cur.pre] = NextUse(addrs[cur.time - 1], cur.time)]
  /\ cur' = [time |-> cur.time + 1, pre |-> f]

OptHit(p, t)   == Hit(p, t) /\ OptRef(pte[p].frame)
OptFill(p, t)  == MissFree(p, t) /\ OptRef(Lowest(FreeFrames))
OptEvict(p, t) == Miss(p, t, opt_evict) /\ OptRef(opt_evict)

OptNext ==
  /\ cur.time < KnownLen
  /\ \E t \in AccessTypes :
       LET p == addrs[cur.time]
       IN  OptHit(p, t) \/ OptFill(p, t) \/ OptEvict(p, t)
  /\ UNCHANGED addrs

OptSpec == OptInit /\ [][OptNext]_optVars

------------------------------------------------------------------------------
(* When a page is next referenced, counting the reference in turn. *)
When(p) ==
  LET later == {j \in 0 .. KnownLen - 1 : j >= cur.time /\ addrs[j] = p}
  IN  IF later = {} THEN KnownLen ELSE Min(later)

(* memory[] tells the next reference of the page in each frame, except for *)
(* the frame referenced last.  The page may have moved in and out of that  *)
(* frame in the meantime; the phantom entry counts as a reference.         *)
NextUseKnown ==
  \A f \in Frames \ {cur.pre} : coremap[f] # NoPage =>
    memory[f] = NextUse(coremap[f], cur.time)

(* The victim is not referenced again before any other page, setting aside *)
(* the page referenced last, whose time opt_evict does not know.           *)
LatestGoes ==
  \A q \in Pages : Evicted(q) /\ pte[q].frame # cur.pre =>
    \A r \in Pages : pte[r].valid /\ pte[r].frame # cur.pre => When(r) <= When(q)

(* `Page to evict is chosen using the optimal (aka MIN) algorithm'         *)
(* (opt.c:14): the victim is one referenced again last.                    *)
Optimal ==
  [][\A q \in Pages : Evicted(q) =>
       \A r \in Pages : pte[r].valid => When(r) <= When(q)]_optVars
==============================================================================
