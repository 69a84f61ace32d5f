-------------------------- MODULE Interceptor_proofs --------------------------
(***************************************************************************)
(* Proofs about the kernel module, for any processes, owners, commands and *)
(* number of system calls: who holds which spinlock where, that no call    *)
(* returns with one, and that a pid is never in a list twice.              *)
(***************************************************************************)
EXTENDS Interceptor, TLAPS

(* The places between a thread's spin_lock and spin_unlock of each lock. *)
HoldsTable == {
  "intercept_save", "intercept_hook", "call_unlock", "release_restore",
  "release_clear", "start_check", "both_unlock", "start_unlock", "start_mark",
  "start_relock", "start_add", "added_unlock", "all_mark", "stop_check",
  "stop_unlock", "stopall_unlock", "stop_find", "found_unlock", "stop_flag",
  "stop_relock", "stop_del", "clear_list", "clear_reset", "init_hook",
  "init_pidlist", "init_fill", "init_unlock1", "init_unlock2", "fini_scan",
  "fini_release", "fini_restore", "fini_unlock" }

HoldsPids == {
  "start_calltable", "start_check", "both_unlock", "pid_unlock",
  "start_unlock", "start_add", "added_unlock", "stop_calltable", "stop_find",
  "found_unlock", "stop_del", "exit_del", "exit_count", "exit_next",
  "exit_unlock", "init_fill", "init_unlock1" }

(* The lock variables agree with the places.  A process that died on a     *)
(* null list (ExitUnlink) keeps pidlist_lock for ever.                     *)
LockInv ==
  \A t \in Threads :
    /\ pc[t] \in HoldsTable <=> holder["calltable"] = t
    /\ pc[t] \in HoldsPids => holder["pidlist"] = t
    /\ holder["pidlist"] = t => pc[t] \in HoldsPids \cup {"dead"}

(* START between its test and add_pid_sysc: the pid it adds is not listed. *)
Adding == {"start_unlock", "start_mark", "start_relock", "start_add"}

AddInv ==
  \A p \in Procs : pc[p] \in Adding =>
    (arg[p].pid \in Procs => table[arg[p].sysc].my_list[arg[p].pid] = 0)

(* del_pid is at a row below NR_syscalls until it moves to the next one. *)
Scanning == {"exit_count", "exit_next"}

ScanInv == \A p \in Procs : pc[p] \in Scanning => arg[p].sysc < NR

IInv == TypeOK /\ LockInv /\ NoDuplicatePid /\ AddInv /\ ScanInv

(* Moving from place a to place b without touching a lock is sound. *)
SameLocks(a, b) ==
  /\ a \in HoldsTable <=> b \in HoldsTable
  /\ b \in HoldsPids => a \in HoldsPids
  /\ a \in HoldsPids \cup {"dead"} => b \in HoldsPids \cup {"dead"}

Moves(a, b) ==
  /\ SameLocks(a, b)
  /\ b \in Adding => a \in Adding
  /\ b \in Scanning => a \in Scanning

(* What the table of lock operations says. *)
LEMMA LockPointFacts ==
  \A k \in LockPoints :
    /\ k[3] \in Labels /\ k[1] # "dead" /\ k[3] # "dead"
    /\ k[2] \in {"calltable", "pidlist"}
    /\ k[2] = "calltable" => /\ k[3] \in HoldsTable
                             /\ k[1] \in HoldsPids <=> k[3] \in HoldsPids
    /\ k[2] = "pidlist" => /\ k[3] \in HoldsPids
                           /\ k[1] \in HoldsTable <=> k[3] \in HoldsTable
    /\ k[3] \in Adding => k[1] \in Adding
    /\ k[3] \notin Scanning
BY DEF LockPoints, Labels, HoldsTable, HoldsPids, Adding,
   Scanning

(* Each unlock lets go of a lock its place holds, and of no other. *)
LEMMA UnlockPointFacts ==
  \A k \in UnlockPoints :
    /\ k[3] \in Labels /\ k[1] # "dead" /\ k[3] # "dead"
    /\ k[2] \in {"calltable", "pidlist"}
    /\ k[2] = "calltable" => /\ k[1] \in HoldsTable /\ k[3] \notin HoldsTable
                             /\ k[1] \in HoldsPids <=> k[3] \in HoldsPids
    /\ k[2] = "pidlist" => /\ k[1] \in HoldsPids /\ k[3] \notin HoldsPids
                           /\ k[1] \in HoldsTable <=> k[3] \in HoldsTable
    /\ k[3] \in Adding => k[1] \in Adding
    /\ k[3] \notin Scanning
BY DEF UnlockPoints, Labels, HoldsTable, HoldsPids, Adding,
   Scanning

(* The invariant holds before insertion. *)
LEMMA InitInvariant == Init => IInv
<1> SUFFICES ASSUME Init PROVE IInv
  OBVIOUS
<1>1. EmptyRow \in Row /\ 1 \in Syscalls
      /\ \A q \in Procs : EmptyRow.my_list[q] = 0
  BY InterceptorAssumption DEF EmptyRow, Row, EmptyList, Handlers, Syscalls
<1>2. TypeOK
  <2>1. pc \in [Threads -> Labels]
    BY DEF Init, Labels
  <2>2. holder \in [{"pidlist", "calltable"} -> Threads \cup {NoOne}]
    BY DEF Init
  <2>3. /\ arg \in [Procs -> [sysc : Syscalls, pid : Procs \cup {AllPids}]]
        /\ table \in [Syscalls -> Row]
    BY <1>1 DEF Init
  <2>4. sys_call_table \in [Syscalls -> Handlers] /\ hooked \in BOOLEAN
    BY DEF Init, Handlers
  <2>5. alive \subseteq Procs /\ calls \in [Admins -> 0 .. MaxCalls]
    BY InterceptorAssumption DEF Init
  <2> QED BY <2>1, <2>2, <2>3, <2>4, <2>5 DEF TypeOK
<1>3. \A t \in Threads : pc[t] \in {"absent", "user"} /\ t # NoOne
  BY InterceptorAssumption DEF Init, Threads
<1>4. LockInv
  BY <1>3 DEF LockInv, Init, HoldsTable, HoldsPids
<1>5. NoDuplicatePid /\ AddInv /\ ScanInv
  BY <1>1, <1>3 DEF NoDuplicatePid, AddInv, ScanInv, Init, Adding, Scanning,
                    Threads
<1> QED BY <1>2, <1>4, <1>5 DEF IInv

(* A step that takes or drops no lock, adds no pid, and does not enter the *)
(* part of START between the test and the addition.                        *)
LEMMA QuietStep ==
  ASSUME IInv, TypeOK', NEW t \in Threads, NEW b \in Labels,
         Goto(t, b), SameLocks(pc[t], b), holder' = holder,
         b \in Adding => pc[t] \in Adding /\ arg' = arg,
         b \in Scanning => arg'[t].sysc < NR,
         \A q \in Procs : q # t => arg'[q] = arg[q],
         \A s \in Syscalls, q \in Procs :
           table'[s].my_list[q] <= table[s].my_list[q]
  PROVE  IInv'
<1>1. /\ pc' = [pc EXCEPT ![t] = b] /\ pc \in [Threads -> Labels]
      /\ pc'[t] = b /\ \A u \in Threads : u # t => pc'[u] = pc[u]
  BY DEF IInv, TypeOK, Goto
<1>2. LockInv'
  <2> SUFFICES ASSUME NEW u \in Threads
               PROVE  /\ pc'[u] \in HoldsTable <=> holder["calltable"] = u
                      /\ pc'[u] \in HoldsPids => holder["pidlist"] = u
                      /\ holder["pidlist"] = u => pc'[u] \in HoldsPids \cup {"dead"}
    BY DEF LockInv
  <2>1. CASE u = t
    BY <1>1, <2>1 DEF IInv, LockInv, SameLocks
  <2>2. CASE u # t
    BY <1>1, <2>2 DEF IInv, LockInv
  <2> QED BY <2>1, <2>2
<1>3. \A s \in Syscalls, q \in Procs :
        table[s].my_list[q] \in Nat /\ table'[s].my_list[q] \in Nat
  BY DEF IInv, TypeOK, Row
<1>4. NoDuplicatePid'
  BY <1>3 DEF IInv, NoDuplicatePid
<1>5. AddInv'
  <2> SUFFICES ASSUME NEW p \in Procs, pc'[p] \in Adding, arg'[p].pid \in Procs
               PROVE  table'[arg'[p].sysc].my_list[arg'[p].pid] = 0
    BY DEF AddInv
  <2>1. pc[p] \in Adding /\ arg'[p] = arg[p]
    BY <1>1 DEF Threads
  <2>2. arg[p].sysc \in Syscalls
    BY DEF IInv, TypeOK
  <2>3. table[arg[p].sysc].my_list[arg[p].pid] = 0
    BY <2>1 DEF IInv, AddInv
  <2> QED BY <1>3, <2>1, <2>2, <2>3
<1>6. ScanInv'
  BY <1>1 DEF IInv, ScanInv, Threads
<1> QED BY <1>2, <1>4, <1>5, <1>6 DEF IInv

(* Taking a lock: only a free one can be taken. *)
LEMMA LockStep ==
  ASSUME IInv, NEW t \in Threads, Lock(t)
  PROVE  IInv'
<1>1. PICK k \in LockPoints :
        /\ pc[t] = k[1]
        /\ holder[k[2]] = NoOne
        /\ holder' = [holder EXCEPT ![k[2]] = t]
        /\ pc' = [pc EXCEPT ![t] = k[3]]
        /\ UNCHANGED data
  BY DEF Lock, Goto
<1>2. /\ k[3] \in Labels /\ k[1] # "dead" /\ k[3] # "dead"
      /\ k[2] \in {"calltable", "pidlist"}
      /\ k[2] = "calltable" => /\ k[3] \in HoldsTable
                               /\ k[1] \in HoldsPids <=> k[3] \in HoldsPids
      /\ k[2] = "pidlist" => /\ k[3] \in HoldsPids
                             /\ k[1] \in HoldsTable <=> k[3] \in HoldsTable
      /\ k[3] \in Adding => k[1] \in Adding
      /\ k[3] \notin Scanning
  BY LockPointFacts
<1>3. /\ pc'[t] = k[3] /\ \A u \in Threads : u # t => pc'[u] = pc[u]
      /\ holder'[k[2]] = t
      /\ \A l \in {"calltable", "pidlist"} : l # k[2] => holder'[l] = holder[l]
      /\ arg' = arg /\ table' = table /\ sys_call_table' = sys_call_table
      /\ hooked' = hooked /\ alive' = alive /\ calls' = calls
  BY <1>1, <1>2 DEF IInv, TypeOK, data
<1>4. TypeOK'
  BY <1>1, <1>2, <1>3 DEF IInv, TypeOK
<1>5. LockInv'
  <2> SUFFICES ASSUME NEW u \in Threads
               PROVE  /\ pc'[u] \in HoldsTable <=> holder'["calltable"] = u
                      /\ pc'[u] \in HoldsPids => holder'["pidlist"] = u
                      /\ holder'["pidlist"] = u => pc'[u] \in HoldsPids \cup {"dead"}
    BY DEF LockInv
  <2>1. u # NoOne
    BY InterceptorAssumption DEF Threads
  <2>2. CASE k[2] = "calltable"
    BY <1>1, <1>2, <1>3, <2>1, <2>2 DEF IInv, LockInv
  <2>3. CASE k[2] = "pidlist"
    BY <1>1, <1>2, <1>3, <2>1, <2>3 DEF IInv, LockInv
  <2> QED BY <1>2, <2>2, <2>3
<1>6. NoDuplicatePid' /\ AddInv' /\ ScanInv'
  BY <1>1, <1>2, <1>3 DEF IInv, NoDuplicatePid, AddInv, ScanInv, Threads
<1> QED BY <1>4, <1>5, <1>6 DEF IInv

(* Dropping a lock: every path drops only what it holds. *)
LEMMA UnlockStep ==
  ASSUME IInv, NEW t \in Threads, Unlock(t)
  PROVE  IInv'
<1>1. PICK k \in UnlockPoints :
        /\ pc[t] = k[1]
        /\ holder' = [holder EXCEPT ![k[2]] = NoOne]
        /\ pc' = [pc EXCEPT ![t] = k[3]]
        /\ UNCHANGED data
  BY DEF Unlock, Goto
<1>2. /\ k[3] \in Labels /\ k[1] # "dead" /\ k[3] # "dead"
      /\ k[2] \in {"calltable", "pidlist"}
      /\ k[2] = "calltable" => /\ k[1] \in HoldsTable /\ k[3] \notin HoldsTable
                               /\ k[1] \in HoldsPids <=> k[3] \in HoldsPids
      /\ k[2] = "pidlist" => /\ k[1] \in HoldsPids /\ k[3] \notin HoldsPids
                             /\ k[1] \in HoldsTable <=> k[3] \in HoldsTable
      /\ k[3] \in Adding => k[1] \in Adding
      /\ k[3] \notin Scanning
  BY UnlockPointFacts
<1>3. /\ pc'[t] = k[3] /\ \A u \in Threads : u # t => pc'[u] = pc[u]
      /\ holder'[k[2]] = NoOne
      /\ \A l \in {"calltable", "pidlist"} : l # k[2] => holder'[l] = holder[l]
      /\ arg' = arg /\ table' = table /\ sys_call_table' = sys_call_table
      /\ hooked' = hooked /\ alive' = alive /\ calls' = calls
  BY <1>1, <1>2 DEF IInv, TypeOK, data
<1>4. TypeOK'
  BY <1>1, <1>2, <1>3 DEF IInv, TypeOK
<1>5. LockInv'
  <2> SUFFICES ASSUME NEW u \in Threads
               PROVE  /\ pc'[u] \in HoldsTable <=> holder'["calltable"] = u
                      /\ pc'[u] \in HoldsPids => holder'["pidlist"] = u
                      /\ holder'["pidlist"] = u => pc'[u] \in HoldsPids \cup {"dead"}
    BY DEF LockInv
  <2>1. u # NoOne
    BY InterceptorAssumption DEF Threads
  <2>2. CASE k[2] = "calltable"
    BY <1>1, <1>2, <1>3, <2>1, <2>2 DEF IInv, LockInv
  <2>3. CASE k[2] = "pidlist"
    BY <1>1, <1>2, <1>3, <2>1, <2>3 DEF IInv, LockInv
  <2> QED BY <1>2, <2>2, <2>3
<1>6. NoDuplicatePid' /\ AddInv' /\ ScanInv'
  BY <1>1, <1>2, <1>3 DEF IInv, NoDuplicatePid, AddInv, ScanInv, Threads
<1> QED BY <1>4, <1>5, <1>6 DEF IInv

(* A step that only moves. *)
LEMMA LookStep ==
  ASSUME IInv, NEW p \in Procs, NEW b \in Labels, Look(p, b), Moves(pc[p], b)
  PROVE  IInv'
<1>1. /\ Goto(p, b) /\ pc' = [pc EXCEPT ![p] = b] /\ holder' = holder
      /\ arg' = arg /\ table' = table /\ sys_call_table' = sys_call_table
      /\ hooked' = hooked /\ alive' = alive /\ calls' = calls
  BY DEF Look, data, Goto
<1>2. TypeOK'
  BY <1>1 DEF IInv, TypeOK, Threads
<1>3. \A s \in Syscalls, q \in Procs : table'[s].my_list[q] <= table[s].my_list[q]
  BY <1>1 DEF IInv, TypeOK, Row
<1>4. SameLocks(pc[p], b) /\ (b \in Adding => pc[p] \in Adding)
      /\ (b \in Scanning => arg'[p].sysc < NR)
  BY <1>1 DEF Moves, IInv, ScanInv
<1> QED BY <1>1, <1>2, <1>3, <1>4, QuietStep DEF Threads

(* A step that rewrites the row the process works on and adds no pid. *)
LEMMA TouchStep ==
  ASSUME IInv, NEW p \in Procs, NEW b \in Labels, NEW row \in Row,
         Touch(p, row), Goto(p, b), sys_call_table' = sys_call_table,
         Moves(pc[p], b),
         \A q \in Procs : row.my_list[q] <= Mine(p).my_list[q]
  PROVE  IInv'
<1>1. /\ table' = [table EXCEPT ![arg[p].sysc] = row]
      /\ pc' = [pc EXCEPT ![p] = b]
      /\ arg' = arg /\ holder' = holder /\ hooked' = hooked
      /\ alive' = alive /\ calls' = calls
  BY DEF Touch, Goto
<1>2. TypeOK'
  BY <1>1 DEF IInv, TypeOK, Threads
<1>3. ASSUME NEW s \in Syscalls, NEW q \in Procs
      PROVE  table'[s].my_list[q] <= table[s].my_list[q]
  <2>1. table'[s] = IF s = arg[p].sysc THEN row ELSE table[s]
    BY <1>1 DEF IInv, TypeOK
  <2>2. table[s].my_list[q] \in Nat
    BY DEF IInv, TypeOK, Row
  <2> QED BY <2>1, <2>2 DEF Mine
<1>4. SameLocks(pc[p], b) /\ (b \in Adding => pc[p] \in Adding)
      /\ (b \in Scanning => arg'[p].sysc < NR)
  BY <1>1 DEF Moves, IInv, ScanInv
<1> QED BY <1>1, <1>2, <1>3, <1>4, QuietStep DEF Threads

(* Where a row of the table comes from, and what the edits of the code     *)
(* that add no pid make of it.                                             *)
LEMMA RowFacts ==
  ASSUME IInv, NEW p \in Procs
  PROVE  /\ arg[p].sysc \in Syscalls /\ Mine(p) \in Row
         /\ \A q \in Procs : Mine(p).my_list[q] \in Nat
         /\ p \in Threads /\ pc[p] \in Labels
  BY DEF IInv, TypeOK, Mine, Row, Threads

(* A row with another list is a row. *)
LEMMA ListEdits ==
  ASSUME NEW row \in Row, NEW list \in [Procs -> Nat]
  PROVE  /\ [row EXCEPT !.my_list = list] \in Row
         /\ [row EXCEPT !.my_list = list].my_list = list
  BY DEF Row

(* A list with another number of nodes for one pid. *)
LEMMA ListUpdate ==
  ASSUME NEW f \in [Procs -> Nat], NEW x, NEW v, x \in Procs => v \in Nat
  PROVE  /\ [f EXCEPT ![x] = v] \in [Procs -> Nat]
         /\ \A q \in Procs : [f EXCEPT ![x] = v][q] = IF q = x THEN v ELSE f[q]
  OBVIOUS

(* A row with another count and flag has the same list. *)
LEMMA CountEdits ==
  ASSUME NEW row \in Row, NEW n \in Int, NEW m \in {0, 1, 2}
  PROVE  /\ [row EXCEPT !.listcount = n, !.monitored = m] \in Row
         /\ [row EXCEPT !.listcount = n, !.monitored = m].my_list = row.my_list
  BY DEF Row

(* Decrementing the count, and its flag with it, leaves the list alone. *)
LEMMA UncountedRow ==
  ASSUME NEW row \in Row
  PROVE  Uncounted(row, 1) \in Row /\ Uncounted(row, 1).my_list = row.my_list
<1> DEFINE n == row.listcount - 1
           m == IF row.listcount = 1 /\ row.monitored = 1 THEN 0 ELSE row.monitored
<1>1. n \in Int /\ m \in {0, 1, 2}
  BY DEF Row
<1>2. Uncounted(row, 1) = [row EXCEPT !.listcount = n, !.monitored = m]
  BY DEF Uncounted
<1> HIDE DEF n, m
<1> QED BY <1>1, <1>2 DEF Row

(* Leaving the table alone adds no pid. *)
LEMMA Unlisted ==
  ASSUME IInv, table' = table
  PROVE  \A s \in Syscalls, q \in Procs : table'[s].my_list[q] <= table[s].my_list[q]
  BY DEF IInv, TypeOK, Row

(* INTERCEPT and RELEASE change no list.                                   *)
LEMMA InterceptingStep ==
  ASSUME IInv, NEW p \in Procs, Intercepting(p)
  PROVE  IInv'
<1>1. CASE InterceptCheck(p)
  <2>1. PICK b \in {"user", "intercept_lock"} : Look(p, b)
    BY <1>1 DEF InterceptCheck
  <2>2. Moves("intercept_check", b) /\ b \in Labels
    BY DEF Moves, SameLocks, HoldsTable, HoldsPids, Adding, Scanning, Labels
  <2>3. pc[p] = "intercept_check"
    BY <1>1 DEF InterceptCheck
  <2> QED BY <2>1, <2>2, <2>3, RowFacts, LookStep
<1>2. CASE InterceptSave(p)
  <2> DEFINE row == [Mine(p) EXCEPT !.f = sys_call_table[arg[p].sysc],
                                    !.intercepted = 1]
  <2>1. Touch(p, row) /\ Goto(p, "intercept_hook") /\ sys_call_table' = sys_call_table
        /\ pc[p] = "intercept_save"
    BY <1>2 DEF InterceptSave
  <2>2. row \in Row /\ \A q \in Procs : row.my_list[q] <= Mine(p).my_list[q]
    <3>1. sys_call_table[arg[p].sysc] \in Handlers
      BY RowFacts DEF IInv, TypeOK
    <3>2. row \in Row /\ row.my_list = Mine(p).my_list
      BY <3>1, RowFacts DEF Row
    <3> QED BY <3>2, RowFacts
  <2> HIDE DEF row
  <2>3. Moves("intercept_save", "intercept_hook") /\ "intercept_hook" \in Labels
    BY DEF Moves, SameLocks, HoldsTable, HoldsPids, Adding, Scanning, Labels
  <2> QED BY <2>1, <2>2, <2>3, TouchStep
<1>3. CASE InterceptHook(p)
  <2>1. /\ pc[p] = "intercept_hook" /\ Goto(p, "call_unlock")
        /\ sys_call_table' \in [Syscalls -> Handlers]
        /\ arg' = arg /\ holder' = holder /\ table' = table
        /\ hooked' = hooked /\ alive' = alive /\ calls' = calls
    BY <1>3, RowFacts DEF InterceptHook, IInv, TypeOK, Row, Handlers
  <2>2. SameLocks("intercept_hook", "call_unlock") /\ "call_unlock" \in Labels
        /\ "call_unlock" \notin Adding \cup Scanning
    BY DEF SameLocks, HoldsTable, HoldsPids, Adding, Scanning, Labels
  <2>3. TypeOK'
    BY <2>1, <2>2 DEF IInv, TypeOK, Goto, Threads
  <2>4. \A s \in Syscalls, q \in Procs : table'[s].my_list[q] <= table[s].my_list[q]
    BY <2>1 DEF IInv, TypeOK, Row
  <2> QED BY <2>1, <2>2, <2>3, <2>4, RowFacts, QuietStep
<1>4. CASE ReleaseCheck(p)
  <2>1. PICK b \in {"user", "release_lock"} : Look(p, b)
    BY <1>4 DEF ReleaseCheck
  <2>2. Moves("release_check", b) /\ b \in Labels
    BY DEF Moves, SameLocks, HoldsTable, HoldsPids, Adding, Scanning, Labels
  <2>3. pc[p] = "release_check"
    BY <1>4 DEF ReleaseCheck
  <2> QED BY <2>1, <2>2, <2>3, RowFacts, LookStep
<1>5. CASE ReleaseRestore(p)
  <2>1. /\ pc[p] = "release_restore" /\ Goto(p, "release_clear")
        /\ sys_call_table' \in [Syscalls -> Handlers]
        /\ arg' = arg /\ holder' = holder /\ table' = table
        /\ hooked' = hooked /\ alive' = alive /\ calls' = calls
    BY <1>5, RowFacts DEF ReleaseRestore, IInv, TypeOK, Row, Handlers
  <2>2. SameLocks("release_restore", "release_clear") /\ "release_clear" \in Labels
        /\ "release_clear" \notin Adding \cup Scanning
    BY DEF SameLocks, HoldsTable, HoldsPids, Adding, Scanning, Labels
  <2>3. TypeOK'
    BY <2>1, <2>2 DEF IInv, TypeOK, Goto, Threads
  <2>4. \A s \in Syscalls, q \in Procs : table'[s].my_list[q] <= table[s].my_list[q]
    BY <2>1 DEF IInv, TypeOK, Row
  <2> QED BY <2>1, <2>2, <2>3, <2>4, RowFacts, QuietStep
<1>6. CASE ReleaseClear(p)
  <2> DEFINE row == [Mine(p) EXCEPT !.intercepted = 0]
  <2>1. Touch(p, row) /\ Goto(p, "call_unlock") /\ sys_call_table' = sys_call_table
        /\ pc[p] = "release_clear"
    BY <1>6 DEF ReleaseClear
  <2>2. row \in Row /\ \A q \in Procs : row.my_list[q] <= Mine(p).my_list[q]
    <3>1. row \in Row /\ row.my_list = Mine(p).my_list
      BY RowFacts DEF Row
    <3> QED BY <3>1, RowFacts
  <2> HIDE DEF row
  <2>3. Moves("release_clear", "call_unlock") /\ "call_unlock" \in Labels
    BY DEF Moves, SameLocks, HoldsTable, HoldsPids, Adding, Scanning, Labels
  <2> QED BY <2>1, <2>2, <2>3, TouchStep
<1> QED BY <1>1, <1>2, <1>3, <1>4, <1>5, <1>6 DEF Intercepting

(* START: the pid is tested and added while calltable_lock is held, so no  *)
(* other process can add it in between.                                    *)
LEMMA StartingStep ==
  ASSUME IInv, NEW p \in Procs, Starting(p)
  PROVE  IInv'
<1>1. CASE StartCheck(p)
  <2>1. CASE Listed(arg[p].pid, Mine(p))
    <3>1. Look(p, "both_unlock") /\ pc[p] = "start_check"
      BY <1>1, <2>1 DEF StartCheck
    <3>2. Moves("start_check", "both_unlock") /\ "both_unlock" \in Labels
      BY DEF Moves, SameLocks, HoldsTable, HoldsPids, Adding, Scanning, Labels
    <3> QED BY <3>1, <3>2, RowFacts, LookStep
  <2>2. CASE ~Listed(arg[p].pid, Mine(p))
    <3>1. /\ pc[p] = "start_check" /\ pc' = [pc EXCEPT ![p] = "start_unlock"]
          /\ arg' = arg /\ holder' = holder /\ table' = table
          /\ sys_call_table' = sys_call_table
          /\ hooked' = hooked /\ alive' = alive /\ calls' = calls
      BY <1>1, <2>2 DEF StartCheck, Look, Goto, data
    <3>2. /\ "start_check" \in HoldsTable /\ "start_check" \in HoldsPids
          /\ "start_unlock" \in HoldsTable /\ "start_unlock" \in HoldsPids
          /\ "start_unlock" \in Labels
      BY DEF HoldsTable, HoldsPids, Labels
    <3>3. TypeOK'
      BY <3>1, <3>2 DEF IInv, TypeOK
    <3>4. pc'[p] = "start_unlock" /\ \A t \in Threads : t # p => pc'[t] = pc[t]
      BY <3>1, RowFacts DEF IInv, TypeOK
    <3>5. LockInv'
      BY <3>1, <3>2, <3>4 DEF IInv, LockInv
    <3>6. AddInv'
      <4>1. arg[p].pid \in Procs => table[arg[p].sysc].my_list[arg[p].pid] = 0
        BY <2>2, RowFacts DEF Listed, Mine
      <4> QED BY <3>1, <3>4, <4>1 DEF IInv, AddInv, Threads
    <3>7. NoDuplicatePid' /\ ScanInv'
      BY <3>1, <3>4 DEF IInv, NoDuplicatePid, ScanInv, Scanning, Threads
    <3> QED BY <3>3, <3>5, <3>6, <3>7 DEF IInv
  <2> QED BY <2>1, <2>2
<1>2. CASE StartMark(p)
  <2> DEFINE row == [Mine(p) EXCEPT !.monitored = IF @ = 0 THEN 1 ELSE @]
  <2>1. Touch(p, row) /\ Goto(p, "start_relock") /\ sys_call_table' = sys_call_table
        /\ pc[p] = "start_mark"
    BY <1>2 DEF StartMark
  <2>2. row \in Row /\ \A q \in Procs : row.my_list[q] <= Mine(p).my_list[q]
    <3>1. row \in Row /\ row.my_list = Mine(p).my_list
      BY RowFacts DEF Row
    <3> QED BY <3>1, RowFacts
  <2> HIDE DEF row
  <2>3. Moves("start_mark", "start_relock") /\ "start_relock" \in Labels
    BY DEF Moves, SameLocks, HoldsTable, HoldsPids, Adding, Scanning, Labels
  <2> QED BY <2>1, <2>2, <2>3, TouchStep
<1>3. CASE StartAdd(p)
  <2> DEFINE s == arg[p].sysc
             pid == arg[p].pid
             row == Added(Mine(p), pid)
  <2>1. /\ pc[p] = "start_add" /\ Goto(p, "added_unlock")
        /\ pc' = [pc EXCEPT ![p] = "added_unlock"]
        /\ arg' = arg /\ holder' = holder
        /\ sys_call_table' = sys_call_table
        /\ hooked' = hooked /\ alive' = alive /\ calls' = calls
    BY <1>3 DEF StartAdd, Goto
  <2>2. SameLocks("start_add", "added_unlock") /\ "added_unlock" \in Labels
        /\ "added_unlock" \notin Adding \cup Scanning
    BY DEF SameLocks, HoldsTable, HoldsPids, Adding, Scanning, Labels
  <2>3. CASE table' = table
    <3>1. TypeOK'
      BY <2>1, <2>2, <2>3 DEF IInv, TypeOK
    <3>2. \A r \in Syscalls, q \in Procs : table'[r].my_list[q] <= table[r].my_list[q]
      BY <2>3 DEF IInv, TypeOK, Row
    <3> QED BY <2>1, <2>2, <3>1, <3>2, RowFacts, QuietStep
  <2>4. CASE table' = [table EXCEPT ![s] = row]
    <3>1. row \in Row /\ \A q \in Procs :
            row.my_list[q] = IF q = pid THEN Mine(p).my_list[q] + 1
                             ELSE Mine(p).my_list[q]
      <4> DEFINE list == [Mine(p).my_list EXCEPT ![pid] = @ + 1]
                 n == Mine(p).listcount + 1
      <4>1. Mine(p).my_list \in [Procs -> Nat] /\ n \in Int
        BY RowFacts DEF Row
      <4>2. /\ list \in [Procs -> Nat]
            /\ \A q \in Procs : list[q] = IF q = pid THEN Mine(p).my_list[q] + 1
                                         ELSE Mine(p).my_list[q]
        <5> DEFINE v == Mine(p).my_list[pid] + 1
        <5>1. pid \in Procs => v \in Nat
          BY RowFacts
        <5>2. list = [Mine(p).my_list EXCEPT ![pid] = v]
          OBVIOUS
        <5>3. \A q \in Procs : list[q] = IF q = pid THEN v ELSE Mine(p).my_list[q]
          <6> HIDE DEF v, list
          <6> QED BY <4>1, <5>1, <5>2, ListUpdate
        <5>4. list \in [Procs -> Nat]
          <6> HIDE DEF v, list
          <6> QED BY <4>1, <5>1, <5>2, ListUpdate
        <5> HIDE DEF list
        <5> QED BY <5>3, <5>4
      <4>3. row = [Mine(p) EXCEPT !.my_list = list, !.listcount = n]
        BY DEF Added
      <4> HIDE DEF list, n, row
      <4>4. row \in Row /\ row.my_list = list
        BY <4>1, <4>2, <4>3, RowFacts DEF Row
      <4> QED BY <4>2, <4>4
    <3> HIDE DEF row
    <3>2. TypeOK'
      BY <2>1, <2>2, <2>4, <3>1 DEF IInv, TypeOK
    <3>3. \A r \in Syscalls : table'[r] = IF r = s THEN row ELSE table[r]
      BY <2>4 DEF IInv, TypeOK
    <3>4. pid \in Procs => table[s].my_list[pid] = 0
      BY <2>1 DEF IInv, AddInv, Adding
    <3>5. pc'[p] = "added_unlock" /\ \A t \in Threads : t # p => pc'[t] = pc[t]
      BY <2>1, RowFacts DEF IInv, TypeOK
    <3>6. NoDuplicatePid'
      BY <3>1, <3>3, <3>4 DEF IInv, NoDuplicatePid, Mine
    <3>7. LockInv'
      BY <2>1, <2>2, <3>5 DEF IInv, LockInv, SameLocks
    <3>8. ASSUME NEW q \in Procs PROVE pc'[q] \notin Adding
      <4>1. holder["calltable"] = p
        BY <2>1, RowFacts DEF IInv, LockInv, HoldsTable
      <4>2. q # p => pc[q] \notin HoldsTable
        BY <4>1 DEF IInv, LockInv, Threads
      <4>3. Adding \subseteq HoldsTable
        BY DEF Adding, HoldsTable
      <4> QED BY <2>2, <3>5, <4>2, <4>3 DEF Threads
    <3>9. AddInv' /\ ScanInv'
      BY <2>1, <2>2, <3>5, <3>8 DEF IInv, AddInv, ScanInv, Threads
    <3> QED BY <3>2, <3>6, <3>7, <3>9 DEF IInv
  <2>5. table' = table \/ table' = [table EXCEPT ![s] = row]
    BY <1>3 DEF StartAdd
  <2> HIDE DEF row, s
  <2> QED BY <2>3, <2>4, <2>5
<1>4. CASE StartAll(p)
  <2> DEFINE row == [Mine(p) EXCEPT !.monitored = IF @ = 0 THEN 2 ELSE @]
  <2>1. Touch(p, row) /\ Goto(p, "call_unlock") /\ sys_call_table' = sys_call_table
        /\ pc[p] = "all_mark"
    BY <1>4 DEF StartAll
  <2>2. row \in Row /\ \A q \in Procs : row.my_list[q] <= Mine(p).my_list[q]
    <3>1. row \in Row /\ row.my_list = Mine(p).my_list
      BY RowFacts DEF Row
    <3> QED BY <3>1, RowFacts
  <2> HIDE DEF row
  <2>3. Moves("all_mark", "call_unlock") /\ "call_unlock" \in Labels
    BY DEF Moves, SameLocks, HoldsTable, HoldsPids, Adding, Scanning, Labels
  <2> QED BY <2>1, <2>2, <2>3, TouchStep
<1> QED BY <1>1, <1>2, <1>3, <1>4 DEF Starting

(* STOP only shortens lists.                                               *)
LEMMA StoppingStep ==
  ASSUME IInv, NEW p \in Procs, Stopping(p)
  PROVE  IInv'
<1>1. CASE StopCheck(p)
  <2>1. PICK b \in {"call_unlock", "stopall_unlock", "stop_unlock"} : Look(p, b)
    BY <1>1 DEF StopCheck
  <2>2. Moves("stop_check", b) /\ b \in Labels
    BY DEF Moves, SameLocks, HoldsTable, HoldsPids, Adding, Scanning, Labels
  <2>3. pc[p] = "stop_check"
    BY <1>1 DEF StopCheck
  <2> QED BY <2>1, <2>2, <2>3, RowFacts, LookStep
<1>2. CASE StopFind(p)
  <2>1. PICK b \in {"found_unlock", "both_unlock"} : Look(p, b)
    BY <1>2 DEF StopFind
  <2>2. Moves("stop_find", b) /\ b \in Labels
    BY DEF Moves, SameLocks, HoldsTable, HoldsPids, Adding, Scanning, Labels
  <2>3. pc[p] = "stop_find"
    BY <1>2 DEF StopFind
  <2> QED BY <2>1, <2>2, <2>3, RowFacts, LookStep
<1>3. CASE StopFlag(p)
  <2> DEFINE row == [Mine(p) EXCEPT !.monitored = IF @ = 2 THEN 1 ELSE 0]
  <2>1. Touch(p, row) /\ Goto(p, "stop_relock") /\ sys_call_table' = sys_call_table
        /\ pc[p] = "stop_flag"
    BY <1>3 DEF StopFlag
  <2>2. row \in Row /\ \A q \in Procs : row.my_list[q] <= Mine(p).my_list[q]
    <3>1. row \in Row /\ row.my_list = Mine(p).my_list
      BY RowFacts DEF Row
    <3> QED BY <3>1, RowFacts
  <2> HIDE DEF row
  <2>3. Moves("stop_flag", "stop_relock") /\ "stop_relock" \in Labels
    BY DEF Moves, SameLocks, HoldsTable, HoldsPids, Adding, Scanning, Labels
  <2> QED BY <2>1, <2>2, <2>3, TouchStep
<1>4. CASE StopDel(p)
  <2> DEFINE row == IF Listed(arg[p].pid, Mine(p))
                    THEN Uncounted([Mine(p) EXCEPT !.my_list[arg[p].pid] = @ - 1], 1)
                    ELSE Mine(p)
  <2>1. Touch(p, row) /\ Goto(p, "both_unlock") /\ sys_call_table' = sys_call_table
        /\ pc[p] = "stop_del"
    BY <1>4 DEF StopDel
  <2>2. row \in Row /\ \A q \in Procs : row.my_list[q] <= Mine(p).my_list[q]
    <3>1. CASE Listed(arg[p].pid, Mine(p))
      <4> DEFINE list == [Mine(p).my_list EXCEPT ![arg[p].pid] = @ - 1]
      <4>1. /\ list \in [Procs -> Nat]
            /\ \A q \in Procs : list[q] <= Mine(p).my_list[q]
        <5> DEFINE v == Mine(p).my_list[arg[p].pid] - 1
        <5>1. Mine(p).my_list \in [Procs -> Nat]
          BY RowFacts DEF Row
        <5>2. arg[p].pid \in Procs => v \in Nat
          BY <3>1, RowFacts DEF Listed
        <5>3. /\ list \in [Procs -> Nat]
              /\ \A q \in Procs :
                   list[q] = IF q = arg[p].pid THEN v ELSE Mine(p).my_list[q]
          <6> HIDE DEF v
          <6>1. list = [Mine(p).my_list EXCEPT ![arg[p].pid] = v]
            BY DEF v
          <6> HIDE DEF list
          <6> QED BY <5>1, <5>2, <6>1, ListUpdate
        <5> HIDE DEF list
        <5> QED BY <5>3, RowFacts
      <4>2. row = Uncounted([Mine(p) EXCEPT !.my_list = list], 1)
        BY <3>1
      <4> HIDE DEF list, row
      <4> QED BY <4>1, <4>2, RowFacts, ListEdits, UncountedRow
    <3>2. CASE ~Listed(arg[p].pid, Mine(p))
      BY <3>2, RowFacts
    <3> QED BY <3>1, <3>2
  <2> HIDE DEF row
  <2>3. Moves("stop_del", "both_unlock") /\ "both_unlock" \in Labels
    BY DEF Moves, SameLocks, HoldsTable, HoldsPids, Adding, Scanning, Labels
  <2> QED BY <2>1, <2>2, <2>3, TouchStep
<1>5. CASE ClearList(p)
  <2>1. CASE Mine(p).monitored = 2
    <3> DEFINE row == [Mine(p) EXCEPT !.my_list = EmptyList]
    <3>1. Touch(p, row) /\ Goto(p, "clear_reset") /\ sys_call_table' = sys_call_table
          /\ pc[p] = "clear_list"
      BY <1>5, <2>1 DEF ClearList
    <3>2. EmptyList \in [Procs -> Nat] /\ \A q \in Procs : EmptyList[q] = 0
      BY DEF EmptyList
    <3>3. row \in Row /\ \A q \in Procs : row.my_list[q] <= Mine(p).my_list[q]
      BY <3>2, RowFacts, ListEdits
    <3> HIDE DEF row
    <3>4. Moves("clear_list", "clear_reset") /\ "clear_reset" \in Labels
      BY DEF Moves, SameLocks, HoldsTable, HoldsPids, Adding, Scanning, Labels
    <3> QED BY <3>1, <3>3, <3>4, TouchStep
  <2>2. CASE Mine(p).monitored # 2
    <3>1. Look(p, "call_unlock") /\ pc[p] = "clear_list"
      BY <1>5, <2>2 DEF ClearList, Look, data
    <3>2. Moves("clear_list", "call_unlock") /\ "call_unlock" \in Labels
      BY DEF Moves, SameLocks, HoldsTable, HoldsPids, Adding, Scanning, Labels
    <3> QED BY <3>1, <3>2, RowFacts, LookStep
  <2> QED BY <2>1, <2>2
<1>6. CASE ClearReset(p)
  <2> DEFINE row == [Mine(p) EXCEPT !.listcount = 0, !.monitored = 0]
  <2>1. Touch(p, row) /\ Goto(p, "call_unlock") /\ sys_call_table' = sys_call_table
        /\ pc[p] = "clear_reset"
    BY <1>6 DEF ClearReset
  <2>2. row \in Row /\ \A q \in Procs : row.my_list[q] <= Mine(p).my_list[q]
    <3>1. row \in Row /\ row.my_list = Mine(p).my_list
      <4> DEFINE zero == 0
      <4>1. zero \in Int /\ zero \in {0, 1, 2}
        OBVIOUS
      <4>2. row = [Mine(p) EXCEPT !.listcount = zero, !.monitored = zero]
        OBVIOUS
      <4> HIDE DEF zero, row
      <4> QED BY <4>1, <4>2, RowFacts, CountEdits
    <3> QED BY <3>1, RowFacts
  <2> HIDE DEF row
  <2>3. Moves("clear_reset", "call_unlock") /\ "call_unlock" \in Labels
    BY DEF Moves, SameLocks, HoldsTable, HoldsPids, Adding, Scanning, Labels
  <2> QED BY <2>1, <2>2, <2>3, TouchStep
<1> QED BY <1>1, <1>2, <1>3, <1>4, <1>5, <1>6 DEF Stopping

(* interceptor changes one flag.                                           *)
LEMMA InterceptedStep ==
  ASSUME IInv, NEW p \in Procs, Intercepted(p)
  PROVE  IInv'
<1>1. CASE InterceptorWalk(p)
  <2>1. PICK b \in {"interceptor_mark"} : Look(p, b)
    BY <1>1 DEF InterceptorWalk
  <2>2. Moves("interceptor_walk", b) /\ b \in Labels
    BY DEF Moves, SameLocks, HoldsTable, HoldsPids, Adding, Scanning, Labels
  <2>3. pc[p] = "interceptor_walk"
    BY <1>1 DEF InterceptorWalk
  <2> QED BY <2>1, <2>2, <2>3, RowFacts, LookStep
<1>2. CASE InterceptorMark(p)
  <2> DEFINE row == [Mine(p) EXCEPT !.intercepted = 1]
  <2>1. Touch(p, row) /\ Goto(p, "interceptor_call") /\ sys_call_table' = sys_call_table
        /\ pc[p] = "interceptor_mark"
    BY <1>2 DEF InterceptorMark
  <2>2. row \in Row /\ \A q \in Procs : row.my_list[q] <= Mine(p).my_list[q]
    <3>1. row \in Row /\ row.my_list = Mine(p).my_list
      BY RowFacts DEF Row
    <3> QED BY <3>1, RowFacts
  <2> HIDE DEF row
  <2>3. Moves("interceptor_mark", "interceptor_call") /\ "interceptor_call" \in Labels
    BY DEF Moves, SameLocks, HoldsTable, HoldsPids, Adding, Scanning, Labels
  <2> QED BY <2>1, <2>2, <2>3, TouchStep
<1>3. CASE InterceptorCall(p)
  <2>1. PICK b \in {"interceptor_walk", "user", "dead"} : Goto(p, b)
    BY <1>3 DEF InterceptorCall
  <2>2. /\ pc[p] = "interceptor_call" /\ arg' = arg /\ holder' = holder
        /\ table' = table /\ sys_call_table' = sys_call_table
        /\ hooked' = hooked /\ calls' = calls /\ alive' \subseteq alive
    BY <1>3 DEF InterceptorCall
  <2>3. SameLocks("interceptor_call", b) /\ b \in Labels /\ b \notin Adding \cup Scanning
    BY DEF SameLocks, HoldsTable, HoldsPids, Adding, Scanning, Labels
  <2>4. TypeOK'
    BY <2>1, <2>2, <2>3 DEF IInv, TypeOK, Goto
  <2> QED BY <2>1, <2>2, <2>3, <2>4, RowFacts, Unlisted, QuietStep
<1> QED BY <1>1, <1>2, <1>3 DEF Intercepted

(* my_exit_group only shortens lists. *)
LEMMA ExitingStep ==
  ASSUME IInv, NEW p \in Procs, Exiting(p)
  PROVE  IInv'
<1> DEFINE s == arg[p].sysc
<1>1. CASE ExitUnlink(p)
  <2>1. /\ pc[p] = "exit_del" /\ arg' = arg /\ holder' = holder
        /\ sys_call_table' = sys_call_table /\ hooked' = hooked
        /\ calls' = calls /\ (alive' = alive \/ alive' = alive \ {p})
    BY <1>1 DEF ExitUnlink
  <2>2. PICK b \in {"dead", "exit_unlock", "exit_count", "exit_next"} : Goto(p, b)
    BY <1>1 DEF ExitUnlink
  <2>3. SameLocks("exit_del", b) /\ b \in Labels /\ b \notin Adding
    BY DEF SameLocks, HoldsTable, HoldsPids, Adding, Scanning, Labels
  <2>4. table' = table \/ table' = [table EXCEPT ![s].my_list[p] = 0]
    BY <1>1 DEF ExitUnlink
  <2>5. /\ table' \in [Syscalls -> Row]
        /\ \A r \in Syscalls, q \in Procs :
             table'[r].my_list[q] <= table[r].my_list[q]
    <3>1. \A r \in Syscalls, q \in Procs : table[r].my_list[q] \in Nat
      BY DEF IInv, TypeOK, Row
    <3>2. CASE table' = table
      BY <3>1, <3>2 DEF IInv, TypeOK
    <3>3. CASE table' = [table EXCEPT ![s].my_list[p] = 0]
      <4> DEFINE list == [Mine(p).my_list EXCEPT ![p] = 0]
                 row == [Mine(p) EXCEPT !.my_list = list]
      <4>1. table' = [table EXCEPT ![s] = row]
        BY <3>3, RowFacts DEF Mine
      <4>2. /\ list \in [Procs -> Nat]
            /\ \A q \in Procs : list[q] <= Mine(p).my_list[q]
        BY RowFacts DEF Row
      <4> HIDE DEF list
      <4>3. row \in Row /\ row.my_list = list
        BY <4>2, RowFacts, ListEdits
      <4> HIDE DEF row
      <4>4. table' \in [Syscalls -> Row]
        BY <4>1, <4>3 DEF IInv, TypeOK
      <4>5. \A r \in Syscalls : table'[r] = IF r = s THEN row ELSE table[r]
        BY <4>1 DEF IInv, TypeOK
      <4> QED BY <3>1, <4>2, <4>3, <4>4, <4>5 DEF Mine
    <3> QED BY <2>4, <3>2, <3>3
  <2>6. TypeOK'
    BY <2>1, <2>2, <2>3, <2>5 DEF IInv, TypeOK, Goto
  <2>7. b \in Scanning => s < NR
    <3>1. (s < NR) \/ b = "dead" \/ b = "exit_unlock"
      <4>1. CASE Scanned(s)
        BY <4>1 DEF Scanned
      <4>2. CASE ~Scanned(s)
        <5>1. pc'[p] \in {"dead", "exit_unlock"}
          BY <1>1, <4>2, RowFacts DEF ExitUnlink, Goto, IInv, TypeOK
        <5> QED BY <2>2, <5>1, RowFacts DEF Goto, IInv, TypeOK
      <4> QED BY <4>1, <4>2
    <3> QED BY <3>1 DEF Scanning
  <2> QED BY <2>1, <2>2, <2>3, <2>5, <2>6, <2>7, RowFacts, QuietStep
<1>2. CASE ExitCount(p)
  <2> DEFINE row == Uncounted(Mine(p), 1)
  <2>1. Touch(p, row) /\ Goto(p, "exit_next") /\ sys_call_table' = sys_call_table
        /\ pc[p] = "exit_count"
    BY <1>2 DEF ExitCount
  <2>2. row \in Row /\ \A q \in Procs : row.my_list[q] <= Mine(p).my_list[q]
    <3>1. row \in Row /\ row.my_list = Mine(p).my_list
      BY RowFacts, UncountedRow
    <3> QED BY <3>1, RowFacts
  <2> HIDE DEF row
  <2>3. Moves("exit_count", "exit_next") /\ "exit_next" \in Labels
    BY DEF Moves, SameLocks, HoldsTable, HoldsPids, Adding, Scanning, Labels
  <2> QED BY <2>1, <2>2, <2>3, TouchStep
<1>3. CASE ExitNext(p)
  <2>1. /\ pc[p] = "exit_next" /\ Goto(p, "exit_del")
        /\ arg' = [arg EXCEPT ![p].sysc = s + 1]
        /\ holder' = holder /\ table' = table /\ sys_call_table' = sys_call_table
        /\ hooked' = hooked /\ alive' = alive /\ calls' = calls
    BY <1>3 DEF ExitNext
  <2>2. SameLocks("exit_next", "exit_del") /\ "exit_del" \in Labels
        /\ "exit_del" \notin Adding \cup Scanning
    BY DEF SameLocks, HoldsTable, HoldsPids, Adding, Scanning, Labels
  <2>3. s + 1 \in Syscalls
    BY <2>1, RowFacts, InterceptorAssumption DEF IInv, ScanInv, Scanning, Syscalls
  <2>4. TypeOK'
    <3> DEFINE n == s + 1
    <3>1. arg' = [arg EXCEPT ![p] = [arg[p] EXCEPT !.sysc = n]]
      BY <2>1 DEF IInv, TypeOK
    <3> HIDE DEF n
    <3>2. [arg[p] EXCEPT !.sysc = n] \in [sysc : Syscalls, pid : Procs \cup {AllPids}]
      BY <2>3 DEF n, IInv, TypeOK
    <3> QED BY <2>1, <2>2, <3>1, <3>2 DEF IInv, TypeOK, Goto
  <2> QED BY <2>1, <2>2, <2>4, RowFacts, Unlisted, QuietStep DEF IInv, TypeOK
<1>4. CASE ExitOrig(p)
  <2>1. /\ pc[p] = "exit_orig" /\ Goto(p, "dead") /\ alive' = alive \ {p}
        /\ arg' = arg /\ holder' = holder /\ table' = table
        /\ sys_call_table' = sys_call_table /\ hooked' = hooked /\ calls' = calls
    BY <1>4 DEF ExitOrig
  <2>2. SameLocks("exit_orig", "dead") /\ "dead" \in Labels
        /\ "dead" \notin Adding \cup Scanning
    BY DEF SameLocks, HoldsTable, HoldsPids, Adding, Scanning, Labels
  <2>3. TypeOK'
    BY <2>1, <2>2 DEF IInv, TypeOK, Goto
  <2> QED BY <2>1, <2>2, <2>3, RowFacts, Unlisted, QuietStep
<1> QED BY <1>1, <1>2, <1>3, <1>4 DEF Exiting

(* Entering the module: no lock is held and none is taken. *)
LEMMA EnterStep ==
  ASSUME IInv, NEW p \in Procs, Enter(p)
  PROVE  IInv'
<1>1. ASSUME NEW cmd \in Cmds, NEW r \in Syscalls, NEW pid \in Targets,
             Call(p, cmd, r, pid)
      PROVE  IInv'
  <2>1. /\ pc[p] = "user" /\ p \in Admins /\ calls[p] < MaxCalls
        /\ calls' = [calls EXCEPT ![p] = @ + 1]
        /\ arg' = [arg EXCEPT ![p] = [sysc |-> r, pid |-> pid]]
        /\ Goto(p, FirstStep(cmd, pid))
        /\ holder' = holder /\ table' = table /\ sys_call_table' = sys_call_table
        /\ hooked' = hooked /\ alive' = alive
    BY <1>1 DEF Call
  <2>2. cmd \in {"INTERCEPT", "RELEASE", "START", "STOP"}
        /\ pid \in Procs \cup {AllPids}
    BY InterceptorAssumption
  <2>3. FirstStep(cmd, pid) \in {"intercept_check", "release_check", "all_lock",
                                "start_pidlist", "stop_lock"}
    BY <2>2 DEF FirstStep
  <2>4. PICK b \in {"intercept_check", "release_check", "all_lock",
                    "start_pidlist", "stop_lock"} : Goto(p, b)
    BY <2>1, <2>3
  <2>5. SameLocks("user", b) /\ b \in Labels /\ b \notin Adding \cup Scanning
    BY DEF SameLocks, HoldsTable, HoldsPids, Adding, Scanning, Labels
  <2>6. calls' \in [Admins -> 0 .. MaxCalls]
    <3>1. calls[p] + 1 \in 0 .. MaxCalls
      BY <2>1, InterceptorAssumption DEF IInv, TypeOK
    <3> QED BY <2>1, <3>1 DEF IInv, TypeOK
  <2>7. TypeOK'
    BY <2>1, <2>2, <2>4, <2>5, <2>6 DEF IInv, TypeOK, Goto
  <2> QED BY <2>1, <2>4, <2>5, <2>7, RowFacts, Unlisted, QuietStep DEF IInv, TypeOK
<1>2. ASSUME NEW r \in Syscalls, Syscall(p, r)
      PROVE  IInv'
  <2>1. /\ pc[p] = "user" /\ Goto(p, "interceptor_walk")
        /\ arg' = [arg EXCEPT ![p] = [sysc |-> r, pid |-> AllPids]]
        /\ holder' = holder /\ table' = table /\ sys_call_table' = sys_call_table
        /\ hooked' = hooked /\ alive' = alive /\ calls' = calls
    BY <1>2 DEF Syscall
  <2>2. SameLocks("user", "interceptor_walk") /\ "interceptor_walk" \in Labels
        /\ "interceptor_walk" \notin Adding \cup Scanning
    BY DEF SameLocks, HoldsTable, HoldsPids, Adding, Scanning, Labels
  <2>3. TypeOK'
    BY <2>1, <2>2 DEF IInv, TypeOK, Goto
  <2> QED BY <2>1, <2>2, <2>3, RowFacts, Unlisted, QuietStep DEF IInv, TypeOK
<1>3. CASE Exit(p)
  <2>1. /\ pc[p] = "user" /\ holder' = holder /\ table' = table
        /\ sys_call_table' = sys_call_table /\ hooked' = hooked /\ calls' = calls
        /\ (alive' = alive \/ alive' = alive \ {p})
        /\ (arg' = arg \/ arg' = [arg EXCEPT ![p] = [sysc |-> 1, pid |-> p]])
    BY <1>3 DEF Exit
  <2>2. PICK b \in {"exit_lock", "dead"} : Goto(p, b)
    BY <1>3 DEF Exit
  <2>3. SameLocks("user", b) /\ b \in Labels /\ b \notin Adding \cup Scanning
    BY DEF SameLocks, HoldsTable, HoldsPids, Adding, Scanning, Labels
  <2>4. 1 \in Syscalls
    BY InterceptorAssumption DEF Syscalls
  <2>5. /\ arg' \in [Procs -> [sysc : Syscalls, pid : Procs \cup {AllPids}]]
        /\ \A q \in Procs : q # p => arg'[q] = arg[q]
    <3>1. CASE arg' = arg
      BY <3>1 DEF IInv, TypeOK
    <3>2. CASE arg' = [arg EXCEPT ![p] = [sysc |-> 1, pid |-> p]]
      BY <3>2, <2>4 DEF IInv, TypeOK
    <3> QED BY <2>1, <3>1, <3>2
  <2>6. TypeOK'
    BY <2>1, <2>2, <2>3, <2>5 DEF IInv, TypeOK, Goto, Threads
  <2> QED BY <2>1, <2>2, <2>3, <2>5, <2>6, RowFacts, Unlisted, QuietStep
<1> QED BY <1>1, <1>2, <1>3 DEF Enter

(* init_function and exit_function: the table is filled while both locks   *)
(* are held.                                                               *)
LEMMA LoadingStep ==
  ASSUME IInv, Loading
  PROVE  IInv'
<1>1. Loader \in Threads /\ Loader \notin Procs
  BY InterceptorAssumption DEF Threads
<1>2. ASSUME NEW a \in Labels, NEW b \in Labels, pc[Loader] = a, Look(Loader, b),
             SameLocks(a, b), b \notin Adding \cup Scanning
      PROVE  IInv'
  <2>1. /\ Goto(Loader, b) /\ holder' = holder
        /\ arg' = arg /\ table' = table /\ sys_call_table' = sys_call_table
        /\ hooked' = hooked /\ alive' = alive /\ calls' = calls
    BY <1>2 DEF Look, data
  <2>2. TypeOK'
    BY <1>1, <2>1 DEF IInv, TypeOK, Goto
  <2> QED BY <1>1, <1>2, <2>1, <2>2, Unlisted, QuietStep
<1>3. CASE Load
  <2>1. pc[Loader] = "absent" /\ Look(Loader, "init_lock")
    BY <1>3 DEF Load
  <2>2. SameLocks("absent", "init_lock") /\ {"absent", "init_lock"} \subseteq Labels
        /\ "init_lock" \notin Adding \cup Scanning
    BY DEF SameLocks, HoldsTable, HoldsPids, Adding, Scanning, Labels
  <2> QED BY <1>2, <2>1, <2>2
<1>4. CASE InitHook
  <2>1. /\ pc[Loader] = "init_hook" /\ Goto(Loader, "init_pidlist") /\ hooked' = TRUE
        /\ arg' = arg /\ holder' = holder /\ table' = table
        /\ sys_call_table' = sys_call_table /\ alive' = alive /\ calls' = calls
    BY <1>4 DEF InitHook
  <2>2. SameLocks("init_hook", "init_pidlist") /\ "init_pidlist" \in Labels
        /\ "init_pidlist" \notin Adding \cup Scanning
    BY DEF SameLocks, HoldsTable, HoldsPids, Adding, Scanning, Labels
  <2>3. TypeOK'
    BY <1>1, <2>1, <2>2 DEF IInv, TypeOK, Goto
  <2> QED BY <1>1, <2>1, <2>2, <2>3, Unlisted, QuietStep
<1>5. CASE InitFill
  <2> DEFINE filled == [r \in Syscalls |->
                 [table[r] EXCEPT !.intercepted = 0, !.monitored = 0,
                                  !.listcount = 0, !.my_list = EmptyList]]
  <2>1. /\ pc[Loader] = "init_fill" /\ Goto(Loader, "init_unlock1")
        /\ table' = filled
        /\ arg' = arg /\ holder' = holder /\ sys_call_table' = sys_call_table
        /\ hooked' = hooked /\ alive' = alive /\ calls' = calls
    BY <1>5 DEF InitFill
  <2>2. SameLocks("init_fill", "init_unlock1") /\ "init_unlock1" \in Labels
        /\ "init_unlock1" \notin Adding \cup Scanning
    BY DEF SameLocks, HoldsTable, HoldsPids, Adding, Scanning, Labels
  <2>3. ASSUME NEW r \in Syscalls
        PROVE  filled[r] \in Row /\ filled[r].my_list = EmptyList
    <3>1. table[r] \in Row /\ EmptyList \in [Procs -> Nat]
      BY DEF IInv, TypeOK, EmptyList
    <3> DEFINE zero == 0
               list == EmptyList
               row == [table[r] EXCEPT !.intercepted = zero, !.monitored = zero,
                                       !.listcount = zero, !.my_list = list]
    <3>2. filled[r] = row /\ zero \in Int /\ zero \in {0, 1} /\ zero \in {0, 1, 2}
      OBVIOUS
    <3> HIDE DEF zero, list
    <3>3. row \in Row /\ row.my_list = list
      BY <3>1, <3>2 DEF Row, list
    <3> QED BY <3>2, <3>3 DEF list
  <2>4. filled \in [Syscalls -> Row]
    BY <2>3
  <2> HIDE DEF filled
  <2>5. TypeOK'
    BY <1>1, <2>1, <2>2, <2>4 DEF IInv, TypeOK, Goto
  <2>6. ASSUME NEW r \in Syscalls, NEW q \in Procs
        PROVE  table'[r].my_list[q] <= table[r].my_list[q]
    <3>1. table'[r].my_list[q] = 0 /\ table[r].my_list[q] \in Nat
      BY <2>1, <2>3 DEF EmptyList, IInv, TypeOK, Row
    <3> QED BY <3>1
  <2> QED BY <1>1, <2>1, <2>2, <2>5, <2>6, QuietStep
<1>6. CASE Unload
  <2>1. pc[Loader] = "loaded" /\ Look(Loader, "fini_lock")
    BY <1>6 DEF Unload
  <2>2. SameLocks("loaded", "fini_lock") /\ {"loaded", "fini_lock"} \subseteq Labels
        /\ "fini_lock" \notin Adding \cup Scanning
    BY DEF SameLocks, HoldsTable, HoldsPids, Adding, Scanning, Labels
  <2> QED BY <1>2, <2>1, <2>2
<1>7. CASE FiniScan
  <2>1. PICK b \in {"fini_release", "fini_restore"} :
          pc[Loader] = "fini_scan" /\ Look(Loader, b)
    BY <1>7 DEF FiniScan
  <2>2. SameLocks("fini_scan", b) /\ {"fini_scan", b} \subseteq Labels
        /\ b \notin Adding \cup Scanning
    BY DEF SameLocks, HoldsTable, HoldsPids, Adding, Scanning, Labels
  <2> QED BY <1>2, <2>1, <2>2
<1>8. CASE FiniRestore
  <2>1. /\ pc[Loader] = "fini_restore" /\ Goto(Loader, "fini_unlock")
        /\ hooked' = FALSE
        /\ arg' = arg /\ holder' = holder /\ table' = table
        /\ sys_call_table' = sys_call_table /\ alive' = alive /\ calls' = calls
    BY <1>8 DEF FiniRestore
  <2>2. SameLocks("fini_restore", "fini_unlock") /\ "fini_unlock" \in Labels
        /\ "fini_unlock" \notin Adding \cup Scanning
    BY DEF SameLocks, HoldsTable, HoldsPids, Adding, Scanning, Labels
  <2>3. TypeOK'
    BY <1>1, <2>1, <2>2 DEF IInv, TypeOK, Goto
  <2> QED BY <1>1, <2>1, <2>2, <2>3, Unlisted, QuietStep
<1> QED BY <1>3, <1>4, <1>5, <1>6, <1>7, <1>8 DEF Loading

(* Every step keeps the invariant: one case per command, exit or loader. *)
LEMMA NextInvariant == IInv /\ [Next]_vars => IInv'
<1> SUFFICES ASSUME IInv, [Next]_vars PROVE IInv'
  OBVIOUS
<1>1. ASSUME NEW t \in Threads, Lock(t) \/ Unlock(t) PROVE IInv'
  BY <1>1, LockStep, UnlockStep
<1>2. ASSUME NEW p \in Procs, Enter(p) \/ Step(p) PROVE IInv'
  BY <1>2, EnterStep, InterceptingStep, StartingStep, StoppingStep,
     InterceptedStep, ExitingStep DEF Step
<1>3. CASE Loading
  BY <1>3, LoadingStep
<1>4. CASE UNCHANGED vars
  BY <1>4 DEF vars, IInv, TypeOK, LockInv, NoDuplicatePid, AddInv, ScanInv
<1> QED BY <1>1, <1>2, <1>3, <1>4 DEF Next

(* The inductive invariant holds of every execution. *)
THEOREM Invariant == Spec => []IInv
<1> QED BY InitInvariant, NextInvariant, PTL DEF Spec

(* Every variable keeps its type: `monitored' stays one of 0, 1, 2 and     *)
(* del_pid never goes past the table, whatever calls interleave.           *)
THEOREM TypeCorrect == Spec => []TypeOK
<1>1. IInv => TypeOK
  BY DEF IInv
<1> QED BY <1>1, Invariant, PTL

(* No path out of my_syscall, my_exit_group, init_function or              *)
(* exit_function leaves pidlist_lock or calltable_lock held.               *)
THEOREM LocksReleased == Spec => []ReturnsUnlocked
<1>1. IInv => ReturnsUnlocked
  <2>1. \A a \in {"user", "loaded", "unloaded"} :
          a \notin HoldsTable /\ a \notin HoldsPids \cup {"dead"}
    BY DEF HoldsTable, HoldsPids
  <2> QED BY <2>1 DEF IInv, LockInv, ReturnsUnlocked
<1> QED BY <1>1, Invariant, PTL

(* START never lists a pid twice, although it lets go of pidlist_lock      *)
(* between the test and add_pid_sysc: calltable_lock, which every other    *)
(* START needs, stays held.                                                *)
THEOREM NoDuplicates == Spec => []NoDuplicatePid
<1>1. IInv => NoDuplicatePid
  BY DEF IInv
<1> QED BY <1>1, Invariant, PTL
==============================================================================
