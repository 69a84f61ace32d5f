------------------------ MODULE InterceptorSafety_proofs ------------------------
(***************************************************************************)
(* More about the kernel module, for any processes, commands and number of *)
(* system calls: who may be at a pid list, that insertion wipes out        *)
(* nothing, that an exit leaves the pid in no list, that listcount is the  *)
(* length of the list, that monitoring of all pids ends only by STOP, and  *)
(* what a single root administrator can rely on.  Built on the lock        *)
(* invariant of Interceptor_proofs.                                        *)
(***************************************************************************)
EXTENDS Interceptor_proofs, FiniteSetTheorems

(* What the fields of a row are after a step. *)
Becomes(s, f, intercepted, monitored, listcount, my_list) ==
  /\ table'[s].f = f
  /\ table'[s].intercepted = intercepted
  /\ table'[s].monitored = monitored
  /\ table'[s].listcount = listcount
  /\ table'[s].my_list = my_list

(* The steps that change a row. *)
Changing(p) ==
  \/ InterceptSave(p) \/ ReleaseClear(p)
  \/ StartMark(p) \/ StartAdd(p) \/ StartAll(p)
  \/ StopFlag(p) \/ StopDel(p) \/ ClearList(p) \/ ClearReset(p)
  \/ InterceptorMark(p) \/ ExitUnlink(p) \/ ExitCount(p)

(* A process changes no row but that of the system call it works on. *)
LEMMA OtherRows ==
  ASSUME IInv, NEW p \in Procs, Changing(p), NEW s \in Syscalls, s # arg[p].sysc
  PROVE  table'[s] = table[s]
<1>1. table \in [Syscalls -> Row] /\ arg[p].sysc \in Syscalls
  BY DEF IInv, TypeOK
<1>2. table' = table \/ \E row : table' = [table EXCEPT ![arg[p].sysc] = row]
  BY DEF Changing, InterceptSave, ReleaseClear, StartMark, StartAdd, StartAll,
         StopFlag, StopDel, ClearList, ClearReset, InterceptorMark, ExitUnlink,
         ExitCount, Touch
<1> QED BY <1>1, <1>2

(* Only these steps and init_function's loop change the table. *)
LEMMA RowChange ==
  ASSUME IInv, [Next]_vars
  PROVE  table' = table \/ InitFill \/ \E p \in Procs : Changing(p)
<1>1. ASSUME NEW t \in Threads, Lock(t) \/ Unlock(t) PROVE table' = table
  BY <1>1 DEF Lock, Unlock, data
<1>2. ASSUME NEW p \in Procs, Enter(p) PROVE table' = table
  BY <1>2 DEF Enter, Call, Syscall, Exit
<1>3. ASSUME NEW p \in Procs, Step(p) PROVE table' = table \/ Changing(p)
  BY <1>3 DEF Step, Intercepting, Starting, Stopping, Intercepted, Exiting,
     Changing, InterceptCheck, InterceptHook, ReleaseCheck, ReleaseRestore,
     StartCheck, StopCheck, StopFind, InterceptorWalk, InterceptorCall,
     ExitNext, ExitOrig, Look, data
<1>4. CASE Loading
  BY <1>4 DEF Loading, Load, InitHook, Unload, FiniScan, FiniRestore, Look, data
<1>5. CASE UNCHANGED vars
  BY <1>5 DEF vars
<1> QED BY <1>1, <1>2, <1>3, <1>4, <1>5 DEF Next

(* A step of a process takes it somewhere and leaves the others alone. *)
LEMMA Moving ==
  ASSUME NEW p \in Procs, Enter(p) \/ Step(p)
  PROVE  \E b : Goto(p, b)
  BY DEF Enter, Step, Call, Syscall, Exit, Intercepting, Starting, Stopping,
     Intercepted, Exiting, InterceptCheck, InterceptSave, InterceptHook,
     ReleaseCheck, ReleaseRestore, ReleaseClear, StartCheck, StartMark,
     StartAdd, StartAll, StopCheck, StopFind, StopFlag, StopDel, ClearList,
     ClearReset, InterceptorWalk, InterceptorMark, InterceptorCall,
     ExitUnlink, ExitCount, ExitNext, ExitOrig, Look

(* Nobody else moves a process, or changes what it works on. *)
LEMMA OthersSteps ==
  ASSUME IInv, [Next]_vars, NEW p \in Procs
  PROVE  \/ pc'[p] = pc[p] /\ arg'[p] = arg[p]
         \/ Lock(p) \/ Unlock(p) \/ Enter(p) \/ Step(p)
<1>1. /\ Loader \notin Procs /\ p \in Threads /\ pc \in [Threads -> Labels]
      /\ arg \in [Procs -> [sysc : Syscalls, pid : Procs \cup {AllPids}]]
  BY InterceptorAssumption DEF IInv, TypeOK, Threads
<1>2. ASSUME NEW t \in Threads, t # p, Lock(t) \/ Unlock(t)
      PROVE  pc'[p] = pc[p] /\ arg'[p] = arg[p]
  BY <1>1, <1>2 DEF Lock, Unlock, Goto, data
<1>3. ASSUME NEW q \in Procs, q # p, Enter(q) \/ Step(q)
      PROVE  pc'[p] = pc[p] /\ arg'[p] = arg[p]
  <2>1. pc'[p] = pc[p]
    BY <1>1, <1>3, Moving DEF Goto
  <2>2. arg' = arg \/ \E a : arg' = [arg EXCEPT ![q] = a]
    <3>1. CASE Enter(q)
      BY <3>1 DEF Enter, Call, Syscall, Exit
    <3>2. CASE Step(q) /\ ~ExitNext(q)
      BY <3>2 DEF Step, Intercepting, Starting, Stopping, Intercepted, Exiting,
         InterceptCheck, InterceptSave, InterceptHook, ReleaseCheck, ReleaseRestore,
         ReleaseClear, StartCheck, StartMark, StartAdd, StartAll, StopCheck,
         StopFind, StopFlag, StopDel, ClearList, ClearReset, InterceptorWalk,
         InterceptorMark, InterceptorCall, ExitUnlink, ExitCount, ExitOrig, Look,
         Touch, data
    <3>3. CASE ExitNext(q)
      BY <1>1, <3>3 DEF ExitNext
    <3> QED BY <1>3, <3>1, <3>2, <3>3
  <2> QED BY <1>1, <1>3, <2>1, <2>2
<1>4. CASE Loading
  BY <1>1, <1>4 DEF Loading, Load, InitHook, InitFill, Unload, FiniScan,
     FiniRestore, Look, Goto, data
<1>5. CASE UNCHANGED vars
  BY <1>5 DEF vars
<1> QED BY <1>1, <1>2, <1>3, <1>4, <1>5 DEF Next

(* A step that rewrites one row makes it that row. *)
LEMMA Rewritten ==
  ASSUME IInv, NEW p \in Procs, NEW row, Touch(p, row)
  PROVE  table'[arg[p].sysc] = row
  BY DEF IInv, TypeOK, Touch

(* What each of these steps makes of the row. *)
LEMMA RowEffects ==
  ASSUME IInv, NEW p \in Procs
  PROVE  LET s == arg[p].sysc
             r == table[s]
         IN  /\ InterceptSave(p) =>
                  Becomes(s, sys_call_table[s], 1, r.monitored, r.listcount, r.my_list)
             /\ ReleaseClear(p) =>
                  Becomes(s, r.f, 0, r.monitored, r.listcount, r.my_list)
             /\ InterceptorMark(p) =>
                  Becomes(s, r.f, 1, r.monitored, r.listcount, r.my_list)
             /\ StartMark(p) =>
                  Becomes(s, r.f, r.intercepted,
                          IF r.monitored = 0 THEN 1 ELSE r.monitored,
                          r.listcount, r.my_list)
             /\ StartAll(p) =>
                  Becomes(s, r.f, r.intercepted,
                          IF r.monitored = 0 THEN 2 ELSE r.monitored,
                          r.listcount, r.my_list)
             /\ StopFlag(p) =>
                  Becomes(s, r.f, r.intercepted,
                          IF r.monitored = 2 THEN 1 ELSE 0,
                          r.listcount, r.my_list)
             /\ ClearReset(p) =>
                  Becomes(s, r.f, r.intercepted, 0, 0, r.my_list)
             /\ ExitCount(p) =>
                  Becomes(s, r.f, r.intercepted,
                          IF r.listcount = 1 /\ r.monitored = 1 THEN 0 ELSE r.monitored,
                          r.listcount - 1, r.my_list)
<1> DEFINE s == arg[p].sysc
           r == table[s]
<1>1. r \in Row /\ s \in Syscalls /\ r = Mine(p)
  BY DEF IInv, TypeOK, Mine
<1> HIDE DEF r, s
<1>2. InterceptSave(p) =>
        Becomes(s, sys_call_table[s], 1, r.monitored, r.listcount, r.my_list)
  BY <1>1, Rewritten DEF InterceptSave, Becomes, Row, s
<1>3. ReleaseClear(p) =>
        Becomes(s, r.f, 0, r.monitored, r.listcount, r.my_list)
  BY <1>1, Rewritten DEF ReleaseClear, Becomes, Row, s
<1>4. InterceptorMark(p) =>
        Becomes(s, r.f, 1, r.monitored, r.listcount, r.my_list)
  BY <1>1, Rewritten DEF InterceptorMark, Becomes, Row, s
<1>5. StartMark(p) =>
        Becomes(s, r.f, r.intercepted, IF r.monitored = 0 THEN 1 ELSE r.monitored,
                r.listcount, r.my_list)
  BY <1>1, Rewritten DEF StartMark, Becomes, Row, s
<1>6. StartAll(p) =>
        Becomes(s, r.f, r.intercepted, IF r.monitored = 0 THEN 2 ELSE r.monitored,
                r.listcount, r.my_list)
  BY <1>1, Rewritten DEF StartAll, Becomes, Row, s
<1>7. StopFlag(p) =>
        Becomes(s, r.f, r.intercepted, IF r.monitored = 2 THEN 1 ELSE 0,
                r.listcount, r.my_list)
  BY <1>1, Rewritten DEF StopFlag, Becomes, Row, s
<1>8. ClearReset(p) => Becomes(s, r.f, r.intercepted, 0, 0, r.my_list)
  BY <1>1, Rewritten DEF ClearReset, Becomes, Row, s
<1>9. ExitCount(p) =>
        Becomes(s, r.f, r.intercepted,
                IF r.listcount = 1 /\ r.monitored = 1 THEN 0 ELSE r.monitored,
                r.listcount - 1, r.my_list)
  BY <1>1, Rewritten DEF ExitCount, Uncounted, Becomes, Row, s
<1> QED BY <1>2, <1>3, <1>4, <1>5, <1>6, <1>7, <1>8, <1>9 DEF s, r

(* ... and those that change the list: add_pid_sysc, which may fail,       *)
(* del_pid_sysc, destroy_list, and one turn of del_pid's loop.             *)
LEMMA ListEffects ==
  ASSUME IInv, NEW p \in Procs
  PROVE  LET s == arg[p].sysc
             q == arg[p].pid
             r == table[s]
         IN  /\ StartAdd(p) =>
                  \/ table' = table
                  \/ Becomes(s, r.f, r.intercepted, r.monitored, r.listcount + 1,
                             [r.my_list EXCEPT ![q] = r.my_list[q] + 1])
             /\ StopDel(p) =>
                  \/ /\ Listed(q, r)
                     /\ Becomes(s, r.f, r.intercepted,
                          IF r.listcount = 1 /\ r.monitored = 1 THEN 0 ELSE r.monitored,
                          r.listcount - 1, [r.my_list EXCEPT ![q] = r.my_list[q] - 1])
                  \/ ~Listed(q, r) /\ table'[s] = r
             /\ ClearList(p) =>
                  \/ table' = table
                  \/ Becomes(s, r.f, r.intercepted, r.monitored, r.listcount, EmptyList)
             /\ ExitUnlink(p) =>
                  \/ table' = table
                  \/ Becomes(s, r.f, r.intercepted, r.monitored, r.listcount,
                             [r.my_list EXCEPT ![p] = 0])
<1> DEFINE s == arg[p].sysc
           q == arg[p].pid
           r == table[s]
<1>1. r \in Row /\ s \in Syscalls /\ r = Mine(p) /\ table \in [Syscalls -> Row]
  BY DEF IInv, TypeOK, Mine
<1> HIDE DEF r, s, q
<1>2. StartAdd(p) =>
        \/ table' = table
        \/ Becomes(s, r.f, r.intercepted, r.monitored, r.listcount + 1,
                   [r.my_list EXCEPT ![q] = r.my_list[q] + 1])
  <2> SUFFICES ASSUME StartAdd(p), table' # table
               PROVE Becomes(s, r.f, r.intercepted, r.monitored, r.listcount + 1,
                             [r.my_list EXCEPT ![q] = r.my_list[q] + 1])
    OBVIOUS
  <2>1. table'[s] = Added(r, q)
    BY <1>1 DEF StartAdd, s, q
  <2> QED BY <1>1, <2>1 DEF Added, Becomes, Row
<1>3. StopDel(p) =>
        \/ /\ Listed(q, r)
           /\ Becomes(s, r.f, r.intercepted,
                IF r.listcount = 1 /\ r.monitored = 1 THEN 0 ELSE r.monitored,
                r.listcount - 1, [r.my_list EXCEPT ![q] = r.my_list[q] - 1])
        \/ ~Listed(q, r) /\ table'[s] = r
  <2> SUFFICES ASSUME StopDel(p), Listed(q, r)
               PROVE Becomes(s, r.f, r.intercepted,
                IF r.listcount = 1 /\ r.monitored = 1 THEN 0 ELSE r.monitored,
                r.listcount - 1, [r.my_list EXCEPT ![q] = r.my_list[q] - 1])
    BY <1>1, Rewritten DEF StopDel, s, q
  <2> DEFINE less == [r.my_list EXCEPT ![q] = r.my_list[q] - 1]
             cut == [r EXCEPT !.my_list = less]
  <2>1. table'[s] = Uncounted(cut, 1)
    BY <1>1, Rewritten DEF StopDel, s, q
  <2> HIDE DEF less
  <2>2. /\ cut.f = r.f /\ cut.intercepted = r.intercepted
        /\ cut.monitored = r.monitored /\ cut.listcount = r.listcount
        /\ cut.my_list = less
        /\ Uncounted(cut, 1).f = r.f /\ Uncounted(cut, 1).intercepted = r.intercepted
        /\ Uncounted(cut, 1).my_list = less
        /\ Uncounted(cut, 1).listcount = r.listcount - 1
        /\ Uncounted(cut, 1).monitored =
             IF r.listcount = 1 /\ r.monitored = 1 THEN 0 ELSE r.monitored
    BY <1>1 DEF Uncounted, Row
  <2> QED BY <2>1, <2>2 DEF Becomes, less
<1>4. ClearList(p) =>
        \/ table' = table
        \/ Becomes(s, r.f, r.intercepted, r.monitored, r.listcount, EmptyList)
  <2> SUFFICES ASSUME ClearList(p), table' # table
               PROVE Becomes(s, r.f, r.intercepted, r.monitored, r.listcount, EmptyList)
    OBVIOUS
  <2>1. table'[s] = [r EXCEPT !.my_list = EmptyList]
    BY <1>1, Rewritten DEF ClearList, s
  <2> QED BY <1>1, <2>1 DEF Becomes, Row
<1>5. ExitUnlink(p) =>
        \/ table' = table
        \/ Becomes(s, r.f, r.intercepted, r.monitored, r.listcount,
                   [r.my_list EXCEPT ![p] = 0])
  <2> SUFFICES ASSUME ExitUnlink(p), table' # table
               PROVE Becomes(s, r.f, r.intercepted, r.monitored, r.listcount,
                             [r.my_list EXCEPT ![p] = 0])
    OBVIOUS
  <2>1. table'[s] = [r EXCEPT !.my_list = [r.my_list EXCEPT ![p] = 0]]
    BY <1>1 DEF ExitUnlink, s, r
  <2> QED BY <1>1, <2>1 DEF Becomes, Row
<1> QED BY <1>2, <1>3, <1>4, <1>5 DEF s, r, q

------------------------------------------------------------------------------
(* `Access to the table and pid lists must be synchronized'                *)
(* (interceptor.c:79): with the exception of destroy_list and interceptor, *)
(* a process is alone at a list that it changes.                           *)
THEOREM ListsAreGuarded == Spec => []ListsGuarded
<1>1. IInv => ListsGuarded
  <2>1. \A a \in (ChangesList \cup WalksList \cup {"exit_count"})
                   \ {"clear_list", "interceptor_walk"} : a \in HoldsPids
    BY DEF ChangesList, WalksList, HoldsPids
  <2>2. \A p \in Procs : p \in Threads
    BY DEF Threads
  <2> QED BY <2>1, <2>2 DEF IInv, LockInv, ListsGuarded, WalksList
<1> QED BY <1>1, Invariant, PTL

------------------------------------------------------------------------------
(* The places of the loader before the table is filled, and those that a   *)
(* process gets to meanwhile: the hooks are installed with calltable_lock  *)
(* held, and no command gets further without it.  An exit does, and dies.  *)
Unfilled == {"absent", "init_lock", "init_hook", "init_pidlist", "init_fill"}

Early == {
  "user", "dead", "intercept_check", "intercept_lock", "release_check",
  "all_lock", "start_pidlist", "start_calltable", "stop_lock", "exit_lock",
  "exit_del" }

FillInv ==
  pc[Loader] \in Unfilled =>
    /\ \A s \in Syscalls : table[s] = EmptyRow /\ sys_call_table[s] = "original"
    /\ \A p \in Procs : pc[p] \in Early
    /\ pc[Loader] \in {"absent", "init_lock", "init_hook"} =>
         ~hooked /\ \A p \in Procs : pc[p] \in {"user", "dead"}

(* Before insertion no list has a pid and every process is outside the module. *)
LEMMA FillInit == Init => FillInv
<1> SUFFICES ASSUME Init PROVE FillInv
  OBVIOUS
<1>1. Loader \notin Procs /\ \A p \in Procs : pc[p] = "user"
  BY InterceptorAssumption DEF Init, Threads
<1> QED BY <1>1 DEF FillInv, Init, Early

(* The loader gets to the places before init_fill from each other only. *)
LEMMA UnfilledBefore ==
  ASSUME IInv, [Next]_vars, pc'[Loader] \in Unfilled
  PROVE  /\ pc[Loader] \in Unfilled
         /\ pc'[Loader] \in {"absent", "init_lock"} =>
              pc[Loader] \in {"absent", "init_lock"}
<1>1. Loader \in Threads /\ Loader \notin Procs /\ pc \in [Threads -> Labels]
  BY InterceptorAssumption DEF Threads, IInv, TypeOK
<1>2. ASSUME NEW t \in Threads, Lock(t) \/ Unlock(t)
      PROVE  /\ pc[Loader] \in Unfilled
             /\ pc'[Loader] \in {"absent", "init_lock"} =>
                  pc[Loader] \in {"absent", "init_lock"}
  <2>1. PICK k \in LockPoints \cup UnlockPoints :
          pc[t] = k[1] /\ pc' = [pc EXCEPT ![t] = k[3]]
    BY <1>2 DEF Lock, Unlock, Goto
  <2>2. k[3] \in Unfilled => k[1] \in Unfilled /\ k[3] \notin {"absent", "init_lock"}
    BY DEF LockPoints, UnlockPoints, Unfilled
  <2> QED BY <1>1, <2>1, <2>2
<1>3. ASSUME NEW p \in Procs, Enter(p) \/ Step(p)
      PROVE  pc'[Loader] = pc[Loader]
  BY <1>1, <1>3, Moving DEF Goto
<1>4. CASE Loading
  BY <1>1, <1>4 DEF Loading, Load, InitHook, InitFill, Unload, FiniScan,
     FiniRestore, Look, Goto, Unfilled
<1>5. CASE UNCHANGED vars
  BY <1>5 DEF vars
<1> QED BY <1>2, <1>3, <1>4, <1>5 DEF Next

(* Until the loader has the lists set up, no step takes another thread to them. *)
LEMMA FillNext ==
  ASSUME IInv, FillInv, [Next]_vars
  PROVE  FillInv'
<1> SUFFICES ASSUME pc'[Loader] \in Unfilled
             PROVE  /\ table' = table /\ sys_call_table' = sys_call_table
                    /\ \A p \in Procs : pc'[p] \in Early
                    /\ pc'[Loader] \in {"absent", "init_lock", "init_hook"} =>
                         ~hooked' /\ \A p \in Procs : pc'[p] \in {"user", "dead"}
  BY UnfilledBefore DEF FillInv
<1>1. /\ Loader \in Threads /\ Loader \notin Procs /\ Procs \subseteq Threads
      /\ pc \in [Threads -> Labels]
  BY InterceptorAssumption DEF Threads, IInv, TypeOK
<1>2. /\ pc[Loader] \in Unfilled
      /\ \A s \in Syscalls : table[s] = EmptyRow /\ sys_call_table[s] = "original"
      /\ \A p \in Procs : pc[p] \in Early
      /\ pc[Loader] \in {"absent", "init_lock", "init_hook"} =>
           ~hooked /\ \A p \in Procs : pc[p] \in {"user", "dead"}
  BY UnfilledBefore DEF FillInv
<1>3. ASSUME NEW t \in Threads, Lock(t) \/ Unlock(t)
      PROVE  /\ table' = table /\ sys_call_table' = sys_call_table /\ hooked' = hooked
             /\ \A p \in Procs : pc'[p] \in Early
             /\ pc'[Loader] \in {"absent", "init_lock", "init_hook"} =>
                  /\ pc[Loader] \in {"absent", "init_lock", "init_hook"}
                  /\ \A p \in Procs : pc'[p] \in {"user", "dead"}
  <2>1. /\ table' = table /\ sys_call_table' = sys_call_table /\ hooked' = hooked
    BY <1>3 DEF Lock, Unlock, data
  <2>2. CASE t = Loader
    <3>1. \A p \in Procs : pc'[p] = pc[p]
      BY <1>1, <1>3, <2>2 DEF Lock, Unlock, Goto
    <3>2. PICK k \in LockPoints \cup UnlockPoints :
            pc[t] = k[1] /\ pc' = [pc EXCEPT ![t] = k[3]]
      BY <1>3 DEF Lock, Unlock, Goto
    <3>3. k[3] \in {"absent", "init_lock", "init_hook"} => k[1] = "init_lock"
      BY DEF LockPoints, UnlockPoints
    <3> QED BY <1>1, <1>2, <2>1, <2>2, <3>1, <3>2, <3>3
  <2>3. CASE t \in Procs
    <3>1. PICK k \in LockPoints \cup UnlockPoints :
            pc[t] = k[1] /\ pc' = [pc EXCEPT ![t] = k[3]]
            /\ (k \in LockPoints => holder[k[2]] = NoOne \/ k \in UnlockPoints)
      BY <1>3 DEF Lock, Unlock, Goto
    <3>2. k[1] \in Early =>
            /\ k[1] \notin {"user", "dead"} /\ k \notin UnlockPoints
            /\ k[2] = "calltable" \/ k[3] \in Early
      BY DEF LockPoints, UnlockPoints, Early
    <3>3. pc[t] \in Early
      BY <1>2, <2>3
    <3>4. pc[Loader] \in {"init_pidlist", "init_fill"}
      BY <1>2, <2>3, <3>1, <3>2, <3>3 DEF Unfilled
    <3>5. holder["calltable"] = Loader /\ Loader # NoOne
      BY <1>1, <3>4, InterceptorAssumption DEF IInv, LockInv, HoldsTable
    <3>6. k[3] \in Early
      BY <3>1, <3>2, <3>3, <3>5
    <3>7. pc'[Loader] = pc[Loader] /\ \A p \in Procs : pc'[p] \in Early
      BY <1>1, <1>2, <2>3, <3>1, <3>6
    <3> QED BY <2>1, <3>4, <3>7
  <2> QED BY <2>2, <2>3 DEF Threads
<1>4. ASSUME NEW p \in Procs, Enter(p) \/ Step(p)
      PROVE  /\ table' = table /\ sys_call_table' = sys_call_table /\ hooked' = hooked
             /\ pc'[Loader] = pc[Loader]
             /\ \A q \in Procs : q # p => pc'[q] = pc[q]
             /\ pc'[p] \in Early
             /\ ~hooked /\ pc[p] \in {"user", "dead"} => pc'[p] \in {"user", "dead"}
  <2>1. /\ pc'[Loader] = pc[Loader] /\ \A q \in Procs : q # p => pc'[q] = pc[q]
        /\ pc[p] \in Early /\ \A b : Goto(p, b) => pc'[p] = b
    BY <1>1, <1>2, <1>4, Moving DEF Goto
  <2>2. arg[p].sysc \in Syscalls /\ Mine(p).intercepted = 0
    BY <1>2 DEF IInv, TypeOK, Mine, EmptyRow
  <2>3. ASSUME NEW cmd \in Cmds, NEW s \in Syscalls, NEW pid \in Targets,
               Call(p, cmd, s, pid)
        PROVE  /\ table' = table /\ sys_call_table' = sys_call_table /\ hooked' = hooked
               /\ hooked /\ pc'[p] \in Early
    <3>1. FirstStep(cmd, pid) \in Early
      BY InterceptorAssumption DEF FirstStep, Early
    <3> QED BY <2>1, <2>3, <3>1 DEF Call
  <2>4. ASSUME NEW s \in Syscalls, Syscall(p, s) PROVE FALSE
    BY <1>2, <2>4 DEF Syscall
  <2>5. CASE Exit(p)
    BY <2>1, <2>5 DEF Exit, Early
  <2>6. CASE InterceptCheck(p) \/ ReleaseCheck(p)
    BY <2>1, <2>2, <2>6 DEF InterceptCheck, ReleaseCheck, Look, data, Early
  <2>7. CASE ExitUnlink(p)
    <3>1. pc[Loader] \in {"init_hook", "init_pidlist", "init_fill"}
      BY <1>2, <2>7 DEF ExitUnlink, Unfilled
    <3> QED BY <2>1, <2>7, <3>1 DEF ExitUnlink, Early
  <2>8. CASE Step(p) /\ ~(InterceptCheck(p) \/ ReleaseCheck(p) \/ ExitUnlink(p))
    BY <2>1, <2>8 DEF Step, Intercepting, Starting, Stopping, Intercepted, Exiting,
       InterceptSave, InterceptHook, ReleaseRestore, ReleaseClear, StartCheck,
       StartMark, StartAdd, StartAll, StopCheck, StopFind, StopFlag, StopDel,
       ClearList, ClearReset, InterceptorWalk, InterceptorMark, InterceptorCall,
       ExitCount, ExitNext, ExitOrig, Early
  <2> QED BY <1>4, <2>1, <2>3, <2>4, <2>5, <2>6, <2>7, <2>8 DEF Enter
<1>5. CASE Loading
  <2>1. \A p \in Procs : pc'[p] = pc[p]
    BY <1>1, <1>5 DEF Loading, Load, InitHook, InitFill, Unload, FiniScan,
       FiniRestore, Look, Goto
  <2>2. CASE Load
    BY <1>1, <1>2, <2>1, <2>2 DEF Load, Look, data
  <2>3. CASE InitHook
    BY <1>1, <1>2, <2>1, <2>3 DEF InitHook, Goto
  <2>4. CASE InitFill \/ Unload \/ FiniScan \/ FiniRestore
    BY <1>1, <1>2, <2>4 DEF InitFill, Unload, FiniScan, FiniRestore, Look, Goto, Unfilled
  <2> QED BY <1>5, <2>2, <2>3, <2>4 DEF Loading
<1>6. CASE UNCHANGED vars
  BY <1>2, <1>6 DEF vars
<1> QED BY <1>2, <1>3, <1>4, <1>5, <1>6 DEF Next

(* FillInv holds throughout, together with the invariant of the locks. *)
THEOREM FillInvariant == Spec => [](IInv /\ FillInv)
<1>1. Init => IInv /\ FillInv
  BY InitInvariant, FillInit
<1>2. IInv /\ FillInv /\ [Next]_vars => (IInv /\ FillInv)'
  BY NextInvariant, FillNext
<1> QED BY <1>1, <1>2, PTL DEF Spec

(* init_function hooks my_syscall before it fills the table                *)
(* (interceptor.c:587): no command has changed a row, or hijacked a system *)
(* call, before the loop is through.                                       *)
THEOREM FillSafe == Spec => []FillLosesNothing
<1>1. FillInv => FillLosesNothing
  BY DEF FillInv, FillLosesNothing, Unfilled
<1> QED BY <1>1, FillInvariant, PTL

------------------------------------------------------------------------------
(* What the loop of init_function leaves. *)
LEMMA FillEffect ==
  ASSUME IInv, FillInv, InitFill, NEW s \in Syscalls
  PROVE  /\ Becomes(s, "null", 0, 0, 0, EmptyList)
         /\ table[s].f = "null" /\ table[s].intercepted = 0
         /\ table[s].monitored = 0 /\ table[s].listcount = 0
         /\ table[s].my_list = EmptyList
<1>1. table[s] = EmptyRow
  BY DEF FillInv, InitFill, Unfilled
<1>2. table'[s] = [table[s] EXCEPT !.intercepted = 0, !.monitored = 0,
                                   !.listcount = 0, !.my_list = EmptyList]
  BY DEF InitFill
<1> QED BY <1>1, <1>2 DEF EmptyRow, Becomes

(* Monitoring of all pids for a system call ends only by a STOP for it:    *)
(* neither the exit of the last listed process (interceptor.c:165) nor the *)
(* deletion of the last pid ends it.                                       *)
THEOREM AllPidsKept == Spec => AllPidsMonitoringKept
<1>1. IInv /\ FillInv /\ [Next]_vars =>
        \A s \in Syscalls : table[s].monitored = 2 /\ table'[s].monitored # 2 =>
          \E p \in Procs : pc[p] \in {"stop_flag", "clear_reset"} /\ arg[p].sysc = s
  <2> SUFFICES ASSUME IInv, FillInv, [Next]_vars, NEW s \in Syscalls,
                      table[s].monitored = 2, table'[s].monitored # 2
               PROVE  \E p \in Procs : pc[p] \in {"stop_flag", "clear_reset"}
                                       /\ arg[p].sysc = s
    OBVIOUS
  <2>1. ~InitFill
    BY FillEffect
  <2>2. PICK p \in Procs : Changing(p)
    BY <2>1, RowChange
  <2>3. s = arg[p].sysc
    BY <2>2, OtherRows
  <2>4. \A f, i, n, l : Becomes(s, f, i, table[s].monitored, n, l) => FALSE
    BY DEF Becomes
  <2>5. ~ (InterceptSave(p) \/ ReleaseClear(p) \/ InterceptorMark(p))
    BY <2>3, <2>4, RowEffects
  <2>6. ~ (StartMark(p) \/ StartAll(p) \/ ExitCount(p))
    BY <2>3, RowEffects DEF Becomes
  <2>7. ~ (StartAdd(p) \/ ClearList(p) \/ ExitUnlink(p))
    BY <2>3, <2>4, ListEffects
  <2>8. ~ StopDel(p)
    <3> DEFINE m == IF table[s].listcount = 1 /\ table[s].monitored = 1
                    THEN 0 ELSE table[s].monitored
    <3>1. m = table[s].monitored
      OBVIOUS
    <3> HIDE DEF m
    <3>2. \A f, i, n, l : ~Becomes(s, f, i, m, n, l)
      BY <2>4, <3>1
    <3> QED BY <2>3, <3>2, ListEffects DEF m
  <2> QED BY <2>2, <2>3, <2>5, <2>6, <2>7, <2>8 DEF Changing, StopFlag, ClearReset
<1> QED BY <1>1, FillInvariant, PTL DEF Spec, AllPidsMonitoringKept

------------------------------------------------------------------------------
(* my_exit_group: the rows that del_pid's loop has passed do not list the  *)
(* process any more; nobody can put it back, since START needs             *)
(* pidlist_lock, which the exit keeps.                                     *)
Removing == {"exit_del", "exit_count", "exit_next", "exit_unlock"}

CleanInv ==
  \A p \in Procs :
    /\ pc[p] = "exit_lock" => arg[p].sysc = 1
    /\ pc[p] \in Removing =>
         \A s \in Syscalls : s < arg[p].sysc => table[s].my_list[p] = 0
    /\ pc[p] \in Scanning => table[arg[p].sysc].my_list[p] = 0
    /\ pc[p] = "exit_unlock" => NR <= arg[p].sysc

(* A list gets longer only by add_pid_sysc. *)
LEMMA ListsShrink ==
  ASSUME IInv, FillInv, [Next]_vars, NEW s \in Syscalls, NEW q \in Procs,
         ~\E p \in Procs : pc[p] = "start_add"
  PROVE  table[s].my_list[q] = 0 => table'[s].my_list[q] = 0
<1> SUFFICES ASSUME table[s].my_list[q] = 0, table'[s] # table[s]
             PROVE  table'[s].my_list[q] = 0
  OBVIOUS
<1>1. CASE InitFill
  BY <1>1, FillEffect DEF Becomes, EmptyList
<1>2. ASSUME NEW p \in Procs, Changing(p) PROVE table'[s].my_list[q] = 0
  <2>1. s = arg[p].sysc /\ table[s].my_list \in [Procs -> Nat]
    BY <1>2, OtherRows DEF IInv, TypeOK, Row
  <2>2. ~StartAdd(p)
    BY DEF StartAdd
  <2>3. CASE StopDel(p)
    <3> DEFINE x == arg[p].pid
               less == [table[s].my_list EXCEPT ![x] = table[s].my_list[x] - 1]
    <3>1. Listed(x, table[s]) /\ table'[s].my_list = less
      BY <2>1, <2>3, ListEffects DEF Becomes
    <3>2. x # q
      BY <3>1 DEF Listed
    <3>3. less[q] = table[s].my_list[q]
      BY <2>1, <3>2
    <3> QED BY <3>1, <3>3
  <2>4. CASE ClearList(p)
    <3>1. table'[s].my_list = EmptyList
      BY <2>1, <2>4, ListEffects DEF Becomes
    <3> QED BY <3>1 DEF EmptyList
  <2>5. CASE ExitUnlink(p)
    BY <2>1, <2>5, ListEffects DEF Becomes
  <2>6. CASE InterceptSave(p) \/ ReleaseClear(p) \/ InterceptorMark(p) \/ StartMark(p)
             \/ StartAll(p) \/ StopFlag(p) \/ ClearReset(p) \/ ExitCount(p)
    BY <2>1, <2>6, RowEffects DEF Becomes
  <2> QED BY <1>2, <2>2, <2>3, <2>4, <2>5, <2>6 DEF Changing
<1> QED BY <1>1, <1>2, RowChange

(* No step leaves an exited process in a list the exit has been over. *)
LEMMA CleanNext ==
  ASSUME IInv, FillInv, CleanInv, [Next]_vars
  PROVE  CleanInv'
<1> SUFFICES ASSUME NEW p \in Procs
             PROVE  /\ pc'[p] = "exit_lock" => arg'[p].sysc = 1
                    /\ pc'[p] \in Removing =>
                         \A s \in Syscalls : s < arg'[p].sysc => table'[s].my_list[p] = 0
                    /\ pc'[p] \in Scanning => table'[arg'[p].sysc].my_list[p] = 0
                    /\ pc'[p] = "exit_unlock" => NR <= arg'[p].sysc
  BY DEF CleanInv
<1>1. /\ p \in Threads /\ pc \in [Threads -> Labels] /\ arg[p].sysc \in Syscalls
      /\ arg \in [Procs -> [sysc : Syscalls, pid : Procs \cup {AllPids}]]
      /\ \A s \in Syscalls : table[s].my_list \in [Procs -> Nat]
      /\ Syscalls \subseteq Int /\ NR \in Int
  BY InterceptorAssumption DEF IInv, TypeOK, Threads, Row, Syscalls
<1>2. pc[p] \in Removing =>
        \A s \in Syscalls : table[s].my_list[p] = 0 => table'[s].my_list[p] = 0
  <2> SUFFICES ASSUME pc[p] \in Removing
               PROVE  ~\E q \in Procs : pc[q] = "start_add"
    BY ListsShrink
  <2>1. holder["pidlist"] = p
    BY <1>1 DEF Removing, IInv, LockInv, HoldsPids
  <2>2. \A q \in Procs : pc[q] = "start_add" => holder["pidlist"] = q
    BY DEF IInv, LockInv, HoldsPids, Threads
  <2> QED BY <2>1, <2>2 DEF Removing
<1>3. Scanning \subseteq Removing /\ "exit_unlock" \in Removing /\ "exit_lock" \notin Removing
  BY DEF Scanning, Removing
<1>4. CASE pc'[p] = pc[p] /\ arg'[p] = arg[p]
  BY <1>1, <1>2, <1>3, <1>4 DEF CleanInv
<1>5. CASE Lock(p) \/ Unlock(p)
  <2>1. PICK k \in LockPoints \cup UnlockPoints : pc[p] = k[1] /\ pc'[p] = k[3]
    BY <1>1, <1>5 DEF Lock, Unlock, Goto
  <2>2. /\ k[3] # "exit_lock" /\ k[3] \notin Scanning \cup {"exit_unlock"}
        /\ k[3] \in Removing => k[1] = "exit_lock"
    BY DEF LockPoints, UnlockPoints, Scanning, Removing
  <2>3. arg' = arg
    BY <1>5 DEF Lock, Unlock, data
  <2> QED BY <1>1, <2>1, <2>2, <2>3 DEF CleanInv, Syscalls
<1>6. CASE Enter(p)
  <2>1. ASSUME NEW cmd \in Cmds, NEW r \in Syscalls, NEW pid \in Targets,
               Call(p, cmd, r, pid)
        PROVE  pc'[p] \notin Removing \cup {"exit_lock"}
    <3>1. FirstStep(cmd, pid) \notin Removing \cup {"exit_lock"}
      BY InterceptorAssumption DEF FirstStep, Removing
    <3> QED BY <1>1, <2>1, <3>1 DEF Call, Goto
  <2>2. ASSUME NEW r \in Syscalls, Syscall(p, r)
        PROVE  pc'[p] \notin Removing \cup {"exit_lock"}
    BY <1>1, <2>2 DEF Syscall, Goto, Removing
  <2>3. CASE Exit(p)
    <3>1. pc'[p] \in {"exit_lock", "dead"} /\ (pc'[p] = "exit_lock" => arg'[p].sysc = 1)
      BY <1>1, <2>3 DEF Exit, Goto
    <3> QED BY <3>1 DEF Removing, Scanning
  <2> QED BY <1>3, <1>6, <2>1, <2>2, <2>3 DEF Enter
<1>7. CASE ExitUnlink(p)
  <2>1. pc[p] = "exit_del" /\ arg' = arg /\ pc[p] \in Removing
    BY <1>7 DEF ExitUnlink, Removing
  <2>2. /\ pc'[p] \in {"dead", "exit_unlock", "exit_count", "exit_next"}
        /\ pc'[p] = "exit_unlock" => NR <= arg[p].sysc
    BY <1>1, <1>7 DEF ExitUnlink, Goto, Scanned
  <2>3. pc'[p] \in Scanning => table'[arg[p].sysc].my_list[p] = 0
    <3> SUFFICES ASSUME pc'[p] \in Scanning PROVE table'[arg[p].sysc].my_list[p] = 0
      OBVIOUS
    <3>1. table' = [table EXCEPT ![arg[p].sysc].my_list[p] = 0]
      BY <1>1, <1>7 DEF ExitUnlink, Goto, Scanning
    <3>2. table'[arg[p].sysc] = [table[arg[p].sysc] EXCEPT !.my_list =
                                   [table[arg[p].sysc].my_list EXCEPT ![p] = 0]]
      BY <1>1, <3>1 DEF IInv, TypeOK
    <3> QED BY <1>1, <3>2 DEF IInv, TypeOK, Row
  <2> QED BY <1>2, <2>1, <2>2, <2>3 DEF CleanInv
<1>8. CASE ExitCount(p)
  <2>1. pc[p] = "exit_count" /\ pc'[p] = "exit_next" /\ arg' = arg
    BY <1>1, <1>8 DEF ExitCount, Touch, Goto
  <2>2. "exit_count" \in Removing \cap Scanning
    BY DEF Removing, Scanning
  <2> QED BY <1>1, <1>2, <2>1, <2>2 DEF CleanInv
<1>9. CASE ExitNext(p)
  <2>1. /\ pc[p] = "exit_next" /\ pc'[p] = "exit_del" /\ table' = table
        /\ arg'[p].sysc = arg[p].sysc + 1
    BY <1>1, <1>9 DEF ExitNext, Goto
  <2>2. /\ "exit_next" \in Removing \cap Scanning
        /\ "exit_del" \notin Scanning
    BY DEF Removing, Scanning
  <2>3. \A s \in Syscalls : s < arg[p].sysc + 1 => s < arg[p].sysc \/ s = arg[p].sysc
    <3>1. \A m, n \in Int : m < n + 1 => m < n \/ m = n
      OBVIOUS
    <3>2. arg[p].sysc \in Int
      BY <1>1
    <3> QED BY <1>1, <3>1, <3>2
  <2> QED BY <1>1, <2>1, <2>2, <2>3 DEF CleanInv
<1>10. CASE Step(p) /\ ~ExitUnlink(p) /\ ~ExitCount(p) /\ ~ExitNext(p)
  <2>1. \A b : Goto(p, b) => pc'[p] = b
    BY <1>1 DEF Goto
  <2>2. pc'[p] \notin Removing \cup {"exit_lock"}
    BY <1>10, <2>1 DEF Step, Intercepting, Starting, Stopping, Intercepted, Exiting,
       InterceptCheck, InterceptSave, InterceptHook, ReleaseCheck, ReleaseRestore,
       ReleaseClear, StartCheck, StartMark, StartAdd, StartAll, StopCheck, StopFind,
       StopFlag, StopDel, ClearList, ClearReset, InterceptorWalk, InterceptorMark,
       InterceptorCall, ExitOrig, Look, Removing
  <2> QED BY <1>3, <2>2
<1> QED BY <1>4, <1>5, <1>6, <1>7, <1>8, <1>9, <1>10, OthersSteps

(* When my_exit_group gives back pidlist_lock, no list that del_pid scans  *)
(* holds the process, whatever START and STOP did before.                  *)
THEOREM ExitCleans == Spec => []ExitCleansLists
<1>1. Init => CleanInv
  <2> SUFFICES ASSUME Init, NEW p \in Procs PROVE pc[p] = "user"
    BY DEF CleanInv, Removing, Scanning
  <2> QED BY InterceptorAssumption DEF Init, Threads
<1>2. IInv /\ FillInv /\ CleanInv /\ [Next]_vars => CleanInv'
  BY CleanNext
<1>3. IInv /\ CleanInv => ExitCleansLists
  <2> SUFFICES ASSUME IInv, CleanInv, NEW p \in Procs, pc[p] = "exit_unlock",
                      NEW s \in Syscalls, s < NR
               PROVE  ~(table[s].my_list[p] > 0)
    BY DEF ExitCleansLists, Listed
  <2>1. arg[p].sysc \in Int /\ s \in Int /\ NR \in Int
    BY InterceptorAssumption DEF IInv, TypeOK, Syscalls
  <2>2. s < arg[p].sysc
    BY <2>1 DEF CleanInv
  <2>3. table[s].my_list[p] = 0
    BY <2>2 DEF CleanInv, Removing
  <2> QED BY <2>3
<1> QED BY <1>1, <1>2, <1>3, FillInvariant, PTL DEF Spec

------------------------------------------------------------------------------
(* INTERCEPT and RELEASE test `intercepted' before they take the lock, so  *)
(* two of them at once go wrong.  Only root may use them: when no two      *)
(* administrators belong to root, what the test found still holds inside   *)
(* the lock, although interceptor, run by any process, writes the same     *)
(* flag with no lock, and others start and stop monitoring meanwhile.      *)
OneRoot == \A a, b \in Admins : uid[a] = root /\ uid[b] = root => a = b

Hooking == {
  "intercept_check", "intercept_lock", "intercept_save", "intercept_hook",
  "release_check", "release_lock", "release_restore", "release_clear" }

(* Where the system call is known not to be hijacked. *)
Unhooked == {"intercept_lock", "intercept_save", "release_clear"}

(* Where the original call is known to be saved. *)
Running == {"interceptor_walk", "interceptor_mark", "interceptor_call"}
Saved   == Running \cup {"intercept_hook", "release_lock", "release_restore", "release_clear"}

HookInv ==
  /\ \A p \in Procs : pc[p] \in Hooking => p \in Admins /\ uid[p] = root
  /\ \A s \in Syscalls : table[s].f # "interceptor" /\ sys_call_table[s] # "null"
  /\ \A s \in Syscalls : table[s].intercepted = 1 => table[s].f = "original"
  /\ \A s \in Syscalls : sys_call_table[s] = "interceptor" => table[s].intercepted = 1
  /\ \A p \in Procs : pc[p] \in Saved => table[arg[p].sysc].f = "original"
  /\ \A p \in Procs : pc[p] \in Unhooked => sys_call_table[arg[p].sysc] = "original"
  /\ \A p \in Procs : pc[p] = "intercept_hook" => table[arg[p].sysc].intercepted = 1

(* Only INTERCEPT and RELEASE change what a system call runs. *)
LEMMA HandlerChange ==
  ASSUME IInv, [Next]_vars
  PROVE  \/ sys_call_table' = sys_call_table
         \/ \E p \in Procs : InterceptHook(p) \/ ReleaseRestore(p)
<1>1. ASSUME NEW t \in Threads, Lock(t) \/ Unlock(t)
      PROVE  sys_call_table' = sys_call_table
  BY <1>1 DEF Lock, Unlock, data
<1>2. ASSUME NEW p \in Procs, Enter(p) PROVE sys_call_table' = sys_call_table
  BY <1>2 DEF Enter, Call, Syscall, Exit
<1>3. ASSUME NEW p \in Procs, Step(p), ~InterceptHook(p), ~ReleaseRestore(p)
      PROVE  sys_call_table' = sys_call_table
  BY <1>3 DEF Step, Intercepting, Starting, Stopping, Intercepted, Exiting,
     InterceptCheck, InterceptSave, ReleaseCheck, ReleaseClear, StartCheck,
     StartMark, StartAdd, StartAll, StopCheck, StopFind, StopFlag, StopDel,
     ClearList, ClearReset, InterceptorWalk, InterceptorMark, InterceptorCall,
     ExitUnlink, ExitCount, ExitNext, ExitOrig, Look, data
<1>4. CASE Loading
  BY <1>4 DEF Loading, Load, InitHook, InitFill, Unload, FiniScan, FiniRestore,
     Look, data
<1>5. CASE UNCHANGED vars
  BY <1>5 DEF vars
<1> QED BY <1>1, <1>2, <1>3, <1>4, <1>5 DEF Next

(* How a process gets to the places of INTERCEPT and RELEASE. *)
LEMMA HookArrivals ==
  ASSUME IInv, [Next]_vars, NEW p \in Procs, pc'[p] \in Hooking
  PROVE  \/ pc'[p] = pc[p] /\ arg'[p] = arg[p]
         \/ /\ pc[p] = "user" /\ p \in Admins /\ uid[p] = root
            /\ pc'[p] \in {"intercept_check", "release_check"}
         \/ /\ pc[p] \in Hooking /\ arg'[p] = arg[p]
            /\ \/ InterceptCheck(p) /\ pc'[p] = "intercept_lock"
               \/ /\ pc[p] = "intercept_lock" /\ pc'[p] = "intercept_save"
                  /\ table' = table /\ sys_call_table' = sys_call_table
               \/ InterceptSave(p) /\ pc'[p] = "intercept_hook"
               \/ ReleaseCheck(p) /\ pc'[p] = "release_lock"
               \/ pc[p] = "release_lock" /\ pc'[p] = "release_restore"
               \/ ReleaseRestore(p) /\ pc'[p] = "release_clear"
<1>1. /\ p \in Threads /\ pc \in [Threads -> Labels]
      /\ \A b : Goto(p, b) => pc'[p] = b
  BY DEF IInv, TypeOK, Threads, Goto
<1>2. CASE Lock(p) \/ Unlock(p)
  <2>1. PICK k \in LockPoints \cup UnlockPoints : pc[p] = k[1] /\ pc'[p] = k[3]
    BY <1>1, <1>2 DEF Lock, Unlock
  <2>2. k[3] \in Hooking =>
          \/ k[1] = "intercept_lock" /\ k[3] = "intercept_save"
          \/ k[1] = "release_lock" /\ k[3] = "release_restore"
    BY DEF LockPoints, UnlockPoints, Hooking
  <2>3. arg' = arg /\ table' = table /\ sys_call_table' = sys_call_table
    BY <1>2 DEF Lock, Unlock, data
  <2> QED BY <2>1, <2>2, <2>3 DEF Hooking
<1>3. CASE Enter(p)
  <2>1. ASSUME NEW cmd \in Cmds, NEW r \in Syscalls, NEW pid \in Targets,
               Call(p, cmd, r, pid)
        PROVE  /\ pc[p] = "user" /\ p \in Admins /\ uid[p] = root
               /\ pc'[p] \in {"intercept_check", "release_check"}
    <3>1. FirstStep(cmd, pid) \in Hooking =>
            /\ FirstStep(cmd, pid) \in {"intercept_check", "release_check"}
            /\ cmd \in {"INTERCEPT", "RELEASE"}
      BY InterceptorAssumption DEF FirstStep, Hooking
    <3> QED BY <1>1, <2>1, <3>1 DEF Call, Permitted
  <2>2. \A r \in Syscalls : ~Syscall(p, r)
    BY <1>1 DEF Syscall, Hooking
  <2>3. ~Exit(p)
    BY <1>1 DEF Exit, Hooking
  <2> QED BY <1>3, <2>1, <2>2, <2>3 DEF Enter
<1>4. CASE Intercepting(p)
  BY <1>1, <1>4 DEF Intercepting, InterceptCheck, InterceptSave, InterceptHook,
     ReleaseCheck, ReleaseRestore, ReleaseClear, Look, Touch, data, Hooking
<1>5. CASE Step(p) /\ ~Intercepting(p)
  BY <1>1, <1>5 DEF Step, Starting, Stopping, Intercepted, Exiting, StartCheck,
     StartMark, StartAdd, StartAll, StopCheck, StopFind, StopFlag, StopDel,
     ClearList, ClearReset, InterceptorWalk, InterceptorMark, InterceptorCall,
     ExitUnlink, ExitCount, ExitNext, ExitOrig, Look, Hooking
<1> QED BY <1>2, <1>3, <1>4, <1>5, OthersSteps

(* How a process gets to run interceptor, and stays there. *)
LEMMA RunArrivals ==
  ASSUME IInv, [Next]_vars, NEW p \in Procs, pc'[p] \in Running
  PROVE  \/ pc[p] \in Running /\ arg'[p] = arg[p]
         \/ /\ sys_call_table[arg'[p].sysc] = "interceptor" /\ table' = table
            /\ arg'[p].sysc \in Syscalls
<1>1. /\ p \in Threads /\ pc \in [Threads -> Labels]
      /\ \A b : Goto(p, b) => pc'[p] = b
      /\ arg \in [Procs -> [sysc : Syscalls, pid : Procs \cup {AllPids}]]
  BY DEF IInv, TypeOK, Threads, Goto
<1>2. CASE Lock(p) \/ Unlock(p)
  <2>1. PICK k \in LockPoints \cup UnlockPoints : pc'[p] = k[3]
    BY <1>1, <1>2 DEF Lock, Unlock
  <2>2. k[3] \notin Running
    BY DEF LockPoints, UnlockPoints, Running
  <2> QED BY <2>1, <2>2
<1>3. CASE Enter(p)
  <2>1. ASSUME NEW cmd \in Cmds, NEW r \in Syscalls, NEW pid \in Targets,
               Call(p, cmd, r, pid)
        PROVE  FALSE
    <3>1. FirstStep(cmd, pid) \notin Running
      BY InterceptorAssumption DEF FirstStep, Running
    <3> QED BY <1>1, <2>1, <3>1 DEF Call
  <2>2. ASSUME NEW r \in Syscalls, Syscall(p, r)
        PROVE  /\ sys_call_table[arg'[p].sysc] = "interceptor" /\ table' = table
               /\ arg'[p].sysc \in Syscalls
    <3>1. arg'[p].sysc = r
      BY <1>1, <2>2 DEF Syscall
    <3> QED BY <2>2, <3>1 DEF Syscall
  <2>3. ~Exit(p)
    BY <1>1 DEF Exit, Running
  <2> QED BY <1>3, <2>1, <2>2, <2>3 DEF Enter
<1>4. CASE Intercepted(p)
  BY <1>1, <1>4 DEF Intercepted, InterceptorWalk, InterceptorMark, InterceptorCall,
     Look, Touch, data, Running
<1>5. CASE Intercepting(p)
  BY <1>1, <1>5 DEF Intercepting, InterceptCheck, InterceptSave, InterceptHook,
     ReleaseCheck, ReleaseRestore, ReleaseClear, Look, Running
<1>6. CASE Starting(p) \/ Stopping(p) \/ Exiting(p)
  BY <1>1, <1>6 DEF Starting, Stopping, Exiting, StartCheck,
     StartMark, StartAdd, StartAll, StopCheck, StopFind, StopFlag, StopDel,
     ClearList, ClearReset, ExitUnlink, ExitCount, ExitNext, ExitOrig, Look, Running
<1> QED BY <1>2, <1>3, <1>4, <1>5, <1>6, OthersSteps DEF Step

(* Every step with one root administrator keeps hooks, flags and saved     *)
(* calls in line.                                                          *)
LEMMA HookNext ==
  ASSUME OneRoot, IInv, FillInv, HookInv, [Next]_vars
  PROVE  HookInv'
<1>1. /\ sys_call_table \in [Syscalls -> Handlers] /\ table \in [Syscalls -> Row]
      /\ \A p \in Procs : arg[p].sysc \in Syscalls
  BY DEF IInv, TypeOK
<1>2. \A p, q \in Procs : pc[p] \in Hooking /\ pc[q] \in Hooking => p = q
  BY DEF HookInv, OneRoot
<1>3. \A p \in Procs : pc'[p] \in Hooking => p \in Admins /\ uid[p] = root
  BY HookArrivals DEF HookInv
<1>4. ASSUME NEW p \in Procs, InterceptHook(p) \/ ReleaseRestore(p)
      PROVE  /\ table' = table /\ pc[p] \in Hooking
             /\ \A s \in Syscalls : s # arg[p].sysc => sys_call_table'[s] = sys_call_table[s]
             /\ InterceptHook(p) => /\ table[arg[p].sysc].intercepted = 1
                                    /\ sys_call_table'[arg[p].sysc] = "interceptor"
             /\ ReleaseRestore(p) => sys_call_table'[arg[p].sysc] = "original"
             /\ pc[p] \in {"intercept_hook", "release_restore"}
  BY <1>1, <1>4 DEF InterceptHook, ReleaseRestore, HookInv, Hooking, Saved, Mine
<1>5. ASSUME NEW s \in Syscalls
      PROVE  /\ table'[s].f # "interceptor"
             /\ table[s].f = "original" => table'[s].f = "original"
  <2>1. table[s].f # "interceptor"
    BY DEF HookInv
  <2>2. CASE InitFill
    BY <2>1, <2>2, FillEffect DEF Becomes
  <2>3. ASSUME NEW p \in Procs, Changing(p), s = arg[p].sysc
        PROVE  table'[s].f = "original" \/ table'[s].f = table[s].f
    <3>1. CASE InterceptSave(p)
      <4>1. sys_call_table[s] = "original"
        BY <2>3, <3>1 DEF InterceptSave, HookInv, Unhooked
      <4> QED BY <2>3, <3>1, <4>1, RowEffects DEF Becomes
    <3>2. CASE ReleaseClear(p) \/ InterceptorMark(p) \/ StartMark(p)
               \/ StartAll(p) \/ StopFlag(p) \/ ClearReset(p) \/ ExitCount(p)
      BY <2>1, <2>3, <3>2, RowEffects DEF Becomes
    <3>3. CASE StartAdd(p) \/ StopDel(p) \/ ClearList(p) \/ ExitUnlink(p)
      BY <2>1, <2>3, <3>3, ListEffects DEF Becomes
    <3> QED BY <2>3, <3>1, <3>2, <3>3 DEF Changing
  <2> QED BY <2>1, <2>2, <2>3, RowChange, OtherRows
<1>6. ASSUME NEW s \in Syscalls, table[s].intercepted = 1, table'[s].intercepted # 1
      PROVE  \/ InitFill
             \/ \E p \in Procs : ReleaseClear(p) /\ arg[p].sysc = s
  <2> SUFFICES ASSUME ~InitFill, NEW p \in Procs, Changing(p), s = arg[p].sysc
               PROVE  ReleaseClear(p)
    BY <1>6, RowChange, OtherRows
  <2>1. ~ (InterceptSave(p) \/ InterceptorMark(p) \/ StartMark(p)
           \/ StartAll(p) \/ StopFlag(p) \/ ClearReset(p) \/ ExitCount(p))
    BY <1>6, RowEffects DEF Becomes
  <2>2. ~ (StartAdd(p) \/ StopDel(p) \/ ClearList(p) \/ ExitUnlink(p))
    BY <1>6, ListEffects DEF Becomes
  <2> QED BY <2>1, <2>2 DEF Changing
<1>7. ASSUME NEW s \in Syscalls, sys_call_table'[s] = "interceptor"
      PROVE  table'[s].intercepted = 1
  <2>1. CASE sys_call_table[s] = "interceptor"
    <3>1. table[s].intercepted = 1
      BY <2>1 DEF HookInv
    <3>2. ~InitFill
      BY <2>1 DEF InitFill, FillInv, Unfilled
    <3>3. ~\E p \in Procs : ReleaseClear(p) /\ arg[p].sysc = s
      BY <2>1 DEF ReleaseClear, HookInv, Unhooked
    <3> QED BY <1>6, <3>1, <3>2, <3>3
  <2>2. CASE sys_call_table[s] # "interceptor"
    BY <1>4, <1>7, <2>2, HandlerChange
  <2> QED BY <2>1, <2>2
<1>8. ASSUME NEW p \in Procs, pc'[p] \in Unhooked
      PROVE  sys_call_table'[arg'[p].sysc] = "original"
  <2>1. pc'[p] \in Hooking /\ Unhooked \subseteq Hooking
    BY <1>8 DEF Unhooked, Hooking
  <2>2. CASE pc[p] \in Unhooked /\ arg'[p] = arg[p]
    <3>1. sys_call_table[arg[p].sysc] = "original" /\ arg[p].sysc \in Syscalls
      BY <1>1, <2>2 DEF HookInv
    <3>2. ASSUME NEW q \in Procs, InterceptHook(q)
          PROVE  FALSE
      <4>1. pc[q] \in Hooking /\ pc[p] \in Hooking /\ pc[q] = "intercept_hook"
        BY <2>1, <2>2, <3>2 DEF InterceptHook, Hooking
      <4> QED BY <1>2, <2>2, <4>1 DEF Unhooked
    <3> QED BY <1>4, <2>2, <3>1, <3>2, HandlerChange
  <2>3. CASE InterceptCheck(p) /\ pc'[p] = "intercept_lock" /\ arg'[p] = arg[p]
    <3>1. Mine(p).intercepted # 1 /\ sys_call_table' = sys_call_table
      BY <2>3 DEF InterceptCheck, Look, Goto, IInv, TypeOK, Threads, data
    <3> QED BY <1>1, <2>3, <3>1 DEF HookInv, Mine, Handlers
  <2>4. CASE ReleaseRestore(p) /\ arg'[p] = arg[p]
    BY <1>4, <2>4
  <2>5. CASE pc[p] = "user" \/ pc[p] \notin Unhooked
    BY <1>8, <2>1, <2>3, <2>4, <2>5, HookArrivals DEF Unhooked
  <2> QED BY <1>8, <2>1, <2>2, <2>3, <2>4, <2>5, HookArrivals DEF Unhooked
<1>9. ASSUME NEW p \in Procs, pc'[p] = "intercept_hook"
      PROVE  table'[arg'[p].sysc].intercepted = 1
  <2>1. \/ pc[p] = "intercept_hook" /\ arg'[p] = arg[p]
        \/ InterceptSave(p) /\ arg'[p] = arg[p]
    BY <1>9, HookArrivals DEF Hooking
  <2>2. CASE InterceptSave(p) /\ arg'[p] = arg[p]
    BY <2>2, RowEffects DEF Becomes
  <2>3. CASE pc[p] = "intercept_hook" /\ arg'[p] = arg[p]
    <3>1. table[arg[p].sysc].intercepted = 1 /\ arg[p].sysc \in Syscalls
      BY <1>1, <2>3 DEF HookInv
    <3>2. ~InitFill
      BY <2>3 DEF InitFill, FillInv, Unfilled, Early
    <3>3. ASSUME NEW q \in Procs, ReleaseClear(q) PROVE FALSE
      BY <1>2, <2>3, <3>3 DEF ReleaseClear, Hooking
    <3> QED BY <1>6, <2>3, <3>1, <3>2, <3>3
  <2> QED BY <2>1, <2>2, <2>3
<1>10. ASSUME NEW s \in Syscalls PROVE sys_call_table'[s] # "null"
  <2>1. sys_call_table[s] # "null"
    BY DEF HookInv
  <2> QED BY <1>4, <2>1, HandlerChange
<1>11. ASSUME NEW s \in Syscalls, table'[s].intercepted = 1
       PROVE  table'[s].f = "original"
  <2>1. CASE table[s].intercepted = 1
    BY <1>5, <2>1 DEF HookInv
  <2>2. CASE InitFill
    BY <1>11, <2>2, FillEffect DEF Becomes
  <2>3. ASSUME NEW p \in Procs, Changing(p), s = arg[p].sysc, table[s].intercepted # 1
        PROVE  table'[s].f = "original"
    <3>1. CASE InterceptSave(p)
      <4>1. sys_call_table[s] = "original"
        BY <2>3, <3>1 DEF InterceptSave, HookInv, Unhooked
      <4> QED BY <2>3, <3>1, <4>1, RowEffects DEF Becomes
    <3>2. CASE InterceptorMark(p)
      <4>1. table[s].f = "original"
        BY <2>3, <3>2 DEF InterceptorMark, HookInv, Saved, Running
      <4> QED BY <1>5, <4>1
    <3>3. ~(ReleaseClear(p) \/ StartMark(p) \/ StartAll(p) \/ StopFlag(p)
            \/ ClearReset(p) \/ ExitCount(p))
      BY <1>11, <2>3, RowEffects DEF Becomes
    <3>4. ~(StartAdd(p) \/ StopDel(p) \/ ClearList(p) \/ ExitUnlink(p))
      BY <1>11, <2>3, ListEffects DEF Becomes
    <3> QED BY <2>3, <3>1, <3>2, <3>3, <3>4 DEF Changing
  <2> QED BY <1>11, <2>1, <2>2, <2>3, RowChange, OtherRows
<1>12. ASSUME NEW p \in Procs, pc'[p] \in Saved
       PROVE  table'[arg'[p].sysc].f = "original"
  <2>1. CASE pc[p] \in Saved /\ arg'[p] = arg[p]
    <3>1. table[arg[p].sysc].f = "original"
      BY <2>1 DEF HookInv
    <3> QED BY <1>1, <1>5, <2>1, <3>1
  <2>2. CASE pc'[p] \in Running /\ ~(pc[p] \in Saved /\ arg'[p] = arg[p])
    <3>1. /\ sys_call_table[arg'[p].sysc] = "interceptor" /\ table' = table
          /\ arg'[p].sysc \in Syscalls
      BY <2>2, RunArrivals DEF Saved
    <3> QED BY <3>1 DEF HookInv
  <2>3. CASE InterceptSave(p) /\ arg'[p] = arg[p]
    <3>1. sys_call_table[arg[p].sysc] = "original"
      BY <2>3 DEF InterceptSave, HookInv, Unhooked
    <3> QED BY <2>3, <3>1, RowEffects DEF Becomes
  <2>4. CASE ReleaseCheck(p) /\ pc'[p] = "release_lock" /\ arg'[p] = arg[p]
    <3>1. Mine(p).intercepted = 1 /\ table' = table
      BY <1>1, <2>4 DEF ReleaseCheck, Look, Goto, IInv, TypeOK, Threads, data, Row, Mine
    <3> QED BY <1>1, <2>4, <3>1 DEF HookInv, Mine
  <2>5. CASE pc'[p] \notin Running
    <3>1. pc'[p] \in {"intercept_hook", "release_lock", "release_restore", "release_clear"}
      BY <1>12, <2>5 DEF Saved
    <3>2. pc'[p] \in Hooking
      BY <3>1 DEF Hooking
    <3>3. ReleaseRestore(p) => pc[p] = "release_restore"
      BY DEF ReleaseRestore
    <3> QED BY <2>1, <2>3, <2>4, <3>1, <3>2, <3>3, HookArrivals DEF Saved
  <2> QED BY <2>1, <2>2, <2>5
<1> QED BY <1>3, <1>5, <1>7, <1>8, <1>9, <1>10, <1>11, <1>12 DEF HookInv

(* The module as init_function leaves it satisfies the invariants, too. *)
LEMMA LoadedInvariant == LoadedInit => IInv /\ FillInv
<1> SUFFICES ASSUME LoadedInit PROVE IInv /\ FillInv
  OBVIOUS
<1>1. EmptyRow \in Row /\ 1 \in Syscalls
      /\ \A q \in Procs : EmptyRow.my_list[q] = 0
  BY InterceptorAssumption DEF EmptyRow, Row, EmptyList, Handlers, Syscalls
<1>2. TypeOK
  <2>1. pc \in [Threads -> Labels]
    BY DEF LoadedInit, Labels
  <2>2. holder \in [{"pidlist", "calltable"} -> Threads \cup {NoOne}]
    BY DEF LoadedInit
  <2>3. /\ arg \in [Procs -> [sysc : Syscalls, pid : Procs \cup {AllPids}]]
        /\ table \in [Syscalls -> Row]
    BY <1>1 DEF LoadedInit
  <2>4. sys_call_table \in [Syscalls -> Handlers] /\ hooked \in BOOLEAN
    BY DEF LoadedInit, Handlers
  <2>5. alive \subseteq Procs /\ calls \in [Admins -> 0 .. MaxCalls]
    BY InterceptorAssumption DEF LoadedInit
  <2> QED BY <2>1, <2>2, <2>3, <2>4, <2>5 DEF TypeOK
<1>3. \A t \in Threads : pc[t] \in {"loaded", "user"} /\ t # NoOne
  BY InterceptorAssumption DEF LoadedInit, Threads
<1>4. LockInv
  BY <1>3 DEF LockInv, LoadedInit, HoldsTable, HoldsPids
<1>5. NoDuplicatePid /\ AddInv /\ ScanInv
  BY <1>1, <1>3 DEF NoDuplicatePid, AddInv, ScanInv, LoadedInit, Adding, Scanning,
                    Threads
<1>6. FillInv
  BY <1>3 DEF FillInv, Unfilled, Threads
<1> QED BY <1>2, <1>4, <1>5, <1>6 DEF IInv

(* At the start no call is hooked and none is saved. *)
LEMMA HookInit == Init \/ LoadedInit => HookInv
<1> SUFFICES ASSUME Init \/ LoadedInit PROVE HookInv
  OBVIOUS
<1>1. \A p \in Procs : pc[p] = "user"
  BY InterceptorAssumption DEF Init, LoadedInit, Threads
<1>2. \A s \in Syscalls : /\ table[s].f = "null" /\ table[s].intercepted = 0
                           /\ sys_call_table[s] = "original"
  BY DEF Init, LoadedInit, EmptyRow
<1> QED BY <1>1, <1>2 DEF HookInv, Hooking, Unhooked, Saved, Running

(* The invariant of one root administrator, from the insertion of the      *)
(* module (Spec) or from the module as inserted (FairSpec).                *)
THEOREM HookInvariant ==
  OneRoot /\ (Spec \/ FairSpec) => [](OneRoot /\ IInv /\ FillInv /\ HookInv)
<1> DEFINE I == OneRoot /\ IInv /\ FillInv /\ HookInv
<1>1. OneRoot /\ (Init \/ LoadedInit) => I
  BY InitInvariant, FillInit, LoadedInvariant, HookInit
<1>2. I /\ [Next]_vars => I'
  <2> SUFFICES ASSUME I, [Next]_vars PROVE I'
    OBVIOUS
  <2>1. OneRoot'
    BY DEF OneRoot
  <2>2. IInv' /\ FillInv' /\ HookInv'
    BY NextInvariant, FillNext, HookNext
  <2> QED BY <2>1, <2>2
<1> QED BY <1>1, <1>2, PTL DEF Spec, FairSpec

(* `Original system call' (interceptor.c:63): with one root                *)
(* administrator, and any number of others, a hijacked entry has the       *)
(* original call saved, which init_function leaves null, so interceptor    *)
(* neither calls itself nor the null pointer.                              *)
THEOREM OriginalSaved == OneRoot /\ (Spec \/ FairSpec) => []SavedOriginal
<1>1. HookInv => SavedOriginal
  BY DEF HookInv, SavedOriginal
<1> QED BY <1>1, HookInvariant, PTL

(* With one root administrator a hijacked system call is marked            *)
(* intercepted, so RELEASE (interceptor.c:411) is never refused for it.    *)
THEOREM HijackedMarked == OneRoot /\ (Spec \/ FairSpec) => []HijackedIsMarked
<1>1. HookInv => HijackedIsMarked
  BY DEF HookInv, HijackedIsMarked
<1> QED BY <1>1, HookInvariant, PTL

------------------------------------------------------------------------------
(* The nodes of a list: what adding and unlinking one does to them. *)
LEMMA NodesFacts ==
  ASSUME NEW row, NEW list \in [Procs -> Nat], row.my_list = list
  PROVE  \A x : x \in Nodes(row) <=>
           \E q \in Procs, n \in Nat : x = <<q, n>> /\ 1 <= n /\ n <= list[q]
<1> TAKE x
<1>1. x \in Nodes(row) <=> \E q \in Procs : x \in {q} \X (1 .. list[q])
  BY DEF Nodes
<1>2. ASSUME NEW q \in Procs
      PROVE  x \in {q} \X (1 .. list[q]) <=>
               \E n \in Nat : x = <<q, n>> /\ 1 <= n /\ n <= list[q]
  OBVIOUS
<1> QED BY <1>1, <1>2

(* add_pid_sysc adds one node to the list. *)
LEMMA NodesAdd ==
  ASSUME NEW row, NEW new, NEW list \in [Procs -> Nat], NEW q \in Procs,
         row.my_list = list,
         new.my_list = [list EXCEPT ![q] = list[q] + 1],
         IsFiniteSet(Nodes(row))
  PROVE  /\ IsFiniteSet(Nodes(new))
         /\ Cardinality(Nodes(new)) = Cardinality(Nodes(row)) + 1
<1> DEFINE more == [list EXCEPT ![q] = list[q] + 1]
           x == <<q, list[q] + 1>>
<1>1. more \in [Procs -> Nat] /\ \A u \in Procs : more[u] = IF u = q THEN list[q] + 1 ELSE list[u]
  OBVIOUS
<1>2. x \notin Nodes(row)
  BY NodesFacts
<1>3. Nodes(new) = Nodes(row) \cup {x}
  <2> HIDE DEF more
  <2>1. \A y : y \in Nodes(new) <=>
           \E u \in Procs, n \in Nat : y = <<u, n>> /\ 1 <= n /\ n <= more[u]
    <3>1. new.my_list = more
      BY DEF more
    <3> QED BY <1>1, <3>1, NodesFacts
  <2>2. \A y : y \in Nodes(row) <=>
           \E u \in Procs, n \in Nat : y = <<u, n>> /\ 1 <= n /\ n <= list[u]
    BY NodesFacts
  <2>3. ASSUME NEW u \in Procs, NEW n \in Nat, 1 <= n
        PROVE  n <= more[u] <=> n <= list[u] \/ <<u, n>> = x
    BY <1>1, <2>3
  <2>4. list[q] + 1 \in Nat /\ 1 <= list[q] + 1
    OBVIOUS
  <2> HIDE DEF x
  <2>5. ASSUME NEW y PROVE y \in Nodes(new) => y \in Nodes(row) \cup {x}
    BY <2>1, <2>2, <2>3
  <2>6. ASSUME NEW y PROVE y \in Nodes(row) \cup {x} => y \in Nodes(new)
    BY <2>1, <2>2, <2>3, <2>4 DEF x
  <2> QED BY <2>5, <2>6
<1> HIDE DEF x
<1> QED BY <1>2, <1>3, FS_AddElement

(* del_pid_sysc takes one node away. *)
LEMMA NodesRemove ==
  ASSUME NEW row, NEW new, NEW list \in [Procs -> Nat], NEW q \in Procs,
         row.my_list = list, list[q] > 0,
         new.my_list = [list EXCEPT ![q] = list[q] - 1],
         IsFiniteSet(Nodes(row))
  PROVE  /\ IsFiniteSet(Nodes(new))
         /\ Cardinality(Nodes(new)) = Cardinality(Nodes(row)) - 1
<1> DEFINE less == [list EXCEPT ![q] = list[q] - 1]
           back == [less EXCEPT ![q] = less[q] + 1]
<1>1. less \in [Procs -> Nat] /\ less[q] + 1 = list[q] /\ back = list
  <2>1. /\ list[q] - 1 \in Nat /\ less \in [Procs -> Nat]
        /\ \A u \in Procs : less[u] = IF u = q THEN list[q] - 1 ELSE list[u]
    OBVIOUS
  <2>2. less[q] + 1 = list[q]
    BY <2>1
  <2> HIDE DEF less
  <2>3. \A u \in Procs : back[u] = list[u]
    BY <2>1, <2>2
  <2>4. back \in [Procs -> Nat]
    BY <2>1, <2>2
  <2> QED BY <2>1, <2>2, <2>3, <2>4
<1>2. Nodes(new) \subseteq Nodes(row)
  <2>1. \A u \in Procs : less[u] <= list[u] /\ less[u] \in Nat /\ list[u] \in Nat
    OBVIOUS
  <2> HIDE DEF less
  <2>2. new.my_list = less
    BY DEF less
  <2> HIDE DEF back
  <2>3. \A y : y \in Nodes(new) <=>
           \E u \in Procs, n \in Nat : y = <<u, n>> /\ 1 <= n /\ n <= less[u]
    BY <1>1, <2>2, NodesFacts
  <2>4. \A y : y \in Nodes(row) <=>
           \E u \in Procs, n \in Nat : y = <<u, n>> /\ 1 <= n /\ n <= list[u]
    BY NodesFacts
  <2>5. \A u \in Procs, n \in Nat : n <= less[u] => n <= list[u]
    BY <2>1
  <2> QED BY <2>3, <2>4, <2>5
<1>3. IsFiniteSet(Nodes(new))
  BY <1>2, FS_Subset
<1> HIDE DEF less
<1>4. Cardinality(Nodes(row)) = Cardinality(Nodes(new)) + 1
  BY <1>1, <1>3, NodesAdd DEF less
<1>5. Cardinality(Nodes(new)) \in Nat
  BY <1>3, FS_CardinalityType
<1> QED BY <1>3, <1>4, <1>5

(* The nodes depend on the list only. *)
LEMMA NodesSame ==
  ASSUME NEW row, NEW new, new.my_list = row.my_list
  PROVE  Nodes(new) = Nodes(row)
  BY DEF Nodes

(* destroy_list leaves no node. *)
LEMMA NodesEmpty ==
  ASSUME NEW row, row.my_list = EmptyList
  PROVE  IsFiniteSet(Nodes(row)) /\ Cardinality(Nodes(row)) = 0
<1>1. EmptyList \in [Procs -> Nat] /\ \A q \in Procs : EmptyList[q] = 0
  BY DEF EmptyList
<1>2. Nodes(row) = {}
  BY <1>1, NodesFacts
<1> QED BY <1>2, FS_EmptySet

(* listcount against the list.  destroy_list and the reset of listcount,   *)
(* made under calltable_lock only, can come between an exit's list_del and *)
(* its listcount--: the count is right as long as nobody stops monitoring  *)
(* of all pids.  Then a command always works on a process, ...             *)
NoAllPids == AllPids \notin Targets

Monitoring == {
  "start_pidlist", "start_calltable", "start_check", "start_unlock",
  "start_mark", "start_relock", "start_add", "stop_lock", "stop_check",
  "stop_unlock", "stop_pidlist", "stop_calltable", "stop_find",
  "found_unlock", "stop_flag", "stop_relock", "stop_del" }

Clearing == {"stopall_unlock", "clear_lock", "clear_list", "clear_reset"}

PidInv ==
  \A p \in Procs : /\ pc[p] \in Monitoring => arg[p].pid \in Procs
                   /\ pc[p] \notin Clearing

(* Without commands for all pids, nobody is about to set that flag or to clear a list. *)
LEMMA PidNext ==
  ASSUME NoAllPids, IInv, PidInv, [Next]_vars
  PROVE  PidInv'
<1> SUFFICES ASSUME NEW p \in Procs
             PROVE  /\ pc'[p] \in Monitoring => arg'[p].pid \in Procs
                    /\ pc'[p] \notin Clearing
  BY DEF PidInv
<1>1. /\ p \in Threads /\ pc \in [Threads -> Labels]
      /\ \A b : Goto(p, b) => pc'[p] = b
      /\ arg \in [Procs -> [sysc : Syscalls, pid : Procs \cup {AllPids}]]
  BY DEF IInv, TypeOK, Threads, Goto
<1>2. (pc[p] \in Monitoring => arg[p].pid \in Procs) /\ pc[p] \notin Clearing
  BY DEF PidInv
<1>3. CASE Lock(p) \/ Unlock(p)
  <2>1. PICK k \in LockPoints \cup UnlockPoints : pc[p] = k[1] /\ pc'[p] = k[3]
    BY <1>1, <1>3 DEF Lock, Unlock
  <2>2. (k[3] \in Monitoring => k[1] \in Monitoring)
        /\ (k[3] \in Clearing => k[1] \in Clearing)
    BY DEF LockPoints, UnlockPoints, Monitoring, Clearing
  <2>3. arg' = arg
    BY <1>3 DEF Lock, Unlock, data
  <2> QED BY <1>2, <2>1, <2>2, <2>3
<1>4. CASE Enter(p)
  <2>1. ASSUME NEW cmd \in Cmds, NEW r \in Syscalls, NEW pid \in Targets,
               Call(p, cmd, r, pid)
        PROVE  arg'[p].pid \in Procs /\ pc'[p] \notin Clearing
    <3>1. FirstStep(cmd, pid) \notin Clearing /\ pid \in Procs
      BY InterceptorAssumption DEF FirstStep, Clearing, NoAllPids
    <3>2. arg'[p].pid = pid
      BY <1>1, <2>1 DEF Call
    <3> QED BY <1>1, <2>1, <3>1, <3>2 DEF Call
  <2>2. ASSUME NEW r \in Syscalls, Syscall(p, r)
        PROVE  pc'[p] \notin Monitoring \cup Clearing
    BY <1>1, <2>2 DEF Syscall, Monitoring, Clearing
  <2>3. CASE Exit(p)
    BY <1>1, <2>3 DEF Exit, Monitoring, Clearing
  <2> QED BY <1>4, <2>1, <2>2, <2>3 DEF Enter
<1>5. CASE Starting(p)
  BY <1>1, <1>2, <1>5 DEF Starting, StartCheck, StartMark, StartAdd, StartAll,
     Look, Touch, data, Monitoring, Clearing
<1>6. CASE Stopping(p)
  <2>1. arg[p].pid # AllPids \/ pc[p] # "stop_check"
    BY <1>2, InterceptorAssumption DEF Monitoring
  <2> QED BY <1>1, <1>2, <1>6, <2>1 DEF Stopping, StopCheck, StopFind, StopFlag,
     StopDel, ClearList, ClearReset, Look, Touch, data, Monitoring, Clearing
<1>7. CASE Intercepting(p) \/ Intercepted(p) \/ Exiting(p)
  BY <1>1, <1>7 DEF Intercepting, Intercepted, Exiting, InterceptCheck,
     InterceptSave, InterceptHook, ReleaseCheck, ReleaseRestore, ReleaseClear,
     InterceptorWalk, InterceptorMark, InterceptorCall, ExitUnlink, ExitCount,
     ExitNext, ExitOrig, Look, Monitoring, Clearing
<1> QED BY <1>2, <1>3, <1>4, <1>5, <1>6, <1>7, OthersSteps DEF Step

(* ... and the count is the number of nodes, and one more while an exit is *)
(* between its list_del and its listcount--.                               *)
Unlinked(s) == \E p \in Procs : pc[p] = "exit_count" /\ arg[p].sysc = s

CountInv ==
  \A s \in Syscalls :
    /\ IsFiniteSet(Nodes(table[s]))
    /\ table[s].listcount = Cardinality(Nodes(table[s])) + (IF Unlinked(s) THEN 1 ELSE 0)

(* Only del_pid gets a process to listcount-- and only this away from it. *)
LEMMA CountArrivals ==
  ASSUME IInv, [Next]_vars, NEW p \in Procs, ~ExitUnlink(p), ~ExitCount(p)
  PROVE  /\ pc'[p] = "exit_count" <=> pc[p] = "exit_count"
         /\ pc[p] = "exit_count" => arg'[p] = arg[p]
<1>1. /\ p \in Threads /\ pc \in [Threads -> Labels]
      /\ \A b : Goto(p, b) => pc'[p] = b
  BY DEF IInv, TypeOK, Threads, Goto
<1>2. CASE Lock(p) \/ Unlock(p)
  <2>1. PICK k \in LockPoints \cup UnlockPoints : pc[p] = k[1] /\ pc'[p] = k[3]
    BY <1>1, <1>2 DEF Lock, Unlock
  <2>2. k[3] # "exit_count" /\ k[1] # "exit_count"
    BY DEF LockPoints, UnlockPoints
  <2> QED BY <2>1, <2>2
<1>3. CASE Enter(p)
  <2>1. ASSUME NEW cmd \in Cmds, NEW r \in Syscalls, NEW pid \in Targets,
               Call(p, cmd, r, pid)
        PROVE  pc'[p] # "exit_count" /\ pc[p] # "exit_count"
    <3>1. FirstStep(cmd, pid) # "exit_count"
      BY InterceptorAssumption DEF FirstStep
    <3> QED BY <1>1, <2>1, <3>1 DEF Call
  <2> QED BY <1>1, <1>3, <2>1 DEF Enter, Syscall, Exit
<1>4. CASE Step(p)
  BY <1>1, <1>4 DEF Step, Intercepting, Starting, Stopping, Intercepted, Exiting,
     InterceptCheck, InterceptSave, InterceptHook, ReleaseCheck, ReleaseRestore,
     ReleaseClear, StartCheck, StartMark, StartAdd, StartAll, StopCheck, StopFind,
     StopFlag, StopDel, ClearList, ClearReset, InterceptorWalk, InterceptorMark,
     InterceptorCall, ExitNext, ExitOrig, Look
<1> QED BY <1>2, <1>3, <1>4, OthersSteps

(* Every step that changes a list changes its count by as much. *)
LEMMA CountNext ==
  ASSUME IInv, FillInv, PidInv, CountInv, [Next]_vars
  PROVE  CountInv'
<1> SUFFICES ASSUME NEW s \in Syscalls
             PROVE  /\ IsFiniteSet(Nodes(table'[s]))
                    /\ table'[s].listcount =
                         Cardinality(Nodes(table'[s])) + (IF Unlinked(s)' THEN 1 ELSE 0)
  BY DEF CountInv
<1> DEFINE r == table[s]
           list == table[s].my_list
<1>1. /\ list \in [Procs -> Nat] /\ r.listcount \in Int
      /\ \A p \in Procs : arg[p].sysc \in Syscalls
      /\ pc \in [Threads -> Labels] /\ Procs \subseteq Threads
  BY DEF IInv, TypeOK, Row, Threads
<1>2. /\ IsFiniteSet(Nodes(r)) /\ Cardinality(Nodes(r)) \in Nat
      /\ r.listcount = Cardinality(Nodes(r)) + (IF Unlinked(s) THEN 1 ELSE 0)
  BY FS_CardinalityType DEF CountInv
<1>3. ASSUME NEW p \in Procs, pc[p] \in HoldsPids, NEW q \in Procs, pc[q] \in HoldsPids
      PROVE  p = q
  BY <1>1, <1>3 DEF IInv, LockInv
<1>4. /\ {"start_add", "stop_del", "exit_del", "exit_count"} \subseteq HoldsPids
  BY DEF HoldsPids
<1>5. CASE \A p \in Procs : ~ExitUnlink(p) /\ ~ExitCount(p)
  <2>1. Unlinked(s)' <=> Unlinked(s)
    BY <1>5, CountArrivals DEF Unlinked
  <2>2. CASE table'[s] = r
    BY <1>2, <2>1, <2>2
  <2>3. CASE InitFill
    <3>1. r.listcount = 0 /\ r.my_list = EmptyList
      BY <2>3, FillEffect
    <3>2. table'[s].listcount = 0 /\ table'[s].my_list = EmptyList
      BY <2>3, FillEffect DEF Becomes
    <3>3. ~Unlinked(s)
      BY <1>2, <3>1, NodesEmpty
    <3>4. IsFiniteSet(Nodes(table'[s])) /\ Cardinality(Nodes(table'[s])) = 0
      BY <3>2, NodesEmpty
    <3> QED BY <2>1, <3>2, <3>3, <3>4
  <2>4. ASSUME NEW p \in Procs, Changing(p), arg[p].sysc = s, table'[s] # r
        PROVE  /\ IsFiniteSet(Nodes(table'[s]))
               /\ table'[s].listcount =
                    Cardinality(Nodes(table'[s])) + (IF Unlinked(s)' THEN 1 ELSE 0)
    <3>1. CASE StartAdd(p)
      <4>1. pc[p] = "start_add" /\ ~Unlinked(s)
        BY <1>3, <1>4, <3>1 DEF StartAdd, Unlinked
      <4>2. arg[p].pid \in Procs
        BY <4>1 DEF PidInv, Monitoring
      <4>3. /\ table'[s].my_list = [list EXCEPT ![arg[p].pid] = list[arg[p].pid] + 1]
            /\ table'[s].listcount = r.listcount + 1
        BY <2>4, <3>1, ListEffects DEF Becomes
      <4>4. /\ IsFiniteSet(Nodes(table'[s]))
            /\ Cardinality(Nodes(table'[s])) = Cardinality(Nodes(r)) + 1
        BY <1>1, <1>2, <4>2, <4>3, NodesAdd
      <4> QED BY <1>2, <2>1, <4>1, <4>3, <4>4
    <3>2. CASE StopDel(p)
      <4>1. pc[p] = "stop_del" /\ ~Unlinked(s)
        BY <1>3, <1>4, <3>2 DEF StopDel, Unlinked
      <4>2. arg[p].pid \in Procs
        BY <4>1 DEF PidInv, Monitoring
      <4>3. /\ table'[s].my_list = [list EXCEPT ![arg[p].pid] = list[arg[p].pid] - 1]
            /\ table'[s].listcount = r.listcount - 1 /\ list[arg[p].pid] > 0
        BY <2>4, <3>2, ListEffects DEF Becomes, Listed
      <4>4. /\ IsFiniteSet(Nodes(table'[s]))
            /\ Cardinality(Nodes(table'[s])) = Cardinality(Nodes(r)) - 1
        BY <1>1, <1>2, <4>2, <4>3, NodesRemove
      <4> QED BY <1>2, <2>1, <4>1, <4>3, <4>4
    <3>3. ~ClearList(p) /\ ~ClearReset(p)
      BY DEF ClearList, ClearReset, PidInv, Clearing
    <3>4. CASE InterceptSave(p) \/ ReleaseClear(p) \/ InterceptorMark(p) \/ StartMark(p)
               \/ StartAll(p) \/ StopFlag(p)
      <4>1. table'[s].my_list = r.my_list /\ table'[s].listcount = r.listcount
        BY <2>4, <3>4, RowEffects DEF Becomes
      <4>2. Nodes(table'[s]) = Nodes(r)
        BY <4>1, NodesSame
      <4> QED BY <1>2, <2>1, <4>1, <4>2
    <3> QED BY <1>5, <2>4, <3>1, <3>2, <3>3, <3>4 DEF Changing
  <2> QED BY <2>2, <2>3, <2>4, RowChange, OtherRows
<1>6. ASSUME NEW p \in Procs, ExitUnlink(p)
      PROVE  /\ IsFiniteSet(Nodes(table'[s]))
             /\ table'[s].listcount =
                  Cardinality(Nodes(table'[s])) + (IF Unlinked(s)' THEN 1 ELSE 0)
  <2>1. pc[p] = "exit_del" /\ arg' = arg
    BY <1>6 DEF ExitUnlink
  <2>2. \A q \in Procs : q # p => pc[q] # "exit_count" /\ ~ExitUnlink(q) /\ ~ExitCount(q)
    BY <1>3, <1>4, <2>1 DEF ExitUnlink, ExitCount
  <2>3. ~Unlinked(s)
    BY <2>1, <2>2 DEF Unlinked
  <2>4. Unlinked(s)' <=> pc'[p] = "exit_count" /\ arg[p].sysc = s
    BY <2>1, <2>2, CountArrivals DEF Unlinked
  <2>5. CASE pc'[p] # "exit_count" /\ table'[s] = r
    BY <1>2, <2>3, <2>4, <2>5
  <2>6. CASE arg[p].sysc # s
    <3>1. table'[s] = r
      BY <1>6, <2>6, OtherRows DEF Changing
    <3> QED BY <1>2, <2>3, <2>4, <2>6, <3>1
  <2>7. CASE /\ arg[p].sysc = s /\ table' = [table EXCEPT ![s].my_list[p] = 0]
             /\ pc'[p] = IF Listed(p, r) THEN "exit_count" ELSE "exit_next"
    <3>1. /\ table'[s].my_list = [list EXCEPT ![p] = 0]
          /\ table'[s].listcount = r.listcount
      <4>1. table'[s] = [r EXCEPT !.my_list = [list EXCEPT ![p] = 0]]
        BY <2>7 DEF IInv, TypeOK
      <4> QED BY <4>1 DEF IInv, TypeOK, Row
    <3>2. list[p] \in {0, 1}
      <4>1. list[p] \in Nat /\ list[p] <= 1
        BY <1>1 DEF IInv, NoDuplicatePid
      <4>2. \A n \in Nat : n <= 1 => n \in {0, 1}
        OBVIOUS
      <4> QED BY <4>1, <4>2
    <3>3. CASE list[p] = 1
      <4>1. Unlinked(s)'
        BY <2>4, <2>7, <3>3 DEF Listed
      <4>2. table'[s].my_list = [list EXCEPT ![p] = list[p] - 1]
        BY <3>1, <3>3
      <4>3. /\ IsFiniteSet(Nodes(table'[s]))
            /\ Cardinality(Nodes(table'[s])) = Cardinality(Nodes(r)) - 1
        BY <1>1, <1>2, <3>3, <4>2, NodesRemove
      <4> QED BY <1>2, <2>3, <3>1, <4>1, <4>3
    <3>4. CASE list[p] = 0
      <4>1. ~Unlinked(s)'
        BY <2>4, <2>7, <3>4 DEF Listed
      <4>2. table'[s].my_list = r.my_list
        BY <1>1, <3>1, <3>4
      <4>3. Nodes(table'[s]) = Nodes(r)
        BY <4>2, NodesSame
      <4> QED BY <1>2, <2>3, <3>1, <4>1, <4>3
    <3> QED BY <3>2, <3>3, <3>4
  <2>8. \/ pc'[p] # "exit_count" /\ table' = table
        \/ /\ table' = [table EXCEPT ![arg[p].sysc].my_list[p] = 0]
           /\ pc'[p] = IF Listed(p, table[arg[p].sysc]) THEN "exit_count" ELSE "exit_next"
    BY <1>1, <1>6 DEF ExitUnlink, Goto, Mine
  <2> QED BY <2>5, <2>6, <2>7, <2>8
<1>7. ASSUME NEW p \in Procs, ExitCount(p)
      PROVE  /\ IsFiniteSet(Nodes(table'[s]))
             /\ table'[s].listcount =
                  Cardinality(Nodes(table'[s])) + (IF Unlinked(s)' THEN 1 ELSE 0)
  <2>1. pc[p] = "exit_count" /\ arg' = arg /\ pc'[p] = "exit_next"
    BY <1>1, <1>7 DEF ExitCount, Touch, Goto
  <2>2. \A q \in Procs : q # p => pc[q] # "exit_count" /\ ~ExitUnlink(q) /\ ~ExitCount(q)
    BY <1>3, <1>4, <2>1 DEF ExitUnlink, ExitCount
  <2>3. ~Unlinked(s)' /\ (Unlinked(s) <=> arg[p].sysc = s)
    BY <2>1, <2>2, CountArrivals DEF Unlinked
  <2>4. CASE arg[p].sysc # s
    <3>1. table'[s] = r
      BY <1>7, <2>4, OtherRows DEF Changing
    <3> QED BY <1>2, <2>3, <2>4, <3>1
  <2>5. CASE arg[p].sysc = s
    <3>1. table'[s].my_list = r.my_list /\ table'[s].listcount = r.listcount - 1
      BY <1>7, <2>5, RowEffects DEF Becomes
    <3>2. Nodes(table'[s]) = Nodes(r)
      BY <3>1, NodesSame
    <3> QED BY <1>2, <2>3, <2>5, <3>1, <3>2
  <2> QED BY <2>4, <2>5
<1> QED BY <1>5, <1>6, <1>7

(* While nobody asks for monitoring of all pids, listcount is the length   *)
(* of the list outside del_pid's loop, so del_pid_sysc and del_pid         *)
(* (interceptor.c:139, 165) end monitoring with the last pid, not before.  *)
THEOREM CountsMatch == NoAllPids /\ Spec => []CountMatchesList
<1> DEFINE I == NoAllPids /\ IInv /\ FillInv /\ PidInv /\ CountInv
<1>1. NoAllPids /\ Init => I
  <2> SUFFICES ASSUME NoAllPids, Init PROVE PidInv /\ CountInv
    BY InitInvariant, FillInit
  <2>1. \A p \in Procs : pc[p] = "user"
    BY InterceptorAssumption DEF Init, Threads
  <2>2. \A s \in Syscalls : table[s].my_list = EmptyList /\ table[s].listcount = 0
    BY DEF Init, EmptyRow
  <2>3. PidInv
    BY <2>1 DEF PidInv, Monitoring, Clearing
  <2>4. CountInv
    BY <2>1, <2>2, NodesEmpty DEF CountInv, Unlinked
  <2> QED BY <2>3, <2>4
<1>2. I /\ [Next]_vars => I'
  <2> SUFFICES ASSUME I, [Next]_vars PROVE I'
    OBVIOUS
  <2>1. NoAllPids'
    BY DEF NoAllPids
  <2>2. IInv' /\ FillInv' /\ PidInv' /\ CountInv'
    BY NextInvariant, FillNext, PidNext, CountNext
  <2> QED BY <2>1, <2>2
<1>3. I => CountMatchesList
  <2> SUFFICES ASSUME I, NEW s \in Syscalls,
                      \A p \in Procs : pc[p] = "exit_count" => arg[p].sysc # s
               PROVE  table[s].listcount = Cardinality(Nodes(table[s]))
    BY DEF CountMatchesList
  <2>1. ~Unlinked(s) /\ Cardinality(Nodes(table[s])) \in Nat
    BY FS_CardinalityType DEF Unlinked, CountInv
  <2> QED BY <2>1 DEF CountInv
<1> QED BY <1>1, <1>2, <1>3, PTL DEF Spec
==============================================================================
