----------------------------- MODULE Interceptor -----------------------------
(***************************************************************************)
(* The kernel module of Assignment1 (interceptor.c): my_syscall with its   *)
(* four commands, interceptor, my_exit_group, init_function and            *)
(* exit_function, run by concurrent processes on several processors.       *)
(*                                                                         *)
(* A step is a lock operation or the accesses made between two of them;    *)
(* accesses made under no lock, or that a thread without the same lock can *)
(* come between, are steps of their own.  pc names where a thread is.      *)
(***************************************************************************)
EXTENDS Integers, FiniteSets

CONSTANTS Procs,      \* the processes, named by their pids
          Loader,     \* the thread that inserts and removes the module
          NoOne,      \* owner of a free lock
          AllPids,    \* pid argument 0
          Users,      \* owners of processes other than root
          uid,        \* owner of each process
          root,       \* uid 0
          NR,         \* NR_syscalls: my_syscall accepts 1 .. NR
          Admins,     \* processes that call my_syscall
          Cmds,       \* commands they use
          Targets,    \* pid arguments they use
          MaxCalls,   \* bound: calls of my_syscall by each of them
          Unloads     \* whether the module is removed again

ASSUME InterceptorAssumption ==
  /\ Loader \notin Procs /\ NoOne \notin Procs \cup {Loader}
  /\ AllPids \notin Procs
  /\ uid \in [Procs -> Users \cup {root}]
  /\ NR \in Nat \ {0}
  /\ Admins \subseteq Procs
  /\ Cmds \subseteq {"INTERCEPT", "RELEASE", "START", "STOP"}
  /\ Targets \subseteq Procs \cup {AllPids}
  /\ MaxCalls \in Nat
  /\ Unloads \in BOOLEAN

VARIABLES
  pc,              \* where each thread is
  arg,             \* the system call and pid each process is working on
  holder,          \* owner of each spinlock
  table,           \* what the module knows of each system call
  sys_call_table,  \* what a system call runs, as the field f of a row
  hooked,          \* my_syscall and my_exit_group are installed
  alive,           \* processes that have not gone through orig_exit_group
  calls            \* calls of my_syscall made so far

vars == <<pc, arg, holder, table, sys_call_table, hooked, alive, calls>>

Threads  == Procs \cup {Loader}
Syscalls == 1 .. NR
Handlers == {"null", "original", "interceptor"}
Row == [f : Handlers, intercepted : {0, 1}, monitored : {0, 1, 2},
        listcount : Int, my_list : [Procs -> Nat]]

(* A pid list is the number of its nodes that hold each pid: nothing in    *)
(* the code depends on their order.                                        *)
EmptyList == [q \in Procs |-> 0]
Listed(pid, row) == row.my_list[pid] > 0

(* The nodes of a list: the first, second, ... one that holds a pid. *)
Nodes(row) == UNION {{q} \X (1 .. row.my_list[q]) : q \in Procs}

(* A row of the table as init_function leaves it: the line that would save *)
(* the original call is commented out, so f is the null pointer of static  *)
(* memory until INTERCEPT sets it.                                         *)
EmptyRow == [f |-> "null", intercepted |-> 0, monitored |-> 0,
             listcount |-> 0, my_list |-> EmptyList]

Init ==
  /\ pc = [t \in Threads |-> IF t = Loader THEN "absent" ELSE "user"]
  /\ arg = [p \in Procs |-> [sysc |-> 1, pid |-> AllPids]]
  /\ holder = [l \in {"pidlist", "calltable"} |-> NoOne]
  /\ table = [s \in Syscalls |-> EmptyRow]
  /\ sys_call_table = [s \in Syscalls |-> "original"]
  /\ hooked = FALSE
  /\ alive = Procs
  /\ calls = [p \in Admins |-> 0]

------------------------------------------------------------------------------
(* The lock operations: where, which lock, and where to go on. *)
LockPoints == {
  <<"intercept_lock", "calltable", "intercept_save">>,
  <<"release_lock",   "calltable", "release_restore">>,
  <<"start_pidlist",  "pidlist",   "start_calltable">>,
  <<"start_calltable","calltable", "start_check">>,
  <<"start_relock",   "pidlist",   "start_add">>,
  <<"all_lock",       "calltable", "all_mark">>,
  <<"stop_lock",      "calltable", "stop_check">>,
  <<"stop_pidlist",   "pidlist",   "stop_calltable">>,
  <<"stop_calltable", "calltable", "stop_find">>,
  <<"stop_relock",    "pidlist",   "stop_del">>,
  <<"clear_lock",     "calltable", "clear_list">>,
  <<"exit_lock",      "pidlist",   "exit_del">>,
  <<"init_lock",      "calltable", "init_hook">>,
  <<"init_pidlist",   "pidlist",   "init_fill">>,
  <<"fini_lock",      "calltable", "fini_scan">>,
  <<"fini_release",   "calltable", "fini_scan">> }

UnlockPoints == {
  <<"call_unlock",    "calltable", "user">>,
  <<"both_unlock",    "calltable", "pid_unlock">>,
  <<"pid_unlock",     "pidlist",   "user">>,
  <<"start_unlock",   "pidlist",   "start_mark">>,
  <<"added_unlock",   "pidlist",   "call_unlock">>,
  <<"stop_unlock",    "calltable", "stop_pidlist">>,
  <<"stopall_unlock", "calltable", "clear_lock">>,
  <<"found_unlock",   "pidlist",   "stop_flag">>,
  <<"exit_unlock",    "pidlist",   "exit_orig">>,
  <<"init_unlock1",   "pidlist",   "init_unlock2">>,
  <<"init_unlock2",   "calltable", "loaded">>,
  <<"fini_unlock",    "calltable", "unloaded">> }

(* The places a thread can be at. *)
Labels == {
  "absent", "loaded", "unloaded", "user", "dead",
  "intercept_lock", "intercept_save", "intercept_check", "intercept_hook",
  "release_lock", "release_restore", "release_check", "release_clear",
  "start_pidlist", "start_calltable", "start_check", "start_relock",
  "start_add", "start_unlock", "start_mark",
  "all_lock", "all_mark",
  "stop_lock", "stop_check", "stop_pidlist", "stop_calltable", "stop_find",
  "stop_relock", "stop_del", "stop_unlock", "stopall_unlock", "stop_flag",
  "clear_lock", "clear_list", "clear_reset",
  "interceptor_walk", "interceptor_mark", "interceptor_call",
  "exit_lock", "exit_del", "exit_unlock", "exit_orig", "exit_count",
  "exit_next",
  "init_lock", "init_hook", "init_pidlist", "init_fill", "init_unlock1",
  "init_unlock2",
  "fini_lock", "fini_scan", "fini_release", "fini_unlock", "fini_restore",
  "call_unlock", "both_unlock", "pid_unlock", "added_unlock", "found_unlock" }

data == <<arg, table, sys_call_table, hooked, alive, calls>>

Goto(t, label) == pc' = [pc EXCEPT ![t] = label]

Lock(t) ==
  \E k \in LockPoints :
    /\ pc[t] = k[1]
    /\ holder[k[2]] = NoOne
    /\ holder' = [holder EXCEPT ![k[2]] = t]
    /\ Goto(t, k[3])
    /\ UNCHANGED data

Unlock(t) ==
  \E k \in UnlockPoints :
    /\ pc[t] = k[1]
    /\ holder' = [holder EXCEPT ![k[2]] = NoOne]
    /\ Goto(t, k[3])
    /\ UNCHANGED data

(* A step that touches the row of the call the process works on, and none  *)
(* of the other variables but the system call table. *)
Touch(p, row) ==
  /\ table' = [table EXCEPT ![arg[p].sysc] = row]
  /\ UNCHANGED <<arg, holder, hooked, alive, calls>>

Look(p, label) == Goto(p, label) /\ UNCHANGED <<data, holder>>

Mine(p) == table[arg[p].sysc]

------------------------------------------------------------------------------
(* The checks my_syscall makes first: the pid of a monitoring command must *)
(* exist, and only root may intercept, release, or name all pids or a      *)
(* process of another owner.  A call that fails them changes nothing.      *)
Permitted(p, cmd, pid) ==
  IF cmd \in {"INTERCEPT", "RELEASE"}
  THEN uid[p] = root
  ELSE /\ pid \in alive \cup {AllPids}
       /\ uid[p] # root => pid # AllPids /\ uid[pid] = uid[p]

FirstStep(cmd, pid) ==
  CASE cmd = "INTERCEPT" -> "intercept_check"
    [] cmd = "RELEASE"   -> "release_check"
    [] cmd = "START"     -> IF pid = AllPids THEN "all_lock" ELSE "start_pidlist"
    [] cmd = "STOP"      -> "stop_lock"

Call(p, cmd, s, pid) ==
  /\ pc[p] = "user" /\ hooked
  /\ p \in Admins /\ calls[p] < MaxCalls
  /\ Permitted(p, cmd, pid)
  /\ calls' = [calls EXCEPT ![p] = @ + 1]
  /\ arg' = [arg EXCEPT ![p] = [sysc |-> s, pid |-> pid]]
  /\ Goto(p, FirstStep(cmd, pid))
  /\ UNCHANGED <<holder, table, sys_call_table, hooked, alive>>

(* REQUEST_SYSCALL_INTERCEPT: the test of `intercepted' comes before the   *)
(* lock is taken.                                                          *)
InterceptCheck(p) ==
  /\ pc[p] = "intercept_check"
  /\ Look(p, IF Mine(p).intercepted = 1 THEN "user" ELSE "intercept_lock")

(* Mutated forms: the original call is not saved; the flag is left to      *)
(* interceptor.                                                            *)
SaveForgotten(p) ==
  /\ pc[p] = "intercept_save"
  /\ Touch(p, [Mine(p) EXCEPT !.intercepted = 1])
  /\ Goto(p, "intercept_hook")
  /\ UNCHANGED sys_call_table
SaveUnmarked(p) ==
  /\ pc[p] = "intercept_save"
  /\ Touch(p, [Mine(p) EXCEPT !.f = sys_call_table[arg[p].sysc]])
  /\ Goto(p, "intercept_hook")
  /\ UNCHANGED sys_call_table

InterceptSave(p) ==
  /\ pc[p] = "intercept_save"
  /\ Touch(p, [Mine(p) EXCEPT !.f = sys_call_table[arg[p].sysc],
                              !.intercepted = 1])
  /\ Goto(p, "intercept_hook")
  /\ UNCHANGED sys_call_table

InterceptHook(p) ==
  /\ pc[p] = "intercept_hook"
  /\ sys_call_table' = [sys_call_table EXCEPT ![arg[p].sysc] = "interceptor"]
  /\ Goto(p, "call_unlock")
  /\ UNCHANGED <<arg, holder, table, hooked, alive, calls>>

(* REQUEST_SYSCALL_RELEASE: again tested before the lock. *)
ReleaseCheck(p) ==
  /\ pc[p] = "release_check"
  /\ Look(p, IF Mine(p).intercepted = 0 THEN "user" ELSE "release_lock")

ReleaseRestore(p) ==
  /\ pc[p] = "release_restore"
  /\ sys_call_table' = [sys_call_table EXCEPT ![arg[p].sysc] = Mine(p).f]
  /\ Goto(p, "release_clear")
  /\ UNCHANGED <<arg, holder, table, hooked, alive, calls>>

ReleaseClear(p) ==
  /\ pc[p] = "release_clear"
  /\ Touch(p, [Mine(p) EXCEPT !.intercepted = 0])
  /\ Goto(p, "call_unlock")
  /\ UNCHANGED sys_call_table

Intercepting(p) ==
  \/ InterceptCheck(p) \/ InterceptSave(p) \/ InterceptHook(p)
  \/ ReleaseCheck(p) \/ ReleaseRestore(p) \/ ReleaseClear(p)

------------------------------------------------------------------------------
(* Mutated forms: -EBUSY is returned with the table still locked; the pid  *)
(* is not looked for.                                                      *)
BusyKeepsTable(p) ==
  /\ pc[p] = "start_check"
  /\ Look(p, IF Listed(arg[p].pid, Mine(p))
             THEN "pid_unlock" ELSE "start_unlock")

StartUnchecked(p) == pc[p] = "start_check" /\ Look(p, "start_unlock")

(* REQUEST_START_MONITORING of one pid.  The pid list is let go of, and    *)
(* taken again, while the table stays locked.                              *)
StartCheck(p) ==
  /\ pc[p] = "start_check"
  /\ Look(p, IF Listed(arg[p].pid, Mine(p))
             THEN "both_unlock" ELSE "start_unlock")

(* Mutated forms: the flag counts the calls; the list is not locked again. *)
NotRelocked(p) ==
  /\ pc[p] = "start_mark"
  /\ Touch(p, [Mine(p) EXCEPT !.monitored = IF @ = 0 THEN 1 ELSE @])
  /\ Goto(p, "start_add")
  /\ UNCHANGED sys_call_table
MarkOneMore(p) ==
  /\ pc[p] = "start_mark"
  /\ Touch(p, [Mine(p) EXCEPT !.monitored = @ + 1])
  /\ Goto(p, "start_relock")
  /\ UNCHANGED sys_call_table

StartMark(p) ==
  /\ pc[p] = "start_mark"
  /\ Touch(p, [Mine(p) EXCEPT !.monitored = IF @ = 0 THEN 1 ELSE @])
  /\ Goto(p, "start_relock")
  /\ UNCHANGED sys_call_table

(* What add_pid_sysc does to a row. *)
Added(row, pid) == [row EXCEPT !.my_list[pid] = @ + 1, !.listcount = @ + 1]

(* add_pid_sysc; the first disjunct is a kmalloc that fails (-ENOMEM). *)
StartAdd(p) ==
  /\ pc[p] = "start_add"
  /\ \/ UNCHANGED table
     \/ table' = [table EXCEPT ![arg[p].sysc] = Added(Mine(p), arg[p].pid)]
  /\ Goto(p, "added_unlock")
  /\ UNCHANGED <<arg, holder, sys_call_table, hooked, alive, calls>>

(* REQUEST_START_MONITORING of all pids. *)
StartAll(p) ==
  /\ pc[p] = "all_mark"
  /\ Touch(p, [Mine(p) EXCEPT !.monitored = IF @ = 0 THEN 2 ELSE @])
  /\ Goto(p, "call_unlock")
  /\ UNCHANGED sys_call_table

Starting(p) == StartCheck(p) \/ StartMark(p) \/ StartAdd(p) \/ StartAll(p)

(* REQUEST_STOP_MONITORING: the system call must be intercepted, but the   *)
(* table is unlocked again before the rest of the command.                 *)
StopCheck(p) ==
  /\ pc[p] = "stop_check"
  /\ Look(p, IF Mine(p).intercepted = 0 THEN "call_unlock"
             ELSE IF arg[p].pid = AllPids THEN "stopall_unlock"
             ELSE "stop_unlock")

StopFind(p) ==
  /\ pc[p] = "stop_find"
  /\ Look(p, IF Listed(arg[p].pid, Mine(p))
             THEN "found_unlock" ELSE "both_unlock")

StopFlag(p) ==
  /\ pc[p] = "stop_flag"
  /\ Touch(p, [Mine(p) EXCEPT !.monitored = IF @ = 2 THEN 1 ELSE 0])
  /\ Goto(p, "stop_relock")
  /\ UNCHANGED sys_call_table

(* Mutated form: an empty list ends the monitoring of all pids too. *)
UncountedAlways(row, n) ==
  [row EXCEPT !.listcount = @ - n,
              !.monitored = IF row.listcount = n THEN 0 ELSE @]

(* What del_pid_sysc and del_pid do to a row once n nodes were unlinked. *)
Uncounted(row, n) ==
  [row EXCEPT !.listcount = @ - n,
              !.monitored = IF row.listcount = n /\ @ = 1 THEN 0 ELSE @]

(* Mutated form: the pid is counted out whether or not it was found. *)
DelCountsAnyway(p) ==
  /\ pc[p] = "stop_del"
  /\ Touch(p, IF Listed(arg[p].pid, Mine(p))
              THEN Uncounted([Mine(p) EXCEPT !.my_list[arg[p].pid] = @ - 1], 1)
              ELSE Uncounted(Mine(p), 1))
  /\ Goto(p, "both_unlock")
  /\ UNCHANGED sys_call_table

(* del_pid_sysc, which finds nothing when the process exited meanwhile. *)
StopDel(p) ==
  /\ pc[p] = "stop_del"
  /\ Touch(p, IF Listed(arg[p].pid, Mine(p))
              THEN Uncounted([Mine(p) EXCEPT !.my_list[arg[p].pid] = @ - 1], 1)
              ELSE Mine(p))
  /\ Goto(p, "both_unlock")
  /\ UNCHANGED sys_call_table

(* REQUEST_STOP_MONITORING of all pids: destroy_list, with the table       *)
(* locked and the pid lists not.                                           *)
ClearList(p) ==
  /\ pc[p] = "clear_list"
  /\ IF Mine(p).monitored = 2
     THEN Touch(p, [Mine(p) EXCEPT !.my_list = EmptyList]) /\ Goto(p, "clear_reset")
     ELSE UNCHANGED <<table, arg, holder, hooked, alive, calls>>
          /\ Goto(p, "call_unlock")
  /\ UNCHANGED sys_call_table

ClearReset(p) ==
  /\ pc[p] = "clear_reset"
  /\ Touch(p, [Mine(p) EXCEPT !.listcount = 0, !.monitored = 0])
  /\ Goto(p, "call_unlock")
  /\ UNCHANGED sys_call_table

Stopping(p) ==
  \/ StopCheck(p) \/ StopFind(p) \/ StopFlag(p) \/ StopDel(p)
  \/ ClearList(p) \/ ClearReset(p)

------------------------------------------------------------------------------
(* interceptor: what an intercepted system call runs.  It walks the pid    *)
(* list and sets `intercepted' without a lock, then calls the saved call.  *)
Syscall(p, s) ==
  /\ pc[p] = "user"
  /\ sys_call_table[s] = "interceptor"
  /\ arg' = [arg EXCEPT ![p] = [sysc |-> s, pid |-> AllPids]]
  /\ Goto(p, "interceptor_walk")
  /\ UNCHANGED <<holder, table, sys_call_table, hooked, alive, calls>>

InterceptorWalk(p) ==
  /\ pc[p] = "interceptor_walk"
  /\ Look(p, "interceptor_mark")

InterceptorMark(p) ==
  /\ pc[p] = "interceptor_mark"
  /\ Touch(p, [Mine(p) EXCEPT !.intercepted = 1])
  /\ Goto(p, "interceptor_call")
  /\ UNCHANGED sys_call_table

(* The saved call: back to the process, or interceptor once more; a call   *)
(* through the null pointer kills the process.                             *)
InterceptorCall(p) ==
  /\ pc[p] = "interceptor_call"
  /\ Goto(p, IF Mine(p).f = "interceptor" THEN "interceptor_walk"
             ELSE IF Mine(p).f = "original" THEN "user" ELSE "dead")
  /\ alive' = IF Mine(p).f = "null" THEN alive \ {p} ELSE alive
  /\ UNCHANGED <<arg, holder, table, sys_call_table, hooked, calls>>

Intercepted(p) == InterceptorWalk(p) \/ InterceptorMark(p) \/ InterceptorCall(p)

(* my_exit_group, or the original one while the module is not installed.   *)
Exit(p) ==
  /\ pc[p] = "user"
  /\ IF hooked
     THEN arg' = [arg EXCEPT ![p] = [sysc |-> 1, pid |-> p]]
          /\ Goto(p, "exit_lock") /\ UNCHANGED alive
     ELSE alive' = alive \ {p} /\ Goto(p, "dead") /\ UNCHANGED arg
  /\ UNCHANGED <<holder, table, sys_call_table, hooked, calls>>

(* Mutated form: the scan stops one row earlier. *)
ScannedShort(s) == s < NR - 1

(* del_pid goes through the lists of 1 .. NR_syscalls - 1. *)
Scanned(s) == s < NR

(* The next row of del_pid's loop: unlink the pid, then count it out.      *)
(* list heads that init_function has not set yet are null pointers: the    *)
(* process dies here, with the lock.                                       *)
ExitUnlink(p) ==
  /\ pc[p] = "exit_del"
  /\ IF pc[Loader] \in {"init_hook", "init_pidlist", "init_fill"}
     THEN alive' = alive \ {p} /\ Goto(p, "dead") /\ UNCHANGED table
     ELSE /\ UNCHANGED alive
          /\ IF ~Scanned(arg[p].sysc)
             THEN Goto(p, "exit_unlock") /\ UNCHANGED table
             ELSE /\ table' = [table EXCEPT ![arg[p].sysc].my_list[p] = 0]
                  /\ Goto(p, IF Listed(p, Mine(p)) THEN "exit_count" ELSE "exit_next")
  /\ UNCHANGED <<arg, holder, sys_call_table, hooked, calls>>

(* The node is counted out; NoDuplicatePid says that there was only one.   *)
ExitCount(p) ==
  /\ pc[p] = "exit_count"
  /\ Touch(p, Uncounted(Mine(p), 1))
  /\ Goto(p, "exit_next")
  /\ UNCHANGED sys_call_table

ExitNext(p) ==
  /\ pc[p] = "exit_next"
  /\ arg' = [arg EXCEPT ![p].sysc = @ + 1]
  /\ Goto(p, "exit_del")
  /\ UNCHANGED <<holder, table, sys_call_table, hooked, alive, calls>>

ExitOrig(p) ==
  /\ pc[p] = "exit_orig"
  /\ alive' = alive \ {p}
  /\ Goto(p, "dead")
  /\ UNCHANGED <<arg, holder, table, sys_call_table, hooked, calls>>

Exiting(p) == ExitUnlink(p) \/ ExitCount(p) \/ ExitNext(p) \/ ExitOrig(p)

------------------------------------------------------------------------------
(* init_function hooks the two entries before it has filled the table. *)
Load ==
  /\ pc[Loader] = "absent"
  /\ Look(Loader, "init_lock")

(* Mutated form: the table is let go of before it is filled. *)
HookUnlocked ==
  /\ pc[Loader] = "init_hook"
  /\ hooked' = TRUE
  /\ Goto(Loader, "init_pidlist")
  /\ holder' = [holder EXCEPT !["calltable"] = NoOne]
  /\ UNCHANGED <<arg, table, sys_call_table, alive, calls>>

InitHook ==
  /\ pc[Loader] = "init_hook"
  /\ hooked' = TRUE
  /\ Goto(Loader, "init_pidlist")
  /\ UNCHANGED <<arg, holder, table, sys_call_table, alive, calls>>

InitFill ==
  /\ pc[Loader] = "init_fill"
  /\ table' = [s \in Syscalls |->
                 [table[s] EXCEPT !.intercepted = 0, !.monitored = 0,
                                  !.listcount = 0, !.my_list = EmptyList]]
  /\ Goto(Loader, "init_unlock1")
  /\ UNCHANGED <<arg, holder, sys_call_table, hooked, alive, calls>>

(* exit_function goes through 0 .. NR_syscalls - 1 and calls my_syscall to *)
(* release what is intercepted, with the table locked.                     *)
Unload ==
  /\ pc[Loader] = "loaded" /\ Unloads
  /\ Look(Loader, "fini_lock")

(* Mutated form: every system call is released. *)
ReleaseEvery ==
  /\ pc[Loader] = "fini_scan"
  /\ Look(Loader, IF \E s \in Syscalls : s < NR THEN "fini_release" ELSE "fini_restore")

FiniScan ==
  /\ pc[Loader] = "fini_scan"
  /\ Look(Loader, IF \E s \in Syscalls : s < NR /\ table[s].intercepted = 1
                  THEN "fini_release" ELSE "fini_restore")

FiniRestore ==
  /\ pc[Loader] = "fini_restore"
  /\ hooked' = FALSE
  /\ Goto(Loader, "fini_unlock")
  /\ UNCHANGED <<arg, holder, table, sys_call_table, alive, calls>>

Loading == Load \/ InitHook \/ InitFill \/ Unload \/ FiniScan \/ FiniRestore

------------------------------------------------------------------------------
(* What a thread does once it is inside the module. *)
Step(p) ==
  Intercepting(p) \/ Starting(p) \/ Stopping(p) \/ Intercepted(p) \/ Exiting(p)

Enter(p) ==
  \/ \E cmd \in Cmds, s \in Syscalls, pid \in Targets : Call(p, cmd, s, pid)
  \/ \E s \in Syscalls : Syscall(p, s)
  \/ Exit(p)

Next ==
  \/ \E t \in Threads : Lock(t) \/ Unlock(t)
  \/ \E p \in Procs : Enter(p) \/ Step(p)
  \/ Loading

Spec == Init /\ [][Next]_vars

(* The module as init_function leaves it. *)
LoadedInit ==
  /\ pc = [t \in Threads |-> IF t = Loader THEN "loaded" ELSE "user"]
  /\ arg = [p \in Procs |-> [sysc |-> 1, pid |-> AllPids]]
  /\ holder = [l \in {"pidlist", "calltable"} |-> NoOne]
  /\ table = [s \in Syscalls |-> EmptyRow]
  /\ sys_call_table = [s \in Syscalls |-> "original"]
  /\ hooked = TRUE
  /\ alive = Procs
  /\ calls = [p \in Admins |-> 0]

(* A processor never stops executing its thread: every step inside the     *)
(* module, taking a free spinlock included, is eventually made.  Nothing   *)
(* obliges a process to make a call, nor the module to be removed.         *)
Fairness ==
  /\ \A p \in Procs : WF_vars(Lock(p)) /\ WF_vars(Unlock(p) \/ Step(p))
  /\ WF_vars(Lock(Loader))
  /\ WF_vars(Unlock(Loader) \/ InitHook \/ InitFill \/ FiniScan \/ FiniRestore)

FairSpec == LoadedInit /\ [][Next]_vars /\ Fairness

------------------------------------------------------------------------------
(* Type correctness: the flags of a row of the table stay in the ranges of *)
(* the comments (interceptor.c:66-72) whatever my_syscall, interceptor and *)
(* my_exit_group interleave, and every thread is at a place of the code.   *)
TypeOK ==
  /\ pc \in [Threads -> Labels]
  /\ arg \in [Procs -> [sysc : Syscalls, pid : Procs \cup {AllPids}]]
  /\ holder \in [{"pidlist", "calltable"} -> Threads \cup {NoOne}]
  /\ table \in [Syscalls -> Row]
  /\ sys_call_table \in [Syscalls -> Handlers]
  /\ hooked \in BOOLEAN
  /\ alive \subseteq Procs
  /\ calls \in [Admins -> 0 .. MaxCalls]

(* my_syscall's comment (interceptor.c:347): no path out of the module,    *)
(* the error returns included, leaves a spinlock held.                     *)
ReturnsUnlocked ==
  \A t \in Threads : pc[t] \in {"user", "loaded", "unloaded"} =>
    \A l \in {"pidlist", "calltable"} : holder[l] # t

(* A pid is in a list at most once, so that del_pid_sysc, which removes    *)
(* the first node it finds, leaves none behind.  START tests for the pid   *)
(* and adds it in two holdings of pidlist_lock.                            *)
NoDuplicatePid ==
  \A s \in Syscalls, q \in Procs : table[s].my_list[q] <= 1

(* listcount is the length of the list whenever no process is between      *)
(* list_del and listcount-- in del_pid; when it is not, del_pid_sysc stops *)
(* monitoring at the wrong time.                                           *)
CountMatchesList ==
  \A s \in Syscalls :
    (\A p \in Procs : pc[p] = "exit_count" => arg[p].sysc # s) =>
      table[s].listcount = Cardinality(Nodes(table[s]))

(* When my_exit_group lets go of the lists, the process is in none of the  *)
(* lists del_pid scans, whatever START and STOP did meanwhile.             *)
ExitCleansLists ==
  \A p \in Procs : pc[p] = "exit_unlock" =>
    \A s \in Syscalls : s < NR => ~Listed(p, table[s])

(* `Original system call' (interceptor.c:63): a hijacked entry has its     *)
(* original saved.  If f were interceptor, the call would never return; if *)
(* it were still the null pointer, the process would die in it.            *)
SavedOriginal ==
  \A s \in Syscalls :
    sys_call_table[s] = "interceptor" => table[s].f = "original"

(* Outside the critical sections a hijacked system call is marked          *)
(* intercepted, so that RELEASE is never refused for it.                   *)
HijackedIsMarked ==
  holder["calltable"] = NoOne =>
    \A s \in Syscalls :
      sys_call_table[s] = "interceptor" => table[s].intercepted = 1

(* `Status: 1=intercepted, 0=not intercepted' (interceptor.c:66).          *)
StatusExact ==
  holder["calltable"] = NoOne =>
    \A s \in Syscalls :
      table[s].intercepted = 1 <=> sys_call_table[s] = "interceptor"

(* The convention of interceptor.c:275: monitored=0 means not monitored.   *)
NotMonitoredIsEmpty ==
  (\A l \in {"pidlist", "calltable"} : holder[l] = NoOne) =>
    \A s \in Syscalls :
      table[s].monitored = 0 => table[s].my_list = EmptyList

(* Monitoring of all pids ends only by a STOP for that system call: not by *)
(* the exit of the last listed process (interceptor.c:165), nor by START.  *)
AllPidsMonitoringKept ==
  [][\A s \in Syscalls : table[s].monitored = 2 /\ table'[s].monitored # 2 =>
       \E p \in Procs : pc[p] \in {"stop_flag", "clear_reset"}
                        /\ arg[p].sysc = s]_vars

(* `Remove the exiting process's pid from all syscall lists'               *)
(* (interceptor.c:234): a process that is gone is in no list.              *)
DeadNotMonitored ==
  \A p \in Procs \ alive, s \in Syscalls : ~Listed(p, table[s])

(* Where a process is about to change, or to walk, the pid list of the     *)
(* system call it works on.                                                *)
ChangesList == {"start_add", "stop_del", "clear_list", "exit_del"}
WalksList   == ChangesList \cup {"start_check", "stop_find", "interceptor_walk"}

(* `Access to the table and pid lists must be synchronized'                *)
(* (interceptor.c:79): nobody is at the list somebody is changing.         *)
ListsSynchronized ==
  \A p, q \in Procs :
    p # q /\ pc[p] \in ChangesList /\ pc[q] \in WalksList =>
      arg[p].sysc # arg[q].sysc

(* Only destroy_list (interceptor.c:536), under the other lock, and        *)
(* interceptor, under none, are at a list that somebody is changing: START *)
(* and STOP let go of pidlist_lock and take it again before they change    *)
(* the list, and an exit keeps it over all lists.                          *)
ListsGuarded ==
  \A p, q \in Procs :
    p # q /\ pc[p] \in ChangesList \cup {"exit_count"} /\ pc[q] \in WalksList =>
      \/ arg[p].sysc # arg[q].sysc
      \/ {pc[p], pc[q]} \cap {"clear_list", "interceptor_walk"} # {}

(* my_syscall can be called before the table is filled                     *)
(* (interceptor.c:587): still nothing that it does is undone by the loop   *)
(* that fills the table, since no command gets past its locks before that. *)
FillLosesNothing ==
  pc[Loader] \in {"absent", "init_lock", "init_hook", "init_pidlist", "init_fill"} =>
    \A s \in Syscalls : table[s] = EmptyRow /\ sys_call_table[s] = "original"

(* The table is filled before anyone goes through it (interceptor.c:568).  *)
TableReady ==
  \A p \in Procs : pc[p] \in WalksList =>
    pc[Loader] \notin {"init_hook", "init_pidlist", "init_fill"}

(* Every call of my_syscall, interceptor or my_exit_group by a process     *)
(* returns, or ends in the process's exit: no thread waits for a spinlock  *)
(* for ever (`be careful to unlock any spinlocks', interceptor.c:347),     *)
(* unless removal has locked itself out (interceptor.c:625).               *)
EveryCallReturns ==
  \A p \in Procs :
    pc[p] # "user" ~> pc[p] \in {"user", "dead"} \/ pc[Loader] = "fini_release"

(* exit_function puts the two original entries back (interceptor.c:610).   *)
UnloadRestores == pc[Loader] = "fini_lock" ~> ~hooked

(* ... whatever processes do meanwhile, if no system call is intercepted:  *)
(* for those exit_function waits for the lock it holds.                    *)
UnloadCompletes ==
  pc[Loader] = "fini_lock" ~> ~hooked \/ \E s \in Syscalls : table[s].intercepted = 1

(* After removal no system call runs the module's code                     *)
(* (interceptor.c:624-626 releases what is intercepted).                   *)
UnloadedIsGone ==
  pc[Loader] = "unloaded" => \A s \in Syscalls : sys_call_table[s] = "original"
==============================================================================
