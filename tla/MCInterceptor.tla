---------------------------- MODULE MCInterceptor ----------------------------
(***************************************************************************)
(* Instances of the kernel module: p1 belongs to root, p2 and p3 to alice. *)
(***************************************************************************)
EXTENDS Interceptor, TLC

CONSTANTS p1, p2, p3, alice

MCuid == [p \in Procs |-> IF p = p1 THEN root ELSE alice]
MCrootuid == [p \in Procs |-> root]
==============================================================================
