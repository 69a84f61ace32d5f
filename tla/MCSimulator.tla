----------------------------- MODULE MCSimulator -----------------------------
(***************************************************************************)
(* The simulator with small values.  No definition tells one page from     *)
(* another (victims are chosen by frame, node or time), so traces that     *)
(* differ by a renaming of the pages are explored once.                    *)
(***************************************************************************)
EXTENDS Simulator, TLC

PageSymmetry == Permutations(Pages)
==============================================================================
