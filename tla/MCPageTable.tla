----------------------------- MODULE MCPageTable -----------------------------
(* Model values and symmetry for the paging core under `rand'. *)
EXTENDS PageTable, TLC

CONSTANTS p1, p2, p3, p4

MCPages == {p1, p2, p3, p4}
Symmetry == Permutations(MCPages)
==============================================================================
