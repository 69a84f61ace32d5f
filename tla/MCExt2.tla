-------------------------------- MODULE MCExt2 --------------------------------
(***************************************************************************)
(* Lengths of the names: "name" has four characters, the length at which  *)
(* round_up adds a whole word.                                             *)
(***************************************************************************)
EXTENDS Ext2

MCstrlen(name) ==
  CASE name = "."          -> 1
    [] name = ".."         -> 2
    [] name \in {"a", "b"} -> 1
    [] name = ".b"         -> 2
    [] name = "name"       -> 4
    [] name = "lost+found" -> 10
==============================================================================
