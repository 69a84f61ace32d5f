------------------------------ MODULE MCExt2RmR ------------------------------
(***************************************************************************)
(* Lengths of the names for the run of ext2_rm_bonus.                      *)
(***************************************************************************)
EXTENDS Ext2RmR

(* Two directories; removing a file frees inode 4, the one of /a, so that  *)
(* /c gets it too.                                                         *)
MCFirst == << <<"mkdir", <<"a">>>>, <<"mkdir", <<"a", "b">>>>, <<"cp", <<"c">>>>,
              <<"rm", <<"c">>>>, <<"mkdir", <<"c">>>>, <<"cp", <<"b">>>> >>
MCstrlen(name) == CASE name = ".." -> 2 [] name = "lost+found" -> 10 [] OTHER -> 1
==============================================================================
