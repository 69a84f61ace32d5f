--------------------------------- MODULE Ext2 ---------------------------------
(***************************************************************************)
(* The tools of Assignment3 on an image: ext2_mkdir, ext2_ln, ext2_cp and  *)
(* ext2_rm, which change it, and ext2_ls.  A run of a tool is one step: it *)
(* is one process with the image to itself, and a crash leaves in the      *)
(* image what was written before it, since the mapping is shared with the  *)
(* file.                                                                   *)
(***************************************************************************)
EXTENDS Ext2Disk

CONSTANTS
  Tools,      \* the tools that are run: "mkdir", "cp", "ln", "ln -s", "rm"
  Hidden,     \* names that begin with "."
  MaxDepth,   \* bound: components of a path
  MaxBlocks,  \* bound: blocks of a file of the host
  MaxRuns     \* bound: tools run one after the other

ASSUME Ext2Assumption ==
  MaxDepth \in Nat /\ MaxBlocks \in Nat /\ {".", ".."} \subseteq Hidden

VARIABLES status,   \* what the last tool returned, or "crash"
          runs

vars == <<disk, status, runs>>

(* Paths as the components that strtok yields; <<>> is "/".                *)
Paths == BoundedSeq(Names, MaxDepth)

Init == disk = MkfsImage /\ status = "0" /\ runs = 0

Return(code) == status' = code /\ UNCHANGED disk
(* create_link follows a null pointer when the parent has no block in      *)
(* dirs, and allocate leaves the mapping when there was no inode; `before' *)
(* is what was written until then.                                         *)
Crash(before) == status' = "crash" /\ disk' = before

(* The directory that the last component is to be created in.              *)
Parent(path) == IF Len(path) = 1 THEN EXT2_ROOT_INO ELSE traverse(Front(path))

(* copy (ext2_cp.c): a block for each of the n reads that return data, and *)
(* one more for the read that does not, unless the inode is full; nothing  *)
(* is written to that one.                                                 *)
Copied(d, ino, n) ==
  LET last == IF n < NDIRECT THEN n + 1 ELSE NDIRECT
      Write(e, b, k) == IF k <= n THEN WriteBytes(e, b) ELSE e
      after[k \in 0 .. last] ==
        IF k = 0 THEN d
        ELSE LET b == NextBlock(after[k - 1])
             IN  [Write(TakeBlock(after[k - 1]), b, k) EXCEPT
                    !.in[ino].i_blocks = @ + 1, !.in[ino].i_block[k] = b]
  IN  after[last]

(* A new directory, or a file of n blocks, with an entry in the parent:    *)
(* its inode is filled if there was room for the entry, and left marked as *)
(* used if not.                                                            *)
Create(parent, name, type, n, code) ==
  LET b      == find_dir_block_pos(parent)
      ino    == NextInode(disk)
      d      == TakeInode(disk)
      linked == create_link(d, b, ino, name, type)
  IN  IF b = 0 THEN Crash(d)
      ELSE IF ino = 0 /\ Room(d, b, name, type) # {} THEN Crash(linked)
      ELSE /\ status' = code
           /\ disk' = IF Room(d, b, name, type) = {} THEN linked
                      ELSE IF type = "DIR" THEN AllocateDir(linked, ino, parent)
                      ELSE Copied(AllocateFile(linked, ino), ino, n)

------------------------------------------------------------------------------
(* main of ext2_mkdir.c: below the root it returns ENOENT in any case.     *)
mkdir(path) ==
  LET parent == Parent(path)
      code   == IF Len(path) = 1 THEN "0" ELSE "ENOENT"
  IN  IF path = <<>> THEN Return("EEXIST")
      ELSE IF parent = 0 THEN Return("ENOENT")
      ELSE IF traverse(path) # 0 THEN Return("EEXIST")
      ELSE Create(parent, Last(path), "DIR", 0, code)

(* main of ext2_cp.c, for a file of the host of n blocks.                  *)
cp(name, n, dir) ==
  LET parent == IF dir = <<>> THEN EXT2_ROOT_INO ELSE traverse(dir)
  IN  IF traverse(Append(dir, name)) # 0 THEN Return("EEXIST")
      ELSE IF parent = 0 THEN Return("ENOENT")
      ELSE Create(parent, name, "REG", n, "0")
(* The file of the host does not exist, or is "/". *)
cp_refused == Return("ENOENT") \/ Return("EISDIR")

(* main of ext2_ln.c.  What create_link returns is not looked at, and the  *)
(* tool returns ENOENT in any case.  Source and link must not be "/".      *)
ln_checks(src, dst) ==
  IF src = <<>> \/ dst = <<>> THEN "EISDIR"
  ELSE IF traverse(src) = 0 THEN "ENOENT"
  ELSE IF traverse(dst) # 0 THEN "EEXIST"
  ELSE IF EntryAt(find_dir_entry(Last(src), dirs)).file_type = "DIR" THEN "EISDIR"
  ELSE IF Parent(dst) = 0 THEN "ENOENT" ELSE "go on"
ln(src, dst) ==
  LET checks == ln_checks(src, dst)
      b      == find_dir_block_pos(Parent(dst))
      ino    == traverse(src)
  IN  IF checks # "go on" THEN Return(checks)
      ELSE IF b = 0 THEN Crash(disk)
      ELSE /\ status' = "ENOENT"
           /\ disk' = AllocateFile(create_link(disk, b, ino, Last(dst), "REG"), ino)

(* ... with -s: a new inode, whose block gets the path of the link itself. *)
ln_s(src, dst) ==
  LET checks == ln_checks(src, dst)
      b      == find_dir_block_pos(Parent(dst))
      ino    == NextInode(disk)
      d      == TakeInode(disk)
      linked == create_link(d, b, ino, Last(dst), "LNK")
  IN  IF checks # "go on" THEN Return(checks)
      ELSE IF b = 0 THEN Crash(d)
      ELSE IF ino = 0 THEN Crash(linked)
      ELSE status' = "ENOENT" /\ disk' = AllocateSymlink(linked, ino, dst)

(* main of ext2_rm.c: the inode comes from the path, the entry that is     *)
(* unlinked is the first of that name in whatever directory.  The exit     *)
(* for "/" is 1.                                                           *)
rm(path) ==
  IF path = <<>> THEN Return("1")
  ELSE LET ino  == traverse(path)
           slot == find_dir_entry(Last(path), dirs)
       IN  IF ino = 0 THEN Return("ENOENT")
           ELSE IF EntryAt(slot).file_type = "DIR" THEN Return("EISDIR")
           ELSE /\ status' = "0"
                /\ disk' = remove_link(Unlink(disk, slot[1], slot[2]), ino, inum)

------------------------------------------------------------------------------
(* i_block[index]: the pointers after the direct ones are never set.       *)
BlockAt(ino, k) == IF k <= NDIRECT THEN disk.in[ino].i_block[k] ELSE 0

(* ls_block of ext2_ls.c: the names in the first i_blocks blocks of the    *)
(* inode.  A directory has i_blocks 2 and one block, so that the boot      *)
(* block is looked at too.                                                 *)
EntriesAt(b) == IF b \in DOMAIN disk.data THEN disk.data[b] ELSE <<>>
Shown(e, aflag) == e.name \notin Hidden \/ aflag
Lines(b, aflag) ==
  LET s == EntriesAt(b)
      printed[k \in 0 .. Len(s)] ==
        IF k = 0 THEN <<>>
        ELSE IF Shown(s[k], aflag) THEN Append(printed[k - 1], s[k].name) ELSE printed[k - 1]
  IN  printed[Len(s)]

(* Mutated form: the index starts at 1. *)
ls_from_1(ino, aflag) ==
  FlattenSeq([k \in 1 .. disk.in[ino].i_blocks - 1 |-> Lines(BlockAt(ino, k + 1), aflag)])
ls_block(ino, aflag) ==
  FlattenSeq([k \in 1 .. disk.in[ino].i_blocks |-> Lines(BlockAt(ino, k), aflag)])

(* main of ext2_ls.c: what is printed.  The kind of what the path leads to *)
(* is that of the first entry of its name in whatever directory.           *)
ls(path, aflag) ==
  IF path = <<>> THEN [code |-> "0", lines |-> ls_block(EXT2_ROOT_INO, aflag)]
  ELSE IF traverse(path) = 0 THEN [code |-> "ENOENT", lines |-> <<>>]
  ELSE [code  |-> "0",
        lines |-> IF EntryAt(find_dir_entry(Last(path), dirs)).file_type # "DIR"
                  THEN <<Last(path)>> ELSE ls_block(traverse(path), aflag)]

------------------------------------------------------------------------------
EntryFits(e) == e.rec_len >= 8 + strlen(e.name)
(* Whether the blocks a tool walks over are directory blocks and no entry  *)
(* lies over another one.  What a tool does otherwise depends on the bytes *)
(* of names and files: the model stops there.                              *)
Readable == \A k \in DOMAIN dirs :
  /\ dirs[k] \in DOMAIN disk.data
  /\ \A j \in DOMAIN disk.data[dirs[k]] : EntryFits(disk.data[dirs[k]][j])

Next ==
  /\ runs < MaxRuns /\ Readable
  /\ runs' = runs + 1
  /\ \/ "mkdir" \in Tools /\ \E p \in Paths : mkdir(p)
     \/ "cp" \in Tools /\ \E name \in Names, n \in 0 .. MaxBlocks, p \in Paths : cp(name, n, p)
     \/ "cp" \in Tools /\ cp_refused
     \/ "ln" \in Tools /\ \E p, q \in Paths : ln(p, q)
     \/ "ln -s" \in Tools /\ \E p, q \in Paths : ln_s(p, q)
     \/ "rm" \in Tools /\ \E p \in Paths : rm(p)

Spec == Init /\ [][Next]_vars

------------------------------------------------------------------------------
(* What a path leads to: each component is looked up in the directory that *)
(* the components before it lead to.  0 when one of them is not there.     *)
Resolve(path) ==
  LET at[k \in 0 .. Len(path)] ==
        IF k = 0 THEN EXT2_ROOT_INO ELSE Lookup(at[k - 1], path[k])
  IN  at[Len(path)]

DirBlocks == Range(dirs)
Entries(b) == Range(disk.data[b])
Called(name) == UNION {{b} \X PlacesOf(name, b) : b \in DirBlocks}
IsDirectory(ino) == disk.in[ino].mode = "DIR"

(* The walks by rec_len (helper.c:191-206, 254-298) end at the end of the  *)
(* block: splitting and merging entries keeps their lengths' sum.          *)
EntriesTile == \A b \in DOMAIN disk.data :
  LET s == disk.data[b]
      at[k \in 0 .. Len(s)] == IF k = 0 THEN 0 ELSE at[k - 1] + s[k].rec_len
  IN  at[Len(s)] = EXT2_BLOCK_SIZE

(* `rec_len: directory entry length' (ext2.h:206): an entry's header and   *)
(* name are within its length, so that none lies over the next one.        *)
EntriesFit == \A b \in DOMAIN disk.data : \A e \in Entries(b) : EntryFits(e)

(* The free counts of the group descriptor agree with the bitmaps when     *)
(* inodes and blocks run out, tools fail half-way and inodes are freed.    *)
CountersAgree ==
  /\ disk.freeInodes = Cardinality(Index \ disk.bmi)
  /\ disk.freeBlocks = Cardinality((0 .. s_blocks_count - 1) \ disk.bm)

(* No block belongs to two inodes, or to one at two places; each block of  *)
(* a file is within the 128 that are mapped, and the bitmap knows it.      *)
NoSharedBlock ==
  /\ \A i, j \in Inode, k, l \in 1 .. NDIRECT :
       /\ disk.in[i].i_block[k] = disk.in[j].i_block[l]
       /\ disk.in[i].i_block[k] # 0
       => i = j /\ k = l
  /\ \A i \in Inode, k \in 1 .. NDIRECT :
       disk.in[i].i_block[k] # 0 =>
         disk.in[i].i_block[k] < s_blocks_count /\ disk.in[i].i_block[k] - 1 \in disk.bm

EntriesNaming(ino) ==
  {s \in DirBlocks \X (1 .. EXT2_BLOCK_SIZE) :
     s[2] \in DOMAIN disk.data[s[1]] /\ EntryAt(s).inode = ino}

(* The directories are a tree: . is the directory, .. the one directory    *)
(* with an entry for it, also in directories with the same name and when   *)
(* the inodes, the blocks or the room in the parent run out, and no        *)
(* directory has more entries than links: remove_link would free it while  *)
(* an entry names it.                                                      *)
DirectoryTree == \A b \in DirBlocks :
  LET self == disk.data[b][1].inode
      up   == disk.data[b][2].inode
  IN  /\ IsDirectory(self) /\ b = disk.in[self].i_block[1]
      /\ disk.data[b][1].name = "." /\ disk.data[b][2].name = ".."
      /\ {c \in DirBlocks : \E e \in Entries(c) : e.inode = self /\ e.name \notin {".", ".."}}
           = IF self = EXT2_ROOT_INO THEN {} ELSE {disk.in[up].i_block[1]}
      /\ Cardinality(EntriesNaming(self)) <= disk.in[self].i_links_count

(* What a path leads to by the inodes' blocks alone, bitmap and . unseen.  *)
Leads(path) ==
  LET at[k \in 0 .. Len(path)] ==
        IF k = 0 THEN EXT2_ROOT_INO
        ELSE IF at[k - 1] = 0 THEN 0
        ELSE LET here == IF IsDirectory(at[k - 1]) THEN EntriesAt(disk.in[at[k - 1]].i_block[1])
                         ELSE <<>>
                 named == {j \in DOMAIN here : here[j].name = path[k]}
             IN  IF named = {} THEN 0 ELSE here[Min(named)].inode
  IN  at[Len(path)]

(* `it will print one line for every directory entry in the directory      *)
(* specified' (ext2_ls.c:12): by scanning the image for a block with the   *)
(* right . and by i_blocks, ls shows the entries of the directory that the *)
(* path leads to, a file's name alone, and ENOENT for what is not there.   *)
(* So it is when no earlier component is called like the last one, all     *)
(* that is called so is of one kind, and the boot block has not been       *)
(* written to when the blocks ran out.                                     *)
OneKind(name) == \A s, t \in Called(name) : EntryAt(s).file_type = EntryAt(t).file_type
LsShowsDirectory == \A p \in Paths, aflag \in BOOLEAN :
  /\ 0 \notin disk.bytes /\ (aflag => 0 \notin DOMAIN disk.data)
  /\ p # <<>> => OneKind(Last(p)) /\ Last(p) \notin Range(Front(p))
  => LET ino == Leads(p)
     IN  ls(p, aflag) =
           IF ino = 0 THEN [code |-> "ENOENT", lines |-> <<>>]
           ELSE [code |-> "0", lines |-> IF IsDirectory(ino) THEN Lines(disk.in[ino].i_block[1], aflag)
                                         ELSE <<Last(p)>>]

(* Only ext2_rm takes an entry out of a directory: the others keep every   *)
(* entry where they put a new one, also in the room of a removed one.  rm  *)
(* takes one entry, of the name it was given and not of a directory, and,  *)
(* when there is no other of that name, the one that the path leads to:    *)
(* find_dir_entry (helper.c:278) looks in all directories.                 *)
Kept(b) == {<<e.name, e.inode, e.file_type>> : e \in Entries(b)}
RmTakes(path, e) ==
  /\ e[1] = Last(path) /\ e[3] # "DIR"
  /\ Resolve(path) # 0 /\ (\A s, t \in Called(e[1]) : s = t) => e[2] = Resolve(path)
EntriesKept ==
  [][LET lost == UNION {{<<b, e>> : e \in Kept(b) \ Kept(b)'} : b \in DirBlocks}
     IN  lost # {} => /\ Cardinality(lost) = 1
                      /\ \E p \in Paths : rm(p) /\ \A x \in lost : RmTakes(p, x[2])]_vars

(* mkdir and cp name an inode that nothing names yet: find_free_inode      *)
(* gives no inode out twice, also after failures half-way.                 *)
NewInodesUnnamed ==
  [][\A b \in DirBlocks : \A new \in Kept(b)' \ Kept(b) :
       new[2] # 0 => EntriesNaming(new[2]) = {}]_vars

------------------------------------------------------------------------------
(* `Must set i_dtime in the inode' (ext2_rm.c:15), when the last link to   *)
(* it goes.                                                                *)
RmSetsDtime ==
  [][\A p \in Paths :
       LET ino == traverse(p)
       IN  p # <<>> /\ ino # 0 /\ rm(p) /\ status' = "0" /\ disk.in[ino].i_links_count = 1
           => disk'.in[ino].i_dtime]_vars

(* `Removing the specified file from the disk' (ext2_rm.c:7): afterwards   *)
(* its path leads nowhere.                                                 *)
RmRemovesNamed ==
  [][\A p \in Paths : rm(p) /\ status' = "0" => Resolve(p)' = 0]_vars

(* `If that bit was a 1, inode is used' (helper.c:158): an inode with a    *)
(* link is marked as used.                                                 *)
LinkedInodesMarked == \A i \in Index : disk.in[i + 1].i_links_count > 0 => i \in disk.bmi

(* `If the path does not exist ... return an ENOENT' (ext2_ls.c:14-16).    *)
LsRefusesMissing == \A p \in Paths : ls(p, FALSE).code = "ENOENT" <=> Leads(p) = 0

(* ENOENT is for a path or a source that does not exist                    *)
(* (ext2_mkdir.c:10-13, ext2_ln.c:9): nothing was made then.               *)
ErrorsMakeNothing == [][status' = "ENOENT" => UNCHANGED disk]_vars

(* EEXIST is for `the specified directory already exists'                  *)
(* (ext2_mkdir.c:10-13).                                                   *)
MkdirExistsOnlyIfThere ==
  [][\A p \in Paths : mkdir(p) /\ status' = "EEXIST" => Resolve(p) # 0]_vars

(* `If either location refers to a directory (EISDIR)' (ext2_ln.c:11): the *)
(* target of a link becomes a regular file, so no directory may be one.    *)
LnRefusesDirectories ==
  [][\A i \in Index : IsDirectory(i + 1) => IsDirectory(i + 1)']_vars

(* `Creating a link from the first specified file to the second specified  *)
(* path' (ext2_ln.c:6): the new symlink leads to the first path.           *)
SymlinkNamesSource ==
  [][\A p, q \in Paths : ln_s(p, q) =>
       \A b \in DOMAIN disk.text' \ DOMAIN disk.text : disk.text'[b] = p]_vars
==============================================================================
