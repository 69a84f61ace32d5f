------------------------------- MODULE Ext2Disk -------------------------------
(***************************************************************************)
(* The ext2 image of Assignment3 and the helpers every tool includes       *)
(* (helper.c).  A tool maps the image, scans it once (init) and changes it *)
(* in place; a helper that changes it is an operator from image to image.  *)
(*                                                                         *)
(* Bytes of files, sizes and times are left out.  A directory block is the *)
(* sequence of entries that a walk by rec_len meets.  Pointers have eight  *)
(* bytes: in + (inode - 1) is outside the mapping when inode is 0.         *)
(***************************************************************************)
EXTENDS Integers, SequencesExt

CONSTANTS
  Names,            \* names a path can have
  strlen(_),        \* their lengths, also of ".", ".." and "lost+found"
  Reserved,         \* inodes that are never given out (11)
  s_inodes_count,
  s_blocks_count,
  EXT2_BLOCK_SIZE,
  NDIRECT           \* direct blocks of an inode (12)

ASSUME Ext2DiskAssumption ==
  /\ \A n \in Names : strlen(n) \in Nat \ {0}
  /\ strlen(".") = 1 /\ strlen("..") = 2 /\ strlen("lost+found") = 10
  /\ Reserved \in Nat /\ Reserved > 2
  /\ s_inodes_count \in Nat /\ s_inodes_count >= Reserved
  /\ s_blocks_count \in Nat /\ s_blocks_count >= 3
  /\ EXT2_BLOCK_SIZE \in Nat /\ EXT2_BLOCK_SIZE >= 48
  /\ NDIRECT \in Nat /\ NDIRECT >= 2

VARIABLE disk

EXT2_ROOT_INO == 2
Index  == 0 .. s_inodes_count - 1      \* of a bit of the inode bitmap
Inode  == 1 .. s_inodes_count          \* numbers, of the table's inodes
Block  == 0 .. s_blocks_count          \* numbers; 0 is the boot block
NameOf == Names \cup {".", "..", "lost+found"}
Entry  == [inode : Inode \cup {0}, name : NameOf, file_type : {"DIR", "REG", "LNK"},
           rec_len : 1 .. EXT2_BLOCK_SIZE]

(* The bits that are set, the counters of the group descriptor, the inode  *)
(* table, the entries of directory blocks, the blocks that files and       *)
(* symlinks were written to and the paths in the symlinks'.  The other     *)
(* blocks hold zeros.  i_blocks counts the blocks of a file, and twice     *)
(* those of a directory.                                                   *)
Image(d) ==
  /\ d.bmi \subseteq Index /\ d.freeInodes \in Int
  /\ d.bm \subseteq 0 .. s_blocks_count - 1 /\ d.freeBlocks \in Int
  /\ d.in \in [Inode -> [mode : {"none", "DIR", "REG", "LNK"}, i_links_count : Nat,
                         i_dtime : BOOLEAN, i_blocks : Nat, i_block : [1 .. NDIRECT -> Block]]]
  /\ \A b \in DOMAIN d.data : b \in Block /\ \A k \in DOMAIN d.data[b] : d.data[b][k] \in Entry
  /\ d.bytes \subseteq Block /\ d.bytes \cap DOMAIN d.data = {}
  /\ \A b \in DOMAIN d.text : b \in d.bytes /\ d.text[b] \in Seq(NameOf)

(* A fresh image: the root, and lost+found in the last reserved inode.     *)
(* Block b has bit b - 1; the last bit belongs to no block and is set.     *)
Unused == [mode |-> "none", i_links_count |-> 0, i_dtime |-> FALSE, i_blocks |-> 0,
           i_block |-> [k \in 1 .. NDIRECT |-> 0]]
MkfsImage ==
  [bmi |-> 0 .. Reserved - 1, freeInodes |-> s_inodes_count - Reserved,
   bm  |-> {0, 1, s_blocks_count - 1}, freeBlocks |-> s_blocks_count - 3,
   in  |-> [i \in Inode |->
              IF i = EXT2_ROOT_INO
              THEN [Unused EXCEPT !.mode = "DIR", !.i_links_count = 3, !.i_blocks = 2,
                                 !.i_block[1] = 1]
              ELSE IF i = Reserved
              THEN [Unused EXCEPT !.mode = "DIR", !.i_links_count = 2, !.i_blocks = 2,
                                 !.i_block[1] = 2]
              ELSE Unused],
   data |-> [b \in {1, 2} |->
     LET self == IF b = 1 THEN EXT2_ROOT_INO ELSE Reserved
         dot  == [inode |-> self, name |-> ".", file_type |-> "DIR", rec_len |-> 12]
         dots == [inode |-> EXT2_ROOT_INO, name |-> "..", file_type |-> "DIR", rec_len |-> 12]
     IN  IF b = 1
         THEN <<dot, dots, [inode |-> Reserved, name |-> "lost+found", file_type |-> "DIR",
                            rec_len |-> EXT2_BLOCK_SIZE - 24]>>
         ELSE <<dot, [dots EXCEPT !.rec_len = EXT2_BLOCK_SIZE - 12]>>],
   bytes |-> {}, text |-> <<>>]

ASSUME MkfsIsImage == Image(MkfsImage)

------------------------------------------------------------------------------
(* init: the inodes in use but the reserved ones, and the root, by their   *)
(* index, and the blocks of those that are directories.                    *)
Used(i) == i = EXT2_ROOT_INO - 1 \/ (i >= Reserved /\ i \in disk.bmi)
inum == SelectSeq([ino \in Inode |-> ino - 1], Used)

BlocksOf(ino) ==
  LET none == {k \in 1 .. NDIRECT : disk.in[ino].i_block[k] = 0}
  IN  SubSeq(disk.in[ino].i_block, 1, IF none = {} THEN NDIRECT ELSE Min(none) - 1)
dirs == FlattenSeq([ino \in Inode |->
          IF Used(ino - 1) /\ disk.in[ino].mode = "DIR" THEN BlocksOf(ino) ELSE <<>>])

(* An entry is found as the pair of its block and its place, the first one *)
(* of that name in the blocks that are searched; <<>> when there is none.  *)
EntryAt(slot) == disk.data[slot[1]][slot[2]]
PlacesOf(name, b) == {k \in DOMAIN disk.data[b] : disk.data[b][k].name = name}
FirstCalled(name, blocks, searched) ==
  LET at == {i \in searched : PlacesOf(name, blocks[i]) # {}}
      b  == blocks[Min(at)]
  IN  IF at = {} THEN <<>> ELSE <<b, Min(PlacesOf(name, b))>>

(* In whatever directory of those that init found: the inode that the      *)
(* caller passes along is not looked at.                                   *)
find_dir_entry(name, blocks) == FirstCalled(name, blocks, DOMAIN blocks)

(* A directory's block is known by its first entry.                        *)
IsBlockOf(b, ino) == EntryAt(<<b, 1>>).inode = ino /\ EntryAt(<<b, 1>>).name = "."
HomesOf(ino, blocks) == {i \in DOMAIN blocks : IsBlockOf(blocks[i], ino)}
find_dir_block_pos(ino) ==
  LET blocks == dirs
      homes  == HomesOf(ino, blocks)
  IN  IF homes = {} THEN 0 ELSE blocks[Min(homes)]

Lookup(ino, name) ==
  LET blocks == dirs
      found  == FirstCalled(name, blocks, HomesOf(ino, blocks))
  IN  IF found = <<>> THEN 0 ELSE EntryAt(found).inode

(* Mutated form: the whole path is followed. *)
WholePath(path) ==
  LET at[k \in 0 .. Len(path)] ==
        IF k = 0 THEN EXT2_ROOT_INO ELSE Lookup(at[k - 1], path[k])
  IN  at[Len(path)]

(* traverse follows the path up to the first component that is called like *)
(* the last one.                                                           *)
traverse(path) ==
  LET stop == Min({k \in DOMAIN path : path[k] = Last(path)})
      at[k \in 0 .. stop] ==
        IF k = 0 THEN EXT2_ROOT_INO ELSE Lookup(at[k - 1], path[k])
  IN  at[stop]

------------------------------------------------------------------------------
(* find_free_inode and find_free_block: the number returned, 0 when there  *)
(* is none, and the image with the bit set.                                *)
FreeIndexes(d) == {i \in Index : i >= Reserved} \ d.bmi
NextInode(d) == IF FreeIndexes(d) = {} THEN 0 ELSE Min(FreeIndexes(d)) + 1

(* Mutated forms: the bit is not set; the counter is left alone.           *)
BitNotSet(d) == d
NotCounted(d) ==
  IF FreeIndexes(d) = {} THEN d ELSE [d EXCEPT !.bmi = @ \cup {Min(FreeIndexes(d))}]

TakeInode(d) ==
  IF FreeIndexes(d) = {} THEN d
  ELSE [d EXCEPT !.bmi = @ \cup {Min(FreeIndexes(d))}, !.freeInodes = @ - 1]

FreeBits(d) == (0 .. s_blocks_count - 1) \ d.bm
NextBlock(d) == IF FreeBits(d) = {} THEN 0 ELSE Min(FreeBits(d)) + 1
TakeBlock(d) ==
  IF FreeBits(d) = {} THEN d
  ELSE [d EXCEPT !.bm = @ \cup {Min(FreeBits(d))}, !.freeBlocks = @ - 1]

------------------------------------------------------------------------------
(* create_link: the new entry takes what the first entry with enough room  *)
(* does not need.                                                          *)
round_up(n) == n + (4 - (n % 4))
dir_size(name) == round_up(8 + strlen(name))

(* Mutated form: a file's entry is sized like a symlink's. *)
NameOnly(name, type) == strlen(name)
total_size(name, type) == IF type = "LNK" THEN strlen(name) ELSE round_up(18 + strlen(name))

Room(d, b, name, type) ==
  {k \in DOMAIN d.data[b] :
     dir_size(d.data[b][k].name) + total_size(name, type) <= d.data[b][k].rec_len}

(* Mutated form: the entry with room is overwritten. *)
Overwriting(d, b, ino, name, type) ==
  LET k == Min(Room(d, b, name, type))
  IN  IF Room(d, b, name, type) = {} THEN d
      ELSE [d EXCEPT !.data[b][k] = [inode |-> ino, name |-> name, file_type |-> type,
                                     rec_len |-> @.rec_len]]
create_link(d, b, ino, name, type) ==
  LET k    == Min(Room(d, b, name, type))
      need == dir_size(d.data[b][k].name)
      new  == [inode |-> ino, name |-> name, file_type |-> type,
               rec_len |-> d.data[b][k].rec_len - need]
  IN  IF Room(d, b, name, type) = {} THEN d
      ELSE [d EXCEPT !.data[b] = InsertAt([@ EXCEPT ![k].rec_len = need], k + 1, new)]

------------------------------------------------------------------------------
(* allocate, by the mode it is called with.                                *)
AllocateFile(d, ino) ==
  [d EXCEPT !.in[ino].mode = "REG", !.in[ino].i_links_count = @ + 1]
WriteBytes(d, b) ==
  [d EXCEPT !.bytes = @ \cup {b}, !.data = [c \in DOMAIN @ \ {b} |-> @[c]]]
AllocateSymlink(d, ino, path) ==
  [WriteBytes(TakeBlock(d), NextBlock(d)) EXCEPT
     !.in[ino].mode = "LNK", !.in[ino].i_block[1] = NextBlock(d),
     !.text = [b \in DOMAIN @ \cup {NextBlock(d)} |-> IF b = NextBlock(d) THEN path ELSE @[b]]]

(* Mutated form: .. is the root. *)
DotDotIsRoot(ino, parent) ==
  <<[inode |-> ino, name |-> ".", file_type |-> "DIR", rec_len |-> 12],
    [inode |-> EXT2_ROOT_INO, name |-> "..", file_type |-> "DIR", rec_len |-> EXT2_BLOCK_SIZE - 12]>>

TwoEntries(ino, parent) ==
  <<[inode |-> ino, name |-> ".", file_type |-> "DIR", rec_len |-> 12],
    [inode |-> parent, name |-> "..", file_type |-> "DIR", rec_len |-> EXT2_BLOCK_SIZE - 12]>>
ParentLinked(d, parent) == [d EXCEPT !.in[parent].i_links_count = @ + 1]
AllocateDir(d, ino, parent) ==
  LET block == NextBlock(d)
  IN  ParentLinked(
        [TakeBlock(d) EXCEPT
          !.in[ino] = [@ EXCEPT !.mode = "DIR", !.i_links_count = 2, !.i_blocks = 2,
                                !.i_block[1] = block],
          !.bytes = @ \ {block}, !.text = [b \in DOMAIN @ \ {block} |-> @[b]],
          !.data = [b \in DOMAIN @ \cup {block} |->
                      IF b = block THEN TwoEntries(ino, parent) ELSE @[b]]],
        parent)

(* Mutated form: the room of an unlinked entry is lost. *)
RoomLost(d, b, k) == [d EXCEPT !.data[b] = RemoveAt(@, k)]

(* Unlinking an entry: the one before it, which find_pre_pos returns,      *)
(* takes its room.                                                         *)
Unlink(d, b, k) ==
  [d EXCEPT !.data[b] =
     RemoveAt([d.data[b] EXCEPT ![k - 1].rec_len = @ + d.data[b][k].rec_len], k)]

(* remove_link: the last link clears the bit i for which inum[i] is the    *)
(* inode's index, and returns without setting i_dtime.  inum[0] is the     *)
(* first element of `used', which is inum as init found it.  Inode 0 is    *)
(* in the padding of the inode bitmap's block, which nobody reads.         *)
BitsOf(d, ino, used) == {i \in d.bmi : i + 1 \in DOMAIN used /\ used[i + 1] = ino - 1}
remove_link(d, ino, used) ==
  LET links   == d.in[ino].i_links_count
      dropped == IF links > 0 THEN [d EXCEPT !.in[ino].i_links_count = @ - 1] ELSE d
      bits    == BitsOf(d, ino, used)
  IN  IF ino = 0 THEN d
      ELSE IF links = 1 /\ bits # {}
      THEN [dropped EXCEPT !.bmi = @ \ {Min(bits)}, !.freeInodes = @ + 1]
      ELSE [dropped EXCEPT !.in[ino].i_dtime = TRUE]
==============================================================================
