---------------------------- MODULE Ext2_proofs ----------------------------
(***************************************************************************)
(* Proofs about the tools of Assignment3: whatever tools are run, and      *)
(* wherever they crash, the bitmaps agree with the counters and no block   *)
(* is given to two inodes; without ln -s no directory entry lies over the  *)
(* next one; and mkdir and cp leave a tree of directories.                 *)
(***************************************************************************)
EXTENDS Ext2RmR, WellFoundedInduction, FiniteSetTheorems, TLAPS

(* The scans of the bitmaps find the first bit whenever there is one. *)
LEMMA MinIn ==
  ASSUME NEW S \in SUBSET Nat, S # {}
  PROVE  Min(S) \in S /\ \A j \in S : Min(S) <= j
<1> DEFINE R == {ss \in Nat \X Nat : ss[1] < ss[2]}
<1>1. IsWellFoundedOn(R, Nat)
  BY NatLessThanWellFounded DEF OpToRel
<1>2. PICK x \in S : \A y \in S : ~(<<y, x>> \in R)
  <2> HIDE DEF R
  <2> QED BY <1>1, WFMin
<1>3. ASSUME NEW y \in S PROVE x <= y
  <2>1. x \in Nat /\ y \in Nat /\ <<y, x>> \in Nat \X Nat
    OBVIOUS
  <2>2. <<y, x>>[1] = y /\ <<y, x>>[2] = x
    OBVIOUS
  <2>3. ~(y < x)
    BY <1>2, <2>1, <2>2
  <2> QED BY <2>1, <2>3
<1>4. \E i \in S : \A j \in S : i <= j
  BY <1>3
<1> HIDE DEF R
<1> QED BY <1>4 DEF Min

------------------------------------------------------------------------------
(* An image with what the proofs need of it: its fields, the inode table,  *)
(* bitmaps that agree with the counters, and blocks with one owner whose   *)
(* bits are set.  The last bit, which belongs to no block, stays set.      *)
Fields == {"bmi", "freeInodes", "bm", "freeBlocks", "in", "data", "bytes", "text"}
InodeType == [mode : {"none", "DIR", "REG", "LNK"}, i_links_count : Nat,
              i_dtime : BOOLEAN, i_blocks : Nat, i_block : [1 .. NDIRECT -> Block]]
Table(d) == DOMAIN d = Fields /\ d.in \in [Inode -> InodeType]
Counted(d) ==
  /\ d.bmi \subseteq Index /\ d.freeInodes = Cardinality(Index \ d.bmi)
  /\ d.bm \subseteq 0 .. s_blocks_count - 1
  /\ d.freeBlocks = Cardinality((0 .. s_blocks_count - 1) \ d.bm)
Owned(d) ==
  /\ s_blocks_count - 1 \in d.bm
  /\ \A i, j \in Inode, k, l \in 1 .. NDIRECT :
       d.in[i].i_block[k] = d.in[j].i_block[l] /\ d.in[i].i_block[k] # 0 => i = j /\ k = l
  /\ \A i \in Inode, k \in 1 .. NDIRECT :
       d.in[i].i_block[k] # 0 => d.in[i].i_block[k] < s_blocks_count /\ d.in[i].i_block[k] - 1 \in d.bm
Sound(d) == Table(d) /\ Counted(d) /\ Owned(d)

(* A fresh image is sound. *)
LEMMA MkfsSound == Sound(MkfsImage)
<1> USE Ext2DiskAssumption
<1>1. Table(MkfsImage)
  <2>1. Unused \in InodeType
    BY DEF Unused, InodeType, Block
  <2>2. ASSUME NEW l \in Nat, NEW b \in Block
        PROVE  [Unused EXCEPT !.mode = "DIR", !.i_links_count = l, !.i_blocks = 2, !.i_block[1] = b]
                 \in InodeType
    BY <2>1 DEF InodeType
  <2>3. 1 \in Block /\ 2 \in Block
    BY DEF Block
  <2>4. MkfsImage.in \in [Inode -> InodeType]
    BY <2>1, <2>2, <2>3 DEF MkfsImage
  <2>5. DOMAIN MkfsImage = Fields
    BY DEF MkfsImage, Fields
  <2> QED BY <2>4, <2>5 DEF Table
<1>2. Counted(MkfsImage)
  <2>1. Index \ (0 .. Reserved - 1) = Reserved .. s_inodes_count - 1
    BY DEF Index
  <2>2. Cardinality(Reserved .. s_inodes_count - 1) = s_inodes_count - Reserved
    BY FS_Interval
  <2>3. (0 .. s_blocks_count - 1) \ {0, 1, s_blocks_count - 1} = 2 .. s_blocks_count - 2
    OBVIOUS
  <2>4. Cardinality(2 .. s_blocks_count - 2) = s_blocks_count - 3
    BY FS_Interval
  <2>5. 0 .. Reserved - 1 \subseteq Index
    BY DEF Index
  <2>6. {0, 1, s_blocks_count - 1} \subseteq 0 .. s_blocks_count - 1
    OBVIOUS
  <2> QED BY <2>1, <2>2, <2>3, <2>4, <2>5, <2>6 DEF Counted, MkfsImage
<1>3. Owned(MkfsImage)
  <2> DEFINE B(i, k) == MkfsImage.in[i].i_block[k]
  <2>1. \A i \in Inode, k \in 1 .. NDIRECT :
          B(i, k) = IF k = 1 /\ i = EXT2_ROOT_INO THEN 1
                    ELSE IF k = 1 /\ i = Reserved THEN 2 ELSE 0
    BY DEF MkfsImage, Unused, EXT2_ROOT_INO
  <2>2. MkfsImage.bm = {0, 1, s_blocks_count - 1}
    BY DEF MkfsImage
  <2> HIDE DEF B
  <2>3. /\ \A i, j \in Inode, k, l \in 1 .. NDIRECT : B(i, k) = B(j, l) /\ B(i, k) # 0 => i = j /\ k = l
        /\ \A i \in Inode, k \in 1 .. NDIRECT : B(i, k) # 0 => B(i, k) < s_blocks_count /\ B(i, k) - 1 \in {0, 1}
    BY <2>1 DEF EXT2_ROOT_INO
  <2> QED BY <2>2, <2>3 DEF Owned, B
<1> QED BY <1>1, <1>2, <1>3 DEF Sound

(* What find_free_inode and find_free_block set was clear, and is counted. *)
LEMMA BitTaken ==
  ASSUME NEW S, IsFiniteSet(S), NEW T \in SUBSET S, NEW x \in S \ T
  PROVE  Cardinality(S \ (T \cup {x})) = Cardinality(S \ T) - 1
<1>1. IsFiniteSet(S \ T) /\ x \in S \ T
  BY FS_Subset
<1>2. S \ (T \cup {x}) = (S \ T) \ {x}
  OBVIOUS
<1> QED BY <1>1, <1>2, FS_RemoveElement

(* What remove_link clears was set, and is counted. *)
LEMMA BitFreed ==
  ASSUME NEW S, IsFiniteSet(S), NEW T \in SUBSET S, NEW x \in T
  PROVE  Cardinality(S \ (T \ {x})) = Cardinality(S \ T) + 1
<1>1. IsFiniteSet(S \ T) /\ x \notin S \ T
  BY FS_Subset
<1>2. S \ (T \ {x}) = (S \ T) \cup {x}
  OBVIOUS
<1> QED BY <1>1, <1>2, FS_AddElement

(* The inode given out is one of the table, the bit that is set was clear. *)
LEMMA TakeInodeSound ==
  ASSUME NEW d, Sound(d)
  PROVE  /\ Sound(TakeInode(d)) /\ TakeInode(d).in = d.in /\ TakeInode(d).data = d.data
         /\ NextInode(d) \in Inode \cup {0}
<1> DEFINE x == Min(FreeIndexes(d))
<1>1. CASE FreeIndexes(d) = {}
  BY <1>1 DEF TakeInode, NextInode
<1>2. CASE FreeIndexes(d) # {}
  <2>1. FreeIndexes(d) \in SUBSET Nat
    BY Ext2DiskAssumption DEF FreeIndexes, Index
  <2>2. x \in FreeIndexes(d)
    BY <1>2, <2>1, MinIn
  <2> HIDE DEF x
  <2>3. x \in Index \ d.bmi
    BY <2>2 DEF FreeIndexes
  <2>4. /\ TakeInode(d).bmi = d.bmi \cup {x} /\ TakeInode(d).freeInodes = d.freeInodes - 1
        /\ TakeInode(d).bm = d.bm /\ TakeInode(d).freeBlocks = d.freeBlocks
        /\ TakeInode(d).in = d.in /\ TakeInode(d).data = d.data /\ DOMAIN TakeInode(d) = Fields
    BY <1>2 DEF TakeInode, Sound, Table, Fields, x
  <2>5. IsFiniteSet(Index)
    BY Ext2DiskAssumption, FS_Interval DEF Index
  <2>6. Cardinality(Index \ (d.bmi \cup {x})) = Cardinality(Index \ d.bmi) - 1
    BY <2>3, <2>5, BitTaken DEF Sound, Counted
  <2>7. Sound(TakeInode(d))
    BY <2>3, <2>4, <2>6 DEF Sound, Table, Counted, Owned
  <2>8. NextInode(d) \in Inode
    BY <1>2, <2>3, Ext2DiskAssumption DEF NextInode, Inode, Index, x
  <2> QED BY <2>4, <2>7, <2>8
<1> QED BY <1>1, <1>2

(* The block given out is within the image, and nobody's. *)
LEMMA TakeBlockSound ==
  ASSUME NEW d, Sound(d)
  PROVE  /\ Sound(TakeBlock(d)) /\ TakeBlock(d).in = d.in /\ TakeBlock(d).data = d.data
         /\ NextBlock(d) \in Block
         /\ NextBlock(d) # 0 => /\ NextBlock(d) < s_blocks_count
                                /\ NextBlock(d) - 1 \notin d.bm
                                /\ NextBlock(d) - 1 \in TakeBlock(d).bm
<1> DEFINE x == Min(FreeBits(d))
           S == 0 .. s_blocks_count - 1
<1>0. 0 \in Block
  BY Ext2DiskAssumption DEF Block
<1>1. CASE FreeBits(d) = {}
  BY <1>0, <1>1 DEF TakeBlock, NextBlock
<1>2. CASE FreeBits(d) # {}
  <2>1. FreeBits(d) \in SUBSET Nat
    BY Ext2DiskAssumption DEF FreeBits
  <2>2. x \in FreeBits(d)
    BY <1>2, <2>1, MinIn
  <2> HIDE DEF x
  <2>3. x \in S \ d.bm /\ x # s_blocks_count - 1
    BY <2>2 DEF FreeBits, Sound, Owned
  <2>4. /\ TakeBlock(d).bm = d.bm \cup {x} /\ TakeBlock(d).freeBlocks = d.freeBlocks - 1
        /\ TakeBlock(d).bmi = d.bmi /\ TakeBlock(d).freeInodes = d.freeInodes
        /\ TakeBlock(d).in = d.in /\ TakeBlock(d).data = d.data /\ DOMAIN TakeBlock(d) = Fields
    BY <1>2 DEF TakeBlock, Sound, Table, Fields, x
  <2>5. IsFiniteSet(S)
    BY Ext2DiskAssumption, FS_Interval
  <2>6. Cardinality(S \ (d.bm \cup {x})) = Cardinality(S \ d.bm) - 1
    BY <2>3, <2>5, BitTaken DEF Sound, Counted
  <2>7. Sound(TakeBlock(d))
    BY <2>3, <2>4, <2>6 DEF Sound, Table, Counted, Owned
  <2>8. NextBlock(d) = x + 1
    BY <1>2 DEF NextBlock, x
  <2>9. x + 1 \in Block /\ x + 1 < s_blocks_count /\ (x + 1) - 1 = x
    BY <2>3, Ext2DiskAssumption DEF Block
  <2> QED BY <2>3, <2>4, <2>7, <2>8, <2>9
<1> QED BY <1>1, <1>2

(* The bitmaps and their counters are those of another image. *)
SameBits(e, d) == /\ e.bmi = d.bmi /\ e.freeInodes = d.freeInodes
                  /\ e.bm = d.bm /\ e.freeBlocks = d.freeBlocks

(* What changes neither bits nor blocks of inodes keeps an image sound. *)
LEMMA SameBlocksSound ==
  ASSUME NEW d, Sound(d), NEW e, Table(e), SameBits(e, d),
         \A i \in Inode : e.in[i].i_block = d.in[i].i_block
  PROVE  Sound(e)
BY DEF Sound, Counted, Owned, SameBits

(* A block that was just taken may go to any place of any inode. *)
GivenTo(e, d, ino, k) ==
  \A i \in Inode, l \in 1 .. NDIRECT :
    e.in[i].i_block[l] = IF i = ino /\ l = k THEN NextBlock(d) ELSE d.in[i].i_block[l]
(* A block that is marked and counted, and put into one free place, is owned once. *)
LEMMA BlockGiven ==
  ASSUME NEW d, Sound(d), NEW e, Table(e), SameBits(e, TakeBlock(d)), NEW ino, NEW k,
         GivenTo(e, d, ino, k)
  PROVE  Sound(e)
<1> DEFINE b == NextBlock(d)
<1>1. /\ Sound(TakeBlock(d)) /\ TakeBlock(d).in = d.in
      /\ b # 0 => b < s_blocks_count /\ b - 1 \notin d.bm /\ b - 1 \in TakeBlock(d).bm
  BY TakeBlockSound
<1> HIDE DEF b
<1>2. Counted(e)
  BY <1>1 DEF Sound, Counted, SameBits
<1>3. e.bm = TakeBlock(d).bm
  BY DEF SameBits
<1>4. ASSUME NEW i \in Inode, NEW l \in 1 .. NDIRECT
      PROVE  /\ e.in[i].i_block[l] = IF i = ino /\ l = k THEN b ELSE d.in[i].i_block[l]
             /\ d.in[i].i_block[l] # 0 => /\ d.in[i].i_block[l] < s_blocks_count
                                          /\ d.in[i].i_block[l] - 1 \in d.bm
                                          /\ d.in[i].i_block[l] - 1 \in e.bm
                                          /\ d.in[i].i_block[l] # b
  <2>1. d.in[i].i_block[l] # 0 => d.in[i].i_block[l] < s_blocks_count /\ d.in[i].i_block[l] - 1 \in d.bm
    BY DEF Sound, Owned
  <2>2. d.in[i].i_block[l] # 0 => d.in[i].i_block[l] - 1 \in e.bm
    BY <1>1, <1>3 DEF Sound, Owned
  <2> QED BY <1>1, <2>1, <2>2 DEF b, GivenTo
<1>5. ASSUME NEW i \in Inode, NEW l \in 1 .. NDIRECT, e.in[i].i_block[l] # 0
      PROVE  e.in[i].i_block[l] < s_blocks_count /\ e.in[i].i_block[l] - 1 \in e.bm
  BY <1>1, <1>3, <1>4, <1>5
<1>6. ASSUME NEW i \in Inode, NEW j \in Inode, NEW l \in 1 .. NDIRECT, NEW m \in 1 .. NDIRECT,
             e.in[i].i_block[l] = e.in[j].i_block[m], e.in[i].i_block[l] # 0
      PROVE  i = j /\ l = m
  <2>1. d.in[i].i_block[l] = d.in[j].i_block[m] /\ d.in[i].i_block[l] # 0 => i = j /\ l = m
    BY DEF Sound, Owned
  <2> QED BY <1>4, <1>6, <2>1
<1>7. s_blocks_count - 1 \in e.bm
  BY <1>1, <1>3 DEF Sound, Owned
<1> QED BY <1>2, <1>5, <1>6, <1>7 DEF Sound, Owned

------------------------------------------------------------------------------
(* create_link, WriteBytes and Unlink change directory blocks only. *)
LEMMA EntriesSound ==
  ASSUME NEW d, Sound(d), NEW e, DOMAIN e = Fields, SameBits(e, d), e.in = d.in
  PROVE  Sound(e)
<1>1. Table(e)
  BY DEF Table, Sound
<1> QED BY <1>1, SameBlocksSound

(* create_link writes a directory block: bitmaps, counters and owners stay. *)
LEMMA CreateLinkSound ==
  ASSUME NEW d, Sound(d), NEW b, NEW ino, NEW name, NEW type
  PROVE  Sound(create_link(d, b, ino, name, type))
<1> DEFINE e == create_link(d, b, ino, name, type)
           k == Min(Room(d, b, name, type))
           need == dir_size(d.data[b][k].name)
           new  == [inode |-> ino, name |-> name, file_type |-> type,
                    rec_len |-> d.data[b][k].rec_len - need]
           s == InsertAt([d.data[b] EXCEPT ![k].rec_len = need], k + 1, new)
<1>1. CASE Room(d, b, name, type) = {}
  BY <1>1 DEF create_link
<1>2. CASE Room(d, b, name, type) # {}
  <2>1. DOMAIN d = Fields
    BY DEF Sound, Table
  <2>2. e = [d EXCEPT !.data[b] = InsertAt([@ EXCEPT ![k].rec_len = need], k + 1, new)]
    BY <1>2 DEF create_link
  <2> HIDE DEF k, need, new
  <2>3. DOMAIN e = Fields /\ SameBits(e, d) /\ e.in = d.in
    BY <2>1, <2>2 DEF SameBits, Fields
  <2> QED BY <2>3, EntriesSound
<1> QED BY <1>1, <1>2

(* Writing a file's bytes touches no bitmap and no inode. *)
LEMMA WriteBytesSound ==
  ASSUME NEW d, Sound(d), NEW b
  PROVE  Sound(WriteBytes(d, b)) /\ SameBits(WriteBytes(d, b), d) /\ WriteBytes(d, b).in = d.in
<1>1. DOMAIN d = Fields
  BY DEF Sound, Table
<1>2. DOMAIN WriteBytes(d, b) = Fields /\ SameBits(WriteBytes(d, b), d) /\ WriteBytes(d, b).in = d.in
  BY <1>1 DEF SameBits, Fields, WriteBytes
<1> QED BY <1>2, EntriesSound

(* Unlinking an entry leaves the blocks owned as they were. *)
LEMMA UnlinkSound ==
  ASSUME NEW d, Sound(d), NEW b, NEW k
  PROVE  Sound(Unlink(d, b, k))
<1>1. DOMAIN d = Fields
  BY DEF Sound, Table
<1>2. DOMAIN Unlink(d, b, k) = Fields /\ SameBits(Unlink(d, b, k), d) /\ Unlink(d, b, k).in = d.in
  BY <1>1 DEF SameBits, Fields, Unlink
<1> QED BY <1>2, EntriesSound

(* Fields of an inode that are not blocks. *)
LEMMA InodeUpdates ==
  ASSUME NEW n \in InodeType
  PROVE  /\ [n EXCEPT !.mode = "REG", !.i_links_count = n.i_links_count + 1] \in InodeType
         /\ [n EXCEPT !.i_links_count = @ + 1] \in InodeType
         /\ n.i_links_count > 0 => [n EXCEPT !.i_links_count = @ - 1] \in InodeType
         /\ [n EXCEPT !.i_dtime = TRUE] \in InodeType
<1>1. n.i_links_count \in Nat
  BY DEF InodeType
<1>2. \A c \in Nat : [n EXCEPT !.i_links_count = c] \in InodeType
  BY DEF InodeType
<1>3. \A c \in Nat : [n EXCEPT !.mode = "REG", !.i_links_count = c] \in InodeType
  BY DEF InodeType
<1>4. [n EXCEPT !.i_dtime = TRUE] \in InodeType
  BY DEF InodeType
<1>5. n.i_links_count + 1 \in Nat /\ (n.i_links_count > 0 => n.i_links_count - 1 \in Nat)
  BY <1>1
<1> QED BY <1>2, <1>3, <1>4, <1>5

(* A place of an inode gets a block. *)
Gets(m, n, b, k) ==
  /\ m \in InodeType
  /\ \A l \in 1 .. NDIRECT : m.i_block[l] = IF l = k THEN b ELSE n.i_block[l]

(* Of a symlink. *)
LEMMA SymlinkGets ==
  ASSUME NEW n \in InodeType, NEW b \in Block, NEW k \in 1 .. NDIRECT
  PROVE  Gets([n EXCEPT !.mode = "LNK", !.i_block[k] = b], n, b, k)
<1> DEFINE m == [n EXCEPT !.mode = "LNK", !.i_block[k] = b]
<1>1. m \in InodeType
  BY DEF InodeType
<1>2. m.i_block = [n.i_block EXCEPT ![k] = b] /\ n.i_block \in [1 .. NDIRECT -> Block]
  BY DEF InodeType
<1> HIDE DEF m
<1>3. Gets(m, n, b, k)
  BY <1>1, <1>2 DEF Gets
<1> QED BY <1>3 DEF m

(* Of a new directory. *)
LEMMA DirectoryGets ==
  ASSUME NEW n \in InodeType, NEW b \in Block, NEW k \in 1 .. NDIRECT
  PROVE  Gets([n EXCEPT !.mode = "DIR", !.i_links_count = 2, !.i_blocks = 2, !.i_block[k] = b], n, b, k)
<1> DEFINE m == [n EXCEPT !.mode = "DIR", !.i_links_count = 2, !.i_blocks = 2, !.i_block[k] = b]
<1>1. m \in InodeType
  BY DEF InodeType
<1>2. m.i_block = [n.i_block EXCEPT ![k] = b] /\ n.i_block \in [1 .. NDIRECT -> Block]
  BY DEF InodeType
<1> HIDE DEF m
<1>3. Gets(m, n, b, k)
  BY <1>1, <1>2 DEF Gets
<1> QED BY <1>3 DEF m

(* Of a file that is copied. *)
LEMMA FileGets ==
  ASSUME NEW n \in InodeType, NEW b \in Block, NEW k \in 1 .. NDIRECT
  PROVE  Gets([n EXCEPT !.i_blocks = @ + 1, !.i_block[k] = b], n, b, k)
<1> DEFINE m == [n EXCEPT !.i_blocks = @ + 1, !.i_block[k] = b]
<1>1. m \in InodeType
  <2>1. n.i_blocks + 1 \in Nat
    BY DEF InodeType
  <2>2. \A c \in Nat : [n EXCEPT !.i_blocks = c, !.i_block[k] = b] \in InodeType
    BY DEF InodeType
  <2> QED BY <2>1, <2>2
<1>2. m.i_block = [n.i_block EXCEPT ![k] = b] /\ n.i_block \in [1 .. NDIRECT -> Block]
  BY DEF InodeType
<1> HIDE DEF m
<1>3. Gets(m, n, b, k)
  BY <1>1, <1>2 DEF Gets
<1> QED BY <1>3 DEF m

(* allocate for a regular file. *)
LEMMA AllocateFileSound ==
  ASSUME NEW d, Sound(d), NEW ino
  PROVE  Sound(AllocateFile(d, ino))
<1> DEFINE e == AllocateFile(d, ino)
<1>1. DOMAIN d = Fields /\ d.in \in [Inode -> InodeType]
  BY DEF Sound, Table
<1>2. DOMAIN e = Fields /\ SameBits(e, d) /\ DOMAIN e.in = Inode
  BY <1>1 DEF SameBits, Fields, AllocateFile
<1>3. ASSUME NEW i \in Inode
      PROVE  e.in[i] = IF i = ino
                       THEN [d.in[i] EXCEPT !.mode = "REG", !.i_links_count = d.in[i].i_links_count + 1]
                       ELSE d.in[i]
  BY <1>1 DEF Fields, AllocateFile, InodeType
<1>4. e.in = [i \in Inode |-> e.in[i]]
  BY <1>1 DEF Fields, AllocateFile
<1> HIDE DEF e
<1>5. \A i \in Inode : d.in[i] \in InodeType
  BY <1>1
<1>6. \A i \in Inode : e.in[i] \in InodeType
  BY <1>3, <1>5, InodeUpdates
<1>7. \A i \in Inode : e.in[i].i_block = d.in[i].i_block
  BY <1>3, <1>5 DEF InodeType
<1>8. Table(e)
  <2>1. e.in \in [Inode -> InodeType]
    BY <1>4, <1>6
  <2> QED BY <1>2, <2>1 DEF Table
<1>9. Sound(e)
  BY <1>2, <1>7, <1>8, SameBlocksSound
<1> QED BY <1>9 DEF e

(* The parent's link for .. of a new directory. *)
LEMMA ParentLinkedSound ==
  ASSUME NEW d, Sound(d), NEW parent
  PROVE  Sound(ParentLinked(d, parent))
<1> DEFINE e == ParentLinked(d, parent)
<1>1. DOMAIN d = Fields /\ d.in \in [Inode -> InodeType]
  BY DEF Sound, Table
<1>2. DOMAIN e = Fields /\ SameBits(e, d) /\ DOMAIN e.in = Inode
  BY <1>1 DEF SameBits, Fields, ParentLinked
<1>3. ASSUME NEW i \in Inode
      PROVE  e.in[i] = IF i = parent THEN [d.in[i] EXCEPT !.i_links_count = @ + 1] ELSE d.in[i]
  BY <1>1 DEF Fields, ParentLinked, InodeType
<1>4. e.in = [i \in Inode |-> e.in[i]]
  BY <1>1 DEF Fields, ParentLinked
<1> HIDE DEF e
<1>5. \A i \in Inode : d.in[i] \in InodeType
  BY <1>1
<1>6. \A i \in Inode : e.in[i] \in InodeType
  BY <1>3, <1>5, InodeUpdates
<1>7. \A i \in Inode : e.in[i].i_block = d.in[i].i_block
  BY <1>3, <1>5 DEF InodeType
<1>8. Table(e)
  <2>1. e.in \in [Inode -> InodeType]
    BY <1>4, <1>6
  <2> QED BY <1>2, <2>1 DEF Table
<1>9. Sound(e)
  BY <1>2, <1>7, <1>8, SameBlocksSound
<1> QED BY <1>9 DEF e

(* An image in which the block that was just taken is in the inode's k-th  *)
(* place.                                                                  *)
LEMMA GetsSound ==
  ASSUME NEW d, Sound(d), NEW e, DOMAIN e = Fields, SameBits(e, TakeBlock(d)), NEW ino,
         NEW k \in 1 .. NDIRECT, e.in = [i \in Inode |-> e.in[i]],
         \A i \in Inode : i # ino => e.in[i] = d.in[i],
         ino \in Inode => Gets(e.in[ino], d.in[ino], NextBlock(d), k)
  PROVE  Sound(e)
<1>1. \A i \in Inode : d.in[i] \in InodeType
  BY DEF Sound, Table
<1>2. \A i \in Inode : e.in[i] \in InodeType
  BY <1>1 DEF Gets
<1>3. Table(e)
  <2>1. e.in \in [Inode -> InodeType]
    BY <1>2
  <2> QED BY <2>1 DEF Table
<1>4. GivenTo(e, d, ino, k)
  <2> SUFFICES ASSUME NEW i \in Inode, NEW l \in 1 .. NDIRECT
               PROVE  e.in[i].i_block[l] = IF i = ino /\ l = k THEN NextBlock(d)
                                           ELSE d.in[i].i_block[l]
    BY DEF GivenTo
  <2>1. CASE i = ino
    BY <2>1 DEF Gets
  <2>2. CASE i # ino
    BY <2>2
  <2> QED BY <2>1, <2>2
<1> QED BY <1>3, <1>4, BlockGiven

(* allocate for a symlink: the block that was taken is its first. *)
LEMMA AllocateSymlinkSound ==
  ASSUME NEW d, Sound(d), NEW ino, NEW path
  PROVE  Sound(AllocateSymlink(d, ino, path))
<1> DEFINE b == NextBlock(d)
           w == WriteBytes(TakeBlock(d), b)
           e == AllocateSymlink(d, ino, path)
           t == [c \in DOMAIN w.text \cup {b} |-> IF c = b THEN path ELSE w.text[c]]
<1>1. /\ Sound(w) /\ SameBits(w, TakeBlock(d)) /\ w.in = d.in /\ b \in Block
  BY TakeBlockSound, WriteBytesSound
<1>2. e = [w EXCEPT !.in[ino].mode = "LNK", !.in[ino].i_block[1] = b, !.text = t]
  BY DEF AllocateSymlink
<1> HIDE DEF e, w, b, t
<1>3. DOMAIN w = Fields /\ d.in \in [Inode -> InodeType]
  BY <1>1 DEF Sound, Table
<1>4. DOMAIN e = Fields /\ SameBits(e, TakeBlock(d))
  BY <1>1, <1>2, <1>3 DEF SameBits, Fields
<1>5. ASSUME NEW i \in Inode
      PROVE  e.in[i] = IF i = ino THEN [d.in[i] EXCEPT !.mode = "LNK", !.i_block[1] = b] ELSE d.in[i]
  BY <1>1, <1>2, <1>3 DEF Fields, InodeType
<1>6. e.in = [i \in Inode |-> e.in[i]]
  BY <1>1, <1>2, <1>3 DEF Fields
<1>7. 1 \in 1 .. NDIRECT
  BY Ext2DiskAssumption
<1>8. ASSUME ino \in Inode PROVE Gets(e.in[ino], d.in[ino], b, 1)
  <2> DEFINE link == [d.in[ino] EXCEPT !.mode = "LNK", !.i_block[1] = b]
  <2>1. Gets(link, d.in[ino], b, 1)
    BY <1>1, <1>3, <1>7, <1>8, SymlinkGets
  <2>2. e.in[ino] = link
    BY <1>5, <1>8
  <2> QED BY <2>1, <2>2
<1>9. Sound(e)
  <2>1. \A i \in Inode : i # ino => e.in[i] = d.in[i]
    BY <1>5
  <2>2. ino \in Inode => Gets(e.in[ino], d.in[ino], NextBlock(d), 1)
    BY <1>8 DEF b
  <2> QED BY <1>4, <1>6, <1>7, <2>1, <2>2, GetsSound
<1> QED BY <1>9 DEF e

(* allocate for a directory: a block with two entries is its first. *)
LEMMA AllocateDirSound ==
  ASSUME NEW d, Sound(d), NEW ino, NEW parent
  PROVE  Sound(AllocateDir(d, ino, parent))
<1> DEFINE b == NextBlock(d)
           w == TakeBlock(d)
           bytes == w.bytes \ {b}
           text  == [c \in DOMAIN w.text \ {b} |-> w.text[c]]
           data  == [c \in DOMAIN w.data \cup {b} |->
                       IF c = b THEN TwoEntries(ino, parent) ELSE w.data[c]]
           e == [w EXCEPT !.in[ino] = [@ EXCEPT !.mode = "DIR", !.i_links_count = 2, !.i_blocks = 2,
                                               !.i_block[1] = b],
                          !.bytes = bytes, !.text = text, !.data = data]
<1>1. AllocateDir(d, ino, parent) = ParentLinked(e, parent)
  BY DEF AllocateDir
<1>2. Sound(w) /\ w.in = d.in /\ b \in Block
  BY TakeBlockSound
<1> HIDE DEF b, w, bytes, text, data
<1>3. DOMAIN w = Fields /\ d.in \in [Inode -> InodeType]
  BY <1>2 DEF Sound, Table
<1>4. DOMAIN e = Fields /\ SameBits(e, w)
  BY <1>3 DEF SameBits, Fields
<1>5. ASSUME NEW i \in Inode
      PROVE  e.in[i] = IF i = ino
                       THEN [d.in[i] EXCEPT !.mode = "DIR", !.i_links_count = 2, !.i_blocks = 2,
                                            !.i_block[1] = b]
                       ELSE d.in[i]
  BY <1>2, <1>3 DEF Fields
<1>6. e.in = [i \in Inode |-> e.in[i]]
  BY <1>2, <1>3 DEF Fields
<1> HIDE DEF e
<1>7. 1 \in 1 .. NDIRECT
  BY Ext2DiskAssumption
<1>8. ASSUME ino \in Inode PROVE Gets(e.in[ino], d.in[ino], b, 1)
  <2>1. d.in[ino] \in InodeType
    BY <1>3, <1>8
  <2> DEFINE dir == [d.in[ino] EXCEPT !.mode = "DIR", !.i_links_count = 2, !.i_blocks = 2,
                                      !.i_block[1] = b]
  <2>2. Gets(dir, d.in[ino], b, 1)
    BY <1>2, <1>7, <2>1, DirectoryGets
  <2>3. e.in[ino] = dir
    BY <1>5, <1>8
  <2> QED BY <2>2, <2>3
<1>9. Sound(e)
  <2>1. \A i \in Inode : i # ino => e.in[i] = d.in[i]
    BY <1>5
  <2>2. SameBits(e, TakeBlock(d)) /\ (ino \in Inode => Gets(e.in[ino], d.in[ino], NextBlock(d), 1))
    BY <1>4, <1>8 DEF b, w
  <2> QED BY <1>4, <1>6, <1>7, <2>1, <2>2, GetsSound
<1> QED BY <1>1, <1>9, ParentLinkedSound

(* One turn of the loop of copy, and its last one. *)
Turn(e, ino, n, k) ==
  LET b == NextBlock(e)
  IN  [(IF k <= n THEN WriteBytes(TakeBlock(e), b) ELSE TakeBlock(e)) EXCEPT
         !.in[ino].i_blocks = @ + 1, !.in[ino].i_block[k] = b]
Turns(n) == IF n < NDIRECT THEN n + 1 ELSE NDIRECT
Along(d, ino, n, v, c) ==
  v = [k \in 0 .. c |-> IF k = 0 THEN d ELSE Turn(v[k - 1], ino, n, k)]

(* The images after each turn of the loop of copy. *)
Loop(w, d, ino, n) ==
  /\ w[0] = d
  /\ \A k \in 1 .. Turns(n) : w[k] = Turn(w[k - 1], ino, n, k)
  /\ Copied(d, ino, n) = w[Turns(n)]

(* There are such images. *)
LEMMA CopiedIs ==
  ASSUME NEW d, NEW ino, NEW n \in Nat
  PROVE  /\ Turns(n) \in 1 .. NDIRECT
         /\ \E w : Loop(w, d, ino, n)
<1> DEFINE c == Turns(n)
           w == CHOOSE v : Along(d, ino, n, v, c)
<1>1. c \in Nat /\ c >= 1 /\ c \in 1 .. NDIRECT
  BY Ext2DiskAssumption DEF Turns
<1>2. Copied(d, ino, n) = w[c]
  BY DEF Copied, Along, Turn, Turns
<1> HIDE DEF c
<1>3. \E v : Along(d, ino, n, v, c)
  <2> DEFINE Bad == {m \in Nat : ~(\E v : Along(d, ino, n, v, m))}
  <2> SUFFICES ASSUME Bad # {} PROVE FALSE
    BY <1>1
  <2>1. PICK m \in Bad : \A j \in Bad : m <= j
    BY MinIn
  <2>2. CASE m = 0
    <3> DEFINE v == [k \in 0 .. 0 |-> d]
    <3>1. Along(d, ino, n, v, 0)
      BY DEF Along
    <3> QED BY <2>2, <3>1
  <2>3. CASE m # 0
    <3>1. m - 1 \in Nat /\ m - 1 \notin Bad /\ m \in Nat
      BY <2>1, <2>3
    <3>2. PICK v : Along(d, ino, n, v, m - 1)
      BY <3>1
    <3> DEFINE u == [k \in 0 .. m |-> IF k = m THEN Turn(v[m - 1], ino, n, m) ELSE v[k]]
    <3>3. \A k \in 0 .. m - 1 : v[k] = IF k = 0 THEN d ELSE Turn(v[k - 1], ino, n, k)
      BY <3>2 DEF Along
    <3>4. ASSUME NEW k \in 0 .. m
          PROVE  u[k] = IF k = 0 THEN d ELSE Turn(u[k - 1], ino, n, k)
      BY <2>3, <3>1, <3>3
    <3>5. Along(d, ino, n, u, m)
      BY <3>4 DEF Along
    <3> QED BY <3>5
  <2> QED BY <2>2, <2>3
<1>4. Along(d, ino, n, w, c)
  BY <1>3
<1> HIDE DEF w
<1>5. \A k \in 0 .. c : w[k] = IF k = 0 THEN d ELSE Turn(w[k - 1], ino, n, k)
  BY <1>4 DEF Along
<1>6. w[0] = d /\ \A k \in 1 .. c : w[k] = Turn(w[k - 1], ino, n, k)
  BY <1>1, <1>5
<1>7. Loop(w, d, ino, n)
  BY <1>2, <1>6 DEF Loop, c
<1> QED BY <1>1, <1>7 DEF c

(* One turn gives the inode a block; a block given to nobody is 0. *)
LEMMA TurnSound ==
  ASSUME NEW d, Sound(d), NEW ino, NEW n, NEW k \in 1 .. NDIRECT
  PROVE  Sound(Turn(d, ino, n, k))
<1> DEFINE b == NextBlock(d)
           w == IF k <= n THEN WriteBytes(TakeBlock(d), b) ELSE TakeBlock(d)
           e == [w EXCEPT !.in[ino].i_blocks = @ + 1, !.in[ino].i_block[k] = b]
<1>1. /\ Sound(w) /\ SameBits(w, TakeBlock(d)) /\ w.in = d.in /\ b \in Block
  BY TakeBlockSound, WriteBytesSound DEF SameBits
<1>2. Turn(d, ino, n, k) = e
  BY DEF Turn
<1> HIDE DEF w, b
<1>3. DOMAIN w = Fields /\ d.in \in [Inode -> InodeType]
  BY <1>1 DEF Sound, Table
<1>4. DOMAIN e = Fields /\ SameBits(e, TakeBlock(d))
  BY <1>1, <1>3 DEF SameBits, Fields
<1>5. ASSUME NEW i \in Inode
      PROVE  e.in[i] = IF i = ino THEN [d.in[i] EXCEPT !.i_blocks = @ + 1, !.i_block[k] = b]
                       ELSE d.in[i]
  BY <1>1, <1>3 DEF Fields, InodeType
<1>6. e.in = [i \in Inode |-> e.in[i]]
  BY <1>1, <1>3 DEF Fields
<1> HIDE DEF e
<1>7. ASSUME ino \in Inode PROVE Gets(e.in[ino], d.in[ino], b, k)
  <2> DEFINE file == [d.in[ino] EXCEPT !.i_blocks = @ + 1, !.i_block[k] = b]
  <2>1. Gets(file, d.in[ino], b, k)
    BY <1>1, <1>3, <1>7, FileGets
  <2>2. e.in[ino] = file
    BY <1>5, <1>7
  <2> QED BY <2>1, <2>2
<1>8. Sound(e)
  <2>1. \A i \in Inode : i # ino => e.in[i] = d.in[i]
    BY <1>5
  <2>2. ino \in Inode => Gets(e.in[ino], d.in[ino], NextBlock(d), k)
    BY <1>7 DEF b
  <2> QED BY <1>4, <1>6, <2>1, <2>2, GetsSound
<1> QED BY <1>2, <1>8

(* The loop of ext2_cp over the blocks of a file, however far it gets. *)
LEMMA CopiedSound ==
  ASSUME NEW d, Sound(d), NEW ino, NEW n \in Nat
  PROVE  Sound(Copied(d, ino, n))
<1>0. PICK w : Loop(w, d, ino, n)
  BY CopiedIs
<1>1. /\ w[0] = d
      /\ \A k \in 1 .. Turns(n) : w[k] = Turn(w[k - 1], ino, n, k)
      /\ Copied(d, ino, n) = w[Turns(n)]
  BY <1>0 DEF Loop
<1>2. Turns(n) \in 1 .. NDIRECT /\ NDIRECT \in Nat
  BY CopiedIs, Ext2DiskAssumption
<1>3. \A k \in 0 .. Turns(n) : Sound(w[k])
  <2> DEFINE Bad == {k \in 0 .. Turns(n) : ~Sound(w[k])}
  <2> SUFFICES ASSUME Bad # {} PROVE FALSE
    OBVIOUS
  <2>1. Bad \in SUBSET Nat
    BY <1>2
  <2>2. PICK k \in Bad : \A j \in Bad : k <= j
    BY <2>1, MinIn
  <2>3. k # 0
    BY <1>1, <2>2
  <2>4. k - 1 \in 0 .. Turns(n) /\ k \in 1 .. Turns(n) /\ k \in 1 .. NDIRECT
    BY <1>2, <2>3
  <2>5. Sound(w[k - 1])
    BY <2>2, <2>4
  <2>6. Sound(w[k])
    BY <1>1, <2>4, <2>5, TurnSound
  <2> QED BY <2>6
<1> QED BY <1>1, <1>2, <1>3

------------------------------------------------------------------------------
(* remove_link: one bit that is set is cleared, or none. *)
LEMMA RemoveLinkSound ==
  ASSUME NEW d, Sound(d), NEW ino, NEW used
  PROVE  Sound(remove_link(d, ino, used))
<1> DEFINE links == d.in[ino].i_links_count
           e == IF links > 0 THEN [d EXCEPT !.in[ino].i_links_count = @ - 1] ELSE d
           bits == BitsOf(d, ino, used)
           x == Min(bits)
<1>1. DOMAIN d = Fields /\ d.in \in [Inode -> InodeType]
  BY DEF Sound, Table
<1>2. Sound(e) /\ SameBits(e, d)
  <2>1. CASE ~(links > 0)
    BY <2>1 DEF SameBits
  <2>2. CASE links > 0
    <3>1. DOMAIN e = Fields /\ SameBits(e, d)
      BY <1>1, <2>2 DEF SameBits, Fields
    <3>2. ASSUME NEW i \in Inode
          PROVE  e.in[i] = IF i = ino THEN [d.in[i] EXCEPT !.i_links_count = @ - 1] ELSE d.in[i]
      BY <1>1, <2>2 DEF Fields, InodeType
    <3>3. e.in = [i \in Inode |-> e.in[i]]
      BY <1>1, <2>2 DEF Fields
    <3>4. links > 0
      BY <2>2
    <3> HIDE DEF e
    <3>5. \A i \in Inode : d.in[i] \in InodeType
      BY <1>1
    <3>6. \A i \in Inode : e.in[i] \in InodeType
      BY <3>2, <3>4, <3>5, InodeUpdates
    <3>7. \A i \in Inode : e.in[i].i_block = d.in[i].i_block
      BY <3>2, <3>5 DEF InodeType
    <3>8. Table(e)
      <4>1. e.in \in [Inode -> InodeType]
        BY <3>3, <3>6
      <4> QED BY <3>1, <4>1 DEF Table
    <3> QED BY <3>1, <3>7, <3>8, SameBlocksSound
  <2> QED BY <2>1, <2>2
<1> HIDE DEF e
<1>3. CASE ino = 0
  BY <1>3 DEF remove_link
<1>4. CASE ino # 0 /\ links = 1 /\ bits # {}
  <2> DEFINE f == [e EXCEPT !.bmi = @ \ {x}, !.freeInodes = @ + 1]
  <2>1. remove_link(d, ino, used) = f
    BY <1>4 DEF remove_link, e
  <2>2. bits \in SUBSET Nat
    BY Ext2DiskAssumption DEF BitsOf, Sound, Counted, Index
  <2>3. x \in e.bmi
    BY <1>2, <1>4, <2>2, MinIn DEF BitsOf, SameBits
  <2> HIDE DEF x
  <2>4. /\ DOMAIN f = Fields /\ f.bmi = e.bmi \ {x} /\ f.freeInodes = e.freeInodes + 1
        /\ f.bm = e.bm /\ f.freeBlocks = e.freeBlocks /\ f.in = e.in
    BY <1>2 DEF Sound, Table, Fields
  <2>5. IsFiniteSet(Index)
    BY Ext2DiskAssumption, FS_Interval DEF Index
  <2>6. Cardinality(Index \ (e.bmi \ {x})) = Cardinality(Index \ e.bmi) + 1
    BY <1>2, <2>3, <2>5, BitFreed DEF Sound, Counted
  <2> HIDE DEF f
  <2>7. Sound(f)
    BY <1>2, <2>4, <2>6 DEF Sound, Table, Counted, Owned
  <2> QED BY <2>1, <2>7
<1>5. CASE ino # 0 /\ ~(links = 1 /\ bits # {})
  <2> DEFINE f == [e EXCEPT !.in[ino].i_dtime = TRUE]
  <2>1. remove_link(d, ino, used) = f
    BY <1>5 DEF remove_link, e
  <2>2. DOMAIN e = Fields /\ e.in \in [Inode -> InodeType]
    BY <1>2 DEF Sound, Table
  <2>3. DOMAIN f = Fields /\ SameBits(f, e)
    BY <2>2 DEF SameBits, Fields
  <2>4. ASSUME NEW i \in Inode
        PROVE  f.in[i] = IF i = ino THEN [e.in[i] EXCEPT !.i_dtime = TRUE] ELSE e.in[i]
    BY <2>2 DEF Fields, InodeType
  <2>5. f.in = [i \in Inode |-> f.in[i]]
    BY <2>2 DEF Fields
  <2> HIDE DEF f
  <2>6. \A i \in Inode : f.in[i] \in InodeType /\ f.in[i].i_block = e.in[i].i_block
    <3> TAKE i \in Inode
    <3>1. e.in[i] \in InodeType
      BY <2>2
    <3>2. [e.in[i] EXCEPT !.i_dtime = TRUE] \in InodeType
      BY <3>1, InodeUpdates
    <3>3. [e.in[i] EXCEPT !.i_dtime = TRUE].i_block = e.in[i].i_block
      BY <3>1 DEF InodeType
    <3> QED BY <2>4, <3>1, <3>2, <3>3
  <2>7. Table(f)
    <3>1. f.in \in [Inode -> InodeType]
      BY <2>5, <2>6
    <3> QED BY <2>3, <3>1 DEF Table
  <2>8. Sound(f)
    BY <1>2, <2>3, <2>6, <2>7, SameBlocksSound
  <2> QED BY <2>1, <2>8
<1> QED BY <1>3, <1>4, <1>5

------------------------------------------------------------------------------
(* Create, of mkdir and cp, on each of its ways out. *)
LEMMA CreateSound ==
  ASSUME Sound(disk), NEW parent, NEW name, NEW type, NEW n \in Nat, NEW code,
         Create(parent, name, type, n, code)
  PROVE  Sound(disk)'
<1> DEFINE b      == find_dir_block_pos(parent)
           ino    == NextInode(disk)
           d      == TakeInode(disk)
           linked == create_link(d, b, ino, name, type)
           room   == Room(d, b, name, type)
           made   == IF type = "DIR" THEN AllocateDir(linked, ino, parent)
                     ELSE Copied(AllocateFile(linked, ino), ino, n)
<1>1. Sound(d) /\ Sound(linked)
  BY TakeInodeSound, CreateLinkSound
<1> HIDE DEF d, linked
<1>2. Sound(AllocateDir(linked, ino, parent))
  BY <1>1, AllocateDirSound
<1>3. Sound(Copied(AllocateFile(linked, ino), ino, n))
  BY <1>1, AllocateFileSound, CopiedSound
<1>4. Sound(made)
  BY <1>2, <1>3
<1> HIDE DEF made
<1>5. disk' \in {d, linked, made}
  BY DEF Create, Crash, d, linked, made
<1> QED BY <1>1, <1>4, <1>5

(* Every run of a tool leaves a sound image, also when it crashes. *)
LEMMA StepSound ==
  ASSUME Sound(disk), [Next]_vars
  PROVE  Sound(disk)'
<1>1. CASE UNCHANGED vars
  BY <1>1 DEF vars
<1>2. ASSUME NEW p \in Paths, mkdir(p) PROVE Sound(disk)'
  <2>1. UNCHANGED disk \/ \E name, code : Create(Parent(p), name, "DIR", 0, code)
    BY <1>2 DEF mkdir, Return
  <2> QED BY <2>1, CreateSound
<1>3. ASSUME NEW name \in Names, NEW n \in 0 .. MaxBlocks, NEW p \in Paths, cp(name, n, p)
      PROVE  Sound(disk)'
  <2>1. UNCHANGED disk \/ \E parent : Create(parent, name, "REG", n, "0")
    BY <1>3 DEF cp, Return
  <2> QED BY <2>1, CreateSound
<1>4. ASSUME cp_refused PROVE Sound(disk)'
  BY <1>4 DEF cp_refused, Return
<1>5. ASSUME NEW p \in Paths, NEW q \in Paths, ln(p, q) PROVE Sound(disk)'
  <2>1. \/ disk' = disk
        \/ \E b, ino, name : disk' = AllocateFile(create_link(disk, b, ino, name, "REG"), ino)
    BY <1>5 DEF ln, Return, Crash
  <2> QED BY <2>1, CreateLinkSound, AllocateFileSound
<1>6. ASSUME NEW p \in Paths, NEW q \in Paths, ln_s(p, q) PROVE Sound(disk)'
  <2> DEFINE d == TakeInode(disk)
             Linked(b, ino) == create_link(d, b, ino, Last(q), "LNK")
  <2>1. Sound(d) /\ \A b, ino : Sound(Linked(b, ino))
    BY TakeInodeSound, CreateLinkSound
  <2>2. \A b, ino : Sound(AllocateSymlink(Linked(b, ino), ino, q))
    BY <2>1, AllocateSymlinkSound
  <2>3. \/ disk' = disk \/ disk' = d
        \/ \E b, ino : disk' = Linked(b, ino) \/ disk' = AllocateSymlink(Linked(b, ino), ino, q)
    BY <1>6 DEF ln_s, Return, Crash
  <2> QED BY <2>1, <2>2, <2>3
<1>7. ASSUME NEW p \in Paths, rm(p) PROVE Sound(disk)'
  <2>1. disk' = disk \/ \E b, k, ino, used : disk' = remove_link(Unlink(disk, b, k), ino, used)
    BY <1>7 DEF rm, Return
  <2> QED BY <2>1, UnlinkSound, RemoveLinkSound
<1> QED BY <1>1, <1>2, <1>3, <1>4, <1>5, <1>6, <1>7 DEF Next

(* Whatever the tools do, and wherever they crash, the image stays sound:  *)
(* the inductive invariant of the two results below.                       *)
THEOREM ImageSound == Spec => []Sound(disk)
<1>1. Init => Sound(disk)
  BY MkfsSound DEF Init
<1>2. Sound(disk) /\ [Next]_vars => Sound(disk)'
  BY StepSound
<1> QED BY <1>1, <1>2, PTL DEF Spec

(* bg_free_inodes_count and bg_free_blocks_count agree with the bitmaps.   *)
THEOREM CountersCorrect == Spec => []CountersAgree
<1>1. Sound(disk) => CountersAgree
  BY DEF Sound, Counted, CountersAgree
<1> QED BY <1>1, ImageSound, PTL

(* No block belongs to two inodes or to two places of one, and the block   *)
(* bitmap has the bit of each block of an inode.                           *)
THEOREM BlocksNotShared == Spec => []NoSharedBlock
<1>1. Sound(disk) => NoSharedBlock
  BY DEF Sound, Owned, NoSharedBlock
<1> QED BY <1>1, ImageSound, PTL

------------------------------------------------------------------------------
(* Directory entries: their fields, that none lies over the next one       *)
(* unless ln -s is run, which sizes its entry without a header, and that   *)
(* they tile their block: Tiling(s, v) says that the walk by rec_len is at *)
(* the offset v[k] after k entries.  The first entry is a directory's own, *)
(* which ext2_rm refuses: what is unlinked has an entry before it.         *)
HardLinksOnly == "ln -s" \notin Tools
Proper(e) ==
  /\ DOMAIN e = {"inode", "name", "file_type", "rec_len"}
  /\ e.name \in NameOf /\ e.rec_len \in Nat /\ (HardLinksOnly => EntryFits(e))
ProperSeq(s) == \E S : s \in Seq(S) /\ \A e \in S : Proper(e)
Tiling(s, v) ==
  /\ v \in [0 .. Len(s) -> Nat] /\ v[0] = 0 /\ v[Len(s)] = EXT2_BLOCK_SIZE
  /\ \A k \in 1 .. Len(s) : v[k] = v[k - 1] + s[k].rec_len
Own(e) == e.file_type = "DIR" /\ e.name = "."
Tiled(s) == Len(s) \in Nat \ {0} /\ Own(s[1]) /\ \E v : Tiling(s, v)
Fit(d) == \A b \in DOMAIN d.data : ProperSeq(d.data[b]) /\ Tiled(d.data[b])

(* Lengths are those that the tools compute with. *)
LEMMA SizesEnough ==
  ASSUME NEW name \in NameOf
  PROVE  /\ strlen(name) \in Nat \ {0}
         /\ dir_size(name) \in Nat /\ dir_size(name) >= 8 + strlen(name)
         /\ \A type : /\ total_size(name, type) \in Nat
                      /\ type # "LNK" => total_size(name, type) >= 8 + strlen(name)
<1>1. strlen(name) \in Nat \ {0}
  BY Ext2DiskAssumption DEF NameOf
<1>2. \A n \in Nat : round_up(n) \in Nat /\ round_up(n) >= n
  BY DEF round_up
<1>3. 8 + strlen(name) \in Nat /\ 18 + strlen(name) \in Nat
  BY <1>1
<1>4. /\ round_up(8 + strlen(name)) \in Nat /\ round_up(8 + strlen(name)) >= 8 + strlen(name)
      /\ round_up(18 + strlen(name)) \in Nat /\ round_up(18 + strlen(name)) >= 18 + strlen(name)
  BY <1>2, <1>3
<1>5. round_up(18 + strlen(name)) >= 8 + strlen(name)
  BY <1>1, <1>4
<1> QED BY <1>1, <1>4, <1>5 DEF dir_size, total_size

(* An entry is shortened or lengthened, another put behind it or taken out. *)
LEMMA ProperChange ==
  ASSUME NEW s, ProperSeq(s), NEW k \in 1 .. Len(s), NEW e, Proper(e)
  PROVE  /\ ProperSeq([s EXCEPT ![k] = e])
         /\ Len([s EXCEPT ![k] = e]) = Len(s)
<1>1. PICK S : s \in Seq(S) /\ \A x \in S : Proper(x)
  BY DEF ProperSeq
<1>2. [s EXCEPT ![k] = e] \in Seq(S \cup {e}) /\ Len([s EXCEPT ![k] = e]) = Len(s)
  BY <1>1
<1> QED BY <1>1, <1>2 DEF ProperSeq

(* The elements of a sequence that an entry was put in or taken out of. *)
LEMMA InsertedAre ==
  ASSUME NEW S, NEW s \in Seq(S), NEW k \in 1 .. Len(s), NEW e \in S
  PROVE  LET t == InsertAt(s, k + 1, e) IN
         /\ t \in Seq(S) /\ Len(t) = Len(s) + 1
         /\ \A j \in 1 .. k : t[j] = s[j]
         /\ t[k + 1] = e
         /\ \A j \in k + 1 .. Len(s) : t[j + 1] = s[j]
<1> DEFINE a == SubSeq(s, 1, k)
           c == SubSeq(s, k + 1, Len(s))
           t == InsertAt(s, k + 1, e)
<1>1. /\ a \in Seq(S) /\ Len(a) = k /\ \A j \in 1 .. k : a[j] = s[j]
      /\ c \in Seq(S) /\ Len(c) = Len(s) - k /\ \A j \in 1 .. Len(s) - k : c[j] = s[j + k]
  OBVIOUS
<1>2. t = a \o <<e>> \o c
  <2>1. (k + 1) - 1 = k
    OBVIOUS
  <2> QED BY <2>1 DEF InsertAt
<1> HIDE DEF a, c, t
<1>3. /\ a \o <<e>> \in Seq(S) /\ Len(a \o <<e>>) = k + 1
      /\ \A j \in 1 .. k : (a \o <<e>>)[j] = s[j]
      /\ (a \o <<e>>)[k + 1] = e
  BY <1>1
<1> DEFINE q == a \o <<e>>
<1>4. t = q \o c
  BY <1>2
<1> HIDE DEF q
<1>5. /\ q \in Seq(S) /\ Len(q) = k + 1 /\ (\A j \in 1 .. k : q[j] = s[j]) /\ q[k + 1] = e
  BY <1>3 DEF q
<1>6. t \in Seq(S) /\ Len(t) = Len(s) + 1
  <2>1. Len(q \o c) = Len(q) + Len(c) /\ q \o c \in Seq(S)
    <3>1. q \in Seq(S) /\ c \in Seq(S)
      BY <1>1, <1>5
    <3> QED BY <3>1
  <2> QED BY <1>1, <1>4, <1>5, <2>1
<1>7. (\A j \in 1 .. k : t[j] = s[j]) /\ t[k + 1] = e
  BY <1>1, <1>4, <1>5
<1>8. ASSUME NEW j \in k + 1 .. Len(s) PROVE t[j + 1] = s[j]
  <2>1. t[j + 1] = c[j - k]
    BY <1>1, <1>4, <1>5
  <2> QED BY <1>1, <2>1
<1>9. QED BY <1>6, <1>7, <1>8 DEF t

(* RemoveAt. *)
LEMMA RemovedAre ==
  ASSUME NEW S, NEW s \in Seq(S), NEW k \in 1 .. Len(s)
  PROVE  LET t == RemoveAt(s, k) IN
         /\ t \in Seq(S) /\ Len(t) = Len(s) - 1
         /\ \A j \in 1 .. k - 1 : t[j] = s[j]
         /\ \A j \in k .. Len(s) - 1 : t[j] = s[j + 1]
<1> DEFINE a == SubSeq(s, 1, k - 1)
           c == SubSeq(s, k + 1, Len(s))
           t == RemoveAt(s, k)
<1>1. /\ a \in Seq(S) /\ Len(a) = k - 1 /\ \A j \in 1 .. k - 1 : a[j] = s[j]
      /\ c \in Seq(S) /\ Len(c) = Len(s) - k /\ \A j \in 1 .. Len(s) - k : c[j] = s[j + k]
  OBVIOUS
<1>2. t = a \o c
  BY DEF RemoveAt
<1> HIDE DEF a, c, t
<1>3. t \in Seq(S) /\ Len(t) = Len(s) - 1
  BY <1>1, <1>2
<1>4. \A j \in 1 .. k - 1 : t[j] = s[j]
  BY <1>1, <1>2
<1>5. ASSUME NEW j \in k .. Len(s) - 1 PROVE t[j] = s[j + 1]
  <2>1. t[j] = c[j - (k - 1)]
    BY <1>1, <1>2
  <2> QED BY <1>1, <2>1
<1>6. QED BY <1>3, <1>4, <1>5 DEF t

(* Proper entries stay proper. *)
LEMMA ProperInsert ==
  ASSUME NEW s, ProperSeq(s), NEW k \in 1 .. Len(s), NEW e, Proper(e)
  PROVE  LET t == InsertAt(s, k + 1, e) IN
         /\ ProperSeq(t) /\ Len(t) = Len(s) + 1
         /\ \A j \in 1 .. k : t[j] = s[j]
         /\ t[k + 1] = e
         /\ \A j \in k + 1 .. Len(s) : t[j + 1] = s[j]
<1>1. PICK S : s \in Seq(S) /\ \A x \in S : Proper(x)
  BY DEF ProperSeq
<1> DEFINE T == S \cup {e}
           t == InsertAt(s, k + 1, e)
<1>2. s \in Seq(T) /\ e \in T
  BY <1>1
<1>3. \A x \in T : Proper(x)
  BY <1>1
<1> HIDE DEF T
<1>4. /\ t \in Seq(T) /\ Len(t) = Len(s) + 1
      /\ (\A j \in 1 .. k : t[j] = s[j])
      /\ t[k + 1] = e
      /\ (\A j \in k + 1 .. Len(s) : t[j + 1] = s[j])
  BY <1>2, InsertedAre
<1> HIDE DEF t
<1>5. ProperSeq(t)
  BY <1>3, <1>4 DEF ProperSeq
<1> QED BY <1>4, <1>5 DEF t

(* Also those that remain. *)
LEMMA ProperRemove ==
  ASSUME NEW s, ProperSeq(s), NEW k \in 1 .. Len(s)
  PROVE  LET t == RemoveAt(s, k) IN
         /\ ProperSeq(t) /\ Len(t) = Len(s) - 1
         /\ \A j \in 1 .. k - 1 : t[j] = s[j]
         /\ \A j \in k .. Len(s) - 1 : t[j] = s[j + 1]
<1>1. PICK S : s \in Seq(S) /\ \A x \in S : Proper(x)
  BY DEF ProperSeq
<1> DEFINE t == RemoveAt(s, k)
<1>2. /\ t \in Seq(S) /\ Len(t) = Len(s) - 1
      /\ (\A j \in 1 .. k - 1 : t[j] = s[j])
      /\ (\A j \in k .. Len(s) - 1 : t[j] = s[j + 1])
  BY <1>1, RemovedAre
<1> HIDE DEF t
<1>3. ProperSeq(t)
  BY <1>1, <1>2 DEF ProperSeq
<1> QED BY <1>2, <1>3 DEF t

(* An entry is split in two, as create_link does. *)
LEMMA SplitTiled ==
  ASSUME NEW s, Tiled(s), NEW k \in 1 .. Len(s), NEW t, Len(t) = Len(s) + 1,
         \A j \in 1 .. k - 1 : t[j] = s[j],
         Own(s[k]) => Own(t[k]),
         t[k].rec_len \in Nat, t[k + 1].rec_len = s[k].rec_len - t[k].rec_len,
         t[k + 1].rec_len \in Nat,
         s[k].rec_len \in Nat,
         \A j \in k + 1 .. Len(s) : t[j + 1] = s[j]
  PROVE  Tiled(t)
<1>1. PICK v : Tiling(s, v)
  BY DEF Tiled
<1> DEFINE n == Len(s)
           w == [j \in 0 .. n + 1 |->
                   IF j < k THEN v[j] ELSE IF j = k THEN v[k - 1] + t[k].rec_len ELSE v[j - 1]]
<1>2. n \in Nat \ {0} /\ Len(t) = n + 1 /\ k \in 1 .. n
  BY DEF Tiled
<1>3. v \in [0 .. n -> Nat] /\ v[0] = 0 /\ v[n] = EXT2_BLOCK_SIZE /\ \A j \in 1 .. n : v[j] = v[j - 1] + s[j].rec_len
  BY <1>1 DEF Tiling
<1> HIDE DEF n
<1>4. w \in [0 .. n + 1 -> Nat]
  <2> SUFFICES ASSUME NEW j \in 0 .. n + 1 PROVE w[j] \in Nat
    OBVIOUS
  <2>0. \A i \in 0 .. n : v[i] \in Nat
    BY <1>3
  <2>1. CASE j < k
    <3>1. w[j] = v[j] /\ j \in 0 .. n
      BY <1>2, <2>1
    <3> QED BY <2>0, <3>1
  <2>2. CASE j = k
    <3>1. v[k - 1] \in Nat
      BY <1>2, <1>3
    <3> QED BY <1>2, <2>2, <3>1
  <2>3. CASE j > k
    <3>1. w[j] = v[j - 1] /\ j - 1 \in 0 .. n
      BY <1>2, <2>3
    <3> QED BY <2>0, <3>1
  <2> QED BY <1>2, <2>1, <2>2, <2>3
<1>5. w[0] = 0 /\ w[n + 1] = EXT2_BLOCK_SIZE
  <2>1. w[0] = v[0] /\ w[n + 1] = v[(n + 1) - 1] /\ (n + 1) - 1 = n
    BY <1>2
  <2> QED BY <1>3, <2>1
<1>6. ASSUME NEW j \in 1 .. n + 1 PROVE w[j] = w[j - 1] + t[j].rec_len
  <2>1. CASE j < k
    <3>1. t[j] = s[j] /\ w[j] = v[j] /\ w[j - 1] = v[j - 1] /\ j \in 1 .. n
      BY <1>2, <2>1
    <3> QED BY <1>3, <3>1
  <2>2. CASE j = k
    <3>1. w[k] = v[k - 1] + t[k].rec_len /\ w[k - 1] = v[k - 1]
      BY <1>2
    <3> QED BY <2>2, <3>1
  <2>3. CASE j = k + 1
    <3>1. w[k + 1] = v[k] /\ w[k] = v[k - 1] + t[k].rec_len /\ (k + 1) - 1 = k
      BY <1>2
    <3>2. v[k] = v[k - 1] + s[k].rec_len /\ v[k - 1] \in Nat
      BY <1>2, <1>3
    <3> HIDE DEF w
    <3>3. \A p, x, y, z \in Nat : z = x - y => p + x = (p + y) + z
      OBVIOUS
    <3>4. v[k - 1] + s[k].rec_len = (v[k - 1] + t[k].rec_len) + t[k + 1].rec_len
      BY <3>2, <3>3
    <3> QED BY <2>3, <3>1, <3>2, <3>4
  <2>4. CASE j > k + 1
    <3> DEFINE i == j - 1
    <3>1. i \in k + 1 .. n /\ j = i + 1 /\ i \in 1 .. n
      BY <1>2, <2>4
    <3> HIDE DEF i
    <3>2. w[i + 1] = v[i] /\ w[i] = v[i - 1]
      BY <1>2, <3>1
    <3>3. t[i + 1] = s[i]
      BY <1>2, <3>1 DEF n
    <3>4. v[i] = v[i - 1] + s[i].rec_len
      BY <1>3, <3>1
    <3>5. w[j] = v[i] /\ w[j - 1] = v[i - 1] /\ t[j] = s[i]
      BY <3>1, <3>2, <3>3, (i + 1) - 1 = i
    <3> QED BY <3>4, <3>5
  <2> QED BY <1>2, <2>1, <2>2, <2>3, <2>4
<1> HIDE DEF w
<1>7. Tiling(t, w)
  BY <1>2, <1>4, <1>5, <1>6 DEF Tiling
<1>8. Own(t[1])
  BY <1>2 DEF Tiled
<1> QED BY <1>2, <1>7, <1>8 DEF Tiled

(* What an entry says, apart from its length. *)
Triple(e) == <<e.name, e.inode, e.file_type>>
KeptIn(s) == {Triple(s[k]) : k \in DOMAIN s}

(* Splitting entry k to put another one behind it keeps what the others say. *)
LEMMA SplitKeeps ==
  ASSUME NEW s, NEW t, Len(s) \in Nat, DOMAIN s = 1 .. Len(s), DOMAIN t = 1 .. Len(t),
         NEW k \in 1 .. Len(s), Len(t) = Len(s) + 1,
         \A j \in 1 .. k - 1 : t[j] = s[j],
         Triple(t[k]) = Triple(s[k]),
         \A j \in k + 1 .. Len(s) : t[j + 1] = s[j]
  PROVE  KeptIn(s) \subseteq KeptIn(t) /\ KeptIn(t) \subseteq KeptIn(s) \cup {Triple(t[k + 1])}
<1>1. ASSUME NEW j \in DOMAIN s PROVE \E i \in DOMAIN t : Triple(t[i]) = Triple(s[j])
  <2>1. CASE j < k
    BY <2>1
  <2>2. CASE j = k
    BY <2>2
  <2>3. CASE j > k
    <3>1. j + 1 \in DOMAIN t /\ t[j + 1] = s[j]
      BY <2>3
    <3> QED BY <3>1
  <2> QED BY <2>1, <2>2, <2>3
<1>2. ASSUME NEW i \in DOMAIN t, i # k + 1 PROVE \E j \in DOMAIN s : Triple(t[i]) = Triple(s[j])
  <2>1. CASE i < k
    BY <2>1
  <2>2. CASE i = k
    BY <2>2
  <2>3. CASE i > k
    <3> DEFINE j == i - 1
    <3>1. j \in k + 1 .. Len(s) /\ j \in DOMAIN s /\ i = j + 1
      BY <1>2, <2>3
    <3> HIDE DEF j
    <3> QED BY <3>1
  <2> QED BY <2>1, <2>2, <2>3
<1> HIDE DEF Triple
<1>3. KeptIn(s) \subseteq KeptIn(t)
  BY <1>1 DEF KeptIn
<1>4. KeptIn(t) \subseteq KeptIn(s) \cup {Triple(t[k + 1])}
  BY <1>2 DEF KeptIn
<1> QED BY <1>3, <1>4

(* Also when two entries are merged: one of them is gone. *)
LEMMA MergeKeeps ==
  ASSUME NEW s, NEW t, Len(s) \in Nat, DOMAIN s = 1 .. Len(s), DOMAIN t = 1 .. Len(t),
         NEW k \in 2 .. Len(s), Len(t) = Len(s) - 1,
         \A j \in 1 .. k - 2 : t[j] = s[j],
         Triple(t[k - 1]) = Triple(s[k - 1]),
         \A j \in k .. Len(s) - 1 : t[j] = s[j + 1]
  PROVE  KeptIn(s) \subseteq KeptIn(t) \cup {Triple(s[k])}
<1>1. ASSUME NEW j \in DOMAIN s, j # k PROVE \E i \in DOMAIN t : Triple(t[i]) = Triple(s[j])
  <2>1. CASE j < k - 1
    BY <2>1
  <2>2. CASE j = k - 1
    BY <2>2
  <2>3. CASE j > k - 1
    <3> DEFINE i == j - 1
    <3>1. i \in k .. Len(s) - 1 /\ i \in DOMAIN t /\ j = i + 1
      BY <1>1, <2>3
    <3> HIDE DEF i
    <3> QED BY <3>1
  <2> QED BY <2>1, <2>2, <2>3
<1> QED BY <1>1 DEF KeptIn

(* An entry is merged with the one after it, as unlinking does. *)
LEMMA MergeTiled ==
  ASSUME NEW s, Tiled(s), NEW k \in 2 .. Len(s), NEW t, Len(t) = Len(s) - 1,
         \A j \in 1 .. k - 2 : t[j] = s[j],
         Own(s[k - 1]) => Own(t[k - 1]),
         s[k].rec_len \in Nat, s[k - 1].rec_len \in Nat,
         t[k - 1].rec_len = s[k - 1].rec_len + s[k].rec_len,
         \A j \in k .. Len(s) - 1 : t[j] = s[j + 1]
  PROVE  Tiled(t)
<1>1. PICK v : Tiling(s, v)
  BY DEF Tiled
<1> DEFINE n == Len(s)
           w == [j \in 0 .. n - 1 |-> IF j < k - 1 THEN v[j] ELSE v[j + 1]]
<1>2. n \in Nat \ {0} /\ Len(t) = n - 1 /\ k \in 2 .. n
  BY DEF Tiled
<1>3. v \in [0 .. n -> Nat] /\ v[0] = 0 /\ v[n] = EXT2_BLOCK_SIZE /\ \A j \in 1 .. n : v[j] = v[j - 1] + s[j].rec_len
  BY <1>1 DEF Tiling
<1> HIDE DEF n
<1>4. w \in [0 .. n - 1 -> Nat]
  <2>1. \A i \in 0 .. n : v[i] \in Nat
    BY <1>3
  <2>2. \A j \in 0 .. n - 1 : w[j] \in Nat
    BY <1>2, <2>1
  <2> QED BY <2>2
<1>5. w[0] = 0 /\ w[n - 1] = EXT2_BLOCK_SIZE
  BY <1>2, <1>3
<1>6. ASSUME NEW j \in 1 .. n - 1 PROVE w[j] = w[j - 1] + t[j].rec_len
  <2>1. CASE j < k - 1
    <3>1. t[j] = s[j] /\ w[j] = v[j] /\ w[j - 1] = v[j - 1] /\ j \in 1 .. n
      BY <1>2, <2>1
    <3> QED BY <1>3, <3>1
  <2>2. CASE j = k - 1
    <3>1. w[k - 1] = v[k] /\ w[(k - 1) - 1] = v[(k - 1) - 1]
      BY <1>2, (k - 1) + 1 = k
    <3>2. v[k] = v[k - 1] + s[k].rec_len /\ v[k - 1] = v[(k - 1) - 1] + s[k - 1].rec_len
          /\ v[(k - 1) - 1] \in Nat
      BY <1>2, <1>3
    <3> HIDE DEF w
    <3>3. \A p, x, y \in Nat : (p + x) + y = p + (x + y)
      OBVIOUS
    <3>4. v[k] = v[(k - 1) - 1] + t[k - 1].rec_len
      BY <3>2, <3>3
    <3> QED BY <2>2, <3>1, <3>4
  <2>3. CASE j > k - 1
    <3>1. w[j] = v[j + 1] /\ w[j - 1] = v[j] /\ j + 1 \in 1 .. n /\ (j + 1) - 1 = j
      BY <1>2, <2>3
    <3>2. t[j] = s[j + 1]
      <4>1. j \in k .. Len(s) - 1
        BY <1>2, <2>3 DEF n
      <4> QED BY <4>1
    <3>3. v[j + 1] = v[(j + 1) - 1] + s[j + 1].rec_len
      BY <1>3, <3>1
    <3> HIDE DEF w
    <3> QED BY <3>1, <3>2, <3>3
  <2> QED BY <1>2, <2>1, <2>2, <2>3
<1> HIDE DEF w
<1>7. Tiling(t, w)
  BY <1>2, <1>4, <1>5, <1>6 DEF Tiling
<1>8. Own(t[1])
  BY <1>2 DEF Tiled
<1>9. Len(t) \in Nat \ {0}
  BY <1>2
<1> QED BY <1>2, <1>7, <1>8, <1>9 DEF Tiled

(* Blocks of two and of three entries. *)
LEMMA ProperList ==
  ASSUME NEW x, NEW y, Proper(x), Proper(y), Own(x)
  PROVE  /\ x.rec_len + y.rec_len = EXT2_BLOCK_SIZE => ProperSeq(<<x, y>>) /\ Tiled(<<x, y>>)
         /\ \A z : Proper(z) /\ x.rec_len + y.rec_len + z.rec_len = EXT2_BLOCK_SIZE
               => ProperSeq(<<x, y, z>>) /\ Tiled(<<x, y, z>>)
<1>1. <<x, y>> \in Seq({x, y}) /\ \A z : <<x, y, z>> \in Seq({x, y, z})
  OBVIOUS
<1>2. /\ \A w \in {x, y} : Proper(w)
      /\ \A z : Proper(z) => \A w \in {x, y, z} : Proper(w)
  OBVIOUS
<1>3. ASSUME NEW s, NEW S, s \in Seq(S), \A w \in S : Proper(w) PROVE ProperSeq(s)
  BY <1>3 DEF ProperSeq
<1>4. ASSUME NEW z, Proper(z), x.rec_len + y.rec_len + z.rec_len = EXT2_BLOCK_SIZE
      PROVE  ProperSeq(<<x, y, z>>) /\ Tiled(<<x, y, z>>)
  <2> DEFINE s == <<x, y, z>>
             S == {x, y, z}
             v == [k \in 0 .. 3 |-> IF k = 0 THEN 0 ELSE IF k = 1 THEN x.rec_len
                                    ELSE IF k = 2 THEN x.rec_len + y.rec_len
                                    ELSE x.rec_len + y.rec_len + z.rec_len]
  <2>1. s \in Seq(S) /\ \A w \in S : Proper(w)
    BY <1>1, <1>2, <1>4
  <2>2. Len(s) = 3 /\ s[1] = x /\ s[2] = y /\ s[3] = z
    OBVIOUS
  <2> HIDE DEF s, S
  <2>3. ProperSeq(s)
    BY <1>3, <2>1
  <2>4. v \in [0 .. 3 -> Nat] /\ v[0] = 0 /\ v[3] = EXT2_BLOCK_SIZE
    BY <1>4 DEF Proper
  <2>5. \A k \in 1 .. 3 : v[k] = v[k - 1] + s[k].rec_len
    BY <1>4, <2>2 DEF Proper
  <2> HIDE DEF v
  <2>6. Tiling(s, v)
    BY <2>2, <2>4, <2>5 DEF Tiling
  <2>7. Tiled(s)
    BY <2>2, <2>6 DEF Tiled
  <2> QED BY <2>3, <2>7 DEF s
<1>5. ASSUME x.rec_len + y.rec_len = EXT2_BLOCK_SIZE PROVE ProperSeq(<<x, y>>) /\ Tiled(<<x, y>>)
  <2> DEFINE s == <<x, y>>
             S == {x, y}
             v == [k \in 0 .. 2 |-> IF k = 0 THEN 0 ELSE IF k = 1 THEN x.rec_len
                                    ELSE x.rec_len + y.rec_len]
  <2>1. s \in Seq(S) /\ \A w \in S : Proper(w)
    BY <1>1, <1>2
  <2>2. Len(s) = 2 /\ s[1] = x /\ s[2] = y
    OBVIOUS
  <2> HIDE DEF s, S
  <2>3. ProperSeq(s)
    BY <1>3, <2>1
  <2>4. v \in [0 .. 2 -> Nat] /\ v[0] = 0 /\ v[2] = EXT2_BLOCK_SIZE
    BY <1>5 DEF Proper
  <2>5. \A k \in 1 .. 2 : v[k] = v[k - 1] + s[k].rec_len
    BY <2>2 DEF Proper
  <2> HIDE DEF v
  <2>6. Tiling(s, v)
    BY <2>2, <2>4, <2>5 DEF Tiling
  <2>7. Tiled(s)
    BY <2>2, <2>6 DEF Tiled
  <2> QED BY <2>3, <2>7 DEF s
<1> QED BY <1>4, <1>5

(* The entries of a fresh image. *)
LEMMA MkfsFit == Fit(MkfsImage)
<1> USE Ext2DiskAssumption
<1> DEFINE B == EXT2_BLOCK_SIZE
           data == MkfsImage.data
           E(i, n, r) == [inode |-> i, name |-> n, file_type |-> "DIR", rec_len |-> r]
<1>1. DOMAIN data = {1, 2}
  BY DEF MkfsImage
<1>2. /\ data[1] = <<E(EXT2_ROOT_INO, ".", 12), E(EXT2_ROOT_INO, "..", 12), E(Reserved, "lost+found", B - 24)>>
      /\ data[2] = <<E(Reserved, ".", 12), [E(EXT2_ROOT_INO, "..", 12) EXCEPT !.rec_len = B - 12]>>
  BY DEF MkfsImage
<1>3. [E(EXT2_ROOT_INO, "..", 12) EXCEPT !.rec_len = B - 12] = E(EXT2_ROOT_INO, "..", B - 12)
  OBVIOUS
<1> HIDE DEF data
<1>4. \A n \in NameOf : \A i, r : r \in Nat /\ r >= 8 + strlen(n) => Proper(E(i, n, r))
  BY DEF Proper, EntryFits
<1>5. /\ Proper(E(EXT2_ROOT_INO, ".", 12)) /\ Proper(E(EXT2_ROOT_INO, "..", 12))
      /\ Proper(E(Reserved, "lost+found", B - 24)) /\ Proper(E(Reserved, ".", 12))
      /\ Proper(E(EXT2_ROOT_INO, "..", B - 12))
  <2>1. /\ "." \in NameOf /\ ".." \in NameOf /\ "lost+found" \in NameOf
        /\ 12 >= 8 + strlen(".") /\ 12 >= 8 + strlen("..") /\ B - 12 >= 8 + strlen("..")
        /\ B - 24 >= 8 + strlen("lost+found") /\ B - 24 \in Nat /\ B - 12 \in Nat /\ 12 \in Nat
    BY DEF NameOf
  <2> HIDE DEF E
  <2> QED BY <1>4, <2>1
<1>9. /\ \A i, n, r : Own(E(i, ".", r)) /\ E(i, n, r).rec_len = r
      /\ 12 + 12 + (B - 24) = B /\ 12 + (B - 12) = B
  BY DEF Own
<1> HIDE DEF E
<1>6. ProperSeq(data[1]) /\ Tiled(data[1])
  <2>1. data[1] = <<E(EXT2_ROOT_INO, ".", 12), E(EXT2_ROOT_INO, "..", 12), E(Reserved, "lost+found", B - 24)>>
    BY <1>2
  <2> DEFINE x == E(EXT2_ROOT_INO, ".", 12)
             y == E(EXT2_ROOT_INO, "..", 12)
             z == E(Reserved, "lost+found", B - 24)
  <2>2. /\ Proper(x) /\ Proper(y) /\ Proper(z) /\ Own(x)
        /\ x.rec_len + y.rec_len + z.rec_len = EXT2_BLOCK_SIZE
    BY <1>5, <1>9
  <2>3. data[1] = <<x, y, z>>
    BY <2>1
  <2> HIDE DEF x, y, z
  <2>4. ProperSeq(<<x, y, z>>) /\ Tiled(<<x, y, z>>)
    BY <2>2, ProperList
  <2> QED BY <2>3, <2>4
<1>7. ProperSeq(data[2]) /\ Tiled(data[2])
  <2>1. data[2] = <<E(Reserved, ".", 12), E(EXT2_ROOT_INO, "..", B - 12)>>
    BY <1>2, <1>3
  <2> QED BY <1>5, <1>9, <2>1, ProperList
<1>8. \A b \in DOMAIN data : ProperSeq(data[b]) /\ Tiled(data[b])
  BY <1>1, <1>6, <1>7
<1> QED BY <1>8 DEF Fit, data

(* What the tools do to directory blocks, one helper after the other.  A   *)
(* helper that does not touch them keeps them as they are.                 *)
LEMMA SameDataFit ==
  ASSUME NEW d, Fit(d), NEW e, e.data = d.data
  PROVE  Fit(e)
BY DEF Fit

(* create_link for directories and files: the entry with room keeps what   *)
(* its name needs, and what is left is enough for the new one.             *)
Added(new, old, x) ==
  /\ DOMAIN new = DOMAIN old
  /\ \A c \in DOMAIN old : /\ KeptIn(old[c]) \subseteq KeptIn(new[c])
                          /\ KeptIn(new[c]) \subseteq KeptIn(old[c]) \cup {x}

(* create_link leaves proper entries, in the room it found or in a new block. *)
LEMMA CreateLinkFit ==
  ASSUME NEW d, Sound(d), Fit(d), NEW b, NEW ino, NEW name \in NameOf, NEW type,
         HardLinksOnly => type # "LNK"
  PROVE  /\ Fit(create_link(d, b, ino, name, type))
         /\ Added(create_link(d, b, ino, name, type).data, d.data, <<name, ino, type>>)
<1> DEFINE e == create_link(d, b, ino, name, type)
           s == d.data[b]
           k == Min(Room(d, b, name, type))
           need == dir_size(s[k].name)
           new  == [inode |-> ino, name |-> name, file_type |-> type, rec_len |-> s[k].rec_len - need]
           short == [s[k] EXCEPT !.rec_len = need]
           t == InsertAt([s EXCEPT ![k] = short], k + 1, new)
<1>1. CASE Room(d, b, name, type) = {}
  BY <1>1 DEF create_link, Added
<1>2. CASE Room(d, b, name, type) # {}
  <2>1. DOMAIN d = Fields
    BY DEF Sound, Table
  <2>2. e = [d EXCEPT !.data[b] = t]
    BY <1>2 DEF create_link
  <2> HIDE DEF t
  <2>3. e.data = [d.data EXCEPT ![b] = t]
    BY <2>1, <2>2 DEF Fields
  <2>4. ASSUME b \in DOMAIN d.data
        PROVE  /\ ProperSeq(t) /\ Tiled(t)
               /\ KeptIn(s) \subseteq KeptIn(t) /\ KeptIn(t) \subseteq KeptIn(s) \cup {<<name, ino, type>>}
    <3>1. PICK S : s \in Seq(S) /\ \A x \in S : Proper(x)
      BY <2>4 DEF Fit, ProperSeq
    <3>2. DOMAIN s = 1 .. Len(s) /\ Len(s) \in Nat
      BY <3>1
    <3>3. Room(d, b, name, type) \subseteq 1 .. Len(s)
      BY <3>2 DEF Room
    <3>4. k \in Room(d, b, name, type)
      BY <1>2, <3>2, <3>3, MinIn
    <3> HIDE DEF k
    <3>5. k \in 1 .. Len(s) /\ need + total_size(name, type) <= s[k].rec_len
      BY <3>3, <3>4 DEF Room
    <3>6. Proper(s[k])
      BY <3>1, <3>5
    <3>7. /\ need \in Nat /\ need >= 8 + strlen(s[k].name) /\ strlen(s[k].name) \in Nat
          /\ total_size(name, type) \in Nat /\ strlen(name) \in Nat
          /\ HardLinksOnly => total_size(name, type) >= 8 + strlen(name)
      BY <3>6, SizesEnough DEF Proper
    <3>8. s[k].rec_len \in Nat
      BY <3>6 DEF Proper
    <3>9. Proper(short)
      <4>1. DOMAIN short = {"inode", "name", "file_type", "rec_len"} /\ short.name = s[k].name
            /\ short.rec_len = need
        BY <3>6 DEF Proper
      <4> HIDE DEF short, need
      <4> QED BY <3>6, <3>7, <4>1 DEF Proper, EntryFits
    <3>10. Proper(new)
      <4>1. DOMAIN new = {"inode", "name", "file_type", "rec_len"} /\ new.name = name
            /\ new.rec_len = s[k].rec_len - need
        OBVIOUS
      <4> HIDE DEF new, need
      <4>2. /\ s[k].rec_len - need \in Nat
            /\ HardLinksOnly => s[k].rec_len - need >= 8 + strlen(name)
        <5>1. \A r, m, t1, l \in Nat : m + t1 <= r =>
                r - m \in Nat /\ (t1 >= 8 + l => r - m >= 8 + l)
          OBVIOUS
        <5> HIDE DEF s, k
        <5> QED BY <3>5, <3>7, <3>8, <5>1
      <4> QED BY <4>1, <4>2 DEF Proper, EntryFits
    <3> DEFINE u == [s EXCEPT ![k] = short]
    <3>11. /\ short.rec_len = need /\ (Own(s[k]) => Own(short))
           /\ new.rec_len = s[k].rec_len - need /\ new.rec_len \in Nat
           /\ Triple(short) = Triple(s[k]) /\ Triple(new) = <<name, ino, type>>
           /\ u[k] = short /\ \A j \in 1 .. Len(s) : j # k => u[j] = s[j]
      <4>1. new.rec_len \in Nat
        BY <3>10 DEF Proper
      <4>2. Triple(short) = Triple(s[k]) /\ Triple(new) = <<name, ino, type>>
        BY <3>6 DEF Proper, Triple
      <4>3. Own(s[k]) => Own(short)
        BY <4>2 DEF Own, Triple
      <4> QED BY <3>2, <3>5, <3>6, <4>1, <4>2, <4>3 DEF Proper
    <3> HIDE DEF short, new, need
    <3>12. ProperSeq(s)
      BY <3>1 DEF ProperSeq
    <3>13. ProperSeq(u) /\ Len(u) = Len(s)
      BY <3>5, <3>9, <3>12, ProperChange
    <3>14. k \in 1 .. Len(u)
      BY <3>5, <3>13
    <3> HIDE DEF u
    <3>15. /\ ProperSeq(t) /\ Len(t) = Len(u) + 1
           /\ \A j \in 1 .. k : t[j] = u[j]
           /\ t[k + 1] = new
           /\ \A j \in k + 1 .. Len(u) : t[j + 1] = u[j]
      <4>1. t = InsertAt(u, k + 1, new)
        BY Zenon DEF t, u
      <4> QED BY <3>10, <3>13, <3>14, <4>1, ProperInsert
    <3>16. Tiled(s)
      BY <2>4 DEF Fit
    <3>17. /\ Len(t) = Len(s) + 1
           /\ \A j \in 1 .. k - 1 : t[j] = s[j]
           /\ t[k] = short /\ t[k + 1] = new
           /\ \A j \in k + 1 .. Len(s) : t[j + 1] = s[j]
      <4>1. Len(t) = Len(s) + 1
        BY <3>13, <3>15
      <4>2. \A j \in 1 .. k - 1 : j \in 1 .. k /\ j \in 1 .. Len(s) /\ j # k
        BY <3>2, <3>5
      <4>3. \A j \in 1 .. k - 1 : t[j] = s[j]
        BY <3>11, <3>15, <4>2
      <4>4. t[k] = short
        BY <3>5, <3>11, <3>15
      <4>5. \A j \in k + 1 .. Len(s) : j \in k + 1 .. Len(u) /\ j \in 1 .. Len(s) /\ j # k
        BY <3>2, <3>5, <3>13
      <4>6. \A j \in k + 1 .. Len(s) : t[j + 1] = s[j]
        BY <3>11, <3>15, <4>5
      <4> QED BY <3>15, <4>1, <4>3, <4>4, <4>6
    <3>18. Tiled(t)
      BY <3>5, <3>7, <3>8, <3>11, <3>16, <3>17, SplitTiled
    <3>19. DOMAIN t = 1 .. Len(t)
      BY <3>15 DEF ProperSeq
    <3>20. KeptIn(s) \subseteq KeptIn(t) /\ KeptIn(t) \subseteq KeptIn(s) \cup {Triple(t[k + 1])}
      BY <3>2, <3>5, <3>11, <3>17, <3>19, SplitKeeps
    <3> QED BY <3>11, <3>15, <3>17, <3>18, <3>20
  <2>5. \A c \in DOMAIN e.data : ProperSeq(e.data[c]) /\ Tiled(e.data[c])
    BY <2>3, <2>4 DEF Fit
  <2>6. Added(e.data, d.data, <<name, ino, type>>)
    BY <2>3, <2>4 DEF Added
  <2> QED BY <2>5, <2>6 DEF Fit
<1> QED BY <1>1, <1>2

(* allocate for a file writes to a block, whose entries are gone. *)
LEMMA WriteBytesFit ==
  ASSUME NEW d, Sound(d), Fit(d), NEW b
  PROVE  Fit(WriteBytes(d, b))
<1>1. DOMAIN d = Fields
  BY DEF Sound, Table
<1>2. WriteBytes(d, b).data = [c \in DOMAIN d.data \ {b} |-> d.data[c]]
  BY <1>1 DEF WriteBytes, Fields
<1>3. \A c \in DOMAIN WriteBytes(d, b).data :
        ProperSeq(WriteBytes(d, b).data[c]) /\ Tiled(WriteBytes(d, b).data[c])
  BY <1>2 DEF Fit
<1> QED BY <1>3 DEF Fit

(* allocate and the parent's link. *)
LEMMA AllocateFileFit ==
  ASSUME NEW d, Sound(d), Fit(d), NEW ino
  PROVE  Fit(AllocateFile(d, ino)) /\ Fit(ParentLinked(d, ino))
<1>1. DOMAIN d = Fields
  BY DEF Sound, Table
<1>2. AllocateFile(d, ino).data = d.data /\ ParentLinked(d, ino).data = d.data
  BY <1>1 DEF AllocateFile, ParentLinked, Fields
<1> QED BY <1>2, SameDataFit

(* The two entries of a new directory. *)
LEMMA AllocateDirFit ==
  ASSUME NEW d, Sound(d), Fit(d), NEW ino, NEW parent
  PROVE  Fit(AllocateDir(d, ino, parent))
<1> DEFINE b == NextBlock(d)
           w == TakeBlock(d)
           two == TwoEntries(ino, parent)
           e == AllocateDir(d, ino, parent)
<1>1. Sound(w) /\ w.data = d.data
  BY TakeBlockSound
<1>2. DOMAIN w = Fields
  BY <1>1 DEF Sound, Table
<1>3. e.data = [c \in DOMAIN w.data \cup {b} |-> IF c = b THEN two ELSE w.data[c]]
  BY <1>2 DEF AllocateDir, ParentLinked, Fields
<1>4. ProperSeq(two) /\ Tiled(two)
  <2> DEFINE x == [inode |-> ino, name |-> ".", file_type |-> "DIR", rec_len |-> 12]
             y == [inode |-> parent, name |-> "..", file_type |-> "DIR",
                   rec_len |-> EXT2_BLOCK_SIZE - 12]
  <2>1. /\ "." \in NameOf /\ ".." \in NameOf /\ 12 \in Nat /\ EXT2_BLOCK_SIZE - 12 \in Nat
        /\ 12 >= 8 + strlen(".") /\ EXT2_BLOCK_SIZE - 12 >= 8 + strlen("..")
    BY Ext2DiskAssumption DEF NameOf
  <2>2. /\ Proper(x) /\ Proper(y) /\ Own(x)
        /\ x.rec_len + y.rec_len = EXT2_BLOCK_SIZE
    <3>1. Proper(x) /\ Proper(y)
      BY <2>1 DEF Proper, EntryFits
    <3>2. Own(x) /\ x.rec_len = 12 /\ y.rec_len = EXT2_BLOCK_SIZE - 12
      BY DEF Own
    <3>3. 12 + (EXT2_BLOCK_SIZE - 12) = EXT2_BLOCK_SIZE
      BY Ext2DiskAssumption
    <3> HIDE DEF x, y
    <3> QED BY <3>1, <3>2, <3>3
  <2>3. two = <<x, y>>
    BY DEF TwoEntries
  <2> HIDE DEF x, y, two
  <2> QED BY <2>2, <2>3, ProperList
<1> HIDE DEF two, e
<1>5. \A c \in DOMAIN e.data : ProperSeq(e.data[c]) /\ Tiled(e.data[c])
  BY <1>1, <1>3, <1>4 DEF Fit
<1>6. Fit(e)
  BY <1>5 DEF Fit
<1> QED BY <1>6 DEF e

(* A symlink writes its path to the block it takes. *)
LEMMA AllocateSymlinkFit ==
  ASSUME NEW d, Sound(d), Fit(d), NEW ino, NEW path
  PROVE  Fit(AllocateSymlink(d, ino, path))
<1> DEFINE b == NextBlock(d)
           w == WriteBytes(TakeBlock(d), b)
           t == [c \in DOMAIN w.text \cup {b} |-> IF c = b THEN path ELSE w.text[c]]
           e == [w EXCEPT !.in[ino].mode = "LNK", !.in[ino].i_block[1] = b, !.text = t]
<1>1. Sound(TakeBlock(d)) /\ Fit(TakeBlock(d))
  BY TakeBlockSound, SameDataFit
<1>2. Sound(w) /\ Fit(w)
  BY <1>1, WriteBytesSound, WriteBytesFit
<1>3. AllocateSymlink(d, ino, path) = e
  BY DEF AllocateSymlink
<1> HIDE DEF w, b, t
<1>4. DOMAIN w = Fields
  BY <1>2 DEF Sound, Table
<1>5. e.data = w.data
  BY <1>4 DEF Fields
<1> HIDE DEF e
<1> QED BY <1>2, <1>3, <1>5, SameDataFit

(* copy writes to the blocks it takes. *)
LEMMA TurnFit ==
  ASSUME NEW d, Sound(d), Fit(d), NEW ino, NEW n, NEW k
  PROVE  Fit(Turn(d, ino, n, k))
<1> DEFINE b == NextBlock(d)
           w == IF k <= n THEN WriteBytes(TakeBlock(d), b) ELSE TakeBlock(d)
           e == [w EXCEPT !.in[ino].i_blocks = @ + 1, !.in[ino].i_block[k] = b]
<1>1. Sound(TakeBlock(d)) /\ Fit(TakeBlock(d))
  BY TakeBlockSound, SameDataFit
<1>2. Sound(w) /\ Fit(w)
  BY <1>1, WriteBytesSound, WriteBytesFit
<1>3. Turn(d, ino, n, k) = e
  BY DEF Turn
<1> HIDE DEF w, b
<1>4. DOMAIN w = Fields
  BY <1>2 DEF Sound, Table
<1>5. e.data = w.data
  BY <1>4 DEF Fields
<1> HIDE DEF e
<1> QED BY <1>2, <1>3, <1>5, SameDataFit

(* The loop of ext2_cp fills blocks of the new file, never a directory's. *)
LEMMA CopiedFit ==
  ASSUME NEW d, Sound(d), Fit(d), NEW ino, NEW n \in Nat
  PROVE  Fit(Copied(d, ino, n))
<1>0. PICK w : Loop(w, d, ino, n)
  BY CopiedIs
<1>1. /\ w[0] = d
      /\ \A k \in 1 .. Turns(n) : w[k] = Turn(w[k - 1], ino, n, k)
      /\ Copied(d, ino, n) = w[Turns(n)]
  BY <1>0 DEF Loop
<1>2. Turns(n) \in 1 .. NDIRECT /\ NDIRECT \in Nat
  BY CopiedIs, Ext2DiskAssumption
<1>3. \A k \in 0 .. Turns(n) : Sound(w[k]) /\ Fit(w[k])
  <2> DEFINE Bad == {k \in 0 .. Turns(n) : ~(Sound(w[k]) /\ Fit(w[k]))}
  <2> SUFFICES ASSUME Bad # {} PROVE FALSE
    OBVIOUS
  <2>1. Bad \in SUBSET Nat
    BY <1>2
  <2>2. PICK k \in Bad : \A j \in Bad : k <= j
    BY <2>1, MinIn
  <2>3. k # 0
    BY <1>1, <2>2
  <2>4. k - 1 \in 0 .. Turns(n) /\ k \in 1 .. Turns(n) /\ k \in 1 .. NDIRECT
    BY <1>2, <2>3
  <2>5. Sound(w[k - 1]) /\ Fit(w[k - 1])
    BY <2>2, <2>4
  <2>6. Sound(w[k]) /\ Fit(w[k])
    BY <1>1, <2>4, <2>5, TurnSound, TurnFit
  <2> QED BY <2>6
<1> QED BY <1>1, <1>2, <1>3

(* An entry is taken out; the one before it becomes longer. *)
Lacks(new, old, b, x) ==
  \A c \in DOMAIN old :
    c \in DOMAIN new /\ KeptIn(old[c]) \ KeptIn(new[c]) \subseteq (IF c = b THEN {x} ELSE {})

(* An unlinked entry's room goes to the one before it, so the block stays tiled. *)
LEMMA UnlinkFit ==
  ASSUME NEW d, Sound(d), Fit(d), NEW b \in DOMAIN d.data, NEW k \in DOMAIN d.data[b],
         k # 1
  PROVE  /\ Fit(Unlink(d, b, k)) /\ Lacks(Unlink(d, b, k).data, d.data, b, Triple(d.data[b][k]))
         /\ DOMAIN Unlink(d, b, k).data = DOMAIN d.data
         /\ Len(Unlink(d, b, k).data[b]) = Len(d.data[b]) - 1
<1> DEFINE s == d.data[b]
           long == [s[k - 1] EXCEPT !.rec_len = @ + s[k].rec_len]
           u == [s EXCEPT ![k - 1] = long]
           e == Unlink(d, b, k)
<1>1. ProperSeq(s) /\ Tiled(s)
  BY DEF Fit
<1>2. PICK S : s \in Seq(S) /\ \A x \in S : Proper(x)
  BY <1>1 DEF ProperSeq
<1>3. DOMAIN s = 1 .. Len(s) /\ Len(s) \in Nat /\ k \in 2 .. Len(s) /\ k - 1 \in 1 .. Len(s)
  <2>1. DOMAIN s = 1 .. Len(s) /\ Len(s) \in Nat /\ k \in 1 .. Len(s)
    BY <1>2
  <2> QED BY <2>1
<1>4. DOMAIN d = Fields
  BY DEF Sound, Table
<1> DEFINE t == RemoveAt(u, k)
<1>5. e.data = [d.data EXCEPT ![b] = t]
  BY <1>4 DEF Unlink, Fields
<1> HIDE DEF e, s
<1>6. /\ Proper(s[k - 1]) /\ Proper(s[k])
      /\ s[k - 1].rec_len \in Nat /\ s[k].rec_len \in Nat
  BY <1>2, <1>3 DEF Proper
<1>10. /\ DOMAIN long = {"inode", "name", "file_type", "rec_len"}
       /\ long.name = s[k - 1].name /\ long.rec_len = s[k - 1].rec_len + s[k].rec_len
       /\ (Own(s[k - 1]) => Own(long)) /\ Triple(long) = Triple(s[k - 1])
  BY <1>6 DEF Proper, Triple, Own
<1>11. /\ u[k - 1] = long
       /\ \A j \in 1 .. Len(s) : j # k - 1 => u[j] = s[j]
  BY <1>3
<1> HIDE DEF long
<1>12. Proper(long)
  <2>1. strlen(s[k - 1].name) \in Nat
    BY <1>6, SizesEnough DEF Proper
  <2>2. \A r, q, l \in Nat : r + q \in Nat /\ (r >= 8 + l => r + q >= 8 + l)
    OBVIOUS
  <2>3. HardLinksOnly => s[k - 1].rec_len >= 8 + strlen(s[k - 1].name)
    BY <1>6 DEF Proper, EntryFits
  <2>4. long.rec_len \in Nat /\ (HardLinksOnly => long.rec_len >= 8 + strlen(long.name))
    BY <1>6, <1>10, <2>1, <2>2, <2>3
  <2> QED BY <1>6, <1>10, <2>4 DEF Proper, EntryFits
<1>13. ProperSeq(u) /\ Len(u) = Len(s)
  BY <1>1, <1>3, <1>12, ProperChange
<1> HIDE DEF u
<1>14. /\ ProperSeq(t) /\ Len(t) = Len(u) - 1
       /\ \A j \in 1 .. k - 1 : t[j] = u[j]
       /\ \A j \in k .. Len(u) - 1 : t[j] = u[j + 1]
  <2>1. k \in 1 .. Len(u)
    BY <1>3, <1>13
  <2> QED BY <1>13, <2>1, ProperRemove
<1> HIDE DEF t
<1>15. /\ Len(t) = Len(s) - 1
       /\ \A j \in 1 .. k - 2 : t[j] = s[j]
       /\ t[k - 1] = long
       /\ \A j \in k .. Len(s) - 1 : t[j] = s[j + 1]
  <2>1. Len(t) = Len(s) - 1
    BY <1>13, <1>14
  <2>2. \A j \in 1 .. k - 2 : j \in 1 .. k - 1 /\ j \in 1 .. Len(s) /\ j # k - 1
    BY <1>3
  <2>3. \A j \in 1 .. k - 2 : t[j] = s[j]
    BY <1>11, <1>14, <2>2
  <2>4. k - 1 \in 1 .. k - 1
    BY <1>3
  <2>5. t[k - 1] = long
    BY <1>11, <1>14, <2>4
  <2>6. \A j \in k .. Len(s) - 1 : j \in k .. Len(u) - 1 /\ j + 1 \in 1 .. Len(s) /\ j + 1 # k - 1
    BY <1>3, <1>13
  <2>7. \A j \in k .. Len(s) - 1 : t[j] = s[j + 1]
    BY <1>11, <1>14, <2>6
  <2> QED BY <2>1, <2>3, <2>5, <2>7
<1>7. ProperSeq(t) /\ Tiled(t)
  BY <1>1, <1>3, <1>6, <1>10, <1>14, <1>15, MergeTiled
<1>8. \A c \in DOMAIN e.data : ProperSeq(e.data[c]) /\ Tiled(e.data[c])
  BY <1>5, <1>7 DEF Fit
<1>9. Fit(e)
  BY <1>8 DEF Fit
<1>16. DOMAIN t = 1 .. Len(t)
  BY <1>14 DEF ProperSeq
<1>17. KeptIn(s) \subseteq KeptIn(t) \cup {Triple(s[k])}
  BY <1>3, <1>10, <1>15, <1>16, MergeKeeps
<1>18. Lacks(e.data, d.data, b, Triple(s[k]))
  BY <1>5, <1>17 DEF Lacks, s
<1>19. DOMAIN e.data = DOMAIN d.data /\ Len(e.data[b]) = Len(s) - 1
  BY <1>5, <1>15
<1> QED BY <1>9, <1>18, <1>19 DEF e, s

(* The entry that is unlinked has one before it. *)
LEMMA NotFirst ==
  ASSUME NEW d, Fit(d), NEW b \in DOMAIN d.data, NEW k, ~Own(d.data[b][k])
  PROVE  k # 1
BY DEF Fit, Tiled

(* remove_link changes an inode or its bit, and no entry. *)
LEMMA RemoveLinkFit ==
  ASSUME NEW d, Sound(d), Fit(d), NEW ino, NEW used
  PROVE  Fit(remove_link(d, ino, used))
<1>1. DOMAIN d = Fields
  BY DEF Sound, Table
<1> DEFINE links == d.in[ino].i_links_count
           e == IF links > 0 THEN [d EXCEPT !.in[ino].i_links_count = @ - 1] ELSE d
           bits == BitsOf(d, ino, used)
<1>2. remove_link(d, ino, used).data = d.data
  <2>1. e.data = d.data /\ DOMAIN e = Fields
    BY <1>1 DEF Fields
  <2>2. \/ remove_link(d, ino, used) = d
        \/ remove_link(d, ino, used) = [e EXCEPT !.bmi = @ \ {Min(bits)}, !.freeInodes = @ + 1]
        \/ remove_link(d, ino, used) = [e EXCEPT !.in[ino].i_dtime = TRUE]
    BY DEF remove_link
  <2> HIDE DEF e, bits
  <2> QED BY <2>1, <2>2 DEF Fields
<1> QED BY <1>2, SameDataFit

------------------------------------------------------------------------------
(* The directories that init finds, one after the other: FlattenSeq of     *)
(* sequences is a sequence.                                                *)
Joined(ss, v, n) == v = [i \in 1 .. n |-> IF i = 1 THEN ss[i] ELSE v[i - 1] \o ss[i]]

(* FlattenSeq, which a CHOOSE defines, appends one after the other. *)
LEMMA FlattenSteps ==
  ASSUME NEW S, NEW n \in Nat \ {0}, NEW ss \in [1 .. n -> Seq(S)]
  PROVE  \E w : /\ \A i \in 1 .. n : w[i] = IF i = 1 THEN ss[i] ELSE w[i - 1] \o ss[i]
               /\ FlattenSeq(ss) = w[n]
<1> DEFINE w == CHOOSE v : Joined(ss, v, n)
<1>1. Len(ss) = n
  OBVIOUS
<1>2. FlattenSeq(ss) = w[n]
  BY <1>1 DEF FlattenSeq, Joined
<1>3. \E v : Joined(ss, v, n)
  <2> DEFINE Bad == {m \in Nat : m # 0 /\ ~(\E v : Joined(ss, v, m))}
  <2> SUFFICES ASSUME Bad # {} PROVE FALSE
    OBVIOUS
  <2>1. PICK m \in Bad : \A j \in Bad : m <= j
    BY MinIn
  <2>2. CASE m = 1
    <3> DEFINE v == [i \in 1 .. 1 |-> ss[i]]
    <3>1. Joined(ss, v, 1)
      BY DEF Joined
    <3> QED BY <2>1, <2>2, <3>1
  <2>3. CASE m # 1
    <3>0. m \in Nat /\ m # 0
      BY <2>1
    <3>1. m - 1 \in Nat /\ m - 1 \notin Bad /\ m \in Nat /\ m - 1 # 0
      <4>1. m - 1 \in Nat /\ ~(m <= m - 1) /\ m - 1 # 0
        BY <2>3, <3>0
      <4> HIDE DEF Bad
      <4> QED BY <2>1, <3>0, <4>1
    <3>2. PICK v : Joined(ss, v, m - 1)
      BY <3>1
    <3> DEFINE u == [i \in 1 .. m |-> IF i = m THEN v[m - 1] \o ss[m] ELSE v[i]]
    <3>3. \A i \in 1 .. m - 1 : v[i] = IF i = 1 THEN ss[i] ELSE v[i - 1] \o ss[i]
      BY <3>2 DEF Joined
    <3>4. ASSUME NEW i \in 1 .. m
          PROVE  u[i] = IF i = 1 THEN ss[i] ELSE u[i - 1] \o ss[i]
      <4>1. CASE i = m
        <5>1. u[i] = v[m - 1] \o ss[m]
          BY <4>1
        <5>2. m - 1 \in 1 .. m /\ m - 1 # m
          BY <3>1
        <5>3. u[m - 1] = v[m - 1]
          BY <5>2
        <5> QED BY <2>3, <4>1, <5>1, <5>3
      <4>2. CASE i # m
        <5>1. i \in 1 .. m - 1 /\ u[i] = v[i]
          BY <3>1, <4>2
        <5>2. i # 1 => i - 1 \in 1 .. m /\ i - 1 # m
          BY <3>1, <4>2
        <5>3. i # 1 => u[i - 1] = v[i - 1]
          BY <5>2
        <5> HIDE DEF u
        <5> QED BY <3>3, <5>1, <5>3
      <4> QED BY <4>1, <4>2
    <3>5. Joined(ss, u, m)
      BY <3>4 DEF Joined
    <3> QED BY <2>1, <3>5
  <2> QED BY <2>2, <2>3
<1>4. Joined(ss, w, n)
  BY <1>3
<1> HIDE DEF w
<1>5. \A i \in 1 .. n : w[i] = IF i = 1 THEN ss[i] ELSE w[i - 1] \o ss[i]
  BY <1>4 DEF Joined
<1> QED BY <1>2, <1>5

(* It returns a sequence of the same members. *)
LEMMA FlattenIs ==
  ASSUME NEW S, NEW n \in Nat \ {0}, NEW ss \in [1 .. n -> Seq(S)]
  PROVE  FlattenSeq(ss) \in Seq(S)
<1>5. PICK w : /\ \A i \in 1 .. n : w[i] = IF i = 1 THEN ss[i] ELSE w[i - 1] \o ss[i]
               /\ FlattenSeq(ss) = w[n]
  BY FlattenSteps
<1>6. \A i \in 1 .. n : w[i] \in Seq(S)
  <2> DEFINE Bad == {i \in 1 .. n : w[i] \notin Seq(S)}
  <2> SUFFICES ASSUME Bad # {} PROVE FALSE
    OBVIOUS
  <2>1. Bad \in SUBSET Nat
    OBVIOUS
  <2>2. PICK i \in Bad : \A j \in Bad : i <= j
    BY <2>1, MinIn
  <2>3. i # 1 /\ i \in 1 .. n
    BY <1>5, <2>2
  <2>4. i - 1 \in 1 .. n /\ ~(i <= i - 1)
    BY <2>3
  <2>5. w[i - 1] \in Seq(S) /\ ss[i] \in Seq(S)
    BY <2>2, <2>3, <2>4
  <2>6. w[i - 1] \o ss[i] \in Seq(S)
    BY <2>5
  <2>7. w[i] = w[i - 1] \o ss[i]
    BY <1>5, <2>3
  <2> QED BY <2>2, <2>6, <2>7
<1> QED BY <1>5, <1>6

(* The blocks of the directories in use. *)
Held(d) == {b \in Block : b # 0 /\ b - 1 \in d.bm}

(* The list of directory blocks that a tool builds holds blocks in use. *)
LEMMA DirsIs ==
  ASSUME Sound(disk)
  PROVE  dirs \in Seq(Held(disk))
<1>1. \A ino \in Inode : disk.in[ino].i_block \in [1 .. NDIRECT -> Block]
  BY DEF Sound, Table, InodeType
<1>2. ASSUME NEW ino \in Inode PROVE BlocksOf(ino) \in Seq(Held(disk))
  <2> DEFINE s == disk.in[ino].i_block
             none == {k \in 1 .. NDIRECT : s[k] = 0}
             m == IF none = {} THEN NDIRECT ELSE Min(none) - 1
  <2>1. s \in Seq(Block) /\ Len(s) = NDIRECT /\ NDIRECT \in Nat
    BY <1>1, Ext2DiskAssumption
  <2>2. m \in 0 .. NDIRECT /\ \A k \in 1 .. m : s[k] # 0
    <3>1. CASE none = {}
      BY <2>1, <3>1
    <3>2. CASE none # {}
      <4>1. none \in SUBSET Nat
        BY <2>1
      <4>2. Min(none) \in none /\ \A j \in none : Min(none) <= j
        BY <3>2, <4>1, MinIn
      <4>3. m = Min(none) - 1 /\ Min(none) \in 1 .. NDIRECT
        BY <3>2, <4>2
      <4> HIDE DEF m
      <4>4. m \in 0 .. NDIRECT
        BY <2>1, <4>3
      <4>5. ASSUME NEW k \in 1 .. m PROVE s[k] # 0
        <5>1. k \in 1 .. NDIRECT /\ ~(Min(none) <= k)
          BY <2>1, <4>3
        <5>2. k \notin none
          BY <4>2, <5>1
        <5> QED BY <5>1, <5>2
      <4> QED BY <4>4, <4>5
    <3> QED BY <3>1, <3>2
  <2>3. BlocksOf(ino) = SubSeq(s, 1, m)
    BY DEF BlocksOf
  <2>4. \A k \in 1 .. m : s[k] \in Held(disk)
    BY <1>1, <2>1, <2>2 DEF Sound, Owned, Held
  <2> HIDE DEF s, m
  <2>5. SubSeq(s, 1, m) \in Seq(Held(disk))
    BY <2>1, <2>2, <2>4
  <2> QED BY <2>3, <2>5
<1> DEFINE ss == [ino \in Inode |->
                    IF Used(ino - 1) /\ disk.in[ino].mode = "DIR" THEN BlocksOf(ino) ELSE <<>>]
<1>3. ss \in [1 .. s_inodes_count -> Seq(Held(disk))] /\ s_inodes_count \in Nat \ {0}
  <2>1. \A ino \in Inode : ss[ino] \in Seq(Held(disk))
    BY <1>2
  <2> QED BY <2>1, Ext2DiskAssumption DEF Inode
<1>4. dirs = FlattenSeq(ss)
  BY DEF dirs
<1> HIDE DEF ss
<1> QED BY <1>3, <1>4, FlattenIs

(* traverse ends with a look for the last component, in some directory. *)
Followed(path, v, n) ==
  v = [k \in 0 .. n |-> IF k = 0 THEN EXT2_ROOT_INO ELSE Lookup(v[k - 1], path[k])]

(* The function that walks a path exists, for every path and length. *)
LEMMA Followable ==
  ASSUME NEW path, NEW n \in Nat
  PROVE  \E v : Followed(path, v, n)
<1> DEFINE Bad == {m \in Nat : ~(\E v : Followed(path, v, m))}
<1> SUFFICES ASSUME Bad # {} PROVE FALSE
  OBVIOUS
<1>1. PICK m \in Bad : \A j \in Bad : m <= j
  BY MinIn
<1>2. CASE m = 0
  <2> DEFINE v == [k \in 0 .. 0 |-> EXT2_ROOT_INO]
  <2>1. Followed(path, v, 0)
    BY DEF Followed
  <2> QED BY <1>2, <2>1
<1>3. CASE m # 0
  <2>1. m - 1 \in Nat /\ m - 1 \notin Bad /\ m \in Nat
    BY <1>1, <1>3
  <2>2. PICK v : Followed(path, v, m - 1)
    BY <2>1
  <2> DEFINE u == [k \in 0 .. m |-> IF k = m THEN Lookup(v[m - 1], path[m]) ELSE v[k]]
  <2>3. \A k \in 0 .. m - 1 : v[k] = IF k = 0 THEN EXT2_ROOT_INO ELSE Lookup(v[k - 1], path[k])
    BY <2>2 DEF Followed
  <2>4. ASSUME NEW k \in 0 .. m
        PROVE  u[k] = IF k = 0 THEN EXT2_ROOT_INO ELSE Lookup(u[k - 1], path[k])
    BY <1>3, <2>1, <2>3
  <2>5. Followed(path, u, m)
    BY <2>4 DEF Followed
  <2> QED BY <2>5
<1> QED BY <1>2, <1>3

(* Up to the first component that is called like the last one, in traverse, *)
(* and to the end of the path, in Resolve.                                  *)
LEMMA TraverseIs ==
  ASSUME NEW path \in Paths, path # <<>>
  PROVE  /\ Last(path) \in Names
         /\ \E ino : traverse(path) = Lookup(ino, Last(path))
         /\ \E ino : Resolve(path) = Lookup(ino, Last(path))
<1> DEFINE named == {k \in DOMAIN path : path[k] = Last(path)}
           End(n) == (CHOOSE v : Followed(path, v, n))[n]
<1>1. path \in Seq(Names) /\ Len(path) \in Nat \ {0}
  BY DEF Paths, BoundedSeq, SeqOf
<1>2. Len(path) \in named /\ named \in SUBSET Nat /\ Last(path) \in Names
  BY <1>1 DEF Last
<1>3. Min(named) \in named
  BY <1>2, MinIn
<1>4. \A n \in named : n \in Nat \ {0} /\ path[n] = Last(path)
  BY <1>1
<1>5. traverse(path) = End(Min(named)) /\ Resolve(path) = End(Len(path))
  BY DEF traverse, Resolve, Followed
<1> HIDE DEF named
<1>6. ASSUME NEW n \in named PROVE \E ino : End(n) = Lookup(ino, Last(path))
  <2> DEFINE w == CHOOSE v : Followed(path, v, n)
  <2>1. Followed(path, w, n)
    BY <1>4, Followable
  <2> HIDE DEF w
  <2>2. \A k \in 0 .. n : w[k] = IF k = 0 THEN EXT2_ROOT_INO ELSE Lookup(w[k - 1], path[k])
    BY <2>1 DEF Followed
  <2>3. w[n] = Lookup(w[n - 1], path[n])
    BY <1>4, <2>2
  <2> QED BY <1>4, <2>3 DEF w
<1> HIDE DEF End
<1> QED BY <1>2, <1>3, <1>5, <1>6

(* What is found is an entry of that name in a directory's block, and what *)
(* is found in one directory is found in all of them.                      *)
LEMMA FirstCalledIs ==
  ASSUME Sound(disk), Fit(disk), Readable, NEW name, NEW searched \in SUBSET DOMAIN dirs,
         FirstCalled(name, dirs, searched) # <<>>
  PROVE  \E b \in DirBlocks : /\ b \in DOMAIN disk.data
                             /\ \E k \in PlacesOf(name, b) : FirstCalled(name, dirs, searched) = <<b, k>>
<1> DEFINE at == {i \in searched : PlacesOf(name, dirs[i]) # {}}
           i == Min(at)
           b == dirs[i]
           k == Min(PlacesOf(name, b))
<1>1. DOMAIN dirs \in SUBSET Nat
  BY DirsIs
<1>2. at # {}
  BY DEF FirstCalled
<1>3. at \in SUBSET Nat
  BY <1>1
<1>4. i \in at
  BY <1>2, <1>3, MinIn
<1> HIDE DEF i
<1>5. b \in DOMAIN disk.data /\ b \in DirBlocks
  BY <1>4 DEF Readable, DirBlocks, Range
<1>6. DOMAIN disk.data[b] \in SUBSET Nat
  <2>1. PICK S : disk.data[b] \in Seq(S)
    BY <1>5 DEF Fit, ProperSeq
  <2> QED BY <2>1
<1>7. PlacesOf(name, b) # {} /\ PlacesOf(name, b) \in SUBSET Nat
  BY <1>4, <1>6 DEF PlacesOf
<1>8. k \in PlacesOf(name, b)
  BY <1>7, MinIn
<1>9. FirstCalled(name, dirs, searched) = <<b, k>>
  BY <1>2 DEF FirstCalled, i
<1> QED BY <1>5, <1>8, <1>9

(* What a lookup finds is an entry of a directory block with that name. *)
LEMMA FoundSlot ==
  ASSUME Sound(disk), Fit(disk), Readable, NEW ino, NEW name, Lookup(ino, name) # 0
  PROVE  /\ \E b \in DirBlocks : /\ b \in DOMAIN disk.data
                                /\ \E k \in PlacesOf(name, b) : find_dir_entry(name, dirs) = <<b, k>>
         /\ \E b \in DirBlocks : /\ b \in DOMAIN disk.data
                                /\ \E k \in PlacesOf(name, b) : Lookup(ino, name) = disk.data[b][k].inode
<1> DEFINE homes == HomesOf(ino, dirs)
<1>1. homes \subseteq DOMAIN dirs
  BY DEF HomesOf
<1>2. FirstCalled(name, dirs, homes) # <<>>
  BY DEF Lookup
<1>3. FirstCalled(name, dirs, DOMAIN dirs) # <<>>
  BY <1>1, <1>2 DEF FirstCalled
<1>4. Lookup(ino, name) = EntryAt(FirstCalled(name, dirs, homes)).inode
  BY <1>2 DEF Lookup
<1> HIDE DEF homes
<1>5. PICK b \in DirBlocks : /\ b \in DOMAIN disk.data
                            /\ \E k \in PlacesOf(name, b) : FirstCalled(name, dirs, homes) = <<b, k>>
  BY <1>1, <1>2, FirstCalledIs
<1>6. \E k \in PlacesOf(name, b) : Lookup(ino, name) = disk.data[b][k].inode
  BY <1>4, <1>5 DEF EntryAt
<1> QED BY <1>3, <1>5, <1>6, FirstCalledIs DEF find_dir_entry

------------------------------------------------------------------------------
(* Create, for a name that an entry can have. *)
LEMMA CreateFit ==
  ASSUME Sound(disk), Fit(disk), NEW parent, NEW name \in Names, NEW type \in {"DIR", "REG"},
         NEW n \in Nat, NEW code, Create(parent, name, type, n, code)
  PROVE  Fit(disk)'
<1> DEFINE b      == find_dir_block_pos(parent)
           ino    == NextInode(disk)
           d      == TakeInode(disk)
           linked == create_link(d, b, ino, name, type)
           made   == IF type = "DIR" THEN AllocateDir(linked, ino, parent)
                     ELSE Copied(AllocateFile(linked, ino), ino, n)
<1>1. Sound(d) /\ Fit(d)
  BY TakeInodeSound, SameDataFit
<1>2. name \in NameOf /\ type # "LNK"
  BY DEF NameOf
<1>3. Sound(linked) /\ Fit(linked)
  BY <1>1, <1>2, CreateLinkSound, CreateLinkFit
<1>4. disk' \in {d, linked, made}
  BY DEF Create, Crash
<1> HIDE DEF d, linked
<1>5. Fit(AllocateDir(linked, ino, parent))
  BY <1>3, AllocateDirFit
<1>6. Fit(Copied(AllocateFile(linked, ino), ino, n))
  BY <1>3, AllocateFileSound, AllocateFileFit, CopiedFit
<1>7. Fit(made)
  BY <1>5, <1>6
<1> HIDE DEF made
<1> QED BY <1>1, <1>3, <1>4, <1>7

(* Every run of a tool. *)
LEMMA StepFit ==
  ASSUME Sound(disk), Fit(disk), [Next]_vars
  PROVE  Fit(disk)'
<1>1. CASE UNCHANGED vars
  BY <1>1 DEF vars
<1>2. ASSUME NEW p \in Paths, mkdir(p) PROVE Fit(disk)'
  <2>1. \/ UNCHANGED disk
        \/ p # <<>> /\ \E code : Create(Parent(p), Last(p), "DIR", 0, code)
    BY <1>2 DEF mkdir, Return
  <2>2. p # <<>> => Last(p) \in Names
    BY TraverseIs
  <2>3. CASE UNCHANGED disk
    BY <2>3
  <2>4. ASSUME NEW code, Last(p) \in Names, Create(Parent(p), Last(p), "DIR", 0, code)
        PROVE  Fit(disk)'
    BY <2>4, CreateFit
  <2> QED BY <2>1, <2>2, <2>3, <2>4
<1>3. ASSUME NEW name \in Names, NEW n \in 0 .. MaxBlocks, NEW p \in Paths, cp(name, n, p)
      PROVE  Fit(disk)'
  <2>1. UNCHANGED disk \/ \E parent : Create(parent, name, "REG", n, "0")
    BY <1>3 DEF cp, Return
  <2>2. ASSUME NEW parent, Create(parent, name, "REG", n, "0") PROVE Fit(disk)'
    <3>1. n \in Nat
      BY Ext2Assumption
    <3> QED BY <2>2, <3>1, CreateFit
  <2> QED BY <2>1, <2>2
<1>4. ASSUME cp_refused PROVE Fit(disk)'
  BY <1>4 DEF cp_refused, Return
<1>5. ASSUME NEW p \in Paths, NEW q \in Paths, ln(p, q) PROVE Fit(disk)'
  <2>1. \/ disk' = disk
        \/ q # <<>> /\ \E b, ino : disk' = AllocateFile(create_link(disk, b, ino, Last(q), "REG"), ino)
    BY <1>5 DEF ln, ln_checks, Return, Crash
  <2>2. q # <<>> => Last(q) \in NameOf
    BY TraverseIs DEF NameOf
  <2>3. q # <<>> => \A b, ino : /\ Sound(create_link(disk, b, ino, Last(q), "REG"))
                                /\ Fit(create_link(disk, b, ino, Last(q), "REG"))
    BY <2>2, CreateLinkSound, CreateLinkFit
  <2>4. q # <<>> => \A b, ino : Fit(AllocateFile(create_link(disk, b, ino, Last(q), "REG"), ino))
    BY <2>3, AllocateFileFit
  <2> QED BY <2>1, <2>4
<1>6. ASSUME NEW p \in Paths, Readable, rm(p) PROVE Fit(disk)'
  <2> DEFINE slot == find_dir_entry(Last(p), dirs)
             u == Unlink(disk, slot[1], slot[2])
  <2>1. \/ disk' = disk
        \/ /\ p # <<>> /\ traverse(p) # 0 /\ EntryAt(slot).file_type # "DIR"
           /\ disk' = remove_link(u, traverse(p), inum)
    BY <1>6 DEF rm, Return
  <2>2. ASSUME p # <<>>, traverse(p) # 0, EntryAt(slot).file_type # "DIR"
        PROVE  Sound(u) /\ Fit(u)
    <3>1. PICK ino : traverse(p) = Lookup(ino, Last(p))
      BY <2>2, TraverseIs
    <3>2. PICK b \in DOMAIN disk.data : \E k \in DOMAIN disk.data[b] : slot = <<b, k>>
      BY <1>6, <2>2, <3>1, FoundSlot DEF PlacesOf
    <3>3. PICK k \in DOMAIN disk.data[b] : slot = <<b, k>>
      BY <3>2
    <3>4. u = Unlink(disk, b, k)
      <4> HIDE DEF slot
      <4>1. slot[1] = b /\ slot[2] = k
        BY <3>3
      <4> QED BY <4>1
    <3>5. ~Own(disk.data[b][k])
      BY <2>2, <3>3 DEF EntryAt, Own
    <3>6. k # 1
      BY <3>5, NotFirst
    <3> QED BY <3>4, <3>6, UnlinkSound, UnlinkFit
  <2> HIDE DEF u
  <2>3. p # <<>> /\ traverse(p) # 0 /\ EntryAt(slot).file_type # "DIR"
        => Fit(remove_link(u, traverse(p), inum))
    BY <2>2, RemoveLinkFit
  <2> QED BY <2>1, <2>3
<1>7. ASSUME NEW p \in Paths, NEW q \in Paths, ~HardLinksOnly, ln_s(p, q) PROVE Fit(disk)'
  <2> DEFINE d == TakeInode(disk)
             linked(b) == create_link(d, b, NextInode(disk), Last(q), "LNK")
  <2>1. \/ disk' \in {disk, d}
        \/ q # <<>> /\ \E b : disk' \in {linked(b), AllocateSymlink(linked(b), NextInode(disk), q)}
    BY <1>7 DEF ln_s, ln_checks, Return, Crash
  <2>2. Sound(d) /\ Fit(d)
    BY TakeInodeSound, SameDataFit
  <2>3. ASSUME NEW b, q # <<>> PROVE Sound(linked(b)) /\ Fit(linked(b))
    <3>1. Last(q) \in NameOf
      BY <2>3, TraverseIs DEF NameOf
    <3> HIDE DEF d
    <3> QED BY <1>7, <2>2, <3>1, CreateLinkSound, CreateLinkFit
  <2> HIDE DEF d, linked
  <2>4. ASSUME NEW b, q # <<>> PROVE Fit(AllocateSymlink(linked(b), NextInode(disk), q))
    BY <2>3, <2>4, AllocateSymlinkFit
  <2> QED BY <2>1, <2>2, <2>3, <2>4
<1> QED BY <1>1, <1>2, <1>3, <1>4, <1>5, <1>6, <1>7 DEF Next, HardLinksOnly

(* Every entry is proper, and the entries of a block tile it. *)
THEOREM EntriesProper == Spec => [](Sound(disk) /\ Fit(disk))
<1>1. Init => Sound(disk) /\ Fit(disk)
  BY MkfsSound, MkfsFit DEF Init
<1>2. Sound(disk) /\ Fit(disk) /\ [Next]_vars => Sound(disk)' /\ Fit(disk)'
  BY StepSound, StepFit
<1> QED BY <1>1, <1>2, PTL DEF Spec

(* Entries that fit do not lie over one another, without those of ln -s. *)
LEMMA FitIsFit ==
  ASSUME HardLinksOnly, Fit(disk)
  PROVE  EntriesFit
<1> SUFFICES ASSUME Fit(disk), NEW b \in DOMAIN disk.data, NEW e \in Entries(b)
             PROVE  EntryFits(e)
  BY DEF EntriesFit
<1>1. PICK S : disk.data[b] \in Seq(S) /\ \A x \in S : Proper(x)
  BY DEF Fit, ProperSeq
<1>2. \A k \in DOMAIN disk.data[b] : disk.data[b][k] \in S
  <2> DEFINE q == disk.data[b]
  <2> HIDE DEF q
  <2>1. ASSUME q \in Seq(S), NEW k \in DOMAIN q PROVE q[k] \in S
    <3>1. DOMAIN q = 1 .. Len(q)
      BY <2>1
    <3> QED BY <2>1, <3>1
  <2> QED BY <1>1, <2>1 DEF q
<1>3. e \in S
  BY <1>2 DEF Entries, Range
<1> QED BY <1>1, <1>3 DEF Proper

(* In blocks that are tiled the walk by rec_len ends at their end. *)
LEMMA FitTiles ==
  ASSUME Fit(disk)
  PROVE  EntriesTile
<1> SUFFICES ASSUME NEW s, Tiled(s)
             PROVE  LET at[k \in 0 .. Len(s)] == IF k = 0 THEN 0 ELSE at[k - 1] + s[k].rec_len
                    IN  at[Len(s)] = EXT2_BLOCK_SIZE
  BY DEF EntriesTile, Fit
<1> DEFINE n == Len(s)
           IsWalk(w) == w = [k \in 0 .. n |-> IF k = 0 THEN 0 ELSE w[k - 1] + s[k].rec_len]
           at == CHOOSE w : IsWalk(w)
<1>1. PICK v : Tiling(s, v)
  BY DEF Tiled
<1>2. n \in Nat
  BY DEF Tiled
<1> HIDE DEF n
<1>3. /\ v \in [0 .. n -> Nat] /\ v[0] = 0 /\ v[n] = EXT2_BLOCK_SIZE
      /\ \A k \in 1 .. n : v[k] = v[k - 1] + s[k].rec_len
  BY <1>1 DEF Tiling, n
<1>4. IsWalk(v)
  <2>1. \A k \in 0 .. n : k # 0 => k \in 1 .. n
    BY <1>2
  <2>2. \A k \in 0 .. n : v[k] = IF k = 0 THEN 0 ELSE v[k - 1] + s[k].rec_len
    BY <1>3, <2>1
  <2> QED BY <1>3, <2>2
<1>5. IsWalk(at)
  BY <1>4
<1> HIDE DEF at
<1>6. \A k \in 0 .. n : at[k] = IF k = 0 THEN 0 ELSE at[k - 1] + s[k].rec_len
  BY <1>5
<1> HIDE DEF IsWalk
<1>7. \A k \in 0 .. n : at[k] = v[k]
  <2> DEFINE Bad == {k \in 0 .. n : at[k] # v[k]}
  <2> SUFFICES ASSUME Bad # {} PROVE FALSE
    OBVIOUS
  <2>1. Bad \in SUBSET Nat
    BY <1>2
  <2>2. PICK k \in Bad : \A j \in Bad : k <= j
    BY <2>1, MinIn
  <2>3. k # 0
    BY <1>2, <1>3, <1>6, <2>2
  <2>4. k - 1 \in 0 .. n /\ k \in 1 .. n /\ k - 1 \notin Bad
    BY <1>2, <2>2, <2>3
  <2>5. at[k - 1] = v[k - 1]
    BY <2>4
  <2>6. at[k] = v[k]
    BY <1>3, <1>6, <2>3, <2>4, <2>5
  <2> QED BY <2>2, <2>6
<1>8. at[n] = EXT2_BLOCK_SIZE
  BY <1>2, <1>3, <1>7
<1> QED BY <1>8 DEF at, IsWalk, n

(* No entry lies over the next one, whatever tools but ln -s are run: that *)
(* one sizes an entry without its header.                                  *)
THEOREM EntriesCorrect == ASSUME HardLinksOnly PROVE Spec => []EntriesFit
BY FitIsFit, EntriesProper, PTL

(* The walk by rec_len from the first entry of a block ends at the end of  *)
(* the block, whatever tools have split and merged entries in it.          *)
THEOREM EntriesTileBlocks == Spec => []EntriesTile
BY FitTiles, EntriesProper, PTL

------------------------------------------------------------------------------
(* What the tools leave alone.  B is the set of blocks of the directories  *)
(* that a tool has found: the bitmap has their bits, so that no block that *)
(* is taken for something new is one of them.                              *)
Same(e, d, B) ==
  /\ d.bm \subseteq e.bm
  /\ \A b \in B : b \in DOMAIN d.data => b \in DOMAIN e.data /\ e.data[b] = d.data[b]

(* Bits are not cleared. *)
LEMMA SameHeld ==
  ASSUME NEW d, NEW e, NEW B, B \subseteq Held(d), Same(e, d, B)
  PROVE  /\ B \subseteq Held(e)
         /\ \A f : Same(f, e, B) => Same(f, d, B)
BY DEF Same, Held

(* find_free_inode and find_free_block. *)
LEMMA TakeSame ==
  ASSUME NEW d, Sound(d), NEW B, B \subseteq Held(d)
  PROVE  /\ Same(TakeInode(d), d, B) /\ Same(TakeBlock(d), d, B)
         /\ NextBlock(d) \notin B
<1>1. DOMAIN d = Fields
  BY DEF Sound, Table
<1>2. TakeInode(d).bm = d.bm /\ d.bm \subseteq TakeBlock(d).bm
  BY <1>1 DEF TakeInode, TakeBlock, Fields
<1>3. TakeInode(d).data = d.data /\ TakeBlock(d).data = d.data
  BY TakeInodeSound, TakeBlockSound
<1>4. NextBlock(d) \notin B
  BY TakeBlockSound DEF Held
<1> QED BY <1>2, <1>3, <1>4 DEF Same

(* A block that is written to, and the fields of inodes. *)
LEMMA FieldsSame ==
  ASSUME NEW d, Sound(d), NEW B
  PROVE  /\ \A b : b \notin B => Same(WriteBytes(d, b), d, B)
         /\ \A ino : Same(AllocateFile(d, ino), d, B) /\ Same(ParentLinked(d, ino), d, B)
<1>1. DOMAIN d = Fields
  BY DEF Sound, Table
<1>2. ASSUME NEW b, b \notin B PROVE Same(WriteBytes(d, b), d, B)
  <2>1. WriteBytes(d, b).data = [c \in DOMAIN d.data \ {b} |-> d.data[c]] /\ WriteBytes(d, b).bm = d.bm
    BY <1>1 DEF WriteBytes, Fields
  <2> QED BY <1>2, <2>1 DEF Same
<1>3. ASSUME NEW ino PROVE Same(AllocateFile(d, ino), d, B) /\ Same(ParentLinked(d, ino), d, B)
  <2>1. /\ AllocateFile(d, ino).data = d.data /\ ParentLinked(d, ino).data = d.data
        /\ AllocateFile(d, ino).bm = d.bm /\ ParentLinked(d, ino).bm = d.bm
    BY <1>1 DEF AllocateFile, ParentLinked, Fields
  <2> QED BY <2>1 DEF Same
<1> QED BY <1>2, <1>3

(* A new directory's block. *)
LEMMA AllocateDirSame ==
  ASSUME NEW d, Sound(d), NEW B, B \subseteq Held(d), NEW ino, NEW parent
  PROVE  Same(AllocateDir(d, ino, parent), d, B)
<1> DEFINE b == NextBlock(d)
           w == TakeBlock(d)
           two == TwoEntries(ino, parent)
           e == AllocateDir(d, ino, parent)
<1>1. Sound(w) /\ Same(w, d, B) /\ b \notin B
  BY TakeBlockSound, TakeSame
<1>2. DOMAIN w = Fields
  BY <1>1 DEF Sound, Table
<1>3. e.data = [c \in DOMAIN w.data \cup {b} |-> IF c = b THEN two ELSE w.data[c]] /\ e.bm = w.bm
  BY <1>2 DEF AllocateDir, ParentLinked, Fields
<1> HIDE DEF e, two, b, w
<1>4. Same(e, d, B)
  BY <1>1, <1>3 DEF Same
<1> QED BY <1>4 DEF e

(* A symlink's block. *)
LEMMA AllocateSymlinkSame ==
  ASSUME NEW d, Sound(d), NEW B, B \subseteq Held(d), NEW ino, NEW path
  PROVE  Same(AllocateSymlink(d, ino, path), d, B)
<1> DEFINE b == NextBlock(d)
           w == WriteBytes(TakeBlock(d), b)
           t == [c \in DOMAIN w.text \cup {b} |-> IF c = b THEN path ELSE w.text[c]]
           e == [w EXCEPT !.in[ino].mode = "LNK", !.in[ino].i_block[1] = b, !.text = t]
<1>1. Sound(TakeBlock(d)) /\ Same(TakeBlock(d), d, B) /\ b \notin B
  BY TakeBlockSound, TakeSame
<1>2. Sound(w) /\ Same(w, TakeBlock(d), B)
  BY <1>1, WriteBytesSound, FieldsSame
<1>3. AllocateSymlink(d, ino, path) = e
  BY DEF AllocateSymlink
<1> HIDE DEF w, b, t
<1>4. DOMAIN w = Fields
  BY <1>2 DEF Sound, Table
<1>5. e.data = w.data /\ e.bm = w.bm
  BY <1>4 DEF Fields
<1> HIDE DEF e
<1> QED BY <1>1, <1>2, <1>3, <1>5 DEF Same

(* The blocks of a copy. *)
LEMMA TurnSame ==
  ASSUME NEW d, Sound(d), NEW B, B \subseteq Held(d), NEW ino, NEW n, NEW k
  PROVE  Same(Turn(d, ino, n, k), d, B)
<1> DEFINE b == NextBlock(d)
           w == IF k <= n THEN WriteBytes(TakeBlock(d), b) ELSE TakeBlock(d)
           e == [w EXCEPT !.in[ino].i_blocks = @ + 1, !.in[ino].i_block[k] = b]
<1>1. Sound(TakeBlock(d)) /\ Same(TakeBlock(d), d, B) /\ b \notin B
  BY TakeBlockSound, TakeSame
<1>2. Sound(w) /\ Same(w, d, B)
  <2>1. Same(WriteBytes(TakeBlock(d), b), TakeBlock(d), B) /\ Sound(WriteBytes(TakeBlock(d), b))
    BY <1>1, WriteBytesSound, FieldsSame
  <2>2. Same(WriteBytes(TakeBlock(d), b), d, B)
    BY <1>1, <2>1, SameHeld
  <2> QED BY <1>1, <2>1, <2>2
<1>3. Turn(d, ino, n, k) = e
  BY DEF Turn
<1> HIDE DEF w, b
<1>4. DOMAIN w = Fields
  BY <1>2 DEF Sound, Table
<1>5. e.data = w.data /\ e.bm = w.bm
  BY <1>4 DEF Fields
<1> HIDE DEF e
<1> QED BY <1>2, <1>3, <1>5 DEF Same

(* All of them. *)
LEMMA CopiedSame ==
  ASSUME NEW d, Sound(d), NEW B, B \subseteq Held(d), NEW ino, NEW n \in Nat
  PROVE  Same(Copied(d, ino, n), d, B)
<1>0. PICK w : Loop(w, d, ino, n)
  BY CopiedIs
<1>1. /\ w[0] = d
      /\ \A k \in 1 .. Turns(n) : w[k] = Turn(w[k - 1], ino, n, k)
      /\ Copied(d, ino, n) = w[Turns(n)]
  BY <1>0 DEF Loop
<1>2. Turns(n) \in 1 .. NDIRECT /\ NDIRECT \in Nat
  BY CopiedIs, Ext2DiskAssumption
<1>3. \A k \in 0 .. Turns(n) : Sound(w[k]) /\ Same(w[k], d, B)
  <2> DEFINE Bad == {k \in 0 .. Turns(n) : ~(Sound(w[k]) /\ Same(w[k], d, B))}
  <2> SUFFICES ASSUME Bad # {} PROVE FALSE
    OBVIOUS
  <2>1. Bad \in SUBSET Nat
    BY <1>2
  <2>2. PICK k \in Bad : \A j \in Bad : k <= j
    BY <2>1, MinIn
  <2>3. Same(d, d, B)
    BY DEF Same
  <2>4. k # 0
    BY <1>1, <2>2, <2>3
  <2>5. k - 1 \in 0 .. Turns(n) /\ k \in 1 .. Turns(n) /\ k \in 1 .. NDIRECT
    BY <1>2, <2>4
  <2>6. Sound(w[k - 1]) /\ Same(w[k - 1], d, B)
    BY <2>2, <2>5
  <2>7. Same(Turn(w[k - 1], ino, n, k), d, B)
    BY <2>6, SameHeld, TurnSame
  <2>8. Sound(w[k]) /\ Same(w[k], d, B)
    BY <1>1, <2>5, <2>6, <2>7, TurnSound
  <2> QED BY <2>8
<1> QED BY <1>1, <1>2, <1>3

(* Create puts one entry into one of these blocks, for the inode it takes, *)
(* and takes none out.                                                     *)
Gain(new, old, B, x) ==
  \A b \in B : b \in DOMAIN old =>
    /\ b \in DOMAIN new
    /\ KeptIn(old[b]) \subseteq KeptIn(new[b]) /\ KeptIn(new[b]) \subseteq KeptIn(old[b]) \cup {x}

(* An entry added, and then changes to other blocks only. *)
LEMMA AddedThenSame ==
  ASSUME NEW d, NEW e, NEW f, NEW B, NEW x, Added(e.data, d.data, x), Same(f, e, B)
  PROVE  Gain(f.data, d.data, B, x)
BY DEF Added, Same, Gain

(* mkdir and cp add one entry, for the inode they take, and lose none. *)
LEMMA CreateGains ==
  ASSUME Sound(disk), Fit(disk), NEW B, B \subseteq Held(disk),
         NEW parent, NEW name \in Names, NEW type \in {"DIR", "REG"}, NEW n \in Nat, NEW code,
         Create(parent, name, type, n, code)
  PROVE  Gain(disk'.data, disk.data, B, <<name, NextInode(disk), type>>)
<1> DEFINE b      == find_dir_block_pos(parent)
           ino    == NextInode(disk)
           d      == TakeInode(disk)
           x      == <<name, ino, type>>
           linked == create_link(d, b, ino, name, type)
           dir    == AllocateDir(linked, ino, parent)
           file   == Copied(AllocateFile(linked, ino), ino, n)
<1>1. Sound(d) /\ Fit(d) /\ d.data = disk.data
  BY TakeInodeSound, SameDataFit
<1>2. B \subseteq Held(d)
  BY TakeSame, SameHeld
<1>3. name \in NameOf /\ type # "LNK"
  BY DEF NameOf
<1>4. disk' \in {d, linked, dir, file}
  BY DEF Create, Crash
<1> HIDE DEF d
<1>5. Sound(linked) /\ Added(linked.data, disk.data, x) /\ linked.bm = d.bm
  <2>1. Sound(linked) /\ Added(linked.data, disk.data, x)
    BY <1>1, <1>3, CreateLinkSound, CreateLinkFit
  <2>2. linked.bm = d.bm
    BY <1>1 DEF create_link, Sound, Table, Fields
  <2> QED BY <2>1, <2>2
<1> HIDE DEF linked, x
<1>6. B \subseteq Held(linked)
  BY <1>2, <1>5 DEF Held
<1>7. Same(linked, linked, B) /\ Same(dir, linked, B)
  BY <1>5, <1>6, AllocateDirSame DEF Same
<1>8. Same(file, linked, B)
  <2>1. Sound(AllocateFile(linked, ino)) /\ Same(AllocateFile(linked, ino), linked, B)
    BY <1>5, AllocateFileSound, FieldsSame
  <2>2. Same(file, AllocateFile(linked, ino), B)
    BY <1>6, <2>1, SameHeld, CopiedSame
  <2> HIDE DEF file
  <2> QED BY <1>6, <2>1, <2>2, SameHeld
<1> HIDE DEF dir, file
<1>9. Gain(linked.data, disk.data, B, x) /\ Gain(dir.data, disk.data, B, x) /\ Gain(file.data, disk.data, B, x)
  BY <1>5, <1>7, <1>8, AddedThenSame
<1>10. Gain(d.data, disk.data, B, x)
  BY <1>1 DEF Gain
<1>11. Gain(disk'.data, disk.data, B, x)
  BY <1>4, <1>9, <1>10
<1> QED BY <1>11 DEF x

(* remove_link leaves entries alone. *)
LEMMA RemoveLinkData ==
  ASSUME NEW d, Sound(d), NEW ino, NEW used
  PROVE  remove_link(d, ino, used).data = d.data
<1>1. DOMAIN d = Fields
  BY DEF Sound, Table
<1> DEFINE links == d.in[ino].i_links_count
           e == IF links > 0 THEN [d EXCEPT !.in[ino].i_links_count = @ - 1] ELSE d
           bits == BitsOf(d, ino, used)
<1>2. e.data = d.data /\ DOMAIN e = Fields
  BY <1>1 DEF Fields
<1>3. \/ remove_link(d, ino, used) = d
      \/ remove_link(d, ino, used) = [e EXCEPT !.bmi = @ \ {Min(bits)}, !.freeInodes = @ + 1]
      \/ remove_link(d, ino, used) = [e EXCEPT !.in[ino].i_dtime = TRUE]
  BY DEF remove_link
<1> HIDE DEF e, bits
<1> QED BY <1>2, <1>3 DEF Fields

(* A step of ext2_mkdir and ext2_cp. *)
Makes ==
  \/ \E p \in Paths : mkdir(p)
  \/ \E name \in Names, n \in 0 .. MaxBlocks, p \in Paths : cp(name, n, p)
  \/ cp_refused

(* So does every step of a run with mkdir and cp only. *)
LEMMA MakesGain ==
  ASSUME Sound(disk), Fit(disk), NEW B, B \subseteq Held(disk), Makes
  PROVE  \E x : x[2] = NextInode(disk) /\ Gain(disk'.data, disk.data, B, x)
<1> DEFINE Gains == \E x : x[2] = NextInode(disk) /\ Gain(disk'.data, disk.data, B, x)
<1>1. disk' = disk => Gains
  <2> DEFINE x == <<0, NextInode(disk)>>
  <2>1. x[2] = NextInode(disk) /\ Gain(disk.data, disk.data, B, x)
    BY DEF Gain
  <2> QED BY <2>1
<1>2. ASSUME NEW name \in Names, NEW type \in {"DIR", "REG"}, NEW n \in Nat, NEW code, NEW parent,
             Create(parent, name, type, n, code)
      PROVE  Gains
  <2> DEFINE x == <<name, NextInode(disk), type>>
  <2>1. x[2] = NextInode(disk) /\ Gain(disk'.data, disk.data, B, x)
    BY <1>2, CreateGains
  <2> QED BY <2>1
<1> HIDE DEF Gains
<1>3. ASSUME NEW p \in Paths, mkdir(p) PROVE Gains
  <2>1. \/ UNCHANGED disk
        \/ p # <<>> /\ \E code : Create(Parent(p), Last(p), "DIR", 0, code)
    BY <1>3 DEF mkdir, Return
  <2>2. ASSUME NEW code, Last(p) \in Names, Create(Parent(p), Last(p), "DIR", 0, code) PROVE Gains
    BY <1>2, <2>2
  <2>3. p # <<>> => Last(p) \in Names
    BY TraverseIs
  <2> QED BY <1>1, <2>1, <2>2, <2>3
<1>4. ASSUME NEW name \in Names, NEW n \in 0 .. MaxBlocks, NEW p \in Paths, cp(name, n, p)
      PROVE  Gains
  <2>1. UNCHANGED disk \/ \E parent : Create(parent, name, "REG", n, "0")
    BY <1>4 DEF cp, Return
  <2>2. ASSUME NEW parent, Create(parent, name, "REG", n, "0") PROVE Gains
    <3>1. n \in Nat
      BY Ext2Assumption
    <3> QED BY <1>2, <2>2, <3>1
  <2> QED BY <1>1, <2>1, <2>2
<1>5. cp_refused => Gains
  BY <1>1 DEF cp_refused, Return
<1>6. Gains
  BY <1>3, <1>4, <1>5 DEF Makes
<1> QED BY <1>6 DEF Gains

(* A step of a tool other than ext2_rm. *)
LEMMA StepGains ==
  ASSUME Sound(disk), Fit(disk), NEW B, B \subseteq Held(disk), Next
  PROVE  \/ \E x : Gain(disk'.data, disk.data, B, x)
         \/ \E p \in Paths : rm(p)
<1>1. Gain(disk.data, disk.data, B, 0)
  BY DEF Gain
<1>2. Makes => \E x : Gain(disk'.data, disk.data, B, x)
  BY MakesGain
<1>5. ASSUME NEW p \in Paths, NEW q \in Paths, ln(p, q) PROVE \E x : Gain(disk'.data, disk.data, B, x)
  <2> DEFINE linked(b, ino) == create_link(disk, b, ino, Last(q), "REG")
  <2>1. \/ disk' = disk
        \/ q # <<>> /\ \E b, ino : disk' = AllocateFile(linked(b, ino), ino)
    BY <1>5 DEF ln, ln_checks, Return, Crash
  <2>2. ASSUME NEW b, NEW ino, q # <<>>, disk' = AllocateFile(linked(b, ino), ino)
        PROVE  \E x : Gain(disk'.data, disk.data, B, x)
    <3>1. Last(q) \in NameOf
      BY <2>2, TraverseIs DEF NameOf
    <3>2. /\ Sound(linked(b, ino))
          /\ Added(linked(b, ino).data, disk.data, <<Last(q), ino, "REG">>)
      BY <3>1, CreateLinkSound, CreateLinkFit
    <3> HIDE DEF linked
    <3>3. Same(disk', linked(b, ino), B)
      BY <2>2, <3>2, FieldsSame
    <3>4. Gain(disk'.data, disk.data, B, <<Last(q), ino, "REG">>)
      BY <3>2, <3>3, AddedThenSame
    <3> QED BY <3>4
  <2> QED BY <1>1, <2>1, <2>2
<1>6. ASSUME NEW p \in Paths, NEW q \in Paths, ~HardLinksOnly, ln_s(p, q)
      PROVE  \E x : Gain(disk'.data, disk.data, B, x)
  <2> DEFINE d == TakeInode(disk)
             ino == NextInode(disk)
             linked(b) == create_link(d, b, ino, Last(q), "LNK")
  <2>1. \/ disk' \in {disk, d}
        \/ q # <<>> /\ \E b : disk' \in {linked(b), AllocateSymlink(linked(b), ino, q)}
    BY <1>6 DEF ln_s, ln_checks, Return, Crash
  <2>2. Sound(d) /\ Fit(d) /\ B \subseteq Held(d) /\ d.data = disk.data
    BY TakeInodeSound, SameDataFit, TakeSame, SameHeld
  <2>3. ASSUME NEW b, q # <<>>, disk' \in {linked(b), AllocateSymlink(linked(b), ino, q)}
        PROVE  \E x : Gain(disk'.data, disk.data, B, x)
    <3>1. Last(q) \in NameOf
      BY <2>3, TraverseIs DEF NameOf
    <3> HIDE DEF d
    <3>2. /\ Sound(linked(b))
          /\ Added(linked(b).data, disk.data, <<Last(q), ino, "LNK">>)
      BY <1>6, <2>2, <3>1, CreateLinkSound, CreateLinkFit
    <3>3. linked(b).bm = d.bm
      BY <2>2 DEF create_link, Sound, Table, Fields
    <3> HIDE DEF linked
    <3>4. B \subseteq Held(linked(b))
      BY <2>2, <3>3 DEF Held
    <3>5. Same(disk', linked(b), B)
      <4>1. Same(linked(b), linked(b), B)
        BY DEF Same
      <4>2. Same(AllocateSymlink(linked(b), ino, q), linked(b), B)
        BY <3>2, <3>4, AllocateSymlinkSame
      <4> QED BY <2>3, <4>1, <4>2
    <3>6. Gain(disk'.data, disk.data, B, <<Last(q), ino, "LNK">>)
      BY <3>2, <3>5, AddedThenSame
    <3> QED BY <3>6
  <2>4. disk' = d => Gain(disk'.data, disk.data, B, 0)
    BY <2>2 DEF Gain
  <2> HIDE DEF d, linked
  <2> QED BY <1>1, <2>1, <2>3, <2>4
<1> QED BY <1>2, <1>5, <1>6 DEF Next, HardLinksOnly, Makes

(* Only ext2_rm takes an entry out of a directory, and it takes one: of    *)
(* the name it was given, not of a directory, and the one that the path    *)
(* leads to when no other has that name.                                   *)
THEOREM EntriesAreKept == Spec => EntriesKept
<1> DEFINE Lost == UNION {{<<b, e>> : e \in Kept(b) \ Kept(b)'} : b \in DirBlocks}
           Good == Lost # {} => /\ Cardinality(Lost) = 1
                                /\ \E p \in Paths : rm(p) /\ \A x \in Lost : RmTakes(p, x[2])
<1>1. Sound(disk) /\ Fit(disk) /\ [Next]_vars => [Good]_vars
  <2> SUFFICES ASSUME Sound(disk), Fit(disk), Next PROVE Good
    OBVIOUS
  <2>1. \A b : Kept(b) = KeptIn(disk.data[b]) /\ Kept(b)' = KeptIn(disk'.data[b])
    BY DEF Kept, KeptIn, Entries, Range, Triple
  <2>2. DirBlocks \subseteq Held(disk)
    BY DirsIs DEF DirBlocks, Range
  <2>3. Readable
    BY DEF Next
  <2>4. DirBlocks \subseteq DOMAIN disk.data
    BY <2>3 DEF Readable, DirBlocks, Range
  <2>5. CASE \E x : Gain(disk'.data, disk.data, DirBlocks, x)
    <3>1. \A b \in DirBlocks : Kept(b) \ Kept(b)' = {}
      BY <2>1, <2>4, <2>5 DEF Gain
    <3>2. Lost = {}
      BY <3>1
    <3> QED BY <3>2
  <2>6. ASSUME NEW p \in Paths, rm(p) PROVE Good
    <3> DEFINE slot == find_dir_entry(Last(p), dirs)
               u == Unlink(disk, slot[1], slot[2])
    <3>1. \/ disk' = disk
          \/ /\ p # <<>> /\ traverse(p) # 0 /\ EntryAt(slot).file_type # "DIR"
             /\ disk' = remove_link(u, traverse(p), inum)
      BY <2>6 DEF rm, Return
    <3>2. CASE disk' = disk
      <4>1. \A b : Kept(b) \ Kept(b)' = {}
        BY <2>1, <3>2
      <4>2. Lost = {}
        BY <4>1
      <4> QED BY <4>2
    <3>3. CASE /\ p # <<>> /\ traverse(p) # 0 /\ EntryAt(slot).file_type # "DIR"
               /\ disk' = remove_link(u, traverse(p), inum)
      <4>1. PICK ino : traverse(p) = Lookup(ino, Last(p))
        BY <3>3, TraverseIs
      <4>2. PICK b \in DirBlocks : /\ b \in DOMAIN disk.data
                                  /\ \E k \in PlacesOf(Last(p), b) : slot = <<b, k>>
        BY <2>3, <3>3, <4>1, FoundSlot
      <4>3. PICK k \in PlacesOf(Last(p), b) : slot = <<b, k>>
        BY <4>2
      <4> DEFINE e == disk.data[b][k]
      <4>4. k \in DOMAIN disk.data[b] /\ e.name = Last(p)
        BY DEF PlacesOf
      <4>5. u = Unlink(disk, b, k) /\ e.file_type # "DIR"
        <5> HIDE DEF slot
        <5> QED BY <3>3, <4>3 DEF EntryAt
      <4>6. Sound(u) /\ Lacks(u.data, disk.data, b, Triple(e))
        BY <4>2, <4>4, <4>5, NotFirst, UnlinkSound, UnlinkFit DEF Own
      <4>7. disk'.data = u.data
        <5> HIDE DEF u
        <5> QED BY <3>3, <4>6, RemoveLinkData
      <4> HIDE DEF u
      <4>8. \A c \in DirBlocks : Kept(c) \ Kept(c)' \subseteq (IF c = b THEN {Triple(e)} ELSE {})
        BY <2>1, <2>4, <4>6, <4>7 DEF Lacks
      <4>9. Lost \subseteq {<<b, Triple(e)>>}
        BY <4>8
      <4>10. Lost # {} => Lost = {<<b, Triple(e)>>}
        BY <4>9
      <4>11. Lost # {} => Cardinality(Lost) = 1
        BY <4>10, FS_Singleton
      <4>12. RmTakes(p, Triple(e))
        <5>1. Triple(e)[1] = Last(p) /\ Triple(e)[2] = e.inode /\ Triple(e)[3] # "DIR"
          BY <4>4, <4>5 DEF Triple
        <5>2. ASSUME Resolve(p) # 0, \A s, t \in Called(Last(p)) : s = t PROVE e.inode = Resolve(p)
          <6>1. PICK at : Resolve(p) = Lookup(at, Last(p))
            BY <3>3, TraverseIs
          <6>2. PICK c \in DirBlocks : /\ c \in DOMAIN disk.data
                                      /\ \E j \in PlacesOf(Last(p), c) : Lookup(at, Last(p)) = disk.data[c][j].inode
            BY <2>3, <5>2, <6>1, FoundSlot
          <6>3. PICK j \in PlacesOf(Last(p), c) : Lookup(at, Last(p)) = disk.data[c][j].inode
            BY <6>2
          <6>4. <<b, k>> \in Called(Last(p)) /\ <<c, j>> \in Called(Last(p))
            BY DEF Called
          <6>5. <<b, k>> = <<c, j>>
            BY <5>2, <6>4
          <6>6. b = c /\ k = j
            BY <6>5
          <6> QED BY <6>1, <6>3, <6>6
        <5> QED BY <5>1, <5>2 DEF RmTakes
      <4> HIDE DEF Lost, e
      <4>13. \A x \in Lost : RmTakes(p, x[2])
        <5> SUFFICES ASSUME NEW x \in Lost PROVE RmTakes(p, x[2])
          OBVIOUS
        <5>1. x[2] = Triple(e)
          BY <4>10
        <5> QED BY <4>12, <5>1
      <4> QED BY <2>6, <4>11, <4>13
    <3> QED BY <3>1, <3>2, <3>3
  <2> HIDE DEF Good
  <2> QED BY <2>2, <2>5, <2>6, StepGains
<1> QED BY <1>1, EntriesProper, PTL DEF Spec, EntriesKept

------------------------------------------------------------------------------
(* Every entry names an inode that the bitmap knows, as long as no entry   *)
(* is taken out: remove_link clears the bit of another inode.              *)
OnlyMakes == Tools \subseteq {"mkdir", "cp"}
Known(d, i) == i = 0 \/ i - 1 \in d.bmi
Named(d) ==
  /\ EXT2_ROOT_INO - 1 \in d.bmi
  /\ \A b \in DOMAIN d.data : \A k \in DOMAIN d.data[b] : Known(d, d.data[b][k].inode)

(* A fresh image: the root and lost+found. *)
LEMMA MkfsNamed == Named(MkfsImage)
<1> USE Ext2DiskAssumption
<1> DEFINE data == MkfsImage.data
<1>1. MkfsImage.bmi = 0 .. Reserved - 1 /\ DOMAIN data = {1, 2}
  BY DEF MkfsImage
<1>2. /\ DOMAIN data[1] = {1, 2, 3} /\ DOMAIN data[2] = {1, 2}
      /\ data[1][1].inode = EXT2_ROOT_INO /\ data[1][2].inode = EXT2_ROOT_INO
      /\ data[1][3].inode = Reserved
      /\ data[2][1].inode = Reserved /\ data[2][2].inode = EXT2_ROOT_INO
  BY DEF MkfsImage
<1> HIDE DEF data
<1>3. /\ EXT2_ROOT_INO - 1 \in 0 .. Reserved - 1
      /\ Known(MkfsImage, EXT2_ROOT_INO) /\ Known(MkfsImage, Reserved)
  BY <1>1 DEF EXT2_ROOT_INO, Known
<1>4. \A b \in DOMAIN data : \A k \in DOMAIN data[b] : Known(MkfsImage, data[b][k].inode)
  BY <1>1, <1>2, <1>3
<1> QED BY <1>1, <1>3, <1>4 DEF Named, data

(* Directory blocks stay as they are, or are written to by a file. *)
Fewer(e, d) ==
  /\ e.bmi = d.bmi /\ DOMAIN e.data \subseteq DOMAIN d.data
  /\ \A b \in DOMAIN e.data : e.data[b] = d.data[b]

(* Every entry that is left names what it named. *)
LEMMA FewerNamed ==
  ASSUME NEW d, Named(d), NEW e, Fewer(e, d)
  PROVE  Named(e)
BY DEF Named, Fewer, Known

(* What a copy does to the image. *)
LEMMA CopiedFewer ==
  ASSUME NEW d, Sound(d), NEW ino, NEW n \in Nat
  PROVE  Fewer(Copied(AllocateFile(d, ino), ino, n), d)
<1>1. ASSUME NEW e, Sound(e), NEW k PROVE Fewer(Turn(e, ino, n, k), e)
  <2> DEFINE b == NextBlock(e)
             w == IF k <= n THEN WriteBytes(TakeBlock(e), b) ELSE TakeBlock(e)
             f == [w EXCEPT !.in[ino].i_blocks = @ + 1, !.in[ino].i_block[k] = b]
  <2>1. Sound(TakeBlock(e)) /\ TakeBlock(e).data = e.data
    BY <1>1, TakeBlockSound
  <2>2. TakeBlock(e).bmi = e.bmi
    BY <1>1 DEF TakeBlock, Sound, Table, Fields
  <2>3. DOMAIN TakeBlock(e) = Fields
    BY <2>1 DEF Sound, Table
  <2>4. Fewer(w, e) /\ DOMAIN w = Fields
    BY <2>1, <2>2, <2>3 DEF WriteBytes, Fewer, Fields
  <2>5. Turn(e, ino, n, k) = f
    BY DEF Turn
  <2> HIDE DEF w, b
  <2>6. f.data = w.data /\ f.bmi = w.bmi
    BY <2>4 DEF Fields
  <2> HIDE DEF f
  <2> QED BY <2>4, <2>5, <2>6 DEF Fewer
<1> DEFINE a == AllocateFile(d, ino)
<1>2. Sound(a)
  BY AllocateFileSound
<1>3. Fewer(a, d)
  <2>1. DOMAIN d = Fields
    BY DEF Sound, Table
  <2>2. a.data = d.data /\ a.bmi = d.bmi
    BY <2>1 DEF AllocateFile, Fields
  <2> QED BY <2>2 DEF Fewer
<1> HIDE DEF a
<1>0. PICK w : Loop(w, a, ino, n)
  BY CopiedIs
<1>4. /\ w[0] = a
      /\ \A k \in 1 .. Turns(n) : w[k] = Turn(w[k - 1], ino, n, k)
      /\ Copied(a, ino, n) = w[Turns(n)]
  BY <1>0 DEF Loop
<1>5. Turns(n) \in 1 .. NDIRECT /\ NDIRECT \in Nat
  BY CopiedIs, Ext2DiskAssumption
<1>6. \A k \in 0 .. Turns(n) : Sound(w[k]) /\ Fewer(w[k], d)
  <2> DEFINE Bad == {k \in 0 .. Turns(n) : ~(Sound(w[k]) /\ Fewer(w[k], d))}
  <2> SUFFICES ASSUME Bad # {} PROVE FALSE
    OBVIOUS
  <2>1. Bad \in SUBSET Nat
    BY <1>5
  <2>2. PICK k \in Bad : \A j \in Bad : k <= j
    BY <2>1, MinIn
  <2>3. k # 0
    BY <1>2, <1>3, <1>4, <2>2
  <2>4. k - 1 \in 0 .. Turns(n) /\ k \in 1 .. Turns(n) /\ k \in 1 .. NDIRECT
    BY <1>5, <2>3
  <2>5. Sound(w[k - 1]) /\ Fewer(w[k - 1], d)
    BY <2>2, <2>4
  <2>6. Fewer(Turn(w[k - 1], ino, n, k), w[k - 1])
    BY <1>1, <2>5
  <2>7. Sound(w[k]) /\ Fewer(w[k], w[k - 1])
    BY <1>4, <2>4, <2>5, <2>6, TurnSound
  <2>8. Fewer(w[k], d)
    BY <2>5, <2>7 DEF Fewer
  <2> QED BY <2>2, <2>7, <2>8
<1>7. Fewer(Copied(a, ino, n), d)
  BY <1>4, <1>5, <1>6
<1> QED BY <1>7 DEF a

(* The inode that is taken. *)
LEMMA TakenKnown ==
  ASSUME NEW d, Sound(d), Named(d)
  PROVE  /\ Named(TakeInode(d)) /\ Known(TakeInode(d), NextInode(d))
         /\ d.bmi \subseteq TakeInode(d).bmi
         /\ NextInode(d) # 0 => NextInode(d) - 1 \notin d.bmi
<1>1. TakeInode(d).data = d.data
  BY TakeInodeSound
<1>2. CASE FreeIndexes(d) = {}
  BY <1>2 DEF TakeInode, NextInode, Known
<1>3. CASE FreeIndexes(d) # {}
  <2>1. FreeIndexes(d) \in SUBSET Nat
    BY Ext2DiskAssumption DEF FreeIndexes, Index
  <2>2. Min(FreeIndexes(d)) \in FreeIndexes(d) /\ Min(FreeIndexes(d)) \in Nat
    BY <1>3, <2>1, MinIn
  <2> DEFINE m == Min(FreeIndexes(d))
  <2>3. TakeInode(d).bmi = d.bmi \cup {m} /\ NextInode(d) = m + 1
    BY <1>3 DEF TakeInode, NextInode, Sound, Table, Fields
  <2>4. m \notin d.bmi /\ m \in Nat
    BY <2>2 DEF FreeIndexes
  <2> HIDE DEF m
  <2>5. Known(TakeInode(d), NextInode(d)) /\ NextInode(d) - 1 = m
    BY <2>3, <2>4 DEF Known
  <2>6. Named(TakeInode(d))
    BY <1>1, <2>3 DEF Named, Known
  <2> QED BY <2>3, <2>4, <2>5, <2>6
<1> QED BY <1>2, <1>3

(* Create, below a directory whose inode is known. *)
LEMMA CreateNamed ==
  ASSUME Sound(disk), Fit(disk), Named(disk), NEW parent, Known(disk, parent),
         NEW name \in Names, NEW type \in {"DIR", "REG"}, NEW n \in Nat, NEW code,
         Create(parent, name, type, n, code)
  PROVE  Named(disk)'
<1> DEFINE b      == find_dir_block_pos(parent)
           ino    == NextInode(disk)
           d      == TakeInode(disk)
           linked == create_link(d, b, ino, name, type)
           dir    == AllocateDir(linked, ino, parent)
           file   == Copied(AllocateFile(linked, ino), ino, n)
<1>1. Sound(d) /\ Fit(d) /\ Named(d) /\ Known(d, ino) /\ Known(d, parent)
  BY TakeInodeSound, SameDataFit, TakenKnown DEF Known
<1>2. disk' \in {d, linked, dir, file}
  BY DEF Create, Crash
<1>3. name \in NameOf /\ type # "LNK"
  BY DEF NameOf
<1> HIDE DEF d, ino
<1>4. /\ Sound(linked) /\ Fit(linked) /\ linked.bmi = d.bmi
      /\ Added(linked.data, d.data, <<name, ino, type>>)
  <2>1. linked.bmi = d.bmi
    BY <1>1 DEF create_link, Sound, Table, Fields
  <2> QED BY <1>1, <1>3, <2>1, CreateLinkSound, CreateLinkFit
<1> HIDE DEF linked
<1>5. Named(linked)
  <2> SUFFICES ASSUME NEW c \in DOMAIN linked.data, NEW k \in DOMAIN linked.data[c]
               PROVE  Known(linked, linked.data[c][k].inode)
    BY <1>1, <1>4 DEF Named
  <2> DEFINE e == linked.data[c][k]
             x == <<name, ino, type>>
  <2>1. c \in DOMAIN d.data /\ Triple(e) \in KeptIn(d.data[c]) \cup {x}
    BY <1>4 DEF Added, KeptIn
  <2>2. CASE Triple(e) = x
    BY <1>1, <1>4, <2>2 DEF Triple, Known
  <2>3. CASE Triple(e) \in KeptIn(d.data[c])
    <3>1. PICK j \in DOMAIN d.data[c] : Triple(e) = Triple(d.data[c][j])
      BY <2>3 DEF KeptIn
    <3>2. e.inode = d.data[c][j].inode
      BY <3>1 DEF Triple
    <3> QED BY <1>1, <1>4, <2>1, <3>2 DEF Named, Known
  <2> QED BY <2>1, <2>2, <2>3
<1>6. Named(dir)
  <2> DEFINE w == TakeBlock(linked)
             c == NextBlock(linked)
             two == TwoEntries(ino, parent)
  <2>1. Sound(w) /\ w.data = linked.data
    BY <1>4, TakeBlockSound
  <2>2. w.bmi = linked.bmi
    BY <1>4 DEF TakeBlock, Sound, Table, Fields
  <2>3. DOMAIN w = Fields
    BY <2>1 DEF Sound, Table
  <2>4. /\ dir.data = [x \in DOMAIN w.data \cup {c} |-> IF x = c THEN two ELSE w.data[x]]
        /\ dir.bmi = w.bmi
    BY <2>3 DEF AllocateDir, ParentLinked, Fields
  <2>5. DOMAIN two = {1, 2} /\ two[1].inode = ino /\ two[2].inode = parent
    BY DEF TwoEntries
  <2> HIDE DEF w, c, two, dir
  <2>6. \A i : Known(d, i) \/ Known(linked, i) => Known(dir, i)
    BY <1>4, <2>2, <2>4 DEF Known
  <2>7. \A k \in DOMAIN two : Known(dir, two[k].inode)
    BY <1>1, <2>5, <2>6
  <2>8. \A x \in DOMAIN linked.data : \A k \in DOMAIN linked.data[x] : Known(dir, linked.data[x][k].inode)
    BY <1>5, <2>6 DEF Named
  <2>9. EXT2_ROOT_INO - 1 \in dir.bmi
    BY <1>5, <2>2, <2>4 DEF Named
  <2> QED BY <2>1, <2>4, <2>7, <2>8, <2>9 DEF Named
<1>7. Named(file)
  BY <1>4, <1>5, CopiedFewer, FewerNamed
<1> HIDE DEF dir, file
<1> QED BY <1>1, <1>2, <1>5, <1>6, <1>7

(* What a path leads to is an entry's inode. *)
LEMMA TraverseKnown ==
  ASSUME Sound(disk), Fit(disk), Named(disk), Readable, NEW path \in Paths, path # <<>>
  PROVE  Known(disk, traverse(path)) /\ Known(disk, Parent(path))
<1>1. ASSUME NEW ino, NEW name PROVE Known(disk, Lookup(ino, name))
  <2>1. CASE Lookup(ino, name) = 0
    BY <2>1 DEF Known
  <2>2. CASE Lookup(ino, name) # 0
    <3>1. PICK b \in DOMAIN disk.data : \E k \in PlacesOf(name, b) : Lookup(ino, name) = disk.data[b][k].inode
      BY <2>2, FoundSlot
    <3>2. PICK k \in PlacesOf(name, b) : Lookup(ino, name) = disk.data[b][k].inode
      BY <3>1
    <3> QED BY <3>2 DEF PlacesOf, Named
  <2> QED BY <2>1, <2>2
<1>2. Known(disk, traverse(path))
  BY <1>1, TraverseIs
<1>3. Known(disk, Parent(path))
  <2>1. CASE Len(path) = 1
    BY <2>1 DEF Parent, Named, Known
  <2>2. CASE Len(path) # 1
    <3>1. path \in Seq(Names) /\ Len(path) \in Nat \ {0}
      BY DEF Paths, BoundedSeq, SeqOf
    <3>2. Len(path) - 1 \in Nat \ {0}
      BY <2>2, <3>1
    <3>3. Front(path) \in Seq(Names) /\ Len(Front(path)) = Len(path) - 1
      <4>1. 1 \in 1 .. Len(path) + 1 /\ Len(path) - 1 \in 0 .. Len(path)
        BY <3>1, <3>2
      <4>2. Front(path) = SubSeq(path, 1, Len(path) - 1)
        BY DEF Front
      <4>3. SubSeq(path, 1, Len(path) - 1) = [i \in 1 .. Len(path) - 1 |-> path[i]]
        BY <3>1, <3>2
      <4>4. \A i \in 1 .. Len(path) - 1 : path[i] \in Names
        BY <3>1
      <4>5. ASSUME NEW q, q = [i \in 1 .. Len(path) - 1 |-> path[i]]
            PROVE  q \in Seq(Names) /\ Len(q) = Len(path) - 1
        BY <3>2, <4>4, <4>5
      <4> QED BY <4>2, <4>3, <4>5
    <3>4. Front(path) \in [1 .. Len(path) - 1 -> Names] /\ Front(path) # <<>>
      BY <3>2, <3>3
    <3>5. \A m \in 0 .. MaxDepth : m > 0 => m - 1 \in 0 .. MaxDepth
      BY Ext2Assumption
    <3>6. PICK m \in 0 .. MaxDepth : path \in [1 .. m -> Names]
      BY DEF Paths, BoundedSeq, SeqOf
    <3>7. m = Len(path)
      BY <3>1, <3>6
    <3>8. Front(path) \in Paths
      BY <3>1, <3>4, <3>5, <3>6, <3>7 DEF Paths, BoundedSeq, SeqOf
    <3>9. Known(disk, traverse(Front(path)))
      BY <1>1, <3>4, <3>8, TraverseIs
    <3> QED BY <2>2, <3>9 DEF Parent
  <2> QED BY <2>1, <2>2
<1> QED BY <1>2, <1>3

(* A step of ext2_mkdir and ext2_cp. *)
LEMMA MakesNamed ==
  ASSUME Sound(disk), Fit(disk), Named(disk), Readable, Makes
  PROVE  Named(disk)'
<1>1. disk' = disk => Named(disk)'
  BY DEF Named, Known
<1>2. ASSUME NEW p \in Paths, mkdir(p) PROVE Named(disk)'
  <2>1. \/ UNCHANGED disk
        \/ p # <<>> /\ \E code : Create(Parent(p), Last(p), "DIR", 0, code)
    BY <1>2 DEF mkdir, Return
  <2>2. ASSUME p # <<>>, NEW code, Create(Parent(p), Last(p), "DIR", 0, code) PROVE Named(disk)'
    <3>1. Last(p) \in Names /\ Known(disk, Parent(p))
      BY <2>2, TraverseIs, TraverseKnown
    <3> QED BY <2>2, <3>1, CreateNamed
  <2> QED BY <1>1, <2>1, <2>2
<1>3. ASSUME NEW name \in Names, NEW n \in 0 .. MaxBlocks, NEW p \in Paths, cp(name, n, p)
      PROVE  Named(disk)'
  <2> DEFINE parent == IF p = <<>> THEN EXT2_ROOT_INO ELSE traverse(p)
  <2>1. UNCHANGED disk \/ Create(parent, name, "REG", n, "0")
    BY <1>3 DEF cp, Return
  <2>2. Known(disk, parent)
    BY TraverseKnown DEF Named, Known
  <2>3. n \in Nat
    BY Ext2Assumption
  <2> HIDE DEF parent
  <2>4. ASSUME Create(parent, name, "REG", n, "0") PROVE Named(disk)'
    BY <2>2, <2>3, <2>4, CreateNamed
  <2> QED BY <1>1, <2>1, <2>4
<1>4. cp_refused => Named(disk)'
  BY <1>1 DEF cp_refused, Return
<1> QED BY <1>2, <1>3, <1>4 DEF Makes

(* Every entry names a known inode. *)
LEMMA NamedInvariant == ASSUME OnlyMakes PROVE Spec => [](Sound(disk) /\ Fit(disk) /\ Named(disk))
<1>1. Init => Sound(disk) /\ Fit(disk) /\ Named(disk)
  BY MkfsSound, MkfsFit, MkfsNamed DEF Init
<1>2. Next => Makes /\ Readable
  BY DEF Next, OnlyMakes, Makes
<1>3. Sound(disk) /\ Fit(disk) /\ Named(disk) /\ [Next]_vars
        => Sound(disk)' /\ Fit(disk)' /\ Named(disk)'
  <2>1. CASE Next
    BY <1>2, <2>1, StepSound, StepFit, MakesNamed
  <2>2. CASE UNCHANGED vars
    BY <2>2, StepSound, StepFit DEF vars, Named, Known
  <2> QED BY <2>1, <2>2
<1> QED BY <1>1, <1>3, PTL DEF Spec

(* mkdir and cp name an inode that nothing names yet, also after failures  *)
(* half-way.  Links name one that has a name, and rm gives a used one out. *)
THEOREM NewInodesAreUnnamed == ASSUME OnlyMakes PROVE Spec => NewInodesUnnamed
<1>1. Sound(disk) /\ Fit(disk) /\ Named(disk) /\ [Next]_vars
        => [\A b \in DirBlocks : \A new \in Kept(b)' \ Kept(b) :
              new[2] # 0 => EntriesNaming(new[2]) = {}]_vars
  <2> SUFFICES ASSUME Sound(disk), Fit(disk), Named(disk), Next,
                      NEW b \in DirBlocks, NEW new \in Kept(b)' \ Kept(b), new[2] # 0
               PROVE  EntriesNaming(new[2]) = {}
    OBVIOUS
  <2>1. Makes /\ Readable
    BY DEF Next, OnlyMakes, Makes
  <2>2. Kept(b) = KeptIn(disk.data[b]) /\ Kept(b)' = KeptIn(disk'.data[b])
    BY DEF Kept, KeptIn, Entries, Range, Triple
  <2>3. DirBlocks \subseteq Held(disk)
    BY DirsIs DEF DirBlocks, Range
  <2>4. DirBlocks \subseteq DOMAIN disk.data
    BY <2>1 DEF Readable, DirBlocks, Range
  <2>5. PICK x : x[2] = NextInode(disk) /\ Gain(disk'.data, disk.data, DirBlocks, x)
    BY <2>1, <2>3, MakesGain
  <2>6. new = x
    BY <2>2, <2>4, <2>5 DEF Gain
  <2>7. new[2] - 1 \notin disk.bmi
    BY <2>5, <2>6, TakenKnown
  <2> SUFFICES ASSUME NEW s \in EntriesNaming(new[2]) PROVE FALSE
    OBVIOUS
  <2>8. s[1] \in DOMAIN disk.data /\ s[2] \in DOMAIN disk.data[s[1]] /\ disk.data[s[1]][s[2]].inode = new[2]
    BY <2>4 DEF EntriesNaming, EntryAt
  <2>9. Known(disk, new[2])
    BY <2>8 DEF Named
  <2> QED BY <2>7, <2>9 DEF Known
<1> QED BY <1>1, NamedInvariant, PTL DEF Spec, NewInodesUnnamed

------------------------------------------------------------------------------
(* The tree of directories, as the inodes' blocks have it.  D is the set   *)
(* of the inodes of the directories that a tool finds and that have their  *)
(* block; a directory that was made when the blocks had run out has none.  *)
Dotted == {".", ".."}
Marked(d, i) == i = EXT2_ROOT_INO \/ (i - 1 >= Reserved /\ i - 1 \in d.bmi)
FoundDirs(d) ==
  {i \in Inode : Marked(d, i) /\ d.in[i].mode = "DIR" /\ d.in[i].i_block[1] # 0}
Home(in, i) == in[i].i_block[1]
Homes(D, in) == {Home(in, i) : i \in D}
Up(in, data, i) == data[Home(in, i)][2].inode
Slots(D, in, data, i) ==
  {s \in Homes(D, in) \X Nat : s[2] \in DOMAIN data[s[1]] /\ data[s[1]][s[2]].inode = i}
Above(D, in, data, i) ==
  {c \in Homes(D, in) : \E k \in DOMAIN data[c] : data[c][k].inode = i /\ data[c][k].name \notin Dotted}

(* Each directory starts with . and .., and .. is a directory; its entry   *)
(* is in the directory that .. names, and nowhere else; it has a link for  *)
(* each entry that names it.                                               *)
DotsFirst(D, in, data) == \A i \in D :
  LET s == data[Home(in, i)]
  IN  /\ Home(in, i) \in DOMAIN data /\ Len(s) >= 2
      /\ s[1].inode = i /\ s[1].name = "." /\ s[1].rec_len = 12
      /\ s[2].name = ".." /\ s[2].inode \in D
OneAbove(D, in, data) == \A i \in D :
  Above(D, in, data, i) = IF i = EXT2_ROOT_INO THEN {} ELSE {Home(in, Up(in, data, i))}
LinkEach(D, in, data) == \A i \in D :
  /\ IsFiniteSet(Slots(D, in, data, i))
  /\ Cardinality(Slots(D, in, data, i)) <= in[i].i_links_count
Listed(D, in, data) == \A c \in Homes(D, in) :
  DOMAIN data[c] = 1 .. Len(data[c]) /\ Len(data[c]) \in Nat
Shape(D, in, data) ==
  /\ D \subseteq Inode /\ EXT2_ROOT_INO \in D /\ (\A i \in D : in[i].i_links_count \in Nat)
  /\ Listed(D, in, data)
  /\ DotsFirst(D, in, data) /\ OneAbove(D, in, data) /\ LinkEach(D, in, data)

(* A set that another one counts. *)
Into(T, S) == \E f \in [T -> S] : \A x, y \in T : f[x] = f[y] => x = y

(* It is no larger. *)
LEMMA NoMore ==
  ASSUME NEW S, IsFiniteSet(S), NEW T, Into(T, S)
  PROVE  IsFiniteSet(T) /\ Cardinality(T) <= Cardinality(S)
<1>1. PICK f \in [T -> S] : \A x, y \in T : f[x] = f[y] => x = y
  BY DEF Into
<1>2. f \in Injection(T, S)
  BY <1>1 DEF Injection, IsInjective
<1> QED BY <1>2, FS_Injection

(* A sequence of entries with one more, behind the k-th. *)
Spliced(t, s, k, x) ==
  /\ Len(s) \in Nat /\ k \in 2 .. Len(s) /\ DOMAIN s = 1 .. Len(s)
  /\ Len(t) = Len(s) + 1 /\ DOMAIN t = 1 .. Len(t)
  /\ t[1] = s[1] /\ Triple(t[k + 1]) = x
  /\ \A j \in 1 .. k : Triple(t[j]) = Triple(s[j])
  /\ \A j \in k + 1 .. Len(s) : Triple(t[j + 1]) = Triple(s[j])

(* One block of the image gets one entry more. *)
Grows(new, data, b, k, x) ==
  /\ Spliced(new[b], data[b], k, x)
  /\ DOMAIN new = DOMAIN data /\ \A c : c # b => new[c] = data[c]

EntryAdded(e, d, b, x) ==
  e.in = d.in /\ e.bmi = d.bmi /\ e.bm = d.bm /\ \E k : Grows(e.data, d.data, b, k, x)

(* create_link in a directory: . has no room, so that .. stays second. *)
LEMMA CreateLinkAt ==
  ASSUME NEW d, Sound(d), Fit(d), NEW b \in DOMAIN d.data, NEW ino, NEW name \in NameOf,
         NEW type \in {"DIR", "REG"}, Room(d, b, name, type) # {},
         d.data[b][1].name = ".", d.data[b][1].rec_len = 12
  PROVE  EntryAdded(create_link(d, b, ino, name, type), d, b, <<name, ino, type>>)
<1> DEFINE e == create_link(d, b, ino, name, type)
           s == d.data[b]
           k == Min(Room(d, b, name, type))
           need == dir_size(s[k].name)
           new  == [inode |-> ino, name |-> name, file_type |-> type, rec_len |-> s[k].rec_len - need]
           short == [s[k] EXCEPT !.rec_len = need]
           u == [s EXCEPT ![k] = short]
           t == InsertAt(u, k + 1, new)
<1>1. DOMAIN d = Fields
  BY DEF Sound, Table
<1>2. e = [d EXCEPT !.data[b] = t]
  BY DEF create_link
<1>3. PICK S : s \in Seq(S) /\ \A x \in S : Proper(x)
  BY DEF Fit, ProperSeq
<1>4. DOMAIN s = 1 .. Len(s) /\ Len(s) \in Nat /\ Len(s) # 0
  BY <1>3 DEF Fit, Tiled
<1>5. Room(d, b, name, type) \subseteq 1 .. Len(s)
  BY <1>4 DEF Room
<1>6. k \in Room(d, b, name, type)
  BY <1>4, <1>5, MinIn
<1> HIDE DEF t
<1>7. e.data = [d.data EXCEPT ![b] = t] /\ e.in = d.in /\ e.bmi = d.bmi /\ e.bm = d.bm
  BY <1>1, <1>2 DEF Fields
<1>8. k \in 1 .. Len(s) /\ need + total_size(name, type) <= s[k].rec_len
  BY <1>5, <1>6 DEF Room
<1> HIDE DEF k
<1>9. k # 1
  <2>1. dir_size(".") = 12
    BY Ext2DiskAssumption DEF dir_size, round_up
  <2>2. strlen(name) \in Nat \ {0}
    BY SizesEnough
  <2>3. total_size(name, type) \in Nat /\ total_size(name, type) > 0
    <3>1. type # "LNK"
      OBVIOUS
    <3>2. total_size(name, type) \in Nat /\ total_size(name, type) >= 8 + strlen(name)
      BY <3>1, SizesEnough
    <3> QED BY <2>2, <3>2
  <2>4. ~(12 + total_size(name, type) <= 12)
    BY <2>3
  <2> QED BY <1>8, <2>1, <2>4
<1> DEFINE T == S \cup {short, new}
<1>10. u \in Seq(T) /\ Len(u) = Len(s) /\ new \in T
  <2>1. s \in Seq(T) /\ short \in T
    BY <1>3
  <2> QED BY <1>8, <2>1
<1>11. u[k] = short /\ \A j \in 1 .. Len(s) : j # k => u[j] = s[j]
  BY <1>4, <1>8
<1>12. Triple(short) = Triple(s[k]) /\ Triple(new) = <<name, ino, type>>
  <2>1. Proper(s[k])
    BY <1>3, <1>8
  <2> QED BY <2>1 DEF Proper, Triple
<1> HIDE DEF u, new, short, T
<1>13. /\ t \in Seq(T) /\ Len(t) = Len(u) + 1
       /\ \A j \in 1 .. k : t[j] = u[j]
       /\ t[k + 1] = new
       /\ \A j \in k + 1 .. Len(u) : t[j + 1] = u[j]
  <2>1. k \in 1 .. Len(u)
    BY <1>8, <1>10
  <2> QED BY <1>10, <2>1, InsertedAre DEF t
<1>14. k \in 2 .. Len(s) /\ k \in Nat
  BY <1>4, <1>8, <1>9
<1>15. Spliced(t, s, k, <<name, ino, type>>)
  <2>1. Len(t) = Len(s) + 1 /\ DOMAIN t = 1 .. Len(t)
    BY <1>10, <1>13
  <2>2. t[1] = s[1]
    <3>1. 1 \in 1 .. k /\ 1 \in 1 .. Len(s) /\ 1 # k
      BY <1>4, <1>14
    <3> QED BY <1>11, <1>13, <3>1
  <2>3. ASSUME NEW j \in 1 .. k PROVE Triple(t[j]) = Triple(s[j])
    <3>1. j \in 1 .. Len(s) /\ t[j] = u[j]
      BY <1>4, <1>13, <1>14
    <3> QED BY <1>11, <1>12, <3>1
  <2>4. ASSUME NEW j \in k + 1 .. Len(s) PROVE Triple(t[j + 1]) = Triple(s[j])
    <3>1. j \in k + 1 .. Len(u) /\ j \in 1 .. Len(s) /\ j # k
      BY <1>10, <1>14
    <3> QED BY <1>11, <1>13, <3>1
  <2> QED BY <1>4, <1>12, <1>13, <1>14, <2>1, <2>2, <2>3, <2>4 DEF Spliced
<1>16. e.data[b] = t
  BY <1>7
<1>17. DOMAIN e.data = DOMAIN d.data /\ \A c : c # b => e.data[c] = d.data[c]
  BY <1>7
<1> HIDE DEF e
<1> QED BY <1>7, <1>15, <1>16, <1>17 DEF Grows, EntryAdded, s, e

(* What the entries of a block say, after one more. *)
LEMMA SplicedKeeps ==
  ASSUME NEW t, NEW s, NEW k, NEW x, Spliced(t, s, k, x)
  PROVE  KeptIn(t) = KeptIn(s) \cup {x}
<1>1. /\ Len(s) \in Nat /\ k \in 2 .. Len(s) /\ DOMAIN s = 1 .. Len(s)
      /\ Len(t) = Len(s) + 1 /\ DOMAIN t = 1 .. Len(t)
  BY DEF Spliced
<1>2. ASSUME NEW j \in DOMAIN t PROVE Triple(t[j]) \in KeptIn(s) \cup {x}
  <2>1. CASE j <= k
    <3>1. j \in 1 .. k /\ j \in DOMAIN s
      BY <1>1, <2>1
    <3> QED BY <3>1 DEF Spliced, KeptIn
  <2>2. CASE j = k + 1
    BY <2>2 DEF Spliced
  <2>3. CASE j > k + 1
    <3> DEFINE i == j - 1
    <3>1. i \in k + 1 .. Len(s) /\ j = i + 1 /\ i \in DOMAIN s
      BY <1>1, <2>3
    <3> HIDE DEF i
    <3> QED BY <3>1 DEF Spliced, KeptIn
  <2> QED BY <1>1, <2>1, <2>2, <2>3
<1>3. ASSUME NEW j \in DOMAIN s PROVE Triple(s[j]) \in KeptIn(t)
  <2>1. CASE j <= k
    <3>1. j \in 1 .. k /\ j \in DOMAIN t
      BY <1>1, <2>1
    <3> QED BY <3>1 DEF Spliced, KeptIn
  <2>2. CASE j > k
    <3>1. j \in k + 1 .. Len(s) /\ j + 1 \in DOMAIN t
      BY <1>1, <2>2
    <3> QED BY <3>1 DEF Spliced, KeptIn
  <2> QED BY <1>1, <2>1, <2>2
<1>4. x \in KeptIn(t)
  <2>1. k + 1 \in DOMAIN t
    BY <1>1
  <2> QED BY <2>1 DEF Spliced, KeptIn
<1> QED BY <1>2, <1>3, <1>4 DEF KeptIn

(* Above, by what the entries say. *)
LEMMA AboveIs ==
  ASSUME NEW D, NEW in, NEW data, NEW i
  PROVE  Above(D, in, data, i)
           = {c \in Homes(D, in) : \E y \in KeptIn(data[c]) : y[2] = i /\ y[1] \notin Dotted}
<1>1. ASSUME NEW c \in Homes(D, in)
      PROVE  (\E k \in DOMAIN data[c] : data[c][k].inode = i /\ data[c][k].name \notin Dotted)
               <=> \E y \in KeptIn(data[c]) : y[2] = i /\ y[1] \notin Dotted
  <2>1. \A k : Triple(data[c][k])[2] = data[c][k].inode /\ Triple(data[c][k])[1] = data[c][k].name
    BY DEF Triple
  <2>2. ASSUME NEW k \in DOMAIN data[c], data[c][k].inode = i, data[c][k].name \notin Dotted
        PROVE  \E y \in KeptIn(data[c]) : y[2] = i /\ y[1] \notin Dotted
    <3> DEFINE y == Triple(data[c][k])
    <3>1. y \in KeptIn(data[c]) /\ y[2] = i /\ y[1] \notin Dotted
      BY <2>1, <2>2 DEF KeptIn
    <3> QED BY <3>1
  <2>3. ASSUME NEW y \in KeptIn(data[c]), y[2] = i, y[1] \notin Dotted
        PROVE  \E k \in DOMAIN data[c] : data[c][k].inode = i /\ data[c][k].name \notin Dotted
    BY <2>1, <2>3 DEF KeptIn
  <2> QED BY <2>2, <2>3
<1> QED BY <1>1 DEF Above

(* Where an entry was before the new one came. *)
Before(b, k, s) == IF s[1] = b /\ s[2] > k THEN <<b, s[2] - 1>> ELSE s

(* One block changes. *)
Put(new, data, b, t) == new[b] = t /\ \A c : c # b => new[c] = data[c]

(* The entries that name an inode are those that named it, and the new one. *)
LEMMA SplicedSlots ==
  ASSUME NEW D, NEW in, NEW data, NEW b \in DOMAIN data, NEW t, NEW k, NEW x,
         Spliced(t, data[b], k, x), NEW i, Listed(D, in, data),
         NEW new, Put(new, data, b, t)
  PROVE  /\ Into(Slots(D, in, new, i) \ {<<b, k + 1>>}, Slots(D, in, data, i))
         /\ <<b, k + 1>> \in Slots(D, in, new, i) => i = x[2]
<1> DEFINE T == Slots(D, in, new, i) \ {<<b, k + 1>>}
           f == [s \in T |-> Before(b, k, s)]
<1>1. /\ Len(data[b]) \in Nat /\ k \in 2 .. Len(data[b]) /\ DOMAIN data[b] = 1 .. Len(data[b])
      /\ Len(t) = Len(data[b]) + 1 /\ DOMAIN t = 1 .. Len(t) /\ Triple(t[k + 1]) = x
      /\ \A j \in 1 .. k : Triple(t[j]) = Triple(data[b][j])
      /\ \A j \in k + 1 .. Len(data[b]) : Triple(t[j + 1]) = Triple(data[b][j])
  BY DEF Spliced
<1>2. new[b] = t /\ \A c : c # b => new[c] = data[c]
  BY DEF Put
<1>3. \A e, g : Triple(e) = Triple(g) => e.inode = g.inode
  BY DEF Triple
<1>4. ASSUME NEW c \in Homes(D, in), NEW j \in Nat, <<c, j>> \in T
      PROVE  /\ c # b \/ j <= k => Before(b, k, <<c, j>>) = <<c, j>>
             /\ ~(c # b \/ j <= k) => j > k + 1 /\ Before(b, k, <<c, j>>) = <<b, j - 1>>
             /\ Before(b, k, <<c, j>>) \in Slots(D, in, data, i)
  <2>1. <<c, j>> # <<b, k + 1>> /\ j \in DOMAIN new[c] /\ new[c][j].inode = i
    BY <1>4 DEF Slots
  <2>2. CASE c # b
    BY <1>2, <2>1, <2>2 DEF Before, Slots
  <2>3. CASE c = b /\ j <= k
    <3>1. j \in 1 .. k /\ j \in DOMAIN data[b]
      BY <1>1, <1>2, <2>1, <2>3
    <3>2. data[b][j].inode = i
      BY <1>1, <1>2, <1>3, <2>1, <2>3, <3>1
    <3> QED BY <1>1, <2>3, <3>1, <3>2 DEF Before, Slots
  <2>4. CASE c = b /\ ~(j <= k)
    <3>1. j # k + 1 /\ j > k + 1
      BY <1>1, <2>1, <2>4
    <3> DEFINE h == j - 1
    <3>2. h \in k + 1 .. Len(data[b]) /\ j = h + 1 /\ h \in DOMAIN data[b] /\ h \in Nat
      BY <1>1, <1>2, <2>1, <2>4, <3>1
    <3>3. Before(b, k, <<c, j>>) = <<b, h>>
      BY <1>1, <2>4 DEF Before
    <3> HIDE DEF h
    <3>4. data[b][h].inode = i
      BY <1>1, <1>2, <1>3, <2>1, <2>4, <3>2
    <3>5. Before(b, k, <<c, j>>) \in Slots(D, in, data, i)
      BY <2>4, <3>2, <3>3, <3>4 DEF Slots
    <3> QED BY <2>4, <3>1, <3>3, <3>5 DEF h
  <2> QED BY <2>2, <2>3, <2>4
<1>5. \A s \in T : s = <<s[1], s[2]>> /\ s[1] \in Homes(D, in) /\ s[2] \in Nat
  BY DEF Slots
<1>6. f \in [T -> Slots(D, in, data, i)]
  <2> SUFFICES ASSUME NEW s \in T PROVE Before(b, k, s) \in Slots(D, in, data, i)
    OBVIOUS
  <2> HIDE DEF T
  <2>1. <<s[1], s[2]>> \in T
    BY <1>5
  <2>2. Before(b, k, <<s[1], s[2]>>) \in Slots(D, in, data, i)
    BY <1>4, <1>5, <2>1
  <2> QED BY <1>5, <2>2
<1>7. ASSUME NEW r \in T, NEW s \in T, Before(b, k, r) = Before(b, k, s) PROVE r = s
  <2> HIDE DEF T
  <2>1. /\ r = <<r[1], r[2]>> /\ r[1] \in Homes(D, in) /\ r[2] \in Nat
        /\ s = <<s[1], s[2]>> /\ s[1] \in Homes(D, in) /\ s[2] \in Nat
    BY <1>5
  <2>2. /\ r[1] # b \/ r[2] <= k => Before(b, k, r) = r
        /\ ~(r[1] # b \/ r[2] <= k) => r[2] > k + 1 /\ Before(b, k, r) = <<b, r[2] - 1>>
        /\ s[1] # b \/ s[2] <= k => Before(b, k, s) = s
        /\ ~(s[1] # b \/ s[2] <= k) => s[2] > k + 1 /\ Before(b, k, s) = <<b, s[2] - 1>>
    BY <1>4, <2>1
  <2>3. CASE (r[1] # b \/ r[2] <= k) /\ (s[1] # b \/ s[2] <= k)
    BY <1>7, <2>2, <2>3
  <2>4. CASE (r[1] # b \/ r[2] <= k) /\ ~(s[1] # b \/ s[2] <= k)
    <3>1. r = <<b, s[2] - 1>> /\ s[2] > k + 1
      BY <1>7, <2>2, <2>4
    <3>2. r[1] = b /\ r[2] = s[2] - 1
      BY <3>1
    <3>3. FALSE
      BY <1>1, <2>1, <2>4, <3>1, <3>2
    <3> QED BY <3>3
  <2>5. CASE ~(r[1] # b \/ r[2] <= k) /\ (s[1] # b \/ s[2] <= k)
    <3>1. s = <<b, r[2] - 1>> /\ r[2] > k + 1
      BY <1>7, <2>2, <2>5
    <3>2. s[1] = b /\ s[2] = r[2] - 1
      BY <3>1
    <3>3. FALSE
      BY <1>1, <2>1, <2>5, <3>1, <3>2
    <3> QED BY <3>3
  <2>6. CASE ~(r[1] # b \/ r[2] <= k) /\ ~(s[1] # b \/ s[2] <= k)
    <3>1. <<b, r[2] - 1>> = <<b, s[2] - 1>> /\ r[1] = b /\ s[1] = b
      BY <1>7, <2>2, <2>6
    <3>2. r[2] - 1 = s[2] - 1
      BY <3>1
    <3>3. r[2] = s[2]
      BY <2>1, <3>2
    <3> QED BY <2>1, <3>1, <3>3
  <2> QED BY <2>3, <2>4, <2>5, <2>6
<1>8. ASSUME <<b, k + 1>> \in Slots(D, in, new, i) PROVE i = x[2]
  <2>1. t[k + 1].inode = i
    BY <1>2, <1>8 DEF Slots
  <2> QED BY <1>1, <2>1 DEF Triple
<1>9. Into(T, Slots(D, in, data, i))
  <2> HIDE DEF T
  <2>1. \A r, s \in T : f[r] = f[s] => r = s
    BY <1>7
  <2> HIDE DEF f
  <2> QED BY <1>6, <2>1 DEF Into
<1> QED BY <1>8, <1>9

(* An entry for something that is no directory yet leaves the tree.        *)
LEMMA LinkShape ==
  ASSUME NEW D, NEW in, NEW data, Shape(D, in, data), NEW p \in D, NEW new, NEW k, NEW x,
         Grows(new, data, Home(in, p), k, x), x[1] \notin Dotted, x[2] \notin D
  PROVE  /\ Shape(D, in, new)
         /\ Above(D, in, data, x[2]) = {} => Above(D, in, new, x[2]) = {Home(in, p)}
         /\ Slots(D, in, data, x[2]) = {} => Slots(D, in, new, x[2]) \subseteq {<<Home(in, p), k + 1>>}
<1> DEFINE b == Home(in, p)
           t == new[b]
<1>1. b \in DOMAIN data /\ b \in Homes(D, in)
  BY DEF Shape, DotsFirst, Homes
<1>4. Spliced(t, data[b], k, x)
  BY DEF Grows
<1>2. /\ Len(data[b]) \in Nat /\ k \in 2 .. Len(data[b]) /\ DOMAIN data[b] = 1 .. Len(data[b])
      /\ Len(t) = Len(data[b]) + 1 /\ DOMAIN t = 1 .. Len(t) /\ Triple(t[k + 1]) = x /\ t[1] = data[b][1]
      /\ \A j \in 1 .. k : Triple(t[j]) = Triple(data[b][j])
  BY <1>4 DEF Spliced
<1>3. new[b] = t /\ DOMAIN new = DOMAIN data /\ \A c : c # b => new[c] = data[c]
  BY DEF Grows
<1>5. ASSUME NEW i
      PROVE  /\ Into(Slots(D, in, new, i) \ {<<b, k + 1>>}, Slots(D, in, data, i))
             /\ <<b, k + 1>> \in Slots(D, in, new, i) => i = x[2]
  <2>1. Listed(D, in, data)
    BY DEF Shape
  <2>2. Put(new, data, b, t)
    BY <1>3 DEF Put
  <2> HIDE DEF b, t
  <2> QED BY <1>1, <1>4, <2>1, <2>2, SplicedSlots
<1>6. \A c \in Homes(D, in) : KeptIn(new[c]) = IF c = b THEN KeptIn(data[c]) \cup {x} ELSE KeptIn(data[c])
  BY <1>3, <1>4, SplicedKeeps
<1> HIDE DEF t, b
<1>7. Listed(D, in, new)
  BY <1>2, <1>3 DEF Shape, Listed
<1>8. ASSUME NEW i \in D
      PROVE  /\ Home(in, i) \in DOMAIN new /\ Len(new[Home(in, i)]) >= 2
             /\ new[Home(in, i)][1] = data[Home(in, i)][1]
             /\ Triple(new[Home(in, i)][2]) = Triple(data[Home(in, i)][2])
  <2>1. CASE Home(in, i) = b
    <3>1. 2 \in 1 .. k
      BY <1>2
    <3>2. Len(t) >= 2
      BY <1>2
    <3> QED BY <1>1, <1>2, <1>3, <2>1, <3>1, <3>2
  <2>2. CASE Home(in, i) # b
    BY <1>3, <2>2 DEF Shape, DotsFirst
  <2> QED BY <2>1, <2>2
<1>9. \A e, g : Triple(e) = Triple(g) => e.inode = g.inode /\ e.name = g.name
  BY DEF Triple
<1>10. \A i \in D : Up(in, new, i) = Up(in, data, i)
  BY <1>8, <1>9 DEF Up
<1>11. DotsFirst(D, in, new)
  BY <1>8, <1>9 DEF Shape, DotsFirst
<1>12. \A i : i # x[2] => Above(D, in, new, i) = Above(D, in, data, i)
  BY <1>6, AboveIs
<1>13. OneAbove(D, in, new)
  BY <1>10, <1>12 DEF Shape, OneAbove
<1>14. LinkEach(D, in, new)
  <2> SUFFICES ASSUME NEW i \in D
               PROVE  /\ IsFiniteSet(Slots(D, in, new, i))
                      /\ Cardinality(Slots(D, in, new, i)) <= in[i].i_links_count
    BY DEF LinkEach
  <2>1. Slots(D, in, new, i) \ {<<b, k + 1>>} = Slots(D, in, new, i)
    BY <1>5
  <2>2. IsFiniteSet(Slots(D, in, data, i)) /\ Cardinality(Slots(D, in, data, i)) <= in[i].i_links_count
    BY DEF Shape, LinkEach
  <2>3. Into(Slots(D, in, new, i), Slots(D, in, data, i))
    BY <1>5, <2>1
  <2>4. /\ IsFiniteSet(Slots(D, in, new, i))
        /\ Cardinality(Slots(D, in, new, i)) <= Cardinality(Slots(D, in, data, i))
    BY <2>2, <2>3, NoMore
  <2>5. Cardinality(Slots(D, in, new, i)) \in Nat /\ Cardinality(Slots(D, in, data, i)) \in Nat
        /\ in[i].i_links_count \in Nat
    BY <2>2, <2>4, FS_CardinalityType DEF Shape
  <2> QED BY <2>2, <2>4, <2>5
<1>15. Shape(D, in, new)
  BY <1>7, <1>11, <1>13, <1>14 DEF Shape
<1>16. Above(D, in, data, x[2]) = {} => Above(D, in, new, x[2]) = {b}
  <2>1. ASSUME Above(D, in, data, x[2]) = {} PROVE Above(D, in, new, x[2]) = {b}
    <3>1. \A c \in Homes(D, in) : ~(\E y \in KeptIn(data[c]) : y[2] = x[2] /\ y[1] \notin Dotted)
      BY <2>1, AboveIs
    <3>2. \A c \in Homes(D, in) : (\E y \in KeptIn(new[c]) : y[2] = x[2] /\ y[1] \notin Dotted) <=> c = b
      BY <1>6, <3>1
    <3> QED BY <1>1, <3>2, AboveIs
  <2> QED BY <2>1
<1>17. Slots(D, in, data, x[2]) = {} => Slots(D, in, new, x[2]) \subseteq {<<b, k + 1>>}
  BY <1>5 DEF Into
<1> QED BY <1>15, <1>16, <1>17 DEF b

(* What is not a directory's inode or block is not looked at. *)
LEMMA FrameShape ==
  ASSUME NEW D, NEW in, NEW data, Shape(D, in, data), NEW in2, NEW data2,
         \A i \in D : /\ Home(in2, i) = Home(in, i) /\ in2[i].i_links_count \in Nat
                      /\ in2[i].i_links_count >= in[i].i_links_count,
         \A c \in Homes(D, in) : c \in DOMAIN data2 /\ data2[c] = data[c]
  PROVE  /\ Shape(D, in2, data2) /\ Homes(D, in2) = Homes(D, in)
         /\ \A i \in D : Up(in2, data2, i) = Up(in, data, i)
         /\ \A i : /\ Slots(D, in2, data2, i) = Slots(D, in, data, i)
                   /\ Above(D, in2, data2, i) = Above(D, in, data, i)
<1>1. Homes(D, in2) = Homes(D, in) /\ \A i \in D : Home(in2, i) = Home(in, i) /\ Home(in, i) \in Homes(D, in)
  BY DEF Homes
<1>2. \A i : /\ Slots(D, in2, data2, i) = Slots(D, in, data, i)
             /\ Above(D, in2, data2, i) = Above(D, in, data, i)
  BY <1>1 DEF Slots, Above
<1>3. \A i \in D : data2[Home(in2, i)] = data[Home(in, i)] /\ Up(in2, data2, i) = Up(in, data, i)
  BY <1>1 DEF Up
<1>4. Listed(D, in2, data2)
  BY <1>1 DEF Shape, Listed
<1>5. DotsFirst(D, in2, data2)
  BY <1>1, <1>3 DEF Shape, DotsFirst
<1>6. OneAbove(D, in2, data2)
  <2>1. \A i \in D : Up(in, data, i) \in D
    BY DEF Shape, DotsFirst, Up
  <2> QED BY <1>1, <1>2, <1>3, <2>1 DEF Shape, OneAbove
<1>7. LinkEach(D, in2, data2)
  <2> SUFFICES ASSUME NEW i \in D
               PROVE  /\ IsFiniteSet(Slots(D, in, data, i))
                      /\ Cardinality(Slots(D, in, data, i)) <= in2[i].i_links_count
    BY <1>2 DEF LinkEach
  <2>1. /\ IsFiniteSet(Slots(D, in, data, i)) /\ in[i].i_links_count \in Nat
        /\ Cardinality(Slots(D, in, data, i)) <= in[i].i_links_count
    BY DEF Shape, LinkEach
  <2>2. Cardinality(Slots(D, in, data, i)) \in Nat
    BY <2>1, FS_CardinalityType
  <2> QED BY <2>1, <2>2
<1>8. \A i \in D : in2[i].i_links_count \in Nat
  OBVIOUS
<1> QED BY <1>1, <1>2, <1>3, <1>4, <1>5, <1>6, <1>7, <1>8 DEF Shape

(* A set with at most one member more. *)
LEMMA OneMore ==
  ASSUME NEW S, IsFiniteSet(S), NEW n \in Nat, Cardinality(S) <= n, NEW x, NEW T, T \subseteq S \cup {x}
  PROVE  IsFiniteSet(T) /\ Cardinality(T) <= n + 1
<1>1. /\ IsFiniteSet(S \cup {x}) /\ Cardinality(S) \in Nat
      /\ \/ Cardinality(S \cup {x}) = Cardinality(S)
         \/ Cardinality(S \cup {x}) = Cardinality(S) + 1
  BY FS_AddElement, FS_CardinalityType
<1>2. IsFiniteSet(T) /\ Cardinality(T) <= Cardinality(S \cup {x})
  BY <1>1, FS_Subset
<1>3. Cardinality(T) \in Nat
  BY <1>2, FS_CardinalityType
<1> QED BY <1>1, <1>2, <1>3

(* What a new directory changes. *)
Below(D, in, data, in2, data2, p, ino, nb) ==
  /\ Above(D, in, data, ino) = {Home(in, p)} /\ \E y : Slots(D, in, data, ino) \subseteq {y}
  /\ nb \notin Homes(D, in) /\ Home(in2, ino) = nb /\ in2[ino].i_links_count = 2
  /\ Home(in2, p) = Home(in, p) /\ in2[p].i_links_count = in[p].i_links_count + 1
  /\ \A i \in D : i # p => in2[i] = in[i]
  /\ nb \in DOMAIN data2 /\ data2[nb] = TwoEntries(ino, p)
  /\ \A c \in Homes(D, in) : c \in DOMAIN data2 /\ data2[c] = data[c]

Widened(D, in, in2, data2, ino, nb) ==
  Shape(D \cup {ino}, in2, data2) /\ Homes(D \cup {ino}, in2) = Homes(D, in) \cup {nb}

(* A directory and its block, below the one that has the entry for it.     *)
LEMMA NewDirShape ==
  ASSUME NEW D, NEW in, NEW data, Shape(D, in, data), NEW p \in D, NEW ino \in Inode \ D,
         NEW in2, NEW data2, NEW nb, Below(D, in, data, in2, data2, p, ino, nb)
  PROVE  Widened(D, in, in2, data2, ino, nb)
<1> DEFINE E == D \cup {ino}
           two == TwoEntries(ino, p)
<1>0. ino # p /\ ino # EXT2_ROOT_INO
  BY DEF Shape
<1> USE DEF Below
<1>1. /\ DOMAIN two = 1 .. 2 /\ Len(two) = 2
      /\ two[1].inode = ino /\ two[1].name = "." /\ two[1].rec_len = 12
      /\ two[2].inode = p /\ two[2].name = ".."
  BY DEF TwoEntries
<1> HIDE DEF two
<1>2. \A i \in D : Home(in2, i) = Home(in, i) /\ Home(in, i) \in Homes(D, in)
  BY DEF Homes, Home
<1>3. Homes(E, in2) = Homes(D, in) \cup {nb}
  BY <1>2 DEF Homes
<1>4. \A i \in D : data2[Home(in2, i)] = data[Home(in, i)] /\ Up(in2, data2, i) = Up(in, data, i)
  BY <1>2 DEF Up
<1>5. data2[Home(in2, ino)] = two /\ Up(in2, data2, ino) = p
  BY <1>1 DEF Up, two
<1>6. \A i : Above(E, in2, data2, i) = Above(D, in, data, i)
  <2>1. \A k \in 1 .. 2 : two[k].name \in Dotted
    BY <1>1 DEF Dotted
  <2>2. data2[nb] = two
    BY DEF two
  <2>3. \A k \in DOMAIN data2[nb] : data2[nb][k].name \in Dotted
    BY <1>1, <2>1, <2>2
  <2>4. ASSUME NEW i PROVE Above(E, in2, data2, i) = Above(D, in, data, i)
    <3> DEFINE In(f, c) == \E k \in DOMAIN f[c] : f[c][k].inode = i /\ f[c][k].name \notin Dotted
    <3>1. ~In(data2, nb) /\ \A c \in Homes(D, in) : In(data2, c) <=> In(data, c)
      BY <2>3
    <3>2. /\ Above(E, in2, data2, i) = {c \in Homes(E, in2) : In(data2, c)}
          /\ Above(D, in, data, i) = {c \in Homes(D, in) : In(data, c)}
      BY DEF Above
    <3> HIDE DEF In, E
    <3> QED BY <1>3, <3>1, <3>2
  <2> QED BY <2>4
<1>7. /\ \A i : i \notin {p, ino} => Slots(E, in2, data2, i) = Slots(D, in, data, i)
      /\ Slots(E, in2, data2, p) = Slots(D, in, data, p) \cup {<<nb, 2>>}
      /\ Slots(E, in2, data2, ino) = Slots(D, in, data, ino) \cup {<<nb, 1>>}
  <2>1. ASSUME NEW i
        PROVE  Slots(E, in2, data2, i)
                 = Slots(D, in, data, i) \cup {s \in {nb} \X Nat : s[2] \in 1 .. 2 /\ two[s[2]].inode = i}
    BY <1>1, <1>3 DEF Slots, two
  <2>2. \A s \in {nb} \X Nat : s[2] \in 1 .. 2 => s = <<nb, 1>> \/ s = <<nb, 2>>
    OBVIOUS
  <2>3. <<nb, 1>> \in {nb} \X Nat /\ <<nb, 2>> \in {nb} \X Nat
    OBVIOUS
  <2>4. /\ {s \in {nb} \X Nat : s[2] \in 1 .. 2 /\ two[s[2]].inode = p} = {<<nb, 2>>}
        /\ {s \in {nb} \X Nat : s[2] \in 1 .. 2 /\ two[s[2]].inode = ino} = {<<nb, 1>>}
    BY <1>0, <1>1, <2>2, <2>3
  <2>5. \A i : i \notin {p, ino} => {s \in {nb} \X Nat : s[2] \in 1 .. 2 /\ two[s[2]].inode = i} = {}
    BY <1>1, <2>2, <2>3
  <2> DEFINE N(i) == {s \in {nb} \X Nat : s[2] \in 1 .. 2 /\ two[s[2]].inode = i}
  <2>6. \A i : Slots(E, in2, data2, i) = Slots(D, in, data, i) \cup N(i)
    BY <2>1
  <2>7. N(p) = {<<nb, 2>>} /\ N(ino) = {<<nb, 1>>} /\ \A i : i \notin {p, ino} => N(i) = {}
    BY <2>4, <2>5
  <2> HIDE DEF N, E
  <2> QED BY <2>6, <2>7
<1>8. Listed(E, in2, data2)
  BY <1>1, <1>3 DEF Shape, Listed, two
<1>9. DotsFirst(E, in2, data2)
  <2>1. \A i \in D : LET s == data2[Home(in2, i)]
                     IN  /\ Home(in2, i) \in DOMAIN data2 /\ Len(s) >= 2
                         /\ s[1].inode = i /\ s[1].name = "." /\ s[1].rec_len = 12
                         /\ s[2].name = ".." /\ s[2].inode \in E
    BY <1>2, <1>4 DEF Shape, DotsFirst
  <2>2. /\ Home(in2, ino) \in DOMAIN data2 /\ data2[Home(in2, ino)] = two
        /\ Len(two) >= 2 /\ p \in E
    BY <1>1, <1>5
  <2>3. LET s == data2[Home(in2, ino)]
        IN  /\ Home(in2, ino) \in DOMAIN data2 /\ Len(s) >= 2
            /\ s[1].inode = ino /\ s[1].name = "." /\ s[1].rec_len = 12
            /\ s[2].name = ".." /\ s[2].inode \in E
    BY <1>1, <2>2
  <2> HIDE DEF E
  <2> QED BY <2>1, <2>3 DEF DotsFirst, E
<1>10. OneAbove(E, in2, data2)
  <2>1. \A i \in D : Up(in, data, i) \in D
    BY DEF Shape, DotsFirst, Up
  <2>2. \A i \in D : Above(E, in2, data2, i) = IF i = EXT2_ROOT_INO THEN {} ELSE {Home(in2, Up(in2, data2, i))}
    BY <1>2, <1>4, <1>6, <2>1 DEF Shape, OneAbove
  <2>3. Above(E, in2, data2, ino) = {Home(in2, Up(in2, data2, ino))}
    BY <1>2, <1>5, <1>6
  <2> QED BY <1>0, <2>2, <2>3 DEF OneAbove
<1>11. LinkEach(E, in2, data2)
  <2>1. ASSUME NEW i \in D
        PROVE  IsFiniteSet(Slots(D, in, data, i)) /\ Cardinality(Slots(D, in, data, i)) \in Nat
               /\ in[i].i_links_count \in Nat
               /\ Cardinality(Slots(D, in, data, i)) <= in[i].i_links_count
    <3>1. IsFiniteSet(Slots(D, in, data, i)) /\ Cardinality(Slots(D, in, data, i)) <= in[i].i_links_count
          /\ in[i].i_links_count \in Nat
      BY DEF Shape, LinkEach
    <3> QED BY <3>1, FS_CardinalityType
  <2>2. /\ IsFiniteSet(Slots(E, in2, data2, p))
        /\ Cardinality(Slots(E, in2, data2, p)) <= in2[p].i_links_count
    <3>1. /\ IsFiniteSet(Slots(E, in2, data2, p))
          /\ Cardinality(Slots(E, in2, data2, p)) <= in[p].i_links_count + 1
      <4>1. Slots(E, in2, data2, p) \subseteq Slots(D, in, data, p) \cup {<<nb, 2>>}
        BY <1>7
      <4> HIDE DEF E
      <4> QED BY <2>1, <4>1, OneMore
    <3> QED BY <3>1
  <2>3. /\ IsFiniteSet(Slots(E, in2, data2, ino))
        /\ Cardinality(Slots(E, in2, data2, ino)) <= in2[ino].i_links_count
    <3>0. PICK y : Slots(D, in, data, ino) \subseteq {y}
      OBVIOUS
    <3>1. IsFiniteSet({y}) /\ Cardinality({y}) <= 1
      <4>1. IsFiniteSet({y}) /\ Cardinality({y}) = 1
        BY FS_Singleton
      <4> QED BY <4>1
    <3>2. Slots(E, in2, data2, ino) \subseteq {y} \cup {<<nb, 1>>}
      BY <1>7, <3>0
    <3> HIDE DEF E
    <3>3. IsFiniteSet(Slots(E, in2, data2, ino)) /\ Cardinality(Slots(E, in2, data2, ino)) <= 1 + 1
      BY <3>1, <3>2, OneMore
    <3> QED BY <3>3
  <2>4. ASSUME NEW i \in D, i # p
        PROVE  /\ IsFiniteSet(Slots(E, in2, data2, i))
               /\ Cardinality(Slots(E, in2, data2, i)) <= in2[i].i_links_count
    BY <1>7, <2>1, <2>4
  <2> QED BY <2>2, <2>3, <2>4 DEF LinkEach
<1>12. \A i \in E : in2[i].i_links_count \in Nat
  BY DEF Shape
<1>13. E \subseteq Inode /\ EXT2_ROOT_INO \in E
  BY DEF Shape
<1> QED BY <1>3, <1>8, <1>9, <1>10, <1>11, <1>12, <1>13 DEF Shape, Widened

(* An image with a tree.  A directory has one block, an inode that was not *)
(* given out is empty; what an entry says of its inode's kind is so; and   *)
(* other blocks than those of the directories found, the one of lost+found *)
(* and the boot block, hold . and .. only.                                 *)
Plain(d) == \A i \in Inode :
  /\ i - 1 \notin d.bmi => d.in[i] = Unused
  /\ d.in[i].mode = "DIR" => d.in[i].i_blocks = 2 /\ \A k \in 2 .. NDIRECT : d.in[i].i_block[k] = 0
KindIs(in, y) == y[2] \in Inode /\ (y[3] = "DIR" <=> in[y[2]].mode = "DIR")
Kinds(D, in, data) == \A c \in Homes(D, in) : \A y \in KeptIn(data[c]) :
  y[1] \notin Dotted /\ y[2] # 0 => KindIs(in, y)
KindsBut(D, in, data, x) == \A c \in Homes(D, in) : \A y \in KeptIn(data[c]) :
  y[1] \notin Dotted /\ y[2] # 0 => y = x \/ (y[2] # x[2] /\ KindIs(in, y))
DotsOutside(D, in, data) == \A c \in DOMAIN data \ Homes(D, in) :
  \A y \in KeptIn(data[c]) : y[1] \in Dotted
Treed(d) ==
  /\ Plain(d) /\ Shape(FoundDirs(d), d.in, d.data)
  /\ Kinds(FoundDirs(d), d.in, d.data) /\ DotsOutside(FoundDirs(d), d.in, d.data)

(* find_free_inode. *)
LEMMA TakenIs ==
  ASSUME NEW d, Sound(d)
  PROVE  LET e   == TakeInode(d)
             ino == NextInode(d)
         IN  /\ Sound(e) /\ e.in = d.in /\ e.data = d.data
             /\ ino = 0 => e = d
             /\ ino # 0 => ino \in Inode /\ ino - 1 \notin d.bmi /\ ino - 1 >= Reserved
                           /\ e.bmi = d.bmi \cup {ino - 1}
<1>1. CASE FreeIndexes(d) = {}
  BY <1>1, TakeInodeSound DEF TakeInode, NextInode
<1>2. CASE FreeIndexes(d) # {}
  <2>1. FreeIndexes(d) \in SUBSET Nat
    BY Ext2DiskAssumption DEF FreeIndexes, Index
  <2>2. Min(FreeIndexes(d)) \in FreeIndexes(d) /\ Min(FreeIndexes(d)) \in Nat
    BY <1>2, <2>1, MinIn
  <2> DEFINE m == Min(FreeIndexes(d))
  <2>3. TakeInode(d).bmi = d.bmi \cup {m} /\ NextInode(d) = m + 1
    BY <1>2 DEF TakeInode, NextInode, Sound, Table, Fields
  <2>4. m \notin d.bmi /\ m \in Nat /\ m >= Reserved
    BY <2>2 DEF FreeIndexes
  <2> HIDE DEF m
  <2>5. m + 1 # 0 /\ (m + 1) - 1 = m
    BY <2>4
  <2> QED BY <2>3, <2>4, <2>5, TakeInodeSound
<1> QED BY <1>1, <1>2

(* The inode that is given out is none of a directory, and empty. *)
LEMMA TakenTreed ==
  ASSUME NEW d, Sound(d), Treed(d)
  PROVE  /\ Treed(TakeInode(d)) /\ FoundDirs(TakeInode(d)) = FoundDirs(d)
         /\ NextInode(d) \notin FoundDirs(d)
         /\ NextInode(d) # 0 => d.in[NextInode(d)] = Unused
<1> DEFINE e   == TakeInode(d)
           ino == NextInode(d)
<1>1. /\ e.in = d.in /\ e.data = d.data
      /\ ino = 0 => e = d
      /\ ino # 0 => ino \in Inode /\ ino - 1 \notin d.bmi /\ ino - 1 >= Reserved
                    /\ e.bmi = d.bmi \cup {ino - 1}
  BY TakenIs
<1> HIDE DEF e, ino
<1>2. CASE ino = 0
  <2>1. ino \notin FoundDirs(d)
    BY <1>2 DEF FoundDirs, Inode
  <2> QED BY <1>1, <1>2, <2>1 DEF e, ino
<1>3. CASE ino # 0
  <2>1. d.in[ino] = Unused /\ Unused.mode = "none"
    BY <1>1, <1>3 DEF Treed, Plain, Unused
  <2>2. \A i \in Inode : i # ino => i - 1 # ino - 1
    BY <1>1, <1>3 DEF Inode
  <2>3. \A i \in Inode : i # ino => (Marked(e, i) <=> Marked(d, i))
    BY <1>1, <1>3, <2>2 DEF Marked
  <2>4. FoundDirs(e) = FoundDirs(d) /\ ino \notin FoundDirs(d)
    BY <1>1, <2>1, <2>3 DEF FoundDirs
  <2>5. Plain(e)
    BY <1>1, <1>3 DEF Treed, Plain
  <2>6. Treed(e)
    BY <1>1, <2>4, <2>5 DEF Treed
  <2> QED BY <2>1, <2>4, <2>6 DEF e, ino
<1> QED BY <1>2, <1>3

(* The directories' blocks are in use. *)
LEMMA HomesHeld ==
  ASSUME NEW d, Sound(d)
  PROVE  Homes(FoundDirs(d), d.in) \subseteq Held(d)
<1> SUFFICES ASSUME NEW i \in FoundDirs(d) PROVE Home(d.in, i) \in Held(d)
  BY DEF Homes
<1>1. i \in Inode /\ d.in[i].i_block[1] # 0 /\ d.in[i] \in InodeType
  BY DEF FoundDirs, Sound, Table
<1>2. 1 \in 1 .. NDIRECT
  BY Ext2DiskAssumption
<1>3. d.in[i].i_block[1] \in Block
  BY <1>1, <1>2 DEF InodeType
<1> QED BY <1>1, <1>2, <1>3 DEF Sound, Owned, Held, Home

(* What create_link in a directory that was found leaves of the tree. *)
Linked(e, d, p, x) ==
  LET D == FoundDirs(d)
      b == Home(d.in, p)
  IN  /\ e.in = d.in /\ e.bmi = d.bmi /\ FoundDirs(e) = D
      /\ Plain(e) /\ Shape(D, e.in, e.data) /\ DotsOutside(D, e.in, e.data)
      /\ KindsBut(D, e.in, e.data, x)
      /\ x[2] # 0 => Above(D, e.in, e.data, x[2]) = {b} /\ \E y : Slots(D, e.in, e.data, x[2]) \subseteq {y}
Unnamed(data, ino) == \A c \in DOMAIN data : \A y \in KeptIn(data[c]) : y[2] # ino

(* What one entry more leaves of it. *)
LEMMA GrownTree ==
  ASSUME NEW d, Treed(d), NEW p \in FoundDirs(d), NEW e, e.in = d.in, e.bmi = d.bmi,
         NEW k, NEW x, Grows(e.data, d.data, Home(d.in, p), k, x), x[1] \notin Dotted,
         x[2] \notin FoundDirs(d), x[2] # 0 => Unnamed(d.data, x[2])
  PROVE  Linked(e, d, p, x)
<1> DEFINE b == Home(d.in, p)
           D == FoundDirs(d)
<1>0. Shape(D, d.in, d.data) /\ b \in Homes(D, d.in)
  BY DEF Treed, Homes
<1>1. \A c \in Homes(D, d.in) : c \in DOMAIN d.data
  BY <1>0 DEF Shape, DotsFirst, Homes
<1>5. /\ Shape(D, d.in, e.data)
      /\ Above(D, d.in, d.data, x[2]) = {} => Above(D, d.in, e.data, x[2]) = {b}
      /\ Slots(D, d.in, d.data, x[2]) = {} => Slots(D, d.in, e.data, x[2]) \subseteq {<<b, k + 1>>}
  <2> HIDE DEF D
  <2> QED BY <1>0, LinkShape DEF D
<1>6. DOMAIN e.data = DOMAIN d.data /\ (\A c : c # b => e.data[c] = d.data[c])
      /\ Spliced(e.data[b], d.data[b], k, x)
  BY DEF Grows
<1>7. KeptIn(e.data[b]) = KeptIn(d.data[b]) \cup {x}
  BY <1>6, SplicedKeeps
<1>8. FoundDirs(e) = D
  BY DEF FoundDirs, Marked
<1>9. Plain(e)
  BY DEF Treed, Plain
<1> HIDE DEF b, D
<1>10. DotsOutside(D, e.in, e.data)
  BY <1>0, <1>6 DEF Treed, DotsOutside, D
<1>11. KindsBut(D, e.in, e.data, x)
  <2> SUFFICES ASSUME NEW c \in Homes(D, d.in), NEW y \in KeptIn(e.data[c]), y[1] \notin Dotted, y[2] # 0, y # x
               PROVE  y[2] # x[2] /\ KindIs(d.in, y)
    BY <1>6 DEF KindsBut
  <2>1. y \in KeptIn(d.data[c])
    BY <1>6, <1>7
  <2>2. c \in DOMAIN d.data
    BY <1>1
  <2>3. y[2] # x[2]
    BY <2>1, <2>2 DEF Unnamed
  <2> QED BY <2>1, <2>3 DEF Treed, Kinds, D
<1>12. ASSUME x[2] # 0
       PROVE  /\ Above(D, e.in, e.data, x[2]) = {b}
              /\ Slots(D, e.in, e.data, x[2]) \subseteq {<<b, k + 1>>}
  <2>2. ASSUME NEW c \in Homes(D, d.in), NEW j \in DOMAIN d.data[c] PROVE d.data[c][j].inode # x[2]
    <3>1. Triple(d.data[c][j]) \in KeptIn(d.data[c])
      BY DEF KeptIn
    <3>2. Triple(d.data[c][j])[2] # x[2]
      BY <1>1, <1>12, <3>1 DEF Unnamed
    <3> QED BY <3>2 DEF Triple
  <2>3. Above(D, d.in, d.data, x[2]) = {} /\ Slots(D, d.in, d.data, x[2]) = {}
    BY <2>2 DEF Above, Slots
  <2> QED BY <1>5, <2>3
<1>13. x[2] # 0 => \E y : Slots(D, e.in, e.data, x[2]) \subseteq {y}
  BY <1>12
<1> QED BY <1>5, <1>8, <1>9, <1>10, <1>11, <1>12, <1>13 DEF Linked, b, D

(* create_link in a directory that was found. *)
LEMMA LinkedTree ==
  ASSUME NEW d, Sound(d), Fit(d), Treed(d), NEW p \in FoundDirs(d), NEW ino,
         NEW name \in Names \ Dotted, NEW type \in {"DIR", "REG"}, ino \notin FoundDirs(d),
         NEW b, b = Home(d.in, p),
         Room(d, b, name, type) # {}, ino # 0 => Unnamed(d.data, ino)
  PROVE  Linked(create_link(d, b, ino, name, type), d, p, <<name, ino, type>>)
<1> DEFINE e == create_link(d, b, ino, name, type)
           x == <<name, ino, type>>
<1>1. b \in DOMAIN d.data /\ d.data[b][1].name = "." /\ d.data[b][1].rec_len = 12
  BY DEF Treed, Shape, DotsFirst
<1>2. name \in NameOf
  BY DEF NameOf
<1> HIDE DEF e
<1>3. EntryAdded(e, d, b, <<name, ino, type>>)
  BY <1>1, <1>2, CreateLinkAt DEF e
<1>4. PICK k : Grows(e.data, d.data, b, k, x)
  BY <1>3 DEF EntryAdded
<1>5. x[1] = name /\ x[2] = ino
  OBVIOUS
<1> HIDE DEF x
<1>6. Linked(e, d, p, x)
  BY <1>3, <1>4, <1>5, GrownTree DEF EntryAdded
<1> QED BY <1>6 DEF e, x

(* What allocate does for a directory, field by field. *)
NewDir(e, d, ino, p, b) ==
  /\ e.bmi = d.bmi
  /\ e.in[ino].mode = "DIR" /\ e.in[ino].i_links_count = 2 /\ e.in[ino].i_blocks = 2
  /\ Home(e.in, ino) = b /\ \A k \in 2 .. NDIRECT : e.in[ino].i_block[k] = d.in[ino].i_block[k]
  /\ e.in[p].mode = d.in[p].mode /\ e.in[p].i_links_count = d.in[p].i_links_count + 1
  /\ e.in[p].i_blocks = d.in[p].i_blocks /\ e.in[p].i_block = d.in[p].i_block
  /\ \A i \in Inode : i \notin {ino, p} => e.in[i] = d.in[i]
  /\ DOMAIN e.data = DOMAIN d.data \cup {b} /\ e.data[b] = TwoEntries(ino, p)
  /\ \A c \in DOMAIN d.data : c # b => e.data[c] = d.data[c]

(* allocate. *)
LEMMA NewDirIs ==
  ASSUME NEW d, Sound(d), NEW p \in Inode, NEW ino \in Inode, ino # p
  PROVE  NewDir(AllocateDir(d, ino, p), d, ino, p, NextBlock(d))
<1> DEFINE b == NextBlock(d)
           w == TakeBlock(d)
           two == TwoEntries(ino, p)
           bytes == w.bytes \ {b}
           text  == [c \in DOMAIN w.text \ {b} |-> w.text[c]]
           data  == [c \in DOMAIN w.data \cup {b} |-> IF c = b THEN two ELSE w.data[c]]
           f == [w EXCEPT !.in[ino] = [@ EXCEPT !.mode = "DIR", !.i_links_count = 2, !.i_blocks = 2,
                                               !.i_block[1] = b],
                          !.bytes = bytes, !.text = text, !.data = data]
           e == AllocateDir(d, ino, p)
<1>1. e = [f EXCEPT !.in[p].i_links_count = @ + 1]
  BY DEF AllocateDir, ParentLinked
<1>2. Sound(w) /\ w.in = d.in /\ w.data = d.data
  BY TakeBlockSound
<1>3. w.bmi = d.bmi
  BY DEF TakeBlock, Sound, Table, Fields
<1>4. data = [c \in DOMAIN d.data \cup {b} |-> IF c = b THEN two ELSE d.data[c]]
  BY <1>2
<1> HIDE DEF b, w, bytes, text, data, two
<1>5. DOMAIN w = Fields /\ d.in \in [Inode -> InodeType]
  BY <1>2 DEF Sound, Table
<1>6. /\ DOMAIN f = Fields /\ f.bmi = w.bmi /\ f.data = data
      /\ f.in = [d.in EXCEPT ![ino] = [@ EXCEPT !.mode = "DIR", !.i_links_count = 2, !.i_blocks = 2,
                                               !.i_block[1] = b]]
  BY <1>2, <1>5 DEF Fields
<1> HIDE DEF f
<1>7. e.bmi = f.bmi /\ e.data = f.data /\ e.in = [f.in EXCEPT ![p].i_links_count = @ + 1]
  BY <1>1, <1>6 DEF Fields
<1> HIDE DEF e
<1>8. d.in[ino] \in InodeType /\ d.in[p] \in InodeType
  BY <1>5
<1>9. /\ f.in[ino] = [d.in[ino] EXCEPT !.mode = "DIR", !.i_links_count = 2, !.i_blocks = 2,
                                       !.i_block[1] = b]
      /\ \A i \in Inode : i # ino => f.in[i] = d.in[i]
      /\ DOMAIN f.in = Inode
  BY <1>5, <1>6
<1>10. /\ e.in[ino] = f.in[ino] /\ e.in[p] = [d.in[p] EXCEPT !.i_links_count = @ + 1]
       /\ \A i \in Inode : i \notin {ino, p} => e.in[i] = d.in[i]
  BY <1>7, <1>9
<1>11. /\ e.in[ino].mode = "DIR" /\ e.in[ino].i_links_count = 2 /\ e.in[ino].i_blocks = 2
       /\ Home(e.in, ino) = b /\ \A k \in 2 .. NDIRECT : e.in[ino].i_block[k] = d.in[ino].i_block[k]
  <2>1. 1 \in 1 .. NDIRECT /\ \A k \in 2 .. NDIRECT : k # 1 /\ k \in 1 .. NDIRECT
    BY Ext2DiskAssumption
  <2>2. ASSUME NEW n \in InodeType, NEW m,
               m = [n EXCEPT !.mode = "DIR", !.i_links_count = 2, !.i_blocks = 2, !.i_block[1] = b]
        PROVE  /\ m.mode = "DIR" /\ m.i_links_count = 2 /\ m.i_blocks = 2
               /\ m.i_block = [n.i_block EXCEPT ![1] = b] /\ DOMAIN n.i_block = 1 .. NDIRECT
    BY <2>2 DEF InodeType
  <2> DEFINE n == d.in[ino]
             m == e.in[ino]
  <2>3. n \in InodeType
    BY <1>8
  <2>4. m = [n EXCEPT !.mode = "DIR", !.i_links_count = 2, !.i_blocks = 2, !.i_block[1] = b]
    BY <1>9, <1>10
  <2> HIDE DEF n, m
  <2>5. /\ m.mode = "DIR" /\ m.i_links_count = 2 /\ m.i_blocks = 2
        /\ m.i_block = [n.i_block EXCEPT ![1] = b] /\ DOMAIN n.i_block = 1 .. NDIRECT
    BY <2>2, <2>3, <2>4
  <2>6. m.i_block[1] = b /\ \A k \in 2 .. NDIRECT : m.i_block[k] = n.i_block[k]
    BY <2>1, <2>5
  <2> QED BY <2>5, <2>6 DEF Home, n, m
<1>12. /\ e.in[p].mode = d.in[p].mode /\ e.in[p].i_links_count = d.in[p].i_links_count + 1
       /\ e.in[p].i_blocks = d.in[p].i_blocks /\ e.in[p].i_block = d.in[p].i_block
  BY <1>8, <1>10 DEF InodeType
<1>13. /\ DOMAIN e.data = DOMAIN d.data \cup {b} /\ e.data[b] = two
       /\ \A c \in DOMAIN d.data : c # b => e.data[c] = d.data[c]
  BY <1>4, <1>6, <1>7
<1>14. e.bmi = d.bmi
  BY <1>3, <1>6, <1>7
<1> QED BY <1>10, <1>11, <1>12, <1>13, <1>14 DEF NewDir, e, b, two

(* A new directory below the one that has the entry for it, or, when the   *)
(* blocks have run out, an inode and an entry for no directory.            *)
LEMMA NewDirTree ==
  ASSUME NEW d, Treed(d), NEW p \in FoundDirs(d), NEW ino \in Inode, d.in[ino] = Unused,
         ino - 1 \in d.bmi, ino - 1 >= Reserved,
         NEW x, x[2] = ino, x[3] = "DIR", NEW e, Sound(e), Linked(e, d, p, x),
         NEW b, b \notin Homes(FoundDirs(d), d.in), NEW a, NewDir(a, e, ino, p, b)
  PROVE  Treed(a)
<1> DEFINE D == FoundDirs(d)
           E == IF b = 0 THEN D ELSE D \cup {ino}
<1>1. /\ e.in = d.in /\ e.bmi = d.bmi /\ FoundDirs(e) = D
      /\ Plain(e) /\ Shape(D, e.in, e.data) /\ DotsOutside(D, e.in, e.data)
      /\ KindsBut(D, e.in, e.data, x)
  BY DEF Linked
<1>2. p \in Inode /\ p # ino /\ ino \notin D
  BY DEF FoundDirs, Unused
<1>3. ino # 0 /\ ino # EXT2_ROOT_INO
  BY <1>1, <1>2 DEF Shape, Inode
<1>4. Above(D, e.in, e.data, ino) = {Home(d.in, p)} /\ \E y : Slots(D, e.in, e.data, ino) \subseteq {y}
  BY <1>3 DEF Linked
<1>5. /\ \A i \in Inode : i # ino => /\ a.in[i].mode = e.in[i].mode /\ a.in[i].i_blocks = e.in[i].i_blocks
                                     /\ a.in[i].i_block = e.in[i].i_block
      /\ a.in[ino].mode = "DIR" /\ a.in[ino].i_blocks = 2 /\ a.in[ino].i_block[1] = b
      /\ a.in[ino].i_links_count = 2
      /\ \A k \in 2 .. NDIRECT : a.in[ino].i_block[k] = 0
  <2>1. \A k \in 2 .. NDIRECT : e.in[ino].i_block[k] = 0
    <3>1. \A k \in 2 .. NDIRECT : Unused.i_block[k] = 0
      <4>1. \A k \in 2 .. NDIRECT : k \in 1 .. NDIRECT
        BY Ext2DiskAssumption
      <4> QED BY <4>1 DEF Unused
    <3> QED BY <1>1, <3>1
  <2> QED BY <1>2, <2>1 DEF NewDir, Home
<1>6. a.bmi = e.bmi /\ a.in[p].i_links_count = e.in[p].i_links_count + 1
      /\ \A i \in Inode : i \notin {ino, p} => a.in[i] = e.in[i]
  BY DEF NewDir
<1>7. /\ DOMAIN a.data = DOMAIN e.data \cup {b} /\ a.data[b] = TwoEntries(ino, p)
      /\ \A c \in DOMAIN e.data : c # b => a.data[c] = e.data[c]
  BY DEF NewDir
<1>8. D \subseteq Inode /\ p \in D /\ (\A c \in Homes(D, e.in) : c \in DOMAIN e.data)
      /\ \A i \in D : e.in[i].i_links_count \in Nat
  BY <1>1 DEF Shape, DotsFirst, Homes
<1>9. b \notin Homes(D, e.in)
  BY <1>1
<1>10. FoundDirs(a) = E
  <2>1. Marked(a, ino)
    BY <1>1, <1>6 DEF Marked
  <2>2. \A i \in Inode : Marked(a, i) <=> Marked(e, i)
    BY <1>6 DEF Marked
  <2>3. \A i \in Inode : i \in FoundDirs(a) <=> IF i = ino THEN b # 0 ELSE i \in FoundDirs(e)
    BY <1>5, <2>1, <2>2 DEF FoundDirs
  <2>4. FoundDirs(a) \subseteq Inode /\ FoundDirs(e) \subseteq Inode
    BY DEF FoundDirs
  <2> HIDE DEF D
  <2> QED BY <1>1, <1>2, <2>3, <2>4
<1>11. Plain(a)
  <2> SUFFICES ASSUME NEW i \in Inode
               PROVE  /\ i - 1 \notin a.bmi => a.in[i] = Unused
                      /\ a.in[i].mode = "DIR" => a.in[i].i_blocks = 2 /\ \A k \in 2 .. NDIRECT : a.in[i].i_block[k] = 0
    BY DEF Plain
  <2>1. i - 1 \notin e.bmi => e.in[i] = Unused
    BY <1>1 DEF Plain
  <2>2. Unused.mode # "DIR" /\ e.in[p].mode = "DIR"
    BY <1>1, <1>8 DEF Unused, FoundDirs
  <2>3. e.in[i].mode = "DIR" => e.in[i].i_blocks = 2 /\ \A k \in 2 .. NDIRECT : e.in[i].i_block[k] = 0
    BY <1>1 DEF Plain
  <2>4. i - 1 \notin a.bmi => i \notin {ino, p}
    BY <1>1, <1>6, <2>1, <2>2
  <2> HIDE DEF D, E
  <2> QED BY <1>5, <1>6, <2>1, <2>3, <2>4
<1>12. \A c \in Homes(D, e.in) : c \in DOMAIN a.data /\ a.data[c] = e.data[c]
  BY <1>7, <1>8, <1>9
<1>13. \A i \in D : Home(a.in, i) = Home(e.in, i)
  BY <1>2, <1>5, <1>8 DEF Home
<1>14. Shape(E, a.in, a.data) /\ Homes(E, a.in) = Homes(D, e.in) \cup (IF b = 0 THEN {} ELSE {b})
  <2>1. CASE b = 0
    <3>1. \A i \in D : /\ a.in[i].i_links_count \in Nat /\ a.in[i].i_links_count >= e.in[i].i_links_count
      BY <1>2, <1>6, <1>8
    <3> HIDE DEF D
    <3> QED BY <1>1, <1>12, <1>13, <2>1, <3>1, FrameShape
  <2>2. CASE b # 0
    <3>1. Above(D, e.in, e.data, ino) = {Home(e.in, p)} /\ \E y : Slots(D, e.in, e.data, ino) \subseteq {y}
      BY <1>1, <1>4
    <3>2. ino \in Inode \ D
      BY <1>2
    <3>3. \A i \in D : i # p => a.in[i] = e.in[i]
      BY <1>2, <1>6, <1>8
    <3>4. Home(a.in, ino) = b /\ Home(a.in, p) = Home(e.in, p) /\ b \in DOMAIN a.data
      BY <1>5, <1>7, <1>8, <1>13 DEF Home
    <3> HIDE DEF D
    <3>6. Below(D, e.in, e.data, a.in, a.data, p, ino, b)
      BY <1>5, <1>6, <1>7, <1>9, <1>12, <3>1, <3>3, <3>4 DEF Below
    <3>5. Widened(D, e.in, a.in, a.data, ino, b)
      BY <1>1, <1>8, <3>2, <3>6, NewDirShape
    <3> QED BY <2>2, <3>5 DEF Widened
  <2> QED BY <2>1, <2>2
<1>15. \A y \in KeptIn(a.data[b]) : y[1] \in Dotted
  BY <1>7 DEF KeptIn, TwoEntries, Triple, Dotted
<1> HIDE DEF D, E
<1>16. Kinds(E, a.in, a.data)
  <2> SUFFICES ASSUME NEW c \in Homes(E, a.in), NEW y \in KeptIn(a.data[c]), y[1] \notin Dotted, y[2] # 0
               PROVE  KindIs(a.in, y)
    BY DEF Kinds
  <2>1. c \in Homes(D, e.in)
    BY <1>14, <1>15
  <2>2. y \in KeptIn(e.data[c])
    BY <1>12, <2>1
  <2>3. y = x \/ (y[2] # x[2] /\ KindIs(e.in, y))
    BY <1>1, <2>1, <2>2 DEF KindsBut
  <2> QED BY <1>5, <2>3 DEF KindIs
<1>17. DotsOutside(E, a.in, a.data)
  <2> SUFFICES ASSUME NEW c \in DOMAIN a.data \ Homes(E, a.in), c # b
               PROVE  \A y \in KeptIn(a.data[c]) : y[1] \in Dotted
    BY <1>15 DEF DotsOutside
  <2>1. c \in DOMAIN e.data \ Homes(D, e.in) /\ a.data[c] = e.data[c]
    BY <1>7, <1>14
  <2> QED BY <1>1, <2>1 DEF DotsOutside
<1> QED BY <1>10, <1>11, <1>14, <1>16, <1>17 DEF Treed

(* A copy fills the inode it took, which stays a file's. *)
FileAt(e, d, ino) ==
  (\A i \in Inode : i # ino => e.in[i] = d.in[i]) /\ e.in[ino].mode = "REG"

(* One turn. *)
LEMMA TurnFileAt ==
  ASSUME NEW d, Sound(d), NEW ino \in Inode, d.in[ino].mode = "REG", NEW n, NEW k
  PROVE  FileAt(Turn(d, ino, n, k), d, ino)
<1> DEFINE b == NextBlock(d)
           w == IF k <= n THEN WriteBytes(TakeBlock(d), b) ELSE TakeBlock(d)
           e == [w EXCEPT !.in[ino].i_blocks = @ + 1, !.in[ino].i_block[k] = b]
<1>1. Sound(TakeBlock(d)) /\ TakeBlock(d).in = d.in
  BY TakeBlockSound
<1>2. Sound(w) /\ w.in = d.in
  BY <1>1, WriteBytesSound
<1>3. Turn(d, ino, n, k) = e
  BY DEF Turn
<1> HIDE DEF w, b
<1>4. DOMAIN w = Fields /\ d.in \in [Inode -> InodeType]
  BY <1>2 DEF Sound, Table
<1>5. d.in[ino] \in InodeType
  BY <1>4
<1>6. ASSUME NEW m \in InodeType
      PROVE  [[m EXCEPT !.i_blocks = @ + 1] EXCEPT !.i_block[k] = b].mode = m.mode
  BY DEF InodeType
<1>7. e.in = [[d.in EXCEPT ![ino].i_blocks = @ + 1] EXCEPT ![ino].i_block[k] = b]
  BY <1>2, <1>4 DEF Fields
<1> HIDE DEF e
<1>8. /\ \A i \in Inode : i # ino => e.in[i] = d.in[i]
      /\ e.in[ino] = [[d.in[ino] EXCEPT !.i_blocks = @ + 1] EXCEPT !.i_block[k] = b]
  BY <1>4, <1>7
<1>9. e.in[ino].mode = d.in[ino].mode
  <2> DEFINE m == d.in[ino]
  <2>1. m \in InodeType /\ e.in[ino] = [[m EXCEPT !.i_blocks = @ + 1] EXCEPT !.i_block[k] = b]
    BY <1>5, <1>8
  <2> HIDE DEF m
  <2>2. e.in[ino].mode = m.mode
    BY <1>6, <2>1
  <2> QED BY <2>2 DEF m
<1> QED BY <1>3, <1>8, <1>9 DEF FileAt

(* All of them. *)
LEMMA CopiedFileAt ==
  ASSUME NEW d, Sound(d), NEW ino \in Inode, NEW n \in Nat
  PROVE  FileAt(Copied(AllocateFile(d, ino), ino, n), d, ino)
<1> DEFINE a == AllocateFile(d, ino)
<1>1. Sound(a)
  BY AllocateFileSound
<1>2. FileAt(a, d, ino)
  <2>1. DOMAIN d = Fields /\ d.in \in [Inode -> InodeType]
    BY DEF Sound, Table
  <2>2. /\ \A i \in Inode : i # ino => a.in[i] = d.in[i]
        /\ a.in[ino] = [d.in[ino] EXCEPT !.mode = "REG", !.i_links_count = @ + 1]
    BY <2>1 DEF AllocateFile, Fields
  <2>3. \A m \in InodeType : [m EXCEPT !.mode = "REG", !.i_links_count = @ + 1].mode = "REG"
    BY DEF InodeType
  <2>4. d.in[ino] \in InodeType
    BY <2>1
  <2> HIDE DEF a
  <2>5. a.in[ino].mode = "REG"
    BY <2>2, <2>3, <2>4
  <2> QED BY <2>2, <2>5 DEF FileAt
<1> HIDE DEF a
<1>0. PICK w : Loop(w, a, ino, n)
  BY CopiedIs
<1>4. /\ w[0] = a
      /\ \A k \in 1 .. Turns(n) : w[k] = Turn(w[k - 1], ino, n, k)
      /\ Copied(a, ino, n) = w[Turns(n)]
  BY <1>0 DEF Loop
<1>5. Turns(n) \in 1 .. NDIRECT /\ NDIRECT \in Nat
  BY CopiedIs, Ext2DiskAssumption
<1>6. \A k \in 0 .. Turns(n) : Sound(w[k]) /\ FileAt(w[k], d, ino)
  <2> DEFINE Bad == {k \in 0 .. Turns(n) : ~(Sound(w[k]) /\ FileAt(w[k], d, ino))}
  <2> SUFFICES ASSUME Bad # {} PROVE FALSE
    OBVIOUS
  <2>1. Bad \in SUBSET Nat
    BY <1>5
  <2>2. PICK k \in Bad : \A j \in Bad : k <= j
    BY <2>1, MinIn
  <2>3. k # 0
    BY <1>1, <1>2, <1>4, <2>2
  <2>4. k - 1 \in 0 .. Turns(n) /\ k \in 1 .. Turns(n) /\ k \in 1 .. NDIRECT
    BY <1>5, <2>3
  <2>5. Sound(w[k - 1]) /\ FileAt(w[k - 1], d, ino)
    BY <2>2, <2>4
  <2>6. FileAt(Turn(w[k - 1], ino, n, k), w[k - 1], ino)
    BY <2>5, TurnFileAt DEF FileAt
  <2>7. Sound(w[k]) /\ FileAt(w[k], w[k - 1], ino)
    BY <1>4, <2>4, <2>5, <2>6, TurnSound
  <2>8. FileAt(w[k], d, ino)
    BY <2>5, <2>7 DEF FileAt
  <2> QED BY <2>2, <2>7, <2>8
<1>7. FileAt(Copied(a, ino, n), d, ino)
  BY <1>4, <1>5, <1>6
<1> QED BY <1>7 DEF a

(* A new file beside the directories. *)
LEMMA NewFileTree ==
  ASSUME NEW d, Treed(d), NEW p \in FoundDirs(d), NEW ino \in Inode, ino \notin FoundDirs(d),
         ino - 1 \in d.bmi,
         NEW x, x[2] = ino, x[3] = "REG", NEW e, Linked(e, d, p, x),
         NEW a, FileAt(a, e, ino), Fewer(a, e), Same(a, e, Homes(FoundDirs(d), d.in))
  PROVE  Treed(a)
<1> DEFINE D == FoundDirs(d)
<1>1. /\ e.in = d.in /\ e.bmi = d.bmi /\ FoundDirs(e) = D
      /\ Plain(e) /\ Shape(D, e.in, e.data) /\ DotsOutside(D, e.in, e.data)
      /\ KindsBut(D, e.in, e.data, x)
  BY DEF Linked
<1>2. /\ \A i \in Inode : i # ino => a.in[i] = e.in[i]
      /\ a.in[ino].mode = "REG" /\ a.bmi = e.bmi
      /\ DOMAIN a.data \subseteq DOMAIN e.data /\ \A c \in DOMAIN a.data : a.data[c] = e.data[c]
  BY DEF FileAt, Fewer
<1>3. D \subseteq Inode /\ (\A c \in Homes(D, e.in) : c \in DOMAIN e.data)
      /\ \A i \in D : e.in[i].i_links_count \in Nat
  BY <1>1 DEF Shape, DotsFirst, Homes
<1>4. \A c \in Homes(D, e.in) : c \in DOMAIN a.data /\ a.data[c] = e.data[c]
  BY <1>1, <1>3 DEF Same
<1>5. \A i \in D : a.in[i] = e.in[i]
  BY <1>2, <1>3
<1>6. FoundDirs(a) = D
  <2>2. \A i \in Inode : Marked(a, i) <=> Marked(e, i)
    BY <1>2 DEF Marked
  <2>3. \A i \in Inode : i \in FoundDirs(a) <=> i \in FoundDirs(e)
    BY <1>1, <1>2, <2>2 DEF FoundDirs
  <2>4. FoundDirs(a) \subseteq Inode /\ FoundDirs(e) \subseteq Inode
    BY DEF FoundDirs
  <2> HIDE DEF D
  <2> QED BY <1>1, <2>3, <2>4
<1>7. Plain(a)
  BY <1>1, <1>2 DEF Plain
<1> HIDE DEF D
<1>8. Shape(D, a.in, a.data) /\ Homes(D, a.in) = Homes(D, e.in)
  <2>1. \A i \in D : /\ Home(a.in, i) = Home(e.in, i) /\ a.in[i].i_links_count \in Nat
                     /\ a.in[i].i_links_count >= e.in[i].i_links_count
    BY <1>3, <1>5 DEF Home
  <2> QED BY <1>1, <1>4, <2>1, FrameShape
<1>9. Kinds(D, a.in, a.data)
  <2> SUFFICES ASSUME NEW c \in Homes(D, e.in), NEW y \in KeptIn(e.data[c]), y[1] \notin Dotted, y[2] # 0
               PROVE  KindIs(a.in, y)
    BY <1>4, <1>8 DEF Kinds
  <2>1. y = x \/ (y[2] # x[2] /\ KindIs(e.in, y))
    BY <1>1 DEF KindsBut
  <2> QED BY <1>2, <2>1 DEF KindIs
<1>10. DotsOutside(D, a.in, a.data)
  BY <1>1, <1>2, <1>8 DEF DotsOutside
<1> QED BY <1>6, <1>7, <1>8, <1>9, <1>10 DEF Treed

(* Create: nothing names the inode it takes. *)
LEMMA CreateTreed ==
  ASSUME Sound(disk), Fit(disk), Named(disk), Treed(disk), NEW parent,
         find_dir_block_pos(parent) # 0 =>
           parent \in FoundDirs(disk) /\ find_dir_block_pos(parent) = Home(disk.in, parent),
         NEW name \in Names \ Dotted, NEW type \in {"DIR", "REG"}, NEW n \in Nat, NEW code,
         Create(parent, name, type, n, code)
  PROVE  Treed(disk)'
<1> DEFINE b      == find_dir_block_pos(parent)
           ino    == NextInode(disk)
           d      == TakeInode(disk)
           x      == <<name, ino, type>>
           linked == create_link(d, b, ino, name, type)
           dir    == AllocateDir(linked, ino, parent)
           file   == Copied(AllocateFile(linked, ino), ino, n)
           D      == FoundDirs(d)
<1>1. Sound(d) /\ Fit(d) /\ d.in = disk.in /\ d.data = disk.data
  BY TakeInodeSound, SameDataFit
<1>2. /\ Treed(d) /\ D = FoundDirs(disk) /\ ino \notin D
      /\ ino # 0 => d.in[ino] = Unused
  BY <1>1, TakenTreed
<1>3. ino # 0 => ino \in Inode /\ ino - 1 \notin disk.bmi /\ ino - 1 >= Reserved /\ ino - 1 \in d.bmi
  BY TakenIs
<1>4. ino # 0 => Unnamed(d.data, ino)
  <2> SUFFICES ASSUME ino # 0, NEW c \in DOMAIN disk.data, NEW y \in KeptIn(disk.data[c]), y[2] = ino
               PROVE  FALSE
    BY <1>1 DEF Unnamed
  <2>1. PICK k \in DOMAIN disk.data[c] : y = Triple(disk.data[c][k])
    BY DEF KeptIn
  <2>2. disk.data[c][k].inode = ino
    BY <2>1 DEF Triple
  <2>3. Known(disk, ino)
    BY <2>2 DEF Named
  <2> QED BY <1>3, <2>3 DEF Known
<1>5. b # 0 => parent \in D /\ b = Home(d.in, parent)
  BY <1>1, <1>2
<1>6. \/ disk' = d
      \/ b # 0 /\ Room(d, b, name, type) = {} /\ disk' = linked
      \/ b # 0 /\ Room(d, b, name, type) # {} /\ ino = 0 /\ disk' = linked
      \/ b # 0 /\ Room(d, b, name, type) # {} /\ ino # 0 /\ type = "DIR" /\ disk' = dir
      \/ b # 0 /\ Room(d, b, name, type) # {} /\ ino # 0 /\ type = "REG" /\ disk' = file
  BY DEF Create, Crash
<1>7. Room(d, b, name, type) = {} => linked = d
  BY DEF create_link
<1>8. x[2] = ino /\ x[3] = type
  OBVIOUS
<1> HIDE DEF b, ino, d
<1>9. ASSUME b # 0, Room(d, b, name, type) # {} PROVE Linked(linked, d, parent, x)
  BY <1>1, <1>2, <1>4, <1>5, <1>9, LinkedTree
<1>10. Sound(linked)
  BY <1>1, CreateLinkSound
<1> HIDE DEF x, linked
<1>11. CASE b # 0 /\ Room(d, b, name, type) # {} /\ ino = 0
  <2>1. Linked(linked, d, parent, x)
    BY <1>9, <1>11
  <2>2. Kinds(FoundDirs(linked), linked.in, linked.data)
    BY <1>8, <1>11, <2>1 DEF Linked, Kinds, KindsBut
  <2>3. Treed(linked)
    BY <2>1, <2>2 DEF Linked, Treed
  <2> QED BY <1>6, <1>11, <2>3, <1>2
<1>12. CASE b # 0 /\ Room(d, b, name, type) # {} /\ ino # 0
  <2>1. Linked(linked, d, parent, x)
    BY <1>9, <1>12
  <2>2. linked.in = d.in /\ linked.bmi = d.bmi /\ FoundDirs(linked) = D
    BY <2>1 DEF Linked
  <2>3. Homes(D, d.in) \subseteq Held(linked)
    BY <1>10, <2>2, HomesHeld
  <2>4. ASSUME type = "DIR" PROVE Treed(dir)
    <3> DEFINE nb == NextBlock(linked)
    <3>1. parent \in Inode /\ parent # ino /\ ino \in Inode
      BY <1>2, <1>3, <1>5, <1>12 DEF FoundDirs
    <3>2. NewDir(dir, linked, ino, parent, nb)
      BY <1>10, <3>1, NewDirIs
    <3>3. nb \notin Homes(D, d.in)
      BY <1>10, <2>3, TakeSame
    <3> HIDE DEF nb, dir, D
    <3> QED BY <1>2, <1>3, <1>5, <1>8, <1>10, <1>12, <2>1, <2>4, <3>1, <3>2, <3>3, NewDirTree DEF D
  <2>5. ASSUME type = "REG" PROVE Treed(file)
    <3> DEFINE B == Homes(D, d.in)
    <3>1. FileAt(file, linked, ino) /\ Fewer(file, linked)
      BY <1>3, <1>10, <1>12, CopiedFileAt, CopiedFewer
    <3>2. Same(file, linked, B)
      <4> DEFINE a == AllocateFile(linked, ino)
      <4>1. Sound(a) /\ Same(a, linked, B)
        BY <1>10, AllocateFileSound, FieldsSame
      <4> HIDE DEF a, B
      <4>2. B \subseteq Held(a)
        BY <2>3, <4>1, SameHeld DEF B
      <4>3. Same(Copied(a, ino, n), a, B)
        BY <4>1, <4>2, CopiedSame
      <4>4. Same(Copied(a, ino, n), linked, B)
        BY <2>3, <4>1, <4>3, SameHeld DEF B
      <4> QED BY <4>4 DEF a
    <3>3. ino \in Inode /\ ino - 1 \in d.bmi /\ parent \in D
      BY <1>3, <1>5, <1>12
    <3> HIDE DEF file, D
    <3> QED BY <1>2, <1>8, <2>1, <2>5, <3>1, <3>2, <3>3, NewFileTree DEF D
  <2> HIDE DEF dir, file
  <2> QED BY <1>2, <1>6, <1>12, <2>4, <2>5
<1> HIDE DEF dir, file
<1> QED BY <1>2, <1>6, <1>7, <1>11, <1>12

(* FlattenSeq leaves none out. *)
LEMMA FlattenHas ==
  ASSUME NEW S, NEW n \in Nat \ {0}, NEW ss \in [1 .. n -> Seq(S)],
         NEW j \in 1 .. n, NEW x, x \in Range(ss[j])
  PROVE  x \in Range(FlattenSeq(ss))
<1>1. PICK w : /\ \A i \in 1 .. n : w[i] = IF i = 1 THEN ss[i] ELSE w[i - 1] \o ss[i]
               /\ FlattenSeq(ss) = w[n]
  BY FlattenSteps
<1>2. ASSUME NEW s \in Seq(S), NEW t \in Seq(S)
      PROVE  s \o t \in Seq(S) /\ Range(s) \subseteq Range(s \o t) /\ Range(t) \subseteq Range(s \o t)
  <2>1. /\ s \o t \in Seq(S) /\ Len(s) \in Nat /\ Len(t) \in Nat
        /\ DOMAIN s = 1 .. Len(s) /\ DOMAIN t = 1 .. Len(t)
        /\ DOMAIN (s \o t) = 1 .. Len(s) + Len(t)
    OBVIOUS
  <2>2. \A i \in 1 .. Len(s) : i \in 1 .. Len(s) + Len(t) /\ (s \o t)[i] = s[i]
    OBVIOUS
  <2>3. \A i \in 1 .. Len(t) : Len(s) + i \in 1 .. Len(s) + Len(t) /\ (s \o t)[Len(s) + i] = t[i]
    OBVIOUS
  <2> DEFINE u == s \o t
  <2> HIDE DEF u
  <2>4. /\ DOMAIN u = 1 .. Len(s) + Len(t)
        /\ \A i \in 1 .. Len(s) : i \in 1 .. Len(s) + Len(t) /\ u[i] = s[i]
        /\ \A i \in 1 .. Len(t) : Len(s) + i \in 1 .. Len(s) + Len(t) /\ u[Len(s) + i] = t[i]
    BY <2>1, <2>2, <2>3 DEF u
  <2>5. ASSUME NEW y \in Range(s) PROVE y \in Range(u)
    <3>1. PICK i \in 1 .. Len(s) : s[i] = y
      BY <2>1, <2>5 DEF Range
    <3> QED BY <2>4, <3>1 DEF Range
  <2>6. ASSUME NEW y \in Range(t) PROVE y \in Range(u)
    <3>1. PICK i \in 1 .. Len(t) : t[i] = y
      BY <2>1, <2>6 DEF Range
    <3>2. Len(s) + i \in DOMAIN u /\ u[Len(s) + i] = y
      BY <2>4, <3>1
    <3> QED BY <3>2 DEF Range
  <2> QED BY <2>1, <2>5, <2>6 DEF u
<1>3. \A i \in 1 .. n : w[i] \in Seq(S) /\ (i >= j => x \in Range(w[i]))
  <2> DEFINE Bad == {i \in 1 .. n : ~(w[i] \in Seq(S) /\ (i >= j => x \in Range(w[i])))}
  <2> SUFFICES ASSUME Bad # {} PROVE FALSE
    OBVIOUS
  <2>1. Bad \in SUBSET Nat
    OBVIOUS
  <2>2. PICK i \in Bad : \A k \in Bad : i <= k
    BY <2>1, MinIn
  <2>3. i \in 1 .. n /\ ss[i] \in Seq(S)
    BY <2>2
  <2>4. CASE i = 1
    <3>1. w[i] = ss[i] /\ (i >= j => i = j)
      BY <1>1, <2>3, <2>4
    <3> QED BY <2>2, <2>3, <3>1
  <2>5. CASE i # 1
    <3>1. i - 1 \in 1 .. n /\ i - 1 \notin Bad
      <4>1. i - 1 \in 1 .. n /\ ~(i <= i - 1)
        BY <2>3, <2>5
      <4> HIDE DEF Bad
      <4> QED BY <2>2, <4>1
    <3>2. w[i - 1] \in Seq(S) /\ (i - 1 >= j => x \in Range(w[i - 1]))
      BY <3>1
    <3>3. w[i] = w[i - 1] \o ss[i]
      BY <1>1, <2>3, <2>5
    <3>4. /\ w[i] \in Seq(S) /\ Range(w[i - 1]) \subseteq Range(w[i]) /\ Range(ss[i]) \subseteq Range(w[i])
      BY <1>2, <2>3, <3>2, <3>3
    <3>5. i >= j => i = j \/ i - 1 >= j
      BY <2>3
    <3> QED BY <2>2, <3>2, <3>4, <3>5
  <2> QED BY <2>4, <2>5
<1>4. n \in 1 .. n /\ n >= j
  OBVIOUS
<1> QED BY <1>1, <1>3, <1>4

(* init finds the directories' blocks, and nothing else. *)
LEMMA DirsAre ==
  ASSUME Sound(disk), Treed(disk)
  PROVE  /\ DirBlocks = Homes(FoundDirs(disk), disk.in)
         /\ dirs \in Seq(DirBlocks)
<1> DEFINE H == Homes(FoundDirs(disk), disk.in)
<1>1. \A ino \in Inode : disk.in[ino].i_block \in [1 .. NDIRECT -> Block]
  BY DEF Sound, Table, InodeType
<1>2. ASSUME NEW ino \in Inode, disk.in[ino].mode = "DIR"
      PROVE  /\ disk.in[ino].i_block[1] # 0 => BlocksOf(ino) = <<Home(disk.in, ino)>>
             /\ disk.in[ino].i_block[1] = 0 => BlocksOf(ino) = <<>>
  <2> DEFINE s == disk.in[ino].i_block
             none == {k \in 1 .. NDIRECT : s[k] = 0}
  <2>1. s \in Seq(Block) /\ Len(s) = NDIRECT /\ NDIRECT \in Nat /\ NDIRECT >= 2
    BY <1>1, Ext2DiskAssumption
  <2>2. \A k \in 2 .. NDIRECT : s[k] = 0
    BY <1>2 DEF Treed, Plain
  <2>3. 2 \in none
    BY <2>1, <2>2
  <2>4. Min(none) \in none /\ \A j \in none : Min(none) <= j
    <3>1. none \in SUBSET Nat /\ none # {}
      BY <2>1, <2>3
    <3> HIDE DEF none
    <3> QED BY <3>1, MinIn
  <2>5. BlocksOf(ino) = SubSeq(s, 1, Min(none) - 1)
    BY <2>3 DEF BlocksOf
  <2>6. Min(none) \in 1 .. 2
    BY <2>1, <2>3, <2>4
  <2>7. CASE s[1] # 0
    <3>1. Min(none) # 1
      BY <2>4, <2>7
    <3>2. Min(none) - 1 = 1
      BY <2>6, <3>1
    <3> HIDE DEF none
    <3>3. BlocksOf(ino) = SubSeq(s, 1, 1)
      BY <2>5, <3>2
    <3> HIDE DEF s
    <3>4. SubSeq(s, 1, 1) = <<s[1]>>
      <4>1. SubSeq(s, 1, 1) = [i \in 1 .. 1 |-> s[i]]
        BY <2>1
      <4>2. ASSUME NEW q, q = [i \in 1 .. 1 |-> s[i]] PROVE q = <<s[1]>>
        BY <4>2
      <4> QED BY <4>1, <4>2
    <3> QED BY <2>7, <3>3, <3>4 DEF s, Home
  <2>8. CASE s[1] = 0
    <3>1. 1 \in none
      BY <2>1, <2>8
    <3>2. Min(none) = 1
      BY <2>4, <2>6, <3>1
    <3>3. Min(none) - 1 = 0
      BY <3>2
    <3> HIDE DEF none
    <3>4. BlocksOf(ino) = SubSeq(s, 1, 0)
      BY <2>5, <3>3
    <3> HIDE DEF s
    <3>5. SubSeq(s, 1, 0) = <<>>
      BY <2>1
    <3> QED BY <2>8, <3>4, <3>5 DEF s
  <2> QED BY <2>7, <2>8
<1> DEFINE ss == [ino \in Inode |->
                    IF Used(ino - 1) /\ disk.in[ino].mode = "DIR" THEN BlocksOf(ino) ELSE <<>>]
<1>3. \A ino \in Inode : Used(ino - 1) <=> Marked(disk, ino)
  BY DEF Used, Marked, Inode, EXT2_ROOT_INO
<1>4. \A ino \in Inode : ss[ino] = IF ino \in FoundDirs(disk) THEN <<Home(disk.in, ino)>> ELSE <<>>
  BY <1>2, <1>3 DEF FoundDirs
<1>5. dirs = FlattenSeq(ss)
  BY DEF dirs
<1>6. DOMAIN ss = Inode /\ ss = [ino \in Inode |-> ss[ino]]
  OBVIOUS
<1> HIDE DEF ss
<1>7. ss \in [1 .. s_inodes_count -> Seq(H)] /\ s_inodes_count \in Nat \ {0}
  <2>1. ASSUME NEW ino \in Inode PROVE ss[ino] \in Seq(H)
    <3>1. CASE ino \in FoundDirs(disk)
      <4>1. Home(disk.in, ino) \in H
        BY <3>1 DEF Homes
      <4>2. ss[ino] = <<Home(disk.in, ino)>>
        BY <1>4, <3>1
      <4> HIDE DEF H
      <4>3. <<Home(disk.in, ino)>> \in Seq(H)
        BY <4>1
      <4> QED BY <4>2, <4>3
    <3>2. CASE ino \notin FoundDirs(disk)
      <4>1. ss[ino] = <<>>
        BY <1>4, <3>2
      <4>2. <<>> \in Seq(H)
        OBVIOUS
      <4> QED BY <4>1, <4>2
    <3> QED BY <3>1, <3>2
  <2> HIDE DEF H
  <2> QED BY <1>6, <2>1, Ext2DiskAssumption DEF Inode
<1>8. dirs \in Seq(H)
  <2> HIDE DEF H
  <2> QED BY <1>5, <1>7, FlattenIs
<1>9. ASSUME NEW ino \in FoundDirs(disk) PROVE Home(disk.in, ino) \in Range(dirs)
  <2>1. ino \in 1 .. s_inodes_count /\ ss[ino] = <<Home(disk.in, ino)>>
    BY <1>4 DEF FoundDirs, Inode
  <2>2. Home(disk.in, ino) \in Range(ss[ino])
    BY <2>1 DEF Range
  <2> HIDE DEF H
  <2> QED BY <1>5, <1>7, <2>1, <2>2, FlattenHas
<1>10. H \subseteq DirBlocks
  BY <1>9 DEF DirBlocks, Homes
<1>11. DirBlocks \subseteq H
  <2> HIDE DEF H
  <2> QED BY <1>8 DEF DirBlocks, Range
<1> HIDE DEF H
<1>12. DirBlocks = H
  BY <1>10, <1>11
<1> QED BY <1>8, <1>12 DEF H

(* A directory's block is known by its first entry. *)
LEMMA BlockOfIs ==
  ASSUME NEW D, NEW in, NEW data, Shape(D, in, data), NEW b \in Homes(D, in)
  PROVE  /\ data[b][1].name = "." /\ data[b][1].inode \in D /\ b = Home(in, data[b][1].inode)
         /\ b \in DOMAIN data
<1>1. PICK i \in D : b = Home(in, i)
  BY DEF Homes
<1> QED BY <1>1 DEF Shape, DotsFirst

(* find_dir_block_pos. *)
LEMMA FoundHome ==
  ASSUME Sound(disk), Treed(disk), NEW ino, find_dir_block_pos(ino) # 0
  PROVE  ino \in FoundDirs(disk) /\ find_dir_block_pos(ino) = Home(disk.in, ino)
<1> DEFINE homes == HomesOf(ino, dirs)
           b == dirs[Min(homes)]
<1>1. homes # {} /\ find_dir_block_pos(ino) = b
  BY DEF find_dir_block_pos
<1>2. dirs \in Seq(DirBlocks) /\ DirBlocks = Homes(FoundDirs(disk), disk.in)
  BY DirsAre
<1>3. homes \in SUBSET Nat
  BY <1>2 DEF HomesOf
<1>4. Min(homes) \in homes
  BY <1>1, <1>3, MinIn
<1>5. IsBlockOf(b, ino) /\ b \in DirBlocks
  BY <1>2, <1>4 DEF HomesOf
<1> HIDE DEF b
<1>6. /\ disk.data[b][1].inode \in FoundDirs(disk)
      /\ b = Home(disk.in, disk.data[b][1].inode)
  BY <1>2, <1>5, BlockOfIs DEF Treed
<1>7. disk.data[b][1].inode = ino
  BY <1>5 DEF IsBlockOf, EntryAt
<1> QED BY <1>1, <1>6, <1>7

(* A path's components are names of things, not . and .. : traverse stops  *)
(* at the first component that is called like the last one, so that the    *)
(* path /a/b/a/. , when /a/b is not there, would put an entry . into /a.   *)
PlainNames == Names \cap {".", ".."} = {}

(* A fresh image: the root is the only directory that is found. *)
LEMMA MkfsTreed == Treed(MkfsImage)
<1> USE Ext2DiskAssumption
<1> DEFINE d == MkfsImage
           D == FoundDirs(d)
           in == d.in
           data == d.data
           r == EXT2_ROOT_INO
<1>1. r = 2 /\ r \in Inode /\ Reserved \in Inode /\ Reserved # r /\ 1 \in 1 .. NDIRECT
      /\ \A k \in 2 .. NDIRECT : k # 1 /\ k \in 1 .. NDIRECT
  BY DEF EXT2_ROOT_INO, Inode
<1>2. d.bmi = 0 .. Reserved - 1
  BY DEF MkfsImage
<1>3. /\ in[r].mode = "DIR" /\ in[r].i_links_count = 3 /\ in[r].i_blocks = 2 /\ in[r].i_block[1] = 1
      /\ in[Reserved].mode = "DIR" /\ in[Reserved].i_blocks = 2
      /\ \A k \in 2 .. NDIRECT : in[r].i_block[k] = 0 /\ in[Reserved].i_block[k] = 0
      /\ \A i \in Inode : i \notin {r, Reserved} => in[i] = Unused
  BY <1>1 DEF MkfsImage, Unused
<1>4. /\ DOMAIN data = {1, 2}
      /\ DOMAIN data[1] = 1 .. 3 /\ Len(data[1]) = 3
      /\ Triple(data[1][1]) = <<".", r, "DIR">> /\ data[1][1].rec_len = 12
      /\ Triple(data[1][2]) = <<"..", r, "DIR">>
      /\ Triple(data[1][3]) = <<"lost+found", Reserved, "DIR">>
      /\ DOMAIN data[2] = 1 .. 2
      /\ data[2][1].name = "." /\ data[2][2].name = ".."
  BY DEF MkfsImage, Triple
<1>5. \A e : Triple(e)[1] = e.name /\ Triple(e)[2] = e.inode /\ Triple(e)[3] = e.file_type
  BY DEF Triple
<1>6. Unused.mode = "none"
  BY DEF Unused
<1> HIDE DEF d, in, data, r
<1>7. D = {r}
  <2>1. ASSUME NEW i \in D PROVE i = r
    <3>1. i \in Inode /\ (i = r \/ (i - 1 >= Reserved /\ i - 1 \in 0 .. Reserved - 1))
      BY <1>2 DEF FoundDirs, Marked, r
    <3> QED BY <3>1 DEF Inode
  <2>2. r \in D
    BY <1>1, <1>3 DEF FoundDirs, Marked, in, r
  <2> QED BY <2>1, <2>2
<1> HIDE DEF D
<1>8. Homes(D, in) = {1} /\ Home(in, r) = 1
  BY <1>3, <1>7 DEF Homes, Home
<1>9. Plain(d)
  <2> SUFFICES ASSUME NEW i \in Inode
               PROVE  /\ i - 1 \notin d.bmi => in[i] = Unused
                      /\ in[i].mode = "DIR" => in[i].i_blocks = 2 /\ \A k \in 2 .. NDIRECT : in[i].i_block[k] = 0
    BY DEF Plain, in
  <2>1. r - 1 \in 0 .. Reserved - 1 /\ Reserved - 1 \in 0 .. Reserved - 1
    BY <1>1
  <2> QED BY <1>2, <1>3, <1>6, <2>1
<1>10. DotsFirst(D, in, data)
  BY <1>4, <1>5, <1>7, <1>8 DEF DotsFirst
<1>11. \A j \in 1 .. 3 : j = 1 \/ j = 2 \/ j = 3
  OBVIOUS
<1>12. Above(D, in, data, r) = {}
  BY <1>1, <1>4, <1>5, <1>8, <1>11 DEF Above, Dotted
<1>13. IsFiniteSet(Slots(D, in, data, r)) /\ Cardinality(Slots(D, in, data, r)) <= 3
  <2>1. Slots(D, in, data, r) \subseteq {<<1, 1>>} \cup {<<1, 2>>}
    <3> SUFFICES ASSUME NEW s \in Slots(D, in, data, r) PROVE s = <<1, 1>> \/ s = <<1, 2>>
      OBVIOUS
    <3>1. s \in {1} \X Nat /\ s[2] \in 1 .. 3 /\ data[1][s[2]].inode = r
      BY <1>4, <1>8 DEF Slots
    <3>2. s = <<1, s[2]>> /\ s[2] # 3
      BY <1>1, <1>4, <1>5, <3>1
    <3> QED BY <3>1, <3>2
  <2>2. IsFiniteSet({<<1, 1>>}) /\ Cardinality({<<1, 1>>}) = 1
    BY FS_Singleton
  <2>3. Cardinality({<<1, 1>>}) <= 2 /\ 2 \in Nat
    BY <2>2
  <2>4. IsFiniteSet(Slots(D, in, data, r)) /\ Cardinality(Slots(D, in, data, r)) <= 2 + 1
    BY <2>1, <2>2, <2>3, OneMore
  <2> QED BY <2>4
<1>14. Shape(D, in, data)
  <2>1. Listed(D, in, data)
    BY <1>4, <1>8 DEF Listed
  <2>2. OneAbove(D, in, data)
    BY <1>7, <1>12 DEF OneAbove, r
  <2>3. LinkEach(D, in, data)
    BY <1>3, <1>7, <1>13 DEF LinkEach
  <2>4. D \subseteq Inode /\ EXT2_ROOT_INO \in D /\ \A i \in D : in[i].i_links_count \in Nat
    BY <1>1, <1>3, <1>7 DEF r
  <2> QED BY <1>10, <2>1, <2>2, <2>3, <2>4 DEF Shape
<1>15. Kinds(D, in, data)
  <2> SUFFICES ASSUME NEW y \in KeptIn(data[1]), y[1] \notin Dotted PROVE KindIs(in, y)
    BY <1>8 DEF Kinds
  <2>1. PICK j \in 1 .. 3 : y = Triple(data[1][j])
    BY <1>4 DEF KeptIn
  <2>2. y = <<"lost+found", Reserved, "DIR">>
    BY <1>4, <1>11, <2>1 DEF Dotted
  <2> QED BY <1>1, <1>3, <2>2 DEF KindIs
<1>16. DotsOutside(D, in, data)
  <2> SUFFICES ASSUME NEW y \in KeptIn(data[2]) PROVE y[1] \in Dotted
    BY <1>4, <1>8 DEF DotsOutside
  <2>1. PICK j \in 1 .. 2 : y = Triple(data[2][j])
    BY <1>4 DEF KeptIn
  <2>2. j = 1 \/ j = 2
    BY <2>1
  <2> QED BY <1>4, <1>5, <2>1, <2>2 DEF Dotted
<1> QED BY <1>9, <1>14, <1>15, <1>16 DEF Treed, D, in, data, d

(* A step of ext2_mkdir and ext2_cp. *)
LEMMA MakesTreed ==
  ASSUME PlainNames, Sound(disk), Fit(disk), Named(disk), Treed(disk), Makes
  PROVE  Treed(disk)'
<1>1. disk' = disk => Treed(disk)'
  OBVIOUS
<1>2. ASSUME NEW parent, NEW name \in Names, NEW type \in {"DIR", "REG"}, NEW n \in Nat, NEW code,
             Create(parent, name, type, n, code)
      PROVE  Treed(disk)'
  <2>1. name \in Names \ Dotted
    BY DEF PlainNames, Dotted
  <2> QED BY <1>2, <2>1, FoundHome, CreateTreed
<1>3. ASSUME NEW p \in Paths, mkdir(p) PROVE Treed(disk)'
  <2>1. \/ UNCHANGED disk
        \/ p # <<>> /\ \E code : Create(Parent(p), Last(p), "DIR", 0, code)
    BY <1>3 DEF mkdir, Return
  <2>2. p # <<>> => Last(p) \in Names
    BY TraverseIs
  <2> QED BY <1>1, <1>2, <2>1, <2>2
<1>4. ASSUME NEW name \in Names, NEW n \in 0 .. MaxBlocks, NEW p \in Paths, cp(name, n, p)
      PROVE  Treed(disk)'
  <2> DEFINE parent == IF p = <<>> THEN EXT2_ROOT_INO ELSE traverse(p)
  <2>1. UNCHANGED disk \/ Create(parent, name, "REG", n, "0")
    BY <1>4 DEF cp, Return
  <2>2. n \in Nat
    BY Ext2Assumption
  <2> HIDE DEF parent
  <2> QED BY <1>1, <1>2, <2>1, <2>2
<1>5. cp_refused => Treed(disk)'
  BY <1>1 DEF cp_refused, Return
<1> QED BY <1>3, <1>4, <1>5 DEF Makes

(* The tree is in every image that mkdir and cp can make. *)
LEMMA TreeInvariant ==
  ASSUME OnlyMakes, PlainNames
  PROVE  Spec => [](Sound(disk) /\ Fit(disk) /\ Named(disk) /\ Treed(disk))
<1>1. Init => Sound(disk) /\ Fit(disk) /\ Named(disk) /\ Treed(disk)
  BY MkfsSound, MkfsFit, MkfsNamed, MkfsTreed DEF Init
<1>2. Next => Makes /\ Readable
  BY DEF Next, OnlyMakes, Makes
<1>3. Sound(disk) /\ Fit(disk) /\ Named(disk) /\ Treed(disk) /\ [Next]_vars
        => Sound(disk)' /\ Fit(disk)' /\ Named(disk)' /\ Treed(disk)'
  <2>1. CASE Next
    BY <1>2, <2>1, StepSound, StepFit, MakesNamed, MakesTreed
  <2>2. CASE UNCHANGED vars
    <3>1. disk' = disk
      BY <2>2 DEF vars
    <3>2. Treed(disk) => Treed(disk)'
      BY <3>1
    <3>3. Named(disk) => Named(disk)'
      BY <3>1
    <3> QED BY <2>2, <3>2, <3>3, StepSound, StepFit
  <2> QED BY <2>1, <2>2
<1> QED BY <1>1, <1>3, PTL DEF Spec

(* mkdir and cp leave a tree, wherever they stop: . is the directory, ..   *)
(* the one directory that has an entry for it, and no directory has more   *)
(* entries than links.                                                     *)
THEOREM DirectoriesAreTree == ASSUME OnlyMakes, PlainNames PROVE Spec => []DirectoryTree
<1>1. Sound(disk) /\ Treed(disk) => DirectoryTree
  <2> SUFFICES ASSUME Sound(disk), Treed(disk), NEW b \in DirBlocks
               PROVE  LET self == disk.data[b][1].inode
                          up   == disk.data[b][2].inode
                      IN  /\ IsDirectory(self) /\ b = disk.in[self].i_block[1]
                          /\ disk.data[b][1].name = "." /\ disk.data[b][2].name = ".."
                          /\ {c \in DirBlocks : \E e \in Entries(c) : e.inode = self /\ e.name \notin {".", ".."}}
                               = IF self = EXT2_ROOT_INO THEN {} ELSE {disk.in[up].i_block[1]}
                          /\ Cardinality(EntriesNaming(self)) <= disk.in[self].i_links_count
    BY DEF DirectoryTree
  <2> DEFINE D == FoundDirs(disk)
             self == disk.data[b][1].inode
             up   == disk.data[b][2].inode
             above == {c \in DirBlocks : \E e \in Entries(c) : e.inode = self /\ e.name \notin {".", ".."}}
  <2>1. DirBlocks = Homes(D, disk.in)
    BY DirsAre
  <2>2. Shape(D, disk.in, disk.data)
    BY DEF Treed
  <2>3. /\ self \in D /\ b = Home(disk.in, self) /\ disk.data[b][1].name = "."
        /\ disk.data[b][2].name = ".." /\ up = Up(disk.in, disk.data, self)
    <3>1. self \in D /\ b = Home(disk.in, self) /\ disk.data[b][1].name = "."
      <4> HIDE DEF D
      <4> QED BY <2>1, <2>2, BlockOfIs
    <3> QED BY <2>2, <3>1 DEF Shape, DotsFirst, Up
  <2>4. IsDirectory(self) /\ b = disk.in[self].i_block[1]
    BY <2>3 DEF IsDirectory, FoundDirs, Home
  <2> HIDE DEF D, self, up
  <2>5. above = Above(D, disk.in, disk.data, self)
    BY <2>1 DEF Entries, Range, Above, Dotted
  <2>6. above = IF self = EXT2_ROOT_INO THEN {} ELSE {disk.in[up].i_block[1]}
    BY <2>2, <2>3, <2>5 DEF Shape, OneAbove, Home
  <2>7. Cardinality(EntriesNaming(self)) <= disk.in[self].i_links_count
    <3> DEFINE S == Slots(D, disk.in, disk.data, self)
               T == EntriesNaming(self)
    <3>1. T \subseteq S
      <4> SUFFICES ASSUME NEW s \in T PROVE s \in S
        OBVIOUS
      <4>1. s \in DirBlocks \X (1 .. EXT2_BLOCK_SIZE) /\ s[2] \in DOMAIN disk.data[s[1]]
            /\ disk.data[s[1]][s[2]].inode = self
        BY DEF EntriesNaming, EntryAt
      <4> QED BY <2>1, <4>1 DEF Slots
    <3>2. IsFiniteSet(S) /\ Cardinality(S) <= disk.in[self].i_links_count
          /\ disk.in[self].i_links_count \in Nat
      BY <2>2, <2>3 DEF Shape, LinkEach
    <3> HIDE DEF S, T
    <3>3. IsFiniteSet(T) /\ Cardinality(T) <= Cardinality(S)
      BY <3>1, <3>2, FS_Subset
    <3>4. Cardinality(T) \in Nat /\ Cardinality(S) \in Nat
      BY <3>2, <3>3, FS_CardinalityType
    <3>5. Cardinality(T) <= disk.in[self].i_links_count
      BY <3>2, <3>3, <3>4
    <3> QED BY <3>5 DEF T
  <2> HIDE DEF above
  <2> QED BY <2>3, <2>4, <2>6, <2>7 DEF self, up, above
<1> QED BY <1>1, TreeInvariant, PTL

(* What the name leads to from a directory, by the inode's block alone.    *)
Child(i, name) ==
  IF i = 0 THEN 0
  ELSE LET here == IF IsDirectory(i) THEN EntriesAt(disk.in[i].i_block[1]) ELSE <<>>
           named == {j \in DOMAIN here : here[j].name = name}
       IN  IF named = {} THEN 0 ELSE here[Min(named)].inode

(* The entries of blocks that are no directory's are . and .. only. *)
LEMMA NothingOutside ==
  ASSUME Sound(disk), Treed(disk), NEW b, b \notin Homes(FoundDirs(disk), disk.in)
  PROVE  \A j \in DOMAIN EntriesAt(b) : EntriesAt(b)[j].name \in Dotted
<1> SUFFICES ASSUME NEW j \in DOMAIN EntriesAt(b) PROVE EntriesAt(b)[j].name \in Dotted
  OBVIOUS
<1>1. CASE b \in DOMAIN disk.data
  <2>1. EntriesAt(b) = disk.data[b]
    BY <1>1 DEF EntriesAt
  <2>2. Triple(disk.data[b][j]) \in KeptIn(disk.data[b])
    BY <2>1 DEF KeptIn
  <2>3. Triple(disk.data[b][j])[1] \in Dotted
    BY <1>1, <2>2 DEF Treed, DotsOutside
  <2> QED BY <2>1, <2>3 DEF Triple
<1>2. CASE b \notin DOMAIN disk.data
  BY <1>2 DEF EntriesAt
<1> QED BY <1>1, <1>2

(* A directory that is found is at its block, and what has its block is it. *)
LEMMA HomeIs ==
  ASSUME Sound(disk), Treed(disk), NEW i \in Inode
  PROVE  /\ i \in FoundDirs(disk) =>
              /\ IsDirectory(i) /\ EntriesAt(disk.in[i].i_block[1]) = disk.data[Home(disk.in, i)]
              /\ HomesOf(i, dirs) # {} /\ \A h \in HomesOf(i, dirs) : dirs[h] = Home(disk.in, i)
         /\ i \notin FoundDirs(disk) =>
              /\ HomesOf(i, dirs) = {}
              /\ IsDirectory(i) => disk.in[i].i_block[1] \notin Homes(FoundDirs(disk), disk.in)
<1> DEFINE D == FoundDirs(disk)
           H == Homes(D, disk.in)
<1>1. dirs \in Seq(H) /\ DirBlocks = H
  BY DirsAre
<1>2. Shape(D, disk.in, disk.data)
  BY DEF Treed
<1>3. \A b \in H : /\ disk.data[b][1].name = "." /\ disk.data[b][1].inode \in D
                   /\ b = Home(disk.in, disk.data[b][1].inode) /\ b \in DOMAIN disk.data
  <2> HIDE DEF D
  <2> QED BY <1>2, BlockOfIs
<1>4. \A h \in DOMAIN dirs : dirs[h] \in H
  <2> HIDE DEF H
  <2> QED BY <1>1
<1>5. \A h : h \in HomesOf(i, dirs) <=> h \in DOMAIN dirs /\ disk.data[dirs[h]][1].inode = i
                                        /\ disk.data[dirs[h]][1].name = "."
  BY DEF HomesOf, IsBlockOf, EntryAt
<1>6. ASSUME NEW h \in HomesOf(i, dirs) PROVE i \in D /\ dirs[h] = Home(disk.in, i)
  <2> HIDE DEF D, H
  <2> QED BY <1>3, <1>4, <1>5
<1>7. ASSUME i \in D
      PROVE  /\ IsDirectory(i) /\ EntriesAt(disk.in[i].i_block[1]) = disk.data[Home(disk.in, i)]
             /\ HomesOf(i, dirs) # {}
  <2>1. Home(disk.in, i) \in H
    BY <1>7 DEF Homes
  <2>2. PICK h \in DOMAIN dirs : dirs[h] = Home(disk.in, i)
    BY <1>1, <2>1 DEF DirBlocks, Range
  <2>3. disk.data[Home(disk.in, i)][1].inode = i /\ disk.data[Home(disk.in, i)][1].name = "."
    BY <1>2, <1>7 DEF Shape, DotsFirst
  <2>4. h \in HomesOf(i, dirs)
    BY <1>5, <2>2, <2>3
  <2>5. Home(disk.in, i) \in DOMAIN disk.data
    BY <1>3, <2>1
  <2>6. EntriesAt(disk.in[i].i_block[1]) = disk.data[Home(disk.in, i)]
    BY <2>5 DEF EntriesAt, Home
  <2> QED BY <1>7, <2>4, <2>6 DEF IsDirectory, FoundDirs
<1>8. ASSUME i \notin D, disk.in[i].i_block[1] \in H PROVE FALSE
  <2>1. PICK j \in D : disk.in[i].i_block[1] = disk.in[j].i_block[1]
    BY <1>8 DEF Homes, Home
  <2>2. j \in Inode /\ disk.in[i].i_block[1] # 0 /\ 1 \in 1 .. NDIRECT
    BY <2>1, Ext2DiskAssumption DEF FoundDirs
  <2>3. i = j
    <3> HIDE DEF D
    <3> QED BY <2>1, <2>2 DEF Sound, Owned
  <2> QED BY <1>8, <2>3
<1> HIDE DEF D, H
<1> QED BY <1>6, <1>7, <1>8 DEF D, H

(* The scan for a block with the right . finds what the inode's block has. *)
LEMMA LookupIsChild ==
  ASSUME Sound(disk), Fit(disk), Treed(disk), NEW i \in Inode \cup {0}, NEW name \in Names \ Dotted
  PROVE  Lookup(i, name) = Child(i, name) /\ Lookup(i, name) \in Inode \cup {0}
<1> DEFINE homes == HomesOf(i, dirs)
           at == {h \in homes : PlacesOf(name, dirs[h]) # {}}
<1>1. Lookup(i, name) = IF at = {} THEN 0
                        ELSE EntryAt(<<dirs[Min(at)], Min(PlacesOf(name, dirs[Min(at)]))>>).inode
  <2>1. <<dirs[Min(at)], Min(PlacesOf(name, dirs[Min(at)]))>> # <<>>
    OBVIOUS
  <2> QED BY <2>1 DEF Lookup, FirstCalled
<1>2. CASE i \in FoundDirs(disk)
  <2> DEFINE b == Home(disk.in, i)
             places == PlacesOf(name, b)
  <2>0. i \in Inode /\ i # 0
    BY <1>2 DEF FoundDirs, Inode
  <2>1. /\ IsDirectory(i) /\ EntriesAt(disk.in[i].i_block[1]) = disk.data[b]
        /\ homes # {} /\ \A h \in homes : dirs[h] = b
    BY <1>2, <2>0, HomeIs
  <2>2. Child(i, name) = IF places = {} THEN 0 ELSE disk.data[b][Min(places)].inode
    BY <2>0, <2>1 DEF Child, PlacesOf
  <2>3. homes \in SUBSET Nat
    <3>1. dirs \in Seq(DirBlocks)
      BY DirsAre
    <3> QED BY <3>1 DEF HomesOf
  <2>4. b \in Homes(FoundDirs(disk), disk.in) /\ b \in DOMAIN disk.data
    BY <1>2 DEF Treed, Shape, DotsFirst, Homes
  <2> HIDE DEF homes, b
  <2>5. CASE places = {}
    BY <1>1, <2>1, <2>2, <2>5
  <2>6. CASE places # {}
    <3>1. at # {} /\ at \in SUBSET Nat
      BY <2>1, <2>3, <2>6
    <3>2. dirs[Min(at)] = b
      BY <2>1, <3>1, MinIn
    <3>3. Lookup(i, name) = disk.data[b][Min(places)].inode
      BY <1>1, <3>1, <3>2 DEF EntryAt
    <3>4. PICK S : disk.data[b] \in Seq(S)
      BY <2>4 DEF Fit, ProperSeq
    <3>5. places \in SUBSET Nat
      BY <3>4 DEF PlacesOf
    <3>6. Min(places) \in places
      BY <2>6, <3>5, MinIn
    <3> DEFINE e == disk.data[b][Min(places)]
    <3>7. Triple(e) \in KeptIn(disk.data[b]) /\ e.name = name
      BY <3>6 DEF PlacesOf, KeptIn
    <3> HIDE DEF e, places
    <3>8. Triple(e)[1] = name /\ Triple(e)[2] = e.inode
      BY <3>7 DEF Triple
    <3>9. e.inode = 0 \/ e.inode \in Inode
      BY <2>4, <3>7, <3>8 DEF Treed, Kinds, KindIs
    <3> QED BY <2>2, <2>6, <3>3, <3>9 DEF e
  <2> QED BY <2>5, <2>6
<1>3. CASE i = 0
  <2>1. homes = {}
    <3>1. dirs \in Seq(DirBlocks) /\ DirBlocks = Homes(FoundDirs(disk), disk.in)
      BY DirsAre
    <3> SUFFICES ASSUME NEW h \in homes PROVE FALSE
      OBVIOUS
    <3>2. h \in DOMAIN dirs /\ disk.data[dirs[h]][1].inode = 0
      BY <1>3 DEF HomesOf, IsBlockOf, EntryAt
    <3>3. dirs[h] \in Homes(FoundDirs(disk), disk.in)
      BY <3>1, <3>2
    <3>4. disk.data[dirs[h]][1].inode \in FoundDirs(disk)
      BY <3>3, BlockOfIs DEF Treed
    <3> QED BY <3>2, <3>4 DEF FoundDirs, Inode
  <2>2. at = {}
    BY <2>1
  <2> HIDE DEF at
  <2> QED BY <1>1, <1>3, <2>2 DEF Child
<1>4. CASE i # 0 /\ i \notin FoundDirs(disk)
  <2>1. i \in Inode
    BY <1>4
  <2>2. homes = {} /\ (IsDirectory(i) => disk.in[i].i_block[1] \notin Homes(FoundDirs(disk), disk.in))
    BY <1>4, <2>1, HomeIs
  <2>3. at = {}
    BY <2>2
  <2> DEFINE here == IF IsDirectory(i) THEN EntriesAt(disk.in[i].i_block[1]) ELSE <<>>
  <2>4. \A j \in DOMAIN here : here[j].name \in Dotted
    <3>1. CASE IsDirectory(i)
      BY <2>2, <3>1, NothingOutside
    <3>2. CASE ~IsDirectory(i)
      BY <3>2
    <3> QED BY <3>1, <3>2
  <2>5. {j \in DOMAIN here : here[j].name = name} = {}
    <3> HIDE DEF here
    <3> QED BY <2>4
  <2>6. Child(i, name) = 0
    BY <2>5 DEF Child
  <2> HIDE DEF at
  <2> QED BY <1>1, <2>3, <2>6
<1> QED BY <1>2, <1>3, <1>4

Descended(path, v, n) ==
  v = [k \in 0 .. n |-> IF k = 0 THEN EXT2_ROOT_INO ELSE Child(v[k - 1], path[k])]

(* A path followed by lookups leads where the inodes' blocks lead. *)
LEMMA LeadsIs ==
  ASSUME PlainNames, Sound(disk), Fit(disk), Treed(disk), NEW path \in Paths
  PROVE  Leads(path) = Resolve(path) /\ Leads(path) \in Inode \cup {0}
<1> DEFINE n == Len(path)
           v == CHOOSE u : Descended(path, u, n)
           w == CHOOSE u : Followed(path, u, n)
<1>1. path \in Seq(Names) /\ n \in Nat
  BY DEF Paths, BoundedSeq, SeqOf
<1>2. Leads(path) = v[n] /\ Resolve(path) = w[n]
  BY DEF Leads, Resolve, Descended, Followed, Child
<1>3. Followed(path, w, n)
  BY <1>1, Followable
<1>4. \A k \in 1 .. n : path[k] \in Names \ Dotted
  BY <1>1 DEF PlainNames, Dotted
<1> HIDE DEF w, n
<1>5. /\ w = [k \in 0 .. n |-> IF k = 0 THEN EXT2_ROOT_INO ELSE Lookup(w[k - 1], path[k])]
      /\ \A k \in 0 .. n : w[k] = IF k = 0 THEN EXT2_ROOT_INO ELSE Lookup(w[k - 1], path[k])
  BY <1>3 DEF Followed
<1>6. EXT2_ROOT_INO \in Inode
  BY DEF Treed, Shape
<1>7. \A k \in 0 .. n : w[k] \in Inode \cup {0}
  <2> DEFINE Bad == {k \in 0 .. n : w[k] \notin Inode \cup {0}}
  <2> SUFFICES ASSUME Bad # {} PROVE FALSE
    OBVIOUS
  <2>1. Bad \in SUBSET Nat
    OBVIOUS
  <2>2. PICK k \in Bad : \A j \in Bad : k <= j
    BY <2>1, MinIn
  <2>3. k \in 1 .. n
    BY <1>5, <1>6, <2>2
  <2>4. k - 1 \in 0 .. n /\ ~(k <= k - 1)
    BY <1>1, <2>3
  <2>5. w[k - 1] \in Inode \cup {0}
    BY <2>2, <2>4
  <2>6. Lookup(w[k - 1], path[k]) \in Inode \cup {0}
    BY <1>4, <2>3, <2>5, LookupIsChild
  <2>7. w[k] = Lookup(w[k - 1], path[k])
    BY <1>5, <2>3
  <2> QED BY <2>2, <2>6, <2>7
<1>8. \A k \in 1 .. n : Lookup(w[k - 1], path[k]) = Child(w[k - 1], path[k])
  <2> SUFFICES ASSUME NEW k \in 1 .. n PROVE Lookup(w[k - 1], path[k]) = Child(w[k - 1], path[k])
    OBVIOUS
  <2>1. k - 1 \in 0 .. n
    BY <1>1
  <2>2. w[k - 1] \in Inode \cup {0}
    BY <1>7, <2>1
  <2> QED BY <1>4, <2>2, LookupIsChild
<1>9. Descended(path, w, n)
  <2>1. \A k \in 0 .. n : k # 0 => k \in 1 .. n
    BY <1>1
  <2>2. \A k \in 0 .. n : (IF k = 0 THEN EXT2_ROOT_INO ELSE Lookup(w[k - 1], path[k]))
                           = IF k = 0 THEN EXT2_ROOT_INO ELSE Child(w[k - 1], path[k])
    BY <1>8, <2>1
  <2> QED BY <1>5, <2>2 DEF Descended
<1>10. Descended(path, v, n)
  BY <1>9
<1> HIDE DEF v
<1>11. \A k \in 0 .. n : v[k] = IF k = 0 THEN EXT2_ROOT_INO ELSE Child(v[k - 1], path[k])
  BY <1>10 DEF Descended
<1>12. \A k \in 0 .. n : v[k] = w[k]
  <2> DEFINE Bad == {k \in 0 .. n : v[k] # w[k]}
  <2> SUFFICES ASSUME Bad # {} PROVE FALSE
    OBVIOUS
  <2>1. Bad \in SUBSET Nat
    OBVIOUS
  <2>2. PICK k \in Bad : \A j \in Bad : k <= j
    BY <2>1, MinIn
  <2>3. k \in 1 .. n
    BY <1>5, <1>11, <2>2
  <2>4. k - 1 \in 0 .. n /\ ~(k <= k - 1)
    BY <1>1, <2>3
  <2>5. v[k - 1] = w[k - 1]
    BY <2>2, <2>4
  <2> QED BY <1>5, <1>8, <1>11, <2>2, <2>3, <2>5
<1>13. n \in 0 .. n
  BY <1>1
<1> QED BY <1>2, <1>7, <1>12, <1>13

(* traverse goes to the end of a path without its last name before that.   *)
LEMMA TraverseToEnd ==
  ASSUME NEW path \in Paths, path # <<>>, Last(path) \notin Range(Front(path))
  PROVE  traverse(path) = Resolve(path)
<1> DEFINE named == {k \in DOMAIN path : path[k] = Last(path)}
           End(n) == (CHOOSE v : Followed(path, v, n))[n]
<1>1. path \in Seq(Names) /\ Len(path) \in Nat \ {0}
  BY DEF Paths, BoundedSeq, SeqOf
<1>2. \A k \in 1 .. Len(path) - 1 : path[k] # Last(path)
  <2>1. Front(path) = SubSeq(path, 1, Len(path) - 1)
    BY DEF Front
  <2>2. SubSeq(path, 1, Len(path) - 1) = [i \in 1 .. Len(path) - 1 |-> path[i]]
    BY <1>1
  <2> QED BY <2>1, <2>2 DEF Range
<1>3. named = {Len(path)}
  BY <1>1, <1>2 DEF Last
<1>4. Min(named) = Len(path)
  <2>1. named \in SUBSET Nat /\ named # {}
    BY <1>1, <1>3
  <2>2. Min(named) \in named
    <3> HIDE DEF named
    <3> QED BY <2>1, MinIn
  <2> QED BY <1>3, <2>2
<1>5. traverse(path) = End(Min(named)) /\ Resolve(path) = End(Len(path))
  BY DEF traverse, Resolve, Followed
<1> HIDE DEF named, End
<1> QED BY <1>4, <1>5

(* The names that ls_block prints of one block. *)
Printed(s, aflag, v, n) ==
  v = [k \in 0 .. n |->
        IF k = 0 THEN <<>>
        ELSE IF Shown(s[k], aflag) THEN Append(v[k - 1], s[k].name) ELSE v[k - 1]]

(* There are such names. *)
LEMMA Printable ==
  ASSUME NEW s, NEW aflag, NEW n \in Nat
  PROVE  \E v : Printed(s, aflag, v, n)
<1> DEFINE Bad == {m \in Nat : ~(\E v : Printed(s, aflag, v, m))}
           Next1(v, m) == IF Shown(s[m], aflag) THEN Append(v[m - 1], s[m].name) ELSE v[m - 1]
<1> SUFFICES ASSUME Bad # {} PROVE FALSE
  OBVIOUS
<1>1. PICK m \in Bad : \A j \in Bad : m <= j
  BY MinIn
<1>2. CASE m = 0
  <2> DEFINE v == [k \in 0 .. 0 |-> <<>>]
  <2>1. Printed(s, aflag, v, 0)
    BY DEF Printed
  <2> QED BY <1>2, <2>1
<1>3. CASE m # 0
  <2>1. m - 1 \in Nat /\ m - 1 \notin Bad /\ m \in Nat
    BY <1>1, <1>3
  <2>2. PICK v : Printed(s, aflag, v, m - 1)
    BY <2>1
  <2> DEFINE u == [k \in 0 .. m |-> IF k = m THEN Next1(v, m) ELSE v[k]]
  <2>3. \A k \in 0 .. m - 1 : v[k] = IF k = 0 THEN <<>> ELSE Next1(v, k)
    BY <2>2 DEF Printed
  <2>4. ASSUME NEW k \in 0 .. m
        PROVE  u[k] = IF k = 0 THEN <<>> ELSE Next1(u, k)
    <3>1. \A j \in 0 .. m - 1 : u[j] = v[j]
      BY <2>1
    <3>2. k # 0 => u[k - 1] = v[k - 1]
      BY <2>1, <3>1
    <3>3. u[k] = IF k = m THEN Next1(v, m) ELSE v[k]
      OBVIOUS
    <3> HIDE DEF u
    <3> QED BY <1>3, <2>1, <2>3, <3>2, <3>3
  <2>5. Printed(s, aflag, u, m)
    BY <2>4 DEF Printed
  <2> QED BY <2>5
<1> QED BY <1>2, <1>3

(* They are a sequence, and there are none when all is hidden. *)
LEMMA LinesAre ==
  ASSUME Fit(disk), NEW b, NEW aflag
  PROVE  /\ \E S : Lines(b, aflag) \in Seq(S)
         /\ (\A j \in DOMAIN EntriesAt(b) : ~Shown(EntriesAt(b)[j], aflag)) => Lines(b, aflag) = <<>>
<1> DEFINE s == EntriesAt(b)
           n == Len(s)
           S == {s[j].name : j \in 1 .. n}
           w == CHOOSE v : Printed(s, aflag, v, n)
<1>1. n \in Nat /\ DOMAIN s = 1 .. n
  <2>1. CASE b \in DOMAIN disk.data
    <3>1. PICK T : disk.data[b] \in Seq(T)
      BY <2>1 DEF Fit, ProperSeq
    <3> QED BY <2>1, <3>1 DEF EntriesAt
  <2>2. CASE b \notin DOMAIN disk.data
    BY <2>2 DEF EntriesAt
  <2> QED BY <2>1, <2>2
<1>2. Lines(b, aflag) = w[n]
  BY DEF Lines, Printed
<1> HIDE DEF s, n
<1>3. Printed(s, aflag, w, n)
  BY <1>1, Printable
<1> HIDE DEF w
<1>4. \A k \in 0 .. n : w[k] = IF k = 0 THEN <<>>
                               ELSE IF Shown(s[k], aflag) THEN Append(w[k - 1], s[k].name) ELSE w[k - 1]
  BY <1>3 DEF Printed
<1> DEFINE Good(k) == /\ w[k] \in Seq(S)
                      /\ (\A j \in 1 .. n : ~Shown(s[j], aflag)) => w[k] = <<>>
<1>5. \A k \in 0 .. n : Good(k)
  <2> DEFINE Bad == {k \in 0 .. n : ~Good(k)}
  <2> SUFFICES ASSUME Bad # {} PROVE FALSE
    OBVIOUS
  <2>1. Bad \in SUBSET Nat
    BY <1>1
  <2> HIDE DEF Good
  <2>2. PICK k \in Bad : \A j \in Bad : k <= j
    BY <2>1, MinIn
  <2>3. k # 0
    <3>1. w[0] = <<>>
      BY <1>1, <1>4
    <3>2. <<>> \in Seq(S)
      OBVIOUS
    <3> QED BY <2>2, <3>1, <3>2 DEF Good
  <2>4. k \in 1 .. n /\ k - 1 \in 0 .. n /\ ~(k <= k - 1)
    BY <1>1, <2>2, <2>3
  <2>5. Good(k - 1)
    BY <2>2, <2>4
  <2>6. s[k].name \in S
    BY <2>4
  <2>7. w[k] = IF Shown(s[k], aflag) THEN Append(w[k - 1], s[k].name) ELSE w[k - 1]
    BY <1>4, <2>3, <2>4
  <2> HIDE DEF S
  <2>8. Append(w[k - 1], s[k].name) \in Seq(S)
    BY <2>5, <2>6 DEF Good
  <2>9. Good(k)
    BY <2>4, <2>5, <2>7, <2>8 DEF Good
  <2> QED BY <2>2, <2>9
<1>6. n \in 0 .. n
  BY <1>1
<1> HIDE DEF S
<1>7. w[n] \in Seq(S) /\ ((\A j \in 1 .. n : ~Shown(s[j], aflag)) => w[n] = <<>>)
  BY <1>5, <1>6
<1> QED BY <1>1, <1>2, <1>7 DEF s, n

(* Of the boot block, that i_blocks counts, ls_block prints nothing. *)
LEMMA BootBlock ==
  ASSUME Sound(disk), Fit(disk), Treed(disk), NEW aflag \in BOOLEAN, aflag => 0 \notin DOMAIN disk.data
  PROVE  Lines(0, aflag) = <<>>
<1>1. 0 \notin Homes(FoundDirs(disk), disk.in)
  BY DEF Homes, Home, FoundDirs
<1>2. \A j \in DOMAIN EntriesAt(0) : ~Shown(EntriesAt(0)[j], aflag)
  <2>1. CASE aflag
    <3>1. EntriesAt(0) = <<>>
      BY <2>1 DEF EntriesAt
    <3> QED BY <3>1
  <2>2. CASE ~aflag
    BY <1>1, <2>2, NothingOutside, Ext2Assumption DEF Shown, Dotted
  <2> QED BY <2>1, <2>2
<1> QED BY <1>2, LinesAre

(* ls_block prints the entries of a directory's block. *)
LEMMA LsBlock ==
  ASSUME Sound(disk), Fit(disk), Treed(disk), NEW ino \in Inode, IsDirectory(ino),
         NEW aflag \in BOOLEAN, aflag => 0 \notin DOMAIN disk.data
  PROVE  ls_block(ino, aflag) = Lines(disk.in[ino].i_block[1], aflag)
<1> DEFINE x == Lines(disk.in[ino].i_block[1], aflag)
           y == Lines(disk.in[ino].i_block[2], aflag)
           ss == [k \in 1 .. 2 |-> IF k = 1 THEN x ELSE y]
<1>1. disk.in[ino].i_blocks = 2 /\ disk.in[ino].i_block[2] = 0
  BY Ext2DiskAssumption DEF Treed, Plain, IsDirectory
<1>2. y = <<>>
  BY <1>1, BootBlock
<1>3. PICK S : x \in Seq(S)
  BY LinesAre
<1>4. [k \in 1 .. disk.in[ino].i_blocks |-> Lines(BlockAt(ino, k), aflag)] = ss
  <2>1. \A k \in 1 .. 2 : Lines(BlockAt(ino, k), aflag) = IF k = 1 THEN x ELSE y
    BY Ext2DiskAssumption DEF BlockAt
  <2> HIDE DEF x, y
  <2> QED BY <1>1, <2>1
<1> HIDE DEF x, y
<1>5. ss \in [1 .. 2 -> Seq(S)] /\ ss[1] = x /\ ss[2] = y
  BY <1>2, <1>3
<1> HIDE DEF ss
<1>6. PICK w : /\ \A i \in 1 .. 2 : w[i] = IF i = 1 THEN ss[i] ELSE w[i - 1] \o ss[i]
               /\ FlattenSeq(ss) = w[2]
  <2>1. 2 \in Nat \ {0} /\ ss \in [1 .. 2 -> Seq(S)]
    BY <1>5
  <2>2. \A n \in Nat \ {0} : ss \in [1 .. n -> Seq(S)] =>
          \E w : /\ \A i \in 1 .. n : w[i] = IF i = 1 THEN ss[i] ELSE w[i - 1] \o ss[i]
                /\ FlattenSeq(ss) = w[n]
    BY FlattenSteps
  <2> QED BY <2>1, <2>2
<1>7. w[1] = x /\ w[2] = w[1] \o y
  BY <1>5, <1>6
<1>8. x \o <<>> = x
  BY <1>3
<1> QED BY <1>2, <1>4, <1>6, <1>7, <1>8 DEF ls_block, x

(* What a lookup finds is a directory exactly when its entry says so. *)
LEMMA FoundKind ==
  ASSUME Sound(disk), Fit(disk), Treed(disk), NEW b \in DirBlocks,
         NEW name, name \notin Dotted, NEW k \in PlacesOf(name, b), disk.data[b][k].inode # 0
  PROVE  IsDirectory(disk.data[b][k].inode) <=> disk.data[b][k].file_type = "DIR"
<1> DEFINE e == disk.data[b][k]
<1>1. b \in Homes(FoundDirs(disk), disk.in)
  BY DirsAre
<1>2. Triple(e) \in KeptIn(disk.data[b]) /\ e.name = name
  BY DEF PlacesOf, KeptIn
<1> HIDE DEF e
<1>3. Triple(e)[1] = name /\ Triple(e)[2] = e.inode /\ Triple(e)[3] = e.file_type
  BY <1>2 DEF Triple
<1>4. e.inode # 0
  BY DEF e
<1>5. KindIs(disk.in, Triple(e))
  BY <1>1, <1>2, <1>3, <1>4 DEF Treed, Kinds
<1>6. IsDirectory(e.inode) <=> e.file_type = "DIR"
  BY <1>3, <1>5 DEF KindIs, IsDirectory
<1> QED BY <1>6 DEF e

(* The tools may walk over what mkdir and cp leave. *)
LEMMA AllReadable ==
  ASSUME HardLinksOnly, Sound(disk), Fit(disk), Treed(disk)
  PROVE  Readable
<1> SUFFICES ASSUME NEW k \in DOMAIN dirs
             PROVE  /\ dirs[k] \in DOMAIN disk.data
                    /\ \A j \in DOMAIN disk.data[dirs[k]] : EntryFits(disk.data[dirs[k]][j])
  BY DEF Readable
<1>1. dirs[k] \in Homes(FoundDirs(disk), disk.in)
  <2>1. dirs \in Seq(Homes(FoundDirs(disk), disk.in))
    BY DirsAre
  <2> QED BY <2>1
<1>2. dirs[k] \in DOMAIN disk.data
  BY <1>1, BlockOfIs DEF Treed
<1> DEFINE s == disk.data[dirs[k]]
<1>3. PICK S : s \in Seq(S) /\ \A x \in S : Proper(x)
  BY <1>2 DEF Fit, ProperSeq
<1> HIDE DEF s
<1>4. ASSUME NEW j \in DOMAIN s PROVE EntryFits(s[j])
  <2>1. j \in 1 .. Len(s)
    BY <1>3
  <2>2. s[j] \in S
    BY <1>3, <2>1
  <2> QED BY <1>3, <2>2 DEF Proper
<1> QED BY <1>2, <1>4 DEF s

(* After any runs of mkdir and cp, ls shows the directory that the path    *)
(* leads to, a file's name, or ENOENT: the tools' search of the image for  *)
(* a block with the right . finds what the inodes' own blocks lead to.     *)
THEOREM LsIsFaithful == ASSUME OnlyMakes, PlainNames PROVE Spec => []LsShowsDirectory
<1>1. Sound(disk) /\ Fit(disk) /\ Treed(disk) => LsShowsDirectory
  <2> SUFFICES ASSUME Sound(disk), Fit(disk), Treed(disk), NEW p \in Paths, NEW aflag \in BOOLEAN,
                      aflag => 0 \notin DOMAIN disk.data,
                      p # <<>> => OneKind(Last(p)) /\ Last(p) \notin Range(Front(p))
               PROVE  LET ino == Leads(p)
                      IN  ls(p, aflag) =
                            IF ino = 0 THEN [code |-> "ENOENT", lines |-> <<>>]
                            ELSE [code |-> "0",
                                  lines |-> IF IsDirectory(ino) THEN Lines(disk.in[ino].i_block[1], aflag)
                                            ELSE <<Last(p)>>]
    BY DEF LsShowsDirectory
  <2> DEFINE ino == Leads(p)
  <2>1. ino = Resolve(p) /\ ino \in Inode \cup {0}
    BY LeadsIs
  <2>2. CASE p = <<>>
    <3>1. ino = EXT2_ROOT_INO
      <4>1. Resolve(p) = (CHOOSE v : Followed(p, v, 0))[0]
        BY <2>2 DEF Resolve, Followed
      <4>2. Followed(p, CHOOSE v : Followed(p, v, 0), 0)
        BY <2>2, Followable DEF Paths, BoundedSeq, SeqOf
      <4>3. (CHOOSE v : Followed(p, v, 0))[0] = EXT2_ROOT_INO
        BY <4>2 DEF Followed
      <4> QED BY <2>1, <4>1, <4>3
    <3>2. EXT2_ROOT_INO \in Inode /\ IsDirectory(EXT2_ROOT_INO) /\ EXT2_ROOT_INO # 0
      BY DEF Treed, Shape, FoundDirs, IsDirectory, EXT2_ROOT_INO
    <3>3. ls_block(EXT2_ROOT_INO, aflag) = Lines(disk.in[EXT2_ROOT_INO].i_block[1], aflag)
      BY <3>2, LsBlock
    <3> HIDE DEF ino
    <3> QED BY <2>2, <3>1, <3>2, <3>3 DEF ls, ino
  <2>3. CASE p # <<>>
    <3> DEFINE name == Last(p)
               slot == find_dir_entry(name, dirs)
    <3>1. traverse(p) = ino
      BY <2>1, <2>3, TraverseToEnd
    <3>2. CASE ino = 0
      <4> HIDE DEF ino
      <4> QED BY <2>3, <3>1, <3>2 DEF ls, ino
    <3>3. CASE ino # 0
      <4>1. PICK i : ino = Lookup(i, name)
        BY <2>3, <3>1, TraverseIs
      <4>2. name \in Names /\ name \notin Dotted
        BY <2>3, TraverseIs DEF PlainNames, Dotted
      <4>3. Readable
        BY AllReadable DEF OnlyMakes, HardLinksOnly
      <4>4. PICK b \in DirBlocks : \E k \in PlacesOf(name, b) : slot = <<b, k>>
        <5> HIDE DEF ino, name
        <5> QED BY <3>3, <4>1, <4>3, FoundSlot
      <4>5. PICK c \in DirBlocks : \E k \in PlacesOf(name, c) : ino = disk.data[c][k].inode
        <5> HIDE DEF ino, name
        <5> QED BY <3>3, <4>1, <4>3, FoundSlot
      <4>6. PICK l \in PlacesOf(name, c) : ino = disk.data[c][l].inode
        BY <4>5
      <4>7. slot \in Called(name) /\ <<c, l>> \in Called(name)
        <5> HIDE DEF slot, name
        <5> QED BY <4>4, <4>6 DEF Called
      <4>8. EntryAt(slot).file_type = disk.data[c][l].file_type
        <5>1. EntryAt(slot).file_type = EntryAt(<<c, l>>).file_type
          BY <2>3, <4>7 DEF OneKind
        <5> QED BY <5>1 DEF EntryAt
      <4>9. IsDirectory(ino) <=> EntryAt(slot).file_type = "DIR"
        <5> HIDE DEF ino, name, slot
        <5> QED BY <3>3, <4>2, <4>6, <4>8, FoundKind
      <4>10. IsDirectory(ino) => ls_block(ino, aflag) = Lines(disk.in[ino].i_block[1], aflag)
        <5> HIDE DEF ino
        <5> QED BY <2>1, <3>3, LsBlock
      <4>11. ls(p, aflag) =
               IF traverse(p) = 0 THEN [code |-> "ENOENT", lines |-> <<>>]
               ELSE [code  |-> "0",
                     lines |-> IF EntryAt(slot).file_type # "DIR" THEN <<name>> ELSE ls_block(traverse(p), aflag)]
        BY <2>3 DEF ls
      <4> HIDE DEF ino, slot
      <4>12. ls(p, aflag) = [code |-> "0",
                             lines |-> IF IsDirectory(ino) THEN Lines(disk.in[ino].i_block[1], aflag) ELSE <<name>>]
        <5>1. CASE IsDirectory(ino)
          BY <3>1, <3>3, <4>9, <4>10, <4>11, <5>1
        <5>2. CASE ~IsDirectory(ino)
          BY <3>1, <3>3, <4>9, <4>11, <5>2
        <5> QED BY <5>1, <5>2
      <4> QED BY <3>3, <4>12 DEF ino
    <3> QED BY <3>2, <3>3
  <2> QED BY <2>2, <2>3
<1> QED BY <1>1, TreeInvariant, PTL

(* Recursive removal.  Entries of block b dropped one after the other at   *)
(* the place k, each leaving its room to the one before.                   *)
Swallows(v, b, k, n) ==
  v = [i \in 0 .. n |-> IF i = 0 THEN disk ELSE Unlink(v[i - 1], b, k)]

(* There is such a function. *)
LEMMA Swallowable ==
  ASSUME NEW b, NEW k, NEW n \in Nat
  PROVE  \E v : Swallows(v, b, k, n)
<1> DEFINE Bad == {m \in Nat : ~(\E v : Swallows(v, b, k, m))}
           After(d) == Unlink(d, b, k)
<1>0. \A v, m : Swallows(v, b, k, m) <=> v = [i \in 0 .. m |-> IF i = 0 THEN disk ELSE After(v[i - 1])]
  BY DEF Swallows
<1> HIDE DEF After
<1> SUFFICES ASSUME Bad # {} PROVE FALSE
  OBVIOUS
<1>1. PICK m \in Bad : \A j \in Bad : m <= j
  BY MinIn
<1>2. CASE m = 0
  <2> DEFINE v == [i \in 0 .. 0 |-> disk]
  <2>1. v = [i \in 0 .. 0 |-> IF i = 0 THEN disk ELSE After(v[i - 1])]
    OBVIOUS
  <2> QED BY <1>0, <1>2, <2>1
<1>3. CASE m # 0
  <2>1. m - 1 \in Nat /\ m - 1 \notin Bad /\ m \in Nat
    BY <1>1, <1>3
  <2>2. PICK v : v = [i \in 0 .. m - 1 |-> IF i = 0 THEN disk ELSE After(v[i - 1])]
    BY <1>0, <2>1
  <2> DEFINE u == [i \in 0 .. m |-> IF i = m THEN After(v[m - 1]) ELSE v[i]]
  <2>3. \A i \in 0 .. m - 1 : v[i] = IF i = 0 THEN disk ELSE After(v[i - 1])
    BY <2>2
  <2>4. ASSUME NEW i \in 0 .. m
        PROVE  u[i] = IF i = 0 THEN disk ELSE After(u[i - 1])
    <3>1. \A j \in 0 .. m - 1 : u[j] = v[j]
      BY <2>1
    <3>2. i # 0 => u[i - 1] = v[i - 1]
      BY <2>1, <3>1
    <3>3. u[i] = IF i = m THEN After(v[m - 1]) ELSE v[i]
      OBVIOUS
    <3> HIDE DEF u
    <3> QED BY <1>3, <2>1, <2>3, <3>2, <3>3
  <2>5. u = [i \in 0 .. m |-> IF i = 0 THEN disk ELSE After(u[i - 1])]
    BY <2>4
  <2> HIDE DEF u
  <2> QED BY <1>0, <2>5
<1> QED BY <1>2, <1>3

(* What a merge of several entries leaves is sound and fit. *)
LEMMA SwallowedFit ==
  ASSUME Sound(disk), Fit(disk), NEW b \in DOMAIN disk.data, NEW k \in DOMAIN disk.data[b], k # 1,
         NEW n \in 1 .. Len(disk.data[b]) - k + 1
  PROVE  /\ Sound(Swallowed(b, k, n)) /\ Fit(Swallowed(b, k, n))
         /\ DOMAIN Swallowed(b, k, n).data = DOMAIN disk.data
<1> DEFINE w == CHOOSE v : Swallows(v, b, k, n)
           len == Len(disk.data[b])
           Good(i) == /\ Sound(w[i]) /\ Fit(w[i]) /\ DOMAIN w[i].data = DOMAIN disk.data
                      /\ Len(w[i].data[b]) = len - i
<1>1. len \in Nat /\ k \in 1 .. len /\ n \in Nat /\ n \in 1 .. len - k + 1
  <2>1. PICK S : disk.data[b] \in Seq(S)
    BY DEF Fit, ProperSeq
  <2> QED BY <2>1
<1> HIDE DEF len
<1>2. Swallowed(b, k, n) = w[n]
  BY DEF Swallowed, Swallows
<1>3. Swallows(w, b, k, n)
  BY <1>1, Swallowable
<1> HIDE DEF w
<1>4. w[0] = disk /\ \A i \in 1 .. n : w[i] = Unlink(w[i - 1], b, k)
  BY <1>1, <1>3 DEF Swallows
<1>5. ASSUME NEW i \in 1 .. n, Good(i - 1) PROVE Good(i)
  <2> DEFINE d == w[i - 1]
  <2>1. Sound(d) /\ Fit(d) /\ DOMAIN d.data = DOMAIN disk.data /\ Len(d.data[b]) = len - (i - 1)
    BY <1>5
  <2>2. w[i] = Unlink(d, b, k)
    BY <1>4
  <2> HIDE DEF d
  <2>3. b \in DOMAIN d.data /\ k \in DOMAIN d.data[b]
    <3>1. b \in DOMAIN d.data
      BY <2>1
    <3>2. PICK S : d.data[b] \in Seq(S)
      BY <2>1, <3>1 DEF Fit, ProperSeq
    <3>3. k \in 1 .. len - (i - 1)
      BY <1>1
    <3> DEFINE q == d.data[b]
    <3>4. q \in Seq(S) /\ Len(q) = len - (i - 1)
      BY <2>1, <3>2
    <3> HIDE DEF q
    <3>5. DOMAIN q = 1 .. Len(q)
      BY <3>4
    <3>6. DOMAIN d.data[b] = 1 .. len - (i - 1)
      BY <3>4, <3>5 DEF q
    <3> QED BY <3>1, <3>3, <3>6
  <2>4. /\ Sound(w[i]) /\ Fit(w[i]) /\ DOMAIN w[i].data = DOMAIN disk.data
        /\ Len(w[i].data[b]) = Len(d.data[b]) - 1
    BY <2>1, <2>2, <2>3, UnlinkSound, UnlinkFit
  <2>5. i \in Nat /\ (len - (i - 1)) - 1 = len - i
    BY <1>1
  <2>6. Len(w[i].data[b]) = len - i
    BY <2>1, <2>4, <2>5
  <2> QED BY <2>4, <2>6
<1>6. Good(0)
  BY <1>1, <1>4 DEF len
<1> HIDE DEF Good
<1>7. \A i \in 0 .. n : Good(i)
  <2> DEFINE Bad == {i \in 0 .. n : ~Good(i)}
  <2> SUFFICES ASSUME Bad # {} PROVE FALSE
    OBVIOUS
  <2>1. Bad \in SUBSET Nat
    BY <1>1
  <2>2. PICK i \in Bad : \A j \in Bad : i <= j
    BY <2>1, MinIn
  <2>3. i \in 1 .. n
    BY <1>6, <2>2
  <2>4. i - 1 \in 0 .. n /\ ~(i <= i - 1)
    BY <1>1, <2>3
  <2>5. Good(i - 1)
    BY <2>2, <2>4
  <2> QED BY <1>5, <2>2, <2>3, <2>5
<1>8. n \in 0 .. n
  BY <1>1
<1> QED BY <1>2, <1>7, <1>8 DEF Good

(* Lengthening an entry, as where the chain is lost, keeps an image sound. *)
LEMMA LongerSound ==
  ASSUME NEW d, Sound(d), NEW b, NEW k, NEW len
  PROVE  LET e == [d EXCEPT !.data[b][k].rec_len = @ + len]
         IN  Sound(e) /\ DOMAIN e.data = DOMAIN d.data
<1> DEFINE e == [d EXCEPT !.data[b][k].rec_len = @ + len]
<1>1. DOMAIN d = Fields
  BY DEF Sound, Table
<1>2. DOMAIN e = Fields /\ SameBits(e, d) /\ e.in = d.in /\ DOMAIN e.data = DOMAIN d.data
  BY <1>1 DEF SameBits, Fields
<1> HIDE DEF e
<1>3. Sound(e)
  BY <1>2, EntriesSound
<1> QED BY <1>2, <1>3 DEF e

(* The calls are for entries other than . and .., and the directories that *)
(* init found stay directory blocks.                                       *)
Frame(f) ==
  /\ DOMAIN f = {"inode", "name", "dir_file", "index", "pos", "result"}
  /\ f.name \notin Dotted
Calls(s) == \E S : s \in Seq(S) /\ \A f \in S : Frame(f)
Found(s, d) == s # <<>> =>
  /\ DOMAIN known.dirs \subseteq Nat
  /\ \A k \in DOMAIN known.dirs : known.dirs[k] \in DOMAIN d.data

(* What happens to the calls. *)
LEMMA CallsAre ==
  ASSUME Calls(stack), stack # <<>>
  PROVE  /\ Frame(Top) /\ Calls(Front(stack))
         /\ Len(stack) \in Nat \ {0}
         /\ \A f : Frame(f) => Calls(Replaced(f))
         /\ \A s, f : Calls(s) /\ Frame(f) => Calls(Append(s, f))
<1>1. PICK S : stack \in Seq(S) /\ \A f \in S : Frame(f)
  BY DEF Calls
<1>2. Len(stack) \in Nat \ {0} /\ Top \in S
  BY <1>1 DEF Top
<1>3. Front(stack) \in Seq(S)
  BY <1>1, <1>2 DEF Front
<1>4. ASSUME NEW f, Frame(f) PROVE Calls(Replaced(f))
  <2>1. Replaced(f) \in Seq(S \cup {f})
    BY <1>1, <1>2 DEF Replaced
  <2> QED BY <1>1, <1>4, <2>1 DEF Calls
<1>5. ASSUME NEW s, NEW f, Calls(s), Frame(f) PROVE Calls(Append(s, f))
  <2>1. PICK T : s \in Seq(T) /\ \A g \in T : Frame(g)
    BY <1>5 DEF Calls
  <2>2. Append(s, f) \in Seq(T \cup {f})
    BY <2>1
  <2> QED BY <1>5, <2>1, <2>2 DEF Calls
<1> QED BY <1>1, <1>2, <1>3, <1>4, <1>5 DEF Calls

(* A call that returns: the one outside gets its result. *)
LEMMA ReturnsCalls ==
  ASSUME Calls(stack), stack # <<>>, NEW result, Returns(result)
  PROVE  Calls(stack') /\ (stack' # <<>> => known' = known)
<1>1. CASE Len(stack) = 1
  <2>1. stack' = <<>>
    BY <1>1 DEF Returns, Ends
  <2>2. <<>> \in Seq({})
    OBVIOUS
  <2> QED BY <2>1, <2>2 DEF Calls
<1>2. CASE Len(stack) # 1
  <2> DEFINE n == Len(stack) - 1
             s == Front(stack)
             f == [s[n] EXCEPT !.result = result]
  <2>1. stack' = [s EXCEPT ![n] = f] /\ known' = known
    BY <1>2 DEF Returns
  <2>2. PICK S : stack \in Seq(S) /\ \A x \in S : Frame(x)
    BY DEF Calls
  <2>3. s \in Seq(S) /\ Len(s) = n /\ n \in 1 .. n /\ s[n] \in S
    <3>1. Len(stack) \in Nat \ {0}
      BY <2>2
    <3>2. n \in Nat \ {0}
      BY <1>2, <3>1
    <3>3. s = SubSeq(stack, 1, n) /\ n <= Len(stack)
      BY <3>1 DEF Front
    <3> HIDE DEF n
    <3>4. SubSeq(stack, 1, n) \in Seq(S) /\ Len(SubSeq(stack, 1, n)) = n
      BY <2>2, <3>1, <3>2, <3>3
    <3> HIDE DEF s
    <3> QED BY <3>2, <3>3, <3>4
  <2> HIDE DEF s, n
  <2>4. Frame(f)
    BY <2>2, <2>3 DEF Frame
  <2> HIDE DEF f
  <2>5. [s EXCEPT ![n] = f] \in Seq(S \cup {f})
    BY <2>3
  <2> QED BY <2>1, <2>2, <2>4, <2>5 DEF Calls
<1> QED BY <1>1, <1>2

(* What the tool finds for a call is an entry with the call's name, so not *)
(* the . of a directory.                                                   *)
LEMMA FoundEntry ==
  ASSUME Sound(disk), Fit(disk), Found(stack, disk), stack # <<>>, NEW name,
         name \notin Dotted, find_dir_entry(name, known.dirs) # <<>>
  PROVE  LET slot == find_dir_entry(name, known.dirs)
         IN  /\ slot[1] \in DOMAIN disk.data /\ slot[2] \in DOMAIN disk.data[slot[1]]
             /\ ~Own(disk.data[slot[1]][slot[2]])
<1> DEFINE blocks == known.dirs
           slot == find_dir_entry(name, blocks)
           at == {i \in DOMAIN blocks : PlacesOf(name, blocks[i]) # {}}
           i == Min(at)
           b == blocks[i]
           k == Min(PlacesOf(name, b))
<1>1. at # {}
  BY DEF find_dir_entry, FirstCalled
<1>2. at \in SUBSET Nat
  BY DEF Found
<1>3. i \in at
  BY <1>1, <1>2, MinIn
<1>4. slot = <<b, k>>
  BY <1>1 DEF find_dir_entry, FirstCalled
<1> HIDE DEF i, slot
<1>5. b \in DOMAIN disk.data
  BY <1>3 DEF Found
<1>6. DOMAIN disk.data[b] \in SUBSET Nat
  <2>1. PICK S : disk.data[b] \in Seq(S)
    BY <1>5 DEF Fit, ProperSeq
  <2> QED BY <2>1
<1>7. PlacesOf(name, b) # {} /\ PlacesOf(name, b) \in SUBSET Nat
  BY <1>3, <1>6 DEF PlacesOf
<1>8. k \in PlacesOf(name, b)
  BY <1>7, MinIn
<1> HIDE DEF k, b
<1>9. k \in DOMAIN disk.data[b] /\ disk.data[b][k].name = name
  BY <1>8 DEF PlacesOf
<1>10. slot[1] = b /\ slot[2] = k
  BY <1>4
<1> QED BY <1>5, <1>9, <1>10 DEF Own, Dotted, slot

(* A call leaves a sound image with entries that fit, when what it merged  *)
(* is one.                                                                 *)
LEMMA LeavesFit ==
  ASSUME NEW image, Sound(image), Fit(image), DOMAIN image.data = DOMAIN disk.data,
         Calls(stack), stack # <<>>, Found(stack, disk),
         NEW dropped, NEW ino, NEW result, Leaves(image, dropped, ino, result)
  PROVE  Sound(disk)' /\ Fit(disk)' /\ Calls(stack)' /\ Found(stack, disk)'
<1>1. disk' = remove_link(image, ino, known.inum)
  BY DEF Leaves
<1>2. Sound(disk') /\ Fit(disk') /\ DOMAIN disk'.data = DOMAIN disk.data
  BY <1>1, RemoveLinkSound, RemoveLinkFit, RemoveLinkData
<1>3. Calls(stack') /\ (stack' # <<>> => known' = known)
  BY ReturnsCalls DEF Leaves
<1> QED BY <1>2, <1>3 DEF Found, Calls, Sound, Fit, Table, Counted, Owned

(* remove_r unlinks an entry: the image stays sound and its entries fit,   *)
(* and no directory block goes.                                            *)
LEMMA RemovesFit ==
  ASSUME Sound(disk), Fit(disk), Calls(stack), Found(stack, disk), stack # <<>>,
         NEW ino, NEW name, NEW result,
         name \notin Dotted, find_dir_entry(name, known.dirs) # <<>>,
         Removes(ino, find_dir_entry(name, known.dirs), result)
  PROVE  Sound(disk)' /\ Fit(disk)' /\ Calls(stack)' /\ Found(stack, disk)'
<1> DEFINE slot == find_dir_entry(name, known.dirs)
           b == slot[1]
           k == slot[2]
           e == Unlink(disk, b, k)
<1>1. b \in DOMAIN disk.data /\ k \in DOMAIN disk.data[b] /\ ~Own(disk.data[b][k])
  BY FoundEntry
<1>2. \E dropped : Leaves(e, dropped, ino, result)
  BY DEF Removes
<1> HIDE DEF b, k
<1>3. k # 1
  BY <1>1, NotFirst
<1>4. Sound(e) /\ Fit(e) /\ DOMAIN e.data = DOMAIN disk.data
  BY <1>1, <1>3, UnlinkSound, UnlinkFit
<1> HIDE DEF e
<1> QED BY <1>2, <1>4, LeavesFit

(* So it is when the room of others is merged. *)
LEMMA MergesFit ==
  ASSUME Sound(disk), Fit(disk), Calls(stack), Found(stack, disk), stack # <<>>,
         NEW b \in DOMAIN disk.data, NEW k \in DOMAIN disk.data[b], k # 1, MergesOthers(b, k)
  PROVE  Sound(disk)' /\ Fit(disk)' /\ Calls(stack)' /\ Found(stack, disk)'
<1>1. PICK n \in 1 .. Len(disk.data[b]) - k + 1 :
        \E dropped : Leaves(Swallowed(b, k, n), dropped, Top.inode, Top.result)
  BY DEF MergesOthers, Taken
<1>2. /\ Sound(Swallowed(b, k, n)) /\ Fit(Swallowed(b, k, n))
      /\ DOMAIN Swallowed(b, k, n).data = DOMAIN disk.data
  BY SwallowedFit
<1> QED BY <1>1, <1>2, LeavesFit

(* Where the chain is lost, nothing but entries is. *)
LEMMA LosesSound ==
  ASSUME Sound(disk), Calls(stack), Found(stack, disk), stack # <<>>, NEW b, NEW k, LosesChain(b, k)
  PROVE  /\ Sound(disk)' /\ Calls(stack)' /\ Found(stack, disk)'
         /\ status' = "bytes" /\ stack' = stack
<1> DEFINE e == [disk EXCEPT !.data[b][k - 1].rec_len = @ + At(Top.dir_file).rec_len]
<1>1. Sound(e) /\ DOMAIN e.data = DOMAIN disk.data
  BY LongerSound
<1>2. disk' = remove_link(e, Top.inode, known.inum) /\ status' = "bytes" /\ UNCHANGED <<stack, known>>
  BY DEF LosesChain, rmvars
<1> HIDE DEF e
<1>3. Sound(disk') /\ DOMAIN disk'.data = DOMAIN disk.data
  BY <1>1, <1>2, RemoveLinkSound, RemoveLinkData
<1> QED BY <1>2, <1>3 DEF Found, Calls, Sound, Table, Counted, Owned

(* A call that ends merges the room of another entry than its own, so that *)
(* the chain of a block goes on amid an entry or past the block.           *)
ChainLost == \E found \in {find_dir_entry(Top.name, known.dirs)} :
  /\ found # <<>> /\ PlaceOf(found) # Top.dir_file
  /\ LosesChain(found[1], found[2])

(* What holds along recursive removals: the entries fit until a chain is   *)
(* lost, and there the model stops in the call.                            *)
RmRFit ==
  /\ Sound(disk) /\ Calls(stack) /\ Found(stack, disk)
  /\ Fit(disk) \/ (stack # <<>> /\ status = "bytes")

(* A step keeps the entries fit, or a chain is lost. *)
LEMMA RmRStep ==
  ASSUME PlainNames, RmRFit, RmRNext
  PROVE  /\ Sound(disk)' /\ Calls(stack)' /\ Found(stack, disk)'
         /\ Fit(disk)' \/ (ChainLost /\ stack' # <<>> /\ status' = "bytes")
<1> DEFINE StaysFit == Sound(disk)' /\ Fit(disk)' /\ Calls(stack)' /\ Found(stack, disk)'
<1> USE DEF RmRFit
<1>2. CASE OtherTool
  <2>0. stack = <<>> /\ Next
    BY <1>2 DEF OtherTool
  <2>1. Sound(disk)' /\ Fit(disk)'
    BY <2>0, StepSound, StepFit
  <2>2. stack = <<>> /\ stack' = <<>>
    BY <1>2 DEF OtherTool, rmvars
  <2> QED BY <2>1, <2>2 DEF Calls, Found
<1>3. ASSUME NEW p \in Paths, NEW rflag \in BOOLEAN, rm_bonus(p, rflag) PROVE StaysFit
  <2>1. disk' = disk /\ Readable /\ stack = <<>>
    BY <1>3 DEF rm_bonus
  <2>2. Sound(disk)' /\ Fit(disk)'
    BY <2>1 DEF Sound, Fit, Table, Counted, Owned
  <2>3. CASE stack' = stack /\ known' = known
    BY <2>1, <2>2, <2>3 DEF Calls, Found
  <2>4. CASE /\ p # <<>>
             /\ stack' = <<Calling(traverse(p), Last(p))>>
             /\ known' = [dirs |-> dirs, inum |-> inum]
    <3>1. Last(p) \notin Dotted
      BY <2>4, TraverseIs DEF PlainNames, Dotted
    <3>2. Frame(Calling(traverse(p), Last(p)))
      BY <3>1 DEF Frame, Calling
    <3>3. <<Calling(traverse(p), Last(p))>> \in Seq({Calling(traverse(p), Last(p))})
      OBVIOUS
    <3>4. Calls(stack)'
      BY <2>4, <3>2, <3>3 DEF Calls
    <3>5. DOMAIN dirs \subseteq Nat
      BY DirsIs
    <3>6. \A k \in DOMAIN dirs : dirs[k] \in DOMAIN disk.data
      BY <2>1 DEF Readable
    <3>7. known'.dirs = dirs
      BY <2>4
    <3>8. Found(stack, disk)'
      BY <2>1, <3>5, <3>6, <3>7 DEF Found
    <3> QED BY <2>2, <3>4, <3>8
  <2> QED BY <1>3, <2>3, <2>4 DEF rm_bonus, rmvars
<1>4. CASE remove_r
  <2>0. /\ stack # <<>> /\ Fit(disk) /\ Frame(Top) /\ Top.name \notin Dotted
        /\ Call \/ VisitZeros \/ VisitBytes \/ VisitEntry \/ VisitAndCall \/ Finish
    <3>1. stack # <<>> /\ Fit(disk)
      BY <1>4 DEF remove_r, Call, VisitZeros, VisitBytes, VisitEntry, VisitAndCall, Finish, Walking
    <3>2. Frame(Top)
      BY <3>1, CallsAre
    <3> QED BY <1>4, <3>1, <3>2 DEF remove_r, Frame
  <2>1. ASSUME UNCHANGED disk, stack' = <<>> PROVE StaysFit
    <3>1. <<>> \in Seq({})
      OBVIOUS
    <3>2. Calls(stack)' /\ Found(stack, disk)'
      BY <2>1, <3>1 DEF Calls, Found
    <3>3. Sound(disk)' /\ Fit(disk)'
      BY <2>0, <2>1 DEF Sound, Fit, Table, Counted, Owned
    <3> QED BY <3>2, <3>3
  <2>2. ASSUME UNCHANGED <<disk, known>>, Calls(stack') PROVE StaysFit
    BY <2>0, <2>2 DEF Found, Calls, Sound, Fit, Table, Counted, Owned
  <2>3. CASE Call
    <3>1. CASE \E code : Ends(code) /\ UNCHANGED disk
      BY <2>1, <3>1 DEF Ends
    <3>2. CASE \E place : /\ stack' = Replaced([Top EXCEPT !.dir_file = place])
                          /\ UNCHANGED <<disk, known>>
      <4>1. PICK place : /\ stack' = Replaced([Top EXCEPT !.dir_file = place])
                         /\ UNCHANGED <<disk, known>>
        BY <3>2
      <4>2. Frame([Top EXCEPT !.dir_file = place])
        BY <2>0 DEF Frame
      <4>3. Calls(stack')
        BY <2>0, <4>1, <4>2, CallsAre
      <4> QED BY <2>2, <4>1, <4>3
    <3>3. CASE /\ find_dir_entry(Top.name, known.dirs) # <<>>
               /\ Removes(Top.inode, find_dir_entry(Top.name, known.dirs), 1)
      BY <2>0, <3>3, RemovesFit
    <3> QED BY <2>3, <3>1, <3>2, <3>3 DEF Call
  <2>4. CASE Finish
    <3> DEFINE found == find_dir_entry(Top.name, known.dirs)
    <3>1. CASE found = <<>> /\ Leaves(disk, Cleared, Top.inode, Top.result)
      BY <2>0, <3>1, LeavesFit
    <3>2. CASE found # <<>> /\ Removes(Top.inode, found, Top.result)
      BY <2>0, <3>2, RemovesFit
    <3>3. CASE found # <<>> /\ MergesOthers(found[1], found[2])
      <4>1. /\ found[1] \in DOMAIN disk.data /\ found[2] \in DOMAIN disk.data[found[1]]
            /\ ~Own(disk.data[found[1]][found[2]])
        BY <2>0, <3>3, FoundEntry
      <4> HIDE DEF found
      <4>2. found[2] # 1
        BY <2>0, <4>1, NotFirst
      <4> QED BY <2>0, <3>3, <4>1, <4>2, MergesFit
    <3>4. CASE found # <<>> /\ PlaceOf(found) # Top.dir_file /\ LosesChain(found[1], found[2])
      <4>1. ChainLost
        BY <3>4 DEF ChainLost
      <4> HIDE DEF found
      <4> QED BY <2>0, <3>4, <4>1, LosesSound
    <3> QED BY <2>4, <3>1, <3>2, <3>3, <3>4 DEF Finish
  <2>5. ASSUME NEW len PROVE Calls(Replaced(Advanced(len))) /\ Frame(Advanced(len))
    <3>1. Frame(Advanced(len))
      BY <2>0 DEF Frame, Advanced
    <3> QED BY <2>0, <3>1, CallsAre
  <2>6. CASE VisitZeros \/ VisitEntry
    BY <2>2, <2>5, <2>6 DEF VisitZeros, VisitEntry
  <2>7. CASE VisitBytes
    BY <2>2, <2>7 DEF VisitBytes
  <2>8. CASE VisitAndCall
    <3>1. UNCHANGED <<disk, known>> /\ At(Here).name \notin Dotted
      BY <2>8 DEF VisitAndCall, ToRemove, Dotted
    <3>2. Longer \notin Dotted
      BY DEF Longer, Dotted
    <3>3. PICK name : /\ name \notin Dotted
                      /\ stack' = Append(Replaced(Advanced(At(Here).rec_len)),
                                         Calling(At(Here).inode, name))
      BY <2>8, <3>1, <3>2 DEF VisitAndCall
    <3>4. Frame(Calling(At(Here).inode, name))
      BY <3>3 DEF Frame, Calling
    <3>5. Calls(Replaced(Advanced(At(Here).rec_len)))
      BY <2>5
    <3>6. Calls(stack')
      BY <2>0, <3>3, <3>4, <3>5, CallsAre
    <3> QED BY <2>2, <3>1, <3>6
  <2> QED BY <2>0, <2>3, <2>4, <2>6, <2>7, <2>8
<1> QED BY <1>2, <1>3, <1>4 DEF RmRNext

(* What holds along recursive removals is kept. *)
LEMMA RmRStepFit ==
  ASSUME PlainNames, RmRFit, [RmRNext]_allvars
  PROVE  RmRFit'
<1>1. CASE UNCHANGED allvars
  BY <1>1 DEF RmRFit, allvars, Calls, Found, Sound, Fit, Table, Counted, Owned
<1>2. CASE RmRNext
  BY <1>2, RmRStep DEF RmRFit
<1> QED BY <1>1, <1>2

(* So it is in every state of a run, also between the steps of a removal:  *)
(* this is the inductive invariant of the results below.                   *)
THEOREM RemovalKeepsFit == ASSUME PlainNames PROVE RmRSpec => []RmRFit
<1>1. RmRInit => RmRFit
  <2> SUFFICES ASSUME RmRInit PROVE RmRFit
    OBVIOUS
  <2>1. stack = <<>> /\ Sound(disk) /\ Fit(disk)
    BY MkfsSound, MkfsFit DEF RmRInit, Idle
  <2>2. <<>> \in Seq({})
    OBVIOUS
  <2>3. stack \in Seq({}) /\ \A f \in {} : Frame(f)
    BY <2>1, <2>2
  <2>4. Found(stack, disk)
    BY <2>1 DEF Found
  <2>5. Calls(stack)
    BY <2>3 DEF Calls
  <2> QED BY <2>1, <2>4, <2>5 DEF RmRFit
<1>2. RmRFit /\ [RmRNext]_allvars => RmRFit'
  BY RmRStepFit
<1> QED BY <1>1, <1>2, PTL DEF RmRSpec

(* Recursive removal, which takes entries out by name wherever they are    *)
(* and clears bits of inodes that it has not looked at, leaves the         *)
(* counters right and gives no block to two inodes: also between its       *)
(* steps, when it ends in a crash, and when it merges the room of an entry *)
(* of the same name with another's (ext2_rm_bonus.c:100-106).  It says     *)
(* this of a call up to where the bytes of a file become its entries:      *)
(* there, with status "bytes", the model stops.                            *)
THEOREM RemovalKeepsCounters ==
  ASSUME PlainNames
  PROVE  RmRSpec => [](CountersAgree /\ NoSharedBlock)
<1>1. RmRFit => CountersAgree /\ NoSharedBlock
  BY DEF RmRFit, Sound, Counted, Owned, CountersAgree, NoSharedBlock
<1> QED BY <1>1, RemovalKeepsFit, PTL

(* Only one thing breaks the chain of entries of a block: a call that      *)
(* ends, finds another entry of its name first, since inner calls took its *)
(* own, and adds the length of its own to the room before that one         *)
(* (ext2_rm_bonus.c:100-104), where no entries behind have just that       *)
(* length together.  Every other step of every tool keeps the blocks in    *)
(* order, a merge with the room of other entries included; the model stops *)
(* where the chain is lost and where the bytes of a file become entries.   *)
THEOREM RemovalKeepsEntries ==
  ASSUME PlainNames
  PROVE  RmRSpec => [][EntriesTile /\ (HardLinksOnly => EntriesFit) /\ ~ChainLost
                        => (EntriesTile /\ (HardLinksOnly => EntriesFit))']_allvars
<1> DEFINE InOrder == EntriesTile /\ (HardLinksOnly => EntriesFit)
<1>1. Fit(disk) => InOrder
  BY FitTiles, FitIsFit
<1>2. Fit(disk)' => InOrder'
  BY <1>1, PTL
<1>3. RmRFit /\ [RmRNext]_allvars => [InOrder /\ ~ChainLost => InOrder']_allvars
  <2> SUFFICES ASSUME RmRFit, RmRNext, ~ChainLost PROVE InOrder'
    OBVIOUS
  <2> QED BY <1>2, RmRStep
<1> QED BY <1>3, RemovalKeepsFit, PTL DEF RmRSpec
==============================================================================
