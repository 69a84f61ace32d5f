------------------------------- MODULE Ext2RmR -------------------------------
(***************************************************************************)
(* ext2_rm_bonus.c: rm with the flag -r, among the other tools.            *)
(*                                                                         *)
(* remove_r is recursive, it finds entries by name in all directories, and *)
(* the walk of an outer call goes on over a block that inner calls change. *)
(* So here a run of the tool is many steps: one for each call of remove_r  *)
(* and one for each entry that a walk visits.                              *)
(***************************************************************************)
EXTENDS Ext2

CONSTANT First   \* tools and paths, run in this order before the others

ASSUME FirstAssumption ==
  First \in Seq(({"mkdir"} \X Paths) \cup ({"cp", "rm"} \X (Paths \ {<<>>})))

VARIABLES
  stack,   \* calls of remove_r that have not returned, the innermost last
  known,   \* dirs and inum, which init filled when the tool was started
  gone,    \* entries that dropped out of the chain: their bytes stay where they were
  start,   \* the flag; history: the image before the tool, what the path led to
  first    \* bound: what is left of First

rmvars == <<stack, known, gone, start>>
allvars == <<disk, status, runs, stack, known, gone, start, first>>

Idle == stack = <<>> /\ known = <<>> /\ gone = <<>> /\ start = <<>>

(* The runs start with a fresh image.  What is explored begins after each  *)
(* of the tools of First, with the same number of runs to come.            *)
RmRInit ==
  /\ disk = MkfsImage /\ status = "0" /\ Idle
  /\ \E n \in 0 .. Len(First) : first = SubSeq(First, 1, n) /\ runs = Len(First) - n
Performs(tool, path) ==
  \/ tool = "mkdir" /\ mkdir(path)
  \/ tool = "cp" /\ cp(Last(path), 0, Front(path))
  \/ tool = "rm" /\ rm(path)

(* A place in the image: a block and an offset in it.                      *)
Offset(b, k) == FoldSeq(LAMBDA e, sum : e.rec_len + sum, 0, SubSeq(disk.data[b], 1, k - 1))
PlaceOf(slot) == <<slot[1], Offset(slot[1], slot[2])>>
SlotsAt(place) == {k \in DOMAIN disk.data[place[1]] : Offset(place[1], k) = place[2]}
At(place) == IF SlotsAt(place) # {} THEN disk.data[place[1]][Min(SlotsAt(place))]
             ELSE gone[place]

(* A call before it has looked for its entry, dir_file.                    *)
Calling(ino, name) ==
  [inode |-> ino, name |-> name, dir_file |-> <<>>, index |-> 0, pos |-> 0, result |-> 0]
Top == stack[Len(stack)]
Replaced(frame) == [stack EXCEPT ![Len(stack)] = frame]

(* The tool ends: main makes its exit code of the result.                  *)
Ends(code) == /\ status' = code
              /\ stack' = <<>> /\ known' = <<>> /\ gone' = <<>> /\ start' = <<>>
ExitCode(result) == IF result = 1 THEN "0" ELSE "ENOENT"
Returns(result) ==
  IF Len(stack) = 1 THEN Ends(ExitCode(result))
  ELSE /\ stack' = [Front(stack) EXCEPT ![Len(stack) - 1].result = result]
       /\ UNCHANGED <<status, known, start>>

------------------------------------------------------------------------------
(* main of ext2_rm_bonus.c: init, and the call for the path.               *)
rm_bonus(path, rflag) ==
  /\ stack = <<>> /\ first = <<>> /\ runs < MaxRuns /\ Readable
  /\ runs' = runs + 1
  /\ UNCHANGED <<disk, gone, first>>
  /\ IF path = <<>> THEN status' = "1" /\ UNCHANGED rmvars
     ELSE IF traverse(path) = 0 THEN status' = "ENOENT" /\ UNCHANGED rmvars
     ELSE /\ stack' = <<Calling(traverse(path), Last(path))>>
          /\ known' = [dirs |-> dirs, inum |-> inum]
          /\ start' = [rflag |-> rflag, disk |-> disk, ino |-> Resolve(path), name |-> Last(path)]
          /\ UNCHANGED status

(* The end of remove_r: `image' is the disk after the merge, `dropped' the *)
(* entries that it took out of the chain.                                  *)
Leaves(image, dropped, ino, result) ==
  /\ disk' = remove_link(image, ino, known.inum)
  /\ IF Len(stack) = 1 THEN TRUE ELSE gone' = dropped @@ gone
  /\ Returns(result)

(* remove_r unlinks dir_file: the entry before the first one of that name, *)
(* looked for again (find_pre_pos), takes dir_file's room.                 *)
Removes(ino, slot, result) ==
  Leaves(Unlink(disk, slot[1], slot[2]), PlaceOf(slot) :> [EntryAt(slot) EXCEPT !.inode = 0],
         ino, result)

(* remove_r up to the walk.  It follows a null pointer when nothing is     *)
(* called so, and leaves the mapping for the blocks of inode 0.  Without   *)
(* the flag there is only the call of main, which returns EISDIR as well.  *)
Call ==
  /\ stack # <<>> /\ Top.dir_file = <<>>
  /\ UNCHANGED runs
  /\ \E found \in {find_dir_entry(Top.name, known.dirs)} :
       LET type == EntryAt(found).file_type
       IN  \/ found = <<>> /\ Ends("crash") /\ UNCHANGED disk
           \/ found # <<>> /\ type # "DIR" /\ Removes(Top.inode, found, 1)
           \/ /\ found # <<>> /\ type = "DIR" /\ ~start.rflag
              /\ Ends("EISDIR") /\ UNCHANGED disk
           \/ /\ found # <<>> /\ type = "DIR" /\ start.rflag /\ Top.inode = 0
              /\ Ends("crash") /\ UNCHANGED disk
           \/ /\ found # <<>> /\ type = "DIR" /\ start.rflag /\ Top.inode # 0
              /\ stack' = Replaced([Top EXCEPT !.dir_file = PlaceOf(found)])
              /\ UNCHANGED <<disk, status, known, gone, start>>

------------------------------------------------------------------------------
(* The walk over the blocks of the inode, whatever it is.                  *)
Walking == stack # <<>> /\ Top.dir_file # <<>> /\ Top.index < disk.in[Top.inode].i_blocks
Here == <<BlockAt(Top.inode, Top.index + 1), Top.pos>>

(* Mutated form: the index stays when the walk leaves a block. *)
IndexStays(len) ==
  LET next == (Top.pos + len) % EXT2_BLOCK_SIZE
  IN  [Top EXCEPT !.pos = next]

(* pos + cur_len, where cur_len was read before the call for this entry.   *)
Advanced(len) ==
  LET next == (Top.pos + len) % EXT2_BLOCK_SIZE
  IN  [Top EXCEPT !.pos = next, !.index = IF next = 0 THEN @ + 1 ELSE @]

(* Mutated form: the first failure ends the walk of any block. *)
NoFailureBefore(e) == e.name \notin {".", ".."} /\ Top.result = 1
ToRemove(e) == e.name \notin {".", ".."} /\ (Top.index = 0 \/ Top.result = 1)

(* A block of zeros: no entry, of length 0.                                *)
VisitZeros ==
  /\ Walking /\ Here[1] \notin DOMAIN disk.data \cup disk.bytes
  /\ stack' = Replaced(Advanced(0))
  /\ UNCHANGED <<disk, status, runs, known, gone, start>>
(* The bytes of a file taken as entries.  What the call does from here on  *)
(* depends on them, and it need not end: where they say a length of 0      *)
(* within a block, the walk stays.  The model stops, in the call.          *)
VisitBytes ==
  /\ Walking /\ Here[1] \in disk.bytes
  /\ status' = "bytes"
  /\ UNCHANGED <<disk, runs, stack, known, gone, start>>
VisitEntry ==
  /\ Walking /\ Here[1] \in DOMAIN disk.data /\ ~ToRemove(At(Here))
  /\ stack' = Replaced(Advanced(At(Here).rec_len))
  /\ UNCHANGED <<disk, status, runs, known, gone, start>>
(* The name is copied without its end: remove_r gets the entry's name, or, *)
(* by what malloc left there, a longer one that no entry has.              *)
Longer == "a name with bytes that malloc left"
VisitAndCall ==
  /\ Walking /\ Here[1] \in DOMAIN disk.data /\ ToRemove(At(Here))
  /\ \E name \in {At(Here).name, Longer} :
       stack' = Append(Replaced(Advanced(At(Here).rec_len)), Calling(At(Here).inode, name))
  /\ UNCHANGED <<disk, status, runs, known, gone, start>>

(* When dir_file is not the first entry of its name any more, it is one    *)
(* that inner calls took out of the chain: what is written to it changes   *)
(* no directory.                                                           *)
Cleared == Top.dir_file :> [At(Top.dir_file) EXCEPT !.inode = 0]

(* The entry before the k-th of block b with the room of n entries more.   *)
Swallowed(b, k, n) ==
  LET after[i \in 0 .. n] == IF i = 0 THEN disk ELSE Unlink(after[i - 1], b, k)
  IN  after[n]
(* How many entries after that one have dir_file's length together.        *)
Taken(b, k) ==
  {n \in 1 .. Len(disk.data[b]) - k + 1 :
     Offset(b, k + n) - Offset(b, k) = At(Top.dir_file).rec_len}

(* Another entry is now the first of the name: the one before it gets      *)
(* dir_file's length on top of its own, and the chain goes on at what is   *)
(* there, past as many entries as have that length together.               *)
MergesOthers(b, k) ==
  \E n \in Taken(b, k) :
    LET dropped == {PlaceOf(<<b, i>>) : i \in k .. k + n - 1}
    IN  Leaves(Swallowed(b, k, n), Cleared @@ [place \in dropped |-> At(place)],
               Top.inode, Top.result)
(* ... or amid an entry or past the block, where the bytes decide what the *)
(* chain is: the model stops there, as in VisitBytes.                      *)
LosesChain(b, k) ==
  /\ Taken(b, k) = {}
  /\ disk' = remove_link([disk EXCEPT !.data[b][k - 1].rec_len = @ + At(Top.dir_file).rec_len],
                         Top.inode, known.inum)
  /\ status' = "bytes"
  /\ UNCHANGED rmvars

(* remove_r after the walk: find_pre_pos looks for the name again.         *)
Finish ==
  /\ stack # <<>> /\ Top.dir_file # <<>> /\ ~Walking
  /\ UNCHANGED runs
  /\ \E found \in {find_dir_entry(Top.name, known.dirs)} :
       \/ found = <<>> /\ Leaves(disk, Cleared, Top.inode, Top.result)
       \/ /\ found # <<>> /\ PlaceOf(found) = Top.dir_file
          /\ Removes(Top.inode, found, Top.result)
       \/ /\ found # <<>> /\ PlaceOf(found) # Top.dir_file
          /\ MergesOthers(found[1], found[2]) \/ LosesChain(found[1], found[2])

remove_r ==
  /\ status # "bytes" /\ UNCHANGED first
  /\ Call \/ VisitZeros \/ VisitBytes \/ VisitEntry \/ VisitAndCall \/ Finish

OtherTool ==
  /\ stack = <<>> /\ Next /\ UNCHANGED rmvars
  /\ IF first = <<>> THEN UNCHANGED first
     ELSE Performs(Head(first)[1], Head(first)[2]) /\ first' = Tail(first)
RmRNext ==
  \/ OtherTool
  \/ \E p \in Paths, rflag \in BOOLEAN : rm_bonus(p, rflag)
  \/ remove_r

(* The tool is a process that runs: it takes its next step.                *)
RmRSpec == RmRInit /\ [][RmRNext]_allvars /\ WF_allvars(remove_r)

------------------------------------------------------------------------------
(* The directories below an inode, and the entries in them.                *)
SlotsIn(d, blocks) ==
  {s \in blocks \X (1 .. EXT2_BLOCK_SIZE) : s[2] \in DOMAIN d.data[s[1]]}
EntryIn(d, s) == d.data[s[1]][s[2]]
Content(d, ino) ==
  {s \in SlotsIn(d, {d.in[ino].i_block[1]} \cap DOMAIN d.data) :
     EntryIn(d, s).name \notin {".", ".."}}
Subdirs(d, ino) ==
  {EntryIn(d, s).inode : s \in {t \in Content(d, ino) : EntryIn(d, t).file_type = "DIR"}} \ {0}
Directories(d, ino) ==
  LET within[n \in 0 .. s_inodes_count] ==
        IF n = 0 THEN {ino} ELSE UNION {{i} \cup Subdirs(d, i) : i \in within[n - 1]}
  IN  within[s_inodes_count]
Tree(d, ino) == UNION {Content(d, i) : i \in Directories(d, ino)}
Described(d, slots) ==
  {<<s[1], EntryIn(d, s).name, EntryIn(d, s).inode, EntryIn(d, s).file_type>> : s \in slots}

AllSlots == SlotsIn(start.disk, Range(known.dirs))
CalledLikeIt == {s \in AllSlots : EntryIn(start.disk, s).name = start.name}
(* Nothing else in the image was called like one of these entries.         *)
NamesApart(slots) == \A s \in slots, t \in AllSlots :
  EntryIn(start.disk, s).name = EntryIn(start.disk, t).name => s = t

(* Inner calls unlink entries by name, anywhere, while the outer ones hold *)
(* pointers.  When nothing else is called like the path or like something  *)
(* below it, the dir_file of a call that waits is still the first entry of *)
(* its name, so that find_pre_pos finds its neighbour, and its walk stands *)
(* at an entry, be it one that was unlinked (ext2_rm_bonus.c:52-104).      *)
OuterCallsSound ==
  /\ stack # <<>>
  /\ NamesApart(CalledLikeIt \cup Tree(start.disk, stack[1].inode))
  => \A i \in DOMAIN stack : stack[i].dir_file # <<>> =>
       LET found == find_dir_entry(stack[i].name, known.dirs)
           block == disk.in[stack[i].inode].i_block[1]
           place == <<block, stack[i].pos>>
       IN  /\ found # <<>> /\ PlaceOf(found) = stack[i].dir_file
           /\ stack[i].index = 0 /\ block \in DOMAIN disk.data
                => SlotsAt(place) # {} \/ place \in DOMAIN gone

(* The recursion ends, although every call walks on into the boot block,   *)
(* and over blocks that inner calls change: when nothing else is called    *)
(* like the path or like something below it, and no block of a file is     *)
(* among those that are walked over, be it by a directory's entry for the  *)
(* inode of a file (ext2_rm_bonus.c:72-99).                                *)
WalksNoFile(ino) == \A i \in Directories(start.disk, ino) :
  Range(start.disk.in[i].i_block) \cap start.disk.bytes = {}
RmREnds ==
  /\ stack # <<>>
  /\ NamesApart(CalledLikeIt \cup Tree(start.disk, stack[1].inode)) /\ WalksNoFile(stack[1].inode)
  ~> stack = <<>>

(* `recursively remove all the contents of the directory specified'        *)
(* (ext2_rm_bonus.c:22): when the path exists and nothing else in the      *)
(* image is called like it or like something below it, what goes are its   *)
(* entry and those below it, and each inode loses a link for each of them. *)
RmRRemovesTree ==
  [][LET d       == start.disk
         victims == CalledLikeIt
                      \cup (IF d.in[start.ino].mode = "DIR" THEN Tree(d, start.ino) ELSE {})
         naming(i) == {s \in victims : EntryIn(d, s).inode = i}
     IN  /\ stack # <<>> /\ stack' = <<>> /\ status' \in {"0", "ENOENT"}
         /\ start.ino # 0
         /\ NamesApart(victims)
         => /\ Described(disk', SlotsIn(disk', Range(known.dirs)))
                  = Described(d, AllSlots) \ Described(d, victims)
            /\ \A i \in Inode : disk'.in[i].i_links_count =
                 LET left == d.in[i].i_links_count - Cardinality(naming(i))
                 IN  IF left < 0 THEN 0 ELSE left]_allvars

(* `If the file does not exist ... return the appropriate error'           *)
(* (ext2_rm_bonus.c:9): with ENOENT nothing was removed.                   *)
RmRErrorsRemoveNothing ==
  [][stack # <<>> /\ stack' = <<>> /\ status' = "ENOENT" => disk' = start.disk]_allvars
==============================================================================
