# A verification project for CSCC69

The repository holds three independent C programs:

* **Assignment1**: a Linux kernel module that intercepts system calls and
  monitors the processes that make them (`interceptor.c`);
* **Assignment2**: a page-replacement simulator (`sim.c`, `pagetable.c`,
  `swap.c`, five replacement algorithms) with a script that reduces memory
  traces (`traceprogs/fastslim.py`);
* **Assignment3**: tools that change or list an ext2 image (`ext2_mkdir`,
  `ext2_ln`, `ext2_cp`, `ext2_rm`, `ext2_rm_bonus`, `ext2_ls`) over shared
  helpers (`helper.c`).

This directory models them in TLA+, checks the models with TLC on small
instances and proves their invariants, action properties and refinements with
TLAPS for every value of the constants. `PROJECT.json` maps each definition to the lines it models.

## 1. Inventory

| part | state | operations | interacts with |
|---|---|---|---|
| kernel module | `table` (saved call, `intercepted`, `monitored`, `listcount`, pid list per system call), `sys_call_table`, two spinlocks | `my_syscall` (INTERCEPT, RELEASE, START, STOP), `interceptor`, `my_exit_group`, insertion, removal | any number of processes, on several processors, at once |
| page table and coremap | entries with flags and swap offset; per frame the page it holds | `find_physpage`, `allocate_frame`, `init_frame` | calls the algorithm (`ref_fcn`, `evict_fcn`) and the swap file |
| swap file | bitmap of slots, slot contents | `bitmap_*`, `swap_pageout`, `swap_pagein` | called by the page table; its writes can fail |
| algorithms | a frame index (fifo, clock), a linked list (lru), the trace and next-use times (opt), nothing (rand) | `*_init`, `*_ref`, `*_evict` | read the coremap, clock also PG_REF |
| replay | counters | `access_mem`, `replay_trace` | drives the page table |
| trace reduction | window, list to print, output | one line of input, its end | writes the traces the simulator reads |
| ext2 image | two bitmaps, free counts, inodes, directory blocks | `find_free_inode`, `find_free_block`, `create_link`, `allocate`, `remove_link`, `find_pre_pos`, `traverse` | mapped shared: what a tool has written stays if it crashes |
| ext2 tools | none beyond the image; `ext2_rm_bonus` a stack of calls | `main` of each, with its error returns; `copy`, `remove_r`, `ls_block` | one after the other on the same image |

What is hard in each of them:

* **kernel module**: everything runs concurrently; tests are made before a lock
  is taken, a lock is let go of and taken again inside a command, the two locks
  are taken in both orders, `interceptor` takes none, processes exit at any
  time, and the lists exist only after the hooks do. It is correct when the
  saved call is the original one, a list and its count agree, no pid is listed
  twice, exits leave no pid behind, and every call returns with no lock held.
* **paging core**: two functions keep two structures inverse to each other; a
  page out can find no slot, or fail after it claimed one. It is correct when a
  lookup returns the frame with the page's content, PG_DIRTY and PG_ONSWAP tell
  the truth, and no two pages share a slot.
* **algorithms**: each keeps an encoding (an index, a recursion, a heap list, a
  vector of times) of the policy that defines it. They are correct when the
  victim is the one the policy defines, for the references that were made.
* **ext2**: long sequences of tool runs split, merge and reuse directory
  entries, and inodes, blocks and room run out half-way; recursive removal goes
  on walking over blocks that its inner calls change, and finds entries by name
  wherever they are. The image is correct when entries tile their blocks,
  directories form a tree, counts agree with the bitmaps, no block or inode is
  given out twice, and recursive removal ends and takes the tree, no more.

The hazards, each at its line, are listed in `PROJECT.json`.

## 2. Modules

| module | models | how |
|---|---|---|
| `PageTable` | `pagetable.c`, `swap.c` (pageout), `access_mem`, `rand.c` | one trace line is one action: `Hit`, `MissFree`, `MissClean`, `MissDirty` |
| `DemandCache` | (abstract) | what any demand-paging simulator does: hit, fill, replace one page |
| `Fifo`, `FifoCache` | `fifo.c`; (abstract) a queue of pages | the index over the frames, against the queue |
| `Clock` | `clock.c` | the recursion of `clock_evict` as a recursive function, PG_REF |
| `Lru`, `LruCache` | `lru.c`; (abstract) pages by recency, and the page asked for | the nodes in a heap with `malloc`, `free` and what freed memory still holds |
| `Opt` | `opt.c` | the trace known in advance, next-use times one reference late, the phantom entry read past the end |
| `Simulator` | `main` and `algs[]` of `sim.c` | composes the core with one of the five algorithms |
| `SwapBitmap`, `SlotPool` | the bitmap of `swap.c`; (abstract) a pool of slots | words as sets of bits, the spare bits of the last word included |
| `Fastslim` | `fastslim.py` | one line of input is one action |
| `Interceptor` | `interceptor.c` | a step is a lock operation, or the accesses between two of them; accesses that another thread can come between are steps of their own |
| `Ext2Disk` | `helper.c`, `ext2.h` | a helper that changes the image is an operator from image to image |
| `Ext2` | `ext2_mkdir`, `ext2_ln`, `ext2_cp`, `ext2_rm`, `ext2_ls` | a run of a tool is one step, failures and crashes half-way included; `ls` is an operator of the image |
| `Ext2RmR` | `ext2_rm_bonus.c`, among the other tools | a step is a call of `remove_r`, a visit of one entry by a walk, or a return |
| `MC*` | | values and symmetry for TLC |
| `PageTable_proofs`, `SwapBitmap_proofs`, `Fastslim_proofs`, `Interceptor_proofs`, `Ext2_proofs` | | theorems about the module of that name |
| `InterceptorSafety_proofs` | | more about `Interceptor`, on top of `Interceptor_proofs` |
| `Lru_proofs`, `Simulator_proofs` | | lemmas about lru's list; theorems about `Simulator` and the algorithms in it |

Operators introduced by a comment *Mutated form* are never used by a
specification. Each states a plausible bug in the definition after it, and
TLC finds a property violated when it is put in that definition's place.

**Correspondence, where it is not word for word.**

* *PageTable.* The two levels of the table are one function from pages to
  entries. The frame's data is its version word and recorded address, which is
  what `init_frame` and `access_mem` write and check. `p->frame = frame <<
  PAGE_SHIFT` replaces the whole word, so all flags go (`Placed`). `PageOut`
  yields the set of outcomes of `swap_pageout`: no slot, success, failed seek,
  short write.
* *Interceptor.* A list is the number of its nodes for each pid; `pc` names the
  place in the code. `my_syscall`'s checks before the `switch` are one step
  (`Call`). `f` is null until INTERCEPT saves the original call in it, since
  `init_function` does not set it (`interceptor.c:593`); a process that calls
  through the null pointer dies. `NR` is NR_syscalls: `my_syscall` accepts it and the loops stop one
  short of it, as in the code.
* *Ext2.* A directory block is the sequence of entries a walk by `rec_len`
  meets, with their lengths. The helpers return 0 when nothing is free and the
  tools go on with it: block 0 is the boot block, which is in the image; inode
  0 is not in the table (`in + (inode - 1)` leaves the mapping), so a tool
  crashes there, after it has linked the entry (`Crash`). `i_blocks` is kept as
  the code does, 2 for a directory of one block and one per block for a file,
  because `ls_block` and `remove_r` use it as the number of blocks. Which
  blocks hold bytes of a file is in the image (`bytes`), the bytes are not.
  Numbers are scaled: 3 reserved inodes for 11, 2 direct blocks for 12, and
  blocks of 96 or 64 bytes for 1024; `Hidden` is the set of the names that
  start with a dot, which `ext2_ls` shows with `-a` only; the last bit of the block bitmap is
  padding, set by mkfs. `Readable` stops the model where a tool would interpret
  bytes that are not entries.
* *Ext2RmR.* `stack` holds the calls of `remove_r` that have not returned, each
  with its locals: `dir_file` and the position of the walk are places, a block
  and an offset in it, as the pointers in the code are. `known` is what `init`
  filled once at the start (`dirs`, `inum`). `gone` keeps what is left of an
  unlinked entry: an outer walk can stand on it. The copy of a name is not
  terminated, so the called name may be a longer one (`Longer`), which no entry
  has: `find_dir_entry` then returns a null pointer and the tool crashes.
  After the walk `remove_r` looks for the entry before the first one of the
  name and gives it the length of `dir_file` (`ext2_rm_bonus.c:100-104`). There
  are three cases (`Finish`). There is none, inner calls having taken it: nothing
  is merged, the bit and the link go, and the call returns. It is `dir_file`: its
  room is merged. It is another one: `dir_file`'s length is merged all the same,
  and the chain goes on behind as many entries as have that length together
  (`MergesOthers`). If none have, it goes on amid an entry or past the block
  (`LosesChain`): from there on bytes decide, as where the walk takes the bytes
  of a file for entries (`VisitBytes`). There the model stops with the status
  "bytes", in the middle of the call: the call does not return, and nothing is
  said of what it does next, which may be to walk for ever.
  `start` holds the flag and, for the properties, the image at the start.
  `First` is a list of tools that a behaviour starts with, cut off anywhere, so
  that short runs explore images that are long in the making.

## 3. What is checked

| run | shows | instance | states |
|---|---|---|---|
| `paging` | frames and entries stay inverse, contents match, PG_DIRTY and PG_ONSWAP tell the truth, slots are not shared, the statistics add up | 4 pages, 2 frames, 2 slots, 8 references of all kinds, any victim, pages symmetric | 75 800 |
| `simulator` | every algorithm makes the simulator a `DemandCache`; fifo implements a queue, lru a recency list of the pages asked for, clock gives second chances, finds the first unreferenced page and leaves the hand where the recursion puts it, opt evicts the page needed last but for the one referenced last | 5 pages, 4 frames, 7 references (6 for opt), pages symmetric | 135 700 |
| `swap_bitmap` | a slot in range is handed out once until it is given back; refused only when none is free | words of 3 bits, bitmaps of 0 to 7 bits | 1 800 |
| `fastslim` | no page twice in a row in the output; each line before the open window is covered | 3 pages, window of 2, 8 lines | 19 700 |
| `interceptor_one_admin` | monitoring of all pids ends only by STOP; every call returns, and removal ends unless a call is intercepted (both under fairness) | 2 processes, 1 administrator, all commands, 3 calls, removal at any time | 374 200 |
| `interceptor_two_admins` | locks released on every path, no pid twice, counts match lists, exits clean the lists, lists are changed under their lock but by `destroy_list`, insertion wipes out nothing; a hijacked call is marked and has the original saved | 2 processes, both administrators, one of them root, 2 calls each, insertion, removal at any time | 702 900 |
| `ext2_tree` | a tree of directories with links for their entries, entries that fit, no inode given out twice, `ls` shows what is there | mkdir and cp, 7 runs | 15 800 |
| `ext2_files` | entries tile their blocks, free counts agree, no shared block, only rm takes an entry away and only one it was told to | all tools, 5 runs | 9 900 |
| `ext2_rm_r` | when nothing else has the name of the path or of an entry below it: pointers of waiting calls stay good, what goes is the tree, and the recursion ends (under fairness) unless a block of a file is walked over | mkdir, cp, ln, rm and `rm -r`, 3 runs from a fresh image and after each of six tools (`MCFirst`) | 82 100 |

The last column counts distinct states; every run takes less than three minutes.

**Why the bounds are enough.** In each instance the case that matters happens:
memory fills and several evictions follow; the swap file fills, and writes
fail, before and after that; with four frames the clock meets mixtures of
referenced and unreferenced pages (with three it does not); the bitmap has a
full last word and one with bits to spare; a window is written several times.
Two processes are enough for every pair of conflicting accesses in the kernel
module, and two system calls for the row that the loops miss. In the ext2 runs
inodes, blocks and the room in a directory run out, entries are removed, and
their room is used again; in `ext2_tree` one of the names starts with a dot. For recursive removal the tools of `MCFirst` make directories
in directories and two directories of one inode, and the three runs after them merge the
room of other entries than the call's own, lose the chain of a block, and walk over
files. Three levels of names are
enough for a waiting call above a waiting call above a removal, with the same
name at two of the levels, hard links within and out of the tree, and an entry
whose room the walk has already passed or has yet to reach. A name of four
characters is where `round_up` adds a word.

`OuterCallsSound` is about runs in which nothing else in the image is called like
the path or like an entry below it. Without that condition it still holds for
three runs from a fresh image and fails from the fifth on: `cp c`, `rm c`, which clears the bit of
another inode, that of `/a`; `mkdir /c` gets this inode, so that `/a` and `/c`
are one directory; `mkdir /c/a`; then `rm -r /a` calls itself for `/c/a`, and
the inner call unlinks the first entry called `a`, which is the one that the
outer call holds.

**Deadlock** checking is off where the system may stop: at the end of the
trace or the input, after the bounded number of tool runs, when all processes
have exited.

**Fairness.** `FairSpec` asks that a thread inside the module goes on and that
a spinlock that stays free is taken (weak fairness on each thread's steps and
on `Lock`). A processor keeps executing its thread, and spinning threads are
not descheduled, so the code justifies that. It asks nothing of a process
outside: no call, exit or removal has to happen. Weak fairness lets a spinning
thread starve while others take the lock again and again, but the number of
calls is bounded by `MaxCalls`. `RmRSpec` asks that `ext2_rm_bonus`, once
started, takes its next step: it waits for nobody.

### Runs that find a disagreement

Three runs check what a comment of the code says and what the code violates.

| run | the comment | what the code does |
|---|---|---|
| `reload_swap` | `pagetable.c:144`: a page on swap is filled by reading it from swap | line 174 clears PG_ONSWAP before it is tested at 177: the frame is zeroed |
| `intercept_deadlock` | `interceptor.c:347`: unlock before you exit | two STARTs take the locks in opposite orders (445, 462) and never exit |
| `rm_inode` | `helper.c:158`: the bit says whether an inode is used | `remove_link` compares an index into the list of inodes and clears the bit of another inode |

### Known deviations

These configurations are to be run by hand (`tlc -config X.cfg M`, with
`-continue` where one of them has several properties); TLC finds each of the
properties violated. They record where the code differs from
its comments, and why the passing runs are restricted as they are.

| configuration | module | property | where | what happens |
|---|---|---|---|---|
| `ClockRefBit` | Clock | OnlyReferencedPagesMarked | `clock.c:49` | PG_REF is set for the page under the hand |
| `LruRepeat` | Lru | LastNodeExists | `lru.c:53` | a repeated reference to the newest page leaves a list with no end |
| `LruOneFrame` | Lru | ListSound | `lru.c:33` | with one frame the evicted node is the head, which is left pointing at freed memory |
| `OptNotMin` | Opt | Optimal | `opt.c:52` | the time of the page referenced last is old |
| `FastslimLoss` | Fastslim | RepeatsAreMarked | `fastslim.py:81` | a new object is marked, not the one in the window |
| `FastslimLoss` | Fastslim | AllPrinted | `fastslim.py:88` | the last window is not printed |
| `InterceptTwice` | MCInterceptor | SavedOriginal | `interceptor.c:402` | two INTERCEPTs of two root processes at once pass the test, and the second saves `interceptor` (line 63: f is the original call) |
| `InterceptStatus` | MCInterceptor | StatusExact | `interceptor.c:294` | a process inside `interceptor` marks a released call |
| `InterceptMonitored` | MCInterceptor | NotMonitoredIsEmpty | `interceptor.c:519` | STOP for one pid clears the flag for the others |
| `InterceptExit` | MCInterceptor | DeadNotMonitored | `interceptor.c:379` | a pid is added after its process has gone |
| `InterceptLists` | MCInterceptor | ListsSynchronized | `interceptor.c:536` | a list is destroyed while an exit walks it |
| `InterceptLate` | MCInterceptor | UnloadRestores | `interceptor.c:625` | removal waits for the lock it holds |
| `InterceptLate` | MCInterceptor | UnloadedIsGone | `interceptor.c:405` | an INTERCEPT that waited for the lock during removal hooks a call after it |
| `InterceptExit` | MCInterceptor | TableReady | `interceptor.c:587` | an exit meets lists that are not set up |
| `RmFile` | MCExt2 | RmSetsDtime | `helper.c:165` | returns before `i_dtime` is set |
| `RmFile` | MCExt2 | RmRemovesNamed | `helper.c:278` | the first entry of the name anywhere is unlinked |
| `MakeEntries` | MCExt2 | ErrorsMakeNothing | `ext2_mkdir.c:104`, `ext2_ln.c:164` | ENOENT although the directory or the link was made |
| `MakeEntries` | MCExt2 | MkdirExistsOnlyIfThere | `helper.c:316` | EEXIST for /a/a when there is only /a |
| `LnDirectory` | MCExt2 | LnRefusesDirectories | `ext2_ln.c:124` | a directory becomes a regular file |
| `MakeEntries` | MCExt2 | SymlinkNamesSource | `ext2_ln.c:139` | the symlink holds its own path |
| `LnOverlap` | MCExt2 | EntriesFit | `helper.c:183` | a symlink's entry is sized without its header |
| `LsMissing` | MCExt2 | LsRefusesMissing | `helper.c:316` | /a/a is listed as /a is, although it is not there |
| `RmRReturn` | MCExt2RmR | RmRErrorsRemoveNothing | `ext2_rm_bonus.c:111` | ENOENT although an empty directory was removed |

`ext2_cp` returns 0 also when there was no room for the entry
(`ext2_cp.c:138-156`): `Create` models it, and the inode stays marked.

## 4. What is proved

The theorems hold for every value of the constants that the `ASSUME`s allow:
any number of pages, frames, slots, processes, system calls, inodes, blocks,
lines and runs. What a theorem assumes beyond that is said with it.

**Paging core** (`PageTable_proofs`), from `PageTableAssumption` (at least one
frame; the default `-m 0` is excluded):

* `TypeCorrect`, `MappingCorrect` (FramesMatch), `LookupCorrect`
  (ContentMatches), `DirtyCorrect` (DirtyIffStored), `SlotsCorrect`
  (SlotsNotShared), `SwapCorrect` (OnSwapHasCopy);
* `StatisticsCorrect` (CountersAgree), `RandImplementsCache`
  (ImplementsCache).

None of the first six is inductive alone. That a lookup returns the right
content needs the two tables to be inverse; that a copy in swap is of the right
page needs slots not to be shared and the evicted frame to hold its page. The
invariant `IInv` is the conjunction of the six. A miss evicts and then loads:
the predicate `Ready` says what holds between the two (frame f belongs to
nobody), `MissFree`, `MissClean` and `MissDirty` each establish it, and one
lemma, `LoadPreserves`, gets from there to `IInv'`. `PageOutResult` states what
a page out may leave behind in each of its outcomes. `Served` is what any of
the references does to residency, whatever frame is chosen. It gives the
statistics, the step of `DemandCache` (whose size is the number of frames in
use, by a bijection), and is what the algorithms are later connected to.

**Swap bitmap** (`SwapBitmap_proofs`), for words of any width and any number of
slots: `BitmapImplementsPool` (ImplementsPool). `BitmapInv` says that the bits
past the last slot are 1, so the scan of whole words by `bitmap_alloc` never
finds one of them. The rest is arithmetic: slot, word and bit correspond one to
one.

**Algorithms** (`Simulator_proofs`, `Lru_proofs`), under each of the five, over
every trace and every outcome of the swap file:

* `SimInvariant`, `SimStatistics` (CountersAgree), `SimImplementsCache`
  (AllImplementCache): `SimInv` is `IInv` with what each algorithm needs of its
  own variables to name a frame at all (an index in range, a list that is not
  empty when memory is full, a table of times).
* `FifoIsQueue` (FifoEvictsOldest): `FifoOrder` says that memory fills from
  frame 0 while the index stays there, so the queue is read round the memory
  from the index.
* `ClockSecondChance` (ClockVictim): `Search` is a recursive function on hands
  and bits. It exists, and has a closed form: the hand passes `Passed(s)`
  referenced pages, clears their bits and stops; on the way back it moves once
  more for each of them, so it ends twice as far on, and one. As the provers have no
  induction over data, both facts are proved from a smallest number of passed
  pages for which they fail.
* `OptTableCorrect` (OptNextUseKnown), `OptVictimCorrect` (OptEvictsLatest):
  between two references the table is right for all frames but the one
  referenced last, and `opt_ref` repairs that one before it goes on.
* `LruListCorrect` (LruListSound), `LruIsLeastRecent` (LruEvictsLeastRecent)
  assume `NoRepeats`: two frames or more and no page twice in a row. The
  deviations `LruOneFrame` and `LruRepeat` show that the code needs both, and
  traces from `fastslim.py` meet the second. `Listed(l, n, sq, fs)` ties the
  heap to a sequence `sq` of n distinct nodes for the frames `fs`: the head, the
  links in both directions, and what has been freed. The abstract `LruCache` is
  told which page each line asks for (`asked` is the simulator's `cur`), so a hit
  that did not bring its page to the front would be no step of it. `Current` says that the
  frames are those in use and that the first one was referenced last. A push,
  an unlinking and an eviction each change `sq` and `fs` in the evident way.

**Trace reduction** (`Fastslim_proofs`), for every input and buffer size:
`ReducedTraceAlternates` (NoRepeatInRow), `NothingLost` (EveryLineCovered).
`Window` says that the list to be printed has one entry for each page of the
window, in the order of their times. `LinesCovered` adds which entry covers
which line, and how many distinct pages lie between.

**Kernel module** (`Interceptor_proofs`, `InterceptorSafety_proofs`), for any
processes, owners, administrators, commands and number of system calls,
insertion and removal included:

* `TypeCorrect`, `LocksReleased` (ReturnsUnlocked), `NoDuplicates`
  (NoDuplicatePid), `ListsAreGuarded` (ListsGuarded), `FillSafe`
  (FillLosesNothing), `ExitCleans` (ExitCleansLists), `AllPidsKept`
  (AllPidsMonitoringKept);
* for one root administrator and any others (`OneRoot`): `OriginalSaved`
  (SavedOriginal), `HijackedMarked` (HijackedIsMarked). INTERCEPT and RELEASE
  are root's; with two of root's processes the code violates SavedOriginal
  (`InterceptTwice`);
* when no command names all pids (`NoAllPids`): `CountsMatch`
  (CountMatchesList). With such a STOP, `destroy_list` comes between an exit's
  `list_del` and its `listcount--`, and the count goes wrong for good.

START lets go of `pidlist_lock` between its test for the pid and the insertion.
What protects the pid is the other lock: START keeps `calltable_lock`
throughout. So `IInv` is `TypeOK`, `NoDuplicatePid`, `LockInv` (which lock is
held at which place), `AddInv` (a pid that START is about to add is not listed)
and `ScanInv` (the rows that an exit works on). `LockInv` gives the mutual
exclusion of two STARTs, `AddInv` carries the result of the test over the gap.
The proof has one lemma per command; `QuietStep`, `LockStep`, `UnlockStep`,
`LookStep` and `TouchStep` deal once with the steps that change little.

Further invariants rest on it. `FillInv`: until the loader has initialised the
table, every row is empty and every thread is at a place before its first write
to one, since it would need a lock that the loader has. `CleanInv`: the rows
that an exit's loop has passed do not list the process; nobody puts it back, as
that takes the lock the exit has. `HookInv`: what INTERCEPT and RELEASE tested
before the lock still holds inside it if nobody else is root, and `f` is null only
where a call has not been hijacked,
whatever `interceptor` writes to the same flag. `CountInv`: count and list
differ by one exactly while an exit is between its two statements.

**ext2** (`Ext2_proofs`), for every sequence of runs of the tools, failures and
crashes half-way included. Assumed are the sizes that mkfs
needs (`Ext2DiskAssumption`: at least three blocks, two of them for an inode,
the reserved inodes, room for three entries in a block), the lengths of `.`,
`..` and `lost+found`, and that what mkfs writes is an image (`MkfsIsImage`).

* `CountersCorrect` (CountersAgree), `BlocksNotShared` (NoSharedBlock). The
  invariant `Sound` adds to them that the last bit of the block bitmap, the
  padding, is set, and that each block in use belongs to one place of one
  inode. The block that `find_free_block` returns is then new, or it is 0 and
  nothing is taken.
* `EntriesTileBlocks` (EntriesTile), and, if `ln -s` is not among the tools
  (`HardLinksOnly`), `EntriesCorrect` (EntriesFit). Without that restriction the
  code violates EntriesFit (`LnOverlap`): the entry of a symlink is sized
  without its header. The invariant `Fit` says that the entries of a block are
  proper, that the walk by `rec_len` ends at the end of the block, and that the
  first of them is a directory's own. The last part is what makes an unlinking
  safe: it adds the room of an entry to the one before it, and there is one
  before it since `ext2_rm` refuses directories.
* `EntriesAreKept` (EntriesKept): `Same`, `Added`, `Lacks` and `Gain` state what
  each helper does to the entries of a block, apart from their lengths. The
  lookups rest on `FoundSlot` (what is found is an entry of that name) and on
  `traverse` as a recursive function, which is shown to exist for every path.
* `NewInodesAreUnnamed` (NewInodesUnnamed), if the tools are mkdir and cp
  (`OnlyMakes`, as in the run `ext2_tree`): `Named` says that the bit of every
  inode that an entry names is set. Links name an inode that has a name, and
  `ext2_rm` clears the bit of another inode (`rm_inode`), so an inode in use is
  then given out again.

* `DirectoriesAreTree` (DirectoryTree), for the same tools and if no name of a
  path is `.` or `..` (`PlainNames`). The code needs the last condition:
  `traverse` stops at the first component that is called like the last one, so
  `mkdir /a/b/a/.` would put an entry `.` into `/a`. The invariant is `Treed`:
  an inode whose bit
  is not set is unused, and a directory has one block (`Plain`); the block of
  each directory that `init` finds starts with its `.` and with a `..` that
  names such a directory (`DotsFirst`); each but the root has entries in one
  directory block only, that of its `..` (`OneAbove`), and no more of them than
  links (`LinkEach`); the type in an entry agrees with the inode's mode
  (`Kinds`); other blocks that hold entries, as block 0 does when the blocks have
  run out, hold only dots (`DotsOutside`). A tool either
  adds a directory with both its entries, a file with one, or, when inodes or
  room run out, leaves a taken inode without a name. That nothing it takes is
  known to the tree yet is `Named` and `Sound`.
* `LsIsFaithful` (LsShowsDirectory), from that. For a path on which no earlier
  component is called like the last, `traverse` follows the path that `Leads`
  follows through the inodes' blocks: the block with the right `.` is the
  block of the inode, since blocks and `.` determine one another in `Treed`.
  The second block that `ls_block` visits holds no entries, or only dots.
* `RemovalKeepsCounters` (CountersAgree, NoSharedBlock), for `RmRSpec` and names
  that are not dots: recursive removal among runs of all the tools, in every
  state, also between two steps of a removal, when it finds another entry of a
  name or none, and when the chain of a block is lost.
* `RemovalKeepsEntries`, for the same: every step but one keeps the blocks tiled
  (EntriesTile) and, with `HardLinksOnly`, the entries apart (EntriesFit). The
  one is `ChainLost`: the end of a call that finds another entry of its name
  first, where no entries from that one on have the length of `dir_file`
  together. Merging the room of others that have it is shown to be so many
  unlinkings in a row (`SwallowedFit`).

  Both are about a removal up to the place where it takes the bytes of a file
  for entries. The invariant `RmRFit` says of `Sound` and `Fit` that they hold,
  `Fit` unless a chain was lost and the model stopped, that the calls are for
  names other than `.` and `..`, and that the blocks `init` found stay directory
  blocks. So what a call unlinks is never the first entry of a block, wherever
  `find_dir_entry` has found it.

**Only model-checked.**

* Liveness under fairness (`EveryCallReturns`, `UnloadCompletes`, `RmREnds`):
  out of the prover's reach.
* `OuterCallsSound` and `RmRRemovesTree`: they need the shape of the image and
  of the stack along the whole removal.
* The properties of the violation runs and of the deviations, which do not
  hold.

## 5. Not modelled

* The test programs of the module, the trace workloads and `readImage.c`: they
  change no state of the systems above, and what they print is no part of their
  behaviour. The workloads (`blocked.c`, `matmul.c` and others) are programs to
  be traced; the simulator sees their traces only, which the model chooses
  freely.
* Formatting, option parsing, logging; bytes of files and their sizes;
  addresses wider than the pages they stand for (`opt_init` reads 32 bits of
  them), and offsets in the swap file beyond an `int`. `copy` uses `strcpy` for
  a block of data, which may run past the block (`ext2_cp.c:49`): its effect
  depends on the bytes.
* What recursive removal does when it takes the bytes of a file for entries: the
  step is in the model (`VisitBytes`), what follows it is not. It need not end:
  where the bytes say a length of 0 within a block, the walk stays there. The
  same after a merge that leaves the chain amid an entry (`LosesChain`). That
  comes about when the entry that a call holds is not the first of its name any
  more: its length is then added to the room before another entry
  (`ext2_rm_bonus.c:103`). The run `ext2_rm_r` reaches all of these steps;
  `RmREnds` is for removals that walk over no file.
* The kernel's scheduler and memory: sleeping in `kmalloc` under a spinlock and
  unmapping of the module's code.
* Two ext2 tools on one image at once: nothing in the code provides for it.

## 6. Plan

Done: all components modelled and checked; proofs of every invariant and action
property of the paging core, the swap bitmap, the algorithms, the trace
reduction and the kernel module that a run checks, of those of the image as the
tools without recursion leave it, and of recursive removal as far as entries,
blocks and counters go.

Next: `OuterCallsSound`, from `RmRFit` with an order of the directories that
every entry respects, and from it `RmRRemovesTree`.
