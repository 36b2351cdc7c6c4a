# A specification of the operating system simulator

The program simulates a small operating system: a kernel thread that ticks every two
seconds, processes that run a toy instruction set, a choice of scheduling and page
replacement algorithms, devices, files with reader/writer locks, demand paging with swap
files, a disk in the file `disk.bin`, and a shell, a monitor window and an editor around
them. This directory holds TLA+ modules of its core, configurations that check them with
TLC, and proofs of theorems about them for TLAPS.

Line numbers in this text are those of the source, `process.cpp:352` being line 352 of
`src/src/process.cpp`.

## 1. Inventory

| Part | State it keeps | Operations | What makes it correct |
|---|---|---|---|
| Scheduler (`process.cpp:1-1094`) | `prlist`, the lists `ready`, `waiting`, `high_pr`, `mid_pr`, `low_pr`, `running`, `cur_tp`, `algo` | `fork`, `exec`, `kill`, `wake`, `schedule`, `chalg`, `set_pending` | a process is in exactly one place, the one its state word names; idle is never lost; each algorithm preempts when it says and serves in its order; programs end |
| Process interpreter (`process.cpp:1097-1318`) | program counter, workload, estimate, open files, last page | `run`, `release` | the estimate covers the work left; an instruction pointer stays in its program |
| Devices (`device.cpp`) | `occupied`, a queue of requests | `require`, `poll`, `pop` | every request is that of a waiting process, and every waiting process has one |
| File locks (`filesystem.cpp:354-461`) | the system file table: `rw`, `counter`, two lists of processes per file | `open`, `close`, `fread`, `fwrite`, `fpop` | a lock names its users; the counter counts the processes that opened the file |
| Kernel loop and interrupts (`kernel.cpp`) | clock, mode, devices | `run`, `int_handler`, `load_prog`, `new_device`, `del_device`, `pause` | a tick polls every device once, then schedules; parts call each other only through interrupts |
| Physical pages and swap (`memory.cpp:1-255`) | free list, page table, swap table, swap bitmap, swap files | `alloc_page`, `free_page`, `pg_swap_out`, `pg_swap_in`, `release_swap`, `new_swap` | no page is lost or given away twice; bitmap, table and file sizes agree |
| Virtual memory (`memory.cpp:257-566`) | page table, frames, `nmapped`, algorithm | `write_page`, `access_page`, `replace`, `alloc_frame`, `set_blocks`, `chalg`, constructor, destructor | a present page is in a frame; the oldest page leaves, never the program; no two pages share a physical page |
| Filesystem on disk (`filesystem.cpp`) | superblock, two bitmaps (in memory), inodes, directory blocks | `makefs`, `create`, `create_swapspace`, `fdelete`, `write`, `read`, `chmod` | no block in two files; the bitmaps and the counts agree with the inodes; every inode has one entry; `..` leads back; a file that may not be written stays |
| Paths (`filesystem.cpp:274-352`, `:1018-1067`) | `pwd` | `walk`, `set_pwd` | a path names the file its components lead to; `pwd` names a directory |
| Editor (`editor.cpp`) | rows, cursor, offsets, dirty count, search state | key handlers, open, save, find | the rows are the text that was typed; the cursor is inside it; nothing is lost silently |
| Shell, monitor, login (`shell.cpp`, `gui.cpp`, `OperatingSystem.cpp`) | the current line, the mode, the exit flag, the prompt, the window | commands, the threads and their end | the shell and the kernel agree on the mode; `exit` ends the program; otherwise they are the environment of the parts above |
| Log, terminal library, `3rdparty/` | | | not modelled |

How they interact. Everything below the shell is called through
`Kernel::int_handler(type, args)`, a synchronous callback: the scheduler asks a device or
the file table to queue a process, these call back `Scheduler::wake`; a virtual memory
asks for pages, the page memory asks the filesystem to write a block of a swap file. So an
operation of one part is nested in an operation of another, and most of the bugs this
design invites are states seen half-way: a process that is woken while it is being queued,
a page that is marked as absent before it is known whether it can be swapped out.

Two threads run: the kernel thread (`Kernel::run`) and the shell, which may open a third
for the monitor. They share all the state above with next to no locking. What is hard
here: the order of the steps of a tick, wake-ups of processes that were killed or never
waited, the switch of an algorithm between any two ticks, resources at their limit (pages,
frames, swap blocks, a char for an operand), failures whose result nobody looks at, and
the threads. `PROJECT.json` lists each hazard with its line and the properties that cover
it.

## 2. Modules

| Module | Models | Is used by |
|---|---|---|
| `Lists` | `std::list` and `std::vector` as sequences: `remove_if`, `erase` | `Devices`, `FileTable`, `Scheduler`, `VirtMemory` |
| `Devices` | class `Device` as operators on a record | `Scheduler` |
| `FileTable` | the lock part of class `Filesystem`, likewise | `Scheduler` |
| `Scheduler` | classes `Scheduler` and `Process`, the loop and the interrupts of `Kernel` | `SchedulerProperties` |
| `Lifecycle` | abstract: the life cycle of a process, with one processor | refined by `Scheduler` |
| `SchedulerProperties` | what should be true of `Scheduler` | `MCScheduler`, the proofs |
| `PageMemory` | class `PageMemoryModel` and the two swap operations of the filesystem, as operators on a record | `Paging` |
| `VirtMemory` | class `VirtMemoryModel`, likewise | `Paging` |
| `Paging` | the memories of the processes on the pages and the swap space, with the interrupts between the two classes | `PagingProperties` |
| `Residency` | abstract: which pages of a process are resident | refined by `Paging` |
| `PagingProperties` | what should be true of `Paging` | `MCPaging`, the proofs |
| `DiskFs` | class `Filesystem` and namespace `FS`: the disk, its bitmaps and directories | `DiskFsProperties` |
| `DiskFsProperties` | what should be true of `DiskFs` | `MCDiskFs`, the proofs |
| `Rows` | the rows of the editor: how they are drawn and coloured | `Editor` |
| `FileData` | the bytes of one file as `write()` and `read()` treat them | `Editor` |
| `Editor` | the editor, one action for each key | `EditorProperties` |
| `TextBuffer` | abstract: a text with a point in it, its file and the warnings | refined by `Editor` |
| `EditorProperties` | what should be true of `Editor` | `MCEditor`, the proofs |
| `Paths` | what `walk()` and `set_pwd_str()` make of a path | `Shell` |
| `Shell` | the threads: the shell, the kernel's loop, `main()`, the windows | `ShellProperties` |
| `ShellProperties` | what should be true of `Shell` | `MCShell`, the proofs |
| `MCScheduler`, `MCPaging`, `MCDiskFs`, `MCEditor`, `MCShell` | small programs, texts, trees and lines, symmetry and bounds for TLC | the `.cfg` files |
| `ListLemmas`, `SchedulerLemmas`, `SchedulerProofs` | lemmas and proofs about `Scheduler` | |
| `PagingProofs`, `AccountProofs` | lemmas and proofs about `Paging`, the second on the first | |
| `DiskFsProofs` | lemmas and proofs about `DiskFs` | |
| `EditorProofs` | lemmas and proofs about `Editor` | |
| `ShellProofs` | lemmas and proofs about `Paths` and `Shell` | |

Definitions keep the names of the source where that is possible, and say which method they
stand for. Some definitions come twice, one of them after a comment "a bug to be
caught": it is what a plausible mistake in the code would make of the other, and
`PROJECT.json` says which property finds it.

### Scheduler

A tick of the kernel thread is a walk of `pc`:

    sleep -> poll (a step for each device) -> schedule (choice of the process)
          -> run (one step of the process) -> [wake (a step for each FILE_WAKE)] -> sleep

`schedule()` calls itself when the process blocks or ends, so `run` may lead back to
`schedule`. The choice is a set of actions for each algorithm (`Fcfs...`, `Sjf...`,
`Rr...`, `Pr...`, `MqNothing`), one per branch of the code; what follows the choice is the
same text four times in the source and appears once here (`RunBurst`, `RunCal`,
`RunDevice`, `RunFile`, `RunExit`, ...), with `UseQuantum` for the one line that differs.
The idle process is 0, `init` is 1 and is never queued.

The shell acts when `pc = "sleep"`: the thread sleeps for two seconds and computes for
microseconds. What two threads do to each other inside a tick is outside this model.

An instruction is a record of its operation, its operand and its file. `Stored` is the
conversion of an operand to a signed char, `% WordSize` the 32-bit counter it ends in, and
`Cost` what it adds to the estimate *before* the conversion. A file the process may not
open, and one that is not there, is `Missing`: it has number -1, is granted at once, and
takes no lock.

A step whose effect C++ leaves undefined (a read of the front of an empty list, of a
deleted process, past the end of the devices, ...) leads to `pc = "undefined"`, a state
with no successor, and `site` says which. Where a run claims `NeverUndefined` no such step
can be reached; elsewhere what holds, holds until then, and the cfg says `CHECK_DEADLOCK
FALSE`.

### Paging

An access to a page is one action, and so is one round of the loop in the destructor of a
memory, since the lists it walks are visible to the monitor in between. `Hit`, `Fault` and
`SwapIn` are the three branches of `write_page()`; `access_page()` has two of them, with
the difference that it does not set `present`. What a page that comes in entails is not
separate: `Placed` and `PlacedMemory` are `alloc_frame()` with the `replace()` and the
`pg_swap_out()` inside it. Each of the actions has a companion (`...Undefined`) for the
states in which the code would use an index of -1; it sets `site` and ends the behaviour.

`mkswap` first registers a path, which adds the blocks of a swap file to the bitmap, and
then makes the file, whether or not it can (`shell.cpp:486`). So `pm.files` is the sequence
of the registered paths, and `pm.size` the size on disk of the file that each path leads to,
or `NoFile`. A path may be registered again: `create_swapspace()` looks for an existing file
under a name with two slashes in it (`filesystem.cpp:484`, `:500`), which is never found,
and so it enters a second file under the name, which no `walk()` comes to. Both
registrations then stand for the same blocks of the first one, with one size for both. It is
counted up and down as an unsigned number (`CountedUp`, `CountedDown`). Which paths lead to
a file is left open (`created`): below the root those of `mkswap` do, at the root they do
not. Not modelled are a path that leads to a file made before, with fewer blocks than a swap
file, and the other operations on a swap file (`rm`, a write, the truncation on `open`).
Sizes are in blocks. Page contents are left out; the identity of a page is where its table
entry says it is.

### Filesystem on disk

`fs` is the disk with the bitmaps and counts that are in memory while the system runs,
`saved` is what of these is on disk: inodes and directory blocks are written at once, the
rest by the destructor (`filesystem.cpp:261`). `Restart` is an orderly end and a new start,
`Crash` a start from `saved`. `makefs()` prepares an inode for the root and writes it to the
block before the one that `read_inode()` and `write_inode()` take it from
(`filesystem.cpp:159`, `:60`, `:70`): so `NewDisk` has an inode 0 like one that was never
written, without mode and with size 0, and its first address, 0, happens to be that of the
root's block. Nothing but the root's place makes it a directory (`Dirs`), and its size stays
two less than its entries (`Uncounted`). `Walk(path)` is `walk()` with all it hands back,
not only its result: a caller goes on with the inode and the directory that were read last,
also when the path led nowhere, and much of what goes wrong here comes of that. A block is
kept as the eight slots a directory would read in it; a file's bytes are `Junk` there. Paths
are sequences of names from the root; the working directory is `/`. Paths with dots in them
are left out, also those that would make a difference: `touch a/../x` enters the file among
what `walk()` read last, the entries of `a`, and writes them over those of the root. The
files are the user's own, which `fdelete()`, `write()` and `chmod()` ask before they ask for
an administrator (`filesystem.cpp:706`, `:817`, `:893`); so is the swap file here, whose
owner the code never sets.

The code has several steps after which the structures of the disk no longer agree, in
ordinary use, and all but one of them make some property false. They are therefore *marked*
when they are taken, in the ghost variable `past`, and a property says which marks it
excepts: the file made under a path that leads nowhere (`astray`) or twice under one name
(`twice`), the full directory (`full`), the bitmap that has no bit left (`exhausted`), the
directory made in a block with a file's bytes (`reused`), the directory deleted below the
first level (`nested`), the file that is given a further block (`grown`), and the crash
(`crash`). That the properties hold for every other sequence of calls is what the run shows
within its bounds, and the theorems without them. A mark is excepted because TLC violates a
property after it; `twice` is excepted nowhere. The start of the kernel, which makes
`/.swap` if there is none, is a `create_swapspace()` like any other and leaves the same
marks (`BootMarks`): its root may be full as well. The steps C++ leaves undefined set `site`
and end the behaviour: a path through a file, of whose inode and directory `walk()` has
disposed and its caller disposes again (`walk`); a swap file that is to be made under a
file, or without blocks enough that are free in the bitmap (`swap`); a deletion that looks
for dots that are not there (`dots`), or gives back a number the bitmaps have no entry for
(`map`).

### Editor

The editor is one loop: a key is read, its handler changes the rows, the cursor and what
goes with them, and the screen is drawn again, where `editorScroll()` moves the first row
that is shown. Each key is therefore one action that ends in `KeyDone`. A search is a loop
of its own inside a handler, and other keys mean other things there; it is the mode
`"find"`, and `find` holds its local and static variables. The cursor counts rows and
columns from 0 as the code does, the sequences from 1.

The state is what `editorConfig E` keeps: `text` are the characters of its rows, `look`
their colours (`hl`, `hl_open_comment`), which are kept up to date row by row and are
never computed as a whole, `rowoff`, `dirty` and the static `quit_times`. The steps inside
a handler are kept in the order of the code where they read each other's results: a new
row is coloured before `numrows` counts it, so that the row below is not; two rows are
joined by changing the upper one and then taking out the lower one.

`FileData` is what the bytes of a file are after `write()`: the first block again in every
block, and no more blocks than the division of integers gives (`filesystem.cpp:841`). It is
refused when the disk has fewer blocks free than that (`filesystem.cpp:842`); how many are
free, other files decide, and `Save` takes any number. In `edit_text` a text fits in one
block and is kept as it is, in `edit_save` it does not.

### Paths and threads

A path is a sequence of parts and whether a slash begins it, since that is what the code
looks at. `Walk` and `SetPwdStr` are separate translations of two functions that each treat
the beginning of a relative path in their own way. A look-up keeps two things: the directory
whose entries are searched (`Among`), and what the last part finds there (`Beneath`). They
differ where `..` leads to the root: its inode has no mode (see above), so that `walk()`
does not read its entries and searches those of the directory it is in
(`filesystem.cpp:336`, `Enter`). For the same reason `exist()` does not take the root for a
directory, and `cd /`, or `cd a/..` at the root, is refused as an invalid one (`CheckCd`);
`cd ..` is not asked. `Shell` checks the path with the first (`CheckCd`) and sets the
working directory with the second (`SetCd`), as separate steps, since a window of the
monitor may set it in between.

The threads of `Shell` are `spc`, `kpc`, `deleted` for `main()` and the number of windows,
which are detached. A command is one step, as is a turn of the kernel's loop; what happens
inside a tick is the business of `Scheduler`. The words two threads share, `mode` and
`exit_kernel`, are plain, so that their use is a data race; the model reads them again in
every turn of the loop, as the build at hand does.

## 3. Runs

Every run of the list is exhaustive for its constants. "Bounds" are the constants that
exist only to make it so.

| Run | Question | Result |
|---|---|---|
| `sched_core` | three processes, devices, FCFS, RR and PRIORITY with switches between them | each process in its place, one idle, FCFS never stalls, no undefined step, requests and waiters match, no preemption, no overtaking, `Lifecycle` implemented |
| `sched_open` | FCFS and SJF with switches between them, readers, writers and a missing file, kills, unmounting, programs that do not load, operands over a char, a stale command | the inductive invariant, the shortest runs, the counter counts opens, a taken lock has an owner |
| `sched_live` | devices and readers under any algorithm, and a switch to MIXED_QUEUE | the list of a file is the set of its readers, estimates cover the work; every program ends under FCFS and RR, every wait ends under all |
| `paging_room` | two processes, a spare page, swap for all | pages are private and conserved, swap entries and use counts are exact, no undefined step |
| `paging_tight` | too few pages, too little swap, swap files that fail or share a path | bitmap, sizes and frames agree, `Residency` implemented |
| `paging_one` | one process that runs past the page of its program, time, the algorithm switched | the inductive invariant, the oldest page leaves |
| `disk_fs` | two names, two levels, four inodes beside the root's, one restart | entries, blocks, bitmaps, counts and the tree agree and a file without the right to write is kept, but for the marked steps |
| `edit_text` | four rows, tabs and comments, every key, searches of two characters | the cursor stays in the text, colours follow what is typed but for three rows, a search stands where its match is, `TextBuffer` implemented |
| `shell` | four threads, five directories, paths of up to three parts, lines of up to two commands | modes agree, a `cd` leads where its path leads unless that goes on from the root by `..`, `exit` ends the program |
| `sched_free` | "free" (`filesystem.cpp:368`) | **violated**: a woken process uses a free lock |
| `paging_loss` | "in frame, in memory" (`memory.cpp:303`) | **violated** when swap runs out |
| `edit_save` | "bytes written to disk" (`editor.cpp:428`) | **violated** by a text of two blocks |

Two more comments of the code are not true of it and have no run. "not in frame"
(`memory.cpp:314`): `access_page()` brings a page back and does not set `present`, so the
page of the program is in a frame, and fetched again, whenever it was swapped out once.
"swapspace full." (`filesystem.cpp:926`): `release_swap()` frees the entries of a process
and leaves the size of the swap file as it is.

### Bounds, and why they are enough

- `MaxPid` is 3 or 4: two or three user processes at a time, and any number one after
  another, since numbers are reused. Three are needed to tell overtaking from a swap, two
  for every other interaction (a reader and a writer, the killed and the woken).
- `MaxList` bounds the lists an `exec` may find. Without kills and SJF they are short by
  themselves; under SJF idle is pushed at each preemption and after kills the dead stay in
  the lists of a file, and both would grow for ever. 2 in `sched_open` is the smallest
  list that has an order.
- `MaxDevices` is 2 or 3: printer and keyboard are used, the disk never is, one may be
  unmounted or mounted again.
- `WordSize` 8 or 16, `CharHalf` 4, in place of 2^32 and 2^7: an operand of 4 is the
  first that does not fit, and the programs that use it wrap around within a few ticks.
- `MaxEst` stands for `INT_MAX`, above every estimate.
- `Quantum` is 2, enough for a quantum that ends in the middle of an instruction.
- `NPages`, `PerFile`, `NVPages`, `Blocks`: 3 to 5 pages, files of 1 or 2 blocks, 3 or 4
  virtual pages, 0 to 3 frames, in place of 16, 15, 32 and the program's choice. A process
  with `n` frames and more than `n` pages in use replaces; with two processes and
  `NPages` between them each of the resources can be the one that runs out.
- `MaxFree` stops new processes once freed pages have been put in the free list twice;
  `MaxFiles` bounds `mkswap`: with 3 in `paging_tight`, the one at the start, one more path
  and either of them again. `SwapPaths` has the path of the start and another. `SizeWord` is
  where a size wraps, 2^64 bytes in the code: a little more than `PerFile`. `MaxClock`
  bounds the kernel's clock. The clock matters only for the age of pages, and in
  `paging_one` it runs.
- `CodePages` are the pages instructions are fetched from. A program is loaded into page
  0, and one without a `ret` runs on into page 1: `paging_one` has both, and with them the
  read of a page that was swapped out, which breaks `Residency` and the properties of
  `paging_room`. The other runs have page 0 only.
- `disk_fs`: `MapSize` 5 stands for 1024, `NData` 6 for 8192, so that the bitmaps run out
  before the counts; `NSlots` 4 for 8, so that a directory is full with two files; a size
  of 3 units fills part of a block of `PerBlock` 4, one of 7 needs another (`MaxBlks` 2 for
  15); swap files have one block (`SwapBlks`). `MaxDepth` 2 is a file in a directory.
  `MaxDrift` 0: nothing is counted as free twice. `MaxOpens` 1 is one entry in the file
  table; a second one only empties a second file. `MaxMarks` 2 and `MCFollowed` are about
  the marked steps: a behaviour goes on after the first of them, unless it is one of
  `Upsetting`, and ends with the second. The state such a step leads to is still checked;
  the properties except what is in `Upsetting` in any case. `Modes` is
  `{{"r"}}`, so that a swap file cannot be deleted and no start finds it gone, and with one
  block it has no order of blocks: both are left to the theorems, which have any modes
  and swap files of any size.
- `edit_text`: a screen of two rows (`ScreenRows`) leaves rows above and below it; four rows
  (`MaxRows`) are two below one that is split, which the third exception of
  `ColoursFollow` needs; three characters
  (`MaxChars`) of `/` and `*` are a comment that is opened, closed or neither, in one row
  or over several; the text it starts from has a tab (`TabStop` 2), so that columns and
  characters differ. `MaxSearched` and `MaxQuery` 2 keep searches to texts in which one or
  both characters match; `MaxFile` 1 bounds what is saved, an empty line, since what was
  saved is opened again with a row more; what the theorem `BufferImplemented` says of saves
  has no such bound. `QuitTimes` 1 for 3 is the least that warns.
- `edit_save`: `PerBlock` 2 for 1024, so that a text of four characters is two blocks.
- `shell`: `Tree` has a directory and one of the same name in it, beside another, so that
  a wrong turn is noticed; three parts hold all the orders of a `.`, a `..` and a name.
  `MaxParts` 3 bounds the working directory, which `cd ./a/..` would lengthen for ever,
  and `MaxWindows` is 1 although each window would do the same.
- `disk_fs` uses symmetry of the names, `paging_room` that of the processes; names and
  processes are only ever compared, and neither run has a liveness property.

### Fairness

`Spec` of `Scheduler` assumes weak fairness of `KernelStep`, all the steps of the kernel
thread together: `Kernel::run` loops until exit, and nothing in a tick blocks. Nothing is
assumed of the shell, which may type a command at every chance it has or never. No
fairness is assumed for the choice among the steps: there is one step at a time except for
ties and commands. `ProgramsEnd` and `WaitersWake` follow from this alone.

`Shell` assumes weak fairness of the shell's thread, of the kernel's and of `main()`: they
are threads of a system that runs them, and their commands, ticks and joins come to an
end. It assumes nothing of the user: no line has to be typed, no Ctrl-X pressed, no window
closed. `ExitEnds` follows: the rest of the line is done, and a kernel that is paused looks
at the exit flag in each turn.

`Paging`, `DiskFs` and `Editor` have no liveness property: they are driven by the
scheduler and by the user.

### What the invariants say

`InItsPlace` is the core of the scheduler: a process is READY and once in a ready list,
or WAITING and in `waiting`, or RUNNING and `running`, or gone and nowhere, or READY
without a program and nowhere. The code keeps the two sides apart in every handler, and
the property holds for all of them, under all algorithms, kills and switches. `IdleOnce`
is its counterpart for idle, and fails under SJF, which is why a switch from SJF to
another algorithm is not in `sched_core`. `WaitersAreServed` and `RequestsAreWaiting`
tie the state words to the queues of the devices. Neither survives a kill, which pops
only one request and forgets the flag of the device.

For paging there are two kinds of state. As long as a page and a swap block can be found,
pages are private and conserved and every absent page has its entry (`paging_room`). When
they run out, the code goes on with page 0 or page -1, and only a smaller set of facts is
left (`paging_tight`): the bitmap and the table agree, the sizes of files whose path is
registered once cover the bitmap, the frames are counted, a present page is in a frame, and
the page of the program stays.

On disk every operation is a row of separate writes (bitmap, counts, inode, entry,
parent), and the properties tie the rows together across operations: `MarkedIsOwned` and
`CountsMatch` fail when one of them leaves out its part, `BlocksArePrivate` when a block
comes back too early, `TreeIsSound` when `create()` and `fdelete()` disagree about a
directory. `ReadOnlyIsKept` is about what one file's operations do to another file.
Not a property, since it is false without any mark: that a file's size fits in its blocks.
A write that is longer than the file by less than a block adds none, the division under
`ceil()` being one of integers (`filesystem.cpp:841`), and a series of them outgrows it.

The editor's handlers index the row of the cursor without a check, and `CursorInText` is
what makes that right. Colours are the state that is easiest to leave behind:
`ColoursFollow` says that a step from a well coloured text leads to one, and names the three
exceptions the code has: the row below two that are joined (`editor.cpp:278`), the last
row when the one above it is split (`editor.cpp:266`, `:268`), and the row below one that
left a comment open and is split where its second part does not: the second part is put
below the whole row, scanned there, and compared with a row that was not scanned at all, so
that the change is not noticed (`editor.cpp:142`).
`ImplementsTextBuffer` is the whole of the editing: whatever rows are split and joined, a
key inserts or erases one character or moves the point, and changes are not left before
the user was warned. It also shows that each time a text is opened after it was saved it
has grown by an empty line, which is why `Load` of `TextBuffer` appends one.

`CdAgrees` compares two ways of reading a path. It excepts a path that comes to the root by
`..` and goes on (`CutOff`): from `/a/b`, `cd ../../b` is approved because of `/a/b` and
sets `/b`. It also excepts a working directory with a `..` in it, which `cd a/..` leaves
there and from which a later `cd` goes elsewhere than it looked; not one that is the empty
string, which `cd ../.` makes of `/a`. `ModesAgree` ties the two copies of the mode. What it
does not say: after Ctrl-X the mode is 0, of which there is no negative, so that a `pause`
does nothing although "Kernel paused" is printed (`shell.cpp:197`), and `set ps` in a paused
kernel starts it again.

## 4. Theorems

The theorems about `Scheduler` are for all values of the constants that satisfy
`SchedulerAssumption` and `WordSizeAssumption`: any set of programs, files, process numbers,
any quantum, word size and choice of algorithms. Those about `Paging` assume
`PageAssumption`, `VirtAssumption` and `PagingAssumption`: any number of pages, virtual
pages, blocks in a swap file, any processes and algorithms. Those about `Editor` assume
`BlockAssumption`, `TabAssumption`, `ScreenAssumption`, `QuitAssumption` and
`TextAssumption`: any characters, texts, modes of a file, sizes of a block, a tab and a
screen of one row or more. Two of them are about saves that fit in one block and say so
(`SavesFit`). Those about `DiskFs` assume `DiskAssumption`: bitmaps of any size, and
directories, swap files and files of any length, with no more blocks or entries than the
numbers of the code allow; any names but `.` and `..`, which no file is given by the model;
any modes and any nesting of paths. Those about `Shell` assume `DirsAssumption` and
`ShellAssumption`: any tree of directories, any lines of commands and any paths.

| Theorem | Property | |
|---|---|---|
| `SchedulerProofs!Invariance` | `IInv` | the inductive invariant |
| `SchedulerProofs!TypeCorrect` | `TypeOK` | |
| `SchedulerProofs!PlacementHolds` | `Placement` | a process is where its state word says |
| `SchedulerProofs!NoPreemption` | `NonPreemptive` | only SJF takes the processor away, RR at the end of a quantum |
| `SchedulerProofs!LifecycleImplemented` | `ImplementsLifecycle` | each step is one of `Lifecycle`, or none |
| `SchedulerProofs!LockOwned` | `LockHasOwner` | a taken lock has a process in the list it names |
| `SchedulerProofs!CounterCounts` | `CounterIsOpens` | the counter of a file is the number of processes that have it open |
| `SchedulerProofs!ShortestFirst` | `ShortestRuns` | SJF runs a process with the least estimate |
| `SchedulerProofs!QueueOrder` | `NoOvertaking` | of two processes in the ready list the one ahead stays ahead; FCFS and RR choose it first |
| `SchedulerProofs!IdleIsOne` | `IdleOnce` | no SJF: idle runs, or is in the ready list once |
| `SchedulerProofs!FcfsKeepsGoing` | `FcfsNeverStalls` | no SJF: FCFS finds an empty list only when idle runs |
| `SchedulerProofs!RequestsMatch` | `RequestsAreWaiting` | no writers, no kills: a request is that of a process that waits, which has no other |
| `SchedulerProofs!WaitersMatch` | `WaitersAreServed` | no writers, no kills: a process that waits has a request on a device that is polled |
| `SchedulerProofs!AlwaysDefined` | `NeverUndefined` | no writers, no missing file, no kills, no unmounting, no SJF: no step is undefined in C++ |
| `SchedulerProofs!ReadersListed` | `ReadersAreReading` | no writers, no reads of one tick, no kills: the list of a file is the set of those that read it now |
| `SchedulerProofs!EstimateHolds` | `EstimateCoversWork` | no writers, no kills, operands that fit the char: the estimate covers the work left |
| `PagingProofs!PagingInvariance` | `IInv` | the inductive invariant |
| `PagingProofs!BitmapInvariance` | `BitmapIsTable` | the swap bitmap is the set of blocks of the swap table |
| `PagingProofs!SizeInvariance` | `SizeCoversUse` | the size of a swap file whose path is registered once covers its blocks in use |
| `PagingProofs!FrameInvariance` | `PresentIsInFrame` | a present page is in a frame |
| `PagingProofs!OldestIsReplaced` | `ReplacesOldest` | the page that leaves is no younger than one that stays |
| `PagingProofs!ResidencyImplemented` | `ImplementsResidency` | for `CodePages = {0}`: each step is one of `Residency`, or none |
| `AccountProofs!NothingUndefined` | `NeverUndefined` | two frames each, and room for all: no step is undefined in C++ |
| `AccountProofs!PagesStayPrivate` | `PagesArePrivate` | the same: no two pages are in one physical page |
| `AccountProofs!PagesStayConserved` | `PagesAreConserved` | the same: a physical page is free, once, or holds a page |
| `AccountProofs!SwapStaysAccounted` | `SwapIsAccounted` | the same: an entry for each page that is not in memory |
| `AccountProofs!AlwaysRoom` | | pages and blocks enough by their numbers: there is always room for all |
| `AccountProofs!EnoughMemoryIsSafe` | all four | the four properties, from the sizes alone |
| `DiskFsProofs!EntriesStayOne` | `OneEntryEach` | every inode in use has one entry, and every entry an inode in use |
| `DiskFsProofs!BlocksStayPrivate` | `BlocksArePrivate` | no block is in two files or directories |
| `DiskFsProofs!MarksStayOwned` | `MarkedIsOwned` | a block is marked as long as a file or directory has it |
| `DiskFsProofs!CountsStayRight` | `CountsMatch` | the free counts are those of the bitmaps |
| `DiskFsProofs!TreeStaysSound` | `TreeIsSound` | sizes and `..` of directories are right, the root's size being two less than its entries |
| `DiskFsProofs!ReadOnlyStays` | `ReadOnlyIsKept` | what may not be written stays as it is |
| `EditorProofs!CursorStays` | `CursorInText` | the cursor and the place a search goes back to are in the text, and the cursor is on the screen |
| `EditorProofs!BufferImplemented` | `ImplementsTextBuffer` | saves fit in one block: each step is one of `TextBuffer`, or none |
| `EditorProofs!UnmodifiedStaysOnDisk` | `UnmodifiedIsOnDisk` | the same: what is shown as unmodified is on disk |
| `EditorProofs!MatchStays` | `FoundIsThere` | during a search the mark is the query, and the cursor is at it |
| `EditorProofs!ColoursStayRight` | `ColoursFollow` | a key leaves no row behind but the three that are named |
| `ShellProofs!ModesStayAgreed` | `ModesAgree` | the shell and the kernel have one mode, up to its sign |
| `ShellProofs!CdLeadsThere` | `CdAgrees` | for every tree, and every path that does not come to the root by `..` and go on: the new working directory is the one that was looked up |

### Scheduler

`Placement` and `TypeOK` are not inductive. `IInv` adds: idle is READY or
RUNNING, and `running = 0` exactly in the latter case (`IdleState`), without which a
dispatch could leave two processes RUNNING; a quantum is left when a process is about to
run under RR (`QuantumLeft`), without which `cur_tp` could be decremented below 0; the
poll counter is 0 outside of the polling (`PollEnds`), without which a device could be
unmounted under it; and a process with ticks left has fetched an instruction
(`BurstFetched`), without which the last instruction would be at index 0.
`SchedulerLemmas` proves what the shared effects do to a process's place (`Block`,
`WakeLists`, `Kill`, `Enqueue`, the dispatches) and has a lemma for each
action, and `SchedulerProofs` puts them together. `LifecycleImplemented` uses `IInv` and
the identity as its mapping. `LockOwned` has an invariant of its own, `LockHasOwner`
itself, since only `Accessed` and `Done` touch the lock and its list.

The last seven theorems of the scheduler in the table carry their conditions in their
statements, as `ASSUME`. The constants of the run that checks the property (`sched_core`, and
`sched_live` for the last two) satisfy them. Kills and SJF falsify the properties, as section 3
says, and so do writers.

`CounterCounts` follows one process at a time in or out of the set of those that have the
file open, and counts by the theorems on cardinalities: an exit or a kill takes one process
out of every such set and lowers every such counter. `QueueOrder` needs of `IInv` only that
a process is in the ready list once, and then not running: what is taken out is then the
first of the list, the one chosen or the one killed, and what is put in goes to the end.
`IdleIsOne` needs `IdleQueued` beside `IInv`: idle is in the ready list once if it does not
run and not at all if it does. SJF breaks this, since it makes idle run and leaves it in the
list; that the algorithm is never SJF is part of the invariant. `FcfsKeepsGoing` is a
consequence. `RequestsMatch` and `WaitersMatch` rest on `Matched`: requests and waiting
processes correspond one to one over all queues, and a device is occupied exactly while its
queue is not empty. A request that is added, one that is answered, a device that is mounted
and one that is taken away are a lemma each (`MatchedRequired`, `MatchedPolled`,
`MatchedMounted`, `MatchedUnmounted`), about any sequence of devices. `AlwaysDefined` joins
them (`Sound`): the front of a queue is read only where a queue is occupied, so not empty,
and is a process that waits, so not a deleted one; FCFS and RR make the front of the list
run only when that is not idle, because a running idle is not in the list; and printer and
keyboard, the first two devices, are there as long as nothing is unmounted.

These theorems allow files that are read (`OnlyReaders`): with no writer a lock is always
granted (`OpenToReaders`), so that only devices keep processes waiting and `fpop()` wakes
nobody (`Served`). A program that writes, or a `"cal"` whose stale command looks like an
access (`StaleCmd`), is ruled out, because one waiting writer is enough for a process to
wait without a request, and a process that waited goes on without the lock.

`ReadersListed` adds two things to `Served`: the list of a file is right in the present
state, and a process that waits has no work on the processor (`WaitersIdle`), so that it
uses no file when it comes back. Each step is then one that leaves every use of a file as it
was (`SameReaders`, `UseKept`), a burst that may be the last of a read (`BurstListed`) or
the first tick of a read (`AccessListed`). The theorem assumes `LongReads`: a read of one
tick is done in the tick that takes the lock, before the code that gives it back looks at
the work that is left, and stays in the list of the file for good. The same happens to a
read whose operand the char makes 1; the hypothesis is about the operand as it is stored.

`EstimateHolds` is about `Slack`: the estimate less the work on the processor and the cost
of the instructions to come. `Covered` says that it is never negative, and at least the time
of the request a process waits for, which is what makes the statement inductive: a request
takes an instruction out of the cost and adds its ticks to the slack (`DeviceCovered`), and
each tick of the device takes one of both (`PollCovered`). A burst takes one from the
estimate and one from the work (`RunKeepsCover`); the first tick of a read takes nothing from
the estimate, so that the estimate may be too high, never too low. That the cost of a program
is that of its first instruction and that of the rest is `CostStep`, by the least index at which
the two sums could differ. `PlainOperands` is needed because the operand goes through a
signed char and then into an unsigned counter (`PlainStored`): one above 127 becomes a number
of ticks that no estimate covers, and an operand of 0 makes `workload - 1` wrap.

`ListLemmas` proves about `Without`, `WithoutIndex`, `Append` and `Tail` what they do to
`Occurs`, `Once` and `Before`. `Without` is a recursive function, and the facts about it are
proved by the least index at which they could fail, in place of an induction.

### Paging

`IInv` of `PagingProperties` is `TypeOK`, `BitmapIsTable`, `SizeCoversUse`, `Listed`,
`FramesAreCounted`, `PresentIsInFrame` and `CodeStays`, and each needs others of them. That
a page that comes in finds an empty frame, or one to replace, needs the number of frames in
use to be `nmapped`; that a replaced page leaves no present page without a frame needs the
frame to hold what the table says is in it; that page 0 is never looked for in swap needs it
to be present from the start. It holds also in the states the code should not get into,
where a physical page is -1 or belongs to two processes. `SizeCoversUse` counts: a block
that is taken or given back changes the number of used blocks of its file by one, and of no
other file, and the lemmas about it are stated once for the cardinality of such a set. It is
claimed for the files whose path is registered once (`Alone`): a size that counts the blocks
of two is below the blocks in use of both, and wraps. A file is made only where a path was
registered (`Listed`), so the size of one registered anew is 0 and covers nothing in use.
`PagingProofs` has first the effects that the actions share (`pg_swap_out`, `alloc_frame`,
`release_swap` and what they do to each part of the invariant), then a lemma for each
action. `OldestIsReplaced` follows from the same invariant: a page that stays is in a frame
(`PresentIsInFrame`), so `replace()` looked at it (`OldestIsThere`).

`ResidencyImplemented` needs more: that the pages in the frames are exactly the present
ones and none is there twice (`Exact`). This is so only while no page but that of the
program is read, since a read does not mark what it brings in; so the theorem assumes
`CodePages = {0}`. Each step is then mapped by what it does to the set of resident pages:
nothing, one page more, one for another, none left.

`AccountProofs` has the four properties that need memory enough. Their invariant is
`AccountInv`: the above, `Exact`, and the account (`Balanced`) of three lists against each
other: the pages in memory have one physical page each and the free list has the others
exactly once; the pages not in memory have as many swap entries under each page number as
there are such pages with that number, and as many in all. The second part is what makes the
search by page number sound: the number of a swapped page may be given to another page that
is swapped out in its turn, so two entries have one number, and the one that is found may be
the other page's; but there is always one left for each. `PagesArePrivate` alone is not
inductive, nor with conservation: a page swapped in without an entry would be taken to be in
page 0. What a page that comes in, leaves, is entered or struck out does to the account is a
lemma about any sets and lists (`TakenBalanced`, `GivenBalanced`, `NotedBalanced`,
`StruckBalanced`), and each action composes them. Three conditions are stated: each process
has two frames or more, without which there is no page to evict (`replace()` passes over
page 0); instructions are read from the first page only; and there is room for all
(`RoomForAll`): a page is free, and there is a free block when a page that is written first
evicts another. The last is a hypothesis about the behaviour, `[]RoomForAll`, which
`AlwaysRoom` derives from the sizes alone (`Spacious`): more physical pages than the frames
of all processes, and a block for every page that can be swapped out. The pages in memory
are no more than the frames, because each is in one; the blocks in use are no more than the
pages that are not in memory, because each has one entry. `Spacious` is sufficient and not
necessary: `paging_room` has half the blocks it asks for, so that the last one is used, and
finds the four all the same.

### Filesystem on disk

One invariant carries the six theorems. None of the properties is inductive, because each
speaks of one structure and is kept by what the others say: a block is private as long as
the bitmap is right, the bitmap is right as long as `fdelete()` finds the inode that has the
block, and that depends on the entries and on `..`. `IInv` says that there is a *tree* for
the disk, `Sound(T, par, slot)`: a set `T` of inodes, and for each of them but the root the
one directory `par` and the one slot of it where its entry is; the root is in it by its
number, having no mode. In its terms: the blocks of the inodes of `T` are marked, and each
is one block of one of them (`Apart`); the first two slots of a directory are its dots, and
lead to itself and to `par`; the others are entries of inodes of `T`, each where `par` and
`slot` say (`Filing`); a directory's size counts its entries (`Sized`); and the free counts
are those of the bitmaps (`Counts`). `T` is not what the bitmap of the inodes says:
`create()` in a full directory keeps the inode and the block it took, which nobody has. So
that `T` is the bitmap, and the marked blocks those of `T` (`Whole`), is part of the
invariant until the mark `full` only, and that a directory has no bytes of a file in it
(`NoJunk`) until the mark `reused`.

What the invariant needs about blocks *outside* the tree is `Leftover`: no block but a
directory's reads as a directory with entries in it. `fdelete()` clears no block, and
`DirSlots` writes the first two slots of a new directory only, so a deleted directory hands
its slots to the next one; they are empty because only an empty one is deleted. A file's
bytes read as entries that name no inode and only take a slot. It is also why
`OneEntryEach` may look at all inodes that call themselves directories, also the stale one a
`create()` that gave up has marked again: what is found there is empty or in the tree.

A path is followed name by name (`WalkAfter`): what `walk()` hands back is in the tree, with the
directory its entry is in. Each operation then does one of three things to the tree: it adds an
inode that is fresh (`LinkedGood`), takes one out that has no entries (`UnlinkedGood`), or
leaves it as it is (`SameTreeGood`). That the handlers write what these need, although they
read the parent's block over the directory they began with and find the parent by the dots
in it, is `LinkedIs` and `UnlinkedIs`; a deletion below the first level, where the second
reading of the dots finds the grandparent, is the mark `nested`. The same lemmas say what a
step spares (`Spared`): the blocks of a file that may not be written are those of no other
inode (`Apart`), and `fdelete()`, `write()` and `chmod()` ask for the right first.

The proof found two statements that the run had not refuted. A start of the kernel could
make `/.swap` in a root without room and leave no mark; and `TreeIsSound` was
false of a deleted directory whose inode was marked again, and now speaks of the directories
that are found by a name.

### Editor

`CursorInText` is inductive, once it has the types and three facts that no key handler
states: the place a search began is in the text, without which ESC could leave the cursor
anywhere; the first row of the screen is not below the cursor, without which page up could
put the cursor below the text; and a search stands at a row of the text. The page keys are
arrow keys repeated `ScreenRows` times (`MovedTimes`), from a row that is in the text and
a column that need not be: each arrow snaps the column at its end, and `ScreenRows` is at
least 1, so there is a last one. A join of two rows puts the cursor at the end of the upper
one *before* it is lengthened, and the two steps are followed one after the other
(`DelCharKeeps`). What a file is split into is a sequence of rows whatever its bytes are
(`LinesType`). `Lines`, `Flat` and `MovedTimes` are recursive functions; what is needed of
them is proved by the least argument at which it could fail.

`BufferImplemented` maps the rows to the one text that would be written (`Flat`) and the
cursor to the number of characters before it (`PointOf`). Whatever a handler does to rows,
the text is that of the rows above, the row itself, a newline and the text of the rows below
(`RowParts`); a handler that changes a row, inserts one or takes one out changes one of
these parts (`RowChanges`, `RowInserted`, `Joins`), and the rest is that the pieces put
together again are the text with one character more or less (`InsertMaps`, `EraseMaps`). A
newline that is typed inside a row takes two steps of the code, the second part is inserted
and the first one cut, and their effects only add up to one character at the end; a delete
first goes right, over the end of a row if need be (`RightPasses`), and then erases. What is
read back is what was written and one newline more (`FlatLines`). Three hypotheses are
needed, `SavesFit`: a text that is saved fits in the first block, since a longer one is
written wrong (`edit_save`); files may be read and written, since a save that is refused is
taken for one that was done (`editor.cpp:426`); and the newline is no key that types a
character. That a file always has a block and keeps its rights is the invariant that goes
with them (`FileInv`). `UnmodifiedStaysOnDisk` follows from the refinement alone, without a
look at the editor: `TextBuffer` changes the text and marks it as changed in one step. It is
the property `edit_save` finds violated, so that run and theorem together say that the size
of the file is what it turns on.

For `ColoursFollow` and `FoundIsThere` the invariant is `LooksInv`: without the mark of a
search the looks fit the rows, one for each and a colour for each drawn character, and the
mark of a search is its query at the column the cursor was computed from. It does not say
that the colours are right, since the code does not keep them so. A scan takes some
characters in every turn and never more than there are (`TakenIn`), so that it ends with a
colour for each (`ScanType`); the columns of a row only grow, by one or up to a stop
(`Columns`), which is what makes the way from a column to a character and back lead to where
it began (`DrawnThere`). The mark is taken off by putting saved colours back
(`MarkTakenOff`), so that it matters that no row is changed while they are saved.
For the colours, the rows that a change scans again are followed from one to the next
(`IsRescanned`): where the scan stops what is open has not changed, and the rows below were
right for it (`RescannedRight`), also if they are one place further down: an empty row hands
on what was open above it (`EmptyRight`), the second part of a row that was split leaves
open what the whole row did unless the comment is closed between the two (`SplitRight`),
and of two rows that are joined only the one below is not looked at (`JoinRight`). The three
exceptions of `ColoursFollow` are the places where this argument fails.
`Scan` of a row is a function of the position whose values are functions of the state, and
`ScannedFrom` one of the row; both are shown to exist before anything is said of them.

### Paths and threads

`CdLeadsThere` is about two functions that go through the same path in two orders.
`Walk` takes at most the first dots of a path off the working directory and looks the rest
up, entry after entry; `SetPwdStr` takes off all the dots a path begins with, and looks
nothing up. The proof follows both: the place the look-up has reached after each of the
dots is what the string has become after it (`DotsFollow`), and is always a beginning of
the first directory (`UpBegins`); from there on both have the same parts, and two look-ups
that are at one place and go on alike end at one place (`TrailsMeet`). That no path is
cut off at the root is needed where `Walk` follows those dots; after the first directory
both look-ups would be cut off at one place. A look-up is a
recursive function; that it exists for every path is a lemma about iteration in general
(`ListLemmas!IteratesExists`). That the working directory has no dots is needed where a
beginning of it is taken for the place it leads to (`PlainTrail`); that it is not empty
is not. The invariant is that the line has a command where the
shell does one, a `cd` where it has checked one, and that the modes agree.

### Model-checked only

The liveness properties (`ProgramsEnd`, `WaitersWake`, and the one of the shell), which the
proof system does not reach. Every safety property, action property and refinement that a
passing run checks is stated by a theorem; where the code keeps it only for some programs
or users, under the hypotheses the table names, which the constants of the run satisfy.

## 5. Not modelled, and why

- What the two threads do to each other in the middle of a tick: the lists and tables they
  share are plain, so that any interleaving is undefined in C++, and what a model could say
  is that anything may happen.
- The window that outlives the kernel it points to (`shell.cpp:570`): likewise undefined
  from there on; `Shell` ends its `cd` with the kernel.
- `kill 0` and `kill 1`, which throw with nothing to throw and end the program, and
  numbers above 65535.
- `oom_killer()`: reached only when `load()` returns false, and `load()` has no return
  statement. It is taken to return true.
- Priorities: kept by the code, used only by the branch of MIXED_QUEUE that is commented
  out. The three priority lists are the one set `mixed`.
- The bytes in pages; `Page::locked`, never set, and `Page::refed`, never 1,
  with the branches for them; the counters of the monitor (CPU rate, page fault rate,
  turnaround).
- Programs that do not load in `Paging`: the process would be one without frames that is
  never run.
- Of the filesystem: reads other than the editor's, owners (that of a swap file is not even
  set), times, and a write from an offset, which nobody calls. In `DiskFs` paths begin at
  the root and have no dots, these being the subject of `Paths`, for directories only.
- Of swap files: what file operations do to them while they are in use, and `mkswap` of the
  name of a file that is none.
- Of the editor: the columns scrolled to the right (`coloff`), keywords and numbers, the
  carriage returns that are stripped, files that are not ".p" programs, which have no
  colours, the buffer of the file name that is one byte short (`editor.cpp:861`), and two
  editors at a time, which the shell does not allow.
- Of the shell: how a line is cut into words, and the parser of `chalg`, which does not
  advance (`shell.cpp:345`).
- What the monitor draws, the terminal, the log, vendored libraries: input and output.

## 6. State of the plan

1. `Scheduler` with devices and locks, its life cycle and its proofs: done.
2. `Paging` on `PageMemory` and `VirtMemory`, with `Residency`: modelled, checked and
   proved.
3. `DiskFs`: modelled, checked and proved. Left: the read operations and a second user.
4. `Paths` and the threads in `Shell`: modelled, checked and proved.
5. `Editor` as an implementation of `TextBuffer`: modelled, checked and proved, with its
   colours and its matches.
6. Left for the scheduler: its composition with `Paging`, whose accesses are now driven by
   any order of the processes.
