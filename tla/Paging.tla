------------------------------- MODULE Paging -------------------------------
(***************************************************************************)
(* Demand paging: the memories of the processes on the physical pages and  *)
(* the swap space, with the interrupts of Kernel::int_handler that lead    *)
(* from one class to the other.  An access of a process is one step, and   *)
(* so is a round of the loop of the destructor of its memory.              *)
(***************************************************************************)
EXTENDS PageMemory, VirtMemory, FiniteSets

CONSTANTS
  Procs,       \* the processes that can be started
  NoProc,
  Blocks,      \* the numbers of frames the "mem" lines of the programs ask for
  CodePages,   \* the pages an instruction pointer gets to (1K of code each)
  BootAlgs,    \* the replacement algorithms the login dialogue offers
  Switches,    \* ... and those chalg does
  MaxFree,     \* bound: no exec while more pages are free, some of them twice
  MaxFiles,    \* bound: swap files registered
  MaxClock     \* bound: kernel ticks

ReplaceAlgs == {"FIFO", "LRU"}

ASSUME PagingAssumption ==
  /\ NoProc \notin Procs
  /\ Blocks \subseteq Nat
  /\ CodePages \subseteq VPages /\ 0 \in CodePages
  /\ BootAlgs \subseteq ReplaceAlgs /\ Switches \subseteq ReplaceAlgs
  /\ MaxFree \in Nat /\ MaxFiles \in Nat /\ MaxClock \in Nat

VARIABLES
  pm,         \* class PageMemoryModel
  live,       \* the processes that have a memory
  vm,         \* their VirtMemoryModel
  algo,       \* Scheduler::ralgo
  initAlgo,   \* the algorithm of the memory of init, which fork() copies
  clock,      \* Kernel::clock
  dying, at,  \* the memory that is being deleted, and its next page
  site        \* the step whose effect C++ leaves undefined, if one was made

vars == <<pm, live, vm, algo, initAlgo, clock, dying, at, site>>

NoMemory == Fresh("FIFO", 0)   \* in place of a memory that is not there

Calm == site = "none" /\ dying = NoProc

Undefined(where) ==
  /\ site' = where
  /\ UNCHANGED <<pm, live, vm, algo, initAlgo, clock, dying, at>>

-----------------------------------------------------------------------------
(* alloc_frame() for a page that came in: the oldest page may have to leave *)

Placed(k, v) == Framed(IF Full(k) THEN Replaced(k) ELSE k, v)

PlacedMemory(m, k) ==
  IF Full(k) THEN SwappedOut(m, k.page[Evicted(k)].addr) ELSE m

\* there is a page to evict, and it is in a physical page if it is swapped out
CanPlace(m, k) ==
  Full(k) => /\ Candidates(k) # {}
             /\ k.page[Evicted(k)].addr = NoPage => FreeBlocks(m) = {}

Page(p, v) == vm[p].page[v]

-----------------------------------------------------------------------------
(* Accesses of the running process *)

\* write_page() and access_page() of a page that is present
CanReach(p, v, write) == write \/ Page(p, v).addr # NoPage

Hit(p, v, write) ==
  /\ Calm /\ p \in live /\ Page(p, v).refed /\ Page(p, v).present
  /\ CanReach(p, v, write)
  /\ vm' = [vm EXCEPT ![p].page[v].tRef = clock]
  /\ UNCHANGED <<pm, live, algo, initAlgo, clock, dying, at, site>>

\* the first write to a page: PAGE_FAULT, whatever alloc_page() returns
Faulted(k, v) == Mapped(k, v, NextPage(pm), clock, TRUE)

FaultIn(p, k, v) ==
  /\ vm' = [vm EXCEPT ![p] = Placed(Faulted(k, v), v)]
  /\ pm' = PlacedMemory(Allocated(pm), Faulted(k, v))
  /\ UNCHANGED <<algo, initAlgo, clock, dying, at, site>>

CanFaultIn(k, v) == CanPlace(Allocated(pm), Faulted(k, v))

Fault(p, v) ==
  /\ Calm /\ p \in live /\ ~ Page(p, v).refed
  /\ CanFaultIn(vm[p], v)
  /\ FaultIn(p, vm[p], v)
  /\ UNCHANGED live

FaultUndefined(p, v) ==
  /\ Calm /\ p \in live /\ ~ Page(p, v).refed
  /\ ~ CanFaultIn(vm[p], v)
  /\ Undefined("replace")

\* a bug to be caught: a page read back is not in memory either
ReturnedAbsent(p, v, write) ==
  Mapped(vm[p], v, SwapInPage(pm, Page(p, v).addr), clock, FALSE)

\* a write makes the page present again; a read forgets to
Returned(p, v, write) ==
  Mapped(vm[p], v, SwapInPage(pm, Page(p, v).addr), clock, write)

\* the entry's page finds a free page to come back to
CanReturn(p, v) ==
  /\ Page(p, v).addr # NoPage
  /\ Swapped(pm, Page(p, v).addr) => pm.free # <<>>

CanSwapIn(p, v, write) ==
  CanReturn(p, v) /\ CanPlace(SwappedIn(pm, Page(p, v).addr), Returned(p, v, write))

SwapIn(p, v, write) ==
  /\ Calm /\ p \in live /\ Page(p, v).refed /\ ~ Page(p, v).present
  /\ CanSwapIn(p, v, write)
  /\ vm' = [vm EXCEPT ![p] = Placed(Returned(p, v, write), v)]
  /\ pm' = PlacedMemory(SwappedIn(pm, Page(p, v).addr), Returned(p, v, write))
  /\ UNCHANGED <<live, algo, initAlgo, clock, dying, at, site>>

SwapInUndefined(p, v, write) ==
  /\ Calm /\ p \in live /\ Page(p, v).refed /\ ~ Page(p, v).present
  /\ ~ CanSwapIn(p, v, write)
  /\ Undefined("swap_in")

\* access_page() of a page that PAGE_FAULT found no physical page for
HitUndefined(p, v) ==
  /\ Calm /\ p \in live /\ Page(p, v).refed /\ Page(p, v).present
  /\ ~ CanReach(p, v, FALSE)
  /\ Undefined("access")

\* run() writes to random pages, and reads where the instruction pointer is
Write(p, v) == Hit(p, v, TRUE) \/ Fault(p, v) \/ SwapIn(p, v, TRUE)
Read(p, v)  == v \in CodePages /\ (Hit(p, v, FALSE) \/ SwapIn(p, v, FALSE))

AccessUndefined(p, v) ==
  \/ FaultUndefined(p, v)
  \/ SwapInUndefined(p, v, TRUE)
  \/ v \in CodePages /\ HitUndefined(p, v)

-----------------------------------------------------------------------------
(* The life of a memory *)

\* fork(1), and load_prog() with its set_blocks(n) and load()
Load(p, n) ==
  /\ Calm /\ p \notin live /\ Len(pm.free) <= MaxFree
  /\ CanFaultIn(Fresh(initAlgo, n), 0)
  /\ FaultIn(p, Fresh(initAlgo, n), 0)
  /\ live' = live \cup {p}

LoadUndefined(p, n) ==
  /\ Calm /\ p \notin live /\ Len(pm.free) <= MaxFree
  /\ ~ CanFaultIn(Fresh(initAlgo, n), 0)
  /\ Undefined("replace")

\* release(): the memory is deleted page by page
Kill(p) ==
  /\ Calm /\ p \in live
  /\ dying' = p /\ at' = 0
  /\ UNCHANGED <<pm, live, vm, algo, initAlgo, clock, site>>

AtPage == Page(dying, at)

Releasing == site = "none" /\ dying # NoProc /\ at < NVPages

GivenBack ==
  IF ~ AtPage.refed THEN pm
  ELSE IF AtPage.present THEN Freed(pm, AtPage.addr) ELSE Released(pm, AtPage.addr)

CanGiveBack ==
  AtPage.refed => IF AtPage.present THEN AtPage.addr # NoPage
                  ELSE AtPage.addr # NoPage /\ Swapped(pm, AtPage.addr)

Release ==
  /\ Releasing /\ CanGiveBack
  /\ pm' = GivenBack
  /\ at' = at + 1
  /\ UNCHANGED <<live, vm, algo, initAlgo, clock, dying, site>>

ReleaseUndefined ==
  /\ Releasing /\ ~ CanGiveBack
  /\ Undefined("release")

Gone ==
  /\ site = "none" /\ dying # NoProc /\ at = NVPages
  /\ live' = live \ {dying}
  /\ vm' = [vm EXCEPT ![dying] = NoMemory]
  /\ dying' = NoProc /\ at' = 0
  /\ UNCHANGED <<pm, algo, initAlgo, clock, site>>

-----------------------------------------------------------------------------
(* The user, and the clock *)

\* chalg(a): the memory of init is not told
Chalg(a) ==
  /\ Calm
  /\ algo' = a
  /\ vm' = [p \in Procs |-> IF p \in live THEN [vm[p] EXCEPT !.algo = a] ELSE vm[p]]
  /\ UNCHANGED <<pm, live, initAlgo, clock, dying, at, site>>

\* mkswap of a path, new or registered before, where a file is created or not
Mkswap(path, created) ==
  /\ Calm /\ Len(pm.files) < MaxFiles
  /\ pm' = Extended(pm, path, created)
  /\ UNCHANGED <<live, vm, algo, initAlgo, clock, dying, at, site>>

Tick ==
  /\ Calm /\ clock < MaxClock
  /\ clock' = clock + 1
  /\ UNCHANGED <<pm, live, vm, algo, initAlgo, dying, at, site>>

-----------------------------------------------------------------------------
Init ==
  /\ pm = NewMemory
  /\ live = {}
  /\ vm = [p \in Procs |-> NoMemory]
  /\ algo \in BootAlgs /\ initAlgo = algo
  /\ clock = 0
  /\ dying = NoProc /\ at = 0
  /\ site = "none"

Next ==
  \/ \E p \in Procs, v \in VPages : Write(p, v) \/ Read(p, v) \/ AccessUndefined(p, v)
  \/ \E p \in Procs, n \in Blocks : Load(p, n) \/ LoadUndefined(p, n)
  \/ \E p \in Procs : Kill(p)
  \/ Release \/ ReleaseUndefined \/ Gone
  \/ \E a \in Switches : Chalg(a)
  \/ \E path \in SwapPaths, created \in BOOLEAN : Mkswap(path, created)
  \/ Tick

Spec == Init /\ [][Next]_vars
=============================================================================
