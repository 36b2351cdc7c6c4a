--------------------------- MODULE SchedulerLemmas ---------------------------
(***************************************************************************)
(* Lemmas about the parts of module Scheduler: the types its operators     *)
(* return, and what its shared effects (wake, block, kill, create,         *)
(* dispatch) do to the places of the processes; then that every action     *)
(* keeps the inductive invariant.                                          *)
(***************************************************************************)
EXTENDS SchedulerProperties, ListLemmas, TLAPS

-----------------------------------------------------------------------------
(* The components: devices, file table, estimates *)

\* The process numbers: idle is 0, the others follow, NoPid is none of them.
LEMMA PidFacts ==
  /\ UserPid \subseteq Pid /\ 0 \in Pid /\ 0 \notin UserPid
  /\ NoPid = -1 /\ NoPid \notin Pid
  /\ \A p \in UserPid : p \in Int /\ p > 0
  /\ \A x \in Pid : x \in UserPid \/ x = 0
  BY SchedulerAssumption DEF UserPid, Pid, NoPid

\* A counter that wraps around stays a word.
LEMMA ModWord == \A x \in Int : x % WordSize \in Word
  BY WordSizeAssumption DEF Word

\* require() keeps the type of a device (Device::require).
LEMMA RequireType ==
  ASSUME NEW d \in DeviceRecord, NEW t \in Int, NEW p \in UserPid
  PROVE  Require(d, t, p) \in DeviceRecord
<1>1. [time |-> t % WordSize, pid |-> p] \in [time : Word, pid : UserPid]
  BY ModWord
<1> QED BY <1>1 DEF Require, DeviceRecord

\* poll() keeps the type of a device, and serves a process (Device::poll).
LEMMA PolledType ==
  ASSUME NEW d \in DeviceRecord, d.queue # <<>>
  PROVE  /\ Polled(d) \in DeviceRecord
         /\ d.queue[1].pid \in UserPid
<1> DEFINE R == [time : Word, pid : UserPid]
<1>1. d.queue \in Seq(R) /\ d.occupied \in BOOLEAN BY DEF DeviceRecord
<1>2. d.queue[1] \in R /\ 1 \in 1..Len(d.queue)
  <2> HIDE DEF R
  <2> QED BY <1>1
<1>3. FrontLeft(d) \in Word
  <2>1. d.queue[1].time \in Int BY <1>2, WordSizeAssumption DEF Word
  <2> QED BY <2>1, ModWord DEF FrontLeft
<1>4. [d.queue[1] EXCEPT !.time = FrontLeft(d)] \in R BY <1>2, <1>3
<1>5. [d.queue EXCEPT ![1].time = FrontLeft(d)] \in Seq(R)
  <2>1. [d.queue EXCEPT ![1].time = FrontLeft(d)] = [d.queue EXCEPT ![1] = [d.queue[1] EXCEPT !.time = FrontLeft(d)]]
    BY <1>1, <1>2
  <2> QED BY <2>1, <1>1, <1>2, <1>4, ExceptSeq
<1>6. Tail(d.queue) \in Seq(R) BY <1>1
<1> QED BY <1>2, <1>5, <1>6 DEF Polled, DeviceRecord

\* pop() keeps the type of a device (Device::pop).
LEMMA PoppedType ==
  ASSUME NEW d \in DeviceRecord, NEW p
  PROVE  Popped(d, p) \in DeviceRecord
<1> DEFINE R == [time : Word, pid : UserPid]
<1>1. d.queue \in Seq(R) /\ d.occupied \in BOOLEAN BY DEF DeviceRecord
<1>2. CASE ~ Requested(d, p) BY <1>2 DEF Popped
<1>3. CASE Requested(d, p)
  <2> DEFINE T == {i \in 1..Len(d.queue) : d.queue[i].pid = p}
  <2>1. T \in SUBSET Nat /\ T # {} BY <1>3, <1>1 DEF Requested
  <2>2. PICK i \in T : \A k \in T : i <= k
    <3> HIDE DEF T
    <3> QED BY <2>1, LeastNat
  <2>3. /\ i \in 1..Len(d.queue) /\ d.queue[i].pid = p
        /\ \A j \in 1..(i - 1) : d.queue[j].pid # p
    BY <2>2, <1>1
  <2>4. FirstRequest(d, p) \in 1..Len(d.queue) BY <2>3 DEF FirstRequest
  <2>5. WithoutIndex(d.queue, FirstRequest(d, p)) \in Seq(R)
    BY <2>4, <1>1, WithoutIndexOccurs
  <2> QED BY <2>5, <1>1, <1>3 DEF Popped, DeviceRecord
<1> QED BY <1>2, <1>3

\* The operations on a file entry keep its type; fpop() wakes processes.
LEMMA FileTypes ==
  ASSUME NEW e \in FileRecord, NEW rw \in {Read, Write}, NEW p \in UserPid
  PROVE  /\ Opened(e) \in FileRecord
         /\ Closed(e) \in FileRecord
         /\ Accessed(e, rw, p) \in FileRecord
         /\ Done(e, rw, p) \in FileRecord
         /\ ToWake(e, rw) \in Seq(UserPid)
<1>1. /\ e.readers \in Seq(UserPid) /\ e.writers \in Seq(UserPid)
      /\ e.rw \in {Idle, Read, Write} /\ e.counter \in Int
  BY DEF FileRecord
<1>2. Opened(e) \in FileRecord /\ Closed(e) \in FileRecord
  BY <1>1 DEF Opened, Closed, FileRecord
<1>3. Accessed(e, rw, p) \in FileRecord
  <2> DEFINE lock == IF Grants(e, rw) THEN rw ELSE e.rw
  <2>1. lock \in {Idle, Read, Write} BY <1>1
  <2>2. Append(e.readers, p) \in Seq(UserPid) /\ Append(e.writers, p) \in Seq(UserPid) BY <1>1
  <2>3. Accessed(e, rw, p) = IF rw = Read THEN [e EXCEPT !.rw = lock, !.readers = Append(@, p)]
                   ELSE [e EXCEPT !.rw = lock, !.writers = Append(@, p)]
    BY DEF Accessed
  <2> HIDE DEF lock
  <2> QED BY <2>1, <2>2, <2>3, <1>1 DEF FileRecord
<1>4. Without(e.readers, p) \in Seq(UserPid) /\ Without(e.writers, p) \in Seq(UserPid)
  BY <1>1, WithoutOccurs
<1>5. Done(e, rw, p) \in FileRecord
  BY <1>1, <1>4 DEF Done, FileRecord
<1>6. ToWake(e, rw) \in Seq(UserPid)
  BY <1>1 DEF ToWake
<1> QED BY <1>2, <1>3, <1>5, <1>6

\* f is the function that CostFrom's recursion defines, up to n
Sums(c, from, f, n) ==
  f = [i \in 0..n |-> IF i = 0 THEN 0
                      ELSE f[i - 1] + (IF i < from THEN 0 ELSE Cost(c[i]))]

\* The recursion of CostFrom defines a function, whatever the bound.
LEMMA SumsExists ==
  ASSUME NEW c, NEW from \in Int, NEW n \in Nat
  PROVE  \E f : Sums(c, from, f, n)
<1> DEFINE T == {k \in Nat : ~ \E f : Sums(c, from, f, k)}
<1>1. SUFFICES ASSUME T # {} PROVE FALSE OBVIOUS
<1>2. PICK m \in T : \A k \in T : m <= k
  <2> HIDE DEF T
  <2>1. T \in SUBSET Nat BY DEF T
  <2> QED BY <2>1, <1>1, LeastNat
<1>3. m # 0
  <2>1. Sums(c, from, [i \in 0..0 |-> 0], 0) BY DEF Sums
  <2> QED BY <2>1
<1>4. m - 1 \in Nat /\ m - 1 \notin T BY <1>2, <1>3
<1>5. PICK g : Sums(c, from, g, m - 1) BY <1>4
<1> DEFINE h == [i \in 0..m |-> IF i = m THEN g[m - 1] + (IF m < from THEN 0 ELSE Cost(c[m]))
                                 ELSE g[i]]
           r == [i \in 0..m |-> IF i = 0 THEN 0
                                ELSE h[i - 1] + (IF i < from THEN 0 ELSE Cost(c[i]))]
<1>6. ASSUME NEW i \in 0..m PROVE h[i] = r[i]
  <2>1. CASE i = m
    <3>1. h[m - 1] = g[m - 1] BY <1>4
    <3>2. h[i] = g[m - 1] + (IF m < from THEN 0 ELSE Cost(c[m])) BY <2>1
    <3>3. r[i] = h[m - 1] + (IF m < from THEN 0 ELSE Cost(c[m])) BY <2>1, <1>3
    <3> QED BY <3>1, <3>2, <3>3
  <2>2. CASE i # m
    <3>1. h[i] = g[i] BY <2>2
    <3>2. i \in 0..(m - 1) BY <2>2, <1>4
    <3>3. g[i] = IF i = 0 THEN 0 ELSE g[i - 1] + (IF i < from THEN 0 ELSE Cost(c[i]))
      BY <3>2, <1>5 DEF Sums
    <3>4. i # 0 => h[i - 1] = g[i - 1] BY <3>2
    <3> QED BY <3>1, <3>3, <3>4
  <2> QED BY <2>1, <2>2
<1>7. h = r BY <1>6
<1>8. Sums(c, from, h, m) BY <1>7 DEF Sums
<1> QED BY <1>8

\* What SchedulerAssumption says of the executables.
LEMMA ProgramFacts ==
  /\ Programs \subseteq Seq(Instruction)
  /\ \A c \in Programs : c # <<>>
  /\ \A c \in Programs : \A i \in 1..Len(c) :
       c[i].op \in {"ret", "fault"} <=> i = Len(c)
  BY SchedulerAssumption

\* The program of a process is a sequence, the empty one included.
LEMMA CodeIsSeq == \A c \in Programs \cup {<<>>} : c \in Seq(Instruction)
<1>1. <<>> \in Seq(Instruction) BY EmptySeq
<1> QED BY <1>1, ProgramFacts

\* An estimate is an integer, for every program and every starting point.
LEMMA CostType ==
  ASSUME NEW c \in Programs \cup {<<>>}, NEW from \in Int
  PROVE  CostFrom(c, from) \in Int
<1> DEFINE f == CHOOSE g : Sums(c, from, g, Len(c))
<1>1. c \in Seq(Instruction) /\ Len(c) \in Nat
  <2>1. c \in Seq(Instruction) BY CodeIsSeq
  <2> QED BY <2>1
<1>2. \A i \in 1..Len(c) : Cost(c[i]) \in Int
  <2>1. \A i \in 1..Len(c) : c[i] \in Instruction BY <1>1
  <2> QED BY <2>1 DEF Cost, Instruction
<1>3. Sums(c, from, f, Len(c)) BY <1>1, SumsExists
<1>4. CostFrom(c, from) = f[Len(c)] BY DEF CostFrom, Sums
<1> HIDE DEF f
<1>5. /\ f[0] = 0
      /\ \A i \in 1..Len(c) : f[i] = f[i - 1] + (IF i < from THEN 0 ELSE Cost(c[i]))
  BY <1>3, <1>1 DEF Sums
<1> DEFINE T == {n \in 0..Len(c) : f[n] \notin Int}
<1>6. T = {}
  <2>1. SUFFICES ASSUME T # {} PROVE FALSE OBVIOUS
  <2>2. PICK m \in T : \A k \in T : m <= k
    <3> HIDE DEF T
    <3>1. T \in SUBSET Nat BY <1>1 DEF T
    <3> QED BY <3>1, <2>1, LeastNat
  <2>3. m \in 1..Len(c) /\ m - 1 \in 0..Len(c) /\ m - 1 \notin T BY <2>2, <1>5, <1>1
  <2> QED BY <2>3, <1>5, <1>2
<1> QED BY <1>6, <1>4, <1>1

-----------------------------------------------------------------------------
(* Where the processes are *)

\* The running process, and every one that waits, has a program and is alive.
LEMMA RunningIsLoaded ==
  ASSUME IInv
  PROVE  /\ running \in UserPid => Live(running) /\ Loaded(running)
         /\ \A p \in waiting : p \in UserPid /\ Live(p) /\ Loaded(p)
         /\ \A x \in Pid : Occurs(ready, x) /\ x # 0 => x \in UserPid /\ state[x] = "READY"
BY PidFacts DEF IInv, TypeOK, Placement, InItsPlace, Live

\* A step that touches neither lists nor state words leaves every process in place.
LEMMA PlaceKept ==
  ASSUME IInv, UNCHANGED <<ready, waiting, mixed, running, state>>,
         \A p \in UserPid : Loaded(p)' = Loaded(p)
  PROVE  Placement' /\ IdleState'
<1>1. ASSUME NEW p \in UserPid PROVE InItsPlace(p)'
  BY <1>1 DEF IInv, Placement, InItsPlace
<1>2. IdleState' BY DEF IInv, IdleState
<1> QED BY <1>1, <1>2 DEF Placement

\* When x gets the processor and the one that had it is queued, all are in place.
LEMMA PlaceDispatched ==
  ASSUME IInv, NEW x \in Pid \cup {NoPid},
         x \in UserPid => Occurs(ready, x),
         UNCHANGED <<waiting, mixed, proc>>,
         running' = x,
         state' \in [Pid -> States],
         \A p \in UserPid :
           /\ state'[p] = IF p = x THEN "RUNNING" ELSE IF p = running THEN "READY" ELSE state[p]
           /\ Once(ready', p)
           /\ Occurs(ready', p) <=> (p # x /\ (Occurs(ready, p) \/ p = running)),
         state'[0] = IF x = 0 THEN "RUNNING" ELSE "READY"
  PROVE  Placement' /\ IdleState'
<1>1. ASSUME NEW p \in UserPid PROVE InItsPlace(p)'
  <2>1. InItsPlace(p) BY DEF IInv, Placement
  <2>2. p = running => Loaded(p) BY RunningIsLoaded, PidFacts
  <2>3. Loaded(p)' = Loaded(p) BY DEF Loaded
  <2>4. CASE p = x
    <3>1. Occurs(ready, p) BY <2>4
    <3>2. ~ Occurs(ready', p) /\ state'[p] = "RUNNING" /\ running' = p BY <2>4
    <3> QED BY <2>1, <2>3, <3>1, <3>2 DEF InItsPlace
  <2>5. CASE p # x /\ p = running
    <3>1. Occurs(ready', p) /\ state'[p] = "READY" /\ running' # p /\ Once(ready', p)
      BY <2>5
    <3> QED BY <2>1, <2>2, <2>3, <2>5, <3>1 DEF InItsPlace
  <2>6. CASE p # x /\ p # running
    <3>1. /\ Occurs(ready', p) <=> Occurs(ready, p)
          /\ state'[p] = state[p] /\ running' # p /\ Once(ready', p)
      BY <2>6
    <3> QED BY <2>1, <2>3, <2>6, <3>1 DEF InItsPlace
  <2> QED BY <2>4, <2>5, <2>6
<1>2. IdleState' BY PidFacts DEF IdleState
<1> QED BY <1>1, <1>2 DEF Placement

\* Enqueue() puts a process that was in no ready list into exactly one, once.
LEMMA QueuedPlace ==
  ASSUME IInv, NEW p \in UserPid, ~ Occurs(ready, p), p \notin mixed, Enqueue(p)
  PROVE  /\ ready' \in Seq(Pid) /\ mixed' \subseteq UserPid
         /\ \A q \in UserPid : Once(ready', q)
         /\ \A q \in UserPid : Occurs(ready', q) => Occurs(ready, q) \/ q = p
         /\ \A q \in UserPid : q # p => /\ Occurs(ready', q) <=> Occurs(ready, q)
                                        /\ q \in mixed' <=> q \in mixed
         /\ Occurs(ready', p) \/ p \in mixed'
         /\ ~ (Occurs(ready', p) /\ p \in mixed')
<1>1. /\ ready \in Seq(Pid) /\ mixed \subseteq UserPid /\ p \in Pid
      /\ \A q \in UserPid : Once(ready, q)
  BY PidFacts DEF IInv, TypeOK, Placement, InItsPlace
<1>2. CASE algo = "MIXED_QUEUE"
  BY <1>1, <1>2 DEF Enqueue
<1>3. CASE algo # "MIXED_QUEUE"
  <2>1. ready' = Append(ready, p) /\ mixed' = mixed BY <1>3 DEF Enqueue
  <2>2. /\ Append(ready, p) \in Seq(Pid)
        /\ \A x : Occurs(Append(ready, p), x) <=> Occurs(ready, x) \/ x = p
        /\ \A x : Once(ready, x) /\ (x = p => ~ Occurs(ready, x)) => Once(Append(ready, p), x)
    BY <1>1, AppendOccurs
  <2> QED BY <1>1, <2>1, <2>2
<1> QED BY <1>2, <1>3

\* wake() leaves every process in its place (process.cpp:147).
LEMMA PlaceWoken ==
  ASSUME IInv, NEW p \in UserPid, WakeLists(p), UNCHANGED running,
         \A q \in UserPid : Loaded(q)' = Loaded(q)
  PROVE  /\ Placement' /\ IdleState'
         /\ ready' \in Seq(Pid) /\ waiting' \subseteq UserPid /\ mixed' \subseteq UserPid
         /\ state' \in [Pid -> States]
<1>0. TypeOK BY DEF IInv
<1>1. CASE state[p] # "WAITING"
  <2>1. UNCHANGED <<ready, waiting, mixed, state>> BY <1>1 DEF WakeLists, lists
  <2> QED BY <1>0, <2>1, PlaceKept DEF TypeOK
<1>2. CASE state[p] = "WAITING"
  <2>1. /\ state' = [state EXCEPT ![p] = "READY"]
        /\ waiting' = waiting \ {p}
        /\ Enqueue(p)
    BY <1>2 DEF WakeLists
  <2>2. Loaded(p) /\ ~ Occurs(ready, p) /\ p \notin mixed /\ running # p /\ p # 0
    BY <1>2, PidFacts DEF IInv, Placement, InItsPlace
  <2>3. /\ ready' \in Seq(Pid) /\ mixed' \subseteq UserPid
        /\ \A q \in UserPid : Once(ready', q)
        /\ \A q \in UserPid : q # p => /\ Occurs(ready', q) <=> Occurs(ready, q)
                                       /\ q \in mixed' <=> q \in mixed
        /\ Occurs(ready', p) \/ p \in mixed'
        /\ ~ (Occurs(ready', p) /\ p \in mixed')
    BY <2>1, <2>2, QueuedPlace
  <2>4. /\ state' \in [Pid -> States] /\ state'[p] = "READY"
        /\ \A q \in Pid : q # p => state'[q] = state[q]
    BY <1>0, <2>1, PidFacts DEF TypeOK, States
  <2>5. ASSUME NEW q \in UserPid PROVE InItsPlace(q)'
    <3>1. InItsPlace(q) BY DEF IInv, Placement
    <3>2. CASE q = p
      BY <2>1, <2>2, <2>3, <2>4, <3>1, <3>2 DEF InItsPlace
    <3>3. CASE q # p
      BY <2>1, <2>3, <2>4, <3>1, <3>3, PidFacts DEF InItsPlace
    <3> QED BY <3>2, <3>3
  <2>6. IdleState' BY <2>2, <2>4, PidFacts DEF IInv, IdleState
  <2> QED BY <1>0, <2>1, <2>3, <2>4, <2>5, <2>6 DEF TypeOK, Placement
<1> QED BY <1>1, <1>2

\* The running process that blocks is then in waiting, and nowhere else.
LEMMA PlaceBlocked ==
  ASSUME IInv, running \in UserPid, Block(running), UNCHANGED <<ready, mixed>>,
         \A q \in UserPid : Loaded(q)' = Loaded(q)
  PROVE  /\ Placement' /\ IdleState'
         /\ waiting' \subseteq UserPid /\ state' \in [Pid -> States]
<1>0. TypeOK BY DEF IInv
<1>1. /\ state' \in [Pid -> States] /\ state'[running] = "WAITING"
      /\ \A q \in Pid : q # running => state'[q] = state[q]
      /\ waiting' = waiting \cup {running} /\ running' = NoPid
  BY <1>0, PidFacts DEF TypeOK, States, Block
<1>2. ASSUME NEW q \in UserPid PROVE InItsPlace(q)'
  <2>1. InItsPlace(q) /\ q # NoPid /\ q \in Pid BY PidFacts DEF IInv, Placement
  <2>2. CASE q = running
    BY <1>1, <2>1, <2>2 DEF InItsPlace
  <2>3. CASE q # running
    BY <1>1, <2>1, <2>3 DEF InItsPlace
  <2> QED BY <2>2, <2>3
<1>3. IdleState' BY <1>1, PidFacts DEF IInv, IdleState
<1> QED BY <1>0, <1>1, <1>2, <1>3 DEF TypeOK, Placement

\* kill() leaves the killed process in no place (process.cpp:119).
LEMMA PlaceKilled ==
  ASSUME IInv, NEW p \in UserPid, Kill(p),
         running' = IF running = p THEN NoPid ELSE running
  PROVE  /\ Placement' /\ IdleState'
         /\ ready' \in Seq(Pid) /\ waiting' \subseteq UserPid /\ mixed' \subseteq UserPid
         /\ state' \in [Pid -> States]
<1>0. TypeOK BY DEF IInv
<1>1. /\ state' \in [Pid -> States] /\ state'[p] = "NONE"
      /\ \A q \in Pid : q # p => state'[q] = state[q]
      /\ waiting' = waiting \ {p} /\ mixed' = mixed \ {p}
      /\ ready' = Without(ready, p)
  BY <1>0, PidFacts DEF TypeOK, States, Kill
<1>2. /\ Without(ready, p) \in Seq(Pid)
      /\ \A x : Occurs(Without(ready, p), x) <=> x # p /\ Occurs(ready, x)
      /\ \A x : Once(ready, x) => Once(Without(ready, p), x)
  BY <1>0, WithoutOccurs DEF TypeOK
<1>3. \A q \in UserPid : q # p => Loaded(q)' = Loaded(q)
  BY <1>0 DEF Kill, TypeOK, Loaded
<1>4. ASSUME NEW q \in UserPid PROVE InItsPlace(q)'
  <2>1. InItsPlace(q) /\ q # NoPid /\ q \in Pid BY PidFacts DEF IInv, Placement
  <2>2. CASE q = p
    BY <1>1, <1>2, <2>1, <2>2 DEF InItsPlace
  <2>3. CASE q # p
    BY <1>1, <1>2, <1>3, <2>1, <2>3 DEF InItsPlace
  <2> QED BY <2>2, <2>3
<1>5. IdleState' BY <1>1, PidFacts DEF IInv, IdleState
<1> QED BY <1>0, <1>1, <1>2, <1>4, <1>5 DEF TypeOK, Placement

\* exec() puts the new process into one ready list (process.cpp:43).
LEMMA PlaceCreated ==
  ASSUME IInv, NEW p \in UserPid, ~ Live(p), NEW code \in Programs, Enqueue(p),
         state' = [state EXCEPT ![p] = "READY"],
         proc' = [proc EXCEPT ![p] = Process(code)],
         UNCHANGED <<waiting, running>>
  PROVE  /\ Placement' /\ IdleState'
         /\ ready' \in Seq(Pid) /\ mixed' \subseteq UserPid
         /\ state' \in [Pid -> States]
<1>0. TypeOK BY DEF IInv
<1>1. ~ Occurs(ready, p) /\ p \notin mixed /\ p \notin waiting /\ running # p
  BY DEF IInv, Placement, InItsPlace, Live
<1>2. /\ state' \in [Pid -> States] /\ state'[p] = "READY"
      /\ \A q \in Pid : q # p => state'[q] = state[q]
  BY <1>0, PidFacts DEF TypeOK, States
<1>3. Loaded(p)' /\ \A q \in UserPid : q # p => Loaded(q)' = Loaded(q)
  BY <1>0, ProgramFacts DEF TypeOK, Loaded, Process
<1>4. /\ ready' \in Seq(Pid) /\ mixed' \subseteq UserPid
      /\ \A q \in UserPid : Once(ready', q)
      /\ \A q \in UserPid : q # p => /\ Occurs(ready', q) <=> Occurs(ready, q)
                                     /\ q \in mixed' <=> q \in mixed
      /\ Occurs(ready', p) \/ p \in mixed'
      /\ ~ (Occurs(ready', p) /\ p \in mixed')
  BY <1>1, QueuedPlace
<1>5. ASSUME NEW q \in UserPid PROVE InItsPlace(q)'
  <2>1. InItsPlace(q) /\ q \in Pid BY PidFacts DEF IInv, Placement
  <2>2. CASE q = p
    BY <1>1, <1>2, <1>3, <1>4, <2>1, <2>2 DEF InItsPlace
  <2>3. CASE q # p
    BY <1>2, <1>3, <1>4, <2>1, <2>3 DEF InItsPlace
  <2> QED BY <2>2, <2>3
<1>6. IdleState' BY <1>2, PidFacts DEF IInv, IdleState
<1> QED BY <1>2, <1>4, <1>5, <1>6 DEF Placement

-----------------------------------------------------------------------------
(* Process records *)

\* The record of a process, field by field.
LEMMA ProcFacts ==
  ASSUME IInv, NEW p \in UserPid
  PROVE  /\ proc \in [UserPid -> ProcessRecord]
         /\ proc[p] \in ProcessRecord
         /\ proc[p].code \in Programs \cup {<<>>} /\ proc[p].ip \in Nat \ {0}
         /\ proc[p].workload \in Word /\ proc[p].workload \in Int
         /\ proc[p].est \in Int /\ proc[p].files \subseteq Files \cup {Missing}
         /\ proc[p].workload > 0 => proc[p].ip > 1
         /\ proc[p].code \in Seq(Instruction) /\ Len(proc[p].code) \in Nat
         /\ Loaded(p) => proc[p].code \in Programs /\ proc[p].ip <= Len(proc[p].code)
<1>1. proc \in [UserPid -> ProcessRecord] BY DEF IInv, TypeOK
<1>2. proc[p] \in ProcessRecord BY <1>1
<1>3. /\ proc[p].code \in Programs \cup {<<>>} /\ proc[p].ip \in Nat \ {0}
      /\ proc[p].workload \in Word /\ proc[p].est \in Int
      /\ proc[p].files \subseteq Files \cup {Missing}
  BY <1>2 DEF ProcessRecord
<1>4. proc[p].workload \in Int BY <1>3, WordSizeAssumption DEF Word
<1>5. proc[p].workload > 0 => proc[p].ip > 1 BY DEF IInv, BurstFetched
<1>6. proc[p].code \in Seq(Instruction) BY <1>3, CodeIsSeq
<1>7. Loaded(p) => proc[p].code \in Programs /\ proc[p].ip <= Len(proc[p].code)
  BY <1>3 DEF IInv, TypeOK, Loaded
<1> QED BY <1>1, <1>2, <1>3, <1>4, <1>5, <1>6, <1>7

\* A step that changes the record of p, and not its program.
LEMMA ProcChanged ==
  ASSUME IInv, NEW p \in UserPid, NEW r \in ProcessRecord,
         proc' = [proc EXCEPT ![p] = r],
         r.code = proc[p].code,
         Loaded(p) => r.ip <= Len(proc[p].code),
         r.workload > 0 => r.ip > 1
  PROVE  /\ proc' \in [UserPid -> ProcessRecord]
         /\ \A q \in UserPid : Loaded(q)' = Loaded(q)
         /\ \A q \in UserPid : Loaded(q)' => proc'[q].ip <= Len(proc'[q].code)
         /\ BurstFetched'
<1>1. proc \in [UserPid -> ProcessRecord] BY ProcFacts
<1>2. /\ proc' \in [UserPid -> ProcessRecord] /\ proc'[p] = r
      /\ \A q \in UserPid : q # p => proc'[q] = proc[q]
  BY <1>1
<1>3. ASSUME NEW q \in UserPid
      PROVE  /\ Loaded(q)' = Loaded(q)
             /\ Loaded(q)' => proc'[q].ip <= Len(proc'[q].code)
             /\ proc'[q].workload > 0 => proc'[q].ip > 1
  <2>1. CASE q = p BY <2>1, <1>2 DEF Loaded
  <2>2. CASE q # p BY <2>2, <1>2, ProcFacts DEF Loaded
  <2> QED BY <2>1, <2>2
<1> QED BY <1>2, <1>3 DEF BurstFetched

-----------------------------------------------------------------------------
(***************************************************************************)
(* Every action of module Scheduler keeps the inductive invariant IInv:    *)
(* one lemma for each, in the order of the module.                         *)
(***************************************************************************)

-----------------------------------------------------------------------------
(* The choices of schedule() *)

\* What a step of schedule() has to show to keep the invariant.
LEMMA ChoiceKeeps ==
  ASSUME IInv, pc = "schedule", KeepRest,
         ready' \in Seq(Pid), running' \in Pid \cup {NoPid},
         state' \in [Pid -> States], curTp' \in 0..Quantum,
         pc' \in {"sleep", "schedule", "run"},
         pc' = "run" => running' # NoPid /\ (algo = "RR" => curTp' > 0),
         Placement', IdleState'
  PROVE  IInv'
<1> USE DEF KeepRest, kernel
<1>1. TypeOK' BY DEF IInv, TypeOK, Loaded
<1>2. QuantumLeft' /\ PollEnds' /\ BurstFetched'
  BY DEF IInv, QuantumLeft, PollEnds, BurstFetched
<1> QED BY <1>1, <1>2 DEF IInv

\* A choice that keeps the process that runs keeps the invariant.
LEMMA SamePlaces ==
  ASSUME IInv, UNCHANGED <<running, curTp, state, ready>>, KeepRest, pc = "schedule",
         pc' = "sleep" \/ (pc' = "run" /\ running # NoPid /\ (algo = "RR" => curTp > 0))
  PROVE  IInv'
<1>1. Placement' /\ IdleState'
  BY PlaceKept DEF KeepRest, Loaded
<1>2. /\ ready' \in Seq(Pid) /\ running' \in Pid \cup {NoPid}
      /\ state' \in [Pid -> States] /\ curTp' \in 0..Quantum
  BY DEF IInv, TypeOK
<1> QED BY <1>1, <1>2, ChoiceKeeps

\* The branches of schedule() that change no place keep the invariant.
LEMMA KeepingSteps ==
  ASSUME IInv, FcfsNothing \/ FcfsKeep \/ RrKeep \/ PrKeep \/ MqNothing
  PROVE  IInv'
<1>1. running > 0 => running # NoPid BY DEF NoPid
<1>2. curTp \in 0..Quantum BY DEF IInv, TypeOK
<1>3. algo = "RR" /\ ~ QuantumOver => curTp > 0 BY <1>2, SchedulerAssumption DEF QuantumOver
<1>4. /\ UNCHANGED <<running, curTp, state, ready>> /\ KeepRest /\ pc = "schedule"
      /\ pc' = "sleep" \/ (pc' = "run" /\ running # NoPid /\ (algo = "RR" => curTp > 0))
  BY <1>1, <1>3 DEF FcfsNothing, FcfsKeep, RrKeep, PrKeep, MqNothing, Choosing, EndTick
<1> QED BY <1>4, SamePlaces

(***************************************************************************)
(* A step of schedule() by which x, from the ready list or idle, gets the  *)
(* processor and the process that had it goes back to the ready list.      *)
(***************************************************************************)
Dispatched(x) ==
  /\ pc = "schedule" /\ KeepRest
  /\ x \in Pid \cup {NoPid} /\ (x \in UserPid => Occurs(ready, x))
  /\ running' = x
  /\ state' \in [Pid -> States]
  /\ state'[0] = IF x = 0 THEN "RUNNING" ELSE "READY"
  /\ \A p \in UserPid :
       /\ state'[p] = IF p = x THEN "RUNNING" ELSE IF p = running THEN "READY" ELSE state[p]
       /\ Once(ready', p)
       /\ Occurs(ready', p) <=> (p # x /\ (Occurs(ready, p) \/ p = running))
  /\ ready' \in Seq(Pid) /\ curTp' \in 0..Quantum
  /\ pc' \in {"sleep", "schedule", "run"}
  /\ pc' = "run" => x # NoPid /\ (algo = "RR" => curTp' > 0)

\* A dispatch keeps the invariant.
LEMMA DispatchKeeps ==
  ASSUME IInv, NEW x, Dispatched(x)
  PROVE  IInv'
<1> USE DEF Dispatched
<1>1. UNCHANGED <<waiting, mixed, proc>> BY DEF KeepRest
<1>2. Placement' /\ IdleState' BY <1>1, PlaceDispatched
<1> QED BY <1>2, ChoiceKeeps

\* What the choices of schedule() start from.
LEMMA ListFacts ==
  ASSUME IInv
  PROVE  /\ ready \in Seq(Pid) /\ running \in Pid \cup {NoPid} /\ running \in Int
         /\ state \in [Pid -> States] /\ curTp \in 0..Quantum /\ Quantum \in Nat \ {0}
         /\ \A p \in UserPid : Once(ready, p) /\ (p = running => ~ Occurs(ready, p))
         /\ state[0] = (IF running = 0 THEN "RUNNING" ELSE "READY")
<1>1. running \in Int BY PidFacts DEF IInv, TypeOK
<1> QED BY <1>1, PidFacts, SchedulerAssumption DEF IInv, TypeOK, Placement, InItsPlace, IdleState

\* FCFS with nobody but idle to run dispatches idle.
LEMMA FcfsIdle ==
  ASSUME IInv, FcfsGoIdle PROVE \E x : Dispatched(x)
<1>1. pc = "schedule" /\ KeepRest /\ pc' = "sleep" /\ curTp' = curTp
  BY DEF FcfsGoIdle, Choosing, EndTick
<1>2. ready = <<0>> /\ ready' = <<>> /\ running' = 0 /\ running \notin UserPid
      /\ state' = [state EXCEPT ![0] = "RUNNING"]
  BY PidFacts DEF FcfsGoIdle
<1>3. \A p \in UserPid : ~ Occurs(ready, p) /\ ~ Occurs(ready', p) /\ Once(ready', p)
  BY <1>2, PidFacts DEF Occurs, Once
<1>4. state' \in [Pid -> States] BY <1>2, ListFacts, PidFacts DEF States
<1>5. ready' \in Seq(Pid) BY <1>2
<1>6. state'[0] = "RUNNING" /\ \A p \in UserPid : state'[p] = state[p]
  BY <1>2, ListFacts, PidFacts
<1>7. Dispatched(0) BY <1>1, <1>2, <1>3, <1>4, <1>5, <1>6, ListFacts, PidFacts DEF Dispatched
<1> QED BY <1>7

\* Moving idle from the front to the back loses no process and doubles none.
LEMMA TurnedFacts ==
  ASSUME IInv, ready # <<>>
  PROVE  /\ Turned \in Seq(Pid) /\ Turned # <<>>
         /\ \A p \in UserPid : Once(Turned, p) /\ (Occurs(Turned, p) <=> Occurs(ready, p))
<1>1. ready \in Seq(Pid) /\ \A p \in UserPid : Once(ready, p) BY ListFacts
<1>2. CASE Head(ready) # 0
  BY <1>1, <1>2 DEF Turned
<1>3. CASE Head(ready) = 0
  <2>1. Turned = Append(Tail(ready), 0) BY <1>3 DEF Turned
  <2>2. /\ Tail(ready) \in Seq(Pid)
        /\ \A x : Occurs(Tail(ready), x) => Occurs(ready, x)
        /\ \A x : Occurs(ready, x) => Occurs(Tail(ready), x) \/ x = Head(ready)
        /\ \A x : Once(ready, x) => Once(Tail(ready), x)
    BY <1>1, TailOccurs
  <2>3. /\ Append(Tail(ready), 0) \in Seq(Pid)
        /\ \A x : Occurs(Append(Tail(ready), 0), x) <=> Occurs(Tail(ready), x) \/ x = 0
        /\ \A x : Once(Tail(ready), x) /\ (x = 0 => ~ Occurs(Tail(ready), x))
                     => Once(Append(Tail(ready), 0), x)
    BY <2>2, PidFacts, AppendOccurs
  <2>4. Append(Tail(ready), 0) # <<>> BY <2>2
  <2> QED BY <1>1, <1>3, <2>1, <2>2, <2>3, <2>4, PidFacts
<1> QED BY <1>2, <1>3

\* The list that is left when its first process is chosen.
LEMMA TakeHead ==
  ASSUME NEW s \in Seq(Pid), s # <<>>, \A p \in UserPid : Once(s, p)
  PROVE  /\ Head(s) \in Pid /\ Tail(s) \in Seq(Pid) /\ Append(Tail(s), 0) \in Seq(Pid)
         /\ Occurs(s, Head(s))
         /\ \A p \in UserPid :
              /\ Once(Tail(s), p) /\ Once(Append(Tail(s), 0), p)
              /\ Occurs(Tail(s), p) <=> (p # Head(s) /\ Occurs(s, p))
              /\ Occurs(Append(Tail(s), 0), p) <=> (p # Head(s) /\ Occurs(s, p))
<1>1. /\ Tail(s) \in Seq(Pid)
      /\ Head(s) \in Pid
      /\ Occurs(s, Head(s))
      /\ \A x : Occurs(Tail(s), x) => Occurs(s, x)
      /\ \A x : Occurs(s, x) => Occurs(Tail(s), x) \/ x = Head(s)
      /\ \A x : Once(s, x) => Once(Tail(s), x) /\ (x = Head(s) => ~ Occurs(Tail(s), x))
  BY TailOccurs
<1>2. /\ Append(Tail(s), 0) \in Seq(Pid)
      /\ \A x : Occurs(Append(Tail(s), 0), x) <=> Occurs(Tail(s), x) \/ x = 0
      /\ \A x : Once(Tail(s), x) /\ (x = 0 => ~ Occurs(Tail(s), x))
                     => Once(Append(Tail(s), 0), x)
  <2>1. Tail(s) \in Seq(Pid) /\ 0 \in Pid BY <1>1, PidFacts
  <2> QED BY <2>1, AppendOccurs
<1> QED BY <1>1, <1>2, PidFacts

\* The list that is left when its i-th process is chosen.
LEMMA TakeIndex ==
  ASSUME NEW s \in Seq(Pid), NEW i \in 1..Len(s), \A p \in UserPid : Once(s, p)
  PROVE  /\ s[i] \in Pid /\ WithoutIndex(s, i) \in Seq(Pid) /\ Occurs(s, s[i])
         /\ \A p \in UserPid :
              /\ Once(WithoutIndex(s, i), p)
              /\ Occurs(WithoutIndex(s, i), p) <=> (p # s[i] /\ Occurs(s, p))
<1>1. /\ WithoutIndex(s, i) \in Seq(Pid)
      /\ \A x : Occurs(WithoutIndex(s, i), x) => Occurs(s, x)
      /\ \A x : Occurs(s, x) => Occurs(WithoutIndex(s, i), x) \/ x = s[i]
      /\ \A x : Once(s, x) => /\ Once(WithoutIndex(s, i), x)
                              /\ x = s[i] => ~ Occurs(WithoutIndex(s, i), x)
  BY WithoutIndexOccurs
<1>2. s[i] \in Pid /\ Occurs(s, s[i]) BY DEF Occurs
<1> QED BY <1>1, <1>2

\* FCFS dispatches the first process that is not idle.
LEMMA FcfsTakes ==
  ASSUME IInv, FcfsDispatch PROVE \E x : Dispatched(x)
<1> DEFINE x == Head(Turned)
<1>1. /\ pc = "schedule" /\ KeepRest /\ pc' = "run" /\ curTp' = curTp
      /\ ready # <<>> /\ running <= 0 /\ running' = x /\ algo = "FCFS"
      /\ ready' = IF running = 0 THEN Append(Tail(Turned), 0) ELSE Tail(Turned)
      /\ state' = IF running = 0 THEN [state EXCEPT ![0] = "READY", ![x] = "RUNNING"]
                  ELSE [state EXCEPT ![x] = "RUNNING"]
  BY DEF FcfsDispatch, Choosing
<1>2. running \notin UserPid BY <1>1, PidFacts, ListFacts
<1>3. /\ Turned \in Seq(Pid) /\ Turned # <<>>
      /\ \A p \in UserPid : Once(Turned, p) /\ (Occurs(Turned, p) <=> Occurs(ready, p))
  BY <1>1, TurnedFacts
<1>4. /\ x \in Pid /\ Tail(Turned) \in Seq(Pid) /\ Append(Tail(Turned), 0) \in Seq(Pid)
      /\ Occurs(Turned, x)
      /\ \A p \in UserPid :
              /\ Once(Tail(Turned), p) /\ Once(Append(Tail(Turned), 0), p)
              /\ Occurs(Tail(Turned), p) <=> (p # x /\ Occurs(Turned, p))
              /\ Occurs(Append(Tail(Turned), 0), p) <=> (p # x /\ Occurs(Turned, p))
  BY <1>3, TakeHead
<1> HIDE DEF x
<1>5. /\ state' \in [Pid -> States]
      /\ \A p \in UserPid : state'[p] = IF p = x THEN "RUNNING" ELSE state[p]
      /\ state'[0] = IF x = 0 THEN "RUNNING" ELSE "READY"
  BY <1>1, <1>4, ListFacts, PidFacts DEF States
<1>6. /\ ready' \in Seq(Pid)
      /\ \A p \in UserPid : /\ Once(ready', p)
                            /\ Occurs(ready', p) <=> (p # x /\ Occurs(ready, p))
  BY <1>1, <1>3, <1>4
<1>7. x \in UserPid => Occurs(ready, x) BY <1>3, <1>4
<1>8. x # NoPid BY <1>4, PidFacts
<1>9. \A p \in UserPid :
        /\ state'[p] = IF p = x THEN "RUNNING" ELSE IF p = running THEN "READY" ELSE state[p]
        /\ Once(ready', p)
        /\ Occurs(ready', p) <=> (p # x /\ (Occurs(ready, p) \/ p = running))
  BY <1>2, <1>5, <1>6
<1>10. /\ curTp' \in 0..Quantum /\ pc' \in {"sleep", "schedule", "run"}
       /\ pc' = "run" => x # NoPid /\ (algo = "RR" => curTp' > 0)
  BY <1>1, <1>8, ListFacts
<1>11. /\ pc = "schedule" /\ KeepRest /\ running' = x /\ x \in Pid \cup {NoPid}
       /\ x \in UserPid => Occurs(ready, x)
       /\ ready' \in Seq(Pid)
  BY <1>1, <1>4, <1>6, <1>7
<1>12. Dispatched(x) BY <1>5, <1>9, <1>10, <1>11 DEF Dispatched
<1> QED BY <1>12

\* SJF keeps the process it has, or dispatches idle when it has none.
LEMMA SjfKeeps ==
  ASSUME IInv, SjfKeep
  PROVE  (\E x : Dispatched(x)) \/ (IInv' /\ UNCHANGED <<running, state>>)
<1>1. /\ pc = "schedule" /\ KeepRest /\ algo = "SJF"
      /\ running' = SjfCurrent /\ curTp' = curTp /\ ready' = ready
      /\ state' = IF running = NoPid THEN [state EXCEPT ![0] = "RUNNING"] ELSE state
      /\ pc' \in {"sleep", "run"}
  BY DEF SjfKeep, Choosing, EndTick
<1>2. CASE running = NoPid
  <2>1. SjfCurrent = 0 BY <1>2 DEF SjfCurrent
  <2>2. /\ state' \in [Pid -> States] /\ state'[0] = "RUNNING"
        /\ \A p \in UserPid : state'[p] = state[p]
    BY <1>1, <1>2, ListFacts, PidFacts DEF States
  <2>3. Dispatched(0) BY <1>1, <1>2, <2>1, <2>2, ListFacts, PidFacts DEF Dispatched
  <2> QED BY <2>3
<1>3. CASE running # NoPid
  <2>1. UNCHANGED <<running, curTp, state, ready>> BY <1>1, <1>3 DEF SjfCurrent
  <2> QED BY <1>1, <1>3, <2>1, SamePlaces
<1> QED BY <1>2, <1>3

\* SJF dispatches the shortest process and queues the one that ran.
LEMMA SjfPreempts ==
  ASSUME IInv, SjfPreempt PROVE \E x : Dispatched(x)
<1>1. PICK i \in 1..Len(ready) :
       /\ Shortest(ready, i) /\ Est(ready[i]) < Est(SjfCurrent)
       /\ state' = [state EXCEPT ![SjfCurrent] = "READY", ![ready[i]] = "RUNNING"]
       /\ ready' = Append(WithoutIndex(ready, i), SjfCurrent)
       /\ running' = ready[i]
       /\ IF ready[i] = 0 THEN EndTick ELSE pc' = "run"
  BY DEF SjfPreempt
<1> DEFINE x == ready[i]
           c == SjfCurrent
<1>2. /\ pc = "schedule" /\ KeepRest /\ algo = "SJF" /\ curTp' = curTp
      /\ pc' \in {"sleep", "run"}
  BY <1>1 DEF SjfPreempt, Choosing, EndTick
<1>3. /\ c \in Pid /\ (running \in UserPid <=> c \in UserPid) /\ (c \in UserPid => c = running)
      /\ (running = NoPid => c = 0) /\ (running # NoPid => c = running)
  BY ListFacts, PidFacts DEF SjfCurrent
<1>4. /\ x \in Pid /\ WithoutIndex(ready, i) \in Seq(Pid) /\ Occurs(ready, x)
      /\ \A p \in UserPid :
           /\ Once(WithoutIndex(ready, i), p)
           /\ Occurs(WithoutIndex(ready, i), p) <=> (p # x /\ Occurs(ready, p))
  BY ListFacts, TakeIndex
<1>5. /\ state' = [state EXCEPT ![c] = "READY", ![x] = "RUNNING"]
      /\ ready' = Append(WithoutIndex(ready, i), c) /\ running' = x
  BY <1>1
<1>6. x # c
  <2>1. ASSUME x = c PROVE FALSE
    <3>1. Est(x) < Est(x) BY <1>1, <2>1
    <3>2. Est(x) \in Int
      <4>1. MaxEst \in Int BY SchedulerAssumption
      <4>2. x \in UserPid => proc[x].est \in Int BY DEF IInv, TypeOK, ProcessRecord
      <4> QED BY <4>1, <4>2, <1>4, PidFacts DEF Est
    <3> HIDE DEF x
    <3> QED BY <3>1, <3>2
  <2> QED BY <2>1
<1> HIDE DEF x, c
<1>7. /\ ready' \in Seq(Pid)
      /\ \A y : Occurs(ready', y) <=> Occurs(WithoutIndex(ready, i), y) \/ y = c
      /\ \A y : Once(WithoutIndex(ready, i), y) /\ (y = c => ~ Occurs(WithoutIndex(ready, i), y))
                  => Once(ready', y)
  BY <1>3, <1>4, <1>5, AppendOccurs
<1>8. \A p \in UserPid : /\ Once(ready', p)
                         /\ Occurs(ready', p) <=> (p # x /\ (Occurs(ready, p) \/ p = running))
  BY <1>3, <1>4, <1>6, <1>7, ListFacts
<1>9. /\ state' \in [Pid -> States]
      /\ \A p \in UserPid : state'[p] = IF p = x THEN "RUNNING" ELSE IF p = running THEN "READY" ELSE state[p]
      /\ state'[0] = IF x = 0 THEN "RUNNING" ELSE "READY"
  BY <1>3, <1>4, <1>5, <1>6, ListFacts, PidFacts DEF States
<1>10. x # NoPid BY <1>4, PidFacts
<1>11. Dispatched(x) BY <1>2, <1>4, <1>5, <1>7, <1>8, <1>9, <1>10, ListFacts DEF Dispatched
<1> QED BY <1>11

\* A quantum that is over queues the process that ran.
LEMMA RrExpires ==
  ASSUME IInv, RrExpire
  PROVE  (\E x : Dispatched(x)) \/ (IInv' /\ UNCHANGED <<running, state>>)
<1>1. pc = "schedule" /\ pc' = "schedule" /\ KeepRest /\ curTp' = Quantum
  BY DEF RrExpire, Choosing
<1>2. Quantum \in 0..Quantum BY ListFacts
<1>3. CASE running >= 0
  <2>1. /\ state' = [state EXCEPT ![running] = "READY"]
        /\ ready' = Append(ready, running) /\ running' = NoPid
    BY <1>3 DEF RrExpire
  <2>2. running \in Pid BY <1>3, ListFacts DEF NoPid
  <2>3. /\ ready' \in Seq(Pid)
        /\ \A x : Occurs(ready', x) <=> Occurs(ready, x) \/ x = running
        /\ \A x : Once(ready, x) /\ (x = running => ~ Occurs(ready, x)) => Once(ready', x)
    BY <2>1, <2>2, ListFacts, AppendOccurs
  <2>4. /\ state' \in [Pid -> States]
        /\ \A p \in UserPid : state'[p] = IF p = running THEN "READY" ELSE state[p]
        /\ state'[0] = "READY"
    BY <2>1, <2>2, ListFacts, PidFacts DEF States
  <2>5. \A p \in UserPid : /\ Once(ready', p) /\ p # NoPid
                           /\ Occurs(ready', p) <=> Occurs(ready, p) \/ p = running
    BY <2>3, ListFacts, PidFacts
  <2>6. Dispatched(NoPid) BY <1>1, <1>2, <2>1, <2>3, <2>4, <2>5, PidFacts DEF Dispatched
  <2> QED BY <2>6
<1>4. CASE ~ (running >= 0)
  <2>1. UNCHANGED <<state, ready, running>> BY <1>4 DEF RrExpire
  <2>2. Placement' /\ IdleState' BY <1>1, <2>1, PlaceKept DEF KeepRest, Loaded
  <2> QED BY <1>1, <1>2, <2>1, <2>2, ListFacts, ChoiceKeeps
<1> QED BY <1>3, <1>4

\* RR dispatches the first process of the list.
LEMMA RrTakes ==
  ASSUME IInv, RrTake \/ RrLeaveIdle PROVE \E x : Dispatched(x)
<1> DEFINE x == Head(ready)
<1>1. /\ pc = "schedule" /\ pc' \in {"schedule", "run"} /\ KeepRest /\ curTp' = Quantum
      /\ ready # <<>> /\ running' = x /\ running \in {0, NoPid}
      /\ ready' = (IF running = 0 THEN Append(Tail(ready), 0) ELSE Tail(ready))
      /\ state' = (IF running = 0 THEN [state EXCEPT ![0] = "READY", ![x] = "RUNNING"]
                   ELSE [state EXCEPT ![x] = "RUNNING"])
  BY DEF RrTake, RrLeaveIdle, Choosing, NoPid
<1>2. /\ x \in Pid /\ Tail(ready) \in Seq(Pid) /\ Append(Tail(ready), 0) \in Seq(Pid)
      /\ Occurs(ready, x)
      /\ \A p \in UserPid :
              /\ Once(Tail(ready), p) /\ Once(Append(Tail(ready), 0), p)
              /\ Occurs(Tail(ready), p) <=> (p # x /\ Occurs(ready, p))
              /\ Occurs(Append(Tail(ready), 0), p) <=> (p # x /\ Occurs(ready, p))
  BY <1>1, ListFacts, TakeHead
<1> HIDE DEF x
<1>3. /\ state' \in [Pid -> States]
      /\ \A p \in UserPid : state'[p] = IF p = x THEN "RUNNING" ELSE state[p]
      /\ state'[0] = IF x = 0 THEN "RUNNING" ELSE "READY"
  BY <1>1, <1>2, ListFacts, PidFacts DEF States
<1>4. /\ ready' \in Seq(Pid) /\ running \notin UserPid
      /\ \A p \in UserPid : /\ Once(ready', p)
                            /\ Occurs(ready', p) <=> (p # x /\ Occurs(ready, p))
  BY <1>1, <1>2, PidFacts
<1>5. x # NoPid /\ Quantum \in 0..Quantum /\ Quantum > 0 BY <1>2, PidFacts, ListFacts
<1>6. \A p \in UserPid :
        /\ state'[p] = IF p = x THEN "RUNNING" ELSE IF p = running THEN "READY" ELSE state[p]
        /\ Once(ready', p)
        /\ Occurs(ready', p) <=> (p # x /\ (Occurs(ready, p) \/ p = running))
  BY <1>3, <1>4
<1>7. /\ curTp' \in 0..Quantum /\ pc' \in {"sleep", "schedule", "run"}
      /\ pc' = "run" => x # NoPid /\ (algo = "RR" => curTp' > 0)
  BY <1>1, <1>5
<1>8. /\ pc = "schedule" /\ KeepRest /\ running' = x /\ x \in Pid \cup {NoPid}
      /\ x \in UserPid => Occurs(ready, x)
      /\ ready' \in Seq(Pid)
  BY <1>1, <1>2, <1>4
<1>9. Dispatched(x) BY <1>3, <1>6, <1>7, <1>8 DEF Dispatched
<1> QED BY <1>9

\* A tick of the idle process under RR keeps the invariant.
LEMMA RrIdles ==
  ASSUME IInv, RrIdle PROVE IInv'
<1>1. /\ pc = "schedule" /\ pc' = "sleep" /\ KeepRest /\ curTp' = curTp - 1 /\ curTp # 0
      /\ UNCHANGED <<running, state, ready>>
  BY DEF RrIdle, Choosing, EndTick, QuantumOver
<1>2. curTp' \in 0..Quantum BY <1>1, ListFacts
<1>3. Placement' /\ IdleState' BY <1>1, PlaceKept DEF KeepRest, Loaded
<1> QED BY <1>1, <1>2, <1>3, ListFacts, ChoiceKeeps

\* PRIORITY dispatches the first of the shortest processes.
LEMMA PrPicks ==
  ASSUME IInv, PrPick PROVE \E x : Dispatched(x)
<1> DEFINE list == IF running = 0 THEN Append(ready, 0) ELSE ready
<1>1. /\ pc = "schedule" /\ KeepRest /\ running <= 0 /\ algo = "PRIORITY" /\ curTp' = curTp
  BY DEF PrPick, Choosing
<1>2. PICK i \in 1..Len(list) :
           /\ Shortest(list, i)
           /\ running' = list[i]
           /\ ready' = WithoutIndex(list, i)
           /\ state' = IF running = 0
                       THEN [state EXCEPT ![0] = "READY", ![list[i]] = "RUNNING"]
                       ELSE [state EXCEPT ![list[i]] = "RUNNING"]
           /\ IF list[i] = 0 THEN EndTick ELSE pc' = "run"
  BY DEF PrPick
<1>3. /\ list \in Seq(Pid)
      /\ \A p \in UserPid : Once(list, p) /\ (Occurs(list, p) <=> Occurs(ready, p))
  <2>1. /\ Append(ready, 0) \in Seq(Pid)
        /\ \A x : Occurs(Append(ready, 0), x) <=> Occurs(ready, x) \/ x = 0
        /\ \A x : Once(ready, x) /\ (x = 0 => ~ Occurs(ready, x)) => Once(Append(ready, 0), x)
    BY ListFacts, PidFacts, AppendOccurs
  <2> QED BY <2>1, ListFacts, PidFacts
<1> DEFINE x == list[i]
<1>4. /\ x \in Pid /\ WithoutIndex(list, i) \in Seq(Pid) /\ Occurs(list, x)
      /\ \A p \in UserPid :
           /\ Once(WithoutIndex(list, i), p)
           /\ Occurs(WithoutIndex(list, i), p) <=> (p # x /\ Occurs(list, p))
  <2> HIDE DEF list
  <2> QED BY <1>3, TakeIndex
<1>5. /\ running' = x /\ ready' = WithoutIndex(list, i) /\ pc' \in {"sleep", "run"}
      /\ state' = IF running = 0
                       THEN [state EXCEPT ![0] = "READY", ![x] = "RUNNING"]
                       ELSE [state EXCEPT ![x] = "RUNNING"]
  BY <1>2 DEF EndTick
<1> HIDE DEF x, list
<1>6. running \notin UserPid /\ x # NoPid BY <1>1, <1>4, ListFacts, PidFacts
<1>7. /\ state' \in [Pid -> States]
      /\ \A p \in UserPid : state'[p] = IF p = x THEN "RUNNING" ELSE state[p]
      /\ state'[0] = IF x = 0 THEN "RUNNING" ELSE "READY"
  BY <1>4, <1>5, ListFacts, PidFacts DEF States
<1>8. /\ ready' \in Seq(Pid)
      /\ \A p \in UserPid : /\ Once(ready', p)
                            /\ Occurs(ready', p) <=> (p # x /\ Occurs(ready, p))
  BY <1>3, <1>4, <1>5
<1>9. x \in UserPid => Occurs(ready, x) BY <1>3, <1>4
<1>10. \A p \in UserPid :
        /\ state'[p] = IF p = x THEN "RUNNING" ELSE IF p = running THEN "READY" ELSE state[p]
        /\ Once(ready', p)
        /\ Occurs(ready', p) <=> (p # x /\ (Occurs(ready, p) \/ p = running))
  BY <1>6, <1>7, <1>8
<1>11. /\ curTp' \in 0..Quantum /\ pc' \in {"sleep", "schedule", "run"}
       /\ pc' = "run" => x # NoPid /\ (algo = "RR" => curTp' > 0)
  BY <1>1, <1>5, <1>6, ListFacts
<1>12. /\ pc = "schedule" /\ KeepRest /\ running' = x /\ x \in Pid \cup {NoPid}
       /\ x \in UserPid => Occurs(ready, x)
       /\ ready' \in Seq(Pid)
  BY <1>1, <1>4, <1>5, <1>8, <1>9
<1>13. Dispatched(x) BY <1>7, <1>10, <1>11, <1>12 DEF Dispatched
<1> QED BY <1>13

-----------------------------------------------------------------------------
(* The tick *)

\* A step that changes nothing keeps the invariant.
LEMMA StutterKeeps ==
  ASSUME IInv, UNCHANGED vars PROVE IInv'
<1> USE DEF vars, kernel, lists
<1>1. TypeOK' BY DEF IInv, TypeOK, Loaded
<1>2. Placement' /\ IdleState' BY PlaceKept DEF Loaded
<1>3. QuantumLeft' /\ PollEnds' /\ BurstFetched'
  BY DEF IInv, QuantumLeft, PollEnds, BurstFetched
<1> QED BY <1>1, <1>2, <1>3 DEF IInv

\* Where C++ leaves the effect undefined the model stops, in place.
LEMMA UndefinedKeeps ==
  ASSUME IInv, NEW where \in Sites, Undefined(where) PROVE IInv'
<1> USE DEF Undefined, lists
<1>1. TypeOK' BY DEF IInv, TypeOK, Loaded
<1>2. Placement' /\ IdleState' BY PlaceKept DEF Loaded
<1>3. QuantumLeft' /\ PollEnds' /\ BurstFetched'
  BY DEF IInv, QuantumLeft, PollEnds, BurstFetched
<1> QED BY <1>1, <1>2, <1>3 DEF IInv

\* All the steps of that kind.
LEMMA UndefinedSteps ==
  ASSUME IInv,
         \/ PollEmpty \/ PollDead \/ SjfEmpty \/ RunIdleProgram \/ RunNoDevice
         \/ RunExitClosing \/ WakeDead \/ \E p \in UserPid : SafeKillClosing(p)
  PROVE  IInv'
<1>1. \E where \in Sites : Undefined(where)
  BY DEF PollEmpty, PollDead, SjfEmpty, RunIdleProgram, RunNoDevice, RunExitClosing, WakeDead,
         SafeKillClosing, Sites
<1> QED BY <1>1, UndefinedKeeps

\* The device being polled is one of the vector.
LEMMA DeviceFacts ==
  ASSUME IInv
  PROVE  /\ devices \in Seq(DeviceRecord) /\ Len(devices) \in Nat
         /\ pollAt \in 0..Len(devices) /\ pollAt \in Int
         /\ pc = "poll" => pollAt \in 1..Len(devices)
         /\ devices = <<>> <=> Len(devices) = 0
BY DEF IInv, TypeOK

\* The start of a tick keeps the invariant (Kernel::run).
LEMMA TickBegins ==
  ASSUME IInv, BeginTick PROVE IInv'
<1>1. /\ pc = "sleep" /\ pc' \in {"schedule", "poll"}
      /\ pollAt' \in 0..Len(devices) /\ (pc' = "poll" => pollAt' > 0)
      /\ pc' # "poll" => pollAt' = 0
  BY DeviceFacts DEF BeginTick, IInv, PollEnds
<1>2. UNCHANGED <<wakeq, site, algo, ready, waiting, mixed, running, curTp, state, proc, devices, sft>>
  BY DEF BeginTick, lists
<1>3. TypeOK' BY <1>1, <1>2 DEF IInv, TypeOK, Loaded
<1>4. Placement' /\ IdleState' BY <1>2, PlaceKept DEF Loaded
<1>5. QuantumLeft' /\ PollEnds' /\ BurstFetched'
  BY <1>1, <1>2 DEF IInv, QuantumLeft, PollEnds, BurstFetched
<1> QED BY <1>3, <1>4, <1>5 DEF IInv

\* The walk over the devices stays inside the vector.
LEMMA NextDeviceType ==
  ASSUME IInv, pc = "poll", NextDevice
  PROVE  /\ pc' \in {"schedule", "poll"}
         /\ pollAt' \in 0..Len(devices) /\ (pc' = "poll" => pollAt' > 0)
         /\ pc' # "poll" => pollAt' = 0
BY DeviceFacts DEF NextDevice

\* Polling a device that is not occupied keeps the invariant.
LEMMA IdlePollKeeps ==
  ASSUME IInv, PollIdle PROVE IInv'
<1>1. /\ pc' \in {"schedule", "poll"}
      /\ pollAt' \in 0..Len(devices) /\ (pc' = "poll" => pollAt' > 0)
      /\ pc' # "poll" => pollAt' = 0
  BY NextDeviceType DEF PollIdle
<1>2. UNCHANGED <<wakeq, site, algo, ready, waiting, mixed, running, curTp, state, proc, devices, sft>>
  BY DEF PollIdle, lists
<1>3. TypeOK' BY <1>1, <1>2 DEF IInv, TypeOK, Loaded
<1>4. Placement' /\ IdleState' BY <1>2, PlaceKept DEF Loaded
<1>5. QuantumLeft' /\ PollEnds' /\ BurstFetched'
  BY <1>1, <1>2 DEF IInv, QuantumLeft, PollEnds, BurstFetched
<1> QED BY <1>3, <1>4, <1>5 DEF IInv

\* A tick of an occupied device keeps the invariant.
LEMMA BusyPollKeeps ==
  ASSUME IInv, PollBusy PROVE IInv'
<1> DEFINE d == devices[pollAt]
           p == d.queue[1].pid
<1>1. /\ pc = "poll" /\ d.queue # <<>>
      /\ IF Completes(d) THEN WakeLists(p) ELSE UNCHANGED <<state, lists>>
      /\ proc' = IF Live(p)
                 THEN [proc EXCEPT ![p].est = @ - 1,
                         ![p].workload = IF Completes(d) THEN WorkloadWoken(p) ELSE @]
                 ELSE proc
      /\ devices' = [devices EXCEPT ![pollAt] = Polled(d)]
      /\ NextDevice
      /\ UNCHANGED <<wakeq, site, algo, running, curTp, sft>>
  BY DEF PollBusy
<1>2. d \in DeviceRecord /\ pollAt \in 1..Len(devices) BY <1>1, DeviceFacts
<1> HIDE DEF d
<1>3. Polled(d) \in DeviceRecord /\ p \in UserPid BY <1>1, <1>2, PolledType
<1> HIDE DEF p
<1>4. devices' \in Seq(DeviceRecord) /\ Len(devices') = Len(devices)
  BY <1>1, <1>2, <1>3, DeviceFacts, ExceptSeq
<1>5. /\ pc' \in {"schedule", "poll"}
      /\ pollAt' \in 0..Len(devices') /\ (pc' = "poll" => pollAt' > 0)
      /\ pc' # "poll" => pollAt' = 0
  BY <1>1, <1>4, NextDeviceType
<1>6. /\ proc' \in [UserPid -> ProcessRecord]
      /\ \A q \in UserPid : Loaded(q)' = Loaded(q)
      /\ \A q \in UserPid : Loaded(q)' => proc'[q].ip <= Len(proc'[q].code)
      /\ BurstFetched'
  <2>1. CASE Live(p)
    <3> DEFINE w == IF Completes(d) THEN WorkloadWoken(p) ELSE proc[p].workload
    <3>1. proc' = [proc EXCEPT ![p].est = proc[p].est - 1, ![p].workload = w]
      BY <1>1, <2>1
    <3>2. w \in {0, proc[p].workload} BY DEF WorkloadWoken
    <3> HIDE DEF w
    <3>3. /\ w \in Word /\ proc[p].est - 1 \in Int /\ (w > 0 => proc[p].ip > 1)
          /\ proc[p].ip \in Nat \ {0} /\ proc[p].files \in SUBSET (Files \cup {Missing})
          /\ Loaded(p) => proc[p].ip <= Len(proc[p].code)
      BY <1>3, <3>2, ProcFacts, WordSizeAssumption DEF Word
    <3> DEFINE r == [proc[p] EXCEPT !.est = @ - 1, !.workload = w]
    <3>4. proc' = [proc EXCEPT ![p] = r] BY <3>1, <1>3, ProcFacts
    <3>5. /\ r \in ProcessRecord /\ r.code = proc[p].code
          /\ r.ip = proc[p].ip /\ r.workload = w
      BY <1>3, <3>3, ProcFacts DEF ProcessRecord
    <3> HIDE DEF r
    <3> QED BY <1>3, <3>3, <3>4, <3>5, ProcChanged
  <2>2. CASE ~ Live(p)
    <3>1. proc' = proc BY <1>1, <2>2
    <3> QED BY <3>1 DEF IInv, TypeOK, Loaded, BurstFetched
  <2> QED BY <2>1, <2>2
<1>7. /\ Placement' /\ IdleState'
      /\ ready' \in Seq(Pid) /\ waiting' \subseteq UserPid /\ mixed' \subseteq UserPid
      /\ state' \in [Pid -> States]
  <2>1. CASE Completes(d) BY <1>1, <1>3, <1>6, <2>1, PlaceWoken
  <2>2. CASE ~ Completes(d)
    <3>1. UNCHANGED <<state, ready, waiting, mixed, running>> BY <1>1, <2>2 DEF lists
    <3> QED BY <3>1, <1>6, PlaceKept DEF IInv, TypeOK
  <2> QED BY <2>1, <2>2
<1>8. UNCHANGED <<wakeq, site, algo, running, curTp, sft>> BY <1>1
<1>9. TypeOK' BY <1>4, <1>5, <1>6, <1>7, <1>8 DEF IInv, TypeOK
<1>10. QuantumLeft' /\ PollEnds' BY <1>5 DEF QuantumLeft, PollEnds
<1> QED BY <1>6, <1>7, <1>9, <1>10 DEF IInv

-----------------------------------------------------------------------------
(* The run of a process *)

\* The running process can fetch an instruction; only its last one ends it.
LEMMA FetchFacts ==
  ASSUME IInv, pc = "run", running # 0
  PROVE  /\ running \in UserPid
         /\ proc[running].code \in Programs /\ proc[running].code \in Seq(Instruction)
         /\ proc[running].ip \in 1..Len(proc[running].code)
         /\ Instr(running) \in Instruction
         /\ Instr(running).arg \in Nat /\ Instr(running).file \in Files \cup {Missing}
         /\ Instr(running).op \notin {"ret", "fault"} => proc[running].ip + 1 <= Len(proc[running].code)
<1>1. running \in UserPid BY PidFacts DEF IInv, TypeOK
<1>2. Loaded(running) BY <1>1, RunningIsLoaded
<1>3. /\ proc[running].code \in Programs /\ proc[running].code \in Seq(Instruction)
      /\ proc[running].ip \in 1..Len(proc[running].code)
  BY <1>1, <1>2, ProcFacts
<1>4. Instr(running) \in Instruction BY <1>3 DEF Instr
<1>5. Instr(running).arg \in Nat /\ Instr(running).file \in Files \cup {Missing}
  BY <1>4 DEF Instruction
<1>6. Instr(running).op \notin {"ret", "fault"} => proc[running].ip + 1 <= Len(proc[running].code)
  BY <1>3, ProgramFacts DEF Instr
<1> QED BY <1>1, <1>3, <1>4, <1>5, <1>6

\* An operand that went through a char is an integer.
LEMMA StoredType == \A n \in Nat : Stored(n) \in Int
  BY SchedulerAssumption DEF Stored

\* What a step of a run has to show to keep the invariant.
LEMMA RunKeeps ==
  ASSUME IInv, pc \in {"run", "wake"},
         proc' \in [UserPid -> ProcessRecord],
         \A q \in UserPid : Loaded(q)' => proc'[q].ip <= Len(proc'[q].code),
         BurstFetched', Placement', IdleState',
         ready' \in Seq(Pid), waiting' \subseteq UserPid, mixed' \subseteq UserPid,
         state' \in [Pid -> States], running' \in Pid \cup {NoPid},
         pc' \in {"sleep", "schedule", "wake"},
         wakeq' \in Seq(UserPid), pc' = "wake" => wakeq' # <<>>,
         curTp' \in 0..Quantum,
         devices' \in Seq(DeviceRecord), Len(devices') = Len(devices),
         sft' \in [Files -> FileRecord],
         UNCHANGED <<pollAt, site, algo>>
  PROVE  IInv'
<1>1. TypeOK' BY DEF IInv, TypeOK
<1>2. pollAt = 0 BY DEF IInv, PollEnds
<1>3. QuantumLeft' /\ PollEnds' BY <1>2 DEF QuantumLeft, PollEnds
<1> QED BY <1>1, <1>3 DEF IInv

\* A process that runs has a tick of its quantum left.
LEMMA UseQuantumType ==
  ASSUME IInv, pc = "run", UseQuantum PROVE curTp' \in 0..Quantum
BY ListFacts DEF IInv, QuantumLeft, UseQuantum

\* FILE_DONE keeps the type of the file table.
LEMMA FileDoneType ==
  ASSUME IInv, NEW p \in UserPid, NEW f \in Files, NEW rw \in {Read, Write}, FileDone(p, f, rw)
  PROVE  /\ sft' \in [Files -> FileRecord] /\ wakeq' \in Seq(UserPid)
         /\ pc' \in {"sleep", "wake"} /\ (pc' = "wake" => wakeq' # <<>>)
<1>1. sft \in [Files -> FileRecord] BY DEF IInv, TypeOK
<1>2. sft[f] \in FileRecord BY <1>1
<1>3. Done(sft[f], rw, p) \in FileRecord BY <1>2, FileTypes
<1>4. ToWake(Done(sft[f], rw, p), rw) \in Seq(UserPid) BY <1>3, FileTypes
<1> QED BY <1>1, <1>3, <1>4 DEF FileDone

\* A tick of the work that is left keeps the invariant.
LEMMA BurstKeeps ==
  ASSUME IInv, RunBurst PROVE IInv'
<1> DEFINE p == running
           w == proc[p].workload - 1
           e == proc[p].est - 1
<1>1. /\ pc = "run" /\ p # 0 /\ proc[p].workload > 0
      /\ proc' = [proc EXCEPT ![p].workload = w, ![p].est = e]
      /\ UseQuantum
      /\ UNCHANGED <<pollAt, site, algo, ready, waiting, mixed, running, state, devices>>
  BY DEF RunBurst, lists
<1>2. p \in UserPid /\ proc[p].ip > 1 /\ proc[p].ip <= Len(proc[p].code)
  BY <1>1, FetchFacts, ProcFacts
<1>3. /\ w \in Word /\ e \in Int /\ proc[p].ip \in Nat \ {0}
      /\ proc[p].files \in SUBSET (Files \cup {Missing})
  BY <1>1, <1>2, ProcFacts, WordSizeAssumption DEF Word
<1> HIDE DEF w, e
<1> DEFINE r == [proc[p] EXCEPT !.workload = w, !.est = e]
<1>4. /\ r \in ProcessRecord /\ r.code = proc[p].code
      /\ r.ip = proc[p].ip /\ r.workload = w
      /\ proc' = [proc EXCEPT ![p] = r]
  BY <1>1, <1>2, <1>3, ProcFacts DEF ProcessRecord
<1>5. /\ proc' \in [UserPid -> ProcessRecord]
      /\ \A q \in UserPid : Loaded(q)' = Loaded(q)
      /\ \A q \in UserPid : Loaded(q)' => proc'[q].ip <= Len(proc'[q].code)
      /\ BurstFetched'
  <2> HIDE DEF r
  <2> QED BY <1>2, <1>3, <1>4, ProcChanged
<1>6. Placement' /\ IdleState' BY <1>1, <1>5, PlaceKept
<1>7. /\ sft' \in [Files -> FileRecord] /\ wakeq' \in Seq(UserPid)
      /\ pc' \in {"sleep", "wake"} /\ (pc' = "wake" => wakeq' # <<>>)
  <2>1. CASE pc' = "sleep" /\ UNCHANGED <<sft, wakeq>> BY <2>1 DEF IInv, TypeOK
  <2>2. CASE /\ Last(p).op \in {"read", "write"} /\ Last(p).file # Missing
             /\ FileDone(p, Last(p).file, RwOf(Last(p).op))
    <3>1. Last(p) \in Instruction
      <4>1. proc[p].ip - 1 \in 1..Len(proc[p].code) BY <1>2, <1>3, ProcFacts
      <4> QED BY <1>2, <4>1, ProcFacts DEF Last
    <3>2. Last(p).file \in Files BY <3>1, <2>2 DEF Instruction
    <3>3. RwOf(Last(p).op) \in {Read, Write} BY DEF RwOf
    <3> QED BY <1>2, <2>2, <3>2, <3>3, FileDoneType
  <2> QED BY <2>1, <2>2 DEF RunBurst
<1>8. curTp' \in 0..Quantum BY <1>1, UseQuantumType
<1>9. /\ ready' \in Seq(Pid) /\ waiting' \subseteq UserPid /\ mixed' \subseteq UserPid
      /\ state' \in [Pid -> States] /\ running' \in Pid \cup {NoPid}
      /\ devices' \in Seq(DeviceRecord) /\ Len(devices') = Len(devices)
  BY <1>1 DEF IInv, TypeOK
<1> QED BY <1>1, <1>5, <1>6, <1>7, <1>8, <1>9, RunKeeps

\* The first tick of a "cal" keeps the invariant, whatever info->cmd held.
LEMMA CalKeeps ==
  ASSUME IInv, RunCal PROVE IInv'
<1> DEFINE p == running
           w == (Stored(Instr(p).arg) - 1) % WordSize
           e == proc[p].est - 1
           i == proc[p].ip + 1
<1>1. /\ pc = "run" /\ p # 0 /\ Instr(p).op = "cal"
      /\ proc' = [proc EXCEPT ![p].workload = w, ![p].est = e, ![p].ip = i]
      /\ UseQuantum
      /\ UNCHANGED <<pollAt, site, algo, ready, waiting, mixed, running, state, devices>>
  BY DEF RunCal, Running, lists
<1>2. /\ p \in UserPid /\ Instr(p).arg \in Nat /\ proc[p].ip \in Nat \ {0}
      /\ i <= Len(proc[p].code)
  BY <1>1, FetchFacts, ProcFacts
<1>3. /\ w \in Word /\ e \in Int /\ i \in Nat \ {0} /\ i > 1
      /\ proc[p].files \in SUBSET (Files \cup {Missing})
  BY <1>2, ProcFacts, StoredType, ModWord
<1> HIDE DEF w, e, i
<1> DEFINE r == [proc[p] EXCEPT !.workload = w, !.est = e, !.ip = i]
<1>4. /\ r \in ProcessRecord /\ r.code = proc[p].code /\ r.ip = i /\ r.workload = w
      /\ proc' = [proc EXCEPT ![p] = r]
  BY <1>1, <1>2, <1>3, ProcFacts DEF ProcessRecord
<1>5. /\ proc' \in [UserPid -> ProcessRecord]
      /\ \A q \in UserPid : Loaded(q)' = Loaded(q)
      /\ \A q \in UserPid : Loaded(q)' => proc'[q].ip <= Len(proc'[q].code)
      /\ BurstFetched'
  <2> HIDE DEF r
  <2> QED BY <1>2, <1>3, <1>4, ProcChanged
<1>6. Placement' /\ IdleState' BY <1>1, <1>5, PlaceKept
<1>7. /\ sft' \in [Files -> FileRecord] /\ wakeq' \in Seq(UserPid)
      /\ pc' \in {"sleep", "wake"} /\ (pc' = "wake" => wakeq' # <<>>)
  <2>1. CASE pc' = "sleep" /\ UNCHANGED <<sft, wakeq>> BY <2>1 DEF IInv, TypeOK
  <2>2. CASE \E f \in Files, rw \in {Read, Write} : FileDone(running, f, rw)
    <3>1. PICK f \in Files, rw \in {Read, Write} : FileDone(running, f, rw) BY <2>2
    <3> QED BY <1>2, <3>1, FileDoneType
  <2> QED BY <2>1, <2>2 DEF RunCal
<1>8. curTp' \in 0..Quantum BY <1>1, UseQuantumType
<1>9. /\ ready' \in Seq(Pid) /\ waiting' \subseteq UserPid /\ mixed' \subseteq UserPid
      /\ state' \in [Pid -> States] /\ running' \in Pid \cup {NoPid}
      /\ devices' \in Seq(DeviceRecord) /\ Len(devices') = Len(devices)
  BY <1>1 DEF IInv, TypeOK
<1> QED BY <1>1, <1>5, <1>6, <1>7, <1>8, <1>9, RunKeeps

\* A device request keeps the invariant.
LEMMA DeviceRunKeeps ==
  ASSUME IInv, RunDevice PROVE IInv'
<1> DEFINE p == running
           ins == Instr(p)
           d == DeviceOf(ins.op)
           r == [proc[p] EXCEPT !.ip = @ + 1]
<1>1. /\ pc = "run" /\ p # 0 /\ ins.op \in {"input", "print"} /\ proc[p].workload = 0
      /\ d <= Len(devices)
      /\ devices' = [devices EXCEPT ![d] = Require(devices[d], Stored(ins.arg), p)]
      /\ proc' = [proc EXCEPT ![p] = r]
      /\ Block(running)
      /\ UNCHANGED <<pollAt, wakeq, site, algo, ready, mixed, curTp, sft>>
  BY DEF RunDevice, Running, kernel
<1>2. /\ p \in UserPid /\ ins.arg \in Nat /\ proc[p].ip \in Nat \ {0}
      /\ proc[p].ip + 1 <= Len(proc[p].code)
  BY <1>1, FetchFacts, ProcFacts
<1>3. /\ r \in ProcessRecord /\ r.code = proc[p].code /\ r.workload = 0
      /\ r.ip = proc[p].ip + 1
  <2>1. proc[p] \in ProcessRecord /\ proc[p].ip + 1 \in Nat \ {0} BY <1>2, ProcFacts
  <2> QED BY <1>1, <2>1 DEF ProcessRecord
<1>4. /\ proc' \in [UserPid -> ProcessRecord]
      /\ \A q \in UserPid : Loaded(q)' = Loaded(q)
      /\ \A q \in UserPid : Loaded(q)' => proc'[q].ip <= Len(proc'[q].code)
      /\ BurstFetched'
  <2>1. r.workload > 0 => r.ip > 1 /\ (Loaded(p) => r.ip <= Len(proc[p].code)) BY <1>2, <1>3
  <2>2. Loaded(p) => r.ip <= Len(proc[p].code) BY <1>2, <1>3
  <2> HIDE DEF r
  <2> QED BY <1>1, <1>2, <1>3, <2>1, <2>2, ProcChanged
<1> HIDE DEF r
<1>5. /\ Placement' /\ IdleState'
      /\ waiting' \subseteq UserPid /\ state' \in [Pid -> States]
  BY <1>1, <1>2, <1>4, PlaceBlocked
<1>6. devices' \in Seq(DeviceRecord) /\ Len(devices') = Len(devices)
  <2>1. d \in 1..Len(devices) BY <1>1, DeviceFacts DEF DeviceOf
  <2>2. devices[d] \in DeviceRecord BY <2>1, DeviceFacts
  <2>3. Require(devices[d], Stored(ins.arg), p) \in DeviceRecord
    BY <1>2, <2>2, StoredType, RequireType
  <2> HIDE DEF d
  <2> QED BY <1>1, <2>1, <2>3, DeviceFacts, ExceptSeq
<1>7. /\ running' \in Pid \cup {NoPid} /\ pc' = "schedule" BY <1>1 DEF Block
<1>8. /\ ready' \in Seq(Pid) /\ mixed' \subseteq UserPid /\ curTp' \in 0..Quantum
      /\ wakeq' \in Seq(UserPid) /\ sft' \in [Files -> FileRecord]
  BY <1>1 DEF IInv, TypeOK
<1> QED BY <1>1, <1>4, <1>5, <1>6, <1>7, <1>8, RunKeeps

\* A file access, granted or not, keeps the invariant.
LEMMA FileRunKeeps ==
  ASSUME IInv, RunFile PROVE IInv'
<1> DEFINE p == running
           ins == Instr(p)
           rw == RwOf(ins.op)
           granted == Granted(ins.file, rw)
           work == Stored(ins.arg) % WordSize
           w == IF granted THEN (work - 1) % WordSize ELSE work
           r == [proc[p] EXCEPT !.workload = w, !.files = @ \cup {ins.file}, !.ip = @ + 1]
<1>1. /\ pc = "run" /\ p # 0 /\ ins.op \in {"read", "write"}
      /\ sft' = IF ins.file = Missing THEN sft
                ELSE [sft EXCEPT ![ins.file] = Access(ins.file, rw, p)]
      /\ proc' = [proc EXCEPT ![p].workload = w, ![p].files = @ \cup {ins.file}, ![p].ip = @ + 1]
      /\ IF granted THEN pc' = "sleep" /\ UseQuantum /\ UNCHANGED <<state, waiting, running>>
                    ELSE Block(running) /\ UNCHANGED curTp
      /\ UNCHANGED <<pollAt, wakeq, site, algo, ready, mixed, devices>>
  BY DEF RunFile, Running, kernel
<1>2. /\ p \in UserPid /\ ins.arg \in Nat /\ ins.file \in Files \cup {Missing}
      /\ proc[p].ip \in Nat \ {0} /\ proc[p].ip + 1 <= Len(proc[p].code)
  BY <1>1, FetchFacts, ProcFacts
<1>3. work \in Word /\ work \in Int
  <2>1. Stored(ins.arg) \in Int BY <1>2, StoredType
  <2>2. work \in Word BY <2>1, ModWord
  <2> QED BY <2>2, WordSizeAssumption DEF Word
<1> HIDE DEF granted
<1>4. w \in Word
  <2> HIDE DEF work
  <2>1. (work - 1) % WordSize \in Word BY <1>3, ModWord
  <2> QED BY <1>3, <2>1
<1> HIDE DEF w
<1>5. /\ r \in ProcessRecord /\ r.code = proc[p].code /\ r.ip = proc[p].ip + 1
      /\ proc' = [proc EXCEPT ![p] = r]
  <2>1. /\ proc[p] \in ProcessRecord /\ proc[p].ip + 1 \in Nat \ {0}
        /\ proc[p].files \cup {ins.file} \in SUBSET (Files \cup {Missing})
        /\ proc \in [UserPid -> ProcessRecord]
    BY <1>2, ProcFacts
  <2>2. r \in ProcessRecord /\ r.code = proc[p].code /\ r.ip = proc[p].ip + 1
    <3> HIDE DEF ins
    <3> QED BY <1>4, <2>1 DEF ProcessRecord
  <2>3. proc' = [proc EXCEPT ![p] = r]
    <3> HIDE DEF ins
    <3> QED BY <1>1, <1>2, <2>1 DEF ProcessRecord
  <2> QED BY <2>2, <2>3
<1>6. /\ proc' \in [UserPid -> ProcessRecord]
      /\ \A q \in UserPid : Loaded(q)' = Loaded(q)
      /\ \A q \in UserPid : Loaded(q)' => proc'[q].ip <= Len(proc'[q].code)
      /\ BurstFetched'
  <2>1. r.ip > 1 /\ r.ip <= Len(proc[p].code) BY <1>2, <1>5
  <2> HIDE DEF r
  <2> QED BY <1>2, <1>5, <2>1, ProcChanged
<1>7. sft' \in [Files -> FileRecord]
  <2>1. sft \in [Files -> FileRecord] BY DEF IInv, TypeOK
  <2>2. rw \in {Read, Write} BY DEF RwOf
  <2>3. ASSUME ins.file # Missing PROVE Access(ins.file, rw, p) \in FileRecord
    <3> DEFINE e == sft[ins.file]
    <3>1. e \in FileRecord BY <1>2, <2>1, <2>3
    <3>2. Opened(e) \in FileRecord BY <3>1, <1>2, <2>2, FileTypes
    <3>3. Accessed(e, rw, p) \in FileRecord /\ Accessed(Opened(e), rw, p) \in FileRecord
      <4> HIDE DEF e, rw
      <4> QED BY <3>1, <3>2, <1>2, <2>2, FileTypes
    <3> QED BY <3>3 DEF Access
  <2> QED BY <1>1, <2>1, <2>3
<1>8. ready' \in Seq(Pid) /\ mixed' \subseteq UserPid /\ wakeq' \in Seq(UserPid)
      /\ devices' \in Seq(DeviceRecord) /\ Len(devices') = Len(devices)
  BY <1>1 DEF IInv, TypeOK
<1>9. CASE granted
  <2>1. pc' = "sleep" /\ UseQuantum /\ UNCHANGED <<state, waiting, running, ready, mixed>>
    BY <1>1, <1>9
  <2>2. Placement' /\ IdleState' BY <1>6, <2>1, PlaceKept
  <2>3. curTp' \in 0..Quantum BY <1>1, <2>1, UseQuantumType
  <2>4. /\ waiting' \subseteq UserPid /\ state' \in [Pid -> States]
        /\ running' \in Pid \cup {NoPid}
    BY <2>1 DEF IInv, TypeOK
  <2> QED BY <1>1, <1>6, <1>7, <1>8, <2>1, <2>2, <2>3, <2>4, RunKeeps
<1>10. CASE ~ granted
  <2>1. Block(running) /\ curTp' = curTp BY <1>1, <1>10
  <2>2. /\ Placement' /\ IdleState'
        /\ waiting' \subseteq UserPid /\ state' \in [Pid -> States]
    BY <1>1, <1>2, <1>6, <2>1, PlaceBlocked
  <2>3. running' \in Pid \cup {NoPid} /\ pc' = "schedule" BY <2>1 DEF Block
  <2>4. curTp' \in 0..Quantum BY <2>1 DEF IInv, TypeOK
  <2> QED BY <1>1, <1>6, <1>7, <1>8, <2>2, <2>3, <2>4, RunKeeps
<1> QED BY <1>9, <1>10

\* The record of a process that has no program.
LEMMA EmptyProcess ==
  /\ Process(<<>>) \in ProcessRecord
  /\ Process(<<>>).code = <<>> /\ Process(<<>>).workload = 0
<1>1. CostFrom(<<>>, 1) \in Int BY CostType
<1> QED BY <1>1, WordSizeAssumption DEF Process, ProcessRecord, Word

\* The record of a process that has just been loaded.
LEMMA NewProcess ==
  ASSUME NEW c \in Programs
  PROVE  /\ Process(c) \in ProcessRecord
         /\ Process(c).code = c /\ Process(c).workload = 0 /\ Process(c).ip = 1
         /\ 1 <= Len(c)
<1>1. CostFrom(c, 1) \in Int BY CostType
<1>2. c \in Seq(Instruction) /\ c # <<>> BY ProgramFacts
<1> QED BY <1>1, <1>2, WordSizeAssumption DEF Process, ProcessRecord, Word

\* A step that gives p a new record with no work in it.
LEMMA ProcReplaced ==
  ASSUME IInv, NEW p \in UserPid, NEW r \in ProcessRecord,
         proc' = [proc EXCEPT ![p] = r],
         r.workload = 0, r.code # <<>> => r.ip <= Len(r.code)
  PROVE  /\ proc' \in [UserPid -> ProcessRecord]
         /\ \A q \in UserPid : q # p => Loaded(q)' = Loaded(q)
         /\ \A q \in UserPid : Loaded(q)' => proc'[q].ip <= Len(proc'[q].code)
         /\ BurstFetched'
<1>1. proc \in [UserPid -> ProcessRecord] BY ProcFacts
<1>2. /\ proc' \in [UserPid -> ProcessRecord] /\ proc'[p] = r
      /\ \A q \in UserPid : q # p => proc'[q] = proc[q]
  BY <1>1
<1>3. ASSUME NEW q \in UserPid
      PROVE  /\ q # p => Loaded(q)' = Loaded(q)
             /\ Loaded(q)' => proc'[q].ip <= Len(proc'[q].code)
             /\ proc'[q].workload > 0 => proc'[q].ip > 1
  <2>1. CASE q = p BY <2>1, <1>2 DEF Loaded
  <2>2. CASE q # p BY <2>2, <1>2, ProcFacts DEF Loaded
  <2> QED BY <2>1, <2>2
<1> QED BY <1>2, <1>3 DEF BurstFetched

\* kill() keeps the types of the processes, the devices and the file table.
LEMMA KillTypes ==
  ASSUME IInv, NEW p \in UserPid, Kill(p)
  PROVE  /\ proc' \in [UserPid -> ProcessRecord]
         /\ \A q \in UserPid : Loaded(q)' => proc'[q].ip <= Len(proc'[q].code)
         /\ BurstFetched'
         /\ devices' \in Seq(DeviceRecord) /\ Len(devices') = Len(devices)
         /\ sft' \in [Files -> FileRecord]
<1>1. proc' = [proc EXCEPT ![p] = Process(<<>>)] BY DEF Kill
<1>2. /\ proc' \in [UserPid -> ProcessRecord]
      /\ \A q \in UserPid : Loaded(q)' => proc'[q].ip <= Len(proc'[q].code)
      /\ BurstFetched'
  BY <1>1, EmptyProcess, ProcReplaced
<1>3. devices' \in Seq(DeviceRecord) /\ Len(devices') = Len(devices)
  <2>1. devices' = [d \in 1..Len(devices) |-> Popped(devices[d], p)] BY DEF Kill
  <2>2. \A d \in 1..Len(devices) : Popped(devices[d], p) \in DeviceRecord
    BY DeviceFacts, PoppedType
  <2> QED BY <2>1, <2>2, DeviceFacts
<1>4. sft' \in [Files -> FileRecord]
  <2>1. sft \in [Files -> FileRecord] BY DEF IInv, TypeOK
  <2>2. \A f \in Files : Closed(sft[f]) \in FileRecord
    <3> TAKE f \in Files
    <3>1. sft[f] \in FileRecord BY <2>1
    <3>2. Read \in {Read, Write} OBVIOUS
    <3> QED BY <3>1, <3>2, FileTypes
  <2> QED BY <2>1, <2>2 DEF Kill
<1> QED BY <1>2, <1>3, <1>4

\* The end of a process keeps the invariant.
LEMMA ExitKeeps ==
  ASSUME IInv, RunExit PROVE IInv'
<1>1. /\ pc = "run" /\ running # 0 /\ Kill(running) /\ running' = NoPid /\ pc' = "schedule"
      /\ UNCHANGED <<pollAt, wakeq, site, algo, curTp>>
  BY DEF RunExit, Running, kernel
<1>2. running \in UserPid BY <1>1, FetchFacts
<1>3. /\ Placement' /\ IdleState'
      /\ ready' \in Seq(Pid) /\ waiting' \subseteq UserPid /\ mixed' \subseteq UserPid
      /\ state' \in [Pid -> States]
  BY <1>1, <1>2, PlaceKilled
<1>4. /\ proc' \in [UserPid -> ProcessRecord]
      /\ \A q \in UserPid : Loaded(q)' => proc'[q].ip <= Len(proc'[q].code)
      /\ BurstFetched'
      /\ devices' \in Seq(DeviceRecord) /\ Len(devices') = Len(devices)
      /\ sft' \in [Files -> FileRecord]
  BY <1>1, <1>2, KillTypes
<1>5. wakeq' \in Seq(UserPid) /\ curTp' \in 0..Quantum BY <1>1 DEF IInv, TypeOK
<1> QED BY <1>1, <1>3, <1>4, <1>5, RunKeeps

\* A byte that is no instruction keeps the invariant.
LEMMA UnknownKeeps ==
  ASSUME IInv, RunUnknown PROVE IInv'
<1> DEFINE p == running
           r == [proc[p] EXCEPT !.ip = @ + 1]
<1>1. /\ pc = "run" /\ p # 0 /\ Instr(p).op \notin {"ret", "fault"} /\ proc[p].workload = 0
      /\ proc' = [proc EXCEPT ![p] = r] /\ pc' = "sleep"
      /\ UNCHANGED <<pollAt, wakeq, site, algo, ready, waiting, mixed, running, curTp, state, devices, sft>>
  BY DEF RunUnknown, Running, kernel, lists, EndTick
<1>2. p \in UserPid /\ proc[p].ip \in Nat \ {0} /\ proc[p].ip + 1 <= Len(proc[p].code)
  BY <1>1, FetchFacts, ProcFacts
<1>3. r \in ProcessRecord /\ r.code = proc[p].code /\ r.workload = 0 /\ r.ip = proc[p].ip + 1
  <2>1. proc[p] \in ProcessRecord /\ proc[p].ip + 1 \in Nat \ {0} BY <1>2, ProcFacts
  <2> QED BY <1>1, <2>1 DEF ProcessRecord
<1>4. /\ proc' \in [UserPid -> ProcessRecord]
      /\ \A q \in UserPid : Loaded(q)' = Loaded(q)
      /\ \A q \in UserPid : Loaded(q)' => proc'[q].ip <= Len(proc'[q].code)
      /\ BurstFetched'
  <2>1. r.ip <= Len(proc[p].code) /\ r.ip > 1 BY <1>2, <1>3
  <2> HIDE DEF r
  <2> QED BY <1>1, <1>2, <1>3, <2>1, ProcChanged
<1>5. Placement' /\ IdleState' BY <1>1, <1>4, PlaceKept
<1>6. /\ ready' \in Seq(Pid) /\ waiting' \subseteq UserPid /\ mixed' \subseteq UserPid
      /\ state' \in [Pid -> States] /\ running' \in Pid \cup {NoPid}
      /\ devices' \in Seq(DeviceRecord) /\ Len(devices') = Len(devices)
      /\ wakeq' \in Seq(UserPid) /\ curTp' \in 0..Quantum /\ sft' \in [Files -> FileRecord]
  BY <1>1 DEF IInv, TypeOK
<1> QED BY <1>1, <1>4, <1>5, <1>6, RunKeeps

\* A FILE_WAKE keeps the invariant.
LEMMA WakeKeeps ==
  ASSUME IInv, WakeOne PROVE IInv'
<1> DEFINE p == Head(wakeq)
           w == WorkloadWoken(p)
           r == [proc[p] EXCEPT !.workload = w]
<1>1. /\ pc = "wake" /\ WakeLists(p) /\ wakeq' = Tail(wakeq)
      /\ proc' = [proc EXCEPT ![p] = r]
      /\ pc' = (IF Tail(wakeq) = <<>> THEN "sleep" ELSE "wake")
      /\ UNCHANGED <<pollAt, site, algo, running, curTp, devices, sft>>
  BY DEF WakeOne
<1>2. wakeq \in Seq(UserPid) /\ wakeq # <<>> BY <1>1 DEF IInv, TypeOK
<1>3. p \in UserPid /\ wakeq' \in Seq(UserPid) BY <1>1, <1>2
<1>4. w \in {0, proc[p].workload} BY DEF WorkloadWoken
<1> HIDE DEF p, w
<1>5. w \in Word /\ (w > 0 => proc[p].ip > 1) BY <1>3, <1>4, ProcFacts, WordSizeAssumption DEF Word
<1>6. r \in ProcessRecord /\ r.code = proc[p].code /\ r.workload = w /\ r.ip = proc[p].ip
  BY <1>3, <1>5, ProcFacts DEF ProcessRecord
<1>7. /\ proc' \in [UserPid -> ProcessRecord]
      /\ \A q \in UserPid : Loaded(q)' = Loaded(q)
      /\ \A q \in UserPid : Loaded(q)' => proc'[q].ip <= Len(proc'[q].code)
      /\ BurstFetched'
  <2>1. Loaded(p) => r.ip <= Len(proc[p].code) BY <1>3, <1>6, ProcFacts
  <2> HIDE DEF r
  <2> QED BY <1>1, <1>3, <1>5, <1>6, <2>1, ProcChanged
<1>8. /\ Placement' /\ IdleState'
      /\ ready' \in Seq(Pid) /\ waiting' \subseteq UserPid /\ mixed' \subseteq UserPid
      /\ state' \in [Pid -> States]
  BY <1>1, <1>3, <1>7, PlaceWoken
<1>9. /\ running' \in Pid \cup {NoPid} /\ curTp' \in 0..Quantum
      /\ devices' \in Seq(DeviceRecord) /\ Len(devices') = Len(devices)
      /\ sft' \in [Files -> FileRecord]
  BY <1>1 DEF IInv, TypeOK
<1>10. pc' \in {"sleep", "schedule", "wake"} /\ (pc' = "wake" => wakeq' # <<>>) BY <1>1
<1> QED BY <1>1, <1>3, <1>7, <1>8, <1>9, <1>10, RunKeeps

-----------------------------------------------------------------------------
(* The commands of the shell *)

\* What a command of the shell has to show to keep the invariant.
LEMMA CommandKeeps ==
  ASSUME IInv, pc = "sleep", UNCHANGED <<pc, pollAt, wakeq, site, curTp>>,
         algo' \in Algorithms,
         proc' \in [UserPid -> ProcessRecord],
         \A q \in UserPid : Loaded(q)' => proc'[q].ip <= Len(proc'[q].code),
         BurstFetched', Placement', IdleState',
         ready' \in Seq(Pid), waiting' \subseteq UserPid, mixed' \subseteq UserPid,
         state' \in [Pid -> States], running' \in Pid \cup {NoPid},
         devices' \in Seq(DeviceRecord),
         sft' \in [Files -> FileRecord]
  PROVE  IInv'
<1>1. pollAt' = 0 BY DEF IInv, PollEnds
<1>2. 0 \in 0..Len(devices') BY LenProperties
<1>3. TypeOK' BY <1>1, <1>2 DEF IInv, TypeOK
<1>4. QuantumLeft' /\ PollEnds' BY <1>1 DEF QuantumLeft, PollEnds
<1> QED BY <1>3, <1>4 DEF IInv

\* exec of a program keeps the invariant.
LEMMA ExecKeeps ==
  ASSUME IInv, NEW p \in UserPid, NEW code \in Programs, Exec(p, code) PROVE IInv'
<1>1. /\ pc = "sleep" /\ ~ Live(p) /\ Enqueue(p)
      /\ state' = [state EXCEPT ![p] = "READY"]
      /\ proc' = [proc EXCEPT ![p] = Process(code)]
      /\ UNCHANGED <<pc, pollAt, wakeq, site, algo, waiting, running, curTp, devices, sft>>
  BY DEF Exec, IsNewPid, FreePids, kernel
<1>2. /\ Placement' /\ IdleState' /\ ready' \in Seq(Pid) /\ mixed' \subseteq UserPid
      /\ state' \in [Pid -> States]
  BY <1>1, PlaceCreated
<1>3. /\ proc' \in [UserPid -> ProcessRecord]
      /\ \A q \in UserPid : Loaded(q)' => proc'[q].ip <= Len(proc'[q].code)
      /\ BurstFetched'
  BY <1>1, NewProcess, ProcReplaced
<1>4. /\ algo' \in Algorithms /\ waiting' \subseteq UserPid
      /\ running' \in Pid \cup {NoPid}
      /\ devices' \in Seq(DeviceRecord) /\ sft' \in [Files -> FileRecord]
  BY <1>1 DEF IInv, TypeOK
<1> QED BY <1>1, <1>2, <1>3, <1>4, CommandKeeps

\* exec of a file that is no program keeps the invariant.
LEMMA ExecBadKeeps ==
  ASSUME IInv, NEW p \in UserPid, ExecBad(p) PROVE IInv'
<1>1. /\ pc = "sleep" /\ ~ Live(p)
      /\ state' = [state EXCEPT ![p] = "READY"]
      /\ proc' = [proc EXCEPT ![p] = Process(<<>>)]
      /\ UNCHANGED <<pc, pollAt, wakeq, site, algo, ready, waiting, mixed, running, curTp, devices, sft>>
  BY DEF ExecBad, IsNewPid, FreePids, kernel, lists
<1>2. /\ proc' \in [UserPid -> ProcessRecord]
      /\ \A q \in UserPid : q # p => Loaded(q)' = Loaded(q)
      /\ \A q \in UserPid : Loaded(q)' => proc'[q].ip <= Len(proc'[q].code)
      /\ BurstFetched'
  BY <1>1, EmptyProcess, ProcReplaced
<1>3. ~ Loaded(p)'
  BY <1>1, ProcFacts, EmptyProcess DEF Loaded
<1>4. /\ state' \in [Pid -> States] /\ state'[p] = "READY"
      /\ \A q \in Pid : q # p => state'[q] = state[q]
  BY <1>1, ListFacts, PidFacts DEF States
<1>5. ASSUME NEW q \in UserPid PROVE InItsPlace(q)'
  <2>1. InItsPlace(q) /\ q \in Pid BY PidFacts DEF IInv, Placement
  <2>2. CASE q = p BY <1>1, <1>3, <1>4, <2>1, <2>2 DEF InItsPlace, Live
  <2>3. CASE q # p BY <1>1, <1>2, <1>4, <2>1, <2>3 DEF InItsPlace
  <2> QED BY <2>2, <2>3
<1>6. Placement' /\ IdleState' BY <1>1, <1>4, <1>5, PidFacts DEF IInv, IdleState, Placement
<1>7. /\ algo' \in Algorithms /\ waiting' \subseteq UserPid /\ mixed' \subseteq UserPid
      /\ ready' \in Seq(Pid) /\ running' \in Pid \cup {NoPid}
      /\ devices' \in Seq(DeviceRecord) /\ sft' \in [Files -> FileRecord]
  BY <1>1 DEF IInv, TypeOK
<1> QED BY <1>1, <1>2, <1>4, <1>6, <1>7, CommandKeeps

\* kill keeps the invariant.
LEMMA SafeKillKeeps ==
  ASSUME IInv, NEW p \in UserPid, SafeKill(p) PROVE IInv'
<1>1. /\ pc = "sleep" /\ Kill(p) /\ running' = (IF running = p THEN NoPid ELSE running)
      /\ UNCHANGED <<pc, pollAt, wakeq, site, algo, curTp>>
  BY DEF SafeKill, kernel
<1>2. /\ Placement' /\ IdleState'
      /\ ready' \in Seq(Pid) /\ waiting' \subseteq UserPid /\ mixed' \subseteq UserPid
      /\ state' \in [Pid -> States]
  BY <1>1, PlaceKilled
<1>3. /\ proc' \in [UserPid -> ProcessRecord]
      /\ \A q \in UserPid : Loaded(q)' => proc'[q].ip <= Len(proc'[q].code)
      /\ BurstFetched'
      /\ devices' \in Seq(DeviceRecord)
      /\ sft' \in [Files -> FileRecord]
  BY <1>1, KillTypes
<1>4. algo' \in Algorithms /\ running' \in Pid \cup {NoPid} BY <1>1 DEF IInv, TypeOK
<1> QED BY <1>1, <1>2, <1>3, <1>4, CommandKeeps

\* chalg, mount and unmount keep the invariant.
LEMMA SettingsKeep ==
  ASSUME IInv,
         (\E a \in Switches : Chalg(a)) \/ Mount \/ \E d \in 1..Len(devices) : Unmount(d)
  PROVE  IInv'
<1>1. /\ pc = "sleep"
      /\ UNCHANGED <<pc, pollAt, wakeq, site, ready, waiting, mixed, running, curTp, state, proc, sft>>
  BY DEF Chalg, Mount, Unmount, kernel, lists
<1>2. algo' \in Algorithms /\ devices' \in Seq(DeviceRecord)
  <2>1. algo \in Algorithms /\ devices \in Seq(DeviceRecord) BY DEF IInv, TypeOK
  <2>2. CASE \E a \in Switches : Chalg(a)
    BY <2>1, <2>2, SchedulerAssumption DEF Chalg
  <2>3. CASE Mount
    <3>1. NewDevice \in DeviceRecord BY EmptySeq DEF NewDevice, DeviceRecord
    <3> QED BY <2>1, <2>3, <3>1 DEF Mount
  <2>4. CASE \E d \in 1..Len(devices) : Unmount(d)
    <3>1. PICK d \in 1..Len(devices) : Unmount(d) BY <2>4
    <3>2. WithoutIndex(devices, d) \in Seq(DeviceRecord) BY <2>1, WithoutIndexOccurs
    <3> QED BY <2>1, <3>1, <3>2 DEF Unmount
  <2> QED BY <2>2, <2>3, <2>4
<1>3. Placement' /\ IdleState' BY <1>1, PlaceKept DEF Loaded
<1>4. /\ proc' \in [UserPid -> ProcessRecord]
      /\ \A q \in UserPid : Loaded(q)' => proc'[q].ip <= Len(proc'[q].code)
      /\ BurstFetched'
      /\ ready' \in Seq(Pid) /\ waiting' \subseteq UserPid /\ mixed' \subseteq UserPid
      /\ state' \in [Pid -> States] /\ running' \in Pid \cup {NoPid}
      /\ sft' \in [Files -> FileRecord]
  BY <1>1 DEF IInv, TypeOK, Loaded, BurstFetched
<1> QED BY <1>1, <1>2, <1>3, <1>4, CommandKeeps
=============================================================================
