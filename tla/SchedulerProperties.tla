------------------------ MODULE SchedulerProperties ------------------------
(***************************************************************************)
(* What should be true of module Scheduler.                                *)
(***************************************************************************)
EXTENDS Scheduler

States == {"NONE", "READY", "RUNNING", "WAITING"}
Sites  == {"none", "poll_empty", "wake_dead", "sjf_empty", "run_idle",
           "no_device", "close_missing"}

ProcessRecord ==
  [code : Programs \cup {<<>>}, ip : Nat \ {0}, workload : Word, est : Int,
   files : SUBSET (Files \cup {Missing})]
DeviceRecord ==
  [occupied : BOOLEAN, queue : Seq([time : Word, pid : UserPid])]
FileRecord ==
  [rw : {Idle, Read, Write}, counter : Int,
   readers : Seq(UserPid), writers : Seq(UserPid)]

\* Every variable keeps its type; a program counter stays inside its program.
TypeOK ==
  /\ pc \in {"sleep", "poll", "schedule", "run", "wake", "undefined"}
  /\ pollAt \in 0..Len(devices) /\ (pc = "poll" => pollAt > 0)
  /\ wakeq \in Seq(UserPid) /\ (pc = "wake" => wakeq # <<>>)
  /\ site \in Sites
  /\ algo \in Algorithms
  /\ ready \in Seq(Pid) /\ waiting \subseteq UserPid /\ mixed \subseteq UserPid
  /\ running \in Pid \cup {NoPid} /\ (pc = "run" => running # NoPid)
  /\ curTp \in 0..Quantum
  /\ state \in [Pid -> States]
  /\ proc \in [UserPid -> ProcessRecord]
  /\ \A p \in UserPid : Loaded(p) => proc[p].ip <= Len(proc[p].code)
  /\ devices \in Seq(DeviceRecord)
  /\ sft \in [Files -> FileRecord]

-----------------------------------------------------------------------------
(* Where a process is *)

(***************************************************************************)
(* A process is in exactly the place its state word names: READY in one of *)
(* the ready lists, once; WAITING in waiting; RUNNING in running; a killed *)
(* one nowhere.  The two writes are apart in the code, for every handler.  *)
(* A process whose program did not load is READY and in no list.           *)
(***************************************************************************)
InItsPlace(p) ==
  /\ Once(ready, p)
  /\ running = p <=> state[p] = "RUNNING"
  /\ p \in waiting <=> state[p] = "WAITING"
  /\ Occurs(ready, p) \/ p \in mixed <=> state[p] = "READY" /\ Loaded(p)
  /\ ~ (Occurs(ready, p) /\ p \in mixed)
  /\ state[p] # "NONE" /\ ~ Loaded(p) => state[p] = "READY"

Placement == \A p \in UserPid : InItsPlace(p)

(***************************************************************************)
(* Without SJF there is one idle process: it runs, or it is READY and in   *)
(* the ready list once.  So the ready list is never empty when the running *)
(* process gives up the processor.                                         *)
(***************************************************************************)
IdleOnce ==
  /\ Once(ready, 0)
  /\ running = 0 <=> state[0] = "RUNNING"
  /\ Occurs(ready, 0) <=> state[0] = "READY"

\* FCFS never comes to the return process.cpp:177 marks "should not happen".
FcfsNeverStalls ==
  pc = "schedule" /\ algo = "FCFS" /\ ready = <<>> => running = 0

\* No step of the system is one whose effect C++ leaves undefined.
NeverUndefined == pc # "undefined"

(***************************************************************************)
(* Every request in a device queue is that of a WAITING process, which has *)
(* no other one; and with no file locks every WAITING process has one, in  *)
(* a device that is occupied and so will be polled.                        *)
(***************************************************************************)
Request(d, i, p) == devices[d].queue[i].pid = p

RequestsAreWaiting ==
  \A d \in 1..Len(devices) : \A i \in 1..Len(devices[d].queue) :
    LET p == devices[d].queue[i].pid
    IN  /\ state[p] = "WAITING"
        /\ \A e \in 1..Len(devices) : \A j \in 1..Len(devices[e].queue) :
             Request(e, j, p) => e = d /\ j = i

WaitersAreServed ==
  \A p \in waiting :
    \/ \E d \in 1..Len(devices) :
         devices[d].occupied /\ Requested(devices[d], p)
    \/ \E f \in Files : Occurs(sft[f].readers, p) \/ Occurs(sft[f].writers, p)

-----------------------------------------------------------------------------
(* What makes TypeOK and Placement inductive *)

\* idle is never waiting and never gone; it runs exactly when running says so
IdleState ==
  /\ state[0] \in {"READY", "RUNNING"}
  /\ running = 0 <=> state[0] = "RUNNING"

\* what UseQuantum takes a tick from is not used up
QuantumLeft == pc = "run" /\ algo = "RR" => curTp > 0

\* devices may be unmounted only when no device is being polled
PollEnds == pc \notin {"poll", "undefined"} => pollAt = 0

\* ticks are left only of an instruction that has been fetched
BurstFetched == \A p \in UserPid : proc[p].workload > 0 => proc[p].ip > 1

\* The inductive invariant: the types and the places of the processes, with
\* the facts of the tick and of the idle process that keep them.
IInv == TypeOK /\ Placement /\ IdleState /\ QuantumLeft /\ PollEnds /\ BurstFetched

-----------------------------------------------------------------------------
(* How the processor changes hands *)

LosesCpu(p) == running = p /\ running' # p

(***************************************************************************)
(* FCFS and PRIORITY are "non-preemptive" (process.h:38, :41): a process   *)
(* leaves the processor only by waiting or by ending.  Under RR it may     *)
(* also leave it when its quantum is used up; only SJF takes it away.      *)
(***************************************************************************)
NonPreemptive ==
  [][ \A p \in UserPid :
        LosesCpu(p) /\ algo # "SJF" =>
          \/ state'[p] \in {"WAITING", "NONE"}
          \/ algo = "RR" /\ curTp = 0 ]_vars

(***************************************************************************)
(* No overtaking in the ready list: of two processes in it the one ahead   *)
(* stays ahead, and under FCFS and RR the one behind is not chosen first.  *)
(***************************************************************************)
NoOvertaking ==
  [][ \A p, q \in UserPid :
        p # q /\ Before(ready, p, q) /\ Occurs(ready', p) =>
          /\ Occurs(ready', q) => Before(ready', p, q)
          /\ algo \in {"FCFS", "RR"} => running' # q ]_vars

(***************************************************************************)
(* SJF runs a process with the least estimate: no process in the ready     *)
(* list has less to do than the one that is about to run.                  *)
(***************************************************************************)
ShortestRuns ==
  pc = "run" /\ algo = "SJF" =>
    \A i \in 1..Len(ready) : Est(ready[i]) >= Est(running)

(***************************************************************************)
(* The estimate never promises less than the work that is left: the rest   *)
(* of the instruction, the rest of a device request, and the instructions  *)
(* to come.  (set_pending(), run() and load_prog() keep it together.)      *)
(***************************************************************************)
Requests(p) ==
  {m \in (1..Len(devices)) \X (1..MaxPid) :
     m[2] <= Len(devices[m[1]].queue) /\ Request(m[1], m[2], p)}

DeviceWork(p) ==
  IF Requests(p) = {} THEN 0
  ELSE LET m == CHOOSE m \in Requests(p) : TRUE IN devices[m[1]].queue[m[2]].time

WorkLeft(p) == proc[p].workload + DeviceWork(p) + CostFrom(proc[p].code, proc[p].ip)

EstimateCoversWork ==
  \A p \in UserPid : Live(p) /\ pc # "undefined" => proc[p].est >= WorkLeft(p)

-----------------------------------------------------------------------------
(* The file table *)

\* The counter of a file is the number of live processes that opened it.
CounterIsOpens ==
  \A f \in Files :
    sft[f].counter = Cardinality({p \in UserPid : Live(p) /\ f \in proc[p].files})

\* A file that is not free has a process in the list its lock names.
LockHasOwner ==
  \A f \in Files : /\ (sft[f].rw = Read)  => sft[f].readers # <<>>
                   /\ (sft[f].rw = Write) => sft[f].writers # <<>>

\* p has been let into file f and is not done with it
Uses(p, f) ==
  /\ Live(p) /\ state[p] # "WAITING" /\ proc[p].workload > 0
  /\ Last(p).op \in {"read", "write"} /\ Last(p).file = f

(***************************************************************************)
(* With readers only, the list of a file is the set of the processes that  *)
(* are reading it at this moment, and the lock says so.                    *)
(***************************************************************************)
ReadersAreReading ==
  \A f \in Files :
    /\ \A p \in UserPid : Occurs(sft[f].readers, p) <=> Uses(p, f)
    /\ sft[f].rw = Read <=> sft[f].readers # <<>>

(***************************************************************************)
(* "free" (filesystem.cpp:368): a lock that is free is used by nobody.     *)
(* A process that waited for the file goes on without taking the lock.     *)
(***************************************************************************)
FreeIsUnused ==
  \A f \in Files : sft[f].rw = Idle => (\A p \in UserPid : ~ Uses(p, f))

-----------------------------------------------------------------------------
(* What happens in the end *)

\* Every process that waits is woken: devices are polled in every mode.
WaitersWake == \A p \in UserPid : state[p] = "WAITING" ~> state[p] # "WAITING"

\* As long as FCFS or RR is in force no program starves, however many others are
\* started: it ends, or the algorithm is switched.
ProgramsEnd ==
  \A p \in UserPid : Live(p) /\ Loaded(p) ~> ~ Live(p) \/ algo \notin {"FCFS", "RR"}

-----------------------------------------------------------------------------
LC == INSTANCE Lifecycle WITH Processes <- Pid, IdleProcess <- 0

\* The scheduler implements the life cycle of module Lifecycle.
ImplementsLifecycle == LC!Spec
=============================================================================
