----------------------------- MODULE Scheduler -----------------------------
(***************************************************************************)
(* The scheduler with the devices and the file locks it drives: classes    *)
(* Scheduler, Process and Device, the lock part of class Filesystem, and   *)
(* the loop of Kernel::run that ticks them all.                            *)
(*                                                                         *)
(* One tick of the kernel thread is a walk of pc: "sleep" -> "poll" (one   *)
(* step per device) -> "schedule" (the choice of the process) -> "run"     *)
(* (one step of that process) -> "wake" (the wake-ups FILE_DONE sends) ->  *)
(* "sleep".  When the process blocks or ends, schedule() calls itself: pc  *)
(* goes back to "schedule".  The commands of the shell come while the      *)
(* kernel thread sleeps its two seconds.  A step whose effect C++ leaves   *)
(* undefined ends in pc = "undefined", and site names it.                  *)
(***************************************************************************)
EXTENDS Devices, FileTable, FiniteSets

CONSTANTS
  MaxPid,       \* the last process number handed out (PR::MAX_PROC - 1)
  Files,        \* the files that are there to be opened
  Missing,      \* a file name that opens nothing
  Programs,     \* the executables: sequences of instructions
  CharHalf,     \* 2^7 in the code: an operand is stored in a signed char
  MaxEst,       \* INT_MAX, the estimate of the idle process
  Quantum,      \* PR::RR_TP
  BootAlgs,     \* the algorithms the login dialogue may choose
  Switches,     \* the algorithms chalg may switch to
  Victims,      \* the processes the user may kill
  BadImages,    \* may the user exec a file that does not parse?
  StaleCmd,     \* may the unset info->cmd of a "cal" hold an 'r' or a 'w'?
  MaxDevices,   \* bound: the devices mounted at any time
  Unplug,       \* may the user unmount devices?
  MaxList       \* bound: no exec while a list is longer than this

Algorithms == {"FCFS", "SJF", "RR", "PRIORITY", "MIXED_QUEUE"}
Ops == {"cal", "input", "print", "read", "write", "ret", "bad", "fault"}
Instruction == [op : Ops, arg : Nat, file : Files \cup {Missing}]

UserPid == 2..MaxPid          \* 0 is idle, 1 is init, which is never queued
Pid     == {0} \cup UserPid
NoPid   == -1

ASSUME SchedulerAssumption ==
  /\ MaxPid \in Nat /\ MaxPid >= 2
  /\ Missing \notin Files
  /\ CharHalf \in Nat \ {0}
  /\ MaxEst \in Nat
  /\ Quantum \in Nat \ {0}
  /\ BootAlgs \subseteq Algorithms /\ Switches \subseteq Algorithms
  /\ Victims \subseteq UserPid
  /\ BadImages \in BOOLEAN /\ StaleCmd \in BOOLEAN /\ Unplug \in BOOLEAN
  /\ MaxDevices \in Nat /\ MaxList \in Nat
  /\ Programs \subseteq Seq(Instruction)
  \* a program runs into its ret, or off its memory
  /\ \A c \in Programs :
       /\ c # <<>>
       /\ \A i \in 1..Len(c) : c[i].op \in {"ret", "fault"} <=> i = Len(c)

VARIABLES
  pc, pollAt, wakeq, site,                  \* where the tick is
  algo, ready, waiting, mixed, running, curTp,   \* class Scheduler
  state, proc,                              \* prlist
  devices, sft                              \* class Kernel, class Filesystem

lists   == <<ready, waiting, mixed>>
kernel  == <<pollAt, wakeq, site>>
vars == <<pc, kernel, algo, lists, running, curTp, state, proc, devices, sft>>

-----------------------------------------------------------------------------
(* Programs and processes *)

\* static_cast<char>(arg), then read back as a signed char
Stored(arg) == ((arg + CharHalf) % (2 * CharHalf)) - CharHalf

\* a bug to be caught: only the processor's work is estimated
CostOfCpu(ins) == IF ins.op = "cal" THEN ins.arg ELSE 0

\* what load_prog adds to the estimate for one line of the program
Cost(ins) ==
  IF ins.op \in {"cal", "input", "print", "read", "write"} THEN ins.arg ELSE 0

CostFrom(code, from) ==
  LET sum[i \in 0..Len(code)] ==
        IF i = 0 THEN 0
        ELSE sum[i - 1] + (IF i < from THEN 0 ELSE Cost(code[i]))
  IN  sum[Len(code)]

\* the process record; a process whose program did not load has no code
Process(code) ==
  [code |-> code, ip |-> 1, workload |-> 0, est |-> CostFrom(code, 1), files |-> {}]

Live(p)   == state[p] # "NONE"
Loaded(p) == proc[p].code # <<>>
Instr(p)  == proc[p].code[proc[p].ip]          \* the instruction to fetch
Last(p)   == proc[p].code[proc[p].ip - 1]      \* last_ins and last_file
Est(p)    == IF p = 0 THEN MaxEst ELSE proc[p].est

RwOf(op) == IF op = "read" THEN Read ELSE Write

-----------------------------------------------------------------------------
(* Effects several handlers share *)

Undefined(where) ==
  /\ pc' = "undefined" /\ site' = where
  /\ UNCHANGED <<pollAt, wakeq, algo, lists, running, curTp, state, proc, devices, sft>>

\* where exec() and wake() queue a process that may run
Enqueue(p) ==
  IF algo = "MIXED_QUEUE"
  THEN mixed' = mixed \cup {p} /\ UNCHANGED ready
  ELSE ready' = Append(ready, p) /\ UNCHANGED mixed

\* a bug to be caught: the woken process keeps its state word
WakeListsOnly(p) ==
  IF state[p] = "WAITING"
  THEN /\ waiting' = waiting \ {p}
       /\ Enqueue(p)
       /\ UNCHANGED state
  ELSE UNCHANGED <<state, lists>>

\* wake(p), on the lists and on the state of p
WakeLists(p) ==
  IF state[p] = "WAITING"
  THEN /\ state' = [state EXCEPT ![p] = "READY"]
       /\ waiting' = waiting \ {p}
       /\ Enqueue(p)
  ELSE UNCHANGED <<state, lists>>

\* wake(p), on the work p has left: a process that was not waiting drops it
WorkloadWoken(p) == IF state[p] = "WAITING" THEN proc[p].workload ELSE 0

\* a bug to be caught: the process is in no list while it waits
BlockUnlisted(p) ==
  /\ state' = [state EXCEPT ![p] = "WAITING"]
  /\ running' = NoPid
  /\ pc' = "schedule"
  /\ UNCHANGED waiting

\* the running process p gives up the processor and schedule() starts again
Block(p) ==
  /\ state' = [state EXCEPT ![p] = "WAITING"]
  /\ waiting' = waiting \cup {p}
  /\ running' = NoPid
  /\ pc' = "schedule"

\* a bug to be caught: a killed process stays in the ready list
KillReady(p) ==
  /\ state' = [state EXCEPT ![p] = "NONE"]
  /\ proc' = [proc EXCEPT ![p] = Process(<<>>)]
  /\ sft' = [f \in Files |->
               IF f \in proc[p].files THEN Closed(sft[f]) ELSE sft[f]]
  /\ devices' = [d \in 1..Len(devices) |-> Popped(devices[d], p)]
  /\ waiting' = waiting \ {p}
  /\ mixed' = mixed \ {p}
  /\ UNCHANGED ready

\* kill(p), and Process::release() in it
Kill(p) ==
  /\ state' = [state EXCEPT ![p] = "NONE"]
  /\ proc' = [proc EXCEPT ![p] = Process(<<>>)]
  /\ sft' = [f \in Files |->
               IF f \in proc[p].files THEN Closed(sft[f]) ELSE sft[f]]
  /\ devices' = [d \in 1..Len(devices) |-> Popped(devices[d], p)]
  /\ ready' = Without(ready, p)
  /\ waiting' = waiting \ {p}
  /\ mixed' = mixed \ {p}

\* release() closes file number -1 for every name that opened nothing
ClosesNothing(p) == Missing \in proc[p].files

-----------------------------------------------------------------------------
(* The kernel thread: one tick *)

BeginTick ==
  /\ pc = "sleep"
  /\ IF devices = <<>> THEN pc' = "schedule" /\ UNCHANGED pollAt
                       ELSE pc' = "poll" /\ pollAt' = 1
  /\ UNCHANGED <<wakeq, site, algo, lists, running, curTp, state, proc, devices, sft>>

NextDevice ==
  IF pollAt = Len(devices) THEN pc' = "schedule" /\ pollAt' = 0
                           ELSE pc' = "poll" /\ pollAt' = pollAt + 1

PollIdle ==
  /\ pc = "poll" /\ ~ devices[pollAt].occupied
  /\ NextDevice
  /\ UNCHANGED <<wakeq, site, algo, lists, running, curTp, state, proc, devices, sft>>

\* poll() reads the front of its queue without asking whether there is one
PollEmpty ==
  /\ pc = "poll" /\ devices[pollAt].occupied /\ devices[pollAt].queue = <<>>
  /\ Undefined("poll_empty")

\* DEVICE_DONE for a process that is no more
PollDead ==
  /\ pc = "poll" /\ devices[pollAt].occupied /\ devices[pollAt].queue # <<>>
  /\ Completes(devices[pollAt]) /\ ~ Live(devices[pollAt].queue[1].pid)
  /\ Undefined("wake_dead")

(***************************************************************************)
(* A tick of an occupied device: DEVICE_DONE wakes the front process when  *)
(* it is served, and set_pending() takes the tick off its estimate.  Only  *)
(* set_pending() asks whether the process is still there.                  *)
(***************************************************************************)
PollBusy ==
  /\ pc = "poll" /\ devices[pollAt].occupied /\ devices[pollAt].queue # <<>>
  /\ LET d == devices[pollAt]
         p == d.queue[1].pid
     IN  /\ Completes(d) => Live(p)
         /\ IF Completes(d) THEN WakeLists(p) ELSE UNCHANGED <<state, lists>>
         /\ proc' = IF Live(p)
                    THEN [proc EXCEPT ![p].est = @ - 1,
                            ![p].workload = IF Completes(d) THEN WorkloadWoken(p) ELSE @]
                    ELSE proc
         /\ devices' = [devices EXCEPT ![pollAt] = Polled(d)]
         /\ NextDevice
  /\ UNCHANGED <<wakeq, site, algo, running, curTp, sft>>

-----------------------------------------------------------------------------
(* schedule(): the choice of the process, for each algorithm *)

Choosing(a) == pc = "schedule" /\ algo = a

\* a tick that runs no process: idle, or nothing at all
EndTick == pc' = "sleep"
KeepRest == UNCHANGED <<kernel, algo, waiting, mixed, proc, devices, sft>>

FcfsNothing ==         \* "should not happen", unless idle is the one running
  /\ Choosing("FCFS") /\ ready = <<>>
  /\ EndTick
  /\ UNCHANGED <<running, curTp, state, ready>> /\ KeepRest

FcfsKeep ==
  /\ Choosing("FCFS") /\ ready # <<>> /\ running > 0
  /\ pc' = "run"
  /\ UNCHANGED <<running, curTp, state, ready>> /\ KeepRest

FcfsGoIdle ==
  /\ Choosing("FCFS") /\ running <= 0 /\ ready = <<0>>
  /\ ready' = <<>> /\ running' = 0
  /\ state' = [state EXCEPT ![0] = "RUNNING"]
  /\ EndTick
  /\ UNCHANGED curTp /\ KeepRest

\* a bug to be caught: idle is dropped
TurnedLost == IF Head(ready) = 0 THEN Tail(ready) ELSE ready

\* idle at the front goes to the back
Turned == IF Head(ready) = 0 THEN Append(Tail(ready), 0) ELSE ready

\* ... and an idle process that ran goes after it
FcfsDispatch ==
  /\ Choosing("FCFS") /\ running <= 0 /\ ready # <<>> /\ ready # <<0>>
  /\ LET pid == Head(Turned)
     IN  /\ ready' = IF running = 0 THEN Append(Tail(Turned), 0) ELSE Tail(Turned)
         /\ running' = pid
         /\ state' = IF running = 0
                     THEN [state EXCEPT ![0] = "READY", ![pid] = "RUNNING"]
                     ELSE [state EXCEPT ![pid] = "RUNNING"]
  /\ pc' = "run"
  /\ UNCHANGED curTp /\ KeepRest

\* min_element: the first of the elements with the least estimate
Shortest(s, i) ==
  \A j \in 1..Len(s) : \/ Est(s[i]) < Est(s[j])
                       \/ Est(s[i]) = Est(s[j]) /\ i <= j

SjfEmpty ==            \* min_element of an empty list is dereferenced
  /\ Choosing("SJF") /\ ready = <<>>
  /\ Undefined("sjf_empty")

\* with nothing running idle takes over, and stays in the ready list as well
SjfCurrent == IF running = NoPid THEN 0 ELSE running

\* a bug to be caught: the running process is never preempted
SjfKeepAlways ==
  /\ Choosing("SJF") /\ running > 0 /\ ready # <<>>
  /\ pc' = "run"
  /\ UNCHANGED <<running, curTp, state, ready>> /\ KeepRest

SjfKeep ==
  /\ Choosing("SJF")
  /\ \E i \in 1..Len(ready) :
       Shortest(ready, i) /\ Est(ready[i]) >= Est(SjfCurrent)
  /\ running' = SjfCurrent
  /\ state' = IF running = NoPid THEN [state EXCEPT ![0] = "RUNNING"] ELSE state
  /\ IF SjfCurrent = 0 THEN EndTick ELSE pc' = "run"
  /\ UNCHANGED <<ready, curTp>> /\ KeepRest

SjfPreempt ==
  /\ Choosing("SJF")
  /\ \E i \in 1..Len(ready) :
       /\ Shortest(ready, i) /\ Est(ready[i]) < Est(SjfCurrent)
       /\ state' = [state EXCEPT ![SjfCurrent] = "READY", ![ready[i]] = "RUNNING"]
       /\ ready' = Append(WithoutIndex(ready, i), SjfCurrent)
       /\ running' = ready[i]
       /\ IF ready[i] = 0 THEN EndTick ELSE pc' = "run"
  /\ UNCHANGED curTp /\ KeepRest

\* a bug to be caught: off by one
QuantumOverEarly == curTp <= 1

QuantumOver == curTp = 0

\* a bug to be caught: the new quantum is not granted
RrExpireForGood ==
  /\ Choosing("RR") /\ QuantumOver
  /\ IF running >= 0
     THEN /\ state' = [state EXCEPT ![running] = "READY"]
          /\ ready' = Append(ready, running)
          /\ running' = NoPid
     ELSE UNCHANGED <<state, ready, running>>
  /\ UNCHANGED <<pc, curTp>> /\ KeepRest

RrExpire ==
  /\ Choosing("RR") /\ QuantumOver
  /\ curTp' = Quantum
  /\ IF running >= 0
     THEN /\ state' = [state EXCEPT ![running] = "READY"]
          /\ ready' = Append(ready, running)
          /\ running' = NoPid
     ELSE UNCHANGED <<state, ready, running>>
  /\ UNCHANGED pc /\ KeepRest

\* a bug to be caught: the list is used as a stack
RrTakeBack ==
  /\ Choosing("RR") /\ ~ QuantumOver /\ running = NoPid /\ ready # <<>>
  /\ curTp' = Quantum
  /\ running' = ready[Len(ready)] /\ ready' = SubSeq(ready, 1, Len(ready) - 1)
  /\ state' = [state EXCEPT ![ready[Len(ready)]] = "RUNNING"]
  /\ UNCHANGED pc /\ KeepRest

\* ready.front(): were the list empty the model would stop (so in PrPick)
RrTake ==
  /\ Choosing("RR") /\ ~ QuantumOver /\ running = NoPid /\ ready # <<>>
  /\ curTp' = Quantum
  /\ running' = Head(ready) /\ ready' = Tail(ready)
  /\ state' = [state EXCEPT ![Head(ready)] = "RUNNING"]
  /\ UNCHANGED pc /\ KeepRest

\* bugs to be caught: idle is not queued again; idle is still called running
RrLoseIdle ==
  /\ Choosing("RR") /\ ~ QuantumOver /\ running = 0 /\ ready # <<>>
  /\ curTp' = Quantum
  /\ running' = Head(ready) /\ ready' = Tail(ready)
  /\ state' = [state EXCEPT ![0] = "READY", ![Head(ready)] = "RUNNING"]
  /\ pc' = "run"
  /\ KeepRest
RrKeepIdle ==
  /\ Choosing("RR") /\ ~ QuantumOver /\ running = 0 /\ ready # <<>>
  /\ curTp' = Quantum
  /\ running' = Head(ready) /\ ready' = Append(Tail(ready), 0)
  /\ state' = [state EXCEPT ![Head(ready)] = "RUNNING"]
  /\ pc' = "run"
  /\ KeepRest

RrLeaveIdle ==
  /\ Choosing("RR") /\ ~ QuantumOver /\ running = 0 /\ ready # <<>>
  /\ curTp' = Quantum
  /\ running' = Head(ready) /\ ready' = Append(Tail(ready), 0)
  /\ state' = [state EXCEPT ![0] = "READY", ![Head(ready)] = "RUNNING"]
  /\ pc' = "run"
  /\ KeepRest

RrIdle ==
  /\ Choosing("RR") /\ ~ QuantumOver /\ running = 0 /\ ready = <<>>
  /\ curTp' = curTp - 1
  /\ EndTick
  /\ UNCHANGED <<running, state, ready>> /\ KeepRest

RrKeep ==
  /\ Choosing("RR") /\ ~ QuantumOver /\ running > 0
  /\ pc' = "run"
  /\ UNCHANGED <<running, curTp, state, ready>> /\ KeepRest

PrKeep ==
  /\ Choosing("PRIORITY") /\ running > 0
  /\ pc' = "run"
  /\ UNCHANGED <<running, curTp, state, ready>> /\ KeepRest

\* the choice goes by the estimate: the priority is never looked at
PrPick ==
  /\ Choosing("PRIORITY") /\ running <= 0
  /\ LET list == IF running = 0 THEN Append(ready, 0) ELSE ready
     IN  \E i \in 1..Len(list) :
           /\ Shortest(list, i)
           /\ running' = list[i]
           /\ ready' = WithoutIndex(list, i)
           /\ state' = IF running = 0
                       THEN [state EXCEPT ![0] = "READY", ![list[i]] = "RUNNING"]
                       ELSE [state EXCEPT ![list[i]] = "RUNNING"]
           /\ IF list[i] = 0 THEN EndTick ELSE pc' = "run"
  /\ UNCHANGED curTp /\ KeepRest

MqNothing ==           \* "should not happen": the branch is commented out
  /\ Choosing("MIXED_QUEUE")
  /\ EndTick
  /\ UNCHANGED <<running, curTp, state, ready>> /\ KeepRest

Choose ==
  \/ FcfsNothing \/ FcfsKeep \/ FcfsGoIdle \/ FcfsDispatch
  \/ SjfEmpty \/ SjfKeep \/ SjfPreempt
  \/ RrExpire \/ RrTake \/ RrLeaveIdle \/ RrIdle \/ RrKeep
  \/ PrKeep \/ PrPick
  \/ MqNothing

-----------------------------------------------------------------------------
(* Process::run() and what schedule() does with its result *)

Running(op) ==
  pc = "run" /\ running # 0 /\ proc[running].workload = 0 /\ Instr(running).op \in op

\* one tick of the round robin quantum is used
UseQuantum == curTp' = IF algo = "RR" THEN curTp - 1 ELSE curTp

\* FILE_DONE: fpop() by process p, followed by its wake-ups
FileDone(p, f, rw) ==
  LET e == Done(sft[f], rw, p)
  IN  /\ sft' = [sft EXCEPT ![f] = e]
      /\ wakeq' = ToWake(e, rw)
      /\ pc' = IF ToWake(e, rw) = <<>> THEN "sleep" ELSE "wake"

RunIdleProgram ==      \* the idle process was chosen: it has no memory to run in
  /\ pc = "run" /\ running = 0
  /\ Undefined("run_idle")

\* a tick of work left from the current instruction
RunBurst ==
  /\ pc = "run" /\ running # 0 /\ proc[running].workload > 0
  /\ proc' = [proc EXCEPT ![running].workload = @ - 1, ![running].est = @ - 1]
  /\ UseQuantum
  /\ LET last == Last(running)
     IN  IF proc[running].workload = 1 /\ last.op \in {"read", "write"} /\ last.file # Missing
         THEN FileDone(running, last.file, RwOf(last.op))
         ELSE pc' = "sleep" /\ UNCHANGED <<sft, wakeq>>
  /\ UNCHANGED <<pollAt, site, algo, lists, running, state, devices>>

\* the first tick of a "cal"; info->cmd keeps what the heap had there
RunCal ==
  /\ Running({"cal"})
  /\ proc' = [proc EXCEPT
               ![running].workload = (Stored(Instr(running).arg) - 1) % WordSize,
               ![running].est = @ - 1,
               ![running].ip = @ + 1]
  /\ UseQuantum
  /\ \/ pc' = "sleep" /\ UNCHANGED <<sft, wakeq>>
     \/ StaleCmd /\ \E f \in Files, rw \in {Read, Write} : FileDone(running, f, rw)
  /\ UNCHANGED <<pollAt, site, algo, lists, running, state, devices>>

\* "print" goes to devices[0] and "input" to devices[1], whatever is there
DeviceOf(op) == IF op = "print" THEN 1 ELSE 2

RunDevice ==
  /\ Running({"input", "print"})
  /\ LET ins == Instr(running)
         d   == DeviceOf(ins.op)
     IN  /\ d <= Len(devices)
         /\ devices' = [devices EXCEPT ![d] = Require(@, Stored(ins.arg), running)]
  /\ proc' = [proc EXCEPT ![running].ip = @ + 1]
  /\ Block(running)
  /\ UNCHANGED <<kernel, algo, ready, mixed, curTp, sft>>

RunNoDevice ==         \* devices[did] is past the end of the vector
  /\ Running({"input", "print"})
  /\ DeviceOf(Instr(running).op) > Len(devices)
  /\ Undefined("no_device")

\* a bug to be caught: every access opens the file
AccessReopened(f, rw, p) == Accessed(Opened(sft[f]), rw, p)

\* the open of the first access to a file, then fread() or fwrite()
Access(f, rw, p) ==
  LET e == sft[f] IN Accessed(IF f \in proc[p].files THEN e ELSE Opened(e), rw, p)

\* file number -1 is granted at once, and takes no lock
Granted(f, rw) == f = Missing \/ Grants(sft[f], rw)

RunFile ==
  /\ Running({"read", "write"})
  /\ LET p    == running
         ins  == Instr(p)
         rw   == RwOf(ins.op)
         work == Stored(ins.arg) % WordSize
     IN  /\ sft' = IF ins.file = Missing THEN sft
                   ELSE [sft EXCEPT ![ins.file] = Access(ins.file, rw, p)]
         /\ proc' = [proc EXCEPT
                ![p].workload = IF Granted(ins.file, rw) THEN (work - 1) % WordSize ELSE work,
                ![p].files = @ \cup {ins.file},
                ![p].ip = @ + 1]
         /\ IF Granted(ins.file, rw)
            THEN pc' = "sleep" /\ UseQuantum /\ UNCHANGED <<state, waiting, running>>
            ELSE Block(p) /\ UNCHANGED curTp
  /\ UNCHANGED <<kernel, algo, ready, mixed, devices>>

\* "ret", or a segmentation fault: the process is killed
RunExit ==
  /\ Running({"ret", "fault"}) /\ ~ ClosesNothing(running)
  /\ Kill(running)
  /\ running' = NoPid
  /\ pc' = "schedule"
  /\ UNCHANGED <<kernel, algo, curTp>>

RunExitClosing ==      \* close(-1)
  /\ Running({"ret", "fault"}) /\ ClosesNothing(running)
  /\ Undefined("close_missing")

RunUnknown ==          \* a byte that is no instruction costs the tick
  /\ Running({"bad"})
  /\ proc' = [proc EXCEPT ![running].ip = @ + 1]
  /\ EndTick
  /\ UNCHANGED <<kernel, algo, lists, running, curTp, state, devices, sft>>

(***************************************************************************)
(* One FILE_WAKE of fpop().  The lists of the file keep processes that     *)
(* were killed, and wake() does not ask whether the process is there.      *)
(***************************************************************************)
WakeOne ==
  /\ pc = "wake" /\ Live(Head(wakeq))
  /\ LET p == Head(wakeq)
     IN  /\ WakeLists(p)
         /\ proc' = [proc EXCEPT ![p].workload = WorkloadWoken(p)]
  /\ wakeq' = Tail(wakeq)
  /\ pc' = IF Tail(wakeq) = <<>> THEN "sleep" ELSE "wake"
  /\ UNCHANGED <<pollAt, site, algo, running, curTp, devices, sft>>

WakeDead ==
  /\ pc = "wake" /\ ~ Live(Head(wakeq))
  /\ Undefined("wake_dead")

Run ==
  \/ RunIdleProgram \/ RunBurst \/ RunCal
  \/ RunDevice \/ RunNoDevice \/ RunFile
  \/ RunExit \/ RunExitClosing \/ RunUnknown
  \/ WakeOne \/ WakeDead

KernelStep ==
  \/ BeginTick \/ PollIdle \/ PollEmpty \/ PollDead \/ PollBusy
  \/ Choose
  \/ Run

-----------------------------------------------------------------------------
(* The commands of the shell, while the kernel thread sleeps *)

FreePids == {p \in UserPid : ~ Live(p)}

\* new_pid(): the first null of prlist
IsNewPid(p) == p \in FreePids /\ \A q \in FreePids : p <= q

\* the bound on exec: under SJF, and after a kill, the lists can only grow
ListsAreShort ==
  /\ Len(ready) <= MaxList
  /\ \A f \in Files : Len(sft[f].readers) <= MaxList /\ Len(sft[f].writers) <= MaxList

\* exec(path, fork(1)) of a program that loads
Exec(p, code) ==
  /\ pc = "sleep" /\ IsNewPid(p) /\ ListsAreShort
  /\ state' = [state EXCEPT ![p] = "READY"]
  /\ proc' = [proc EXCEPT ![p] = Process(code)]
  /\ Enqueue(p)
  /\ UNCHANGED <<pc, kernel, algo, waiting, running, curTp, devices, sft>>

\* ... and of a file that is no program: the new process is queued nowhere
ExecBad(p) ==
  /\ pc = "sleep" /\ BadImages /\ IsNewPid(p)
  /\ state' = [state EXCEPT ![p] = "READY"]
  /\ proc' = [proc EXCEPT ![p] = Process(<<>>)]
  /\ UNCHANGED <<pc, kernel, algo, lists, running, curTp, devices, sft>>

\* safe_kill(p)
SafeKill(p) ==
  /\ pc = "sleep" /\ p \in Victims /\ Live(p) /\ ~ ClosesNothing(p)
  /\ running' = IF running = p THEN NoPid ELSE running
  /\ Kill(p)
  /\ UNCHANGED <<pc, kernel, algo, curTp>>

SafeKillClosing(p) ==
  /\ pc = "sleep" /\ p \in Victims /\ Live(p) /\ ClosesNothing(p)
  /\ Undefined("close_missing")

\* chalg(a): the lists stay as they are
Chalg(a) ==
  /\ pc = "sleep" /\ a \in Switches
  /\ algo' = a
  /\ UNCHANGED <<pc, kernel, lists, running, curTp, state, proc, devices, sft>>

Mount ==
  /\ pc = "sleep" /\ Len(devices) < MaxDevices
  /\ devices' = Append(devices, NewDevice)
  /\ UNCHANGED <<pc, kernel, algo, lists, running, curTp, state, proc, sft>>

\* del_device(): the devices behind the one erased move one place forward
Unmount(d) ==
  /\ pc = "sleep" /\ Unplug /\ ~ devices[d].occupied
  /\ devices' = WithoutIndex(devices, d)
  /\ UNCHANGED <<pc, kernel, algo, lists, running, curTp, state, proc, sft>>

Shell ==
  \/ \E p \in UserPid, code \in Programs : Exec(p, code)
  \/ \E p \in UserPid : ExecBad(p) \/ SafeKill(p) \/ SafeKillClosing(p)
  \/ \E a \in Switches : Chalg(a)
  \/ Mount
  \/ \E d \in 1..Len(devices) : Unmount(d)

-----------------------------------------------------------------------------
Init ==
  /\ pc = "sleep" /\ pollAt = 0 /\ wakeq = <<>> /\ site = "none"
  /\ algo \in BootAlgs
  /\ ready = <<0>> /\ waiting = {} /\ mixed = {}
  /\ running = NoPid /\ curTp = 0
  /\ state = [p \in Pid |-> IF p = 0 THEN "READY" ELSE "NONE"]
  /\ proc = [p \in UserPid |-> Process(<<>>)]
  /\ devices = <<NewDevice, NewDevice, NewDevice>>   \* printer, keyboard, disk
  /\ sft = [f \in Files |-> NewEntry]

Next == KernelStep \/ Shell

\* the kernel thread keeps running; nobody has to type a command
Spec == Init /\ [][Next]_vars /\ WF_vars(KernelStep)
=============================================================================
