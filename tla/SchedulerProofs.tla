--------------------------- MODULE SchedulerProofs ---------------------------
(***************************************************************************)
(* The theorems about module Scheduler.  They hold for every value of the  *)
(* constants that SchedulerAssumption and WordSizeAssumption allow: any    *)
(* number of processes, any programs, any switches of the algorithm.       *)
(* Where the code keeps a promise only for some of these, the theorem      *)
(* names the condition: no SJF (which runs the idle process and leaves it  *)
(* in the ready list), no kills (which leave requests behind), no writers  *)
(* (a reader that waits for one has no request at a device).               *)
(***************************************************************************)
EXTENDS SchedulerLemmas, FiniteSetTheorems

-----------------------------------------------------------------------------
(* The invariant *)

\* The invariant holds when the system starts.
LEMMA InitIInv == ASSUME Init PROVE IInv
<1> USE DEF Init
<1>1. Process(<<>>) \in ProcessRecord BY EmptyProcess
<1>2. NewDevice \in DeviceRecord BY EmptySeq DEF NewDevice, DeviceRecord
<1>3. NewEntry \in FileRecord BY EmptySeq DEF NewEntry, FileRecord
<1>4. \A p \in UserPid : proc[p] = Process(<<>>) /\ ~ Loaded(p) /\ state[p] = "NONE" /\ proc[p].workload = 0
  BY EmptyProcess, PidFacts DEF Loaded
<1>5. TypeOK
  <2>1. devices \in Seq(DeviceRecord) /\ Len(devices) = 3
    <3> HIDE DEF NewDevice, DeviceRecord
    <3> QED BY <1>2
  <2>2. /\ proc \in [UserPid -> ProcessRecord] /\ sft \in [Files -> FileRecord]
        /\ state \in [Pid -> States]
    BY <1>1, <1>3 DEF States
  <2>3. ready \in Seq(Pid) /\ wakeq \in Seq(UserPid) /\ algo \in Algorithms /\ curTp \in 0..Quantum
    BY PidFacts, SchedulerAssumption
  <2>4. /\ pc = "sleep" /\ pollAt \in 0..Len(devices) /\ site \in Sites
        /\ waiting \subseteq UserPid /\ mixed \subseteq UserPid /\ running = NoPid
    BY <2>1 DEF Sites
  <2>5. \A p \in UserPid : Loaded(p) => proc[p].ip <= Len(proc[p].code) BY <1>4
  <2> QED BY <2>1, <2>2, <2>3, <2>4, <2>5 DEF TypeOK
<1>6. Placement
  <2>1. ASSUME NEW p \in UserPid PROVE InItsPlace(p)
    <3>1. ~ Occurs(ready, p) /\ Once(ready, p) BY PidFacts DEF Occurs, Once
    <3> QED BY <3>1, <1>4, PidFacts DEF InItsPlace
  <2> QED BY <2>1 DEF Placement
<1>7. IdleState BY PidFacts DEF IdleState
<1>8. QuantumLeft /\ PollEnds BY DEF QuantumLeft, PollEnds
<1>9. BurstFetched
  <2> HIDE DEF Init
  <2>1. ASSUME NEW p \in UserPid PROVE ~ (proc[p].workload > 0)
    <3>1. proc[p].workload = 0 BY <1>4
    <3> QED BY <3>1
  <2> QED BY <2>1 DEF BurstFetched
<1> QED BY <1>5, <1>6, <1>7, <1>8, <1>9 DEF IInv

\* Every step of the system keeps the invariant.
LEMMA NextIInv == ASSUME IInv, [Next]_vars PROVE IInv'
<1>1. CASE UNCHANGED vars BY <1>1, StutterKeeps
<1>2. CASE KernelStep
  <2>1. CASE BeginTick \/ PollIdle \/ PollEmpty \/ PollDead \/ PollBusy
    BY <2>1, TickBegins, IdlePollKeeps, UndefinedSteps, BusyPollKeeps
  <2>2. CASE Choose
    <3>1. CASE FcfsNothing \/ FcfsKeep \/ RrIdle \/ RrKeep \/ PrKeep \/ MqNothing \/ SjfEmpty
      BY <3>1, KeepingSteps, RrIdles, UndefinedSteps
    <3>2. CASE \/ FcfsGoIdle \/ FcfsDispatch \/ SjfKeep \/ SjfPreempt
               \/ RrExpire \/ RrTake \/ RrLeaveIdle \/ PrPick
      <4>1. (\E x : Dispatched(x)) \/ IInv'
        BY <3>2, FcfsIdle, FcfsTakes, SjfKeeps, SjfPreempts, RrExpires, RrTakes, PrPicks
      <4> QED BY <4>1, DispatchKeeps
    <3> QED BY <2>2, <3>1, <3>2 DEF Choose
  <2>3. CASE Run
    BY <2>3, UndefinedSteps, BurstKeeps, CalKeeps, DeviceRunKeeps, FileRunKeeps, ExitKeeps,
       UnknownKeeps, WakeKeeps DEF Run
  <2> QED BY <1>2, <2>1, <2>2, <2>3 DEF KernelStep
<1>3. CASE Shell
  BY <1>3, ExecKeeps, ExecBadKeeps, SafeKillKeeps, UndefinedSteps, SettingsKeep DEF Shell
<1> QED BY <1>1, <1>2, <1>3 DEF Next

\* The inductive invariant holds in every state, for every choice of the constants.
THEOREM Invariance == Spec => []IInv
  BY InitIInv, NextIInv, PTL DEF Spec

\* Every variable keeps its type, and a program counter stays in its program,
\* whatever programs are run and whatever is killed, unmounted or switched.
THEOREM TypeCorrect == Spec => []TypeOK
<1>1. IInv => TypeOK BY DEF IInv
<1> QED BY <1>1, Invariance, PTL

\* Every process is in exactly the place its state word names, whatever the
\* programs, the algorithms and the commands: no handler forgets one of the two.
THEOREM PlacementHolds == Spec => []Placement
<1>1. IInv => Placement BY DEF IInv
<1> QED BY <1>1, Invariance, PTL

-----------------------------------------------------------------------------
(* The life cycle *)

\* A dispatch is a Dispatch or a Preempt of the life cycle, or leaves it alone.
LEMMA DispatchedState ==
  ASSUME IInv, NEW x, Dispatched(x) PROVE LC!Next \/ UNCHANGED state
<1>1. /\ x \in Pid \cup {NoPid}
      /\ state' \in [Pid -> States] /\ state \in [Pid -> States]
      /\ state'[0] = IF x = 0 THEN "RUNNING" ELSE "READY"
      /\ \A p \in UserPid :
           state'[p] = IF p = x THEN "RUNNING" ELSE IF p = running THEN "READY" ELSE state[p]
      /\ running \in Pid \cup {NoPid}
  BY DEF Dispatched, IInv, TypeOK
<1>2. /\ \A p \in UserPid : running = p <=> state[p] = "RUNNING"
      /\ state[0] = IF running = 0 THEN "RUNNING" ELSE "READY"
  BY ListFacts DEF IInv, Placement, InItsPlace
<1>3. x \in UserPid => state[x] = "READY" /\ running # x
  BY DEF Dispatched, IInv, Placement, InItsPlace
<1>4. CASE x = NoPid
  <2>1. CASE running = NoPid
    <3>1. \A q \in Pid : state'[q] = state[q] BY <1>1, <1>2, <1>4, <2>1, PidFacts
    <3> QED BY <3>1, <1>1
  <2>2. CASE running # NoPid
    <3>1. \A q \in Pid : state'[q] = IF q = running THEN "READY" ELSE state[q]
      BY <1>1, <1>2, <1>4, <2>2, PidFacts
    <3>2. state' = [state EXCEPT ![running] = "READY"] BY <3>1, <1>1
    <3>3. state[running] = "RUNNING" /\ running \in Pid BY <1>1, <1>2, <2>2, PidFacts
    <3> QED BY <3>2, <3>3 DEF LC!Next, LC!Preempt
  <2> QED BY <2>1, <2>2
<1>5. CASE x # NoPid /\ x = running
  <2>1. x = 0 BY <1>1, <1>3, <1>5, PidFacts
  <2>2. \A q \in Pid : state'[q] = state[q] BY <1>1, <1>2, <1>5, <2>1, PidFacts
  <2> QED BY <2>2, <1>1
<1>6. CASE x # NoPid /\ x # running
  <2>1. x \in Pid /\ state[x] = "READY" BY <1>1, <1>2, <1>3, <1>6, PidFacts
  <2>2. \A q \in Pid : state'[q] = IF q = x THEN "RUNNING"
                                   ELSE IF state[q] = "RUNNING" THEN "READY" ELSE state[q]
    BY <1>1, <1>2, <1>6, PidFacts
  <2>3. state' = [q \in Pid |-> IF q = x THEN "RUNNING"
                                ELSE IF state[q] = "RUNNING" THEN "READY" ELSE state[q]]
    BY <2>2, <1>1
  <2> QED BY <2>1, <2>3 DEF LC!Next, LC!Dispatch
<1> QED BY <1>4, <1>5, <1>6

\* Every step of the system is a step of the life cycle or leaves it alone.
LEMMA StepState ==
  ASSUME IInv, [Next]_vars PROVE LC!Next \/ UNCHANGED state
<1>1. ASSUME NEW p \in UserPid, WakeLists(p) PROVE LC!Next \/ UNCHANGED state
  BY <1>1, PidFacts DEF WakeLists, LC!Next, LC!Wake
<1>2. ASSUME running \in UserPid, Block(running) PROVE LC!Next
  <2>1. state[running] = "RUNNING" /\ running \in Pid /\ running # 0
    BY <1>2, PidFacts DEF IInv, Placement, InItsPlace
  <2> QED BY <1>2, <2>1 DEF Block, LC!Next, LC!Block
<1>3. ASSUME NEW p \in UserPid, Live(p), Kill(p) PROVE LC!Next
  BY <1>3, PidFacts DEF Kill, Live, LC!Next, LC!End
<1>4. ASSUME NEW p \in UserPid, ~ Live(p), state' = [state EXCEPT ![p] = "READY"] PROVE LC!Next
  BY <1>4, PidFacts DEF Live, LC!Next, LC!Create
<1>5. CASE BeginTick \/ PollIdle \/ PollEmpty \/ PollDead
  BY <1>5 DEF BeginTick, PollIdle, PollEmpty, PollDead, Undefined
<1>6. CASE PollBusy
  <2>1. devices[pollAt] \in DeviceRecord /\ devices[pollAt].queue # <<>>
    <3>1. pc = "poll" /\ devices[pollAt].queue # <<>> BY <1>6 DEF PollBusy
    <3> QED BY <3>1, DeviceFacts
  <2>2. devices[pollAt].queue[1].pid \in UserPid BY <2>1, PolledType
  <2>3. CASE Completes(devices[pollAt]) BY <1>1, <1>6, <2>2, <2>3 DEF PollBusy
  <2>4. CASE ~ Completes(devices[pollAt]) BY <1>6, <2>4 DEF PollBusy
  <2> QED BY <2>3, <2>4
<1>7. CASE Choose
  <2>1. CASE FcfsNothing \/ FcfsKeep \/ RrIdle \/ RrKeep \/ PrKeep \/ MqNothing \/ SjfEmpty
    BY <2>1 DEF FcfsNothing, FcfsKeep, RrIdle, RrKeep, PrKeep, MqNothing, SjfEmpty, Undefined
  <2>2. CASE \/ FcfsGoIdle \/ FcfsDispatch \/ SjfKeep \/ SjfPreempt
             \/ RrExpire \/ RrTake \/ RrLeaveIdle \/ PrPick
    <3>1. (\E x : Dispatched(x)) \/ UNCHANGED state
      BY <2>2, FcfsIdle, FcfsTakes, SjfKeeps, SjfPreempts, RrExpires, RrTakes, PrPicks
    <3> QED BY <3>1, DispatchedState
  <2> QED BY <1>7, <2>1, <2>2 DEF Choose
<1>8. CASE Run
  <2>1. CASE RunIdleProgram \/ RunBurst \/ RunCal \/ RunNoDevice \/ RunExitClosing \/ RunUnknown \/ WakeDead
    BY <2>1 DEF RunIdleProgram, RunBurst, RunCal, RunNoDevice, RunExitClosing, RunUnknown, WakeDead, Undefined
  <2>2. CASE RunDevice
    <3>1. running \in UserPid BY <2>2, FetchFacts DEF RunDevice, Running
    <3> QED BY <2>2, <3>1, <1>2 DEF RunDevice
  <2>3. CASE RunFile
    <3>1. running \in UserPid BY <2>3, FetchFacts DEF RunFile, Running
    <3>2. UNCHANGED state \/ Block(running) BY <2>3 DEF RunFile
    <3> QED BY <3>1, <3>2, <1>2
  <2>4. CASE RunExit
    <3>1. running \in UserPid BY <2>4, FetchFacts DEF RunExit, Running
    <3>2. Live(running) BY <3>1, RunningIsLoaded
    <3> QED BY <2>4, <3>1, <3>2, <1>3 DEF RunExit
  <2>5. CASE WakeOne
    <3>1. wakeq \in Seq(UserPid) /\ wakeq # <<>> BY <2>5 DEF WakeOne, IInv, TypeOK
    <3>2. Head(wakeq) \in UserPid BY <3>1
    <3> QED BY <2>5, <3>2, <1>1 DEF WakeOne
  <2> QED BY <1>8, <2>1, <2>2, <2>3, <2>4, <2>5 DEF Run
<1>9. CASE Shell
  <2>2. ASSUME NEW p \in UserPid, NEW code \in Programs, Exec(p, code) PROVE LC!Next
    BY <2>2, <1>4 DEF Exec, IsNewPid, FreePids
  <2>3. ASSUME NEW p \in UserPid, ExecBad(p) PROVE LC!Next
    BY <2>3, <1>4 DEF ExecBad, IsNewPid, FreePids
  <2>4. ASSUME NEW p \in UserPid, SafeKill(p) PROVE LC!Next
    BY <2>4, <1>3 DEF SafeKill
  <2>5. ASSUME NEW p \in UserPid, SafeKillClosing(p) PROVE UNCHANGED state
    BY <2>5 DEF SafeKillClosing, Undefined
  <2>6. ASSUME (\E a \in Switches : Chalg(a)) \/ Mount \/ (\E d \in 1..Len(devices) : Unmount(d))
        PROVE  UNCHANGED state
    BY <2>6 DEF Chalg, Mount, Unmount
  <2> QED BY <1>9, <2>2, <2>3, <2>4, <2>5, <2>6 DEF Shell
<1>10. CASE UNCHANGED vars BY <1>10 DEF vars
<1> QED BY <1>5, <1>6, <1>7, <1>8, <1>9, <1>10 DEF Next, KernelStep

\* The scheduler implements the life cycle of a process, under every algorithm.
THEOREM LifecycleImplemented == Spec => ImplementsLifecycle
<1>1. Init => LC!Init BY DEF Init, LC!Init
<1>2. IInv /\ [Next]_vars => [LC!Next]_state BY StepState
<1> QED BY <1>1, <1>2, Invariance, PTL DEF Spec, ImplementsLifecycle, LC!Spec

-----------------------------------------------------------------------------
\* Only SJF and the end of an RR quantum take the processor from a process
\* that neither waits nor ends.
THEOREM NoPreemption == Spec => NonPreemptive
<1> DEFINE Step == \A p \in UserPid :
                     LosesCpu(p) /\ algo # "SJF" =>
                       \/ state'[p] \in {"WAITING", "NONE"}
                       \/ algo = "RR" /\ curTp = 0
<1>1. ASSUME IInv, Next PROVE Step
  <2> SUFFICES ASSUME NEW p \in UserPid, running = p, running' # p, algo # "SJF"
               PROVE  \/ state'[p] \in {"WAITING", "NONE"}
                      \/ algo = "RR" /\ curTp = 0
    BY DEF LosesCpu
  <2>1. p \in Int /\ p > 0 /\ p # NoPid /\ p \in Pid BY PidFacts
  <2>2. state \in [Pid -> States] BY <1>1, ListFacts
  <2>3. CASE BeginTick \/ PollIdle \/ PollEmpty \/ PollDead \/ PollBusy
    BY <2>3 DEF BeginTick, PollIdle, PollEmpty, PollDead, PollBusy, Undefined
  <2>4. CASE Choose
    BY <2>1, <2>4 DEF Choose, Choosing, FcfsNothing, FcfsKeep, FcfsGoIdle, FcfsDispatch,
       SjfEmpty, SjfKeep, SjfPreempt, RrExpire, QuantumOver, RrTake, RrLeaveIdle, RrIdle,
       RrKeep, PrKeep, PrPick, MqNothing
  <2>5. CASE Run
    <3>1. CASE \/ RunIdleProgram \/ RunBurst \/ RunCal \/ RunNoDevice \/ RunExitClosing
               \/ RunUnknown \/ WakeOne \/ WakeDead
      BY <3>1 DEF RunIdleProgram, RunBurst, RunCal, RunNoDevice, RunExitClosing,
         RunUnknown, WakeOne, WakeDead, Undefined
    <3>2. CASE RunDevice \/ RunFile
      <4>1. Block(running) BY <3>2 DEF RunDevice, RunFile
      <4> QED BY <4>1, <2>1, <2>2 DEF Block
    <3>3. CASE RunExit
      <4>1. Kill(running) BY <3>3 DEF RunExit
      <4> QED BY <4>1, <2>1, <2>2 DEF Kill
    <3> QED BY <2>5, <3>1, <3>2, <3>3 DEF Run
  <2>6. CASE Shell
    <3>1. ASSUME NEW q \in UserPid, SafeKill(q) PROVE state'[p] = "NONE"
      <4>1. q = p BY <3>1 DEF SafeKill
      <4> QED BY <3>1, <4>1, <2>1, <2>2 DEF SafeKill, Kill
    <3>2. ASSUME \/ \E q \in UserPid, c \in Programs : Exec(q, c)
                 \/ \E q \in UserPid : ExecBad(q) \/ SafeKillClosing(q)
                 \/ \E a \in Switches : Chalg(a)
                 \/ Mount
                 \/ \E d \in 1..Len(devices) : Unmount(d)
          PROVE  running' = running
      BY <3>2 DEF Exec, ExecBad, SafeKillClosing, Undefined, Chalg, Mount, Unmount
    <3> QED BY <2>6, <3>1, <3>2 DEF Shell
  <2> QED BY <1>1, <2>3, <2>4, <2>5, <2>6 DEF Next, KernelStep
<1>2. IInv /\ [Next]_vars => [Step]_vars BY <1>1
<1> QED BY <1>2, Invariance, PTL DEF Spec, NonPreemptive

-----------------------------------------------------------------------------
(* The file table *)

\* fread(), fwrite() and fpop() leave the lock to a process that is listed for it.
LEMMA LockKept ==
  ASSUME NEW e \in FileRecord, NEW rw \in {Read, Write}, NEW p \in UserPid,
         e.rw = Read => e.readers # <<>>, e.rw = Write => e.writers # <<>>
  PROVE  /\ Done(e, rw, p).rw = Read  => Done(e, rw, p).readers # <<>>
         /\ Done(e, rw, p).rw = Write => Done(e, rw, p).writers # <<>>
         /\ Accessed(e, rw, p).rw = Read  => Accessed(e, rw, p).readers # <<>>
         /\ Accessed(e, rw, p).rw = Write => Accessed(e, rw, p).writers # <<>>
<1>1. /\ e.readers \in Seq(UserPid) /\ e.writers \in Seq(UserPid)
      /\ e.rw \in {Idle, Read, Write}
      /\ e \in [rw : {Idle, Read, Write}, counter : Int, readers : Seq(UserPid), writers : Seq(UserPid)]
  BY DEF FileRecord
<1>2. Append(e.readers, p) # <<>> /\ Append(e.writers, p) # <<>> BY <1>1
<1>3. Idle # Read /\ Idle # Write /\ Read # Write BY DEF Idle, Read, Write
<1>4. /\ Accessed(e, rw, p).rw = Read  => Accessed(e, rw, p).readers # <<>>
      /\ Accessed(e, rw, p).rw = Write => Accessed(e, rw, p).writers # <<>>
  BY <1>1, <1>2, <1>3 DEF Accessed, Grants
<1>5. /\ Done(e, rw, p).rw = Read  => Done(e, rw, p).readers # <<>>
      /\ Done(e, rw, p).rw = Write => Done(e, rw, p).writers # <<>>
  <2>1. CASE rw = Read BY <1>1, <1>3, <2>1 DEF Done
  <2>2. CASE rw = Write BY <1>1, <1>3, <2>2 DEF Done
  <2> QED BY <2>1, <2>2
<1> QED BY <1>4, <1>5

\* A file lock that is taken has a process in the list it names, even when
\* processes are killed and when FILE_DONE comes from a process that had no lock.
THEOREM LockOwned == Spec => []LockHasOwner
<1> DEFINE Owned(e) == (e.rw = Read => e.readers # <<>>) /\ (e.rw = Write => e.writers # <<>>)
<1>1. Init => LockHasOwner
  BY DEF Init, NewEntry, LockHasOwner, Idle, Read, Write
<1>2. ASSUME IInv, LockHasOwner, [Next]_vars PROVE LockHasOwner'
  <2>0. sft \in [Files -> FileRecord] /\ \A f \in Files : sft[f] \in FileRecord /\ Owned(sft[f])
    BY <1>2 DEF IInv, TypeOK, LockHasOwner
  <2>1. CASE UNCHANGED sft BY <2>1, <1>2 DEF LockHasOwner
  <2>2. ASSUME NEW p \in UserPid, NEW f \in Files, NEW rw \in {Read, Write}, FileDone(p, f, rw)
        PROVE  LockHasOwner'
    <3>1. sft' = [sft EXCEPT ![f] = Done(sft[f], rw, p)] BY <2>2 DEF FileDone
    <3>2. Owned(Done(sft[f], rw, p)) BY <2>0, LockKept
    <3>3. \A g \in Files : Owned(sft'[g])
      <4> HIDE DEF Owned
      <4> QED BY <2>0, <3>1, <3>2
    <3> QED BY <3>3 DEF LockHasOwner
  <2>3. CASE RunBurst
    <3>1. CASE UNCHANGED sft BY <3>1, <2>1
    <3>2. CASE /\ Last(running).op \in {"read", "write"} /\ Last(running).file # Missing
               /\ FileDone(running, Last(running).file, RwOf(Last(running).op))
      <4>1. running \in UserPid BY <1>2, <2>3, FetchFacts DEF RunBurst
      <4>2. proc[running].ip - 1 \in 1..Len(proc[running].code)
        BY <1>2, <2>3, <4>1, FetchFacts, ProcFacts DEF RunBurst
      <4>3. Last(running) \in Instruction BY <1>2, <4>1, <4>2, ProcFacts DEF Last
      <4>4. Last(running).file \in Files BY <3>2, <4>3 DEF Instruction
      <4>5. RwOf(Last(running).op) \in {Read, Write} BY DEF RwOf
      <4> QED BY <2>2, <3>2, <4>1, <4>4, <4>5
    <3> QED BY <2>3, <3>1, <3>2 DEF RunBurst
  <2>4. CASE RunCal
    <3>1. running \in UserPid BY <1>2, <2>4, FetchFacts DEF RunCal, Running
    <3>2. CASE \E f \in Files, rw \in {Read, Write} : FileDone(running, f, rw)
      BY <2>2, <3>1, <3>2
    <3> QED BY <2>1, <2>4, <3>2 DEF RunCal
  <2>5. CASE RunFile
    <3> DEFINE f == Instr(running).file
               rw == RwOf(Instr(running).op)
               e == IF f \in proc[running].files THEN sft[f] ELSE Opened(sft[f])
    <3>1. running \in UserPid /\ f \in Files \cup {Missing} BY <1>2, <2>5, FetchFacts DEF RunFile, Running
    <3>2. sft' = IF f = Missing THEN sft ELSE [sft EXCEPT ![f] = Access(f, rw, running)]
      BY <2>5 DEF RunFile
    <3>3. CASE f # Missing
      <4>1. f \in Files /\ rw \in {Read, Write} BY <3>1, <3>3 DEF RwOf
      <4>2. sft[f] \in FileRecord /\ Owned(sft[f]) BY <2>0, <4>1
      <4>3. Opened(sft[f]) \in FileRecord BY <3>1, <4>1, <4>2, FileTypes
      <4>4. Owned(Opened(sft[f])) BY <4>2 DEF Opened, FileRecord
      <4>5. e \in FileRecord /\ Owned(e) BY <4>2, <4>3, <4>4
      <4>6. Access(f, rw, running) = Accessed(e, rw, running) BY DEF Access
      <4> HIDE DEF e, f, rw
      <4>7. Owned(Access(f, rw, running)) BY <3>1, <4>1, <4>5, <4>6, LockKept
      <4>8. \A g \in Files : Owned(sft'[g])
        <5> HIDE DEF Owned
        <5> QED BY <2>0, <3>2, <3>3, <4>1, <4>7
      <4> QED BY <4>8 DEF LockHasOwner
    <3> QED BY <3>2, <3>3, <2>1
  <2>6. ASSUME NEW p \in UserPid, Kill(p) PROVE LockHasOwner'
    <3>1. \A f \in Files : sft'[f] = IF f \in proc[p].files THEN Closed(sft[f]) ELSE sft[f]
      BY <2>6 DEF Kill
    <3>2. \A f \in Files : Owned(Closed(sft[f])) BY <2>0 DEF Closed, FileRecord
    <3>3. \A f \in Files : Owned(sft'[f])
      <4> HIDE DEF Owned
      <4> QED BY <2>0, <3>1, <3>2
    <3> QED BY <3>3 DEF LockHasOwner
  <2>7. CASE RunExit
    <3>1. running \in UserPid BY <1>2, <2>7, FetchFacts DEF RunExit, Running
    <3> QED BY <2>6, <2>7, <3>1 DEF RunExit
  <2>8. CASE BeginTick \/ PollIdle \/ PollEmpty \/ PollDead \/ PollBusy
    <3>1. UNCHANGED sft BY <2>8 DEF BeginTick, PollIdle, PollEmpty, PollDead, PollBusy, Undefined
    <3> QED BY <3>1, <2>1
  <2>9. CASE Choose
    <3>1. UNCHANGED sft
      BY <2>9 DEF Choose, KeepRest, Undefined, FcfsNothing, FcfsKeep, FcfsGoIdle, FcfsDispatch,
       SjfEmpty, SjfKeep, SjfPreempt, RrExpire, RrTake, RrLeaveIdle, RrIdle,
       RrKeep, PrKeep, PrPick, MqNothing
    <3> QED BY <3>1, <2>1
  <2>10. CASE RunIdleProgram \/ RunDevice \/ RunNoDevice \/ RunExitClosing \/ RunUnknown
              \/ WakeOne \/ WakeDead
    <3>1. UNCHANGED sft
      BY <2>10 DEF RunIdleProgram, RunDevice, RunNoDevice, RunExitClosing, RunUnknown,
         WakeOne, WakeDead, Undefined
    <3> QED BY <3>1, <2>1
  <2>11. CASE Shell
    <3>1. ASSUME \/ \E q \in UserPid, c \in Programs : Exec(q, c)
                 \/ \E q \in UserPid : ExecBad(q) \/ SafeKillClosing(q)
                 \/ \E a \in Switches : Chalg(a)
                 \/ Mount
                 \/ \E d \in 1..Len(devices) : Unmount(d)
          PROVE  UNCHANGED sft
      BY <3>1 DEF Exec, ExecBad, SafeKillClosing, Undefined, Chalg, Mount, Unmount
    <3>2. ASSUME NEW q \in UserPid, SafeKill(q) PROVE LockHasOwner'
      BY <3>2, <2>6 DEF SafeKill
    <3> QED BY <2>11, <3>1, <3>2, <2>1 DEF Shell
  <2>12. CASE UNCHANGED vars BY <2>1, <2>12 DEF vars
  <2> QED BY <1>2, <2>3, <2>4, <2>5, <2>7, <2>8, <2>9, <2>10, <2>11, <2>12
          DEF Next, KernelStep, Run
<1> QED BY <1>1, <1>2, Invariance, PTL DEF Spec

-----------------------------------------------------------------------------
(* The count of opens *)

\* The processes that have f open, which CounterIsOpens counts.
HasOpen(p, f) == Live(p) /\ f \in proc[p].files
Openers(f)    == {p \in UserPid : HasOpen(p, f)}

\* The processes that have a file open are finitely many.
LEMMA OpenersFinite == \A f : IsFiniteSet(Openers(f)) /\ Cardinality(Openers(f)) \in Nat
<1>1. IsFiniteSet(UserPid) BY FS_Interval, SchedulerAssumption DEF UserPid
<1>2. \A f : Openers(f) \subseteq UserPid BY DEF Openers, HasOpen
<1> QED BY <1>1, <1>2, FS_Subset, FS_CardinalityType

\* A step that opens and closes nothing.
LEMMA CountKept ==
  ASSUME CounterIsOpens,
         \A p \in UserPid, f \in Files : HasOpen(p, f)' <=> HasOpen(p, f),
         \A f \in Files : sft'[f].counter = sft[f].counter
  PROVE  CounterIsOpens'
<1>1. \A f \in Files : Openers(f)' = Openers(f) BY DEF Openers, HasOpen
<1>2. \A f \in Files : Cardinality(Openers(f)') = Cardinality(Openers(f)) BY <1>1
<1> QED BY <1>2 DEF CounterIsOpens, Openers, HasOpen

\* Reading, writing and finishing leave the counter alone; opening and closing
\* move it by one.
LEMMA Counters ==
  ASSUME NEW e \in FileRecord
  PROVE  /\ e.counter \in Int
         /\ \A rw, p : Done(e, rw, p).counter = e.counter
         /\ \A rw, p : Accessed(e, rw, p).counter = e.counter
         /\ Opened(e).counter = e.counter + 1
         /\ Closed(e).counter = e.counter - 1
<1>1. e \in [rw : {Idle, Read, Write}, counter : Int,
             readers : Seq(UserPid), writers : Seq(UserPid)]
  BY DEF FileRecord
<1>2. e.counter \in Int /\ Opened(e).counter = e.counter + 1 /\ Closed(e).counter = e.counter - 1
  BY <1>1 DEF Opened, Closed
<1>3. ASSUME NEW rw, NEW p
      PROVE  Done(e, rw, p).counter = e.counter /\ Accessed(e, rw, p).counter = e.counter
  BY <1>1 DEF Done, Accessed
<1> QED BY <1>2, <1>3

\* kill() takes the process out of the count of each file it had open.
LEMMA CountKilled ==
  ASSUME IInv, CounterIsOpens, NEW p \in UserPid, Live(p), Kill(p)
  PROVE  CounterIsOpens'
<1>1. /\ state \in [Pid -> States] /\ proc \in [UserPid -> ProcessRecord] /\ p \in Pid
      /\ sft \in [Files -> FileRecord]
  BY PidFacts DEF IInv, TypeOK
<1>2. /\ ~ Live(p)'
      /\ \A q \in UserPid : q # p => Live(q)' = Live(q) /\ proc'[q] = proc[q]
  BY <1>1, PidFacts DEF Kill, Live
<1>3. ASSUME NEW f \in Files PROVE sft'[f].counter = Cardinality(Openers(f)')
  <2>1. Openers(f)' = Openers(f) \ {p} BY <1>2 DEF Openers, HasOpen
  <2>2. sft[f].counter = Cardinality(Openers(f)) BY DEF CounterIsOpens, Openers, HasOpen
  <2>3. sft[f] \in FileRecord BY <1>1
  <2>4. CASE f \in proc[p].files
    <3>1. sft'[f] = Closed(sft[f]) BY <2>4 DEF Kill
    <3>2. sft'[f].counter = sft[f].counter - 1 /\ sft[f].counter \in Int
      BY <2>3, <3>1, Counters
    <3>3. p \in Openers(f) BY <2>4 DEF Openers, HasOpen
    <3>4. Cardinality(Openers(f) \ {p}) = Cardinality(Openers(f)) - 1
      BY <3>3, OpenersFinite, FS_RemoveElement
    <3> QED BY <2>1, <2>2, <3>2, <3>4
  <2>5. CASE f \notin proc[p].files
    <3>1. sft'[f] = sft[f] BY <2>5 DEF Kill
    <3>2. Openers(f) \ {p} = Openers(f) BY <2>5 DEF Openers, HasOpen
    <3> QED BY <2>1, <2>2, <3>1, <3>2
  <2> QED BY <2>4, <2>5
<1> QED BY <1>3 DEF CounterIsOpens, Openers, HasOpen

\* The first access to a file opens it, a later one does not.
LEMMA CountAccessed ==
  ASSUME IInv, CounterIsOpens, RunFile
  PROVE  CounterIsOpens'
<1> DEFINE p == running
           g == Instr(running).file
<1>1. /\ state \in [Pid -> States] /\ proc \in [UserPid -> ProcessRecord]
      /\ sft \in [Files -> FileRecord] /\ p \in UserPid /\ p \in Pid
      /\ g \in Files \cup {Missing}
  BY FetchFacts, PidFacts DEF IInv, TypeOK, RunFile, Running
<1>2. Live(p) /\ state[p] # "NONE" BY <1>1, RunningIsLoaded DEF Live
<1>3. \A q \in UserPid : Live(q)' = Live(q)
  <2>1. UNCHANGED state \/ Block(p) BY DEF RunFile
  <2> QED BY <1>1, <1>2, <2>1, PidFacts DEF Block, Live
<1>4. /\ proc'[p].files = proc[p].files \cup {g}
      /\ \A q \in UserPid : q # p => proc'[q] = proc[q]
  BY <1>1 DEF RunFile, ProcessRecord
<1>5. sft' = IF g = Missing THEN sft ELSE [sft EXCEPT ![g] = Access(g, RwOf(Instr(p).op), p)]
  BY DEF RunFile
<1> HIDE DEF p, g
<1>6. ASSUME NEW f \in Files PROVE sft'[f].counter = Cardinality(Openers(f)')
  <2>1. sft[f].counter = Cardinality(Openers(f)) BY DEF CounterIsOpens, Openers, HasOpen
  <2>2. sft[f] \in FileRecord /\ f # Missing BY <1>1, SchedulerAssumption
  <2>3. CASE f # g
    <3>1. sft'[f] = sft[f] BY <1>1, <1>5, <2>3
    <3>2. Openers(f)' = Openers(f) BY <1>1, <1>3, <1>4, <2>3 DEF Openers, HasOpen
    <3> QED BY <2>1, <3>1, <3>2
  <2>4. CASE f = g /\ f \in proc[p].files
    <3>1. sft'[f] = Accessed(sft[f], RwOf(Instr(p).op), p)
      BY <1>1, <1>5, <2>2, <2>4 DEF Access
    <3>2. sft'[f].counter = sft[f].counter BY <2>2, <3>1, Counters
    <3>3. Openers(f)' = Openers(f) BY <1>1, <1>3, <1>4, <2>4 DEF Openers, HasOpen
    <3> QED BY <2>1, <3>2, <3>3
  <2>5. CASE f = g /\ f \notin proc[p].files
    <3>1. sft'[f] = Accessed(Opened(sft[f]), RwOf(Instr(p).op), p)
      BY <1>1, <1>5, <2>2, <2>5 DEF Access
    <3>2. Opened(sft[f]) \in FileRecord
      BY <2>2, Counters DEF Opened, FileRecord
    <3>3. sft'[f].counter = sft[f].counter + 1 BY <2>2, <3>1, <3>2, Counters
    <3>4. Openers(f)' = Openers(f) \cup {p} /\ p \notin Openers(f)
      BY <1>1, <1>2, <1>3, <1>4, <2>5 DEF Openers, HasOpen
    <3>5. Cardinality(Openers(f) \cup {p}) = Cardinality(Openers(f)) + 1
      BY <3>4, OpenersFinite, FS_AddElement
    <3> QED BY <2>1, <3>3, <3>4, <3>5
  <2> QED BY <2>3, <2>4, <2>5
<1> QED BY <1>6 DEF CounterIsOpens, Openers, HasOpen

\* The counter of a file is the number of the processes that have it open,
\* whatever they read and write and whoever is killed.
THEOREM CounterCounts == Spec => []CounterIsOpens
<1>1. ASSUME Init PROVE CounterIsOpens
  <2>1. \A f \in Files : sft[f].counter = 0 BY <1>1 DEF Init, NewEntry
  <2>2. \A p \in UserPid : ~ Live(p) BY <1>1, PidFacts DEF Init, Live
  <2>3. \A f \in Files : Openers(f) = {} BY <2>2 DEF Openers, HasOpen
  <2>4. \A f \in Files : Cardinality(Openers(f)) = 0 BY <2>3, FS_EmptySet
  <2> QED BY <2>1, <2>4 DEF CounterIsOpens, Openers, HasOpen
<1>2. ASSUME IInv, CounterIsOpens, [Next]_vars PROVE CounterIsOpens'
  <2>0. /\ state \in [Pid -> States] /\ proc \in [UserPid -> ProcessRecord]
        /\ sft \in [Files -> FileRecord] /\ UserPid \subseteq Pid
    BY <1>2, PidFacts DEF IInv, TypeOK
  <2>1. ASSUME \A p \in UserPid : (Live(p)' <=> Live(p)) /\ proc'[p].files = proc[p].files,
               \A f \in Files : sft'[f].counter = sft[f].counter
        PROVE  CounterIsOpens'
    <3>1. \A p \in UserPid, f \in Files : HasOpen(p, f)' <=> HasOpen(p, f)
      BY <2>1 DEF HasOpen
    <3> QED BY <1>2, <2>1, <3>1, CountKept
  <2>2. CASE UNCHANGED <<state, proc, sft>>
    <3>1. \A p \in UserPid : Live(p)' <=> Live(p) BY <2>2 DEF Live
    <3> QED BY <2>1, <2>2, <3>1
  <2>4. ASSUME NEW p \in UserPid, WakeLists(p)
        PROVE  \A q \in UserPid : Live(q)' <=> Live(q)
    BY <2>0, <2>4 DEF WakeLists, Live
  <2>5. ASSUME NEW p \in UserPid, Live(p), Block(p)
        PROVE  \A q \in UserPid : Live(q)' <=> Live(q)
    BY <2>0, <2>5 DEF Block, Live
  <2>6. ASSUME NEW p \in UserPid, NEW f \in Files, NEW rw, FileDone(p, f, rw)
        PROVE  \A g \in Files : sft'[g].counter = sft[g].counter
    <3>1. sft' = [sft EXCEPT ![f] = Done(sft[f], rw, p)] BY <2>6 DEF FileDone
    <3>2. Done(sft[f], rw, p).counter = sft[f].counter BY <2>0, Counters
    <3> QED BY <2>0, <3>1, <3>2
  <2>7. CASE BeginTick \/ PollIdle \/ PollEmpty \/ PollDead
    BY <2>2, <2>7 DEF BeginTick, PollIdle, PollEmpty, PollDead, Undefined
  <2>8. CASE PollBusy
    <3> DEFINE p == devices[pollAt].queue[1].pid
    <3>1. pc = "poll" /\ devices[pollAt].queue # <<>> BY <2>8 DEF PollBusy
    <3>2. devices[pollAt] \in DeviceRecord BY <1>2, <3>1, DeviceFacts
    <3>3. p \in UserPid BY <3>1, <3>2, PolledType
    <3>4. /\ WakeLists(p) \/ UNCHANGED state
          /\ proc' = IF Live(p)
                     THEN [proc EXCEPT ![p].est = @ - 1,
                             ![p].workload = IF Completes(devices[pollAt]) THEN WorkloadWoken(p) ELSE @]
                     ELSE proc
          /\ UNCHANGED sft
      BY <2>8 DEF PollBusy
    <3> HIDE DEF p
    <3>5. \A q \in UserPid : Live(q)' <=> Live(q) BY <2>4, <3>3, <3>4 DEF Live
    <3>6. \A q \in UserPid : proc'[q].files = proc[q].files
      BY <2>0, <3>3, <3>4 DEF ProcessRecord
    <3> QED BY <2>1, <3>4, <3>5, <3>6
  <2>9. CASE Choose
    <3>1. UNCHANGED <<proc, sft>>
      BY <2>9 DEF Choose, KeepRest, Undefined, FcfsNothing, FcfsKeep, FcfsGoIdle, FcfsDispatch,
         SjfEmpty, SjfKeep, SjfPreempt, RrExpire, RrTake, RrLeaveIdle, RrIdle,
         RrKeep, PrKeep, PrPick, MqNothing
    <3>2. CASE FcfsNothing \/ FcfsKeep \/ RrIdle \/ RrKeep \/ PrKeep \/ MqNothing \/ SjfEmpty
      <4>1. UNCHANGED state
        BY <3>2 DEF FcfsNothing, FcfsKeep, RrIdle, RrKeep, PrKeep, MqNothing, SjfEmpty, Undefined
      <4> QED BY <2>2, <3>1, <4>1
    <3>3. CASE \/ FcfsGoIdle \/ FcfsDispatch \/ SjfKeep \/ SjfPreempt
               \/ RrExpire \/ RrTake \/ RrLeaveIdle \/ PrPick
      <4>1. (\E x : Dispatched(x)) \/ UNCHANGED state
        BY <1>2, <3>3, FcfsIdle, FcfsTakes, SjfKeeps, SjfPreempts, RrExpires, RrTakes, PrPicks
      <4>2. ASSUME NEW x, Dispatched(x) PROVE \A q \in UserPid : Live(q)' <=> Live(q)
        <5>1. \A q \in UserPid :
                state'[q] = IF q = x THEN "RUNNING" ELSE IF q = running THEN "READY" ELSE state[q]
          BY <4>2 DEF Dispatched
        <5>2. \A q \in UserPid : q = x => state[q] = "READY"
          BY <1>2, <4>2, PidFacts, RunningIsLoaded DEF Dispatched
        <5>3. \A q \in UserPid : q = running => Live(q) BY <1>2, RunningIsLoaded
        <5> QED BY <5>1, <5>2, <5>3 DEF Live
      <4> QED BY <2>1, <2>2, <3>1, <4>1, <4>2
    <3> QED BY <2>9, <3>2, <3>3 DEF Choose
  <2>10. CASE Run
    <3>1. CASE RunIdleProgram \/ RunNoDevice \/ RunExitClosing \/ WakeDead
      BY <2>2, <3>1 DEF RunIdleProgram, RunNoDevice, RunExitClosing, WakeDead, Undefined
    <3>2. pc = "run" /\ running # 0 => running \in UserPid /\ Live(running)
      BY <1>2, FetchFacts, RunningIsLoaded
    <3>4. CASE RunBurst
      <4>1. running \in UserPid BY <3>2, <3>4 DEF RunBurst
      <4>2. proc' = [proc EXCEPT ![running].workload = @ - 1, ![running].est = @ - 1]
            /\ UNCHANGED state
        BY <3>4 DEF RunBurst
      <4>3. \A q \in UserPid : proc'[q].files = proc[q].files BY <2>0, <4>1, <4>2 DEF ProcessRecord
      <4>4. \A g \in Files : sft'[g].counter = sft[g].counter
        <5>1. CASE UNCHANGED sft BY <5>1
        <5>2. CASE /\ Last(running).op \in {"read", "write"} /\ Last(running).file # Missing
                   /\ FileDone(running, Last(running).file, RwOf(Last(running).op))
          <6>1. proc[running].ip - 1 \in 1..Len(proc[running].code)
            BY <1>2, <3>4, <4>1, FetchFacts, ProcFacts DEF RunBurst
          <6>2. Last(running) \in Instruction BY <1>2, <4>1, <6>1, ProcFacts DEF Last
          <6>3. Last(running).file \in Files BY <5>2, <6>2 DEF Instruction
          <6> QED BY <2>6, <4>1, <5>2, <6>3
        <5> QED BY <3>4, <5>1, <5>2 DEF RunBurst
      <4> QED BY <2>1, <4>2, <4>3, <4>4 DEF Live
    <3>5. CASE RunCal
      <4>1. running \in UserPid BY <3>2, <3>5 DEF RunCal, Running
      <4>2. UNCHANGED state /\ \A q \in UserPid : proc'[q].files = proc[q].files
        BY <2>0, <3>5, <4>1 DEF RunCal, ProcessRecord
      <4>3. \A g \in Files : sft'[g].counter = sft[g].counter
        BY <2>6, <3>5, <4>1 DEF RunCal
      <4> QED BY <2>1, <4>2, <4>3 DEF Live
    <3>6. CASE RunDevice
      <4>1. running \in UserPid /\ Live(running) BY <3>2, <3>6 DEF RunDevice, Running
      <4>2. UNCHANGED sft /\ \A q \in UserPid : proc'[q].files = proc[q].files
        BY <2>0, <3>6, <4>1 DEF RunDevice, ProcessRecord
      <4>3. \A q \in UserPid : Live(q)' <=> Live(q) BY <2>5, <3>6, <4>1 DEF RunDevice
      <4> QED BY <2>1, <4>2, <4>3
    <3>7. CASE RunFile BY <1>2, <3>7, CountAccessed
    <3>8. CASE RunExit BY <1>2, <3>2, <3>8, CountKilled DEF RunExit, Running
    <3>9. CASE RunUnknown
      <4>1. running \in UserPid BY <3>2, <3>9 DEF RunUnknown, Running
      <4>2. UNCHANGED <<sft, state>> /\ \A q \in UserPid : proc'[q].files = proc[q].files
        BY <2>0, <3>9, <4>1 DEF RunUnknown, ProcessRecord
      <4> QED BY <2>1, <4>2 DEF Live
    <3>10. CASE WakeOne
      <4>1. wakeq \in Seq(UserPid) /\ wakeq # <<>> BY <1>2, <3>10 DEF WakeOne, IInv, TypeOK
      <4>2. Head(wakeq) \in UserPid BY <4>1
      <4>3. UNCHANGED sft /\ \A q \in UserPid : proc'[q].files = proc[q].files
        BY <2>0, <3>10, <4>2 DEF WakeOne, ProcessRecord
      <4>4. \A q \in UserPid : Live(q)' <=> Live(q) BY <2>4, <3>10, <4>2 DEF WakeOne
      <4> QED BY <2>1, <4>3, <4>4
    <3> QED BY <2>10, <3>1, <3>4, <3>5, <3>6, <3>7, <3>8, <3>9, <3>10 DEF Run
  <2>11. CASE Shell
    <3>1. ASSUME NEW p \in UserPid, NEW code, ~ Live(p),
                 state' = [state EXCEPT ![p] = "READY"],
                 proc' = [proc EXCEPT ![p] = Process(code)], UNCHANGED sft
          PROVE  CounterIsOpens'
      <4>1. Process(code).files = {} BY DEF Process
      <4>2. proc'[p].files = {} BY <2>0, <3>1, <4>1
      <4>3. \A q \in UserPid : q # p => proc'[q] = proc[q] /\ state'[q] = state[q]
        BY <2>0, <3>1
      <4>4. \A q \in UserPid, f \in Files : HasOpen(q, f)' <=> HasOpen(q, f)
        BY <3>1, <4>2, <4>3 DEF HasOpen, Live
      <4> QED BY <1>2, <3>1, <4>4, CountKept
    <3>2. ASSUME NEW p \in UserPid, NEW code \in Programs, Exec(p, code) PROVE CounterIsOpens'
      BY <3>1, <3>2 DEF Exec, IsNewPid, FreePids
    <3>3. ASSUME NEW p \in UserPid, ExecBad(p) PROVE CounterIsOpens'
      BY <3>1, <3>3 DEF ExecBad, IsNewPid, FreePids
    <3>4. ASSUME NEW p \in UserPid, SafeKill(p) PROVE CounterIsOpens'
      BY <1>2, <3>4, CountKilled DEF SafeKill
    <3>5. ASSUME \/ \E p \in UserPid : SafeKillClosing(p)
                 \/ \E a \in Switches : Chalg(a)
                 \/ Mount
                 \/ \E d \in 1..Len(devices) : Unmount(d)
          PROVE  UNCHANGED <<state, proc, sft>>
      BY <3>5 DEF SafeKillClosing, Undefined, Chalg, Mount, Unmount
    <3> QED BY <2>2, <2>11, <3>2, <3>3, <3>4, <3>5 DEF Shell
  <2>12. CASE UNCHANGED vars BY <2>2, <2>12 DEF vars
  <2> QED BY <1>2, <2>7, <2>8, <2>9, <2>10, <2>11, <2>12 DEF Next, KernelStep
<1> QED BY <1>1, <1>2, Invariance, PTL DEF Spec

-----------------------------------------------------------------------------
(* Idle *)

\* SJF is neither the algorithm at the start nor one that is switched to.
NeverSjf == "SJF" \notin BootAlgs \cup Switches

\* Idle is in the ready list exactly when it does not run.
IdleQueued == Once(ready, 0) /\ (Occurs(ready, 0) <=> running # 0)

\* What a list keeps of idle when a user process p comes or goes.
LEMMA IdleEnqueued ==
  ASSUME IInv, NEW p \in UserPid, Enqueue(p)
  PROVE  /\ Once(ready, 0) => Once(ready', 0)
         /\ Occurs(ready', 0) <=> Occurs(ready, 0)
<1>1. ready \in Seq(Pid) /\ p \in Pid /\ p # 0 BY ListFacts, PidFacts
<1>2. CASE algo = "MIXED_QUEUE" BY <1>2 DEF Enqueue
<1>3. CASE algo # "MIXED_QUEUE"
  <2>1. ready' = Append(ready, p) BY <1>3 DEF Enqueue
  <2> QED BY <1>1, <2>1, AppendOccurs
<1> QED BY <1>2, <1>3

\* What is left of a list of idle and others when its head is taken.
LEMMA IdleHead ==
  ASSUME NEW s \in Seq(Pid), s # <<>>, Once(s, 0)
  PROVE  /\ Head(s) \in Pid /\ Tail(s) \in Seq(Pid)
         /\ Once(Tail(s), 0) /\ (Occurs(Tail(s), 0) <=> Occurs(s, 0) /\ Head(s) # 0)
         /\ ~ Occurs(Tail(s), 0) =>
              Once(Append(Tail(s), 0), 0) /\ Occurs(Append(Tail(s), 0), 0)
<1>1. /\ Tail(s) \in Seq(Pid) /\ Head(s) \in Pid /\ Once(Tail(s), 0)
      /\ Occurs(Tail(s), 0) <=> Occurs(s, 0) /\ Head(s) # 0
  BY TailOccurs
<1> QED BY <1>1, PidFacts, AppendOccurs

\* FCFS does not choose idle as long as there is another process.
LEMMA TurnedFront ==
  ASSUME ready \in Seq(Pid), Once(ready, 0), ready # <<>>, ready # << 0 >>
  PROVE  /\ Turned \in Seq(Pid) /\ Turned # <<>> /\ Once(Turned, 0) /\ Head(Turned) # 0
         /\ Occurs(Turned, 0) <=> Occurs(ready, 0)
<1>0. ready \in Seq(Pid) /\ ready # <<>> /\ ready # << 0 >> /\ Once(ready, 0) /\ 0 \in Pid
  BY PidFacts
<1>1. CASE Head(ready) # 0
  <2>1. Turned = ready BY <1>1 DEF Turned
  <2> QED BY <1>0, <1>1, <2>1
<1>2. CASE Head(ready) = 0
  <2>1. Turned = Append(Tail(ready), 0) BY <1>2 DEF Turned
  <2>2. /\ Tail(ready) \in Seq(Pid) /\ ~ Occurs(Tail(ready), 0)
        /\ Once(Turned, 0) /\ Occurs(Turned, 0) /\ Occurs(ready, 0)
    BY <1>0, IdleHead, <1>2, <2>1, TailOccurs
  <2>3. Len(Tail(ready)) > 0
    <3>1. Len(ready) \in Nat /\ Len(ready) # 0 /\ ready[1] = 0 BY <1>0, <1>2
    <3>2. CASE Len(ready) = 1
      <4>1. \A j \in 1..Len(ready) : ready[j] = << 0 >>[j] BY <3>1, <3>2
      <4>2. ready = << 0 >> BY <1>0, <3>2, <4>1, SeqEqual
      <4> QED BY <1>0, <4>2
    <3>3. CASE Len(ready) # 1
      <4>1. Tail(ready) \in Seq(Pid) /\ Len(Tail(ready)) = Len(ready) - 1 BY <1>0
      <4>2. Len(Tail(ready)) > 0 BY <3>1, <3>3, <4>1
      <4> QED BY <4>1, <4>2
    <3> QED BY <3>2, <3>3
  <2>4. Turned \in Seq(Pid) /\ Turned # <<>> /\ Head(Turned) = Tail(ready)[1]
    BY <1>0, <2>1, <2>2, <2>3
  <2>5. Tail(ready)[1] # 0
    <3>1. 1 \in 1..Len(Tail(ready)) BY <2>2, <2>3
    <3> QED BY <2>2, <3>1 DEF Occurs
  <2> QED BY <2>2, <2>4, <2>5
<1> QED BY <1>1, <1>2

\* The choices of the algorithms other than SJF keep idle in its one place.
LEMMA IdleChosen ==
  ASSUME IInv, IdleQueued, algo # "SJF", Choose
  PROVE  IdleQueued'
<1>1. /\ ready \in Seq(Pid) /\ running \in Pid \cup {NoPid} /\ running \in Int
      /\ Once(ready, 0) /\ (Occurs(ready, 0) <=> running # 0) /\ 0 \in Pid /\ NoPid = -1
      /\ \A p \in Pid : p >= 0
  BY ListFacts, PidFacts DEF IdleQueued
<1>2. CASE UNCHANGED <<ready, running>> BY <1>1, <1>2 DEF IdleQueued
<1>3. CASE FcfsNothing \/ FcfsKeep \/ RrIdle \/ RrKeep \/ PrKeep \/ MqNothing
  BY <1>2, <1>3 DEF FcfsNothing, FcfsKeep, RrIdle, RrKeep, PrKeep, MqNothing
<1>4. CASE FcfsGoIdle
  BY <1>4 DEF FcfsGoIdle, IdleQueued, Occurs, Once
<1>6. CASE FcfsDispatch
  <2>1. ready # <<>> /\ ready # << 0 >> /\ running <= 0 BY <1>6 DEF FcfsDispatch
  <2>2. /\ Turned \in Seq(Pid) /\ Turned # <<>> /\ Once(Turned, 0) /\ Head(Turned) # 0
        /\ Occurs(Turned, 0) <=> Occurs(ready, 0)
    BY <1>1, <2>1, TurnedFront
  <2>3. /\ ready' = IF running = 0 THEN Append(Tail(Turned), 0) ELSE Tail(Turned)
        /\ running' = Head(Turned)
    BY <1>6 DEF FcfsDispatch
  <2> HIDE DEF Turned
  <2> QED BY <1>1, IdleHead, <2>2, <2>3 DEF IdleQueued
<1>7. CASE RrExpire
  <2>1. CASE running >= 0
    <3>1. ready' = Append(ready, running) /\ running' = NoPid /\ running \in Pid
      BY <1>1, <1>7, <2>1 DEF RrExpire
    <3>2. /\ \A x : Occurs(Append(ready, running), x) <=> Occurs(ready, x) \/ x = running
          /\ \A x : Once(ready, x) /\ (x = running => ~ Occurs(ready, x)) => Once(Append(ready, running), x)
      BY <1>1, <3>1, AppendOccurs
    <3> QED BY <1>1, <3>1, <3>2 DEF IdleQueued
  <2>2. CASE ~ (running >= 0) BY <1>2, <1>7, <2>2 DEF RrExpire
  <2> QED BY <2>1, <2>2
<1>8. CASE RrTake
  <2>1. ready # <<>> /\ running = NoPid /\ running' = Head(ready) /\ ready' = Tail(ready)
    BY <1>8 DEF RrTake
  <2> QED BY <1>1, IdleHead, <2>1 DEF IdleQueued
<1>9. CASE RrLeaveIdle
  <2>1. ready # <<>> /\ running = 0 /\ running' = Head(ready) /\ ready' = Append(Tail(ready), 0)
    BY <1>9 DEF RrLeaveIdle
  <2>2. Head(ready) # 0 BY <1>1, <2>1, TailOccurs
  <2> QED BY <1>1, IdleHead, <2>1, <2>2 DEF IdleQueued
<1>10. CASE PrPick
  <2> DEFINE list == IF running = 0 THEN Append(ready, 0) ELSE ready
  <2>1. list \in Seq(Pid) /\ Once(list, 0) /\ Occurs(list, 0)
    BY <1>1, AppendOccurs
  <2>2. PICK i \in 1..Len(list) : running' = list[i] /\ ready' = WithoutIndex(list, i)
    BY <1>10 DEF PrPick
  <2> HIDE DEF list
  <2>3. /\ Once(WithoutIndex(list, i), 0)
        /\ Occurs(WithoutIndex(list, i), 0) <=> list[i] # 0
    BY <2>1, WithoutIndexOccurs
  <2> QED BY <2>2, <2>3 DEF IdleQueued
<1>11. ~ (SjfEmpty \/ SjfKeep \/ SjfPreempt) BY DEF SjfEmpty, SjfKeep, SjfPreempt, Choosing
<1> QED BY <1>3, <1>4, <1>6, <1>7, <1>8, <1>9, <1>10, <1>11 DEF Choose

\* So do all the steps, as long as SJF is not switched to.
LEMMA IdleKept ==
  ASSUME NeverSjf, IInv, algo # "SJF", IdleQueued, [Next]_vars
  PROVE  algo' # "SJF" /\ IdleQueued'
<1>1. algo' # "SJF"
  <2>1. ASSUME NEW a \in Switches, Chalg(a) PROVE algo' # "SJF" BY <2>1 DEF Chalg, NeverSjf
  <2>2. CASE UNCHANGED algo BY <2>2
  <2>3. CASE KernelStep
    <3>1. UNCHANGED algo
      BY <2>3 DEF KernelStep, BeginTick, PollIdle, PollEmpty, PollDead, PollBusy, Undefined,
         Choose, KeepRest, FcfsNothing, FcfsKeep, FcfsGoIdle, FcfsDispatch,
         SjfEmpty, SjfKeep, SjfPreempt, RrExpire, RrTake, RrLeaveIdle, RrIdle,
         RrKeep, PrKeep, PrPick, MqNothing,
         Run, RunIdleProgram, RunBurst, RunCal, RunDevice, RunNoDevice, RunFile, RunExit,
         RunExitClosing, RunUnknown, WakeOne, WakeDead
    <3> QED BY <2>2, <3>1
  <2>4. CASE Shell
    <3>1. (\E a \in Switches : Chalg(a)) \/ UNCHANGED algo
      BY <2>4 DEF Shell, Exec, ExecBad, SafeKill, SafeKillClosing, Undefined, Mount, Unmount
    <3> QED BY <2>1, <2>2, <3>1
  <2>5. CASE UNCHANGED vars BY <2>2, <2>5 DEF vars
  <2> QED BY <2>3, <2>4, <2>5 DEF Next
<1>2. IdleQueued'
  <2>0. /\ ready \in Seq(Pid) /\ Once(ready, 0) /\ (Occurs(ready, 0) <=> running # 0)
        /\ NoPid # 0 /\ running \in Pid \cup {NoPid}
    BY ListFacts, PidFacts DEF IdleQueued
  <2>1. CASE UNCHANGED <<ready, running>> BY <2>0, <2>1 DEF IdleQueued
  <2>2. ASSUME NEW p \in UserPid, WakeLists(p), UNCHANGED running PROVE IdleQueued'
    <3>1. UNCHANGED ready \/ Enqueue(p) BY <2>2 DEF WakeLists, lists
    <3> QED BY <2>0, <2>1, <2>2, <3>1, IdleEnqueued DEF IdleQueued
  <2>3. ASSUME NEW p \in UserPid, Kill(p), running' = running \/ (running = p /\ running' = NoPid)
        PROVE  IdleQueued'
    <3>1. ready' = Without(ready, p) /\ p # 0 BY <2>3, PidFacts DEF Kill
    <3>2. /\ Occurs(Without(ready, p), 0) <=> Occurs(ready, 0)
          /\ Once(Without(ready, p), 0)
      BY <2>0, <3>1, WithoutOccurs
    <3> QED BY <2>0, <2>3, <3>1, <3>2 DEF IdleQueued
  <2>4. CASE BeginTick \/ PollIdle \/ PollEmpty \/ PollDead
    BY <2>1, <2>4 DEF BeginTick, PollIdle, PollEmpty, PollDead, Undefined, lists
  <2>5. CASE PollBusy
    <3>1. pc = "poll" /\ devices[pollAt].queue # <<>> BY <2>5 DEF PollBusy
    <3>2. devices[pollAt] \in DeviceRecord BY <3>1, DeviceFacts
    <3>3. devices[pollAt].queue[1].pid \in UserPid BY <3>1, <3>2, PolledType
    <3>4. (UNCHANGED lists \/ WakeLists(devices[pollAt].queue[1].pid)) /\ UNCHANGED running
      BY <2>5 DEF PollBusy
    <3> QED BY <2>1, <2>2, <3>3, <3>4 DEF lists
  <2>6. CASE Choose BY <2>6, IdleChosen
  <2>7. CASE Run
    <3>1. CASE \/ RunIdleProgram \/ RunBurst \/ RunCal \/ RunNoDevice
               \/ RunExitClosing \/ RunUnknown \/ WakeDead
      BY <2>1, <3>1 DEF RunIdleProgram, RunBurst, RunCal, RunNoDevice, RunExitClosing,
         RunUnknown, WakeDead, Undefined, lists
    <3>2. CASE RunDevice \/ RunFile
      <4>1. running # 0 /\ ready' = ready BY <3>2 DEF RunDevice, RunFile, Running
      <4>2. running' = running \/ running' = NoPid BY <3>2 DEF RunDevice, RunFile, Block
      <4> QED BY <2>0, <4>1, <4>2 DEF IdleQueued
    <3>3. CASE RunExit
      <4>1. running \in UserPid BY <3>3, FetchFacts DEF RunExit, Running
      <4> QED BY <2>3, <3>3, <4>1 DEF RunExit
    <3>4. CASE WakeOne
      <4>1. wakeq \in Seq(UserPid) /\ wakeq # <<>> BY <3>4 DEF WakeOne, IInv, TypeOK
      <4>2. Head(wakeq) \in UserPid BY <4>1
      <4> QED BY <2>2, <3>4, <4>2 DEF WakeOne
    <3> QED BY <2>7, <3>1, <3>2, <3>3, <3>4 DEF Run
  <2>8. CASE Shell
    <3>1. ASSUME NEW p \in UserPid, NEW code \in Programs, Exec(p, code) PROVE IdleQueued'
      <4>1. Enqueue(p) /\ UNCHANGED running BY <3>1 DEF Exec
      <4> QED BY <2>0, <4>1, IdleEnqueued DEF IdleQueued
    <3>2. ASSUME NEW p \in UserPid, SafeKill(p) PROVE IdleQueued'
      BY <2>3, <3>2 DEF SafeKill
    <3>3. ASSUME \/ \E p \in UserPid : ExecBad(p) \/ SafeKillClosing(p)
                 \/ \E a \in Switches : Chalg(a)
                 \/ Mount
                 \/ \E d \in 1..Len(devices) : Unmount(d)
          PROVE  IdleQueued'
      BY <2>1, <3>3 DEF ExecBad, SafeKillClosing, Undefined, Chalg, Mount, Unmount, lists
    <3> QED BY <2>8, <3>1, <3>2, <3>3 DEF Shell
  <2>9. CASE UNCHANGED vars BY <2>1, <2>9 DEF vars, lists
  <2> QED BY <2>4, <2>5, <2>6, <2>7, <2>8, <2>9 DEF Next, KernelStep
<1> QED BY <1>1, <1>2

\* Without SJF there is one idle process, in the place its state word names,
\* whatever the other processes do and the user kills.
THEOREM IdleIsOne ==
  ASSUME NeverSjf
  PROVE  Spec => []IdleOnce
<1> DEFINE Inv == algo # "SJF" /\ IdleQueued
<1>1. Init => Inv
  BY PidFacts DEF NeverSjf, Init, IdleQueued, Once, Occurs
<1>2. IInv /\ Inv /\ [Next]_vars => Inv' BY IdleKept
<1>3. IInv /\ Inv => IdleOnce BY DEF IInv, IdleState, IdleQueued, IdleOnce
<1> QED BY <1>1, <1>2, <1>3, Invariance, PTL DEF Spec

\* Without SJF, FCFS finds an empty list only when idle is running.
THEOREM FcfsKeepsGoing ==
  ASSUME NeverSjf
  PROVE  Spec => []FcfsNeverStalls
<1>1. ASSUME IInv, IdleOnce PROVE FcfsNeverStalls
  <2>1. ready = <<>> => ~ Occurs(ready, 0) BY DEF Occurs
  <2> QED BY <1>1, <2>1 DEF IInv, IdleState, IdleOnce, FcfsNeverStalls
<1> QED BY <1>1, Invariance, IdleIsOne, PTL

-----------------------------------------------------------------------------
(* SJF *)

\* Estimates are numbers.
LEMMA EstType == ASSUME IInv, NEW x \in Pid PROVE Est(x) \in Int
  BY ProcFacts, PidFacts, SchedulerAssumption DEF Est

\* SJF runs a process with the least estimate, whatever the ready list holds.
THEOREM ShortestFirst == Spec => []ShortestRuns
<1>1. Init => ShortestRuns BY DEF Init, ShortestRuns
<1>2. ASSUME IInv, ShortestRuns, [Next]_vars PROVE ShortestRuns'
  <2> SUFFICES ASSUME pc' = "run", algo' = "SJF", NEW k \in 1..Len(ready')
               PROVE  Est(ready[k])' >= Est(running)'
    BY DEF ShortestRuns
  <2>0. /\ ready \in Seq(Pid) /\ running \in Pid \cup {NoPid} /\ 0 \in Pid
        /\ \A i \in 1..Len(ready) : ready[i] \in Pid
    <3>1. ready \in Seq(Pid) BY <1>2, ListFacts
    <3>2. \A i \in 1..Len(ready) : ready[i] \in Pid BY <3>1
    <3> QED BY <1>2, <3>1, <3>2, ListFacts, PidFacts
  <2>1. CASE UNCHANGED vars
    BY <1>2, <2>1 DEF vars, lists, ShortestRuns, Est
  <2>2. CASE SjfKeep
    <3>1. /\ ready' = ready /\ running' = SjfCurrent /\ proc' = proc /\ SjfCurrent \in Pid
      BY <2>0, <2>2 DEF SjfKeep, KeepRest, SjfCurrent
    <3>2. PICK i \in 1..Len(ready) : Shortest(ready, i) /\ Est(ready[i]) >= Est(SjfCurrent)
      BY <2>2 DEF SjfKeep
    <3>3. Est(ready[i]) \in Int /\ Est(ready[k]) \in Int /\ Est(SjfCurrent) \in Int
      BY <1>2, <2>0, <3>1, <3>2, EstType
    <3>4. Est(ready[i]) < Est(ready[k]) \/ Est(ready[i]) = Est(ready[k])
      BY <3>1, <3>2 DEF Shortest
    <3>5. Est(ready[k]) >= Est(SjfCurrent) BY <3>2, <3>3, <3>4
    <3> QED BY <3>1, <3>5 DEF Est
  <2>3. CASE SjfPreempt
    <3>1. PICK i \in 1..Len(ready) :
            /\ Shortest(ready, i) /\ Est(ready[i]) < Est(SjfCurrent)
            /\ ready' = Append(WithoutIndex(ready, i), SjfCurrent)
            /\ running' = ready[i]
      BY <2>3 DEF SjfPreempt
    <3>2. proc' = proc BY <2>3 DEF SjfPreempt, KeepRest
    <3>3. SjfCurrent \in Pid /\ ready[i] \in Pid BY <2>0, <3>1 DEF SjfCurrent
    <3>4. WithoutIndex(ready, i) \in Seq(Pid) BY <2>0, <3>1, WithoutIndexOccurs
    <3>5. Occurs(WithoutIndex(ready, i), ready'[k]) \/ ready'[k] = SjfCurrent
      <4>1. Occurs(ready', ready'[k]) BY DEF Occurs
      <4> QED BY <3>1, <3>3, <3>4, <4>1, AppendOccurs
    <3>6. CASE ready'[k] = SjfCurrent
      <4>1. Est(ready[i]) \in Int /\ Est(SjfCurrent) \in Int BY <1>2, <3>3, EstType
      <4>2. Est(ready'[k]) >= Est(ready[i]) BY <3>1, <3>6, <4>1
      <4> QED BY <3>1, <3>2, <4>2 DEF Est
    <3>7. CASE Occurs(WithoutIndex(ready, i), ready'[k])
      <4>1. Occurs(ready, ready'[k]) BY <2>0, <3>1, <3>7, WithoutIndexOccurs
      <4>2. PICK j \in 1..Len(ready) : ready[j] = ready'[k] BY <4>1 DEF Occurs
      <4>3. Est(ready[i]) \in Int /\ Est(ready[j]) \in Int BY <1>2, <2>0, <3>1, <4>2, EstType
      <4>4. Est(ready[j]) >= Est(ready[i]) BY <3>1, <4>2, <4>3 DEF Shortest
      <4> QED BY <3>1, <3>2, <4>2, <4>4 DEF Est
    <3> QED BY <3>5, <3>6, <3>7
  <2>4. CASE Choose
    <3>1. ~ \/ FcfsNothing \/ FcfsKeep \/ FcfsGoIdle \/ FcfsDispatch
            \/ RrExpire \/ RrTake \/ RrLeaveIdle \/ RrIdle \/ RrKeep
            \/ PrKeep \/ PrPick \/ MqNothing
      BY DEF Choosing, KeepRest, FcfsNothing, FcfsKeep, FcfsGoIdle, FcfsDispatch,
         RrExpire, RrTake, RrLeaveIdle, RrIdle, RrKeep, PrKeep, PrPick, MqNothing
    <3>2. ~ SjfEmpty BY DEF SjfEmpty, Undefined
    <3> QED BY <2>2, <2>3, <2>4, <3>1, <3>2 DEF Choose
  <2>5. CASE BeginTick \/ PollIdle \/ PollEmpty \/ PollDead \/ PollBusy
    BY <2>5 DEF BeginTick, PollIdle, PollEmpty, PollDead, PollBusy, NextDevice, Undefined
  <2>6. CASE Run
    BY <2>6 DEF Run, RunIdleProgram, RunBurst, RunCal, RunDevice, RunNoDevice, RunFile, RunExit,
       RunExitClosing, RunUnknown, WakeOne, WakeDead, Undefined, FileDone, Block, EndTick
  <2>7. CASE Shell
    BY <2>7 DEF Shell, Exec, ExecBad, SafeKill, SafeKillClosing, Undefined, Chalg, Mount, Unmount
  <2> QED BY <1>2, <2>1, <2>4, <2>5, <2>6, <2>7 DEF Next, KernelStep
<1> QED BY <1>1, <1>2, Invariance, PTL DEF Spec

-----------------------------------------------------------------------------
(* Requests and waiters *)

\* The requests in the queues of some devices are those of the processes in W,
\* one each, and a device is occupied exactly when it has one.
Matched(ds, W) ==
  /\ \A d \in 1..Len(ds) :
       /\ ds[d].occupied <=> Len(ds[d].queue) > 0
       /\ \A i \in 1..Len(ds[d].queue) : ds[d].queue[i].pid \in W
  /\ \A d, e \in 1..Len(ds) :
       \A i \in 1..Len(ds[d].queue), j \in 1..Len(ds[e].queue) :
         ds[d].queue[i].pid = ds[e].queue[j].pid => d = e /\ i = j
  /\ \A p \in W : \E d \in 1..Len(ds) : Requested(ds[d], p)

\* The queue of a device is a sequence of requests.
LEMMA QueueFacts ==
  ASSUME NEW ds \in Seq(DeviceRecord), NEW d \in 1..Len(ds)
  PROVE  /\ ds[d] \in DeviceRecord /\ ds[d].occupied \in BOOLEAN
         /\ ds[d].queue \in Seq([time : Word, pid : UserPid])
         /\ Len(ds[d].queue) \in Nat /\ Len(ds) \in Nat
         /\ ds[d].queue = <<>> <=> Len(ds[d].queue) = 0
<1>1. ds[d] \in DeviceRecord /\ Len(ds) \in Nat OBVIOUS
<1>2. ds[d].queue \in Seq([time : Word, pid : UserPid]) /\ ds[d].occupied \in BOOLEAN
  BY <1>1 DEF DeviceRecord
<1> QED BY <1>1, <1>2

\* A device that is mounted has no requests.
LEMMA MatchedMounted ==
  ASSUME NEW ds \in Seq(DeviceRecord), NEW W, Matched(ds, W)
  PROVE  Matched(Append(ds, NewDevice), W)
<1> DEFINE new == Append(ds, NewDevice)
<1>1. Len(ds) \in Nat /\ Len(new) = Len(ds) + 1
  OBVIOUS
<1>2. /\ \A d \in 1..Len(ds) : new[d] = ds[d]
      /\ new[Len(ds) + 1] = NewDevice
  OBVIOUS
<1>3. NewDevice.queue = <<>> /\ ~ NewDevice.occupied BY DEF NewDevice
<1>4. Len(NewDevice.queue) = 0 BY <1>3
<1> HIDE DEF new
<1>5. \A d \in 1..Len(new) :
        (d \in 1..Len(ds) /\ new[d] = ds[d]) \/ (Len(new[d].queue) = 0 /\ ~ new[d].occupied)
  BY <1>1, <1>2, <1>3, <1>4
<1>6. \A d \in 1..Len(ds) : d \in 1..Len(new) BY <1>1
<1>7. \A d \in 1..Len(new) : \A i \in 1..Len(new[d].queue) : d \in 1..Len(ds) /\ new[d] = ds[d]
  BY <1>5
<1>8. ASSUME NEW d \in 1..Len(new)
      PROVE  /\ new[d].occupied <=> Len(new[d].queue) > 0
             /\ \A i \in 1..Len(new[d].queue) : new[d].queue[i].pid \in W
  BY <1>5, <1>7 DEF Matched
<1>10. ASSUME NEW d \in 1..Len(new), NEW e \in 1..Len(new),
              NEW i \in 1..Len(new[d].queue), NEW j \in 1..Len(new[e].queue),
              new[d].queue[i].pid = new[e].queue[j].pid
       PROVE  d = e /\ i = j
  <2>1. d \in 1..Len(ds) /\ new[d] = ds[d] /\ e \in 1..Len(ds) /\ new[e] = ds[e] BY <1>7
  <2> QED BY <1>10, <2>1 DEF Matched
<1>9. \A p \in W : \E d \in 1..Len(new) : Requested(new[d], p)
  BY <1>2, <1>6 DEF Matched
<1> QED BY <1>8, <1>9, <1>10 DEF Matched, new

\* A device that is not occupied has no requests, and may go.
LEMMA MatchedUnmounted ==
  ASSUME NEW ds \in Seq(DeviceRecord), NEW W, Matched(ds, W),
         NEW k \in 1..Len(ds), ~ ds[k].occupied
  PROVE  Matched(WithoutIndex(ds, k), W)
<1> DEFINE new == WithoutIndex(ds, k)
           old(d) == IF d < k THEN d ELSE d + 1
<1>1. /\ Len(ds) \in Nat /\ k \in Nat /\ new = [d \in 1..(Len(ds) - 1) |-> ds[old(d)]]
  BY DEF WithoutIndex
<1>2. Len(new) = Len(ds) - 1
  <2>1. new \in Seq(DeviceRecord) /\ DOMAIN new = 1..(Len(ds) - 1) BY <1>1, WithoutIndexOccurs
  <2> QED BY <1>1, <2>1
<1>3. \A d \in 1..Len(new) : old(d) \in 1..Len(ds) /\ new[d] = ds[old(d)]
  BY <1>1, <1>2
<1>4. \A d, e \in 1..Len(new) : old(d) = old(e) => d = e
  BY <1>1, <1>2
<1>5. \A e \in 1..Len(ds) : e # k => \E d \in 1..Len(new) : old(d) = e
  <2> TAKE e \in 1..Len(ds)
  <2>1. CASE e < k
    <3>1. e \in 1..Len(new) /\ old(e) = e BY <1>1, <1>2, <2>1
    <3> QED BY <3>1
  <2>2. CASE e > k
    <3>1. e - 1 \in 1..Len(new) /\ ~ (e - 1 < k) BY <1>1, <1>2, <2>2
    <3>2. old(e - 1) = e BY <1>1, <3>1
    <3> QED BY <3>1, <3>2
  <2> HIDE DEF new, old
  <2>3. e \in Int /\ k \in Int BY <1>1
  <2> QED BY <2>1, <2>2, <2>3
<1> HIDE DEF new, old
<1>6. ASSUME NEW d \in 1..Len(new)
      PROVE  /\ new[d].occupied <=> Len(new[d].queue) > 0
             /\ \A i \in 1..Len(new[d].queue) : new[d].queue[i].pid \in W
  BY <1>3 DEF Matched
<1>8. ASSUME NEW d \in 1..Len(new), NEW e \in 1..Len(new),
             NEW i \in 1..Len(new[d].queue), NEW j \in 1..Len(new[e].queue),
             new[d].queue[i].pid = new[e].queue[j].pid
      PROVE  d = e /\ i = j
  <2>1. /\ old(d) \in 1..Len(ds) /\ new[d] = ds[old(d)]
        /\ old(e) \in 1..Len(ds) /\ new[e] = ds[old(e)]
    BY <1>3
  <2>2. \A a, b \in 1..Len(ds) : \A x \in 1..Len(ds[a].queue), y \in 1..Len(ds[b].queue) :
          ds[a].queue[x].pid = ds[b].queue[y].pid => a = b /\ x = y
    BY DEF Matched
  <2>3. /\ i \in 1..Len(ds[old(d)].queue) /\ j \in 1..Len(ds[old(e)].queue)
        /\ ds[old(d)].queue[i].pid = ds[old(e)].queue[j].pid
    BY <1>8, <2>1
  <2>4. old(d) = old(e) /\ i = j
    <3> DEFINE a == old(d)
               b == old(e)
    <3>1. /\ a \in 1..Len(ds) /\ b \in 1..Len(ds)
          /\ i \in 1..Len(ds[a].queue) /\ j \in 1..Len(ds[b].queue)
          /\ ds[a].queue[i].pid = ds[b].queue[j].pid
      BY <2>1, <2>3
    <3> HIDE DEF a, b
    <3>2. \A s \in 1..Len(ds[a].queue), t \in 1..Len(ds[b].queue) :
            ds[a].queue[s].pid = ds[b].queue[t].pid => a = b /\ s = t
      BY <2>2, <3>1
    <3>3. a = b /\ i = j BY <3>1, <3>2
    <3> QED BY <3>3 DEF a, b
  <2> QED BY <1>4, <2>4
<1>7. \A p \in W : \E d \in 1..Len(new) : Requested(new[d], p)
  <2> TAKE p \in W
  <2>1. PICK e \in 1..Len(ds) : Requested(ds[e], p) BY DEF Matched
  <2>2. e # k
    <3>1. \E i \in 1..Len(ds[e].queue) : TRUE BY <2>1 DEF Requested
    <3>2. Len(ds[e].queue) \in Nat BY QueueFacts
    <3>3. Len(ds[e].queue) > 0 BY <3>1, <3>2
    <3> QED BY <3>3 DEF Matched
  <2> QED BY <1>3, <1>5, <2>1, <2>2
<1> QED BY <1>6, <1>7, <1>8 DEF Matched, new

\* A process that does not wait gets its one request when it starts to.
LEMMA MatchedRequired ==
  ASSUME NEW ds \in Seq(DeviceRecord), NEW W, Matched(ds, W),
         NEW k \in 1..Len(ds), NEW t \in Int, NEW p \in UserPid, p \notin W
  PROVE  Matched([ds EXCEPT ![k] = Require(@, t, p)], W \cup {p})
<1> DEFINE new == [ds EXCEPT ![k] = Require(@, t, p)]
           n == Len(ds[k].queue)
           r == [time |-> t % WordSize, pid |-> p]
           q == Append(ds[k].queue, r)
<1>0. ds[k].queue \in Seq([time : Word, pid : UserPid]) /\ n \in Nat /\ n = Len(ds[k].queue)
      /\ Len(ds) \in Nat
  BY QueueFacts
<1>1. Len(new) = Len(ds) /\ new[k] = Require(ds[k], t, p)
      /\ \A d \in 1..Len(ds) : d # k => new[d] = ds[d]
  OBVIOUS
<1>2. new[k].queue = q /\ new[k].occupied BY <1>1 DEF Require
<1>3. r \in [time : Word, pid : UserPid] /\ r.pid = p BY ModWord
<1>4. Len(q) = n + 1 /\ q[n + 1] = r /\ \A i \in 1..n : q[i] = ds[k].queue[i]
  <2> HIDE DEF r
  <2> QED BY <1>0, <1>3
<1> HIDE DEF new, n, q, r
<1>5. \A d \in 1..Len(new) : \A i \in 1..Len(new[d].queue) :
        \/ d \in 1..Len(ds) /\ i \in 1..Len(ds[d].queue) /\ new[d].queue[i].pid = ds[d].queue[i].pid
        \/ d = k /\ i = n + 1 /\ new[d].queue[i].pid = p
  <2> TAKE d \in 1..Len(new)
  <2> TAKE i \in 1..Len(new[d].queue)
  <2>1. CASE d # k BY <1>1, <2>1
  <2>2. CASE d = k
    <3>1. i \in 1..(n + 1) /\ new[d].queue[i] = q[i] BY <1>2, <1>4, <2>2
    <3>2. CASE i = n + 1 BY <1>3, <1>4, <2>2, <3>1, <3>2
    <3>3. CASE i # n + 1
      <4>1. n \in Nat /\ i \in 1..(n + 1) BY <1>0, <3>1
      <4>2. i \in 1..n BY <3>3, <4>1
      <4>3. new[d].queue[i] = ds[k].queue[i] BY <1>4, <3>1, <4>2
      <4> QED BY <1>0, <2>2, <4>2, <4>3
    <3> QED BY <3>2, <3>3
  <2> QED BY <2>1, <2>2
<1>6. \A d \in 1..Len(ds) : \A i \in 1..Len(ds[d].queue) :
        d \in 1..Len(new) /\ i \in 1..Len(new[d].queue) /\ new[d].queue[i].pid = ds[d].queue[i].pid
  <2> TAKE d \in 1..Len(ds)
  <2> TAKE i \in 1..Len(ds[d].queue)
  <2>1. CASE d # k BY <1>1, <2>1
  <2>2. CASE d = k BY <1>0, <1>1, <1>2, <1>4, <2>2
  <2> QED BY <2>1, <2>2
<1>7. \A d \in 1..Len(ds) : \A i \in 1..Len(ds[d].queue) : ds[d].queue[i].pid \in W /\ ds[d].queue[i].pid # p
  BY DEF Matched
<1>8. \A d \in 1..Len(new) :
        /\ new[d].occupied <=> Len(new[d].queue) > 0
        /\ \A i \in 1..Len(new[d].queue) : new[d].queue[i].pid \in W \cup {p}
  <2> TAKE d \in 1..Len(new)
  <2>1. \A i \in 1..Len(new[d].queue) : new[d].queue[i].pid \in W \cup {p} BY <1>5, <1>7
  <2>2. CASE d # k BY <1>1, <2>1, <2>2 DEF Matched
  <2>3. CASE d = k
    <3>1. Len(new[d].queue) > 0 BY <1>0, <1>2, <1>4, <2>3
    <3> QED BY <1>2, <2>1, <2>3, <3>1
  <2> QED BY <2>2, <2>3
<1>9. ASSUME NEW d \in 1..Len(new), NEW e \in 1..Len(new),
             NEW i \in 1..Len(new[d].queue), NEW j \in 1..Len(new[e].queue),
             new[d].queue[i].pid = new[e].queue[j].pid
      PROVE  d = e /\ i = j
  <2>1. \/ d \in 1..Len(ds) /\ i \in 1..Len(ds[d].queue) /\ new[d].queue[i].pid = ds[d].queue[i].pid
        \/ d = k /\ i = n + 1 /\ new[d].queue[i].pid = p
    BY <1>5
  <2>2. \/ e \in 1..Len(ds) /\ j \in 1..Len(ds[e].queue) /\ new[e].queue[j].pid = ds[e].queue[j].pid
        \/ e = k /\ j = n + 1 /\ new[e].queue[j].pid = p
    BY <1>5
  <2>3. \A a, b \in 1..Len(ds) : \A x \in 1..Len(ds[a].queue), y \in 1..Len(ds[b].queue) :
          ds[a].queue[x].pid = ds[b].queue[y].pid => a = b /\ x = y
    BY DEF Matched
  <2>4. CASE d = k /\ i = n + 1 /\ new[d].queue[i].pid = p
    BY <1>7, <1>9, <2>2, <2>4
  <2>5. CASE e = k /\ j = n + 1 /\ new[e].queue[j].pid = p
    BY <1>7, <1>9, <2>1, <2>5
  <2>6. CASE /\ d \in 1..Len(ds) /\ i \in 1..Len(ds[d].queue) /\ new[d].queue[i].pid = ds[d].queue[i].pid
             /\ e \in 1..Len(ds) /\ j \in 1..Len(ds[e].queue) /\ new[e].queue[j].pid = ds[e].queue[j].pid
    <3>1. ds[d].queue[i].pid = ds[e].queue[j].pid BY <1>9, <2>6
    <3> QED BY <2>3, <2>6, <3>1
  <2> QED BY <2>1, <2>2, <2>4, <2>5, <2>6
<1>10. \A x \in W \cup {p} : \E d \in 1..Len(new) : Requested(new[d], x)
  <2>1. Requested(new[k], p) /\ k \in 1..Len(new)
    <3>1. n + 1 \in 1..Len(new[k].queue) /\ new[k].queue[n + 1].pid = p
      BY <1>0, <1>2, <1>3, <1>4
    <3> QED BY <1>1, <3>1 DEF Requested
  <2>2. ASSUME NEW x \in W PROVE \E d \in 1..Len(new) : Requested(new[d], x)
    <3>1. PICK d \in 1..Len(ds) : Requested(ds[d], x) BY DEF Matched
    <3> QED BY <1>6, <3>1 DEF Requested
  <2> QED BY <2>1, <2>2
<1> QED BY <1>8, <1>9, <1>10 DEF Matched, new

\* Polling takes the front request away when it is done, and changes its time
\* when it is not.
LEMMA MatchedPolled ==
  ASSUME NEW ds \in Seq(DeviceRecord), NEW W, Matched(ds, W),
         NEW k \in 1..Len(ds), ds[k].queue # <<>>
  PROVE  LET W1 == IF Completes(ds[k]) THEN W \ {ds[k].queue[1].pid} ELSE W
         IN  Matched([ds EXCEPT ![k] = Polled(@)], W1)
<1> DEFINE new == [ds EXCEPT ![k] = Polled(@)]
           n == Len(ds[k].queue)
           p == ds[k].queue[1].pid
           q == IF Completes(ds[k]) THEN Tail(ds[k].queue)
                ELSE [ds[k].queue EXCEPT ![1].time = FrontLeft(ds[k])]
           W1 == IF Completes(ds[k]) THEN W \ {p} ELSE W
           old(d, i) == IF d = k /\ Completes(ds[k]) THEN i + 1 ELSE i
<1>0. /\ ds[k].queue \in Seq([time : Word, pid : UserPid]) /\ n \in Nat /\ n = Len(ds[k].queue)
      /\ n # 0 /\ Len(ds) \in Nat
      /\ \A d \in 1..Len(ds) : Len(ds[d].queue) \in Nat
  BY QueueFacts
<1>1. /\ Len(new) = Len(ds) /\ new[k] = Polled(ds[k])
      /\ \A d \in 1..Len(ds) : d # k => new[d] = ds[d]
  OBVIOUS
<1>2. new[k].queue = q /\ (new[k].occupied <=> q # <<>>)
  <2>1. Polled(ds[k]) = [occupied |-> q # <<>>, queue |-> q] BY DEF Polled
  <2> HIDE DEF q, new
  <2> DEFINE some == q # <<>>
  <2>2. some \in BOOLEAN /\ new[k] = [occupied |-> some, queue |-> q] BY <1>1, <2>1
  <2> HIDE DEF some
  <2>3. new[k].queue = q /\ new[k].occupied = some BY <2>2
  <2> QED BY <2>3 DEF some
<1>3. /\ Len(q) = (IF Completes(ds[k]) THEN n - 1 ELSE n)
      /\ \A i \in 1..Len(q) : q[i].pid = ds[k].queue[old(k, i)].pid
      /\ q = <<>> <=> Len(q) = 0
  <2>1. CASE Completes(ds[k])
    <3>1. q = Tail(ds[k].queue) BY <2>1
    <3>2. /\ Tail(ds[k].queue) \in Seq([time : Word, pid : UserPid])
          /\ Len(Tail(ds[k].queue)) = n - 1
          /\ \A i \in 1..(n - 1) : Tail(ds[k].queue)[i] = ds[k].queue[i + 1]
      BY <1>0
    <3>3. Tail(ds[k].queue) = <<>> <=> n - 1 = 0
      <4> DEFINE R == [time : Word, pid : UserPid]
                 t == Tail(ds[k].queue)
      <4>1. t \in Seq(R) /\ Len(t) = n - 1 BY <3>2
      <4> HIDE DEF R, t
      <4>2. t = <<>> <=> Len(t) = 0 BY <4>1, EmptySeq
      <4> QED BY <4>1, <4>2 DEF t
    <3> HIDE DEF q, n
    <3>4. Len(q) = n - 1 /\ (q = <<>> <=> Len(q) = 0) BY <3>1, <3>2, <3>3
    <3>5. \A i \in 1..Len(q) : q[i] = ds[k].queue[i + 1] BY <3>1, <3>2
    <3> QED BY <2>1, <3>4, <3>5
  <2>2. CASE ~ Completes(ds[k])
    <3>1. q = [ds[k].queue EXCEPT ![1].time = FrontLeft(ds[k])] BY <2>2
    <3>2. Len(q) = n /\ DOMAIN q = 1..n BY <1>0, <3>1
    <3>3. \A i \in 1..n : q[i].pid = ds[k].queue[i].pid
      <4>1. \A i \in 1..n : ds[k].queue[i] \in [time : Word, pid : UserPid]
        <5> DEFINE R == [time : Word, pid : UserPid]
        <5> SUFFICES \A i \in 1..n : ds[k].queue[i] \in R OBVIOUS
        <5>1. ds[k].queue \in Seq(R) BY <1>0
        <5> HIDE DEF R
        <5> QED BY <5>1
      <4>2. q[1].pid = ds[k].queue[1].pid BY <1>0, <3>1, <4>1
      <4>3. \A i \in 1..n : i # 1 => q[i] = ds[k].queue[i] BY <1>0, <3>1
      <4> QED BY <4>2, <4>3
    <3>4. q # <<>> BY <1>0, <3>2
    <3> HIDE DEF q, n
    <3> QED BY <1>0, <2>2, <3>2, <3>3, <3>4
  <2> QED BY <2>1, <2>2
<1>4. /\ \A d \in 1..Len(ds) : \A i \in 1..Len(ds[d].queue) : ds[d].queue[i].pid \in W
      /\ \A d \in 1..Len(ds) : ds[d].occupied <=> Len(ds[d].queue) > 0
      /\ \A d, e \in 1..Len(ds) :
           \A i \in 1..Len(ds[d].queue), j \in 1..Len(ds[e].queue) :
             ds[d].queue[i].pid = ds[e].queue[j].pid => d = e /\ i = j
      /\ \A x \in W : \E d \in 1..Len(ds) : Requested(ds[d], x)
  BY DEF Matched
<1>5. 1 \in 1..Len(ds[k].queue) /\ p = ds[k].queue[1].pid BY <1>0
<1> HIDE DEF new, n, q, p
<1>6. ASSUME NEW d \in 1..Len(new), NEW i \in 1..Len(new[d].queue)
      PROVE  /\ d \in 1..Len(ds) /\ old(d, i) \in 1..Len(ds[d].queue)
             /\ new[d].queue[i].pid = ds[d].queue[old(d, i)].pid
             /\ Completes(ds[k]) /\ d = k => old(d, i) # 1
  <2>1. CASE d # k BY <1>1, <2>1
  <2>2. CASE d = k
    <3>1. i \in 1..Len(q) /\ new[d].queue[i].pid = ds[k].queue[old(k, i)].pid
      BY <1>2, <1>3, <2>2
    <3>2. old(k, i) \in 1..n /\ (Completes(ds[k]) => old(k, i) # 1)
      <4>1. CASE Completes(ds[k]) BY <1>0, <1>3, <3>1, <4>1
      <4>2. CASE ~ Completes(ds[k]) BY <1>0, <1>3, <3>1, <4>2
      <4> QED BY <4>1, <4>2
    <3> HIDE DEF old
    <3> QED BY <1>0, <1>1, <2>2, <3>1, <3>2
  <2> QED BY <2>1, <2>2
<1>7. ASSUME NEW d \in 1..Len(ds), NEW i \in 1..Len(ds[d].queue),
             ~ (Completes(ds[k]) /\ d = k /\ i = 1)
      PROVE  Requested(new[d], ds[d].queue[i].pid)
  <2>1. CASE d # k
    <3>1. new[d] = ds[d] BY <1>1, <2>1
    <3> QED BY <3>1 DEF Requested
  <2>2. CASE d = k
    <3> DEFINE m == IF Completes(ds[k]) THEN i - 1 ELSE i
    <3>1. m \in 1..Len(q) /\ old(k, m) = i
      <4>1. n \in Nat /\ i \in 1..n BY <1>0, <2>2
      <4>2. CASE Completes(ds[k]) BY <1>3, <1>7, <2>2, <4>1, <4>2
      <4>3. CASE ~ Completes(ds[k]) BY <1>3, <4>1, <4>3
      <4> QED BY <4>2, <4>3
    <3> HIDE DEF m, old
    <3>2. q[m].pid = ds[k].queue[i].pid BY <1>3, <3>1
    <3> QED BY <1>2, <2>2, <3>1, <3>2 DEF Requested
  <2> QED BY <2>1, <2>2
<1>8. ASSUME NEW d \in 1..Len(new)
      PROVE  /\ new[d].occupied <=> Len(new[d].queue) > 0
             /\ \A i \in 1..Len(new[d].queue) : new[d].queue[i].pid \in W1
  <2>1. new[d].occupied <=> Len(new[d].queue) > 0
    <3>1. CASE d # k BY <1>1, <1>4, <3>1
    <3>2. CASE d = k
      <4>1. Len(q) \in Int /\ Len(q) >= 0 BY <1>0, <1>3
      <4> QED BY <1>2, <1>3, <3>2, <4>1
    <3> QED BY <3>1, <3>2
  <2>2. ASSUME NEW i \in 1..Len(new[d].queue) PROVE new[d].queue[i].pid \in W1
    <3> DEFINE j == old(d, i)
    <3>1. /\ d \in 1..Len(ds) /\ j \in 1..Len(ds[d].queue)
          /\ new[d].queue[i].pid = ds[d].queue[j].pid
          /\ Completes(ds[k]) /\ d = k => j # 1
      BY <1>6
    <3> HIDE DEF j, old
    <3>2. ds[d].queue[j].pid \in W BY <1>4, <3>1
    <3>3. Completes(ds[k]) => ds[d].queue[j].pid # p BY <1>4, <1>5, <3>1
    <3> QED BY <3>1, <3>2, <3>3
  <2> QED BY <2>1, <2>2
<1>9. ASSUME NEW d \in 1..Len(new), NEW e \in 1..Len(new),
             NEW i \in 1..Len(new[d].queue), NEW j \in 1..Len(new[e].queue),
             new[d].queue[i].pid = new[e].queue[j].pid
      PROVE  d = e /\ i = j
  <2>1. /\ d \in 1..Len(ds) /\ old(d, i) \in 1..Len(ds[d].queue)
        /\ new[d].queue[i].pid = ds[d].queue[old(d, i)].pid
        /\ e \in 1..Len(ds) /\ old(e, j) \in 1..Len(ds[e].queue)
        /\ new[e].queue[j].pid = ds[e].queue[old(e, j)].pid
    <3> HIDE DEF old
    <3> QED BY <1>6
  <2>2. i \in Int /\ j \in Int
    <3>1. Len(q) \in Int BY <1>0, <1>3
    <3>2. \A c \in 1..Len(new) : Len(new[c].queue) \in Int BY <1>0, <1>1, <1>2, <3>1
    <3> QED BY <3>2
  <2>3. d = e /\ old(d, i) = old(e, j)
    <3> DEFINE x == old(d, i)
               y == old(e, j)
    <3>1. /\ d \in 1..Len(ds) /\ x \in 1..Len(ds[d].queue)
          /\ e \in 1..Len(ds) /\ y \in 1..Len(ds[e].queue)
          /\ ds[d].queue[x].pid = ds[e].queue[y].pid
      <4> HIDE DEF old
      <4> QED BY <1>9, <2>1
    <3> HIDE DEF x, y
    <3>2. \A a, b \in 1..Len(ds) : \A s \in 1..Len(ds[a].queue), t \in 1..Len(ds[b].queue) :
            ds[a].queue[s].pid = ds[b].queue[t].pid => a = b /\ s = t
      BY <1>4
    <3>3. d = e /\ x = y BY <3>1, <3>2
    <3> QED BY <3>3 DEF x, y
  <2> QED BY <2>2, <2>3
<1>10. \A x \in W1 : \E d \in 1..Len(new) : Requested(new[d], x)
  <2> TAKE x \in W1
  <2>1. PICK d \in 1..Len(ds) : Requested(ds[d], x) BY <1>4
  <2>2. PICK i \in 1..Len(ds[d].queue) : ds[d].queue[i].pid = x BY <2>1 DEF Requested
  <2>3. ~ (Completes(ds[k]) /\ d = k /\ i = 1) BY <1>5, <2>2
  <2> QED BY <1>1, <1>7, <2>2, <2>3
<1>11. Matched(new, W1)
  <2> HIDE DEF W1
  <2> QED BY <1>8, <1>9, <1>10 DEF Matched
<1> QED BY <1>11 DEF new, p

\* pop() of a process that has no request changes nothing.
LEMMA NothingPopped ==
  ASSUME NEW ds \in Seq(DeviceRecord), NEW W, Matched(ds, W), NEW p, p \notin W
  PROVE  [d \in 1..Len(ds) |-> Popped(ds[d], p)] = ds
<1>1. \A d \in 1..Len(ds) : Popped(ds[d], p) = ds[d] BY DEF Matched, Requested, Popped
<1> QED BY <1>1

\* No program writes to a file that is there (nor seems to, at a "cal").
OnlyReaders ==
  /\ StaleCmd => Files = {}
  /\ \A code \in Programs : \A i \in 1..Len(code) :
       code[i].op = "write" => code[i].file = Missing

\* Every file is free or read, and nobody waits to write it.
OpenToReaders == \A f \in Files : sft[f].writers = <<>> /\ sft[f].rw # Write

\* Without writers nobody waits for a lock, and nobody is woken but by a device.
Served ==
  /\ Matched(devices, waiting)
  /\ wakeq = <<>> /\ pc # "wake"
  /\ OpenToReaders

\* The entry of a file that has no writers, after the operations of a reader.
LEMMA ReaderEntry ==
  ASSUME NEW e \in FileRecord, NEW p \in UserPid, e.writers = <<>>, e.rw # Write
  PROVE  /\ \A rw : Closed(e).writers = <<>> /\ Closed(e).rw # Write
         /\ Closed(e).readers = e.readers /\ Closed(e).rw = e.rw
         /\ Opened(e) \in FileRecord /\ Opened(e).writers = <<>>
         /\ Opened(e).readers = e.readers /\ Opened(e).rw = e.rw
         /\ Grants(e, Read)
         /\ Accessed(e, Read, p).writers = <<>> /\ Accessed(e, Read, p).rw = Read
         /\ Accessed(e, Read, p).readers = Append(e.readers, p)
         /\ Done(e, Read, p).writers = <<>> /\ Done(e, Read, p).rw # Write
         /\ Done(e, Read, p).readers = Without(e.readers, p)
         /\ Done(e, Read, p).rw = IF Without(e.readers, p) = <<>> THEN Idle ELSE e.rw
         /\ ToWake(Done(e, Read, p), Read) = <<>>
<1>1. /\ e.readers \in Seq(UserPid) /\ e.writers \in Seq(UserPid)
      /\ e.rw \in {Idle, Read, Write} /\ e.counter \in Int
      /\ e \in [rw : {Idle, Read, Write}, counter : Int, readers : Seq(UserPid), writers : Seq(UserPid)]
  BY DEF FileRecord
<1>2. Idle # Write /\ Read # Write BY DEF Idle, Read, Write
<1>3. Opened(e) \in FileRecord BY FileTypes
<1>4. /\ Closed(e).writers = <<>> /\ Closed(e).readers = e.readers /\ Closed(e).rw = e.rw
      /\ Opened(e).writers = <<>> /\ Opened(e).readers = e.readers /\ Opened(e).rw = e.rw
  BY <1>1 DEF Closed, Opened
<1>5. Grants(e, Read) BY DEF Grants
<1>6. /\ Accessed(e, Read, p).writers = <<>> /\ Accessed(e, Read, p).rw = Read
      /\ Accessed(e, Read, p).readers = Append(e.readers, p)
  BY <1>1, <1>5 DEF Accessed
<1>7. /\ Done(e, Read, p).writers = <<>>
      /\ Done(e, Read, p).readers = Without(e.readers, p)
      /\ Done(e, Read, p).rw = IF Without(e.readers, p) = <<>> THEN Idle ELSE e.rw
  BY <1>1 DEF Done
<1>8. ToWake(Done(e, Read, p), Read) = <<>> BY <1>7 DEF ToWake
<1> QED BY <1>2, <1>3, <1>4, <1>5, <1>6, <1>7, <1>8

\* The instruction a process works on is one of its program's.
LEMMA LastFacts ==
  ASSUME IInv, NEW p \in UserPid, Loaded(p), proc[p].ip > 1
  PROVE  /\ proc[p].ip - 1 \in 1..Len(proc[p].code)
         /\ Last(p) = proc[p].code[proc[p].ip - 1]
         /\ Last(p) \in Instruction /\ Last(p).file \in Files \cup {Missing}
         /\ proc[p].code \in Programs
<1>1. proc[p].ip - 1 \in 1..Len(proc[p].code) BY ProcFacts
<1>2. Last(p) \in Instruction BY <1>1, ProcFacts DEF Last
<1> QED BY <1>1, <1>2, ProcFacts DEF Last, Instruction

\* What a tick of a burst does to the file table when nobody writes: at the end of
\* an access to a file the reader leaves its list, and nobody is woken.
LEMMA ReaderBurst ==
  ASSUME OnlyReaders, IInv, OpenToReaders, RunBurst
  PROVE  LET f == Last(running).file
             ends == /\ proc[running].workload = 1 /\ f \in Files
                     /\ Last(running).op \in {"read", "write"}
         IN  /\ ends => Last(running).op = "read"
             /\ sft' = IF ends THEN [sft EXCEPT ![f] = Done(sft[f], Read, running)] ELSE sft
             /\ pc' = "sleep" /\ (wakeq = <<>> => wakeq' = <<>>)
<1> DEFINE f == Last(running).file
<1>1. running \in UserPid /\ proc[running].ip > 1 /\ Loaded(running)
  BY FetchFacts, ProcFacts, RunningIsLoaded DEF RunBurst
<1>2. /\ f \in Files \cup {Missing} /\ (f \in Files => f # Missing)
      /\ Last(running).op = "write" => f = Missing
  BY <1>1, LastFacts, SchedulerAssumption DEF OnlyReaders
<1>3. CASE f \notin Files \/ proc[running].workload # 1 \/ Last(running).op \notin {"read", "write"}
  <2>1. pc' = "sleep" /\ UNCHANGED <<sft, wakeq>> BY <1>2, <1>3 DEF RunBurst
  <2> QED BY <1>3, <2>1
<1>4. CASE f \in Files /\ proc[running].workload = 1 /\ Last(running).op \in {"read", "write"}
  <2>1. Last(running).op = "read" /\ f # Missing BY <1>2, <1>4
  <2>2. FileDone(running, f, Read) BY <1>4, <2>1 DEF RunBurst, RwOf
  <2>3. sft[f] \in FileRecord /\ sft[f].writers = <<>> /\ sft[f].rw # Write
    BY <1>4 DEF OpenToReaders, IInv, TypeOK
  <2>4. ToWake(Done(sft[f], Read, running), Read) = <<>> BY <1>1, <2>3, ReaderEntry
  <2> QED BY <1>4, <2>1, <2>2, <2>4 DEF FileDone
<1> QED BY <1>3, <1>4

\* What an access does when nobody writes: it is granted, and the reader is listed.
LEMMA ReaderAccess ==
  ASSUME OnlyReaders, IInv, OpenToReaders, RunFile
  PROVE  LET f == Instr(running).file
         IN  /\ f \in Files \cup {Missing} /\ (f # Missing => Instr(running).op = "read")
             /\ Granted(f, RwOf(Instr(running).op))
             /\ \A g \in Files \ {f} : sft'[g] = sft[g]
             /\ f \in Files =>
                  /\ sft'[f].writers = <<>> /\ sft'[f].rw = Read
                  /\ sft'[f].readers = Append(sft[f].readers, running)
<1> DEFINE f == Instr(running).file
<1>1. /\ running \in UserPid /\ f \in Files \cup {Missing} /\ (f \in Files => f # Missing)
      /\ Instr(running).op \in {"read", "write"}
      /\ Instr(running).op = "write" => f = Missing
  BY FetchFacts, SchedulerAssumption DEF OnlyReaders, RunFile, Running, Instr
<1>2. sft' = IF f = Missing THEN sft
             ELSE [sft EXCEPT ![f] = Access(f, RwOf(Instr(running).op), running)]
  BY DEF RunFile
<1>3. sft \in [Files -> FileRecord] BY DEF IInv, TypeOK
<1>4. CASE f = Missing BY <1>1, <1>2, <1>4 DEF Granted
<1>5. CASE f # Missing
  <2>1. f \in Files /\ Instr(running).op = "read" /\ RwOf(Instr(running).op) = Read
    BY <1>1, <1>5 DEF RwOf
  <2>2. sft[f] \in FileRecord /\ sft[f].writers = <<>> /\ sft[f].rw # Write
    BY <1>3, <2>1 DEF OpenToReaders
  <2>3. /\ Opened(sft[f]) \in FileRecord /\ Opened(sft[f]).writers = <<>>
        /\ Opened(sft[f]).rw # Write /\ Opened(sft[f]).readers = sft[f].readers
        /\ Grants(sft[f], Read)
    BY <1>1, <2>2, ReaderEntry
  <2>4. /\ Access(f, Read, running).writers = <<>> /\ Access(f, Read, running).rw = Read
        /\ Access(f, Read, running).readers = Append(sft[f].readers, running)
    <3>1. CASE f \in proc[running].files BY <1>1, <2>2, <3>1, ReaderEntry DEF Access
    <3>2. CASE f \notin proc[running].files BY <1>1, <2>3, <3>2, ReaderEntry DEF Access
    <3> QED BY <3>1, <3>2
  <2>5. sft' = [sft EXCEPT ![f] = Access(f, Read, running)] BY <1>2, <1>5, <2>1
  <2> QED BY <1>3, <2>1, <2>3, <2>4, <2>5 DEF Granted
<1> QED BY <1>4, <1>5

\* Every step keeps requests and waiters matched, unless the user kills.
LEMMA ServedKept ==
  ASSUME OnlyReaders, Victims = {}, IInv, Served, [Next]_vars
  PROVE  Served'
<1>0. /\ devices \in Seq(DeviceRecord) /\ Matched(devices, waiting)
      /\ waiting \subseteq UserPid /\ \A p \in UserPid : p \in waiting <=> state[p] = "WAITING"
  BY DEF IInv, TypeOK, Served, Placement, InItsPlace
<1>1. CASE UNCHANGED <<devices, waiting, wakeq>> /\ pc' # "wake" /\ OpenToReaders'
  BY <1>1 DEF Served
<1>17. ASSUME UNCHANGED sft PROVE OpenToReaders' BY <1>17 DEF Served, OpenToReaders
<1>2. pc = "run" /\ running # 0 => running \in UserPid /\ running \notin waiting
  <2>1. ASSUME running \in UserPid PROVE state[running] = "RUNNING"
    BY <2>1 DEF IInv, Placement, InItsPlace
  <2> QED BY <1>0, <2>1, FetchFacts
<1>3. CASE \/ BeginTick \/ PollIdle \/ PollEmpty \/ PollDead
           \/ RunIdleProgram \/ RunNoDevice \/ RunExitClosing \/ RunUnknown
           \/ (\E p \in UserPid, code \in Programs : Exec(p, code))
           \/ (\E p \in UserPid : ExecBad(p) \/ SafeKillClosing(p))
           \/ (\E a \in Switches : Chalg(a))
           \/ UNCHANGED vars
  BY <1>1, <1>3, <1>17 DEF Served, BeginTick, PollIdle, PollEmpty, PollDead, NextDevice, Undefined,
     RunIdleProgram, RunNoDevice, RunExitClosing, RunUnknown, EndTick, Exec, ExecBad,
     SafeKillClosing, Chalg, kernel, lists, vars
<1>4. CASE PollBusy
  <2> DEFINE p == devices[pollAt].queue[1].pid
             W1 == IF Completes(devices[pollAt]) THEN waiting \ {p} ELSE waiting
  <2>1. pc = "poll" /\ devices[pollAt].queue # <<>> BY <1>4 DEF PollBusy
  <2>2. pollAt \in 1..Len(devices) BY <2>1, DeviceFacts
  <2>3. p \in waiting
    <3>1. 1 \in 1..Len(devices[pollAt].queue)
      <4>1. Len(devices[pollAt].queue) \in Nat /\ Len(devices[pollAt].queue) # 0
        BY <1>0, <2>1, <2>2, QueueFacts
      <4> QED BY <4>1
    <3> QED BY <1>0, <2>2, <3>1 DEF Matched
  <2>4. waiting' = W1
    <3>1. CASE Completes(devices[pollAt])
      <4>1. WakeLists(p) BY <1>4, <3>1 DEF PollBusy
      <4> QED BY <1>0, <2>3, <3>1, <4>1 DEF WakeLists
    <3>2. CASE ~ Completes(devices[pollAt]) BY <1>4, <3>2 DEF PollBusy, lists
    <3> QED BY <3>1, <3>2
  <2>5. devices' = [devices EXCEPT ![pollAt] = Polled(@)] BY <1>4 DEF PollBusy
  <2>6. Matched(devices', W1) BY <1>0, <2>1, <2>2, <2>5, MatchedPolled
  <2>7. wakeq' = wakeq /\ pc' # "wake" BY <1>4 DEF PollBusy, NextDevice
  <2> HIDE DEF W1
  <2>8. OpenToReaders' BY <1>4, <1>17 DEF PollBusy
  <2> QED BY <2>4, <2>6, <2>7, <2>8 DEF Served
<1>5. CASE Choose
  <2>1. UNCHANGED <<devices, waiting, wakeq, sft>> /\ pc' # "wake"
    BY <1>5 DEF Choose, KeepRest, kernel, lists, Undefined, EndTick, Choosing,
       FcfsNothing, FcfsKeep, FcfsGoIdle, FcfsDispatch, SjfEmpty, SjfKeep, SjfPreempt,
       RrExpire, RrTake, RrLeaveIdle, RrIdle, RrKeep, PrKeep, PrPick, MqNothing
  <2> QED BY <1>1, <1>17, <2>1
<1>6. CASE RunBurst
  <2>1. running \in UserPid BY <1>2, <1>6 DEF RunBurst
  <2>2. UNCHANGED <<devices, waiting, wakeq>> /\ pc' # "wake"
    BY <1>6, ReaderBurst DEF Served, RunBurst, lists
  <2>3. /\ \A f \in Files : sft[f] \in FileRecord /\ sft[f].writers = <<>> /\ sft[f].rw # Write
        /\ sft \in [Files -> FileRecord]
    BY DEF Served, OpenToReaders, IInv, TypeOK
  <2>4. ASSUME NEW f \in Files, sft' = [sft EXCEPT ![f] = Done(sft[f], Read, running)]
        PROVE  OpenToReaders'
    BY <2>1, <2>3, <2>4, ReaderEntry DEF OpenToReaders
  <2>5. UNCHANGED sft \/ \E f \in Files : sft' = [sft EXCEPT ![f] = Done(sft[f], Read, running)]
    BY <1>6, ReaderBurst DEF Served
  <2> QED BY <1>1, <1>17, <2>2, <2>4, <2>5
<1>7. CASE RunCal
  <2>1. pc' = "sleep" /\ UNCHANGED <<sft, wakeq>> BY <1>7 DEF RunCal, OnlyReaders
  <2> QED BY <1>1, <1>7, <1>17, <2>1 DEF RunCal, lists
<1>8. CASE RunDevice
  <2> DEFINE d == DeviceOf(Instr(running).op)
             t == Stored(Instr(running).arg)
  <2>1. running \in UserPid /\ running \notin waiting BY <1>2, <1>8 DEF RunDevice, Running
  <2>2. d \in 1..Len(devices) /\ devices' = [devices EXCEPT ![d] = Require(@, t, running)]
    BY <1>8, DeviceFacts DEF RunDevice, DeviceOf
  <2>3. t \in Int BY <1>8, FetchFacts, StoredType DEF RunDevice, Running
  <2> HIDE DEF d, t
  <2>4. Matched(devices', waiting \cup {running}) BY <1>0, <2>1, <2>2, <2>3, MatchedRequired
  <2>5. waiting' = waiting \cup {running} /\ wakeq' = wakeq /\ pc' = "schedule"
    BY <1>8 DEF RunDevice, Block, kernel
  <2>6. OpenToReaders' BY <1>8, <1>17 DEF RunDevice
  <2> QED BY <2>4, <2>5, <2>6 DEF Served
<1>9. CASE RunFile
  <2>1. /\ Granted(Instr(running).file, RwOf(Instr(running).op))
        /\ \A g \in Files : g # Instr(running).file => sft'[g] = sft[g]
        /\ \A g \in Files : g = Instr(running).file => sft'[g].writers = <<>> /\ sft'[g].rw = Read
    BY <1>9, ReaderAccess DEF Served
  <2>2. OpenToReaders' BY <2>1 DEF Served, OpenToReaders, Read, Write
  <2>3. UNCHANGED <<devices, waiting, wakeq>> /\ pc' = "sleep"
    BY <1>9, <2>1 DEF RunFile, kernel
  <2> QED BY <1>1, <2>2, <2>3
<1>10. CASE RunExit
  <2>1. running \in UserPid /\ running \notin waiting BY <1>2, <1>10 DEF RunExit, Running
  <2>2. devices' = [d \in 1..Len(devices) |-> Popped(devices[d], running)]
    BY <1>10 DEF RunExit, Kill
  <2>3. devices' = devices BY <1>0, <2>1, <2>2, NothingPopped
  <2>4. waiting' = waiting /\ wakeq' = wakeq /\ pc' # "wake"
    BY <1>10, <2>1 DEF RunExit, Kill, kernel
  <2>5. OpenToReaders'
    <3>1. ASSUME NEW f \in Files PROVE sft'[f].writers = <<>> /\ sft'[f].rw # Write
      <4>1. sft[f] \in FileRecord /\ sft[f].writers = <<>> /\ sft[f].rw # Write
        BY DEF Served, OpenToReaders, IInv, TypeOK
      <4>2. sft'[f] = sft[f] \/ sft'[f] = Closed(sft[f]) BY <1>10 DEF RunExit, Kill
      <4> QED BY <2>1, <4>1, <4>2, ReaderEntry
    <3> QED BY <3>1 DEF OpenToReaders
  <2> QED BY <1>1, <2>3, <2>4, <2>5
<1>11. ~ (WakeOne \/ WakeDead) BY DEF Served, WakeOne, WakeDead
<1>12. ASSUME NEW p \in UserPid PROVE ~ SafeKill(p) BY DEF SafeKill
<1>13. CASE Mount
  <2>1. devices' = Append(devices, NewDevice) /\ UNCHANGED <<waiting, wakeq, pc>>
    BY <1>13 DEF Mount, kernel, lists
  <2>2. Matched(devices', waiting) BY <1>0, <2>1, MatchedMounted
  <2>3. OpenToReaders' BY <1>13, <1>17 DEF Mount
  <2> QED BY <2>1, <2>2, <2>3 DEF Served
<1>14. ASSUME NEW d \in 1..Len(devices), Unmount(d) PROVE Served'
  <2>1. /\ ~ devices[d].occupied /\ devices' = WithoutIndex(devices, d)
        /\ UNCHANGED <<waiting, wakeq, pc>>
    BY <1>14 DEF Unmount, kernel, lists
  <2>2. Matched(devices', waiting) BY <1>0, <2>1, MatchedUnmounted
  <2>3. OpenToReaders' BY <1>14, <1>17 DEF Unmount
  <2> QED BY <2>1, <2>2, <2>3 DEF Served
<1>15. CASE Run
  BY <1>3, <1>6, <1>7, <1>8, <1>9, <1>10, <1>11, <1>15 DEF Run
<1>16. CASE Shell BY <1>3, <1>12, <1>13, <1>14, <1>16 DEF Shell
<1> QED BY <1>3, <1>4, <1>5, <1>15, <1>16 DEF Next, KernelStep

\* The system starts with nobody waiting.
LEMMA ServedInit == ASSUME Init PROVE Served
<1>1. devices = <<NewDevice, NewDevice, NewDevice>> /\ waiting = {} BY DEF Init
<1>2. /\ Len(devices) = 3
      /\ \A d \in 1..Len(devices) : devices[d] = NewDevice
  BY <1>1
<1>3. \A d \in 1..Len(devices) : ~ devices[d].occupied /\ Len(devices[d].queue) = 0
  BY <1>2 DEF NewDevice
<1>4. Matched(devices, waiting) BY <1>1, <1>3 DEF Matched
<1>5. OpenToReaders BY DEF Init, OpenToReaders, NewEntry, Idle, Write
<1> QED BY <1>4, <1>5 DEF Init, Served

\* Without writers and without kills, a request in a queue is always that of a
\* process that waits, which has no other one.
THEOREM RequestsMatch ==
  ASSUME OnlyReaders, Victims = {}
  PROVE  Spec => []RequestsAreWaiting
<1>1. ASSUME IInv, Served PROVE RequestsAreWaiting
  BY <1>1 DEF IInv, TypeOK, Placement, InItsPlace, Served, Matched, RequestsAreWaiting, Request
<1> QED BY <1>1, ServedInit, ServedKept, Invariance, PTL DEF Spec

\* ... and every process that waits has one, on a device that is polled.
THEOREM WaitersMatch ==
  ASSUME OnlyReaders, Victims = {}
  PROVE  Spec => []WaitersAreServed
<1>1. ASSUME IInv, Served PROVE WaitersAreServed
  <2> SUFFICES ASSUME NEW p \in waiting
               PROVE  \E d \in 1..Len(devices) : devices[d].occupied /\ Requested(devices[d], p)
    BY DEF WaitersAreServed
  <2>1. PICK d \in 1..Len(devices) : Requested(devices[d], p) BY <1>1 DEF Served, Matched
  <2>2. Len(devices[d].queue) > 0
    <3>1. devices \in Seq(DeviceRecord) BY <1>1, DeviceFacts
    <3>2. Len(devices[d].queue) \in Nat BY <3>1, QueueFacts
    <3> QED BY <2>1, <3>2 DEF Requested
  <2> QED BY <1>1, <2>1, <2>2 DEF Served, Matched
<1> QED BY <1>1, ServedInit, ServedKept, Invariance, PTL DEF Spec

-----------------------------------------------------------------------------
(* Undefined behaviour *)

\* What keeps a system of computations, devices and readers on defined ground: printer
\* and keyboard are there, idle is never run as a program, no missing file was asked for.
Sound ==
  /\ algo # "SJF" /\ IdleQueued /\ Served
  /\ Len(devices) >= 2
  /\ pc = "run" => running # 0
  /\ \A p \in UserPid : Missing \notin proc[p].files
  /\ pc # "undefined"

\* The programs access only files that are there to be opened.
FilesAreThere ==
  \A code \in Programs : \A i \in 1..Len(code) :
    code[i].op \in {"read", "write"} => code[i].file # Missing

\* A choice never makes idle the program to run.
LEMMA ChosenIsNoIdle ==
  ASSUME IInv, algo # "SJF", IdleQueued, Choose
  PROVE  (pc' = "run" => running' # 0) /\ pc' # "undefined"
<1>1. /\ ready \in Seq(Pid) /\ running \in Pid \cup {NoPid} /\ running \in Int
      /\ Once(ready, 0) /\ (Occurs(ready, 0) <=> running # 0) /\ NoPid = -1
  BY ListFacts, PidFacts DEF IdleQueued
<1>2. CASE \/ FcfsNothing \/ FcfsKeep \/ FcfsGoIdle \/ RrExpire \/ RrTake \/ RrIdle \/ RrKeep
           \/ PrKeep \/ MqNothing
  BY <1>1, <1>2 DEF FcfsNothing, FcfsKeep, FcfsGoIdle, RrExpire, RrTake, RrIdle, RrKeep,
     PrKeep, MqNothing, Choosing, EndTick
<1>3. CASE FcfsDispatch
  <2>1. ready # <<>> /\ ready # << 0 >> /\ running' = Head(Turned) /\ pc' = "run"
    BY <1>3 DEF FcfsDispatch
  <2> QED BY <1>1, <2>1, TurnedFront
<1>4. CASE RrLeaveIdle
  <2>1. ready # <<>> /\ running = 0 /\ running' = Head(ready) /\ pc' = "run"
    BY <1>4 DEF RrLeaveIdle
  <2>2. Occurs(ready, Head(ready)) BY <1>1, <2>1, TailOccurs
  <2> QED BY <1>1, <2>1, <2>2
<1>5. CASE PrPick
  BY <1>5 DEF PrPick, EndTick
<1>6. ~ (SjfEmpty \/ SjfKeep \/ SjfPreempt) BY DEF SjfEmpty, SjfKeep, SjfPreempt, Choosing
<1> QED BY <1>2, <1>3, <1>4, <1>5, <1>6 DEF Choose

\* From sound states every step is a defined one, to a sound state.
LEMMA SoundKept ==
  ASSUME OnlyReaders, Victims = {}, Unplug = FALSE, FilesAreThere,
         NeverSjf,
         IInv, Sound, [Next]_vars
  PROVE  Sound'
<1>0. /\ devices \in Seq(DeviceRecord) /\ Len(devices) \in Nat /\ Matched(devices, waiting)
      /\ \A p \in UserPid : p \in waiting <=> state[p] = "WAITING"
      /\ proc \in [UserPid -> ProcessRecord] /\ waiting \subseteq UserPid
  BY DeviceFacts DEF IInv, TypeOK, Sound, Served, Placement, InItsPlace
<1>1. algo' # "SJF" /\ IdleQueued' BY IdleKept DEF Sound
<1>2. Served' BY ServedKept DEF Sound
<1>3. ASSUME pc = "run", running # 0
      PROVE  /\ running \in UserPid
             /\ Instr(running).op \in {"read", "write"} => Instr(running).file # Missing
    BY <1>3, FetchFacts DEF FilesAreThere, Instr
<1>4. ~ \/ PollEmpty \/ PollDead \/ RunIdleProgram \/ RunNoDevice \/ RunExitClosing
        \/ WakeOne \/ WakeDead
        \/ (\E p \in UserPid : SafeKill(p) \/ SafeKillClosing(p))
        \/ (\E d \in 1..Len(devices) : Unmount(d))
  <2>1. ~ PollEmpty
    <3> SUFFICES ASSUME PollEmpty PROVE FALSE OBVIOUS
    <3>1. pollAt \in 1..Len(devices) /\ devices[pollAt].occupied /\ devices[pollAt].queue = <<>>
      BY DeviceFacts DEF PollEmpty
    <3>2. Len(devices[pollAt].queue) = 0 BY <1>0, <3>1, QueueFacts
    <3> QED BY <1>0, <3>1, <3>2 DEF Matched
  <2>2. ~ PollDead
    <3> SUFFICES ASSUME PollDead PROVE FALSE OBVIOUS
    <3> DEFINE p == devices[pollAt].queue[1].pid
    <3>1. pollAt \in 1..Len(devices) /\ devices[pollAt].queue # <<>> /\ ~ Live(p)
      BY DeviceFacts DEF PollDead
    <3>2. 1 \in 1..Len(devices[pollAt].queue)
      <4>1. Len(devices[pollAt].queue) \in Nat /\ Len(devices[pollAt].queue) # 0
        BY <1>0, <3>1, QueueFacts
      <4> QED BY <4>1
    <3>3. p \in waiting BY <1>0, <3>1, <3>2 DEF Matched
    <3> QED BY <1>0, <3>1, <3>3 DEF Live
  <2>3. ~ RunIdleProgram BY DEF RunIdleProgram, Sound
  <2>4. ~ RunNoDevice BY <1>0 DEF RunNoDevice, DeviceOf, Sound
  <2>5. ~ RunExitClosing BY <1>3 DEF RunExitClosing, Running, ClosesNothing, Sound
  <2>6. ~ (WakeOne \/ WakeDead) BY DEF WakeOne, WakeDead, Sound, Served
  <2>8. ~ (\E p \in UserPid : SafeKill(p) \/ SafeKillClosing(p))
    BY DEF SafeKill, SafeKillClosing
  <2>9. ~ (\E d \in 1..Len(devices) : Unmount(d)) BY DEF Unmount
  <2> QED BY <2>1, <2>2, <2>3, <2>4, <2>5, <2>6, <2>8, <2>9
<1>5. ASSUME pc' # "undefined", pc' = "run" => running' # 0, Len(devices') >= 2,
             \A p \in UserPid : Missing \notin proc'[p].files
      PROVE  Sound'
  BY <1>1, <1>2, <1>5 DEF Sound
<1>6. CASE BeginTick \/ PollIdle
  BY <1>5, <1>6 DEF Sound, BeginTick, PollIdle, NextDevice
<1>7. CASE PollBusy
  <2>1. /\ Len(devices') = Len(devices) /\ pc' \in {"poll", "schedule"}
    <3>1. Len(devices') = Len(devices)
      <4>1. \E x : devices' = [devices EXCEPT ![pollAt] = x] BY <1>7 DEF PollBusy
      <4> QED BY <1>0, <4>1
    <3>2. pc' \in {"poll", "schedule"} BY <1>7 DEF PollBusy, NextDevice
    <3> QED BY <3>1, <3>2
  <2>2. \A p \in UserPid : proc'[p].files = proc[p].files
    BY <1>0, <1>7 DEF PollBusy, ProcessRecord
  <2> QED BY <1>5, <2>1, <2>2 DEF Sound
<1>8. CASE Choose
  <2>1. UNCHANGED <<devices, proc>>
    <3>1. ~ SjfEmpty BY DEF SjfEmpty, Choosing, Sound
    <3> QED BY <1>8, <3>1 DEF Choose, KeepRest,
       FcfsNothing, FcfsKeep, FcfsGoIdle, FcfsDispatch, SjfKeep, SjfPreempt,
       RrExpire, RrTake, RrLeaveIdle, RrIdle, RrKeep, PrKeep, PrPick, MqNothing
  <2>2. (pc' = "run" => running' # 0) /\ pc' # "undefined" BY <1>8, ChosenIsNoIdle DEF Sound
  <2> QED BY <1>5, <2>1, <2>2 DEF Sound
<1>9. CASE RunBurst \/ RunCal \/ RunDevice \/ RunUnknown
  <2>1. running \in UserPid /\ pc = "run"
    BY <1>3, <1>9 DEF RunBurst, RunCal, RunDevice, RunUnknown, Running
  <2>2. pc' \in {"sleep", "wake", "schedule"} /\ Len(devices') = Len(devices)
    BY <1>0, <1>9 DEF RunBurst, RunCal, RunDevice, RunUnknown, FileDone, Block, EndTick
  <2>3. \A p \in UserPid : proc'[p].files = proc[p].files
    <3>1. CASE RunBurst BY <1>0, <2>1, <3>1 DEF RunBurst, ProcessRecord
    <3>2. CASE RunCal BY <1>0, <2>1, <3>2 DEF RunCal, ProcessRecord
    <3>3. CASE RunDevice BY <1>0, <2>1, <3>3 DEF RunDevice, ProcessRecord
    <3>4. CASE RunUnknown BY <1>0, <2>1, <3>4 DEF RunUnknown, ProcessRecord
    <3> QED BY <1>9, <3>1, <3>2, <3>3, <3>4
  <2> QED BY <1>5, <2>2, <2>3 DEF Sound
<1>16. CASE RunFile
  <2>1. running \in UserPid /\ Instr(running).file # Missing BY <1>3, <1>16 DEF RunFile, Running
  <2>2. pc' = "sleep" /\ UNCHANGED devices BY <1>16, ReaderAccess DEF RunFile, Sound, Served
  <2>3. \A p \in UserPid : proc'[p].files \subseteq proc[p].files \cup {Instr(running).file}
    BY <1>0, <1>16, <2>1 DEF RunFile, ProcessRecord
  <2> QED BY <1>5, <2>1, <2>2, <2>3 DEF Sound
<1>10. \A code : Missing \notin Process(code).files BY DEF Process
<1>11. CASE RunExit
  <2>1. Kill(running) /\ pc' = "schedule" BY <1>11 DEF RunExit
  <2>2. Len(devices') = Len(devices) BY <1>0, <2>1 DEF Kill
  <2>3. proc' = [proc EXCEPT ![running] = Process(<<>>)] BY <2>1 DEF Kill
  <2>4. \A p \in UserPid : Missing \notin proc'[p].files BY <1>0, <1>10, <2>3 DEF Sound
  <2> QED BY <1>5, <2>1, <2>2, <2>4 DEF Sound
<1>12. ASSUME NEW p \in UserPid, NEW code, pc' = pc, pc = "sleep", devices' = devices,
              proc' = [proc EXCEPT ![p] = Process(code)]
       PROVE  Sound'
  <2>1. \A q \in UserPid : Missing \notin proc'[q].files BY <1>0, <1>10, <1>12 DEF Sound
  <2> QED BY <1>5, <1>12, <2>1 DEF Sound
<1>13. CASE (\E p \in UserPid, code \in Programs : Exec(p, code)) \/ (\E p \in UserPid : ExecBad(p))
  BY <1>12, <1>13 DEF Exec, ExecBad
<1>14. CASE (\E a \in Switches : Chalg(a)) \/ Mount
  <2>1. Len(devices') >= 2 BY <1>0, <1>14 DEF Chalg, Mount, Sound
  <2>2. UNCHANGED <<pc, proc, running>> BY <1>14 DEF Chalg, Mount
  <2> QED BY <1>5, <2>1, <2>2 DEF Sound
<1>15. CASE UNCHANGED vars BY <1>5, <1>15 DEF vars, Sound
<1> QED BY <1>4, <1>6, <1>7, <1>8, <1>9, <1>11, <1>13, <1>14, <1>15, <1>16
        DEF Next, KernelStep, Run, Shell

\* With computations, devices and readers of files only, no kills, no unmounting and
\* no SJF, no step is one that C++ leaves undefined, for any number of programs and
\* processes: each place where the code checks nothing is guarded by what comes before.
THEOREM AlwaysDefined ==
  ASSUME OnlyReaders, Victims = {}, Unplug = FALSE, FilesAreThere, NeverSjf
  PROVE  Spec => []NeverUndefined
<1>1. ASSUME Init PROVE Sound
  <2>1. Served BY <1>1, ServedInit
  <2>2. IdleQueued /\ algo # "SJF" BY <1>1, PidFacts DEF NeverSjf, Init, IdleQueued, Once, Occurs
  <2>3. Len(devices) = 3 /\ pc = "sleep" BY <1>1 DEF Init
  <2>4. \A p \in UserPid : proc[p].files = {} BY <1>1 DEF Init, Process
  <2> QED BY <2>1, <2>2, <2>3, <2>4 DEF Sound
<1>2. IInv /\ Sound /\ [Next]_vars => Sound' BY SoundKept
<1>3. Sound => NeverUndefined BY DEF Sound, NeverUndefined
<1> QED BY <1>1, <1>2, <1>3, Invariance, PTL DEF Spec

-----------------------------------------------------------------------------
(* Readers *)

\* A read of a file has more than one tick of work, as its operand is stored: one of
\* a single tick is over before FILE_DONE is looked for, and stays in the list.
LongReads ==
  \A code \in Programs : \A i \in 1..Len(code) :
    code[i].op = "read" /\ code[i].file # Missing => Stored(code[i].arg) % WordSize > 1

\* A process that waits has no work on the processor.
WaitersIdle == \A p \in UserPid : state[p] = "WAITING" => proc[p].workload = 0

\* The readers of a file are listed, and the others have nothing to come back to.
Listed == ReadersAreReading /\ WaitersIdle

\* Both state words are those of a process that waits for the processor or has it.
Runnable(word) == word \in {"READY", "RUNNING"}

\* A choice of schedule() moves processes between the ready list and the processor only.
LEMMA ChoiceMoves ==
  ASSUME IInv, Choose
  PROVE  /\ UNCHANGED <<proc, devices, sft, wakeq>> /\ pc' # "wake"
         /\ \A p \in UserPid : state'[p] = state[p] \/ (Runnable(state[p]) /\ Runnable(state'[p]))
<1>1. UNCHANGED <<proc, devices, sft, wakeq>> /\ pc' # "wake"
  BY DEF Choose, KeepRest, kernel, Undefined, EndTick, Choosing,
     FcfsNothing, FcfsKeep, FcfsGoIdle, FcfsDispatch, SjfEmpty, SjfKeep, SjfPreempt,
     RrExpire, RrTake, RrLeaveIdle, RrIdle, RrKeep, PrKeep, PrPick, MqNothing
<1>2. CASE FcfsNothing \/ FcfsKeep \/ RrIdle \/ RrKeep \/ PrKeep \/ MqNothing \/ SjfEmpty
  BY <1>1, <1>2 DEF FcfsNothing, FcfsKeep, RrIdle, RrKeep, PrKeep, MqNothing, SjfEmpty, Undefined
<1>3. ASSUME NEW x, Dispatched(x), NEW p \in UserPid
      PROVE  state'[p] = state[p] \/ (Runnable(state[p]) /\ Runnable(state'[p]))
  <2>1. /\ running = p => state[p] = "RUNNING"
        /\ Occurs(ready, p) => state[p] = "READY"
    BY <1>3 DEF IInv, Placement, InItsPlace
  <2>2. /\ state'[p] = IF p = x THEN "RUNNING" ELSE IF p = running THEN "READY" ELSE state[p]
        /\ p = x => Occurs(ready, p)
    BY <1>3 DEF Dispatched
  <2> QED BY <2>1, <2>2 DEF Runnable
<1>4. CASE \/ FcfsGoIdle \/ FcfsDispatch \/ SjfKeep \/ SjfPreempt
           \/ RrExpire \/ RrTake \/ RrLeaveIdle \/ PrPick
  <2>1. (\E x : Dispatched(x)) \/ UNCHANGED state
    BY <1>4, FcfsIdle, FcfsTakes, SjfKeeps, SjfPreempts, RrExpires, RrTakes, PrPicks
  <2> QED BY <1>1, <1>3, <2>1
<1> QED BY <1>2, <1>4 DEF Choose

\* A process uses what it used when its record is the same and it goes on, or when
\* it has no work before the step and none after it.
LEMMA UseKept ==
  ASSUME NEW p \in UserPid,
         \/ /\ proc'[p].code = proc[p].code /\ proc'[p].ip = proc[p].ip
            /\ proc'[p].workload = proc[p].workload
            /\ state'[p] = state[p] \/ (Runnable(state[p]) /\ Runnable(state'[p]))
         \/ ~ (proc[p].workload > 0) /\ ~ (proc'[p].workload > 0)
  PROVE  \A f : Uses(p, f)' <=> Uses(p, f)
BY DEF Uses, Live, Last, Runnable

\* A step after which the same processes use the files they are listed for.
LEMMA SameReaders ==
  ASSUME Listed, WaitersIdle',
         \A f \in Files : sft'[f].readers = sft[f].readers /\ sft'[f].rw = sft[f].rw,
         \A p \in UserPid : \A f \in Files : Uses(p, f)' <=> Uses(p, f)
  PROVE  Listed'
BY DEF Listed, ReadersAreReading

\* What the state of a process says of its record, before it runs.
LEMMA FetchedUse ==
  ASSUME IInv, Served, Listed, pc = "run", running # 0
  PROVE  /\ running \in UserPid /\ Live(running) /\ state[running] = "RUNNING"
         /\ running \notin waiting
         /\ proc[running].workload \in Nat /\ proc[running].ip \in Nat
<1>1. running \in UserPid BY FetchFacts
<1>2. Live(running) /\ state[running] = "RUNNING" /\ running \notin waiting
  BY <1>1 DEF IInv, Placement, InItsPlace, Live
<1>3. proc[running].workload \in Nat /\ proc[running].ip \in Nat
  BY <1>1, ProcFacts, WordSizeAssumption DEF Word
<1> QED BY <1>1, <1>2, <1>3

\* A tick of the running process keeps the readers of a file listed.
LEMMA BurstListed ==
  ASSUME OnlyReaders, IInv, Served, Listed, RunBurst, NEW p, p = running
  PROVE  Listed'
<1> DEFINE f == Last(p).file
           ends == proc[p].workload = 1 /\ f \in Files /\ Last(p).op \in {"read", "write"}
<1>1. /\ p \in UserPid /\ Live(p) /\ state[p] = "RUNNING"
      /\ proc[p].workload \in Nat /\ proc[p].workload > 0 /\ proc \in [UserPid -> ProcessRecord]
  BY FetchedUse, ProcFacts DEF RunBurst
<1>2. /\ UNCHANGED state
      /\ \A q \in UserPid : q # p => proc'[q] = proc[q]
      /\ proc'[p].workload = proc[p].workload - 1
      /\ proc'[p].code = proc[p].code /\ proc'[p].ip = proc[p].ip
  BY <1>1 DEF RunBurst, ProcessRecord
<1>3. WaitersIdle' BY <1>1, <1>2 DEF Listed, WaitersIdle
<1>4. \A q \in UserPid : q # p => \A g \in Files : Uses(q, g)' <=> Uses(q, g)
  BY <1>2 DEF Uses, Live, Last
<1>5. \A g \in Files : Uses(p, g) <=> Last(p).op \in {"read", "write"} /\ f = g
  BY <1>1 DEF Uses
<1>6. \A g \in Files : Uses(p, g)' <=> /\ proc[p].workload # 1
                                       /\ Last(p).op \in {"read", "write"} /\ f = g
  BY <1>1, <1>2 DEF Uses, Live, Last
<1>7. /\ ends => Last(p).op = "read"
      /\ sft' = IF ends THEN [sft EXCEPT ![f] = Done(sft[f], Read, p)] ELSE sft
  BY ReaderBurst DEF Served
<1>8. CASE ~ ends
  <2>1. \A g \in Files : Uses(p, g)' <=> Uses(p, g) BY <1>5, <1>6, <1>8
  <2>2. UNCHANGED sft BY <1>7, <1>8
  <2> QED BY <1>3, <1>4, <2>1, <2>2, SameReaders
<1>9. CASE ends
  <2>1. /\ sft \in [Files -> FileRecord] /\ sft[f] \in FileRecord
        /\ sft[f].writers = <<>> /\ sft[f].rw # Write
        /\ sft[f].readers \in Seq(UserPid)
    BY <1>9 DEF IInv, TypeOK, Served, OpenToReaders, FileRecord
  <2> DEFINE rest == Without(sft[f].readers, p)
  <2>2. /\ sft'[f].readers = rest
        /\ sft'[f].rw = IF rest = <<>> THEN Idle ELSE sft[f].rw
        /\ \A g \in Files : g # f => sft'[g] = sft[g]
    BY <1>1, <1>7, <1>9, <2>1, ReaderEntry
  <2>3. \A x : Occurs(rest, x) <=> x # p /\ Occurs(sft[f].readers, x)
    BY <2>1, WithoutOccurs
  <2>4. ASSUME NEW g \in Files, NEW q \in UserPid
        PROVE  Occurs(sft'[g].readers, q) <=> Uses(q, g)'
    <3>1. Occurs(sft[g].readers, q) <=> Uses(q, g) BY DEF Listed, ReadersAreReading
    <3>2. CASE g = f BY <1>4, <1>6, <1>9, <2>2, <2>3, <3>1, <3>2
    <3>3. CASE g # f BY <1>4, <1>5, <1>6, <2>2, <3>1, <3>3
    <3> QED BY <3>2, <3>3
  <2>5. ASSUME NEW g \in Files PROVE sft'[g].rw = Read <=> sft'[g].readers # <<>>
    <3>1. sft[g].rw = Read <=> sft[g].readers # <<>> BY DEF Listed, ReadersAreReading
    <3>2. CASE g # f BY <2>2, <3>1, <3>2
    <3>3. CASE g = f
      <4>1. Occurs(sft[f].readers, p)
        BY <1>1, <1>5, <1>9 DEF Listed, ReadersAreReading
      <4>2. sft[f].readers # <<>> BY <4>1 DEF Occurs
      <4> QED BY <2>2, <3>1, <3>3, <4>2 DEF Idle, Read
    <3> QED BY <3>2, <3>3
  <2> QED BY <1>3, <2>4, <2>5 DEF Listed, ReadersAreReading
<1> QED BY <1>8, <1>9

\* The first tick of an access lists the process that reads from then on.
LEMMA AccessListed ==
  ASSUME OnlyReaders, LongReads, IInv, Served, Listed, RunFile, NEW p, p = running
  PROVE  Listed'
<1> DEFINE f == Instr(p).file
           work == Stored(Instr(p).arg) % WordSize
<1>1. /\ p \in UserPid /\ Live(p) /\ state[p] = "RUNNING"
      /\ proc[p].workload = 0 /\ proc \in [UserPid -> ProcessRecord]
      /\ proc[p].code \in Programs /\ proc[p].ip \in 1..Len(proc[p].code)
      /\ proc[p].ip \in Nat /\ Instr(p).arg \in Nat
  BY FetchedUse, FetchFacts, ProcFacts DEF RunFile, Running
<1>2. /\ f \in Files \cup {Missing} /\ (f # Missing => Instr(p).op = "read")
      /\ Granted(f, RwOf(Instr(p).op))
      /\ \A g \in Files \ {f} : sft'[g] = sft[g]
      /\ f \in Files =>
           /\ sft'[f].writers = <<>> /\ sft'[f].rw = Read
           /\ sft'[f].readers = Append(sft[f].readers, p)
  BY ReaderAccess DEF Served
<1>3. work \in Word /\ (work - 1) % WordSize \in Word
  <2>1. work \in Word BY <1>1, StoredType, ModWord
  <2>2. work - 1 \in Int BY <2>1, WordSizeAssumption DEF Word
  <2> QED BY <2>1, <2>2, ModWord
<1>4. /\ UNCHANGED state
      /\ \A q \in UserPid : q # p => proc'[q] = proc[q]
      /\ proc'[p].workload = (work - 1) % WordSize
      /\ proc'[p].code = proc[p].code /\ proc'[p].ip = proc[p].ip + 1
  <2> HIDE DEF work
  <2>1. /\ UNCHANGED state
        /\ proc' = [proc EXCEPT ![p].workload = (work - 1) % WordSize,
                                ![p].files = @ \cup {f}, ![p].ip = @ + 1]
    BY <1>2 DEF RunFile, work
  <2> HIDE DEF f
  <2> QED BY <1>1, <2>1 DEF ProcessRecord
<1>5. WaitersIdle' BY <1>1, <1>4 DEF Listed, WaitersIdle
<1>6. \A q \in UserPid : q # p => \A g \in Files : Uses(q, g)' <=> Uses(q, g)
  BY <1>4 DEF Uses, Live, Last
<1>7. \A g \in Files : ~ Uses(p, g) BY <1>1 DEF Uses
<1>8. Last(p)' = Instr(p) BY <1>1, <1>4 DEF Last, Instr
<1>9. \A g \in Files : Uses(p, g)' <=> f = g
  <2>1. ASSUME f \in Files PROVE proc'[p].workload > 0 /\ Last(p)'.op = "read"
    <3>1. f # Missing /\ Instr(p).op = "read" BY <1>2, <2>1, SchedulerAssumption
    <3>2. work > 1 BY <1>1, <3>1 DEF LongReads, Instr
    <3>3. (work - 1) % WordSize = work - 1
      <4> HIDE DEF work
      <4> QED BY <1>3, <3>2, WordSizeAssumption DEF Word
    <3> HIDE DEF work
    <3>4. work - 1 > 0 BY <1>3, <3>2, WordSizeAssumption DEF Word
    <3> QED BY <1>4, <1>8, <3>1, <3>3, <3>4
  <2>2. \A g \in Files : Uses(p, g)' => f = g BY <1>8 DEF Uses
  <2>3. ASSUME NEW g \in Files, f = g PROVE Uses(p, g)'
    BY <1>1, <1>4, <1>8, <2>1, <2>3 DEF Uses, Live
  <2> QED BY <2>2, <2>3
<1>10. ASSUME NEW g \in Files
       PROVE  /\ \A q \in UserPid : Occurs(sft'[g].readers, q) <=> Uses(q, g)'
              /\ sft'[g].rw = Read <=> sft'[g].readers # <<>>
  <2>1. /\ \A q \in UserPid : Occurs(sft[g].readers, q) <=> Uses(q, g)
        /\ sft[g].rw = Read <=> sft[g].readers # <<>>
    BY DEF Listed, ReadersAreReading
  <2>2. CASE g # f BY <1>2, <1>6, <1>7, <1>9, <2>1, <2>2
  <2>3. CASE g = f
    <3>1. sft[g].readers \in Seq(UserPid) BY DEF IInv, TypeOK, FileRecord
    <3>2. \A x : Occurs(Append(sft[g].readers, p), x) <=> Occurs(sft[g].readers, x) \/ x = p
      BY <1>1, <3>1, AppendOccurs
    <3>3. Append(sft[g].readers, p) # <<>> BY <3>1
    <3> QED BY <1>2, <1>6, <1>9, <2>1, <2>3, <3>2, <3>3
  <2> QED BY <2>2, <2>3
<1> QED BY <1>5, <1>10 DEF Listed, ReadersAreReading

\* Every step keeps the readers of a file listed, unless the user kills one.
LEMMA ListedKept ==
  ASSUME OnlyReaders, LongReads, Victims = {}, IInv, Served, Listed, [Next]_vars
  PROVE  Listed'
<1>0. /\ proc \in [UserPid -> ProcessRecord] /\ sft \in [Files -> FileRecord]
      /\ devices \in Seq(DeviceRecord)
      /\ state \in [Pid -> States] /\ UserPid \subseteq Pid
      /\ \A p \in UserPid : p \in waiting <=> state[p] = "WAITING"
      /\ WaitersIdle
  BY PidFacts DEF IInv, TypeOK, Placement, InItsPlace, Listed
<1>1. ASSUME UNCHANGED <<proc, sft>>,
             \A p \in UserPid : state'[p] = state[p] \/ (Runnable(state[p]) /\ Runnable(state'[p]))
      PROVE  Listed'
  <2>1. WaitersIdle' BY <1>0, <1>1 DEF WaitersIdle, Runnable
  <2>2. ASSUME NEW p \in UserPid, NEW f \in Files PROVE Uses(p, f)' <=> Uses(p, f)
    BY <1>1, UseKept
  <2> QED BY <1>1, <2>1, <2>2, SameReaders
<1>2. ASSUME NEW p \in UserPid, NEW r, proc' = [proc EXCEPT ![p] = r],
             proc[p].workload = 0, r.workload = 0,
             \A q \in UserPid : q # p => state'[q] = state[q],
             \A f \in Files : sft'[f].readers = sft[f].readers /\ sft'[f].rw = sft[f].rw
      PROVE  Listed'
  <2>1. proc'[p] = r /\ \A q \in UserPid : q # p => proc'[q] = proc[q] BY <1>0, <1>2
  <2>2. WaitersIdle' BY <1>0, <1>2, <2>1 DEF WaitersIdle
  <2>3. ASSUME NEW q \in UserPid, NEW f \in Files PROVE Uses(q, f)' <=> Uses(q, f)
    BY <1>2, <2>1, UseKept
  <2> QED BY <1>2, <2>2, <2>3, SameReaders
<1>3. CASE \/ BeginTick \/ PollIdle \/ PollEmpty \/ PollDead
           \/ RunIdleProgram \/ RunNoDevice \/ RunExitClosing
           \/ (\E p \in UserPid : SafeKillClosing(p))
           \/ (\E a \in Switches : Chalg(a))
           \/ Mount \/ (\E d \in 1..Len(devices) : Unmount(d))
           \/ UNCHANGED vars
  <2>1. UNCHANGED <<proc, sft, state>>
    BY <1>3 DEF BeginTick, PollIdle, PollEmpty, PollDead, Undefined, RunIdleProgram,
       RunNoDevice, RunExitClosing, SafeKillClosing, Chalg, Mount, Unmount, vars
  <2> QED BY <1>1, <2>1
<1>4. CASE Choose BY <1>1, <1>4, ChoiceMoves
<1>5. CASE PollBusy
  <2> DEFINE d == devices[pollAt]
             p == d.queue[1].pid
  <2>1. pollAt \in 1..Len(devices) /\ d.queue # <<>> BY <1>5, DeviceFacts DEF PollBusy
  <2>2. p \in waiting /\ p \in UserPid /\ state[p] = "WAITING"
    <3>1. 1 \in 1..Len(d.queue)
      <4>1. Len(d.queue) \in Nat /\ Len(d.queue) # 0 BY <1>0, <2>1, QueueFacts
      <4> QED BY <4>1
    <3>2. p \in waiting BY <2>1, <3>1 DEF Served, Matched
    <3> QED BY <1>0, <3>2 DEF IInv, TypeOK
  <2>3. proc[p].workload = 0 BY <1>0, <2>2 DEF WaitersIdle
  <2> DEFINE r == [proc[p] EXCEPT !.est = @ - 1, !.workload = 0]
  <2>4. proc' = [proc EXCEPT ![p] = r] /\ r.workload = 0 /\ UNCHANGED sft
    <3>1. proc[p] \in ProcessRecord BY <1>0, <2>2
    <3>2. proc' = [proc EXCEPT ![p].est = @ - 1,
                     ![p].workload = IF Completes(d) THEN WorkloadWoken(p) ELSE @]
      BY <1>5, <2>2 DEF PollBusy, Live
    <3>3. WorkloadWoken(p) = 0 BY <2>2, <2>3 DEF WorkloadWoken
    <3>4. UNCHANGED sft BY <1>5 DEF PollBusy
    <3> HIDE DEF p, d
    <3>5. proc' = [proc EXCEPT ![p].est = @ - 1, ![p].workload = 0]
      BY <2>3, <3>1, <3>2, <3>3 DEF ProcessRecord
    <3>6. proc' = [proc EXCEPT ![p] = r] /\ r.workload = 0
      BY <1>0, <2>2, <3>1, <3>5 DEF ProcessRecord
    <3> QED BY <3>4, <3>6
  <2>5. \A q \in UserPid : q # p => state'[q] = state[q]
    BY <1>0, <1>5, <2>2 DEF PollBusy, WakeLists
  <2> HIDE DEF p, r
  <2> QED BY <1>2, <2>2, <2>3, <2>4, <2>5
<1>6. CASE RunBurst BY <1>6, BurstListed
<1>7. CASE RunFile BY <1>7, AccessListed
<1>8. CASE RunCal
  <2>1. UNCHANGED <<state, sft>> BY <1>8 DEF RunCal, OnlyReaders
  <2>2. PICK p \in UserPid : p = running BY <1>8, FetchFacts DEF RunCal, Running
  <2>3. /\ state[p] = "RUNNING" /\ proc[p].workload = 0
        /\ Instr(p).op = "cal" /\ proc[p].ip \in Nat
    BY <1>8, <2>2, FetchedUse DEF RunCal, Running
  <2>4. /\ \A q \in UserPid : q # p => proc'[q] = proc[q]
        /\ proc'[p].code = proc[p].code /\ proc'[p].ip = proc[p].ip + 1
    BY <1>0, <1>8, <2>2 DEF RunCal, ProcessRecord
  <2>5. WaitersIdle' BY <1>0, <2>1, <2>3, <2>4 DEF WaitersIdle
  <2>6. ASSUME NEW q \in UserPid, NEW f \in Files PROVE Uses(q, f)' <=> Uses(q, f)
    <3>1. CASE q # p BY <2>1, <2>4, <3>1 DEF Uses, Live, Last
    <3>2. CASE q = p
      <4>1. Last(p)' = Instr(p) BY <2>3, <2>4 DEF Last, Instr
      <4> QED BY <2>3, <3>2, <4>1 DEF Uses
    <3> QED BY <3>1, <3>2
  <2> QED BY <2>1, <2>5, <2>6, SameReaders
<1>9. CASE RunDevice \/ RunUnknown
  <2> DEFINE r == [proc[running] EXCEPT !.ip = @ + 1]
  <2>1. running \in UserPid /\ proc[running].workload = 0
    BY <1>9, FetchFacts DEF RunDevice, RunUnknown, Running
  <2>2. proc' = [proc EXCEPT ![running] = r] /\ r.workload = 0
    BY <1>0, <1>9, <2>1 DEF RunDevice, RunUnknown, ProcessRecord
  <2>3. UNCHANGED sft /\ \A q \in UserPid : q # running => state'[q] = state[q]
    BY <1>0, <1>9, <2>1 DEF RunDevice, RunUnknown, Block
  <2> HIDE DEF r
  <2> QED BY <1>2, <2>1, <2>2, <2>3
<1>10. CASE RunExit
  <2>1. running \in UserPid /\ proc[running].workload = 0 /\ Kill(running)
    BY <1>10, FetchFacts DEF RunExit, Running
  <2>2. /\ proc' = [proc EXCEPT ![running] = Process(<<>>)] /\ Process(<<>>).workload = 0
        /\ \A q \in UserPid : q # running => state'[q] = state[q]
    BY <1>0, <2>1, EmptyProcess DEF Kill
  <2>3. \A f \in Files : sft'[f].readers = sft[f].readers /\ sft'[f].rw = sft[f].rw
    BY <1>0, <2>1 DEF Kill, Closed, FileRecord
  <2> QED BY <1>2, <2>1, <2>2, <2>3
<1>11. ASSUME NEW p \in UserPid,
              ExecBad(p) \/ \E code \in Programs : Exec(p, code)
       PROVE  Listed'
  <2>1. PICK code : proc' = [proc EXCEPT ![p] = Process(code)] BY <1>11 DEF ExecBad, Exec
  <2>2. /\ ~ Live(p) /\ state' = [state EXCEPT ![p] = "READY"] /\ UNCHANGED sft
    BY <1>11 DEF ExecBad, Exec, IsNewPid, FreePids
  <2>3. /\ \A q \in UserPid : q # p => proc'[q] = proc[q] /\ state'[q] = state[q]
        /\ proc'[p].workload = 0
    BY <1>0, <2>1, <2>2 DEF Process
  <2>4. WaitersIdle' BY <1>0, <2>3 DEF WaitersIdle
  <2>5. ASSUME NEW q \in UserPid, NEW f \in Files PROVE Uses(q, f)' <=> Uses(q, f)
    <3>1. CASE q # p BY <2>3, <3>1, UseKept
    <3>2. CASE q = p BY <2>2, <2>3, <3>2 DEF Uses
    <3> QED BY <3>1, <3>2
  <2> QED BY <2>2, <2>4, <2>5, SameReaders
<1>12. ~ (WakeOne \/ WakeDead) /\ \A p \in UserPid : ~ SafeKill(p)
  BY DEF Served, WakeOne, WakeDead, SafeKill
<1> QED BY <1>3, <1>4, <1>5, <1>6, <1>7, <1>8, <1>9, <1>10, <1>11, <1>12
        DEF Next, KernelStep, Run, Shell

\* With readers only, each reading for more than a tick, and no kills, the list of a
\* file is the set of the processes that are reading it at this moment, and the lock
\* is a read lock exactly while there are some: for any programs, processes and files,
\* and under every algorithm.
THEOREM ReadersListed ==
  ASSUME OnlyReaders, LongReads, Victims = {}
  PROVE  Spec => []ReadersAreReading
<1>1. ASSUME Init PROVE Listed
  <2>1. \A f \in Files : sft[f].readers = <<>> /\ sft[f].rw = Idle BY <1>1 DEF Init, NewEntry
  <2>2. \A p \in UserPid : ~ Live(p) /\ state[p] = "NONE" BY <1>1, PidFacts DEF Init, Live
  <2>3. \A f \in Files, p \in UserPid : ~ Occurs(sft[f].readers, p) /\ ~ Uses(p, f)
    BY <2>1, <2>2 DEF Occurs, Uses
  <2> QED BY <2>1, <2>2, <2>3 DEF Listed, ReadersAreReading, WaitersIdle, Idle, Read
<1>2. IInv /\ Served /\ Listed /\ [Next]_vars => Served' /\ Listed'
  BY ServedKept, ListedKept
<1>3. Init => Served BY ServedInit
<1>4. Listed => ReadersAreReading BY DEF Listed
<1> QED BY <1>1, <1>2, <1>3, <1>4, Invariance, PTL DEF Spec

-----------------------------------------------------------------------------
(* The estimate *)

\* The operands are what the compiler of programs accepts: some ticks, few enough for
\* the signed char and the counters that hold them.
PlainOperands ==
  \A code \in Programs : \A i \in 1..Len(code) :
    code[i].op \in {"cal", "input", "print", "read", "write"} =>
      code[i].arg \in 1..(CharHalf - 1) /\ code[i].arg < WordSize

\* What the estimate in a process record promises over the work that is still to come
\* on the processor; work at a device has to fit into it.
Slack(r) == r.est - r.workload - CostFrom(r.code, r.ip)

\* The estimate covers the work of a process, the request it waits for included.
Covered ==
  /\ \A p \in UserPid : Live(p) => Slack(proc[p]) >= 0
  /\ \A d \in 1..Len(devices) : \A i \in 1..Len(devices[d].queue) :
       LET r == devices[d].queue[i] IN r.time >= 1 /\ Slack(proc[r.pid]) >= r.time

\* The estimate of a program is that of its next instruction and that of the rest.
LEMMA CostStep ==
  ASSUME NEW c \in Programs, NEW from \in 1..Len(c)
  PROVE  /\ CostFrom(c, from) = Cost(c[from]) + CostFrom(c, from + 1)
         /\ CostFrom(c, from) \in Int /\ CostFrom(c, from + 1) \in Int /\ Cost(c[from]) \in Int
<1> DEFINE f == CHOOSE h : Sums(c, from, h, Len(c))
           g == CHOOSE h : Sums(c, from + 1, h, Len(c))
<1>1. c \in Seq(Instruction) /\ Len(c) \in Nat /\ from \in Int /\ from + 1 \in Int
  <2>1. c \in Seq(Instruction) BY ProgramFacts
  <2> QED BY <2>1
<1>2. \A i \in 1..Len(c) : Cost(c[i]) \in Int
  <2>1. \A i \in 1..Len(c) : c[i] \in Instruction BY <1>1
  <2> QED BY <2>1 DEF Cost, Instruction
<1>3. Sums(c, from, f, Len(c)) /\ Sums(c, from + 1, g, Len(c)) BY <1>1, SumsExists
<1>4. CostFrom(c, from) = f[Len(c)] /\ CostFrom(c, from + 1) = g[Len(c)] BY DEF CostFrom, Sums
<1> HIDE DEF f, g
<1>5. /\ f[0] = 0 /\ g[0] = 0
      /\ \A i \in 1..Len(c) : /\ f[i] = f[i - 1] + (IF i < from THEN 0 ELSE Cost(c[i]))
                              /\ g[i] = g[i - 1] + (IF i < from + 1 THEN 0 ELSE Cost(c[i]))
  <2>1. /\ f[0] = 0
        /\ \A i \in 1..Len(c) : f[i] = f[i - 1] + (IF i < from THEN 0 ELSE Cost(c[i]))
    <3>1. Sums(c, from, f, Len(c)) BY <1>3
    <3> QED BY <3>1, <1>1 DEF Sums
  <2>2. /\ g[0] = 0
        /\ \A i \in 1..Len(c) : g[i] = g[i - 1] + (IF i < from + 1 THEN 0 ELSE Cost(c[i]))
    <3>1. Sums(c, from + 1, g, Len(c)) BY <1>3
    <3> QED BY <3>1, <1>1 DEF Sums
  <2> QED BY <2>1, <2>2
<1> DEFINE Same(n) == /\ f[n] \in Int /\ g[n] \in Int
                      /\ f[n] = g[n] + (IF n < from THEN 0 ELSE Cost(c[from]))
           T == {n \in 0..Len(c) : ~ Same(n)}
<1>6. T = {}
  <2>1. SUFFICES ASSUME T # {} PROVE FALSE OBVIOUS
  <2>2. PICK m \in T : \A k \in T : m <= k
    <3> HIDE DEF T
    <3>1. T \in SUBSET Nat BY <1>1 DEF T
    <3> QED BY <3>1, <2>1, LeastNat
  <2>3. Same(0) BY <1>5, <1>1
  <2>4. m \in 1..Len(c) /\ m - 1 \in 0..Len(c) /\ Same(m - 1)
    <3>1. m \in 0..Len(c) /\ ~ Same(m) BY <2>2
    <3>2. m # 0 BY <2>3, <3>1
    <3>3. m \in 1..Len(c) /\ m - 1 \in 0..Len(c) /\ ~ (m <= m - 1) BY <1>1, <3>1, <3>2
    <3>4. m - 1 \notin T BY <2>2, <3>3
    <3> QED BY <3>3, <3>4
  <2>5. /\ f[m] = f[m - 1] + (IF m < from THEN 0 ELSE Cost(c[m]))
        /\ g[m] = g[m - 1] + (IF m < from + 1 THEN 0 ELSE Cost(c[m]))
        /\ Cost(c[m]) \in Int /\ Cost(c[from]) \in Int /\ m \in Int
    BY <1>1, <1>2, <1>5, <2>4
  <2>6. /\ f[m - 1] \in Int /\ g[m - 1] \in Int
        /\ f[m - 1] = g[m - 1] + (IF m - 1 < from THEN 0 ELSE Cost(c[from]))
    BY <2>4
  <2>7. Same(m)
    <3>1. CASE m < from BY <1>1, <2>5, <2>6, <3>1
    <3>2. CASE m = from BY <1>1, <2>5, <2>6, <3>2
    <3>3. CASE m > from BY <1>1, <2>5, <2>6, <3>3
    <3> QED BY <1>1, <2>5, <3>1, <3>2, <3>3
  <2> QED BY <2>2, <2>7
<1>7. Same(Len(c))
  <2>1. Len(c) \in 0..Len(c) BY <1>1
  <2> QED BY <1>6, <2>1
<1>8. ~ (Len(c) < from) BY <1>1
<1> QED BY <1>2, <1>4, <1>7, <1>8, <1>1

\* An operand that is plain goes through the char and the counters unchanged.
LEMMA PlainStored ==
  ASSUME NEW n \in Nat, n \in 1..(CharHalf - 1), n < WordSize
  PROVE  Stored(n) = n /\ Stored(n) % WordSize = n /\ (n - 1) % WordSize = n - 1
<1>1. CharHalf \in Nat /\ WordSize \in Nat /\ WordSize > 0 BY SchedulerAssumption, WordSizeAssumption
<1>2. \A a, b \in Nat : a < b => a % b = a OBVIOUS
<1> DEFINE m == n + CharHalf
           w == 2 * CharHalf
<1>3. m \in Nat /\ w \in Nat /\ m < w BY <1>1
<1>4. Stored(n) = m - CharHalf
  <2>1. Stored(n) = (m % w) - CharHalf BY DEF Stored
  <2> HIDE DEF m, w
  <2> QED BY <1>2, <1>3, <2>1
<1>5. Stored(n) = n BY <1>1, <1>4
<1>6. n % WordSize = n /\ (n - 1) % WordSize = n - 1
  <2>1. n - 1 \in Nat /\ n - 1 < WordSize BY <1>1
  <2> QED BY <1>1, <1>2, <2>1
<1> QED BY <1>5, <1>6

\* The slack of a process is an integer.
LEMMA SlackType == ASSUME NEW r \in ProcessRecord PROVE Slack(r) \in Int
<1>1. /\ r.est \in Int /\ r.workload \in Word /\ r.ip \in Int
      /\ r.code \in Programs \cup {<<>>}
  BY DEF ProcessRecord
<1>2. CostFrom(r.code, r.ip) \in Int BY <1>1, CostType
<1> QED BY <1>1, <1>2, WordSizeAssumption DEF Slack, Word

\* The requests of the devices when one more is made.
LEMMA RequestsRequired ==
  ASSUME NEW ds \in Seq(DeviceRecord), NEW k \in 1..Len(ds), NEW t \in Int, NEW p \in UserPid,
         NEW new, new = [ds EXCEPT ![k] = Require(@, t, p)],
         NEW d \in 1..Len(new), NEW i \in 1..Len(new[d].queue)
  PROVE  /\ d \in 1..Len(ds)
         /\ \/ \E j \in 1..Len(ds[d].queue) : new[d].queue[i] = ds[d].queue[j]
            \/ new[d].queue[i] = [time |-> t % WordSize, pid |-> p]
<1> DEFINE r == [time |-> t % WordSize, pid |-> p]
           R == [time : Word, pid : UserPid]
<1>0. Len(new) = Len(ds) /\ new[k] = Require(ds[k], t, p)
      /\ \A e \in 1..Len(ds) : e # k => new[e] = ds[e]
  OBVIOUS
<1>1. d \in 1..Len(ds) /\ ds[k].queue \in Seq(R) /\ r \in R
  BY <1>0, QueueFacts, ModWord
<1>2. CASE d # k BY <1>0, <1>1, <1>2
<1>3. CASE d = k
  <2>1. new[d].queue = Append(ds[k].queue, r) BY <1>0, <1>3 DEF Require
  <2> HIDE DEF r, R
  <2>2. i = Len(ds[k].queue) + 1 \/ i \in 1..Len(ds[k].queue) BY <1>1, <2>1
  <2>3. CASE i = Len(ds[k].queue) + 1
    <3>1. new[d].queue[i] = r BY <1>1, <2>1, <2>3
    <3> QED BY <1>1, <3>1 DEF r
  <2>4. CASE i \in 1..Len(ds[k].queue)
    <3>1. new[d].queue[i] = ds[k].queue[i] BY <1>1, <2>1, <2>4
    <3> QED BY <1>1, <1>3, <2>4, <3>1
  <2> QED BY <2>2, <2>3, <2>4
<1> QED BY <1>2, <1>3

\* The requests of the devices when one of them has been polled: the front one is done
\* or has one tick less, the others are as they were.
LEMMA RequestsPolled ==
  ASSUME NEW ds \in Seq(DeviceRecord), NEW k \in 1..Len(ds), ds[k].queue # <<>>
  PROVE  LET new == [ds EXCEPT ![k] = Polled(@)]
         IN  \A d \in 1..Len(new) : \A i \in 1..Len(new[d].queue) :
               /\ d \in 1..Len(ds)
               /\ \/ \E j \in 1..Len(ds[d].queue) :
                       ~ (d = k /\ j = 1) /\ new[d].queue[i] = ds[d].queue[j]
                  \/ /\ ~ Completes(ds[k])
                     /\ new[d].queue[i].pid = ds[k].queue[1].pid
                     /\ new[d].queue[i].time = FrontLeft(ds[k])
<1> SUFFICES ASSUME NEW new, new = [ds EXCEPT ![k] = Polled(@)],
                    NEW d \in 1..Len(new), NEW i \in 1..Len(new[d].queue)
             PROVE  /\ d \in 1..Len(ds)
                    /\ \/ \E j \in 1..Len(ds[d].queue) :
                            ~ (d = k /\ j = 1) /\ new[d].queue[i] = ds[d].queue[j]
                       \/ /\ ~ Completes(ds[k])
                          /\ new[d].queue[i].pid = ds[k].queue[1].pid
                          /\ new[d].queue[i].time = FrontLeft(ds[k])
  OBVIOUS
<1> DEFINE R == [time : Word, pid : UserPid]
           old == ds[k].queue
           q == IF Completes(ds[k]) THEN Tail(old) ELSE [old EXCEPT ![1].time = FrontLeft(ds[k])]
<1>0. Len(new) = Len(ds) /\ new[k] = Polled(ds[k])
      /\ \A e \in 1..Len(ds) : e # k => new[e] = ds[e]
  OBVIOUS
<1>1. d \in 1..Len(ds) /\ old \in Seq(R) /\ Len(old) \in Nat /\ Len(old) # 0
  BY <1>0, QueueFacts
<1>2. CASE d # k
  <2>1. new[d] = ds[d] /\ i \in 1..Len(ds[d].queue) BY <1>0, <1>1, <1>2
  <2> QED BY <1>1, <1>2, <2>1
<1>3. CASE d = k
  <2>1. new[d].queue = q
    <3>1. new[d] = [occupied |-> q # <<>>, queue |-> q] BY <1>0, <1>3 DEF Polled
    <3> HIDE DEF q
    <3> DEFINE some == q # <<>>
    <3>2. some \in BOOLEAN /\ new[d] = [occupied |-> some, queue |-> q] BY <3>1
    <3> HIDE DEF some
    <3> QED BY <3>2
  <2>2. CASE Completes(ds[k])
    <3>1. new[d].queue = Tail(old) BY <2>1, <2>2
    <3> HIDE DEF R, old, q
    <3>2. /\ Len(Tail(old)) = Len(old) - 1
          /\ \A m \in 1..(Len(old) - 1) : Tail(old)[m] = old[m + 1]
      BY <1>1
    <3>3. i \in 1..(Len(old) - 1) BY <3>1, <3>2
    <3>4. i + 1 \in 1..Len(old) /\ i + 1 # 1 BY <1>1, <3>3
    <3>5. new[d].queue[i] = old[i + 1] BY <3>1, <3>2, <3>3
    <3> QED BY <1>1, <1>3, <3>4, <3>5 DEF old
  <2>3. CASE ~ Completes(ds[k])
    <3>1. new[d].queue = [old EXCEPT ![1].time = FrontLeft(ds[k])] BY <2>1, <2>3
    <3>2. old[1] \in R /\ 1 \in DOMAIN old /\ i \in 1..Len(old)
      <4> HIDE DEF R, old
      <4> QED BY <1>1, <3>1
    <3>3. CASE i = 1
      <4>1. new[d].queue[i] = [old[1] EXCEPT !.time = FrontLeft(ds[k])] BY <3>1, <3>2, <3>3
      <4> QED BY <1>1, <2>3, <3>2, <4>1
    <3>4. CASE i # 1
      <4>1. new[d].queue[i] = old[i] BY <1>1, <3>1, <3>2, <3>4
      <4> QED BY <1>1, <1>3, <3>2, <3>4, <4>1
    <3> QED BY <3>3, <3>4
  <2> QED BY <2>2, <2>3
<1> QED BY <1>2, <1>3

\* A step that makes no request, and takes no slack from a process that has one.
LEMMA CoveredSame ==
  ASSUME IInv, IInv', Served, Covered,
         \A d \in 1..Len(devices') : \A i \in 1..Len(devices'[d].queue) :
           \E e \in 1..Len(devices) : \E j \in 1..Len(devices[e].queue) :
             devices'[d].queue[i] = devices[e].queue[j],
         \A p \in UserPid :
           \/ Slack(proc'[p]) >= Slack(proc[p]) /\ (Live(p)' => Live(p))
           \/ p \notin waiting /\ (Live(p)' => Slack(proc'[p]) >= 0)
  PROVE  Covered'
<1>1. ASSUME NEW p \in UserPid PROVE Slack(proc[p]) \in Int /\ Slack(proc'[p]) \in Int
  <2>1. proc[p] \in ProcessRecord /\ proc'[p] \in ProcessRecord BY DEF IInv, TypeOK
  <2> QED BY <2>1, SlackType
<1>2. ASSUME NEW p \in UserPid, Live(p)' PROVE Slack(proc'[p]) >= 0
  <2>1. Live(p) => Slack(proc[p]) >= 0 BY DEF Covered
  <2> QED BY <1>1, <1>2, <2>1
<1>3. ASSUME NEW d \in 1..Len(devices'), NEW i \in 1..Len(devices'[d].queue)
      PROVE  LET r == devices'[d].queue[i] IN r.time >= 1 /\ Slack(proc'[r.pid]) >= r.time
  <2>1. PICK e \in 1..Len(devices) : \E j \in 1..Len(devices[e].queue) :
             devices'[d].queue[i] = devices[e].queue[j]
    OBVIOUS
  <2>2. PICK j \in 1..Len(devices[e].queue) : devices'[d].queue[i] = devices[e].queue[j]
    BY <2>1
  <2> DEFINE r == devices[e].queue[j]
  <2>3. r.time >= 1 /\ Slack(proc[r.pid]) >= r.time BY DEF Covered
  <2>4. r.pid \in waiting /\ r.pid \in UserPid BY DEF Served, Matched, IInv, TypeOK
  <2>5. r.time \in Int
    <3>1. devices \in Seq(DeviceRecord) BY DEF IInv, TypeOK
    <3>2. devices[e].queue \in Seq([time : Word, pid : UserPid]) BY <3>1, QueueFacts
    <3>3. r \in [time : Word, pid : UserPid]
      <4> DEFINE R == [time : Word, pid : UserPid]
      <4> HIDE DEF R
      <4>1. devices[e].queue \in Seq(R) BY <3>2 DEF R
      <4>2. r \in R BY <4>1
      <4> QED BY <4>2 DEF R
    <3> QED BY <3>3, WordSizeAssumption DEF Word
  <2> HIDE DEF r
  <2>6. Slack(proc'[r.pid]) >= Slack(proc[r.pid]) BY <2>4
  <2>7. Slack(proc'[r.pid]) >= r.time BY <1>1, <2>3, <2>4, <2>5, <2>6
  <2> QED BY <2>2, <2>3, <2>7 DEF r
<1> QED BY <1>2, <1>3 DEF Covered

\* A step of the running process that keeps its slack, or gains some.
LEMMA RunCovered ==
  ASSUME IInv, IInv', Served, Covered, UNCHANGED devices,
         NEW p \in UserPid, NEW r \in ProcessRecord, proc' = [proc EXCEPT ![p] = r],
         Slack(r) >= Slack(proc[p]), \A q \in UserPid : Live(q)' => Live(q)
  PROVE  Covered'
<1>1. proc'[p] = r /\ \A q \in UserPid : q # p => proc'[q] = proc[q] BY DEF IInv, TypeOK
<1>2. ASSUME NEW q \in UserPid PROVE Slack(proc'[q]) >= Slack(proc[q])
  <2>1. proc[q] \in ProcessRecord BY DEF IInv, TypeOK
  <2>2. Slack(proc[q]) \in Int BY <2>1, SlackType
  <2> QED BY <1>1, <2>2
<1> QED BY <1>2, CoveredSame

\* A program that is loaded has no slack to start with: its estimate is its cost.
LEMMA NewSlack == \A code \in Programs \cup {<<>>} : Slack(Process(code)) = 0
<1>1. ASSUME NEW code \in Programs \cup {<<>>} PROVE Slack(Process(code)) = 0
  <2>1. CostFrom(code, 1) \in Int BY <1>1, CostType
  <2> HIDE DEF CostFrom
  <2>2. /\ Process(code).est = CostFrom(code, 1) /\ Process(code).workload = 0
        /\ Process(code).ip = 1 /\ Process(code).code = code
    BY DEF Process
  <2> QED BY <2>1, <2>2 DEF Slack
<1> QED BY <1>1

\* The slack of the running process, and what its next instruction takes of it.
LEMMA FetchSlack ==
  ASSUME IInv, PlainOperands, pc = "run", running # 0, proc[running].workload = 0
  PROVE  LET r == proc[running]
             a == Instr(running).arg
         IN  /\ running \in UserPid /\ r \in ProcessRecord /\ r.est \in Int /\ a \in Nat
             /\ CostFrom(r.code, r.ip + 1) \in Int
             /\ Slack(r) = r.est - Cost(Instr(running)) - CostFrom(r.code, r.ip + 1)
             /\ Instr(running).op \in {"cal", "input", "print", "read", "write"} =>
                  /\ Cost(Instr(running)) = a /\ a >= 1 /\ a < WordSize
                  /\ Stored(a) = a /\ Stored(a) % WordSize = a /\ (a - 1) % WordSize = a - 1
             /\ Instr(running).op \notin {"cal", "input", "print", "read", "write"} =>
                  Cost(Instr(running)) = 0
<1> DEFINE r == proc[running]
           a == Instr(running).arg
<1>1. /\ running \in UserPid /\ r.code \in Programs /\ r.ip \in 1..Len(r.code)
      /\ a \in Nat /\ r \in ProcessRecord /\ r.est \in Int
  BY FetchFacts, ProcFacts
<1>2. /\ CostFrom(r.code, r.ip) = Cost(Instr(running)) + CostFrom(r.code, r.ip + 1)
      /\ CostFrom(r.code, r.ip + 1) \in Int /\ Cost(Instr(running)) \in Int
  BY <1>1, CostStep DEF Instr
<1>3. Slack(r) = r.est - Cost(Instr(running)) - CostFrom(r.code, r.ip + 1)
  BY <1>1, <1>2 DEF Slack
<1>4. ASSUME Instr(running).op \in {"cal", "input", "print", "read", "write"}
      PROVE  /\ Cost(Instr(running)) = a /\ a >= 1 /\ a < WordSize
             /\ Stored(a) = a /\ Stored(a) % WordSize = a /\ (a - 1) % WordSize = a - 1
  <2>1. a \in 1..(CharHalf - 1) /\ a < WordSize BY <1>1, <1>4 DEF PlainOperands, Instr
  <2>2. Cost(Instr(running)) = a BY <1>4 DEF Cost
  <2> HIDE DEF a
  <2> QED BY <1>1, <2>1, <2>2, PlainStored
<1>5. Instr(running).op \notin {"cal", "input", "print", "read", "write"} => Cost(Instr(running)) = 0
  BY DEF Cost
<1> QED BY <1>1, <1>2, <1>3, <1>4, <1>5

\* A tick of the running process costs its estimate as much as its work.
LEMMA RunKeepsCover ==
  ASSUME OnlyReaders, PlainOperands, IInv, IInv', Served, Covered,
         RunBurst \/ RunCal \/ RunFile \/ RunUnknown
  PROVE  Covered'
<1> DEFINE p == running
           c == proc[p].code
<1>1. /\ p \in UserPid /\ proc \in [UserPid -> ProcessRecord] /\ proc[p] \in ProcessRecord
      /\ proc[p].est \in Int /\ proc[p].workload \in Int /\ proc[p].ip \in Int
      /\ CostFrom(c, proc[p].ip) \in Int
  <2>1. p \in UserPid /\ c \in Programs \cup {<<>>}
    <3>1. p \in UserPid
      BY FetchFacts DEF RunBurst, RunCal, RunFile, RunUnknown, Running
    <3> HIDE DEF p
    <3> QED BY <3>1, ProcFacts
  <2> HIDE DEF p
  <2>2. proc \in [UserPid -> ProcessRecord] /\ proc[p] \in ProcessRecord
        /\ proc[p].est \in Int /\ proc[p].workload \in Int /\ proc[p].ip \in Int
    BY <2>1, ProcFacts
  <2>3. CostFrom(c, proc[p].ip) \in Int
    <3> HIDE DEF c
    <3> QED BY <2>1, <2>2, CostType
  <2> QED BY <2>1, <2>2, <2>3
<1>2. UNCHANGED devices BY DEF RunBurst, RunCal, RunFile, RunUnknown
<1>3. \A q \in UserPid : Live(q)' => Live(q)
  <2>1. RunFile => UNCHANGED state BY ReaderAccess DEF RunFile, Served
  <2> QED BY <2>1 DEF RunBurst, RunCal, RunUnknown, Live
<1>4. \A q \in UserPid : proc'[q] \in ProcessRecord BY DEF IInv, TypeOK
<1>5. ASSUME NEW r, proc' = [proc EXCEPT ![p] = r], Slack(r) >= Slack(proc[p]) PROVE Covered'
  <2>1. r \in ProcessRecord BY <1>1, <1>4, <1>5
  <2> QED BY <1>1, <1>2, <1>3, <1>5, <2>1, RunCovered
<1>6. CASE RunBurst
  <2> DEFINE r == [proc[p] EXCEPT !.workload = @ - 1, !.est = @ - 1]
  <2>1. proc' = [proc EXCEPT ![p] = r]
    BY <1>1, <1>6 DEF RunBurst, ProcessRecord
  <2>2. r.est = proc[p].est - 1 /\ r.workload = proc[p].workload - 1 /\ r.ip = proc[p].ip /\ r.code = c
    BY <1>1 DEF ProcessRecord
  <2> HIDE DEF r
  <2>3. Slack(r) = Slack(proc[p]) BY <1>1, <2>2 DEF Slack
  <2>4. Slack(r) >= Slack(proc[p]) BY <1>1, <2>3, SlackType
  <2> QED BY <1>5, <2>1, <2>4
<1>7. CASE RunCal \/ RunFile \/ RunUnknown
  <2> DEFINE a == Instr(p).arg
             rest == CostFrom(c, proc[p].ip + 1)
  <2>1. /\ pc = "run" /\ p # 0 /\ proc[p].workload = 0
        /\ RunCal => Instr(p).op = "cal"
        /\ RunFile => Instr(p).op \in {"read", "write"}
        /\ RunUnknown => Instr(p).op = "bad"
    BY <1>7 DEF RunCal, RunFile, RunUnknown, Running
  <2>2. /\ a \in Nat /\ rest \in Int
        /\ Slack(proc[p]) = proc[p].est - Cost(Instr(p)) - rest
        /\ ~ RunUnknown =>
             /\ Cost(Instr(p)) = a /\ a >= 1
             /\ Stored(a) = a /\ Stored(a) % WordSize = a /\ (a - 1) % WordSize = a - 1
        /\ RunUnknown => Cost(Instr(p)) = 0
    BY <1>7, <2>1, FetchSlack
  <2> HIDE DEF a, rest
  <2>3. CASE RunCal
    <3> DEFINE r == [proc[p] EXCEPT !.workload = (Stored(a) - 1) % WordSize, !.est = @ - 1, !.ip = @ + 1]
    <3>1. proc' = [proc EXCEPT ![p] = r] BY <1>1, <2>3 DEF RunCal, ProcessRecord, a
    <3>2. /\ r.est = proc[p].est - 1 /\ r.workload = (Stored(a) - 1) % WordSize
          /\ r.ip = proc[p].ip + 1 /\ r.code = c
      BY <1>1 DEF ProcessRecord
    <3> HIDE DEF r
    <3>3. ~ RunUnknown BY <2>1, <2>3
    <3>4. r.workload = a - 1 /\ Cost(Instr(p)) = a BY <2>2, <3>2, <3>3
    <3>5. Slack(r) = (proc[p].est - 1) - (a - 1) - rest BY <3>2, <3>4 DEF Slack, rest
    <3>6. Slack(r) >= Slack(proc[p]) BY <1>1, <2>2, <3>4, <3>5
    <3> QED BY <1>5, <3>1, <3>6
  <2>4. CASE RunFile
    <3> DEFINE r == [proc[p] EXCEPT !.workload = ((Stored(a) % WordSize) - 1) % WordSize,
                                    !.files = @ \cup {Instr(p).file}, !.ip = @ + 1]
    <3>0. Granted(Instr(p).file, RwOf(Instr(p).op)) BY <2>4, ReaderAccess DEF Served
    <3>7. proc' = [proc EXCEPT ![p].workload = ((Stored(a) % WordSize) - 1) % WordSize,
                               ![p].files = @ \cup {Instr(p).file}, ![p].ip = @ + 1]
      BY <2>4, <3>0 DEF RunFile, a
    <3>1. proc' = [proc EXCEPT ![p] = r] BY <1>1, <3>7 DEF ProcessRecord
    <3>2. /\ r.est = proc[p].est /\ r.workload = ((Stored(a) % WordSize) - 1) % WordSize
          /\ r.ip = proc[p].ip + 1 /\ r.code = c
      BY <1>1 DEF ProcessRecord
    <3> HIDE DEF r
    <3>3. ~ RunUnknown BY <2>1, <2>4
    <3>4. r.workload = a - 1 /\ Cost(Instr(p)) = a BY <2>2, <3>2, <3>3
    <3>5. Slack(r) = proc[p].est - (a - 1) - rest BY <3>2, <3>4 DEF Slack, rest
    <3>6. Slack(r) >= Slack(proc[p]) BY <1>1, <2>2, <3>4, <3>5
    <3> QED BY <1>5, <3>1, <3>6
  <2>5. CASE RunUnknown
    <3> DEFINE r == [proc[p] EXCEPT !.ip = @ + 1]
    <3>1. proc' = [proc EXCEPT ![p] = r] BY <1>1, <2>5 DEF RunUnknown, ProcessRecord
    <3>2. r.est = proc[p].est /\ r.workload = 0 /\ r.ip = proc[p].ip + 1 /\ r.code = c
      BY <1>1, <2>1 DEF ProcessRecord
    <3> HIDE DEF r
    <3>3. Slack(r) = proc[p].est - 0 - rest BY <3>2 DEF Slack, rest
    <3>4. Slack(r) >= Slack(proc[p]) BY <1>1, <2>2, <2>5, <3>3
    <3> QED BY <1>5, <3>1, <3>4
  <2> QED BY <1>7, <2>3, <2>4, <2>5
<1> QED BY <1>6, <1>7

\* A request takes from the slack what the device will serve: the cost of the instruction.
LEMMA DeviceCovered ==
  ASSUME PlainOperands, IInv, IInv', Served, Covered, RunDevice
  PROVE  Covered'
<1> DEFINE p == running
           a == Instr(p).arg
           c == proc[p].code
           rest == CostFrom(c, proc[p].ip + 1)
           k == DeviceOf(Instr(p).op)
           r == [proc[p] EXCEPT !.ip = @ + 1]
<1>1. /\ pc = "run" /\ p # 0 /\ proc[p].workload = 0 /\ Instr(p).op \in {"input", "print"}
      /\ p \in UserPid /\ proc \in [UserPid -> ProcessRecord] /\ proc[p] \in ProcessRecord
      /\ p \notin waiting
  <2>1. /\ pc = "run" /\ p # 0 /\ proc[p].workload = 0 /\ Instr(p).op \in {"input", "print"}
    BY DEF RunDevice, Running
  <2>2. p \in UserPid BY <2>1, FetchFacts
  <2>3. p \notin waiting BY <2>2 DEF IInv, Placement, InItsPlace
  <2> QED BY <2>1, <2>2, <2>3, ProcFacts
<1>2. /\ a \in Nat /\ rest \in Int /\ proc[p].est \in Int /\ a >= 1
      /\ Slack(proc[p]) = proc[p].est - a - rest
      /\ Stored(a) % WordSize = a /\ Stored(a) \in Int
  <2>1. Instr(p).op \in {"cal", "input", "print", "read", "write"} BY <1>1
  <2> QED BY <1>1, <2>1, FetchSlack
<1>3. /\ proc' = [proc EXCEPT ![p] = r]
      /\ r.est = proc[p].est /\ r.workload = 0 /\ r.ip = proc[p].ip + 1 /\ r.code = c
  BY <1>1 DEF RunDevice, ProcessRecord
<1>4. /\ devices \in Seq(DeviceRecord) /\ k \in 1..Len(devices)
      /\ devices' = [devices EXCEPT ![k] = Require(@, Stored(a), p)]
  BY DeviceFacts DEF RunDevice, DeviceOf
<1>5. \A q \in UserPid : Live(q)' => Live(q) \/ q = p
  BY DEF RunDevice, Block, Live
<1>6. Live(p) BY <1>1, RunningIsLoaded
<1> HIDE DEF a, rest, k, r
<1>7. /\ proc'[p] = r /\ Slack(r) = proc[p].est - rest
      /\ \A q \in UserPid : q # p => proc'[q] = proc[q]
  <2>1. Slack(r) = proc[p].est - 0 - rest BY <1>3 DEF Slack, rest
  <2> QED BY <1>1, <1>2, <1>3, <2>1
<1>8. Slack(r) = Slack(proc[p]) + a /\ Slack(proc[p]) \in Int BY <1>2, <1>7
<1>9. ASSUME NEW q \in UserPid, Live(q)' PROVE Slack(proc'[q]) >= 0
  <2>1. Slack(proc[q]) >= 0 BY <1>5, <1>6, <1>9 DEF Covered
  <2>2. CASE q # p BY <1>7, <2>1, <2>2
  <2>3. CASE q = p BY <1>2, <1>7, <1>8, <2>1, <2>3
  <2> QED BY <2>2, <2>3
<1>10. ASSUME NEW d \in 1..Len(devices'), NEW i \in 1..Len(devices'[d].queue)
       PROVE  LET x == devices'[d].queue[i] IN x.time >= 1 /\ Slack(proc'[x.pid]) >= x.time
  <2>1. /\ d \in 1..Len(devices)
        /\ \/ \E j \in 1..Len(devices[d].queue) : devices'[d].queue[i] = devices[d].queue[j]
           \/ devices'[d].queue[i] = [time |-> Stored(a) % WordSize, pid |-> p]
    <3> DEFINE t == Stored(a)
    <3> HIDE DEF t
    <3>1. t \in Int BY <1>2 DEF t
    <3>2. devices' = [devices EXCEPT ![k] = Require(@, t, p)] BY <1>4 DEF t
    <3> HIDE DEF p
    <3>3. /\ d \in 1..Len(devices)
          /\ \/ \E j \in 1..Len(devices[d].queue) : devices'[d].queue[i] = devices[d].queue[j]
             \/ devices'[d].queue[i] = [time |-> t % WordSize, pid |-> p]
      BY <1>1, <1>4, <1>10, <3>1, <3>2, RequestsRequired
    <3> QED BY <3>3 DEF t
  <2>2. ASSUME NEW j \in 1..Len(devices[d].queue), devices'[d].queue[i] = devices[d].queue[j]
        PROVE  LET x == devices'[d].queue[i] IN x.time >= 1 /\ Slack(proc'[x.pid]) >= x.time
    <3> DEFINE x == devices[d].queue[j]
    <3>1. x.time >= 1 /\ Slack(proc[x.pid]) >= x.time BY <2>1 DEF Covered
    <3>2. x.pid \in waiting /\ x.pid \in UserPid BY <2>1 DEF Served, Matched, IInv, TypeOK
    <3> HIDE DEF x
    <3>3. proc'[x.pid] = proc[x.pid] BY <1>1, <1>7, <3>2
    <3> QED BY <2>2, <3>1, <3>3 DEF x
  <2>3. CASE devices'[d].queue[i] = [time |-> Stored(a) % WordSize, pid |-> p]
    <3>1. devices'[d].queue[i].time = a /\ devices'[d].queue[i].pid = p BY <1>2, <2>3
    <3>2. Slack(proc[p]) >= 0 BY <1>1, <1>6 DEF Covered
    <3>3. Slack(r) >= a BY <1>2, <1>8, <3>2
    <3> QED BY <1>2, <1>7, <3>1, <3>3
  <2> QED BY <2>1, <2>2, <2>3
<1> QED BY <1>9, <1>10 DEF Covered

\* A tick of a device costs the estimate of the process it serves as much as its request.
LEMMA PollCovered ==
  ASSUME IInv, IInv', Served, Covered, PollBusy
  PROVE  Covered'
<1> DEFINE D == devices[pollAt]
           p == D.queue[1].pid
           t == D.queue[1].time
           r == [proc[p] EXCEPT !.est = @ - 1]
<1>1. /\ devices \in Seq(DeviceRecord) /\ pollAt \in 1..Len(devices) /\ D.queue # <<>>
      /\ devices' = [devices EXCEPT ![pollAt] = Polled(@)]
  BY DeviceFacts DEF PollBusy
<1>2. /\ D.queue \in Seq([time : Word, pid : UserPid]) /\ 1 \in 1..Len(D.queue)
  <2>1. D.queue \in Seq([time : Word, pid : UserPid])
        /\ Len(D.queue) \in Nat /\ Len(D.queue) # 0
    BY <1>1, QueueFacts
  <2>2. 1 \in 1..Len(D.queue)
    <3> HIDE DEF D
    <3> QED BY <2>1
  <2> QED BY <2>1, <2>2
<1>3. t \in Word /\ p \in UserPid
  <2> DEFINE R == [time : Word, pid : UserPid]
  <2>1. D.queue \in Seq(R) BY <1>2
  <2> HIDE DEF R, D
  <2>2. D.queue[1] \in R BY <1>2, <2>1
  <2> QED BY <2>2 DEF R
<1>4. /\ p \in waiting /\ state[p] = "WAITING" /\ Live(p)
      /\ t >= 1 /\ Slack(proc[p]) >= t
  <2>1. p \in waiting BY <1>1, <1>2 DEF Served, Matched
  <2>2. state[p] = "WAITING" BY <1>3, <2>1 DEF IInv, Placement, InItsPlace
  <2> QED BY <1>1, <1>2, <2>1, <2>2 DEF Covered, Live
<1>5. /\ proc \in [UserPid -> ProcessRecord] /\ proc[p] \in ProcessRecord
      /\ proc[p].est \in Int /\ proc[p].workload \in Int
      /\ CostFrom(proc[p].code, proc[p].ip) \in Int
  <2>1. proc[p].code \in Programs \cup {<<>>} /\ proc[p].ip \in Int BY <1>3, ProcFacts
  <2> QED BY <1>3, <2>1, ProcFacts, CostType
<1>6. proc' = [proc EXCEPT ![p] = r]
  <2>1. proc' = [proc EXCEPT ![p].est = @ - 1,
                   ![p].workload = IF Completes(D) THEN WorkloadWoken(p) ELSE @]
    BY <1>4 DEF PollBusy
  <2>2. WorkloadWoken(p) = proc[p].workload BY <1>4 DEF WorkloadWoken
  <2> HIDE DEF p, D
  <2>3. proc' = [proc EXCEPT ![p].est = @ - 1, ![p].workload = proc[p].workload]
    BY <1>3, <1>5, <2>1, <2>2 DEF ProcessRecord
  <2> QED BY <1>3, <1>5, <2>3 DEF ProcessRecord
<1>7. FrontLeft(D) = t - 1 /\ t \in Int
  BY <1>3, <1>4, WordSizeAssumption DEF FrontLeft, Word
<1>8. \A q \in UserPid : Live(q)' => Live(q)
  <2>1. state \in [Pid -> States] /\ UserPid \subseteq Pid BY PidFacts DEF IInv, TypeOK
  <2>2. UNCHANGED state \/ state' = [state EXCEPT ![p] = "READY"]
    BY <1>4 DEF PollBusy, WakeLists
  <2> HIDE DEF p
  <2> QED BY <1>3, <1>4, <2>1, <2>2 DEF Live
<1>9. Completes(D) <=> FrontLeft(D) = 0 BY DEF Completes
<1>10. r.est = proc[p].est - 1 /\ r.workload = proc[p].workload
       /\ r.code = proc[p].code /\ r.ip = proc[p].ip
  BY <1>5 DEF ProcessRecord
<1> HIDE DEF r, t, p, D
<1>11. /\ proc'[p] = r /\ \A q \in UserPid : q # p => proc'[q] = proc[q]
       /\ Slack(r) = Slack(proc[p]) - 1 /\ Slack(proc[p]) \in Int
  <2>1. Slack(r) = Slack(proc[p]) - 1 BY <1>5, <1>10 DEF Slack
  <2>2. Slack(proc[p]) \in Int BY <1>5, SlackType
  <2> QED BY <1>3, <1>5, <1>6, <2>1, <2>2
<1>12. ASSUME NEW q \in UserPid, Live(q)' PROVE Slack(proc'[q]) >= 0
  <2>1. Slack(proc[q]) >= 0 BY <1>8, <1>12 DEF Covered
  <2>2. CASE q # p BY <1>11, <2>1, <2>2
  <2>3. CASE q = p BY <1>4, <1>7, <1>11, <2>3
  <2> QED BY <2>2, <2>3
<1>13. ASSUME NEW d \in 1..Len(devices'), NEW i \in 1..Len(devices'[d].queue)
       PROVE  LET x == devices'[d].queue[i] IN x.time >= 1 /\ Slack(proc'[x.pid]) >= x.time
  <2>1. /\ d \in 1..Len(devices)
        /\ \/ \E j \in 1..Len(devices[d].queue) :
                ~ (d = pollAt /\ j = 1) /\ devices'[d].queue[i] = devices[d].queue[j]
           \/ /\ ~ Completes(D)
              /\ devices'[d].queue[i].pid = p
              /\ devices'[d].queue[i].time = FrontLeft(D)
    <3> DEFINE new == [devices EXCEPT ![pollAt] = Polled(@)]
    <3>1. \A e \in 1..Len(new) : \A m \in 1..Len(new[e].queue) :
            /\ e \in 1..Len(devices)
            /\ \/ \E j \in 1..Len(devices[e].queue) :
                    ~ (e = pollAt /\ j = 1) /\ new[e].queue[m] = devices[e].queue[j]
               \/ /\ ~ Completes(D)
                  /\ new[e].queue[m].pid = p
                  /\ new[e].queue[m].time = FrontLeft(D)
      BY <1>1, RequestsPolled DEF D, p
    <3>2. devices' = new BY <1>1
    <3> HIDE DEF new
    <3> QED BY <1>13, <3>1, <3>2
  <2>2. ASSUME NEW j \in 1..Len(devices[d].queue), ~ (d = pollAt /\ j = 1),
               devices'[d].queue[i] = devices[d].queue[j]
        PROVE  LET x == devices'[d].queue[i] IN x.time >= 1 /\ Slack(proc'[x.pid]) >= x.time
    <3> DEFINE x == devices[d].queue[j]
    <3>1. x.time >= 1 /\ Slack(proc[x.pid]) >= x.time BY <2>1 DEF Covered
    <3>2. x.pid \in UserPid BY <2>1 DEF Served, Matched, IInv, TypeOK
    <3>3. x.pid # p
      BY <1>1, <1>2, <2>1, <2>2 DEF Served, Matched, D, p
    <3> HIDE DEF x
    <3> QED BY <1>11, <2>2, <3>1, <3>2, <3>3 DEF x
  <2>3. CASE /\ ~ Completes(D)
             /\ devices'[d].queue[i].pid = p
             /\ devices'[d].queue[i].time = FrontLeft(D)
    <3>1. t - 1 >= 1 BY <1>4, <1>7, <1>9, <2>3
    <3>2. Slack(r) >= t - 1 BY <1>4, <1>7, <1>11
    <3> QED BY <1>7, <1>11, <2>3, <3>1, <3>2
  <2> QED BY <2>1, <2>2, <2>3
<1> QED BY <1>12, <1>13 DEF Covered

\* Every step keeps the work of the processes covered, unless the user kills.
LEMMA CoveredKept ==
  ASSUME OnlyReaders, PlainOperands, Victims = {}, IInv, IInv', Served, Covered, [Next]_vars
  PROVE  Covered'
<1>0. /\ proc \in [UserPid -> ProcessRecord] /\ devices \in Seq(DeviceRecord) /\ Len(devices) \in Nat
      /\ state \in [Pid -> States] /\ UserPid \subseteq Pid
      /\ \A p \in UserPid : p \in waiting <=> state[p] = "WAITING"
  BY PidFacts DEF IInv, TypeOK, Placement, InItsPlace
<1>1. \A p \in UserPid : Slack(proc[p]) >= Slack(proc[p])
  <2>1. \A p \in UserPid : Slack(proc[p]) \in Int BY <1>0, SlackType
  <2> QED BY <2>1
<1>2. ASSUME UNCHANGED <<proc, devices>>, \A p \in UserPid : Live(p)' => Live(p) PROVE Covered'
  BY <1>1, <1>2, CoveredSame
<1>3. CASE \/ BeginTick \/ PollIdle \/ PollEmpty \/ PollDead
           \/ RunIdleProgram \/ RunNoDevice \/ RunExitClosing
           \/ (\E p \in UserPid : SafeKillClosing(p))
           \/ (\E a \in Switches : Chalg(a))
           \/ UNCHANGED vars
  <2>1. UNCHANGED <<proc, devices, state>>
    BY <1>3 DEF BeginTick, PollIdle, PollEmpty, PollDead, Undefined, RunIdleProgram,
       RunNoDevice, RunExitClosing, SafeKillClosing, Chalg, vars
  <2> QED BY <1>2, <2>1 DEF Live
<1>4. CASE Choose
  <2>1. UNCHANGED <<proc, devices>> BY <1>4, ChoiceMoves
  <2>2. \A p \in UserPid : Live(p)' => Live(p) BY <1>4, ChoiceMoves DEF Live, Runnable
  <2> QED BY <1>2, <2>1, <2>2
<1>5. CASE PollBusy BY <1>5, PollCovered
<1>6. CASE RunBurst \/ RunCal \/ RunFile \/ RunUnknown BY <1>6, RunKeepsCover
<1>7. CASE RunDevice BY <1>7, DeviceCovered
<1>8. ASSUME NEW p \in UserPid, NEW code \in Programs \cup {<<>>}, p \notin waiting,
             proc' = [proc EXCEPT ![p] = Process(code)], UNCHANGED devices,
             \A q \in UserPid : q # p => state'[q] = state[q]
      PROVE  Covered'
  <2>1. Slack(proc'[p]) >= 0 BY <1>0, <1>8, NewSlack
  <2>2. \A q \in UserPid : q # p => Slack(proc'[q]) >= Slack(proc[q]) /\ (Live(q)' => Live(q))
    BY <1>0, <1>1, <1>8 DEF Live
  <2> QED BY <1>8, <2>1, <2>2, CoveredSame
<1>9. CASE RunExit
  <2>1. running \in UserPid /\ Kill(running) BY <1>9, FetchFacts DEF RunExit, Running
  <2>2. running \notin waiting BY <1>0, <2>1 DEF IInv, Placement, InItsPlace
  <2>3. devices' = devices
    <3>1. devices' = [d \in 1..Len(devices) |-> Popped(devices[d], running)] BY <2>1 DEF Kill
    <3> QED BY <1>0, <2>2, <3>1, NothingPopped DEF Served
  <2>4. /\ proc' = [proc EXCEPT ![running] = Process(<<>>)]
        /\ \A q \in UserPid : q # running => state'[q] = state[q]
    BY <1>0, <2>1 DEF Kill
  <2> QED BY <1>8, <2>1, <2>2, <2>3, <2>4
<1>10. ASSUME NEW p \in UserPid, ExecBad(p) \/ \E code \in Programs : Exec(p, code)
       PROVE  Covered'
  <2>1. PICK code \in Programs \cup {<<>>} : proc' = [proc EXCEPT ![p] = Process(code)]
    BY <1>10 DEF ExecBad, Exec
  <2>2. ~ Live(p) /\ state' = [state EXCEPT ![p] = "READY"] /\ UNCHANGED devices
    BY <1>10 DEF ExecBad, Exec, IsNewPid, FreePids
  <2>3. p \notin waiting /\ \A q \in UserPid : q # p => state'[q] = state[q]
    BY <1>0, <2>2 DEF Live
  <2> QED BY <1>8, <2>1, <2>2, <2>3
<1>11. CASE Mount \/ \E k \in 1..Len(devices) : Unmount(k)
  <2>1. UNCHANGED <<proc, state>> BY <1>11 DEF Mount, Unmount
  <2>2. ASSUME NEW d \in 1..Len(devices'), NEW i \in 1..Len(devices'[d].queue)
        PROVE  \E e \in 1..Len(devices) : devices'[d] = devices[e]
    <3>1. CASE Mount
      <4>1. devices' = Append(devices, NewDevice) BY <3>1 DEF Mount
      <4>2. CASE d \in 1..Len(devices) BY <1>0, <4>1, <4>2
      <4>3. CASE d \notin 1..Len(devices)
        <5>1. devices'[d] = NewDevice /\ NewDevice.queue = <<>>
          <6>1. d = Len(devices) + 1 BY <1>0, <4>1, <4>3
          <6> QED BY <1>0, <4>1, <6>1 DEF NewDevice
        <5>2. Len(devices'[d].queue) = 0 BY <5>1
        <5> QED BY <5>2
      <4> QED BY <4>2, <4>3
    <3>2. ASSUME NEW k \in 1..Len(devices), Unmount(k)
          PROVE  \E e \in 1..Len(devices) : devices'[d] = devices[e]
      <4> DEFINE e == IF d < k THEN d ELSE d + 1
      <4>1. devices' = [j \in 1..(Len(devices) - 1) |-> IF j < k THEN devices[j] ELSE devices[j + 1]]
        BY <3>2 DEF Unmount, WithoutIndex
      <4>2. Len(devices') = Len(devices) - 1 BY <1>0, <4>1
      <4>3. e \in 1..Len(devices) /\ devices'[d] = devices[e] BY <1>0, <4>1, <4>2
      <4> QED BY <4>3
    <3> QED BY <1>11, <3>1, <3>2
  <2>3. \A d \in 1..Len(devices') : \A i \in 1..Len(devices'[d].queue) :
          \E e \in 1..Len(devices) : \E j \in 1..Len(devices[e].queue) :
            devices'[d].queue[i] = devices[e].queue[j]
    BY <2>2
  <2> QED BY <1>1, <2>1, <2>3, CoveredSame DEF Live
<1>12. ~ (WakeOne \/ WakeDead) /\ \A p \in UserPid : ~ SafeKill(p)
  BY DEF Served, WakeOne, WakeDead, SafeKill
<1> QED BY <1>3, <1>4, <1>5, <1>6, <1>7, <1>9, <1>10, <1>11, <1>12
        DEF Next, KernelStep, Run, Shell

\* Without writers and kills, and with operands that fit into a char, the estimate SJF
\* and PRIORITY choose by never promises less than the work a process has left: for any
\* programs and processes, whatever devices they wait for and whoever is preempted.
THEOREM EstimateHolds ==
  ASSUME OnlyReaders, PlainOperands, Victims = {}
  PROVE  Spec => []EstimateCoversWork
<1>1. ASSUME Init PROVE Covered
  <2>1. \A p \in UserPid : ~ Live(p) BY <1>1, PidFacts DEF Init, Live
  <2>2. devices = <<NewDevice, NewDevice, NewDevice>> BY <1>1 DEF Init
  <2>3. \A d \in 1..Len(devices) : devices[d] = NewDevice BY <2>2
  <2>4. \A d \in 1..Len(devices) : Len(devices[d].queue) = 0 BY <2>3 DEF NewDevice
  <2> QED BY <2>1, <2>4 DEF Covered
<1>2. IInv /\ Served /\ Covered /\ [Next]_vars => Served' /\ Covered'
  BY NextIInv, ServedKept, CoveredKept
<1>3. Init => Served BY ServedInit
<1>4. ASSUME IInv, Covered PROVE EstimateCoversWork
  <2> SUFFICES ASSUME NEW p \in UserPid, Live(p) PROVE proc[p].est >= WorkLeft(p)
    BY DEF EstimateCoversWork
  <2>1. /\ proc[p] \in ProcessRecord /\ proc[p].est \in Int /\ proc[p].workload \in Int
        /\ CostFrom(proc[p].code, proc[p].ip) \in Int
    <3>1. proc[p].code \in Programs \cup {<<>>} /\ proc[p].ip \in Int BY <1>4, ProcFacts
    <3> QED BY <1>4, <3>1, ProcFacts, CostType
  <2>2. DeviceWork(p) \in Int /\ Slack(proc[p]) >= DeviceWork(p)
    <3>1. CASE Requests(p) = {}
      BY <1>4, <3>1 DEF DeviceWork, Covered
    <3>2. CASE Requests(p) # {}
      <4> DEFINE m == CHOOSE n \in Requests(p) : TRUE
      <4>1. m \in Requests(p) /\ DeviceWork(p) = devices[m[1]].queue[m[2]].time
        BY <3>2 DEF DeviceWork
      <4> HIDE DEF m
      <4>2. /\ m[1] \in 1..Len(devices) /\ m[2] \in 1..Len(devices[m[1]].queue)
            /\ devices[m[1]].queue[m[2]].pid = p
        <5>1. /\ m[1] \in 1..Len(devices) /\ m[2] \in 1..MaxPid /\ m[2] <= Len(devices[m[1]].queue)
              /\ devices[m[1]].queue[m[2]].pid = p
          BY <4>1 DEF Requests, Request
        <5>2. Len(devices[m[1]].queue) \in Nat
          BY <1>4, <5>1, QueueFacts DEF IInv, TypeOK
        <5> QED BY <5>1, <5>2, SchedulerAssumption
      <4> DEFINE q == devices[m[1]].queue
                 R == [time : Word, pid : UserPid]
      <4>3. q \in Seq(R) BY <1>4, <4>2, QueueFacts DEF IInv, TypeOK
      <4>4. q[m[2]] \in R
        <5> HIDE DEF R, q
        <5>1. m[2] \in 1..Len(q) BY <4>2 DEF q
        <5> QED BY <4>3, <5>1
      <4>5. q[m[2]].time \in Int BY <4>4, WordSizeAssumption DEF Word
      <4>6. Slack(proc[p]) >= q[m[2]].time BY <1>4, <4>2 DEF Covered
      <4> QED BY <4>1, <4>5, <4>6
    <3> QED BY <3>1, <3>2
  <2> HIDE DEF DeviceWork
  <2> QED BY <2>1, <2>2 DEF WorkLeft, Slack
<1> QED BY <1>1, <1>2, <1>3, <1>4, Invariance, PTL DEF Spec

-----------------------------------------------------------------------------
(* The order of the ready list *)

\* The order of p and q in the ready list is kept, and q, behind p, is not chosen.
OrderKept(p, q) ==
  /\ Occurs(ready', q) => Before(ready', p, q)
  /\ algo \in {"FCFS", "RR"} => running' # q

\* Of two processes in a list each is in it once, and p is before q.
InOrder(s, p, q) == Before(s, p, q) /\ Once(s, p) /\ Once(s, q)

\* The first of a list is taken, and idle may go to its end.
LEMMA HeadTaken ==
  ASSUME NEW s \in Seq(Pid), s # <<>>, NEW p \in UserPid, NEW q \in UserPid, InOrder(s, p, q),
         NEW t, t = Tail(s) \/ t = Append(Tail(s), 0), Occurs(t, p)
  PROVE  Before(t, p, q) /\ Head(s) # q
<1>1. Tail(s) \in Seq(Pid) /\ 0 \in Pid /\ p # 0 BY PidFacts
<1>2. Occurs(Tail(s), p)
  <2>1. CASE t = Tail(s) BY <2>1
  <2>2. CASE t = Append(Tail(s), 0)
    <3>1. \A x : Occurs(Append(Tail(s), 0), x) <=> Occurs(Tail(s), x) \/ x = 0
      BY <1>1, AppendOccurs
    <3> QED BY <1>1, <2>2, <3>1
  <2> QED BY <2>1, <2>2
<1>3. Before(Tail(s), p, q) /\ Head(s) # q BY <1>2, TailBefore DEF InOrder
<1> QED BY <1>1, <1>3, AppendBefore

\* Idle at the front of the list goes to its end: the others keep their order.
LEMMA TurnedInOrder ==
  ASSUME ready \in Seq(Pid), ready # <<>>, NEW p \in UserPid, NEW q \in UserPid,
         InOrder(ready, p, q)
  PROVE  Turned \in Seq(Pid) /\ Turned # <<>> /\ InOrder(Turned, p, q)
<1>1. CASE Head(ready) # 0 BY <1>1 DEF Turned
<1>2. CASE Head(ready) = 0
  <2> DEFINE t == Append(Tail(ready), 0)
  <2>1. Turned = t BY <1>2 DEF Turned
  <2>2. Tail(ready) \in Seq(Pid) /\ 0 \in Pid /\ p # 0 /\ q # 0 BY PidFacts
  <2>3. Occurs(ready, p) BY DEF InOrder, Before, Occurs
  <2>4. Occurs(Tail(ready), p) BY <1>2, <2>2, <2>3, TailOccurs
  <2>5. Occurs(t, p) BY <2>2, <2>4, AppendOccurs
  <2>6. Before(t, p, q) BY <2>5, HeadTaken
  <2>7. Once(Tail(ready), p) /\ Once(Tail(ready), q) BY TailOccurs DEF InOrder
  <2>8. Once(t, p) /\ Once(t, q)
    <3>1. \A x : Once(Tail(ready), x) /\ (x = 0 => ~ Occurs(Tail(ready), x))
                    => Once(Append(Tail(ready), 0), x)
      BY <2>2, AppendOccurs
    <3> QED BY <2>2, <2>7, <3>1
  <2>9. t \in Seq(Pid) /\ t # <<>>
    <3>1. t \in Seq(Pid) BY <2>2, AppendOccurs
    <3>2. Occurs(t, 0) BY <2>2, AppendOccurs
    <3> QED BY <3>1, <3>2 DEF Occurs
  <2> QED BY <2>1, <2>6, <2>8, <2>9 DEF InOrder
<1> QED BY <1>1, <1>2

\* No choice of an algorithm lets q overtake p.
LEMMA ChoiceInOrder ==
  ASSUME IInv, Choose, NEW p \in UserPid, NEW q \in UserPid, InOrder(ready, p, q),
         Occurs(ready', p)
  PROVE  OrderKept(p, q)
<1>1. /\ ready \in Seq(Pid) /\ running \in Pid \cup {NoPid} /\ running \in Int /\ NoPid = -1
      /\ 0 \in Pid /\ \A x \in Pid : x >= 0
      /\ p \in Pid /\ q \in Pid /\ p # 0 /\ q # 0 /\ q # NoPid
  BY ListFacts, PidFacts
<1>2. p # running /\ q # running
  <2>1. Occurs(ready, p) /\ Occurs(ready, q) BY DEF InOrder, Before, Occurs
  <2> QED BY <2>1, ListFacts
<1>3. CASE \/ FcfsNothing \/ FcfsKeep \/ SjfEmpty \/ SjfKeep \/ RrIdle \/ RrKeep \/ PrKeep
           \/ MqNothing
  <2>1. UNCHANGED ready /\ (algo # "SJF" => UNCHANGED running)
    BY <1>3 DEF FcfsNothing, FcfsKeep, SjfEmpty, SjfKeep, RrIdle, RrKeep, PrKeep, MqNothing,
       Choosing, Undefined, lists
  <2> QED BY <1>2, <2>1 DEF OrderKept, InOrder
<1>4. CASE FcfsGoIdle
  <2>1. ready' = <<>> BY <1>4 DEF FcfsGoIdle
  <2> QED BY <2>1 DEF Occurs
<1>5. CASE FcfsDispatch
  <2>1. /\ ready # <<>> /\ running' = Head(Turned)
        /\ ready' = Tail(Turned) \/ ready' = Append(Tail(Turned), 0)
    BY <1>5 DEF FcfsDispatch
  <2>2. Turned \in Seq(Pid) /\ Turned # <<>> /\ InOrder(Turned, p, q)
    BY <1>1, <2>1, TurnedInOrder
  <2> HIDE DEF Turned
  <2>3. Before(ready', p, q) /\ Head(Turned) # q BY <2>1, <2>2, HeadTaken
  <2> QED BY <2>1, <2>3 DEF OrderKept
<1>6. CASE RrTake \/ RrLeaveIdle
  <2>1. /\ ready # <<>> /\ running' = Head(ready)
        /\ ready' = Tail(ready) \/ ready' = Append(Tail(ready), 0)
    BY <1>6 DEF RrTake, RrLeaveIdle
  <2>2. Before(ready', p, q) /\ Head(ready) # q BY <1>1, <2>1, HeadTaken
  <2> QED BY <2>1, <2>2 DEF OrderKept
<1>7. CASE RrExpire
  <2>1. CASE running >= 0
    <3>1. running \in Pid /\ ready' = Append(ready, running) /\ running' = NoPid
      BY <1>1, <1>7, <2>1 DEF RrExpire
    <3>2. Before(ready', p, q) BY <1>1, <3>1, AppendBefore DEF InOrder
    <3> QED BY <1>1, <3>1, <3>2 DEF OrderKept
  <2>2. CASE ~ (running >= 0)
    <3>1. UNCHANGED <<ready, running>> BY <1>7, <2>2 DEF RrExpire
    <3> QED BY <1>2, <3>1 DEF OrderKept, InOrder
  <2> QED BY <2>1, <2>2
<1>8. ASSUME NEW s \in Seq(Pid), NEW i \in 1..Len(s), InOrder(s, p, q),
             Occurs(WithoutIndex(s, i), p), Occurs(WithoutIndex(s, i), q)
      PROVE  Before(WithoutIndex(s, i), p, q)
  BY <1>8, WithoutIndexBefore DEF InOrder
<1>9. CASE SjfPreempt
  <2>1. PICK i \in 1..Len(ready) : ready' = Append(WithoutIndex(ready, i), SjfCurrent)
    BY <1>9 DEF SjfPreempt
  <2>2. algo = "SJF" BY <1>9 DEF SjfPreempt, Choosing
  <2>3. SjfCurrent \in Pid /\ SjfCurrent # p /\ SjfCurrent # q
    BY <1>1, <1>2 DEF SjfCurrent
  <2> DEFINE t == WithoutIndex(ready, i)
  <2>4. t \in Seq(Pid) BY <1>1, WithoutIndexOccurs
  <2>5. \A x : Occurs(Append(t, SjfCurrent), x) <=> Occurs(t, x) \/ x = SjfCurrent
    BY <2>3, <2>4, AppendOccurs
  <2>6. ASSUME Occurs(ready', q) PROVE Before(ready', p, q)
    <3>1. Occurs(t, p) /\ Occurs(t, q) BY <2>1, <2>3, <2>5, <2>6
    <3>2. Before(t, p, q) BY <1>1, <1>8, <3>1
    <3> QED BY <2>1, <2>3, <2>4, <3>2, AppendBefore
  <2> QED BY <2>2, <2>6 DEF OrderKept
<1>10. CASE PrPick
  <2> DEFINE list == IF running = 0 THEN Append(ready, 0) ELSE ready
  <2>1. list \in Seq(Pid) /\ InOrder(list, p, q)
    <3>1. CASE running = 0
      <4>1. Before(Append(ready, 0), p, q) BY <1>1, AppendBefore DEF InOrder
      <4>2. Once(Append(ready, 0), p) /\ Once(Append(ready, 0), q)
        BY <1>1, AppendOccurs DEF InOrder
      <4> QED BY <1>1, <3>1, <4>1, <4>2 DEF InOrder
    <3>2. CASE running # 0 BY <1>1, <3>2
    <3> QED BY <3>1, <3>2
  <2>2. PICK i \in 1..Len(list) : ready' = WithoutIndex(list, i)
    BY <1>10 DEF PrPick
  <2>3. algo = "PRIORITY" BY <1>10 DEF PrPick, Choosing
  <2> HIDE DEF list
  <2>4. Occurs(ready', q) => Before(ready', p, q) BY <1>8, <2>1, <2>2
  <2> QED BY <2>3, <2>4 DEF OrderKept
<1> QED BY <1>3, <1>4, <1>5, <1>6, <1>7, <1>9, <1>10 DEF Choose

\* No step does.
LEMMA StepInOrder ==
  ASSUME IInv, [Next]_vars, NEW p \in UserPid, NEW q \in UserPid, p # q,
         Before(ready, p, q), Occurs(ready', p)
  PROVE  OrderKept(p, q)
<1>0. /\ ready \in Seq(Pid) /\ UserPid \subseteq Pid /\ q # NoPid
      /\ InOrder(ready, p, q) /\ p # running /\ q # running
  <2>1. Occurs(ready, p) /\ Occurs(ready, q) BY DEF Before, Occurs
  <2> QED BY <2>1, ListFacts, PidFacts DEF InOrder
<1>1. ASSUME UNCHANGED ready, running' \in {running, NoPid} PROVE OrderKept(p, q)
  BY <1>0, <1>1 DEF OrderKept
<1>2. ASSUME NEW x \in UserPid, Enqueue(x), UNCHANGED running PROVE OrderKept(p, q)
  <2>1. UNCHANGED ready \/ ready' = Append(ready, x) BY <1>2 DEF Enqueue
  <2>2. x \in Pid BY <1>0
  <2>3. CASE ready' = Append(ready, x)
    <3>1. Before(ready', p, q) BY <1>0, <2>2, <2>3, AppendBefore
    <3> QED BY <1>0, <1>2, <3>1 DEF OrderKept
  <2> QED BY <1>1, <1>2, <2>1, <2>3
<1>3. ASSUME NEW x \in UserPid, WakeLists(x), UNCHANGED running PROVE OrderKept(p, q)
  <2>1. UNCHANGED ready \/ Enqueue(x) BY <1>3 DEF WakeLists, lists
  <2> QED BY <1>1, <1>2, <1>3, <2>1
<1>4. ASSUME NEW x \in UserPid, Kill(x), running' \in {running, NoPid} PROVE OrderKept(p, q)
  <2>1. ready' = Without(ready, x) BY <1>4 DEF Kill
  <2>2. Occurs(ready', p) /\ (Occurs(ready', q) => q # x) /\ p # x
    BY <1>0, <2>1, WithoutOccurs
  <2>3. Occurs(ready', q) => Before(ready', p, q) BY <1>0, <2>1, <2>2, WithoutBefore
  <2> QED BY <1>0, <1>4, <2>3 DEF OrderKept
<1>5. CASE BeginTick \/ PollIdle \/ PollEmpty \/ PollDead
  BY <1>1, <1>5 DEF BeginTick, PollIdle, PollEmpty, PollDead, Undefined, lists
<1>6. CASE PollBusy
  <2>1. pc = "poll" /\ devices[pollAt].queue # <<>> BY <1>6 DEF PollBusy
  <2>2. devices[pollAt] \in DeviceRecord BY <2>1, DeviceFacts
  <2>3. devices[pollAt].queue[1].pid \in UserPid BY <2>1, <2>2, PolledType
  <2>4. (UNCHANGED lists \/ WakeLists(devices[pollAt].queue[1].pid)) /\ UNCHANGED running
    BY <1>6 DEF PollBusy
  <2> QED BY <1>1, <1>3, <2>3, <2>4 DEF lists
<1>7. CASE Choose BY <1>0, <1>7, ChoiceInOrder
<1>8. CASE Run
  <2>1. CASE \/ RunIdleProgram \/ RunBurst \/ RunCal \/ RunNoDevice
             \/ RunExitClosing \/ RunUnknown \/ WakeDead
    BY <1>1, <2>1 DEF RunIdleProgram, RunBurst, RunCal, RunNoDevice, RunExitClosing,
       RunUnknown, WakeDead, Undefined, lists
  <2>2. CASE RunDevice \/ RunFile
    <3>1. ready' = ready BY <2>2 DEF RunDevice, RunFile
    <3>2. running' \in {running, NoPid} BY <2>2 DEF RunDevice, RunFile, Block
    <3> QED BY <1>1, <3>1, <3>2
  <2>3. CASE RunExit
    <3>1. running \in UserPid BY <2>3, FetchFacts DEF RunExit, Running
    <3> QED BY <1>4, <2>3, <3>1 DEF RunExit
  <2>4. CASE WakeOne
    <3>1. wakeq \in Seq(UserPid) /\ wakeq # <<>> BY <2>4 DEF WakeOne, IInv, TypeOK
    <3>2. Head(wakeq) \in UserPid BY <3>1
    <3> QED BY <1>3, <2>4, <3>2 DEF WakeOne
  <2> QED BY <1>8, <2>1, <2>2, <2>3, <2>4 DEF Run
<1>9. CASE Shell
  <2>1. ASSUME NEW x \in UserPid, NEW code \in Programs, Exec(x, code) PROVE OrderKept(p, q)
    <3>1. Enqueue(x) /\ UNCHANGED running BY <2>1 DEF Exec
    <3> QED BY <1>2, <3>1
  <2>2. ASSUME NEW x \in UserPid, SafeKill(x) PROVE OrderKept(p, q)
    BY <1>4, <2>2 DEF SafeKill
  <2>3. ASSUME \/ \E x \in UserPid : ExecBad(x) \/ SafeKillClosing(x)
               \/ \E a \in Switches : Chalg(a)
               \/ Mount
               \/ \E d \in 1..Len(devices) : Unmount(d)
        PROVE  OrderKept(p, q)
    BY <1>1, <2>3 DEF ExecBad, SafeKillClosing, Undefined, Chalg, Mount, Unmount, lists
  <2> QED BY <1>9, <2>1, <2>2, <2>3 DEF Shell
<1>10. CASE UNCHANGED vars BY <1>1, <1>10 DEF vars, lists
<1> QED BY <1>5, <1>6, <1>7, <1>8, <1>9, <1>10 DEF Next, KernelStep

\* Of two processes in the ready list the one ahead stays ahead, under every algorithm
\* and through kills and switches, and FCFS and RR choose it first.
THEOREM QueueOrder == Spec => NoOvertaking
<1> DEFINE Step == \A p, q \in UserPid :
                     p # q /\ Before(ready, p, q) /\ Occurs(ready', p) =>
                       /\ Occurs(ready', q) => Before(ready', p, q)
                       /\ algo \in {"FCFS", "RR"} => running' # q
<1>1. IInv /\ [Next]_vars => [Step]_vars BY StepInOrder DEF OrderKept
<1> QED BY <1>1, Invariance, PTL DEF Spec, NoOvertaking
=============================================================================
