---------------------------- MODULE MCScheduler ----------------------------
(***************************************************************************)
(* Small instances of module Scheduler for TLC: the programs that are run. *)
(***************************************************************************)
EXTENDS SchedulerProperties

I(op, arg, file) == [op |-> op, arg |-> arg, file |-> file]
Cal(n)   == I("cal", n, Missing)
Output(n) == I("print", n, Missing)
Entry(n) == I("input", n, Missing)
RdF(f, n) == I("read", n, f)
WrF(f, n) == I("write", n, f)
Ret   == I("ret", 0, Missing)
Bad   == I("bad", 0, Missing)
Fault == I("fault", 0, Missing)

CONSTANT F1

\* computing and devices
DeviceProgs == { <<Cal(2), Output(1), Ret>>,
                 <<Entry(2), Cal(1), Ret>>,
                 <<Output(2), Bad, Fault>> }
\* ... and readers of one file
ReadProgs == DeviceProgs \cup { <<RdF(F1, 2), Ret>>, <<Cal(1), RdF(F1, 3), Output(1), RdF(F1, 2), Ret>> }
\* readers and writers
FileProgs == { <<RdF(F1, 2), Ret>>, <<WrF(F1, 3), Cal(1), Ret>> }
\* files with readers and writers, one that is not there, and a device that is
\* used after two reads; the write is too long for a char
OpenProgs == { <<RdF(F1, 2), RdF(F1, 1), Output(2), Output(1), Ret>>,
               <<Cal(1), WrF(F1, 4), Ret>>, <<RdF(Missing, 2), Ret>> }
=============================================================================
