------------------------------ MODULE Devices ------------------------------
(***************************************************************************)
(* One simulated device (class Device): whether it is occupied, and its    *)
(* queue of requests, the front one being served.  The operators are the   *)
(* methods of the class; module Scheduler keeps the vector of devices.     *)
(***************************************************************************)
EXTENDS Lists

CONSTANT WordSize   \* 2^32 in the code: where 32-bit counters wrap around

ASSUME WordSizeAssumption == WordSize \in Nat \ {0, 1}

Word == 0..(WordSize - 1)

NewDevice == [occupied |-> FALSE, queue |-> <<>>]

\* a bug to be caught: the device is not marked as occupied
RequireUnmarked(d, time, pid) ==
  [d EXCEPT !.queue = Append(@, [time |-> time % WordSize, pid |-> pid])]

Require(d, time, pid) ==
  [occupied |-> TRUE,
   queue    |-> Append(d.queue, [time |-> time % WordSize, pid |-> pid])]

(***************************************************************************)
(* poll() on an occupied device takes one tick off the front request.  A   *)
(* request for 0 ticks first becomes negative, so it wraps around before   *)
(* it is ever done.                                                        *)
(***************************************************************************)
FrontLeft(d) == (d.queue[1].time - 1) % WordSize

Completes(d) == FrontLeft(d) = 0

\* bugs to be caught: the device stays occupied; a served request stays queued
PolledOccupied(d) ==
  [d EXCEPT !.queue = IF Completes(d) THEN Tail(@) ELSE [@ EXCEPT ![1].time = FrontLeft(d)]]
PolledQueued(d) == [d EXCEPT !.queue[1].time = FrontLeft(d)]

Polled(d) ==
  LET q == IF Completes(d) THEN Tail(d.queue)
                           ELSE [d.queue EXCEPT ![1].time = FrontLeft(d)]
  IN  [occupied |-> q # <<>>, queue |-> q]

(***************************************************************************)
(* pop(pid) erases the first request of a process that is being killed.    *)
(* It leaves the occupied flag alone, even when the queue becomes empty.   *)
(***************************************************************************)
Requested(d, pid) == \E i \in 1..Len(d.queue) : d.queue[i].pid = pid

FirstRequest(d, pid) ==
  CHOOSE i \in 1..Len(d.queue) :
    d.queue[i].pid = pid /\ \A j \in 1..(i - 1) : d.queue[j].pid # pid

Popped(d, pid) ==
  IF Requested(d, pid)
  THEN [d EXCEPT !.queue = WithoutIndex(@, FirstRequest(d, pid))]
  ELSE d
=============================================================================
