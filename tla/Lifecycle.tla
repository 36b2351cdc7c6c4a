----------------------------- MODULE Lifecycle -----------------------------
(***************************************************************************)
(* What the scheduler promises about the state word of every process: the  *)
(* steps a process may make between "NONE" (its slot of prlist is null),   *)
(* "READY", "RUNNING" and "WAITING", one processor, and an idle process    *)
(* that neither waits nor ends.                                            *)
(***************************************************************************)
CONSTANTS Processes, IdleProcess

VARIABLE state

Create(p)  == p # IdleProcess /\ state[p] = "NONE" /\ state' = [state EXCEPT ![p] = "READY"]
Preempt(p) == state[p] = "RUNNING" /\ state' = [state EXCEPT ![p] = "READY"]
Block(p)   == p # IdleProcess /\ state[p] = "RUNNING" /\ state' = [state EXCEPT ![p] = "WAITING"]
Wake(p)    == state[p] = "WAITING" /\ state' = [state EXCEPT ![p] = "READY"]
End(p)     == p # IdleProcess /\ state[p] # "NONE" /\ state' = [state EXCEPT ![p] = "NONE"]

\* p gets the processor; the process that had it, if any, is ready again
Dispatch(p) ==
  /\ state[p] = "READY"
  /\ state' = [q \in Processes |-> IF q = p THEN "RUNNING"
                                   ELSE IF state[q] = "RUNNING" THEN "READY"
                                   ELSE state[q]]

Init == state = [p \in Processes |-> IF p = IdleProcess THEN "READY" ELSE "NONE"]

Next == \E p \in Processes :
          Create(p) \/ Preempt(p) \/ Block(p) \/ Wake(p) \/ End(p) \/ Dispatch(p)

Spec == Init /\ [][Next]_state
=============================================================================
