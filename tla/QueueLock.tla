------------------------------- MODULE QueueLock -------------------------------
(***************************************************************************)
(* What a ticket lock promises beyond KernelLock: a CPU that asked for the *)
(* kernel while others waited enters after every one of them.  How long it *)
(* waits, or whether it notices its turn at all, is not promised.          *)
(***************************************************************************)
CONSTANTS CPUs, NoCpu

VARIABLES
  holder,    \* the CPU inside the kernel, or NoCpu
  waiting,   \* the CPUs that have asked and not entered
  ahead      \* [CPUs -> SUBSET CPUs], those that a waiting CPU found waiting and
             \* that have not entered since

Init == holder = NoCpu /\ waiting = {} /\ ahead = [c \in CPUs |-> {}]

Ask(c) ==
  /\ c \notin waiting
  /\ waiting' = waiting \cup {c}
  /\ ahead' = [ahead EXCEPT ![c] = waiting]
  /\ UNCHANGED holder

Enter(c) ==
  /\ holder = NoCpu /\ c \in waiting /\ ahead[c] = {}
  /\ holder' = c
  /\ waiting' = waiting \ {c}
  /\ ahead' = [d \in CPUs |-> ahead[d] \ {c}]

Leave(c) ==
  /\ holder = c /\ holder' = NoCpu
  /\ UNCHANGED <<waiting, ahead>>

Next == \E c \in CPUs : Ask(c) \/ Enter(c) \/ Leave(c)
Spec == Init /\ [][Next]_<<holder, waiting, ahead>>

===============================================================================
