------------------------------- MODULE SpinLock -------------------------------
(***************************************************************************)
(* kern/spinlock.c as it is built by default: the xchg lock, with          *)
(* DEBUG_SPINLOCK's owner checks.  Every access to a field of the lock is  *)
(* a step of its own.                                                      *)
(***************************************************************************)
CONSTANTS CPUs, NoCpu   \* NoCpu is the null struct Cpu *

ASSUME NoCpuAssumption == NoCpu \notin CPUs

VARIABLES
  locked,   \* lk->locked
  cpu,      \* lk->cpu, the owner recorded for debugging
  pc        \* [CPUs -> Labels], the next access of each CPU

vars == <<locked, cpu, pc>>

Labels == {"user", "holding", "spin", "acquired", "kernel",
           "owner", "disown", "release", "panic"}

Init == locked = FALSE /\ cpu = NoCpu /\ pc = [c \in CPUs |-> "user"]

Goto(c, from, to) == pc[c] = from /\ pc' = [pc EXCEPT ![c] = to]

-----------------------------------------------------------------------------
\* spin_lock.  holding() reads locked, then cpu if locked was set.

HoldingReadsLocked(c) ==
  /\ Goto(c, "user", IF locked THEN "holding" ELSE "spin")
  /\ UNCHANGED <<locked, cpu>>

HoldingReadsCpu(c) ==
  /\ Goto(c, "holding", IF cpu = c THEN "panic" ELSE "spin")
  /\ UNCHANGED <<locked, cpu>>

\* Mutant of Xchg: the test and the store are not one access, and the test
\* saw the lock free.
XchgLate(c) ==
  /\ Goto(c, "spin", "acquired")
  /\ locked' = TRUE
  /\ UNCHANGED cpu

Xchg(c) ==
  /\ ~locked /\ Goto(c, "spin", "acquired")
  /\ locked' = TRUE
  /\ UNCHANGED cpu

RecordOwner(c) ==
  /\ Goto(c, "acquired", "kernel")
  /\ cpu' = c
  /\ UNCHANGED locked

-----------------------------------------------------------------------------
\* spin_unlock.

UnlockReadsLocked(c) ==
  /\ Goto(c, "kernel", IF locked THEN "owner" ELSE "panic")
  /\ UNCHANGED <<locked, cpu>>

UnlockReadsCpu(c) ==
  /\ Goto(c, "owner", IF cpu = c THEN "disown" ELSE "panic")
  /\ UNCHANGED <<locked, cpu>>

\* Mutant of Disown: the owner is not cleared.
DisownForgotten(c) ==
  /\ Goto(c, "disown", "release")
  /\ UNCHANGED <<locked, cpu>>

Disown(c) ==
  /\ Goto(c, "disown", "release")
  /\ cpu' = NoCpu
  /\ UNCHANGED locked

\* Mutant of Release: the lock is never given back.
ReleaseForgotten(c) ==
  /\ Goto(c, "release", "user")
  /\ UNCHANGED <<locked, cpu>>

Release(c) ==
  /\ Goto(c, "release", "user")
  /\ locked' = FALSE
  /\ UNCHANGED cpu

-----------------------------------------------------------------------------

Lock(c)   == HoldingReadsLocked(c) \/ HoldingReadsCpu(c) \/ Xchg(c) \/ RecordOwner(c)
Unlock(c) == UnlockReadsLocked(c) \/ UnlockReadsCpu(c) \/ Disown(c) \/ Release(c)
Next == \E c \in CPUs : Lock(c) \/ Unlock(c)

Spec == Init /\ [][Next]_vars

\* A CPU that spins keeps executing, and a visit to the kernel ends.
Fairness == \A c \in CPUs : WF_vars(Lock(c)) /\ WF_vars(Unlock(c))
FairSpec == Spec /\ Fairness

-----------------------------------------------------------------------------
\* Where a CPU is between the successful xchg of spin_lock and the one of
\* spin_unlock.
Held == {"acquired", "kernel", "owner", "disown", "release"}
Holders == {c \in CPUs : pc[c] \in Held}

\* At most one CPU is between the two xchgs: kernel code runs alone.
MutualExclusion == \A c, d \in Holders : c = d

\* The debugging owner is set only while that very CPU holds the lock, so the
\* unlocked reads of holding() never mistake another CPU's lock for this one's
\* and neither check panics.
OwnerIsRight ==
  /\ cpu # NoCpu => cpu \in Holders
  /\ \A c \in CPUs : pc[c] # "panic"

\* The inductive invariant: the types, and how locked and cpu follow pc.
TypeOK ==
  /\ locked \in BOOLEAN
  /\ cpu \in CPUs \cup {NoCpu}
  /\ pc \in [CPUs -> Labels]

Recorded == {"kernel", "owner", "disown"}
LockInv ==
  /\ TypeOK
  /\ MutualExclusion
  /\ locked <=> Holders # {}
  /\ \A c \in CPUs : pc[c] \in Recorded <=> cpu = c
  /\ \A c \in CPUs : pc[c] # "panic"

\* The xchg lock implements the kernel lock.
holder == IF \E c \in CPUs : pc[c] \in Held
          THEN CHOOSE c \in CPUs : pc[c] \in Held ELSE NoCpu
K == INSTANCE KernelLock
ImplementsKernelLock == K!Spec

\* The lock is not lost: while CPUs spin, one of them gets into the kernel.
\* (Which one is not promised: an unlucky CPU may spin for ever.)
SomeoneGetsIn ==
  (\E c \in CPUs : pc[c] = "spin") ~> (\E c \in CPUs : pc[c] = "kernel")

===============================================================================
