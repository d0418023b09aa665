------------------------------ MODULE TicketLock ------------------------------
(***************************************************************************)
(* kern/spinlock.c built with USE_TICKET_SPIN_LOCK: own and next are       *)
(* unsigned counters that wrap.  spin_lock's loop reads own, which is not  *)
(* volatile, while another CPU writes it: a race that lets the compiler    *)
(* read it once before the loop, as gcc -O1 does, or again in some turns.  *)
(***************************************************************************)
EXTENDS Integers

CONSTANTS
  NCPU,      \* number of CPUs
  Width,     \* own and next are counted modulo Width (2^32 on the x86)
  NoCpu      \* the null struct Cpu *

CPUs == 0 .. NCPU - 1

ASSUME SizeAssumption == NCPU \in Nat \ {0} /\ Width \in Nat /\ NCPU < Width
ASSUME NoCpuAssumption == NoCpu \notin CPUs

VARIABLES
  own, next,   \* lk->own and lk->next
  cpu,         \* lk->cpu
  target,      \* [CPUs -> 0 .. Width - 1], spin_lock's local variable
  seen,        \* [CPUs -> 0 .. Width - 1], own as holding() read it
  pc

vars == <<own, next, cpu, target, seen, pc>>

Tickets == 0 .. Width - 1
Labels == {"user", "compare", "holding", "take", "wait", "stuck", "acquired",
           "kernel", "uncompare", "owner", "disown", "release", "panic"}

Init ==
  /\ own = 0 /\ next = 0 /\ cpu = NoCpu
  /\ target = [c \in CPUs |-> 0] /\ seen = [c \in CPUs |-> 0]
  /\ pc = [c \in CPUs |-> "user"]

Goto(c, from, to) == pc[c] = from /\ pc' = [pc EXCEPT ![c] = to]

-----------------------------------------------------------------------------
\* spin_lock.  holding() reads own, next and, if they differ, cpu.

HoldingReadsOwn(c) ==
  /\ Goto(c, "user", "compare")
  /\ seen' = [seen EXCEPT ![c] = own]
  /\ UNCHANGED <<own, next, cpu, target>>

HoldingReadsNext(c) ==
  /\ Goto(c, "compare", IF seen[c] # next THEN "holding" ELSE "take")
  /\ UNCHANGED <<own, next, cpu, target, seen>>

HoldingReadsCpu(c) ==
  /\ Goto(c, "holding", IF cpu = c THEN "panic" ELSE "take")
  /\ UNCHANGED <<own, next, cpu, target, seen>>

\* Mutant of TakeTicket: lk->next is read before and written after, not in one
\* access: the ticket of another CPU is handed out again.
TakeTicketTwice(c) ==
  /\ Goto(c, "take", "wait")
  /\ target' = [target EXCEPT ![c] = next]
  /\ next' \in {next, (next + 1) % Width}
  /\ UNCHANGED <<own, cpu, seen>>

TakeTicket(c) ==
  /\ Goto(c, "take", "wait")
  /\ target' = [target EXCEPT ![c] = next]
  /\ next' = (next + 1) % Width
  /\ UNCHANGED <<own, cpu, seen>>

\* Mutant of Wait: a ticket that has been passed counts as called.
WaitOrPassed(c) ==
  /\ \E to \in IF own <= target[c] THEN {"acquired"} ELSE {"wait", "stuck"} :
       Goto(c, "wait", to)
  /\ UNCHANGED <<own, next, cpu, target, seen>>

\* A turn of the loop: a CPU that has to wait reads own again, or is stuck with
\* the value it has read.
Wait(c) ==
  /\ \E to \in IF own = target[c] THEN {"acquired"} ELSE {"wait", "stuck"} :
       Goto(c, "wait", to)
  /\ UNCHANGED <<own, next, cpu, target, seen>>

RecordOwner(c) ==
  /\ Goto(c, "acquired", "kernel")
  /\ cpu' = c
  /\ UNCHANGED <<own, next, target, seen>>

-----------------------------------------------------------------------------
\* spin_unlock.

UnlockReadsOwn(c) ==
  /\ Goto(c, "kernel", "uncompare")
  /\ seen' = [seen EXCEPT ![c] = own]
  /\ UNCHANGED <<own, next, cpu, target>>

UnlockReadsNext(c) ==
  /\ Goto(c, "uncompare", IF seen[c] # next THEN "owner" ELSE "panic")
  /\ UNCHANGED <<own, next, cpu, target, seen>>

UnlockReadsCpu(c) ==
  /\ Goto(c, "owner", IF cpu = c THEN "disown" ELSE "panic")
  /\ UNCHANGED <<own, next, cpu, target, seen>>

\* Mutant of Disown: the owner is not cleared.
DisownForgotten(c) ==
  /\ Goto(c, "disown", "release")
  /\ UNCHANGED <<own, next, cpu, target, seen>>

Disown(c) ==
  /\ Goto(c, "disown", "release")
  /\ cpu' = NoCpu
  /\ UNCHANGED <<own, next, target, seen>>

Release(c) ==
  /\ Goto(c, "release", "user")
  /\ own' = (own + 1) % Width
  /\ UNCHANGED <<next, cpu, target, seen>>

-----------------------------------------------------------------------------

Lock(c) ==
  \/ HoldingReadsOwn(c) \/ HoldingReadsNext(c) \/ HoldingReadsCpu(c)
  \/ TakeTicket(c) \/ Wait(c) \/ RecordOwner(c)
Unlock(c) ==
  \/ UnlockReadsOwn(c) \/ UnlockReadsNext(c) \/ UnlockReadsCpu(c)
  \/ Disown(c) \/ Release(c)
Next == \E c \in CPUs : Lock(c) \/ Unlock(c)

Spec == Init /\ [][Next]_vars

-----------------------------------------------------------------------------
Held == {"acquired", "kernel", "uncompare", "owner", "disown", "release"}
Queued == {c \in CPUs : pc[c] \in Held \cup {"wait", "stuck"}}

\* The counters stay inside their width, the locals and labels have their types.
TypeOK ==
  /\ own \in Tickets /\ next \in Tickets
  /\ cpu \in CPUs \cup {NoCpu}
  /\ target \in [CPUs -> Tickets] /\ seen \in [CPUs -> Tickets]
  /\ pc \in [CPUs -> Labels]

\* How many tickets are called before c's.
Before(c) == (target[c] - own + Width) % Width

\* The tickets out are distinct and are the ones from own up to next, also when
\* the counters wrap; only the CPU with ticket own is in the kernel.
TicketsInOrder ==
  /\ TypeOK
  /\ \A c, d \in Queued : target[c] = target[d] => c = d
  /\ \A c \in Queued : Before(c) < NCPU
  /\ \A c \in CPUs : pc[c] \in Held => target[c] = own

\* holding()'s reads of own, next and cpu race with other CPUs', but never make
\* spin_lock or spin_unlock panic.
NoPanic == \A c \in CPUs : pc[c] # "panic"

\* The ticket lock implements the kernel lock.
holder == IF \E c \in CPUs : pc[c] \in Held
          THEN CHOOSE c \in CPUs : pc[c] \in Held ELSE NoCpu
K == INSTANCE KernelLock
ImplementsKernelLock == K!Spec

\* First come, first served: CPUs enter the kernel in the order in which they
\* drew their tickets, also when the counters wrap between the two.
waiting == {c \in CPUs : pc[c] \in {"wait", "stuck"}}
ahead == [c \in CPUs |-> IF c \in waiting THEN {d \in waiting : Before(d) < Before(c)} ELSE {}]
Q == INSTANCE QueueLock
FirstComeFirstServed == Q!Spec

===============================================================================
