------------------------------ MODULE KernelLock ------------------------------
(***************************************************************************)
(* What the big kernel lock promises to lock_kernel's and unlock_kernel's  *)
(* callers, and what JosEnv takes for granted: a visit to the kernel is    *)
(* not interleaved with another CPU's.                                     *)
(***************************************************************************)
CONSTANTS CPUs, NoCpu

VARIABLE holder   \* the CPU inside the kernel, or NoCpu

Init == holder = NoCpu
Acquire(c) == holder = NoCpu /\ holder' = c
Release(c) == holder = c /\ holder' = NoCpu
Next == \E c \in CPUs : Acquire(c) \/ Release(c)
Spec == Init /\ [][Next]_holder

===============================================================================
