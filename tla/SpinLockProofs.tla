---------------------------- MODULE SpinLockProofs ----------------------------
(***************************************************************************)
(* For any set of CPUs: the xchg lock excludes, its debugging owner never  *)
(* misleads holding(), and it implements KernelLock.                       *)
(***************************************************************************)
EXTENDS SpinLock, TLAPS

\* The invariant holds when the lock is created, with every CPU outside.
LEMMA InitLockInv == Init => LockInv
BY NoCpuAssumption DEF Init, LockInv, TypeOK, MutualExclusion, Holders, Held, Recorded, Labels

\* Every access of spin_lock and spin_unlock keeps the invariant.
LEMMA NextLockInv == LockInv /\ [Next]_vars => LockInv'
<1> USE NoCpuAssumption DEF Labels, Held, Recorded, Goto
<1> SUFFICES ASSUME LockInv, [Next]_vars PROVE LockInv'
  OBVIOUS
<1> USE DEF LockInv, TypeOK, MutualExclusion, Holders
<1>1. ASSUME NEW c \in CPUs, HoldingReadsLocked(c) PROVE LockInv'
  BY <1>1 DEF HoldingReadsLocked
<1>2. ASSUME NEW c \in CPUs, HoldingReadsCpu(c) PROVE LockInv'
  BY <1>2 DEF HoldingReadsCpu
<1>3. ASSUME NEW c \in CPUs, Xchg(c) PROVE LockInv'
  BY <1>3 DEF Xchg
<1>4. ASSUME NEW c \in CPUs, RecordOwner(c) PROVE LockInv'
  BY <1>4 DEF RecordOwner
<1>5. ASSUME NEW c \in CPUs, UnlockReadsLocked(c) PROVE LockInv'
  BY <1>5 DEF UnlockReadsLocked
<1>6. ASSUME NEW c \in CPUs, UnlockReadsCpu(c) PROVE LockInv'
  BY <1>6 DEF UnlockReadsCpu
<1>7. ASSUME NEW c \in CPUs, Disown(c) PROVE LockInv'
  BY <1>7 DEF Disown
<1>8. ASSUME NEW c \in CPUs, Release(c) PROVE LockInv'
  BY <1>8 DEF Release
<1>9. CASE UNCHANGED vars
  BY <1>9 DEF vars
<1>10. QED
  BY <1>1, <1>2, <1>3, <1>4, <1>5, <1>6, <1>7, <1>8, <1>9 DEF Next, Lock, Unlock

\* The inductive invariant holds for ever.
THEOREM LockInvariant == Spec => []LockInv
BY InitLockInv, NextLockInv, PTL DEF Spec

\* Kernel code runs on one CPU at a time (spin_lock and spin_unlock).
THEOREM Exclusion == Spec => []MutualExclusion
<1>1. LockInv => MutualExclusion
  BY DEF LockInv
<1>2. QED
  BY <1>1, LockInvariant, PTL

\* Neither "already holding" nor "spin_unlock" is ever panicked about, and
\* lk->cpu names a CPU that holds the lock.
THEOREM Ownership == Spec => []OwnerIsRight
<1>1. LockInv => OwnerIsRight
  BY DEF LockInv, TypeOK, OwnerIsRight, Holders, Held, Recorded
<1>2. QED
  BY <1>1, LockInvariant, PTL

-----------------------------------------------------------------------------
\* The refinement: Xchg is Acquire, Release is Release, and the other accesses
\* do not change who holds the lock.

\* While some CPU is between the xchgs, holder is that CPU.
LEMMA HolderIs ==
  ASSUME LockInv, NEW c \in CPUs, pc[c] \in Held
  PROVE holder = c
BY DEF holder, LockInv, MutualExclusion, Holders

\* While no CPU is, the lock is free.
LEMMA HolderNone ==
  ASSUME \A c \in CPUs : pc[c] \notin Held
  PROVE holder = NoCpu
BY DEF holder

\* Every access maps to a step of KernelLock, or changes nothing there.
LEMMA StepRefines == LockInv /\ LockInv' /\ [Next]_vars => [K!Next]_holder
<1> SUFFICES ASSUME LockInv, LockInv', [Next]_vars PROVE [K!Next]_holder
  OBVIOUS
<1>1. ASSUME NEW c \in CPUs, Xchg(c) PROVE [K!Next]_holder
  <2>1. \A d \in CPUs : pc[d] \notin Held
    BY <1>1 DEF Xchg, LockInv, Holders
  <2>2. holder = NoCpu
    BY <2>1, HolderNone
  <2>3. pc'[c] = "acquired"
    BY <1>1 DEF Xchg, Goto, LockInv, TypeOK
  <2>4. holder' = c
    BY <2>3 DEF holder, Held, LockInv, MutualExclusion, Holders
  <2>5. QED
    BY <2>2, <2>4 DEF K!Next, K!Acquire
<1>2. ASSUME NEW c \in CPUs, Release(c) PROVE [K!Next]_holder
  <2>1. pc[c] = "release" /\ pc' = [pc EXCEPT ![c] = "user"]
    BY <1>2 DEF Release, Goto
  <2>2. holder = c
    BY <2>1, HolderIs DEF Held
  <2>3. \A d \in CPUs : pc'[d] \notin Held
    BY <2>1 DEF LockInv, TypeOK, MutualExclusion, Holders, Held
  <2>4. holder' = NoCpu
    BY <2>3 DEF holder
  <2>5. QED
    BY <2>2, <2>4 DEF K!Next, K!Release
<1>3. ASSUME NEW c \in CPUs,
             \/ HoldingReadsLocked(c) \/ HoldingReadsCpu(c) \/ RecordOwner(c)
             \/ UnlockReadsLocked(c) \/ UnlockReadsCpu(c) \/ Disown(c)
      PROVE [K!Next]_holder
  <2>1. \A d \in CPUs : pc'[d] \in Held <=> pc[d] \in Held
    BY <1>3 DEF HoldingReadsLocked, HoldingReadsCpu, RecordOwner, UnlockReadsLocked,
                UnlockReadsCpu, Disown, Goto, LockInv, TypeOK, Held, Recorded, Holders
  <2>2. CASE \E d \in CPUs : pc[d] \in Held
    <3>1. PICK d \in CPUs : pc[d] \in Held
      BY <2>2
    <3>2. holder = d
      BY <3>1, HolderIs
    <3>3. holder' = d
      BY <3>1, <2>1 DEF holder, LockInv, MutualExclusion, Holders
    <3>4. QED
      BY <3>2, <3>3
  <2>3. CASE \A d \in CPUs : pc[d] \notin Held
    BY <2>1, <2>3 DEF holder
  <2>4. QED
    BY <2>2, <2>3
<1>4. CASE UNCHANGED vars
  BY <1>4 DEF vars, holder
<1>5. QED
  BY <1>1, <1>2, <1>3, <1>4 DEF Next, Lock, Unlock

\* spin_lock and spin_unlock give the kernel what KernelLock promises.
THEOREM Refinement == Spec => ImplementsKernelLock
<1>1. Init => K!Init
  BY DEF Init, K!Init, holder, Held
<1>2. QED
  BY <1>1, StepRefines, LockInvariant, PTL DEF Spec, ImplementsKernelLock, K!Spec

===============================================================================
