----------------------------- MODULE JosEnvProofs -----------------------------
(***************************************************************************)
(* For every number of slots, CPUs and programs: the invariants of JosEnv  *)
(* that hold whatever the programs do.                                     *)
(***************************************************************************)
EXTENDS JosEnv, TLAPS

\* The CPUs' idle environments are slots.
LEMMA CpuIsSlot == CPUs \subseteq Slots
BY SizeAssumption DEF CPUs, Slots

-----------------------------------------------------------------------------
\* What sched_yield and the end of a handler may do to the table.  st is the
\* status the handler left, cur the environment it left on CPU c.

\* Only RUNNABLE and RUNNING are exchanged, other CPUs are left alone, and c
\* gets an idle environment only if it is its own or had it before.
Effect(c, st, cur) ==
  /\ env_status' \in [Slots -> Statuses]
  /\ curenv' \in [CPUs -> Slots \cup {NoEnv}]
  /\ kernel' \in Kernels
  /\ \A s \in Slots :
       \/ env_status'[s] = st[s]
       \/ {env_status'[s], st[s]} \subseteq {"RUNNABLE", "RUNNING"}
  /\ \A d \in CPUs \ {c} : curenv'[d] = curenv[d]
  /\ \/ curenv'[c] = cur
     \/ curenv'[c] = c
     \/ curenv'[c] \in Slots /\ env_type[curenv'[c]] # "IDLE"

\* env_run has that effect when it is given an environment it may run.
LEMMA EnvRunEffect ==
  ASSUME TypeOK, NEW c \in CPUs, NEW cur \in Slots \cup {NoEnv},
         NEW st \in [Slots -> Statuses], NEW e \in Slots, EnvRun(c, st, cur, e),
         \/ e = cur
         \/ st[e] \in {"RUNNABLE", "RUNNING"} /\ (e = c \/ env_type[e] # "IDLE")
  PROVE  Effect(c, st, cur)
BY NoEnvAssumption DEF EnvRun, Effect, TypeOK, Statuses, Kernels

\* So has stopping, whatever the reason.
LEMMA StopEffect ==
  ASSUME TypeOK, NEW c \in CPUs, NEW cur \in Slots \cup {NoEnv},
         NEW st \in [Slots -> Statuses], NEW why \in Kernels,
         Stop(c, st, cur, why)
  PROVE  Effect(c, st, cur)
BY DEF Stop, Effect, TypeOK

\* sched_yield's three outcomes.
LEMMA SchedYieldEffect ==
  ASSUME TypeOK, NEW c \in CPUs, NEW cur \in Slots \cup {NoEnv},
         NEW st \in [Slots -> Statuses], SchedYield(c, st, cur)
  PROVE  Effect(c, st, cur)
<1>1. CASE \E s \in Slots : First(st, cur, s) /\ EnvRun(c, st, cur, s)
  <2>1. PICK s \in Slots : First(st, cur, s) /\ EnvRun(c, st, cur, s)
    BY <1>1
  <2>2. st[s] = "RUNNABLE" /\ env_type[s] # "IDLE"
    BY <2>1 DEF First, Candidates
  <2>3. QED
    BY <2>1, <2>2, EnvRunEffect
<1>2. CASE cur # NoEnv /\ EnvRun(c, st, cur, cur)
  BY <1>2, EnvRunEffect
<1>3. CASE RunIdle(c, st, cur)
  <2>1. CASE st[c] \in {"RUNNABLE", "RUNNING"} /\ EnvRun(c, st, cur, c)
    BY <2>1, CpuIsSlot, EnvRunEffect
  <2>2. CASE Stop(c, st, cur, "monitor") \/ Stop(c, st, cur, "panic")
    BY <2>2, StopEffect DEF Kernels
  <2>3. QED
    BY <1>3, <2>1, <2>2 DEF RunIdle
<1>4. QED
  BY <1>1, <1>2, <1>3 DEF SchedYield

\* The end of trap() and of router().
LEMMA ReturnEffect ==
  ASSUME TypeOK, NEW c \in CPUs, NEW via \in Vias, curenv[c] \in Slots,
         NEW st \in [Slots -> Statuses], Return(c, via, st)
  PROVE  Effect(c, st, curenv[c])
<1>1. CASE env_status' = st /\ UNCHANGED <<curenv, kernel>>
  BY <1>1 DEF Effect, TypeOK
<1>2. CASE SchedYield(c, st, curenv[c])
  BY <1>2, SchedYieldEffect
<1>3. QED
  BY <1>1, <1>2 DEF Return

-----------------------------------------------------------------------------
\* The free list as a sequence.

InSeq(L, s) == \E i \in 1 .. Len(L) : L[i] = s
Unique(L) == \A i, j \in 1 .. Len(L) : L[i] = L[j] => i = j

\* Pushing a slot that is not there (env_free) adds that slot, once.
LEMMA PushUnique ==
  ASSUME NEW L \in Seq(Slots), NEW e \in Slots, Unique(L), ~InSeq(L, e)
  PROVE  /\ <<e>> \o L \in Seq(Slots)
         /\ Unique(<<e>> \o L)
         /\ \A s : InSeq(<<e>> \o L, s) <=> s = e \/ InSeq(L, s)
<1> DEFINE M == <<e>> \o L
<1>1. M \in Seq(Slots) /\ Len(M) = Len(L) + 1
  OBVIOUS
<1>2. M[1] = e /\ \A i \in 1 .. Len(L) : M[i + 1] = L[i]
  OBVIOUS
<1> HIDE DEF M
<1>0. Len(L) \in Nat
  OBVIOUS
<1>3. ASSUME NEW i \in 1 .. Len(M)
      PROVE i = 1 \/ (i - 1 \in 1 .. Len(L) /\ M[i] = L[i - 1])
  <2>1. CASE i # 1
    <3>1. i - 1 \in 1 .. Len(L) /\ (i - 1) + 1 = i
      BY <2>1, <1>0, <1>1
    <3>2. M[(i - 1) + 1] = L[i - 1]
      BY <3>1, <1>2
    <3>3. QED
      BY <3>1, <3>2
  <2>2. QED
    BY <2>1
<1>4. Unique(M)
  <2>1. SUFFICES ASSUME NEW i \in 1 .. Len(M), NEW j \in 1 .. Len(M), M[i] = M[j]
                 PROVE i = j
    BY DEF Unique
  <2>2. CASE i = 1 \/ j = 1
    BY <2>1, <2>2, <1>2, <1>3 DEF InSeq
  <2>3. CASE i # 1 /\ j # 1
    <3>1. i - 1 \in 1 .. Len(L) /\ j - 1 \in 1 .. Len(L) /\ L[i - 1] = L[j - 1]
      BY <2>1, <2>3, <1>3
    <3>2. i - 1 = j - 1
      BY <3>1 DEF Unique
    <3>3. QED
      BY <3>2, <1>1
  <2>4. QED
    BY <2>2, <2>3
<1>5. \A s : InSeq(M, s) <=> s = e \/ InSeq(L, s)
  BY <1>1, <1>2, <1>3 DEF InSeq
<1>6. QED
  BY <1>1, <1>4, <1>5 DEF M

\* Popping the head (env_alloc) removes that slot.
LEMMA PopUnique ==
  ASSUME NEW L \in Seq(Slots), L # << >>, Unique(L)
  PROVE  /\ Head(L) \in Slots /\ InSeq(L, Head(L))
         /\ Tail(L) \in Seq(Slots)
         /\ Unique(Tail(L))
         /\ \A s : InSeq(Tail(L), s) <=> s # Head(L) /\ InSeq(L, s)
<1> DEFINE M == Tail(L)
<1>1. Len(L) \in Nat \ {0} /\ Head(L) = L[1] /\ L[1] \in Slots
  OBVIOUS
<1>2. M \in Seq(Slots) /\ Len(M) = Len(L) - 1 /\ \A i \in 1 .. Len(M) : M[i] = L[i + 1]
  OBVIOUS
<1>3. \A i \in 1 .. Len(L) : i = 1 \/ (i - 1 \in 1 .. Len(M) /\ L[i] = M[i - 1])
  BY <1>1, <1>2
<1>4. Unique(M)
  BY <1>1, <1>2 DEF Unique
<1>5. InSeq(L, Head(L))
  BY <1>1 DEF InSeq
<1>6. ASSUME NEW s PROVE InSeq(M, s) <=> s # Head(L) /\ InSeq(L, s)
  <2>1. ASSUME InSeq(M, s) PROVE s # Head(L) /\ InSeq(L, s)
    <3>1. PICK i \in 1 .. Len(M) : M[i] = s
      BY <2>1 DEF InSeq
    <3>2. i + 1 \in 1 .. Len(L) /\ L[i + 1] = s /\ i + 1 # 1
      BY <3>1, <1>1, <1>2
    <3>3. QED
      BY <3>2, <1>1 DEF InSeq, Unique
  <2>2. ASSUME s # Head(L), InSeq(L, s) PROVE InSeq(M, s)
    BY <2>2, <1>1, <1>2, <1>3 DEF InSeq
  <2>3. QED
    BY <2>1, <2>2
<1>7. QED
  BY <1>1, <1>2, <1>4, <1>5, <1>6

\* Where JosEnv says OnFreeList and FreeListUnique.
LEMMA FreeListSeq ==
  /\ \A s : OnFreeList(s) <=> InSeq(env_free_list, s)
  /\ FreeListUnique <=> Unique(env_free_list)
BY DEF OnFreeList, InSeq, FreeListUnique, Unique

-----------------------------------------------------------------------------
\* env_destroy touches e's status and at most pushes e on the free list.

DestroyEffect(c, e) ==
  /\ env_status' \in [Slots -> Statuses]
  /\ curenv' \in [CPUs -> Slots \cup {NoEnv}]
  /\ kernel' \in Kernels
  /\ \A s \in Slots \ {e} :
       \/ env_status'[s] = env_status[s]
       \/ {env_status'[s], env_status[s]} \subseteq {"RUNNABLE", "RUNNING"}
  /\ \A d \in CPUs \ {c} : curenv'[d] = curenv[d]
  /\ \/ curenv'[c] \in {curenv[c], NoEnv, c}
     \/ curenv'[c] \in Slots /\ env_type[curenv'[c]] # "IDLE"
  /\ \/ env_free_list' = env_free_list
     \/ ~OnFreeList(e) /\ env_free_list' = <<e>> \o env_free_list

\* An env_free followed by the scheduler, or by the end of the handler.
LEMMA FreeEffect ==
  ASSUME TypeOK, NEW c \in CPUs, curenv[c] \in Slots, NEW e \in Slots,
         ~OnFreeList(e), EnvFree(e), NEW cur \in {curenv[c], NoEnv},
         Effect(c, Freed(e), cur)
  PROVE  DestroyEffect(c, e)
BY DEF TypeOK, EnvFree, Freed, Effect, DestroyEffect

\* A null env_pgdir changes nothing but the kernel's being up.
LEMMA NullPgdirEffect ==
  ASSUME TypeOK, NEW c \in CPUs, NEW e \in Slots, NullPgdir(c, e)
  PROVE  DestroyEffect(c, e)
BY DEF TypeOK, NullPgdir, Stop, DestroyEffect, Kernels

\* All of env_destroy: marking a zombie, freeing, and going on.
LEMMA EnvDestroyEffect ==
  ASSUME TypeOK, NEW c \in CPUs, NEW via \in Vias, curenv[c] \in Slots,
         NEW e \in Slots, EnvDestroy(c, via, e)
  PROVE  DestroyEffect(c, e)
<1>1. Freed(e) \in [Slots -> Statuses] /\ [env_status EXCEPT ![e] = "DYING"] \in [Slots -> Statuses]
  BY DEF TypeOK, Freed, Statuses
<1>2. CASE Return(c, via, [env_status EXCEPT ![e] = "DYING"]) /\ UNCHANGED env_free_list
  <2>1. Effect(c, [env_status EXCEPT ![e] = "DYING"], curenv[c])
    BY <1>1, <1>2, ReturnEffect
  <2>2. QED
    BY <2>1, <1>2 DEF Effect, DestroyEffect, TypeOK
<1>3. CASE NullPgdir(c, e)
  BY <1>3, NullPgdirEffect
<1>4. CASE ~OnFreeList(e) /\ EnvFree(e) /\ SchedYield(c, Freed(e), NoEnv)
  BY <1>1, <1>4, SchedYieldEffect, FreeEffect
<1>5. CASE ~OnFreeList(e) /\ EnvFree(e) /\ Return(c, via, Freed(e))
  BY <1>1, <1>5, ReturnEffect, FreeEffect
<1>6. QED
  BY <1>2, <1>3, <1>4, <1>5 DEF EnvDestroy

-----------------------------------------------------------------------------
\* The invariant of Spec, and the parts of it each action touches.

SafeInv == TypeOK /\ IdleInv /\ FreeListUnique

\* Idle environments stay ready when their status is only exchanged between
\* RUNNABLE and RUNNING and c is given none but its own.
LEMMA IdleKept ==
  ASSUME IdleInv, NEW c \in CPUs,
         \A i \in CPUs : env_type'[i] = env_type[i],
         \A i \in CPUs : \/ env_status'[i] = env_status[i]
                          \/ env_status'[i] \in {"RUNNABLE", "RUNNING"},
         \A d \in CPUs \ {c} : curenv'[d] = curenv[d],
         \/ curenv'[c] \in {curenv[c], NoEnv, c}
         \/ env_type[curenv'[c]] # "IDLE"
  PROVE  IdleReady'
<1>1. ASSUME NEW i \in CPUs
      PROVE  env_type'[i] = "IDLE" /\ env_status'[i] \in {"RUNNING", "RUNNABLE"}
  BY DEF IdleInv, IdleReady
<1>2. ASSUME NEW i \in CPUs, NEW d \in CPUs, curenv'[d] = i PROVE d = i
  <2>1. i # NoEnv /\ env_type[i] = "IDLE" /\ \A b \in CPUs : curenv[b] = i => b = i
    BY CpuIsSlot, NoEnvAssumption DEF IdleInv, IdleReady
  <2>2. CASE d # c
    BY <1>2, <2>1, <2>2
  <2>3. CASE d = c
    BY <1>2, <2>1, <2>3
  <2>4. QED
    BY <2>2, <2>3
<1>3. QED
  BY <1>1, <1>2 DEF IdleReady

\* A handler that leaves identities, messages and the free list alone.
LEMMA QuietStep ==
  ASSUME SafeInv, NEW c \in CPUs, NEW cur \in {curenv[c], NoEnv},
         Effect(c, env_status, cur), UNCHANGED <<idVars, ipcVars, env_free_list>>
  PROVE  SafeInv'
<1> USE DEF SafeInv, idVars, ipcVars
<1>1. TypeOK'
  BY DEF TypeOK, Effect
<1>2. IdleInv'
  <2>1. IdleReady'
    BY CpuIsSlot, IdleKept DEF Effect
  <2>2. QED
    BY <2>1 DEF IdleInv, OnFreeList
<1>3. FreeListUnique'
  BY DEF FreeListUnique
<1>4. QED
  BY <1>1, <1>2, <1>3

\* env_destroy of an environment that is nobody's idle one.
LEMMA DestroyStep ==
  ASSUME SafeInv, NEW c \in CPUs, curenv[c] \in Slots, NEW e \in Slots \ CPUs,
         DestroyEffect(c, e), UNCHANGED <<idVars, ipcVars>>
  PROVE  SafeInv'
<1> USE DEF SafeInv, idVars, ipcVars
<1>0. IdleReady'
  BY CpuIsSlot, IdleKept DEF DestroyEffect
<1>1. CASE env_free_list' = env_free_list
  <2>1. TypeOK'
    BY <1>1 DEF TypeOK, DestroyEffect
  <2>2. IdleInv'
    BY <1>1, <1>0 DEF IdleInv, OnFreeList
  <2>3. QED
    BY <1>1, <2>1, <2>2 DEF FreeListUnique
<1>2. CASE ~OnFreeList(e) /\ env_free_list' = <<e>> \o env_free_list
  <2>1. /\ env_free_list' \in Seq(Slots) /\ Unique(env_free_list')
        /\ \A s : InSeq(env_free_list', s) <=> s = e \/ InSeq(env_free_list, s)
    BY <1>2, FreeListSeq, PushUnique DEF TypeOK
  <2>2. FreeListUnique' /\ \A s : OnFreeList(s)' <=> s = e \/ OnFreeList(s)
    BY <2>1 DEF FreeListUnique, Unique, OnFreeList, InSeq
  <2>3. TypeOK'
    BY <2>1 DEF TypeOK, DestroyEffect
  <2>4. IdleInv'
    <3>1. \A i \in CPUs : ~OnFreeList(i)'
      BY <2>2, CpuIsSlot DEF IdleInv
    <3>2. QED
      BY <1>0, <3>1 DEF IdleInv
  <2>5. QED
    BY <2>2, <2>3, <2>4
<1>3. QED
  BY <1>1, <1>2 DEF DestroyEffect

\* Whoever envid2env resolves with checkperm set is not an idle environment.
LEMMA EnvidResolves ==
  ASSUME SafeInv, NEW c \in CPUs, NEW via \in Vias, Call(c, via),
         NEW envid, NEW checkperm \in BOOLEAN, NEW e \in Envid2Env(c, envid, checkperm)
  PROVE  /\ curenv[c] \in Slots \ CPUs
         /\ e \in Slots
         /\ checkperm => e \notin CPUs
<1>1. curenv[c] \in Slots /\ env_type[curenv[c]] # "IDLE"
  BY DEF Call, Enter, InUser, SafeInv, TypeOK
<1>2. curenv[c] \notin CPUs
  BY <1>1 DEF SafeInv, IdleInv, IdleReady
<1>3. e \in Slots
  BY <1>1 DEF Envid2Env
<1>4. env_id(curenv[c]) # NoId
  BY <1>1, NoIdAssumption DEF env_id, SlotIds, SafeInv, TypeOK
<1>5. ASSUME checkperm PROVE e \notin CPUs
  BY <1>2, <1>4, <1>5 DEF Envid2Env, SafeInv, IdleInv
<1>6. QED
  BY <1>1, <1>2, <1>3, <1>5

-----------------------------------------------------------------------------
\* One lemma per kind of kernel entry, then the induction.

\* The table i386_init leaves.
LEMMA InitSafe == Init => SafeInv
<1> SUFFICES ASSUME Init PROVE SafeInv
  OBVIOUS
<1>1. NBoot \in Nat /\ NBoot <= NENV /\ NCPU <= NBoot
  BY SizeAssumption DEF NBoot
<1>2. env_free_list \in Seq(Slots) /\ Len(env_free_list) = NENV - NBoot
  BY <1>1, SizeAssumption DEF Init, Slots
<1>3. \A i \in 1 .. NENV - NBoot : env_free_list[i] = NBoot + i - 1
  BY <1>1, SizeAssumption DEF Init
<1>4. FreeListUnique
  BY <1>1, <1>2, <1>3, SizeAssumption DEF FreeListUnique
<1>5. \A s \in CPUs : ~OnFreeList(s)
  BY <1>1, <1>2, <1>3, SizeAssumption DEF OnFreeList, CPUs
<1>6. env_type \in [Slots -> Types]
  <2>1. ASSUME NEW s \in Slots, ~(s < NCPU), s < NBoot PROVE BootTypes[s - NCPU + 1] \in Types
    BY <2>1, <1>1, SizeAssumption DEF Slots, NBoot, Types
  <2>2. QED
    BY <2>1 DEF Init, Types
<1>7. TypeOK
  <2>1. env_status \in [Slots -> Statuses] /\ env_gen \in [Slots -> 0 .. MaxGen]
    BY SizeAssumption DEF Init, Statuses
  <2>2. /\ env_parent_id \in [Slots -> SlotIds \cup {NoId}]
        /\ env_ipc_recving \in [Slots -> BOOLEAN]
        /\ env_ipc_from \in [Slots -> SlotIds \cup {NoId}]
        /\ env_ipc_perm \in [Slots -> Perms \cup {"0"}]
        /\ env_ipc_dstva \in [Slots -> DstVas \cup {"utop"}]
        /\ env_ipc_page \in [Slots -> BOOLEAN]
        /\ curenv \in [CPUs -> Slots \cup {NoEnv}]
        /\ kernel \in Kernels
    BY DEF Init, Kernels
  <2>3. QED
    BY <1>2, <1>6, <2>1, <2>2 DEF TypeOK
<1>8. IdleInv
  <2>1. ASSUME NEW i \in CPUs
        PROVE  /\ env_type[i] = "IDLE" /\ env_status[i] = "RUNNABLE"
               /\ ~env_ipc_recving[i] /\ env_parent_id[i] = NoId
    <3>1. i \in Slots /\ i < NCPU /\ i < NBoot
      BY <1>1, CpuIsSlot, SizeAssumption DEF CPUs
    <3>2. QED
      BY <3>1 DEF Init
  <2>2. \A i, c \in CPUs : curenv[c] # i
    BY CpuIsSlot, NoEnvAssumption DEF Init
  <2>3. QED
    BY <1>5, <2>1, <2>2 DEF IdleInv, IdleReady
<1>9. QED
  BY <1>4, <1>7, <1>8 DEF SafeInv

\* mp_main and i386_init enter the scheduler.
LEMMA BootStep ==
  ASSUME SafeInv, NEW c \in CPUs, Boot(c) PROVE SafeInv'
BY SchedYieldEffect, QuietStep DEF Boot, SafeInv, TypeOK

\* A timer interrupt, or any other trap of a zombie.
LEMMA TimerStep ==
  ASSUME SafeInv, NEW c \in CPUs, Timer(c) PROVE SafeInv'
<1>1. CASE CollectZombie(c)
  <2>1. curenv[c] \in Slots /\ env_status[curenv[c]] = "DYING"
    BY <1>1 DEF CollectZombie, InUser, Zombie, SafeInv, TypeOK
  <2>2. curenv[c] \notin CPUs
    BY <2>1 DEF SafeInv, IdleInv, IdleReady
  <2>3. Freed(curenv[c]) \in [Slots -> Statuses]
    BY DEF Freed, SafeInv, TypeOK, Statuses
  <2>4. CASE NullPgdir(c, curenv[c])
    BY <1>1, <2>1, <2>2, <2>4, NullPgdirEffect, DestroyStep DEF CollectZombie, SafeInv
  <2>5. CASE /\ ~OnFreeList(curenv[c]) /\ EnvFree(curenv[c])
             /\ SchedYield(c, Freed(curenv[c]), NoEnv)
    <3>1. Effect(c, Freed(curenv[c]), NoEnv)
      BY <2>3, <2>5, SchedYieldEffect DEF SafeInv
    <3>2. DestroyEffect(c, curenv[c])
      BY <2>1, <2>5, <3>1, FreeEffect DEF SafeInv
    <3>3. QED
      BY <1>1, <2>1, <2>2, <3>2, DestroyStep DEF CollectZombie
  <2>6. QED
    BY <1>1, <2>4, <2>5 DEF CollectZombie
<1>2. CASE /\ Enter(c, "trap")
           /\ \/ SchedYield(c, env_status, curenv[c])
              \/ Stop(c, env_status, curenv[c], "clock_overflow")
           /\ UNCHANGED <<idVars, ipcVars, env_free_list>>
  <2>1. Effect(c, env_status, curenv[c])
    BY <1>2, SchedYieldEffect, StopEffect DEF SafeInv, TypeOK, Kernels
  <2>2. QED
    BY <1>2, <2>1, QuietStep
<1>3. QED
  BY <1>1, <1>2 DEF Timer, Tick, ClockOverflow

\* Calls that leave everything but the scheduling alone.
LEMMA QuietCalls ==
  ASSUME SafeInv, NEW c \in CPUs, NEW via \in Vias,
         SysOther(c, via) \/ SysSbrk(c, via) \/ SysYield(c, via)
  PROVE  SafeInv'
<1>1. curenv[c] \in Slots
  BY DEF SysOther, SysSbrk, SysYield, Call, Enter, InUser, SafeInv, TypeOK
<1>2. Effect(c, env_status, curenv[c])
  BY <1>1, ReturnEffect, SchedYieldEffect, StopEffect
     DEF SysOther, SysSbrk, SysYield, SafeInv, TypeOK, Kernels
<1>3. QED
  BY <1>2, QuietStep DEF SysOther, SysSbrk, SysYield

\* The ways an environment is destroyed: by an exception or by a system call.
LEMMA DestroyCalls ==
  ASSUME SafeInv, NEW c \in CPUs, NEW via \in Vias,
         \/ Fault(c, via)
         \/ \E envid \in EnvIds \cup {NoId} : SysEnvDestroy(c, via, envid)
  PROVE  SafeInv'
<1>1. CASE Fault(c, via)
  <2>1. curenv[c] \in Slots \ CPUs
    BY <1>1 DEF Fault, Call, Enter, InUser, SafeInv, TypeOK, IdleInv, IdleReady
  <2>2. QED
    BY <1>1, <2>1, EnvDestroyEffect, DestroyStep DEF Fault, SafeInv
<1>2. ASSUME NEW envid \in EnvIds \cup {NoId}, SysEnvDestroy(c, via, envid) PROVE SafeInv'
  <2>1. PICK e \in Envid2Env(c, envid, TRUE) : EnvDestroy(c, via, e)
    BY <1>2 DEF SysEnvDestroy
  <2>2. Call(c, via) /\ UNCHANGED <<idVars, ipcVars>>
    BY <1>2 DEF SysEnvDestroy
  <2>3. curenv[c] \in Slots /\ e \in Slots \ CPUs
    BY <2>2, EnvidResolves
  <2>4. QED
    BY <2>1, <2>2, <2>3, EnvDestroyEffect, DestroyStep DEF SafeInv
<1>3. QED
  BY <1>1, <1>2

\* A handler that changes the status of one environment that is not an idle one
\* and leaves the free list and the identities alone.
LEMMA StatusStep ==
  ASSUME SafeInv, NEW c \in CPUs, curenv[c] \in Slots, NEW e \in Slots \ CPUs,
         NEW st \in [Slots -> Statuses], \A s \in Slots \ {e} : st[s] = env_status[s],
         Effect(c, st, curenv[c]),
         UNCHANGED <<idVars, env_free_list>>,
         env_ipc_recving' \in [Slots -> BOOLEAN],
         env_ipc_from' \in [Slots -> SlotIds \cup {NoId}],
         env_ipc_perm' \in [Slots -> Perms \cup {"0"}],
         env_ipc_dstva' \in [Slots -> DstVas \cup {"utop"}],
         env_ipc_page' \in [Slots -> BOOLEAN],
         \A i \in CPUs : ~env_ipc_recving'[i]
  PROVE  SafeInv'
<1> USE DEF SafeInv, idVars
<1>1. TypeOK'
  BY DEF TypeOK, Effect
<1>2. IdleInv'
  <2>1. IdleReady'
    BY CpuIsSlot, IdleKept DEF Effect
  <2>2. QED
    BY <2>1 DEF IdleInv, OnFreeList
<1>3. FreeListUnique'
  BY DEF FreeListUnique
<1>4. QED
  BY <1>1, <1>2, <1>3

\* sys_env_set_status moves nobody's idle environment.
LEMMA SetStatusStep ==
  ASSUME SafeInv, NEW c \in CPUs, NEW via \in Vias, NEW envid \in EnvIds \cup {NoId},
         NEW status \in Statuses, SysEnvSetStatus(c, via, envid, status)
  PROVE  SafeInv'
<1>1. PICK e \in Envid2Env(c, envid, TRUE) : Return(c, via, [env_status EXCEPT ![e] = status])
  BY DEF SysEnvSetStatus
<1>2. Call(c, via) /\ UNCHANGED <<idVars, ipcVars, env_free_list>>
  BY DEF SysEnvSetStatus
<1>3. curenv[c] \in Slots /\ e \in Slots \ CPUs
  BY <1>2, EnvidResolves
<1> DEFINE st == [env_status EXCEPT ![e] = status]
<1>4. st \in [Slots -> Statuses] /\ \A s \in Slots \ {e} : st[s] = env_status[s]
  BY DEF SafeInv, TypeOK
<1>5. Effect(c, st, curenv[c])
  BY <1>1, <1>3, <1>4, ReturnEffect DEF SafeInv
<1> HIDE DEF st
<1>6. QED
  BY <1>2, <1>3, <1>4, <1>5, StatusStep DEF ipcVars, SafeInv, TypeOK, IdleInv

\* sys_ipc_recv blocks a program, never an idle environment.
LEMMA RecvStep ==
  ASSUME SafeInv, NEW c \in CPUs, NEW via \in Vias, NEW dstva \in DstVas,
         SysIpcRecv(c, via, dstva)
  PROVE  SafeInv'
<1> DEFINE e == curenv[c]
           st == [env_status EXCEPT ![e] = "NOT_RUNNABLE"]
<1>1. e \in Slots \ CPUs
  BY DEF SysIpcRecv, Call, Enter, InUser, SafeInv, TypeOK, IdleInv, IdleReady
<1>2. st \in [Slots -> Statuses] /\ \A s \in Slots \ {e} : st[s] = env_status[s]
  BY DEF SafeInv, TypeOK, Statuses
<1>3. SchedYield(c, st, e)
  BY DEF SysIpcRecv
<1>4. Effect(c, st, e)
  BY <1>1, <1>2, <1>3, SchedYieldEffect DEF SafeInv
<1>5. /\ env_ipc_dstva' = [env_ipc_dstva EXCEPT ![e] = dstva]
      /\ env_ipc_from' = [env_ipc_from EXCEPT ![e] = NoId]
      /\ env_ipc_recving' = [env_ipc_recving EXCEPT ![e] = TRUE]
      /\ UNCHANGED <<idVars, env_ipc_perm, env_ipc_page, env_free_list>>
  BY DEF SysIpcRecv
<1> HIDE DEF st
<1>6. QED
  BY <1>1, <1>2, <1>4, <1>5, CpuIsSlot, StatusStep DEF SafeInv, TypeOK, IdleInv

\* sys_ipc_try_send wakes only a receiver, and an idle environment is none.
LEMMA SendStep ==
  ASSUME SafeInv, NEW c \in CPUs, NEW via \in Vias, NEW envid \in EnvIds \cup {NoId},
         NEW srcva \in SrcVas, NEW perm \in Perms, SysIpcTrySend(c, via, envid, srcva, perm)
  PROVE  SafeInv'
<1>1. PICK e \in Envid2Env(c, envid, FALSE) :
        /\ env_ipc_recving[e]
        /\ \/ NullPgdir(c, e) /\ UNCHANGED <<idVars, ipcVars>>
           \/ Deliver(c, via, e, srcva, perm)
           \/ DeliverFails(c, via, e, srcva)
  BY DEF SysIpcTrySend
<1>2. curenv[c] \in Slots /\ e \in Slots
  BY EnvidResolves DEF SysIpcTrySend
<1>3. e \notin CPUs
  BY <1>1 DEF SafeInv, IdleInv
<1>4. CASE NullPgdir(c, e) /\ UNCHANGED <<idVars, ipcVars>>
  BY <1>2, <1>3, <1>4, NullPgdirEffect, DestroyStep DEF SafeInv
<1>5. CASE Deliver(c, via, e, srcva, perm)
  <2> DEFINE st == [env_status EXCEPT ![e] = "RUNNABLE"]
  <2>1. st \in [Slots -> Statuses] /\ \A s \in Slots \ {e} : st[s] = env_status[s]
    BY DEF SafeInv, TypeOK, Statuses
  <2>2. Effect(c, st, curenv[c])
    BY <1>2, <1>5, <2>1, ReturnEffect DEF Deliver, SafeInv
  <2>3. env_id(curenv[c]) \in SlotIds
    BY <1>2 DEF env_id, SlotIds, SafeInv, TypeOK
  <2>4. /\ env_ipc_recving' = [env_ipc_recving EXCEPT ![e] = FALSE]
        /\ env_ipc_from' = [env_ipc_from EXCEPT ![e] = env_id(curenv[c])]
        /\ env_ipc_perm' = [env_ipc_perm EXCEPT ![e] = perm]
        /\ env_ipc_page' = [env_ipc_page EXCEPT ![e] = (srcva = "mapped")]
        /\ UNCHANGED <<idVars, env_ipc_dstva, env_free_list>>
    BY <1>5 DEF Deliver
  <2> HIDE DEF st
  <2>5. /\ env_ipc_recving' \in [Slots -> BOOLEAN]
        /\ \A i \in CPUs : ~env_ipc_recving'[i]
    BY <1>2, <1>3, <2>4, CpuIsSlot DEF SafeInv, TypeOK, IdleInv
  <2>6. env_ipc_from' \in [Slots -> SlotIds \cup {NoId}]
    BY <2>3, <2>4 DEF SafeInv, TypeOK
  <2>7. /\ env_ipc_perm' \in [Slots -> Perms \cup {"0"}]
        /\ env_ipc_dstva' \in [Slots -> DstVas \cup {"utop"}]
        /\ env_ipc_page' \in [Slots -> BOOLEAN]
    BY <2>4 DEF SafeInv, TypeOK
  <2>8. UNCHANGED <<idVars, env_free_list>>
    BY <2>4
  <2>9. QED
    BY <1>2, <1>3, <2>1, <2>2, <2>5, <2>6, <2>7, <2>8, StatusStep
<1>6. CASE DeliverFails(c, via, e, srcva)
  <2>1. Effect(c, env_status, curenv[c])
    BY <1>2, <1>6, ReturnEffect DEF DeliverFails, SafeInv, TypeOK
  <2>2. /\ env_ipc_perm' = [env_ipc_perm EXCEPT ![e] = "0"]
        /\ UNCHANGED <<idVars, env_ipc_recving, env_ipc_from, env_ipc_dstva,
                       env_ipc_page, env_free_list>>
    BY <1>6 DEF DeliverFails
  <2>3. QED
    BY <1>2, <1>3, <2>1, <2>2, StatusStep DEF SafeInv, TypeOK, IdleInv
<1>7. QED
  BY <1>1, <1>4, <1>5, <1>6

\* sys_exofork takes the head of the free list, which is no idle environment.
LEMMA ExoforkStep ==
  ASSUME SafeInv, NEW c \in CPUs, NEW via \in Vias, SysExofork(c, via)
  PROVE  SafeInv'
<1> DEFINE e == Head(env_free_list)
           st == [env_status EXCEPT ![e] = "NOT_RUNNABLE"]
<1>1. curenv[c] \in Slots
  BY DEF SysExofork, Call, Enter, InUser, SafeInv, TypeOK
<1>2. env_free_list \in Seq(Slots) /\ env_free_list # << >> /\ Unique(env_free_list)
  BY FreeListSeq DEF SysExofork, SafeInv, TypeOK
<1>3. /\ e \in Slots /\ InSeq(env_free_list, e)
      /\ Tail(env_free_list) \in Seq(Slots) /\ Unique(Tail(env_free_list))
      /\ \A s : InSeq(Tail(env_free_list), s) <=> s # e /\ InSeq(env_free_list, s)
  BY <1>2, PopUnique
<1>4. e \notin CPUs
  BY <1>3, FreeListSeq DEF SafeInv, IdleInv
<1>5. st \in [Slots -> Statuses] /\ \A s \in Slots \ {e} : st[s] = env_status[s]
  BY DEF SafeInv, TypeOK, Statuses
<1>6. /\ env_gen' = [env_gen EXCEPT ![e] = NextGen(@)]
      /\ env_parent_id' = [env_parent_id EXCEPT ![e] = env_id(curenv[c])]
      /\ env_type' = [env_type EXCEPT ![e] = "USER"]
      /\ env_ipc_recving' = [env_ipc_recving EXCEPT ![e] = FALSE]
      /\ Return(c, via, st)
      /\ env_free_list' = Tail(env_free_list)
      /\ UNCHANGED <<env_ipc_from, env_ipc_perm, env_ipc_dstva, env_ipc_page>>
  BY DEF SysExofork
<1>7. Effect(c, st, curenv[c])
  BY <1>1, <1>5, <1>6, ReturnEffect DEF SafeInv
<1> HIDE DEF st, e
<1>8. FreeListUnique' /\ \A s : OnFreeList(s)' => OnFreeList(s)
  BY <1>3, <1>6 DEF FreeListUnique, Unique, OnFreeList, InSeq
<1>9. TypeOK'
  <2>1. env_id(curenv[c]) \in SlotIds
    BY <1>1 DEF env_id, SlotIds, SafeInv, TypeOK
  <2>2. NextGen(env_gen[e]) \in 0 .. MaxGen
    BY <1>3, SizeAssumption DEF NextGen, SafeInv, TypeOK
  <2>3. env_gen' \in [Slots -> 0 .. MaxGen] /\ env_parent_id' \in [Slots -> SlotIds \cup {NoId}]
    BY <1>6, <2>1, <2>2 DEF SafeInv, TypeOK
  <2>4. env_type' \in [Slots -> Types] /\ env_ipc_recving' \in [Slots -> BOOLEAN]
    BY <1>6 DEF SafeInv, TypeOK, Types
  <2>5. QED
    BY <1>3, <1>6, <1>7, <2>3, <2>4 DEF SafeInv, TypeOK, Effect
<1>10. IdleInv'
  <2>1. \A i \in CPUs : i \in Slots \ {e}
    BY <1>4, CpuIsSlot
  <2>2. \A i \in CPUs : env_type'[i] = env_type[i]
    BY <1>6, <2>1 DEF SafeInv, TypeOK
  <2>3. IdleReady'
    BY <1>5, <1>7, <2>1, <2>2, IdleKept DEF SafeInv, Effect
  <2>4. ASSUME NEW i \in CPUs PROVE ~env_ipc_recving'[i] /\ env_parent_id'[i] = NoId
    BY <1>6, <2>1 DEF SafeInv, TypeOK, IdleInv
  <2>5. \A i \in CPUs : ~OnFreeList(i)'
    BY <1>8 DEF SafeInv, IdleInv
  <2>6. QED
    BY <2>3, <2>4, <2>5 DEF IdleInv
<1>11. QED
  BY <1>8, <1>9, <1>10 DEF SafeInv

-----------------------------------------------------------------------------

\* The steps that polite and other programs share.
LEMMA CommonStep ==
  ASSUME SafeInv, NEW c \in CPUs, Common(c) PROVE SafeInv'
<1>1. CASE Boot(c) \/ Timer(c)
  BY <1>1, BootStep, TimerStep
<1>2. ASSUME NEW via \in Vias, \/ Fault(c, via) \/ SysOther(c, via) \/ SysSbrk(c, via)
                                \/ SysYield(c, via) \/ SysExofork(c, via)
      PROVE  SafeInv'
  BY <1>2, DestroyCalls, QuietCalls, ExoforkStep
<1>3. ASSUME NEW via \in Vias, NEW dstva \in DstVas, SysIpcRecv(c, via, dstva) PROVE SafeInv'
  BY <1>3, RecvStep
<1>4. ASSUME NEW via \in Vias, NEW envid \in EnvIds \cup {NoId}, NEW srcva \in SrcVas,
             NEW perm \in Perms, SysIpcTrySend(c, via, envid, srcva, perm)
      PROVE  SafeInv'
  BY <1>4, SendStep
<1>5. QED
  BY <1>1, <1>2, <1>3, <1>4 DEF Common

\* Every visit to the kernel keeps the invariant.
LEMMA NextStep == SafeInv /\ [Next]_vars => SafeInv'
<1> SUFFICES ASSUME SafeInv, [Next]_vars PROVE SafeInv'
  OBVIOUS
<1>1. ASSUME NEW c \in CPUs, Common(c) PROVE SafeInv'
  BY <1>1, CommonStep
<1>2. ASSUME NEW c \in CPUs, NEW via \in Vias, NEW envid \in EnvIds \cup {NoId},
             SysEnvDestroy(c, via, envid)
      PROVE  SafeInv'
  BY <1>2, DestroyCalls
<1>3. ASSUME NEW c \in CPUs, NEW via \in Vias, NEW envid \in EnvIds \cup {NoId},
             NEW status \in Statuses, SysEnvSetStatus(c, via, envid, status)
      PROVE  SafeInv'
  BY <1>3, SetStatusStep
<1>4. CASE UNCHANGED vars
  BY <1>4 DEF vars, idVars, ipcVars, SafeInv, TypeOK, IdleInv, IdleReady, FreeListUnique, OnFreeList
<1>5. QED
  BY <1>1, <1>2, <1>3, <1>4 DEF Next, Visit

\* The invariant holds in every state of every behaviour, for any table, any
\* number of CPUs and any programs.
THEOREM Safety == Spec => []SafeInv
<1>1. Init => SafeInv
  BY InitSafe
<1>2. SafeInv /\ [Next]_vars => SafeInv'
  BY NextStep
<1>3. QED
  BY <1>1, <1>2, PTL DEF Spec

\* The table and the CPUs only ever hold values of their types.
THEOREM TypeCorrect == Spec => []TypeOK
<1>1. SafeInv => TypeOK
  BY DEF SafeInv
<1>2. QED
  BY <1>1, Safety, PTL

\* env_free_list never holds a slot twice, whatever programs destroy, so that
\* env_alloc never hands one slot to two creators.
THEOREM FreeListSound == Spec => []FreeListUnique
<1>1. SafeInv => FreeListUnique
  BY DEF SafeInv
<1>2. QED
  BY <1>1, Safety, PTL

\* sched_yield always finds this CPU's own idle environment to run: its
\* "No idle environment!" panic is unreachable, for any programs.
THEOREM IdleAlwaysReady == Spec => []IdleReady
<1>1. SafeInv => IdleReady
  BY DEF SafeInv, IdleInv
<1>2. QED
  BY <1>1, Safety, PTL

-----------------------------------------------------------------------------
\* What a step may never do.

\* A message is only replaced by its receiver's next sys_ipc_recv, whoever
\* sends, forks, destroys or sets statuses meanwhile.
LEMMA MessageStep ==
  ASSUME SafeInv, [Next]_vars, NEW s \in Slots
  PROVE  KeepsMessage(s)
<1>1. CASE UNCHANGED <<env_ipc_from, env_ipc_perm, env_ipc_page>>
  BY <1>1 DEF KeepsMessage
<1>2. ASSUME NEW c \in CPUs, NEW via \in Vias, NEW dstva \in DstVas, SysIpcRecv(c, via, dstva)
      PROVE  KeepsMessage(s)
  BY <1>2 DEF SysIpcRecv, KeepsMessage, SafeInv, TypeOK
<1>3. ASSUME NEW c \in CPUs, NEW via \in Vias, NEW envid \in EnvIds \cup {NoId},
             NEW srcva \in SrcVas, NEW perm \in Perms, SysIpcTrySend(c, via, envid, srcva, perm)
      PROVE  KeepsMessage(s)
  BY <1>1, <1>3 DEF SysIpcTrySend, Deliver, DeliverFails, KeepsMessage, ipcVars, SafeInv, TypeOK
<1>4. ASSUME NEW c \in CPUs, NEW via \in Vias,
             \/ Fault(c, via) \/ SysOther(c, via) \/ SysSbrk(c, via)
             \/ SysYield(c, via) \/ SysExofork(c, via)
      PROVE  KeepsMessage(s)
  BY <1>1, <1>4 DEF Fault, SysOther, SysSbrk, SysYield, SysExofork, ipcVars
<1>5. ASSUME NEW c \in CPUs, Boot(c) \/ Timer(c) PROVE KeepsMessage(s)
  BY <1>1, <1>5 DEF Boot, Timer, Tick, ClockOverflow, CollectZombie, ipcVars
<1>6. ASSUME NEW c \in CPUs, NEW via \in Vias, NEW envid \in EnvIds \cup {NoId},
             \/ SysEnvDestroy(c, via, envid)
             \/ \E status \in Statuses : SysEnvSetStatus(c, via, envid, status)
      PROVE  KeepsMessage(s)
  BY <1>1, <1>6 DEF SysEnvDestroy, SysEnvSetStatus, ipcVars
<1>7. CASE UNCHANGED vars
  BY <1>1, <1>7 DEF vars, ipcVars
<1>8. QED
  BY <1>2, <1>3, <1>4, <1>5, <1>6, <1>7 DEF Next, Visit, Common

\* No second sender overwrites a message its receiver may still read.
THEOREM MessagesKept == Spec => MessageKept
<1>1. SafeInv /\ [Next]_vars => [\A s \in Slots : KeepsMessage(s)]_vars
  BY MessageStep
<1>2. QED
  BY <1>1, Safety, PTL DEF Spec, MessageKept

\* What OnlyKinKill says of one CPU and one slot.
KilledByKin(c, s) ==
  Dies(s) => InUser(c) /\ (curenv[c] = s \/ env_parent_id[s] = env_id(curenv[c]))

\* A scheduling decision ends nobody's life: it kills s only if the handler did.
LEMMA EffectSpares ==
  ASSUME NEW c, NEW cur, NEW st, NEW s \in Slots, Effect(c, st, cur),
         st[s] \in {"FREE", "DYING"} => st[s] = env_status[s]
  PROVE  KilledByKin(c, s)
BY DEF Effect, KilledByKin, Dies

\* env_destroy ends only the life of its argument.
LEMMA DestroySpares ==
  ASSUME NEW c \in CPUs, NEW e \in Slots, InUser(c), DestroyEffect(c, e),
         e = curenv[c] \/ env_parent_id[e] = env_id(curenv[c]), NEW s \in Slots
  PROVE  KilledByKin(c, s)
BY DEF DestroyEffect, KilledByKin, Dies

\* Whoever envid2env resolves with checkperm is the caller or its child.
LEMMA Kin ==
  ASSUME NEW c, NEW envid, NEW e \in Envid2Env(c, envid, TRUE)
  PROVE  e = curenv[c] \/ env_parent_id[e] = env_id(curenv[c])
BY DEF Envid2Env

\* Whatever sched_yield, or the end of the handler, was given: c kills nobody
\* the handler did not.
LEMMA ScheduleSpares ==
  ASSUME SafeInv, NEW c \in CPUs, curenv[c] \in Slots, NEW via \in Vias,
         NEW st \in [Slots -> Statuses], SchedYield(c, st, curenv[c]) \/ Return(c, via, st),
         NEW s \in Slots, st[s] \in {"FREE", "DYING"} => st[s] = env_status[s]
  PROVE  KilledByKin(c, s)
BY SchedYieldEffect, ReturnEffect, EffectSpares DEF SafeInv

\* Boot and the timer, with the zombie it may collect.
LEMMA TimerKin ==
  ASSUME SafeInv, NEW c \in CPUs, Boot(c) \/ Timer(c), NEW s \in Slots
  PROVE  KilledByKin(c, s)
<1> USE DEF SafeInv
<1>1. CASE UNCHANGED env_status
  BY <1>1 DEF KilledByKin, Dies
<1>2. CASE SchedYield(c, env_status, curenv[c])
  BY <1>2, SchedYieldEffect, EffectSpares DEF TypeOK
<1>3. CASE CollectZombie(c)
  <2>1. InUser(c) /\ curenv[c] \in Slots
    BY <1>3 DEF CollectZombie, InUser, TypeOK
  <2>2. CASE NullPgdir(c, curenv[c])
    BY <1>1, <2>2 DEF NullPgdir, Stop
  <2>3. CASE /\ ~OnFreeList(curenv[c]) /\ EnvFree(curenv[c])
             /\ SchedYield(c, Freed(curenv[c]), NoEnv)
    <3>1. Freed(curenv[c]) \in [Slots -> Statuses]
      BY DEF Freed, TypeOK, Statuses
    <3>2. DestroyEffect(c, curenv[c])
      BY <2>1, <2>3, <3>1, SchedYieldEffect, FreeEffect
    <3>3. QED
      BY <2>1, <3>2, DestroySpares
  <2>4. QED
    BY <1>3, <2>2, <2>3 DEF CollectZombie
<1>4. CASE Stop(c, env_status, curenv[c], "clock_overflow")
  BY <1>1, <1>4 DEF Stop
<1>5. QED
  BY <1>2, <1>3, <1>4 DEF Boot, Timer, Tick, ClockOverflow

\* The caller's death by an exception, and sys_env_destroy.
LEMMA DestroyKin ==
  ASSUME SafeInv, NEW c \in CPUs, NEW via \in Vias, NEW s \in Slots,
         \/ Fault(c, via)
         \/ \E envid \in EnvIds \cup {NoId} : SysEnvDestroy(c, via, envid)
  PROVE  KilledByKin(c, s)
<1>1. CASE Fault(c, via)
  <2>1. InUser(c) /\ curenv[c] \in Slots
    BY <1>1 DEF Fault, Call, Enter, InUser, SafeInv, TypeOK
  <2>2. QED
    BY <1>1, <2>1, EnvDestroyEffect, DestroySpares DEF Fault, SafeInv
<1>2. ASSUME NEW envid \in EnvIds \cup {NoId}, SysEnvDestroy(c, via, envid)
      PROVE  KilledByKin(c, s)
  <2>1. PICK e \in Envid2Env(c, envid, TRUE) : EnvDestroy(c, via, e)
    BY <1>2 DEF SysEnvDestroy
  <2>2. Call(c, via) /\ InUser(c)
    BY <1>2 DEF SysEnvDestroy, Call, Enter
  <2>3. curenv[c] \in Slots /\ e \in Slots
    BY <2>2, EnvidResolves
  <2>4. e = curenv[c] \/ env_parent_id[e] = env_id(curenv[c])
    BY Kin
  <2>5. QED
    BY <2>1, <2>2, <2>3, <2>4, EnvDestroyEffect, DestroySpares DEF SafeInv
<1>3. QED
  BY <1>1, <1>2

\* sys_env_set_status, which may set any status a program asks for.
LEMMA SetStatusKin ==
  ASSUME SafeInv, NEW c \in CPUs, NEW via \in Vias, NEW envid \in EnvIds \cup {NoId},
         NEW status \in Statuses, SysEnvSetStatus(c, via, envid, status), NEW s \in Slots
  PROVE  KilledByKin(c, s)
<1> USE DEF SafeInv
<1>1. PICK e \in Envid2Env(c, envid, TRUE) : Return(c, via, [env_status EXCEPT ![e] = status])
  BY DEF SysEnvSetStatus
<1>2. Call(c, via) /\ InUser(c)
  BY DEF SysEnvSetStatus, Call, Enter
<1>3. curenv[c] \in Slots /\ e \in Slots
  BY <1>2, EnvidResolves
<1>4. e = curenv[c] \/ env_parent_id[e] = env_id(curenv[c])
  BY Kin
<1>5. [env_status EXCEPT ![e] = status] \in [Slots -> Statuses]
  BY DEF TypeOK
<1>6. Effect(c, [env_status EXCEPT ![e] = status], curenv[c])
  BY <1>1, <1>3, <1>5, ReturnEffect
<1>7. s # e => env_status'[s] = env_status[s] \/ env_status'[s] \in {"RUNNABLE", "RUNNING"}
  BY <1>3, <1>6 DEF Effect, TypeOK
<1>8. QED
  BY <1>2, <1>4, <1>7 DEF KilledByKin, Dies

\* The other system calls kill nobody.
LEMMA CallKin ==
  ASSUME SafeInv, NEW c \in CPUs, NEW via \in Vias, NEW s \in Slots,
         \/ SysOther(c, via) \/ SysSbrk(c, via) \/ SysYield(c, via) \/ SysExofork(c, via)
         \/ \E dstva \in DstVas : SysIpcRecv(c, via, dstva)
         \/ \E envid \in EnvIds \cup {NoId}, srcva \in SrcVas, perm \in Perms :
              SysIpcTrySend(c, via, envid, srcva, perm)
  PROVE  KilledByKin(c, s)
<1> USE DEF SafeInv
<1>0. curenv[c] \in Slots
  BY DEF SysOther, SysSbrk, SysYield, SysExofork, SysIpcRecv, SysIpcTrySend,
         Call, Enter, InUser, TypeOK
<1>1. CASE UNCHANGED env_status
  BY <1>1 DEF KilledByKin, Dies
<1>2. ASSUME NEW e \in Slots, NEW status \in {"RUNNABLE", "NOT_RUNNABLE"}
      PROVE  LET st == [env_status EXCEPT ![e] = status]
             IN  /\ st \in [Slots -> Statuses]
                 /\ st[s] \in {"FREE", "DYING"} => st[s] = env_status[s]
  BY DEF TypeOK, Statuses
<1>3. CASE SysOther(c, via) \/ SysSbrk(c, via) \/ SysYield(c, via)
  <2>1. CASE Stop(c, env_status, curenv[c], "no_memory")
    BY <1>1, <2>1 DEF Stop
  <2>2. CASE Return(c, via, env_status) \/ SchedYield(c, env_status, curenv[c])
    BY <1>0, <2>2, ScheduleSpares DEF TypeOK
  <2>3. QED
    BY <1>3, <2>1, <2>2 DEF SysOther, SysSbrk, SysYield
<1>4. CASE SysExofork(c, via)
  <2>1. /\ Return(c, via, [env_status EXCEPT ![Head(env_free_list)] = "NOT_RUNNABLE"])
        /\ env_free_list # << >>
    BY <1>4 DEF SysExofork
  <2>2. Head(env_free_list) \in Slots
    BY <2>1 DEF TypeOK
  <2>3. QED
    BY <1>0, <1>2, <2>1, <2>2, ScheduleSpares
<1>5. ASSUME NEW dstva \in DstVas, SysIpcRecv(c, via, dstva) PROVE KilledByKin(c, s)
  <2>1. SchedYield(c, [env_status EXCEPT ![curenv[c]] = "NOT_RUNNABLE"], curenv[c])
    BY <1>5 DEF SysIpcRecv
  <2>2. QED
    BY <1>0, <1>2, <2>1, ScheduleSpares
<1>6. ASSUME NEW envid \in EnvIds \cup {NoId}, NEW srcva \in SrcVas, NEW perm \in Perms,
             SysIpcTrySend(c, via, envid, srcva, perm)
      PROVE  KilledByKin(c, s)
  <2>1. PICK e \in Envid2Env(c, envid, FALSE) :
          \/ NullPgdir(c, e)
          \/ Return(c, via, [env_status EXCEPT ![e] = "RUNNABLE"])
          \/ Return(c, via, env_status)
    BY <1>6 DEF SysIpcTrySend, Deliver, DeliverFails
  <2>2. e \in Slots
    BY <1>6, EnvidResolves DEF SysIpcTrySend
  <2>3. CASE NullPgdir(c, e)
    BY <1>1, <2>3 DEF NullPgdir, Stop
  <2>4. CASE Return(c, via, [env_status EXCEPT ![e] = "RUNNABLE"])
    BY <1>0, <1>2, <2>2, <2>4, ScheduleSpares
  <2>5. CASE Return(c, via, env_status)
    BY <1>0, <2>5, ScheduleSpares DEF TypeOK
  <2>6. QED
    BY <2>1, <2>3, <2>4, <2>5
<1>7. QED
  BY <1>3, <1>4, <1>5, <1>6

\* A visit of c ends no life but its own environment's or that one's child's.
LEMMA VisitKin ==
  ASSUME SafeInv, NEW c \in CPUs, Visit(c), NEW s \in Slots
  PROVE  KilledByKin(c, s)
<1>1. CASE Common(c)
  BY <1>1, TimerKin, DestroyKin, CallKin DEF Common
<1>2. ASSUME NEW via \in Vias, NEW envid \in EnvIds \cup {NoId},
             \/ SysEnvDestroy(c, via, envid)
             \/ \E status \in Statuses : SysEnvSetStatus(c, via, envid, status)
      PROVE  KilledByKin(c, s)
  BY <1>2, DestroyKin, SetStatusKin
<1>3. QED
  BY <1>1, <1>2 DEF Visit

\* An environment's life is ended by itself or by its creator, from the CPU that
\* runs it, never by another program, a stale envid or the scheduler.
THEOREM KinKill == Spec => OnlyKinKill
<1> DEFINE ByKin == \A s \in Slots, c \in CPUs :
                      Dies(s) /\ Visit(c) =>
                        InUser(c) /\ (curenv[c] = s \/ env_parent_id[s] = env_id(curenv[c]))
<1>1. SafeInv => ByKin
  BY VisitKin DEF KilledByKin
<1>2. SafeInv /\ [Next]_vars => [ByKin]_vars
  BY <1>1
<1>3. QED
  BY <1>2, Safety, PTL DEF Spec, OnlyKinKill

-----------------------------------------------------------------------------
(* What holds when the programs keep to the discipline of lib/ and user/    *)
(* (PoliteSpec).                                                            *)

\* What a handler must have set up when it enters the scheduler on CPU c with
\* the table st and the current environment cur.
Ready(c, st, cur) ==
  /\ \A d \in CPUs \ {c} : curenv[d] # NoEnv =>
       /\ st[curenv[d]] \in {"RUNNING", "DYING"}
       /\ curenv[d] # cur
       /\ \A b \in CPUs \ {c} : curenv[b] = curenv[d] => b = d
  /\ \A s \in Slots : st[s] = "RUNNING" => s = cur \/ \E d \in CPUs \ {c} : curenv[d] = s
  /\ cur # NoEnv => st[cur] # "RUNNABLE"
  /\ \A s \in Slots : OnFreeList(s) => st[s] \notin {"RUNNABLE", "RUNNING"}
  /\ st[c] \in {"RUNNABLE", "RUNNING"}

\* env_run of what is runnable, or again of what was running, keeps the CPUs
\* and the table in agreement and finds a page directory.
LEMMA EnvRunAgrees ==
  ASSUME SafeInv, kernel = "up", NEW c \in CPUs, NEW cur \in Slots \cup {NoEnv},
         NEW st \in [Slots -> Statuses], Ready(c, st, cur),
         NEW e \in Slots, EnvRun(c, st, cur, e),
         IF e = cur THEN st[e] = "RUNNING" ELSE st[e] = "RUNNABLE"
  PROVE  OneCpu' /\ kernel' = "up"
<1>1. kernel' = "up"
  BY DEF EnvRun, Ready
<1>2. curenv' = [curenv EXCEPT ![c] = e] /\ curenv'[c] = e /\ e # NoEnv
  BY NoEnvAssumption DEF EnvRun, SafeInv, TypeOK
<1>3. \A d \in CPUs \ {c} : curenv'[d] = curenv[d] /\ curenv[d] \in Slots \cup {NoEnv}
  BY DEF EnvRun, SafeInv, TypeOK
<1>4. \A d \in CPUs \ {c} : curenv[d] # NoEnv => curenv[d] # e
  BY DEF Ready
<1>5. env_status'[e] = "RUNNING"
  BY DEF EnvRun
<1>6. \A d \in CPUs \ {c} : curenv[d] # NoEnv => env_status'[curenv[d]] = st[curenv[d]]
  BY <1>3, <1>4 DEF EnvRun, Ready
<1>7. ASSUME NEW d \in CPUs, curenv'[d] # NoEnv
      PROVE  /\ env_status'[curenv'[d]] \in {"RUNNING", "DYING"}
             /\ \A b \in CPUs : curenv'[b] = curenv'[d] => b = d
  <2>1. CASE d = c
    BY <1>2, <1>3, <1>4, <1>5, <2>1
  <2>2. CASE d # c
    BY <1>2, <1>3, <1>4, <1>6, <1>7, <2>2 DEF Ready
  <2>3. QED
    BY <2>1, <2>2
<1>8. ASSUME NEW s \in Slots, env_status'[s] = "RUNNING" PROVE \E d \in CPUs : curenv'[d] = s
  <2>1. CASE s = e
    BY <1>2, <2>1
  <2>2. CASE s # e
    <3>1. st[s] = "RUNNING" /\ s # cur
      BY <1>8, <2>2 DEF EnvRun
    <3>2. QED
      BY <1>3, <3>1 DEF Ready
  <2>3. QED
    BY <2>1, <2>2
<1>9. QED
  BY <1>1, <1>7, <1>8 DEF OneCpu

\* sched_yield keeps that agreement, or stops in the monitor.
LEMMA SchedYieldAgrees ==
  ASSUME SafeInv, kernel = "up", NEW c \in CPUs, NEW cur \in Slots \cup {NoEnv},
         NEW st \in [Slots -> Statuses], Ready(c, st, cur), SchedYield(c, st, cur)
  PROVE  OneCpu' /\ kernel' # "panic"
<1>1. ASSUME NEW s \in Slots, First(st, cur, s), EnvRun(c, st, cur, s)
      PROVE  OneCpu' /\ kernel' # "panic"
  BY <1>1, EnvRunAgrees DEF First, Candidates
<1>2. CASE cur # NoEnv /\ st[cur] = "RUNNING" /\ EnvRun(c, st, cur, cur)
  BY <1>2, EnvRunAgrees
<1>3. CASE (cur = NoEnv \/ st[cur] # "RUNNING") /\ RunIdle(c, st, cur)
  <2>1. CASE Stop(c, st, cur, "monitor")
    BY <2>1 DEF Stop, OneCpu
  <2>2. CASE EnvRun(c, st, cur, c)
    <3>1. c \in Slots /\ c # NoEnv
      BY CpuIsSlot, NoEnvAssumption
    <3>2. cur # c
      BY <1>3, <3>1 DEF Ready
    <3>3. \A d \in CPUs \ {c} : curenv[d] # c
      BY DEF SafeInv, IdleInv, IdleReady
    <3>4. st[c] = "RUNNABLE"
      BY <3>1, <3>2, <3>3 DEF Ready
    <3>5. QED
      BY <2>2, <3>1, <3>2, <3>4, EnvRunAgrees
  <2>3. QED
    BY <1>3, <2>1, <2>2 DEF RunIdle, Ready
<1>4. QED
  BY <1>1, <1>2, <1>3 DEF SchedYield

\* So does returning to user mode.
LEMMA ReturnAgrees ==
  ASSUME SafeInv, kernel = "up", NEW c \in CPUs, NEW via \in Vias, curenv[c] \in Slots,
         NEW st \in [Slots -> Statuses], Ready(c, st, curenv[c]),
         st[curenv[c]] \in {"RUNNING", "DYING"}, Return(c, via, st)
  PROVE  OneCpu' /\ kernel' # "panic"
<1>1. CASE env_status' = st /\ UNCHANGED <<curenv, kernel>>
  <2>1. ASSUME NEW d \in CPUs, curenv'[d] # NoEnv
        PROVE  /\ env_status'[curenv'[d]] \in {"RUNNING", "DYING"}
               /\ \A b \in CPUs : curenv'[b] = curenv'[d] => b = d
    <3>1. CASE d = c
      BY <1>1, <2>1, <3>1, NoEnvAssumption DEF Ready
    <3>2. CASE d # c
      BY <1>1, <2>1, <3>2 DEF Ready
    <3>3. QED
      BY <3>1, <3>2
  <2>2. \A s \in Slots : env_status'[s] = "RUNNING" => \E d \in CPUs : curenv'[d] = s
    BY <1>1 DEF Ready
  <2>3. QED
    BY <1>1, <2>1, <2>2 DEF OneCpu
<1>2. CASE SchedYield(c, st, curenv[c])
  BY <1>2, SchedYieldAgrees
<1>3. QED
  BY <1>1, <1>2 DEF Return

-----------------------------------------------------------------------------
\* The invariant of PoliteSpec.

PoliteInv == SafeInv /\ OneCpu /\ BlockedInRecv /\ FreeListExact /\ OnlyResourcePanics

\* The free list and the receivers agree with the table again.
LEMMA TableAgrees ==
  ASSUME NEW c \in CPUs, NEW cur, NEW st \in [Slots -> Statuses], Effect(c, st, cur),
         \A s \in Slots : OnFreeList(s)' <=> st[s] = "FREE",
         \A s \in Slots : env_ipc_recving'[s] => st[s] \in {"NOT_RUNNABLE", "FREE"}
  PROVE  FreeListExact' /\ BlockedInRecv'
<1>1. \A s \in Slots : st[s] \notin {"RUNNABLE", "RUNNING"} => env_status'[s] = st[s]
  BY DEF Effect
<1>2. \A s \in Slots : env_status'[s] = "FREE" <=> st[s] = "FREE"
  BY DEF Effect
<1>3. QED
  BY <1>1, <1>2 DEF FreeListExact, BlockedInRecv

\* The state a handler starts from is ready for the scheduler as it is.
LEMMA StartsReady ==
  ASSUME PoliteInv, kernel = "up", NEW c \in CPUs
  PROVE  /\ Ready(c, env_status, curenv[c])
         /\ curenv[c] # NoEnv => /\ curenv[c] \in Slots
                                 /\ env_status[curenv[c]] \in {"RUNNING", "DYING"}
<1> USE DEF PoliteInv
<1>1. \A d \in CPUs \ {c} : curenv[d] # NoEnv =>
        /\ env_status[curenv[d]] \in {"RUNNING", "DYING"}
        /\ curenv[d] # curenv[c]
        /\ \A b \in CPUs \ {c} : curenv[b] = curenv[d] => b = d
  BY DEF OneCpu
<1>2. \A s \in Slots : env_status[s] = "RUNNING" =>
        s = curenv[c] \/ \E d \in CPUs \ {c} : curenv[d] = s
  BY DEF OneCpu
<1>3. curenv[c] # NoEnv => /\ curenv[c] \in Slots
                           /\ env_status[curenv[c]] \in {"RUNNING", "DYING"}
  BY DEF OneCpu, SafeInv, TypeOK
<1>4. \A s \in Slots : OnFreeList(s) => env_status[s] \notin {"RUNNABLE", "RUNNING"}
  BY DEF FreeListExact
<1>5. env_status[c] \in {"RUNNABLE", "RUNNING"}
  BY DEF SafeInv, IdleInv, IdleReady
<1>6. QED
  BY <1>1, <1>2, <1>3, <1>4, <1>5 DEF Ready

\* It stays so when the handler changes the status of an environment that no
\* CPU runs, unless it makes it RUNNING, or RUNNABLE while it is free.
LEMMA ChangeIsReady ==
  ASSUME PoliteInv, kernel = "up", NEW c \in CPUs, NEW e \in Slots \ CPUs,
         env_status[e] \notin {"RUNNING", "DYING"}, NEW status \in Statuses,
         status # "RUNNING", OnFreeList(e) => status # "RUNNABLE"
  PROVE  /\ Ready(c, [env_status EXCEPT ![e] = status], curenv[c])
         /\ \A d \in CPUs : curenv[d] # e
<1> DEFINE st == [env_status EXCEPT ![e] = status]
<1>1. Ready(c, env_status, curenv[c])
  BY StartsReady
<1>2. ASSUME NEW d \in CPUs PROVE curenv[d] # e
  BY NoEnvAssumption DEF PoliteInv, OneCpu
<1>3. st \in [Slots -> Statuses] /\ st[e] = status /\ \A s \in Slots \ {e} : st[s] = env_status[s]
  BY DEF PoliteInv, SafeInv, TypeOK
<1>4. \A d \in CPUs : curenv[d] \in Slots \cup {NoEnv}
  BY DEF PoliteInv, SafeInv, TypeOK
<1> HIDE DEF st
<1>5. \A d \in CPUs : curenv[d] # NoEnv => st[curenv[d]] = env_status[curenv[d]]
  BY <1>2, <1>3, <1>4
<1>6. c \in Slots \ {e}
  BY CpuIsSlot
<1>7. Ready(c, st, curenv[c])
  BY <1>1, <1>3, <1>5, <1>6 DEF Ready
<1>8. QED
  BY <1>2, <1>7 DEF st

\* It is ready, with no current environment, once c has freed its own.
LEMMA FreeOwnIsReady ==
  ASSUME PoliteInv, kernel = "up", NEW c \in CPUs, curenv[c] \in Slots \ CPUs
  PROVE  Ready(c, Freed(curenv[c]), NoEnv)
<1> DEFINE e == curenv[c]
           st == Freed(e)
<1>1. /\ Ready(c, env_status, e)
      /\ env_status[e] \in {"RUNNING", "DYING"}
  BY StartsReady, NoEnvAssumption
<1>2. st \in [Slots -> Statuses] /\ st[e] = "FREE" /\ \A s \in Slots \ {e} : st[s] = env_status[s]
  BY DEF Freed, PoliteInv, SafeInv, TypeOK, Statuses
<1>3. \A d \in CPUs \ {c} : curenv[d] # e /\ curenv[d] \in Slots \cup {NoEnv}
  BY NoEnvAssumption DEF PoliteInv, OneCpu, SafeInv, TypeOK
<1> HIDE DEF st
<1>4. \A d \in CPUs \ {c} : curenv[d] # NoEnv => st[curenv[d]] = env_status[curenv[d]]
  BY <1>2, <1>3
<1>5. c \in Slots \ {e}
  BY CpuIsSlot
<1>6. Ready(c, st, NoEnv)
  BY <1>1, <1>2, <1>3, <1>4, <1>5 DEF Ready
<1>7. QED
  BY <1>6 DEF st

\* It is ready once c has marked the environment of another CPU as a zombie.
LEMMA ZombieIsReady ==
  ASSUME PoliteInv, kernel = "up", NEW c \in CPUs, NEW e \in Slots \ CPUs, curenv[c] # e
  PROVE  Ready(c, [env_status EXCEPT ![e] = "DYING"], curenv[c])
<1> DEFINE st == [env_status EXCEPT ![e] = "DYING"]
<1>1. Ready(c, env_status, curenv[c])
  BY StartsReady
<1>2. st \in [Slots -> Statuses] /\ st[e] = "DYING" /\ \A s \in Slots \ {e} : st[s] = env_status[s]
  BY DEF PoliteInv, SafeInv, TypeOK, Statuses
<1>3. \A d \in CPUs : curenv[d] \in Slots \cup {NoEnv}
  BY DEF PoliteInv, SafeInv, TypeOK
<1>4. c \in Slots \ {e}
  BY CpuIsSlot
<1> HIDE DEF st
<1>5. Ready(c, st, curenv[c])
  BY <1>1, <1>2, <1>3, <1>4 DEF Ready
<1>6. QED
  BY <1>5 DEF st

-----------------------------------------------------------------------------
\* One lemma per kind of kernel entry.

\* A handler that leaves the table, the receivers and the free list alone.
LEMMA QuietPolite ==
  ASSUME PoliteInv, kernel = "up", NEW c \in CPUs,
         \/ SchedYield(c, env_status, curenv[c])
         \/ curenv[c] # NoEnv /\ \E via \in Vias : Return(c, via, env_status)
         \/ \E why \in {"no_memory", "clock_overflow"} : Stop(c, env_status, curenv[c], why),
         UNCHANGED <<env_ipc_recving, env_free_list>>
  PROVE  OneCpu' /\ BlockedInRecv' /\ FreeListExact' /\ OnlyResourcePanics'
<1>1. /\ Ready(c, env_status, curenv[c])
      /\ curenv[c] # NoEnv => /\ curenv[c] \in Slots
                              /\ env_status[curenv[c]] \in {"RUNNING", "DYING"}
  BY StartsReady
<1>2. /\ SafeInv /\ TypeOK /\ env_status \in [Slots -> Statuses]
      /\ curenv[c] \in Slots \cup {NoEnv}
  BY DEF PoliteInv, SafeInv, TypeOK
<1>3. OneCpu' /\ kernel' # "panic" /\ Effect(c, env_status, curenv[c])
  <2>1. ASSUME NEW why \in {"no_memory", "clock_overflow"},
               Stop(c, env_status, curenv[c], why)
        PROVE  OneCpu' /\ kernel' # "panic" /\ Effect(c, env_status, curenv[c])
    BY <1>2, <2>1, StopEffect DEF Stop, OneCpu, Kernels
  <2>2. QED
    BY <1>1, <1>2, <2>1, SchedYieldAgrees, ReturnAgrees, SchedYieldEffect, ReturnEffect
<1>4. \A s \in Slots : OnFreeList(s)' <=> env_status[s] = "FREE"
  BY DEF PoliteInv, FreeListExact, OnFreeList
<1>5. \A s \in Slots : env_ipc_recving'[s] => env_status[s] \in {"NOT_RUNNABLE", "FREE"}
  BY DEF PoliteInv, BlockedInRecv
<1>6. QED
  BY <1>2, <1>3, <1>4, <1>5, TableAgrees DEF OnlyResourcePanics

\* A handler that moves one environment that is not free to another status.
LEMMA MovePolite ==
  ASSUME PoliteInv, kernel = "up", NEW c \in CPUs, curenv[c] \in Slots, NEW via \in Vias,
         NEW e \in Slots \ CPUs, env_status[e] # "FREE",
         NEW status \in Statuses \ {"FREE"},
         NEW st, st = [env_status EXCEPT ![e] = status], Ready(c, st, curenv[c]),
         Return(c, via, st), st[curenv[c]] \in {"RUNNING", "DYING"},
         UNCHANGED env_free_list,
         \A s \in Slots \ {e} : env_ipc_recving'[s] = env_ipc_recving[s],
         env_ipc_recving'[e] => status = "NOT_RUNNABLE"
  PROVE  OneCpu' /\ BlockedInRecv' /\ FreeListExact' /\ OnlyResourcePanics'
<1>1. /\ st \in [Slots -> Statuses] /\ st[e] = status
      /\ \A s \in Slots \ {e} : st[s] = env_status[s]
      /\ SafeInv /\ TypeOK
  BY DEF PoliteInv, SafeInv, TypeOK
<1>2. OneCpu' /\ kernel' # "panic" /\ Effect(c, st, curenv[c])
  BY <1>1, ReturnAgrees, ReturnEffect
<1>3. \A s \in Slots : OnFreeList(s)' <=> st[s] = "FREE"
  BY <1>1 DEF PoliteInv, FreeListExact, OnFreeList
<1>4. \A s \in Slots : env_ipc_recving'[s] => st[s] \in {"NOT_RUNNABLE", "FREE"}
  BY <1>1 DEF PoliteInv, BlockedInRecv
<1>5. QED
  BY <1>1, <1>2, <1>3, <1>4, TableAgrees DEF OnlyResourcePanics

\* An env_free of an environment that is not free yet.
LEMMA FreePolite ==
  ASSUME PoliteInv, kernel = "up", NEW c \in CPUs, curenv[c] \in Slots,
         NEW e \in Slots \ CPUs, env_status[e] # "FREE", EnvFree(e),
         \/ e = curenv[c] /\ SchedYield(c, Freed(e), NoEnv)
         \/ /\ e # curenv[c] /\ env_status[e] \notin {"RUNNING", "DYING"}
            /\ \E via \in Vias : Return(c, via, Freed(e)),
         UNCHANGED env_ipc_recving
  PROVE  OneCpu' /\ BlockedInRecv' /\ FreeListExact' /\ OnlyResourcePanics'
<1> DEFINE st == Freed(e)
<1>1. /\ st \in [Slots -> Statuses] /\ st[e] = "FREE"
      /\ \A s \in Slots \ {e} : st[s] = env_status[s]
      /\ SafeInv /\ TypeOK
  BY DEF Freed, PoliteInv, SafeInv, TypeOK, Statuses
<1>2. PICK cur \in {curenv[c], NoEnv} : Effect(c, st, cur) /\ OneCpu' /\ kernel' # "panic"
  <2>1. CASE e = curenv[c] /\ SchedYield(c, st, NoEnv)
    BY <1>1, <2>1, FreeOwnIsReady, SchedYieldAgrees, SchedYieldEffect
  <2>2. ASSUME e # curenv[c], env_status[e] \notin {"RUNNING", "DYING"},
               NEW via \in Vias, Return(c, via, st)
        PROVE  Effect(c, st, curenv[c]) /\ OneCpu' /\ kernel' # "panic"
    <3>1. Ready(c, st, curenv[c])
      BY <2>2, ChangeIsReady DEF Freed, Statuses
    <3>2. st[curenv[c]] \in {"RUNNING", "DYING"}
      BY <1>1, <2>2, StartsReady, NoEnvAssumption
    <3>3. QED
      BY <1>1, <2>2, <3>1, <3>2, ReturnAgrees, ReturnEffect
  <2>3. QED
    BY <2>1, <2>2
<1>3. ~InSeq(env_free_list, e) /\ env_free_list \in Seq(Slots) /\ Unique(env_free_list)
  BY FreeListSeq DEF PoliteInv, FreeListExact, SafeInv, TypeOK
<1>4. \A s : OnFreeList(s)' <=> s = e \/ OnFreeList(s)
  <2>1. \A s : InSeq(<<e>> \o env_free_list, s) <=> s = e \/ InSeq(env_free_list, s)
    BY <1>3, PushUnique
  <2>2. \A s : OnFreeList(s)' <=> InSeq(<<e>> \o env_free_list, s)
    BY DEF EnvFree, OnFreeList, InSeq
  <2>3. QED
    BY <2>1, <2>2, FreeListSeq
<1> HIDE DEF st
<1>5. \A s \in Slots : OnFreeList(s)' <=> st[s] = "FREE"
  BY <1>1, <1>4 DEF PoliteInv, FreeListExact
<1>6. \A s \in Slots : env_ipc_recving'[s] => st[s] \in {"NOT_RUNNABLE", "FREE"}
  BY <1>1 DEF PoliteInv, BlockedInRecv
<1>7. QED
  BY <1>1, <1>2, <1>5, <1>6, TableAgrees DEF OnlyResourcePanics

\* A slot that is not FREE has its page directory.
LEMMA NoNullPgdir ==
  ASSUME PoliteInv, NEW c \in CPUs, NEW e \in Slots, env_status[e] # "FREE"
  PROVE  ~NullPgdir(c, e)
BY DEF NullPgdir, PoliteInv, FreeListExact

\* env_destroy, unless it meets a zombie of another CPU.
LEMMA EnvDestroyPolite ==
  ASSUME PoliteInv, kernel = "up", NEW c \in CPUs, curenv[c] \in Slots, NEW via \in Vias,
         NEW e \in Slots \ CPUs, env_status[e] # "FREE",
         env_status[e] = "DYING" => e = curenv[c],
         EnvDestroy(c, via, e), UNCHANGED env_ipc_recving
  PROVE  OneCpu' /\ BlockedInRecv' /\ FreeListExact' /\ OnlyResourcePanics'
<1>1. CASE env_status[e] = "RUNNING" /\ curenv[c] # e
  <2> DEFINE st == [env_status EXCEPT ![e] = "DYING"]
  <2>1. Return(c, via, st) /\ UNCHANGED env_free_list
    BY <1>1 DEF EnvDestroy
  <2>2. Ready(c, st, curenv[c])
    BY <1>1, ZombieIsReady
  <2>3. st[curenv[c]] \in {"RUNNING", "DYING"}
    BY <1>1, StartsReady, NoEnvAssumption DEF PoliteInv, SafeInv, TypeOK
  <2>4. ~env_ipc_recving'[e]
    BY <1>1 DEF PoliteInv, BlockedInRecv
  <2>5. "DYING" \in Statuses \ {"FREE"}
    BY DEF Statuses
  <2> HIDE DEF st
  <2>6. st = [env_status EXCEPT ![e] = "DYING"]
    BY DEF st
  <2>7. QED
    BY <2>1, <2>2, <2>3, <2>4, <2>5, <2>6, MovePolite
<1>2. CASE ~(env_status[e] = "RUNNING" /\ curenv[c] # e)
  <2>1. /\ EnvFree(e)
        /\ IF e = curenv[c] THEN SchedYield(c, Freed(e), NoEnv) ELSE Return(c, via, Freed(e))
    BY <1>2, NoNullPgdir DEF EnvDestroy
  <2>2. e # curenv[c] => env_status[e] \notin {"RUNNING", "DYING"}
    BY <1>2
  <2>3. QED
    BY <2>1, <2>2, FreePolite
<1>3. QED
  BY <1>1, <1>2

\* mp_main, i386_init and the timer.
LEMMA TimerPolite ==
  ASSUME PoliteInv, NEW c \in CPUs, Boot(c) \/ Timer(c)
  PROVE  OneCpu' /\ BlockedInRecv' /\ FreeListExact' /\ OnlyResourcePanics'
<1>1. CASE Boot(c)
  BY <1>1, QuietPolite DEF Boot, ipcVars
<1>2. CASE CollectZombie(c)
  <2> DEFINE e == curenv[c]
  <2>1. e \in Slots /\ env_status[e] = "DYING" /\ kernel = "up" /\ UNCHANGED env_ipc_recving
    BY <1>2 DEF CollectZombie, InUser, Zombie, PoliteInv, SafeInv, TypeOK, ipcVars
  <2>2. e \notin CPUs
    BY <2>1 DEF PoliteInv, SafeInv, IdleInv, IdleReady
  <2>3. EnvFree(e) /\ SchedYield(c, Freed(e), NoEnv)
    BY <1>2, <2>1, NoNullPgdir DEF CollectZombie
  <2>4. QED
    BY <2>1, <2>2, <2>3, FreePolite
<1>3. CASE /\ Enter(c, "trap")
           /\ \/ SchedYield(c, env_status, curenv[c])
              \/ Stop(c, env_status, curenv[c], "clock_overflow")
           /\ UNCHANGED <<idVars, ipcVars, env_free_list>>
  BY <1>3, QuietPolite DEF Enter, InUser, ipcVars
<1>4. QED
  BY <1>1, <1>2, <1>3 DEF Timer, Tick, ClockOverflow

\* The caller of a system call other than sys_yield.
LEMMA Caller ==
  ASSUME PoliteInv, NEW c \in CPUs, NEW via \in Vias, Call(c, via)
  PROVE  /\ kernel = "up" /\ curenv[c] \in Slots \ CPUs
         /\ env_status[curenv[c]] \in {"RUNNING", "DYING"}
<1>1. kernel = "up" /\ curenv[c] # NoEnv /\ env_type[curenv[c]] # "IDLE"
  BY DEF Call, Enter, InUser
<1>2. curenv[c] \in Slots /\ env_status[curenv[c]] \in {"RUNNING", "DYING"}
  BY <1>1, StartsReady
<1>3. QED
  BY <1>1, <1>2 DEF PoliteInv, SafeInv, IdleInv, IdleReady

\* Faults and the calls that change nothing but the schedule.
LEMMA CallsPolite ==
  ASSUME PoliteInv, NEW c \in CPUs, NEW via \in Vias,
         Fault(c, via) \/ SysOther(c, via) \/ SysSbrk(c, via) \/ SysYield(c, via)
  PROVE  OneCpu' /\ BlockedInRecv' /\ FreeListExact' /\ OnlyResourcePanics'
<1>1. CASE Fault(c, via)
  <2>1. Call(c, via) /\ EnvDestroy(c, via, curenv[c]) /\ UNCHANGED env_ipc_recving
    BY <1>1 DEF Fault, ipcVars
  <2>2. QED
    BY <2>1, Caller, EnvDestroyPolite
<1>2. CASE SysOther(c, via)
  BY <1>2, QuietPolite DEF SysOther, Call, Enter, InUser, ipcVars
<1>3. CASE SysYield(c, via)
  BY <1>3, QuietPolite DEF SysYield, Enter, InUser, ipcVars
<1>4. CASE SysSbrk(c, via)
  BY <1>4, QuietPolite DEF SysSbrk, Call, Enter, InUser, ipcVars
<1>5. QED
  BY <1>1, <1>2, <1>3, <1>4

\* sys_exofork's child is nobody's current environment, and the head of the
\* free list was FREE.
LEMMA ExoforkPolite ==
  ASSUME PoliteInv, NEW c \in CPUs, NEW via \in Vias, SysExofork(c, via)
  PROVE  OneCpu' /\ BlockedInRecv' /\ FreeListExact' /\ OnlyResourcePanics'
<1> DEFINE e == Head(env_free_list)
           st == [env_status EXCEPT ![e] = "NOT_RUNNABLE"]
<1>1. /\ kernel = "up" /\ curenv[c] \in Slots \ CPUs
      /\ env_status[curenv[c]] \in {"RUNNING", "DYING"}
  BY Caller DEF SysExofork
<1>2. /\ Return(c, via, st) /\ env_free_list # << >> /\ env_free_list' = Tail(env_free_list)
      /\ env_ipc_recving' = [env_ipc_recving EXCEPT ![e] = FALSE]
  BY DEF SysExofork
<1>3. env_free_list \in Seq(Slots) /\ Unique(env_free_list)
  BY FreeListSeq DEF PoliteInv, SafeInv, TypeOK
<1>4. /\ e \in Slots /\ InSeq(env_free_list, e)
      /\ \A s : InSeq(Tail(env_free_list), s) <=> s # e /\ InSeq(env_free_list, s)
  BY <1>2, <1>3, PopUnique
<1>5. e \notin CPUs /\ env_status[e] = "FREE"
  BY <1>4, FreeListSeq DEF PoliteInv, SafeInv, IdleInv, FreeListExact
<1>6. Ready(c, st, curenv[c])
  BY <1>1, <1>4, <1>5, ChangeIsReady DEF Statuses
<1>7. /\ st \in [Slots -> Statuses] /\ st[e] = "NOT_RUNNABLE"
      /\ \A s \in Slots \ {e} : st[s] = env_status[s]
      /\ SafeInv /\ TypeOK
  BY <1>4 DEF PoliteInv, SafeInv, TypeOK, Statuses
<1> HIDE DEF st, e
<1>8. st[curenv[c]] \in {"RUNNING", "DYING"}
  BY <1>1, <1>5, <1>7
<1>9. OneCpu' /\ kernel' # "panic" /\ Effect(c, st, curenv[c])
  BY <1>1, <1>2, <1>6, <1>7, <1>8, ReturnAgrees, ReturnEffect
<1>10. \A s : OnFreeList(s)' <=> s # e /\ OnFreeList(s)
  BY <1>2, <1>4 DEF OnFreeList, InSeq
<1>11. \A s \in Slots : OnFreeList(s)' <=> st[s] = "FREE"
  BY <1>7, <1>10 DEF PoliteInv, FreeListExact
<1>12. \A s \in Slots : env_ipc_recving'[s] => st[s] \in {"NOT_RUNNABLE", "FREE"}
  BY <1>2, <1>7 DEF PoliteInv, BlockedInRecv, TypeOK
<1>13. QED
  BY <1>7, <1>9, <1>11, <1>12, TableAgrees DEF OnlyResourcePanics

\* sys_ipc_recv takes its caller, and nobody else, off its CPU.
LEMMA RecvPolite ==
  ASSUME PoliteInv, NEW c \in CPUs, NEW via \in Vias, NEW dstva \in DstVas,
         SysIpcRecv(c, via, dstva)
  PROVE  OneCpu' /\ BlockedInRecv' /\ FreeListExact' /\ OnlyResourcePanics'
<1> DEFINE e == curenv[c]
           st == [env_status EXCEPT ![e] = "NOT_RUNNABLE"]
<1>1. /\ kernel = "up" /\ e \in Slots \ CPUs
      /\ env_status[e] \in {"RUNNING", "DYING"}
  BY Caller DEF SysIpcRecv
<1>2. /\ SchedYield(c, st, e) /\ UNCHANGED env_free_list
      /\ env_ipc_recving' = [env_ipc_recving EXCEPT ![e] = TRUE]
  BY DEF SysIpcRecv
<1>3. /\ st \in [Slots -> Statuses] /\ st[e] = "NOT_RUNNABLE"
      /\ \A s \in Slots \ {e} : st[s] = env_status[s]
      /\ SafeInv /\ TypeOK
  BY <1>1 DEF PoliteInv, SafeInv, TypeOK, Statuses
<1>4. \A d \in CPUs \ {c} : curenv[d] # e /\ curenv[d] \in Slots \cup {NoEnv}
  BY <1>1, NoEnvAssumption DEF PoliteInv, OneCpu, SafeInv, TypeOK
<1>5. c \in Slots \ {e}
  BY <1>1, CpuIsSlot
<1>6. Ready(c, env_status, e)
  BY <1>1, StartsReady
<1> HIDE DEF st
<1>7. Ready(c, st, e)
  BY <1>3, <1>4, <1>5, <1>6 DEF Ready
<1>8. OneCpu' /\ kernel' # "panic" /\ Effect(c, st, e)
  BY <1>1, <1>2, <1>3, <1>7, SchedYieldAgrees, SchedYieldEffect
<1>9. \A s \in Slots : OnFreeList(s)' <=> st[s] = "FREE"
  BY <1>1, <1>2, <1>3 DEF PoliteInv, FreeListExact, OnFreeList
<1>10. \A s \in Slots : env_ipc_recving'[s] => st[s] \in {"NOT_RUNNABLE", "FREE"}
  BY <1>2, <1>3 DEF PoliteInv, BlockedInRecv, TypeOK
<1>11. QED
  BY <1>3, <1>8, <1>9, <1>10, TableAgrees DEF OnlyResourcePanics

\* sys_ipc_try_send finds its receiver NOT_RUNNABLE and on no CPU.
LEMMA SendPolite ==
  ASSUME PoliteInv, NEW c \in CPUs, NEW via \in Vias, NEW envid \in EnvIds \cup {NoId},
         NEW srcva \in SrcVas, NEW perm \in Perms, SysIpcTrySend(c, via, envid, srcva, perm)
  PROVE  OneCpu' /\ BlockedInRecv' /\ FreeListExact' /\ OnlyResourcePanics'
<1>1. PICK e \in Envid2Env(c, envid, FALSE) :
        /\ env_ipc_recving[e]
        /\ \/ NullPgdir(c, e)
           \/ Deliver(c, via, e, srcva, perm)
           \/ DeliverFails(c, via, e, srcva)
  BY DEF SysIpcTrySend
<1>2. Call(c, via)
  BY DEF SysIpcTrySend
<1>3. /\ kernel = "up" /\ curenv[c] \in Slots \ CPUs
      /\ env_status[curenv[c]] \in {"RUNNING", "DYING"}
  BY <1>2, Caller
<1>4. e \in Slots \ CPUs
  BY <1>1, <1>2, EnvidResolves DEF PoliteInv, SafeInv, IdleInv
<1>5. env_status[e] = "NOT_RUNNABLE"
  BY <1>1, <1>3, <1>4 DEF Envid2Env, PoliteInv, BlockedInRecv
<1>6. CASE Deliver(c, via, e, srcva, perm)
  <2> DEFINE st == [env_status EXCEPT ![e] = "RUNNABLE"]
  <2>1. /\ Return(c, via, st) /\ UNCHANGED env_free_list
        /\ env_ipc_recving' = [env_ipc_recving EXCEPT ![e] = FALSE]
    BY <1>6 DEF Deliver
  <2>2. "RUNNABLE" \in Statuses \ {"FREE"} /\ ~OnFreeList(e)
    BY <1>4, <1>5 DEF Statuses, PoliteInv, FreeListExact
  <2>3. Ready(c, st, curenv[c])
    BY <1>3, <1>4, <1>5, <2>2, ChangeIsReady
  <2>4. st[curenv[c]] \in {"RUNNING", "DYING"}
    BY <1>3, <1>5 DEF PoliteInv, SafeInv, TypeOK
  <2> HIDE DEF st
  <2>5. st = [env_status EXCEPT ![e] = "RUNNABLE"]
    BY DEF st
  <2>6. /\ \A s \in Slots \ {e} : env_ipc_recving'[s] = env_ipc_recving[s]
        /\ ~env_ipc_recving'[e]
    BY <1>4, <2>1 DEF PoliteInv, SafeInv, TypeOK
  <2>7. QED
    BY <1>3, <1>4, <1>5, <2>1, <2>2, <2>3, <2>4, <2>5, <2>6, MovePolite
<1>7. CASE DeliverFails(c, via, e, srcva)
  BY <1>3, <1>7, NoEnvAssumption, QuietPolite DEF DeliverFails
<1>8. QED
  BY <1>1, <1>4, <1>5, <1>6, <1>7, NoNullPgdir

\* sys_env_destroy of anything but another CPU's zombie.
LEMMA DestroyPolite ==
  ASSUME PoliteInv, NEW c \in CPUs, NEW via \in Vias, NEW envid \in EnvIds \cup {NoId},
         DestroysOnce(c, envid), SysEnvDestroy(c, via, envid)
  PROVE  OneCpu' /\ BlockedInRecv' /\ FreeListExact' /\ OnlyResourcePanics'
<1>1. PICK e \in Envid2Env(c, envid, TRUE) : EnvDestroy(c, via, e)
  BY DEF SysEnvDestroy
<1>2. Call(c, via) /\ UNCHANGED env_ipc_recving
  BY DEF SysEnvDestroy, ipcVars
<1>3. /\ kernel = "up" /\ curenv[c] \in Slots \ CPUs
      /\ env_status[curenv[c]] \in {"RUNNING", "DYING"}
  BY <1>2, Caller
<1>4. e \in Slots \ CPUs
  BY <1>1, <1>2, EnvidResolves DEF PoliteInv
<1>5. env_status[e] # "FREE"
  BY <1>1, <1>3 DEF Envid2Env
<1>6. env_status[e] = "DYING" => e = curenv[c]
  BY <1>1 DEF DestroysOnce
<1>7. QED
  BY <1>1, <1>2, <1>3, <1>4, <1>5, <1>6, EnvDestroyPolite

\* sys_env_set_status of an environment that does not wait for a message.
LEMMA SetStatusPolite ==
  ASSUME PoliteInv, NEW c \in CPUs, NEW via \in Vias, NEW envid \in EnvIds \cup {NoId},
         NEW status \in Statuses, SetsStartable(c, envid, status),
         SysEnvSetStatus(c, via, envid, status)
  PROVE  OneCpu' /\ BlockedInRecv' /\ FreeListExact' /\ OnlyResourcePanics'
<1> DEFINE Set(e) == [env_status EXCEPT ![e] = status]
<1>1. PICK e \in Envid2Env(c, envid, TRUE) :
        env_status[e] \in {"RUNNABLE", "NOT_RUNNABLE"} /\ Return(c, via, Set(e))
  BY DEF SysEnvSetStatus
<1>2. Call(c, via) /\ UNCHANGED <<env_ipc_recving, env_free_list>>
  BY DEF SysEnvSetStatus, ipcVars
<1>3. /\ kernel = "up" /\ curenv[c] \in Slots \ CPUs
      /\ env_status[curenv[c]] \in {"RUNNING", "DYING"}
  BY <1>2, Caller
<1>4. e \in Slots \ CPUs
  BY <1>1, <1>2, EnvidResolves DEF PoliteInv
<1>5. status \in {"RUNNABLE", "NOT_RUNNABLE"} /\ ~env_ipc_recving[e]
  BY <1>1 DEF SetsStartable
<1>6. ~OnFreeList(e)
  BY <1>1, <1>4 DEF PoliteInv, FreeListExact
<1>7. Ready(c, Set(e), curenv[c])
  BY <1>1, <1>3, <1>4, <1>5, <1>6, ChangeIsReady
<1>8. Set(e)[curenv[c]] \in {"RUNNING", "DYING"}
  BY <1>1, <1>3 DEF PoliteInv, SafeInv, TypeOK
<1>9. status \in Statuses \ {"FREE"}
  BY <1>5
<1>10. PICK st : st = Set(e)
  OBVIOUS
<1>11. QED
  BY <1>1, <1>2, <1>3, <1>4, <1>5, <1>7, <1>8, <1>9, <1>10, MovePolite

-----------------------------------------------------------------------------

\* Polite programs are programs.
LEMMA PoliteIsNext == PoliteNext => Next
BY DEF PoliteNext, Next, Visit

\* Every visit of a polite program to the kernel keeps the invariant.
LEMMA PoliteStep == PoliteInv /\ [PoliteNext]_vars => PoliteInv'
<1> SUFFICES ASSUME PoliteInv, [PoliteNext]_vars PROVE PoliteInv'
  OBVIOUS
<1>1. SafeInv'
  BY NextStep, PoliteIsNext DEF PoliteInv
<1> DEFINE Rest == OneCpu' /\ BlockedInRecv' /\ FreeListExact' /\ OnlyResourcePanics'
<1>2. ASSUME NEW c \in CPUs, Common(c) PROVE Rest
  <2>1. CASE Boot(c) \/ Timer(c)
    BY <2>1, TimerPolite
  <2>2. ASSUME NEW via \in Vias,
               Fault(c, via) \/ SysOther(c, via) \/ SysSbrk(c, via) \/ SysYield(c, via)
        PROVE  Rest
    BY <2>2, CallsPolite
  <2>3. ASSUME NEW via \in Vias, SysExofork(c, via) PROVE Rest
    BY <2>3, ExoforkPolite
  <2>4. ASSUME NEW via \in Vias, NEW dstva \in DstVas, SysIpcRecv(c, via, dstva) PROVE Rest
    BY <2>4, RecvPolite
  <2>5. ASSUME NEW via \in Vias, NEW envid \in EnvIds \cup {NoId}, NEW srcva \in SrcVas,
               NEW perm \in Perms, SysIpcTrySend(c, via, envid, srcva, perm)
        PROVE  Rest
    BY <2>5, SendPolite
  <2>6. QED
    BY <1>2, <2>1, <2>2, <2>3, <2>4, <2>5 DEF Common
<1>3. ASSUME NEW c \in CPUs, NEW via \in Vias, NEW envid \in EnvIds \cup {NoId},
             DestroysOnce(c, envid), SysEnvDestroy(c, via, envid)
      PROVE  Rest
  BY <1>3, DestroyPolite
<1>4. ASSUME NEW c \in CPUs, NEW via \in Vias, NEW envid \in EnvIds \cup {NoId},
             NEW status \in Statuses, SetsStartable(c, envid, status),
             SysEnvSetStatus(c, via, envid, status)
      PROVE  Rest
  BY <1>4, SetStatusPolite
<1>5. ASSUME UNCHANGED vars PROVE Rest
  BY <1>5 DEF vars, ipcVars, PoliteInv, OneCpu, BlockedInRecv, FreeListExact, OnFreeList, OnlyResourcePanics
<1>6. Rest
  BY <1>2, <1>3, <1>4, <1>5 DEF PoliteNext
<1>7. QED
  BY <1>1, <1>6 DEF PoliteInv

\* The table i386_init leaves.
LEMMA InitPolite == Init => PoliteInv
<1> SUFFICES ASSUME Init PROVE PoliteInv
  OBVIOUS
<1>1. SafeInv
  BY InitSafe
<1>2. OneCpu /\ BlockedInRecv /\ OnlyResourcePanics
  BY DEF Init, OneCpu, BlockedInRecv, OnlyResourcePanics
<1>3. NBoot \in Nat /\ NBoot <= NENV
  BY SizeAssumption DEF NBoot
<1>4. Len(env_free_list) = NENV - NBoot
  BY <1>3, SizeAssumption DEF Init
<1>5. \A i \in 1 .. NENV - NBoot : env_free_list[i] = NBoot + i - 1
  BY <1>3, SizeAssumption DEF Init
<1>6. ASSUME NEW s \in Slots PROVE OnFreeList(s) <=> s >= NBoot
  <2>1. OnFreeList(s) => s >= NBoot
    BY <1>3, <1>4, <1>5, SizeAssumption DEF OnFreeList, Slots
  <2>2. ASSUME s >= NBoot PROVE OnFreeList(s)
    <3>1. s - NBoot + 1 \in 1 .. NENV - NBoot
      BY <2>2, <1>3, SizeAssumption DEF Slots
    <3>2. env_free_list[s - NBoot + 1] = s
      BY <3>1, <1>3, <1>5 DEF Slots
    <3>3. QED
      BY <3>1, <3>2, <1>4 DEF OnFreeList
  <2>3. QED
    BY <2>1, <2>2
<1>7. FreeListExact
  BY <1>3, <1>6 DEF FreeListExact, Init, Slots
<1>8. QED
  BY <1>1, <1>2, <1>7 DEF PoliteInv

\* The invariant holds in every state of every behaviour of polite programs.
THEOREM Politeness == PoliteSpec => []PoliteInv
<1>1. Init => PoliteInv
  BY InitPolite
<1>2. PoliteInv /\ [PoliteNext]_vars => PoliteInv'
  BY PoliteStep
<1>3. QED
  BY <1>1, <1>2, PTL DEF PoliteSpec

\* The CPUs and env_status agree: no environment runs twice, none is RUNNING
\* and run by nobody.
THEOREM CpusAgree == PoliteSpec => []OneCpu
<1>1. PoliteInv => OneCpu
  BY DEF PoliteInv
<1>2. QED
  BY <1>1, Politeness, PTL

\* An environment blocked in sys_ipc_recv is never put on a CPU.
THEOREM ReceiversWait == PoliteSpec => []BlockedInRecv
<1>1. PoliteInv => BlockedInRecv
  BY DEF PoliteInv
<1>2. QED
  BY <1>1, Politeness, PTL

\* A slot that was freed can be used again, and none is handed out while it is
\* in use.
THEOREM FreeListMatches == PoliteSpec => []FreeListExact
<1>1. PoliteInv => FreeListExact
  BY DEF PoliteInv
<1>2. QED
  BY <1>1, Politeness, PTL

\* The kernel frees no environment twice, runs none without a page directory and
\* always has an idle one: it panics only in sbrk and on the clock's overflow.
THEOREM NoOtherPanic == PoliteSpec => []OnlyResourcePanics
<1>1. PoliteInv => OnlyResourcePanics
  BY DEF PoliteInv
<1>2. QED
  BY <1>1, Politeness, PTL

===============================================================================
