-------------------------------- MODULE JosEnv --------------------------------
(***************************************************************************)
(* The environment table of the JOS kernel (kern/env.c), its scheduler     *)
(* (kern/sched.c), the two ways into the kernel (kern/trap.c and the       *)
(* sysenter router of kern/syscall.c) and the system calls that change the *)
(* state of an environment.                                                *)
(*                                                                         *)
(* Both entries take the big kernel lock and keep it until env_run         *)
(* releases it, so a step of this module is one whole visit of a CPU to    *)
(* the kernel (the lock itself is modelled by SpinLock and TicketLock).    *)
(* Between two steps of a CPU, its current environment runs in user mode;  *)
(* what it will ask for next is arbitrary.                                 *)
(*                                                                         *)
(* An env_id is its two bit fields, the uniqueifier and the index of the   *)
(* slot; the uniqueifier wraps to 1 as env_alloc's does when the sum       *)
(* becomes negative.                                                       *)
(***************************************************************************)
EXTENDS Integers, Sequences

CONSTANTS
  NENV,          \* number of slots of envs[]
  NCPU,          \* number of CPUs; CPU c's idle environment is envs[c]
  MaxGen,        \* number of uniqueifiers before env_alloc wraps to the first
  BootTypes,     \* the types i386_init gives to ENV_CREATE after the idle ones
  SrcVas,        \* srcvas of a sender: "utop" (no page) or "mapped"
  Perms,         \* page permissions a sender passes; "0" is none
  DstVas,        \* kinds of dstva a receiver uses: "utop", "va"
  NoEnv, NoId    \* the null struct Env *, and the envid 0

Slots == 0 .. NENV - 1
CPUs  == 0 .. NCPU - 1
EnvIds == [gen : 1 .. MaxGen, x : Slots]   \* what callers pass
SlotIds == [gen : 0 .. MaxGen, x : Slots]  \* 0 for a slot never used
Types == {"USER", "IDLE", "FS", "NS"}
Statuses == {"FREE", "DYING", "RUNNABLE", "RUNNING", "NOT_RUNNABLE"}
Vias == {"trap", "sysenter"}

\* "panic" is a panic for page tables that are gone or an idle environment that
\* cannot run; sbrk's and time_tick's own panics have names of their own.
Kernels == {"up", "monitor", "panic", "no_memory", "clock_overflow"}

ASSUME SizeAssumption ==
  /\ NENV \in Nat \ {0} /\ NCPU \in Nat \ {0} /\ MaxGen \in Nat /\ MaxGen >= 2
  /\ BootTypes \in Seq(Types \ {"IDLE"})
  /\ NCPU + Len(BootTypes) <= NENV
ASSUME ArgumentAssumption ==
  /\ SrcVas \subseteq {"utop", "mapped"}
  /\ DstVas \subseteq {"utop", "va"}
ASSUME NoEnvAssumption == NoEnv \notin Slots
ASSUME NoIdAssumption == NoId \notin SlotIds

VARIABLES
  env_status,       \* [Slots -> Statuses]
  env_gen,          \* uniqueifier of env_id; 0 while the slot was never used
  env_parent_id,    \* env_id of the creator, or NoId
  env_type,
  env_ipc_recving,  \* blocked in sys_ipc_recv
  env_ipc_from,     \* sender of the last message, NoId while none arrived
  env_ipc_perm,     \* perm of the last message
  env_ipc_dstva,    \* where the receiver wants a page
  env_ipc_page,     \* did the last message insert a page at env_ipc_dstva
  env_free_list,    \* slots linked by env_link, head first
  curenv,           \* [CPUs -> Slots \cup {NoEnv}], cpus[c].cpu_env
  kernel            \* "up", or why it stopped: it then holds the lock for ever

ipcVars == <<env_ipc_recving, env_ipc_from, env_ipc_perm, env_ipc_dstva, env_ipc_page>>
idVars  == <<env_gen, env_parent_id, env_type>>
vars    == <<env_status, idVars, ipcVars, env_free_list, curenv, kernel>>

env_id(s) == [gen |-> env_gen[s], x |-> s]

OnFreeList(s) == \E i \in 1 .. Len(env_free_list) : env_free_list[i] = s

-----------------------------------------------------------------------------
\* Booting: env_init, then the ENV_CREATEs of i386_init.  The APs wait at
\* lock_kernel until the boot processor leaves the kernel.

NBoot == NCPU + Len(BootTypes)

Init ==
  /\ env_status = [s \in Slots |-> IF s < NBoot THEN "RUNNABLE" ELSE "FREE"]
  /\ env_gen = [s \in Slots |-> IF s < NBoot THEN 1 ELSE 0]
  /\ env_parent_id = [s \in Slots |-> NoId]
  /\ env_type = [s \in Slots |-> IF s < NCPU THEN "IDLE"
                                 ELSE IF s < NBoot THEN BootTypes[s - NCPU + 1]
                                 ELSE "USER"]
  /\ env_ipc_recving = [s \in Slots |-> FALSE]
  /\ env_ipc_from = [s \in Slots |-> NoId]
  /\ env_ipc_perm = [s \in Slots |-> "0"]
  /\ env_ipc_dstva = [s \in Slots |-> "utop"]
  /\ env_ipc_page = [s \in Slots |-> FALSE]
  /\ env_free_list = [i \in 1 .. NENV - NBoot |-> NBoot + i - 1]
  /\ curenv = [c \in CPUs |-> NoEnv]
  /\ kernel = "up"

-----------------------------------------------------------------------------
\* The scheduler.  st is env_status as the handler left it before the call.

\* env_pgdir is null exactly while the slot is on the free list; env_run gives
\* it to PADDR, which then panics.
EnvRun(c, st, cur, e) ==
  /\ env_status' = IF cur = e THEN st
                   ELSE [s \in Slots |->
                           IF s = e THEN "RUNNING"
                           ELSE IF s = cur /\ st[s] = "RUNNING" THEN "RUNNABLE"
                           ELSE st[s]]
  /\ curenv' = [curenv EXCEPT ![c] = e]
  /\ kernel' = IF cur # e /\ OnFreeList(e) THEN "panic" ELSE kernel

Stop(c, st, cur, why) ==
  /\ env_status' = st
  /\ curenv' = [curenv EXCEPT ![c] = cur]
  /\ kernel' = why

Candidates(st, cur) ==
  IF cur = NoEnv THEN {}
  ELSE {s \in Slots \ {cur} : st[s] = "RUNNABLE" /\ env_type[s] # "IDLE"}

\* Mutant of Distance: the scan starts at slot 0 every time.
DistanceFromZero(cur, s) == s

\* How far the circular scan that starts after cur goes to reach s.
Distance(cur, s) == IF s > cur THEN s - cur ELSE s - cur + NENV

First(st, cur, s) ==
  /\ s \in Candidates(st, cur)
  /\ \A t \in Candidates(st, cur) : Distance(cur, s) <= Distance(cur, t)

\* Mutant of RunIdle: every CPU falls back on envs[0].
RunIdleZero(c, st, cur) ==
  IF st[0] \in {"RUNNABLE", "RUNNING"} THEN EnvRun(c, st, cur, 0)
                                       ELSE Stop(c, st, cur, "panic")

RunIdle(c, st, cur) ==
  IF \A s \in Slots : env_type[s] = "IDLE" \/ st[s] \notin {"RUNNABLE", "RUNNING"}
  THEN Stop(c, st, cur, "monitor")
  ELSE IF st[c] \in {"RUNNABLE", "RUNNING"}
       THEN EnvRun(c, st, cur, c)
       ELSE Stop(c, st, cur, "panic")

SchedYield(c, st, cur) ==
  \/ \E s \in Slots : First(st, cur, s) /\ EnvRun(c, st, cur, s)
  \/ /\ Candidates(st, cur) = {}
     /\ IF cur # NoEnv /\ st[cur] = "RUNNING"
        THEN EnvRun(c, st, cur, cur)
        ELSE RunIdle(c, st, cur)

\* The end of trap() and of router(): only trap() looks at the status.
Return(c, via, st) ==
  IF via = "sysenter" \/ st[curenv[c]] = "RUNNING"
  THEN env_status' = st /\ UNCHANGED <<curenv, kernel>>
  ELSE SchedYield(c, st, curenv[c])

-----------------------------------------------------------------------------
\* env_free, env_destroy and envid2env.

\* Reading the page tables of a slot on the free list dereferences a null
\* env_pgdir: a page fault in the kernel, which panics.
NullPgdir(c, e) ==
  /\ OnFreeList(e)
  /\ Stop(c, env_status, curenv[c], "panic")
  /\ UNCHANGED env_free_list

\* Mutant of EnvFree: the slot is not given back.
EnvFreeNoList(e) == UNCHANGED env_free_list

EnvFree(e) == env_free_list' = <<e>> \o env_free_list
Freed(e)   == [env_status EXCEPT ![e] = "FREE"]

\* Mutant of EnvDestroy: an environment that runs elsewhere is freed at once.
EnvDestroyAtOnce(c, via, e) ==
  \/ NullPgdir(c, e)
  \/ /\ ~OnFreeList(e) /\ EnvFree(e)
     /\ IF e = curenv[c] THEN SchedYield(c, Freed(e), NoEnv)
                         ELSE Return(c, via, Freed(e))

\* Mutant of EnvDestroy: a zombie's slot, with its page directory, goes back on
\* the free list when it is marked, and again when its own exit frees it.
EnvDestroyEarly(c, via, e) ==
  IF env_status[e] = "RUNNING" /\ curenv[c] # e
  THEN Return(c, via, [env_status EXCEPT ![e] = "DYING"]) /\ EnvFree(e)
  ELSE /\ EnvFree(e)
       /\ IF e = curenv[c] THEN SchedYield(c, Freed(e), NoEnv)
                           ELSE Return(c, via, Freed(e))

EnvDestroy(c, via, e) ==
  IF env_status[e] = "RUNNING" /\ curenv[c] # e
  THEN /\ Return(c, via, [env_status EXCEPT ![e] = "DYING"])
       /\ UNCHANGED env_free_list
  ELSE \/ NullPgdir(c, e)
       \/ /\ ~OnFreeList(e) /\ EnvFree(e)
          /\ IF e = curenv[c] THEN SchedYield(c, Freed(e), NoEnv)
                              ELSE Return(c, via, Freed(e))

\* Mutant of Envid2Env: checkperm is ignored.
Envid2EnvAnyone(c, envid, checkperm) ==
  IF envid = NoId THEN {curenv[c]}
  ELSE {e \in {envid.x} \cap Slots : env_id(e) = envid /\ env_status[e] # "FREE"}

\* The environment envid names for the caller, if any.
Envid2Env(c, envid, checkperm) ==
  IF envid = NoId THEN {curenv[c]}
  ELSE {e \in {envid.x} \cap Slots :
          /\ env_id(e) = envid /\ env_status[e] # "FREE"
          /\ checkperm => \/ e = curenv[c]
                          \/ env_parent_id[e] = env_id(curenv[c])}

-----------------------------------------------------------------------------
\* The two entries.  trap() frees a zombie before it looks at why it trapped;
\* router() does not look at the status at all.

Zombie(c, via) == via = "trap" /\ env_status[curenv[c]] = "DYING"
InUser(c) == kernel = "up" /\ curenv[c] # NoEnv
Enter(c, via) == InUser(c) /\ ~Zombie(c, via)

\* A system call of a program other than the idle loop.
Call(c, via) == Enter(c, via) /\ env_type[curenv[c]] # "IDLE"

Boot(c) ==
  /\ kernel = "up" /\ curenv[c] = NoEnv
  /\ c = 0 \/ curenv[0] # NoEnv
  /\ SchedYield(c, env_status, NoEnv)
  /\ UNCHANGED <<idVars, ipcVars, env_free_list>>

CollectZombie(c) ==
  /\ InUser(c) /\ Zombie(c, "trap")
  /\ \/ NullPgdir(c, curenv[c])
     \/ /\ ~OnFreeList(curenv[c]) /\ EnvFree(curenv[c])
        /\ SchedYield(c, Freed(curenv[c]), NoEnv)
  /\ UNCHANGED <<idVars, ipcVars>>

\* A clock interrupt; time_tick counts those of all CPUs and panics when the
\* count, here left to chance, overflows.
Tick(c) ==
  \/ CollectZombie(c)
  \/ /\ Enter(c, "trap")
     /\ SchedYield(c, env_status, curenv[c])
     /\ UNCHANGED <<idVars, ipcVars, env_free_list>>
ClockOverflow(c) ==
  /\ Enter(c, "trap")
  /\ Stop(c, env_status, curenv[c], "clock_overflow")
  /\ UNCHANGED <<idVars, ipcVars, env_free_list>>
Timer(c) == Tick(c) \/ ClockOverflow(c)

\* An exception nobody handles (trap), or a bad pointer passed to a system
\* call that asserts it (either entry).
Fault(c, via) ==
  /\ Call(c, via)
  /\ EnvDestroy(c, via, curenv[c])
  /\ UNCHANGED <<idVars, ipcVars>>

-----------------------------------------------------------------------------
\* System calls.

\* A call that returns an error (a stale or foreign envid, a bad argument, no
\* memory, nobody waiting), or, sbrk apart, that touches only memory, devices or the clock;
\* also a page fault handed to the upcall, whose env_run is the router's.
SysOther(c, via) ==
  /\ Call(c, via)
  /\ Return(c, via, env_status)
  /\ UNCHANGED <<idVars, ipcVars, env_free_list>>

\* sbrk panics when page_alloc or page_insert finds no memory.
SysSbrk(c, via) ==
  /\ Call(c, via)
  /\ \/ Return(c, via, env_status)
     \/ Stop(c, env_status, curenv[c], "no_memory")
  /\ UNCHANGED <<idVars, ipcVars, env_free_list>>

SysYield(c, via) ==
  /\ Enter(c, via)
  /\ SchedYield(c, env_status, curenv[c])
  /\ UNCHANGED <<idVars, ipcVars, env_free_list>>

\* Mutant of NextGen: the uniqueifier runs into the sign bit.
NextGenNoWrap(g) == g + 1

NextGen(g) == IF g = MaxGen THEN 1 ELSE g + 1

SysExofork(c, via) ==
  /\ Call(c, via)
  /\ env_free_list # << >>
  /\ LET e == Head(env_free_list) IN
     /\ env_gen' = [env_gen EXCEPT ![e] = NextGen(@)]
     /\ env_parent_id' = [env_parent_id EXCEPT ![e] = env_id(curenv[c])]
     /\ env_type' = [env_type EXCEPT ![e] = "USER"]
     /\ env_ipc_recving' = [env_ipc_recving EXCEPT ![e] = FALSE]
     /\ Return(c, via, [env_status EXCEPT ![e] = "NOT_RUNNABLE"])
  /\ env_free_list' = Tail(env_free_list)
  /\ UNCHANGED <<env_ipc_from, env_ipc_perm, env_ipc_dstva, env_ipc_page>>

\* The code tests the status the environment has, not the one it is given.
SysEnvSetStatus(c, via, envid, status) ==
  /\ Call(c, via)
  /\ \E e \in Envid2Env(c, envid, TRUE) :
       /\ env_status[e] \in {"RUNNABLE", "NOT_RUNNABLE"}
       /\ Return(c, via, [env_status EXCEPT ![e] = status])
  /\ UNCHANGED <<idVars, ipcVars, env_free_list>>

SysEnvDestroy(c, via, envid) ==
  /\ Call(c, via)
  /\ \E e \in Envid2Env(c, envid, TRUE) : EnvDestroy(c, via, e)
  /\ UNCHANGED <<idVars, ipcVars>>

\* sys_ipc_recv; a dstva below UTOP that is not aligned fails (SysOther).
SysIpcRecv(c, via, dstva) ==
  /\ Call(c, via)
  /\ LET e == curenv[c] IN
     /\ env_ipc_dstva' = [env_ipc_dstva EXCEPT ![e] = dstva]
     /\ env_ipc_from' = [env_ipc_from EXCEPT ![e] = NoId]
     /\ env_ipc_recving' = [env_ipc_recving EXCEPT ![e] = TRUE]
     /\ SchedYield(c, [env_status EXCEPT ![e] = "NOT_RUNNABLE"], e)
  /\ UNCHANGED <<idVars, env_ipc_perm, env_ipc_page, env_free_list>>

\* Mutant of Deliver: env_ipc_recving stays set.
DeliverStillRecving(c, via, e, srcva, perm) ==
  /\ srcva = "mapped" => perm # "0"
  /\ env_ipc_from' = [env_ipc_from EXCEPT ![e] = env_id(curenv[c])]
  /\ env_ipc_perm' = [env_ipc_perm EXCEPT ![e] = perm]
  /\ env_ipc_page' = [env_ipc_page EXCEPT ![e] = (srcva = "mapped")]
  /\ Return(c, via, [env_status EXCEPT ![e] = "RUNNABLE"])
  /\ UNCHANGED <<idVars, env_ipc_recving, env_ipc_dstva, env_free_list>>

\* The rest of sys_ipc_try_send once e is known to be waiting.
Deliver(c, via, e, srcva, perm) ==
  /\ srcva = "mapped" => perm # "0"
  /\ env_ipc_recving' = [env_ipc_recving EXCEPT ![e] = FALSE]
  /\ env_ipc_from' = [env_ipc_from EXCEPT ![e] = env_id(curenv[c])]
  /\ env_ipc_perm' = [env_ipc_perm EXCEPT ![e] = perm]
  /\ env_ipc_page' = [env_ipc_page EXCEPT ![e] = (srcva = "mapped")]
  /\ Return(c, via, [env_status EXCEPT ![e] = "RUNNABLE"])
  /\ UNCHANGED <<idVars, env_ipc_dstva, env_free_list>>

\* A page that is not mapped, a bad perm, or E_NO_MEM from page_insert: the
\* receiver's perm is already cleared.
DeliverFails(c, via, e, srcva) ==
  /\ srcva # "utop"
  /\ env_ipc_perm' = [env_ipc_perm EXCEPT ![e] = "0"]
  /\ Return(c, via, env_status)
  /\ UNCHANGED <<idVars, env_ipc_recving, env_ipc_from, env_ipc_dstva,
                 env_ipc_page, env_free_list>>

\* Mutant of SysIpcTrySend: it does not ask whether the target waits.
SysIpcSendAnyway(c, via, envid, srcva, perm) ==
  /\ Call(c, via)
  /\ \E e \in Envid2Env(c, envid, FALSE) :
       Deliver(c, via, e, srcva, perm) \/ DeliverFails(c, via, e, srcva)

SysIpcTrySend(c, via, envid, srcva, perm) ==
  /\ Call(c, via)
  /\ \E e \in Envid2Env(c, envid, FALSE) :
       /\ env_ipc_recving[e] /\ env_ipc_from[e] = NoId
       /\ IF srcva = "mapped" /\ OnFreeList(e)
          THEN NullPgdir(c, e) /\ UNCHANGED <<idVars, ipcVars>>
          ELSE Deliver(c, via, e, srcva, perm) \/ DeliverFails(c, via, e, srcva)

-----------------------------------------------------------------------------
\* Any program may make any call at any time.

Common(c) ==
  \/ Boot(c) \/ Timer(c)
  \/ \E via \in Vias :
       \/ Fault(c, via) \/ SysOther(c, via) \/ SysSbrk(c, via)
       \/ SysYield(c, via) \/ SysExofork(c, via)
       \/ \E dstva \in DstVas : SysIpcRecv(c, via, dstva)
       \/ \E envid \in EnvIds \cup {NoId}, srcva \in SrcVas, perm \in Perms :
            SysIpcTrySend(c, via, envid, srcva, perm)

\* One visit of CPU c to the kernel.
Visit(c) ==
  \/ Common(c)
  \/ \E via \in Vias, envid \in EnvIds \cup {NoId} :
       \/ SysEnvDestroy(c, via, envid)
       \/ \E status \in Statuses : SysEnvSetStatus(c, via, envid, status)

Next == \E c \in CPUs : Visit(c)

Spec == Init /\ [][Next]_vars

\* Programs that keep to what lib/ and user/ do: a child is destroyed once, and
\* its status is only moved between RUNNABLE and NOT_RUNNABLE while it is not
\* blocked in sys_ipc_recv.
DestroysOnce(c, envid) ==
  \A e \in Envid2Env(c, envid, TRUE) : env_status[e] = "DYING" => e = curenv[c]
SetsStartable(c, envid, status) ==
  /\ status \in {"RUNNABLE", "NOT_RUNNABLE"}
  /\ \A e \in Envid2Env(c, envid, TRUE) : ~env_ipc_recving[e]

PoliteNext ==
  \E c \in CPUs :
    \/ Common(c)
    \/ \E via \in Vias, envid \in EnvIds \cup {NoId} : InUser(c) /\
         \/ DestroysOnce(c, envid) /\ SysEnvDestroy(c, via, envid)
         \/ \E status \in Statuses :
              /\ SetsStartable(c, envid, status)
              /\ SysEnvSetStatus(c, via, envid, status)

PoliteSpec == Init /\ [][PoliteNext]_vars

\* Programs that also run for ever: servers, and clients that do not exit.  The
\* clock, whose overflow ends everything, does not overflow.
LastingNext ==
  \E c \in CPUs :
    \/ Boot(c) \/ Tick(c)
    \/ \E via \in Vias :
         \/ SysYield(c, via) \/ SysExofork(c, via)
         \/ \E dstva \in DstVas : SysIpcRecv(c, via, dstva)
         \/ \E envid \in EnvIds \cup {NoId} :
              \/ \E srcva \in SrcVas, perm \in Perms :
                   SysIpcTrySend(c, via, envid, srcva, perm)
              \/ \E status \in Statuses :
                   /\ InUser(c) /\ SetsStartable(c, envid, status)
                   /\ SysEnvSetStatus(c, via, envid, status)

\* Interrupts are on in user mode (FL_IF) and every CPU's local APIC timer is
\* periodic; a CPU that asks for the kernel lock gets it.
Fairness == \A c \in CPUs : WF_vars(Boot(c)) /\ WF_vars(Tick(c))
LastingSpec == Init /\ [][LastingNext]_vars /\ Fairness

-----------------------------------------------------------------------------
\* Properties of every behaviour, whatever the programs do (Spec).

\* The state is made of the values the code stores.
TypeOK ==
  /\ env_status \in [Slots -> Statuses]
  /\ env_gen \in [Slots -> 0 .. MaxGen]
  /\ env_parent_id \in [Slots -> SlotIds \cup {NoId}]
  /\ env_type \in [Slots -> Types]
  /\ env_ipc_recving \in [Slots -> BOOLEAN]
  /\ env_ipc_from \in [Slots -> SlotIds \cup {NoId}]
  /\ env_ipc_perm \in [Slots -> Perms \cup {"0"}]
  /\ env_ipc_dstva \in [Slots -> DstVas \cup {"utop"}]
  /\ env_ipc_page \in [Slots -> BOOLEAN]
  /\ env_free_list \in Seq(Slots)
  /\ curenv \in [CPUs -> Slots \cup {NoEnv}]
  /\ kernel \in Kernels

\* The env_link chain never holds a slot twice: no order of destroys, zombies
\* and reuses makes env_alloc hand out the same slot to two creators.
FreeListUnique ==
  \A i, j \in 1 .. Len(env_free_list) : env_free_list[i] = env_free_list[j] => i = j

\* A CPU's idle environment is always there to fall back on, and no other CPU
\* ever runs it, so sched_yield's "No idle environment!" panic is unreachable.
IdleReady ==
  \A i \in CPUs :
    /\ env_type[i] = "IDLE"
    /\ env_status[i] \in {"RUNNING", "RUNNABLE"}
    /\ \A c \in CPUs : curenv[c] = i => c = i

\* What makes IdleReady inductive: nobody may destroy, free or wake an idle
\* environment, and it never waits for a message.
IdleInv ==
  /\ IdleReady
  /\ \A i \in CPUs : ~OnFreeList(i) /\ ~env_ipc_recving[i] /\ env_parent_id[i] = NoId

\* A message stays in the receiver's Env until that receiver, on its own CPU,
\* calls sys_ipc_recv again: a second sender cannot overwrite it.
KeepsMessage(s) ==
  /\ env_ipc_from[s] # NoId
  /\ \/ env_ipc_from'[s] # env_ipc_from[s]
     \/ env_ipc_perm'[s] # env_ipc_perm[s]
     \/ env_ipc_page'[s] # env_ipc_page[s]
  => env_ipc_recving'[s] /\ \E c \in CPUs : curenv[c] = s
MessageKept == [][\A s \in Slots : KeepsMessage(s)]_vars

\* Only an environment itself and its creator end its life: when it dies, free or
\* as a zombie, the CPU that visits the kernel runs one of the two.
Dies(s) ==
  env_status[s] \notin {"FREE", "DYING"} /\ env_status'[s] \in {"FREE", "DYING"}
OnlyKinKill ==
  [][\A s \in Slots, c \in CPUs :
       Dies(s) /\ Visit(c) =>
         InUser(c) /\ (curenv[c] = s \/ env_parent_id[s] = env_id(curenv[c]))]_vars

-----------------------------------------------------------------------------
\* Properties of the behaviours of polite programs (PoliteSpec).

\* The CPUs and the table agree: a CPU in user mode runs an environment that is
\* RUNNING, or DYING if another CPU destroyed it meanwhile; nobody else runs it;
\* and whatever is RUNNING is run by some CPU.
OneCpu ==
  kernel = "up" =>
    /\ \A c \in CPUs : curenv[c] # NoEnv =>
         /\ env_status[curenv[c]] \in {"RUNNING", "DYING"}
         /\ \A d \in CPUs : curenv[d] = curenv[c] => d = c
    /\ \A s \in Slots : env_status[s] = "RUNNING" => \E c \in CPUs : curenv[c] = s

\* An environment that waits for a message is not schedulable until one comes.
BlockedInRecv ==
  \A s \in Slots :
    env_ipc_recving[s] => env_status[s] \in {"NOT_RUNNABLE", "FREE"}

\* The free list holds the FREE slots and no others: sys_exofork never hands out
\* a slot that is still in use, and a slot that was freed can be used again.
FreeListExact == \A s \in Slots : OnFreeList(s) <=> env_status[s] = "FREE"

\* The kernel panics for want of memory in sbrk and for the clock's overflow, but
\* never because a freed environment's page tables are used (by a second
\* env_free, a send or an env_run) or because it has no idle environment to run.
OnlyResourcePanics == kernel # "panic"

\* What env.c:490-492 promises of a zombie, that its next entry to the kernel
\* frees it: until then it is on the CPU where it ran.
NoSlotLost ==
  \A s \in Slots : env_status[s] = "DYING" => \E c \in CPUs : curenv[c] = s

\* Round robin starves nobody: while no environment exits, every RUNNABLE one
\* is sent to user mode, unless set_status takes its turn away or the kernel
\* stops.  (After an exit sched_yield skips the scan and may idle.)
EveryoneRuns ==
  \A s \in Slots \ CPUs :
    env_status[s] = "RUNNABLE" ~> env_status[s] # "RUNNABLE" \/ kernel # "up"

===============================================================================
