------------------------------ MODULE JosPages -------------------------------
(***************************************************************************)
(* Physical pages and page tables of the kernel (kern/pmap.c), the memory  *)
(* system calls (kern/syscall.c), the page directories of environments     *)
(* (kern/env.c), each CPU's TLB, and the library's copy-on-write fork      *)
(* (lib/fork.c, lib/pgfault.c) above them.                                 *)
(*                                                                         *)
(* An environment has one page directory and one page-table page; a page   *)
(* holds one value.  Kernel routines are operators on the record vm, as    *)
(* they call one another under the big kernel lock; a step is one system   *)
(* call, one page fault, one user access or one switch.  Between two calls *)
(* of fork the parent runs on, writing its stack, on any CPU.              *)
(*                                                                         *)
(* The order of the free list is not observable, so page_alloc takes the   *)
(* lowest free page; which environment a CPU runs next is any ready one    *)
(* (JosEnv has the scheduler).  A page that programs share on purpose      *)
(* (IPC, sfork, spawn) is not modelled.                                    *)
(***************************************************************************)
EXTENDS Integers, FiniteSets

CONSTANTS
  Env,     \* slots of envs[]
  Boot,    \* the environment that boot created
  Cpu,
  NPAGE,   \* number of physical pages that page_init put on the free list
  NVA,     \* user pages: 0 is PFTEMP, 1 read-only text, NVA the stack
  Val,     \* what a page may hold
  Zero,    \* ... after memset
  MaxOps,  \* bound on the forks and page faults of all programs
  NoEnv, NoPage, NoVal

Page == 1 .. NPAGE
PFTEMP == 0
Stack == NVA
UXSTACK == NVA + 1
UserVa == 1 .. NVA            \* what fork's loop finds mapped, and copies
Va == PFTEMP .. UXSTACK
Perms == {"ro", "w", "cow"}
Pcs == {"run", "exofork", "dup", "ro", "child", "own", "upcall", "status",
        "panic"}
FaultPcs == {"none", "alloc", "copy", "map"}

ASSUME PagesAssumption ==
  /\ NVA \in Nat \ {0} /\ NPAGE \in Nat /\ NPAGE > NVA + 2 /\ MaxOps \in Nat
  /\ IsFiniteSet(Env) /\ Boot \in Env /\ Zero \in Val
  /\ NoEnv \notin Env /\ NoPage \notin Page /\ NoVal \notin Val

Pte == [page : Page \cup {NoPage}, perm : Perms]
Absent == [page |-> NoPage, perm |-> "ro"]
NoPtes == [va \in Va |-> Absent]

VARIABLES
  vm,      \* the kernel's pages, page tables and TLBs, see VmType
  cur,     \* [Cpu -> Env or NoEnv]: curenv; NoEnv stands for an idle one
  status,  \* [Env -> "free", "not_runnable", "ready" or "dying"]
  parent,  \* [Env -> Env or NoEnv]: env_parent_id while it names a live one
  upcall,  \* [Env -> BOOLEAN]: is env_pgfault_upcall set
  pc,      \* [Env -> Pcs]: where the program is in fork
  kid,     \* [Env -> Env or NoEnv]: fork's envid
  dup,     \* [Env -> UserVa or 0]: fork's addr
  fault,   \* [Env -> [pc : FaultPcs, va : Va]]: the page fault handler
  ops      \* forks and page faults so far

prog == <<upcall, pc, kid, dup, fault>>
vars == <<vm, cur, status, parent, prog, ops>>

VmType == [ref  : [Page -> Nat],               \* pp_ref
           free : SUBSET Page,                 \* page_free_list
           data : [Page -> Val \cup {NoVal}],  \* NoVal in a free page
           dir  : [Env -> Page \cup {NoPage}], \* env_pgdir
           tab  : [Env -> Page \cup {NoPage}], \* the page env_pgdir points to
           pte  : [Env -> [Va -> Pte]],
           tlb  : [Cpu -> [Va -> Pte]]]

NoFault == [pc |-> "none", va |-> PFTEMP]

TypeOK ==
  /\ vm \in VmType
  /\ cur \in [Cpu -> Env \cup {NoEnv}]
  /\ status \in [Env -> {"free", "not_runnable", "ready", "dying"}]
  /\ parent \in [Env -> Env \cup {NoEnv}]
  /\ upcall \in [Env -> BOOLEAN]
  /\ pc \in [Env -> Pcs]
  /\ kid \in [Env -> Env \cup {NoEnv}]
  /\ dup \in [Env -> 0 .. NVA + 1]
  /\ fault \in [Env -> [pc : FaultPcs, va : Va]]
  /\ ops \in 0 .. MaxOps

-----------------------------------------------------------------------------
(* Pages: kern/pmap.c. *)

\* The page that page_alloc takes when the list is not empty.
Head(s) == CHOOSE p \in s.free : \A q \in s.free : p <= q

\* page_alloc(ALLOC_ZERO): the page leaves the list cleared, with no reference.
PageAlloc(s) ==
  LET p == Head(s) IN [s EXCEPT !.free = @ \ {p}, !.data[p] = Zero]

\* page_free; the contents of a free page do not matter.
PageFree(s, p) ==
  IF s.ref[p] = 0 THEN [s EXCEPT !.free = @ \cup {p}, !.data[p] = NoVal] ELSE s

PageDecref(s, p) == PageFree([s EXCEPT !.ref[p] = @ - 1], p)

\* invlpg, only when c runs on the page table that was edited.
TlbInvalidate(s, c, e, va) ==
  IF cur[c] = e THEN [s EXCEPT !.tlb[c][va] = Absent] ELSE s

\* lcr3 forgets every user entry of the CPU.
Lcr3(s, c) == [s EXCEPT !.tlb[c] = NoPtes]

PageRemove(s, c, e, va) ==
  LET p == s.pte[e][va].page IN
  IF p = NoPage THEN s
  ELSE TlbInvalidate(PageDecref([s EXCEPT !.pte[e][va] = Absent], p), c, e, va)

\* pgdir_walk(create) finds no page for the page table.
NoTable(s, e) == s.tab[e] = NoPage /\ s.free = {}

\* pgdir_walk(create): allocates e's page-table page when it has none.
PgdirWalk(s, e) ==
  IF s.tab[e] # NoPage THEN s
  ELSE [PageAlloc(s) EXCEPT !.ref[Head(s)] = 1, !.tab[e] = Head(s)]

\* The entry of a page that comes in place of what was there.
Replace(s, c, e, p, va, perm) ==
  [PageRemove(s, c, e, va) EXCEPT
     !.ref[p] = @ + 1, !.pte[e][va] = [page |-> p, perm |-> perm]]

\* A mutant of PageInsert: a changed permission stays in the TLB.
PageInsertKeepTlb(s, c, e, p, va, perm) ==
  LET t == PgdirWalk(s, e) IN
  IF t.pte[e][va].page = p THEN [t EXCEPT !.pte[e][va].perm = perm]
  ELSE Replace(t, c, e, p, va, perm)

\* page_insert, when the page table exists or can be made.
PageInsert(s, c, e, p, va, perm) ==
  LET t == PgdirWalk(s, e) IN
  IF t.pte[e][va].page = p
  THEN [TlbInvalidate(t, c, e, va) EXCEPT !.pte[e][va].perm = perm]
  ELSE Replace(t, c, e, p, va, perm)

-----------------------------------------------------------------------------
(* The memory calls of kern/syscall.c, made on CPU c; ok is a result >= 0. *)

Failed(s) == [vm |-> s, ok |-> FALSE]
Done(s) == [vm |-> s, ok |-> TRUE]

SysPageAlloc(s, c, e, va) ==
  IF s.free = {} THEN Failed(s)
  ELSE LET p == Head(s)
           t == PageAlloc(s)
       IN IF NoTable(t, e) THEN Failed(PageFree(t, p))
          ELSE Done(PageInsert(t, c, e, p, va, "w"))

\* perm may be "w" only for a page that is "w" at the source.
SysPageMap(s, c, src, srcva, dst, dstva, perm) ==
  LET p == s.pte[src][srcva] IN
  IF p.page = NoPage \/ (perm = "w" /\ p.perm # "w") \/ NoTable(s, dst)
  THEN Failed(s)
  ELSE Done(PageInsert(s, c, dst, p.page, dstva, perm))

SysPageUnmap(s, c, e, va) == PageRemove(s, c, e, va)

\* env_setup_vm: a page directory, which counts one reference.
EnvSetupVm(s, e) ==
  IF s.free = {} THEN Failed(s)
  ELSE Done([PageAlloc(s) EXCEPT !.ref[Head(s)] = @ + 1, !.dir[e] = Head(s)])

\* env_free: all user pages, the page table, the directory.
RemoveAll(s, c, e) ==
  LET rm[n \in 0 .. UXSTACK + 1] ==
        IF n = 0 THEN s ELSE PageRemove(rm[n - 1], c, e, n - 1)
  IN rm[UXSTACK + 1]

\* A mutant of EnvFree: the page-table page is forgotten.
EnvFreeKeepTable(s, c, e) ==
  LET t == RemoveAll(IF cur[c] = e THEN Lcr3(s, c) ELSE s, c, e)
  IN PageDecref([t EXCEPT !.tab[e] = NoPage, !.dir[e] = NoPage], t.dir[e])

EnvFree(s, c, e) ==
  LET t == RemoveAll(IF cur[c] = e THEN Lcr3(s, c) ELSE s, c, e)
      u == IF t.tab[e] = NoPage THEN t
           ELSE PageDecref([t EXCEPT !.tab[e] = NoPage], t.tab[e])
  IN PageDecref([u EXCEPT !.dir[e] = NoPage], u.dir[e])

-----------------------------------------------------------------------------
(* Environments: which are alive, and which a CPU runs. *)

\* After boot: Boot runs on one CPU with its text, data and stack mapped.
Init ==
  LET dir == 1  tab == 2
      used == 1 .. NVA + 2
      at(va) == IF va \in UserVa
                THEN [page |-> va + 2, perm |-> IF va = 1 THEN "ro" ELSE "w"]
                ELSE Absent
  IN
  /\ vm = [ref  |-> [p \in Page |-> IF p \in used THEN 1 ELSE 0],
           free |-> Page \ used,
           data |-> [p \in Page |-> IF p \in used THEN Zero ELSE NoVal],
           dir  |-> [e \in Env |-> IF e = Boot THEN dir ELSE NoPage],
           tab  |-> [e \in Env |-> IF e = Boot THEN tab ELSE NoPage],
           pte  |-> [e \in Env |-> IF e = Boot THEN [va \in Va |-> at(va)]
                                               ELSE NoPtes],
           tlb  |-> [c \in Cpu |-> NoPtes]]
  /\ cur = [c \in Cpu |-> NoEnv]
  /\ status = [e \in Env |-> IF e = Boot THEN "ready" ELSE "free"]
  /\ parent = [e \in Env |-> NoEnv]
  /\ upcall = [e \in Env |-> FALSE]
  /\ pc = [e \in Env |-> "run"]
  /\ kid = [e \in Env |-> NoEnv]
  /\ dup = [e \in Env |-> 0]
  /\ fault = [e \in Env |-> NoFault]
  /\ ops = 0

\* Every fork and every page fault counts.
Counted == ops < MaxOps /\ ops' = ops + 1

\* The timer or a yield: sched_yield and env_run switch c to e, or to an idle
\* environment.  lcr3 is loaded only when the environment changes.
Switch(c, e) ==
  /\ cur[c] # e
  /\ cur[c] # NoEnv => status[cur[c]] = "ready"
  /\ e # NoEnv => status[e] = "ready" /\ \A d \in Cpu : cur[d] # e
  /\ cur' = [cur EXCEPT ![c] = e]
  /\ vm' = Lcr3(vm, c)
  /\ UNCHANGED <<status, parent, prog>>

\* What is left of e when env_free is done, and the slot is free again.
Freed(c, e) ==
  /\ vm' = EnvFree(vm, c, e)
  /\ cur' = [d \in Cpu |-> IF d = c /\ cur[d] = e THEN NoEnv ELSE cur[d]]
  /\ status' = [status EXCEPT ![e] = "free"]
  /\ parent' = [d \in Env |-> IF d = e \/ parent[d] = e THEN NoEnv
                              ELSE parent[d]]
  /\ upcall' = [upcall EXCEPT ![e] = FALSE]
  /\ pc' = [pc EXCEPT ![e] = "run"]
  /\ kid' = [kid EXCEPT ![e] = NoEnv]
  /\ dup' = [dup EXCEPT ![e] = 0]
  /\ fault' = [fault EXCEPT ![e] = NoFault]

\* A zombie enters the kernel and is freed by its own CPU (trap).
Reap(c) == cur[c] # NoEnv /\ status[cur[c]] = "dying" /\ Freed(c, cur[c])

\* e is on c and neither a zombie nor stopped by a failed check.
Runs(c, e) == cur[c] = e /\ status[e] = "ready" /\ pc[e] # "panic"

\* The program's own next step, not the page fault handler's.
At(c, e, step) == Runs(c, e) /\ fault[e].pc = "none" /\ pc[e] = step

\* exit: sys_env_destroy(0).
Exit(c, e) == At(c, e, "run") /\ Freed(c, e)

\* sys_env_destroy of a child that fork has returned: at once, or as a zombie
\* when another CPU runs it.
Destroy(c, e, victim) ==
  /\ At(c, e, "run")
  /\ parent[victim] = e /\ status[victim] = "ready"
  /\ IF \E d \in Cpu : cur[d] = victim
     THEN /\ status' = [status EXCEPT ![victim] = "dying"]
          /\ UNCHANGED <<vm, cur, parent, prog>>
     ELSE Freed(c, victim)

-----------------------------------------------------------------------------
(* User accesses, through the TLB of the CPU. *)

\* The entry the CPU uses: a cached one is not looked up again.
Entry(c, e, va) ==
  IF vm.tlb[c][va].page # NoPage THEN vm.tlb[c][va] ELSE vm.pte[e][va]

\* The pages a program writes: any of its own, but inside fork its stack only.
Writes(e, va) ==
  /\ fault[e].pc = "none"
  /\ va \in UserVa
  /\ pc[e] # "run" => va = Stack

Write(c, e, va, v) ==
  LET t == Entry(c, e, va) IN
  /\ Runs(c, e) /\ Writes(e, va)
  /\ t.page # NoPage /\ t.perm = "w"
  /\ vm' = [vm EXCEPT !.data[t.page] = v, !.tlb[c][va] = t]
  /\ UNCHANGED <<cur, status, parent, prog>>

\* page_fault_handler: a write to a copy-on-write page enters pgfault on the
\* exception stack; user_mem_assert destroys the environment without one.
PageFault(c, e, va) ==
  LET t == Entry(c, e, va) IN
  /\ Runs(c, e) /\ Writes(e, va)
  /\ t.page # NoPage /\ t.perm = "cow"
  /\ IF upcall[e] /\ vm.pte[e][UXSTACK].perm = "w"
     THEN /\ fault' = [fault EXCEPT ![e] = [pc |-> "alloc", va |-> va]]
          /\ UNCHANGED <<vm, cur, status, parent, upcall, pc, kid, dup>>
     ELSE Freed(c, e)

\* A program unmaps one of its pages below the stack.
DataVa == UserVa \ {Stack}

Unmap(c, e, va) ==
  /\ At(c, e, "run") /\ va \in DataVa
  /\ vm' = SysPageUnmap(vm, c, e, va)
  /\ UNCHANGED <<cur, status, parent, prog>>

-----------------------------------------------------------------------------
(* pgfault of lib/fork.c: allocate, copy, map. *)

Handles(c, e, step) == Runs(c, e) /\ fault[e].pc = step

\* A library call of e returned r; on failure the library panics.
Returns(e, r, next) ==
  /\ vm' = r.vm
  /\ pc' = [pc EXCEPT ![e] = IF r.ok THEN next ELSE "panic"]

FaultAlloc(c, e) ==
  LET r == SysPageAlloc(vm, c, e, PFTEMP) IN
  /\ Handles(c, e, "alloc")
  /\ Returns(e, r, pc[e])
  /\ fault' = [fault EXCEPT ![e].pc = IF r.ok THEN "copy" ELSE @]
  /\ UNCHANGED <<cur, status, parent, upcall, kid, dup>>

\* memmove(PFTEMP, addr, PGSIZE).
FaultCopy(c, e) ==
  LET src == Entry(c, e, fault[e].va)
      tmp == Entry(c, e, PFTEMP)
  IN
  /\ Handles(c, e, "copy")
  /\ vm' = [vm EXCEPT !.data[tmp.page] = vm.data[src.page],
                      !.tlb[c][PFTEMP] = tmp, !.tlb[c][fault[e].va] = src]
  /\ fault' = [fault EXCEPT ![e].pc = "map"]
  /\ UNCHANGED <<cur, status, parent, upcall, pc, kid, dup>>

FaultMap(c, e) ==
  LET r == SysPageMap(vm, c, e, PFTEMP, e, fault[e].va, "w") IN
  /\ Handles(c, e, "map")
  /\ Returns(e, r, pc[e])
  /\ fault' = [fault EXCEPT ![e] = IF r.ok THEN NoFault ELSE @]
  /\ UNCHANGED <<cur, status, parent, upcall, kid, dup>>

-----------------------------------------------------------------------------
(* fork of lib/fork.c, one system call a step. *)

\* set_pgfault_handler: the first time, an exception stack and the upcall.
ForkHandler(c, e) ==
  LET r == IF upcall[e] THEN Done(vm) ELSE SysPageAlloc(vm, c, e, UXSTACK) IN
  /\ At(c, e, "run")
  /\ Returns(e, r, "exofork")
  /\ upcall' = [upcall EXCEPT ![e] = r.ok]
  /\ UNCHANGED <<cur, status, parent, kid, dup, fault>>

\* sys_exofork: a slot and a page directory, or a panic.
ForkExofork(c, e) ==
  /\ At(c, e, "exofork")
  /\ LET slots == {d \in Env : status[d] = "free"} IN
     IF slots = {} \/ vm.free = {}
     THEN /\ pc' = [pc EXCEPT ![e] = "panic"]
          /\ UNCHANGED <<vm, status, parent, kid, dup>>
     ELSE \E d \in slots :
          /\ Returns(e, EnvSetupVm(vm, d), "dup")
          /\ status' = [status EXCEPT ![d] = "not_runnable"]
          /\ parent' = [parent EXCEPT ![d] = e]
          /\ kid' = [kid EXCEPT ![e] = d]
          /\ dup' = [dup EXCEPT ![e] = 1]
  /\ UNCHANGED <<cur, upcall, fault>>

\* A mutant of Sharing: only what is writable now is shared copy-on-write.
SharingWritable(perm) == IF perm = "w" THEN "child" ELSE "ro"

\* The loop over addr and duppage's test: what is writable or copy-on-write is
\* shared copy-on-write, what is not mapped is passed over.
Sharing(perm) == IF perm = "ro" THEN "ro" ELSE "child"

ForkDup(c, e) ==
  LET t == vm.pte[e][dup[e]] IN
  /\ At(c, e, "dup") /\ dup[e] \in UserVa
  /\ IF t.page = NoPage
     THEN dup' = [dup EXCEPT ![e] = @ + 1] /\ UNCHANGED pc
     ELSE pc' = [pc EXCEPT ![e] = Sharing(t.perm)] /\ UNCHANGED dup
  /\ UNCHANGED <<vm, cur, status, parent, upcall, kid, fault>>

\* duppage's last call for addr returned r; a panic does not go on.
NextAddr(e, r) == dup' = [dup EXCEPT ![e] = IF r.ok THEN @ + 1 ELSE @]

\* duppage's call for a read-only page.
ForkReadOnly(c, e) ==
  LET va == dup[e]
      r == SysPageMap(vm, c, e, va, kid[e], va, "ro")
  IN
  /\ At(c, e, "ro")
  /\ Returns(e, r, "dup") /\ NextAddr(e, r)
  /\ UNCHANGED <<cur, status, parent, upcall, kid, fault>>

\* duppage's first call for the others: the child never gets it writable.
ForkChild(c, e) ==
  /\ At(c, e, "child")
  /\ Returns(e, SysPageMap(vm, c, e, dup[e], kid[e], dup[e], "cow"), "own")
  /\ UNCHANGED <<cur, status, parent, upcall, kid, dup, fault>>

\* duppage's second call: our own mapping becomes copy-on-write.
ForkOwn(c, e) ==
  LET va == dup[e]
      r == SysPageMap(vm, c, e, va, e, va, "cow")
  IN
  /\ At(c, e, "own")
  /\ Returns(e, r, "dup") /\ NextAddr(e, r)
  /\ UNCHANGED <<cur, status, parent, upcall, kid, fault>>

\* A fresh exception stack, the upcall, and the child may run.
ForkUx(c, e) ==
  /\ At(c, e, "dup") /\ dup[e] \notin UserVa
  /\ Returns(e, SysPageAlloc(vm, c, kid[e], UXSTACK), "upcall")
  /\ UNCHANGED <<cur, status, parent, upcall, kid, dup, fault>>

ForkUpcall(c, e) ==
  /\ At(c, e, "upcall")
  /\ upcall' = [upcall EXCEPT ![kid[e]] = TRUE]
  /\ pc' = [pc EXCEPT ![e] = "status"]
  /\ UNCHANGED <<vm, cur, status, parent, kid, dup, fault>>

ForkStatus(c, e) ==
  /\ At(c, e, "status")
  /\ status' = [status EXCEPT ![kid[e]] = "ready"]
  /\ pc' = [pc EXCEPT ![e] = "run"]
  /\ kid' = [kid EXCEPT ![e] = NoEnv]
  /\ dup' = [dup EXCEPT ![e] = 0]
  /\ UNCHANGED <<vm, cur, parent, upcall, fault>>

Fork(c, e) ==
  \/ ForkExofork(c, e) \/ ForkDup(c, e)
  \/ ForkReadOnly(c, e) \/ ForkChild(c, e) \/ ForkOwn(c, e)
  \/ ForkUx(c, e) \/ ForkUpcall(c, e) \/ ForkStatus(c, e)

Begin(c, e) ==
  \/ ForkHandler(c, e)
  \/ \E va \in UserVa : PageFault(c, e, va)

Other ==
  \/ \E c \in Cpu : Reap(c)
  \/ \E c \in Cpu, e \in Env \cup {NoEnv} : Switch(c, e)
  \/ \E c \in Cpu, e \in Env : Exit(c, e) \/ Fork(c, e)
  \/ \E c \in Cpu, e \in Env : FaultAlloc(c, e) \/ FaultCopy(c, e) \/ FaultMap(c, e)
  \/ \E c \in Cpu, e, victim \in Env : Destroy(c, e, victim)
  \/ \E c \in Cpu, e \in Env, va \in UserVa :
       Unmap(c, e, va) \/ \E v \in Val : Write(c, e, va, v)

Next ==
  \/ Counted /\ \E c \in Cpu, e \in Env : Begin(c, e)
  \/ UNCHANGED ops /\ Other

Spec == Init /\ [][Next]_vars

-----------------------------------------------------------------------------
(* Properties. *)

\* Every pp_ref is the number of places that point to the page, and the free
\* list is the pages nothing points to: a forgotten page_decref leaks memory, a
\* second one hands a page in use to somebody else.
Uses(p) ==
  Cardinality({x \in Env \X Va : vm.pte[x[1]][x[2]].page = p})
  + Cardinality({e \in Env : vm.dir[e] = p})
  + Cardinality({e \in Env : vm.tab[e] = p})

RefsExact ==
  /\ TypeOK
  /\ \A p \in Page : /\ vm.ref[p] = Uses(p)
                     /\ p \in vm.free <=> vm.ref[p] = 0

\* tlb_invalidate looks at the local CPU only; it is enough as long as nobody
\* edits the page table of an environment another CPU runs: what a TLB holds
\* is what the page table of the CPU's environment says.
TlbCoherent ==
  \A c \in Cpu, va \in Va :
    vm.tlb[c][va].page # NoPage =>
      cur[c] # NoEnv /\ vm.tlb[c][va] = vm.pte[cur[c]][va]

\* A page that is not yet the child's: fork gave it to the child, but the
\* parent still writes to the same page.
HandedOver(e, va) ==
  \A p \in Env :
    ~(/\ kid[p] = e /\ dup[p] = va /\ pc[p] \in {"own", "panic"}
      /\ vm.pte[p][va] = [page |-> vm.pte[e][va].page, perm |-> "w"])

Mem == [e \in Env |-> [va \in UserVa |->
         IF vm.pte[e][va].page # NoPage /\ HandedOver(e, va)
         THEN vm.data[vm.pte[e][va].page] ELSE NoVal]]

\* Copy on write keeps what fork promises: memory behaves as if every
\* environment had its own, whatever parent and child write, fault on, unmap or
\* leave behind while the fork goes on and after.
Own == INSTANCE OwnMemory WITH
  Va <- UserVa, mem <- Mem, running <- {e \in Env : \E c \in Cpu : cur[c] = e}
ImplementsOwnMemory == Own!Spec
=============================================================================
