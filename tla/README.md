# JOS, modelled and proved

JOS is a small multiprocessor exokernel with user-level servers: the kernel
gives out environments, pages and messages; a file server, a network server and
a user library build files, sockets and `fork` on top. The repository holds the
state of the program after each of six labs; `lab1` to `lab5` are earlier
versions of what `lab6` contains, and this project models `lab6`. Paths below
are relative to `lab6/`.

## 1. Inventory

| Component | State | Operations | How it interacts | What makes it hard, and what makes it correct |
|---|---|---|---|---|
| Environment table and scheduler (`kern/env.c`, `kern/sched.c`) | `envs[]` (status, id, parent, type, IPC fields), `env_free_list`, each CPU's `curenv` | `env_alloc`, `env_free`, `env_destroy`, `envid2env`, `env_run`, `sched_yield` | called by every trap and system call under the kernel lock | an environment is destroyed by one CPU while another runs it (zombies); slots are reused while old envids are still around; every CPU must always find something to run. Correct when table, free list and CPUs agree, nobody runs twice and nobody starves |
| Kernel entries (`kern/trap.c`, `router` in `kern/syscall.c`) | the trapping environment's frame | timer, exceptions, `int 0x30`, sysenter | take the kernel lock, call the handlers, end in `env_run` or `sched_yield` | two entry paths with different checks; the current environment may have been changed by another CPU since it left the kernel |
| System calls and IPC (`kern/syscall.c`) | the environment table, page tables | exofork, set_status, destroy, page calls, `sys_ipc_recv`, `sys_ipc_try_send` | any program, in any order | blocked receivers against senders, `set_status` and destroy; a message must not be lost or overwritten, and only kin may control an environment |
| Big kernel lock (`kern/spinlock.c`) | `locked` or `own`/`next`, debugging owner | `spin_lock`, `spin_unlock` | held from kernel entry to `env_run` | races of unlocked debugging reads; wrapping tickets; a plain load in the waiting loop. Correct when it excludes, is never lost, and (tickets) serves in order |
| Pages and page tables (`kern/pmap.c`) | `pages[]` reference counts, page free list, page directories, TLBs | `page_alloc`, `page_alloc_npages`, `page_insert`, `page_remove`, `page_lookup` | page system calls, IPC, `env_free` | sharing between environments and CPUs: a page is free exactly when nobody maps it; a CPU's TLB does not outlive the mapping |
| Fork and fault upcall (`lib/fork.c`, `lib/pgfault.c`) | page tables of parent and child, COW bits | `fork`, `sfork`, `pgfault` | page system calls, several per page, interruptible between any two | order of the two remappings in `duppage`; a fault in the middle; correct when parent and child have equal, separate copies |
| Client IPC, exit (`lib/ipc.c`, `lib/exit.c`) | none | `ipc_send` (retry loop), `ipc_recv` | kernel IPC | sender retries against receiver that dies; liveness |
| Client files (`lib/fd.c`, `lib/file.c`, `lib/pageref.c`) | descriptor pages, shared by fork and with the server | `open`, `read`, `write`, `close`, `dup` | IPC with the file server, which looks at page reference counts | reference counts change while the server trusts them |
| File server (`fs/serv.c`) | `opentab[]` | open, set_size, read, write, stat, flush, remove, sync | one IPC request at a time | reuse of an open-file slot while a client still maps its page |
| File system and block cache (`fs/fs.c`, `fs/bc.c`, `fs/ide.c`) | bitmap, directory, files, cached blocks with dirty bits, the disk | `alloc_block`, `file_*`, `dir_*`, `flush_block`, `bc_pgfault` | called by the server | crash between any two block writes: no block in two files, no allocated block marked free |
| Image builder and test (`fs/fsformat.c`, `fs/test.c`) | none at run time | host tool, start-up test | | sequential |
| Network card and clock (`kern/e1000.c`, `kern/time.c`) | descriptor rings, heads and tails; `ticks` | transmit, receive, `time_tick` | system calls against DMA by the card | full and empty rings, wrap-around; ticks of several CPUs |
| Network server and helpers (`net/*.c`, `lib/nsipc.c`, `lib/sockets.c`) | request buffers, socket table, helper environments | requests by IPC, a thread per request, input and output helpers, timer | IPC between five environments | buffers at their limit, blocked threads, pages mapped while they are still being read |
| User threads (`net/lwip/jos/arch/thread.c`, `sys_arch.c`) | thread queue, semaphores, mailboxes | create, yield, wait, wakeup | lwIP and the network server | cooperative, with timeouts and counting wakeups |
| Allocator (`lib/malloc.c`) | `mptr`, reference counts inside pages | `malloc`, `free` | page system calls | wrap at the end of the arena |
| Spawn and programs (`lib/spawn.c`, `user/`) | none of their own | | all of the above | |
| Console, monitor, printing, discovery, boot, lwIP | devices, or none | | | device registers, formatting, straight-line boot code, vendored code |

`PROJECT.json` lists the components with their sources and status, and the
hazards with their lines and the properties that watch them.

## 2. Plan

Order, most important first; what is done is said at each point.

1. `JosEnv` (environment table, scheduler, entries, control system calls, IPC)
   with `MCJosEnv`; proofs in `JosEnvProofs`. Done.
2. `KernelLock`, the abstract lock, implemented by `SpinLock` (proof in
   `SpinLockProofs`) and `TicketLock`, which also implements `QueueLock`, first come
   first served (proofs in `TicketLockProofs`). Done.
3. `OwnMemory`, "every environment has its own memory", implemented by `JosPages`:
   reference counts, the free list, page tables and TLBs under the steps of `fork`
   and its page fault handler. Done; proofs in `JosPagesProofs`.
4. `FileStore`, a map from names to contents of which a crash keeps what was synced,
   implemented by `FsDisk`: bitmap, directory, files and block cache over a disk.
   Done; proofs in `FsDiskProofs`.
5. `FileServer`: `opentab`, `Fd` pages, `pageref` and the clients. Done; proofs in
   `FileServerProofs`.
6. `PacketQueue`, "every packet once and in order", implemented by both rings of
   `E1000` (proof in `E1000Proofs`); `NetServer`, the request threads with their semaphores and mailboxes,
   keeps it for the packets of each socket. Done; proofs in `NetServerProofs`.
7. Left: `sfork` and pages sent by IPC on top of `JosPages`; `sys_sem_free` and
   timeouts in `NetServer`; the allocator; `FsDisk`'s refinement of `FileStore` as a
   theorem.

## 3. Modules and code

### JosEnv

Both kernel entries take the kernel lock first and the handlers keep it until
`env_run` gives it back in front of the return to user mode. One step of `JosEnv`
is therefore one whole visit of a CPU to the kernel: entry, handler, trailing
`sched_yield` or `env_run`. That the lock makes visits atomic is not assumed but
the subject of `SpinLock` and `TicketLock`, which implement `KernelLock`.

| Model | Code |
|---|---|
| `env_status`, `env_gen`, `env_parent_id`, `env_type`, `env_ipc_*` | the fields of `struct Env`; `env_gen` is the uniqueifier, the upper bits of `env_id`; 0 while a slot was never used |
| `env_ipc_page` | whether the last delivery called `page_insert`; the page itself is not modelled |
| `env_free_list` | the `env_link` chain. `env_pgdir` is null exactly for the slots on it, so `OnFreeList` stands for a null `env_pgdir` |
| `curenv[c]` | `cpus[c].cpu_env` |
| `kernel` | `"up"`, or why the kernel stopped; it then never gives the lock back. `"monitor"`: no environment is left to run; `"no_memory"`: sbrk's panics; `"clock_overflow"`: `time_tick`'s; `"panic"`: a null `env_pgdir` or no idle environment |
| `Boot` | `mp_main`'s and `i386_init`'s first `sched_yield`; the boot processor holds the lock until it leaves, so it is first |
| `Timer`, `CollectZombie` | a clock interrupt, which may overflow the count of ticks; `trap()` frees a `DYING` environment before it does anything else |
| `Fault` | an unhandled exception, a breakpoint after the monitor, or `user_mem_assert` |
| `Sys...` | the system calls, by `"trap"` (`int 0x30`) or `"sysenter"` (`router`); the difference is in `Zombie` and `Return` |
| `SysSbrk` | `sbrk`, which panics when there is no page or no page table left |
| `SysOther` | every call that returns an error or, sbrk apart, touches only memory, devices or the clock |
| `Visit(c)` | the whole of a CPU's visit: the entry, one of the above, and the way out |
| `EnvRun`, `SchedYield`, `RunIdle`, `EnvDestroy`, `Envid2Env` | the functions of the same names |

The circular scan of `sched_yield` is `First`: the candidate with the smallest
`Distance` from the current slot. With `curenv` null the scan is skipped, as in
the code.

Three specifications share the actions. `Spec`: programs do whatever they like; the
first half of `JosEnvProofs` is about it. The runs use the other two.
`PoliteSpec`: programs keep to what `lib/` and `user/` do, which is to destroy a
child at most once while it runs elsewhere, and to give `sys_env_set_status` only
`ENV_RUNNABLE` or `ENV_NOT_RUNNABLE`, and only for a child that is not blocked in
`sys_ipc_recv`. `LastingSpec`: polite programs that do not exit, with fairness.

### KernelLock, SpinLock, TicketLock

`KernelLock` is what callers rely on: one holder at a time. `SpinLock` and
`TicketLock` are the two builds of `kern/spinlock.c`, each read and write of a
field of the lock a step of its own, including the unlocked reads of `holding()`
under `DEBUG_SPINLOCK`. `spinlock.h:11` leaves `USE_TICKET_SPIN_LOCK` commented out, so
the xchg lock is the default.

`while (lk->own != target);` races with another CPU's store, and `own` is not volatile: a
compiler may read it once before the loop, as gcc does at the `-O1` of the Makefile
(`GNUmakefile:84`). After a turn that found another ticket's number, `Wait` therefore
goes on waiting or is `"stuck"`, for ever; which of the two is left to the compiler. What
is checked and proved holds for both, and nothing is claimed of when, or whether, a
CPU that waits gets in.

`QueueLock` says what tickets add: a CPU enters only after every CPU that was waiting
when it asked. Its `waiting` and `ahead` are, in `TicketLock`, the CPUs between drawing a
ticket and holding the lock, and those of them whose ticket is called earlier, counted
modulo the width of the counters.

### OwnMemory, JosPages

`JosPages` is one environment table, several CPUs and the pages below them. The
functions of `kern/pmap.c` are operators on one record, `vm`, because they call each
other inside one system call under the kernel lock; a step is one system call, one
page fault, one user access or one environment switch. `fork` is split into its
system calls, so that timer switches, the parent's own stack writes and the faults
they cause come between any two.

| Model | Code |
|---|---|
| `vm.ref`, `vm.free`, `vm.data` | `pp_ref`, `page_free_list`, what a page holds |
| `vm.dir`, `vm.tab`, `vm.pte` | the page directory, the one page-table page it points to, and its entries |
| `vm.tlb[c]` | what CPU `c` has cached; `TlbInvalidate` and `Lcr3` are the two ways to forget it |
| `PageAlloc`, `PageDecref`, `PgdirWalk`, `PageInsert`, `PageRemove`, `EnvSetupVm`, `EnvFree` | the functions of those names |
| `SysPageAlloc`, `SysPageMap`, `SysPageUnmap` | the system calls, with their failures |
| `Switch`, `Reap`, `Exit`, `Destroy` | `env_run` after a timer or yield, `trap()` freeing a zombie, exit, destroying a child |
| `Write`, `PageFault` | user accesses: through the TLB entry if there is one, else the page table |
| `FaultAlloc`, `FaultCopy`, `FaultMap` | `pgfault` |
| `ForkHandler` ... `ForkStatus` | `fork` and `duppage`, in the order of the code; `pc`, `kid`, `dup` are its program counter, `envid` and `addr` |

The abstract memory of an environment is what its page table leads to, with one
exception: a page that `duppage` has given to the child, and that the parent still
writes through its own entry, counts as the child's only when the parent's entry
has become copy-on-write (`HandedOver`). That is the abstract moment of the copy.
What the code reads through a TLB is therefore covered by two properties together:
`ImplementsOwnMemory` is about page tables, `TlbCoherent` says TLBs agree with them.

### FileStore, FsDisk

The file server does one operation at a time, so an operation on the cache is one
step, computed by operators that follow `fs/fs.c`; what may be interrupted is its
writing. `FlushBlock` collects the block writes with the contents they have at that
point, `DiskWrite` carries them out one by one, and `Crash` may come between any
two: the cache becomes what the disk holds.

| Model | Code |
|---|---|
| `mem`, `disk` | the block cache as the server reads it; the disk |
| `todo` | the block writes of the operation that `ide_write` has not done yet |
| `gone` | the directory slots whose file was removed since the start, which `o_file` of a client's descriptor may still point to |
| `synced`, `promised`, `tainted` | ghosts: the names whose state a crash must keep, now and when `todo` is done; whether a removed file has been changed |
| a block | a record with one field for each use (bitmap, directory, pointers, data), so that a block used in two ways shows |
| `AllocBlock`, `FreeBlock`, `BlockWalk`, `GetBlock`, `FreeFileBlock`, `TruncateBlocks`, `SetSize`, `FileFlush` | the functions of those names, with their flushes |
| `DirFind`, `DirAllocFile`, `FileCreate`, `FileRemove`, `FileWrite`, `FsSync` | likewise |

Requests act on `o->o_file` and do not ask whether the file still has a name
(`fs/serv.c:193,224,247,287`), so `Operation` takes any file of `Files(mem) \cup gone`. Such
a slot is free for `dir_alloc_file`, and `file_create` sets its name only
(`fs/fs.c:346`): after a late write, a new file begins with the size and the blocks that
the removed one was given. `FileStore` says so. A file is created empty, or with one of
`leftovers`, the contents of nameless slots; those can be other than empty only when a
removed file was changed (`tainted`). A name whose file was created over such a slot is
synced at its next flush only, since `file_create` flushes the directory and nothing of
the file (`Bare`).

`Spec` truncates as the programs do: to sizes that direct blocks hold. `AnySpec`
truncates to any size, which the request `FSREQ_SET_SIZE` allows.

### FileServer

Clients and server around `opentab`. A request is received by the server when the
server waits; `ipc_send`'s failed attempts change nothing and are not steps. The
answer is a step of its own, `Reply`, and the client's `ipc_recv` another, `Recv`, so
that the server can be done before the client listens.

| Model | Code |
|---|---|
| `opentab`, `fdpage` | `o_fileid` (slot and generation) with `o_file`; the page at `o_fd` |
| `fds` | each descriptor: nothing, a mapping of the server's page (writable or copy-on-write), or a private copy made by a write after a fork |
| `fsipcbuf` | how the client maps its request page; a fork makes it copy-on-write |
| `PageRef`, `Unused`, `Accepted` | `pageref`, the cases of `openfile_alloc`, the test of `openfile_lookup` |
| `ServeOpen`, `ServeFile`, `ServeRemove`, `ServeSync` | the handlers; the ones that only differ in what they do to the file are one |

A failed open keeps the entry's new id and leaves its page cleared, as in the code; when
`sys_page_alloc` fails for an entry without a page, nothing changes.
`FsDisk` has what is behind the `struct File`s that a directory slot stands for here.

### PacketQueue, E1000

`E1000` has the driver's accesses to the rings as single steps, and the card's as
external ones: it fetches a descriptor when head and tail differ, sends it, sets `DD`
and moves the head; it fills a buffer, sets `DD` and `EOP` together and moves the
head. `ns_output` and `ns_input` call the driver again while it fails. Both rings
implement `PacketQueue`.

### NetServer

The threads of the network server are cooperative, so a step is what one thread does
until it yields or ends. `th[b]` is the thread that serves the request in buffer `b`.

| Model | Code |
|---|---|
| `cur`, `queue` | `cur_tc`, `thread_queue` |
| `th[t]`: `pc`, `addr`, `val`, `wakeup` | where the thread is, `tc_wait_addr`, the value it waits to see changed, `tc_wakeup` |
| `sems`, `mboxes` | the semaphores (`counter`, `waiters`) and mailboxes (`head`, `nextq`, `msg`) of `sys_arch.c` |
| `buse`, `args`, `main` | the buffers, `struct st_args`, and `serve`'s own `va` and `i` |
| `SemWait`, `Signal`, `Post`, `Fetch` | `sys_arch_sem_wait` with `thread_wait`, `sys_sem_signal` with `thread_wakeup`, `sys_mbox_trypost`, `sys_arch_mbox_fetch` |
| `Flush`, `Listen`, `Accept`, `TimerRequest`, `TimerReply`, `Finish` | the loop of `serve`, `process_timer`, the end of `serve_thread` |

External, from how `serv.c` and `sys_arch.c` are called: lwIP posts a packet to its
socket's mailbox, `recv` fetches from it, and other calls go through the mailbox of
the tcpip thread and wait for `op_completed`.

## 4. Runs

| Run | Instance | What it shows |
|---|---|---|
| `polite_programs` | `PoliteSpec`; 4 slots, 2 CPUs, 1 program at boot, messages with and without pages | types; the free list is the free slots, once each; each CPU's idle environment is ready and only its own; CPUs and table agree; receivers wait; no panic but for memory and the clock; only kin kill; messages stay |
| `zombie_lost` | the same table, no pages | violated: section 7 |
| `fair_sched` | `LastingSpec`; 6 slots, 2 CPUs, 3 programs at boot and a child | every runnable environment is run |
| `spin_lock` | 4 CPUs, fair | exclusion, the debugging owner, refinement of `KernelLock`, somebody always gets in |
| `ticket_lock` | 3 CPUs, counters modulo 4, the load of `own` hoisted or not | types and order of tickets through wraps, no panic, refinement of `QueueLock` (first come, first served) and of `KernelLock` |
| `cow_fork` | 2 environments, 2 CPUs, 10 pages, 2 user pages, 5 forks or faults | every page's count is exact and the free list is the uncounted pages (`RefsExact`, with the types), no stale TLB entry, refinement of `OwnMemory` |
| `disk_crash` | 2 names, 3 free blocks, files of up to 3 blocks, removed files still open | no block in two places, none in use marked free, none beyond a file's size, in the cache and on the disk at any moment; refinement of `FileStore` |
| `file_requests` | 2 clients with 2 descriptors, a table of 1 entry, 2 opens | an accepted id is for the right file, a shared descriptor stays valid, every received request is answered |
| `card_rings` | rings of 4 descriptors, 9 packets out, 8 frames in | both refinements of `PacketQueue`; all is sent unless the ring is full, all is received |
| `net_server` | 2 clients, 5 buffers, mailboxes of 2, 5 packets | no panic, nobody left runnable while the server waits, buffers (with the types), order of packets, every call is answered |
| `truncate_inside` | `AnySpec`; 8 blocks, 2 files to a directory block | violated: section 7 |
| `ns_overflow` | 3 buffers, 5 packets that nobody has received | violated: section 7 |

Deadlock is checked in `spin_lock`, `disk_crash` and `net_server`. The others may
stop: the kernel in the monitor or in a panic, `ticket_lock` when its CPUs are stuck, `cow_fork` when its programs have
exited or panicked, `file_requests` likewise, `card_rings` when the bounded traffic is
through or the transmit ring is full.

Bounds. Two CPUs suffice for a cross-CPU destroy; the boot program and one free
slot give parent and child on different CPUs, with their slots reused; both idle
environments are real. `MaxGen = 2` makes the uniqueifier wrap on the second
reuse. Messages come with and without a page, with one permission and one place to map
it: others change what `env_ipc_perm` and `env_ipc_dstva` hold and nothing else. What any
programs, polite or not, can do is left to the proofs, which need no bound. Three programs, a child and
six slots in `fair_sched` let the scan wrap around the idle slots with two more
programs than CPUs, so that two compete for every turn. Modulo 4 with three CPUs the
tickets wrap at every point of the protocol and are never ambiguous (`NCPU < Width`).

`cow_fork`: a text page and a stack page are the two ways of `duppage`; five forks or
faults are a fork, a fault of the parent during it, one of each after it, and a second
fork, by the child or with the first slot used again; ten pages let calls run out of memory in
the middle of a fork. `disk_crash`: with one file in a directory block, the second name grows the
directory. Three free blocks hold the directory block, an indirect block and a block
behind it, or two directory blocks and one of data, so that the disk is full in the
middle of operations; two direct blocks, one behind the indirect block, and the number
after it, are the three cases of `file_block_walk`. Two names are enough for a file to be
removed, written late, and its slot to be given to the other name. Truncation
inside an indirect block, which takes more pointers, is `truncate_inside`'s. `file_requests`: with one entry every second open must take it again, and
the generation says who is meant; more entries add choices of `openfile_alloc` and no
new conflict. `card_rings`: nine packets and eight frames wrap rings of four twice.
`net_server`: five buffers are just enough for main, two clients and two packets that
wait for a full mailbox; five packets wrap a mailbox of two slots twice. What is
proved (section 6) holds for all bounds.

## 5. Fairness

`LastingSpec` assumes weak fairness of `Boot(c)` and `Timer(c)` for each CPU:
`lapic_init` programs every CPU's timer as periodic, `env_alloc` and `env_run`
set `FL_IF`, so a CPU in user mode is interrupted again and again; and a CPU that
asks for the kernel lock gets it. The last part is an assumption about the machine: the
xchg lock, the default build, promises only `SomeoneGetsIn`. The ticket lock would serve
everybody in turn if its waiting loop read `own` again, which the `-O1` build does not
(section 7). No fairness is assumed of programs. `EveryoneRuns`
needs programs that do not exit: an exit makes its CPU forget the position of the
scan (section 7), and programs that keep forking and exiting could then
starve one that is runnable.

`spin_lock` assumes that a CPU in the middle of `spin_lock` or `spin_unlock`
goes on, and that a visit to the kernel ends. `ticket_lock` assumes nothing.

`FileServer`: the server, and a client in the middle of a request, go on when they can:
`EveryoneRuns` of the scheduler. Nothing obliges a client to ask or to exit.

`E1000`: a driver call under way ends, and the card works (weak fairness). The start of
a call is strongly fair, because the other environment's calls hold the kernel lock
again and again: that a CPU which asks for the lock gets it is again an assumption about
the machine. `AllReceived` assumes a next frame up to `MaxFrames`.

`NetServer`: the server's process runs, and `ns_timer`, which sends its request every
250 ms, is received again and again; without it a packet whose thread waits for main
might wait for the next request of a client.

## 6. Theorems

Assumptions of `JosEnv`: `NENV`, `NCPU >= 1`, `MaxGen >= 2`, the idle environments and
boot programs fit in the table, the null pointer and the envid 0 are no slot and no
envid. TLC evaluates them in every run of `MCJosEnv`.

`JosEnvProofs`, for `Spec`, that is for any programs. `IdleReady` is not inductive
by itself: somebody could destroy, wake or fork over an idle environment. `IdleInv`
adds that none is on the free list, waits for a message or has a parent;
`SafeInv` adds the types and `FreeListUnique`. The proof first bounds what
`sched_yield`, `env_run` and the end of a handler can change (`Effect`) and what
`env_destroy` can (`DestroyEffect`), then takes the actions one at a time. Results:
`TypeCorrect`, `FreeListSound`, `IdleAlwaysReady`, and the action properties
`MessagesKept` and `KinKill`. `KinKill` speaks of the CPU whose visit it is: no step of
one CPU ends the life of an environment unless the one that CPU runs is it or its
creator, also when the victim runs on another CPU.

Its second part is for `PoliteSpec`. `Ready(c, st, cur)` says in which state a
handler may enter the scheduler; `SchedYieldAgrees` shows that the scheduler then
restores `OneCpu` without a panic, and each handler is shown to leave `Ready`.
`PoliteInv` is `SafeInv` with `OneCpu`, `BlockedInRecv`, `FreeListExact` and
`OnlyResourcePanics`: they need each other, because a slot that is free while it runs, or a
receiver that runs, would break the next step of the others. Results: `CpusAgree`,
`ReceiversWait`, `FreeListMatches`, `NoOtherPanic`. That every slot comes back to the free
list is not among them: a zombie's may not (`zombie_lost`).

`SpinLockProofs`, for any set of CPUs: `LockInv` (how `locked` and the owner follow
the program counters) is inductive; `Exclusion`, `Ownership` and the `Refinement` of
`KernelLock` follow.

`FileServerProofs`, for any number of clients, descriptors, table entries, files and
uses of an entry (one assumption more than TLC needs to know: the clients are finitely
many, as the environments are). `RightFile` and `OpenFileKept` are not inductive by
themselves: an entry that is taken again must not be the one that another descriptor
shares, and a private copy of an Fd page must not be ahead of its entry. `FileInv`
adds both: `Current` says that the page of an entry that somebody shares, or that an
answer carries, has the entry's id; `Honest` says of every page and every copy of one
that its generation is not above the entry's, and that the file is the same when the
generation is. The step that matters is `serve_open`'s (`EntryTaken`): an entry is taken
only when `pageref` counts no client's mapping (`UnusedUnmapped`), so that the new id
makes no shared page stale, and the new generation is above that of every copy.
Results: `FileInvariant`, `TypesHold`, `RightFileHolds`, `OpenFileKeptHolds`.

`TicketLockProofs`, for any number of CPUs below the width of the counters, and
whether or not the compiled loop reads `own` again (`Wait` allows both). `TicketsInOrder` is not inductive:
what keeps a new ticket different from the old ones is how many are out. `TicketInv`
adds `next = own + Out` modulo the width, that each ticket out is less than `Out` from
`own`, and who is recorded as the owner. It needs `NCPU < Width` and not only `<=`: if
all values were out, `next` would have caught up with `own` and `spin_unlock`, which
tells a held lock by `own != next`, would panic. `InOrder` shows each step to be one of
`QueueLock` or a stutter. A new ticket has the most before it, so that all who wait are
ahead of it; a CPU enters with nobody before it; and a release brings everybody one
nearer without changing who is before whom. Results: `TicketInvariant`,
`TicketsHold`, `ChecksPass`, `InOrder`, `TicketRefinement`.

`E1000Proofs`, for rings of any size and any number of packets. The refinements are
not visible from the registers alone: equal head and tail mean an empty transmit ring
or a full one, and a descriptor without `DD` is on its way or was never used.
`RingInv` counts instead: `TxInv` places the tail as many descriptors after the head
as there are packets handed over and not on the wire, the ring filled to the last
descriptor included, and says which packet each of these holds and that none has `DD`;
`RxInv` does the same from the driver's tail to the card's head, where one descriptor
always stays free, through the steps in which a frame is both in the ring and copied.
`TxCheckInv` is where the full ring is told from the empty one by `DD`; `CardSendInv`
and `RxReturnInv` are where a register wraps under the other side's feet. Results:
`RingInvariant`, `TypesHold`, `SendingInOrder`, `ReceivingInOrder`.

`JosPagesProofs`, for any finite set of environments, any number of CPUs, pages and
addresses. The first sections say what each kernel routine leaves, in terms of the
places that point to a page (`Exact`), a set of pages in the caller's hands excepted: a
page is allocated before it is inserted, and `page_insert` removes the old mapping
before it counts the new one. `env_free` is a loop, and its lemmas are about the state after
so many turns. `IInv` then has seven parts. `MemOk` is `RefsExact` with `TlbCoherent`;
`DirsOk` gives the free slots no directory and no page, so that `exofork` starts from
nothing; `CurOk` has each CPU run a living environment that no other CPU runs, without
which a `tlb_invalidate` of the local CPU would not be enough; `KidsOk`, `FaultOk` and
`IdleOk` say where a `fork` and a page fault handler are between two system calls:
whose the child is, that the page to be copied and the one at `PFTEMP` are still
mapped, and that only a living environment is in either. For the refinement `SInv` adds
who may share a page. `Exclusive`: a page that somebody may write is nobody else's, but
for the moment in `duppage` when the child has its copy-on-write entry and the parent
still has the old one. `BeyondOk`: the child has nothing yet beyond the address `fork`
has come to. `TmpOk`: the page a handler copies to is nobody's. Then each action keeps
`SInv` and is a step of `OwnMemory` or a stutter. Results: `PagesInvariant`,
`TypesHold`, `RefsExactHolds`, `TlbCoherentHolds`, `SharingKept`,
`ImplementsOwnMemoryHolds`.

`NetServerProofs`, for any finite set of clients, any number of buffers, slots and
yields. `Base` is the invariant of the threads: the one that runs and the queue are the live
threads, each once (`LineOk`); each is where its request says and only the one that
runs is past a wait (`PcOk`); one that waits has a semaphore at 0 with `waiters` set, or is
woken up (`WaitOk`); the semaphores of a mailbox count its ring, but for the slot or
message that the running thread has taken already (`CountOk`, which is why neither
`ERR_MEM` nor an empty box is ever met after a wait); buffers and clients have their
threads (`BufOk`, `ClientOk`). This gives `BuffersOwned`.

The order of the packets needs the order of the turns. Packets of one socket wait in
several threads at once, and the semaphore goes to whoever looks first after a signal.
`SocketOk` counts turns in rounds that main begins: a poster that has had its turn in
this round found no slot, so there is still none, or one that was freed since, all
posters have had their turn and the thread that freed it ends (`RanPostOk`);
a fetcher meets a poster only when one of the two is the newest thread
(`RanFetchOk`). So the thread that finds a slot is the first of the posters, and with
`SortedOk` (posters are in line by number), `RingOk` and `GivenOk` every packet is put,
kept and given out in order.

`AlwaysNoPanic` has a hypothesis, `EnoughBuffers`: the clients, and the packets that
may be held beyond one full mailbox, leave a buffer for main. `net_server` satisfies it with
nothing to spare, and `ns_overflow` shows what happens otherwise. When main has its
turn and finds no buffer, every buffer has a client's thread or a waiting poster;
`RanPostOk` says of the posters' mailbox that it is full, or has one slot free while its
client's thread has just ended, and counting packets and clients gives fewer than the
buffers.

`AlwaysNoWorkLeft` needs to know how many rounds a request can cause, and the answer is
that main's cap of 32 yields is never what ends them: one yield after the request is
enough, so the theorem asks for `MaxYields # 0` only (with 0 yields TLC finds the property
violated). `WInv` follows a call from its thread to the tcpip thread and back
(`CallOk`). In the first round (`FirstRound`) the new thread has the last turn, so a
packet or a `recv` is through, or waits, at the end of it, and a call is posted after the tcpip
thread's turn. In the later ones (`LaterRound`) no socket has both a poster and a
fetcher, so a thread that has had its turn stays asleep, and the tcpip thread's turn comes
before the caller's. Results: `AlwaysIInv`, `AlwaysBuffersOwned`,
`AlwaysPacketsInOrder`, `AlwaysNoPanic`, `AlwaysNoWorkLeft`.

`FsDiskProofs`, for any number of blocks, names, direct and indirect pointers and files
in a block, under `Spec`: files are truncated to what direct blocks hold, as the programs
do it (for other sizes `DiskOwnedInUse` is false, section 7). The three invariants
speak of the disk at any moment, and the writes under way decide it: `todo` was computed
when the operation began. `IInv` therefore says that the disk is the first of a
`Trail`: a sequence of disks, each the one before with the next write of `todo`, all
good, to the last, which is good under the cache. `Good(m, d)` is the relation between
a cache and what is on the disk: the cache is `Sound` (the invariants, with `Distinct` for
`NoBlockTwice`, and a bitmap that does not offer itself), and the disk is `Under` it: each
number a slot has on the disk is the cache's or none, no block is free there that is not
free in the cache, and sizes agree (the root's may be behind). All of it is said of every
slot of the directory, named or not: a removed file can still be written, so its slot
may have blocks, and the three theorems are about it too. `IInv` also says that `gone`
stays inside the directory, which only grows. A disk that is under a sound cache is
good under itself (`GoodAlone`), which is what a crash makes the server start from.

The lemmas go up from there: `GoodFlush` (any block may be written at any time, except the
root's indirect block before the superblock), `GoodAlloc` (the bitmap is on the disk before
the block is used), `GoodNewIndirect`, `GoodNewDirect` and `GoodNewPtr` (a block is cleared
on the disk before something there points to it), `GoodShrink` (a file is cut before its
blocks are free on the disk); `TrailMore` adds one write to a trail. The loops of
`file_flush`, `fs_sync`, `dir_lookup` and `file_truncate_blocks` are recursive functions,
and a lemma each (`FlushDataRuns` and others) shows that they are defined at every
length, by induction on sets of numbers (`Climb`, from the library's well-founded minimum).
Each C function then has a lemma that says what it leaves (`AllocBlockIs`, `GetBlockIs`,
`DirFindIs`, ... `FileWriteIs`), and each action cites one. Results: `AlwaysIInv`,
`AlwaysNoBlockTwice`, `AlwaysOwnedInUse`, `AlwaysNothingBeyondSize`.

Only model-checked: the liveness properties (`EveryoneRuns`, `SomeoneGetsIn`,
`Answered`, `AllSent`, `AllReceived`), which are outside the
prover's reach, and that `FsDisk`
implements `FileStore` (`ImplementsFileStore`), which speaks of the contents of each
synced file and not only of whose a block is.

## 7. Where comments and code differ

| Run | The text | The code |
|---|---|---|
| `zombie_lost` | `kern/env.c:490-492`: "A zombie environment will be freed the next time it traps to the kernel." | `trap()` looks for zombies (`kern/trap.c:349-354`), `router` does not, and every call of `lib/syscall.c` enters by sysenter. A child that its parent destroys while it runs, and that yields before its next clock interrupt, stays `ENV_DYING` without a CPU: nobody ever frees its slot, its pages and its page tables. (`sys_ipc_recv` even makes it `ENV_NOT_RUNNABLE`, alive again.) |
| `truncate_inside` | `inc/fs.h:35`: "A block is allocated iff its value is != 0." | `file_truncate_blocks` clears pointers in an indirect block that stays, and `file_set_size` does not flush it; when the bitmap is written first and the machine stops, the disk has a file pointing to free blocks |
| `ns_overflow` | `net/serv.c:63`: `panic("NS: buffer overflow")` | `sys_mbox_trypost` waits for a slot before it tests for a full mailbox, so its `ERR_MEM` never happens, and each packet for a socket that is not read keeps its thread and its buffer |

Visible in the models, without a run of their own:

- The same comment: a second destroy of a zombie finds `ENV_DYING`, not `ENV_RUNNING`, and
  frees the page directory under the CPU that runs it (`EnvDestroy`; `PoliteSpec`
  excludes it).
- `fs/serv.c` lets a client write a file that another has removed, and `fs/fs.c:346`
  names a new file over what that left: a file opened with `O_CREAT` and without
  `O_TRUNC` can begin with it (`leftovers`).
- `kern/syscall.c:339-340` says a send fails unless the target is blocked;
  `env_ipc_recving` alone is tested, and `sys_env_set_status` may have made the target run.
- `kern/syscall.c:354-355` says no page goes to a receiver that asks for none;
  `page_insert` is called with a `dstva` of `UTOP` or above (`env_ipc_page`).
- `kern/sched.c:27-29` says the idle environment runs if there is nothing else; with
  `curenv` null the scan is skipped (`Candidates`).
- `kern/spinlock.c:82-83` says the lock loops until it is acquired. In the ticket build
  `own` is not volatile and its load is hoisted out of the loop at `-O1`: a CPU that has
  to wait loops for ever (`"stuck"`). No liveness property is stated of that build.
- The card takes a transmit ring with all its descriptors handed over for an empty one and
  stops (`kern/e1000.c:91`); `AllSent` is stated for every other state (`Stuck`).
- `sys_env_set_status` tests the status the environment has instead of its argument
  (`kern/syscall.c:144`, comment at 121-127), and `env_ipc_perm` is set to `perm` also
  when no page was sent (`kern/syscall.c:403`, comment at 349).
- `sync` sends `fsipcbuf` without writing it. After a fork that page is copy-on-write,
  `sys_ipc_try_send` refuses it with `PTE_W`, and `ipc_send` panics (`SyncFiles`).

Met while reading, outside the models: `devfile_write` copies from `buf` instead of
`current`, so that a write longer than one request repeats its first part
(`lib/file.c:157`); a network request without a page keeps its buffer for ever
(`net/serv.c:287`); `malloc` of whole pages never gives back its first reference, so
that every thread's stack leaks a page.

## 8. Limits

What the properties do not catch. `BlockedInRecv` and `OneCpu` are about polite programs:
a `set_status` for an environment that waits, runs or dies breaks both. `EveryoneRuns`
excludes exits, so the scan that is skipped after one (section 7) is not covered.
`RightFile` is about a `struct File` slot: when the file was removed and the slot given to
another name, an old id is accepted and means the new file, in the code as in the
model. `ImplementsOwnMemory` lets a running environment write its own memory
at any time, so a `pgfault` that gave out a page without copying the old one would pass as such
a write; it does say that nobody else's memory changes. `Answered` covers the file
server's retries but not `ipc_send`'s panic.

Left out of `FileServer`: `o_fileid` is 32 bits and goes up by `MAXOPEN` with each use of an
entry; after some 2^21 uses `openfile_alloc`, which returns it as an `int`, reports an error, and
after 2^22 ids repeat. `MaxOpens` bounds the uses far below. `openfile_alloc`'s scan and its
`sys_page_alloc` are one step: nothing but the server takes an entry. `ipc_send` panics on any
error but `-E_IPC_NOT_RECV` (`lib/ipc.c:65-66`): on a client that its parent destroyed
meanwhile, and on `-E_NO_MEM` when there is no page table for the Fd page
(`kern/syscall.c:397-398`).

After a second destroy of a zombie, its CPU goes on with freed page tables; `JosEnv`
lets the program go on making calls but says nothing about memory, and in `JosPages`
a child is destroyed once. Register contents and the values of messages are not
modelled. Programs are arbitrary callers within the rules of each module: what a
particular program in `user/` does is not modelled. The kernel's own exceptions, and
the inter-processor halt that follows a panic on another CPU, are left out: a panic
stops the model.

The modules meet at their interfaces by name, not by composition: `JosPages` takes any
ready environment where `JosEnv` has the scan; `FileServer` takes a fork in one step,
which `JosPages` splits; `FileServer` and `FsDisk` share `struct File`. Pages that
programs share on purpose (IPC pages in `JosPages`, `sfork`, `spawn`) are left out.

`FsDisk` has one bitmap block (a disk of more than 32768 blocks needs a second, which
`alloc_block` never flushes), writes a block whole or not at all, and starts after
`check_bc`. `NetServer` leaves out timeouts, freed semaphores and mailboxes, and threads
that only wait for the time. What the clock shows is not modelled, nor are `malloc`, `spawn`, the
console, formatting, discovery of the machine, booting, the image builder and the test
programs: each is sequential, or only device registers and layout. Of the clock only the
panic at its overflow is there, and of `sbrk` only that it may panic.

The map covers a small share of the repository's lines. Most of the repository is
lwIP, a vendored stack of some 54,000 lines whose calls appear here as external, and
`lab1` to `lab5`, which are earlier versions of files in `lab6`; of what remains, the
kernel, the servers and the library, the parts with concurrency, sharing or recovery
are modelled.
