------------------------------ MODULE NetServer ------------------------------
(***************************************************************************)
(* The network server (net/serv.c) with its threads (arch/thread.c) and    *)
(* the semaphores and mailboxes they wait on (arch/sys_arch.c).            *)
(*                                                                         *)
(* The threads of the server are cooperative: one runs until it yields,    *)
(* and all of them stop while the main thread is in ipc_recv.  A request   *)
(* gets a buffer and a thread; thread b serves the request in buffer b.    *)
(* External, as lwIP has it: a packet is posted to the mailbox of its      *)
(* socket, recv fetches from there, and any other call is posted to the    *)
(* tcpip thread, which signals the socket's op_completed.                  *)
(*                                                                         *)
(* Each client has one UDP socket and one request at a time, sends a page  *)
(* with it and lives until it is answered.  Threads that wait for the time *)
(* only (net_timer) are left out.  MaxHeld keeps the buffers sufficient;    *)
(* ns_overflow has what happens without it.                                *)
(***************************************************************************)
EXTENDS Integers, Sequences, FiniteSets, FiniteSetsExt

CONSTANTS
  Client,      \* the clients, and their sockets
  QUEUE_SIZE,  \* request buffers
  MBOXSLOTS,   \* slots of a mailbox
  MaxYields,   \* yields of main before it receives (32)
  MaxPkts,     \* bound on the packets that arrive
  MaxHeld      \* bound on the packets that have arrived and are not received

ASSUME NetServerAssumption ==
  /\ QUEUE_SIZE \in Nat \ {0} /\ MBOXSLOTS \in Nat \ {0} /\ MaxYields \in Nat
  /\ MaxPkts \in Nat /\ MaxHeld \in Nat
  /\ Client \cap Int = {} /\ IsFiniteSet(Client)

Buffer == 1 .. QUEUE_SIZE
Main == 0    \* the main thread
Tcpip == -1  \* the tcpip thread and its mailbox
Thread == Buffer \cup {Main, Tcpip}
Mbox == Client \cup {Tcpip}
Sem == Mbox \X {"queued", "free", "op"}
NoSem == <<Main, "none">>
NoReq == [type |-> "none"]

VARIABLES
  cur,      \* cur_tc
  queue,    \* thread_queue
  th,       \* [Thread -> [pc, addr, val, wakeup]]: tc_wait_addr, the value it
            \* waits for to change, and tc_wakeup
  sems,     \* [Sem -> [counter, waiters]]
  mboxes,   \* [Mbox -> [head, nextq, msg]]
  buse,     \* [Buffer -> BOOLEAN]
  args,     \* [Buffer -> the request]
  main,     \* the main thread: [va, i], its buffer and its yields
  op,       \* the request the tcpip thread works on
  client,   \* [Client -> "run", or what it waits for]
  timer,    \* "run" or "wait": ns_timer
  arrived,  \* [Client -> how many packets have arrived for it]
  given     \* [Client -> the numbers of the packets recv returned, in order]

vars == <<cur, queue, th, sems, mboxes, buse, args, main, op, client, timer,
          arrived, given>>

threads == <<cur, queue>>
world == <<client, timer, arrived, given>>

PollPoints == {"post", "callpost", "op", "fetch"}

TypeOK ==
  /\ cur \in Thread /\ queue \in Seq(Thread)
  /\ th \in [Thread ->
       [pc : PollPoints \cup {"none", "put", "callput", "get", "call", "done",
                              "flush", "recv", "timer", "panic"},
        addr : Sem \cup {NoSem}, wakeup : BOOLEAN,
        val : [counter : Nat, waiters : BOOLEAN]]]
  /\ sems \in [Sem -> [counter : Nat, waiters : BOOLEAN]]
  /\ \A m \in Mbox : mboxes[m].head \in -1 .. MBOXSLOTS - 1
                     /\ mboxes[m].nextq \in 0 .. MBOXSLOTS - 1
  /\ buse \in [Buffer -> BOOLEAN]
  /\ main.va \in 0 .. QUEUE_SIZE /\ main.i \in 0 .. MaxYields
  /\ client \in [Client -> {"run", "recv", "call"}] /\ timer \in {"run", "wait"}
  /\ arrived \in [Client -> 0 .. MaxPkts]
  /\ \A c \in Client : given[c] \in Seq(1 .. MaxPkts)

Asleep == [counter |-> 0, waiters |-> TRUE]
Awake(pc) == [pc |-> pc, addr |-> NoSem, wakeup |-> FALSE, val |-> Asleep]

\* A mutant of FreeSlots: the semaphore counts one slot too many.
FreeSlotsMore == MBOXSLOTS + 1

\* sys_mbox_new: what free_msg starts from.
FreeSlots == MBOXSLOTS

\* serve() begins: serve_init is done and the tcpip thread waits for a message.
Init ==
  /\ cur = Main /\ queue = <<Tcpip>>
  /\ th = [t \in Thread |->
       CASE t = Main -> Awake("flush")
         [] t = Tcpip -> [Awake("fetch") EXCEPT !.addr = <<Tcpip, "queued">>]
         [] OTHER -> Awake("none")]
  /\ sems = [a \in Sem |->
       [counter |-> IF a[2] = "free" THEN FreeSlots ELSE 0,
        waiters |-> a = <<Tcpip, "queued">>]]
  /\ mboxes = [m \in Mbox |-> [head |-> -1, nextq |-> 0,
                               msg |-> [i \in 0 .. MBOXSLOTS - 1 |-> 0]]]
  /\ buse = [b \in Buffer |-> FALSE] /\ args = [b \in Buffer |-> NoReq]
  /\ main = [va |-> 0, i |-> 0] /\ op = 0
  /\ client = [c \in Client |-> "run"] /\ timer = "run"
  /\ arrived = [c \in Client |-> 0] /\ given = [c \in Client |-> <<>>]

-----------------------------------------------------------------------------
(* Threads: arch/thread.c. *)

\* thread_yield by thread t after it has pushed the threads ts.
YieldTo(t, ts) ==
  LET q == queue \o ts \o <<t>> IN cur' = Head(q) /\ queue' = Tail(q)

Yield(t) == YieldTo(t, <<>>)

\* thread_halt: the next thread runs, and nobody pushes this one.
Halt == cur' = Head(queue) /\ queue' = Tail(queue)

\* thread_wakeup: every thread of the queue that waits on a.
Wakeup(ths, a) ==
  [t \in Thread |-> IF ths[t].addr = a THEN [ths[t] EXCEPT !.wakeup = TRUE]
                    ELSE ths[t]]

WakeupsPending == \E t \in Thread : th[t].wakeup

(* Semaphores: arch/sys_arch.c. *)

\* A mutant of Signal: a waiter is woken instead of the counter incremented.
SignalHandOff(t, a, pc) ==
  LET ths == [th EXCEPT ![t] = Awake(pc)]
      n == IF sems[a].waiters THEN 0 ELSE 1
  IN
  /\ sems' = [sems EXCEPT ![a] = [counter |-> @.counter + n, waiters |-> FALSE]]
  /\ th' = IF sems[a].waiters THEN Wakeup(ths, a) ELSE ths

\* sys_sem_signal on a, when thread t goes on at pc.
Signal(t, a, pc) ==
  LET ths == [th EXCEPT ![t] = Awake(pc)] IN
  /\ sems' = [sems EXCEPT ![a] = [counter |-> @.counter + 1, waiters |-> FALSE]]
  /\ th' = IF sems[a].waiters THEN Wakeup(ths, a) ELSE ths

\* What thread t waits for and where it goes on.
Mail(t) == IF t = Tcpip THEN Tcpip ELSE args[t].client
WaitsFor(t) ==
  CASE th[t].pc = "post" -> <<Mail(t), "free">>
    [] th[t].pc = "callpost" -> <<Tcpip, "free">>
    [] th[t].pc = "op" -> <<Mail(t), "op">>
    [] th[t].pc = "fetch" -> <<Mail(t), "queued">>
After(pc) ==
  CASE pc = "post" -> "put" [] pc = "callpost" -> "callput"
    [] pc = "op" -> "done" [] pc = "fetch" -> "get"

\* thread_wait ends: a wakeup, or the semaphore has changed.
WaitOver(t) ==
  th[t].addr = NoSem \/ th[t].wakeup \/ sems[th[t].addr] # th[t].val

\* sys_arch_sem_wait with no timeout.
SemWait(t) ==
  LET a == WaitsFor(t) IN
  /\ cur = t /\ th[t].pc \in PollPoints
  /\ IF ~WaitOver(t) THEN Yield(t) /\ UNCHANGED <<th, sems>>
     ELSE IF sems[a].counter > 0
     THEN /\ sems' = [sems EXCEPT ![a].counter = @ - 1]
          /\ th' = [th EXCEPT ![t] = Awake(After(th[t].pc))]
          /\ UNCHANGED threads
     ELSE /\ sems' = [sems EXCEPT ![a].waiters = TRUE]
          /\ th' = [th EXCEPT ![t] = [pc |-> @.pc, addr |-> a, wakeup |-> FALSE,
                                      val |-> sems'[a]]]
          /\ Yield(t)
  /\ UNCHANGED <<mboxes, buse, args, main, op, world>>

NextSlot(slot) == (slot + 1) % MBOXSLOTS

\* sys_mbox_trypost, once it has a free slot: of a packet, or of a call, which
\* then waits for op_completed.
Post(t) ==
  LET m == IF th[t].pc = "put" THEN Mail(t) ELSE Tcpip
      box == mboxes[m]
      msg == IF th[t].pc = "put" THEN args[t].pkt ELSE t
  IN
  /\ cur = t /\ th[t].pc \in {"put", "callput"}
  /\ IF box.nextq = box.head
     THEN /\ th' = [th EXCEPT ![t] =
                      Awake(IF th[t].pc = "put" THEN "done" ELSE "panic")]
          /\ UNCHANGED <<mboxes, sems>>
     ELSE /\ mboxes' = [mboxes EXCEPT ![m] =
               [head |-> IF box.head = -1 THEN box.nextq ELSE box.head,
                nextq |-> NextSlot(box.nextq),
                msg |-> [box.msg EXCEPT ![box.nextq] = msg]]]
          /\ Signal(t, <<m, "queued">>, IF th[t].pc = "put" THEN "done" ELSE "op")
  /\ UNCHANGED <<threads, buse, args, main, op, world>>

\* A mutant of HeadAfter: an empty mailbox does not say so.
HeadAfterStale(box) == NextSlot(box.head)

HeadAfter(box) == IF NextSlot(box.head) = box.nextq THEN -1 ELSE NextSlot(box.head)

\* sys_arch_mbox_fetch, once it has a message: recv returns the packet, the tcpip
\* thread gets a call.
Fetch(t) ==
  LET m == Mail(t)
      box == mboxes[m]
      msg == box.msg[box.head]
  IN
  /\ cur = t /\ th[t].pc = "get"
  /\ IF box.head = -1
     THEN /\ th' = [th EXCEPT ![t] = Awake("panic")]
          /\ UNCHANGED <<mboxes, sems, given, op>>
     ELSE /\ mboxes' = [mboxes EXCEPT ![m].head = HeadAfter(box)]
          /\ Signal(t, <<m, "free">>, IF t = Tcpip THEN "call" ELSE "done")
          /\ given' = IF t = Tcpip THEN given
                      ELSE [given EXCEPT ![m] = Append(@, msg)]
          /\ op' = IF t = Tcpip THEN msg ELSE op
  /\ UNCHANGED <<threads, buse, args, main, client, timer, arrived>>

\* External: the tcpip thread does the call and signals op_completed.
TcpipCall ==
  /\ cur = Tcpip /\ th[Tcpip].pc = "call"
  /\ Signal(Tcpip, <<args[op].client, "op">>, "fetch")
  /\ op' = 0
  /\ UNCHANGED <<threads, mboxes, buse, args, main, world>>

-----------------------------------------------------------------------------
(* Requests: net/serv.c. *)

\* A mutant of PutBuffer: the buffer is not put back.
PutBufferNot(b) == buse

PutBuffer(b) == [buse EXCEPT ![b] = FALSE]

\* serve_thread ends: the client is answered (ipc_send waits for it, with the
\* whole server), and the buffer is put back.
Finish(t) ==
  LET c == args[t].client IN
  /\ cur = t /\ th[t].pc = "done"
  /\ client' = IF args[t].type = "input" THEN client ELSE [client EXCEPT ![c] = "run"]
  /\ buse' = PutBuffer(t)
  /\ args' = [args EXCEPT ![t] = NoReq]
  /\ th' = [th EXCEPT ![t] = Awake("none")]
  /\ Halt
  /\ UNCHANGED <<sems, mboxes, main, op, timer, arrived, given>>

\* A mutant of FlushesMore: main receives without a look at the other threads.
FlushesMoreNever == FALSE

FlushesMore == WakeupsPending /\ main.i < MaxYields

\* serve: main yields while other threads have been woken up.
Flush ==
  /\ cur = Main /\ th[Main].pc = "flush" /\ FlushesMore
  /\ main' = [main EXCEPT !.i = @ + 1]
  /\ Yield(Main)
  /\ UNCHANGED <<th, sems, mboxes, buse, args, op, world>>

FreeBuffers == {b \in Buffer : ~buse[b]}

\* get_buffer, and main stops in ipc_recv; with no buffer it panics.
Listen ==
  LET b == Min(FreeBuffers) IN
  /\ cur = Main /\ th[Main].pc = "flush" /\ ~FlushesMore
  /\ IF FreeBuffers = {}
     THEN th' = [th EXCEPT ![Main].pc = "panic"] /\ UNCHANGED <<buse, main>>
     ELSE /\ th' = [th EXCEPT ![Main].pc = "recv"]
          /\ buse' = [buse EXCEPT ![b] = TRUE]
          /\ main' = [va |-> b, i |-> 0]
  /\ UNCHANGED <<threads, sems, mboxes, args, op, world>>

\* A request arrives: a thread is created for it, and main yields.
Accept(req, pc) ==
  LET b == main.va IN
  /\ cur = Main /\ th[Main].pc = "recv"
  /\ args' = [args EXCEPT ![b] = req]
  /\ th' = [th EXCEPT ![Main].pc = "flush", ![b] = Awake(pc)]
  /\ main' = [main EXCEPT !.va = 0]
  /\ YieldTo(Main, <<b>>)
  /\ UNCHANGED <<sems, mboxes, buse, op, timer, given>>

\* nsipc_recv, and any other call of lib/nsipc.c.
RecvRequest(c) ==
  /\ client[c] = "run" /\ Accept([type |-> "recv", client |-> c], "fetch")
  /\ client' = [client EXCEPT ![c] = "recv"]
  /\ UNCHANGED arrived
CallRequest(c) ==
  /\ client[c] = "run" /\ Accept([type |-> "call", client |-> c], "callpost")
  /\ client' = [client EXCEPT ![c] = "call"]
  /\ UNCHANGED arrived

\* The packets that have arrived, and those of them that are not received yet.
Arrived == {p \in Client \X (1 .. MaxPkts) : p[2] <= arrived[p[1]]}
Held == {p \in Arrived : Len(given[p[1]]) < p[2]}

\* ns_input sends a packet; it is for the socket of c.
PacketRequest(c) ==
  /\ Cardinality(Held) < MaxHeld /\ Cardinality(Arrived) < MaxPkts
  /\ Accept([type |-> "input", client |-> c, pkt |-> arrived[c] + 1], "post")
  /\ arrived' = [arrived EXCEPT ![c] = @ + 1]
  /\ UNCHANGED client

\* ns_timer sends its request; process_timer yields before it answers.
TimerRequest ==
  /\ cur = Main /\ th[Main].pc = "recv" /\ timer = "run"
  /\ timer' = "wait"
  /\ th' = [th EXCEPT ![Main].pc = "timer"]
  /\ Yield(Main)
  /\ UNCHANGED <<sems, mboxes, buse, args, main, op, client, arrived, given>>

TimerReply ==
  /\ cur = Main /\ th[Main].pc = "timer"
  /\ timer' = "run"
  /\ buse' = PutBuffer(main.va)
  /\ main' = [main EXCEPT !.va = 0]
  /\ th' = [th EXCEPT ![Main].pc = "flush"]
  /\ UNCHANGED <<threads, sems, mboxes, args, op, client, arrived, given>>

-----------------------------------------------------------------------------
ThreadStep ==
  \/ \E t \in Thread : SemWait(t) \/ Post(t) \/ Fetch(t) \/ Finish(t)
  \/ TcpipCall \/ Flush \/ Listen \/ TimerReply

Next ==
  \/ ThreadStep
  \/ TimerRequest
  \/ \E c \in Client : RecvRequest(c) \/ CallRequest(c) \/ PacketRequest(c)

\* The server runs, and the timer's request comes again and again.
Fairness == WF_vars(ThreadStep) /\ WF_vars(TimerRequest)

Spec == Init /\ [][Next]_vars /\ Fairness

-----------------------------------------------------------------------------
(* Properties. *)

\* No assertion or panic of a thread is reached: the semaphores of a mailbox agree
\* with its ring, and there is a buffer for every request.
NoPanic == \A t \in Thread : th[t].pc # "panic"

\* get_buffer finds a buffer ("NS: buffer overflow", net/serv.c:63): the threads
\* that serve requests give theirs back before all are taken.
NoBufferOverflow == th[Main].pc # "panic"

\* "ipc_recv will block the entire process, so we flush all pending work": when
\* main receives, no thread has anything to go on with, so that no packet or answer
\* waits with its reader until something else arrives.
NoWorkLeft ==
  cur = Main /\ th[Main].pc = "recv" =>
    \A t \in Thread \ {Main} :
      th[t].pc # "none" =>
        th[t].pc \in PollPoints /\ ~WaitOver(t) /\ sems[WaitsFor(t)].counter = 0

\* A buffer is in use exactly as long as main receives into it or a thread reads it.
BuffersOwned ==
  /\ TypeOK
  /\ \A b \in Buffer : buse[b] <=> (b = main.va \/ th[b].pc # "none")

\* A client gets the packets of its socket once each and in the order of their
\* arrival, also when they had to wait for a slot of the mailbox.
Socket(c) == INSTANCE PacketQueue WITH
  Capacity <- MBOXSLOTS + QUEUE_SIZE, taken <- arrived[c], delivered <- given[c]
PacketsInOrder ==
  /\ \A c \in Client : Socket(c)!Init
  /\ [][\A c \in Client : Socket(c)!Next \/ UNCHANGED <<arrived[c], given[c]>>
       ]_<<arrived, given>>

\* A client is answered: a call always, recv when a packet is there.
Answered ==
  \A c \in Client :
    \/ client[c] = "call"
    \/ client[c] = "recv" /\ arrived[c] > Len(given[c])
    ~> client[c] = "run"
=============================================================================
