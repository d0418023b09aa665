---------------------------- MODULE NetServerProofs ----------------------------
(***************************************************************************)
(* Proofs about NetServer, for any number of clients, buffers and slots:   *)
(* a buffer is in use exactly while somebody has it, each client gets its  *)
(* packets in order, with buffers enough nothing panics, and main receives *)
(* only when the other threads have nothing left to do.                    *)
(*                                                                         *)
(* Base is the invariant of the threads: the line, what each one waits     *)
(* for, the semaphores against the rings, the buffers.  SocketOk is that   *)
(* of the packets of one socket.  Their order is that of the turns: main   *)
(* starts a round of the line, a thread that found no slot has had its     *)
(* turn in it, and a slot or a message that came up since goes to the      *)
(* first thread that wants it.  WInv is about a call on its way, and what  *)
(* the rounds between two requests leave to do.                            *)
(***************************************************************************)
EXTENDS NetServer, FiniteSetTheorems, WellFoundedInduction, TLAPS

-----------------------------------------------------------------------------
(* The line of the threads: the one that runs, and the queue behind it. *)

\* c and the threads of q are the threads of S, each once.
Lined(c, q, S) ==
  /\ c \in S /\ q \in Seq(S)
  /\ \A t \in S \ {c} : \E i \in 1 .. Len(q) : q[i] = t
  /\ \A i \in 1 .. Len(q) : q[i] # c
  /\ \A i, j \in 1 .. Len(q) : q[i] = q[j] => i = j

\* The place of thread t in that line.
PlaceIn(c, q, t) == IF t = c THEN 0 ELSE CHOOSE i \in 1 .. Len(q) : q[i] = t

\* A thread of the queue is at its place.
LEMMA PlaceHas ==
  ASSUME NEW c, NEW q, NEW S, Lined(c, q, S), NEW t \in S \ {c}
  PROVE  PlaceIn(c, q, t) \in 1 .. Len(q) /\ q[PlaceIn(c, q, t)] = t
<1>1. \E i \in 1 .. Len(q) : q[i] = t
  BY DEF Lined
<1>2. PlaceIn(c, q, t) = CHOOSE i \in 1 .. Len(q) : q[i] = t
  BY DEF PlaceIn
<1>3. QED
  BY <1>1, <1>2

\* A thread has one place.
LEMMA PlaceIs ==
  ASSUME NEW c, NEW q, NEW S, Lined(c, q, S), NEW t \in S,
         NEW i \in 1 .. Len(q), q[i] = t
  PROVE  PlaceIn(c, q, t) = i
<1>1. t # c
  BY DEF Lined
<1>2. PlaceIn(c, q, t) \in 1 .. Len(q) /\ q[PlaceIn(c, q, t)] = t
  BY <1>1, PlaceHas
<1>3. QED
  BY <1>2 DEF Lined

\* The places are numbers up to the length of the queue, 0 is that of the thread that
\* runs, and no two threads share one.
LEMMA PlaceRange ==
  ASSUME NEW c, NEW q, NEW S, Lined(c, q, S), NEW t \in S
  PROVE  /\ PlaceIn(c, q, t) \in 0 .. Len(q) /\ Len(q) \in Nat
         /\ PlaceIn(c, q, t) = 0 <=> t = c
         /\ \A u \in S : PlaceIn(c, q, t) = PlaceIn(c, q, u) => t = u
<1>0. Len(q) \in Nat
  BY DEF Lined
<1>1. CASE t = c
  <2>1. PlaceIn(c, q, t) = 0
    BY <1>1 DEF PlaceIn
  <2>2. \A u \in S \ {c} : PlaceIn(c, q, u) # 0
    <3>1. TAKE u \in S \ {c}
    <3>2. PlaceIn(c, q, u) \in 1 .. Len(q)
      BY PlaceHas
    <3>3. QED
      BY <3>2, <1>0
  <2>3. QED
    BY <1>0, <1>1, <2>1, <2>2
<1>2. CASE t # c
  <2>1. PlaceIn(c, q, t) \in 1 .. Len(q) /\ q[PlaceIn(c, q, t)] = t
    BY <1>2, PlaceHas
  <2>2. ASSUME NEW u \in S, PlaceIn(c, q, t) = PlaceIn(c, q, u)
        PROVE  t = u
    <3>1. CASE u = c
      <4>1. PlaceIn(c, q, u) = 0
        BY <3>1 DEF PlaceIn
      <4>2. QED
        BY <4>1, <2>1, <2>2, <1>0
    <3>2. CASE u # c
      <4>1. q[PlaceIn(c, q, u)] = u
        BY <3>2, PlaceHas
      <4>2. QED
        BY <4>1, <2>1, <2>2
    <3>3. QED
      BY <3>1, <3>2
  <2>3. QED
    BY <1>0, <1>2, <2>1, <2>2
<1>3. QED
  BY <1>1, <1>2

\* r lists the elements of S, each once.
Lists(r, n, S) ==
  /\ \A i \in 1 .. n : r[i] \in S
  /\ \A t \in S : \E i \in 1 .. n : r[i] = t
  /\ \A i, j \in 1 .. n : r[i] = r[j] => i = j

\* h and s are the line that r lists, h the one that runs.
RunsFirst(h, s, r, n, U) ==
  /\ Lined(h, s, U) /\ Len(s) = n - 1
  /\ \A i \in 1 .. n : PlaceIn(h, s, r[i]) = i - 1

\* A sequence whose elements are in U is a sequence over U.
LEMMA SeqOf ==
  ASSUME NEW S, NEW U, NEW q \in Seq(S), \A i \in 1 .. Len(q) : q[i] \in U
  PROVE  q \in Seq(U)
<1>1. q = [i \in 1 .. Len(q) |-> q[i]] /\ Len(q) \in Nat
  OBVIOUS
<1>2. QED
  BY <1>1

\* What is left of a line r of n threads when its first thread h runs: the queue s.
LEMMA FirstRuns ==
  ASSUME NEW U, NEW r, NEW h, NEW s \in Seq(U), NEW n \in Nat \ {0}, h = r[1],
         Len(s) = n - 1, \A i \in 1 .. n - 1 : s[i] = r[i + 1], Lists(r, n, U)
  PROVE  RunsFirst(h, s, r, n, U)
<1>1. Lined(h, s, U)
  <2>1. h \in U
    BY DEF Lists
  <2>2. \A t \in U \ {h} : \E i \in 1 .. Len(s) : s[i] = t
    <3>1. TAKE t \in U \ {h}
    <3>2. PICK i \in 1 .. n : r[i] = t
      BY DEF Lists
    <3>3. i # 1 /\ i - 1 \in 1 .. Len(s) /\ s[i - 1] = t
      BY <3>2
    <3>4. QED
      BY <3>3
  <2>3. \A i \in 1 .. Len(s) : s[i] # h
    <3>1. TAKE i \in 1 .. Len(s)
    <3>2. i + 1 \in 1 .. n /\ 1 \in 1 .. n /\ i + 1 # 1 /\ s[i] = r[i + 1]
      OBVIOUS
    <3>3. QED
      BY <3>2 DEF Lists
  <2>4. \A i, j \in 1 .. Len(s) : s[i] = s[j] => i = j
    <3>1. TAKE i, j \in 1 .. Len(s)
    <3>2. i + 1 \in 1 .. n /\ j + 1 \in 1 .. n /\ s[i] = r[i + 1] /\ s[j] = r[j + 1]
      OBVIOUS
    <3>3. HAVE s[i] = s[j]
    <3>4. i + 1 = j + 1
      BY <3>2, <3>3 DEF Lists
    <3>5. QED
      BY <3>4
  <2>5. QED
    BY <2>1, <2>2, <2>3, <2>4 DEF Lined
<1>2. ASSUME NEW i \in 1 .. n
      PROVE  PlaceIn(h, s, r[i]) = i - 1
  <2>1. r[i] \in U
    BY DEF Lists
  <2>2. CASE i = 1
    BY <2>2 DEF PlaceIn
  <2>3. CASE i # 1
    <3>1. i - 1 \in 1 .. Len(s) /\ s[i - 1] = r[i]
      BY <2>3
    <3>2. QED
      BY <2>1, <3>1, <1>1, PlaceIs
  <2>4. QED
    BY <2>2, <2>3
<1>3. QED
  BY <1>1, <1>2 DEF RunsFirst

\* The first of a queue is taken off and runs.
LEMMA QueueRuns ==
  ASSUME NEW U, NEW r \in Seq(U), NEW n \in Nat \ {0}, Len(r) = n, Lists(r, n, U),
         NEW h, NEW s, h = Head(r), s = Tail(r)
  PROVE  RunsFirst(h, s, r, n, U)
<1>1. /\ h = r[1] /\ s \in Seq(U) /\ Len(s) = n - 1
      /\ \A i \in 1 .. n - 1 : s[i] = r[i + 1]
  OBVIOUS
<1>2. QED
  BY <1>1, FirstRuns

\* The n threads of ts join the m of q, which none of them is in.
LEMMA ThreadsJoin ==
  ASSUME NEW S, NEW T, NEW q, NEW ts, NEW r, NEW m \in Nat, NEW n \in Nat, S \cap T = {},
         Lists(q, m, S), Lists(ts, n, T),
         \A i \in 1 .. m : r[i] = q[i], \A i \in 1 .. n : r[m + i] = ts[i]
  PROVE  Lists(r, m + n, S \cup T)
<1>1. ASSUME NEW i \in 1 .. m + n
      PROVE  \/ i \in 1 .. m /\ r[i] = q[i] /\ r[i] \in S
             \/ i > m /\ i - m \in 1 .. n /\ r[i] = ts[i - m] /\ r[i] \in T
  <2>1. CASE i <= m
    BY <2>1 DEF Lists
  <2>2. CASE i > m
    <3>1. i - m \in 1 .. n /\ m + (i - m) = i
      BY <2>2
    <3>2. QED
      BY <3>1, <2>2 DEF Lists
  <2>3. QED
    BY <2>1, <2>2
<1>2. ASSUME NEW t \in S \cup T
      PROVE  \E i \in 1 .. m + n : r[i] = t
  <2>1. CASE t \in T
    <3>1. PICK i \in 1 .. n : ts[i] = t
      BY <2>1 DEF Lists
    <3>2. m + i \in 1 .. m + n /\ r[m + i] = t
      BY <3>1
    <3>3. QED
      BY <3>2
  <2>2. CASE t \in S
    <3>1. PICK i \in 1 .. m : q[i] = t
      BY <2>2 DEF Lists
    <3>2. r[i] = t /\ i \in 1 .. m + n
      BY <3>1
    <3>3. QED
      BY <3>2
  <2>3. QED
    BY <2>1, <2>2
<1>3. ASSUME NEW i \in 1 .. m + n, NEW j \in 1 .. m + n, r[i] = r[j]
      PROVE  i = j
  <2>1. CASE i \in 1 .. m /\ r[i] = q[i] /\ r[i] \in S
    <3>1. j \in 1 .. m /\ r[j] = q[j]
      BY <2>1, <1>1, <1>3
    <3>2. QED
      BY <2>1, <3>1, <1>3 DEF Lists
  <2>2. CASE i > m /\ i - m \in 1 .. n /\ r[i] = ts[i - m] /\ r[i] \in T
    <3>1. j - m \in 1 .. n /\ r[j] = ts[j - m]
      BY <2>2, <1>1, <1>3
    <3>2. i - m = j - m
      BY <2>2, <3>1, <1>3 DEF Lists
    <3>3. QED
      BY <3>2
  <2>3. QED
    BY <2>1, <2>2, <1>1
<1>4. QED
  BY <1>1, <1>2, <1>3 DEF Lists

\* c has left the line, and the n threads of ts, the set T, have joined it.
Moves(c, q, S, T, ts, n, h, s) ==
  /\ Lined(h, s, (S \ {c}) \cup T)
  /\ Len(s) = Len(q) + n - 1
  /\ \A t \in S \ {c} : PlaceIn(h, s, t) = PlaceIn(c, q, t) - 1
  /\ \A i \in 1 .. n : PlaceIn(h, s, ts[i]) = Len(q) + i - 1

\* The line after the one that runs has left it and the n threads of ts have joined.
LEMMA LineMoves ==
  ASSUME NEW c, NEW q, NEW S, NEW T, NEW ts \in Seq(T), NEW n \in Nat, n = Len(ts),
         Lined(c, q, S), T \cap (S \ {c}) = {}, n + Len(q) > 0,
         Lists(ts, n, T), NEW h, NEW s, h = Head(q \o ts), s = Tail(q \o ts)
  PROVE  Moves(c, q, S, T, ts, n, h, s)
<1>1. PICK U, R, r, m : /\ R = S \ {c} /\ U = R \cup T /\ r = q \o ts /\ m = Len(q)
  OBVIOUS
<1>2. m \in Nat /\ Lists(q, m, R)
  BY <1>1 DEF Lined, Lists
<1>3. q \in Seq(U) /\ ts \in Seq(U)
  <2>1. \A i \in 1 .. m : q[i] \in U
    BY <1>1, <1>2 DEF Lists
  <2>2. q \in Seq(S)
    BY DEF Lined
  <2>3. q \in Seq(U)
    BY <2>1, <2>2, <1>1, SeqOf
  <2>4. ts \in Seq(U)
    BY <1>1
  <2>5. QED
    BY <2>3, <2>4
<1>4. /\ r \in Seq(U) /\ Len(r) = m + n
      /\ \A i \in 1 .. m : r[i] = q[i]
      /\ \A i \in 1 .. n : r[m + i] = ts[i]
  BY <1>1, <1>3
<1>5. PICK k \in Nat \ {0} : k = m + n
  BY <1>1, <1>2
<1>6. h = Head(r) /\ s = Tail(r) /\ r \in Seq(U) /\ Len(r) = k
  BY <1>1, <1>4, <1>5
<1>7. R \cap T = {}
  BY <1>1
<1>8. Lists(r, k, U)
  BY <1>1, <1>2, <1>4, <1>5, <1>7, ThreadsJoin
<1>9. /\ Lined(h, s, U) /\ Len(s) = k - 1
      /\ \A i \in 1 .. k : PlaceIn(h, s, r[i]) = i - 1
  <2>1. RunsFirst(h, s, r, k, U)
    BY <1>5, <1>6, <1>8, QueueRuns
  <2>2. QED
    BY <2>1 DEF RunsFirst
<1>10. ASSUME NEW t \in S \ {c}
       PROVE  PlaceIn(h, s, t) = PlaceIn(c, q, t) - 1
  <2>1. PICK p : p = PlaceIn(c, q, t)
    OBVIOUS
  <2>2. p \in 1 .. m /\ q[p] = t
    BY <2>1, <1>1, PlaceHas
  <2>3. p \in 1 .. k /\ r[p] = t
    BY <2>2, <1>2, <1>4, <1>5
  <2>4. PlaceIn(h, s, t) = p - 1
    BY <2>3, <1>9
  <2>5. QED
    BY <2>1, <2>4
<1>11. ASSUME NEW i \in 1 .. n
       PROVE  PlaceIn(h, s, ts[i]) = m + i - 1
  <2>1. PICK p : p = m + i
    OBVIOUS
  <2>2. p \in 1 .. k /\ r[p] = ts[i]
    BY <2>1, <1>2, <1>4, <1>5
  <2>3. PlaceIn(h, s, r[p]) = p - 1 /\ p - 1 = m + i - 1
    BY <2>1, <2>2, <1>2, <1>9
  <2>4. QED
    BY <2>2, <2>3
<1>12. QED
  BY <1>1, <1>2, <1>5, <1>9, <1>10, <1>11 DEF Moves

-----------------------------------------------------------------------------
(* The invariant. *)

\* The types.
Sizes ==
  /\ QUEUE_SIZE \in Nat \ {0} /\ MBOXSLOTS \in Nat \ {0} /\ MaxYields \in Nat
  /\ MaxPkts \in Nat /\ MaxHeld \in Nat

Inputs == [type : {"input"}, client : Client, pkt : 1 .. MaxPkts]
Recvs == [type : {"recv"}, client : Client]
Calls == [type : {"call"}, client : Client]
Labels == PollPoints \cup {"none", "put", "callput", "get", "call", "done",
                           "flush", "recv", "timer", "panic"}
Values == [counter : Nat, waiters : BOOLEAN]
Contexts == [pc : Labels, addr : Sem \cup {NoSem}, wakeup : BOOLEAN, val : Values]
Boxes == [head : -1 .. MBOXSLOTS - 1, nextq : 0 .. MBOXSLOTS - 1,
          msg : [0 .. MBOXSLOTS - 1 -> Int]]

\* The threads there are, and their places in the line.
Live == {t \in Thread : th[t].pc # "none"}
Place(t) == PlaceIn(cur, queue, t)

\* Every variable has its type.
DataOk ==
  /\ th \in [Thread -> Contexts] /\ sems \in [Sem -> Values]
  /\ args \in [Buffer -> {NoReq} \cup Inputs \cup Recvs \cup Calls]
  /\ mboxes \in [Mbox -> Boxes] /\ buse \in [Buffer -> BOOLEAN]
  /\ main \in [va : 0 .. QUEUE_SIZE, i : 0 .. MaxYields]
  /\ client \in [Client -> {"run", "recv", "call"}] /\ timer \in {"run", "wait"}
  /\ arrived \in [Client -> 0 .. MaxPkts]
  /\ given \in [Client -> Seq(Int)]

\* Every live thread runs or is in the queue, once.
LineOk == Lined(cur, queue, Live)

\* Thread t is past a wait, and has not yielded since.
Running(t) == th[t].pc \notin PollPoints \cup {"none"}

\* A thread does what its request asks for, and only the one that runs is past its wait.
PcOk ==
  /\ th[Main].pc \in {"flush", "recv", "timer", "panic"}
  /\ th[Tcpip].pc \in {"fetch", "get", "call"}
  /\ \A b \in Buffer :
       \/ args[b] = NoReq /\ th[b].pc = "none"
       \/ args[b] \in Inputs /\ th[b].pc \in {"post", "put", "done"}
       \/ args[b] \in Recvs /\ th[b].pc \in {"fetch", "get", "done"}
       \/ args[b] \in Calls /\ th[b].pc \in {"callpost", "callput", "op", "done"}
  /\ \A t \in Thread \ {Main} : Running(t) => cur = t

\* A thread that waits has seen its semaphore at 0; it is still so, or it is woken up.
WaitOk ==
  \A t \in Thread :
    th[t].addr # NoSem =>
      /\ th[t].pc \in PollPoints
      /\ th[t].addr = WaitsFor(t)
      /\ th[t].val = Asleep
      /\ th[t].wakeup \/ sems[th[t].addr] = Asleep

-----------------------------------------------------------------------------
\* What is assumed of the constants.
LEMMA Sized == Sizes /\ Client \cap Int = {} /\ IsFiniteSet(Client)
BY NetServerAssumption DEF Sizes

\* The threads: the buffers, main and the tcpip thread, all different; a mailbox for each
\* client and for the tcpip thread.
LEMMA Threads ==
  /\ Main \in Thread /\ Tcpip \in Thread /\ Tcpip # Main
  /\ Main \notin Buffer /\ Tcpip \notin Buffer
  /\ \A t \in Thread : t \in Buffer \/ t = Main \/ t = Tcpip
  /\ \A b \in Buffer : b \in Thread /\ b # Main /\ b # Tcpip /\ b \in Int
  /\ Buffer \subseteq Nat
  /\ \A c \in Client : c \in Mbox /\ c # Tcpip
  /\ \A m \in Mbox : m \in Client \/ m = Tcpip
  /\ Tcpip \in Mbox
BY Sized DEF Thread, Main, Tcpip, Buffer, Mbox, Sizes

\* The semaphores of the mailboxes, all different.
LEMMA Sems ==
  /\ \A m \in Mbox : <<m, "queued">> \in Sem /\ <<m, "free">> \in Sem /\ <<m, "op">> \in Sem
  /\ \A s \in Sem : \E m \in Mbox : s = <<m, "queued">> \/ s = <<m, "free">> \/ s = <<m, "op">>
  /\ \A m, k : m # k => <<m, "queued">> # <<k, "queued">> /\ <<m, "free">> # <<k, "free">>
                        /\ <<m, "op">> # <<k, "op">>
  /\ \A m, k : /\ <<m, "queued">> # <<k, "free">> /\ <<m, "queued">> # <<k, "op">>
               /\ <<m, "free">> # <<k, "op">>
               /\ <<m, "queued">> # NoSem /\ <<m, "free">> # NoSem /\ <<m, "op">> # NoSem
BY DEF Sem, NoSem

\* The slot after a slot.
LEMMA Slots ==
  ASSUME NEW s \in 0 .. MBOXSLOTS - 1
  PROVE  /\ NextSlot(s) = IF s + 1 = MBOXSLOTS THEN 0 ELSE s + 1
         /\ NextSlot(s) \in 0 .. MBOXSLOTS - 1
<1>1. MBOXSLOTS \in Nat \ {0}
  BY Sized DEF Sizes
<1>2. (s + 1) % MBOXSLOTS = IF s + 1 = MBOXSLOTS THEN 0 ELSE s + 1
  BY <1>1
<1>3. QED
  BY <1>1, <1>2 DEF NextSlot

-----------------------------------------------------------------------------
(* Who is in the line after a step. *)

\* thread_yield: the thread goes to the end and all others move up.
LEMMA YieldLine ==
  ASSUME NEW t, LineOk, cur = t, Yield(t), Live' = Live
  PROVE  /\ LineOk' /\ Len(queue') = Len(queue)
         /\ \A x \in Live \ {t} : Place(x)' = Place(x) - 1
         /\ Place(t)' = Len(queue)
<1> DEFINE ts == <<t>>
<1>1. t \in Live /\ queue \in Seq(Live) /\ Len(queue) \in Nat
  BY DEF LineOk, Lined
<1>2. queue \o <<>> \o <<t>> = queue \o ts
  BY <1>1
<1>3. /\ ts \in Seq({t}) /\ Len(ts) = 1 /\ ts[1] = t
      /\ Lists(ts, 1, {t})
      /\ {t} \cap (Live \ {t}) = {} /\ (Live \ {t}) \cup {t} = Live
      /\ 1 + Len(queue) > 0
  BY <1>1 DEF Lists
<1>4. cur' = Head(queue \o ts) /\ queue' = Tail(queue \o ts)
  BY <1>2 DEF Yield, YieldTo
<1> HIDE DEF ts
<1>5. /\ Lined(cur', queue', Live) /\ Len(queue') = Len(queue) + 1 - 1
      /\ \A x \in Live \ {t} : PlaceIn(cur', queue', x) = PlaceIn(cur, queue, x) - 1
      /\ \A i \in 1 .. 1 : PlaceIn(cur', queue', ts[i]) = Len(queue) + i - 1
  <2>1. Moves(cur, queue, Live, {t}, ts, 1, cur', queue')
    BY <1>3, <1>4, LineMoves DEF LineOk
  <2>2. QED
    BY <1>3, <2>1 DEF Moves
<1>6. PlaceIn(cur', queue', t) = Len(queue) /\ Len(queue') = Len(queue)
  BY <1>1, <1>3, <1>5
<1>7. QED
  BY <1>5, <1>6 DEF LineOk, Place

\* thread_halt: the thread is gone and all others move up.
LEMMA HaltLine ==
  ASSUME NEW t, LineOk, cur = t, Halt, Main \in Live, t # Main, Live' = Live \ {t}
  PROVE  /\ LineOk' /\ Len(queue') = Len(queue) - 1
         /\ \A x \in Live \ {t} : Place(x)' = Place(x) - 1
<1> DEFINE ts == << >>
<1>1. t \in Live /\ queue \in Seq(Live) /\ Len(queue) \in Nat
  BY DEF LineOk, Lined
<1>2. queue \o ts = queue
  BY <1>1
<1>3. Len(queue) > 0
  <2>1. \E i \in 1 .. Len(queue) : queue[i] = Main
    BY DEF LineOk, Lined
  <2>2. QED
    BY <2>1, <1>1
<1>4. PICK E, n : E = {} /\ n = 0
  OBVIOUS
<1>5. /\ ts \in Seq(E) /\ Len(ts) = n /\ n \in Nat
      /\ E \cap (Live \ {t}) = {} /\ (Live \ {t}) \cup E = Live \ {t}
      /\ n + Len(queue) > 0
      /\ Lists(ts, n, E)
  BY <1>4, <1>1, <1>3 DEF Lists
<1>6. cur' = Head(queue \o ts) /\ queue' = Tail(queue \o ts)
  BY <1>2 DEF Halt
<1> HIDE DEF ts
<1>7. /\ Lined(cur', queue', Live \ {t}) /\ Len(queue') = Len(queue) + n - 1
      /\ \A x \in Live \ {t} : PlaceIn(cur', queue', x) = PlaceIn(cur, queue, x) - 1
  <2>1. Moves(cur, queue, Live, E, ts, n, cur', queue')
    BY <1>5, <1>6, LineMoves DEF LineOk
  <2>2. QED
    BY <1>5, <2>1 DEF Moves
<1>8. Len(queue') = Len(queue) - 1
  BY <1>4, <1>1, <1>7
<1>9. QED
  BY <1>7, <1>8 DEF LineOk, Place

\* thread_create and a yield of main: the new thread is the last one before main.
LEMMA AcceptLine ==
  ASSUME NEW b, LineOk, cur = Main, b \notin Live, b # Main, YieldTo(Main, <<b>>),
         Live' = Live \cup {b}
  PROVE  /\ LineOk' /\ Len(queue') = Len(queue) + 1
         /\ \A x \in Live \ {Main} : Place(x)' = Place(x) - 1
         /\ Place(b)' = Len(queue) /\ Place(Main)' = Len(queue) + 1
<1> DEFINE ts == <<b, Main>>
<1>1. Main \in Live /\ queue \in Seq(Live) /\ Len(queue) \in Nat
  BY DEF LineOk, Lined
<1>2. queue \o <<b>> \o <<Main>> = queue \o ts
  <2>1. queue \in Seq(Live \cup {b})
    BY <1>1
  <2>2. QED
    BY <2>1, <1>1
<1>3. /\ ts \in Seq({b, Main}) /\ Len(ts) = 2 /\ ts[1] = b /\ ts[2] = Main
      /\ Lists(ts, 2, {b, Main})
      /\ {b, Main} \cap (Live \ {Main}) = {}
      /\ (Live \ {Main}) \cup {b, Main} = Live \cup {b}
      /\ 2 + Len(queue) > 0
  BY <1>1 DEF Lists
<1>4. cur' = Head(queue \o ts) /\ queue' = Tail(queue \o ts)
  BY <1>2 DEF YieldTo
<1> HIDE DEF ts
<1>5. /\ Lined(cur', queue', Live \cup {b}) /\ Len(queue') = Len(queue) + 2 - 1
      /\ \A x \in Live \ {Main} : PlaceIn(cur', queue', x) = PlaceIn(cur, queue, x) - 1
      /\ \A i \in 1 .. 2 : PlaceIn(cur', queue', ts[i]) = Len(queue) + i - 1
  <2>1. Moves(cur, queue, Live, {b, Main}, ts, 2, cur', queue')
    BY <1>3, <1>4, LineMoves DEF LineOk
  <2>2. QED
    BY <1>3, <2>1 DEF Moves
<1>6. /\ PlaceIn(cur', queue', b) = Len(queue) /\ PlaceIn(cur', queue', Main) = Len(queue) + 1
      /\ Len(queue') = Len(queue) + 1
  BY <1>1, <1>3, <1>5
<1>7. QED
  BY <1>5, <1>6 DEF LineOk, Place

-----------------------------------------------------------------------------
(* The semaphores of a mailbox and its ring, the buffers, the clients. *)

\* How many messages a ring holds, and where the next but j of them is.
Count(h, q) ==
  IF h = -1 THEN 0 ELSE IF q > h THEN q - h ELSE q - h + MBOXSLOTS
Slot(h, j) == IF h + j < MBOXSLOTS THEN h + j ELSE h + j - MBOXSLOTS

Msgs(m) == Count(mboxes[m].head, mboxes[m].nextq)

\* The thread that runs has counted a message, or a slot, of mailbox m for itself.
Getting(m) == th[cur].pc = "get" /\ Mail(cur) = m
Putting(m) ==
  \/ th[cur].pc = "put" /\ Mail(cur) = m
  \/ th[cur].pc = "callput" /\ m = Tcpip

\* The semaphores of a mailbox agree with its ring, but for what the thread that runs has
\* counted.
CountOk ==
  \A m \in Mbox :
    /\ sems[<<m, "queued">>].counter = Msgs(m) - (IF Getting(m) THEN 1 ELSE 0)
    /\ sems[<<m, "free">>].counter
         = MBOXSLOTS - Msgs(m) - (IF Putting(m) THEN 1 ELSE 0)

\* buse agrees with the threads and with main.
BufOk ==
  /\ \A b \in Buffer : buse[b] <=> b = main.va \/ th[b].pc # "none"
  /\ main.va # 0 <=> th[Main].pc \in {"recv", "timer"}
  /\ \A b \in Buffer : b = main.va => th[b].pc = "none"

\* The thread that serves client c.
Server(c) == {b \in Buffer : args[b] \in Recvs \cup Calls /\ args[b].client = c}

\* A client that waits has one thread, which does what it asked for.
ClientOk ==
  \A c \in Client :
    /\ \A b \in Server(c) : client[c] = args[b].type
    /\ \A b, d \in Server(c) : b = d

\* The invariant of the threads, semaphores, mailboxes and buffers.
Base == DataOk /\ LineOk /\ PcOk /\ WaitOk /\ CountOk /\ BufOk /\ ClientOk

-----------------------------------------------------------------------------
(* What a step does to the threads and semaphores. *)

\* Thread t goes on at pc; what the others wait for stays, some may be woken up.
Goes(t, pc) ==
  /\ th' \in [Thread -> Contexts]
  /\ th'[t].pc = pc /\ th'[t].addr = NoSem /\ th'[t].wakeup = FALSE
  /\ \A x \in Thread \ {t} :
       /\ th'[x].pc = th[x].pc /\ th'[x].addr = th[x].addr /\ th'[x].val = th[x].val
       /\ th[x].wakeup => th'[x].wakeup

\* Semaphore a is counted up and its waiters are woken up, by thread t.
Signalled(t, a) ==
  /\ sems' \in [Sem -> Values]
  /\ \A s \in Sem : s # a => sems'[s] = sems[s]
  /\ a \in Sem => /\ sems'[a].counter = sems[a].counter + 1
                  /\ sems'[a].waiters = FALSE
  /\ \A x \in Thread \ {t} :
       /\ th'[x].wakeup => th[x].wakeup \/ th[x].addr = a
       /\ a \in Sem /\ sems[a].waiters /\ th[x].addr = a => th'[x].wakeup

\* Thread t counts semaphore a down.
Acquires(t, a) ==
  /\ sems[a].counter > 0
  /\ sems' \in [Sem -> Values]
  /\ \A s \in Sem : s # a => sems'[s] = sems[s]
  /\ sems'[a].counter = sems[a].counter - 1 /\ sems'[a].waiters = sems[a].waiters
  /\ \A x \in Thread \ {t} : th'[x].wakeup = th[x].wakeup
  /\ UNCHANGED <<cur, queue>>

\* Thread t stays where it is and waits for semaphore a.
Blocks(t, a) ==
  /\ sems[a].counter = 0 /\ sems'[a] = Asleep
  /\ sems' \in [Sem -> Values]
  /\ \A s \in Sem : s # a => sems'[s] = sems[s]
  /\ th' \in [Thread -> Contexts]
  /\ \A x \in Thread \ {t} : th'[x] = th[x]
  /\ th'[t].pc = th[t].pc /\ th'[t].addr = a /\ th'[t].val = Asleep
  /\ th'[t].wakeup = FALSE
  /\ Yield(t)

\* A thread that goes on waits for nothing.
LEMMA AwakeIs ==
  ASSUME NEW pc \in Labels
  PROVE  /\ Awake(pc) \in Contexts /\ Awake(pc).pc = pc /\ Awake(pc).addr = NoSem
         /\ Awake(pc).wakeup = FALSE /\ Awake(pc).val = Asleep /\ Asleep \in Values
         /\ Asleep.counter = 0 /\ Asleep.waiters = TRUE
BY DEF Awake, Contexts, Values, Asleep

\* sys_sem_signal: the thread goes on, and whoever waited is woken up.
LEMMA SignalGoes ==
  ASSUME DataOk, NEW t \in Thread, NEW a, a # NoSem, NEW pc \in Labels, Signal(t, a, pc)
  PROVE  Goes(t, pc) /\ Signalled(t, a)
<1> DEFINE ths == [th EXCEPT ![t] = Awake(pc)]
<1>1. /\ ths \in [Thread -> Contexts] /\ ths[t] = Awake(pc)
      /\ \A x \in Thread \ {t} : ths[x] = th[x] /\ th[x] \in Contexts
  BY AwakeIs DEF DataOk
<1>2. th' = IF sems[a].waiters THEN Wakeup(ths, a) ELSE ths
  BY DEF Signal
<1>3. sems' = [sems EXCEPT ![a] = [counter |-> sems[a].counter + 1, waiters |-> FALSE]]
  BY DEF Signal
<1> HIDE DEF ths
<1>4. ASSUME NEW x \in Thread
      PROVE  LET w == [ths[x] EXCEPT !.wakeup = TRUE] IN
             /\ w \in Contexts /\ w.pc = ths[x].pc /\ w.addr = ths[x].addr
             /\ w.val = ths[x].val /\ w.wakeup = TRUE
  <2>1. ths[x] \in Contexts
    BY <1>1
  <2>2. QED
    BY <2>1 DEF Contexts
<1>5. ASSUME NEW x \in Thread
      PROVE  /\ Wakeup(ths, a)[x] \in Contexts /\ Wakeup(ths, a)[x].pc = ths[x].pc
             /\ Wakeup(ths, a)[x].addr = ths[x].addr /\ Wakeup(ths, a)[x].val = ths[x].val
             /\ ths[x].addr = a => Wakeup(ths, a)[x].wakeup = TRUE
             /\ ths[x].addr # a => Wakeup(ths, a)[x] = ths[x]
  <2>1. Wakeup(ths, a)[x] = IF ths[x].addr = a THEN [ths[x] EXCEPT !.wakeup = TRUE]
                            ELSE ths[x]
    BY DEF Wakeup
  <2>2. ths[x] \in Contexts
    BY <1>1
  <2>3. CASE ths[x].addr = a
    BY <2>1, <2>3, <1>4
  <2>4. CASE ths[x].addr # a
    BY <2>1, <2>2, <2>4
  <2>5. QED
    BY <2>3, <2>4
<1>6. Wakeup(ths, a) \in [Thread -> Contexts]
  <2>1. Wakeup(ths, a) = [x \in Thread |-> Wakeup(ths, a)[x]]
    BY DEF Wakeup
  <2>2. QED
    BY <2>1, <1>5
<1>7. ths[t].pc = pc /\ ths[t].addr = NoSem /\ ths[t].wakeup = FALSE
  BY <1>1, AwakeIs
<1>8. Goes(t, pc) /\ \A x \in Thread \ {t} : th'[x].wakeup => th[x].wakeup \/ th[x].addr = a
  <2>1. CASE sems[a].waiters
    <3>1. th' = Wakeup(ths, a)
      BY <2>1, <1>2
    <3>2. th'[t].pc = pc /\ th'[t].addr = NoSem /\ th'[t].wakeup = FALSE
      BY <3>1, <1>5, <1>7
    <3>3. \A x \in Thread \ {t} :
            /\ th'[x].pc = th[x].pc /\ th'[x].addr = th[x].addr
            /\ th'[x].val = th[x].val /\ (th[x].wakeup => th'[x].wakeup)
            /\ (th'[x].wakeup => th[x].wakeup \/ th[x].addr = a)
      BY <3>1, <1>1, <1>5
    <3>4. QED
      BY <3>1, <3>2, <3>3, <1>6 DEF Goes
  <2>2. CASE ~sems[a].waiters
    BY <2>2, <1>1, <1>2, <1>7 DEF Goes
  <2>3. QED
    BY <2>1, <2>2
<1>9. a \in Sem /\ sems[a].waiters =>
        \A x \in Thread \ {t} : th[x].addr = a => th'[x].wakeup
  BY <1>1, <1>2, <1>5
<1>10. sems' \in [Sem -> Values]
  <2>1. a \in Sem => [counter |-> sems[a].counter + 1, waiters |-> FALSE] \in Values
    BY DEF DataOk, Values
  <2>2. QED
    BY <1>3, <2>1 DEF DataOk
<1>11. /\ \A s \in Sem : s # a => sems'[s] = sems[s]
       /\ a \in Sem => /\ sems'[a].counter = sems[a].counter + 1
                       /\ sems'[a].waiters = FALSE
  BY <1>3 DEF DataOk
<1>12. QED
  BY <1>8, <1>9, <1>10, <1>11 DEF Signalled

\* What a thread waits for is a semaphore.
LEMMA WaitsForIs ==
  ASSUME DataOk, PcOk, NEW t \in Thread, th[t].pc \in PollPoints
  PROVE  /\ t # Main /\ WaitsFor(t) \in Sem /\ WaitsFor(t) # NoSem
         /\ t = Tcpip => th[t].pc = "fetch" /\ Mail(t) = Tcpip
         /\ t # Tcpip => t \in Buffer /\ Mail(t) = args[t].client /\ Mail(t) \in Client
         /\ th[t].pc = "post" => t # Tcpip /\ WaitsFor(t) = <<Mail(t), "free">>
         /\ th[t].pc = "callpost" => t # Tcpip /\ WaitsFor(t) = <<Tcpip, "free">>
         /\ th[t].pc = "op" => t # Tcpip /\ WaitsFor(t) = <<Mail(t), "op">>
         /\ th[t].pc = "fetch" => WaitsFor(t) = <<Mail(t), "queued">>
<1>1. t # Main
  BY DEF PcOk, PollPoints
<1>2. t = Tcpip => th[t].pc = "fetch" /\ Mail(t) = Tcpip
  BY DEF PcOk, PollPoints, Mail
<1>3. ASSUME t # Tcpip
      PROVE  t \in Buffer /\ Mail(t) = args[t].client /\ Mail(t) \in Client
  <2>1. t \in Buffer
    BY <1>1, <1>3, Threads
  <2>2. args[t] \in Inputs \/ args[t] \in Recvs \/ args[t] \in Calls
    BY <2>1 DEF PcOk, PollPoints
  <2>3. args[t].client \in Client
    BY <2>2 DEF Inputs, Recvs, Calls
  <2>4. QED
    BY <1>3, <2>1, <2>3 DEF Mail
<1>4. /\ th[t].pc = "post" => WaitsFor(t) = <<Mail(t), "free">>
      /\ th[t].pc = "callpost" => WaitsFor(t) = <<Tcpip, "free">>
      /\ th[t].pc = "op" => WaitsFor(t) = <<Mail(t), "op">>
      /\ th[t].pc = "fetch" => WaitsFor(t) = <<Mail(t), "queued">>
  BY DEF WaitsFor
<1>5. Mail(t) \in Mbox /\ Tcpip \in Mbox
  BY <1>2, <1>3, Threads
<1>6. WaitsFor(t) \in Sem /\ WaitsFor(t) # NoSem
  BY <1>4, <1>5, Sems DEF PollPoints
<1>7. QED
  BY <1>1, <1>2, <1>3, <1>4, <1>6

\* A step of sys_arch_sem_wait counts the semaphore down, or waits for it.
LEMMA SemWaitDoes ==
  ASSUME DataOk, PcOk, WaitOk, NEW t \in Thread, SemWait(t)
  PROVE  \/ Acquires(t, WaitsFor(t)) /\ Goes(t, After(th[t].pc))
         \/ Blocks(t, WaitsFor(t))
<1>1. PICK a : a = WaitsFor(t)
  OBVIOUS
<1>2. a \in Sem /\ a # NoSem /\ th[t].pc \in PollPoints
  BY <1>1, WaitsForIs DEF SemWait
<1>3. th \in [Thread -> Contexts] /\ sems \in [Sem -> Values]
  BY DEF DataOk
<1>4. /\ th[t] \in Contexts /\ sems[a].counter \in Nat /\ sems[a].waiters \in BOOLEAN
      /\ sems[a] = [counter |-> sems[a].counter, waiters |-> sems[a].waiters]
  BY <1>2, <1>3 DEF Values
<1>5. After(th[t].pc) \in Labels
  BY <1>2 DEF After, PollPoints, Labels
<1>6. CASE ~WaitOver(t)
  <2>1. Yield(t) /\ UNCHANGED <<th, sems>>
    BY <1>6 DEF SemWait
  <2>2. /\ th[t].addr # NoSem /\ ~th[t].wakeup /\ sems[th[t].addr] = th[t].val
    BY <1>6 DEF WaitOver
  <2>3. th[t].addr = a /\ th[t].val = Asleep /\ sems[a] = Asleep
    BY <1>1, <2>2 DEF WaitOk
  <2>4. th[t].wakeup = FALSE /\ sems[a].counter = 0
    BY <2>2, <2>3, <1>4 DEF Contexts, Asleep
  <2>5. Blocks(t, a)
    BY <1>2, <1>3, <2>1, <2>3, <2>4 DEF Blocks
  <2>6. QED
    BY <1>1, <2>5
<1>7. CASE WaitOver(t) /\ sems[a].counter > 0
  <2>1. /\ sems' = [sems EXCEPT ![a].counter = sems[a].counter - 1]
        /\ th' = [th EXCEPT ![t] = Awake(After(th[t].pc))]
        /\ UNCHANGED <<cur, queue>>
    BY <1>1, <1>7 DEF SemWait, threads
  <2>2. Goes(t, After(th[t].pc)) /\ \A x \in Thread \ {t} : th'[x].wakeup = th[x].wakeup
    BY <2>1, <1>3, <1>5, AwakeIs DEF Goes
  <2>3. /\ sems'[a] = [sems[a] EXCEPT !.counter = sems[a].counter - 1]
        /\ \A s \in Sem : s # a => sems'[s] = sems[s]
        /\ DOMAIN sems' = Sem /\ sems' = [s \in Sem |-> sems'[s]]
    BY <2>1, <1>2, <1>3
  <2>4. /\ sems'[a].counter = sems[a].counter - 1 /\ sems'[a].waiters = sems[a].waiters
        /\ sems'[a] \in Values
    BY <2>3, <1>4, <1>7 DEF Values
  <2>5. sems' \in [Sem -> Values]
    BY <2>3, <2>4, <1>3
  <2>6. Acquires(t, a)
    BY <1>7, <2>1, <2>2, <2>3, <2>4, <2>5 DEF Acquires
  <2>7. QED
    BY <1>1, <2>2, <2>6
<1>8. CASE WaitOver(t) /\ ~(sems[a].counter > 0)
  <2>1. /\ sems' = [sems EXCEPT ![a].waiters = TRUE]
        /\ th' = [th EXCEPT ![t] = [pc |-> th[t].pc, addr |-> a, wakeup |-> FALSE,
                                    val |-> sems'[a]]]
        /\ Yield(t)
    BY <1>1, <1>8 DEF SemWait
  <2>2. sems[a].counter = 0
    BY <1>8, <1>4
  <2>3. /\ sems'[a] = [sems[a] EXCEPT !.waiters = TRUE]
        /\ \A s \in Sem : s # a => sems'[s] = sems[s]
        /\ sems' = [s \in Sem |-> sems'[s]]
    BY <2>1, <1>2, <1>3
  <2>4. sems'[a] = Asleep /\ Asleep \in Values
    BY <2>2, <2>3, <1>4 DEF Asleep, Values
  <2>5. sems' \in [Sem -> Values]
    BY <2>3, <2>4, <1>3
  <2>6. [pc |-> th[t].pc, addr |-> a, wakeup |-> FALSE, val |-> Asleep] \in Contexts
    BY <1>2, <1>4, <2>4 DEF Contexts
  <2>7. /\ th' \in [Thread -> Contexts]
        /\ \A x \in Thread \ {t} : th'[x] = th[x]
        /\ th'[t].pc = th[t].pc /\ th'[t].addr = a /\ th'[t].val = Asleep
        /\ th'[t].wakeup = FALSE
    BY <2>1, <2>4, <2>6, <1>3
  <2>8. Blocks(t, a)
    BY <2>1, <2>2, <2>3, <2>4, <2>5, <2>7 DEF Blocks
  <2>9. QED
    BY <1>1, <2>8
<1>9. QED
  BY <1>6, <1>7, <1>8

-----------------------------------------------------------------------------
(* What such a step leaves as it was. *)

\* A thread whose place in the program and request stay waits for the same semaphore.
LEMMA WaitsForSame ==
  ASSUME NEW x \in Thread \ {Main}, th'[x].pc = th[x].pc,
         x \in Buffer => args'[x] = args[x]
  PROVE  WaitsFor(x)' = WaitsFor(x)
<1>1. Mail(x)' = Mail(x)
  BY Threads DEF Mail
<1>2. QED
  BY <1>1 DEF WaitsFor

\* A waiting thread still waits for its semaphore, or has been woken up.
LEMMA WaitKept ==
  ASSUME PcOk, WaitOk, NEW t \in Thread, NEW pc, Goes(t, pc),
         \A x \in Buffer \ {t} : th[x].addr # NoSem => args'[x] = args[x],
         \A x \in Thread \ {t} :
           th[x].addr # NoSem /\ ~th'[x].wakeup => sems'[th[x].addr] = sems[th[x].addr]
  PROVE  WaitOk'
<1> SUFFICES ASSUME NEW x \in Thread, th'[x].addr # NoSem
             PROVE  /\ th'[x].pc \in PollPoints
                    /\ th'[x].addr = WaitsFor(x)'
                    /\ th'[x].val = Asleep
                    /\ th'[x].wakeup \/ sems'[th'[x].addr] = Asleep
  BY DEF WaitOk
<1>1. x # t /\ th'[x].pc = th[x].pc /\ th'[x].addr = th[x].addr /\ th'[x].val = th[x].val
      /\ (th[x].wakeup => th'[x].wakeup)
  BY DEF Goes
<1>2. /\ th[x].pc \in PollPoints /\ th[x].addr = WaitsFor(x) /\ th[x].val = Asleep
      /\ th[x].wakeup \/ sems[th[x].addr] = Asleep
  BY <1>1 DEF WaitOk
<1>3. x # Main
  BY <1>2 DEF PcOk, PollPoints
<1>4. x \in Buffer => args'[x] = args[x]
  BY <1>1
<1>5. WaitsFor(x)' = WaitsFor(x)
  BY <1>1, <1>3, <1>4, WaitsForSame
<1>6. QED
  BY <1>1, <1>2, <1>5

\* Where a thread may go on.
MayGo(t, pc) ==
  /\ t = Tcpip => pc \in {"fetch", "get", "call"}
  /\ t \in Buffer =>
       \/ args[t] \in Inputs /\ pc \in {"put", "done"}
       \/ args[t] \in Recvs /\ pc \in {"get", "done"}
       \/ args[t] \in Calls /\ pc \in {"callput", "op", "done"}

\* The thread that runs goes on running, or at the end of its turn.
LEMMA RunKeeps ==
  ASSUME Base, NEW t \in Thread \ {Main}, cur = t, NEW pc, Goes(t, pc), MayGo(t, pc),
         UNCHANGED <<cur, queue, buse, args, main, client>>
  PROVE  PcOk' /\ Live' = Live /\ LineOk' /\ BufOk' /\ ClientOk'
<1>1. /\ PcOk /\ LineOk /\ BufOk /\ ClientOk
  BY DEF Base
<1>2. /\ th'[t].pc = pc /\ \A x \in Thread \ {t} : th'[x].pc = th[x].pc
  BY DEF Goes
<1>3. pc # "none" /\ th[t].pc # "none"
  <2>1. pc # "none"
    BY Threads DEF MayGo
  <2>2. t \in Live
    BY <1>1 DEF LineOk, Lined
  <2>3. QED
    BY <2>1, <2>2 DEF Live
<1>4. Live' = Live
  BY <1>2, <1>3 DEF Live
<1>5. LineOk'
  BY <1>1, <1>4 DEF LineOk
<1>6. PcOk'
  <2>1. th'[Main].pc \in {"flush", "recv", "timer", "panic"}
    BY <1>1, <1>2, Threads DEF PcOk
  <2>2. th'[Tcpip].pc \in {"fetch", "get", "call"}
    BY <1>1, <1>2, Threads DEF PcOk, MayGo
  <2>3. ASSUME NEW b \in Buffer
        PROVE  \/ args[b] = NoReq /\ th'[b].pc = "none"
               \/ args[b] \in Inputs /\ th'[b].pc \in {"post", "put", "done"}
               \/ args[b] \in Recvs /\ th'[b].pc \in {"fetch", "get", "done"}
               \/ args[b] \in Calls /\ th'[b].pc \in {"callpost", "callput", "op", "done"}
    <3>1. CASE b = t
      BY <3>1, <1>2 DEF MayGo
    <3>2. CASE b # t
      BY <3>2, <1>1, <1>2, Threads DEF PcOk
    <3>3. QED
      BY <3>1, <3>2
  <2>4. \A x \in Thread \ {Main} : Running(x)' => cur' = x
    BY <1>1, <1>2 DEF PcOk, Running
  <2>5. QED
    BY <2>1, <2>2, <2>3, <2>4 DEF PcOk
<1>7. BufOk'
  <2>1. th'[Main].pc = th[Main].pc
    BY <1>2, Threads
  <2>2. \A b \in Buffer : th'[b].pc = "none" <=> th[b].pc = "none"
    BY <1>2, <1>3, Threads
  <2>3. QED
    BY <1>1, <2>1, <2>2 DEF BufOk
<1>8. ClientOk'
  BY <1>1 DEF ClientOk, Server
<1>9. QED
  BY <1>4, <1>5, <1>6, <1>7, <1>8

\* No thread is in the middle of a mailbox operation when cur is a thread at a
\* poll point, or main.
LEMMA NotInBox ==
  ASSUME th[cur].pc \notin {"get", "put", "callput"}
  PROVE  \A m \in Mbox : ~Getting(m) /\ ~Putting(m)
BY DEF Getting, Putting

-----------------------------------------------------------------------------
(* sys_arch_sem_wait. *)

\* A thread that gets its semaphore keeps the invariant.
LEMMA AcquireBase ==
  ASSUME Base, NEW t \in Thread, SemWait(t), Acquires(t, WaitsFor(t)),
         Goes(t, After(th[t].pc))
  PROVE  Base'
<1>0. DataOk /\ LineOk /\ PcOk /\ WaitOk /\ CountOk /\ BufOk /\ ClientOk
  BY DEF Base
<1>1. /\ cur = t /\ th[t].pc \in PollPoints
      /\ UNCHANGED <<cur, queue, mboxes, buse, args, main, op, client, timer, arrived, given>>
  BY DEF SemWait, Acquires, world
<1>2. PICK a : a = WaitsFor(t)
  OBVIOUS
<1>3. /\ t # Main /\ a \in Sem
      /\ t = Tcpip => th[t].pc = "fetch" /\ Mail(t) = Tcpip
      /\ t # Tcpip => t \in Buffer /\ Mail(t) = args[t].client /\ Mail(t) \in Client
      /\ th[t].pc = "post" => t # Tcpip /\ a = <<Mail(t), "free">>
      /\ th[t].pc = "callpost" => t # Tcpip /\ a = <<Tcpip, "free">>
      /\ th[t].pc = "op" => t # Tcpip /\ a = <<Mail(t), "op">>
      /\ th[t].pc = "fetch" => a = <<Mail(t), "queued">>
  BY <1>0, <1>1, <1>2, WaitsForIs
<1>4. /\ th[t].pc = "post" => After(th[t].pc) = "put"
      /\ th[t].pc = "callpost" => After(th[t].pc) = "callput"
      /\ th[t].pc = "op" => After(th[t].pc) = "done"
      /\ th[t].pc = "fetch" => After(th[t].pc) = "get"
  BY DEF After
<1>5. MayGo(t, After(th[t].pc))
  <2>1. ASSUME t \in Buffer
        PROVE  \/ args[t] \in Inputs /\ th[t].pc = "post"
               \/ args[t] \in Recvs /\ th[t].pc = "fetch"
               \/ args[t] \in Calls /\ th[t].pc \in {"callpost", "op"}
    BY <2>1, <1>0, <1>1 DEF PcOk, PollPoints
  <2>2. QED
    BY <2>1, <1>3, <1>4 DEF MayGo
<1>6. PcOk' /\ Live' = Live /\ LineOk' /\ BufOk' /\ ClientOk'
  BY <1>1, <1>3, <1>5, RunKeeps
<1>7. DataOk'
  BY <1>0, <1>1 DEF DataOk, Acquires, Goes
<1>8. WaitOk'
  <2>1. ASSUME NEW x \in Thread \ {t}, th[x].addr # NoSem, ~th'[x].wakeup
        PROVE  sems'[th[x].addr] = sems[th[x].addr]
    <3>1. sems[th[x].addr] = Asleep
      BY <2>1, <1>0 DEF WaitOk, Goes
    <3>2. th[x].addr # a
      BY <3>1, <1>2 DEF Acquires, Asleep
    <3>3. th[x].addr \in Sem
      BY <2>1, <1>0 DEF DataOk, Contexts
    <3>4. QED
      BY <3>2, <3>3, <1>2 DEF Acquires
  <2>2. QED
    BY <2>1, <1>0, <1>1, WaitKept
<1>9. CountOk'
  <2>1. SUFFICES ASSUME NEW m \in Mbox
                 PROVE  /\ sems'[<<m, "queued">>].counter
                             = Msgs(m)' - (IF Getting(m)' THEN 1 ELSE 0)
                        /\ sems'[<<m, "free">>].counter
                             = MBOXSLOTS - Msgs(m)' - (IF Putting(m)' THEN 1 ELSE 0)
    BY DEF CountOk
  <2>2. Msgs(m)' = Msgs(m) /\ Mail(t)' = Mail(t)
    BY <1>1 DEF Msgs, Mail
  <2>3. ~Getting(m) /\ ~Putting(m)
    BY <1>1, NotInBox DEF PollPoints
  <2>4. /\ sems[<<m, "queued">>].counter = Msgs(m)
        /\ sems[<<m, "free">>].counter = MBOXSLOTS - Msgs(m)
        /\ Msgs(m) \in Int /\ MBOXSLOTS \in Int
    <3>1. MBOXSLOTS \in Nat
      BY Sized DEF Sizes
    <3>2. mboxes[m] \in Boxes
      BY <1>0 DEF DataOk
    <3>3. Msgs(m) \in Int
      BY <3>1, <3>2 DEF Msgs, Boxes, Count
    <3>4. QED
      BY <2>3, <3>1, <3>3, <1>0 DEF CountOk
  <2>5. th'[t].pc = After(th[t].pc) /\ cur' = t
    BY <1>1 DEF Goes
  <2>6. /\ <<m, "queued">> \in Sem /\ <<m, "free">> \in Sem
        /\ \A s \in Sem : s # a => sems'[s] = sems[s]
        /\ sems'[a].counter = sems[a].counter - 1
    BY <1>2, Sems DEF Acquires
  <2>7. CASE th[t].pc = "fetch"
    <3>1. th'[t].pc = "get" /\ a = <<Mail(t), "queued">>
      BY <2>7, <2>5, <1>3, <1>4
    <3>2. ~Putting(m)' /\ (Getting(m)' <=> m = Mail(t))
      BY <3>1, <2>2, <2>5 DEF Putting, Getting
    <3>3. sems'[<<m, "free">>] = sems[<<m, "free">>]
      BY <3>1, <2>6, Sems
    <3>4. CASE m = Mail(t)
      BY <3>1, <3>2, <3>3, <3>4, <2>2, <2>4, <2>6
    <3>5. CASE m # Mail(t)
      BY <3>1, <3>2, <3>3, <3>5, <2>2, <2>4, <2>6, Sems
    <3>6. QED
      BY <3>4, <3>5
  <2>8. CASE th[t].pc = "post"
    <3>1. th'[t].pc = "put" /\ a = <<Mail(t), "free">>
      BY <2>8, <2>5, <1>3, <1>4
    <3>2. ~Getting(m)' /\ (Putting(m)' <=> m = Mail(t))
      BY <3>1, <2>2, <2>5 DEF Putting, Getting
    <3>3. sems'[<<m, "queued">>] = sems[<<m, "queued">>]
      BY <3>1, <2>6, Sems
    <3>4. CASE m = Mail(t)
      BY <3>1, <3>2, <3>3, <3>4, <2>2, <2>4, <2>6
    <3>5. CASE m # Mail(t)
      BY <3>1, <3>2, <3>3, <3>5, <2>2, <2>4, <2>6, Sems
    <3>6. QED
      BY <3>4, <3>5
  <2>9. CASE th[t].pc = "callpost"
    <3>1. th'[t].pc = "callput" /\ a = <<Tcpip, "free">>
      BY <2>9, <2>5, <1>3, <1>4
    <3>2. ~Getting(m)' /\ (Putting(m)' <=> m = Tcpip)
      BY <3>1, <2>2, <2>5 DEF Putting, Getting
    <3>3. sems'[<<m, "queued">>] = sems[<<m, "queued">>]
      BY <3>1, <2>6, Sems
    <3>4. CASE m = Tcpip
      BY <3>1, <3>2, <3>3, <3>4, <2>2, <2>4, <2>6
    <3>5. CASE m # Tcpip
      BY <3>1, <3>2, <3>3, <3>5, <2>2, <2>4, <2>6, Sems
    <3>6. QED
      BY <3>4, <3>5
  <2>10. CASE th[t].pc = "op"
    <3>1. th'[t].pc = "done" /\ a = <<Mail(t), "op">>
      BY <2>10, <2>5, <1>3, <1>4
    <3>2. ~Getting(m)' /\ ~Putting(m)'
      BY <3>1, <2>5 DEF Putting, Getting
    <3>3. /\ sems'[<<m, "queued">>] = sems[<<m, "queued">>]
          /\ sems'[<<m, "free">>] = sems[<<m, "free">>]
      BY <3>1, <2>6, Sems
    <3>4. QED
      BY <3>2, <3>3, <2>2, <2>4
  <2>11. QED
    BY <2>7, <2>8, <2>9, <2>10, <1>1 DEF PollPoints
<1>10. QED
  BY <1>6, <1>7, <1>8, <1>9 DEF Base

\* A thread that waits, or waits on, keeps the invariant.
LEMMA BlockBase ==
  ASSUME Base, NEW t \in Thread, SemWait(t), Blocks(t, WaitsFor(t))
  PROVE  Base' /\ Live' = Live
<1>0. DataOk /\ LineOk /\ PcOk /\ WaitOk /\ CountOk /\ BufOk /\ ClientOk
  BY DEF Base
<1>1. /\ cur = t /\ th[t].pc \in PollPoints
      /\ UNCHANGED <<mboxes, buse, args, main, op, client, timer, arrived, given>>
  BY DEF SemWait, world
<1>2. PICK a : a = WaitsFor(t)
  OBVIOUS
<1>3. /\ t # Main /\ a \in Sem /\ sems[a].counter = 0 /\ sems'[a] = Asleep
  BY <1>0, <1>1, <1>2, WaitsForIs DEF Blocks
<1>4. /\ th' \in [Thread -> Contexts] /\ sems' \in [Sem -> Values] /\ Yield(t)
      /\ \A x \in Thread : th'[x].pc = th[x].pc
      /\ \A x \in Thread \ {t} : th'[x] = th[x]
      /\ th'[t].addr = a /\ th'[t].val = Asleep
      /\ \A s \in Sem : s # a => sems'[s] = sems[s]
  BY <1>2 DEF Blocks
<1>5. \A s \in Sem : sems'[s].counter = sems[s].counter
  <2>1. Asleep.counter = 0
    BY DEF Asleep
  <2>2. QED
    BY <1>3, <1>4, <2>1
<1>6. Live' = Live
  BY <1>4 DEF Live
<1>7. LineOk'
  BY <1>0, <1>1, <1>4, <1>6, YieldLine
<1>8. DataOk'
  BY <1>0, <1>1, <1>4 DEF DataOk
<1>9. PcOk'
  <2>1. \A x \in Thread \ {Main} : ~Running(x)
    BY <1>0, <1>1 DEF PcOk, Running
  <2>2. \A x \in Thread \ {Main} : ~Running(x)'
    BY <2>1, <1>4 DEF Running
  <2>3. QED
    BY <2>2, <1>0, <1>1, <1>4, Threads DEF PcOk
<1>10. WaitOk'
  <2>1. SUFFICES ASSUME NEW x \in Thread, th'[x].addr # NoSem
                 PROVE  /\ th'[x].pc \in PollPoints
                        /\ th'[x].addr = WaitsFor(x)'
                        /\ th'[x].val = Asleep
                        /\ th'[x].wakeup \/ sems'[th'[x].addr] = Asleep
    BY DEF WaitOk
  <2>2. CASE x = t
    <3>1. WaitsFor(t)' = WaitsFor(t)
      BY <1>1, <1>3, <1>4, WaitsForSame
    <3>2. QED
      BY <2>2, <3>1, <1>1, <1>2, <1>3, <1>4
  <2>3. CASE x # t
    <3>1. th'[x] = th[x] /\ th[x].pc \in PollPoints
      BY <2>1, <2>3, <1>0, <1>4 DEF WaitOk
    <3>2. x # Main
      BY <3>1, <1>0 DEF PcOk, PollPoints
    <3>3. WaitsFor(x)' = WaitsFor(x)
      BY <3>1, <3>2, <1>1, WaitsForSame
    <3>4. th[x].addr \in Sem
      BY <2>1, <3>1, <1>0 DEF DataOk, Contexts
    <3>5. sems[th[x].addr] = Asleep => sems'[th[x].addr] = Asleep
      BY <3>4, <1>3, <1>4
    <3>6. QED
      BY <2>1, <3>1, <3>3, <3>5, <1>0 DEF WaitOk
  <2>4. QED
    BY <2>2, <2>3
<1>11. CountOk'
  <2>1. th[cur].pc \notin {"get", "put", "callput"}
    BY <1>1 DEF PollPoints
  <2>2. th'[cur'].pc \notin {"get", "put", "callput"}
    <3>1. cur' \in Thread
      BY <1>7 DEF LineOk, Lined, Live
    <3>2. CASE cur' = Main
      BY <3>2, <1>9 DEF PcOk
    <3>3. CASE cur' # Main
      <4>1. ~Running(cur')
        BY <3>1, <3>3, <1>0, <1>1 DEF PcOk, Running
      <4>2. QED
        BY <3>1, <4>1, <1>4 DEF Running, PollPoints
    <3>4. QED
      BY <3>2, <3>3
  <2>3. \A m \in Mbox : ~Getting(m) /\ ~Putting(m) /\ ~Getting(m)' /\ ~Putting(m)'
    BY <2>1, <2>2 DEF Getting, Putting
  <2>4. \A m \in Mbox : Msgs(m)' = Msgs(m)
    BY <1>1 DEF Msgs
  <2>5. \A m \in Mbox :
          /\ sems'[<<m, "queued">>].counter = sems[<<m, "queued">>].counter
          /\ sems'[<<m, "free">>].counter = sems[<<m, "free">>].counter
    BY <1>5, Sems
  <2>6. QED
    BY <2>3, <2>4, <2>5, <1>0 DEF CountOk
<1>12. BufOk' /\ ClientOk'
  BY <1>0, <1>1, <1>4, Threads DEF BufOk, ClientOk, Server
<1>13. QED
  BY <1>6, <1>7, <1>8, <1>9, <1>10, <1>11, <1>12 DEF Base

-----------------------------------------------------------------------------
(* The ring of a mailbox. *)

\* A ring holds at most MBOXSLOTS messages: none with no head, all when nextq has come
\* round to the head.
LEMMA CountRange ==
  ASSUME NEW h \in -1 .. MBOXSLOTS - 1, NEW q \in 0 .. MBOXSLOTS - 1
  PROVE  /\ Count(h, q) \in 0 .. MBOXSLOTS
         /\ Count(h, q) = 0 <=> h = -1
         /\ Count(h, q) = MBOXSLOTS <=> q = h
<1>1. MBOXSLOTS \in Nat \ {0}
  BY Sized DEF Sizes
<1>2. QED
  BY <1>1 DEF Count

\* A message is put into slot q, behind the others.
LEMMA RingPut ==
  ASSUME NEW h \in -1 .. MBOXSLOTS - 1, NEW q \in 0 .. MBOXSLOTS - 1, q # h,
         NEW g, g = IF h = -1 THEN q ELSE h
  PROVE  /\ g \in 0 .. MBOXSLOTS - 1 /\ NextSlot(q) \in 0 .. MBOXSLOTS - 1
         /\ Count(g, NextSlot(q)) = Count(h, q) + 1
         /\ Slot(g, Count(h, q)) = q
         /\ \A j \in 0 .. Count(h, q) - 1 :
              /\ Slot(g, j) = Slot(h, j) /\ Slot(g, j) # q
              /\ Slot(g, j) \in 0 .. MBOXSLOTS - 1
<1>1. MBOXSLOTS \in Nat \ {0}
  BY Sized DEF Sizes
<1>2. PICK n : n = NextSlot(q)
  OBVIOUS
<1>3. n = (IF q + 1 = MBOXSLOTS THEN 0 ELSE q + 1) /\ n \in 0 .. MBOXSLOTS - 1
  BY <1>2, Slots
<1>4. Count(g, n) = Count(h, q) + 1 /\ Slot(g, Count(h, q)) = q
  BY <1>1, <1>3 DEF Count, Slot
<1>5. \A j \in 0 .. Count(h, q) - 1 :
        /\ Slot(g, j) = Slot(h, j) /\ Slot(g, j) # q
        /\ Slot(g, j) \in 0 .. MBOXSLOTS - 1
  BY <1>1 DEF Count, Slot
<1>6. QED
  BY <1>2, <1>3, <1>4, <1>5

\* The message of slot h is taken out.
LEMMA RingGet ==
  ASSUME NEW h \in 0 .. MBOXSLOTS - 1, NEW q \in 0 .. MBOXSLOTS - 1,
         NEW g, g = IF NextSlot(h) = q THEN -1 ELSE NextSlot(h)
  PROVE  /\ g \in -1 .. MBOXSLOTS - 1
         /\ Count(g, q) = Count(h, q) - 1
         /\ Slot(h, 0) = h
         /\ \A j \in 0 .. Count(h, q) - 2 : Slot(g, j) = Slot(h, j + 1)
<1>1. MBOXSLOTS \in Nat \ {0}
  BY Sized DEF Sizes
<1>2. PICK n : n = NextSlot(h)
  OBVIOUS
<1>3. n = (IF h + 1 = MBOXSLOTS THEN 0 ELSE h + 1) /\ n \in 0 .. MBOXSLOTS - 1
  BY <1>2, Slots
<1>4. g = IF n = q THEN -1 ELSE n
  BY <1>2
<1>5. Count(g, q) = Count(h, q) - 1 /\ Slot(h, 0) = h /\ g \in -1 .. MBOXSLOTS - 1
  BY <1>1, <1>3, <1>4 DEF Count, Slot
<1>6. \A j \in 0 .. Count(h, q) - 2 : Slot(g, j) = Slot(h, j + 1)
  BY <1>1, <1>3, <1>4 DEF Count, Slot
<1>7. QED
  BY <1>5, <1>6

\* The same of mailbox m.
LEMMA MsgsRange ==
  ASSUME DataOk, NEW m \in Mbox
  PROVE  /\ mboxes[m] \in Boxes /\ Msgs(m) \in 0 .. MBOXSLOTS
         /\ mboxes[m].head \in -1 .. MBOXSLOTS - 1 /\ mboxes[m].nextq \in 0 .. MBOXSLOTS - 1
         /\ mboxes[m].msg \in [0 .. MBOXSLOTS - 1 -> Int]
         /\ Msgs(m) = 0 <=> mboxes[m].head = -1
         /\ Msgs(m) = MBOXSLOTS <=> mboxes[m].nextq = mboxes[m].head
<1>1. mboxes[m] \in Boxes
  BY DEF DataOk
<1>2. mboxes[m].head \in -1 .. MBOXSLOTS - 1 /\ mboxes[m].nextq \in 0 .. MBOXSLOTS - 1
      /\ mboxes[m].msg \in [0 .. MBOXSLOTS - 1 -> Int]
  BY <1>1 DEF Boxes
<1>3. QED
  BY <1>1, <1>2, CountRange DEF Msgs

\* After a signal a waiting thread still waits for what it waited, or is woken up.
LEMMA SignalWait ==
  ASSUME DataOk, PcOk, WaitOk, NEW t \in Thread, NEW a, NEW pc, Goes(t, pc), Signalled(t, a),
         UNCHANGED args
  PROVE  WaitOk'
<1>1. ASSUME NEW x \in Thread \ {t}, th[x].addr # NoSem, ~th'[x].wakeup
      PROVE  sems'[th[x].addr] = sems[th[x].addr]
  <2>1. th[x].addr \in Sem
    BY <1>1 DEF DataOk, Contexts
  <2>2. CASE th[x].addr = a
    <3>1. ~th[x].wakeup
      BY <1>1 DEF Goes
    <3>2. sems[a] = Asleep
      BY <1>1, <2>2, <3>1 DEF WaitOk
    <3>3. sems[a].waiters
      BY <3>2 DEF Asleep
    <3>4. QED
      BY <1>1, <2>1, <2>2, <3>3 DEF Signalled
  <2>3. CASE th[x].addr # a
    BY <2>1, <2>3 DEF Signalled
  <2>4. QED
    BY <2>2, <2>3
<1>2. QED
  BY <1>1, WaitKept

-----------------------------------------------------------------------------
(* sys_mbox_trypost and sys_arch_mbox_fetch. *)

\* The mailbox thread t puts a message into, and the message.
PostBox(t) == IF th[t].pc = "put" THEN Mail(t) ELSE Tcpip
PostMsg(t) == IF th[t].pc = "put" THEN args[t].pkt ELSE t

\* Box m has got message v behind its others.
Puts(m, v) ==
  LET g == IF mboxes[m].head = -1 THEN mboxes[m].nextq ELSE mboxes[m].head IN
  /\ mboxes[m].nextq # mboxes[m].head
  /\ mboxes' \in [Mbox -> Boxes]
  /\ \A k \in Mbox : k # m => mboxes'[k] = mboxes[k]
  /\ mboxes'[m].head = g /\ mboxes'[m].nextq = NextSlot(mboxes[m].nextq)
  /\ mboxes'[m].msg = [mboxes[m].msg EXCEPT ![mboxes[m].nextq] = v]

\* sys_mbox_trypost: the thread has counted a slot, so that there is one; it puts its
\* message into it and signals queued.
LEMMA PostDoes ==
  ASSUME Base, NEW t \in Thread, Post(t)
  PROVE  /\ cur = t /\ t \in Buffer /\ PostBox(t) \in Mbox
         /\ Puts(PostBox(t), PostMsg(t))
         /\ Signalled(t, <<PostBox(t), "queued">>)
         /\ \/ /\ th[t].pc = "put" /\ args[t] \in Inputs /\ PostBox(t) = args[t].client
               /\ PostBox(t) \in Client /\ PostMsg(t) = args[t].pkt /\ Goes(t, "done")
            \/ /\ th[t].pc = "callput" /\ args[t] \in Calls /\ PostBox(t) = Tcpip
               /\ PostMsg(t) = t /\ Goes(t, "op")
<1>0. DataOk /\ LineOk /\ PcOk /\ WaitOk /\ CountOk /\ BufOk /\ ClientOk
  BY DEF Base
<1>1. cur = t /\ th[t].pc \in {"put", "callput"}
  BY DEF Post
<1>2. /\ t \in Buffer
      /\ th[t].pc = "put" => args[t] \in Inputs
      /\ th[t].pc = "callput" => args[t] \in Calls
  BY <1>0, <1>1, Threads DEF PcOk
<1>3. PICK m, v, pc : /\ m = PostBox(t) /\ v = PostMsg(t)
                      /\ pc = IF th[t].pc = "put" THEN "done" ELSE "op"
  OBVIOUS
<1>4. /\ th[t].pc = "put" =>
           m = args[t].client /\ m \in Client /\ v = args[t].pkt /\ v \in Int /\ m = Mail(t)
      /\ th[t].pc = "callput" => m = Tcpip /\ v = t /\ v \in Int
      /\ m \in Mbox
  <2>1. th[t].pc = "put" => args[t].client \in Client /\ args[t].pkt \in Int
    BY <1>2 DEF Inputs
  <2>2. Mail(t) = args[t].client
    BY <1>2, Threads DEF Mail
  <2>3. t \in Int
    BY <1>2, Threads
  <2>4. QED
    BY <1>1, <1>3, <2>1, <2>2, <2>3, Threads DEF PostBox, PostMsg
<1>5. Putting(m)
  BY <1>1, <1>4 DEF Putting
<1>6. mboxes[m].nextq # mboxes[m].head
  <2>1. sems[<<m, "free">>].counter = MBOXSLOTS - Msgs(m) - 1
    BY <1>0, <1>4, <1>5 DEF CountOk
  <2>2. sems[<<m, "free">>].counter \in Nat
    BY <1>0, <1>4, Sems DEF DataOk, Values
  <2>3. MBOXSLOTS \in Nat
    BY Sized DEF Sizes
  <2>4. Msgs(m) # MBOXSLOTS
    BY <2>1, <2>2, <2>3, <1>0, <1>4, MsgsRange
  <2>5. QED
    BY <2>4, <1>0, <1>4, MsgsRange
<1>7. /\ mboxes' = [mboxes EXCEPT ![m] =
           [head |-> IF mboxes[m].head = -1 THEN mboxes[m].nextq ELSE mboxes[m].head,
            nextq |-> NextSlot(mboxes[m].nextq),
            msg |-> [mboxes[m].msg EXCEPT ![mboxes[m].nextq] = v]]]
      /\ Signal(t, <<m, "queued">>, pc)
  BY <1>3, <1>6 DEF Post, PostBox, PostMsg
<1>8. Puts(m, v)
  <2>1. /\ mboxes[m].head \in -1 .. MBOXSLOTS - 1 /\ mboxes[m].nextq \in 0 .. MBOXSLOTS - 1
        /\ mboxes[m].msg \in [0 .. MBOXSLOTS - 1 -> Int]
    BY <1>0, <1>4, MsgsRange
  <2>2. PICK g : g = IF mboxes[m].head = -1 THEN mboxes[m].nextq ELSE mboxes[m].head
    OBVIOUS
  <2>3. g \in 0 .. MBOXSLOTS - 1 /\ NextSlot(mboxes[m].nextq) \in 0 .. MBOXSLOTS - 1
    BY <2>1, <2>2, <1>6, RingPut
  <2>4. PICK new : new = [head |-> g, nextq |-> NextSlot(mboxes[m].nextq),
                          msg |-> [mboxes[m].msg EXCEPT ![mboxes[m].nextq] = v]]
    OBVIOUS
  <2>5. v \in Int
    BY <1>1, <1>4
  <2>6. new \in Boxes
    <3>1. [mboxes[m].msg EXCEPT ![mboxes[m].nextq] = v] \in [0 .. MBOXSLOTS - 1 -> Int]
      BY <2>1, <2>5
    <3>2. g \in -1 .. MBOXSLOTS - 1
      BY <2>3, Sized DEF Sizes
    <3>3. QED
      BY <2>3, <2>4, <3>1, <3>2 DEF Boxes
  <2>7. mboxes' = [mboxes EXCEPT ![m] = new] /\ mboxes \in [Mbox -> Boxes]
    BY <1>0, <1>7, <2>2, <2>4 DEF DataOk
  <2>8. /\ mboxes' \in [Mbox -> Boxes] /\ mboxes'[m] = new
        /\ \A k \in Mbox : k # m => mboxes'[k] = mboxes[k]
    BY <2>6, <2>7, <1>4
  <2>9. QED
    BY <2>2, <2>4, <2>8, <1>6 DEF Puts
<1>9. Goes(t, pc) /\ Signalled(t, <<m, "queued">>)
  <2>1. pc \in Labels
    BY <1>3 DEF Labels, PollPoints
  <2>2. <<m, "queued">> # NoSem
    BY Sems
  <2>3. QED
    BY <1>0, <1>7, <2>1, <2>2, SignalGoes
<1>10. QED
  BY <1>1, <1>2, <1>3, <1>4, <1>8, <1>9

\* A message more in mailbox m, and none in the others.
LEMMA PutsCount ==
  ASSUME DataOk, NEW m \in Mbox, NEW v, Puts(m, v)
  PROVE  /\ Msgs(m)' = Msgs(m) + 1
         /\ \A k \in Mbox : k # m => Msgs(k)' = Msgs(k)
<1>1. /\ mboxes[m].head \in -1 .. MBOXSLOTS - 1 /\ mboxes[m].nextq \in 0 .. MBOXSLOTS - 1
  BY MsgsRange
<1>2. Msgs(m)' = Msgs(m) + 1
  BY <1>1, RingPut DEF Puts, Msgs
<1>3. QED
  BY <1>2 DEF Puts, Msgs

\* A post keeps the invariant.
LEMMA PostBase ==
  ASSUME Base, NEW t \in Thread, Post(t)
  PROVE  Base' /\ Live' = Live
<1>0. DataOk /\ LineOk /\ PcOk /\ WaitOk /\ CountOk /\ BufOk /\ ClientOk
  BY DEF Base
<1>1. UNCHANGED <<cur, queue, buse, args, main, op, client, timer, arrived, given>>
  BY DEF Post, threads, world
<1>2. PICK m, pc : m = PostBox(t) /\ pc = IF th[t].pc = "put" THEN "done" ELSE "op"
  OBVIOUS
<1>3. /\ cur = t /\ t \in Buffer /\ m \in Mbox /\ Puts(m, PostMsg(t))
      /\ Signalled(t, <<m, "queued">>) /\ Goes(t, pc)
      /\ \/ th[t].pc = "put" /\ args[t] \in Inputs /\ m = args[t].client /\ pc = "done"
         \/ th[t].pc = "callput" /\ args[t] \in Calls /\ m = Tcpip /\ pc = "op"
  BY <1>2, PostDoes
<1>4. PcOk' /\ Live' = Live /\ LineOk' /\ BufOk' /\ ClientOk'
  <2>1. MayGo(t, pc)
    BY <1>3, Threads DEF MayGo
  <2>2. QED
    BY <2>1, <1>1, <1>3, Threads, RunKeeps
<1>5. DataOk'
  BY <1>0, <1>1, <1>3 DEF DataOk, Goes, Signalled, Puts
<1>6. WaitOk'
  BY <1>0, <1>1, <1>3, Threads, SignalWait
<1>7. CountOk'
  <2>1. SUFFICES ASSUME NEW k \in Mbox
                 PROVE  /\ sems'[<<k, "queued">>].counter
                             = Msgs(k)' - (IF Getting(k)' THEN 1 ELSE 0)
                        /\ sems'[<<k, "free">>].counter
                             = MBOXSLOTS - Msgs(k)' - (IF Putting(k)' THEN 1 ELSE 0)
    BY DEF CountOk
  <2>2. Msgs(m)' = Msgs(m) + 1 /\ (k # m => Msgs(k)' = Msgs(k))
    BY <1>0, <1>3, PutsCount
  <2>3. th'[cur'].pc = pc
    BY <1>1, <1>3 DEF Goes
  <2>4. ~Getting(k)' /\ ~Putting(k)' /\ ~Getting(k)
    BY <2>3, <1>3 DEF Getting, Putting
  <2>5. Putting(k) <=> k = m
    BY <1>3, Threads DEF Putting, Mail
  <2>6. Msgs(k) \in Int /\ Msgs(m) \in Int /\ MBOXSLOTS \in Int
    BY <1>0, <1>3, MsgsRange, Sized DEF Sizes
  <2>7. sems'[<<k, "free">>] = sems[<<k, "free">>]
    BY <1>3, Sems DEF Signalled
  <2>8. sems[<<k, "queued">>].counter = Msgs(k)
    <3>1. sems[<<k, "queued">>].counter = Msgs(k) - (IF Getting(k) THEN 1 ELSE 0)
      BY <1>0 DEF CountOk
    <3>2. QED
      BY <3>1, <2>4, <2>6
  <2>9. sems[<<k, "free">>].counter = MBOXSLOTS - Msgs(k) - (IF k = m THEN 1 ELSE 0)
    BY <2>5, <1>0 DEF CountOk
  <2>10. CASE k = m
    <3>1. sems'[<<k, "queued">>].counter = sems[<<k, "queued">>].counter + 1
      BY <2>10, <1>3, Sems DEF Signalled
    <3>2. QED
      BY <3>1, <2>2, <2>4, <2>6, <2>7, <2>8, <2>9, <2>10
  <2>11. CASE k # m
    <3>1. sems'[<<k, "queued">>] = sems[<<k, "queued">>]
      BY <2>11, <1>3, Sems DEF Signalled
    <3>2. QED
      BY <3>1, <2>2, <2>4, <2>6, <2>7, <2>8, <2>9, <2>11
  <2>12. QED
    BY <2>10, <2>11
<1>8. QED
  BY <1>4, <1>5, <1>6, <1>7 DEF Base

-----------------------------------------------------------------------------
\* Box m has given its first message.
Gives(m) ==
  /\ mboxes[m].head # -1
  /\ mboxes' \in [Mbox -> Boxes]
  /\ \A k \in Mbox : k # m => mboxes'[k] = mboxes[k]
  /\ mboxes'[m].head = IF NextSlot(mboxes[m].head) = mboxes[m].nextq THEN -1
                       ELSE NextSlot(mboxes[m].head)
  /\ mboxes'[m].nextq = mboxes[m].nextq /\ mboxes'[m].msg = mboxes[m].msg

\* The first message of box m.
First(m) == mboxes[m].msg[mboxes[m].head]

\* sys_arch_mbox_fetch: the thread has counted a message, so that there is one; it takes
\* the first and signals free.
LEMMA FetchDoes ==
  ASSUME Base, NEW t \in Thread, Fetch(t)
  PROVE  /\ cur = t /\ t # Main /\ th[t].pc = "get" /\ Mail(t) \in Mbox
         /\ Gives(Mail(t)) /\ Signalled(t, <<Mail(t), "free">>)
         /\ \/ /\ t = Tcpip /\ Mail(t) = Tcpip /\ given' = given /\ op' = First(Tcpip)
               /\ Goes(t, "call")
            \/ /\ t \in Buffer /\ args[t] \in Recvs /\ Mail(t) = args[t].client
               /\ Mail(t) \in Client /\ op' = op /\ Goes(t, "done")
               /\ given' = [given EXCEPT ![Mail(t)] = Append(given[Mail(t)], First(Mail(t)))]
<1>0. DataOk /\ LineOk /\ PcOk /\ WaitOk /\ CountOk /\ BufOk /\ ClientOk
  BY DEF Base
<1>1. cur = t /\ th[t].pc = "get"
  BY DEF Fetch
<1>2. t # Main /\ (t # Tcpip => t \in Buffer /\ args[t] \in Recvs)
  BY <1>0, <1>1, Threads DEF PcOk
<1>3. PICK m, pc : m = Mail(t) /\ pc = IF t = Tcpip THEN "call" ELSE "done"
  OBVIOUS
<1>4. /\ t = Tcpip => m = Tcpip /\ pc = "call"
      /\ t # Tcpip => m = args[t].client /\ m \in Client /\ pc = "done"
      /\ m \in Mbox
  <2>1. t # Tcpip => args[t].client \in Client
    BY <1>2 DEF Recvs
  <2>2. QED
    BY <1>3, <2>1, Threads DEF Mail
<1>5. Getting(m)
  BY <1>1, <1>3 DEF Getting
<1>6. mboxes[m].head # -1
  <2>1. sems[<<m, "queued">>].counter = Msgs(m) - 1
    BY <1>0, <1>4, <1>5 DEF CountOk
  <2>2. sems[<<m, "queued">>].counter \in Nat
    BY <1>0, <1>4, Sems DEF DataOk, Values
  <2>3. Msgs(m) # 0
    BY <2>1, <2>2, <1>0, <1>4, MsgsRange
  <2>4. QED
    BY <2>3, <1>0, <1>4, MsgsRange
<1>7. /\ mboxes' = [mboxes EXCEPT ![m].head = HeadAfter(mboxes[m])]
      /\ Signal(t, <<m, "free">>, pc)
      /\ given' = IF t = Tcpip THEN given
                  ELSE [given EXCEPT ![m] = Append(given[m], First(m))]
      /\ op' = IF t = Tcpip THEN First(m) ELSE op
  BY <1>3, <1>6 DEF Fetch, First
<1>8. Gives(m)
  <2>1. /\ mboxes[m].head \in 0 .. MBOXSLOTS - 1 /\ mboxes[m].nextq \in 0 .. MBOXSLOTS - 1
        /\ mboxes[m] \in Boxes
    <3>1. MBOXSLOTS \in Nat
      BY Sized DEF Sizes
    <3>2. QED
      BY <3>1, <1>0, <1>4, <1>6, MsgsRange
  <2>2. PICK g : g = HeadAfter(mboxes[m])
    OBVIOUS
  <2>3. g = IF NextSlot(mboxes[m].head) = mboxes[m].nextq THEN -1
            ELSE NextSlot(mboxes[m].head)
    BY <2>2 DEF HeadAfter
  <2>4. g \in -1 .. MBOXSLOTS - 1
    BY <2>1, <2>3, RingGet
  <2>5. PICK new : new = [mboxes[m] EXCEPT !.head = g]
    OBVIOUS
  <2>6. /\ new \in Boxes /\ new.head = g /\ new.nextq = mboxes[m].nextq
        /\ new.msg = mboxes[m].msg
    BY <2>1, <2>4, <2>5 DEF Boxes
  <2>7. mboxes' = [mboxes EXCEPT ![m] = new] /\ mboxes \in [Mbox -> Boxes]
    BY <1>0, <1>7, <2>2, <2>5 DEF DataOk
  <2>8. /\ mboxes' \in [Mbox -> Boxes] /\ mboxes'[m] = new
        /\ \A k \in Mbox : k # m => mboxes'[k] = mboxes[k]
    BY <2>6, <2>7, <1>4
  <2>9. QED
    BY <2>3, <2>6, <2>8, <1>6 DEF Gives
<1>9. Goes(t, pc) /\ Signalled(t, <<m, "free">>)
  <2>1. pc \in Labels
    BY <1>4 DEF Labels, PollPoints
  <2>2. <<m, "free">> # NoSem
    BY Sems
  <2>3. QED
    BY <1>0, <1>7, <2>1, <2>2, SignalGoes
<1>10. QED
  BY <1>1, <1>2, <1>3, <1>4, <1>7, <1>8, <1>9

\* A message less in mailbox m, and none in the others.
LEMMA GivesCount ==
  ASSUME DataOk, NEW m \in Mbox, Gives(m)
  PROVE  /\ Msgs(m)' = Msgs(m) - 1 /\ Msgs(m) > 0
         /\ \A k \in Mbox : k # m => Msgs(k)' = Msgs(k)
<1>0. MBOXSLOTS \in Nat
  BY Sized DEF Sizes
<1>1. /\ mboxes[m].head \in 0 .. MBOXSLOTS - 1 /\ mboxes[m].nextq \in 0 .. MBOXSLOTS - 1
      /\ Msgs(m) # 0 /\ Msgs(m) \in Nat
  BY <1>0, MsgsRange DEF Gives
<1>2. Msgs(m)' = Msgs(m) - 1
  BY <1>1, RingGet DEF Gives, Msgs
<1>3. QED
  BY <1>1, <1>2 DEF Gives, Msgs

\* A fetch keeps the invariant.
LEMMA FetchBase ==
  ASSUME Base, NEW t \in Thread, Fetch(t)
  PROVE  Base' /\ Live' = Live
<1>0. DataOk /\ LineOk /\ PcOk /\ WaitOk /\ CountOk /\ BufOk /\ ClientOk
  BY DEF Base
<1>1. UNCHANGED <<cur, queue, buse, args, main, client, timer, arrived>>
  BY DEF Fetch, threads
<1>2. PICK m, pc : m = Mail(t) /\ pc = IF t = Tcpip THEN "call" ELSE "done"
  OBVIOUS
<1>3. /\ cur = t /\ t # Main /\ th[t].pc = "get" /\ m \in Mbox /\ Gives(m)
      /\ Signalled(t, <<m, "free">>) /\ Goes(t, pc)
      /\ \/ t = Tcpip /\ given' = given /\ pc = "call"
         \/ /\ t \in Buffer /\ args[t] \in Recvs /\ pc = "done" /\ m \in Client
            /\ given' = [given EXCEPT ![m] = Append(given[m], First(m))]
  BY <1>2, FetchDoes, Threads
<1>4. PcOk' /\ Live' = Live /\ LineOk' /\ BufOk' /\ ClientOk'
  <2>1. MayGo(t, pc)
    BY <1>3, Threads DEF MayGo
  <2>2. QED
    BY <2>1, <1>1, <1>3, RunKeeps
<1>5. given' \in [Client -> Seq(Int)]
  <2>1. CASE given' = given
    BY <2>1, <1>0 DEF DataOk
  <2>2. CASE /\ m \in Client
             /\ given' = [given EXCEPT ![m] = Append(given[m], First(m))]
    <3>1. First(m) \in Int
      <4>1. MBOXSLOTS \in Nat
        BY Sized DEF Sizes
      <4>2. mboxes[m].head \in 0 .. MBOXSLOTS - 1
        BY <4>1, <1>0, <1>3, MsgsRange DEF Gives
      <4>3. QED
        BY <4>2, <1>0, <1>3, MsgsRange DEF First
    <3>2. given \in [Client -> Seq(Int)] /\ given[m] \in Seq(Int)
      BY <2>2, <1>0 DEF DataOk
    <3>3. Append(given[m], First(m)) \in Seq(Int)
      BY <3>1, <3>2
    <3>4. QED
      BY <2>2, <3>2, <3>3
  <2>3. QED
    BY <2>1, <2>2, <1>3
<1>6. DataOk'
  BY <1>0, <1>1, <1>3, <1>5 DEF DataOk, Goes, Signalled, Gives
<1>7. WaitOk'
  BY <1>0, <1>1, <1>3, SignalWait
<1>8. CountOk'
  <2>1. SUFFICES ASSUME NEW k \in Mbox
                 PROVE  /\ sems'[<<k, "queued">>].counter
                             = Msgs(k)' - (IF Getting(k)' THEN 1 ELSE 0)
                        /\ sems'[<<k, "free">>].counter
                             = MBOXSLOTS - Msgs(k)' - (IF Putting(k)' THEN 1 ELSE 0)
    BY DEF CountOk
  <2>2. Msgs(m)' = Msgs(m) - 1 /\ (k # m => Msgs(k)' = Msgs(k))
    BY <1>0, <1>3, GivesCount
  <2>3. th'[cur'].pc = pc
    BY <1>1, <1>3 DEF Goes
  <2>4. ~Getting(k)' /\ ~Putting(k)' /\ ~Putting(k)
    BY <2>3, <1>3 DEF Getting, Putting
  <2>5. Getting(k) <=> k = m
    BY <1>2, <1>3 DEF Getting
  <2>6. Msgs(k) \in Int /\ Msgs(m) \in Int /\ MBOXSLOTS \in Int
    BY <1>0, <1>3, MsgsRange, Sized DEF Sizes
  <2>7. sems'[<<k, "queued">>] = sems[<<k, "queued">>]
    BY <1>3, Sems DEF Signalled
  <2>8. sems[<<k, "free">>].counter = MBOXSLOTS - Msgs(k)
    <3>1. sems[<<k, "free">>].counter = MBOXSLOTS - Msgs(k) - (IF Putting(k) THEN 1 ELSE 0)
      BY <1>0 DEF CountOk
    <3>2. QED
      BY <3>1, <2>4, <2>6
  <2>9. sems[<<k, "queued">>].counter = Msgs(k) - (IF k = m THEN 1 ELSE 0)
    BY <2>5, <1>0 DEF CountOk
  <2>10. CASE k = m
    <3>1. sems'[<<k, "free">>].counter = sems[<<k, "free">>].counter + 1
      BY <2>10, <1>3, Sems DEF Signalled
    <3>2. QED
      BY <3>1, <2>2, <2>4, <2>6, <2>7, <2>8, <2>9, <2>10
  <2>11. CASE k # m
    <3>1. sems'[<<k, "free">>] = sems[<<k, "free">>]
      BY <2>11, <1>3, Sems DEF Signalled
    <3>2. QED
      BY <3>1, <2>2, <2>4, <2>6, <2>7, <2>8, <2>9, <2>11
  <2>12. QED
    BY <2>10, <2>11
<1>9. QED
  BY <1>4, <1>6, <1>7, <1>8 DEF Base

-----------------------------------------------------------------------------
(* The tcpip thread does a call. *)

\* The tcpip thread signals op_completed and goes back to fetch.
LEMMA TcpipCallDoes ==
  ASSUME Base, TcpipCall
  PROVE  /\ cur = Tcpip /\ th[Tcpip].pc = "call" /\ Goes(Tcpip, "fetch")
         /\ Signalled(Tcpip, <<args[op].client, "op">>)
<1>1. "fetch" \in Labels /\ <<args[op].client, "op">> # NoSem
  BY Sems DEF Labels, PollPoints
<1>2. QED
  BY <1>1, SignalGoes, Threads DEF TcpipCall, Base

\* The tcpip thread's call keeps the invariant.
LEMMA TcpipCallBase ==
  ASSUME Base, TcpipCall
  PROVE  Base' /\ Live' = Live
<1>0. DataOk /\ LineOk /\ PcOk /\ WaitOk /\ CountOk /\ BufOk /\ ClientOk
  BY DEF Base
<1>1. UNCHANGED <<cur, queue, mboxes, buse, args, main, client, timer, arrived, given>>
  BY DEF TcpipCall, threads, world
<1>2. PICK c : c = args[op].client
  OBVIOUS
<1>3. /\ cur = Tcpip /\ th[Tcpip].pc = "call" /\ Goes(Tcpip, "fetch")
      /\ Signalled(Tcpip, <<c, "op">>)
  BY <1>2, TcpipCallDoes
<1>4. PcOk' /\ Live' = Live /\ LineOk' /\ BufOk' /\ ClientOk'
  <2>1. MayGo(Tcpip, "fetch")
    BY Threads DEF MayGo
  <2>2. QED
    BY <2>1, <1>1, <1>3, Threads, RunKeeps
<1>5. DataOk'
  BY <1>0, <1>1, <1>3 DEF DataOk, Goes, Signalled
<1>6. WaitOk'
  BY <1>0, <1>1, <1>3, Threads, SignalWait
<1>7. CountOk'
  <2>1. \A m \in Mbox : /\ sems'[<<m, "queued">>] = sems[<<m, "queued">>]
                        /\ sems'[<<m, "free">>] = sems[<<m, "free">>]
    BY <1>3, Sems DEF Signalled
  <2>2. th'[cur'].pc = "fetch"
    BY <1>1, <1>3 DEF Goes
  <2>3. \A m \in Mbox : ~Getting(m) /\ ~Putting(m) /\ ~Getting(m)' /\ ~Putting(m)'
    BY <2>2, <1>3 DEF Getting, Putting
  <2>4. \A m \in Mbox : Msgs(m)' = Msgs(m)
    BY <1>1 DEF Msgs
  <2>5. QED
    BY <2>1, <2>3, <2>4, <1>0 DEF CountOk
<1>8. QED
  BY <1>4, <1>5, <1>6, <1>7 DEF Base

-----------------------------------------------------------------------------
(* The steps of main and the end of a thread. *)

\* When no thread but main runs, none has counted a slot or a message.
LEMMA NoneRunning ==
  ASSUME PcOk', LineOk', \A x \in Thread \ {Main} : ~Running(x)'
  PROVE  \A m \in Mbox : ~Getting(m)' /\ ~Putting(m)'
<1>1. cur' \in Thread
  BY DEF LineOk, Lined, Live
<1>2. th'[cur'].pc \notin {"get", "put", "callput"}
  <2>1. CASE cur' = Main
    BY <2>1 DEF PcOk
  <2>2. CASE cur' # Main
    BY <2>2, <1>1 DEF Running, PollPoints
  <2>3. QED
    BY <2>1, <2>2
<1>3. QED
  BY <1>2 DEF Getting, Putting

\* When main has the turn, or a thread that ends, no other thread is running.
LEMMA OneRuns ==
  ASSUME PcOk, NEW t, cur = t
  PROVE  \A x \in Thread \ {Main, t} : th[x].pc \in PollPoints \cup {"none"}
BY DEF PcOk, Running

\* serve_thread ends: its thread leaves the line, its request is gone and its client
\* runs.
LEMMA FinishDoes ==
  ASSUME Base, NEW t \in Thread, Finish(t)
  PROVE  /\ cur = t /\ t \in Buffer /\ th[t].pc = "done" /\ Goes(t, "none")
         /\ \A x \in Thread \ {t} : th'[x] = th[x]
         /\ args'[t] = NoReq /\ args' \in [Buffer -> {NoReq} \cup Inputs \cup Recvs \cup Calls]
         /\ \A b \in Buffer \ {t} : args'[b] = args[b]
         /\ Live' = Live \ {t} /\ Halt
         /\ \/ args[t] \in Inputs /\ client' = client
            \/ /\ args[t] \in Recvs \cup Calls /\ args[t].client \in Client
               /\ client' = [client EXCEPT ![args[t].client] = "run"]
<1>0. DataOk /\ PcOk
  BY DEF Base
<1>1. /\ cur = t /\ th[t].pc = "done" /\ Halt
      /\ args' = [args EXCEPT ![t] = NoReq] /\ th' = [th EXCEPT ![t] = Awake("none")]
      /\ client' = IF args[t].type = "input" THEN client
                   ELSE [client EXCEPT ![args[t].client] = "run"]
  BY DEF Finish
<1>2. t \in Buffer
  BY <1>0, <1>1, Threads DEF PcOk
<1>3. Goes(t, "none") /\ \A x \in Thread \ {t} : th'[x] = th[x]
  <2>1. "none" \in Labels
    BY DEF Labels
  <2>2. QED
    BY <2>1, <1>0, <1>1, AwakeIs DEF Goes, DataOk
<1>4. Live' = Live \ {t}
  BY <1>3 DEF Live, Goes
<1>5. \/ args[t] \in Inputs /\ args[t].type = "input"
      \/ args[t] \in Recvs \cup Calls /\ args[t].type # "input" /\ args[t].client \in Client
  BY <1>0, <1>1, <1>2 DEF PcOk, Inputs, Recvs, Calls
<1>6. /\ args'[t] = NoReq /\ args' \in [Buffer -> {NoReq} \cup Inputs \cup Recvs \cup Calls]
      /\ \A b \in Buffer \ {t} : args'[b] = args[b]
  BY <1>0, <1>1, <1>2 DEF DataOk
<1>7. QED
  BY <1>1, <1>2, <1>3, <1>4, <1>5, <1>6

\* The end of a request keeps the invariant.
LEMMA FinishBase ==
  ASSUME Base, NEW t \in Thread, Finish(t)
  PROVE  Base'
<1>0. DataOk /\ LineOk /\ PcOk /\ WaitOk /\ CountOk /\ BufOk /\ ClientOk
  BY DEF Base
<1>1. UNCHANGED <<sems, mboxes, main, op, timer, arrived, given>> /\ buse' = [buse EXCEPT ![t] = FALSE]
  BY DEF Finish, PutBuffer
<1>2. /\ cur = t /\ t \in Buffer /\ th[t].pc = "done" /\ Goes(t, "none")
      /\ \A x \in Thread \ {t} : th'[x] = th[x]
      /\ args'[t] = NoReq /\ args' \in [Buffer -> {NoReq} \cup Inputs \cup Recvs \cup Calls]
      /\ \A b \in Buffer \ {t} : args'[b] = args[b]
      /\ Live' = Live \ {t} /\ Halt
      /\ \/ args[t] \in Inputs /\ client' = client
         \/ /\ args[t] \in Recvs \cup Calls /\ args[t].client \in Client
            /\ client' = [client EXCEPT ![args[t].client] = "run"]
  BY FinishDoes
<1>3. t # Main /\ t # Tcpip /\ t \in Thread
  BY <1>2, Threads
<1>4. LineOk'
  <2>1. Main \in Live
    BY <1>0, Threads DEF PcOk, Live
  <2>2. QED
    BY <2>1, <1>0, <1>2, <1>3, HaltLine
<1>5. th' \in [Thread -> Contexts] /\ th'[t].pc = "none"
  BY <1>2 DEF Goes
<1>6. DataOk'
  <2>1. client' \in [Client -> {"run", "recv", "call"}]
    BY <1>0, <1>2 DEF DataOk
  <2>2. QED
    BY <2>1, <1>0, <1>1, <1>2, <1>5 DEF DataOk
<1>7. PcOk' /\ \A x \in Thread \ {Main} : ~Running(x)'
  <2>1. \A x \in Thread \ {Main} : ~Running(x)'
    BY <1>0, <1>2, <1>5, OneRuns DEF Running
  <2>2. th'[Main].pc \in {"flush", "recv", "timer", "panic"}
    BY <1>0, <1>2, <1>3, Threads DEF PcOk
  <2>3. th'[Tcpip].pc \in {"fetch", "get", "call"}
    BY <1>0, <1>2, <1>3, Threads DEF PcOk
  <2>4. ASSUME NEW b \in Buffer
        PROVE  \/ args'[b] = NoReq /\ th'[b].pc = "none"
               \/ args'[b] \in Inputs /\ th'[b].pc \in {"post", "put", "done"}
               \/ args'[b] \in Recvs /\ th'[b].pc \in {"fetch", "get", "done"}
               \/ args'[b] \in Calls /\ th'[b].pc \in {"callpost", "callput", "op", "done"}
    <3>1. CASE b = t
      BY <3>1, <1>2, <1>5
    <3>2. CASE b # t
      BY <3>2, <1>0, <1>2, Threads DEF PcOk
    <3>3. QED
      BY <3>1, <3>2
  <2>5. QED
    BY <2>1, <2>2, <2>3, <2>4 DEF PcOk
<1>8. WaitOk'
  BY <1>0, <1>1, <1>2, WaitKept
<1>9. CountOk'
  <2>1. \A m \in Mbox : ~Getting(m)' /\ ~Putting(m)'
    BY <1>4, <1>7, NoneRunning
  <2>2. \A m \in Mbox : ~Getting(m) /\ ~Putting(m) /\ Msgs(m)' = Msgs(m)
    BY <1>1, <1>2, NotInBox DEF Msgs
  <2>3. QED
    BY <2>1, <2>2, <1>0, <1>1 DEF CountOk
<1>10. BufOk'
  <2>1. th'[Main] = th[Main] /\ main' = main
    BY <1>1, <1>2, <1>3, Threads
  <2>2. \A b \in Buffer : b = main.va => b # t
    BY <1>0, <1>2 DEF BufOk
  <2>3. ASSUME NEW b \in Buffer
        PROVE  /\ buse'[b] <=> b = main.va \/ th'[b].pc # "none"
               /\ b = main.va => th'[b].pc = "none"
    <3>1. buse'[b] = IF b = t THEN FALSE ELSE buse[b]
      BY <1>0, <1>1 DEF DataOk
    <3>2. CASE b = t
      BY <3>1, <3>2, <2>2, <1>5
    <3>3. CASE b # t
      BY <3>1, <3>3, <1>0, <1>2, Threads DEF BufOk
    <3>4. QED
      BY <3>2, <3>3
  <2>4. QED
    BY <2>1, <2>3, <1>0 DEF BufOk
<1>11. ClientOk'
  <2>1. NoReq \notin Recvs \cup Calls
    BY DEF NoReq, Recvs, Calls
  <2>2. ASSUME NEW c \in Client, NEW b \in Server(c)'
        PROVE  b # t /\ b \in Server(c) /\ args'[b] = args[b] /\ client'[c] = client[c]
    <3>1. b # t /\ b \in Server(c) /\ args'[b] = args[b]
      BY <2>1, <2>2, <1>2 DEF Server
    <3>2. ASSUME args[t] \in Recvs \cup Calls
          PROVE  c # args[t].client
      <4>1. SUFFICES ASSUME c = args[t].client PROVE FALSE
        OBVIOUS
      <4>2. t \in Server(c)
        BY <3>2, <4>1, <1>2 DEF Server
      <4>3. QED
        BY <3>1, <4>2, <1>0 DEF ClientOk
    <3>3. QED
      BY <3>1, <3>2, <1>0, <1>2 DEF DataOk
  <2>3. QED
    BY <2>2, <1>0 DEF ClientOk
<1>12. QED
  BY <1>4, <1>6, <1>7, <1>8, <1>9, <1>10, <1>11 DEF Base

\* Main goes on at pc, with or without a yield.
MainGoes(pc) ==
  /\ cur = Main /\ (UNCHANGED <<cur, queue>> \/ Yield(Main))
  /\ th' \in [Thread -> Contexts]
  /\ th'[Main].pc = pc /\ th'[Main].addr = th[Main].addr
  /\ \A x \in Thread \ {Main} : th'[x] = th[x]
  /\ UNCHANGED <<sems, mboxes, args, op, client, arrived, given>>

\* Main goes on at pc and nobody else changes.
LEMMA MainThread ==
  ASSUME DataOk, PcOk, NEW pc \in Labels, th' = [th EXCEPT ![Main].pc = pc]
  PROVE  /\ th' \in [Thread -> Contexts]
         /\ th'[Main].pc = pc /\ th'[Main].addr = th[Main].addr
         /\ \A x \in Thread \ {Main} : th'[x] = th[x]
<1>1. th \in [Thread -> Contexts] /\ th[Main] \in Contexts /\ Main \in Thread
  BY Threads DEF DataOk
<1>2. PICK new : new = [th[Main] EXCEPT !.pc = pc]
  OBVIOUS
<1>3. new \in Contexts /\ new.pc = pc /\ new.addr = th[Main].addr
  BY <1>1, <1>2 DEF Contexts
<1>4. th' = [th EXCEPT ![Main] = new]
  BY <1>1, <1>2
<1>5. QED
  BY <1>1, <1>3, <1>4

\* A step of main that serves no request keeps all but what is said of the buffers.
LEMMA MainKeeps ==
  ASSUME Base, NEW pc \in {"flush", "recv", "timer", "panic"}, MainGoes(pc)
  PROVE  Live' = Live /\ LineOk' /\ PcOk' /\ WaitOk' /\ CountOk' /\ ClientOk'
<1>0. DataOk /\ LineOk /\ PcOk /\ WaitOk /\ CountOk /\ BufOk /\ ClientOk
  BY DEF Base
<1>1. /\ th' \in [Thread -> Contexts] /\ th'[Main].pc = pc
      /\ th'[Main].addr = th[Main].addr
      /\ \A x \in Thread \ {Main} : th'[x] = th[x]
      /\ UNCHANGED <<sems, mboxes, args, client>>
      /\ cur = Main /\ (UNCHANGED <<cur, queue>> \/ Yield(Main))
  BY DEF MainGoes
<1>2. Live' = Live
  <2>1. th[Main].pc # "none" /\ th'[Main].pc # "none"
    BY <1>0, <1>1 DEF PcOk
  <2>2. QED
    BY <1>1, <2>1 DEF Live
<1>3. LineOk'
  <2>1. CASE UNCHANGED <<cur, queue>>
    BY <2>1, <1>0, <1>2 DEF LineOk
  <2>2. CASE Yield(Main)
    BY <2>2, <1>0, <1>1, <1>2, YieldLine
  <2>3. QED
    BY <2>1, <2>2, <1>1
<1>4. \A x \in Thread \ {Main} : ~Running(x)'
  BY <1>0, <1>1 DEF PcOk, Running
<1>5. PcOk'
  BY <1>0, <1>1, <1>4, Threads DEF PcOk
<1>6. WaitOk'
  <2>1. SUFFICES ASSUME NEW x \in Thread, th'[x].addr # NoSem
                 PROVE  /\ th'[x].pc \in PollPoints
                        /\ th'[x].addr = WaitsFor(x)'
                        /\ th'[x].val = Asleep
                        /\ th'[x].wakeup \/ sems'[th'[x].addr] = Asleep
    BY DEF WaitOk
  <2>2. th[x].addr # NoSem /\ th[x].pc \in PollPoints
    BY <2>1, <1>0, <1>1 DEF WaitOk
  <2>3. x # Main /\ th'[x] = th[x]
    BY <2>2, <1>0, <1>1 DEF PcOk, PollPoints
  <2>4. WaitsFor(x)' = WaitsFor(x)
    BY <2>3, <1>1, WaitsForSame
  <2>5. QED
    BY <2>2, <2>3, <2>4, <1>0, <1>1 DEF WaitOk
<1>7. CountOk'
  <2>1. \A m \in Mbox : ~Getting(m)' /\ ~Putting(m)'
    BY <1>3, <1>4, <1>5, NoneRunning
  <2>2. th[cur].pc \notin {"get", "put", "callput"}
    BY <1>0, <1>1 DEF PcOk
  <2>3. \A m \in Mbox : ~Getting(m) /\ ~Putting(m) /\ Msgs(m)' = Msgs(m)
    BY <2>2, <1>1, NotInBox DEF Msgs
  <2>4. QED
    BY <2>1, <2>3, <1>0, <1>1 DEF CountOk
<1>8. ClientOk'
  BY <1>0, <1>1 DEF ClientOk, Server
<1>9. QED
  BY <1>2, <1>3, <1>5, <1>6, <1>7, <1>8

\* Main goes on where it is.
LEMMA MainSame ==
  ASSUME Base, cur = Main, UNCHANGED <<th, sems, mboxes, args, op, client, arrived, given>>,
         UNCHANGED <<cur, queue>> \/ Yield(Main)
  PROVE  MainGoes(th[Main].pc) /\ th[Main].pc \in {"flush", "recv", "timer", "panic"}
BY DEF MainGoes, Base, DataOk, PcOk

\* A yield of main keeps the invariant.
LEMMA FlushBase ==
  ASSUME Base, Flush
  PROVE  Base' /\ MainGoes("flush")
<1>0. DataOk /\ PcOk /\ BufOk
  BY DEF Base
<1>1. /\ cur = Main /\ th[Main].pc = "flush" /\ main.i < MaxYields
      /\ main' = [main EXCEPT !.i = main.i + 1] /\ Yield(Main)
      /\ UNCHANGED <<th, sems, mboxes, buse, args, op, client, timer, arrived, given>>
  BY DEF Flush, FlushesMore, world
<1>2. MainGoes("flush")
  BY <1>1, MainSame
<1>3. LineOk' /\ PcOk' /\ WaitOk' /\ CountOk' /\ ClientOk'
  BY <1>2, MainKeeps
<1>4. main' \in [va : 0 .. QUEUE_SIZE, i : 0 .. MaxYields] /\ main'.va = main.va
  <2>1. MaxYields \in Nat
    BY Sized DEF Sizes
  <2>2. main \in [va : 0 .. QUEUE_SIZE, i : 0 .. MaxYields] /\ main.i + 1 \in 0 .. MaxYields
    BY <2>1, <1>0, <1>1 DEF DataOk
  <2>3. QED
    BY <2>2, <1>1
<1>5. DataOk' /\ BufOk'
  BY <1>0, <1>1, <1>4 DEF DataOk, BufOk
<1>6. QED
  BY <1>2, <1>3, <1>5 DEF Base

\* The timer's request keeps the invariant.
LEMMA TimerRequestBase ==
  ASSUME Base, TimerRequest
  PROVE  Base' /\ MainGoes("timer")
<1>0. DataOk /\ PcOk /\ BufOk
  BY DEF Base
<1>1. /\ cur = Main /\ th[Main].pc = "recv" /\ timer' = "wait"
      /\ th' = [th EXCEPT ![Main].pc = "timer"] /\ Yield(Main)
      /\ UNCHANGED <<sems, mboxes, buse, args, main, op, client, arrived, given>>
  BY DEF TimerRequest
<1>2. /\ th' \in [Thread -> Contexts]
      /\ th'[Main].pc = "timer" /\ th'[Main].addr = th[Main].addr
      /\ \A x \in Thread \ {Main} : th'[x] = th[x]
  <2>1. "timer" \in Labels
    BY DEF Labels
  <2>2. QED
    BY <2>1, <1>0, <1>1, MainThread
<1>3. MainGoes("timer")
  BY <1>1, <1>2 DEF MainGoes
<1>4. LineOk' /\ PcOk' /\ WaitOk' /\ CountOk' /\ ClientOk'
  BY <1>3, MainKeeps
<1>5. DataOk'
  BY <1>0, <1>1, <1>2 DEF DataOk
<1>6. BufOk'
  BY <1>0, <1>1, <1>2, Threads DEF BufOk
<1>7. QED
  BY <1>3, <1>4, <1>5, <1>6 DEF Base

\* The answer to the timer keeps the invariant.
LEMMA TimerReplyBase ==
  ASSUME Base, TimerReply
  PROVE  Base' /\ MainGoes("flush")
<1>0. DataOk /\ PcOk /\ BufOk
  BY DEF Base
<1>1. /\ cur = Main /\ th[Main].pc = "timer" /\ timer' = "run"
      /\ buse' = [buse EXCEPT ![main.va] = FALSE]
      /\ main' = [main EXCEPT !.va = 0]
      /\ th' = [th EXCEPT ![Main].pc = "flush"]
      /\ UNCHANGED <<cur, queue, sems, mboxes, args, op, client, arrived, given>>
  BY DEF TimerReply, PutBuffer, threads
<1>2. /\ th' \in [Thread -> Contexts]
      /\ th'[Main].pc = "flush" /\ th'[Main].addr = th[Main].addr
      /\ \A x \in Thread \ {Main} : th'[x] = th[x]
  <2>1. "flush" \in Labels
    BY DEF Labels
  <2>2. QED
    BY <2>1, <1>0, <1>1, MainThread
<1>3. MainGoes("flush")
  BY <1>1, <1>2 DEF MainGoes
<1>4. LineOk' /\ PcOk' /\ WaitOk' /\ CountOk' /\ ClientOk'
  BY <1>3, MainKeeps
<1>5. main' \in [va : 0 .. QUEUE_SIZE, i : 0 .. MaxYields] /\ main'.va = 0
  <2>1. 0 \in 0 .. QUEUE_SIZE
    BY Sized DEF Sizes
  <2>2. QED
    BY <2>1, <1>0, <1>1 DEF DataOk
<1>6. DataOk'
  <2>1. buse' \in [Buffer -> BOOLEAN]
    BY <1>0, <1>1 DEF DataOk
  <2>2. QED
    BY <2>1, <1>0, <1>1, <1>2, <1>5 DEF DataOk
<1>7. BufOk'
  <2>1. ASSUME NEW b \in Buffer
        PROVE  b # main'.va /\ (buse'[b] <=> th'[b].pc # "none")
    <3>1. b # 0 /\ b # Main /\ b \in Thread
      BY Threads DEF Main
    <3>2. b # main'.va /\ th'[b] = th[b]
      BY <3>1, <1>2, <1>5
    <3>3. buse'[b] = IF b = main.va THEN FALSE ELSE buse[b]
      BY <1>0, <1>1 DEF DataOk
    <3>4. QED
      BY <3>2, <3>3, <1>0 DEF BufOk
  <2>2. QED
    BY <2>1, <1>2, <1>5 DEF BufOk
<1>8. QED
  BY <1>3, <1>4, <1>6, <1>7 DEF Base

\* A set of naturals that is not empty has a least element, and Min finds one.
LEMMA MinIs ==
  ASSUME NEW T \in SUBSET Nat, T # {}
  PROVE  Min(T) \in T
<1>1. IsWellFoundedOn(OpToRel(<, Nat), Nat)
  BY NatLessThanWellFounded
<1>2. \E x \in T : \A y \in T : ~ (<<y, x>> \in OpToRel(<, Nat))
  BY <1>1, WFMin
<1>3. \A x, y \in Nat : x < y => <<x, y>> \in OpToRel(<, Nat)
  BY DEF OpToRel
<1>4. PICK n \in T : \A m \in T : ~(m < n)
  BY <1>2, <1>3
<1>5. \A m \in T : n <= m
  BY <1>4
<1>6. QED
  BY <1>5 DEF Min

\* get_buffer keeps the invariant, and main panics only without a buffer.
LEMMA ListenBase ==
  ASSUME Base, Listen
  PROVE  Base' /\ (MainGoes("recv") \/ (MainGoes("panic") /\ FreeBuffers = {}))
<1>0. DataOk /\ PcOk /\ BufOk
  BY DEF Base
<1>1. PICK b : b = Min(FreeBuffers)
  OBVIOUS
<1>2. /\ cur = Main /\ th[Main].pc = "flush" 
      /\ UNCHANGED <<cur, queue, sems, mboxes, args, op, client, timer, arrived, given>>
      /\ \/ /\ FreeBuffers = {} /\ th' = [th EXCEPT ![Main].pc = "panic"]
            /\ UNCHANGED <<buse, main>>
         \/ /\ FreeBuffers # {} /\ th' = [th EXCEPT ![Main].pc = "recv"]
            /\ buse' = [buse EXCEPT ![b] = TRUE] /\ main' = [va |-> b, i |-> 0]
  BY <1>1 DEF Listen, threads, world
<1>3. "panic" \in Labels /\ "recv" \in Labels
  BY DEF Labels
<1>4. CASE FreeBuffers = {}
  <2>1. th' = [th EXCEPT ![Main].pc = "panic"] /\ UNCHANGED <<buse, main>>
    BY <1>2, <1>4
  <2>2. /\ th' \in [Thread -> Contexts]
        /\ th'[Main].pc = "panic" /\ th'[Main].addr = th[Main].addr
        /\ \A x \in Thread \ {Main} : th'[x] = th[x]
    BY <2>1, <1>0, <1>3, MainThread
  <2>3. MainGoes("panic")
    BY <1>2, <2>2 DEF MainGoes
  <2>4. LineOk' /\ PcOk' /\ WaitOk' /\ CountOk' /\ ClientOk'
    BY <2>3, MainKeeps
  <2>5. DataOk'
    BY <1>0, <1>2, <2>1, <2>2 DEF DataOk
  <2>6. BufOk'
    BY <1>0, <1>2, <2>1, <2>2, Threads DEF BufOk
  <2>7. QED
    BY <1>4, <2>3, <2>4, <2>5, <2>6 DEF Base
<1>5. CASE FreeBuffers # {}
  <2>1. /\ th' = [th EXCEPT ![Main].pc = "recv"]
        /\ buse' = [buse EXCEPT ![b] = TRUE] /\ main' = [va |-> b, i |-> 0]
    BY <1>2, <1>5
  <2>2. /\ th' \in [Thread -> Contexts]
        /\ th'[Main].pc = "recv" /\ th'[Main].addr = th[Main].addr
        /\ \A x \in Thread \ {Main} : th'[x] = th[x]
    BY <2>1, <1>0, <1>3, MainThread
  <2>3. MainGoes("recv")
    BY <1>2, <2>2 DEF MainGoes
  <2>4. LineOk' /\ PcOk' /\ WaitOk' /\ CountOk' /\ ClientOk'
    BY <2>3, MainKeeps
  <2>5. b \in Buffer /\ ~buse[b]
    <3>1. FreeBuffers \in SUBSET Nat
      BY Threads DEF FreeBuffers
    <3>2. b \in FreeBuffers
      BY <1>1, <1>5, <3>1, MinIs
    <3>3. QED
      BY <3>2 DEF FreeBuffers
  <2>6. main' \in [va : 0 .. QUEUE_SIZE, i : 0 .. MaxYields] /\ main'.va = b /\ b # 0
    <3>1. QUEUE_SIZE \in Nat /\ MaxYields \in Nat
      BY Sized DEF Sizes
    <3>2. b \in 1 .. QUEUE_SIZE
      BY <2>5 DEF Buffer
    <3>3. QED
      BY <3>1, <3>2, <2>1
  <2>7. buse' \in [Buffer -> BOOLEAN]
    BY <1>0, <2>1 DEF DataOk
  <2>8. DataOk'
    BY <1>0, <1>2, <2>2, <2>6, <2>7 DEF DataOk
  <2>9. BufOk'
    <3>0. main.va = 0
      BY <1>0, <1>2 DEF BufOk
    <3>1. ASSUME NEW d \in Buffer
          PROVE  /\ d = b => th'[d].pc = "none"
                 /\ buse'[d] <=> d = b \/ th'[d].pc # "none"
      <4>1. d # 0 /\ d # Main /\ d \in Thread
        BY Threads DEF Main
      <4>2. th'[d] = th[d] /\ (buse[d] <=> th[d].pc # "none")
        BY <4>1, <3>0, <2>2, <1>0 DEF BufOk
      <4>3. buse'[d] = IF d = b THEN TRUE ELSE buse[d]
        BY <1>0, <2>1 DEF DataOk
      <4>4. QED
        BY <4>2, <4>3, <2>5
    <3>2. QED
      BY <3>1, <2>2, <2>6 DEF BufOk
  <2>10. Base'
    BY <2>4, <2>8, <2>9 DEF Base
  <2>11. QED
    BY <2>3, <2>10
<1>6. QED
  BY <1>4, <1>5

-----------------------------------------------------------------------------
(* A request is accepted. *)

\* The requests, and where their threads start.
Starts(req, pc) ==
  \/ req \in Inputs /\ pc = "post"
  \/ req \in Recvs /\ pc = "fetch"
  \/ req \in Calls /\ pc = "callpost"

\* Thread b starts at pc with its request, and main has yielded.
Opens(b, req, pc) ==
  /\ cur = Main /\ th[Main].pc = "recv" /\ b = main.va
  /\ b \in Buffer /\ b # Main /\ b # Tcpip /\ b \in Thread /\ th[b].pc = "none"
  /\ th' \in [Thread -> Contexts]
  /\ th'[Main].pc = "flush" /\ th'[Main].addr = th[Main].addr
  /\ th'[b].pc = pc /\ th'[b].addr = NoSem /\ th'[b].wakeup = FALSE
  /\ \A x \in Thread \ {Main, b} : th'[x] = th[x]
  /\ args' \in [Buffer -> {NoReq} \cup Inputs \cup Recvs \cup Calls]
  /\ args'[b] = req /\ \A x \in Buffer \ {b} : args'[x] = args[x]
  /\ main' \in [va : 0 .. QUEUE_SIZE, i : 0 .. MaxYields] /\ main'.va = 0
  /\ Live' = Live \cup {b} /\ YieldTo(Main, <<b>>)
  /\ UNCHANGED <<sems, mboxes, buse, op, timer, given>>

\* A request opens the thread of main's buffer.
LEMMA AcceptDoes ==
  ASSUME Base, NEW req, NEW pc, Starts(req, pc), Accept(req, pc)
  PROVE  Opens(main.va, req, pc)
<1>0. DataOk /\ PcOk /\ BufOk
  BY DEF Base
<1>1. PICK b : b = main.va
  OBVIOUS
<1>2. /\ cur = Main /\ th[Main].pc = "recv"
      /\ args' = [args EXCEPT ![b] = req]
      /\ th' = [th EXCEPT ![Main].pc = "flush", ![b] = Awake(pc)]
      /\ main' = [main EXCEPT !.va = 0]
      /\ YieldTo(Main, <<b>>)
      /\ UNCHANGED <<sems, mboxes, buse, op, timer, given>>
  BY <1>1 DEF Accept
<1>3. /\ b \in Buffer /\ b # Main /\ b # Tcpip /\ b \in Thread /\ th[b].pc = "none"
  <2>1. b # 0 /\ b \in 0 .. QUEUE_SIZE
    BY <1>0, <1>1, <1>2 DEF BufOk, DataOk
  <2>2. b \in Buffer
    BY <2>1, Sized DEF Buffer, Sizes
  <2>3. QED
    BY <2>2, <1>0, <1>1, Threads DEF BufOk
<1>4. pc \in Labels
  BY DEF Starts, Labels, PollPoints
<1>5. /\ th' \in [Thread -> Contexts]
      /\ th'[Main].pc = "flush" /\ th'[Main].addr = th[Main].addr
      /\ th'[b].pc = pc /\ th'[b].addr = NoSem /\ th'[b].wakeup = FALSE
      /\ \A x \in Thread \ {Main, b} : th'[x] = th[x]
  <2>1. th \in [Thread -> Contexts] /\ th[Main] \in Contexts /\ Main \in Thread
    BY <1>0, Threads DEF DataOk
  <2>2. PICK new : new = [th[Main] EXCEPT !.pc = "flush"]
    OBVIOUS
  <2>3. new \in Contexts /\ new.pc = "flush" /\ new.addr = th[Main].addr
    <3>1. "flush" \in Labels
      BY DEF Labels
    <3>2. QED
      BY <2>1, <2>2, <3>1 DEF Contexts
  <2>4. th' = [th EXCEPT ![Main] = new, ![b] = Awake(pc)]
    BY <1>2, <2>1, <2>2
  <2>5. th'[Main] = new /\ th'[b] = Awake(pc) /\ th' \in [Thread -> Contexts]
        /\ \A x \in Thread \ {Main, b} : th'[x] = th[x]
    BY <2>1, <2>3, <2>4, <1>3, <1>4, AwakeIs
  <2>6. QED
    BY <2>3, <2>5, <1>4, AwakeIs
<1>6. /\ args' \in [Buffer -> {NoReq} \cup Inputs \cup Recvs \cup Calls]
      /\ args'[b] = req /\ \A x \in Buffer \ {b} : args'[x] = args[x]
  <2>1. req \in {NoReq} \cup Inputs \cup Recvs \cup Calls
    BY DEF Starts
  <2>2. QED
    BY <2>1, <1>0, <1>2, <1>3 DEF DataOk
<1>7. main' \in [va : 0 .. QUEUE_SIZE, i : 0 .. MaxYields] /\ main'.va = 0
  <2>1. 0 \in 0 .. QUEUE_SIZE
    BY Sized DEF Sizes
  <2>2. QED
    BY <2>1, <1>0, <1>2 DEF DataOk
<1>8. Live' = Live \cup {b}
  <2>1. pc # "none"
    BY DEF Starts
  <2>2. th[Main].pc # "none" /\ th'[Main].pc # "none"
    BY <1>2, <1>5
  <2>3. QED
    BY <2>1, <2>2, <1>3, <1>5 DEF Live
<1>9. QED
  BY <1>1, <1>2, <1>3, <1>5, <1>6, <1>7, <1>8 DEF Opens

\* The client of a request that is not a packet has no other, and waits for this one.
Asks(req) ==
  \/ req \in Inputs /\ client' = client
  \/ /\ req \in Recvs \cup Calls /\ client[req.client] = "run"
     /\ client' = [client EXCEPT ![req.client] = req.type]

\* A request keeps the invariant.
LEMMA AcceptBase ==
  ASSUME Base, NEW req, NEW pc, Starts(req, pc), Accept(req, pc), Asks(req),
         arrived' \in [Client -> 0 .. MaxPkts]
  PROVE  Base'
<1>0. DataOk /\ LineOk /\ PcOk /\ WaitOk /\ CountOk /\ BufOk /\ ClientOk
  BY DEF Base
<1>1. PICK b : b = main.va
  OBVIOUS
<1>2. Opens(b, req, pc)
  BY <1>1, AcceptDoes
<1>3. /\ cur = Main /\ th[Main].pc = "recv" /\ b = main.va
      /\ b \in Buffer /\ b # Main /\ b # Tcpip /\ b \in Thread /\ th[b].pc = "none"
      /\ th' \in [Thread -> Contexts]
      /\ th'[Main].pc = "flush" /\ th'[Main].addr = th[Main].addr
      /\ th'[b].pc = pc /\ th'[b].addr = NoSem /\ th'[b].wakeup = FALSE
      /\ \A x \in Thread \ {Main, b} : th'[x] = th[x]
      /\ args'[b] = req /\ \A x \in Buffer \ {b} : args'[x] = args[x]
      /\ Live' = Live \cup {b} /\ YieldTo(Main, <<b>>)
      /\ UNCHANGED <<sems, mboxes, buse, op, timer, given>>
  BY <1>2 DEF Opens
<1>4. LineOk'
  <2>1. b \notin Live
    BY <1>3 DEF Live
  <2>2. QED
    BY <2>1, <1>0, <1>3, AcceptLine
<1>5. pc \in PollPoints /\ pc # "none"
  BY DEF Starts, PollPoints
<1>6. \A x \in Thread \ {Main} : ~Running(x)'
  BY <1>0, <1>3, <1>5 DEF PcOk, Running
<1>7. PcOk'
  <2>1. th'[Tcpip].pc \in {"fetch", "get", "call"}
    BY <1>0, <1>3, Threads DEF PcOk
  <2>2. ASSUME NEW d \in Buffer
        PROVE  \/ args'[d] = NoReq /\ th'[d].pc = "none"
               \/ args'[d] \in Inputs /\ th'[d].pc \in {"post", "put", "done"}
               \/ args'[d] \in Recvs /\ th'[d].pc \in {"fetch", "get", "done"}
               \/ args'[d] \in Calls /\ th'[d].pc \in {"callpost", "callput", "op", "done"}
    <3>1. CASE d = b
      BY <3>1, <1>3 DEF Starts
    <3>2. CASE d # b
      BY <3>2, <1>0, <1>3, Threads DEF PcOk
    <3>3. QED
      BY <3>1, <3>2
  <2>3. QED
    BY <2>1, <2>2, <1>3, <1>6 DEF PcOk
<1>8. DataOk'
  <2>1. client' \in [Client -> {"run", "recv", "call"}]
    BY <1>0 DEF Asks, DataOk, Recvs, Calls
  <2>2. QED
    BY <2>1, <1>0, <1>2 DEF DataOk, Opens
<1>9. WaitOk'
  <2>1. SUFFICES ASSUME NEW x \in Thread, th'[x].addr # NoSem
                 PROVE  /\ th'[x].pc \in PollPoints
                        /\ th'[x].addr = WaitsFor(x)'
                        /\ th'[x].val = Asleep
                        /\ th'[x].wakeup \/ sems'[th'[x].addr] = Asleep
    BY DEF WaitOk
  <2>2. x # b /\ th[x].addr # NoSem /\ th[x].pc \in PollPoints
    BY <2>1, <1>0, <1>3 DEF WaitOk
  <2>3. x # Main /\ th'[x] = th[x]
    BY <2>2, <1>0, <1>3 DEF PcOk, PollPoints
  <2>4. WaitsFor(x)' = WaitsFor(x)
    BY <2>2, <2>3, <1>3, WaitsForSame
  <2>5. QED
    BY <2>2, <2>3, <2>4, <1>0, <1>3 DEF WaitOk
<1>10. CountOk'
  <2>1. \A m \in Mbox : ~Getting(m)' /\ ~Putting(m)'
    BY <1>4, <1>6, <1>7, NoneRunning
  <2>2. th[cur].pc \notin {"get", "put", "callput"}
    BY <1>3
  <2>3. \A m \in Mbox : ~Getting(m) /\ ~Putting(m) /\ Msgs(m)' = Msgs(m)
    BY <2>2, <1>3, NotInBox DEF Msgs
  <2>4. QED
    BY <2>1, <2>3, <1>0, <1>3 DEF CountOk
<1>11. BufOk'
  <2>1. main'.va = 0
    BY <1>2 DEF Opens
  <2>2. ASSUME NEW d \in Buffer
        PROVE  d # 0 /\ (buse'[d] <=> th'[d].pc # "none")
    <3>1. d # 0 /\ d # Main /\ d \in Thread
      BY Threads DEF Main
    <3>2. CASE d = b
      BY <3>1, <3>2, <1>0, <1>3, <1>5 DEF BufOk
    <3>3. CASE d # b
      BY <3>1, <3>3, <1>0, <1>3 DEF BufOk
    <3>4. QED
      BY <3>1, <3>2, <3>3
  <2>3. QED
    BY <2>1, <2>2, <1>3 DEF BufOk
<1>12. ClientOk'
  <2>1. ASSUME NEW c \in Client, NEW d \in Server(c)'
        PROVE  \/ d = b /\ req \in Recvs \cup Calls /\ req.client = c /\ args'[d] = req
               \/ d # b /\ d \in Server(c) /\ args'[d] = args[d]
    <3>1. d \in Buffer /\ args'[d] \in Recvs \cup Calls /\ args'[d].client = c
      BY <2>1 DEF Server
    <3>2. d # b => args'[d] = args[d]
      BY <3>1, <1>3
    <3>3. CASE d = b
      BY <3>1, <3>3, <1>3
    <3>4. CASE d # b
      BY <3>1, <3>2, <3>4 DEF Server
    <3>5. QED
      BY <3>3, <3>4
  <2>2. CASE req \in Inputs /\ client' = client
    <3>1. req \notin Recvs \cup Calls
      BY <2>2 DEF Inputs, Recvs, Calls
    <3>2. QED
      BY <2>1, <2>2, <3>1, <1>0 DEF ClientOk
  <2>3. CASE /\ req \in Recvs \cup Calls /\ client[req.client] = "run"
             /\ client' = [client EXCEPT ![req.client] = req.type]
    <3>1. ASSUME NEW d \in Server(req.client)
          PROVE  FALSE
      <4>1. client[req.client] = args[d].type /\ args[d] \in Recvs \cup Calls
        BY <2>3, <3>1, <1>0 DEF ClientOk, Server, Recvs, Calls
      <4>2. QED
        BY <4>1, <2>3 DEF Recvs, Calls
    <3>2. client'[req.client] = req.type /\ \A c \in Client : c # req.client => client'[c] = client[c]
      BY <2>3, <1>0 DEF DataOk, Recvs, Calls
    <3>3. ASSUME NEW c \in Client
          PROVE  /\ \A d \in Server(c)' : client'[c] = args'[d].type
                 /\ \A d, e \in Server(c)' : d = e
      <4>1. CASE c = req.client
        BY <4>1, <2>1, <3>1, <3>2
      <4>2. CASE c # req.client
        BY <4>2, <2>1, <3>2, <1>0 DEF ClientOk
      <4>3. QED
        BY <4>1, <4>2
    <3>4. QED
      BY <3>3 DEF ClientOk
  <2>4. QED
    BY <2>2, <2>3 DEF Asks
<1>13. QED
  BY <1>4, <1>7, <1>8, <1>9, <1>10, <1>11, <1>12 DEF Base

\* The requests of clients keep it.
LEMMA RecvCallBase ==
  ASSUME Base, NEW c \in Client, RecvRequest(c) \/ CallRequest(c)
  PROVE  Base'
<1>0. DataOk
  BY DEF Base
<1>1. CASE RecvRequest(c)
  <2>1. PICK req : req = [type |-> "recv", client |-> c]
    OBVIOUS
  <2>2. /\ req \in Recvs /\ req.client = c /\ req.type = "recv"
    BY <2>1 DEF Recvs
  <2>3. /\ client[c] = "run" /\ Accept(req, "fetch") /\ arrived' = arrived
        /\ client' = [client EXCEPT ![c] = "recv"]
    BY <1>1, <2>1 DEF RecvRequest
  <2>4. Starts(req, "fetch") /\ Asks(req) /\ arrived' \in [Client -> 0 .. MaxPkts]
    BY <2>2, <2>3, <1>0 DEF Starts, Asks, DataOk
  <2>5. QED
    BY <2>3, <2>4, AcceptBase
<1>2. CASE CallRequest(c)
  <2>1. PICK req : req = [type |-> "call", client |-> c]
    OBVIOUS
  <2>2. /\ req \in Calls /\ req.client = c /\ req.type = "call"
    BY <2>1 DEF Calls
  <2>3. /\ client[c] = "run" /\ Accept(req, "callpost") /\ arrived' = arrived
        /\ client' = [client EXCEPT ![c] = "call"]
    BY <1>2, <2>1 DEF CallRequest
  <2>4. Starts(req, "callpost") /\ Asks(req) /\ arrived' \in [Client -> 0 .. MaxPkts]
    BY <2>2, <2>3, <1>0 DEF Starts, Asks, DataOk
  <2>5. QED
    BY <2>3, <2>4, AcceptBase
<1>3. QED
  BY <1>1, <1>2

\* No socket gets more packets than may arrive.
LEMMA MayArrive ==
  ASSUME DataOk, NEW c \in Client, Cardinality(Arrived) < MaxPkts
  PROVE  arrived[c] + 1 \in 1 .. MaxPkts
<1>1. arrived[c] \in 0 .. MaxPkts /\ MaxPkts \in Nat
  BY Sized DEF DataOk, Sizes
<1>2. SUFFICES ASSUME arrived[c] = MaxPkts PROVE FALSE
  BY <1>1
<1>3. PICK I : I = 1 .. MaxPkts
  OBVIOUS
<1>4. IsFiniteSet(I) /\ Cardinality(I) = MaxPkts
  BY <1>1, <1>3, FS_Interval
<1>5. IsFiniteSet(Arrived)
  <2>1. IsFiniteSet(Client \X I)
    BY <1>4, Sized, FS_Product
  <2>2. Arrived \subseteq Client \X I
    BY <1>3 DEF Arrived
  <2>3. QED
    BY <2>1, <2>2, FS_Subset
<1>6. PICK f : f = [i \in I |-> <<c, i>>]
  OBVIOUS
<1>7. f \in Injection(I, Arrived)
  <2>1. \A i \in I : <<c, i>> \in Arrived
    BY <1>2, <1>3, <1>1 DEF Arrived
  <2>2. QED
    BY <1>6, <2>1 DEF Injection, IsInjective
<1>8. Cardinality(I) <= Cardinality(Arrived)
  BY <1>4, <1>5, <1>7, FS_Injection
<1>9. Cardinality(Arrived) \in Nat
  BY <1>5, FS_CardinalityType
<1>10. QED
  BY <1>1, <1>4, <1>8, <1>9

\* So does a packet.
LEMMA PacketBase ==
  ASSUME Base, NEW c \in Client, PacketRequest(c)
  PROVE  Base'
<1>0. DataOk
  BY DEF Base
<1>1. PICK req : req = [type |-> "input", client |-> c, pkt |-> arrived[c] + 1]
  OBVIOUS
<1>2. /\ Accept(req, "post") /\ arrived' = [arrived EXCEPT ![c] = arrived[c] + 1]
      /\ client' = client /\ Cardinality(Arrived) < MaxPkts
  BY <1>1 DEF PacketRequest
<1>3. arrived[c] + 1 \in 1 .. MaxPkts
  BY <1>0, <1>2, MayArrive
<1>4. req \in Inputs /\ arrived' \in [Client -> 0 .. MaxPkts]
  BY <1>0, <1>1, <1>2, <1>3 DEF Inputs, DataOk
<1>5. Starts(req, "post") /\ Asks(req)
  BY <1>2, <1>4 DEF Starts, Asks
<1>6. QED
  BY <1>2, <1>4, <1>5, AcceptBase

-----------------------------------------------------------------------------
\* The invariant holds when serve() begins.
LEMMA InitBase == Init => Base
<1> SUFFICES ASSUME Init PROVE Base
  OBVIOUS
<1>0. Sizes
  BY Sized
<1>1. cur = Main /\ queue = <<Tcpip>>
  BY DEF Init
<1>2. \A t \in Thread :
        th[t] = CASE t = Main -> Awake("flush")
                  [] t = Tcpip -> [Awake("fetch") EXCEPT !.addr = <<Tcpip, "queued">>]
                  [] OTHER -> Awake("none")
  BY DEF Init
<1>3. "flush" \in Labels /\ "fetch" \in Labels /\ "none" \in Labels
  BY DEF Labels, PollPoints
<1>4. PICK w : w = [Awake("fetch") EXCEPT !.addr = <<Tcpip, "queued">>]
  OBVIOUS
<1>5. /\ w \in Contexts /\ w.pc = "fetch" /\ w.addr = <<Tcpip, "queued">>
      /\ w.val = Asleep /\ w.addr \in Sem
  <2>1. <<Tcpip, "queued">> \in Sem
    BY Threads, Sems
  <2>2. Awake("fetch") \in Contexts /\ Awake("fetch").pc = "fetch" /\ Awake("fetch").val = Asleep
    BY <1>3, AwakeIs
  <2>3. QED
    BY <1>4, <2>1, <2>2 DEF Contexts
<1>6. th[Main] = Awake("flush") /\ th[Tcpip] = w
  BY <1>2, <1>4, Threads
<1>7. \A b \in Buffer : th[b] = Awake("none")
  BY <1>2, Threads
<1>8. /\ th[Main].pc = "flush" /\ th[Main].addr = NoSem
      /\ th[Tcpip].pc = "fetch" /\ th[Tcpip].addr = <<Tcpip, "queued">>
      /\ th[Tcpip].val = Asleep
      /\ \A b \in Buffer : th[b].pc = "none" /\ th[b].addr = NoSem
      /\ \A t \in Thread : th[t] \in Contexts
  <2>1. /\ Awake("flush") \in Contexts /\ Awake("flush").pc = "flush"
        /\ Awake("flush").addr = NoSem
    BY <1>3, AwakeIs
  <2>2. /\ Awake("none") \in Contexts /\ Awake("none").pc = "none"
        /\ Awake("none").addr = NoSem
    BY <1>3, AwakeIs
  <2>3. QED
    BY <2>1, <2>2, <1>5, <1>6, <1>7, Threads
<1>9. \A s \in Sem : sems[s] = [counter |-> IF s[2] = "free" THEN FreeSlots ELSE 0,
                                waiters |-> s = <<Tcpip, "queued">>]
  BY DEF Init
<1>10. \A m \in Mbox : /\ sems[<<m, "queued">>].counter = 0
                       /\ sems[<<m, "free">>].counter = MBOXSLOTS
                       /\ mboxes[m].head = -1 /\ mboxes[m].nextq = 0
  BY <1>9, Sems DEF Init, FreeSlots
<1>11. DataOk
  <2>1. th \in [Thread -> Contexts]
    BY <1>8 DEF Init
  <2>2. sems \in [Sem -> Values]
    BY <1>0 DEF Init, Values, FreeSlots, Sizes
  <2>3. mboxes \in [Mbox -> Boxes]
    <3>1. 0 \in 0 .. MBOXSLOTS - 1 /\ -1 \in -1 .. MBOXSLOTS - 1
      BY <1>0 DEF Sizes
    <3>2. [head |-> -1, nextq |-> 0, msg |-> [i \in 0 .. MBOXSLOTS - 1 |-> 0]] \in Boxes
      BY <3>1 DEF Boxes
    <3>3. QED
      BY <3>2 DEF Init
  <2>4. main \in [va : 0 .. QUEUE_SIZE, i : 0 .. MaxYields]
    BY <1>0 DEF Init, Sizes
  <2>5. arrived \in [Client -> 0 .. MaxPkts]
    BY <1>0 DEF Init, Sizes
  <2>6. /\ buse \in [Buffer -> BOOLEAN]
        /\ args \in [Buffer -> {NoReq} \cup Inputs \cup Recvs \cup Calls]
        /\ client \in [Client -> {"run", "recv", "call"}] /\ timer \in {"run", "wait"}
    BY DEF Init
  <2>7. given \in [Client -> Seq(Int)]
    <3>1. << >> \in Seq(Int)
      OBVIOUS
    <3>2. QED
      BY <3>1 DEF Init
  <2>8. QED
    BY <2>1, <2>2, <2>3, <2>4, <2>5, <2>6, <2>7 DEF DataOk
<1>12. LineOk
  <2>1. \A t \in Thread : t \in Live <=> t = Main \/ t = Tcpip
    BY <1>8, Threads DEF Live
  <2>2. Live = {Main, Tcpip}
    BY <2>1, Threads DEF Live
  <2>3. queue \in Seq(Live) /\ Len(queue) = 1 /\ queue[1] = Tcpip
    BY <1>1, <2>2
  <2>4. QED
    BY <1>1, <2>2, <2>3, Threads DEF LineOk, Lined
<1>13. PcOk
  BY <1>8, Threads DEF PcOk, Running, PollPoints, Init
<1>14. WaitOk
  <2>1. SUFFICES ASSUME NEW t \in Thread, th[t].addr # NoSem
                 PROVE  /\ th[t].pc \in PollPoints /\ th[t].addr = WaitsFor(t)
                        /\ th[t].val = Asleep /\ sems[th[t].addr] = Asleep
    BY DEF WaitOk
  <2>2. t = Tcpip
    BY <2>1, <1>8, Threads
  <2>3. WaitsFor(Tcpip) = <<Tcpip, "queued">>
    BY <1>8 DEF WaitsFor, Mail
  <2>4. sems[<<Tcpip, "queued">>] = Asleep
    BY <1>9, Sems, Threads DEF Asleep
  <2>5. QED
    BY <2>2, <2>3, <2>4, <1>8 DEF PollPoints
<1>15. CountOk
  <2>1. \A m \in Mbox : ~Getting(m) /\ ~Putting(m) /\ Msgs(m) = 0
    BY <1>1, <1>8, <1>10, NotInBox DEF Msgs, Count
  <2>2. MBOXSLOTS - 0 - 0 = MBOXSLOTS /\ 0 - 0 = 0
    BY <1>0 DEF Sizes
  <2>3. SUFFICES ASSUME NEW m \in Mbox
                 PROVE  /\ sems[<<m, "queued">>].counter
                             = Msgs(m) - (IF Getting(m) THEN 1 ELSE 0)
                        /\ sems[<<m, "free">>].counter
                             = MBOXSLOTS - Msgs(m) - (IF Putting(m) THEN 1 ELSE 0)
    BY DEF CountOk
  <2>4. QED
    BY <2>1, <2>2, <1>10
<1>16. BufOk
  <2>1. main.va = 0 /\ \A b \in Buffer : b # 0 /\ buse[b] = FALSE
    BY Threads DEF Init, Main
  <2>2. QED
    BY <2>1, <1>8 DEF BufOk
<1>17. ClientOk
  <2>1. \A b \in Buffer : args[b] = NoReq
    BY DEF Init
  <2>2. NoReq \notin Recvs \cup Calls
    BY DEF NoReq, Recvs, Calls
  <2>3. \A c \in Client : Server(c) = {}
    BY <2>1, <2>2 DEF Server
  <2>4. QED
    BY <2>3 DEF ClientOk
<1>18. QED
  BY <1>11, <1>12, <1>13, <1>14, <1>15, <1>16, <1>17 DEF Base

\* Every step keeps it.
LEMMA NextBase ==
  ASSUME Base, [Next]_vars
  PROVE  Base'
<1>1. ASSUME NEW t \in Thread, SemWait(t)
      PROVE  Base'
  <2>1. DataOk /\ PcOk /\ WaitOk
    BY DEF Base
  <2>2. \/ Acquires(t, WaitsFor(t)) /\ Goes(t, After(th[t].pc))
        \/ Blocks(t, WaitsFor(t))
    BY <1>1, <2>1, SemWaitDoes
  <2>3. QED
    BY <1>1, <2>2, AcquireBase, BlockBase
<1>2. ASSUME NEW t \in Thread, Post(t) \/ Fetch(t) \/ Finish(t)
      PROVE  Base'
  BY <1>2, PostBase, FetchBase, FinishBase
<1>3. ASSUME TcpipCall \/ Flush \/ Listen \/ TimerReply \/ TimerRequest
      PROVE  Base'
  BY <1>3, TcpipCallBase, FlushBase, ListenBase, TimerReplyBase, TimerRequestBase
<1>4. ASSUME NEW c \in Client, RecvRequest(c) \/ CallRequest(c) \/ PacketRequest(c)
      PROVE  Base'
  BY <1>4, RecvCallBase, PacketBase
<1>5. CASE UNCHANGED vars
  <2>0. DataOk /\ LineOk /\ PcOk /\ WaitOk /\ CountOk /\ BufOk /\ ClientOk
    BY DEF Base
  <2>1. DataOk'
    BY <1>5, <2>0 DEF vars, DataOk
  <2>2. LineOk'
    BY <1>5, <2>0 DEF vars, LineOk, Live
  <2>3. PcOk'
    BY <1>5, <2>0 DEF vars, PcOk, Running
  <2>4. WaitOk'
    <3>1. \A t \in Thread : WaitsFor(t)' = WaitsFor(t)
      BY <1>5 DEF vars, WaitsFor, Mail
    <3>2. QED
      BY <1>5, <2>0, <3>1 DEF vars, WaitOk
  <2>5. CountOk'
    <3>1. \A m \in Mbox : /\ Msgs(m)' = Msgs(m) /\ Getting(m)' = Getting(m)
                          /\ Putting(m)' = Putting(m)
      BY <1>5 DEF vars, Msgs, Getting, Putting, Mail
    <3>2. QED
      BY <1>5, <2>0, <3>1 DEF vars, CountOk
  <2>6. BufOk' /\ ClientOk'
    BY <1>5, <2>0 DEF vars, BufOk, ClientOk, Server
  <2>7. QED
    BY <2>1, <2>2, <2>3, <2>4, <2>5, <2>6 DEF Base
<1>6. QED
  BY <1>1, <1>2, <1>3, <1>4, <1>5 DEF Next, ThreadStep

-----------------------------------------------------------------------------
(* The order of the packets. *)

\* Thread t has had its turn since main had; thread x comes before thread y.
Ran(t) == Place(t) > Place(Main)
Before(x, y) ==
  \/ Ran(x) /\ ~Ran(y)
  \/ (Ran(x) <=> Ran(y)) /\ Place(x) < Place(y)

\* The threads that still have to post a packet of socket c, or to fetch one.
Poster(c) ==
  {b \in Buffer : /\ args[b] \in Inputs /\ args[b].client = c
                  /\ th[b].pc \in {"post", "put"}}
Fetcher(c) ==
  {b \in Buffer : /\ args[b] \in Recvs /\ args[b].client = c
                  /\ th[b].pc \in {"fetch", "get"}}

\* The number of the last packet of c that has been put into its mailbox.
Last(c) == Len(given[c]) + Msgs(c)

\* What recv has returned, the ring and the posters hold the packets in order.
GivenOk(c) == \A i \in 1 .. Len(given[c]) : given[c][i] = i
RingOk(c) ==
  \A j \in 0 .. Msgs(c) - 1 :
    mboxes[c].msg[Slot(mboxes[c].head, j)] = Len(given[c]) + j + 1
PostersOk(c) ==
  /\ Last(c) <= arrived[c]
  /\ \A b \in Poster(c) : /\ args[b].pkt \in Last(c) + 1 .. arrived[c]
                          /\ th[b].pc = "put" => args[b].pkt = Last(c) + 1
  /\ \A i \in Last(c) + 1 .. arrived[c] : \E b \in Poster(c) : args[b].pkt = i
SortedOk(c) ==
  \A b, d \in Poster(c) :
    /\ Before(b, d) => args[b].pkt < args[d].pkt
    /\ args[b].pkt = args[d].pkt => b = d

\* A poster that has had its turn found no slot; since then at most one packet was
\* fetched, by a thread that ends.
RanPostOk(c) ==
  (\E b \in Poster(c) : Ran(b)) =>
    \/ sems[<<c, "free">>].counter = 0
    \/ /\ Msgs(c) = MBOXSLOTS - 1
       /\ \A b \in Poster(c) : Ran(b)
       /\ \A b \in Server(c) : th[b].pc = "done"

\* A fetcher meets a poster only in the turn of the newer of the two.
RanFetchOk(c) ==
  \A r \in Fetcher(c), b \in Poster(c) :
    /\ Ran(r) => Place(b) = Place(Main) - 1 /\ Msgs(c) = 0
    /\ Place(r) < Place(Main) - 1 => Place(b) = Place(Main) - 1

\* The invariant of the packets of socket c.
SocketOk(c) ==
  /\ GivenOk(c) /\ RingOk(c) /\ PostersOk(c)
  /\ SortedOk(c) /\ RanPostOk(c) /\ RanFetchOk(c)

-----------------------------------------------------------------------------
(* The order of the threads after a step. *)

\* Thread t, which has the turn, leaves it; the others keep their order.
Passes(t) ==
  /\ t \in Live \ {Main} /\ Place(t) = 0 /\ ~Ran(t)
  /\ Place(Main) \in Nat \ {0} /\ Place(Main)' = Place(Main) - 1
  /\ \A x \in Live \ {Main, t} :
       /\ Place(x) \in Nat \ {0} /\ Place(x) # Place(Main)
       /\ Place(x)' = Place(x) - 1 /\ (Ran(x)' <=> Ran(x))
  /\ \A x, y \in Live \ {Main, t} : Before(x, y)' <=> Before(x, y)

\* It is behind all the others then.
Yields(t) ==
  /\ Passes(t) /\ Ran(t)' /\ Place(t)' \in Nat
  /\ \A x, y \in Live \ {Main} : Before(x, y)' => Before(x, y)

\* Main leaves its turn: the round begins.
MainYields ==
  /\ Place(Main) = 0
  /\ \A x \in Live \ {Main} :
       /\ Place(x) \in Nat \ {0} /\ Place(x)' = Place(x) - 1
       /\ Ran(x) /\ ~Ran(x)' /\ Place(x)' < Place(Main)'
  /\ \A x, y \in Live \ {Main} : Before(x, y)' => Before(x, y)

\* A thread that leaves its turn while the others move up keeps their order.
LEMMA PassesLine ==
  ASSUME LineOk, NEW t, cur = t, t # Main, Main \in Live,
         \A x \in Live \ {t} : Place(x)' = Place(x) - 1
  PROVE  Passes(t) /\ Len(queue) \in Nat /\ \A x \in Live : Place(x) <= Len(queue)
<1>1. ASSUME NEW x \in Live
      PROVE  /\ Place(x) \in 0 .. Len(queue) /\ Len(queue) \in Nat
             /\ Place(x) = 0 <=> x = t
             /\ \A y \in Live : Place(x) = Place(y) => x = y
  BY PlaceRange DEF Place, LineOk
<1>2. t \in Live
  BY DEF LineOk, Lined
<1>3. Place(t) = 0 /\ Place(Main) \in Nat \ {0} /\ Place(Main)' = Place(Main) - 1
  BY <1>1, <1>2
<1>4. ASSUME NEW x \in Live \ {Main, t}
      PROVE  /\ Place(x) \in Nat \ {0} /\ Place(x) # Place(Main)
             /\ Place(x)' = Place(x) - 1
  BY <1>1
<1>5. ASSUME NEW x \in Live \ {Main, t}
      PROVE  Ran(x)' <=> Ran(x)
  <2>1. Place(x)' > Place(Main)' <=> Place(x) > Place(Main)
    BY <1>3, <1>4
  <2>2. QED
    BY <2>1 DEF Ran
<1>6. ASSUME NEW x \in Live \ {Main, t}, NEW y \in Live \ {Main, t}
      PROVE  Before(x, y)' <=> Before(x, y)
  <2>1. Place(x)' < Place(y)' <=> Place(x) < Place(y)
    BY <1>4
  <2>2. QED
    BY <1>5, <2>1 DEF Before
<1>7. ~Ran(t)
  BY <1>3 DEF Ran
<1>8. QED
  BY <1>1, <1>2, <1>3, <1>4, <1>5, <1>6, <1>7 DEF Passes

\* thread_yield by a thread that is not main.
LEMMA YieldsLine ==
  ASSUME LineOk, NEW t, cur = t, t # Main, Main \in Live, Yield(t), Live' = Live
  PROVE  Yields(t)
<1>1. /\ \A x \in Live \ {t} : Place(x)' = Place(x) - 1
      /\ Place(t)' = Len(queue)
  BY YieldLine
<1>2. Passes(t) /\ Len(queue) \in Nat /\ \A x \in Live : Place(x) <= Len(queue)
  BY <1>1, PassesLine
<1>3. /\ t \in Live \ {Main} /\ ~Ran(t)
      /\ Place(Main) \in Nat \ {0} /\ Place(Main)' = Place(Main) - 1
  BY <1>2 DEF Passes
<1>4. Ran(t)'
  <2>1. Place(Main) <= Len(queue)
    BY <1>2
  <2>2. Place(t)' > Place(Main)'
    BY <1>1, <1>2, <1>3, <2>1
  <2>3. QED
    BY <2>2 DEF Ran
<1>5. ASSUME NEW x \in Live \ {Main}, NEW y \in Live \ {Main}, Before(x, y)'
      PROVE  Before(x, y)
  <2>1. CASE x # t /\ y # t
    BY <2>1, <1>2, <1>5 DEF Passes
  <2>2. CASE x # t /\ y = t
    <3>1. CASE Ran(x)
      BY <3>1, <2>2, <1>3 DEF Before
    <3>2. CASE ~Ran(x)
      <4>1. ~Ran(x)'
        BY <3>2, <2>2, <1>2 DEF Passes
      <4>2. QED
        BY <4>1, <2>2, <1>4, <1>5 DEF Before
    <3>3. QED
      BY <3>1, <3>2
  <2>3. CASE x = t /\ y # t
    <3>1. CASE ~Ran(y)
      <4>1. Place(x) < Place(y)
        BY <2>3, <1>2 DEF Passes
      <4>2. QED
        BY <4>1, <3>1, <2>3, <1>3 DEF Before
    <3>2. CASE Ran(y)
      <4>1. Ran(y)' /\ Place(y)' = Place(y) - 1 /\ Place(y) \in Nat /\ Place(y) <= Len(queue)
        BY <3>2, <2>3, <1>2 DEF Passes
      <4>2. ~(Place(x)' < Place(y)')
        BY <4>1, <2>3, <1>1, <1>2
      <4>3. QED
        BY <4>1, <4>2, <2>3, <1>4, <1>5 DEF Before
    <3>3. QED
      BY <3>1, <3>2
  <2>4. CASE x = t /\ y = t
    <3>1. Place(x)' = Len(queue)
      BY <2>4, <1>1
    <3>2. ~(Place(x)' < Place(y)')
      BY <3>1, <2>4, <1>2
    <3>3. QED
      BY <3>2, <2>4, <1>5 DEF Before
  <2>5. QED
    BY <2>1, <2>2, <2>3, <2>4
<1>6. QED
  BY <1>1, <1>2, <1>4, <1>5 DEF Yields

\* When main yields every thread has its turn still to come, in the order in which they
\* had the last one.
LEMMA MainYieldsLine ==
  ASSUME LineOk, cur = Main, Main \in Live,
         \A x \in Live \ {Main} : Place(x)' = Place(x) - 1,
         Place(Main)' >= Len(queue), Place(Main)' \in Nat
  PROVE  MainYields
<1>1. ASSUME NEW x \in Live
      PROVE  /\ Place(x) \in 0 .. Len(queue) /\ Len(queue) \in Nat
             /\ Place(x) = 0 <=> x = Main
  BY PlaceRange DEF Place, LineOk
<1>2. ASSUME NEW x \in Live \ {Main}
      PROVE  /\ Place(x) \in Nat \ {0} /\ Place(x)' = Place(x) - 1
             /\ Place(x)' < Place(Main)' /\ ~(Place(x)' > Place(Main)')
             /\ Place(x) > Place(Main)
  <2>1. Place(x) \in 0 .. Len(queue) /\ Len(queue) \in Nat /\ Place(x) # 0 /\ Place(Main) = 0
    BY <1>1
  <2>2. QED
    BY <2>1
<1>3. ASSUME NEW x \in Live \ {Main}
      PROVE  Ran(x) /\ ~Ran(x)'
  BY <1>2 DEF Ran
<1>4. ASSUME NEW x \in Live \ {Main}, NEW y \in Live \ {Main}
      PROVE  Before(x, y)' => Before(x, y)
  <2>1. Place(x)' < Place(y)' <=> Place(x) < Place(y)
    BY <1>2
  <2>2. QED
    BY <2>1, <1>3 DEF Before
<1>5. Place(Main) = 0
  BY <1>1
<1>6. QED
  BY <1>2, <1>3, <1>4, <1>5 DEF MainYields

-----------------------------------------------------------------------------
(* A step that is not about socket c. *)

\* The packets of socket c and their threads are as they were.
Same(c) ==
  /\ Poster(c)' = Poster(c) /\ Fetcher(c)' = Fetcher(c)
  /\ \A b \in Poster(c) : args'[b] = args[b] /\ th'[b].pc = th[b].pc
  /\ mboxes'[c] = mboxes[c] /\ given'[c] = given[c] /\ arrived'[c] = arrived[c]
  /\ sems'[<<c, "free">>].counter = sems[<<c, "free">>].counter

\* No thread of client c that ends goes on, and there is none that did not.
EndedStay(c) ==
  \A b \in Server(c)' : b \in Server(c) /\ (th[b].pc = "done" => th'[b].pc = "done")

\* The posters and fetchers of a socket are live threads with a request of its client.
LEMMA SocketThreads ==
  ASSUME NEW c \in Client
  PROVE  /\ \A b \in Poster(c) : /\ b \in Live \ {Main} /\ b \in Buffer /\ b \in Thread
                                 /\ args[b] \in Inputs /\ args[b].pkt \in Nat
                                 /\ th[b].pc \in {"post", "put"}
         /\ \A r \in Fetcher(c) : /\ r \in Live \ {Main} /\ r \in Buffer /\ r \in Server(c)
                                  /\ r \notin Poster(c) /\ th[r].pc # "done"
BY Threads, Sized DEF Poster, Fetcher, Live, Inputs, Sizes, Server

\* What is said of the packets' numbers stays when the packets stay.
LEMMA SameNumbers ==
  ASSUME NEW c \in Client, SocketOk(c), Same(c)
  PROVE  /\ GivenOk(c)' /\ RingOk(c)' /\ PostersOk(c)' /\ Msgs(c)' = Msgs(c)
         /\ sems'[<<c, "free">>].counter = sems[<<c, "free">>].counter
<1>1. Msgs(c)' = Msgs(c) /\ Last(c)' = Last(c)
  BY DEF Same, Msgs, Last
<1>2. GivenOk(c)'
  BY DEF SocketOk, Same, GivenOk
<1>3. RingOk(c)'
  BY <1>1 DEF SocketOk, Same, RingOk
<1>4. PostersOk(c)'
  BY <1>1 DEF SocketOk, Same, PostersOk
<1>5. QED
  BY <1>1, <1>2, <1>3, <1>4 DEF Same

\* So does the rest when no thread leaves its turn,
LEMMA StillSocket ==
  ASSUME NEW c \in Client, SocketOk(c), Same(c), EndedStay(c), UNCHANGED <<cur, queue>>
  PROVE  SocketOk(c)'
<1>1. /\ GivenOk(c)' /\ RingOk(c)' /\ PostersOk(c)' /\ Msgs(c)' = Msgs(c)
  BY SameNumbers
<1>2. /\ \A x : Place(x)' = Place(x) /\ (Ran(x)' <=> Ran(x))
      /\ \A x, y : Before(x, y)' <=> Before(x, y)
  BY DEF Place, Ran, Before
<1>3. SortedOk(c)'
  BY <1>2 DEF SocketOk, SortedOk, Same
<1>4. RanPostOk(c)'
  BY <1>1, <1>2 DEF SocketOk, RanPostOk, Same, EndedStay
<1>5. RanFetchOk(c)'
  BY <1>1, <1>2 DEF SocketOk, RanFetchOk, Same
<1>6. QED
  BY <1>1, <1>3, <1>4, <1>5 DEF SocketOk

\* When main has the turn no fetcher waits while there is a poster.
LEMMA NoneMeet ==
  ASSUME NEW c \in Client, RanFetchOk(c), MainYields, NEW r \in Fetcher(c), NEW b \in Poster(c)
  PROVE  FALSE
<1>1. r \in Live \ {Main} /\ b \in Live \ {Main}
  BY SocketThreads
<1>2. Place(b) \in Nat /\ Place(Main) = 0 /\ Ran(r)
  BY <1>1 DEF MainYields
<1>3. Place(b) = Place(Main) - 1
  BY <1>2 DEF RanFetchOk
<1>4. QED
  BY <1>2, <1>3

\* when main leaves its turn,
LEMMA MainSocket ==
  ASSUME NEW c \in Client, SocketOk(c), Same(c), MainYields
  PROVE  SocketOk(c)'
<1>1. /\ GivenOk(c)' /\ RingOk(c)' /\ PostersOk(c)' /\ Msgs(c)' = Msgs(c)
  BY SameNumbers
<1>2. \A b \in Poster(c) \cup Fetcher(c) : b \in Live \ {Main} /\ Ran(b) /\ ~Ran(b)'
  BY SocketThreads DEF MainYields
<1>3. SortedOk(c)'
  BY <1>2 DEF SocketOk, SortedOk, Same, MainYields
<1>4. RanPostOk(c)'
  BY <1>2 DEF RanPostOk, Same
<1>5. RanFetchOk(c)'
  BY NoneMeet DEF SocketOk, RanFetchOk, Same
<1>6. QED
  BY <1>1, <1>3, <1>4, <1>5 DEF SocketOk

\* and when a thread leaves it that has nothing to do with the socket.
LEMMA HaltSocket ==
  ASSUME NEW c \in Client, SocketOk(c), Same(c), EndedStay(c),
         NEW t, Passes(t), t \notin Poster(c), t \notin Fetcher(c)
  PROVE  SocketOk(c)'
<1>1. /\ GivenOk(c)' /\ RingOk(c)' /\ PostersOk(c)' /\ Msgs(c)' = Msgs(c)
  BY SameNumbers
<1>2. \A b \in Poster(c) \cup Fetcher(c) :
        /\ b \in Live \ {Main, t} /\ (Ran(b)' <=> Ran(b)) /\ Place(b)' = Place(b) - 1
        /\ Place(b) \in Nat
  BY SocketThreads DEF Passes
<1>3. SortedOk(c)'
  BY <1>2 DEF SocketOk, SortedOk, Same, Passes
<1>4. RanPostOk(c)'
  BY <1>1, <1>2 DEF SocketOk, RanPostOk, Same, EndedStay
<1>5. RanFetchOk(c)'
  <2>1. SUFFICES ASSUME NEW r \in Fetcher(c), NEW b \in Poster(c)
                 PROVE  /\ Ran(r)' => Place(b)' = Place(Main)' - 1 /\ Msgs(c)' = 0
                        /\ Place(r)' < Place(Main)' - 1 => Place(b)' = Place(Main)' - 1
    BY DEF RanFetchOk, Same
  <2>2. /\ Ran(r) => Place(b) = Place(Main) - 1 /\ Msgs(c) = 0
        /\ Place(r) < Place(Main) - 1 => Place(b) = Place(Main) - 1
    BY DEF SocketOk, RanFetchOk
  <2>3. Place(Main) \in Nat /\ Place(Main)' = Place(Main) - 1
    BY DEF Passes
  <2>4. /\ Place(r)' = Place(r) - 1 /\ Place(b)' = Place(b) - 1 /\ (Ran(r)' <=> Ran(r))
        /\ Place(r) \in Nat /\ Place(b) \in Nat
    BY <1>2
  <2>5. QED
    BY <2>2, <2>3, <2>4, <1>1
<1>6. QED
  BY <1>1, <1>3, <1>4, <1>5 DEF SocketOk

\* A thread that waits for its mailbox finds no slot there, or no message.
LEMMA YieldSocket ==
  ASSUME NEW c \in Client, SocketOk(c), Same(c), EndedStay(c),
         NEW t, Yields(t), MBOXSLOTS > 0, MBOXSLOTS \in Nat,
         t \in Poster(c) => sems[<<c, "free">>].counter = 0 /\ Msgs(c) = MBOXSLOTS,
         t \in Fetcher(c) => sems[<<c, "free">>].counter = MBOXSLOTS /\ Msgs(c) = 0
  PROVE  SocketOk(c)'
<1>1. /\ GivenOk(c)' /\ RingOk(c)' /\ PostersOk(c)' /\ Msgs(c)' = Msgs(c)
      /\ sems'[<<c, "free">>].counter = sems[<<c, "free">>].counter
  BY SameNumbers
<1>2. /\ t \in Live \ {Main} /\ Place(t) = 0 /\ ~Ran(t) /\ Ran(t)'
      /\ Place(Main) \in Nat \ {0} /\ Place(Main)' = Place(Main) - 1
  BY DEF Yields, Passes
<1>3. \A b \in Poster(c) \cup Fetcher(c) : b # t =>
        /\ b \in Live \ {Main, t} /\ (Ran(b)' <=> Ran(b)) /\ Place(b)' = Place(b) - 1
        /\ Place(b) \in Nat \ {0} /\ Place(b) # Place(Main)
  BY SocketThreads DEF Yields, Passes
<1>4. SortedOk(c)'
  BY SocketThreads DEF SocketOk, SortedOk, Same, Yields
<1>5. RanPostOk(c)'
  <2>1. SUFFICES ASSUME NEW b \in Poster(c), Ran(b)', sems[<<c, "free">>].counter # 0
                 PROVE  /\ Msgs(c) = MBOXSLOTS - 1
                        /\ \A d \in Poster(c) : Ran(d)'
                        /\ \A d \in Server(c)' : th'[d].pc = "done"
    BY <1>1 DEF RanPostOk, Same
  <2>2. t \notin Poster(c)
    BY <2>1
  <2>3. Ran(b)
    BY <2>1, <2>2, <1>3
  <2>4. /\ Msgs(c) = MBOXSLOTS - 1
        /\ \A d \in Poster(c) : Ran(d)
        /\ \A d \in Server(c) : th[d].pc = "done"
    BY <2>1, <2>3 DEF SocketOk, RanPostOk
  <2>5. QED
    BY <2>2, <2>4, <1>3 DEF EndedStay
<1>6. RanFetchOk(c)'
  <2>1. SUFFICES ASSUME NEW r \in Fetcher(c), NEW b \in Poster(c)
                 PROVE  /\ Ran(r)' => Place(b)' = Place(Main)' - 1 /\ Msgs(c) = 0
                        /\ Place(r)' < Place(Main)' - 1 => Place(b)' = Place(Main)' - 1
    BY <1>1 DEF RanFetchOk, Same
  <2>2. /\ Ran(r) => Place(b) = Place(Main) - 1 /\ Msgs(c) = 0
        /\ Place(r) < Place(Main) - 1 => Place(b) = Place(Main) - 1
    BY DEF SocketOk, RanFetchOk
  <2>3. r # b
    BY SocketThreads
  <2>4. CASE r # t /\ b # t
    <3>1. /\ Place(r)' = Place(r) - 1 /\ Place(b)' = Place(b) - 1 /\ (Ran(r)' <=> Ran(r))
          /\ Place(r) \in Nat /\ Place(b) \in Nat
      BY <2>4, <1>3
    <3>2. QED
      BY <3>1, <2>2, <1>2
  <2>5. CASE b = t
    <3>1. Place(r)' = Place(r) - 1 /\ (Ran(r)' <=> Ran(r)) /\ Place(r) \in Nat
      BY <2>3, <2>5, <1>3
    <3>2. Msgs(c) = MBOXSLOTS
      BY <2>5
    <3>3. ~Ran(r)
      BY <3>2, <2>2
    <3>4. QED
      BY <3>1, <3>3, <2>2, <2>5, <1>2
  <2>6. CASE r = t
    <3>1. sems[<<c, "free">>].counter = MBOXSLOTS /\ Msgs(c) = 0
      BY <2>6
    <3>2. b # t /\ Place(b)' = Place(b) - 1 /\ Place(b) \in Nat \ {0} /\ Place(b) # Place(Main)
      BY <2>3, <2>6, <1>3
    <3>3. ~(Place(r)' < Place(Main)' - 1)
      <4>1. Place(r)' > Place(Main)'
        BY <2>6, <1>2 DEF Ran
      <4>2. Place(Main)' \in Int
        BY <1>2
      <4>3. Place(r)' \in Int
        BY <2>6 DEF Yields
      <4>4. QED
        BY <4>1, <4>2, <4>3
    <3>4. Place(b) = Place(Main) - 1
      <4>1. CASE Place(Main) - 1 > 0
        BY <4>1, <2>2, <2>6, <1>2
      <4>2. CASE Place(Main) = 1
        <5>1. Ran(b)
          BY <4>2, <3>2 DEF Ran
        <5>2. th[t].pc = "done"
          BY <5>1, <3>1, <2>6, SocketThreads DEF SocketOk, RanPostOk
        <5>3. QED
          BY <5>2, <2>6, SocketThreads
      <4>3. QED
        BY <4>1, <4>2, <1>2
    <3>5. QED
      BY <3>1, <3>2, <3>3, <3>4, <1>2
  <2>7. QED
    BY <2>4, <2>5, <2>6
<1>7. QED
  BY <1>1, <1>4, <1>5, <1>6 DEF SocketOk

-----------------------------------------------------------------------------
(* The sockets and the steps of a thread. *)

\* The packets of every socket.
SocketsOk == \A c \in Client : SocketOk(c)

\* The mailbox of socket c, and its packets, are as they were.
BoxSame(c) ==
  /\ mboxes'[c] = mboxes[c] /\ given'[c] = given[c] /\ arrived'[c] = arrived[c]
  /\ sems'[<<c, "free">>].counter = sems[<<c, "free">>].counter

\* A step of a thread that neither posts a packet of c nor changes its mailbox.
LEMMA RunSame ==
  ASSUME NEW c \in Client, NEW t \in Thread, NEW pc, Goes(t, pc), UNCHANGED args, BoxSame(c),
         t \notin Poster(c),
         t \in Buffer /\ args[t] \in Inputs /\ args[t].client = c => pc \notin {"post", "put"},
         t \in Fetcher(c) => pc \in {"fetch", "get"},
         t \in Buffer /\ args[t] \in Recvs /\ args[t].client = c /\ pc \in {"fetch", "get"}
           => t \in Fetcher(c),
         th[t].pc # "done"
  PROVE  Same(c) /\ EndedStay(c)
<1>1. /\ th'[t].pc = pc /\ \A x \in Thread \ {t} : th'[x].pc = th[x].pc
  BY DEF Goes
<1>2. ASSUME NEW b \in Buffer
      PROVE  /\ b \in Poster(c)' <=> b \in Poster(c)
             /\ b \in Fetcher(c)' <=> b \in Fetcher(c)
  <2>1. CASE b = t
    BY <2>1, <1>1 DEF Poster, Fetcher
  <2>2. CASE b # t
    BY <2>2, <1>1, Threads DEF Poster, Fetcher
  <2>3. QED
    BY <2>1, <2>2
<1>3. Poster(c)' = Poster(c) /\ Fetcher(c)' = Fetcher(c)
  <2>1. /\ Poster(c) \subseteq Buffer /\ Poster(c)' \subseteq Buffer
        /\ Fetcher(c) \subseteq Buffer /\ Fetcher(c)' \subseteq Buffer
    BY DEF Poster, Fetcher
  <2>2. QED
    BY <2>1, <1>2
<1>4. \A b \in Poster(c) : args'[b] = args[b] /\ th'[b].pc = th[b].pc
  BY <1>1, SocketThreads
<1>5. EndedStay(c)
  BY <1>1, Threads DEF EndedStay, Server
<1>6. QED
  BY <1>3, <1>4, <1>5 DEF Same, BoxSame

\* A poster waits only when its mailbox has no free slot, a fetcher only when it has no
\* message, so that turns without effect keep the order.
LEMMA BlockSockets ==
  ASSUME Base, SocketsOk, NEW t \in Thread, SemWait(t), Blocks(t, WaitsFor(t)), Live' = Live
  PROVE  SocketsOk'
<1> SUFFICES ASSUME NEW c \in Client PROVE SocketOk(c)'
  BY DEF SocketsOk
<1>0. DataOk /\ LineOk /\ PcOk /\ WaitOk /\ CountOk /\ BufOk /\ ClientOk /\ SocketOk(c)
  BY DEF Base, SocketsOk
<1>1. /\ cur = t /\ th[t].pc \in PollPoints
      /\ UNCHANGED <<mboxes, args, given, arrived>>
  BY DEF SemWait, world
<1>2. PICK a : a = WaitsFor(t)
  OBVIOUS
<1>3. /\ t # Main /\ a \in Sem /\ sems[a].counter = 0 /\ sems'[a] = Asleep
      /\ Yield(t)
      /\ \A s \in Sem : s # a => sems'[s] = sems[s]
      /\ \A x \in Thread : th'[x].pc = th[x].pc
  BY <1>0, <1>1, <1>2, WaitsForIs DEF Blocks
<1>4. sems'[<<c, "free">>].counter = sems[<<c, "free">>].counter
  <2>1. <<c, "free">> \in Sem
    BY Sems, Threads
  <2>2. Asleep.counter = 0
    BY DEF Asleep
  <2>3. QED
    BY <2>1, <2>2, <1>3
<1>5. Same(c) /\ EndedStay(c)
  <2>1. Poster(c)' = Poster(c) /\ Fetcher(c)' = Fetcher(c)
    BY <1>1, <1>3, Threads DEF Poster, Fetcher
  <2>2. \A b \in Poster(c) : args'[b] = args[b] /\ th'[b].pc = th[b].pc
    BY <1>1, <1>3, SocketThreads
  <2>3. EndedStay(c)
    BY <1>1, <1>3, Threads DEF EndedStay, Server
  <2>4. QED
    BY <2>1, <2>2, <2>3, <1>1, <1>4 DEF Same
<1>6. Yields(t)
  <2>1. Main \in Live
    BY <1>0, Threads DEF PcOk, Live
  <2>2. QED
    BY <2>1, <1>0, <1>1, <1>3, YieldsLine
<1>7. /\ sems[<<c, "queued">>].counter = Msgs(c)
      /\ sems[<<c, "free">>].counter = MBOXSLOTS - Msgs(c)
      /\ Msgs(c) \in Nat /\ MBOXSLOTS \in Nat /\ MBOXSLOTS > 0
  <2>1. ~Getting(c) /\ ~Putting(c)
    BY <1>1, NotInBox, Threads DEF PollPoints
  <2>2. Msgs(c) \in Nat /\ MBOXSLOTS \in Nat /\ MBOXSLOTS > 0
    BY <1>0, MsgsRange, Threads, Sized DEF Sizes
  <2>3. QED
    BY <2>1, <2>2, <1>0, Threads DEF CountOk
<1>8. t \in Poster(c) => sems[<<c, "free">>].counter = 0 /\ Msgs(c) = MBOXSLOTS
  <2>1. HAVE t \in Poster(c)
  <2>2. th[t].pc = "post" /\ args[t].client = c
    BY <2>1, <1>1 DEF Poster, PollPoints
  <2>3. a = <<c, "free">>
    BY <2>2, <1>0, <1>1, <1>2, WaitsForIs
  <2>4. QED
    BY <2>3, <1>3, <1>7
<1>9. t \in Fetcher(c) => sems[<<c, "free">>].counter = MBOXSLOTS /\ Msgs(c) = 0
  <2>1. HAVE t \in Fetcher(c)
  <2>2. th[t].pc = "fetch" /\ args[t].client = c /\ t # Tcpip
    BY <2>1, <1>1, Threads DEF Fetcher, PollPoints
  <2>3. a = <<c, "queued">>
    BY <2>2, <1>0, <1>1, <1>2, WaitsForIs
  <2>4. QED
    BY <2>3, <1>3, <1>7
<1>10. QED
  BY <1>0, <1>5, <1>6, <1>7, <1>8, <1>9, YieldSocket

\* The thread that gets a slot for its packet is the one whose packet is next.
LEMMA FirstPosts ==
  ASSUME Base, NEW c \in Client, SocketOk(c), NEW t \in Poster(c), cur = t, th[t].pc = "post",
         sems[<<c, "free">>].counter > 0
  PROVE  args[t].pkt = Last(c) + 1 /\ \A b \in Poster(c) : ~Ran(b)
<1>0. DataOk /\ LineOk /\ PcOk
  BY DEF Base
<1>1. /\ Main \in Live /\ t \in Live
  BY <1>0, Threads, SocketThreads DEF PcOk, Live
<1>2. ASSUME NEW x \in Live
      PROVE  /\ Place(x) \in 0 .. Len(queue) /\ Len(queue) \in Nat
             /\ Place(x) = 0 <=> x = t
  BY <1>0, PlaceRange DEF Place, LineOk
<1>3. ~Ran(t)
  BY <1>1, <1>2 DEF Ran
<1>4. \A b \in Poster(c) : ~Ran(b)
  <2>1. SUFFICES ASSUME NEW b \in Poster(c), Ran(b) PROVE FALSE
    OBVIOUS
  <2>2. sems[<<c, "free">>].counter # 0
    OBVIOUS
  <2>3. QED
    BY <2>1, <2>2, <1>3 DEF SocketOk, RanPostOk
<1>5. PICK k, n : k = Last(c) /\ n = arrived[c]
  OBVIOUS
<1>6. k \in Nat /\ n \in Nat
  <2>1. Len(given[c]) \in Nat /\ arrived[c] \in Nat
    BY <1>0, Sized DEF DataOk, Sizes
  <2>2. Msgs(c) \in Nat
    BY <1>0, MsgsRange, Threads
  <2>3. QED
    BY <2>1, <2>2, <1>5 DEF Last
<1>7. /\ \A b \in Poster(c) : args[b].pkt \in k + 1 .. n
      /\ \A i \in k + 1 .. n : \E b \in Poster(c) : args[b].pkt = i
  BY <1>5 DEF SocketOk, PostersOk
<1>8. PICK d \in Poster(c) : args[d].pkt = k + 1
  <2>1. k + 1 \in k + 1 .. n
    BY <1>6, <1>7
  <2>2. QED
    BY <2>1, <1>7
<1>9. d = t
  <2>1. SUFFICES ASSUME d # t PROVE FALSE
    OBVIOUS
  <2>2. Place(t) < Place(d)
    BY <2>1, <1>1, <1>2, SocketThreads
  <2>3. Before(t, d)
    BY <2>2, <1>3, <1>4 DEF Before
  <2>4. args[t].pkt < args[d].pkt
    BY <2>3 DEF SocketOk, SortedOk
  <2>5. QED
    BY <2>4, <1>6, <1>7, <1>8
<1>10. QED
  BY <1>4, <1>5, <1>8, <1>9

\* The thread that gets the free slot is the first of the posters: were there an earlier
\* one, it would have had its turn and left no slot, or one that a fetcher has freed since.
LEMMA AcquireSockets ==
  ASSUME Base, SocketsOk, NEW t \in Thread, SemWait(t), Acquires(t, WaitsFor(t)),
         Goes(t, After(th[t].pc))
  PROVE  SocketsOk'
<1> SUFFICES ASSUME NEW c \in Client PROVE SocketOk(c)'
  BY DEF SocketsOk
<1>0. DataOk /\ LineOk /\ PcOk /\ WaitOk /\ CountOk /\ BufOk /\ ClientOk /\ SocketOk(c)
  BY DEF Base, SocketsOk
<1>1. /\ cur = t /\ th[t].pc \in PollPoints
      /\ UNCHANGED <<cur, queue, mboxes, args, given, arrived>>
  BY DEF SemWait, Acquires, world
<1>2. PICK a, pc : a = WaitsFor(t) /\ pc = After(th[t].pc)
  OBVIOUS
<1>3. /\ a \in Sem /\ sems[a].counter > 0 /\ Goes(t, pc) /\ <<c, "free">> \in Sem
      /\ \A s \in Sem : s # a => sems'[s] = sems[s]
      /\ sems'[a].counter = sems[a].counter - 1
  BY <1>0, <1>1, <1>2, WaitsForIs, Sems, Threads DEF Acquires
<1>4. /\ th[t].pc = "post" => pc = "put"
      /\ th[t].pc = "callpost" => pc = "callput"
      /\ th[t].pc = "op" => pc = "done"
      /\ th[t].pc = "fetch" => pc = "get"
  BY <1>2 DEF After
<1>5. CASE t \in Poster(c)
  <2>1. th[t].pc = "post" /\ args[t].client = c /\ t \in Buffer /\ pc = "put"
    BY <1>1, <1>4, <1>5 DEF Poster, PollPoints
  <2>2. a = <<c, "free">>
    BY <2>1, <1>0, <1>1, <1>2, WaitsForIs
  <2>3. args[t].pkt = Last(c) + 1 /\ \A b \in Poster(c) : ~Ran(b)
    BY <2>1, <2>2, <1>0, <1>1, <1>3, <1>5, FirstPosts
  <2>4. th'[t].pc = "put" /\ \A x \in Thread \ {t} : th'[x].pc = th[x].pc
    BY <2>1, <1>3 DEF Goes
  <2>5. Poster(c)' = Poster(c) /\ Fetcher(c)' = Fetcher(c)
    BY <2>1, <2>4, <1>1, Threads DEF Poster, Fetcher
  <2>6. /\ \A x : Place(x)' = Place(x) /\ (Ran(x)' <=> Ran(x))
        /\ \A x, y : Before(x, y)' <=> Before(x, y)
        /\ Msgs(c)' = Msgs(c) /\ Last(c)' = Last(c)
    BY <1>1 DEF Place, Ran, Before, Msgs, Last
  <2>7. GivenOk(c)' /\ RingOk(c)'
    BY <1>0, <1>1, <2>6 DEF SocketOk, GivenOk, RingOk
  <2>8. PostersOk(c)'
    <3>1. \A b \in Poster(c) : th'[b].pc = "put" => b = t \/ th[b].pc = "put"
      BY <2>4, SocketThreads
    <3>2. QED
      BY <3>1, <2>3, <2>5, <2>6, <1>0, <1>1 DEF SocketOk, PostersOk
  <2>9. SortedOk(c)'
    BY <2>5, <2>6, <1>0, <1>1 DEF SocketOk, SortedOk
  <2>10. RanPostOk(c)'
    BY <2>3, <2>5, <2>6 DEF RanPostOk
  <2>11. RanFetchOk(c)'
    BY <2>5, <2>6, <1>0 DEF SocketOk, RanFetchOk
  <2>12. QED
    BY <2>7, <2>8, <2>9, <2>10, <2>11 DEF SocketOk
<1>6. CASE t \notin Poster(c)
  <2>1. a # <<c, "free">>
    <3>1. SUFFICES ASSUME a = <<c, "free">> PROVE FALSE
      OBVIOUS
    <3>2. /\ th[t].pc = "post" /\ t # Tcpip /\ t \in Buffer
          /\ Mail(t) = args[t].client /\ a = <<Mail(t), "free">>
      <4>1. /\ t # Tcpip => t \in Buffer /\ Mail(t) = args[t].client
            /\ th[t].pc = "post" => t # Tcpip /\ a = <<Mail(t), "free">>
            /\ th[t].pc = "callpost" => a = <<Tcpip, "free">>
            /\ th[t].pc = "op" => a = <<Mail(t), "op">>
            /\ th[t].pc = "fetch" => a = <<Mail(t), "queued">>
        BY <1>0, <1>1, <1>2, WaitsForIs
      <4>2. c # Tcpip
        BY Threads
      <4>3. QED
        BY <3>1, <4>1, <4>2, <1>1, Sems DEF PollPoints
    <3>3. Mail(t) = c
      BY <3>1, <3>2
    <3>4. args[t] \in Inputs
      BY <3>2, <1>0 DEF PcOk
    <3>5. QED
      BY <3>2, <3>3, <3>4, <1>6 DEF Poster
  <2>2. BoxSame(c)
    BY <2>1, <1>1, <1>3 DEF BoxSame
  <2>3. /\ t \in Buffer /\ args[t] \in Inputs /\ args[t].client = c => pc \notin {"post", "put"}
        /\ t \in Fetcher(c) => pc \in {"fetch", "get"}
        /\ t \in Buffer /\ args[t] \in Recvs /\ args[t].client = c /\ pc \in {"fetch", "get"}
             => t \in Fetcher(c)
        /\ th[t].pc # "done"
    BY <1>1, <1>4, <1>6 DEF PollPoints, Poster, Fetcher
  <2>4. Same(c) /\ EndedStay(c)
    BY <2>2, <2>3, <1>1, <1>3, <1>6, RunSame
  <2>5. QED
    BY <2>4, <1>0, <1>1, StillSocket
<1>7. QED
  BY <1>5, <1>6

\* The packet that is put is the one after the last.
LEMMA PostSockets ==
  ASSUME Base, SocketsOk, NEW t \in Thread, Post(t)
  PROVE  SocketsOk'
<1> SUFFICES ASSUME NEW c \in Client PROVE SocketOk(c)'
  BY DEF SocketsOk
<1>0. DataOk /\ LineOk /\ PcOk /\ SocketOk(c)
  BY DEF Base, SocketsOk
<1>1. UNCHANGED <<cur, queue, args, arrived, given>>
  BY DEF Post, threads, world
<1>2. PICK m : m = PostBox(t)
  OBVIOUS
<1>3. /\ cur = t /\ t \in Buffer /\ m \in Mbox /\ Puts(m, PostMsg(t))
      /\ Signalled(t, <<m, "queued">>)
      /\ \/ /\ th[t].pc = "put" /\ args[t] \in Inputs /\ m = args[t].client
            /\ PostMsg(t) = args[t].pkt /\ Goes(t, "done")
         \/ /\ th[t].pc = "callput" /\ args[t] \in Calls /\ m = Tcpip /\ Goes(t, "op")
  BY <1>2, PostDoes
<1>4. sems'[<<c, "free">>] = sems[<<c, "free">>]
  BY <1>3, Sems, Threads DEF Signalled
<1>5. CASE m # c
  <2>1. mboxes'[c] = mboxes[c]
    BY <1>3, <1>5, Threads DEF Puts
  <2>2. BoxSame(c)
    BY <2>1, <1>1, <1>4 DEF BoxSame
  <2>3. /\ t \notin Poster(c) /\ t \notin Fetcher(c) /\ th[t].pc # "done"
    BY <1>3, <1>5 DEF Poster, Fetcher
  <2>4. Same(c) /\ EndedStay(c)
    BY <2>2, <2>3, <1>1, <1>3, RunSame
  <2>5. QED
    BY <2>4, <1>0, <1>1, StillSocket
<1>6. CASE m = c
  <2>1. /\ th[t].pc = "put" /\ args[t] \in Inputs /\ args[t].client = c
        /\ t \in Poster(c) /\ th'[t].pc = "done"
        /\ \A x \in Thread \ {t} : th'[x].pc = th[x].pc
        /\ Puts(c, args[t].pkt)
    BY <1>3, <1>6, Threads DEF Poster, Goes
  <2>2. Msgs(c)' = Msgs(c) + 1
    BY <2>1, <1>0, Threads, PutsCount
  <2>3. PICK k, n : k = Len(given[c]) /\ n = Msgs(c)
    OBVIOUS
  <2>4. k \in Nat /\ n \in Nat /\ Last(c) = k + n /\ Last(c)' = k + n + 1
    <3>1. Len(given[c]) \in Nat
      BY <1>0 DEF DataOk
    <3>2. Msgs(c) \in Nat
      BY <1>0, MsgsRange, Threads
    <3>3. QED
      BY <3>1, <3>2, <2>2, <2>3, <1>1 DEF Last
  <2>5. /\ Last(c) <= arrived[c] /\ args[t].pkt = k + n + 1
        /\ args[t].pkt \in k + n + 1 .. arrived[c]
    BY <2>1, <2>4, <1>0 DEF SocketOk, PostersOk
  <2>6. Poster(c)' = Poster(c) \ {t} /\ Fetcher(c)' = Fetcher(c)
    BY <2>1, <1>1, <1>3, Threads DEF Poster, Fetcher
  <2>7. /\ \A x : Place(x)' = Place(x) /\ (Ran(x)' <=> Ran(x))
        /\ \A x, y : Before(x, y)' <=> Before(x, y)
    BY <1>1 DEF Place, Ran, Before
  <2>8. GivenOk(c)'
    BY <1>0, <1>1 DEF SocketOk, GivenOk
  <2>9. RingOk(c)'
    <3>1. PICK h, q, g : /\ h = mboxes[c].head /\ q = mboxes[c].nextq
                         /\ g = IF h = -1 THEN q ELSE h
      OBVIOUS
    <3>2. /\ h \in -1 .. MBOXSLOTS - 1 /\ q \in 0 .. MBOXSLOTS - 1
          /\ mboxes[c].msg \in [0 .. MBOXSLOTS - 1 -> Int] /\ n = Count(h, q)
      BY <3>1, <2>3, <1>0, MsgsRange, Threads DEF Msgs
    <3>3. /\ q # h /\ mboxes'[c].head = g
          /\ mboxes'[c].msg = [mboxes[c].msg EXCEPT ![q] = k + n + 1]
      BY <3>1, <2>1, <2>5 DEF Puts
    <3>4. /\ Slot(g, n) = q
          /\ \A j \in 0 .. n - 1 : /\ Slot(g, j) = Slot(h, j) /\ Slot(g, j) # q
                                   /\ Slot(g, j) \in 0 .. MBOXSLOTS - 1
      BY <3>1, <3>2, <3>3, RingPut
    <3>5. ASSUME NEW j \in 0 .. n
          PROVE  mboxes'[c].msg[Slot(g, j)] = k + j + 1
      <4>1. CASE j = n
        BY <4>1, <3>2, <3>3, <3>4
      <4>2. CASE j # n
        <5>1. j \in 0 .. n - 1
          BY <4>2, <2>4
        <5>2. mboxes[c].msg[Slot(h, j)] = k + j + 1
          BY <5>1, <3>1, <2>3, <1>0 DEF SocketOk, RingOk
        <5>3. QED
          BY <5>1, <5>2, <3>2, <3>3, <3>4
      <4>3. QED
        BY <4>1, <4>2
    <3>6. Msgs(c)' - 1 = n /\ Len(given'[c]) = k
      BY <2>2, <2>3, <2>4, <1>1
    <3>7. \A j \in 0 .. Msgs(c)' - 1 :
            mboxes'[c].msg[Slot(mboxes'[c].head, j)] = Len(given'[c]) + j + 1
      BY <3>3, <3>5, <3>6
    <3>8. QED
      BY <3>7 DEF RingOk
  <2>10. PostersOk(c)'
    <3>1. arrived' = arrived /\ arrived[c] \in Nat
      BY <1>0, <1>1, Sized DEF DataOk, Sizes
    <3>2. Last(c)' <= arrived'[c]
      BY <2>4, <2>5, <3>1
    <3>3. ASSUME NEW b \in Poster(c) \ {t}
          PROVE  /\ args'[b].pkt \in Last(c)' + 1 .. arrived'[c]
                 /\ th'[b].pc # "put"
      <4>1. args[b].pkt # args[t].pkt
        BY <2>1, <1>0 DEF SocketOk, SortedOk
      <4>2. args[b].pkt \in k + n + 1 .. arrived[c]
        BY <2>4, <1>0 DEF SocketOk, PostersOk
      <4>3. th[b].pc # "put"
        BY <1>0, <1>3, SocketThreads DEF PcOk, Running, PollPoints
      <4>4. QED
        BY <4>1, <4>2, <4>3, <2>1, <2>4, <2>5, <3>1, <1>1, SocketThreads
    <3>4. ASSUME NEW i \in Last(c)' + 1 .. arrived'[c]
          PROVE  \E b \in Poster(c) \ {t} : args'[b].pkt = i
      <4>1. i \in k + n + 1 .. arrived[c] /\ i # k + n + 1
        BY <3>1, <3>4, <2>4
      <4>2. PICK b \in Poster(c) : args[b].pkt = i
        BY <4>1, <2>4, <1>0 DEF SocketOk, PostersOk
      <4>3. QED
        BY <4>1, <4>2, <2>5, <1>1
    <3>5. QED
      BY <3>2, <3>3, <3>4, <2>6 DEF PostersOk
  <2>11. SortedOk(c)'
    BY <2>6, <2>7, <1>0, <1>1 DEF SocketOk, SortedOk
  <2>12. /\ ~Ran(t) /\ \A b \in Poster(c) \ {t} : Place(b) # Place(t)
    <3>1. ASSUME NEW x \in Live
          PROVE  /\ Place(x) \in 0 .. Len(queue) /\ Len(queue) \in Nat
                 /\ Place(x) = 0 <=> x = t
      BY <1>0, <1>3, PlaceRange DEF Place, LineOk
    <3>2. Main \in Live /\ t \in Live
      BY <2>1, <1>0, Threads, SocketThreads DEF PcOk, Live
    <3>3. QED
      BY <3>1, <3>2, SocketThreads DEF Ran
  <2>13. RanPostOk(c)'
    <3>1. SUFFICES ASSUME NEW b \in Poster(c), Ran(b)
                   PROVE  sems[<<c, "free">>].counter = 0
      BY <2>6, <2>7, <1>4 DEF RanPostOk
    <3>2. QED
      BY <3>1, <2>1, <2>12, <1>0 DEF SocketOk, RanPostOk
  <2>14. RanFetchOk(c)'
    <3>1. SUFFICES ASSUME NEW r \in Fetcher(c), NEW b \in Poster(c) \ {t}
                   PROVE  /\ ~Ran(r)
                          /\ Place(r) < Place(Main) - 1 => Place(b) = Place(Main) - 1
      BY <2>6, <2>7 DEF RanFetchOk
    <3>2. QED
      BY <2>1, <2>12, <1>0 DEF SocketOk, RanFetchOk
  <2>15. QED
    BY <2>8, <2>9, <2>10, <2>11, <2>13, <2>14 DEF SocketOk
<1>7. QED
  BY <1>5, <1>6

\* The packet that is taken is the one after those given; a poster that has had its turn
\* now finds one slot free, and the fetcher ends.
LEMMA FetchSockets ==
  ASSUME Base, SocketsOk, NEW t \in Thread, Fetch(t)
  PROVE  SocketsOk'
<1> SUFFICES ASSUME NEW c \in Client PROVE SocketOk(c)'
  BY DEF SocketsOk
<1>0. DataOk /\ LineOk /\ PcOk /\ CountOk /\ ClientOk /\ SocketOk(c)
  BY DEF Base, SocketsOk
<1>1. UNCHANGED <<cur, queue, args, arrived>>
  BY DEF Fetch, threads
<1>2. PICK m : m = Mail(t)
  OBVIOUS
<1>3. /\ cur = t /\ t # Main /\ th[t].pc = "get" /\ m \in Mbox /\ Gives(m)
      /\ Signalled(t, <<m, "free">>)
      /\ \/ /\ t = Tcpip /\ m = Tcpip /\ given' = given /\ Goes(t, "call")
         \/ /\ t \in Buffer /\ args[t] \in Recvs /\ m = args[t].client /\ m \in Client
            /\ Goes(t, "done")
            /\ given' = [given EXCEPT ![m] = Append(given[m], First(m))]
  BY <1>2, FetchDoes
<1>4. given \in [Client -> Seq(Int)]
  BY <1>0 DEF DataOk
<1>5. CASE m # c
  <2>1. mboxes'[c] = mboxes[c] /\ given'[c] = given[c]
    BY <1>3, <1>4, <1>5, Threads DEF Gives
  <2>2. sems'[<<c, "free">>] = sems[<<c, "free">>]
    BY <1>3, <1>5, Sems, Threads DEF Signalled
  <2>3. BoxSame(c)
    BY <2>1, <2>2, <1>1 DEF BoxSame
  <2>4. /\ t \notin Poster(c) /\ t \notin Fetcher(c) /\ th[t].pc # "done"
    BY <1>3, <1>5, Threads DEF Poster, Fetcher
  <2>5. Same(c) /\ EndedStay(c)
    BY <2>3, <2>4, <1>1, <1>3, RunSame
  <2>6. QED
    BY <2>5, <1>0, <1>1, StillSocket
<1>6. CASE m = c
  <2>1. /\ t \in Buffer /\ args[t] \in Recvs /\ args[t].client = c
        /\ th'[t].pc = "done" /\ \A x \in Thread \ {t} : th'[x].pc = th[x].pc
        /\ given'[c] = Append(given[c], First(c)) /\ Gives(c)
        /\ t \in Fetcher(c) /\ t \in Server(c)
    BY <1>3, <1>4, <1>6, Threads DEF Goes, Fetcher, Server
  <2>2. Msgs(c)' = Msgs(c) - 1 /\ Msgs(c) > 0
    BY <2>1, <1>0, Threads, GivesCount
  <2>3. PICK k, n, s : k = Len(given[c]) /\ n = Msgs(c) /\ s = given[c]
    OBVIOUS
  <2>4. /\ k \in Nat /\ n \in Nat \ {0} /\ s \in Seq(Int)
        /\ Last(c) = k + n /\ MBOXSLOTS \in Nat
    <3>1. Msgs(c) \in Nat
      BY <1>0, MsgsRange, Threads
    <3>2. QED
      BY <3>1, <2>2, <2>3, <1>4, Sized DEF Last, Sizes
  <2>5. PICK h, q, g : /\ h = mboxes[c].head /\ q = mboxes[c].nextq
                       /\ g = IF NextSlot(h) = q THEN -1 ELSE NextSlot(h)
    OBVIOUS
  <2>6. /\ h \in 0 .. MBOXSLOTS - 1 /\ q \in 0 .. MBOXSLOTS - 1 /\ n = Count(h, q)
        /\ mboxes'[c].head = g /\ mboxes'[c].msg = mboxes[c].msg
        /\ First(c) = mboxes[c].msg[h]
    <3>1. h \in -1 .. MBOXSLOTS - 1 /\ q \in 0 .. MBOXSLOTS - 1 /\ n = Count(h, q)
      BY <2>3, <2>5, <1>0, MsgsRange, Threads DEF Msgs
    <3>2. QED
      BY <3>1, <2>1, <2>4, <2>5 DEF Gives, First
  <2>7. /\ Slot(h, 0) = h /\ \A j \in 0 .. n - 2 : Slot(g, j) = Slot(h, j + 1)
    BY <2>5, <2>6, RingGet
  <2>8. \A j \in 0 .. n - 1 : mboxes[c].msg[Slot(h, j)] = k + j + 1
    BY <2>3, <2>5, <1>0 DEF SocketOk, RingOk
  <2>9. PICK v : v = First(c)
    OBVIOUS
  <2>10. v = k + 1
    <3>1. 0 \in 0 .. n - 1 /\ k + 0 + 1 = k + 1
      BY <2>4
    <3>2. mboxes[c].msg[Slot(h, 0)] = k + 1
      BY <3>1, <2>8
    <3>3. QED
      BY <3>2, <2>6, <2>7, <2>9
  <2>11. /\ given'[c] = Append(s, v) /\ Len(given'[c]) = k + 1 /\ Msgs(c)' = n - 1
         /\ Last(c)' = k + n /\ Last(c)' = Last(c)
    <3>1. given'[c] = Append(s, v) /\ Msgs(c)' = n - 1
      BY <2>1, <2>2, <2>3, <2>9
    <3>2. Len(Append(s, v)) = k + 1
      BY <2>3, <2>4
    <3>3. k + 1 + (n - 1) = k + n
      BY <2>4
    <3>4. QED
      BY <3>1, <3>2, <3>3, <2>4 DEF Last
  <2>12. GivenOk(c)'
    <3>1. \A i \in 1 .. k : s[i] = i
      BY <2>3, <1>0 DEF SocketOk, GivenOk
    <3>2. \A i \in 1 .. k + 1 : Append(s, v)[i] = i
      BY <3>1, <2>3, <2>4, <2>10
    <3>3. QED
      BY <3>2, <2>11 DEF GivenOk
  <2>13. RingOk(c)'
    <3>1. ASSUME NEW j \in 0 .. n - 1 - 1
          PROVE  mboxes[c].msg[Slot(g, j)] = k + 1 + j + 1
      <4>1. j \in 0 .. n - 2 /\ j + 1 \in 0 .. n - 1 /\ k + (j + 1) + 1 = k + 1 + j + 1
        BY <2>4
      <4>2. QED
        BY <4>1, <2>7, <2>8
    <3>2. QED
      BY <3>1, <2>6, <2>11 DEF RingOk
  <2>14. Poster(c)' = Poster(c) /\ Fetcher(c)' = {}
    <3>1. Poster(c)' = Poster(c)
      BY <2>1, <1>1, <1>3, Threads DEF Poster
    <3>2. ASSUME NEW r \in Fetcher(c)' PROVE FALSE
      <4>1. r \in Buffer /\ args[r] \in Recvs /\ args[r].client = c /\ r # t
        BY <3>2, <2>1, <1>1 DEF Fetcher
      <4>2. r \in Server(c)
        BY <4>1 DEF Server
      <4>3. QED
        BY <4>1, <4>2, <2>1, <1>0 DEF ClientOk
    <3>3. QED
      BY <3>1, <3>2
  <2>15. \A b \in Poster(c) : args'[b] = args[b] /\ th'[b].pc = th[b].pc
    BY <2>1, <1>1, <1>3, SocketThreads
  <2>16. PostersOk(c)'
    BY <2>11, <2>14, <2>15, <1>0, <1>1 DEF SocketOk, PostersOk
  <2>17. /\ \A x : Place(x)' = Place(x) /\ (Ran(x)' <=> Ran(x))
         /\ \A x, y : Before(x, y)' <=> Before(x, y)
    BY <1>1 DEF Place, Ran, Before
  <2>18. SortedOk(c)'
    BY <2>14, <2>15, <2>17, <1>0 DEF SocketOk, SortedOk
  <2>19. RanPostOk(c)'
    <3>1. SUFFICES ASSUME NEW b \in Poster(c), Ran(b)
                   PROVE  /\ n - 1 = MBOXSLOTS - 1
                          /\ \A d \in Poster(c) : Ran(d)
                          /\ \A d \in Server(c)' : th'[d].pc = "done"
      BY <2>11, <2>14, <2>17 DEF RanPostOk
    <3>2. sems[<<c, "free">>].counter = 0
      BY <3>1, <2>1, <1>0, SocketThreads DEF SocketOk, RanPostOk
    <3>3. n = MBOXSLOTS
      <4>1. ~Putting(c)
        BY <1>3 DEF Putting
      <4>2. sems[<<c, "free">>].counter = MBOXSLOTS - Msgs(c) - (IF Putting(c) THEN 1 ELSE 0)
        BY <1>0, Threads DEF CountOk
      <4>3. MBOXSLOTS - n - 0 = 0
        BY <4>1, <4>2, <3>2, <2>3
      <4>4. QED
        BY <4>3, <2>4
    <3>4. ASSUME NEW d \in Poster(c) PROVE Ran(d)
      <4>1. ASSUME NEW x \in Live
            PROVE  /\ Place(x) \in 0 .. Len(queue) /\ Len(queue) \in Nat
                   /\ Place(x) = 0 <=> x = t
                   /\ \A y \in Live : Place(x) = Place(y) => x = y
        BY <1>0, <1>3, PlaceRange DEF Place, LineOk
      <4>2. Main \in Live /\ t \in Live /\ b \in Live /\ d \in Live \ {Main, t}
        BY <2>1, <1>0, <1>3, Threads, SocketThreads DEF PcOk, Live
      <4>3. Place(t) < Place(Main) - 1 => Place(b) = Place(Main) - 1
        BY <2>1, <1>0 DEF SocketOk, RanFetchOk
      <4>4. Place(b) > Place(Main)
        BY <3>1 DEF Ran
      <4>5. Place(Main) = 1
        <5>1. Place(t) = 0 /\ Place(Main) \in Nat \ {0} /\ Place(b) \in Nat
          BY <4>1, <4>2, <1>3
        <5>2. QED
          BY <4>3, <4>4, <5>1
      <4>6. Place(d) \in Nat \ {0, 1}
        BY <4>1, <4>2, <4>5
      <4>7. QED
        BY <4>5, <4>6 DEF Ran
    <3>5. \A d \in Server(c)' : d = t
      <4>1. Server(c)' = Server(c)
        BY <1>1 DEF Server
      <4>2. QED
        BY <4>1, <2>1, <1>0 DEF ClientOk
    <3>6. QED
      BY <3>3, <3>4, <3>5, <2>1
  <2>20. RanFetchOk(c)'
    BY <2>14 DEF RanFetchOk
  <2>21. QED
    BY <2>12, <2>13, <2>16, <2>18, <2>19, <2>20 DEF SocketOk
<1>7. QED
  BY <1>5, <1>6

\* The tcpip thread has nothing to do with the packets.
LEMMA TcpipCallSockets ==
  ASSUME Base, SocketsOk, TcpipCall
  PROVE  SocketsOk'
<1> SUFFICES ASSUME NEW c \in Client PROVE SocketOk(c)'
  BY DEF SocketsOk
<1>0. SocketOk(c)
  BY DEF SocketsOk
<1>1. UNCHANGED <<cur, queue, mboxes, args, arrived, given>>
  BY DEF TcpipCall, threads, world
<1>2. PICK d : d = args[op].client
  OBVIOUS
<1>3. /\ th[Tcpip].pc = "call" /\ Goes(Tcpip, "fetch") /\ Signalled(Tcpip, <<d, "op">>)
  BY <1>2, TcpipCallDoes
<1>4. BoxSame(c)
  <2>1. sems'[<<c, "free">>] = sems[<<c, "free">>]
    BY <1>3, Sems, Threads DEF Signalled
  <2>2. QED
    BY <2>1, <1>1 DEF BoxSame
<1>5. Tcpip \notin Poster(c) /\ Tcpip \notin Fetcher(c) /\ Tcpip \notin Buffer
  BY Threads, SocketThreads
<1>6. Same(c) /\ EndedStay(c)
  BY <1>1, <1>3, <1>4, <1>5, Threads, RunSame
<1>7. QED
  BY <1>0, <1>1, <1>6, StillSocket

\* The end of a request: its thread is no poster or fetcher any more.
LEMMA FinishSockets ==
  ASSUME Base, SocketsOk, NEW t \in Thread, Finish(t)
  PROVE  SocketsOk'
<1> SUFFICES ASSUME NEW c \in Client PROVE SocketOk(c)'
  BY DEF SocketsOk
<1>0. LineOk /\ PcOk /\ SocketOk(c)
  BY DEF Base, SocketsOk
<1>1. /\ cur = t /\ t \in Buffer /\ th[t].pc = "done" /\ Goes(t, "none")
      /\ \A x \in Thread \ {t} : th'[x] = th[x]
      /\ args'[t] = NoReq /\ \A b \in Buffer \ {t} : args'[b] = args[b]
      /\ Live' = Live \ {t} /\ Halt
  BY FinishDoes
<1>2. UNCHANGED <<sems, mboxes, arrived, given>>
  BY DEF Finish
<1>3. t # Main /\ Main \in Live
  BY <1>0, <1>1, Threads DEF PcOk, Live
<1>4. Passes(t)
  <2>1. \A x \in Live \ {t} : Place(x)' = Place(x) - 1
    BY <1>0, <1>1, <1>3, HaltLine
  <2>2. QED
    BY <2>1, <1>0, <1>1, <1>3, PassesLine
<1>5. t \notin Poster(c) /\ t \notin Fetcher(c) /\ t \notin Poster(c)' /\ t \notin Fetcher(c)'
  BY <1>1 DEF Poster, Fetcher, Goes
<1>6. Poster(c)' = Poster(c) /\ Fetcher(c)' = Fetcher(c)
  <2>1. ASSUME NEW b \in Buffer, b # t
        PROVE  /\ b \in Poster(c)' <=> b \in Poster(c)
               /\ b \in Fetcher(c)' <=> b \in Fetcher(c)
    BY <2>1, <1>1, Threads DEF Poster, Fetcher
  <2>2. /\ Poster(c) \subseteq Buffer /\ Poster(c)' \subseteq Buffer
        /\ Fetcher(c) \subseteq Buffer /\ Fetcher(c)' \subseteq Buffer
    BY DEF Poster, Fetcher
  <2>3. QED
    BY <2>1, <2>2, <1>5
<1>7. Same(c)
  <2>1. \A b \in Poster(c) : args'[b] = args[b] /\ th'[b].pc = th[b].pc
    BY <1>1, <1>5, SocketThreads
  <2>2. QED
    BY <2>1, <1>2, <1>6 DEF Same
<1>8. EndedStay(c)
  <2>1. NoReq \notin Recvs \cup Calls
    BY DEF NoReq, Recvs, Calls
  <2>2. ASSUME NEW b \in Server(c)'
        PROVE  b \in Server(c) /\ th'[b] = th[b]
    <3>1. b \in Buffer /\ args'[b] \in Recvs \cup Calls /\ args'[b].client = c
      BY <2>2 DEF Server
    <3>2. b # t
      BY <2>1, <3>1, <1>1
    <3>3. QED
      BY <3>1, <3>2, <1>1, Threads DEF Server
  <2>3. QED
    BY <2>2 DEF EndedStay
<1>9. QED
  BY <1>0, <1>4, <1>5, <1>7, <1>8, HaltSocket

-----------------------------------------------------------------------------
(* The sockets and the steps of main. *)

\* Main leaves the packets alone.
LEMMA MainSockets ==
  ASSUME Base, SocketsOk, NEW pc \in {"flush", "recv", "timer", "panic"}, MainGoes(pc)
  PROVE  SocketsOk'
<1> SUFFICES ASSUME NEW c \in Client PROVE SocketOk(c)'
  BY DEF SocketsOk
<1>0. LineOk /\ PcOk /\ SocketOk(c)
  BY DEF Base, SocketsOk
<1>1. /\ cur = Main /\ (UNCHANGED <<cur, queue>> \/ Yield(Main))
      /\ \A x \in Thread \ {Main} : th'[x] = th[x]
      /\ UNCHANGED <<sems, mboxes, args, arrived, given>>
  BY DEF MainGoes
<1>2. \A b \in Buffer : th'[b] = th[b] /\ args'[b] = args[b]
  BY <1>1, Threads
<1>3. Same(c) /\ EndedStay(c)
  <2>1. Poster(c)' = Poster(c) /\ Fetcher(c)' = Fetcher(c) /\ Server(c)' = Server(c)
    BY <1>1, <1>2 DEF Poster, Fetcher, Server
  <2>2. Poster(c) \subseteq Buffer /\ Server(c) \subseteq Buffer
    BY DEF Poster, Server
  <2>3. QED
    BY <2>1, <2>2, <1>1, <1>2 DEF Same, EndedStay
<1>4. CASE UNCHANGED <<cur, queue>>
  BY <1>0, <1>3, <1>4, StillSocket
<1>5. CASE Yield(Main)
  <2>1. Live' = Live /\ Main \in Live
    BY <1>0, Threads, MainKeeps DEF PcOk, Live
  <2>2. /\ \A x \in Live \ {Main} : Place(x)' = Place(x) - 1
        /\ Place(Main)' = Len(queue)
    BY <2>1, <1>0, <1>1, <1>5, YieldLine
  <2>3. Len(queue) \in Nat
    BY <1>0 DEF LineOk, Lined
  <2>4. MainYields
    BY <2>1, <2>2, <2>3, <1>0, <1>1, MainYieldsLine
  <2>5. QED
    BY <2>4, <1>0, <1>3, MainSocket
<1>6. QED
  BY <1>1, <1>4, <1>5

\* A new thread has its turn last of all.
LEMMA AcceptMain ==
  ASSUME Base, NEW b, NEW req, NEW pc, Opens(b, req, pc)
  PROVE  /\ MainYields /\ b \notin Live /\ Len(queue) \in Nat
         /\ Place(b)' = Len(queue) /\ Place(Main)' = Len(queue) + 1
<1>0. LineOk /\ PcOk
  BY DEF Base
<1>1. /\ cur = Main /\ b # Main /\ th[b].pc = "none" /\ Live' = Live \cup {b}
      /\ YieldTo(Main, <<b>>)
  BY DEF Opens
<1>2. b \notin Live /\ Main \in Live
  BY <1>0, <1>1, Threads DEF PcOk, Live
<1>3. /\ \A x \in Live \ {Main} : Place(x)' = Place(x) - 1
      /\ Place(b)' = Len(queue) /\ Place(Main)' = Len(queue) + 1
  BY <1>0, <1>1, <1>2, AcceptLine
<1>4. Len(queue) \in Nat
  BY <1>0 DEF LineOk, Lined
<1>5. MainYields
  BY <1>0, <1>1, <1>2, <1>3, <1>4, MainYieldsLine
<1>6. QED
  BY <1>2, <1>3, <1>4, <1>5

\* Thread b serves a request that is not a packet of c, and no recv of c.
LEMMA OtherAccept ==
  ASSUME Base, NEW c \in Client, SocketOk(c), NEW b, NEW req, NEW pc, Opens(b, req, pc),
         req \in Inputs => req.client # c, req \in Recvs => req.client # c,
         arrived'[c] = arrived[c]
  PROVE  SocketOk(c)'
<1>1. /\ b \in Buffer /\ th[b].pc = "none" /\ args'[b] = req
      /\ \A x \in Buffer \ {b} : th'[x] = th[x] /\ args'[x] = args[x]
      /\ UNCHANGED <<sems, mboxes, given>>
  BY Threads DEF Opens
<1>2. MainYields
  BY AcceptMain
<1>3. Same(c)
  <2>1. b \notin Poster(c) /\ b \notin Fetcher(c) /\ b \notin Poster(c)' /\ b \notin Fetcher(c)'
    BY <1>1 DEF Poster, Fetcher
  <2>2. ASSUME NEW x \in Buffer, x # b
        PROVE  /\ x \in Poster(c)' <=> x \in Poster(c)
               /\ x \in Fetcher(c)' <=> x \in Fetcher(c)
    BY <2>2, <1>1 DEF Poster, Fetcher
  <2>3. /\ Poster(c) \subseteq Buffer /\ Poster(c)' \subseteq Buffer
        /\ Fetcher(c) \subseteq Buffer /\ Fetcher(c)' \subseteq Buffer
    BY DEF Poster, Fetcher
  <2>4. Poster(c)' = Poster(c) /\ Fetcher(c)' = Fetcher(c)
    BY <2>1, <2>2, <2>3
  <2>5. \A x \in Poster(c) : args'[x] = args[x] /\ th'[x].pc = th[x].pc
    BY <2>1, <2>3, <1>1
  <2>6. QED
    BY <2>4, <2>5, <1>1 DEF Same
<1>4. QED
  BY <1>2, <1>3, MainSocket

\* A new fetcher has its turn behind all posters.
LEMMA RecvAccept ==
  ASSUME Base, NEW c \in Client, SocketOk(c), NEW b, NEW req, Opens(b, req, "fetch"),
         req \in Recvs, req.client = c, arrived'[c] = arrived[c]
  PROVE  SocketOk(c)'
<1>1. /\ b \in Buffer /\ th[b].pc = "none" /\ args'[b] = req /\ th'[b].pc = "fetch"
      /\ \A x \in Buffer \ {b} : th'[x] = th[x] /\ args'[x] = args[x]
      /\ UNCHANGED <<sems, mboxes, given>>
  BY Threads DEF Opens
<1>2. /\ MainYields /\ Len(queue) \in Nat
      /\ Place(b)' = Len(queue) /\ Place(Main)' = Len(queue) + 1
  BY AcceptMain
<1>3. Poster(c)' = Poster(c) /\ Fetcher(c)' = Fetcher(c) \cup {b}
  <2>1. /\ b \notin Poster(c) /\ b \notin Poster(c)' /\ b \in Fetcher(c)'
    BY <1>1 DEF Poster, Fetcher
  <2>2. ASSUME NEW x \in Buffer, x # b
        PROVE  /\ x \in Poster(c)' <=> x \in Poster(c)
               /\ x \in Fetcher(c)' <=> x \in Fetcher(c)
    BY <2>2, <1>1 DEF Poster, Fetcher
  <2>3. /\ Poster(c) \subseteq Buffer /\ Poster(c)' \subseteq Buffer
        /\ Fetcher(c) \subseteq Buffer /\ Fetcher(c)' \subseteq Buffer
    BY DEF Poster, Fetcher
  <2>4. PICK P, Q, F, G : /\ P = Poster(c) /\ Q = Poster(c)'
                         /\ F = Fetcher(c) /\ G = Fetcher(c)'
    OBVIOUS
  <2>5. Q = P
    BY <2>1, <2>2, <2>3, <2>4
  <2>6. G = F \cup {b}
    BY <2>1, <2>2, <2>3, <2>4, <1>1
  <2>7. QED
    BY <2>4, <2>5, <2>6
<1>4. \A x \in Poster(c) : /\ args'[x] = args[x] /\ th'[x].pc = th[x].pc
                           /\ x \in Live \ {Main} /\ ~Ran(x)' /\ Place(x)' < Place(Main)'
  <2>1. b \notin Poster(c)
    BY <1>1 DEF Poster
  <2>2. QED
    BY <2>1, <1>1, <1>2, SocketThreads DEF MainYields
<1>5. /\ Msgs(c)' = Msgs(c) /\ Last(c)' = Last(c)
  BY <1>1 DEF Msgs, Last
<1>6. GivenOk(c)' /\ RingOk(c)' /\ PostersOk(c)'
  BY <1>1, <1>3, <1>4, <1>5 DEF SocketOk, GivenOk, RingOk, PostersOk
<1>7. SortedOk(c)'
  BY <1>2, <1>3, <1>4 DEF SocketOk, SortedOk, MainYields
<1>8. RanPostOk(c)'
  BY <1>3, <1>4 DEF RanPostOk
<1>9. RanFetchOk(c)'
  <2>1. SUFFICES ASSUME NEW r \in Fetcher(c) \cup {b}, NEW x \in Poster(c)
                 PROVE  ~Ran(r)' /\ ~(Place(r)' < Place(Main)' - 1)
    BY <1>3 DEF RanFetchOk
  <2>2. r = b
    BY <2>1, <1>2, NoneMeet DEF SocketOk
  <2>3. QED
    BY <2>2, <1>2 DEF Ran
<1>10. QED
  BY <1>6, <1>7, <1>8, <1>9 DEF SocketOk

\* A new packet has the next number and its poster its turn behind the others.
LEMMA PacketAccept ==
  ASSUME Base, NEW c \in Client, SocketOk(c), NEW b, NEW req, Opens(b, req, "post"),
         req \in Inputs, req.client = c, req.pkt = arrived[c] + 1, arrived[c] \in Nat,
         arrived'[c] = arrived[c] + 1
  PROVE  SocketOk(c)'
<1>1. /\ b \in Buffer /\ th[b].pc = "none" /\ args'[b] = req /\ th'[b].pc = "post"
      /\ \A x \in Buffer \ {b} : th'[x] = th[x] /\ args'[x] = args[x]
      /\ UNCHANGED <<sems, mboxes, given>>
  BY Threads DEF Opens
<1>2. /\ MainYields /\ Len(queue) \in Nat
      /\ Place(b)' = Len(queue) /\ Place(Main)' = Len(queue) + 1
  BY AcceptMain
<1>3. Poster(c)' = Poster(c) \cup {b} /\ Fetcher(c)' = Fetcher(c) /\ b \notin Poster(c)
  <2>1. /\ b \notin Fetcher(c) /\ b \notin Fetcher(c)' /\ b \in Poster(c)' /\ b \notin Poster(c)
    BY <1>1 DEF Poster, Fetcher
  <2>2. ASSUME NEW x \in Buffer, x # b
        PROVE  /\ x \in Poster(c)' <=> x \in Poster(c)
               /\ x \in Fetcher(c)' <=> x \in Fetcher(c)
    BY <2>2, <1>1 DEF Poster, Fetcher
  <2>3. /\ Poster(c) \subseteq Buffer /\ Poster(c)' \subseteq Buffer
        /\ Fetcher(c) \subseteq Buffer /\ Fetcher(c)' \subseteq Buffer
    BY DEF Poster, Fetcher
  <2>4. Fetcher(c)' = Fetcher(c)
    BY <2>1, <2>2, <2>3
  <2>5. Poster(c)' = Poster(c) \cup {b}
    BY <2>1, <2>2, <2>3, <1>1
  <2>6. QED
    BY <2>1, <2>4, <2>5
<1>4. \A x \in Poster(c) : /\ args'[x] = args[x] /\ th'[x].pc = th[x].pc /\ x # b
                           /\ x \in Live \ {Main} /\ ~Ran(x)'
                           /\ Place(x)' < Place(Main)' /\ Place(x)' \in Int
  BY <1>1, <1>2, <1>3, SocketThreads DEF MainYields
<1>5. /\ Msgs(c)' = Msgs(c) /\ Last(c)' = Last(c)
  BY <1>1 DEF Msgs, Last
<1>6. GivenOk(c)' /\ RingOk(c)'
  BY <1>1, <1>5 DEF SocketOk, GivenOk, RingOk
<1>7. PICK k, n : k = Last(c) /\ n = arrived[c]
  OBVIOUS
<1>8. /\ k \in Nat /\ n \in Nat /\ k <= n
      /\ \A x \in Poster(c) : args[x].pkt \in k + 1 .. n /\ (th[x].pc = "put" => args[x].pkt = k + 1)
      /\ \A i \in k + 1 .. n : \E x \in Poster(c) : args[x].pkt = i
  <2>1. Len(given[c]) \in Nat
    BY DEF Base, DataOk
  <2>2. Msgs(c) \in Nat
    BY MsgsRange, Threads DEF Base
  <2>3. Last(c) \in Nat
    BY <2>1, <2>2 DEF Last
  <2>4. QED
    BY <2>3, <1>7 DEF SocketOk, PostersOk
<1>9. PostersOk(c)'
  <2>1. Last(c)' = k /\ arrived'[c] = n + 1 /\ args'[b].pkt = n + 1 /\ th'[b].pc = "post"
    BY <1>1, <1>5, <1>7
  <2>2. k <= n + 1
    BY <1>8
  <2>3. ASSUME NEW x \in Poster(c) \cup {b}
        PROVE  /\ args'[x].pkt \in k + 1 .. n + 1
               /\ th'[x].pc = "put" => args'[x].pkt = k + 1
    <3>1. CASE x = b
      BY <3>1, <2>1, <1>8
    <3>2. CASE x \in Poster(c)
      BY <3>2, <1>4, <1>8
    <3>3. QED
      BY <3>1, <3>2
  <2>4. ASSUME NEW i \in k + 1 .. n + 1
        PROVE  \E x \in Poster(c) \cup {b} : args'[x].pkt = i
    <3>1. CASE i = n + 1
      BY <3>1, <2>1
    <3>2. CASE i # n + 1
      <4>1. i \in k + 1 .. n
        BY <3>2, <1>8
      <4>2. QED
        BY <4>1, <1>4, <1>8
    <3>3. QED
      BY <3>1, <3>2
  <2>5. QED
    BY <2>1, <2>2, <2>3, <2>4, <1>3 DEF PostersOk
<1>10. SortedOk(c)'
  <2>1. SUFFICES ASSUME NEW x \in Poster(c) \cup {b}, NEW y \in Poster(c) \cup {b}
                 PROVE  /\ Before(x, y)' => args'[x].pkt < args'[y].pkt
                        /\ args'[x].pkt = args'[y].pkt => x = y
    BY <1>3 DEF SortedOk
  <2>2. args'[b].pkt = n + 1 /\ ~Ran(b)' /\ Place(b)' = Len(queue) /\ Place(b)' \in Nat
    BY <1>1, <1>2, <1>7 DEF Ran
  <2>3. \A z \in Poster(c) : args'[z] = args[z] /\ args[z].pkt \in Nat /\ args[z].pkt < n + 1
    BY <1>4, <1>8
  <2>4. CASE x \in Poster(c) /\ y \in Poster(c)
    <3>1. Before(x, y)' => Before(x, y)
      BY <2>4, <1>2, <1>4 DEF MainYields
    <3>2. QED
      BY <3>1, <2>3, <2>4 DEF SocketOk, SortedOk
  <2>5. CASE x \in Poster(c) /\ y = b
    BY <2>2, <2>3, <2>5, <1>8
  <2>6. CASE x = b /\ y \in Poster(c)
    <3>1. ~(Place(x)' < Place(y)')
      <4>1. Place(y)' < Len(queue) + 1 /\ Place(y)' \in Int /\ Len(queue) \in Nat
        BY <2>6, <1>2, <1>4
      <4>2. QED
        BY <4>1, <2>2, <2>6
    <3>2. ~Before(x, y)'
      BY <3>1, <2>2, <2>6, <1>4 DEF Before
    <3>3. QED
      BY <3>2, <2>2, <2>3, <2>6, <1>8
  <2>7. CASE x = b /\ y = b
    BY <2>2, <2>7 DEF Before
  <2>8. QED
    BY <2>4, <2>5, <2>6, <2>7
<1>11. RanPostOk(c)'
  <2>1. ~Ran(b)'
    BY <1>2 DEF Ran
  <2>2. QED
    BY <2>1, <1>3, <1>4 DEF RanPostOk
<1>12. RanFetchOk(c)'
  <2>1. SUFFICES ASSUME NEW r \in Fetcher(c), NEW x \in Poster(c) \cup {b}
                 PROVE  ~Ran(r)' /\ Place(x)' = Place(Main)' - 1
    BY <1>3 DEF RanFetchOk
  <2>2. x = b
    BY <2>1, <1>2, NoneMeet DEF SocketOk
  <2>3. ~Ran(r)'
    BY <1>2, SocketThreads DEF MainYields
  <2>4. QED
    BY <2>2, <2>3, <1>2
<1>13. QED
  BY <1>6, <1>9, <1>10, <1>11, <1>12 DEF SocketOk

-----------------------------------------------------------------------------
\* No packet yet.
LEMMA InitSockets == Init => SocketsOk
<1> SUFFICES ASSUME Init, NEW c \in Client PROVE SocketOk(c)
  BY DEF SocketsOk
<1>1. /\ given[c] = << >> /\ arrived[c] = 0 /\ mboxes[c].head = -1
      /\ \A b \in Buffer : args[b] = NoReq
  BY Threads DEF Init
<1>2. Len(given[c]) = 0 /\ Msgs(c) = 0 /\ Last(c) = 0
  BY <1>1 DEF Msgs, Count, Last
<1>3. Poster(c) = {} /\ Fetcher(c) = {}
  BY <1>1 DEF Poster, Fetcher, NoReq, Inputs, Recvs
<1>4. GivenOk(c) /\ RingOk(c)
  BY <1>2 DEF GivenOk, RingOk
<1>5. PostersOk(c)
  BY <1>1, <1>2, <1>3 DEF PostersOk
<1>6. SortedOk(c) /\ RanPostOk(c) /\ RanFetchOk(c)
  BY <1>3 DEF SortedOk, RanPostOk, RanFetchOk
<1>7. QED
  BY <1>4, <1>5, <1>6 DEF SocketOk

\* Requests keep the packets in order.
LEMMA RequestSockets ==
  ASSUME Base, SocketsOk, NEW d \in Client,
         RecvRequest(d) \/ CallRequest(d) \/ PacketRequest(d)
  PROVE  SocketsOk'
<1> SUFFICES ASSUME NEW c \in Client PROVE SocketOk(c)'
  BY DEF SocketsOk
<1>0. DataOk /\ SocketOk(c)
  BY DEF Base, SocketsOk
<1>1. PICK b : b = main.va
  OBVIOUS
<1>2. CASE RecvRequest(d)
  <2>1. PICK req : req = [type |-> "recv", client |-> d]
    OBVIOUS
  <2>2. req \in Recvs /\ req.client = d /\ req \notin Inputs
    BY <2>1 DEF Recvs, Inputs
  <2>3. Accept(req, "fetch") /\ arrived' = arrived
    BY <1>2, <2>1 DEF RecvRequest
  <2>4. Opens(b, req, "fetch")
    BY <2>2, <2>3, <1>1, AcceptDoes DEF Starts
  <2>5. CASE c = d
    BY <2>2, <2>3, <2>4, <2>5, <1>0, RecvAccept
  <2>6. CASE c # d
    BY <2>2, <2>3, <2>4, <2>6, <1>0, OtherAccept
  <2>7. QED
    BY <2>5, <2>6
<1>3. CASE CallRequest(d)
  <2>1. PICK req : req = [type |-> "call", client |-> d]
    OBVIOUS
  <2>2. req \in Calls /\ req \notin Recvs /\ req \notin Inputs
    BY <2>1 DEF Recvs, Inputs, Calls
  <2>3. Accept(req, "callpost") /\ arrived' = arrived
    BY <1>3, <2>1 DEF CallRequest
  <2>4. Opens(b, req, "callpost")
    BY <2>2, <2>3, <1>1, AcceptDoes DEF Starts
  <2>5. QED
    BY <2>2, <2>3, <2>4, <1>0, OtherAccept
<1>4. CASE PacketRequest(d)
  <2>1. PICK req : req = [type |-> "input", client |-> d, pkt |-> arrived[d] + 1]
    OBVIOUS
  <2>2. /\ Accept(req, "post") /\ arrived' = [arrived EXCEPT ![d] = arrived[d] + 1]
        /\ Cardinality(Arrived) < MaxPkts
    BY <1>4, <2>1 DEF PacketRequest
  <2>3. arrived[d] + 1 \in 1 .. MaxPkts
    BY <1>0, <2>2, MayArrive
  <2>4. req \in Inputs /\ req.client = d /\ req.pkt = arrived[d] + 1 /\ req \notin Recvs
    BY <2>1, <2>3 DEF Inputs, Recvs
  <2>5. Opens(b, req, "post")
    BY <2>2, <2>4, <1>1, AcceptDoes DEF Starts
  <2>6. \A x \in Client : arrived'[x] = IF x = d THEN arrived[d] + 1 ELSE arrived[x]
    BY <2>2, <1>0 DEF DataOk
  <2>7. arrived[d] \in Nat
    BY <1>0, Sized DEF DataOk, Sizes
  <2>8. CASE c = d
    BY <2>4, <2>5, <2>6, <2>7, <2>8, <1>0, PacketAccept
  <2>9. CASE c # d
    BY <2>4, <2>5, <2>6, <2>9, <1>0, OtherAccept
  <2>10. QED
    BY <2>8, <2>9
<1>5. QED
  BY <1>2, <1>3, <1>4

\* The inductive invariant.
IInv == Base /\ SocketsOk

\* Every step keeps the invariant.
LEMMA NextIInv ==
  ASSUME IInv, [Next]_vars
  PROVE  IInv'
<1>0. Base /\ SocketsOk
  BY DEF IInv
<1>1. Base'
  BY <1>0, NextBase
<1>2. ASSUME NEW t \in Thread, SemWait(t)
      PROVE  SocketsOk'
  <2>1. DataOk /\ PcOk /\ WaitOk
    BY <1>0 DEF Base
  <2>2. \/ Acquires(t, WaitsFor(t)) /\ Goes(t, After(th[t].pc))
        \/ Blocks(t, WaitsFor(t))
    BY <1>2, <2>1, SemWaitDoes
  <2>3. Blocks(t, WaitsFor(t)) => Live' = Live
    BY <1>0, <1>2, BlockBase
  <2>4. QED
    BY <1>0, <1>2, <2>2, <2>3, AcquireSockets, BlockSockets
<1>3. ASSUME NEW t \in Thread, Post(t) \/ Fetch(t) \/ Finish(t)
      PROVE  SocketsOk'
  BY <1>0, <1>3, PostSockets, FetchSockets, FinishSockets
<1>4. ASSUME TcpipCall
      PROVE  SocketsOk'
  BY <1>0, <1>4, TcpipCallSockets
<1>5. ASSUME Flush \/ Listen \/ TimerReply \/ TimerRequest
      PROVE  SocketsOk'
  <2>1. \E pc \in {"flush", "recv", "timer", "panic"} : MainGoes(pc)
    BY <1>0, <1>5, FlushBase, ListenBase, TimerReplyBase, TimerRequestBase
  <2>2. QED
    BY <1>0, <2>1, MainSockets
<1>6. ASSUME NEW c \in Client, RecvRequest(c) \/ CallRequest(c) \/ PacketRequest(c)
      PROVE  SocketsOk'
  BY <1>0, <1>6, RequestSockets
<1>7. ASSUME UNCHANGED vars
      PROVE  SocketsOk'
  <2>1. SUFFICES ASSUME NEW c \in Client PROVE SocketOk(c)'
    BY DEF SocketsOk
  <2>2. Same(c) /\ EndedStay(c) /\ UNCHANGED <<cur, queue>>
    BY <1>7 DEF vars, Same, EndedStay, Poster, Fetcher, Server
  <2>3. QED
    BY <2>2, <1>0, StillSocket DEF SocketsOk
<1>8. SocketsOk'
  BY <1>2, <1>3, <1>4, <1>5, <1>6, <1>7 DEF Next, ThreadStep
<1>9. QED
  BY <1>1, <1>8 DEF IInv

\* The inductive invariant always holds.
THEOREM AlwaysIInv == Spec => []IInv
<1>1. Init => IInv
  BY InitBase, InitSockets DEF IInv
<1>2. IInv /\ [Next]_vars => IInv'
  BY NextIInv
<1>3. QED
  BY <1>1, <1>2, PTL DEF Spec

-----------------------------------------------------------------------------
(* What the server promises. *)

\* What the invariant says of the packets given, in the mailbox and arrived.
LEMMA GivenRange ==
  ASSUME IInv, NEW c \in Client
  PROVE  /\ given[c] \in Seq(Int) /\ Len(given[c]) \in Nat
         /\ Msgs(c) \in 0 .. MBOXSLOTS /\ MBOXSLOTS \in Nat
         /\ Len(given[c]) + Msgs(c) <= arrived[c]
         /\ arrived[c] \in Nat /\ arrived[c] <= MaxPkts /\ MaxPkts \in Nat
         /\ \A i \in 1 .. Len(given[c]) : given[c][i] = i
         /\ Last(c) = Len(given[c]) + Msgs(c)
         /\ \A i \in Last(c) + 1 .. arrived[c] : \E b \in Buffer : args[b].pkt = i
<1>1. DataOk /\ SocketOk(c)
  BY DEF IInv, Base, SocketsOk
<1>2. /\ MBOXSLOTS \in Nat /\ MaxPkts \in Nat /\ given[c] \in Seq(Int)
      /\ arrived[c] \in 0 .. MaxPkts
  BY <1>1, Sized DEF Sizes, DataOk
<1>3. Msgs(c) \in 0 .. MBOXSLOTS
  BY <1>1, MsgsRange, Threads
<1>4. /\ Last(c) = Len(given[c]) + Msgs(c) /\ Last(c) <= arrived[c]
      /\ \A i \in Last(c) + 1 .. arrived[c] : \E b \in Buffer : args[b].pkt = i
  BY <1>1, SocketThreads DEF Last, SocketOk, PostersOk
<1>5. \A i \in 1 .. Len(given[c]) : given[c][i] = i
  BY <1>1 DEF SocketOk, GivenOk
<1>6. QED
  BY <1>2, <1>3, <1>4, <1>5

\* The invariant has the types.
LEMMA IInvTypeOK == IInv => TypeOK
<1> SUFFICES ASSUME IInv PROVE TypeOK
  OBVIOUS
<1>0. DataOk /\ LineOk
  BY DEF IInv, Base
<1>1. cur \in Thread /\ queue \in Seq(Thread)
  <2>1. cur \in Live /\ queue \in Seq(Live) /\ Live \subseteq Thread
    BY <1>0 DEF LineOk, Lined, Live
  <2>2. QED
    BY <2>1
<1>2. \A m \in Mbox : mboxes[m].head \in -1 .. MBOXSLOTS - 1
                      /\ mboxes[m].nextq \in 0 .. MBOXSLOTS - 1
  BY <1>0, MsgsRange
<1>3. \A c \in Client : given[c] \in Seq(1 .. MaxPkts)
  <2>1. TAKE c \in Client
  <2>2. PICK s, k : s = given[c] /\ k = Len(s)
    OBVIOUS
  <2>3. /\ s \in Seq(Int) /\ k \in Nat /\ k <= MaxPkts /\ MaxPkts \in Nat
        /\ \A i \in 1 .. k : s[i] = i
    <3>1. /\ s \in Seq(Int) /\ k \in Nat /\ \A i \in 1 .. k : s[i] = i
          /\ Msgs(c) \in 0 .. MBOXSLOTS /\ k + Msgs(c) <= arrived[c]
          /\ arrived[c] \in Nat /\ arrived[c] <= MaxPkts /\ MaxPkts \in Nat
          /\ MBOXSLOTS \in Nat
      BY <2>2, GivenRange
    <3>2. QED
      BY <3>1
  <2>4. \A i \in 1 .. Len(s) : s[i] \in 1 .. MaxPkts
    BY <2>2, <2>3
  <2>5. QED
    BY <2>2, <2>3, <2>4, SeqOf
<1>4. th \in [Thread ->
         [pc : PollPoints \cup {"none", "put", "callput", "get", "call", "done",
                                "flush", "recv", "timer", "panic"},
          addr : Sem \cup {NoSem}, wakeup : BOOLEAN,
          val : [counter : Nat, waiters : BOOLEAN]]]
  BY <1>0 DEF DataOk, Contexts, Labels, Values
<1>5. /\ sems \in [Sem -> [counter : Nat, waiters : BOOLEAN]] /\ buse \in [Buffer -> BOOLEAN]
      /\ main.va \in 0 .. QUEUE_SIZE /\ main.i \in 0 .. MaxYields
      /\ client \in [Client -> {"run", "recv", "call"}] /\ timer \in {"run", "wait"}
      /\ arrived \in [Client -> 0 .. MaxPkts]
  BY <1>0 DEF DataOk, Values
<1>6. QED
  BY <1>1, <1>2, <1>3, <1>4, <1>5 DEF TypeOK

\* A buffer is in use exactly as long as main receives into it or a thread reads it.
THEOREM AlwaysBuffersOwned == Spec => []BuffersOwned
<1>1. IInv => BuffersOwned
  BY IInvTypeOK DEF IInv, Base, BufOk, BuffersOwned
<1>2. QED
  BY <1>1, AlwaysIInv, PTL

\* Numbers from lo + 1 to hi that are all in the hands of a thread are not more than
\* the buffers.
LEMMA OneBufferEach ==
  ASSUME NEW lo \in Nat, NEW hi \in Nat, NEW f,
         \A i \in lo + 1 .. hi : \E b \in Buffer : f[b] = i
  PROVE  hi - lo <= QUEUE_SIZE
<1>1. QUEUE_SIZE \in Nat
  BY Sized DEF Sizes
<1>2. PICK I : I = lo + 1 .. hi
  OBVIOUS
<1>3. IsFiniteSet(I) /\ Cardinality(I) = IF lo + 1 > hi THEN 0 ELSE hi - (lo + 1) + 1
  BY <1>2, FS_Interval
<1>4. IsFiniteSet(Buffer) /\ Cardinality(Buffer) = QUEUE_SIZE
  <2>1. /\ IsFiniteSet(1 .. QUEUE_SIZE)
        /\ Cardinality(1 .. QUEUE_SIZE) = IF 1 > QUEUE_SIZE THEN 0 ELSE QUEUE_SIZE - 1 + 1
    BY <1>1, FS_Interval
  <2>2. QED
    BY <2>1, <1>1 DEF Buffer
<1>5. PICK g : g = [i \in I |-> CHOOSE b \in Buffer : f[b] = i]
  OBVIOUS
<1>6. \A i \in I : g[i] \in Buffer /\ f[g[i]] = i
  BY <1>2, <1>5
<1>7. g \in Injection(I, Buffer)
  BY <1>5, <1>6 DEF Injection, IsInjective
<1>8. Cardinality(I) <= Cardinality(Buffer)
  BY <1>4, <1>7, FS_Injection
<1>9. QED
  BY <1>1, <1>3, <1>4, <1>8

\* Packets arrive by requests of the input helper only, one at a time.
LEMMA ArrivedBy ==
  ASSUME [Next]_vars
  PROVE  arrived' = arrived \/ \E c \in Client : PacketRequest(c)
<1>1. CASE ThreadStep
  <2>1. (TcpipCall \/ Flush \/ Listen \/ TimerReply) => arrived' = arrived
    BY DEF TcpipCall, Flush, Listen, TimerReply, world
  <2>2. \A t \in Thread : SemWait(t) \/ Post(t) \/ Fetch(t) \/ Finish(t) => arrived' = arrived
    BY DEF SemWait, Post, Fetch, Finish, world
  <2>3. QED
    BY <1>1, <2>1, <2>2 DEF ThreadStep
<1>2. TimerRequest \/ UNCHANGED vars => arrived' = arrived
  BY DEF TimerRequest, vars
<1>3. \A c \in Client : RecvRequest(c) \/ CallRequest(c) => arrived' = arrived
  BY DEF RecvRequest, CallRequest
<1>4. QED
  BY <1>1, <1>2, <1>3 DEF Next

\* A client receives by a fetch of its thread only.
LEMMA GivenBy ==
  ASSUME [Next]_vars
  PROVE  given' = given \/ \E t \in Thread : Fetch(t)
<1>1. CASE ThreadStep
  <2>1. (TcpipCall \/ Flush \/ Listen \/ TimerReply) => given' = given
    BY DEF TcpipCall, Flush, Listen, TimerReply, world
  <2>2. \A t \in Thread : SemWait(t) \/ Post(t) \/ Finish(t) => given' = given
    BY DEF SemWait, Post, Finish, world
  <2>3. QED
    BY <1>1, <2>1, <2>2 DEF ThreadStep
<1>2. TimerRequest \/ UNCHANGED vars => given' = given
  BY DEF TimerRequest, vars
<1>3. \A c \in Client : RecvRequest(c) \/ CallRequest(c) \/ PacketRequest(c) => given' = given
  BY DEF RecvRequest, CallRequest, PacketRequest, Accept
<1>4. QED
  BY <1>1, <1>2, <1>3 DEF Next

\* Every step is one of the packet queue, or leaves the socket's packets alone.
LEMMA PacketStep ==
  ASSUME IInv, IInv', [Next]_vars, NEW c \in Client
  PROVE  Socket(c)!Next \/ UNCHANGED <<arrived[c], given[c]>>
<1>0. Base /\ DataOk /\ SocketOk(c)
  BY DEF IInv, Base, SocketsOk
<1>1. /\ given[c] \in Seq(Int) /\ Len(given[c]) \in Nat /\ arrived[c] \in Nat
      /\ Msgs(c) \in 0 .. MBOXSLOTS /\ MBOXSLOTS \in Nat /\ QUEUE_SIZE \in Nat
      /\ Len(given[c]) + Msgs(c) <= arrived[c]
  BY GivenRange, Sized DEF Sizes
<1>2. ASSUME PacketRequest(c)
      PROVE  Socket(c)!Take
  <2>1. /\ given' = given /\ mboxes' = mboxes
        /\ arrived' = [arrived EXCEPT ![c] = arrived[c] + 1]
    BY <1>2 DEF PacketRequest, Accept
  <2>2. arrived'[c] = arrived[c] + 1
    BY <2>1, <1>0 DEF DataOk
  <2>3. PICK lo : lo = Last(c)
    OBVIOUS
  <2>4. lo = Len(given[c]) + Msgs(c) /\ lo \in Nat /\ Last(c)' = lo
    BY <2>1, <2>3, <1>1 DEF Last, Msgs
  <2>5. PICK f : f = [b \in Buffer |-> args'[b].pkt]
    OBVIOUS
  <2>6. PICK hi, l, n, a : hi = a + 1 /\ l = Len(given[c]) /\ n = Msgs(c) /\ a = arrived[c]
    OBVIOUS
  <2>7. \A i \in lo + 1 .. hi : \E b \in Buffer : f[b] = i
    <3>1. \A i \in Last(c)' + 1 .. arrived'[c] : \E b \in Poster(c)' : args'[b].pkt = i
      BY DEF IInv, SocketsOk, SocketOk, PostersOk
    <3>2. Poster(c)' \subseteq Buffer
      BY DEF Poster
    <3>3. QED
      BY <3>1, <3>2, <2>2, <2>4, <2>5, <2>6
  <2>8. hi - lo <= QUEUE_SIZE
    <3>1. lo \in Nat /\ hi \in Nat
      BY <2>4, <2>6, <1>1
    <3>2. QED
      BY <3>1, <2>7, OneBufferEach
  <2>9. arrived[c] - Len(given[c]) < MBOXSLOTS + QUEUE_SIZE
    <3>1. /\ a \in Nat /\ l \in Nat /\ n \in 0 .. MBOXSLOTS /\ MBOXSLOTS \in Nat
          /\ QUEUE_SIZE \in Nat
      BY <2>6, <1>1
    <3>2. lo = l + n /\ hi = a + 1
      BY <2>4, <2>6
    <3>3. a - l < MBOXSLOTS + QUEUE_SIZE
      BY <3>1, <3>2, <2>8
    <3>4. QED
      BY <3>3, <2>6
  <2>10. QED
    BY <2>1, <2>2, <2>9 DEF Socket!Take
<1>3. ASSUME NEW t \in Thread, Fetch(t), given'[c] # given[c]
      PROVE  Socket(c)!Deliver
  <2>1. arrived' = arrived
    BY <1>3 DEF Fetch
  <2>2. PICK m : m = Mail(t)
    OBVIOUS
  <2>3. /\ m \in Mbox /\ Gives(m)
        /\ \/ given' = given
           \/ m \in Client /\ given' = [given EXCEPT ![m] = Append(given[m], First(m))]
    BY <2>2, <1>0, <1>3, FetchDoes
  <2>4. m = c /\ given'[c] = Append(given[c], First(c))
    BY <2>3, <1>0, <1>3 DEF DataOk
  <2>5. PICK s, k, v : s = given[c] /\ k = Len(given[c]) /\ v = First(c)
    OBVIOUS
  <2>6. given'[c] = Append(s, v) /\ Len(Append(s, v)) = k + 1 /\ Append(s, v)[k + 1] = v
    BY <2>4, <2>5, <1>1
  <2>7. v = k + 1
    <3>1. \A i \in 1 .. Len(given'[c]) : given'[c][i] = i
      BY DEF IInv, SocketsOk, SocketOk, GivenOk
    <3>2. k + 1 \in 1 .. k + 1
      BY <2>5, <1>1
    <3>3. QED
      BY <3>1, <3>2, <2>6
  <2>8. Len(given[c]) < arrived[c]
    <3>1. Msgs(c) > 0
      BY <2>3, <2>4, <1>0, GivesCount
    <3>2. QED
      BY <3>1, <1>1
  <2>9. QED
    BY <2>1, <2>5, <2>6, <2>7, <2>8 DEF Socket!Deliver
<1>4. arrived'[c] = arrived[c] \/ PacketRequest(c)
  <2>1. \A d \in Client \ {c} : PacketRequest(d) => arrived'[c] = arrived[c]
    BY <1>0 DEF PacketRequest, DataOk
  <2>2. QED
    BY <2>1, ArrivedBy
<1>5. given'[c] = given[c] \/ \E t \in Thread : Fetch(t)
  BY GivenBy
<1>6. CASE PacketRequest(c)
  BY <1>2, <1>6 DEF Socket!Next
<1>7. CASE given'[c] # given[c]
  BY <1>3, <1>5, <1>7 DEF Socket!Next
<1>8. CASE arrived'[c] = arrived[c] /\ given'[c] = given[c]
  BY <1>8
<1>9. QED
  BY <1>4, <1>6, <1>7, <1>8

\* A client gets the packets of its socket once each and in the order of their arrival.
THEOREM AlwaysPacketsInOrder == Spec => PacketsInOrder
<1>1. Init => \A c \in Client : Socket(c)!Init
  BY DEF Init, Socket!Init
<1>2. IInv /\ IInv' /\ [Next]_vars =>
        [\A c \in Client : Socket(c)!Next \/ UNCHANGED <<arrived[c], given[c]>>
        ]_<<arrived, given>>
  BY PacketStep
<1>3. QED
  BY <1>1, <1>2, AlwaysIInv, PTL DEF Spec, PacketsInOrder

-----------------------------------------------------------------------------
(* The buffers are enough. *)

\* As many packets may wait as leave a buffer for each client and one for main.
EnoughBuffers ==
  /\ Cardinality(Client) < QUEUE_SIZE
  /\ Cardinality(Client) + MaxHeld - MBOXSLOTS < QUEUE_SIZE

\* So many wait.
FewHeld == Cardinality(Held) <= MaxHeld

\* The packets are finitely many.
LEMMA FiniteHeld == IsFiniteSet(Held) /\ IsFiniteSet(Client \X (1 .. MaxPkts))
<1>1. IsFiniteSet(Client \X (1 .. MaxPkts))
  <2>1. IsFiniteSet(1 .. MaxPkts)
    BY Sized, FS_Interval DEF Sizes
  <2>2. QED
    BY <2>1, Sized, FS_Product
<1>2. Held \subseteq Client \X (1 .. MaxPkts)
  BY DEF Held, Arrived
<1>3. QED
  BY <1>1, <1>2, FS_Subset

\* A step lets one packet arrive, or none; what has been received stays so.
LEMMA HeldStep ==
  ASSUME Base, [Next]_vars
  PROVE  /\ \/ arrived' = arrived
            \/ \E c \in Client : /\ arrived' = [arrived EXCEPT ![c] = arrived[c] + 1]
                                 /\ Cardinality(Held) < MaxHeld
         /\ \A c \in Client : Len(given'[c]) >= Len(given[c]) /\ Len(given'[c]) \in Nat
<1>0. DataOk /\ given \in [Client -> Seq(Int)]
  BY DEF Base, DataOk
<1>1. ASSUME NEW t \in Thread, Fetch(t)
      PROVE  \A c \in Client : Len(given'[c]) >= Len(given[c]) /\ Len(given'[c]) \in Nat
  <2>1. PICK m : m = Mail(t)
    OBVIOUS
  <2>2. \/ given' = given
        \/ m \in Client /\ given' = [given EXCEPT ![m] = Append(given[m], First(m))]
    BY <2>1, <1>1, FetchDoes
  <2>3. TAKE c \in Client
  <2>4. given[c] \in Seq(Int) /\ Len(given[c]) \in Nat
    BY <1>0
  <2>5. CASE given'[c] = given[c]
    BY <2>4, <2>5
  <2>6. CASE given'[c] # given[c]
    <3>1. given'[c] = Append(given[c], First(c))
      BY <2>2, <2>6, <1>0
    <3>2. Len(Append(given[c], First(c))) = Len(given[c]) + 1
      BY <2>4
    <3>3. QED
      BY <2>4, <3>1, <3>2
  <2>7. QED
    BY <2>5, <2>6
<1>2. given' = given \/ \E t \in Thread : Fetch(t)
  BY GivenBy
<1>3. \A c \in Client : Len(given'[c]) >= Len(given[c]) /\ Len(given'[c]) \in Nat
  <2>1. CASE given' = given
    BY <2>1, <1>0
  <2>2. QED
    BY <2>1, <1>1, <1>2
<1>4. \/ arrived' = arrived
      \/ \E c \in Client : /\ arrived' = [arrived EXCEPT ![c] = arrived[c] + 1]
                           /\ Cardinality(Held) < MaxHeld
  <2>1. \A c \in Client : PacketRequest(c) =>
          arrived' = [arrived EXCEPT ![c] = arrived[c] + 1] /\ Cardinality(Held) < MaxHeld
    BY DEF PacketRequest
  <2>2. QED
    BY <2>1, ArrivedBy
<1>5. QED
  BY <1>3, <1>4

\* A packet arrives only while fewer than MaxHeld are held.
LEMMA NextFewHeld ==
  ASSUME Base, FewHeld, [Next]_vars
  PROVE  FewHeld'
<1>0. /\ IsFiniteSet(Held) /\ Cardinality(Held) \in Nat /\ MaxHeld \in Nat
      /\ given \in [Client -> Seq(Int)] /\ arrived \in [Client -> 0 .. MaxPkts] /\ MaxPkts \in Nat
  BY FiniteHeld, FS_CardinalityType, Sized DEF Sizes, Base, DataOk
<1>1. PICK D : D = Held'
  OBVIOUS
<1>2. \A c \in Client : /\ Len(given'[c]) >= Len(given[c]) /\ Len(given[c]) \in Nat
                         /\ Len(given'[c]) \in Nat
  BY <1>0, HeldStep
<1>3. CASE arrived' = arrived
  <2>1. D \subseteq Held
    <3>1. SUFFICES ASSUME NEW p \in D PROVE p \in Held
      OBVIOUS
    <3>2. p \in Client \X (1 .. MaxPkts) /\ p[2] <= arrived[p[1]] /\ Len(given'[p[1]]) < p[2]
      BY <3>1, <1>1, <1>3 DEF Held, Arrived
    <3>3. p[1] \in Client /\ p[2] \in Int
      BY <3>2
    <3>4. Len(given[p[1]]) < p[2]
      <4>1. PICK l, n, i : l = Len(given[p[1]]) /\ n = Len(given'[p[1]]) /\ i = p[2]
        OBVIOUS
      <4>2. l \in Nat /\ n >= l /\ n < i /\ i \in Int /\ n \in Nat
        BY <3>2, <3>3, <4>1, <1>2
      <4>3. QED
        BY <4>1, <4>2
    <3>5. QED
      BY <3>2, <3>4 DEF Held, Arrived
  <2>2. Cardinality(D) <= Cardinality(Held) /\ IsFiniteSet(D)
    BY <2>1, <1>0, FS_Subset
  <2>3. QED
    BY <2>2, <1>0, <1>1, FS_CardinalityType DEF FewHeld
<1>4. ASSUME NEW c \in Client, arrived' = [arrived EXCEPT ![c] = arrived[c] + 1],
             Cardinality(Held) < MaxHeld
      PROVE  FewHeld'
  <2>1. PICK E : E = Held \cup {<<c, arrived[c] + 1>>}
    OBVIOUS
  <2>2. D \subseteq E
    <3>1. SUFFICES ASSUME NEW p \in D PROVE p \in E
      OBVIOUS
    <3>2. p \in Client \X (1 .. MaxPkts) /\ p[2] <= arrived'[p[1]] /\ Len(given'[p[1]]) < p[2]
      BY <3>1, <1>1 DEF Held, Arrived
    <3>3. p[1] \in Client /\ p[2] \in Int /\ p = <<p[1], p[2]>>
      BY <3>2
    <3>4. Len(given[p[1]]) < p[2]
      <4>1. PICK l, n, i : l = Len(given[p[1]]) /\ n = Len(given'[p[1]]) /\ i = p[2]
        OBVIOUS
      <4>2. l \in Nat /\ n >= l /\ n < i /\ i \in Int /\ n \in Nat
        BY <3>2, <3>3, <4>1, <1>2
      <4>3. QED
        BY <4>1, <4>2
    <3>5. p[2] <= arrived[p[1]] \/ (p[1] = c /\ p[2] = arrived[c] + 1)
      BY <3>2, <3>3, <1>0, <1>4
    <3>6. CASE p[2] <= arrived[p[1]]
      <4>1. p \in Held
        BY <3>2, <3>4, <3>6 DEF Held, Arrived
      <4>2. QED
        BY <4>1, <2>1
    <3>7. CASE p[1] = c /\ p[2] = arrived[c] + 1
      <4>1. p = <<c, arrived[c] + 1>>
        BY <3>3, <3>7
      <4>2. QED
        BY <4>1, <2>1
    <3>8. QED
      BY <3>5, <3>6, <3>7
  <2>3. IsFiniteSet(E) /\ Cardinality(E) <= Cardinality(Held) + 1
    <3>1. PICK x, S : x = <<c, arrived[c] + 1>> /\ S = Held
      OBVIOUS
    <3>2. IsFiniteSet(S \cup {x})
      BY <1>0, <3>1, FS_AddElement
    <3>3. Cardinality(S \cup {x}) = IF x \in S THEN Cardinality(S) ELSE Cardinality(S) + 1
      BY <1>0, <3>1, FS_AddElement
    <3>4. QED
      BY <1>0, <2>1, <3>1, <3>2, <3>3
  <2>4. Cardinality(D) <= Cardinality(E) /\ IsFiniteSet(D)
    BY <2>2, <2>3, FS_Subset
  <2>5. Cardinality(D) \in Nat /\ Cardinality(E) \in Nat
    BY <2>3, <2>4, FS_CardinalityType
  <2>6. QED
    BY <2>3, <2>4, <2>5, <1>0, <1>1, <1>4 DEF FewHeld
<1>5. QED
  BY <1>3, <1>4, HeldStep

\* Before the first packet.
LEMMA InitFewHeld == Init => FewHeld
<1> SUFFICES ASSUME Init PROVE FewHeld
  OBVIOUS
<1>1. \A c \in Client : arrived[c] = 0
  BY DEF Init
<1>2. Held = {}
  <2>1. ASSUME NEW p \in Held PROVE FALSE
    <3>1. p[1] \in Client /\ p[2] \in 1 .. MaxPkts /\ p[2] <= arrived[p[1]]
      BY DEF Held, Arrived
    <3>2. arrived[p[1]] = 0
      BY <3>1, <1>1
    <3>3. QED
      BY <3>1, <3>2
  <2>2. QED
    BY <2>1
<1>3. Cardinality(Held) = 0
  BY <1>2, FS_EmptySet
<1>4. QED
  BY <1>3, Sized DEF FewHeld, Sizes

\* The threads of the set S that serve clients of the set C are not more than C.
LEMMA ServersFew ==
  ASSUME Base, NEW C \in SUBSET Client, IsFiniteSet(C), NEW S \in SUBSET Buffer,
         \A b \in S : args[b] \in Recvs \cup Calls /\ args[b].client \in C
  PROVE  IsFiniteSet(S) /\ Cardinality(S) <= Cardinality(C)
<1>1. PICK f : f = [b \in S |-> args[b].client]
  OBVIOUS
<1>2. f \in [S -> C]
  BY <1>1
<1>3. ASSUME NEW b \in S, NEW d \in S, f[b] = f[d]
      PROVE  b = d
  <2>1. PICK c : c = args[b].client
    OBVIOUS
  <2>2. c \in Client /\ args[d].client = c
    BY <1>1, <1>3, <2>1
  <2>3. b \in Server(c) /\ d \in Server(c)
    BY <2>1, <2>2 DEF Server
  <2>4. QED
    BY <2>2, <2>3 DEF Base, ClientOk
<1>4. f \in Injection(S, C)
  BY <1>2, <1>3 DEF Injection, IsInjective
<1>5. QED
  BY <1>4, FS_Injection

\* The posters of the set S and the packets in the mailbox of c are not more than the
\* packets that are held.
LEMMA PostersFew ==
  ASSUME IInv, NEW c \in Client, NEW S \in SUBSET Buffer,
         \A b \in S : args[b] \in Inputs /\ th[b].pc = "post"
  PROVE  /\ IsFiniteSet(S) /\ Cardinality(S) \in Nat
         /\ Cardinality(S) + Msgs(c) <= Cardinality(Held)
<1>0. \A k \in Client : /\ given[k] \in Seq(Int) /\ Len(given[k]) \in Nat
                        /\ Msgs(k) \in Nat /\ Len(given[k]) + Msgs(k) = Last(k)
                        /\ Last(k) <= arrived[k] /\ arrived[k] \in Nat
                        /\ arrived[k] <= MaxPkts /\ MaxPkts \in Nat
  BY GivenRange
<1>1. PICK R, I, l, n : /\ l = Len(given[c]) /\ n = Last(c) /\ I = l + 1 .. n
                        /\ R = {<<c, i>> : i \in I}
  OBVIOUS
<1>2. l \in Nat /\ n \in Nat /\ n = l + Msgs(c) /\ Msgs(c) \in Nat
  BY <1>0, <1>1
<1>3. R \subseteq Held
  <2>1. SUFFICES ASSUME NEW i \in I PROVE <<c, i>> \in Held
    BY <1>1
  <2>2. i \in 1 .. MaxPkts /\ i <= arrived[c] /\ l < i
    BY <1>0, <1>1, <1>2
  <2>3. QED
    BY <2>2, <1>1 DEF Held, Arrived
<1>4. IsFiniteSet(Held) /\ IsFiniteSet(R)
  BY <1>3, FiniteHeld, FS_Subset
<1>5. Cardinality(R) >= Msgs(c)
  <2>1. PICK g : g = [i \in I |-> <<c, i>>]
    OBVIOUS
  <2>2. g \in Injection(I, R)
    BY <2>1, <1>1 DEF Injection, IsInjective
  <2>3. Cardinality(I) <= Cardinality(R)
    BY <2>2, <1>4, FS_Injection
  <2>4. Cardinality(I) = Msgs(c)
    <3>1. l + 1 \in Int /\ n \in Int
      BY <1>2
    <3>2. Cardinality(l + 1 .. n) = IF l + 1 > n THEN 0 ELSE n - (l + 1) + 1
      BY <3>1, FS_Interval
    <3>3. QED
      BY <3>2, <1>1, <1>2
  <2>5. Cardinality(R) \in Nat
    BY <1>4, FS_CardinalityType
  <2>6. QED
    BY <2>3, <2>4, <2>5, <1>2
<1>6. PICK D : D = Held \ R
  OBVIOUS
<1>7. IsFiniteSet(D) /\ Cardinality(D) = Cardinality(Held) - Cardinality(R)
  <2>1. PICK H, A : H = Held /\ A = H \cap R
    OBVIOUS
  <2>2. A = R
    BY <2>1, <1>3
  <2>3. IsFiniteSet(H \ R) /\ Cardinality(H \ R) = Cardinality(H) - Cardinality(H \cap R)
    BY <2>1, <1>4, FS_Difference
  <2>4. QED
    BY <2>1, <2>2, <2>3, <1>6
<1>8. PICK f : f = [b \in S |-> <<args[b].client, args[b].pkt>>]
  OBVIOUS
<1>9. ASSUME NEW b \in S
      PROVE  /\ args[b].client \in Client /\ b \in Poster(args[b].client)
             /\ args[b].pkt \in Last(args[b].client) + 1 .. arrived[args[b].client]
  <2>1. args[b].client \in Client
    BY DEF Inputs
  <2>2. PICK k : k = args[b].client
    OBVIOUS
  <2>3. b \in Poster(k)
    BY <2>2 DEF Poster
  <2>4. PostersOk(k)
    BY <2>1, <2>2 DEF IInv, SocketsOk, SocketOk
  <2>5. QED
    BY <2>1, <2>2, <2>3, <2>4 DEF PostersOk
<1>10. f \in [S -> D]
  <2>1. SUFFICES ASSUME NEW b \in S
                 PROVE  <<args[b].client, args[b].pkt>> \in D
    BY <1>8
  <2>2. PICK k, i : k = args[b].client /\ i = args[b].pkt
    OBVIOUS
  <2>3. k \in Client /\ i \in Last(k) + 1 .. arrived[k]
    BY <2>2, <1>9
  <2>4. i \in 1 .. MaxPkts /\ i <= arrived[k] /\ Len(given[k]) < i /\ i > Last(k)
    BY <2>3, <1>0
  <2>5. <<k, i>> \in Held
    BY <2>3, <2>4 DEF Held, Arrived
  <2>6. <<k, i>> \notin R
    <3>1. SUFFICES ASSUME NEW j \in I, <<k, i>> = <<c, j>> PROVE FALSE
      BY <1>1
    <3>2. k = c /\ i = j /\ j \in l + 1 .. n /\ n = Last(c)
      BY <3>1, <1>1
    <3>3. QED
      BY <3>2, <2>4, <1>2
  <2>7. QED
    BY <2>2, <2>5, <2>6, <1>6
<1>11. ASSUME NEW b \in S, NEW d \in S, f[b] = f[d]
       PROVE  b = d
  <2>1. PICK k : k = args[b].client
    OBVIOUS
  <2>2. k \in Client /\ args[d].client = k /\ args[b].pkt = args[d].pkt
    BY <2>1, <1>8, <1>9, <1>11
  <2>3. b \in Poster(k) /\ d \in Poster(k)
    BY <2>1, <2>2, <1>9
  <2>4. SortedOk(k)
    BY <2>2 DEF IInv, SocketsOk, SocketOk
  <2>5. QED
    BY <2>2, <2>3, <2>4 DEF SortedOk
<1>12. f \in Injection(S, D)
  BY <1>10, <1>11 DEF Injection, IsInjective
<1>13. IsFiniteSet(S) /\ Cardinality(S) <= Cardinality(D)
  BY <1>7, <1>12, FS_Injection
<1>14. /\ Cardinality(S) \in Nat /\ Cardinality(D) \in Nat /\ Cardinality(R) \in Nat
       /\ Cardinality(Held) \in Nat
  BY <1>4, <1>7, <1>13, FS_CardinalityType
<1>15. QED
  BY <1>2, <1>5, <1>7, <1>13, <1>14

\* When main wants to receive and no buffer is free, every buffer has a poster that
\* waits for a slot or a thread that serves a client.
LEMMA AllTaken ==
  ASSUME IInv, cur = Main, th[Main].pc = "flush", FreeBuffers = {}, NEW b \in Buffer
  PROVE  /\ \/ args[b] \in Inputs /\ th[b].pc = "post"
            \/ args[b] \in Recvs \cup Calls /\ th[b].pc # "done"
         /\ Ran(b)
<1>0. Base
  BY DEF IInv
<1>1. buse[b] /\ main.va = 0 /\ b # 0
  BY <1>0, Threads DEF FreeBuffers, Base, BufOk, DataOk, Main
<1>2. th[b].pc # "none" /\ b \in Thread /\ b # Main
  BY <1>0, <1>1, Threads DEF Base, BufOk
<1>3. ~Running(b)
  BY <1>0, <1>2 DEF Base, PcOk
<1>4. th[b].pc \notin {"put", "done"}
  BY <1>3 DEF Running, PollPoints
<1>5. b \in Live /\ Main \in Live
  BY <1>2, Threads DEF Live
<1>6. Place(Main) = 0 /\ Place(b) \in Nat /\ Place(b) # 0
  BY <1>0, <1>2, <1>5, PlaceRange DEF Base, LineOk, Place
<1>7. Ran(b)
  BY <1>6 DEF Ran
<1>8. QED
  BY <1>0, <1>2, <1>4, <1>7 DEF Base, PcOk

\* When main wants to receive there is a buffer.  Otherwise every buffer has a poster or
\* a server.  Without a poster there are as many clients as buffers.  With one, its
\* mailbox is full, or has one free slot and its client is being answered: so many
\* packets are held by no poster, and the rest and the clients are fewer than the
\* buffers.
LEMMA BufferLeft ==
  ASSUME EnoughBuffers, IInv, FewHeld, cur = Main, th[Main].pc = "flush"
  PROVE  FreeBuffers # {}
<1> SUFFICES ASSUME FreeBuffers = {} PROVE FALSE
  OBVIOUS
<1>0. Base /\ SocketsOk
  BY DEF IInv
<1>1. PICK P, V : /\ P = {b \in Buffer : args[b] \in Inputs /\ th[b].pc = "post"}
                  /\ V = {b \in Buffer : args[b] \in Recvs \cup Calls}
  OBVIOUS
<1>2. Buffer = P \cup V
  BY <1>1, AllTaken
<1>3. /\ Cardinality(Buffer) = QUEUE_SIZE /\ QUEUE_SIZE \in Nat /\ MBOXSLOTS \in Nat
      /\ MaxHeld \in Nat
  <2>1. QUEUE_SIZE \in Nat \ {0} /\ MBOXSLOTS \in Nat /\ MaxHeld \in Nat
    BY Sized DEF Sizes
  <2>2. 1 \in Int /\ QUEUE_SIZE \in Int /\ ~(1 > QUEUE_SIZE)
    BY <2>1
  <2>3. Cardinality(1 .. QUEUE_SIZE) = IF 1 > QUEUE_SIZE THEN 0 ELSE QUEUE_SIZE - 1 + 1
    BY <2>2, FS_Interval
  <2>4. QED
    BY <2>1, <2>2, <2>3 DEF Buffer
<1>4. ASSUME NEW C \in SUBSET Client, \A b \in V : args[b].client \in C
      PROVE  IsFiniteSet(V) /\ Cardinality(V) <= Cardinality(C)
  <2>1. IsFiniteSet(C)
    BY Sized, FS_Subset
  <2>2. V \in SUBSET Buffer /\ \A b \in V : args[b] \in Recvs \cup Calls
    BY <1>1
  <2>3. QED
    BY <2>1, <2>2, <1>0, <1>4, ServersFew
<1>5. \A b \in V : args[b].client \in Client
  BY <1>1 DEF Recvs, Calls
<1>6. IsFiniteSet(V) /\ Cardinality(V) <= Cardinality(Client)
  BY <1>4, <1>5
<1>7. Cardinality(V) \in Nat /\ Cardinality(Client) \in Nat
  BY <1>6, Sized, FS_CardinalityType
<1>8. CASE P = {}
  <2>1. V = Buffer
    BY <1>2, <1>8
  <2>2. QED
    BY <2>1, <1>3, <1>6, <1>7 DEF EnoughBuffers
<1>9. CASE P # {}
  <2>1. PICK b : b \in P
    BY <1>9
  <2>2. b \in Buffer /\ args[b] \in Inputs /\ th[b].pc = "post"
    BY <1>1, <2>1
  <2>3. PICK c : c = args[b].client
    OBVIOUS
  <2>4. c \in Client /\ b \in Poster(c) /\ Ran(b)
    BY <2>2, <2>3, AllTaken DEF Poster, Inputs
  <2>5. \/ sems[<<c, "free">>].counter = 0
        \/ Msgs(c) = MBOXSLOTS - 1 /\ \A d \in Server(c) : th[d].pc = "done"
    BY <2>4, <1>0 DEF SocketsOk, SocketOk, RanPostOk
  <2>6. /\ IsFiniteSet(P) /\ Cardinality(P) \in Nat
        /\ Cardinality(P) + Msgs(c) <= Cardinality(Held)
    <3>1. P \in SUBSET Buffer /\ \A d \in P : args[d] \in Inputs /\ th[d].pc = "post"
      BY <1>1
    <3>2. QED
      BY <3>1, <2>4, PostersFew
  <2>7. Cardinality(Held) \in Nat /\ Cardinality(Held) <= MaxHeld
    BY FiniteHeld, FS_CardinalityType DEF FewHeld
  <2>8. QUEUE_SIZE <= Cardinality(P) + Cardinality(V)
    <3>1. PICK B : B = P \cap V
      OBVIOUS
    <3>2. Cardinality(P \cup V) = Cardinality(P) + Cardinality(V) - Cardinality(P \cap V)
      BY <1>6, <2>6, FS_Union
    <3>3. Cardinality(B) \in Nat
      <4>1. B \in SUBSET V
        BY <3>1
      <4>2. IsFiniteSet(B)
        BY <4>1, <1>6, FS_Subset
      <4>3. QED
        BY <4>2, FS_CardinalityType
    <3>4. QED
      BY <3>1, <3>2, <3>3, <1>2, <1>3, <1>7, <2>6
  <2>9. CASE sems[<<c, "free">>].counter = 0
    <3>1. ~Putting(c)
      <4>1. th[cur].pc = "flush"
        OBVIOUS
      <4>2. QED
        BY <4>1 DEF Putting
    <3>2. Msgs(c) \in Nat
      BY <2>4, GivenRange
    <3>3. sems[<<c, "free">>].counter = MBOXSLOTS - Msgs(c) - 0
      <4>1. c \in Mbox
        BY <2>4, Threads
      <4>2. QED
        BY <4>1, <3>1, <1>0 DEF Base, CountOk
    <3>4. Msgs(c) = MBOXSLOTS
      <4>1. PICK n : n = Msgs(c)
        OBVIOUS
      <4>2. n \in Nat /\ MBOXSLOTS - n - 0 = 0
        BY <4>1, <3>2, <3>3, <2>9
      <4>3. QED
        BY <4>1, <4>2, <1>3
    <3>5. QED
      BY <3>4, <2>6, <2>7, <2>8, <1>3, <1>6, <1>7 DEF EnoughBuffers
  <2>10. CASE Msgs(c) = MBOXSLOTS - 1 /\ \A d \in Server(c) : th[d].pc = "done"
    <3>1. Server(c) = {}
      <4>1. SUFFICES ASSUME NEW d \in Server(c) PROVE FALSE
        OBVIOUS
      <4>2. d \in Buffer /\ args[d] \in Recvs \cup Calls /\ th[d].pc = "done"
        BY <2>10 DEF Server
      <4>3. args[d] \notin Inputs
        BY <4>2 DEF Inputs, Recvs, Calls
      <4>4. QED
        BY <4>2, <4>3, AllTaken
    <3>2. \A d \in V : args[d].client \in Client \ {c}
      BY <3>1, <1>1, <1>5 DEF Server
    <3>3. Cardinality(V) <= Cardinality(Client \ {c})
      BY <3>2, <1>4
    <3>4. Cardinality(Client \ {c}) = Cardinality(Client) - 1
      <4>1. Cardinality(Client \ {c})
              = IF c \in Client THEN Cardinality(Client) - 1 ELSE Cardinality(Client)
        BY Sized, FS_RemoveElement
      <4>2. QED
        BY <4>1, <2>4
    <3>5. QED
      BY <3>3, <3>4, <2>6, <2>7, <2>8, <2>10, <1>3, <1>7 DEF EnoughBuffers
  <2>11. QED
    BY <2>5, <2>9, <2>10
<1>10. QED
  BY <1>8, <1>9

\* The other threads never panic, and main only without a free buffer.
LEMMA NextNoPanic ==
  ASSUME EnoughBuffers, IInv, IInv', FewHeld, NoPanic, [Next]_vars
  PROVE  NoPanic'
<1>0. /\ Base /\ DataOk /\ PcOk /\ PcOk' /\ WaitOk /\ BufOk
      /\ Main \in Thread /\ th[Main].pc # "panic"
  BY Threads DEF IInv, Base, NoPanic
<1>1. \A t \in Thread \ {Main} : th'[t].pc # "panic"
  BY <1>0, Threads DEF PcOk
<1>2. ASSUME Listen
      PROVE  th'[Main].pc # "panic"
  <2>1. FreeBuffers # {}
    BY <1>2, BufferLeft DEF Listen
  <2>2. th' = [th EXCEPT ![Main].pc = "recv"]
    BY <1>2, <2>1 DEF Listen
  <2>3. QED
    BY <2>2, <1>0 DEF DataOk, Contexts
<1>3. ASSUME NEW pc \in {"flush", "recv", "timer"}, th' = [th EXCEPT ![Main].pc = pc]
      PROVE  th'[Main].pc # "panic"
  BY <1>0, <1>3 DEF DataOk, Contexts
<1>4. ASSUME NEW t \in Thread, SemWait(t)
      PROVE  th'[Main].pc # "panic"
  <2>1. t # Main
    BY <1>0, <1>4 DEF SemWait, PcOk, PollPoints
  <2>2. \/ Acquires(t, WaitsFor(t)) /\ Goes(t, After(th[t].pc))
        \/ Blocks(t, WaitsFor(t))
    BY <1>0, <1>4, SemWaitDoes
  <2>3. th'[Main].pc = th[Main].pc
    BY <2>1, <2>2, <1>0 DEF Goes, Blocks
  <2>4. QED
    BY <2>3, <1>0
<1>5. ASSUME NEW t \in Thread, NEW pc, t # Main, Goes(t, pc)
      PROVE  th'[Main].pc # "panic"
  BY <1>0, <1>5 DEF Goes
<1>6. ASSUME NEW t \in Thread, Post(t) \/ Fetch(t) \/ Finish(t)
      PROVE  th'[Main].pc # "panic"
  <2>1. t # Main /\ \E pc \in {"done", "op", "call", "none"} : Goes(t, pc)
    BY <1>0, <1>6, PostDoes, FetchDoes, FinishDoes, Threads
  <2>2. QED
    BY <2>1, <1>5
<1>7. ASSUME TcpipCall
      PROVE  th'[Main].pc # "panic"
  BY <1>0, <1>5, <1>7, TcpipCallDoes, Threads
<1>8. ASSUME NEW req, NEW pc, Accept(req, pc)
      PROVE  th'[Main].pc # "panic"
  <2>1. PICK b : b = main.va
    OBVIOUS
  <2>2. b # Main
    BY <2>1, <1>0, <1>8 DEF Accept, BufOk, Main
  <2>3. th' = [th EXCEPT ![Main].pc = "flush", ![b] = Awake(pc)]
    BY <2>1, <1>8 DEF Accept
  <2>4. th[Main] \in Contexts /\ th \in [Thread -> Contexts]
    BY <1>0 DEF DataOk
  <2>5. th'[Main] = [th[Main] EXCEPT !.pc = "flush"]
    BY <2>2, <2>3, <2>4, <1>0
  <2>6. QED
    BY <2>4, <2>5 DEF Contexts
<1>9. ASSUME NEW c \in Client, RecvRequest(c) \/ CallRequest(c) \/ PacketRequest(c)
      PROVE  th'[Main].pc # "panic"
  BY <1>8, <1>9 DEF RecvRequest, CallRequest, PacketRequest
<1>10. th'[Main].pc # "panic"
  <2>1. ASSUME Flush \/ UNCHANGED vars
        PROVE  th' = th
    BY <2>1 DEF Flush, vars
  <2>2. ASSUME TimerReply \/ TimerRequest
        PROVE  \E pc \in {"flush", "timer"} : th' = [th EXCEPT ![Main].pc = pc]
    BY <2>2 DEF TimerReply, TimerRequest
  <2>3. QED
    BY <2>1, <2>2, <1>0, <1>2, <1>3, <1>4, <1>6, <1>7, <1>9 DEF Next, ThreadStep
<1>11. QED
  BY <1>1, <1>10 DEF NoPanic

\* With buffers enough no thread panics, and get_buffer finds a buffer for every
\* request: the threads that wait for a slot hold one packet each, and when a mailbox is
\* full the packets in it leave so many fewer to them.
THEOREM AlwaysNoPanic ==
  ASSUME EnoughBuffers
  PROVE  Spec => []NoPanic
<1>1. Init => FewHeld /\ NoPanic
  BY InitFewHeld, InitBase, Threads DEF NoPanic, Init, Awake
<1>2. IInv /\ IInv' /\ FewHeld /\ NoPanic /\ [Next]_vars => FewHeld' /\ NoPanic'
  BY NextFewHeld, NextNoPanic DEF IInv
<1>3. QED
  BY <1>1, <1>2, AlwaysIInv, PTL DEF Spec

-----------------------------------------------------------------------------
(* Calls: one at a time. *)

\* The threads that serve a call.
Calling == {b \in Buffer : args[b] \in Calls}

\* Where the call of thread b is, once it has been posted: in the mailbox of the tcpip
\* thread, in its hands, or answered by op_completed.
OpCount(c) == sems[<<c, "op">>].counter
NoCall == Msgs(Tcpip) = 0 /\ th[Tcpip].pc = "fetch" /\ \A c \in Client : OpCount(c) = 0
Posted(b) ==
  /\ Msgs(Tcpip) = 1 /\ th[Tcpip].pc \in {"fetch", "get"} /\ First(Tcpip) = b
  /\ \A c \in Client : OpCount(c) = 0
Called(b) ==
  Msgs(Tcpip) = 0 /\ th[Tcpip].pc = "call" /\ op = b /\ \A c \in Client : OpCount(c) = 0
Replied(b) ==
  /\ Msgs(Tcpip) = 0 /\ th[Tcpip].pc = "fetch"
  /\ \A c \in Client : OpCount(c) = IF c = args[b].client THEN 1 ELSE 0

\* There is one call at most, and it is in one of these places.
CallOk ==
  /\ \A b, d \in Calling : b = d
  /\ \A b \in Calling : th[b].pc = "op" => Posted(b) \/ Called(b) \/ Replied(b)
  /\ (\A b \in Calling : th[b].pc # "op") => NoCall

\* A step that leaves the call where it is.
CallSame ==
  /\ Calling' = Calling
  /\ \A b \in Calling : args'[b] = args[b] /\ (th'[b].pc = "op" <=> th[b].pc = "op")
  /\ th'[Tcpip].pc = th[Tcpip].pc /\ mboxes'[Tcpip] = mboxes[Tcpip] /\ op' = op
  /\ \A c \in Client : sems'[<<c, "op">>].counter = sems[<<c, "op">>].counter

\* Then what is said of it stays.
LEMMA StillCall ==
  ASSUME CallOk, CallSame
  PROVE  /\ CallOk'
         /\ \A b \in Calling : /\ Posted(b)' <=> Posted(b)
                               /\ Replied(b)' <=> Replied(b)
<1>1. Msgs(Tcpip)' = Msgs(Tcpip) /\ First(Tcpip)' = First(Tcpip)
  BY DEF CallSame, Msgs, First
<1>2. \A c \in Client : OpCount(c)' = OpCount(c)
  BY DEF CallSame, OpCount
<1>3. NoCall' <=> NoCall
  BY <1>1, <1>2 DEF CallSame, NoCall
<1>4. \A b \in Calling : /\ Posted(b)' <=> Posted(b)
                         /\ Called(b)' <=> Called(b)
                         /\ Replied(b)' <=> Replied(b)
  BY <1>1, <1>2 DEF CallSame, Posted, Called, Replied
<1>5. QED
  BY <1>3, <1>4 DEF CallOk, CallSame

\* A thread that serves a call: what it does, and for whom.
LEMMA CallThreads ==
  ASSUME DataOk, PcOk, NEW b \in Calling
  PROVE  /\ b \in Buffer /\ b \in Thread \ {Main, Tcpip} /\ b \in Int
         /\ args[b] \in Calls /\ args[b].client \in Client
         /\ args[b] \notin Inputs /\ args[b] \notin Recvs
         /\ th[b].pc \in {"callpost", "callput", "op", "done"} /\ b \in Live \ {Main}
<1>1. b \in Buffer /\ args[b] \in Calls
  BY DEF Calling
<1>2. args[b] \notin Inputs /\ args[b] \notin Recvs /\ args[b] # NoReq
      /\ args[b].client \in Client
  BY <1>1 DEF Calls, Inputs, Recvs, NoReq
<1>3. th[b].pc \in {"callpost", "callput", "op", "done"}
  BY <1>1, <1>2 DEF PcOk
<1>4. QED
  BY <1>1, <1>2, <1>3, Threads DEF Live

\* The call that thread t serves, where it waits for op_completed, has been answered
\* when the semaphore is counted.
LEMMA CallAnswered ==
  ASSUME CallOk, DataOk, PcOk, NEW b \in Calling, th[b].pc = "op",
         OpCount(args[b].client) > 0
  PROVE  Replied(b)
<1>1. args[b].client \in Client
  BY CallThreads
<1>2. Posted(b) \/ Called(b) \/ Replied(b)
  BY DEF CallOk
<1>3. QED
  BY <1>1, <1>2 DEF Posted, Called

\* The tcpip thread has a message only from a thread that waits for op_completed.
LEMMA MessageIsCall ==
  ASSUME CallOk, Msgs(Tcpip) # 0 \/ th[Tcpip].pc # "fetch"
  PROVE  \E b \in Calling : /\ th[b].pc = "op"
                            /\ Msgs(Tcpip) # 0 => Posted(b)
                            /\ th[Tcpip].pc = "get" => Posted(b)
                            /\ th[Tcpip].pc = "call" => Called(b)
<1>1. ~NoCall
  BY DEF NoCall
<1>2. PICK b \in Calling : th[b].pc = "op"
  BY <1>1 DEF CallOk
<1>3. Posted(b) \/ Called(b) \/ Replied(b)
  BY <1>2 DEF CallOk
<1>4. QED
  BY <1>2, <1>3 DEF Posted, Called, Replied

\* sys_arch_sem_wait gets its semaphore.
LEMMA AcquireCall ==
  ASSUME Base, CallOk, NEW t \in Thread, SemWait(t), Acquires(t, WaitsFor(t)),
         Goes(t, After(th[t].pc))
  PROVE  /\ CallOk' /\ UNCHANGED <<cur, queue, args, main>>
         /\ t = Tcpip => \E b \in Calling : Posted(b) /\ th[b].pc = "op"
         /\ t # Tcpip /\ ~(t \in Calling /\ th[t].pc = "op") => CallSame
         /\ t \in Calling /\ th[t].pc = "op" => Replied(t) /\ th'[t].pc = "done"
<1>0. DataOk /\ PcOk /\ WaitOk /\ CountOk
  BY DEF Base
<1>1. /\ cur = t /\ th[t].pc \in PollPoints
      /\ UNCHANGED <<cur, queue, mboxes, buse, args, main, op, client>>
  BY DEF SemWait, Acquires, world
<1>2. t # Main
  BY <1>0, <1>1 DEF PcOk, PollPoints
<1>3. /\ \A x \in Thread \ {t} : th'[x].pc = th[x].pc
      /\ th'[t].pc = After(th[t].pc)
  BY DEF Goes
<1>4. Calling' = Calling /\ \A b \in Buffer : args'[b] = args[b]
  BY <1>1 DEF Calling
<1>5. \A s \in Sem : s # WaitsFor(t) => sems'[s] = sems[s]
  BY DEF Acquires
<1>6. Msgs(Tcpip)' = Msgs(Tcpip) /\ First(Tcpip)' = First(Tcpip)
  BY <1>1 DEF Msgs, First
<1>7. CASE t = Tcpip
  <2>1. th[t].pc = "fetch" /\ WaitsFor(t) = <<Tcpip, "queued">>
    BY <1>0, <1>1, <1>7 DEF PcOk, PollPoints, WaitsFor, Mail
  <2>2. sems[<<Tcpip, "queued">>].counter > 0
    BY <2>1 DEF Acquires
  <2>3. Msgs(Tcpip) # 0
    <3>1. ~Getting(Tcpip)
      BY <1>1, <2>1, <1>7, NotInBox, Threads
    <3>2. PICK n, k : n = Msgs(Tcpip) /\ k = sems[<<Tcpip, "queued">>].counter
      OBVIOUS
    <3>3. k = n - 0
      BY <3>1, <3>2, <1>0, Threads DEF CountOk
    <3>4. QED
      BY <3>2, <3>3, <2>2
  <2>4. PICK b \in Calling : th[b].pc = "op" /\ Posted(b)
    BY <2>3, MessageIsCall
  <2>5. th'[Tcpip].pc = "get"
    BY <1>3, <1>7, <2>1 DEF After
  <2>6. \A c \in Client : OpCount(c)' = OpCount(c)
    BY <1>5, <2>1, Sems, Threads DEF OpCount
  <2>7. Posted(b)'
    BY <2>4, <2>5, <2>6, <1>6 DEF Posted
  <2>8. \A d \in Calling : d = b
    BY <2>4 DEF CallOk
  <2>9. b \in Thread \ {Tcpip}
    BY <1>0, <2>4, CallThreads
  <2>10. th'[b].pc = "op"
    BY <1>3, <1>7, <2>4, <2>9
  <2>11. CallOk'
    BY <1>4, <2>7, <2>8, <2>10 DEF CallOk
  <2>12. QED
    BY <1>1, <1>7, <2>4, <2>11, Threads DEF Calling
<1>8. CASE t \in Calling /\ th[t].pc = "op"
  <2>1. t \in Buffer /\ t # Tcpip /\ args[t].client \in Client
    BY <1>0, <1>8, CallThreads
  <2>2. PICK c : c = args[t].client
    OBVIOUS
  <2>3. WaitsFor(t) = <<c, "op">> /\ c \in Client
    BY <2>1, <2>2, <1>8 DEF WaitsFor, Mail
  <2>4. OpCount(c) > 0 /\ OpCount(c)' = OpCount(c) - 1
    BY <2>3 DEF Acquires, OpCount
  <2>5. Replied(t)
    BY <2>2, <2>4, <1>0, <1>8, CallAnswered
  <2>6. \A d \in Client : OpCount(d)' = 0
    <3>1. TAKE d \in Client
    <3>2. CASE d = c
      BY <2>2, <2>3, <2>4, <2>5, <3>2 DEF Replied
    <3>3. CASE d # c
      <4>1. OpCount(d)' = OpCount(d)
        BY <1>5, <2>3, <3>3, Sems, Threads DEF OpCount
      <4>2. QED
        BY <4>1, <2>2, <2>5, <3>3 DEF Replied
    <3>4. QED
      BY <3>2, <3>3
  <2>7. NoCall'
    BY <2>1, <2>5, <2>6, <1>3, <1>6, Threads DEF Replied, NoCall
  <2>8. \A d \in Calling : d = t
    BY <1>8 DEF CallOk
  <2>9. th'[t].pc = "done"
    BY <1>3, <1>8 DEF After
  <2>10. CallOk'
    BY <1>4, <2>7, <2>8, <2>9 DEF CallOk
  <2>11. QED
    BY <1>1, <1>8, <2>1, <2>5, <2>9, <2>10
<1>9. CASE t # Tcpip /\ ~(t \in Calling /\ th[t].pc = "op")
  <2>1. t \in Buffer
    BY <1>2, <1>9, Threads
  <2>2. th[t].pc # "op"
    BY <2>1, <1>0, <1>9 DEF PcOk, Calling
  <2>3. \A c \in Client : <<c, "op">> # WaitsFor(t) /\ <<c, "op">> \in Sem
    BY <2>2, <1>1, Sems, Threads DEF WaitsFor, PollPoints
  <2>4. th'[t].pc # "op"
    BY <2>2, <1>1, <1>3 DEF After, PollPoints
  <2>5. \A b \in Calling : b \in Thread
    BY <1>0, CallThreads
  <2>6. CallSame
    BY <2>2, <2>3, <2>4, <2>5, <1>1, <1>3, <1>4, <1>5, <1>9, Threads DEF CallSame, Calling
  <2>7. QED
    BY <2>6, <1>1, <1>9, StillCall
<1>10. QED
  BY <1>7, <1>8, <1>9

\* sys_arch_sem_wait waits: nothing changes for the call.  A thread that serves a call
\* finds a slot at once, and when it waits for op_completed it has not been answered.
LEMMA BlockCall ==
  ASSUME Base, CallOk, NEW t \in Thread, SemWait(t), Blocks(t, WaitsFor(t))
  PROVE  /\ CallOk' /\ UNCHANGED <<args, main>> /\ CallSame
         /\ t \in Calling => th[t].pc = "op" /\ ~Replied(t)
         /\ t = Tcpip => \A b \in Calling : th[b].pc = "op" => Replied(b)
<1>0. DataOk /\ PcOk /\ WaitOk /\ CountOk
  BY DEF Base
<1>1. /\ cur = t /\ th[t].pc \in PollPoints
      /\ UNCHANGED <<mboxes, buse, args, main, op, client>>
  BY DEF SemWait, world
<1>2. /\ \A x \in Thread : th'[x].pc = th[x].pc
      /\ \A s \in Sem : sems'[s].counter = sems[s].counter
      /\ sems[WaitsFor(t)].counter = 0
  BY DEF Blocks, Asleep
<1>3. CallSame
  <2>1. \A b \in Calling : b \in Thread
    BY <1>0, CallThreads
  <2>2. \A c \in Client : <<c, "op">> \in Sem
    BY Sems, Threads
  <2>3. QED
    BY <2>1, <2>2, <1>1, <1>2, Threads DEF CallSame, Calling
<1>4. ASSUME t \in Calling
      PROVE  th[t].pc = "op" /\ ~Replied(t)
  <2>1. t \in Buffer /\ t # Tcpip /\ args[t].client \in Client
        /\ th[t].pc \in {"callpost", "op"}
    BY <1>0, <1>1, <1>4, CallThreads DEF PollPoints
  <2>2. CASE th[t].pc = "callpost"
    <3>1. WaitsFor(t) = <<Tcpip, "free">>
      BY <2>2 DEF WaitsFor
    <3>2. \A b \in Calling : th[b].pc # "op"
      BY <1>4, <2>2 DEF CallOk
    <3>3. Msgs(Tcpip) = 0
      BY <3>2 DEF CallOk, NoCall
    <3>4. ~Putting(Tcpip)
      BY <1>1, <2>2, NotInBox, Threads
    <3>5. sems[<<Tcpip, "free">>].counter = MBOXSLOTS - 0 - 0
      BY <3>3, <3>4, <1>0, Threads DEF CountOk
    <3>6. QED
      BY <3>1, <3>5, <1>2, Sized DEF Sizes
  <2>3. CASE th[t].pc = "op"
    <3>1. PICK c : c = args[t].client
      OBVIOUS
    <3>2. WaitsFor(t) = <<c, "op">> /\ c \in Client
      BY <2>1, <2>3, <3>1 DEF WaitsFor, Mail
    <3>3. OpCount(c) = 0
      BY <3>2, <1>2 DEF OpCount
    <3>4. QED
      BY <2>3, <3>1, <3>2, <3>3 DEF Replied
  <2>4. QED
    BY <2>1, <2>2, <2>3
<1>5. ASSUME t = Tcpip, NEW b \in Calling, th[b].pc = "op"
      PROVE  Replied(b)
  <2>1. th[Tcpip].pc = "fetch" /\ WaitsFor(Tcpip) = <<Tcpip, "queued">>
    BY <1>0, <1>1, <1>5 DEF PcOk, PollPoints, WaitsFor, Mail
  <2>2. ~Getting(Tcpip)
    BY <1>1, <1>5, <2>1, NotInBox, Threads
  <2>3. PICK n : n = Msgs(Tcpip)
    OBVIOUS
  <2>4. n \in 0 .. MBOXSLOTS
    BY <2>3, <1>0, MsgsRange, Threads
  <2>5. 0 = n - 0
    BY <2>1, <2>2, <2>3, <1>0, <1>2, <1>5, Threads DEF CountOk
  <2>6. Msgs(Tcpip) = 0
    BY <2>3, <2>4, <2>5
  <2>7. QED
    BY <2>1, <2>6, <1>5 DEF CallOk, Posted, Called
<1>6. QED
  BY <1>1, <1>3, <1>4, <1>5, StillCall

\* sys_mbox_trypost: the call is in the tcpip thread's mailbox.
LEMMA PostCall ==
  ASSUME Base, CallOk, NEW t \in Thread, Post(t)
  PROVE  /\ CallOk' /\ UNCHANGED <<cur, queue, args, main>>
         /\ t \in Calling => Posted(t)' /\ th'[t].pc = "op" /\ th'[Tcpip].pc = "fetch"
         /\ t \notin Calling => CallSame
<1>0. DataOk /\ PcOk
  BY DEF Base
<1>1. cur = t /\ UNCHANGED <<cur, queue, buse, args, main, op>>
  BY DEF Post, threads, world
<1>2. PICK m, v : m = PostBox(t) /\ v = PostMsg(t)
  OBVIOUS
<1>3. /\ t \in Buffer /\ m \in Mbox /\ Puts(m, v) /\ Signalled(t, <<m, "queued">>)
      /\ \/ /\ th[t].pc = "put" /\ args[t] \in Inputs /\ m \in Client /\ Goes(t, "done")
         \/ /\ th[t].pc = "callput" /\ args[t] \in Calls /\ m = Tcpip
            /\ v = t /\ Goes(t, "op")
  BY <1>2, PostDoes
<1>4. Calling' = Calling /\ \A b \in Buffer : args'[b] = args[b]
  BY <1>1 DEF Calling
<1>5. \A c \in Client : OpCount(c)' = OpCount(c)
  BY <1>3, Sems, Threads DEF Signalled, OpCount
<1>6. \A b \in Calling : b \in Thread
  BY <1>0, CallThreads
<1>7. CASE th[t].pc = "put"
  <2>1. m \in Client /\ Goes(t, "done") /\ args[t] \in Inputs
    BY <1>3, <1>7
  <2>2. mboxes'[Tcpip] = mboxes[Tcpip] /\ Tcpip # t
    BY <2>1, <1>3, Threads DEF Puts
  <2>3. t \notin Calling
    BY <2>1 DEF Calling, Calls, Inputs
  <2>4. CallSame
    BY <2>1, <2>2, <2>3, <1>1, <1>4, <1>5, <1>6, Threads DEF CallSame, Goes, OpCount, Calling
  <2>5. QED
    BY <2>3, <2>4, <1>1, StillCall
<1>8. CASE th[t].pc = "callput"
  <2>1. m = Tcpip /\ v = t /\ Goes(t, "op") /\ t \in Calling
    BY <1>3, <1>8 DEF Calling
  <2>2. \A d \in Calling : d = t
    BY <2>1 DEF CallOk
  <2>3. NoCall
    BY <2>2, <1>8 DEF CallOk
  <2>4. th'[t].pc = "op" /\ th'[Tcpip].pc = "fetch"
    BY <2>1, <2>3, <1>3, Threads DEF Goes, NoCall
  <2>5. Msgs(Tcpip)' = 1
    BY <2>1, <2>3, <1>0, <1>3, PutsCount DEF NoCall
  <2>6. mboxes[Tcpip].head = -1 /\ mboxes[Tcpip] \in Boxes
    BY <2>3, <1>0, MsgsRange, Threads DEF NoCall
  <2>7. First(Tcpip)' = t
    <3>1. PICK q, f : q = mboxes[Tcpip].nextq /\ f = mboxes[Tcpip].msg
      OBVIOUS
    <3>2. q \in 0 .. MBOXSLOTS - 1 /\ f \in [0 .. MBOXSLOTS - 1 -> Int]
      BY <2>6, <3>1 DEF Boxes
    <3>3. mboxes'[Tcpip].head = q /\ mboxes'[Tcpip].msg = [f EXCEPT ![q] = v]
      BY <2>1, <2>6, <3>1, <1>3 DEF Puts
    <3>4. QED
      BY <2>1, <3>2, <3>3 DEF First
  <2>8. Posted(t)'
    BY <2>3, <2>4, <2>5, <2>7, <1>5 DEF Posted, NoCall
  <2>9. CallOk'
    BY <2>2, <2>4, <2>8, <2>1, <1>4 DEF CallOk
  <2>10. QED
    BY <2>1, <2>4, <2>8, <2>9, <1>1
<1>9. QED
  BY <1>3, <1>7, <1>8

\* sys_arch_mbox_fetch: the tcpip thread has the call.
LEMMA FetchCall ==
  ASSUME Base, CallOk, NEW t \in Thread, Fetch(t)
  PROVE  /\ CallOk' /\ UNCHANGED <<cur, queue, args, main>>
         /\ t = Tcpip => \E b \in Calling : Posted(b) /\ th[b].pc = "op"
         /\ t # Tcpip => CallSame
<1>0. DataOk /\ PcOk
  BY DEF Base
<1>1. cur = t /\ UNCHANGED <<cur, queue, buse, args, main>>
  BY DEF Fetch, threads
<1>2. PICK m : m = Mail(t)
  OBVIOUS
<1>3. /\ t # Main /\ th[t].pc = "get" /\ m \in Mbox /\ Gives(m)
      /\ Signalled(t, <<m, "free">>)
      /\ \/ t = Tcpip /\ m = Tcpip /\ op' = First(Tcpip) /\ Goes(t, "call")
         \/ t \in Buffer /\ args[t] \in Recvs /\ m \in Client /\ op' = op /\ Goes(t, "done")
  BY <1>2, FetchDoes
<1>4. Calling' = Calling /\ \A b \in Buffer : args'[b] = args[b]
  BY <1>1 DEF Calling
<1>5. \A c \in Client : OpCount(c)' = OpCount(c)
  BY <1>3, Sems, Threads DEF Signalled, OpCount
<1>6. \A b \in Calling : b \in Thread \ {Tcpip}
  BY <1>0, CallThreads
<1>7. CASE t # Tcpip
  <2>1. m \in Client /\ Goes(t, "done") /\ args[t] \in Recvs /\ op' = op
    BY <1>3, <1>7
  <2>2. mboxes'[Tcpip] = mboxes[Tcpip]
    BY <2>1, <1>3, Threads DEF Gives
  <2>3. t \notin Calling
    BY <2>1 DEF Calling, Calls, Recvs
  <2>4. CallSame
    BY <2>1, <2>2, <2>3, <1>1, <1>4, <1>5, <1>6, <1>7, Threads DEF CallSame, Goes, OpCount, Calling
  <2>5. QED
    BY <2>4, <1>1, <1>7, StillCall
<1>8. CASE t = Tcpip
  <2>1. m = Tcpip /\ op' = First(Tcpip) /\ Goes(Tcpip, "call") /\ th[Tcpip].pc = "get"
    BY <1>3, <1>8, Threads
  <2>2. PICK b \in Calling : th[b].pc = "op" /\ Posted(b)
    BY <2>1, MessageIsCall
  <2>3. \A d \in Calling : d = b
    BY <2>2 DEF CallOk
  <2>4. th'[b].pc = "op" /\ th'[Tcpip].pc = "call"
    BY <2>1, <2>2, <1>6 DEF Goes
  <2>5. Msgs(Tcpip)' = 0
    <3>1. Msgs(Tcpip)' = Msgs(Tcpip) - 1
      BY <2>1, <1>0, <1>3, GivesCount
    <3>2. QED
      BY <3>1, <2>2 DEF Posted
  <2>6. Called(b)'
    BY <2>1, <2>2, <2>4, <2>5, <1>5 DEF Called, Posted
  <2>7. CallOk'
    BY <2>2, <2>3, <2>4, <2>6, <1>4 DEF CallOk
  <2>8. QED
    BY <2>2, <2>7, <1>1, <1>8
<1>9. QED
  BY <1>7, <1>8

\* The tcpip thread's call is answered.
LEMMA TcpipCallCall ==
  ASSUME Base, CallOk, TcpipCall
  PROVE  /\ CallOk' /\ UNCHANGED <<cur, queue, args, main>>
         /\ \E b \in Calling : th[b].pc = "op" /\ Called(b) /\ op = b /\ Replied(b)'
<1>0. DataOk /\ PcOk
  BY DEF Base
<1>1. UNCHANGED <<cur, queue, mboxes, buse, args, main>>
  BY DEF TcpipCall, threads, world
<1>2. /\ cur = Tcpip /\ th[Tcpip].pc = "call" /\ Goes(Tcpip, "fetch")
      /\ Signalled(Tcpip, <<args[op].client, "op">>)
  BY TcpipCallDoes
<1>3. PICK b \in Calling : th[b].pc = "op" /\ Called(b)
  BY <1>2, MessageIsCall
<1>4. b \in Thread \ {Tcpip} /\ args[b].client \in Client /\ b \in Buffer
  BY <1>0, CallThreads
<1>5. op = b
  BY <1>3 DEF Called
<1>6. Calling' = Calling /\ \A d \in Buffer : args'[d] = args[d]
  BY <1>1 DEF Calling
<1>7. PICK k : k = args[b].client
  OBVIOUS
<1>8. \A c \in Client : OpCount(c)' = IF c = k THEN 1 ELSE 0
  <2>1. TAKE c \in Client
  <2>2. OpCount(c) = 0 /\ <<c, "op">> \in Sem /\ <<k, "op">> \in Sem
    BY <1>3, <1>4, <1>7, Sems, Threads DEF Called
  <2>3. CASE c = k
    BY <2>2, <2>3, <1>2, <1>5, <1>7 DEF Signalled, OpCount
  <2>4. CASE c # k
    <3>1. <<c, "op">> # <<k, "op">>
      BY <2>4
    <3>2. QED
      BY <2>2, <2>4, <3>1, <1>2, <1>5, <1>7 DEF Signalled, OpCount
  <2>5. QED
    BY <2>3, <2>4
<1>9. th'[Tcpip].pc = "fetch" /\ th'[b].pc = "op"
  BY <1>2, <1>3, <1>4, Threads DEF Goes
<1>10. Msgs(Tcpip)' = 0
  BY <1>1, <1>3 DEF Called, Msgs
<1>11. Replied(b)'
  BY <1>1, <1>7, <1>8, <1>9, <1>10 DEF Replied
<1>12. \A d \in Calling : d = b
  BY <1>3 DEF CallOk
<1>13. CallOk'
  BY <1>3, <1>6, <1>9, <1>11, <1>12 DEF CallOk
<1>14. QED
  BY <1>1, <1>3, <1>5, <1>11, <1>13

\* A call that ends is gone.
LEMMA FinishCall ==
  ASSUME Base, CallOk, NEW t \in Thread, Finish(t)
  PROVE  /\ CallOk' /\ main' = main /\ Calling' = Calling \ {t}
         /\ \A b \in Calling \ {t} : /\ Posted(b)' <=> Posted(b)
                                     /\ Replied(b)' <=> Replied(b)
<1>0. DataOk /\ PcOk
  BY DEF Base
<1>1. UNCHANGED <<sems, mboxes, main, op>>
  BY DEF Finish
<1>2. /\ cur = t /\ t \in Buffer /\ th[t].pc = "done" /\ Goes(t, "none")
      /\ \A x \in Thread \ {t} : th'[x] = th[x]
      /\ args'[t] = NoReq /\ \A b \in Buffer \ {t} : args'[b] = args[b]
  BY FinishDoes
<1>3. NoReq \notin Calls
  BY DEF NoReq, Calls
<1>4. Calling' = Calling \ {t}
  BY <1>2, <1>3 DEF Calling
<1>5. CASE t \notin Calling
  <2>1. \A b \in Calling : b \in Buffer \ {t} /\ b \in Thread \ {t}
    BY <1>0, <1>5, CallThreads
  <2>2. CallSame
    BY <2>1, <1>1, <1>2, <1>4, <1>5, Threads DEF CallSame
  <2>3. QED
    BY <2>2, <1>1, <1>4, <1>5, StillCall
<1>6. CASE t \in Calling
  <2>1. \A d \in Calling : d = t
    BY <1>6 DEF CallOk
  <2>2. NoCall
    BY <2>1, <1>2 DEF CallOk
  <2>3. NoCall'
    BY <2>2, <1>1, <1>2, Threads DEF NoCall, OpCount, Msgs
  <2>4. QED
    BY <2>1, <2>3, <1>1, <1>4 DEF CallOk
<1>7. QED
  BY <1>5, <1>6

\* Main leaves the calls alone.
LEMMA MainCall ==
  ASSUME Base, CallOk, NEW pc \in {"flush", "recv", "timer", "panic"}, MainGoes(pc)
  PROVE  CallOk' /\ CallSame
<1>0. DataOk /\ PcOk
  BY DEF Base
<1>1. /\ \A x \in Thread \ {Main} : th'[x] = th[x]
      /\ UNCHANGED <<sems, mboxes, args, op>>
  BY DEF MainGoes
<1>2. \A b \in Calling : b \in Thread \ {Main}
  BY <1>0, CallThreads
<1>3. CallSame
  BY <1>1, <1>2, Threads DEF CallSame, Calling
<1>4. QED
  BY <1>3, StillCall

\* A new request, when there is no call yet.
LEMMA AcceptCall ==
  ASSUME Base, CallOk, Calling = {}, NEW b, NEW req, NEW pc, Opens(b, req, pc),
         Starts(req, pc)
  PROVE  /\ CallOk'
         /\ \A d \in Calling' : d = b /\ th'[d].pc = "callpost"
<1>0. DataOk /\ PcOk
  BY DEF Base
<1>1. /\ b \in Buffer /\ b # Tcpip /\ b # Main /\ th'[b].pc = pc
      /\ \A x \in Thread \ {Main, b} : th'[x] = th[x]
      /\ args'[b] = req /\ \A x \in Buffer \ {b} : args'[x] = args[x]
      /\ UNCHANGED <<sems, mboxes, op>>
  BY DEF Opens
<1>2. NoCall
  BY DEF CallOk
<1>3. NoCall'
  BY <1>1, <1>2, Threads DEF NoCall, OpCount, Msgs
<1>4. \A d \in Calling' : d = b /\ req \in Calls
  BY <1>1 DEF Calling
<1>5. req \in Calls => pc = "callpost"
  BY DEF Starts, Calls, Inputs, Recvs
<1>6. QED
  BY <1>1, <1>3, <1>4, <1>5 DEF CallOk

-----------------------------------------------------------------------------
(* The rounds of the line between two requests. *)

\* Thread t waits, and nobody has woken it up.
Quiet(t) == th[t].pc \in PollPoints /\ th[t].addr # NoSem /\ ~th[t].wakeup

\* A thread that has had its turn waits.
RanWaits == \A t \in Live \ {Main} : Ran(t) => th[t].addr # NoSem

\* Thread t has the last turn before main.
NextTo(t) == Place(t) = Place(Main) - 1

\* In the first round a call comes last: when it has been posted, main is next, and the
\* tcpip thread gets the call in the round after this one.
FirstRound ==
  \A b \in Calling :
    /\ th[b].pc \in {"callpost", "callput"} => NextTo(b)
    /\ th[b].pc = "op" =>
         /\ Posted(b) /\ th[Tcpip].pc = "fetch"
         /\ \/ cur = b /\ Place(Main) = 1
            \/ cur = Main /\ Place(b) = Len(queue)

\* In the later rounds nothing wakes up a thread that has had its turn: what a thread
\* still does is for one whose turn comes.
LaterRound ==
  /\ \A t \in Live \ {Main} : Ran(t) => Quiet(t)
  /\ \A c \in Client : Fetcher(c) = {} \/ Poster(c) = {}
  /\ \A b \in Calling :
       /\ th[b].pc \in {"op", "done"}
       /\ th[b].pc = "op" /\ ~Replied(b) => ~Ran(Tcpip) /\ NextTo(b)

\* Main goes from the one to the other, and without a call to ipc_recv.
RoundOk ==
  /\ th[Main].pc \in {"recv", "timer"} => Calling = {} /\ main.i = 0
  /\ th[Main].pc = "recv" => cur = Main
  /\ th[Main].pc = "flush" => IF main.i = 0 THEN FirstRound ELSE LaterRound

\* What holds together with IInv.
WInv == CallOk /\ RanWaits /\ RoundOk /\ NoWorkLeft

\* When main has the turn every other thread has had its own and waits.
LEMMA MainTurn ==
  ASSUME Base, cur = Main
  PROVE  /\ Place(Main) = 0 /\ Main \in Live
         /\ \A t \in Live \ {Main} : /\ Ran(t) /\ ~NextTo(t) /\ Place(t) \in Nat
                                     /\ th[t].pc \in PollPoints
<1>0. LineOk /\ PcOk
  BY DEF Base
<1>1. ASSUME NEW t \in Live
      PROVE  Place(t) \in 0 .. Len(queue) /\ Len(queue) \in Nat /\ (Place(t) = 0 <=> t = Main)
  BY <1>0, PlaceRange DEF Place, LineOk
<1>2. Main \in Live
  BY <1>0 DEF LineOk, Lined
<1>3. ASSUME NEW t \in Live \ {Main}
      PROVE  /\ Place(t) > Place(Main) /\ Place(t) # Place(Main) - 1 /\ Place(t) \in Nat
  BY <1>1, <1>2
<1>4. \A t \in Live \ {Main} : th[t].pc \in PollPoints
  <2>1. TAKE t \in Live \ {Main}
  <2>2. t \in Thread \ {Main} /\ th[t].pc # "none"
    BY DEF Live
  <2>3. QED
    BY <2>2, <1>0 DEF PcOk, Running
<1>5. QED
  BY <1>1, <1>2, <1>3, <1>4 DEF Ran, NextTo

\* When another thread has it main's is still to come.
LEMMA ThreadTurn ==
  ASSUME Base, NEW t, cur = t, t # Main
  PROVE  /\ t \in Live \ {Main} /\ Main \in Live /\ Tcpip \in Live \ {Main}
         /\ Place(t) = 0 /\ ~Ran(t) /\ Place(Main) \in Nat \ {0}
         /\ NextTo(t) <=> Place(Main) = 1
         /\ \A x \in Live : /\ Place(x) \in Nat /\ (Place(x) = 0 <=> x = t)
                            /\ Place(x) = Place(Main) => x = Main
<1>0. LineOk /\ PcOk
  BY DEF Base
<1>1. ASSUME NEW x \in Live
      PROVE  /\ Place(x) \in 0 .. Len(queue) /\ Len(queue) \in Nat
             /\ Place(x) = 0 <=> x = t
             /\ \A y \in Live : Place(x) = Place(y) => x = y
  BY <1>0, PlaceRange DEF Place, LineOk
<1>2. t \in Live /\ Main \in Live /\ Tcpip \in Live \ {Main}
  BY <1>0, Threads DEF LineOk, Lined, PcOk, Live
<1>3. Place(t) = 0 /\ Place(Main) \in Nat \ {0}
  BY <1>1, <1>2
<1>4. ~(Place(t) > Place(Main)) /\ (Place(t) = Place(Main) - 1 <=> Place(Main) = 1)
  BY <1>3
<1>5. \A x \in Live : /\ Place(x) \in Nat /\ (Place(x) = 0 <=> x = t)
                      /\ Place(x) = Place(Main) => x = Main
  BY <1>1, <1>2
<1>6. QED
  BY <1>2, <1>3, <1>4, <1>5 DEF Ran, NextTo

\* A step of thread t in its turn, for the other threads.
Works(t) ==
  /\ cur = t /\ t \in Live \ {Main} /\ Live' \subseteq Live
  /\ \A x \in Live \ {Main, t} :
       /\ Ran(x)' <=> Ran(x)
       /\ NextTo(x)' <=> NextTo(x)
       /\ th'[x].pc = th[x].pc /\ th'[x].addr = th[x].addr
  /\ th'[Main].pc = th[Main].pc /\ main' = main
  /\ t \in Live' => ~Ran(t)' \/ Quiet(t)'
  /\ Calling' \subseteq Calling
  /\ \A c \in Client : Fetcher(c)' \subseteq Fetcher(c) /\ Poster(c)' \subseteq Poster(c)

\* The first round, when the thread does not serve a call.
LEMMA FirstWorks ==
  ASSUME Base, CallOk, FirstRound, NEW t, Works(t), t \notin Calling'
  PROVE  FirstRound'
<1>0. DataOk /\ PcOk
  BY DEF Base
<1> SUFFICES ASSUME NEW b \in Calling'
             PROVE  /\ th'[b].pc \in {"callpost", "callput"} => NextTo(b)'
                    /\ th'[b].pc # "op"
  BY DEF FirstRound
<1>1. b \in Calling /\ b # t
  BY DEF Works
<1>2. b \in Live \ {Main, t}
  BY <1>0, <1>1, CallThreads
<1>3. th[b].pc # "op"
  BY <1>1 DEF FirstRound, Works
<1>4. QED
  BY <1>1, <1>2, <1>3 DEF FirstRound, Works

\* The later rounds, when the step wakes up nobody who has had his turn.
LEMMA LaterWorks ==
  ASSUME Base, LaterRound, NEW t, Works(t),
         \A x \in Live \ {Main, t} : Ran(x) /\ th'[x].wakeup => th[x].wakeup,
         \A b \in Calling' : b = t => th'[b].pc \in {"op", "done"},
         \A b \in Calling' : th'[b].pc = "op" /\ ~Replied(b)' =>
           b # t /\ ~Replied(b) /\ (Ran(Tcpip)' <=> Ran(Tcpip))
  PROVE  LaterRound'
<1>0. DataOk /\ PcOk
  BY DEF Base
<1>1. ASSUME NEW x \in (Live \ {Main})', Ran(x)'
      PROVE  Quiet(x)'
  <2>1. CASE x = t
    BY <2>1, <1>1 DEF Works
  <2>2. CASE x # t
    <3>1. x \in Live \ {Main, t} /\ Ran(x)
      BY <2>2, <1>1 DEF Works
    <3>2. Quiet(x)
      BY <3>1 DEF LaterRound
    <3>3. th'[x].pc = th[x].pc /\ th'[x].addr = th[x].addr
      BY <3>1 DEF Works
    <3>4. QED
      BY <3>1, <3>2, <3>3 DEF Quiet
  <2>3. QED
    BY <2>1, <2>2
<1>2. \A c \in Client : Fetcher(c)' = {} \/ Poster(c)' = {}
  BY DEF LaterRound, Works
<1>3. ASSUME NEW b \in Calling'
      PROVE  /\ th'[b].pc \in {"op", "done"}
             /\ th'[b].pc = "op" /\ ~Replied(b)' => ~Ran(Tcpip)' /\ NextTo(b)'
  <2>1. b \in Calling
    BY DEF Works
  <2>2. b \in Live \ {Main}
    BY <1>0, <2>1, CallThreads
  <2>3. CASE b = t
    BY <2>3
  <2>4. CASE b # t
    BY <2>1, <2>2, <2>4 DEF LaterRound, Works
  <2>5. QED
    BY <2>3, <2>4
<1>4. QED
  BY <1>1, <1>2, <1>3 DEF LaterRound

\* A step that leaves the turn where it is, and the line.
LEMMA StayWorks ==
  ASSUME Base, NEW t \in Thread \ {Main}, cur = t, UNCHANGED <<cur, queue, args, main>>,
         NEW pc \in Labels \ {"none"}, Goes(t, pc),
         pc \in {"post", "put"} => th[t].pc \in {"post", "put"},
         pc \in {"fetch", "get"} => th[t].pc \in {"fetch", "get"} \/ t = Tcpip
  PROVE  Works(t) /\ \A x : (Ran(x)' <=> Ran(x)) /\ (NextTo(x)' <=> NextTo(x))
<1>0. DataOk /\ PcOk
  BY DEF Base
<1>1. \A x : (Ran(x)' <=> Ran(x)) /\ (NextTo(x)' <=> NextTo(x))
  BY DEF Place, Ran, NextTo
<1>2. t \in Live \ {Main} /\ ~Ran(t)
  BY ThreadTurn
<1>3. \A x \in Thread \ {t} : th'[x].pc = th[x].pc /\ th'[x].addr = th[x].addr
  BY DEF Goes
<1>4. Live' = Live
  BY <1>2, <1>3 DEF Live, Goes
<1>5. Calling' = Calling
  BY DEF Calling
<1>6. ASSUME NEW b \in Buffer
      PROVE  /\ th'[b].pc \in {"post", "put"} => th[b].pc \in {"post", "put"}
             /\ th'[b].pc \in {"fetch", "get"} => th[b].pc \in {"fetch", "get"}
  BY <1>3, Threads DEF Goes
<1>7. \A c \in Client : Fetcher(c)' \subseteq Fetcher(c) /\ Poster(c)' \subseteq Poster(c)
  BY <1>6 DEF Fetcher, Poster
<1>8. /\ th'[Main].pc = th[Main].pc
      /\ \A x \in Live \ {Main, t} : th'[x].pc = th[x].pc /\ th'[x].addr = th[x].addr
  BY <1>3, Threads DEF Live
<1>9. QED
  BY <1>1, <1>2, <1>4, <1>5, <1>7, <1>8 DEF Works

\* In a later round a call that has its turn has been answered: else it would have the
\* last turn, and the tcpip thread's would come before it.
LEMMA LaterTurn ==
  ASSUME Base, LaterRound, NEW t \in Calling, cur = t, th[t].pc = "op"
  PROVE  Replied(t)
<1>0. DataOk /\ PcOk
  BY DEF Base
<1>1. t # Main /\ t # Tcpip
  BY <1>0, CallThreads
<1>2. /\ Place(Main) \in Nat \ {0} /\ Tcpip \in Live \ {Main} /\ Main \in Live
      /\ NextTo(t) <=> Place(Main) = 1
      /\ \A x \in Live : /\ Place(x) \in Nat /\ (Place(x) = 0 <=> x = t)
                         /\ Place(x) = Place(Main) => x = Main
  BY <1>1, ThreadTurn
<1>3. ASSUME ~Replied(t)
      PROVE  FALSE
  <2>1. ~Ran(Tcpip) /\ NextTo(t)
    BY <1>3 DEF LaterRound
  <2>2. Place(Main) = 1 /\ Place(Tcpip) \in Nat /\ Place(Tcpip) # 0
        /\ Place(Tcpip) # Place(Main) /\ ~(Place(Tcpip) > Place(Main))
    BY <2>1, <1>1, <1>2 DEF Ran
  <2>3. QED
    BY <2>2
<1>4. QED
  BY <1>3

\* sys_arch_sem_wait gets its semaphore: the rounds go on.
LEMMA AcquireRound ==
  ASSUME Base, CallOk, NEW t \in Thread, SemWait(t), Acquires(t, WaitsFor(t)),
         Goes(t, After(th[t].pc))
  PROVE  Works(t) /\ (FirstRound => FirstRound') /\ (LaterRound => LaterRound')
<1>0. DataOk /\ PcOk /\ WaitOk
  BY DEF Base
<1>1. /\ cur = t /\ th[t].pc \in PollPoints
      /\ UNCHANGED <<cur, queue, mboxes, buse, args, main, op, client>>
  BY DEF SemWait, Acquires, world
<1>2. t \in Thread \ {Main}
  BY <1>0, <1>1 DEF PcOk, PollPoints
<1>3. PICK pc : pc = After(th[t].pc)
  OBVIOUS
<1>4. /\ Goes(t, pc) /\ pc \in Labels \ {"none"}
      /\ pc \in {"post", "put"} => th[t].pc \in {"post", "put"}
      /\ pc \in {"fetch", "get"} => th[t].pc \in {"fetch", "get"}
  BY <1>1, <1>3 DEF After, PollPoints, Labels
<1>5. Works(t) /\ \A x : (Ran(x)' <=> Ran(x)) /\ (NextTo(x)' <=> NextTo(x))
  BY <1>1, <1>2, <1>4, StayWorks
<1>6. /\ t = Tcpip => \E b \in Calling : Posted(b) /\ th[b].pc = "op"
      /\ t # Tcpip /\ ~(t \in Calling /\ th[t].pc = "op") => CallSame
      /\ t \in Calling /\ th[t].pc = "op" => Replied(t) /\ th'[t].pc = "done"
  BY AcquireCall
<1>7. Calling' = Calling
  BY <1>1 DEF Calling
<1>8. ASSUME FirstRound
      PROVE  FirstRound'
  <2>1. CASE t \notin Calling
    BY <2>1, <1>5, <1>7, <1>8, FirstWorks
  <2>2. CASE t \in Calling
    <3>1. th[t].pc # "op"
      <4>1. ASSUME th[t].pc = "op"
            PROVE  FALSE
        BY <4>1, <2>2, <1>6, <1>8 DEF FirstRound, Posted, Replied
      <4>2. QED
        BY <4>1
    <3>2. th[t].pc = "callpost"
      BY <3>1, <2>2, <1>0, <1>1, CallThreads DEF PollPoints
    <3>3. pc = "callput"
      BY <3>2, <1>3 DEF After
    <3>4. \A d \in Calling : d = t
      BY <2>2 DEF CallOk
    <3>5. NextTo(t)'
      BY <3>2, <2>2, <1>5, <1>8 DEF FirstRound
    <3>6. th'[t].pc = "callput"
      BY <3>3, <1>4 DEF Goes
    <3>7. QED
      BY <3>4, <3>5, <3>6, <1>7 DEF FirstRound
  <2>3. QED
    BY <2>1, <2>2
<1>9. ASSUME LaterRound
      PROVE  LaterRound'
  <2>1. \A x \in Live \ {Main, t} : Ran(x) /\ th'[x].wakeup => th[x].wakeup
    BY DEF Acquires, Live
  <2>2. ASSUME NEW b \in Calling', b = t
        PROVE  th[t].pc = "op" /\ th'[t].pc = "done"
    <3>1. t \in Calling /\ th[t].pc \in {"op", "done"}
      BY <2>2, <1>7, <1>9 DEF LaterRound
    <3>2. th[t].pc = "op"
      BY <3>1, <1>1 DEF PollPoints
    <3>3. QED
      BY <3>1, <3>2, <1>6
  <2>3. ASSUME NEW b \in Calling', th'[b].pc = "op", ~Replied(b)'
        PROVE  b # t /\ ~Replied(b)
    <3>1. b \in Calling /\ b # t
      BY <2>2, <2>3, <1>7
    <3>2. CASE t = Tcpip
      <4>1. PICK d \in Calling : Posted(d)
        BY <3>2, <1>6
      <4>2. d = b
        BY <3>1 DEF CallOk
      <4>3. QED
        BY <3>1, <4>1, <4>2 DEF Posted, Replied
    <3>3. CASE t # Tcpip
      <4>1. t \notin Calling
        BY <3>1 DEF CallOk
      <4>2. CallSame
        BY <4>1, <3>3, <1>6
      <4>3. QED
        BY <3>1, <4>2, <2>3, StillCall
    <3>4. QED
      BY <3>2, <3>3
  <2>4. QED
    BY <2>1, <2>2, <2>3, <1>5, <1>9, LaterWorks
<1>10. QED
  BY <1>5, <1>8, <1>9

\* A step with which the thread leaves the line or goes to its end.
LEMMA PassKeeps ==
  ASSUME Base, NEW t \in Thread, Passes(t)
  PROVE  \A x \in Live \ {Main, t} : (Ran(x)' <=> Ran(x)) /\ (NextTo(x)' <=> NextTo(x))
<1>1. TAKE x \in Live \ {Main, t}
<1>2. /\ Place(Main) \in Nat \ {0} /\ Place(Main)' = Place(Main) - 1
      /\ Place(x) \in Nat \ {0} /\ Place(x)' = Place(x) - 1 /\ (Ran(x)' <=> Ran(x))
  BY DEF Passes
<1>3. Place(x)' = Place(Main)' - 1 <=> Place(x) = Place(Main) - 1
  BY <1>2
<1>4. QED
  BY <1>2, <1>3 DEF NextTo

\* sys_arch_sem_wait waits: the rounds go on.
LEMMA BlockRound ==
  ASSUME Base, CallOk, NEW t \in Thread, SemWait(t), Blocks(t, WaitsFor(t))
  PROVE  Works(t) /\ (FirstRound => FirstRound') /\ (LaterRound => LaterRound')
<1>0. DataOk /\ PcOk /\ LineOk
  BY DEF Base
<1>1. /\ cur = t /\ th[t].pc \in PollPoints /\ Yield(t)
      /\ UNCHANGED <<mboxes, buse, args, main, op, client>>
  BY DEF SemWait, Blocks, world
<1>2. t # Main /\ WaitsFor(t) # NoSem
  BY <1>0, <1>1, WaitsForIs
<1>3. Live' = Live /\ Base'
  BY BlockBase
<1>4. /\ t \in Live \ {Main} /\ Main \in Live /\ Place(Main) \in Nat \ {0}
      /\ NextTo(t) <=> Place(Main) = 1
  BY <1>1, <1>2, ThreadTurn
<1>5. Yields(t) /\ Place(t)' = Len(queue) /\ Len(queue') = Len(queue)
  BY <1>0, <1>1, <1>2, <1>3, <1>4, YieldsLine, YieldLine
<1>6. \A x \in Live \ {Main, t} : (Ran(x)' <=> Ran(x)) /\ (NextTo(x)' <=> NextTo(x))
  BY <1>5, PassKeeps DEF Yields
<1>7. /\ \A x \in Thread \ {t} : th'[x] = th[x]
      /\ th'[t].pc = th[t].pc /\ th'[t].addr = WaitsFor(t) /\ th'[t].wakeup = FALSE
  BY DEF Blocks
<1>8. \A x \in Thread : th'[x].pc = th[x].pc
  BY <1>7
<1>9. Calling' = Calling /\ \A c \in Client : Fetcher(c)' = Fetcher(c) /\ Poster(c)' = Poster(c)
  BY <1>1, <1>8, Threads DEF Calling, Fetcher, Poster
<1>10. Quiet(t)'
  BY <1>1, <1>2, <1>7 DEF Quiet
<1>11. Works(t)
  BY <1>1, <1>2, <1>3, <1>4, <1>6, <1>7, <1>9, <1>10, Threads DEF Works, Live
<1>12. /\ CallSame /\ \A b \in Calling : /\ Posted(b)' <=> Posted(b)
                                         /\ Replied(b)' <=> Replied(b)
       /\ t \in Calling => th[t].pc = "op" /\ ~Replied(t)
       /\ t = Tcpip => \A b \in Calling : th[b].pc = "op" => Replied(b)
  BY BlockCall, StillCall
<1>13. ASSUME FirstRound
       PROVE  FirstRound'
  <2>1. CASE t \notin Calling
    BY <2>1, <1>9, <1>11, <1>13, FirstWorks
  <2>2. CASE t \in Calling
    <3>1. th[t].pc = "op" /\ Posted(t) /\ th[Tcpip].pc = "fetch" /\ Place(Main) = 1
      BY <2>2, <1>1, <1>2, <1>12, <1>13 DEF FirstRound
    <3>2. \A d \in Calling : d = t
      BY <2>2 DEF CallOk
    <3>3. Posted(t)' /\ th'[Tcpip].pc = "fetch" /\ th'[t].pc = "op"
      BY <2>2, <3>1, <1>8, <1>12, Threads
    <3>4. Place(Main)' = 0
      BY <3>1, <1>5 DEF Yields, Passes
    <3>5. cur' = Main
      <4>1. LineOk' /\ Main \in Live'
        BY <1>3, <1>4 DEF Base
      <4>2. PICK c, q, S : c = cur' /\ q = queue' /\ S = Live'
        OBVIOUS
      <4>3. Lined(c, q, S) /\ Main \in S /\ PlaceIn(c, q, Main) = 0
        BY <3>4, <4>1, <4>2 DEF LineOk, Place
      <4>4. Main = c
        BY <4>3, PlaceRange
      <4>5. QED
        BY <4>2, <4>4
    <3>6. Place(t)' = Len(queue')
      BY <1>5
    <3>7. QED
      BY <3>2, <3>3, <3>5, <3>6, <1>9 DEF FirstRound
  <2>3. QED
    BY <2>1, <2>2
<1>14. ASSUME LaterRound
       PROVE  LaterRound'
  <2>1. \A x \in Live \ {Main, t} : Ran(x) /\ th'[x].wakeup => th[x].wakeup
    BY <1>7 DEF Live
  <2>2. t \notin Calling
    BY <1>1, <1>12, <1>14, LaterTurn
  <2>3. ASSUME NEW b \in Calling', th'[b].pc = "op", ~Replied(b)'
        PROVE  b # t /\ ~Replied(b) /\ t # Tcpip
    <3>1. b \in Calling /\ ~Replied(b) /\ th[b].pc = "op"
      BY <2>3, <1>0, <1>8, <1>9, <1>12, CallThreads
    <3>2. QED
      BY <3>1, <2>2, <1>12
  <2>4. t # Tcpip => (Ran(Tcpip)' <=> Ran(Tcpip))
    BY <1>1, <1>2, <1>6, ThreadTurn
  <2>5. QED
    BY <2>1, <2>2, <2>3, <2>4, <1>9, <1>11, <1>14, LaterWorks
<1>15. QED
  BY <1>11, <1>13, <1>14

\* sys_mbox_trypost: the rounds go on.
LEMMA PostRound ==
  ASSUME Base, CallOk, NEW t \in Thread, Post(t)
  PROVE  Works(t) /\ (FirstRound => FirstRound') /\ (LaterRound => LaterRound')
<1>0. DataOk /\ PcOk /\ WaitOk
  BY DEF Base
<1>1. UNCHANGED <<cur, queue, args, main>>
  BY DEF Post, threads
<1>2. PICK m, v : m = PostBox(t) /\ v = PostMsg(t)
  OBVIOUS
<1>3. /\ cur = t /\ t \in Buffer /\ m \in Mbox /\ Signalled(t, <<m, "queued">>)
      /\ \/ /\ th[t].pc = "put" /\ args[t] \in Inputs /\ m = args[t].client /\ m \in Client
            /\ Goes(t, "done")
         \/ th[t].pc = "callput" /\ args[t] \in Calls /\ Goes(t, "op")
  BY <1>2, PostDoes
<1>4. t \in Thread \ {Main} /\ t # Tcpip
  BY <1>3, Threads
<1>5. Works(t) /\ \A x : (Ran(x)' <=> Ran(x)) /\ (NextTo(x)' <=> NextTo(x))
  <2>1. PICK pc \in {"done", "op"} : Goes(t, pc)
    BY <1>3
  <2>2. pc \in Labels \ {"none"} /\ pc \notin {"post", "put", "fetch", "get"}
    BY DEF Labels, PollPoints
  <2>3. QED
    BY <2>1, <2>2, <1>1, <1>3, <1>4, StayWorks
<1>6. Calling' = Calling
  BY <1>1 DEF Calling
<1>7. /\ t \in Calling => Posted(t)' /\ th'[t].pc = "op" /\ th'[Tcpip].pc = "fetch"
      /\ t \notin Calling => CallSame
  BY PostCall
<1>8. ASSUME FirstRound
      PROVE  FirstRound'
  <2>1. CASE t \notin Calling
    BY <2>1, <1>5, <1>6, <1>8, FirstWorks
  <2>2. CASE t \in Calling
    <3>1. th[t].pc = "callput"
      BY <2>2, <1>0, <1>3, CallThreads
    <3>2. NextTo(t)
      BY <3>1, <2>2, <1>8 DEF FirstRound
    <3>3. Place(Main)' = 1 /\ cur' = t
      BY <3>2, <1>1, <1>3, <1>4, ThreadTurn DEF Place
    <3>4. \A d \in Calling : d = t
      BY <2>2 DEF CallOk
    <3>5. QED
      BY <3>3, <3>4, <2>2, <1>6, <1>7 DEF FirstRound
  <2>3. QED
    BY <2>1, <2>2
<1>9. ASSUME LaterRound
      PROVE  LaterRound'
  <2>1. t \notin Calling
    BY <1>3, <1>9 DEF LaterRound
  <2>2. t \in Poster(m) /\ m \in Client
    BY <2>1, <1>3 DEF Calling, Poster
  <2>3. ASSUME NEW x \in Live \ {Main, t}, th'[x].wakeup, ~th[x].wakeup
        PROVE  FALSE
    <3>1. x \in Thread \ {t}
      BY DEF Live
    <3>2. th[x].addr = <<m, "queued">> /\ th[x].addr # NoSem
      BY <2>2, <2>3, <3>1, <1>3, Sems DEF Signalled
    <3>3. th[x].pc \in PollPoints /\ WaitsFor(x) = <<m, "queued">>
      BY <3>1, <3>2, <1>0 DEF WaitOk
    <3>4. th[x].pc = "fetch" /\ Mail(x) = m
      BY <3>1, <3>3, <1>0, WaitsForIs, Sems DEF PollPoints
    <3>5. x # Tcpip
      BY <3>1, <3>3, <3>4, <2>2, <1>0, WaitsForIs, Threads
    <3>6. x \in Buffer /\ args[x].client = m
      BY <3>1, <3>3, <3>4, <3>5, <1>0, WaitsForIs
    <3>7. x \in Fetcher(m)
      BY <3>4, <3>6, <1>0 DEF PcOk, Fetcher
    <3>8. QED
      BY <3>7, <2>2, <1>9 DEF LaterRound
  <2>4. ASSUME NEW b \in Calling', th'[b].pc = "op", ~Replied(b)'
        PROVE  b # t /\ ~Replied(b)
    BY <2>1, <2>4, <1>6, <1>7, StillCall
  <2>5. QED
    BY <2>1, <2>3, <2>4, <1>5, <1>6, <1>9, LaterWorks
<1>10. QED
  BY <1>5, <1>8, <1>9

\* sys_arch_mbox_fetch: the rounds go on.
LEMMA FetchRound ==
  ASSUME Base, CallOk, NEW t \in Thread, Fetch(t)
  PROVE  Works(t) /\ (FirstRound => FirstRound') /\ (LaterRound => LaterRound')
<1>0. DataOk /\ PcOk /\ WaitOk
  BY DEF Base
<1>1. UNCHANGED <<cur, queue, args, main>>
  BY DEF Fetch, threads
<1>2. PICK m : m = Mail(t)
  OBVIOUS
<1>3. /\ cur = t /\ t # Main /\ th[t].pc = "get" /\ m \in Mbox
      /\ Signalled(t, <<m, "free">>)
      /\ \/ t = Tcpip /\ m = Tcpip /\ Goes(t, "call")
         \/ /\ t \in Buffer /\ args[t] \in Recvs /\ m = args[t].client /\ m \in Client
            /\ Goes(t, "done")
  BY <1>2, FetchDoes
<1>4. t \in Thread \ {Main} /\ t \notin Calling
  BY <1>0, <1>3, CallThreads
<1>5. Works(t) /\ \A x : (Ran(x)' <=> Ran(x)) /\ (NextTo(x)' <=> NextTo(x))
  <2>1. PICK pc \in {"done", "call"} : Goes(t, pc)
    BY <1>3
  <2>2. pc \in Labels \ {"none"} /\ pc \notin {"post", "put", "fetch", "get"}
    BY DEF Labels, PollPoints
  <2>3. QED
    BY <2>1, <2>2, <1>1, <1>3, <1>4, StayWorks
<1>6. Calling' = Calling
  BY <1>1 DEF Calling
<1>7. /\ t = Tcpip => \E b \in Calling : Posted(b) /\ th[b].pc = "op"
      /\ t # Tcpip => CallSame
  BY FetchCall
<1>8. ASSUME FirstRound
      PROVE  FirstRound'
  BY <1>4, <1>5, <1>6, <1>8, FirstWorks
<1>9. ASSUME LaterRound
      PROVE  LaterRound'
  <2>1. ASSUME NEW x \in Live \ {Main, t}, Ran(x), th'[x].wakeup, ~th[x].wakeup
        PROVE  FALSE
    <3>1. x \in Thread \ {t}
      BY DEF Live
    <3>2. th[x].addr = <<m, "free">> /\ th[x].addr # NoSem
      BY <2>1, <3>1, <1>3, Sems DEF Signalled
    <3>3. th[x].pc \in PollPoints /\ WaitsFor(x) = <<m, "free">>
      BY <3>1, <3>2, <1>0 DEF WaitOk
    <3>4. x \in Buffer /\ Mail(x) = args[x].client /\ Mail(x) \in Client
          /\ \/ th[x].pc = "post" /\ Mail(x) = m
             \/ th[x].pc = "callpost" /\ m = Tcpip
      BY <3>1, <3>3, <1>0, WaitsForIs, Sems DEF PollPoints
    <3>5. CASE th[x].pc = "callpost"
      <4>1. x \in Calling
        BY <3>4, <3>5, <1>0 DEF PcOk, Calling
      <4>2. QED
        BY <4>1, <3>5, <1>9 DEF LaterRound
    <3>6. CASE th[x].pc = "post" /\ Mail(x) = m
      <4>1. x \in Poster(m) /\ m \in Client
        BY <3>4, <3>6, <1>0 DEF PcOk, Poster
      <4>2. t \in Fetcher(m)
        BY <4>1, <1>3, Threads DEF Fetcher
      <4>3. QED
        BY <4>1, <4>2, <1>9 DEF LaterRound
    <3>7. QED
      BY <3>4, <3>5, <3>6
  <2>2. ASSUME NEW b \in Calling', th'[b].pc = "op", ~Replied(b)'
        PROVE  b # t /\ ~Replied(b)
    <3>1. b \in Calling /\ b # t
      BY <2>2, <1>4, <1>6
    <3>2. CASE t = Tcpip
      <4>1. PICK d \in Calling : Posted(d)
        BY <3>2, <1>7
      <4>2. d = b
        BY <3>1 DEF CallOk
      <4>3. QED
        BY <3>1, <4>1, <4>2 DEF Posted, Replied
    <3>3. CASE t # Tcpip
      BY <3>1, <3>3, <2>2, <1>7, StillCall
    <3>4. QED
      BY <3>2, <3>3
  <2>3. QED
    BY <2>1, <2>2, <1>4, <1>5, <1>6, <1>9, LaterWorks
<1>10. QED
  BY <1>5, <1>8, <1>9

\* The tcpip thread's call: the rounds go on.
LEMMA TcpipCallRound ==
  ASSUME Base, CallOk, TcpipCall
  PROVE  Works(Tcpip) /\ (FirstRound => FirstRound') /\ (LaterRound => LaterRound')
<1>0. DataOk /\ PcOk /\ WaitOk
  BY DEF Base
<1>1. /\ UNCHANGED <<cur, queue, args, main>>
      /\ \E b \in Calling : th[b].pc = "op" /\ Called(b) /\ op = b /\ Replied(b)'
  BY TcpipCallCall
<1>2. /\ cur = Tcpip /\ th[Tcpip].pc = "call" /\ Goes(Tcpip, "fetch")
      /\ Signalled(Tcpip, <<args[op].client, "op">>)
  BY TcpipCallDoes
<1>3. PICK b \in Calling : th[b].pc = "op" /\ Called(b) /\ op = b /\ Replied(b)'
  BY <1>1
<1>4. Tcpip \in Thread \ {Main} /\ Tcpip \notin Calling
  BY Threads DEF Calling
<1>5. Works(Tcpip) /\ \A x : (Ran(x)' <=> Ran(x)) /\ (NextTo(x)' <=> NextTo(x))
  <2>1. "fetch" \in Labels \ {"none"}
    BY DEF Labels, PollPoints
  <2>2. QED
    BY <2>1, <1>1, <1>2, <1>4, StayWorks
<1>6. Calling' = Calling /\ \A d \in Calling : d = b
  BY <1>1, <1>3 DEF Calling, CallOk
<1>7. ASSUME FirstRound
      PROVE  FirstRound'
  BY <1>4, <1>5, <1>6, <1>7, FirstWorks
<1>8. ASSUME LaterRound
      PROVE  LaterRound'
  <2>1. PICK c : c = args[b].client
    OBVIOUS
  <2>2. c \in Client /\ Signalled(Tcpip, <<c, "op">>)
    BY <2>1, <1>0, <1>2, <1>3, CallThreads
  <2>3. ASSUME NEW x \in Live \ {Main, Tcpip}, Ran(x), th'[x].wakeup, ~th[x].wakeup
        PROVE  FALSE
    <3>1. x \in Thread \ {Tcpip}
      BY DEF Live
    <3>2. th[x].addr = <<c, "op">> /\ th[x].addr # NoSem
      BY <2>2, <2>3, <3>1, Sems DEF Signalled
    <3>3. th[x].pc \in PollPoints /\ WaitsFor(x) = <<c, "op">>
      BY <3>1, <3>2, <1>0 DEF WaitOk
    <3>4. x \in Buffer /\ th[x].pc = "op"
      BY <3>1, <3>3, <1>0, WaitsForIs, Sems DEF PollPoints
    <3>5. x = b
      BY <3>4, <1>0, <1>6 DEF PcOk, Calling
    <3>6. ~Replied(b)
      BY <1>3 DEF Called, Replied
    <3>7. NextTo(b)
      BY <3>6, <1>3, <1>8 DEF LaterRound
    <3>8. /\ Place(Main) \in Nat \ {0}
          /\ Place(b) \in Nat
      BY <3>5, <2>3, <1>2, <1>4, ThreadTurn
    <3>9. ~(Place(b) > Place(Main))
      BY <3>7, <3>8 DEF NextTo
    <3>10. QED
      BY <3>5, <3>9, <2>3 DEF Ran
  <2>4. \A d \in Calling' : d # Tcpip /\ Replied(d)'
    BY <1>3, <1>4, <1>6
  <2>5. QED
    BY <2>3, <2>4, <1>5, <1>8, LaterWorks
<1>9. QED
  BY <1>5, <1>7, <1>8

\* serve_thread ends: the rounds go on.
LEMMA FinishRound ==
  ASSUME Base, CallOk, NEW t \in Thread, Finish(t)
  PROVE  Works(t) /\ (FirstRound => FirstRound') /\ (LaterRound => LaterRound')
<1>0. DataOk /\ PcOk /\ LineOk
  BY DEF Base
<1>1. /\ cur = t /\ t \in Buffer /\ th[t].pc = "done" /\ Goes(t, "none")
      /\ \A x \in Thread \ {t} : th'[x] = th[x]
      /\ args'[t] = NoReq /\ \A b \in Buffer \ {t} : args'[b] = args[b]
      /\ Live' = Live \ {t} /\ Halt
  BY FinishDoes
<1>2. t # Main /\ t # Tcpip
  BY <1>1, Threads
<1>3. t \in Live \ {Main} /\ Main \in Live /\ Tcpip \in Live \ {Main, t}
  BY <1>1, <1>2, ThreadTurn
<1>4. Passes(t)
  <2>1. \A x \in Live \ {t} : Place(x)' = Place(x) - 1
    BY <1>0, <1>1, <1>2, <1>3, HaltLine
  <2>2. QED
    BY <2>1, <1>0, <1>1, <1>2, <1>3, PassesLine
<1>5. \A x \in Live \ {Main, t} : (Ran(x)' <=> Ran(x)) /\ (NextTo(x)' <=> NextTo(x))
  BY <1>4, PassKeeps
<1>6. /\ CallOk' /\ main' = main /\ Calling' = Calling \ {t}
      /\ \A b \in Calling \ {t} : Replied(b)' <=> Replied(b)
  BY FinishCall
<1>7. \A c \in Client : Fetcher(c)' \subseteq Fetcher(c) /\ Poster(c)' \subseteq Poster(c)
  <2>1. th'[t].pc = "none"
    BY <1>1 DEF Goes
  <2>2. \A b \in Buffer \ {t} : th'[b] = th[b] /\ args'[b] = args[b]
    BY <1>1, Threads
  <2>3. QED
    BY <2>1, <2>2 DEF Fetcher, Poster
<1>8. Works(t)
  <2>1. Main \in Thread \ {t} /\ \A x \in Live \ {Main, t} : x \in Thread \ {t}
    BY <1>2, Threads DEF Live
  <2>2. \A x \in Live \ {Main, t} : th'[x].pc = th[x].pc /\ th'[x].addr = th[x].addr
    BY <2>1, <1>1
  <2>3. QED
    BY <2>1, <2>2, <1>1, <1>3, <1>5, <1>6, <1>7 DEF Works
<1>9. ASSUME FirstRound
      PROVE  FirstRound'
  BY <1>6, <1>8, <1>9, FirstWorks
<1>10. ASSUME LaterRound
       PROVE  LaterRound'
  <2>1. \A x \in Live \ {Main, t} : Ran(x) /\ th'[x].wakeup => th[x].wakeup
    BY <1>1 DEF Live
  <2>2. \A b \in Calling' : b # t /\ b \in Calling \ {t}
    BY <1>6
  <2>3. QED
    BY <2>1, <2>2, <1>3, <1>5, <1>6, <1>8, <1>10, LaterWorks
<1>11. QED
  BY <1>8, <1>9, <1>10

\* A step of a thread that is not main.
LEMMA WorksInv ==
  ASSUME Base, WInv, CallOk', NEW t, Works(t),
         FirstRound => FirstRound', LaterRound => LaterRound'
  PROVE  WInv'
<1>0. CallOk /\ RanWaits /\ RoundOk
  BY DEF WInv
<1>1. cur = t /\ t # Main /\ th'[Main].pc = th[Main].pc /\ main' = main
  BY DEF Works
<1>2. th[Main].pc # "recv"
  BY <1>0, <1>1 DEF RoundOk
<1>3. RanWaits'
  <2>1. SUFFICES ASSUME NEW x \in (Live \ {Main})', Ran(x)'
                 PROVE  th'[x].addr # NoSem
    BY DEF RanWaits
  <2>2. CASE x = t
    BY <2>1, <2>2 DEF Works, Quiet
  <2>3. CASE x # t
    BY <2>1, <2>3, <1>0 DEF Works, RanWaits
  <2>4. QED
    BY <2>2, <2>3
<1>4. RoundOk'
  <2>1. th[Main].pc = "timer" => Calling' = {} /\ main'.i = 0
    BY <1>0, <1>1 DEF RoundOk, Works
  <2>2. th[Main].pc = "flush" => IF main'.i = 0 THEN FirstRound' ELSE LaterRound'
    BY <1>0, <1>1 DEF RoundOk
  <2>3. QED
    BY <2>1, <2>2, <1>1, <1>2 DEF RoundOk
<1>5. NoWorkLeft'
  BY <1>1, <1>2 DEF NoWorkLeft
<1>6. QED
  BY <1>3, <1>4, <1>5 DEF WInv

\* A step of main that leaves the other threads alone: they still wait.
LEMMA MainWaits ==
  ASSUME Base, RanWaits, NEW pc \in {"flush", "recv", "timer", "panic"}, MainGoes(pc)
  PROVE  /\ RanWaits' /\ Live' = Live /\ Calling' = Calling
         /\ \A c \in Client : Fetcher(c)' = Fetcher(c) /\ Poster(c)' = Poster(c)
         /\ Yield(Main) => MainYields /\ Place(Main)' = Len(queue)
<1>0. LineOk
  BY DEF Base
<1>1. /\ cur = Main /\ (UNCHANGED <<cur, queue>> \/ Yield(Main))
      /\ \A x \in Thread \ {Main} : th'[x] = th[x]
      /\ UNCHANGED args
  BY DEF MainGoes
<1>2. Live' = Live /\ Main \in Live
  BY <1>1, MainKeeps, MainTurn
<1>3. Calling' = Calling /\ \A c \in Client : Fetcher(c)' = Fetcher(c) /\ Poster(c)' = Poster(c)
  BY <1>1, Threads DEF Calling, Fetcher, Poster
<1>4. ASSUME Yield(Main)
      PROVE  MainYields /\ Place(Main)' = Len(queue)
  <2>1. /\ \A x \in Live \ {Main} : Place(x)' = Place(x) - 1
        /\ Place(Main)' = Len(queue)
    BY <1>0, <1>1, <1>2, <1>4, YieldLine
  <2>2. Len(queue) \in Nat
    BY <1>0 DEF LineOk, Lined
  <2>3. QED
    BY <2>1, <2>2, <1>0, <1>1, <1>2, MainYieldsLine
<1>5. RanWaits'
  <2>1. CASE Yield(Main)
    BY <2>1, <1>2, <1>4 DEF MainYields, RanWaits
  <2>2. CASE UNCHANGED <<cur, queue>>
    <3>1. \A x : Ran(x)' <=> Ran(x)
      BY <2>2 DEF Ran, Place
    <3>2. \A x \in Live \ {Main} : th'[x] = th[x]
      BY <1>1 DEF Live
    <3>3. QED
      BY <3>1, <3>2, <1>2 DEF RanWaits
  <2>3. QED
    BY <2>1, <2>2, <1>1
<1>6. QED
  BY <1>2, <1>3, <1>4, <1>5

\* Main yields: a later round begins.
LEMMA FlushInv ==
  ASSUME IInv, WInv, Flush
  PROVE  WInv'
<1>0. Base /\ DataOk /\ PcOk /\ CallOk /\ RanWaits /\ RoundOk /\ SocketsOk
  BY DEF WInv, IInv, Base
<1>1. /\ cur = Main /\ th[Main].pc = "flush" /\ main' = [main EXCEPT !.i = main.i + 1]
      /\ Yield(Main) /\ th' = th
  BY DEF Flush
<1>2. MainGoes("flush")
  BY <1>0, FlushBase
<1>3. /\ RanWaits' /\ Live' = Live /\ Calling' = Calling
      /\ \A c \in Client : Fetcher(c)' = Fetcher(c) /\ Poster(c)' = Poster(c)
      /\ MainYields /\ Place(Main)' = Len(queue)
  BY <1>0, <1>1, <1>2, MainWaits
<1>4. /\ CallOk' /\ CallSame
      /\ \A b \in Calling : Replied(b)' <=> Replied(b)
  <2>1. CallOk' /\ CallSame
    BY <1>0, <1>2, MainCall
  <2>2. QED
    BY <2>1, <1>0, StillCall
<1>5. main.i \in Nat /\ main'.i = main.i + 1 /\ main'.i # 0
  <2>1. MaxYields \in Nat /\ main \in [va : 0 .. QUEUE_SIZE, i : 0 .. MaxYields]
    BY <1>0, Sized DEF Sizes, DataOk
  <2>2. main.i \in Nat /\ main'.i = main.i + 1
    BY <2>1, <1>1
  <2>3. QED
    BY <2>2
<1>6. ASSUME NEW c \in Client
      PROVE  Fetcher(c)' = {} \/ Poster(c)' = {}
  BY <1>0, <1>3, NoneMeet DEF SocketsOk, SocketOk
<1>7. Tcpip \in Live \ {Main}
  BY <1>0, Threads DEF PcOk, Live
<1>8. ASSUME NEW b \in Calling
      PROVE  /\ th'[b].pc = "op"
             /\ ~Replied(b)' => ~Ran(Tcpip)' /\ NextTo(b)'
  <2>1. b \in Live \ {Main} /\ th[b].pc \in {"callpost", "op"} /\ ~NextTo(b)
        /\ Place(b) \in Nat
    BY <1>0, <1>1, CallThreads, MainTurn DEF PollPoints
  <2>2. ~Ran(Tcpip)' /\ Ran(Tcpip)
    BY <1>3, <1>7 DEF MainYields
  <2>3. CASE main.i = 0
    <3>1. FirstRound
      BY <2>3, <1>0, <1>1 DEF RoundOk
    <3>2. th[b].pc = "op" /\ Place(b) = Len(queue)
      BY <3>1, <2>1, <1>1 DEF FirstRound
    <3>3. Place(b)' = Place(b) - 1
      BY <2>1, <1>3 DEF MainYields
    <3>4. NextTo(b)'
      BY <3>2, <3>3, <1>3 DEF NextTo
    <3>5. QED
      BY <3>2, <3>4, <2>2, <1>1
  <2>4. CASE main.i # 0
    <3>1. LaterRound
      BY <2>4, <1>0, <1>1 DEF RoundOk
    <3>2. th[b].pc = "op" /\ Replied(b)
      BY <3>1, <2>1, <2>2 DEF LaterRound
    <3>3. QED
      BY <3>2, <1>1, <1>4
  <2>5. QED
    BY <2>3, <2>4
<1>9. \A x \in (Live \ {Main})' : ~Ran(x)'
  BY <1>3 DEF MainYields
<1>10. LaterRound'
  BY <1>3, <1>6, <1>8, <1>9 DEF LaterRound
<1>11. RoundOk' /\ NoWorkLeft'
  BY <1>1, <1>5, <1>10 DEF RoundOk, NoWorkLeft
<1>12. QED
  BY <1>3, <1>4, <1>11 DEF WInv

\* What main finds when it has flushed: every other thread waits for a semaphore that is
\* at 0.
LEMMA FlushedWait ==
  ASSUME IInv, WInv, MaxYields # 0, cur = Main, th[Main].pc = "flush", ~FlushesMore,
         NEW t \in Live \ {Main}
  PROVE  Quiet(t) /\ ~WaitOver(t) /\ sems[WaitsFor(t)].counter = 0
<1>0. Base /\ DataOk /\ PcOk /\ WaitOk /\ RanWaits /\ RoundOk
  BY DEF WInv, IInv, Base
<1>1. t \in Thread
  BY DEF Live
<1>2. Ran(t) /\ th[t].pc \in PollPoints
  BY <1>0, MainTurn
<1>3. th[t].addr # NoSem
  BY <1>0, <1>2 DEF RanWaits
<1>4. ~th[t].wakeup
  <2>1. CASE main.i = 0
    <3>1. main.i < MaxYields
      BY <2>1, Sized DEF Sizes
    <3>2. QED
      BY <3>1, <1>1 DEF FlushesMore, WakeupsPending
  <2>2. CASE main.i # 0
    <3>1. LaterRound
      BY <2>2, <1>0 DEF RoundOk
    <3>2. QED
      BY <3>1, <1>2 DEF LaterRound, Quiet
  <2>3. QED
    BY <2>1, <2>2
<1>5. /\ th[t].addr = WaitsFor(t) /\ th[t].val = Asleep /\ sems[th[t].addr] = Asleep
  BY <1>0, <1>1, <1>3, <1>4 DEF WaitOk
<1>6. QED
  BY <1>2, <1>3, <1>4, <1>5 DEF Quiet, WaitOver, Asleep

\* So there is no call left.
LEMMA FlushedCalls ==
  ASSUME IInv, WInv, MaxYields # 0, cur = Main, th[Main].pc = "flush", ~FlushesMore
  PROVE  Calling = {}
<1>0. Base /\ DataOk /\ PcOk /\ CountOk /\ CallOk /\ RoundOk
  BY DEF WInv, IInv, Base
<1> SUFFICES ASSUME NEW b \in Calling PROVE FALSE
  OBVIOUS
<1>1. b \in Live \ {Main} /\ b \in Buffer /\ b # Tcpip /\ args[b].client \in Client
  BY <1>0, CallThreads
<1>2. th[b].pc \in {"callpost", "op"} /\ ~NextTo(b) /\ Ran(b)
  BY <1>0, <1>1, CallThreads, MainTurn DEF PollPoints
<1>3. Tcpip \in Live \ {Main}
  BY <1>0, Threads DEF PcOk, Live
<1>4. Ran(Tcpip)
  BY <1>0, <1>3, MainTurn
<1>5. th[b].pc = "op"
  <2>1. CASE main.i = 0
    BY <2>1, <1>0, <1>2 DEF RoundOk, FirstRound
  <2>2. CASE main.i # 0
    BY <2>2, <1>0, <1>2 DEF RoundOk, LaterRound
  <2>3. QED
    BY <2>1, <2>2
<1>6. ~Replied(b)
  <2>1. PICK c : c = args[b].client
    OBVIOUS
  <2>2. WaitsFor(b) = <<c, "op">> /\ c \in Client
    BY <2>1, <1>1, <1>5 DEF WaitsFor, Mail
  <2>3. OpCount(c) = 0
    BY <2>2, <1>1, FlushedWait DEF OpCount
  <2>4. QED
    BY <2>1, <2>2, <2>3 DEF Replied
<1>7. Posted(b)
  <2>1. CASE main.i = 0
    BY <2>1, <1>0, <1>5 DEF RoundOk, FirstRound
  <2>2. CASE main.i # 0
    BY <2>2, <1>0, <1>4, <1>5, <1>6 DEF RoundOk, LaterRound
  <2>3. QED
    BY <2>1, <2>2
<1>8. th[Tcpip].pc = "fetch" /\ WaitsFor(Tcpip) = <<Tcpip, "queued">>
  <2>1. th[Tcpip].pc \in PollPoints
    BY <1>0, <1>3, MainTurn
  <2>2. QED
    BY <2>1, <1>0 DEF PcOk, PollPoints, WaitsFor, Mail
<1>9. sems[<<Tcpip, "queued">>].counter = 0
  BY <1>3, <1>8, FlushedWait
<1>10. ~Getting(Tcpip)
  BY <1>0, NotInBox, Threads
<1>11. Msgs(Tcpip) = 1
  BY <1>7 DEF Posted
<1>12. sems[<<Tcpip, "queued">>].counter = 1 - 0
  BY <1>0, <1>10, <1>11, Threads DEF CountOk
<1>13. QED
  BY <1>9, <1>12

\* Main receives: there is no work left.
LEMMA ListenInv ==
  ASSUME IInv, WInv, MaxYields # 0, Listen
  PROVE  WInv'
<1>0. Base /\ DataOk /\ PcOk /\ CallOk /\ RanWaits
  BY DEF WInv, IInv, Base
<1>1. /\ cur = Main /\ th[Main].pc = "flush" /\ ~FlushesMore
      /\ UNCHANGED <<cur, queue, sems, mboxes, args, op>>
  BY DEF Listen, threads
<1>2. Calling = {} /\ \A t \in Live \ {Main} :
        Quiet(t) /\ ~WaitOver(t) /\ sems[WaitsFor(t)].counter = 0
  BY <1>1, FlushedCalls, FlushedWait
<1>3. PICK pc \in {"recv", "panic"} : /\ MainGoes(pc)
                                      /\ pc = "panic" => FreeBuffers = {}
  BY <1>0, ListenBase
<1>4. CallOk' /\ RanWaits' /\ Calling' = {} /\ Live' = Live
  BY <1>0, <1>2, <1>3, MainCall, MainWaits
<1>5. th'[Main].pc = pc /\ \A t \in Thread \ {Main} : th'[t] = th[t]
  BY <1>3 DEF MainGoes
<1>6. CASE pc = "panic"
  BY <1>4, <1>5, <1>6 DEF WInv, RoundOk, NoWorkLeft
<1>7. CASE pc = "recv"
  <2>1. main'.i = 0
    <3>1. FreeBuffers # {}
      <4>1. ASSUME FreeBuffers = {}
            PROVE  FALSE
        <5>1. th' = [th EXCEPT ![Main].pc = "panic"]
          BY <4>1 DEF Listen
        <5>2. th'[Main].pc = "panic"
          BY <5>1, <1>0, Threads DEF DataOk, Contexts
        <5>3. QED
          BY <5>2, <1>5, <1>7
      <4>2. QED
        BY <4>1
    <3>2. main' = [va |-> Min(FreeBuffers), i |-> 0]
      BY <3>1 DEF Listen
    <3>3. QED
      BY <3>2
  <2>2. RoundOk'
    BY <2>1, <1>1, <1>4, <1>5, <1>7 DEF RoundOk
  <2>3. NoWorkLeft'
    <3>1. SUFFICES ASSUME NEW t \in Thread \ {Main}, th'[t].pc # "none"
                   PROVE  /\ th'[t].pc \in PollPoints /\ ~WaitOver(t)'
                          /\ sems'[WaitsFor(t)'].counter = 0
      BY DEF NoWorkLeft
    <3>2. th'[t] = th[t] /\ t \in Live \ {Main}
      BY <3>1, <1>5 DEF Live
    <3>3. WaitsFor(t)' = WaitsFor(t)
      BY <3>2, <1>1, WaitsForSame
    <3>4. WaitOver(t)' = WaitOver(t)
      BY <3>2, <1>1 DEF WaitOver
    <3>5. QED
      BY <3>2, <3>3, <3>4, <1>1, <1>2 DEF Quiet
  <2>4. QED
    BY <2>2, <2>3, <1>4 DEF WInv
<1>8. QED
  BY <1>6, <1>7

\* The timer's request and its answer, between which there is no call.
LEMMA TimerInv ==
  ASSUME IInv, WInv, TimerRequest \/ TimerReply
  PROVE  WInv'
<1>0. Base /\ DataOk /\ CallOk /\ RanWaits /\ RoundOk
  BY DEF WInv, IInv, Base
<1>1. PICK pc \in {"timer", "flush"} : MainGoes(pc)
  BY <1>0, TimerRequestBase, TimerReplyBase
<1>2. th[Main].pc \in {"recv", "timer"} /\ main'.i = main.i
  BY <1>0 DEF TimerRequest, TimerReply, DataOk
<1>3. CallOk' /\ RanWaits' /\ Calling' = {} /\ main'.i = 0
  BY <1>0, <1>1, <1>2, MainCall, MainWaits DEF RoundOk
<1>4. th'[Main].pc = pc
  BY <1>1 DEF MainGoes
<1>5. FirstRound'
  BY <1>3 DEF FirstRound
<1>6. RoundOk' /\ NoWorkLeft'
  BY <1>3, <1>4, <1>5 DEF RoundOk, NoWorkLeft
<1>7. QED
  BY <1>3, <1>6 DEF WInv

\* A request is accepted: the first round begins, and the new thread comes last in it.
LEMMA OpensInv ==
  ASSUME IInv, WInv, NEW b, NEW req, NEW pc, Opens(b, req, pc), Starts(req, pc),
         main' = [main EXCEPT !.va = 0]
  PROVE  WInv'
<1>0. Base /\ DataOk /\ CallOk /\ RanWaits /\ RoundOk
  BY DEF WInv, IInv, Base
<1>1. /\ th[Main].pc = "recv" /\ th'[Main].pc = "flush" /\ Live' = Live \cup {b}
  BY DEF Opens
<1>2. Calling = {} /\ main'.i = 0
  BY <1>0, <1>1 DEF RoundOk, DataOk
<1>3. CallOk' /\ \A d \in Calling' : d = b /\ th'[d].pc = "callpost"
  BY <1>0, <1>2, AcceptCall
<1>4. /\ MainYields /\ b \notin Live /\ Len(queue) \in Nat
      /\ Place(b)' = Len(queue) /\ Place(Main)' = Len(queue) + 1
  BY <1>0, AcceptMain
<1>5. NextTo(b)' /\ ~Ran(b)'
  <2>1. Place(b)' = Place(Main)' - 1 /\ ~(Place(b)' > Place(Main)')
    BY <1>4
  <2>2. QED
    BY <2>1 DEF NextTo, Ran
<1>6. RanWaits'
  BY <1>1, <1>4, <1>5 DEF RanWaits, MainYields
<1>7. FirstRound'
  BY <1>3, <1>5 DEF FirstRound
<1>8. RoundOk' /\ NoWorkLeft'
  BY <1>1, <1>2, <1>7 DEF RoundOk, NoWorkLeft
<1>9. QED
  BY <1>3, <1>6, <1>8 DEF WInv

\* The three requests do that.
LEMMA RequestInv ==
  ASSUME IInv, WInv, NEW c \in Client, RecvRequest(c) \/ CallRequest(c) \/ PacketRequest(c)
  PROVE  WInv'
<1>0. Base /\ DataOk
  BY DEF IInv, Base
<1>1. PICK req, pc : Accept(req, pc) /\ Starts(req, pc)
  <2>1. CASE RecvRequest(c)
    BY <2>1 DEF RecvRequest, Starts, Recvs
  <2>2. CASE CallRequest(c)
    BY <2>2 DEF CallRequest, Starts, Calls
  <2>3. CASE PacketRequest(c)
    <3>1. Cardinality(Arrived) < MaxPkts
      BY <2>3 DEF PacketRequest
    <3>2. arrived[c] + 1 \in 1 .. MaxPkts
      BY <3>1, <1>0, MayArrive
    <3>3. QED
      BY <2>3, <3>2 DEF PacketRequest, Starts, Inputs
  <2>4. QED
    BY <2>1, <2>2, <2>3
<1>2. Opens(main.va, req, pc)
  BY <1>0, <1>1, AcceptDoes
<1>3. main' = [main EXCEPT !.va = 0]
  BY <1>1 DEF Accept
<1>4. PICK b : b = main.va
  OBVIOUS
<1>5. Opens(b, req, pc)
  BY <1>2, <1>4
<1>6. QED
  BY <1>1, <1>3, <1>5, OpensInv

\* Every step keeps what is said of the rounds.
LEMMA NextWInv ==
  ASSUME MaxYields # 0, IInv, WInv, [Next]_vars
  PROVE  WInv'
<1>0. Base /\ CallOk
  BY DEF IInv, WInv
<1>1. ASSUME NEW t \in Thread, SemWait(t)
      PROVE  WInv'
  <2>1. \/ Acquires(t, WaitsFor(t)) /\ Goes(t, After(th[t].pc))
        \/ Blocks(t, WaitsFor(t))
    BY <1>0, <1>1, SemWaitDoes DEF Base
  <2>2. CallOk'
    BY <1>0, <1>1, <2>1, AcquireCall, BlockCall
  <2>3. Works(t) /\ (FirstRound => FirstRound') /\ (LaterRound => LaterRound')
    BY <1>0, <1>1, <2>1, AcquireRound, BlockRound
  <2>4. QED
    BY <1>0, <2>2, <2>3, WorksInv
<1>2. ASSUME NEW t \in Thread, Post(t) \/ Fetch(t) \/ Finish(t)
      PROVE  WInv'
  <2>1. CallOk'
    BY <1>0, <1>2, PostCall, FetchCall, FinishCall
  <2>2. Works(t) /\ (FirstRound => FirstRound') /\ (LaterRound => LaterRound')
    BY <1>0, <1>2, PostRound, FetchRound, FinishRound
  <2>3. QED
    BY <1>0, <2>1, <2>2, WorksInv
<1>3. ASSUME TcpipCall
      PROVE  WInv'
  BY <1>0, <1>3, TcpipCallCall, TcpipCallRound, WorksInv
<1>4. ASSUME Flush \/ Listen \/ TimerReply \/ TimerRequest
      PROVE  WInv'
  BY <1>4, FlushInv, ListenInv, TimerInv
<1>5. ASSUME NEW c \in Client, RecvRequest(c) \/ CallRequest(c) \/ PacketRequest(c)
      PROVE  WInv'
  BY <1>5, RequestInv
<1>6. ASSUME UNCHANGED vars
      PROVE  WInv'
  <2>1. CallOk' /\ \A b \in Calling : /\ Posted(b)' <=> Posted(b)
                                      /\ Replied(b)' <=> Replied(b)
    <3>1. CallSame
      BY <1>6 DEF vars, CallSame, Calling
    <3>2. QED
      BY <3>1, <1>0, StillCall
  <2>2. /\ Live' = Live /\ Calling' = Calling /\ th' = th /\ main' = main /\ cur' = cur
        /\ queue' = queue /\ sems' = sems
    BY <1>6 DEF vars, Live, Calling
  <2>3. \A x : /\ Place(x)' = Place(x) /\ (Ran(x)' <=> Ran(x)) /\ (NextTo(x)' <=> NextTo(x))
               /\ (Quiet(x)' <=> Quiet(x))
    BY <2>2 DEF Place, Ran, NextTo, Quiet
  <2>4. \A c : Fetcher(c)' = Fetcher(c) /\ Poster(c)' = Poster(c)
    BY <1>6 DEF vars, Fetcher, Poster
  <2>5. FirstRound => FirstRound'
    BY <2>1, <2>2, <2>3 DEF FirstRound
  <2>6. LaterRound => LaterRound'
    BY <2>1, <2>2, <2>3, <2>4 DEF LaterRound
  <2>7. RanWaits' /\ RoundOk'
    BY <2>2, <2>3, <2>5, <2>6 DEF WInv, RanWaits, RoundOk
  <2>8. NoWorkLeft'
    <3>1. \A t : WaitOver(t)' = WaitOver(t) /\ WaitsFor(t)' = WaitsFor(t)
      BY <1>6 DEF vars, WaitOver, WaitsFor, Mail
    <3>2. QED
      BY <2>2, <3>1 DEF WInv, NoWorkLeft
  <2>9. QED
    BY <2>1, <2>7, <2>8 DEF WInv
<1>7. QED
  BY <1>1, <1>2, <1>3, <1>4, <1>5, <1>6 DEF Next, ThreadStep

\* It holds at the start: the tcpip thread waits, and there is no call.
LEMMA InitWInv == Init => WInv
<1> SUFFICES ASSUME Init PROVE WInv
  OBVIOUS
<1>0. Base /\ PcOk /\ LineOk
  BY InitBase DEF Base
<1>1. cur = Main /\ queue = <<Tcpip>> /\ main.i = 0 /\ th[Main].pc = "flush"
  BY Threads DEF Init, Awake
<1>2. Calling = {}
  BY DEF Init, Calling, Calls, NoReq
<1>3. th[Tcpip].pc = "fetch" /\ th[Tcpip].addr = <<Tcpip, "queued">>
  BY Threads DEF Init, Awake
<1>4. CallOk
  <2>1. Msgs(Tcpip) = 0
    BY Threads DEF Init, Msgs, Count
  <2>2. \A c \in Client : OpCount(c) = 0
    BY Threads, Sems DEF Init, OpCount
  <2>3. QED
    BY <2>1, <2>2, <1>2, <1>3 DEF CallOk, NoCall
<1>5. RanWaits
  <2>1. \A t \in Live \ {Main} : t = Tcpip
    BY Threads DEF Init, Live, Awake
  <2>2. QED
    BY <2>1, <1>3, Sems DEF RanWaits
<1>6. RoundOk /\ NoWorkLeft
  BY <1>1, <1>2 DEF RoundOk, FirstRound, NoWorkLeft
<1>7. QED
  BY <1>4, <1>5, <1>6 DEF WInv

\* When the server stops to receive, no thread of it has anything left to do: a packet
\* never waits in a mailbox with its reader, nor a call with the tcpip thread, until
\* something else arrives.  Main must yield once at least between two requests.
THEOREM AlwaysNoWorkLeft ==
  ASSUME MaxYields # 0
  PROVE  Spec => []NoWorkLeft
<1>1. Init => WInv
  BY InitWInv
<1>2. IInv /\ WInv /\ [Next]_vars => WInv'
  BY NextWInv
<1>3. WInv => NoWorkLeft
  BY DEF WInv
<1>4. QED
  BY <1>1, <1>2, <1>3, AlwaysIInv, PTL DEF Spec
=============================================================================
