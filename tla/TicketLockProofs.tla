--------------------------- MODULE TicketLockProofs ---------------------------
(***************************************************************************)
(* For any number of CPUs below the width of the counters, and whether or  *)
(* not the compiled loop reads own again: the tickets out are the ones     *)
(* from own up to next, no check of spinlock.c panics, and the ticket lock *)
(* implements KernelLock and QueueLock.                                    *)
(***************************************************************************)
EXTENDS TicketLock, FiniteSetTheorems, TLAPS

\* The CPUs with a ticket, and those that are recorded as the owner.
Out == Cardinality(Queued)
Recorded == {"kernel", "uncompare", "owner", "disown"}

\* The tickets out are own, own + 1, ..., and next is the one after them.
Queue ==
  /\ next = (own + Out) % Width
  /\ \A c \in Queued : Before(c) < Out
  /\ \A c, d \in Queued : target[c] = target[d] => c = d
  /\ \A c \in CPUs : pc[c] \in Held => target[c] = own

\* lk->cpu is the CPU that has recorded itself, and what it reads of own is true.
Owner ==
  /\ \A c \in CPUs : cpu = c <=> pc[c] \in Recorded
  /\ \A c \in CPUs : pc[c] = "uncompare" => seen[c] = own
  /\ NoPanic

TicketInv == TypeOK /\ Queue /\ Owner

-----------------------------------------------------------------------------
\* Counting modulo Width.
LEMMA ModOf ==
  ASSUME NEW x \in 0 .. 2 * Width - 1
  PROVE  x % Width = IF x < Width THEN x ELSE x - Width
<1>1. Width \in Nat \ {0}
  BY SizeAssumption
<1>2. QED
  BY <1>1

\* How far a ticket is from own, around the end of the counters.
LEMMA BeforeIs ==
  ASSUME TypeOK, NEW c \in CPUs
  PROVE  /\ Before(c) = IF own <= target[c] THEN target[c] - own
                        ELSE target[c] - own + Width
         /\ Before(c) \in Tickets
<1>1. target[c] \in Tickets /\ own \in Tickets /\ Width \in Nat /\ Width > 0
  BY SizeAssumption DEF TypeOK
<1>2. target[c] - own + Width \in 0 .. 2 * Width - 1
  BY <1>1 DEF Tickets
<1>3. QED
  BY <1>1, <1>2, ModOf DEF Before, Tickets

\* No more CPUs have a ticket than there are.
LEMMA FewOut ==
  /\ IsFiniteSet(Queued) /\ Out \in 0 .. NCPU
  /\ \A c \in CPUs \ Queued : Out < NCPU
<1>1. IsFiniteSet(CPUs) /\ Cardinality(CPUs) = NCPU
  <2>1. 0 \in Int /\ NCPU - 1 \in Int /\ NCPU \in Nat \ {0}
    BY SizeAssumption
  <2>2. QED
    BY <2>1, FS_Interval DEF CPUs
<1>2. Queued \in SUBSET CPUs
  BY DEF Queued
<1>3. IsFiniteSet(Queued) /\ Out \in Nat /\ Out <= NCPU
  BY <1>1, <1>2, FS_Subset, FS_CardinalityType DEF Out
<1>4. ASSUME NEW c \in CPUs \ Queued PROVE Out # NCPU
  BY <1>1, <1>2, <1>4, FS_Subset DEF Out
<1>5. NCPU \in Nat
  BY SizeAssumption
<1>6. QED
  BY <1>3, <1>4, <1>5

-----------------------------------------------------------------------------
\* Nobody has a ticket at first.
LEMMA InitTicketInv == Init => TicketInv
<1> SUFFICES ASSUME Init PROVE TicketInv
  OBVIOUS
<1>1. TypeOK
  BY SizeAssumption DEF Init, TypeOK, Tickets, Labels
<1>2. Queued = {}
  BY DEF Init, Queued, Held
<1>3. Out = 0
  BY <1>2, FS_EmptySet DEF Out
<1>4. (own + Out) % Width = 0
  <2>1. 0 \in 0 .. 2 * Width - 1 /\ 0 < Width
    BY SizeAssumption
  <2>2. own + Out = 0
    BY <1>3 DEF Init
  <2>3. QED
    BY <2>1, <2>2, ModOf
<1>5. Queue
  BY <1>2, <1>4 DEF Init, Queue, Held
<1>6. Owner
  BY NoCpuAssumption DEF Init, Owner, NoPanic, Recorded
<1>7. QED
  BY <1>1, <1>5, <1>6 DEF TicketInv

\* Only one CPU is called.
LEMMA OneHeld ==
  ASSUME Queue, NEW c \in CPUs, NEW d \in CPUs, pc[c] \in Held, pc[d] \in Held
  PROVE  c = d
BY DEF Queue, Queued

\* A step that draws and calls no ticket keeps the queue.
LEMMA QueueKept ==
  ASSUME TypeOK, Queue, UNCHANGED <<own, next, target>>,
         \A c \in CPUs : (c \in Queued') = (c \in Queued),
         \A c \in CPUs : pc'[c] \in Held => pc[c] \in Held \/ target[c] = own
  PROVE  Queue'
<1>1. Queued' = Queued
  BY DEF Queued
<1>2. Out' = Out
  BY <1>1 DEF Out
<1>3. \A c \in CPUs : Before(c)' = Before(c)
  BY DEF Before
<1>4. Queued \subseteq CPUs
  BY DEF Queued
<1>5. next' = (own' + Out') % Width
  BY <1>2 DEF Queue
<1>6. \A c \in Queued' : Before(c)' < Out'
  BY <1>1, <1>2, <1>3, <1>4 DEF Queue
<1>7. \A c, d \in Queued' : target'[c] = target'[d] => c = d
  BY <1>1 DEF Queue
<1>8. \A c \in CPUs : pc'[c] \in Held => target'[c] = own'
  BY DEF Queue
<1>9. QED
  BY <1>5, <1>6, <1>7, <1>8 DEF Queue

\* lock xadd: the CPU gets the ticket after all the others'.
LEMMA TicketDrawn ==
  ASSUME TicketInv, NEW c \in CPUs, TakeTicket(c)
  PROVE  /\ c \notin Queued /\ Queued' = Queued \cup {c} /\ Queued \subseteq CPUs
         /\ Out \in Nat /\ Out < NCPU /\ Out' = Out + 1
         /\ next = IF own + Out < Width THEN own + Out ELSE own + Out - Width
         /\ next' = IF next = Width - 1 THEN 0 ELSE next + 1
         /\ (own + Out + 1) % Width
              = IF own + Out + 1 < Width THEN own + Out + 1 ELSE own + Out + 1 - Width
         /\ target'[c] = next /\ Before(c)' = Out
         /\ \A d \in CPUs \ {c} : target'[d] = target[d] /\ Before(d)' = Before(d)
<1>1. /\ TypeOK /\ Queue /\ Owner
      /\ own \in Tickets /\ next \in Tickets /\ target \in [CPUs -> Tickets]
      /\ pc \in [CPUs -> Labels]
      /\ Width \in Nat /\ NCPU \in Nat /\ NCPU < Width /\ Tickets = 0 .. Width - 1
  BY SizeAssumption DEF TicketInv, TypeOK, Tickets
<1>2. /\ pc[c] = "take" /\ pc' = [pc EXCEPT ![c] = "wait"]
      /\ target' = [target EXCEPT ![c] = next] /\ next' = (next + 1) % Width
      /\ UNCHANGED <<own, cpu, seen>>
  BY DEF TakeTicket, Goto
<1>3. c \notin Queued /\ Queued' = Queued \cup {c} /\ Queued \subseteq CPUs
  BY <1>1, <1>2 DEF Queued, Held
<1>4. Out \in Nat /\ Out < NCPU /\ Out' = Out + 1
  <2>1. IsFiniteSet(Queued) /\ Out \in 0 .. NCPU /\ Out < NCPU
    BY <1>3, FewOut
  <2>2. Cardinality(Queued \cup {c}) = Out + 1
    BY <1>3, <2>1, FS_AddElement DEF Out
  <2>3. QED
    BY <1>3, <2>1, <2>2 DEF Out
<1>5. /\ next = IF own + Out < Width THEN own + Out ELSE own + Out - Width
      /\ next' = IF next = Width - 1 THEN 0 ELSE next + 1
      /\ (own + Out + 1) % Width
           = IF own + Out + 1 < Width THEN own + Out + 1 ELSE own + Out + 1 - Width
  <2>0. own \in Int /\ next \in Int /\ Width \in Nat /\ Out \in Int
    BY <1>1, <1>4 DEF Tickets
  <2>1. /\ own + Out \in 0 .. 2 * Width - 1 /\ own + Out + 1 \in 0 .. 2 * Width - 1
        /\ next + 1 \in 0 .. 2 * Width - 1
    BY <1>1, <1>4
  <2>2. next = (own + Out) % Width
    BY <1>1 DEF Queue
  <2>3. (own + Out) % Width = IF own + Out < Width THEN own + Out ELSE own + Out - Width
    BY <2>0, <2>1, ModOf
  <2>4. (next + 1) % Width = IF next + 1 < Width THEN next + 1 ELSE next + 1 - Width
    BY <2>0, <2>1, ModOf
  <2>5. (own + Out + 1) % Width
          = IF own + Out + 1 < Width THEN own + Out + 1 ELSE own + Out + 1 - Width
    BY <2>0, <2>1, ModOf
  <2>6. (next + 1) % Width = IF next = Width - 1 THEN 0 ELSE next + 1
    BY <1>1, <2>4
  <2>7. QED
    BY <1>2, <2>2, <2>3, <2>5, <2>6
<1>6. /\ target'[c] = next /\ Before(c)' = Out
      /\ \A d \in CPUs \ {c} : target'[d] = target[d] /\ Before(d)' = Before(d)
  <2>0. own \in Int /\ next \in Int /\ Width \in Nat
    BY <1>1 DEF Tickets
  <2>1. target'[c] = next /\ \A d \in CPUs \ {c} : target'[d] = target[d]
    BY <1>1, <1>2
  <2>2. \A d \in CPUs \ {c} : Before(d)' = Before(d)
    BY <1>2, <2>1 DEF Before
  <2>3. Before(c)' = (next - own + Width) % Width
    BY <1>2, <2>1 DEF Before
  <2>4. next - own + Width \in 0 .. 2 * Width - 1
    BY <1>1
  <2>5. (next - own + Width) % Width
          = IF next - own + Width < Width THEN next - own + Width
            ELSE next - own + Width - Width
    BY <2>0, <2>4, ModOf
  <2>6. (next - own + Width) % Width = Out
    BY <1>1, <1>4, <1>5, <2>5
  <2>7. QED
    BY <2>1, <2>2, <2>3, <2>6
<1>7. QED
  BY <1>3, <1>4, <1>5, <1>6

\* So the tickets out are again those from own up to next.
LEMMA TakeTicketInv ==
  ASSUME TicketInv, NEW c \in CPUs, TakeTicket(c)
  PROVE  TicketInv'
<1>1. /\ TypeOK /\ Queue /\ Owner
      /\ own \in Tickets /\ next \in Tickets /\ target \in [CPUs -> Tickets]
      /\ pc \in [CPUs -> Labels]
      /\ Width \in Nat /\ NCPU \in Nat /\ NCPU < Width /\ Tickets = 0 .. Width - 1
  BY SizeAssumption DEF TicketInv, TypeOK, Tickets
<1>2. /\ pc[c] = "take" /\ pc' = [pc EXCEPT ![c] = "wait"]
      /\ target' = [target EXCEPT ![c] = next] /\ next' = (next + 1) % Width
      /\ UNCHANGED <<own, cpu, seen>>
  BY DEF TakeTicket, Goto
<1>3. c \notin Queued /\ Queued' = Queued \cup {c} /\ Queued \subseteq CPUs
  BY TicketDrawn
<1>4. Out \in Nat /\ Out < NCPU /\ Out' = Out + 1
  BY TicketDrawn
<1>5. /\ next = IF own + Out < Width THEN own + Out ELSE own + Out - Width
      /\ next' = IF next = Width - 1 THEN 0 ELSE next + 1
      /\ (own + Out + 1) % Width
           = IF own + Out + 1 < Width THEN own + Out + 1 ELSE own + Out + 1 - Width
  BY TicketDrawn
<1>7. /\ target'[c] = next /\ Before(c)' = Out
      /\ \A d \in CPUs \ {c} : target'[d] = target[d] /\ Before(d)' = Before(d)
  BY TicketDrawn
<1>6. TypeOK'
  <2>1. next' \in Tickets
    BY <1>1, <1>5
  <2>2. pc' \in [CPUs -> Labels]
    BY <1>1, <1>2 DEF Labels
  <2>3. target' \in [CPUs -> Tickets]
    BY <1>1, <1>2
  <2>4. QED
    BY <1>1, <1>2, <2>1, <2>2, <2>3 DEF TypeOK
<1>8. Queue'
  <2>1. next' = (own' + Out') % Width
    <3>1. own' + Out' = own + Out + 1
      BY <1>1, <1>2, <1>4
    <3>2. next' = IF own + Out + 1 < Width THEN own + Out + 1 ELSE own + Out + 1 - Width
      BY <1>1, <1>4, <1>5
    <3>3. QED
      BY <1>5, <3>1, <3>2
  <2>2. \A d \in Queued : Before(d) \in Nat /\ Before(d) < Out
    BY <1>1, <1>3, BeforeIs DEF Queue
  <2>3. \A d \in Queued' : Before(d)' < Out'
    BY <1>3, <1>4, <1>7, <2>2
  <2>4. \A d \in Queued : target[d] # next
    <3>1. SUFFICES ASSUME NEW d \in Queued, target[d] = next PROVE FALSE
      OBVIOUS
    <3>2. Before(d) = Before(c)'
      BY <1>2, <1>7, <3>1 DEF Before
    <3>3. QED
      BY <1>4, <1>7, <2>2, <3>1, <3>2
  <2>5. \A d, e \in Queued' : target'[d] = target'[e] => d = e
    BY <1>1, <1>3, <1>7, <2>4 DEF Queue
  <2>6. \A d \in CPUs : pc'[d] \in Held => target'[d] = own'
    BY <1>1, <1>2, <1>7 DEF Queue, Held
  <2>7. QED
    BY <2>1, <2>3, <2>5, <2>6 DEF Queue
<1>9. Owner'
  BY <1>1, <1>2 DEF Owner, NoPanic, Recorded
<1>10. QED
  BY <1>6, <1>8, <1>9 DEF TicketInv

\* own++: every other CPU with a ticket is one nearer to its turn.
LEMMA OneNearer ==
  ASSUME TicketInv, NEW c \in CPUs, Release(c)
  PROVE  \A d \in Queued \ {c} : Before(d)' = Before(d) - 1 /\ Before(d) \in Nat
<1>1. /\ TypeOK /\ Queue /\ Owner
      /\ own \in Tickets /\ next \in Tickets /\ target \in [CPUs -> Tickets]
      /\ pc \in [CPUs -> Labels]
      /\ Width \in Nat /\ NCPU \in Nat /\ NCPU < Width /\ Tickets = 0 .. Width - 1
  BY SizeAssumption DEF TicketInv, TypeOK, Tickets
<1>2. /\ pc[c] = "release" /\ pc' = [pc EXCEPT ![c] = "user"]
      /\ own' = (own + 1) % Width
      /\ UNCHANGED <<next, cpu, target, seen>>
  BY DEF Release, Goto
<1>3. /\ c \in Queued /\ Queued' = Queued \ {c} /\ Queued \subseteq CPUs
      /\ target[c] = own
  BY <1>1, <1>2 DEF Queued, Held, Queue
<1>5. own' = IF own = Width - 1 THEN 0 ELSE own + 1
  <2>0. own \in Int /\ Width \in Nat
    BY <1>1 DEF Tickets
  <2>1. own + 1 \in 0 .. 2 * Width - 1
    BY <1>1
  <2>2. (own + 1) % Width = IF own + 1 < Width THEN own + 1 ELSE own + 1 - Width
    BY <2>0, <2>1, ModOf
  <2>3. QED
    BY <1>1, <1>2, <2>2
<1>7. ASSUME NEW d \in Queued \ {c} PROVE Before(d)' = Before(d) - 1 /\ Before(d) \in Nat
  <2>1. d \in CPUs /\ target[d] \in Tickets /\ target[d] # own
    BY <1>1, <1>3 DEF Queue
  <2>2. Before(d) = IF own <= target[d] THEN target[d] - own ELSE target[d] - own + Width
    BY <1>1, <2>1, BeforeIs
  <2>3. Before(d)' = (target[d] - own' + Width) % Width
    BY <1>2 DEF Before
  <2>0. target[d] \in Int /\ own' \in Int /\ Width \in Nat
    BY <1>1, <1>5, <2>1 DEF Tickets
  <2>4. target[d] - own' + Width \in 0 .. 2 * Width - 1
    BY <1>1, <1>5, <2>1
  <2>5. (target[d] - own' + Width) % Width
          = IF target[d] - own' + Width < Width THEN target[d] - own' + Width
            ELSE target[d] - own' + Width - Width
    BY <2>0, <2>4, ModOf
  <2>6. target[d] \in 0 .. Width - 1 /\ own \in 0 .. Width - 1
    BY <1>1, <2>1
  <2>7. CASE own < target[d]
    <3>1. own' = own + 1
      BY <1>5, <2>6, <2>7
    <3>2. Before(d)' = target[d] - own - 1
      BY <2>3, <2>5, <2>6, <2>7, <3>1, <1>1
    <3>3. QED
      BY <2>2, <2>6, <2>7, <3>2
  <2>8. CASE own > target[d]
    <3>1. Before(d)' = target[d] - own - 1 + Width
      <4>1. CASE own = Width - 1
        <5>1. own' = 0
          BY <1>5, <4>1
        <5>2. target[d] - own' + Width = target[d] + Width
          BY <1>1, <2>6, <5>1
        <5>3. (target[d] - own' + Width) % Width = target[d]
          BY <1>1, <2>5, <2>6, <5>1, <5>2
        <5>4. QED
          BY <1>1, <2>3, <2>6, <4>1, <5>3
      <4>2. CASE own # Width - 1
        <5>1. own' = own + 1
          BY <1>5, <4>2
        <5>2. target[d] - own' + Width < Width
          BY <1>1, <2>6, <2>8, <5>1
        <5>3. QED
          <6>1. (target[d] - own' + Width) % Width = target[d] - own' + Width
            BY <2>5, <5>2
          <6>2. target[d] - own' + Width = target[d] - own - 1 + Width
            BY <1>1, <2>6, <5>1
          <6>3. QED
            BY <2>3, <6>1, <6>2
      <4>3. QED
        BY <4>1, <4>2
    <3>2. QED
      BY <1>1, <2>2, <2>6, <2>8, <3>1
  <2>9. QED
    BY <2>1, <2>6, <2>7, <2>8
<1>8. QED
  BY <1>7

\* The next ticket is called.
LEMMA ReleaseInv ==
  ASSUME TicketInv, NEW c \in CPUs, Release(c)
  PROVE  TicketInv'
<1>1. /\ TypeOK /\ Queue /\ Owner
      /\ own \in Tickets /\ next \in Tickets /\ target \in [CPUs -> Tickets]
      /\ pc \in [CPUs -> Labels]
      /\ Width \in Nat /\ NCPU \in Nat /\ NCPU < Width /\ Tickets = 0 .. Width - 1
  BY SizeAssumption DEF TicketInv, TypeOK, Tickets
<1>2. /\ pc[c] = "release" /\ pc' = [pc EXCEPT ![c] = "user"]
      /\ own' = (own + 1) % Width
      /\ UNCHANGED <<next, cpu, target, seen>>
  BY DEF Release, Goto
<1>3. /\ c \in Queued /\ Queued' = Queued \ {c} /\ Queued \subseteq CPUs
      /\ target[c] = own
  BY <1>1, <1>2 DEF Queued, Held, Queue
<1>4. Out \in 1 .. NCPU /\ Out' = Out - 1
  <2>1. IsFiniteSet(Queued) /\ Out \in 0 .. NCPU
    BY FewOut
  <2>2. Cardinality(Queued \ {c}) = Out - 1
    BY <1>3, <2>1, FS_RemoveElement DEF Out
  <2>3. Out # 0
    BY <1>3, <2>1, FS_EmptySet DEF Out
  <2>4. QED
    BY <1>1, <1>3, <2>1, <2>2, <2>3 DEF Out
<1>5. own' = IF own = Width - 1 THEN 0 ELSE own + 1
  <2>0. own \in Int /\ Width \in Nat
    BY <1>1 DEF Tickets
  <2>1. own + 1 \in 0 .. 2 * Width - 1
    BY <1>1
  <2>2. (own + 1) % Width = IF own + 1 < Width THEN own + 1 ELSE own + 1 - Width
    BY <2>0, <2>1, ModOf
  <2>3. QED
    BY <1>1, <1>2, <2>2
<1>6. TypeOK'
  <2>1. own' \in Tickets
    BY <1>1, <1>5
  <2>2. pc' \in [CPUs -> Labels]
    BY <1>1, <1>2 DEF Labels
  <2>3. QED
    BY <1>1, <1>2, <2>1, <2>2 DEF TypeOK
<1>7. \A d \in Queued \ {c} : Before(d)' = Before(d) - 1 /\ Before(d) \in Nat
  BY OneNearer
<1>8. Queue'
  <2>1. next' = (own' + Out') % Width
    <3>0. own \in Int /\ own' \in Int /\ Out \in Int /\ Width \in Nat
      BY <1>1, <1>4, <1>5 DEF Tickets
    <3>1. own + Out \in 0 .. 2 * Width - 1 /\ own' + Out - 1 \in 0 .. 2 * Width - 1
      BY <1>1, <1>4, <1>5
    <3>2. (own + Out) % Width = IF own + Out < Width THEN own + Out ELSE own + Out - Width
      BY <3>0, <3>1, ModOf
    <3>3. (own' + Out - 1) % Width
            = IF own' + Out - 1 < Width THEN own' + Out - 1
              ELSE own' + Out - 1 - Width
      <4>1. \A o, k \in Int :
              o + k - 1 \in 0 .. 2 * Width - 1 =>
                (o + k - 1) % Width
                  = IF o + k - 1 < Width THEN o + k - 1 ELSE o + k - 1 - Width
        BY <3>0, ModOf
      <4>2. QED
        BY <3>0, <3>1, <4>1
    <3>4. next = (own + Out) % Width
      BY <1>1 DEF Queue
    <3>5. (own + Out) % Width = (own' + Out - 1) % Width
      BY <1>1, <1>4, <1>5, <3>2, <3>3
    <3>6. QED
      BY <1>2, <1>4, <3>4, <3>5
  <2>2. \A d \in Queued' : Before(d)' < Out'
    <3>1. SUFFICES ASSUME NEW d \in Queued \ {c} PROVE Before(d)' < Out'
      BY <1>3
    <3>2. Before(d) < Out
      BY <1>1 DEF Queue
    <3>3. QED
      BY <1>4, <1>7, <3>2
  <2>3. \A d, e \in Queued' : target'[d] = target'[e] => d = e
    BY <1>1, <1>2, <1>3 DEF Queue
  <2>4. \A d \in CPUs : pc'[d] \notin Held
    <3>1. SUFFICES ASSUME NEW d \in CPUs, pc'[d] \in Held PROVE FALSE
      OBVIOUS
    <3>2. d # c /\ pc[d] \in Held
      BY <1>1, <1>2, <3>1 DEF Held
    <3>3. QED
      BY <1>1, <1>2, <3>2, OneHeld DEF Held
  <2>5. QED
    BY <2>1, <2>2, <2>3, <2>4 DEF Queue
<1>9. Owner'
  <2>1. \A d \in CPUs : pc[d] # "uncompare"
    BY <1>1, <1>2, OneHeld DEF Held
  <2>2. QED
    BY <1>1, <1>2, <2>1 DEF Owner, NoPanic, Recorded
<1>10. QED
  BY <1>6, <1>8, <1>9 DEF TicketInv

\* While a CPU has a ticket, own is not next, so that spin_unlock's first test passes.
LEMMA OwnIsNotNext ==
  ASSUME TicketInv, NEW c \in Queued
  PROVE  own # next
<1>1. own \in Tickets /\ Width \in Nat /\ NCPU \in Nat /\ NCPU < Width
      /\ next = (own + Out) % Width
  BY SizeAssumption DEF TicketInv, TypeOK, Queue
<1>2. Out \in 1 .. NCPU
  BY <1>1, FewOut, FS_EmptySet DEF Out
<1>3. own + Out \in 0 .. 2 * Width - 1
  BY <1>1, <1>2 DEF Tickets
<1>6. own \in Int /\ Out \in Int /\ Width \in Nat
  BY <1>1, <1>2 DEF Tickets
<1>4. (own + Out) % Width = IF own + Out < Width THEN own + Out ELSE own + Out - Width
  BY <1>3, <1>6, ModOf
<1>5. QED
  BY <1>1, <1>2, <1>4 DEF Tickets

\* The other accesses of spin_lock and spin_unlock.
LEMMA OtherInv ==
  ASSUME TicketInv, NEW c \in CPUs,
         \/ HoldingReadsOwn(c) \/ HoldingReadsNext(c) \/ HoldingReadsCpu(c)
         \/ Wait(c) \/ RecordOwner(c)
         \/ UnlockReadsOwn(c) \/ UnlockReadsNext(c) \/ UnlockReadsCpu(c) \/ Disown(c)
  PROVE  TicketInv'
<1> USE DEF Goto
<1>1. /\ TypeOK /\ Queue /\ Owner
      /\ UNCHANGED <<own, next, target>>
      /\ pc \in [CPUs -> Labels] /\ seen \in [CPUs -> Tickets] /\ own \in Tickets
  BY DEF TicketInv, TypeOK, HoldingReadsOwn, HoldingReadsNext, HoldingReadsCpu, Wait,
     RecordOwner, UnlockReadsOwn, UnlockReadsNext, UnlockReadsCpu, Disown
<1>2. ASSUME HoldingReadsOwn(c) \/ HoldingReadsNext(c) PROVE TypeOK' /\ Owner' /\ Queue'
  <2>1. TypeOK'
    BY <1>1, <1>2 DEF TypeOK, Labels, HoldingReadsOwn, HoldingReadsNext
  <2>2. Owner'
    BY <1>1, <1>2 DEF Owner, NoPanic, Recorded, Labels, HoldingReadsOwn, HoldingReadsNext
  <2>3. Queue'
    BY <1>1, <1>2, QueueKept DEF Queued, Held, HoldingReadsOwn, HoldingReadsNext
  <2>4. QED
    BY <2>1, <2>2, <2>3
<1>3. ASSUME HoldingReadsCpu(c) PROVE TypeOK' /\ Owner' /\ Queue'
  <2>1. cpu # c
    BY <1>1, <1>3 DEF HoldingReadsCpu, Owner, Recorded
  <2>2. pc[c] = "holding" /\ pc' = [pc EXCEPT ![c] = "take"] /\ UNCHANGED <<cpu, seen>>
    BY <1>3, <2>1 DEF HoldingReadsCpu
  <2>3. TypeOK'
    BY <1>1, <2>2 DEF TypeOK, Labels
  <2>4. Owner'
    BY <1>1, <2>2 DEF Owner, NoPanic, Recorded
  <2>5. Queue'
    BY <1>1, <2>2, QueueKept DEF Queued, Held
  <2>6. QED
    BY <2>3, <2>4, <2>5
<1>4. ASSUME Wait(c) PROVE TypeOK' /\ Owner' /\ Queue'
  <2>1. TypeOK'
    BY <1>1, <1>4 DEF TypeOK, Labels, Wait
  <2>2. Owner'
    BY <1>1, <1>4 DEF Owner, NoPanic, Recorded, Wait
  <2>3. Queue'
    BY <1>1, <1>4, QueueKept DEF Queued, Held, Wait
  <2>4. QED
    BY <2>1, <2>2, <2>3
<1>5. ASSUME RecordOwner(c) PROVE TypeOK' /\ Owner' /\ Queue'
  <2>1. pc[c] = "acquired" /\ pc' = [pc EXCEPT ![c] = "kernel"] /\ cpu' = c
        /\ UNCHANGED seen
    BY <1>5 DEF RecordOwner
  <2>2. \A d \in CPUs \ {c} : pc[d] \notin Held
    BY <1>1, <2>1, OneHeld DEF Held
  <2>3. TypeOK'
    BY <1>1, <2>1 DEF TypeOK, Labels
  <2>4. Owner'
    BY <1>1, <2>1, <2>2 DEF Owner, NoPanic, Recorded, Held
  <2>5. Queue'
    BY <1>1, <2>1, QueueKept DEF Queued, Held
  <2>6. QED
    BY <2>3, <2>4, <2>5
<1>6. ASSUME UnlockReadsOwn(c) PROVE TypeOK' /\ Owner' /\ Queue'
  <2>1. TypeOK'
    BY <1>1, <1>6 DEF TypeOK, Labels, UnlockReadsOwn
  <2>2. Owner'
    BY <1>1, <1>6 DEF Owner, NoPanic, Recorded, UnlockReadsOwn
  <2>3. Queue'
    BY <1>1, <1>6, QueueKept DEF Queued, Held, UnlockReadsOwn
  <2>4. QED
    BY <2>1, <2>2, <2>3
<1>7. ASSUME UnlockReadsNext(c) PROVE TypeOK' /\ Owner' /\ Queue'
  <2>1. c \in Queued /\ seen[c] = own
    BY <1>1, <1>7 DEF UnlockReadsNext, Queued, Held, Owner
  <2>2. pc[c] = "uncompare" /\ pc' = [pc EXCEPT ![c] = "owner"] /\ UNCHANGED <<cpu, seen>>
    BY <1>7, <2>1, OwnIsNotNext DEF UnlockReadsNext
  <2>3. TypeOK'
    BY <1>1, <2>2 DEF TypeOK, Labels
  <2>4. Owner'
    BY <1>1, <2>2 DEF Owner, NoPanic, Recorded
  <2>5. Queue'
    BY <1>1, <2>2, QueueKept DEF Queued, Held
  <2>6. QED
    BY <2>3, <2>4, <2>5
<1>8. ASSUME UnlockReadsCpu(c) PROVE TypeOK' /\ Owner' /\ Queue'
  <2>1. cpu = c
    BY <1>1, <1>8 DEF UnlockReadsCpu, Owner, Recorded
  <2>2. pc[c] = "owner" /\ pc' = [pc EXCEPT ![c] = "disown"] /\ UNCHANGED <<cpu, seen>>
    BY <1>8, <2>1 DEF UnlockReadsCpu
  <2>3. TypeOK'
    BY <1>1, <2>2 DEF TypeOK, Labels
  <2>4. Owner'
    BY <1>1, <2>2 DEF Owner, NoPanic, Recorded
  <2>5. Queue'
    BY <1>1, <2>2, QueueKept DEF Queued, Held
  <2>6. QED
    BY <2>3, <2>4, <2>5
<1>9. ASSUME Disown(c) PROVE TypeOK' /\ Owner' /\ Queue'
  <2>1. pc[c] = "disown" /\ pc' = [pc EXCEPT ![c] = "release"] /\ cpu' = NoCpu
        /\ UNCHANGED seen
    BY <1>9 DEF Disown
  <2>2. \A d \in CPUs \ {c} : pc[d] \notin Held
    BY <1>1, <2>1, OneHeld DEF Held
  <2>3. TypeOK'
    BY <1>1, <2>1 DEF TypeOK, Labels
  <2>4. Owner'
    BY <1>1, <2>1, <2>2, NoCpuAssumption DEF Owner, NoPanic, Recorded, Held
  <2>5. Queue'
    BY <1>1, <2>1, QueueKept DEF Queued, Held
  <2>6. QED
    BY <2>3, <2>4, <2>5
<1>10. QED
  BY <1>2, <1>3, <1>4, <1>5, <1>6, <1>7, <1>8, <1>9 DEF TicketInv

\* The invariant is inductive.
LEMMA NextTicketInv == TicketInv /\ [Next]_vars => TicketInv'
<1> SUFFICES ASSUME TicketInv, [Next]_vars PROVE TicketInv'
  OBVIOUS
<1>1. CASE UNCHANGED vars
  <2>1. UNCHANGED <<own, next, cpu, target, seen, pc>>
    BY <1>1 DEF vars
  <2>2. UNCHANGED <<Out, Queued>> /\ \A c \in CPUs : Before(c)' = Before(c)
    BY <2>1 DEF Out, Queued, Before
  <2>3. QED
    BY <2>1, <2>2 DEF TicketInv, TypeOK, Queue, Owner, NoPanic, Queued
<1>2. QED
  BY <1>1, TakeTicketInv, ReleaseInv, OtherInv DEF Next, Lock, Unlock

\* The counters, the tickets out and the owner agree for ever.
THEOREM TicketInvariant == Spec => []TicketInv
BY InitTicketInv, NextTicketInv, PTL DEF Spec

\* The tickets out are distinct and fewer than the CPUs, and only the CPU whose ticket
\* is called is in the kernel, however often the counters have wrapped.
THEOREM TicketsHold == Spec => []TicketsInOrder
<1>1. TicketInv => TicketsInOrder
  <2> SUFFICES ASSUME TicketInv PROVE TicketsInOrder
    OBVIOUS
  <2>1. ASSUME NEW c \in Queued PROVE Before(c) < NCPU
    <3>1. Before(c) < Out /\ Before(c) \in Tickets /\ Out \in 0 .. NCPU
      BY FewOut, BeforeIs DEF TicketInv, Queue, Queued
    <3>2. QED
      BY <3>1, SizeAssumption DEF Tickets
  <2>2. QED
    BY <2>1 DEF TicketInv, Queue, TicketsInOrder
<1>2. QED
  BY <1>1, TicketInvariant, PTL

\* Neither spin_lock's nor spin_unlock's check of the owner ever panics.
THEOREM ChecksPass == Spec => []NoPanic
<1>1. TicketInv => NoPanic
  BY DEF TicketInv, Owner
<1>2. QED
  BY <1>1, TicketInvariant, PTL

-----------------------------------------------------------------------------
\* The refinements: the turn of the loop that sees its ticket enters, and the
\* xadd of own leaves.

\* The CPU that is called is the holder.
LEMMA HolderIs ==
  ASSUME Queue, NEW c \in CPUs, pc[c] \in Held
  PROVE  holder = c
BY OneHeld DEF holder

\* There is none while nobody is called.
LEMMA HolderNone ==
  ASSUME \A c \in CPUs : pc[c] \notin Held
  PROVE  holder = NoCpu
BY DEF holder

\* The lock is free when a CPU sees its ticket.
LEMMA HolderEnters ==
  ASSUME TicketInv, NEW c \in CPUs, Wait(c), own = target[c]
  PROVE  /\ holder = NoCpu /\ holder' = c
         /\ pc[c] = "wait" /\ pc' = [pc EXCEPT ![c] = "acquired"]
<1>1. pc[c] = "wait" /\ pc' = [pc EXCEPT ![c] = "acquired"]
  BY DEF Wait, Goto
<1>2. \A d \in CPUs : pc[d] \notin Held
  <2>1. c \in Queued
    BY <1>1 DEF Queued
  <2>2. SUFFICES ASSUME NEW d \in CPUs, pc[d] \in Held PROVE FALSE
    OBVIOUS
  <2>3. d = c
    BY <2>1, <2>2 DEF TicketInv, Queue, Queued
  <2>4. QED
    BY <1>1, <2>2, <2>3 DEF Held
<1>3. pc'[c] \in Held /\ \A d \in CPUs : pc'[d] \in Held => d = c
  BY <1>1, <1>2 DEF Held, TicketInv, TypeOK
<1>4. holder' = c
  BY <1>3 DEF holder
<1>5. QED
  BY <1>1, <1>2, <1>4, HolderNone

\* It is free again when spin_unlock has called the next ticket.
LEMMA HolderLeaves ==
  ASSUME TicketInv, NEW c \in CPUs, Release(c)
  PROVE  /\ holder = c /\ holder' = NoCpu
         /\ pc[c] = "release" /\ pc' = [pc EXCEPT ![c] = "user"]
<1>1. pc[c] = "release" /\ pc' = [pc EXCEPT ![c] = "user"]
  BY DEF Release, Goto
<1>2. holder = c
  BY <1>1, HolderIs DEF Held, TicketInv
<1>3. \A d \in CPUs \ {c} : pc[d] \notin Held
  BY <1>1, OneHeld DEF Held, TicketInv
<1>4. \A d \in CPUs : pc'[d] \notin Held
  BY <1>1, <1>3 DEF Held, TicketInv, TypeOK
<1>5. holder' = NoCpu
  BY <1>4 DEF holder
<1>6. QED
  BY <1>1, <1>2, <1>5

\* No other step changes who is called.
LEMMA HolderKept ==
  ASSUME TicketInv, \A d \in CPUs : pc'[d] \in Held <=> pc[d] \in Held
  PROVE  holder' = holder
<1>1. CASE \E d \in CPUs : pc[d] \in Held
  <2>1. PICK d \in CPUs : pc[d] \in Held
    BY <1>1
  <2>2. holder = d
    BY <2>1, HolderIs DEF TicketInv
  <2>3. \A e \in CPUs : pc'[e] \in Held => e = d
    BY <2>1, OneHeld DEF TicketInv
  <2>4. holder' = d
    BY <2>1, <2>3 DEF holder
  <2>5. QED
    BY <2>2, <2>4
<1>2. CASE \A d \in CPUs : pc[d] \notin Held
  BY <1>2 DEF holder
<1>3. QED
  BY <1>1, <1>2

\* The steps that are neither of the two leave the labels where they are for the
\* refinements, except that taking a ticket joins those that wait.
LEMMA OtherSteps ==
  ASSUME TicketInv, TicketInv', NEW c \in CPUs, Lock(c) \/ Unlock(c),
         ~(Wait(c) /\ own = target[c]), ~Release(c)
  PROVE  /\ \A d \in CPUs : pc'[d] \in Held <=> pc[d] \in Held
         /\ own' = own
         /\ \/ TakeTicket(c)
            \/ target' = target /\ waiting' = waiting
<1> USE DEF Goto
<1>1. \/ HoldingReadsOwn(c) \/ HoldingReadsNext(c) \/ HoldingReadsCpu(c)
      \/ TakeTicket(c) \/ RecordOwner(c)
      \/ Wait(c) /\ own # target[c]
      \/ UnlockReadsOwn(c) \/ UnlockReadsNext(c) \/ UnlockReadsCpu(c) \/ Disown(c)
  BY Zenon DEF Lock, Unlock
<1>2. pc \in [CPUs -> Labels] /\ pc'[c] # "panic" /\ \A d \in CPUs \ {c} : pc'[d] = pc[d]
  BY <1>1 DEF TicketInv, TypeOK, Owner, NoPanic, HoldingReadsOwn, HoldingReadsNext,
     HoldingReadsCpu, TakeTicket, RecordOwner, Wait, UnlockReadsOwn,
     UnlockReadsNext, UnlockReadsCpu, Disown
<1>3. pc'[c] \in Held <=> pc[c] \in Held
  BY <1>1, <1>2 DEF Held, HoldingReadsOwn, HoldingReadsNext, HoldingReadsCpu,
     TakeTicket, RecordOwner, Wait, UnlockReadsOwn, UnlockReadsNext,
     UnlockReadsCpu, Disown
<1>4. own' = own /\ (TakeTicket(c) \/ target' = target)
  BY <1>1 DEF HoldingReadsOwn, HoldingReadsNext, HoldingReadsCpu,
     TakeTicket, RecordOwner, Wait, UnlockReadsOwn, UnlockReadsNext,
     UnlockReadsCpu, Disown
<1>5. ~TakeTicket(c) => (pc'[c] \in {"wait", "stuck"} <=> pc[c] \in {"wait", "stuck"})
  BY <1>1, <1>2 DEF HoldingReadsOwn, HoldingReadsNext, HoldingReadsCpu,
     RecordOwner, Wait, UnlockReadsOwn, UnlockReadsNext, UnlockReadsCpu, Disown
<1>6. ~TakeTicket(c) => waiting' = waiting
  BY <1>2, <1>5 DEF waiting
<1>7. QED
  BY <1>2, <1>3, <1>4, <1>6

\* What an acquisition, a release and the other steps are to KernelLock.
LEMMA StepRefines == TicketInv /\ TicketInv' /\ [Next]_vars => [K!Next]_holder
<1> SUFFICES ASSUME TicketInv, TicketInv', [Next]_vars PROVE [K!Next]_holder
  OBVIOUS
<1>1. CASE UNCHANGED vars
  BY <1>1, HolderKept DEF vars
<1>2. ASSUME NEW c \in CPUs, Lock(c) \/ Unlock(c) PROVE [K!Next]_holder
  <2>1. CASE Wait(c) /\ own = target[c]
    BY <2>1, HolderEnters DEF K!Next, K!Acquire
  <2>2. CASE Release(c)
    BY <2>2, HolderLeaves DEF K!Next, K!Release
  <2>3. CASE ~(Wait(c) /\ own = target[c]) /\ ~Release(c)
    BY <1>2, <2>3, OtherSteps, HolderKept
  <2>4. QED
    BY <2>1, <2>2, <2>3
<1>3. QED
  BY <1>1, <1>2 DEF Next

\* With tickets, too, the kernel gets what KernelLock promises.
THEOREM TicketRefinement == Spec => ImplementsKernelLock
<1>1. Init => K!Init
  BY DEF Init, K!Init, holder, Held
<1>2. QED
  BY <1>1, StepRefines, TicketInvariant, PTL DEF Spec, ImplementsKernelLock, K!Spec

-----------------------------------------------------------------------------
\* The order.

\* Those ahead of a CPU stay the same while the same CPUs wait in the same order.
LEMMA AheadKept ==
  ASSUME waiting' = waiting,
         \A d, e \in waiting : Before(d)' < Before(e)' <=> Before(d) < Before(e)
  PROVE  ahead' = ahead
BY DEF ahead

\* Drawing a ticket is asking: whoever waits, waits with an earlier ticket.
LEMMA DrawingAsks ==
  ASSUME TicketInv, NEW c \in CPUs, TakeTicket(c)
  PROVE  Q!Ask(c)
<1>1. /\ pc[c] = "take" /\ pc' = [pc EXCEPT ![c] = "wait"] /\ pc \in [CPUs -> Labels]
  BY DEF TakeTicket, Goto, TicketInv, TypeOK
<1>2. c \notin waiting /\ waiting' = waiting \cup {c} /\ waiting \subseteq Queued
  BY <1>1 DEF waiting, Queued
<1>3. /\ Before(c)' = Out /\ Out \in Nat
      /\ \A d \in CPUs \ {c} : Before(d)' = Before(d)
      /\ Queued \subseteq CPUs /\ c \notin Queued
  BY TicketDrawn
<1>4. \A d \in waiting : /\ Before(d)' = Before(d) /\ Before(d) < Out /\ Before(d) \in Nat
                         /\ d \in CPUs \ {c}
  BY <1>2, <1>3, BeforeIs DEF TicketInv, Queue, Tickets
<1>5. ahead' = [ahead EXCEPT ![c] = waiting]
  <2>1. {d \in waiting' : Before(d)' < Before(c)'} = waiting
    BY <1>2, <1>3, <1>4
  <2>2. \A d \in waiting :
          {e \in waiting' : Before(e)' < Before(d)'} = {e \in waiting : Before(e) < Before(d)}
    BY <1>2, <1>3, <1>4
  <2>3. \A d \in CPUs : ahead'[d] = IF d = c THEN waiting ELSE ahead[d]
    BY <1>2, <2>1, <2>2 DEF ahead
  <2>4. ahead' = [d \in CPUs |-> ahead'[d]] /\ ahead = [d \in CPUs |-> ahead[d]]
    BY DEF ahead
  <2>5. QED
    BY <2>3, <2>4
<1>6. holder' = holder
  <2>1. \A d \in CPUs : pc'[d] \in Held <=> pc[d] \in Held
    BY <1>1 DEF Held
  <2>2. QED
    BY <2>1, HolderKept
<1>7. QED
  BY <1>2, <1>5, <1>6 DEF Q!Ask

\* Seeing one's ticket is entering: no ticket out is earlier.
LEMMA SeeingEnters ==
  ASSUME TicketInv, NEW c \in CPUs, Wait(c), own = target[c]
  PROVE  Q!Enter(c)
<1>1. /\ holder = NoCpu /\ holder' = c
      /\ pc[c] = "wait" /\ pc' = [pc EXCEPT ![c] = "acquired"] /\ pc \in [CPUs -> Labels]
  BY HolderEnters DEF TicketInv, TypeOK
<1>2. c \in waiting /\ waiting' = waiting \ {c} /\ waiting \subseteq CPUs
  BY <1>1 DEF waiting
<1>3. UNCHANGED <<own, target>>
  BY DEF Wait
<1>4. \A d \in CPUs : Before(d)' = Before(d) /\ Before(d) \in Nat
  BY <1>3, BeforeIs DEF Before, TicketInv, Tickets
<1>5. Before(c) = 0
  BY BeforeIs DEF TicketInv, TypeOK, Tickets
<1>6. ahead[c] = {}
  BY <1>2, <1>4, <1>5 DEF ahead
<1>7. \A d \in waiting' :
        {e \in waiting' : Before(e)' < Before(d)'} = {e \in waiting : Before(e) < Before(d)} \ {c}
  BY <1>2, <1>4
<1>8. ahead' = [d \in CPUs |-> ahead[d] \ {c}]
  BY <1>2, <1>6, <1>7 DEF ahead
<1>9. QED
  BY <1>1, <1>2, <1>6, <1>8 DEF Q!Enter

\* Calling the next ticket is leaving: the order of those that wait stays.
LEMMA CallingLeaves ==
  ASSUME TicketInv, NEW c \in CPUs, Release(c)
  PROVE  Q!Leave(c)
<1>1. /\ holder = c /\ holder' = NoCpu
      /\ pc[c] = "release" /\ pc' = [pc EXCEPT ![c] = "user"] /\ pc \in [CPUs -> Labels]
  BY HolderLeaves DEF TicketInv, TypeOK
<1>2. waiting' = waiting /\ waiting \subseteq Queued \ {c}
  BY <1>1 DEF waiting, Queued
<1>3. \A d \in waiting : Before(d)' = Before(d) - 1 /\ Before(d) \in Nat
  BY <1>2, OneNearer
<1>4. ahead' = ahead
  BY <1>2, <1>3, AheadKept
<1>5. QED
  BY <1>1, <1>2, <1>4 DEF Q!Leave

\* Every step of the ticket lock is one of QueueLock or leaves its state alone.
LEMMA StepKeepsOrder ==
  TicketInv /\ TicketInv' /\ [Next]_vars => [Q!Next]_<<holder, waiting, ahead>>
<1> SUFFICES ASSUME TicketInv, TicketInv', [Next]_vars
             PROVE  [Q!Next]_<<holder, waiting, ahead>>
  OBVIOUS
<1>1. ASSUME own' = own, target' = target, waiting' = waiting PROVE ahead' = ahead
  BY <1>1, AheadKept DEF Before
<1>2. CASE UNCHANGED vars
  <2>1. holder' = holder /\ waiting' = waiting
    BY <1>2, HolderKept DEF vars, waiting
  <2>2. QED
    BY <1>1, <1>2, <2>1 DEF vars
<1>3. ASSUME NEW c \in CPUs, Lock(c) \/ Unlock(c) PROVE [Q!Next]_<<holder, waiting, ahead>>
  <2>1. CASE Wait(c) /\ own = target[c]
    BY <2>1, SeeingEnters DEF Q!Next
  <2>2. CASE Release(c)
    BY <2>2, CallingLeaves DEF Q!Next
  <2>3. CASE TakeTicket(c)
    BY <2>3, DrawingAsks DEF Q!Next
  <2>4. CASE ~(Wait(c) /\ own = target[c]) /\ ~Release(c) /\ ~TakeTicket(c)
    BY <1>1, <1>3, <2>4, OtherSteps, HolderKept
  <2>5. QED
    BY <2>1, <2>2, <2>3, <2>4
<1>4. QED
  BY <1>2, <1>3 DEF Next

\* CPUs enter the kernel in the order of their tickets, for any number of CPUs
\* and however often the counters have wrapped.
THEOREM InOrder == Spec => FirstComeFirstServed
<1>1. Init => Q!Init
  BY DEF Init, Q!Init, holder, Held, waiting, ahead
<1>2. QED
  BY <1>1, StepKeepsOrder, TicketInvariant, PTL DEF Spec, FirstComeFirstServed, Q!Spec

===============================================================================
