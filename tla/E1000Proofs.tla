------------------------------ MODULE E1000Proofs ------------------------------
(***************************************************************************)
(* For rings of any size: the packets in the transmit ring are the ones    *)
(* that are not on the wire yet, the frames in the receive ring are the    *)
(* ones that are not copied yet, both in order, so that each direction is  *)
(* a PacketQueue.                                                          *)
(***************************************************************************)
EXTENDS E1000, Integers, TLAPS

One(b) == IF b THEN 1 ELSE 0
Around(x, n) == IF x < n THEN x ELSE x - n

\* Transmit: packets between ns_output and the wire, and how far descriptor i is
\* behind the card's head.
InRing == packets - One(output # 0) - Len(wire)
AfterHead(i) == IF tdh <= i THEN i - tdh ELSE i - tdh + NTXDESC

TxInv ==
  /\ InRing \in 0 .. NTXDESC
  /\ tdt = Around(tdh + InRing, NTXDESC)
  /\ \A i \in Tx : AfterHead(i) < InRing =>
       txq[i] = [dd |-> FALSE, pkt |-> Len(wire) + AfterHead(i) + 1]
  /\ output # 0 => output = packets
  /\ kernel \in {"fill", "tail"} => output # 0 /\ InRing < NTXDESC
  /\ kernel = "tail" => txq[tdt] = [dd |-> FALSE, pkt |-> output]
  /\ txdma # 0 => InRing > 0 /\ txdma = Len(wire) + 1

\* Receive: the descriptors the card has given back, how far descriptor i is
\* behind the driver's tail, and the frames that have left the ring.
AfterTail(i) == IF rdt < i THEN i - rdt - 1 ELSE i - rdt - 1 + NRXDESC
Filled == AfterTail(rdh)
Gone == Len(served) + One(input # 0) - One(kernel \in {"clear", "return"})

RxInv ==
  /\ frames = Gone + Filled + One(rxdma)
  /\ rxdma => Filled < NRXDESC - 1 /\ rxq[rdh].pkt = frames
  /\ \A i \in Rx : AfterTail(i) < Filled => rxq[i].pkt = Gone + AfterTail(i) + 1
  /\ \A i \in Rx : rxq[i].dd => AfterTail(i) < Filled
  /\ kernel \in {"copy", "clear", "return"} => Filled > 0
  /\ kernel = "copy" => input = 0
  /\ kernel \in {"clear", "return"} => input # 0
  /\ kernel = "return" => ~rxq[RxSlot].dd
  /\ input # 0 => input = Len(served) + 1

RingInv == TypeOK /\ TxInv /\ RxInv

-----------------------------------------------------------------------------
\* The registers count modulo the size of a ring.
LEMMA NextIs ==
  ASSUME NEW n \in Nat \ {0}, NEW i \in 0 .. n - 1
  PROVE  (i + 1) % n = Around(i + 1, n)
BY DEF Around

\* The types, in the form the steps use.
LEMMA Sizes ==
  ASSUME TypeOK
  PROVE  /\ NTXDESC \in Nat /\ NTXDESC > 0 /\ Tx = 0 .. NTXDESC - 1
         /\ NRXDESC \in Nat /\ NRXDESC > 1 /\ Rx = 0 .. NRXDESC - 1
         /\ packets \in Nat /\ frames \in Nat /\ output \in Nat /\ input \in Nat
         /\ txdma \in Nat /\ Len(wire) \in Nat /\ Len(served) \in Nat
         /\ tdh \in Tx /\ tdt \in Tx /\ rdh \in Rx /\ rdt \in Rx
BY E1000Assumption DEF TypeOK, Tx, Rx, Pkt, Frame

LEMMA InitRingInv == Init => RingInv
<1> SUFFICES ASSUME Init PROVE RingInv
  OBVIOUS
<1>1. TypeOK
  <2>1. 0 \in Tx /\ 0 \in Rx /\ 1 \in Rx /\ 0 \in Pkt /\ 0 \in Frame
    BY E1000Assumption DEF Tx, Rx, Pkt, Frame
  <2>2. <<>> \in Seq(Pkt \ {0}) /\ <<>> \in Seq(Frame \ {0})
    OBVIOUS
  <2>3. QED
    BY <2>1, <2>2 DEF Init, TxInit, RingInit, TypeOK, Steps
<1>2. TxInv
  <2>1. InRing = 0
    <3>1. packets = 0 /\ output = 0 /\ Len(wire) = 0
      BY DEF Init
    <3>2. One(output # 0) = 0
      BY <3>1 DEF One
    <3>3. QED
      BY <3>1, <3>2 DEF InRing
  <2>2. \A i \in Tx : ~(AfterHead(i) < 0)
    BY <1>1, Sizes DEF AfterHead
  <2>3. QED
    BY <1>1, <2>1, <2>2, Sizes DEF Init, RingInit, TxInv, Around
<1>3. RxInv
  BY <1>1, Sizes DEF Init, RingInit, RxInv, Filled, AfterTail, Gone, One
<1>4. QED
  BY <1>1, <1>2, <1>3 DEF RingInv

-----------------------------------------------------------------------------
\* A step of one direction leaves the other alone.

LEMMA TxKept ==
  ASSUME TxInv, UNCHANGED txvars, kernel' \in {kernel, "free", "copy", "clear", "return"}
  PROVE  TxInv'
BY DEF TxInv, txvars, InRing, AfterHead, Around

LEMMA RxKept ==
  ASSUME RxInv, UNCHANGED rxvars, kernel' \in {kernel, "fill", "tail", "free"},
         kernel \notin {"copy", "clear", "return"} \/ kernel' = kernel
  PROVE  RxInv'
BY DEF RxInv, rxvars, Gone, Filled, AfterTail, RxSlot

-----------------------------------------------------------------------------
\* ns_output takes a packet while it has none.
LEMMA OutputRecvInv == ASSUME RingInv, OutputRecv PROVE RingInv'
<1>1. TypeOK'
  <2>1. packets + 1 \in Pkt
    BY E1000Assumption DEF RingInv, TypeOK, OutputRecv, Pkt
  <2>2. QED
    BY <2>1 DEF RingInv, TypeOK, OutputRecv, rxvars
<1>2. /\ output' = packets + 1 /\ packets' = packets + 1 /\ output = 0
      /\ kernel = "free" /\ UNCHANGED <<kernel, txq, tdh, tdt, txdma, wire>>
      /\ packets \in Nat /\ Len(wire) \in Nat
  BY Sizes DEF OutputRecv, RingInv
<1>3. InRing' = InRing
  BY <1>2 DEF InRing, One
<1>4. TxInv'
  BY <1>2, <1>3 DEF RingInv, TxInv, AfterHead, Around
<1>5. RxInv'
  BY RxKept DEF RingInv, OutputRecv, rxvars
<1>6. QED
  BY <1>1, <1>4, <1>5 DEF RingInv

\* When all descriptors are in flight the one at the tail has no DD.
LEMMA TxCheckInv == ASSUME RingInv, TxCheck PROVE RingInv'
<1>1. TypeOK'
  BY DEF RingInv, TypeOK, TxCheck, Steps, txvars, rxvars
<1>2. /\ output # 0 /\ kernel' = "fill" /\ kernel = "free" /\ txq[tdt].dd
      /\ UNCHANGED <<txq, tdh, tdt, txdma, output, packets, wire>>
  BY DEF TxCheck, TxFree, txvars
<1>3. InRing # NTXDESC
  <2>1. SUFFICES ASSUME InRing = NTXDESC PROVE FALSE
    OBVIOUS
  <2>2. tdt = tdh
    BY <2>1, Sizes DEF RingInv, TxInv, Around
  <2>3. AfterHead(tdt) = 0 /\ AfterHead(tdt) < InRing
    BY <2>1, <2>2, Sizes DEF RingInv, AfterHead
  <2>4. txq[tdt] = [dd |-> FALSE, pkt |-> Len(wire) + AfterHead(tdt) + 1]
    BY <2>3, Sizes DEF RingInv, TxInv
  <2>5. QED
    BY <1>2, <2>4
<1>4. InRing < NTXDESC /\ InRing' = InRing
  BY <1>2, <1>3, Sizes DEF RingInv, TxInv, InRing
<1>5. TxInv'
  BY <1>2, <1>4 DEF RingInv, TxInv, AfterHead, Around
<1>6. RxInv'
  BY <1>2, RxKept DEF RingInv, TxCheck
<1>7. QED
  BY <1>1, <1>5, <1>6 DEF RingInv

\* The tail is behind the packets in flight.
LEMMA TailIsAfter ==
  ASSUME TypeOK, TxInv, InRing < NTXDESC
  PROVE  AfterHead(tdt) = InRing
<1>1. /\ tdh \in 0 .. NTXDESC - 1 /\ NTXDESC \in Nat
      /\ InRing \in Nat /\ tdt = Around(tdh + InRing, NTXDESC)
  BY Sizes DEF TxInv
<1>2. CASE tdh + InRing < NTXDESC
  BY <1>1, <1>2 DEF AfterHead, Around
<1>3. CASE ~(tdh + InRing < NTXDESC)
  BY <1>1, <1>3 DEF AfterHead, Around
<1>4. QED
  BY <1>2, <1>3

LEMMA TxFillInv == ASSUME RingInv, TxFill PROVE RingInv'
<1>1. TypeOK'
  BY DEF RingInv, TypeOK, TxFill, Steps, rxvars
<1>2. /\ kernel = "fill" /\ kernel' = "tail"
      /\ txq' = [txq EXCEPT ![tdt] = [dd |-> FALSE, pkt |-> output]]
      /\ UNCHANGED <<tdh, tdt, txdma, output, packets, wire>>
      /\ InRing < NTXDESC /\ output # 0 /\ tdt \in Tx
  BY Sizes DEF TxFill, RingInv, TxInv
<1>3. InRing' = InRing /\ \A i \in Tx : AfterHead(i)' = AfterHead(i)
  BY <1>2 DEF InRing, AfterHead
<1>4. txq'[tdt] = [dd |-> FALSE, pkt |-> output]
      /\ \A i \in Tx \ {tdt} : txq'[i] = txq[i]
  BY <1>2 DEF RingInv, TypeOK
<1>5. AfterHead(tdt) = InRing /\ InRing \in Nat
  BY <1>2, TailIsAfter DEF RingInv, TxInv
<1>6. TxInv'
  BY <1>2, <1>3, <1>4, <1>5 DEF RingInv, TxInv, Around
<1>7. RxInv'
  BY <1>2, RxKept DEF RingInv, TxFill
<1>8. QED
  BY <1>1, <1>6, <1>7 DEF RingInv

\* The tail moves past the packet that was filled in.
LEMMA TxTailInv == ASSUME RingInv, TxTail PROVE RingInv'
<1>1. /\ kernel = "tail" /\ kernel' = "free" /\ output' = 0 /\ output # 0
      /\ output = packets /\ tdt' = Around(tdt + 1, NTXDESC)
      /\ UNCHANGED <<txq, tdh, txdma, packets, wire>>
      /\ InRing < NTXDESC /\ InRing \in Nat
      /\ txq[tdt] = [dd |-> FALSE, pkt |-> output]
  <2>1. kernel = "tail" /\ tdt' = (tdt + 1) % NTXDESC /\ kernel' = "free" /\ output' = 0
        /\ UNCHANGED <<txq, tdh, txdma, packets, wire>>
    BY DEF TxTail, TxNext
  <2>2. output # 0 /\ output = packets /\ InRing < NTXDESC /\ InRing \in Nat
        /\ txq[tdt] = [dd |-> FALSE, pkt |-> output]
    BY <2>1, Sizes DEF RingInv, TxInv
  <2>3. (tdt + 1) % NTXDESC = Around(tdt + 1, NTXDESC)
    <3>1. NTXDESC \in Nat \ {0} /\ tdt \in 0 .. NTXDESC - 1
      BY Sizes DEF RingInv
    <3>2. QED
      BY <3>1, NextIs
  <2>4. QED
    BY <2>1, <2>2, <2>3
<1>2. packets \in Nat /\ Len(wire) \in Nat /\ NTXDESC \in Nat /\ NTXDESC > 0
      /\ tdh \in 0 .. NTXDESC - 1 /\ tdt \in 0 .. NTXDESC - 1 /\ Tx = 0 .. NTXDESC - 1
  BY Sizes DEF RingInv
<1>3. InRing' = InRing + 1 /\ InRing = packets - 1 - Len(wire)
  BY <1>1, <1>2 DEF InRing, One
<1>4. TypeOK'
  <2>1. tdt' \in Tx
    BY <1>1, <1>2 DEF Around
  <2>2. output' \in Pkt
    BY <1>1, E1000Assumption DEF Pkt
  <2>3. QED
    BY <1>1, <2>1, <2>2 DEF RingInv, TypeOK, TxTail, Steps, rxvars
<1>5. TxInv'
  <2>1. tdt' = Around(tdh' + InRing', NTXDESC)
    <3>1. tdt = Around(tdh + InRing, NTXDESC)
      BY DEF RingInv, TxInv
    <3>2. QED
      BY <1>1, <1>2, <1>3, <3>1 DEF Around
  <2>2. ASSUME NEW i \in Tx, AfterHead(i) < InRing + 1
        PROVE  txq[i] = [dd |-> FALSE, pkt |-> Len(wire) + AfterHead(i) + 1]
    <3>1. AfterHead(i) \in Nat
      BY <1>2 DEF AfterHead
    <3>2. CASE AfterHead(i) < InRing
      BY <3>2 DEF RingInv, TxInv
    <3>3. CASE AfterHead(i) = InRing
      <4>1. AfterHead(tdt) = InRing
        BY <1>1, TailIsAfter DEF RingInv
      <4>2. i = tdt
        BY <1>2, <3>3, <4>1 DEF AfterHead
      <4>3. Len(wire) + AfterHead(i) + 1 = output
        BY <1>1, <1>2, <1>3, <3>3
      <4>4. QED
        BY <1>1, <4>2, <4>3
    <3>4. QED
      BY <1>1, <2>2, <3>1, <3>2, <3>3
  <2>3. \A i \in Tx : AfterHead(i)' = AfterHead(i)
    BY <1>1 DEF AfterHead
  <2>4. InRing' \in 0 .. NTXDESC
    BY <1>1, <1>2, <1>3
  <2>5. txdma' # 0 => InRing' > 0 /\ txdma' = Len(wire') + 1
    BY <1>1, <1>3 DEF RingInv, TxInv
  <2>6. QED
    BY <1>1, <1>3, <2>1, <2>2, <2>3, <2>4, <2>5 DEF TxInv
<1>6. RxInv'
  BY <1>1, RxKept DEF RingInv, TxTail
<1>7. QED
  BY <1>4, <1>5, <1>6 DEF RingInv

\* External: the card fetches the oldest packet.
LEMMA CardFetchInv == ASSUME RingInv, CardFetch PROVE RingInv'
<1>1. /\ tdh # tdt /\ txdma' = txq[tdh].pkt /\ tdh \in Tx
      /\ UNCHANGED <<kernel, txq, tdh, tdt, output, packets, wire>>
  BY Sizes DEF CardFetch, RingInv
<1>2. InRing > 0 /\ InRing' = InRing
  BY <1>1, Sizes DEF RingInv, TxInv, Around, InRing
<1>3. AfterHead(tdh) = 0 /\ \A i \in Tx : AfterHead(i)' = AfterHead(i)
  BY <1>1, Sizes DEF RingInv, AfterHead
<1>4. txdma' = Len(wire) + 1
  <2>1. txq[tdh] = [dd |-> FALSE, pkt |-> Len(wire) + 0 + 1]
    BY <1>1, <1>2, <1>3 DEF RingInv, TxInv
  <2>2. QED
    BY <1>1, <2>1, Sizes DEF RingInv
<1>5. TypeOK'
  <2>1. txdma' \in Pkt
    BY <1>1 DEF RingInv, TypeOK
  <2>2. QED
    BY <1>1, <2>1 DEF RingInv, TypeOK, CardFetch, rxvars
<1>6. TxInv'
  BY <1>1, <1>2, <1>3, <1>4 DEF RingInv, TxInv, Around
<1>7. RxInv'
  BY <1>1, RxKept DEF RingInv, CardFetch
<1>8. QED
  BY <1>5, <1>6, <1>7 DEF RingInv

\* External: the packet is on the wire and the head moves on.
LEMMA CardSendInv == ASSUME RingInv, CardSend PROVE RingInv'
<1>1. /\ txdma # 0 /\ txdma' = 0 /\ wire' = Append(wire, txdma)
      /\ txq' = [txq EXCEPT ![tdh].dd = TRUE]
      /\ tdh' = Around(tdh + 1, NTXDESC)
      /\ UNCHANGED <<kernel, tdt, output, packets>>
      /\ InRing \in 1 .. NTXDESC
  <2>1. InRing \in 1 .. NTXDESC
    BY Sizes DEF CardSend, RingInv, TxInv
  <2>2. tdh' = Around(tdh + 1, NTXDESC)
    <3>1. NTXDESC \in Nat \ {0} /\ tdh \in 0 .. NTXDESC - 1
      BY Sizes DEF RingInv
    <3>2. (tdh + 1) % NTXDESC = Around(tdh + 1, NTXDESC)
      BY <3>1, NextIs
    <3>3. QED
      BY <3>2 DEF CardSend
  <2>3. QED
    BY <2>1, <2>2 DEF CardSend
<1>2. packets \in Nat /\ Len(wire) \in Nat /\ NTXDESC \in Nat /\ NTXDESC > 0
      /\ tdh \in 0 .. NTXDESC - 1 /\ tdt \in 0 .. NTXDESC - 1 /\ Tx = 0 .. NTXDESC - 1
  BY Sizes DEF RingInv
<1>3. Len(wire') = Len(wire) + 1
  BY <1>1 DEF RingInv, TypeOK
<1>4. InRing' = InRing - 1
  BY <1>1, <1>2, <1>3 DEF InRing, One
<1>5. tdh' \in Tx
  BY <1>1, <1>2 DEF Around
<1>6. \A i \in Tx \ {tdh} : txq'[i] = txq[i]
  BY <1>1 DEF RingInv, TypeOK
<1>7. TypeOK'
  <2>1. txq' \in [Tx -> [dd : BOOLEAN, pkt : Pkt]]
    BY <1>1 DEF RingInv, TypeOK
  <2>2. wire' \in Seq(Pkt \ {0}) /\ txdma' \in Pkt
    BY <1>1, E1000Assumption DEF RingInv, TypeOK, Pkt
  <2>3. QED
    BY <1>1, <1>5, <2>1, <2>2 DEF RingInv, TypeOK, CardSend, rxvars
<1>8. \A i \in Tx : AfterHead(i)' = IF i = tdh THEN NTXDESC - 1 ELSE AfterHead(i) - 1
  <2>1. SUFFICES ASSUME NEW i \in Tx
                 PROVE  AfterHead(i)' = IF i = tdh THEN NTXDESC - 1 ELSE AfterHead(i) - 1
    OBVIOUS
  <2>2. AfterHead(i)' = IF tdh' <= i THEN i - tdh' ELSE i - tdh' + NTXDESC
    BY DEF AfterHead
  <2>3. CASE tdh = NTXDESC - 1
    <3>1. tdh' = 0
      BY <1>1, <1>2, <2>3 DEF Around
    <3>2. QED
      BY <1>2, <2>2, <2>3, <3>1 DEF AfterHead
  <2>4. CASE tdh # NTXDESC - 1
    <3>1. tdh' = tdh + 1
      <4>1. tdh + 1 < NTXDESC
        BY <1>2, <2>4
      <4>2. QED
        BY <1>1, <4>1 DEF Around
    <3>2. QED
      BY <1>2, <2>2, <3>1 DEF AfterHead
  <2>5. QED
    BY <2>3, <2>4
<1>9. TxInv'
  <2>1. InRing' \in 0 .. NTXDESC
    BY <1>1, <1>2, <1>4
  <2>2. tdt' = Around(tdh' + InRing', NTXDESC)
    <3>1. tdt = Around(tdh + InRing, NTXDESC)
      BY DEF RingInv, TxInv
    <3>2. QED
      BY <1>1, <1>2, <1>4, <3>1 DEF Around
  <2>3. ASSUME NEW i \in Tx, AfterHead(i)' < InRing'
        PROVE  txq'[i] = [dd |-> FALSE, pkt |-> Len(wire') + AfterHead(i)' + 1]
    <3>1. i # tdh
      BY <1>1, <1>2, <1>4, <1>8, <2>3
    <3>2. AfterHead(i)' = AfterHead(i) - 1 /\ AfterHead(i) \in Nat
      BY <1>2, <1>8, <3>1 DEF AfterHead
    <3>3. AfterHead(i) < InRing
      BY <1>1, <1>2, <1>4, <2>3, <3>2
    <3>4. txq[i] = [dd |-> FALSE, pkt |-> Len(wire) + AfterHead(i) + 1]
      BY <3>3 DEF RingInv, TxInv
    <3>5. Len(wire') + AfterHead(i)' + 1 = Len(wire) + AfterHead(i) + 1
      BY <1>2, <1>3, <3>2
    <3>6. QED
      BY <1>6, <3>1, <3>4, <3>5
  <2>4. kernel' = "tail" => txq'[tdt'] = [dd |-> FALSE, pkt |-> output']
    <3>1. SUFFICES ASSUME kernel = "tail" PROVE txq'[tdt] = [dd |-> FALSE, pkt |-> output]
      BY <1>1
    <3>2. InRing < NTXDESC /\ txq[tdt] = [dd |-> FALSE, pkt |-> output]
      BY <3>1 DEF RingInv, TxInv
    <3>3. tdt # tdh
      BY <1>1, <1>2, <3>2 DEF RingInv, TxInv, Around
    <3>4. QED
      BY <1>2, <1>6, <3>2, <3>3
  <2>5. kernel' \in {"fill", "tail"} => output' # 0 /\ InRing' < NTXDESC
    BY <1>1, <1>2, <1>4 DEF RingInv, TxInv
  <2>6. output' # 0 => output' = packets'
    BY <1>1 DEF RingInv, TxInv
  <2>7. QED
    BY <1>1, <2>1, <2>2, <2>3, <2>4, <2>5, <2>6 DEF TxInv
<1>10. RxInv'
  BY <1>1, RxKept DEF RingInv, CardSend
<1>11. QED
  BY <1>7, <1>9, <1>10 DEF RingInv

-----------------------------------------------------------------------------
\* The driver looks at the descriptor behind its tail.
LEMMA SlotIsFirst ==
  ASSUME TypeOK
  PROVE  RxSlot = Around(rdt + 1, NRXDESC) /\ RxSlot \in Rx /\ AfterTail(RxSlot) = 0
<1>1. NRXDESC \in Nat \ {0} /\ rdt \in 0 .. NRXDESC - 1 /\ Rx = 0 .. NRXDESC - 1
      /\ NRXDESC > 1
  BY Sizes
<1>2. RxSlot = Around(rdt + 1, NRXDESC)
  BY <1>1, NextIs DEF RxSlot
<1>3. CASE rdt + 1 < NRXDESC
  BY <1>1, <1>2, <1>3 DEF Around, AfterTail
<1>4. CASE ~(rdt + 1 < NRXDESC)
  BY <1>1, <1>2, <1>4 DEF Around, AfterTail
<1>5. QED
  BY <1>3, <1>4

\* Different descriptors are at different distances from the tail.
LEMMA AfterTailIs ==
  ASSUME TypeOK, NEW i \in Rx
  PROVE  /\ AfterTail(i) \in 0 .. NRXDESC - 1
         /\ AfterTail(i) = NRXDESC - 1 <=> i = rdt
         /\ \A j \in Rx : AfterTail(i) = AfterTail(j) => i = j
<1>1. /\ NRXDESC \in Nat /\ NRXDESC > 1
      /\ i \in 0 .. NRXDESC - 1 /\ rdt \in 0 .. NRXDESC - 1 /\ Rx = 0 .. NRXDESC - 1
  BY Sizes
<1>2. AfterTail(i) = NRXDESC - 1 <=> i = rdt
  <2>1. CASE rdt < i
    BY <1>1, <2>1 DEF AfterTail
  <2>2. CASE ~(rdt < i)
    BY <1>1, <2>2 DEF AfterTail
  <2>3. QED
    BY <2>1, <2>2
<1>3. AfterTail(i) \in 0 .. NRXDESC - 1
  BY <1>1 DEF AfterTail
<1>4. ASSUME NEW j \in Rx, AfterTail(i) = AfterTail(j) PROVE i = j
  <2>1. j \in 0 .. NRXDESC - 1
    BY <1>1
  <2>2. QED
    BY <1>1, <1>4, <2>1 DEF AfterTail
<1>5. QED
  BY <1>2, <1>3, <1>4

\* External: the card fills the buffer at its head.
LEMMA CardReceiveInv == ASSUME RingInv, CardReceive PROVE RingInv'
<1>1. /\ rdh # rdt /\ ~rxdma /\ rxdma' = TRUE /\ frames' = frames + 1
      /\ rxq' = [rxq EXCEPT ![rdh].pkt = frames + 1]
      /\ UNCHANGED <<kernel, rdh, rdt, input, served>>
      /\ rdh \in Rx /\ frames \in Nat
  BY Sizes DEF CardReceive, RingInv
<1>2. /\ rxq'[rdh].pkt = frames + 1 /\ rxq'[rdh].dd = rxq[rdh].dd
      /\ \A i \in Rx \ {rdh} : rxq'[i] = rxq[i]
      /\ rxq' \in [Rx -> [dd : BOOLEAN, pkt : Frame]]
  <2>1. frames + 1 \in Frame
    BY E1000Assumption DEF CardReceive, RingInv, TypeOK, Frame
  <2>2. rxq \in [Rx -> [dd : BOOLEAN, pkt : Frame]]
    BY DEF RingInv, TypeOK
  <2>3. QED
    BY <1>1, <2>1, <2>2
<1>3. TypeOK'
  <2>1. frames + 1 \in Frame
    BY E1000Assumption DEF CardReceive, RingInv, TypeOK, Frame
  <2>2. QED
    BY <1>1, <1>2, <2>1 DEF RingInv, TypeOK, CardReceive, txvars
<1>4. /\ \A i \in Rx : AfterTail(i)' = AfterTail(i)
      /\ Filled' = Filled /\ Gone' = Gone /\ RxSlot' = RxSlot
      /\ Filled \in 0 .. NRXDESC - 1 /\ Filled # NRXDESC - 1
  BY <1>1, AfterTailIs DEF RingInv, AfterTail, Filled, Gone, RxSlot
<1>5. RxInv'
  <2>1. frames' = Gone' + Filled' + One(rxdma')
    <3>1. frames = Gone + Filled + One(rxdma)
      BY DEF RingInv, RxInv
    <3>2. One(rxdma) = 0 /\ One(rxdma') = 1
      BY <1>1 DEF One
    <3>3. Gone \in Int
      BY Sizes DEF RingInv, Gone, One
    <3>4. QED
      BY <1>1, <1>4, <3>1, <3>2, <3>3
  <2>2. Filled' < NRXDESC - 1 /\ rxq'[rdh'].pkt = frames'
    BY <1>1, <1>2, <1>4, Sizes DEF RingInv
  <2>3. ASSUME NEW i \in Rx, AfterTail(i) < Filled
        PROVE  rxq'[i].pkt = Gone + AfterTail(i) + 1
    <3>1. i # rdh
      BY <1>4, <2>3 DEF Filled
    <3>2. QED
      BY <1>2, <2>3, <3>1 DEF RingInv, RxInv
  <2>4. \A i \in Rx : rxq'[i].dd => AfterTail(i) < Filled
    BY <1>1, <1>2 DEF RingInv, RxInv
  <2>5. kernel = "return" => ~rxq'[RxSlot].dd
    BY <1>1, <1>2, SlotIsFirst DEF RingInv, RxInv
  <2>6. QED
    BY <1>1, <1>4, <2>1, <2>2, <2>3, <2>4, <2>5 DEF RingInv, RxInv
<1>6. TxInv'
  BY <1>1, TxKept DEF RingInv, CardReceive
<1>7. QED
  BY <1>3, <1>5, <1>6 DEF RingInv

\* External: the descriptor at the head comes back, and the head moves on.
LEMMA CardWriteBackInv == ASSUME RingInv, CardWriteBack PROVE RingInv'
<1>1. /\ rxdma /\ rxdma' = FALSE
      /\ rxq' = [rxq EXCEPT ![rdh].dd = TRUE]
      /\ rdh' = Around(rdh + 1, NRXDESC)
      /\ UNCHANGED <<kernel, rdt, input, frames, served>>
      /\ Filled < NRXDESC - 1 /\ rxq[rdh].pkt = frames
  <2>1. NRXDESC \in Nat \ {0} /\ rdh \in 0 .. NRXDESC - 1
    BY Sizes DEF RingInv
  <2>2. (rdh + 1) % NRXDESC = Around(rdh + 1, NRXDESC)
    BY <2>1, NextIs
  <2>3. QED
    BY <2>2 DEF CardWriteBack, RingInv, RxInv
<1>2. /\ frames \in Nat /\ NRXDESC \in Nat /\ NRXDESC > 1 /\ Rx = 0 .. NRXDESC - 1
      /\ rdh \in 0 .. NRXDESC - 1 /\ rdt \in 0 .. NRXDESC - 1 /\ Gone \in Int
      /\ Filled \in 0 .. NRXDESC - 1
  BY Sizes, AfterTailIs DEF RingInv, Gone, One, Filled
<1>3. rdh' \in Rx /\ Filled' = Filled + 1
  <2>1. Filled' = IF rdt < rdh' THEN rdh' - rdt - 1 ELSE rdh' - rdt - 1 + NRXDESC
    BY <1>1 DEF Filled, AfterTail
  <2>2. Filled = IF rdt < rdh THEN rdh - rdt - 1 ELSE rdh - rdt - 1 + NRXDESC
    BY DEF Filled, AfterTail
  <2>3. CASE rdh + 1 < NRXDESC
    <3>1. rdh' = rdh + 1
      BY <1>1, <2>3 DEF Around
    <3>2. rdh # rdt
      BY <1>1, <1>2, <2>2
    <3>3. QED
      BY <1>2, <2>1, <2>2, <2>3, <3>1, <3>2
  <2>4. CASE ~(rdh + 1 < NRXDESC)
    <3>1. rdh' = 0 /\ rdh = NRXDESC - 1
      BY <1>1, <1>2, <2>4 DEF Around
    <3>2. rdh # rdt
      BY <1>1, <1>2, <2>2
    <3>3. QED
      BY <1>2, <2>1, <2>2, <3>1, <3>2
  <2>5. QED
    BY <2>3, <2>4
<1>4. /\ rxq'[rdh].dd /\ \A i \in Rx : rxq'[i].pkt = rxq[i].pkt
      /\ \A i \in Rx \ {rdh} : rxq'[i] = rxq[i]
      /\ rxq' \in [Rx -> [dd : BOOLEAN, pkt : Frame]]
  BY <1>1 DEF RingInv, TypeOK
<1>5. TypeOK'
  BY <1>1, <1>3, <1>4 DEF RingInv, TypeOK, CardWriteBack, txvars
<1>6. /\ \A i \in Rx : AfterTail(i)' = AfterTail(i)
      /\ Gone' = Gone /\ RxSlot' = RxSlot
  BY <1>1 DEF AfterTail, Gone, RxSlot
<1>7. RxInv'
  <2>1. frames = Gone + Filled + 1
    BY <1>1 DEF RingInv, RxInv, One
  <2>2. frames' = Gone' + Filled' + One(rxdma')
    <3>1. One(rxdma') = 0
      BY <1>1 DEF One
    <3>2. QED
      BY <1>1, <1>2, <1>3, <1>6, <2>1, <3>1
  <2>3. ASSUME NEW i \in Rx, AfterTail(i) < Filled + 1
        PROVE  rxq'[i].pkt = Gone + AfterTail(i) + 1
    <3>1. AfterTail(i) \in Nat
      BY AfterTailIs, <1>2 DEF RingInv
    <3>2. CASE AfterTail(i) < Filled
      BY <1>4, <3>2 DEF RingInv, RxInv
    <3>3. CASE AfterTail(i) = Filled
      <4>1. i = rdh
        BY <1>2, <3>3, AfterTailIs DEF RingInv, Filled
      <4>2. QED
        BY <1>1, <1>4, <2>1, <3>3, <4>1
    <3>4. QED
      BY <1>2, <2>3, <3>1, <3>2, <3>3
  <2>4. ASSUME NEW i \in Rx, rxq'[i].dd PROVE AfterTail(i) < Filled + 1
    <3>1. CASE i = rdh
      BY <1>2, <3>1 DEF Filled
    <3>2. CASE i # rdh
      <4>1. AfterTail(i) < Filled
        BY <1>4, <2>4, <3>2 DEF RingInv, RxInv
      <4>2. QED
        BY <1>2, <4>1, AfterTailIs DEF RingInv
    <3>3. QED
      BY <3>1, <3>2
  <2>5. kernel = "return" => ~rxq'[RxSlot].dd
    <3>1. SUFFICES ASSUME kernel = "return" PROVE ~rxq'[RxSlot].dd
      OBVIOUS
    <3>2. Filled > 0 /\ ~rxq[RxSlot].dd
      BY <3>1 DEF RingInv, RxInv
    <3>3. RxSlot \in Rx /\ RxSlot # rdh
      BY <3>2, SlotIsFirst DEF RingInv, Filled
    <3>4. QED
      BY <1>4, <3>2, <3>3
  <2>6. kernel \in {"copy", "clear", "return"} => Filled + 1 > 0
    BY <1>2
  <2>7. QED
    BY <1>1, <1>3, <1>6, <2>2, <2>3, <2>4, <2>5, <2>6 DEF RingInv, RxInv
<1>8. TxInv'
  BY <1>1, TxKept DEF RingInv, CardWriteBack
<1>9. QED
  BY <1>5, <1>7, <1>8 DEF RingInv

\* DD says that there is a frame behind the tail.
LEMMA RxCheckInv == ASSUME RingInv, RxCheck PROVE RingInv'
<1>1. /\ input = 0 /\ kernel = "free" /\ kernel' = "copy" /\ rxq[RxSlot].dd
      /\ UNCHANGED <<rxq, rdh, rdt, rxdma, input, frames, served>>
  BY DEF RxCheck, rxvars
<1>2. TypeOK'
  BY DEF RingInv, TypeOK, RxCheck, Steps, txvars, rxvars
<1>3. Filled > 0
  <2>1. AfterTail(RxSlot) = 0 /\ AfterTail(RxSlot) < Filled
    BY <1>1, SlotIsFirst DEF RingInv, RxInv
  <2>2. QED
    BY <2>1, AfterTailIs, Sizes DEF RingInv, Filled
<1>4. /\ \A i \in Rx : AfterTail(i)' = AfterTail(i)
      /\ Filled' = Filled /\ Gone' = Gone /\ RxSlot' = RxSlot
  BY <1>1 DEF AfterTail, Filled, Gone, RxSlot
<1>5. RxInv'
  BY <1>1, <1>3, <1>4 DEF RingInv, RxInv
<1>6. TxInv'
  BY <1>1, TxKept DEF RingInv, RxCheck
<1>7. QED
  BY <1>2, <1>5, <1>6 DEF RingInv

LEMMA RxCopyInv == ASSUME RingInv, RxCopy PROVE RingInv'
<1>1. /\ kernel = "copy" /\ kernel' = "clear" /\ input = 0
      /\ input' = rxq[RxSlot].pkt
      /\ UNCHANGED <<rxq, rdh, rdt, rxdma, frames, served>>
      /\ Filled > 0 /\ RxSlot \in Rx /\ AfterTail(RxSlot) = 0 /\ Len(served) \in Nat
  BY SlotIsFirst, Sizes DEF RxCopy, RingInv, RxInv
<1>2. Gone = Len(served)
  BY <1>1 DEF Gone, One
<1>3. input' = Len(served) + 1
  <2>1. rxq[RxSlot].pkt = Gone + 0 + 1
    BY <1>1 DEF RingInv, RxInv
  <2>2. QED
    BY <1>1, <1>2, <2>1
<1>4. Gone' = Gone
  <2>1. One(input' # 0) = 1 /\ One(kernel' \in {"clear", "return"}) = 1
    BY <1>1, <1>3 DEF One
  <2>2. QED
    BY <1>1, <1>2, <2>1 DEF Gone
<1>5. TypeOK'
  <2>1. input' \in Frame
    BY <1>1 DEF RingInv, TypeOK
  <2>2. QED
    BY <2>1 DEF RingInv, TypeOK, RxCopy, Steps, txvars
<1>6. /\ \A i \in Rx : AfterTail(i)' = AfterTail(i)
      /\ Filled' = Filled /\ RxSlot' = RxSlot
  BY <1>1 DEF AfterTail, Filled, RxSlot
<1>7. RxInv'
  BY <1>1, <1>3, <1>4, <1>6 DEF RingInv, RxInv
<1>8. TxInv'
  BY <1>1, TxKept DEF RingInv, RxCopy
<1>9. QED
  BY <1>5, <1>7, <1>8 DEF RingInv

LEMMA RxClearInv == ASSUME RingInv, RxClear PROVE RingInv'
<1>1. /\ kernel = "clear" /\ kernel' = "return"
      /\ rxq' = [rxq EXCEPT ![RxSlot].dd = FALSE]
      /\ UNCHANGED <<rdh, rdt, rxdma, input, frames, served>>
      /\ RxSlot \in Rx
  BY SlotIsFirst DEF RxClear, RingInv
<1>2. /\ ~rxq'[RxSlot].dd /\ \A i \in Rx : rxq'[i].pkt = rxq[i].pkt
      /\ \A i \in Rx : rxq'[i].dd => rxq[i].dd
      /\ rxq' \in [Rx -> [dd : BOOLEAN, pkt : Frame]]
  BY <1>1 DEF RingInv, TypeOK
<1>3. TypeOK'
  BY <1>1, <1>2 DEF RingInv, TypeOK, RxClear, Steps, txvars
<1>4. /\ \A i \in Rx : AfterTail(i)' = AfterTail(i)
      /\ Filled' = Filled /\ Gone' = Gone /\ RxSlot' = RxSlot
  BY <1>1 DEF AfterTail, Filled, Gone, RxSlot
<1>5. rxdma => rxq'[rdh].pkt = frames
  BY <1>2, Sizes DEF RingInv, RxInv
<1>6. RxInv'
  BY <1>1, <1>2, <1>4, <1>5 DEF RingInv, RxInv
<1>7. TxInv'
  BY <1>1, TxKept DEF RingInv, RxClear
<1>8. QED
  BY <1>3, <1>6, <1>7 DEF RingInv

\* The tail gives the descriptor, which has no DD, back to the card.
LEMMA RxReturnInv == ASSUME RingInv, RxReturn PROVE RingInv'
<1>1. /\ kernel = "return" /\ kernel' = "free" /\ rdt' = RxSlot
      /\ UNCHANGED <<rxq, rdh, rxdma, input, frames, served>>
      /\ Filled > 0 /\ ~rxq[RxSlot].dd /\ input # 0
      /\ RxSlot \in Rx /\ AfterTail(RxSlot) = 0 /\ RxSlot = Around(rdt + 1, NRXDESC)
  BY SlotIsFirst DEF RxReturn, RingInv, RxInv
<1>2. /\ frames \in Nat /\ NRXDESC \in Nat /\ NRXDESC > 1 /\ Rx = 0 .. NRXDESC - 1
      /\ rdh \in Rx /\ rdt \in 0 .. NRXDESC - 1 /\ Len(served) \in Nat
      /\ Filled \in 0 .. NRXDESC - 1
  BY Sizes, AfterTailIs DEF RingInv, Filled
<1>3. TypeOK'
  BY <1>1 DEF RingInv, TypeOK, RxReturn, Steps, txvars
<1>4. Gone = Len(served) /\ Gone' = Len(served) + 1
  <2>1. One(input # 0) = 1 /\ One(kernel \in {"clear", "return"}) = 1
    BY <1>1 DEF One
  <2>2. One(input' # 0) = 1 /\ One(kernel' \in {"clear", "return"}) = 0
    BY <1>1 DEF One
  <2>3. QED
    BY <1>1, <1>2, <2>1, <2>2 DEF Gone
<1>5. ASSUME NEW i \in Rx
      PROVE  AfterTail(i)' = IF i = RxSlot THEN NRXDESC - 1 ELSE AfterTail(i) - 1
  <2>1. AfterTail(i)' = IF RxSlot < i THEN i - RxSlot - 1 ELSE i - RxSlot - 1 + NRXDESC
    BY <1>1 DEF AfterTail
  <2>2. CASE rdt + 1 < NRXDESC
    <3>1. RxSlot = rdt + 1
      BY <1>1, <2>2 DEF Around
    <3>2. QED
      BY <1>2, <2>1, <3>1 DEF AfterTail
  <2>3. CASE ~(rdt + 1 < NRXDESC)
    <3>1. RxSlot = 0 /\ rdt = NRXDESC - 1
      BY <1>1, <1>2, <2>3 DEF Around
    <3>2. QED
      BY <1>2, <2>1, <3>1 DEF AfterTail
  <2>4. QED
    BY <2>2, <2>3
<1>6. Filled' = Filled - 1
  <2>1. rdh # RxSlot
    BY <1>1 DEF Filled
  <2>2. QED
    BY <1>1, <1>2, <1>5, <2>1 DEF Filled
<1>7. RxInv'
  <2>1. frames' = Gone' + Filled' + One(rxdma')
    <3>1. frames = Gone + Filled + One(rxdma)
      BY DEF RingInv, RxInv
    <3>2. One(rxdma) \in Int /\ One(rxdma') = One(rxdma)
      BY <1>1 DEF One
    <3>3. QED
      BY <1>1, <1>2, <1>4, <1>6, <3>1, <3>2
  <2>2. rxdma' => Filled' < NRXDESC - 1 /\ rxq'[rdh'].pkt = frames'
    <3>1. SUFFICES ASSUME rxdma PROVE Filled' < NRXDESC - 1 /\ rxq[rdh].pkt = frames
      BY <1>1
    <3>2. Filled < NRXDESC - 1 /\ rxq[rdh].pkt = frames
      BY <3>1 DEF RingInv, RxInv
    <3>3. QED
      BY <1>2, <1>6, <3>2
  <2>3. ASSUME NEW i \in Rx, AfterTail(i)' < Filled'
        PROVE  rxq'[i].pkt = Gone' + AfterTail(i)' + 1
    <3>1. i # RxSlot
      BY <1>2, <1>5, <1>6, <2>3
    <3>2. AfterTail(i)' = AfterTail(i) - 1 /\ AfterTail(i) \in Nat
      BY <1>2, <1>5, <3>1, AfterTailIs DEF RingInv
    <3>3. AfterTail(i) < Filled
      BY <1>2, <1>6, <2>3, <3>2
    <3>4. rxq[i].pkt = Gone + AfterTail(i) + 1
      BY <3>3 DEF RingInv, RxInv
    <3>5. QED
      BY <1>1, <1>2, <1>4, <3>2, <3>4
  <2>4. ASSUME NEW i \in Rx, rxq'[i].dd PROVE AfterTail(i)' < Filled'
    <3>1. i # RxSlot /\ AfterTail(i) < Filled
      BY <1>1, <2>4 DEF RingInv, RxInv
    <3>2. AfterTail(i)' = AfterTail(i) - 1 /\ AfterTail(i) \in Nat
      BY <1>2, <1>5, <3>1, AfterTailIs DEF RingInv
    <3>3. QED
      BY <1>2, <1>6, <3>1, <3>2
  <2>5. input' # 0 => input' = Len(served') + 1
    BY <1>1 DEF RingInv, RxInv
  <2>6. QED
    BY <1>1, <2>1, <2>2, <2>3, <2>4, <2>5 DEF RxInv
<1>8. TxInv'
  BY <1>1, TxKept DEF RingInv, RxReturn
<1>9. QED
  BY <1>3, <1>7, <1>8 DEF RingInv

\* The frame is handed over in its turn.
LEMMA InputSendInv == ASSUME RingInv, InputSend PROVE RingInv'
<1>1. /\ input # 0 /\ kernel = "free" /\ input' = 0 /\ served' = Append(served, input)
      /\ UNCHANGED <<kernel, rxq, rdh, rdt, rxdma, frames>>
      /\ Len(served) \in Nat
  BY Sizes DEF InputSend, RingInv
<1>2. Len(served') = Len(served) + 1
  BY <1>1 DEF RingInv, TypeOK
<1>3. TypeOK'
  <2>1. served' \in Seq(Frame \ {0}) /\ input' \in Frame
    BY <1>1, E1000Assumption DEF RingInv, TypeOK, Frame
  <2>2. QED
    BY <1>1, <2>1 DEF RingInv, TypeOK, InputSend, txvars
<1>4. Gone' = Gone
  <2>1. /\ One(input # 0) = 1 /\ One(input' # 0) = 0
        /\ One(kernel \in {"clear", "return"}) = 0
        /\ One(kernel' \in {"clear", "return"}) = 0
    BY <1>1 DEF One
  <2>2. QED
    BY <1>1, <1>2, <2>1 DEF Gone
<1>5. /\ \A i \in Rx : AfterTail(i)' = AfterTail(i)
      /\ Filled' = Filled /\ RxSlot' = RxSlot
  BY <1>1 DEF AfterTail, Filled, RxSlot
<1>6. RxInv'
  BY <1>1, <1>4, <1>5 DEF RingInv, RxInv
<1>7. TxInv'
  BY <1>1, TxKept DEF RingInv, InputSend
<1>8. QED
  BY <1>3, <1>6, <1>7 DEF RingInv

-----------------------------------------------------------------------------
LEMMA NextRingInv == RingInv /\ [Next]_vars => RingInv'
<1> SUFFICES ASSUME RingInv, [Next]_vars PROVE RingInv'
  OBVIOUS
<1>1. CASE UNCHANGED vars
  <2>1. UNCHANGED <<kernel, txvars, rxvars>>
    BY <1>1 DEF vars
  <2>2. TypeOK'
    BY <2>1 DEF RingInv, TypeOK, txvars, rxvars
  <2>3. TxInv' /\ RxInv'
    BY <2>1, TxKept, RxKept DEF RingInv
  <2>4. QED
    BY <2>2, <2>3 DEF RingInv
<1>2. QED
  BY <1>1, OutputRecvInv, TxCheckInv, TxFillInv, TxTailInv, CardFetchInv, CardSendInv,
     CardReceiveInv, CardWriteBackInv, RxCheckInv, RxCopyInv, RxClearInv, RxReturnInv,
     InputSendInv DEF Next, Driver, CardTx, CardRx

\* Each ring holds what has been taken and not come out, in order, for ever.
THEOREM RingInvariant == Spec => []RingInv
<1>1. Spec => Init /\ [][Next]_vars
  BY DEF Spec
<1>2. QED
  BY <1>1, InitRingInv, NextRingInv, PTL

\* Registers, descriptors and packets keep their types.
THEOREM TypesHold == Spec => []TypeOK
<1>1. RingInv => TypeOK
  BY DEF RingInv
<1>2. QED
  BY <1>1, RingInvariant, PTL

-----------------------------------------------------------------------------
\* Every step is a step of the transmit queue, or none.
LEMMA SentStep == RingInv /\ [Next]_vars => [Sent!Next]_<<packets, wire>>
<1> SUFFICES ASSUME RingInv, [Next]_vars PROVE [Sent!Next]_<<packets, wire>>
  OBVIOUS
<1>1. ASSUME OutputRecv PROVE Sent!Take
  <2>1. InRing = packets - Len(wire) /\ InRing <= NTXDESC
    BY <1>1, Sizes DEF OutputRecv, InRing, One, RingInv, TxInv
  <2>2. packets - Len(wire) < NTXDESC + 1
    BY <2>1, Sizes DEF RingInv
  <2>3. QED
    BY <1>1, <2>2 DEF OutputRecv, Sent!Take
<1>2. ASSUME CardSend PROVE Sent!Deliver
  <2>1. txdma = Len(wire) + 1 /\ InRing > 0
    BY <1>2 DEF CardSend, RingInv, TxInv
  <2>2. Len(wire) < packets
    BY <2>1, Sizes DEF RingInv, InRing, One
  <2>3. QED
    BY <1>2, <2>1, <2>2 DEF CardSend, Sent!Deliver
<1>3. ASSUME \/ InputSend \/ Driver \/ CardFetch \/ CardRx \/ UNCHANGED vars
      PROVE  UNCHANGED <<packets, wire>>
  BY <1>3 DEF InputSend, Driver, TxCheck, TxFill, TxTail, RxCheck, RxCopy, RxClear,
     RxReturn, CardFetch, CardRx, CardReceive, CardWriteBack, vars, txvars
<1>4. QED
  BY <1>1, <1>2, <1>3 DEF Next, CardTx, Sent!Next

\* No packet of ns_output is lost, overtaken, overwritten or sent twice.
THEOREM SendingInOrder == Spec => SentInOrder
<1>1. Init => Sent!Init
  BY DEF Init, Sent!Init
<1>2. Spec => Init /\ [][Next]_vars
  BY DEF Spec
<1>3. QED
  BY <1>1, <1>2, SentStep, RingInvariant, PTL DEF SentInOrder, Sent!Spec

\* The same for the receive queue.
LEMMA ReceivedStep == RingInv /\ [Next]_vars => [Received!Next]_<<frames, served>>
<1> SUFFICES ASSUME RingInv, [Next]_vars PROVE [Received!Next]_<<frames, served>>
  OBVIOUS
<1>1. ASSUME CardReceive PROVE Received!Take
  <2>1. Filled < NRXDESC - 1 /\ Filled \in Nat
    BY <1>1, AfterTailIs, Sizes DEF CardReceive, RingInv, Filled
  <2>2. frames = Gone + Filled /\ Gone <= Len(served) + 1 /\ Gone \in Int
    <3>1. One(rxdma) = 0
      BY <1>1 DEF CardReceive, One
    <3>2. One(input # 0) \in 0 .. 1 /\ One(kernel \in {"clear", "return"}) \in 0 .. 1
      BY DEF One
    <3>3. frames = Gone + Filled + One(rxdma) /\ Len(served) \in Nat
      BY Sizes DEF RingInv, RxInv
    <3>4. Gone \in Int /\ Gone <= Len(served) + 1
      BY <3>2, <3>3 DEF Gone
    <3>5. QED
      BY <2>1, <3>1, <3>3, <3>4
  <2>3. frames - Len(served) < NRXDESC
    BY <2>1, <2>2, Sizes DEF RingInv
  <2>4. QED
    BY <1>1, <2>3 DEF CardReceive, Received!Take
<1>2. ASSUME InputSend PROVE Received!Deliver
  <2>1. input = Len(served) + 1
    BY <1>2 DEF InputSend, RingInv, RxInv
  <2>2. Gone = Len(served) + 1
    BY <1>2, Sizes DEF InputSend, Gone, One, RingInv
  <2>3. Filled \in Nat /\ One(rxdma) \in Nat
    BY AfterTailIs, Sizes DEF RingInv, Filled, One
  <2>4. Len(served) < frames
    <3>1. frames = Gone + Filled + One(rxdma)
      BY DEF RingInv, RxInv
    <3>2. Len(served) \in Nat
      BY Sizes DEF RingInv
    <3>3. QED
      BY <2>2, <2>3, <3>1, <3>2
  <2>5. QED
    BY <1>2, <2>1, <2>4 DEF InputSend, Received!Deliver
<1>3. ASSUME \/ OutputRecv \/ Driver \/ CardTx \/ CardWriteBack \/ UNCHANGED vars
      PROVE  UNCHANGED <<frames, served>>
  BY <1>3 DEF OutputRecv, Driver, TxCheck, TxFill, TxTail, RxCheck, RxCopy, RxClear,
     RxReturn, CardTx, CardFetch, CardSend, CardWriteBack, vars, rxvars
<1>4. QED
  BY <1>1, <1>2, <1>3 DEF Next, CardRx, Received!Next

\* No frame the card has taken is lost, overtaken or served twice.
THEOREM ReceivingInOrder == Spec => ReceivedInOrder
<1>1. Init => Received!Init
  BY DEF Init, Received!Init
<1>2. Spec => Init /\ [][Next]_vars
  BY DEF Spec
<1>3. QED
  BY <1>1, <1>2, ReceivedStep, RingInvariant, PTL DEF ReceivedInOrder, Received!Spec
=============================================================================
