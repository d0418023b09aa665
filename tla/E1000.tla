-------------------------------- MODULE E1000 --------------------------------
(***************************************************************************)
(* The rings of the network card: its driver (kern/e1000.c), the two       *)
(* environments that call it (net/output.c, net/input.c) and, external,    *)
(* the card, which reads and writes the rings while the driver runs.       *)
(*                                                                         *)
(* The kernel lock lets one call of the driver run at a time; its steps    *)
(* are apart because the card is not stopped by that lock.  A packet is    *)
(* the number in which it was handed over; every frame fits its buffer and *)
(* ends in one descriptor, so that EOP goes with DD.  The network server   *)
(* always sends and receives in the end.                                   *)
(***************************************************************************)
EXTENDS Naturals, Sequences

CONSTANTS
  NTXDESC,   \* descriptors of the transmit ring
  NRXDESC,   \* descriptors of the receive ring
  MaxPkts,   \* bound on the packets sent
  MaxFrames  \* bound on the frames received

ASSUME E1000Assumption ==
  /\ NTXDESC \in Nat \ {0} /\ NRXDESC \in Nat \ {0, 1}
  /\ MaxPkts \in Nat /\ MaxFrames \in Nat

Tx == 0 .. NTXDESC - 1
Rx == 0 .. NRXDESC - 1
Pkt == 0 .. MaxPkts       \* 0: none
Frame == 0 .. MaxFrames   \* 0: none

VARIABLES
  kernel,    \* the step of the driver call under way, or "free"
  txq,       \* [Tx -> [dd, pkt]]: tx_queue and tx_pkt_buf
  tdh, tdt,  \* the card's transmit registers
  txdma,     \* the packet the card has fetched at tdh
  rxq,       \* [Rx -> [dd, pkt]]: rx_queue and rx_pkt_buf
  rdh, rdt,  \* the card's receive registers
  rxdma,     \* whether the card has filled the buffer at rdh
  output,    \* the packet ns_output is sending
  input,     \* the frame ns_input is handing to the network server
  packets,   \* packets handed to ns_output
  wire,      \* the packets on the wire, in order
  frames,    \* frames taken from the wire
  served     \* the frames handed to the network server, in order

txvars == <<txq, tdh, tdt, txdma, output, packets, wire>>
rxvars == <<rxq, rdh, rdt, rxdma, input, frames, served>>
vars == <<kernel, txvars, rxvars>>

Steps == {"free", "fill", "tail", "copy", "clear", "return"}

TypeOK ==
  /\ kernel \in Steps
  /\ txq \in [Tx -> [dd : BOOLEAN, pkt : Pkt]] /\ tdh \in Tx /\ tdt \in Tx
  /\ rxq \in [Rx -> [dd : BOOLEAN, pkt : Frame]] /\ rdh \in Rx /\ rdt \in Rx
  /\ txdma \in Pkt /\ rxdma \in BOOLEAN /\ output \in Pkt /\ input \in Frame
  /\ packets \in Pkt /\ frames \in Frame
  /\ wire \in Seq(Pkt \ {0}) /\ served \in Seq(Frame \ {0})

\* A mutant of RingInit: the card's receive head starts at its tail.
RingInitEmpty == tdh = 0 /\ tdt = 0 /\ rdh = 0 /\ rdt = 0

\* The registers e1000_attach sets: the receive ring has all but one descriptor
\* for the card.
RingInit == tdh = 0 /\ tdt = 0 /\ rdh = 1 /\ rdt = 0

\* A mutant of TxInit: the transmit descriptors start without DD.
TxInitClear == txq = [i \in Tx |-> [dd |-> FALSE, pkt |-> 0]]

\* e1000_mem_init: every transmit descriptor starts as done.
TxInit == txq = [i \in Tx |-> [dd |-> TRUE, pkt |-> 0]]

\* e1000_mem_init and e1000_attach.
Init ==
  /\ kernel = "free"
  /\ TxInit
  /\ rxq = [i \in Rx |-> [dd |-> FALSE, pkt |-> 0]]
  /\ RingInit
  /\ txdma = 0 /\ rxdma = FALSE /\ output = 0 /\ input = 0
  /\ packets = 0 /\ wire = <<>> /\ frames = 0 /\ served = <<>>

-----------------------------------------------------------------------------
(* Sending: ns_output and e1000_transmit. *)

\* ns_output takes the next packet of the network server.
OutputRecv ==
  /\ output = 0 /\ kernel = "free" /\ packets < MaxPkts
  /\ packets' = packets + 1
  /\ output' = packets + 1
  /\ UNCHANGED <<kernel, txq, tdh, tdt, txdma, wire, rxvars>>

\* A mutant of TxFree: the test is left out.
TxFreeAlways == TRUE

\* The test of DD at the tail; ns_output repeats the call while it fails.
TxFree == txq[tdt].dd

TxCheck ==
  /\ output # 0 /\ kernel = "free" /\ TxFree
  /\ kernel' = "fill"
  /\ UNCHANGED <<txvars, rxvars>>

\* The packet, its length, and DD cleared.
TxFill ==
  /\ kernel = "fill"
  /\ txq' = [txq EXCEPT ![tdt] = [dd |-> FALSE, pkt |-> output]]
  /\ kernel' = "tail"
  /\ UNCHANGED <<tdh, tdt, txdma, output, packets, wire, rxvars>>

\* A mutant of TxNext: the tail runs off the ring.
TxNextNoWrap == tdt + 1

TxNext == (tdt + 1) % NTXDESC

TxTail ==
  /\ kernel = "tail"
  /\ tdt' = TxNext
  /\ output' = 0
  /\ kernel' = "free"
  /\ UNCHANGED <<txq, tdh, txdma, packets, wire, rxvars>>

\* External: the card fetches the descriptor at its head, unless head and tail
\* are equal, and sends it.
CardFetch ==
  /\ tdh # tdt /\ txdma = 0
  /\ txdma' = txq[tdh].pkt
  /\ UNCHANGED <<kernel, txq, tdh, tdt, output, packets, wire, rxvars>>

\* External: the packet is on the wire, and the descriptor is done (RS is set).
CardSend ==
  /\ txdma # 0
  /\ wire' = Append(wire, txdma)
  /\ txdma' = 0
  /\ txq' = [txq EXCEPT ![tdh].dd = TRUE]
  /\ tdh' = (tdh + 1) % NTXDESC
  /\ UNCHANGED <<kernel, tdt, output, packets, rxvars>>

-----------------------------------------------------------------------------
(* Receiving: e1000_receive and ns_input. *)

\* External: a frame arrives and goes into the buffer at the card's head; the
\* card has none, and loses the frame, when head and tail are equal.
CardReceive ==
  /\ rdh # rdt /\ ~rxdma /\ frames < MaxFrames
  /\ rxdma' = TRUE
  /\ frames' = frames + 1
  /\ rxq' = [rxq EXCEPT ![rdh].pkt = frames + 1]
  /\ UNCHANGED <<kernel, rdh, rdt, input, served, txvars>>

\* External: the card writes the descriptor back, with DD and EOP.
CardWriteBack ==
  /\ rxdma
  /\ rxdma' = FALSE
  /\ rxq' = [rxq EXCEPT ![rdh].dd = TRUE]
  /\ rdh' = (rdh + 1) % NRXDESC
  /\ UNCHANGED <<kernel, rdt, input, frames, served, txvars>>

RxSlot == (rdt + 1) % NRXDESC

\* The test of DD after the tail; ns_input yields and calls again while it fails.
RxCheck ==
  /\ input = 0 /\ kernel = "free" /\ rxq[RxSlot].dd
  /\ kernel' = "copy"
  /\ UNCHANGED <<txvars, rxvars>>

RxCopy ==
  /\ kernel = "copy"
  /\ input' = rxq[RxSlot].pkt
  /\ kernel' = "clear"
  /\ UNCHANGED <<rxq, rdh, rdt, rxdma, frames, served, txvars>>

\* A mutant of RxClear: DD stays set.
RxClearForgotten ==
  /\ kernel = "clear"
  /\ kernel' = "return"
  /\ UNCHANGED <<txvars, rxvars>>

RxClear ==
  /\ kernel = "clear"
  /\ rxq' = [rxq EXCEPT ![RxSlot].dd = FALSE]
  /\ kernel' = "return"
  /\ UNCHANGED <<rdh, rdt, rxdma, input, frames, served, txvars>>

RxReturn ==
  /\ kernel = "return"
  /\ rdt' = RxSlot
  /\ kernel' = "free"
  /\ UNCHANGED <<rxq, rdh, rxdma, input, frames, served, txvars>>

\* ns_input sends a page with the frame to the network server, again and again
\* until that receives.
InputSend ==
  /\ input # 0 /\ kernel = "free"
  /\ served' = Append(served, input)
  /\ input' = 0
  /\ UNCHANGED <<kernel, rxq, rdh, rdt, rxdma, frames, txvars>>

-----------------------------------------------------------------------------
Driver == TxCheck \/ TxFill \/ TxTail \/ RxCheck \/ RxCopy \/ RxClear \/ RxReturn
CardTx == CardFetch \/ CardSend
CardRx == CardReceive \/ CardWriteBack

Next == OutputRecv \/ InputSend \/ Driver \/ CardTx \/ CardRx

\* The scheduler runs both environments and the kernel lock starves neither, so
\* that a system call that can do its work again and again is made in the end; a
\* call ends, the card works, and there is always one more frame.
Fairness ==
  /\ SF_vars(OutputRecv) /\ SF_vars(InputSend)
  /\ SF_vars(TxCheck) /\ SF_vars(RxCheck)
  /\ WF_vars(TxFill \/ TxTail \/ RxCopy \/ RxClear \/ RxReturn)
  /\ WF_vars(CardTx) /\ WF_vars(CardRx)

Spec == Init /\ [][Next]_vars /\ Fairness

-----------------------------------------------------------------------------
(* Properties. *)

\* No packet is lost, overtaken, overwritten or sent twice between the network
\* server and the wire: the ring and ns_output hold one each.
Sent == INSTANCE PacketQueue WITH
  Capacity <- NTXDESC + 1, taken <- packets, delivered <- wire
SentInOrder == Sent!Spec

\* The same for the frames the card has taken, on their way to the server.
Received == INSTANCE PacketQueue WITH
  Capacity <- NRXDESC, taken <- frames, delivered <- served
ReceivedInOrder == Received!Spec

\* The card is idle and the driver waits for it: all descriptors hold packets, so
\* that head and tail are equal as in an empty ring.
Stuck ==
  /\ tdh = tdt /\ txdma = 0 /\ packets - Len(wire) >= NTXDESC
  /\ \A i \in Tx : ~txq[i].dd

\* Sending stops for no other reason than the full ring that looks empty.
AllSent == <>(Len(wire) = MaxPkts \/ Stuck)

\* Receiving never stops: the descriptors come back to the card.
AllReceived == <>(Len(served) = MaxFrames)
=============================================================================
