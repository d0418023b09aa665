----------------------------- MODULE PacketQueue -----------------------------
(***************************************************************************)
(* What each direction of the network promises whoever hands packets over: *)
(* every packet that was taken comes out once, in the order of taking, and *)
(* at most Capacity are under way.  The packets are numbered as they are   *)
(* taken.                                                                  *)
(***************************************************************************)
EXTENDS Naturals, Sequences

CONSTANT Capacity

VARIABLES
  taken,     \* how many packets have been taken
  delivered  \* the numbers of the packets that came out, in order

Init == taken = 0 /\ delivered = <<>>

Take ==
  /\ taken - Len(delivered) < Capacity
  /\ taken' = taken + 1
  /\ UNCHANGED delivered

Deliver ==
  /\ Len(delivered) < taken
  /\ delivered' = Append(delivered, Len(delivered) + 1)
  /\ UNCHANGED taken

Next == Take \/ Deliver

Spec == Init /\ [][Next]_<<taken, delivered>>
=============================================================================
