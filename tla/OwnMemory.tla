------------------------------ MODULE OwnMemory ------------------------------
(***************************************************************************)
(* What environments are promised about memory: each has its own.  A       *)
(* running environment changes its own cells one at a time; a fork copies  *)
(* the parent's cells to the child one at a time; an environment that ends *)
(* loses all its cells at once.  No step changes anybody else's cell.      *)
(* JosPages is shown to implement this with shared pages, copy on write    *)
(* and TLBs.                                                               *)
(***************************************************************************)
CONSTANTS Env, Va, Val, NoVal

VARIABLES
  mem,     \* [Env -> [Va -> Val \cup {NoVal}]]; NoVal where nothing is mapped
  running  \* the environments that CPUs run now

Init == /\ mem \in [Env -> [Va -> Val \cup {NoVal}]]
        /\ running \subseteq Env

\* A running environment writes, maps or unmaps one of its own cells.
Own(e, va) ==
  /\ e \in running
  /\ \E v \in Val \cup {NoVal} : mem' = [mem EXCEPT ![e][va] = v]

\* The fork of a running environment copies one cell to its child.
Copy(e, kid, va) ==
  /\ e \in running /\ kid # e
  /\ mem[kid][va] = NoVal
  /\ mem' = [mem EXCEPT ![kid][va] = mem[e][va]]

\* An environment ends, perhaps with a copy just handed to its child.
End(e) ==
  LET ended == [mem EXCEPT ![e] = [va \in Va |-> NoVal]] IN
  \/ mem' = ended
  \/ \E kid \in Env \ {e}, va \in Va :
       /\ mem[kid][va] = NoVal
       /\ mem' = [ended EXCEPT ![kid][va] = mem[e][va]]

Next == /\ running' \subseteq Env
        /\ \/ UNCHANGED mem
           \/ \E e \in Env : End(e)
           \/ \E e \in Env, va \in Va : Own(e, va)
           \/ \E e, kid \in Env, va \in Va : Copy(e, kid, va)

Spec == Init /\ [][Next]_<<mem, running>>
=============================================================================
