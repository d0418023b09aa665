------------------------------ MODULE FileStore ------------------------------
(***************************************************************************)
(* What the file system promises.  A file is a sequence of block contents. *)
(* An operation changes the file it names and no other; growing a file     *)
(* adds blocks of zeros.  A crash may undo what was not yet synced, but a   *)
(* file that was created, removed or flushed, and not written since, stays *)
(* as it is.  A file is created empty, unless a client has gone on to write *)
(* one that was removed: then it may begin with that one's contents, and    *)
(* nothing else.  FsDisk is shown to implement this.                        *)
(***************************************************************************)
EXTENDS Naturals, Sequences

CONSTANTS Name, Val, Zero, MaxSize, NoFile

VARIABLES
  files,     \* [Name -> contents, or NoFile]
  leftovers, \* contents of removed files
  tainted,   \* a removed file has been changed
  synced     \* the names whose state a crash does not change

Contents == {c \in Seq(Val) : Len(c) <= MaxSize}
States == [Name -> Contents \cup {NoFile}]
Removed == IF tainted THEN Contents ELSE {<< >>}

Init == files \in States /\ synced \subseteq Name /\ leftovers = {} /\ ~tainted

\* A file of n blocks that begins like the file c; and c with block i written.
Resized(c, n) == [i \in 1 .. n |-> IF i <= Len(c) THEN c[i] ELSE Zero]
Written(c, i, v) ==
  [Resized(c, IF i > Len(c) THEN i ELSE Len(c)) EXCEPT ![i] = v]

\* A file that is c is resized or written.
Changed(c) ==
  {Resized(c, n) : n \in 0 .. MaxSize}
    \cup {Written(c, i, v) : i \in 1 .. MaxSize, v \in Val}

\* A file is created, removed, resized or written.  Until that is on the disk,
\* it may be undone.
Change(f, old, new) ==
  /\ synced' \subseteq synced \ {f}
  /\ \A g \in Name \ {f} : new[g] = old[g]
  /\ \/ old[f] = NoFile /\ new[f] \in leftovers \cup {<< >>}
     \/ old[f] # NoFile /\ new[f] = NoFile
     \/ old[f] # NoFile /\ new[f] \in Changed(old[f])
  /\ leftovers' \subseteq leftovers \cup {<< >>}
  /\ UNCHANGED tainted

\* A removed file is resized or written.
Late(old, new) ==
  /\ new = old /\ synced' \subseteq synced
  /\ \E c \in leftovers : \E d \in Changed(c) : leftovers' \subseteq leftovers \cup {d}
  /\ tainted'

Sync(old, new) ==
  /\ synced \subseteq synced' /\ synced' \subseteq Name /\ new = old
  /\ leftovers' \subseteq leftovers \cup {<< >>}
  /\ UNCHANGED tainted

Crash(old, new) ==
  /\ synced' = Name
  /\ \A f \in synced : new[f] = old[f]
  /\ new \in States
  /\ leftovers' \subseteq Removed
  /\ UNCHANGED tainted

Next ==
  LET old == files  new == files' IN
  \/ \E f \in Name : Change(f, old, new)
  \/ Late(old, new) \/ Sync(old, new) \/ Crash(old, new)

Spec == Init /\ [][Next]_<<files, leftovers, tainted, synced>>
=============================================================================
