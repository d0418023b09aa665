--------------------------- MODULE JosPagesProofs ----------------------------
(***************************************************************************)
(* Proofs about JosPages: pp_ref and the free list are exact, TLBs are     *)
(* coherent, and copy-on-write memory implements OwnMemory, for any number *)
(* of environments, CPUs, pages and addresses.                             *)
(*                                                                         *)
(* The first sections say what each kernel routine leaves (pages, entries, *)
(* system calls, env_free); then the inductive invariant IInv and one      *)
(* lemma for each action; then who shares a page with whom (SInv) and, for *)
(* each action again, that sharing stays in order and that the step is one *)
(* of OwnMemory or changes nothing there.                                  *)
(***************************************************************************)
EXTENDS JosPages, FiniteSetTheorems, TLAPS

-----------------------------------------------------------------------------
\* Counting the places that point to a page.

\* The places of s that point to p: entries, directories and page tables.
One(b) == IF b THEN 1 ELSE 0
PtesOf(s, p) == {x \in Env \X Va : s.pte[x[1]][x[2]].page = p}
DirsOf(s, p) == {e \in Env : s.dir[e] = p}
TabsOf(s, p) == {e \in Env : s.tab[e] = p}
UsesIn(s, p) == Cardinality(PtesOf(s, p)) + Cardinality(DirsOf(s, p)) + Cardinality(TabsOf(s, p))

\* Every count is exact, and the free list is the pages nobody points to, but for those
\* of X: they are in the caller's hands, with no reference yet.
Exact(s, X) ==
  \A p \in Page : /\ s.ref[p] = UsesIn(s, p)
                  /\ p \in s.free <=> s.ref[p] = 0 /\ p \notin X
                  /\ p \in X => s.ref[p] = 0

\* A set of naturals that is not empty has a least element.
LEMMA LeastNat ==
  ASSUME NEW T \in SUBSET Nat, T # {}
  PROVE  \E n \in T : \A m \in T : n <= m
<1>1. IsWellFoundedOn(OpToRel(<, Nat), Nat)
  BY NatLessThanWellFounded
<1>2. \E x \in T : \A y \in T : ~ (<<y, x>> \in OpToRel(<, Nat))
  BY <1>1, WFMin
<1>3. \A x, y \in Nat : x < y => <<x, y>> \in OpToRel(<, Nat)
  BY DEF OpToRel
<1>4. PICK n \in T : \A m \in T : ~(m < n)
  BY <1>2, <1>3
<1>5. \A m \in T : n <= m
  BY <1>4
<1>6. QED
  BY <1>5

\* page_alloc finds a page on a list that is not empty.
LEMMA HeadIs ==
  ASSUME NEW s, s \in VmType, s.free # {}
  PROVE  Head(s) \in s.free /\ Head(s) \in Page
<1>1. s.free \in SUBSET Nat /\ s.free \subseteq Page
  BY PagesAssumption DEF VmType, Page
<1>2. \E n \in s.free : \A m \in s.free : n <= m
  BY <1>1, LeastNat
<1>3. QED
  BY <1>1, <1>2 DEF Head

\* There are finitely many page table entries.
LEMMA Finite ==
  /\ IsFiniteSet(Env \X Va)
  /\ \A s, p : IsFiniteSet(PtesOf(s, p)) /\ IsFiniteSet(DirsOf(s, p)) /\ IsFiniteSet(TabsOf(s, p))
<1>1. IsFiniteSet(Va)
  BY FS_Interval, PagesAssumption DEF Va, PFTEMP, UXSTACK
<1>2. IsFiniteSet(Env)
  BY PagesAssumption
<1>3. IsFiniteSet(Env \X Va)
  BY <1>1, <1>2, FS_Product
<1>4. QED
  BY <1>2, <1>3, FS_Subset DEF PtesOf, DirsOf, TabsOf

\* Sets that differ in one element at most.
LEMMA OneMore ==
  ASSUME NEW S, NEW T, NEW x, IsFiniteSet(S), IsFiniteSet(T), T \ {x} = S \ {x}
  PROVE  Cardinality(T) = Cardinality(S) - One(x \in S) + One(x \in T)
<1>1. Cardinality(T \ {x}) = IF x \in T THEN Cardinality(T) - 1 ELSE Cardinality(T)
  BY FS_RemoveElement
<1>2. Cardinality(S \ {x}) = IF x \in S THEN Cardinality(S) - 1 ELSE Cardinality(S)
  BY FS_RemoveElement
<1>3. Cardinality(S) \in Nat /\ Cardinality(T) \in Nat
  BY FS_CardinalityType
<1>4. QED
  BY <1>1, <1>2, <1>3 DEF One

\* The places that point to a page can be counted.
LEMMA UsesNat == ASSUME NEW s, NEW p PROVE UsesIn(s, p) \in Nat
BY Finite, FS_CardinalityType DEF UsesIn

\* One page table entry changes.
LEMMA PteUses ==
  ASSUME NEW s, NEW t, NEW e \in Env, NEW va \in Va, NEW p,
         t.dir = s.dir, t.tab = s.tab,
         \A x \in Env \X Va : x # <<e, va>> => t.pte[x[1]][x[2]].page = s.pte[x[1]][x[2]].page
  PROVE  UsesIn(t, p) = UsesIn(s, p) - One(s.pte[e][va].page = p) + One(t.pte[e][va].page = p)
<1> DEFINE S == PtesOf(s, p)  T == PtesOf(t, p)  x == <<e, va>>
<1>1. /\ IsFiniteSet(S) /\ IsFiniteSet(T)
      /\ Cardinality(S) \in Nat /\ Cardinality(T) \in Nat
      /\ Cardinality(DirsOf(s, p)) \in Nat /\ Cardinality(TabsOf(s, p)) \in Nat
  BY Finite, FS_CardinalityType
<1>2. DirsOf(s, p) = DirsOf(t, p) /\ TabsOf(s, p) = TabsOf(t, p)
  BY DEF DirsOf, TabsOf
<1>3. x \in S <=> s.pte[e][va].page = p
  BY DEF PtesOf
<1>4. x \in T <=> t.pte[e][va].page = p
  BY DEF PtesOf
<1>5. T \ {x} = S \ {x}
  BY DEF PtesOf
<1>8. Cardinality(T) = Cardinality(S) - One(x \in S) + One(x \in T)
  <2> HIDE DEF S, T, x
  <2>1. QED
    BY <1>1, <1>5, OneMore
<1>9. /\ One(x \in S) = One(s.pte[e][va].page = p)
      /\ One(x \in T) = One(t.pte[e][va].page = p)
      /\ One(x \in S) \in Nat /\ One(x \in T) \in Nat
  BY <1>3, <1>4 DEF One
<1>10. QED
  BY <1>1, <1>2, <1>8, <1>9 DEF UsesIn

\* One page directory changes.
LEMMA DirUses ==
  ASSUME NEW s, NEW t, NEW e \in Env, NEW p,
         t.pte = s.pte, t.tab = s.tab,
         \A d \in Env : d # e => t.dir[d] = s.dir[d]
  PROVE  UsesIn(t, p) = UsesIn(s, p) - One(s.dir[e] = p) + One(t.dir[e] = p)
<1> DEFINE S == DirsOf(s, p)  T == DirsOf(t, p)
<1>1. /\ IsFiniteSet(S) /\ IsFiniteSet(T)
      /\ Cardinality(S) \in Nat /\ Cardinality(T) \in Nat
      /\ Cardinality(PtesOf(s, p)) \in Nat /\ Cardinality(TabsOf(s, p)) \in Nat
  BY Finite, FS_CardinalityType
<1>2. PtesOf(s, p) = PtesOf(t, p) /\ TabsOf(s, p) = TabsOf(t, p)
  BY DEF PtesOf, TabsOf
<1>3. (e \in S <=> s.dir[e] = p) /\ (e \in T <=> t.dir[e] = p) /\ T \ {e} = S \ {e}
  BY DEF DirsOf
<1>5. /\ One(e \in S) = One(s.dir[e] = p)
      /\ One(e \in T) = One(t.dir[e] = p)
      /\ One(e \in S) \in Nat /\ One(e \in T) \in Nat
  BY <1>3 DEF One
<1>6. Cardinality(T) = Cardinality(S) - One(e \in S) + One(e \in T)
  <2> HIDE DEF S, T
  <2>1. QED
    BY <1>1, <1>3, OneMore
<1>7. QED
  BY <1>1, <1>2, <1>5, <1>6 DEF UsesIn

\* One page-table page changes.
LEMMA TabUses ==
  ASSUME NEW s, NEW t, NEW e \in Env, NEW p,
         t.pte = s.pte, t.dir = s.dir,
         \A d \in Env : d # e => t.tab[d] = s.tab[d]
  PROVE  UsesIn(t, p) = UsesIn(s, p) - One(s.tab[e] = p) + One(t.tab[e] = p)
<1> DEFINE S == TabsOf(s, p)  T == TabsOf(t, p)
<1>1. /\ IsFiniteSet(S) /\ IsFiniteSet(T)
      /\ Cardinality(S) \in Nat /\ Cardinality(T) \in Nat
      /\ Cardinality(PtesOf(s, p)) \in Nat /\ Cardinality(DirsOf(s, p)) \in Nat
  BY Finite, FS_CardinalityType
<1>2. PtesOf(s, p) = PtesOf(t, p) /\ DirsOf(s, p) = DirsOf(t, p)
  BY DEF PtesOf, DirsOf
<1>3. (e \in S <=> s.tab[e] = p) /\ (e \in T <=> t.tab[e] = p) /\ T \ {e} = S \ {e}
  BY DEF TabsOf
<1>5. /\ One(e \in S) = One(s.tab[e] = p)
      /\ One(e \in T) = One(t.tab[e] = p)
      /\ One(e \in S) \in Nat /\ One(e \in T) \in Nat
  BY <1>3 DEF One
<1>6. Cardinality(T) = Cardinality(S) - One(e \in S) + One(e \in T)
  <2> HIDE DEF S, T
  <2>1. QED
    BY <1>1, <1>3, OneMore
<1>7. QED
  BY <1>1, <1>2, <1>5, <1>6 DEF UsesIn

\* page_alloc took p, which nothing points to yet.
IsAllocated(s, t, p) ==
  /\ t \in VmType /\ t.free = s.free \ {p} /\ t.ref = s.ref
  /\ t.dir = s.dir /\ t.tab = s.tab /\ t.pte = s.pte /\ t.tlb = s.tlb
  /\ \A q \in Page : q # p => t.data[q] = s.data[q]

\* page_alloc, field by field.
LEMMA PageAllocIs ==
  ASSUME NEW s, s \in VmType, s.free # {}
  PROVE  IsAllocated(s, PageAlloc(s), Head(s))
<1>1. Head(s) \in Page
  BY HeadIs
<1>2. QED
  BY <1>1, PagesAssumption DEF PageAlloc, VmType, IsAllocated


\* What the routines do, as relations between the pages before and after.
IsSetPte(s, t, e, va, x) ==
  /\ t \in VmType /\ t.pte[e][va] = x
  /\ \A d \in Env, v \in Va : <<d, v>> # <<e, va>> => t.pte[d][v] = s.pte[d][v]
  /\ t.ref = s.ref /\ t.free = s.free /\ t.data = s.data
  /\ t.dir = s.dir /\ t.tab = s.tab /\ t.tlb = s.tlb

IsPageFree(s, t, p) ==
  /\ t \in VmType /\ t.ref = s.ref
  /\ t.free = IF s.ref[p] = 0 THEN s.free \cup {p} ELSE s.free
  /\ t.dir = s.dir /\ t.tab = s.tab /\ t.pte = s.pte /\ t.tlb = s.tlb
  /\ \A q \in Page : t.data[q] = IF s.ref[p] = 0 /\ q = p THEN NoVal ELSE s.data[q]

IsPageDecref(s, t, p) ==
  /\ t \in VmType /\ t.ref = [s.ref EXCEPT ![p] = @ - 1]
  /\ t.free = IF s.ref[p] = 1 THEN s.free \cup {p} ELSE s.free
  /\ t.dir = s.dir /\ t.tab = s.tab /\ t.pte = s.pte /\ t.tlb = s.tlb
  /\ \A q \in Page : t.data[q] = IF s.ref[p] = 1 /\ q = p THEN NoVal ELSE s.data[q]

IsTlbInvalidate(s, t, c, e, va) ==
  /\ t \in VmType /\ t.ref = s.ref /\ t.free = s.free /\ t.data = s.data
  /\ t.dir = s.dir /\ t.tab = s.tab /\ t.pte = s.pte
  /\ \A d \in Cpu, v \in Va :
       t.tlb[d][v] = IF d = c /\ v = va /\ cur[c] = e THEN Absent ELSE s.tlb[d][v]

IsPageRemove(s, t, c, e, va, p) ==
  /\ t \in VmType /\ t.ref = [s.ref EXCEPT ![p] = @ - 1]
  /\ t.free = IF s.ref[p] = 1 THEN s.free \cup {p} ELSE s.free
  /\ t.dir = s.dir /\ t.tab = s.tab /\ t.pte[e][va] = Absent
  /\ \A d \in Env, v \in Va : <<d, v>> # <<e, va>> => t.pte[d][v] = s.pte[d][v]
  /\ \A q \in Page : t.data[q] = IF s.ref[p] = 1 /\ q = p THEN NoVal ELSE s.data[q]
  /\ \A d \in Cpu, v \in Va :
       t.tlb[d][v] = IF d = c /\ v = va /\ cur[c] = e THEN Absent ELSE s.tlb[d][v]

\* page_free, field by field.
LEMMA PageFreeIs ==
  ASSUME NEW s, s \in VmType, NEW p \in Page
  PROVE  IsPageFree(s, PageFree(s, p), p)
BY DEF PageFree, VmType, IsPageFree

\* page_decref, field by field.
LEMMA PageDecrefIs ==
  ASSUME NEW s, s \in VmType, NEW p \in Page, s.ref[p] # 0
  PROVE  IsPageDecref(s, PageDecref(s, p), p)
<1> DEFINE u == [s EXCEPT !.ref[p] = @ - 1]
           t == PageFree(u, p)
<1>1. s.ref[p] \in Nat /\ s.ref[p] - 1 \in Nat
  BY DEF VmType
<1>2. /\ u \in VmType /\ u.ref = [s.ref EXCEPT ![p] = @ - 1]
      /\ u.free = s.free /\ u.data = s.data
      /\ u.dir = s.dir /\ u.tab = s.tab /\ u.pte = s.pte /\ u.tlb = s.tlb
  BY <1>1 DEF VmType
<1>3. u.ref[p] = s.ref[p] - 1
  BY <1>2 DEF VmType
<1>4. t = PageDecref(s, p)
  BY DEF PageDecref
<1> HIDE DEF u
<1>5. IsPageFree(u, t, p)
  BY <1>2, PageFreeIs
<1>6. u.ref[p] = 0 <=> s.ref[p] = 1
  BY <1>1, <1>3
<1> HIDE DEF t
<1>7. IsPageDecref(s, t, p)
  BY <1>2, <1>5, <1>6 DEF IsPageFree, IsPageDecref
<1>8. QED
  BY <1>4, <1>7

\* An entry points to a page or to none.
LEMMA PteIs ==
  ASSUME NEW s, s \in VmType, NEW e \in Env, NEW va \in Va
  PROVE  /\ s.pte[e][va] \in Pte
         /\ s.pte[e][va].page \in Page \cup {NoPage} /\ s.pte[e][va].perm \in Perms
BY DEF VmType, Pte

\* The entry that is not there.
LEMMA AbsentPte == Absent \in Pte /\ Absent.page = NoPage
BY DEF Absent, Pte, Perms

\* An entry is set, field by field.
LEMMA SetPteIs ==
  ASSUME NEW s, s \in VmType, NEW e \in Env, NEW va \in Va, NEW x \in Pte
  PROVE  IsSetPte(s, [s EXCEPT !.pte[e][va] = x], e, va, x)
BY DEF VmType, IsSetPte

\* tlb_invalidate, field by field.
LEMMA TlbInvalidateIs ==
  ASSUME NEW s, s \in VmType, NEW c \in Cpu, NEW e \in Env, NEW va \in Va
  PROVE  IsTlbInvalidate(s, TlbInvalidate(s, c, e, va), c, e, va)
BY AbsentPte DEF TlbInvalidate, VmType, IsTlbInvalidate

\* page_remove of a page that is there, field by field.
LEMMA PageRemoveIs ==
  ASSUME NEW s, s \in VmType, NEW c \in Cpu, NEW e \in Env, NEW va \in Va,
         NEW p \in Page, p = s.pte[e][va].page, s.ref[p] # 0
  PROVE  IsPageRemove(s, PageRemove(s, c, e, va), c, e, va, p)
<1> DEFINE u == [s EXCEPT !.pte[e][va] = Absent]
           w == PageDecref(u, p)
           t == TlbInvalidate(w, c, e, va)
<1>1. t = PageRemove(s, c, e, va)
  BY PagesAssumption DEF PageRemove
<1>2. IsSetPte(s, u, e, va, Absent)
  BY SetPteIs, AbsentPte
<1> HIDE DEF u
<1>3. u \in VmType /\ u.ref = s.ref
  BY <1>2 DEF IsSetPte
<1>4. IsPageDecref(u, w, p)
  BY <1>3, PageDecrefIs
<1> HIDE DEF w
<1>5. w \in VmType
  BY <1>4 DEF IsPageDecref
<1>6. IsTlbInvalidate(w, t, c, e, va)
  BY <1>5, TlbInvalidateIs
<1> HIDE DEF t
<1>7. /\ u.ref = s.ref /\ u.free = s.free /\ u.data = s.data
      /\ u.dir = s.dir /\ u.tab = s.tab /\ u.tlb = s.tlb
  BY <1>2 DEF IsSetPte
<1>8. /\ t \in VmType /\ t.ref = w.ref /\ t.free = w.free /\ t.data = w.data
      /\ t.dir = w.dir /\ t.tab = w.tab /\ t.pte = w.pte
  BY <1>6 DEF IsTlbInvalidate
<1>9. /\ t.ref = [s.ref EXCEPT ![p] = @ - 1]
      /\ t.free = IF s.ref[p] = 1 THEN s.free \cup {p} ELSE s.free
      /\ t.dir = s.dir /\ t.tab = s.tab /\ t.pte = u.pte /\ w.tlb = s.tlb
      /\ \A q \in Page : t.data[q] = IF s.ref[p] = 1 /\ q = p THEN NoVal ELSE s.data[q]
  BY <1>4, <1>7, <1>8 DEF IsPageDecref
<1>10. /\ t.pte[e][va] = Absent
       /\ \A d \in Env, v \in Va : <<d, v>> # <<e, va>> => t.pte[d][v] = s.pte[d][v]
  BY <1>2, <1>9 DEF IsSetPte
<1>11. \A d \in Cpu, v \in Va :
         t.tlb[d][v] = IF d = c /\ v = va /\ cur[c] = e THEN Absent ELSE s.tlb[d][v]
  BY <1>6, <1>9 DEF IsTlbInvalidate
<1>12. IsPageRemove(s, t, c, e, va, p)
  BY <1>8, <1>9, <1>10, <1>11 DEF IsPageRemove
<1>13. QED
  BY <1>1, <1>12

-----------------------------------------------------------------------------
\* Nobody but CPU c runs on e's page table.
Alone(c, e) ==
  cur \in [Cpu -> Env \cup {NoEnv}] /\ \A d \in Cpu : d # c => cur[d] # e

\* TlbCoherent of a record.
Coherent(s) ==
  \A c \in Cpu, va \in Va :
    s.tlb[c][va].page # NoPage =>
      cur[c] # NoEnv /\ s.tlb[c][va] = s.pte[cur[c]][va]

\* What every routine keeps.
MemOk(s, X) == s \in VmType /\ Exact(s, X) /\ Coherent(s)

\* A routine edited at most the entry of va in e's page table.
Edited(s, t, e, va) ==
  /\ t.dir = s.dir
  /\ \A d \in Env, v \in Va : <<d, v>> # <<e, va>> => t.pte[d][v] = s.pte[d][v]
  /\ \A d \in Cpu, v \in Va :
       t.tlb[d][v].page # NoPage => t.tlb[d][v] = s.tlb[d][v]
  /\ \A q \in Page : q \notin s.free /\ q \notin t.free => t.data[q] = s.data[q]

\* A page that an entry points to is in use.
LEMMA Counts ==
  ASSUME NEW s, NEW X, Exact(s, X), NEW p \in Page,
         \/ \E e \in Env, va \in Va : s.pte[e][va].page = p
         \/ \E e \in Env : s.dir[e] = p \/ s.tab[e] = p
  PROVE  s.ref[p] # 0 /\ p \notin s.free /\ p \notin X
<1>1. PtesOf(s, p) # {} \/ DirsOf(s, p) # {} \/ TabsOf(s, p) # {}
  <2>1. CASE \E e \in Env, va \in Va : s.pte[e][va].page = p
    <3>1. PICK e \in Env, va \in Va : s.pte[e][va].page = p
      BY <2>1
    <3>2. <<e, va>> \in PtesOf(s, p)
      BY <3>1 DEF PtesOf
    <3>3. QED
      BY <3>2
  <2>2. CASE \E e \in Env : s.dir[e] = p \/ s.tab[e] = p
    BY <2>2 DEF DirsOf, TabsOf
  <2>3. QED
    BY <2>1, <2>2
<1>2. UsesIn(s, p) # 0
  <2>1. /\ Cardinality(PtesOf(s, p)) \in Nat /\ Cardinality(DirsOf(s, p)) \in Nat
        /\ Cardinality(TabsOf(s, p)) \in Nat
    BY Finite, FS_CardinalityType
  <2>2. \/ Cardinality(PtesOf(s, p)) # 0 \/ Cardinality(DirsOf(s, p)) # 0
        \/ Cardinality(TabsOf(s, p)) # 0
    BY <1>1, Finite, FS_EmptySet
  <2>3. QED
    BY <2>1, <2>2 DEF UsesIn
<1>3. QED
  BY <1>2 DEF Exact

\* The same, of pages that are as they should be.
LEMMA InUse ==
  ASSUME NEW s, NEW X, MemOk(s, X), NEW p \in Page,
         \/ \E e \in Env, va \in Va : s.pte[e][va].page = p
         \/ \E e \in Env : s.dir[e] = p \/ s.tab[e] = p
  PROVE  s.ref[p] # 0 /\ p \notin s.free /\ p \notin X
BY Counts DEF MemOk

\* The entry is gone, and nothing was allocated.
IsRemoved(s, t, e, va) ==
  /\ t.pte[e][va].page = NoPage /\ t.tab = s.tab /\ s.free \subseteq t.free
  /\ \A q \in Page : q # s.pte[e][va].page => t.ref[q] = s.ref[q]

\* page_remove keeps the counts exact and the TLBs coherent, and takes one entry away.
LEMMA PageRemoveOk ==
  ASSUME NEW s, NEW X, MemOk(s, X), NEW c \in Cpu, NEW e \in Env, NEW va \in Va,
         Alone(c, e), NEW t, t = PageRemove(s, c, e, va)
  PROVE  MemOk(t, X) /\ Edited(s, t, e, va) /\ IsRemoved(s, t, e, va)
<1> DEFINE p == s.pte[e][va].page
<1>1. CASE p = NoPage
  <2>1. t = s
    BY <1>1 DEF PageRemove
  <2>2. QED
    BY <1>1, <2>1 DEF Edited, IsRemoved
<1>2. CASE p # NoPage
  <2>1. p \in Page /\ s \in VmType
    BY <1>2, PteIs DEF MemOk
  <2>2. s.ref[p] # 0 /\ p \notin s.free /\ p \notin X
    BY <2>1, InUse
  <2>3. IsPageRemove(s, t, c, e, va, p)
    BY <2>1, <2>2, PageRemoveIs
  <2>4. t.pte[e][va].page = NoPage
    BY <2>3, AbsentPte DEF IsPageRemove
  <2>5. \A q \in Page : UsesIn(t, q) = UsesIn(s, q) - One(p = q) + One(t.pte[e][va].page = q)
    BY <2>3, PteUses DEF IsPageRemove
  <2>6. Exact(t, X)
    <3> SUFFICES ASSUME NEW q \in Page
                 PROVE  /\ t.ref[q] = UsesIn(t, q)
                        /\ q \in t.free <=> t.ref[q] = 0 /\ q \notin X
                        /\ q \in X => t.ref[q] = 0
      BY DEF Exact
    <3>1. One(t.pte[e][va].page = q) = 0
      BY <2>4, PagesAssumption DEF One
    <3>2. /\ s.ref[q] = UsesIn(s, q) /\ s.ref[q] \in Nat
          /\ q \in s.free <=> s.ref[q] = 0 /\ q \notin X
          /\ q \in X => s.ref[q] = 0
      BY <2>1 DEF MemOk, Exact, VmType
    <3>3. CASE q = p
      <4>1. UsesIn(t, q) = UsesIn(s, q) - 1
        BY <2>5, <3>1, <3>2, <3>3 DEF One
      <4>2. t.ref[q] = s.ref[q] - 1
        BY <2>1, <2>3, <3>3 DEF VmType, IsPageRemove
      <4>3. q \in t.free <=> s.ref[q] = 1
        BY <2>2, <2>3, <3>3 DEF IsPageRemove
      <4>4. q \notin X
        BY <2>2, <3>3
      <4>5. QED
        BY <3>2, <4>1, <4>2, <4>3, <4>4
    <3>4. CASE q # p
      <4>1. UsesIn(t, q) = UsesIn(s, q)
        BY <2>5, <3>1, <3>2, <3>4 DEF One
      <4>2. t.ref[q] = s.ref[q]
        BY <2>1, <2>3, <3>4 DEF VmType, IsPageRemove
      <4>3. q \in t.free <=> q \in s.free
        BY <2>3, <3>4 DEF IsPageRemove
      <4>4. QED
        BY <3>2, <4>1, <4>2, <4>3
    <3>5. QED
      BY <3>3, <3>4
  <2>7. Coherent(t)
    <3> SUFFICES ASSUME NEW d \in Cpu, NEW v \in Va, t.tlb[d][v].page # NoPage
                 PROVE  cur[d] # NoEnv /\ t.tlb[d][v] = t.pte[cur[d]][v]
      BY DEF Coherent
    <3>1. ~(d = c /\ v = va /\ cur[c] = e) /\ t.tlb[d][v] = s.tlb[d][v]
      BY <2>3, AbsentPte DEF IsPageRemove
    <3>2. cur[d] # NoEnv /\ s.tlb[d][v] = s.pte[cur[d]][v]
      BY <3>1 DEF MemOk, Coherent
    <3>3. ~(cur[d] = e /\ v = va)
      BY <3>1 DEF Alone
    <3>4. CASE cur[d] \in Env
      <4>1. <<cur[d], v>> # <<e, va>>
        BY <3>3
      <4>2. t.pte[cur[d]][v] = s.pte[cur[d]][v]
        BY <2>3, <3>4, <4>1 DEF IsPageRemove
      <4>3. QED
        BY <3>1, <3>2, <4>2
    <3>5. QED
      BY <3>2, <3>4 DEF Alone
  <2>8. Edited(s, t, e, va)
    BY <2>3, AbsentPte DEF IsPageRemove, Edited
  <2>9. IsRemoved(s, t, e, va)
    BY <2>1, <2>3, <2>4 DEF IsPageRemove, IsRemoved, VmType
  <2>10. QED
    BY <2>3, <2>6, <2>7, <2>8, <2>9 DEF MemOk, IsPageRemove
<1>3. QED
  BY <1>1, <1>2

\* page_alloc's page is free, and the caller's until it is counted.
LEMMA PageAllocOk ==
  ASSUME NEW s, MemOk(s, {}), s.free # {}, NEW p, p = Head(s),
         NEW t, t = PageAlloc(s)
  PROVE  /\ p \in Page /\ p \in s.free /\ s.ref[p] = 0
         /\ MemOk(t, {p}) /\ IsAllocated(s, t, p)
<1>1. s \in VmType /\ p \in Page /\ p \in s.free
  BY HeadIs DEF MemOk
<1>2. s.ref[p] = 0
  BY <1>1 DEF MemOk, Exact
<1>3. IsAllocated(s, t, p)
  BY <1>1, PageAllocIs
<1>4. \A q \in Page : UsesIn(t, q) = UsesIn(s, q)
  BY <1>3 DEF IsAllocated, UsesIn, PtesOf, DirsOf, TabsOf
<1>5. Exact(t, {p})
  BY <1>1, <1>2, <1>3, <1>4 DEF MemOk, Exact, IsAllocated
<1>6. Coherent(t)
  BY <1>3 DEF IsAllocated, MemOk, Coherent
<1>7. QED
  BY <1>1, <1>2, <1>3, <1>5, <1>6 DEF MemOk, IsAllocated

\* The page is put back.
LEMMA GiveBackOk ==
  ASSUME NEW s, NEW p \in Page, MemOk(s, {p}), NEW t, t = PageFree(s, p)
  PROVE  MemOk(t, {}) /\ IsPageFree(s, t, p)
<1>1. s \in VmType /\ s.ref[p] = 0
  BY DEF MemOk, Exact
<1>2. IsPageFree(s, t, p)
  BY <1>1, PageFreeIs
<1>3. \A q \in Page : UsesIn(t, q) = UsesIn(s, q)
  BY <1>2 DEF IsPageFree, UsesIn, PtesOf, DirsOf, TabsOf
<1>4. t.free = s.free \cup {p} /\ t.ref = s.ref /\ t \in VmType
  BY <1>1, <1>2 DEF IsPageFree
<1>5. Exact(t, {})
  BY <1>1, <1>3, <1>4 DEF MemOk, Exact
<1>6. Coherent(t)
  BY <1>2 DEF IsPageFree, MemOk, Coherent
<1>7. QED
  BY <1>2, <1>4, <1>5, <1>6 DEF MemOk

\* The page that page_alloc took for the page table of e.
IsWalked(s, t, e) ==
  /\ t.tab[e] # NoPage /\ t.dir = s.dir /\ t.pte = s.pte /\ t.tlb = s.tlb
  /\ t.free \subseteq s.free
  /\ \A q \in Page : q \notin s.free => t.data[q] = s.data[q] /\ t.ref[q] = s.ref[q]

IsTable(s, t, e, p) ==
  /\ t \in VmType /\ t.ref = [s.ref EXCEPT ![p] = 1]
  /\ t.tab = [s.tab EXCEPT ![e] = p]
  /\ t.free = s.free /\ t.data = s.data /\ t.dir = s.dir
  /\ t.pte = s.pte /\ t.tlb = s.tlb

\* A page becomes a page-table page, field by field.
LEMMA TableIs ==
  ASSUME NEW s, s \in VmType, NEW p \in Page, NEW e \in Env
  PROVE  IsTable(s, [s EXCEPT !.ref[p] = 1, !.tab[e] = p], e, p)
BY DEF VmType, IsTable

\* pgdir_walk(create) keeps the counts exact, with a page in the caller's hands too.
LEMMA PgdirWalkOk ==
  ASSUME NEW s, NEW X, MemOk(s, X), NEW e \in Env, ~NoTable(s, e),
         NEW t, t = PgdirWalk(s, e)
  PROVE  MemOk(t, X) /\ IsWalked(s, t, e)
<1>1. CASE s.tab[e] # NoPage
  <2>1. t = s
    BY <1>1 DEF PgdirWalk
  <2>2. QED
    BY <1>1, <2>1 DEF IsWalked
<1>2. CASE s.tab[e] = NoPage
  <2> DEFINE p == Head(s)
             u == PageAlloc(s)
  <2>1. s \in VmType /\ s.free # {} /\ p \in Page /\ p \in s.free
    BY <1>2, HeadIs DEF MemOk, NoTable
  <2>a. IsAllocated(s, u, p)
    BY <2>1, PageAllocIs
  <2>2. /\ u \in VmType /\ u.ref = s.ref /\ u.free = s.free \ {p}
        /\ u.dir = s.dir /\ u.tab = s.tab /\ u.pte = s.pte /\ u.tlb = s.tlb
        /\ \A q \in Page : q # p => u.data[q] = s.data[q]
    BY <2>a DEF IsAllocated
  <2>3. t = [u EXCEPT !.ref[p] = 1, !.tab[e] = p]
    BY <1>2 DEF PgdirWalk
  <2>4. s.ref[p] = 0 /\ p \notin X
    BY <2>1 DEF MemOk, Exact
  <2> HIDE DEF u, p
  <2>5. /\ t \in VmType /\ t.ref = [u.ref EXCEPT ![p] = 1]
        /\ t.tab = [u.tab EXCEPT ![e] = p]
        /\ t.free = u.free /\ t.data = u.data /\ t.dir = u.dir
        /\ t.pte = u.pte /\ t.tlb = u.tlb
    <3>a. IsTable(u, [u EXCEPT !.ref[p] = 1, !.tab[e] = p], e, p)
      BY <2>1, <2>2, TableIs
    <3>1. IsTable(u, t, e, p)
      BY <2>3, <3>a
    <3>2. QED
      BY <3>1 DEF IsTable
  <2>6. /\ t.tab[e] = p
        /\ \A d \in Env : d # e => t.tab[d] = s.tab[d]
    BY <2>1, <2>2, <2>5 DEF VmType
  <2>7. /\ t.ref[p] = 1
        /\ \A q \in Page : q # p => t.ref[q] = s.ref[q]
    BY <2>1, <2>2, <2>5 DEF VmType
  <2>8. \A q \in Page : UsesIn(t, q) = UsesIn(s, q) - One(s.tab[e] = q) + One(t.tab[e] = q)
    <3>1. t.pte = s.pte /\ t.dir = s.dir
      BY <2>2, <2>5
    <3>2. QED
      BY <2>6, <3>1, TabUses
  <2>9. Exact(t, X)
    <3> SUFFICES ASSUME NEW q \in Page
                 PROVE  /\ t.ref[q] = UsesIn(t, q)
                        /\ q \in t.free <=> t.ref[q] = 0 /\ q \notin X
                        /\ q \in X => t.ref[q] = 0
      BY DEF Exact
    <3>1. One(s.tab[e] = q) = 0 /\ One(t.tab[e] = q) = IF p = q THEN 1 ELSE 0
      BY <1>2, <2>6, PagesAssumption DEF One
    <3>2. /\ s.ref[q] = UsesIn(s, q) /\ s.ref[q] \in Nat
          /\ q \in s.free <=> s.ref[q] = 0 /\ q \notin X
          /\ q \in X => s.ref[q] = 0
      BY <2>1 DEF MemOk, Exact, VmType
    <3>3. UsesIn(t, q) = UsesIn(s, q) + IF p = q THEN 1 ELSE 0
      BY <2>8, <3>1, <3>2
    <3>4. q \in t.free <=> q \in s.free /\ q # p
      BY <2>2, <2>5
    <3>5. QED
      BY <2>4, <2>7, <3>2, <3>3, <3>4
  <2>10. Coherent(t)
    BY <2>2, <2>5 DEF MemOk, Coherent
  <2>11. IsWalked(s, t, e)
    <3>1. t.tab[e] # NoPage
      BY <2>1, <2>6, PagesAssumption
    <3>2. \A q \in Page : q \notin s.free => t.data[q] = s.data[q] /\ t.ref[q] = s.ref[q]
      BY <2>1, <2>2, <2>5, <2>7
    <3>3. QED
      BY <2>2, <2>5, <3>1, <3>2 DEF IsWalked
  <2>12. QED
    BY <2>5, <2>9, <2>10, <2>11 DEF MemOk
<1>3. QED
  BY <1>1, <1>2

\* An entry that was absent points to a page.
IsEntry(s, t, e, va, p, perm) ==
  /\ t \in VmType /\ t.ref = [s.ref EXCEPT ![p] = @ + 1]
  /\ t.pte[e][va] = [page |-> p, perm |-> perm]
  /\ \A d \in Env, v \in Va : <<d, v>> # <<e, va>> => t.pte[d][v] = s.pte[d][v]
  /\ t.free = s.free /\ t.data = s.data /\ t.dir = s.dir
  /\ t.tab = s.tab /\ t.tlb = s.tlb

\* A page is mapped and counted, field by field.
LEMMA EntryIs ==
  ASSUME NEW s, s \in VmType, NEW e \in Env, NEW va \in Va, NEW p \in Page,
         NEW perm \in Perms,
         NEW t, t = [s EXCEPT !.ref[p] = @ + 1, !.pte[e][va] = [page |-> p, perm |-> perm]]
  PROVE  IsEntry(s, t, e, va, p, perm)
<1> DEFINE x == [page |-> p, perm |-> perm]
<1>1. x \in Pte
  BY DEF Pte
<1> HIDE DEF x
<1>2. /\ s.ref \in [Page -> Nat] /\ s.pte \in [Env -> [Va -> Pte]]
      /\ s.free \in SUBSET Page /\ s.data \in [Page -> Val \cup {NoVal}]
      /\ s.dir \in [Env -> Page \cup {NoPage}] /\ s.tab \in [Env -> Page \cup {NoPage}]
      /\ s.tlb \in [Cpu -> [Va -> Pte]]
  BY DEF VmType
<1>3. /\ t.ref = [s.ref EXCEPT ![p] = @ + 1]
      /\ t.pte = [s.pte EXCEPT ![e] = [@ EXCEPT ![va] = x]]
      /\ t.free = s.free /\ t.data = s.data /\ t.dir = s.dir
      /\ t.tab = s.tab /\ t.tlb = s.tlb
  BY DEF VmType, x
<1>4. t.ref \in [Page -> Nat]
  BY <1>2, <1>3
<1>5. t.pte \in [Env -> [Va -> Pte]]
  BY <1>1, <1>2, <1>3
<1>6. t \in VmType
  BY <1>2, <1>3, <1>4, <1>5 DEF VmType
<1>7. t.pte[e][va] = x
  BY <1>2, <1>3
<1>8. \A d \in Env, v \in Va : <<d, v>> # <<e, va>> => t.pte[d][v] = s.pte[d][v]
  BY <1>2, <1>3
<1>9. QED
  BY <1>3, <1>6, <1>7, <1>8 DEF x, IsEntry

\* A page that some entry of s points to, or that was just allocated.
Given(s, X, p) == (X = {} /\ s.ref[p] # 0) \/ X = {p}

\* The entry of va in e's page table is p's now.
EntryOk(s, t, e, va, p, perm) ==
  /\ MemOk(t, {}) /\ Edited(s, t, e, va)
  /\ t.pte[e][va] = [page |-> p, perm |-> perm]

\* page_insert of a page in place of another.
LEMMA ReplaceOk ==
  ASSUME NEW s, NEW X, MemOk(s, X), NEW c \in Cpu, NEW e \in Env, NEW va \in Va,
         Alone(c, e), NEW p \in Page, NEW perm \in Perms,
         Given(s, X, p), s.pte[e][va].page # p,
         NEW t, t = Replace(s, c, e, p, va, perm)
  PROVE  EntryOk(s, t, e, va, p, perm)
<1> DEFINE u == PageRemove(s, c, e, va)
<1>1. t = [u EXCEPT !.ref[p] = @ + 1, !.pte[e][va] = [page |-> p, perm |-> perm]]
  BY DEF Replace
<1>2. MemOk(u, X) /\ Edited(s, u, e, va) /\ IsRemoved(s, u, e, va)
  BY PageRemoveOk
<1> HIDE DEF u
<1>3. u \in VmType
  BY <1>2 DEF MemOk
<1>4. IsEntry(u, t, e, va, p, perm)
  BY <1>1, <1>3, EntryIs
<1>5. Given(u, X, p)
  BY <1>2 DEF IsRemoved, Given
<1>6. \A q \in Page : UsesIn(t, q) = UsesIn(u, q) - One(u.pte[e][va].page = q)
                                    + One(t.pte[e][va].page = q)
  <2>1. /\ t.dir = u.dir /\ t.tab = u.tab
        /\ \A d \in Env, v \in Va : <<d, v>> # <<e, va>> => t.pte[d][v] = u.pte[d][v]
    BY <1>4 DEF IsEntry
  <2>2. \A x \in Env \X Va : x # <<e, va>> => t.pte[x[1]][x[2]].page = u.pte[x[1]][x[2]].page
    BY <2>1
  <2>3. QED
    BY <2>1, <2>2, PteUses
<1>7. Exact(t, {})
  <2> SUFFICES ASSUME NEW q \in Page
               PROVE  t.ref[q] = UsesIn(t, q) /\ (q \in t.free <=> t.ref[q] = 0)
    BY DEF Exact
  <2>1. One(u.pte[e][va].page = q) = 0
    BY <1>2, PagesAssumption DEF One, IsRemoved
  <2>2. One(t.pte[e][va].page = q) = IF p = q THEN 1 ELSE 0
    BY <1>4 DEF One, IsEntry
  <2>3. /\ u.ref[q] = UsesIn(u, q) /\ u.ref[q] \in Nat
        /\ q \in u.free <=> u.ref[q] = 0 /\ q \notin X
        /\ q \in X => u.ref[q] = 0
    BY <1>2, <1>3 DEF MemOk, Exact, VmType
  <2>4. UsesIn(t, q) = UsesIn(u, q) + IF p = q THEN 1 ELSE 0
    BY <1>6, <2>1, <2>2, <2>3
  <2>5. t.ref[q] = u.ref[q] + IF p = q THEN 1 ELSE 0
    BY <1>3, <1>4, <2>3 DEF IsEntry, VmType
  <2>6. q \in t.free <=> q \in u.free
    BY <1>4 DEF IsEntry
  <2>7. t.ref[q] = UsesIn(t, q)
    BY <2>3, <2>4, <2>5
  <2>8. CASE q = p
    <3>1. q \notin u.free
      BY <1>5, <2>3, <2>8 DEF Given
    <3>2. QED
      BY <2>3, <2>5, <2>6, <2>7, <2>8, <3>1
  <2>9. CASE q # p
    <3>1. q \notin X
      BY <1>5, <2>9 DEF Given
    <3>2. QED
      BY <2>3, <2>5, <2>6, <2>7, <2>9, <3>1
  <2>10. QED
    BY <2>8, <2>9
<1>8. Coherent(t)
  <2> SUFFICES ASSUME NEW d \in Cpu, NEW v \in Va, t.tlb[d][v].page # NoPage
               PROVE  cur[d] # NoEnv /\ t.tlb[d][v] = t.pte[cur[d]][v]
    BY DEF Coherent
  <2>1. cur[d] # NoEnv /\ t.tlb[d][v] = u.pte[cur[d]][v] /\ cur[d] \in Env
    BY <1>2, <1>4 DEF MemOk, Coherent, IsEntry, Alone
  <2>2. u.pte[cur[d]][v].page # NoPage
    BY <2>1
  <2>3. <<cur[d], v>> # <<e, va>>
    BY <1>2, <2>2 DEF IsRemoved
  <2>4. t.pte[cur[d]][v] = u.pte[cur[d]][v]
    BY <1>4, <2>1, <2>3 DEF IsEntry
  <2>5. QED
    BY <2>1, <2>4
<1>9. Edited(s, t, e, va)
  BY <1>2, <1>4 DEF Edited, IsEntry
<1>10. t \in VmType /\ t.pte[e][va] = [page |-> p, perm |-> perm]
  BY <1>4 DEF IsEntry
<1>11. QED
  BY <1>7, <1>8, <1>9, <1>10 DEF MemOk, EntryOk

\* Only the permission changes, and this CPU forgets the entry.
LEMMA PermOk ==
  ASSUME NEW s, MemOk(s, {}), NEW c \in Cpu, NEW e \in Env, NEW va \in Va,
         Alone(c, e), NEW p \in Page, NEW perm \in Perms, s.pte[e][va].page = p
  PROVE  EntryOk(s, [TlbInvalidate(s, c, e, va) EXCEPT !.pte[e][va].perm = perm],
                 e, va, p, perm)
<1> DEFINE t == [TlbInvalidate(s, c, e, va) EXCEPT !.pte[e][va].perm = perm]
           u == TlbInvalidate(s, c, e, va)
           x == [page |-> p, perm |-> perm]
<1>1. s \in VmType /\ s.pte[e][va] \in Pte
  BY PteIs DEF MemOk
<1>2. IsTlbInvalidate(s, u, c, e, va)
  BY <1>1, TlbInvalidateIs
<1> HIDE DEF u, t
<1>3. u \in VmType /\ u.pte = s.pte
  BY <1>2 DEF IsTlbInvalidate
<1>4. u.pte[e][va] \in Pte /\ u.pte[e][va].page = p
  BY <1>1, <1>3
<1>5. [u.pte[e][va] EXCEPT !.perm = perm] = x
  BY <1>4 DEF Pte
<1>6. t = [u EXCEPT !.pte[e][va] = x]
  <2>1. t = [u EXCEPT !.pte[e][va].perm = perm]
    BY DEF u, t
  <2>2. u.pte \in [Env -> [Va -> Pte]]
    BY <1>3 DEF VmType
  <2>3. t.pte = [u.pte EXCEPT ![e] = [@ EXCEPT ![va] = x]]
    BY <1>3, <1>5, <2>1, <2>2 DEF VmType
  <2>4. QED
    BY <1>3, <1>5, <2>1, <2>2 DEF VmType
<1>7. x \in Pte
  BY DEF Pte
<1>8. IsSetPte(u, t, e, va, x)
  <2> HIDE DEF x
  <2>1. IsSetPte(u, [u EXCEPT !.pte[e][va] = x], e, va, x)
    BY <1>3, <1>7, SetPteIs
  <2>2. QED
    BY <1>6, <2>1
<1>9. /\ t \in VmType /\ t.ref = s.ref /\ t.free = s.free /\ t.data = s.data
      /\ t.dir = s.dir /\ t.tab = s.tab /\ t.tlb = u.tlb /\ t.pte[e][va] = x
      /\ \A d \in Env, v \in Va : <<d, v>> # <<e, va>> => t.pte[d][v] = s.pte[d][v]
  BY <1>2, <1>8 DEF IsTlbInvalidate, IsSetPte
<1>10. \A q \in Page : UsesIn(t, q) = UsesIn(s, q)
  <2>1. \A y \in Env \X Va : t.pte[y[1]][y[2]].page = s.pte[y[1]][y[2]].page
    <3> SUFFICES ASSUME NEW d \in Env, NEW v \in Va
                 PROVE  t.pte[d][v].page = s.pte[d][v].page
      OBVIOUS
    <3>1. QED
      BY <1>9
  <2>2. \A q \in Page : PtesOf(t, q) = PtesOf(s, q)
    BY <2>1 DEF PtesOf
  <2>3. \A q \in Page : DirsOf(t, q) = DirsOf(s, q) /\ TabsOf(t, q) = TabsOf(s, q)
    BY <1>9 DEF DirsOf, TabsOf
  <2>4. QED
    BY <2>2, <2>3 DEF UsesIn
<1>11. Exact(t, {})
  BY <1>9, <1>10 DEF MemOk, Exact
<1>12. \A d \in Cpu, v \in Va :
         t.tlb[d][v] = IF d = c /\ v = va /\ cur[c] = e THEN Absent ELSE s.tlb[d][v]
  BY <1>2, <1>9 DEF IsTlbInvalidate
<1>13. Coherent(t)
  <2> SUFFICES ASSUME NEW d \in Cpu, NEW v \in Va, t.tlb[d][v].page # NoPage
               PROVE  cur[d] # NoEnv /\ t.tlb[d][v] = t.pte[cur[d]][v]
    BY DEF Coherent
  <2>1. ~(d = c /\ v = va /\ cur[c] = e) /\ t.tlb[d][v] = s.tlb[d][v]
    BY <1>12, AbsentPte
  <2>2. cur[d] # NoEnv /\ s.tlb[d][v] = s.pte[cur[d]][v] /\ cur[d] \in Env
    BY <2>1 DEF MemOk, Coherent, Alone
  <2>3. <<cur[d], v>> # <<e, va>>
    BY <2>1 DEF Alone
  <2>4. t.pte[cur[d]][v] = s.pte[cur[d]][v]
    BY <1>9, <2>2, <2>3
  <2>5. QED
    BY <2>1, <2>2, <2>4
<1>14. Edited(s, t, e, va)
  BY <1>9, <1>12, AbsentPte DEF Edited
<1>15. EntryOk(s, t, e, va, p, perm)
  BY <1>9, <1>11, <1>13, <1>14 DEF MemOk, EntryOk
<1>16. QED
  BY <1>15 DEF t

\* page_insert of a page that is in use or in the caller's hands.
LEMMA PageInsertOk ==
  ASSUME NEW s, NEW X, MemOk(s, X), NEW c \in Cpu, NEW e \in Env, NEW va \in Va,
         Alone(c, e), ~NoTable(s, e), NEW p \in Page, NEW perm \in Perms,
         Given(s, X, p),
         NEW t, t = PageInsert(s, c, e, p, va, perm)
  PROVE  EntryOk(s, t, e, va, p, perm)
<1> DEFINE u == PgdirWalk(s, e)
<1>1. MemOk(u, X) /\ IsWalked(s, u, e)
  BY PgdirWalkOk
<1>2. Given(u, X, p)
  <2>1. CASE X = {p}
    BY <2>1 DEF Given
  <2>2. CASE X = {} /\ s.ref[p] # 0
    <3>1. p \notin s.free
      BY <2>2 DEF MemOk, Exact
    <3>2. QED
      BY <1>1, <2>2, <3>1 DEF IsWalked, Given
  <2>3. QED
    BY <2>1, <2>2 DEF Given
<1>3. /\ u.pte[e][va].page = p => t = [TlbInvalidate(u, c, e, va) EXCEPT !.pte[e][va].perm = perm]
      /\ u.pte[e][va].page # p => t = Replace(u, c, e, p, va, perm)
  BY DEF PageInsert
<1> HIDE DEF u
<1>4. \A w : Edited(u, w, e, va) => Edited(s, w, e, va)
  BY <1>1 DEF Edited, IsWalked
<1>5. CASE u.pte[e][va].page = p
  <2>1. p \notin X
    BY <1>1, <1>5, InUse
  <2>2. X = {}
    BY <1>2, <2>1 DEF Given
  <2>3. MemOk(u, {})
    BY <1>1, <2>2
  <2>4. t = [TlbInvalidate(u, c, e, va) EXCEPT !.pte[e][va].perm = perm]
    BY <1>3, <1>5
  <2>5. EntryOk(u, t, e, va, p, perm)
    <3>1. EntryOk(u, [TlbInvalidate(u, c, e, va) EXCEPT !.pte[e][va].perm = perm],
                  e, va, p, perm)
      BY <1>5, <2>3, PermOk
    <3>2. QED
      BY <2>4, <3>1
  <2>6. QED
    BY <1>4, <2>5 DEF EntryOk
<1>6. CASE u.pte[e][va].page # p
  <2>1. t = Replace(u, c, e, p, va, perm)
    BY <1>3, <1>6
  <2>2. EntryOk(u, t, e, va, p, perm)
    BY <1>1, <1>2, <1>6, <2>1, ReplaceOk
  <2>3. QED
    BY <1>4, <2>2 DEF EntryOk
<1>7. QED
  BY <1>5, <1>6

-----------------------------------------------------------------------------
\* The system calls.

\* What a call on the entry of va in e's page table leaves: its result r.
CallOk(s, r, e, va) ==
  /\ MemOk(r.vm, {}) /\ Edited(s, r.vm, e, va)
  /\ ~r.ok => r.vm.pte = s.pte
  /\ r.ok => r.vm.pte[e][va].page # NoPage

\* sys_page_alloc: nothing is lost when it fails, and the entry is new when it does not.
LEMMA SysPageAllocOk ==
  ASSUME NEW s, MemOk(s, {}), NEW c \in Cpu, NEW e \in Env, NEW va \in Va,
         Alone(c, e), NEW r, r = SysPageAlloc(s, c, e, va)
  PROVE  /\ CallOk(s, r, e, va)
         /\ r.ok => r.vm.pte[e][va] = [page |-> Head(s), perm |-> "w"]
<1>1. CASE s.free = {}
  <2>1. r.vm = s /\ ~r.ok
    BY <1>1 DEF SysPageAlloc, Failed
  <2>2. QED
    BY <2>1 DEF CallOk, Edited
<1>2. CASE s.free # {}
  <2> DEFINE p == Head(s)
             t == PageAlloc(s)
  <2>1. p \in Page /\ p \in s.free /\ s.ref[p] = 0 /\ MemOk(t, {p}) /\ IsAllocated(s, t, p)
    BY <1>2, PageAllocOk
  <2>2. r = IF NoTable(t, e) THEN Failed(PageFree(t, p)) ELSE Done(PageInsert(t, c, e, p, va, "w"))
    BY <1>2 DEF SysPageAlloc
  <2> HIDE DEF p, t
  <2>3. CASE NoTable(t, e)
    <3> DEFINE u == PageFree(t, p)
    <3>1. r.vm = u /\ ~r.ok
      BY <2>2, <2>3 DEF Failed
    <3>2. MemOk(u, {}) /\ IsPageFree(t, u, p)
      BY <2>1, GiveBackOk
    <3> HIDE DEF u
    <3>3. u.pte = s.pte /\ u.dir = s.dir /\ u.tlb = s.tlb
      BY <2>1, <3>2 DEF IsPageFree, IsAllocated
    <3>4. \A q \in Page : q # p => u.data[q] = s.data[q]
      BY <2>1, <3>2 DEF IsPageFree, IsAllocated
    <3>5. Edited(s, u, e, va)
      BY <2>1, <3>3, <3>4 DEF Edited
    <3>6. QED
      BY <3>1, <3>2, <3>3, <3>5 DEF CallOk
  <2>4. CASE ~NoTable(t, e)
    <3> DEFINE u == PageInsert(t, c, e, p, va, "w")
    <3>1. r.vm = u /\ r.ok
      BY <2>2, <2>4 DEF Done
    <3>2. Given(t, {p}, p) /\ "w" \in Perms
      BY DEF Given, Perms
    <3>3. /\ MemOk(u, {}) /\ Edited(t, u, e, va)
          /\ u.pte[e][va] = [page |-> p, perm |-> "w"]
      BY <2>1, <2>4, <3>2, PageInsertOk DEF EntryOk
    <3> HIDE DEF u
    <3>4. Edited(s, u, e, va)
      BY <2>1, <3>3 DEF Edited, IsAllocated
    <3>5. u.pte[e][va].page # NoPage
      BY <2>1, <3>3, PagesAssumption
    <3>6. QED
      BY <3>1, <3>3, <3>4, <3>5 DEF CallOk, p
  <2>5. QED
    BY <2>3, <2>4
<1>3. QED
  BY <1>1, <1>2

\* What sys_page_map leaves: its result r.
MapOk(s, r, src, sva, e, va, perm) ==
  /\ CallOk(s, r, e, va)
  /\ ~r.ok => r.vm = s
  /\ r.ok => /\ s.pte[src][sva].page \in Page
             /\ perm = "w" => s.pte[src][sva].perm = "w"
             /\ r.vm.pte[e][va] = [page |-> s.pte[src][sva].page, perm |-> perm]

\* sys_page_map: a failed one changes nothing, another maps the source's page.
LEMMA SysPageMapOk ==
  ASSUME NEW s, MemOk(s, {}), NEW c \in Cpu, NEW src \in Env, NEW sva \in Va,
         NEW e \in Env, NEW va \in Va, Alone(c, e), NEW perm \in Perms,
         NEW r, r = SysPageMap(s, c, src, sva, e, va, perm)
  PROVE  MapOk(s, r, src, sva, e, va, perm)
<1> DEFINE p == s.pte[src][sva]
           bad == p.page = NoPage \/ (perm = "w" /\ p.perm # "w") \/ NoTable(s, e)
<1>1. CASE bad
  <2>1. r.vm = s /\ ~r.ok
    BY <1>1 DEF SysPageMap, Failed
  <2>2. QED
    BY <2>1 DEF MapOk, CallOk, Edited
<1>2. CASE ~bad
  <2> DEFINE u == PageInsert(s, c, e, p.page, va, perm)
  <2>1. r.vm = u /\ r.ok
    BY <1>2 DEF SysPageMap, Done
  <2>2. p.page \in Page
    BY <1>2, PteIs DEF MemOk
  <2>3. s.ref[p.page] # 0
    BY <2>2, InUse
  <2>4. Given(s, {}, p.page) /\ ~NoTable(s, e)
    BY <1>2, <2>3 DEF Given
  <2>5. /\ MemOk(u, {}) /\ Edited(s, u, e, va)
        /\ u.pte[e][va] = [page |-> p.page, perm |-> perm]
    <3> HIDE DEF p
    <3>1. QED
      BY <2>2, <2>4, PageInsertOk DEF EntryOk
  <2>6. u.pte[e][va].page # NoPage
    BY <2>2, <2>5, PagesAssumption
  <2> HIDE DEF u
  <2>7. perm = "w" => p.perm = "w"
    BY <1>2
  <2>8. QED
    BY <2>1, <2>2, <2>5, <2>6, <2>7 DEF MapOk, CallOk
<1>3. QED
  BY <1>1, <1>2

\* env_setup_vm gives e a page directory.
IsSetup(s, t, e) ==
  /\ t.pte = s.pte /\ t.tab = s.tab /\ t.tlb = s.tlb /\ t.dir[e] # NoPage
  /\ \A d \in Env : d # e => t.dir[d] = s.dir[d]
  /\ \A q \in Page : q \notin s.free => t.data[q] = s.data[q] /\ q \notin t.free

IsDir(s, t, e, p) ==
  /\ t \in VmType /\ t.ref = [s.ref EXCEPT ![p] = @ + 1]
  /\ t.dir = [s.dir EXCEPT ![e] = p]
  /\ t.free = s.free /\ t.data = s.data /\ t.tab = s.tab
  /\ t.pte = s.pte /\ t.tlb = s.tlb

\* A page becomes a page directory, field by field.
LEMMA DirIs ==
  ASSUME NEW s, s \in VmType, NEW p \in Page, NEW e \in Env,
         NEW t, t = [s EXCEPT !.ref[p] = @ + 1, !.dir[e] = p]
  PROVE  IsDir(s, t, e, p)
<1>1. /\ s.ref \in [Page -> Nat] /\ s.pte \in [Env -> [Va -> Pte]]
      /\ s.free \in SUBSET Page /\ s.data \in [Page -> Val \cup {NoVal}]
      /\ s.dir \in [Env -> Page \cup {NoPage}] /\ s.tab \in [Env -> Page \cup {NoPage}]
      /\ s.tlb \in [Cpu -> [Va -> Pte]]
  BY DEF VmType
<1>2. /\ t.ref = [s.ref EXCEPT ![p] = @ + 1]
      /\ t.dir = [s.dir EXCEPT ![e] = p]
      /\ t.free = s.free /\ t.data = s.data /\ t.tab = s.tab
      /\ t.pte = s.pte /\ t.tlb = s.tlb
  BY DEF VmType
<1>3. t.ref \in [Page -> Nat] /\ t.dir \in [Env -> Page \cup {NoPage}]
  BY <1>1, <1>2
<1>4. t \in VmType
  BY <1>1, <1>2, <1>3 DEF VmType
<1>5. QED
  BY <1>2, <1>4 DEF IsDir

\* env_setup_vm keeps the counts exact.
LEMMA EnvSetupVmOk ==
  ASSUME NEW s, MemOk(s, {}), s.free # {}, NEW e \in Env, s.dir[e] = NoPage,
         NEW r, r = EnvSetupVm(s, e)
  PROVE  r.ok /\ MemOk(r.vm, {}) /\ IsSetup(s, r.vm, e)
<1> DEFINE p == Head(s)
           u == PageAlloc(s)
           t == r.vm
<1>1. r.ok /\ t = [u EXCEPT !.ref[p] = @ + 1, !.dir[e] = p]
  BY DEF EnvSetupVm, Done
<1>2. p \in Page /\ p \in s.free /\ s.ref[p] = 0 /\ MemOk(u, {p}) /\ IsAllocated(s, u, p)
  BY PageAllocOk
<1> HIDE DEF p, u, t
<1>3. u \in VmType
  BY <1>2 DEF MemOk
<1>4. /\ t \in VmType /\ t.ref = [u.ref EXCEPT ![p] = @ + 1]
      /\ t.dir = [u.dir EXCEPT ![e] = p]
      /\ t.free = u.free /\ t.data = u.data /\ t.tab = u.tab
      /\ t.pte = u.pte /\ t.tlb = u.tlb
  <2>1. IsDir(u, t, e, p)
    BY <1>1, <1>2, <1>3, DirIs
  <2>2. QED
    BY <2>1 DEF IsDir
<1>5. t.dir[e] = p /\ \A d \in Env : d # e => t.dir[d] = u.dir[d]
  BY <1>3, <1>4 DEF VmType
<1>6. \A q \in Page : UsesIn(t, q) = UsesIn(u, q) - One(u.dir[e] = q) + One(t.dir[e] = q)
  <2>1. t.pte = u.pte /\ t.tab = u.tab
    BY <1>4
  <2>2. \A d \in Env : d # e => t.dir[d] = u.dir[d]
    BY <1>5
  <2>3. QED
    BY <2>1, <2>2, DirUses
<1>7. Exact(t, {})
  <2> SUFFICES ASSUME NEW q \in Page
               PROVE  t.ref[q] = UsesIn(t, q) /\ (q \in t.free <=> t.ref[q] = 0)
    BY DEF Exact
  <2>1. One(u.dir[e] = q) = 0 /\ One(t.dir[e] = q) = IF p = q THEN 1 ELSE 0
    BY <1>2, <1>5, PagesAssumption DEF One, IsAllocated
  <2>2. /\ u.ref[q] = UsesIn(u, q) /\ u.ref[q] \in Nat
        /\ q \in u.free <=> u.ref[q] = 0 /\ q # p
        /\ q = p => u.ref[q] = 0
    BY <1>2, <1>3 DEF MemOk, Exact, VmType
  <2>3. UsesIn(t, q) = UsesIn(u, q) + IF p = q THEN 1 ELSE 0
    BY <1>6, <2>1, <2>2
  <2>4. t.ref[q] = u.ref[q] + IF p = q THEN 1 ELSE 0
    BY <1>3, <1>4, <2>2 DEF VmType
  <2>5. q \in t.free <=> q \in u.free
    BY <1>4
  <2>6. QED
    BY <2>2, <2>3, <2>4, <2>5
<1>8. Coherent(t)
  BY <1>2, <1>4 DEF MemOk, Coherent
<1>9. IsSetup(s, t, e)
  <2>1. t.dir[e] # NoPage
    BY <1>2, <1>5, PagesAssumption
  <2>2. \A q \in Page : q \notin s.free => t.data[q] = s.data[q] /\ q \notin t.free
    BY <1>2, <1>4 DEF IsAllocated
  <2>3. QED
    BY <1>2, <1>4, <1>5, <2>1, <2>2 DEF IsSetup, IsAllocated
<1>10. QED
  BY <1>1, <1>4, <1>7, <1>8, <1>9 DEF MemOk, t

\* lcr3 empties the CPU's TLB and leaves the pages alone.
LEMMA Lcr3Ok ==
  ASSUME NEW s, MemOk(s, {}), NEW c \in Cpu, NEW t, t = Lcr3(s, c)
  PROVE  /\ MemOk(t, {}) /\ t.pte = s.pte /\ t.dir = s.dir /\ t.tab = s.tab
         /\ t.data = s.data /\ t.free = s.free
         /\ \A va \in Va : t.tlb[c][va] = Absent
         /\ \A d \in Cpu : d # c => t.tlb[d] = s.tlb[d]
<1>1. /\ t \in VmType /\ t.ref = s.ref /\ t.free = s.free /\ t.data = s.data
      /\ t.dir = s.dir /\ t.tab = s.tab /\ t.pte = s.pte
      /\ t.tlb[c] = NoPtes /\ \A d \in Cpu : d # c => t.tlb[d] = s.tlb[d]
  BY AbsentPte DEF Lcr3, MemOk, VmType, NoPtes
<1>2. \A va \in Va : t.tlb[c][va] = Absent
  BY <1>1 DEF NoPtes
<1>3. Exact(t, {})
  BY <1>1 DEF MemOk, Exact, UsesIn, PtesOf, DirsOf, TabsOf
<1>4. Coherent(t)
  BY <1>1, <1>2, AbsentPte DEF MemOk, Coherent
<1>5. QED
  BY <1>1, <1>2, <1>3, <1>4 DEF MemOk

-----------------------------------------------------------------------------
\* env_free's loop over the page table is the function that its definition names.
IsLoop(g, k, s, c, e) ==
  g = [n \in 0 .. k |-> IF n = 0 THEN s ELSE PageRemove(g[n - 1], c, e, n - 1)]

\* There is such a sequence, however long.
LEMMA LoopExists ==
  ASSUME NEW s, NEW c, NEW e, NEW N \in Nat
  PROVE  \E g : IsLoop(g, N, s, c, e)
<1> DEFINE T == {k \in Nat : ~ \E g : IsLoop(g, k, s, c, e)}
<1>1. SUFFICES ASSUME T # {} PROVE FALSE
  BY <1>1
<1>2. PICK k \in T : \A m \in T : k <= m
  <2> HIDE DEF T
  <2>1. T \in SUBSET Nat
    BY DEF T
  <2>2. QED
    BY <1>1, <2>1, LeastNat
<1>3. k \in Nat /\ ~ \E g : IsLoop(g, k, s, c, e)
  OBVIOUS
<1>4. k # 0
  <2>1. IsLoop([n \in 0 .. 0 |-> s], 0, s, c, e)
    BY DEF IsLoop
  <2>2. QED
    BY <1>3, <2>1
<1>5. k - 1 \in Nat /\ k - 1 \notin T
  BY <1>2, <1>3, <1>4
<1>6. PICK g : IsLoop(g, k - 1, s, c, e)
  BY <1>5
<1> DEFINE h == [n \in 0 .. k |-> IF n = k THEN PageRemove(g[k - 1], c, e, k - 1) ELSE g[n]]
<1>7. IsLoop(h, k, s, c, e)
  <2> SUFFICES ASSUME NEW n \in 0 .. k
               PROVE  h[n] = IF n = 0 THEN s ELSE PageRemove(h[n - 1], c, e, n - 1)
    BY DEF IsLoop
  <2>1. CASE n = k
    <3>1. h[k - 1] = g[k - 1]
      BY <1>3, <1>4
    <3>2. QED
      BY <1>3, <1>4, <2>1, <3>1
  <2>2. CASE n = 0
    <3>1. g[0] = s
      BY <1>5, <1>6 DEF IsLoop
    <3>2. QED
      BY <1>4, <2>2, <3>1
  <2>3. CASE n # k /\ n # 0
    <3>1. n \in 0 .. k - 1 /\ n - 1 \in 0 .. k /\ n - 1 # k
      BY <1>3, <2>3
    <3>2. g[n] = PageRemove(g[n - 1], c, e, n - 1)
      BY <1>6, <2>3, <3>1 DEF IsLoop
    <3>3. h[n] = g[n] /\ h[n - 1] = g[n - 1]
      BY <2>3, <3>1
    <3>4. QED
      BY <2>3, <3>2, <3>3
  <2>4. QED
    BY <2>1, <2>2, <2>3
<1>8. QED
  BY <1>3, <1>7

\* env_free's loop computes one.
LEMMA RemoveAllIs ==
  ASSUME NEW s, NEW c, NEW e
  PROVE  \E g : IsLoop(g, UXSTACK + 1, s, c, e) /\ RemoveAll(s, c, e) = g[UXSTACK + 1]
<1> DEFINE f == CHOOSE g : IsLoop(g, UXSTACK + 1, s, c, e)
<1>1. \E g : IsLoop(g, UXSTACK + 1, s, c, e)
  BY LoopExists, PagesAssumption DEF UXSTACK
<1>2. IsLoop(f, UXSTACK + 1, s, c, e)
  BY <1>1, Zenon
<1>3. RemoveAll(s, c, e) = f[UXSTACK + 1]
  BY DEF RemoveAll, IsLoop
<1>4. QED
  BY <1>2, <1>3

\* The first n entries are gone.
LoopOk(s, t, c, e, n) ==
  /\ MemOk(t, {}) /\ t.dir = s.dir /\ t.tab = s.tab /\ s.free \subseteq t.free
  /\ \A v \in Va : v < n => t.pte[e][v].page = NoPage
  /\ \A d \in Env, v \in Va : d # e => t.pte[d][v] = s.pte[d][v]
  /\ \A d \in Cpu, v \in Va :
       t.tlb[d][v].page # NoPage => t.tlb[d][v] = s.tlb[d][v]
  /\ \A q \in Page : q \notin t.free => t.data[q] = s.data[q]

\* The loop goes on with one more address.
LEMMA LoopStep ==
  ASSUME NEW s, NEW c \in Cpu, NEW e \in Env, Alone(c, e),
         NEW n \in Nat, n \in Va, NEW t, LoopOk(s, t, c, e, n),
         NEW u, u = PageRemove(t, c, e, n)
  PROVE  LoopOk(s, u, c, e, n + 1)
<1>1. MemOk(u, {}) /\ Edited(t, u, e, n) /\ IsRemoved(t, u, e, n)
  BY PageRemoveOk DEF LoopOk
<1>2. \A v \in Va : v < n + 1 => u.pte[e][v].page = NoPage
  <2> SUFFICES ASSUME NEW v \in Va, v < n + 1 PROVE u.pte[e][v].page = NoPage
    OBVIOUS
  <2>1. CASE v = n
    BY <1>1, <2>1 DEF IsRemoved
  <2>2. CASE v # n
    <3>1. v < n
      BY <2>2, PagesAssumption DEF Va, PFTEMP, UXSTACK
    <3>2. <<e, v>> # <<e, n>>
      BY <2>2
    <3>3. u.pte[e][v] = t.pte[e][v]
      BY <1>1, <3>2 DEF Edited
    <3>4. QED
      BY <3>1, <3>3 DEF LoopOk
  <2>3. QED
    BY <2>1, <2>2
<1>3. \A d \in Env, v \in Va : d # e => u.pte[d][v] = s.pte[d][v]
  <2> SUFFICES ASSUME NEW d \in Env, NEW v \in Va, d # e PROVE u.pte[d][v] = s.pte[d][v]
    OBVIOUS
  <2>1. <<d, v>> # <<e, n>>
    OBVIOUS
  <2>2. QED
    BY <1>1, <2>1 DEF Edited, LoopOk
<1>4. \A d \in Cpu, v \in Va :
        u.tlb[d][v].page # NoPage => u.tlb[d][v] = s.tlb[d][v]
  BY <1>1 DEF Edited, LoopOk
<1>5. s.free \subseteq u.free /\ \A q \in Page : q \notin u.free => u.data[q] = s.data[q]
  BY <1>1 DEF Edited, IsRemoved, LoopOk
<1>6. u.dir = s.dir /\ u.tab = s.tab
  BY <1>1 DEF Edited, IsRemoved, LoopOk
<1>7. QED
  BY <1>1, <1>2, <1>3, <1>4, <1>5, <1>6 DEF LoopOk

\* env_free's loop takes every entry of e away and keeps the rest.
LEMMA RemoveAllOk ==
  ASSUME NEW s, MemOk(s, {}), NEW c \in Cpu, NEW e \in Env, Alone(c, e)
  PROVE  LoopOk(s, RemoveAll(s, c, e), c, e, UXSTACK + 1)
<1> DEFINE N == UXSTACK + 1
<1>1. PICK g : IsLoop(g, N, s, c, e) /\ RemoveAll(s, c, e) = g[N]
  BY RemoveAllIs
<1>2. N \in Nat /\ \A n \in Nat : n < N => n \in Va
  BY PagesAssumption DEF UXSTACK, Va, PFTEMP
<1> HIDE DEF N
<1>3. g[0] = s /\ \A n \in 1 .. N : g[n] = PageRemove(g[n - 1], c, e, n - 1)
  BY <1>1, <1>2 DEF IsLoop
<1> DEFINE T == {n \in 0 .. N : ~LoopOk(s, g[n], c, e, n)}
<1>4. T = {}
  <2>1. SUFFICES ASSUME T # {} PROVE FALSE
    BY <2>1
  <2>2. PICK n \in T : \A m \in T : n <= m
    <3>1. T \in SUBSET Nat
      OBVIOUS
    <3> HIDE DEF T
    <3>2. QED
      BY <2>1, <3>1, LeastNat
  <2>3. n \in 0 .. N /\ ~LoopOk(s, g[n], c, e, n)
    OBVIOUS
  <2>4. n # 0
    <3>1. \A v \in Va : ~(v < 0)
      BY PagesAssumption DEF UXSTACK, Va, PFTEMP
    <3>2. LoopOk(s, s, c, e, 0)
      BY <3>1 DEF LoopOk
    <3>3. QED
      BY <1>3, <2>3, <3>2
  <2>5. n - 1 \in 0 .. N /\ n - 1 \in Nat /\ n - 1 < N /\ n \in 1 .. N /\ (n - 1) + 1 = n
    BY <1>2, <2>3, <2>4
  <2>6. LoopOk(s, g[n - 1], c, e, n - 1)
    <3>1. n - 1 \notin T
      BY <2>2, <2>5
    <3>2. QED
      BY <2>5, <3>1
  <2>7. g[n] = PageRemove(g[n - 1], c, e, n - 1) /\ n - 1 \in Va
    BY <1>2, <1>3, <2>5
  <2>8. LoopOk(s, g[n], c, e, (n - 1) + 1)
    <3> DEFINE m == n - 1
    <3>1. m \in Nat /\ m \in Va /\ LoopOk(s, g[m], c, e, m) /\ g[n] = PageRemove(g[m], c, e, m)
      BY <2>5, <2>6, <2>7
    <3> HIDE DEF m
    <3>2. LoopOk(s, g[n], c, e, m + 1)
      BY <3>1, LoopStep
    <3>3. QED
      BY <3>2 DEF m
  <2>9. QED
    BY <2>3, <2>5, <2>8
<1>5. N \in 0 .. N
  BY <1>2
<1>6. LoopOk(s, g[N], c, e, N)
  BY <1>4, <1>5
<1>7. QED
  BY <1>1, <1>6 DEF N

\* A page loses the last or another of its uses.
LEMMA DropOk ==
  ASSUME NEW s, MemOk(s, {}), NEW p \in Page, s.ref[p] # 0,
         NEW w, w \in VmType, w.ref = s.ref, w.free = s.free, w.tlb = s.tlb,
         w.pte = s.pte, \A q \in Page : UsesIn(w, q) = UsesIn(s, q) - One(p = q),
         NEW t, t = PageDecref(w, p)
  PROVE  MemOk(t, {}) /\ IsPageDecref(w, t, p)
<1>1. IsPageDecref(w, t, p)
  BY PageDecrefIs
<1>2. \A q \in Page : UsesIn(t, q) = UsesIn(w, q)
  BY <1>1 DEF IsPageDecref, UsesIn, PtesOf, DirsOf, TabsOf
<1>3. Exact(t, {})
  <2> SUFFICES ASSUME NEW q \in Page
               PROVE  t.ref[q] = UsesIn(t, q) /\ (q \in t.free <=> t.ref[q] = 0)
    BY DEF Exact
  <2>1. /\ s.ref[q] = UsesIn(s, q) /\ s.ref[q] \in Nat
        /\ q \in s.free <=> s.ref[q] = 0
    BY DEF MemOk, Exact, VmType
  <2>2. UsesIn(t, q) = UsesIn(s, q) - IF p = q THEN 1 ELSE 0
    BY <1>2 DEF One
  <2>3. t.ref[q] = s.ref[q] - IF p = q THEN 1 ELSE 0
    BY <1>1, <2>1 DEF IsPageDecref, VmType
  <2>4. q \in t.free <=> q \in s.free \/ (q = p /\ s.ref[p] = 1)
    BY <1>1 DEF IsPageDecref
  <2>5. CASE q = p
    BY <2>1, <2>2, <2>3, <2>4, <2>5
  <2>6. CASE q # p
    BY <2>1, <2>2, <2>3, <2>4, <2>6
  <2>7. QED
    BY <2>5, <2>6
<1>4. Coherent(t)
  BY <1>1 DEF MemOk, Coherent, IsPageDecref
<1>5. QED
  BY <1>1, <1>3, <1>4 DEF MemOk, IsPageDecref

-----------------------------------------------------------------------------
\* env_free: e has no page left, and nobody else lost one.
IsFreed(s, t, c, e) ==
  /\ MemOk(t, {}) /\ t.dir[e] = NoPage /\ t.tab[e] = NoPage
  /\ \A v \in Va : t.pte[e][v].page = NoPage
  /\ \A d \in Env, v \in Va : d # e => t.pte[d][v] = s.pte[d][v]
  /\ \A d \in Env : d # e => t.dir[d] = s.dir[d]
  /\ \A d \in Cpu, v \in Va :
       t.tlb[d][v].page # NoPage => cur[d] # e /\ t.tlb[d][v] = s.tlb[d][v]
  /\ \A q \in Page : q \notin t.free => t.data[q] = s.data[q]

\* env_free keeps the counts exact and leaves e nothing.
LEMMA EnvFreeOk ==
  ASSUME NEW s, MemOk(s, {}), NEW c \in Cpu, NEW e \in Env, Alone(c, e),
         s.dir[e] # NoPage, NEW t, t = EnvFree(s, c, e)
  PROVE  IsFreed(s, t, c, e)
<1> DEFINE s1 == IF cur[c] = e THEN Lcr3(s, c) ELSE s
           r == RemoveAll(s1, c, e)
           u == IF r.tab[e] = NoPage THEN r
                ELSE PageDecref([r EXCEPT !.tab[e] = NoPage], r.tab[e])
           w == [u EXCEPT !.dir[e] = NoPage]
<1>1. t = PageDecref(w, u.dir[e])
  BY DEF EnvFree
<1>2. /\ MemOk(s1, {}) /\ s1.pte = s.pte /\ s1.dir = s.dir /\ s1.tab = s.tab
      /\ s1.data = s.data /\ s1.free = s.free
      /\ \A d \in Cpu, v \in Va :
           s1.tlb[d][v].page # NoPage => cur[d] # e /\ s1.tlb[d][v] = s.tlb[d][v]
  <2>1. CASE cur[c] = e
    <3>1. s1 = Lcr3(s, c)
      BY <2>1
    <3>2. /\ MemOk(s1, {}) /\ s1.pte = s.pte /\ s1.dir = s.dir /\ s1.tab = s.tab
          /\ s1.data = s.data /\ s1.free = s.free
          /\ \A va \in Va : s1.tlb[c][va] = Absent
          /\ \A d \in Cpu : d # c => s1.tlb[d] = s.tlb[d]
      BY <3>1, Lcr3Ok
    <3> HIDE DEF s1
    <3>3. QED
      BY <3>2, AbsentPte DEF Alone
  <2>2. CASE cur[c] # e
    BY <2>2 DEF Alone
  <2>3. QED
    BY <2>1, <2>2
<1> HIDE DEF s1
<1>3. LoopOk(s1, r, c, e, UXSTACK + 1)
  BY <1>2, RemoveAllOk
<1> HIDE DEF r
<1>4. /\ MemOk(r, {}) /\ r \in VmType /\ r.dir = s.dir
      /\ \A v \in Va : r.pte[e][v].page = NoPage
      /\ \A d \in Env, v \in Va : d # e => r.pte[d][v] = s.pte[d][v]
      /\ \A d \in Cpu, v \in Va :
           r.tlb[d][v].page # NoPage => cur[d] # e /\ r.tlb[d][v] = s.tlb[d][v]
      /\ \A q \in Page : q \notin r.free => r.data[q] = s.data[q]
  <2>1. \A v \in Va : v < UXSTACK + 1
    BY PagesAssumption DEF Va, PFTEMP, UXSTACK
  <2>2. \A v \in Va : r.pte[e][v].page = NoPage
    BY <1>3, <2>1 DEF LoopOk
  <2>3. \A d \in Cpu, v \in Va :
           r.tlb[d][v].page # NoPage => cur[d] # e /\ r.tlb[d][v] = s.tlb[d][v]
    BY <1>2, <1>3 DEF LoopOk
  <2>4. /\ MemOk(r, {}) /\ r \in VmType /\ r.dir = s.dir
        /\ \A d \in Env, v \in Va : d # e => r.pte[d][v] = s.pte[d][v]
        /\ \A q \in Page : q \notin r.free => r.data[q] = s.data[q]
    BY <1>2, <1>3 DEF LoopOk, MemOk
  <2>5. QED
    BY <2>2, <2>3, <2>4
<1>5. /\ MemOk(u, {}) /\ u.dir = r.dir /\ u.pte = r.pte /\ u.tlb = r.tlb
      /\ u.tab[e] = NoPage
      /\ \A q \in Page : q \notin u.free => q \notin r.free /\ u.data[q] = r.data[q]
  <2>1. CASE r.tab[e] = NoPage
    <3>1. u = r
      BY <2>1
    <3>2. QED
      BY <1>4, <2>1, <3>1
  <2>2. CASE r.tab[e] # NoPage
    <3> DEFINE p == r.tab[e]
               v == [r EXCEPT !.tab[e] = NoPage]
    <3>1. u = PageDecref(v, p)
      BY <2>2
    <3>2. p \in Page
      BY <1>4, <2>2 DEF VmType
    <3>3. r.ref[p] # 0
      BY <1>4, <3>2, InUse
    <3>4. /\ v \in VmType /\ v.ref = r.ref /\ v.free = r.free /\ v.tlb = r.tlb
          /\ v.pte = r.pte /\ v.dir = r.dir /\ v.data = r.data
          /\ v.tab = [r.tab EXCEPT ![e] = NoPage]
      BY <1>4 DEF VmType
    <3>5. v.tab[e] = NoPage /\ \A d \in Env : d # e => v.tab[d] = r.tab[d]
      BY <1>4, <3>4 DEF VmType
    <3>6. \A q \in Page : UsesIn(v, q) = UsesIn(r, q) - One(p = q)
      <4> SUFFICES ASSUME NEW q \in Page PROVE UsesIn(v, q) = UsesIn(r, q) - One(p = q)
        OBVIOUS
      <4>1. UsesIn(v, q) = UsesIn(r, q) - One(r.tab[e] = q) + One(v.tab[e] = q)
        <5>1. v.pte = r.pte /\ v.dir = r.dir
          BY <3>4
        <5>2. \A d \in Env : d # e => v.tab[d] = r.tab[d]
          BY <3>5
        <5> HIDE DEF v, p
        <5>3. QED
          BY <5>1, <5>2, TabUses
      <4>2. One(v.tab[e] = q) = 0 /\ One(r.tab[e] = q) = One(p = q) /\ One(p = q) \in Nat
        BY <3>5, PagesAssumption DEF One
      <4> HIDE DEF v, p
      <4>3. QED
        BY <4>1, <4>2, UsesNat
    <3> HIDE DEF u, v, p
    <3>7. MemOk(u, {}) /\ IsPageDecref(v, u, p)
      BY <1>4, <3>1, <3>2, <3>3, <3>4, <3>6, DropOk
    <3>8. u.dir = r.dir /\ u.pte = r.pte /\ u.tlb = r.tlb /\ u.tab[e] = NoPage
      BY <3>4, <3>5, <3>7 DEF IsPageDecref
    <3>9. \A q \in Page : q \notin u.free => q \notin r.free /\ u.data[q] = r.data[q]
      BY <3>4, <3>7 DEF IsPageDecref
    <3>10. QED
      BY <3>7, <3>8, <3>9
  <2>3. QED
    BY <2>1, <2>2
<1> HIDE DEF u
<1> DEFINE p == u.dir[e]
<1>6. u \in VmType /\ p \in Page
  BY <1>4, <1>5 DEF MemOk, VmType
<1>7. u.ref[p] # 0
  BY <1>5, <1>6, InUse
<1>8. /\ w \in VmType /\ w.ref = u.ref /\ w.free = u.free /\ w.tlb = u.tlb
      /\ w.pte = u.pte /\ w.tab = u.tab /\ w.data = u.data
      /\ w.dir = [u.dir EXCEPT ![e] = NoPage]
  BY <1>6 DEF VmType
<1>9. w.dir[e] = NoPage /\ \A d \in Env : d # e => w.dir[d] = u.dir[d]
  BY <1>6, <1>8 DEF VmType
<1>10. \A q \in Page : UsesIn(w, q) = UsesIn(u, q) - One(p = q)
  <2> SUFFICES ASSUME NEW q \in Page PROVE UsesIn(w, q) = UsesIn(u, q) - One(p = q)
    OBVIOUS
  <2>1. UsesIn(w, q) = UsesIn(u, q) - One(u.dir[e] = q) + One(w.dir[e] = q)
    <3>1. w.pte = u.pte /\ w.tab = u.tab
      BY <1>8
    <3>2. \A d \in Env : d # e => w.dir[d] = u.dir[d]
      BY <1>9
    <3> HIDE DEF w, p
    <3>3. QED
      BY <3>1, <3>2, DirUses
  <2>2. One(w.dir[e] = q) = 0 /\ One(u.dir[e] = q) = One(p = q) /\ One(p = q) \in Nat
    BY <1>9, PagesAssumption DEF One
  <2> HIDE DEF w, p
  <2>3. QED
    BY <2>1, <2>2, UsesNat
<1>11. t = PageDecref(w, p)
  BY <1>1
<1> HIDE DEF w, p
<1>12. MemOk(t, {}) /\ IsPageDecref(w, t, p)
  BY <1>5, <1>6, <1>7, <1>8, <1>10, <1>11, DropOk
<1>13. /\ t.dir[e] = NoPage /\ t.tab[e] = NoPage /\ t.pte = u.pte /\ t.tlb = u.tlb
       /\ \A d \in Env : d # e => t.dir[d] = u.dir[d]
  BY <1>5, <1>8, <1>9, <1>12 DEF IsPageDecref
<1>14. \A q \in Page : q \notin t.free => q \notin u.free /\ t.data[q] = u.data[q]
  BY <1>8, <1>12 DEF IsPageDecref
<1>15. /\ \A v \in Va : t.pte[e][v].page = NoPage
       /\ \A d \in Env, v \in Va : d # e => t.pte[d][v] = s.pte[d][v]
       /\ \A d \in Env : d # e => t.dir[d] = s.dir[d]
  BY <1>4, <1>5, <1>13
<1>16. \A d \in Cpu, v \in Va :
         t.tlb[d][v].page # NoPage => cur[d] # e /\ t.tlb[d][v] = s.tlb[d][v]
  BY <1>4, <1>5, <1>13
<1>17. \A q \in Page : q \notin t.free => t.data[q] = s.data[q]
  BY <1>4, <1>5, <1>14
<1>18. QED
  BY <1>12, <1>13, <1>15, <1>16, <1>17 DEF IsFreed

-----------------------------------------------------------------------------
\* The inductive invariant.

\* The part of fork that has a child.
ForkPcs == {"dup", "ro", "child", "own", "upcall", "status"}

\* A slot has a page directory exactly when it is taken, and a free slot maps
\* nothing.
DirsOk ==
  \A e \in Env : /\ vm.dir[e] = NoPage <=> status[e] = "free"
                 /\ status[e] = "free" => \A va \in Va : vm.pte[e][va].page = NoPage

\* A CPU runs a living environment, and nobody else does.
CurOk ==
  \A c \in Cpu : cur[c] # NoEnv =>
    /\ status[cur[c]] \in {"ready", "dying"}
    /\ \A d \in Cpu : d # c => cur[d] # cur[c]

\* The child that an environment is forking is its own and does not run.
KidsOk ==
  \A e \in Env :
    /\ kid[e] # NoEnv => /\ status[kid[e]] = "not_runnable"
                         /\ \A d \in Env : d # e => kid[d] # kid[e]
    /\ pc[e] \in ForkPcs => kid[e] # NoEnv
    /\ pc[e] \in {"run", "exofork"} => kid[e] = NoEnv
    /\ pc[e] \in {"ro", "child", "own"} => dup[e] \in UserVa

\* Who is not alive is not in fork nor in the page fault handler.
IdleOk ==
  \A e \in Env : status[e] \in {"free", "not_runnable"} =>
    pc[e] = "run" /\ fault[e] = NoFault

\* The handler has the page that it copies, and the page that it copies to.
FaultOk ==
  \A e \in Env :
    /\ fault[e].pc # "none" => /\ fault[e].va \in UserVa
                               /\ vm.pte[e][fault[e].va].page # NoPage
                               /\ vm.pte[e][fault[e].va].perm = "cow"
    /\ fault[e].pc \in {"copy", "map"} => vm.pte[e][PFTEMP].page # NoPage

\* What holds in every state and every step preserves.
IInv == TypeOK /\ MemOk(vm, {}) /\ DirsOk /\ CurOk /\ KidsOk /\ IdleOk /\ FaultOk

\* The types, and the pages, as IInv has them.
LEMMA Typed ==
  ASSUME IInv
  PROVE  /\ vm \in VmType /\ MemOk(vm, {})
         /\ cur \in [Cpu -> Env \cup {NoEnv}]
         /\ status \in [Env -> {"free", "not_runnable", "ready", "dying"}]
         /\ parent \in [Env -> Env \cup {NoEnv}] /\ upcall \in [Env -> BOOLEAN]
         /\ pc \in [Env -> Pcs] /\ kid \in [Env -> Env \cup {NoEnv}]
         /\ dup \in [Env -> 0 .. NVA + 1]
         /\ fault \in [Env -> [pc : FaultPcs, va : Va]] /\ ops \in 0 .. MaxOps
BY DEF IInv, TypeOK

\* Addresses.
LEMMA Vas ==
  /\ UserVa \subseteq Va /\ PFTEMP \in Va /\ UXSTACK \in Va
  /\ PFTEMP \notin UserVa /\ UXSTACK \notin UserVa /\ PFTEMP # UXSTACK
  /\ UserVa \subseteq 0 .. NVA + 1 /\ Stack \in UserVa
  /\ \A n \in UserVa : n + 1 \in 0 .. NVA + 1
  /\ 1 \in 0 .. NVA + 1 /\ 0 \in 0 .. NVA + 1
BY PagesAssumption DEF UserVa, Va, PFTEMP, UXSTACK, Stack

\* A CPU runs an environment alone.
LEMMA CpuAlone ==
  ASSUME IInv, NEW c \in Cpu, NEW e \in Env, cur[c] = e
  PROVE  Alone(c, e)
BY PagesAssumption DEF IInv, TypeOK, CurOk, Alone

\* No CPU runs the child that a fork is making.
LEMMA KidAlone ==
  ASSUME IInv, NEW c \in Cpu, NEW e \in Env, kid[e] # NoEnv
  PROVE  /\ kid[e] \in Env /\ Alone(c, kid[e]) /\ status[kid[e]] = "not_runnable"
         /\ fault[kid[e]] = NoFault /\ \A d \in Cpu : cur[d] # kid[e]
<1>1. kid[e] \in Env /\ status[kid[e]] = "not_runnable"
  BY DEF IInv, TypeOK, KidsOk
<1>2. \A d \in Cpu : cur[d] # kid[e]
  BY <1>1, PagesAssumption DEF IInv, CurOk
<1>3. QED
  BY <1>1, <1>2 DEF IInv, TypeOK, IdleOk, Alone

\* The pages of the next state, when no CPU switches.
LEMMA MemNext ==
  ASSUME MemOk(vm', {}), cur' = cur
  PROVE  MemOk(vm, {})'
BY DEF MemOk, Coherent, Exact, UsesIn, PtesOf, DirsOf, TabsOf

\* One entry of one page table was edited.
LEMMA EditNext ==
  ASSUME IInv, NEW e \in Env, status[e] # "free", NEW va \in Va,
         MemOk(vm', {}), Edited(vm, vm', e, va), UNCHANGED <<cur, status>>
  PROVE  MemOk(vm, {})' /\ DirsOk' /\ CurOk'
<1>1. MemOk(vm, {})'
  BY MemNext
<1>2. DirsOk'
  <2> SUFFICES ASSUME NEW d \in Env
               PROVE  /\ vm'.dir[d] = NoPage <=> status[d] = "free"
                      /\ status[d] = "free" => \A v \in Va : vm'.pte[d][v].page = NoPage
    BY DEF DirsOk
  <2>1. vm'.dir[d] = NoPage <=> status[d] = "free"
    BY DEF IInv, DirsOk, Edited
  <2>2. ASSUME status[d] = "free", NEW v \in Va PROVE vm'.pte[d][v].page = NoPage
    <3>1. <<d, v>> # <<e, va>>
      BY <2>2
    <3>2. vm'.pte[d][v] = vm.pte[d][v]
      BY <3>1 DEF Edited
    <3>3. QED
      BY <2>2, <3>2 DEF IInv, DirsOk
  <2>3. QED
    BY <2>1, <2>2
<1>3. CurOk'
  BY DEF IInv, CurOk
<1>4. QED
  BY <1>1, <1>2, <1>3

\* Only e's program moves on, and not out of fork or into the handler.
LEMMA FaultNext ==
  ASSUME IInv, NEW e \in Env, NEW va \in Va, Edited(vm, vm', e, va),
         fault' = fault, fault[e].pc = "none"
  PROVE  FaultOk'
<1> SUFFICES ASSUME NEW d \in Env
             PROVE  /\ fault[d].pc # "none" => /\ fault[d].va \in UserVa
                                               /\ vm'.pte[d][fault[d].va].page # NoPage
                                               /\ vm'.pte[d][fault[d].va].perm = "cow"
                    /\ fault[d].pc \in {"copy", "map"} => vm'.pte[d][PFTEMP].page # NoPage
  BY DEF FaultOk
<1>1. CASE fault[d].pc = "none"
  BY <1>1
<1>2. CASE fault[d].pc # "none"
  <2>1. d # e /\ fault[d].va \in Va
    BY <1>2, Vas DEF IInv, FaultOk
  <2>2. <<d, fault[d].va>> # <<e, va>> /\ <<d, PFTEMP>> # <<e, va>>
    BY <2>1
  <2>3. /\ vm'.pte[d][fault[d].va] = vm.pte[d][fault[d].va]
        /\ vm'.pte[d][PFTEMP] = vm.pte[d][PFTEMP]
    BY <2>1, <2>2, Vas DEF Edited
  <2>4. QED
    BY <1>2, <2>3 DEF IInv, FaultOk
<1>3. QED
  BY <1>1, <1>2

\* The pages that boot hands over are counted.
LEMMA InitInv == Init => IInv
<1> SUFFICES ASSUME Init PROVE IInv
  OBVIOUS
<1> DEFINE used == 1 .. NVA + 2
           at(va) == IF va \in UserVa
                     THEN [page |-> va + 2, perm |-> IF va = 1 THEN "ro" ELSE "w"]
                     ELSE Absent
<1>1. /\ vm.ref = [p \in Page |-> IF p \in used THEN 1 ELSE 0]
      /\ vm.free = Page \ used
      /\ vm.data = [p \in Page |-> IF p \in used THEN Zero ELSE NoVal]
      /\ vm.dir = [e \in Env |-> IF e = Boot THEN 1 ELSE NoPage]
      /\ vm.tab = [e \in Env |-> IF e = Boot THEN 2 ELSE NoPage]
      /\ vm.pte = [e \in Env |-> IF e = Boot THEN [va \in Va |-> at(va)] ELSE NoPtes]
      /\ vm.tlb = [c \in Cpu |-> NoPtes]
      /\ vm = [ref |-> vm.ref, free |-> vm.free, data |-> vm.data, dir |-> vm.dir,
               tab |-> vm.tab, pte |-> vm.pte, tlb |-> vm.tlb]
  BY DEF Init
<1>2. used \subseteq Page /\ 1 \in Page /\ 2 \in Page /\ used \subseteq Nat
  BY PagesAssumption DEF Page
<1>3. \A va \in UserVa : va + 2 \in Page /\ va \in Nat
  BY PagesAssumption DEF Page, UserVa
<1>4. \A va \in Va : at(va) \in Pte
  BY <1>3, AbsentPte DEF Pte, Perms
<1>5. NoPtes \in [Va -> Pte]
  BY AbsentPte DEF NoPtes
<1>6. vm \in VmType
  <2>1. vm.ref \in [Page -> Nat] /\ vm.free \in SUBSET Page
    BY <1>1
  <2>2. vm.data \in [Page -> Val \cup {NoVal}]
    BY <1>1, PagesAssumption
  <2>3. vm.dir \in [Env -> Page \cup {NoPage}] /\ vm.tab \in [Env -> Page \cup {NoPage}]
    BY <1>1, <1>2
  <2>4. vm.pte \in [Env -> [Va -> Pte]] /\ vm.tlb \in [Cpu -> [Va -> Pte]]
    <3> HIDE DEF at
    <3>1. QED
      BY <1>1, <1>4, <1>5
  <2>5. QED
    BY <1>1, <2>1, <2>2, <2>3, <2>4 DEF VmType
<1>7. TypeOK
  BY <1>6, Vas, PagesAssumption DEF Init, TypeOK, Pcs, FaultPcs, NoFault
<1>8. Exact(vm, {})
  <2> SUFFICES ASSUME NEW p \in Page
               PROVE  vm.ref[p] = UsesIn(vm, p) /\ (p \in vm.free <=> vm.ref[p] = 0)
    BY DEF Exact
  <2>1. p \in vm.free <=> vm.ref[p] = 0
    BY <1>1
  <2>2. \A e \in Env, va \in Va :
          vm.pte[e][va].page = p <=> e = Boot /\ va \in UserVa /\ va + 2 = p
    BY <1>1, AbsentPte, PagesAssumption DEF NoPtes
  <2>3. PtesOf(vm, p) = IF p - 2 \in UserVa THEN {<<Boot, p - 2>>} ELSE {}
    <3>1. p \in Int /\ Va \subseteq Int
      BY PagesAssumption DEF Page, Va, PFTEMP, UXSTACK
    <3>a. \A va \in Va : va + 2 = p <=> va = p - 2
      BY <3>1
    <3>2. \A e \in Env, va \in Va : vm.pte[e][va].page = p <=> e = Boot /\ va = p - 2 /\ p - 2 \in UserVa
      BY <2>2, <3>a
    <3>3. QED
      BY <3>2, Vas, PagesAssumption DEF PtesOf
  <2>4. DirsOf(vm, p) = IF p = 1 THEN {Boot} ELSE {}
    BY <1>1, PagesAssumption DEF DirsOf
  <2>5. TabsOf(vm, p) = IF p = 2 THEN {Boot} ELSE {}
    BY <1>1, PagesAssumption DEF TabsOf
  <2>6. UsesIn(vm, p) = (IF p - 2 \in UserVa THEN 1 ELSE 0) + (IF p = 1 THEN 1 ELSE 0)
                        + (IF p = 2 THEN 1 ELSE 0)
    BY <2>3, <2>4, <2>5, FS_EmptySet, FS_Singleton DEF UsesIn
  <2>7. p \in used <=> p - 2 \in UserVa \/ p = 1 \/ p = 2
    BY PagesAssumption DEF Page, UserVa
  <2>8. ~(p = 1 /\ p - 2 \in UserVa) /\ ~(p = 2 /\ p - 2 \in UserVa)
    BY PagesAssumption DEF UserVa
  <2>9. vm.ref[p] = IF p \in used THEN 1 ELSE 0
    BY <1>1
  <2>10. QED
    BY <2>1, <2>6, <2>7, <2>8, <2>9
<1>9. Coherent(vm)
  BY <1>1, AbsentPte DEF Coherent, NoPtes
<1>10. DirsOk
  <2>1. \A va \in Va : NoPtes[va].page = NoPage
    BY AbsentPte DEF NoPtes
  <2>2. 1 # NoPage
    BY <1>2, PagesAssumption
  <2>3. QED
    BY <1>1, <2>1, <2>2 DEF DirsOk, Init
<1>11. CurOk
  BY DEF Init, CurOk
<1>12. KidsOk /\ IdleOk /\ FaultOk
  BY DEF Init, KidsOk, IdleOk, FaultOk, ForkPcs, NoFault
<1>13. QED
  BY <1>6, <1>7, <1>8, <1>9, <1>10, <1>11, <1>12 DEF IInv, MemOk

-----------------------------------------------------------------------------
\* Every action preserves the invariant.

\* A CPU switches: its TLB is empty, and the new environment was nobody's.
LEMMA SwitchInv ==
  ASSUME IInv, NEW c \in Cpu, NEW e \in Env \cup {NoEnv}, Switch(c, e), ops' \in 0 .. MaxOps
  PROVE  IInv'
<1> USE DEF Switch, prog
<1>1. /\ MemOk(vm', {}) /\ vm'.pte = vm.pte /\ vm'.dir = vm.dir
      /\ \A va \in Va : vm'.tlb[c][va] = Absent
      /\ \A d \in Cpu : d # c => vm'.tlb[d] = vm.tlb[d]
  BY Typed, Lcr3Ok
<1>2. cur' \in [Cpu -> Env \cup {NoEnv}] /\ \A d \in Cpu : d # c => cur'[d] = cur[d]
  BY Typed
<1>3. TypeOK'
  BY <1>1, <1>2, Typed DEF TypeOK, MemOk
<1>4. MemOk(vm, {})'
  <2>1. Coherent(vm)'
    <3> SUFFICES ASSUME NEW d \in Cpu, NEW va \in Va, vm'.tlb[d][va].page # NoPage
                 PROVE  cur'[d] # NoEnv /\ vm'.tlb[d][va] = vm'.pte[cur'[d]][va]
      BY DEF Coherent
    <3>1. d # c
      BY <1>1, AbsentPte
    <3>2. QED
      BY <1>1, <1>2, <3>1, Typed DEF MemOk, Coherent
  <2>2. QED
    BY <1>1, <2>1 DEF MemOk, Exact, UsesIn, PtesOf, DirsOf, TabsOf
<1>5. DirsOk' /\ KidsOk' /\ IdleOk' /\ FaultOk'
  BY <1>1 DEF IInv, DirsOk, KidsOk, IdleOk, FaultOk
<1>6. CurOk'
  <2> SUFFICES ASSUME NEW d \in Cpu, cur'[d] # NoEnv
               PROVE  /\ status[cur'[d]] \in {"ready", "dying"}
                      /\ \A b \in Cpu : b # d => cur'[b] # cur'[d]
    BY DEF CurOk
  <2>1. cur'[c] = e
    BY Typed
  <2>2. CASE d = c
    BY <1>2, <2>1, <2>2
  <2>3. CASE d # c
    <3>1. cur'[d] = cur[d] /\ cur[d] # NoEnv
      BY <1>2, <2>3
    <3>2. cur[d] # e
      BY <3>1
    <3>3. QED
      BY <1>2, <2>1, <3>1, <3>2 DEF IInv, CurOk
  <2>4. QED
    BY <2>2, <2>3
<1>7. QED
  BY <1>3, <1>4, <1>5, <1>6 DEF IInv

\* An environment that no other CPU runs is freed.
LEMMA FreedInv ==
  ASSUME IInv, NEW c \in Cpu, NEW e \in Env, status[e] \in {"ready", "dying"},
         Alone(c, e), Freed(c, e), ops' \in 0 .. MaxOps
  PROVE  IInv'
<1>1. vm.dir[e] # NoPage
  BY DEF IInv, DirsOk
<1>2. IsFreed(vm, vm', c, e)
  <2>1. vm' = EnvFree(vm, c, e)
    BY DEF Freed
  <2>2. QED
    BY <1>1, <2>1, Typed, EnvFreeOk
<1>3. /\ cur' \in [Cpu -> Env \cup {NoEnv}]
      /\ \A d \in Cpu : cur'[d] = IF cur[d] = e THEN NoEnv ELSE cur[d]
  BY Typed DEF Freed, Alone
<1>4. /\ status' = [status EXCEPT ![e] = "free"] /\ upcall' = [upcall EXCEPT ![e] = FALSE]
      /\ pc' = [pc EXCEPT ![e] = "run"] /\ kid' = [kid EXCEPT ![e] = NoEnv]
      /\ dup' = [dup EXCEPT ![e] = 0] /\ fault' = [fault EXCEPT ![e] = NoFault]
      /\ parent' \in [Env -> Env \cup {NoEnv}]
  BY Typed DEF Freed
<1>5. TypeOK'
  BY <1>2, <1>3, <1>4, Typed, Vas DEF TypeOK, IsFreed, MemOk, Pcs, FaultPcs, NoFault
<1>6. MemOk(vm, {})'
  <2>1. Coherent(vm)'
    <3> SUFFICES ASSUME NEW d \in Cpu, NEW va \in Va, vm'.tlb[d][va].page # NoPage
                 PROVE  cur'[d] # NoEnv /\ vm'.tlb[d][va] = vm'.pte[cur'[d]][va]
      BY DEF Coherent
    <3>1. cur[d] # e /\ vm'.tlb[d][va] = vm.tlb[d][va]
      BY <1>2 DEF IsFreed
    <3>2. cur[d] # NoEnv /\ vm.tlb[d][va] = vm.pte[cur[d]][va]
      BY <3>1, Typed DEF MemOk, Coherent
    <3>3. cur[d] \in Env
      BY <3>2, Typed
    <3>4. vm'.pte[cur[d]][va] = vm.pte[cur[d]][va]
      BY <1>2, <3>1, <3>3 DEF IsFreed
    <3>5. QED
      BY <1>3, <3>1, <3>2, <3>4
  <2>2. QED
    BY <1>2, <2>1 DEF IsFreed, MemOk, Exact, UsesIn, PtesOf, DirsOf, TabsOf
<1>7. DirsOk'
  <2> SUFFICES ASSUME NEW d \in Env
               PROVE  /\ vm'.dir[d] = NoPage <=> status'[d] = "free"
                      /\ status'[d] = "free" => \A v \in Va : vm'.pte[d][v].page = NoPage
    BY DEF DirsOk
  <2>1. CASE d = e
    <3>1. status'[e] = "free"
      BY <1>4, Typed
    <3>2. vm'.dir[e] = NoPage /\ \A v \in Va : vm'.pte[e][v].page = NoPage
      BY <1>2 DEF IsFreed
    <3>3. QED
      BY <2>1, <3>1, <3>2
  <2>2. CASE d # e
    <3>1. status'[d] = status[d]
      BY <1>4, <2>2, Typed
    <3>2. vm'.dir[d] = vm.dir[d] /\ \A v \in Va : vm'.pte[d][v] = vm.pte[d][v]
      BY <1>2, <2>2 DEF IsFreed
    <3>3. QED
      BY <3>1, <3>2 DEF IInv, DirsOk
  <2>3. QED
    BY <2>1, <2>2
<1>8. CurOk'
  BY <1>3, <1>4, Typed DEF IInv, CurOk
<1>9. KidsOk'
  BY <1>4, Typed DEF IInv, KidsOk, ForkPcs
<1>10. IdleOk'
  BY <1>4, Typed DEF IInv, IdleOk
<1>11. FaultOk'
  <2> SUFFICES ASSUME NEW d \in Env
               PROVE  /\ fault'[d].pc # "none" => /\ fault'[d].va \in UserVa
                                                  /\ vm'.pte[d][fault'[d].va].page # NoPage
                                                  /\ vm'.pte[d][fault'[d].va].perm = "cow"
                      /\ fault'[d].pc \in {"copy", "map"} => vm'.pte[d][PFTEMP].page # NoPage
    BY DEF FaultOk
  <2>1. CASE d = e
    <3>1. fault'[e] = NoFault
      BY <1>4, Typed
    <3>2. QED
      BY <2>1, <3>1 DEF NoFault
  <2>2. CASE d # e
    <3>1. fault'[d] = fault[d]
      BY <1>4, <2>2, Typed
    <3>2. \A v \in Va : vm'.pte[d][v] = vm.pte[d][v]
      BY <1>2, <2>2 DEF IsFreed
    <3>3. QED
      BY <3>1, <3>2, Vas DEF IInv, FaultOk
  <2>3. QED
    BY <2>1, <2>2
<1>12. QED
  BY <1>5, <1>6, <1>7, <1>8, <1>9, <1>10, <1>11 DEF IInv

\* A zombie is freed by its own CPU.
LEMMA ReapInv ==
  ASSUME IInv, NEW c \in Cpu, Reap(c), ops' \in 0 .. MaxOps
  PROVE  IInv'
<1>1. cur[c] \in Env /\ status[cur[c]] = "dying" /\ Freed(c, cur[c])
  BY Typed DEF Reap
<1>2. Alone(c, cur[c])
  BY <1>1, CpuAlone
<1>3. QED
  BY <1>1, <1>2, FreedInv

\* A program ends.
LEMMA ExitInv ==
  ASSUME IInv, NEW c \in Cpu, NEW e \in Env, Exit(c, e), ops' \in 0 .. MaxOps
  PROVE  IInv'
<1>1. cur[c] = e /\ status[e] = "ready" /\ Freed(c, e)
  BY DEF Exit, At, Runs
<1>2. QED
  BY <1>1, CpuAlone, FreedInv

\* A child is freed, or becomes a zombie.
LEMMA DestroyInv ==
  ASSUME IInv, NEW c \in Cpu, NEW e \in Env, NEW victim \in Env, Destroy(c, e, victim),
         ops' \in 0 .. MaxOps
  PROVE  IInv'
<1>1. status[victim] = "ready"
  BY DEF Destroy
<1>2. CASE \E d \in Cpu : cur[d] = victim
  <2>1. status' = [status EXCEPT ![victim] = "dying"]
        /\ UNCHANGED <<vm, cur, parent, upcall, pc, kid, dup, fault>>
    BY <1>2 DEF Destroy, prog
  <2>2. TypeOK'
    BY <2>1, Typed DEF TypeOK
  <2>3. MemOk(vm, {})'
    BY <2>1, Typed, MemNext
  <2>4. DirsOk' /\ CurOk'
    BY <1>1, <2>1, Typed DEF IInv, DirsOk, CurOk
  <2>5. KidsOk' /\ IdleOk' /\ FaultOk'
    BY <1>1, <2>1, Typed DEF IInv, KidsOk, IdleOk, FaultOk, ForkPcs
  <2>6. QED
    BY <2>2, <2>3, <2>4, <2>5 DEF IInv
<1>3. CASE ~ \E d \in Cpu : cur[d] = victim
  <2>1. Freed(c, victim)
    BY <1>3 DEF Destroy
  <2>2. Alone(c, victim)
    BY <1>3, Typed DEF Alone
  <2>3. QED
    BY <1>1, <2>1, <2>2, FreedInv
<1>4. QED
  BY <1>2, <1>3

\* A cached entry is the one in the page table.
LEMMA EntryCoherent ==
  ASSUME IInv, NEW c \in Cpu, NEW e \in Env, cur[c] = e, NEW va \in Va
  PROVE  Entry(c, e, va) = vm.pte[e][va]
BY Typed DEF MemOk, Coherent, Entry

\* The TLB takes what the page table says, and a page in use is written.
IsWritten(s, t, c, e, p) ==
  /\ t \in VmType /\ t.ref = s.ref /\ t.free = s.free
  /\ t.dir = s.dir /\ t.tab = s.tab /\ t.pte = s.pte
  /\ \A d \in Cpu, v \in Va : \/ t.tlb[d][v] = s.tlb[d][v]
                              \/ d = c /\ t.tlb[d][v] = s.pte[e][v]
  /\ \A q \in Page : q # p => t.data[q] = s.data[q]

\* The pages of the next state, when one page is written.
LEMMA WrittenNext ==
  ASSUME IInv, NEW c \in Cpu, NEW e \in Env, cur[c] = e, NEW p,
         IsWritten(vm, vm', c, e, p), UNCHANGED <<cur, status>>
  PROVE  MemOk(vm, {})' /\ DirsOk' /\ CurOk'
<1>1. Exact(vm', {})
  <2>1. \A q \in Page : UsesIn(vm', q) = UsesIn(vm, q)
    BY DEF IsWritten, UsesIn, PtesOf, DirsOf, TabsOf
  <2>2. QED
    BY <2>1, Typed DEF IsWritten, MemOk, Exact
<1>2. Coherent(vm')
  BY Typed, PagesAssumption DEF IsWritten, MemOk, Coherent
<1>3. MemOk(vm', {})
  BY <1>1, <1>2 DEF MemOk, IsWritten
<1>4. MemOk(vm, {})'
  BY <1>3, MemNext
<1>5. DirsOk' /\ CurOk'
  BY DEF IsWritten, IInv, DirsOk, CurOk
<1>6. QED
  BY <1>4, <1>5

\* ... and then holds v.
WrittenWith(s, t, c, e, p, v) == IsWritten(s, t, c, e, p) /\ t.data[p] = v

\* A write leaves the page with its value.
LEMMA SetWritten ==
  ASSUME NEW s, s \in VmType, NEW c \in Cpu, NEW e \in Env, NEW va \in Va,
         NEW p \in Page, NEW v \in Val \cup {NoVal}
  PROVE  WrittenWith(s, [s EXCEPT !.data[p] = v, !.tlb[c][va] = s.pte[e][va]], c, e, p, v)
<1> DEFINE t == [s EXCEPT !.data[p] = v, !.tlb[c][va] = s.pte[e][va]]
<1>1. /\ s.ref \in [Page -> Nat] /\ s.pte \in [Env -> [Va -> Pte]]
      /\ s.free \in SUBSET Page /\ s.data \in [Page -> Val \cup {NoVal}]
      /\ s.dir \in [Env -> Page \cup {NoPage}] /\ s.tab \in [Env -> Page \cup {NoPage}]
      /\ s.tlb \in [Cpu -> [Va -> Pte]]
  BY DEF VmType
<1>2. /\ t.ref = s.ref /\ t.free = s.free /\ t.dir = s.dir /\ t.tab = s.tab
      /\ t.pte = s.pte /\ t.data = [s.data EXCEPT ![p] = v]
      /\ t.tlb = [s.tlb EXCEPT ![c] = [@ EXCEPT ![va] = s.pte[e][va]]]
  BY DEF VmType
<1>3. t.data \in [Page -> Val \cup {NoVal}] /\ t.tlb \in [Cpu -> [Va -> Pte]]
  <2>1. s.pte[e][va] \in Pte
    BY <1>1
  <2>2. [s.tlb[c] EXCEPT ![va] = s.pte[e][va]] \in [Va -> Pte]
    BY <1>1, <2>1
  <2>3. t.tlb \in [Cpu -> [Va -> Pte]]
    BY <1>1, <1>2, <2>2
  <2>4. t.data \in [Page -> Val \cup {NoVal}]
    BY <1>1, <1>2
  <2>5. QED
    BY <2>3, <2>4
<1>4. t \in VmType
  BY <1>1, <1>2, <1>3 DEF VmType
<1>5. \A d \in Cpu, w \in Va : \/ t.tlb[d][w] = s.tlb[d][w]
                               \/ d = c /\ t.tlb[d][w] = s.pte[e][w]
  BY <1>1, <1>2
<1>6. \A q \in Page : q # p => t.data[q] = s.data[q]
  BY <1>1, <1>2
<1>7. t.data[p] = v
  BY <1>1, <1>2
<1> HIDE DEF t
<1>8. WrittenWith(s, t, c, e, p, v)
  BY <1>2, <1>4, <1>5, <1>6, <1>7 DEF IsWritten, WrittenWith
<1>9. QED
  BY <1>8 DEF t

\* A program writes through its TLB.
LEMMA WriteInv ==
  ASSUME IInv, NEW c \in Cpu, NEW e \in Env, NEW va \in UserVa, NEW v \in Val,
         Write(c, e, va, v), ops' \in 0 .. MaxOps
  PROVE  /\ IInv' /\ IsWritten(vm, vm', c, e, vm.pte[e][va].page)
         /\ vm.pte[e][va].page \in Page /\ vm.pte[e][va].perm = "w"
         /\ vm'.data[vm.pte[e][va].page] = v
<1> DEFINE p == vm.pte[e][va].page
<1>1. cur[c] = e /\ va \in Va
  BY Vas DEF Write, Runs
<1>2. Entry(c, e, va) = vm.pte[e][va]
  BY <1>1, EntryCoherent
<1>3. p # NoPage /\ vm.pte[e][va].perm = "w"
  BY <1>2 DEF Write
<1>4. vm' = [vm EXCEPT !.data[p] = v, !.tlb[c][va] = vm.pte[e][va]]
  BY <1>2 DEF Write
<1>5. p \in Page
  BY <1>1, <1>3, Typed, PteIs
<1>6. IsWritten(vm, vm', c, e, p) /\ vm'.data[p] = v
  <2> HIDE DEF p
  <2>1. v \in Val \cup {NoVal} /\ vm \in VmType /\ va \in Va
    BY <1>1, Typed
  <2>2. WrittenWith(vm, [vm EXCEPT !.data[p] = v, !.tlb[c][va] = vm.pte[e][va]], c, e, p, v)
    BY <1>5, <2>1, SetWritten
  <2>3. QED
    BY <1>4, <2>2 DEF WrittenWith
<1>7. UNCHANGED <<cur, status, parent, upcall, pc, kid, dup, fault>>
  BY DEF Write, prog
<1>8. MemOk(vm, {})' /\ DirsOk' /\ CurOk'
  BY <1>1, <1>6, <1>7, WrittenNext
<1>9. TypeOK'
  BY <1>6, <1>7, Typed DEF TypeOK, IsWritten
<1>10. KidsOk' /\ IdleOk' /\ FaultOk'
  BY <1>6, <1>7 DEF IInv, KidsOk, IdleOk, FaultOk, IsWritten
<1>11. QED
  BY <1>3, <1>5, <1>6, <1>8, <1>9, <1>10 DEF IInv

\* A fault enters the handler, or ends the program.
LEMMA PageFaultInv ==
  ASSUME IInv, NEW c \in Cpu, NEW e \in Env, NEW va \in UserVa, PageFault(c, e, va),
         ops' \in 0 .. MaxOps
  PROVE  IInv'
<1>1. cur[c] = e /\ va \in Va /\ status[e] = "ready"
  BY Vas DEF PageFault, Runs
<1>2. Entry(c, e, va) = vm.pte[e][va]
  BY <1>1, EntryCoherent
<1>3. vm.pte[e][va].page # NoPage /\ vm.pte[e][va].perm = "cow"
  BY <1>2 DEF PageFault
<1>4. CASE upcall[e] /\ vm.pte[e][UXSTACK].perm = "w"
  <2>1. /\ fault' = [fault EXCEPT ![e] = [pc |-> "alloc", va |-> va]]
        /\ UNCHANGED <<vm, cur, status, parent, upcall, pc, kid, dup>>
    BY <1>4 DEF PageFault
  <2>2. TypeOK'
    BY <1>1, <2>1, Typed DEF TypeOK, FaultPcs
  <2>3. MemOk(vm, {})'
    BY <2>1, Typed, MemNext
  <2>4. DirsOk' /\ CurOk' /\ KidsOk'
    BY <2>1 DEF IInv, DirsOk, CurOk, KidsOk
  <2>5. IdleOk'
    BY <1>1, <2>1, Typed DEF IInv, IdleOk
  <2>6. FaultOk'
    BY <1>3, <2>1, Typed DEF IInv, FaultOk
  <2>7. QED
    BY <2>2, <2>3, <2>4, <2>5, <2>6 DEF IInv
<1>5. CASE ~(upcall[e] /\ vm.pte[e][UXSTACK].perm = "w")
  <2>1. Freed(c, e)
    BY <1>5 DEF PageFault
  <2>2. QED
    BY <1>1, <2>1, CpuAlone, FreedInv
<1>6. QED
  BY <1>4, <1>5

\* A program unmaps a page.
LEMMA UnmapInv ==
  ASSUME IInv, NEW c \in Cpu, NEW e \in Env, NEW va \in UserVa, Unmap(c, e, va),
         ops' \in 0 .. MaxOps
  PROVE  IInv' /\ Edited(vm, vm', e, va) /\ IsRemoved(vm, vm', e, va)
<1>1. /\ cur[c] = e /\ va \in Va /\ status[e] = "ready" /\ fault[e].pc = "none"
      /\ vm' = PageRemove(vm, c, e, va)
      /\ UNCHANGED <<cur, status, parent, upcall, pc, kid, dup, fault>>
  BY Vas DEF Unmap, At, Runs, SysPageUnmap, prog
<1>2. MemOk(vm', {}) /\ Edited(vm, vm', e, va) /\ IsRemoved(vm, vm', e, va)
  BY <1>1, Typed, CpuAlone, PageRemoveOk
<1>3. MemOk(vm, {})' /\ DirsOk' /\ CurOk'
  BY <1>1, <1>2, EditNext
<1>4. TypeOK'
  BY <1>1, <1>2, Typed DEF TypeOK, MemOk
<1>5. KidsOk' /\ IdleOk'
  BY <1>1 DEF IInv, KidsOk, IdleOk
<1>6. FaultOk'
  BY <1>1, <1>2, FaultNext
<1>7. QED
  BY <1>2, <1>3, <1>4, <1>5, <1>6 DEF IInv

\* Where the program is after a library call.
LEMMA ReturnsIs ==
  ASSUME IInv, NEW e \in Env, NEW r, NEW next \in Pcs, Returns(e, r, next)
  PROVE  /\ vm' = r.vm /\ pc' \in [Env -> Pcs]
         /\ pc'[e] = IF r.ok THEN next ELSE "panic"
         /\ \A d \in Env : d # e => pc'[d] = pc[d]
BY Typed DEF Returns, Pcs

\* pgfault allocates.
LEMMA FaultAllocInv ==
  ASSUME IInv, NEW c \in Cpu, NEW e \in Env, FaultAlloc(c, e), ops' \in 0 .. MaxOps
  PROVE  /\ IInv' /\ Edited(vm, vm', e, PFTEMP)
         /\ CallOk(vm, SysPageAlloc(vm, c, e, PFTEMP), e, PFTEMP)
<1> DEFINE r == SysPageAlloc(vm, c, e, PFTEMP)
<1>1. /\ cur[c] = e /\ status[e] = "ready" /\ fault[e].pc = "alloc"
      /\ fault' = [fault EXCEPT ![e].pc = IF r.ok THEN "copy" ELSE @]
      /\ UNCHANGED <<cur, status, parent, upcall, kid, dup>>
      /\ Returns(e, r, pc[e]) /\ pc[e] \in Pcs
  BY Typed DEF FaultAlloc, Handles, Runs
<1>2. CallOk(vm, r, e, PFTEMP)
  BY <1>1, Typed, CpuAlone, Vas, SysPageAllocOk
<1> HIDE DEF r
<1>3. /\ vm' = r.vm /\ pc' \in [Env -> Pcs]
      /\ pc'[e] \in {pc[e], "panic"}
      /\ \A d \in Env : d # e => pc'[d] = pc[d]
  BY <1>1, ReturnsIs
<1>4. /\ MemOk(vm', {}) /\ Edited(vm, vm', e, PFTEMP)
      /\ r.ok => vm'.pte[e][PFTEMP].page # NoPage
  BY <1>2, <1>3 DEF CallOk
<1>5. MemOk(vm, {})' /\ DirsOk' /\ CurOk'
  BY <1>1, <1>4, Vas, EditNext
<1>6. /\ fault' \in [Env -> [pc : FaultPcs, va : Va]]
      /\ \A d \in Env : d # e => fault'[d] = fault[d]
      /\ fault'[e].va = fault[e].va
      /\ fault'[e].pc = IF r.ok THEN "copy" ELSE "alloc"
  BY <1>1, Typed DEF FaultPcs
<1>7. TypeOK'
  BY <1>1, <1>3, <1>4, <1>6, Typed DEF TypeOK, MemOk
<1>8. KidsOk'
  BY <1>1, <1>3, Typed DEF IInv, KidsOk, ForkPcs
<1>9. IdleOk'
  BY <1>1, <1>3, <1>6 DEF IInv, IdleOk
<1>10. FaultOk'
  <2> SUFFICES ASSUME NEW d \in Env
               PROVE  /\ fault'[d].pc # "none" => /\ fault'[d].va \in UserVa
                                                  /\ vm'.pte[d][fault'[d].va].page # NoPage
                                                  /\ vm'.pte[d][fault'[d].va].perm = "cow"
                      /\ fault'[d].pc \in {"copy", "map"} => vm'.pte[d][PFTEMP].page # NoPage
    BY DEF FaultOk
  <2>1. \A v \in UserVa : vm'.pte[d][v] = vm.pte[d][v]
    BY <1>4, Vas DEF Edited
  <2>2. CASE d = e
    <3>1. /\ fault[d].va \in UserVa /\ vm.pte[d][fault[d].va].page # NoPage
          /\ vm.pte[d][fault[d].va].perm = "cow"
      BY <1>1, <2>2 DEF IInv, FaultOk
    <3>2. fault'[d].va = fault[d].va
      BY <1>6, <2>2
    <3>3. fault'[d].pc \in {"copy", "map"} => vm'.pte[d][PFTEMP].page # NoPage
      BY <1>4, <1>6, <2>2
    <3>4. QED
      BY <2>1, <3>1, <3>2, <3>3
  <2>3. CASE d # e
    <3>1. vm'.pte[d][PFTEMP] = vm.pte[d][PFTEMP] /\ fault'[d] = fault[d]
      BY <1>4, <1>6, <2>3, Vas DEF Edited
    <3>2. QED
      BY <2>1, <3>1 DEF IInv, FaultOk
  <2>4. QED
    BY <2>2, <2>3
<1>11. QED
  BY <1>2, <1>4, <1>5, <1>7, <1>8, <1>9, <1>10 DEF IInv, r

\* pgfault copies.
LEMMA FaultCopyInv ==
  ASSUME IInv, NEW c \in Cpu, NEW e \in Env, FaultCopy(c, e), ops' \in 0 .. MaxOps
  PROVE  IInv' /\ IsWritten(vm, vm', c, e, vm.pte[e][PFTEMP].page)
<1> DEFINE va == fault[e].va
           p == vm.pte[e][PFTEMP].page
           q == vm.pte[e][va].page
           u == [vm EXCEPT !.data[p] = vm.data[q], !.tlb[c][PFTEMP] = vm.pte[e][PFTEMP]]
<1>1. /\ cur[c] = e /\ status[e] = "ready" /\ fault[e].pc = "copy"
      /\ UNCHANGED <<cur, status, parent, upcall, pc, kid, dup>>
      /\ fault' = [fault EXCEPT ![e].pc = "map"]
  BY DEF FaultCopy, Handles, Runs
<1>2. va \in UserVa /\ va \in Va /\ PFTEMP \in Va /\ q # NoPage /\ p # NoPage
  BY <1>1, Vas DEF IInv, FaultOk
<1>3. Entry(c, e, va) = vm.pte[e][va] /\ Entry(c, e, PFTEMP) = vm.pte[e][PFTEMP]
  BY <1>1, <1>2, EntryCoherent
<1>4. vm' = [vm EXCEPT !.data[p] = vm.data[q], !.tlb[c][PFTEMP] = vm.pte[e][PFTEMP],
                       !.tlb[c][va] = vm.pte[e][va]]
  BY <1>3 DEF FaultCopy
<1>5. p \in Page /\ q \in Page
  BY <1>2, Typed, PteIs
<1>6. vm.data[q] \in Val \cup {NoVal}
  BY <1>5, Typed DEF VmType
<1>7. IsWritten(vm, u, c, e, p) /\ u.data[p] = vm.data[q]
  <2> DEFINE v == vm.data[q]
  <2>1. v \in Val \cup {NoVal} /\ vm \in VmType
    BY <1>6, Typed
  <2>2. u = [vm EXCEPT !.data[p] = v, !.tlb[c][PFTEMP] = vm.pte[e][PFTEMP]]
    OBVIOUS
  <2> HIDE DEF p, u, v
  <2>3. WrittenWith(vm, [vm EXCEPT !.data[p] = v, !.tlb[c][PFTEMP] = vm.pte[e][PFTEMP]],
                    c, e, p, v)
    BY <1>2, <1>5, <2>1, SetWritten
  <2>4. QED
    BY <2>2, <2>3 DEF v, WrittenWith
<1>8. /\ vm' = [u EXCEPT !.tlb[c][va] = vm.pte[e][va]]
      /\ u \in VmType
  BY <1>4, <1>7 DEF IsWritten
<1> HIDE DEF u
<1>9. IsWritten(vm, vm', c, e, p)
  <2>1. /\ vm'.ref = u.ref /\ vm'.free = u.free /\ vm'.dir = u.dir /\ vm'.tab = u.tab
        /\ vm'.pte = u.pte /\ vm'.data = u.data
        /\ vm'.tlb = [u.tlb EXCEPT ![c] = [@ EXCEPT ![va] = vm.pte[e][va]]]
    BY <1>8 DEF VmType
  <2>2. vm.pte[e][va] \in Pte /\ u.tlb \in [Cpu -> [Va -> Pte]]
    BY <1>2, <1>8, Typed DEF VmType
  <2>3. [u.tlb[c] EXCEPT ![va] = vm.pte[e][va]] \in [Va -> Pte]
    BY <2>2
  <2>4. vm'.tlb \in [Cpu -> [Va -> Pte]]
    BY <2>1, <2>2, <2>3
  <2>5. vm' \in VmType
    <3>1. vm' = [ref |-> u.ref, free |-> u.free, data |-> u.data, dir |-> u.dir,
                 tab |-> u.tab, pte |-> u.pte, tlb |-> vm'.tlb]
      BY <1>8 DEF VmType
    <3>2. QED
      BY <1>8, <2>4, <3>1 DEF VmType
  <2>6. \A d \in Cpu, v \in Va : \/ vm'.tlb[d][v] = u.tlb[d][v]
                                 \/ d = c /\ vm'.tlb[d][v] = vm.pte[e][v]
    BY <2>1, <2>2
  <2>7. \A d \in Cpu, v \in Va : \/ u.tlb[d][v] = vm.tlb[d][v]
                                 \/ d = c /\ u.tlb[d][v] = vm.pte[e][v]
    BY <1>7 DEF IsWritten
  <2>8. \A d \in Cpu, v \in Va : \/ vm'.tlb[d][v] = vm.tlb[d][v]
                                 \/ d = c /\ vm'.tlb[d][v] = vm.pte[e][v]
    BY <2>6, <2>7
  <2>9. /\ vm'.ref = vm.ref /\ vm'.free = vm.free /\ vm'.dir = vm.dir
        /\ vm'.tab = vm.tab /\ vm'.pte = vm.pte
        /\ \A x \in Page : x # p => vm'.data[x] = vm.data[x]
    BY <1>7, <2>1 DEF IsWritten
  <2> HIDE DEF p
  <2>10. QED
    BY <2>5, <2>8, <2>9 DEF IsWritten
<1> HIDE DEF p, q
<1>10. MemOk(vm, {})' /\ DirsOk' /\ CurOk'
  BY <1>1, <1>9, WrittenNext
<1>11. /\ fault' \in [Env -> [pc : FaultPcs, va : Va]]
       /\ \A d \in Env : d # e => fault'[d] = fault[d]
       /\ fault'[e].va = fault[e].va /\ fault'[e].pc = "map"
  BY <1>1, Typed DEF FaultPcs
<1>12. TypeOK'
  BY <1>1, <1>9, <1>11, Typed DEF TypeOK, IsWritten
<1>13. KidsOk' /\ IdleOk'
  BY <1>1, <1>11 DEF IInv, KidsOk, IdleOk
<1>14. FaultOk'
  <2>1. vm'.pte = vm.pte
    BY <1>9 DEF IsWritten
  <2>2. \A d \in Env : /\ fault'[d].va = fault[d].va
                       /\ fault'[d].pc # "none" => fault[d].pc # "none"
                       /\ fault'[d].pc \in {"copy", "map"} => fault[d].pc \in {"copy", "map"}
    BY <1>1, <1>11
  <2>3. QED
    BY <2>1, <2>2 DEF IInv, FaultOk
<1>15. QED
  BY <1>9, <1>10, <1>12, <1>13, <1>14 DEF IInv, p

\* pgfault maps its copy where the shared page was.
LEMMA FaultMapInv ==
  ASSUME IInv, NEW c \in Cpu, NEW e \in Env, FaultMap(c, e), ops' \in 0 .. MaxOps
  PROVE  IInv' /\ Edited(vm, vm', e, fault[e].va)
<1> DEFINE va == fault[e].va
           r == SysPageMap(vm, c, e, PFTEMP, e, va, "w")
<1>1. /\ cur[c] = e /\ status[e] = "ready" /\ fault[e].pc = "map"
      /\ fault' = [fault EXCEPT ![e] = IF r.ok THEN NoFault ELSE @]
      /\ UNCHANGED <<cur, status, parent, upcall, kid, dup>>
      /\ Returns(e, r, pc[e]) /\ pc[e] \in Pcs
  BY Typed DEF FaultMap, Handles, Runs
<1>2. va \in UserVa /\ va \in Va /\ PFTEMP \in Va /\ va # PFTEMP
  BY <1>1, Vas DEF IInv, FaultOk
<1>3. CallOk(vm, r, e, va) /\ (~r.ok => r.vm = vm)
  <2>1. "w" \in Perms /\ Alone(c, e) /\ MemOk(vm, {})
    BY <1>1, Typed, CpuAlone DEF Perms
  <2>2. MapOk(vm, r, e, PFTEMP, e, va, "w")
    <3> HIDE DEF va
    <3>1. QED
      BY <1>2, <2>1, SysPageMapOk
  <2>3. QED
    BY <2>2 DEF MapOk
<1> HIDE DEF r
<1>4. /\ vm' = r.vm /\ pc' \in [Env -> Pcs]
      /\ pc'[e] \in {pc[e], "panic"}
      /\ \A d \in Env : d # e => pc'[d] = pc[d]
  BY <1>1, ReturnsIs
<1>5. MemOk(vm', {}) /\ Edited(vm, vm', e, va) /\ (~r.ok => vm' = vm)
  BY <1>3, <1>4 DEF CallOk
<1> HIDE DEF va
<1>6. MemOk(vm, {})' /\ DirsOk' /\ CurOk'
  BY <1>1, <1>2, <1>5, EditNext
<1>7. /\ fault' \in [Env -> [pc : FaultPcs, va : Va]]
      /\ \A d \in Env : d # e => fault'[d] = fault[d]
      /\ fault'[e] = IF r.ok THEN NoFault ELSE fault[e]
  BY <1>1, Typed, Vas DEF FaultPcs, NoFault
<1>8. TypeOK'
  BY <1>1, <1>4, <1>5, <1>7, Typed DEF TypeOK, MemOk
<1>9. KidsOk'
  BY <1>1, <1>4, Typed DEF IInv, KidsOk, ForkPcs
<1>10. IdleOk'
  BY <1>1, <1>4, <1>7 DEF IInv, IdleOk
<1>11. FaultOk'
  <2> SUFFICES ASSUME NEW d \in Env
               PROVE  /\ fault'[d].pc # "none" => /\ fault'[d].va \in UserVa
                                                  /\ vm'.pte[d][fault'[d].va].page # NoPage
                                                  /\ vm'.pte[d][fault'[d].va].perm = "cow"
                      /\ fault'[d].pc \in {"copy", "map"} => vm'.pte[d][PFTEMP].page # NoPage
    BY DEF FaultOk
  <2>1. CASE d = e /\ r.ok
    <3>1. fault'[d] = NoFault
      BY <1>7, <2>1
    <3>2. QED
      BY <3>1 DEF NoFault
  <2>2. CASE d = e /\ ~r.ok
    <3>1. fault'[d] = fault[d] /\ vm' = vm
      BY <1>5, <1>7, <2>2
    <3>2. QED
      BY <3>1 DEF IInv, FaultOk
  <2>3. CASE d # e
    <3>1. fault'[d] = fault[d] /\ \A v \in Va : vm'.pte[d][v] = vm.pte[d][v]
      BY <1>5, <1>7, <2>3 DEF Edited
    <3>2. QED
      BY <3>1, Vas DEF IInv, FaultOk
  <2>4. QED
    BY <2>1, <2>2, <2>3
<1>12. QED
  BY <1>5, <1>6, <1>8, <1>9, <1>10, <1>11 DEF IInv, va

\* set_pgfault_handler.
LEMMA ForkHandlerInv ==
  ASSUME IInv, NEW c \in Cpu, NEW e \in Env, ForkHandler(c, e), ops' \in 0 .. MaxOps
  PROVE  IInv' /\ Edited(vm, vm', e, UXSTACK)
<1> DEFINE r == IF upcall[e] THEN Done(vm) ELSE SysPageAlloc(vm, c, e, UXSTACK)
<1>1. /\ cur[c] = e /\ status[e] = "ready" /\ fault[e].pc = "none" /\ pc[e] = "run"
      /\ UNCHANGED <<cur, status, parent, kid, dup, fault>>
      /\ Returns(e, r, "exofork")
      /\ upcall' = [upcall EXCEPT ![e] = r.ok]
  BY DEF ForkHandler, At, Runs
<1>2. MemOk(r.vm, {}) /\ Edited(vm, r.vm, e, UXSTACK) /\ r.ok \in BOOLEAN
  <2>1. CASE upcall[e]
    <3>1. r.vm = vm /\ r.ok
      BY <2>1 DEF Done
    <3> HIDE DEF r
    <3>2. QED
      BY <3>1, Typed DEF Edited
  <2>2. CASE ~upcall[e]
    <3> DEFINE w == SysPageAlloc(vm, c, e, UXSTACK)
    <3>1. CallOk(vm, w, e, UXSTACK)
      BY <1>1, Typed, CpuAlone, Vas, SysPageAllocOk
    <3>2. w.ok \in BOOLEAN
      BY DEF SysPageAlloc, Failed, Done
    <3>3. r = w
      BY <2>2
    <3> HIDE DEF r, w
    <3>4. QED
      BY <3>1, <3>2, <3>3 DEF CallOk
  <2>3. QED
    BY <2>1, <2>2
<1> HIDE DEF r
<1>3. /\ vm' = r.vm /\ pc' \in [Env -> Pcs]
      /\ pc'[e] \in {"exofork", "panic"}
      /\ \A d \in Env : d # e => pc'[d] = pc[d]
  BY <1>1, ReturnsIs DEF Pcs
<1>4. MemOk(vm', {}) /\ Edited(vm, vm', e, UXSTACK)
  BY <1>2, <1>3
<1>5. MemOk(vm, {})' /\ DirsOk' /\ CurOk'
  BY <1>1, <1>4, Vas, EditNext
<1>6. TypeOK'
  BY <1>1, <1>2, <1>3, <1>4, Typed DEF TypeOK, MemOk
<1>7. KidsOk'
  BY <1>1, <1>3, Typed DEF IInv, KidsOk, ForkPcs
<1>8. IdleOk'
  BY <1>1, <1>3 DEF IInv, IdleOk
<1>9. FaultOk'
  BY <1>1, <1>4, Vas, FaultNext
<1>10. QED
  BY <1>4, <1>5, <1>6, <1>7, <1>8, <1>9 DEF IInv

\* The program's own step.
LEMMA AtIs ==
  ASSUME NEW c \in Cpu, NEW e \in Env, NEW step, At(c, e, step)
  PROVE  cur[c] = e /\ status[e] = "ready" /\ fault[e].pc = "none" /\ pc[e] = step
BY DEF At, Runs

\* sys_exofork takes a slot and a directory, or the program panics.
LEMMA ForkExoforkInv ==
  ASSUME IInv, NEW c \in Cpu, NEW e \in Env, ForkExofork(c, e), ops' \in 0 .. MaxOps
  PROVE  IInv'
<1> DEFINE slots == {d \in Env : status[d] = "free"}
<1>1. /\ cur[c] = e /\ status[e] = "ready" /\ fault[e].pc = "none" /\ pc[e] = "exofork"
      /\ UNCHANGED <<cur, upcall, fault>>
  BY AtIs DEF ForkExofork
<1>2. kid[e] = NoEnv
  BY <1>1 DEF IInv, KidsOk
<1>3. CASE slots = {} \/ vm.free = {}
  <2>1. pc' = [pc EXCEPT ![e] = "panic"] /\ UNCHANGED <<vm, status, parent, kid, dup>>
    BY <1>3 DEF ForkExofork
  <2>2. TypeOK'
    BY <1>1, <2>1, Typed DEF TypeOK, Pcs
  <2>3. MemOk(vm, {})'
    BY <1>1, <2>1, Typed, MemNext
  <2>4. DirsOk' /\ CurOk' /\ FaultOk'
    BY <1>1, <2>1 DEF IInv, DirsOk, CurOk, FaultOk
  <2>5. KidsOk' /\ IdleOk'
    BY <1>1, <1>2, <2>1, Typed DEF IInv, KidsOk, IdleOk, ForkPcs
  <2>6. QED
    BY <2>2, <2>3, <2>4, <2>5 DEF IInv
<1>4. CASE ~(slots = {} \/ vm.free = {})
  <2>1. PICK d \in slots :
          /\ Returns(e, EnvSetupVm(vm, d), "dup")
          /\ status' = [status EXCEPT ![d] = "not_runnable"]
          /\ parent' = [parent EXCEPT ![d] = e]
          /\ kid' = [kid EXCEPT ![e] = d]
          /\ dup' = [dup EXCEPT ![e] = 1]
    BY <1>4 DEF ForkExofork
  <2>2. d \in Env /\ status[d] = "free" /\ d # e
    BY <1>1, <2>1
  <2>3. vm.dir[d] = NoPage
    BY <2>2 DEF IInv, DirsOk
  <2> DEFINE r == EnvSetupVm(vm, d)
  <2>4. r.ok /\ MemOk(r.vm, {}) /\ IsSetup(vm, r.vm, d)
    BY <1>4, <2>2, <2>3, Typed, EnvSetupVmOk
  <2>5. Returns(e, r, "dup") /\ "dup" \in Pcs
    BY <2>1 DEF Pcs
  <2> HIDE DEF r
  <2>6. vm' = r.vm /\ pc' = [pc EXCEPT ![e] = "dup"]
    BY <2>4, <2>5 DEF Returns
  <2>7. MemOk(vm', {}) /\ IsSetup(vm, vm', d)
    BY <2>4, <2>6
  <2>8. TypeOK'
    BY <1>1, <2>1, <2>2, <2>6, <2>7, Typed, Vas DEF TypeOK, MemOk, Pcs
  <2>9. MemOk(vm, {})'
    BY <1>1, <2>7, MemNext
  <2>10. status'[d] = "not_runnable" /\ \A x \in Env : x # d => status'[x] = status[x]
    BY <2>1, <2>2, Typed
  <2>11. DirsOk'
    BY <2>7, <2>10, <2>2 DEF IInv, DirsOk, IsSetup
  <2>12. CurOk'
    BY <1>1, <2>2, <2>10, Typed DEF IInv, CurOk
  <2>13. KidsOk'
    <3>1. kid'[e] = d /\ \A x \in Env : x # e => kid'[x] = kid[x]
      BY <2>1, Typed
    <3>2. pc'[e] = "dup" /\ \A x \in Env : x # e => pc'[x] = pc[x] /\ dup'[x] = dup[x]
      BY <2>1, <2>6, Typed
    <3>3. \A x \in Env : kid[x] # d
      BY <2>2, PagesAssumption DEF IInv, KidsOk
    <3>4. d # NoEnv
      BY <2>2, PagesAssumption
    <3> SUFFICES ASSUME NEW x \in Env
                 PROVE /\ kid'[x] # NoEnv => /\ status'[kid'[x]] = "not_runnable"
                                             /\ \A y \in Env : y # x => kid'[y] # kid'[x]
                       /\ pc'[x] \in ForkPcs => kid'[x] # NoEnv
                       /\ pc'[x] \in {"run", "exofork"} => kid'[x] = NoEnv
                       /\ pc'[x] \in {"ro", "child", "own"} => dup'[x] \in UserVa
      BY DEF KidsOk
    <3>5. CASE x = e
      BY <2>10, <3>1, <3>2, <3>3, <3>4, <3>5 DEF ForkPcs
    <3>6. CASE x # e
      <4>1. kid[x] # NoEnv => kid[x] \in Env
        BY Typed
      <4>2. kid'[x] # NoEnv => /\ status'[kid'[x]] = "not_runnable"
                               /\ \A y \in Env : y # x => kid'[y] # kid'[x]
        BY <2>10, <3>1, <3>3, <3>6, <4>1 DEF IInv, KidsOk
      <4>3. QED
        BY <3>1, <3>2, <3>6, <4>2 DEF IInv, KidsOk
    <3>7. QED
      BY <3>5, <3>6
  <2>14. IdleOk'
    BY <1>1, <2>2, <2>6, <2>10, Typed DEF IInv, IdleOk
  <2>15. FaultOk'
    BY <1>1, <2>7 DEF IInv, FaultOk, IsSetup
  <2>16. QED
    BY <2>8, <2>9, <2>11, <2>12, <2>13, <2>14, <2>15 DEF IInv
<1>5. QED
  BY <1>3, <1>4

\* fork's loop looks at an address.
LEMMA ForkDupInv ==
  ASSUME IInv, NEW c \in Cpu, NEW e \in Env, ForkDup(c, e), ops' \in 0 .. MaxOps
  PROVE  IInv'
<1>1. /\ cur[c] = e /\ status[e] = "ready" /\ fault[e].pc = "none" /\ pc[e] = "dup"
      /\ dup[e] \in UserVa
      /\ UNCHANGED <<vm, cur, status, parent, upcall, kid, fault>>
  BY AtIs DEF ForkDup
<1>2. /\ dup' \in [Env -> 0 .. NVA + 1] /\ pc' \in [Env -> Pcs]
      /\ \A d \in Env : d # e => pc'[d] = pc[d] /\ dup'[d] = dup[d]
      /\ \/ pc'[e] = "dup"
         \/ pc'[e] \in {"ro", "child"} /\ dup'[e] = dup[e]
  BY <1>1, Typed, Vas DEF ForkDup, Sharing, Pcs
<1>3. TypeOK'
  BY <1>1, <1>2, Typed DEF TypeOK
<1>4. MemOk(vm, {})'
  BY <1>1, Typed, MemNext
<1>5. DirsOk' /\ CurOk' /\ FaultOk'
  BY <1>1 DEF IInv, DirsOk, CurOk, FaultOk
<1>6. KidsOk' /\ IdleOk'
  BY <1>1, <1>2 DEF IInv, KidsOk, IdleOk, ForkPcs
<1>7. QED
  BY <1>3, <1>4, <1>5, <1>6 DEF IInv

\* The calls of fork: the entry of va in the page table of d, the child or the
\* parent itself, is edited.
LEMMA ForkCallInv ==
  ASSUME IInv, NEW c \in Cpu, NEW e \in Env, At(c, e, pc[e]), kid[e] # NoEnv,
         NEW d \in {e, kid[e]}, NEW va \in Va, NEW r, CallOk(vm, r, d, va),
         NEW next \in ForkPcs, Returns(e, r, next),
         next \in {"ro", "child", "own"} => dup[e] \in UserVa /\ dup'[e] = dup[e],
         dup' \in [Env -> 0 .. NVA + 1], \A x \in Env : x # e => dup'[x] = dup[x],
         UNCHANGED <<cur, status, parent, upcall, kid, fault>>, ops' \in 0 .. MaxOps
  PROVE  IInv' /\ Edited(vm, vm', d, va)
<1>1. cur[c] = e /\ status[e] = "ready" /\ fault[e].pc = "none"
  BY AtIs
<1>2. /\ d \in Env /\ status[d] # "free" /\ fault[d].pc = "none"
  BY <1>1, KidAlone DEF NoFault
<1>3. next \in Pcs
  BY DEF ForkPcs, Pcs
<1>4. /\ vm' = r.vm /\ pc' \in [Env -> Pcs]
      /\ pc'[e] \in {next, "panic"}
      /\ \A x \in Env : x # e => pc'[x] = pc[x]
  BY <1>3, ReturnsIs
<1>5. MemOk(vm', {}) /\ Edited(vm, vm', d, va)
  BY <1>4 DEF CallOk
<1>6. MemOk(vm, {})' /\ DirsOk' /\ CurOk'
  BY <1>2, <1>5, EditNext
<1>7. TypeOK'
  BY <1>4, <1>5, Typed DEF TypeOK, MemOk
<1>8. KidsOk'
  BY <1>4 DEF IInv, KidsOk, ForkPcs
<1>9. IdleOk'
  BY <1>1, <1>4 DEF IInv, IdleOk
<1>10. FaultOk'
  BY <1>2, <1>5, FaultNext
<1>11. QED
  BY <1>5, <1>6, <1>7, <1>8, <1>9, <1>10 DEF IInv

\* duppage maps a read-only page.
LEMMA ForkReadOnlyInv ==
  ASSUME IInv, NEW c \in Cpu, NEW e \in Env, ForkReadOnly(c, e), ops' \in 0 .. MaxOps
  PROVE  IInv' /\ Edited(vm, vm', kid[e], dup[e])
<1> DEFINE va == dup[e]
           k == kid[e]
           r == SysPageMap(vm, c, e, va, k, va, "ro")
<1>1. /\ At(c, e, pc[e]) /\ pc[e] = "ro" /\ Returns(e, r, "dup")
      /\ dup' = [dup EXCEPT ![e] = IF r.ok THEN @ + 1 ELSE @]
      /\ UNCHANGED <<cur, status, parent, upcall, kid, fault>>
  BY AtIs DEF ForkReadOnly, NextAddr
<1>2. k # NoEnv /\ va \in UserVa /\ va \in Va /\ "ro" \in Perms /\ "dup" \in ForkPcs
  BY <1>1, Vas DEF IInv, KidsOk, ForkPcs, Perms
<1>3. k \in Env /\ Alone(c, k)
  BY <1>2, KidAlone
<1>4. MapOk(vm, r, e, va, k, va, "ro")
  <2> HIDE DEF va, k
  <2>1. QED
    BY <1>2, <1>3, Typed, SysPageMapOk
<1>5. CallOk(vm, r, k, va)
  BY <1>4 DEF MapOk
<1>6. dup' \in [Env -> 0 .. NVA + 1] /\ \A x \in Env : x # e => dup'[x] = dup[x]
  BY <1>1, <1>2, Typed, Vas
<1> HIDE DEF r
<1>7. QED
  BY <1>1, <1>2, <1>5, <1>6, ForkCallInv

\* duppage maps a page copy-on-write in the child.
LEMMA ForkChildInv ==
  ASSUME IInv, NEW c \in Cpu, NEW e \in Env, ForkChild(c, e), ops' \in 0 .. MaxOps
  PROVE  IInv' /\ Edited(vm, vm', kid[e], dup[e])
<1> DEFINE va == dup[e]
           k == kid[e]
           r == SysPageMap(vm, c, e, va, k, va, "cow")
<1>1. /\ At(c, e, pc[e]) /\ pc[e] = "child" /\ Returns(e, r, "own")
      /\ UNCHANGED <<cur, status, parent, upcall, kid, dup, fault>>
  BY AtIs DEF ForkChild
<1>2. k # NoEnv /\ va \in UserVa /\ va \in Va /\ "cow" \in Perms /\ "own" \in ForkPcs
  BY <1>1, Vas DEF IInv, KidsOk, ForkPcs, Perms
<1>3. k \in Env /\ Alone(c, k)
  BY <1>2, KidAlone
<1>4. MapOk(vm, r, e, va, k, va, "cow")
  <2> HIDE DEF va, k
  <2>1. QED
    BY <1>2, <1>3, Typed, SysPageMapOk
<1>5. CallOk(vm, r, k, va)
  BY <1>4 DEF MapOk
<1>6. dup' \in [Env -> 0 .. NVA + 1] /\ \A x \in Env : x # e => dup'[x] = dup[x]
  BY <1>1, Typed
<1> HIDE DEF r
<1>7. QED
  BY <1>1, <1>2, <1>5, <1>6, ForkCallInv

\* duppage maps it copy-on-write in the parent too.
LEMMA ForkOwnInv ==
  ASSUME IInv, NEW c \in Cpu, NEW e \in Env, ForkOwn(c, e), ops' \in 0 .. MaxOps
  PROVE  IInv' /\ Edited(vm, vm', e, dup[e])
<1> DEFINE va == dup[e]
           r == SysPageMap(vm, c, e, va, e, va, "cow")
<1>1. /\ At(c, e, pc[e]) /\ pc[e] = "own" /\ Returns(e, r, "dup") /\ cur[c] = e
      /\ dup' = [dup EXCEPT ![e] = IF r.ok THEN @ + 1 ELSE @]
      /\ UNCHANGED <<cur, status, parent, upcall, kid, fault>>
  BY AtIs DEF ForkOwn, NextAddr
<1>2. kid[e] # NoEnv /\ va \in UserVa /\ va \in Va /\ "cow" \in Perms /\ "dup" \in ForkPcs
  BY <1>1, Vas DEF IInv, KidsOk, ForkPcs, Perms
<1>3. Alone(c, e)
  BY <1>1, CpuAlone
<1>4. MapOk(vm, r, e, va, e, va, "cow")
  <2> HIDE DEF va
  <2>1. QED
    BY <1>2, <1>3, Typed, SysPageMapOk
<1>5. CallOk(vm, r, e, va)
  BY <1>4 DEF MapOk
<1>6. dup' \in [Env -> 0 .. NVA + 1] /\ \A x \in Env : x # e => dup'[x] = dup[x]
  BY <1>1, <1>2, Typed, Vas
<1> HIDE DEF r
<1>7. QED
  BY <1>1, <1>2, <1>5, <1>6, ForkCallInv

\* The child gets an exception stack.
LEMMA ForkUxInv ==
  ASSUME IInv, NEW c \in Cpu, NEW e \in Env, ForkUx(c, e), ops' \in 0 .. MaxOps
  PROVE  IInv' /\ Edited(vm, vm', kid[e], UXSTACK)
<1> DEFINE k == kid[e]
           r == SysPageAlloc(vm, c, k, UXSTACK)
<1>1. /\ At(c, e, pc[e]) /\ pc[e] = "dup" /\ Returns(e, r, "upcall")
      /\ UNCHANGED <<cur, status, parent, upcall, kid, dup, fault>>
  BY AtIs DEF ForkUx
<1>2. k # NoEnv /\ UXSTACK \in Va /\ "upcall" \in ForkPcs
  BY <1>1, Vas DEF IInv, KidsOk, ForkPcs
<1>3. k \in Env /\ Alone(c, k)
  BY <1>2, KidAlone
<1>4. CallOk(vm, r, k, UXSTACK)
  <2> HIDE DEF k
  <2>1. QED
    BY <1>2, <1>3, Typed, SysPageAllocOk
<1>5. dup' \in [Env -> 0 .. NVA + 1] /\ \A x \in Env : x # e => dup'[x] = dup[x]
  BY <1>1, Typed
<1> HIDE DEF r
<1>6. QED
  BY <1>1, <1>2, <1>4, <1>5, ForkCallInv

\* The child gets the upcall.
LEMMA ForkUpcallInv ==
  ASSUME IInv, NEW c \in Cpu, NEW e \in Env, ForkUpcall(c, e), ops' \in 0 .. MaxOps
  PROVE  IInv'
<1>1. /\ status[e] = "ready" /\ pc[e] = "upcall"
      /\ upcall' = [upcall EXCEPT ![kid[e]] = TRUE]
      /\ pc' = [pc EXCEPT ![e] = "status"]
      /\ UNCHANGED <<vm, cur, status, parent, kid, dup, fault>>
  BY AtIs DEF ForkUpcall
<1>2. TypeOK'
  BY <1>1, Typed DEF TypeOK, Pcs
<1>3. MemOk(vm, {})'
  BY <1>1, Typed, MemNext
<1>4. DirsOk' /\ CurOk' /\ FaultOk'
  BY <1>1 DEF IInv, DirsOk, CurOk, FaultOk
<1>5. KidsOk' /\ IdleOk'
  BY <1>1, Typed DEF IInv, KidsOk, IdleOk, ForkPcs
<1>6. QED
  BY <1>2, <1>3, <1>4, <1>5 DEF IInv

\* The child may run, and is the fork's no more.
LEMMA ForkStatusInv ==
  ASSUME IInv, NEW c \in Cpu, NEW e \in Env, ForkStatus(c, e), ops' \in 0 .. MaxOps
  PROVE  IInv'
<1>1. /\ status[e] = "ready" /\ pc[e] = "status"
      /\ status' = [status EXCEPT ![kid[e]] = "ready"]
      /\ pc' = [pc EXCEPT ![e] = "run"]
      /\ kid' = [kid EXCEPT ![e] = NoEnv]
      /\ dup' = [dup EXCEPT ![e] = 0]
      /\ UNCHANGED <<vm, cur, parent, upcall, fault>>
  BY AtIs DEF ForkStatus
<1>2. kid[e] # NoEnv
  BY <1>1 DEF IInv, KidsOk, ForkPcs
<1>3. kid[e] \in Env /\ status[kid[e]] = "not_runnable" /\ \A d \in Cpu : cur[d] # kid[e]
  BY <1>2, Typed, PagesAssumption DEF IInv, KidsOk, CurOk
<1>4. TypeOK'
  BY <1>1, Typed, Vas DEF TypeOK, Pcs
<1>5. MemOk(vm, {})'
  BY <1>1, Typed, MemNext
<1>6. DirsOk' /\ CurOk' /\ FaultOk'
  BY <1>1, <1>3, Typed DEF IInv, DirsOk, CurOk, FaultOk
<1>7. IdleOk'
  BY <1>1, <1>3, Typed DEF IInv, IdleOk
<1>8. KidsOk'
  <2>1. /\ kid'[e] = NoEnv /\ \A x \in Env : x # e => kid'[x] = kid[x]
        /\ pc'[e] = "run" /\ \A x \in Env : x # e => pc'[x] = pc[x] /\ dup'[x] = dup[x]
        /\ \A x \in Env : x # kid[e] => status'[x] = status[x]
    BY <1>1, <1>3, Typed
  <2> SUFFICES ASSUME NEW x \in Env
               PROVE /\ kid'[x] # NoEnv => /\ status'[kid'[x]] = "not_runnable"
                                           /\ \A y \in Env : y # x => kid'[y] # kid'[x]
                     /\ pc'[x] \in ForkPcs => kid'[x] # NoEnv
                     /\ pc'[x] \in {"run", "exofork"} => kid'[x] = NoEnv
                     /\ pc'[x] \in {"ro", "child", "own"} => dup'[x] \in UserVa
    BY DEF KidsOk
  <2>2. CASE x = e
    BY <2>1, <2>2 DEF ForkPcs
  <2>3. CASE x # e
    <3>1. kid[x] # NoEnv => kid[x] \in Env /\ kid[x] # kid[e]
      BY <1>2, <2>3, Typed DEF IInv, KidsOk
    <3>2. kid'[x] # NoEnv => /\ status'[kid'[x]] = "not_runnable"
                             /\ \A y \in Env : y # x => kid'[y] # kid'[x]
      BY <2>1, <2>3, <3>1 DEF IInv, KidsOk
    <3>3. QED
      BY <2>1, <2>3, <3>2 DEF IInv, KidsOk
  <2>4. QED
    BY <2>2, <2>3
<1>9. QED
  BY <1>4, <1>5, <1>6, <1>7, <1>8 DEF IInv

\* Every step preserves the invariant.
LEMMA NextInv ==
  ASSUME IInv, [Next]_vars
  PROVE  IInv'
<1>1. CASE UNCHANGED vars
  <2>1. UNCHANGED <<vm, cur, status, parent, upcall, pc, kid, dup, fault, ops>>
    BY <1>1 DEF vars, prog
  <2>2. MemOk(vm, {})'
    BY <2>1, Typed, MemNext
  <2>3. QED
    BY <2>1, <2>2, Typed
    DEF IInv, TypeOK, DirsOk, CurOk, KidsOk, IdleOk, FaultOk
<1>2. CASE Counted /\ \E c \in Cpu, e \in Env : Begin(c, e)
  <2>1. ops' \in 0 .. MaxOps
    BY <1>2, Typed, PagesAssumption DEF Counted
  <2>2. QED
    BY <1>2, <2>1, ForkHandlerInv, PageFaultInv DEF Begin
<1>3. CASE UNCHANGED ops /\ Other
  <2>1. ops' \in 0 .. MaxOps
    BY <1>3, Typed
  <2>2. CASE \E c \in Cpu : Reap(c)
    BY <2>1, <2>2, ReapInv
  <2>3. CASE \E c \in Cpu, e \in Env \cup {NoEnv} : Switch(c, e)
    BY <2>1, <2>3, SwitchInv
  <2>4. CASE \E c \in Cpu, e \in Env : Exit(c, e) \/ Fork(c, e)
    <3>1. PICK c \in Cpu, e \in Env : Exit(c, e) \/ Fork(c, e)
      BY <2>4
    <3>2. QED
      BY <2>1, <3>1, ExitInv, ForkExoforkInv, ForkDupInv, ForkReadOnlyInv, ForkChildInv,
         ForkOwnInv, ForkUxInv, ForkUpcallInv, ForkStatusInv DEF Fork
  <2>5. CASE \E c \in Cpu, e \in Env : FaultAlloc(c, e) \/ FaultCopy(c, e) \/ FaultMap(c, e)
    BY <2>1, <2>5, FaultAllocInv, FaultCopyInv, FaultMapInv
  <2>6. CASE \E c \in Cpu, e, victim \in Env : Destroy(c, e, victim)
    BY <2>1, <2>6, DestroyInv
  <2>7. CASE \E c \in Cpu, e \in Env, va \in UserVa :
               Unmap(c, e, va) \/ \E v \in Val : Write(c, e, va, v)
    BY <2>1, <2>7, UnmapInv, WriteInv
  <2>8. QED
    BY <1>3, <2>2, <2>3, <2>4, <2>5, <2>6, <2>7 DEF Other
<1>4. QED
  BY <1>1, <1>2, <1>3 DEF Next

\* The pages, page tables and TLBs are as the inductive invariant says, in every
\* behaviour.
THEOREM PagesInvariant == Spec => []IInv
<1>1. Init => IInv
  BY InitInv
<1>2. IInv /\ [Next]_vars => IInv'
  BY NextInv
<1>3. QED
  BY <1>1, <1>2, PTL DEF Spec

\* Counts, entries, TLBs and the library's variables keep their types.
THEOREM TypesHold == Spec => []TypeOK
<1>1. IInv => TypeOK
  BY DEF IInv
<1>2. QED
  BY <1>1, PagesInvariant, PTL

\* Every pp_ref is the number of places that point to the page, and the free list
\* is the pages that nothing points to, whatever the programs do.
THEOREM RefsExactHolds == Spec => []RefsExact
<1>1. IInv => RefsExact
  <2> SUFFICES ASSUME IInv PROVE RefsExact
    OBVIOUS
  <2>1. \A p \in Page : UsesIn(vm, p) = Uses(p)
    BY DEF UsesIn, Uses, PtesOf, DirsOf, TabsOf
  <2>2. QED
    BY <2>1 DEF IInv, MemOk, Exact, RefsExact
<1>2. QED
  BY <1>1, PagesInvariant, PTL

\* What a TLB holds is what the page table of the CPU's environment says, though
\* tlb_invalidate looks at the local CPU only.
THEOREM TlbCoherentHolds == Spec => []TlbCoherent
<1>1. IInv => TlbCoherent
  BY DEF IInv, MemOk, Coherent, TlbCoherent
<1>2. QED
  BY <1>1, PagesInvariant, PTL

-----------------------------------------------------------------------------
\* Copy on write: who shares a page with whom.

\* fork has not mapped anything in the child from addr on, and a page that it
\* found read-only still is.
Beyond(e, w) ==
  /\ pc[e] \in {"dup", "ro", "child"} /\ w >= dup[e] => vm.pte[kid[e]][w].page = NoPage
  /\ pc[e] = "own" /\ w > dup[e] => vm.pte[kid[e]][w].page = NoPage
  /\ pc[e] \in {"upcall", "status"} => dup[e] # w
  /\ pc[e] = "ro" => vm.pte[e][dup[e]].perm = "ro"

BeyondOk == \A e \in Env, w \in UserVa : Beyond(e, w)

\* A page that e may write at va is nobody else's, but for the child that fork
\* gave it to and that e has not made copy-on-write for itself yet.
Exclusive ==
  \A e \in Env, va \in UserVa :
    vm.pte[e][va].page # NoPage /\ vm.pte[e][va].perm = "w" =>
    \A d \in Env, w \in UserVa :
      <<d, w>> # <<e, va>> /\ vm.pte[d][w].page = vm.pte[e][va].page =>
        pc[e] \in {"own", "panic"} /\ kid[e] = d /\ dup[e] = va /\ w = va

\* The page that the handler copies to is nobody's.
TmpOk ==
  \A e \in Env : fault[e].pc \in {"copy", "map"} =>
    /\ \A d \in Env, w \in UserVa : vm.pte[d][w].page # vm.pte[e][PFTEMP].page
    /\ \A d \in Env : d # e /\ fault[d].pc \in {"copy", "map"} =>
         vm.pte[d][PFTEMP].page # vm.pte[e][PFTEMP].page

\* Sharing is in order.
SInv == BeyondOk /\ Exclusive /\ TmpOk

\* p's fork gave its page at w to d, but p still writes to it.
Giving(p, d, w) ==
  /\ kid[p] = d /\ dup[p] = w /\ pc[p] \in {"own", "panic"}
  /\ vm.pte[p][w] = [page |-> vm.pte[d][w].page, perm |-> "w"]

\* A cell of the memory that d is promised.
Cell(d, w) ==
  IF vm.pte[d][w].page # NoPage /\ \A p \in Env : ~Giving(p, d, w)
  THEN vm.data[vm.pte[d][w].page] ELSE NoVal

\* Pages in use before and after a step keep what they hold.
Kept == \A q \in Page : q \notin vm.free /\ q \notin vm'.free => vm'.data[q] = vm.data[q]

\* The memory that environments are promised, cell by cell.
LEMMA MemIs ==
  /\ Mem = [d \in Env |-> [w \in UserVa |-> Cell(d, w)]]
  /\ Mem' = [d \in Env |-> [w \in UserVa |-> Cell(d, w)']]
BY DEF Mem, HandedOver, Cell, Giving

\* A page that an entry points to after the step is in use then.
LEMMA NextUse ==
  ASSUME IInv', NEW d \in Env, NEW v \in Va, NEW q \in Page, vm'.pte[d][v].page = q
  PROVE  q \notin vm'.free
<1>1. Exact(vm', {})
  BY DEF IInv, MemOk, Exact, UsesIn, PtesOf, DirsOf, TabsOf
<1>2. QED
  BY <1>1, Counts

\* A page that entries point to before and after keeps what it holds.
LEMMA PageKept ==
  ASSUME IInv, IInv', Kept, NEW d \in Env, NEW v \in Va, NEW b \in Env, NEW w \in Va,
         NEW q \in Page, vm.pte[d][v].page = q, vm'.pte[b][w].page = q
  PROVE  vm'.data[q] = vm.data[q]
BY Typed, InUse, NextUse DEF Kept

\* A cell whose page stays, and that nobody begins or ends to give, stays.
LEMMA CellKept ==
  ASSUME IInv, IInv', Kept, NEW d \in Env, NEW w \in UserVa,
         vm'.pte[d][w].page = vm.pte[d][w].page,
         vm.pte[d][w].page # NoPage => \A p \in Env : Giving(p, d, w)' <=> Giving(p, d, w)
  PROVE  Cell(d, w)' = Cell(d, w)
<1>1. w \in Va
  BY Vas
<1>2. CASE vm.pte[d][w].page = NoPage
  BY <1>2 DEF Cell
<1>3. CASE vm.pte[d][w].page # NoPage
  <2>1. vm.pte[d][w].page \in Page
    BY <1>1, <1>3, Typed, PteIs
  <2>2. vm'.data[vm.pte[d][w].page] = vm.data[vm.pte[d][w].page]
    BY <1>1, <2>1, PageKept
  <2>3. QED
    BY <2>2 DEF Cell
<1>4. QED
  BY <1>2, <1>3

\* An environment that runs, or is a zombie, is nobody's child in fork.
LEMMA NotKid ==
  ASSUME IInv, NEW e \in Env, status[e] \in {"ready", "dying"}
  PROVE  \A p \in Env : kid[p] # e
BY PagesAssumption DEF IInv, KidsOk

\* Nothing is mapped in the child at addr before fork's second call for it.
LEMMA PanicCell ==
  ASSUME IInv, BeyondOk, NEW e \in Env, pc[e] \notin {"own", "panic"},
         NEW d \in Env, kid[e] = d, NEW w \in UserVa, dup[e] = w
  PROVE  vm.pte[d][w].page = NoPage
<1>1. pc[e] \in Pcs /\ d # NoEnv
  BY Typed, PagesAssumption
<1>2. pc[e] \notin {"run", "exofork"}
  BY <1>1 DEF IInv, KidsOk
<1>3. pc[e] \in {"dup", "ro", "child"}
  BY <1>1, <1>2 DEF Pcs, BeyondOk, Beyond
<1>4. w >= dup[e]
  BY PagesAssumption DEF UserVa
<1>5. QED
  BY <1>3, <1>4 DEF BeyondOk, Beyond

\* Steps that leave the user entries, and what fork gave away, alone.
LEMMA QuietNext ==
  ASSUME IInv, SInv, IInv', Kept,
         \A d \in Env, w \in UserVa : vm'.pte[d][w] = vm.pte[d][w],
         \A d \in Env : \/ /\ kid'[d] = kid[d] /\ dup'[d] = dup[d]
                           /\ pc'[d] = pc[d] \/ pc'[d] = "panic"
                        \/ pc[d] \notin {"own", "panic"} /\ pc'[d] \notin {"own", "panic"}
  PROVE  Exclusive' /\ \A d \in Env, w \in UserVa : Cell(d, w)' = Cell(d, w)
<1>1. ASSUME NEW d \in Env, NEW w \in UserVa PROVE Cell(d, w)' = Cell(d, w)
  <2>1. ASSUME vm.pte[d][w].page # NoPage, NEW p \in Env
        PROVE  Giving(p, d, w)' <=> Giving(p, d, w)
    <3>1. vm'.pte[d][w] = vm.pte[d][w] /\ vm'.pte[p][w] = vm.pte[p][w]
      OBVIOUS
    <3>2. CASE pc[p] \in {"own", "panic"}
      <4>1. kid'[p] = kid[p] /\ dup'[p] = dup[p] /\ pc'[p] \in {"own", "panic"}
        BY <3>2
      <4>2. QED
        BY <3>1, <3>2, <4>1 DEF Giving
    <3>3. CASE pc[p] \notin {"own", "panic"}
      <4>1. ~Giving(p, d, w)
        BY <3>3 DEF Giving
      <4>2. CASE pc'[p] \notin {"own", "panic"}
        BY <4>1, <4>2 DEF Giving
      <4>3. CASE kid'[p] = kid[p] /\ dup'[p] = dup[p]
        <5>1. ~(kid[p] = d /\ dup[p] = w)
          BY <2>1, <3>3, PanicCell DEF SInv
        <5>2. QED
          BY <4>1, <4>3, <5>1 DEF Giving
      <4>4. QED
        BY <4>2, <4>3
    <3>4. QED
      BY <3>2, <3>3
  <2>2. QED
    BY <2>1, CellKept
<1>2. Exclusive'
  <2> SUFFICES ASSUME NEW e \in Env, NEW va \in UserVa,
                      vm'.pte[e][va].page # NoPage, vm'.pte[e][va].perm = "w",
                      NEW d \in Env, NEW w \in UserVa,
                      <<d, w>> # <<e, va>>, vm'.pte[d][w].page = vm'.pte[e][va].page
               PROVE  pc'[e] \in {"own", "panic"} /\ kid'[e] = d /\ dup'[e] = va /\ w = va
    BY DEF Exclusive
  <2>1. vm'.pte[e][va] = vm.pte[e][va] /\ vm'.pte[d][w] = vm.pte[d][w]
    OBVIOUS
  <2>2. pc[e] \in {"own", "panic"} /\ kid[e] = d /\ dup[e] = va /\ w = va
    BY <2>1 DEF SInv, Exclusive
  <2>3. QED
    BY <2>2
<1>3. QED
  BY <1>1, <1>2

\* Steps that leave the user entries alone, or end a fork's loop.
LEMMA BeyondNext ==
  ASSUME IInv, BeyondOk, \A d \in Env, w \in UserVa : vm'.pte[d][w] = vm.pte[d][w],
         \A d \in Env : \/ kid'[d] = kid[d] /\ dup'[d] = dup[d] /\ pc'[d] = pc[d]
                        \/ pc'[d] \notin ForkPcs
  PROVE  BeyondOk'
<1> SUFFICES ASSUME NEW x \in Env, NEW w \in UserVa PROVE Beyond(x, w)'
  BY DEF BeyondOk
<1>1. CASE pc'[x] \notin ForkPcs
  BY <1>1 DEF Beyond, ForkPcs
<1>2. CASE pc'[x] \in ForkPcs
  <2>1. kid'[x] = kid[x] /\ dup'[x] = dup[x] /\ pc'[x] = pc[x]
    BY <1>2
  <2>2. kid[x] \in Env
    BY <1>2, <2>1, Typed DEF IInv, KidsOk
  <2>3. pc[x] = "ro" => dup[x] \in UserVa
    BY DEF IInv, KidsOk
  <2>4. Beyond(x, w)
    BY DEF BeyondOk
  <2>5. QED
    BY <2>1, <2>2, <2>3, <2>4 DEF Beyond
<1>3. QED
  BY <1>1, <1>2

\* One entry of e, or of the child that it forks, was edited: the other forks
\* stand where they stood.
LEMMA BeyondOthers ==
  ASSUME IInv, BeyondOk, NEW e \in Env, status[e] \in {"ready", "dying"},
         NEW b \in Env, b = e \/ b = kid[e], NEW va \in Va, Edited(vm, vm', b, va),
         NEW x \in Env, x # e, kid'[x] = kid[x], dup'[x] = dup[x], pc'[x] = pc[x],
         NEW w \in UserVa
  PROVE  Beyond(x, w)'
<1>1. CASE pc[x] \notin ForkPcs
  BY <1>1 DEF Beyond, ForkPcs
<1>2. CASE pc[x] \in ForkPcs
  <2>1. kid[x] \in Env /\ kid[x] # b
    BY <1>2, Typed, NotKid DEF IInv, KidsOk
  <2>2. x # b
    BY <1>2, Typed, PagesAssumption DEF IInv, IdleOk, KidsOk, ForkPcs
  <2>3. pc[x] = "ro" => dup[x] \in UserVa
    BY DEF IInv, KidsOk
  <2>4. \A v \in UserVa : vm'.pte[kid[x]][v] = vm.pte[kid[x]][v] /\ vm'.pte[x][v] = vm.pte[x][v]
    <3> SUFFICES ASSUME NEW v \in UserVa
                 PROVE  vm'.pte[kid[x]][v] = vm.pte[kid[x]][v] /\ vm'.pte[x][v] = vm.pte[x][v]
      OBVIOUS
    <3>1. <<kid[x], v>> # <<b, va>> /\ <<x, v>> # <<b, va>> /\ v \in Va
      BY <2>1, <2>2, Vas
    <3>2. QED
      BY <2>1, <3>1 DEF Edited
  <2>5. Beyond(x, w)
    BY DEF BeyondOk
  <2>6. QED
    BY <2>3, <2>4, <2>5 DEF Beyond
<1>3. QED
  BY <1>1, <1>2

-----------------------------------------------------------------------------
\* What the abstract memory does.

\* A step that changes no cell.
LEMMA SameMem ==
  ASSUME \A d \in Env, w \in UserVa : Cell(d, w)' = Cell(d, w)
  PROVE  Own!Next
<1>1. Mem' = Mem
  BY MemIs
<1>2. QED
  BY <1>1 DEF Own!Next

\* A running environment changed one cell of its own.
LEMMA OneCell ==
  ASSUME IInv', NEW c \in Cpu, NEW e \in Env, cur[c] = e, NEW va \in UserVa,
         \A d \in Env, w \in UserVa : <<d, w>> # <<e, va>> => Cell(d, w)' = Cell(d, w)
  PROVE  Own!Next
<1>1. Cell(e, va)' \in Val \cup {NoVal}
  <2>1. va \in Va /\ vm' \in VmType
    BY Vas DEF IInv, TypeOK
  <2>2. vm'.pte[e][va].page # NoPage => vm'.pte[e][va].page \in Page
    BY <2>1, PteIs
  <2>3. QED
    BY <2>1, <2>2 DEF Cell, VmType
<1> DEFINE v == Cell(e, va)'
<1>2. Mem' = [Mem EXCEPT ![e][va] = v]
  <2>1. \A d \in Env, w \in UserVa : Mem'[d][w] = [Mem EXCEPT ![e][va] = v][d][w]
    BY MemIs
  <2>2. QED
    BY <2>1, MemIs
<1>3. Own!Own(e, va)
  BY <1>1, <1>2 DEF Own!Own
<1>4. QED
  BY <1>3 DEF Own!Next

\* A running environment copied a cell to another.
LEMMA CopyCell ==
  ASSUME NEW c \in Cpu, NEW e \in Env, cur[c] = e, NEW k \in Env, k # e,
         NEW va \in UserVa, Cell(k, va) = NoVal, Cell(k, va)' = Cell(e, va),
         \A d \in Env, w \in UserVa : <<d, w>> # <<k, va>> => Cell(d, w)' = Cell(d, w)
  PROVE  Own!Next
<1>1. Mem' = [Mem EXCEPT ![k][va] = Mem[e][va]]
  <2> DEFINE v == Cell(e, va)
  <2>1. Mem[e][va] = v
    BY MemIs
  <2>2. \A d \in Env, w \in UserVa : Mem'[d][w] = IF <<d, w>> = <<k, va>> THEN v ELSE Cell(d, w)
    BY MemIs
  <2> HIDE DEF v
  <2>3. [Mem EXCEPT ![k][va] = v]
        = [d \in Env |-> [w \in UserVa |-> IF <<d, w>> = <<k, va>> THEN v ELSE Cell(d, w)]]
    BY MemIs
  <2>4. Mem' = [Mem EXCEPT ![k][va] = v]
    BY <2>2, <2>3, MemIs
  <2>5. QED
    BY <2>1, <2>4
<1>2. Mem[k][va] = NoVal
  BY MemIs
<1>3. Own!Copy(e, k, va)
  BY <1>1, <1>2 DEF Own!Copy
<1>4. QED
  BY <1>3 DEF Own!Next

\* An environment lost its cells, perhaps with one handed over.
LEMMA EndCells ==
  ASSUME NEW e \in Env,
         \A w \in UserVa : Cell(e, w)' = NoVal,
         \/ \A d \in Env, w \in UserVa : d # e => Cell(d, w)' = Cell(d, w)
         \/ \E k \in Env, va \in UserVa :
              /\ k # e /\ Cell(k, va) = NoVal /\ Cell(k, va)' = Cell(e, va)
              /\ \A d \in Env, w \in UserVa :
                   d # e /\ <<d, w>> # <<k, va>> => Cell(d, w)' = Cell(d, w)
  PROVE  Own!Next
<1> DEFINE ended == [Mem EXCEPT ![e] = [w \in UserVa |-> NoVal]]
<1>1. ended = [d \in Env |-> [w \in UserVa |-> IF d = e THEN NoVal ELSE Cell(d, w)]]
  BY MemIs
<1>2. CASE \A d \in Env, w \in UserVa : d # e => Cell(d, w)' = Cell(d, w)
  <2>1. Mem' = ended
    BY <1>1, <1>2, MemIs
  <2>2. Own!End(e)
    BY <2>1 DEF Own!End
  <2>3. QED
    BY <2>2 DEF Own!Next
<1>3. CASE \E k \in Env, va \in UserVa :
              /\ k # e /\ Cell(k, va) = NoVal /\ Cell(k, va)' = Cell(e, va)
              /\ \A d \in Env, w \in UserVa :
                   d # e /\ <<d, w>> # <<k, va>> => Cell(d, w)' = Cell(d, w)
  <2>1. PICK k \in Env, va \in UserVa :
              /\ k # e /\ Cell(k, va) = NoVal /\ Cell(k, va)' = Cell(e, va)
              /\ \A d \in Env, w \in UserVa :
                   d # e /\ <<d, w>> # <<k, va>> => Cell(d, w)' = Cell(d, w)
    BY <1>3
  <2>2. Mem[k][va] = NoVal /\ Mem[e][va] = Cell(e, va) /\ k \in Env \ {e}
    BY <2>1, MemIs
  <2> HIDE DEF ended
  <2>3. \A d \in Env, w \in UserVa :
          Mem'[d][w] = IF <<d, w>> = <<k, va>> THEN Cell(e, va)
                       ELSE IF d = e THEN NoVal ELSE Cell(d, w)
    BY <2>1, MemIs
  <2>4. [ended EXCEPT ![k][va] = Mem[e][va]]
        = [d \in Env |-> [w \in UserVa |-> IF <<d, w>> = <<k, va>> THEN Cell(e, va)
                                          ELSE IF d = e THEN NoVal ELSE Cell(d, w)]]
    BY <1>1, <2>1, <2>2
  <2>5. Mem' = [ended EXCEPT ![k][va] = Mem[e][va]]
    BY <2>3, <2>4, MemIs
  <2>6. Own!End(e)
    BY <2>2, <2>5 DEF Own!End, ended
  <2>7. QED
    BY <2>6 DEF Own!Next
<1>4. QED
  BY <1>2, <1>3

-----------------------------------------------------------------------------
\* Every action keeps sharing in order, and does what the abstract memory may do.

\* At boot nothing is shared.
LEMMA SharedInit == Init => SInv
<1> SUFFICES ASSUME Init PROVE SInv
  OBVIOUS
<1>1. vm.pte = [e \in Env |-> IF e = Boot
                  THEN [va \in Va |-> IF va \in UserVa
                          THEN [page |-> va + 2, perm |-> IF va = 1 THEN "ro" ELSE "w"]
                          ELSE Absent]
                  ELSE NoPtes]
  BY DEF Init
<1>2. BeyondOk /\ TmpOk
  BY DEF Init, BeyondOk, Beyond, TmpOk, NoFault
<1>3. \A e \in Env, va \in UserVa : e # Boot => vm.pte[e][va].page = NoPage
  BY <1>1, AbsentPte, Vas DEF NoPtes
<1>4. \A va \in UserVa : vm.pte[Boot][va].page = va + 2
  BY <1>1, Vas, PagesAssumption
<1>5. \A va, w \in UserVa : va + 2 = w + 2 => va = w
  BY DEF UserVa
<1>6. Exclusive
  BY <1>3, <1>4, <1>5 DEF Exclusive
<1>7. QED
  BY <1>2, <1>6 DEF SInv

\* Steps that do not touch the page tables: a CPU switches, a program becomes a
\* zombie, enters the handler or goes on in fork.
LEMMA SwitchShared ==
  ASSUME IInv, SInv, IInv', NEW c \in Cpu, NEW e \in Env \cup {NoEnv}, Switch(c, e)
  PROVE  SInv' /\ Own!Next
<1>1. /\ vm'.pte = vm.pte /\ vm'.data = vm.data
      /\ UNCHANGED <<kid, dup, pc, fault>>
  BY Typed, Lcr3Ok DEF Switch, prog
<1>2. Kept
  BY <1>1 DEF Kept
<1>3. BeyondOk' /\ TmpOk'
  BY <1>1 DEF SInv, BeyondOk, Beyond, TmpOk
<1>4. Exclusive' /\ \A d \in Env, w \in UserVa : Cell(d, w)' = Cell(d, w)
  BY <1>1, <1>2, QuietNext
<1>5. QED
  BY <1>3, <1>4, SameMem DEF SInv

\* A program becomes a zombie.
LEMMA ZombieShared ==
  ASSUME IInv, SInv, IInv', UNCHANGED <<vm, kid, dup, pc, fault>>
  PROVE  SInv' /\ Own!Next
<1>1. Kept
  BY DEF Kept
<1>2. BeyondOk' /\ TmpOk'
  BY DEF SInv, BeyondOk, Beyond, TmpOk
<1>3. Exclusive' /\ \A d \in Env, w \in UserVa : Cell(d, w)' = Cell(d, w)
  BY <1>1, QuietNext
<1>4. QED
  BY <1>2, <1>3, SameMem DEF SInv

\* A program enters the handler.
LEMMA EnterShared ==
  ASSUME IInv, SInv, IInv', NEW e \in Env, NEW va \in Va,
         fault' = [fault EXCEPT ![e] = [pc |-> "alloc", va |-> va]],
         UNCHANGED <<vm, kid, dup, pc>>
  PROVE  SInv' /\ Own!Next
<1>1. Kept
  BY DEF Kept
<1>2. BeyondOk'
  BY DEF SInv, BeyondOk, Beyond
<1>3. \A d \in Env : fault'[d].pc \in {"copy", "map"} => fault[d].pc \in {"copy", "map"}
  BY Typed
<1>4. TmpOk'
  BY <1>3 DEF SInv, TmpOk
<1>5. Exclusive' /\ \A d \in Env, w \in UserVa : Cell(d, w)' = Cell(d, w)
  BY <1>1, QuietNext
<1>6. QED
  BY <1>2, <1>4, <1>5, SameMem DEF SInv

\* Who writes a page has it alone, or still gives it to its child.
LEMMA WriteShared ==
  ASSUME IInv, SInv, IInv', NEW c \in Cpu, NEW e \in Env, NEW va \in UserVa, NEW v \in Val,
         Write(c, e, va, v), IsWritten(vm, vm', c, e, vm.pte[e][va].page),
         vm.pte[e][va].page \in Page, vm.pte[e][va].perm = "w"
  PROVE  SInv' /\ Own!Next
<1> DEFINE p == vm.pte[e][va].page
<1>1. /\ vm'.pte = vm.pte /\ \A q \in Page : q # p => vm'.data[q] = vm.data[q]
      /\ UNCHANGED <<kid, dup, pc, fault>> /\ cur[c] = e /\ pc[e] # "panic"
      /\ status[e] = "ready" /\ p # NoPage
  BY PagesAssumption DEF IsWritten, Write, prog, Runs
<1>2. SInv'
  BY <1>1 DEF SInv, BeyondOk, Beyond, Exclusive, TmpOk
<1>3. ASSUME NEW d \in Env, NEW w \in UserVa, <<d, w>> # <<e, va>>
      PROVE  Cell(d, w)' = Cell(d, w)
  <2>1. \A b \in Env : Giving(b, d, w)' <=> Giving(b, d, w)
    BY <1>1 DEF Giving
  <2>2. CASE vm.pte[d][w].page = p
    <3>1. pc[e] = "own" /\ kid[e] = d /\ dup[e] = va /\ w = va
      BY <1>1, <1>3, <2>2 DEF SInv, Exclusive
    <3>2. vm.pte[e][va] = [page |-> p, perm |-> "w"]
      <4>1. vm.pte[e][va] \in Pte
        BY Typed, Vas, PteIs
      <4>2. QED
        BY <4>1 DEF Pte
    <3>3. Giving(e, d, w)
      BY <2>2, <3>1, <3>2 DEF Giving
    <3>4. QED
      BY <1>1, <2>1, <3>3 DEF Cell
  <2>3. CASE vm.pte[d][w].page # p
    <3>1. vm.pte[d][w].page # NoPage => vm.pte[d][w].page \in Page
      BY Typed, Vas, PteIs
    <3>2. QED
      BY <1>1, <2>1, <2>3, <3>1 DEF Cell
  <2>4. QED
    BY <2>2, <2>3
<1>4. Own!Next
  BY <1>1, <1>3, OneCell
<1>5. QED
  BY <1>2, <1>4

\* pgfault copies to a page that nobody else has.
LEMMA FaultCopyShared ==
  ASSUME IInv, SInv, IInv', NEW c \in Cpu, NEW e \in Env, FaultCopy(c, e),
         IsWritten(vm, vm', c, e, vm.pte[e][PFTEMP].page)
  PROVE  SInv' /\ Own!Next
<1> DEFINE p == vm.pte[e][PFTEMP].page
<1>1. /\ vm'.pte = vm.pte /\ \A q \in Page : q # p => vm'.data[q] = vm.data[q]
      /\ UNCHANGED <<kid, dup, pc>> /\ fault[e].pc = "copy"
      /\ fault' = [fault EXCEPT ![e].pc = "map"]
  BY DEF IsWritten, FaultCopy, Handles
<1>2. \A d \in Env : fault'[d].pc \in {"copy", "map"} => fault[d].pc \in {"copy", "map"}
  BY <1>1, Typed
<1>3. SInv'
  BY <1>1, <1>2 DEF SInv, BeyondOk, Beyond, Exclusive, TmpOk
<1>4. ASSUME NEW d \in Env, NEW w \in UserVa PROVE Cell(d, w)' = Cell(d, w)
  <2>1. \A b \in Env : Giving(b, d, w)' <=> Giving(b, d, w)
    BY <1>1 DEF Giving
  <2>2. vm.pte[d][w].page # p
    BY <1>1 DEF SInv, TmpOk
  <2>3. vm.pte[d][w].page # NoPage => vm.pte[d][w].page \in Page
    BY Typed, Vas, PteIs
  <2>4. QED
    BY <1>1, <2>1, <2>2, <2>3 DEF Cell
<1>5. QED
  BY <1>3, <1>4, SameMem

\* An entry that is no user page was edited.
LEMMA EditedUser ==
  ASSUME NEW s, NEW t, NEW e \in Env, NEW va, va \notin UserVa, Edited(s, t, e, va)
  PROVE  \A d \in Env, w \in UserVa : t.pte[d][w] = s.pte[d][w]
<1> SUFFICES ASSUME NEW d \in Env, NEW w \in UserVa PROVE t.pte[d][w] = s.pte[d][w]
  OBVIOUS
<1>1. <<d, w>> # <<e, va>> /\ w \in Va
  BY Vas
<1>2. QED
  BY <1>1 DEF Edited

\* pgfault's page was free, so nobody has it.
LEMMA FaultAllocShared ==
  ASSUME IInv, SInv, IInv', NEW c \in Cpu, NEW e \in Env, FaultAlloc(c, e)
  PROVE  SInv' /\ Own!Next
<1> DEFINE r == SysPageAlloc(vm, c, e, PFTEMP)
<1>1. /\ cur[c] = e /\ fault[e].pc = "alloc"
      /\ fault' = [fault EXCEPT ![e].pc = IF r.ok THEN "copy" ELSE @]
      /\ UNCHANGED <<kid, dup>> /\ Returns(e, r, pc[e]) /\ pc[e] \in Pcs
  BY Typed DEF FaultAlloc, Handles, Runs
<1>2. /\ CallOk(vm, r, e, PFTEMP)
      /\ r.ok => r.vm.pte[e][PFTEMP] = [page |-> Head(vm), perm |-> "w"]
  BY <1>1, Typed, CpuAlone, Vas, SysPageAllocOk
<1>3. r.ok => vm.free # {}
  BY DEF SysPageAlloc, Failed
<1> HIDE DEF r
<1>4. /\ vm' = r.vm
      /\ pc'[e] \in {pc[e], "panic"}
      /\ \A d \in Env : d # e => pc'[d] = pc[d]
  BY <1>1, ReturnsIs
<1>5. /\ Edited(vm, vm', e, PFTEMP) /\ (~r.ok => vm'.pte = vm.pte)
      /\ r.ok => vm'.pte[e][PFTEMP].page = Head(vm)
  BY <1>2, <1>4 DEF CallOk
<1>6. Kept /\ \A d \in Env, w \in UserVa : vm'.pte[d][w] = vm.pte[d][w]
  BY <1>5, Vas, EditedUser DEF Edited, Kept
<1>7. BeyondOk'
  <2>1. \A d \in Env : \/ kid'[d] = kid[d] /\ dup'[d] = dup[d] /\ pc'[d] = pc[d]
                       \/ pc'[d] \notin ForkPcs
    BY <1>1, <1>4 DEF ForkPcs
  <2>2. QED
    BY <1>6, <2>1, BeyondNext DEF SInv
<1>8. Exclusive' /\ \A d \in Env, w \in UserVa : Cell(d, w)' = Cell(d, w)
  <2>1. \A d \in Env : /\ kid'[d] = kid[d] /\ dup'[d] = dup[d]
                       /\ pc'[d] = pc[d] \/ pc'[d] = "panic"
    BY <1>1, <1>4
  <2>2. QED
    BY <1>6, <2>1, QuietNext
<1>9. TmpOk'
  <2>1. \A d \in Env : d # e => vm'.pte[d][PFTEMP] = vm.pte[d][PFTEMP] /\ fault'[d] = fault[d]
    <3>1. \A d \in Env : d # e => <<d, PFTEMP>> # <<e, PFTEMP>>
      OBVIOUS
    <3>2. QED
      BY <1>1, <1>5, <3>1, Typed, Vas DEF Edited
  <2>2. CASE ~r.ok
    <3>1. fault' = fault
      BY <1>1, <2>2, Typed
    <3>2. QED
      BY <1>5, <2>2, <3>1 DEF SInv, TmpOk
  <2>3. CASE r.ok
    <3> DEFINE h == Head(vm)
    <3>1. h \in vm.free /\ h \in Page
      BY <1>3, <2>3, Typed, HeadIs
    <3> HIDE DEF h
    <3>2. \A d \in Env, w \in Va : vm.pte[d][w].page # h
      BY <3>1, Typed, InUse
    <3>3. vm'.pte[e][PFTEMP].page = h
      BY <1>5, <2>3 DEF h
    <3> SUFFICES ASSUME NEW x \in Env, fault'[x].pc \in {"copy", "map"}
                 PROVE  /\ \A d \in Env, w \in UserVa : vm'.pte[d][w].page # vm'.pte[x][PFTEMP].page
                        /\ \A d \in Env : d # x /\ fault'[d].pc \in {"copy", "map"} =>
                             vm'.pte[d][PFTEMP].page # vm'.pte[x][PFTEMP].page
      BY DEF TmpOk
    <3>4. CASE x = e
      BY <1>6, <2>1, <3>2, <3>3, <3>4, Vas
    <3>5. CASE x # e
      <4>1. vm'.pte[x][PFTEMP] = vm.pte[x][PFTEMP] /\ fault[x].pc \in {"copy", "map"}
        BY <2>1, <3>5
      <4>2. \A d \in Env, w \in UserVa : vm'.pte[d][w].page # vm'.pte[x][PFTEMP].page
        BY <1>6, <4>1 DEF SInv, TmpOk
      <4>3. vm'.pte[e][PFTEMP].page # vm'.pte[x][PFTEMP].page
        BY <3>2, <3>3, <4>1, Vas
      <4>4. \A d \in Env : d # x /\ d # e /\ fault'[d].pc \in {"copy", "map"} =>
              vm'.pte[d][PFTEMP].page # vm'.pte[x][PFTEMP].page
        BY <2>1, <4>1 DEF SInv, TmpOk
      <4>5. QED
        BY <4>2, <4>3, <4>4
    <3>6. QED
      BY <3>4, <3>5
  <2>4. QED
    BY <2>2, <2>3
<1>10. QED
  BY <1>7, <1>8, <1>9, SameMem DEF SInv

\* A call that fails ends in a panic, and nothing else changes.
LEMMA PanicShared ==
  ASSUME IInv, SInv, IInv', NEW e \in Env, vm' = vm, fault' = fault,
         \A d \in Env : kid'[d] = kid[d] /\ dup'[d] = dup[d], pc'[e] = "panic",
         \A d \in Env : d # e => pc'[d] = pc[d]
  PROVE  SInv' /\ Own!Next
<1>1. Kept
  BY DEF Kept
<1>2. BeyondOk'
  <2>1. \A d \in Env : \/ kid'[d] = kid[d] /\ dup'[d] = dup[d] /\ pc'[d] = pc[d]
                       \/ pc'[d] \notin ForkPcs
    BY DEF ForkPcs
  <2>2. QED
    BY <2>1, BeyondNext DEF SInv
<1>3. TmpOk'
  BY DEF SInv, TmpOk
<1>4. Exclusive' /\ \A d \in Env, w \in UserVa : Cell(d, w)' = Cell(d, w)
  <2>1. \A d \in Env : /\ kid'[d] = kid[d] /\ dup'[d] = dup[d]
                       /\ pc'[d] = pc[d] \/ pc'[d] = "panic"
    OBVIOUS
  <2>2. QED
    BY <1>1, <2>1, QuietNext
<1>5. QED
  BY <1>2, <1>3, <1>4, SameMem DEF SInv

\* A call on a page that fork does not share: set_pgfault_handler and the
\* child's exception stack.
LEMMA StackShared ==
  ASSUME IInv, SInv, IInv', NEW e \in Env, NEW b \in Env, Edited(vm, vm', b, UXSTACK),
         UNCHANGED <<kid, dup, fault>>, \A d \in Env : d # e => pc'[d] = pc[d],
         \/ pc[e] = "run" /\ pc'[e] \in {"exofork", "panic"}
         \/ /\ pc[e] = "dup" /\ pc'[e] \in {"upcall", "panic"}
            /\ dup[e] \notin UserVa
  PROVE  SInv' /\ Own!Next
<1>1. Kept /\ \A d \in Env, w \in UserVa : vm'.pte[d][w] = vm.pte[d][w]
  BY Vas, EditedUser DEF Edited, Kept
<1>2. BeyondOk'
  <2> SUFFICES ASSUME NEW x \in Env, NEW w \in UserVa PROVE Beyond(x, w)'
    BY DEF BeyondOk
  <2>1. CASE x = e
    BY <2>1 DEF Beyond
  <2>2. CASE x # e
    <3>1. pc'[x] = pc[x]
      BY <2>2
    <3>2. CASE pc[x] \in ForkPcs
      <4>1. kid[x] \in Env /\ (pc[x] = "ro" => dup[x] \in UserVa)
        BY <3>2, Typed DEF IInv, KidsOk
      <4>2. Beyond(x, w)
        BY DEF SInv, BeyondOk
      <4>3. QED
        BY <1>1, <3>1, <4>1, <4>2 DEF Beyond
    <3>3. CASE pc[x] \notin ForkPcs
      BY <3>1, <3>3 DEF Beyond, ForkPcs
    <3>4. QED
      BY <3>2, <3>3
  <2>3. QED
    BY <2>1, <2>2
<1>3. TmpOk'
  <2>1. \A d \in Env : vm'.pte[d][PFTEMP] = vm.pte[d][PFTEMP]
    <3>1. \A d \in Env : <<d, PFTEMP>> # <<b, UXSTACK>>
      BY Vas
    <3>2. QED
      BY <3>1, Vas DEF Edited
  <2>2. QED
    BY <1>1, <2>1 DEF SInv, TmpOk
<1>4. Exclusive' /\ \A d \in Env, w \in UserVa : Cell(d, w)' = Cell(d, w)
  <2>1. \A d \in Env : \/ /\ kid'[d] = kid[d] /\ dup'[d] = dup[d]
                          /\ pc'[d] = pc[d] \/ pc'[d] = "panic"
                       \/ pc[d] \notin {"own", "panic"} /\ pc'[d] \notin {"own", "panic"}
    OBVIOUS
  <2>2. QED
    BY <1>1, <2>1, QuietNext
<1>5. QED
  BY <1>2, <1>3, <1>4, SameMem DEF SInv

\* fork goes on without a call that edits user pages.
LEMMA StepShared ==
  ASSUME IInv, SInv, IInv', NEW e \in Env, fault' = fault,
         vm'.pte = vm.pte, Kept,
         \A d \in Env : d # e => pc'[d] = pc[d] /\ kid'[d] = kid[d] /\ dup'[d] = dup[d],
         pc[e] \notin {"own", "panic"}, pc'[e] \notin {"own", "panic"},
         \A w \in UserVa : Beyond(e, w)'
  PROVE  SInv' /\ Own!Next
<1>1. BeyondOk'
  <2> SUFFICES ASSUME NEW x \in Env, NEW w \in UserVa PROVE Beyond(x, w)'
    BY DEF BeyondOk
  <2>1. CASE x # e
    <3>1. Beyond(x, w)
      BY DEF SInv, BeyondOk
    <3>2. QED
      BY <2>1, <3>1 DEF Beyond
  <2>2. QED
    BY <2>1
<1>2. TmpOk'
  BY DEF SInv, TmpOk
<1>3. Exclusive' /\ \A d \in Env, w \in UserVa : Cell(d, w)' = Cell(d, w)
  <2>1. \A d \in Env : \/ /\ kid'[d] = kid[d] /\ dup'[d] = dup[d]
                          /\ pc'[d] = pc[d] \/ pc'[d] = "panic"
                       \/ pc[d] \notin {"own", "panic"} /\ pc'[d] \notin {"own", "panic"}
    OBVIOUS
  <2>2. QED
    BY <2>1, QuietNext
<1>4. QED
  BY <1>1, <1>2, <1>3, SameMem DEF SInv

\* set_pgfault_handler maps no user page.
LEMMA ForkHandlerShared ==
  ASSUME IInv, SInv, IInv', NEW c \in Cpu, NEW e \in Env, ForkHandler(c, e),
         Edited(vm, vm', e, UXSTACK)
  PROVE  SInv' /\ Own!Next
<1> DEFINE r == IF upcall[e] THEN Done(vm) ELSE SysPageAlloc(vm, c, e, UXSTACK)
<1>1. pc[e] = "run" /\ UNCHANGED <<kid, dup, fault>> /\ Returns(e, r, "exofork")
  BY AtIs DEF ForkHandler
<1> HIDE DEF r
<1>2. pc'[e] \in {"exofork", "panic"} /\ \A d \in Env : d # e => pc'[d] = pc[d]
  BY <1>1, ReturnsIs DEF Pcs
<1>3. QED
  BY <1>1, <1>2, StackShared

\* Nor does the child's exception stack.
LEMMA ForkUxShared ==
  ASSUME IInv, SInv, IInv', NEW c \in Cpu, NEW e \in Env, ForkUx(c, e),
         Edited(vm, vm', kid[e], UXSTACK)
  PROVE  SInv' /\ Own!Next
<1> DEFINE r == SysPageAlloc(vm, c, kid[e], UXSTACK)
<1>1. /\ pc[e] = "dup" /\ dup[e] \notin UserVa /\ UNCHANGED <<kid, dup, fault>>
      /\ Returns(e, r, "upcall")
  BY AtIs DEF ForkUx
<1> HIDE DEF r
<1>2. pc'[e] \in {"upcall", "panic"} /\ \A d \in Env : d # e => pc'[d] = pc[d]
  BY <1>1, ReturnsIs DEF Pcs
<1>3. kid[e] \in Env
  BY <1>1, Typed DEF IInv, KidsOk, ForkPcs
<1>4. QED
  BY <1>1, <1>2, <1>3, StackShared

\* Nothing is mapped in a new child.
LEMMA ForkExoforkShared ==
  ASSUME IInv, SInv, IInv', NEW c \in Cpu, NEW e \in Env, ForkExofork(c, e)
  PROVE  SInv' /\ Own!Next
<1> DEFINE slots == {d \in Env : status[d] = "free"}
<1>1. pc[e] = "exofork" /\ fault' = fault
  BY AtIs DEF ForkExofork
<1>2. CASE slots = {} \/ vm.free = {}
  <2>1. pc' = [pc EXCEPT ![e] = "panic"] /\ UNCHANGED <<vm, kid, dup>>
    BY <1>2 DEF ForkExofork
  <2>2. pc'[e] = "panic" /\ \A d \in Env : d # e => pc'[d] = pc[d]
    BY <2>1, Typed
  <2>3. QED
    BY <1>1, <2>1, <2>2, PanicShared
<1>3. CASE ~(slots = {} \/ vm.free = {})
  <2>1. PICK d \in slots :
          /\ Returns(e, EnvSetupVm(vm, d), "dup")
          /\ kid' = [kid EXCEPT ![e] = d]
          /\ dup' = [dup EXCEPT ![e] = 1]
    BY <1>3 DEF ForkExofork
  <2>2. d \in Env /\ status[d] = "free" /\ vm.dir[d] = NoPage
    BY <2>1 DEF IInv, DirsOk
  <2> DEFINE r == EnvSetupVm(vm, d)
  <2>3. r.ok /\ MemOk(r.vm, {}) /\ IsSetup(vm, r.vm, d)
    BY <1>3, <2>2, Typed, EnvSetupVmOk
  <2>4. Returns(e, r, "dup")
    BY <2>1
  <2> HIDE DEF r
  <2>5. vm' = r.vm /\ pc' = [pc EXCEPT ![e] = "dup"]
    BY <2>3, <2>4 DEF Returns
  <2>6. vm'.pte = vm.pte /\ Kept
    BY <2>3, <2>5 DEF IsSetup, Kept
  <2>7. /\ pc'[e] = "dup" /\ kid'[e] = d
        /\ \A x \in Env : x # e => pc'[x] = pc[x] /\ kid'[x] = kid[x] /\ dup'[x] = dup[x]
    BY <2>1, <2>5, Typed
  <2>8. \A w \in UserVa : vm.pte[d][w].page = NoPage
    BY <2>2, Vas DEF IInv, DirsOk
  <2>9. \A w \in UserVa : Beyond(e, w)'
    BY <2>6, <2>7, <2>8 DEF Beyond
  <2>10. QED
    BY <1>1, <2>6, <2>7, <2>9, StepShared
<1>4. QED
  BY <1>2, <1>3

\* The loop passes over an address, or finds how to share it.
LEMMA ForkDupShared ==
  ASSUME IInv, SInv, IInv', NEW c \in Cpu, NEW e \in Env, ForkDup(c, e)
  PROVE  SInv' /\ Own!Next
<1> DEFINE t == vm.pte[e][dup[e]]
<1>1. /\ pc[e] = "dup" /\ dup[e] \in UserVa /\ UNCHANGED <<vm, kid, fault>>
      /\ \/ dup' = [dup EXCEPT ![e] = @ + 1] /\ pc' = pc
         \/ pc' = [pc EXCEPT ![e] = Sharing(t.perm)] /\ dup' = dup
  BY AtIs DEF ForkDup
<1>2. Kept
  BY <1>1 DEF Kept
<1>3. /\ \A d \in Env : d # e => pc'[d] = pc[d] /\ kid'[d] = kid[d] /\ dup'[d] = dup[d]
      /\ kid'[e] = kid[e]
      /\ \/ pc'[e] = "dup" /\ dup'[e] = dup[e] + 1
         \/ pc'[e] = Sharing(t.perm) /\ dup'[e] = dup[e]
  BY <1>1, Typed
<1>4. \A w \in UserVa : Beyond(e, w)'
  <2> SUFFICES ASSUME NEW w \in UserVa PROVE Beyond(e, w)'
    OBVIOUS
  <2>1. Beyond(e, w) /\ w \in Int /\ dup[e] \in Int
    BY <1>1 DEF SInv, BeyondOk, UserVa
  <2>2. w >= dup[e] + 1 => w >= dup[e]
    BY <2>1
  <2>3. CASE pc'[e] = "dup" /\ dup'[e] = dup[e] + 1
    BY <1>1, <1>3, <2>1, <2>2, <2>3 DEF Beyond
  <2>4. CASE pc'[e] = Sharing(t.perm) /\ dup'[e] = dup[e]
    BY <1>1, <1>3, <2>1, <2>4 DEF Beyond, Sharing
  <2>5. QED
    BY <1>3, <2>3, <2>4
<1>5. pc[e] \notin {"own", "panic"} /\ pc'[e] \notin {"own", "panic"}
  BY <1>1, <1>3 DEF Sharing
<1>6. QED
  BY <1>1, <1>2, <1>3, <1>4, <1>5, StepShared

\* The upcall is no page.
LEMMA ForkUpcallShared ==
  ASSUME IInv, SInv, IInv', NEW c \in Cpu, NEW e \in Env, ForkUpcall(c, e)
  PROVE  SInv' /\ Own!Next
<1>1. pc[e] = "upcall" /\ pc' = [pc EXCEPT ![e] = "status"] /\ UNCHANGED <<vm, kid, dup, fault>>
  BY AtIs DEF ForkUpcall
<1>2. Kept
  BY <1>1 DEF Kept
<1>3. pc'[e] = "status" /\ \A d \in Env : d # e => pc'[d] = pc[d]
  BY <1>1, Typed
<1>4. \A w \in UserVa : Beyond(e, w)'
  BY <1>1, <1>3 DEF SInv, BeyondOk, Beyond
<1>5. QED
  BY <1>1, <1>2, <1>3, <1>4, StepShared

\* The fork is over, with nothing left to give.
LEMMA ForkStatusShared ==
  ASSUME IInv, SInv, IInv', NEW c \in Cpu, NEW e \in Env, ForkStatus(c, e)
  PROVE  SInv' /\ Own!Next
<1>1. /\ pc[e] = "status" /\ pc' = [pc EXCEPT ![e] = "run"]
      /\ kid' = [kid EXCEPT ![e] = NoEnv] /\ dup' = [dup EXCEPT ![e] = 0]
      /\ UNCHANGED <<vm, fault>>
  BY AtIs DEF ForkStatus
<1>2. Kept
  BY <1>1 DEF Kept
<1>3. /\ pc'[e] = "run"
      /\ \A d \in Env : d # e => pc'[d] = pc[d] /\ kid'[d] = kid[d] /\ dup'[d] = dup[d]
  BY <1>1, Typed
<1>4. \A w \in UserVa : Beyond(e, w)'
  BY <1>3 DEF Beyond
<1>5. QED
  BY <1>1, <1>2, <1>3, <1>4, StepShared

-----------------------------------------------------------------------------
\* Steps that edit one user entry.

\* The page of the edited entry is not one that a handler copies to.
LEMMA TmpEdited ==
  ASSUME IInv, SInv, NEW b \in Env, NEW va \in UserVa, Edited(vm, vm', b, va),
         \A d \in Env : fault'[d].pc \in {"copy", "map"} =>
           /\ fault[d].pc \in {"copy", "map"}
           /\ vm'.pte[b][va].page # vm.pte[d][PFTEMP].page
  PROVE  TmpOk'
<1>1. \A d \in Env : vm'.pte[d][PFTEMP] = vm.pte[d][PFTEMP]
  <2>1. \A d \in Env : <<d, PFTEMP>> # <<b, va>>
    BY Vas
  <2>2. QED
    BY <2>1, Vas DEF Edited
<1>2. \A d \in Env, w \in UserVa : <<d, w>> # <<b, va>> => vm'.pte[d][w] = vm.pte[d][w]
  BY Vas DEF Edited
<1> SUFFICES ASSUME NEW x \in Env, fault'[x].pc \in {"copy", "map"}
             PROVE  /\ \A d \in Env, w \in UserVa : vm'.pte[d][w].page # vm'.pte[x][PFTEMP].page
                    /\ \A d \in Env : d # x /\ fault'[d].pc \in {"copy", "map"} =>
                         vm'.pte[d][PFTEMP].page # vm'.pte[x][PFTEMP].page
  BY DEF TmpOk
<1>3. ASSUME NEW d \in Env, NEW w \in UserVa
      PROVE  vm'.pte[d][w].page # vm'.pte[x][PFTEMP].page
  <2>1. CASE <<d, w>> = <<b, va>>
    BY <1>1, <2>1
  <2>2. CASE <<d, w>> # <<b, va>>
    BY <1>1, <1>2, <2>2 DEF SInv, TmpOk
  <2>3. QED
    BY <2>1, <2>2
<1>4. ASSUME NEW d \in Env, d # x, fault'[d].pc \in {"copy", "map"}
      PROVE  vm'.pte[d][PFTEMP].page # vm'.pte[x][PFTEMP].page
  BY <1>1, <1>4 DEF SInv, TmpOk
<1>5. QED
  BY <1>3, <1>4

\* A program gives up a cell.
LEMMA UnmapShared ==
  ASSUME IInv, SInv, IInv', NEW c \in Cpu, NEW e \in Env, NEW va \in UserVa,
         Unmap(c, e, va), Edited(vm, vm', e, va), IsRemoved(vm, vm', e, va)
  PROVE  SInv' /\ Own!Next
<1>1. /\ cur[c] = e /\ status[e] = "ready" /\ pc[e] = "run"
      /\ UNCHANGED <<kid, dup, pc, fault>>
  BY AtIs DEF Unmap, prog
<1>2. kid[e] = NoEnv
  BY <1>1 DEF IInv, KidsOk
<1>3. /\ vm'.pte[e][va].page = NoPage /\ Kept
      /\ \A d \in Env, w \in UserVa : <<d, w>> # <<e, va>> => vm'.pte[d][w] = vm.pte[d][w]
  BY Vas DEF IsRemoved, Edited, Kept
<1>4. BeyondOk'
  <2> SUFFICES ASSUME NEW x \in Env, NEW w \in UserVa PROVE Beyond(x, w)'
    BY DEF BeyondOk
  <2>1. CASE x = e
    BY <1>1, <2>1 DEF Beyond
  <2>2. CASE x # e
    BY <1>1, <2>2, Vas, BeyondOthers DEF SInv
  <2>3. QED
    BY <2>1, <2>2
<1>5. TmpOk'
  <2>1. \A d \in Env : fault'[d].pc \in {"copy", "map"} =>
           fault[d].pc \in {"copy", "map"} /\ vm'.pte[e][va].page # vm.pte[d][PFTEMP].page
    BY <1>1, <1>3 DEF IInv, FaultOk
  <2>2. QED
    BY <2>1, TmpEdited
<1>6. Exclusive'
  BY <1>1, <1>3 DEF SInv, Exclusive
<1>7. ASSUME NEW d \in Env, NEW w \in UserVa, <<d, w>> # <<e, va>>
      PROVE  Cell(d, w)' = Cell(d, w)
  <2>1. ASSUME NEW p \in Env PROVE Giving(p, d, w)' <=> Giving(p, d, w)
    <3>1. CASE p = e
      BY <1>1, <1>2, <3>1, PagesAssumption DEF Giving
    <3>2. CASE p # e
      <4>1. vm'.pte[p][w] = vm.pte[p][w] /\ vm'.pte[d][w] = vm.pte[d][w]
        BY <1>3, <1>7, <3>2
      <4>2. QED
        BY <1>1, <4>1 DEF Giving
    <3>3. QED
      BY <3>1, <3>2
  <2>2. vm'.pte[d][w].page = vm.pte[d][w].page
    BY <1>3, <1>7
  <2>3. QED
    BY <1>3, <2>1, <2>2, CellKept
<1>8. Own!Next
  BY <1>1, <1>7, OneCell
<1>9. QED
  BY <1>4, <1>5, <1>6, <1>8 DEF SInv

\* The copy takes the place of the shared page.
LEMMA FaultMapShared ==
  ASSUME IInv, SInv, IInv', NEW c \in Cpu, NEW e \in Env, FaultMap(c, e),
         Edited(vm, vm', e, fault[e].va)
  PROVE  SInv' /\ Own!Next
<1> DEFINE va == fault[e].va
           r == SysPageMap(vm, c, e, PFTEMP, e, va, "w")
           p == vm.pte[e][PFTEMP].page
<1>1. /\ cur[c] = e /\ status[e] = "ready" /\ fault[e].pc = "map"
      /\ fault' = [fault EXCEPT ![e] = IF r.ok THEN NoFault ELSE @]
      /\ UNCHANGED <<kid, dup>>
      /\ Returns(e, r, pc[e]) /\ pc[e] \in Pcs
  BY Typed DEF FaultMap, Handles, Runs
<1>2. /\ va \in UserVa /\ va \in Va /\ PFTEMP \in Va /\ vm.pte[e][va].perm = "cow"
  BY <1>1, Vas DEF IInv, FaultOk
<1>3. MapOk(vm, r, e, PFTEMP, e, va, "w")
  <2>1. "w" \in Perms /\ Alone(c, e) /\ MemOk(vm, {})
    BY <1>1, Typed, CpuAlone DEF Perms
  <2> HIDE DEF va
  <2>2. QED
    BY <1>2, <2>1, SysPageMapOk
<1> HIDE DEF r
<1>4. /\ vm' = r.vm /\ pc'[e] = IF r.ok THEN pc[e] ELSE "panic"
      /\ \A d \in Env : d # e => pc'[d] = pc[d]
  BY <1>1, ReturnsIs
<1>5. CASE ~r.ok
  <2>1. vm' = vm /\ fault' = fault /\ pc'[e] = "panic"
    BY <1>1, <1>3, <1>4, <1>5, Typed DEF MapOk
  <2>2. QED
    BY <1>1, <1>4, <2>1, PanicShared
<1>6. CASE r.ok
  <2>1. /\ p \in Page /\ vm'.pte[e][va].page = p /\ vm'.pte[e][va].perm = "w"
        /\ \A d \in Env : pc'[d] = pc[d] /\ kid'[d] = kid[d] /\ dup'[d] = dup[d]
    BY <1>1, <1>3, <1>4, <1>6 DEF MapOk
  <2>2. /\ fault'[e].pc = "none"
        /\ \A d \in Env : d # e => fault'[d] = fault[d]
    BY <1>1, <1>6, Typed DEF NoFault
  <2>3. Edited(vm, vm', e, va)
    OBVIOUS
  <2>4. \A d \in Env, w \in UserVa : vm.pte[d][w].page # p
    BY <1>1 DEF SInv, TmpOk
  <2>5. \A d \in Env : d # e /\ fault[d].pc \in {"copy", "map"} => vm.pte[d][PFTEMP].page # p
    BY <1>1 DEF SInv, TmpOk
  <2> HIDE DEF p, va
  <2>6. /\ Kept
        /\ \A d \in Env, w \in UserVa : <<d, w>> # <<e, va>> => vm'.pte[d][w] = vm.pte[d][w]
    BY <2>3, Vas DEF Edited, Kept
  <2>7. BeyondOk'
    <3> SUFFICES ASSUME NEW x \in Env, NEW w \in UserVa PROVE Beyond(x, w)'
      BY DEF BeyondOk
    <3>1. CASE x = e
      <4>1. CASE pc[e] \in ForkPcs
        <5>1. kid[e] \in Env /\ kid[e] # e /\ (pc[e] = "ro" => dup[e] \in UserVa)
          BY <1>1, <4>1, Typed, NotKid DEF IInv, KidsOk
        <5>2. Beyond(e, w)
          BY DEF SInv, BeyondOk
        <5>3. vm'.pte[kid[e]][w] = vm.pte[kid[e]][w]
          BY <2>6, <5>1
        <5>4. pc[e] = "ro" => vm'.pte[e][dup[e]] = vm.pte[e][dup[e]]
          <6>1. pc[e] = "ro" => dup[e] # va
            BY <1>2, <5>2 DEF Beyond
          <6>2. QED
            BY <2>6, <5>1, <6>1
        <5>5. QED
          BY <2>1, <3>1, <5>2, <5>3, <5>4 DEF Beyond
      <4>2. CASE pc[e] \notin ForkPcs
        BY <2>1, <3>1, <4>2 DEF Beyond, ForkPcs
      <4>3. QED
        BY <4>1, <4>2
    <3>2. CASE x # e
      BY <1>1, <1>2, <2>1, <2>3, <3>2, BeyondOthers DEF SInv
    <3>3. QED
      BY <3>1, <3>2
  <2>8. TmpOk'
    <3>1. \A d \in Env : fault'[d].pc \in {"copy", "map"} =>
             fault[d].pc \in {"copy", "map"} /\ vm'.pte[e][va].page # vm.pte[d][PFTEMP].page
      BY <2>1, <2>2, <2>5
    <3>2. QED
      BY <1>2, <2>3, <3>1, TmpEdited
  <2>9. Exclusive'
    <3> SUFFICES ASSUME NEW x \in Env, NEW xv \in UserVa,
                        vm'.pte[x][xv].page # NoPage, vm'.pte[x][xv].perm = "w",
                        NEW d \in Env, NEW w \in UserVa,
                        <<d, w>> # <<x, xv>>, vm'.pte[d][w].page = vm'.pte[x][xv].page
                 PROVE  pc'[x] \in {"own", "panic"} /\ kid'[x] = d /\ dup'[x] = xv /\ w = xv
      BY DEF Exclusive
    <3>1. <<x, xv>> # <<e, va>> /\ <<d, w>> # <<e, va>>
      BY <2>1, <2>4, <2>6
    <3>2. vm'.pte[x][xv] = vm.pte[x][xv] /\ vm'.pte[d][w] = vm.pte[d][w]
      BY <2>6, <3>1
    <3>3. QED
      BY <2>1, <3>2 DEF SInv, Exclusive
  <2>10. ASSUME NEW d \in Env, NEW w \in UserVa, <<d, w>> # <<e, va>>
         PROVE  Cell(d, w)' = Cell(d, w)
    <3>1. vm'.pte[d][w] = vm.pte[d][w]
      BY <2>6, <2>10
    <3>2. ASSUME NEW b \in Env PROVE Giving(b, d, w)' <=> Giving(b, d, w)
      <4>1. CASE <<b, w>> = <<e, va>>
        <5>1. ~Giving(b, d, w)
          BY <1>2, <4>1 DEF Giving
        <5>2. vm'.pte[b][w].page # vm'.pte[d][w].page
          BY <2>1, <2>4, <3>1, <4>1
        <5>3. ~Giving(b, d, w)'
          BY <5>2 DEF Giving
        <5>4. QED
          BY <5>1, <5>3
      <4>2. CASE <<b, w>> # <<e, va>>
        BY <2>1, <2>6, <3>1, <4>2 DEF Giving
      <4>3. QED
        BY <4>1, <4>2
    <3>3. QED
      BY <2>6, <3>1, <3>2, CellKept
  <2>11. Own!Next
    BY <1>1, <1>2, <2>10, OneCell
  <2>12. QED
    BY <2>7, <2>8, <2>9, <2>11 DEF SInv
<1>7. QED
  BY <1>5, <1>6

\* fork maps the parent's page at addr in the child: read-only and done with
\* addr, or copy-on-write and the parent's own mapping is next.
LEMMA GiveShared ==
  ASSUME IInv, SInv, IInv', NEW c \in Cpu, NEW e \in Env, cur[c] = e, status[e] = "ready",
         NEW k \in Env, kid[e] = k, NEW va \in UserVa, dup[e] = va,
         Edited(vm, vm', k, va), vm.pte[e][va].page # NoPage,
         vm'.pte[k][va].page = vm.pte[e][va].page, vm'.pte[k][va].perm # "w",
         UNCHANGED <<kid, fault>>,
         \A d \in Env : d # e => pc'[d] = pc[d] /\ dup'[d] = dup[d],
         \/ pc[e] = "ro" /\ pc'[e] = "dup" /\ dup'[e] = va + 1
         \/ pc[e] = "child" /\ pc'[e] = "own" /\ dup'[e] = va
  PROVE  SInv' /\ Own!Next
<1> DEFINE p == vm.pte[e][va].page
<1>1. /\ \A d \in Env : kid[d] # e
      /\ \A d \in Env : d # e => kid[d] # k
  BY PagesAssumption, NotKid DEF IInv, KidsOk
<1>2. k # e /\ pc[k] = "run" /\ pc'[k] = "run" /\ va \in Va
  <2>1. k # NoEnv /\ status[k] = "not_runnable" /\ k # e
    BY <1>1, PagesAssumption DEF IInv, KidsOk
  <2>2. QED
    BY <2>1, Vas DEF IInv, IdleOk
<1>3. /\ Kept
      /\ \A d \in Env, w \in UserVa : <<d, w>> # <<k, va>> => vm'.pte[d][w] = vm.pte[d][w]
  BY Vas DEF Edited, Kept
<1>4. vm.pte[k][va].page = NoPage
  BY PanicCell DEF SInv
<1>5. BeyondOk'
  <2> SUFFICES ASSUME NEW x \in Env, NEW w \in UserVa PROVE Beyond(x, w)'
    BY DEF BeyondOk
  <2>1. CASE x = e
    <3>1. Beyond(e, w) /\ w \in Int /\ va \in Int
      BY DEF SInv, BeyondOk, UserVa
    <3>2. w > va => vm'.pte[k][w] = vm.pte[k][w]
      BY <1>3, <3>1
    <3>3. (w >= va + 1 => w > va) /\ (w > va => w >= va)
      BY <3>1
    <3>4. QED
      BY <2>1, <3>1, <3>2, <3>3 DEF Beyond
  <2>2. CASE x # e
    BY <1>2, <2>2, BeyondOthers DEF SInv
  <2>3. QED
    BY <2>1, <2>2
<1>6. TmpOk'
  <2>1. \A d \in Env : fault'[d].pc \in {"copy", "map"} =>
           fault[d].pc \in {"copy", "map"} /\ vm'.pte[k][va].page # vm.pte[d][PFTEMP].page
    BY DEF SInv, TmpOk
  <2>2. QED
    BY <2>1, TmpEdited
<1>7. Exclusive'
  <2> SUFFICES ASSUME NEW x \in Env, NEW xv \in UserVa,
                      vm'.pte[x][xv].page # NoPage, vm'.pte[x][xv].perm = "w",
                      NEW d \in Env, NEW w \in UserVa,
                      <<d, w>> # <<x, xv>>, vm'.pte[d][w].page = vm'.pte[x][xv].page
               PROVE  pc'[x] \in {"own", "panic"} /\ kid'[x] = d /\ dup'[x] = xv /\ w = xv
    BY DEF Exclusive
  <2>1. <<x, xv>> # <<k, va>> /\ vm'.pte[x][xv] = vm.pte[x][xv]
    BY <1>3
  <2>2. CASE <<d, w>> = <<k, va>> /\ <<x, xv>> = <<e, va>>
    <3>1. pc[e] # "ro"
      BY <2>1, <2>2 DEF SInv, BeyondOk, Beyond
    <3>2. QED
      BY <2>2, <3>1
  <2>3. CASE <<d, w>> = <<k, va>> /\ <<x, xv>> # <<e, va>>
    <3>1. kid[x] = e
      BY <2>1, <2>3 DEF SInv, Exclusive
    <3>2. QED
      BY <1>1, <3>1
  <2>4. CASE <<d, w>> # <<k, va>>
    <3>1. vm'.pte[d][w] = vm.pte[d][w]
      BY <1>3, <2>4
    <3>2. pc[x] \in {"own", "panic"} /\ kid[x] = d /\ dup[x] = xv /\ w = xv
      BY <2>1, <3>1 DEF SInv, Exclusive
    <3>3. QED
      BY <3>2
  <2>5. QED
    BY <2>2, <2>3, <2>4
<1>8. ASSUME NEW d \in Env, NEW w \in UserVa, <<d, w>> # <<k, va>>
      PROVE  Cell(d, w)' = Cell(d, w)
  <2>1. vm'.pte[d][w] = vm.pte[d][w]
    BY <1>3, <1>8
  <2>2. ASSUME NEW b \in Env PROVE Giving(b, d, w)' <=> Giving(b, d, w)
    <3>1. CASE b = e
      BY <1>8, <3>1 DEF Giving
    <3>2. CASE b = k
      BY <1>2, <3>2 DEF Giving
    <3>3. CASE b # e /\ b # k
      <4>1. vm'.pte[b][w] = vm.pte[b][w]
        BY <1>3, <3>3
      <4>2. QED
        BY <2>1, <3>3, <4>1 DEF Giving
    <3>4. QED
      BY <3>1, <3>2, <3>3
  <2>3. QED
    BY <1>3, <2>1, <2>2, CellKept
<1>9. Cell(k, va) = NoVal
  BY <1>4 DEF Cell
<1>10. Own!Next
  <2>1. CASE Giving(e, k, va)'
    <3>1. Cell(k, va)' = NoVal
      BY <2>1 DEF Cell
    <3>2. \A d \in Env, w \in UserVa : Cell(d, w)' = Cell(d, w)
      BY <1>8, <1>9, <3>1
    <3>3. QED
      BY <3>2, SameMem
  <2>2. CASE ~Giving(e, k, va)'
    <3>1. \A b \in Env : ~Giving(b, k, va)'
      BY <1>1, <2>2 DEF Giving
    <3>2. \A b \in Env : ~Giving(b, e, va)
      BY <1>1 DEF Giving
    <3>3. Cell(k, va)' = vm'.data[p] /\ Cell(e, va) = vm.data[p]
      BY <3>1, <3>2 DEF Cell
    <3>4. vm'.data[p] = vm.data[p]
      <4>1. p \in Page
        BY <1>2, Typed, PteIs
      <4>2. QED
        BY <1>2, <1>3, <4>1, PageKept
    <3>5. QED
      BY <1>2, <1>8, <1>9, <3>3, <3>4, CopyCell
  <2>3. QED
    BY <2>1, <2>2
<1>11. QED
  BY <1>5, <1>6, <1>7, <1>10 DEF SInv

\* duppage's call for a read-only page copies the cell.
LEMMA ForkReadOnlyShared ==
  ASSUME IInv, SInv, IInv', NEW c \in Cpu, NEW e \in Env, ForkReadOnly(c, e),
         Edited(vm, vm', kid[e], dup[e])
  PROVE  SInv' /\ Own!Next
<1> DEFINE va == dup[e]
           k == kid[e]
           r == SysPageMap(vm, c, e, va, k, va, "ro")
<1>1. /\ cur[c] = e /\ status[e] = "ready" /\ pc[e] = "ro" /\ Returns(e, r, "dup")
      /\ dup' = [dup EXCEPT ![e] = IF r.ok THEN @ + 1 ELSE @]
      /\ UNCHANGED <<kid, fault>>
  BY AtIs DEF ForkReadOnly, NextAddr
<1>2. k # NoEnv /\ va \in UserVa /\ va \in Va /\ "ro" \in Perms /\ "dup" \in Pcs
  BY <1>1, Vas DEF IInv, KidsOk, ForkPcs, Perms, Pcs
<1>3. k \in Env /\ Alone(c, k)
  BY <1>2, KidAlone
<1>4. MapOk(vm, r, e, va, k, va, "ro")
  <2> HIDE DEF va, k
  <2>1. QED
    BY <1>2, <1>3, Typed, SysPageMapOk
<1> HIDE DEF r
<1>5. /\ vm' = r.vm /\ pc'[e] = IF r.ok THEN "dup" ELSE "panic"
      /\ \A d \in Env : d # e => pc'[d] = pc[d]
  BY <1>1, <1>2, ReturnsIs
<1>6. CASE ~r.ok
  <2>1. vm' = vm /\ pc'[e] = "panic" /\ dup' = dup
    BY <1>1, <1>4, <1>5, <1>6, Typed DEF MapOk
  <2>2. QED
    BY <1>1, <1>5, <2>1, PanicShared
<1>7. CASE r.ok
  <2>1. /\ vm.pte[e][va].page \in Page /\ vm'.pte[k][va].page = vm.pte[e][va].page
        /\ vm'.pte[k][va].perm # "w" /\ pc'[e] = "dup" /\ dup'[e] = va + 1
        /\ \A d \in Env : d # e => dup'[d] = dup[d]
    BY <1>1, <1>4, <1>5, <1>7, Typed DEF MapOk
  <2>2. Edited(vm, vm', k, va) /\ dup[e] = va /\ kid[e] = k
    OBVIOUS
  <2> HIDE DEF va, k
  <2>3. vm.pte[e][va].page # NoPage
    BY <2>1, PagesAssumption
  <2>4. QED
    BY <1>1, <1>2, <1>3, <1>5, <2>1, <2>2, <2>3, GiveShared
<1>8. QED
  BY <1>6, <1>7

\* duppage's first call: the child has the page, and the cell too when the parent
\* cannot write to it any more.
LEMMA ForkChildShared ==
  ASSUME IInv, SInv, IInv', NEW c \in Cpu, NEW e \in Env, ForkChild(c, e),
         Edited(vm, vm', kid[e], dup[e])
  PROVE  SInv' /\ Own!Next
<1> DEFINE va == dup[e]
           k == kid[e]
           r == SysPageMap(vm, c, e, va, k, va, "cow")
<1>1. /\ cur[c] = e /\ status[e] = "ready" /\ pc[e] = "child" /\ Returns(e, r, "own")
      /\ UNCHANGED <<kid, dup, fault>>
  BY AtIs DEF ForkChild
<1>2. k # NoEnv /\ va \in UserVa /\ va \in Va /\ "cow" \in Perms /\ "own" \in Pcs
  BY <1>1, Vas DEF IInv, KidsOk, ForkPcs, Perms, Pcs
<1>3. k \in Env /\ Alone(c, k)
  BY <1>2, KidAlone
<1>4. MapOk(vm, r, e, va, k, va, "cow")
  <2> HIDE DEF va, k
  <2>1. QED
    BY <1>2, <1>3, Typed, SysPageMapOk
<1> HIDE DEF r
<1>5. /\ vm' = r.vm /\ pc'[e] = IF r.ok THEN "own" ELSE "panic"
      /\ \A d \in Env : d # e => pc'[d] = pc[d]
  BY <1>1, <1>2, ReturnsIs
<1>6. CASE ~r.ok
  <2>1. vm' = vm /\ pc'[e] = "panic"
    BY <1>4, <1>5, <1>6 DEF MapOk
  <2>2. QED
    BY <1>1, <1>5, <2>1, PanicShared
<1>7. CASE r.ok
  <2>1. /\ vm.pte[e][va].page \in Page /\ vm'.pte[k][va].page = vm.pte[e][va].page
        /\ vm'.pte[k][va].perm # "w" /\ pc'[e] = "own"
    BY <1>4, <1>5, <1>7 DEF MapOk
  <2>2. Edited(vm, vm', k, va) /\ dup[e] = va /\ dup'[e] = va /\ kid[e] = k
    BY <1>1
  <2> HIDE DEF va, k
  <2>3. vm.pte[e][va].page # NoPage
    BY <2>1, PagesAssumption
  <2>4. QED
    BY <1>1, <1>2, <1>3, <1>5, <2>1, <2>2, <2>3, GiveShared
<1>8. QED
  BY <1>6, <1>7

\* The parent's own mapping becomes copy-on-write: the child's copy is complete.
LEMMA CompleteShared ==
  ASSUME IInv, SInv, IInv', NEW c \in Cpu, NEW e \in Env, cur[c] = e, status[e] = "ready",
         NEW k \in Env, kid[e] = k, NEW va \in UserVa, dup[e] = va, pc[e] = "own",
         Edited(vm, vm', e, va), NEW p \in Page, vm.pte[e][va].page = p,
         vm'.pte[e][va].page = p, vm'.pte[e][va].perm # "w",
         UNCHANGED <<kid, fault>>, pc'[e] = "dup", dup'[e] = va + 1,
         \A d \in Env : d # e => pc'[d] = pc[d] /\ dup'[d] = dup[d]
  PROVE  SInv' /\ Own!Next
<1>1. p # NoPage /\ va \in Va
  BY Vas, PagesAssumption
<1>2. /\ k # e /\ \A d \in Env : kid[d] # e
      /\ \A d \in Env : d # e => kid[d] # k
  BY PagesAssumption, NotKid DEF IInv, KidsOk
<1>3. /\ Kept
      /\ \A d \in Env, w \in UserVa : <<d, w>> # <<e, va>> => vm'.pte[d][w] = vm.pte[d][w]
  BY Vas DEF Edited, Kept
<1>4. \A d \in Env, w \in UserVa : vm'.pte[d][w].page = vm.pte[d][w].page
  <2> SUFFICES ASSUME NEW d \in Env, NEW w \in UserVa
               PROVE  vm'.pte[d][w].page = vm.pte[d][w].page
    OBVIOUS
  <2>1. CASE <<d, w>> = <<e, va>>
    BY <2>1
  <2>2. CASE <<d, w>> # <<e, va>>
    BY <1>3, <2>2
  <2>3. QED
    BY <2>1, <2>2
<1>5. BeyondOk'
  <2> SUFFICES ASSUME NEW x \in Env, NEW w \in UserVa PROVE Beyond(x, w)'
    BY DEF BeyondOk
  <2>1. CASE x = e
    <3>1. Beyond(e, w) /\ w \in Int /\ va \in Int
      BY DEF SInv, BeyondOk, UserVa
    <3>2. vm'.pte[k][w] = vm.pte[k][w]
      BY <1>2, <1>3
    <3>3. w >= va + 1 => w > va
      BY <3>1
    <3>4. QED
      BY <2>1, <3>1, <3>2, <3>3 DEF Beyond
  <2>2. CASE x # e
    BY <1>1, <2>2, BeyondOthers DEF SInv
  <2>3. QED
    BY <2>1, <2>2
<1>6. TmpOk'
  <2>1. \A d \in Env : fault'[d].pc \in {"copy", "map"} =>
           fault[d].pc \in {"copy", "map"} /\ vm'.pte[e][va].page # vm.pte[d][PFTEMP].page
    BY <1>4 DEF SInv, TmpOk
  <2>2. QED
    BY <2>1, TmpEdited
<1>7. Exclusive'
  <2> SUFFICES ASSUME NEW x \in Env, NEW xv \in UserVa,
                      vm'.pte[x][xv].page # NoPage, vm'.pte[x][xv].perm = "w",
                      NEW d \in Env, NEW w \in UserVa,
                      <<d, w>> # <<x, xv>>, vm'.pte[d][w].page = vm'.pte[x][xv].page
               PROVE  pc'[x] \in {"own", "panic"} /\ kid'[x] = d /\ dup'[x] = xv /\ w = xv
    BY DEF Exclusive
  <2>1. <<x, xv>> # <<e, va>> /\ vm'.pte[x][xv] = vm.pte[x][xv]
    BY <1>3
  <2>2. vm'.pte[d][w].page = vm.pte[d][w].page
    BY <1>4
  <2>3. pc[x] \in {"own", "panic"} /\ kid[x] = d /\ dup[x] = xv /\ w = xv
    BY <2>1, <2>2 DEF SInv, Exclusive
  <2>4. x # e
    BY <2>1, <2>3
  <2>5. QED
    BY <2>3, <2>4
<1>8. ASSUME NEW b \in Env, NEW d \in Env, NEW w \in UserVa, b # e \/ <<d, w>> # <<k, va>>
      PROVE  Giving(b, d, w)' <=> Giving(b, d, w)
  <2>1. CASE b = e
    BY <1>8, <2>1 DEF Giving
  <2>2. CASE b # e
    <3>1. vm'.pte[b][w] = vm.pte[b][w] /\ vm'.pte[d][w].page = vm.pte[d][w].page
      BY <1>3, <1>4, <2>2
    <3>2. QED
      BY <2>2, <3>1 DEF Giving
  <2>3. QED
    BY <2>1, <2>2
<1>9. ASSUME NEW d \in Env, NEW w \in UserVa, <<d, w>> # <<k, va>>
      PROVE  Cell(d, w)' = Cell(d, w)
  <2>1. \A b \in Env : Giving(b, d, w)' <=> Giving(b, d, w)
    BY <1>8, <1>9
  <2>2. QED
    BY <1>3, <1>4, <2>1, CellKept
<1>10. Own!Next
  <2>1. CASE Giving(e, k, va)
    <3>1. Cell(k, va) = NoVal /\ vm.pte[k][va].page = p
      <4>1. Cell(k, va) = NoVal
        BY <2>1 DEF Cell
      <4>2. vm.pte[k][va].page = p
        BY <2>1 DEF Giving
      <4>3. QED
        BY <4>1, <4>2
    <3>2. \A b \in Env : ~Giving(b, k, va)' /\ ~Giving(b, e, va)
      BY <1>2 DEF Giving
    <3>3. Cell(e, va) = vm.data[p] /\ Cell(k, va)' = vm'.data[p]
      BY <1>1, <1>2, <1>4, <3>1, <3>2 DEF Cell
    <3>4. vm'.data[p] = vm.data[p]
      BY <1>1, <1>3, PageKept
    <3>5. QED
      BY <1>2, <1>9, <3>1, <3>3, <3>4, CopyCell
  <2>2. CASE ~Giving(e, k, va)
    <3>1. ~Giving(e, k, va)'
      BY DEF Giving
    <3>2. \A b \in Env : Giving(b, k, va)' <=> Giving(b, k, va)
      BY <1>2, <1>8, <2>2, <3>1
    <3>3. Cell(k, va)' = Cell(k, va)
      BY <1>2, <1>3, <1>4, <3>2, CellKept
    <3>4. \A d \in Env, w \in UserVa : Cell(d, w)' = Cell(d, w)
      BY <1>9, <3>3
    <3>5. QED
      BY <3>4, SameMem
  <2>3. QED
    BY <2>1, <2>2
<1>11. QED
  BY <1>5, <1>6, <1>7, <1>10 DEF SInv

\* duppage's second call.
LEMMA ForkOwnShared ==
  ASSUME IInv, SInv, IInv', NEW c \in Cpu, NEW e \in Env, ForkOwn(c, e),
         Edited(vm, vm', e, dup[e])
  PROVE  SInv' /\ Own!Next
<1> DEFINE va == dup[e]
           k == kid[e]
           r == SysPageMap(vm, c, e, va, e, va, "cow")
<1>1. /\ cur[c] = e /\ status[e] = "ready" /\ pc[e] = "own" /\ Returns(e, r, "dup")
      /\ dup' = [dup EXCEPT ![e] = IF r.ok THEN @ + 1 ELSE @]
      /\ UNCHANGED <<kid, fault>>
  BY AtIs DEF ForkOwn, NextAddr
<1>2. k # NoEnv /\ va \in UserVa /\ va \in Va /\ "cow" \in Perms /\ "dup" \in Pcs
  BY <1>1, Vas DEF IInv, KidsOk, ForkPcs, Perms, Pcs
<1>3. k \in Env
  BY <1>2, Typed
<1>4. MapOk(vm, r, e, va, e, va, "cow")
  <2>1. Alone(c, e)
    BY <1>1, CpuAlone
  <2> HIDE DEF va
  <2>2. QED
    BY <1>2, <2>1, Typed, SysPageMapOk
<1> HIDE DEF r
<1>5. /\ vm' = r.vm /\ pc'[e] = IF r.ok THEN "dup" ELSE "panic"
      /\ \A d \in Env : d # e => pc'[d] = pc[d]
  BY <1>1, <1>2, ReturnsIs
<1>6. CASE ~r.ok
  <2>1. vm' = vm /\ pc'[e] = "panic" /\ dup' = dup
    BY <1>1, <1>4, <1>5, <1>6, Typed DEF MapOk
  <2>2. QED
    BY <1>1, <1>5, <2>1, PanicShared
<1>7. CASE r.ok
  <2>1. /\ vm.pte[e][va].page \in Page /\ vm'.pte[e][va].page = vm.pte[e][va].page
        /\ vm'.pte[e][va].perm # "w" /\ pc'[e] = "dup" /\ dup'[e] = va + 1
        /\ \A d \in Env : d # e => dup'[d] = dup[d]
    BY <1>1, <1>4, <1>5, <1>7, Typed DEF MapOk
  <2>2. Edited(vm, vm', e, va) /\ dup[e] = va /\ kid[e] = k
    OBVIOUS
  <2> HIDE DEF va, k
  <2>3. QED
    BY <1>1, <1>2, <1>3, <1>5, <2>1, <2>2, CompleteShared
<1>8. QED
  BY <1>6, <1>7

\* An environment ends.  A child that it was forking keeps what it was given.
LEMMA FreedShared ==
  ASSUME IInv, SInv, IInv', NEW c \in Cpu, NEW e \in Env, status[e] \in {"ready", "dying"},
         Alone(c, e), Freed(c, e)
  PROVE  SInv' /\ Own!Next
<1>1. IsFreed(vm, vm', c, e)
  <2>1. vm' = EnvFree(vm, c, e) /\ vm.dir[e] # NoPage
    BY DEF Freed, IInv, DirsOk
  <2>2. QED
    BY <2>1, Typed, EnvFreeOk
<1>2. /\ \A w \in Va : vm'.pte[e][w].page = NoPage
      /\ \A d \in Env, w \in Va : d # e => vm'.pte[d][w] = vm.pte[d][w]
      /\ Kept
  BY <1>1 DEF IsFreed, Kept
<1>3. /\ pc'[e] = "run" /\ fault'[e].pc = "none"
      /\ \A d \in Env : d # e => /\ pc'[d] = pc[d] /\ kid'[d] = kid[d] /\ dup'[d] = dup[d]
                                 /\ fault'[d] = fault[d]
  BY Typed DEF Freed, NoFault
<1>4. \A d \in Env : kid[d] # e
  BY NotKid
<1>5. BeyondOk'
  <2> SUFFICES ASSUME NEW x \in Env, NEW w \in UserVa PROVE Beyond(x, w)'
    BY DEF BeyondOk
  <2>1. CASE x = e
    BY <1>3, <2>1 DEF Beyond
  <2>2. CASE x # e /\ pc[x] \in ForkPcs
    <3>1. kid[x] \in Env /\ kid[x] # e /\ (pc[x] = "ro" => dup[x] \in Va)
      BY <1>4, <2>2, Typed, Vas DEF IInv, KidsOk
    <3>2. Beyond(x, w)
      BY DEF SInv, BeyondOk
    <3>3. vm'.pte[kid[x]][w] = vm.pte[kid[x]][w]
      BY <1>2, <3>1, Vas
    <3>4. pc[x] = "ro" => vm'.pte[x][dup[x]] = vm.pte[x][dup[x]]
      BY <1>2, <2>2, <3>1
    <3>5. QED
      BY <1>3, <2>2, <3>2, <3>3, <3>4 DEF Beyond
  <2>3. CASE x # e /\ pc[x] \notin ForkPcs
    BY <1>3, <2>3 DEF Beyond, ForkPcs
  <2>4. QED
    BY <2>1, <2>2, <2>3
<1>6. TmpOk'
  <2> SUFFICES ASSUME NEW x \in Env, fault'[x].pc \in {"copy", "map"}
               PROVE  /\ \A d \in Env, w \in UserVa : vm'.pte[d][w].page # vm'.pte[x][PFTEMP].page
                      /\ \A d \in Env : d # x /\ fault'[d].pc \in {"copy", "map"} =>
                           vm'.pte[d][PFTEMP].page # vm'.pte[x][PFTEMP].page
    BY DEF TmpOk
  <2>1. /\ x # e /\ fault[x].pc \in {"copy", "map"}
        /\ vm'.pte[x][PFTEMP] = vm.pte[x][PFTEMP] /\ vm.pte[x][PFTEMP].page # NoPage
    BY <1>2, <1>3, Vas DEF IInv, FaultOk
  <2>2. ASSUME NEW d \in Env, NEW w \in UserVa
        PROVE  vm'.pte[d][w].page # vm'.pte[x][PFTEMP].page
    <3>1. CASE d = e
      BY <1>2, <2>1, <3>1, Vas
    <3>2. CASE d # e
      BY <1>2, <2>1, <3>2, Vas DEF SInv, TmpOk
    <3>3. QED
      BY <3>1, <3>2
  <2>3. ASSUME NEW d \in Env, d # x, fault'[d].pc \in {"copy", "map"}
        PROVE  vm'.pte[d][PFTEMP].page # vm'.pte[x][PFTEMP].page
    <3>1. d # e /\ fault[d].pc \in {"copy", "map"} /\ vm'.pte[d][PFTEMP] = vm.pte[d][PFTEMP]
      BY <1>2, <1>3, <2>3, Vas
    <3>2. QED
      BY <2>1, <2>3, <3>1 DEF SInv, TmpOk
  <2>4. QED
    BY <2>2, <2>3
<1>7. Exclusive'
  <2> SUFFICES ASSUME NEW x \in Env, NEW xv \in UserVa,
                      vm'.pte[x][xv].page # NoPage, vm'.pte[x][xv].perm = "w",
                      NEW d \in Env, NEW w \in UserVa,
                      <<d, w>> # <<x, xv>>, vm'.pte[d][w].page = vm'.pte[x][xv].page
               PROVE  pc'[x] \in {"own", "panic"} /\ kid'[x] = d /\ dup'[x] = xv /\ w = xv
    BY DEF Exclusive
  <2>1. x # e /\ d # e
    BY <1>2, Vas
  <2>2. vm'.pte[x][xv] = vm.pte[x][xv] /\ vm'.pte[d][w] = vm.pte[d][w]
    BY <1>2, <2>1, Vas
  <2>3. pc[x] \in {"own", "panic"} /\ kid[x] = d /\ dup[x] = xv /\ w = xv
    BY <2>2 DEF SInv, Exclusive
  <2>4. QED
    BY <1>3, <2>1, <2>3
<1>8. ASSUME NEW w \in UserVa PROVE Cell(e, w)' = NoVal
  BY <1>2, Vas DEF Cell
<1>9. ASSUME NEW d \in Env, d # e, NEW w \in UserVa,
             vm.pte[d][w].page = NoPage \/ ~Giving(e, d, w)
      PROVE  Cell(d, w)' = Cell(d, w)
  <2>1. vm'.pte[d][w] = vm.pte[d][w]
    BY <1>2, <1>9, Vas
  <2>2. ASSUME vm.pte[d][w].page # NoPage, NEW b \in Env
        PROVE  Giving(b, d, w)' <=> Giving(b, d, w)
    <3>1. CASE b = e
      BY <1>3, <1>9, <2>2, <3>1 DEF Giving
    <3>2. CASE b # e
      <4>1. vm'.pte[b][w] = vm.pte[b][w]
        BY <1>2, <3>2, Vas
      <4>2. QED
        BY <1>3, <2>1, <3>2, <4>1 DEF Giving
    <3>3. QED
      BY <3>1, <3>2
  <2>3. QED
    BY <1>2, <2>1, <2>2, CellKept
<1>10. Own!Next
  <2>1. CASE \A d \in Env, w \in UserVa : vm.pte[d][w].page = NoPage \/ ~Giving(e, d, w)
    BY <1>8, <1>9, <2>1, EndCells
  <2>2. CASE \E d \in Env, w \in UserVa : vm.pte[d][w].page # NoPage /\ Giving(e, d, w)
    <3>1. PICK k \in Env, va \in UserVa : vm.pte[k][va].page # NoPage /\ Giving(e, k, va)
      BY <2>2
    <3> DEFINE p == vm.pte[k][va].page
    <3>2. kid[e] = k /\ dup[e] = va /\ vm.pte[e][va].page = p
      BY <3>1 DEF Giving
    <3>3. k # e /\ va \in Va /\ \A d \in Env : d # e => kid[d] # k
      BY <1>4, <3>2, Vas, PagesAssumption DEF IInv, KidsOk
    <3>4. Cell(k, va) = NoVal
      BY <3>1 DEF Cell
    <3>5. Cell(k, va)' = Cell(e, va)
      <4>1. vm'.pte[k][va] = vm.pte[k][va]
        BY <1>2, <3>3
      <4>2. \A b \in Env : ~Giving(b, k, va)' /\ ~Giving(b, e, va)
        BY <1>3, <1>4, <3>3 DEF Giving
      <4>3. Cell(k, va)' = vm'.data[p] /\ Cell(e, va) = vm.data[p]
        BY <3>1, <3>2, <4>1, <4>2 DEF Cell
      <4>4. p \in Page
        BY <3>1, <3>3, Typed, PteIs
      <4> HIDE DEF p
      <4>5. vm'.data[p] = vm.data[p]
        BY <1>2, <3>2, <3>3, <4>1, <4>4, PageKept DEF p
      <4>6. QED
        BY <4>3, <4>5
    <3>6. ASSUME NEW d \in Env, NEW w \in UserVa, d # e, <<d, w>> # <<k, va>>
          PROVE  Cell(d, w)' = Cell(d, w)
      <4>1. ~Giving(e, d, w)
        BY <3>2, <3>6 DEF Giving
      <4>2. QED
        BY <1>9, <3>6, <4>1
    <3>7. \E k1 \in Env, v1 \in UserVa :
            /\ k1 # e /\ Cell(k1, v1) = NoVal /\ Cell(k1, v1)' = Cell(e, v1)
            /\ \A d \in Env, w \in UserVa :
                 d # e /\ <<d, w>> # <<k1, v1>> => Cell(d, w)' = Cell(d, w)
      BY <3>3, <3>4, <3>5, <3>6
    <3>8. QED
      BY <1>8, <3>7, EndCells
  <2>3. QED
    BY <2>1, <2>2
<1>11. QED
  BY <1>5, <1>6, <1>7, <1>10 DEF SInv

\* A fault enters the handler, or ends the program.
LEMMA PageFaultShared ==
  ASSUME IInv, SInv, IInv', NEW c \in Cpu, NEW e \in Env, NEW va \in UserVa,
         PageFault(c, e, va)
  PROVE  SInv' /\ Own!Next
<1>1. cur[c] = e /\ va \in Va /\ status[e] = "ready"
  BY Vas DEF PageFault, Runs
<1>2. CASE upcall[e] /\ vm.pte[e][UXSTACK].perm = "w"
  BY <1>1, <1>2, EnterShared DEF PageFault
<1>3. CASE ~(upcall[e] /\ vm.pte[e][UXSTACK].perm = "w")
  <2>1. Freed(c, e)
    BY <1>3 DEF PageFault
  <2>2. QED
    BY <1>1, <2>1, CpuAlone, FreedShared
<1>4. QED
  BY <1>2, <1>3

\* A child ends, or becomes a zombie.
LEMMA DestroyShared ==
  ASSUME IInv, SInv, IInv', NEW c \in Cpu, NEW e \in Env, NEW victim \in Env,
         Destroy(c, e, victim)
  PROVE  SInv' /\ Own!Next
<1>1. CASE \E d \in Cpu : cur[d] = victim
  <2>1. UNCHANGED <<vm, kid, dup, pc, fault>>
    BY <1>1 DEF Destroy, prog
  <2>2. QED
    BY <2>1, ZombieShared
<1>2. CASE ~ \E d \in Cpu : cur[d] = victim
  <2>1. Freed(c, victim) /\ status[victim] = "ready"
    BY <1>2 DEF Destroy
  <2>2. Alone(c, victim)
    BY <1>2, Typed DEF Alone
  <2>3. QED
    BY <2>1, <2>2, FreedShared
<1>3. QED
  BY <1>1, <1>2

\* Every call of fork.
LEMMA ForkShared ==
  ASSUME IInv, SInv, IInv', NEW c \in Cpu, NEW e \in Env, Fork(c, e), ops' \in 0 .. MaxOps
  PROVE  SInv' /\ Own!Next
<1>1. CASE ForkExofork(c, e) \/ ForkDup(c, e) \/ ForkUpcall(c, e) \/ ForkStatus(c, e)
  BY <1>1, ForkExoforkShared, ForkDupShared, ForkUpcallShared, ForkStatusShared
<1>2. CASE ForkReadOnly(c, e)
  BY <1>2, ForkReadOnlyInv, ForkReadOnlyShared
<1>3. CASE ForkChild(c, e)
  BY <1>3, ForkChildInv, ForkChildShared
<1>4. CASE ForkOwn(c, e)
  BY <1>4, ForkOwnInv, ForkOwnShared
<1>5. CASE ForkUx(c, e)
  BY <1>5, ForkUxInv, ForkUxShared
<1>6. QED
  BY <1>1, <1>2, <1>3, <1>4, <1>5 DEF Fork

\* Every step that is not counted.
LEMMA OtherShared ==
  ASSUME IInv, SInv, IInv', Other, ops' \in 0 .. MaxOps
  PROVE  SInv' /\ Own!Next
<1>1. CASE \E c \in Cpu : Reap(c)
  <2>1. PICK c \in Cpu : Reap(c)
    BY <1>1
  <2>2. cur[c] \in Env /\ status[cur[c]] = "dying" /\ Freed(c, cur[c])
    BY <2>1, Typed DEF Reap
  <2>3. Alone(c, cur[c])
    BY <2>2, CpuAlone
  <2>4. QED
    BY <2>2, <2>3, FreedShared
<1>2. CASE \E c \in Cpu, e \in Env \cup {NoEnv} : Switch(c, e)
  BY <1>2, SwitchShared
<1>3. CASE \E c \in Cpu, e \in Env : Exit(c, e) \/ Fork(c, e)
  <2>1. PICK c \in Cpu, e \in Env : Exit(c, e) \/ Fork(c, e)
    BY <1>3
  <2>2. CASE Exit(c, e)
    <3>1. cur[c] = e /\ status[e] = "ready" /\ Freed(c, e)
      BY <2>2, AtIs DEF Exit
    <3>2. QED
      BY <3>1, CpuAlone, FreedShared
  <2>3. QED
    BY <2>1, <2>2, ForkShared
<1>4. CASE \E c \in Cpu, e \in Env : FaultAlloc(c, e) \/ FaultCopy(c, e) \/ FaultMap(c, e)
  <2>1. PICK c \in Cpu, e \in Env : FaultAlloc(c, e) \/ FaultCopy(c, e) \/ FaultMap(c, e)
    BY <1>4
  <2>2. CASE FaultAlloc(c, e)
    BY <2>2, FaultAllocShared
  <2>3. CASE FaultCopy(c, e)
    BY <2>3, FaultCopyInv, FaultCopyShared
  <2>4. CASE FaultMap(c, e)
    BY <2>4, FaultMapInv, FaultMapShared
  <2>5. QED
    BY <2>1, <2>2, <2>3, <2>4
<1>5. CASE \E c \in Cpu, e, victim \in Env : Destroy(c, e, victim)
  BY <1>5, DestroyShared
<1>6. CASE \E c \in Cpu, e \in Env, va \in UserVa :
             Unmap(c, e, va) \/ \E v \in Val : Write(c, e, va, v)
  BY <1>6, UnmapInv, UnmapShared, WriteInv, WriteShared
<1>7. QED
  BY <1>1, <1>2, <1>3, <1>4, <1>5, <1>6 DEF Other

\* Every step keeps sharing in order, and is a step of OwnMemory or a stutter.
LEMMA NextShared ==
  ASSUME IInv, SInv, [Next]_vars
  PROVE  SInv' /\ (Own!Next \/ UNCHANGED <<Mem, {e \in Env : \E c \in Cpu : cur[c] = e}>>)
<1>1. IInv'
  BY NextInv
<1>2. CASE UNCHANGED vars
  <2>1. UNCHANGED <<vm, cur, kid, dup, pc, fault>>
    BY <1>2 DEF vars, prog
  <2>2. SInv'
    BY <1>1, <2>1, ZombieShared
  <2>3. Mem' = Mem
    BY <2>1 DEF Mem, HandedOver
  <2>4. QED
    BY <2>1, <2>2, <2>3
<1>3. CASE Counted /\ \E c \in Cpu, e \in Env : Begin(c, e)
  <2>1. ops' \in 0 .. MaxOps
    BY <1>3, Typed, PagesAssumption DEF Counted
  <2>2. QED
    BY <1>1, <1>3, <2>1, ForkHandlerInv, ForkHandlerShared, PageFaultShared DEF Begin
<1>4. CASE UNCHANGED ops /\ Other
  BY <1>1, <1>4, Typed, OtherShared
<1>5. QED
  BY <1>2, <1>3, <1>4 DEF Next

\* The sharing of pages stays in order, in every behaviour.
THEOREM SharingKept == Spec => []SInv
<1>1. Init => SInv
  BY SharedInit
<1>2. IInv /\ SInv /\ [Next]_vars => SInv'
  BY NextShared
<1>3. QED
  BY <1>1, <1>2, PagesInvariant, PTL DEF Spec

\* Copy on write keeps what fork promises: memory behaves as if every environment
\* had its own.
THEOREM ImplementsOwnMemoryHolds == Spec => ImplementsOwnMemory
<1>1. Init => Own!Init
  <2> SUFFICES ASSUME Init PROVE Own!Init
    OBVIOUS
  <2>1. ASSUME NEW d \in Env, NEW w \in UserVa PROVE Cell(d, w) \in Val \cup {NoVal}
    <3>1. vm.pte[d][w].page # NoPage => vm.data[vm.pte[d][w].page] \in Val \cup {NoVal}
      <4>1. IInv /\ w \in Va
        BY InitInv, Vas
      <4>2. vm \in VmType
        BY <4>1, Typed
      <4>3. vm.pte[d][w].page # NoPage => vm.pte[d][w].page \in Page
        BY <4>1, <4>2, PteIs
      <4>4. QED
        BY <4>2, <4>3 DEF VmType
    <3>2. QED
      BY <3>1 DEF Cell
  <2>2. Mem \in [Env -> [UserVa -> Val \cup {NoVal}]]
    BY <2>1, MemIs
  <2>3. QED
    BY <2>2 DEF Own!Init
<1>2. IInv /\ SInv /\ [Next]_vars
      => [Own!Next]_<<Mem, {e \in Env : \E c \in Cpu : cur[c] = e}>>
  BY NextShared
<1>3. QED
  BY <1>1, <1>2, PagesInvariant, SharingKept, PTL DEF Spec, ImplementsOwnMemory, Own!Spec
=============================================================================
