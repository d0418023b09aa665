--------------------------- MODULE FileServerProofs ---------------------------
(***************************************************************************)
(* For any clients, descriptors, entries and files: an id that the server  *)
(* accepts is for the file its client opened, and a descriptor that shares *)
(* the server's page stays valid.                                          *)
(***************************************************************************)
EXTENDS FileServer, FiniteSetTheorems, NaturalsInduction, TLAPS

\* A descriptor: TypeOK says it with quantifiers.
FdValue == {NoFd} \cup {Shared(s, p) : s \in Slot, p \in Perms}
                  \cup {Private(fd) : fd \in FdPage}

Types ==
  /\ files \in [File -> Name \cup {NoFile}]
  /\ opentab \in [Slot -> [gen : 0 .. MaxOpens, file : File]]
  /\ fdpage \in [Slot -> FdPage]
  /\ fds \in [Client -> [Fdnum -> FdValue]]
  /\ fsipcbuf \in [Client -> Perms]
  /\ pc \in [Client -> {"none", "run", "sent", "recv", "unmap", "panic"}]
  /\ req \in [Client -> Requests \cup {NoReq}]
  /\ server \in [pc : {"recv", "serve", "reply"}, whom : Client, slot : 0 .. MAXOPEN]

\* The entry of slot s is the one its Fd page was made for.
Current(s) ==
  /\ opentab[s].gen # 0
  /\ fdpage[s].id = [slot |-> s, gen |-> opentab[s].gen]

\* A request under way: its client waits, an open has room, and the page of an
\* answer is current.
Served ==
  /\ \A c \in Client : pc[c] = "unmap" => req[c] \in Requests /\ req[c].type = "flush"
  /\ server.slot # 0 => server.pc = "reply" /\ Current(server.slot)
  /\ server.pc # "recv" =>
       /\ pc[server.whom] \in {"sent", "recv"}
       /\ req[server.whom] \in Requests
       /\ server.slot # 0 => req[server.whom].type = "open"
       /\ server.pc = "serve" /\ req[server.whom].type = "open" =>
            \A s \in Slot : opentab[s].gen < MaxOpens

\* What an Fd page says of its entry: the entry has not gone back, and has the
\* same file as long as it has the same id.
Honest(fd) ==
  /\ fd.id.gen <= opentab[fd.id.slot].gen
  /\ fd.id.gen = opentab[fd.id.slot].gen => fd.file = opentab[fd.id.slot].file

Pages ==
  /\ \A s \in Slot : opentab[s].gen = 0 => opentab[s].file = 1
  /\ \A s \in Slot : Honest(fdpage[s])
  /\ \A c \in Client, n \in Fdnum :
       /\ fds[c][n].page = "shared" => Current(fds[c][n].slot)
       /\ fds[c][n].page = "private" => Honest(fds[c][n].fd)

FileInv == Types /\ Served /\ Pages

-----------------------------------------------------------------------------
\* fd_alloc and openfile_alloc find one when there is one.
LEMMA MinIn ==
  ASSUME NEW S \in SUBSET Nat, S # {}
  PROVE  Min(S) \in S
<1> DEFINE less == {p \in Nat \X Nat : p[1] < p[2]}
<1>1. IsWellFoundedOn(less, Nat)
  BY NatLessThanWellFounded DEF OpToRel
<1>2. PICK m \in S : \A k \in S : <<k, m>> \notin less
  <2> HIDE DEF less
  <2> QED BY <1>1, WFMin
<1>3. ASSUME NEW k \in S, ~(m <= k) PROVE FALSE
  <2>1. k \in Nat /\ m \in Nat /\ k < m
    BY <1>3
  <2>2. <<k, m>> \in less
    BY <2>1
  <2>3. QED
    BY <1>2, <2>2
<1>4. QED
  BY <1>3 DEF Min

\* pageref counts the mappings of a page: an entry that openfile_alloc takes is
\* mapped by no client.
LEMMA UnusedUnmapped ==
  ASSUME FileInv, NEW s \in Slot, Unused(s)
  PROVE  \A c \in Client, n \in Fdnum :
           ~(fds[c][n].page = "shared" /\ fds[c][n].slot = s)
<1>1. CASE opentab[s].gen = 0
  BY <1>1 DEF FileInv, Pages, Current
<1>2. CASE opentab[s].gen # 0
  <2>1. IsFiniteSet(Client \X Fdnum)
    <3>1. IsFiniteSet(Client) /\ MAXFD \in Int
      BY FileServerAssumption
    <3>2. IsFiniteSet(Fdnum)
      BY <3>1, FS_Interval DEF Fdnum
    <3>3. QED
      BY <3>1, <3>2, FS_Product
  <2>2. Mappings(s) \in SUBSET (Client \X Fdnum)
    BY DEF Mappings
  <2>3. IsFiniteSet(Mappings(s)) /\ Cardinality(Mappings(s)) \in Nat
    BY <2>1, <2>2, FS_Subset, FS_CardinalityType
  <2>4. Cardinality(Mappings(s)) = 0
    BY <1>2, <2>3 DEF Unused, PageRef
  <2>5. Mappings(s) = {}
    BY <2>3, <2>4, FS_EmptySet
  <2>6. SUFFICES ASSUME NEW c \in Client, NEW n \in Fdnum,
                        fds[c][n].page = "shared", fds[c][n].slot = s
                 PROVE  FALSE
    OBVIOUS
  <2>7. <<c, n>> \in Mappings(s)
    BY <2>6 DEF Mappings
  <2>8. QED
    BY <2>5, <2>7
<1>3. QED
  BY <1>1, <1>2

\* The parts of a descriptor and of a request.
LEMMA FdParts ==
  ASSUME NEW v \in FdValue
  PROVE  /\ v.page = "shared" => v.slot \in Slot /\ v.perm \in Perms
                                 /\ v = Shared(v.slot, v.perm)
         /\ v.page = "private" => v.fd \in FdPage /\ v = Private(v.fd)
         /\ v # NoFd => v.page = "shared" \/ v.page = "private"
BY DEF FdValue, NoFd, Shared, Private

\* What fork makes of a descriptor.
CowFd(v) == IF v.page = "shared" THEN Shared(v.slot, "cow") ELSE v

LEMMA CowParts ==
  ASSUME NEW v \in FdValue
  PROVE  /\ CowFd(v).page = v.page
         /\ CowFd(v).page = "shared" => CowFd(v).slot = v.slot
         /\ CowFd(v).page = "private" => CowFd(v).fd = v.fd
BY DEF CowFd, Shared

LEMMA FdIds ==
  ASSUME NEW fd \in FdPage
  PROVE  fd.id.slot \in Slot /\ fd.id.gen \in Nat
<1>1. fd.id \in FileId
  BY DEF FdPage
<1>2. fd.id.slot \in Slot /\ fd.id.gen \in 0 .. MaxOpens
  BY <1>1 DEF FileId
<1>3. QED
  BY <1>2, FileServerAssumption

LEMMA RequestParts ==
  ASSUME NEW r \in Requests
  PROVE  /\ r.type = "open" => r.fd \in Fdnum /\ r.name \in Name /\ r.mode \in Modes
         /\ r.type \in {"file", "flush"} => r.fd \in Fdnum /\ r.id \in FileId
BY DEF Requests

-----------------------------------------------------------------------------
\* serve_init, and no client but the first.
LEMMA InitFileInv == Init => FileInv
<1> SUFFICES ASSUME Init PROVE FileInv
  OBVIOUS
<1>1. Types
  BY FileServerAssumption DEF Init, Types, Cleared, FdPage, FileId, Slot, File,
     Perms, FdValue, Waiting
<1>2. Served
  BY DEF Init, Served, Waiting
<1>3. Pages
  BY FileServerAssumption DEF Init, Pages, Honest, Cleared, NoFd, Slot, Fdnum
<1>4. QED
  BY <1>1, <1>2, <1>3 DEF FileInv

\* What fsipc changes: the client's request is new, and an open finds room.
LEMMA RequestInv ==
  ASSUME FileInv, NEW c \in Client, NEW r \in Requests, Request(c, r),
         r.type = "open" => \A s \in Slot : opentab[s].gen < MaxOpens
  PROVE  FileInv'
<1>1. Types'
  BY DEF FileInv, Types, Request, Perms
<1>2. Served'
  BY DEF FileInv, Types, Served, Request, Current
<1>3. Pages'
  BY DEF FileInv, Pages, Request, Current, Honest
<1>4. QED
  BY <1>1, <1>2, <1>3 DEF FileInv

\* The calls that end in fsipc send requests of their types.
LEMMA SendersInv ==
  ASSUME FileInv, NEW c \in Client,
         \/ \E name \in Name : RemoveFile(c, name)
         \/ \E name \in Name, mode \in Modes : OpenFile(c, name, mode)
         \/ \E n \in Fdnum : UseFile(c, n) \/ Close(c, n)
         \/ SyncFiles(c) /\ fsipcbuf[c] = "w"
  PROVE  FileInv'
<1>1. ASSUME NEW name \in Name, RemoveFile(c, name) PROVE FileInv'
  <2>1. [type |-> "remove", name |-> name] \in Requests
    BY DEF Requests
  <2>2. QED
    BY <1>1, <2>1, RequestInv DEF RemoveFile
<1>2. ASSUME NEW name \in Name, NEW mode \in Modes, OpenFile(c, name, mode)
      PROVE  FileInv'
  <2>1. FdAlloc(c) \in Fdnum
    BY <1>2, MinIn DEF OpenFile, FdAlloc, FreeFds, Fdnum
  <2>2. [type |-> "open", fd |-> FdAlloc(c), name |-> name, mode |-> mode] \in Requests
    BY <2>1 DEF Requests
  <2>3. QED
    BY <1>2, <2>2, RequestInv DEF OpenFile
<1>3. ASSUME NEW n \in Fdnum, UseFile(c, n) \/ Close(c, n) PROVE FileInv'
  <2>1. Fd(c, n).id \in FileId
    BY <1>3, FdParts DEF UseFile, Close, Open, Fd, FileInv, Types, FdPage
  <2>2. /\ [type |-> "file", fd |-> n, id |-> Fd(c, n).id] \in Requests
        /\ [type |-> "flush", fd |-> n, id |-> Fd(c, n).id] \in Requests
    BY <2>1 DEF Requests
  <2>3. QED
    BY <1>3, <2>2, RequestInv DEF UseFile, Close
<1>4. ASSUME SyncFiles(c), fsipcbuf[c] = "w" PROVE FileInv'
  <2>1. [type |-> "sync"] \in Requests
    BY DEF Requests
  <2>2. Request(c, [type |-> "sync"])
    BY <1>4 DEF SyncFiles
  <2>3. QED
    BY <2>1, <2>2, RequestInv
<1>5. QED
  BY <1>1, <1>2, <1>3, <1>4

\* A step that leaves the table and its pages alone keeps Pages when every
\* descriptor is one that somebody had, or closed, or a copy of a good page.
LEMMA PagesKept ==
  ASSUME Pages, UNCHANGED <<opentab, fdpage>>,
         \A d \in Client, m \in Fdnum :
           \/ fds'[d][m].page = "none"
           \/ fds'[d][m].page = "private" /\ Honest(fds'[d][m].fd)
           \/ \E e \in Client, k \in Fdnum :
                /\ fds'[d][m].page = fds[e][k].page
                /\ fds'[d][m].page = "shared" => fds'[d][m].slot = fds[e][k].slot
                /\ fds'[d][m].page = "private" => fds'[d][m].fd = fds[e][k].fd
  PROVE  Pages'
<1>1. opentab' = opentab /\ fdpage' = fdpage
  OBVIOUS
<1>2. \A s \in Slot : /\ opentab'[s].gen = 0 => opentab'[s].file = 1
                      /\ Honest(fdpage[s])'
  BY <1>1 DEF Pages, Honest
<1>3. ASSUME NEW d \in Client, NEW m \in Fdnum
      PROVE  /\ fds'[d][m].page = "shared" => Current(fds'[d][m].slot)
             /\ fds'[d][m].page = "private" => Honest(fds'[d][m].fd)
  <2>1. CASE fds'[d][m].page = "none"
    BY <2>1
  <2>2. CASE fds'[d][m].page = "private" /\ Honest(fds'[d][m].fd)
    BY <2>2
  <2>3. ASSUME NEW e \in Client, NEW k \in Fdnum,
               fds'[d][m].page = fds[e][k].page,
               fds'[d][m].page = "shared" => fds'[d][m].slot = fds[e][k].slot,
               fds'[d][m].page = "private" => fds'[d][m].fd = fds[e][k].fd
        PROVE  /\ fds'[d][m].page = "shared" => Current(fds'[d][m].slot)
               /\ fds'[d][m].page = "private" => Honest(fds'[d][m].fd)
    <3>1. /\ fds[e][k].page = "shared" => Current(fds[e][k].slot)
          /\ fds[e][k].page = "private" => Honest(fds[e][k].fd)
      BY DEF Pages
    <3>2. ASSUME fds'[d][m].page = "shared" PROVE Current(fds'[d][m].slot)
      <4>1. fds'[d][m].slot = fds[e][k].slot /\ Current(fds[e][k].slot)
        BY <2>3, <3>1, <3>2
      <4>2. QED
        BY <4>1 DEF Current
    <3>3. ASSUME fds'[d][m].page = "private" PROVE Honest(fds'[d][m].fd)
      <4>1. fds'[d][m].fd = fds[e][k].fd /\ Honest(fds[e][k].fd)
        BY <2>3, <3>1, <3>3
      <4>2. QED
        BY <4>1 DEF Honest
    <3>4. QED
      BY <3>2, <3>3
  <2>4. QED
    BY <2>1, <2>2, <2>3
<1>4. ASSUME NEW d \in Client, NEW m \in Fdnum
      PROVE  /\ fds'[d][m].page = "shared" => Current(fds[d][m].slot)'
             /\ fds'[d][m].page = "private" => Honest(fds[d][m].fd)'
  <2>1. /\ fds'[d][m].page = "shared" => Current(fds'[d][m].slot)
        /\ fds'[d][m].page = "private" => Honest(fds'[d][m].fd)
    BY <1>3
  <2>2. fds'[d][m].page = "shared" => Current(fds[d][m].slot)'
    BY <1>1, <2>1 DEF Current
  <2>3. fds'[d][m].page = "private" => Honest(fds[d][m].fd)'
    BY <1>1, <2>1 DEF Honest
  <2>4. QED
    BY <2>2, <2>3
<1>5. QED
  BY <1>2, <1>4 DEF Pages

\* What a client does alone.
LEMMA ClientInv ==
  ASSUME FileInv, NEW c \in Client,
         Calls(c) \/ Recv(c) \/ UnmapFd(c)
  PROVE  FileInv'
<1> fds \in [Client -> [Fdnum -> FdValue]]
  BY DEF FileInv, Types
<1>1. ASSUME SyncFiles(c), fsipcbuf[c] # "w" PROVE FileInv'
  <2>1. /\ pc[c] = "run" /\ pc' = [pc EXCEPT ![c] = "panic"]
        /\ UNCHANGED <<files, opentab, fdpage, fds, fsipcbuf, req, server>>
    BY <1>1 DEF SyncFiles
  <2>2. Types'
    BY <2>1 DEF FileInv, Types
  <2>3. Served'
    BY <2>1 DEF FileInv, Types, Served, Current
  <2>4. Pages'
    BY <2>1 DEF FileInv, Pages, Current, Honest
  <2>5. QED
    BY <2>2, <2>3, <2>4 DEF FileInv
<1>2. ASSUME NEW old \in Fdnum, NEW new \in Fdnum, Dup(c, old, new) PROVE FileInv'
  <2>1. Types'
    BY <1>2 DEF Dup, FileInv, Types
  <2>2. Served'
    BY <1>2 DEF Dup, FileInv, Served, Current
  <2>3. \A d \in Client, m \in Fdnum :
          fds'[d][m] = IF d = c /\ m = new THEN fds[c][old] ELSE fds[d][m]
    BY <1>2 DEF Dup
  <2>4. Pages'
    BY <1>2, <2>3, PagesKept DEF Dup, FileInv
  <2>5. QED
    BY <2>1, <2>2, <2>4 DEF FileInv
<1>3. ASSUME NEW n \in Fdnum, Seek(c, n) PROVE FileInv'
  <2>1. fds[c][n].slot \in Slot /\ Fd(c, n) = fdpage[fds[c][n].slot]
    BY <1>3, FdParts DEF Seek, Fd, FileInv, Types
  <2>2. Fd(c, n) \in FdPage /\ Honest(Fd(c, n))
    BY <2>1 DEF FileInv, Types, Pages
  <2>3. Private(Fd(c, n)) \in FdValue
    BY <2>2 DEF FdValue
  <2>4. Types'
    BY <1>3, <2>3 DEF Seek, FileInv, Types
  <2>5. Served'
    BY <1>3 DEF Seek, FileInv, Served, Current
  <2>6. \A d \in Client, m \in Fdnum :
          fds'[d][m] = IF d = c /\ m = n THEN Private(Fd(c, n)) ELSE fds[d][m]
    BY <1>3 DEF Seek
  <2>7. Private(Fd(c, n)).page = "private" /\ Private(Fd(c, n)).fd = Fd(c, n)
    BY DEF Private
  <2>8. Pages'
    BY <1>3, <2>2, <2>6, <2>7, PagesKept DEF Seek, FileInv
  <2>9. QED
    BY <2>4, <2>5, <2>8 DEF FileInv
<1>4. ASSUME NEW child \in Client, Fork(c, child) PROVE FileInv'
  <2> DEFINE cow == [n \in Fdnum |-> IF fds[c][n].page = "shared"
                                     THEN Shared(fds[c][n].slot, "cow") ELSE fds[c][n]]
  <2>1. cow \in [Fdnum -> FdValue]
    BY FdParts DEF FileInv, Types, FdValue, Perms
  <2>2. \A n \in Fdnum : cow[n] = CowFd(fds[c][n])
    BY DEF CowFd
  <2>3. fds' = [fds EXCEPT ![c] = cow, ![child] = cow]
    BY <1>4 DEF Fork
  <2> HIDE DEF cow
  <2>4. Types'
    BY <1>4, <2>1, <2>3 DEF Fork, FileInv, Types, Perms
  <2>5. Served'
    BY <1>4 DEF Fork, FileInv, Types, Served, Current
  <2>6. \A d \in Client, m \in Fdnum :
          fds'[d][m] = IF d \in {c, child} THEN cow[m] ELSE fds[d][m]
    BY <2>3
  <2>7. ASSUME NEW d \in Client, NEW m \in Fdnum
        PROVE  \E e \in Client, k \in Fdnum :
                 /\ fds'[d][m].page = fds[e][k].page
                 /\ fds'[d][m].page = "shared" => fds'[d][m].slot = fds[e][k].slot
                 /\ fds'[d][m].page = "private" => fds'[d][m].fd = fds[e][k].fd
    <3>1. CASE d \in {c, child}
      <4>1. fds'[d][m] = CowFd(fds[c][m])
        BY <2>2, <2>6, <3>1
      <4>2. fds[c][m] \in FdValue
        OBVIOUS
      <4>3. QED
        BY <4>1, <4>2, CowParts
    <3>2. CASE d \notin {c, child}
      BY <2>6, <3>2
    <3>3. QED
      BY <3>1, <3>2
  <2>8. Pages /\ UNCHANGED <<opentab, fdpage>>
    BY <1>4 DEF Fork, FileInv
  <2>9. Pages'
    BY <2>7, <2>8, PagesKept
  <2>10. QED
    BY <2>4, <2>5, <2>9 DEF FileInv
<1>5. ASSUME End(c) PROVE FileInv'
  <2>1. Types'
    <3>1. [n \in Fdnum |-> NoFd] \in [Fdnum -> FdValue] /\ "w" \in Perms
      BY DEF FdValue, Perms
    <3>2. QED
      BY <1>5, <3>1 DEF End, FileInv, Types
  <2>2. Served'
    BY <1>5 DEF End, FileInv, Types, Served, Current
  <2>3. Pages'
    <3>1. \A d \in Client, n \in Fdnum :
            fds'[d][n] = NoFd \/ fds'[d][n] = fds[d][n]
      BY <1>5 DEF End, FileInv, Types
    <3>2. NoFd.page # "shared" /\ NoFd.page # "private"
      BY DEF NoFd
    <3>3. Pages /\ UNCHANGED <<opentab, fdpage>>
      BY <1>5 DEF End, FileInv
    <3>4. QED
      BY <3>1, <3>2, <3>3 DEF Pages, Current, Honest
  <2>4. QED
    BY <2>1, <2>2, <2>3 DEF FileInv
<1>6. ASSUME Recv(c) PROVE FileInv'
  <2>1. Types' /\ Served'
    BY <1>6 DEF Recv, FileInv, Types, Served, Current
  <2>2. Pages /\ UNCHANGED <<opentab, fdpage, fds>>
    BY <1>6 DEF Recv, FileInv
  <2>3. Pages'
    BY ONLY <2>2 DEF Pages, Current, Honest
  <2>4. QED
    BY <2>1, <2>3 DEF FileInv
<1>7. ASSUME UnmapFd(c) PROVE FileInv'
  <2>1. req[c].fd \in Fdnum
    BY <1>7, RequestParts DEF UnmapFd, FileInv, Served
  <2>2. Types'
    <3>1. NoFd \in FdValue
      BY DEF FdValue
    <3>2. fds' \in [Client -> [Fdnum -> FdValue]]
      BY <1>7, <2>1, <3>1 DEF UnmapFd
    <3>3. QED
      BY <1>7, <3>2 DEF UnmapFd, FileInv, Types
  <2>3. Served'
    BY <1>7 DEF UnmapFd, FileInv, Types, Served, Current
  <2>4. \A d \in Client, m \in Fdnum :
          fds'[d][m] = IF d = c /\ m = req[c].fd THEN NoFd ELSE fds[d][m]
    BY <1>7, <2>1 DEF UnmapFd
  <2>5. Pages'
    BY <1>7, <2>4, PagesKept DEF UnmapFd, FileInv, NoFd
  <2>6. QED
    BY <2>2, <2>3, <2>5 DEF FileInv
<1>8. QED
  BY <1>1, <1>2, <1>3, <1>4, <1>5, <1>6, <1>7, SendersInv DEF Calls

\* The answer: the page of an open is current, and mapped for the client.
LEMMA ReplyInv == ASSUME FileInv, Reply PROVE FileInv'
<1> DEFINE c == server.whom
<1> fds \in [Client -> [Fdnum -> FdValue]] /\ c \in Client
  BY DEF FileInv, Types
<1>1. req[c] \in Requests
  BY DEF Reply, FileInv, Served
<1>2. server.slot # 0 =>
        /\ server.slot \in Slot /\ Current(server.slot) /\ req[c].fd \in Fdnum
        /\ req[c].type = "open"
  BY <1>1, RequestParts DEF Reply, FileInv, Types, Served, Slot
<1>3. server.slot \in Slot => Shared(server.slot, "w") \in FdValue
  BY DEF FdValue, Perms
<1>4. Types'
  <2>1. fds' \in [Client -> [Fdnum -> FdValue]]
    BY <1>2, <1>3 DEF Reply
  <2>2. Waiting \in [pc : {"recv", "serve", "reply"}, whom : Client, slot : 0 .. MAXOPEN]
    BY FileServerAssumption DEF Waiting
  <2>3. QED
    BY <2>1, <2>2 DEF Reply, FileInv, Types
<1>5. Served'
  BY <1>1 DEF Reply, FileInv, Types, Served, Waiting
<1>6. Pages'
  <2>1. \A d \in Client, m \in Fdnum :
          fds'[d][m] = IF server.slot # 0 /\ d = c /\ m = req[c].fd
                       THEN Shared(server.slot, "w") ELSE fds[d][m]
    BY <1>2 DEF Reply
  <2>2. \A d \in Client, m \in Fdnum :
          /\ fds'[d][m].page = "shared" => Current(fds'[d][m].slot)
          /\ fds'[d][m].page = "private" => Honest(fds'[d][m].fd)
    BY <1>2, <2>1 DEF FileInv, Pages, Shared
  <2>3. UNCHANGED <<opentab, fdpage>>
    BY DEF Reply
  <2>4. QED
    BY <2>2, <2>3 DEF FileInv, Pages, Current, Honest
<1>7. QED
  BY <1>4, <1>5, <1>6 DEF FileInv

\* The handlers that leave opentab alone answer without a page.
LEMMA ServeOtherInv ==
  ASSUME FileInv, ServeFile \/ ServeRemove \/ ServeSync
  PROVE  FileInv'
<1>1. /\ server.pc = "serve" /\ server' = [server EXCEPT !.pc = "reply", !.slot = 0]
      /\ UNCHANGED <<opentab, fdpage, fds, fsipcbuf, pc, req>>
  BY DEF ServeFile, ServeRemove, ServeSync, Serving, Answer
<1>2. files' \in [File -> Name \cup {NoFile}]
  BY DEF ServeFile, ServeRemove, ServeSync, FileInv, Types
<1>3. Types'
  <2>1. 0 \in 0 .. MAXOPEN
    BY FileServerAssumption
  <2>2. server' \in [pc : {"recv", "serve", "reply"}, whom : Client, slot : 0 .. MAXOPEN]
    BY <1>1, <2>1 DEF FileInv, Types
  <2>3. QED
    BY <1>1, <1>2, <2>2 DEF FileInv, Types
<1>4. Served'
  BY <1>1 DEF FileInv, Types, Served
<1>5. Pages'
  BY <1>1 DEF FileInv, Pages, Current, Honest
<1>6. QED
  BY <1>3, <1>4, <1>5 DEF FileInv

\* openfile_alloc: entry s, which nobody maps, has its generation go up by one, and
\* its page either says so, with the entry's file, or is cleared.
LEMMA EntryTaken ==
  ASSUME FileInv, NEW s \in Slot, NEW g \in File, NEW page \in FdPage, NEW to,
         \A c \in Client, n \in Fdnum :
           ~(fds[c][n].page = "shared" /\ fds[c][n].slot = s),
         NextGen(s) \in 1 .. MaxOpens,
         \/ to = s /\ page = [id |-> [slot |-> s, gen |-> NextGen(s)], file |-> g]
         \/ to = 0 /\ page = Cleared,
         opentab' = [opentab EXCEPT ![s] = [gen |-> NextGen(s), file |-> g]],
         fdpage' = [fdpage EXCEPT ![s] = page],
         files' \in [File -> Name \cup {NoFile}],
         server.pc = "serve", req[server.whom].type = "open",
         server' = [server EXCEPT !.pc = "reply", !.slot = to],
         UNCHANGED <<fds, fsipcbuf, pc, req>>
  PROVE  FileInv'
<1>1. /\ Types /\ Served /\ Pages
      /\ opentab \in [Slot -> [gen : 0 .. MaxOpens, file : File]]
      /\ fdpage \in [Slot -> FdPage]
      /\ MaxOpens \in Nat /\ 1 \in Slot /\ Slot = 1 .. MAXOPEN /\ MAXOPEN \in Nat
  BY FileServerAssumption DEF FileInv, Types, Slot
<1>2. /\ NextGen(s) = opentab[s].gen + 1 /\ opentab[s].gen \in Nat
      /\ opentab'[s].gen = NextGen(s) /\ opentab'[s].file = g
      /\ \A t \in Slot \ {s} : opentab'[t] = opentab[t] /\ fdpage'[t] = fdpage[t]
      /\ fdpage'[s] = page
  BY <1>1 DEF NextGen
<1>3. Types'
  <2>1. opentab' \in [Slot -> [gen : 0 .. MaxOpens, file : File]]
    BY <1>1, <1>2
  <2>2. fdpage' \in [Slot -> FdPage]
    BY <1>1
  <2>3. to \in 0 .. MAXOPEN
    BY <1>1
  <2>4. server' \in [pc : {"recv", "serve", "reply"}, whom : Client, slot : 0 .. MAXOPEN]
    BY <2>3 DEF FileInv, Types
  <2>5. QED
    BY <1>1, <2>1, <2>2, <2>4 DEF Types
<1>4. to # 0 => Current(s)'
  BY <1>1, <1>2 DEF Current
<1>5. Served'
  BY <1>1, <1>4 DEF Served, Types, Current
<1>6. Honest(page)'
  <2>1. CASE to = s /\ page = [id |-> [slot |-> s, gen |-> NextGen(s)], file |-> g]
    BY <1>2, <2>1 DEF Honest
  <2>2. CASE page = Cleared
    <3>1. page.id.slot = 1 /\ page.id.gen = 0 /\ page.file = 1
      BY <2>2 DEF Cleared
    <3>2. opentab'[1].gen \in Nat /\ (opentab'[1].gen = 0 => opentab'[1].file = 1)
      BY <1>1, <1>2 DEF Pages
    <3>3. QED
      BY <3>1, <3>2 DEF Honest
  <2>3. QED
    BY <2>1, <2>2
<1>7. Pages'
  <2>1. \A t \in Slot : opentab'[t].gen = 0 => opentab'[t].file = 1
    BY <1>1, <1>2 DEF Pages
  <2>2. \A t \in Slot : Honest(fdpage[t])'
    <3>1. ASSUME NEW t \in Slot, t # s PROVE Honest(fdpage[t])'
      <4>1. fdpage[t] \in FdPage /\ Honest(fdpage[t]) /\ fdpage'[t] = fdpage[t]
        BY <1>1, <1>2, <3>1 DEF Pages
      <4>2. fdpage[t].id.slot \in Slot /\ fdpage[t].id.gen \in Nat
        BY <4>1, FdIds
      <4>3. QED
        BY <1>2, <4>1, <4>2 DEF Honest
    <3>2. Honest(fdpage[s])'
      BY <1>2, <1>6 DEF Honest
    <3>3. QED
      BY <3>1, <3>2
  <2>3. ASSUME NEW c \in Client, NEW n \in Fdnum, fds[c][n].page = "shared"
        PROVE  Current(fds[c][n].slot)'
    <3>1. fds[c][n].slot \in Slot \ {s} /\ Current(fds[c][n].slot)
      <4>1. fds[c][n] \in FdValue
        BY <1>1 DEF Types
      <4>2. fds[c][n].slot \in Slot
        BY <2>3, <4>1, FdParts
      <4>3. Current(fds[c][n].slot)
        BY <1>1, <2>3 DEF Pages
      <4>4. fds[c][n].slot # s
        BY <2>3
      <4>5. QED
        BY <4>2, <4>3, <4>4
    <3>2. QED
      BY <1>2, <3>1 DEF Current
  <2>4. ASSUME NEW c \in Client, NEW n \in Fdnum, fds[c][n].page = "private"
        PROVE  Honest(fds[c][n].fd)'
    <3>1. fds[c][n].fd \in FdPage /\ Honest(fds[c][n].fd)
      <4>1. fds[c][n] \in FdValue
        BY <1>1 DEF Types
      <4>2. fds[c][n].fd \in FdPage
        BY <2>4, <4>1, FdParts
      <4>3. Honest(fds[c][n].fd)
        BY <1>1, <2>4 DEF Pages
      <4>4. QED
        BY <4>2, <4>3
    <3>2. fds[c][n].fd.id.slot \in Slot /\ fds[c][n].fd.id.gen \in Nat
      BY <3>1, FdIds
    <3> DEFINE fd == fds[c][n].fd
    <3>3. fds' = fds /\ fd' = fd
      OBVIOUS
    <3>4. fd.id.gen <= opentab'[fd.id.slot].gen
      BY <1>2, <3>1, <3>2 DEF Honest
    <3>5. ASSUME fd.id.gen = opentab'[fd.id.slot].gen
          PROVE  fd.file = opentab'[fd.id.slot].file
      <4>1. CASE fd.id.slot = s
        BY <1>2, <3>1, <3>2, <3>5, <4>1 DEF Honest
      <4>2. CASE fd.id.slot # s
        BY <1>2, <3>1, <3>2, <3>5, <4>2 DEF Honest
      <4>3. QED
        BY <4>1, <4>2
    <3>6. fds'[c][n].fd = fd
      BY <3>3
    <3> HIDE DEF fd
    <3>7. Honest(fds[c][n].fd)' <=>
            /\ fd.id.gen <= opentab'[fd.id.slot].gen
            /\ fd.id.gen = opentab'[fd.id.slot].gen => fd.file = opentab'[fd.id.slot].file
      BY <3>6 DEF Honest
    <3>8. QED
      BY <3>4, <3>5, <3>7
  <2>5. QED
    BY <2>1, <2>2, <2>3, <2>4 DEF Pages
<1>8. QED
  BY <1>3, <1>5, <1>7 DEF FileInv

\* serve_open: the entry that is taken is mapped by nobody, so that its new id
\* makes no descriptor stale that shares its page, and every copy of an old one
\* is behind.
LEMMA ServeOpenInv == ASSUME FileInv, ServeOpen PROVE FileInv'
<1> DEFINE r == req[server.whom]
           free == {s \in Slot : Unused(s)}
           slot == Min(free)
           empty == {f \in File : files[f] = NoFile}
           creates == r.mode # "old" /\ Named(r.name) = {} /\ empty # {}
           opens == r.mode # "new" /\ Named(r.name) # {}
           file == IF creates THEN Min(empty) ELSE CHOOSE f \in Named(r.name) : TRUE
           id == [slot |-> slot, gen |-> NextGen(slot)]
<1>1. /\ Types /\ Served /\ Pages
      /\ server.pc = "serve" /\ r \in Requests /\ r.type = "open" /\ r.name \in Name
      /\ UNCHANGED <<fds, fsipcbuf, pc, req>>
      /\ server.whom \in Client /\ pc[server.whom] \in {"sent", "recv"}
      /\ \A s \in Slot : opentab[s].gen < MaxOpens
  BY RequestParts DEF ServeOpen, Serving, FileInv, Types, Served
<1>2. \A s \in Slot : opentab[s].gen \in Nat /\ opentab[s].file \in File
  BY <1>1 DEF Types
<1>3. CASE Answer(FALSE, 0) /\ UNCHANGED <<files, opentab, fdpage>>
  <2>1. Answer(FALSE, 0) /\ UNCHANGED <<files, opentab, fdpage>>
    BY <1>3
  <2>2. Types'
    <3>1. 0 \in 0 .. MAXOPEN
      BY FileServerAssumption
    <3>2. server' \in [pc : {"recv", "serve", "reply"}, whom : Client, slot : 0 .. MAXOPEN]
      BY <1>1, <2>1, <3>1 DEF Types, Answer
    <3>3. QED
      BY <1>1, <2>1, <3>2 DEF Types
  <2>3. Served'
    BY <1>1, <2>1 DEF Types, Served, Answer
  <2>4. Pages'
    BY <1>1, <2>1 DEF Pages, Current, Honest
  <2>5. QED
    BY <2>2, <2>3, <2>4 DEF FileInv
<1>4. CASE ~(Answer(FALSE, 0) /\ UNCHANGED <<files, opentab, fdpage>>)
  <2>0. free # {}
    BY <1>4 DEF ServeOpen
  <2>1. slot \in Slot /\ Unused(slot)
    <3>1. free \in SUBSET Nat
      BY DEF Slot
    <3>2. QED
      BY <2>0, <3>1, MinIn
  <2>2. \A c \in Client, n \in Fdnum :
          ~(fds[c][n].page = "shared" /\ fds[c][n].slot = slot)
    BY <2>1, UnusedUnmapped
  <2>3. NextGen(slot) = opentab[slot].gen + 1 /\ NextGen(slot) \in 1 .. MaxOpens
    BY <1>1, <1>2, <2>1, FileServerAssumption DEF NextGen
  <2>4. id \in FileId /\ id = [slot |-> slot, gen |-> NextGen(slot)]
    BY <2>1, <2>3 DEF FileId
  <2> HIDE DEF free, slot, id
  <2>5. Cleared \in FdPage
    BY FileServerAssumption DEF Cleared, FdPage, FileId, Slot, File
  <2>6. CASE creates \/ opens
    <3>1. file \in File /\ files' \in [File -> Name \cup {NoFile}]
      <4>1. CASE creates
        <5>1. empty \in SUBSET Nat /\ empty # {}
          BY <4>1 DEF File
        <5>2. Min(empty) \in File
          BY <5>1, MinIn
        <5>3. QED
          BY <1>1, <1>4, <2>6, <4>1, <5>2 DEF ServeOpen, Types, free
      <4>2. CASE ~creates
        <5>1. \E f \in File : f \in Named(r.name)
          BY <2>6, <4>2 DEF Named
        <5>2. file \in Named(r.name)
          BY <4>2, <5>1
        <5>3. QED
          BY <1>1, <1>4, <2>6, <4>2, <5>2 DEF ServeOpen, Types, free, Named
      <4>3. QED
        BY <4>1, <4>2
    <3>2. /\ opentab' = [opentab EXCEPT ![slot] = [gen |-> NextGen(slot), file |-> file]]
          /\ fdpage' = [fdpage EXCEPT ![slot] = [id |-> id, file |-> file]]
          /\ server' = [server EXCEPT !.pc = "reply", !.slot = slot]
      BY <1>4, <2>6 DEF ServeOpen, Answer, free, slot, id
    <3> HIDE DEF file, creates, opens
    <3>3. [id |-> id, file |-> file] \in FdPage
      BY <2>4, <3>1 DEF FdPage
    <3>4. [id |-> id, file |-> file] =
            [id |-> [slot |-> slot, gen |-> NextGen(slot)], file |-> file]
      BY <2>4
    <3> DEFINE page == [id |-> id, file |-> file]
    <3>5. fdpage' = [fdpage EXCEPT ![slot] = page] /\ page \in FdPage
      BY <3>2, <3>3
    <3>6. page = [id |-> [slot |-> slot, gen |-> NextGen(slot)], file |-> file]
      BY <3>4
    <3> HIDE DEF page
    <3>7. QED
      BY <1>1, <2>1, <2>2, <2>3, <3>1, <3>2, <3>5, <3>6, EntryTaken
  <2>7. CASE ~(creates \/ opens)
    <3>1. /\ opentab' = [opentab EXCEPT ![slot].gen = NextGen(slot)]
          /\ fdpage' = [fdpage EXCEPT ![slot] = Cleared]
          /\ server' = [server EXCEPT !.pc = "reply", !.slot = 0]
          /\ files' = files
      BY <1>4, <2>7, <2>4 DEF ServeOpen, Answer, free, slot, id
    <3> DEFINE old == opentab[slot].file
               taken == [gen |-> NextGen(slot), file |-> old]
    <3>2. opentab \in [Slot -> [gen : 0 .. MaxOpens, file : File]]
      BY <1>1 DEF Types
    <3>3. [opentab[slot] EXCEPT !.gen = NextGen(slot)] = taken
      <4>1. opentab[slot] \in [gen : 0 .. MaxOpens, file : File]
        BY <2>1, <3>2
      <4>2. QED
        BY <4>1
    <3>4. opentab' = [opentab EXCEPT ![slot] = taken]
      BY <3>1, <3>3
    <3>5. old \in File
      BY <1>2, <2>1
    <3> HIDE DEF old
    <3>6. files' \in [File -> Name \cup {NoFile}]
      BY <1>1, <3>1 DEF Types
    <3>7. QED
      BY <2>1, <2>2, <2>3, <2>5, <3>1, <3>4, <3>5, <3>6, <1>1, EntryTaken
  <2>8. QED
    BY <2>6, <2>7
<1>5. QED
  BY <1>3, <1>4

LEMMA NextFileInv == FileInv /\ [Next]_vars => FileInv'
<1> SUFFICES ASSUME FileInv, [Next]_vars PROVE FileInv'
  OBVIOUS
<1>1. CASE \E c \in Client : Calls(c) \/ Recv(c) \/ UnmapFd(c)
  BY <1>1, ClientInv
<1>2. CASE UNCHANGED vars
  <2>1. UNCHANGED <<files, opentab, fdpage, fds, fsipcbuf, pc, req, server>>
    BY <1>2 DEF vars
  <2>2. QED
    BY <2>1 DEF FileInv, Types, Served, Pages, Current, Honest
<1>3. QED
  BY <1>1, <1>2, ReplyInv, ServeOtherInv, ServeOpenInv DEF Next, Server, Serve

-----------------------------------------------------------------------------
\* Whatever the clients ask, the table, the Fd pages and the copies of them agree.
THEOREM FileInvariant == Spec => []FileInv
<1>1. Spec => Init /\ [][Next]_vars
  BY DEF Spec
<1>2. QED
  BY <1>1, InitFileInv, NextFileInv, PTL

\* The types of the state, for any number of descriptors, entries and files.
THEOREM TypesHold == Spec => []TypeOK
<1>1. FileInv => TypeOK
  <2> SUFFICES ASSUME FileInv PROVE TypeOK
    OBVIOUS
  <2>1. ASSUME NEW c \in Client, NEW n \in Fdnum
        PROVE  \/ fds[c][n] = NoFd
               \/ \E s \in Slot, p \in Perms : fds[c][n] = Shared(s, p)
               \/ fds[c][n].page = "private" /\ fds[c][n].fd \in FdPage
    BY FdParts DEF FileInv, Types
  <2>2. \A c \in Client : req[c] = NoReq \/ req[c] \in Requests
    BY DEF FileInv, Types
  <2>3. QED
    BY <2>1, <2>2 DEF FileInv, Types, TypeOK
<1>2. QED
  BY <1>1, FileInvariant, PTL

\* openfile_lookup gives a client no other struct File than the one it opened,
\* however old its copy of the Fd page is.
THEOREM RightFileHolds == Spec => []RightFile
<1>1. FileInv => RightFile
  <2> SUFFICES ASSUME FileInv, NEW c \in Client, NEW n \in Fdnum,
                      Open(c, n), Accepted(Fd(c, n).id)
               PROVE  opentab[Fd(c, n).id.slot].file = Fd(c, n).file
    BY DEF RightFile
  <2>1. fds[c][n] \in FdValue /\ fds[c][n] # NoFd
    BY DEF FileInv, Types, Open
  <2>2. Honest(Fd(c, n))
    <3>1. CASE fds[c][n].page = "shared"
      <4>1. fds[c][n].slot \in Slot /\ Fd(c, n) = fdpage[fds[c][n].slot]
        BY <2>1, <3>1, FdParts DEF Fd
      <4>2. QED
        BY <4>1 DEF FileInv, Pages
    <3>2. CASE fds[c][n].page = "private"
      <4>1. Fd(c, n) = fds[c][n].fd
        BY <3>2 DEF Fd
      <4>2. QED
        BY <3>2, <4>1 DEF FileInv, Pages
    <3>3. QED
      BY <2>1, <3>1, <3>2, FdParts
  <2>3. QED
    BY <2>2 DEF Honest, Accepted
<1>2. QED
  BY <1>1, FileInvariant, PTL

\* openfile_alloc never takes an entry whose page a client still shares.
THEOREM OpenFileKeptHolds == Spec => []OpenFileKept
<1>1. FileInv => OpenFileKept
  BY DEF FileInv, Pages, Current, OpenFileKept, Fd
<1>2. QED
  BY <1>1, FileInvariant, PTL
=============================================================================
