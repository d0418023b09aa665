------------------------------ MODULE FileServer ------------------------------
(***************************************************************************)
(* The open file table of the file server (fs/serv.c) and its clients      *)
(* (lib/file.c, lib/fd.c, lib/ipc.c).                                      *)
(*                                                                         *)
(* A client sends one request, retrying until the server receives, and     *)
(* waits for the answer; the server serves one request at a time and       *)
(* retries its answer until the client receives.  An Fd page is shared by  *)
(* the server and every client that has the file open, and the server      *)
(* takes its reference count for the number of users.  fork makes a        *)
(* client's Fd pages copy-on-write, as it makes every other page, so that  *)
(* a seek then copies one: its file id is used without the page.           *)
(*                                                                         *)
(* Directory slots stand for struct Files (FsDisk has what is behind       *)
(* them).  Clients send what lib/file.c sends, nobody else sends to a      *)
(* waiting client, and no client is destroyed while its request is served. *)
(***************************************************************************)
EXTENDS Integers, FiniteSets, FiniteSetsExt

CONSTANTS
  Client,   \* environments that may use files
  First,    \* the one that runs first; the others are forked
  MAXFD,    \* file descriptors of a client
  MAXOPEN,  \* entries of opentab
  MaxOpens, \* bound on the uses of an entry of opentab
  NFILES,   \* slots of the directory
  Name,     \* file names
  NoFile,   \* an empty directory slot
  NoReq     \* no request

ASSUME FileServerAssumption ==
  /\ First \in Client /\ IsFiniteSet(Client)
  /\ MAXFD \in Nat \ {0} /\ MAXOPEN \in Nat \ {0} /\ NFILES \in Nat \ {0}
  /\ MaxOpens \in Nat /\ NoFile \notin Name

Fdnum == 1 .. MAXFD
Slot == 1 .. MAXOPEN
File == 1 .. NFILES
Perms == {"w", "cow"}

\* omode: none, O_CREAT, or O_CREAT|O_EXCL.
Modes == {"old", "create", "new"}

\* o_fileid is slot + gen * MAXOPEN.
FileId == [slot : Slot, gen : 0 .. MaxOpens]

\* What an Fd page says: the file id and (ghost) the struct File it was opened for.
FdPage == [id : FileId, file : File]
NoFd == [page |-> "none"]
Cleared == [id |-> [slot |-> 1, gen |-> 0], file |-> 1]
Shared(slot, perm) == [page |-> "shared", slot |-> slot, perm |-> perm]
Private(fd) == [page |-> "private", fd |-> fd]

VARIABLES
  files,     \* [File -> Name or NoFile]: the directory
  opentab,   \* [Slot -> [gen, file]]: o_fileid and o_file
  fdpage,    \* [Slot -> FdPage]: the page at o_fd, which the server keeps
  fds,       \* [Client -> [Fdnum -> NoFd, Shared(..) or Private(..)]]
  fsipcbuf,  \* [Client -> Perms]: how the client maps its request page
  pc,        \* [Client -> where the client is, see TypeOK]
  req,       \* [Client -> its request, or NoReq]
  server     \* the server: [pc, whom, slot]: slot of the Fd page it answers with

vars == <<files, opentab, fdpage, fds, fsipcbuf, pc, req, server>>

Waiting == [pc |-> "recv", whom |-> First, slot |-> 0]

Requests ==
  [type : {"open"}, fd : Fdnum, name : Name, mode : Modes]
  \cup [type : {"file", "flush"}, fd : Fdnum, id : FileId]
  \cup [type : {"remove"}, name : Name] \cup [type : {"sync"}]

TypeOK ==
  /\ files \in [File -> Name \cup {NoFile}]
  /\ opentab \in [Slot -> [gen : 0 .. MaxOpens, file : File]]
  /\ fdpage \in [Slot -> FdPage]
  /\ \A c \in Client, n \in Fdnum :
       \/ fds[c][n] = NoFd
       \/ \E s \in Slot, p \in Perms : fds[c][n] = Shared(s, p)
       \/ fds[c][n].page = "private" /\ fds[c][n].fd \in FdPage
  /\ fsipcbuf \in [Client -> Perms]
  /\ pc \in [Client -> {"none", "run", "sent", "recv", "unmap", "panic"}]
  /\ \A c \in Client : req[c] = NoReq \/ req[c] \in Requests
  /\ server \in [pc : {"recv", "serve", "reply"}, whom : Client, slot : 0 .. MAXOPEN]

Init ==
  /\ files = [f \in File |-> NoFile]
  /\ opentab = [s \in Slot |-> [gen |-> 0, file |-> 1]]
  /\ fdpage = [s \in Slot |-> Cleared]
  /\ fds = [c \in Client |-> [n \in Fdnum |-> NoFd]]
  /\ fsipcbuf = [c \in Client |-> "w"]
  /\ pc = [c \in Client |-> IF c = First THEN "run" ELSE "none"]
  /\ req = [c \in Client |-> NoReq]
  /\ server = Waiting

-----------------------------------------------------------------------------
(* The file descriptors of a client: lib/fd.c. *)

Fd(c, n) == IF fds[c][n].page = "shared" THEN fdpage[fds[c][n].slot]
            ELSE fds[c][n].fd

\* The clients' mappings of a slot's Fd page, and its pageref; the server's own
\* mapping is made when the slot is first used.
Mappings(s) == {x \in Client \X Fdnum :
                  fds[x[1]][x[2]].page = "shared" /\ fds[x[1]][x[2]].slot = s}
PageRef(s) == Cardinality(Mappings(s)) + (IF opentab[s].gen = 0 THEN 0 ELSE 1)

Open(c, n) == fds[c][n] # NoFd
FreeFds(c) == {n \in Fdnum : ~Open(c, n)}

\* A mutant of FdAlloc: the descriptor after the last one mapped.
FdAllocAfter(c) == 1 + Max({n \in Fdnum : Open(c, n)} \cup {0})

\* fd_alloc: the first descriptor that is not mapped.
FdAlloc(c) == Min(FreeFds(c))

\* fsipc: a client writes its request into fsipcbuf, whose page becomes its own,
\* and ipc_send hands it over.  A try that finds the server elsewhere
\* (-E_IPC_NOT_RECV) changes nothing and is made again; what the client read of
\* its own descriptors does not change meanwhile.
Request(c, r) ==
  /\ pc[c] = "run" /\ server.pc = "recv"
  /\ pc' = [pc EXCEPT ![c] = "sent"]
  /\ req' = [req EXCEPT ![c] = r]
  /\ fsipcbuf' = [fsipcbuf EXCEPT ![c] = "w"]
  /\ server' = [server EXCEPT !.pc = "serve", !.whom = c]
  /\ UNCHANGED <<files, opentab, fdpage, fds>>

OpenFile(c, name, mode) ==
  /\ FreeFds(c) # {} /\ \A s \in Slot : opentab[s].gen < MaxOpens
  /\ Request(c, [type |-> "open", fd |-> FdAlloc(c), name |-> name, mode |-> mode])

\* read, write, fstat and ftruncate name the file by the id in the Fd.
UseFile(c, n) ==
  Open(c, n) /\ Request(c, [type |-> "file", fd |-> n, id |-> Fd(c, n).id])

\* close: devfile_flush, and the descriptor is unmapped when it is answered.
Close(c, n) ==
  Open(c, n) /\ Request(c, [type |-> "flush", fd |-> n, id |-> Fd(c, n).id])

RemoveFile(c, name) == Request(c, [type |-> "remove", name |-> name])

\* sync sends fsipcbuf without writing it: when a fork has left it
\* copy-on-write, sys_ipc_try_send refuses PTE_W and ipc_send panics.
SyncFiles(c) ==
  \/ fsipcbuf[c] = "w" /\ Request(c, [type |-> "sync"])
  \/ /\ pc[c] = "run" /\ fsipcbuf[c] = "cow"
     /\ pc' = [pc EXCEPT ![c] = "panic"]
     /\ UNCHANGED <<files, opentab, fdpage, fds, fsipcbuf, req, server>>

\* dup to a closed descriptor: another mapping of the page.
Dup(c, old, new) ==
  /\ pc[c] = "run"
  /\ Open(c, old) /\ ~Open(c, new)
  /\ fds' = [fds EXCEPT ![c][new] = fds[c][old]]
  /\ UNCHANGED <<files, opentab, fdpage, fsipcbuf, pc, req, server>>

\* seek writes fd_offset: a copy-on-write page is copied first.
Seek(c, n) ==
  /\ pc[c] = "run"
  /\ fds[c][n].page = "shared" /\ fds[c][n].perm = "cow"
  /\ fds' = [fds EXCEPT ![c][n] = Private(Fd(c, n))]
  /\ UNCHANGED <<files, opentab, fdpage, fsipcbuf, pc, req, server>>

\* fork: parent and child map every page copy-on-write (JosPages has the steps).
Fork(c, child) ==
  LET cow == [n \in Fdnum |-> IF fds[c][n].page = "shared"
                              THEN Shared(fds[c][n].slot, "cow") ELSE fds[c][n]]
  IN
  /\ pc[c] = "run" /\ pc[child] = "none"
  /\ fds' = [fds EXCEPT ![c] = cow, ![child] = cow]
  /\ fsipcbuf' = [fsipcbuf EXCEPT ![c] = "cow", ![child] = "cow"]
  /\ pc' = [pc EXCEPT ![child] = "run"]
  /\ UNCHANGED <<files, opentab, fdpage, req, server>>

\* exit after close_all, or sys_env_destroy with files still open: the kernel
\* unmaps all.
End(c) ==
  /\ pc[c] = "run"
  /\ pc' = [pc EXCEPT ![c] = "none"]
  /\ fds' = [fds EXCEPT ![c] = [n \in Fdnum |-> NoFd]]
  /\ fsipcbuf' = [fsipcbuf EXCEPT ![c] = "w"]
  /\ UNCHANGED <<files, opentab, fdpage, req, server>>

-----------------------------------------------------------------------------
(* The answer: ipc_recv in the client, ipc_send in the server, which tries     *)
(* again until the client has come to receive.                               *)

Recv(c) ==
  /\ pc[c] = "sent"
  /\ pc' = [pc EXCEPT ![c] = "recv"]
  /\ UNCHANGED <<files, opentab, fdpage, fds, fsipcbuf, req, server>>

\* The answer arrives, with a page for the descriptor open chose; the server
\* unmaps the request and receives again.
Reply ==
  LET c == server.whom IN
  /\ server.pc = "reply" /\ pc[c] = "recv"
  /\ fds' = IF server.slot = 0 THEN fds
            ELSE [fds EXCEPT ![c][req[c].fd] = Shared(server.slot, "w")]
  /\ pc' = [pc EXCEPT ![c] = IF req[c].type = "flush" THEN "unmap" ELSE "run"]
  /\ req' = [req EXCEPT ![c] = IF @.type = "flush" THEN @ ELSE NoReq]
  /\ server' = Waiting
  /\ UNCHANGED <<files, opentab, fdpage, fsipcbuf>>

\* fd_close unmaps the page whatever the answer was.
UnmapFd(c) ==
  /\ pc[c] = "unmap"
  /\ fds' = [fds EXCEPT ![c][req[c].fd] = NoFd]
  /\ pc' = [pc EXCEPT ![c] = "run"]
  /\ req' = [req EXCEPT ![c] = NoReq]
  /\ UNCHANGED <<files, opentab, fdpage, fsipcbuf, server>>

-----------------------------------------------------------------------------
(* The server: fs/serv.c. *)

\* Mutants of Answer and of NextGen: an error is not answered; an entry that is
\* used again keeps its id.
AnswerSuccess(ok, slot) ==
  server' = IF ok THEN [server EXCEPT !.pc = "reply", !.slot = slot] ELSE Waiting
NextGenSame(s) == IF opentab[s].gen = 0 THEN 1 ELSE opentab[s].gen

\* serve: a handler's result, success or error, becomes the answer.
Answer(ok, slot) == server' = [server EXCEPT !.pc = "reply", !.slot = slot]

\* o_fileid += MAXOPEN.
NextGen(s) == opentab[s].gen + 1

\* A mutant of Unused: the client that leaves is already taken for gone.
UnusedButOne(s) == PageRef(s) <= 2

\* The entries openfile_alloc takes: nobody but the server maps the page.
Unused(s) == PageRef(s) <= 1

\* openfile_lookup: somebody maps the page and the id is the current one.
Accepted(id) == PageRef(id.slot) # 1 /\ opentab[id.slot].gen = id.gen

Serving(type) == server.pc = "serve" /\ req[server.whom].type = type

Named(name) == {f \in File : files[f] = name}

\* serve_open.  The entry is taken and its page cleared before the file is looked
\* for, and keeps its new id when there is none; file_create takes the first free
\* slot.  Without an entry, or without memory for the page of an entry's first
\* use, nothing changes.
ServeOpen ==
  LET r == req[server.whom]
      free == {s \in Slot : Unused(s)}
      slot == Min(free)
      empty == {f \in File : files[f] = NoFile}
      new == Min(empty)
      creates == r.mode # "old" /\ Named(r.name) = {} /\ empty # {}
      opens == r.mode # "new" /\ Named(r.name) # {}
      file == IF creates THEN new ELSE CHOOSE f \in Named(r.name) : TRUE
      id == [slot |-> slot, gen |-> NextGen(slot)]
  IN
  /\ Serving("open")
  /\ \/ /\ free # {} => opentab[slot].gen = 0
        /\ Answer(FALSE, 0) /\ UNCHANGED <<files, opentab, fdpage>>
     \/ /\ free # {} /\ (creates \/ opens)
        /\ opentab' = [opentab EXCEPT ![slot] = [gen |-> id.gen, file |-> file]]
        /\ fdpage' = [fdpage EXCEPT ![slot] = [id |-> id, file |-> file]]
        /\ files' = IF creates THEN [files EXCEPT ![new] = r.name] ELSE files
        /\ Answer(TRUE, slot)
     \/ /\ free # {} /\ ~(creates \/ opens)
        /\ opentab' = [opentab EXCEPT ![slot].gen = id.gen]
        /\ fdpage' = [fdpage EXCEPT ![slot] = Cleared]
        /\ Answer(FALSE, 0)
        /\ UNCHANGED files
  /\ UNCHANGED <<fds, fsipcbuf, pc, req>>

\* serve_set_size, serve_read, serve_write, serve_stat and serve_flush: the
\* operation on o_file, or -E_INVAL.
ServeFile ==
  /\ Serving("file") \/ Serving("flush")
  /\ Answer(Accepted(req[server.whom].id), 0)
  /\ UNCHANGED <<files, opentab, fdpage, fds, fsipcbuf, pc, req>>

\* serve_remove, whether or not the file is open: opentab keeps its entries.
ServeRemove ==
  LET removed == Named(req[server.whom].name) IN
  /\ Serving("remove")
  /\ Answer(removed # {}, 0)
  /\ files' = [f \in File |-> IF f \in removed THEN NoFile ELSE files[f]]
  /\ UNCHANGED <<opentab, fdpage, fds, fsipcbuf, pc, req>>

ServeSync ==
  /\ Serving("sync")
  /\ Answer(TRUE, 0)
  /\ UNCHANGED <<files, opentab, fdpage, fds, fsipcbuf, pc, req>>

Serve == ServeOpen \/ ServeFile \/ ServeRemove \/ ServeSync

Server == Serve \/ Reply

Calls(c) ==
  \/ \E name \in Name :
       \/ RemoveFile(c, name)
       \/ \E mode \in Modes : OpenFile(c, name, mode)
  \/ \E n \in Fdnum : UseFile(c, n) \/ Close(c, n) \/ Seek(c, n)
  \/ \E old, new \in Fdnum : Dup(c, old, new)
  \/ \E child \in Client : Fork(c, child)
  \/ SyncFiles(c)
  \/ End(c)

Next == Server \/ \E c \in Client : Calls(c) \/ Recv(c) \/ UnmapFd(c)

\* The scheduler runs the server and a client that has something to do.
Fairness == WF_vars(Server) /\ \A c \in Client : WF_vars(Recv(c) \/ UnmapFd(c))

Spec == Init /\ [][Next]_vars /\ Fairness

-----------------------------------------------------------------------------
(* Properties. *)

\* A file id that the server accepts is for the struct File its client opened, also
\* when the Fd page was copied after a fork and the entry has served others since.
RightFile ==
  \A c \in Client, n \in Fdnum :
    Open(c, n) /\ Accepted(Fd(c, n).id) =>
      opentab[Fd(c, n).id.slot].file = Fd(c, n).file

\* A descriptor that still shares the server's page keeps working: its entry is
\* not given away while forks, dups, closes and exits of others come and go.
OpenFileKept ==
  \A c \in Client, n \in Fdnum :
    fds[c][n].page = "shared" =>
      Fd(c, n).id = [slot |-> fds[c][n].slot, gen |-> opentab[fds[c][n].slot].gen]

\* A request that the server has received is answered, whatever it asks for.
Answered == \A c \in Client : pc[c] = "sent" ~> pc[c] \in {"run", "none"}
=============================================================================
