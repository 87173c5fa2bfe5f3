----------------------------- MODULE TcpServer -----------------------------
(***************************************************************************)
(* HPS::TcpServer with its listening Sockets and the FdCtx table behind    *)
(* the hooked calls (tcp_server.cc, socket.cc, fd_manager.cc, hook.cc).    *)
(*                                                                         *)
(* An accept fiber per listening socket loops until m_isStop; stop() sets  *)
(* it and schedules a task that cancels and closes the sockets under the   *)
(* feet of those fibers.  Descriptors are numbers that the kernel gives    *)
(* out again: three tables are indexed by them (the kernel's files, the    *)
(* FdManager's contexts, the IOManager's fd contexts), and a fiber keeps   *)
(* the number it was called with across every wait.                        *)
(*                                                                         *)
(* The accept worker has one or two threads (acceptThreads): the accept    *)
(* fibers and the stop task share them and give them up only where they    *)
(* wait or end.  Handlers run on another worker.                           *)
(***************************************************************************)
EXTENDS Integers, FiniteSets, Sequences, SequencesExt

CONSTANTS
  Addrs,         \* addresses to listen on; also names the socket bound to one
  Conns,         \* connections that peers open, one after the other
  Fds,           \* descriptor numbers
  NoFile,        \* no file, no context, no fiber
  ThreadCounts,  \* sizes of the accept worker to consider
  MaxBinds       \* bound: calls of bind()

\* FdCtx, as far as its user can set it: m_userNonblock, m_recvTimeout
FdCtx == [user: BOOLEAN, timeout: {"none", "m_recvTimeout"}]

ASSUME TcpAssumption ==
  /\ IsFiniteSet(Addrs \cup Conns) /\ Addrs \cap Conns = {}
  /\ NoFile \notin Addrs \cup Conns \cup FdCtx
  /\ Fds \subseteq Nat
  /\ ThreadCounts \subseteq Nat \ {0}
  /\ MaxBinds \in Nat

VARIABLES
  acceptThreads,
  \* TcpServer
  m_socks, m_isStop,
  bound,      \* the caller's fails vector after the last bind()
  binds,
  \* Socket: m_sock of every listening socket and connection (-1: none)
  m_sock,
  \* the kernel: the file behind a descriptor, its O_NONBLOCK, backlogs
  kfile, knonblock, backlog,
  \* FdManager::m_datas and IOManager's fd context: the fiber that waits for READ
  m_datas, waiter,
  registered, \* descriptors registered with epoll
  \* fibers: accept fibers, handlers, the stop task
  apc, lfd, found, nfd, hpc, spc,
  \* what the user of a file asked for (flags and timeout), and accepts after stop
  asked, late,
  aborted     \* an ASSERT has failed

serverVars == <<m_socks, m_isStop, bound, binds>>
kernelVars == <<kfile, knonblock, backlog, registered>>
acceptVars == <<apc, lfd, found, nfd>>
userVars == <<asked, late>>
vars == <<acceptThreads, serverVars, m_sock, kernelVars, m_datas, waiter,
          acceptVars, hpc, spc, userVars, aborted>>

Files == Addrs \cup Conns
Valid(fd) == fd \in Fds
FreeFds == {fd \in Fds : kfile[fd] = NoFile}
Listening(fd) == Valid(fd) /\ kfile[fd] \in Addrs

\* FdCtx::FdCtx, init: a socket, made non-blocking for the hooks
Fresh == [user |-> FALSE, timeout |-> "none"]
\* What the user of a new file has asked for; raw: a blocking file, by ioctl
Nothing == [user |-> FALSE, timeout |-> "none", raw |-> FALSE]

\* FdManager::get(fd): nothing for -1 and where there is no context
Get(fd) == IF Valid(fd) THEN m_datas[fd] ELSE NoFile

Init ==
  /\ acceptThreads \in ThreadCounts
  /\ m_socks = <<>> /\ m_isStop = TRUE
  /\ bound = {} /\ binds = 0
  /\ m_sock = [f \in Files |-> -1]
  /\ kfile = [fd \in Fds |-> NoFile]
  /\ knonblock = [fd \in Fds |-> FALSE]
  /\ backlog = [a \in Addrs |-> {}]
  /\ m_datas = [fd \in Fds |-> NoFile]
  /\ waiter = [fd \in Fds |-> NoFile]
  /\ registered = {}
  /\ apc = [a \in Addrs |-> "off"]
  /\ lfd = [a \in Addrs |-> -1]
  /\ found = [a \in Addrs |-> FALSE]
  /\ nfd = [a \in Addrs |-> -1]
  /\ hpc = [c \in Conns |-> "new"]
  /\ spc = "off"
  /\ asked = [f \in Files |-> Nothing]
  /\ late = [a \in Addrs |-> 0]
  /\ aborted = FALSE

-----------------------------------------------------------------------------
(***************************************************************************)
(* bind, start                                                             *)
(***************************************************************************)

\* The owner's calls come before the fibers of start(): @pre of start()
Owner == ~aborted /\ m_isStop /\ spc = "off" /\ binds < MaxBinds

\* Socket::newSock through the hooked socket(): a file and a context for each
\* of A, at descriptors that were free
NewSocks(A, at) ==
  /\ kfile' = [fd \in Fds |-> IF \E a \in A : at[a] = fd
                                THEN CHOOSE a \in A : at[a] = fd ELSE kfile[fd]]
  /\ knonblock' = [fd \in Fds |-> knonblock[fd] \/ \E a \in A : at[a] = fd]
  /\ m_datas' = [fd \in Fds |-> IF /\ \E a \in A : at[a] = fd
                                   /\ m_datas[fd] = NoFile
                                  THEN Fresh ELSE m_datas[fd]]
  /\ m_sock' = [f \in Files |-> IF f \in A THEN at[f] ELSE m_sock[f]]
  /\ asked' = [f \in Files |-> IF f \in A THEN Nothing ELSE asked[f]]

\* Mutant: the fds of the sockets that failed or are dropped stay open
DestroyedOpen(S) ==
  /\ m_sock' = [f \in Files |-> IF f \in S THEN -1 ELSE m_sock[f]]
  /\ UNCHANGED <<kfile, knonblock, backlog, m_datas, hpc, asked>>

\* The destructors of the sockets in m_socks: close() and its hook; the kernel resets
\* the connections that nobody has accepted
Destroyed(S) ==
  LET gone == {fd \in Fds : kfile[fd] \in S} IN
  /\ kfile' = [fd \in Fds |-> IF fd \in gone THEN NoFile ELSE kfile[fd]]
  /\ knonblock' = [fd \in Fds |-> knonblock[fd] /\ fd \notin gone]
  /\ m_datas' = [fd \in Fds |-> IF fd \in gone THEN NoFile ELSE m_datas[fd]]
  /\ m_sock' = [f \in Files |-> IF f \in S THEN -1 ELSE m_sock[f]]
  /\ backlog' = [a \in Addrs |-> IF a \in S THEN {} ELSE backlog[a]]
  /\ hpc' = [c \in Conns |-> IF \E a \in S : c \in backlog[a] THEN "new" ELSE hpc[c]]
  /\ asked' = asked

\* bind(addrs, fails): the sockets for A, of which F cannot bind or listen; vector
\* is what the caller's fails holds already.  If it is not empty at the end, every
\* socket of the server is dropped, older ones too.
Bind(A, F, vector) ==
  LET fails == vector \cup F IN
  /\ Owner
  /\ A \cap ToSet(m_socks) = {}
  /\ bound' = fails
  /\ binds' = binds + 1
  /\ IF fails = {}
       THEN \E at \in [A -> FreeFds] :
              /\ IsInjective(at)
              /\ NewSocks(A, at)
              /\ m_socks' = m_socks \o SetToSeq(A)
              /\ UNCHANGED <<backlog, hpc>>
       ELSE Destroyed(ToSet(m_socks)) /\ m_socks' = <<>>
  /\ UNCHANGED <<acceptThreads, m_isStop, waiter, registered, acceptVars, spc,
                 late, aborted>>

\* start(): an accept fiber for every socket; a second call changes nothing
Start ==
  /\ ~aborted
  /\ m_isStop /\ spc = "off" /\ m_socks # <<>>
  /\ m_isStop' = FALSE
  /\ apc' = [a \in Addrs |-> IF a \in ToSet(m_socks) THEN "sched" ELSE apc[a]]
  /\ UNCHANGED <<acceptThreads, m_socks, bound, binds, m_sock, kernelVars,
                 m_datas, waiter, lfd, found, nfd, hpc, spc, userVars, aborted>>

\* ~TcpServer of a server that was never started (accept fibers hold a pointer)
Destroy ==
  /\ Owner
  /\ Destroyed(ToSet(m_socks))
  /\ m_socks' = <<>>
  /\ spc' = "done"
  /\ UNCHANGED <<acceptThreads, m_isStop, bound, binds, waiter, registered,
                 acceptVars, late, aborted>>

-----------------------------------------------------------------------------
(***************************************************************************)
(* Events: what the fibers wait with                                       *)
(***************************************************************************)

\* triggerEvent for the READ waiter of fd: its fiber is scheduled
Trigger(fd) ==
  /\ waiter' = [waiter EXCEPT ![fd] = NoFile]
  /\ registered' = registered \ {fd}
  /\ apc' = [a \in Addrs |-> IF waiter[fd] = a THEN "woken" ELSE apc[a]]
  /\ hpc' = [c \in Conns |-> IF waiter[fd] = c THEN "run" ELSE hpc[c]]

\* IOManager::cancelAll(fd): nothing without events, or when epoll_ctl fails
\* because the kernel has forgotten the descriptor
CancelAll(fd) ==
  IF Valid(fd) /\ fd \in registered
    THEN Trigger(fd)
    ELSE UNCHANGED <<waiter, registered, apc, hpc>>

\* IOManager::addEvent(fd, READ) by the fiber of file f.  The ASSERT is about the
\* event of another fiber at the same number.
AddEvent(fd, f) ==
  /\ waiter' = [waiter EXCEPT ![fd] = IF @ = NoFile THEN f ELSE @]
  /\ registered' = registered \cup {fd}
  /\ aborted' = (waiter[fd] # NoFile)

\* The idle thread sees a connection in a backlog and wakes the accept fiber
AcceptReady(fd) ==
  /\ ~aborted
  /\ fd \in registered
  /\ Listening(fd) /\ backlog[kfile[fd]] # {}
  /\ Trigger(fd)
  /\ UNCHANGED <<acceptThreads, serverVars, m_sock, kfile, knonblock, backlog,
                 m_datas, lfd, found, nfd, spc, userVars, aborted>>

\* A peer connects to address a
Connect(a, c) ==
  /\ ~aborted
  /\ hpc[c] = "new"
  /\ \E fd \in Fds : kfile[fd] = a
  /\ hpc' = [hpc EXCEPT ![c] = "backlog"]
  /\ backlog' = [backlog EXCEPT ![a] = @ \cup {c}]
  /\ UNCHANGED <<acceptThreads, serverVars, m_sock, kfile, knonblock, registered,
                 m_datas, waiter, acceptVars, spc, userVars, aborted>>

-----------------------------------------------------------------------------
(***************************************************************************)
(* startAccept: the accept fiber of socket a                               *)
(***************************************************************************)

\* The threads of the accept worker are with these fibers and the stop task
Busy == {a \in Addrs : apc[a] \in {"loop", "try", "add", "get", "make", "init"}}
StopBusy == IF spc \in {"off", "sched", "done"} THEN 0 ELSE 1
ThreadFree == Cardinality(Busy) + StopBusy < acceptThreads

AStep(a, from) == ~aborted /\ apc[a] = from
Goto(a, to) == apc' = [apc EXCEPT ![a] = to]

\* A thread takes the scheduled fiber
Resume(a) ==
  /\ ~aborted
  /\ ThreadFree
  /\ \/ AStep(a, "sched") /\ Goto(a, "loop")
     \/ AStep(a, "woken") /\ Goto(a, "try")
  /\ UNCHANGED <<acceptThreads, serverVars, m_sock, kernelVars, m_datas, waiter,
                 lfd, found, nfd, hpc, spc, userVars, aborted>>

\* Mutant: the loop does not look at m_isStop
LoopForever(a) ==
  /\ AStep(a, "loop")
  /\ Goto(a, "try")
  /\ lfd' = [lfd EXCEPT ![a] = m_sock[a]]
  /\ found' = [found EXCEPT ![a] = Get(m_sock[a]) # NoFile]
  /\ UNCHANGED <<acceptThreads, serverVars, m_sock, kernelVars, m_datas, waiter,
                 nfd, hpc, spc, userVars, aborted>>

\* while (!m_isStop) accept(m_sock): do_io looks for the context once
Loop(a) ==
  /\ AStep(a, "loop")
  /\ IF m_isStop
       THEN Goto(a, "end") /\ UNCHANGED <<lfd, found>>
       ELSE /\ Goto(a, "try")
            /\ lfd' = [lfd EXCEPT ![a] = m_sock[a]]
            /\ found' = [found EXCEPT ![a] = Get(m_sock[a]) # NoFile]
  /\ UNCHANGED <<acceptThreads, serverVars, m_sock, kernelVars, m_datas, waiter,
                 nfd, hpc, spc, userVars, aborted>>

\* accept_f gives a connection and a new descriptor
AcceptOk(a) ==
  /\ AStep(a, "try")
  /\ Listening(lfd[a])
  /\ \E c \in backlog[kfile[lfd[a]]], fd \in FreeFds :
       /\ kfile' = [kfile EXCEPT ![fd] = c]
       /\ knonblock' = [knonblock EXCEPT ![fd] = FALSE]
       /\ backlog' = [backlog EXCEPT ![kfile[lfd[a]]] = @ \ {c}]
       /\ nfd' = [nfd EXCEPT ![a] = fd]
       /\ hpc' = [hpc EXCEPT ![c] = "accepted"]
       /\ asked' = [asked EXCEPT ![c] = Nothing]
  /\ Goto(a, "get")
  /\ late' = [late EXCEPT ![a] = IF m_isStop THEN @ + 1 ELSE @]
  /\ UNCHANGED <<acceptThreads, serverVars, m_sock, registered, m_datas, waiter,
                 lfd, found, spc, aborted>>

\* accept_f fails for good (EBADF, EINVAL, EMFILE), or with EAGAIN where do_io had
\* found no context; the loop goes on
AcceptFails(a) ==
  /\ AStep(a, "try")
  /\ Listening(lfd[a]) => IF backlog[kfile[lfd[a]]] # {}
                            THEN FreeFds = {} ELSE ~found[a]
  /\ Goto(a, "loop")
  /\ UNCHANGED <<acceptThreads, serverVars, m_sock, kernelVars, m_datas, waiter,
                 lfd, found, nfd, hpc, spc, userVars, aborted>>

\* EAGAIN: the fiber goes on to addEvent
AcceptBlocks(a) ==
  /\ AStep(a, "try")
  /\ Listening(lfd[a]) /\ backlog[kfile[lfd[a]]] = {} /\ found[a]
  /\ Goto(a, "add")
  /\ UNCHANGED <<acceptThreads, serverVars, m_sock, kernelVars, m_datas, waiter,
                 lfd, found, nfd, hpc, spc, userVars, aborted>>

\* addEvent, YieldToHold; addEvent fails on a descriptor that is closed
AcceptWaits(a) ==
  /\ AStep(a, "add")
  /\ IF kfile[lfd[a]] = NoFile
       THEN Goto(a, "loop") /\ UNCHANGED <<waiter, registered, aborted>>
       ELSE Goto(a, "wait") /\ AddEvent(lfd[a], a)
  /\ UNCHANGED <<acceptThreads, serverVars, m_sock, kfile, knonblock, backlog,
                 m_datas, lfd, found, nfd, hpc, spc, userVars>>

\* The hooked accept(): FdManager::get(fd, true) under the read lock ...
GetLookup(a) ==
  /\ AStep(a, "get")
  /\ Goto(a, IF m_datas[nfd[a]] = NoFile THEN "make" ELSE "init")
  /\ UNCHANGED <<acceptThreads, serverVars, m_sock, kernelVars, m_datas, waiter,
                 lfd, found, nfd, hpc, spc, userVars, aborted>>

\* ... and under the write lock: a new FdCtx, whose init sets O_NONBLOCK
GetCreate(a) ==
  /\ AStep(a, "make")
  /\ Goto(a, "init")
  /\ m_datas' = [m_datas EXCEPT ![nfd[a]] = Fresh]
  /\ knonblock' = [knonblock EXCEPT ![nfd[a]] = TRUE]
  /\ UNCHANGED <<acceptThreads, serverVars, m_sock, kfile, backlog, registered,
                 waiter, lfd, found, nfd, hpc, spc, userVars, aborted>>

\* Socket::init, setRecvTimeout, schedule(handleClient)
InitClient(a) ==
  LET c == kfile[nfd[a]] IN
  /\ AStep(a, "init")
  /\ Goto(a, "loop")
  /\ IF Get(nfd[a]) = NoFile
       THEN UNCHANGED <<m_sock, m_datas, asked, hpc>>
       ELSE /\ m_sock' = [m_sock EXCEPT ![c] = nfd[a]]
            /\ m_datas' = [m_datas EXCEPT ![nfd[a]].timeout = "m_recvTimeout"]
            /\ asked' = [asked EXCEPT ![c].timeout = "m_recvTimeout"]
            /\ hpc' = [hpc EXCEPT ![c] = "run"]
  /\ nfd' = [nfd EXCEPT ![a] = -1]
  /\ UNCHANGED <<acceptThreads, serverVars, kernelVars, waiter, lfd, found, spc,
                 late, aborted>>

-----------------------------------------------------------------------------
(***************************************************************************)
(* stop() and its task.  The owner stops a server that it has started, and *)
(* once: stop() has no test for this.  A later call's task would find no   *)
(* socket; a call before start() would close what bind() made, and two at  *)
(* the same time would change m_socks without a lock.                      *)
(***************************************************************************)
Stop ==
  /\ ~aborted
  /\ ~m_isStop
  /\ m_isStop' = TRUE
  /\ spc' = "sched"
  /\ UNCHANGED <<acceptThreads, m_socks, bound, binds, m_sock, kernelVars,
                 m_datas, waiter, acceptVars, hpc, userVars, aborted>>

SStep(from, to) == ~aborted /\ spc = from /\ spc' = to
Current == Head(m_socks)

StopBegin ==
  /\ ThreadFree
  /\ SStep("sched", "cancel")
  /\ UNCHANGED <<acceptThreads, serverVars, m_sock, kernelVars, m_datas, waiter,
                 acceptVars, hpc, userVars, aborted>>

\* sock->cancelAll()
StopCancel ==
  /\ SStep("cancel", "cancel2")
  /\ CancelAll(m_sock[Current])
  /\ UNCHANGED <<acceptThreads, serverVars, m_sock, kfile, knonblock, backlog,
                 m_datas, lfd, found, nfd, userVars, aborted>>

\* sock->close(), ::close(): cancelAll once more, where there is a context ...
StopCancelAgain ==
  /\ SStep("cancel2", "del")
  /\ IF Get(m_sock[Current]) = NoFile
       THEN UNCHANGED <<waiter, registered, apc, hpc>>
       ELSE CancelAll(m_sock[Current])
  /\ UNCHANGED <<acceptThreads, serverVars, m_sock, kfile, knonblock, backlog,
                 m_datas, lfd, found, nfd, userVars, aborted>>

\* ... FdManager::del ...
StopDel ==
  /\ SStep("del", "closef")
  /\ m_datas' = [m_datas EXCEPT ![m_sock[Current]] = NoFile]
  /\ UNCHANGED <<acceptThreads, serverVars, m_sock, kernelVars, waiter,
                 acceptVars, hpc, userVars, aborted>>

\* ... close_f, which forgets the registration and resets the backlog; m_sock = -1.
\* m_socks is what the task has still to go through: it is cleared at the end, and
\* nobody else reads it by then.
StopCloseF ==
  LET fd == m_sock[Current] IN
  /\ SStep("closef", IF Len(m_socks) = 1 THEN "done" ELSE "cancel")
  /\ kfile' = [kfile EXCEPT ![fd] = NoFile]
  /\ knonblock' = [knonblock EXCEPT ![fd] = FALSE]
  /\ registered' = registered \ {fd}
  /\ backlog' = [backlog EXCEPT ![Current] = {}]
  /\ hpc' = [c \in Conns |-> IF c \in backlog[Current] THEN "new" ELSE hpc[c]]
  /\ m_sock' = [m_sock EXCEPT ![Current] = -1]
  /\ m_socks' = Tail(m_socks)
  /\ UNCHANGED <<acceptThreads, m_isStop, bound, binds, m_datas, waiter,
                 acceptVars, userVars, aborted>>

-----------------------------------------------------------------------------
(***************************************************************************)
(* handleClient: user code with the connection c, and its end.  How long   *)
(* the task waits in the worker's list makes no difference.                *)
(***************************************************************************)
HStep(c, from, to) == ~aborted /\ hpc[c] = from /\ hpc' = [hpc EXCEPT ![c] = to]

\* A read that would block
HandlerWaits(c) ==
  /\ HStep(c, "run", "wait")
  /\ ~m_datas[m_sock[c]].user
  /\ AddEvent(m_sock[c], c)
  /\ UNCHANGED <<acceptThreads, serverVars, m_sock, kfile, knonblock, backlog,
                 m_datas, acceptVars, spc, userVars>>

\* The peer sends or closes, or the timeout cancels the event
HandlerWoken(c) ==
  /\ ~aborted
  /\ hpc[c] = "wait"
  /\ m_sock[c] \in registered
  /\ Trigger(m_sock[c])
  /\ UNCHANGED <<acceptThreads, serverVars, m_sock, kfile, knonblock, backlog,
                 m_datas, lfd, found, nfd, spc, userVars, aborted>>

\* Mutant: F_SETFL goes to the kernel as it is
SetFlThrough(c, v) ==
  /\ HStep(c, "run", "run")
  /\ m_datas' = [m_datas EXCEPT ![m_sock[c]].user = v]
  /\ knonblock' = [knonblock EXCEPT ![m_sock[c]] = v]
  /\ asked' = [asked EXCEPT ![c].user = v, ![c].raw = FALSE]
  /\ UNCHANGED <<acceptThreads, serverVars, m_sock, kfile, backlog, registered,
                 waiter, acceptVars, spc, late, aborted>>

\* fcntl(F_SETFL): the user's O_NONBLOCK is kept in the context, the kernel's stays
SetFl(c, v) ==
  /\ HStep(c, "run", "run")
  /\ m_datas' = [m_datas EXCEPT ![m_sock[c]].user = v]
  /\ knonblock' = [knonblock EXCEPT ![m_sock[c]] = TRUE]
  /\ asked' = [asked EXCEPT ![c].user = v, ![c].raw = FALSE]
  /\ UNCHANGED <<acceptThreads, serverVars, m_sock, kfile, backlog, registered,
                 waiter, acceptVars, spc, late, aborted>>

\* ioctl(FIONBIO): kept in the context and passed to the kernel as it is
Ioctl(c, v) ==
  /\ HStep(c, "run", "run")
  /\ m_datas' = [m_datas EXCEPT ![m_sock[c]].user = v]
  /\ knonblock' = [knonblock EXCEPT ![m_sock[c]] = v]
  /\ asked' = [asked EXCEPT ![c].user = v, ![c].raw = ~v]
  /\ UNCHANGED <<acceptThreads, serverVars, m_sock, kfile, backlog, registered,
                 waiter, acceptVars, spc, late, aborted>>

\* Mutant: the hooked close() leaves the context in the table
ClientDelSkipped(c) ==
  /\ HStep(c, "run", "close")
  /\ UNCHANGED <<acceptThreads, serverVars, m_sock, kernelVars, m_datas, waiter,
                 acceptVars, spc, userVars, aborted>>

\* ~Socket, close(), ::close(): no event of its own to cancel, FdManager::del ...
ClientDel(c) ==
  /\ HStep(c, "run", "close")
  /\ m_datas' = [m_datas EXCEPT ![m_sock[c]] = NoFile]
  /\ UNCHANGED <<acceptThreads, serverVars, m_sock, kernelVars, waiter,
                 acceptVars, spc, userVars, aborted>>

\* ... close_f and m_sock = -1
ClientCloseF(c) ==
  /\ HStep(c, "close", "new")
  /\ kfile' = [kfile EXCEPT ![m_sock[c]] = NoFile]
  /\ knonblock' = [knonblock EXCEPT ![m_sock[c]] = FALSE]
  /\ registered' = registered \ {m_sock[c]}
  /\ m_sock' = [m_sock EXCEPT ![c] = -1]
  /\ UNCHANGED <<acceptThreads, serverVars, backlog, m_datas, waiter,
                 acceptVars, spc, userVars, aborted>>

-----------------------------------------------------------------------------
AcceptFiber(a) ==
  \/ Resume(a) \/ Loop(a) \/ AcceptOk(a) \/ AcceptFails(a) \/ AcceptBlocks(a)
  \/ AcceptWaits(a) \/ GetLookup(a) \/ GetCreate(a) \/ InitClient(a)

StopTask ==
  \/ StopBegin \/ StopCancel \/ StopCancelAgain \/ StopDel \/ StopCloseF

Handler(c) ==
  \/ HandlerWaits(c) \/ HandlerWoken(c)
  \/ \E v \in BOOLEAN : SetFl(c, v) \/ Ioctl(c, v)
  \/ ClientDel(c) \/ ClientCloseF(c)

\* The caller of bind() passes a new fails vector, or the one of its last call,
\* as test/test_tcp_server.cc does
BindSome ==
  \E A \in SUBSET Addrs \ {{}} : \E F \in SUBSET A :
    \E vector \in {{}, bound} : Bind(A, F, vector)

Next ==
  \/ BindSome \/ Start \/ Stop \/ Destroy
  \/ \E a \in Addrs : AcceptFiber(a) \/ \E c \in Conns : Connect(a, c)
  \/ \E fd \in Fds : AcceptReady(fd)
  \/ StopTask
  \/ \E c \in Conns : Handler(c)

Spec == Init /\ [][Next]_vars

\* The threads of the worker run their fibers, and the stop task gets its turn;
\* nothing is assumed of peers, handlers and the owner
FairSpec ==
  /\ Spec
  /\ \A a \in Addrs : WF_vars(AcceptFiber(a))
  /\ SF_vars(StopBegin)
  /\ WF_vars(StopTask)

-----------------------------------------------------------------------------
(***************************************************************************)
(* Properties                                                              *)
(***************************************************************************)

\* Every open descriptor has one owner: the Socket whose m_sock it is, or the
\* accept fiber that has just got it.  Nothing leaks when bind() fails half-way,
\* when a client is accepted during stop(), or when a number is used again.
FdsOwned ==
  \A fd \in Fds : kfile[fd] # NoFile =>
    IF \E a \in Addrs : nfd[a] = fd
      THEN \A f \in Files : m_sock[f] # fd
      ELSE {f \in Files : m_sock[f] = fd} = {kfile[fd]}

\* The FdCtx in the table is the one of the file that is open at its number: the
\* flags and the timeout the hooks use are what the user of this file has set, never
\* what is left of an earlier connection with the same number.
CtxDescribesFile ==
  \A f \in Files :
    LET fd == m_sock[f] IN
    (fd # -1 /\ m_datas[fd] # NoFile) =>
      /\ m_datas[fd].user = asked[f].user
      /\ m_datas[fd].timeout = asked[f].timeout

\* Behind an FdCtx the kernel's file does not block the thread, whatever the user
\* sets with fcntl; only ioctl(FIONBIO) can make it block.
NeverBlocksThread ==
  \A f \in Files : (m_sock[f] # -1 /\ Get(m_sock[f]) # NoFile) =>
    knonblock[m_sock[f]] \/ asked[f].raw

\* After stop() each accept loop hands out at most the one connection it was
\* accepting.
OneAfterStop == \A a \in Addrs : late[a] <= 1

\* stop() ends the accept loops if the accept worker has one thread: the task
\* cancels and closes without a fiber in between.
StopEndsAccept ==
  (spc = "sched" /\ acceptThreads = 1) ~>
    \A a \in Addrs : apc[a] \in {"off", "end"}

-----------------------------------------------------------------------------
(***************************************************************************)
(* The invariant of TcpServerProofs                                        *)
(***************************************************************************)
NoFds == Fds \cup {-1}

TypeOK ==
  /\ m_socks \in Seq(Addrs) /\ m_isStop \in BOOLEAN
  /\ m_sock \in [Files -> NoFds]
  /\ kfile \in [Fds -> Files \cup {NoFile}] /\ knonblock \in [Fds -> BOOLEAN]
  /\ backlog \in [Addrs -> SUBSET Conns]
  /\ m_datas \in [Fds -> FdCtx \cup {NoFile}]
  /\ waiter \in [Fds -> Files \cup {NoFile}] /\ registered \subseteq Fds
  /\ apc \in [Addrs -> {"off", "sched", "loop", "try", "add", "wait", "woken", "get",
                        "make", "init", "end"}]
  /\ lfd \in [Addrs -> NoFds] /\ nfd \in [Addrs -> NoFds]
  /\ hpc \in [Conns -> {"new", "backlog", "accepted", "run", "wait", "close"}]
  /\ spc \in {"off", "sched", "cancel", "cancel2", "del", "closef", "done"}
  /\ asked \in [Files -> [user: BOOLEAN, timeout: {"none", "m_recvTimeout"},
                          raw: BOOLEAN]]
  /\ late \in [Addrs -> Nat]

\* A Socket's descriptor is open and is the one of its own file; the file behind an
\* open descriptor has a Socket, or is in the hands of the accept fiber that got it.
SocksOpen == \A f \in Files : m_sock[f] # -1 => kfile[m_sock[f]] = f
FilesKnown ==
  \A fd \in Fds : kfile[fd] # NoFile =>
    m_sock[kfile[fd]] = fd \/ \E a \in Addrs : nfd[a] = fd

\* Between accept_f and Socket::init a connection is in the hands of one accept fiber:
\* it has no context until GetCreate makes one.
JustAccepted ==
  /\ \A a \in Addrs : nfd[a] # -1 <=> apc[a] \in {"get", "make", "init"}
  /\ \A a \in Addrs : nfd[a] # -1 =>
       LET c == kfile[nfd[a]] IN
       /\ c \in Conns /\ hpc[c] = "accepted" /\ asked[c] = Nothing
       /\ IF apc[a] = "init" THEN m_datas[nfd[a]] = Fresh /\ knonblock[nfd[a]]
                            ELSE m_datas[nfd[a]] = NoFile
  /\ \A a, b \in Addrs : (nfd[a] # -1 /\ nfd[b] # -1
                            /\ kfile[nfd[a]] = kfile[nfd[b]]) => a = b

\* A handler has a Socket and, until it closes it, its context; a connection that was
\* not accepted yet is in one backlog.
Handled ==
  /\ \A c \in Conns : m_sock[c] # -1 <=> hpc[c] \in {"run", "wait", "close"}
  /\ \A c \in Conns : hpc[c] \in {"run", "wait"} => m_datas[m_sock[c]] # NoFile
  /\ \A a \in Addrs : \A c \in backlog[a] : hpc[c] = "backlog"
  /\ \A a, b \in Addrs : a # b => backlog[a] \cap backlog[b] = {}

\* The fiber that the IOManager keeps for a number waits there.
WaitersWait ==
  /\ \A fd \in Fds : \A a \in Addrs : waiter[fd] = a => apc[a] = "wait" /\ lfd[a] = fd
  /\ \A fd \in Fds : \A c \in Conns : waiter[fd] = c => hpc[c] = "wait" /\ m_sock[c] = fd
  /\ \A a \in Addrs : apc[a] = "add" => lfd[a] # -1

\* The context is deleted before the descriptor is closed, so that a number that is
\* free has none.
NoCtxLeft ==
  /\ \A fd \in Fds : kfile[fd] = NoFile => m_datas[fd] = NoFile
  /\ \A c \in Conns : hpc[c] = "close" => m_datas[m_sock[c]] = NoFile
  /\ spc = "closef" => m_datas[m_sock[Current]] = NoFile

\* m_socks has the listening sockets, each once; the task goes through all of them.
Listed ==
  /\ \A i, j \in 1..Len(m_socks) : m_socks[i] = m_socks[j] => i = j
  /\ \A a \in Addrs : m_sock[a] # -1 <=> \E i \in 1..Len(m_socks) : m_socks[i] = a
  /\ spc \in {"sched", "cancel", "cancel2", "del", "closef"} => m_socks # <<>>

\* A server is started and stopped once.
StartedOnce ==
  /\ ~m_isStop => spc = "off" /\ m_socks # <<>>
  /\ m_isStop /\ spc = "off" => \A a \in Addrs : apc[a] = "off"
  /\ \A a \in Addrs : late[a] # 0 =>
       /\ late[a] = 1 /\ m_isStop /\ spc # "off"
       /\ apc[a] \in {"get", "make", "init", "loop", "end"}

IInv ==
  /\ TypeOK
  /\ SocksOpen /\ FilesKnown /\ JustAccepted /\ Handled /\ WaitersWait
  /\ NoCtxLeft /\ Listed /\ StartedOnce
  /\ CtxDescribesFile /\ NeverBlocksThread
=============================================================================
