-------------------------- MODULE TcpServerProofs --------------------------
(***************************************************************************)
(* IInv is an inductive invariant of TcpServer, for any addresses,         *)
(* connections, descriptors and threads of the accept worker.  FdsOwned,   *)
(* CtxDescribesFile, NeverBlocksThread and OneAfterStop follow.            *)
(*                                                                         *)
(* The argument.  Every open descriptor is the m_sock of its own file or   *)
(* the nfd of one accept fiber (SocksOpen, FilesKnown, JustAccepted); the  *)
(* hooked close() takes the context out of the table before it gives the   *)
(* number back (NoCtxLeft), so that GetLookup finds nothing of an earlier  *)
(* file and the new context starts as the new file does.                   *)
(***************************************************************************)
EXTENDS TcpServer, FiniteSetTheorems, SequenceTheorems, TLAPS

\* -1 is not a descriptor, and a file is not the mark of none.
LEMMA NoFdFacts ==
  /\ -1 \notin Fds
  /\ \A a \in Addrs : a # NoFile /\ a \in Files /\ a \notin Conns
  /\ \A c \in Conns : c # NoFile /\ c \in Files /\ c \notin Addrs
  /\ \A f \in Files : f # NoFile
  /\ \A d \in FdCtx : d # NoFile
  /\ Fresh \in FdCtx
BY TcpAssumption DEF Files, Fresh, FdCtx

\* A finite set is listed by SetToSeq, each of its elements once.
LEMMA SetToSeqFacts ==
  ASSUME NEW S, IsFiniteSet(S)
  PROVE  /\ SetToSeq(S) \in Seq(S)
         /\ \A i, j \in 1..Len(SetToSeq(S)) : SetToSeq(S)[i] = SetToSeq(S)[j] => i = j
         /\ \A x \in S : \E i \in 1..Len(SetToSeq(S)) : SetToSeq(S)[i] = x
<1> DEFINE n == Cardinality(S)
           q == SetToSeq(S)
<1>1. n \in Nat /\ \E f \in [1..n -> S] : IsInjective(f)
  BY FS_CardinalityType DEF ExistsBijection, Bijection, Injection, IsInjective
<1>2. q \in [1..n -> S] /\ IsInjective(q)
  <2>1. q = CHOOSE f \in [1..n -> S] : IsInjective(f)
    BY DEF SetToSeq
  <2> HIDE DEF n, q
  <2> QED BY <1>1, <2>1
<1> HIDE DEF q
<1>3. q \in Seq(S) /\ Len(q) = n
  <2> HIDE DEF n
  <2> QED BY <1>1, <1>2
<1>4. q \in Surjection(1..n, S)
  <2>1. q \in Injection(1..n, S)
    BY <1>2 DEF Injection
  <2>2. Cardinality(1..n) = n
    <3>1. Cardinality(1..n) = IF 1 > n THEN 0 ELSE n - 1 + 1
      <4> HIDE DEF n
      <4> QED BY <1>1, FS_Interval
    <3> HIDE DEF n
    <3> QED BY <1>1, <3>1
  <2> QED BY <2>1, <2>2, FS_Injection
<1>5. \A x \in S : \E i \in 1..n : q[i] = x
  BY <1>2, <1>4 DEF Surjection
<1> QED BY <1>2, <1>3, <1>5 DEF IsInjective, q

\* A list holds x; it holds nothing twice.
Holds(s, x) == \E i \in 1..Len(s) : s[i] = x

Once(s) == \A i, j \in 1..Len(s) : s[i] = s[j] => i = j

\* Two lists without repetitions and without common elements, one after the other.
LEMMA ConcatOnce ==
  ASSUME NEW S, NEW A \in SUBSET S, NEW s \in Seq(S), NEW q \in Seq(A),
         Once(s), Once(q), \A x \in A : ~Holds(s, x)
  PROVE  /\ Once(s \o q)
         /\ \A x : Holds(s \o q, x) <=> Holds(s, x) \/ Holds(q, x)
         /\ \A x : Holds(q, x) => x \in A
<1> DEFINE w == s \o q
           n == Len(s)
           m == Len(q)
<1>1. q \in Seq(S) /\ n \in Nat /\ m \in Nat
  OBVIOUS
<1>2. Len(w) = n + m /\ \A i \in 1..(n + m) : w[i] = IF i <= n THEN s[i] ELSE q[i - n]
  BY <1>1, ConcatProperties
<1>0. /\ \A i, j \in 1..Len(s) : s[i] = s[j] => i = j
      /\ \A i, j \in 1..Len(q) : q[i] = q[j] => i = j
      /\ \A i \in 1..Len(s) : s[i] \notin A
  BY DEF Once, Holds
<1>3. \A i \in 1..m : q[i] \in A
  OBVIOUS
<1> HIDE DEF w
<1>4. /\ \A i \in 1..n : i \in 1..Len(w) /\ w[i] = s[i]
      /\ \A i \in 1..m : n + i \in 1..Len(w) /\ w[n + i] = q[i]
  <2>1. ASSUME NEW i \in 1..m PROVE n + i \in 1..Len(w) /\ w[n + i] = q[i]
    <3>1. n + i \in 1..(n + m) /\ ~(n + i <= n) /\ (n + i) - n = i
      BY <1>1
    <3> QED BY <1>2, <3>1
  <2>2. ASSUME NEW i \in 1..n PROVE i \in 1..Len(w) /\ w[i] = s[i]
    <3>1. i \in 1..(n + m) /\ i <= n
      BY <1>1
    <3> QED BY <1>2, <3>1
  <2> QED BY <2>1, <2>2
<1>5. ASSUME NEW i \in 1..Len(w), i \notin 1..n
      PROVE  i - n \in 1..m /\ i = n + (i - n) /\ w[i] = q[i - n]
  <2>1. i - n \in 1..m /\ i = n + (i - n) /\ i \in 1..(n + m) /\ ~(i <= n)
    BY <1>1, <1>2, <1>5
  <2> QED BY <1>2, <2>1
<1> HIDE DEF n, m
<1>6. ASSUME NEW i \in 1..Len(w), NEW j \in 1..Len(w), w[i] = w[j] PROVE i = j
  <2>1. CASE i \in 1..n /\ j \in 1..n
    BY <1>0, <1>4, <1>6, <2>1 DEF n
  <2>2. CASE i \notin 1..n /\ j \notin 1..n
    <3>1. i - n = j - n
      BY <1>0, <1>5, <1>6, <2>2 DEF m
    <3> QED BY <1>5, <2>2, <3>1
  <2>3. CASE i \in 1..n /\ j \notin 1..n
    <3>1. w[i] \notin A /\ w[j] \in A
      BY <1>0, <1>3, <1>4, <1>5, <2>3 DEF n
    <3> QED BY <1>6, <3>1
  <2>4. CASE i \notin 1..n /\ j \in 1..n
    <3>1. w[j] \notin A /\ w[i] \in A
      BY <1>0, <1>3, <1>4, <1>5, <2>4 DEF n
    <3> QED BY <1>6, <3>1
  <2> QED BY <2>1, <2>2, <2>3, <2>4
<1>7. ASSUME NEW x
      PROVE  (\E i \in 1..Len(w) : w[i] = x) <=>
               (\E i \in 1..n : s[i] = x) \/ \E i \in 1..m : q[i] = x
  BY <1>4, <1>5
<1> QED BY <1>3, <1>6, <1>7 DEF w, n, m, Once, Holds

\* The socket that the stop task is at.
LEMMA CurrentFacts ==
  ASSUME IInv, spc \in {"cancel", "cancel2", "del", "closef"}
  PROVE  /\ Current \in Addrs /\ m_sock[Current] \in Fds /\ m_sock[Current] # -1
         /\ kfile[m_sock[Current]] = Current
<1>1. m_socks \in Seq(Addrs) /\ m_socks # <<>>
  BY DEF IInv, TypeOK, Listed
<1>2. Current \in Addrs /\ Current = m_socks[1] /\ 1 \in 1..Len(m_socks)
  BY <1>1 DEF Current
<1>3. m_sock[Current] # -1
  BY <1>2 DEF IInv, Listed
<1> QED BY <1>2, <1>3, NoFdFacts DEF IInv, TypeOK, NoFds, SocksOpen

\* An accept fiber that has no connection in its hands, and waits for none, goes on; or
\* it looks for the context of the descriptor that it has just got.
LEMMA FiberMoves ==
  ASSUME IInv, NEW a \in Addrs, apc[a] \in {"sched", "woken", "loop", "try", "get"},
         Goto(a, apc'[a]), apc'[a] \in {"loop", "try", "add", "end", "make"},
         apc'[a] = "make" <=> apc[a] = "get",
         lfd' = lfd \/ \E fd \in NoFds : lfd' = [lfd EXCEPT ![a] = fd],
         apc'[a] = "add" => lfd'[a] # -1,
         late[a] # 0 => apc'[a] \in {"make", "loop", "end"},
         spc # "off" \/ ~m_isStop,
         UNCHANGED <<m_socks, m_isStop, m_sock, kfile, knonblock, backlog, m_datas,
                     waiter, registered, nfd, hpc, spc, asked, late>>
  PROVE  IInv'
<1>1. \A b \in Addrs \ {a} : apc'[b] = apc[b] /\ lfd'[b] = lfd[b]
  BY DEF IInv, TypeOK, Goto
<1>2. TypeOK'
  <2>1. apc' \in [Addrs -> {"off", "sched", "loop", "try", "add", "wait", "woken", "get",
                           "make", "init", "end"}]
    BY DEF IInv, TypeOK, Goto
  <2>2. lfd' \in [Addrs -> NoFds]
    BY DEF IInv, TypeOK
  <2> QED BY <2>1, <2>2 DEF IInv, TypeOK
<1>3. SocksOpen' /\ FilesKnown' /\ CtxDescribesFile' /\ NeverBlocksThread'
  BY DEF IInv, SocksOpen, FilesKnown, CtxDescribesFile, NeverBlocksThread, Get, Valid
<1>4. JustAccepted'
  <2>1. \A b \in Addrs : /\ apc'[b] \in {"get", "make", "init"} <=>
                              apc[b] \in {"get", "make", "init"}
                         /\ apc'[b] = "init" <=> apc[b] = "init"
    BY <1>1
  <2> QED BY <2>1 DEF IInv, JustAccepted
<1>5. Handled' /\ NoCtxLeft' /\ Listed'
  BY DEF IInv, Handled, NoCtxLeft, Listed, Current
<1>6. WaitersWait'
  <2>1. \A fd \in Fds : waiter[fd] # a
    BY DEF IInv, WaitersWait
  <2> QED BY <1>1, <2>1 DEF IInv, WaitersWait
<1>7. StartedOnce'
  BY <1>1 DEF IInv, StartedOnce
<1> QED BY <1>2, <1>3, <1>4, <1>5, <1>6, <1>7 DEF IInv

\* The server has been started when an accept fiber runs.
LEMMA FiberRuns ==
  ASSUME IInv, NEW a \in Addrs, apc[a] # "off"
  PROVE  spc # "off" \/ ~m_isStop
BY DEF IInv, StartedOnce

\* The step of an accept fiber, as the lemma above wants it.
LEMMA FiberGoes ==
  ASSUME IInv, NEW a \in Addrs, NEW to, Goto(a, to)
  PROVE  Goto(a, apc'[a]) /\ apc'[a] = to
BY DEF IInv, TypeOK, Goto

LEMMA ResumeInv ==
  ASSUME IInv, NEW a \in Addrs, Resume(a)
  PROVE  IInv'
<1>1. UNCHANGED <<m_socks, m_isStop, m_sock, kfile, knonblock, backlog, m_datas, waiter,
                  registered, lfd, nfd, hpc, spc, asked, late>>
  BY DEF Resume, serverVars, kernelVars, userVars
<1>2. CASE apc[a] = "sched" /\ Goto(a, "loop")
  <2>1. /\ Goto(a, apc'[a]) /\ apc'[a] = "loop"
        /\ spc # "off" \/ ~m_isStop
    BY <1>2, FiberGoes, FiberRuns
  <2> QED BY <1>1, <1>2, <2>1, FiberMoves
<1>3. CASE apc[a] = "woken" /\ Goto(a, "try")
  <2>1. /\ Goto(a, apc'[a]) /\ apc'[a] = "try"
        /\ spc # "off" \/ ~m_isStop
    BY <1>3, FiberGoes, FiberRuns
  <2>2. late[a] = 0
    BY <1>3 DEF IInv, StartedOnce
  <2> QED BY <1>1, <1>3, <2>1, <2>2, FiberMoves
<1> QED BY <1>2, <1>3 DEF Resume, AStep

\* The loop looks at m_isStop: the fiber that has accepted after stop() ends here.
LEMMA LoopInv ==
  ASSUME IInv, NEW a \in Addrs, Loop(a)
  PROVE  IInv'
<1>1. /\ apc[a] = "loop"
      /\ UNCHANGED <<m_socks, m_isStop, m_sock, kfile, knonblock, backlog, m_datas,
                     waiter, registered, nfd, hpc, spc, asked, late>>
  BY DEF Loop, AStep, serverVars, kernelVars, userVars
<1>2. CASE m_isStop
  <2>1. Goto(a, "end") /\ lfd' = lfd
    BY <1>2 DEF Loop
  <2>2. Goto(a, apc'[a]) /\ apc'[a] = "end" /\ spc # "off"
    BY <1>1, <1>2, <2>1, FiberGoes, FiberRuns
  <2> QED BY <1>1, <2>1, <2>2, FiberMoves
<1>3. CASE ~m_isStop
  <2>1. Goto(a, "try") /\ lfd' = [lfd EXCEPT ![a] = m_sock[a]]
    BY <1>3 DEF Loop
  <2>2. Goto(a, apc'[a]) /\ apc'[a] = "try"
    BY <2>1, FiberGoes
  <2>3. late[a] = 0
    BY <1>3 DEF IInv, StartedOnce
  <2>4. m_sock[a] \in NoFds
    BY NoFdFacts DEF IInv, TypeOK
  <2> QED BY <1>1, <1>3, <2>1, <2>2, <2>3, <2>4, FiberMoves
<1> QED BY <1>2, <1>3

LEMMA AcceptFailsInv ==
  ASSUME IInv, NEW a \in Addrs, AcceptFails(a)
  PROVE  IInv'
<1>1. /\ apc[a] = "try" /\ Goto(a, "loop")
      /\ UNCHANGED <<m_socks, m_isStop, m_sock, kfile, knonblock, backlog, m_datas,
                     waiter, registered, lfd, nfd, hpc, spc, asked, late>>
  BY DEF AcceptFails, AStep, serverVars, kernelVars, userVars
<1>2. /\ Goto(a, apc'[a]) /\ apc'[a] = "loop"
      /\ spc # "off" \/ ~m_isStop
  BY <1>1, FiberGoes, FiberRuns
<1> QED BY <1>1, <1>2, FiberMoves

LEMMA AcceptBlocksInv ==
  ASSUME IInv, NEW a \in Addrs, AcceptBlocks(a)
  PROVE  IInv'
<1>1. /\ apc[a] = "try" /\ Goto(a, "add") /\ lfd[a] \in Fds
      /\ UNCHANGED <<m_socks, m_isStop, m_sock, kfile, knonblock, backlog, m_datas,
                     waiter, registered, lfd, nfd, hpc, spc, asked, late>>
  BY DEF AcceptBlocks, AStep, Listening, Valid, serverVars, kernelVars, userVars
<1>2. /\ Goto(a, apc'[a]) /\ apc'[a] = "add" /\ lfd'[a] # -1
      /\ spc # "off" \/ ~m_isStop
  BY <1>1, NoFdFacts, FiberGoes, FiberRuns
<1>3. late[a] = 0
  BY <1>1 DEF IInv, StartedOnce
<1> QED BY <1>1, <1>2, <1>3, FiberMoves

\* FdManager::get finds no context of an earlier file with the same number.
LEMMA GetLookupInv ==
  ASSUME IInv, NEW a \in Addrs, GetLookup(a)
  PROVE  IInv'
<1>1. apc[a] = "get" /\ m_datas[nfd[a]] = NoFile
  BY DEF GetLookup, AStep, IInv, JustAccepted
<1>2. /\ Goto(a, "make")
      /\ UNCHANGED <<m_socks, m_isStop, m_sock, kfile, knonblock, backlog, m_datas,
                     waiter, registered, lfd, nfd, hpc, spc, asked, late>>
  BY <1>1 DEF GetLookup, serverVars, kernelVars, userVars
<1>3. /\ Goto(a, apc'[a]) /\ apc'[a] = "make"
      /\ spc # "off" \/ ~m_isStop
  BY <1>1, <1>2, FiberGoes, FiberRuns
<1> QED BY <1>1, <1>2, <1>3, FiberMoves

\* addEvent: the fiber waits, and is the waiter of its number unless the ASSERT fails.
LEMMA AcceptWaitsInv ==
  ASSUME IInv, NEW a \in Addrs, AcceptWaits(a)
  PROVE  IInv'
<1>1. /\ apc[a] = "add"
      /\ UNCHANGED <<m_socks, m_isStop, m_sock, kfile, knonblock, backlog, m_datas, lfd,
                     nfd, hpc, spc, asked, late>>
  BY DEF AcceptWaits, AStep, serverVars, userVars
<1>2. lfd[a] \in Fds
  BY <1>1 DEF IInv, TypeOK, WaitersWait, NoFds
<1>3. \/ Goto(a, "loop") /\ UNCHANGED <<waiter, registered>>
      \/ /\ Goto(a, "wait") /\ registered' = registered \cup {lfd[a]}
         /\ waiter' = [waiter EXCEPT ![lfd[a]] = IF @ = NoFile THEN a ELSE @]
  BY DEF AcceptWaits, AddEvent
<1>4. /\ apc'[a] \in {"loop", "wait"} /\ \A b \in Addrs \ {a} : apc'[b] = apc[b]
      /\ apc'[a] = "loop" => UNCHANGED waiter
  BY <1>3 DEF Goto, IInv, TypeOK
<1>5. \A fd \in Fds : waiter'[fd] = waiter[fd]
                      \/ (fd = lfd[a] /\ waiter'[fd] = a /\ apc'[a] = "wait")
  BY <1>3 DEF Goto, IInv, TypeOK
<1>6. TypeOK'
  <2>1. apc' \in [Addrs -> {"off", "sched", "loop", "try", "add", "wait", "woken", "get",
                           "make", "init", "end"}]
    BY <1>3 DEF IInv, TypeOK, Goto
  <2>2. waiter' \in [Fds -> Files \cup {NoFile}] /\ registered' \subseteq Fds
    BY <1>2, <1>3 DEF IInv, TypeOK, Files
  <2> QED BY <1>1, <2>1, <2>2 DEF IInv, TypeOK
<1>7. SocksOpen' /\ FilesKnown' /\ CtxDescribesFile' /\ NeverBlocksThread'
  BY <1>1 DEF IInv, SocksOpen, FilesKnown, CtxDescribesFile, NeverBlocksThread, Get, Valid
<1>8. JustAccepted'
  BY <1>1, <1>4 DEF IInv, JustAccepted
<1>9. Handled' /\ NoCtxLeft' /\ Listed'
  BY <1>1 DEF IInv, Handled, NoCtxLeft, Listed, Current
<1>10. WaitersWait'
  <2>1. \A fd \in Fds : waiter[fd] # a
    BY <1>1 DEF IInv, WaitersWait
  <2>2. ASSUME NEW fd \in Fds, NEW b \in Addrs, waiter'[fd] = b
        PROVE  apc'[b] = "wait" /\ lfd'[b] = fd
    BY <1>1, <1>4, <1>5, <2>1, <2>2 DEF IInv, WaitersWait
  <2>3. ASSUME NEW fd \in Fds, NEW c \in Conns, waiter'[fd] = c
        PROVE  hpc[c] = "wait" /\ m_sock[c] = fd
    BY <1>5, <2>3, NoFdFacts DEF IInv, WaitersWait
  <2> QED BY <1>1, <1>4, <2>2, <2>3 DEF IInv, WaitersWait
<1>11. StartedOnce'
  BY <1>1, <1>4 DEF IInv, StartedOnce
<1> QED BY <1>6, <1>7, <1>8, <1>9, <1>10, <1>11 DEF IInv

\* accept_f: the connection had no descriptor, and the descriptor no file and no context.
LEMMA AcceptOkInv ==
  ASSUME IInv, NEW a \in Addrs, AcceptOk(a)
  PROVE  IInv'
<1> DEFINE l == kfile[lfd[a]]
<1>1. /\ apc[a] = "try" /\ l \in Addrs
      /\ apc' = [apc EXCEPT ![a] = "get"]
      /\ late' = [late EXCEPT ![a] = IF m_isStop THEN @ + 1 ELSE @]
      /\ UNCHANGED <<m_socks, m_isStop, m_sock, registered, m_datas, waiter, lfd, spc>>
  BY DEF AcceptOk, AStep, Goto, Listening, serverVars
<1>2. PICK c \in backlog[l] : \E fd \in FreeFds :
        /\ kfile' = [kfile EXCEPT ![fd] = c]
        /\ knonblock' = [knonblock EXCEPT ![fd] = FALSE]
        /\ backlog' = [backlog EXCEPT ![l] = @ \ {c}]
        /\ nfd' = [nfd EXCEPT ![a] = fd]
        /\ hpc' = [hpc EXCEPT ![c] = "accepted"]
        /\ asked' = [asked EXCEPT ![c] = Nothing]
  BY DEF AcceptOk
<1>3. PICK fd \in FreeFds :
        /\ kfile' = [kfile EXCEPT ![fd] = c]
        /\ knonblock' = [knonblock EXCEPT ![fd] = FALSE]
        /\ backlog' = [backlog EXCEPT ![l] = @ \ {c}]
        /\ nfd' = [nfd EXCEPT ![a] = fd]
        /\ hpc' = [hpc EXCEPT ![c] = "accepted"]
        /\ asked' = [asked EXCEPT ![c] = Nothing]
  BY <1>2
<1> HIDE DEF l
<1>4. c \in Conns /\ c \in Files /\ c # NoFile /\ fd \in Fds /\ fd # -1 /\ kfile[fd] = NoFile
  BY <1>1, NoFdFacts DEF IInv, TypeOK, FreeFds
<1>5. hpc[c] = "backlog" /\ m_sock[c] = -1
  BY <1>1, <1>4 DEF IInv, Handled
<1>6. m_datas[fd] = NoFile /\ \A f \in Files : m_sock[f] # fd
  BY <1>4, NoFdFacts DEF IInv, NoCtxLeft, SocksOpen
<1>7. /\ nfd[a] = -1 /\ \A b \in Addrs : nfd[b] # fd
      /\ \A b \in Addrs : nfd[b] # -1 => kfile[nfd[b]] # c
      /\ spc # "off" \/ ~m_isStop
  BY <1>1, <1>4, <1>5, NoFdFacts DEF IInv, JustAccepted, StartedOnce
<1>8. /\ apc'[a] = "get" /\ nfd'[a] = fd
      /\ \A b \in Addrs \ {a} : apc'[b] = apc[b] /\ nfd'[b] = nfd[b] /\ late'[b] = late[b]
      /\ kfile'[fd] = c
      /\ \A e \in Fds \ {fd} : kfile'[e] = kfile[e] /\ knonblock'[e] = knonblock[e]
      /\ hpc'[c] = "accepted" /\ \A d \in Conns \ {c} : hpc'[d] = hpc[d]
      /\ asked'[c] = Nothing /\ \A f \in Files \ {c} : asked'[f] = asked[f]
      /\ \A b \in Addrs : backlog'[b] = IF b = l THEN backlog[l] \ {c} ELSE backlog[b]
  BY <1>1, <1>3, <1>4 DEF IInv, TypeOK
<1>9. TypeOK'
  <2>1. Nothing \in [user: BOOLEAN, timeout: {"none", "m_recvTimeout"}, raw: BOOLEAN]
    BY DEF Nothing
  <2>2. late' \in [Addrs -> Nat]
    <3>1. late[a] + 1 \in Nat
      BY DEF IInv, TypeOK
    <3> QED BY <1>1, <3>1 DEF IInv, TypeOK
  <2>3. /\ apc' \in [Addrs -> {"off", "sched", "loop", "try", "add", "wait", "woken",
                              "get", "make", "init", "end"}]
        /\ hpc' \in [Conns -> {"new", "backlog", "accepted", "run", "wait", "close"}]
    BY <1>1, <1>3 DEF IInv, TypeOK
  <2>4. /\ kfile' \in [Fds -> Files \cup {NoFile}] /\ knonblock' \in [Fds -> BOOLEAN]
        /\ backlog' \in [Addrs -> SUBSET Conns] /\ nfd' \in [Addrs -> NoFds]
        /\ asked' \in [Files -> [user: BOOLEAN, timeout: {"none", "m_recvTimeout"},
                                 raw: BOOLEAN]]
    <3> HIDE DEF Nothing
    <3> QED BY <1>3, <1>4, <2>1 DEF IInv, TypeOK, NoFds
  <2> QED BY <1>1, <2>2, <2>3, <2>4 DEF IInv, TypeOK
<1>10. SocksOpen'
  BY <1>1, <1>6, <1>8 DEF IInv, TypeOK, NoFds, SocksOpen
<1>11. FilesKnown'
  <2>1. ASSUME NEW e \in Fds, e # fd, kfile[e] # NoFile
        PROVE  m_sock[kfile[e]] = e \/ \E b \in Addrs \ {a} : nfd[b] = e
    BY <1>7, <2>1, NoFdFacts DEF IInv, FilesKnown
  <2> QED BY <1>1, <1>8, <2>1 DEF FilesKnown
<1>12. JustAccepted'
  <2>1. ASSUME NEW b \in Addrs
        PROVE  nfd'[b] # -1 <=> apc'[b] \in {"get", "make", "init"}
    BY <1>4, <1>8 DEF IInv, JustAccepted
  <2>2. ASSUME NEW b \in Addrs, b # a, nfd'[b] # -1
        PROVE  /\ nfd'[b] = nfd[b] /\ nfd[b] \in Fds \ {fd} /\ kfile'[nfd[b]] = kfile[nfd[b]]
               /\ kfile[nfd[b]] \in Conns \ {c}
    BY <1>7, <1>8, <2>2 DEF IInv, TypeOK, NoFds, JustAccepted
  <2>3. ASSUME NEW b \in Addrs, nfd'[b] # -1
        PROVE  LET e == kfile'[nfd'[b]] IN
               /\ e \in Conns /\ hpc'[e] = "accepted" /\ asked'[e] = Nothing
               /\ IF apc'[b] = "init" THEN m_datas'[nfd'[b]] = Fresh /\ knonblock'[nfd'[b]]
                                     ELSE m_datas'[nfd'[b]] = NoFile
    <3>1. CASE b = a
      BY <1>1, <1>4, <1>6, <1>8, <3>1
    <3>2. CASE b # a
      <4> HIDE DEF Nothing, Fresh
      <4>1. kfile[nfd[b]] \in Files \ {c}
        BY <2>2, <2>3, <3>2, NoFdFacts
      <4> QED BY <1>1, <1>8, <2>2, <2>3, <3>2, <4>1 DEF IInv, JustAccepted
    <3> QED BY <3>1, <3>2
  <2>4. ASSUME NEW b \in Addrs, NEW d \in Addrs, nfd'[b] # -1, nfd'[d] # -1,
               kfile'[nfd'[b]] = kfile'[nfd'[d]]
        PROVE  b = d
    BY <1>8, <2>2, <2>4 DEF IInv, JustAccepted
  <2> QED BY <2>1, <2>3, <2>4 DEF JustAccepted
<1>13. Handled'
  <2>1. \A b \in Addrs : backlog'[b] \subseteq backlog[b] /\ c \notin backlog'[b]
    BY <1>1, <1>2, <1>8 DEF IInv, Handled
  <2>2. \A d \in Conns : m_sock[d] # -1 <=> hpc'[d] \in {"run", "wait", "close"}
    BY <1>5, <1>8 DEF IInv, Handled
  <2>3. \A b \in Addrs : \A d \in backlog'[b] : hpc'[d] = "backlog"
    BY <1>8, <2>1 DEF IInv, TypeOK, Handled
  <2>4. \A d \in Conns : hpc'[d] \in {"run", "wait"} => m_datas[m_sock[d]] # NoFile
    BY <1>8 DEF IInv, Handled
  <2>5. \A b, d \in Addrs : b # d => backlog'[b] \cap backlog'[d] = {}
    BY <2>1 DEF IInv, Handled
  <2> QED BY <1>1, <2>2, <2>3, <2>4, <2>5 DEF Handled
<1>14. WaitersWait'
  BY <1>1, <1>5, <1>8 DEF IInv, WaitersWait
<1>15. NoCtxLeft'
  BY <1>1, <1>4, <1>8 DEF IInv, NoCtxLeft, Current
<1>16. Listed'
  BY <1>1 DEF IInv, Listed
<1>17. StartedOnce'
  <2>1. late[a] = 0
    BY <1>1 DEF IInv, StartedOnce
  <2>2. late'[a] = IF m_isStop THEN 1 ELSE 0
    BY <1>1, <2>1 DEF IInv, TypeOK
  <2> QED BY <1>1, <1>7, <1>8, <2>2 DEF IInv, StartedOnce
<1>18. CtxDescribesFile' /\ NeverBlocksThread'
  <2>1. ASSUME NEW f \in Files, m_sock[f] # -1
        PROVE  m_sock[f] \in Fds \ {fd} /\ f # c
    BY <1>5, <1>6, <2>1 DEF IInv, TypeOK, NoFds
  <2> QED BY <1>1, <1>8, <2>1 DEF IInv, CtxDescribesFile, NeverBlocksThread, Get, Valid
<1> QED BY <1>9, <1>10, <1>11, <1>12, <1>13, <1>14, <1>15, <1>16, <1>17, <1>18 DEF IInv

\* The write lock of FdManager::get: the context of a file of which nothing was asked.
LEMMA GetCreateInv ==
  ASSUME IInv, NEW a \in Addrs, GetCreate(a)
  PROVE  IInv'
<1> DEFINE fd == nfd[a]
<1>1. /\ apc[a] = "make" /\ apc' = [apc EXCEPT ![a] = "init"]
      /\ m_datas' = [m_datas EXCEPT ![fd] = Fresh]
      /\ knonblock' = [knonblock EXCEPT ![fd] = TRUE]
      /\ UNCHANGED <<m_socks, m_isStop, m_sock, kfile, backlog, registered, waiter, lfd,
                     nfd, hpc, spc, asked, late>>
  BY DEF GetCreate, AStep, Goto, serverVars, userVars
<1>2. fd \in Fds /\ fd # -1 /\ kfile[fd] \in Conns /\ hpc[kfile[fd]] = "accepted"
  BY <1>1, NoFdFacts DEF IInv, TypeOK, NoFds, JustAccepted
<1>3. \A f \in Files : m_sock[f] # fd
  BY <1>2 DEF IInv, SocksOpen, Handled
<1>4. \A b \in Addrs \ {a} : nfd[b] # fd
  BY <1>2 DEF IInv, JustAccepted
<1> HIDE DEF fd
<1>5. /\ apc'[a] = "init" /\ \A b \in Addrs \ {a} : apc'[b] = apc[b]
      /\ m_datas'[fd] = Fresh /\ knonblock'[fd]
      /\ \A e \in Fds \ {fd} : m_datas'[e] = m_datas[e] /\ knonblock'[e] = knonblock[e]
  BY <1>1, <1>2 DEF IInv, TypeOK
<1>6. TypeOK'
  <2> HIDE DEF Fresh, FdCtx
  <2>1. m_datas' \in [Fds -> FdCtx \cup {NoFile}] /\ knonblock' \in [Fds -> BOOLEAN]
    BY <1>1, NoFdFacts DEF IInv, TypeOK
  <2>2. apc' \in [Addrs -> {"off", "sched", "loop", "try", "add", "wait", "woken", "get",
                           "make", "init", "end"}]
    BY <1>1 DEF IInv, TypeOK
  <2> QED BY <1>1, <2>1, <2>2 DEF IInv, TypeOK
<1>7. SocksOpen' /\ FilesKnown' /\ Listed'
  BY <1>1 DEF IInv, SocksOpen, FilesKnown, Listed
<1>8. JustAccepted'
  <2>1. ASSUME NEW b \in Addrs
        PROVE  nfd[b] # -1 <=> apc'[b] \in {"get", "make", "init"}
    BY <1>1, <1>5 DEF IInv, JustAccepted
  <2>2. ASSUME NEW b \in Addrs, nfd[b] # -1
        PROVE  IF apc'[b] = "init" THEN m_datas'[nfd[b]] = Fresh /\ knonblock'[nfd[b]]
                                  ELSE m_datas'[nfd[b]] = NoFile
    <3>1. CASE b = a
      BY <1>5, <3>1 DEF fd
    <3>2. CASE b # a
      <4>1. nfd[b] \in Fds \ {fd}
        BY <1>4, <2>2, <3>2 DEF IInv, TypeOK, NoFds
      <4> QED BY <1>5, <2>2, <3>2, <4>1 DEF IInv, JustAccepted
    <3> QED BY <3>1, <3>2
  <2> QED BY <1>1, <2>1, <2>2 DEF IInv, JustAccepted
<1>9. \A f \in Files : m_sock[f] # -1 => m_sock[f] \in Fds \ {fd}
  BY <1>3 DEF IInv, TypeOK, NoFds
<1>10. Handled'
  <2>1. \A c \in Conns : hpc[c] \in {"run", "wait"} => m_datas'[m_sock[c]] # NoFile
    BY <1>5, <1>9, NoFdFacts DEF IInv, Handled
  <2> QED BY <1>1, <2>1 DEF IInv, Handled
<1>11. WaitersWait' /\ StartedOnce'
  BY <1>1, <1>5 DEF IInv, WaitersWait, StartedOnce
<1>12. NoCtxLeft'
  <2>1. \A e \in Fds : kfile[e] = NoFile => m_datas'[e] = NoFile
    BY <1>2, <1>5, NoFdFacts DEF IInv, NoCtxLeft
  <2>2. \A c \in Conns : hpc[c] = "close" => m_datas'[m_sock[c]] = NoFile
    BY <1>5, <1>9, NoFdFacts DEF IInv, NoCtxLeft, Handled
  <2>3. spc = "closef" => m_datas'[m_sock[Current]] = NoFile
    <3>1. SUFFICES ASSUME spc = "closef" PROVE m_datas'[m_sock[Current]] = NoFile
      OBVIOUS
    <3>2. Current \in Addrs /\ m_sock[Current] # -1
      BY <3>1, CurrentFacts
    <3> QED BY <1>5, <1>9, <3>1, <3>2, NoFdFacts DEF IInv, NoCtxLeft
  <2> QED BY <1>1, <2>1, <2>2, <2>3 DEF NoCtxLeft, Current
<1>13. CtxDescribesFile' /\ NeverBlocksThread'
  BY <1>1, <1>5, <1>9 DEF IInv, CtxDescribesFile, NeverBlocksThread, Get, Valid
<1> QED BY <1>6, <1>7, <1>8, <1>10, <1>11, <1>12, <1>13 DEF IInv

\* Socket::init and setRecvTimeout: the connection has a Socket and the context that
\* was made for it; its handler can run.
LEMMA InitClientInv ==
  ASSUME IInv, NEW a \in Addrs, InitClient(a)
  PROVE  IInv'
<1> DEFINE fd == nfd[a]
           c == kfile[fd]
<1>1. apc[a] = "init" /\ fd # -1 /\ fd \in Fds /\ c \in Conns /\ hpc[c] = "accepted"
      /\ asked[c] = Nothing /\ m_datas[fd] = Fresh /\ knonblock[fd]
  BY NoFdFacts DEF InitClient, AStep, IInv, TypeOK, NoFds, JustAccepted
<1>2. /\ apc' = [apc EXCEPT ![a] = "loop"] /\ nfd' = [nfd EXCEPT ![a] = -1]
      /\ m_sock' = [m_sock EXCEPT ![c] = fd]
      /\ m_datas' = [m_datas EXCEPT ![fd].timeout = "m_recvTimeout"]
      /\ asked' = [asked EXCEPT ![c].timeout = "m_recvTimeout"]
      /\ hpc' = [hpc EXCEPT ![c] = "run"]
      /\ UNCHANGED <<m_socks, m_isStop, kfile, knonblock, backlog, registered, waiter,
                     lfd, spc, late>>
  BY <1>1, NoFdFacts DEF InitClient, Goto, Get, Valid, serverVars, kernelVars
<1>3. c \in Files /\ c \notin Addrs /\ m_sock[c] = -1 /\ \A f \in Files : m_sock[f] # fd
  BY <1>1, NoFdFacts DEF IInv, SocksOpen, Handled
<1>4. \A b \in Addrs \ {a} : nfd[b] # -1 => nfd[b] # fd /\ kfile[nfd[b]] # c
  BY <1>1 DEF IInv, JustAccepted
<1> HIDE DEF fd, c
<1>5. /\ m_datas'[fd] \in FdCtx
      /\ m_datas'[fd].user = asked'[c].user /\ m_datas'[fd].timeout = asked'[c].timeout
  <2>1. /\ m_datas'[fd] = [m_datas[fd] EXCEPT !.timeout = "m_recvTimeout"]
        /\ asked'[c] = [asked[c] EXCEPT !.timeout = "m_recvTimeout"]
    BY <1>1, <1>2, <1>3 DEF IInv, TypeOK
  <2>2. m_datas[fd].user = FALSE /\ asked[c].user = FALSE
    BY <1>1 DEF Fresh, Nothing
  <2>3. /\ m_datas[fd] \in FdCtx
        /\ asked[c] \in [user: BOOLEAN, timeout: {"none", "m_recvTimeout"}, raw: BOOLEAN]
    BY <1>1, <1>3, NoFdFacts DEF IInv, TypeOK
  <2> QED BY <2>1, <2>2, <2>3 DEF FdCtx
<1>6. /\ apc'[a] = "loop" /\ nfd'[a] = -1
      /\ \A b \in Addrs \ {a} : apc'[b] = apc[b] /\ nfd'[b] = nfd[b]
      /\ m_sock'[c] = fd /\ hpc'[c] = "run"
      /\ \A f \in Files \ {c} : m_sock'[f] = m_sock[f] /\ asked'[f] = asked[f]
      /\ \A d \in Conns \ {c} : hpc'[d] = hpc[d]
      /\ \A e \in Fds \ {fd} : m_datas'[e] = m_datas[e]
  BY <1>1, <1>2, <1>3 DEF IInv, TypeOK
<1>7. \A f \in Files \ {c} : m_sock[f] # -1 => m_sock[f] \in Fds \ {fd}
  BY <1>3 DEF IInv, TypeOK, NoFds
<1>8. m_datas'[fd] # NoFile
  BY <1>5, NoFdFacts
<1>9. TypeOK'
  <2>1. m_datas' \in [Fds -> FdCtx \cup {NoFile}]
    <3> HIDE DEF FdCtx
    <3>1. m_datas' = [m_datas EXCEPT ![fd] = m_datas'[fd]]
      BY <1>1, <1>2 DEF IInv, TypeOK
    <3> QED BY <1>5, <3>1 DEF IInv, TypeOK
  <2>2. asked' \in [Files -> [user: BOOLEAN, timeout: {"none", "m_recvTimeout"},
                             raw: BOOLEAN]]
    BY <1>2 DEF IInv, TypeOK
  <2>3. m_sock' \in [Files -> NoFds] /\ nfd' \in [Addrs -> NoFds]
    BY <1>1, <1>2 DEF IInv, TypeOK, NoFds
  <2>4. /\ apc' \in [Addrs -> {"off", "sched", "loop", "try", "add", "wait", "woken",
                              "get", "make", "init", "end"}]
        /\ hpc' \in [Conns -> {"new", "backlog", "accepted", "run", "wait", "close"}]
    BY <1>2 DEF IInv, TypeOK
  <2> QED BY <1>2, <2>1, <2>2, <2>3, <2>4 DEF IInv, TypeOK
<1>10. SocksOpen'
  BY <1>2, <1>3, <1>6 DEF IInv, SocksOpen, c
<1>11. FilesKnown'
  <2>1. ASSUME NEW e \in Fds, e # fd, kfile[e] # NoFile
        PROVE  m_sock'[kfile[e]] = e \/ \E b \in Addrs : nfd'[b] = e
    <3>1. kfile[e] \in Files
      BY <2>1 DEF IInv, TypeOK
    <3>2. CASE m_sock[kfile[e]] = e
      BY <1>1, <1>3, <1>6, <3>1, <3>2, NoFdFacts
    <3>3. CASE \E b \in Addrs : nfd[b] = e
      BY <1>6, <2>1, <3>3 DEF fd
    <3> QED BY <2>1, <3>2, <3>3 DEF IInv, FilesKnown
  <2> QED BY <1>2, <1>6, <2>1 DEF FilesKnown, c
<1>12. JustAccepted'
  <2>1. ASSUME NEW b \in Addrs
        PROVE  nfd'[b] # -1 <=> apc'[b] \in {"get", "make", "init"}
    BY <1>6 DEF IInv, JustAccepted
  <2>2. ASSUME NEW b \in Addrs, nfd'[b] # -1
        PROVE  /\ b # a /\ nfd'[b] = nfd[b] /\ nfd[b] \in Fds \ {fd} /\ apc'[b] = apc[b]
               /\ kfile[nfd[b]] \in Conns \ {c} /\ kfile[nfd[b]] \in Files
    BY <1>4, <1>6, <2>2, NoFdFacts DEF IInv, TypeOK, NoFds, JustAccepted
  <2>3. ASSUME NEW b \in Addrs, nfd'[b] # -1
        PROVE  LET e == kfile'[nfd'[b]] IN
               /\ e \in Conns /\ hpc'[e] = "accepted" /\ asked'[e] = Nothing
               /\ IF apc'[b] = "init" THEN m_datas'[nfd'[b]] = Fresh /\ knonblock'[nfd'[b]]
                                     ELSE m_datas'[nfd'[b]] = NoFile
    <3> HIDE DEF Nothing, Fresh
    <3> QED BY <1>2, <1>6, <2>2, <2>3 DEF IInv, JustAccepted
  <2>4. ASSUME NEW b \in Addrs, NEW d \in Addrs, nfd'[b] # -1, nfd'[d] # -1,
               kfile'[nfd'[b]] = kfile'[nfd'[d]]
        PROVE  b = d
    BY <1>2, <2>2, <2>4 DEF IInv, JustAccepted
  <2> QED BY <2>1, <2>3, <2>4 DEF JustAccepted
<1>13. Handled'
  <2>1. \A d \in Conns : m_sock'[d] # -1 <=> hpc'[d] \in {"run", "wait", "close"}
    BY <1>1, <1>6, NoFdFacts DEF IInv, Handled
  <2>2. ASSUME NEW d \in Conns, hpc'[d] \in {"run", "wait"}
        PROVE  m_datas'[m_sock'[d]] # NoFile
    BY <1>6, <1>7, <1>8, <2>2, NoFdFacts DEF IInv, Handled
  <2>3. \A b \in Addrs : \A d \in backlog[b] : hpc'[d] = "backlog"
    BY <1>1, <1>6 DEF IInv, TypeOK, Handled
  <2> QED BY <1>2, <2>1, <2>2, <2>3 DEF IInv, Handled
<1>14. WaitersWait'
  BY <1>1, <1>2, <1>3, <1>6, NoFdFacts DEF IInv, WaitersWait
<1>15. NoCtxLeft'
  <2>1. \A e \in Fds : kfile[e] = NoFile => m_datas'[e] = NoFile
    BY <1>1, <1>6, NoFdFacts DEF IInv, NoCtxLeft, c
  <2>2. \A d \in Conns : hpc'[d] = "close" => m_datas'[m_sock'[d]] = NoFile
    BY <1>6, <1>7, NoFdFacts DEF IInv, NoCtxLeft, Handled
  <2>3. spc = "closef" => m_datas'[m_sock'[Current]] = NoFile
    <3>1. SUFFICES ASSUME spc = "closef" PROVE m_datas'[m_sock'[Current]] = NoFile
      OBVIOUS
    <3>2. Current \in Files \ {c} /\ m_sock[Current] # -1
      BY <1>3, <3>1, CurrentFacts, NoFdFacts
    <3> QED BY <1>6, <1>7, <3>1, <3>2 DEF IInv, NoCtxLeft
  <2> QED BY <1>2, <2>1, <2>2, <2>3 DEF NoCtxLeft, Current
<1>16. Listed' /\ StartedOnce'
  BY <1>1, <1>2, <1>3, <1>6, NoFdFacts DEF IInv, Listed, StartedOnce
<1>17. CtxDescribesFile'
  BY <1>5, <1>6, <1>7 DEF IInv, CtxDescribesFile
<1>18. NeverBlocksThread'
  BY <1>1, <1>2, <1>6, <1>7 DEF IInv, NeverBlocksThread, Get, Valid
<1> QED BY <1>9, <1>10, <1>11, <1>12, <1>13, <1>14, <1>15, <1>16, <1>17, <1>18 DEF IInv

\* triggerEvent wakes the fiber that waits at the number, if there is one; the stop task
\* may go on to its next call.
LEMMA TriggerInv ==
  ASSUME IInv, (\E fd \in Fds : Trigger(fd)) \/ UNCHANGED <<waiter, registered, apc, hpc>>,
         \/ spc' = spc
         \/ spc \in {"sched", "cancel", "cancel2"} /\ spc' \in {"cancel", "cancel2", "del"},
         UNCHANGED <<m_socks, m_isStop, m_sock, kfile, knonblock, backlog, m_datas, lfd,
                     nfd, asked, late>>
  PROVE  IInv'
<1>1. \/ UNCHANGED <<waiter, registered, apc, hpc>>
      \/ \E fd \in Fds :
           /\ \A e \in Fds : waiter'[e] = IF e = fd THEN NoFile ELSE waiter[e]
           /\ \A a \in Addrs : apc'[a] = IF waiter[fd] = a THEN "woken" ELSE apc[a]
           /\ \A c \in Conns : hpc'[c] = IF waiter[fd] = c THEN "run" ELSE hpc[c]
  <2>1. ASSUME NEW fd \in Fds, Trigger(fd)
        PROVE  /\ \A e \in Fds : waiter'[e] = IF e = fd THEN NoFile ELSE waiter[e]
               /\ \A a \in Addrs : apc'[a] = IF waiter[fd] = a THEN "woken" ELSE apc[a]
               /\ \A c \in Conns : hpc'[c] = IF waiter[fd] = c THEN "run" ELSE hpc[c]
    BY <2>1 DEF Trigger, IInv, TypeOK
  <2> QED BY <2>1
<1>2. \A a \in Addrs : apc'[a] = apc[a] \/ (apc'[a] = "woken" /\ apc[a] = "wait")
  BY <1>1 DEF IInv, WaitersWait
<1>3. \A c \in Conns : hpc'[c] = hpc[c] \/ (hpc'[c] = "run" /\ hpc[c] = "wait")
  BY <1>1 DEF IInv, WaitersWait
<1>4. TypeOK'
  <2>1. /\ waiter' \in [Fds -> Files \cup {NoFile}] /\ registered' \subseteq Fds
        /\ apc' \in [Addrs -> {"off", "sched", "loop", "try", "add", "wait", "woken",
                              "get", "make", "init", "end"}]
        /\ hpc' \in [Conns -> {"new", "backlog", "accepted", "run", "wait", "close"}]
    <3>1. CASE UNCHANGED <<waiter, registered, apc, hpc>>
      BY <3>1 DEF IInv, TypeOK
    <3>2. ASSUME NEW fd \in Fds, Trigger(fd)
          PROVE  /\ waiter' \in [Fds -> Files \cup {NoFile}] /\ registered' \subseteq Fds
                 /\ apc' = [a \in Addrs |-> apc'[a]] /\ hpc' = [c \in Conns |-> hpc'[c]]
      BY <3>2 DEF Trigger, IInv, TypeOK
    <3>3. /\ \A a \in Addrs :
               apc'[a] \in {"off", "sched", "loop", "try", "add", "wait", "woken", "get",
                           "make", "init", "end"}
          /\ \A c \in Conns :
               hpc'[c] \in {"new", "backlog", "accepted", "run", "wait", "close"}
      BY <1>2, <1>3 DEF IInv, TypeOK
    <3> QED BY <3>1, <3>2, <3>3
  <2> QED BY <2>1 DEF IInv, TypeOK
<1>5. SocksOpen' /\ FilesKnown' /\ CtxDescribesFile' /\ NeverBlocksThread'
  BY DEF IInv, SocksOpen, FilesKnown, CtxDescribesFile, NeverBlocksThread, Get, Valid
<1>6. JustAccepted'
  <2>1. \A b \in Addrs : /\ apc'[b] \in {"get", "make", "init"} <=>
                              apc[b] \in {"get", "make", "init"}
                         /\ apc'[b] = "init" <=> apc[b] = "init"
    BY <1>2
  <2> QED BY <1>3, <2>1 DEF IInv, JustAccepted
<1>7. Handled'
  BY <1>3 DEF IInv, TypeOK, Handled
<1>8. WaitersWait'
  <2>1. ASSUME NEW e \in Fds, NEW a \in Addrs, waiter'[e] = a
        PROVE  apc'[a] = "wait" /\ lfd[a] = e
    BY <1>1, <2>1, NoFdFacts DEF IInv, WaitersWait
  <2>2. ASSUME NEW e \in Fds, NEW c \in Conns, waiter'[e] = c
        PROVE  hpc'[c] = "wait" /\ m_sock[c] = e
    BY <1>1, <2>2, NoFdFacts DEF IInv, WaitersWait
  <2>3. \A a \in Addrs : apc'[a] = "add" => lfd[a] # -1
    BY <1>2 DEF IInv, WaitersWait
  <2> QED BY <2>1, <2>2, <2>3 DEF WaitersWait
<1>9. NoCtxLeft'
  <2>1. \A c \in Conns : hpc'[c] = "close" => hpc[c] = "close"
    BY <1>3
  <2> QED BY <2>1 DEF IInv, NoCtxLeft, Current
<1>10. Listed'
  BY DEF IInv, Listed
<1>11. StartedOnce'
  BY <1>2 DEF IInv, StartedOnce
<1> QED BY <1>4, <1>5, <1>6, <1>7, <1>8, <1>9, <1>10, <1>11 DEF IInv

\* The steps of the idle thread and of the stop task that trigger an event, or none.
LEMMA CancelsInv ==
  ASSUME IInv, \/ \E fd \in Fds : AcceptReady(fd)
               \/ \E c \in Conns : HandlerWoken(c)
               \/ StopBegin \/ StopCancel \/ StopCancelAgain
  PROVE  IInv'
<1>1. ASSUME NEW fd \in Fds, AcceptReady(fd) PROVE IInv'
  BY <1>1, TriggerInv DEF AcceptReady, serverVars, userVars
<1>2. ASSUME NEW c \in Conns, HandlerWoken(c) PROVE IInv'
  <2>1. m_sock[c] \in Fds
    BY <1>2 DEF HandlerWoken, IInv, TypeOK
  <2> QED BY <1>2, <2>1, TriggerInv DEF HandlerWoken, serverVars, userVars
<1>3. CASE StopBegin
  BY <1>3, TriggerInv DEF StopBegin, SStep, serverVars, kernelVars, acceptVars, userVars
<1>4. CASE StopCancel
  BY <1>4, TriggerInv DEF StopCancel, SStep, CancelAll, Valid, serverVars, userVars
<1>5. CASE StopCancelAgain
  BY <1>5, TriggerInv DEF StopCancelAgain, SStep, CancelAll, Valid, serverVars, userVars
<1> QED BY <1>1, <1>2, <1>3, <1>4, <1>5

\* stop(): from here on no accept loop goes round again.
LEMMA StopInv ==
  ASSUME IInv, Stop
  PROVE  IInv'
<1>1. /\ ~m_isStop /\ m_isStop' = TRUE /\ spc' = "sched"
      /\ UNCHANGED <<m_socks, m_sock, kfile, knonblock, backlog, m_datas, waiter,
                     registered, apc, lfd, nfd, hpc, asked, late>>
  BY DEF Stop, kernelVars, acceptVars, userVars
<1>2. m_socks # <<>> /\ \A a \in Addrs : late[a] = 0
  BY <1>1 DEF IInv, StartedOnce
<1>3. TypeOK'
  BY <1>1 DEF IInv, TypeOK
<1>4. SocksOpen' /\ FilesKnown' /\ JustAccepted' /\ Handled' /\ WaitersWait'
  BY <1>1 DEF IInv, SocksOpen, FilesKnown, JustAccepted, Handled, WaitersWait
<1>5. NoCtxLeft' /\ Listed' /\ StartedOnce'
  BY <1>1, <1>2 DEF IInv, NoCtxLeft, Listed, StartedOnce, Current
<1>6. CtxDescribesFile' /\ NeverBlocksThread'
  BY <1>1 DEF IInv, CtxDescribesFile, NeverBlocksThread, Get, Valid
<1> QED BY <1>3, <1>4, <1>5, <1>6 DEF IInv

\* FdManager::del: the context of a file that is about to be closed goes.
LEMMA DelKeeps ==
  ASSUME IInv, NEW f \in Files, m_sock[f] # -1,
         m_datas' = [m_datas EXCEPT ![m_sock[f]] = NoFile],
         UNCHANGED <<m_sock, kfile, knonblock, nfd, apc, backlog, waiter, lfd, asked>>,
         \A c \in Conns : hpc'[c] = hpc[c]
                          \/ (c = f /\ hpc[c] = "run" /\ hpc'[c] = "close"),
         f \in Conns => hpc'[f] = "close"
  PROVE  /\ m_datas' \in [Fds -> FdCtx \cup {NoFile}] /\ m_datas'[m_sock[f]] = NoFile
         /\ SocksOpen' /\ FilesKnown' /\ JustAccepted' /\ Handled' /\ WaitersWait'
         /\ \A e \in Fds : kfile'[e] = NoFile => m_datas'[e] = NoFile
         /\ \A c \in Conns : hpc'[c] = "close" => m_datas'[m_sock'[c]] = NoFile
         /\ \A g \in Files : m_datas[m_sock[g]] = NoFile => m_datas'[m_sock[g]] = NoFile
         /\ CtxDescribesFile' /\ NeverBlocksThread'
<1> DEFINE fd == m_sock[f]
<1>1. fd \in Fds /\ kfile[fd] = f
  BY DEF IInv, TypeOK, NoFds, SocksOpen
<1>2. \A g \in Files \ {f} : m_sock[g] # fd
  BY <1>1, NoFdFacts DEF IInv, SocksOpen
<1>3. \A a \in Addrs : nfd[a] # fd
  <2>1. SUFFICES ASSUME NEW a \in Addrs, nfd[a] = fd PROVE FALSE
    OBVIOUS
  <2>2. f \in Conns /\ hpc[f] = "accepted"
    BY <1>1, <2>1 DEF IInv, JustAccepted
  <2> QED BY <2>2 DEF IInv, Handled
<1> HIDE DEF fd
<1>4. /\ m_datas'[fd] = NoFile /\ \A e \in Fds \ {fd} : m_datas'[e] = m_datas[e]
      /\ m_datas' \in [Fds -> FdCtx \cup {NoFile}]
  BY <1>1 DEF IInv, TypeOK, fd
<1>5. \A g \in Files : m_sock[g] = -1 \/ m_sock[g] \in Fds
  BY DEF IInv, TypeOK, NoFds
<1>6. SocksOpen' /\ FilesKnown'
  BY DEF IInv, SocksOpen, FilesKnown
<1>7. JustAccepted'
  <2>1. ASSUME NEW a \in Addrs, nfd[a] # -1
        PROVE  /\ m_datas'[nfd[a]] = m_datas[nfd[a]]
               /\ kfile[nfd[a]] \in Conns /\ hpc[kfile[nfd[a]]] = "accepted" =>
                    hpc'[kfile[nfd[a]]] = "accepted"
    <3>1. nfd[a] \in Fds \ {fd}
      BY <1>3, <2>1 DEF IInv, TypeOK, NoFds
    <3> QED BY <1>4, <3>1
  <2> QED BY <2>1 DEF IInv, JustAccepted
<1>8. Handled'
  <2>1. ASSUME NEW c \in Conns, hpc'[c] \in {"run", "wait"}
        PROVE  m_datas'[m_sock[c]] # NoFile
    <3>1. c # f /\ hpc[c] \in {"run", "wait"} /\ m_sock[c] # -1
      BY <2>1 DEF IInv, Handled
    <3>2. m_sock[c] \in Fds \ {fd}
      BY <1>2, <1>5, <3>1, NoFdFacts
    <3> QED BY <1>4, <3>1, <3>2 DEF IInv, Handled
  <2>2. \A a \in Addrs : \A c \in backlog[a] : hpc'[c] = "backlog"
    BY DEF IInv, TypeOK, Handled
  <2> QED BY <2>1, <2>2 DEF IInv, Handled
<1>9. WaitersWait'
  BY DEF IInv, WaitersWait
<1>10. \A g \in Files : m_datas[m_sock[g]] = NoFile => m_datas'[m_sock[g]] = NoFile
  <2>1. SUFFICES ASSUME NEW g \in Files, m_datas[m_sock[g]] = NoFile
                 PROVE  m_datas'[m_sock[g]] = NoFile
    OBVIOUS
  <2>2. CASE m_sock[g] \in Fds
    BY <1>4, <2>1, <2>2
  <2>3. CASE m_sock[g] = -1
    BY <1>1, <2>1, <2>3, NoFdFacts DEF IInv, TypeOK, fd
  <2> QED BY <1>5, <2>2, <2>3
<1>11. \A c \in Conns : hpc'[c] = "close" => m_datas'[m_sock[c]] = NoFile
  <2>1. SUFFICES ASSUME NEW c \in Conns, hpc'[c] = "close"
                 PROVE  m_datas'[m_sock[c]] = NoFile
    OBVIOUS
  <2>2. CASE c = f
    BY <1>4, <2>2 DEF fd
  <2>3. CASE c # f
    BY <1>10, <2>1, <2>3, NoFdFacts DEF IInv, NoCtxLeft
  <2> QED BY <2>2, <2>3
<1>12. \A e \in Fds : kfile[e] = NoFile => m_datas'[e] = NoFile
  BY <1>4 DEF IInv, NoCtxLeft
<1>13. CtxDescribesFile' /\ NeverBlocksThread'
  BY <1>4, <1>5 DEF IInv, CtxDescribesFile, NeverBlocksThread, Get, Valid
<1> QED BY <1>4, <1>6, <1>7, <1>8, <1>9, <1>10, <1>11, <1>12, <1>13 DEF fd

\* The stop task deletes the context of the socket that it is at.
LEMMA StopDelInv ==
  ASSUME IInv, StopDel
  PROVE  IInv'
<1>1. /\ spc = "del" /\ spc' = "closef"
      /\ m_datas' = [m_datas EXCEPT ![m_sock[Current]] = NoFile]
      /\ UNCHANGED <<m_socks, m_isStop, m_sock, kfile, knonblock, backlog, registered,
                     waiter, apc, lfd, nfd, hpc, asked, late>>
  BY DEF StopDel, SStep, serverVars, kernelVars, acceptVars, userVars
<1>2. Current \in Files /\ Current \notin Conns /\ m_sock[Current] # -1
  BY <1>1, CurrentFacts, NoFdFacts
<1>3. /\ m_datas' \in [Fds -> FdCtx \cup {NoFile}] /\ m_datas'[m_sock[Current]] = NoFile
      /\ SocksOpen' /\ FilesKnown' /\ JustAccepted' /\ Handled' /\ WaitersWait'
      /\ \A e \in Fds : kfile'[e] = NoFile => m_datas'[e] = NoFile
      /\ \A c \in Conns : hpc'[c] = "close" => m_datas'[m_sock'[c]] = NoFile
      /\ CtxDescribesFile' /\ NeverBlocksThread'
  BY <1>1, <1>2, DelKeeps
<1>4. TypeOK'
  BY <1>1, <1>3 DEF IInv, TypeOK
<1>5. NoCtxLeft' /\ Listed' /\ StartedOnce'
  BY <1>1, <1>3 DEF IInv, NoCtxLeft, Listed, StartedOnce, Current
<1> QED BY <1>3, <1>4, <1>5 DEF IInv

\* The hooked close() of a handler deletes its context.
LEMMA ClientDelInv ==
  ASSUME IInv, NEW c \in Conns, ClientDel(c)
  PROVE  IInv'
<1>1. /\ hpc[c] = "run" /\ hpc' = [hpc EXCEPT ![c] = "close"]
      /\ m_datas' = [m_datas EXCEPT ![m_sock[c]] = NoFile]
      /\ UNCHANGED <<m_socks, m_isStop, m_sock, kfile, knonblock, backlog, registered,
                     waiter, apc, lfd, nfd, spc, asked, late>>
  BY DEF ClientDel, HStep, serverVars, kernelVars, acceptVars, userVars
<1>2. c \in Files /\ m_sock[c] # -1
  BY <1>1, NoFdFacts DEF IInv, Handled
<1>3. /\ hpc'[c] = "close"
      /\ \A d \in Conns : hpc'[d] = hpc[d] \/ (d = c /\ hpc[d] = "run" /\ hpc'[d] = "close")
  BY <1>1 DEF IInv, TypeOK
<1>4. /\ m_datas' \in [Fds -> FdCtx \cup {NoFile}]
      /\ SocksOpen' /\ FilesKnown' /\ JustAccepted' /\ Handled' /\ WaitersWait'
      /\ \A e \in Fds : kfile'[e] = NoFile => m_datas'[e] = NoFile
      /\ \A d \in Conns : hpc'[d] = "close" => m_datas'[m_sock'[d]] = NoFile
      /\ \A g \in Files : m_datas[m_sock[g]] = NoFile => m_datas'[m_sock[g]] = NoFile
      /\ CtxDescribesFile' /\ NeverBlocksThread'
  BY <1>1, <1>2, <1>3, DelKeeps
<1>5. TypeOK'
  <2>1. hpc' \in [Conns -> {"new", "backlog", "accepted", "run", "wait", "close"}]
    BY <1>1 DEF IInv, TypeOK
  <2> QED BY <1>1, <1>4, <2>1 DEF IInv, TypeOK
<1>6. NoCtxLeft'
  <2>1. spc = "closef" => m_datas'[m_sock[Current]] = NoFile
    BY <1>4, CurrentFacts, NoFdFacts DEF IInv, NoCtxLeft
  <2> QED BY <1>1, <1>4, <2>1 DEF NoCtxLeft, Current
<1>7. Listed' /\ StartedOnce'
  BY <1>1 DEF IInv, Listed, StartedOnce
<1> QED BY <1>4, <1>5, <1>6, <1>7 DEF IInv

\* close_f: the file goes, its Socket has no descriptor any more, and its number is free.
LEMMA CloseKeeps ==
  ASSUME IInv, NEW f \in Files, NEW fd \in Fds, m_sock[f] = fd, m_datas[fd] = NoFile,
         kfile' = [kfile EXCEPT ![fd] = NoFile],
         knonblock' = [knonblock EXCEPT ![fd] = FALSE],
         registered' = registered \ {fd},
         m_sock' = [m_sock EXCEPT ![f] = -1],
         UNCHANGED <<m_isStop, m_datas, waiter, apc, lfd, nfd, asked, late>>,
         hpc' \in [Conns -> {"new", "backlog", "accepted", "run", "wait", "close"}],
         \A c \in Conns : hpc'[c] = hpc[c]
           \/ (hpc[c] \in {"backlog", "close"} /\ hpc'[c] = "new")
  PROVE  /\ m_sock' \in [Files -> NoFds] /\ kfile' \in [Fds -> Files \cup {NoFile}]
         /\ knonblock' \in [Fds -> BOOLEAN] /\ registered' \subseteq Fds
         /\ SocksOpen' /\ FilesKnown' /\ JustAccepted'
         /\ (f \in Conns => hpc[f] = "close") => WaitersWait'
         /\ \A e \in Fds : kfile'[e] = NoFile => m_datas'[e] = NoFile
         /\ \A c \in Conns : hpc'[c] = "close" /\ c # f => m_datas'[m_sock'[c]] = NoFile
         /\ CtxDescribesFile' /\ NeverBlocksThread'
<1>1. kfile[fd] = f /\ fd # -1
  BY NoFdFacts DEF IInv, SocksOpen
<1>2. \A g \in Files \ {f} : m_sock[g] # fd
  BY <1>1 DEF IInv, SocksOpen
<1>3. \A a \in Addrs : nfd[a] # fd
  <2>1. SUFFICES ASSUME NEW a \in Addrs, nfd[a] = fd PROVE FALSE
    OBVIOUS
  <2>2. f \in Conns /\ hpc[f] = "accepted"
    BY <1>1, <2>1 DEF IInv, JustAccepted
  <2> QED BY <1>1, <2>2 DEF IInv, Handled
<1>4. /\ m_sock'[f] = -1 /\ \A g \in Files \ {f} : m_sock'[g] = m_sock[g]
      /\ kfile'[fd] = NoFile /\ \A e \in Fds \ {fd} : /\ kfile'[e] = kfile[e]
                                                     /\ knonblock'[e] = knonblock[e]
  BY DEF IInv, TypeOK
<1>5. /\ m_sock' \in [Files -> NoFds] /\ kfile' \in [Fds -> Files \cup {NoFile}]
      /\ knonblock' \in [Fds -> BOOLEAN] /\ registered' \subseteq Fds
  BY DEF IInv, TypeOK, NoFds
<1>6. \A g \in Files : m_sock'[g] # -1 =>
        g # f /\ m_sock'[g] = m_sock[g] /\ m_sock[g] \in Fds \ {fd}
  BY <1>2, <1>4 DEF IInv, TypeOK, NoFds
<1>7. SocksOpen'
  BY <1>4, <1>6 DEF IInv, SocksOpen
<1>8. FilesKnown'
  <2>1. ASSUME NEW e \in Fds, kfile'[e] # NoFile
        PROVE  m_sock'[kfile[e]] = e \/ \E a \in Addrs : nfd[a] = e
    <3>1. e # fd /\ kfile[e] \in Files
      BY <1>4, <2>1 DEF IInv, TypeOK
    <3> QED BY <1>4, <2>1, <3>1 DEF IInv, FilesKnown
  <2> QED BY <1>4, <2>1 DEF FilesKnown
<1>9. JustAccepted'
  <2>1. ASSUME NEW a \in Addrs, nfd[a] # -1
        PROVE  /\ kfile'[nfd[a]] = kfile[nfd[a]] /\ knonblock'[nfd[a]] = knonblock[nfd[a]]
               /\ hpc'[kfile[nfd[a]]] = "accepted"
    <3>1. nfd[a] \in Fds \ {fd} /\ kfile[nfd[a]] \in Conns /\ hpc[kfile[nfd[a]]] = "accepted"
      BY <1>3, <2>1 DEF IInv, TypeOK, NoFds, JustAccepted
    <3> QED BY <1>4, <3>1
  <2>2. ASSUME NEW a \in Addrs, NEW b \in Addrs, nfd[a] # -1, nfd[b] # -1,
               kfile'[nfd[a]] = kfile'[nfd[b]]
        PROVE  a = b
    <3>1. kfile[nfd[a]] = kfile[nfd[b]]
      BY <2>1, <2>2
    <3> QED BY <2>2, <3>1 DEF IInv, JustAccepted
  <2>3. ASSUME NEW a \in Addrs, nfd[a] # -1
        PROVE  LET e == kfile'[nfd[a]] IN
               /\ e \in Conns /\ hpc'[e] = "accepted" /\ asked[e] = Nothing
               /\ IF apc[a] = "init" THEN m_datas[nfd[a]] = Fresh /\ knonblock'[nfd[a]]
                                    ELSE m_datas[nfd[a]] = NoFile
    <3>1. /\ kfile[nfd[a]] \in Conns /\ asked[kfile[nfd[a]]] = Nothing
          /\ apc[a] = "init" => m_datas[nfd[a]] = Fresh /\ knonblock[nfd[a]]
          /\ apc[a] # "init" => m_datas[nfd[a]] = NoFile
      BY <2>3 DEF IInv, JustAccepted
    <3> QED BY <2>1, <2>3, <3>1
  <2>4. \A a \in Addrs : nfd[a] # -1 <=> apc[a] \in {"get", "make", "init"}
    BY DEF IInv, JustAccepted
  <2> QED BY <2>2, <2>3, <2>4 DEF JustAccepted
<1>10. ASSUME f \in Conns => hpc[f] = "close" PROVE WaitersWait'
  <2>1. ASSUME NEW e \in Fds, NEW c \in Conns, waiter[e] = c
        PROVE  hpc'[c] = "wait" /\ m_sock'[c] = e
    <3>1. hpc[c] = "wait" /\ m_sock[c] = e /\ c # f /\ c \in Files
      BY <1>10, <2>1, NoFdFacts DEF IInv, WaitersWait
    <3> QED BY <1>4, <3>1
  <2> QED BY <2>1 DEF IInv, WaitersWait
<1>11. \A e \in Fds : kfile'[e] = NoFile => m_datas[e] = NoFile
  BY <1>4 DEF IInv, NoCtxLeft
<1>12. \A c \in Conns : hpc'[c] = "close" /\ c # f => m_datas[m_sock'[c]] = NoFile
  BY <1>4, NoFdFacts DEF IInv, NoCtxLeft
<1>13. CtxDescribesFile'
  BY <1>6 DEF IInv, CtxDescribesFile
<1>14. NeverBlocksThread'
  BY <1>4, <1>6 DEF IInv, NeverBlocksThread, Get, Valid
<1> QED BY <1>5, <1>7, <1>8, <1>9, <1>10, <1>11, <1>12, <1>13, <1>14

\* The handler's descriptor is closed: the connection can be made again.
LEMMA ClientCloseFInv ==
  ASSUME IInv, NEW c \in Conns, ClientCloseF(c)
  PROVE  IInv'
<1> DEFINE fd == m_sock[c]
<1>1. /\ hpc[c] = "close" /\ hpc' = [hpc EXCEPT ![c] = "new"]
      /\ kfile' = [kfile EXCEPT ![fd] = NoFile]
      /\ knonblock' = [knonblock EXCEPT ![fd] = FALSE]
      /\ registered' = registered \ {fd}
      /\ m_sock' = [m_sock EXCEPT ![c] = -1]
      /\ UNCHANGED <<m_socks, m_isStop, backlog, m_datas, waiter, apc, lfd, nfd, spc,
                     asked, late>>
  BY DEF ClientCloseF, HStep, serverVars, acceptVars, userVars
<1>2. c \in Files /\ c \notin Addrs /\ fd \in Fds /\ m_datas[fd] = NoFile
  BY <1>1, NoFdFacts DEF IInv, TypeOK, NoFds, Handled, NoCtxLeft
<1>3. /\ hpc'[c] = "new" /\ \A d \in Conns \ {c} : hpc'[d] = hpc[d]
      /\ hpc' \in [Conns -> {"new", "backlog", "accepted", "run", "wait", "close"}]
      /\ m_sock'[c] = -1 /\ \A g \in Files \ {c} : m_sock'[g] = m_sock[g]
  BY <1>1, <1>2 DEF IInv, TypeOK
<1>4. \A d \in Conns : hpc'[d] = hpc[d]
        \/ (hpc[d] \in {"backlog", "close"} /\ hpc'[d] = "new")
  BY <1>1, <1>3
<1>5. /\ m_sock' \in [Files -> NoFds] /\ kfile' \in [Fds -> Files \cup {NoFile}]
      /\ knonblock' \in [Fds -> BOOLEAN] /\ registered' \subseteq Fds
      /\ SocksOpen' /\ FilesKnown' /\ JustAccepted' /\ WaitersWait'
      /\ \A e \in Fds : kfile'[e] = NoFile => m_datas'[e] = NoFile
      /\ \A d \in Conns : hpc'[d] = "close" /\ d # c => m_datas'[m_sock'[d]] = NoFile
      /\ CtxDescribesFile' /\ NeverBlocksThread'
  <2> HIDE DEF fd
  <2>1. m_sock[c] = fd
    BY DEF fd
  <2> QED BY <1>1, <1>2, <1>3, <1>4, <2>1, CloseKeeps
<1>6. TypeOK'
  BY <1>1, <1>3, <1>5 DEF IInv, TypeOK
<1>7. Handled'
  <2>1. \A d \in Conns : m_sock'[d] # -1 <=> hpc'[d] \in {"run", "wait", "close"}
    BY <1>2, <1>3, NoFdFacts DEF IInv, Handled
  <2>2. \A d \in Conns : hpc'[d] \in {"run", "wait"} => m_datas[m_sock'[d]] # NoFile
    BY <1>3, NoFdFacts DEF IInv, Handled
  <2>3. \A a \in Addrs : \A d \in backlog[a] : hpc'[d] = "backlog"
    BY <1>1, <1>3 DEF IInv, TypeOK, Handled
  <2> QED BY <1>1, <2>1, <2>2, <2>3 DEF IInv, Handled
<1>8. \A a \in Addrs : m_sock'[a] = m_sock[a]
  BY <1>2, <1>3, NoFdFacts
<1>9. NoCtxLeft'
  <2>1. spc = "closef" => m_datas[m_sock'[Current]] = NoFile
    BY <1>8, CurrentFacts DEF IInv, NoCtxLeft
  <2>2. \A d \in Conns : hpc'[d] = "close" => m_datas[m_sock'[d]] = NoFile
    BY <1>1, <1>3, <1>5
  <2> QED BY <1>1, <1>5, <2>1, <2>2 DEF NoCtxLeft, Current
<1>10. Listed' /\ StartedOnce'
  BY <1>1, <1>8 DEF IInv, Listed, StartedOnce
<1> QED BY <1>5, <1>6, <1>7, <1>9, <1>10 DEF IInv

\* close_f of the stop task: the socket leaves m_socks, and its backlog is reset.
LEMMA StopCloseFInv ==
  ASSUME IInv, StopCloseF
  PROVE  IInv'
<1> DEFINE l == Head(m_socks)
           fd == m_sock[l]
<1>1. /\ spc = "closef" /\ spc' = IF Len(m_socks) = 1 THEN "done" ELSE "cancel"
      /\ kfile' = [kfile EXCEPT ![fd] = NoFile]
      /\ knonblock' = [knonblock EXCEPT ![fd] = FALSE]
      /\ registered' = registered \ {fd}
      /\ backlog' = [backlog EXCEPT ![l] = {}]
      /\ hpc' = [c \in Conns |-> IF c \in backlog[l] THEN "new" ELSE hpc[c]]
      /\ m_sock' = [m_sock EXCEPT ![l] = -1]
      /\ m_socks' = Tail(m_socks)
      /\ UNCHANGED <<m_isStop, m_datas, waiter, apc, lfd, nfd, asked, late>>
  BY DEF StopCloseF, SStep, Current, acceptVars, userVars
<1>2. /\ l \in Addrs /\ l \in Files /\ l \notin Conns /\ fd \in Fds /\ fd # -1
      /\ m_datas[fd] = NoFile
  BY <1>1, CurrentFacts, NoFdFacts DEF Current, IInv, NoCtxLeft
<1>3. m_socks \in Seq(Addrs) /\ m_socks # <<>>
  BY <1>1 DEF IInv, TypeOK, Listed
<1> HIDE DEF l
<1>4. /\ m_socks' \in Seq(Addrs) /\ Len(m_socks) \in Nat /\ l = m_socks[1]
      /\ Len(m_socks') = Len(m_socks) - 1 /\ Len(m_socks) >= 1
      /\ \A i \in 1..Len(m_socks') : m_socks'[i] = m_socks[i + 1]
  BY <1>1, <1>3 DEF l
<1>5. /\ \A c \in Conns : hpc'[c] = IF c \in backlog[l] THEN "new" ELSE hpc[c]
      /\ \A c \in Conns : c \in backlog[l] => hpc[c] = "backlog"
      /\ \A c \in Conns : hpc'[c] = hpc[c]
           \/ (hpc[c] \in {"backlog", "close"} /\ hpc'[c] = "new")
      /\ hpc' \in [Conns -> {"new", "backlog", "accepted", "run", "wait", "close"}]
  <2>1. \A c \in Conns : c \in backlog[l] => hpc[c] = "backlog"
    BY <1>2 DEF IInv, Handled
  <2>2. \A c \in Conns : hpc'[c] = IF c \in backlog[l] THEN "new" ELSE hpc[c]
    BY <1>1
  <2>3. hpc' \in [Conns -> {"new", "backlog", "accepted", "run", "wait", "close"}]
    BY <1>1 DEF IInv, TypeOK
  <2> QED BY <2>1, <2>2, <2>3
<1>6. /\ m_sock'[l] = -1 /\ \A g \in Files \ {l} : m_sock'[g] = m_sock[g]
      /\ backlog'[l] = {} /\ \A a \in Addrs \ {l} : backlog'[a] = backlog[a]
  BY <1>1, <1>2 DEF IInv, TypeOK
<1>7. /\ m_sock' \in [Files -> NoFds] /\ kfile' \in [Fds -> Files \cup {NoFile}]
      /\ knonblock' \in [Fds -> BOOLEAN] /\ registered' \subseteq Fds
      /\ SocksOpen' /\ FilesKnown' /\ JustAccepted' /\ WaitersWait'
      /\ \A e \in Fds : kfile'[e] = NoFile => m_datas'[e] = NoFile
      /\ \A d \in Conns : hpc'[d] = "close" /\ d # l => m_datas'[m_sock'[d]] = NoFile
      /\ CtxDescribesFile' /\ NeverBlocksThread'
  <2> HIDE DEF fd
  <2>1. m_sock[l] = fd
    BY DEF fd
  <2> QED BY <1>1, <1>2, <1>5, <2>1, CloseKeeps
<1>8. TypeOK'
  <2>1. backlog' \in [Addrs -> SUBSET Conns]
    BY <1>1 DEF IInv, TypeOK
  <2> QED BY <1>1, <1>4, <1>5, <1>7, <2>1 DEF IInv, TypeOK
<1>9. Handled'
  <2>1. \A d \in Conns : m_sock'[d] = m_sock[d]
    BY <1>2, <1>6, NoFdFacts
  <2>2. \A d \in Conns : m_sock'[d] # -1 <=> hpc'[d] \in {"run", "wait", "close"}
    BY <1>5, <2>1 DEF IInv, Handled
  <2>3. \A d \in Conns : hpc'[d] \in {"run", "wait"} => m_datas[m_sock'[d]] # NoFile
    BY <1>5, <2>1 DEF IInv, Handled
  <2>4. \A a \in Addrs : \A d \in backlog'[a] : hpc'[d] = "backlog"
    <3>1. ASSUME NEW a \in Addrs, NEW d \in backlog'[a] PROVE hpc'[d] = "backlog"
      <4>1. a # l /\ d \in backlog[a] /\ d \in Conns
        BY <1>6, <3>1 DEF IInv, TypeOK
      <4>2. hpc[d] = "backlog" /\ d \notin backlog[l]
        BY <1>2, <4>1 DEF IInv, Handled
      <4> QED BY <1>5, <4>1, <4>2
    <3> QED BY <3>1
  <2>5. \A a, b \in Addrs : a # b => backlog'[a] \cap backlog'[b] = {}
    BY <1>6 DEF IInv, Handled
  <2> QED BY <1>1, <2>2, <2>3, <2>4, <2>5 DEF Handled
<1>10. NoCtxLeft'
  BY <1>1, <1>2, <1>7 DEF NoCtxLeft
<1>11. Listed'
  <2>1. ASSUME NEW i \in 1..Len(m_socks'), NEW j \in 1..Len(m_socks'),
               m_socks'[i] = m_socks'[j]
        PROVE  i = j
    <3>1. i + 1 \in 1..Len(m_socks) /\ j + 1 \in 1..Len(m_socks)
      BY <1>4
    <3>2. i + 1 = j + 1
      BY <1>4, <2>1, <3>1 DEF IInv, Listed
    <3> QED BY <1>4, <3>2
  <2>2. ASSUME NEW a \in Addrs, m_sock'[a] # -1
        PROVE  \E i \in 1..Len(m_socks') : m_socks'[i] = a
    <3>1. a # l /\ m_sock[a] # -1
      BY <1>6, <2>2, NoFdFacts
    <3>2. PICK i \in 1..Len(m_socks) : m_socks[i] = a
      BY <3>1 DEF IInv, Listed
    <3>3. i # 1
      BY <1>4, <3>1, <3>2
    <3>4. i - 1 \in 1..Len(m_socks') /\ (i - 1) + 1 = i
      BY <1>4, <3>3
    <3> QED BY <1>4, <3>2, <3>4
  <2>3. ASSUME NEW i \in 1..Len(m_socks')
        PROVE  m_sock'[m_socks'[i]] # -1
    <3>1. i + 1 \in 1..Len(m_socks) /\ 1 \in 1..Len(m_socks) /\ i + 1 # 1
      BY <1>4
    <3>2. m_socks[i + 1] \in Addrs /\ m_socks[i + 1] # l
      BY <1>3, <1>4, <3>1 DEF IInv, Listed
    <3>3. m_sock[m_socks[i + 1]] # -1
      BY <3>1, <3>2 DEF IInv, Listed
    <3> QED BY <1>4, <1>6, <3>2, <3>3, NoFdFacts
  <2>4. spc' \in {"sched", "cancel", "cancel2", "del", "closef"} => m_socks' # <<>>
    <3>1. m_socks' = <<>> => Len(m_socks) = 1
      BY <1>4
    <3> QED BY <1>1, <3>1
  <2> QED BY <2>1, <2>2, <2>3, <2>4 DEF Listed
<1>12. StartedOnce'
  <2>1. m_isStop /\ spc' # "off"
    BY <1>1 DEF IInv, StartedOnce
  <2> QED BY <1>1, <2>1 DEF IInv, StartedOnce
<1> QED BY <1>7, <1>8, <1>9, <1>10, <1>11, <1>12 DEF IInv

\* A handler's read waits at the number of its own connection.
LEMMA HandlerWaitsInv ==
  ASSUME IInv, NEW c \in Conns, HandlerWaits(c)
  PROVE  IInv'
<1>1. /\ hpc[c] = "run" /\ hpc' = [hpc EXCEPT ![c] = "wait"]
      /\ waiter' = [waiter EXCEPT ![m_sock[c]] = IF @ = NoFile THEN c ELSE @]
      /\ registered' = registered \cup {m_sock[c]}
      /\ UNCHANGED <<m_socks, m_isStop, m_sock, kfile, knonblock, backlog, m_datas, apc,
                     lfd, nfd, spc, asked, late>>
  BY DEF HandlerWaits, HStep, AddEvent, serverVars, acceptVars, userVars
<1>2. m_sock[c] \in Fds /\ c \in Files
  BY <1>1, NoFdFacts DEF IInv, TypeOK, NoFds, Handled
<1>3. /\ hpc'[c] = "wait" /\ \A d \in Conns \ {c} : hpc'[d] = hpc[d]
      /\ \A fd \in Fds : waiter'[fd] = waiter[fd] \/ (fd = m_sock[c] /\ waiter'[fd] = c)
  BY <1>1, <1>2 DEF IInv, TypeOK
<1>4. TypeOK'
  <2>1. /\ hpc' \in [Conns -> {"new", "backlog", "accepted", "run", "wait", "close"}]
        /\ waiter' \in [Fds -> Files \cup {NoFile}] /\ registered' \subseteq Fds
    BY <1>1, <1>2 DEF IInv, TypeOK
  <2> QED BY <1>1, <2>1 DEF IInv, TypeOK
<1>5. SocksOpen' /\ FilesKnown' /\ CtxDescribesFile' /\ NeverBlocksThread'
  BY <1>1 DEF IInv, SocksOpen, FilesKnown, CtxDescribesFile, NeverBlocksThread, Get, Valid
<1>6. JustAccepted' /\ Handled'
  <2>1. JustAccepted'
    BY <1>1, <1>3 DEF IInv, JustAccepted
  <2>2. Handled'
    BY <1>1, <1>3 DEF IInv, TypeOK, Handled
  <2> QED BY <2>1, <2>2
<1>7. WaitersWait'
  <2>1. ASSUME NEW fd \in Fds, NEW d \in Conns, waiter'[fd] = d
        PROVE  hpc'[d] = "wait" /\ m_sock[d] = fd
    BY <1>3, <2>1 DEF IInv, WaitersWait
  <2>2. ASSUME NEW fd \in Fds, NEW a \in Addrs, waiter'[fd] = a
        PROVE  apc[a] = "wait" /\ lfd[a] = fd
    BY <1>3, <2>2, NoFdFacts DEF IInv, WaitersWait
  <2> QED BY <1>1, <2>1, <2>2 DEF IInv, WaitersWait
<1>8. NoCtxLeft' /\ Listed' /\ StartedOnce'
  BY <1>1, <1>3 DEF IInv, NoCtxLeft, Listed, StartedOnce, Current
<1> QED BY <1>4, <1>5, <1>6, <1>7, <1>8 DEF IInv

\* fcntl and ioctl keep the user's wish in the context; only ioctl passes it on.
LEMMA FlagsInv ==
  ASSUME IInv, NEW c \in Conns, NEW v \in BOOLEAN, SetFl(c, v) \/ Ioctl(c, v)
  PROVE  IInv'
<1> DEFINE fd == m_sock[c]
<1>1. /\ hpc[c] = "run" /\ hpc' = [hpc EXCEPT ![c] = "run"]
      /\ m_datas' = [m_datas EXCEPT ![fd].user = v]
      /\ UNCHANGED <<m_socks, m_isStop, m_sock, kfile, backlog, registered, waiter, apc,
                     lfd, nfd, spc, late>>
  BY DEF SetFl, Ioctl, HStep, serverVars, acceptVars
<1>2. PICK raw \in BOOLEAN :
        /\ asked' = [asked EXCEPT ![c].user = v, ![c].raw = raw]
        /\ knonblock' = [knonblock EXCEPT ![fd] = ~raw]
  BY DEF SetFl, Ioctl
<1>3. fd \in Fds /\ fd # -1 /\ c \in Files /\ kfile[fd] = c /\ m_datas[fd] \in FdCtx
  BY <1>1, NoFdFacts DEF IInv, TypeOK, NoFds, Handled, SocksOpen
<1>4. \A d \in Conns : hpc'[d] = hpc[d]
  BY <1>1 DEF IInv, TypeOK
<1>5. \A g \in Files \ {c} : m_sock[g] # -1 => m_sock[g] \in Fds \ {fd}
  BY <1>3 DEF IInv, TypeOK, NoFds, SocksOpen
<1>6. \A a \in Addrs : nfd[a] # -1 => nfd[a] \in Fds \ {fd} /\ kfile[nfd[a]] \in Files \ {c}
  BY <1>1, <1>3, NoFdFacts DEF IInv, TypeOK, NoFds, JustAccepted
<1> HIDE DEF fd
<1>7. /\ m_datas'[fd] = [m_datas[fd] EXCEPT !.user = v]
      /\ \A e \in Fds \ {fd} : m_datas'[e] = m_datas[e] /\ knonblock'[e] = knonblock[e]
      /\ knonblock'[fd] = ~raw
      /\ \A g \in Files \ {c} : asked'[g] = asked[g]
  BY <1>1, <1>2, <1>3 DEF IInv, TypeOK
<1>8. m_datas'[fd] \in FdCtx /\ m_datas'[fd].user = v
      /\ m_datas'[fd].timeout = m_datas[fd].timeout
  BY <1>3, <1>7 DEF FdCtx
<1>9. /\ asked' \in [Files -> [user: BOOLEAN, timeout: {"none", "m_recvTimeout"},
                              raw: BOOLEAN]]
      /\ asked'[c].user = v /\ asked'[c].raw = raw
      /\ asked'[c].timeout = asked[c].timeout
  BY <1>2, <1>3 DEF IInv, TypeOK
<1>10. m_datas'[fd] # NoFile
  BY <1>8, NoFdFacts
<1>11. TypeOK'
  <2>1. m_datas' \in [Fds -> FdCtx \cup {NoFile}]
    <3> HIDE DEF FdCtx
    <3>1. m_datas' = [m_datas EXCEPT ![fd] = m_datas'[fd]]
      BY <1>1, <1>3 DEF IInv, TypeOK
    <3> QED BY <1>8, <3>1 DEF IInv, TypeOK
  <2>2. /\ knonblock' \in [Fds -> BOOLEAN]
        /\ hpc' \in [Conns -> {"new", "backlog", "accepted", "run", "wait", "close"}]
    BY <1>1, <1>2 DEF IInv, TypeOK
  <2> QED BY <1>1, <1>9, <2>1, <2>2 DEF IInv, TypeOK
<1>12. SocksOpen' /\ FilesKnown' /\ Listed' /\ StartedOnce'
  BY <1>1 DEF IInv, SocksOpen, FilesKnown, Listed, StartedOnce
<1>13. JustAccepted'
  <2>1. ASSUME NEW a \in Addrs, nfd[a] # -1
        PROVE  LET e == kfile[nfd[a]] IN
               /\ e \in Conns /\ hpc'[e] = "accepted" /\ asked'[e] = Nothing
               /\ IF apc[a] = "init" THEN m_datas'[nfd[a]] = Fresh /\ knonblock'[nfd[a]]
                                    ELSE m_datas'[nfd[a]] = NoFile
    <3>1. /\ kfile[nfd[a]] \in Conns /\ asked[kfile[nfd[a]]] = Nothing
          /\ hpc[kfile[nfd[a]]] = "accepted"
          /\ apc[a] = "init" => m_datas[nfd[a]] = Fresh /\ knonblock[nfd[a]]
          /\ apc[a] # "init" => m_datas[nfd[a]] = NoFile
      BY <2>1 DEF IInv, JustAccepted
    <3> QED BY <1>4, <1>6, <1>7, <2>1, <3>1
  <2> QED BY <1>1, <2>1 DEF IInv, JustAccepted
<1>14. Handled'
  <2>1. \A d \in Conns : hpc[d] \in {"run", "wait"} => m_datas'[m_sock[d]] # NoFile
    BY <1>5, <1>7, <1>10, NoFdFacts DEF IInv, Handled, fd
  <2>2. \A a \in Addrs : \A d \in backlog[a] : hpc'[d] = "backlog"
    BY <1>4 DEF IInv, TypeOK, Handled
  <2> QED BY <1>1, <1>4, <2>1, <2>2 DEF IInv, Handled
<1>15. WaitersWait'
  BY <1>1, <1>4 DEF IInv, WaitersWait
<1>16. NoCtxLeft'
  <2>1. \A e \in Fds : kfile[e] = NoFile => m_datas'[e] = NoFile
    BY <1>3, <1>7, NoFdFacts DEF IInv, NoCtxLeft
  <2>2. \A d \in Conns : hpc[d] = "close" => m_datas'[m_sock[d]] = NoFile
    BY <1>1, <1>5, <1>7, NoFdFacts DEF IInv, NoCtxLeft, Handled
  <2>3. spc = "closef" => m_datas'[m_sock[Current]] = NoFile
    <3>1. SUFFICES ASSUME spc = "closef" PROVE m_datas'[m_sock[Current]] = NoFile
      OBVIOUS
    <3>2. Current \in Files \ {c} /\ m_sock[Current] # -1
      BY <3>1, CurrentFacts, NoFdFacts
    <3> QED BY <1>5, <1>7, <3>1, <3>2 DEF IInv, NoCtxLeft
  <2> QED BY <1>1, <1>4, <2>1, <2>2, <2>3 DEF NoCtxLeft, Current
<1>17. CtxDescribesFile'
  <2>1. m_datas[fd].timeout = asked[c].timeout
    BY <1>1, <1>3 DEF IInv, CtxDescribesFile, Handled, fd
  <2> QED BY <1>1, <1>5, <1>7, <1>8, <1>9, <2>1 DEF IInv, CtxDescribesFile, fd
<1>18. NeverBlocksThread'
  <2>1. knonblock'[fd] \/ asked'[c].raw
    BY <1>7, <1>9
  <2> QED BY <1>1, <1>5, <1>7, <2>1 DEF IInv, NeverBlocksThread, Get, Valid, fd
<1> QED BY <1>11, <1>12, <1>13, <1>14, <1>15, <1>16, <1>17, <1>18 DEF IInv

\* A peer's connection is in the backlog of one listening socket.
LEMMA ConnectInv ==
  ASSUME IInv, NEW a \in Addrs, NEW c \in Conns, Connect(a, c)
  PROVE  IInv'
<1>1. /\ hpc[c] = "new" /\ hpc' = [hpc EXCEPT ![c] = "backlog"]
      /\ backlog' = [backlog EXCEPT ![a] = @ \cup {c}]
      /\ UNCHANGED <<m_socks, m_isStop, m_sock, kfile, knonblock, registered, m_datas,
                     waiter, apc, lfd, nfd, spc, asked, late>>
  BY DEF Connect, serverVars, acceptVars, userVars
<1>2. /\ hpc'[c] = "backlog" /\ \A d \in Conns \ {c} : hpc'[d] = hpc[d]
      /\ \A b \in Addrs : backlog'[b] = IF b = a THEN backlog[a] \cup {c} ELSE backlog[b]
      /\ \A b \in Addrs : c \notin backlog[b] /\ backlog[b] \subseteq Conns
  BY <1>1 DEF IInv, TypeOK, Handled
<1>3. TypeOK'
  BY <1>1 DEF IInv, TypeOK
<1>4. SocksOpen' /\ FilesKnown' /\ JustAccepted'
  BY <1>1, <1>2 DEF IInv, SocksOpen, FilesKnown, JustAccepted
<1>5. Handled'
  <2>1. \A d \in Conns : m_sock[d] # -1 <=> hpc'[d] \in {"run", "wait", "close"}
    BY <1>1, <1>2 DEF IInv, Handled
  <2>2. \A b \in Addrs : \A d \in backlog'[b] : hpc'[d] = "backlog"
    BY <1>2 DEF IInv, Handled
  <2>3. \A b, d \in Addrs : b # d => backlog'[b] \cap backlog'[d] = {}
    BY <1>2 DEF IInv, Handled
  <2>4. \A d \in Conns : hpc'[d] \in {"run", "wait"} => m_datas[m_sock[d]] # NoFile
    BY <1>2 DEF IInv, Handled
  <2> QED BY <1>1, <2>1, <2>2, <2>3, <2>4 DEF Handled
<1>6. WaitersWait' /\ NoCtxLeft'
  BY <1>1, <1>2 DEF IInv, WaitersWait, NoCtxLeft, Current
<1>7. Listed' /\ StartedOnce' /\ CtxDescribesFile' /\ NeverBlocksThread'
  BY <1>1 DEF IInv, Listed, StartedOnce, CtxDescribesFile, NeverBlocksThread, Get, Valid
<1> QED BY <1>3, <1>4, <1>5, <1>6, <1>7 DEF IInv

\* start(): an accept fiber for every socket of m_socks.
LEMMA StartInv ==
  ASSUME IInv, Start
  PROVE  IInv'
<1>1. /\ m_isStop /\ spc = "off" /\ m_socks # <<>> /\ m_isStop' = FALSE
      /\ apc' = [a \in Addrs |-> IF a \in ToSet(m_socks) THEN "sched" ELSE apc[a]]
      /\ UNCHANGED <<m_socks, m_sock, kfile, knonblock, backlog, registered, m_datas,
                     waiter, lfd, nfd, hpc, spc, asked, late>>
  BY DEF Start, kernelVars, userVars
<1>2. \A a \in Addrs : /\ apc[a] = "off" /\ apc'[a] \in {"off", "sched"}
                       /\ nfd[a] = -1 /\ late[a] = 0
  BY <1>1 DEF IInv, StartedOnce, JustAccepted
<1>3. TypeOK'
  <2>1. apc' \in [Addrs -> {"off", "sched", "loop", "try", "add", "wait", "woken", "get",
                           "make", "init", "end"}]
    BY <1>1 DEF IInv, TypeOK
  <2> QED BY <1>1, <2>1 DEF IInv, TypeOK
<1>4. SocksOpen' /\ FilesKnown' /\ JustAccepted' /\ Handled' /\ WaitersWait'
  BY <1>1, <1>2 DEF IInv, SocksOpen, FilesKnown, JustAccepted, Handled, WaitersWait
<1>5. NoCtxLeft' /\ Listed' /\ StartedOnce'
  BY <1>1, <1>2 DEF IInv, NoCtxLeft, Listed, StartedOnce, Current
<1>6. CtxDescribesFile' /\ NeverBlocksThread'
  BY <1>1 DEF IInv, CtxDescribesFile, NeverBlocksThread, Get, Valid
<1> QED BY <1>3, <1>4, <1>5, <1>6 DEF IInv

\* The sockets in m_socks are the listening sockets that have a descriptor.
LEMMA ListedSocks ==
  ASSUME IInv
  PROVE  /\ ToSet(m_socks) \subseteq Addrs
         /\ \A a \in Addrs : a \in ToSet(m_socks) <=> m_sock[a] # -1
<1>1. DOMAIN m_socks = 1..Len(m_socks) /\ \A i \in 1..Len(m_socks) : m_socks[i] \in Addrs
  BY DEF IInv, TypeOK
<1> QED BY <1>1 DEF IInv, Listed, ToSet

\* The sockets of m_socks are closed, and nothing of the server is left.
LEMMA DestroyedKeeps ==
  ASSUME IInv, m_isStop, spc = "off", Destroyed(ToSet(m_socks)), m_socks' = <<>>,
         spc' \in {"off", "done"},
         UNCHANGED <<m_isStop, waiter, registered, apc, lfd, nfd, late>>
  PROVE  IInv'
<1> DEFINE S == ToSet(m_socks)
           gone == {fd \in Fds : kfile[fd] \in S}
<1>1. S \subseteq Addrs /\ \A a \in Addrs : a \in S <=> m_sock[a] # -1
  BY ListedSocks
<1>2. /\ kfile' = [fd \in Fds |-> IF fd \in gone THEN NoFile ELSE kfile[fd]]
      /\ knonblock' = [fd \in Fds |-> knonblock[fd] /\ fd \notin gone]
      /\ m_datas' = [fd \in Fds |-> IF fd \in gone THEN NoFile ELSE m_datas[fd]]
      /\ m_sock' = [f \in Files |-> IF f \in S THEN -1 ELSE m_sock[f]]
      /\ backlog' = [a \in Addrs |-> IF a \in S THEN {} ELSE backlog[a]]
      /\ hpc' = [c \in Conns |->
                   IF \E a \in S : c \in backlog[a] THEN "new" ELSE hpc[c]]
      /\ asked' = asked
  BY DEF Destroyed
<1> HIDE DEF S
<1>3. \A a \in Addrs : apc[a] = "off" /\ nfd[a] = -1 /\ late[a] = 0
  BY DEF IInv, StartedOnce, JustAccepted
<1>4. /\ \A a \in Addrs : m_sock'[a] = -1
      /\ \A c \in Conns : m_sock'[c] = m_sock[c]
      /\ \A f \in Files : m_sock'[f] # -1 =>
           m_sock'[f] = m_sock[f] /\ m_sock[f] \in Fds \ gone /\ f \notin S
  <2>1. \A a \in Addrs : m_sock'[a] = -1
    BY <1>1, <1>2, NoFdFacts
  <2>2. \A c \in Conns : m_sock'[c] = m_sock[c]
    BY <1>1, <1>2, NoFdFacts
  <2>3. ASSUME NEW f \in Files, m_sock'[f] # -1
        PROVE  m_sock'[f] = m_sock[f] /\ m_sock[f] \in Fds \ gone /\ f \notin S
    <3>1. f \notin S /\ m_sock'[f] = m_sock[f]
      BY <1>2, <2>3
    <3>2. m_sock[f] \in Fds /\ kfile[m_sock[f]] = f
      BY <2>3, <3>1 DEF IInv, TypeOK, NoFds, SocksOpen
    <3> QED BY <3>1, <3>2
  <2> QED BY <2>1, <2>2, <2>3
<1>5. \A fd \in Fds : /\ kfile'[fd] = IF fd \in gone THEN NoFile ELSE kfile[fd]
                      /\ m_datas'[fd] = IF fd \in gone THEN NoFile ELSE m_datas[fd]
                      /\ fd \notin gone => (knonblock'[fd] <=> knonblock[fd])
  BY <1>2
<1>6. \A c \in Conns : hpc'[c] = hpc[c] \/ (hpc[c] = "backlog" /\ hpc'[c] = "new")
  BY <1>1, <1>2 DEF IInv, Handled
<1>7. TypeOK'
  <2>1. /\ m_sock' \in [Files -> NoFds] /\ kfile' \in [Fds -> Files \cup {NoFile}]
        /\ knonblock' \in [Fds -> BOOLEAN] /\ backlog' \in [Addrs -> SUBSET Conns]
    BY <1>2 DEF IInv, TypeOK, NoFds
  <2>2. m_datas' \in [Fds -> FdCtx \cup {NoFile}]
    BY <1>2 DEF IInv, TypeOK
  <2>3. hpc' \in [Conns -> {"new", "backlog", "accepted", "run", "wait", "close"}]
    BY <1>2 DEF IInv, TypeOK
  <2>4. m_socks' \in Seq(Addrs)
    OBVIOUS
  <2> QED BY <1>2, <2>1, <2>2, <2>3, <2>4 DEF IInv, TypeOK
<1>8. SocksOpen'
  BY <1>4, <1>5 DEF IInv, SocksOpen
<1>9. FilesKnown'
  <2>1. ASSUME NEW fd \in Fds, kfile'[fd] # NoFile
        PROVE  m_sock'[kfile'[fd]] = fd
    <3>1. fd \notin gone /\ kfile'[fd] = kfile[fd] /\ kfile[fd] \in Files \ S
      BY <1>5, <2>1 DEF IInv, TypeOK
    <3>2. m_sock[kfile[fd]] = fd
      BY <1>3, <2>1, <3>1, NoFdFacts DEF IInv, FilesKnown
    <3> QED BY <1>2, <3>1, <3>2
  <2> QED BY <2>1 DEF FilesKnown
<1>10. JustAccepted'
  BY <1>3 DEF JustAccepted
<1>11. Handled'
  <2>1. \A c \in Conns : m_sock'[c] # -1 <=> hpc'[c] \in {"run", "wait", "close"}
    BY <1>4, <1>6 DEF IInv, Handled
  <2>2. ASSUME NEW c \in Conns, hpc'[c] \in {"run", "wait"}
        PROVE  m_datas'[m_sock'[c]] # NoFile
    <3>1. hpc[c] \in {"run", "wait"} /\ m_sock'[c] # -1
      BY <1>6, <2>1, <2>2
    <3> QED BY <1>4, <1>5, <3>1, NoFdFacts DEF IInv, Handled
  <2>3. ASSUME NEW a \in Addrs, NEW c \in backlog'[a] PROVE hpc'[c] = "backlog"
    <3>1. a \notin S /\ c \in backlog[a] /\ c \in Conns
      BY <1>2, <2>3 DEF IInv, TypeOK
    <3>2. hpc[c] = "backlog" /\ \A b \in S : c \notin backlog[b]
      BY <1>1, <3>1 DEF IInv, Handled
    <3> QED BY <1>2, <3>1, <3>2
  <2>4. \A a, b \in Addrs : a # b => backlog'[a] \cap backlog'[b] = {}
    BY <1>2 DEF IInv, Handled
  <2> QED BY <2>1, <2>2, <2>3, <2>4 DEF Handled
<1>12. WaitersWait'
  <2>1. ASSUME NEW fd \in Fds, NEW c \in Conns, waiter[fd] = c
        PROVE  hpc'[c] = "wait" /\ m_sock'[c] = fd
    BY <1>4, <1>6, <2>1 DEF IInv, WaitersWait
  <2> QED BY <2>1 DEF IInv, WaitersWait
<1>13. NoCtxLeft'
  <2>1. \A fd \in Fds : kfile'[fd] = NoFile => m_datas'[fd] = NoFile
    BY <1>5 DEF IInv, NoCtxLeft
  <2>2. ASSUME NEW c \in Conns, hpc'[c] = "close" PROVE m_datas'[m_sock'[c]] = NoFile
    <3>1. hpc[c] = "close" /\ m_sock'[c] # -1
      BY <1>4, <1>6, <2>2 DEF IInv, Handled
    <3> QED BY <1>4, <1>5, <3>1, NoFdFacts DEF IInv, NoCtxLeft
  <2> QED BY <2>1, <2>2 DEF NoCtxLeft
<1>14. Listed'
  <2>1. Len(m_socks') = 0
    OBVIOUS
  <2> QED BY <1>4, <2>1 DEF Listed
<1>15. StartedOnce'
  BY <1>3 DEF StartedOnce
<1>16. CtxDescribesFile' /\ NeverBlocksThread'
  <2>1. CtxDescribesFile'
    BY <1>2, <1>4, <1>5 DEF IInv, CtxDescribesFile
  <2>2. NeverBlocksThread'
    BY <1>2, <1>4, <1>5 DEF IInv, NeverBlocksThread, Get, Valid
  <2> QED BY <2>1, <2>2
<1> QED BY <1>7, <1>8, <1>9, <1>10, <1>11, <1>12, <1>13, <1>14, <1>15, <1>16 DEF IInv

\* bind() of sockets that the server does not have, at descriptors that were free.
LEMMA NewSocksKeep ==
  ASSUME IInv, m_isStop, spc = "off",
         NEW A \in SUBSET Addrs, A \cap ToSet(m_socks) = {},
         NEW at \in [A -> FreeFds], IsInjective(at), NewSocks(A, at),
         m_socks' = m_socks \o SetToSeq(A),
         UNCHANGED <<m_isStop, backlog, waiter, registered, apc, lfd, nfd, hpc, spc, late>>
  PROVE  IInv'
<1>1. \A a \in Addrs : apc[a] = "off" /\ nfd[a] = -1 /\ late[a] = 0
  BY DEF IInv, StartedOnce, JustAccepted
<1>2. \A a \in A : /\ at[a] \in Fds /\ at[a] # -1 /\ kfile[at[a]] = NoFile
                   /\ m_datas[at[a]] = NoFile /\ m_sock[a] = -1
                   /\ a \in Files /\ a \notin Conns
  BY ListedSocks, NoFdFacts DEF IInv, NoCtxLeft, FreeFds
<1>3. \A a, b \in A : at[a] = at[b] => a = b
  BY DEF IsInjective
<1>4. ASSUME NEW a \in A
      PROVE  /\ kfile'[at[a]] = a /\ knonblock'[at[a]] /\ m_datas'[at[a]] = Fresh
             /\ m_sock'[a] = at[a] /\ asked'[a] = Nothing
  <2>1. (CHOOSE b \in A : at[b] = at[a]) = a
    BY <1>3
  <2>2. kfile'[at[a]] = a
    BY <1>2, <2>1 DEF NewSocks
  <2> QED BY <1>2, <2>2 DEF NewSocks
<1>5. ASSUME NEW fd \in Fds, \A a \in A : at[a] # fd
      PROVE  /\ kfile'[fd] = kfile[fd] /\ (knonblock'[fd] <=> knonblock[fd])
             /\ m_datas'[fd] = m_datas[fd]
  BY <1>5 DEF NewSocks
<1>6. \A f \in Files \ A : m_sock'[f] = m_sock[f] /\ asked'[f] = asked[f]
  BY DEF NewSocks
<1>7. ASSUME NEW f \in Files \ A, m_sock[f] # -1
      PROVE  m_sock[f] \in Fds /\ \A a \in A : at[a] # m_sock[f]
  BY <1>2, <1>7, NoFdFacts DEF IInv, TypeOK, NoFds, SocksOpen
<1>8. TypeOK'
  <2>1. /\ m_sock' \in [Files -> NoFds] /\ kfile' \in [Fds -> Files \cup {NoFile}]
    <3>1. m_sock' = [f \in Files |-> m_sock'[f]] /\ kfile' = [fd \in Fds |-> kfile'[fd]]
      BY DEF NewSocks
    <3>2. \A f \in Files : m_sock'[f] \in NoFds
      BY <1>2, <1>4, <1>6 DEF IInv, TypeOK, NoFds
    <3>3. \A fd \in Fds : kfile'[fd] \in Files \cup {NoFile}
      <4>1. ASSUME NEW fd \in Fds PROVE kfile'[fd] \in Files \cup {NoFile}
        <5>1. CASE \E a \in A : at[a] = fd
          BY <1>2, <1>4, <5>1
        <5>2. CASE \A a \in A : at[a] # fd
          BY <1>5, <5>2 DEF IInv, TypeOK
        <5> QED BY <5>1, <5>2
      <4> QED BY <4>1
    <3> QED BY <3>1, <3>2, <3>3
  <2>2. knonblock' \in [Fds -> BOOLEAN]
    BY DEF NewSocks
  <2>3. m_datas' \in [Fds -> FdCtx \cup {NoFile}]
    <3> HIDE DEF FdCtx, Fresh
    <3> QED BY NoFdFacts DEF NewSocks, IInv, TypeOK
  <2>4. asked' \in [Files -> [user: BOOLEAN, timeout: {"none", "m_recvTimeout"},
                             raw: BOOLEAN]]
    <3>1. Nothing \in [user: BOOLEAN, timeout: {"none", "m_recvTimeout"}, raw: BOOLEAN]
      BY DEF Nothing
    <3> HIDE DEF Nothing
    <3> QED BY <3>1 DEF NewSocks, IInv, TypeOK
  <2>5. m_socks' \in Seq(Addrs)
    <3>1. IsFiniteSet(A)
      BY TcpAssumption, FS_Subset
    <3>2. SetToSeq(A) \in Seq(Addrs)
      BY <3>1, SetToSeqFacts
    <3> QED BY <3>2 DEF IInv, TypeOK
  <2> QED BY <2>1, <2>2, <2>3, <2>4, <2>5 DEF IInv, TypeOK
<1>9. SocksOpen'
  BY <1>2, <1>4, <1>5, <1>6, <1>7 DEF IInv, SocksOpen
<1>10. FilesKnown'
  <2>1. ASSUME NEW fd \in Fds, kfile'[fd] # NoFile
        PROVE  m_sock'[kfile'[fd]] = fd
    <3>1. CASE \E a \in A : at[a] = fd
      BY <1>4, <3>1
    <3>2. CASE \A a \in A : at[a] # fd
      <4>1. kfile'[fd] = kfile[fd] /\ kfile[fd] \in Files
        BY <1>5, <2>1, <3>2 DEF IInv, TypeOK
      <4>2. m_sock[kfile[fd]] = fd
        BY <1>1, <2>1, <4>1, NoFdFacts DEF IInv, FilesKnown
      <4> QED BY <1>2, <1>6, <4>1, <4>2, NoFdFacts
    <3> QED BY <3>1, <3>2
  <2> QED BY <2>1 DEF FilesKnown
<1>11. JustAccepted'
  BY <1>1 DEF JustAccepted
<1>12. \A c \in Conns : m_sock'[c] = m_sock[c] /\ c \in Files \ A
  BY <1>2, <1>6, NoFdFacts
<1>13. Handled'
  <2>1. ASSUME NEW c \in Conns, hpc[c] \in {"run", "wait"}
        PROVE  m_datas'[m_sock'[c]] # NoFile
    <3>1. m_sock[c] # -1 /\ m_datas[m_sock[c]] # NoFile
      BY <2>1 DEF IInv, Handled
    <3> QED BY <1>5, <1>7, <1>12, <3>1
  <2> QED BY <1>12, <2>1 DEF IInv, Handled
<1>14. WaitersWait'
  BY <1>12 DEF IInv, WaitersWait
<1>15. NoCtxLeft'
  <2>1. ASSUME NEW fd \in Fds, kfile'[fd] = NoFile PROVE m_datas'[fd] = NoFile
    <3>1. \A a \in A : at[a] # fd
      BY <1>2, <1>4, <2>1, NoFdFacts
    <3> QED BY <1>5, <2>1, <3>1 DEF IInv, NoCtxLeft
  <2>2. ASSUME NEW c \in Conns, hpc[c] = "close" PROVE m_datas'[m_sock'[c]] = NoFile
    <3>1. m_sock[c] # -1 /\ m_datas[m_sock[c]] = NoFile
      BY <2>2 DEF IInv, Handled, NoCtxLeft
    <3> QED BY <1>5, <1>7, <1>12, <3>1
  <2> QED BY <2>1, <2>2 DEF NoCtxLeft
<1>16. Listed'
  <2> DEFINE q == SetToSeq(A)
  <2>1. /\ q \in Seq(A) /\ \A i, j \in 1..Len(q) : q[i] = q[j] => i = j
        /\ \A x \in A : \E i \in 1..Len(q) : q[i] = x
    <3>1. IsFiniteSet(A)
      BY TcpAssumption, FS_Subset
    <3> QED BY <3>1, SetToSeqFacts
  <2> HIDE DEF q
  <2>2. /\ m_socks \in Seq(Addrs)
        /\ \A i, j \in 1..Len(m_socks) : m_socks[i] = m_socks[j] => i = j
        /\ \A a \in Addrs : m_sock[a] # -1 <=> \E i \in 1..Len(m_socks) : m_socks[i] = a
    BY DEF IInv, TypeOK, Listed
  <2>3. \A i \in 1..Len(m_socks) : m_socks[i] \notin A
    BY <1>2, <2>2
  <2>4. m_socks' = m_socks \o q
    BY DEF q
  <2>5. /\ m_socks \in Seq(Addrs) /\ q \in Seq(A) /\ Once(m_socks) /\ Once(q)
        /\ \A x \in A : Holds(q, x) /\ ~Holds(m_socks, x)
        /\ \A a \in Addrs : m_sock[a] # -1 <=> Holds(m_socks, a)
    <3>1. Once(m_socks) /\ \A a \in Addrs : m_sock[a] # -1 <=> Holds(m_socks, a)
      BY ONLY <2>2 DEF Once, Holds
    <3>2. Once(q) /\ \A x \in A : Holds(q, x)
      BY ONLY <2>1 DEF Once, Holds
    <3>3. \A x \in A : ~Holds(m_socks, x)
      BY ONLY <2>3 DEF Holds
    <3> QED BY <2>1, <2>2, <3>1, <3>2, <3>3
  <2>6. /\ Once(m_socks \o q)
        /\ \A x : Holds(m_socks \o q, x) <=> Holds(m_socks, x) \/ Holds(q, x)
        /\ \A x : Holds(q, x) => x \in A
    BY <2>5, ConcatOnce
  <2>7. ASSUME NEW a \in Addrs PROVE m_sock'[a] # -1 <=> Holds(m_socks \o q, a)
    <3>1. CASE a \in A
      BY <1>2, <1>4, <2>5, <2>6, <3>1, NoFdFacts
    <3>2. CASE a \notin A
      <4>1. m_sock'[a] = m_sock[a]
        BY <1>6, <3>2, NoFdFacts
      <4> QED BY <2>5, <2>6, <3>2, <4>1
    <3> QED BY <3>1, <3>2
  <2>8. /\ \A i, j \in 1..Len(m_socks') : m_socks'[i] = m_socks'[j] => i = j
        /\ \A a \in Addrs : m_sock'[a] # -1 <=>
                            \E i \in 1..Len(m_socks') : m_socks'[i] = a
    <3> DEFINE w == m_socks \o q
    <3>1. /\ \A i, j \in 1..Len(w) : w[i] = w[j] => i = j
          /\ \A a \in Addrs : m_sock'[a] # -1 <=> \E i \in 1..Len(w) : w[i] = a
      <4>1. Once(w) /\ \A a \in Addrs : m_sock'[a] # -1 <=> Holds(w, a)
        BY <2>6, <2>7
      <4> HIDE DEF w
      <4> QED BY <4>1 DEF Once, Holds
    <3>2. m_socks' = w
      BY <2>4
    <3> HIDE DEF w
    <3> QED BY <3>1, <3>2
  <2> QED BY <2>8 DEF Listed
<1>17. StartedOnce'
  BY <1>1 DEF StartedOnce
<1>18. CtxDescribesFile'
  <2>1. Fresh.user = Nothing.user /\ Fresh.timeout = Nothing.timeout
    BY DEF Fresh, Nothing
  <2> QED BY <1>4, <1>5, <1>6, <1>7, <2>1 DEF IInv, CtxDescribesFile
<1>19. NeverBlocksThread'
  <2>1. ASSUME NEW f \in Files, m_sock'[f] # -1, Get(m_sock[f])' # NoFile
        PROVE  knonblock'[m_sock'[f]] \/ asked'[f].raw
    <3>1. CASE f \in A
      BY <1>4, <3>1
    <3>2. CASE f \notin A
      <4>1. m_sock[f] # -1 /\ m_sock'[f] = m_sock[f] /\ asked'[f] = asked[f]
        BY <1>6, <2>1, <3>2
      <4>2. /\ m_sock[f] \in Fds /\ m_datas'[m_sock[f]] = m_datas[m_sock[f]]
            /\ knonblock'[m_sock[f]] <=> knonblock[m_sock[f]]
        BY <1>5, <1>7, <3>2, <4>1
      <4>3. Get(m_sock[f]) # NoFile
        BY <2>1, <4>1, <4>2 DEF Get, Valid
      <4> QED BY <4>1, <4>2, <4>3 DEF IInv, NeverBlocksThread
    <3> QED BY <3>1, <3>2
  <2> QED BY <2>1 DEF NeverBlocksThread
<1> QED BY <1>8, <1>9, <1>10, <1>11, <1>13, <1>14, <1>15, <1>16, <1>17, <1>18,
           <1>19 DEF IInv

\* bind() makes all its sockets, or leaves the server without any.
LEMMA BindInv ==
  ASSUME IInv, BindSome
  PROVE  IInv'
<1>1. PICK A \in SUBSET Addrs \ {{}} : \E F \in SUBSET A :
        \E vector \in {{}, bound} : Bind(A, F, vector)
  BY DEF BindSome
<1>2. PICK F \in SUBSET A : \E vector \in {{}, bound} : Bind(A, F, vector)
  BY <1>1
<1>3. PICK vector \in {{}, bound} : Bind(A, F, vector)
  BY <1>2
<1>4. /\ m_isStop /\ spc = "off" /\ A \cap ToSet(m_socks) = {}
      /\ UNCHANGED <<m_isStop, waiter, registered, apc, lfd, nfd, spc, late>>
  BY <1>3 DEF Bind, Owner, acceptVars
<1>5. CASE vector \cup F = {}
  <2>1. PICK at \in [A -> FreeFds] :
          /\ IsInjective(at) /\ NewSocks(A, at) /\ m_socks' = m_socks \o SetToSeq(A)
          /\ UNCHANGED <<backlog, hpc>>
    BY <1>3, <1>5 DEF Bind
  <2> QED BY <1>4, <2>1, NewSocksKeep
<1>6. CASE vector \cup F # {}
  <2>1. Destroyed(ToSet(m_socks)) /\ m_socks' = <<>>
    BY <1>3, <1>6 DEF Bind
  <2> QED BY <1>4, <2>1, DestroyedKeeps
<1> QED BY <1>5, <1>6

\* Nothing is open at the start.
LEMMA InitInv == Init => IInv
<1> SUFFICES ASSUME Init PROVE IInv
  OBVIOUS
<1>1. TypeOK
  <2>1. asked \in [Files -> [user: BOOLEAN, timeout: {"none", "m_recvTimeout"},
                            raw: BOOLEAN]]
    BY DEF Init, Nothing
  <2>2. m_socks \in Seq(Addrs) /\ late \in [Addrs -> Nat]
    BY DEF Init
  <2> QED BY <2>1, <2>2 DEF Init, TypeOK, NoFds
<1>2. SocksOpen /\ FilesKnown /\ JustAccepted /\ Handled
  BY DEF Init, SocksOpen, FilesKnown, JustAccepted, Handled, Files
<1>3. WaitersWait /\ NoCtxLeft
  BY NoFdFacts DEF Init, WaitersWait, NoCtxLeft
<1>4. Listed /\ StartedOnce
  <2>1. Len(m_socks) = 0
    BY DEF Init
  <2> QED BY <2>1 DEF Init, Listed, StartedOnce, Files
<1>5. CtxDescribesFile /\ NeverBlocksThread
  BY DEF Init, CtxDescribesFile, NeverBlocksThread
<1> QED BY <1>1, <1>2, <1>3, <1>4, <1>5 DEF IInv

\* Every step of the owner, the fibers, the stop task and the peers keeps IInv.
LEMMA NextInv == IInv /\ [Next]_vars => IInv'
<1> SUFFICES ASSUME IInv, [Next]_vars PROVE IInv'
  OBVIOUS
<1>1. CASE UNCHANGED vars
  BY <1>1, TriggerInv DEF vars, serverVars, kernelVars, acceptVars, userVars
<1>2. CASE Destroy
  BY <1>2, DestroyedKeeps DEF Destroy, Owner, acceptVars
<1>3. ASSUME NEW a \in Addrs, AcceptFiber(a) PROVE IInv'
  BY <1>3, ResumeInv, LoopInv, AcceptOkInv, AcceptFailsInv, AcceptBlocksInv,
     AcceptWaitsInv, GetLookupInv, GetCreateInv, InitClientInv DEF AcceptFiber
<1>4. CASE StopTask
  BY <1>4, CancelsInv, StopDelInv, StopCloseFInv DEF StopTask
<1>5. ASSUME NEW c \in Conns, Handler(c) PROVE IInv'
  BY <1>5, HandlerWaitsInv, CancelsInv, FlagsInv, ClientDelInv, ClientCloseFInv
     DEF Handler
<1> QED BY <1>1, <1>2, <1>3, <1>4, <1>5, BindInv, StartInv, StopInv, ConnectInv,
           CancelsInv DEF Next

\* IInv holds in every reachable state of the server.
THEOREM ServerAccounted == Spec => []IInv
BY InitInv, NextInv, PTL DEF Spec

\* No descriptor leaks and none has two owners: not when bind() fails, not when a
\* client is accepted while the server stops, not when a number is used again.
THEOREM DescriptorsOwned == Spec => []FdsOwned
<1>1. IInv => FdsOwned
  <2>1. SUFFICES ASSUME IInv, NEW fd \in Fds, kfile[fd] # NoFile
                 PROVE  IF \E a \in Addrs : nfd[a] = fd
                          THEN \A f \in Files : m_sock[f] # fd
                          ELSE {f \in Files : m_sock[f] = fd} = {kfile[fd]}
    BY DEF FdsOwned
  <2>2. \A f \in Files : m_sock[f] = fd => kfile[fd] = f
    BY <2>1, NoFdFacts DEF IInv, SocksOpen
  <2>3. ASSUME NEW a \in Addrs, nfd[a] = fd PROVE m_sock[kfile[fd]] # fd
    <3>1. kfile[fd] \in Conns /\ hpc[kfile[fd]] = "accepted"
      BY <2>1, <2>3, NoFdFacts DEF IInv, JustAccepted
    <3>2. m_sock[kfile[fd]] = -1
      BY <2>1, <3>1 DEF IInv, Handled
    <3> QED BY <3>2, NoFdFacts
  <2>4. kfile[fd] \in Files
    BY <2>1 DEF IInv, TypeOK
  <2> QED BY <2>1, <2>2, <2>3, <2>4 DEF IInv, FilesKnown
<1> QED BY <1>1, ServerAccounted, PTL

\* The flags and the timeout that the hooks find for a descriptor are those of the file
\* that is open there.
THEOREM ContextsDescribe == Spec => []CtxDescribesFile
<1>1. IInv => CtxDescribesFile
  BY DEF IInv
<1> QED BY <1>1, ServerAccounted, PTL

\* A hooked call never blocks the thread, unless ioctl(FIONBIO) asked for it.
THEOREM HooksNeverBlock == Spec => []NeverBlocksThread
<1>1. IInv => NeverBlocksThread
  BY DEF IInv
<1> QED BY <1>1, ServerAccounted, PTL

\* After stop() an accept loop hands out at most one more connection.
THEOREM LastAccept == Spec => []OneAfterStop
<1>1. IInv => OneAfterStop
  BY DEF IInv, StartedOnce, OneAfterStop, TypeOK
<1> QED BY <1>1, ServerAccounted, PTL
=============================================================================
