------------------------ MODULE ConnectionPoolProofs ------------------------
(***************************************************************************)
(* IInv is an inductive invariant of ConnectionPool, for any clients,      *)
(* connections and limits of the pool.  AnswersItsRequest, PoolExact and   *)
(* FirstSendSpared follow.                                                 *)
(*                                                                         *)
(* The argument for AnswersItsRequest.  A connection that is lent out, and *)
(* in which nothing was left, carries nothing (OwnTraffic): a client that  *)
(* gives up waiting closes its connection first, so that a late answer is  *)
(* not met by the next client; and nobody but its holder sends on it.      *)
(***************************************************************************)
EXTENDS ConnectionPool, FiniteSetTheorems, SequenceTheorems, WellFoundedInduction,
        TLAPS

\* The program points at which a client has a connection
Lent == {"send", "sending", "recv", "release"}

\* A step that makes and deletes no connection and moves none keeps the accounts.
LEMMA AccountsKept ==
  ASSUME IInv, UNCHANGED <<m_conns, m_total, ptr>>,
         \A c \in Conns : object'[c].exists = object[c].exists,
         \A k \in Clients : pc'[k] \in Lent <=> pc[k] \in Lent
  PROVE  Holding' /\ Waiting' /\ Reachable' /\ IsFiniteSet(Existing') /\ TotalExact'
<1>1. Existing' = Existing
  BY DEF Existing
<1>2. Holding'
  BY DEF IInv, TypeOK, Holding, Lent
<1>3. Waiting'
  <2>1. \A i \in 1..Len(m_conns) : m_conns[i] \in Conns
    BY DEF IInv, TypeOK
  <2> QED BY <2>1 DEF IInv, Waiting
<1> QED BY <1>1, <1>2, <1>3 DEF IInv, Reachable, TotalExact

\* The client that has a connection is the only one.
LEMMA OneHolder ==
  ASSUME IInv, NEW k \in Clients, pc[k] \in Lent
  PROVE  /\ ptr[k] \in Conns /\ object[ptr[k]].exists
         /\ \A l \in Clients : ptr[l] = ptr[k] => l = k
BY DEF IInv, TypeOK, Holding, Lent

\* On a connection in which nothing was left, a response that can be read is the one to
\* the request of the client that reads it.
LEMMA AnswerIsOwn ==
  ASSUME IInv, NEW k \in Clients, pc[k] = "recv", inbox[ptr[k]] # <<>>, ptr[k] \notin left
  PROVE  inbox[ptr[k]] = <<req[k]>> /\ unread[ptr[k]] = <<>>
<1> DEFINE c == ptr[k]
<1>1. c \in Conns /\ \A l \in Clients : ptr[l] = c => l = k
  BY OneHolder DEF Lent
<1>2. ~Quiet(c)
  BY DEF Quiet
<1>3. OnItsWay(c, req[k])
  BY <1>1, <1>2 DEF IInv, OwnTraffic
<1> QED BY <1>3 DEF OnItsWay

\* On a connection that is about to be used, and in which nothing was left, there is
\* nothing to read.
LEMMA NothingToRead ==
  ASSUME IInv, NEW k \in Clients, pc[k] \in {"send", "sending", "release"},
         ptr[k] \notin left
  PROVE  Quiet(ptr[k])
<1>1. ptr[k] \in Conns /\ \A l \in Clients : ptr[l] = ptr[k] => l = k
  BY OneHolder DEF Lent
<1> QED BY <1>1 DEF IInv, OwnTraffic

\* A step that no connection sees keeps what is on its way, if the clients that send or
\* wait for a response go on.
LEMMA TrafficKept ==
  ASSUME IInv, UNCHANGED <<link, inbox, unread, half, failed, left>>,
         \A k \in Clients : pc[k] \in {"sending", "recv"} =>
           pc'[k] = pc[k] /\ ptr'[k] = ptr[k] /\ req'[k] = req[k]
  PROVE  OwnTraffic' /\ BrokenAwaited'
<1>1. ASSUME NEW c \in Conns
      PROVE  (Quiet(c) <=> Quiet(c)') /\ \A r : OnItsWay(c, r) <=> OnItsWay(c, r)'
  BY DEF Quiet, OnItsWay
<1>2. OwnTraffic'
  <2>1. SUFFICES ASSUME NEW c \in Conns \ left
                 PROVE  /\ half[c] = {}
                        /\ \/ Quiet(c)'
                           \/ \E k \in Clients :
                                pc'[k] = "recv" /\ ptr'[k] = c /\ OnItsWay(c, req[k])'
    BY DEF OwnTraffic
  <2> QED BY <1>1, <2>1 DEF IInv, OwnTraffic
<1>3. BrokenAwaited'
  <2>1. SUFFICES ASSUME NEW c \in Conns \ (failed \cup left),
                        link[c] \in {"refused", "broken"}
                 PROVE  Quiet(c)'
                        /\ \E k \in Clients : pc'[k] \in {"sending", "recv"} /\ ptr'[k] = c
    BY DEF BrokenAwaited
  <2> QED BY <1>1, <2>1 DEF IInv, BrokenAwaited
<1> QED BY <1>2, <1>3

\* A step of client k on its connection c leaves what is on its way in the others.
LEMMA OthersTraffic ==
  ASSUME IInv, NEW k \in Clients, NEW c \in Conns, ptr[k] = c,
         \A l \in Clients \ {k} :
           pc'[l] = pc[l] /\ ptr'[l] = ptr[l] /\ req'[l] = req[l],
         NEW d \in Conns \ {c}, d \in left' <=> d \in left, d \in failed' <=> d \in failed,
         link'[d] = link[d] /\ inbox'[d] = inbox[d] /\ unread'[d] = unread[d],
         half'[d] = half[d]
  PROVE  /\ d \notin left' =>
              /\ half'[d] = {}
              /\ \/ Quiet(d)'
                 \/ \E l \in Clients :
                      pc'[l] = "recv" /\ ptr'[l] = d /\ OnItsWay(d, req[l])'
         /\ d \notin failed' \cup left' /\ link'[d] \in {"refused", "broken"} =>
              Quiet(d)' /\ \E l \in Clients : pc'[l] \in {"sending", "recv"} /\ ptr'[l] = d
<1>1. (Quiet(d) <=> Quiet(d)') /\ \A r : OnItsWay(d, r) <=> OnItsWay(d, r)'
  BY DEF Quiet, OnItsWay
<1>2. \A l \in Clients : ptr[l] = d => l \in Clients \ {k}
  OBVIOUS
<1>3. ASSUME d \notin left
      PROVE  /\ half[d] = {}
             /\ \/ Quiet(d)
                \/ \E l \in Clients \ {k} :
                     pc[l] = "recv" /\ ptr[l] = d /\ OnItsWay(d, req[l])
  BY <1>2, <1>3 DEF IInv, OwnTraffic
<1>4. ASSUME d \notin failed \cup left, link[d] \in {"refused", "broken"}
      PROVE  Quiet(d)
             /\ \E l \in Clients \ {k} : pc[l] \in {"sending", "recv"} /\ ptr[l] = d
  BY <1>2, <1>4 DEF IInv, BrokenAwaited
<1> QED BY <1>1, <1>3, <1>4

\* A step that closes the connection of client k takes nothing from the others.
LEMMA ClosedTraffic ==
  ASSUME IInv, NEW k \in Clients, NEW c \in Conns, ptr[k] = c,
         \A l \in Clients \ {k} :
           pc'[l] = pc[l] /\ ptr'[l] = ptr[l] /\ req'[l] = req[l],
         \A d \in Conns \ {c} :
           /\ link'[d] = link[d] /\ inbox'[d] = inbox[d] /\ unread'[d] = unread[d]
           /\ half'[d] = half[d],
         link'[c] = "none", inbox'[c] = <<>>, unread'[c] = <<>>, half'[c] = {},
         failed' = failed \ {c}, left' = left \ {c}
  PROVE  OwnTraffic' /\ BrokenAwaited'
<1>1. \A d \in Conns \ {c} :
        /\ d \notin left' =>
             /\ half'[d] = {}
             /\ \/ Quiet(d)'
                \/ \E l \in Clients :
                     pc'[l] = "recv" /\ ptr'[l] = d /\ OnItsWay(d, req[l])'
        /\ d \notin failed' \cup left' /\ link'[d] \in {"refused", "broken"} =>
             Quiet(d)' /\ \E l \in Clients : pc'[l] \in {"sending", "recv"} /\ ptr'[l] = d
  BY OthersTraffic
<1>2. Quiet(c)' /\ half'[c] = {} /\ link'[c] \notin {"refused", "broken"}
  BY DEF Quiet
<1>3. OwnTraffic'
  BY <1>1, <1>2 DEF OwnTraffic
<1>4. BrokenAwaited'
  BY <1>1, <1>2 DEF BrokenAwaited
<1> QED BY <1>3, <1>4

\* A set of numbers that is not empty has a first one.
LEMMA FirstOf ==
  ASSUME NEW S \in SUBSET Nat, S # {}
  PROVE  \E i \in S : \A j \in S : i <= j
<1>1. PICK x \in S : \A y \in S : <<y, x>> \notin OpToRel(<, Nat)
  BY WFMin, NatLessThanWellFounded
<1>2. \A y \in S : ~(y < x)
  BY <1>1 DEF OpToRel
<1> QED BY <1>2

\* getConnection stops at the first connection that can be used, or at the end, and all
\* it has passed have been closed: none is too old, since m_createTime is never set.
LEMMA ScanFacts ==
  ASSUME TypeOK
  PROVE  /\ Scan \in 1..(Len(m_conns) + 1)
         /\ \A j \in 1..(Scan - 1) : ~object[m_conns[j]].isConnected
         /\ Scan <= Len(m_conns) => object[m_conns[Scan]].isConnected
<1> DEFINE usable == {i \in 1..Len(m_conns) : Usable(m_conns[i])}
<1>1. Len(m_conns) \in Nat
  BY DEF TypeOK
<1>2. ~TooOldToTake
  BY PoolAssumption DEF TooOldToTake, m_createTime
<1>3. CASE usable = {}
  <2>1. Scan = Len(m_conns) + 1
    BY <1>3 DEF Scan
  <2> QED BY <1>1, <1>2, <1>3, <2>1 DEF Usable
<1>4. CASE usable # {}
  <2>1. \E i \in usable : \A j \in usable : i <= j
    <3>1. usable \in SUBSET Nat
      BY <1>1
    <3> HIDE DEF usable
    <3> QED BY <1>4, <3>1, FirstOf
  <2>2. Scan = CHOOSE i \in usable : \A j \in usable : i <= j
    BY <1>4 DEF Scan
  <2>3. Scan \in usable /\ \A j \in usable : Scan <= j
    <3> HIDE DEF usable
    <3> QED BY <2>1, <2>2
  <2> QED BY <1>1, <1>2, <2>3 DEF Usable
<1> QED BY <1>3, <1>4

\* getConnection: the connections that it deletes are closed, waited in front of the one
\* that is taken, and are counted out.
LEMMA GetConnectionInv ==
  ASSUME IInv, killed = {}, NEW k \in Clients, GetConnection(k)
  PROVE  IInv'
<1> DEFINE i == Scan
           n == Len(m_conns)
           invalid == {m_conns[j] : j \in 1..(i - 1)}
<1>1. /\ pc[k] = "idle" /\ req[k].n < MaxCalls
      /\ result' = [result EXCEPT ![k] = Failure("NONE")]
      /\ m_conns' = SubSeq(m_conns, i + 1, n)
      /\ object' = [c \in Conns |-> IF c \in invalid THEN NoObject ELSE object[c]]
      /\ m_total' = m_total - Cardinality(invalid)
      /\ ptr' = [ptr EXCEPT ![k] = IF i <= n THEN m_conns[i] ELSE NoConn]
      /\ pc' = [pc EXCEPT ![k] = IF i <= n THEN "send" ELSE "connect"]
      /\ UNCHANGED <<link, inbox, session, unread, half, m_isKeepalive, failed, left,
                     killed>>
  BY DEF GetConnection, serverVars
<1>2. /\ req' \in [Clients -> [client: Clients, n: 0..MaxCalls, isClose: BOOLEAN]]
      /\ req'[k].n >= 1
      /\ \A l \in Clients \ {k} : req'[l] = req[l]
  <2>1. PICK close \in BOOLEAN :
          req' = [req EXCEPT ![k] = [req[k] EXCEPT !.n = @ + 1, !.isClose = close]]
    BY DEF GetConnection
  <2>2. req[k] \in [client: Clients, n: 0..MaxCalls, isClose: BOOLEAN]
    BY DEF IInv, TypeOK
  <2> DEFINE r == [req[k] EXCEPT !.n = @ + 1, !.isClose = close]
  <2>3. req[k].n + 1 \in 0..MaxCalls /\ req[k].n + 1 >= 1
    BY <1>1, <2>2, PoolAssumption
  <2>4. r \in [client: Clients, n: 0..MaxCalls, isClose: BOOLEAN] /\ r.n = req[k].n + 1
    BY <2>2, <2>3
  <2>5. req' = [req EXCEPT ![k] = r]
    BY <2>1
  <2> HIDE DEF r
  <2> QED BY <2>3, <2>4, <2>5 DEF IInv, TypeOK
<1>3. /\ n \in Nat /\ i \in 1..(n + 1)
      /\ \A j \in 1..(i - 1) : ~object[m_conns[j]].isConnected
      /\ i <= n => object[m_conns[i]].isConnected
  BY ScanFacts DEF IInv, TypeOK
<1>4. /\ \A j \in 1..n : m_conns[j] \in Conns /\ object[m_conns[j]].exists
      /\ \A j \in 1..n : \A l \in Clients : ptr[l] # m_conns[j]
      /\ \A j, m \in 1..n : m_conns[j] = m_conns[m] => j = m
  BY DEF IInv, TypeOK, Waiting
<1>5. /\ m_conns' \in Seq(Conns)
      /\ \A j \in 1..Len(m_conns') :
           i + j \in (i + 1)..n /\ m_conns'[j] = m_conns[i + j]
      /\ \A m \in (i + 1)..n : \E j \in 1..Len(m_conns') : m_conns'[j] = m_conns[m]
  <2> HIDE DEF i, n
  <2>1. i + 1 \in Int /\ n \in Int /\ \A j \in (i + 1)..n : m_conns[j] \in Conns
    BY <1>3, <1>4
  <2>2. /\ m_conns' \in Seq(Conns)
        /\ Len(m_conns') = IF i + 1 <= n THEN n - (i + 1) + 1 ELSE 0
        /\ \A j \in 1..(n - (i + 1) + 1) : m_conns'[j] = m_conns[(i + 1) + j - 1]
    BY <1>1, <2>1, SubSeqProperties
  <2>3. ASSUME NEW j \in 1..Len(m_conns')
        PROVE  i + j \in (i + 1)..n /\ m_conns'[j] = m_conns[i + j]
    <3>1. i + j \in (i + 1)..n /\ (i + 1) + j - 1 = i + j /\ j \in 1..(n - (i + 1) + 1)
      BY <1>3, <2>2
    <3> QED BY <2>2, <3>1
  <2>4. ASSUME NEW m \in (i + 1)..n
        PROVE  \E j \in 1..Len(m_conns') : m_conns'[j] = m_conns[m]
    <3>1. m - i \in 1..Len(m_conns') /\ i + (m - i) = m
      BY <1>3, <2>2
    <3> QED BY <2>3, <3>1
  <2> QED BY <2>2, <2>3, <2>4
<1> HIDE DEF i, n
<1>6. /\ \A j \in 1..(i - 1) : j \in 1..n
      /\ \A m \in (i + 1)..n : m \in 1..n /\ m # i /\ m \notin 1..(i - 1)
      /\ i <= n => i \in 1..n /\ i \notin 1..(i - 1)
      /\ \A j \in 1..n : j \in 1..(i - 1) \/ (j = i /\ i <= n) \/ j \in (i + 1)..n
  BY <1>3
<1>7. invalid \subseteq Existing
  BY <1>4, <1>6 DEF Existing
<1>8. /\ \A m \in (i + 1)..n : m_conns[m] \notin invalid
      /\ i <= n => m_conns[i] \notin invalid
      /\ \A l \in Clients : ptr[l] \notin invalid
      /\ \A c \in invalid : ~object[c].isConnected
  BY <1>3, <1>4, <1>6
<1>9. Existing' = Existing \ invalid
  BY <1>1, <1>7 DEF Existing, NoObject
<1>10. /\ ptr'[k] = IF i <= n THEN m_conns[i] ELSE NoConn
       /\ pc'[k] = IF i <= n THEN "send" ELSE "connect"
       /\ \A l \in Clients \ {k} : ptr'[l] = ptr[l] /\ pc'[l] = pc[l]
       /\ ptr[k] = NoConn
  BY <1>1 DEF IInv, TypeOK, Holding
<1>11. \A c \in Conns : object'[c] = IF c \in invalid THEN NoObject ELSE object[c]
  BY <1>1
<1> HIDE DEF invalid
<1>12. TypeOK'
  <2>2. IsFiniteSet(invalid) /\ Cardinality(invalid) \in Nat
    BY <1>7, FS_Subset, FS_CardinalityType DEF IInv
  <2>3. m_total' \in Int
    BY <1>1, <2>2 DEF IInv, TypeOK
  <2>4. Failure("NONE") \in Result
    BY DEF Failure, Result
  <2>5. NoObject \in [exists: BOOLEAN, isConnected: BOOLEAN,
                      m_request: {0} \cup 0..(m_maxRequest - 1)]
    BY DEF NoObject
  <2>6. object' \in [Conns -> [exists: BOOLEAN, isConnected: BOOLEAN,
                               m_request: {0} \cup 0..(m_maxRequest - 1)]]
    BY <1>1, <2>5 DEF IInv, TypeOK
  <2>7. /\ ptr' \in [Clients -> Conns \cup {NoConn}]
        /\ pc' \in [Clients -> {"idle", "connect", "send", "sending", "recv", "release"}]
        /\ result' \in [Clients -> Result]
    BY <1>1, <1>4, <1>6, <2>4 DEF IInv, TypeOK
  <2> QED BY <1>1, <1>2, <1>5, <2>3, <2>6, <2>7 DEF IInv, TypeOK
<1>13. Holding'
  <2>1. NoConn \notin Conns
    BY PoolAssumption
  <2>2. ASSUME NEW l \in Clients
        PROVE  /\ ptr'[l] # NoConn <=> pc'[l] \in {"send", "sending", "recv", "release"}
               /\ ptr'[l] # NoConn => object'[ptr'[l]].exists
    <3>1. CASE l = k
      BY <1>4, <1>6, <1>8, <1>10, <1>11, <2>1, <3>1
    <3>2. CASE l # k
      BY <1>8, <1>10, <1>11, <3>2 DEF IInv, TypeOK, Holding
    <3> QED BY <3>1, <3>2
  <2>3. ASSUME NEW l \in Clients, NEW m \in Clients, ptr'[l] # NoConn, ptr'[l] = ptr'[m]
        PROVE  l = m
    BY <1>4, <1>6, <1>10, <2>3 DEF IInv, Holding
  <2> QED BY <2>2, <2>3 DEF Holding
<1>14. Waiting'
  <2>1. ASSUME NEW j \in 1..Len(m_conns'), NEW m \in 1..Len(m_conns'),
               m_conns'[j] = m_conns'[m]
        PROVE  j = m
    <3>1. i + j \in 1..n /\ i + m \in 1..n /\ m_conns[i + j] = m_conns[i + m]
      BY <1>5, <1>6, <2>1
    <3>2. i + j = i + m
      BY <1>4, <3>1
    <3>3. Len(m_conns') \in Nat
      BY <1>5
    <3> QED BY <1>3, <3>2, <3>3
  <2>2. ASSUME NEW j \in 1..Len(m_conns')
        PROVE  /\ object'[m_conns'[j]].exists
               /\ \A l \in Clients : ptr'[l] # m_conns'[j]
    <3>1. /\ i + j \in (i + 1)..n /\ i + j \in 1..n /\ i + j # i
          /\ m_conns'[j] = m_conns[i + j]
      BY <1>5, <1>6
    <3>2. object'[m_conns'[j]].exists
      BY <1>4, <1>8, <1>11, <3>1
    <3>3. m_conns[i + j] # NoConn
      BY <1>4, <3>1, PoolAssumption
    <3>4. ASSUME NEW l \in Clients PROVE ptr'[l] # m_conns[i + j]
      BY <1>4, <1>6, <1>10, <3>1, <3>3
    <3> QED BY <3>1, <3>2, <3>4
  <2> QED BY <2>1, <2>2 DEF Waiting
<1>15. Reachable'
  <2>1. SUFFICES ASSUME NEW c \in Existing, c \notin invalid
                 PROVE  \/ \E j \in 1..Len(m_conns') : m_conns'[j] = c
                        \/ \E l \in Clients : ptr'[l] = c
    BY <1>9 DEF Reachable
  <2>2. CASE \E l \in Clients : ptr[l] = c
    BY <1>10, <2>2, PoolAssumption DEF Existing
  <2>3. ASSUME NEW j \in 1..n, m_conns[j] = c
        PROVE  \/ \E m \in 1..Len(m_conns') : m_conns'[m] = c
               \/ \E l \in Clients : ptr'[l] = c
    <3>1. CASE j \in 1..(i - 1)
      BY <2>1, <2>3, <3>1 DEF invalid
    <3>2. CASE j = i /\ i <= n
      BY <1>10, <2>3, <3>2
    <3>3. CASE j \in (i + 1)..n
      BY <1>5, <2>3, <3>3
    <3> QED BY <1>6, <3>1, <3>2, <3>3
  <2> QED BY <2>2, <2>3 DEF IInv, Reachable, n
<1>16. IsFiniteSet(Existing') /\ TotalExact'
  <2>1. Existing \cap invalid = invalid
    BY <1>7
  <2>2. /\ IsFiniteSet(Existing \ invalid)
        /\ Cardinality(Existing \ invalid) =
             Cardinality(Existing) - Cardinality(invalid)
    BY <2>1, FS_Difference DEF IInv
  <2> QED BY <1>1, <1>9, <2>2 DEF IInv, TotalExact
<1>17. Asked'
  BY <1>2, <1>10 DEF IInv, Asked
<1>18. ClosedIsClean'
  BY <1>1, <1>8, <1>11 DEF IInv, ClosedIsClean, NoObject
<1>19. SessionOpen' /\ FirstSendSpared'
  BY <1>1 DEF IInv, SessionOpen, FirstSendSpared
<1>20. \A l \in Clients : pc[l] \in {"sending", "recv"} =>
         l # k /\ ptr'[l] = ptr[l] /\ pc'[l] = pc[l] /\ req'[l] = req[l]
  BY <1>1, <1>2, <1>10 DEF IInv, TypeOK
<1>21. OwnTraffic' /\ BrokenAwaited'
  BY <1>1, <1>20, TrafficKept
<1>22. AnswersItsRequest'
  BY <1>1, <1>2, <1>10 DEF IInv, TypeOK, AnswersItsRequest
<1> QED BY <1>12, <1>13, <1>14, <1>15, <1>16, <1>17, <1>18, <1>19, <1>21, <1>22 DEF IInv

\* A new connection is one that nobody has, of which nothing is left, counted at once.
LEMMA ConnectInv ==
  ASSUME IInv, killed = {}, NEW k \in Clients, Connect(k)
  PROVE  IInv'
<1> DEFINE new == [exists |-> TRUE, isConnected |-> TRUE, m_request |-> 0]
<1>1. PICK c \in Conns :
        /\ ~object[c].exists
        /\ object' = [object EXCEPT ![c] = new]
        /\ ptr' = [ptr EXCEPT ![k] = c]
        /\ link' = [link EXCEPT ![c] = "open"]
        /\ session' = [session EXCEPT ![c] = "loop"]
  BY DEF Connect
<1>2. /\ pc[k] = "connect" /\ m_total' = m_total + 1
      /\ pc' = [pc EXCEPT ![k] = "send"]
      /\ UNCHANGED <<m_conns, req, result, inbox, unread, half, m_isKeepalive, failed, left,
                     killed>>
  BY DEF Connect
<1>3. /\ ptr'[k] = c /\ pc'[k] = "send" /\ ptr[k] = NoConn
      /\ \A l \in Clients \ {k} : ptr'[l] = ptr[l] /\ pc'[l] = pc[l]
  BY <1>1, <1>2 DEF IInv, TypeOK, Holding
<1>4. \A d \in Conns : object'[d] = IF d = c THEN new ELSE object[d]
  BY <1>1 DEF IInv, TypeOK
<1>5. /\ \A l \in Clients : ptr[l] # c
      /\ \A i \in 1..Len(m_conns) : m_conns[i] \in Conns /\ m_conns[i] # c
      /\ link[c] = "none" /\ inbox[c] = <<>> /\ unread[c] = <<>>
  <2>1. c # NoConn /\ ~object[c].exists
    BY <1>1, PoolAssumption
  <2>2. \A l \in Clients : ptr[l] # c
    BY <2>1 DEF IInv, Holding
  <2>3. \A i \in 1..Len(m_conns) : m_conns[i] \in Conns
    BY DEF IInv, TypeOK
  <2>4. \A i \in 1..Len(m_conns) : m_conns[i] # c
    BY <2>1 DEF IInv, Waiting
  <2>5. link[c] = "none" /\ inbox[c] = <<>> /\ unread[c] = <<>>
    BY <2>1 DEF IInv, ClosedIsClean
  <2> QED BY <2>2, <2>3, <2>4, <2>5
<1>6. TypeOK'
  BY <1>1, <1>2 DEF IInv, TypeOK
<1>7. Holding'
  <2>1. c # NoConn
    BY PoolAssumption
  <2>2. ASSUME NEW l \in Clients
        PROVE  /\ ptr'[l] # NoConn <=> pc'[l] \in {"send", "sending", "recv", "release"}
               /\ ptr'[l] # NoConn => object'[ptr'[l]].exists
    <3>1. CASE l = k
      BY <1>3, <1>4, <2>1, <3>1
    <3>2. CASE l # k
      <4>1. /\ ptr[l] # NoConn <=> pc[l] \in {"send", "sending", "recv", "release"}
            /\ ptr[l] # NoConn => ptr[l] \in Conns /\ object[ptr[l]].exists
        BY DEF IInv, TypeOK, Holding
      <4> QED BY <1>3, <1>4, <1>5, <3>2, <4>1
    <3> QED BY <3>1, <3>2
  <2>3. ASSUME NEW l \in Clients, NEW m \in Clients, ptr'[l] # NoConn, ptr'[l] = ptr'[m]
        PROVE  l = m
    BY <1>3, <1>5, <2>3 DEF IInv, Holding
  <2> QED BY <2>2, <2>3 DEF Holding
<1>8. Waiting'
  BY <1>2, <1>3, <1>4, <1>5 DEF IInv, Waiting
<1>9. Existing' = Existing \cup {c} /\ c \notin Existing
  BY <1>1, <1>4 DEF Existing
<1>10. Reachable'
  <2>1. ASSUME NEW d \in Existing
        PROVE  \/ \E i \in 1..Len(m_conns) : m_conns[i] = d
               \/ \E l \in Clients : ptr'[l] = d
    BY <1>3, PoolAssumption DEF IInv, Reachable, Existing
  <2> QED BY <1>2, <1>3, <1>9, <2>1 DEF Reachable
<1>11. IsFiniteSet(Existing') /\ TotalExact'
  BY <1>2, <1>9, FS_AddElement DEF IInv, TotalExact
<1>12. Asked' /\ AnswersItsRequest'
  BY <1>2, <1>3 DEF IInv, Asked, AnswersItsRequest
<1>13. ClosedIsClean' /\ SessionOpen'
  BY <1>1, <1>2, <1>4 DEF IInv, TypeOK, ClosedIsClean, SessionOpen
<1>14. OwnTraffic'
  <2>1. ASSUME NEW d \in Conns \ left
        PROVE  /\ half'[d] = {}
               /\ \/ Quiet(d)'
                  \/ \E l \in Clients :
                       pc'[l] = "recv" /\ ptr'[l] = d /\ OnItsWay(d, req[l])'
    <3>1. /\ half[d] = {}
          /\ \/ Quiet(d)
             \/ \E l \in Clients : pc[l] = "recv" /\ ptr[l] = d /\ OnItsWay(d, req[l])
      BY DEF IInv, OwnTraffic
    <3>2. \A l \in Clients : pc[l] = "recv" => pc'[l] = "recv" /\ ptr'[l] = ptr[l]
      BY <1>2, <1>3
    <3> QED BY <1>2, <3>1, <3>2 DEF Quiet, OnItsWay
  <2> QED BY <1>2, <2>1 DEF OwnTraffic
<1>15. BrokenAwaited'
  <2>1. SUFFICES ASSUME NEW d \in Conns \ (failed \cup left),
                        link'[d] \in {"refused", "broken"}
                 PROVE  Quiet(d)'
                        /\ \E l \in Clients : pc'[l] \in {"sending", "recv"} /\ ptr'[l] = d
    BY <1>2 DEF BrokenAwaited
  <2>2. d # c /\ link[d] \in {"refused", "broken"}
    BY <1>1, <2>1 DEF IInv, TypeOK
  <2>3. Quiet(d) /\ \E l \in Clients : pc[l] \in {"sending", "recv"} /\ ptr[l] = d
    BY <2>2 DEF IInv, BrokenAwaited
  <2> QED BY <1>2, <1>3, <2>3 DEF Quiet
<1>16. FirstSendSpared'
  BY <1>2 DEF FirstSendSpared
<1> QED BY <1>6, <1>7, <1>8, <1>10, <1>11, <1>12, <1>13, <1>14, <1>15, <1>16 DEF IInv

\* doRequest returns without a connection.
LEMMA ConnectFailsInv ==
  ASSUME IInv, killed = {}, NEW k \in Clients, ConnectFails(k)
  PROVE  IInv'
<1>1. /\ pc[k] = "connect"
      /\ result' = [result EXCEPT ![k] = Failure("POOL_GET_CONNECTION")]
      /\ pc' = [pc EXCEPT ![k] = "idle"]
      /\ UNCHANGED <<m_conns, m_total, object, ptr, req, link, inbox, session, unread,
                     half, m_isKeepalive, failed, left, killed>>
  BY DEF ConnectFails, poolVars, serverVars
<1>2. pc'[k] = "idle" /\ \A l \in Clients \ {k} : pc'[l] = pc[l]
  BY <1>1 DEF IInv, TypeOK
<1>3. TypeOK'
  <2>1. Failure("POOL_GET_CONNECTION") \in Result
    BY DEF Failure, Result
  <2> QED BY <1>1, <2>1 DEF IInv, TypeOK
<1>4. Holding' /\ Waiting' /\ Reachable' /\ IsFiniteSet(Existing') /\ TotalExact'
  BY <1>1, <1>2, AccountsKept DEF Lent
<1>5. Asked' /\ AnswersItsRequest'
  BY <1>1, <1>2 DEF IInv, TypeOK, Asked, AnswersItsRequest, Failure
<1>6. ClosedIsClean' /\ SessionOpen' /\ FirstSendSpared'
  BY <1>1 DEF IInv, ClosedIsClean, SessionOpen, FirstSendSpared
<1>7. OwnTraffic' /\ BrokenAwaited'
  BY <1>1, <1>2, TrafficKept
<1> QED BY <1>3, <1>4, <1>5, <1>6, <1>7 DEF IInv

\* sendRequest: on a connection in which nothing was left the request is alone, or the
\* peer is gone and no answer will come.
LEMMA SendRequestInv ==
  ASSUME IInv, killed = {}, NEW k \in Clients, SendRequest(k)
  PROVE  IInv'
<1>c. PICK c \in Conns : c = ptr[k]
  BY OneHolder DEF Lent, SendRequest, Sending
<1>1. /\ pc[k] \in {"send", "sending"} /\ link[c] \in {"open", "fin", "refused"}
      /\ UNCHANGED <<m_conns, m_total, object, ptr, req, result, inbox, session,
                     m_isKeepalive, failed, left, killed>>
  BY <1>c DEF SendRequest, Sending, poolVars
<1>2. PICK last \in BOOLEAN :
        /\ pc' = [pc EXCEPT ![k] = IF last THEN "recv" ELSE "sending"]
        /\ \/ link[c] = "open" /\ PartArrives(k, last) /\ UNCHANGED link
           \/ /\ link[c] # "open"
              /\ link' = [link EXCEPT ![c] = "refused"]
              /\ UNCHANGED <<unread, half>>
  BY <1>c DEF SendRequest
<1>3. c \in Conns /\ \A l \in Clients : ptr[l] = c => l = k
  BY <1>1, <1>c, OneHolder DEF Lent
<1>4. c \notin left => Quiet(c) /\ half[c] = {}
  BY <1>1, <1>3, <1>c, NothingToRead DEF IInv, OwnTraffic
<1>5. /\ pc'[k] = IF last THEN "recv" ELSE "sending"
      /\ \A l \in Clients \ {k} : pc'[l] = pc[l]
  BY <1>2 DEF IInv, TypeOK
<1>6. object[c].isConnected
  BY <1>1, <1>3 DEF IInv, ClosedIsClean
<1>7. \/ unread' = unread /\ half' = half
      \/ last /\ unread' = [unread EXCEPT ![c] = Append(@, req[k])] /\ half' = half
      \/ \E h \in half[c] : /\ unread' = [unread EXCEPT ![c] = Append(@, h)]
                            /\ half' = [half EXCEPT ![c] = @ \ {h}]
  BY <1>c, <1>2 DEF PartArrives
<1>8. req[k] \in Requests
  <2>1. req[k] \in [client: Clients, n: 0..MaxCalls, isClose: BOOLEAN]
    BY DEF IInv, TypeOK
  <2>2. req[k].n \in 1..MaxCalls
    BY <1>1, <2>1, PoolAssumption DEF IInv, Asked
  <2> QED BY <2>1, <2>2 DEF Requests
<1>9. unread' \in [Conns -> Seq(Requests)] /\ half' \in [Conns -> SUBSET Requests]
  <2>1. unread \in [Conns -> Seq(Requests)] /\ half \in [Conns -> SUBSET Requests]
    BY DEF IInv, TypeOK
  <2>2. \A r \in Requests : Append(unread[c], r) \in Seq(Requests)
    BY <1>3, <2>1
  <2>3. \A h \in half[c] : h \in Requests /\ half[c] \ {h} \in SUBSET Requests
    BY <1>3, <2>1
  <2> QED BY <1>7, <1>8, <2>1, <2>2, <2>3
<1>10. /\ \A d \in Conns \ {c} :
            link'[d] = link[d] /\ unread'[d] = unread[d] /\ half'[d] = half[d]
       /\ link'[c] = IF link[c] = "open" THEN "open" ELSE "refused"
  BY <1>1, <1>2, <1>3, <1>7 DEF IInv, TypeOK
<1>11. TypeOK'
  <2>1. /\ link' \in [Conns -> {"none", "open", "fin", "refused", "reset", "broken"}]
        /\ pc' \in [Clients -> {"idle", "connect", "send", "sending", "recv", "release"}]
    BY <1>2 DEF IInv, TypeOK
  <2> QED BY <1>1, <1>9, <2>1 DEF IInv, TypeOK
<1>12. Holding' /\ Waiting' /\ Reachable' /\ IsFiniteSet(Existing') /\ TotalExact'
  BY <1>1, <1>5, AccountsKept DEF Lent
<1>13. Asked' /\ AnswersItsRequest' /\ FirstSendSpared'
  BY <1>1, <1>5 DEF IInv, Asked, AnswersItsRequest, FirstSendSpared
<1>14. ClosedIsClean'
  BY <1>1, <1>6, <1>10 DEF IInv, ClosedIsClean
<1>15. SessionOpen'
  BY <1>1, <1>10 DEF IInv, SessionOpen
<1>16. \A d \in Conns \ {c} :
         /\ d \notin left' =>
              /\ half'[d] = {}
              /\ \/ Quiet(d)'
                 \/ \E l \in Clients :
                      pc'[l] = "recv" /\ ptr'[l] = d /\ OnItsWay(d, req[l])'
         /\ d \notin failed' \cup left' /\ link'[d] \in {"refused", "broken"} =>
              Quiet(d)' /\ \E l \in Clients : pc'[l] \in {"sending", "recv"} /\ ptr'[l] = d
  BY <1>c, <1>1, <1>3, <1>5, <1>10, OthersTraffic
<1>17. ASSUME c \notin left
       PROVE  /\ half'[c] = {}
              /\ \/ Quiet(c)'
                 \/ link[c] = "open" /\ pc'[k] = "recv" /\ OnItsWay(c, req[k])'
  <2>1. CASE unread' = unread /\ half' = half
    BY <1>1, <1>4, <1>17, <2>1 DEF Quiet
  <2>2. CASE last /\ unread' = [unread EXCEPT ![c] = Append(@, req[k])] /\ half' = half
    <3>1. unread'[c] = <<req[k]>> /\ inbox'[c] = <<>>
      BY <1>1, <1>3, <1>4, <1>17, <2>2 DEF IInv, TypeOK, Quiet
    <3>2. link[c] = "open"
      <4>1. unread[c] = <<>>
        BY <1>4, <1>17 DEF Quiet
      <4>2. unread'[c] # unread[c]
        BY <3>1, <4>1
      <4> QED BY <1>2, <4>2
    <3> QED BY <1>1, <1>4, <1>5, <1>17, <2>2, <3>1, <3>2 DEF OnItsWay
  <2> QED BY <1>4, <1>7, <1>17, <2>1, <2>2
<1>18. OwnTraffic'
  BY <1>c, <1>1, <1>3, <1>16, <1>17 DEF OwnTraffic
<1>19. BrokenAwaited'
  <2>1. ASSUME c \notin failed \cup left, link'[c] \in {"refused", "broken"}
        PROVE  Quiet(c)' /\ pc'[k] \in {"sending", "recv"} /\ ptr'[k] = c
    <3>1. link[c] # "open" /\ c \notin left
      BY <1>10, <2>1
    <3>2. Quiet(c)'
      BY <1>17, <3>1
    <3> QED BY <1>c, <1>1, <1>5, <3>2
  <2> QED BY <1>1, <1>16, <2>1 DEF BrokenAwaited
<1> QED BY <1>11, <1>12, <1>13, <1>14, <1>15, <1>18, <1>19 DEF IInv

\* send() fails, and the history notes it.
LEMMA SendFailsInv ==
  ASSUME IInv, killed = {}, NEW k \in Clients, SendFails(k)
  PROVE  IInv'
<1>c. PICK c \in Conns : c = ptr[k]
  BY OneHolder DEF Lent, SendFails, Sending
<1>1. /\ pc[k] \in {"send", "sending"} /\ link[c] \in {"open", "fin", "refused", "reset"}
      /\ link' = [link EXCEPT ![c] = IF @ = "reset" THEN "broken" ELSE @]
      /\ failed' = failed \cup {c}
      /\ \/ pc[k] = "send" /\ half' = half /\ left' = left
         \/ /\ half' = [half EXCEPT ![c] = @ \cup {req[k]}]
            /\ left' = left \cup {c}
      /\ result' = [result EXCEPT ![k] = Failure("SEND_SOCKET_ERROR")]
      /\ pc' = [pc EXCEPT ![k] = "release"]
      /\ UNCHANGED <<m_conns, m_total, object, ptr, req, inbox, session, unread,
                     m_isKeepalive, killed>>
  BY <1>c DEF SendFails, Sending, poolVars
<1>2. c \in Conns /\ \A l \in Clients : ptr[l] = c => l = k
  BY <1>1, <1>c, OneHolder DEF Lent
<1>3. pc'[k] = "release" /\ \A l \in Clients \ {k} : pc'[l] = pc[l]
  BY <1>1 DEF IInv, TypeOK
<1>4. object[c].isConnected
  BY <1>1, <1>2 DEF IInv, ClosedIsClean
<1>5. req[k] \in Requests
  <2>1. req[k] \in [client: Clients, n: 0..MaxCalls, isClose: BOOLEAN]
    BY DEF IInv, TypeOK
  <2>2. req[k].n \in 1..MaxCalls
    BY <1>1, <2>1, PoolAssumption DEF IInv, Asked
  <2> QED BY <2>1, <2>2 DEF Requests
<1>6. c \notin left => Quiet(c) /\ half[c] = {}
  BY <1>1, <1>2, <1>c, NothingToRead DEF IInv, OwnTraffic
<1>7. TypeOK'
  <2>1. Failure("SEND_SOCKET_ERROR") \in Result
    BY DEF Failure, Result
  <2>2. half' \in [Conns -> SUBSET Requests] /\ left' \subseteq Conns
    <3>1. half[c] \cup {req[k]} \in SUBSET Requests
      BY <1>2, <1>5 DEF IInv, TypeOK
    <3>2. half \in [Conns -> SUBSET Requests] /\ left \subseteq Conns
      BY DEF IInv, TypeOK
    <3> QED BY <1>1, <1>2, <3>1, <3>2
  <2>3. /\ link' \in [Conns -> {"none", "open", "fin", "refused", "reset", "broken"}]
        /\ result' \in [Clients -> Result] /\ failed' \subseteq Conns
        /\ pc' \in [Clients -> {"idle", "connect", "send", "sending", "recv", "release"}]
    BY <1>1, <1>2, <2>1 DEF IInv, TypeOK
  <2> QED BY <1>1, <2>2, <2>3 DEF IInv, TypeOK
<1>8. Holding' /\ Waiting' /\ Reachable' /\ IsFiniteSet(Existing') /\ TotalExact'
  BY <1>1, <1>3, AccountsKept DEF Lent
<1>9. Asked' /\ AnswersItsRequest' /\ FirstSendSpared'
  BY <1>1, <1>3 DEF IInv, TypeOK, Asked, AnswersItsRequest, Failure, FirstSendSpared
<1>10. /\ \A d \in Conns \ {c} : link'[d] = link[d] /\ half'[d] = half[d]
       /\ link'[c] = "open" => link[c] = "open"
       /\ link[c] = "open" => link'[c] = "open"
  BY <1>1, <1>2 DEF IInv, TypeOK
<1>11. ClosedIsClean' /\ SessionOpen'
  BY <1>1, <1>2, <1>4, <1>10 DEF IInv, ClosedIsClean, SessionOpen
<1>12. \A d \in Conns \ {c} :
         /\ d \notin left' =>
              /\ half'[d] = {}
              /\ \/ Quiet(d)'
                 \/ \E l \in Clients :
                      pc'[l] = "recv" /\ ptr'[l] = d /\ OnItsWay(d, req[l])'
         /\ d \notin failed' \cup left' /\ link'[d] \in {"refused", "broken"} =>
              Quiet(d)' /\ \E l \in Clients : pc'[l] \in {"sending", "recv"} /\ ptr'[l] = d
  <2>1. \A d \in Conns \ {c} : (d \in left' <=> d \in left) /\ (d \in failed' <=> d \in failed)
    BY <1>1
  <2> QED BY <1>c, <1>1, <1>2, <1>3, <1>10, <2>1, OthersTraffic
<1>13. c \notin left' => Quiet(c)' /\ half'[c] = {}
  BY <1>1, <1>6 DEF Quiet
<1>14. OwnTraffic'
  BY <1>12, <1>13 DEF OwnTraffic
<1>15. BrokenAwaited'
  BY <1>1, <1>12 DEF BrokenAwaited
<1> QED BY <1>7, <1>8, <1>9, <1>11, <1>14, <1>15 DEF IInv

\* The signal comes where no response is awaited: a part of the same request has gone out,
\* a send() has failed before, or a body was left.
LEMMA SendKillsInv ==
  ASSUME IInv, killed = {}, NEW k \in Clients, SendKills(k)
  PROVE  IInv'
<1> DEFINE c == ptr[k]
<1>1. /\ pc[k] \in {"send", "sending"} /\ link[c] = "broken" /\ killed' = {c}
      /\ UNCHANGED <<m_conns, m_total, object, pc, ptr, req, result, link, inbox,
                     session, unread, half, m_isKeepalive, failed, left>>
  BY DEF SendKills, Sending, poolVars, clientVars, serverVars
<1>2. c \in Conns /\ \A l \in Clients : ptr[l] = c => l = k
  BY <1>1, OneHolder DEF Lent
<1>3. c \in failed \cup left \/ pc[k] = "sending"
  BY <1>1, <1>2 DEF IInv, BrokenAwaited
<1>4. TypeOK'
  BY <1>1, <1>2 DEF IInv, TypeOK
<1>5. Holding' /\ Waiting' /\ Reachable' /\ IsFiniteSet(Existing') /\ TotalExact'
  BY <1>1, AccountsKept DEF Lent
<1>6. OwnTraffic' /\ BrokenAwaited'
  BY <1>1, TrafficKept
<1>7. FirstSendSpared'
  BY <1>1, <1>3 DEF FirstSendSpared
<1> QED BY <1>1, <1>4, <1>5, <1>6, <1>7 DEF IInv, Asked, ClosedIsClean, SessionOpen,
   AnswersItsRequest

\* recvResponse takes the only message there is, or leaves its body, which the history
\* notes.
LEMMA ResponseInv ==
  ASSUME IInv, killed = {}, NEW k \in Clients, ReadResponse(k) \/ ReadHeadOnly(k)
  PROVE  IInv'
<1>c. PICK c \in Conns : c = ptr[k]
  BY OneHolder DEF Lent, ReadResponse, ReadHeadOnly, Response
<1>1. /\ pc[k] = "recv" /\ inbox[c] # <<>>
      /\ result' = [result EXCEPT ![k] = [error |-> "OK", response |-> Head(inbox[c])]]
      /\ pc' = [pc EXCEPT ![k] = "release"]
      /\ UNCHANGED <<m_conns, m_total, object, ptr, req, link, session, unread, half,
                     m_isKeepalive, failed, killed>>
  BY <1>c DEF ReadResponse, ReadHeadOnly, Response, poolVars, serverVars
<1>2. c \in Conns /\ \A l \in Clients : ptr[l] = c => l = k
  BY <1>1, <1>c, OneHolder DEF Lent
<1>3. c \notin left => inbox[c] = <<req[k]>> /\ unread[c] = <<>>
  BY <1>c, <1>1, AnswerIsOwn
<1>4. pc'[k] = "release" /\ \A l \in Clients \ {k} : pc'[l] = pc[l]
  BY <1>1 DEF IInv, TypeOK
<1>5. inbox[c] \in Seq(Requests) /\ Len(inbox[c]) \in Nat /\ Head(inbox[c]) \in Requests
  BY <1>1, <1>2, HeadTailProperties DEF IInv, TypeOK
<1>6. \/ inbox' = inbox /\ left' = left \cup {c}
      \/ /\ \E n \in 1..Len(inbox[c]) :
              inbox' = [inbox EXCEPT ![c] = SubSeq(@, n + 1, Len(@))]
         /\ left' = left
  BY <1>c DEF ReadResponse, ReadHeadOnly
<1>7. object[c].isConnected
  BY <1>1, <1>2 DEF IInv, ClosedIsClean
<1>8. /\ inbox' \in [Conns -> Seq(Requests)]
      /\ \A d \in Conns \ {c} : inbox'[d] = inbox[d] /\ (d \in left' <=> d \in left)
      /\ c \notin left' => inbox'[c] = <<>> /\ c \notin left
  <2>1. CASE inbox' = inbox /\ left' = left \cup {c}
    BY <2>1 DEF IInv, TypeOK
  <2>2. ASSUME NEW n \in 1..Len(inbox[c]), left' = left,
               inbox' = [inbox EXCEPT ![c] = SubSeq(@, n + 1, Len(@))]
        PROVE  /\ inbox' \in [Conns -> Seq(Requests)]
               /\ \A d \in Conns \ {c} : inbox'[d] = inbox[d] /\ (d \in left' <=> d \in left)
               /\ c \notin left' => inbox'[c] = <<>> /\ c \notin left
    <3> DEFINE rest == SubSeq(inbox[c], n + 1, Len(inbox[c]))
    <3>1. rest \in Seq(Requests)
      <4>1. \A i \in (n + 1)..Len(inbox[c]) : inbox[c][i] \in Requests
        BY <1>5
      <4> QED BY <1>5, <4>1, SubSeqProperties
    <3>2. c \notin left => rest = <<>>
      <4>1. ASSUME c \notin left PROVE n = 1 /\ Len(inbox[c]) = 1
        <5>1. Len(inbox[c]) = 1
          <6>1. inbox[c] = <<req[k]>>
            BY <1>3, <4>1
          <6>2. \A r : Len(<<r>>) = 1
            OBVIOUS
          <6> QED BY <6>1, <6>2
        <5>2. \A m \in 1..1 : m = 1
          OBVIOUS
        <5> QED BY <5>1, <5>2
      <4>2. ASSUME c \notin left PROVE Len(rest) = 0
        BY <1>5, <4>1, <4>2, SubSeqProperties
      <4> HIDE DEF rest
      <4> QED BY <3>1, <4>2, EmptySeq
    <3>3. inbox' = [inbox EXCEPT ![c] = rest]
      BY <2>2
    <3> HIDE DEF rest
    <3> QED BY <1>2, <2>2, <3>1, <3>2, <3>3 DEF IInv, TypeOK
  <2> QED BY <1>6, <2>1, <2>2
<1>9. left' \subseteq Conns /\ left \subseteq left'
  BY <1>2, <1>6 DEF IInv, TypeOK
<1>10. TypeOK'
  <2>1. [error |-> "OK", response |-> Head(inbox[c])] \in Result
    BY <1>5 DEF Result
  <2> QED BY <1>1, <1>8, <1>9, <2>1 DEF IInv, TypeOK
<1>11. Holding' /\ Waiting' /\ Reachable' /\ IsFiniteSet(Existing') /\ TotalExact'
  BY <1>1, <1>4, AccountsKept DEF Lent
<1>12. Asked' /\ FirstSendSpared' /\ SessionOpen'
  BY <1>1, <1>4 DEF IInv, Asked, FirstSendSpared, SessionOpen
<1>13. AnswersItsRequest'
  <2>1. c \notin left => Head(inbox[c]) = req[k]
    BY <1>3
  <2>2. /\ result'[k].response = Head(inbox[c])
        /\ \A l \in Clients \ {k} : result'[l] = result[l]
    BY <1>1 DEF IInv, TypeOK
  <2> QED BY <1>c, <1>1, <1>4, <1>9, <2>1, <2>2 DEF IInv, AnswersItsRequest
<1>14. ClosedIsClean'
  BY <1>1, <1>7, <1>8 DEF IInv, ClosedIsClean
<1>15. \A d \in Conns \ {c} :
         /\ d \notin left' =>
              /\ half'[d] = {}
              /\ \/ Quiet(d)'
                 \/ \E l \in Clients :
                      pc'[l] = "recv" /\ ptr'[l] = d /\ OnItsWay(d, req[l])'
         /\ d \notin failed' \cup left' /\ link'[d] \in {"refused", "broken"} =>
              Quiet(d)' /\ \E l \in Clients : pc'[l] \in {"sending", "recv"} /\ ptr'[l] = d
  <2>1. \A d \in Conns \ {c} : d \in failed' <=> d \in failed
    BY <1>1
  <2>2. \A d \in Conns \ {c} :
          /\ link'[d] = link[d] /\ inbox'[d] = inbox[d] /\ unread'[d] = unread[d]
          /\ half'[d] = half[d]
    BY <1>1, <1>8
  <2>3. \A l \in Clients \ {k} :
          pc'[l] = pc[l] /\ ptr'[l] = ptr[l] /\ req'[l] = req[l]
    BY <1>1, <1>4
  <2>4. ptr[k] = c
    BY <1>c
  <2>5. \A d \in Conns \ {c} : d \in left' <=> d \in left
    BY <1>8
  <2> QED BY <2>1, <2>2, <2>3, <2>4, <2>5, OthersTraffic
<1>16. c \notin left' => Quiet(c)' /\ half'[c] = {}
  BY <1>1, <1>2, <1>3, <1>8 DEF Quiet, IInv, OwnTraffic
<1>17. OwnTraffic'
  BY <1>15, <1>16 DEF OwnTraffic
<1>18. BrokenAwaited'
  <2>1. ASSUME c \notin failed' \cup left' PROVE link'[c] \notin {"refused", "broken"}
    <3>1. c \notin failed \cup left /\ ~Quiet(c)
      BY <1>1, <1>9, <2>1 DEF Quiet
    <3> QED BY <1>1, <1>2, <3>1 DEF IInv, BrokenAwaited
  <2> QED BY <1>15, <2>1 DEF BrokenAwaited
<1> QED BY <1>10, <1>11, <1>12, <1>13, <1>14, <1>17, <1>18 DEF IInv

\* recvResponse fails and closes the connection, with all that is on its way.
LEMMA RecvFailsInv ==
  ASSUME IInv, killed = {}, NEW k \in Clients, RecvFails(k)
  PROVE  IInv'
<1> DEFINE c == ptr[k]
<1>1. /\ pc[k] = "recv"
      /\ object' = [object EXCEPT ![c].isConnected = FALSE]
      /\ link' = [link EXCEPT ![c] = "none"] /\ inbox' = [inbox EXCEPT ![c] = <<>>]
      /\ session' = [session EXCEPT ![c] = "ended"]
      /\ unread' = [unread EXCEPT ![c] = <<>>] /\ half' = [half EXCEPT ![c] = {}]
      /\ failed' = failed \ {c} /\ left' = left \ {c}
      /\ result' = [result EXCEPT ![k] = Failure("TIMEOUT")]
      /\ pc' = [pc EXCEPT ![k] = "release"]
      /\ UNCHANGED <<m_conns, m_total, ptr, req, m_isKeepalive, killed>>
  BY DEF RecvFails, CloseLink
<1>2. c \in Conns /\ \A l \in Clients : ptr[l] = c => l = k
  BY <1>1, OneHolder DEF Lent
<1>3. pc'[k] = "release" /\ \A l \in Clients \ {k} : pc'[l] = pc[l]
  BY <1>1 DEF IInv, TypeOK
<1> HIDE DEF c
<1>4. /\ \A d \in Conns \ {c} : /\ object'[d] = object[d] /\ link'[d] = link[d]
                                /\ inbox'[d] = inbox[d] /\ session'[d] = session[d]
                                /\ unread'[d] = unread[d] /\ half'[d] = half[d]
      /\ link'[c] = "none" /\ inbox'[c] = <<>> /\ session'[c] = "ended"
      /\ unread'[c] = <<>> /\ half'[c] = {}
      /\ ~object'[c].isConnected /\ object'[c].exists = object[c].exists
  BY <1>1, <1>2 DEF IInv, TypeOK
<1>5. TypeOK'
  <2>1. Failure("TIMEOUT") \in Result
    BY DEF Failure, Result
  <2>2. object' \in [Conns -> [exists: BOOLEAN, isConnected: BOOLEAN,
                               m_request: {0} \cup 0..(m_maxRequest - 1)]]
    BY <1>1, <1>2 DEF IInv, TypeOK
  <2> QED BY <1>1, <2>1, <2>2 DEF IInv, TypeOK
<1>6. Holding' /\ Waiting' /\ Reachable' /\ IsFiniteSet(Existing') /\ TotalExact'
  BY <1>1, <1>3, <1>4, AccountsKept DEF Lent
<1>7. Asked' /\ AnswersItsRequest' /\ FirstSendSpared'
  <2>1. result'[k].error # "OK" /\ \A l \in Clients \ {k} : result'[l] = result[l]
    BY <1>1 DEF IInv, TypeOK, Failure
  <2>2. \A l \in Clients \ {k} : ptr[l] # c
    BY <1>2
  <2> QED BY <1>1, <1>3, <2>1, <2>2 DEF IInv, Asked, AnswersItsRequest, FirstSendSpared
<1>8. ClosedIsClean' /\ SessionOpen'
  BY <1>1, <1>4 DEF IInv, ClosedIsClean, SessionOpen
<1>9. OwnTraffic' /\ BrokenAwaited'
  BY <1>1, <1>2, <1>3, <1>4, ClosedTraffic DEF c
<1> QED BY <1>5, <1>6, <1>7, <1>8, <1>9 DEF IInv

\* ReleasePtr: the client's connection is deleted and counted out, or waits again.
LEMMA ReleasePtrInv ==
  ASSUME IInv, killed = {}, NEW k \in Clients, ReleasePtr(k)
  PROVE  IInv'
<1> DEFINE c == ptr[k]
           used == object[c].m_request + 1
<1>1. /\ pc[k] = "release"
      /\ ptr' = [ptr EXCEPT ![k] = NoConn]
      /\ pc' = [pc EXCEPT ![k] = "idle"]
      /\ UNCHANGED <<req, result, m_isKeepalive, killed>>
  BY DEF ReleasePtr
<1>2. /\ c \in Conns /\ c # NoConn /\ object[c].exists
      /\ \A l \in Clients : ptr[l] = c => l = k
  BY <1>1, OneHolder, PoolAssumption DEF Lent
<1>3. /\ ptr'[k] = NoConn /\ pc'[k] = "idle"
      /\ \A l \in Clients \ {k} : ptr'[l] = ptr[l] /\ pc'[l] = pc[l]
  BY <1>1 DEF IInv, TypeOK
<1>4. /\ \A i \in 1..Len(m_conns) : m_conns[i] \in Conns /\ m_conns[i] # c
      /\ Len(m_conns) \in Nat
  BY DEF IInv, TypeOK, Waiting
<1>6. ASSUME left' = left \/ left' = left \ {c}
      PROVE  Asked' /\ AnswersItsRequest' /\ FirstSendSpared'
  BY <1>1, <1>2, <1>3, <1>6 DEF IInv, Asked, AnswersItsRequest, FirstSendSpared
<1>7. ASSUME \A d \in Conns \ {c} : object'[d].exists = object[d].exists
      PROVE  Holding'
  <2>1. ASSUME NEW l \in Clients
        PROVE  /\ ptr'[l] # NoConn <=> pc'[l] \in {"send", "sending", "recv", "release"}
               /\ ptr'[l] # NoConn => object'[ptr'[l]].exists
    <3>1. CASE l = k
      BY <1>3, <3>1
    <3>2. CASE l # k
      <4>1. /\ ptr[l] # NoConn <=> pc[l] \in {"send", "sending", "recv", "release"}
            /\ ptr[l] # NoConn => ptr[l] \in Conns /\ object[ptr[l]].exists
        BY DEF IInv, TypeOK, Holding
      <4> QED BY <1>2, <1>3, <1>7, <3>2, <4>1
    <3> QED BY <3>1, <3>2
  <2>2. ASSUME NEW l \in Clients, NEW m \in Clients, ptr'[l] # NoConn, ptr'[l] = ptr'[m]
        PROVE  l = m
    BY <1>3, <2>2 DEF IInv, Holding
  <2> QED BY <2>1, <2>2 DEF Holding
<1> HIDE DEF c
<1>8. CASE /\ object' = [object EXCEPT ![c] = NoObject]
           /\ CloseLink(c) /\ m_total' = m_total - 1 /\ UNCHANGED m_conns
  <2>1. /\ \A d \in Conns \ {c} : /\ object'[d] = object[d] /\ link'[d] = link[d]
                                  /\ inbox'[d] = inbox[d] /\ session'[d] = session[d]
                                  /\ unread'[d] = unread[d] /\ half'[d] = half[d]
        /\ link'[c] = "none" /\ inbox'[c] = <<>> /\ session'[c] = "ended"
        /\ unread'[c] = <<>> /\ half'[c] = {} /\ object'[c] = NoObject
        /\ failed' = failed \ {c} /\ left' = left \ {c}
    BY <1>2, <1>8 DEF CloseLink, IInv, TypeOK
  <2>2. TypeOK'
    <3>1. NoObject \in [exists: BOOLEAN, isConnected: BOOLEAN,
                        m_request: {0} \cup 0..(m_maxRequest - 1)]
      BY DEF NoObject
    <3>2. object' \in [Conns -> [exists: BOOLEAN, isConnected: BOOLEAN,
                                 m_request: {0} \cup 0..(m_maxRequest - 1)]]
      BY <1>8, <3>1 DEF IInv, TypeOK
    <3>3. /\ m_total' \in Int /\ ptr' \in [Clients -> Conns \cup {NoConn}]
          /\ pc' \in [Clients -> {"idle", "connect", "send", "sending", "recv", "release"}]
      BY <1>1, <1>8 DEF IInv, TypeOK
    <3>4. /\ link' \in [Conns -> {"none", "open", "fin", "refused", "reset", "broken"}]
          /\ session' \in [Conns -> {"loop", "closing", "ended"}]
      BY <1>8 DEF CloseLink, IInv, TypeOK
    <3>5. inbox' \in [Conns -> Seq(Requests)] /\ unread' \in [Conns -> Seq(Requests)]
      <4>1. <<>> \in Seq(Requests)
        OBVIOUS
      <4> QED BY <1>8, <4>1 DEF CloseLink, IInv, TypeOK
    <3>6. /\ half' \in [Conns -> SUBSET Requests]
          /\ failed' \subseteq Conns /\ left' \subseteq Conns
      BY <1>8 DEF CloseLink, IInv, TypeOK
    <3> QED BY <1>1, <1>8, <3>2, <3>3, <3>4, <3>5, <3>6 DEF IInv, TypeOK
  <2>3. Existing' = Existing \ {c} /\ c \in Existing
    BY <1>2, <2>1 DEF Existing, NoObject
  <2>4. IsFiniteSet(Existing') /\ TotalExact'
    BY <1>8, <2>3, FS_RemoveElement DEF IInv, TotalExact
  <2>5. Holding'
    BY <1>7, <2>1, <2>3 DEF NoObject
  <2>6. Waiting'
    <3>1. ASSUME NEW i \in 1..Len(m_conns)
          PROVE  object'[m_conns[i]].exists /\ \A l \in Clients : ptr'[l] # m_conns[i]
      <4>1. object[m_conns[i]].exists /\ \A l \in Clients : ptr[l] # m_conns[i]
        BY DEF IInv, Waiting
      <4>2. m_conns[i] \in Conns \ {c} /\ m_conns[i] # NoConn
        BY <1>4, PoolAssumption
      <4> QED BY <1>3, <2>1, <4>1, <4>2
    <3> QED BY <1>8, <3>1 DEF IInv, Waiting
  <2>7. Reachable'
    <3>1. ASSUME NEW d \in Existing, d # c
          PROVE  \/ \E i \in 1..Len(m_conns) : m_conns[i] = d
                 \/ \E l \in Clients : ptr'[l] = d
      BY <1>3, <3>1 DEF IInv, Reachable, c
    <3> QED BY <1>8, <2>3, <3>1 DEF Reachable
  <2>8. ClosedIsClean' /\ SessionOpen'
    BY <2>1 DEF IInv, ClosedIsClean, SessionOpen, NoObject
  <2>9. OwnTraffic' /\ BrokenAwaited'
    BY <1>1, <1>2, <1>3, <2>1, ClosedTraffic DEF c
  <2> QED BY <1>6, <2>1, <2>2, <2>4, <2>5, <2>6, <2>7, <2>8, <2>9 DEF IInv
<1>9. CASE /\ Kept(c, used)
           /\ object' = [object EXCEPT ![c].m_request = used]
           /\ m_conns' = Append(m_conns, c)
           /\ UNCHANGED <<m_total, link, inbox, session, unread, half, failed, left>>
  <2>1. \A d \in Conns : /\ object'[d].exists = object[d].exists
                         /\ object'[d].isConnected = object[d].isConnected
    BY <1>2, <1>9 DEF IInv, TypeOK
  <2>2. TypeOK'
    <3>1. object[c].m_request \in Nat
      BY <1>2, PoolAssumption DEF IInv, TypeOK
    <3>2. used \in {0} \cup 0..(m_maxRequest - 1)
      BY <1>9, <3>1, PoolAssumption DEF Kept
    <3> HIDE DEF used
    <3>3. object' \in [Conns -> [exists: BOOLEAN, isConnected: BOOLEAN,
                                 m_request: {0} \cup 0..(m_maxRequest - 1)]]
      BY <1>9, <3>2 DEF IInv, TypeOK
    <3>4. m_conns' \in Seq(Conns)
      BY <1>2, <1>9 DEF IInv, TypeOK
    <3> QED BY <1>1, <1>9, <3>3, <3>4 DEF IInv, TypeOK
  <2>3. Existing' = Existing /\ c \in Existing
    BY <1>2, <2>1 DEF Existing
  <2>4. IsFiniteSet(Existing') /\ TotalExact'
    BY <1>9, <2>3 DEF IInv, TotalExact
  <2>5. Holding'
    BY <1>7, <2>1, <2>3
  <2>6. /\ Len(m_conns') = Len(m_conns) + 1 /\ m_conns'[Len(m_conns) + 1] = c
        /\ \A i \in 1..Len(m_conns) : m_conns'[i] = m_conns[i]
    BY <1>2, <1>9 DEF IInv, TypeOK
  <2>7. Waiting'
    <3>1. ASSUME NEW i \in 1..Len(m_conns'), NEW j \in 1..Len(m_conns'),
                 m_conns'[i] = m_conns'[j]
          PROVE  i = j
      <4>1. \A h \in 1..Len(m_conns') : h \in 1..Len(m_conns) \/ h = Len(m_conns) + 1
        BY <1>4, <2>6
      <4> QED BY <1>4, <2>6, <3>1, <4>1 DEF IInv, Waiting
    <3>2. ASSUME NEW i \in 1..Len(m_conns')
          PROVE  object'[m_conns'[i]].exists /\ \A l \in Clients : ptr'[l] # m_conns'[i]
      <4>1. CASE i = Len(m_conns) + 1
        BY <1>2, <1>3, <2>1, <2>6, <4>1 DEF c
      <4>2. CASE i \in 1..Len(m_conns)
        <5>1. object[m_conns[i]].exists /\ \A l \in Clients : ptr[l] # m_conns[i]
          BY <4>2 DEF IInv, Waiting
        <5>2. m_conns[i] \in Conns /\ m_conns[i] # NoConn /\ m_conns'[i] = m_conns[i]
          BY <1>4, <2>6, <4>2, PoolAssumption
        <5> QED BY <1>3, <2>1, <5>1, <5>2
      <4> QED BY <1>4, <2>6, <4>1, <4>2
    <3> QED BY <3>1, <3>2 DEF Waiting
  <2>8. Reachable'
    <3>1. SUFFICES ASSUME NEW d \in Existing
                   PROVE  \/ \E i \in 1..Len(m_conns') : m_conns'[i] = d
                          \/ \E l \in Clients : ptr'[l] = d
      BY <2>3 DEF Reachable
    <3>2. CASE d = c
      BY <1>4, <2>6, <3>2
    <3>3. ASSUME NEW i \in 1..Len(m_conns), m_conns[i] = d
          PROVE  \E j \in 1..Len(m_conns') : m_conns'[j] = d
      BY <1>4, <2>6, <3>3
    <3>4. ASSUME NEW l \in Clients, ptr[l] = d, d # c
          PROVE  ptr'[l] = d
      BY <1>3, <3>4 DEF c
    <3> QED BY <3>2, <3>3, <3>4 DEF IInv, Reachable
  <2>9. ClosedIsClean' /\ SessionOpen'
    BY <1>9, <2>1 DEF IInv, ClosedIsClean, SessionOpen
  <2>10. OwnTraffic' /\ BrokenAwaited'
    <3>1. \A l \in Clients : pc[l] \in {"sending", "recv"} =>
            pc'[l] = pc[l] /\ ptr'[l] = ptr[l] /\ req'[l] = req[l]
      BY <1>1, <1>3
    <3> QED BY <1>1, <1>9, <3>1, TrafficKept
  <2> QED BY <1>6, <1>9, <2>2, <2>4, <2>5, <2>7, <2>8, <2>9, <2>10 DEF IInv
<1> QED BY <1>8, <1>9 DEF ReleasePtr, c

\* handleClient answers the request that came first, on an open connection.
LEMMA AnswerInv ==
  ASSUME IInv, killed = {}, NEW c \in Conns, Answer(c)
  PROVE  IInv'
<1> DEFINE r == Head(unread[c])
<1>1. /\ session[c] = "loop" /\ unread[c] # <<>>
      /\ inbox' = [inbox EXCEPT ![c] = Append(@, r)]
      /\ session' = [session EXCEPT ![c] =
                       IF ~m_isKeepalive \/ r.isClose THEN "closing" ELSE "loop"]
      /\ unread' = [unread EXCEPT ![c] = Tail(@)]
      /\ UNCHANGED <<m_conns, m_total, object, pc, ptr, req, result, link, half,
                     m_isKeepalive, failed, left, killed>>
  BY DEF Answer, poolVars, clientVars
<1>2. link[c] = "open" /\ object[c].isConnected
  BY <1>1 DEF IInv, SessionOpen, ClosedIsClean
<1>3. unread[c] \in Seq(Requests) /\ inbox[c] \in Seq(Requests)
  BY DEF IInv, TypeOK
<1>4. r \in Requests /\ Tail(unread[c]) \in Seq(Requests)
  BY <1>1, <1>3, HeadTailProperties
<1>6. /\ \A d \in Conns \ {c} : /\ inbox'[d] = inbox[d] /\ session'[d] = session[d]
                                /\ unread'[d] = unread[d]
      /\ inbox'[c] = Append(inbox[c], r) /\ unread'[c] = Tail(unread[c])
  <2> HIDE DEF r
  <2> QED BY <1>1 DEF IInv, TypeOK
<1>7. TypeOK'
  <2> HIDE DEF r
  <2>1. Append(inbox[c], r) \in Seq(Requests)
    BY <1>3, <1>4
  <2>2. inbox' \in [Conns -> Seq(Requests)] /\ unread' \in [Conns -> Seq(Requests)]
    BY <1>1, <1>4, <2>1 DEF IInv, TypeOK
  <2>3. session' \in [Conns -> {"loop", "closing", "ended"}]
    BY <1>1 DEF IInv, TypeOK
  <2> QED BY <1>1, <2>2, <2>3 DEF IInv, TypeOK
<1>8. Holding' /\ Waiting' /\ Reachable' /\ IsFiniteSet(Existing') /\ TotalExact'
  BY <1>1, AccountsKept DEF Lent
<1>9. Asked' /\ AnswersItsRequest' /\ FirstSendSpared'
  BY <1>1 DEF IInv, Asked, AnswersItsRequest, FirstSendSpared
<1>10. ClosedIsClean'
  BY <1>1, <1>2, <1>6 DEF IInv, ClosedIsClean
<1>11. SessionOpen'
  BY <1>1, <1>2, <1>6 DEF IInv, SessionOpen
<1>12. OwnTraffic'
  <2>1. SUFFICES ASSUME NEW d \in Conns \ left
                 PROVE  /\ half[d] = {}
                        /\ \/ Quiet(d)'
                           \/ \E l \in Clients :
                                pc[l] = "recv" /\ ptr[l] = d /\ OnItsWay(d, req[l])'
    BY <1>1 DEF OwnTraffic
  <2>2. /\ half[d] = {}
        /\ \/ Quiet(d)
           \/ \E l \in Clients : pc[l] = "recv" /\ ptr[l] = d /\ OnItsWay(d, req[l])
    BY DEF IInv, OwnTraffic
  <2>3. CASE d # c
    BY <1>1, <1>6, <2>2, <2>3 DEF Quiet, OnItsWay
  <2>4. ASSUME d = c, NEW l \in Clients, pc[l] = "recv", ptr[l] = c, OnItsWay(c, req[l])
        PROVE  OnItsWay(c, req[l])'
    <3>1. inbox[c] = <<>> /\ unread[c] = <<req[l]>>
      BY <1>1, <2>4 DEF OnItsWay
    <3>2. r = req[l] /\ Tail(unread[c]) = <<>>
      BY <3>1
    <3>3. Append(<<>>, r) = <<r>>
      <4> HIDE DEF r
      <4> QED OBVIOUS
    <3> QED BY <1>1, <1>6, <3>1, <3>2, <3>3 DEF OnItsWay
  <2>5. ~Quiet(c)
    BY <1>1 DEF Quiet
  <2> QED BY <1>1, <2>2, <2>3, <2>4, <2>5
<1>13. BrokenAwaited'
  <2>1. SUFFICES ASSUME NEW d \in Conns \ (failed \cup left),
                        link[d] \in {"refused", "broken"}
                 PROVE  Quiet(d)'
                        /\ \E l \in Clients : pc[l] \in {"sending", "recv"} /\ ptr[l] = d
    BY <1>1 DEF BrokenAwaited
  <2>2. Quiet(d) /\ \E l \in Clients : pc[l] \in {"sending", "recv"} /\ ptr[l] = d
    BY <2>1 DEF IInv, BrokenAwaited
  <2>3. d # c
    BY <1>2, <2>1
  <2> QED BY <1>6, <2>2, <2>3 DEF Quiet
<1> QED BY <1>7, <1>8, <1>9, <1>10, <1>11, <1>12, <1>13 DEF IInv

\* recvRequest times out: the session will be closed.
LEMMA RequestTimeoutInv ==
  ASSUME IInv, killed = {}, NEW c \in Conns, RequestTimeout(c)
  PROVE  IInv'
<1>1. /\ session[c] = "loop"
      /\ session' = [session EXCEPT ![c] = "closing"]
      /\ UNCHANGED <<m_conns, m_total, object, pc, ptr, req, result, link, inbox,
                     unread, half, m_isKeepalive, failed, left, killed>>
  BY DEF RequestTimeout, poolVars, clientVars
<1>2. TypeOK'
  BY <1>1 DEF IInv, TypeOK
<1>3. Holding' /\ Waiting' /\ Reachable' /\ IsFiniteSet(Existing') /\ TotalExact'
  BY <1>1, AccountsKept DEF Lent
<1>4. OwnTraffic' /\ BrokenAwaited'
  BY <1>1, TrafficKept
<1>5. ClosedIsClean' /\ SessionOpen'
  BY <1>1 DEF IInv, TypeOK, ClosedIsClean, SessionOpen
<1> QED BY <1>1, <1>2, <1>3, <1>4, <1>5 DEF IInv, Asked, AnswersItsRequest,
   FirstSendSpared

\* The server's side is over, by session->close() or from outside: the requests that
\* were not read are lost, and the responses stay.
LEMMA SessionEndsInv ==
  ASSUME IInv, killed = {}, NEW c \in Conns, CloseSession(c) \/ NetReset(c)
  PROVE  IInv'
<1>1. /\ link[c] = "open" /\ session' = [session EXCEPT ![c] = "ended"]
      /\ link' = [link EXCEPT ![c] = "fin"] \/ link' = [link EXCEPT ![c] = "reset"]
      /\ unread' = [unread EXCEPT ![c] = <<>>]
      /\ UNCHANGED <<m_conns, m_total, object, pc, ptr, req, result, inbox, half,
                     m_isKeepalive, failed, left, killed>>
  BY DEF CloseSession, NetReset, poolVars, clientVars
<1>2. object[c].isConnected
  BY <1>1 DEF IInv, ClosedIsClean
<1>3. /\ \A d \in Conns \ {c} : /\ link'[d] = link[d] /\ session'[d] = session[d]
                                /\ unread'[d] = unread[d]
      /\ session'[c] = "ended" /\ unread'[c] = <<>> /\ link'[c] \in {"fin", "reset"}
  BY <1>1 DEF IInv, TypeOK
<1>4. TypeOK'
  <2>1. <<>> \in Seq(Requests)
    OBVIOUS
  <2>2. unread' \in [Conns -> Seq(Requests)]
    BY <1>1, <2>1 DEF IInv, TypeOK
  <2>3. /\ link' \in [Conns -> {"none", "open", "fin", "refused", "reset", "broken"}]
        /\ session' \in [Conns -> {"loop", "closing", "ended"}]
    BY <1>1 DEF IInv, TypeOK
  <2> QED BY <1>1, <2>2, <2>3 DEF IInv, TypeOK
<1>5. Holding' /\ Waiting' /\ Reachable' /\ IsFiniteSet(Existing') /\ TotalExact'
  BY <1>1, AccountsKept DEF Lent
<1>6. ClosedIsClean' /\ SessionOpen'
  BY <1>1, <1>2, <1>3 DEF IInv, ClosedIsClean, SessionOpen
<1>7. OwnTraffic'
  <2>1. SUFFICES ASSUME NEW d \in Conns \ left
                 PROVE  /\ half[d] = {}
                        /\ \/ Quiet(d)'
                           \/ \E l \in Clients :
                                pc[l] = "recv" /\ ptr[l] = d /\ OnItsWay(d, req[l])'
    BY <1>1 DEF OwnTraffic
  <2>2. /\ half[d] = {}
        /\ \/ Quiet(d)
           \/ \E l \in Clients : pc[l] = "recv" /\ ptr[l] = d /\ OnItsWay(d, req[l])
    BY DEF IInv, OwnTraffic
  <2>3. unread'[d] = unread[d] \/ unread'[d] = <<>>
    BY <1>3
  <2> QED BY <1>1, <2>2, <2>3 DEF Quiet, OnItsWay
<1>8. BrokenAwaited'
  <2>1. SUFFICES ASSUME NEW d \in Conns \ (failed \cup left),
                        link'[d] \in {"refused", "broken"}
                 PROVE  Quiet(d)'
                        /\ \E l \in Clients : pc[l] \in {"sending", "recv"} /\ ptr[l] = d
    BY <1>1 DEF BrokenAwaited
  <2>2. link[d] \in {"refused", "broken"} /\ unread'[d] = unread[d]
    BY <1>3, <2>1
  <2> QED BY <1>1, <2>1, <2>2 DEF IInv, BrokenAwaited, Quiet
<1> QED BY <1>1, <1>4, <1>5, <1>6, <1>7, <1>8 DEF IInv, Asked, AnswersItsRequest,
   FirstSendSpared

\* The reset that a part of a request provoked has come.
LEMMA ResetArrivesInv ==
  ASSUME IInv, killed = {}, NEW c \in Conns, ResetArrives(c)
  PROVE  IInv'
<1>1. /\ link[c] = "refused" /\ link' = [link EXCEPT ![c] = "broken"]
      /\ UNCHANGED <<m_conns, m_total, object, pc, ptr, req, result, inbox, session,
                     unread, half, m_isKeepalive, failed, left, killed>>
  BY DEF ResetArrives, poolVars, clientVars, serverVars
<1>2. object[c].isConnected /\ session[c] = "ended"
  BY <1>1 DEF IInv, TypeOK, ClosedIsClean, SessionOpen
<1>3. \A d \in Conns \ {c} : link'[d] = link[d]
  BY <1>1 DEF IInv, TypeOK
<1>4. TypeOK'
  BY <1>1 DEF IInv, TypeOK
<1>5. Holding' /\ Waiting' /\ Reachable' /\ IsFiniteSet(Existing') /\ TotalExact'
  BY <1>1, AccountsKept DEF Lent
<1>6. ClosedIsClean' /\ SessionOpen'
  BY <1>1, <1>2, <1>3 DEF IInv, ClosedIsClean, SessionOpen
<1>7. OwnTraffic'
  BY <1>1 DEF IInv, OwnTraffic, Quiet, OnItsWay
<1>8. BrokenAwaited'
  <2>1. SUFFICES ASSUME NEW d \in Conns \ (failed \cup left),
                        link'[d] \in {"refused", "broken"}
                 PROVE  Quiet(d)'
                        /\ \E l \in Clients : pc[l] \in {"sending", "recv"} /\ ptr[l] = d
    BY <1>1 DEF BrokenAwaited
  <2>2. link[d] \in {"refused", "broken"}
    BY <1>1, <1>3, <2>1
  <2> QED BY <1>1, <2>1, <2>2 DEF IInv, BrokenAwaited, Quiet
<1> QED BY <1>1, <1>4, <1>5, <1>6, <1>7, <1>8 DEF IInv, Asked, AnswersItsRequest,
   FirstSendSpared

\* There is no connection and no call at the start.
LEMMA InitInv == Init => IInv
<1> SUFFICES ASSUME Init PROVE IInv
  OBVIOUS
<1>1. Existing = {}
  BY DEF Init, Existing, NoObject
<1>2. IsFiniteSet(Existing) /\ TotalExact
  BY <1>1, FS_EmptySet DEF Init, TotalExact
<1>3. TypeOK
  <2>1. object \in [Conns -> [exists: BOOLEAN, isConnected: BOOLEAN,
                              m_request: {0} \cup 0..(m_maxRequest - 1)]]
    BY DEF Init, NoObject
  <2>2. req \in [Clients -> [client: Clients, n: 0..MaxCalls, isClose: BOOLEAN]]
    <3>1. 0 \in 0..MaxCalls
      BY PoolAssumption
    <3> QED BY <3>1 DEF Init
  <2>3. result \in [Clients -> Result]
    BY DEF Init, Result, Failure
  <2>4. /\ m_conns \in Seq(Conns) /\ inbox \in [Conns -> Seq(Requests)]
        /\ unread \in [Conns -> Seq(Requests)] /\ m_total \in Int
    BY DEF Init
  <2>5. /\ pc \in [Clients -> {"idle", "connect", "send", "sending", "recv", "release"}]
        /\ ptr \in [Clients -> Conns \cup {NoConn}]
        /\ link \in [Conns -> {"none", "open", "fin", "refused", "reset", "broken"}]
        /\ session \in [Conns -> {"loop", "closing", "ended"}]
        /\ half \in [Conns -> SUBSET Requests]
        /\ failed \subseteq Conns /\ left \subseteq Conns /\ killed \subseteq Conns
    BY DEF Init
  <2>6. m_isKeepalive \in BOOLEAN
    BY DEF Init
  <2> QED BY <2>1, <2>2, <2>3, <2>4, <2>5, <2>6 DEF TypeOK
<1>4. Holding /\ Asked /\ AnswersItsRequest /\ FirstSendSpared
  BY DEF Init, Holding, Asked, AnswersItsRequest, Failure, FirstSendSpared
<1>5. Waiting /\ Reachable
  BY <1>1 DEF Init, Waiting, Reachable
<1>6. ClosedIsClean /\ SessionOpen /\ OwnTraffic /\ BrokenAwaited
  BY DEF Init, ClosedIsClean, SessionOpen, OwnTraffic, Quiet, BrokenAwaited, NoObject
<1> QED BY <1>2, <1>3, <1>4, <1>5, <1>6 DEF IInv

\* Every step of a client and of a server keeps IInv.
LEMMA NextInv == IInv /\ [Next]_vars => IInv'
<1> SUFFICES ASSUME IInv, [Next]_vars PROVE IInv'
  OBVIOUS
<1>1. CASE UNCHANGED vars
  <2>1. UNCHANGED <<m_conns, m_total, object, pc, ptr, req, result, link, inbox,
                    session, unread, half, m_isKeepalive, failed, left, killed>>
    BY <1>1 DEF vars, poolVars, clientVars, serverVars
  <2>2. Holding' /\ Waiting' /\ Reachable' /\ IsFiniteSet(Existing') /\ TotalExact'
    BY <2>1, AccountsKept DEF Lent
  <2>3. OwnTraffic' /\ BrokenAwaited'
    BY <2>1, TrafficKept
  <2> QED BY <2>1, <2>2, <2>3 DEF IInv, TypeOK, Asked, ClosedIsClean, SessionOpen,
     AnswersItsRequest, FirstSendSpared
<1>2. ASSUME NEW k \in Clients, killed = {},
             \/ GetConnection(k) \/ Connect(k) \/ ConnectFails(k)
             \/ SendRequest(k) \/ SendFails(k) \/ SendKills(k)
             \/ ReadResponse(k) \/ ReadHeadOnly(k) \/ RecvFails(k) \/ ReleasePtr(k)
      PROVE  IInv'
  BY <1>2, GetConnectionInv, ConnectInv, ConnectFailsInv, SendRequestInv, SendFailsInv,
     SendKillsInv, ResponseInv, RecvFailsInv, ReleasePtrInv
<1>3. ASSUME NEW c \in Conns, killed = {},
             \/ Answer(c) \/ RequestTimeout(c) \/ CloseSession(c) \/ NetReset(c)
             \/ ResetArrives(c)
      PROVE  IInv'
  BY <1>3, AnswerInv, RequestTimeoutInv, SessionEndsInv, ResetArrivesInv
<1> QED BY <1>1, <1>2, <1>3 DEF Next

\* IInv holds in every reachable state of the pool.
THEOREM PoolAccounted == Spec => []IInv
BY InitInv, NextInv, PTL DEF Spec

\* doRequest returns no response but the one to its own request, on a connection in which
\* no earlier call left a body or half a request.
THEOREM ResponsesMatch == Spec => []AnswersItsRequest
<1>1. IInv => AnswersItsRequest
  BY DEF IInv
<1> QED BY <1>1, PoolAccounted, PTL

\* A connection has one holder, m_conns or a client, until it is deleted: what Holding,
\* Waiting and Reachable say in terms of numbers.
LEMMA OneHolderCounted ==
  ASSUME IInv
  PROVE  HeldOnce
<1>1. SUFFICES ASSUME NEW c \in Conns
               PROVE  Cardinality({i \in 1..Len(m_conns) : m_conns[i] = c})
                        + Cardinality({k \in Clients : ptr[k] = c})
                      = IF object[c].exists THEN 1 ELSE 0
  BY DEF HeldOnce
<1> DEFINE A == {i \in 1..Len(m_conns) : m_conns[i] = c}
           B == {k \in Clients : ptr[k] = c}
<1>2. Cardinality({}) = 0
  BY FS_EmptySet
<1>3. c # NoConn
  BY PoolAssumption
<1>4. ASSUME ~object[c].exists PROVE A = {} /\ B = {}
  BY <1>3, <1>4 DEF IInv, Holding, Waiting
<1>5. ASSUME NEW i \in 1..Len(m_conns), m_conns[i] = c PROVE A = {i} /\ B = {}
  BY <1>5 DEF IInv, Waiting
<1>6. ASSUME NEW k \in Clients, ptr[k] = c PROVE A = {} /\ B = {k}
  BY <1>3, <1>6 DEF IInv, Holding, Waiting
<1>7. object[c].exists =>
        (\E i \in 1..Len(m_conns) : m_conns[i] = c) \/ \E k \in Clients : ptr[k] = c
  BY DEF IInv, Reachable, Existing
<1> HIDE DEF A, B
<1>8. object[c].exists => Cardinality(A) + Cardinality(B) = 1
  <2>1. ASSUME NEW i \in 1..Len(m_conns), m_conns[i] = c
        PROVE  Cardinality(A) + Cardinality(B) = 1
    <3>1. A = {i} /\ B = {}
      BY <1>5, <2>1
    <3>2. Cardinality(A) = 1 /\ Cardinality(B) = 0
      BY <3>1, FS_EmptySet, FS_Singleton
    <3> QED BY <3>2
  <2>2. ASSUME NEW k \in Clients, ptr[k] = c
        PROVE  Cardinality(A) + Cardinality(B) = 1
    <3>1. A = {} /\ B = {k}
      BY <1>6, <2>2
    <3>2. Cardinality(A) = 0 /\ Cardinality(B) = 1
      BY <3>1, FS_EmptySet, FS_Singleton
    <3> QED BY <3>2
  <2> QED BY <1>7, <2>1, <2>2
<1>9. ~object[c].exists => Cardinality(A) + Cardinality(B) = 0
  BY <1>2, <1>4
<1> QED BY <1>8, <1>9 DEF A, B

\* The pool's accounts are right, whichever way a call of doRequest ends.
THEOREM PoolIsExact == Spec => []PoolExact
<1>1. IInv => PoolExact
  BY OneHolderCounted DEF IInv, PoolExact
<1> QED BY <1>1, PoolAccounted, PTL

\* The first send() of a request does not end the program, but on a connection that has
\* failed to send before or in which a body was left.
THEOREM FirstSendIsSpared == Spec => []FirstSendSpared
<1>1. IInv => FirstSendSpared
  BY DEF IInv
<1> QED BY <1>1, PoolAccounted, PTL
=============================================================================
