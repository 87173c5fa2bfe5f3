--------------------------- MODULE ConnectionPool ---------------------------
(***************************************************************************)
(* HttpConnectionPool (http/http_connection.cc) with fibers that send      *)
(* requests through it, and HttpServer::handleClient (http/http_server.cc) *)
(* at the other end of its connections.                                    *)
(*                                                                         *)
(* A request goes out in the parts that send() takes.  A response is one   *)
(* message: what recvResponse makes of its bytes is the subject of         *)
(* RecvResponse, and from there comes that it may leave a body unread.     *)
(* Such a body stays in the connection, where the next recvResponse may    *)
(* refuse it or take it for a response.                                    *)
(***************************************************************************)
EXTENDS Integers, Sequences, FiniteSets

CONSTANTS
  Clients,         \* fibers that call doRequest
  Conns,           \* addresses of HttpConnection objects
  NoConn,          \* nullptr
  NoResponse,      \* nullptr
  m_maxRequest,
  m_maxAliveTime,
  Now,             \* what GetCurrentMS returns
  MaxCalls         \* bound: calls of doRequest by one client

\* The milliseconds since 1970 are more than a uint32_t holds
ASSUME PoolAssumption ==
  /\ m_maxRequest \in Nat /\ MaxCalls \in Nat /\ NoConn \notin Conns
  /\ m_maxAliveTime \in Nat /\ Now \in Nat /\ m_maxAliveTime < Now

VARIABLES
  m_conns,    \* the idle connections
  m_total,
  object,     \* the HttpConnections that exist: their m_isConnected, m_request
  pc, ptr, req, result,  \* per client: doRequest, its conn, request and HttpResult
  link,       \* a connection as the client's kernel sees it
  inbox,      \* the requests whose responses, or what is left of them, have come
  session,    \* handleClient of a connection: loop, closing, ended
  unread,     \* requests that have not been read by it
  half,       \* requests of which the server has a part and will get no more
  m_isKeepalive,
  failed,     \* history: connections on which a send() failed
  left,       \* history: connections with a body unread or a request half sent
  killed      \* connections on which send() raised SIGPIPE, which ends the process

poolVars == <<m_conns, m_total, object>>
clientVars == <<pc, ptr, req, result>>
serverVars == <<session, unread, half, m_isKeepalive>>
vars == <<poolVars, clientVars, link, inbox, serverVars, failed, left, killed>>

Requests == [client: Clients, n: 1..MaxCalls, isClose: BOOLEAN]
Result == [error: {"NONE", "OK", "POOL_GET_CONNECTION", "SEND_SOCKET_ERROR", "TIMEOUT"},
           response: Requests \cup {NoResponse}]
Failure(e) == [error |-> e, response |-> NoResponse]

NoObject == [exists |-> FALSE, isConnected |-> FALSE, m_request |-> 0]

Init ==
  /\ m_conns = <<>>
  /\ m_total = 0
  /\ object = [c \in Conns |-> NoObject]
  /\ pc = [k \in Clients |-> "idle"]
  /\ ptr = [k \in Clients |-> NoConn]
  /\ req = [k \in Clients |-> [client |-> k, n |-> 0, isClose |-> FALSE]]
  /\ result = [k \in Clients |-> Failure("NONE")]
  /\ link = [c \in Conns |-> "none"]
  /\ inbox = [c \in Conns |-> <<>>]
  /\ session = [c \in Conns |-> "ended"]
  /\ unread = [c \in Conns |-> <<>>]
  /\ half = [c \in Conns |-> {}]
  /\ m_isKeepalive \in BOOLEAN
  /\ failed = {}
  /\ left = {}
  /\ killed = {}

-----------------------------------------------------------------------------
(* getConnection *)

\* m_createTime is never set
m_createTime == 0

TooOldToTake == m_createTime + m_maxAliveTime > Now
TooOldToKeep == m_createTime + m_maxAliveTime >= Now

Usable(c) == object[c].isConnected /\ ~TooOldToTake

\* The scan under m_mutex: the first connection that can be used, or the end
Scan ==
  LET usable == {i \in 1..Len(m_conns) : Usable(m_conns[i])}
  IN  IF usable = {} THEN Len(m_conns) + 1
      ELSE CHOOSE i \in usable : \A j \in usable : i <= j

\* doRequest calls getConnection: the connections before the one that is taken
\* are deleted
GetConnection(k) ==
  LET i == Scan
      invalid == {m_conns[j] : j \in 1..(i - 1)}
      found == i <= Len(m_conns)
  IN
  /\ pc[k] = "idle"
  /\ req[k].n < MaxCalls
  /\ \E close \in BOOLEAN :
       req' = [req EXCEPT ![k] = [req[k] EXCEPT !.n = @ + 1, !.isClose = close]]
  /\ result' = [result EXCEPT ![k] = Failure("NONE")]
  /\ m_conns' = SubSeq(m_conns, i + 1, Len(m_conns))
  /\ object' = [c \in Conns |-> IF c \in invalid THEN NoObject ELSE object[c]]
  /\ m_total' = m_total - Cardinality(invalid)
  /\ ptr' = [ptr EXCEPT ![k] = IF found THEN m_conns[i] ELSE NoConn]
  /\ pc' = [pc EXCEPT ![k] = IF found THEN "send" ELSE "connect"]
  /\ UNCHANGED <<link, inbox, serverVars, failed, left, killed>>

\* Nothing was found: a new connection, however many there are
Connect(k) ==
  /\ pc[k] = "connect"
  /\ \E c \in Conns :
       /\ ~object[c].exists
       /\ object' = [object EXCEPT ![c] = [exists |-> TRUE, isConnected |-> TRUE, m_request |-> 0]]
       /\ ptr' = [ptr EXCEPT ![k] = c]
       /\ link' = [link EXCEPT ![c] = "open"]
       /\ session' = [session EXCEPT ![c] = "loop"]
  /\ m_total' = m_total + 1
  /\ pc' = [pc EXCEPT ![k] = "send"]
  /\ UNCHANGED <<m_conns, req, result, inbox, unread, half, m_isKeepalive, failed, left,
                 killed>>

ConnectFails(k) ==
  /\ pc[k] = "connect"
  /\ result' = [result EXCEPT ![k] = Failure("POOL_GET_CONNECTION")]
  /\ pc' = [pc EXCEPT ![k] = "idle"]
  /\ UNCHANGED <<poolVars, ptr, req, link, inbox, serverVars, failed, left, killed>>

-----------------------------------------------------------------------------
(* sendRequest and recvResponse on the connection *)

Sending(k) == pc[k] \in {"send", "sending"}

\* What handleClient gets with the next part of k's request: the whole of it with the
\* last part.  Behind half a request any bytes may be the rest of that.
PartArrives(k, last) ==
  LET c == ptr[k] IN
  \/ /\ last
     /\ unread' = [unread EXCEPT ![c] = Append(@, req[k])]
     /\ UNCHANGED half
  \/ /\ ~last \/ half[c] # {}
     /\ UNCHANGED <<unread, half>>
  \/ \E h \in half[c] :
       /\ unread' = [unread EXCEPT ![c] = Append(@, h)]
       /\ half' = [half EXCEPT ![c] = @ \ {h}]

\* writeFixSize: one write(), of the rest of the request or of less.  A peer that has
\* closed answers it with a reset, which takes its time.
SendRequest(k) ==
  LET c == ptr[k] IN
  /\ Sending(k)
  /\ link[c] \in {"open", "fin", "refused"}
  /\ \E last \in BOOLEAN :
       /\ pc' = [pc EXCEPT ![k] = IF last THEN "recv" ELSE "sending"]
       /\ \/ link[c] = "open" /\ PartArrives(k, last) /\ UNCHANGED link
          \/ /\ link[c] # "open"
             /\ link' = [link EXCEPT ![c] = "refused"]
             /\ UNCHANGED <<unread, half>>
  /\ UNCHANGED <<poolVars, ptr, req, result, inbox, session, m_isKeepalive, failed, left,
                 killed>>

\* send() returns an error: the connection has been reset, or its buffer is full and the
\* hook cannot add its event.  The connection stays open, with half the request in it.
SendFails(k) ==
  LET c == ptr[k] IN
  /\ Sending(k)
  /\ link[c] \in {"open", "fin", "refused", "reset"}
  /\ link' = [link EXCEPT ![c] = IF @ = "reset" THEN "broken" ELSE @]
  /\ failed' = failed \cup {c}
  /\ \/ pc[k] = "send" /\ UNCHANGED <<half, left>>
     \/ /\ pc[k] = "sending"
        /\ half' = [half EXCEPT ![c] = @ \cup {req[k]}]
        /\ left' = left \cup {c}
  /\ result' = [result EXCEPT ![k] = Failure("SEND_SOCKET_ERROR")]
  /\ pc' = [pc EXCEPT ![k] = "release"]
  /\ UNCHANGED <<poolVars, ptr, req, inbox, session, unread, m_isKeepalive, killed>>

\* After the error, or a reset that came in answer to a part, send() raises a signal that
\* nobody handles or blocks
SendKills(k) ==
  LET c == ptr[k] IN
  /\ Sending(k)
  /\ link[c] = "broken"
  /\ killed' = killed \cup {c}
  /\ UNCHANGED <<poolVars, clientVars, link, inbox, serverVars, failed, left>>

\* recvResponse takes what comes first for the response
Response(k) ==
  LET c == ptr[k] IN
  /\ pc[k] = "recv"
  /\ inbox[c] # <<>>
  /\ result' = [result EXCEPT ![k] = [error |-> "OK", response |-> Head(inbox[c])]]
  /\ pc' = [pc EXCEPT ![k] = "release"]
  /\ UNCHANGED <<poolVars, ptr, req, link, serverVars, failed, killed>>

\* A left body may be read as a head whose body is the next response
ReadResponse(k) ==
  LET c == ptr[k] IN
  /\ Response(k)
  /\ \E n \in 1..Len(inbox[c]) :
       inbox' = [inbox EXCEPT ![c] = SubSeq(@, n + 1, Len(@))]
  /\ UNCHANGED left

\* recvResponse misses the length of the body, which stays in the connection
ReadHeadOnly(k) ==
  /\ Response(k)
  /\ left' = left \cup {ptr[k]}
  /\ UNCHANGED inbox

\* SocketStream::close: nothing of the connection is left
CloseLink(c) ==
  /\ link' = [link EXCEPT ![c] = "none"]
  /\ inbox' = [inbox EXCEPT ![c] = <<>>]
  /\ session' = [session EXCEPT ![c] = "ended"]
  /\ unread' = [unread EXCEPT ![c] = <<>>]
  /\ half' = [half EXCEPT ![c] = {}]
  /\ failed' = failed \ {c}
  /\ left' = left \ {c}

\* Mutant: recvResponse fails and leaves the connection open.
RecvFailsOpen(k) ==
  /\ pc[k] = "recv"
  /\ result' = [result EXCEPT ![k] = Failure("TIMEOUT")]
  /\ pc' = [pc EXCEPT ![k] = "release"]
  /\ UNCHANGED <<poolVars, ptr, req, link, inbox, serverVars, failed, left, killed>>

\* The connection ended, the answer is late, or what comes is not a response
RecvFails(k) ==
  LET c == ptr[k] IN
  /\ pc[k] = "recv"
  /\ object' = [object EXCEPT ![c].isConnected = FALSE]
  /\ CloseLink(c)
  /\ result' = [result EXCEPT ![k] = Failure("TIMEOUT")]
  /\ pc' = [pc EXCEPT ![k] = "release"]
  /\ UNCHANGED <<m_conns, m_total, ptr, req, m_isKeepalive, killed>>

Kept(c, used) == object[c].isConnected /\ ~TooOldToKeep /\ used < m_maxRequest

\* Mutant: the return after delete is missing.
ReleasePtrFallsThrough(k) ==
  LET c == ptr[k]
      used == object[c].m_request + 1
      drop == ~Kept(c, used)
  IN
  /\ pc[k] = "release"
  /\ object' = [object EXCEPT ![c] = IF drop THEN NoObject ELSE [@ EXCEPT !.m_request = used]]
  /\ m_total' = IF drop THEN m_total - 1 ELSE m_total
  /\ m_conns' = Append(m_conns, c)
  /\ ptr' = [ptr EXCEPT ![k] = NoConn]
  /\ pc' = [pc EXCEPT ![k] = "idle"]
  /\ UNCHANGED <<req, result, link, inbox, serverVars, failed, left, killed>>

\* The deleter of the last HttpConnection::ptr
ReleasePtr(k) ==
  LET c == ptr[k]
      used == object[c].m_request + 1
  IN
  /\ pc[k] = "release"
  /\ \/ /\ ~Kept(c, used)
        /\ object' = [object EXCEPT ![c] = NoObject]
        /\ CloseLink(c)
        /\ m_total' = m_total - 1
        /\ UNCHANGED m_conns
     \/ /\ Kept(c, used)
        /\ object' = [object EXCEPT ![c].m_request = used]
        /\ m_conns' = Append(m_conns, c)
        /\ UNCHANGED <<m_total, link, inbox, session, unread, half, failed, left>>
  /\ ptr' = [ptr EXCEPT ![k] = NoConn]
  /\ pc' = [pc EXCEPT ![k] = "idle"]
  /\ UNCHANGED <<req, result, m_isKeepalive, killed>>

-----------------------------------------------------------------------------
(* HttpServer::handleClient *)

\* recvRequest, the servlet and sendResponse; the loop ends after a request
\* that asks for it, or after the first
Answer(c) ==
  /\ session[c] = "loop"
  /\ unread[c] # <<>>
  /\ LET r == Head(unread[c]) IN
     /\ inbox' = [inbox EXCEPT ![c] = Append(@, r)]
     /\ session' = [session EXCEPT ![c] =
          IF ~m_isKeepalive \/ r.isClose THEN "closing" ELSE "loop"]
  /\ unread' = [unread EXCEPT ![c] = Tail(@)]
  /\ UNCHANGED <<poolVars, clientVars, link, half, m_isKeepalive, failed, left, killed>>

\* recvRequest has waited for m_recvTimeout
RequestTimeout(c) ==
  /\ session[c] = "loop"
  /\ unread[c] = <<>>
  /\ session' = [session EXCEPT ![c] = "closing"]
  /\ UNCHANGED <<poolVars, clientVars, link, inbox, unread, half, m_isKeepalive, failed,
                 left, killed>>

\* session->close(): a request that nobody reads any more turns it into a reset
CloseSession(c) ==
  /\ session[c] = "closing"
  /\ link[c] = "open"
  /\ session' = [session EXCEPT ![c] = "ended"]
  /\ link' = [link EXCEPT ![c] = IF unread[c] = <<>> THEN "fin" ELSE "reset"]
  /\ unread' = [unread EXCEPT ![c] = <<>>]
  /\ UNCHANGED <<poolVars, clientVars, inbox, half, m_isKeepalive, failed, left, killed>>

\* The server's host or the network ends the connection
NetReset(c) ==
  /\ link[c] = "open"
  /\ link' = [link EXCEPT ![c] = "reset"]
  /\ session' = [session EXCEPT ![c] = "ended"]
  /\ unread' = [unread EXCEPT ![c] = <<>>]
  /\ UNCHANGED <<poolVars, clientVars, inbox, half, m_isKeepalive, failed, left, killed>>

\* The answer of a host whose connection is closed to a part of a request
ResetArrives(c) ==
  /\ link[c] = "refused"
  /\ link' = [link EXCEPT ![c] = "broken"]
  /\ UNCHANGED <<poolVars, clientVars, inbox, serverVars, failed, left, killed>>

Next ==
  /\ killed = {}
  /\ \/ \E k \in Clients :
          \/ GetConnection(k) \/ Connect(k) \/ ConnectFails(k)
          \/ SendRequest(k) \/ SendFails(k) \/ SendKills(k)
          \/ ReadResponse(k) \/ ReadHeadOnly(k) \/ RecvFails(k) \/ ReleasePtr(k)
     \/ \E c \in Conns :
          Answer(c) \/ RequestTimeout(c) \/ CloseSession(c) \/ NetReset(c)
          \/ ResetArrives(c)

Spec == Init /\ [][Next]_vars
-----------------------------------------------------------------------------
(* Properties *)

\* Types of the pool, of the calls of doRequest and of the connections; a
\* connection is lent out again only below its number of requests.
TypeOK ==
  /\ m_conns \in Seq(Conns)
  /\ m_total \in Int
  /\ object \in [Conns -> [exists: BOOLEAN, isConnected: BOOLEAN,
                        m_request: {0} \cup 0..(m_maxRequest - 1)]]
  /\ pc \in [Clients -> {"idle", "connect", "send", "sending", "recv", "release"}]
  /\ ptr \in [Clients -> Conns \cup {NoConn}]
  /\ req \in [Clients -> [client: Clients, n: 0..MaxCalls, isClose: BOOLEAN]]
  /\ result \in [Clients -> Result]
  /\ link \in [Conns -> {"none", "open", "fin", "refused", "reset", "broken"}]
  /\ inbox \in [Conns -> Seq(Requests)]
  /\ session \in [Conns -> {"loop", "closing", "ended"}]
  /\ unread \in [Conns -> Seq(Requests)]
  /\ half \in [Conns -> SUBSET Requests]
  /\ m_isKeepalive \in BOOLEAN
  /\ failed \subseteq Conns
  /\ left \subseteq Conns
  /\ killed \subseteq Conns

\* A response that doRequest returns is the one to its own request, although
\* connections are shared in turn, answers come after their timeout and servers close
\* when they like: every recvResponse that fails closes the connection before
\* ReleasePtr could put it back.  The exception is a connection in which an earlier
\* call left a body unread or half a request: nothing tells recvResponse, or
\* recvRequest at the other end, what they were part of.
AnswersItsRequest ==
  \A k \in Clients : pc[k] = "release" /\ result[k].error = "OK" =>
    result[k].response = req[k] \/ ptr[k] \in left

\* An HttpConnection is in m_conns or with one client, once, until it is deleted,
\* and then nobody can reach it (getConnection, ReleasePtr).
HeldOnce ==
  \A c \in Conns :
    Cardinality({i \in 1..Len(m_conns) : m_conns[i] = c})
      + Cardinality({k \in Clients : ptr[k] = c})
    = IF object[c].exists THEN 1 ELSE 0

\* The HttpConnections that have been made and not deleted
Existing == {c \in Conns : object[c].exists}

\* m_total counts the connections that exist, after failed connects too.
TotalExact == m_total = Cardinality(Existing)

\* The pool's accounts are right, whichever way a call of doRequest ends: a
\* connection has one holder and is counted until it is deleted, and is not lent
\* out again at its number of requests.
PoolExact == TypeOK /\ HeldOnce /\ TotalExact

\* SIGPIPE, which the program neither ignores nor suppresses with MSG_NOSIGNAL, does
\* not end it at the first send() of a request, even if the server has closed, unless
\* a send() on the connection has failed before or a body was left in it, and
\* ReleasePtr put it back nevertheless.  A later send() of the same request has no
\* such protection: the reset that answers the first part is enough.
FirstSendSpared ==
  \A c \in killed :
    c \in failed \cup left \/ \E k \in Clients : ptr[k] = c /\ pc[k] = "sending"

-----------------------------------------------------------------------------
(* The invariant of ConnectionPoolProofs *)

\* A client has a connection from getConnection to ReleasePtr, and for itself.
Holding ==
  /\ \A k \in Clients :
       /\ ptr[k] # NoConn <=> pc[k] \in {"send", "sending", "recv", "release"}
       /\ ptr[k] # NoConn => object[ptr[k]].exists
  /\ \A k, l \in Clients : ptr[k] # NoConn /\ ptr[k] = ptr[l] => k = l

\* A connection in m_conns is there once, and with no client.
Waiting ==
  /\ \A i, j \in 1..Len(m_conns) : m_conns[i] = m_conns[j] => i = j
  /\ \A i \in 1..Len(m_conns) :
       object[m_conns[i]].exists /\ \A k \in Clients : ptr[k] # m_conns[i]

\* No connection is lost: it waits or a client has it.
Reachable ==
  \A c \in Existing :
    (\E i \in 1..Len(m_conns) : m_conns[i] = c) \/ \E k \in Clients : ptr[k] = c

\* A client that has begun a call has a request.
Asked == \A k \in Clients : pc[k] # "idle" => req[k].n >= 1

\* Of a connection that the client's side has closed nothing is left.
ClosedIsClean ==
  \A c \in Conns :
    /\ object[c].isConnected => object[c].exists
    /\ ~object[c].isConnected =>
         link[c] = "none" /\ inbox[c] = <<>> /\ session[c] = "ended" /\ unread[c] = <<>>
           /\ half[c] = {} /\ c \notin failed \cup left

\* handleClient runs only while the connection is open.
SessionOpen == \A c \in Conns : session[c] # "ended" => link[c] = "open"

\* Nothing is on its way, or one request or its response.
Quiet(c) == inbox[c] = <<>> /\ unread[c] = <<>>
OnItsWay(c, r) ==
  \/ inbox[c] = <<>> /\ unread[c] = <<r>>
  \/ inbox[c] = <<r>> /\ unread[c] = <<>>

\* A connection in which nothing was left carries a request or response only for the
\* client that has it, while it waits for that response.
OwnTraffic ==
  \A c \in Conns \ left :
    /\ half[c] = {}
    /\ Quiet(c) \/ \E k \in Clients : pc[k] = "recv" /\ ptr[k] = c /\ OnItsWay(c, req[k])

\* If a server that has closed got a part of a request, on a connection that has not
\* failed and in which nothing was left, then its client sends the rest, or waits for a
\* response that will not come: recvResponse fails and closes the connection.
BrokenAwaited ==
  \A c \in Conns \ (failed \cup left) : link[c] \in {"refused", "broken"} =>
    Quiet(c) /\ \E k \in Clients : pc[k] \in {"sending", "recv"} /\ ptr[k] = c

IInv ==
  /\ TypeOK /\ Holding /\ Waiting /\ Reachable
  /\ IsFiniteSet(Existing) /\ TotalExact
  /\ Asked /\ ClosedIsClean /\ SessionOpen /\ OwnTraffic /\ BrokenAwaited
  /\ AnswersItsRequest /\ FirstSendSpared
=============================================================================
