------------------------------- MODULE HookIO -------------------------------
(***************************************************************************)
(* The hooked socket calls (hook.cc): do_io, which read, write, accept and *)
(* the others go through, and connect_with_timeout, as one fiber executes  *)
(* them on one socket, against the peer, the timers it sets, other fibers  *)
(* that cancel its event, and one that closes the socket.                  *)
(*                                                                         *)
(* A call that would block sets a timer, registers an event and yields.    *)
(* It is woken by the event, by the timer's callback, which marks the      *)
(* call's timer_info and cancels the event, or by anybody else who cancels *)
(* the event.  The callback is a task of its own: it runs on another       *)
(* thread, at any point of the call, or after it.                          *)
(*                                                                         *)
(* The socket is FdCtx::isSocket and not user-nonblocking; for the other   *)
(* kinds of file the hook passes the call on.  The reads and writes share  *)
(* one event here, so the event is registered or not.                      *)
(***************************************************************************)
EXTENDS Naturals

CONSTANTS
  MaxCalls,    \* bound: calls the fiber makes
  MaxTimers,   \* bound: timers the calls set
  Timeouts     \* whether the socket has a timeout (SO_RCVTIMEO, SO_SNDTIMEO, the
               \* one of connect): the cases to consider

ASSUME HookAssumption ==
  /\ {MaxCalls, MaxTimers} \subseteq Nat
  /\ Timeouts \subseteq BOOLEAN

VARIABLES
  timeout,      \* the socket has a timeout
  others,       \* what other fibers do to the socket: cancel (cancelWrite or
                \* cancelAll), close
  fpc,          \* idle, or where the fiber is in its call
  kind,         \* the call: connect or io
  call,         \* its number
  cur,          \* its local timer, 0 for none
  refused,      \* connect's addEvent has failed although the socket was open
  ret,          \* what the last call returned
  m_isConnected,
  cancelled,    \* the calls whose timer_info is marked ETIMEDOUT
  timer,        \* the timers and their callbacks: off, set, fired, checked,
                \* marked, ran
  owner,        \* the call that set a timer
  tcp,          \* the connection: none, progress, up, failed
  ready,        \* the kernel's buffer lets an io call go ahead
  epoll,        \* the event is registered with epoll
  sock          \* open, cancelled, deleted, closed: how far close() is

callVars == <<kind, call, cur, refused>>
timerVars == <<cancelled, timer, owner>>
peerVars == <<tcp, ready>>
envVars == <<timeout, others>>
vars == <<fpc, callVars, ret, m_isConnected, timerVars, peerVars, epoll, sock,
          envVars>>

TimerIds == 1..MaxTimers
Calls == 1..MaxCalls

Return(r) == fpc' = "idle" /\ ret' = r

-----------------------------------------------------------------------------
(***************************************************************************)
(* The call up to the wait                                                 *)
(***************************************************************************)

\* A new call with its own timer_info
Begin(k) ==
  /\ fpc = "idle"
  /\ call < MaxCalls
  /\ call' = call + 1
  /\ kind' = k
  /\ cur' = 0
  /\ UNCHANGED refused

\* do_io: without an FdCtx the system call is made directly
BeginIo ==
  /\ m_isConnected
  /\ Begin("io")
  /\ IF sock \in {"deleted", "closed"}
       THEN Return(IF sock = "closed" THEN "EBADF"
                   ELSE IF tcp = "up" /\ ready THEN "ok" ELSE "EAGAIN")
       ELSE fpc' = "try" /\ UNCHANGED ret
  /\ UNCHANGED <<m_isConnected, timerVars, peerVars, epoll, sock, envVars>>

\* connect_with_timeout: without an FdCtx it fails
BeginConnect ==
  /\ tcp = "none"
  /\ Begin("connect")
  /\ IF sock \in {"deleted", "closed"}
       THEN Return("EBADF")
       ELSE fpc' = "try" /\ UNCHANGED ret
  /\ UNCHANGED <<m_isConnected, timerVars, peerVars, epoll, sock, envVars>>

\* do_io at retry: the system call, repeated on EINTR
TryIo ==
  /\ fpc = "try"
  /\ kind = "io"
  /\ \/ sock = "closed" /\ Return("EBADF") /\ UNCHANGED ready
     \/ sock # "closed" /\ tcp = "failed" /\ Return("ERR") /\ UNCHANGED ready
     \/ /\ sock # "closed" /\ tcp = "up" /\ ready
        /\ Return("ok")
        /\ ready' \in BOOLEAN
     \/ /\ sock # "closed" /\ tcp # "failed" /\ ~(tcp = "up" /\ ready)
        /\ fpc' = "timer"
        /\ UNCHANGED <<ret, ready>>
  /\ UNCHANGED <<callVars, m_isConnected, timerVars, tcp, epoll, sock,
                 envVars>>

\* connect_with_timeout: connect_f succeeds, fails or is EINPROGRESS
TryConnect ==
  /\ fpc = "try"
  /\ kind = "connect"
  /\ \/ /\ sock = "closed" /\ Return("EBADF")
        /\ UNCHANGED <<tcp, m_isConnected>>
     \/ /\ sock # "closed" /\ Return("ok")
        /\ tcp' = "up" /\ m_isConnected' = TRUE
     \/ /\ sock # "closed" /\ Return("ERR")
        /\ tcp' = "failed" /\ UNCHANGED m_isConnected
     \/ /\ sock # "closed" /\ fpc' = "timer"
        /\ tcp' = "progress" /\ UNCHANGED <<ret, m_isConnected>>
  /\ UNCHANGED <<callVars, timerVars, ready, epoll, sock, envVars>>

\* Timers that nothing refers to any more, nor OwnTimeout
Spare == {i \in TimerIds :
            timer[i] = "off" \/ (timer[i] = "ran" /\ owner[i] # call)}

\* addConditionTimer, when there is a timeout
AddTimer ==
  /\ fpc = "timer"
  /\ IF ~timeout
       THEN UNCHANGED <<cur, timer, owner>>
       ELSE /\ Spare # {}
            /\ LET i == CHOOSE k \in Spare : TRUE IN
               /\ cur' = i
               /\ timer' = [timer EXCEPT ![i] = "set"]
               /\ owner' = [owner EXCEPT ![i] = call]
  /\ fpc' = "add"
  /\ UNCHANGED <<kind, call, refused, ret, m_isConnected, cancelled, peerVars,
                 epoll, sock, envVars>>

\* Timer::cancel on the local timer, if there is one and it has not fired
CancelTimer ==
  timer' = [i \in TimerIds |-> IF i = cur /\ timer[i] = "set" THEN "off"
                                                             ELSE timer[i]]

\* addEvent with this fiber, then YieldToHold ...
AddEvent ==
  /\ fpc = "add"
  /\ sock # "closed"
  /\ epoll' = TRUE
  /\ fpc' = "wait"
  /\ UNCHANGED <<callVars, ret, m_isConnected, timerVars, peerVars, sock,
                 envVars>>

\* The way out when addEvent fails: do_io returns, connect goes on to SO_ERROR
\* without a look at its timer_info
AfterFailure ==
  /\ IF kind = "io" THEN Return("ERR") ELSE fpc' = "ask" /\ UNCHANGED ret
  /\ refused' = (refused \/ (kind = "connect" /\ sock # "closed"))

\* Mutant: the error path leaves the timer in the set
AddFailsKeepsTimer ==
  /\ fpc = "add"
  /\ AfterFailure
  /\ UNCHANGED <<kind, call, cur, m_isConnected, timerVars, peerVars, epoll, sock,
                 envVars>>

\* ... or addEvent fails: on a closed socket always, on any other when epoll_ctl
\* does (ENOMEM, ENOSPC)
AddFails ==
  /\ fpc = "add"
  /\ CancelTimer
  /\ AfterFailure
  /\ UNCHANGED <<kind, call, cur, m_isConnected, cancelled, owner, peerVars, epoll,
                 sock, envVars>>

-----------------------------------------------------------------------------
(***************************************************************************)
(* Wake-ups                                                                *)
(***************************************************************************)

\* Mutant: errors are not reported to the fiber that waits to connect
ReadinessNoError == tcp = "up" /\ (kind = "connect" \/ ready)

\* The event has occurred: the connection was made, the buffer lets the call go
\* ahead, or there is an error, which idle() takes for every event
Readiness == tcp = "failed" \/ (tcp = "up" /\ (kind = "connect" \/ ready))

\* triggerEvent: the fiber is scheduled and the registration is gone
Wake ==
  /\ fpc = "wait"
  /\ epoll
  /\ epoll' = FALSE
  /\ fpc' = "woken"

\* idle() handles the report of epoll_wait
Report ==
  /\ Readiness
  /\ Wake
  /\ UNCHANGED <<callVars, ret, m_isConnected, timerVars, peerVars, sock,
                 envVars>>

\* Socket::cancelWrite, cancelAll by another fiber
UserCancel ==
  /\ "cancel" \in others
  /\ Wake
  /\ UNCHANGED <<callVars, ret, m_isConnected, timerVars, peerVars, sock,
                 envVars>>

\* The time is up: listExpiredCb takes the timer and its callback is scheduled
Expire(i) ==
  /\ timer[i] = "set"
  /\ timer' = [timer EXCEPT ![i] = "fired"]
  /\ UNCHANGED <<fpc, callVars, ret, m_isConnected, cancelled, owner, peerVars,
                 epoll, sock, envVars>>

\* The timer_info of the call that set timer i still exists
Alive(i) == owner[i] = call /\ fpc # "idle"

\* Timer::OnTimer and the callback: winfo.lock(), and a look at cancelled
CbCheck(i) ==
  /\ timer[i] = "fired"
  /\ timer' = [timer EXCEPT ![i] =
       IF Alive(i) /\ owner[i] \notin cancelled THEN "checked" ELSE "off"]
  /\ UNCHANGED <<fpc, callVars, ret, m_isConnected, cancelled, owner, peerVars,
                 epoll, sock, envVars>>

\* Mutant: the event is cancelled before timer_info is marked
CbMarkNothing(i) ==
  /\ timer[i] = "checked"
  /\ timer' = [timer EXCEPT ![i] = "marked"]
  /\ UNCHANGED <<fpc, callVars, ret, m_isConnected, cancelled, owner, peerVars,
                 epoll, sock, envVars>>

\* Mutant: the callback marks whatever call the fiber is in
CbMarkCurrent(i) ==
  /\ timer[i] = "checked"
  /\ cancelled' = cancelled \cup {call}
  /\ timer' = [timer EXCEPT ![i] = "marked"]
  /\ UNCHANGED <<fpc, callVars, ret, m_isConnected, owner, peerVars, epoll,
                 sock, envVars>>

\* The callback: t->cancelled = ETIMEDOUT
CbMark(i) ==
  /\ timer[i] = "checked"
  /\ cancelled' = cancelled \cup {owner[i]}
  /\ timer' = [timer EXCEPT ![i] = "marked"]
  /\ UNCHANGED <<fpc, callVars, ret, m_isConnected, owner, peerVars, epoll,
                 sock, envVars>>

\* The callback: cancelEvent(fd, event), whoever has registered it by now
CbCancelEvent(i) ==
  /\ timer[i] = "marked"
  /\ timer' = [timer EXCEPT ![i] = "ran"]
  /\ IF fpc = "wait" /\ epoll THEN Wake ELSE UNCHANGED <<fpc, epoll>>
  /\ UNCHANGED <<callVars, ret, m_isConnected, cancelled, owner, peerVars,
                 sock, envVars>>

-----------------------------------------------------------------------------
(***************************************************************************)
(* The call after the wait                                                 *)
(***************************************************************************)

\* timer->cancel()
Woken ==
  /\ fpc = "woken"
  /\ CancelTimer
  /\ fpc' = "look"
  /\ UNCHANGED <<callVars, ret, m_isConnected, cancelled, owner, peerVars,
                 epoll, sock, envVars>>

\* do_io: timed out, or retry
LookIo ==
  /\ fpc = "look"
  /\ kind = "io"
  /\ IF call \in cancelled THEN Return("ETIMEDOUT")
                           ELSE fpc' = "try" /\ UNCHANGED ret
  /\ UNCHANGED <<callVars, m_isConnected, timerVars, peerVars, epoll, sock,
                 envVars>>

\* connect_with_timeout: timed out, or ask for SO_ERROR
LookConnect ==
  /\ fpc = "look"
  /\ kind = "connect"
  /\ IF call \in cancelled THEN Return("ETIMEDOUT")
                           ELSE fpc' = "ask" /\ UNCHANGED ret
  /\ UNCHANGED <<callVars, m_isConnected, timerVars, peerVars, epoll, sock,
                 envVars>>

\* SO_ERROR is 0 while the handshake is on; Socket::connect then sets
\* m_isConnected
AskError ==
  LET failed == sock = "closed" \/ tcp = "failed" IN
  /\ fpc = "ask"
  /\ Return(IF failed THEN "ERR" ELSE "ok")
  /\ m_isConnected' = ~failed
  /\ UNCHANGED <<callVars, timerVars, peerVars, epoll, sock, envVars>>

-----------------------------------------------------------------------------
(***************************************************************************)
(* The peer, and close() by another fiber                                  *)
(***************************************************************************)
Handshake ==
  /\ tcp = "progress"
  /\ tcp' \in {"up", "failed"}
  /\ UNCHANGED <<fpc, callVars, ret, m_isConnected, timerVars, ready, epoll,
                 sock, envVars>>

BecomesReady ==
  /\ ~ready
  /\ ready' = TRUE
  /\ UNCHANGED <<fpc, callVars, ret, m_isConnected, timerVars, tcp, epoll,
                 sock, envVars>>

\* close(): cancelAll ...
CloseCancelAll ==
  /\ "close" \in others
  /\ sock = "open"
  /\ sock' = "cancelled"
  /\ IF fpc = "wait" /\ epoll THEN Wake ELSE UNCHANGED <<fpc, epoll>>
  /\ UNCHANGED <<callVars, ret, m_isConnected, timerVars, peerVars, envVars>>

\* ... FdManager::del ...
CloseDel ==
  /\ sock = "cancelled"
  /\ sock' = "deleted"
  /\ UNCHANGED <<fpc, callVars, ret, m_isConnected, timerVars, peerVars, epoll,
                 envVars>>

\* ... and the system call, with which the kernel forgets the registration
CloseSystem ==
  /\ sock = "deleted"
  /\ sock' = "closed"
  /\ epoll' = FALSE
  /\ UNCHANGED <<fpc, callVars, ret, m_isConnected, timerVars, peerVars,
                 envVars>>

-----------------------------------------------------------------------------
Init ==
  /\ timeout \in Timeouts
  /\ others \in SUBSET {"cancel", "close"}
  /\ fpc = "idle"
  /\ kind = "io"
  /\ call = 0
  /\ cur = 0
  /\ refused = FALSE
  /\ ret = "none"
  /\ m_isConnected = FALSE
  /\ cancelled = {}
  /\ timer = [i \in TimerIds |-> "off"]
  /\ owner = [i \in TimerIds |-> 0]
  /\ tcp = "none"
  /\ ready = FALSE
  /\ epoll = FALSE
  /\ sock = "open"

FiberStep ==
  \/ TryIo \/ TryConnect \/ AddTimer \/ AddEvent \/ AddFails
  \/ Woken \/ LookIo \/ LookConnect \/ AskError

CbStep(i) == CbCheck(i) \/ CbMark(i) \/ CbCancelEvent(i)

CloseStep == CloseCancelAll \/ CloseDel \/ CloseSystem

Next ==
  \/ BeginIo \/ BeginConnect
  \/ FiberStep
  \/ Report \/ UserCancel
  \/ \E i \in TimerIds : Expire(i) \/ CbStep(i)
  \/ Handshake \/ BecomesReady
  \/ CloseStep

Spec == Init /\ [][Next]_vars

\* The fiber and the idle threads get the processor, and the peer answers in the
\* end.  Nothing makes a timer expire before that.
FairSpec ==
  /\ Spec
  /\ WF_vars(FiberStep)
  /\ WF_vars(Report)
  /\ WF_vars(Handshake)
  /\ WF_vars(BecomesReady)

-----------------------------------------------------------------------------
(***************************************************************************)
(* Properties                                                              *)
(***************************************************************************)

\* A call reports ETIMEDOUT only if a timer that this very call set has expired:
\* a callback of an earlier call that runs late may wake the fiber, but cannot
\* make the present call give up.
OwnTimeout ==
  ret = "ETIMEDOUT" /\ fpc = "idle" =>
    \E i \in TimerIds : owner[i] = call /\ timer[i] \in {"marked", "ran"}

\* No path through a call leaves its timer in the set, where it would keep the
\* IOManager from stopping: only the round in progress has one.
OneTimerSet == \A i \in TimerIds : timer[i] = "set" => i = cur /\ fpc # "idle"

\* A hooked call looks like a blocking one: EAGAIN of the non-blocking socket is
\* never passed on, while the socket is not being closed.
NeverEagain == sock = "open" => ret # "EAGAIN"

\* A timeout never passes for a connection: when Socket::connect says that it is
\* connected the handshake is over, unless another fiber has cancelled its event
\* or the event could not be registered: SO_ERROR is 0 in both cases too.
ConnectedIsConnected ==
  m_isConnected /\ tcp = "progress" => others # {} \/ refused

\* What a call reports is true: it does not pass on the EAGAIN of the non-blocking
\* socket, nor a timeout as a connection.
ResultTrue == NeverEagain /\ ConnectedIsConnected

\* Every call ends, however its own timers, the late callbacks of earlier ones and
\* the peer interleave, as long as no other fiber cancels or closes.
CallEnds == (fpc # "idle") ~> (fpc = "idle" \/ others # {})

\* Types of the call's locals, of the timers and of the socket.
TypeOK ==
  /\ timeout \in BOOLEAN
  /\ others \subseteq {"cancel", "close"}
  /\ fpc \in {"idle", "try", "timer", "add", "wait", "woken", "look",
              "ask"}
  /\ kind \in {"io", "connect"}
  /\ call \in Nat
  /\ cur \in 0..MaxTimers
  /\ refused \in BOOLEAN
  /\ m_isConnected \in BOOLEAN
  /\ cancelled \subseteq Nat
  /\ timer \in [TimerIds -> {"off", "set", "fired", "checked", "marked", "ran"}]
  /\ owner \in [TimerIds -> Nat]
  /\ tcp \in {"none", "progress", "up", "failed"}
  /\ ready \in BOOLEAN
  /\ epoll \in BOOLEAN
  /\ sock \in {"open", "cancelled", "deleted", "closed"}

\* A timer belongs to the present call or an earlier one, is in the set only from
\* addConditionTimer to the cancel after the wait, and has marked its own call.
TimersOwned ==
  \A i \in TimerIds :
    /\ owner[i] <= call
    /\ timer[i] = "set" => i = cur /\ fpc \in {"add", "wait", "woken"}
    /\ timer[i] \in {"marked", "ran"} => owner[i] \in cancelled

\* What marks a call is one of its own timers, and ETIMEDOUT comes from a mark.
MarksOwned ==
  /\ \A k \in cancelled : k <= call
  /\ call \in cancelled =>
       \E i \in TimerIds : owner[i] = call /\ timer[i] \in {"marked", "ran"}
  /\ ret = "ETIMEDOUT" /\ fpc = "idle" => call \in cancelled

\* connect() is the first call that can set a timer, so that no callback of an
\* earlier call runs into it: it is woken by the handshake or by its own timeout.
ConnectFirst ==
  /\ tcp = "none" => /\ fpc \in {"idle", "try"}
                     /\ fpc = "try" => kind = "connect"
                     /\ \A i \in TimerIds : timer[i] = "off"
                     /\ ~m_isConnected
  /\ kind = "connect" /\ fpc # "idle" =>
       /\ ~m_isConnected
       /\ \A i \in TimerIds : timer[i] # "off" => owner[i] = call
       /\ others = {} /\ fpc \in {"woken", "look"} =>
            tcp # "progress" \/ call \in cancelled
       /\ others = {} /\ fpc = "ask" => tcp # "progress" \/ refused
  /\ fpc = "ask" => kind = "connect"
  /\ sock # "open" => "close" \in others

\* The invariant of HookIOProofs: OwnTimeout, OneTimerSet and ResultTrue with what
\* their proof needs to know of the steps of the callback.
IInv == TypeOK /\ TimersOwned /\ MarksOwned /\ ConnectFirst /\ ResultTrue

\* hook.cc:181: the timer wakes the fiber when the time is up.  So a fiber that
\* waits with a timeout has a timer, or the callback of one, still to come.
TimeoutWakes ==
  timeout /\ kind = "io" /\ fpc = "wait" =>
    \E i \in TimerIds :
      owner[i] = call /\ timer[i] \in {"set", "fired", "checked", "marked"}
=============================================================================
