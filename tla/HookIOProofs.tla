---------------------------- MODULE HookIOProofs ----------------------------
(***************************************************************************)
(* IInv is an inductive invariant of HookIO, for any number of calls and   *)
(* timers; OwnTimeout, OneTimerSet and ResultTrue follow from it.          *)
(*                                                                         *)
(* The argument.  A callback that runs late belongs to an earlier call     *)
(* (TimersOwned) and marks that call only, so a mark of the present call   *)
(* has a timer of its own behind it (MarksOwned), which addConditionTimer  *)
(* does not use again.  The event it cancels may be the present one: for   *)
(* do_io this costs a retry, and for connect it cannot happen, as connect  *)
(* is the first call that sets a timer (ConnectFirst).                     *)
(***************************************************************************)
EXTENDS HookIO, TLAPS

\* do_io starts a call with a timer_info of its own, which nothing has marked.
LEMMA BeginIoInv ==
  ASSUME IInv, BeginIo
  PROVE  IInv'
<1>1. TypeOK'
  BY HookAssumption DEF IInv, TypeOK, BeginIo, Begin, Return, callVars, timerVars,
     peerVars, envVars
<1>2. TimersOwned'
  BY DEF IInv, TypeOK, TimersOwned, BeginIo, Begin, Return, callVars, timerVars,
     peerVars, envVars
<1>3. MarksOwned'
  BY DEF IInv, TypeOK, TimersOwned, MarksOwned, BeginIo, Begin, Return, callVars,
     timerVars, peerVars, envVars
<1>4. ConnectFirst'
  BY DEF IInv, TypeOK, TimersOwned, MarksOwned, ConnectFirst, BeginIo, Begin, Return,
     callVars, timerVars, peerVars, envVars
<1>5. ResultTrue'
  BY DEF IInv, TypeOK, ConnectFirst, ResultTrue, NeverEagain, ConnectedIsConnected,
     BeginIo, Begin, Return, callVars, timerVars, peerVars, envVars
<1> QED BY <1>1, <1>2, <1>3, <1>4, <1>5 DEF IInv

\* connect_with_timeout starts before any timer of the socket was set.
LEMMA BeginConnectInv ==
  ASSUME IInv, BeginConnect
  PROVE  IInv'
<1>1. TypeOK'
  BY HookAssumption DEF IInv, TypeOK, BeginConnect, Begin, Return, callVars, timerVars,
     peerVars, envVars
<1>2. TimersOwned'
  BY DEF IInv, TypeOK, TimersOwned, BeginConnect, Begin, Return, callVars, timerVars,
     peerVars, envVars
<1>3. MarksOwned'
  BY DEF IInv, TypeOK, TimersOwned, MarksOwned, BeginConnect, Begin, Return, callVars,
     timerVars, peerVars, envVars
<1>4. ConnectFirst'
  BY DEF IInv, TypeOK, TimersOwned, MarksOwned, ConnectFirst, BeginConnect, Begin,
     Return, callVars, timerVars, peerVars, envVars
<1>5. ResultTrue'
  BY DEF IInv, TypeOK, ConnectFirst, ResultTrue, NeverEagain, ConnectedIsConnected,
     BeginConnect, Begin, Return, callVars, timerVars, peerVars, envVars
<1> QED BY <1>1, <1>2, <1>3, <1>4, <1>5 DEF IInv

\* The system call returns, or the call goes on to set its timer.
LEMMA TryIoInv ==
  ASSUME IInv, TryIo
  PROVE  IInv'
<1>1. TypeOK'
  BY DEF IInv, TypeOK, TryIo, Return, callVars, timerVars, peerVars, envVars
<1>2. TimersOwned'
  BY DEF IInv, TypeOK, TimersOwned, TryIo, Return, callVars, timerVars, peerVars,
     envVars
<1>3. MarksOwned'
  BY DEF IInv, TypeOK, TimersOwned, MarksOwned, TryIo, Return, callVars, timerVars,
     peerVars, envVars
<1>4. ConnectFirst'
  BY DEF IInv, TypeOK, TimersOwned, MarksOwned, ConnectFirst, TryIo, Return, callVars,
     timerVars, peerVars, envVars
<1>5. ResultTrue'
  BY DEF IInv, TypeOK, ConnectFirst, ResultTrue, NeverEagain, ConnectedIsConnected,
     TryIo, Return, callVars, timerVars, peerVars, envVars
<1> QED BY <1>1, <1>2, <1>3, <1>4, <1>5 DEF IInv

\* connect_f returns, or the handshake is in progress.
LEMMA TryConnectInv ==
  ASSUME IInv, TryConnect
  PROVE  IInv'
<1>1. TypeOK'
  BY DEF IInv, TypeOK, TryConnect, Return, callVars, timerVars, peerVars, envVars
<1>2. TimersOwned'
  BY DEF IInv, TypeOK, TimersOwned, TryConnect, Return, callVars, timerVars, peerVars,
     envVars
<1>3. MarksOwned'
  BY DEF IInv, TypeOK, TimersOwned, MarksOwned, TryConnect, Return, callVars, timerVars,
     peerVars, envVars
<1>4. ConnectFirst'
  BY DEF IInv, TypeOK, TimersOwned, MarksOwned, ConnectFirst, TryConnect, Return,
     callVars, timerVars, peerVars, envVars
<1>5. ResultTrue'
  BY DEF IInv, TypeOK, ConnectFirst, ResultTrue, NeverEagain, ConnectedIsConnected,
     TryConnect, Return, callVars, timerVars, peerVars, envVars
<1> QED BY <1>1, <1>2, <1>3, <1>4, <1>5 DEF IInv

\* addConditionTimer takes a timer that no mark of the present call depends on.
LEMMA AddTimerInv ==
  ASSUME IInv, AddTimer
  PROVE  IInv'
<1>spare. \/ UNCHANGED <<cur, timer, owner>>
          \/ \E i \in Spare : /\ cur' = i
                              /\ timer' = [timer EXCEPT ![i] = "set"]
                              /\ owner' = [owner EXCEPT ![i] = call]
  BY DEF AddTimer
<1>frame. /\ fpc = "timer" /\ fpc' = "add"
          /\ UNCHANGED <<kind, call, refused, ret, m_isConnected, cancelled, peerVars,
                         epoll, sock, envVars>>
  BY DEF AddTimer
<1>1. TypeOK'
  BY <1>spare, <1>frame DEF IInv, TypeOK, Spare, TimerIds, peerVars, envVars
<1>2. TimersOwned'
  <2>1. SUFFICES ASSUME NEW k \in TimerIds
                 PROVE  /\ owner'[k] <= call
                        /\ timer'[k] = "set" => k = cur'
                        /\ timer'[k] \in {"marked", "ran"} => owner'[k] \in cancelled
    BY <1>frame DEF TimersOwned
  <2>2. /\ owner[k] <= call /\ timer[k] # "set"
        /\ timer[k] \in {"marked", "ran"} => owner[k] \in cancelled
    BY <1>frame DEF IInv, TimersOwned
  <2>3. CASE UNCHANGED <<cur, timer, owner>>
    BY <2>2, <2>3
  <2>4. ASSUME NEW i \in Spare, cur' = i, timer' = [timer EXCEPT ![i] = "set"],
               owner' = [owner EXCEPT ![i] = call]
        PROVE  /\ owner'[k] <= call
               /\ timer'[k] = "set" => k = cur'
               /\ timer'[k] \in {"marked", "ran"} => owner'[k] \in cancelled
    BY <2>2, <2>4 DEF IInv, TypeOK
  <2> QED BY <1>spare, <2>3, <2>4
<1>3. MarksOwned'
  BY <1>spare, <1>frame DEF IInv, TypeOK, MarksOwned, Spare, peerVars, envVars
<1>4. ConnectFirst'
  BY <1>spare, <1>frame DEF IInv, TypeOK, ConnectFirst, Spare, peerVars, envVars
<1>5. ResultTrue'
  BY <1>frame DEF IInv, ResultTrue, NeverEagain, ConnectedIsConnected, peerVars, envVars
<1> QED BY <1>1, <1>2, <1>3, <1>4, <1>5 DEF IInv

\* addEvent changes nothing that the invariant speaks of but the program point.
LEMMA AddEventInv ==
  ASSUME IInv, AddEvent
  PROVE  IInv'
<1>1. TypeOK'
  BY DEF IInv, TypeOK, AddEvent, callVars, timerVars, peerVars, envVars
<1>2. TimersOwned'
  BY DEF IInv, TypeOK, TimersOwned, AddEvent, callVars, timerVars, peerVars, envVars
<1>3. MarksOwned'
  BY DEF IInv, TypeOK, TimersOwned, MarksOwned, AddEvent, callVars, timerVars, peerVars,
     envVars
<1>4. ConnectFirst'
  BY DEF IInv, TypeOK, TimersOwned, MarksOwned, ConnectFirst, AddEvent, callVars,
     timerVars, peerVars, envVars
<1>5. ResultTrue'
  BY DEF IInv, TypeOK, ConnectFirst, ResultTrue, NeverEagain, ConnectedIsConnected,
     AddEvent, callVars, timerVars, peerVars, envVars
<1> QED BY <1>1, <1>2, <1>3, <1>4, <1>5 DEF IInv

\* addEvent fails: the timer is taken out of the set again.
LEMMA AddFailsInv ==
  ASSUME IInv, AddFails
  PROVE  IInv'
<1>1. TypeOK'
  BY DEF IInv, TypeOK, AddFails, AfterFailure, CancelTimer, Return, TimerIds,
     callVars, timerVars,
     peerVars, envVars
<1>2. TimersOwned'
  BY DEF IInv, TypeOK, TimersOwned, AddFails, AfterFailure, CancelTimer, Return,
     TimerIds, callVars,
     timerVars, peerVars, envVars
<1>3. MarksOwned'
  BY DEF IInv, TypeOK, TimersOwned, MarksOwned, AddFails, AfterFailure, CancelTimer,
     Return, TimerIds,
     callVars, timerVars, peerVars, envVars
<1>4. ConnectFirst'
  BY DEF IInv, TypeOK, TimersOwned, MarksOwned, ConnectFirst, AddFails, AfterFailure,
     CancelTimer, Return, TimerIds, callVars, timerVars, peerVars, envVars
<1>5. ResultTrue'
  BY DEF IInv, TypeOK, ConnectFirst, ResultTrue, NeverEagain, ConnectedIsConnected,
     AddFails, AfterFailure, CancelTimer, Return, TimerIds, callVars, timerVars,
     peerVars, envVars
<1> QED BY <1>1, <1>2, <1>3, <1>4, <1>5 DEF IInv

\* The event wakes the fiber: for connect, the handshake is over.
LEMMA ReportInv ==
  ASSUME IInv, Report
  PROVE  IInv'
<1>1. TypeOK'
  BY DEF IInv, TypeOK, Report, Wake, Readiness, callVars, timerVars, peerVars, envVars
<1>2. TimersOwned'
  BY DEF IInv, TypeOK, TimersOwned, Report, Wake, Readiness, callVars, timerVars,
     peerVars, envVars
<1>3. MarksOwned'
  BY DEF IInv, TypeOK, TimersOwned, MarksOwned, Report, Wake, Readiness, callVars,
     timerVars, peerVars, envVars
<1>4. ConnectFirst'
  BY DEF IInv, TypeOK, TimersOwned, MarksOwned, ConnectFirst, Report, Wake, Readiness,
     callVars, timerVars, peerVars, envVars
<1>5. ResultTrue'
  BY DEF IInv, TypeOK, ConnectFirst, ResultTrue, NeverEagain, ConnectedIsConnected,
     Report, Wake, Readiness, callVars, timerVars, peerVars, envVars
<1> QED BY <1>1, <1>2, <1>3, <1>4, <1>5 DEF IInv

\* Another fiber cancels the event; then others is not empty.
LEMMA UserCancelInv ==
  ASSUME IInv, UserCancel
  PROVE  IInv'
<1>1. TypeOK'
  BY DEF IInv, TypeOK, UserCancel, Wake, callVars, timerVars, peerVars, envVars
<1>2. TimersOwned'
  BY DEF IInv, TypeOK, TimersOwned, UserCancel, Wake, callVars, timerVars, peerVars,
     envVars
<1>3. MarksOwned'
  BY DEF IInv, TypeOK, TimersOwned, MarksOwned, UserCancel, Wake, callVars, timerVars,
     peerVars, envVars
<1>4. ConnectFirst'
  BY DEF IInv, TypeOK, TimersOwned, MarksOwned, ConnectFirst, UserCancel, Wake,
     callVars, timerVars, peerVars, envVars
<1>5. ResultTrue'
  BY DEF IInv, TypeOK, ConnectFirst, ResultTrue, NeverEagain, ConnectedIsConnected,
     UserCancel, Wake, callVars, timerVars, peerVars, envVars
<1> QED BY <1>1, <1>2, <1>3, <1>4, <1>5 DEF IInv

\* The fiber cancels its timer after the wait.
LEMMA WokenInv ==
  ASSUME IInv, Woken
  PROVE  IInv'
<1>1. TypeOK'
  BY DEF IInv, TypeOK, Woken, CancelTimer, TimerIds, callVars, timerVars, peerVars,
     envVars
<1>2. TimersOwned'
  BY DEF IInv, TypeOK, TimersOwned, Woken, CancelTimer, TimerIds, callVars, timerVars,
     peerVars, envVars
<1>3. MarksOwned'
  BY DEF IInv, TypeOK, TimersOwned, MarksOwned, Woken, CancelTimer, TimerIds, callVars,
     timerVars, peerVars, envVars
<1>4. ConnectFirst'
  BY DEF IInv, TypeOK, TimersOwned, MarksOwned, ConnectFirst, Woken, CancelTimer,
     TimerIds, callVars, timerVars, peerVars, envVars
<1>5. ResultTrue'
  BY DEF IInv, TypeOK, ConnectFirst, ResultTrue, NeverEagain, ConnectedIsConnected,
     Woken, CancelTimer, TimerIds, callVars, timerVars, peerVars, envVars
<1> QED BY <1>1, <1>2, <1>3, <1>4, <1>5 DEF IInv

\* do_io reports ETIMEDOUT only when its timer_info is marked.
LEMMA LookIoInv ==
  ASSUME IInv, LookIo
  PROVE  IInv'
<1>1. TypeOK'
  BY DEF IInv, TypeOK, LookIo, Return, callVars, timerVars, peerVars, envVars
<1>2. TimersOwned'
  BY DEF IInv, TypeOK, TimersOwned, LookIo, Return, callVars, timerVars, peerVars,
     envVars
<1>3. MarksOwned'
  BY DEF IInv, TypeOK, TimersOwned, MarksOwned, LookIo, Return, callVars, timerVars,
     peerVars, envVars
<1>4. ConnectFirst'
  BY DEF IInv, TypeOK, TimersOwned, MarksOwned, ConnectFirst, LookIo, Return, callVars,
     timerVars, peerVars, envVars
<1>5. ResultTrue'
  BY DEF IInv, TypeOK, ConnectFirst, ResultTrue, NeverEagain, ConnectedIsConnected,
     LookIo, Return, callVars, timerVars, peerVars, envVars
<1> QED BY <1>1, <1>2, <1>3, <1>4, <1>5 DEF IInv

\* connect_with_timeout sets m_isConnected only without a mark: then the handshake
\* is over.
LEMMA LookConnectInv ==
  ASSUME IInv, LookConnect
  PROVE  IInv'
<1>1. TypeOK'
  BY DEF IInv, TypeOK, LookConnect, Return, callVars, timerVars, peerVars, envVars
<1>2. TimersOwned'
  BY DEF IInv, TypeOK, TimersOwned, LookConnect, Return, callVars, timerVars, peerVars,
     envVars
<1>3. MarksOwned'
  BY DEF IInv, TypeOK, TimersOwned, MarksOwned, LookConnect, Return, callVars,
     timerVars, peerVars, envVars
<1>4. ConnectFirst'
  BY DEF IInv, TypeOK, TimersOwned, MarksOwned, ConnectFirst, LookConnect, Return,
     callVars, timerVars, peerVars, envVars
<1>5. ResultTrue'
  BY DEF IInv, TypeOK, ConnectFirst, ResultTrue, NeverEagain, ConnectedIsConnected,
     LookConnect, Return, callVars, timerVars, peerVars, envVars
<1> QED BY <1>1, <1>2, <1>3, <1>4, <1>5 DEF IInv

\* SO_ERROR decides: it may be 0 during the handshake, if nobody waited for its end.
LEMMA AskErrorInv ==
  ASSUME IInv, AskError
  PROVE  IInv'
<1>1. TypeOK'
  BY DEF IInv, TypeOK, AskError, Return, callVars, timerVars, peerVars, envVars
<1>2. TimersOwned'
  BY DEF IInv, TypeOK, TimersOwned, AskError, Return, callVars, timerVars, peerVars,
     envVars
<1>3. MarksOwned'
  BY DEF IInv, TypeOK, TimersOwned, MarksOwned, AskError, Return, callVars,
     timerVars, peerVars, envVars
<1>4. ConnectFirst'
  BY DEF IInv, TypeOK, TimersOwned, MarksOwned, ConnectFirst, AskError, Return,
     callVars, timerVars, peerVars, envVars
<1>5. ResultTrue'
  BY DEF IInv, TypeOK, ConnectFirst, ResultTrue, NeverEagain, ConnectedIsConnected,
     AskError, Return, callVars, timerVars, peerVars, envVars
<1> QED BY <1>1, <1>2, <1>3, <1>4, <1>5 DEF IInv

\* The handshake ends.
LEMMA HandshakeInv ==
  ASSUME IInv, Handshake
  PROVE  IInv'
<1>1. TypeOK'
  BY DEF IInv, TypeOK, Handshake, callVars, timerVars, peerVars, envVars
<1>2. TimersOwned'
  BY DEF IInv, TypeOK, TimersOwned, Handshake, callVars, timerVars, peerVars, envVars
<1>3. MarksOwned'
  BY DEF IInv, TypeOK, TimersOwned, MarksOwned, Handshake, callVars, timerVars,
     peerVars, envVars
<1>4. ConnectFirst'
  BY DEF IInv, TypeOK, TimersOwned, MarksOwned, ConnectFirst, Handshake, callVars,
     timerVars, peerVars, envVars
<1>5. ResultTrue'
  BY DEF IInv, TypeOK, ConnectFirst, ResultTrue, NeverEagain, ConnectedIsConnected,
     Handshake, callVars, timerVars, peerVars, envVars
<1> QED BY <1>1, <1>2, <1>3, <1>4, <1>5 DEF IInv

\* The buffer of the socket lets a call go ahead.
LEMMA BecomesReadyInv ==
  ASSUME IInv, BecomesReady
  PROVE  IInv'
<1>1. TypeOK'
  BY DEF IInv, TypeOK, BecomesReady, callVars, timerVars, peerVars, envVars
<1>2. TimersOwned'
  BY DEF IInv, TypeOK, TimersOwned, BecomesReady, callVars, timerVars, peerVars, envVars
<1>3. MarksOwned'
  BY DEF IInv, TypeOK, TimersOwned, MarksOwned, BecomesReady, callVars, timerVars,
     peerVars, envVars
<1>4. ConnectFirst'
  BY DEF IInv, TypeOK, TimersOwned, MarksOwned, ConnectFirst, BecomesReady, callVars,
     timerVars, peerVars, envVars
<1>5. ResultTrue'
  BY DEF IInv, TypeOK, ConnectFirst, ResultTrue, NeverEagain, ConnectedIsConnected,
     BecomesReady, callVars, timerVars, peerVars, envVars
<1> QED BY <1>1, <1>2, <1>3, <1>4, <1>5 DEF IInv

\* A timer expires: it leaves the set.
LEMMA ExpireInv ==
  ASSUME IInv, NEW i \in TimerIds, Expire(i)
  PROVE  IInv'
<1>1. TypeOK'
  BY DEF IInv, TypeOK, Expire, callVars, timerVars, peerVars, envVars
<1>2. TimersOwned'
  BY DEF IInv, TypeOK, TimersOwned, Expire, callVars, timerVars, peerVars, envVars
<1>3. MarksOwned'
  BY DEF IInv, TypeOK, TimersOwned, MarksOwned, Expire, callVars, timerVars, peerVars,
     envVars
<1>4. ConnectFirst'
  BY DEF IInv, TypeOK, TimersOwned, MarksOwned, ConnectFirst, Expire, callVars,
     timerVars, peerVars, envVars
<1>5. ResultTrue'
  BY DEF IInv, TypeOK, ConnectFirst, ResultTrue, NeverEagain, ConnectedIsConnected,
     Expire, callVars, timerVars, peerVars, envVars
<1> QED BY <1>1, <1>2, <1>3, <1>4, <1>5 DEF IInv

\* The callback finds the timer_info of its call, or does nothing.
LEMMA CbCheckInv ==
  ASSUME IInv, NEW i \in TimerIds, CbCheck(i)
  PROVE  IInv'
<1>1. TypeOK'
  BY DEF IInv, TypeOK, CbCheck, Alive, callVars, timerVars, peerVars, envVars
<1>2. TimersOwned'
  BY DEF IInv, TypeOK, TimersOwned, CbCheck, Alive, callVars, timerVars, peerVars,
     envVars
<1>3. MarksOwned'
  BY DEF IInv, TypeOK, TimersOwned, MarksOwned, CbCheck, Alive, callVars, timerVars,
     peerVars, envVars
<1>4. ConnectFirst'
  BY DEF IInv, TypeOK, TimersOwned, MarksOwned, ConnectFirst, CbCheck, Alive, callVars,
     timerVars, peerVars, envVars
<1>5. ResultTrue'
  BY DEF IInv, TypeOK, ConnectFirst, ResultTrue, NeverEagain, ConnectedIsConnected,
     CbCheck, Alive, callVars, timerVars, peerVars, envVars
<1> QED BY <1>1, <1>2, <1>3, <1>4, <1>5 DEF IInv

\* The callback marks the call that set the timer.
LEMMA CbMarkInv ==
  ASSUME IInv, NEW i \in TimerIds, CbMark(i)
  PROVE  IInv'
<1>1. TypeOK'
  <2>1. /\ timer' \in [TimerIds -> {"off", "set", "fired", "checked", "marked", "ran"}]
        /\ cancelled' \subseteq Nat
    BY DEF IInv, TypeOK, CbMark
  <2>2. UNCHANGED <<fpc, callVars, ret, m_isConnected, owner, peerVars, epoll, sock,
                    envVars>>
    BY DEF CbMark
  <2> QED BY <2>1, <2>2 DEF IInv, TypeOK, callVars, peerVars, envVars
<1>2. TimersOwned'
  BY DEF IInv, TypeOK, TimersOwned, CbMark, callVars, timerVars, peerVars, envVars
<1>3. MarksOwned'
  BY DEF IInv, TypeOK, TimersOwned, MarksOwned, CbMark, callVars, timerVars, peerVars,
     envVars
<1>4. ConnectFirst'
  BY DEF IInv, TypeOK, TimersOwned, MarksOwned, ConnectFirst, CbMark, callVars,
     timerVars, peerVars, envVars
<1>5. ResultTrue'
  BY DEF IInv, TypeOK, ConnectFirst, ResultTrue, NeverEagain, ConnectedIsConnected,
     CbMark, callVars, timerVars, peerVars, envVars
<1> QED BY <1>1, <1>2, <1>3, <1>4, <1>5 DEF IInv

\* The callback cancels the event: if that wakes a connect, it was its own timer.
LEMMA CbCancelEventInv ==
  ASSUME IInv, NEW i \in TimerIds, CbCancelEvent(i)
  PROVE  IInv'
<1>1. TypeOK'
  <2>1. /\ timer' \in [TimerIds -> {"off", "set", "fired", "checked", "marked", "ran"}]
        /\ epoll' \in BOOLEAN /\ fpc' \in {fpc, "woken"}
    BY DEF IInv, TypeOK, CbCancelEvent, Wake
  <2>2. UNCHANGED <<callVars, ret, m_isConnected, cancelled, owner, peerVars, sock,
                    envVars>>
    BY DEF CbCancelEvent
  <2> QED BY <2>1, <2>2 DEF IInv, TypeOK, callVars, peerVars, envVars
<1>2. TimersOwned'
  BY DEF IInv, TypeOK, TimersOwned, CbCancelEvent, Wake, callVars, timerVars, peerVars,
     envVars
<1>3. MarksOwned'
  BY DEF IInv, TypeOK, TimersOwned, MarksOwned, CbCancelEvent, Wake, callVars,
     timerVars, peerVars, envVars
<1>4. ConnectFirst'
  BY DEF IInv, TypeOK, TimersOwned, MarksOwned, ConnectFirst, CbCancelEvent, Wake,
     callVars, timerVars, peerVars, envVars
<1>5. ResultTrue'
  BY DEF IInv, TypeOK, ConnectFirst, ResultTrue, NeverEagain, ConnectedIsConnected,
     CbCancelEvent, Wake, callVars, timerVars, peerVars, envVars
<1> QED BY <1>1, <1>2, <1>3, <1>4, <1>5 DEF IInv

\* close() cancels the event; then others is not empty.
LEMMA CloseCancelAllInv ==
  ASSUME IInv, CloseCancelAll
  PROVE  IInv'
<1>1. TypeOK'
  BY DEF IInv, TypeOK, CloseCancelAll, Wake, callVars, timerVars, peerVars, envVars
<1>2. TimersOwned'
  BY DEF IInv, TypeOK, TimersOwned, CloseCancelAll, Wake, callVars, timerVars, peerVars,
     envVars
<1>3. MarksOwned'
  BY DEF IInv, TypeOK, TimersOwned, MarksOwned, CloseCancelAll, Wake, callVars,
     timerVars, peerVars, envVars
<1>4. ConnectFirst'
  BY DEF IInv, TypeOK, TimersOwned, MarksOwned, ConnectFirst, CloseCancelAll, Wake,
     callVars, timerVars, peerVars, envVars
<1>5. ResultTrue'
  BY DEF IInv, TypeOK, ConnectFirst, ResultTrue, NeverEagain, ConnectedIsConnected,
     CloseCancelAll, Wake, callVars, timerVars, peerVars, envVars
<1> QED BY <1>1, <1>2, <1>3, <1>4, <1>5 DEF IInv

\* FdManager::del: the socket was not open before either.
LEMMA CloseDelInv ==
  ASSUME IInv, CloseDel
  PROVE  IInv'
<1>1. TypeOK'
  BY DEF IInv, TypeOK, CloseDel, callVars, timerVars, peerVars, envVars
<1>2. TimersOwned'
  BY DEF IInv, TypeOK, TimersOwned, CloseDel, callVars, timerVars, peerVars, envVars
<1>3. MarksOwned'
  BY DEF IInv, TypeOK, TimersOwned, MarksOwned, CloseDel, callVars, timerVars, peerVars,
     envVars
<1>4. ConnectFirst'
  BY DEF IInv, TypeOK, TimersOwned, MarksOwned, ConnectFirst, CloseDel, callVars,
     timerVars, peerVars, envVars
<1>5. ResultTrue'
  BY DEF IInv, TypeOK, ConnectFirst, ResultTrue, NeverEagain, ConnectedIsConnected,
     CloseDel, callVars, timerVars, peerVars, envVars
<1> QED BY <1>1, <1>2, <1>3, <1>4, <1>5 DEF IInv

\* The system call closes the socket.
LEMMA CloseSystemInv ==
  ASSUME IInv, CloseSystem
  PROVE  IInv'
<1>1. TypeOK'
  BY DEF IInv, TypeOK, CloseSystem, callVars, timerVars, peerVars, envVars
<1>2. TimersOwned'
  BY DEF IInv, TypeOK, TimersOwned, CloseSystem, callVars, timerVars, peerVars, envVars
<1>3. MarksOwned'
  BY DEF IInv, TypeOK, TimersOwned, MarksOwned, CloseSystem, callVars, timerVars,
     peerVars, envVars
<1>4. ConnectFirst'
  BY DEF IInv, TypeOK, TimersOwned, MarksOwned, ConnectFirst, CloseSystem, callVars,
     timerVars, peerVars, envVars
<1>5. ResultTrue'
  BY DEF IInv, TypeOK, ConnectFirst, ResultTrue, NeverEagain, ConnectedIsConnected,
     CloseSystem, callVars, timerVars, peerVars, envVars
<1> QED BY <1>1, <1>2, <1>3, <1>4, <1>5 DEF IInv

\* The fiber has made no call and no timer is set.
LEMMA InitInv == Init => IInv
<1> SUFFICES ASSUME Init PROVE IInv
  OBVIOUS
<1>bool. timeout \in BOOLEAN
  BY HookAssumption, Zenon DEF Init
<1>1. TypeOK
  <2>1. MaxTimers \in Nat
    BY HookAssumption
  <2>2. cur \in 0..MaxTimers
    BY <2>1 DEF Init
  <2> QED BY <1>bool, <2>2 DEF Init, TypeOK
<1>2. TimersOwned /\ MarksOwned
  BY DEF Init, TimersOwned, MarksOwned
<1>3. ConnectFirst /\ ResultTrue
  BY DEF Init, ConnectFirst, ResultTrue, NeverEagain, ConnectedIsConnected
<1> QED BY <1>1, <1>2, <1>3 DEF IInv

\* Every step of a call, of its timers, of the peer and of close() keeps IInv.
LEMMA NextInv == IInv /\ [Next]_vars => IInv'
<1> SUFFICES ASSUME IInv, [Next]_vars PROVE IInv'
  OBVIOUS
<1>1. CASE UNCHANGED vars
  BY <1>1 DEF IInv, TypeOK, TimersOwned, MarksOwned, ConnectFirst, ResultTrue,
     NeverEagain, ConnectedIsConnected, vars, callVars, timerVars, peerVars, envVars
<1>2. CASE BeginIo \/ BeginConnect
  BY <1>2, BeginIoInv, BeginConnectInv
<1>3. CASE FiberStep
  BY <1>3, TryIoInv, TryConnectInv, AddTimerInv, AddEventInv, AddFailsInv, WokenInv,
     LookIoInv, LookConnectInv, AskErrorInv DEF FiberStep
<1>4. CASE Report \/ UserCancel
  BY <1>4, ReportInv, UserCancelInv
<1>5. ASSUME NEW i \in TimerIds, Expire(i) \/ CbStep(i) PROVE IInv'
  BY <1>5, ExpireInv, CbCheckInv, CbMarkInv, CbCancelEventInv DEF CbStep
<1>6. CASE Handshake \/ BecomesReady
  BY <1>6, HandshakeInv, BecomesReadyInv
<1>7. CASE CloseStep
  BY <1>7, CloseCancelAllInv, CloseDelInv, CloseSystemInv DEF CloseStep
<1> QED BY <1>1, <1>2, <1>3, <1>4, <1>5, <1>6, <1>7 DEF Next

\* IInv holds in every state of every call.
THEOREM CallsAccounted == Spec => []IInv
BY InitInv, NextInv, PTL DEF Spec

\* A call of do_io or connect that reports ETIMEDOUT has set a timer that expired; a
\* late callback of an earlier call cannot make it give up.
THEOREM TimeoutIsOwn == Spec => []OwnTimeout
<1>1. IInv => OwnTimeout
  BY DEF IInv, MarksOwned, OwnTimeout
<1> QED BY <1>1, CallsAccounted, PTL

\* No path through do_io or connect_with_timeout leaves its timer in the set.
THEOREM TimerTakenBack == Spec => []OneTimerSet
<1>1. IInv => OneTimerSet
  BY DEF IInv, TimersOwned, OneTimerSet
<1> QED BY <1>1, CallsAccounted, PTL

\* A hooked call passes on neither the EAGAIN of the non-blocking socket nor a
\* timeout of connect as a connection.
THEOREM ResultIsTrue == Spec => []ResultTrue
<1>1. IInv => ResultTrue
  BY DEF IInv
<1> QED BY <1>1, CallsAccounted, PTL
=============================================================================
