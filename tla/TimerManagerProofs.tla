------------------------- MODULE TimerManagerProofs -------------------------
(***************************************************************************)
(* IInv is an inductive invariant of TimerManager, for any timers, threads *)
(* and clients, periods and settings of the clock.  SetConsistent,         *)
(* CancelIsFinal, SleepersCovered and the action property NotEarly follow. *)
(*                                                                         *)
(* The argument for SleepersCovered.  m_tickled is set together with a     *)
(* tickle and reset by a thread that is awake and looks at the set, so     *)
(* while it is set a wake-up is on its way; a front insertion that does    *)
(* not tickle relies on that one (Covered).  A thread that goes to sleep   *)
(* covers all timers of that moment, and a signal that interrupts it adds  *)
(* as much to the time it has lost as to the time it sleeps.  Every other  *)
(* change of the set or of a key makes the earliest timer later: for       *)
(* refresh this needs that the timer was started in the past (Started),    *)
(* and fails if the clock was set back.                                    *)
(***************************************************************************)
EXTENDS TimerManager, TLAPS, WellFoundedInduction

\* A set of natural numbers has a least element, which Min names.
LEMMA MinOfNats ==
  ASSUME NEW S \in SUBSET Nat, S # {}
  PROVE  Min(S) \in S /\ \A y \in S : Min(S) <= y
<1>1. PICK x \in S : \A y \in S : <<y, x>> \notin OpToRel(<, Nat)
  BY WFMin, NatLessThanWellFounded
<1>2. \A y \in S : ~(y < x)
  BY <1>1 DEF OpToRel
<1>3. \A y \in S : x <= y
  BY <1>2
<1> QED BY <1>3 DEF Min

\* The larger of an integer and 0, as Max gives it.
LEMMA MaxWithZero ==
  ASSUME NEW a \in Int
  PROVE  Max({a, 0}) = IF a >= 0 THEN a ELSE 0
BY DEF Max

\* Earliest is the m_next of the first timer in the set.
LEMMA EarliestFirst ==
  ASSUME TypeOK, m_timers # {}
  PROVE  /\ Earliest \in Nat
         /\ \E x \in m_timers : Earliest = m_next[x]
         /\ \A x \in m_timers : Earliest <= m_next[x]
<1> DEFINE S == {m_next[x] : x \in m_timers}
<1>1. S \in SUBSET Nat /\ S # {}
  BY DEF TypeOK
<1>2. Min(S) \in S /\ \A y \in S : Min(S) <= y
  BY <1>1, MinOfNats
<1> QED BY <1>1, <1>2 DEF Earliest

\* A number that fits into an int is not changed by the conversion.
LEMMA ToIntSmall ==
  ASSUME NEW n \in 0..IntMax
  PROVE  ToInt(n) = n
<1>1. IntMax \in Nat
  BY TimerConstants
<1>2. n % (2 * (IntMax + 1)) = n
  BY <1>1
<1> QED BY <1>1, <1>2 DEF ToInt

\* The constants are natural numbers.
LEMMA ConstantsNat ==
  /\ Periods \subseteq Nat /\ SetBacks \subseteq Nat
  /\ MAX_TIMEOUT \in Nat /\ Hour \in Nat /\ IntMax \in Nat /\ Start \in Nat
  /\ MaxClock \in Nat /\ MAX_TIMEOUT <= IntMax /\ Hour <= Start
BY TimerConstants

\* There is a timer to name.
LEMMA AnyTimerIs == AnyTimer \in Timers
BY TimerConstants DEF AnyTimer

\* The timeout of epoll_wait is an integer, whatever the conversions make of it.
LEMMA SleepType ==
  ASSUME TypeOK, m_timers # {}
  PROVE  EpollTimeoutArg(Max({Earliest - clock, 0})) \in Int
<1>1. Max({Earliest - clock, 0}) \in Nat
  <2>1. Earliest - clock \in Int
    BY EarliestFirst DEF TypeOK
  <2> QED BY <2>1, MaxWithZero
<1>2. ASSUME NEW n \in Nat PROVE ToInt(n) \in Int
  BY ConstantsNat DEF ToInt
<1> QED BY <1>1, <1>2, ConstantsNat DEF EpollTimeoutArg

\* A thread that goes to sleep wakes up in time for every timer in the set, if the
\* periods fit into an int and the clock did not go back.
LEMMA SleepInTime ==
  ASSUME IInv, m_timers # {}, PeriodsFit, ~wasBack
  PROVE  LET wait == EpollTimeoutArg(Max({Earliest - clock, 0})) IN
         /\ wait \in Nat
         /\ \A x \in m_timers : wait <= Remaining(x)
<1> DEFINE n == Max({Earliest - clock, 0})
<1>1. TypeOK
  BY DEF IInv, SetConsistent
<1>2. /\ Earliest \in Nat /\ clock \in Nat
      /\ n = IF Earliest - clock >= 0 THEN Earliest - clock ELSE 0
  BY <1>1, EarliestFirst, MaxWithZero DEF TypeOK
<1>3. \A x \in m_timers : n <= Remaining(x)
  BY <1>1, <1>2, EarliestFirst DEF Remaining, TypeOK
<1>4. PICK x \in m_timers : Earliest = m_next[x]
  BY <1>1, EarliestFirst
<1>5. m_next[x] <= clock + m_ms[x] /\ m_ms[x] \in Nat /\ m_ms[x] <= IntMax
  BY <1>1, ConstantsNat DEF IInv, Started, PeriodsFit, TypeOK
<1>6. n \in 0..IntMax
  BY <1>2, <1>4, <1>5, ConstantsNat
<1> HIDE DEF n
<1>7. ToInt(n) = n
  BY <1>6, ToIntSmall
<1>8. ToInt(MAX_TIMEOUT) = MAX_TIMEOUT
  BY ConstantsNat, ToIntSmall
<1>9. /\ EpollTimeoutArg(n) = IF n > MAX_TIMEOUT THEN MAX_TIMEOUT ELSE n
      /\ EpollTimeoutArg(n) \in Nat /\ EpollTimeoutArg(n) <= n
  BY <1>6, <1>7, <1>8, ConstantsNat DEF EpollTimeoutArg
<1>10. \A y \in m_timers : Remaining(y) \in Nat
  BY <1>1 DEF Remaining, TypeOK
<1> QED BY <1>3, <1>6, <1>9, <1>10 DEF n

\* A step that takes no sleeper's time and after which every timer in the set is as
\* late as one before keeps the cover.
LEMMA CoverKept ==
  ASSUME IInv, TypeOK', UNCHANGED <<next_timeout, left, lost, clock, wasBack>>,
         OnTheWay => OnTheWay',
         m_tickled' => m_tickled \/ OnTheWay',
         \A x \in m_timers' : ~wasBack => \E y \in m_timers : m_next[y] <= m_next'[x]
  PROVE  Covered'
<1>1. ASSUME NEW t \in Threads, ~wasBack,
             \A y \in m_timers : left[t] <= Remaining(y) + lost[t],
             NEW x \in m_timers'
      PROVE  left'[t] <= Remaining(x)' + lost'[t]
  <2>1. PICK y \in m_timers : m_next[y] <= m_next'[x]
    BY <1>1
  <2>2. left[t] <= Remaining(y) + lost[t]
    BY <1>1
  <2>3. left[t] \in Int /\ lost[t] \in Nat /\ clock \in Nat /\ m_next[y] \in Nat
        /\ m_next'[x] \in Nat
    BY <1>1, <2>1 DEF IInv, SetConsistent, TypeOK
  <2> QED BY <2>1, <2>2, <2>3 DEF Remaining
<1> QED BY <1>1 DEF IInv, Covered

\* addTimer(timer, lock) keeps the cover, wherever the timer comes to be.
LEMMA InsertCovers ==
  ASSUME IInv, TypeOK', UNCHANGED <<tpc, next_timeout, left, lost, edge, clock,
     wasBack>>,
         NEW c \in Clients, cpc[c] # "tickle",
         NEW x \in Timers, NEW S \in SUBSET m_timers, x \notin S,
         Insert(c, x, S, m_next'), \A y \in S : m_next'[y] = m_next[y]
  PROVE  Covered'
<1>1. OnTheWay => OnTheWay'
  BY DEF IInv, SetConsistent, TypeOK, OnTheWay, Insert
<1>2. CASE AtFront(x, S, m_next') /\ ~m_tickled
  <2>1. OnTheWay'
    BY <1>2 DEF IInv, SetConsistent, TypeOK, OnTheWay, Insert
  <2> QED BY <2>1 DEF IInv, Covered
<1>3. CASE AtFront(x, S, m_next') /\ m_tickled
  <2>1. OnTheWay'
    BY <1>1, <1>3 DEF IInv, Covered
  <2> QED BY <2>1 DEF IInv, Covered
<1>4. CASE ~AtFront(x, S, m_next')
  <2>1. PICK y \in S : m_next'[y] <= m_next'[x]
    <3>1. PICK y \in S \ {x} : ~(m_next'[x] < m_next'[y])
      BY <1>4 DEF AtFront
    <3>2. m_next'[x] \in Nat /\ m_next'[y] \in Nat
      BY <3>1 DEF IInv, SetConsistent, TypeOK
    <3> QED BY <3>1, <3>2
  <2>2. m_timers' = S \cup {x} /\ UNCHANGED m_tickled
    BY <1>4 DEF Insert
  <2>3. \A z \in m_timers' : \E w \in m_timers : m_next[w] <= m_next'[z]
    BY <2>1, <2>2 DEF IInv, SetConsistent, TypeOK
  <2> QED BY <1>1, <2>2, <2>3, CoverKept
<1> QED BY <1>2, <1>3, <1>4

\* The constructor of Timer: the object belongs to the client that makes it.
LEMMA NewTimerInv ==
  ASSUME IInv, NEW c \in Clients, NEW x \in Timers, NEW ms \in Periods,
         NEW b \in BOOLEAN,
         NewTimer(c, x, ms, b)
  PROVE  IInv'
<1>1. TypeOK'
  BY ConstantsNat DEF IInv, SetConsistent, TypeOK, Started, NewTimer, timerVars,
     setVars, clientVars, threadVars, sleepVars, clockVars
<1>2. TimerInSet' /\ KeysCurrent'
  BY DEF IInv, SetConsistent, TypeOK, TimerInSet, KeysCurrent, InSet, Adding, NewTimer,
     timerVars, setVars, clientVars, threadVars, sleepVars, clockVars
<1>3. Adding'
  BY DEF IInv, SetConsistent, TypeOK, Adding, NewTimer, timerVars, setVars, clientVars,
     threadVars, sleepVars, clockVars
<1>4. Started'
  BY ConstantsNat DEF IInv, SetConsistent, TypeOK, Started, NewTimer, timerVars,
     setVars, clientVars, threadVars, sleepVars, clockVars
<1>5. Collected'
  BY DEF IInv, SetConsistent, TypeOK, TimerInSet, KeysCurrent, InSet, Adding, Collected,
     CancelIsFinal, NewTimer, timerVars, setVars, clientVars, threadVars, sleepVars,
     clockVars
<1>6. Scanned'
  BY DEF IInv, SetConsistent, TypeOK, Scanned, NewTimer, timerVars, setVars, clientVars,
     threadVars, sleepVars, clockVars
<1>7. Covered'
  <2>1. \A y \in m_timers' : y \in m_timers /\ m_next[y] \in Nat
        /\ m_next'[y] = m_next[y]
    BY DEF IInv, SetConsistent, TypeOK, KeysCurrent, NewTimer, setVars
  <2>2. OnTheWay => OnTheWay'
    BY DEF IInv, SetConsistent, TypeOK, NewTimer, OnTheWay, threadVars, sleepVars
  <2>3. UNCHANGED <<next_timeout, left, lost, clock, wasBack, m_tickled>>
    BY DEF NewTimer, threadVars, sleepVars, clockVars
  <2>4. \A y \in m_timers' : ~wasBack => \E z \in m_timers : m_next[z] <= m_next'[y]
    BY <2>1
  <2> QED BY <1>1, <2>2, <2>3, <2>4, CoverKept
<1> QED BY <1>1, <1>2, <1>3, <1>4, <1>5, <1>6, <1>7 DEF IInv, SetConsistent

\* addTimer puts the timer into the set; in front of all others it tickles, unless
\* another client has done so since a thread last asked for the next timer.
LEMMA AddTimerInv ==
  ASSUME IInv, NEW c \in Clients, AddTimer(c)
  PROVE  IInv'
<1>1. TypeOK'
  BY AnyTimerIs DEF IInv, SetConsistent, TypeOK, Started, AddTimer, Insert,
     timerVars, setVars,
     clientVars, threadVars, sleepVars, clockVars
<1>2. TimerInSet' /\ KeysCurrent'
  BY DEF IInv, SetConsistent, TypeOK, TimerInSet, KeysCurrent, InSet, Adding, AddTimer,
     Insert, timerVars, setVars, clientVars, threadVars, sleepVars, clockVars
<1>3. Adding'
  BY DEF IInv, SetConsistent, TypeOK, Adding, AddTimer, Insert, timerVars, setVars,
     clientVars, threadVars, sleepVars, clockVars
<1>4. Started'
  BY DEF IInv, SetConsistent, TypeOK, Started, AddTimer, Insert, timerVars, setVars,
     clientVars, threadVars, sleepVars, clockVars
<1>5. Collected'
  BY DEF IInv, SetConsistent, TypeOK, TimerInSet, KeysCurrent, InSet, Adding, Collected,
     CancelIsFinal, AddTimer, Insert, timerVars, setVars, clientVars, threadVars,
     sleepVars,
     clockVars
<1>6. Scanned'
  BY DEF IInv, SetConsistent, TypeOK, Scanned, AddTimer, Insert, timerVars, setVars,
     clientVars, threadVars, sleepVars, clockVars
<1>7. Covered'
  <2>1. cx[c] \in Timers /\ cx[c] \notin m_timers
    BY DEF IInv, SetConsistent, TypeOK, KeysCurrent, Adding, AddTimer
  <2>2. Insert(c, cx[c], m_timers, m_next')
    BY DEF AddTimer
  <2> QED BY <1>1, <2>1, <2>2, InsertCovers DEF AddTimer, threadVars, sleepVars,
     clockVars
<1> QED BY <1>1, <1>2, <1>3, <1>4, <1>5, <1>6, <1>7 DEF IInv, SetConsistent

\* IOManager::tickle: a write to the pipe, or all threads are busy.
LEMMA TickleInv ==
  ASSUME IInv, NEW c \in Clients, Tickle(c)
  PROVE  IInv'
<1>1. TypeOK'
  BY DEF IInv, SetConsistent, TypeOK, Started, Tickle, timerVars, setVars, clientVars,
     threadVars, sleepVars, clockVars
<1>2. TimerInSet' /\ KeysCurrent'
  BY DEF IInv, SetConsistent, TypeOK, TimerInSet, KeysCurrent, InSet, Adding, Tickle,
     timerVars, setVars, clientVars, threadVars, sleepVars, clockVars
<1>3. Adding'
  BY DEF IInv, SetConsistent, TypeOK, Adding, Tickle, timerVars, setVars, clientVars,
     threadVars, sleepVars, clockVars
<1>4. Started'
  BY DEF IInv, SetConsistent, TypeOK, Started, Tickle, timerVars, setVars, clientVars,
     threadVars, sleepVars, clockVars
<1>5. Collected'
  BY DEF IInv, SetConsistent, TypeOK, TimerInSet, KeysCurrent, InSet, Adding, Collected,
     CancelIsFinal, Tickle, timerVars, setVars, clientVars, threadVars, sleepVars,
     clockVars
<1>6. Scanned'
  BY DEF IInv, SetConsistent, TypeOK, Scanned, Tickle, timerVars, setVars, clientVars,
     threadVars, sleepVars, clockVars
<1>7. Covered'
  <2>1. OnTheWay'
    BY TimerConstants DEF IInv, SetConsistent, TypeOK, Tickle, OnTheWay, threadVars,
     sleepVars
  <2> QED BY <2>1 DEF IInv, Covered, Tickle, threadVars, sleepVars
<1> QED BY <1>1, <1>2, <1>3, <1>4, <1>5, <1>6, <1>7 DEF IInv, SetConsistent

\* Timer::cancel: the timer leaves the set together with its callback.
LEMMA CancelInv ==
  ASSUME IInv, NEW c \in Clients, NEW x \in Timers, Cancel(c, x)
  PROVE  IInv'
<1>1. TypeOK'
  BY DEF IInv, SetConsistent, TypeOK, Started, Cancel, timerVars, setVars, clientVars,
     threadVars, sleepVars, clockVars
<1>2. TimerInSet' /\ KeysCurrent'
  BY DEF IInv, SetConsistent, TypeOK, TimerInSet, KeysCurrent, InSet, Adding, Cancel,
     timerVars, setVars, clientVars, threadVars, sleepVars, clockVars
<1>3. Adding'
  BY DEF IInv, SetConsistent, TypeOK, Adding, Cancel, timerVars, setVars, clientVars,
     threadVars, sleepVars, clockVars
<1>4. Started'
  BY DEF IInv, SetConsistent, TypeOK, Started, Cancel, timerVars, setVars, clientVars,
     threadVars, sleepVars, clockVars
<1>5. Collected'
  BY DEF IInv, SetConsistent, TypeOK, TimerInSet, KeysCurrent, InSet, Adding, Collected,
     CancelIsFinal, Cancel, timerVars, setVars, clientVars, threadVars, sleepVars,
     clockVars
<1>6. Scanned'
  BY DEF IInv, SetConsistent, TypeOK, Scanned, Cancel, timerVars, setVars, clientVars,
     threadVars, sleepVars, clockVars
<1>7. Covered'
  <2>1. \A y \in m_timers' : y \in m_timers /\ m_next[y] \in Nat
        /\ m_next'[y] = m_next[y]
    BY DEF IInv, SetConsistent, TypeOK, Cancel
  <2>2. OnTheWay => OnTheWay'
    BY DEF Cancel, OnTheWay, clientVars, threadVars, sleepVars
  <2>3. UNCHANGED <<next_timeout, left, lost, clock, wasBack, m_tickled>>
    BY DEF Cancel, threadVars, sleepVars, clockVars
  <2>4. \A y \in m_timers' : ~wasBack => \E z \in m_timers : m_next[z] <= m_next'[y]
    BY <2>1
  <2> QED BY <1>1, <2>2, <2>3, <2>4, CoverKept
<1> QED BY <1>1, <1>2, <1>3, <1>4, <1>5, <1>6, <1>7 DEF IInv, SetConsistent

\* Timer::refresh moves a timer to a later place.
LEMMA RefreshInv ==
  ASSUME IInv, NEW c \in Clients, NEW x \in Timers, Refresh(c, x)
  PROVE  IInv'
<1>1. TypeOK'
  BY DEF IInv, SetConsistent, TypeOK, Started, Refresh, InSet, timerVars, setVars,
     clientVars, threadVars, sleepVars, clockVars
<1>2. TimerInSet' /\ KeysCurrent'
  BY DEF IInv, SetConsistent, TypeOK, TimerInSet, KeysCurrent, InSet, Adding, Refresh,
     InSet, timerVars, setVars, clientVars, threadVars, sleepVars, clockVars
<1>3. Adding'
  BY DEF IInv, SetConsistent, TypeOK, Adding, Refresh, InSet, timerVars, setVars,
     clientVars, threadVars, sleepVars, clockVars
<1>4. Started'
  BY DEF IInv, SetConsistent, TypeOK, Started, Refresh, InSet, timerVars, setVars,
     clientVars, threadVars, sleepVars, clockVars
<1>5. Collected'
  BY DEF IInv, SetConsistent, TypeOK, TimerInSet, KeysCurrent, InSet, Adding, Collected,
     CancelIsFinal, Refresh, InSet, timerVars, setVars, clientVars, threadVars,
     sleepVars,
     clockVars
<1>6. Scanned'
  BY DEF IInv, SetConsistent, TypeOK, Scanned, Refresh, InSet, timerVars, setVars,
     clientVars, threadVars, sleepVars, clockVars
<1>7. Covered'
  <2>1. OnTheWay => OnTheWay'
    BY DEF Refresh, OnTheWay, clientVars, threadVars, sleepVars
  <2>2. \A y \in m_timers' : y \in m_timers /\ (~wasBack => m_next[y] <= m_next'[y])
    BY DEF IInv, SetConsistent, TypeOK, Started, Refresh
  <2> QED BY <1>1, <2>1, <2>2, CoverKept DEF Refresh, threadVars, sleepVars, clockVars
<1> QED BY <1>1, <1>2, <1>3, <1>4, <1>5, <1>6, <1>7 DEF IInv, SetConsistent

\* Timer::reset takes the timer out and puts it in again under its new key.
LEMMA ResetInv ==
  ASSUME IInv, NEW c \in Clients, NEW x \in Timers, NEW ms \in Periods,
         NEW b \in BOOLEAN,
         Reset(c, x, ms, b)
  PROVE  IInv'
<1>1. TypeOK'
  <2>1. m_next' \in [Timers -> Nat] /\ m_ms' \in [Timers -> Nat]
    BY ConstantsNat DEF IInv, SetConsistent, TypeOK, Started, Reset
  <2>2. /\ m_timers' \subseteq Timers /\ skey' \in [Timers -> Nat]
        /\ cpc' \in [Clients -> {"ready", "insert", "tickle"}]
    BY <2>1 DEF IInv, SetConsistent, TypeOK, Reset, Insert
  <2>3. m_tickled' \in BOOLEAN
    BY DEF IInv, SetConsistent, TypeOK, Reset, Insert
  <2>4. UNCHANGED <<m_recurring, m_cb, stage, cancelled, cx, tpc, next_timeout, left,
          lost, now, cbs, clock,
                    setBack, wasBack, m_previouseTime, edge>>
    BY DEF Reset, threadVars, sleepVars, clockVars
  <2> QED BY <2>1, <2>2, <2>3, <2>4 DEF IInv, SetConsistent, TypeOK
<1>2. TimerInSet' /\ KeysCurrent'
  BY DEF IInv, SetConsistent, TypeOK, TimerInSet, KeysCurrent, InSet, Adding, Reset,
     Insert, InSet, timerVars, setVars, clientVars, threadVars, sleepVars, clockVars
<1>3. Adding'
  BY DEF IInv, SetConsistent, TypeOK, Adding, Reset, Insert, InSet, timerVars, setVars,
     clientVars, threadVars, sleepVars, clockVars
<1>4. Started'
  BY ConstantsNat DEF IInv, SetConsistent, TypeOK, Started, Reset, Insert, InSet,
     timerVars, setVars, clientVars, threadVars, sleepVars, clockVars
<1>5. Collected'
  BY DEF IInv, SetConsistent, TypeOK, TimerInSet, KeysCurrent, InSet, Adding, Collected,
     CancelIsFinal, Reset, Insert, InSet, timerVars, setVars, clientVars, threadVars,
     sleepVars,
     clockVars
<1>6. Scanned'
  BY DEF IInv, SetConsistent, TypeOK, Scanned, Reset, Insert, InSet, timerVars, setVars,
     clientVars, threadVars, sleepVars, clockVars
<1>7. Covered'
  <2>1. \A y \in m_timers \ {x} : m_next'[y] = m_next[y]
    BY DEF IInv, SetConsistent, TypeOK, Reset
  <2>2. Insert(c, x, m_timers \ {x}, m_next') /\ cpc[c] # "tickle"
    BY DEF Reset
  <2> QED BY <1>1, <2>1, <2>2, InsertCovers DEF Reset, threadVars, sleepVars, clockVars
<1> QED BY <1>1, <1>2, <1>3, <1>4, <1>5, <1>6, <1>7 DEF IInv, SetConsistent

\* A thread finds no task.
LEMMA EnterIdleInv ==
  ASSUME IInv, NEW t \in Threads, EnterIdle(t)
  PROVE  IInv'
<1>1. TypeOK'
  BY DEF IInv, SetConsistent, TypeOK, Started, EnterIdle, timerVars, setVars,
     clientVars, threadVars, sleepVars, clockVars
<1>2. TimerInSet' /\ KeysCurrent'
  BY DEF IInv, SetConsistent, TypeOK, TimerInSet, KeysCurrent, InSet, Adding, EnterIdle,
     timerVars, setVars, clientVars, threadVars, sleepVars, clockVars
<1>3. Adding'
  BY DEF IInv, SetConsistent, TypeOK, Adding, EnterIdle, timerVars, setVars, clientVars,
     threadVars, sleepVars, clockVars
<1>4. Started'
  BY DEF IInv, SetConsistent, TypeOK, Started, EnterIdle, timerVars, setVars,
     clientVars, threadVars, sleepVars, clockVars
<1>5. Collected'
  BY DEF IInv, SetConsistent, TypeOK, TimerInSet, KeysCurrent, InSet, Adding, Collected,
     CancelIsFinal, EnterIdle, timerVars, setVars, clientVars, threadVars, sleepVars,
     clockVars
<1>6. Scanned'
  BY DEF IInv, SetConsistent, TypeOK, Scanned, EnterIdle, timerVars, setVars,
     clientVars, threadVars, sleepVars, clockVars
<1>7. Covered'
  BY DEF IInv, SetConsistent, TypeOK, Covered, OnTheWay, Remaining, EnterIdle,
     timerVars, setVars, clientVars, threadVars, sleepVars, clockVars
<1> QED BY <1>1, <1>2, <1>3, <1>4, <1>5, <1>6, <1>7 DEF IInv, SetConsistent

\* getNextTimer: the thread sleeps until the earliest timer, and front insertions
\* have to tickle from now on.
LEMMA GetNextTimerInv ==
  ASSUME IInv, NEW t \in Threads, GetNextTimer(t)
  PROVE  IInv'
<1>left. /\ left'[t] \in Int /\ left'[t] >= -1 /\ left' = [left EXCEPT ![t] = left'[t]]
         /\ next_timeout' = [next_timeout EXCEPT ![t] = left'[t]]
         /\ lost' = [lost EXCEPT ![t] = 0]
  <2> DEFINE wait == IF m_timers = {} THEN MAX_TIMEOUT
                     ELSE EpollTimeoutArg(Max({Earliest - clock, 0}))
  <2>1. wait \in Int
    BY ConstantsNat, SleepType DEF IInv, SetConsistent
  <2>2. /\ next_timeout' = [next_timeout EXCEPT ![t] = IF wait < 0 THEN -1 ELSE wait]
        /\ left' = [left EXCEPT ![t] = next_timeout'[t]]
        /\ lost' = [lost EXCEPT ![t] = 0]
    BY DEF GetNextTimer
  <2> HIDE DEF wait
  <2> QED BY <2>1, <2>2 DEF IInv, SetConsistent, TypeOK
<1>1. TypeOK'
  <2>1. /\ left' \in [Threads -> Int] /\ next_timeout' \in [Threads -> Int]
        /\ lost' \in [Threads -> Nat]
    BY <1>left DEF IInv, SetConsistent, TypeOK
  <2>2. /\ m_tickled' \in BOOLEAN
        /\ tpc' \in [Threads -> {"busy", "idle", "sleep", "list", "run"}]
    BY DEF IInv, SetConsistent, TypeOK, GetNextTimer
  <2>3. UNCHANGED <<timerVars, setVars, clientVars, now, cbs, clockVars,
                    m_previouseTime, edge>>
    BY DEF GetNextTimer
  <2> QED BY <2>1, <2>2, <2>3 DEF IInv, SetConsistent, TypeOK, timerVars, setVars,
     clientVars, clockVars
<1>2. TimerInSet' /\ KeysCurrent'
  BY DEF IInv, SetConsistent, TypeOK, TimerInSet, KeysCurrent, InSet, Adding,
     GetNextTimer, timerVars, setVars, clientVars, threadVars, sleepVars, clockVars
<1>3. Adding'
  BY DEF IInv, SetConsistent, TypeOK, Adding, GetNextTimer, timerVars, setVars,
     clientVars, threadVars, sleepVars, clockVars
<1>4. Started'
  BY DEF IInv, SetConsistent, TypeOK, Started, GetNextTimer, timerVars, setVars,
     clientVars, threadVars, sleepVars, clockVars
<1>5. Collected'
  BY DEF IInv, SetConsistent, TypeOK, TimerInSet, KeysCurrent, InSet, Adding, Collected,
     CancelIsFinal, GetNextTimer, timerVars, setVars, clientVars, threadVars,
     sleepVars, clockVars
<1>6. Scanned'
  BY DEF IInv, SetConsistent, TypeOK, Scanned, GetNextTimer, timerVars, setVars,
     clientVars, threadVars, sleepVars, clockVars
<1>7. Covered'
  <2>1. \A u \in Threads : /\ left'[u] >= -1 /\ left'[u] <= next_timeout'[u]
                           /\ left'[u] = -1 => next_timeout'[u] = -1
    BY <1>left DEF IInv, SetConsistent, TypeOK, Covered
  <2>2. ASSUME PeriodsFit, ~wasBack
        PROVE  left'[t] # -1 /\ \A x \in m_timers : left'[t] <= Remaining(x) + lost'[t]
    <3>1. CASE m_timers = {}
      <4>1. next_timeout' = [next_timeout EXCEPT
              ![t] = IF MAX_TIMEOUT < 0 THEN -1 ELSE MAX_TIMEOUT]
        BY <3>1 DEF GetNextTimer
      <4>2. left'[t] = next_timeout'[t]
        BY <1>left DEF IInv, SetConsistent, TypeOK
      <4> QED BY <3>1, <4>1, <4>2, ConstantsNat DEF IInv, SetConsistent, TypeOK
    <3>2. CASE m_timers # {}
      <4> DEFINE wait == EpollTimeoutArg(Max({Earliest - clock, 0}))
      <4>1. /\ wait \in Nat
            /\ \A x \in m_timers : wait <= Remaining(x)
        BY <2>2, <3>2, SleepInTime
      <4>2. /\ next_timeout' = [next_timeout EXCEPT
                 ![t] = IF wait < 0 THEN -1 ELSE wait]
            /\ left' = [left EXCEPT ![t] = next_timeout'[t]]
            /\ lost' = [lost EXCEPT ![t] = 0]
        BY <3>2 DEF GetNextTimer
      <4>3. \A x \in m_timers : Remaining(x) \in Nat
        BY DEF IInv, SetConsistent, TypeOK, Remaining
      <4> HIDE DEF wait
      <4>4. left'[t] = wait /\ lost'[t] = 0
        BY <4>1, <4>2 DEF IInv, SetConsistent, TypeOK
      <4> QED BY <4>1, <4>3, <4>4
    <3> QED BY <3>1, <3>2
  <2>3. m_tickled' = FALSE /\ UNCHANGED <<m_timers, m_next, clock, wasBack>>
    BY DEF GetNextTimer, timerVars, setVars, clockVars
  <2> QED BY <2>1, <2>2, <2>3 DEF Covered, Remaining
<1> QED BY <1>1, <1>2, <1>3, <1>4, <1>5, <1>6, <1>7 DEF IInv, SetConsistent

\* EINTR: what is left of the sleep and what is lost of it grow together.
LEMMA InterruptedInv ==
  ASSUME IInv, NEW t \in Threads, Interrupted(t)
  PROVE  IInv'
<1>1. /\ left' = [left EXCEPT ![t] = next_timeout[t]]
      /\ lost' = [lost EXCEPT ![t] = @ + (next_timeout[t] - left[t])]
      /\ next_timeout[t] \in Int /\ left[t] \in Int /\ lost[t] \in Nat
      /\ left[t] >= -1 /\ left[t] <= next_timeout[t]
      /\ left[t] = -1 => next_timeout[t] = -1
  BY DEF Interrupted, IInv, SetConsistent, TypeOK, Covered
<1>2. UNCHANGED <<timerVars, setVars, clientVars, tpc, next_timeout, now, cbs,
                  clockVars, m_tickled, m_previouseTime, edge>>
  BY DEF Interrupted
<1>3. left' \in [Threads -> Int] /\ lost' \in [Threads -> Nat]
  BY <1>1 DEF IInv, SetConsistent, TypeOK
<1>4. TypeOK'
  BY <1>2, <1>3 DEF IInv, SetConsistent, TypeOK, timerVars, setVars, clientVars,
     clockVars
<1>5. TimerInSet' /\ KeysCurrent' /\ Adding' /\ Started' /\ Collected' /\ Scanned'
  BY <1>2 DEF IInv, SetConsistent, TimerInSet, KeysCurrent, InSet, Adding, Started,
     Collected, CancelIsFinal, Scanned, timerVars, setVars, clientVars, clockVars
<1>6. Covered'
  <2>1. \A u \in Threads : /\ left'[u] >= -1 /\ left'[u] <= next_timeout'[u]
                           /\ left'[u] = -1 => next_timeout'[u] = -1
    BY <1>1, <1>2 DEF IInv, SetConsistent, TypeOK, Covered
  <2>2. OnTheWay <=> OnTheWay'
    BY <1>2 DEF OnTheWay, clientVars
  <2>3. ASSUME NEW u \in Threads, left[u] # -1,
               \A x \in m_timers : left[u] <= Remaining(x) + lost[u]
        PROVE  left'[u] # -1 /\ \A x \in m_timers : left'[u] <= Remaining(x) + lost'[u]
    <3>1. left'[u] - lost'[u] = left[u] - lost[u] /\ left'[u] \in Int
          /\ lost'[u] \in Nat
      BY <1>1, <1>3 DEF IInv, SetConsistent, TypeOK
    <3>2. left'[u] # -1 /\ left[u] \in Int /\ lost[u] \in Nat
      BY <1>1, <2>3 DEF IInv, SetConsistent, TypeOK, Covered
    <3>3. \A x \in m_timers : Remaining(x) \in Nat
      BY DEF IInv, SetConsistent, TypeOK, Remaining
    <3> QED BY <2>3, <3>1, <3>2, <3>3
  <2>4. UNCHANGED <<m_timers, m_next, clock, wasBack, m_tickled>>
    BY <1>2 DEF timerVars, setVars, clockVars
  <2> QED BY <2>1, <2>2, <2>3, <2>4 DEF IInv, Covered, Remaining
<1> QED BY <1>4, <1>5, <1>6 DEF IInv, SetConsistent

\* epoll_wait returns, and the clock is read.
LEMMA WakeUpInv ==
  ASSUME IInv, NEW t \in Threads, WakeUp(t)
  PROVE  IInv'
<1>1. TypeOK'
  <2>1. /\ left' \in [Threads -> Int] /\ now' \in [Threads -> Nat]
        /\ next_timeout' \in [Threads -> Int] /\ lost' \in [Threads -> Nat]
        /\ tpc' \in [Threads -> {"busy", "idle", "sleep", "list", "run"}]
    BY DEF IInv, SetConsistent, TypeOK, WakeUp
  <2>2. edge' \in BOOLEAN
    BY DEF WakeUp
  <2>3. UNCHANGED <<timerVars, setVars, clientVars, cbs, clockVars, m_tickled,
                    m_previouseTime>>
    BY DEF WakeUp
  <2> QED BY <2>1, <2>2, <2>3 DEF IInv, SetConsistent, TypeOK, timerVars, setVars,
     clientVars, clockVars
<1>2. TimerInSet' /\ KeysCurrent'
  BY DEF IInv, SetConsistent, TypeOK, TimerInSet, KeysCurrent, InSet, Adding, WakeUp,
     timerVars, setVars, clientVars, threadVars, sleepVars, clockVars
<1>3. Adding'
  BY DEF IInv, SetConsistent, TypeOK, Adding, WakeUp, timerVars, setVars, clientVars,
     threadVars, sleepVars, clockVars
<1>4. Started'
  BY DEF IInv, SetConsistent, TypeOK, Started, WakeUp, timerVars, setVars, clientVars,
     threadVars, sleepVars, clockVars
<1>5. Collected'
  BY DEF IInv, SetConsistent, TypeOK, TimerInSet, KeysCurrent, InSet, Adding, Collected,
     CancelIsFinal, WakeUp, timerVars, setVars, clientVars, threadVars, sleepVars,
     clockVars
<1>6. Scanned'
  BY ConstantsNat DEF IInv, SetConsistent, TypeOK, Scanned, WakeUp, timerVars, setVars,
     clientVars, threadVars, sleepVars, clockVars
<1>7. Covered'
  BY DEF IInv, SetConsistent, TypeOK, Covered, OnTheWay, Remaining, WakeUp, timerVars,
     setVars, clientVars, threadVars, sleepVars, clockVars
<1> QED BY <1>1, <1>2, <1>3, <1>4, <1>5, <1>6, <1>7 DEF IInv, SetConsistent

\* listExpiredCb: what it takes out of the set loses its callback or starts anew.
LEMMA ListExpiredCbInv ==
  ASSUME IInv, NEW t \in Threads, ListExpiredCb(t)
  PROVE  IInv'
<1>1. TypeOK'
  BY ConstantsNat DEF IInv, SetConsistent, TypeOK, Started, ListExpiredCb, Expired,
     timerVars, setVars, clientVars, threadVars, sleepVars, clockVars
<1>2. TimerInSet' /\ KeysCurrent'
  BY DEF IInv, SetConsistent, TypeOK, TimerInSet, KeysCurrent, InSet, Adding,
     ListExpiredCb, Expired, timerVars, setVars, clientVars, threadVars, sleepVars,
     clockVars
<1>3. Adding'
  <2>1. \A x \in Timers : stage[x] = "made" => m_cb'[x] = m_cb[x]
    BY DEF IInv, SetConsistent, TypeOK, KeysCurrent, ListExpiredCb, Expired
  <2> QED BY <2>1 DEF IInv, SetConsistent, TypeOK, Adding, ListExpiredCb, clientVars
<1>4. Started'
  <2>1. \A x \in Timers : m_next'[x] = m_next[x] \/ m_next'[x] = now[t] + m_ms[x]
    BY DEF IInv, SetConsistent, TypeOK, ListExpiredCb
  <2>2. now[t] \in Nat /\ clock \in Nat /\ now[t] <= clock
    BY DEF IInv, SetConsistent, TypeOK, Scanned, ListExpiredCb
  <2>3. UNCHANGED <<m_ms, clock, wasBack>>
    BY DEF ListExpiredCb
  <2> QED BY <2>1, <2>2, <2>3 DEF IInv, SetConsistent, TypeOK, Started
<1>5. Collected'
  BY DEF IInv, SetConsistent, TypeOK, TimerInSet, KeysCurrent, InSet, Adding, Collected,
     CancelIsFinal, ListExpiredCb, Expired, timerVars, setVars, clientVars,
     threadVars, sleepVars,
     clockVars
<1>6. Scanned'
  BY ConstantsNat DEF IInv, SetConsistent, TypeOK, Scanned, ListExpiredCb, Expired,
     timerVars, setVars, clientVars, threadVars, sleepVars, clockVars
<1>7. Covered'
  BY DEF IInv, SetConsistent, TypeOK, Covered, OnTheWay, Remaining, ListExpiredCb,
     Expired, timerVars, setVars, clientVars, threadVars, sleepVars, clockVars
<1> QED BY <1>1, <1>2, <1>3, <1>4, <1>5, <1>6, <1>7 DEF IInv, SetConsistent

\* The callbacks that were collected are scheduled.
LEMMA ScheduleCbsInv ==
  ASSUME IInv, NEW t \in Threads, ScheduleCbs(t)
  PROVE  IInv'
<1>1. TypeOK'
  BY DEF IInv, SetConsistent, TypeOK, Started, ScheduleCbs, timerVars, setVars,
     clientVars, threadVars, sleepVars, clockVars
<1>2. TimerInSet' /\ KeysCurrent'
  BY DEF IInv, SetConsistent, TypeOK, TimerInSet, KeysCurrent, InSet, Adding,
     ScheduleCbs, timerVars, setVars, clientVars, threadVars, sleepVars, clockVars
<1>3. Adding'
  BY DEF IInv, SetConsistent, TypeOK, Adding, ScheduleCbs, timerVars, setVars,
     clientVars, threadVars, sleepVars, clockVars
<1>4. Started'
  BY DEF IInv, SetConsistent, TypeOK, Started, ScheduleCbs, timerVars, setVars,
     clientVars, threadVars, sleepVars, clockVars
<1>5. Collected'
  BY DEF IInv, SetConsistent, TypeOK, TimerInSet, KeysCurrent, InSet, Adding, Collected,
     CancelIsFinal, ScheduleCbs, timerVars, setVars, clientVars, threadVars,
     sleepVars, clockVars
<1>6. Scanned'
  BY DEF IInv, SetConsistent, TypeOK, Scanned, ScheduleCbs, timerVars, setVars,
     clientVars, threadVars, sleepVars, clockVars
<1>7. Covered'
  BY DEF IInv, SetConsistent, TypeOK, Covered, OnTheWay, Remaining, ScheduleCbs,
     timerVars, setVars, clientVars, threadVars, sleepVars, clockVars
<1> QED BY <1>1, <1>2, <1>3, <1>4, <1>5, <1>6, <1>7 DEF IInv, SetConsistent

\* The clock and the sleepers advance together.
LEMMA TickInv ==
  ASSUME IInv, Tick
  PROVE  IInv'
<1>1. TypeOK'
  BY DEF IInv, SetConsistent, TypeOK, Started, Tick, timerVars, setVars, clientVars,
     threadVars, sleepVars, clockVars
<1>2. TimerInSet' /\ KeysCurrent'
  BY DEF IInv, SetConsistent, TypeOK, TimerInSet, KeysCurrent, InSet, Adding, Tick,
     timerVars, setVars, clientVars, threadVars, sleepVars, clockVars
<1>3. Adding'
  BY DEF IInv, SetConsistent, TypeOK, Adding, Tick, timerVars, setVars, clientVars,
     threadVars, sleepVars, clockVars
<1>4. Started'
  BY DEF IInv, SetConsistent, TypeOK, Started, Tick, timerVars, setVars, clientVars,
     threadVars, sleepVars, clockVars
<1>5. Collected'
  BY DEF IInv, SetConsistent, TypeOK, TimerInSet, KeysCurrent, InSet, Adding, Collected,
     CancelIsFinal, Tick, timerVars, setVars, clientVars, threadVars, sleepVars,
     clockVars
<1>6. Scanned'
  BY ConstantsNat DEF IInv, SetConsistent, TypeOK, Scanned, Tick, timerVars, setVars,
     clientVars, threadVars, sleepVars, clockVars
<1>7. Covered'
  <2>1. OnTheWay => OnTheWay'
    BY DEF Tick, OnTheWay, clientVars
  <2>2. ASSUME ~OnTheWay, NEW t \in Threads, left[t] # -1,
               \A x \in m_timers : left[t] <= Remaining(x) + lost[t]
        PROVE  left'[t] # -1 /\ \A x \in m_timers : left'[t] <= Remaining(x)' + lost'[t]
    BY <2>2 DEF IInv, SetConsistent, TypeOK, Covered, OnTheWay, Remaining, Tick,
       timerVars
  <2>3. \A t \in Threads : /\ left'[t] >= -1 /\ left'[t] <= next_timeout'[t]
                           /\ left'[t] = -1 => next_timeout'[t] = -1
    BY DEF IInv, SetConsistent, TypeOK, Covered, Tick
  <2> QED BY <2>1, <2>2, <2>3 DEF IInv, Covered, Tick, setVars
<1> QED BY <1>1, <1>2, <1>3, <1>4, <1>5, <1>6, <1>7 DEF IInv, SetConsistent

\* The clock is set back while nobody has read it for a scan.
LEMMA SetClockBackInv ==
  ASSUME IInv, NEW d \in SetBacks, SetClockBack(d)
  PROVE  IInv'
<1>1. TypeOK'
  BY ConstantsNat DEF IInv, SetConsistent, TypeOK, Started, SetClockBack, timerVars,
     setVars, clientVars, threadVars, sleepVars, clockVars
<1>2. TimerInSet' /\ KeysCurrent'
  BY DEF IInv, SetConsistent, TypeOK, TimerInSet, KeysCurrent, InSet, Adding,
     SetClockBack, timerVars, setVars, clientVars, threadVars, sleepVars, clockVars
<1>3. Adding'
  BY DEF IInv, SetConsistent, TypeOK, Adding, SetClockBack, timerVars, setVars,
     clientVars, threadVars, sleepVars, clockVars
<1>4. Started'
  BY DEF IInv, SetConsistent, TypeOK, Started, SetClockBack, timerVars, setVars,
     clientVars, threadVars, sleepVars, clockVars
<1>5. Collected'
  BY DEF IInv, SetConsistent, TypeOK, TimerInSet, KeysCurrent, InSet, Adding, Collected,
     CancelIsFinal, SetClockBack, timerVars, setVars, clientVars, threadVars,
     sleepVars, clockVars
<1>6. Scanned'
  BY ConstantsNat DEF IInv, SetConsistent, TypeOK, Scanned, SetClockBack, timerVars,
     setVars, clientVars, threadVars, sleepVars, clockVars
<1>7. Covered'
  BY DEF IInv, SetConsistent, TypeOK, Covered, OnTheWay, Remaining, SetClockBack,
     timerVars, setVars, clientVars, threadVars, sleepVars, clockVars
<1> QED BY <1>1, <1>2, <1>3, <1>4, <1>5, <1>6, <1>7 DEF IInv, SetConsistent

\* There is no timer, and all threads are busy.
LEMMA InitInv == Init => IInv
<1> SUFFICES ASSUME Init PROVE IInv
  OBVIOUS
<1>1. TypeOK
  <2>1. \A c \in Clients : cx[c] \in Timers
    BY AnyTimerIs DEF Init
  <2>2. cx \in [Clients -> Timers]
    BY <2>1 DEF Init
  <2>3. /\ clock \in Nat /\ m_previouseTime \in Nat /\ setBack \in Nat
        /\ now \in [Threads -> Nat] /\ left \in [Threads -> Int]
        /\ next_timeout \in [Threads -> Int] /\ lost \in [Threads -> Nat]
        /\ m_next \in [Timers -> Nat] /\ m_ms \in [Timers -> Nat]
        /\ skey \in [Timers -> Nat]
    BY ConstantsNat DEF Init
  <2>4. /\ m_recurring \in [Timers -> BOOLEAN] /\ m_cb \in [Timers -> BOOLEAN]
        /\ cancelled \in [Timers -> BOOLEAN] /\ m_tickled \in BOOLEAN
        /\ edge \in BOOLEAN
        /\ wasBack \in BOOLEAN /\ m_timers \subseteq Timers
        /\ cbs \in [Threads -> SUBSET Timers]
    BY DEF Init
  <2>5. /\ stage \in [Timers -> {"none", "made", "live"}]
        /\ cpc \in [Clients -> {"ready", "insert", "tickle"}]
        /\ tpc \in [Threads -> {"busy", "idle", "sleep", "list", "run"}]
    BY DEF Init
  <2> QED BY <2>2, <2>3, <2>4, <2>5 DEF TypeOK
<1>2. TimerInSet /\ KeysCurrent /\ Adding /\ Collected
  BY DEF Init, TimerInSet, InSet, KeysCurrent, Adding, Collected, CancelIsFinal
<1>3. Started /\ Scanned
  BY ConstantsNat DEF Init, Started, Scanned
<1>4. Covered
  BY TimerConstants DEF Init, Covered, OnTheWay
<1> QED BY <1>1, <1>2, <1>3, <1>4 DEF IInv, SetConsistent

\* Every step of a client, of a thread and of the clock keeps IInv.
LEMMA NextInv == IInv /\ [Next]_vars => IInv'
<1> SUFFICES ASSUME IInv, [Next]_vars PROVE IInv'
  OBVIOUS
<1>1. CASE UNCHANGED vars
  BY <1>1 DEF IInv, SetConsistent, TypeOK, TimerInSet, InSet, KeysCurrent, Adding,
     Started, Collected, CancelIsFinal, Scanned, Covered, OnTheWay, Remaining, vars,
     timerVars, setVars, clientVars, threadVars, sleepVars, clockVars
<1>2. ASSUME NEW c \in Clients, ClientStep(c) PROVE IInv'
  BY <1>2, AddTimerInv, TickleInv, CancelInv, RefreshInv, NewTimerInv, ResetInv DEF
     ClientStep
<1>3. ASSUME NEW t \in Threads, ThreadStep(t) PROVE IInv'
  BY <1>3, EnterIdleInv, GetNextTimerInv, InterruptedInv, WakeUpInv,
     ListExpiredCbInv, ScheduleCbsInv
     DEF ThreadStep
<1>4. CASE Tick
  BY <1>4, TickInv
<1>5. ASSUME NEW d \in SetBacks, SetClockBack(d) PROVE IInv'
  BY <1>5, SetClockBackInv
<1> QED BY <1>1, <1>2, <1>3, <1>4, <1>5 DEF Next

\* IInv holds in every reachable state of the timer manager.
THEOREM TimersAccounted == Spec => []IInv
BY InitInv, NextInv, PTL DEF Spec

\* The std::set of timers is consistent, whatever addTimer, cancel, refresh, reset and
\* listExpiredCb do to it: find() finds a timer exactly when it has a callback.
THEOREM SetIsConsistent == Spec => []SetConsistent
<1>1. IInv => SetConsistent
  BY DEF IInv
<1> QED BY <1>1, TimersAccounted, PTL

\* A one-shot timer whose cancel() returned true is not about to be scheduled.
THEOREM CancelledForGood == Spec => []CancelIsFinal
<1>1. IInv => CancelIsFinal
  BY DEF IInv, Collected
<1> QED BY <1>1, TimersAccounted, PTL

\* When all threads sleep and no wake-up is on its way, one wakes up in time for the
\* earliest timer, or late by what it slept before signals interrupted it, if every
\* period fits into an int, to which idle() converts it.
THEOREM SleepersWakeInTime ==
  ASSUME PeriodsFit
  PROVE  Spec => []SleepersCovered
<1>1. ASSUME IInv PROVE SleepersCovered
  <2>1. SUFFICES ASSUME ~wasBack, \A t \in Threads : tpc[t] = "sleep", ~edge,
                        \A c \in Clients : cpc[c] # "tickle", m_timers # {}
                 PROVE  \E t \in Threads : left[t] # -1
                        /\ left[t] <= Max({Earliest - clock, 0}) + lost[t]
    BY DEF SleepersCovered
  <2>2. PICK t \in Threads : /\ left[t] # -1
                            /\ \A x \in m_timers : left[t] <= Remaining(x) + lost[t]
    BY <1>1, <2>1, PeriodsFit DEF IInv, Covered, OnTheWay
  <2>3. PICK x \in m_timers : Earliest = m_next[x]
    BY <1>1, <2>1, EarliestFirst DEF IInv, SetConsistent
  <2>4. Remaining(x) = Max({Earliest - clock, 0})
    BY <1>1, <2>3, MaxWithZero DEF IInv, SetConsistent, TypeOK, Remaining
  <2> QED BY <2>2, <2>4
<1> QED BY <1>1, TimersAccounted, PTL

\* A scan collects no callback before its time, unless the clock was set back by more
\* than an hour: only listExpiredCb collects, and the time it works with is past.
LEMMA ScanNotEarly ==
  ASSUME IInv, [Next]_vars, NEW t \in Threads, NEW x \in Timers, x \in cbs'[t] \ cbs[t]
  PROVE  m_next[x] <= clock \/ setBack > Hour
<1>1. ListExpiredCb(t)
  <2>1. CASE UNCHANGED vars
    BY <2>1 DEF vars, threadVars, sleepVars
  <2>2. ASSUME NEW c \in Clients, ClientStep(c) PROVE FALSE
    BY <2>2 DEF ClientStep, AddTimer, Tickle, Cancel, Refresh, NewTimer, Reset,
       threadVars, sleepVars
  <2>3. ASSUME NEW u \in Threads, ThreadStep(u), ~ListExpiredCb(t) PROVE FALSE
    BY <2>3 DEF ThreadStep, EnterIdle, GetNextTimer, Interrupted, WakeUp,
     ListExpiredCb, ScheduleCbs,
       IInv, SetConsistent, TypeOK
  <2>4. ASSUME Tick \/ \E d \in SetBacks : SetClockBack(d) PROVE FALSE
    BY <2>4 DEF Tick, SetClockBack, threadVars, sleepVars
  <2> QED BY <2>1, <2>2, <2>3, <2>4 DEF Next
<1>2. x \in Expired(now[t]) /\ tpc[t] = "list"
  BY <1>1 DEF ListExpiredCb, IInv, SetConsistent, TypeOK
<1>3. /\ now[t] <= clock /\ clock <= now[t] + Hour
      /\ m_previouseTime <= now[t] + setBack \/ m_previouseTime <= now[t] + Hour
  BY <1>2 DEF IInv, Scanned
<1>4. /\ m_next[x] \in Nat /\ now[t] \in Nat /\ clock \in Nat /\ setBack \in Nat
      /\ m_previouseTime \in Nat /\ Hour \in Nat
  BY ConstantsNat DEF IInv, SetConsistent, TypeOK
<1>5. CASE Rollover(now[t])
  BY <1>3, <1>4, <1>5 DEF Rollover
<1>6. CASE ~Rollover(now[t])
  BY <1>2, <1>3, <1>4, <1>6 DEF Expired
<1> QED BY <1>5, <1>6

\* No callback is collected before its time, although listExpiredCb reads the clock
\* before it has the lock.
THEOREM NeverEarly == Spec => NotEarly
<1>1. IInv /\ [Next]_vars =>
        [\A t \in Threads, x \in Timers :
           x \in cbs'[t] \ cbs[t] => m_next[x] <= clock \/ setBack > Hour]_vars
  BY ScanNotEarly
<1> QED BY <1>1, TimersAccounted, PTL DEF Spec, NotEarly
=============================================================================
