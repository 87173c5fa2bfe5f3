---------------------------- MODULE TimerManager ----------------------------
(***************************************************************************)
(* HPS::Timer and HPS::TimerManager (timer.h, timer.cc) together with the  *)
(* threads that sleep until the next timer in IOManager::idle.             *)
(*                                                                         *)
(* A timer is an object that its user keeps a pointer to; it is in the     *)
(* set m_timers, ordered by m_next, as long as it has something to run.    *)
(* Clients add, cancel, refresh and reset timers; idle threads ask for     *)
(* the time to the next one, sleep in epoll_wait for that long, and        *)
(* collect the callbacks of the expired ones.  A sleeper does not see a    *)
(* timer that is added later: the client that puts one at the front of     *)
(* the set has to tickle, once for all clients (m_tickled) until some      *)
(* thread asks for the next timer again.                                   *)
(*                                                                         *)
(* GetCurrentMS is the wall clock: it can be set back.                     *)
(***************************************************************************)
EXTENDS Integers, FiniteSets, FiniteSetsExt

CONSTANTS
  Timers,      \* the Timer objects
  Threads,     \* the threads that run IOManager::idle
  Clients,     \* the threads that call Timer and TimerManager
  Periods,     \* the values of ms that clients pass
  MAX_TIMEOUT, \* longest sleep in epoll_wait (3000 ms)
  Hour,        \* how far back is a rollover (60*60*1000 ms)
  IntMax,      \* largest int
  SetBacks,    \* by how much somebody sets the clock back
  Start,       \* the clock when the TimerManager is made
  MaxClock     \* bound on the clock, and on how far back it is set in total

ASSUME TimerConstants ==
  /\ Periods \subseteq Nat
  /\ SetBacks \subseteq Nat
  /\ {MAX_TIMEOUT, Hour, IntMax, Start, MaxClock} \subseteq Nat
  /\ MAX_TIMEOUT <= IntMax
  /\ Hour <= Start
  /\ IsFiniteSet(Timers) /\ Timers # {}
  /\ Threads # {}                \* scheduler.cc: ASSERT(threads > 0)

VARIABLES
  clock,           \* GetCurrentMS()
  m_next,          \* Timer::m_next
  m_ms,            \* Timer::m_ms
  m_recurring,     \* Timer::m_recurring
  m_cb,            \* Timer::m_cb is not empty
  m_timers,        \* the timers in the set
  skey,            \* the m_next under which a timer was put into the set
  m_tickled,
  m_previouseTime,
  stage,           \* none: no object; made: constructed; live: addTimer returned
  cpc,             \* where a client is: ready, insert, tickle
  cx,              \* the timer a client is adding
  tpc,             \* where a thread is: busy, idle, sleep, list, run
  next_timeout,    \* idle()'s local: the timeout of epoll_wait, -1 for never
  left,            \* time left until epoll_wait returns, -1 for never
  lost,            \* how long a thread has slept before it was interrupted
  now,             \* listExpiredCb's local now_ms
  cbs,             \* the callbacks a thread has collected and not scheduled yet
  edge,            \* an unreported write to the tickle pipe
  cancelled,       \* timers whose cancel() has returned true
  setBack,         \* by how much the clock went back since the last scan
  wasBack          \* whether it ever went back

timerVars == <<m_next, m_ms, m_recurring, m_cb, stage, cancelled>>
setVars == <<m_timers, skey>>
clientVars == <<cpc, cx>>
sleepVars == <<next_timeout, left, lost>>
threadVars == <<tpc, sleepVars, now, cbs>>
clockVars == <<clock, setBack, wasBack>>
vars == <<timerVars, setVars, clientVars, threadVars, clockVars, m_tickled,
          m_previouseTime, edge>>

-----------------------------------------------------------------------------
(***************************************************************************)
(* The ordered set                                                         *)
(***************************************************************************)

\* m_timers.find(x): the search goes by the current m_next
InSet(x) == x \in m_timers /\ skey[x] = m_next[x]

\* x is (or would be) m_timers.begin(); among equal m_next the address decides
AtFront(x, timers, next) ==
  \/ \A y \in timers \ {x} : next[x] < next[y]
  \/ /\ \A y \in timers \ {x} : next[x] <= next[y]
     /\ x = CHOOSE y \in timers \cup {x} : next[y] = next[x]

Earliest == Min({m_next[x] : x \in m_timers})

\* addTimer(timer, lock) by client c: insert, and see whether to tickle
Insert(c, x, timers, next) ==
  /\ m_timers' = timers \cup {x}
  /\ skey' = [skey EXCEPT ![x] = next[x]]
  /\ IF AtFront(x, timers, next) /\ ~m_tickled
       THEN /\ m_tickled' = TRUE
            /\ cpc' = [cpc EXCEPT ![c] = "tickle"]
       ELSE /\ cpc' = [cpc EXCEPT ![c] = "ready"]
            /\ UNCHANGED m_tickled

-----------------------------------------------------------------------------
(***************************************************************************)
(* Clients                                                                 *)
(***************************************************************************)

\* What cx is while it means nothing
AnyTimer == CHOOSE x \in Timers : TRUE

\* addTimer: the constructor reads the clock before the lock is taken
NewTimer(c, x, ms, recurring) ==
  /\ cpc[c] = "ready"
  /\ stage[x] = "none"
  /\ stage' = [stage EXCEPT ![x] = "made"]
  /\ m_ms' = [m_ms EXCEPT ![x] = ms]
  /\ m_next' = [m_next EXCEPT ![x] = clock + ms]
  /\ m_recurring' = [m_recurring EXCEPT ![x] = recurring]
  /\ m_cb' = [m_cb EXCEPT ![x] = TRUE]
  /\ cpc' = [cpc EXCEPT ![c] = "insert"]
  /\ cx' = [cx EXCEPT ![c] = x]
  /\ UNCHANGED <<setVars, threadVars, clockVars, m_tickled, m_previouseTime,
                 edge, cancelled>>

\* addTimer: the part under the write lock
AddTimer(c) ==
  /\ cpc[c] = "insert"
  /\ Insert(c, cx[c], m_timers, m_next)
  /\ stage' = [stage EXCEPT ![cx[c]] = "live"]
  /\ cx' = [cx EXCEPT ![c] = AnyTimer]
  /\ UNCHANGED <<m_next, m_ms, m_recurring, m_cb, cancelled, threadVars, clockVars,
                 m_previouseTime, edge>>

\* onTimerInsertedAtFront = IOManager::tickle: a write if some thread is idle
Tickle(c) ==
  /\ cpc[c] = "tickle"
  /\ cpc' = [cpc EXCEPT ![c] = "ready"]
  /\ edge' = (edge \/ \E t \in Threads : tpc[t] # "busy")
  /\ UNCHANGED <<timerVars, setVars, cx, threadVars, clockVars, m_tickled,
                 m_previouseTime>>

\* Timer::cancel.  erase(end()) would be undefined: see TimerInSet.
Cancel(c, x) ==
  /\ cpc[c] = "ready"
  /\ stage[x] = "live"
  /\ m_cb[x]
  /\ m_cb' = [m_cb EXCEPT ![x] = FALSE]
  /\ m_timers' = m_timers \ {x}
  /\ cancelled' = [cancelled EXCEPT ![x] = TRUE]
  /\ UNCHANGED <<m_next, m_ms, m_recurring, stage, skey, clientVars,
                 threadVars, clockVars, m_tickled, m_previouseTime, edge>>

\* Mutant: refresh changes the key of a timer inside the set
RefreshInPlace(c, x) ==
  /\ cpc[c] = "ready"
  /\ stage[x] = "live"
  /\ m_cb[x]
  /\ InSet(x)
  /\ m_next' = [m_next EXCEPT ![x] = clock + m_ms[x]]
  /\ UNCHANGED <<m_ms, m_recurring, m_cb, stage, cancelled, setVars, clientVars,
                 threadVars, clockVars, m_tickled, m_previouseTime, edge>>

\* Timer::refresh: the timer starts anew, nobody is tickled
Refresh(c, x) ==
  /\ cpc[c] = "ready"
  /\ stage[x] = "live"
  /\ m_cb[x]
  /\ InSet(x)
  /\ m_next' = [m_next EXCEPT ![x] = clock + m_ms[x]]
  /\ skey' = [skey EXCEPT ![x] = clock + m_ms[x]]
  /\ UNCHANGED <<m_ms, m_recurring, m_cb, stage, cancelled, m_timers,
                 clientVars, threadVars, clockVars, m_tickled,
                 m_previouseTime, edge>>

\* Timer::reset(ms, from_now)
Reset(c, x, ms, from_now) ==
  /\ cpc[c] = "ready"
  /\ stage[x] = "live"
  /\ ms # m_ms[x] \/ from_now
  /\ m_cb[x]
  /\ InSet(x)
  /\ m_ms' = [m_ms EXCEPT ![x] = ms]
  /\ m_next' = [m_next EXCEPT ![x] = IF from_now THEN clock + ms
                                                 ELSE @ - m_ms[x] + ms]
  /\ Insert(c, x, m_timers \ {x}, m_next')
  /\ UNCHANGED <<m_recurring, m_cb, stage, cancelled, cx, threadVars,
                 clockVars, m_previouseTime, edge>>

-----------------------------------------------------------------------------
(***************************************************************************)
(* Threads in IOManager::idle                                              *)
(***************************************************************************)

\* A conversion of a uint64_t to int (two's complement)
ToInt(n) == LET m == n % (2 * (IntMax + 1))
            IN  IF m <= IntMax THEN m ELSE m - 2 * (IntMax + 1)

\* The timeout idle() passes to epoll_wait when getNextTimer() returned n
EpollTimeoutArg(n) == ToInt(IF ToInt(n) > MAX_TIMEOUT THEN MAX_TIMEOUT ELSE n)

\* run() found no task: ++m_idleThreadCount
EnterIdle(t) ==
  /\ tpc[t] = "busy"
  /\ tpc' = [tpc EXCEPT ![t] = "idle"]
  /\ UNCHANGED <<timerVars, setVars, clientVars, sleepVars, now, cbs, clockVars,
                 m_tickled, m_previouseTime, edge>>

\* Mutant: getNextTimer does not reset m_tickled
GetNextTimerTickled(t) ==
  LET wait == IF m_timers = {} THEN MAX_TIMEOUT
              ELSE EpollTimeoutArg(Max({Earliest - clock, 0}))
  IN
  /\ tpc[t] = "idle"
  /\ next_timeout' = [next_timeout EXCEPT ![t] = IF wait < 0 THEN -1 ELSE wait]
  /\ left' = [left EXCEPT ![t] = next_timeout'[t]]
  /\ lost' = [lost EXCEPT ![t] = 0]
  /\ tpc' = [tpc EXCEPT ![t] = "sleep"]
  /\ UNCHANGED <<timerVars, setVars, clientVars, now, cbs, clockVars,
                 m_tickled, m_previouseTime, edge>>

\* getNextTimer(), then epoll_wait; a negative timeout waits for ever
GetNextTimer(t) ==
  LET wait == IF m_timers = {} THEN MAX_TIMEOUT
              ELSE EpollTimeoutArg(Max({Earliest - clock, 0}))
  IN
  /\ tpc[t] = "idle"
  /\ m_tickled' = FALSE
  /\ next_timeout' = [next_timeout EXCEPT ![t] = IF wait < 0 THEN -1 ELSE wait]
  /\ left' = [left EXCEPT ![t] = next_timeout'[t]]
  /\ lost' = [lost EXCEPT ![t] = 0]
  /\ tpc' = [tpc EXCEPT ![t] = "sleep"]
  /\ UNCHANGED <<timerVars, setVars, clientVars, now, cbs, clockVars,
                 m_previouseTime, edge>>

\* A signal interrupts epoll_wait (EINTR): it is called again with the timeout of
\* the first call, whatever part of it is over.  MaxClock bounds the time lost.
Interrupted(t) ==
  /\ tpc[t] = "sleep"
  /\ left[t] # 0
  /\ left' = [left EXCEPT ![t] = next_timeout[t]]
  /\ lost' = [lost EXCEPT ![t] = @ + (next_timeout[t] - left[t])]
  /\ lost'[t] <= MaxClock
  /\ UNCHANGED <<timerVars, setVars, clientVars, tpc, next_timeout, now, cbs,
                 clockVars, m_tickled, m_previouseTime, edge>>

\* epoll_wait returns; listExpiredCb reads the clock before it takes the lock
WakeUp(t) ==
  /\ tpc[t] = "sleep"
  /\ edge \/ left[t] = 0
  /\ edge' = FALSE
  /\ next_timeout' = [next_timeout EXCEPT ![t] = 0]
  /\ left' = [left EXCEPT ![t] = 0]
  /\ lost' = [lost EXCEPT ![t] = 0]
  /\ now' = [now EXCEPT ![t] = clock]
  /\ tpc' = [tpc EXCEPT ![t] = "list"]
  /\ UNCHANGED <<timerVars, setVars, clientVars, cbs, clockVars,
                 m_tickled, m_previouseTime>>

\* detectClockRollover (m_previouseTime is at least Hour: no wrap-around)
Rollover(n) == n < m_previouseTime /\ n < m_previouseTime - Hour

\* Mutant: a timer expires a millisecond before its time
ExpiredEarly(n) ==
  IF Rollover(n) THEN m_timers ELSE {x \in m_timers : m_next[x] <= n + 1}

\* What listExpiredCb takes out of the set: everything up to now, or everything
Expired(n) ==
  IF Rollover(n) THEN m_timers ELSE {x \in m_timers : m_next[x] <= n}

\* Mutant: an expired one-shot timer keeps its callback
ListExpiredCbKeeps(t) ==
  LET expired == Expired(now[t])
      again == {x \in expired : m_recurring[x]}
      next == [x \in Timers |-> IF x \in again THEN now[t] + m_ms[x]
                                               ELSE m_next[x]]
  IN
  /\ tpc[t] = "list"
  /\ m_timers' = (m_timers \ expired) \cup again
  /\ m_next' = next
  /\ skey' = [x \in Timers |-> IF x \in again THEN next[x] ELSE skey[x]]
  /\ cbs' = [cbs EXCEPT ![t] = expired]
  /\ IF m_timers = {} THEN UNCHANGED <<m_previouseTime, setBack>>
                      ELSE m_previouseTime' = now[t] /\ setBack' = 0
  /\ now' = [now EXCEPT ![t] = Start]
  /\ tpc' = [tpc EXCEPT ![t] = "run"]
  /\ UNCHANGED <<m_ms, m_recurring, m_cb, stage, cancelled, clientVars, sleepVars,
                 clock, wasBack, m_tickled, edge>>

\* listExpiredCb under the write lock
ListExpiredCb(t) ==
  LET expired == Expired(now[t])
      again == {x \in expired : m_recurring[x]}
      next == [x \in Timers |-> IF x \in again THEN now[t] + m_ms[x]
                                               ELSE m_next[x]]
  IN
  /\ tpc[t] = "list"
  /\ m_timers' = (m_timers \ expired) \cup again
  /\ m_next' = next
  /\ skey' = [x \in Timers |-> IF x \in again THEN next[x] ELSE skey[x]]
  /\ m_cb' = [x \in Timers |-> m_cb[x] /\ x \notin expired \ again]
  /\ cbs' = [cbs EXCEPT ![t] = expired]
  /\ IF m_timers = {} THEN UNCHANGED <<m_previouseTime, setBack>>
                      ELSE m_previouseTime' = now[t] /\ setBack' = 0
  /\ now' = [now EXCEPT ![t] = Start]
  /\ tpc' = [tpc EXCEPT ![t] = "run"]
  /\ UNCHANGED <<m_ms, m_recurring, stage, cancelled, clientVars, sleepVars,
                 clock, wasBack, m_tickled, edge>>

\* The callbacks are scheduled and the thread goes back to run()
ScheduleCbs(t) ==
  /\ tpc[t] = "run"
  /\ cbs' = [cbs EXCEPT ![t] = {}]
  /\ tpc' = [tpc EXCEPT ![t] = "busy"]
  /\ UNCHANGED <<timerVars, setVars, clientVars, sleepVars, now, clockVars,
                 m_tickled, m_previouseTime, edge>>

-----------------------------------------------------------------------------
(***************************************************************************)
(* The clock.  Between its reading of the clock and the lock a thread is   *)
(* not held up for an hour and nobody sets the clock; epoll_wait returns   *)
(* when its time is up.                                                    *)
(***************************************************************************)
Tick ==
  /\ clock < MaxClock
  /\ \A t \in Threads : /\ tpc[t] = "list" => clock - now[t] < Hour
                        /\ tpc[t] = "sleep" => left[t] # 0
  /\ clock' = clock + 1
  /\ left' = [t \in Threads |-> IF tpc[t] = "sleep" /\ left[t] > 0
                                  THEN left[t] - 1 ELSE left[t]]
  /\ UNCHANGED <<timerVars, setVars, clientVars, tpc, next_timeout, lost, now,
                 cbs, m_tickled, m_previouseTime, edge, setBack, wasBack>>

SetClockBack(d) ==
  /\ clock - d >= Start
  /\ setBack + d <= MaxClock
  /\ \A t \in Threads : tpc[t] # "list"
  /\ clock' = clock - d
  /\ setBack' = setBack + d
  /\ wasBack' = TRUE
  /\ UNCHANGED <<timerVars, setVars, clientVars, threadVars, m_tickled,
                 m_previouseTime, edge>>

-----------------------------------------------------------------------------
Init ==
  /\ clock = Start
  /\ m_next = [x \in Timers |-> 0]
  /\ m_ms = [x \in Timers |-> 0]
  /\ m_recurring = [x \in Timers |-> FALSE]
  /\ m_cb = [x \in Timers |-> FALSE]
  /\ m_timers = {}
  /\ skey = [x \in Timers |-> 0]
  /\ m_tickled = FALSE
  /\ m_previouseTime = Start
  /\ stage = [x \in Timers |-> "none"]
  /\ cpc = [c \in Clients |-> "ready"]
  /\ cx = [c \in Clients |-> AnyTimer]
  /\ tpc = [t \in Threads |-> "busy"]
  /\ next_timeout = [t \in Threads |-> 0]
  /\ left = [t \in Threads |-> 0]
  /\ lost = [t \in Threads |-> 0]
  /\ now = [t \in Threads |-> Start]
  /\ cbs = [t \in Threads |-> {}]
  /\ edge = FALSE
  /\ cancelled = [x \in Timers |-> FALSE]
  /\ setBack = 0
  /\ wasBack = FALSE

ClientStep(c) ==
  \/ AddTimer(c) \/ Tickle(c)
  \/ \E x \in Timers :
       \/ Cancel(c, x) \/ Refresh(c, x)
       \/ \E ms \in Periods, b \in BOOLEAN : NewTimer(c, x, ms, b)
                                             \/ Reset(c, x, ms, b)

ThreadStep(t) ==
  \/ EnterIdle(t) \/ GetNextTimer(t) \/ Interrupted(t) \/ WakeUp(t)
  \/ ListExpiredCb(t) \/ ScheduleCbs(t)

Next ==
  \/ \E c \in Clients : ClientStep(c)
  \/ \E t \in Threads : ThreadStep(t)
  \/ Tick
  \/ \E d \in SetBacks : SetClockBack(d)

Spec == Init /\ [][Next]_vars

-----------------------------------------------------------------------------
(***************************************************************************)
(* Properties                                                              *)
(***************************************************************************)

\* Types of the timers, of the manager's members and of the locals.
TypeOK ==
  /\ clock \in Nat
  /\ m_next \in [Timers -> Nat]
  /\ m_ms \in [Timers -> Nat]
  /\ m_recurring \in [Timers -> BOOLEAN]
  /\ m_cb \in [Timers -> BOOLEAN]
  /\ m_timers \subseteq Timers
  /\ skey \in [Timers -> Nat]
  /\ m_tickled \in BOOLEAN
  /\ m_previouseTime \in Nat
  /\ stage \in [Timers -> {"none", "made", "live"}]
  /\ cpc \in [Clients -> {"ready", "insert", "tickle"}]
  /\ cx \in [Clients -> Timers]
  /\ tpc \in [Threads -> {"busy", "idle", "sleep", "list", "run"}]
  /\ next_timeout \in [Threads -> Int]
  /\ left \in [Threads -> Int]
  /\ lost \in [Threads -> Nat]
  /\ now \in [Threads -> Nat]
  /\ cbs \in [Threads -> SUBSET Timers]
  /\ edge \in BOOLEAN
  /\ cancelled \in [Timers -> BOOLEAN]
  /\ setBack \in Nat
  /\ wasBack \in BOOLEAN

\* A timer that addTimer has returned has a callback exactly when it can be found
\* in the set.  cancel() erases what find() returned without a test, so without
\* this it would erase end().
TimerInSet ==
  \A x \in Timers : stage[x] = "live" => (m_cb[x] <=> InSet(x))

\* Nothing but the live timers is in the set, ordered by their present m_next:
\* a key that changed inside the std::set would break every later search.
KeysCurrent ==
  \A x \in m_timers : stage[x] = "live" /\ skey[x] = m_next[x]

\* The std::set of timers is consistent whatever addTimer, cancel, refresh, reset
\* and listExpiredCb do to it: a timer is in it exactly when it has a callback, at
\* the place of its present m_next.
SetConsistent == TypeOK /\ TimerInSet /\ KeysCurrent

\* When every thread sleeps and no wake-up is on its way, one of the sleepers
\* wakes up in time for the earliest timer, or as late as signals made it: by the
\* time it had slept before it was interrupted, as epoll_wait is then called with
\* the full timeout again.  The front insertions that do not tickle because
\* m_tickled is set are covered by one that did.  (refresh() of a timer after the
\* clock was set back makes it earlier and tickles nobody.)
SleepersCovered ==
  /\ ~wasBack
  /\ \A t \in Threads : tpc[t] = "sleep"
  /\ ~edge
  /\ \A c \in Clients : cpc[c] # "tickle"
  /\ m_timers # {}
  => \E t \in Threads :
       left[t] # -1 /\ left[t] <= Max({Earliest - clock, 0}) + lost[t]

\* A one-shot timer whose cancel() returned true is not among the callbacks that
\* a thread has collected and is about to schedule.  (A recurring one may be.)
CancelIsFinal ==
  \A t \in Threads : \A x \in cbs[t] : cancelled[x] => m_recurring[x]

\* No callback is collected before its time, although listExpiredCb works with a
\* time it read before it had the lock, unless the clock has been set back by
\* more than an hour since the previous scan: then every timer expires.
NotEarly ==
  [][\A t \in Threads, x \in Timers :
       x \in cbs'[t] \ cbs[t] => m_next[x] <= clock \/ setBack > Hour]_vars

-----------------------------------------------------------------------------
(***************************************************************************)
(* The invariant of TimerManagerProofs                                     *)
(***************************************************************************)

\* A client that is between the two parts of addTimer has the timer for itself.
Adding ==
  \A c \in Clients : cpc[c] = "insert" =>
    /\ stage[cx[c]] = "made" /\ m_cb[cx[c]]
    /\ \A d \in Clients \ {c} : cpc[d] = "insert" => cx[d] # cx[c]

\* A timer was started at m_next - m_ms, which is over unless the clock went back.
Started ==
  \A x \in Timers :
    /\ m_ms[x] \in Periods \cup {0}
    /\ m_ms[x] <= m_next[x]
    /\ ~wasBack => m_next[x] <= clock + m_ms[x]

\* A callback that is collected belongs to a timer that can be cancelled no more,
\* or recurs; a cancelled timer has no callback.
Collected ==
  /\ \A x \in Timers : cancelled[x] => stage[x] = "live" /\ ~m_cb[x]
  /\ \A t \in Threads : \A x \in cbs[t] :
       stage[x] = "live" /\ (m_cb[x] => m_recurring[x])
  /\ CancelIsFinal

\* The time of the last scan and the one a scan in progress works with are in the
\* past, but for what the clock has been set back since.
Scanned ==
  /\ m_previouseTime <= clock + setBack
  /\ \A t \in Threads : tpc[t] = "list" =>
       /\ now[t] <= clock /\ clock <= now[t] + Hour
       /\ m_previouseTime <= now[t] + setBack \/ m_previouseTime <= now[t] + Hour

\* A wake-up is on its way, or some thread does not sleep
OnTheWay ==
  \/ edge
  \/ \E c \in Clients : cpc[c] = "tickle"
  \/ \E t \in Threads : tpc[t] # "sleep"

\* The time that a thread can sleep without being late for timer x
Remaining(x) == IF m_next[x] >= clock THEN m_next[x] - clock ELSE 0

\* No timer is further away than an int can say
PeriodsFit == \A ms \in Periods : ms <= IntMax

\* As long as m_tickled is set a wake-up is on its way; and there is one, or a
\* sleeper that would wake up before every timer in the set if no signal had made
\* it start anew.
Covered ==
  /\ \A t \in Threads : left[t] >= -1 /\ left[t] <= next_timeout[t]
  /\ \A t \in Threads : left[t] = -1 => next_timeout[t] = -1
  /\ m_tickled => OnTheWay
  /\ PeriodsFit /\ ~wasBack =>
       \/ OnTheWay
       \/ \E t \in Threads :
            left[t] # -1 /\ \A x \in m_timers : left[t] <= Remaining(x) + lost[t]

IInv == SetConsistent /\ Adding /\ Started /\ Collected /\ Scanned /\ Covered
=============================================================================
