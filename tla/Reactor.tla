------------------------------- MODULE Reactor -------------------------------
(***************************************************************************)
(* HPS::IOManager as a scheduler: the run loop of Scheduler with           *)
(* IOManager's tickle(), stopping() and idle() (iomanager.cc).             *)
(*                                                                         *)
(* A thread with no task sleeps in epoll_wait.  It comes back when the     *)
(* read end of the tickle pipe or a registered fd is reported, or after a  *)
(* timeout that is never longer than MAX_TIMEOUT (3 s).  It then turns     *)
(* expired timers and reported events into tasks and yields to run().      *)
(* Whether the thread may leave is decided from three reads that no lock   *)
(* covers together: the timers, m_pendingEventCount and the base class's   *)
(* stopping().                                                             *)
(*                                                                         *)
(* Which fd is ready and when a timer is due is up to the environment; the *)
(* fd contexts and the timer set have modules of their own (FdEvents,      *)
(* TimerManager).  Here a fiber that waits is a registered event, and a    *)
(* timer is a job that becomes a task when it expires.                     *)
(***************************************************************************)
EXTENDS Scheduler

ASSUME FibersAssumption == IsFiniteSet(Fibers)

VARIABLES
  tick,      \* the caller has left m_mutex and is about to call tickle()
  edge,      \* a write to the tickle pipe that epoll_wait has not reported yet
  ipc,       \* where each thread is inside IOManager::idle or ::stopping
  ready,     \* fibers whose fd has become ready, not reported by epoll_wait yet
  evs,       \* idle()'s local events array: fibers whose fd was reported
  timers,    \* the timers in TimerManager::m_timers, named by their callbacks
  due,       \* the timers whose time has come
  cbs,       \* idle()'s local cbs: callbacks taken from expired timers
  m_pendingEventCount

idleVars == <<ipc, ready, evs, timers, due, cbs, m_pendingEventCount>>
reactorVars == <<tick, edge, idleVars>>
allVars == <<vars, reactorVars>>

-----------------------------------------------------------------------------
(***************************************************************************)
(* tickle()                                                                *)
(***************************************************************************)

\* schedule(): the caller tickles when the list was empty before the push
NeedTickle == m_tasks = <<>>

\* The caller c of schedule() owes a tickle when need says so
Owe(c, need) == tick' = [tick EXCEPT ![c] = @ \/ need]

\* IOManager::tickle: write to the pipe only if some thread is idle
Tickle(c) ==
  /\ tick[c]
  /\ tick' = [tick EXCEPT ![c] = FALSE]
  /\ edge' = (edge \/ m_idleThreadCount > 0)
  /\ UNCHANGED <<vars, idleVars>>

\* A step of thread t that owes no tickle and cannot come to owe one
Quiet(t) == ~tick[t] /\ UNCHANGED reactorVars

\* A step of the caller c that calls schedule()
Loud(c) == ~tick[c] /\ Owe(c, NeedTickle) /\ UNCHANGED <<edge, idleVars>>

\* run(): tickle_me when a task for another thread was skipped, or tasks are left
TickleAfterTake(t) ==
  \E i \in DOMAIN m_tasks :
    /\ Found(t, i)
    /\ \/ i < Len(m_tasks)
       \/ \E k \in 1..(i - 1) : m_tasks[k].thread \notin {AnyThread, t}
TickleAfterMiss(t) ==
  \E i \in DOMAIN m_tasks : m_tasks[i].thread \notin {AnyThread, t}

ScanStep(t) ==
  /\ ~tick[t]
  /\ \/ Take(t) /\ Owe(t, TickleAfterTake(t))
     \/ Miss(t) /\ Owe(t, TickleAfterMiss(t))
  /\ UNCHANGED <<edge, idleVars>>

-----------------------------------------------------------------------------
(***************************************************************************)
(* User code: addEvent for the current fiber, addTimer                     *)
(***************************************************************************)

\* Mutant: addEvent does not count the event
AwaitEventUncounted(t) ==
  /\ ~tick[t]
  /\ Await(t)
  /\ UNCHANGED reactorVars

\* addEvent(fd, event) with the current fiber, then YieldToHold
AwaitEvent(t) ==
  /\ ~tick[t]
  /\ Await(t)
  /\ m_pendingEventCount' = m_pendingEventCount + 1
  /\ UNCHANGED <<tick, edge, ipc, ready, evs, timers, due, cbs>>

\* addTimer(ms, cb): a timer at the front of the set calls tickle
AddTimer(c, j) ==
  /\ ~tick[c]
  /\ MaySubmit(c)
  /\ j \notin submitted
  /\ submitted' = submitted \cup {j}
  /\ timers' = timers \cup {j}
  /\ \E at_front \in BOOLEAN : Owe(c, at_front)
  /\ UNCHANGED <<m_tasks, runVars, fiberVars, countVars, ctlVars, done, yields,
                 edge, ipc, ready, evs, due, cbs, m_pendingEventCount>>

\* The environment: the fd a fiber waits on becomes ready, a timer's time comes
FdReady(f) ==
  /\ waker[f]
  /\ f \notin ready
  /\ \A t \in Workers : f \notin evs[t]
  /\ ready' = ready \cup {f}
  /\ UNCHANGED <<vars, tick, edge, ipc, evs, timers, due, cbs,
                 m_pendingEventCount>>
TimerDue(j) ==
  /\ j \in timers \ due
  /\ due' = due \cup {j}
  /\ UNCHANGED <<vars, tick, edge, ipc, ready, evs, timers, cbs,
                 m_pendingEventCount>>

-----------------------------------------------------------------------------
(***************************************************************************)
(* IOManager::idle.  ipc: timers, pending, stopping (the three reads of    *)
(* stopping(timeout)), wait, expire, schedule, events, triggered           *)
(***************************************************************************)
InIdle(t, at) == pc[t] = "idle" /\ ipc[t] = at /\ ~tick[t]
IGoto(t, to) == ipc' = [ipc EXCEPT ![t] = to]

\* stopping(timeout), first read: getNextTimer()
ReadTimers(t) ==
  /\ InIdle(t, "timers")
  /\ IGoto(t, IF timers = {} THEN "pending" ELSE "wait")
  /\ UNCHANGED <<vars, tick, edge, ready, evs, timers, due, cbs,
                 m_pendingEventCount>>

\* stopping(timeout), second read: m_pendingEventCount == 0
ReadPending(t) ==
  /\ InIdle(t, "pending")
  /\ IGoto(t, IF m_pendingEventCount = 0 THEN "stopping" ELSE "wait")
  /\ UNCHANGED <<vars, tick, edge, ready, evs, timers, due, cbs,
                 m_pendingEventCount>>

\* stopping(timeout), third read: Scheduler::stopping(); the loop ends or goes on
ReadStopping(t) ==
  /\ InIdle(t, "stopping")
  /\ IF Stopping
       THEN /\ idleDone' = [idleDone EXCEPT ![t] = TRUE]
            /\ Goto(t, "idleExit")
            /\ IGoto(t, "timers")
       ELSE /\ IGoto(t, "wait")
            /\ UNCHANGED <<idleDone, pc>>
  /\ UNCHANGED <<m_tasks, task, taskFiber, fiberVars, countVars, ctlVars,
                 jobVars, tick, edge, ready, evs, timers, due, cbs,
                 m_pendingEventCount>>

\* epoll_wait reports the tickle pipe (drained below) and the ready fds; both
\* are edge-triggered, so no other thread is told
EpollReport(t) ==
  /\ InIdle(t, "wait")
  /\ edge \/ ready # {}
  /\ edge' = FALSE
  /\ ready' = {}
  /\ evs' = [evs EXCEPT ![t] = ready]
  /\ IGoto(t, "expire")
  /\ UNCHANGED <<vars, tick, timers, due, cbs, m_pendingEventCount>>

\* Mutant: without a timer epoll_wait waits until it is tickled
EpollTimeoutForTimers(t) ==
  /\ InIdle(t, "wait")
  /\ timers # {}
  /\ ~edge
  /\ ready = {}
  /\ IGoto(t, "expire")
  /\ UNCHANGED <<vars, tick, edge, ready, evs, timers, due, cbs,
                 m_pendingEventCount>>

\* epoll_wait returns 0 after next_timeout, which is at most MAX_TIMEOUT; when a
\* signal interrupts it the wait starts anew (TimerManager counts that time)
EpollTimeout(t) ==
  /\ InIdle(t, "wait")
  /\ ~edge
  /\ ready = {}
  /\ IGoto(t, "expire")
  /\ UNCHANGED <<vars, tick, edge, ready, evs, timers, due, cbs,
                 m_pendingEventCount>>

\* listExpiredCb: the expired timers leave the set
ListExpired(t) ==
  /\ InIdle(t, "expire")
  /\ timers' = timers \ due
  /\ cbs' = [cbs EXCEPT ![t] = due]
  /\ due' = {}
  /\ IGoto(t, "schedule")
  /\ UNCHANGED <<vars, tick, edge, ready, evs, m_pendingEventCount>>

\* schedule(cbs.begin(), cbs.end()): one lock for all of them, in any order
ScheduleExpired(t) ==
  /\ InIdle(t, "schedule")
  /\ \E s \in SetToSeqs(cbs[t]) :
       m_tasks' = m_tasks \o [i \in DOMAIN s |-> CbTask(s[i], AnyThread)]
  /\ Owe(t, cbs[t] # {} /\ NeedTickle)
  /\ cbs' = [cbs EXCEPT ![t] = {}]
  /\ IGoto(t, "events")
  /\ UNCHANGED <<runVars, fiberVars, countVars, ctlVars, jobVars, edge, ready,
                 evs, timers, due, m_pendingEventCount>>

\* The event loop: triggerEvent schedules the fiber that waits ...
TriggerEvent(t, f) ==
  /\ InIdle(t, "events")
  /\ f \in evs[t]
  /\ evs' = [evs EXCEPT ![t] = @ \ {f}]
  /\ Wake(f)
  /\ Owe(t, NeedTickle)
  /\ IGoto(t, "triggered")
  /\ UNCHANGED <<edge, ready, timers, due, cbs, m_pendingEventCount>>

\* ... and only then is m_pendingEventCount decremented
UncountEvent(t) ==
  /\ InIdle(t, "triggered")
  /\ m_pendingEventCount' = m_pendingEventCount - 1
  /\ IGoto(t, "events")
  /\ UNCHANGED <<vars, tick, edge, ready, evs, timers, due, cbs>>

\* The end of one turn of the loop: back() to run()
IdleBack(t) ==
  /\ InIdle(t, "events")
  /\ evs[t] = {}
  /\ Goto(t, "idleExit")
  /\ IGoto(t, "timers")
  /\ UNCHANGED <<m_tasks, task, taskFiber, idleDone, fiberVars, countVars,
                 ctlVars, jobVars, tick, edge, ready, evs, timers, due, cbs,
                 m_pendingEventCount>>

-----------------------------------------------------------------------------
RInit ==
  /\ Init
  /\ tick = [c \in Callers |-> FALSE]
  /\ edge = FALSE
  /\ ipc = [c \in Callers |-> "timers"]
  /\ ready = {}
  /\ evs = [t \in Workers |-> {}]
  /\ timers = {}
  /\ due = {}
  /\ cbs = [t \in Workers |-> {}]
  /\ m_pendingEventCount = 0

RRunStep(t) ==
  \/ Tickle(t)
  \/ ScanStep(t)
  \/ /\ \/ CallFiber(t) \/ CallCb(t) \/ DropFinished(t)
        \/ Back(t) \/ Uncount(t) \/ Hold(t) \/ Ended(t)
     /\ Quiet(t)
  \/ Requeue(t) /\ Loud(t)

RUserStep(t) ==
  \/ AwaitEvent(t)
  \/ (YieldToReady(t) \/ Finish(t)) /\ Quiet(t)
  \/ (\E u \in Pins : SwitchTo(t, u)) /\ Loud(t)

RIdleStep(t) ==
  \/ (Leave(t) \/ EnterIdle(t) \/ ExitIdle(t)) /\ Quiet(t)
  \/ ReadTimers(t) \/ ReadPending(t) \/ ReadStopping(t)
  \/ EpollReport(t) \/ EpollTimeout(t)
  \/ ListExpired(t) \/ ScheduleExpired(t)
  \/ \E f \in Fibers : TriggerEvent(t, f)
  \/ UncountEvent(t) \/ IdleBack(t)

RSubmit(c) ==
  \/ Submit(c) /\ Loud(c)
  \/ \E j \in Jobs : AddTimer(c, j)

\* stop(): once m_stopping is set every thread is tickled (the writes coalesce)
RStopMark ==
  /\ StopMark(timers = {} /\ m_pendingEventCount = 0)
  /\ Owe(AnyThread, ctl' # "stopped")
  /\ UNCHANGED <<edge, idleVars>>

\* stop(): the owner makes the same three reads before it calls the root fiber
RStopCallRoot ==
  /\ ctl = "marked"
  /\ ~tick[AnyThread]
  /\ \/ /\ ipc[AnyThread] = "timers"
        /\ IF timers = {} THEN IGoto(AnyThread, "pending") /\ UNCHANGED vars
                           ELSE StopCallRoot(FALSE) /\ UNCHANGED ipc
     \/ /\ ipc[AnyThread] = "pending"
        /\ IF m_pendingEventCount = 0
             THEN IGoto(AnyThread, "stopping") /\ UNCHANGED vars
             ELSE StopCallRoot(FALSE) /\ UNCHANGED ipc
     \/ /\ ipc[AnyThread] = "stopping"
        /\ StopCallRoot(TRUE)
        /\ UNCHANGED ipc
  /\ UNCHANGED <<tick, edge, ready, evs, timers, due, cbs, m_pendingEventCount>>

RStopStep ==
  \/ Tickle(AnyThread)
  \/ RStopMark
  \/ RStopCallRoot
  \/ (StopRootReturned \/ StopJoin) /\ Quiet(AnyThread)

RNext ==
  \/ \E t \in Workers : RRunStep(t) \/ RUserStep(t) \/ RIdleStep(t)
  \/ \E f \in Fibers : Destroy(f) /\ UNCHANGED reactorVars
  \/ \E f \in Fibers : FdReady(f)
  \/ \E j \in Jobs : TimerDue(j)
  \/ \E c \in Callers : RSubmit(c)
  \/ (Start \/ StopAuto) /\ Quiet(AnyThread)
  \/ RStopStep

RSpec == RInit /\ [][RNext]_allVars

\* As in Scheduler: threads run, user code yields or returns, what a fiber waits
\* for occurs and time passes; epoll_wait returns at the latest after its
\* timeout, which RIdleStep includes.  Work and stop() need not come.
RFairness ==
  /\ \A t \in Workers : WF_allVars(RRunStep(t)) /\ WF_allVars(RUserStep(t))
                       /\ WF_allVars(RIdleStep(t))
  /\ \A f \in Fibers : WF_allVars(FdReady(f))
  /\ \A j \in Jobs : WF_allVars(TimerDue(j))
  /\ WF_allVars(RStopStep)

RFairSpec == RSpec /\ RFairness

-----------------------------------------------------------------------------
(***************************************************************************)
(* Properties                                                              *)
(***************************************************************************)

\* m_pendingEventCount never falls below the number of fibers that wait for an
\* event: triggerEvent comes before the decrement.  A thread that reads 0 knows
\* that no fiber was waiting at that moment.
PendingCoversWaits ==
  m_pendingEventCount
    = Cardinality({f \in Fibers : waker[f]})
      + Cardinality({t \in Workers : ipc[t] = "triggered"})

\* The idle loop of a thread ends "when the scheduler can be terminated"
\* (iomanager.cc:301), which stopping() answers: no timer, no pending event and
\* nothing left to run.  So when stop() has returned no event is pending; a fiber
\* that waits for one would never be resumed.
StoppedMeansNoEvents == ctl = "stopped" => m_pendingEventCount = 0

\* Although the three reads of stopping() are taken at different times, stop()
\* never returns with a task in the list that some thread could have taken: what
\* is left is pinned to a thread that has already gone.
StopLeavesPinned ==
  ctl = "stopped" =>
    /\ m_activeThreadCount = 0
    /\ \A i \in DOMAIN m_tasks : m_tasks[i].thread # AnyThread

(***************************************************************************)
(* The invariant of ReactorProofs: IInv and LeaveInvs of Scheduler, and    *)
(* two parts of its own.                                                   *)
(***************************************************************************)

\* The types of IOManager's part of the state
RTypeOK ==
  /\ tick \in [Callers -> BOOLEAN]
  /\ edge \in BOOLEAN
  /\ ipc \in [Callers -> {"timers", "pending", "stopping", "wait", "expire",
                          "schedule", "events", "triggered"}]
  /\ timers \in SUBSET Jobs /\ IsFiniteSet(timers) /\ due \in SUBSET timers
  /\ cbs \in [Workers -> SUBSET Jobs] /\ \A t \in Workers : IsFiniteSet(cbs[t])
  /\ m_pendingEventCount \in Nat

\* An entry for any thread is seen by one: every waker is a thread that comes back to
\* the scan itself
AllSeen == (\E i \in DOMAIN m_tasks : m_tasks[i].thread = AnyThread) => Served

RInv == IInv /\ LeaveInvs /\ RTypeOK /\ PendingCoversWaits /\ AllSeen
=============================================================================
