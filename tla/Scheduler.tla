------------------------------ MODULE Scheduler ------------------------------
(***************************************************************************)
(* The N:M fiber scheduler: HPS::Scheduler (scheduler.h, scheduler.cc) and *)
(* the part of HPS::Fiber (fiber.cc) it drives.                            *)
(*                                                                         *)
(* A pool of threads executes run(): take a task from the shared list      *)
(* m_tasks under m_mutex, swap onto the stack of the task's fiber, come    *)
(* back when the fiber yields or ends, look at the state the fiber left    *)
(* and either requeue it, mark it HOLD or drop it.  With no task a thread  *)
(* calls its idle fiber.  The thread that made the scheduler drives        *)
(* start() and stop(); with use_mainThread it also executes tasks, but     *)
(* only from inside stop() (the root fiber).                               *)
(*                                                                         *)
(* A step is what one thread does under the mutex, or one access to shared *)
(* memory outside it.  What the functions run by fibers do is arbitrary:   *)
(* they yield, wait for a wake-up, migrate, submit work, return or throw.  *)
(* A fiber that waits has given its pointer to exactly one waker (an fd    *)
(* event or a timer: hook.cc), which may fire before the fiber has left    *)
(* its stack.                                                              *)
(***************************************************************************)
EXTENDS Naturals, Sequences, SequencesExt, FiniteSets

CONSTANTS
  Workers,    \* the threads that execute run(), the root thread included
  Root,       \* the thread of the root fiber (use_mainThread), or AnyThread
  AnyThread,        \* thread id -1: any thread
  Fibers,     \* the fiber objects in memory
  NoFiber,    \* a null Fiber::ptr
  Jobs,       \* the std::function values that are submitted
  NoJob,      \* an empty std::function
  MaxYields,  \* bound: how often one job yields, waits or migrates
  Pins        \* the thread arguments that callers of schedule() pass

ASSUME WorkersAssumption ==
  IsFiniteSet(Workers) /\ Workers # {} /\ AnyThread \notin Workers
ASSUME RootAssumption == Root \in Workers \cup {AnyThread}
ASSUME NullAssumption == NoFiber \notin Fibers /\ NoJob \notin Jobs
ASSUME MaxYieldsAssumption == MaxYields \in Nat
ASSUME PinsAssumption == Pins \subseteq Workers \cup {AnyThread}

VARIABLES
  m_tasks,              \* the task list, in list order
  fstate,               \* Fiber::m_state; "FREE" when the object does not exist
  fcb,                  \* Fiber::m_cb
  waker,                \* an event or timer holds the fiber's pointer
  pc,                   \* where each thread is in run()
  task,                 \* run()'s local task
  taskFiber,            \* run()'s local task_fiber
  idleDone,             \* run()'s idle_fiber is in state TERM
  m_activeThreadCount,
  m_idleThreadCount,
  m_stopping,
  m_autoStop,
  ctl,                  \* where the owner is in start() ... stop()
  submitted,            \* jobs handed to schedule()
  done,                 \* jobs whose function has returned or thrown
  yields                \* yields made so far by each job (bound)

runVars == <<pc, task, taskFiber, idleDone>>
fiberVars == <<fstate, fcb, waker>>
countVars == <<m_activeThreadCount, m_idleThreadCount>>
ctlVars == <<m_stopping, m_autoStop, ctl>>
jobVars == <<submitted, done, yields>>
vars == <<m_tasks, runVars, fiberVars, countVars, ctlVars, jobVars>>

Pool == Workers \ {Root}
State == {"INIT", "HOLD", "EXEC", "TERM", "READY", "EXCEPT"}
Finished == {"TERM", "EXCEPT"}
Task == [fiber : Fibers \cup {NoFiber}, cb : Jobs \cup {NoJob},
         thread : Workers \cup {AnyThread}]
NoTask == [fiber |-> NoFiber, cb |-> NoJob, thread |-> AnyThread]
FiberTask(f, thread) == [fiber |-> f, cb |-> NoJob, thread |-> thread]
CbTask(j, thread) == [fiber |-> NoFiber, cb |-> j, thread |-> thread]

(***************************************************************************)
(* Program points of run(): between two of them a thread does one step.    *)
(*   off       the thread has not entered run()                            *)
(*   scan      about to lock m_mutex and look for a task                   *)
(*   dispatch  took a task, fiber not called yet                           *)
(*   exec      on the stack of a fiber, in user code                       *)
(*   parking   in user code, woken later by the waker or queue entry left  *)
(*   leaving   state set to READY, TERM or EXCEPT, swapcontext to do       *)
(*   returned  back on the scheduling fiber, task still counted as active  *)
(*   post      no longer counted, the fiber's state not looked at yet      *)
(*   missed    found no task                                               *)
(*   idle      inside the idle fiber                                       *)
(*   idleExit  back from the idle fiber                                    *)
(*   done      run() has returned                                          *)
(***************************************************************************)
OnStack == {"exec", "parking", "leaving"}
Counted == {"dispatch", "exec", "parking", "leaving", "returned"}
Holding == Counted \cup {"post"}
Idling == {"idle", "idleExit"}
PC == Holding \cup Idling \cup {"off", "scan", "missed", "done"}

\* The fiber that run() executes or has just executed: task.fiber in the fiber
\* branch, task_fiber in the callback branch (task was reset before the call).
Cur(t) == IF task[t].fiber # NoFiber THEN task[t].fiber ELSE taskFiber[t]

Queued(f) == \E i \in DOMAIN m_tasks : m_tasks[i].fiber = f
Held(f) == \E t \in Workers : pc[t] \in Holding /\ Cur(t) = f

\* Scheduler::stopping(), evaluated under m_mutex
Stopping ==
  /\ m_autoStop
  /\ m_stopping
  /\ m_tasks = <<>>
  /\ m_activeThreadCount = 0

Goto(t, to) == pc' = [pc EXCEPT ![t] = to]

-----------------------------------------------------------------------------
(***************************************************************************)
(* The task list                                                           *)
(***************************************************************************)

\* scheduleNoLock: append to the list (the tickle is a log line in this class)
Push(x) == m_tasks' = Append(m_tasks, x)

\* Mutant: the scan does not skip a fiber that is still executing
TakeableExecuting(t, x) == x.thread \in {AnyThread, t}

\* A list entry that run() does not skip on thread t
Takeable(t, x) ==
  /\ x.thread \in {AnyThread, t}
  /\ ~(x.fiber # NoFiber /\ fstate[x.fiber] = "EXEC")

\* The entry at which the scan of thread t stops
Found(t, i) ==
  /\ i \in DOMAIN m_tasks
  /\ Takeable(t, m_tasks[i])
  /\ \A k \in 1..(i - 1) : ~Takeable(t, m_tasks[k])

\* run(): the scan under m_mutex finds a task
Take(t) ==
  /\ pc[t] = "scan"
  /\ \E i \in DOMAIN m_tasks :
       /\ Found(t, i)
       /\ task' = [task EXCEPT ![t] = m_tasks[i]]
       /\ m_tasks' = RemoveAt(m_tasks, i)
  /\ m_activeThreadCount' = m_activeThreadCount + 1
  /\ Goto(t, "dispatch")
  /\ UNCHANGED <<taskFiber, idleDone, fiberVars, m_idleThreadCount, ctlVars,
                 jobVars>>

\* run(): the scan reaches the end of the list
Miss(t) ==
  /\ pc[t] = "scan"
  /\ \A i \in DOMAIN m_tasks : ~Takeable(t, m_tasks[i])
  /\ Goto(t, "missed")
  /\ UNCHANGED <<m_tasks, task, taskFiber, idleDone, fiberVars, countVars,
                 ctlVars, jobVars>>

-----------------------------------------------------------------------------
(***************************************************************************)
(* Executing a task                                                        *)
(***************************************************************************)

\* run(), fiber branch: task.fiber->call()
CallFiber(t) ==
  /\ pc[t] = "dispatch"
  /\ task[t].fiber # NoFiber
  /\ fstate[task[t].fiber] \notin Finished
  /\ fstate' = [fstate EXCEPT ![task[t].fiber] = "EXEC"]
  /\ Goto(t, "exec")
  /\ UNCHANGED <<m_tasks, task, taskFiber, idleDone, fcb, waker, countVars,
                 ctlVars, jobVars>>

\* run(), callback branch: reset task_fiber or make a new one, then call() it
CallCb(t) ==
  /\ pc[t] = "dispatch"
  /\ task[t].fiber = NoFiber
  /\ \E f \in Fibers :
       /\ IF taskFiber[t] # NoFiber THEN f = taskFiber[t]
                                    ELSE fstate[f] = "FREE"
       /\ taskFiber' = [taskFiber EXCEPT ![t] = f]
       /\ fstate' = [fstate EXCEPT ![f] = "EXEC"]
       /\ fcb' = [fcb EXCEPT ![f] = task[t].cb]
  /\ task' = [task EXCEPT ![t] = NoTask]
  /\ Goto(t, "exec")
  /\ UNCHANGED <<m_tasks, idleDone, waker, countVars, ctlVars, jobVars>>

\* Mutant: the finished fiber is dropped and the thread stays counted
DropFinishedCounted(t) ==
  /\ pc[t] = "dispatch"
  /\ task[t].fiber # NoFiber
  /\ fstate[task[t].fiber] \in Finished
  /\ task' = [task EXCEPT ![t] = NoTask]
  /\ Goto(t, "scan")
  /\ UNCHANGED <<m_tasks, taskFiber, idleDone, fiberVars, countVars, ctlVars,
                 jobVars>>

\* run(), last branch with is_active: the fiber taken had already finished
DropFinished(t) ==
  /\ pc[t] = "dispatch"
  /\ task[t].fiber # NoFiber
  /\ fstate[task[t].fiber] \in Finished
  /\ m_activeThreadCount' = m_activeThreadCount - 1
  /\ task' = [task EXCEPT ![t] = NoTask]
  /\ Goto(t, "scan")
  /\ UNCHANGED <<m_tasks, taskFiber, idleDone, fiberVars, m_idleThreadCount,
                 ctlVars, jobVars>>

\* Fiber::back(): the context is saved and the thread is on its scheduling fiber
Back(t) ==
  /\ pc[t] \in {"parking", "leaving"}
  /\ Goto(t, "returned")
  /\ UNCHANGED <<m_tasks, task, taskFiber, idleDone, fiberVars, countVars,
                 ctlVars, jobVars>>

\* run(): --m_activeThreadCount after call()
Uncount(t) ==
  /\ pc[t] = "returned"
  /\ m_activeThreadCount' = m_activeThreadCount - 1
  /\ Goto(t, "post")
  /\ UNCHANGED <<m_tasks, task, taskFiber, idleDone, fiberVars,
                 m_idleThreadCount, ctlVars, jobVars>>

\* Mutant: the READY fiber is dropped
RequeueDrops(t) ==
  LET f == Cur(t) IN
  /\ pc[t] = "post"
  /\ fstate[f] = "READY"
  /\ task' = [task EXCEPT ![t] = NoTask]
  /\ taskFiber' = [taskFiber EXCEPT ![t] = IF @ = f THEN NoFiber ELSE @]
  /\ Goto(t, "scan")
  /\ UNCHANGED <<m_tasks, idleDone, fiberVars, countVars, ctlVars, jobVars>>

\* Mutant: after the requeue control falls through to the idle branch
RequeueFallsThrough(t) ==
  LET f == Cur(t) IN
  /\ pc[t] = "post"
  /\ fstate[f] = "READY"
  /\ Push(FiberTask(f, AnyThread))
  /\ task' = [task EXCEPT ![t] = NoTask]
  /\ taskFiber' = [taskFiber EXCEPT ![t] = IF @ = f THEN NoFiber ELSE @]
  /\ Goto(t, "missed")
  /\ UNCHANGED <<idleDone, fiberVars, countVars, ctlVars, jobVars>>

\* run(): the fiber is READY, schedule it again (on any thread)
Requeue(t) ==
  LET f == Cur(t) IN
  /\ pc[t] = "post"
  /\ fstate[f] = "READY"
  /\ Push(FiberTask(f, AnyThread))
  /\ task' = [task EXCEPT ![t] = NoTask]
  /\ taskFiber' = [taskFiber EXCEPT ![t] = IF @ = f THEN NoFiber ELSE @]
  /\ Goto(t, "scan")
  /\ UNCHANGED <<idleDone, fiberVars, countVars, ctlVars, jobVars>>

\* Mutant: task_fiber keeps the fiber that is now on hold
HoldKeepsTaskFiber(t) ==
  /\ pc[t] = "post"
  /\ fstate[Cur(t)] \notin Finished \cup {"READY"}
  /\ fstate' = [fstate EXCEPT ![Cur(t)] = "HOLD"]
  /\ task' = [task EXCEPT ![t] = NoTask]
  /\ Goto(t, "scan")
  /\ UNCHANGED <<m_tasks, taskFiber, idleDone, fcb, waker, countVars, ctlVars,
                 jobVars>>

\* run(): the fiber returned from YieldToHold, whose state is still EXEC
Hold(t) ==
  LET f == Cur(t) IN
  /\ pc[t] = "post"
  /\ fstate[f] \notin Finished \cup {"READY"}
  /\ fstate' = [fstate EXCEPT ![f] = "HOLD"]
  /\ task' = [task EXCEPT ![t] = NoTask]
  /\ taskFiber' = [taskFiber EXCEPT ![t] = IF @ = f THEN NoFiber ELSE @]
  /\ Goto(t, "scan")
  /\ UNCHANGED <<m_tasks, idleDone, fcb, waker, countVars, ctlVars, jobVars>>

\* run(): the fiber has ended; task_fiber is reset for the next callback, a
\* fiber that came from the list is only dropped
Ended(t) ==
  LET f == Cur(t) IN
  /\ pc[t] = "post"
  /\ fstate[f] \in Finished
  /\ IF taskFiber[t] = f
       THEN /\ fstate' = [fstate EXCEPT ![f] = "INIT"]
            /\ fcb' = [fcb EXCEPT ![f] = NoJob]
       ELSE UNCHANGED <<fstate, fcb>>
  /\ task' = [task EXCEPT ![t] = NoTask]
  /\ Goto(t, "scan")
  /\ UNCHANGED <<m_tasks, taskFiber, idleDone, waker, countVars, ctlVars,
                 jobVars>>

\* Fiber::~Fiber: the last pointer to a finished fiber is dropped
Destroy(f) ==
  /\ fstate[f] \in Finished
  /\ ~Queued(f)
  /\ ~Held(f)
  /\ fstate' = [fstate EXCEPT ![f] = "FREE"]
  /\ fcb' = [fcb EXCEPT ![f] = NoJob]
  /\ UNCHANGED <<m_tasks, runVars, waker, countVars, ctlVars, jobVars>>

-----------------------------------------------------------------------------
(***************************************************************************)
(* User code on the fiber that thread t executes                           *)
(***************************************************************************)
CanYield(t) == yields[fcb[Cur(t)]] < MaxYields
CountYield(t) == yields' = [yields EXCEPT ![fcb[Cur(t)]] = @ + 1]

\* Fiber::YieldToReady up to its back(): the state changes first
YieldToReady(t) ==
  /\ pc[t] = "exec"
  /\ CanYield(t)
  /\ fstate' = [fstate EXCEPT ![Cur(t)] = "READY"]
  /\ CountYield(t)
  /\ Goto(t, "leaving")
  /\ UNCHANGED <<m_tasks, task, taskFiber, idleDone, fcb, waker, countVars,
                 ctlVars, submitted, done>>

\* The fiber hands its pointer to an event or a timer and calls YieldToHold,
\* which does not touch m_state
Await(t) ==
  /\ pc[t] = "exec"
  /\ CanYield(t)
  /\ waker' = [waker EXCEPT ![Cur(t)] = TRUE]
  /\ CountYield(t)
  /\ Goto(t, "parking")
  /\ UNCHANGED <<m_tasks, task, taskFiber, idleDone, fstate, fcb, countVars,
                 ctlVars, submitted, done>>

\* Scheduler::switchTo to another thread: schedule itself there, YieldToHold
SwitchTo(t, thread) ==
  /\ pc[t] = "exec"
  /\ CanYield(t)
  /\ thread \notin {AnyThread, t}
  /\ Push(FiberTask(Cur(t), thread))
  /\ CountYield(t)
  /\ Goto(t, "parking")
  /\ UNCHANGED <<task, taskFiber, idleDone, fiberVars, countVars, ctlVars,
                 submitted, done>>

\* Fiber::MainFunc: the function returned (m_cb is cleared) or threw
Finish(t) ==
  LET f == Cur(t) IN
  /\ pc[t] = "exec"
  /\ \/ /\ fstate' = [fstate EXCEPT ![f] = "TERM"]
        /\ fcb' = [fcb EXCEPT ![f] = NoJob]
     \/ /\ fstate' = [fstate EXCEPT ![f] = "EXCEPT"]
        /\ UNCHANGED fcb
  /\ done' = done \cup {fcb[f]}
  /\ Goto(t, "leaving")
  /\ UNCHANGED <<m_tasks, task, taskFiber, idleDone, waker, countVars, ctlVars,
                 submitted, yields>>

\* The waker fires: schedule(fiber), at any time after it was given the pointer
Wake(f) ==
  /\ waker[f]
  /\ waker' = [waker EXCEPT ![f] = FALSE]
  /\ Push(FiberTask(f, AnyThread))
  /\ UNCHANGED <<runVars, fstate, fcb, countVars, ctlVars, jobVars>>

-----------------------------------------------------------------------------
(***************************************************************************)
(* schedule() called with new work, by the fiber on a worker thread or by  *)
(* the owner (AnyThread), who is not in stop()                             *)
(***************************************************************************)
Callers == Workers \cup {AnyThread}
MaySubmit(c) == IF c \in Workers THEN pc[c] = "exec"
                                 ELSE ctl \in {"new", "started"}

\* schedule(cb, thread)
ScheduleCb(c, j, thread) ==
  /\ MaySubmit(c)
  /\ j \notin submitted
  /\ submitted' = submitted \cup {j}
  /\ Push(CbTask(j, thread))
  /\ UNCHANGED <<runVars, fiberVars, countVars, ctlVars, done, yields>>

\* schedule(Fiber::ptr(new Fiber(cb)), thread)
ScheduleFiber(c, j, f, thread) ==
  /\ MaySubmit(c)
  /\ j \notin submitted
  /\ fstate[f] = "FREE"
  /\ submitted' = submitted \cup {j}
  /\ fstate' = [fstate EXCEPT ![f] = "INIT"]
  /\ fcb' = [fcb EXCEPT ![f] = j]
  /\ Push(FiberTask(f, thread))
  /\ UNCHANGED <<runVars, waker, countVars, ctlVars, done, yields>>

\* schedule(fiber) with a pointer kept to a fiber that has finished
ScheduleFinished(c, f) ==
  /\ MaySubmit(c)
  /\ fstate[f] \in Finished
  /\ ~Queued(f)
  /\ ~Held(f)
  /\ Push(FiberTask(f, AnyThread))
  /\ UNCHANGED <<runVars, fiberVars, countVars, ctlVars, jobVars>>

-----------------------------------------------------------------------------
(***************************************************************************)
(* The idle fiber                                                          *)
(***************************************************************************)

\* run(), last branch: leave the loop once the idle fiber has ended; task_fiber,
\* idle since its last reset, is destroyed with the locals of run()
Leave(t) ==
  /\ pc[t] = "missed"
  /\ idleDone[t]
  /\ fstate' = [f \in Fibers |-> IF f = taskFiber[t] THEN "FREE" ELSE fstate[f]]
  /\ taskFiber' = [taskFiber EXCEPT ![t] = NoFiber]
  /\ Goto(t, "done")
  /\ UNCHANGED <<m_tasks, task, idleDone, fcb, waker, countVars, ctlVars,
                 jobVars>>

\* run(), last branch: ++m_idleThreadCount, idle_fiber->call()
EnterIdle(t) ==
  /\ pc[t] = "missed"
  /\ ~idleDone[t]
  /\ m_idleThreadCount' = m_idleThreadCount + 1
  /\ Goto(t, "idle")
  /\ UNCHANGED <<m_tasks, task, taskFiber, idleDone, fiberVars,
                 m_activeThreadCount, ctlVars, jobVars>>

\* Scheduler::idle: one turn of its loop; the function returns when stopping()
Idle(t) ==
  /\ pc[t] = "idle"
  /\ idleDone' = [idleDone EXCEPT ![t] = Stopping]
  /\ Goto(t, "idleExit")
  /\ UNCHANGED <<m_tasks, task, taskFiber, fiberVars, countVars, ctlVars,
                 jobVars>>

\* run(): --m_idleThreadCount after the idle fiber has yielded or returned
ExitIdle(t) ==
  /\ pc[t] = "idleExit"
  /\ m_idleThreadCount' = m_idleThreadCount - 1
  /\ Goto(t, "scan")
  /\ UNCHANGED <<m_tasks, task, taskFiber, idleDone, fiberVars,
                 m_activeThreadCount, ctlVars, jobVars>>

-----------------------------------------------------------------------------
(***************************************************************************)
(* The owner: start() and stop()                                           *)
(***************************************************************************)
Start ==
  /\ ctl = "new"
  /\ m_stopping
  /\ m_stopping' = FALSE
  /\ pc' = [t \in Workers |-> IF t \in Pool THEN "scan" ELSE pc[t]]
  /\ ctl' = "started"
  /\ UNCHANGED <<m_tasks, task, taskFiber, idleDone, fiberVars, countVars,
                 m_autoStop, jobVars>>

\* stop(): m_autoStop is set first, without the lock
StopAuto ==
  /\ ctl = "started"
  /\ m_autoStop' = TRUE
  /\ ctl' = "auto"
  /\ UNCHANGED <<m_tasks, runVars, fiberVars, countVars, m_stopping, jobVars>>

\* stop(): m_stopping is set; with the root thread alone stop() returns at once
\* when stopping() holds.  stopping() is virtual: quiet is what a subclass adds.
StopMark(quiet) ==
  /\ ctl = "auto"
  /\ m_stopping' = TRUE
  /\ ctl' = IF Pool = {} /\ quiet /\ m_tasks = <<>> /\ m_activeThreadCount = 0
               THEN "stopped" ELSE "marked"
  /\ UNCHANGED <<m_tasks, runVars, fiberVars, countVars, m_autoStop, jobVars>>

\* stop(): the root fiber executes run() on this thread unless stopping()
StopCallRoot(quiet) ==
  /\ ctl = "marked"
  /\ IF Root # AnyThread /\ ~(quiet /\ Stopping)
       THEN Goto(Root, "scan") /\ ctl' = "root"
       ELSE ctl' = "join" /\ UNCHANGED pc
  /\ UNCHANGED <<m_tasks, task, taskFiber, idleDone, fiberVars, countVars,
                 m_stopping, m_autoStop, jobVars>>

StopRootReturned ==
  /\ ctl = "root"
  /\ pc[Root] = "done"
  /\ ctl' = "join"
  /\ UNCHANGED <<m_tasks, runVars, fiberVars, countVars, m_stopping,
                 m_autoStop, jobVars>>

\* stop(): every thread of the pool has been joined
StopJoin ==
  /\ ctl = "join"
  /\ \A t \in Pool : pc[t] = "done"
  /\ ctl' = "stopped"
  /\ UNCHANGED <<m_tasks, runVars, fiberVars, countVars, m_stopping,
                 m_autoStop, jobVars>>

-----------------------------------------------------------------------------
Init ==
  /\ m_tasks = <<>>
  /\ fstate = [f \in Fibers |-> "FREE"]
  /\ fcb = [f \in Fibers |-> NoJob]
  /\ waker = [f \in Fibers |-> FALSE]
  /\ pc = [t \in Workers |-> "off"]
  /\ task = [t \in Workers |-> NoTask]
  /\ taskFiber = [t \in Workers |-> NoFiber]
  /\ idleDone = [t \in Workers |-> FALSE]
  /\ m_activeThreadCount = 0
  /\ m_idleThreadCount = 0
  /\ m_stopping = TRUE
  /\ m_autoStop = FALSE
  /\ ctl = "new"
  /\ submitted = {}
  /\ done = {}
  /\ yields = [j \in Jobs |-> 0]

\* What thread t does in run() while it is not in user code
RunStep(t) ==
  \/ Take(t) \/ Miss(t)
  \/ CallFiber(t) \/ CallCb(t) \/ DropFinished(t)
  \/ Back(t) \/ Uncount(t)
  \/ Requeue(t) \/ Hold(t) \/ Ended(t)

UserStep(t) ==
  \/ YieldToReady(t) \/ Await(t) \/ Finish(t)
  \/ \E u \in Pins : SwitchTo(t, u)

IdleStep(t) == Leave(t) \/ EnterIdle(t) \/ Idle(t) \/ ExitIdle(t)

Submit(c) ==
  \/ \E j \in Jobs, u \in Pins : ScheduleCb(c, j, u)
  \/ \E j \in Jobs, f \in Fibers, u \in Pins : ScheduleFiber(c, j, f, u)
  \/ \E f \in Fibers : ScheduleFinished(c, f)

StopStep == StopMark(TRUE) \/ StopCallRoot(TRUE) \/ StopRootReturned \/ StopJoin

Next ==
  \/ \E t \in Workers : RunStep(t) \/ UserStep(t) \/ IdleStep(t)
  \/ \E f \in Fibers : Wake(f) \/ Destroy(f)
  \/ \E c \in Callers : Submit(c)
  \/ Start \/ StopAuto \/ StopStep

Spec == Init /\ [][Next]_vars

\* Every thread is given the processor again and again, user code yields or
\* returns, the event or timer a fiber waits for occurs, and the owner, once in
\* stop(), goes on with it.  Nothing makes anyone submit work or call stop().
Fairness ==
  /\ \A t \in Workers : WF_vars(RunStep(t)) /\ WF_vars(UserStep(t))
                       /\ WF_vars(IdleStep(t))
  /\ \A f \in Fibers : WF_vars(Wake(f))
  /\ WF_vars(StopStep)

FairSpec == Spec /\ Fairness

-----------------------------------------------------------------------------
(***************************************************************************)
(* Properties                                                              *)
(***************************************************************************)

\* Types of the scheduler's members and of the locals of run().
TypeOK ==
  /\ m_tasks \in Seq(Task)
  /\ fstate \in [Fibers -> State \cup {"FREE"}]
  /\ fcb \in [Fibers -> Jobs \cup {NoJob}]
  /\ waker \in [Fibers -> BOOLEAN]
  /\ pc \in [Workers -> PC]
  /\ task \in [Workers -> Task]
  /\ taskFiber \in [Workers -> Fibers \cup {NoFiber}]
  /\ idleDone \in [Workers -> BOOLEAN]
  /\ m_activeThreadCount \in Nat
  /\ m_idleThreadCount \in Nat
  /\ m_stopping \in BOOLEAN
  /\ m_autoStop \in BOOLEAN
  /\ ctl \in {"new", "started", "auto", "marked", "root", "join", "stopped"}
  /\ submitted \subseteq Jobs
  /\ done \subseteq Jobs
  /\ yields \in [Jobs -> Nat]

\* No two threads ever have the same fiber in hand, from taking it off the list
\* to the last look at its state: two threads on one stack would corrupt it.
\* run() only has the EXEC test of the scan and the late HOLD to ensure this.
OneExecutor ==
  \A t, u \in Workers :
    /\ t # u
    /\ pc[t] \in Holding
    /\ pc[u] \in Holding
    /\ Cur(t) # NoFiber
    => Cur(t) # Cur(u)

\* m_activeThreadCount, which stopping() relies on, is the number of threads
\* between the ++ under the lock and one of the three -- outside it.
ActiveCount ==
  m_activeThreadCount = Cardinality({t \in Workers : pc[t] \in Counted})

\* Fiber::reset asserts that task_fiber is INIT, TERM or EXCEPT when run() binds
\* the next callback to it, and nobody else may own it then.
ResetAllowed ==
  \A t \in Workers :
    pc[t] \notin Holding /\ taskFiber[t] # NoFiber
    => /\ fstate[taskFiber[t]] = "INIT"
       /\ ~Queued(taskFiber[t])
       /\ ~waker[taskFiber[t]]
       /\ \A u \in Workers \ {t} : Cur(u) # taskFiber[t]

(***************************************************************************)
(* Why this holds: who may have a pointer to a fiber in which state.  The  *)
(* conjunction of the parts is inductive (SchedulerProofs).                *)
(***************************************************************************)
Claimed(f) == Queued(f) \/ waker[f]

\* task_fiber is not in use: the next callback will be bound to it
Spare(t) ==
  taskFiber[t] # NoFiber /\ (pc[t] \notin Holding \/ task[t] # NoTask)

Counts ==
  /\ ActiveCount
  /\ m_idleThreadCount = Cardinality({t \in Workers : pc[t] \in Idling})

\* A task is a fiber or a function, and a thread has one only while it holds it
Shapes ==
  /\ \A i \in DOMAIN m_tasks : m_tasks[i].fiber = NoFiber => m_tasks[i].cb \in Jobs
  /\ \A t \in Workers :
       /\ pc[t] \notin Holding => task[t] = NoTask
       /\ pc[t] = "dispatch" /\ task[t].fiber = NoFiber => task[t].cb \in Jobs
       /\ pc[t] \in Holding \ {"dispatch"} =>
            \/ task[t].fiber # NoFiber
            \/ task[t] = NoTask /\ taskFiber[t] # NoFiber

\* A fiber is a local of at most one thread, and there in one variable only
Owners ==
  /\ \A t \in Workers : task[t].fiber # NoFiber => task[t].fiber # taskFiber[t]
  /\ \A t, u \in Workers : t # u =>
       /\ task[t].fiber # NoFiber => task[t].fiber \notin {task[u].fiber, taskFiber[u]}
       /\ taskFiber[t] # NoFiber => taskFiber[t] # taskFiber[u]

\* A fiber is in the list at most once, and not while a waker has its pointer
OneClaim ==
  /\ \A i, k \in DOMAIN m_tasks :
       m_tasks[i].fiber # NoFiber /\ m_tasks[i].fiber = m_tasks[k].fiber => i = k
  /\ \A f \in Fibers : waker[f] => ~Queued(f) /\ fstate[f] \in {"EXEC", "HOLD"}

\* What the holder of a fiber can rely on at each point of run()
HeldStates ==
  \A t \in Workers :
    /\ pc[t] = "dispatch" /\ task[t].fiber # NoFiber =>
         fstate[task[t].fiber] # "EXEC" /\ ~Claimed(task[t].fiber)
    /\ pc[t] = "exec" => fstate[Cur(t)] = "EXEC" /\ ~Claimed(Cur(t))
    /\ pc[t] = "parking" => fstate[Cur(t)] = "EXEC"
    /\ pc[t] = "leaving" =>
         fstate[Cur(t)] \in Finished \cup {"READY"} /\ ~Claimed(Cur(t))
    /\ pc[t] \in {"returned", "post"} =>
         \/ fstate[Cur(t)] = "EXEC"
         \/ fstate[Cur(t)] \in Finished \cup {"READY"} /\ ~Claimed(Cur(t))
    /\ Spare(t) => fstate[taskFiber[t]] = "INIT" /\ ~Claimed(taskFiber[t])

\* Nobody has a pointer to a fiber that does not exist
NoDangling ==
  \A f \in Fibers : fstate[f] = "FREE" =>
    ~Claimed(f) /\ \A t \in Workers : f \notin {task[t].fiber, taskFiber[t]}

\* A fiber that will be called has a function to execute
Bound ==
  /\ \A f \in Fibers : fstate[f] \in {"EXEC", "HOLD", "READY"} => fcb[f] \in Jobs
  /\ \A f \in Fibers :
       /\ fstate[f] = "INIT"
       /\ Queued(f) \/ \E t \in Workers : task[t].fiber = f
       => fcb[f] \in Jobs

\* Nobody is in run() before start(), nor the root thread before stop()
Outside ==
  /\ ctl = "new" => \A t \in Workers : pc[t] = "off"
  /\ Root \in Workers /\ ctl \in {"new", "started", "auto", "marked"} =>
       pc[Root] = "off"

\* Every pointer to a fiber (list entry, waker, local of run()) is accounted for:
\* what each thread may assume about the fiber it has, between any two steps of
\* the others.
IInv ==
  TypeOK /\ Counts /\ Shapes /\ Owners /\ OneClaim /\ HeldStates /\ NoDangling
  /\ Bound /\ Outside

(***************************************************************************)
(* Why stop() loses nothing: whoever makes an entry that any thread may    *)
(* take comes back to the scan himself, or is told to by the list.         *)
(***************************************************************************)

\* Thread t will scan the list again before it leaves run()
Coming(t) == pc[t] \notin {"off", "done"} /\ ~(pc[t] = "missed" /\ idleDone[t])

\* Some thread will, or the owner has not come to the point where it lets one
Served ==
  \/ ctl = "new"
  \/ Root \in Workers /\ ctl \in {"started", "auto", "marked"}
  \/ \E t \in Workers : Coming(t)

\* An idle fiber ends only after stop() has set both flags
CtlFlags ==
  /\ ctl \in {"started", "auto"} => ~m_stopping
  /\ ctl \in {"new", "started"} => ~m_autoStop
  /\ (\E t \in Workers : idleDone[t]) => ctl \in {"marked", "root", "join", "stopped"}

\* Who is in run(), seen from the owner
Departed ==
  /\ \A t \in Workers : pc[t] = "done" => idleDone[t]
  /\ ctl # "new" => \A t \in Pool : pc[t] # "off"
  /\ Root \in Workers /\ ctl \in {"join", "stopped"} => pc[Root] \in {"off", "done"}
  /\ ctl = "stopped" => \A t \in Pool : pc[t] = "done"

\* A fiber that the scan skips is in the hands of a thread
ExecHeld ==
  \A f \in Fibers : fstate[f] = "EXEC" =>
    \E t \in Workers : pc[t] \in Holding \ {"dispatch"} /\ Cur(t) = f

\* An entry for any thread is seen by one, unless it wakes a fiber that waited: a
\* waker may come after the last thread has left
NotAbandoned ==
  (\E i \in DOMAIN m_tasks :
     /\ m_tasks[i].thread = AnyThread
     /\ m_tasks[i].fiber # NoFiber => fstate[m_tasks[i].fiber] # "HOLD")
  => Served

\* A function that has been submitted and not bound to a fiber yet
Unbound(j) == j \in submitted \ done /\ \A f \in Fibers : fcb[f] # j

\* A function is in one place: an entry, a task that was taken, or a fiber
JobOnce ==
  /\ \A i \in DOMAIN m_tasks : m_tasks[i].cb # NoJob =>
       /\ m_tasks[i].fiber = NoFiber
       /\ Unbound(m_tasks[i].cb)
       /\ \A k \in DOMAIN m_tasks : m_tasks[k].cb = m_tasks[i].cb => k = i
  /\ \A t \in Workers : task[t].cb # NoJob =>
       /\ task[t].fiber = NoFiber
       /\ Unbound(task[t].cb)
       /\ \A i \in DOMAIN m_tasks : m_tasks[i].cb # task[t].cb
       /\ \A u \in Workers : task[u].cb = task[t].cb => u = t
  /\ \A f \in Fibers : fcb[f] # NoJob =>
       /\ fcb[f] \in submitted
       /\ \A g \in Fibers : fcb[g] = fcb[f] => g = f

\* A fiber keeps its function until the function has ended
JobBound ==
  /\ done \subseteq submitted
  /\ \A f \in Fibers :
       /\ fstate[f] \in {"FREE", "TERM"} => fcb[f] = NoJob
       /\ fstate[f] = "EXCEPT" => fcb[f] \in done
       /\ fstate[f] \notin Finished => fcb[f] \notin done
  /\ \A t \in Workers : Spare(t) => fcb[taskFiber[t]] = NoJob

\* A fiber that has not ended is executing, waiting, in the list or in the hands of a
\* thread
Home(f) ==
  \/ fstate[f] \in {"EXEC", "HOLD"}
  \/ fstate[f] \in {"INIT", "READY"} /\ (Queued(f) \/ Held(f))

\* A function that has not ended is in the list, taken, or bound to such a fiber
JobHome ==
  \A j \in submitted \ done :
    \/ \E i \in DOMAIN m_tasks : m_tasks[i].cb = j
    \/ \E t \in Workers : task[t].cb = j
    \/ \E f \in Fibers : fcb[f] = j /\ Home(f)

\* The two invariants beside IInv: of the threads that leave, and of the functions
LeaveInvs == CtlFlags /\ Departed /\ ExecHeld
JobInvs == JobOnce /\ JobBound /\ JobHome

\* stop() returns only when every submitted function has been started, except
\* the tasks that are pinned to a thread; and what has not ended by then is a
\* fiber that waited for a wake-up.
StopLosesNothing ==
  ctl = "stopped" =>
    \A j \in submitted \ done :
      \/ \E f \in Fibers : fcb[f] = j /\ fstate[f] = "HOLD"
      \/ \E i \in DOMAIN m_tasks :
           /\ m_tasks[i].thread # AnyThread
           /\ m_tasks[i].cb = j \/ \E f \in Fibers : m_tasks[i].fiber = f /\ fcb[f] = j

\* The refinement mapping to TaskPool: the job on the stack a thread is on ...
Executing(t) ==
  IF pc[t] \in OnStack /\ fcb[Cur(t)] \notin done THEN fcb[Cur(t)] ELSE NoJob

\* ... and the status of a job, read off the list, the threads and the fibers: some
\* thread is on its stack, or its fiber waits for a wake-up, because it is neither in
\* the list nor taken from it
Running(j) == \E t \in Workers : Executing(t) = j
Taken(f) == \E t \in Workers : pc[t] = "dispatch" /\ task[t].fiber = f
Parked(j) == \E f \in Fibers : fcb[f] = j /\ fstate[f] # "READY" /\ ~Queued(f) /\ ~Taken(f)

JobStatus(j) ==
  IF j \notin submitted THEN "new"
  ELSE IF j \in done THEN "done"
  ELSE IF Running(j) THEN "running"
  ELSE IF Parked(j) THEN "waiting"
  ELSE "ready"

TP == INSTANCE TaskPool WITH
        Threads <- Workers,
        status <- [j \in Jobs |-> JobStatus(j)],
        on <- [t \in Workers |-> Executing(t)]

\* The scheduler implements the task pool: under every interleaving a submitted
\* function is executed by one thread at a time, is resumed only after a
\* wake-up, and no step of run() makes it go back or skip a stage.
ImplementsTaskPool == TP!PoolSpec

\* A task is pinned to a thread that has left run(), where nobody can take it.
Stranded ==
  \E i \in DOMAIN m_tasks : \E t \in Workers : m_tasks[i].thread = t /\ pc[t] = "done"

\* Every function that is submitted ends, or stop() has returned or is held up by a
\* stranded task.
EveryJobEnds ==
  \A j \in Jobs :
    (j \in submitted /\ ctl # "new") ~> (j \in done \/ ctl = "stopped" \/ Stranded)

\* stop() returns: every thread of the pool leaves run() and is joined, unless a
\* task is stranded.
StopReturns == (ctl = "auto") ~> (ctl = "stopped" \/ Stranded)

\* Whatever the order of wake-ups, tickles and sleeps of the threads, run() leaves
\* neither a submitted function nor the caller of stop() waiting for ever, except
\* for a task that is pinned to a thread that has gone.
NobodyWaitsForever == EveryJobEnds /\ StopReturns
=============================================================================
