---------------------------- MODULE ReactorProofs ----------------------------
(***************************************************************************)
(* RInv is an inductive invariant of Reactor, for any number of threads,   *)
(* fibers, jobs, timers and yields; PendingCoversWaits and                 *)
(* StopLeavesPinned follow from it, and OneExecutor holds here too.        *)
(*                                                                         *)
(* The argument.  Most steps are those of Scheduler, so IInv and LeaveInvs *)
(* are preserved by its lemmas; what IOManager adds is that an expired     *)
(* timer or an event becomes a task, on a thread that is inside idle() and *)
(* will scan the list again.  So every entry that any thread may take is   *)
(* served (AllSeen), whatever the three reads of stopping() have seen: the *)
(* last of them is Scheduler's, and a list with an entry keeps a thread    *)
(* from leaving.  The counter of pending events is that of the waits plus  *)
(* the reports between triggerEvent and the decrement.                     *)
(***************************************************************************)
EXTENDS Reactor, SchedulerProofs

-----------------------------------------------------------------------------
(***************************************************************************)
(* IInv, LeaveInvs and AllSeen                                             *)
(***************************************************************************)

\* The steps of IOManager that leave the scheduler alone.
LEMMA BaseStutter ==
  ASSUME IInv, LeaveInvs, AllSeen, UNCHANGED vars
  PROVE  IInv' /\ LeaveInvs' /\ AllSeen'
<1>1. UNCHANGED <<pc, task, taskFiber, idleDone, fstate, ctlVars, m_tasks>>
  BY DEF vars, runVars, fiberVars
<1> QED BY <1>1, StutterInv, LeaveStutter DEF AllSeen

\* addTimer hands over a function and changes nothing else of the scheduler.
LEMMA AddTimerBase ==
  ASSUME IInv, LeaveInvs, AllSeen, NEW c \in Callers, NEW j \in Jobs, AddTimer(c, j)
  PROVE  IInv' /\ LeaveInvs' /\ AllSeen'
<1>1. /\ UNCHANGED <<m_tasks, runVars, fiberVars, countVars, ctlVars, done, yields>>
      /\ submitted' = submitted \cup {j}
  BY DEF AddTimer
<1>2. IInv'
  BY <1>1 DEF IInv, TypeOK, Counts, ActiveCount, Shapes, Owners, OneClaim, HeldStates,
     NoDangling, Bound, Outside, Claimed, Queued, Cur, Spare, runVars, fiberVars,
     countVars, ctlVars
<1>3. UNCHANGED <<pc, task, taskFiber, idleDone, fstate, ctlVars, m_tasks>>
  BY <1>1 DEF runVars, fiberVars
<1> QED BY <1>2, <1>3, LeaveStutter DEF AllSeen

\* Entries for functions are appended to the list; no fiber is named by them.
LEMMA AppendCbsInv ==
  ASSUME IInv, NEW s \in Seq(Task),
         \A i \in DOMAIN s : s[i].fiber = NoFiber /\ s[i].cb \in Jobs,
         m_tasks' = m_tasks \o s,
         UNCHANGED <<runVars, fiberVars, countVars, ctlVars, jobVars>>
  PROVE  IInv'
<1>1. m_tasks \in Seq(Task) /\ m_tasks' \in Seq(Task)
  BY DEF IInv, TypeOK
<1>2. /\ \A i \in DOMAIN m_tasks' :
           \/ i \in DOMAIN m_tasks /\ m_tasks'[i] = m_tasks[i]
           \/ m_tasks'[i].fiber = NoFiber /\ m_tasks'[i].cb \in Jobs
      /\ \A i \in DOMAIN m_tasks : i \in DOMAIN m_tasks' /\ m_tasks'[i] = m_tasks[i]
  <2>1. ASSUME NEW i \in DOMAIN m_tasks', i \notin DOMAIN m_tasks
        PROVE  i - Len(m_tasks) \in DOMAIN s /\ m_tasks'[i] = s[i - Len(m_tasks)]
    BY <1>1, <2>1
  <2>2. \A i \in DOMAIN m_tasks : i \in DOMAIN m_tasks' /\ m_tasks'[i] = m_tasks[i]
    BY <1>1
  <2> QED BY <2>1, <2>2
<1>3. \A f \in Fibers : Queued(f)' <=> Queued(f)
  BY <1>2, NullAssumption DEF Queued
<1>4. \A f \in Fibers : Claimed(f)' <=> Claimed(f)
  BY <1>3 DEF Claimed, fiberVars
<1>5. TypeOK' /\ Counts' /\ Outside' /\ Owners'
  BY <1>1 DEF IInv, TypeOK, Counts, ActiveCount, Outside, Owners, runVars, fiberVars,
     countVars, ctlVars, jobVars
<1>6. Shapes'
  BY <1>2 DEF IInv, Shapes, runVars
<1>7. OneClaim'
  BY <1>2, <1>3 DEF IInv, OneClaim, fiberVars
<1>8. HeldStates'
  <2>1. \A t \in Workers : pc[t] \in Holding \ {"dispatch"} => Cur(t) \in Fibers
    BY CurIsFiber DEF IInv
  <2>2. \A t \in Workers :
          /\ task[t].fiber # NoFiber => task[t].fiber \in Fibers
          /\ taskFiber[t] # NoFiber => taskFiber[t] \in Fibers
    BY DEF IInv, TypeOK, Task
  <2>3. \A t \in Workers : Cur(t)' = Cur(t) /\ (Spare(t)' <=> Spare(t))
    BY DEF Cur, Spare, runVars
  <2> QED BY <1>4, <2>1, <2>2, <2>3 DEF IInv, HeldStates, Holding, Counted, Spare, runVars,
        fiberVars
<1>9. NoDangling' /\ Bound'
  BY <1>3, <1>4 DEF IInv, NoDangling, Bound, runVars, fiberVars
<1> QED BY <1>5, <1>6, <1>7, <1>8, <1>9 DEF IInv

\* A thread inside idle() will scan the list again.
LEMMA IdleComes ==
  ASSUME NEW t \in Workers, pc[t] = "idle"
  PROVE  Served
BY DEF Served, Coming

\* schedule(cbs.begin(), cbs.end()) for the expired timers.
LEMMA ScheduleExpiredBase ==
  ASSUME IInv, LeaveInvs, RTypeOK, NEW t \in Workers, ScheduleExpired(t)
  PROVE  IInv' /\ LeaveInvs' /\ AllSeen'
<1>1. PICK s \in SetToSeqs(cbs[t]) :
        m_tasks' = m_tasks \o [i \in DOMAIN s |-> CbTask(s[i], AnyThread)]
  BY DEF ScheduleExpired
<1>2. cbs[t] \in SUBSET Jobs /\ Cardinality(cbs[t]) \in Nat
  BY FS_CardinalityType DEF RTypeOK
<1>3. s \in [1..Cardinality(cbs[t]) -> Jobs]
  BY <1>1, <1>2 DEF SetToSeqs
<1>4. PICK x : x = [i \in DOMAIN s |-> CbTask(s[i], AnyThread)]
  OBVIOUS
<1>5. /\ x \in Seq(Task)
      /\ \A i \in DOMAIN x : x[i].fiber = NoFiber /\ x[i].cb \in Jobs
  <2>1. \A j \in Jobs : /\ CbTask(j, AnyThread) \in Task
                        /\ CbTask(j, AnyThread).fiber = NoFiber
                        /\ CbTask(j, AnyThread).cb = j
    BY DEF CbTask, Task
  <2>2. x \in [1..Cardinality(cbs[t]) -> Task]
    BY <1>3, <1>4, <2>1
  <2> QED BY <1>2, <1>3, <1>4, <2>1, <2>2
<1>6. IInv'
  BY <1>1, <1>4, <1>5, AppendCbsInv DEF ScheduleExpired
<1>7. pc[t] = "idle" /\ UNCHANGED <<pc, task, taskFiber, idleDone, fstate, ctlVars>>
  BY DEF ScheduleExpired, InIdle, runVars, fiberVars
<1> QED BY <1>6, <1>7, LeaveStutter, IdleComes DEF AllSeen

\* triggerEvent schedules the fiber that waited, on a thread inside idle().
LEMMA TriggerEventBase ==
  ASSUME IInv, LeaveInvs, NEW t \in Workers, NEW f \in Fibers, TriggerEvent(t, f)
  PROVE  IInv' /\ LeaveInvs' /\ AllSeen'
<1>1. Wake(f) /\ pc[t] = "idle"
  BY DEF TriggerEvent, InIdle
<1>2. UNCHANGED <<pc, task, taskFiber, idleDone, fstate, ctlVars>>
  BY <1>1 DEF Wake, runVars
<1> QED BY <1>1, <1>2, WakeInv, LeaveStutter, IdleComes DEF AllSeen

\* idle() returns or yields to run().
LEMMA IdleEndsBase ==
  ASSUME IInv, LeaveInvs, AllSeen, NEW t \in Workers, ReadStopping(t) \/ IdleBack(t)
  PROVE  IInv' /\ LeaveInvs' /\ AllSeen'
<1>0. Served' => AllSeen'
  BY DEF AllSeen
<1>1. CASE ReadStopping(t) /\ Stopping
  <2>1. /\ pc[t] = "idle" /\ Goto(t, "idleExit")
        /\ idleDone' = [idleDone EXCEPT ![t] = TRUE]
        /\ UNCHANGED <<m_tasks, task, taskFiber, fiberVars, countVars, ctlVars, jobVars>>
    BY <1>1 DEF ReadStopping, InIdle
  <2>2. UNCHANGED fstate
    BY <2>1 DEF fiberVars
  <2> QED BY <1>0, <1>1, <2>1, <2>2, IdleEndsInv, IdleEndsLeave
<1>2. CASE ReadStopping(t) /\ ~Stopping
  <2>1. UNCHANGED vars
    BY <1>2 DEF ReadStopping, vars, runVars
  <2> QED BY <2>1, BaseStutter
<1>3. CASE IdleBack(t)
  <2>1. PICK b \in BOOLEAN : b = idleDone[t]
    BY DEF IInv, TypeOK
  <2>2. /\ pc[t] = "idle" /\ Goto(t, "idleExit")
        /\ UNCHANGED <<m_tasks, task, taskFiber, fiberVars, countVars, ctlVars, jobVars>>
        /\ UNCHANGED idleDone /\ UNCHANGED fstate
    BY <1>3 DEF IdleBack, InIdle, fiberVars
  <2>3. idleDone' = [idleDone EXCEPT ![t] = b]
    BY <2>1, <2>2 DEF IInv, TypeOK
  <2>4. IInv'
    BY <2>2, <2>3, IdleEndsInv
  <2>5. \A f \in Fibers : fstate'[f] = "EXEC" =>
          fstate[f] = "EXEC" /\ ~(pc[t] \in Holding \ {"dispatch"} /\ Cur(t) = f)
    BY <2>2 DEF Holding, Counted
  <2>6. LeaveInvs' /\ Served'
    BY <2>2, <2>5, StepLeave DEF PC, Holding, Counted, Idling
  <2> QED BY <1>0, <2>4, <2>6
<1> QED BY <1>1, <1>2, <1>3

\* Starting a fiber, letting it go, and the user's calls.
LEMMA RunBase ==
  ASSUME IInv, LeaveInvs, AllSeen, NEW t \in Workers, RRunStep(t) \/ RUserStep(t)
  PROVE  IInv' /\ LeaveInvs' /\ AllSeen'
<1>0. Served' => AllSeen'
  BY DEF AllSeen
<1>1. CASE Tickle(t)
  BY <1>1, BaseStutter DEF Tickle
<1>2. CASE Miss(t)
  BY <1>2, MissInv, MissLeave DEF AllSeen
<1>3. CASE \/ Take(t) \/ CallFiber(t) \/ CallCb(t) \/ DropFinished(t) \/ Back(t)
           \/ Uncount(t) \/ Requeue(t) \/ Hold(t) \/ Ended(t)
  <2>1. IInv'
    BY <1>3, TakeInv, CallFiberInv, CallCbInv, DropFinishedInv, BackInv, UncountInv,
       RequeueInv, HoldInv, EndedInv
  <2> QED BY <1>0, <1>3, <2>1, RunLeave
<1>4. CASE YieldToReady(t) \/ Await(t) \/ Finish(t) \/ \E u \in Pins : SwitchTo(t, u)
  <2>1. IInv'
    BY <1>4, YieldToReadyInv, AwaitInv, FinishInv, SwitchToInv, PinsAssumption
  <2> QED BY <1>0, <1>4, <2>1, UserLeave
<1> QED BY <1>1, <1>2, <1>3, <1>4 DEF RRunStep, RUserStep, ScanStep, AwaitEvent

\* The turns of idle().
LEMMA IdleBase ==
  ASSUME IInv, LeaveInvs, AllSeen, RTypeOK, NEW t \in Workers, RIdleStep(t)
  PROVE  IInv' /\ LeaveInvs' /\ AllSeen'
<1>1. CASE Leave(t)
  <2>1. UNCHANGED m_tasks
    BY <1>1 DEF Leave
  <2> QED BY <1>1, <2>1, LeaveInv, LeaveLeave DEF AllSeen
<1>2. CASE EnterIdle(t) \/ ExitIdle(t)
  BY <1>2, EnterIdleInv, ExitIdleInv, IdleLeave DEF AllSeen
<1>3. CASE ReadStopping(t) \/ IdleBack(t)
  BY <1>3, IdleEndsBase
<1>4. CASE ScheduleExpired(t)
  BY <1>4, ScheduleExpiredBase
<1>5. CASE \E f \in Fibers : TriggerEvent(t, f)
  BY <1>5, TriggerEventBase
<1>6. CASE \/ ReadTimers(t) \/ ReadPending(t) \/ EpollReport(t) \/ EpollTimeout(t)
           \/ ListExpired(t) \/ UncountEvent(t)
  <2>1. UNCHANGED vars
    BY <1>6 DEF ReadTimers, ReadPending, EpollReport, EpollTimeout, ListExpired,
       UncountEvent
  <2> QED BY <2>1, BaseStutter
<1> QED BY <1>1, <1>2, <1>3, <1>4, <1>5, <1>6 DEF RIdleStep

\* start() and stop(), with what IOManager adds to stopping().
LEMMA OwnerBase ==
  ASSUME IInv, LeaveInvs, AllSeen, Start \/ StopAuto \/ RStopStep
  PROVE  IInv' /\ LeaveInvs' /\ AllSeen'
<1>1. CASE Start
  BY <1>1, StartInv, StartLeave DEF AllSeen
<1>2. ASSUME NEW quiet \in BOOLEAN,
             \/ StopAuto \/ StopMark(quiet) \/ StopCallRoot(quiet)
             \/ StopRootReturned \/ StopJoin
      PROVE  IInv' /\ LeaveInvs' /\ AllSeen'
  <2>1. IInv'
    BY <1>2, StopAutoInv, StopMarkInv, StopCallRootInv, StopRootReturnedInv, StopJoinInv
  <2>2. LeaveInvs' /\ (Served /\ m_tasks # <<>> => Served')
    BY <1>2, StopLeave
  <2>3. UNCHANGED m_tasks
    BY <1>2 DEF StopAuto, StopMark, StopCallRoot, StopRootReturned, StopJoin
  <2> QED BY <2>1, <2>2, <2>3 DEF AllSeen
<1>3. CASE RStopMark
  <2>1. StopMark(TRUE) \/ StopMark(FALSE)
    <3>1. CASE timers = {} /\ m_pendingEventCount = 0
      BY <1>3, <3>1 DEF RStopMark, StopMark
    <3>2. CASE ~(timers = {} /\ m_pendingEventCount = 0)
      BY <1>3, <3>2 DEF RStopMark, StopMark
    <3> QED BY <3>1, <3>2
  <2> QED BY <1>2, <2>1
<1>4. CASE RStopCallRoot \/ Tickle(AnyThread)
  <2>1. UNCHANGED vars \/ StopCallRoot(TRUE) \/ StopCallRoot(FALSE)
    BY <1>4 DEF RStopCallRoot, Tickle
  <2> QED BY <1>2, <2>1, BaseStutter
<1>5. CASE StopAuto \/ StopRootReturned \/ StopJoin
  BY <1>2, <1>5
<1> QED BY <1>1, <1>3, <1>4, <1>5 DEF RStopStep

\* Every step of RNext preserves Scheduler's invariants and AllSeen.
LEMMA NextBase ==
  ASSUME IInv, LeaveInvs, AllSeen, RTypeOK, [RNext]_allVars
  PROVE  IInv' /\ LeaveInvs' /\ AllSeen'
<1>1. CASE UNCHANGED allVars
  BY <1>1, BaseStutter DEF allVars
<1>2. ASSUME NEW t \in Workers, RRunStep(t) \/ RUserStep(t) \/ RIdleStep(t)
      PROVE  IInv' /\ LeaveInvs' /\ AllSeen'
  BY <1>2, RunBase, IdleBase
<1>3. ASSUME NEW f \in Fibers, Destroy(f)
      PROVE  IInv' /\ LeaveInvs' /\ AllSeen'
  <2>1. UNCHANGED m_tasks
    BY <1>3 DEF Destroy
  <2> QED BY <1>3, <2>1, DestroyInv, DestroyLeave DEF AllSeen
<1>4. ASSUME (\E f \in Fibers : FdReady(f)) \/ (\E j \in Jobs : TimerDue(j))
      PROVE  IInv' /\ LeaveInvs' /\ AllSeen'
  BY <1>4, BaseStutter DEF FdReady, TimerDue
<1>5. ASSUME NEW c \in Callers, RSubmit(c) PROVE IInv' /\ LeaveInvs' /\ AllSeen'
  <2>1. CASE Submit(c)
    <3>1. IInv'
      BY <2>1, ScheduleCbInv, ScheduleFiberInv, ScheduleFinishedInv, PinsAssumption
         DEF Submit
    <3> QED BY <2>1, <3>1, SubmitLeave DEF AllSeen
  <2> QED BY <1>5, <2>1, AddTimerBase DEF RSubmit
<1>6. CASE Start \/ StopAuto \/ RStopStep
  BY <1>6, OwnerBase
<1> QED BY <1>1, <1>2, <1>3, <1>4, <1>5, <1>6 DEF RNext

-----------------------------------------------------------------------------
(***************************************************************************)
(* RTypeOK and PendingCoversWaits                                          *)
(***************************************************************************)

\* The two sets that PendingCoversWaits counts
Waiting == {f \in Fibers : waker[f]}
Triggered == {t \in Workers : ipc[t] = "triggered"}

\* Both sets are finite before and after a step, and an element more or less changes
\* their number by one.
LEMMA OneMoreOrLess ==
  ASSUME NEW W, IsFiniteSet(W), NEW S \in SUBSET W, NEW T \in SUBSET W, NEW x
  PROVE  /\ Cardinality(S) \in Nat /\ Cardinality(T) \in Nat
         /\ x \notin S /\ T = S \cup {x} => Cardinality(T) = Cardinality(S) + 1
         /\ x \in S /\ T = S \ {x} =>
              Cardinality(T) = Cardinality(S) - 1 /\ Cardinality(S) > 0
<1>1. IsFiniteSet(S) /\ IsFiniteSet(T)
  BY FS_Subset
<1>2. Cardinality(S) \in Nat /\ Cardinality(T) \in Nat
  BY <1>1, FS_CardinalityType
<1>3. Cardinality(S \cup {x}) = IF x \in S THEN Cardinality(S) ELSE Cardinality(S) + 1
  BY <1>1, FS_AddElement
<1>4. Cardinality(S \ {x}) = IF x \in S THEN Cardinality(S) - 1 ELSE Cardinality(S)
  BY <1>1, FS_RemoveElement
<1>5. ASSUME x \notin S, T = S \cup {x} PROVE Cardinality(T) = Cardinality(S) + 1
  BY <1>3, <1>5
<1>6. ASSUME x \in S, T = S \ {x}
      PROVE  Cardinality(T) = Cardinality(S) - 1 /\ Cardinality(S) > 0
  <2>1. Cardinality(T) = Cardinality(S) - 1
    BY <1>4, <1>6
  <2> QED BY <1>2, <2>1
<1> QED BY <1>2, <1>5, <1>6

\* A step that changes none of the three keeps the counter exact.
LEMMA PendingStutter ==
  ASSUME PendingCoversWaits, UNCHANGED <<waker, m_pendingEventCount>>,
         \A t \in Workers : ipc'[t] = "triggered" <=> ipc[t] = "triggered"
  PROVE  PendingCoversWaits'
<1>1. {t \in Workers : ipc'[t] = "triggered"} = {t \in Workers : ipc[t] = "triggered"}
  OBVIOUS
<1> QED BY <1>1 DEF PendingCoversWaits

\* addEvent: the fiber that executes was not waiting.
LEMMA AwaitEventPending ==
  ASSUME RInv, NEW t \in Workers, AwaitEvent(t)
  PROVE  PendingCoversWaits' /\ m_pendingEventCount' \in Nat
<1>1. PICK f \in Fibers : f = Cur(t)
  BY CurIsFiber DEF RInv, IInv, AwaitEvent, Await, Holding, Counted
<1>2. /\ ~waker[f] /\ waker' = [waker EXCEPT ![f] = TRUE] /\ ipc' = ipc
      /\ m_pendingEventCount' = m_pendingEventCount + 1
  BY <1>1 DEF RInv, IInv, HeldStates, Claimed, AwaitEvent, Await
<1>3. Waiting' = Waiting \cup {f} /\ f \notin Waiting /\ Triggered' = Triggered
  BY <1>2 DEF Waiting, Triggered, RInv, IInv, TypeOK
<1>4. Waiting \in SUBSET Fibers /\ Waiting' \in SUBSET Fibers
      /\ Triggered \in SUBSET Workers
  BY DEF Waiting, Triggered
<1>5. Cardinality(Waiting') = Cardinality(Waiting) + 1 /\ Cardinality(Waiting) \in Nat
  BY <1>3, <1>4, OneMoreOrLess, FibersAssumption
<1>6. Cardinality(Triggered) \in Nat
  BY <1>4, OneMoreOrLess, WorkersAssumption
<1>7. m_pendingEventCount = Cardinality(Waiting) + Cardinality(Triggered)
  BY DEF RInv, PendingCoversWaits, Waiting, Triggered
<1>8. m_pendingEventCount' = Cardinality(Waiting') + Cardinality(Triggered')
  BY <1>2, <1>3, <1>5, <1>6, <1>7
<1> QED BY <1>2, <1>5, <1>6, <1>7, <1>8 DEF PendingCoversWaits, Waiting, Triggered

\* triggerEvent takes the wait away and leaves the decrement to be done.
LEMMA TriggerEventPending ==
  ASSUME RInv, NEW t \in Workers, NEW f \in Fibers, TriggerEvent(t, f)
  PROVE  PendingCoversWaits'
<1>1. /\ waker[f] /\ waker' = [waker EXCEPT ![f] = FALSE]
      /\ ipc[t] = "events" /\ ipc' = [ipc EXCEPT ![t] = "triggered"]
      /\ m_pendingEventCount' = m_pendingEventCount
  BY DEF TriggerEvent, Wake, InIdle, IGoto
<1>2. Waiting' = Waiting \ {f} /\ f \in Waiting
  BY <1>1 DEF Waiting, RInv, IInv, TypeOK
<1>3. Triggered' = Triggered \cup {t} /\ t \notin Triggered
  BY <1>1 DEF Triggered, RInv, RTypeOK, Callers
<1>4. /\ Waiting \in SUBSET Fibers /\ Waiting' \in SUBSET Fibers
      /\ Triggered \in SUBSET Workers /\ Triggered' \in SUBSET Workers
  BY DEF Waiting, Triggered
<1>5. Cardinality(Waiting') = Cardinality(Waiting) - 1 /\ Cardinality(Waiting) \in Nat
  BY <1>2, <1>4, OneMoreOrLess, FibersAssumption
<1>6. /\ Cardinality(Triggered') = Cardinality(Triggered) + 1
      /\ Cardinality(Triggered) \in Nat
  BY <1>3, <1>4, OneMoreOrLess, WorkersAssumption
<1>7. m_pendingEventCount = Cardinality(Waiting) + Cardinality(Triggered)
  BY DEF RInv, PendingCoversWaits, Waiting, Triggered
<1>8. m_pendingEventCount' = Cardinality(Waiting') + Cardinality(Triggered')
  BY <1>1, <1>5, <1>6, <1>7
<1> QED BY <1>8 DEF PendingCoversWaits, Waiting, Triggered

\* The decrement.
LEMMA UncountEventPending ==
  ASSUME RInv, NEW t \in Workers, UncountEvent(t)
  PROVE  PendingCoversWaits' /\ m_pendingEventCount' \in Nat
<1>1. /\ waker' = waker /\ ipc[t] = "triggered" /\ ipc' = [ipc EXCEPT ![t] = "events"]
      /\ m_pendingEventCount' = m_pendingEventCount - 1
  BY DEF UncountEvent, InIdle, IGoto, vars, fiberVars
<1>2. Triggered' = Triggered \ {t} /\ t \in Triggered /\ Waiting' = Waiting
  BY <1>1 DEF Triggered, Waiting, RInv, RTypeOK, Callers
<1>3. /\ Waiting \in SUBSET Fibers
      /\ Triggered \in SUBSET Workers /\ Triggered' \in SUBSET Workers
  BY DEF Waiting, Triggered
<1>4. Cardinality(Waiting) \in Nat
  BY <1>3, OneMoreOrLess, FibersAssumption
<1>5. /\ Cardinality(Triggered') = Cardinality(Triggered) - 1
      /\ Cardinality(Triggered) \in Nat /\ Cardinality(Triggered) > 0
  BY <1>2, <1>3, OneMoreOrLess, WorkersAssumption
<1>6. m_pendingEventCount = Cardinality(Waiting) + Cardinality(Triggered)
  BY DEF RInv, PendingCoversWaits, Waiting, Triggered
<1>7. m_pendingEventCount' = Cardinality(Waiting') + Cardinality(Triggered')
  BY <1>1, <1>2, <1>4, <1>5, <1>6
<1>8. m_pendingEventCount' \in Nat
  BY <1>1, <1>4, <1>5, <1>6
<1> QED BY <1>7, <1>8 DEF PendingCoversWaits, Waiting, Triggered

\* The counter under every other step.
LEMMA NextPending ==
  ASSUME RInv, [RNext]_allVars
  PROVE  PendingCoversWaits' /\ m_pendingEventCount' \in Nat
<1>0. PendingCoversWaits /\ m_pendingEventCount \in Nat
  BY DEF RInv, RTypeOK
<1>1. CASE \E t \in Workers : AwaitEvent(t)
  BY <1>1, AwaitEventPending
<1>2. CASE \E t \in Workers, f \in Fibers : TriggerEvent(t, f)
  <2>1. UNCHANGED m_pendingEventCount
    BY <1>2 DEF TriggerEvent
  <2> QED BY <1>0, <1>2, <2>1, TriggerEventPending
<1>3. CASE \E t \in Workers : UncountEvent(t)
  BY <1>3, UncountEventPending
<1>4. ASSUME UNCHANGED <<waker, m_pendingEventCount>>,
             \A t \in Workers : ipc'[t] = "triggered" <=> ipc[t] = "triggered"
      PROVE  PendingCoversWaits' /\ m_pendingEventCount' \in Nat
  BY <1>0, <1>4, PendingStutter
<1>5. CASE UNCHANGED allVars
  BY <1>4, <1>5 DEF allVars, vars, fiberVars, reactorVars, idleVars
<1>6. ASSUME NEW t \in Workers, RRunStep(t) \/ RUserStep(t)
      PROVE  PendingCoversWaits' /\ m_pendingEventCount' \in Nat
  <2>1. CASE RRunStep(t)
    <3>1. UNCHANGED <<waker, ipc, m_pendingEventCount>>
      BY <2>1 DEF RRunStep, Tickle, ScanStep, Quiet, Loud, Take, Miss, CallFiber, CallCb,
         DropFinished, Back, Uncount, Hold, Ended, Requeue, vars, fiberVars, reactorVars,
         idleVars
    <3> QED BY <1>4, <3>1
  <2>2. CASE RUserStep(t) /\ ~AwaitEvent(t)
    <3>1. UNCHANGED <<waker, ipc, m_pendingEventCount>>
      BY <2>2 DEF RUserStep, Quiet, Loud, YieldToReady, Finish, SwitchTo, fiberVars,
         reactorVars, idleVars
    <3> QED BY <1>4, <3>1
  <2> QED BY <1>1, <1>6, <2>1, <2>2
<1>7. ASSUME NEW t \in Workers, RIdleStep(t)
      PROVE  PendingCoversWaits' /\ m_pendingEventCount' \in Nat
  <2>1. CASE (Leave(t) \/ EnterIdle(t) \/ ExitIdle(t)) /\ Quiet(t)
    BY <1>4, <2>1 DEF Leave, EnterIdle, ExitIdle, Quiet, fiberVars, reactorVars, idleVars
  <2>2. CASE \/ ReadTimers(t) \/ ReadPending(t) \/ ReadStopping(t) \/ EpollReport(t)
             \/ EpollTimeout(t) \/ ListExpired(t) \/ ScheduleExpired(t) \/ IdleBack(t)
    <3>1. UNCHANGED <<waker, m_pendingEventCount>>
      BY <2>2 DEF ReadTimers, ReadPending, ReadStopping, EpollReport, EpollTimeout,
         ListExpired, ScheduleExpired, IdleBack, vars, fiberVars
    <3>2. /\ ipc[t] # "triggered"
          /\ \E to \in {"timers", "pending", "stopping", "wait", "expire", "schedule",
                        "events"} : IGoto(t, to)
      BY <2>2 DEF ReadTimers, ReadPending, ReadStopping, EpollReport, EpollTimeout,
         ListExpired, ScheduleExpired, IdleBack, InIdle
    <3>3. \A u \in Workers : ipc'[u] = "triggered" <=> ipc[u] = "triggered"
      BY <3>2 DEF IGoto, RInv, RTypeOK, Callers
    <3> QED BY <1>4, <3>1, <3>3
  <2> QED BY <1>2, <1>3, <1>7, <2>1, <2>2 DEF RIdleStep
<1>8. ASSUME NEW c \in Callers, RSubmit(c)
      PROVE  PendingCoversWaits' /\ m_pendingEventCount' \in Nat
  BY <1>4, <1>8 DEF RSubmit, Submit, Loud, AddTimer, ScheduleCb, ScheduleFiber,
     ScheduleFinished, fiberVars, idleVars
<1>9. CASE \/ \E f \in Fibers : Destroy(f) /\ UNCHANGED reactorVars
           \/ \E f \in Fibers : FdReady(f)
           \/ \E j \in Jobs : TimerDue(j)
           \/ (Start \/ StopAuto) /\ Quiet(AnyThread)
  BY <1>4, <1>9 DEF Destroy, FdReady, TimerDue, Start, StopAuto, Quiet, vars, fiberVars,
     reactorVars, idleVars
<1>10. CASE RStopStep
  <2>1. UNCHANGED <<waker, m_pendingEventCount>>
    BY <1>10 DEF RStopStep, Tickle, RStopMark, RStopCallRoot, StopMark, StopCallRoot,
       StopRootReturned, StopJoin, Quiet, vars, fiberVars, reactorVars, idleVars
  <2>2. \/ UNCHANGED ipc
        \/ \E to \in {"pending", "stopping"} : IGoto(AnyThread, to)
    BY <1>10 DEF RStopStep, Tickle, RStopMark, RStopCallRoot, Quiet, reactorVars, idleVars
  <2>3. \A t \in Workers : ipc'[t] = ipc[t]
    BY <2>2, WorkersAssumption DEF IGoto, RInv, RTypeOK, Callers
  <2> QED BY <1>4, <2>1, <2>3
<1> QED BY <1>5, <1>6, <1>7, <1>8, <1>9, <1>10 DEF RNext

\* The steps that leave the timers alone.
LEMMA KeepsRType ==
  ASSUME RTypeOK, tick' \in [Callers -> BOOLEAN], edge' \in BOOLEAN,
         \/ UNCHANGED ipc
         \/ \E c \in Callers, to \in {"timers", "pending", "stopping", "wait", "expire",
                                      "schedule", "events", "triggered"} : IGoto(c, to),
         UNCHANGED <<timers, due, cbs>>, m_pendingEventCount' \in Nat
  PROVE  RTypeOK'
BY DEF RTypeOK, IGoto

\* A caller of schedule() or addTimer may owe a tickle.
LEMMA OweTyped ==
  ASSUME RTypeOK, NEW c \in Callers, NEW need \in BOOLEAN, Owe(c, need)
  PROVE  tick' \in [Callers -> BOOLEAN]
BY DEF RTypeOK, Owe

\* The types of IOManager's variables.
LEMMA NextRType ==
  ASSUME RInv, [RNext]_allVars
  PROVE  RTypeOK'
<1>0. /\ m_pendingEventCount' \in Nat /\ RTypeOK
      /\ tick \in [Callers -> BOOLEAN] /\ edge \in BOOLEAN
  BY NextPending DEF RInv, RTypeOK
<1>1. CASE UNCHANGED reactorVars
  BY <1>0, <1>1, KeepsRType DEF reactorVars, idleVars
<1>2. ASSUME NEW c \in Callers, Tickle(c) PROVE RTypeOK'
  <2>1. tick' \in [Callers -> BOOLEAN] /\ edge' \in BOOLEAN /\ UNCHANGED idleVars
    BY <1>0, <1>2 DEF Tickle
  <2> QED BY <1>0, <2>1, KeepsRType DEF idleVars
<1>3. ASSUME NEW c \in Callers, NEW need \in BOOLEAN, Owe(c, need),
             UNCHANGED <<edge, idleVars>>
      PROVE  RTypeOK'
  BY <1>0, <1>3, OweTyped, KeepsRType DEF idleVars
<1>4. ASSUME NEW c \in Callers, Loud(c) PROVE RTypeOK'
  <2>1. NeedTickle \in BOOLEAN
    BY DEF NeedTickle
  <2> QED BY <1>3, <1>4, <2>1 DEF Loud
<1>5. ASSUME NEW t \in Workers, RRunStep(t) \/ RUserStep(t) PROVE RTypeOK'
  <2>1. t \in Callers
    BY DEF Callers
  <2>2. CASE ScanStep(t)
    <3>1. TickleAfterTake(t) \in BOOLEAN /\ TickleAfterMiss(t) \in BOOLEAN
      BY DEF TickleAfterTake, TickleAfterMiss
    <3> QED BY <1>3, <2>1, <2>2, <3>1 DEF ScanStep
  <2>3. CASE AwaitEvent(t)
    BY <1>0, <2>3, KeepsRType DEF AwaitEvent
  <2>4. CASE Quiet(t)
    BY <1>1, <2>4 DEF Quiet
  <2> QED BY <1>2, <1>4, <1>5, <2>1, <2>2, <2>3, <2>4 DEF RRunStep, RUserStep
<1>6. ASSUME NEW t \in Workers, RIdleStep(t) PROVE RTypeOK'
  <2>1. t \in Callers
    BY DEF Callers
  <2>2. CASE ListExpired(t)
    <3>1. /\ timers' \in SUBSET Jobs /\ due' \in SUBSET timers'
          /\ cbs' \in [Workers -> SUBSET Jobs]
          /\ cbs'[t] = due /\ \A u \in Workers \ {t} : cbs'[u] = cbs[u]
          /\ timers' \in SUBSET timers /\ due \in SUBSET timers
      BY <1>0, <2>2 DEF ListExpired, RTypeOK
    <3>2. IsFiniteSet(timers') /\ \A u \in Workers : IsFiniteSet(cbs'[u])
      BY <1>0, <3>1, FS_Subset DEF RTypeOK
    <3> QED BY <1>0, <2>1, <2>2, <3>1, <3>2 DEF ListExpired, RTypeOK, IGoto
  <2>3. CASE ScheduleExpired(t)
    <3>1. (cbs[t] # {} /\ NeedTickle) \in BOOLEAN
      OBVIOUS
    <3>2. tick' \in [Callers -> BOOLEAN]
      BY <1>0, <2>1, <2>3, <3>1, OweTyped DEF ScheduleExpired
    <3>3. \A u \in Workers : IsFiniteSet(cbs'[u])
      BY <1>0, <2>3, FS_EmptySet DEF ScheduleExpired, RTypeOK
    <3> QED BY <1>0, <2>1, <2>3, <3>2, <3>3 DEF ScheduleExpired, RTypeOK, IGoto
  <2>4. ASSUME NEW f \in Fibers, TriggerEvent(t, f) PROVE RTypeOK'
    <3>1. NeedTickle \in BOOLEAN
      BY DEF NeedTickle
    <3>2. tick' \in [Callers -> BOOLEAN]
      BY <1>0, <2>1, <2>4, <3>1, OweTyped DEF TriggerEvent
    <3> QED BY <1>0, <2>1, <2>4, <3>2, KeepsRType DEF TriggerEvent
  <2>5. CASE \/ ReadTimers(t) \/ ReadPending(t) \/ ReadStopping(t) \/ EpollReport(t)
             \/ EpollTimeout(t) \/ UncountEvent(t) \/ IdleBack(t)
    <3>1. /\ UNCHANGED <<tick, timers, due, cbs>> /\ edge' \in BOOLEAN
          /\ \E to \in {"timers", "pending", "stopping", "wait", "expire", "schedule",
                        "events", "triggered"} : IGoto(t, to)
      BY <1>0, <2>5 DEF ReadTimers, ReadPending, ReadStopping, EpollReport, EpollTimeout,
         UncountEvent, IdleBack
    <3> QED BY <1>0, <2>1, <3>1, KeepsRType
  <2>6. CASE Quiet(t)
    BY <1>1, <2>6 DEF Quiet
  <2> QED BY <1>6, <2>2, <2>3, <2>4, <2>5, <2>6 DEF RIdleStep
<1>7. ASSUME NEW c \in Callers, RSubmit(c) PROVE RTypeOK'
  <2>1. ASSUME NEW j \in Jobs, AddTimer(c, j) PROVE RTypeOK'
    <3>1. tick' \in [Callers -> BOOLEAN]
      BY <1>0, <2>1, OweTyped DEF AddTimer
    <3>2. timers' = timers \cup {j} /\ IsFiniteSet(timers')
      BY <1>0, <2>1, FS_AddElement DEF AddTimer, RTypeOK
    <3> QED BY <1>0, <2>1, <3>1, <3>2 DEF AddTimer, RTypeOK
  <2> QED BY <1>4, <1>7, <2>1 DEF RSubmit
<1>8. ASSUME NEW j \in Jobs, TimerDue(j) PROVE RTypeOK'
  BY <1>0, <1>8 DEF TimerDue, RTypeOK
<1>9. ASSUME NEW f \in Fibers, FdReady(f) PROVE RTypeOK'
  BY <1>0, <1>9, KeepsRType DEF FdReady
<1>10. CASE RStopStep
  <2>1. AnyThread \in Callers
    BY DEF Callers
  <2>2. CASE RStopMark
    <3>1. (ctl' # "stopped") \in BOOLEAN
      OBVIOUS
    <3> QED BY <1>3, <2>1, <2>2, <3>1 DEF RStopMark
  <2>3. CASE RStopCallRoot
    <3>1. \/ UNCHANGED ipc
          \/ \E to \in {"pending", "stopping"} : IGoto(AnyThread, to)
      BY <2>3 DEF RStopCallRoot
    <3>2. UNCHANGED <<tick, edge, timers, due, cbs>>
      BY <2>3 DEF RStopCallRoot
    <3> QED BY <1>0, <2>1, <3>1, <3>2, KeepsRType
  <2> QED BY <1>1, <1>2, <1>10, <2>1, <2>2, <2>3 DEF RStopStep, Quiet
<1> QED BY <1>1, <1>5, <1>6, <1>7, <1>8, <1>9, <1>10 DEF RNext, allVars, Quiet

-----------------------------------------------------------------------------
\* RInv holds in the IOManager that the constructor makes.
LEMMA RInitInv == RInit => RInv
<1> SUFFICES ASSUME RInit PROVE RInv
  OBVIOUS
<1>1. IInv /\ LeaveInvs
  BY InitInv, InitLeave DEF RInit
<1>2. RTypeOK
  BY FS_EmptySet DEF RInit, RTypeOK
<1>3. PendingCoversWaits
  <2>1. {f \in Fibers : waker[f]} = {} /\ {t \in Workers : ipc[t] = "triggered"} = {}
    BY DEF RInit, Init, Callers
  <2> QED BY <2>1, FS_EmptySet DEF RInit, PendingCoversWaits
<1>4. AllSeen
  BY DEF RInit, Init, AllSeen
<1> QED BY <1>1, <1>2, <1>3, <1>4 DEF RInv

\* Every pointer to a fiber, every wait and every entry for any thread is accounted for
\* in every reachable state of an IOManager.
THEOREM ReactorAccounted == RSpec => []RInv
<1>1. RInv /\ [RNext]_allVars => RInv'
  <2> SUFFICES ASSUME RInv, [RNext]_allVars PROVE RInv'
    OBVIOUS
  <2>1. IInv /\ LeaveInvs /\ AllSeen /\ RTypeOK
    BY DEF RInv
  <2>2. IInv' /\ LeaveInvs' /\ AllSeen'
    BY <2>1, NextBase
  <2> QED BY <2>2, NextPending, NextRType DEF RInv
<1> QED BY <1>1, RInitInv, PTL DEF RSpec

\* m_pendingEventCount is the number of fibers that wait for an event and of the reports
\* whose decrement is still to come: a thread that reads 0 knows that nobody waits.
THEOREM WaitsAreCounted == RSpec => []PendingCoversWaits
BY ReactorAccounted, PTL DEF RInv

\* stop() of an IOManager never returns with a task in the list that some thread could
\* have taken, although stopping() reads three things at three times.
THEOREM StopLeavesNothingElse == RSpec => []StopLeavesPinned
<1>1. RInv => StopLeavesPinned
  BY StoppedAllOut DEF RInv, AllSeen, StopLeavesPinned
<1> QED BY <1>1, ReactorAccounted, PTL

\* A fiber is on the stack of one thread at a time under IOManager too, where timers and
\* events make tasks.
THEOREM ReactorOneExecutor == RSpec => []OneExecutor
<1>1. RInv => OneExecutor
  BY DEF RInv, IInv, OneExecutor, Owners, Cur
<1> QED BY <1>1, ReactorAccounted, PTL
=============================================================================
