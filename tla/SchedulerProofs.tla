--------------------------- MODULE SchedulerProofs ---------------------------
(***************************************************************************)
(* IInv is an inductive invariant of Scheduler, for any number of threads, *)
(* fibers, jobs and yields, with or without a root thread; OneExecutor,    *)
(* ActiveCount and ResetAllowed follow from it.  Two more results rest on  *)
(* it: no job is left behind by stop() (StopLosesNothing), and Scheduler   *)
(* implements TaskPool (ImplementsTaskPool).                               *)
(*                                                                         *)
(* The argument.  A fiber is referred to by list entries, by a waker and   *)
(* by the locals task.fiber and task_fiber of run().  At most one of the   *)
(* first two exists at a time (OneClaim), at most one local (Owners), and  *)
(* while both a claim and a local exist the fiber is in state EXEC         *)
(* (HeldStates): the scan skips it, so a second thread cannot get it.  The *)
(* claim is what a fiber leaves behind when it calls YieldToHold; run()    *)
(* turns EXEC into HOLD as its last look at the fiber.                     *)
(*                                                                         *)
(* There is one lemma per action, with one step per part of IInv that the  *)
(* action can disturb; the parts over variables it does not change share   *)
(* a step.                                                                 *)
(***************************************************************************)
EXTENDS Scheduler, TLAPS, FiniteSetTheorems

\* m_tasks.erase(it) removes one entry and keeps the order of the others.
LEMMA RemoveAtProps ==
  ASSUME NEW S, NEW s \in Seq(S), NEW i \in DOMAIN s
  PROVE  /\ RemoveAt(s, i) \in Seq(S)
         /\ Len(RemoveAt(s, i)) = Len(s) - 1
         /\ \A k \in 1..(Len(s) - 1) :
              RemoveAt(s, i)[k] = IF k < i THEN s[k] ELSE s[k + 1]
<1> DEFINE a == SubSeq(s, 1, i - 1)
           b == SubSeq(s, i + 1, Len(s))
<1>1. i \in 1..Len(s) /\ Len(s) \in Nat
  OBVIOUS
<1>2. a \in Seq(S) /\ Len(a) = i - 1 /\ \A k \in 1..(i - 1) : a[k] = s[k]
  BY <1>1
<1>3. /\ b \in Seq(S)
      /\ Len(b) = Len(s) - i
      /\ \A k \in 1..(Len(s) - i) : b[k] = s[k + i]
  BY <1>1
<1>4. RemoveAt(s, i) = a \o b
  BY DEF RemoveAt
<1> HIDE DEF a, b
<1> QED BY <1>1, <1>2, <1>3, <1>4

\* Moving one thread from one program point to another changes the number of
\* threads in a set of program points by at most one.
LEMMA CountStep ==
  ASSUME NEW S, NEW p \in [Workers -> PC], NEW t \in Workers, NEW to \in PC,
         NEW P, P = {u \in Workers : p[u] \in S},
         NEW Q, Q = {u \in Workers : [p EXCEPT ![t] = to][u] \in S}
  PROVE  /\ Cardinality(P) \in Nat
         /\ Cardinality(Q) \in Nat
         /\ (p[t] \in S <=> to \in S) => Cardinality(Q) = Cardinality(P)
         /\ p[t] \notin S /\ to \in S => Cardinality(Q) = Cardinality(P) + 1
         /\ p[t] \in S /\ to \notin S => Cardinality(Q) = Cardinality(P) - 1
<1>1. IsFiniteSet(P) /\ IsFiniteSet(Q)
  <2>1. P \in SUBSET Workers /\ Q \in SUBSET Workers
    OBVIOUS
  <2> QED BY <2>1, FS_Subset, WorkersAssumption
<1>2. Cardinality(P) \in Nat /\ Cardinality(Q) \in Nat
  BY <1>1, FS_CardinalityType
<1>3. (p[t] \in S <=> to \in S) => Q = P
  OBVIOUS
<1>4. p[t] \notin S /\ to \in S => Q = P \cup {t} /\ t \notin P
  OBVIOUS
<1>5. p[t] \in S /\ to \notin S => Q = P \ {t} /\ t \in P
  OBVIOUS
<1>6. t \notin P => Cardinality(P \cup {t}) = Cardinality(P) + 1
  BY <1>1, FS_AddElement
<1>7. t \in P => Cardinality(P \ {t}) = Cardinality(P) - 1
  BY <1>1, FS_RemoveElement
<1> QED BY <1>2, <1>3, <1>4, <1>5, <1>6, <1>7

\* The two counters stay equal to the number of active and of idle threads when
\* a thread moves on and the counters are changed (or not) accordingly.
LEMMA GotoCounts ==
  ASSUME TypeOK, Counts, NEW t \in Workers, NEW to \in PC, Goto(t, to),
         (pc[t] \in Counted <=> to \in Counted) =>
            m_activeThreadCount' = m_activeThreadCount,
         pc[t] \notin Counted /\ to \in Counted =>
            m_activeThreadCount' = m_activeThreadCount + 1,
         pc[t] \in Counted /\ to \notin Counted =>
            m_activeThreadCount' = m_activeThreadCount - 1,
         (pc[t] \in Idling <=> to \in Idling) =>
            m_idleThreadCount' = m_idleThreadCount,
         pc[t] \notin Idling /\ to \in Idling =>
            m_idleThreadCount' = m_idleThreadCount + 1,
         pc[t] \in Idling /\ to \notin Idling =>
            m_idleThreadCount' = m_idleThreadCount - 1
  PROVE  Counts' /\ m_activeThreadCount' \in Nat /\ m_idleThreadCount' \in Nat
<1>1. pc \in [Workers -> PC] /\ pc' = [pc EXCEPT ![t] = to]
  BY DEF TypeOK, Goto
<1>2. ActiveCount' /\ m_activeThreadCount' \in Nat
  <2> DEFINE P == {u \in Workers : pc[u] \in Counted}
             Q == {u \in Workers : pc'[u] \in Counted}
  <2>1. Q = {u \in Workers : [pc EXCEPT ![t] = to][u] \in Counted}
    BY <1>1
  <2>2. m_activeThreadCount = Cardinality(P)
    BY DEF Counts, ActiveCount
  <2>3. P = {u \in Workers : pc[u] \in Counted}
    OBVIOUS
  <2> HIDE DEF P, Q
  <2>4. /\ Cardinality(P) \in Nat
        /\ Cardinality(Q) \in Nat
        /\ (pc[t] \in Counted <=> to \in Counted) => Cardinality(Q) = Cardinality(P)
        /\ pc[t] \notin Counted /\ to \in Counted => Cardinality(Q) = Cardinality(P) + 1
        /\ pc[t] \in Counted /\ to \notin Counted => Cardinality(Q) = Cardinality(P) - 1
    BY <1>1, <2>1, <2>3, CountStep
  <2>5. m_activeThreadCount' = Cardinality(Q)
    BY <2>2, <2>4
  <2> QED BY <2>4, <2>5 DEF ActiveCount, Q
<1>3. /\ m_idleThreadCount'
           = Cardinality({u \in Workers : pc'[u] \in Idling})
      /\ m_idleThreadCount' \in Nat
  <2> DEFINE P == {u \in Workers : pc[u] \in Idling}
             Q == {u \in Workers : pc'[u] \in Idling}
  <2>1. Q = {u \in Workers : [pc EXCEPT ![t] = to][u] \in Idling}
    BY <1>1
  <2>2. m_idleThreadCount = Cardinality(P)
    BY DEF Counts
  <2>3. P = {u \in Workers : pc[u] \in Idling}
    OBVIOUS
  <2> HIDE DEF P, Q
  <2>4. /\ Cardinality(P) \in Nat
        /\ Cardinality(Q) \in Nat
        /\ (pc[t] \in Idling <=> to \in Idling) => Cardinality(Q) = Cardinality(P)
        /\ pc[t] \notin Idling /\ to \in Idling => Cardinality(Q) = Cardinality(P) + 1
        /\ pc[t] \in Idling /\ to \notin Idling => Cardinality(Q) = Cardinality(P) - 1
    BY <1>1, <2>1, <2>3, CountStep
  <2>5. m_idleThreadCount' = Cardinality(Q)
    BY <2>2, <2>4
  <2> QED BY <2>4, <2>5 DEF Q
<1> QED BY <1>2, <1>3 DEF Counts
\* After run() has called a fiber, it has one in hand.
LEMMA CurIsFiber ==
  ASSUME TypeOK, Shapes, NEW t \in Workers, pc[t] \in Holding \ {"dispatch"}
  PROVE  Cur(t) \in Fibers
BY DEF TypeOK, Shapes, Task, Cur

\* The fiber whose stack a thread is on has a function.
LEMMA CurIsBound ==
  ASSUME TypeOK, Shapes, HeldStates, Bound, NEW t \in Workers, pc[t] = "exec"
  PROVE  Cur(t) \in Fibers /\ fcb[Cur(t)] \in Jobs
<1>1. Cur(t) \in Fibers
  BY CurIsFiber DEF Holding, Counted
<1> QED BY <1>1 DEF HeldStates, Bound

\* Taking a task: the fiber taken is no longer claimed, and because it was claimed
\* and not EXEC no thread had it.
LEMMA TakeInv ==
  ASSUME IInv, NEW t \in Workers, Take(t)
  PROVE  IInv'
<1>1. PICK i \in DOMAIN m_tasks, x \in Task :
        /\ x = m_tasks[i]
        /\ Found(t, i)
        /\ task' = [task EXCEPT ![t] = x]
        /\ m_tasks' = RemoveAt(m_tasks, i)
  <2>1. \A i \in DOMAIN m_tasks : m_tasks[i] \in Task
    BY DEF IInv, TypeOK
  <2> QED BY <2>1 DEF Take
<1>2. /\ m_tasks' \in Seq(Task)
      /\ Len(m_tasks') = Len(m_tasks) - 1
      /\ \A k \in 1..(Len(m_tasks) - 1) :
           m_tasks'[k] = IF k < i THEN m_tasks[k] ELSE m_tasks[k + 1]
  BY <1>1, RemoveAtProps DEF IInv, TypeOK
<1>3. \A k \in DOMAIN m_tasks' :
        \E l \in DOMAIN m_tasks : l # i /\ m_tasks'[k] = m_tasks[l]
  <2>1. SUFFICES ASSUME NEW k \in DOMAIN m_tasks'
                 PROVE  \E l \in DOMAIN m_tasks : l # i /\ m_tasks'[k] = m_tasks[l]
    OBVIOUS
  <2>2. k \in 1..(Len(m_tasks) - 1) /\ i \in 1..Len(m_tasks) /\ Len(m_tasks) \in Nat
    BY <1>2 DEF IInv, TypeOK
  <2>3. DOMAIN m_tasks = 1..Len(m_tasks)
    BY DEF IInv, TypeOK
  <2>4. CASE k < i
    BY <1>2, <2>2, <2>3, <2>4
  <2>5. CASE ~(k < i)
    <3>1. k + 1 \in DOMAIN m_tasks /\ k + 1 # i /\ m_tasks'[k] = m_tasks[k + 1]
      BY <1>2, <2>2, <2>3, <2>5
    <3> QED BY <3>1
  <2> QED BY <2>4, <2>5
<1>4. \A f \in Fibers : Queued(f)' => Queued(f)
  BY <1>3 DEF Queued
<1>5. x.fiber # NoFiber => Queued(x.fiber) /\ ~Queued(x.fiber)'
  <2>1. Queued(x.fiber)
    BY <1>1 DEF Queued
  <2>2. \A l \in DOMAIN m_tasks :
          x.fiber # NoFiber /\ m_tasks[l].fiber = x.fiber => l = i
    BY <1>1 DEF IInv, OneClaim
  <2>3. x.fiber # NoFiber => ~\E k \in DOMAIN m_tasks' : m_tasks'[k].fiber = x.fiber
    BY <1>3, <2>2
  <2> QED BY <2>1, <2>3 DEF Queued
<1>6. x.fiber # NoFiber => x.fiber \in Fibers /\ fstate[x.fiber] # "EXEC"
  BY <1>1 DEF Found, Takeable, Task
<1>7. Counts' /\ m_activeThreadCount' \in Nat /\ m_idleThreadCount' \in Nat
  BY GotoCounts DEF IInv, PC, Holding, Counted, Idling, Take
<1>8. TypeOK'
  BY <1>1, <1>2, <1>5, <1>7 DEF IInv, TypeOK, Take, Goto, PC, Holding, Counted,
        ctlVars, fiberVars, jobVars
<1>9. Outside'
  BY DEF IInv, TypeOK, Outside, Take, Goto, ctlVars
<1>10. Shapes'
  <2>1. x.fiber = NoFiber => x.cb \in Jobs
    BY <1>1 DEF IInv, Shapes
  <2>2. \A k \in DOMAIN m_tasks' :
          m_tasks'[k].fiber = NoFiber => m_tasks'[k].cb \in Jobs
    BY <1>3 DEF IInv, Shapes
  <2> QED BY <1>1, <2>1, <2>2 DEF IInv, TypeOK, Shapes, Take, Goto, Holding,
        Counted
<1>11. \A u \in Workers : x.fiber # NoFiber =>
         x.fiber # task[u].fiber /\ x.fiber # taskFiber[u]
  <2>1. SUFFICES ASSUME NEW u \in Workers, x.fiber # NoFiber
                 PROVE  x.fiber # task[u].fiber /\ x.fiber # taskFiber[u]
    OBVIOUS
  <2>2. Claimed(x.fiber) /\ fstate[x.fiber] # "EXEC"
    BY <1>5, <1>6, <2>1 DEF Claimed
  <2>3. ASSUME x.fiber = task[u].fiber PROVE FALSE
    <3>1. pc[u] \in Holding /\ Cur(u) = x.fiber
      BY <2>1, <2>3 DEF IInv, Shapes, NoTask, Cur
    <3> QED BY <2>1, <2>2, <2>3, <3>1 DEF IInv, HeldStates, Holding, Counted
  <2>4. ASSUME x.fiber = taskFiber[u] PROVE FALSE
    <3>1. CASE Spare(u)
      BY <2>2, <2>4, <3>1 DEF IInv, HeldStates
    <3>2. CASE pc[u] \in Holding /\ task[u] = NoTask
      <4>1. Cur(u) = x.fiber /\ pc[u] # "dispatch"
        BY <2>4, <3>2, NullAssumption DEF IInv, Shapes, NoTask, Cur
      <4> QED BY <2>2, <3>2, <4>1 DEF IInv, HeldStates, Holding, Counted
    <3> QED BY <2>1, <2>4, <3>1, <3>2 DEF Spare
  <2> QED BY <2>3, <2>4
<1>12. Owners'
  BY <1>1, <1>11 DEF IInv, TypeOK, Owners, Take
<1>13. OneClaim'
  <2>1. \A k, l \in DOMAIN m_tasks' :
          m_tasks'[k].fiber # NoFiber /\ m_tasks'[k].fiber = m_tasks'[l].fiber
          => k = l
    <3>1. DOMAIN m_tasks = 1..Len(m_tasks) /\ Len(m_tasks) \in Nat
      BY DEF IInv, TypeOK
    <3>2. DOMAIN m_tasks' = 1..(Len(m_tasks) - 1)
      BY <1>2
    <3> QED BY <1>2, <3>1, <3>2 DEF IInv, OneClaim
  <2> QED BY <1>4, <2>1 DEF IInv, OneClaim, Take, fiberVars
<1>14. HeldStates'
  <2>1. /\ x.fiber # NoFiber => ~Claimed(x.fiber)'
        /\ \A f \in Fibers : Claimed(f)' => Claimed(f)
    BY <1>4, <1>5, <1>6 DEF IInv, OneClaim, Claimed, Take, fiberVars
  <2>2. \A u \in Workers \ {t} : UNCHANGED <<pc[u], task[u], taskFiber[u]>>
    BY <1>1 DEF IInv, TypeOK, Take, Goto
  <2>3. /\ pc'[t] = "dispatch"
        /\ task'[t] = x
        /\ taskFiber' = taskFiber
        /\ pc[t] = "scan"
    BY <1>1 DEF IInv, TypeOK, Take, Goto
  <2>4. Spare(t)' => Spare(t)
    BY <2>3 DEF Spare, Holding, Counted
  <2>5. fstate' = fstate
    BY DEF Take, fiberVars
  <2> QED BY <1>6, <2>1, <2>2, <2>3, <2>4, <2>5, CurIsFiber DEF IInv, TypeOK,
        Task, HeldStates, Spare, Cur, Holding, Counted
<1>15. NoDangling'
  BY <1>1, <1>4, <1>5, NullAssumption DEF IInv, TypeOK, NoDangling, Claimed,
        Take, fiberVars
<1>16. Bound'
  BY <1>1, <1>4, <1>5, NullAssumption DEF IInv, TypeOK, Bound, Take, fiberVars
<1> QED BY <1>7, <1>8, <1>9, <1>10, <1>12, <1>13, <1>14, <1>15, <1>16 DEF IInv

\* Finding no task changes nothing but the program point.
LEMMA MissInv ==
  ASSUME IInv, NEW t \in Workers, Miss(t)
  PROVE  IInv'
<1>1. Counts' /\ m_activeThreadCount' \in Nat /\ m_idleThreadCount' \in Nat
  BY GotoCounts DEF IInv, TypeOK, PC, Holding, Counted, Idling, Miss, Goto,
        countVars, ctlVars, fiberVars, jobVars
<1>2. TypeOK'
  BY <1>1 DEF IInv, TypeOK, PC, Holding, Counted, Idling, Miss, Goto,
        countVars, ctlVars, fiberVars, jobVars
<1>3. Owners' /\ OneClaim' /\ NoDangling' /\ Bound'
  BY DEF IInv, Owners, OneClaim, NoDangling, Bound, NoTask, Queued, Claimed,
        Miss, Goto, countVars, ctlVars, fiberVars, jobVars
<1>4. Shapes'
  BY NullAssumption DEF IInv, Shapes, TypeOK, Task, Holding, Counted, NoTask,
        Miss, Goto, countVars, ctlVars, fiberVars, jobVars
<1>5. HeldStates'
  BY NullAssumption DEF IInv, HeldStates, TypeOK, Task, Shapes, Owners,
        OneClaim, NoDangling, Claimed, Queued, Cur, Spare, Holding, Counted,
        NoTask, Finished, Miss, Goto, countVars, ctlVars, fiberVars, jobVars
<1>6. Outside'
  BY NullAssumption DEF IInv, Outside, TypeOK, Miss, Goto, countVars, ctlVars,
        fiberVars, jobVars
<1> QED BY <1>1, <1>2, <1>3, <1>4, <1>5, <1>6 DEF IInv

\* call() of a fiber from the list: it becomes EXEC, and its one owner is here.
LEMMA CallFiberInv ==
  ASSUME IInv, NEW t \in Workers, CallFiber(t)
  PROVE  IInv'
<1>1. Counts' /\ m_activeThreadCount' \in Nat /\ m_idleThreadCount' \in Nat
  BY GotoCounts DEF IInv, TypeOK, PC, Holding, Counted, Idling, CallFiber,
        Goto, countVars, ctlVars, jobVars
<1>2. TypeOK'
  BY <1>1 DEF IInv, TypeOK, PC, Holding, Counted, Idling, State, CallFiber,
        Goto, countVars, ctlVars, jobVars
<1>3. Owners'
  BY DEF IInv, Owners, NoTask, CallFiber, Goto, countVars, ctlVars, jobVars
<1>4. Shapes'
  BY NullAssumption DEF IInv, Shapes, TypeOK, Task, Holding, Counted, NoTask,
        Finished, CallFiber, Goto, countVars, ctlVars, jobVars
<1>5. OneClaim'
  BY NullAssumption DEF IInv, OneClaim, TypeOK, Task, Queued, Finished,
        CallFiber, Goto, countVars, ctlVars, jobVars
<1>6. HeldStates'
  BY NullAssumption DEF IInv, HeldStates, TypeOK, Task, Shapes, Owners,
        OneClaim, NoDangling, Claimed, Queued, Cur, Spare, Holding, Counted,
        NoTask, Finished, CallFiber, Goto, countVars, ctlVars, jobVars
<1>7. NoDangling'
  BY NullAssumption DEF IInv, NoDangling, TypeOK, Task, HeldStates, Owners,
        OneClaim, Shapes, Claimed, Queued, Finished, CallFiber, Goto,
        countVars, ctlVars, jobVars
<1>8. Bound'
  BY NullAssumption DEF IInv, Bound, TypeOK, Task, HeldStates, Shapes, Queued,
        Finished, CallFiber, Goto, countVars, ctlVars, jobVars, NoDangling,
        State
<1>9. Outside'
  BY NullAssumption DEF IInv, Outside, TypeOK, Finished, CallFiber, Goto,
        countVars, ctlVars, jobVars
<1> QED BY <1>1, <1>2, <1>3, <1>4, <1>5, <1>6, <1>7, <1>8, <1>9 DEF IInv

\* call() of task_fiber or of a new fiber, which nobody else refers to.
LEMMA CallCbInv ==
  ASSUME IInv, NEW t \in Workers, CallCb(t)
  PROVE  IInv'
<1>1. Counts' /\ m_activeThreadCount' \in Nat /\ m_idleThreadCount' \in Nat
  BY GotoCounts DEF IInv, TypeOK, PC, Holding, Counted, Idling, CallCb, Goto,
        NoTask, countVars, ctlVars, jobVars
<1>2. TypeOK'
  BY <1>1 DEF IInv, TypeOK, Task, PC, Holding, Counted, Idling, State, CallCb,
        Goto, NoTask, countVars, ctlVars, jobVars
<1>3. Shapes'
  BY NullAssumption DEF IInv, Shapes, TypeOK, Task, Holding, Counted, NoTask,
        Finished, CallCb, Goto, countVars, ctlVars, jobVars
<1>4. Owners'
  BY NullAssumption DEF IInv, Owners, TypeOK, Task, NoTask, Finished, CallCb,
        Goto, countVars, ctlVars, jobVars, NoDangling, Claimed, Shapes,
        Holding, Counted
<1>5. OneClaim'
  BY NullAssumption DEF IInv, OneClaim, TypeOK, Task, Queued, Finished,
        CallCb, Goto, NoTask, countVars, ctlVars, jobVars
<1>6. HeldStates'
  BY NullAssumption DEF IInv, HeldStates, TypeOK, Task, Shapes, Owners,
        OneClaim, NoDangling, Claimed, Queued, Cur, Spare, Holding, Counted,
        NoTask, Finished, CallCb, Goto, countVars, ctlVars, jobVars
<1>7. NoDangling'
  BY NullAssumption DEF IInv, NoDangling, TypeOK, Task, HeldStates, Owners,
        OneClaim, Shapes, Claimed, Queued, Finished, CallCb, Goto, NoTask,
        countVars, ctlVars, jobVars
<1>8. Bound'
  BY NullAssumption DEF IInv, Bound, TypeOK, Task, HeldStates, Shapes, Queued,
        Finished, CallCb, Goto, NoTask, countVars, ctlVars, jobVars
<1>9. Outside'
  BY NullAssumption DEF IInv, Outside, TypeOK, Finished, CallCb, Goto, NoTask,
        countVars, ctlVars, jobVars
<1> QED BY <1>1, <1>2, <1>3, <1>4, <1>5, <1>6, <1>7, <1>8, <1>9 DEF IInv

\* A fiber that had already finished is dropped and the thread uncounted.
LEMMA DropFinishedInv ==
  ASSUME IInv, NEW t \in Workers, DropFinished(t)
  PROVE  IInv'
<1>1. Counts' /\ m_activeThreadCount' \in Nat /\ m_idleThreadCount' \in Nat
  BY GotoCounts DEF IInv, TypeOK, PC, Holding, Counted, Idling, DropFinished,
        Goto, NoTask, ctlVars, fiberVars, jobVars
<1>2. TypeOK'
  BY <1>1 DEF IInv, TypeOK, Task, PC, Holding, Counted, Idling, DropFinished,
        Goto, NoTask, ctlVars, fiberVars, jobVars
<1>3. OneClaim'
  BY DEF IInv, OneClaim, Queued, DropFinished, Goto, NoTask, ctlVars,
        fiberVars, jobVars
<1>4. Shapes'
  BY NullAssumption DEF IInv, Shapes, TypeOK, Task, Holding, Counted, NoTask,
        DropFinished, Goto, ctlVars, fiberVars, jobVars
<1>5. Owners'
  BY NullAssumption DEF IInv, Owners, TypeOK, Task, NoTask, DropFinished,
        Goto, ctlVars, fiberVars, jobVars
<1>6. HeldStates'
  BY NullAssumption DEF IInv, HeldStates, TypeOK, Task, Shapes, Owners,
        OneClaim, NoDangling, Claimed, Queued, Cur, Spare, Holding, Counted,
        NoTask, Finished, DropFinished, Goto, ctlVars, fiberVars, jobVars
<1>7. NoDangling'
  BY NullAssumption DEF IInv, NoDangling, TypeOK, Task, HeldStates, Owners,
        OneClaim, Shapes, Claimed, Queued, DropFinished, Goto, NoTask,
        ctlVars, fiberVars, jobVars
<1>8. Bound'
  BY NullAssumption DEF IInv, Bound, TypeOK, Task, HeldStates, Shapes, Queued,
        Finished, DropFinished, Goto, NoTask, ctlVars, fiberVars, jobVars
<1>9. Outside'
  BY NullAssumption DEF IInv, Outside, TypeOK, DropFinished, Goto, NoTask,
        ctlVars, fiberVars, jobVars
<1> QED BY <1>1, <1>2, <1>3, <1>4, <1>5, <1>6, <1>7, <1>8, <1>9 DEF IInv

\* back() leaves the fiber's state as the fiber set it.
LEMMA BackInv ==
  ASSUME IInv, NEW t \in Workers, Back(t)
  PROVE  IInv'
<1>1. Counts' /\ m_activeThreadCount' \in Nat /\ m_idleThreadCount' \in Nat
  BY GotoCounts DEF IInv, TypeOK, PC, Holding, Counted, Idling, Back, Goto,
        countVars, ctlVars, fiberVars, jobVars
<1>2. TypeOK'
  BY <1>1 DEF IInv, TypeOK, PC, Holding, Counted, Idling, Back, Goto,
        countVars, ctlVars, fiberVars, jobVars
<1>3. Owners' /\ OneClaim' /\ NoDangling' /\ Bound'
  BY DEF IInv, Owners, OneClaim, NoDangling, Bound, NoTask, Queued, Claimed,
        Back, Goto, countVars, ctlVars, fiberVars, jobVars
<1>4. Shapes'
  BY NullAssumption DEF IInv, Shapes, TypeOK, Task, Holding, Counted, NoTask,
        Back, Goto, countVars, ctlVars, fiberVars, jobVars
<1>5. HeldStates'
  BY NullAssumption DEF IInv, HeldStates, TypeOK, Task, Shapes, Owners,
        OneClaim, NoDangling, Claimed, Queued, Cur, Spare, Holding, Counted,
        NoTask, Finished, Back, Goto, countVars, ctlVars, fiberVars, jobVars
<1>6. Outside'
  BY NullAssumption DEF IInv, Outside, TypeOK, Back, Goto, countVars, ctlVars,
        fiberVars, jobVars
<1> QED BY <1>1, <1>2, <1>3, <1>4, <1>5, <1>6 DEF IInv

\* The thread is no longer active while it still looks at the fiber.
LEMMA UncountInv ==
  ASSUME IInv, NEW t \in Workers, Uncount(t)
  PROVE  IInv'
<1>1. Counts' /\ m_activeThreadCount' \in Nat /\ m_idleThreadCount' \in Nat
  BY GotoCounts DEF IInv, TypeOK, PC, Holding, Counted, Idling, Uncount, Goto,
        ctlVars, fiberVars, jobVars
<1>2. TypeOK'
  BY <1>1 DEF IInv, TypeOK, PC, Holding, Counted, Idling, Uncount, Goto,
        ctlVars, fiberVars, jobVars
<1>3. Owners' /\ OneClaim' /\ NoDangling' /\ Bound'
  BY DEF IInv, Owners, OneClaim, NoDangling, Bound, NoTask, Queued, Claimed,
        Uncount, Goto, ctlVars, fiberVars, jobVars
<1>4. Shapes'
  BY NullAssumption DEF IInv, Shapes, TypeOK, Task, Holding, Counted, NoTask,
        Uncount, Goto, ctlVars, fiberVars, jobVars
<1>5. HeldStates'
  BY NullAssumption DEF IInv, HeldStates, TypeOK, Task, Shapes, Owners,
        OneClaim, NoDangling, Claimed, Queued, Cur, Spare, Holding, Counted,
        NoTask, Finished, Uncount, Goto, ctlVars, fiberVars, jobVars
<1>6. Outside'
  BY NullAssumption DEF IInv, Outside, TypeOK, Uncount, Goto, ctlVars,
        fiberVars, jobVars
<1> QED BY <1>1, <1>2, <1>3, <1>4, <1>5, <1>6 DEF IInv

\* A READY fiber is unclaimed, so requeueing makes its only claim.
LEMMA RequeueInv ==
  ASSUME IInv, NEW t \in Workers, Requeue(t)
  PROVE  IInv'
<1>1. Counts' /\ m_activeThreadCount' \in Nat /\ m_idleThreadCount' \in Nat
  BY GotoCounts DEF IInv, TypeOK, PC, Holding, Counted, Idling, Requeue, Goto,
        Push, FiberTask, NoTask, countVars, ctlVars, fiberVars, jobVars
<1>2. TypeOK'
  BY <1>1, CurIsFiber DEF IInv, TypeOK, Task, PC, Holding, Counted, Idling,
        Requeue, Goto, Push, FiberTask, NoTask, countVars, ctlVars, fiberVars,
        jobVars, Shapes
<1>3. Shapes'
  BY NullAssumption, CurIsFiber DEF IInv, Shapes, TypeOK, Task, Holding,
        Counted, NoTask, Requeue, Goto, Push, FiberTask, countVars, ctlVars,
        fiberVars, jobVars, Cur
<1>4. Owners'
  BY NullAssumption DEF IInv, Owners, TypeOK, Task, NoTask, Requeue, Goto,
        Push, FiberTask, countVars, ctlVars, fiberVars, jobVars
<1>5. OneClaim'
  BY NullAssumption, CurIsFiber DEF IInv, OneClaim, TypeOK, Task, Queued,
        Requeue, Goto, Push, FiberTask, NoTask, countVars, ctlVars, fiberVars,
        jobVars, HeldStates, Claimed, Cur, Shapes, Holding, Counted
<1>6. HeldStates'
  BY NullAssumption DEF IInv, HeldStates, TypeOK, Task, Shapes, Owners,
        OneClaim, NoDangling, Claimed, Queued, Cur, Spare, Holding, Counted,
        NoTask, Finished, Requeue, Goto, Push, FiberTask, countVars, ctlVars,
        fiberVars, jobVars
<1>7. NoDangling'
  BY NullAssumption DEF IInv, NoDangling, TypeOK, Task, HeldStates, Owners,
        OneClaim, Shapes, Claimed, Queued, Requeue, Goto, Push, FiberTask,
        NoTask, countVars, ctlVars, fiberVars, jobVars
<1>8. Bound'
  BY NullAssumption DEF IInv, Bound, TypeOK, Task, HeldStates, Shapes, Queued,
        Finished, Requeue, Goto, Push, FiberTask, NoTask, countVars, ctlVars,
        fiberVars, jobVars
<1>9. Outside'
  BY NullAssumption DEF IInv, Outside, TypeOK, Requeue, Goto, Push, FiberTask,
        NoTask, countVars, ctlVars, fiberVars, jobVars
<1> QED BY <1>1, <1>2, <1>3, <1>4, <1>5, <1>6, <1>7, <1>8, <1>9 DEF IInv

\* EXEC becomes HOLD: from here on the claim left behind can be taken.
LEMMA HoldInv ==
  ASSUME IInv, NEW t \in Workers, Hold(t)
  PROVE  IInv'
<1>1. Counts' /\ m_activeThreadCount' \in Nat /\ m_idleThreadCount' \in Nat
  BY GotoCounts DEF IInv, TypeOK, PC, Holding, Counted, Idling, Hold, Goto,
        NoTask, countVars, ctlVars, jobVars
<1>2. TypeOK'
  BY <1>1 DEF IInv, TypeOK, Task, PC, Holding, Counted, Idling, State, Hold,
        Goto, NoTask, countVars, ctlVars, jobVars
<1>3. Shapes'
  BY NullAssumption DEF IInv, Shapes, TypeOK, Task, Holding, Counted, NoTask,
        Finished, Hold, Goto, countVars, ctlVars, jobVars
<1>4. Owners'
  BY NullAssumption DEF IInv, Owners, TypeOK, Task, NoTask, Finished, Hold,
        Goto, countVars, ctlVars, jobVars
<1>5. OneClaim'
  BY NullAssumption DEF IInv, OneClaim, TypeOK, Task, Queued, Finished, Hold,
        Goto, NoTask, countVars, ctlVars, jobVars
<1>6. HeldStates'
  BY NullAssumption DEF IInv, HeldStates, TypeOK, Task, Shapes, Owners,
        OneClaim, NoDangling, Claimed, Queued, Cur, Spare, Holding, Counted,
        NoTask, Finished, Hold, Goto, countVars, ctlVars, jobVars
<1>7. NoDangling'
  BY NullAssumption DEF IInv, NoDangling, TypeOK, Task, HeldStates, Owners,
        OneClaim, Shapes, Claimed, Queued, Finished, Hold, Goto, NoTask,
        countVars, ctlVars, jobVars
<1>8. Bound'
  BY NullAssumption DEF IInv, Bound, TypeOK, Task, HeldStates, Shapes, Queued,
        Finished, Hold, Goto, NoTask, countVars, ctlVars, jobVars
<1>9. Outside'
  BY NullAssumption DEF IInv, Outside, TypeOK, Finished, Hold, Goto, NoTask,
        countVars, ctlVars, jobVars
<1> QED BY <1>1, <1>2, <1>3, <1>4, <1>5, <1>6, <1>7, <1>8, <1>9 DEF IInv

\* task_fiber is reset to INIT, unclaimed, ready for the next callback.
LEMMA EndedInv ==
  ASSUME IInv, NEW t \in Workers, Ended(t)
  PROVE  IInv'
<1>1. Counts' /\ m_activeThreadCount' \in Nat /\ m_idleThreadCount' \in Nat
  BY GotoCounts DEF IInv, TypeOK, PC, Holding, Counted, Idling, Ended, Goto,
        NoTask, countVars, ctlVars, jobVars
<1>2. TypeOK'
  BY <1>1 DEF IInv, TypeOK, Task, PC, Holding, Counted, Idling, State, Ended,
        Goto, NoTask, countVars, ctlVars, jobVars
<1>3. Shapes'
  BY NullAssumption DEF IInv, Shapes, TypeOK, Task, Holding, Counted, NoTask,
        Finished, Ended, Goto, countVars, ctlVars, jobVars
<1>4. Owners'
  BY NullAssumption DEF IInv, Owners, TypeOK, Task, NoTask, Finished, Ended,
        Goto, countVars, ctlVars, jobVars
<1>5. OneClaim'
  BY NullAssumption DEF IInv, OneClaim, TypeOK, Task, Queued, Finished, Ended,
        Goto, NoTask, countVars, ctlVars, jobVars
<1>6. HeldStates'
  BY NullAssumption DEF IInv, HeldStates, TypeOK, Task, Shapes, Owners,
        OneClaim, NoDangling, Claimed, Queued, Cur, Spare, Holding, Counted,
        NoTask, Finished, Ended, Goto, countVars, ctlVars, jobVars
<1>7. NoDangling'
  BY NullAssumption DEF IInv, NoDangling, TypeOK, Task, HeldStates, Owners,
        OneClaim, Shapes, Claimed, Queued, Finished, Ended, Goto, NoTask,
        countVars, ctlVars, jobVars
<1>8. Bound'
  <2>1. Cur(t) \in Fibers /\ ~Claimed(Cur(t))
    BY CurIsFiber DEF IInv, HeldStates, Ended, Finished, Holding, Counted
  <2>2. taskFiber[t] = Cur(t) => \A u \in Workers : task'[u].fiber # Cur(t)
    BY <2>1, NullAssumption DEF IInv, TypeOK, Owners, Ended, NoTask
  <2>3. \A f \in Fibers : Queued(f)' = Queued(f)
    BY DEF Ended, Queued
  <2> QED BY <2>1, <2>2, <2>3, NullAssumption DEF IInv, TypeOK, Bound, Claimed,
        Ended, NoTask
<1>9. Outside'
  BY NullAssumption DEF IInv, Outside, TypeOK, Finished, Ended, Goto, NoTask,
        countVars, ctlVars, jobVars
<1> QED BY <1>1, <1>2, <1>3, <1>4, <1>5, <1>6, <1>7, <1>8, <1>9 DEF IInv

\* A destroyed fiber was referred to by nobody.
LEMMA DestroyInv ==
  ASSUME IInv, NEW f \in Fibers, Destroy(f)
  PROVE  IInv'
<1>1. Counts' /\ m_activeThreadCount' \in Nat /\ m_idleThreadCount' \in Nat
  BY DEF IInv, TypeOK, Counts, ActiveCount, Destroy, countVars, ctlVars,
        jobVars, runVars
<1>2. TypeOK'
  BY <1>1 DEF IInv, TypeOK, State, Destroy, countVars, ctlVars, jobVars,
        runVars
<1>3. Shapes' /\ Owners' /\ Outside'
  BY DEF IInv, Shapes, Owners, Outside, Holding, Counted, NoTask, Destroy,
        countVars, ctlVars, jobVars, runVars
<1>4. OneClaim'
  BY NullAssumption DEF IInv, OneClaim, TypeOK, Task, Queued, Finished,
        Destroy, countVars, ctlVars, jobVars, runVars
<1>5. HeldStates'
  BY NullAssumption DEF IInv, HeldStates, TypeOK, Task, Shapes, Owners,
        OneClaim, NoDangling, Claimed, Queued, Cur, Spare, Holding, Counted,
        NoTask, Finished, Destroy, countVars, ctlVars, jobVars, runVars, Held
<1>6. NoDangling'
  <2>1. ~Claimed(f)
    BY DEF IInv, OneClaim, Claimed, Destroy, Finished
  <2>2. \A t \in Workers : f # task[t].fiber
    BY NullAssumption DEF IInv, Shapes, Destroy, Held, Cur, NoTask
  <2>3. \A t \in Workers : f # taskFiber[t]
    BY NullAssumption DEF IInv, HeldStates, Spare, Destroy, Held, Cur, NoTask,
        Finished
  <2> QED BY <2>1, <2>2, <2>3 DEF IInv, TypeOK, NoDangling, Claimed, Queued,
        Destroy, runVars
<1>7. Bound'
  BY NullAssumption DEF IInv, Bound, TypeOK, Task, HeldStates, Shapes, Queued,
        Finished, Destroy, countVars, ctlVars, jobVars, runVars
<1> QED BY <1>1, <1>2, <1>3, <1>4, <1>5, <1>6, <1>7 DEF IInv

\* The fiber is READY but unclaimed until run() requeues it.
LEMMA YieldToReadyInv ==
  ASSUME IInv, NEW t \in Workers, YieldToReady(t)
  PROVE  IInv'
<1>1. Counts' /\ m_activeThreadCount' \in Nat /\ m_idleThreadCount' \in Nat
  BY GotoCounts DEF IInv, TypeOK, PC, Holding, Counted, Idling, YieldToReady,
        Goto, CountYield, CanYield, countVars, ctlVars
<1>2. TypeOK'
  BY <1>1, CurIsBound DEF IInv, TypeOK, PC, Holding, Counted, Idling, State,
        YieldToReady, Goto, CountYield, CanYield, countVars, ctlVars
<1>3. Owners'
  BY DEF IInv, Owners, NoTask, YieldToReady, Goto, CountYield, CanYield,
        countVars, ctlVars
<1>4. Shapes'
  BY NullAssumption, CurIsFiber DEF IInv, Shapes, TypeOK, Task, Holding,
        Counted, NoTask, Finished, YieldToReady, Goto, CountYield, CanYield,
        countVars, ctlVars
<1>5. OneClaim'
  BY NullAssumption, CurIsFiber DEF IInv, OneClaim, TypeOK, Task, Queued,
        Finished, YieldToReady, Goto, CountYield, CanYield, countVars,
        ctlVars, HeldStates, Claimed, Cur, Shapes, Holding, Counted
<1>6. HeldStates'
  BY NullAssumption DEF IInv, HeldStates, TypeOK, Task, Shapes, Owners,
        OneClaim, NoDangling, Claimed, Queued, Cur, Spare, Holding, Counted,
        NoTask, Finished, YieldToReady, Goto, CountYield, CanYield, countVars,
        ctlVars
<1>7. NoDangling'
  BY NullAssumption DEF IInv, NoDangling, TypeOK, Task, HeldStates, Owners,
        OneClaim, Shapes, Claimed, Queued, Finished, YieldToReady, Goto,
        CountYield, CanYield, countVars, ctlVars
<1>8. Bound'
  BY NullAssumption DEF IInv, Bound, TypeOK, Task, HeldStates, Shapes, Queued,
        Finished, YieldToReady, Goto, CountYield, CanYield, countVars, ctlVars
<1>9. Outside'
  BY NullAssumption DEF IInv, Outside, TypeOK, Finished, YieldToReady, Goto,
        CountYield, CanYield, countVars, ctlVars
<1> QED BY <1>1, <1>2, <1>3, <1>4, <1>5, <1>6, <1>7, <1>8, <1>9 DEF IInv

\* The fiber gives its pointer to a waker while it is still EXEC.
LEMMA AwaitInv ==
  ASSUME IInv, NEW t \in Workers, Await(t)
  PROVE  IInv'
<1>1. Counts' /\ m_activeThreadCount' \in Nat /\ m_idleThreadCount' \in Nat
  BY GotoCounts DEF IInv, TypeOK, PC, Holding, Counted, Idling, Await, Goto,
        CountYield, CanYield, countVars, ctlVars
<1>2. TypeOK'
  BY <1>1, CurIsBound DEF IInv, TypeOK, PC, Holding, Counted, Idling, Await,
        Goto, CountYield, CanYield, countVars, ctlVars
<1>3. Owners' /\ Bound'
  BY DEF IInv, Owners, Bound, NoTask, Queued, Await, Goto, CountYield,
        CanYield, countVars, ctlVars
<1>4. Shapes'
  BY NullAssumption, CurIsFiber DEF IInv, Shapes, TypeOK, Task, Holding,
        Counted, NoTask, Await, Goto, CountYield, CanYield, countVars, ctlVars
<1>5. OneClaim'
  BY NullAssumption, CurIsFiber DEF IInv, OneClaim, TypeOK, Task, Queued,
        Await, Goto, CountYield, CanYield, countVars, ctlVars, HeldStates,
        Claimed, Cur, Shapes, Holding, Counted
<1>6. HeldStates'
  BY NullAssumption DEF IInv, HeldStates, TypeOK, Task, Shapes, Owners,
        OneClaim, NoDangling, Claimed, Queued, Cur, Spare, Holding, Counted,
        NoTask, Finished, Await, Goto, CountYield, CanYield, countVars,
        ctlVars
<1>7. NoDangling'
  BY NullAssumption DEF IInv, NoDangling, TypeOK, Task, HeldStates, Owners,
        OneClaim, Shapes, Claimed, Queued, Await, Goto, CountYield, CanYield,
        countVars, ctlVars
<1>8. Outside'
  BY NullAssumption DEF IInv, Outside, TypeOK, Await, Goto, CountYield,
        CanYield, countVars, ctlVars
<1> QED BY <1>1, <1>2, <1>3, <1>4, <1>5, <1>6, <1>7, <1>8 DEF IInv

\* The fiber puts itself into the list while it is still EXEC.
LEMMA SwitchToInv ==
  ASSUME IInv, NEW t \in Workers, NEW thread \in Workers \cup {AnyThread}, SwitchTo(t, thread)
  PROVE  IInv'
<1>1. Counts' /\ m_activeThreadCount' \in Nat /\ m_idleThreadCount' \in Nat
  BY GotoCounts DEF IInv, TypeOK, PC, Holding, Counted, Idling, SwitchTo,
        Goto, Push, FiberTask, CountYield, CanYield, countVars, ctlVars,
        fiberVars
<1>2. TypeOK'
  BY <1>1, CurIsBound DEF IInv, TypeOK, Task, PC, Holding, Counted, Idling,
        SwitchTo, Goto, Push, FiberTask, CountYield, CanYield, countVars,
        ctlVars, fiberVars
<1>3. Owners'
  BY DEF IInv, Owners, NoTask, SwitchTo, Goto, Push, FiberTask, CountYield,
        CanYield, countVars, ctlVars, fiberVars
<1>4. Shapes'
  BY NullAssumption, CurIsFiber DEF IInv, Shapes, TypeOK, Task, Holding,
        Counted, NoTask, SwitchTo, Goto, Push, FiberTask, CountYield,
        CanYield, countVars, ctlVars, fiberVars, Cur
<1>5. OneClaim'
  BY NullAssumption, CurIsFiber DEF IInv, OneClaim, TypeOK, Task, Queued,
        SwitchTo, Goto, Push, FiberTask, CountYield, CanYield, countVars,
        ctlVars, fiberVars, HeldStates, Claimed, Cur, Shapes, Holding, Counted
<1>6. HeldStates'
  BY NullAssumption DEF IInv, HeldStates, TypeOK, Task, Shapes, Owners,
        OneClaim, NoDangling, Claimed, Queued, Cur, Spare, Holding, Counted,
        NoTask, Finished, SwitchTo, Goto, Push, FiberTask, CountYield,
        CanYield, countVars, ctlVars, fiberVars
<1>7. NoDangling'
  BY NullAssumption DEF IInv, NoDangling, TypeOK, Task, HeldStates, Owners,
        OneClaim, Shapes, Claimed, Queued, SwitchTo, Goto, Push, FiberTask,
        CountYield, CanYield, countVars, ctlVars, fiberVars
<1>8. Bound'
  BY NullAssumption DEF IInv, Bound, TypeOK, Task, HeldStates, Shapes, Queued,
        Finished, SwitchTo, Goto, Push, FiberTask, CountYield, CanYield,
        countVars, ctlVars, fiberVars
<1>9. Outside'
  BY NullAssumption DEF IInv, Outside, TypeOK, SwitchTo, Goto, Push,
        FiberTask, CountYield, CanYield, countVars, ctlVars, fiberVars
<1> QED BY <1>1, <1>2, <1>3, <1>4, <1>5, <1>6, <1>7, <1>8, <1>9 DEF IInv

\* A function that ends leaves an unclaimed fiber.
LEMMA FinishInv ==
  ASSUME IInv, NEW t \in Workers, Finish(t)
  PROVE  IInv'
<1>1. Counts' /\ m_activeThreadCount' \in Nat /\ m_idleThreadCount' \in Nat
  BY GotoCounts DEF IInv, TypeOK, PC, Holding, Counted, Idling, Finish, Goto,
        countVars, ctlVars
<1>2. TypeOK'
  BY <1>1, CurIsBound DEF IInv, TypeOK, PC, Holding, Counted, Idling, State,
        Finish, Goto, countVars, ctlVars
<1>3. Owners'
  BY DEF IInv, Owners, NoTask, Finish, Goto, countVars, ctlVars
<1>4. Shapes'
  BY NullAssumption, CurIsFiber DEF IInv, Shapes, TypeOK, Task, Holding,
        Counted, NoTask, Finished, Finish, Goto, countVars, ctlVars
<1>5. OneClaim'
  BY NullAssumption, CurIsFiber DEF IInv, OneClaim, TypeOK, Task, Queued,
        Finished, Finish, Goto, countVars, ctlVars, HeldStates, Claimed, Cur,
        Shapes, Holding, Counted
<1>6. HeldStates'
  BY NullAssumption DEF IInv, HeldStates, TypeOK, Task, Shapes, Owners,
        OneClaim, NoDangling, Claimed, Queued, Cur, Spare, Holding, Counted,
        NoTask, Finished, Finish, Goto, countVars, ctlVars
<1>7. NoDangling'
  BY NullAssumption DEF IInv, NoDangling, TypeOK, Task, HeldStates, Owners,
        OneClaim, Shapes, Claimed, Queued, Finished, Finish, Goto, countVars,
        ctlVars
<1>8. Bound'
  BY NullAssumption DEF IInv, Bound, TypeOK, Task, HeldStates, Shapes, Queued,
        Finished, Finish, Goto, countVars, ctlVars
<1>9. Outside'
  BY NullAssumption DEF IInv, Outside, TypeOK, Finished, Finish, Goto,
        countVars, ctlVars
<1> QED BY <1>1, <1>2, <1>3, <1>4, <1>5, <1>6, <1>7, <1>8, <1>9 DEF IInv

\* The waker's claim turns into a list entry.
LEMMA WakeInv ==
  ASSUME IInv, NEW f \in Fibers, Wake(f)
  PROVE  IInv'
<1>1. Counts' /\ m_activeThreadCount' \in Nat /\ m_idleThreadCount' \in Nat
  BY DEF IInv, TypeOK, Counts, ActiveCount, Wake, Push, FiberTask, countVars,
        ctlVars, jobVars, runVars
<1>2. TypeOK'
  BY <1>1 DEF IInv, TypeOK, Task, Wake, Push, FiberTask, countVars, ctlVars,
        jobVars, runVars
<1>3. Owners' /\ Outside'
  BY DEF IInv, Owners, Outside, NoTask, Wake, Push, FiberTask, countVars,
        ctlVars, jobVars, runVars
<1>4. Shapes'
  BY NullAssumption DEF IInv, Shapes, TypeOK, Task, Holding, Counted, NoTask,
        Wake, Push, FiberTask, countVars, ctlVars, jobVars, runVars
<1>5. OneClaim'
  BY NullAssumption DEF IInv, OneClaim, TypeOK, Task, Queued, Wake, Push,
        FiberTask, countVars, ctlVars, jobVars, runVars
<1>6. HeldStates'
  BY NullAssumption DEF IInv, HeldStates, TypeOK, Task, Shapes, Owners,
        OneClaim, NoDangling, Claimed, Queued, Cur, Spare, Holding, Counted,
        NoTask, Finished, Wake, Push, FiberTask, countVars, ctlVars, jobVars,
        runVars
<1>7. NoDangling'
  BY NullAssumption DEF IInv, NoDangling, TypeOK, Task, HeldStates, Owners,
        OneClaim, Shapes, Claimed, Queued, Wake, Push, FiberTask, countVars,
        ctlVars, jobVars, runVars
<1>8. Bound'
  BY NullAssumption DEF IInv, Bound, TypeOK, Task, HeldStates, Shapes, Queued,
        Finished, Wake, Push, FiberTask, countVars, ctlVars, jobVars, runVars,
        OneClaim
<1> QED BY <1>1, <1>2, <1>3, <1>4, <1>5, <1>6, <1>7, <1>8 DEF IInv

\* A function is appended to the list.
LEMMA ScheduleCbInv ==
  ASSUME IInv, NEW c \in Callers, NEW j \in Jobs, NEW thread \in Workers \cup {AnyThread}, ScheduleCb(c, j, thread)
  PROVE  IInv'
<1>1. Counts' /\ m_activeThreadCount' \in Nat /\ m_idleThreadCount' \in Nat
  BY DEF IInv, TypeOK, Counts, ActiveCount, ScheduleCb, Push, CbTask,
        countVars, ctlVars, fiberVars, runVars
<1>2. TypeOK'
  BY <1>1 DEF IInv, TypeOK, Task, ScheduleCb, Push, CbTask, countVars,
        ctlVars, fiberVars, runVars
<1>3. Owners' /\ Outside'
  BY DEF IInv, Owners, Outside, NoTask, ScheduleCb, Push, CbTask, countVars,
        ctlVars, fiberVars, runVars
<1>4. Shapes'
  BY NullAssumption DEF IInv, Shapes, TypeOK, Task, Holding, Counted, NoTask,
        ScheduleCb, Push, CbTask, countVars, ctlVars, fiberVars, runVars
<1>5. OneClaim'
  BY NullAssumption DEF IInv, OneClaim, TypeOK, Task, Queued, ScheduleCb,
        Push, CbTask, countVars, ctlVars, fiberVars, runVars
<1>6. HeldStates'
  BY NullAssumption DEF IInv, HeldStates, TypeOK, Task, Shapes, Owners,
        OneClaim, NoDangling, Claimed, Queued, Cur, Spare, Holding, Counted,
        NoTask, Finished, ScheduleCb, Push, CbTask, countVars, ctlVars,
        fiberVars, runVars
<1>7. NoDangling'
  BY NullAssumption DEF IInv, NoDangling, TypeOK, Task, HeldStates, Owners,
        OneClaim, Shapes, Claimed, Queued, ScheduleCb, Push, CbTask,
        countVars, ctlVars, fiberVars, runVars
<1>8. Bound'
  BY NullAssumption DEF IInv, Bound, TypeOK, Task, HeldStates, Shapes, Queued,
        Finished, ScheduleCb, Push, CbTask, countVars, ctlVars, fiberVars,
        runVars
<1> QED BY <1>1, <1>2, <1>3, <1>4, <1>5, <1>6, <1>7, <1>8 DEF IInv

\* A new fiber is appended to the list.
LEMMA ScheduleFiberInv ==
  ASSUME IInv, NEW c \in Callers, NEW j \in Jobs, NEW f \in Fibers, NEW thread \in Workers \cup {AnyThread}, ScheduleFiber(c, j, f, thread)
  PROVE  IInv'
<1>1. Counts' /\ m_activeThreadCount' \in Nat /\ m_idleThreadCount' \in Nat
  BY DEF IInv, TypeOK, Counts, ActiveCount, ScheduleFiber, Push, FiberTask,
        countVars, ctlVars, runVars
<1>2. TypeOK'
  BY <1>1 DEF IInv, TypeOK, Task, State, ScheduleFiber, Push, FiberTask,
        countVars, ctlVars, runVars
<1>3. Owners' /\ Outside'
  BY DEF IInv, Owners, Outside, NoTask, ScheduleFiber, Push, FiberTask,
        countVars, ctlVars, runVars
<1>4. Shapes'
  BY NullAssumption DEF IInv, Shapes, TypeOK, Task, Holding, Counted, NoTask,
        Finished, ScheduleFiber, Push, FiberTask, countVars, ctlVars, runVars
<1>5. OneClaim'
  BY NullAssumption DEF IInv, OneClaim, TypeOK, Task, Queued, Finished,
        ScheduleFiber, Push, FiberTask, countVars, ctlVars, runVars,
        NoDangling, Claimed
<1>6. HeldStates'
  BY NullAssumption DEF IInv, HeldStates, TypeOK, Task, Shapes, Owners,
        OneClaim, NoDangling, Claimed, Queued, Cur, Spare, Holding, Counted,
        NoTask, Finished, ScheduleFiber, Push, FiberTask, countVars, ctlVars,
        runVars
<1>7. NoDangling'
  BY NullAssumption DEF IInv, NoDangling, TypeOK, Task, HeldStates, Owners,
        OneClaim, Shapes, Claimed, Queued, Finished, ScheduleFiber, Push,
        FiberTask, countVars, ctlVars, runVars
<1>8. Bound'
  BY NullAssumption DEF IInv, Bound, TypeOK, Task, HeldStates, Shapes, Queued,
        Finished, ScheduleFiber, Push, FiberTask, countVars, ctlVars, runVars
<1> QED BY <1>1, <1>2, <1>3, <1>4, <1>5, <1>6, <1>7, <1>8 DEF IInv

\* A finished fiber is appended to the list.
LEMMA ScheduleFinishedInv ==
  ASSUME IInv, NEW c \in Callers, NEW f \in Fibers, ScheduleFinished(c, f)
  PROVE  IInv'
<1>1. Counts' /\ m_activeThreadCount' \in Nat /\ m_idleThreadCount' \in Nat
  BY DEF IInv, TypeOK, Counts, ActiveCount, ScheduleFinished, Push, FiberTask,
        countVars, ctlVars, fiberVars, jobVars, runVars
<1>2. TypeOK'
  BY <1>1 DEF IInv, TypeOK, Task, ScheduleFinished, Push, FiberTask,
        countVars, ctlVars, fiberVars, jobVars, runVars
<1>3. Owners' /\ Outside'
  BY DEF IInv, Owners, Outside, NoTask, ScheduleFinished, Push, FiberTask,
        countVars, ctlVars, fiberVars, jobVars, runVars
<1>4. Shapes'
  BY NullAssumption DEF IInv, Shapes, TypeOK, Task, Holding, Counted, NoTask,
        ScheduleFinished, Push, FiberTask, countVars, ctlVars, fiberVars,
        jobVars, runVars
<1>5. OneClaim'
  BY NullAssumption DEF IInv, OneClaim, TypeOK, Task, Queued,
        ScheduleFinished, Push, FiberTask, countVars, ctlVars, fiberVars,
        jobVars, runVars, Finished
<1>6. HeldStates'
  BY NullAssumption DEF IInv, HeldStates, TypeOK, Task, Shapes, Owners,
        OneClaim, NoDangling, Claimed, Queued, Cur, Spare, Holding, Counted,
        NoTask, Finished, ScheduleFinished, Push, FiberTask, countVars,
        ctlVars, fiberVars, jobVars, runVars, Held
<1>7. NoDangling'
  BY NullAssumption DEF IInv, NoDangling, TypeOK, Task, HeldStates, Owners,
        OneClaim, Shapes, Claimed, Queued, ScheduleFinished, Push, FiberTask,
        countVars, ctlVars, fiberVars, jobVars, runVars, Finished
<1>8. Bound'
  BY NullAssumption DEF IInv, Bound, TypeOK, Task, HeldStates, Shapes, Queued,
        Finished, ScheduleFinished, Push, FiberTask, countVars, ctlVars,
        fiberVars, jobVars, runVars
<1> QED BY <1>1, <1>2, <1>3, <1>4, <1>5, <1>6, <1>7, <1>8 DEF IInv

\* The spare task_fiber is destroyed with the locals of run().
LEMMA LeaveInv ==
  ASSUME IInv, NEW t \in Workers, Leave(t)
  PROVE  IInv'
<1>1. Counts' /\ m_activeThreadCount' \in Nat /\ m_idleThreadCount' \in Nat
  BY GotoCounts DEF IInv, TypeOK, PC, Holding, Counted, Idling, Leave, Goto,
        countVars, ctlVars, jobVars
<1>2. TypeOK'
  BY <1>1 DEF IInv, TypeOK, PC, Holding, Counted, Idling, State, Leave, Goto,
        countVars, ctlVars, jobVars
<1>3. Shapes'
  BY NullAssumption DEF IInv, Shapes, TypeOK, Task, Holding, Counted, NoTask,
        Finished, Leave, Goto, countVars, ctlVars, jobVars
<1>4. Owners'
  BY NullAssumption DEF IInv, Owners, TypeOK, Task, NoTask, Finished, Leave,
        Goto, countVars, ctlVars, jobVars
<1>5. OneClaim'
  BY NullAssumption DEF IInv, OneClaim, TypeOK, Task, Queued, Finished, Leave,
        Goto, countVars, ctlVars, jobVars, HeldStates, Claimed, Spare,
        Holding, Counted
<1>6. HeldStates'
  BY NullAssumption DEF IInv, HeldStates, TypeOK, Task, Shapes, Owners,
        OneClaim, NoDangling, Claimed, Queued, Cur, Spare, Holding, Counted,
        NoTask, Finished, Leave, Goto, countVars, ctlVars, jobVars
<1>7. NoDangling'
  <2>1. task[t] = NoTask /\ (taskFiber[t] # NoFiber => Spare(t))
    BY DEF IInv, Shapes, Leave, Spare, Holding, Counted
  <2>2. taskFiber[t] # NoFiber =>
          /\ ~Claimed(taskFiber[t])
          /\ \A u \in Workers : taskFiber[t] # task[u].fiber
          /\ \A u \in Workers \ {t} : taskFiber[t] # taskFiber[u]
    BY <2>1 DEF IInv, HeldStates, Owners
  <2>3. \A f \in Fibers : Claimed(f)' = Claimed(f)
    BY DEF Leave, Claimed, Queued
  <2> QED BY <2>1, <2>2, <2>3, NullAssumption DEF IInv, TypeOK, NoDangling, Leave
<1>8. Bound'
  BY NullAssumption DEF IInv, Bound, TypeOK, Task, HeldStates, Shapes, Queued,
        Finished, Leave, Goto, countVars, ctlVars, jobVars
<1>9. Outside'
  BY NullAssumption DEF IInv, Outside, TypeOK, Finished, Leave, Goto,
        countVars, ctlVars, jobVars
<1> QED BY <1>1, <1>2, <1>3, <1>4, <1>5, <1>6, <1>7, <1>8, <1>9 DEF IInv

\* The thread is counted as idle.
LEMMA EnterIdleInv ==
  ASSUME IInv, NEW t \in Workers, EnterIdle(t)
  PROVE  IInv'
<1>1. Counts' /\ m_activeThreadCount' \in Nat /\ m_idleThreadCount' \in Nat
  BY GotoCounts DEF IInv, TypeOK, PC, Holding, Counted, Idling, EnterIdle,
        Goto, ctlVars, fiberVars, jobVars
<1>2. TypeOK'
  BY <1>1 DEF IInv, TypeOK, PC, Holding, Counted, Idling, EnterIdle, Goto,
        ctlVars, fiberVars, jobVars
<1>3. Owners' /\ OneClaim' /\ NoDangling' /\ Bound'
  BY DEF IInv, Owners, OneClaim, NoDangling, Bound, NoTask, Queued, Claimed,
        EnterIdle, Goto, ctlVars, fiberVars, jobVars
<1>4. Shapes'
  BY NullAssumption DEF IInv, Shapes, TypeOK, Task, Holding, Counted, NoTask,
        EnterIdle, Goto, ctlVars, fiberVars, jobVars
<1>5. HeldStates'
  BY NullAssumption DEF IInv, HeldStates, TypeOK, Task, Shapes, Owners,
        OneClaim, NoDangling, Claimed, Queued, Cur, Spare, Holding, Counted,
        NoTask, Finished, EnterIdle, Goto, ctlVars, fiberVars, jobVars
<1>6. Outside'
  BY NullAssumption DEF IInv, Outside, TypeOK, EnterIdle, Goto, ctlVars,
        fiberVars, jobVars
<1> QED BY <1>1, <1>2, <1>3, <1>4, <1>5, <1>6 DEF IInv

\* One turn of the idle fiber ends: it has returned (b) or yielded to run().
LEMMA IdleEndsInv ==
  ASSUME IInv, NEW t \in Workers, pc[t] = "idle", Goto(t, "idleExit"),
         NEW b \in BOOLEAN, idleDone' = [idleDone EXCEPT ![t] = b],
         UNCHANGED <<m_tasks, task, taskFiber, fiberVars, countVars, ctlVars, jobVars>>
  PROVE  IInv'
<1>1. Counts' /\ m_activeThreadCount' \in Nat /\ m_idleThreadCount' \in Nat
  BY GotoCounts DEF IInv, TypeOK, PC, Holding, Counted, Idling, countVars
<1>2. TypeOK'
  <2>1. idleDone' \in [Workers -> BOOLEAN]
    BY DEF IInv, TypeOK
  <2> QED BY <1>1, <2>1 DEF IInv, TypeOK, Goto, PC, Holding, Counted,
        Idling, fiberVars, countVars, ctlVars, jobVars
<1>3. Owners' /\ OneClaim' /\ NoDangling' /\ Bound'
  BY DEF IInv, Owners, OneClaim, NoDangling, Bound, NoTask, Queued, Claimed,
        fiberVars, jobVars
<1>4. Shapes'
  BY NullAssumption DEF IInv, Shapes, TypeOK, Task, Holding, Counted, NoTask, Goto
<1>5. HeldStates'
  BY NullAssumption DEF IInv, HeldStates, TypeOK, Task, Shapes, Owners,
        OneClaim, NoDangling, Claimed, Queued, Cur, Spare, Holding, Counted,
        NoTask, Finished, Goto, fiberVars
<1>6. Outside'
  BY DEF IInv, Outside, TypeOK, Goto, ctlVars
<1> QED BY <1>1, <1>2, <1>3, <1>4, <1>5, <1>6 DEF IInv

\* One turn of the idle fiber of Scheduler.
LEMMA IdleInv ==
  ASSUME IInv, NEW t \in Workers, Idle(t)
  PROVE  IInv'
<1>1. Stopping \in BOOLEAN
  BY DEF IInv, TypeOK, Stopping
<1> QED BY <1>1, IdleEndsInv DEF Idle

\* The thread is no longer counted as idle.
LEMMA ExitIdleInv ==
  ASSUME IInv, NEW t \in Workers, ExitIdle(t)
  PROVE  IInv'
<1>1. Counts' /\ m_activeThreadCount' \in Nat /\ m_idleThreadCount' \in Nat
  BY GotoCounts DEF IInv, TypeOK, PC, Holding, Counted, Idling, ExitIdle,
        Goto, ctlVars, fiberVars, jobVars
<1>2. TypeOK'
  BY <1>1 DEF IInv, TypeOK, PC, Holding, Counted, Idling, ExitIdle, Goto,
        ctlVars, fiberVars, jobVars
<1>3. Owners' /\ OneClaim' /\ NoDangling' /\ Bound'
  BY DEF IInv, Owners, OneClaim, NoDangling, Bound, NoTask, Queued, Claimed,
        ExitIdle, Goto, ctlVars, fiberVars, jobVars
<1>4. Shapes'
  BY NullAssumption DEF IInv, Shapes, TypeOK, Task, Holding, Counted, NoTask,
        ExitIdle, Goto, ctlVars, fiberVars, jobVars
<1>5. HeldStates'
  BY NullAssumption DEF IInv, HeldStates, TypeOK, Task, Shapes, Owners,
        OneClaim, NoDangling, Claimed, Queued, Cur, Spare, Holding, Counted,
        NoTask, Finished, ExitIdle, Goto, ctlVars, fiberVars, jobVars
<1>6. Outside'
  BY NullAssumption DEF IInv, Outside, TypeOK, ExitIdle, Goto, ctlVars,
        fiberVars, jobVars
<1> QED BY <1>1, <1>2, <1>3, <1>4, <1>5, <1>6 DEF IInv

\* start(): no thread was in run().
LEMMA StartInv ==
  ASSUME IInv, Start
  PROVE  IInv'
<1>1. Counts' /\ m_activeThreadCount' \in Nat /\ m_idleThreadCount' \in Nat
  <2>1. \A t \in Workers : /\ pc[t] \notin Counted \cup Idling
                            /\ pc'[t] \notin Counted \cup Idling
    BY DEF IInv, TypeOK, Outside, Start, Pool, Counted, Idling
  <2>2. /\ {t \in Workers : pc'[t] \in Counted} = {t \in Workers : pc[t] \in Counted}
        /\ {t \in Workers : pc'[t] \in Idling} = {t \in Workers : pc[t] \in Idling}
    BY <2>1
  <2> QED BY <2>2 DEF IInv, TypeOK, Counts, ActiveCount, Start, countVars
<1>2. TypeOK'
  BY <1>1 DEF IInv, TypeOK, PC, Holding, Counted, Idling, Start, countVars,
        fiberVars, jobVars
<1>3. Owners' /\ OneClaim' /\ NoDangling' /\ Bound'
  BY DEF IInv, Owners, OneClaim, NoDangling, Bound, NoTask, Queued, Claimed,
        Start, countVars, fiberVars, jobVars
<1>4. Shapes'
  BY NullAssumption DEF IInv, Shapes, TypeOK, Task, Holding, Counted, NoTask,
        Start, countVars, fiberVars, jobVars, Outside, Pool
<1>5. HeldStates'
  BY NullAssumption DEF IInv, HeldStates, TypeOK, Task, Shapes, Owners,
        OneClaim, NoDangling, Claimed, Queued, Cur, Spare, Holding, Counted,
        NoTask, Finished, Start, countVars, fiberVars, jobVars, Outside, Pool
<1>6. Outside'
  BY NullAssumption, RootAssumption, WorkersAssumption DEF IInv, Outside,
        TypeOK, Start, countVars, fiberVars, jobVars, Pool
<1> QED BY <1>1, <1>2, <1>3, <1>4, <1>5, <1>6 DEF IInv

\* stop() sets m_autoStop.
LEMMA StopAutoInv ==
  ASSUME IInv, StopAuto
  PROVE  IInv'
<1>1. Counts' /\ m_activeThreadCount' \in Nat /\ m_idleThreadCount' \in Nat
  BY DEF IInv, TypeOK, Counts, ActiveCount, StopAuto, countVars, fiberVars,
        jobVars, runVars
<1>2. TypeOK'
  BY <1>1 DEF IInv, TypeOK, StopAuto, countVars, fiberVars, jobVars, runVars
<1>3. Shapes' /\ Owners' /\ OneClaim' /\ HeldStates' /\ NoDangling' /\ Bound'
  BY DEF IInv, Shapes, Owners, OneClaim, HeldStates, NoDangling, Bound,
        Holding, Counted, NoTask, Queued, Claimed, Cur, Spare, StopAuto,
        countVars, fiberVars, jobVars, runVars
<1>4. Outside'
  BY NullAssumption DEF IInv, Outside, TypeOK, StopAuto, countVars, fiberVars,
        jobVars, runVars
<1> QED BY <1>1, <1>2, <1>3, <1>4 DEF IInv

\* stop() sets m_stopping.
LEMMA StopMarkInv ==
  ASSUME IInv, NEW quiet \in BOOLEAN, StopMark(quiet)
  PROVE  IInv'
<1>1. Counts' /\ m_activeThreadCount' \in Nat /\ m_idleThreadCount' \in Nat
  BY DEF IInv, TypeOK, Counts, ActiveCount, StopMark, countVars, fiberVars,
        jobVars, runVars
<1>2. TypeOK'
  BY <1>1 DEF IInv, TypeOK, StopMark, countVars, fiberVars, jobVars, runVars
<1>3. Shapes' /\ Owners' /\ OneClaim' /\ HeldStates' /\ NoDangling' /\ Bound'
  BY DEF IInv, Shapes, Owners, OneClaim, HeldStates, NoDangling, Bound,
        Holding, Counted, NoTask, Queued, Claimed, Cur, Spare, StopMark,
        countVars, fiberVars, jobVars, runVars
<1>4. Outside'
  BY NullAssumption DEF IInv, Outside, TypeOK, StopMark, countVars, fiberVars,
        jobVars, runVars
<1> QED BY <1>1, <1>2, <1>3, <1>4 DEF IInv

\* The root thread, which was not in run(), enters it from stop().
LEMMA StopCallRootInv ==
  ASSUME IInv, NEW quiet \in BOOLEAN, StopCallRoot(quiet)
  PROVE  IInv'
<1>1. Counts' /\ m_activeThreadCount' \in Nat /\ m_idleThreadCount' \in Nat
  <2>1. CASE pc' = pc
    BY <2>1 DEF IInv, TypeOK, Counts, ActiveCount, StopCallRoot, countVars
  <2>2. CASE Root \in Workers /\ Goto(Root, "scan") /\ pc[Root] = "off"
    BY <2>2, GotoCounts DEF IInv, PC, Holding, Counted, Idling, StopCallRoot,
        countVars
  <2> QED BY <2>1, <2>2, RootAssumption DEF IInv, Outside, StopCallRoot
<1>2. TypeOK'
  BY <1>1, RootAssumption DEF IInv, TypeOK, PC, Holding, Counted, Idling,
        StopCallRoot, Goto, countVars, fiberVars, jobVars
<1>3. Owners' /\ OneClaim' /\ NoDangling' /\ Bound'
  BY DEF IInv, Owners, OneClaim, NoDangling, Bound, NoTask, Queued, Claimed,
        StopCallRoot, Goto, countVars, fiberVars, jobVars
<1>4. Shapes'
  BY NullAssumption, RootAssumption DEF IInv, Shapes, TypeOK, Task, Holding,
        Counted, NoTask, StopCallRoot, Goto, countVars, fiberVars, jobVars,
        Outside
<1>5. HeldStates'
  BY NullAssumption, RootAssumption DEF IInv, HeldStates, TypeOK, Task,
        Shapes, Owners, OneClaim, NoDangling, Claimed, Queued, Cur, Spare,
        Holding, Counted, NoTask, Finished, StopCallRoot, Goto, countVars,
        fiberVars, jobVars, Outside
<1>6. Outside'
  BY NullAssumption, RootAssumption DEF IInv, Outside, TypeOK, StopCallRoot,
        Goto, countVars, fiberVars, jobVars
<1> QED BY <1>1, <1>2, <1>3, <1>4, <1>5, <1>6 DEF IInv

\* stop() goes on after the root fiber.
LEMMA StopRootReturnedInv ==
  ASSUME IInv, StopRootReturned
  PROVE  IInv'
<1>1. Counts' /\ m_activeThreadCount' \in Nat /\ m_idleThreadCount' \in Nat
  BY DEF IInv, TypeOK, Counts, ActiveCount, StopRootReturned, countVars,
        fiberVars, jobVars, runVars
<1>2. TypeOK'
  BY <1>1 DEF IInv, TypeOK, StopRootReturned, countVars, fiberVars, jobVars,
        runVars
<1>3. Shapes' /\ Owners' /\ OneClaim' /\ HeldStates' /\ NoDangling' /\ Bound'
  BY DEF IInv, Shapes, Owners, OneClaim, HeldStates, NoDangling, Bound,
        Holding, Counted, NoTask, Queued, Claimed, Cur, Spare,
        StopRootReturned, countVars, fiberVars, jobVars, runVars
<1>4. Outside'
  BY NullAssumption DEF IInv, Outside, TypeOK, StopRootReturned, countVars,
        fiberVars, jobVars, runVars
<1> QED BY <1>1, <1>2, <1>3, <1>4 DEF IInv

\* stop() returns.
LEMMA StopJoinInv ==
  ASSUME IInv, StopJoin
  PROVE  IInv'
<1>1. Counts' /\ m_activeThreadCount' \in Nat /\ m_idleThreadCount' \in Nat
  BY DEF IInv, TypeOK, Counts, ActiveCount, StopJoin, countVars, fiberVars,
        jobVars, runVars
<1>2. TypeOK'
  BY <1>1 DEF IInv, TypeOK, StopJoin, countVars, fiberVars, jobVars, runVars
<1>3. Shapes' /\ Owners' /\ OneClaim' /\ HeldStates' /\ NoDangling' /\ Bound'
  BY DEF IInv, Shapes, Owners, OneClaim, HeldStates, NoDangling, Bound,
        Holding, Counted, NoTask, Queued, Claimed, Cur, Spare, StopJoin,
        countVars, fiberVars, jobVars, runVars
<1>4. Outside'
  BY NullAssumption DEF IInv, Outside, TypeOK, StopJoin, countVars, fiberVars,
        jobVars, runVars
<1> QED BY <1>1, <1>2, <1>3, <1>4 DEF IInv

\* The parts of IInv only speak of the variables.
LEMMA StutterInv ==
  ASSUME IInv, UNCHANGED vars
  PROVE  IInv'
BY DEF IInv, TypeOK, Counts, ActiveCount, Shapes, Owners, OneClaim, HeldStates,
   NoDangling, Bound, Outside, Claimed, Queued, Cur, Spare, vars, runVars,
   fiberVars, countVars, ctlVars, jobVars

\* IInv holds in the scheduler that the constructor makes.
LEMMA InitInv == Init => IInv
<1> SUFFICES ASSUME Init PROVE IInv
  OBVIOUS
<1>1. Counts
  <2>1. {t \in Workers : pc[t] \in Counted} = {}
    BY DEF Init, Counted
  <2>2. {t \in Workers : pc[t] \in Idling} = {}
    BY DEF Init, Idling
  <2> QED BY <2>1, <2>2, FS_EmptySet DEF Init, Counts, ActiveCount
<1>2. TypeOK
  <2>1. m_tasks \in Seq(Task) /\ task \in [Workers -> Task]
    BY DEF Init, Task, NoTask
  <2>2. fstate \in [Fibers -> State \cup {"FREE"}] /\ pc \in [Workers -> PC]
    BY DEF Init, PC
  <2>3. waker \in [Fibers -> BOOLEAN] /\ idleDone \in [Workers -> BOOLEAN]
    BY DEF Init
  <2> QED BY <2>1, <2>2, <2>3 DEF Init, TypeOK
<1>3. Shapes /\ Owners /\ OneClaim
  BY DEF Init, Shapes, Owners, OneClaim, NoTask, Holding, Counted
<1>4. HeldStates
  BY DEF Init, HeldStates, Spare
<1>5. NoDangling
  BY NullAssumption DEF Init, NoDangling, Claimed, Queued, NoTask
<1>6. Bound /\ Outside
  BY NullAssumption DEF Init, Bound, Outside
<1> QED BY <1>1, <1>2, <1>3, <1>4, <1>5, <1>6 DEF IInv

\* Every step of Next preserves IInv.
LEMMA NextInv == IInv /\ [Next]_vars => IInv'
<1> SUFFICES ASSUME IInv, [Next]_vars PROVE IInv'
  OBVIOUS
<1>1. CASE UNCHANGED vars
  BY <1>1, StutterInv
<1>2. ASSUME NEW t \in Workers, RunStep(t) PROVE IInv'
  BY <1>2, TakeInv, MissInv, CallFiberInv, CallCbInv, DropFinishedInv, BackInv,
     UncountInv, RequeueInv, HoldInv, EndedInv DEF RunStep
<1>3. ASSUME NEW t \in Workers, UserStep(t) PROVE IInv'
  BY <1>3, YieldToReadyInv, AwaitInv, FinishInv, SwitchToInv, PinsAssumption
     DEF UserStep
<1>4. ASSUME NEW t \in Workers, IdleStep(t) PROVE IInv'
  BY <1>4, LeaveInv, EnterIdleInv, IdleInv, ExitIdleInv DEF IdleStep
<1>5. ASSUME NEW f \in Fibers, Wake(f) \/ Destroy(f) PROVE IInv'
  BY <1>5, WakeInv, DestroyInv
<1>6. ASSUME NEW c \in Callers, Submit(c) PROVE IInv'
  BY <1>6, ScheduleCbInv, ScheduleFiberInv, ScheduleFinishedInv, PinsAssumption
     DEF Submit
<1>7. CASE Start \/ StopAuto
  BY <1>7, StartInv, StopAutoInv
<1>8. CASE StopStep
  BY <1>8, StopMarkInv, StopCallRootInv, StopRootReturnedInv, StopJoinInv
     DEF StopStep
<1> QED BY <1>1, <1>2, <1>3, <1>4, <1>5, <1>6, <1>7, <1>8 DEF Next

\* Every pointer to a fiber is accounted for in every reachable state of the
\* scheduler: IInv is an invariant.
THEOREM Accounted == Spec => []IInv
BY InitInv, NextInv, PTL DEF Spec

\* The members of Scheduler and the locals of run() keep their types; the two
\* counters never fall below zero.
THEOREM TypeCorrect == Spec => []TypeOK
<1>1. IInv => TypeOK
  BY DEF IInv
<1> QED BY <1>1, Accounted, PTL

\* No two threads of the scheduler ever have the same fiber in hand.
THEOREM OneExecutorPerFiber == Spec => []OneExecutor
<1>1. IInv => OneExecutor
  BY DEF IInv, Owners, OneExecutor, Cur
<1> QED BY <1>1, Accounted, PTL

\* stopping() reads in m_activeThreadCount how many threads have a task.
THEOREM ActiveThreadsCounted == Spec => []ActiveCount
<1>1. IInv => ActiveCount
  BY DEF IInv, Counts
<1> QED BY <1>1, Accounted, PTL

\* The assertion of Fiber::reset holds whenever run() binds the next callback to
\* task_fiber, and nobody else refers to that fiber.
THEOREM TaskFiberIsSpare == Spec => []ResetAllowed
<1>1. ASSUME IInv PROVE ResetAllowed
  <2>1. SUFFICES ASSUME NEW t \in Workers, pc[t] \notin Holding, taskFiber[t] # NoFiber
                 PROVE  /\ fstate[taskFiber[t]] = "INIT"
                        /\ ~Queued(taskFiber[t])
                        /\ ~waker[taskFiber[t]]
                        /\ \A u \in Workers \ {t} : Cur(u) # taskFiber[t]
    BY DEF ResetAllowed
  <2>2. Spare(t)
    BY <2>1 DEF Spare
  <2>3. \A u \in Workers \ {t} : Cur(u) # taskFiber[t]
    BY <1>1, <2>1 DEF IInv, Owners, Cur
  <2> QED BY <1>1, <2>2, <2>3 DEF IInv, HeldStates, Claimed
<1> QED BY <1>1, Accounted, PTL

-----------------------------------------------------------------------------
(***************************************************************************)
(* LeaveInvs and NotAbandoned: the threads that leave run() leave nothing  *)
(* in the list that they could have taken.                                 *)
(***************************************************************************)

\* LeaveInvs speaks of the threads, the states of the fibers and the owner only.
LEMMA LeaveStutter ==
  ASSUME LeaveInvs, UNCHANGED <<pc, task, taskFiber, idleDone, fstate, ctlVars>>
  PROVE  LeaveInvs' /\ (Served' <=> Served)
BY DEF LeaveInvs, CtlFlags, Departed, ExecHeld, Cur, ctlVars, Served, Coming

\* A thread that takes a step inside run() has not gone, and keeps what ExecHeld says of
\* the fiber it has in hand.
LEMMA StepLeave ==
  ASSUME IInv, LeaveInvs, NEW t \in Workers, pc[t] \notin {"off", "done"},
         NEW to \in PC \ {"off", "done"}, Goto(t, to),
         \A u \in Workers \ {t} : task'[u] = task[u] /\ taskFiber'[u] = taskFiber[u],
         UNCHANGED <<idleDone, ctlVars>>,
         \A f \in Fibers : fstate'[f] = "EXEC" =>
           \/ fstate[f] = "EXEC" /\ ~(pc[t] \in Holding \ {"dispatch"} /\ Cur(t) = f)
           \/ to \in Holding \ {"dispatch"} /\ Cur(t)' = f
  PROVE  LeaveInvs' /\ (to # "missed" => Served')
<1>1. pc'[t] = to /\ \A u \in Workers \ {t} : pc'[u] = pc[u] /\ Cur(u)' = Cur(u)
  BY DEF IInv, TypeOK, Goto, Cur
<1>2. CtlFlags'
  BY DEF LeaveInvs, CtlFlags, ctlVars
<1>3. Departed'
  BY <1>1 DEF LeaveInvs, Departed, ctlVars, Pool
<1>4. ExecHeld'
  <2>1. SUFFICES ASSUME NEW f \in Fibers, fstate'[f] = "EXEC"
                 PROVE  \E u \in Workers : pc'[u] \in Holding \ {"dispatch"} /\ Cur(u)' = f
    BY DEF ExecHeld
  <2>2. CASE fstate[f] = "EXEC" /\ ~(pc[t] \in Holding \ {"dispatch"} /\ Cur(t) = f)
    <3>1. PICK u \in Workers : pc[u] \in Holding \ {"dispatch"} /\ Cur(u) = f
      BY <2>2 DEF LeaveInvs, ExecHeld
    <3> QED BY <1>1, <2>2, <3>1
  <2> QED BY <1>1, <2>1, <2>2
<1>5. to # "missed" => Coming(t)'
  BY <1>1 DEF Coming
<1> QED BY <1>2, <1>3, <1>4, <1>5 DEF LeaveInvs, Served

\* Taking a task, calling a fiber and looking at it afterwards.
LEMMA RunLeave ==
  ASSUME IInv, LeaveInvs, NEW t \in Workers,
         \/ Take(t) \/ CallFiber(t) \/ CallCb(t) \/ DropFinished(t) \/ Back(t)
         \/ Uncount(t) \/ Requeue(t) \/ Hold(t) \/ Ended(t)
  PROVE  LeaveInvs' /\ Served'
<1>1. CASE Take(t)
  <2>1. \A u \in Workers \ {t} : task'[u] = task[u] /\ taskFiber'[u] = taskFiber[u]
    BY <1>1 DEF Take, IInv, TypeOK
  <2> QED BY <1>1, <2>1, StepLeave DEF Take, PC, Holding, Counted, fiberVars
<1>2. CASE CallFiber(t)
  <2>1. Cur(t)' = task[t].fiber
    BY <1>2 DEF CallFiber, Cur
  <2> QED BY <1>2, <2>1, StepLeave DEF CallFiber, IInv, TypeOK, PC, Holding, Counted
<1>3. CASE CallCb(t)
  <2>1. PICK f \in Fibers : /\ taskFiber' = [taskFiber EXCEPT ![t] = f]
                            /\ fstate' = [fstate EXCEPT ![f] = "EXEC"]
    BY <1>3 DEF CallCb
  <2>2. Cur(t)' = f
    BY <1>3, <2>1 DEF CallCb, Cur, NoTask, IInv, TypeOK
  <2>3. /\ \A u \in Workers \ {t} : task'[u] = task[u] /\ taskFiber'[u] = taskFiber[u]
        /\ \A g \in Fibers : fstate'[g] = "EXEC" => fstate[g] = "EXEC" \/ g = f
    BY <1>3, <2>1 DEF CallCb, IInv, TypeOK
  <2> QED BY <1>3, <2>2, <2>3, StepLeave DEF CallCb, PC, Holding, Counted
<1>4. CASE DropFinished(t)
  BY <1>4, StepLeave DEF DropFinished, IInv, TypeOK, PC, Holding, Counted, fiberVars
<1>5. CASE Back(t)
  <2>1. Cur(t)' = Cur(t)
    BY <1>5 DEF Back, Cur
  <2> QED BY <1>5, <2>1, StepLeave DEF Back, PC, Holding, Counted, fiberVars
<1>6. CASE Uncount(t)
  <2>1. Cur(t)' = Cur(t)
    BY <1>6 DEF Uncount, Cur
  <2> QED BY <1>6, <2>1, StepLeave DEF Uncount, PC, Holding, Counted, fiberVars
<1>7. CASE Requeue(t)
  <2>1. \A u \in Workers \ {t} : task'[u] = task[u] /\ taskFiber'[u] = taskFiber[u]
    BY <1>7 DEF Requeue, IInv, TypeOK
  <2> QED BY <1>7, <2>1, StepLeave DEF Requeue, PC, Holding, Counted, fiberVars
<1>8. CASE Hold(t)
  <2>1. Cur(t) \in Fibers
    BY <1>8, CurIsFiber DEF Hold, IInv, Holding, Counted
  <2>2. /\ \A u \in Workers \ {t} : task'[u] = task[u] /\ taskFiber'[u] = taskFiber[u]
        /\ \A f \in Fibers : fstate'[f] = "EXEC" => fstate[f] = "EXEC" /\ Cur(t) # f
    BY <1>8, <2>1 DEF Hold, IInv, TypeOK
  <2> QED BY <1>8, <2>2, StepLeave DEF Hold, PC, Holding, Counted
<1>9. CASE Ended(t)
  <2>1. Cur(t) \in Fibers
    BY <1>9, CurIsFiber DEF Ended, IInv, Holding, Counted
  <2>2. \A f \in Fibers : fstate'[f] = "EXEC" => fstate[f] = "EXEC" /\ Cur(t) # f
    BY <1>9, <2>1 DEF Ended, IInv, TypeOK, Finished
  <2>3. \A u \in Workers \ {t} : task'[u] = task[u] /\ taskFiber'[u] = taskFiber[u]
    BY <1>9 DEF Ended, IInv, TypeOK
  <2> QED BY <1>9, <2>2, <2>3, StepLeave DEF Ended, PC, Holding, Counted
<1> QED BY <1>1, <1>2, <1>3, <1>4, <1>5, <1>6, <1>7, <1>8, <1>9

\* Yielding, waiting, migrating and ending.
LEMMA UserLeave ==
  ASSUME IInv, LeaveInvs, NEW t \in Workers,
         \/ YieldToReady(t) \/ Await(t) \/ Finish(t) \/ \E u \in Pins : SwitchTo(t, u)
  PROVE  LeaveInvs' /\ Served'
<1>1. Cur(t) \in Fibers /\ Cur(t)' = Cur(t)
  <2>1. pc[t] = "exec" /\ UNCHANGED <<task, taskFiber>>
    BY DEF YieldToReady, Await, Finish, SwitchTo
  <2> QED BY <2>1, CurIsFiber DEF IInv, Holding, Counted, Cur
<1>2. CASE YieldToReady(t)
  <2>1. \A f \in Fibers : fstate'[f] = "EXEC" => fstate[f] = "EXEC" /\ Cur(t) # f
    BY <1>1, <1>2 DEF YieldToReady, IInv, TypeOK
  <2> QED BY <1>2, <2>1, StepLeave DEF YieldToReady, PC, Holding, Counted
<1>3. CASE Await(t)
  BY <1>1, <1>3, StepLeave DEF Await, PC, Holding, Counted
<1>4. CASE Finish(t)
  <2>1. \A f \in Fibers : fstate'[f] = "EXEC" => fstate[f] = "EXEC" /\ Cur(t) # f
    BY <1>1, <1>4 DEF Finish, IInv, TypeOK
  <2> QED BY <1>4, <2>1, StepLeave DEF Finish, PC, Holding, Counted
<1>5. ASSUME NEW u \in Pins, SwitchTo(t, u) PROVE LeaveInvs' /\ Served'
  BY <1>1, <1>5, StepLeave DEF SwitchTo, PC, Holding, Counted, fiberVars
<1> QED BY <1>2, <1>3, <1>4, <1>5

\* A thread that finds nothing leaves behind at most entries whose fiber another thread
\* has in hand, and that thread comes back.
LEMMA MissLeave ==
  ASSUME IInv, LeaveInvs, NEW t \in Workers, Miss(t)
  PROVE  /\ LeaveInvs'
         /\ (\E i \in DOMAIN m_tasks' : m_tasks'[i].thread = AnyThread) => Served'
<1>1. LeaveInvs'
  BY StepLeave DEF Miss, PC, Holding, Counted, fiberVars
<1>2. ASSUME NEW i \in DOMAIN m_tasks, m_tasks[i].thread = AnyThread PROVE Served'
  <2>1. m_tasks[i].fiber # NoFiber /\ fstate[m_tasks[i].fiber] = "EXEC"
    BY <1>2 DEF Miss, Takeable
  <2>2. m_tasks[i].fiber \in Fibers
    <3>1. m_tasks[i] \in Task
      BY <1>2 DEF IInv, TypeOK
    <3> QED BY <2>1, <3>1 DEF Task
  <2>3. PICK u \in Workers : pc[u] \in Holding \ {"dispatch"}
    BY <2>1, <2>2 DEF LeaveInvs, ExecHeld
  <2>4. Coming(u)'
    BY <2>3 DEF Miss, Goto, IInv, TypeOK, Coming, Holding, Counted
  <2> QED BY <2>4 DEF Served
<1> QED BY <1>1, <1>2 DEF Miss

\* A thread that leaves run() had stopped coming when it found nothing.
LEMMA LeaveLeave ==
  ASSUME IInv, LeaveInvs, NEW t \in Workers, Leave(t)
  PROVE  /\ LeaveInvs'
         /\ Served => Served'
         /\ \A f \in Fibers : fstate'[f] # fstate[f] => fstate[f] = "INIT"
<1>1. /\ pc[t] = "missed" /\ pc'[t] = "done" /\ idleDone[t]
      /\ \A u \in Workers \ {t} : /\ pc'[u] = pc[u] /\ taskFiber'[u] = taskFiber[u]
                                  /\ Cur(u)' = Cur(u)
      /\ UNCHANGED <<idleDone, ctlVars>>
  BY DEF Leave, Goto, Cur, IInv, TypeOK
<1>2. ASSUME NEW f \in Fibers, fstate'[f] # fstate[f]
      PROVE  fstate[f] = "INIT" /\ fstate'[f] = "FREE"
  <2>1. f = taskFiber[t] /\ fstate'[f] = "FREE"
    BY <1>2 DEF Leave
  <2>2. Spare(t)
    BY <1>1, <2>1, NullAssumption DEF Spare, Holding, Counted
  <2> QED BY <2>1, <2>2 DEF IInv, HeldStates
<1>3. CtlFlags'
  BY <1>1 DEF LeaveInvs, CtlFlags, ctlVars
<1>4. Departed'
  BY <1>1 DEF LeaveInvs, Departed, ctlVars, Pool
<1>5. ExecHeld'
  <2>1. SUFFICES ASSUME NEW f \in Fibers, fstate'[f] = "EXEC"
                 PROVE  \E u \in Workers : pc'[u] \in Holding \ {"dispatch"} /\ Cur(u)' = f
    BY DEF ExecHeld
  <2>2. fstate[f] = "EXEC"
    BY <1>2, <2>1
  <2>3. PICK u \in Workers : pc[u] \in Holding \ {"dispatch"} /\ Cur(u) = f
    BY <2>2 DEF LeaveInvs, ExecHeld
  <2> QED BY <1>1, <2>3 DEF Holding, Counted
<1>6. Served => Served'
  BY <1>1 DEF Served, Coming, ctlVars
<1> QED BY <1>2, <1>3, <1>4, <1>5, <1>6 DEF LeaveInvs

\* Entering and leaving the idle fiber.
LEMMA IdleLeave ==
  ASSUME IInv, LeaveInvs, NEW t \in Workers, EnterIdle(t) \/ ExitIdle(t)
  PROVE  LeaveInvs' /\ Served'
<1>1. CASE EnterIdle(t)
  BY <1>1, StepLeave DEF EnterIdle, PC, Holding, Counted, Idling, fiberVars
<1>2. CASE ExitIdle(t)
  BY <1>2, StepLeave DEF ExitIdle, PC, Holding, Counted, Idling, fiberVars
<1> QED BY <1>1, <1>2

\* The idle fiber ends only when stopping() holds, inside stop().
LEMMA IdleEndsLeave ==
  ASSUME IInv, LeaveInvs, NEW t \in Workers, pc[t] = "idle", Goto(t, "idleExit"),
         NEW b \in BOOLEAN, b => Stopping,
         idleDone' = [idleDone EXCEPT ![t] = b],
         UNCHANGED <<task, taskFiber, fstate, ctlVars>>
  PROVE  LeaveInvs' /\ Served'
<1>1. /\ pc'[t] = "idleExit" /\ idleDone'[t] = b
      /\ \A u \in Workers \ {t} : pc'[u] = pc[u] /\ idleDone'[u] = idleDone[u]
      /\ \A u \in Workers : Cur(u)' = Cur(u)
  BY DEF Goto, Cur, IInv, TypeOK
<1>2. CtlFlags'
  <2>1. b => ctl \in {"marked", "root", "join", "stopped"}
    BY DEF Stopping, LeaveInvs, CtlFlags, IInv, TypeOK
  <2> QED BY <1>1, <2>1 DEF LeaveInvs, CtlFlags, ctlVars
<1>3. Departed'
  BY <1>1 DEF LeaveInvs, Departed, ctlVars, Pool
<1>4. ExecHeld'
  BY <1>1 DEF LeaveInvs, ExecHeld, Holding, Counted
<1>5. Served'
  BY <1>1 DEF Served, Coming
<1> QED BY <1>2, <1>3, <1>4, <1>5 DEF LeaveInvs

\* Until stop() has marked the scheduler somebody takes what is in the list.
LEMMA StartedServed ==
  ASSUME IInv, LeaveInvs, ctl \in {"new", "started", "auto"}
  PROVE  Served
<1>1. CASE ctl = "new" \/ Root \in Workers
  BY <1>1 DEF Served
<1>2. CASE ctl # "new" /\ Root \notin Workers
  <2>1. PICK t \in Workers : t \in Pool
    BY <1>2, WorkersAssumption DEF Pool
  <2>2. pc[t] # "off" /\ ~idleDone[t]
    BY <1>2, <2>1 DEF LeaveInvs, Departed, CtlFlags
  <2>3. Coming(t)
    BY <2>2 DEF Coming, LeaveInvs, Departed
  <2> QED BY <2>3 DEF Served
<1> QED BY <1>1, <1>2

\* Whoever calls schedule() comes back to the scan or has not called stop() yet.
LEMMA SubmitServed ==
  ASSUME IInv, LeaveInvs, NEW c \in Callers, MaySubmit(c)
  PROVE  Served
<1>1. CASE c \in Workers
  BY <1>1 DEF MaySubmit, Served, Coming
<1>2. CASE c \notin Workers
  BY <1>2, StartedServed DEF MaySubmit
<1> QED BY <1>1, <1>2

\* The calls of schedule() that bring new work.
LEMMA SubmitLeave ==
  ASSUME IInv, LeaveInvs, NEW c \in Callers, Submit(c)
  PROVE  LeaveInvs' /\ Served'
<1>1. ASSUME NEW j \in Jobs, NEW u \in Pins, ScheduleCb(c, j, u)
      PROVE  LeaveInvs' /\ Served'
  BY <1>1, SubmitServed, LeaveStutter DEF ScheduleCb, runVars, fiberVars
<1>2. ASSUME NEW j \in Jobs, NEW f \in Fibers, NEW u \in Pins, ScheduleFiber(c, j, f, u)
      PROVE  LeaveInvs' /\ Served'
  <2>1. \A g \in Fibers : fstate'[g] = "EXEC" => fstate[g] = "EXEC"
    BY <1>2 DEF ScheduleFiber, IInv, TypeOK
  <2>2. Served
    BY <1>2, SubmitServed DEF ScheduleFiber
  <2> QED BY <1>2, <2>1, <2>2 DEF ScheduleFiber, runVars, ctlVars, LeaveInvs, CtlFlags,
        Departed, ExecHeld, Cur, Served, Coming
<1>3. ASSUME NEW f \in Fibers, ScheduleFinished(c, f) PROVE LeaveInvs' /\ Served'
  BY <1>3, SubmitServed, LeaveStutter DEF ScheduleFinished, runVars, fiberVars
<1> QED BY <1>1, <1>2, <1>3 DEF Submit

\* A fiber that is destroyed was not executing.
LEMMA DestroyLeave ==
  ASSUME IInv, LeaveInvs, NEW f \in Fibers, Destroy(f)
  PROVE  LeaveInvs' /\ (Served => Served')
<1>1. \A g \in Fibers : fstate'[g] = "EXEC" => fstate[g] = "EXEC"
  BY DEF Destroy, IInv, TypeOK
<1> QED BY <1>1 DEF Destroy, runVars, ctlVars, LeaveInvs, CtlFlags, Departed, ExecHeld,
      Cur, Served, Coming

\* start() puts the threads of the pool into run().
LEMMA StartLeave ==
  ASSUME IInv, LeaveInvs, Start
  PROVE  LeaveInvs' /\ Served'
<1>1. \A t \in Workers : pc[t] = "off" /\ pc'[t] = IF t \in Pool THEN "scan" ELSE "off"
  BY DEF Start, IInv, Outside
<1>2. CtlFlags'
  BY DEF Start, LeaveInvs, CtlFlags
<1>3. Departed'
  BY <1>1 DEF Start, Departed, Pool
<1>4. ExecHeld'
  BY <1>1 DEF Start, LeaveInvs, ExecHeld, fiberVars, Holding, Counted
<1>5. Served'
  <2>1. CASE Root \in Workers
    BY <2>1 DEF Start, Served
  <2>2. CASE Root \notin Workers
    <3>1. PICK t \in Workers : t \in Pool
      BY <2>2, WorkersAssumption DEF Pool
    <3> QED BY <1>1, <3>1 DEF Served, Coming
  <2> QED BY <2>1, <2>2
<1> QED BY <1>2, <1>3, <1>4, <1>5 DEF LeaveInvs

\* The steps of stop().
LEMMA StopLeave ==
  ASSUME IInv, LeaveInvs, NEW quiet \in BOOLEAN,
         StopAuto \/ StopMark(quiet) \/ StopCallRoot(quiet) \/ StopRootReturned \/ StopJoin
  PROVE  /\ LeaveInvs'
         /\ Served /\ m_tasks # <<>> => Served'
<1>1. CASE StopAuto
  BY <1>1 DEF StopAuto, runVars, fiberVars, LeaveInvs, CtlFlags, Departed, ExecHeld, Cur,
     Served, Coming
<1>2. CASE StopMark(quiet)
  <2>1. /\ UNCHANGED <<pc, task, taskFiber, idleDone, fstate, m_autoStop>>
        /\ ctl = "auto" /\ ctl' \in {"marked", "stopped"}
        /\ ctl' = "stopped" => Pool = {} /\ m_tasks = <<>>
    BY <1>2 DEF StopMark, runVars, fiberVars
  <2>2. ExecHeld' /\ CtlFlags'
    BY <2>1 DEF LeaveInvs, ExecHeld, CtlFlags, Cur
  <2>3. Departed'
    BY <2>1 DEF LeaveInvs, Departed, IInv, Outside
  <2> QED BY <2>1, <2>2, <2>3 DEF LeaveInvs, Served, Coming
<1>3. CASE StopCallRoot(quiet)
  <2>1. /\ UNCHANGED <<task, taskFiber, idleDone, fstate, m_stopping, m_autoStop>>
        /\ ctl = "marked"
    BY <1>3 DEF StopCallRoot, fiberVars
  <2>2. CASE Root \in Workers /\ Goto(Root, "scan") /\ ctl' = "root"
    <3>1. /\ pc[Root] = "off" /\ pc'[Root] = "scan"
          /\ \A u \in Workers \ {Root} : pc'[u] = pc[u]
      BY <2>1, <2>2 DEF Goto, IInv, TypeOK, Outside
    <3>2. ExecHeld'
      BY <2>1, <3>1 DEF LeaveInvs, ExecHeld, Cur, Holding, Counted
    <3>3. CtlFlags' /\ Departed'
      BY <2>1, <2>2, <3>1 DEF LeaveInvs, CtlFlags, Departed, Pool
    <3> QED BY <2>2, <3>1, <3>2, <3>3 DEF LeaveInvs, Served, Coming
  <2>3. CASE /\ UNCHANGED pc /\ ctl' = "join"
             /\ Root \notin Workers \/ m_tasks = <<>>
    <3>1. ExecHeld' /\ CtlFlags'
      BY <2>1, <2>3 DEF LeaveInvs, ExecHeld, CtlFlags, Cur
    <3>2. Departed'
      BY <2>1, <2>3 DEF LeaveInvs, Departed, IInv, Outside
    <3> QED BY <2>1, <2>3, <3>1, <3>2 DEF LeaveInvs, Served, Coming
  <2> QED BY <1>3, <2>2, <2>3, RootAssumption, WorkersAssumption DEF StopCallRoot,
        Stopping
<1>4. CASE StopRootReturned
  BY <1>4 DEF StopRootReturned, runVars, fiberVars, LeaveInvs, CtlFlags, Departed,
     ExecHeld, Cur, Served, Coming
<1>5. CASE StopJoin
  BY <1>5 DEF StopJoin, runVars, fiberVars, LeaveInvs, CtlFlags, Departed, ExecHeld, Cur,
     Served, Coming
<1> QED BY <1>1, <1>2, <1>3, <1>4, <1>5

\* When stop() has returned every thread has left run(), or never was in it.
LEMMA StoppedAllOut ==
  ASSUME IInv, LeaveInvs, ctl = "stopped"
  PROVE  /\ \A t \in Workers : pc[t] \in {"off", "done"}
         /\ ~Served
         /\ m_activeThreadCount = 0
<1>1. \A t \in Workers : pc[t] \in {"off", "done"}
  BY DEF LeaveInvs, Departed, Pool
<1>2. ~Served
  BY <1>1 DEF Served, Coming
<1>3. {t \in Workers : pc[t] \in Counted} = {}
  BY <1>1 DEF Counted
<1> QED BY <1>1, <1>2, <1>3, FS_EmptySet DEF IInv, Counts, ActiveCount

\* Nobody has an idle fiber that ended before stop(), and nobody executes.
LEMMA InitLeave == Init => LeaveInvs
BY DEF Init, LeaveInvs, CtlFlags, Departed, ExecHeld, Pool

\* Every step of Next preserves what is said of the threads that leave.
LEMMA NextLeave ==
  IInv /\ LeaveInvs /\ NotAbandoned /\ [Next]_vars => LeaveInvs' /\ NotAbandoned'
<1> SUFFICES ASSUME IInv, LeaveInvs, NotAbandoned, [Next]_vars
             PROVE  LeaveInvs' /\ NotAbandoned'
  OBVIOUS
<1>0. Served' => NotAbandoned'
  BY DEF NotAbandoned
<1>1. CASE UNCHANGED vars
  <2>1. UNCHANGED <<pc, task, taskFiber, idleDone, fstate, ctlVars, m_tasks>>
    BY <1>1 DEF vars, runVars, fiberVars
  <2> QED BY <2>1, LeaveStutter DEF NotAbandoned
<1>2. ASSUME NEW t \in Workers, RunStep(t) PROVE LeaveInvs' /\ NotAbandoned'
  <2>1. CASE Miss(t)
    BY <2>1, MissLeave DEF NotAbandoned
  <2> QED BY <1>0, <1>2, <2>1, RunLeave DEF RunStep
<1>3. ASSUME NEW t \in Workers, UserStep(t) PROVE LeaveInvs' /\ NotAbandoned'
  BY <1>0, <1>3, UserLeave DEF UserStep
<1>4. ASSUME NEW t \in Workers, IdleStep(t) PROVE LeaveInvs' /\ NotAbandoned'
  <2>1. CASE Leave(t)
    <3>1. m_tasks' = m_tasks /\ \A i \in DOMAIN m_tasks : m_tasks[i] \in Task
      BY <2>1 DEF Leave, IInv, TypeOK
    <3>2. ASSUME NEW i \in DOMAIN m_tasks, m_tasks[i].thread = AnyThread,
                 m_tasks[i].fiber # NoFiber => fstate'[m_tasks[i].fiber] # "HOLD"
          PROVE  Served'
      <4>1. m_tasks[i].fiber # NoFiber => fstate[m_tasks[i].fiber] # "HOLD"
        BY <2>1, <3>1, <3>2, LeaveLeave DEF Task
      <4> QED BY <2>1, <3>2, <4>1, LeaveLeave DEF NotAbandoned
    <3> QED BY <2>1, <3>1, <3>2, LeaveLeave DEF NotAbandoned
  <2>2. CASE Idle(t)
    <3>1. Stopping \in BOOLEAN
      BY DEF Stopping, IInv, TypeOK
    <3> QED BY <1>0, <2>2, <3>1, IdleEndsLeave DEF Idle, fiberVars
  <2> QED BY <1>0, <1>4, <2>1, <2>2, IdleLeave DEF IdleStep
<1>5. ASSUME NEW f \in Fibers, Wake(f) PROVE LeaveInvs' /\ NotAbandoned'
  <2>1. LeaveInvs' /\ (Served' <=> Served)
    BY <1>5, LeaveStutter DEF Wake, runVars
  <2>2. CASE fstate[f] = "EXEC"
    <3>1. PICK u \in Workers : pc[u] \in Holding \ {"dispatch"}
      BY <2>2 DEF LeaveInvs, ExecHeld
    <3>2. Served
      BY <3>1 DEF Served, Coming, Holding, Counted
    <3> QED BY <1>0, <2>1, <3>2
  <2>3. CASE fstate[f] = "HOLD"
    <3>1. /\ m_tasks' = Append(m_tasks, FiberTask(f, AnyThread)) /\ m_tasks \in Seq(Task)
          /\ fstate' = fstate /\ f # NoFiber
      BY <1>5, NullAssumption DEF Wake, Push, IInv, TypeOK
    <3>2. ASSUME NEW i \in DOMAIN m_tasks', m_tasks'[i].thread = AnyThread,
                 m_tasks'[i].fiber # NoFiber => fstate'[m_tasks'[i].fiber] # "HOLD"
          PROVE  Served'
      <4>1. i \in DOMAIN m_tasks /\ m_tasks'[i] = m_tasks[i]
        BY <2>3, <3>1, <3>2 DEF FiberTask
      <4> QED BY <2>1, <3>1, <3>2, <4>1 DEF NotAbandoned
    <3> QED BY <2>1, <3>2 DEF NotAbandoned
  <2> QED BY <1>5, <2>2, <2>3 DEF Wake, IInv, OneClaim
<1>6. ASSUME NEW f \in Fibers, Destroy(f) PROVE LeaveInvs' /\ NotAbandoned'
  <2>1. /\ m_tasks' = m_tasks
        /\ \A i \in DOMAIN m_tasks : m_tasks[i] \in Task /\ m_tasks[i].fiber # f
        /\ \A g \in Fibers \ {f} : fstate'[g] = fstate[g]
    BY <1>6 DEF Destroy, Queued, IInv, TypeOK
  <2>2. ASSUME NEW i \in DOMAIN m_tasks, m_tasks[i].thread = AnyThread,
               m_tasks[i].fiber # NoFiber => fstate'[m_tasks[i].fiber] # "HOLD"
        PROVE  Served'
    <3>1. m_tasks[i].fiber # NoFiber => fstate[m_tasks[i].fiber] # "HOLD"
      BY <2>1, <2>2 DEF Task
    <3> QED BY <1>6, <2>2, <3>1, DestroyLeave DEF NotAbandoned
  <2> QED BY <1>6, <2>1, <2>2, DestroyLeave DEF NotAbandoned
<1>7. ASSUME NEW c \in Callers, Submit(c) PROVE LeaveInvs' /\ NotAbandoned'
  BY <1>0, <1>7, SubmitLeave
<1>8. CASE Start
  BY <1>0, <1>8, StartLeave
<1>9. CASE StopAuto \/ StopStep
  <2>1. LeaveInvs' /\ (Served /\ m_tasks # <<>> => Served')
    BY <1>9, StopLeave DEF StopStep
  <2>2. UNCHANGED <<m_tasks, fstate>>
    BY <1>9 DEF StopAuto, StopStep, StopMark, StopCallRoot, StopRootReturned, StopJoin,
       fiberVars
  <2> QED BY <2>1, <2>2 DEF NotAbandoned
<1> QED BY <1>1, <1>2, <1>3, <1>4, <1>5, <1>6, <1>7, <1>8, <1>9 DEF Next

-----------------------------------------------------------------------------
(***************************************************************************)
(* JobInvs: where every function is that has been submitted.               *)
(***************************************************************************)

\* scheduleNoLock puts one entry behind the others.
LEMMA PushProps ==
  ASSUME IInv, NEW x \in Task, Push(x)
  PROVE  \E n \in DOMAIN m_tasks' :
           /\ m_tasks'[n] = x /\ n \notin DOMAIN m_tasks
           /\ \A k \in DOMAIN m_tasks : k \in DOMAIN m_tasks' /\ m_tasks'[k] = m_tasks[k]
           /\ \A k \in DOMAIN m_tasks' : k \in DOMAIN m_tasks \/ k = n
<1>1. m_tasks \in Seq(Task) /\ m_tasks' = Append(m_tasks, x)
  BY DEF IInv, TypeOK, Push
<1>2. Len(m_tasks) + 1 \in DOMAIN m_tasks' /\ m_tasks'[Len(m_tasks) + 1] = x
  BY <1>1
<1> QED BY <1>1, <1>2

\* The scan takes one entry out; the others keep their order.
LEMMA TakeProps ==
  ASSUME IInv, NEW t \in Workers, Take(t)
  PROVE  \E i \in DOMAIN m_tasks, x \in Task :
           /\ x = m_tasks[i]
           /\ task' = [task EXCEPT ![t] = x]
           /\ \A k \in DOMAIN m_tasks' : \E l \in DOMAIN m_tasks \ {i} :
                m_tasks'[k] = m_tasks[l]
           /\ \A l \in DOMAIN m_tasks \ {i} : \E k \in DOMAIN m_tasks' :
                m_tasks'[k] = m_tasks[l]
           /\ \A k, l \in DOMAIN m_tasks' : k # l =>
                \E m, n \in DOMAIN m_tasks : m # n /\ m_tasks'[k] = m_tasks[m]
                                                /\ m_tasks'[l] = m_tasks[n]
<1>1. PICK i \in DOMAIN m_tasks : task' = [task EXCEPT ![t] = m_tasks[i]]
                                 /\ m_tasks' = RemoveAt(m_tasks, i)
  BY DEF Take
<1>2. m_tasks \in Seq(Task) /\ m_tasks[i] \in Task
  BY DEF IInv, TypeOK
<1>3. /\ m_tasks' \in Seq(Task) /\ Len(m_tasks') = Len(m_tasks) - 1
      /\ \A k \in 1..(Len(m_tasks) - 1) :
           m_tasks'[k] = IF k < i THEN m_tasks[k] ELSE m_tasks[k + 1]
  BY <1>1, <1>2, RemoveAtProps
<1>4. /\ DOMAIN m_tasks = 1..Len(m_tasks) /\ Len(m_tasks) \in Nat
      /\ DOMAIN m_tasks' = 1..(Len(m_tasks) - 1)
  BY <1>2, <1>3
<1> DEFINE old(k) == IF k < i THEN k ELSE k + 1
<1>5. /\ \A k \in DOMAIN m_tasks' : /\ old(k) \in DOMAIN m_tasks \ {i}
                                    /\ m_tasks'[k] = m_tasks[old(k)]
      /\ \A k, l \in DOMAIN m_tasks' : k # l => old(k) # old(l)
  BY <1>3, <1>4
<1>6. ASSUME NEW l \in DOMAIN m_tasks \ {i}
      PROVE  \E k \in DOMAIN m_tasks' : m_tasks'[k] = m_tasks[l]
  <2>1. CASE l < i
    BY <1>3, <1>4, <2>1
  <2>2. CASE ~(l < i)
    <3>1. l - 1 \in DOMAIN m_tasks' /\ ~(l - 1 < i) /\ (l - 1) + 1 = l
      BY <1>4, <2>2
    <3> QED BY <1>3, <1>4, <3>1
  <2> QED BY <2>1, <2>2
<1> HIDE DEF old
<1>7. ASSUME NEW k \in DOMAIN m_tasks', NEW l \in DOMAIN m_tasks', k # l
      PROVE  \E m, n \in DOMAIN m_tasks : m # n /\ m_tasks'[k] = m_tasks[m]
                                               /\ m_tasks'[l] = m_tasks[n]
  BY <1>5, <1>7
<1>8. \A k \in DOMAIN m_tasks' : \E l \in DOMAIN m_tasks \ {i} : m_tasks'[k] = m_tasks[l]
  BY <1>5
<1> QED BY <1>1, <1>2, <1>6, <1>7, <1>8

\* Functions only leave the list, the threads and the fibers.
LEMMA JobOnceShrinks ==
  ASSUME IInv, JobOnce,
         \A i \in DOMAIN m_tasks' : m_tasks'[i].cb # NoJob =>
           i \in DOMAIN m_tasks /\ m_tasks'[i] = m_tasks[i],
         \A t \in Workers : task'[t] = task[t] \/ task'[t].cb = NoJob,
         \A f \in Fibers : fcb'[f] = fcb[f] \/ fcb'[f] = NoJob,
         \A j \in done' : j \in done \/ \E f \in Fibers : fcb[f] = j,
         submitted' = submitted
  PROVE  JobOnce'
<1>1. ASSUME NEW j \in Jobs, Unbound(j) PROVE Unbound(j)'
  BY <1>1, NullAssumption DEF Unbound
<1>2. ASSUME NEW i \in DOMAIN m_tasks', m_tasks'[i].cb # NoJob
      PROVE  /\ m_tasks'[i].fiber = NoFiber
             /\ Unbound(m_tasks[i].cb)' /\ m_tasks'[i] = m_tasks[i]
             /\ \A k \in DOMAIN m_tasks' : m_tasks'[k].cb = m_tasks'[i].cb => k = i
  <2>1. i \in DOMAIN m_tasks /\ m_tasks'[i] = m_tasks[i] /\ m_tasks[i].cb \in Jobs
    <3>1. i \in DOMAIN m_tasks /\ m_tasks'[i] = m_tasks[i]
      BY <1>2
    <3>2. m_tasks[i] \in Task
      BY <3>1 DEF IInv, TypeOK
    <3> QED BY <1>2, <3>1, <3>2 DEF Task
  <2> QED BY <1>1, <1>2, <2>1 DEF JobOnce
<1>3. ASSUME NEW t \in Workers, task'[t].cb # NoJob
      PROVE  /\ task'[t].fiber = NoFiber /\ Unbound(task[t].cb)' /\ task'[t] = task[t]
             /\ \A i \in DOMAIN m_tasks' : m_tasks'[i].cb # task'[t].cb
             /\ \A u \in Workers : task'[u].cb = task'[t].cb => u = t
  <2>1. task'[t] = task[t] /\ task[t].cb \in Jobs
    BY <1>3 DEF IInv, TypeOK, Task
  <2> QED BY <1>1, <1>3, <2>1 DEF JobOnce
<1>4. ASSUME NEW f \in Fibers, fcb'[f] # NoJob
      PROVE  fcb'[f] \in submitted' /\ \A g \in Fibers : fcb'[g] = fcb'[f] => g = f
  BY <1>4 DEF JobOnce
<1> QED BY <1>2, <1>3, <1>4 DEF JobOnce, Unbound

\* A step that moves threads, wakers, counters and the owner only.
LEMMA JobStutter ==
  ASSUME IInv, JobInvs,
         UNCHANGED <<m_tasks, task, taskFiber, fstate, fcb, submitted, done>>,
         \A t \in Workers : pc'[t] \in Holding <=> pc[t] \in Holding
  PROVE  JobInvs'
<1>1. JobOnce'
  BY DEF JobInvs, JobOnce, Unbound
<1>2. JobBound'
  BY DEF JobInvs, JobBound, Spare
<1>3. \A f \in Fibers : (Queued(f)' <=> Queued(f)) /\ (Held(f)' <=> Held(f))
  BY DEF Queued, Held, Cur
<1>4. JobHome'
  BY <1>3 DEF JobInvs, JobHome, Home
<1> QED BY <1>1, <1>2, <1>4 DEF JobInvs

\* A function that is taken from the list is in the thread's task.
LEMMA TakeJob ==
  ASSUME IInv, JobInvs, NEW t \in Workers, Take(t)
  PROVE  JobInvs'
<1>1. /\ pc[t] = "scan" /\ pc' = [pc EXCEPT ![t] = "dispatch"]
      /\ UNCHANGED <<taskFiber, fstate, fcb, submitted, done>>
  BY DEF Take, Goto, fiberVars, jobVars
<1>2. PICK i \in DOMAIN m_tasks, x \in Task :
           /\ x = m_tasks[i]
           /\ task' = [task EXCEPT ![t] = x]
           /\ \A k \in DOMAIN m_tasks' : \E l \in DOMAIN m_tasks \ {i} :
                m_tasks'[k] = m_tasks[l]
           /\ \A l \in DOMAIN m_tasks \ {i} : \E k \in DOMAIN m_tasks' :
                m_tasks'[k] = m_tasks[l]
           /\ \A k, l \in DOMAIN m_tasks' : k # l =>
                \E m, n \in DOMAIN m_tasks : m # n /\ m_tasks'[k] = m_tasks[m]
                                                /\ m_tasks'[l] = m_tasks[n]
  BY TakeProps
<1>3. /\ task'[t] = x /\ task[t] = NoTask
      /\ \A u \in Workers \ {t} : task'[u] = task[u] /\ pc'[u] = pc[u]
      /\ pc'[t] = "dispatch"
  BY <1>1, <1>2 DEF IInv, TypeOK, Shapes, Holding, Counted
<1>4. \A j \in Jobs : Unbound(j)' <=> Unbound(j)
  BY <1>1 DEF Unbound
<1>5. ASSUME NEW k \in DOMAIN m_tasks', m_tasks'[k].cb # NoJob
      PROVE  /\ m_tasks'[k].fiber = NoFiber
             /\ Unbound(m_tasks[k].cb)'
             /\ \A l \in DOMAIN m_tasks' : m_tasks'[l].cb = m_tasks'[k].cb => l = k
             /\ m_tasks'[k].cb # x.cb
             /\ \A u \in Workers : task[u].cb # m_tasks'[k].cb
  <2>1. PICK m \in DOMAIN m_tasks \ {i} : m_tasks'[k] = m_tasks[m]
    BY <1>2
  <2>2. m_tasks[m] \in Task
    BY <2>1 DEF IInv, TypeOK
  <2>3. m_tasks[m].cb \in Jobs
    BY <1>5, <2>1, <2>2 DEF Task
  <2>4. m_tasks'[k].cb # x.cb /\ \A u \in Workers : task[u].cb # m_tasks'[k].cb
    BY <1>2, <1>5, <2>1 DEF JobInvs, JobOnce
  <2>5. ASSUME NEW l \in DOMAIN m_tasks', m_tasks'[l].cb = m_tasks'[k].cb PROVE l = k
    <3>1. ASSUME l # k PROVE FALSE
      <4>1. PICK a \in DOMAIN m_tasks, b \in DOMAIN m_tasks :
              a # b /\ m_tasks'[k] = m_tasks[a] /\ m_tasks'[l] = m_tasks[b]
        BY <1>2, <3>1
      <4> QED BY <1>5, <2>5, <4>1 DEF JobInvs, JobOnce
    <3> QED BY <3>1
  <2>6. m_tasks'[k].fiber = NoFiber /\ Unbound(m_tasks[k].cb)'
    <3>1. m_tasks[m].fiber = NoFiber /\ Unbound(m_tasks[m].cb)
      BY <1>5, <2>1 DEF JobInvs, JobOnce
    <3> QED BY <1>1, <2>1, <3>1 DEF Unbound
  <2> QED BY <2>4, <2>5, <2>6
<1>6. x.cb # NoJob => /\ x.fiber = NoFiber /\ Unbound(x.cb)'
                      /\ \A u \in Workers : task[u].cb # x.cb
  BY <1>2, <1>4 DEF JobInvs, JobOnce, Task
<1>7. JobOnce'
  <2>1. ASSUME NEW u \in Workers, task'[u].cb # NoJob
        PROVE  /\ task'[u].fiber = NoFiber /\ Unbound(task[u].cb)'
               /\ \A k \in DOMAIN m_tasks' : m_tasks'[k].cb # task'[u].cb
               /\ \A v \in Workers : task'[v].cb = task'[u].cb => v = u
    <3>1. CASE u = t
      <4>1. task'[u] = x /\ x.cb # NoJob
        BY <1>3, <2>1, <3>1
      <4>2. Unbound(task[u].cb)'
        BY <1>6, <4>1 DEF Unbound
      <4>3. \A v \in Workers : task'[v].cb = x.cb => v = t
        BY <1>3, <1>6, <4>1
      <4> QED BY <1>5, <1>6, <3>1, <4>1, <4>2, <4>3
    <3>2. CASE u # t
      <4>1. task'[u] = task[u] /\ task[u].cb \in Jobs
        BY <1>3, <2>1, <3>2 DEF IInv, TypeOK, Task
      <4>2. /\ task[u].fiber = NoFiber /\ Unbound(task[u].cb) /\ task[u].cb # x.cb
            /\ \A v \in Workers : task[v].cb = task[u].cb => v = u
        BY <1>2, <2>1, <4>1 DEF JobInvs, JobOnce
      <4>3. Unbound(task[u].cb)'
        BY <1>1, <4>1, <4>2 DEF Unbound
      <4> QED BY <1>3, <1>5, <2>1, <3>2, <4>1, <4>2, <4>3
    <3> QED BY <3>1, <3>2
  <2>2. \A f \in Fibers : fcb'[f] # NoJob =>
          fcb'[f] \in submitted' /\ \A g \in Fibers : fcb'[g] = fcb'[f] => g = f
    BY <1>1 DEF JobInvs, JobOnce
  <2>3. \A k \in DOMAIN m_tasks' : m_tasks'[k].cb # NoJob =>
          /\ m_tasks'[k].fiber = NoFiber
          /\ Unbound(m_tasks[k].cb)'
          /\ \A l \in DOMAIN m_tasks' : m_tasks'[l].cb = m_tasks'[k].cb => l = k
    BY <1>5
  <2> QED BY <2>1, <2>2, <2>3 DEF JobOnce
<1>8. JobBound'
  BY <1>1, <1>3 DEF JobInvs, JobBound, Spare, Holding, Counted
<1>9. JobHome'
  <2>1. SUFFICES ASSUME NEW j \in submitted \ done
                 PROVE  \/ \E k \in DOMAIN m_tasks' : m_tasks'[k].cb = j
                        \/ \E u \in Workers : task'[u].cb = j
                        \/ \E f \in Fibers : fcb[f] = j /\ Home(f)'
    BY <1>1 DEF JobHome
  <2>2. CASE \E k \in DOMAIN m_tasks : m_tasks[k].cb = j
    BY <1>2, <1>3, <2>2
  <2>3. ASSUME NEW u \in Workers, task[u].cb = j PROVE u # t
    <3>1. j # NoJob
      BY NullAssumption DEF IInv, TypeOK
    <3> QED BY <1>3, <2>3, <3>1 DEF NoTask
  <2>4. ASSUME NEW f \in Fibers, Queued(f) \/ Held(f) PROVE Queued(f)' \/ Held(f)'
    <3>1. CASE Held(f)
      <4>1. PICK u \in Workers : pc[u] \in Holding /\ Cur(u) = f
        BY <3>1 DEF Held
      <4>2. u # t
        BY <1>1, <4>1 DEF Holding, Counted
      <4> QED BY <1>1, <1>3, <4>1, <4>2 DEF Held, Cur
    <3>2. CASE x.fiber = f
      <4>1. f # NoFiber
        BY NullAssumption
      <4> QED BY <1>3, <3>2, <4>1 DEF Held, Cur, Holding, Counted
    <3>3. CASE Queued(f) /\ x.fiber # f
      BY <1>2, <3>3 DEF Queued
    <3> QED BY <2>4, <3>1, <3>2, <3>3
  <2>5. \A f \in Fibers : Home(f) => Home(f)'
    BY <1>1, <2>4 DEF Home
  <2> QED BY <1>3, <2>1, <2>2, <2>3, <2>5 DEF JobInvs, JobHome
<1> QED BY <1>7, <1>8, <1>9 DEF JobInvs

\* Every function that is not bound to a fiber stays where it is, every other one stays
\* with its fiber, and the fiber has a place.
LEMMA JobHomeKeeps ==
  ASSUME IInv, JobHome, submitted' \ done' \subseteq submitted \ done,
         \A i \in DOMAIN m_tasks : i \in DOMAIN m_tasks' /\ m_tasks'[i] = m_tasks[i],
         \A t \in Workers : task[t].cb # NoJob => task'[t] = task[t],
         \A f \in Fibers : fcb[f] \in submitted' \ done' /\ Home(f) =>
                            fcb'[f] = fcb[f] /\ Home(f)'
  PROVE  JobHome'
<1>1. SUFFICES ASSUME NEW j \in submitted' \ done'
               PROVE  \/ \E i \in DOMAIN m_tasks' : m_tasks'[i].cb = j
                      \/ \E t \in Workers : task'[t].cb = j
                      \/ \E f \in Fibers : fcb'[f] = j /\ Home(f)'
  BY DEF JobHome
<1>2. j # NoJob
  BY NullAssumption DEF IInv, TypeOK
<1> QED BY <1>2 DEF JobHome

\* Thread t takes a step: what the other threads hold, and what is in the list, stays.
LEMMA HomeStep ==
  ASSUME IInv, NEW t \in Workers, NEW f \in Fibers, Home(f),
         \A u \in Workers \ {t} : UNCHANGED <<pc[u], task[u], taskFiber[u]>>,
         \A i \in DOMAIN m_tasks : i \in DOMAIN m_tasks' /\ m_tasks'[i] = m_tasks[i],
         \/ fstate'[f] \in {"EXEC", "HOLD"}
         \/ fstate'[f] \in {"INIT", "READY"} /\ (Queued(f)' \/ Held(f)')
         \/ fstate'[f] = fstate[f] /\ ~(pc[t] \in Holding /\ Cur(t) = f)
  PROVE  Home(f)'
<1>1. Queued(f) => Queued(f)'
  BY DEF Queued
<1>2. ASSUME Held(f), ~(pc[t] \in Holding /\ Cur(t) = f) PROVE Held(f)'
  <2>1. PICK u \in Workers : pc[u] \in Holding /\ Cur(u) = f
    BY <1>2 DEF Held
  <2>2. u # t
    BY <1>2, <2>1
  <2> QED BY <2>1, <2>2 DEF Held, Cur
<1> QED BY <1>1, <1>2 DEF Home

\* call() of a fiber from the list.
LEMMA CallFiberJob ==
  ASSUME IInv, JobInvs, NEW t \in Workers, CallFiber(t)
  PROVE  JobInvs'
<1>1. /\ pc[t] = "dispatch" /\ pc'[t] = "exec" /\ task[t].fiber \in Fibers
      /\ task[t].fiber # NoFiber /\ fstate[task[t].fiber] \notin Finished
      /\ \A u \in Workers \ {t} : pc'[u] = pc[u]
      /\ fstate'[task[t].fiber] = "EXEC"
      /\ \A g \in Fibers \ {task[t].fiber} : fstate'[g] = fstate[g]
      /\ UNCHANGED <<m_tasks, task, taskFiber, fcb, submitted, done>>
  BY DEF CallFiber, Goto, IInv, TypeOK, Task, jobVars
<1>2. JobOnce'
  BY <1>1, JobOnceShrinks DEF JobInvs
<1>3. JobBound'
  BY <1>1 DEF JobInvs, JobBound, Spare, Holding, Counted, Finished
<1>4. ASSUME NEW f \in Fibers, Home(f) PROVE Home(f)'
  <2>1. Cur(t) = task[t].fiber
    BY <1>1 DEF Cur
  <2>2. \/ fstate'[f] \in {"EXEC", "HOLD"}
        \/ fstate'[f] = fstate[f] /\ ~(pc[t] \in Holding /\ Cur(t) = f)
    BY <1>1, <2>1
  <2> QED BY <1>1, <1>4, <2>2, HomeStep
<1>5. JobHome'
  BY <1>1, <1>4, JobHomeKeeps DEF JobInvs
<1> QED BY <1>2, <1>3, <1>5 DEF JobInvs

\* The callback that was taken is bound to a fiber which had none.
LEMMA CallCbJob ==
  ASSUME IInv, JobInvs, NEW t \in Workers, CallCb(t)
  PROVE  JobInvs'
<1>1. PICK f \in Fibers : /\ IF taskFiber[t] # NoFiber THEN f = taskFiber[t]
                                                       ELSE fstate[f] = "FREE"
                          /\ taskFiber' = [taskFiber EXCEPT ![t] = f]
                          /\ fstate' = [fstate EXCEPT ![f] = "EXEC"]
                          /\ fcb' = [fcb EXCEPT ![f] = task[t].cb]
  BY DEF CallCb
<1>2. /\ pc[t] = "dispatch" /\ pc'[t] = "exec" /\ task[t].fiber = NoFiber
      /\ \A u \in Workers \ {t} : UNCHANGED <<pc[u], task[u], taskFiber[u]>>
      /\ task'[t] = NoTask /\ taskFiber'[t] = f
      /\ fstate'[f] = "EXEC" /\ \A g \in Fibers \ {f} : fstate'[g] = fstate[g]
      /\ fcb'[f] = task[t].cb /\ \A g \in Fibers \ {f} : fcb'[g] = fcb[g]
      /\ UNCHANGED <<m_tasks, submitted, done>>
  BY <1>1 DEF CallCb, Goto, IInv, TypeOK, jobVars
<1>3. task[t].cb \in Jobs /\ task[t].cb # NoJob
  BY <1>2, NullAssumption DEF IInv, Shapes
<1>4. fcb[f] = NoJob /\ \A u \in Workers \ {t} : taskFiber[u] # f
  <2>1. CASE taskFiber[t] # NoFiber
    <3>1. Spare(t) /\ f = taskFiber[t]
      BY <1>1, <1>3, <2>1 DEF Spare, NoTask
    <3> QED BY <2>1, <3>1 DEF JobInvs, JobBound, IInv, Owners
  <2>2. CASE taskFiber[t] = NoFiber
    <3>1. fstate[f] = "FREE"
      BY <1>1, <2>2
    <3> QED BY <3>1 DEF JobInvs, JobBound, IInv, NoDangling
  <2> QED BY <2>1, <2>2
<1>5. Unbound(task[t].cb) /\ \A i \in DOMAIN m_tasks : m_tasks[i].cb # task[t].cb
  BY <1>3 DEF JobInvs, JobOnce
<1>6. \A j \in Jobs : Unbound(j) /\ j # task[t].cb => Unbound(j)'
  BY <1>2 DEF Unbound
<1>7. JobOnce'
  <2>1. ASSUME NEW i \in DOMAIN m_tasks, m_tasks[i].cb # NoJob
        PROVE  /\ m_tasks[i].fiber = NoFiber /\ Unbound(m_tasks[i].cb)'
               /\ \A k \in DOMAIN m_tasks : m_tasks[k].cb = m_tasks[i].cb => k = i
    <3>1. m_tasks[i] \in Task
      BY DEF IInv, TypeOK
    <3>2. m_tasks[i].cb \in Jobs
      BY <2>1, <3>1 DEF Task
    <3>3. Unbound(m_tasks[i].cb) /\ m_tasks'[i] = m_tasks[i]
      BY <1>2, <2>1 DEF JobInvs, JobOnce
    <3> QED BY <1>5, <1>6, <2>1, <3>2, <3>3 DEF JobInvs, JobOnce
  <2>2. ASSUME NEW u \in Workers, task'[u].cb # NoJob
        PROVE  /\ task'[u].fiber = NoFiber /\ Unbound(task[u].cb)'
               /\ \A i \in DOMAIN m_tasks : m_tasks[i].cb # task'[u].cb
               /\ \A v \in Workers : task'[v].cb = task'[u].cb => v = u
    <3>1. u # t /\ task'[u] = task[u]
      BY <1>2, <2>2 DEF NoTask
    <3>2. /\ task[u].fiber = NoFiber /\ Unbound(task[u].cb) /\ task[u].cb # task[t].cb
          /\ \A i \in DOMAIN m_tasks : m_tasks[i].cb # task[u].cb
          /\ \A v \in Workers : task[v].cb = task[u].cb => v = u
      BY <1>3, <2>2, <3>1 DEF JobInvs, JobOnce
    <3>3. task[u].cb \in Jobs
      BY <2>2, <3>1 DEF IInv, TypeOK, Task
    <3>4. \A v \in Workers : task'[v].cb = task'[u].cb => v = u
      BY <1>2, <2>2, <3>1, <3>2 DEF NoTask
    <3> QED BY <1>6, <3>1, <3>2, <3>3, <3>4
  <2>3. ASSUME NEW g \in Fibers, fcb'[g] # NoJob
        PROVE  fcb'[g] \in submitted /\ \A h \in Fibers : fcb'[h] = fcb'[g] => h = g
    <3>1. CASE g = f
      BY <1>2, <1>5, <3>1 DEF Unbound
    <3>2. CASE g # f
      BY <1>2, <1>5, <2>3, <3>2 DEF Unbound, JobInvs, JobOnce
    <3> QED BY <3>1, <3>2
  <2> QED BY <1>2, <2>1, <2>2, <2>3 DEF JobOnce
<1>8. JobBound'
  <2>1. \A g \in Fibers : fstate'[g] \notin Finished => fcb'[g] \notin done
    BY <1>2, <1>5 DEF Unbound, JobInvs, JobBound, Finished
  <2>2. ASSUME NEW u \in Workers, Spare(u)' PROVE fcb'[taskFiber'[u]] = NoJob
    <3>1. u # t
      BY <1>2, <2>2 DEF Spare, Holding, Counted
    <3>2. Spare(u) /\ taskFiber'[u] = taskFiber[u] /\ taskFiber[u] \in Fibers \ {f}
      BY <1>2, <1>4, <2>2, <3>1 DEF Spare, IInv, TypeOK
    <3> QED BY <1>2, <3>2 DEF JobInvs, JobBound
  <2> QED BY <1>2, <2>1, <2>2 DEF JobInvs, JobBound
<1>9. ASSUME NEW g \in Fibers, fcb[g] \in submitted \ done, Home(g)
      PROVE  fcb'[g] = fcb[g] /\ Home(g)'
  <2>1. g # f
    BY <1>4, <1>9, NullAssumption DEF IInv, TypeOK
  <2>2. Cur(t) # g
    BY <1>1, <1>2, <2>1, NullAssumption DEF Cur
  <2> QED BY <1>2, <1>9, <2>1, <2>2, HomeStep
<1>10. JobHome'
  <2>1. SUFFICES ASSUME NEW j \in submitted \ done
                 PROVE  \/ \E i \in DOMAIN m_tasks : m_tasks[i].cb = j
                        \/ \E u \in Workers : task'[u].cb = j
                        \/ \E g \in Fibers : fcb'[g] = j /\ Home(g)'
    BY <1>2 DEF JobHome
  <2>2. CASE j = task[t].cb
    BY <1>2, <2>2 DEF Home
  <2>3. CASE j # task[t].cb
    BY <1>2, <1>9, <2>3 DEF JobInvs, JobHome
  <2> QED BY <2>2, <2>3
<1> QED BY <1>7, <1>8, <1>10 DEF JobInvs

\* Thread t lets go of a fiber: of one that has ended, or after it has put it into the
\* list, or left it to its waker.
LEMMA LetGoJob ==
  ASSUME IInv, JobInvs, NEW t \in Workers,
         DropFinished(t) \/ Requeue(t) \/ Hold(t) \/ Ended(t)
  PROVE  JobInvs'
<1>1. /\ pc[t] \in {"dispatch", "post"} /\ pc'[t] = "scan" /\ task'[t] = NoTask
      /\ \A u \in Workers \ {t} : UNCHANGED <<pc[u], task[u], taskFiber[u]>>
      /\ \A u \in Workers : taskFiber'[u] = taskFiber[u] \/ taskFiber'[u] = NoFiber
      /\ task' = [task EXCEPT ![t] = NoTask]
      /\ UNCHANGED <<submitted, done>>
  BY DEF DropFinished, Requeue, Hold, Ended, Goto, IInv, TypeOK, jobVars
<1>2. Cur(t) \in Fibers /\ task[t].cb = NoJob
  <2>1. CASE pc[t] = "post"
    <3>1. Cur(t) \in Fibers
      BY <2>1, CurIsFiber DEF IInv, Holding, Counted
    <3>2. task[t].fiber # NoFiber \/ task[t] = NoTask
      BY <2>1 DEF IInv, Shapes, Holding, Counted
    <3> QED BY <3>1, <3>2 DEF NoTask, JobInvs, JobOnce
  <2>2. CASE DropFinished(t)
    <3>1. task[t].fiber # NoFiber
      BY <2>2 DEF DropFinished
    <3> QED BY <3>1 DEF JobInvs, JobOnce, Cur, IInv, TypeOK, Task
  <2> QED BY <2>1, <2>2 DEF Requeue, Hold, Ended
<1>0. PICK f \in Fibers : f = Cur(t)
  BY <1>2
<1>3. /\ \A g \in Fibers \ {f} : fstate'[g] = fstate[g] /\ fcb'[g] = fcb[g]
      /\ \A i \in DOMAIN m_tasks : i \in DOMAIN m_tasks' /\ m_tasks'[i] = m_tasks[i]
      /\ \A i \in DOMAIN m_tasks' : m_tasks'[i].cb # NoJob =>
           i \in DOMAIN m_tasks /\ m_tasks'[i] = m_tasks[i]
      /\ fcb'[f] = fcb[f] \/ fcb'[f] = NoJob
      /\ \/ fstate[f] \in Finished /\ fstate'[f] = fstate[f] /\ fcb'[f] = fcb[f]
         \/ fstate[f] \in Finished /\ fstate'[f] = "INIT" /\ fcb'[f] = NoJob
         \/ /\ fstate[f] = "READY" /\ fstate'[f] = "READY" /\ Queued(f)'
            /\ fcb'[f] = fcb[f]
         \/ fstate[f] \notin Finished /\ fstate'[f] = "HOLD" /\ fcb'[f] = fcb[f]
  <2>1. CASE DropFinished(t)
    <3>1. Cur(t) = task[t].fiber
      BY <2>1 DEF DropFinished, Cur
    <3> QED BY <1>0, <2>1, <3>1 DEF DropFinished, fiberVars
  <2>2. CASE Requeue(t)
    <3>1. FiberTask(f, AnyThread) \in Task /\ FiberTask(f, AnyThread).cb = NoJob
          /\ FiberTask(f, AnyThread).fiber = f
      BY <1>0 DEF FiberTask, Task
    <3>2. PICK n \in DOMAIN m_tasks' :
           /\ m_tasks'[n] = FiberTask(f, AnyThread) /\ n \notin DOMAIN m_tasks
           /\ \A k \in DOMAIN m_tasks : k \in DOMAIN m_tasks' /\ m_tasks'[k] = m_tasks[k]
           /\ \A k \in DOMAIN m_tasks' : k \in DOMAIN m_tasks \/ k = n
      BY <1>0, <2>2, <3>1, PushProps DEF Requeue
    <3>3. Queued(f)'
      BY <3>1, <3>2 DEF Queued
    <3> QED BY <1>0, <2>2, <3>1, <3>2, <3>3 DEF Requeue, fiberVars
  <2>3. CASE Hold(t)
    BY <1>0, <2>3 DEF Hold, IInv, TypeOK
  <2>4. CASE Ended(t)
    BY <1>0, <2>4 DEF Ended, IInv, TypeOK
  <2> QED BY <2>1, <2>2, <2>3, <2>4
<1>4. fstate[f] \notin Finished =>
        /\ fcb'[f] = fcb[f]
        /\ fstate'[f] = "HOLD" \/ (fstate'[f] = "READY" /\ Queued(f)')
  BY <1>3
<1>5. JobOnce'
  <2>1. /\ \A u \in Workers : task'[u] = task[u] \/ task'[u].cb = NoJob
        /\ \A g \in Fibers : fcb'[g] = fcb[g] \/ fcb'[g] = NoJob
    BY <1>1, <1>3 DEF NoTask
  <2> QED BY <1>1, <1>3, <2>1, JobOnceShrinks DEF JobInvs
<1>6. JobBound'
  <2>1. \A g \in Fibers :
          /\ fstate'[g] \in {"FREE", "TERM"} => fcb'[g] = NoJob
          /\ fstate'[g] = "EXCEPT" => fcb'[g] \in done
          /\ fstate'[g] \notin Finished => fcb'[g] \notin done
    <3>1. NoJob \notin done
      BY NullAssumption DEF IInv, TypeOK
    <3>2. /\ fstate'[f] \in {"FREE", "TERM"} => fcb'[f] = NoJob
          /\ fstate'[f] = "EXCEPT" => fcb'[f] \in done
          /\ fstate'[f] \notin Finished => fcb'[f] \notin done
      BY <1>3, <1>0, <3>1 DEF JobInvs, JobBound, Finished
    <3> QED BY <1>3, <3>2 DEF JobInvs, JobBound
  <2>2. ASSUME NEW u \in Workers, Spare(u)' PROVE fcb'[taskFiber'[u]] = NoJob
    <3>1. CASE u # t
      <4>1. Spare(u) /\ taskFiber'[u] = taskFiber[u] /\ taskFiber[u] \in Fibers
        BY <1>1, <2>2, <3>1 DEF Spare, IInv, TypeOK
      <4> QED BY <1>3, <4>1 DEF JobInvs, JobBound
    <3>2. CASE u = t
      <4>1. taskFiber'[t] = taskFiber[t] /\ taskFiber[t] \in Fibers
        BY <1>1, <2>2, <3>2 DEF Spare, IInv, TypeOK
      <4>2. CASE taskFiber[t] = f
        <5>1. Ended(t)
          <6>1. ~DropFinished(t)
            BY <1>0, <4>1, <4>2, NullAssumption DEF DropFinished, Cur, IInv, Owners
          <6>2. Requeue(t) \/ Hold(t) => taskFiber'[t] = NoFiber
            BY <1>0, <4>2 DEF Requeue, Hold, IInv, TypeOK
          <6> QED BY <4>1, <6>1, <6>2, NullAssumption
        <5> QED BY <1>0, <3>2, <4>1, <4>2, <5>1 DEF Ended, IInv, TypeOK
      <4>3. CASE taskFiber[t] # f
        <5>1. task[t].fiber # NoFiber
          BY <1>0, <4>3 DEF Cur
        <5>2. Spare(t)
          BY <4>1, <5>1, NullAssumption DEF Spare, NoTask
        <5> QED BY <1>3, <3>2, <4>1, <4>3, <5>2 DEF JobInvs, JobBound
      <4> QED BY <4>2, <4>3
    <3> QED BY <3>1, <3>2
  <2> QED BY <1>1, <2>1, <2>2 DEF JobInvs, JobBound
<1>7. ASSUME NEW g \in Fibers, fcb[g] \in submitted \ done, Home(g)
      PROVE  fcb'[g] = fcb[g] /\ Home(g)'
  <2>1. CASE g # f
    BY <1>1, <1>3, <1>0, <1>7, <2>1, HomeStep
  <2>2. CASE g = f
    <3>1. fstate[f] \notin Finished
      BY <1>7, <2>2 DEF Home, Finished
    <3>2. /\ fcb'[f] = fcb[f]
          /\ fstate'[f] = "HOLD" \/ (fstate'[f] = "READY" /\ Queued(f)')
      BY <1>4, <3>1
    <3> QED BY <2>2, <3>2 DEF Home
  <2> QED BY <2>1, <2>2
<1>8. JobHome'
  <2>1. \A u \in Workers : task[u].cb # NoJob => task'[u] = task[u]
    BY <1>1, <1>2
  <2> QED BY <1>1, <1>3, <1>7, <2>1, JobHomeKeeps DEF JobInvs
<1> QED BY <1>5, <1>6, <1>8 DEF JobInvs

\* User code: the fiber yields, migrates or ends, and stays in the thread's hands.
LEMMA UserJob ==
  ASSUME IInv, JobInvs, NEW t \in Workers,
         YieldToReady(t) \/ Finish(t) \/ \E u \in Pins : SwitchTo(t, u)
  PROVE  JobInvs'
<1>1. /\ pc[t] = "exec" /\ pc'[t] \in {"leaving", "parking"}
      /\ \A u \in Workers \ {t} : pc'[u] = pc[u]
      /\ UNCHANGED <<task, taskFiber, submitted>>
  BY DEF YieldToReady, Finish, SwitchTo, Goto, IInv, TypeOK
<1>0. PICK f \in Fibers : f = Cur(t)
  BY <1>1, CurIsBound DEF IInv
<1>2. /\ f \in Fibers /\ Cur(t)' = f /\ f = Cur(t) /\ fcb[f] \in Jobs
      /\ fstate[f] = "EXEC" /\ fcb[f] \notin done /\ fcb[f] \in submitted
  <2>1. Cur(t) \in Fibers /\ fcb[Cur(t)] \in Jobs /\ fstate[Cur(t)] = "EXEC"
    BY <1>1, CurIsBound DEF IInv, HeldStates
  <2>2. Cur(t)' = Cur(t)
    BY <1>1 DEF Cur
  <2> QED BY <1>0, <2>1, <2>2, NullAssumption DEF JobInvs, JobOnce, JobBound, Finished
<1>3. /\ \A g \in Fibers \ {f} : fstate'[g] = fstate[g] /\ fcb'[g] = fcb[g]
      /\ \A i \in DOMAIN m_tasks : i \in DOMAIN m_tasks' /\ m_tasks'[i] = m_tasks[i]
      /\ \A i \in DOMAIN m_tasks' : m_tasks'[i].cb # NoJob =>
           i \in DOMAIN m_tasks /\ m_tasks'[i] = m_tasks[i]
      /\ \/ fstate'[f] \in {"READY", "EXEC"} /\ fcb'[f] = fcb[f] /\ done' = done
         \/ /\ fstate'[f] = "TERM" /\ fcb'[f] = NoJob /\ done' = done \cup {fcb[f]}
         \/ /\ fstate'[f] = "EXCEPT" /\ fcb'[f] = fcb[f] /\ done' = done \cup {fcb[f]}
  <2>1. CASE YieldToReady(t)
    BY <1>2, <2>1 DEF YieldToReady, IInv, TypeOK
  <2>2. CASE Finish(t)
    BY <1>2, <2>2 DEF Finish, IInv, TypeOK
  <2>3. ASSUME NEW u \in Pins, SwitchTo(t, u)
        PROVE  /\ UNCHANGED <<fstate, fcb, done>>
               /\ \A i \in DOMAIN m_tasks :
                    i \in DOMAIN m_tasks' /\ m_tasks'[i] = m_tasks[i]
               /\ \A i \in DOMAIN m_tasks' : m_tasks'[i].cb # NoJob =>
                    i \in DOMAIN m_tasks /\ m_tasks'[i] = m_tasks[i]
    <3>1. FiberTask(f, u) \in Task /\ FiberTask(f, u).cb = NoJob
      BY <1>2, PinsAssumption DEF FiberTask, Task
    <3>2. PICK n \in DOMAIN m_tasks' :
           /\ m_tasks'[n] = FiberTask(f, u) /\ n \notin DOMAIN m_tasks
           /\ \A k \in DOMAIN m_tasks : k \in DOMAIN m_tasks' /\ m_tasks'[k] = m_tasks[k]
           /\ \A k \in DOMAIN m_tasks' : k \in DOMAIN m_tasks \/ k = n
      BY <1>0, <2>3, <3>1, PushProps DEF SwitchTo
    <3> QED BY <2>3, <3>1, <3>2 DEF SwitchTo, fiberVars
  <2> QED BY <1>2, <2>1, <2>2, <2>3
<1>4. JobOnce'
  BY <1>1, <1>2, <1>3, JobOnceShrinks DEF JobInvs
<1>5. JobBound'
  <2>1. \A g \in Fibers \ {f} : fcb[g] # fcb[f]
    BY <1>2, NullAssumption DEF JobInvs, JobOnce
  <2>2. \A g \in Fibers :
          /\ fstate'[g] \in {"FREE", "TERM"} => fcb'[g] = NoJob
          /\ fstate'[g] = "EXCEPT" => fcb'[g] \in done'
          /\ fstate'[g] \notin Finished => fcb'[g] \notin done'
    <3>1. /\ fstate'[f] \in {"FREE", "TERM"} => fcb'[f] = NoJob
          /\ fstate'[f] = "EXCEPT" => fcb'[f] \in done'
          /\ fstate'[f] \notin Finished => fcb'[f] \notin done'
      BY <1>2, <1>3 DEF Finished
    <3> QED BY <1>3, <2>1, <3>1 DEF JobInvs, JobBound
  <2>3. done' \subseteq submitted'
    BY <1>1, <1>2, <1>3 DEF JobInvs, JobBound
  <2>4. ASSUME NEW u \in Workers, Spare(u)' PROVE fcb'[taskFiber'[u]] = NoJob
    <3>1. Spare(u) /\ taskFiber[u] \in Fibers
      BY <1>1, <2>4 DEF Spare, Holding, Counted, IInv, TypeOK
    <3> QED BY <1>1, <1>3, <3>1 DEF JobInvs, JobBound
  <2> QED BY <2>2, <2>3, <2>4 DEF JobBound
<1>6. ASSUME NEW g \in Fibers, fcb[g] \in submitted' \ done', Home(g)
      PROVE  fcb'[g] = fcb[g] /\ Home(g)'
  <2>1. CASE g # f
    BY <1>1, <1>2, <1>3, <1>6, <2>1, HomeStep
  <2>2. CASE g = f
    <3>1. fstate'[f] \in {"READY", "EXEC"} /\ fcb'[f] = fcb[f]
      BY <1>3, <1>6, <2>2
    <3>2. Held(f)'
      BY <1>1, <1>2 DEF Held, Holding, Counted
    <3> QED BY <2>2, <3>1, <3>2 DEF Home
  <2> QED BY <2>1, <2>2
<1>7. JobHome'
  <2>1. submitted' \ done' \subseteq submitted \ done
    BY <1>1, <1>3
  <2> QED BY <1>1, <1>3, <1>6, <2>1, JobHomeKeeps DEF JobInvs
<1> QED BY <1>4, <1>5, <1>7 DEF JobInvs

\* A pointer to a fiber is put into the list.
LEMMA PushFiberJob ==
  ASSUME IInv, JobInvs, NEW f \in Fibers, Push(FiberTask(f, AnyThread)),
         UNCHANGED <<runVars, fstate, fcb, jobVars>>
  PROVE  JobInvs'
<1>1. FiberTask(f, AnyThread) \in Task /\ FiberTask(f, AnyThread).cb = NoJob
  BY DEF FiberTask, Task
<1>2. PICK n \in DOMAIN m_tasks' :
        /\ m_tasks'[n] = FiberTask(f, AnyThread) /\ n \notin DOMAIN m_tasks
        /\ \A k \in DOMAIN m_tasks : k \in DOMAIN m_tasks' /\ m_tasks'[k] = m_tasks[k]
        /\ \A k \in DOMAIN m_tasks' : k \in DOMAIN m_tasks \/ k = n
  BY <1>1, PushProps
<1>3. UNCHANGED <<pc, task, taskFiber, fstate, fcb, submitted, done>>
  BY DEF runVars, jobVars
<1>4. JobOnce'
  <2>1. \A k \in DOMAIN m_tasks' : m_tasks'[k].cb # NoJob =>
          k \in DOMAIN m_tasks /\ m_tasks'[k] = m_tasks[k]
    BY <1>1, <1>2
  <2> QED BY <1>3, <2>1, JobOnceShrinks DEF JobInvs
<1>5. JobBound'
  BY <1>3 DEF JobInvs, JobBound, Spare
<1>6. ASSUME NEW g \in Fibers, Home(g) PROVE Home(g)'
  <2>1. (Queued(g) => Queued(g)') /\ (Held(g) => Held(g)')
    BY <1>2, <1>3 DEF Queued, Held, Cur
  <2> QED BY <1>3, <1>6, <2>1 DEF Home
<1>7. JobHome'
  BY <1>2, <1>3, <1>6, JobHomeKeeps DEF JobInvs
<1> QED BY <1>4, <1>5, <1>7 DEF JobInvs

\* A fiber without a function, or whose function has ended, is destroyed.
LEMMA FreeJob ==
  ASSUME IInv, JobInvs,
         UNCHANGED <<m_tasks, task, submitted, done>>,
         \A u \in Workers : pc'[u] \in Holding <=> pc[u] \in Holding,
         \A u \in Workers : pc[u] \in Holding => taskFiber'[u] = taskFiber[u],
         \A u \in Workers : taskFiber'[u] = taskFiber[u] \/ taskFiber'[u] = NoFiber,
         NEW F \in SUBSET Fibers,
         \A f \in F : /\ fstate'[f] = "FREE" /\ fcb'[f] = NoJob
                      /\ fcb[f] \notin submitted \ done
                      /\ \A u \in Workers : taskFiber'[u] # f,
         \A f \in Fibers \ F : fstate'[f] = fstate[f] /\ fcb'[f] = fcb[f]
  PROVE  JobInvs'
<1>1. JobOnce'
  BY JobOnceShrinks DEF JobInvs
<1>2. JobBound'
  <2>1. ASSUME NEW u \in Workers, Spare(u)' PROVE fcb'[taskFiber'[u]] = NoJob
    <3>1. Spare(u) /\ taskFiber'[u] = taskFiber[u] /\ taskFiber[u] \in Fibers \ F
      BY <2>1 DEF Spare, IInv, TypeOK
    <3> QED BY <3>1 DEF JobInvs, JobBound
  <2>2. NoJob \notin done
    BY NullAssumption DEF IInv, TypeOK
  <2>3. \A f \in Fibers :
          /\ fstate'[f] \in {"FREE", "TERM"} => fcb'[f] = NoJob
          /\ fstate'[f] = "EXCEPT" => fcb'[f] \in done
          /\ fstate'[f] \notin Finished => fcb'[f] \notin done
    <3>1. ASSUME NEW f \in F PROVE fstate'[f] = "FREE" /\ fcb'[f] = NoJob
      OBVIOUS
    <3> QED BY <2>2, <3>1 DEF JobInvs, JobBound
  <2> QED BY <2>1, <2>3 DEF JobInvs, JobBound
<1>3. ASSUME NEW f \in Fibers, fcb[f] \in submitted \ done, Home(f)
      PROVE  fcb'[f] = fcb[f] /\ Home(f)'
  <2>1. f \notin F
    BY <1>3
  <2>2. (Queued(f) => Queued(f)') /\ (Held(f) => Held(f)')
    BY DEF Queued, Held, Cur
  <2> QED BY <1>3, <2>1, <2>2 DEF Home
<1>4. JobHome'
  BY <1>3, JobHomeKeeps DEF JobInvs
<1> QED BY <1>1, <1>2, <1>4 DEF JobInvs

\* schedule(cb): the function is in the new entry.
LEMMA ScheduleCbJob ==
  ASSUME IInv, JobInvs, NEW c \in Callers, NEW j \in Jobs, NEW u \in Pins,
         ScheduleCb(c, j, u)
  PROVE  JobInvs'
<1>1. /\ UNCHANGED <<pc, task, taskFiber, fstate, fcb, done>> /\ j # NoJob
      /\ j \notin submitted /\ submitted' = submitted \cup {j}
  BY NullAssumption DEF ScheduleCb, runVars, fiberVars
<1>2. CbTask(j, u) \in Task /\ CbTask(j, u).cb = j /\ CbTask(j, u).fiber = NoFiber
  BY PinsAssumption DEF CbTask, Task
<1>3. PICK n \in DOMAIN m_tasks' :
        /\ m_tasks'[n] = CbTask(j, u) /\ n \notin DOMAIN m_tasks
        /\ \A k \in DOMAIN m_tasks : k \in DOMAIN m_tasks' /\ m_tasks'[k] = m_tasks[k]
        /\ \A k \in DOMAIN m_tasks' : k \in DOMAIN m_tasks \/ k = n
  BY <1>2, PushProps DEF ScheduleCb
<1>4. /\ \A k \in DOMAIN m_tasks : m_tasks[k].cb # j
      /\ \A v \in Workers : task[v].cb # j
      /\ \A f \in Fibers : fcb[f] # j
      /\ j \notin done
  BY <1>1 DEF JobInvs, JobOnce, JobBound, Unbound
<1>5. JobOnce'
  <2>1. \A k : Unbound(k) \/ k = j => k \in submitted' \ done' /\ \A f \in Fibers : fcb'[f] # k
    BY <1>1, <1>4 DEF Unbound
  <2>2. ASSUME NEW k \in DOMAIN m_tasks', m_tasks'[k].cb # NoJob
        PROVE  /\ m_tasks'[k].fiber = NoFiber
               /\ \/ m_tasks'[k].cb = j
                  \/ Unbound(m_tasks[k].cb) /\ m_tasks'[k] = m_tasks[k]
               /\ \A l \in DOMAIN m_tasks' : m_tasks'[l].cb = m_tasks'[k].cb => l = k
               /\ \A v \in Workers : task[v].cb # m_tasks'[k].cb
    <3>1. CASE k = n
      BY <1>2, <1>3, <1>4, <3>1
    <3>2. CASE k # n
      <4>1. /\ k \in DOMAIN m_tasks /\ m_tasks'[k] = m_tasks[k] /\ m_tasks[k].cb # NoJob
            /\ m_tasks[k].cb # j
        BY <1>3, <1>4, <2>2, <3>2
      <4>2. /\ m_tasks[k].fiber = NoFiber /\ Unbound(m_tasks[k].cb)
            /\ \A l \in DOMAIN m_tasks : m_tasks[l].cb = m_tasks[k].cb => l = k
            /\ \A v \in Workers : task[v].cb # m_tasks[k].cb
        BY <4>1 DEF JobInvs, JobOnce
      <4> QED BY <1>2, <1>3, <4>1, <4>2
    <3> QED BY <3>1, <3>2
  <2>3. ASSUME NEW v \in Workers, task[v].cb # NoJob
        PROVE  /\ task[v].fiber = NoFiber /\ Unbound(task[v].cb)
               /\ \A w \in Workers : task[w].cb = task[v].cb => w = v
               /\ \A k \in DOMAIN m_tasks' : m_tasks'[k].cb # task[v].cb
    BY <2>2, <2>3 DEF JobInvs, JobOnce
  <2>4. \A f \in Fibers : fcb'[f] # NoJob =>
          fcb'[f] \in submitted' /\ \A g \in Fibers : fcb'[g] = fcb'[f] => g = f
    BY <1>1 DEF JobInvs, JobOnce
  <2>5. \A k \in DOMAIN m_tasks' : m_tasks'[k].cb # NoJob =>
          /\ m_tasks'[k].fiber = NoFiber /\ Unbound(m_tasks[k].cb)'
          /\ \A l \in DOMAIN m_tasks' : m_tasks'[l].cb = m_tasks'[k].cb => l = k
    BY <2>1, <2>2 DEF Unbound
  <2>6. \A v \in Workers : task'[v].cb # NoJob =>
          /\ task'[v].fiber = NoFiber /\ Unbound(task[v].cb)'
          /\ \A k \in DOMAIN m_tasks' : m_tasks'[k].cb # task'[v].cb
          /\ \A w \in Workers : task'[w].cb = task'[v].cb => w = v
    BY <1>1, <2>1, <2>3 DEF Unbound
  <2> QED BY <2>4, <2>5, <2>6 DEF JobOnce
<1>6. JobBound'
  BY <1>1 DEF JobInvs, JobBound, Spare
<1>7. ASSUME NEW g \in Fibers, Home(g) PROVE Home(g)'
  <2>1. (Queued(g) => Queued(g)') /\ (Held(g) => Held(g)')
    BY <1>1, <1>3 DEF Queued, Held, Cur
  <2> QED BY <1>1, <1>7, <2>1 DEF Home
<1>8. JobHome'
  <2>1. SUFFICES ASSUME NEW i \in submitted' \ done'
                 PROVE  \/ \E k \in DOMAIN m_tasks' : m_tasks'[k].cb = i
                        \/ \E v \in Workers : task'[v].cb = i
                        \/ \E f \in Fibers : fcb'[f] = i /\ Home(f)'
    BY DEF JobHome
  <2>2. CASE i = j
    BY <1>2, <1>3, <2>2
  <2>3. CASE i # j
    <3>1. i \in submitted \ done
      BY <1>1, <2>3
    <3> QED BY <1>1, <1>3, <1>7, <3>1 DEF JobInvs, JobHome
  <2> QED BY <2>2, <2>3
<1> QED BY <1>5, <1>6, <1>8 DEF JobInvs

\* schedule(new Fiber(cb)): the function is bound to the fiber in the new entry.
LEMMA ScheduleFiberJob ==
  ASSUME IInv, JobInvs, NEW c \in Callers, NEW j \in Jobs, NEW f \in Fibers,
         NEW u \in Pins, ScheduleFiber(c, j, f, u)
  PROVE  JobInvs'
<1>1. /\ UNCHANGED <<pc, task, taskFiber, done>> /\ j # NoJob
      /\ j \notin submitted /\ submitted' = submitted \cup {j}
      /\ fstate[f] = "FREE" /\ fstate'[f] = "INIT" /\ fcb'[f] = j
      /\ \A g \in Fibers \ {f} : fstate'[g] = fstate[g] /\ fcb'[g] = fcb[g]
  BY NullAssumption DEF ScheduleFiber, runVars, IInv, TypeOK
<1>2. FiberTask(f, u) \in Task /\ FiberTask(f, u).cb = NoJob /\ FiberTask(f, u).fiber = f
  BY PinsAssumption DEF FiberTask, Task
<1>3. PICK n \in DOMAIN m_tasks' :
        /\ m_tasks'[n] = FiberTask(f, u) /\ n \notin DOMAIN m_tasks
        /\ \A k \in DOMAIN m_tasks : k \in DOMAIN m_tasks' /\ m_tasks'[k] = m_tasks[k]
        /\ \A k \in DOMAIN m_tasks' : k \in DOMAIN m_tasks \/ k = n
  BY <1>2, PushProps DEF ScheduleFiber
<1>4. /\ \A k \in DOMAIN m_tasks : m_tasks[k].cb # j
      /\ \A v \in Workers : task[v].cb # j
      /\ \A g \in Fibers : fcb[g] # j
      /\ j \notin done /\ fcb[f] = NoJob
      /\ \A v \in Workers : taskFiber[v] # f
  BY <1>1 DEF JobInvs, JobOnce, JobBound, Unbound, IInv, NoDangling
<1>5. JobOnce'
  <2>1. \A k \in Jobs : Unbound(k) =>
          k \in submitted' \ done' /\ \A g \in Fibers : fcb'[g] # k
    BY <1>1 DEF Unbound
  <2>2. ASSUME NEW k \in DOMAIN m_tasks', m_tasks'[k].cb # NoJob
        PROVE  /\ k \in DOMAIN m_tasks /\ m_tasks'[k] = m_tasks[k]
               /\ m_tasks[k].cb \in Jobs
    <3>1. k \in DOMAIN m_tasks /\ m_tasks'[k] = m_tasks[k]
      BY <1>2, <1>3, <2>2
    <3>2. m_tasks[k] \in Task
      BY <3>1 DEF IInv, TypeOK
    <3> QED BY <2>2, <3>1, <3>2 DEF Task
  <2>3. \A k \in DOMAIN m_tasks' : m_tasks'[k].cb # NoJob =>
          /\ m_tasks'[k].fiber = NoFiber /\ Unbound(m_tasks[k].cb)'
          /\ \A l \in DOMAIN m_tasks' : m_tasks'[l].cb = m_tasks'[k].cb => l = k
    <3>1. ASSUME NEW k \in DOMAIN m_tasks', m_tasks'[k].cb # NoJob
          PROVE  /\ m_tasks'[k].fiber = NoFiber /\ Unbound(m_tasks[k].cb)'
                 /\ \A l \in DOMAIN m_tasks' : m_tasks'[l].cb = m_tasks'[k].cb => l = k
      <4>1. /\ m_tasks[k].fiber = NoFiber /\ Unbound(m_tasks[k].cb)
            /\ \A l \in DOMAIN m_tasks : m_tasks[l].cb = m_tasks[k].cb => l = k
        BY <2>2, <3>1 DEF JobInvs, JobOnce
      <4>2. Unbound(m_tasks[k].cb)'
        BY <2>1, <2>2, <3>1, <4>1 DEF Unbound
      <4> QED BY <2>2, <3>1, <4>1, <4>2
    <3> QED BY <3>1
  <2>4. ASSUME NEW v \in Workers, task'[v].cb # NoJob
        PROVE  /\ task'[v].fiber = NoFiber /\ Unbound(task[v].cb)'
               /\ \A k \in DOMAIN m_tasks' : m_tasks'[k].cb # task'[v].cb
               /\ \A w \in Workers : task'[w].cb = task'[v].cb => w = v
    <3>1. task[v].cb \in Jobs /\ task' = task
      BY <1>1, <2>4 DEF IInv, TypeOK, Task
    <3>2. /\ task[v].fiber = NoFiber /\ Unbound(task[v].cb)
          /\ \A k \in DOMAIN m_tasks : m_tasks[k].cb # task[v].cb
          /\ \A w \in Workers : task[w].cb = task[v].cb => w = v
      BY <1>1, <2>4 DEF JobInvs, JobOnce
    <3>3. Unbound(task[v].cb)'
      BY <2>1, <3>1, <3>2 DEF Unbound
    <3> QED BY <1>2, <1>3, <2>4, <3>1, <3>2, <3>3
  <2>5. \A g \in Fibers : fcb'[g] # NoJob =>
          fcb'[g] \in submitted' /\ \A h \in Fibers : fcb'[h] = fcb'[g] => h = g
    BY <1>1, <1>4 DEF JobInvs, JobOnce
  <2> QED BY <2>3, <2>4, <2>5 DEF JobOnce
<1>6. JobBound'
  <2>1. ASSUME NEW v \in Workers, Spare(v)' PROVE fcb'[taskFiber'[v]] = NoJob
    <3>1. Spare(v) /\ taskFiber[v] \in Fibers \ {f}
      BY <1>1, <1>4, <2>1 DEF Spare, IInv, TypeOK
    <3> QED BY <1>1, <3>1 DEF JobInvs, JobBound
  <2>2. \A g \in Fibers :
          /\ fstate'[g] \in {"FREE", "TERM"} => fcb'[g] = NoJob
          /\ fstate'[g] = "EXCEPT" => fcb'[g] \in done
          /\ fstate'[g] \notin Finished => fcb'[g] \notin done
    BY <1>1, <1>4 DEF JobInvs, JobBound, Finished
  <2> QED BY <1>1, <2>1, <2>2 DEF JobInvs, JobBound
<1>7. ASSUME NEW g \in Fibers, Home(g) PROVE g # f /\ Home(g)'
  <2>1. (Queued(g) => Queued(g)') /\ (Held(g) => Held(g)')
    BY <1>1, <1>3 DEF Queued, Held, Cur
  <2> QED BY <1>1, <1>7, <2>1 DEF Home
<1>8. JobHome'
  <2>1. SUFFICES ASSUME NEW i \in submitted' \ done'
                 PROVE  \/ \E k \in DOMAIN m_tasks' : m_tasks'[k].cb = i
                        \/ \E v \in Workers : task'[v].cb = i
                        \/ \E g \in Fibers : fcb'[g] = i /\ Home(g)'
    BY DEF JobHome
  <2>2. CASE i = j
    <3>1. Queued(f)'
      BY <1>2, <1>3 DEF Queued
    <3> QED BY <1>1, <2>2, <3>1 DEF Home
  <2>3. CASE i # j
    <3>1. i \in submitted \ done
      BY <1>1, <2>3
    <3> QED BY <1>1, <1>3, <1>7, <3>1 DEF JobInvs, JobHome
  <2> QED BY <2>2, <2>3
<1> QED BY <1>5, <1>6, <1>8 DEF JobInvs

\* Every step of Next keeps account of the functions.
LEMMA NextJob == IInv /\ JobInvs /\ [Next]_vars => JobInvs'
<1> SUFFICES ASSUME IInv, JobInvs, [Next]_vars PROVE JobInvs'
  OBVIOUS
<1>1. CASE UNCHANGED vars
  BY <1>1, JobStutter DEF vars, runVars, fiberVars, jobVars
<1>2. ASSUME NEW t \in Workers, RunStep(t) PROVE JobInvs'
  <2>1. CASE Miss(t) \/ Back(t) \/ Uncount(t)
    <3>1. /\ UNCHANGED <<m_tasks, task, taskFiber, fstate, fcb, submitted, done>>
          /\ \A u \in Workers : pc'[u] \in Holding <=> pc[u] \in Holding
      BY <2>1 DEF Miss, Back, Uncount, Goto, IInv, TypeOK, Holding, Counted, fiberVars,
         jobVars
    <3> QED BY <3>1, JobStutter
  <2> QED BY <1>2, <2>1, TakeJob, CallFiberJob, CallCbJob, LetGoJob DEF RunStep
<1>3. ASSUME NEW t \in Workers, UserStep(t) PROVE JobInvs'
  <2>1. CASE Await(t)
    <3>1. /\ UNCHANGED <<m_tasks, task, taskFiber, fstate, fcb, submitted, done>>
          /\ \A u \in Workers : pc'[u] \in Holding <=> pc[u] \in Holding
      BY <2>1 DEF Await, Goto, IInv, TypeOK, Holding, Counted
    <3> QED BY <3>1, JobStutter
  <2> QED BY <1>3, <2>1, UserJob DEF UserStep
<1>4. ASSUME NEW t \in Workers, EnterIdle(t) \/ Idle(t) \/ ExitIdle(t) PROVE JobInvs'
  <2>1. /\ UNCHANGED <<m_tasks, task, taskFiber, fstate, fcb, submitted, done>>
        /\ \A u \in Workers : pc'[u] \in Holding <=> pc[u] \in Holding
    BY <1>4 DEF EnterIdle, Idle, ExitIdle, Goto, IInv, TypeOK, Holding, Counted,
       fiberVars, jobVars
  <2> QED BY <2>1, JobStutter
<1>5. ASSUME NEW t \in Workers, Leave(t) PROVE JobInvs'
  <2>1. PICK F \in SUBSET Fibers : F = {taskFiber[t]} \cap Fibers
    OBVIOUS
  <2>2. /\ UNCHANGED <<m_tasks, task, fcb, submitted, done>>
        /\ pc[t] = "missed" /\ \A u \in Workers : pc'[u] \in Holding <=> pc[u] \in Holding
        /\ taskFiber'[t] = NoFiber
        /\ \A u \in Workers \ {t} : taskFiber'[u] = taskFiber[u]
        /\ \A f \in Fibers \ F : fstate'[f] = fstate[f]
    BY <1>5, <2>1 DEF Leave, Goto, IInv, TypeOK, Holding, Counted, jobVars
  <2>3. \A u \in Workers : pc[u] \in Holding => taskFiber'[u] = taskFiber[u]
    BY <2>2 DEF Holding, Counted
  <2>4. ASSUME NEW f \in F
        PROVE  /\ fstate'[f] = "FREE" /\ fcb'[f] = NoJob /\ fcb[f] \notin submitted \ done
               /\ \A u \in Workers : taskFiber'[u] # f
    <3>1. f = taskFiber[t] /\ f # NoFiber /\ fstate'[f] = "FREE"
      BY <1>5, <2>1, NullAssumption DEF Leave
    <3>2. Spare(t)
      BY <2>2, <3>1 DEF Spare, Holding, Counted
    <3>3. fcb[f] = NoJob /\ NoJob \notin submitted
      BY <3>1, <3>2, NullAssumption DEF JobInvs, JobBound, IInv, TypeOK
    <3>4. \A u \in Workers \ {t} : taskFiber[u] # f
      BY <3>1 DEF IInv, Owners
    <3> QED BY <2>2, <3>1, <3>3, <3>4
  <2> QED BY <2>2, <2>3, <2>4, FreeJob
<1>6. ASSUME NEW f \in Fibers, Wake(f) PROVE JobInvs'
  BY <1>6, PushFiberJob DEF Wake
<1>7. ASSUME NEW f \in Fibers, Destroy(f) PROVE JobInvs'
  <2>1. /\ UNCHANGED <<m_tasks, pc, task, taskFiber, submitted, done>>
        /\ fstate'[f] = "FREE" /\ fcb'[f] = NoJob
        /\ \A g \in Fibers \ {f} : fstate'[g] = fstate[g] /\ fcb'[g] = fcb[g]
    BY <1>7 DEF Destroy, IInv, TypeOK, runVars, jobVars
  <2>2. fcb[f] \notin submitted \ done
    BY <1>7, NullAssumption DEF Destroy, Finished, JobInvs, JobBound, IInv, TypeOK
  <2>3. \A u \in Workers : taskFiber[u] # f
    <3>1. ASSUME NEW u \in Workers, taskFiber[u] = f PROVE FALSE
      <4>1. ~Spare(u)
        BY <1>7, <3>1 DEF IInv, HeldStates, Destroy, Finished
      <4>2. pc[u] \in Holding /\ task[u] = NoTask
        BY <3>1, <4>1, NullAssumption DEF Spare
      <4> QED BY <1>7, <3>1, <4>2 DEF Destroy, Held, Cur, NoTask
    <3> QED BY <3>1
  <2>4. PICK F \in SUBSET Fibers : F = {f}
    OBVIOUS
  <2>5. /\ \A u \in Workers : /\ pc'[u] \in Holding <=> pc[u] \in Holding
                             /\ pc[u] \in Holding => taskFiber'[u] = taskFiber[u]
                             /\ taskFiber'[u] \in {taskFiber[u], NoFiber}
        /\ \A g \in F :
             /\ fstate'[g] = "FREE" /\ fcb'[g] = NoJob /\ fcb[g] \notin submitted \ done
             /\ \A u \in Workers : taskFiber'[u] # g
        /\ \A g \in Fibers \ F : fstate'[g] = fstate[g] /\ fcb'[g] = fcb[g]
    BY <2>1, <2>2, <2>3, <2>4
  <2> QED BY <2>1, <2>5, FreeJob
<1>8. ASSUME NEW c \in Callers, Submit(c) PROVE JobInvs'
  <2>1. ASSUME NEW f \in Fibers, ScheduleFinished(c, f) PROVE JobInvs'
    BY <2>1, PushFiberJob DEF ScheduleFinished, fiberVars
  <2> QED BY <1>8, <2>1, ScheduleCbJob, ScheduleFiberJob DEF Submit
<1>9. CASE Start \/ StopAuto \/ StopStep
  <2>1. /\ UNCHANGED <<m_tasks, task, taskFiber, fstate, fcb, submitted, done>>
        /\ \A u \in Workers : pc'[u] \in Holding <=> pc[u] \in Holding
    <3>1. CASE Start
      BY <3>1 DEF Start, IInv, Outside, Holding, Counted, fiberVars, jobVars
    <3>2. ASSUME StopCallRoot(TRUE)
          PROVE  /\ UNCHANGED <<m_tasks, task, taskFiber, fstate, fcb, submitted, done>>
                 /\ \A u \in Workers : pc'[u] \in Holding <=> pc[u] \in Holding
      <4>1. Root \in Workers => pc[Root] = "off"
        BY <3>2 DEF StopCallRoot, IInv, Outside
      <4> QED BY <3>2, <4>1, RootAssumption DEF StopCallRoot, Goto, IInv, TypeOK, Holding,
            Counted, fiberVars, jobVars
    <3>3. CASE StopAuto \/ StopMark(TRUE) \/ StopRootReturned \/ StopJoin
      BY <3>3 DEF StopAuto, StopMark, StopRootReturned, StopJoin, runVars, fiberVars,
         jobVars
    <3> QED BY <1>9, <3>1, <3>2, <3>3 DEF StopStep
  <2> QED BY <2>1, JobStutter
<1> QED BY <1>1, <1>2, <1>3, <1>4, <1>5, <1>6, <1>7, <1>8, <1>9 DEF Next, IdleStep

\* At first there is no function.
LEMMA InitJob == Init => JobInvs
<1> SUFFICES ASSUME Init PROVE JobInvs
  OBVIOUS
<1>1. /\ DOMAIN m_tasks = {} /\ submitted = {} /\ done = {}
      /\ \A f \in Fibers : fstate[f] = "FREE" /\ fcb[f] = NoJob
      /\ \A t \in Workers : task[t].cb = NoJob /\ taskFiber[t] = NoFiber
  BY DEF Init, NoTask
<1> QED BY <1>1 DEF JobInvs, JobOnce, JobBound, JobHome, Spare

\* The threads that leave run() leave no entry behind that they could have taken, and
\* every function that was submitted is accounted for.
THEOREM NothingAbandoned == Spec => [](LeaveInvs /\ NotAbandoned /\ JobInvs)
<1>1. Init => IInv /\ LeaveInvs /\ NotAbandoned /\ JobInvs
  <2>1. Init => NotAbandoned
    BY DEF Init, NotAbandoned, Served
  <2> QED BY <2>1, InitInv, InitLeave, InitJob
<1>2. /\ IInv /\ LeaveInvs /\ NotAbandoned /\ JobInvs
      /\ [Next]_vars
      => (IInv /\ LeaveInvs /\ NotAbandoned /\ JobInvs)'
  BY NextInv, NextLeave, NextJob
<1> QED BY <1>1, <1>2, PTL DEF Spec

\* stop() returns only when every function that was submitted has been started, except
\* the tasks pinned to a thread; what has not ended then is a fiber that waited.
THEOREM StopIsComplete == Spec => []StopLosesNothing
<1>1. ASSUME IInv, LeaveInvs, NotAbandoned, JobInvs PROVE StopLosesNothing
  <2>1. SUFFICES ASSUME ctl = "stopped", NEW j \in submitted \ done
                 PROVE  \/ \E f \in Fibers : fcb[f] = j /\ fstate[f] = "HOLD"
                        \/ \E i \in DOMAIN m_tasks :
                             /\ m_tasks[i].thread # AnyThread
                             /\ \/ m_tasks[i].cb = j
                                \/ \E f \in Fibers : m_tasks[i].fiber = f /\ fcb[f] = j
    BY DEF StopLosesNothing
  <2>2. /\ \A t \in Workers : pc[t] \in {"off", "done"}
        /\ ~Served
    BY <1>1, <2>1, StoppedAllOut
  <2>3. \A t \in Workers : pc[t] \notin Holding /\ task[t] = NoTask
    BY <1>1, <2>2 DEF IInv, Shapes, Holding, Counted
  <2>4. j # NoJob
    BY <1>1, NullAssumption DEF IInv, TypeOK
  <2>5. ASSUME NEW i \in DOMAIN m_tasks, m_tasks[i].cb = j
        PROVE  m_tasks[i].thread # AnyThread
    <3>1. m_tasks[i].fiber = NoFiber
      BY <1>1, <2>4, <2>5 DEF JobInvs, JobOnce
    <3> QED BY <1>1, <2>2, <3>1 DEF NotAbandoned
  <2>6. ASSUME NEW f \in Fibers, fcb[f] = j, Home(f), fstate[f] # "HOLD"
        PROVE  \E i \in DOMAIN m_tasks : m_tasks[i].thread # AnyThread /\ m_tasks[i].fiber = f
    <3>1. fstate[f] # "EXEC"
      BY <1>1, <2>3 DEF LeaveInvs, ExecHeld
    <3>2. ~Held(f)
      BY <2>3 DEF Held
    <3>3. Queued(f)
      BY <2>6, <3>1, <3>2 DEF Home
    <3>4. PICK i \in DOMAIN m_tasks : m_tasks[i].fiber = f
      BY <3>3 DEF Queued
    <3>5. m_tasks[i].thread # AnyThread
      BY <1>1, <2>2, <2>6, <3>4 DEF NotAbandoned
    <3> QED BY <3>4, <3>5
  <2>7. CASE \E i \in DOMAIN m_tasks : m_tasks[i].cb = j
    BY <2>5, <2>7
  <2>8. CASE \E t \in Workers : task[t].cb = j
    BY <2>3, <2>4, <2>8 DEF NoTask
  <2>9. CASE \E f \in Fibers : fcb[f] = j /\ Home(f)
    BY <2>6, <2>9
  <2> QED BY <1>1, <2>7, <2>8, <2>9 DEF JobInvs, JobHome
<1> QED BY <1>1, Accounted, NothingAbandoned, PTL

-----------------------------------------------------------------------------
(***************************************************************************)
(* The scheduler implements TaskPool.  A step of run() maps to Resume when *)
(* it calls a fiber, to Suspend when it comes back from one or a function  *)
(* ends, a wake-up of a job that has left its stack to Signal, a new task  *)
(* to SubmitJob, and every other step to a stutter.                        *)
(***************************************************************************)

\* The status of a job changes only with what it reads.
LEMMA StatusSame ==
  ASSUME NEW k, k \in submitted' <=> k \in submitted, k \in done' <=> k \in done,
         Running(k)' <=> Running(k),
         k \in submitted \ done /\ ~Running(k) => (Parked(k)' <=> Parked(k))
  PROVE  JobStatus(k)' = JobStatus(k)
<1>1. CASE k \in submitted \ done /\ ~Running(k)
  BY <1>1 DEF JobStatus
<1>2. CASE ~(k \in submitted \ done /\ ~Running(k))
  BY <1>2 DEF JobStatus
<1> QED BY <1>1, <1>2

\* A thread is on the same stack as before, with the same function.
LEMMA ExecutingSame ==
  ASSUME NEW t \in Workers, pc'[t] \in OnStack <=> pc[t] \in OnStack,
         pc[t] \in OnStack =>
           /\ Cur(t)' = Cur(t) /\ fcb'[Cur(t)] = fcb[Cur(t)]
           /\ fcb[Cur(t)] \in done' <=> fcb[Cur(t)] \in done
  PROVE  Executing(t)' = Executing(t)
<1>1. CASE pc[t] \in OnStack
  BY <1>1 DEF Executing
<1>2. CASE pc[t] \notin OnStack
  BY <1>2 DEF Executing
<1> QED BY <1>1, <1>2

\* The job's fibers are as before.
LEMMA ParkedSame ==
  ASSUME NEW k, \A f \in Fibers : fcb'[f] = k <=> fcb[f] = k,
         \A f \in Fibers : fcb[f] = k =>
           /\ fstate'[f] = "READY" <=> fstate[f] = "READY"
           /\ Queued(f)' <=> Queued(f)
           /\ Taken(f)' <=> Taken(f)
  PROVE  Parked(k)' <=> Parked(k)
<1>1. ASSUME NEW f \in Fibers
      PROVE  (fcb'[f] = k /\ fstate'[f] # "READY" /\ ~Queued(f)' /\ ~Taken(f)')
               <=> (fcb[f] = k /\ fstate[f] # "READY" /\ ~Queued(f) /\ ~Taken(f))
  OBVIOUS
<1> QED BY <1>1 DEF Parked

\* A step that the pool does not see.
LEMMA Stutters ==
  ASSUME UNCHANGED <<submitted, done>>, \A t \in Workers : Executing(t)' = Executing(t),
         \A k \in Jobs : k \in submitted \ done /\ ~Running(k) =>
           (Parked(k)' <=> Parked(k))
  PROVE  UNCHANGED TP!poolVars
<1>1. \A k \in Jobs : Running(k)' <=> Running(k)
  BY DEF Running
<1>2. \A k \in Jobs : JobStatus(k)' = JobStatus(k)
  BY <1>1, StatusSame
<1> QED BY <1>2 DEF TP!poolVars

\* A thread calls a fiber whose job was ready.
LEMMA Resumes ==
  ASSUME UNCHANGED <<submitted, done>>, NEW j \in Jobs, j \in submitted \ done,
         NEW t \in Workers, Executing(t) = NoJob, Executing(t)' = j,
         \A u \in Workers \ {t} : Executing(u)' = Executing(u),
         ~Running(j), ~Parked(j),
         \A k \in Jobs \ {j} : k \in submitted \ done => (Parked(k)' <=> Parked(k))
  PROVE  TP!PoolNext
<1>1. ASSUME NEW k \in Jobs \ {j} PROVE JobStatus(k)' = JobStatus(k)
  <2>1. Running(k)' <=> Running(k)
    BY NullAssumption DEF Running
  <2> QED BY <2>1, StatusSame
<1>2. JobStatus(j) = "ready"
  BY DEF JobStatus
<1>3. JobStatus(j)' = "running"
  <2>1. Running(j)'
    BY DEF Running
  <2> QED BY <2>1 DEF JobStatus
<1>4. TP!Resume(j, t)
  BY <1>1, <1>2, <1>3 DEF TP!Resume, TP!Free
<1> QED BY <1>4 DEF TP!PoolNext

\* A thread leaves the stack of its job.
LEMMA Suspends ==
  ASSUME NEW t \in Workers, NEW j \in Jobs, Executing(t) = j, Executing(t)' = NoJob,
         UNCHANGED submitted, j \in submitted, done' = done \/ done' = done \cup {j},
         \A u \in Workers \ {t} : Executing(u)' = Executing(u) /\ Executing(u) # j,
         \A k \in Jobs \ {j} : k \in submitted \ done => (Parked(k)' <=> Parked(k))
  PROVE  TP!PoolNext
<1>1. ASSUME NEW k \in Jobs \ {j} PROVE JobStatus(k)' = JobStatus(k)
  <2>1. Running(k)' <=> Running(k)
    BY NullAssumption DEF Running
  <2>2. k \in done' <=> k \in done
    OBVIOUS
  <2> QED BY <2>1, <2>2, StatusSame
<1>2. JobStatus(j)' \in {"ready", "waiting", "done"}
  <2>1. ~Running(j)'
    BY NullAssumption DEF Running
  <2> QED BY <2>1 DEF JobStatus
<1>3. TP!Suspend(j, t)
  BY <1>1, <1>2 DEF TP!Suspend
<1> QED BY <1>3 DEF TP!PoolNext

\* A job becomes ready that nobody executes.
LEMMA Moves ==
  ASSUME NEW j \in Jobs, UNCHANGED done,
         \A t \in Workers : Executing(t)' = Executing(t),
         JobStatus(j) \in {"new", "waiting"}, JobStatus(j)' = "ready",
         \A k \in Jobs \ {j} : /\ k \in submitted' <=> k \in submitted
                               /\ k \in submitted \ done => (Parked(k)' <=> Parked(k))
  PROVE  TP!PoolNext
<1>1. ASSUME NEW k \in Jobs \ {j} PROVE JobStatus(k)' = JobStatus(k)
  <2>1. Running(k)' <=> Running(k)
    BY DEF Running
  <2> QED BY <2>1, StatusSame
<1>2. TP!SubmitJob(j) \/ TP!Signal(j)
  BY <1>1 DEF TP!SubmitJob, TP!Signal, TP!Move
<1> QED BY <1>2 DEF TP!PoolNext

\* The job on a thread's stack is that of the fiber it has in hand, and has not ended.
LEMMA ExecutingIs ==
  ASSUME IInv, JobInvs, NEW t \in Workers
  PROVE  /\ Executing(t) # NoJob =>
              /\ pc[t] \in OnStack /\ Cur(t) \in Fibers
              /\ Executing(t) = fcb[Cur(t)] /\ Executing(t) \in submitted \ done
         /\ pc[t] \in {"exec", "parking"} =>
              Executing(t) = fcb[Cur(t)] /\ Executing(t) \in Jobs
<1>1. ASSUME pc[t] \in OnStack PROVE Cur(t) \in Fibers
  BY <1>1, CurIsFiber DEF IInv, OnStack, Holding, Counted
<1>2. ASSUME Executing(t) # NoJob
      PROVE  /\ pc[t] \in OnStack /\ Cur(t) \in Fibers
             /\ Executing(t) = fcb[Cur(t)] /\ Executing(t) \in submitted \ done
  <2>1. pc[t] \in OnStack /\ Executing(t) = fcb[Cur(t)] /\ fcb[Cur(t)] \notin done
    BY <1>2 DEF Executing
  <2>2. fcb[Cur(t)] \in submitted
    BY <1>1, <1>2, <2>1 DEF JobInvs, JobOnce
  <2> QED BY <1>1, <2>1, <2>2
<1>3. ASSUME pc[t] \in {"exec", "parking"}
      PROVE  Executing(t) = fcb[Cur(t)] /\ Executing(t) \in Jobs
  <2>1. Cur(t) \in Fibers /\ pc[t] \in OnStack
    BY <1>1, <1>3 DEF OnStack
  <2>2. fstate[Cur(t)] = "EXEC"
    BY <1>3 DEF IInv, HeldStates
  <2>3. fcb[Cur(t)] \in Jobs /\ fcb[Cur(t)] \notin done
    BY <2>1, <2>2 DEF IInv, Bound, JobInvs, JobBound, Finished
  <2> QED BY <2>1, <2>3 DEF Executing
<1> QED BY <1>2, <1>3

\* Who executes a job has its fiber in hand, and he alone.
LEMMA OneHand ==
  ASSUME IInv, JobInvs, NEW t \in Workers, NEW f \in Fibers, fcb[f] # NoJob
  PROVE  /\ Executing(t) = fcb[f] => Cur(t) = f /\ pc[t] \in OnStack
         /\ \A u \in Workers \ {t} : pc[u] \in Holding /\ Cur(u) = f =>
              /\ Executing(t) # fcb[f]
              /\ pc[t] \in Holding => Cur(t) # f
<1>1. ASSUME Executing(t) = fcb[f] PROVE Cur(t) = f /\ pc[t] \in OnStack
  BY <1>1, ExecutingIs DEF JobInvs, JobOnce
<1>2. ASSUME NEW u \in Workers \ {t}, pc[u] \in Holding, Cur(u) = f,
             pc[t] \in Holding
      PROVE  Cur(t) # f
  BY <1>2, NullAssumption DEF IInv, Owners, Cur
<1> QED BY <1>1, <1>2 DEF OnStack, Holding, Counted

\* A fiber that has ended, or is free or spare, is nobody's that counts.
LEMMA EndedJob ==
  ASSUME IInv, JobInvs, NEW f \in Fibers, fstate[f] \in Finished \cup {"FREE"}
  PROVE  fcb[f] \notin Jobs \ done
BY NullAssumption DEF JobInvs, JobBound, Finished, IInv, TypeOK

\* The scan: a fiber that was in the list is taken now.
LEMMA TakeMaps ==
  ASSUME IInv, JobInvs, NEW t \in Workers, Take(t)
  PROVE  UNCHANGED TP!poolVars
<1>1. PICK i \in DOMAIN m_tasks :
        /\ task' = [task EXCEPT ![t] = m_tasks[i]]
        /\ \A k \in DOMAIN m_tasks' : \E l \in DOMAIN m_tasks \ {i} :
             m_tasks'[k] = m_tasks[l]
        /\ \A l \in DOMAIN m_tasks \ {i} : \E k \in DOMAIN m_tasks' :
             m_tasks'[k] = m_tasks[l]
  BY TakeProps
<1>2. /\ pc[t] = "scan" /\ pc'[t] = "dispatch" /\ task'[t] = m_tasks[i]
      /\ \A u \in Workers \ {t} : pc'[u] = pc[u] /\ task'[u] = task[u]
      /\ UNCHANGED <<taskFiber, fstate, fcb, submitted, done>>
  BY <1>1 DEF Take, Goto, IInv, TypeOK, fiberVars, jobVars
<1>3. \A u \in Workers : Executing(u)' = Executing(u)
  <2>1. ASSUME NEW u \in Workers
        PROVE  /\ pc'[u] \in OnStack <=> pc[u] \in OnStack
               /\ pc[u] \in OnStack => Cur(u)' = Cur(u)
    BY <1>2 DEF OnStack, Cur
  <2> QED BY <1>2, <2>1, ExecutingSame
<1>4. \A f \in Fibers :
        (fstate'[f] # "READY" /\ ~Queued(f)' /\ ~Taken(f)')
          <=> (fstate[f] # "READY" /\ ~Queued(f) /\ ~Taken(f))
  <2>1. ASSUME NEW f \in Fibers, f # m_tasks[i].fiber
        PROVE  (Queued(f)' <=> Queued(f)) /\ (Taken(f)' <=> Taken(f))
    <3>1. Taken(f)' <=> Taken(f)
      BY <1>2, <2>1 DEF Taken
    <3>2. Queued(f)' <=> Queued(f)
      BY <1>1, <2>1 DEF Queued
    <3> QED BY <3>1, <3>2
  <2>2. ASSUME NEW f \in Fibers, f = m_tasks[i].fiber PROVE Queued(f) /\ Taken(f)'
    BY <1>2, <2>2 DEF Queued, Taken
  <2> QED BY <1>2, <2>1, <2>2
<1>5. \A k \in Jobs : Parked(k)' <=> Parked(k)
  BY <1>2, <1>4 DEF Parked
<1> QED BY <1>2, <1>3, <1>5, Stutters

\* run() calls the fiber that it took.
LEMMA CallFiberMaps ==
  ASSUME IInv, JobInvs, NEW t \in Workers, CallFiber(t)
  PROVE  TP!PoolNext
<1>1. PICK f \in Fibers : f = task[t].fiber
  BY DEF CallFiber, IInv, TypeOK, Task
<1>2. /\ pc[t] = "dispatch" /\ pc'[t] = "exec" /\ fstate[f] \notin Finished
      /\ fstate' = [fstate EXCEPT ![f] = "EXEC"]
      /\ \A u \in Workers \ {t} : pc'[u] = pc[u]
      /\ UNCHANGED <<m_tasks, task, taskFiber, fcb, submitted, done>>
  BY <1>1 DEF CallFiber, Goto, IInv, TypeOK, jobVars
<1>3. f # NoFiber /\ Cur(t) = f /\ Cur(t)' = f
  BY <1>1, <1>2, NullAssumption DEF Cur
<1>4. PICK j \in Jobs : j = fcb[f]
  <2>1. fstate[f] # "FREE"
    BY <1>1 DEF IInv, NoDangling
  <2>2. fstate[f] \in {"INIT", "HOLD", "EXEC", "READY"}
    BY <1>2, <2>1 DEF IInv, TypeOK, State, Finished
  <2> QED BY <1>1, <2>2 DEF IInv, Bound
<1>5. j \in submitted \ done /\ j # NoJob
  BY <1>2, <1>4, NullAssumption DEF JobInvs, JobOnce, JobBound
<1>6. Executing(t) = NoJob /\ Executing(t)' = j
  BY <1>2, <1>3, <1>4, <1>5 DEF Executing, OnStack
<1>7. ASSUME NEW u \in Workers \ {t} PROVE Executing(u)' = Executing(u) /\ Executing(u) # j
  <2>1. Executing(u)' = Executing(u)
    BY <1>2, ExecutingSame DEF Cur
  <2>2. Executing(u) # j
    BY <1>2, <1>3, <1>4, <1>5, OneHand DEF Holding, Counted
  <2> QED BY <2>1, <2>2
<1>8. ~Running(j)
  BY <1>5, <1>6, <1>7 DEF Running
<1>9. ~Parked(j)
  <2>1. Taken(f) /\ \A g \in Fibers : fcb[g] = j => g = f
    BY <1>1, <1>2, <1>4, <1>5 DEF Taken, JobInvs, JobOnce
  <2> QED BY <2>1 DEF Parked
<1>10. ASSUME NEW k \in Jobs \ {j} PROVE Parked(k)' <=> Parked(k)
  <2>1. \A g \in Fibers : fcb[g] = k => g # f
    BY <1>4
  <2>2. ASSUME NEW g \in Fibers, g # f
        PROVE  /\ fstate'[g] = fstate[g] /\ (Queued(g)' <=> Queued(g))
               /\ (Taken(g)' <=> Taken(g))
    BY <1>1, <1>2, <2>2 DEF Queued, Taken, IInv, TypeOK
  <2> QED BY <1>2, <2>1, <2>2, ParkedSame
<1> QED BY <1>2, <1>5, <1>6, <1>7, <1>8, <1>9, <1>10, Resumes

\* run() binds the function that it took to its own fiber, and calls that.
LEMMA CallCbMaps ==
  ASSUME IInv, JobInvs, NEW t \in Workers, CallCb(t)
  PROVE  TP!PoolNext
<1>1. PICK f \in Fibers : /\ IF taskFiber[t] # NoFiber THEN f = taskFiber[t]
                                                       ELSE fstate[f] = "FREE"
                          /\ taskFiber' = [taskFiber EXCEPT ![t] = f]
                          /\ fstate' = [fstate EXCEPT ![f] = "EXEC"]
                          /\ fcb' = [fcb EXCEPT ![f] = task[t].cb]
  BY DEF CallCb
<1>2. /\ pc[t] = "dispatch" /\ pc'[t] = "exec" /\ task[t].fiber = NoFiber
      /\ \A u \in Workers \ {t} : UNCHANGED <<pc[u], task[u], taskFiber[u]>>
      /\ task'[t] = NoTask /\ taskFiber'[t] = f
      /\ \A g \in Fibers \ {f} : fstate'[g] = fstate[g] /\ fcb'[g] = fcb[g]
      /\ fcb'[f] = task[t].cb /\ UNCHANGED <<m_tasks, submitted, done>>
  BY <1>1 DEF CallCb, Goto, IInv, TypeOK, jobVars
<1>3. PICK j \in Jobs : j = task[t].cb
  BY <1>2 DEF IInv, Shapes
<1>4. j # NoJob /\ j \in submitted \ done /\ \A g \in Fibers : fcb[g] # j
  BY <1>3, NullAssumption DEF JobInvs, JobOnce, Unbound
<1>5. /\ fcb[f] = NoJob
      /\ \A u \in Workers \ {t} : taskFiber[u] # f /\ task[u].fiber # f
  <2>1. CASE taskFiber[t] # NoFiber
    <3>1. Spare(t) /\ f = taskFiber[t]
      BY <1>1, <1>3, <1>4, <2>1 DEF Spare, NoTask
    <3>2. \A u \in Workers \ {t} : taskFiber[u] # f
      BY <2>1, <3>1 DEF IInv, Owners
    <3>3. ASSUME NEW u \in Workers \ {t}, task[u].fiber = f PROVE FALSE
      BY <3>1, <3>3, NullAssumption DEF IInv, Owners
    <3> QED BY <3>1, <3>2, <3>3 DEF JobInvs, JobBound
  <2>2. CASE taskFiber[t] = NoFiber
    <3>1. fstate[f] = "FREE"
      BY <1>1, <2>2
    <3> QED BY <3>1 DEF JobInvs, JobBound, IInv, NoDangling
  <2> QED BY <2>1, <2>2
<1>6. Executing(t) = NoJob /\ Executing(t)' = j
  <2>1. Cur(t)' = f
    BY <1>2 DEF Cur, NoTask
  <2> QED BY <1>2, <1>3, <1>4, <2>1 DEF Executing, OnStack
<1>7. ASSUME NEW u \in Workers \ {t} PROVE Executing(u)' = Executing(u) /\ Executing(u) # j
  <2>1. Cur(u)' = Cur(u) /\ Cur(u) # f
    BY <1>2, <1>5 DEF Cur
  <2>2. pc[u] \in OnStack => Cur(u) \in Fibers
    BY CurIsFiber DEF IInv, OnStack, Holding, Counted
  <2>3. Executing(u)' = Executing(u)
    BY <1>2, <2>1, <2>2, ExecutingSame
  <2> QED BY <1>4, <2>3, ExecutingIs
<1>8. ~Running(j) /\ ~Parked(j)
  BY <1>4, <1>6, <1>7 DEF Running, Parked
<1>9. ASSUME NEW k \in Jobs \ {j} PROVE Parked(k)' <=> Parked(k)
  <2>1. \A g \in Fibers : /\ fcb'[g] = k <=> fcb[g] = k
                          /\ fcb[g] = k => g # f
    BY <1>2, <1>3, <1>5, NullAssumption
  <2>2. ASSUME NEW g \in Fibers, g # f
        PROVE  /\ fstate'[g] = fstate[g] /\ (Queued(g)' <=> Queued(g))
               /\ (Taken(g)' <=> Taken(g))
    BY <1>2, <2>2, NullAssumption DEF Queued, Taken
  <2> QED BY <2>1, <2>2, ParkedSame
<1> QED BY <1>2, <1>4, <1>6, <1>7, <1>8, <1>9, Resumes

\* The steps of run() that drop a fiber or look at it: what they change is no part of
\* the job's status.
LEMMA QuietMaps ==
  ASSUME IInv, JobInvs, UNCHANGED <<m_tasks, submitted, done>>,
         \A u \in Workers : /\ pc'[u] \in OnStack <=> pc[u] \in OnStack
                            /\ pc'[u] = "dispatch" => pc[u] = "dispatch"
                            /\ pc[u] \in OnStack => Cur(u)' = Cur(u)
                            /\ pc'[u] = "dispatch" => task'[u] = task[u],
         \A u \in Workers : pc[u] = "dispatch" /\ pc'[u] # "dispatch" =>
           \A f \in Fibers : task[u].fiber = f => fcb[f] \notin Jobs \ done,
         \A f \in Fibers : fcb[f] \in Jobs \ done =>
           fcb'[f] = fcb[f] /\ (fstate'[f] = "READY" <=> fstate[f] = "READY"),
         \A f \in Fibers : fcb[f] \notin Jobs \ done => fcb'[f] \in {fcb[f], NoJob},
         \A u \in Workers : pc[u] \in OnStack => fcb'[Cur(u)] = fcb[Cur(u)]
  PROVE  UNCHANGED TP!poolVars
<1>1. \A u \in Workers : Executing(u)' = Executing(u)
  BY ExecutingSame
<1>2. ASSUME NEW k \in Jobs, k \in submitted \ done PROVE Parked(k)' <=> Parked(k)
  <2>1. \A f \in Fibers : fcb'[f] = k <=> fcb[f] = k
    BY <1>2, NullAssumption
  <2>2. ASSUME NEW f \in Fibers, fcb[f] = k
        PROVE  /\ fstate'[f] = "READY" <=> fstate[f] = "READY"
               /\ Queued(f)' <=> Queued(f)
               /\ Taken(f)' <=> Taken(f)
    <3>1. Taken(f) => Taken(f)'
      <4>1. SUFFICES ASSUME NEW u \in Workers, pc[u] = "dispatch", task[u].fiber = f
                     PROVE  Taken(f)'
        BY DEF Taken
      <4>2. pc'[u] = "dispatch"
        BY <1>2, <2>2, <4>1
      <4> QED BY <4>1, <4>2 DEF Taken
    <3>2. Taken(f)' => Taken(f)
      BY DEF Taken
    <3> QED BY <1>2, <2>2, <3>1, <3>2 DEF Queued
  <2> QED BY <2>1, <2>2, ParkedSame
<1> QED BY <1>1, <1>2, Stutters

\* run() lets go of a fiber, or a thread enters, idles or leaves.
LEMMA RunMaps ==
  ASSUME IInv, JobInvs, NEW t \in Workers,
         \/ Miss(t) \/ DropFinished(t) \/ Uncount(t) \/ Hold(t) \/ Ended(t)
         \/ Leave(t) \/ EnterIdle(t) \/ Idle(t) \/ ExitIdle(t)
  PROVE  UNCHANGED TP!poolVars
<1>1. /\ UNCHANGED <<m_tasks, submitted, done>>
      /\ pc[t] \notin OnStack /\ pc'[t] \notin OnStack /\ pc'[t] # "dispatch"
      /\ \A u \in Workers \ {t} : UNCHANGED <<pc[u], task[u], taskFiber[u]>>
  BY DEF Miss, DropFinished, Uncount, Hold, Ended, Leave, EnterIdle, Idle, ExitIdle, Goto,
     IInv, TypeOK, OnStack, jobVars
<1>2. \A u \in Workers \ {t} : Cur(u)' = Cur(u)
  BY <1>1 DEF Cur
<1>3. ASSUME pc[t] = "dispatch", NEW f \in Fibers, task[t].fiber = f
      PROVE  fcb[f] \notin Jobs \ done
  <2>1. DropFinished(t)
    BY <1>3 DEF Miss, Uncount, Hold, Ended, Leave, EnterIdle, Idle, ExitIdle
  <2> QED BY <1>3, <2>1, EndedJob DEF DropFinished
<1>4. ASSUME NEW f \in Fibers
      PROVE  /\ fcb[f] \in Jobs \ done =>
                  fcb'[f] = fcb[f] /\ (fstate'[f] = "READY" <=> fstate[f] = "READY")
             /\ fcb'[f] \in {fcb[f], NoJob}
             /\ fcb'[f] # fcb[f] => pc[t] \in Holding /\ Cur(t) = f
  <2>1. CASE Hold(t) \/ Ended(t)
    <3>1. PICK g \in Fibers : g = Cur(t)
      BY <2>1, CurIsFiber DEF IInv, Hold, Ended, Holding, Counted
    <3>2. CASE Hold(t)
      <4>1. fstate[g] # "READY" /\ fcb' = fcb /\ fstate' = [fstate EXCEPT ![g] = "HOLD"]
        BY <3>1, <3>2 DEF Hold
      <4> QED BY <4>1 DEF IInv, TypeOK
    <3>3. CASE Ended(t)
      <4>1. fcb[g] \notin Jobs \ done
        BY <3>1, <3>3, EndedJob DEF Ended
      <4>2. /\ pc[t] \in Holding
            /\ \/ UNCHANGED <<fstate, fcb>>
               \/ /\ fstate' = [fstate EXCEPT ![g] = "INIT"]
                  /\ fcb' = [fcb EXCEPT ![g] = NoJob]
        BY <3>1, <3>3 DEF Ended, Holding
      <4> QED BY <3>1, <4>1, <4>2 DEF IInv, TypeOK
    <3> QED BY <2>1, <3>2, <3>3
  <2>2. CASE Leave(t)
    <3>1. fcb' = fcb /\ (fstate'[f] # fstate[f] => f = taskFiber[t])
      BY <2>2 DEF Leave
    <3>2. ASSUME f = taskFiber[t] PROVE fcb[f] = NoJob
      <4>1. Spare(t)
        BY <2>2, <3>2, NullAssumption DEF Leave, Spare, Holding, Counted
      <4> QED BY <3>2, <4>1 DEF JobInvs, JobBound
    <3> QED BY <3>1, <3>2, NullAssumption
  <2>3. CASE UNCHANGED <<fstate, fcb>>
    BY <2>3
  <2> QED BY <2>1, <2>2, <2>3 DEF Miss, DropFinished, Uncount, EnterIdle, Idle, ExitIdle,
        fiberVars
<1>5. ASSUME NEW u \in Workers, pc[u] \in OnStack PROVE fcb'[Cur(u)] = fcb[Cur(u)]
  <2>1. Cur(u) \in Fibers /\ u # t /\ pc[u] \in Holding
    BY <1>1, <1>5, CurIsFiber DEF IInv, OnStack, Holding, Counted
  <2>2. pc[t] \in Holding => Cur(t) # Cur(u)
    BY <2>1, NullAssumption DEF IInv, Owners, Cur
  <2> QED BY <1>4, <2>1, <2>2
<1> QED BY <1>1, <1>2, <1>3, <1>4, <1>5, QuietMaps

\* The swap back to the scheduling fiber is where a thread leaves its job.
LEMMA BackMaps ==
  ASSUME IInv, JobInvs, NEW t \in Workers, Back(t)
  PROVE  [TP!PoolNext]_TP!poolVars
<1>1. /\ pc[t] \in OnStack /\ pc'[t] = "returned"
      /\ \A u \in Workers \ {t} : pc'[u] = pc[u]
      /\ UNCHANGED <<m_tasks, task, taskFiber, fstate, fcb, submitted, done>>
  BY DEF Back, Goto, IInv, TypeOK, OnStack, fiberVars, jobVars
<1>2. Executing(t)' = NoJob /\ \A u \in Workers \ {t} : Executing(u)' = Executing(u)
  BY <1>1, ExecutingSame DEF Executing, OnStack, Cur
<1>3. ASSUME NEW k \in Jobs PROVE Parked(k)' <=> Parked(k)
  <2>1. \A f \in Fibers : (Queued(f)' <=> Queued(f)) /\ (Taken(f)' <=> Taken(f))
    BY <1>1 DEF Queued, Taken, OnStack
  <2> QED BY <1>1, <2>1, ParkedSame
<1>4. CASE Executing(t) = NoJob
  BY <1>1, <1>2, <1>3, <1>4, Stutters
<1>5. CASE Executing(t) # NoJob
  <2>1. PICK j \in Jobs : j = Executing(t) /\ j \in submitted
    BY <1>5, ExecutingIs DEF IInv, TypeOK
  <2>2. \A u \in Workers \ {t} : Executing(u) # j
    <3>1. PICK f \in Fibers : f = Cur(t) /\ fcb[f] = j
      BY <1>5, <2>1, ExecutingIs
    <3>2. pc[t] \in Holding /\ fcb[f] # NoJob
      BY <1>1, <2>1, <3>1, NullAssumption DEF OnStack, Holding, Counted
    <3> QED BY <3>1, <3>2, OneHand
  <2> QED BY <1>1, <1>2, <1>3, <2>1, <2>2, Suspends
<1> QED BY <1>4, <1>5

\* An entry for one fiber is appended to the list.
LEMMA PushQueued ==
  ASSUME IInv, NEW x \in Task, Push(x)
  PROVE  \A f \in Fibers : Queued(f)' <=> Queued(f) \/ x.fiber = f
<1>1. PICK n \in DOMAIN m_tasks' :
        /\ m_tasks'[n] = x
        /\ \A k \in DOMAIN m_tasks : k \in DOMAIN m_tasks' /\ m_tasks'[k] = m_tasks[k]
        /\ \A k \in DOMAIN m_tasks' : k \in DOMAIN m_tasks \/ k = n
  BY PushProps
<1> QED BY <1>1 DEF Queued

\* A fiber is queued that has ended or is READY, or whose job is being executed.
LEMMA PushMaps ==
  ASSUME IInv, JobInvs, NEW f \in Fibers, NEW x \in Task, x.fiber = f, Push(x),
         UNCHANGED <<fcb, submitted, done>>,
         \A u \in Workers : /\ pc'[u] \in OnStack <=> pc[u] \in OnStack
                            /\ pc[u] \in OnStack => Cur(u)' = Cur(u),
         \A g \in Fibers : Taken(g)' <=> Taken(g), UNCHANGED fstate,
         fcb[f] \in Jobs \ done => fstate[f] = "READY" \/ Running(fcb[f])
  PROVE  UNCHANGED TP!poolVars
<1>1. \A u \in Workers : Executing(u)' = Executing(u)
  BY ExecutingSame
<1>2. ASSUME NEW k \in Jobs, k \in submitted \ done, ~Running(k)
      PROVE  Parked(k)' <=> Parked(k)
  <2>1. ASSUME NEW g \in Fibers, fcb[g] = k
        PROVE  (fstate'[g] # "READY" /\ ~Queued(g)' /\ ~Taken(g)')
                 <=> (fstate[g] # "READY" /\ ~Queued(g) /\ ~Taken(g))
    <3>1. g = f => fstate[g] = "READY"
      BY <1>2, <2>1
    <3>2. Queued(g)' <=> Queued(g) \/ f = g
      BY PushQueued
    <3> QED BY <3>1, <3>2
  <2> QED BY <2>1 DEF Parked
<1> QED BY <1>1, <1>2, Stutters

\* A READY fiber goes back into the list; a fiber that has ended is scheduled again.
LEMMA RequeueMaps ==
  ASSUME IInv, JobInvs,
         \/ \E t \in Workers : Requeue(t)
         \/ \E c \in Callers, f \in Fibers : ScheduleFinished(c, f)
  PROVE  UNCHANGED TP!poolVars
<1>1. ASSUME NEW t \in Workers, Requeue(t) PROVE UNCHANGED TP!poolVars
  <2>1. PICK f \in Fibers : f = Cur(t)
    BY <1>1, CurIsFiber DEF IInv, Requeue, Holding, Counted
  <2>2. /\ fstate[f] = "READY" /\ Push(FiberTask(f, AnyThread))
        /\ pc[t] = "post" /\ pc'[t] = "scan"
        /\ \A u \in Workers \ {t} : UNCHANGED <<pc[u], task[u], taskFiber[u]>>
        /\ UNCHANGED <<fstate, fcb, submitted, done>>
    BY <1>1, <2>1 DEF Requeue, Goto, IInv, TypeOK, fiberVars, jobVars
  <2>3. FiberTask(f, AnyThread) \in Task /\ FiberTask(f, AnyThread).fiber = f
    BY DEF FiberTask, Task
  <2>4. /\ \A u \in Workers : /\ pc'[u] \in OnStack <=> pc[u] \in OnStack
                              /\ pc[u] \in OnStack => Cur(u)' = Cur(u)
        /\ \A g \in Fibers : Taken(g)' <=> Taken(g)
    BY <2>2 DEF OnStack, Cur, Taken
  <2> QED BY <2>2, <2>3, <2>4, PushMaps
<1>2. ASSUME NEW c \in Callers, NEW f \in Fibers, ScheduleFinished(c, f)
      PROVE  UNCHANGED TP!poolVars
  <2>1. /\ fstate[f] \in Finished /\ Push(FiberTask(f, AnyThread))
        /\ UNCHANGED <<pc, task, taskFiber, fstate, fcb, submitted, done>>
    BY <1>2 DEF ScheduleFinished, runVars, fiberVars, jobVars
  <2>2. FiberTask(f, AnyThread) \in Task /\ FiberTask(f, AnyThread).fiber = f
    BY DEF FiberTask, Task
  <2>3. /\ \A u \in Workers : /\ pc'[u] \in OnStack <=> pc[u] \in OnStack
                              /\ pc[u] \in OnStack => Cur(u)' = Cur(u)
        /\ \A g \in Fibers : Taken(g)' <=> Taken(g)
    BY <2>1 DEF Cur, Taken
  <2>4. fcb[f] \notin Jobs \ done
    BY <2>1, EndedJob
  <2> QED BY <2>1, <2>2, <2>3, <2>4, PushMaps
<1> QED BY <1>1, <1>2

\* What a job does without leaving its stack, and the end of its function.
LEMMA UserMaps ==
  ASSUME IInv, JobInvs, NEW t \in Workers, UserStep(t)
  PROVE  [TP!PoolNext]_TP!poolVars
<1>1. PICK f \in Fibers : f = Cur(t)
  BY CurIsFiber DEF IInv, UserStep, YieldToReady, Await, Finish, SwitchTo, Holding, Counted
<1>2. /\ pc[t] = "exec" /\ pc'[t] \in {"parking", "leaving"}
      /\ \A u \in Workers \ {t} : pc'[u] = pc[u]
      /\ UNCHANGED <<task, taskFiber, submitted>>
  BY DEF UserStep, YieldToReady, Await, Finish, SwitchTo, Goto, IInv, TypeOK
<1>3. PICK j \in Jobs : j = fcb[f] /\ Executing(t) = j /\ j \in submitted \ done
  BY <1>1, <1>2, ExecutingIs, NullAssumption
<1>4. /\ \A u \in Workers : /\ pc'[u] \in OnStack <=> pc[u] \in OnStack
                            /\ Cur(u)' = Cur(u)
      /\ \A g \in Fibers : Taken(g)' <=> Taken(g)
  BY <1>2 DEF OnStack, Cur, Taken
<1>5. Running(j) /\ \A g \in Fibers : fcb[g] = j => g = f
  BY <1>3, NullAssumption DEF Running, JobInvs, JobOnce
<1>6. ASSUME NEW u \in Workers \ {t}
      PROVE  Executing(u) # j /\ (pc[u] \in OnStack => Cur(u) \in Fibers \ {f})
  <2>1. pc[t] \in Holding /\ fcb[f] # NoJob /\ (pc[u] \in OnStack => pc[u] \in Holding)
    BY <1>2, <1>3, NullAssumption DEF OnStack, Holding, Counted
  <2>2. pc[u] \in OnStack => Cur(u) \in Fibers
    BY CurIsFiber DEF IInv, OnStack, Holding, Counted
  <2> QED BY <1>1, <1>3, <2>1, <2>2, OneHand
<1>7. CASE YieldToReady(t) \/ Await(t)
  <2>1. /\ UNCHANGED <<m_tasks, fcb, done>>
        /\ \A g \in Fibers \ {f} : fstate'[g] = fstate[g]
    BY <1>1, <1>7 DEF YieldToReady, Await, IInv, TypeOK
  <2>2. \A u \in Workers : Executing(u)' = Executing(u)
    BY <1>4, <2>1, ExecutingSame
  <2>3. ASSUME NEW k \in Jobs, ~Running(k) PROVE Parked(k)' <=> Parked(k)
    <3>1. \A g \in Fibers : fcb[g] = k => g # f
      BY <1>3, <1>5, <2>3
    <3>2. \A g \in Fibers : Queued(g)' <=> Queued(g)
      BY <2>1 DEF Queued
    <3> QED BY <1>4, <2>1, <3>1, <3>2, ParkedSame
  <2> QED BY <1>2, <2>1, <2>2, <2>3, Stutters
<1>8. ASSUME NEW w \in Pins, SwitchTo(t, w) PROVE UNCHANGED TP!poolVars
  <2>1. Push(FiberTask(f, w)) /\ UNCHANGED <<fstate, fcb, submitted, done>>
    BY <1>1, <1>8 DEF SwitchTo, fiberVars
  <2>2. FiberTask(f, w) \in Task /\ FiberTask(f, w).fiber = f
    BY PinsAssumption DEF FiberTask, Task
  <2> QED BY <1>3, <1>4, <1>5, <2>1, <2>2, PushMaps
<1>9. CASE Finish(t)
  <2>1. /\ done' = done \cup {j} /\ fcb'[f] \in {NoJob, j} /\ UNCHANGED m_tasks
        /\ \A g \in Fibers \ {f} : fstate'[g] = fstate[g] /\ fcb'[g] = fcb[g]
    BY <1>1, <1>3, <1>9 DEF Finish, IInv, TypeOK
  <2>2. Executing(t)' = NoJob
    BY <1>1, <1>4, <2>1 DEF Executing
  <2>3. ASSUME NEW u \in Workers \ {t} PROVE Executing(u)' = Executing(u)
    <3>1. pc[u] \in OnStack => fcb'[Cur(u)] = fcb[Cur(u)] /\ fcb[Cur(u)] # j
      BY <1>5, <1>6, <2>1
    <3> QED BY <1>4, <2>1, <3>1, ExecutingSame
  <2>4. ASSUME NEW k \in Jobs \ {j} PROVE Parked(k)' <=> Parked(k)
    <3>1. \A g \in Fibers : /\ fcb'[g] = k <=> fcb[g] = k
                            /\ fcb[g] = k => g # f
      BY <1>3, <2>1, NullAssumption
    <3>2. \A g \in Fibers : Queued(g)' <=> Queued(g)
      BY <2>1 DEF Queued
    <3> QED BY <1>4, <2>1, <3>1, <3>2, ParkedSame
  <2> QED BY <1>2, <1>3, <1>6, <2>1, <2>2, <2>3, <2>4, Suspends
<1> QED BY <1>7, <1>8, <1>9 DEF UserStep

\* A wake-up signals the job, unless it comes before the job has left its stack.
LEMMA WakeMaps ==
  ASSUME IInv, JobInvs, NEW f \in Fibers, Wake(f)
  PROVE  [TP!PoolNext]_TP!poolVars
<1>1. /\ waker[f] /\ Push(FiberTask(f, AnyThread))
      /\ UNCHANGED <<pc, task, taskFiber, fstate, fcb, submitted, done>>
  BY DEF Wake, runVars, jobVars
<1>2. ~Queued(f) /\ fstate[f] \in {"EXEC", "HOLD"}
  BY <1>1 DEF IInv, OneClaim
<1>3. PICK j \in Jobs : j = fcb[f] /\ j \in submitted \ done
  BY <1>2, NullAssumption DEF IInv, Bound, JobInvs, JobOnce, JobBound, Finished
<1>4. FiberTask(f, AnyThread) \in Task /\ FiberTask(f, AnyThread).fiber = f
  BY DEF FiberTask, Task
<1>5. /\ \A u \in Workers : /\ pc'[u] \in OnStack <=> pc[u] \in OnStack
                            /\ Cur(u)' = Cur(u)
      /\ \A g \in Fibers : Taken(g)' <=> Taken(g)
  BY <1>1 DEF Cur, Taken
<1>6. CASE Running(j)
  BY <1>1, <1>3, <1>4, <1>5, <1>6, PushMaps
<1>7. CASE ~Running(j)
  <2>1. \A u \in Workers : Executing(u)' = Executing(u)
    BY <1>1, <1>5, ExecutingSame
  <2>2. \A g \in Fibers : Queued(g)' <=> Queued(g) \/ f = g
    BY <1>1, <1>4, PushQueued
  <2>3. \A g \in Fibers : fcb[g] = j => g = f
    BY <1>3, NullAssumption DEF JobInvs, JobOnce
  <2>4. JobStatus(j) = "waiting"
    <3>1. ~Taken(f)
      BY <1>1, NullAssumption DEF Taken, IInv, HeldStates, Claimed
    <3>2. Parked(j)
      BY <1>2, <1>3, <3>1 DEF Parked
    <3> QED BY <1>3, <1>7, <3>2 DEF JobStatus
  <2>5. JobStatus(j)' = "ready"
    <3>1. ~Parked(j)'
      BY <1>1, <2>2, <2>3 DEF Parked
    <3>2. ~Running(j)'
      BY <1>7, <2>1 DEF Running
    <3> QED BY <1>1, <1>3, <3>1, <3>2 DEF JobStatus
  <2>6. ASSUME NEW k \in Jobs \ {j} PROVE Parked(k)' <=> Parked(k)
    <3>1. \A g \in Fibers : fcb[g] = k => g # f
      BY <1>3
    <3> QED BY <1>1, <1>5, <2>2, <3>1, ParkedSame
  <2> QED BY <1>1, <2>1, <2>4, <2>5, <2>6, Moves
<1> QED BY <1>6, <1>7

\* A function that nobody knew, by itself or in a new fiber.
LEMMA SubmitMaps ==
  ASSUME IInv, JobInvs, NEW c \in Callers, NEW j \in Jobs, NEW w \in Pins,
         \/ ScheduleCb(c, j, w)
         \/ \E f \in Fibers : ScheduleFiber(c, j, f, w)
  PROVE  TP!PoolNext
<1>1. /\ j \notin submitted /\ submitted' = submitted \cup {j} /\ j \notin done
      /\ UNCHANGED <<pc, task, taskFiber, done>>
  BY DEF ScheduleCb, ScheduleFiber, runVars, JobInvs, JobBound
<1>2. \A g \in Fibers : fcb[g] # j
  BY <1>1, NullAssumption DEF JobInvs, JobOnce
<1>3. /\ \A u \in Workers : Cur(u)' = Cur(u)
      /\ \A g \in Fibers : Taken(g)' <=> Taken(g)
  BY <1>1 DEF Cur, Taken
<1>4. \A u \in Workers : pc[u] \in OnStack => Cur(u) \in Fibers
  BY CurIsFiber DEF IInv, OnStack, Holding, Counted
<1>5. \A u \in Workers : Executing(u) # j
  BY <1>1, ExecutingIs, NullAssumption
<1>6. JobStatus(j) = "new"
  BY <1>1 DEF JobStatus
<1>7. ASSUME \A u \in Workers : Executing(u)' = Executing(u), ~Parked(j)',
             \A k \in Jobs \ {j} : Parked(k)' <=> Parked(k)
      PROVE  TP!PoolNext
  <2>1. ~Running(j)'
    BY <1>5, <1>7 DEF Running
  <2>2. JobStatus(j)' = "ready"
    BY <1>1, <1>7, <2>1 DEF JobStatus
  <2> QED BY <1>1, <1>6, <1>7, <2>2, Moves
<1>8. CASE ScheduleCb(c, j, w)
  <2>1. Push(CbTask(j, w)) /\ UNCHANGED <<fstate, fcb>>
    BY <1>8 DEF ScheduleCb, fiberVars
  <2>2. CbTask(j, w) \in Task /\ CbTask(j, w).fiber = NoFiber
    BY PinsAssumption DEF CbTask, Task
  <2>3. \A g \in Fibers : Queued(g)' <=> Queued(g)
    BY <2>1, <2>2, PushQueued, NullAssumption
  <2>4. \A u \in Workers : Executing(u)' = Executing(u)
    BY <1>1, <1>3, <2>1, ExecutingSame
  <2>5. ASSUME NEW k \in Jobs PROVE Parked(k)' <=> Parked(k)
    BY <1>3, <2>1, <2>3, ParkedSame
  <2>6. ~Parked(j)'
    BY <1>2, <2>1 DEF Parked
  <2> QED BY <1>7, <2>4, <2>5, <2>6
<1>9. ASSUME NEW f \in Fibers, ScheduleFiber(c, j, f, w) PROVE TP!PoolNext
  <2>1. /\ fstate[f] = "FREE" /\ Push(FiberTask(f, w)) /\ fcb'[f] = j
        /\ \A g \in Fibers \ {f} : fstate'[g] = fstate[g] /\ fcb'[g] = fcb[g]
    BY <1>9 DEF ScheduleFiber, IInv, TypeOK
  <2>2. FiberTask(f, w) \in Task /\ FiberTask(f, w).fiber = f
    BY PinsAssumption DEF FiberTask, Task
  <2>3. \A g \in Fibers : Queued(g)' <=> Queued(g) \/ f = g
    BY <2>1, <2>2, PushQueued
  <2>4. fcb[f] = NoJob /\ \A u \in Workers : Cur(u) # f
    BY <2>1 DEF JobInvs, JobBound, IInv, NoDangling, Cur
  <2>5. ASSUME NEW u \in Workers PROVE Executing(u)' = Executing(u)
    <3>1. pc[u] \in OnStack => fcb'[Cur(u)] = fcb[Cur(u)]
      BY <1>4, <2>1, <2>4
    <3> QED BY <1>1, <1>3, <3>1, ExecutingSame
  <2>6. ~Parked(j)'
    <3>1. \A g \in Fibers : fcb'[g] = j => g = f
      BY <1>2, <2>1
    <3> QED BY <2>3, <3>1 DEF Parked
  <2>7. ASSUME NEW k \in Jobs \ {j} PROVE Parked(k)' <=> Parked(k)
    <3>1. \A g \in Fibers : /\ fcb'[g] = k <=> fcb[g] = k
                            /\ fcb[g] = k => g # f
      BY <2>1, <2>4, NullAssumption
    <3> QED BY <1>3, <2>1, <2>3, <3>1, ParkedSame
  <2> QED BY <1>7, <2>5, <2>6, <2>7
<1> QED BY <1>8, <1>9

\* start(), stop() and the end of a fiber.
LEMMA OwnerMaps ==
  ASSUME IInv, JobInvs,
         \/ Start \/ StopAuto \/ StopStep
         \/ \E f \in Fibers : Destroy(f)
  PROVE  UNCHANGED TP!poolVars
<1>1. CASE Start \/ StopAuto \/ StopStep
  <2>1. UNCHANGED <<m_tasks, task, taskFiber, fstate, fcb, submitted, done>>
    BY <1>1 DEF Start, StopAuto, StopStep, StopMark, StopCallRoot, StopRootReturned,
       StopJoin, runVars, fiberVars, jobVars
  <2>2. \A u \in Workers : pc'[u] # pc[u] => pc[u] = "off" /\ pc'[u] = "scan"
    <3>1. CASE Start
      BY <3>1 DEF Start, IInv, Outside
    <3>2. CASE StopCallRoot(TRUE)
      BY <3>2, RootAssumption DEF StopCallRoot, Goto, IInv, TypeOK, Outside
    <3>3. CASE StopAuto \/ StopMark(TRUE) \/ StopRootReturned \/ StopJoin
      BY <3>3 DEF StopAuto, StopMark, StopRootReturned, StopJoin, runVars
    <3> QED BY <1>1, <3>1, <3>2, <3>3 DEF StopStep
  <2>3. \A u \in Workers : /\ pc'[u] \in OnStack <=> pc[u] \in OnStack
                           /\ pc'[u] = "dispatch" <=> pc[u] = "dispatch"
                           /\ Cur(u)' = Cur(u)
    BY <2>1, <2>2 DEF OnStack, Cur
  <2> QED BY <2>1, <2>3, QuietMaps
<1>2. ASSUME NEW f \in Fibers, Destroy(f) PROVE UNCHANGED TP!poolVars
  <2>1. /\ UNCHANGED <<m_tasks, pc, task, taskFiber, submitted, done>>
        /\ fstate[f] \in Finished /\ ~Held(f) /\ fcb'[f] = NoJob
        /\ \A g \in Fibers \ {f} : fstate'[g] = fstate[g] /\ fcb'[g] = fcb[g]
    BY <1>2 DEF Destroy, IInv, TypeOK, runVars, jobVars
  <2>2. fcb[f] \notin Jobs \ done
    BY <2>1, EndedJob
  <2>3. \A u \in Workers : Cur(u)' = Cur(u)
    BY <2>1 DEF Cur
  <2>4. ASSUME NEW u \in Workers, pc[u] \in OnStack PROVE fcb'[Cur(u)] = fcb[Cur(u)]
    <3>1. pc[u] \in Holding \ {"dispatch"}
      BY <2>4 DEF OnStack, Holding, Counted
    <3>2. Cur(u) \in Fibers \ {f}
      BY <2>1, <3>1, CurIsFiber DEF IInv, Held
    <3> QED BY <2>1, <3>2
  <2>5. ASSUME NEW g \in Fibers
        PROVE  /\ fcb[g] \in Jobs \ done =>
                    fcb'[g] = fcb[g] /\ (fstate'[g] = "READY" <=> fstate[g] = "READY")
               /\ fcb'[g] \in {fcb[g], NoJob}
    BY <2>1, <2>2
  <2> QED BY <2>1, <2>3, <2>4, <2>5, QuietMaps
<1> QED BY <1>1, <1>2

\* Every step of the scheduler is one of the task pool, or none.
LEMMA NextMaps == IInv /\ JobInvs /\ [Next]_vars => [TP!PoolNext]_TP!poolVars
<1> SUFFICES ASSUME IInv, JobInvs, [Next]_vars PROVE [TP!PoolNext]_TP!poolVars
  OBVIOUS
<1>1. CASE UNCHANGED vars
  <2>1. /\ UNCHANGED <<m_tasks, pc, fstate, fcb, submitted, done>>
        /\ \A u \in Workers : Cur(u)' = Cur(u) /\ task'[u] = task[u]
    BY <1>1 DEF vars, runVars, fiberVars, jobVars, Cur
  <2> QED BY <2>1, QuietMaps
<1>2. ASSUME NEW t \in Workers, RunStep(t) PROVE [TP!PoolNext]_TP!poolVars
  BY <1>2, TakeMaps, CallFiberMaps, CallCbMaps, BackMaps, RequeueMaps, RunMaps DEF RunStep
<1>3. ASSUME NEW t \in Workers, UserStep(t) PROVE [TP!PoolNext]_TP!poolVars
  BY <1>3, UserMaps
<1>4. ASSUME NEW t \in Workers, IdleStep(t) PROVE [TP!PoolNext]_TP!poolVars
  BY <1>4, RunMaps DEF IdleStep
<1>5. ASSUME NEW f \in Fibers, Wake(f) \/ Destroy(f) PROVE [TP!PoolNext]_TP!poolVars
  BY <1>5, WakeMaps, OwnerMaps
<1>6. ASSUME NEW c \in Callers, Submit(c) PROVE [TP!PoolNext]_TP!poolVars
  BY <1>6, SubmitMaps, RequeueMaps DEF Submit
<1>7. CASE Start \/ StopAuto \/ StopStep
  BY <1>7, OwnerMaps
<1> QED BY <1>1, <1>2, <1>3, <1>4, <1>5, <1>6, <1>7 DEF Next

\* Under every interleaving a submitted function is executed by one thread at a time,
\* is resumed only after a wake-up, and no step makes it go back or skip a stage: the
\* scheduler implements TaskPool.
THEOREM SchedulerIsTaskPool == Spec => ImplementsTaskPool
<1>1. Init => TP!PoolInit
  <2> SUFFICES ASSUME Init PROVE TP!PoolInit
    OBVIOUS
  <2>1. \A j \in Jobs : JobStatus(j) = "new"
    BY DEF Init, JobStatus
  <2>2. \A t \in Workers : Executing(t) = NoJob
    BY DEF Init, Executing, OnStack
  <2> QED BY <2>1, <2>2 DEF TP!PoolInit
<1>2. IInv /\ JobInvs /\ [Next]_vars => [TP!PoolNext]_TP!poolVars
  BY NextMaps
<1> QED BY <1>1, <1>2, Accounted, NothingAbandoned, PTL DEF Spec, ImplementsTaskPool,
      TP!PoolSpec

=============================================================================
