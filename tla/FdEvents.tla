------------------------------ MODULE FdEvents ------------------------------
(***************************************************************************)
(* The fd contexts of HPS::IOManager (iomanager.h, iomanager.cc): who      *)
(* waits for which event of which fd.                                      *)
(*                                                                         *)
(* Three parties keep a record of a wait and have to agree: the FdContext  *)
(* (events, and the fiber in its EventContext), the kernel (the epoll      *)
(* registration, whose data points to the FdContext) and the counter       *)
(* m_pendingEventCount.  addEvent, delEvent, cancelEvent, cancelAll and    *)
(* the event loop of idle() change them under the mutex of the FdContext;  *)
(* the report that epoll_wait gave to a thread may be stale when the       *)
(* thread gets that mutex.  The vector m_fdContexts grows on demand, and a *)
(* context that falls out of it is never freed.                            *)
(*                                                                         *)
(* On each fd one fiber reads and one writes, so a fiber is named by its   *)
(* fd and event.  The sockets behind the fds become ready at any time, may *)
(* be closed (hook.cc: cancelAll, then the system call) and opened again.  *)
(***************************************************************************)
EXTENDS Integers, FiniteSets

CONSTANTS
  Fds,        \* file descriptors in use
  Threads,    \* the threads that run IOManager::idle
  InitSize,   \* m_fdContexts.size() after the constructor (32)
  MaxMade     \* bound: how many contexts are made for one fd

ASSUME FdsAssumption == Fds \subseteq Nat \ {0, 1} /\ IsFiniteSet(Fds)
ASSUME SizesAssumption == InitSize \in Nat /\ MaxMade \in Nat \ {0}

VARIABLES
  size,       \* m_fdContexts.size()
  made,       \* contexts made for the fd; the last is m_fdContexts[fd]
  shrunk,     \* history: a resize has made m_fdContexts smaller
  events,     \* FdContext::events of every context ever made
  m_pendingEventCount,
  reg,        \* the kernel's registration of the fd: context (0: none), events
  open,       \* the fds that are open
  closing,    \* the fds whose close() has done cancelAll
  apc,        \* where the fiber for an event of an fd is: run, grow, add, wait
  actx,       \* the fd_ctx it has found
  batch,      \* the reports a thread has got from epoll_wait
  aborted     \* an ASSERT has failed

vectorVars == <<size, made, shrunk>>
ctxVars == <<vectorVars, events, m_pendingEventCount>>
kernelVars == <<reg, open, closing>>
fiberVars == <<apc, actx>>
vars == <<ctxVars, kernelVars, fiberVars, batch, aborted>>

Event == {"READ", "WRITE"}
Ctx == 1..MaxMade
NoReg == [ctx |-> 0, events |-> {}]
Report == [fd : Fds, ctx : Ctx, events : SUBSET (Event \cup {"ERR"})]

-----------------------------------------------------------------------------
(***************************************************************************)
(* epoll_ctl: ADD fails on a registered fd, MOD and DEL on one that is not *)
(***************************************************************************)
CtlOk(fd, op) == fd \in open /\ (op = "ADD" <=> reg[fd].ctx = 0)

\* The registration left by MOD (or DEL, when no event is left) by context g
Rest(g, left) == IF left = {} THEN NoReg ELSE [ctx |-> g, events |-> left]

\* m_fdContexts[fd] exists (checked under the read lock)
Known(fd) == fd < size

-----------------------------------------------------------------------------
(***************************************************************************)
(* triggerEvent and resetContext                                           *)
(***************************************************************************)

\* Mutant: triggerEvent does not clear the event
TriggerKeeps(fd, g, S) ==
  /\ m_pendingEventCount' = m_pendingEventCount - Cardinality(S)
  /\ apc' = [w \in DOMAIN apc |->
               IF w[1] = fd /\ w[2] \in S THEN "run" ELSE apc[w]]
  /\ UNCHANGED events

\* The events S of context g of fd are triggered: the fibers are scheduled and
\* each is uncounted
Trigger(fd, g, S) ==
  /\ events' = [events EXCEPT ![fd][g] = @ \ S]
  /\ m_pendingEventCount' = m_pendingEventCount - Cardinality(S)
  /\ apc' = [w \in DOMAIN apc |->
               IF w[1] = fd /\ w[2] \in S THEN "run" ELSE apc[w]]

\* Take the events S away from the context of fd, if it is known and has them
Remove(fd, S) ==
  LET g == made[fd]
      left == events[fd][g] \ S
  IN
  /\ ~aborted
  /\ Known(fd)
  /\ S # {}
  /\ S \subseteq events[fd][g]
  /\ CtlOk(fd, "DEL")
  /\ reg' = [reg EXCEPT ![fd] = Rest(g, left)]

\* cancelEvent
CancelEvent(fd, e) ==
  /\ Remove(fd, {e})
  /\ Trigger(fd, made[fd], {e})
  /\ UNCHANGED <<vectorVars, open, closing, actx, batch, aborted>>

\* Mutant: delEvent leaves the event counted
DelEventCounted(fd, e) ==
  /\ Remove(fd, {e})
  /\ events' = [events EXCEPT ![fd][made[fd]] = @ \ {e}]
  /\ apc' = [apc EXCEPT ![<<fd, e>>] = "dropped"]
  /\ UNCHANGED <<vectorVars, m_pendingEventCount, open, closing, actx, batch,
                 aborted>>

\* delEvent: the fiber's pointer is dropped, nobody is woken
DelEvent(fd, e) ==
  /\ Remove(fd, {e})
  /\ events' = [events EXCEPT ![fd][made[fd]] = @ \ {e}]
  /\ m_pendingEventCount' = m_pendingEventCount - 1
  /\ apc' = [apc EXCEPT ![<<fd, e>>] = "dropped"]
  /\ UNCHANGED <<vectorVars, open, closing, actx, batch, aborted>>

\* cancelAll
CancelAll(fd) ==
  /\ Remove(fd, events[fd][made[fd]])
  /\ Trigger(fd, made[fd], events[fd][made[fd]])
  /\ UNCHANGED <<vectorVars, open, closing, actx, batch, aborted>>

-----------------------------------------------------------------------------
(***************************************************************************)
(* addEvent by the fiber for event e of fd                                 *)
(***************************************************************************)

\* Under the read lock: the context is there, or the vector has to grow
AddLookup(fd, e) ==
  /\ ~aborted
  /\ apc[<<fd, e>>] = "run"
  /\ fd \in open
  /\ apc' = [apc EXCEPT ![<<fd, e>>] = IF Known(fd) THEN "add" ELSE "grow"]
  /\ actx' = [actx EXCEPT ![<<fd, e>>] = IF Known(fd) THEN made[fd] ELSE @]
  /\ UNCHANGED <<ctxVars, kernelVars, batch, aborted>>

\* The size that fd asks for: fd * 1.5, truncated
ContextSize(fd) == (fd * 3) \div 2

\* Mutant: contextResize makes the contexts anew
AddGrowAnew(fd, e) ==
  LET n == ContextSize(fd) IN
  /\ ~aborted
  /\ apc[<<fd, e>>] = "grow"
  /\ made' = [f \in Fds |-> IF f < n THEN made[f] + 1 ELSE made[f]]
  /\ \A f \in Fds : made'[f] <= MaxMade       \* bound
  /\ size' = n
  /\ shrunk' = (shrunk \/ n < size)
  /\ apc' = [apc EXCEPT ![<<fd, e>>] = "add"]
  /\ actx' = [actx EXCEPT ![<<fd, e>>] = made'[fd]]
  /\ UNCHANGED <<events, m_pendingEventCount, kernelVars, batch, aborted>>

\* Under the write lock: contextResize(fd * 1.5), whatever the size is by now
AddGrow(fd, e) ==
  LET n == ContextSize(fd) IN
  /\ ~aborted
  /\ apc[<<fd, e>>] = "grow"
  /\ made' = [f \in Fds |-> IF size <= f /\ f < n THEN made[f] + 1 ELSE made[f]]
  /\ \A f \in Fds : made'[f] <= MaxMade       \* bound
  /\ size' = n
  /\ shrunk' = (shrunk \/ n < size)
  /\ apc' = [apc EXCEPT ![<<fd, e>>] = "add"]
  /\ actx' = [actx EXCEPT ![<<fd, e>>] = made'[fd]]
  /\ UNCHANGED <<events, m_pendingEventCount, kernelVars, batch, aborted>>

\* Under the context's mutex: epoll_ctl fails and addEvent returns -1 ...
AddFails(fd, e) ==
  LET g == actx[<<fd, e>>] IN
  /\ ~aborted
  /\ apc[<<fd, e>>] = "add"
  /\ ~CtlOk(fd, IF events[fd][g] = {} THEN "ADD" ELSE "MOD")
  /\ apc' = [apc EXCEPT ![<<fd, e>>] = "run"]
  /\ UNCHANGED <<ctxVars, kernelVars, actx, batch, aborted>>

\* ... or the event is registered with the fiber, which yields
AddEvent(fd, e) ==
  LET g == actx[<<fd, e>>]
      now == events[fd][g] \cup {e}
  IN
  /\ ~aborted
  /\ apc[<<fd, e>>] = "add"
  /\ CtlOk(fd, IF events[fd][g] = {} THEN "ADD" ELSE "MOD")
  /\ reg' = [reg EXCEPT ![fd] = [ctx |-> g, events |-> now]]
  /\ events' = [events EXCEPT ![fd][g] = now]
  /\ m_pendingEventCount' = m_pendingEventCount + 1
  /\ apc' = [apc EXCEPT ![<<fd, e>>] = "wait"]
  /\ UNCHANGED <<vectorVars, open, closing, actx, batch, aborted>>

-----------------------------------------------------------------------------
(***************************************************************************)
(* The event loop of idle()                                                *)
(***************************************************************************)

\* epoll_wait returns: for some registered fds, events of interest or an error
EpollWait(t) ==
  /\ ~aborted
  /\ batch[t] = {}
  /\ \E fds \in SUBSET {fd \in Fds : reg[fd].ctx # 0} \ {{}} :
       \E what \in [fds -> SUBSET (Event \cup {"ERR"}) \ {{}}] :
         /\ \A fd \in fds : what[fd] \subseteq reg[fd].events \cup {"ERR"}
         /\ batch' = [batch EXCEPT ![t] =
              {[fd |-> fd, ctx |-> reg[fd].ctx, events |-> what[fd]] : fd \in fds}]
  /\ UNCHANGED <<ctxVars, kernelVars, fiberVars, aborted>>

\* What a report means for its context: an error counts for all its events
RealEvents(r) ==
  (r.events \cap Event)
  \cup (IF "ERR" \in r.events THEN events[r.fd][r.ctx] ELSE {})

\* The report is stale, or epoll_ctl fails: continue
SkipReport(t, r) ==
  LET has == events[r.fd][r.ctx] IN
  /\ ~aborted
  /\ r \in batch[t]
  /\ has \cap RealEvents(r) = {} \/ ~CtlOk(r.fd, "MOD")
  /\ batch' = [batch EXCEPT ![t] = @ \ {r}]
  /\ UNCHANGED <<ctxVars, kernelVars, fiberVars, aborted>>

\* The report is acted on: every real event is triggered, and triggerEvent
\* asserts that the context has it
HandleReport(t, r) ==
  LET has == events[r.fd][r.ctx]
      real == RealEvents(r)
  IN
  /\ ~aborted
  /\ r \in batch[t]
  /\ has \cap real # {}
  /\ CtlOk(r.fd, "MOD")
  /\ batch' = [batch EXCEPT ![t] = @ \ {r}]
  /\ reg' = [reg EXCEPT ![r.fd] = Rest(r.ctx, has \ real)]
  /\ IF real \subseteq has
       THEN Trigger(r.fd, r.ctx, real) /\ UNCHANGED aborted
       ELSE aborted' = TRUE /\ UNCHANGED <<events, m_pendingEventCount, apc>>
  /\ UNCHANGED <<vectorVars, open, closing, actx>>

-----------------------------------------------------------------------------
(***************************************************************************)
(* The hooked close(), and the kernel giving the number out again          *)
(***************************************************************************)
CloseBegin(fd) ==
  /\ ~aborted
  /\ fd \in open \ closing
  /\ closing' = closing \cup {fd}
  /\ IF /\ Known(fd)
        /\ events[fd][made[fd]] # {}
        /\ CtlOk(fd, "DEL")
       THEN /\ Remove(fd, events[fd][made[fd]])
            /\ Trigger(fd, made[fd], events[fd][made[fd]])
       ELSE UNCHANGED <<reg, events, m_pendingEventCount, apc>>
  /\ UNCHANGED <<vectorVars, open, actx, batch, aborted>>

CloseEnd(fd) ==
  /\ ~aborted
  /\ fd \in closing
  /\ closing' = closing \ {fd}
  /\ open' = open \ {fd}
  /\ reg' = [reg EXCEPT ![fd] = NoReg]
  /\ UNCHANGED <<ctxVars, fiberVars, batch, aborted>>

Open(fd) ==
  /\ ~aborted
  /\ fd \notin open
  /\ open' = open \cup {fd}
  /\ UNCHANGED <<ctxVars, reg, closing, fiberVars, batch, aborted>>

-----------------------------------------------------------------------------
Init ==
  /\ size = InitSize
  /\ shrunk = FALSE
  /\ made = [fd \in Fds |-> IF fd < InitSize THEN 1 ELSE 0]
  /\ events = [fd \in Fds |-> [g \in Ctx |-> {}]]
  /\ m_pendingEventCount = 0
  /\ reg = [fd \in Fds |-> NoReg]
  /\ open = Fds
  /\ closing = {}
  /\ apc = [w \in Fds \X Event |-> "run"]
  /\ actx = [w \in Fds \X Event |-> 1]
  /\ batch = [t \in Threads |-> {}]
  /\ aborted = FALSE

FiberStep(fd, e) ==
  AddLookup(fd, e) \/ AddGrow(fd, e) \/ AddFails(fd, e) \/ AddEvent(fd, e)

OtherStep(fd) ==
  \/ \E e \in Event : CancelEvent(fd, e) \/ DelEvent(fd, e)
  \/ CancelAll(fd)
  \/ CloseBegin(fd) \/ CloseEnd(fd) \/ Open(fd)

IdleStep(t) ==
  \/ EpollWait(t)
  \/ \E r \in batch[t] : SkipReport(t, r) \/ HandleReport(t, r)

Next ==
  \/ \E fd \in Fds : (\E e \in Event : FiberStep(fd, e)) \/ OtherStep(fd)
  \/ \E t \in Threads : IdleStep(t)

Spec == Init /\ [][Next]_vars

-----------------------------------------------------------------------------
(***************************************************************************)
(* Properties                                                              *)
(***************************************************************************)

\* Types of the contexts, the registrations and the locals.
TypeOK ==
  /\ size \in Nat
  /\ made \in [Fds -> 0..MaxMade]
  /\ shrunk \in BOOLEAN
  /\ events \in [Fds -> [Ctx -> SUBSET Event]]
  /\ m_pendingEventCount \in Nat
  /\ reg \in [Fds -> [ctx : 0..MaxMade, events : SUBSET Event]]
  /\ open \subseteq Fds
  /\ closing \subseteq open
  /\ apc \in [Fds \X Event -> {"run", "grow", "add", "wait", "dropped"}]
  /\ actx \in [Fds \X Event -> Ctx]
  /\ batch \in [Threads -> SUBSET Report]
  /\ aborted \in BOOLEAN

\* The events that are registered in some context
Registered == {x \in Fds \X Ctx \X Event : x[3] \in events[x[1]][x[2]]}

\* m_pendingEventCount, which stopping() trusts, is the number of events that are
\* registered in some context, whichever of the five functions removes them and
\* however stale the report it acts on.
PendingExact == m_pendingEventCount = Cardinality(Registered)

\* A fiber that waits is held by exactly one context, the one it found, and a
\* context holds no fiber that has gone on: no wake-up is lost or given twice.
WaitersHeld ==
  \A fd \in Fds, e \in Event, g \in Ctx :
    e \in events[fd][g] <=> apc[<<fd, e>>] = "wait" /\ actx[<<fd, e>>] = g

\* As long as an fd is registered, the kernel watches exactly the events that the
\* context it points to waits for.
KernelAgrees ==
  ~aborted =>
    \A fd \in Fds : reg[fd].ctx # 0 =>
      reg[fd].events = events[fd][reg[fd].ctx] /\ reg[fd].events # {}

\* The three records of a wait agree (fiber, context, kernel), after every
\* registration, removal, report and failure of epoll_ctl.
RecordsAgree == TypeOK /\ WaitersHeld /\ KernelAgrees

\* Every event that a fiber waits for is found by way of m_fdContexts, where
\* cancelEvent, delEvent and close() look for it, as long as contextResize has not
\* made the vector smaller: addEvent tests the size, unlocks, and resizes to what
\* its own fd asks for, so a smaller fd that comes second takes the context of a
\* larger one out of it.
CancelReaches ==
  ~shrunk =>
    \A w \in Fds \X Event : apc[w] = "wait" => Known(w[1]) /\ actx[w] = made[w[1]]

-----------------------------------------------------------------------------
(***************************************************************************)
(* The invariant of FdEventsProofs                                         *)
(***************************************************************************)

\* Whatever the size of the vector, the contexts in it have been made.
VectorMade == \A fd \in Fds : Known(fd) => made[fd] >= 1

\* addEvent works with the context that m_fdContexts has for its fd, until the
\* vector becomes smaller: what it found under the read lock stays in its place.
FoundStays ==
  ~shrunk =>
    \A w \in Fds \X Event :
      apc[w] \in {"add", "wait"} => Known(w[1]) /\ actx[w] = made[w[1]]

IInv ==
  RecordsAgree /\ IsFiniteSet(Registered) /\ PendingExact /\ VectorMade /\ FoundStays
=============================================================================
