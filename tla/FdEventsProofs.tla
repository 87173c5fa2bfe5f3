--------------------------- MODULE FdEventsProofs ---------------------------
(***************************************************************************)
(* IInv is an inductive invariant of FdEvents, for any finite set of fds   *)
(* (from 2 on), any threads, any first size of m_fdContexts and any number *)
(* of contexts.  RecordsAgree, PendingExact and CancelReaches follow.      *)
(*                                                                         *)
(* All removals but delEvent go through triggerEvent, with some events     *)
(* that their context has (TriggerInv); the counter is decreased by as     *)
(* many, which is the cardinality of what leaves Registered (TakenAway).   *)
(***************************************************************************)
EXTENDS FdEvents, FiniteSetTheorems, TLAPS

\* EPOLLIN and EPOLLOUT are all events there are.
LEMMA EventsFinite ==
  ASSUME NEW S \in SUBSET Event
  PROVE  IsFiniteSet(S) /\ Cardinality(S) \in Nat
<1>1. IsFiniteSet({"READ"} \cup {"WRITE"})
  BY FS_Singleton, FS_AddElement
<1>2. Event = {"READ"} \cup {"WRITE"}
  BY DEF Event
<1> QED BY <1>1, <1>2, FS_Subset, FS_CardinalityType

\* As many events leave Registered as one context loses.
LEMMA TakenAway ==
  ASSUME TypeOK, IsFiniteSet(Registered),
         NEW fd \in Fds, NEW g \in Ctx, NEW S \in SUBSET events[fd][g],
         events' = [events EXCEPT ![fd][g] = @ \ S]
  PROVE  /\ IsFiniteSet(Registered')
         /\ Cardinality(Registered') = Cardinality(Registered) - Cardinality(S)
<1> DEFINE T == {<<fd, g, e>> : e \in S}
           f == [e \in S |-> <<fd, g, e>>]
<1>1. S \subseteq Event
  BY DEF TypeOK
<1>2. Cardinality(T) = Cardinality(S)
  <2>1. f \in Bijection(S, T)
    BY DEF Bijection, Injection, IsInjective, Surjection
  <2> QED BY <1>1, <2>1, EventsFinite, FS_Bijection DEF ExistsBijection
<1>3. Registered' = Registered \ T
  <2>1. ASSUME NEW x \in Fds \X Ctx \X Event
        PROVE  x \in Registered' <=> x \in Registered /\ x \notin T
    <3>1. PICK h \in Fds, k \in Ctx, e \in Event : x = <<h, k, e>>
      OBVIOUS
    <3>2. x \in Registered <=> e \in events[h][k]
      BY <3>1 DEF Registered
    <3>3. x \in Registered' <=> e \in events'[h][k]
      BY <3>1 DEF Registered
    <3>4. x \in T <=> h = fd /\ k = g /\ e \in S
      BY <3>1
    <3>5. events'[h][k] = IF h = fd /\ k = g THEN events[h][k] \ S ELSE events[h][k]
      BY DEF TypeOK
    <3> QED BY <3>2, <3>3, <3>4, <3>5
  <2> QED BY <2>1 DEF Registered
<1>4. Registered \cap T = T
  <2>1. ASSUME NEW e \in S PROVE <<fd, g, e>> \in Registered
    BY <1>1 DEF Registered
  <2> QED BY <2>1
<1> HIDE DEF T, f
<1> QED BY <1>2, <1>3, <1>4, FS_Difference

\* One event enters Registered with addEvent.
LEMMA PutIn ==
  ASSUME TypeOK, IsFiniteSet(Registered),
         NEW fd \in Fds, NEW g \in Ctx, NEW e \in Event, e \notin events[fd][g],
         events' = [events EXCEPT ![fd][g] = events[fd][g] \cup {e}]
  PROVE  /\ IsFiniteSet(Registered')
         /\ Cardinality(Registered') = Cardinality(Registered) + 1
<1>1. Registered' = Registered \cup {<<fd, g, e>>}
  <2>1. ASSUME NEW x \in Fds \X Ctx \X Event
        PROVE  x \in Registered' <=> x \in Registered \/ x = <<fd, g, e>>
    <3>1. PICK h \in Fds, k \in Ctx, d \in Event : x = <<h, k, d>>
      OBVIOUS
    <3>2. x \in Registered <=> d \in events[h][k]
      BY <3>1 DEF Registered
    <3>3. x \in Registered' <=> d \in events'[h][k]
      BY <3>1 DEF Registered
    <3>4. events'[h][k] = IF h = fd
          /\ k = g THEN events[h][k] \cup {e} ELSE events[h][k]
      BY DEF TypeOK
    <3> QED BY <3>1, <3>2, <3>3, <3>4
  <2> QED BY <2>1 DEF Registered
<1>2. <<fd, g, e>> \notin Registered
  BY DEF Registered
<1> QED BY <1>1, <1>2, FS_AddElement

\* m_pendingEventCount is a number of events, never below 0.
LEMMA PendingNat ==
  ASSUME IsFiniteSet(Registered), PendingExact
  PROVE  m_pendingEventCount \in Nat
BY FS_CardinalityType DEF PendingExact

\* triggerEvent for events S that context g of fd has, with the matching change of the
\* registration: the fibers of S are no longer held, and nothing else changes.
LEMMA TriggerInv ==
  ASSUME IInv, NEW fd \in Fds, NEW g \in Ctx, NEW S \in SUBSET events[fd][g],
         Trigger(fd, g, S),
         reg' = [reg EXCEPT ![fd] = Rest(g, events[fd][g] \ S)],
         UNCHANGED <<vectorVars, open, actx, aborted>>,
         closing' \subseteq open, batch' \in [Threads -> SUBSET Report]
  PROVE  IInv'
<1>1. events' = [events EXCEPT ![fd][g] = @ \ S]
  BY DEF Trigger
<1>2. IsFiniteSet(Registered') /\ PendingExact'
  <2>1. /\ IsFiniteSet(Registered')
        /\ Cardinality(Registered') = Cardinality(Registered) - Cardinality(S)
    BY <1>1, TakenAway DEF IInv, RecordsAgree
  <2> QED BY <2>1 DEF Trigger, IInv, PendingExact
<1>3. TypeOK'
  <2>1. m_pendingEventCount' \in Nat
    BY <1>2, PendingNat, FS_CardinalityType DEF PendingExact
  <2>2. events' \in [Fds -> [Ctx -> SUBSET Event]]
    BY <1>1 DEF IInv, RecordsAgree, TypeOK
  <2>3. reg' \in [Fds -> [ctx : 0..MaxMade, events : SUBSET Event]]
    BY SizesAssumption DEF IInv, RecordsAgree, TypeOK, Rest, NoReg, Ctx
  <2>4. apc' \in [Fds \X Event -> {"run", "grow", "add", "wait", "dropped"}]
    BY DEF IInv, RecordsAgree, TypeOK, Trigger
  <2> QED BY <2>1, <2>2, <2>3, <2>4 DEF IInv, RecordsAgree, TypeOK, vectorVars
<1>4. WaitersHeld'
  <2>1. SUFFICES ASSUME NEW h \in Fds, NEW e \in Event, NEW k \in Ctx
                 PROVE  e \in events'[h][k] <=>
                          apc'[<<h, e>>] = "wait" /\ actx'[<<h, e>>] = k
    BY DEF WaitersHeld
  <2>2. /\ e \in events[h][k] <=> apc[<<h, e>>] = "wait" /\ actx[<<h, e>>] = k
        /\ e \in events[h][g] <=> apc[<<h, e>>] = "wait" /\ actx[<<h, e>>] = g
    BY DEF IInv, RecordsAgree, WaitersHeld
  <2>3. apc'[<<h, e>>] = IF h = fd /\ e \in S THEN "run" ELSE apc[<<h, e>>]
    BY DEF Trigger, IInv, RecordsAgree, TypeOK
  <2>4. events'[h][k] = IF h = fd /\ k = g THEN events[h][k] \ S ELSE events[h][k]
    BY <1>1 DEF IInv, RecordsAgree, TypeOK
  <2> QED BY <2>2, <2>3, <2>4
<1>5. KernelAgrees'
  <2>1. SUFFICES ASSUME ~aborted, NEW h \in Fds, reg'[h].ctx # 0
                 PROVE  reg'[h].events = events'[h][reg'[h].ctx] /\ reg'[h].events # {}
    BY DEF KernelAgrees
  <2>2. CASE h = fd
    BY <1>1, <2>1, <2>2 DEF IInv, RecordsAgree, TypeOK, Rest, NoReg
  <2>3. CASE h # fd
    BY <1>1, <2>1, <2>3 DEF IInv, RecordsAgree, TypeOK, KernelAgrees
  <2> QED BY <2>2, <2>3
<1>6. VectorMade' /\ FoundStays'
  BY DEF IInv, RecordsAgree, TypeOK, VectorMade, FoundStays, Known, Trigger, vectorVars
<1> QED BY <1>2, <1>3, <1>4, <1>5, <1>6 DEF IInv, RecordsAgree

\* cancelEvent, cancelAll and delEvent take events that the context in m_fdContexts has.
LEMMA RemoveFacts ==
  ASSUME IInv, NEW fd \in Fds, NEW S, Remove(fd, S)
  PROVE  /\ made[fd] \in Ctx
         /\ S \in SUBSET events[fd][made[fd]]
         /\ reg' = [reg EXCEPT ![fd] = Rest(made[fd], events[fd][made[fd]] \ S)]
BY SizesAssumption DEF IInv, RecordsAgree, TypeOK, VectorMade, Remove, Ctx

\* cancelEvent
LEMMA CancelEventInv ==
  ASSUME IInv, NEW fd \in Fds, NEW e \in Event, CancelEvent(fd, e)
  PROVE  IInv'
<1>1. /\ Remove(fd, {e}) /\ Trigger(fd, made[fd], {e})
      /\ UNCHANGED <<vectorVars, open, closing, actx, batch, aborted>>
  BY DEF CancelEvent
<1>2. closing' \subseteq open /\ batch' \in [Threads -> SUBSET Report]
  BY <1>1 DEF IInv, RecordsAgree, TypeOK
<1> QED BY <1>1, <1>2, RemoveFacts, TriggerInv

\* cancelAll
LEMMA CancelAllInv ==
  ASSUME IInv, NEW fd \in Fds, CancelAll(fd)
  PROVE  IInv'
<1> DEFINE S == events[fd][made[fd]]
<1>1. /\ Remove(fd, S) /\ Trigger(fd, made[fd], S)
      /\ UNCHANGED <<vectorVars, open, closing, actx, batch, aborted>>
  BY DEF CancelAll
<1>2. closing' \subseteq open /\ batch' \in [Threads -> SUBSET Report]
  BY <1>1 DEF IInv, RecordsAgree, TypeOK
<1> HIDE DEF S
<1> QED BY <1>1, <1>2, RemoveFacts, TriggerInv

\* delEvent drops the fiber, which waits no longer although nobody wakes it.
LEMMA DelEventInv ==
  ASSUME IInv, NEW fd \in Fds, NEW e \in Event, DelEvent(fd, e)
  PROVE  IInv'
<1> DEFINE g == made[fd]
<1>1. /\ g \in Ctx /\ {e} \in SUBSET events[fd][g]
      /\ reg' = [reg EXCEPT ![fd] = Rest(g, events[fd][g] \ {e})]
  BY RemoveFacts DEF DelEvent
<1>2. /\ events' = [events EXCEPT ![fd][g] = @ \ {e}]
      /\ m_pendingEventCount' = m_pendingEventCount - 1
      /\ apc' = [apc EXCEPT ![<<fd, e>>] = "dropped"]
      /\ UNCHANGED <<size, made, shrunk, open, closing, actx, batch, aborted>>
  BY DEF DelEvent, vectorVars
<1> HIDE DEF g
<1>3. IsFiniteSet(Registered') /\ PendingExact'
  <2>1. /\ IsFiniteSet(Registered')
        /\ Cardinality(Registered') = Cardinality(Registered) - Cardinality({e})
    BY <1>1, <1>2, TakenAway DEF IInv, RecordsAgree
  <2>2. Cardinality({e}) = 1
    BY FS_Singleton
  <2> QED BY <1>2, <2>1, <2>2 DEF IInv, PendingExact
<1>4. TypeOK'
  <2>1. m_pendingEventCount' \in Nat
    BY <1>3, FS_CardinalityType DEF PendingExact
  <2>2. events' \in [Fds -> [Ctx -> SUBSET Event]]
    BY <1>1, <1>2 DEF IInv, RecordsAgree, TypeOK
  <2>3. reg' \in [Fds -> [ctx : 0..MaxMade, events : SUBSET Event]]
    <3>1. events[fd][g] \ {e} \in SUBSET Event
      BY <1>1 DEF IInv, RecordsAgree, TypeOK
    <3>2. Rest(g, events[fd][g] \ {e}) \in [ctx : 0..MaxMade, events : SUBSET Event]
      BY <1>1, <3>1, SizesAssumption DEF Rest, NoReg, Ctx
    <3> QED BY <1>1, <3>2 DEF IInv, RecordsAgree, TypeOK
  <2> QED BY <1>2, <2>1, <2>2, <2>3 DEF IInv, RecordsAgree, TypeOK
<1>5. WaitersHeld'
  <2>1. SUFFICES ASSUME NEW h \in Fds, NEW d \in Event, NEW k \in Ctx
                 PROVE  d \in events'[h][k] <=>
                          apc'[<<h, d>>] = "wait" /\ actx'[<<h, d>>] = k
    BY DEF WaitersHeld
  <2>2. /\ d \in events[h][k] <=> apc[<<h, d>>] = "wait" /\ actx[<<h, d>>] = k
        /\ d \in events[h][g] <=> apc[<<h, d>>] = "wait" /\ actx[<<h, d>>] = g
    BY <1>1 DEF IInv, RecordsAgree, WaitersHeld
  <2>3. apc'[<<h, d>>] = IF h = fd /\ d = e THEN "dropped" ELSE apc[<<h, d>>]
    BY <1>2 DEF IInv, RecordsAgree, TypeOK
  <2>4. events'[h][k] = IF h = fd /\ k = g THEN events[h][k] \ {e} ELSE events[h][k]
    BY <1>2 DEF IInv, RecordsAgree, TypeOK
  <2> QED BY <1>1, <1>2, <2>2, <2>3, <2>4
<1>6. KernelAgrees'
  <2>1. SUFFICES ASSUME ~aborted, NEW h \in Fds, reg'[h].ctx # 0
                 PROVE  reg'[h].events = events'[h][reg'[h].ctx] /\ reg'[h].events # {}
    BY <1>2 DEF KernelAgrees
  <2>2. CASE h = fd
    BY <1>1, <1>2, <2>1, <2>2 DEF IInv, RecordsAgree, TypeOK, Rest, NoReg
  <2>3. CASE h # fd
    BY <1>1, <1>2, <2>1, <2>3 DEF IInv, RecordsAgree, TypeOK, KernelAgrees
  <2> QED BY <2>2, <2>3
<1>7. VectorMade' /\ FoundStays'
  BY <1>2 DEF IInv, RecordsAgree, TypeOK, VectorMade, FoundStays, Known
<1> QED BY <1>3, <1>4, <1>5, <1>6, <1>7 DEF IInv, RecordsAgree

\* addEvent under the read lock: a fiber that does not wait finds its context.
LEMMA AddLookupInv ==
  ASSUME IInv, NEW fd \in Fds, NEW e \in Event, AddLookup(fd, e)
  PROVE  IInv'
<1>1. /\ apc[<<fd, e>>] = "run"
      /\ apc' = [apc EXCEPT ![<<fd, e>>] = IF Known(fd) THEN "add" ELSE "grow"]
      /\ actx' = [actx EXCEPT ![<<fd, e>>] = IF Known(fd) THEN made[fd] ELSE @]
      /\ UNCHANGED <<size, made, shrunk, events, m_pendingEventCount, reg, open,
                     closing, batch, aborted>>
  BY DEF AddLookup, ctxVars, vectorVars, kernelVars
<1>2. Known(fd) => made[fd] \in Ctx
  BY SizesAssumption DEF IInv, RecordsAgree, TypeOK, VectorMade, Ctx
<1>3. TypeOK'
  BY <1>1, <1>2 DEF IInv, RecordsAgree, TypeOK
<1>4. WaitersHeld'
  <2>1. ASSUME NEW h \in Fds, NEW d \in Event
        PROVE  IF h = fd /\ d = e THEN apc'[<<h, d>>] # "wait" /\ apc[<<h, d>>] # "wait"
               ELSE apc'[<<h, d>>] = apc[<<h, d>>] /\ actx'[<<h, d>>] = actx[<<h, d>>]
    BY <1>1 DEF IInv, RecordsAgree, TypeOK
  <2>2. ASSUME NEW h \in Fds, NEW d \in Event, NEW k \in Ctx
        PROVE  d \in events'[h][k] <=> apc'[<<h, d>>] = "wait" /\ actx'[<<h, d>>] = k
    <3>1. d \in events[h][k] <=> apc[<<h, d>>] = "wait" /\ actx[<<h, d>>] = k
      BY DEF IInv, RecordsAgree, WaitersHeld
    <3> QED BY <1>1, <2>1, <3>1
  <2> QED BY <2>2 DEF WaitersHeld
<1>5. KernelAgrees' /\ IsFiniteSet(Registered') /\ PendingExact' /\ VectorMade'
  BY <1>1 DEF IInv, RecordsAgree, KernelAgrees, Registered, PendingExact, VectorMade,
     Known
<1>6. FoundStays'
  <2>1. SUFFICES ASSUME ~shrunk, NEW w \in Fds \X Event, apc'[w] \in {"add", "wait"}
                 PROVE  Known(w[1]) /\ actx'[w] = made[w[1]]
    BY <1>1 DEF FoundStays, Known
  <2>2. CASE w = <<fd, e>>
    BY <1>1, <2>1, <2>2 DEF IInv, RecordsAgree, TypeOK
  <2>3. CASE w # <<fd, e>>
    BY <1>1, <2>1, <2>3 DEF IInv, RecordsAgree, TypeOK, FoundStays
  <2> QED BY <2>2, <2>3
<1> QED BY <1>3, <1>4, <1>5, <1>6 DEF IInv, RecordsAgree

\* addEvent under the write lock: contextResize makes a context for every place that
\* is new in the vector, and the one of fd is there.
LEMMA AddGrowInv ==
  ASSUME IInv, NEW fd \in Fds, NEW e \in Event, AddGrow(fd, e)
  PROVE  IInv'
<1> DEFINE n == ContextSize(fd)
<1>1. n \in Nat /\ fd < n /\ Fds \subseteq Nat
  BY FdsAssumption DEF ContextSize
<1>2. /\ apc[<<fd, e>>] = "grow"
      /\ made' = [f \in Fds |-> IF size <= f /\ f < n THEN made[f] + 1 ELSE made[f]]
      /\ \A f \in Fds : made'[f] <= MaxMade
      /\ size' = n
      /\ shrunk' = (shrunk \/ n < size)
      /\ apc' = [apc EXCEPT ![<<fd, e>>] = "add"]
      /\ actx' = [actx EXCEPT ![<<fd, e>>] = made'[fd]]
      /\ UNCHANGED <<events, m_pendingEventCount, reg, open, closing, batch, aborted>>
  BY DEF AddGrow, kernelVars
<1> HIDE DEF n
<1>3. /\ made' \in [Fds -> 0..MaxMade]
      /\ \A f \in Fds : f < n => made'[f] \in Ctx
  BY <1>1, <1>2, SizesAssumption DEF IInv, RecordsAgree, TypeOK, VectorMade, Known, Ctx
<1>4. TypeOK'
  <2>1. shrunk' \in BOOLEAN
    BY <1>2 DEF IInv, RecordsAgree, TypeOK
  <2>2. actx' \in [Fds \X Event -> Ctx]
    BY <1>1, <1>2, <1>3 DEF IInv, RecordsAgree, TypeOK
  <2> QED BY <1>1, <1>2, <1>3, <2>1, <2>2 DEF IInv, RecordsAgree, TypeOK
<1>5. WaitersHeld'
  <2>1. ASSUME NEW h \in Fds, NEW d \in Event
        PROVE  IF h = fd /\ d = e THEN apc'[<<h, d>>] # "wait" /\ apc[<<h, d>>] # "wait"
               ELSE apc'[<<h, d>>] = apc[<<h, d>>] /\ actx'[<<h, d>>] = actx[<<h, d>>]
    BY <1>2 DEF IInv, RecordsAgree, TypeOK
  <2>2. ASSUME NEW h \in Fds, NEW d \in Event, NEW k \in Ctx
        PROVE  d \in events'[h][k] <=> apc'[<<h, d>>] = "wait" /\ actx'[<<h, d>>] = k
    <3>1. d \in events[h][k] <=> apc[<<h, d>>] = "wait" /\ actx[<<h, d>>] = k
      BY DEF IInv, RecordsAgree, WaitersHeld
    <3> QED BY <1>2, <2>1, <3>1
  <2> QED BY <2>2 DEF WaitersHeld
<1>6. KernelAgrees' /\ IsFiniteSet(Registered') /\ PendingExact'
  BY <1>2 DEF IInv, RecordsAgree, KernelAgrees, Registered, PendingExact
<1>7. VectorMade'
  BY <1>2, <1>3 DEF VectorMade, Known, Ctx
<1>8. FoundStays'
  <2>1. SUFFICES ASSUME ~shrunk', NEW w \in Fds \X Event, apc'[w] \in {"add", "wait"}
                 PROVE  w[1] < n /\ actx'[w] = made'[w[1]]
    BY <1>2 DEF FoundStays, Known
  <2>2. CASE w = <<fd, e>>
    BY <1>1, <1>2, <2>2 DEF IInv, RecordsAgree, TypeOK
  <2>3. CASE w # <<fd, e>>
    <3>1. apc'[w] = apc[w] /\ actx'[w] = actx[w]
      BY <1>2, <2>3 DEF IInv, RecordsAgree, TypeOK
    <3>2. w[1] < size /\ actx[w] = made[w[1]] /\ ~(n < size)
      BY <1>2, <2>1, <3>1 DEF IInv, FoundStays, Known
    <3>3. w[1] \in Nat /\ w[1] \in Fds /\ size \in Nat
      BY <1>1 DEF IInv, RecordsAgree, TypeOK
    <3>4. made'[w[1]] = made[w[1]]
      BY <1>2, <3>2, <3>3
    <3> QED BY <1>1, <3>1, <3>2, <3>3, <3>4
  <2> QED BY <2>2, <2>3
<1> QED BY <1>4, <1>5, <1>6, <1>7, <1>8 DEF IInv, RecordsAgree

\* addEvent returns -1 and leaves nothing behind.
LEMMA AddFailsInv ==
  ASSUME IInv, NEW fd \in Fds, NEW e \in Event, AddFails(fd, e)
  PROVE  IInv'
<1>1. /\ apc[<<fd, e>>] = "add"
      /\ apc' = [apc EXCEPT ![<<fd, e>>] = "run"]
      /\ UNCHANGED <<size, made, shrunk, events, m_pendingEventCount, reg, open,
                     closing, actx, batch, aborted>>
  BY DEF AddFails, ctxVars, vectorVars, kernelVars
<1>2. TypeOK' /\ FoundStays'
  BY <1>1 DEF IInv, RecordsAgree, TypeOK, FoundStays, Known
<1>3. WaitersHeld'
  <2>1. ASSUME NEW h \in Fds, NEW d \in Event
        PROVE  apc'[<<h, d>>] = "wait" <=> apc[<<h, d>>] = "wait"
    BY <1>1 DEF IInv, RecordsAgree, TypeOK
  <2>2. ASSUME NEW h \in Fds, NEW d \in Event, NEW k \in Ctx
        PROVE  d \in events'[h][k] <=> apc'[<<h, d>>] = "wait" /\ actx'[<<h, d>>] = k
    <3>1. d \in events[h][k] <=> apc[<<h, d>>] = "wait" /\ actx[<<h, d>>] = k
      BY DEF IInv, RecordsAgree, WaitersHeld
    <3> QED BY <1>1, <2>1, <3>1
  <2> QED BY <2>2 DEF WaitersHeld
<1>4. KernelAgrees' /\ IsFiniteSet(Registered') /\ PendingExact' /\ VectorMade'
  BY <1>1 DEF IInv, RecordsAgree, KernelAgrees, Registered, PendingExact, VectorMade,
     Known
<1> QED BY <1>2, <1>3, <1>4 DEF IInv, RecordsAgree

\* addEvent: the event is new, since the fiber that is recorded for it did not wait.
LEMMA AddEventInv ==
  ASSUME IInv, NEW fd \in Fds, NEW e \in Event, AddEvent(fd, e)
  PROVE  IInv'
<1> DEFINE g == actx[<<fd, e>>]
<1>1. /\ apc[<<fd, e>>] = "add"
      /\ reg' = [reg EXCEPT ![fd] = [ctx |-> g, events |-> events[fd][g] \cup {e}]]
      /\ events' = [events EXCEPT ![fd][g] = events[fd][g] \cup {e}]
      /\ m_pendingEventCount' = m_pendingEventCount + 1
      /\ apc' = [apc EXCEPT ![<<fd, e>>] = "wait"]
      /\ UNCHANGED <<size, made, shrunk, open, closing, actx, batch, aborted>>
  BY DEF AddEvent, vectorVars
<1>2. g \in Ctx
  BY DEF IInv, RecordsAgree, TypeOK
<1>3. \A k \in Ctx : e \notin events[fd][k]
  BY <1>1 DEF IInv, RecordsAgree, WaitersHeld
<1>4. IsFiniteSet(Registered') /\ PendingExact'
  <2>1. /\ IsFiniteSet(Registered')
        /\ Cardinality(Registered') = Cardinality(Registered) + 1
    BY <1>1, <1>2, <1>3, PutIn DEF IInv, RecordsAgree
  <2> QED BY <1>1, <2>1 DEF IInv, PendingExact
<1>5. TypeOK'
  <2>1. m_pendingEventCount' \in Nat
    BY <1>4, FS_CardinalityType DEF PendingExact
  <2>2. events' \in [Fds -> [Ctx -> SUBSET Event]]
    BY <1>1, <1>2 DEF IInv, RecordsAgree, TypeOK
  <2>3. reg' \in [Fds -> [ctx : 0..MaxMade, events : SUBSET Event]]
    BY <1>1, <1>2, SizesAssumption DEF IInv, RecordsAgree, TypeOK, Ctx
  <2> QED BY <1>1, <2>1, <2>2, <2>3 DEF IInv, RecordsAgree, TypeOK
<1>6. WaitersHeld'
  <2>1. SUFFICES ASSUME NEW h \in Fds, NEW d \in Event, NEW k \in Ctx
                 PROVE  d \in events'[h][k] <=>
                          apc'[<<h, d>>] = "wait" /\ actx'[<<h, d>>] = k
    BY DEF WaitersHeld
  <2>2. d \in events[h][k] <=> apc[<<h, d>>] = "wait" /\ actx[<<h, d>>] = k
    BY DEF IInv, RecordsAgree, WaitersHeld
  <2>3. apc'[<<h, d>>] = IF h = fd /\ d = e THEN "wait" ELSE apc[<<h, d>>]
    BY <1>1 DEF IInv, RecordsAgree, TypeOK
  <2>4. events'[h][k] = IF h = fd /\ k = g THEN events[h][k] \cup {e} ELSE events[h][k]
    BY <1>1, <1>2 DEF IInv, RecordsAgree, TypeOK
  <2> QED BY <1>1, <1>3, <2>2, <2>3, <2>4
<1>7. KernelAgrees'
  <2>1. SUFFICES ASSUME ~aborted, NEW h \in Fds, reg'[h].ctx # 0
                 PROVE  reg'[h].events = events'[h][reg'[h].ctx] /\ reg'[h].events # {}
    BY <1>1 DEF KernelAgrees
  <2>2. CASE h = fd
    BY <1>1, <1>2, <2>1, <2>2 DEF IInv, RecordsAgree, TypeOK
  <2>3. CASE h # fd
    BY <1>1, <1>2, <2>1, <2>3 DEF IInv, RecordsAgree, TypeOK, KernelAgrees
  <2> QED BY <2>2, <2>3
<1>8. VectorMade' /\ FoundStays'
  BY <1>1 DEF IInv, RecordsAgree, TypeOK, VectorMade, FoundStays, Known
<1> QED BY <1>4, <1>5, <1>6, <1>7, <1>8 DEF IInv, RecordsAgree

\* epoll_wait hands out reports on what is registered.
LEMMA EpollWaitInv ==
  ASSUME IInv, NEW t \in Threads, EpollWait(t)
  PROVE  IInv'
<1>1. UNCHANGED <<size, made, shrunk, events, m_pendingEventCount, reg, open, closing,
                  apc, actx, aborted>>
  BY DEF EpollWait, ctxVars, vectorVars, kernelVars, fiberVars
<1>2. batch' \in [Threads -> SUBSET Report]
  <2>0. PICK fds \in SUBSET {fd \in Fds : reg[fd].ctx # 0} \ {{}} :
          \E what \in [fds -> SUBSET (Event \cup {"ERR"}) \ {{}}] :
            batch' = [batch EXCEPT ![t] =
              {[fd |-> fd, ctx |-> reg[fd].ctx, events |-> what[fd]] : fd \in fds}]
    BY DEF EpollWait
  <2>1. PICK what \in [fds -> SUBSET (Event \cup {"ERR"}) \ {{}}] :
          batch' = [batch EXCEPT ![t] =
            {[fd |-> fd, ctx |-> reg[fd].ctx, events |-> what[fd]] : fd \in fds}]
    BY <2>0
  <2>2. \A fd \in fds : [fd |-> fd, ctx |-> reg[fd].ctx, events |-> what[fd]] \in Report
    BY SizesAssumption DEF IInv, RecordsAgree, TypeOK, Report, Ctx
  <2> QED BY <2>1, <2>2 DEF IInv, RecordsAgree, TypeOK
<1> QED BY <1>1, <1>2 DEF IInv, RecordsAgree, TypeOK, WaitersHeld, KernelAgrees,
   Registered, PendingExact, VectorMade, FoundStays, Known

\* A report that is skipped changes nothing.
LEMMA SkipReportInv ==
  ASSUME IInv, NEW t \in Threads, NEW r \in batch[t], SkipReport(t, r)
  PROVE  IInv'
<1>1. UNCHANGED <<size, made, shrunk, events, m_pendingEventCount, reg, open, closing,
                  apc, actx, aborted>>
  BY DEF SkipReport, ctxVars, vectorVars, kernelVars, fiberVars
<1>2. batch' \in [Threads -> SUBSET Report]
  BY DEF SkipReport, IInv, RecordsAgree, TypeOK
<1> QED BY <1>1, <1>2 DEF IInv, RecordsAgree, TypeOK, WaitersHeld, KernelAgrees,
   Registered, PendingExact, VectorMade, FoundStays, Known

\* A report that is acted on, for the context it was registered with: its events are
\* triggered, or the ASSERT of triggerEvent fails.
LEMMA HandleReportInv ==
  ASSUME IInv, NEW t \in Threads, NEW r \in batch[t], HandleReport(t, r)
  PROVE  IInv'
<1> DEFINE has == events[r.fd][r.ctx]
           real == RealEvents(r)
<1>1. r \in Report /\ r.fd \in Fds /\ r.ctx \in Ctx
  BY DEF IInv, RecordsAgree, TypeOK, Report
<1>2. batch' \in [Threads -> SUBSET Report] /\ closing' \subseteq open
  BY DEF HandleReport, IInv, RecordsAgree, TypeOK
<1>3. reg' = [reg EXCEPT ![r.fd] = Rest(r.ctx, has \ real)]
  BY DEF HandleReport
<1>4. CASE real \subseteq has
  <2>1. Trigger(r.fd, r.ctx, real) /\ UNCHANGED <<vectorVars, open, actx, aborted>>
    BY <1>4 DEF HandleReport
  <2> HIDE DEF real
  <2> QED BY <1>1, <1>2, <1>3, <1>4, <2>1, TriggerInv
<1>5. CASE ~(real \subseteq has)
  <2>1. /\ aborted' = TRUE
        /\ UNCHANGED <<size, made, shrunk, events, m_pendingEventCount, open, closing,
                       apc, actx>>
    BY <1>5 DEF HandleReport, vectorVars
  <2>2. reg' \in [Fds -> [ctx : 0..MaxMade, events : SUBSET Event]]
    BY <1>1, <1>3, SizesAssumption DEF IInv, RecordsAgree, TypeOK, Rest, NoReg, Ctx
  <2>3. TypeOK'
    BY <1>2, <2>1, <2>2 DEF IInv, RecordsAgree, TypeOK
  <2> QED BY <2>1, <2>3 DEF IInv, RecordsAgree, WaitersHeld, KernelAgrees, Registered,
     PendingExact, VectorMade, FoundStays, Known
<1> QED BY <1>4, <1>5

\* close() begins with cancelAll, on a context that has events.
LEMMA CloseBeginInv ==
  ASSUME IInv, NEW fd \in Fds, CloseBegin(fd)
  PROVE  IInv'
<1> DEFINE S == events[fd][made[fd]]
<1>1. /\ closing' \subseteq open
      /\ UNCHANGED <<vectorVars, open, actx, batch, aborted>>
  BY DEF CloseBegin, IInv, RecordsAgree, TypeOK
<1>2. batch' \in [Threads -> SUBSET Report]
  BY <1>1 DEF IInv, RecordsAgree, TypeOK
<1>3. CASE Remove(fd, S) /\ Trigger(fd, made[fd], S)
  <2> HIDE DEF S
  <2> QED BY <1>1, <1>2, <1>3, RemoveFacts, TriggerInv
<1>4. CASE UNCHANGED <<reg, events, m_pendingEventCount, apc>>
  BY <1>1, <1>4 DEF IInv, RecordsAgree, TypeOK, WaitersHeld, KernelAgrees, Registered,
     PendingExact, VectorMade, FoundStays, Known, vectorVars
<1> QED BY <1>3, <1>4 DEF CloseBegin

\* close() ends with the system call: the kernel forgets the fd.
LEMMA CloseEndInv ==
  ASSUME IInv, NEW fd \in Fds, CloseEnd(fd)
  PROVE  IInv'
<1>1. /\ closing' = closing \ {fd} /\ open' = open \ {fd}
      /\ reg' = [reg EXCEPT ![fd] = NoReg]
      /\ UNCHANGED <<size, made, shrunk, events, m_pendingEventCount, apc, actx, batch,
                     aborted>>
  BY DEF CloseEnd, ctxVars, vectorVars, fiberVars
<1>2. TypeOK'
  BY <1>1, SizesAssumption DEF IInv, RecordsAgree, TypeOK, NoReg
<1>3. KernelAgrees'
  BY <1>1 DEF IInv, RecordsAgree, TypeOK, KernelAgrees, NoReg
<1> QED BY <1>1, <1>2, <1>3 DEF IInv, RecordsAgree, WaitersHeld, Registered,
   PendingExact, VectorMade, FoundStays, Known

\* The kernel gives the number of an fd out again.
LEMMA OpenInv ==
  ASSUME IInv, NEW fd \in Fds, Open(fd)
  PROVE  IInv'
<1>1. /\ open' = open \cup {fd}
      /\ UNCHANGED <<size, made, shrunk, events, m_pendingEventCount, reg, closing, apc,
                     actx, batch, aborted>>
  BY DEF Open, ctxVars, vectorVars, fiberVars
<1> QED BY <1>1 DEF IInv, RecordsAgree, TypeOK, WaitersHeld, KernelAgrees, Registered,
   PendingExact, VectorMade, FoundStays, Known

\* No event is registered at the start.
LEMMA InitInv == Init => IInv
<1> SUFFICES ASSUME Init PROVE IInv
  OBVIOUS
<1>1. Registered = {}
  BY DEF Init, Registered
<1>2. IsFiniteSet(Registered) /\ PendingExact
  BY <1>1, FS_EmptySet DEF Init, PendingExact
<1>3. TypeOK
  <2>1. size \in Nat /\ m_pendingEventCount \in Nat /\ made \in [Fds -> 0..MaxMade]
    BY SizesAssumption DEF Init
  <2>2. /\ reg \in [Fds -> [ctx : 0..MaxMade, events : SUBSET Event]]
        /\ actx \in [Fds \X Event -> Ctx]
    BY SizesAssumption DEF Init, NoReg, Ctx
  <2>3. /\ shrunk \in BOOLEAN /\ aborted \in BOOLEAN
        /\ events \in [Fds -> [Ctx -> SUBSET Event]] /\ open \subseteq Fds
        /\ closing \subseteq open /\ batch \in [Threads -> SUBSET Report]
    BY DEF Init
  <2>4. apc \in [Fds \X Event -> {"run", "grow", "add", "wait", "dropped"}]
    BY DEF Init
  <2> QED BY <2>1, <2>2, <2>3, <2>4 DEF TypeOK
<1>4. WaitersHeld /\ KernelAgrees /\ VectorMade /\ FoundStays
  BY DEF Init, WaitersHeld, KernelAgrees, NoReg, VectorMade, FoundStays, Known
<1> QED BY <1>2, <1>3, <1>4 DEF IInv, RecordsAgree

\* Every step of a fiber, of a thread in idle() and of close() keeps IInv.
LEMMA NextInv == IInv /\ [Next]_vars => IInv'
<1> SUFFICES ASSUME IInv, [Next]_vars PROVE IInv'
  OBVIOUS
<1>1. CASE UNCHANGED vars
  BY <1>1 DEF IInv, RecordsAgree, TypeOK, WaitersHeld, KernelAgrees, Registered,
     PendingExact, VectorMade, FoundStays, Known, vars, ctxVars, vectorVars, kernelVars,
     fiberVars
<1>2. ASSUME NEW fd \in Fds, NEW e \in Event, FiberStep(fd, e) PROVE IInv'
  BY <1>2, AddLookupInv, AddGrowInv, AddFailsInv, AddEventInv DEF FiberStep
<1>3. ASSUME NEW fd \in Fds, OtherStep(fd) PROVE IInv'
  BY <1>3, CancelEventInv, DelEventInv, CancelAllInv, CloseBeginInv, CloseEndInv,
     OpenInv DEF OtherStep
<1>4. ASSUME NEW t \in Threads, IdleStep(t) PROVE IInv'
  BY <1>4, EpollWaitInv, SkipReportInv, HandleReportInv DEF IdleStep
<1> QED BY <1>1, <1>2, <1>3, <1>4 DEF Next

\* IInv holds in every reachable state of the fd contexts.
THEOREM ContextsAccounted == Spec => []IInv
BY InitInv, NextInv, PTL DEF Spec

\* The three records of a wait agree (fiber, context, kernel), after every
\* registration, removal, report and failure of epoll_ctl.
THEOREM WaitsAgree == Spec => []RecordsAgree
<1>1. IInv => RecordsAgree
  BY DEF IInv
<1> QED BY <1>1, ContextsAccounted, PTL

\* m_pendingEventCount is the number of events that are registered, whichever function
\* removes them and however stale the report it acts on.
THEOREM PendingCounted == Spec => []PendingExact
<1>1. IInv => PendingExact
  BY DEF IInv
<1> QED BY <1>1, ContextsAccounted, PTL

\* cancelEvent, delEvent and close() find every event that a fiber waits for, as long as
\* contextResize has not made the vector smaller.
THEOREM WaitsReached == Spec => []CancelReaches
<1>1. IInv => CancelReaches
  BY DEF IInv, FoundStays, CancelReaches
<1> QED BY <1>1, ContextsAccounted, PTL
=============================================================================
