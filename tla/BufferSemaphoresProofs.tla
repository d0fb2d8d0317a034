----------------------- MODULE BufferSemaphoresProofs ------------------------
(***************************************************************************)
(* The safety properties of the lab 3 program for any number of threads of *)
(* any kinds and any thresholds that satisfy the assumptions.              *)
(*                                                                         *)
(* The invariant IInv adds three facts to the properties.  ActGuarded:     *)
(* the condition of a thread that has passed its check, or that was handed *)
(* the critical section, still holds when it comes to act.  RefusedUnlocks:*)
(* a thread on its way to wait still cannot run.  NobodyForgotten extends  *)
(* NoLostWakeup to the time between a thread's p() on mutex and the moment *)
(* it has decided to act or has given mutex back.                          *)
(***************************************************************************)
EXTENDS BufferSemaphores, QueueProofs

ActGuarded ==
  \A t \in Threads : pc[t] \in {"woken", "act"} => Can(KindOf[t], buffer)

RefusedUnlocks ==
  \A t \in Threads : pc[t] = "unlock" => ~ Can(KindOf[t], buffer)

NobodyForgotten ==
  (mutex = 1 \/ \E t \in Threads : pc[t] \in {"check", "unlock"}) =>
    \A kind \in Kinds : waiting[kind] > 0 /\ Can(kind, buffer) =>
      \E u \in Threads : KindOf[u] = kind /\ pc[u] \in {"enter", "check"}

IInv ==
  /\ TypeOK
  /\ OneBaton
  /\ WaitingExact
  /\ PostedForReadyWaiter
  /\ ActGuarded
  /\ RefusedUnlocks
  /\ NobodyForgotten
  /\ BufferBounded

\* The threads that wait on a private semaphore can be counted.
LEMMA WaitingThreadsFinite ==
  ASSUME NEW kind
  PROVE  IsFiniteSet(WaitingThreads(kind))
<1>1. WaitingThreads(kind) \in SUBSET Threads
  BY DEF WaitingThreads
<1> QED
  BY <1>1, ThreadsAssumption, FS_Subset

\* A positive counter means that there is a thread that waits.
LEMMA PositiveCountHasWaiter ==
  ASSUME WaitingExact, NEW kind \in Kinds, waiting[kind] > 0
  PROVE  \E t \in Threads : KindOf[t] = kind /\ pc[t] \in Waiting
<1>1. Cardinality(WaitingThreads(kind)) # 0
  BY DEF WaitingExact
<1>2. WaitingThreads(kind) # {}
  BY <1>1, FS_EmptySet
<1> QED
  BY <1>2 DEF WaitingThreads

\* The counters stay exact when no thread starts or stops waiting.
LEMMA SameWaiters ==
  ASSUME WaitingExact, waiting' = waiting,
         \A t \in Threads : pc'[t] \in Waiting <=> pc[t] \in Waiting
  PROVE  WaitingExact'
<1>1. \A kind \in Kinds : WaitingThreads(kind)' = WaitingThreads(kind)
  BY DEF WaitingThreads
<1> QED
  BY <1>1 DEF WaitingExact

\* The kind a thread hands over to: another kind that waits and may run.
LEMMA ChosenIsWakeable ==
  ASSUME TypeOK, NEW kind \in Kinds, Wakeable(kind) # {}
  PROVE  Chosen(kind) \in Wakeable(kind)
<1>1. \A k \in Kinds : Rank[k] \in 1..4
  BY DEF Rank, Kinds
<1>2. PICK low \in Wakeable(kind) :
        \A other \in Wakeable(kind) : Rank[low] <= Rank[other]
  BY <1>1 DEF Wakeable
<1> QED
  BY <1>2 DEF Chosen

\* The invariant holds when main has created the threads.
LEMMA InitEstablishesIInv == Init => IInv
<1> SUFFICES ASSUME Init PROVE IInv
  OBVIOUS
<1>1. /\ buffer \in InitialBuffers /\ mutex = 1
      /\ sem = [kind \in Kinds |-> 0] /\ waiting = [kind \in Kinds |-> 0]
      /\ pc \in [Threads -> {"absent", "enter"}]
  BY DEF Init
<1>2. TypeOK
  BY <1>1, InitialWithinBounds DEF TypeOK, PCs
<1>3. OneBaton
  BY <1>1 DEF OneBaton, InsideThreads, Inside
<1>4. WaitingExact
  <2>1. \A kind \in Kinds : WaitingThreads(kind) = {}
    BY <1>1 DEF WaitingThreads, Waiting
  <2> QED
    BY <1>1, <2>1, FS_EmptySet DEF WaitingExact
<1>5. PostedForReadyWaiter
  BY <1>1 DEF PostedForReadyWaiter
<1>6. ActGuarded /\ RefusedUnlocks
  BY <1>1 DEF ActGuarded, RefusedUnlocks
<1>7. NobodyForgotten
  BY <1>1 DEF NobodyForgotten
<1>8. BufferBounded
  BY <1>1, InitialWithinBounds DEF BufferBounded
<1> QED
  BY <1>2, <1>3, <1>4, <1>5, <1>6, <1>7, <1>8 DEF IInv

\* No step of a thread breaks the invariant: one case per action.
LEMMA StepPreservesIInv ==
  ASSUME IInv, NEW t \in Threads, Step(t)
  PROVE  IInv'
<1> USE ThreadsAssumption DEF IInv, GoTo
<1>1. CASE Enter(t)
  <2> USE <1>1 DEF Enter
  <2>1. TypeOK'
    BY DEF TypeOK, PCs, Inside
  <2>2. OneBaton'
    BY DEF OneBaton, InsideThreads, Inside, TypeOK
  <2>3. WaitingExact'
    BY SameWaiters DEF TypeOK, Waiting
  <2>4. PostedForReadyWaiter'
    BY DEF PostedForReadyWaiter, OneBaton, TypeOK
  <2>5. ActGuarded' /\ RefusedUnlocks'
    BY DEF ActGuarded, RefusedUnlocks, TypeOK
  <2>6. NobodyForgotten'
    BY DEF NobodyForgotten, TypeOK
  <2>7. BufferBounded'
    BY DEF BufferBounded
  <2> QED
    BY <2>1, <2>2, <2>3, <2>4, <2>5, <2>6, <2>7
<1>2. CASE CheckPasses(t)
  <2> USE <1>2 DEF CheckPasses
  <2>1. TypeOK'
    BY DEF TypeOK, PCs, Inside
  <2>2. OneBaton'
    BY DEF OneBaton, InsideThreads, Inside, TypeOK
  <2>3. WaitingExact'
    BY SameWaiters DEF TypeOK, Waiting
  <2>4. PostedForReadyWaiter'
    BY DEF PostedForReadyWaiter, TypeOK
  <2>5. ActGuarded' /\ RefusedUnlocks'
    BY DEF ActGuarded, RefusedUnlocks, TypeOK
  <2>6. NobodyForgotten'
    <3>1. mutex' # 1 /\ \A u \in Threads : pc'[u] \notin {"check", "unlock"}
      BY DEF OneBaton, InsideThreads, Inside, TypeOK
    <3> QED
      BY <3>1 DEF NobodyForgotten
  <2>7. BufferBounded'
    BY DEF BufferBounded
  <2> QED
    BY <2>1, <2>2, <2>3, <2>4, <2>5, <2>6, <2>7
<1>3. CASE CheckFails(t)
  <2> USE <1>3 DEF CheckFails
  <2>1. TypeOK'
    BY DEF TypeOK, PCs, Inside
  <2>2. OneBaton'
    BY DEF OneBaton, InsideThreads, Inside, TypeOK
  <2>3. WaitingExact'
    <3>1. WaitingThreads(KindOf[t])' = WaitingThreads(KindOf[t]) \cup {t}
      BY DEF WaitingThreads, Waiting, TypeOK
    <3>2. t \notin WaitingThreads(KindOf[t])
      BY DEF WaitingThreads, Waiting
    <3>3. Cardinality(WaitingThreads(KindOf[t])') = waiting[KindOf[t]] + 1
      <4>1. Cardinality(WaitingThreads(KindOf[t]) \cup {t})
              = Cardinality(WaitingThreads(KindOf[t])) + 1
        BY <3>2, WaitingThreadsFinite, FS_AddElement
      <4> QED
        BY <3>1, <4>1 DEF WaitingExact
    <3>4. \A kind \in Kinds : kind # KindOf[t] =>
            WaitingThreads(kind)' = WaitingThreads(kind)
      BY DEF WaitingThreads, TypeOK
    <3> QED
      BY <3>3, <3>4 DEF WaitingExact, TypeOK
  <2>4. PostedForReadyWaiter'
    BY DEF PostedForReadyWaiter, TypeOK
  <2>5. ActGuarded' /\ RefusedUnlocks'
    BY DEF ActGuarded, RefusedUnlocks, TypeOK
  <2>6. NobodyForgotten'
    BY DEF NobodyForgotten, TypeOK
  <2>7. BufferBounded'
    BY DEF BufferBounded
  <2> QED
    BY <2>1, <2>2, <2>3, <2>4, <2>5, <2>6, <2>7
<1>4. CASE Unlock(t)
  <2> USE <1>4 DEF Unlock
  <2>1. mutex = 0 /\ (\A kind \in Kinds : sem[kind] = 0)
        /\ \A u \in Threads : u # t => pc[u] \notin Inside
    BY DEF OneBaton, InsideThreads, Inside, TypeOK
  <2>2. TypeOK'
    BY <2>1 DEF TypeOK, PCs
  <2>3. OneBaton'
    BY <2>1 DEF OneBaton, InsideThreads, Inside, TypeOK
  <2>4. WaitingExact'
    BY SameWaiters DEF TypeOK, Waiting
  <2>5. PostedForReadyWaiter'
    BY <2>1 DEF PostedForReadyWaiter
  <2>6. ActGuarded' /\ RefusedUnlocks'
    BY DEF ActGuarded, RefusedUnlocks, TypeOK
  <2>7. NobodyForgotten'
    BY DEF NobodyForgotten, TypeOK
  <2>8. BufferBounded'
    BY DEF BufferBounded
  <2> QED
    BY <2>2, <2>3, <2>4, <2>5, <2>6, <2>7, <2>8
<1>5. CASE Wake(t)
  <2> USE <1>5 DEF Wake
  <2>1. KindOf[t] \in Kinds /\ sem[KindOf[t]] = 1
    BY DEF TypeOK
  <2>2. /\ mutex = 0 /\ InsideThreads = {} /\ Can(KindOf[t], buffer)
        /\ \A other \in Kinds : other # KindOf[t] => sem[other] = 0
    BY <2>1 DEF OneBaton, PostedForReadyWaiter, TypeOK
  <2>3. TypeOK'
    BY <2>1 DEF TypeOK, PCs, Inside
  <2>4. OneBaton'
    BY <2>1, <2>2 DEF OneBaton, InsideThreads, Inside, TypeOK
  <2>5. WaitingExact'
    BY SameWaiters DEF TypeOK, Waiting
  <2>6. PostedForReadyWaiter'
    BY <2>1, <2>2 DEF PostedForReadyWaiter, TypeOK
  <2>7. ActGuarded' /\ RefusedUnlocks'
    BY <2>2 DEF ActGuarded, RefusedUnlocks, TypeOK
  <2>8. NobodyForgotten'
    BY <2>2 DEF NobodyForgotten, InsideThreads, Inside, TypeOK
  <2>9. BufferBounded'
    BY DEF BufferBounded
  <2> QED
    BY <2>3, <2>4, <2>5, <2>6, <2>7, <2>8, <2>9
<1>6. CASE CountDown(t)
  <2> USE <1>6 DEF CountDown
  <2>1. /\ mutex = 0 /\ (\A kind \in Kinds : sem[kind] = 0)
        /\ \A u \in Threads : u # t => pc[u] \notin Inside
    BY DEF OneBaton, InsideThreads, Inside, TypeOK
  <2>2. /\ Cardinality(WaitingThreads(KindOf[t])') = waiting[KindOf[t]] - 1
        /\ waiting[KindOf[t]] > 0
    <3>1. WaitingThreads(KindOf[t])' = WaitingThreads(KindOf[t]) \ {t}
      BY DEF WaitingThreads, Waiting, TypeOK
    <3>2. t \in WaitingThreads(KindOf[t])
      BY DEF WaitingThreads, Waiting
    <3>3. waiting[KindOf[t]] = Cardinality(WaitingThreads(KindOf[t]))
      BY DEF WaitingExact
    <3>4. waiting[KindOf[t]] # 0
      BY <3>2, <3>3, WaitingThreadsFinite, FS_EmptySet
    <3>5. Cardinality(WaitingThreads(KindOf[t]) \ {t})
            = Cardinality(WaitingThreads(KindOf[t])) - 1
      <4>1. IsFiniteSet(WaitingThreads(KindOf[t]))
        BY WaitingThreadsFinite
      <4> HIDE DEF IInv, GoTo, CountDown
      <4> QED
        BY <3>2, <4>1, FS_RemoveElement
    <3>6. waiting[KindOf[t]] \in Nat
      BY DEF TypeOK
    <3>7. Cardinality(WaitingThreads(KindOf[t])') = waiting[KindOf[t]] - 1
      BY <3>1, <3>3, <3>5
    <3> QED
      BY <3>4, <3>6, <3>7
  <2>3. TypeOK'
    BY <2>2 DEF TypeOK, PCs, Inside
  <2>4. OneBaton'
    BY <2>1 DEF OneBaton, InsideThreads, Inside, TypeOK
  <2>5. WaitingExact'
    <3>1. \A kind \in Kinds : kind # KindOf[t] =>
            WaitingThreads(kind)' = WaitingThreads(kind)
      BY DEF WaitingThreads, TypeOK
    <3> QED
      BY <3>1, <2>2 DEF WaitingExact, TypeOK
  <2>6. PostedForReadyWaiter'
    BY <2>1 DEF PostedForReadyWaiter
  <2>7. ActGuarded' /\ RefusedUnlocks'
    BY DEF ActGuarded, RefusedUnlocks, TypeOK
  <2>8. NobodyForgotten'
    BY <2>1 DEF NobodyForgotten, Inside, TypeOK
  <2>9. BufferBounded'
    BY DEF BufferBounded
  <2> QED
    BY <2>3, <2>4, <2>5, <2>6, <2>7, <2>8, <2>9
<1>7. CASE Act(t)
  <2> USE <1>7 DEF Act
  <2>1. /\ mutex = 0 /\ (\A kind \in Kinds : sem[kind] = 0)
        /\ \A u \in Threads : u # t => pc[u] \notin Inside
    BY DEF OneBaton, InsideThreads, Inside, TypeOK
  <2>2. KindOf[t] \in Kinds /\ Can(KindOf[t], buffer) /\ buffer \in Seq(Parity)
    BY DEF ActGuarded, TypeOK
  <2>3. TypeOK'
    BY <2>2, OperateWithinBounds DEF TypeOK, PCs, Inside
  <2>4. OneBaton'
    BY <2>1 DEF OneBaton, InsideThreads, Inside, TypeOK
  <2>5. WaitingExact'
    BY SameWaiters DEF TypeOK, Waiting
  <2>6. PostedForReadyWaiter'
    BY <2>1 DEF PostedForReadyWaiter
  <2>7. ActGuarded' /\ RefusedUnlocks'
    BY <2>1 DEF ActGuarded, RefusedUnlocks, TypeOK, Inside
  <2>8. NobodyForgotten'
    BY <2>1 DEF NobodyForgotten, Inside, TypeOK
  <2>9. BufferBounded'
    BY <2>2, OperateWithinBounds DEF BufferBounded
  <2> QED
    BY <2>3, <2>4, <2>5, <2>6, <2>7, <2>8, <2>9
<1>8. CASE HandOver(t)
  <2> USE <1>8 DEF HandOver
  <2> DEFINE next == Chosen(KindOf[t])
  <2>1. /\ mutex = 0 /\ (\A kind \in Kinds : sem[kind] = 0)
        /\ \A u \in Threads : u # t => pc[u] \notin Inside
    BY DEF OneBaton, InsideThreads, Inside, TypeOK
  <2>2. /\ next \in Kinds /\ next # KindOf[t]
        /\ waiting[next] > 0 /\ Can(next, buffer)
    BY ChosenIsWakeable DEF Wakeable
  <2>3. PICK u \in Threads : KindOf[u] = next /\ pc[u] \in Waiting
    BY <2>2, PositiveCountHasWaiter
  <2>4. u # t /\ pc[u] = "blocked"
    BY <2>1, <2>2, <2>3 DEF Waiting, Inside
  <2> HIDE DEF next
  <2>5. sem' = [sem EXCEPT ![next] = @ + 1]
    BY DEF next
  <2>6. TypeOK'
    BY <2>1, <2>2, <2>5 DEF TypeOK, PCs
  <2>7. OneBaton'
    BY <2>1, <2>2, <2>5 DEF OneBaton, InsideThreads, Inside, TypeOK
  <2>8. WaitingExact'
    BY SameWaiters DEF TypeOK, Waiting
  <2>9. PostedForReadyWaiter'
    BY <2>1, <2>2, <2>3, <2>4, <2>5 DEF PostedForReadyWaiter, TypeOK
  <2>10. ActGuarded' /\ RefusedUnlocks'
    BY DEF ActGuarded, RefusedUnlocks, TypeOK
  <2>11. NobodyForgotten'
    BY <2>1 DEF NobodyForgotten, Inside, TypeOK
  <2>12. BufferBounded'
    BY DEF BufferBounded
  <2> QED
    BY <2>6, <2>7, <2>8, <2>9, <2>10, <2>11, <2>12
<1>9. CASE Release(t)
  <2> USE <1>9 DEF Release
  <2>1. /\ mutex = 0 /\ (\A kind \in Kinds : sem[kind] = 0)
        /\ \A u \in Threads : u # t => pc[u] \notin Inside
    BY DEF OneBaton, InsideThreads, Inside, TypeOK
  <2>2. TypeOK'
    BY <2>1 DEF TypeOK, PCs
  <2>3. OneBaton'
    BY <2>1 DEF OneBaton, InsideThreads, Inside, TypeOK
  <2>4. WaitingExact'
    BY SameWaiters DEF TypeOK, Waiting
  <2>5. PostedForReadyWaiter'
    BY <2>1 DEF PostedForReadyWaiter
  <2>6. ActGuarded' /\ RefusedUnlocks'
    BY DEF ActGuarded, RefusedUnlocks, TypeOK
  <2>7. NobodyForgotten'
    <3>1. \A kind \in Kinds : waiting[kind] > 0 /\ Can(kind, buffer) =>
            kind = KindOf[t]
      BY DEF Wakeable
    <3>2. pc'[t] = "enter"
      BY DEF TypeOK
    <3> QED
      BY <3>1, <3>2 DEF NobodyForgotten
  <2>8. BufferBounded'
    BY DEF BufferBounded
  <2> QED
    BY <2>2, <2>3, <2>4, <2>5, <2>6, <2>7, <2>8
<1> QED
  BY <1>1, <1>2, <1>3, <1>4, <1>5, <1>6, <1>7, <1>8, <1>9 DEF Step

\* The invariant only depends on the variables of the program.
LEMMA StutterPreservesIInv ==
  ASSUME IInv, UNCHANGED vars
  PROVE  IInv'
BY DEF vars, IInv, TypeOK, OneBaton, InsideThreads, WaitingExact,
       WaitingThreads, PostedForReadyWaiter, ActGuarded, RefusedUnlocks,
       NobodyForgotten, BufferBounded

\* The invariant holds in every reachable state.
THEOREM Invariance == Spec => []IInv
<1>1. Init => IInv
  BY InitEstablishesIInv
<1>2. IInv /\ [Next]_vars => IInv'
  BY StepPreservesIInv, StutterPreservesIInv DEF Next
<1> QED
  BY <1>1, <1>2, PTL DEF Spec

\* Type correctness: in particular the five semaphores are binary.
THEOREM TypeCorrect == Spec => []TypeOK
<1>1. IInv => TypeOK
  BY DEF IInv
<1> QED
  BY <1>1, Invariance, PTL

\* Mutual exclusion on the buffer, and the right to it is never lost.
THEOREM BatonUnique == Spec => []OneBaton
<1>1. IInv => OneBaton
  BY DEF IInv
<1> QED
  BY <1>1, Invariance, PTL

\* The counters of waiting threads are exact, so none wraps below 0.
THEOREM CountersExact == Spec => []WaitingExact
<1>1. IInv => WaitingExact
  BY DEF IInv
<1> QED
  BY <1>1, Invariance, PTL

\* The buffer stays bounded whatever the threads and the interleaving.
THEOREM Bounded == Spec => []BufferBounded
<1>1. IInv => BufferBounded
  BY DEF IInv
<1> QED
  BY <1>1, Invariance, PTL

\* The invariant rules a lost wakeup out.
LEMMA IInvImpliesNoLostWakeup == IInv => NoLostWakeup
<1> SUFFICES ASSUME IInv, mutex = 1,
                    NEW kind \in Kinds, waiting[kind] > 0, Can(kind, buffer)
             PROVE  \E t \in Threads : KindOf[t] = kind /\ pc[t] = "enter"
  BY DEF NoLostWakeup
<1>1. PICK t \in Threads : KindOf[t] = kind /\ pc[t] \in {"enter", "check"}
  BY DEF IInv, NobodyForgotten
<1>2. pc[t] # "check"
  BY DEF IInv, OneBaton, InsideThreads, Inside
<1> QED
  BY <1>1, <1>2

\* No wakeup is lost, except to a thread of the same kind about to enter.
THEOREM WakeupsNotLost == Spec => []NoLostWakeup
BY IInvImpliesNoLostWakeup, Invariance, PTL

\* If every thread is stuck, then mutex is free and every thread waits.
LEMMA AllStuckAllBlocked ==
  ASSUME IInv, \A t \in Started : Stuck(t)
  PROVE  mutex = 1 /\ \A t \in Started : pc[t] = "blocked"
<1>1. InsideThreads = {}
  BY DEF InsideThreads, Inside, Started, Stuck
<1>2. \A kind \in Kinds : sem[kind] # 1
  BY DEF IInv, PostedForReadyWaiter, Started, Stuck
<1>3. mutex = 1
  BY <1>1, <1>2 DEF IInv, OneBaton
<1> QED
  BY <1>3 DEF Stuck

\* If all threads are stuck, the invariant says why.
LEMMA IInvImpliesHaltsOnlyWhenDone == IInv => HaltsOnlyWhenDone
<1> SUFFICES ASSUME IInv, \A t \in Started : Stuck(t)
             PROVE  /\ \A t \in Started : ~ Can(KindOf[t], buffer)
                    /\ \E kind \in Kinds : \A t \in Started : KindOf[t] # kind
  BY DEF HaltsOnlyWhenDone
<1>1. mutex = 1 /\ \A t \in Started : pc[t] = "blocked"
  BY AllStuckAllBlocked
<1>2. \A t \in Started : ~ Can(KindOf[t], buffer)
  <2> SUFFICES ASSUME NEW t \in Started, Can(KindOf[t], buffer)
               PROVE  FALSE
    OBVIOUS
  <2>1. t \in Threads /\ KindOf[t] \in Kinds /\ t \in WaitingThreads(KindOf[t])
    BY <1>1, ThreadsAssumption DEF Started, WaitingThreads, Waiting
  <2>2. waiting[KindOf[t]] # 0
    BY <2>1, WaitingThreadsFinite, FS_EmptySet DEF IInv, WaitingExact
  <2>3. waiting[KindOf[t]] > 0
    BY <2>1, <2>2 DEF IInv, TypeOK
  <2>4. \E u \in Threads : pc[u] = "enter"
    BY <1>1, <2>1, <2>3, IInvImpliesNoLostWakeup DEF NoLostWakeup
  <2> QED
    BY <1>1, <2>4 DEF Started
<1>3. \E kind \in Kinds : Can(kind, buffer)
  BY SomeKindCan DEF IInv, TypeOK
<1> QED
  BY <1>2, <1>3

\* The program only stops when no thread could run, and never with threads
\* of every kind.
THEOREM HaltsWhenDone == Spec => []HaltsOnlyWhenDone
BY IInvImpliesHaltsOnlyWhenDone, Invariance, PTL

\* Only the action Act changes the buffer, and its condition holds then.
LEMMA StepRefinesParityBuffer ==
  ASSUME IInv, [Next]_vars
  PROVE  [Abstract!Next]_buffer
<1>1. ASSUME NEW t \in Threads, Act(t)
      PROVE  Abstract!Next
  <2>1. KindOf[t] \in Kinds /\ Can(KindOf[t], buffer)
    BY <1>1, ThreadsAssumption DEF IInv, ActGuarded, Act
  <2> QED
    BY <1>1, <2>1 DEF Act, Abstract!Next, Abstract!Do
<1>2. ASSUME NEW t \in Threads, Step(t), ~ Act(t)
      PROVE  UNCHANGED buffer
  BY <1>2 DEF Step, Enter, CheckPasses, CheckFails, Unlock, Wake, CountDown,
              HandOver, Release
<1> QED
  BY <1>1, <1>2 DEF Next, Step, vars

\* The program implements the atomic parity buffer.
THEOREM Refinement == Spec => RefinesParityBuffer
<1>1. Init => Abstract!Init
  BY DEF Init, Abstract!Init
<1>2. IInv /\ [Next]_vars => [Abstract!Next]_buffer
  BY StepRefinesParityBuffer
<1> QED
  BY <1>1, <1>2, Invariance, PTL DEF Spec, RefinesParityBuffer, Abstract!Spec

=============================================================================
