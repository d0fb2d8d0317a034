------------------------- MODULE BufferMonitorProofs -------------------------
(***************************************************************************)
(* The safety properties of the lab 4 monitor for any number of threads of *)
(* any kinds and any thresholds that satisfy the assumptions.              *)
(*                                                                         *)
(* SignalledReady: a signal under way is for a waiting thread that may run.*)
(* ActGuarded: the condition of a thread that passed its check or was      *)
(* woken still holds when it acts.  RefusedResigns: a thread on its way to *)
(* wait cannot run.  NobodyForgotten extends NoLostSignal to the times at  *)
(* which a thread inside the monitor is about to test its condition, to    *)
(* wait or to leave.                                                       *)
(***************************************************************************)
EXTENDS BufferMonitor, QueueProofs

SignalledReady ==
  \A kind \in Kinds : w[kind] = 1 =>
    /\ MayRun(kind, buffer)
    /\ \E t \in Threads : KindOf[t] = kind /\ pc[t] = "blocked"

ActGuarded ==
  \A t \in Threads : pc[t] = "act" => MayRun(KindOf[t], buffer)

RefusedResigns ==
  \A t \in Threads : pc[t] = "resign" => ~ MayRun(KindOf[t], buffer)

NobodyForgotten ==
  (s = 1 \/ \E t \in Threads : pc[t] \in {"check", "resign", "leave"}) =>
    \A kind \in Kinds : waitingCount[kind] > 0 /\ MayRun(kind, buffer) =>
      \E u \in Threads :
        KindOf[u] = kind /\ pc[u] \in {"enter", "check", "reenter", "leave"}

IInv ==
  /\ TypeOK
  /\ OneOwner
  /\ WaitersAccounted
  /\ SignalledReady
  /\ ActGuarded
  /\ RefusedResigns
  /\ NobodyForgotten

\* The conditions of lab 4 are those of lab 3.
LEMMA SameConditions ==
  ASSUME NEW kind, NEW b
  PROVE  MayRun(kind, b) <=> Can(kind, b)
BY DEF MayRun, Can, canProdEven, canProdOdd, canConsEven, canConsOdd, OddCount

\* The threads that wait for a condition can be counted.
LEMMA WaitingThreadsFinite ==
  ASSUME NEW kind
  PROVE  IsFiniteSet(WaitingThreads(kind))
<1>1. WaitingThreads(kind) \in SUBSET Threads
  BY DEF WaitingThreads
<1> QED
  BY <1>1, ThreadsAssumption, FS_Subset

\* A counted waiter exists when no signal to its kind is under way.
LEMMA CountedWaiterExists ==
  ASSUME TypeOK, WaitersAccounted,
         NEW kind \in Kinds, waitingCount[kind] > 0
  PROVE  \E t \in Threads : KindOf[t] = kind /\ pc[t] \in {"resign", "blocked"}
<1>1. waitingCount[kind] \in Nat /\ w[kind] \in {0, 1}
  BY DEF TypeOK
<1>2. Cardinality(WaitingThreads(kind)) # 0
  BY <1>1 DEF WaitersAccounted
<1>3. WaitingThreads(kind) # {}
  BY <1>2, FS_EmptySet
<1> QED
  BY <1>3 DEF WaitingThreads

\* The accounts balance as long as no thread starts or stops waiting.
LEMMA SameWaiters ==
  ASSUME WaitersAccounted, waitingCount' = waitingCount, w' = w,
         \A t \in Threads :
           pc'[t] \in {"resign", "blocked"} <=> pc[t] \in {"resign", "blocked"}
  PROVE  WaitersAccounted'
<1>1. \A kind \in Kinds : WaitingThreads(kind)' = WaitingThreads(kind)
  BY DEF WaitingThreads
<1> QED
  BY <1>1 DEF WaitersAccounted

\* The condition the cascade signals: another kind that waits and may run.
LEMMA ChosenIsWakeable ==
  ASSUME TypeOK, NEW kind \in Kinds, Wakeable(kind) # {}
  PROVE  Chosen(kind) \in Wakeable(kind)
<1>1. \A k \in Kinds : Rank[k] \in 1..4
  BY DEF Rank, Kinds
<1>2. PICK low \in Wakeable(kind) :
        \A other \in Wakeable(kind) : Rank[low] <= Rank[other]
  BY <1>1 DEF Wakeable
<1> QED
  BY <1>2 DEF Chosen

\* The invariant holds when main has created the threads.
LEMMA InitEstablishesIInv == Init => IInv
<1> SUFFICES ASSUME Init PROVE IInv
  OBVIOUS
<1>1. /\ buffer \in InitialBuffers /\ s = 1
      /\ w = [kind \in Kinds |-> 0] /\ waitingCount = [kind \in Kinds |-> 0]
      /\ pc \in [Threads -> {"absent", "enter"}]
  BY DEF Init
<1>2. TypeOK
  BY <1>1, InitialWithinBounds DEF TypeOK, PCs
<1>3. OneOwner
  BY <1>1 DEF OneOwner, InsideThreads, Inside
<1>4. WaitersAccounted
  <2>1. \A kind \in Kinds : WaitingThreads(kind) = {}
    BY <1>1 DEF WaitingThreads
  <2> QED
    BY <1>1, <2>1, FS_EmptySet DEF WaitersAccounted
<1>5. SignalledReady
  BY <1>1 DEF SignalledReady
<1>6. ActGuarded /\ RefusedResigns
  BY <1>1 DEF ActGuarded, RefusedResigns
<1>7. NobodyForgotten
  BY <1>1 DEF NobodyForgotten
<1> QED
  BY <1>2, <1>3, <1>4, <1>5, <1>6, <1>7 DEF IInv

\* What the owner of the monitor knows: it is the only one.
LEMMA OwnerAlone ==
  ASSUME TypeOK, OneOwner, NEW t \in Threads, pc[t] \in Inside
  PROVE  /\ s = 0
         /\ \A kind \in Kinds : w[kind] = 0
         /\ \A u \in Threads : u # t => pc[u] \notin Inside
BY DEF OneOwner, InsideThreads, TypeOK

\* No step of a thread breaks the invariant: one case per action.
LEMMA StepPreservesIInv ==
  ASSUME IInv, NEW t \in Threads, Step(t)
  PROVE  IInv'
<1> USE ThreadsAssumption DEF IInv, GoTo
<1>1. CASE Enter(t)
  <2> USE <1>1 DEF Enter
  <2>1. TypeOK'
    BY DEF TypeOK, PCs, Inside
  <2>2. OneOwner'
    BY DEF OneOwner, InsideThreads, Inside, TypeOK
  <2>3. WaitersAccounted'
    BY SameWaiters DEF TypeOK
  <2>4. SignalledReady'
    BY DEF SignalledReady, OneOwner, TypeOK
  <2>5. ActGuarded' /\ RefusedResigns'
    BY DEF ActGuarded, RefusedResigns, TypeOK
  <2>6. NobodyForgotten'
    BY DEF NobodyForgotten, TypeOK
  <2> QED
    BY <2>1, <2>2, <2>3, <2>4, <2>5, <2>6
<1>2. CASE CheckPasses(t)
  <2> USE <1>2 DEF CheckPasses
  <2>1. s = 0 /\ \A u \in Threads : u # t => pc[u] \notin Inside
    BY OwnerAlone DEF Inside
  <2>2. TypeOK'
    BY DEF TypeOK, PCs, Inside
  <2>3. OneOwner'
    BY DEF OneOwner, InsideThreads, Inside, TypeOK
  <2>4. WaitersAccounted'
    BY SameWaiters DEF TypeOK
  <2>5. SignalledReady'
    BY DEF SignalledReady, TypeOK
  <2>6. ActGuarded' /\ RefusedResigns'
    BY DEF ActGuarded, RefusedResigns, TypeOK
  <2>7. NobodyForgotten'
    BY <2>1 DEF NobodyForgotten, Inside, TypeOK
  <2> QED
    BY <2>2, <2>3, <2>4, <2>5, <2>6, <2>7
<1>3. CASE CheckFails(t)
  <2> USE <1>3 DEF CheckFails
  <2>1. TypeOK'
    BY DEF TypeOK, PCs, Inside
  <2>2. OneOwner'
    BY DEF OneOwner, InsideThreads, Inside, TypeOK
  <2>3. WaitersAccounted'
    <3> DEFINE own == WaitingThreads(KindOf[t])
    <3>1. own' = own \cup {t}
      BY DEF WaitingThreads, TypeOK
    <3>2. t \notin own
      BY DEF WaitingThreads
    <3>3. Cardinality(own \cup {t}) = Cardinality(own) + 1
      <4>1. IsFiniteSet(own)
        BY WaitingThreadsFinite
      <4> HIDE DEF own, IInv, GoTo, CheckFails
      <4> QED
        BY <3>2, <4>1, FS_AddElement
    <3>4. \A kind \in Kinds : kind # KindOf[t] =>
            WaitingThreads(kind)' = WaitingThreads(kind)
      BY DEF WaitingThreads, TypeOK
    <3>5. waitingCount[KindOf[t]] \in Nat /\ w[KindOf[t]] \in {0, 1}
      BY DEF TypeOK
    <3>6. waitingCount[KindOf[t]] + w[KindOf[t]] = Cardinality(own)
      BY DEF WaitersAccounted
    <3>7. /\ waitingCount'[KindOf[t]] = waitingCount[KindOf[t]] + 1
          /\ \A kind \in Kinds : kind # KindOf[t] =>
               waitingCount'[kind] = waitingCount[kind]
      BY DEF TypeOK
    <3> HIDE DEF own
    <3>8. waitingCount'[KindOf[t]] + w'[KindOf[t]] = Cardinality(own')
      BY <3>1, <3>3, <3>5, <3>6, <3>7
    <3> QED
      BY <3>4, <3>7, <3>8 DEF WaitersAccounted, own
  <2>4. SignalledReady'
    BY DEF SignalledReady, TypeOK
  <2>5. ActGuarded' /\ RefusedResigns'
    BY DEF ActGuarded, RefusedResigns, TypeOK
  <2>6. NobodyForgotten'
    BY DEF NobodyForgotten, TypeOK
  <2> QED
    BY <2>1, <2>2, <2>3, <2>4, <2>5, <2>6
<1>4. CASE Resign(t)
  <2> USE <1>4 DEF Resign
  <2>1. /\ s = 0 /\ (\A kind \in Kinds : w[kind] = 0)
        /\ \A u \in Threads : u # t => pc[u] \notin Inside
    BY OwnerAlone DEF Inside
  <2>2. TypeOK'
    BY <2>1 DEF TypeOK, PCs
  <2>3. OneOwner'
    BY <2>1 DEF OneOwner, InsideThreads, Inside, TypeOK
  <2>4. WaitersAccounted'
    BY SameWaiters DEF TypeOK
  <2>5. SignalledReady'
    BY <2>1 DEF SignalledReady
  <2>6. ActGuarded' /\ RefusedResigns'
    BY DEF ActGuarded, RefusedResigns, TypeOK
  <2>7. NobodyForgotten'
    BY DEF NobodyForgotten, TypeOK
  <2> QED
    BY <2>2, <2>3, <2>4, <2>5, <2>6, <2>7
<1>5. CASE Wake(t)
  <2> USE <1>5 DEF Wake
  <2>1. KindOf[t] \in Kinds /\ w[KindOf[t]] = 1
    BY DEF TypeOK
  <2>2. /\ s = 0 /\ InsideThreads = {} /\ MayRun(KindOf[t], buffer)
        /\ \A other \in Kinds : other # KindOf[t] => w[other] = 0
    BY <2>1 DEF OneOwner, SignalledReady, TypeOK
  <2>3. TypeOK'
    BY <2>1 DEF TypeOK, PCs, Inside
  <2>4. OneOwner'
    BY <2>1, <2>2 DEF OneOwner, InsideThreads, Inside, TypeOK
  <2>5. WaitersAccounted'
    <3> DEFINE own == WaitingThreads(KindOf[t])
    <3>1. own' = own \ {t}
      BY DEF WaitingThreads, TypeOK
    <3>2. t \in own
      BY DEF WaitingThreads
    <3>3. Cardinality(own \ {t}) = Cardinality(own) - 1
      <4>1. IsFiniteSet(own)
        BY WaitingThreadsFinite
      <4> HIDE DEF own, IInv, GoTo, Wake
      <4> QED
        BY <3>2, <4>1, FS_RemoveElement
    <3>4. \A kind \in Kinds : kind # KindOf[t] =>
            WaitingThreads(kind)' = WaitingThreads(kind)
      BY DEF WaitingThreads, TypeOK
    <3>5. waitingCount[KindOf[t]] \in Nat
      BY DEF TypeOK
    <3>6. waitingCount[KindOf[t]] + w[KindOf[t]] = Cardinality(own)
      BY DEF WaitersAccounted
    <3>7. /\ w'[KindOf[t]] = w[KindOf[t]] - 1
          /\ \A kind \in Kinds : kind # KindOf[t] => w'[kind] = w[kind]
      BY DEF TypeOK
    <3> HIDE DEF own
    <3>8. waitingCount'[KindOf[t]] + w'[KindOf[t]] = Cardinality(own')
      BY <2>1, <3>1, <3>3, <3>5, <3>6, <3>7
    <3> QED
      BY <3>4, <3>7, <3>8 DEF WaitersAccounted, own
  <2>6. SignalledReady'
    BY <2>1, <2>2 DEF SignalledReady, TypeOK
  <2>7. ActGuarded' /\ RefusedResigns'
    BY <2>2 DEF ActGuarded, RefusedResigns, TypeOK
  <2>8. NobodyForgotten'
    BY <2>2 DEF NobodyForgotten, InsideThreads, Inside, TypeOK
  <2> QED
    BY <2>3, <2>4, <2>5, <2>6, <2>7, <2>8
<1>6. CASE Act(t)
  <2> USE <1>6 DEF Act
  <2>1. /\ s = 0 /\ (\A kind \in Kinds : w[kind] = 0)
        /\ \A u \in Threads : u # t => pc[u] \notin Inside
    BY OwnerAlone DEF Inside
  <2>2. /\ KindOf[t] \in Kinds /\ Can(KindOf[t], buffer)
        /\ buffer \in Seq(Parity)
    BY SameConditions DEF ActGuarded, TypeOK
  <2>3. TypeOK'
    BY <2>2, OperateWithinBounds DEF TypeOK, PCs, Inside
  <2>4. OneOwner'
    BY <2>1 DEF OneOwner, InsideThreads, Inside, TypeOK
  <2>5. WaitersAccounted'
    BY SameWaiters DEF TypeOK
  <2>6. SignalledReady'
    BY <2>1 DEF SignalledReady
  <2>7. ActGuarded' /\ RefusedResigns'
    BY <2>1 DEF ActGuarded, RefusedResigns, TypeOK, Inside
  <2>8. NobodyForgotten'
    BY <2>1 DEF NobodyForgotten, Inside, TypeOK
  <2> QED
    BY <2>3, <2>4, <2>5, <2>6, <2>7, <2>8
<1>7. CASE Signal(t)
  <2> USE <1>7 DEF Signal
  <2> DEFINE next == Chosen(KindOf[t])
  <2>1. /\ s = 0 /\ (\A kind \in Kinds : w[kind] = 0)
        /\ \A u \in Threads : u # t => pc[u] \notin Inside
    BY OwnerAlone DEF Inside
  <2>2. /\ next \in Kinds /\ next # KindOf[t]
        /\ waitingCount[next] > 0 /\ MayRun(next, buffer)
    BY ChosenIsWakeable DEF Wakeable
  <2>3. PICK u \in Threads :
          KindOf[u] = next /\ pc[u] \in {"resign", "blocked"}
    BY <2>2, CountedWaiterExists
  <2>4. u # t /\ pc[u] = "blocked"
    BY <2>1, <2>2, <2>3 DEF Inside
  <2> HIDE DEF next
  <2>5. /\ w' = [w EXCEPT ![next] = @ + 1]
        /\ waitingCount' = [waitingCount EXCEPT ![next] = @ - 1]
    BY DEF next
  <2>6. TypeOK'
    BY <2>1, <2>2, <2>5 DEF TypeOK, PCs
  <2>7. OneOwner'
    BY <2>1, <2>2, <2>5 DEF OneOwner, InsideThreads, Inside, TypeOK
  <2>8. WaitersAccounted'
    <3>1. \A kind \in Kinds : WaitingThreads(kind)' = WaitingThreads(kind)
      BY DEF WaitingThreads, TypeOK
    <3>2. \A kind \in Kinds :
            waitingCount'[kind] + w'[kind] = waitingCount[kind] + w[kind]
      BY <2>2, <2>5 DEF TypeOK
    <3> QED
      BY <3>1, <3>2 DEF WaitersAccounted
  <2>9. SignalledReady'
    BY <2>1, <2>2, <2>3, <2>4, <2>5 DEF SignalledReady, TypeOK
  <2>10. ActGuarded' /\ RefusedResigns'
    BY DEF ActGuarded, RefusedResigns, TypeOK
  <2>11. NobodyForgotten'
    BY <2>1 DEF NobodyForgotten, Inside, TypeOK
  <2> QED
    BY <2>6, <2>7, <2>8, <2>9, <2>10, <2>11
<1>8. CASE NoSignal(t)
  <2> USE <1>8 DEF NoSignal
  <2>1. TypeOK'
    BY DEF TypeOK, PCs, Inside
  <2>2. OneOwner'
    BY DEF OneOwner, InsideThreads, Inside, TypeOK
  <2>3. WaitersAccounted'
    BY SameWaiters DEF TypeOK
  <2>4. SignalledReady'
    BY DEF SignalledReady, TypeOK
  <2>5. ActGuarded' /\ RefusedResigns'
    BY DEF ActGuarded, RefusedResigns, TypeOK
  <2>6. NobodyForgotten'
    <3>1. \A kind \in Kinds : waitingCount[kind] > 0 /\ MayRun(kind, buffer) =>
            kind = KindOf[t]
      BY DEF Wakeable
    <3>2. pc'[t] = "leave"
      BY DEF TypeOK
    <3> QED
      BY <3>1, <3>2 DEF NobodyForgotten
  <2> QED
    BY <2>1, <2>2, <2>3, <2>4, <2>5, <2>6
<1>9. CASE Reenter(t)
  <2> USE <1>9 DEF Reenter
  <2>1. TypeOK'
    BY DEF TypeOK, PCs, Inside
  <2>2. OneOwner'
    BY DEF OneOwner, InsideThreads, Inside, TypeOK
  <2>3. WaitersAccounted'
    BY SameWaiters DEF TypeOK
  <2>4. SignalledReady'
    BY DEF SignalledReady, OneOwner, TypeOK
  <2>5. ActGuarded' /\ RefusedResigns'
    BY DEF ActGuarded, RefusedResigns, TypeOK
  <2>6. NobodyForgotten'
    BY DEF NobodyForgotten, TypeOK
  <2> QED
    BY <2>1, <2>2, <2>3, <2>4, <2>5, <2>6
<1>10. CASE Leave(t)
  <2> USE <1>10 DEF Leave
  <2>1. /\ s = 0 /\ (\A kind \in Kinds : w[kind] = 0)
        /\ \A u \in Threads : u # t => pc[u] \notin Inside
    BY OwnerAlone DEF Inside
  <2>2. TypeOK'
    BY <2>1 DEF TypeOK, PCs
  <2>3. OneOwner'
    BY <2>1 DEF OneOwner, InsideThreads, Inside, TypeOK
  <2>4. WaitersAccounted'
    BY SameWaiters DEF TypeOK
  <2>5. SignalledReady'
    BY <2>1 DEF SignalledReady
  <2>6. ActGuarded' /\ RefusedResigns'
    BY DEF ActGuarded, RefusedResigns, TypeOK
  <2>7. NobodyForgotten'
    BY DEF NobodyForgotten, TypeOK
  <2> QED
    BY <2>2, <2>3, <2>4, <2>5, <2>6, <2>7
<1> QED
  BY <1>1, <1>2, <1>3, <1>4, <1>5, <1>6, <1>7, <1>8, <1>9, <1>10 DEF Step

\* The invariant only depends on the variables of the program.
LEMMA StutterPreservesIInv ==
  ASSUME IInv, UNCHANGED vars
  PROVE  IInv'
BY DEF vars, IInv, TypeOK, OneOwner, InsideThreads, WaitersAccounted,
       WaitingThreads, SignalledReady, ActGuarded, RefusedResigns,
       NobodyForgotten

\* The invariant holds in every reachable state.
THEOREM Invariance == Spec => []IInv
<1>1. Init => IInv
  BY InitEstablishesIInv
<1>2. IInv /\ [Next]_vars => IInv'
  BY StepPreservesIInv, StutterPreservesIInv DEF Next
<1> QED
  BY <1>1, <1>2, PTL DEF Spec

\* Type correctness: the semaphores are binary and no count is negative.
THEOREM TypeCorrect == Spec => []TypeOK
<1>1. IInv => TypeOK
  BY DEF IInv
<1> QED
  BY <1>1, Invariance, PTL

\* At most one thread is inside the monitor and the right is never lost.
THEOREM OwnerUnique == Spec => []OneOwner
<1>1. IInv => OneOwner
  BY DEF IInv
<1> QED
  BY <1>1, Invariance, PTL

\* Every waiting thread is counted or has exactly one signal under way.
THEOREM WaitersCounted == Spec => []WaitersAccounted
<1>1. IInv => WaitersAccounted
  BY DEF IInv
<1> QED
  BY <1>1, Invariance, PTL

\* The invariant rules a lost signal out.
LEMMA IInvImpliesNoLostSignal == IInv => NoLostSignal
<1> SUFFICES ASSUME IInv, s = 1, NEW kind \in Kinds,
                    waitingCount[kind] > 0, MayRun(kind, buffer)
             PROVE  \E t \in Threads :
                      KindOf[t] = kind /\ pc[t] \in {"enter", "reenter"}
  BY DEF NoLostSignal
<1>1. PICK t \in Threads :
        KindOf[t] = kind /\ pc[t] \in {"enter", "check", "reenter", "leave"}
  BY DEF IInv, NobodyForgotten
<1>2. pc[t] \notin {"check", "leave"}
  BY DEF IInv, OneOwner, InsideThreads, Inside
<1> QED
  BY <1>1, <1>2

\* No signal is lost, except to a thread whose colleague is at the door.
THEOREM SignalsNotLost == Spec => []NoLostSignal
BY IInvImpliesNoLostSignal, Invariance, PTL

\* If all threads are stuck, the invariant says why.
LEMMA IInvImpliesHaltsOnlyWhenDone == IInv => HaltsOnlyWhenDone
<1> SUFFICES ASSUME IInv, \A t \in Started : Stuck(t)
             PROVE  /\ \A t \in Started : ~ MayRun(KindOf[t], buffer)
                    /\ \E kind \in Kinds : \A t \in Started : KindOf[t] # kind
  BY DEF HaltsOnlyWhenDone
<1>1. s = 1 /\ \A t \in Started : pc[t] = "blocked"
  <2>1. InsideThreads = {}
    BY DEF InsideThreads, Inside, Started, Stuck
  <2>2. \A kind \in Kinds : w[kind] # 1
    BY DEF IInv, SignalledReady, Started, Stuck
  <2>3. s = 1
    BY <2>1, <2>2 DEF IInv, OneOwner
  <2> QED
    BY <2>3 DEF Stuck
<1>2. \A t \in Started : ~ MayRun(KindOf[t], buffer)
  <2> SUFFICES ASSUME NEW t \in Started, MayRun(KindOf[t], buffer)
               PROVE  FALSE
    OBVIOUS
  <2>1. /\ t \in Threads /\ KindOf[t] \in Kinds
        /\ t \in WaitingThreads(KindOf[t])
    BY <1>1, ThreadsAssumption DEF Started, WaitingThreads
  <2>2. Cardinality(WaitingThreads(KindOf[t])) # 0
    BY <2>1, WaitingThreadsFinite, FS_EmptySet
  <2>3. w[KindOf[t]] = 0 /\ waitingCount[KindOf[t]] \in Nat
    BY <1>1, <2>1 DEF IInv, OneOwner, TypeOK
  <2>4. waitingCount[KindOf[t]] > 0
    BY <2>1, <2>2, <2>3 DEF IInv, WaitersAccounted
  <2>5. \E u \in Threads : pc[u] \in {"enter", "reenter"}
    BY <1>1, <2>1, <2>4, IInvImpliesNoLostSignal DEF NoLostSignal
  <2> QED
    BY <1>1, <2>5 DEF Started
<1>3. \E kind \in Kinds : MayRun(kind, buffer)
  BY SomeKindCan, SameConditions DEF IInv, TypeOK
<1> QED
  BY <1>2, <1>3

\* The program only stops when no thread could run, and never with threads
\* of every kind.
THEOREM HaltsWhenDone == Spec => []HaltsOnlyWhenDone
BY IInvImpliesHaltsOnlyWhenDone, Invariance, PTL

\* Only the action Act changes the buffer, and its condition holds then.
LEMMA StepRefinesParityBuffer ==
  ASSUME IInv, [Next]_vars
  PROVE  [Abstract!Next]_buffer
<1>1. ASSUME NEW t \in Threads, Act(t)
      PROVE  Abstract!Next
  <2>1. KindOf[t] \in Kinds /\ Can(KindOf[t], buffer)
    BY <1>1, ThreadsAssumption, SameConditions DEF IInv, ActGuarded, Act
  <2> QED
    BY <1>1, <2>1 DEF Act, Abstract!Next, Abstract!Do
<1>2. ASSUME NEW t \in Threads, Step(t), ~ Act(t)
      PROVE  UNCHANGED buffer
  BY <1>2 DEF Step, Enter, CheckPasses, CheckFails, Resign, Wake, Signal,
              NoSignal, Reenter, Leave
<1> QED
  BY <1>1, <1>2 DEF Next, Step, vars

\* The monitor implements the atomic parity buffer with the rules of lab 3.
THEOREM Refinement == Spec => RefinesParityBuffer
<1>1. Init => Abstract!Init
  BY DEF Init, Abstract!Init
<1>2. IInv /\ [Next]_vars => [Abstract!Next]_buffer
  BY StepRefinesParityBuffer
<1> QED
  BY <1>1, <1>2, Invariance, PTL DEF Spec, RefinesParityBuffer, Abstract!Spec

=============================================================================
