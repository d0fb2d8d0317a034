------------------------- MODULE GroupSchedulerProofs -------------------------
(***************************************************************************)
(* The invariants of the scheduler of lab 2, for any number of processes,  *)
(* any SCHED_RATE and all that may happen between two steps of the clock   *)
(* task; and the length of the turns when all processes compute without    *)
(* end.                                                                    *)
(***************************************************************************)
EXTENDS GroupTurns, QueueProofs, FiniteSetTheorems

Measuring == {"receive", "ready", "store", "prev", "done", "request"}

Expiring == {"expired", "switching", "reset"}

\* A quantum is running, except from the moment do_clocktick has counted
\* the last tick until it resets sched_ticks; then the interrupt handler
\* can only count further down, as it waits for 1 to appear.
QuantumInv ==
  /\ clock \in Measuring => schedTicks \in 1..(2 * SchedRate)
  /\ clock \in Expiring => schedTicks <= 0
  /\ clock = "store" => reg \in 1..(2 * SchedRate)

IInv ==
  /\ TypeOK
  /\ QuantumInv
  /\ NoInterruptLost
  /\ RunningIsBilled

\* A quantum is one or two SCHED_RATEs.
LEMMA QuantumBounds ==
  ASSUME group \in [Users -> Groups], NEW p
  PROVE  Quantum(p) \in 1..(2 * SchedRate)
<1>1. SchedRate \in Nat \ {0}
  BY SchedulerAssumption
<1>2. CASE p \in Users
  <2>1. quant_multip[group[p]] \in {1, 2}
    BY <1>2 DEF quant_multip, Groups
  <2> QED  BY <1>1, <1>2, <2>1 DEF Quantum
<1>3. CASE p \notin Users
  BY <1>1, <1>3 DEF Quantum
<1> QED
  BY <1>2, <1>3

\* Blocking removes the head of the queue.
LEMMA TailKeepsOthers ==
  ASSUME NEW q \in Seq(Users), q # << >>, QueuedOnce(q)
  PROVE  /\ Tail(q) \in Seq(Users)
         /\ QueuedOnce(Tail(q))
         /\ Members(Tail(q)) \subseteq Members(q)
         /\ Head(q) \in Members(q)
<1>1. /\ Tail(q) \in Seq(Users)
      /\ Len(q) \in Nat \ {0}
      /\ DOMAIN q = 1..Len(q)
      /\ DOMAIN Tail(q) = 1..(Len(q) - 1)
      /\ Head(q) = q[1]
  BY EmptySeq
<1>2. \A i \in 1..(Len(q) - 1) : Tail(q)[i] = q[i + 1] /\ i + 1 \in 1..Len(q)
  BY <1>1
<1>3. QueuedOnce(Tail(q))
  <2> SUFFICES ASSUME NEW i \in 1..(Len(q) - 1), NEW j \in 1..(Len(q) - 1),
                      Tail(q)[i] = Tail(q)[j]
               PROVE  i = j
    BY <1>1 DEF QueuedOnce
  <2>1. q[i + 1] = q[j + 1] /\ i + 1 \in DOMAIN q /\ j + 1 \in DOMAIN q
    BY <1>1, <1>2
  <2>2. i + 1 = j + 1
    BY <2>1 DEF QueuedOnce
  <2> QED  BY <1>1, <2>2
<1>4. Members(Tail(q)) \subseteq Members(q)
  BY <1>1, <1>2 DEF Members
<1>5. Head(q) \in Members(q)
  BY <1>1 DEF Members
<1> QED
  BY <1>1, <1>3, <1>4, <1>5

\* bill_ptr always points to a user's slot or that of the idle task.
LEMMA BilledType ==
  ASSUME NEW q \in Seq(Users), NEW other \in BOOLEAN, bill \in Users \cup {IDLE}
  PROVE  Billed(q, other) \in Users \cup {IDLE}
BY EmptySeq DEF Billed

\* The invariant holds when main has started the system.
LEMMA InitEstablishesIInv == Init => IInv
<1> SUFFICES ASSUME Init
             PROVE  IInv
  OBVIOUS
<1>1. queue \in Seq(Users) /\ QueuedOnce(queue) /\ Members(queue) = {InitProc}
  <2>1. queue = <<InitProc>> /\ queue \in Seq(Users) /\ DOMAIN queue = 1..1
    BY InitProcAssumption DEF Init
  <2> QED  BY <2>1 DEF QueuedOnce, Members
<1>2. TypeOK
  <2>1. free \subseteq Users \ Members(queue)
    BY <1>1 DEF Init
  <2>2. group \in [Users -> Groups]
    BY DEF Init, Groups
  <2>3. schedTicks \in Int /\ reg \in Int
    BY SchedulerAssumption DEF Init
  <2> QED  BY <1>1, <2>1, <2>2, <2>3 DEF Init, TypeOK, ClockPlaces
<1>3. QuantumInv
  <2>1. schedTicks \in 1..(2 * SchedRate)
    BY SchedulerAssumption DEF Init
  <2>2. clock \notin Expiring /\ clock # "store"
    BY DEF Init, Expiring
  <2> QED  BY <2>1, <2>2 DEF QuantumInv
<1> QED
  BY <1>2, <1>3 DEF Init, IInv, NoInterruptLost, RunningIsBilled

\* A tick, at whatever moment it comes.
LEMMA TickPreservesIInv ==
  ASSUME IInv, NEW alarm \in BOOLEAN, Tick(alarm)
  PROVE  IInv'
<1> USE DEF queueVars, clockVars, quantumVars
<1>1. SchedRate \in Nat \ {0}
  BY SchedulerAssumption
<1>2. TypeOK /\ QuantumInv /\ NoInterruptLost /\ RunningIsBilled
  BY DEF IInv
<1>3. Quantum(ProcPtr) \in 1..(2 * SchedRate)
  BY <1>2, QuantumBounds DEF TypeOK
<1>4. UNCHANGED <<queue, group, free, system, bill, reg, callers>>
  BY DEF Tick, Interrupt
<1>5. CASE alarm \/ QuantumExpires
  <2>1. Interrupt /\ UNCHANGED <<prev, schedTicks>>
    BY <1>5 DEF Tick
  <2>2. TypeOK'
    BY <1>2, <1>4, <2>1 DEF TypeOK, Interrupt, ClockPlaces
  <2>3. QuantumInv'
    BY <1>2, <1>4, <2>1 DEF QuantumInv, Interrupt, Measuring, Expiring
  <2>4. NoInterruptLost' /\ RunningIsBilled'
    BY <1>2, <1>4, <2>1 DEF NoInterruptLost, RunningIsBilled, Interrupt, TypeOK
  <2> QED  BY <2>2, <2>3, <2>4 DEF IInv
<1>6. CASE ~ (alarm \/ QuantumExpires)
  <2>1. /\ UNCHANGED <<clock, intHeld, intBlocked>>
        /\ IF schedTicks = 1
           THEN schedTicks' = Quantum(ProcPtr) /\ prev' = bill
           ELSE schedTicks' = schedTicks - 1 /\ UNCHANGED prev
    BY <1>6 DEF Tick
  <2>2. TypeOK'
    BY <1>2, <1>3, <1>4, <2>1 DEF TypeOK
  <2>3. QuantumInv'
    <3>1. CASE clock \in Measuring
      BY <1>1, <1>2, <1>3, <1>4, <2>1, <3>1 DEF QuantumInv, Measuring, Expiring
    <3>2. CASE clock \in Expiring
      BY <1>1, <1>2, <1>3, <1>4, <2>1, <3>2
         DEF QuantumInv, Measuring, Expiring, TypeOK
    <3> QED
      BY <1>2, <3>1, <3>2 DEF TypeOK, ClockPlaces, Measuring, Expiring
  <2>4. NoInterruptLost' /\ RunningIsBilled'
    BY <1>2, <1>4, <2>1 DEF NoInterruptLost, RunningIsBilled, ProcPtr
  <2> QED  BY <2>2, <2>3, <2>4 DEF IInv
<1> QED
  BY <1>5, <1>6

\* A step of the clock task, or the delivery of a held interrupt to it.
LEMMA ClockTaskPreservesIInv ==
  ASSUME IInv, ClockTask
  PROVE  IInv'
<1> USE DEF queueVars, clockVars, quantumVars, At, GoTo
<1>1. SchedRate \in Nat \ {0}
  BY SchedulerAssumption
<1>2. TypeOK /\ QuantumInv /\ NoInterruptLost /\ RunningIsBilled
  BY DEF IInv
<1>3. Quantum(ProcPtr) \in 1..(2 * SchedRate)
  BY <1>2, QuantumBounds DEF TypeOK
<1>4. CASE Load
  <2>1. TypeOK'
    BY <1>2, <1>4 DEF Load, TypeOK, ClockPlaces
  <2>2. QuantumInv'
    BY <1>2, <1>4 DEF Load, QuantumInv, Measuring, Expiring
  <2>3. NoInterruptLost' /\ RunningIsBilled'
    BY <1>4 DEF Load, NoInterruptLost, RunningIsBilled
  <2> QED  BY <2>1, <2>2, <2>3 DEF IInv
<1>5. CASE Store
  <2>1. TypeOK'
    BY <1>2, <1>5 DEF Store, TypeOK, ClockPlaces
  <2>2. QuantumInv'
    BY <1>1, <1>2, <1>5 DEF Store, QuantumInv, Measuring, Expiring
  <2>3. NoInterruptLost' /\ RunningIsBilled'
    BY <1>5 DEF Store, NoInterruptLost, RunningIsBilled
  <2> QED  BY <2>1, <2>2, <2>3 DEF IInv
<1>6. CASE Compare
  <2>1. TypeOK'
    BY <1>2, <1>6 DEF Compare, TypeOK, ClockPlaces
  <2>2. QuantumInv'
    BY <1>2, <1>6 DEF Compare, QuantumInv, Measuring, Expiring
  <2>3. NoInterruptLost' /\ RunningIsBilled'
    BY <1>6 DEF Compare, NoInterruptLost, RunningIsBilled
  <2> QED  BY <2>1, <2>2, <2>3 DEF IInv
<1>7. CASE SchedEnds
  <2>1. /\ queue' \in Seq(Users)
        /\ QueuedOnce(queue')
        /\ Members(queue') = Members(queue)
    BY <1>2, <1>7, SchedPreempts DEF SchedEnds, TypeOK
  <2>2. TypeOK'
    BY <1>2, <1>7, <2>1 DEF SchedEnds, TypeOK, ClockPlaces
  <2>3. QuantumInv'
    BY <1>2, <1>7 DEF SchedEnds, QuantumInv, Measuring, Expiring
  <2>4. NoInterruptLost' /\ RunningIsBilled'
    BY <1>7 DEF SchedEnds, NoInterruptLost, RunningIsBilled
  <2> QED  BY <2>2, <2>3, <2>4 DEF IInv
<1>8. CASE Reset
  <2>1. TypeOK'
    BY <1>2, <1>3, <1>8 DEF Reset, TypeOK, ClockPlaces
  <2>2. QuantumInv'
    BY <1>2, <1>3, <1>8 DEF Reset, QuantumInv, Measuring, Expiring
  <2>3. NoInterruptLost' /\ RunningIsBilled'
    BY <1>8 DEF Reset, NoInterruptLost, RunningIsBilled
  <2> QED  BY <2>1, <2>2, <2>3 DEF IInv
<1>9. CASE SetPrev
  <2>1. TypeOK'
    BY <1>2, <1>9 DEF SetPrev, TypeOK, ClockPlaces
  <2>2. QuantumInv'
    BY <1>2, <1>9 DEF SetPrev, QuantumInv, Measuring, Expiring
  <2>3. NoInterruptLost' /\ RunningIsBilled'
    BY <1>9 DEF SetPrev, NoInterruptLost, RunningIsBilled
  <2> QED  BY <2>1, <2>2, <2>3 DEF IInv
<1>10. CASE Receive
  <2>1. Billed(queue, system) \in Users \cup {IDLE}
    BY <1>2, BilledType DEF TypeOK
  <2>2. TypeOK'
    BY <1>2, <1>10, <2>1 DEF Receive, TypeOK, ClockPlaces
  <2>3. QuantumInv'
    BY <1>2, <1>10 DEF Receive, QuantumInv, Measuring, Expiring
  <2>4. NoInterruptLost' /\ RunningIsBilled'
    BY <1>2, <1>10
       DEF Receive, NoInterruptLost, RunningIsBilled, Billed, ProcPtr, TypeOK
  <2> QED  BY <2>2, <2>3, <2>4 DEF IInv
<1>11. CASE Serve
  <2>1. TypeOK'
    BY <1>2, <1>11 DEF Serve, TypeOK, ClockPlaces
  <2>2. QuantumInv'
    BY <1>2, <1>11 DEF Serve, QuantumInv, Measuring, Expiring
  <2>3. NoInterruptLost' /\ RunningIsBilled'
    BY <1>11 DEF Serve, NoInterruptLost, RunningIsBilled
  <2> QED  BY <2>1, <2>2, <2>3 DEF IInv
<1>12. CASE Unhold
  <2>1. TypeOK'
    BY <1>2, <1>12 DEF Unhold, TypeOK, ClockPlaces
  <2>2. QuantumInv'
    BY <1>2, <1>12 DEF Unhold, QuantumInv, Measuring, Expiring
  <2>3. NoInterruptLost' /\ RunningIsBilled'
    BY <1>2, <1>12 DEF Unhold, NoInterruptLost, RunningIsBilled
  <2> QED  BY <2>1, <2>2, <2>3 DEF IInv
<1> QED
  BY <1>4, <1>5, <1>6, <1>7, <1>8, <1>9, <1>10, <1>11, <1>12 DEF ClockTask

\* A step of a user process, a server or another task, or the signal that
\* an alarm sends.
LEMMA OthersPreserveIInv ==
  ASSUME IInv, Others
  PROVE  IInv'
<1> USE DEF queueVars, clockVars, quantumVars, At, GoTo
<1>1. TypeOK /\ QuantumInv /\ NoInterruptLost /\ RunningIsBilled
  BY DEF IInv
<1>2. CASE UserCall
  <2>1. /\ queue' \in Seq(Users)
        /\ QueuedOnce(queue')
        /\ Members(queue') \subseteq Members(queue)
    BY <1>1, <1>2, TailKeepsOthers DEF UserCall, UserRuns, TypeOK
  <2>2. Billed(queue', system') \in Users \cup {IDLE}
    <3>1. system' \in BOOLEAN /\ bill \in Users \cup {IDLE}
      BY <1>1, <1>2 DEF UserCall, TypeOK
    <3> QED  BY <2>1, <3>1, BilledType
  <2>3. TypeOK'
    BY <1>1, <1>2, <2>1, <2>2 DEF UserCall, TypeOK
  <2>4. QuantumInv'
    BY <1>1, <1>2 DEF UserCall, QuantumInv
  <2>5. NoInterruptLost' /\ RunningIsBilled'
    BY <1>1, <1>2
       DEF UserCall, NoInterruptLost, RunningIsBilled, Billed, ProcPtr
  <2> QED  BY <2>3, <2>4, <2>5 DEF IInv
<1>3. CASE DeviceInterrupt
  <2>1. TypeOK'
    BY <1>1, <1>3 DEF DeviceInterrupt, TypeOK
  <2>2. QuantumInv'
    BY <1>1, <1>3 DEF DeviceInterrupt, QuantumInv
  <2>3. NoInterruptLost' /\ RunningIsBilled'
    BY <1>1, <1>3 DEF DeviceInterrupt, NoInterruptLost, RunningIsBilled
  <2> QED  BY <2>1, <2>2, <2>3 DEF IInv
<1>4. CASE SystemBlocks
  <2>1. Billed(queue, At("ready")) \in Users \cup {IDLE}
    <3>1. At("ready") \in BOOLEAN
      BY DEF At
    <3> QED  BY <1>1, <3>1, BilledType DEF TypeOK
  <2>2. TypeOK'
    BY <1>1, <1>4, <2>1 DEF SystemBlocks, TypeOK
  <2>3. QuantumInv'
    BY <1>1, <1>4 DEF SystemBlocks, QuantumInv
  <2>4. NoInterruptLost' /\ RunningIsBilled'
    BY <1>1, <1>4
       DEF SystemBlocks, NoInterruptLost, RunningIsBilled, Billed, ProcPtr
  <2> QED  BY <2>2, <2>3, <2>4 DEF IInv
<1>5. CASE ClockRequest
  <2>1. TypeOK'
    BY <1>1, <1>5 DEF ClockRequest, TypeOK, ClockPlaces
  <2>2. QuantumInv'
    BY <1>1, <1>5
       DEF ClockRequest, SystemRuns, QuantumInv, Measuring, Expiring
  <2>3. NoInterruptLost' /\ RunningIsBilled'
    BY <1>1, <1>5
       DEF ClockRequest, SystemRuns, NoInterruptLost, RunningIsBilled
  <2> QED  BY <2>1, <2>2, <2>3 DEF IInv
<1>6. ASSUME NEW u \in Users, AlarmSignal(u)
      PROVE  IInv'
  <2>1. /\ queue' \in Seq(Users)
        /\ QueuedOnce(queue')
        /\ Members(queue') \subseteq Members(queue)
    BY <1>1, <1>6, WithoutKeepsOthers DEF AlarmSignal, TypeOK
  <2>2. TypeOK'
    BY <1>1, <1>6, <2>1 DEF AlarmSignal, TypeOK
  <2>3. QuantumInv'
    BY <1>1, <1>6 DEF AlarmSignal, QuantumInv
  <2>4. NoInterruptLost' /\ RunningIsBilled'
    BY <1>1, <1>6 DEF AlarmSignal, NoInterruptLost, RunningIsBilled
  <2> QED  BY <2>2, <2>3, <2>4 DEF IInv
<1>7. ASSUME NEW u \in Users, MakeReady(u)
      PROVE  IInv'
  <2>1. /\ queue' \in Seq(Users)
        /\ QueuedOnce(queue')
        /\ Members(queue') = Members(queue) \cup {u}
    BY <1>1, <1>7, AtFrontAdds DEF MakeReady, TypeOK
  <2>2. TypeOK'
    BY <1>1, <1>7, <2>1 DEF MakeReady, TypeOK
  <2>3. QuantumInv'
    BY <1>1, <1>7 DEF MakeReady, QuantumInv
  <2>4. NoInterruptLost' /\ RunningIsBilled'
    BY <1>1, <1>7 DEF MakeReady, SystemRuns, NoInterruptLost, RunningIsBilled
  <2> QED  BY <2>2, <2>3, <2>4 DEF IInv
<1>8. ASSUME NEW u \in Users, Fork(u)
      PROVE  IInv'
  <2>1. TypeOK'
    BY <1>1, <1>8 DEF Fork, TypeOK, Groups
  <2>2. QuantumInv'
    BY <1>1, <1>8 DEF Fork, QuantumInv
  <2>3. NoInterruptLost' /\ RunningIsBilled'
    BY <1>1, <1>8 DEF Fork, SystemRuns, NoInterruptLost, RunningIsBilled
  <2> QED  BY <2>1, <2>2, <2>3 DEF IInv
<1>9. ASSUME NEW u \in Users, Exit(u)
      PROVE  IInv'
  <2>1. /\ queue' \in Seq(Users)
        /\ QueuedOnce(queue')
        /\ Members(queue') = Members(queue) \ {u}
    BY <1>1, <1>9, WithoutKeepsOthers DEF Exit, TypeOK
  <2>2. TypeOK'
    BY <1>1, <1>9, <2>1 DEF Exit, TypeOK
  <2>3. QuantumInv'
    BY <1>1, <1>9 DEF Exit, QuantumInv
  <2>4. NoInterruptLost' /\ RunningIsBilled'
    BY <1>1, <1>9 DEF Exit, SystemRuns, NoInterruptLost, RunningIsBilled
  <2> QED  BY <2>2, <2>3, <2>4 DEF IInv
<1>10. ASSUME NEW u \in Users, NEW g \in Groups, do_setProcGroup(u, g)
       PROVE  IInv'
  <2>1. TypeOK'
    BY <1>1, <1>10 DEF do_setProcGroup, TypeOK
  <2>2. QuantumInv'
    BY <1>1, <1>10 DEF do_setProcGroup, QuantumInv
  <2>3. NoInterruptLost' /\ RunningIsBilled'
    BY <1>1, <1>10
       DEF do_setProcGroup, SystemRuns, NoInterruptLost, RunningIsBilled
  <2> QED  BY <2>1, <2>2, <2>3 DEF IInv
<1> QED
  BY <1>2, <1>3, <1>4, <1>5, <1>6, <1>7, <1>8, <1>9, <1>10 DEF Others

\* The invariant holds in every reachable state.
THEOREM SchedulerInvariance == Spec => []IInv
<1>1. IInv /\ [Next]_vars => IInv'
  <2> SUFFICES ASSUME IInv, [Next]_vars
               PROVE  IInv'
    OBVIOUS
  <2>1. CASE Ticks
    BY <2>1, TickPreservesIInv DEF Ticks
  <2>2. CASE ClockTask
    BY <2>2, ClockTaskPreservesIInv
  <2>3. CASE Others
    BY <2>3, OthersPreserveIInv
  <2>4. CASE UNCHANGED vars
    BY <2>4 DEF vars, queueVars, clockVars, quantumVars, IInv, TypeOK,
                QuantumInv, NoInterruptLost, RunningIsBilled, ProcPtr
  <2> QED  BY <2>1, <2>2, <2>3, <2>4 DEF Next
<1> QED
  BY <1>1, InitEstablishesIInv, PTL DEF Spec

\* Type correctness: no process is queued twice, none that has exited is
\* queued.
THEOREM SchedulerTypeCorrect == Spec => []TypeOK
<1>1. IInv => TypeOK
  BY DEF IInv
<1> QED
  BY <1>1, SchedulerInvariance, PTL

\* The unlocked updates of sched_ticks by the interrupt handler and by the
\* clock task never leave it without a running quantum.
THEOREM QuantumAlwaysRestored == Spec => []QuantumRestored
<1>1. IInv => QuantumRestored
  BY DEF IInv, QuantumInv, QuantumRestored, Measuring
<1> QED
  BY <1>1, SchedulerInvariance, PTL

\* No interrupt of the clock and no caller is forgotten.
THEOREM InterruptsNotLost == Spec => []NoInterruptLost
<1>1. IInv => NoInterruptLost
  BY DEF IInv
<1> QED
  BY <1>1, SchedulerInvariance, PTL

\* The running user process, or the idle task, is always the billed one.
THEOREM RunningAlwaysBilled == Spec => []RunningIsBilled
<1>1. IInv => RunningIsBilled
  BY DEF IInv
<1> QED
  BY <1>1, SchedulerInvariance, PTL

-----------------------------------------------------------------------------
(* The turns of processes in endless loops *)

\* A turn has ended.
Started == turn # [g \in Groups |-> 0]

\* The quantum is used up and the clock task is to take the processor away.
Exhausted == {"ready", "store", "expired", "switching"}

TurnsType ==
  /\ queue \in Seq(Users) /\ QueuedOnce(queue) /\ Members(queue) = Users
  /\ group = GroupOf
  /\ system = FALSE
  /\ callers = FALSE /\ intHeld = FALSE /\ intBlocked = FALSE
  /\ clock \in {"receive", "reset", "prev", "done"} \cup Exhausted
  /\ reg \in Int /\ schedTicks \in Int
  /\ bill \in Users /\ prev \in Users
  /\ used \in Nat
  /\ turn \in [Groups -> Nat]

\* A turn has two quanta: SCHED_RATE, during which prev_ptr is the process
\* that ran before, and that of the group, during which it is the one that
\* runs.
Charged ==
  clock = "receive" =>
    /\ bill = Head(queue)
    /\ schedTicks >= 1
    /\ Started =>
         \/ prev # bill /\ used + schedTicks = SchedRate
         \/ prev = bill /\ used + schedTicks = TurnLength(group[bill])

\* The clock task only gets to work at the end of the second quantum.
UsedUp ==
  clock \in Exhausted =>
    /\ bill = Head(queue) /\ prev = bill
    /\ used >= 1
    /\ Started => used = TurnLength(group[bill])
    /\ clock = "ready" => schedTicks = 1
    /\ clock = "store" => reg = 1

\* The process that was charged is not the one that runs next.
Passed ==
  clock \in {"reset", "prev", "done"} =>
    /\ Started
    /\ used = 0
    /\ bill # Head(queue)
    /\ clock # "reset" => schedTicks = SchedRate
    /\ clock = "done" => prev = bill

TurnsInv == TurnsType /\ Charged /\ UsedUp /\ Passed

\* Every turn but the one in which the system started has the length of its
\* group when sched ends it.
TurnsRegular ==
  clock = "switching" /\ Started => used = TurnLength(group[Head(queue)])

\* A turn is SCHED_RATE and the quantum of the process.
LEMMA TurnIsTwoQuanta ==
  ASSUME EndlessLoops, group = GroupOf, NEW u \in Users
  PROVE  /\ group[u] \in Groups
         /\ Quantum(u) \in Nat \ {0}
         /\ TurnLength(group[u]) = SchedRate + Quantum(u)
<1>1. SchedRate \in Nat \ {0}
  BY SchedulerAssumption
<1>2. group[u] \in Groups
  BY DEF EndlessLoops
<1> DEFINE m == quant_multip[group[u]]
<1>3. m \in {1, 2}
  BY <1>2 DEF quant_multip, Groups
<1>4. Quantum(u) = SchedRate * m /\ TurnLength(group[u]) = SchedRate * (1 + m)
  BY DEF Quantum, TurnLength
<1> HIDE DEF m
<1>5. CASE m = 1
  BY <1>1, <1>2, <1>4, <1>5
<1>6. CASE m = 2
  BY <1>1, <1>2, <1>4, <1>6
<1> QED
  BY <1>3, <1>5, <1>6

\* The clock task has no pid.
LEMMA ClockQuantum ==
  ASSUME EndlessLoops, clock # "receive"
  PROVE  Quantum(ProcPtr) = SchedRate
BY DEF EndlessLoops, Quantum, ProcPtr

\* There is more than one process, so that another one is ready.
LEMMA OthersAreReady ==
  ASSUME EndlessLoops, NEW q \in Seq(Users), Members(q) = Users
  PROVE  q # << >> /\ Len(q) > 1 /\ Head(q) \in Users
<1>1. PICK u \in Users, v \in Users : u # v
  BY DEF EndlessLoops
<1>2. PICK i \in 1..Len(q), j \in 1..Len(q) : q[i] = u /\ q[j] = v
  BY DEF Members
<1>3. i # j
  BY <1>1, <1>2
<1>4. Len(q) \in Nat /\ Len(q) > 1
  BY <1>3
<1>5. q # << >>
  BY <1>4
<1> QED
  BY <1>4, <1>5, HeadIsMember

\* The invariant holds when all processes are ready.
LEMMA InitEstablishesTurnsInv ==
  ASSUME EndlessLoops, InitTest
  PROVE  TurnsInv
<1> DEFINE n == Cardinality(Users)
<1>1. IsFiniteSet(Users) /\ n \in Nat
  BY FS_CardinalityType DEF EndlessLoops
<1>2. queue \in [1..n -> Users] /\ Members(queue) = Users
  BY DEF InitTest
<1>3. IsFiniteSet(1..n) /\ Cardinality(1..n) = n
  BY <1>1, FS_Interval
<1> HIDE DEF n
<1>4. queue \in Seq(Users) /\ Len(queue) = n
  BY <1>1, <1>2, IsASeq, LenProperties
<1>5. queue \in Surjection(1..n, Users)
  BY <1>2 DEF Surjection, Members
<1>6. queue \in Injection(1..n, Users)
  BY <1>1, <1>3, <1>5, FS_Surjection DEF n
<1>7. QueuedOnce(queue)
  BY <1>2, <1>6 DEF Injection, IsInjective, QueuedOnce
<1>8. Head(queue) \in Users
  BY <1>2, <1>4, OthersAreReady
<1>9. turn = [g \in Groups |-> 0] /\ turn \in [Groups -> Nat]
  BY DEF InitTest
<1>10. schedTicks \in Int /\ schedTicks >= 1
  BY SchedulerAssumption DEF InitTest
<1>11. TurnsType
  BY <1>2, <1>4, <1>7, <1>8, <1>9, <1>10 DEF InitTest, TurnsType
<1>12. Charged
  BY <1>9, <1>10 DEF InitTest, Charged, Started
<1>13. UsedUp /\ Passed
  BY DEF InitTest, UsedUp, Passed, Exhausted
<1> QED
  BY <1>11, <1>12, <1>13 DEF TurnsInv

\* A tick is charged to the process at the head, and the one that comes at
\* the end of its second quantum makes the clock task run.
LEMMA TickPreservesTurnsInv ==
  ASSUME EndlessLoops, TurnsInv, TickCharged
  PROVE  TurnsInv'
<1> USE DEF queueVars, clockVars, quantumVars
<1>1. TurnsType /\ Charged /\ clock = "receive"
  BY DEF TurnsInv, TickCharged
<1>2. Tick(FALSE)
  BY DEF TickCharged
<1>3. SchedRate \in Nat \ {0}
  BY SchedulerAssumption
<1>4. queue # << >> /\ Head(queue) \in Users
  BY <1>1, OthersAreReady DEF TurnsType
<1>5. ProcPtr = Head(queue) /\ bill = Head(queue) /\ bill \in Users
  BY <1>1, <1>4 DEF TurnsType, Charged, ProcPtr
<1>6. used' = used + 1 /\ turn' = turn
  BY <1>4, <1>5 DEF TickCharged
<1>7. /\ group[bill] \in Groups
      /\ Quantum(bill) \in Nat \ {0}
      /\ TurnLength(group[bill]) = SchedRate + Quantum(bill)
  BY <1>1, <1>5, TurnIsTwoQuanta DEF TurnsType
<1>8. UNCHANGED <<queue, group, system, bill, reg, callers>>
  BY <1>2 DEF Tick, Interrupt
<1>9. Started' <=> Started
  BY <1>6 DEF Started
<1>10. TurnLength(group[bill])' = TurnLength(group[bill])
  BY <1>8 DEF TurnLength, quant_multip
<1>11. CASE QuantumExpires
  <2>1. Interrupt /\ UNCHANGED <<prev, schedTicks>>
    BY <1>2, <1>11 DEF Tick
  <2>2. /\ clock' = "ready" /\ intHeld' = FALSE /\ intBlocked' = FALSE
        /\ schedTicks' = 1 /\ prev = bill
    BY <1>1, <1>11, <2>1 DEF Interrupt, QuantumExpires, TurnsType
  <2>3. TurnsType'
    BY <1>1, <1>6, <1>8, <2>1, <2>2 DEF TurnsType, Exhausted
  <2>4. Started => used + 1 = TurnLength(group[bill])
    BY <1>1, <1>7, <1>11, <2>2 DEF Charged, QuantumExpires, TurnsType
  <2>5. UsedUp'
    BY <1>1, <1>5, <1>6, <1>8, <1>9, <1>10, <2>1, <2>2, <2>4
       DEF UsedUp, TurnsType
  <2>6. Charged' /\ Passed'
    BY <2>2 DEF Charged, Passed
  <2> QED  BY <2>3, <2>5, <2>6 DEF TurnsInv
<1>12. CASE ~ QuantumExpires
  <2>1. /\ UNCHANGED <<clock, intHeld, intBlocked>>
        /\ IF schedTicks = 1
           THEN schedTicks' = Quantum(bill) /\ prev' = bill
           ELSE schedTicks' = schedTicks - 1 /\ UNCHANGED prev
    BY <1>2, <1>5, <1>12 DEF Tick
  <2>2. TurnsType'
    BY <1>1, <1>5, <1>6, <1>7, <1>8, <2>1 DEF TurnsType
  <2>3. schedTicks \in Int /\ used \in Nat /\ schedTicks >= 1
    BY <1>1 DEF TurnsType, Charged
  <2>4. schedTicks' >= 1
    BY <1>7, <2>1, <2>3
  <2>5. ASSUME Started
        PROVE  \/ prev' # bill /\ used' + schedTicks' = SchedRate
               \/ prev' = bill /\ used' + schedTicks' = TurnLength(group[bill])
    <3>1. \/ prev # bill /\ used + schedTicks = SchedRate
          \/ prev = bill /\ used + schedTicks = TurnLength(group[bill])
      BY <1>1, <2>5 DEF Charged
    <3>2. CASE schedTicks = 1
      <4>1. prev # bill /\ used + 1 = SchedRate
        BY <1>4, <1>12, <3>1, <3>2 DEF QuantumExpires
      <4> QED  BY <1>3, <1>6, <1>7, <2>1, <2>3, <3>2, <4>1
    <3>3. CASE schedTicks # 1
      BY <1>3, <1>6, <1>7, <2>1, <2>3, <3>1, <3>3
    <3> QED  BY <3>2, <3>3
  <2>6. Charged'
    BY <1>5, <1>8, <1>9, <1>10, <2>4, <2>5 DEF Charged
  <2>7. UsedUp' /\ Passed'
    BY <1>1, <2>1 DEF UsedUp, Passed, Exhausted
  <2> QED  BY <2>2, <2>6, <2>7 DEF TurnsInv
<1> QED
  BY <1>11, <1>12

\* sched takes the processor from the process whose turn it was; if a turn
\* had ended before, the length of this one is recorded for its group.
LEMMA TurnEndsRegularly ==
  ASSUME EndlessLoops, TurnsInv, TurnEnds
  PROVE  /\ TurnsInv'
         /\ Head(queue') # Head(queue)
         /\ Started'
         /\ Started => turn' = [turn EXCEPT ![group[Head(queue)]] =
                                  TurnLength(group[Head(queue)])]
<1> USE DEF queueVars, clockVars, quantumVars
<1>1. TurnsType /\ UsedUp /\ clock = "switching"
  BY DEF TurnsInv, TurnEnds, SchedEnds, At
<1>2. /\ queue' = Scheduled(queue, group) /\ clock' = "reset"
      /\ UNCHANGED <<group, system, reg, intBlocked, intHeld, callers, bill,
                     prev, schedTicks>>
      /\ turn' = [turn EXCEPT ![group[Head(queue)]] = used] /\ used' = 0
  BY DEF TurnEnds, SchedEnds, GoTo
<1>3. queue \in Seq(Users) /\ QueuedOnce(queue) /\ Members(queue) = Users
  BY <1>1 DEF TurnsType
<1>4. Len(queue) > 1 /\ Head(queue) \in Users
  BY <1>3, OthersAreReady
<1>5. group \in [Users -> Groups] /\ group = GroupOf
  BY <1>1 DEF TurnsType, EndlessLoops
<1>6. /\ queue' \in Seq(Users) /\ QueuedOnce(queue')
      /\ Members(queue') = Users
      /\ Head(queue') # Head(queue)
  BY <1>2, <1>3, <1>4, <1>5, SchedPreempts
<1>7. /\ bill = Head(queue) /\ used \in Nat /\ used >= 1
      /\ Started => used = TurnLength(group[Head(queue)])
      /\ turn \in [Groups -> Nat]
  BY <1>1 DEF TurnsType, UsedUp, Exhausted
<1>8. group[Head(queue)] \in Groups
  BY <1>4, <1>5
<1>9. turn' \in [Groups -> Nat] /\ turn'[group[Head(queue)]] = used
  BY <1>2, <1>7, <1>8
<1>10. Started'
  <2>1. turn'[group[Head(queue)]] # 0
    BY <1>7, <1>9
  <2> QED  BY <1>8, <2>1 DEF Started
<1>11. TurnsType'
  BY <1>1, <1>2, <1>6, <1>9 DEF TurnsType
<1>12. Passed'
  BY <1>2, <1>6, <1>7, <1>10 DEF Passed
<1>13. Charged' /\ UsedUp'
  BY <1>2 DEF Charged, UsedUp, Exhausted
<1> QED
  BY <1>2, <1>6, <1>7, <1>10, <1>11, <1>12, <1>13 DEF TurnsInv

\* The other steps of the clock task.
LEMMA OtherStepPreservesTurnsInv ==
  ASSUME EndlessLoops, TurnsInv, OtherStep
  PROVE  TurnsInv' /\ UNCHANGED <<queue, turn>>
<1> USE DEF queueVars, clockVars, quantumVars, At, GoTo
<1>1. TurnsType /\ Charged /\ UsedUp /\ Passed
  BY DEF TurnsInv
<1>2. used' = used /\ turn' = turn
  BY DEF OtherStep
<1>3. Started' <=> Started
  BY <1>2 DEF Started
<1>4. UNCHANGED <<queue, group, system, intHeld>>
  BY DEF OtherStep, Load, Store, Compare, Reset, SetPrev, Receive
<1>5. bill' = bill => TurnLength(group[bill])' = TurnLength(group[bill])
  BY <1>4 DEF TurnLength, quant_multip
<1>6. SchedRate \in Nat \ {0}
  BY SchedulerAssumption
<1>7. CASE Load
  <2>1. TurnsType'
    BY <1>1, <1>2, <1>7 DEF Load, TurnsType, Exhausted
  <2>2. UsedUp'
    BY <1>1, <1>2, <1>3, <1>4, <1>5, <1>7 DEF Load, UsedUp, Exhausted
  <2>3. Charged' /\ Passed'
    BY <1>7 DEF Load, Charged, Passed
  <2> QED  BY <1>2, <1>4, <2>1, <2>2, <2>3 DEF TurnsInv
<1>8. CASE Store
  <2>1. reg = 1
    BY <1>1, <1>8 DEF Store, UsedUp, Exhausted
  <2>2. TurnsType'
    BY <1>1, <1>2, <1>8, <2>1 DEF Store, TurnsType, Exhausted
  <2>3. UsedUp'
    BY <1>1, <1>2, <1>3, <1>4, <1>5, <1>8, <2>1 DEF Store, UsedUp, Exhausted
  <2>4. Charged' /\ Passed'
    BY <1>8, <2>1 DEF Store, Charged, Passed
  <2> QED  BY <1>2, <1>4, <2>2, <2>3, <2>4 DEF TurnsInv
<1>9. CASE Compare
  <2>1. bill = prev
    BY <1>1, <1>9 DEF Compare, UsedUp, Exhausted
  <2>2. TurnsType'
    BY <1>1, <1>2, <1>9, <2>1 DEF Compare, TurnsType, Exhausted
  <2>3. UsedUp'
    BY <1>1, <1>2, <1>3, <1>4, <1>5, <1>9, <2>1
       DEF Compare, UsedUp, Exhausted
  <2>4. Charged' /\ Passed'
    BY <1>9, <2>1 DEF Compare, Charged, Passed
  <2> QED  BY <1>2, <1>4, <2>2, <2>3, <2>4 DEF TurnsInv
<1>10. CASE Reset
  <2>1. schedTicks' = SchedRate
    BY <1>10, ClockQuantum DEF Reset
  <2>2. TurnsType'
    BY <1>1, <1>2, <1>6, <1>10, <2>1 DEF Reset, TurnsType
  <2>3. Passed'
    BY <1>1, <1>2, <1>3, <1>4, <1>10, <2>1 DEF Reset, Passed
  <2>4. Charged' /\ UsedUp'
    BY <1>10 DEF Reset, Charged, UsedUp, Exhausted
  <2> QED  BY <1>2, <1>4, <2>2, <2>3, <2>4 DEF TurnsInv
<1>11. CASE SetPrev
  <2>1. TurnsType'
    BY <1>1, <1>2, <1>11 DEF SetPrev, TurnsType
  <2>2. Passed'
    BY <1>1, <1>2, <1>3, <1>4, <1>11 DEF SetPrev, Passed
  <2>3. Charged' /\ UsedUp'
    BY <1>11 DEF SetPrev, Charged, UsedUp, Exhausted
  <2> QED  BY <1>2, <1>4, <2>1, <2>2, <2>3 DEF TurnsInv
<1>12. CASE Receive
  <2>1. queue # << >> /\ Head(queue) \in Users
    BY <1>1, OthersAreReady DEF TurnsType
  <2>2. /\ clock = "done" /\ clock' = "receive"
        /\ bill' = Head(queue)
        /\ UNCHANGED <<callers, intBlocked, reg, prev, schedTicks>>
    BY <1>1, <1>12, <2>1 DEF Receive, TurnsType, Billed
  <2>3. /\ used = 0 /\ schedTicks = SchedRate
        /\ prev # Head(queue)
    BY <1>1, <2>2 DEF Passed
  <2>4. TurnsType'
    BY <1>1, <1>2, <1>4, <2>1, <2>2 DEF TurnsType
  <2>5. Charged'
    BY <1>2, <1>4, <1>6, <2>2, <2>3 DEF Charged
  <2>6. UsedUp' /\ Passed'
    BY <2>2 DEF UsedUp, Passed, Exhausted
  <2> QED  BY <1>2, <1>4, <2>4, <2>5, <2>6 DEF TurnsInv
<1> QED
  BY <1>7, <1>8, <1>9, <1>10, <1>11, <1>12 DEF OtherStep

\* What a step of the system does to the turns: a group whose last turn had
\* the right length keeps it, and the process at the head is only passed
\* over when its turn has ended with the right length.
LEMMA TurnsStep ==
  ASSUME EndlessLoops, TurnsInv, [NextTest]_turnVars
  PROVE  /\ TurnsInv'
         /\ Started => Started'
         /\ Head(queue') # Head(queue) => Started'
         /\ \A g \in Groups :
              Started /\ turn[g] = TurnLength(g) => turn'[g] = TurnLength(g)
         /\ \A u \in Users :
              Started /\ Head(queue) = u /\ Head(queue') # u
                => turn'[GroupOf[u]] = TurnLength(GroupOf[u])
<1>1. CASE UNCHANGED <<queue, turn>> /\ TurnsInv'
  BY <1>1 DEF Started
<1>2. CASE TickCharged
  <2>1. UNCHANGED <<queue, turn>>
    BY <1>2 DEF TickCharged, Tick, queueVars
  <2> QED  BY <1>1, <1>2, <2>1, TickPreservesTurnsInv
<1>3. CASE TurnEnds
  <2>1. /\ TurnsInv'
        /\ Head(queue') # Head(queue)
        /\ Started'
        /\ Started => turn' = [turn EXCEPT ![group[Head(queue)]] =
                                 TurnLength(group[Head(queue)])]
    BY <1>3, TurnEndsRegularly
  <2>2. /\ turn \in [Groups -> Nat] /\ group = GroupOf
        /\ Head(queue) \in Users
    BY OthersAreReady DEF TurnsInv, TurnsType
  <2>3. GroupOf \in [Users -> Groups]
    BY DEF EndlessLoops
  <2>4. ASSUME NEW g \in Groups, Started, turn[g] = TurnLength(g)
        PROVE  turn'[g] = TurnLength(g)
    BY <2>1, <2>2, <2>4
  <2>5. ASSUME NEW u \in Users, Started, Head(queue) = u
        PROVE  turn'[GroupOf[u]] = TurnLength(GroupOf[u])
    BY <2>1, <2>2, <2>3, <2>5
  <2> QED  BY <2>1, <2>4, <2>5
<1>4. CASE OtherStep
  BY <1>1, <1>4, OtherStepPreservesTurnsInv
<1>5. CASE UNCHANGED turnVars
  <2>1. TurnsInv'
    BY <1>5 DEF turnVars, vars, queueVars, clockVars, quantumVars, TurnsInv,
                TurnsType, Charged, UsedUp, Passed, Started, TurnLength,
                quant_multip
  <2> QED  BY <1>1, <1>5, <2>1 DEF turnVars, vars, queueVars
<1> QED
  BY <1>2, <1>3, <1>4, <1>5 DEF NextTest

\* The invariant of the endless loops, for any number of processes in each
\* group and any SCHED_RATE.
THEOREM EndlessLoopsInvariance ==
  ASSUME EndlessLoops
  PROVE  SpecTest => []TurnsInv
<1>1. InitTest => TurnsInv
  BY InitEstablishesTurnsInv
<1>2. TurnsInv /\ [NextTest]_turnVars => TurnsInv'
  BY TurnsStep
<1> QED
  BY <1>1, <1>2, PTL DEF SpecTest

\* Whenever sched takes the processor from a process, except for the first
\* time, that process has had it for two SCHED_RATEs in group A or B and for
\* three in group C.
THEOREM TurnsAreRegular ==
  ASSUME EndlessLoops
  PROVE  SpecTest => []TurnsRegular
<1>1. TurnsInv => TurnsRegular
  BY DEF TurnsInv, UsedUp, Exhausted, TurnsRegular
<1> QED
  BY <1>1, EndlessLoopsInvariance, PTL

\* The process that runs is the one at the head.
LEMMA RunnerAtHead ==
  ASSUME EndlessLoops, TurnsInv, NEW w \in Users, ProcPtr = w
  PROVE  Head(queue) = w
<1>1. system = FALSE /\ queue # << >> /\ w # "CLOCK"
  BY OthersAreReady DEF TurnsInv, TurnsType, EndlessLoops
<1>2. clock = "receive"
  BY <1>1 DEF ProcPtr
<1>3. ProcPtr = Head(queue)
  BY <1>1, <1>2 DEF ProcPtr
<1> QED
  BY <1>3

\* The last turn of the group of a process has its length from some time on.
Settled(u) == <>[](turn[GroupOf[u]] = TurnLength(GroupOf[u]))

\* A process that runs again after another one has had a regular turn.
LEMMA RunningSettles ==
  ASSUME EndlessLoops, NEW CONSTANT u \in Users, NEW CONSTANT v \in Users, v # u
  PROVE  SpecTest /\ RunsAgain(u) /\ RunsAgain(v) => Settled(u)
<1> DEFINE Runs == Head(queue) = u
           Right == turn[GroupOf[u]] = TurnLength(GroupOf[u])
<1>1. TurnsInv /\ ProcPtr = u => Runs
  BY RunnerAtHead
<1>2. TurnsInv /\ ProcPtr = v => ~ Runs
  BY RunnerAtHead
<1>3. TurnsInv /\ [NextTest]_turnVars
        => /\ Started => Started'
           /\ Runs /\ ~ Runs' => Started'
           /\ Started /\ Right => Right'
           /\ Started /\ Runs /\ ~ Runs' => Right'
  <2>1. GroupOf[u] \in Groups /\ TurnLength(GroupOf[u])' = TurnLength(GroupOf[u])
    BY DEF EndlessLoops, TurnLength, quant_multip
  <2> QED  BY <2>1, TurnsStep
<1> QED
  BY <1>1, <1>2, <1>3, EndlessLoopsInvariance, PTL DEF SpecTest, RunsAgain, Settled

\* If there are processes of every group and each of them runs again and
\* again, the turns of all groups have their lengths from some time on.
THEOREM TurnsSettle ==
  ASSUME EndlessLoops, \A g \in Groups : \E u \in Users : GroupOf[u] = g
  PROVE  SpecTest /\ EveryoneRuns => TurnLengths
<1>1. PICK a \in Users, b \in Users, c \in Users :
        GroupOf[a] = 0 /\ GroupOf[b] = 1 /\ GroupOf[c] = 2
  BY DEF Groups
<1>2. a # b /\ b # c
  BY <1>1
<1>3. EveryoneRuns => RunsAgain(a) /\ RunsAgain(b) /\ RunsAgain(c)
  BY DEF EveryoneRuns
<1>4. SpecTest /\ RunsAgain(a) /\ RunsAgain(b) => Settled(a)
  BY <1>2, RunningSettles
<1>5. SpecTest /\ RunsAgain(b) /\ RunsAgain(a) => Settled(b)
  BY <1>2, RunningSettles
<1>6. SpecTest /\ RunsAgain(c) /\ RunsAgain(b) => Settled(c)
  BY <1>2, RunningSettles
<1>7. /\ turn[GroupOf[a]] = TurnLength(GroupOf[a])
      /\ turn[GroupOf[b]] = TurnLength(GroupOf[b])
      /\ turn[GroupOf[c]] = TurnLength(GroupOf[c])
      => \A g \in Groups : turn[g] = TurnLength(g)
  BY <1>1 DEF Groups
<1>8. Settled(a) /\ Settled(b) /\ Settled(c) => TurnLengths
  BY <1>7, PTL DEF Settled, TurnLengths
<1> QED
  BY <1>3, <1>4, <1>5, <1>6, <1>8, PTL

\* The claim of koncepcja.md is then wrong for every SCHED_RATE: a turn of
\* group C is one and a half times as long as one of group B.
THEOREM GroupCNotTwiceB ==
  ASSUME EndlessLoops, \A g \in Groups : \E u \in Users : GroupOf[u] = g
  PROVE  SpecTest /\ EveryoneRuns => ~ GroupCTwiceB
<1>1. SchedRate \in Nat \ {0}
  BY SchedulerAssumption
<1>2. TurnLength(1) = 2 * SchedRate /\ TurnLength(2) = 3 * SchedRate
  BY <1>1 DEF TurnLength, quant_multip, Groups
<1>3. (\A g \in Groups : turn[g] = TurnLength(g)) => ~ (turn[2] = 2 * turn[1])
  BY <1>1, <1>2 DEF Groups
<1>4. SpecTest /\ EveryoneRuns => TurnLengths
  BY TurnsSettle
<1> QED
  BY <1>3, <1>4, PTL DEF TurnLengths, GroupCTwiceB

=============================================================================
