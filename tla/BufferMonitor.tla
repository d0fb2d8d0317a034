---------------------------- MODULE BufferMonitor ----------------------------
(***************************************************************************)
(* Lab 4: the parity buffer as a monitor with four condition variables,    *)
(* built by monitor.h from semaphores: s lets one thread in, each          *)
(* condition has a semaphore w and a count of waiting threads.  A thread   *)
(* that signals hands the monitor to the thread it wakes and queues for s  *)
(* again, only to leave; in lab 3 it would simply go on.                   *)
(*                                                                         *)
(* A thread runs through                                                   *)
(*   enter    Monitor::enter                                               *)
(*   check    the condition of its kind; ++waitingCount if it fails        *)
(*   resign   Monitor::leave of a thread about to wait                     *)
(*   blocked  Condition::wait                                              *)
(*   act      push_back or pop_front                                       *)
(*   signal   the if-cascade with at most one Monitor::signal              *)
(*   reenter  Monitor::enter of a thread that signalled                    *)
(*   leave    Monitor::leave                                               *)
(***************************************************************************)
EXTENDS ParityRules

CONSTANTS
  Threads,    \* every thread main could create
  KindOf,     \* the thread function each of them runs
  TestCases   \* the sets of threads that main's test cases create

ASSUME ThreadsAssumption ==
  /\ IsFiniteSet(Threads)
  /\ KindOf \in [Threads -> Kinds]
  /\ TestCases \subseteq SUBSET Threads

VARIABLES
  buffer,
  s,             \* value of the monitor's entry semaphore
  w,             \* value of the semaphore of each condition
  waitingCount,  \* waitingCount of each condition
  pc             \* where each thread is; "absent" if main did not create it

vars == <<buffer, s, w, waitingCount, pc>>

Inside == {"check", "resign", "act", "signal", "leave"}

PCs == {"absent", "enter", "blocked", "reenter"} \cup Inside

Started == {t \in Threads : pc[t] # "absent"}

\* canPutEven, canPutOdd, canConsEven and canConsOdd
MayRun(kind, b) ==
  \/ kind = "prodEven" /\ EvenCount(b) < MaxEven
  \/ kind = "prodOdd"  /\ EvenCount(b) > Len(b) - EvenCount(b)
  \/ kind = "consEven" /\ FrontIs(b, "even") /\ Len(b) >= MinForEven
  \/ kind = "consOdd"  /\ FrontIs(b, "odd") /\ Len(b) >= MinForOdd

GoTo(t, place) == pc' = [pc EXCEPT ![t] = place]

Init ==
  /\ buffer \in InitialBuffers
  /\ s = 1
  /\ w = [kind \in Kinds |-> 0]
  /\ waitingCount = [kind \in Kinds |-> 0]
  /\ \E created \in TestCases :
       pc = [t \in Threads |-> IF t \in created THEN "enter" ELSE "absent"]

Enter(t) ==
  /\ pc[t] = "enter"
  /\ s > 0
  /\ s' = s - 1
  /\ GoTo(t, "check")
  /\ UNCHANGED <<buffer, w, waitingCount>>

CheckPasses(t) ==
  /\ pc[t] = "check"
  /\ MayRun(KindOf[t], buffer)
  /\ GoTo(t, "act")
  /\ UNCHANGED <<buffer, s, w, waitingCount>>

CheckFails(t) ==
  /\ pc[t] = "check"
  /\ ~ MayRun(KindOf[t], buffer)
  /\ waitingCount' = [waitingCount EXCEPT ![KindOf[t]] = @ + 1]
  /\ GoTo(t, "resign")
  /\ UNCHANGED <<buffer, s, w>>

\* A faulty variant: Monitor::wait does not leave the monitor.
ResignForgotten(t) ==
  /\ pc[t] = "resign"
  /\ GoTo(t, "blocked")
  /\ UNCHANGED <<buffer, s, w, waitingCount>>

Resign(t) ==
  /\ pc[t] = "resign"
  /\ s' = s + 1
  /\ GoTo(t, "blocked")
  /\ UNCHANGED <<buffer, w, waitingCount>>

\* The woken thread is inside the monitor at once and does not look at its
\* condition again.
Wake(t) ==
  /\ pc[t] = "blocked"
  /\ w[KindOf[t]] > 0
  /\ w' = [w EXCEPT ![KindOf[t]] = @ - 1]
  /\ GoTo(t, "act")
  /\ UNCHANGED <<buffer, s, waitingCount>>

Act(t) ==
  /\ pc[t] = "act"
  /\ buffer' = Operate(KindOf[t], buffer)
  /\ GoTo(t, "signal")
  /\ UNCHANGED <<s, w, waitingCount>>

\* Faulty variants: the cascade has no branch for consOdd, or does not ask
\* whether prodEven may run.
WakeableNotConsOdd(kind) ==
  {k \in Kinds \ {kind, "consOdd"} :
     waitingCount[k] > 0 /\ MayRun(k, buffer)}

WakeableUnchecked(kind) ==
  {k \in Kinds \ {kind} :
     waitingCount[k] > 0 /\ (k = "prodEven" \/ MayRun(k, buffer))}

Wakeable(kind) ==
  {k \in Kinds \ {kind} : waitingCount[k] > 0 /\ MayRun(k, buffer)}

Chosen(kind) ==
  CHOOSE k \in Wakeable(kind) :
    \A other \in Wakeable(kind) : Rank[k] <= Rank[other]

\* Faulty variants: Condition::signal does not count the thread down, or
\* the signalling thread stays in the monitor.
SignalUncounted(t) ==
  /\ pc[t] = "signal"
  /\ Wakeable(KindOf[t]) # {}
  /\ w' = [w EXCEPT ![Chosen(KindOf[t])] = @ + 1]
  /\ GoTo(t, "reenter")
  /\ UNCHANGED <<buffer, s, waitingCount>>

SignalAndStay(t) ==
  /\ pc[t] = "signal"
  /\ Wakeable(KindOf[t]) # {}
  /\ waitingCount' = [waitingCount EXCEPT ![Chosen(KindOf[t])] = @ - 1]
  /\ w' = [w EXCEPT ![Chosen(KindOf[t])] = @ + 1]
  /\ GoTo(t, "leave")
  /\ UNCHANGED <<buffer, s>>

\* Condition::signal counts the waiting thread down before it posts.
Signal(t) ==
  /\ pc[t] = "signal"
  /\ Wakeable(KindOf[t]) # {}
  /\ waitingCount' = [waitingCount EXCEPT ![Chosen(KindOf[t])] = @ - 1]
  /\ w' = [w EXCEPT ![Chosen(KindOf[t])] = @ + 1]
  /\ GoTo(t, "reenter")
  /\ UNCHANGED <<buffer, s>>

NoSignal(t) ==
  /\ pc[t] = "signal"
  /\ Wakeable(KindOf[t]) = {}
  /\ GoTo(t, "leave")
  /\ UNCHANGED <<buffer, s, w, waitingCount>>

Reenter(t) ==
  /\ pc[t] = "reenter"
  /\ s > 0
  /\ s' = s - 1
  /\ GoTo(t, "leave")
  /\ UNCHANGED <<buffer, w, waitingCount>>

Leave(t) ==
  /\ pc[t] = "leave"
  /\ s' = s + 1
  /\ GoTo(t, "enter")
  /\ UNCHANGED <<buffer, w, waitingCount>>

Step(t) ==
  \/ Enter(t)
  \/ CheckPasses(t)
  \/ CheckFails(t)
  \/ Resign(t)
  \/ Wake(t)
  \/ Act(t)
  \/ Signal(t)
  \/ NoSignal(t)
  \/ Reenter(t)
  \/ Leave(t)

Next == \E t \in Threads : Step(t)

Spec == Init /\ [][Next]_vars

LiveSpec == Spec /\ \A t \in Threads : WF_vars(Step(t))

-----------------------------------------------------------------------------
(* Properties *)

\* The semaphores are binary and no counter goes below 0.
TypeOK ==
  /\ buffer \in Seq(Parity)
  /\ s \in {0, 1}
  /\ w \in [Kinds -> {0, 1}]
  /\ waitingCount \in [Kinds -> Nat]
  /\ pc \in [Threads -> PCs]

InsideThreads == {t \in Threads : pc[t] \in Inside}

\* The right to be in the monitor exists exactly once: free in s, on its
\* way to a signalled thread in one w, or held by one thread.
OneOwner ==
  /\ s = 1 \/ (\E kind \in Kinds : w[kind] = 1) \/ InsideThreads # {}
  /\ s = 1 => InsideThreads = {} /\ \A kind \in Kinds : w[kind] = 0
  /\ \A kind \in Kinds : w[kind] = 1 =>
       InsideThreads = {} /\ \A other \in Kinds \ {kind} : w[other] = 0
  /\ \A t, u \in InsideThreads : t = u

WaitingThreads(kind) ==
  {t \in Threads : KindOf[t] = kind /\ pc[t] \in {"resign", "blocked"}}

\* Every waiting thread is either still counted or has a signal under way:
\* no signal is given twice to the same waiting thread or given to nobody.
WaitersAccounted ==
  \A kind \in Kinds :
    waitingCount[kind] + w[kind] = Cardinality(WaitingThreads(kind))

\* When the monitor is free, a thread that waits although it could run has
\* a colleague of its own kind that is outside the monitor.
NoLostSignal ==
  s = 1 =>
    \A kind \in Kinds : waitingCount[kind] > 0 /\ MayRun(kind, buffer) =>
      \E t \in Threads : KindOf[t] = kind /\ pc[t] \in {"enter", "reenter"}

Stuck(t) ==
  \/ pc[t] \in {"enter", "reenter"} /\ s = 0
  \/ pc[t] = "blocked" /\ w[KindOf[t]] = 0

\* If every thread is stuck then no thread could run on this buffer, and
\* with threads of every kind that never comes to pass.
HaltsOnlyWhenDone ==
  (\A t \in Started : Stuck(t)) =>
    /\ \A t \in Started : ~ MayRun(KindOf[t], buffer)
    /\ \E kind \in Kinds : \A t \in Started : KindOf[t] # kind

StartedOf(kind) == {t \in Started : KindOf[t] = kind}

Abstract == INSTANCE ParityBuffer

\* The monitor implements the atomic parity buffer although a woken thread
\* does not test its condition again.
RefinesParityBuffer == Abstract!Spec

\* With one thread per kind (test case 9) a waiting thread that could run
\* does run, unless an earlier operation takes its condition away.
ReadyWaiterServed ==
  \A kind \in Kinds :
    (/\ \A k \in Kinds : Cardinality(StartedOf(k)) = 1
     /\ MayRun(kind, buffer)
     /\ \E t \in StartedOf(kind) : pc[t] = "blocked")
      ~> (MayRun(kind, buffer) => \E t \in StartedOf(kind) : pc[t] = "act")

=============================================================================
