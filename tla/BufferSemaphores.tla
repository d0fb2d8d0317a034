-------------------------- MODULE BufferSemaphores ---------------------------
(***************************************************************************)
(* Lab 3: the parity buffer synchronized by five semaphores.  The          *)
(* semaphore mutex guards the buffer and the counters of waiting threads;  *)
(* a thread that finishes an operation either releases mutex or posts the  *)
(* private semaphore of a kind that waits and may run, which hands the     *)
(* critical section over without ever releasing mutex.                     *)
(*                                                                         *)
(* A thread runs through                                                   *)
(*   enter    mutex.p()                                                    *)
(*   check    the condition of its kind; ++numOf<kind>Waiting if it fails  *)
(*   unlock   mutex.v() of a thread about to wait                          *)
(*   blocked  p() on the semaphore of its kind                             *)
(*   woken    --numOf<kind>Waiting                                         *)
(*   act      push_back or pop_front                                       *)
(*   pass     the if-cascade: post a semaphore of another kind or mutex    *)
(* and back to enter.  A step touches one shared object, or several that   *)
(* only the holder of the critical section reads and writes.               *)
(***************************************************************************)
EXTENDS ParityRules

CONSTANTS
  Threads,    \* every thread main could create
  KindOf,     \* the thread function each of them runs
  TestCases   \* the sets of threads that main's test cases create

ASSUME ThreadsAssumption ==
  /\ IsFiniteSet(Threads)
  /\ KindOf \in [Threads -> Kinds]
  /\ TestCases \subseteq SUBSET Threads

VARIABLES
  buffer,
  mutex,      \* value of the semaphore mutex
  sem,        \* value of the private semaphore of each kind
  waiting,    \* numOfProdEvenWaiting, ..., numOfConsOddWaiting
  pc          \* where each thread is; "absent" if main did not create it

vars == <<buffer, mutex, sem, waiting, pc>>

Waiting == {"unlock", "blocked", "woken"}

Inside == {"check", "unlock", "woken", "act", "pass"}

PCs == {"absent", "enter", "blocked"} \cup Inside

Started == {t \in Threads : pc[t] # "absent"}

GoTo(t, place) == pc' = [pc EXCEPT ![t] = place]

Init ==
  /\ buffer \in InitialBuffers
  /\ mutex = 1
  /\ sem = [kind \in Kinds |-> 0]
  /\ waiting = [kind \in Kinds |-> 0]
  /\ \E created \in TestCases :
       pc = [t \in Threads |-> IF t \in created THEN "enter" ELSE "absent"]

Enter(t) ==
  /\ pc[t] = "enter"
  /\ mutex > 0
  /\ mutex' = mutex - 1
  /\ GoTo(t, "check")
  /\ UNCHANGED <<buffer, sem, waiting>>

CheckPasses(t) ==
  /\ pc[t] = "check"
  /\ Can(KindOf[t], buffer)
  /\ GoTo(t, "act")
  /\ UNCHANGED <<buffer, mutex, sem, waiting>>

CheckFails(t) ==
  /\ pc[t] = "check"
  /\ ~ Can(KindOf[t], buffer)
  /\ waiting' = [waiting EXCEPT ![KindOf[t]] = @ + 1]
  /\ GoTo(t, "unlock")
  /\ UNCHANGED <<buffer, mutex, sem>>

\* A faulty variant: mutex.v() is forgotten.
UnlockForgotten(t) ==
  /\ pc[t] = "unlock"
  /\ GoTo(t, "blocked")
  /\ UNCHANGED <<buffer, mutex, sem, waiting>>

Unlock(t) ==
  /\ pc[t] = "unlock"
  /\ mutex' = mutex + 1
  /\ GoTo(t, "blocked")
  /\ UNCHANGED <<buffer, sem, waiting>>

Wake(t) ==
  /\ pc[t] = "blocked"
  /\ sem[KindOf[t]] > 0
  /\ sem' = [sem EXCEPT ![KindOf[t]] = @ - 1]
  /\ GoTo(t, "woken")
  /\ UNCHANGED <<buffer, mutex, waiting>>

\* A faulty variant: --numOf<kind>Waiting is forgotten.
CountDownForgotten(t) ==
  /\ pc[t] = "woken"
  /\ GoTo(t, "act")
  /\ UNCHANGED <<buffer, mutex, sem, waiting>>

CountDown(t) ==
  /\ pc[t] = "woken"
  /\ waiting' = [waiting EXCEPT ![KindOf[t]] = @ - 1]
  /\ GoTo(t, "act")
  /\ UNCHANGED <<buffer, mutex, sem>>

\* The code does not look at its condition again after a wait.
Act(t) ==
  /\ pc[t] = "act"
  /\ buffer' = Operate(KindOf[t], buffer)
  /\ GoTo(t, "pass")
  /\ UNCHANGED <<mutex, sem, waiting>>

\* Faulty variants: the cascade has no branch for consOdd, does not ask
\* whether anyone waits, does not ask whether prodEven may run.
WakeableNotConsOdd(kind) ==
  {k \in Kinds \ {kind, "consOdd"} : waiting[k] > 0 /\ Can(k, buffer)}

WakeableUncounted(kind) == {k \in Kinds \ {kind} : Can(k, buffer)}

WakeableUnchecked(kind) ==
  {k \in Kinds \ {kind} :
     waiting[k] > 0 /\ (k = "prodEven" \/ Can(k, buffer))}

\* The kinds a thread of this kind may hand the critical section to: the
\* cascade leaves its own kind out.
Wakeable(kind) ==
  {k \in Kinds \ {kind} : waiting[k] > 0 /\ Can(k, buffer)}

Chosen(kind) ==
  CHOOSE k \in Wakeable(kind) :
    \A other \in Wakeable(kind) : Rank[k] <= Rank[other]

HandOver(t) ==
  /\ pc[t] = "pass"
  /\ Wakeable(KindOf[t]) # {}
  /\ sem' = [sem EXCEPT ![Chosen(KindOf[t])] = @ + 1]
  /\ GoTo(t, "enter")
  /\ UNCHANGED <<buffer, mutex, waiting>>

Release(t) ==
  /\ pc[t] = "pass"
  /\ Wakeable(KindOf[t]) = {}
  /\ mutex' = mutex + 1
  /\ GoTo(t, "enter")
  /\ UNCHANGED <<buffer, sem, waiting>>

Step(t) ==
  \/ Enter(t)
  \/ CheckPasses(t)
  \/ CheckFails(t)
  \/ Unlock(t)
  \/ Wake(t)
  \/ CountDown(t)
  \/ Act(t)
  \/ HandOver(t)
  \/ Release(t)

Next == \E t \in Threads : Step(t)

Spec == Init /\ [][Next]_vars

\* Every thread that can take a step forever takes one: the scheduler runs
\* each of them, and no more is promised about who wins a contended p().
LiveSpec == Spec /\ \A t \in Threads : WF_vars(Step(t))

-----------------------------------------------------------------------------
(* Properties *)

\* The five semaphores are binary and the counters count.
TypeOK ==
  /\ buffer \in Seq(Parity)
  /\ mutex \in {0, 1}
  /\ sem \in [Kinds -> {0, 1}]
  /\ waiting \in [Kinds -> Nat]
  /\ pc \in [Threads -> PCs]

InsideThreads == {t \in Threads : pc[t] \in Inside}

WaitingThreads(kind) ==
  {t \in Threads : KindOf[t] = kind /\ pc[t] \in Waiting}

\* The right to touch the buffer exists exactly once: it is in mutex, in
\* one private semaphore (between the v() of a hand-over and the p() that
\* takes it), or with one thread.  Mutual exclusion is its last part; its
\* first part is that the right is never lost.
OneBaton ==
  /\ mutex = 1 \/ (\E kind \in Kinds : sem[kind] = 1) \/ InsideThreads # {}
  /\ mutex = 1 => InsideThreads = {} /\ \A kind \in Kinds : sem[kind] = 0
  /\ \A kind \in Kinds : sem[kind] = 1 =>
       InsideThreads = {} /\ \A other \in Kinds \ {kind} : sem[other] = 0
  /\ \A t, u \in InsideThreads : t = u

\* The counters are exact, so an unsigned one never wraps below 0 and the
\* cascade never posts a semaphore that nobody waits for.
WaitingExact ==
  \A kind \in Kinds : waiting[kind] = Cardinality(WaitingThreads(kind))

\* A private semaphore is posted for a thread that waits and may run now:
\* the woken thread may skip the check that it skips.
PostedForReadyWaiter ==
  \A kind \in Kinds : sem[kind] = 1 =>
    /\ Can(kind, buffer)
    /\ \E t \in Threads : KindOf[t] = kind /\ pc[t] = "blocked"

\* When the mutex is free, a thread that waits although it could run has a
\* colleague of its own kind that is about to enter.  With one thread per
\* kind no thread that could run is left waiting at all.
NoLostWakeup ==
  mutex = 1 =>
    \A kind \in Kinds : waiting[kind] > 0 /\ Can(kind, buffer) =>
      \E t \in Threads : KindOf[t] = kind /\ pc[t] = "enter"

Stuck(t) ==
  \/ pc[t] = "enter" /\ mutex = 0
  \/ pc[t] = "blocked" /\ sem[KindOf[t]] = 0

\* If every thread is stuck then no thread could run on this buffer: the
\* test cases with some kinds only stop when they have nothing left to do,
\* and those with threads of every kind (cases 9 and 10) never stop.
HaltsOnlyWhenDone ==
  (\A t \in Started : Stuck(t)) =>
    /\ \A t \in Started : ~ Can(KindOf[t], buffer)
    /\ \E kind \in Kinds : \A t \in Started : KindOf[t] # kind

\* The buffer does not outgrow what its first content and the producers'
\* conditions allow, although no length is ever tested.
BufferBounded ==
  /\ EvenCount(buffer) <= EvenBound
  /\ OddCount(buffer) <= EvenBound

StartedOf(kind) == {t \in Started : KindOf[t] = kind}

Abstract == INSTANCE ParityBuffer

\* The program implements the atomic parity buffer: no operation happens
\* on a buffer that does not satisfy its condition.
RefinesParityBuffer == Abstract!Spec

\* With one thread per kind (test case 9) a waiting thread that could run
\* does run, unless an earlier operation takes its condition away: chains
\* of hand-overs do not pass it by for ever.
ReadyWaiterServed ==
  \A kind \in Kinds :
    (/\ \A k \in Kinds : Cardinality(StartedOf(k)) = 1
     /\ Can(kind, buffer)
     /\ \E t \in StartedOf(kind) : pc[t] = "blocked")
      ~> (Can(kind, buffer) => \E t \in StartedOf(kind) : pc[t] = "act")

=============================================================================
