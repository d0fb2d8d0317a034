------------------------------ MODULE GroupTurns ------------------------------
(***************************************************************************)
(* Lab 2: the test of the task, test.c: every process of the three groups  *)
(* runs an endless loop, so that only the clock takes the processor away.  *)
(* Two history variables measure the turns of GroupScheduler.              *)
(***************************************************************************)
EXTENDS GroupScheduler, FiniteSets

CONSTANT GroupOf  \* the group each process has asked for

\* What test.c starts: processes that do nothing but run, more than one in
\* all; no slot of theirs is that of the clock task.
EndlessLoops ==
  /\ IsFiniteSet(Users) /\ "CLOCK" \notin Users
  /\ GroupOf \in [Users -> Groups]
  /\ \E u, v \in Users : u # v
  /\ Disturbances = {}

VARIABLES
  used,  \* ticks charged to the running process since its turn began
  turn   \* length of the last turn of each group

turnVars == <<vars, used, turn>>

\* All processes have called setProcGroup and are ready, in any order; a
\* quantum is running and any of them was seen by the clock last.
InitTest ==
  /\ queue \in {q \in [1..Cardinality(Users) -> Users] : Members(q) = Users}
  /\ group = GroupOf
  /\ free = {}
  /\ system = FALSE
  /\ clock = "receive"
  /\ reg = 0
  /\ intBlocked = FALSE /\ intHeld = FALSE /\ callers = FALSE
  /\ bill = Head(queue)
  /\ prev \in Users
  /\ schedTicks \in 1..SchedRate
  /\ used = 0
  /\ turn = [g \in Groups |-> 0]

\* clock_handler adds the tick to user_time of the running process.  The
\* clock task is done long before the next tick: that a tick comes while
\* it runs is left to the other runs.
TickCharged ==
  /\ clock = "receive"
  /\ Tick(FALSE)
  /\ used' = IF ProcPtr \in Users THEN used + 1 ELSE used
  /\ UNCHANGED turn

TurnEnds ==
  /\ SchedEnds
  /\ turn' = [turn EXCEPT ![group[Head(queue)]] = used]
  /\ used' = 0

OtherStep ==
  /\ \/ Load \/ Store \/ Compare \/ Reset \/ SetPrev \/ Receive
  /\ UNCHANGED <<used, turn>>

NextTest == TickCharged \/ TurnEnds \/ OtherStep

\* Time passes and the clock task runs when it is ready.
SpecTest ==
  /\ InitTest
  /\ [][NextTest]_turnVars
  /\ WF_turnVars(NextTest)

-----------------------------------------------------------------------------
(* Properties *)

\* Every process, of whatever group, runs again and again.
RunsAgain(u) == []<>(ProcPtr = u)

EveryoneRuns == \A u \in Users : RunsAgain(u)

\* From some time on a turn of group A or B lasts two quanta and a turn of
\* group C three: the first quantum of a turn is one SCHED_RATE for every
\* group, because do_clocktick asks for the group of the clock task.
TurnLength(g) == SchedRate * (1 + quant_multip[g])

TurnLengths == <>[](\A g \in Groups : turn[g] = TurnLength(g))

\* The claim of koncepcja.md: from some time on group C gets twice as much
\* time as group B.
GroupCTwiceB == <>[](turn[2] = 2 * turn[1])

=============================================================================
