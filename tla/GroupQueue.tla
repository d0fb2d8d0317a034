------------------------------ MODULE GroupQueue ------------------------------
(***************************************************************************)
(* Lab 2: the order in which runnable user processes get the processor.    *)
(* A queue is a sequence of slots, the one to run first in front; every    *)
(* slot belongs to one of three groups.                                    *)
(***************************************************************************)
EXTENDS Integers, Sequences

CONSTANTS
  Users,     \* slots of user processes
  InitProc   \* the slot of INIT, the only one in use when main ends

ASSUME InitProcAssumption == InitProc \in Users

Groups == 0..2  \* A, B and C

Members(q) == {q[i] : i \in DOMAIN q}

QueuedOnce(q) == \A i, j \in DOMAIN q : q[i] = q[j] => i = j

\* ready: a user process goes to the front of the queue.
AtFront(q, u) == <<u>> \o q

\* unready: it is taken out wherever it is.
Position(q, u) == CHOOSE i \in DOMAIN q : q[i] = u

Without(q, u) ==
  IF u \in Members(q)
  THEN [j \in 1..(Len(q) - 1) |-> q[IF j < Position(q, u) THEN j ELSE j + 1]]
  ELSE q

\* The group that gets its turn after group g: the next one, cyclically,
\* of which a process is queued.
NextGroup(q, grp, g) ==
  CHOOSE h \in Groups :
    /\ \E u \in Members(q) : grp[u] = h
    /\ \A v \in Members(q) : (h - g - 1) % 3 <= (grp[v] - g - 1) % 3

FirstOf(q, grp, g) ==
  q[CHOOSE i \in DOMAIN q :
      /\ grp[q[i]] = g
      /\ \A j \in 1..(i - 1) : grp[q[j]] # g]

\* A faulty variant: the plain round robin of the system before lab 2.
ScheduledRoundRobin(q, grp) ==
  IF q = << >> THEN q ELSE Append(Tail(q), Head(q))

\* A faulty variant: the search starts at the group of the old head.
ScheduledSameGroup(q, grp) ==
  IF q = << >> THEN q
  ELSE LET rotated == Append(Tail(q), Head(q))
           new     == FirstOf(rotated, grp, grp[Head(q)])
       IN  AtFront(Without(rotated, new), new)

\* sched: the head goes to the end, and the first process of the group
\* whose turn it is to the front.
Scheduled(q, grp) ==
  IF q = << >> THEN q
  ELSE LET rotated == Append(Tail(q), Head(q))
           turn    == NextGroup(rotated, grp, grp[Head(q)])
           new     == FirstOf(rotated, grp, turn)
       IN  AtFront(Without(rotated, new), new)

=============================================================================
