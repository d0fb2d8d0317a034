------------------------------ MODULE UserQueue -------------------------------
(***************************************************************************)
(* What the operations on the queue of runnable user processes promise:    *)
(* ready and unready insert and remove one process, sched changes the      *)
(* order only, and a process that is not queued is never run.              *)
(***************************************************************************)
EXTENDS GroupQueue

VARIABLES
  queue,  \* the runnable user processes, the one to run first in front
  group   \* proc.group of every slot

vars == <<queue, group>>

Init ==
  /\ queue = <<InitProc>>
  /\ group = [u \in Users |-> 0]

Ready(u) ==
  /\ u \notin Members(queue)
  /\ queue' = AtFront(queue, u)
  /\ UNCHANGED group

Unready(u) ==
  /\ u \in Members(queue)
  /\ queue' = Without(queue, u)
  /\ UNCHANGED group

Sched ==
  /\ queue' = Scheduled(queue, group)
  /\ UNCHANGED group

SetGroup(u, g) ==
  /\ group' = [group EXCEPT ![u] = g]
  /\ UNCHANGED queue

Next ==
  \/ Sched
  \/ \E u \in Users : Ready(u) \/ Unready(u)
  \/ \E u \in Users, g \in Groups : SetGroup(u, g)

Spec == Init /\ [][Next]_vars

=============================================================================
