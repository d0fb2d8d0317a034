------------------------------ MODULE ReadyList -------------------------------
(***************************************************************************)
(* Lab 2: USER_Q of proc.c as the singly linked list it is, threaded       *)
(* through proc.p_nextready between rdy_head and rdy_tail.  Pointers of    *)
(* processes that leave the list, and rdy_tail when the list becomes       *)
(* empty, keep their stale values, as in the code.  The operations run     *)
(* with switching set (or inside the kernel), so each is one step.         *)
(***************************************************************************)
EXTENDS GroupQueue, FiniteSets

CONSTANT NIL  \* NIL_PROC

ASSUME NilAssumption == NIL \notin Users /\ IsFiniteSet(Users)

VARIABLES
  head,    \* rdy_head[USER_Q]
  tail,    \* rdy_tail[USER_Q]
  next,    \* proc.p_nextready
  group,   \* proc.group
  state    \* "runnable" is p_flags == 0, "free" is PPRI_NONE

vars == <<head, tail, next, group, state>>

States == {"free", "blocked", "runnable"}

Init ==
  /\ head = InitProc
  /\ tail = InitProc
  /\ next = [u \in Users |-> NIL]
  /\ group = [u \in Users |-> 0]
  /\ state = [u \in Users |-> IF u = InitProc THEN "runnable" ELSE "free"]

Mark(u, s) == state' = [state EXCEPT ![u] = s]

Link(u) ==
  /\ head' = u
  /\ tail' = IF head = NIL THEN u ELSE tail
  /\ next' = [next EXCEPT ![u] = head]

List == [head |-> head, tail |-> tail, next |-> next]

\* The pointers that are read one after the other from the head of l on.
Pointers(l) ==
  LET p[k \in 0..Cardinality(Users)] ==
        IF k = 0 THEN l.head ELSE IF p[k - 1] = NIL THEN NIL ELSE l.next[p[k - 1]]
  IN  p

\* The processes of l in their order; one too many if l does not end.
ChainOf(l) ==
  LET p == Pointers(l)
  IN  [i \in 1..Cardinality({k \in DOMAIN p : p[k] # NIL}) |-> p[i - 1]]

\* The process at which a search from the head of l on ends.
Search(l, ends) ==
  LET q == ChainOf(l)
  IN  q[CHOOSE i \in DOMAIN q : q[i] \in ends /\ \A j \in 1..(i - 1) : q[j] \notin ends]

\* The last process before u, or before the end.
Before(u) == Search(List, {v \in Users : next[v] \in {u, NIL}})

Unlink(u) ==
  \/ /\ head = u
     /\ head' = next[u]
     /\ UNCHANGED <<tail, next>>
  \/ /\ head \notin {NIL, u} /\ next[Before(u)] = u
     /\ next' = [next EXCEPT ![Before(u)] = next[u]]
     /\ tail' = IF tail = u THEN Before(u) ELSE tail
     /\ UNCHANGED head
  \/ /\ head = NIL \/ (head # u /\ next[Before(u)] # u)
     /\ UNCHANGED <<head, tail, next>>

\* Any of the calls of ready for a user process, lock_ready included.
Ready(u) ==
  /\ state[u] = "blocked"
  /\ Link(u)
  /\ Mark(u, "runnable")
  /\ UNCHANGED group

\* Any of the calls of unready for a user process, lock_unready included.
Unready(u) ==
  /\ state[u] = "runnable"
  /\ Unlink(u)
  /\ Mark(u, "blocked")
  /\ UNCHANGED group

\* The list after sched has moved its head to the end.
Rotated ==
  LET ring == [next EXCEPT ![tail] = head]
  IN  [head |-> ring[head],
       tail |-> head,
       next |-> [ring EXCEPT ![head] = NIL]]

\* The last process before one of group g, or before the end.
Stop(l, g) ==
  Search(l, {v \in Users : l.next[v] = NIL \/ group[l.next[v]] = g})

\* The process after before moves to the front.
Promote(l, before) ==
  LET new == l.next[before]
  IN  [head |-> new,
       tail |-> IF l.tail = new THEN before ELSE l.tail,
       next |-> [l.next EXCEPT ![before] = l.next[new], ![new] = l.head]]

\* A faulty variant: only the next group is looked for.
BringGroupOnce(l, g) ==
  IF group[l.head] = g \/ l.next[Stop(l, g)] = NIL THEN l
  ELSE Promote(l, Stop(l, g))

\* The while loop of sched, entered with current_group = g.
BringGroup(l, g) ==
  LET loop[h \in Groups] ==
        IF group[l.head] = h THEN l
        ELSE IF l.next[Stop(l, h)] = NIL THEN loop[(h + 1) % 3]
        ELSE Promote(l, Stop(l, h))
  IN  loop[g]

Sched ==
  /\ head # NIL
  /\ LET list == BringGroup(Rotated, (group[head] + 1) % 3)
     IN  head' = list.head /\ tail' = list.tail /\ next' = list.next
  /\ UNCHANGED <<group, state>>

\* do_setProcGroup, for a process that exists and a group that exists.
SetGroup(u, g) ==
  /\ state[u] # "free"
  /\ group' = [group EXCEPT ![u] = g]
  /\ UNCHANGED <<head, tail, next, state>>

\* do_fork: the child gets a copy of the parent's slot, its stale pointer
\* included, belongs to group A, and stays inhibited until do_newmap.  The
\* parent waits for MM.
Fork(parent, child) ==
  /\ state[parent] = "blocked"
  /\ state[child] = "free"
  /\ next' = [next EXCEPT ![child] = next[parent]]
  /\ group' = [group EXCEPT ![child] = 0]
  /\ Mark(child, "blocked")
  /\ UNCHANGED <<head, tail>>

\* A faulty variant: a process that is killed while runnable stays linked.
ExitStillLinked(u) ==
  /\ u # InitProc
  /\ state[u] # "free"
  /\ Mark(u, "free")
  /\ UNCHANGED <<head, tail, next, group>>

\* do_xit of a process that is blocked, or killed while runnable.
Exit(u) ==
  /\ u # InitProc
  /\ state[u] # "free"
  /\ IF state[u] = "runnable" THEN Unlink(u) ELSE UNCHANGED <<head, tail, next>>
  /\ Mark(u, "free")
  /\ UNCHANGED group

Next ==
  \/ Sched
  \/ \E u \in Users :
       \/ Ready(u)
       \/ Unready(u)
       \/ Exit(u)
       \/ \E g \in Groups : SetGroup(u, g)
       \/ \E child \in Users : Fork(u, child)

Spec == Init /\ [][Next]_vars

-----------------------------------------------------------------------------
(* Properties *)

\* The pointers of the list point to slots or nowhere.
TypeOK ==
  /\ head \in Users \cup {NIL}
  /\ tail \in Users
  /\ next \in [Users -> Users \cup {NIL}]
  /\ group \in [Users -> Groups]
  /\ state \in [Users -> States]

Chain == ChainOf(List)

\* A process is on the list, once, if and only if it is runnable: it is
\* never lost to the scheduler and never runs while it waits.  rdy_tail points to the
\* last process, after which the next rotation appends.
ExactlyRunnable ==
  /\ QueuedOnce(Chain)
  /\ Members(Chain) = {u \in Users : state[u] = "runnable"}
  /\ head # NIL => tail = Chain[Len(Chain)]

Abstract == INSTANCE UserQueue WITH queue <- Chain

\* The list operations implement those on the queue; in particular the
\* loop in sched brings the process to the front that Scheduled names and
\* keeps the order of all others.
RefinesUserQueue == Abstract!Spec

=============================================================================
