------------------------------ MODULE ProcessTree ------------------------------
(***************************************************************************)
(* Lab 1: the table of processes of MM, in which slots are freed and used  *)
(* again.  The counting of DescendantCounts recurses over mp_parent; it is *)
(* right only as long as the table is a tree.                              *)
(*                                                                         *)
(* fork, exit and wait of MM are not in the repository; they are modelled  *)
(* as far as do_svrctl, which simulates an exit, shows them.  The pid of a *)
(* process is its slot here.                                               *)
(***************************************************************************)
EXTENDS Integers, FiniteSetsExt

CONSTANT NR_PROCS

MM_PROC_NR   == 0
FS_PROC_NR   == 1
INIT_PROC_NR == 2

ASSUME ProcsAssumption == NR_PROCS \in Nat /\ NR_PROCS > INIT_PROC_NR

Slots == 0..(NR_PROCS - 1)

VARIABLES
  state,     \* mp_flags: IN_USE is "alive" or "hanging", which has exited
  parent,    \* mp_parent
  waitsFor   \* children that a WAITING process waits for (mp_wpid)

vars == <<state, parent, waitsFor>>

InUse(p) == state[p] # "free"

Waits(p) == waitsFor[p] # {}

\* The servers, and processes that became like them.
IsServer(p) == p # INIT_PROC_NR /\ (p = MM_PROC_NR \/ parent[p] = MM_PROC_NR)

Init ==
  /\ state = [p \in Slots |-> IF p <= INIT_PROC_NR THEN "alive" ELSE "free"]
  /\ parent = [p \in Slots |-> MM_PROC_NR]
  /\ waitsFor = [p \in Slots |-> {}]

Children(p) == {i \in Slots : InUse(i) /\ i # p /\ parent[i] = p}

-----------------------------------------------------------------------------
(* Steps of processes *)

CanCall(p) == state[p] = "alive" /\ ~ Waits(p) /\ ~ IsServer(p)

Fork(p, c) ==
  /\ CanCall(p) /\ ~ InUse(c)
  /\ state' = [state EXCEPT ![c] = "alive"]
  /\ parent' = [parent EXCEPT ![c] = p]
  /\ UNCHANGED waitsFor

\* Waiting for any child, or for one or some of them.
Wait(p, accepted) ==
  /\ CanCall(p)
  /\ accepted # {} /\ (accepted = Slots \/ accepted \subseteq Children(p))
  /\ LET found == {c \in Children(p) \cap accepted : state[c] = "hanging"}
     IN  \/ /\ found # {}
            /\ state' = [state EXCEPT ![Min(found)] = "free"]
            /\ UNCHANGED waitsFor
         \/ /\ found = {} /\ Children(p) \cap accepted # {}
            /\ waitsFor' = [waitsFor EXCEPT ![p] = accepted]
            /\ UNCHANGED state
  /\ UNCHANGED parent

\* A faulty variant: children keep their parent.
NotDisinherited(p) == parent

\* The children of p get INIT as their parent.
Disinherited(p) ==
  [c \in Slots |-> IF c \in Children(p) THEN INIT_PROC_NR ELSE parent[c]]

\* p exits or is killed.  It hangs unless its parent waits for it, and INIT,
\* if it waits, gets a hanging child of p.
Exit(p) ==
  /\ state[p] = "alive" /\ ~ IsServer(p) /\ p # INIT_PROC_NR
  /\ LET reaped == p \in waitsFor[parent[p]]
         left   == [waitsFor EXCEPT ![p] = {}, ![parent[p]] = IF reaped THEN {} ELSE @]
         found  == {c \in Children(p) : state[c] = "hanging" /\ c \in left[INIT_PROC_NR]}
     IN  /\ state' = [c \in Slots |->
               IF c = p THEN IF reaped THEN "free" ELSE "hanging"
               ELSE IF found # {} /\ c = Min(found) THEN "free" ELSE state[c]]
         /\ waitsFor' = [left EXCEPT ![INIT_PROC_NR] = IF found # {} THEN {} ELSE @]
  /\ parent' = Disinherited(p)

\* A faulty variant: the parent that waits is not released.
SignOnUnreleased(p) ==
  /\ CanCall(p) /\ p # INIT_PROC_NR
  /\ parent' = [Disinherited(p) EXCEPT ![p] = MM_PROC_NR]
  /\ UNCHANGED <<state, waitsFor>>

\* do_svrctl with MMSIGNON: p becomes a server; its parent is told that it
\* has exited.
SignOn(p) ==
  /\ CanCall(p) /\ p # INIT_PROC_NR
  /\ waitsFor' = [waitsFor EXCEPT ![parent[p]] = IF p \in @ THEN {} ELSE @]
  /\ parent' = [Disinherited(p) EXCEPT ![p] = MM_PROC_NR]
  /\ UNCHANGED state

Next ==
  \/ \E p, c \in Slots : Fork(p, c)
  \/ \E p \in Slots, accepted \in SUBSET Slots : Wait(p, accepted)
  \/ \E p \in Slots : Exit(p) \/ SignOn(p)

Spec == Init /\ [][Next]_vars

-----------------------------------------------------------------------------
(* Properties *)

\* The table is a tree below MM: whoever goes from parent to parent gets to
\* MM, because no other processes are closed under it, although slots of dead
\* processes are used again; so the recursion of the counting ends.  Nobody
\* is the child of a dead process.
IsTree ==
  /\ \A p \in Slots : InUse(p) => state[parent[p]] = "alive"
  /\ \A S \in (SUBSET Slots) \ {{}} :
       (\A p \in S : InUse(p) /\ parent[p] \in S) => MM_PROC_NR \in S

\* A process other than INIT waits only while a child that it waits for is
\* alive and none has exited: each exit and each sign-on releases the parent.
\* (INIT may adopt a child that hangs while it waits; do_svrctl does not
\* look for that.)
WaitersServed ==
  \A p \in Slots \ {INIT_PROC_NR} : Waits(p) =>
    LET awaited == Children(p) \cap waitsFor[p]
    IN  awaited # {} /\ \A c \in awaited : state[c] = "alive"

=============================================================================
