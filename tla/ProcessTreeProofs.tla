---------------------------- MODULE ProcessTreeProofs ----------------------------
(***************************************************************************)
(* The table of processes of lab 1 is a tree, and whoever waits is served, *)
(* for tables of any size and any history of forks, waits, exits and       *)
(* sign-ons.                                                               *)
(***************************************************************************)
EXTENDS ProcessTree, WellFoundedInduction, TLAPS

-----------------------------------------------------------------------------
(* The inductive invariant *)

Types ==
  /\ state \in [Slots -> {"free", "alive", "hanging"}]
  /\ parent \in [Slots -> Slots]
  /\ waitsFor \in [Slots -> SUBSET Slots]

\* MM is its own parent and that of INIT; neither of them ends.
Roots ==
  /\ state[MM_PROC_NR] = "alive" /\ state[INIT_PROC_NR] = "alive"
  /\ parent[MM_PROC_NR] = MM_PROC_NR /\ parent[INIT_PROC_NR] = MM_PROC_NR

\* Who waits lives and is no server.
WaitersLive == \A p \in Slots : Waits(p) => state[p] = "alive" /\ ~ IsServer(p)

IInv ==
  /\ Types
  /\ Roots
  /\ IsTree
  /\ WaitersLive
  /\ WaitersServed

\* Slots are numbers; those of MM and INIT are different.
LEMMA SlotsAre ==
  /\ Slots \subseteq Nat
  /\ MM_PROC_NR \in Slots /\ INIT_PROC_NR \in Slots
  /\ MM_PROC_NR # INIT_PROC_NR
BY ProcsAssumption DEF Slots, MM_PROC_NR, INIT_PROC_NR

\* The first of some slots is one of them.
LEMMA FirstFound ==
  ASSUME NEW T \in SUBSET Slots, T # {}
  PROVE  Min(T) \in T
<1>1. \E m \in T : \A j \in T : ~ (<<j, m>> \in OpToRel(<, Nat))
  BY SlotsAre, NatLessThanWellFounded, WFMin
<1>2. \A j, m \in T : j < m => <<j, m>> \in OpToRel(<, Nat)
  BY SlotsAre DEF OpToRel
<1>3. PICK m \in T : \A j \in T : ~ (<<j, m>> \in OpToRel(<, Nat))
  BY <1>1
<1>4. \A j \in T : ~ (j < m)
  BY <1>2, <1>3
<1>5. \A j \in T : j \in Nat /\ m \in Nat
  BY SlotsAre
<1>6. \A j \in T : m <= j
  BY <1>4, <1>5
<1> QED  BY <1>6 DEF Min

\* The table as main leaves it.
LEMMA Initially == Init => IInv
<1> SUFFICES ASSUME Init
             PROVE  IInv
  OBVIOUS
<1>1. /\ state = [p \in Slots |-> IF p <= INIT_PROC_NR THEN "alive" ELSE "free"]
      /\ parent = [p \in Slots |-> MM_PROC_NR]
      /\ waitsFor = [p \in Slots |-> {}]
  BY DEF Init
<1>2. Types
  BY <1>1, SlotsAre DEF Types
<1>3. Roots
  BY <1>1, SlotsAre DEF Roots, MM_PROC_NR, INIT_PROC_NR
<1>4. IsTree
  <2>1. \A p \in Slots : parent[p] = MM_PROC_NR /\ state[parent[p]] = "alive"
    BY <1>1, <1>3, SlotsAre DEF Roots
  <2>2. ASSUME NEW S \in (SUBSET Slots) \ {{}}, \A p \in S : parent[p] \in S
        PROVE  MM_PROC_NR \in S
    <3>1. PICK p \in S : p \in Slots
      BY <2>2
    <3> QED  BY <2>1, <2>2, <3>1
  <2> QED  BY <2>1, <2>2 DEF IsTree
<1>5. WaitersLive /\ WaitersServed
  BY <1>1 DEF WaitersLive, WaitersServed, Waits
<1> QED  BY <1>2, <1>3, <1>4, <1>5 DEF IInv

-----------------------------------------------------------------------------
(* The steps *)

\* A child is the only new process; its parent does not wait.
LEMMA ForkStep ==
  ASSUME IInv, NEW p \in Slots, NEW c \in Slots, Fork(p, c)
  PROVE  IInv'
<1>1. /\ Types /\ Roots /\ IsTree /\ WaitersLive /\ WaitersServed
  BY DEF IInv
<1>2. /\ state[p] = "alive" /\ waitsFor[p] = {} /\ ~ IsServer(p) /\ state[c] = "free"
      /\ state' = [state EXCEPT ![c] = "alive"]
      /\ parent' = [parent EXCEPT ![c] = p]
      /\ waitsFor' = waitsFor
  BY DEF Fork, CanCall, InUse, Waits
<1>3. \A q \in Slots : /\ state'[q] = IF q = c THEN "alive" ELSE state[q]
                       /\ parent'[q] = IF q = c THEN p ELSE parent[q]
  BY <1>1, <1>2 DEF Types
<1>4. Types'
  BY <1>1, <1>2 DEF Types
<1>5. Roots'
  BY <1>1, <1>2, <1>3, SlotsAre DEF Roots
<1>6. \A q \in Slots : InUse(q) => parent[q] # c
  BY <1>1, <1>2 DEF IsTree
<1>7. IsTree'
  <2>1. ASSUME NEW q \in Slots, InUse(q)'
        PROVE  state'[parent'[q]] = "alive"
    <3>1. CASE q = c
      BY <1>2, <1>3, <3>1
    <3>2. CASE q # c
      <4>1. InUse(q) /\ parent'[q] = parent[q] /\ parent[q] \in Slots
        BY <1>1, <1>3, <2>1, <3>2 DEF InUse, Types
      <4> QED  BY <1>1, <1>3, <4>1 DEF IsTree
    <3> QED  BY <3>1, <3>2
  <2>2. ASSUME NEW S \in (SUBSET Slots) \ {{}}, \A q \in S : InUse(q)' /\ parent'[q] \in S
        PROVE  MM_PROC_NR \in S
    <3> DEFINE T == S \ {c}
    <3>1. T # {}
      <4>1. p # c /\ (c \in S => p \in S)
        BY <1>2, <1>3, <2>2
      <4> QED  BY <4>1
    <3>2. \A q \in T : InUse(q) /\ parent[q] \in T
      BY <1>3, <1>6, <2>2 DEF InUse
    <3> QED  BY <1>1, <3>1, <3>2 DEF IsTree
  <2> QED  BY <2>1, <2>2 DEF IsTree
<1>8. WaitersLive'
  <2> SUFFICES ASSUME NEW w \in Slots, waitsFor[w] # {}
               PROVE  (state[w] = "alive" /\ ~ IsServer(w))'
    BY <1>2 DEF WaitersLive, Waits
  <2>1. state[w] = "alive" /\ ~ IsServer(w) /\ w # c
    BY <1>1, <1>2 DEF WaitersLive, Waits
  <2> QED  BY <1>3, <2>1 DEF IsServer
<1>9. WaitersServed'
  <2> SUFFICES ASSUME NEW w \in Slots \ {INIT_PROC_NR}, waitsFor[w] # {}
               PROVE  /\ (Children(w) \cap waitsFor[w])' # {}
                      /\ \A q \in (Children(w) \cap waitsFor[w])' : state'[q] = "alive"
    BY <1>2 DEF WaitersServed, Waits
  <2>1. w # p
    BY <1>2
  <2>2. Children(w)' = Children(w)
    BY <1>2, <1>3, <2>1 DEF Children, InUse
  <2>3. /\ Children(w) \cap waitsFor[w] # {}
        /\ \A q \in Children(w) \cap waitsFor[w] : state[q] = "alive"
    BY <1>1 DEF WaitersServed, Waits
  <2>4. \A q \in Children(w) : q \in Slots /\ q # c
    BY <1>2 DEF Children, InUse
  <2> QED  BY <1>2, <1>3, <2>2, <2>3, <2>4
<1> QED  BY <1>4, <1>5, <1>7, <1>8, <1>9 DEF IInv

\* Of two that wait for each other's exit one has exited already: the parent
\* takes it, or waits for others only.
LEMMA WaitStep ==
  ASSUME IInv, NEW p \in Slots, NEW accepted \in SUBSET Slots, Wait(p, accepted)
  PROVE  IInv'
<1> DEFINE found == {c \in Children(p) \cap accepted : state[c] = "hanging"}
<1>1. /\ Types /\ Roots /\ IsTree /\ WaitersLive /\ WaitersServed
  BY DEF IInv
<1>2. /\ state[p] = "alive" /\ waitsFor[p] = {} /\ ~ IsServer(p)
      /\ parent' = parent
  BY DEF Wait, CanCall, Waits
<1>3. CASE found # {} /\ state' = [state EXCEPT ![Min(found)] = "free"] /\ waitsFor' = waitsFor
  <2> DEFINE c == Min(found)
  <2>1. c \in Slots /\ c \in Children(p) /\ state[c] = "hanging"
    <3>1. found \in SUBSET Slots
      OBVIOUS
    <3>2. c \in found
      BY <1>3, <3>1, FirstFound
    <3> QED  BY <3>2
  <2> HIDE DEF c
  <2>2. \A q \in Slots : state'[q] = IF q = c THEN "free" ELSE state[q]
    BY <1>1, <1>3 DEF Types, c
  <2>3. Types'
    BY <1>1, <1>2, <1>3 DEF Types
  <2>4. Roots'
    BY <1>1, <1>2, <2>1, <2>2, SlotsAre DEF Roots
  <2>5. IsTree'
    <3>1. ASSUME NEW q \in Slots, InUse(q)'
          PROVE  state'[parent'[q]] = "alive"
      <4>1. InUse(q) /\ parent[q] \in Slots
        BY <1>1, <2>2, <3>1 DEF InUse, Types
      <4>2. state[parent[q]] = "alive"
        BY <1>1, <4>1 DEF IsTree
      <4> QED  BY <1>2, <2>1, <2>2, <4>1, <4>2
    <3>2. \A q \in Slots : InUse(q)' => InUse(q)
      BY <2>2 DEF InUse
    <3> QED  BY <1>1, <1>2, <3>1, <3>2 DEF IsTree
  <2>6. WaitersLive'
    BY <1>1, <1>2, <1>3, <2>1, <2>2 DEF WaitersLive, Waits, IsServer
  <2>7. WaitersServed'
    <3> SUFFICES ASSUME NEW w \in Slots \ {INIT_PROC_NR}, waitsFor[w] # {}
                 PROVE  /\ (Children(w) \cap waitsFor[w])' # {}
                        /\ \A q \in (Children(w) \cap waitsFor[w])' : state'[q] = "alive"
      BY <1>3 DEF WaitersServed, Waits
    <3>1. c \notin Children(w)
      BY <1>2, <2>1 DEF Children
    <3>2. Children(w)' = Children(w)
      BY <1>2, <2>2, <3>1 DEF Children, InUse
    <3>3. /\ Children(w) \cap waitsFor[w] # {}
          /\ \A q \in Children(w) \cap waitsFor[w] : state[q] = "alive"
      BY <1>1 DEF WaitersServed, Waits
    <3>4. \A q \in Children(w) : state'[q] = state[q]
      BY <2>2, <3>1 DEF Children
    <3> QED  BY <1>3, <3>2, <3>3, <3>4
  <2> QED  BY <2>3, <2>4, <2>5, <2>6, <2>7 DEF IInv
<1>4. CASE /\ found = {} /\ Children(p) \cap accepted # {}
           /\ waitsFor' = [waitsFor EXCEPT ![p] = accepted] /\ state' = state
  <2>1. \A q \in Slots : waitsFor'[q] = IF q = p THEN accepted ELSE waitsFor[q]
    BY <1>1, <1>4 DEF Types
  <2>2. Types' /\ Roots' /\ IsTree'
    BY <1>1, <1>2, <1>4 DEF Types, Roots, IsTree, InUse
  <2>3. WaitersLive'
    BY <1>1, <1>2, <1>4, <2>1 DEF WaitersLive, Waits, IsServer
  <2>4. WaitersServed'
    <3> SUFFICES ASSUME NEW w \in Slots \ {INIT_PROC_NR}, waitsFor'[w] # {}
                 PROVE  /\ (Children(w) \cap waitsFor[w])' # {}
                        /\ \A q \in (Children(w) \cap waitsFor[w])' : state'[q] = "alive"
      BY DEF WaitersServed, Waits
    <3>1. Children(w)' = Children(w)
      BY <1>2, <1>4 DEF Children, InUse
    <3>2. CASE w = p
      <4>1. \A q \in Children(p) \cap accepted : state[q] = "alive"
        <5>1. \A q \in Children(p) : q \in Slots /\ state[q] # "free"
          BY DEF Children, InUse
        <5> QED  BY <1>1, <1>4, <5>1 DEF Types
      <4> QED  BY <1>4, <2>1, <3>1, <3>2, <4>1
    <3>3. CASE w # p
      BY <1>1, <1>4, <2>1, <3>1, <3>3 DEF WaitersServed, Waits
    <3> QED  BY <3>2, <3>3
  <2> QED  BY <2>2, <2>3, <2>4 DEF IInv
<1> QED  BY <1>3, <1>4 DEF Wait

\* In a tree only MM is its own parent.
LEMMA NotOwnParent ==
  ASSUME IsTree, NEW p \in Slots, p # MM_PROC_NR, InUse(p)
  PROVE  parent[p] # p
<1> SUFFICES ASSUME parent[p] = p
             PROVE  FALSE
  OBVIOUS
<1>1. {p} \in (SUBSET Slots) \ {{}} /\ \A q \in {p} : InUse(q) /\ parent[q] \in {p}
  OBVIOUS
<1>2. MM_PROC_NR \in {p}
  BY <1>1 DEF IsTree
<1> QED  BY <1>2

\* What both ends of a process, exit and sign-on, do to the tree: it is one
\* without p's children below p.
LEMMA ChildrenAdopted ==
  ASSUME IInv, NEW p \in Slots, p # INIT_PROC_NR, p # MM_PROC_NR,
         NEW par \in [Slots -> Slots],
         par[p] = parent[p] \/ par[p] = MM_PROC_NR,
         \A q \in Slots \ {p} : par[q] = Disinherited(p)[q]
  PROVE  /\ \A q \in Slots : InUse(q) => state[par[q]] = "alive" /\ par[q] # p
         /\ \A S \in (SUBSET Slots) \ {{}} :
              (\A q \in S : InUse(q) /\ par[q] \in S) => MM_PROC_NR \in S
         /\ \A w \in Slots \ {INIT_PROC_NR, p}, q \in Slots \ {p} :
              InUse(q) => (par[q] = w <=> parent[q] = w)
<1>1. Types /\ Roots /\ IsTree
  BY DEF IInv
<1>2. \A q \in Slots \ {p} :
        InUse(q) => par[q] = IF parent[q] = p THEN INIT_PROC_NR ELSE parent[q]
  BY DEF Disinherited, Children
<1>3. parent[p] # p \/ ~ InUse(p)
  BY <1>1, NotOwnParent
<1>4. ASSUME NEW q \in Slots, InUse(q)
      PROVE  state[par[q]] = "alive" /\ par[q] # p
  <2>1. state[parent[q]] = "alive"
    BY <1>1, <1>4 DEF IsTree
  <2> QED  BY <1>1, <1>2, <1>3, <1>4, <2>1 DEF Roots
<1>5. ASSUME NEW S \in (SUBSET Slots) \ {{}}, \A q \in S : InUse(q) /\ par[q] \in S
      PROVE  MM_PROC_NR \in S
  <2>1. CASE INIT_PROC_NR \in S
    <3>1. par[INIT_PROC_NR] = MM_PROC_NR
      BY <1>1, <1>2, <1>5, <2>1, SlotsAre DEF Roots
    <3> QED  BY <1>5, <2>1, <3>1
  <2>2. CASE INIT_PROC_NR \notin S /\ MM_PROC_NR \notin S
    <3>1. \A q \in S : parent[q] \in S
      BY <1>2, <1>5, <2>2
    <3> QED  BY <1>1, <1>5, <3>1 DEF IsTree
  <2> QED  BY <2>1, <2>2
<1>6. ASSUME NEW w \in Slots \ {INIT_PROC_NR, p}, NEW q \in Slots \ {p}, InUse(q)
      PROVE  par[q] = w <=> parent[q] = w
  BY <1>2, <1>6
<1> QED  BY <1>4, <1>5, <1>6

\* A process that signs on becomes a child of MM, and its parent is released.
LEMMA SignOnStep ==
  ASSUME IInv, NEW p \in Slots, SignOn(p)
  PROVE  IInv'
<1>1. /\ Types /\ Roots /\ IsTree /\ WaitersLive /\ WaitersServed
  BY DEF IInv
<1>2. /\ state[p] = "alive" /\ waitsFor[p] = {} /\ ~ IsServer(p) /\ p # INIT_PROC_NR
      /\ waitsFor' = [waitsFor EXCEPT ![parent[p]] = IF p \in @ THEN {} ELSE @]
      /\ parent' = [Disinherited(p) EXCEPT ![p] = MM_PROC_NR]
      /\ state' = state
  BY DEF SignOn, CanCall, Waits
<1>3. p # MM_PROC_NR
  BY <1>2 DEF IsServer
<1>4. /\ Disinherited(p) \in [Slots -> Slots]
      /\ \A q \in Slots :
           Disinherited(p)[q] = IF q \in Children(p) THEN INIT_PROC_NR ELSE parent[q]
  BY <1>1, SlotsAre DEF Disinherited, Types
<1>5. /\ parent' \in [Slots -> Slots] /\ parent'[p] = MM_PROC_NR
      /\ \A q \in Slots \ {p} : parent'[q] = Disinherited(p)[q]
  BY <1>2, <1>4, SlotsAre
<1>6. \A w \in Slots :
        waitsFor'[w] = IF w = parent[p] /\ p \in waitsFor[w] THEN {} ELSE waitsFor[w]
  BY <1>1, <1>2 DEF Types
<1>7. /\ \A q \in Slots : InUse(q) => state[parent'[q]] = "alive" /\ parent'[q] # p
      /\ \A S \in (SUBSET Slots) \ {{}} :
           (\A q \in S : InUse(q) /\ parent'[q] \in S) => MM_PROC_NR \in S
      /\ \A w \in Slots \ {INIT_PROC_NR, p}, q \in Slots \ {p} :
           InUse(q) => (parent'[q] = w <=> parent[q] = w)
  <2> DEFINE par == parent'
  <2>1. /\ par \in [Slots -> Slots] /\ par[p] = MM_PROC_NR
        /\ \A q \in Slots \ {p} : par[q] = Disinherited(p)[q]
    BY <1>5
  <2> HIDE DEF par
  <2>2. /\ \A q \in Slots : InUse(q) => state[par[q]] = "alive" /\ par[q] # p
        /\ \A S \in (SUBSET Slots) \ {{}} :
             (\A q \in S : InUse(q) /\ par[q] \in S) => MM_PROC_NR \in S
        /\ \A w \in Slots \ {INIT_PROC_NR, p}, q \in Slots \ {p} :
             InUse(q) => (par[q] = w <=> parent[q] = w)
    BY <1>2, <1>3, <2>1, ChildrenAdopted
  <2> QED  BY <2>2 DEF par
<1>8. Types'
  BY <1>1, <1>2, <1>5 DEF Types
<1>9. Roots'
  <2>1. \A q \in {MM_PROC_NR, INIT_PROC_NR} : q \in Slots \ {p} /\ q \notin Children(p)
    BY <1>1, <1>2, <1>3, SlotsAre DEF Roots, Children
  <2> QED  BY <1>1, <1>2, <1>4, <1>5, <2>1 DEF Roots
<1>10. IsTree'
  BY <1>2, <1>7 DEF IsTree, InUse
<1>11. ASSUME NEW w \in Slots, waitsFor'[w] # {}
       PROVE  /\ waitsFor[w] # {} /\ waitsFor'[w] = waitsFor[w] /\ w # p /\ w # MM_PROC_NR
              /\ ~ (w = parent[p] /\ p \in waitsFor[w])
              /\ state[w] = "alive" /\ ~ IsServer(w)
  <2>1. /\ waitsFor[w] # {} /\ waitsFor'[w] = waitsFor[w]
        /\ ~ (w = parent[p] /\ p \in waitsFor[w])
    BY <1>6, <1>11
  <2>2. state[w] = "alive" /\ ~ IsServer(w)
    BY <1>1, <2>1 DEF WaitersLive, Waits
  <2>3. w # MM_PROC_NR
    BY <2>2, SlotsAre DEF IsServer
  <2> QED  BY <1>2, <2>1, <2>2, <2>3
<1>12. WaitersLive'
  <2> SUFFICES ASSUME NEW w \in Slots, waitsFor'[w] # {}
               PROVE  (state[w] = "alive" /\ ~ IsServer(w))'
    BY DEF WaitersLive, Waits
  <2>1. state[w] = "alive" /\ ~ IsServer(w) /\ w # p /\ w # MM_PROC_NR
    BY <1>11
  <2>2. CASE w = INIT_PROC_NR
    BY <1>2, <2>1, <2>2 DEF IsServer
  <2>3. CASE w # INIT_PROC_NR
    <3>1. parent[w] # MM_PROC_NR /\ InUse(w)
      BY <2>1, <2>3 DEF IsServer, InUse
    <3>2. parent'[w] # MM_PROC_NR
      BY <1>3, <1>7, <2>1, <3>1, SlotsAre
    <3> QED  BY <1>2, <2>1, <3>2 DEF IsServer
  <2> QED  BY <2>2, <2>3
<1>13. WaitersServed'
  <2> SUFFICES ASSUME NEW w \in Slots \ {INIT_PROC_NR}, waitsFor'[w] # {}
               PROVE  /\ (Children(w) \cap waitsFor[w])' # {}
                      /\ \A q \in (Children(w) \cap waitsFor[w])' : state'[q] = "alive"
    BY DEF WaitersServed, Waits
  <2>1. /\ waitsFor[w] # {} /\ waitsFor'[w] = waitsFor[w] /\ w # p /\ w # MM_PROC_NR
        /\ ~ (w = parent[p] /\ p \in waitsFor[w])
    BY <1>11
  <2>2. /\ Children(w) \cap waitsFor[w] # {}
        /\ \A q \in Children(w) \cap waitsFor[w] : state[q] = "alive"
    BY <1>1, <2>1 DEF WaitersServed, Waits
  <2>3. \A q \in Slots : q \in Children(w)' /\ q \in waitsFor[w]
                         <=> q \in Children(w) /\ q \in waitsFor[w]
    <3>1. CASE w = parent[p]
      BY <1>2, <1>5, <1>7, <2>1, <3>1 DEF Children, InUse
    <3>2. CASE w # parent[p]
      BY <1>2, <1>5, <1>7, <2>1, <3>2 DEF Children, InUse
    <3> QED  BY <3>1, <3>2
  <2>4. (Children(w) \cap waitsFor[w])' = Children(w) \cap waitsFor[w]
    BY <2>1, <2>3 DEF Children
  <2> QED  BY <1>2, <2>2, <2>4
<1> QED  BY <1>8, <1>9, <1>10, <1>12, <1>13 DEF IInv

\* A process that exits leaves its children to INIT, and hangs until its
\* parent waits for it.
LEMMA ExitStep ==
  ASSUME IInv, NEW p \in Slots, Exit(p)
  PROVE  IInv'
<1> DEFINE reaped == p \in waitsFor[parent[p]]
           left   == [waitsFor EXCEPT ![p] = {}, ![parent[p]] = IF reaped THEN {} ELSE @]
           found  == {c \in Children(p) : state[c] = "hanging" /\ c \in left[INIT_PROC_NR]}
           par    == Disinherited(p)
<1>1. /\ Types /\ Roots /\ IsTree /\ WaitersLive /\ WaitersServed
  BY DEF IInv
<1>2. /\ state[p] = "alive" /\ ~ IsServer(p) /\ p # INIT_PROC_NR
      /\ state' = [c \in Slots |->
                     IF c = p THEN IF reaped THEN "free" ELSE "hanging"
                     ELSE IF found # {} /\ c = Min(found) THEN "free" ELSE state[c]]
      /\ waitsFor' = [left EXCEPT ![INIT_PROC_NR] = IF found # {} THEN {} ELSE @]
      /\ parent' = par
  BY DEF Exit
<1>3. p # MM_PROC_NR
  BY <1>2 DEF IsServer
<1>4. /\ par \in [Slots -> Slots] /\ par[p] = parent[p]
      /\ \A q \in Slots : par[q] = IF q \in Children(p) THEN INIT_PROC_NR ELSE parent[q]
  BY <1>1, SlotsAre DEF Disinherited, Types, Children
<1>5. found # {} => Min(found) \in Slots /\ Min(found) \in Children(p)
                    /\ state[Min(found)] = "hanging"
  <2>1. found \in SUBSET Slots
    BY DEF Children
  <2>2. found # {} => Min(found) \in found
    BY <2>1, FirstFound
  <2> QED  BY <2>1, <2>2
<1>6. /\ left \in [Slots -> SUBSET Slots]
      /\ \A w \in Slots : left[w] # {} =>
           w # p /\ left[w] = waitsFor[w] /\ ~ (w = parent[p] /\ p \in waitsFor[w])
  <2>1. parent[p] \in Slots /\ parent[p] # p
    BY <1>1, <1>2, <1>3, NotOwnParent DEF Types, InUse
  <2>2. \A w \in Slots :
          left[w] = IF w = p \/ (w = parent[p] /\ reaped) THEN {} ELSE waitsFor[w]
    BY <1>1, <2>1 DEF Types
  <2>3. left \in [Slots -> SUBSET Slots]
    BY <1>1, <2>1 DEF Types
  <2> QED  BY <2>2, <2>3
<1> HIDE DEF left, reaped
<1>7. /\ waitsFor' \in [Slots -> SUBSET Slots]
      /\ \A w \in Slots : waitsFor'[w] # {} => waitsFor'[w] = left[w]
  BY <1>2, <1>6, SlotsAre
<1> HIDE DEF found, par
<1>8. /\ state' \in [Slots -> {"free", "alive", "hanging"}]
      /\ \A q \in Slots : state'[q] = "alive" <=> state[q] = "alive" /\ q # p
      /\ \A q \in Slots : InUse(q)' => InUse(q)
      /\ \A q \in Slots : InUse(q) /\ q # p /\ q \notin Children(p) => InUse(q)'
  BY <1>1, <1>2, <1>5 DEF Types, InUse
<1>9. /\ \A q \in Slots : InUse(q) => state[par[q]] = "alive" /\ par[q] # p
      /\ \A S \in (SUBSET Slots) \ {{}} :
           (\A q \in S : InUse(q) /\ par[q] \in S) => MM_PROC_NR \in S
      /\ \A w \in Slots \ {INIT_PROC_NR, p}, q \in Slots \ {p} :
           InUse(q) => (par[q] = w <=> parent[q] = w)
  <2>1. \A q \in Slots \ {p} : par[q] = Disinherited(p)[q]
    BY DEF par
  <2> QED  BY <1>2, <1>3, <1>4, <2>1, ChildrenAdopted
<1>10. Types'
  BY <1>2, <1>4, <1>7, <1>8 DEF Types
<1>11. Roots'
  <2>1. \A q \in {MM_PROC_NR, INIT_PROC_NR} : q \in Slots \ {p} /\ q \notin Children(p)
    BY <1>1, <1>2, <1>3, SlotsAre DEF Roots, Children
  <2> QED  BY <1>1, <1>2, <1>4, <1>8, <2>1 DEF Roots
<1>12. IsTree'
  <2>1. ASSUME NEW q \in Slots, InUse(q)'
        PROVE  state'[parent'[q]] = "alive"
    BY <1>2, <1>4, <1>8, <1>9, <2>1
  <2>2. ASSUME NEW S \in (SUBSET Slots) \ {{}}, \A q \in S : InUse(q)' /\ parent'[q] \in S
        PROVE  MM_PROC_NR \in S
    BY <1>2, <1>8, <1>9, <2>2
  <2> QED  BY <2>1, <2>2 DEF IsTree
<1>13. ASSUME NEW w \in Slots, waitsFor'[w] # {}
       PROVE  /\ waitsFor[w] # {} /\ waitsFor'[w] = waitsFor[w] /\ w # p /\ w # MM_PROC_NR
              /\ ~ (w = parent[p] /\ p \in waitsFor[w])
              /\ state[w] = "alive" /\ ~ IsServer(w)
  <2>1. /\ waitsFor[w] # {} /\ waitsFor'[w] = waitsFor[w] /\ w # p
        /\ ~ (w = parent[p] /\ p \in waitsFor[w])
    BY <1>6, <1>7, <1>13
  <2>2. state[w] = "alive" /\ ~ IsServer(w)
    BY <1>1, <2>1 DEF WaitersLive, Waits
  <2>3. w # MM_PROC_NR
    BY <2>2, SlotsAre DEF IsServer
  <2> QED  BY <2>1, <2>2, <2>3
<1>14. WaitersLive'
  <2> SUFFICES ASSUME NEW w \in Slots, waitsFor'[w] # {}
               PROVE  (state[w] = "alive" /\ ~ IsServer(w))'
    BY DEF WaitersLive, Waits
  <2>1. state[w] = "alive" /\ ~ IsServer(w) /\ w # p /\ w # MM_PROC_NR
    BY <1>13
  <2>2. state'[w] = "alive"
    BY <1>8, <2>1
  <2>3. CASE w = INIT_PROC_NR
    BY <2>2, <2>3 DEF IsServer
  <2>4. CASE w # INIT_PROC_NR
    <3>1. parent[w] # MM_PROC_NR /\ InUse(w)
      BY <2>1, <2>4 DEF IsServer, InUse
    <3>2. par[w] # MM_PROC_NR
      BY <1>3, <1>9, <2>1, <3>1, SlotsAre
    <3> QED  BY <1>2, <2>1, <2>2, <3>2 DEF IsServer
  <2> QED  BY <2>3, <2>4
<1>15. WaitersServed'
  <2> SUFFICES ASSUME NEW w \in Slots \ {INIT_PROC_NR}, waitsFor'[w] # {}
               PROVE  /\ (Children(w) \cap waitsFor[w])' # {}
                      /\ \A q \in (Children(w) \cap waitsFor[w])' : state'[q] = "alive"
    BY DEF WaitersServed, Waits
  <2>1. /\ waitsFor[w] # {} /\ waitsFor'[w] = waitsFor[w] /\ w # p /\ w # MM_PROC_NR
        /\ ~ (w = parent[p] /\ p \in waitsFor[w])
    BY <1>13
  <2>2. /\ Children(w) \cap waitsFor[w] # {}
        /\ \A q \in Children(w) \cap waitsFor[w] : state[q] = "alive"
    BY <1>1, <2>1 DEF WaitersServed, Waits
  <2>3. ASSUME NEW q \in Slots
        PROVE  q \in Children(w)' /\ q \in waitsFor[w]
               <=> q \in Children(w) /\ q \in waitsFor[w]
    <3>1. CASE q = p
      BY <1>2, <1>4, <2>1, <3>1 DEF Children
    <3>2. CASE q # p
      <4>1. InUse(q) => (par[q] = w <=> parent[q] = w)
        BY <1>9, <2>1, <3>2
      <4>2. parent[q] = w => q \notin Children(p)
        BY <2>1 DEF Children
      <4> QED  BY <1>2, <1>8, <3>2, <4>1, <4>2 DEF Children
    <3> QED  BY <3>1, <3>2
  <2>4. (Children(w) \cap waitsFor[w])' = Children(w) \cap waitsFor[w]
    BY <2>1, <2>3 DEF Children
  <2>5. \A q \in Children(w) \cap waitsFor[w] : q # p
    BY <2>1 DEF Children
  <2>6. \A q \in Children(w) : q \in Slots
    BY DEF Children
  <2> QED  BY <1>8, <2>2, <2>4, <2>5, <2>6
<1> QED  BY <1>10, <1>11, <1>12, <1>14, <1>15 DEF IInv

-----------------------------------------------------------------------------
(* The results *)

\* The invariant holds after any history of the table.
THEOREM TreeInvariance == Spec => []IInv
<1>1. IInv /\ [Next]_vars => IInv'
  <2> SUFFICES ASSUME IInv, [Next]_vars
               PROVE  IInv'
    OBVIOUS
  <2>1. ASSUME NEW p \in Slots, NEW c \in Slots, Fork(p, c)
        PROVE  IInv'
    BY <2>1, ForkStep
  <2>2. ASSUME NEW p \in Slots, NEW accepted \in SUBSET Slots, Wait(p, accepted)
        PROVE  IInv'
    BY <2>2, WaitStep
  <2>3. ASSUME NEW p \in Slots, Exit(p)
        PROVE  IInv'
    BY <2>3, ExitStep
  <2>4. ASSUME NEW p \in Slots, SignOn(p)
        PROVE  IInv'
    BY <2>4, SignOnStep
  <2>5. CASE UNCHANGED vars
    BY <2>5 DEF vars, IInv, Types, Roots, IsTree, InUse, WaitersLive, WaitersServed,
                Waits, IsServer, Children
  <2> QED  BY <2>1, <2>2, <2>3, <2>4, <2>5 DEF Next
<1> QED  BY <1>1, Initially, PTL DEF Spec

\* The table is always a tree below MM, with living processes only above
\* others: the counting ends and looks at no slot twice.
THEOREM AlwaysTree == Spec => []IsTree
<1>1. IInv => IsTree
  BY DEF IInv
<1> QED  BY <1>1, TreeInvariance, PTL

\* Nobody but INIT waits for children that have all exited or left, whatever
\* do_svrctl has done to the table.
THEOREM WaitersAlwaysServed == Spec => []WaitersServed
<1>1. IInv => WaitersServed
  BY DEF IInv
<1> QED  BY <1>1, TreeInvariance, PTL

=============================================================================
