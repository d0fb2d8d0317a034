---------------------------- MODULE ReadyListProofs ----------------------------
(***************************************************************************)
(* The linked list of runnable user processes implements the queue it      *)
(* stands for, for any number of processes and any order of calls.         *)
(***************************************************************************)
EXTENDS ReadyList, QueueProofs, FiniteSetTheorems

-----------------------------------------------------------------------------
(* Lists and queues *)

\* What comes after the first i processes of queue q.
After(q, i) == IF i < Len(q) THEN q[i + 1] ELSE NIL

\* List l links the processes of queue q.
Linked(q, l) ==
  /\ l.head = After(q, 0)
  /\ \A i \in 1..Len(q) : l.next[q[i]] = After(q, i)
  /\ q # << >> => l.tail = q[Len(q)]

\* All its pointers point to slots or nowhere, too.
Threaded(q, l) == Linked(q, l) /\ l.next \in [Users -> Users \cup {NIL}]

\* A queue has no more processes than there are.
LEMMA QueueShort ==
  ASSUME NEW q \in Seq(Users), QueuedOnce(q)
  PROVE  Len(q) \in Nat /\ Len(q) <= Cardinality(Users) /\ Cardinality(Users) \in Nat
<1>1. IsFiniteSet(Users) /\ Cardinality(Users) \in Nat
  BY NilAssumption, FS_CardinalityType
<1>2. PICK n \in Nat : n = Len(q)
  OBVIOUS
<1>3. q \in [1..n -> Users] /\ DOMAIN q = 1..n
  BY <1>2
<1>4. q \in Injection(1..n, Users)
  BY <1>3 DEF QueuedOnce, Injection, IsInjective
<1>5. Cardinality(1..n) <= Cardinality(Users)
  BY <1>1, <1>4, FS_Injection
<1>6. Cardinality(1..n) = n
  <2>1. n \in Int /\ 1 \in Int
    BY <1>2
  <2>2. Cardinality(1..n) = IF 1 > n THEN 0 ELSE n - 1 + 1
    BY <2>1, FS_Interval
  <2> QED  BY <1>2, <2>2
<1> QED  BY <1>1, <1>2, <1>5, <1>6

\* What the pointers from the head on are, if they are those of a queue.
LEMMA PointersOfQueue ==
  ASSUME NEW q \in Seq(Users), QueuedOnce(q), NEW l, Linked(q, l)
  PROVE  Pointers(l) = [k \in 0..Cardinality(Users) |-> After(q, k)]
<1> DEFINE N == Cardinality(Users)
           Reads(p) == p = [k \in 0..N |-> IF k = 0 THEN l.head
                                           ELSE IF p[k - 1] = NIL THEN NIL
                                           ELSE l.next[p[k - 1]]]
           a == [k \in 0..N |-> After(q, k)]
           p == CHOOSE p : Reads(p)
<1>1. Len(q) \in Nat /\ Len(q) <= N /\ N \in Nat
  BY QueueShort
<1>2. Pointers(l) = p
  BY DEF Pointers
<1>3. \A k \in 1..N : k - 1 \in 0..N /\ k - 1 + 1 = k /\ k - 1 # N
  BY <1>1
<1>4. \A i \in 1..Len(q) : q[i] \in Users /\ q[i] # NIL
  BY NilAssumption
<1> HIDE DEF N
<1>5. \A k \in 1..N : After(q, k) = IF After(q, k - 1) = NIL THEN NIL
                                    ELSE l.next[After(q, k - 1)]
  <2> SUFFICES ASSUME NEW k \in 1..N
               PROVE  After(q, k) = IF After(q, k - 1) = NIL THEN NIL
                                    ELSE l.next[After(q, k - 1)]
    OBVIOUS
  <2>1. CASE k <= Len(q)
    <3>1. k \in 1..Len(q) /\ After(q, k - 1) = q[k]
      BY <1>1, <1>3, <2>1 DEF After
    <3> QED  BY <1>4, <3>1 DEF Linked
  <2>2. CASE k > Len(q)
    BY <1>1, <2>2 DEF After
  <2> QED  BY <1>1, <2>1, <2>2
<1>6. l.head = After(q, 0)
  BY DEF Linked
<1>7. Reads(a)
  <2>1. \A k \in 0..N : a[k] = IF k = 0 THEN l.head
                               ELSE IF a[k - 1] = NIL THEN NIL ELSE l.next[a[k - 1]]
    <3> SUFFICES ASSUME NEW k \in 0..N
                 PROVE  a[k] = IF k = 0 THEN l.head
                               ELSE IF a[k - 1] = NIL THEN NIL ELSE l.next[a[k - 1]]
      OBVIOUS
    <3>1. CASE k = 0
      BY <1>6, <3>1
    <3>2. CASE k # 0
      <4>1. k \in 1..N
        BY <1>1, <3>2
      <4> QED  BY <1>3, <1>5, <3>2, <4>1
    <3> QED  BY <3>1, <3>2
  <2> QED  BY <2>1
<1>8. Reads(p)
  <2> HIDE DEF Reads, a
  <2> QED  BY <1>7
<1> HIDE DEF p
<1>9. /\ p = [k \in 0..N |-> p[k]]
      /\ \A k \in 0..N : p[k] = IF k = 0 THEN l.head
                                ELSE IF p[k - 1] = NIL THEN NIL ELSE l.next[p[k - 1]]
  BY <1>8
<1>10. \A k \in 0..N : p[k] = After(q, k)
  <2> DEFINE T == {k \in 0..N : p[k] # After(q, k)}
  <2> SUFFICES ASSUME T # {}
               PROVE  FALSE
    OBVIOUS
  <2>1. PICK k \in T : \A j \in T : k <= j
    <3>1. T \in SUBSET Nat
      BY <1>1
    <3> QED  BY <3>1, FirstPosition
  <2>2. k \in 0..N /\ p[k] # After(q, k) /\ k # 0
    BY <1>6, <1>9
  <2>3. k \in 1..N /\ k - 1 \in 0..N
    BY <1>1, <2>2
  <2>4. p[k - 1] = After(q, k - 1)
    BY <2>1, <2>3
  <2> QED  BY <1>5, <1>9, <2>2, <2>3, <2>4
<1> QED  BY <1>2, <1>9, <1>10 DEF N

\* The chain of a list is the queue whose processes it links.
LEMMA ChainIsQueue ==
  ASSUME NEW q \in Seq(Users), QueuedOnce(q), NEW l, Linked(q, l)
  PROVE  ChainOf(l) = q
<1>1. Pointers(l) = [k \in 0..Cardinality(Users) |-> After(q, k)]
  BY PointersOfQueue
<1>2. PICK n \in Nat, N \in Nat : n = Len(q) /\ N = Cardinality(Users) /\ n <= N
  BY QueueShort
<1>3. \A k \in 0..N : After(q, k) # NIL <=> k < n
  <2>1. \A i \in 1..n : q[i] # NIL
    BY <1>2, NilAssumption
  <2> QED  BY <1>2, <2>1 DEF After
<1>4. {k \in DOMAIN Pointers(l) : Pointers(l)[k] # NIL} = 0..(n - 1)
  <2>1. DOMAIN Pointers(l) = 0..N
    BY <1>1, <1>2
  <2>2. \A k \in 0..N : Pointers(l)[k] = After(q, k)
    BY <1>1, <1>2
  <2>3. \A k \in 0..N : Pointers(l)[k] # NIL <=> k < n
    BY <1>3, <2>2
  <2>4. \A k \in 0..N : k < n <=> k \in 0..(n - 1)
    BY <1>2
  <2>5. \A k : k \in 0..(n - 1) => k \in 0..N
    BY <1>2
  <2> QED  BY ONLY <2>1, <2>3, <2>4, <2>5
<1>5. Cardinality(0..(n - 1)) = n
  <2>1. n - 1 \in Int /\ 0 \in Int
    BY <1>2
  <2>2. Cardinality(0..(n - 1)) = IF 0 > n - 1 THEN 0 ELSE n - 1 - 0 + 1
    BY <2>1, FS_Interval
  <2> QED  BY <1>2, <2>2
<1>6. \A i \in 1..n : Pointers(l)[i - 1] = q[i]
  <2>1. \A i \in 1..n : i - 1 \in 0..N /\ i - 1 + 1 = i /\ i - 1 < n
    BY <1>2
  <2> QED  BY <1>1, <1>2, <2>1 DEF After
<1>7. ChainOf(l) = [i \in 1..n |-> Pointers(l)[i - 1]]
  BY <1>4, <1>5 DEF ChainOf
<1>8. q = [i \in 1..n |-> q[i]]
  BY <1>2
<1> QED  BY <1>6, <1>7, <1>8

\* A search ends at the first process at which it may.
LEMMA SearchEnds ==
  ASSUME NEW q \in Seq(Users), QueuedOnce(q), NEW l, Linked(q, l),
         NEW ends, NEW i \in 1..Len(q), q[i] \in ends,
         \A j \in 1..(i - 1) : q[j] \notin ends
  PROVE  Search(l, ends) = q[i]
<1>1. ChainOf(l) = q
  BY ChainIsQueue
<1>2. DOMAIN q = 1..Len(q)
  OBVIOUS
<1> DEFINE First(j) == q[j] \in ends /\ \A h \in 1..(j - 1) : q[h] \notin ends
<1>3. \A j \in 1..Len(q) : First(j) => j = i
  <2> SUFFICES ASSUME NEW j \in 1..Len(q), First(j), j # i
               PROVE  FALSE
    OBVIOUS
  <2>1. j \in 1..(i - 1) \/ i \in 1..(j - 1)
    OBVIOUS
  <2> QED  BY <2>1
<1>4. (CHOOSE j \in DOMAIN q : First(j)) = i
  <2>1. First(i)
    OBVIOUS
  <2> HIDE DEF First
  <2> QED  BY <1>2, <1>3, <2>1
<1> QED  BY <1>1, <1>4 DEF Search

-----------------------------------------------------------------------------
(* Changes of a list *)

\* A process that is linked in front of a list is in front of its queue.
LEMMA FrontLinked ==
  ASSUME NEW q \in Seq(Users), NEW l, Linked(q, l), NEW u \in Users, u \notin Members(q),
         NEW r, r.head = u, r.tail = IF l.head = NIL THEN u ELSE l.tail,
         r.next[u] = l.head, \A v \in Users \ {u} : r.next[v] = l.next[v]
  PROVE  Linked(AtFront(q, u), r)
<1> DEFINE f == AtFront(q, u)
<1>1. Len(q) \in Nat /\ f \in Seq(Users) /\ Len(f) = Len(q) + 1
  BY DEF AtFront
<1>2. f[1] = u /\ \A i \in 1..Len(q) : f[i + 1] = q[i]
  BY DEF AtFront
<1>3. \A i \in 1..Len(q) : q[i] \in Users /\ q[i] # NIL /\ q[i] # u
  BY NilAssumption DEF Members
<1> HIDE DEF f
<1>4. \A i \in 0..Len(q) : After(f, i + 1) = After(q, i)
  BY <1>1, <1>2 DEF After
<1>5. After(f, 0) = u
  BY <1>1, <1>2 DEF After
<1>6. \A i \in 1..Len(f) : r.next[f[i]] = After(f, i)
  <2> SUFFICES ASSUME NEW i \in 1..Len(f)
               PROVE  r.next[f[i]] = After(f, i)
    OBVIOUS
  <2>1. CASE i = 1
    <3>1. After(f, 0 + 1) = After(q, 0)
      BY <1>1, <1>4
    <3> QED  BY <1>2, <2>1, <3>1 DEF Linked
  <2>2. CASE i # 1
    <3>1. i - 1 \in 1..Len(q) /\ i - 1 + 1 = i /\ i - 1 \in 0..Len(q)
      BY <1>1, <2>2
    <3>2. f[i] = q[i - 1] /\ After(f, i) = After(q, i - 1)
      BY <1>2, <1>4, <3>1
    <3>3. r.next[f[i]] = l.next[q[i - 1]]
      BY <1>3, <3>1, <3>2
    <3> QED  BY <3>1, <3>2, <3>3 DEF Linked
  <2> QED  BY <2>1, <2>2
<1>7. r.tail = f[Len(f)]
  <2>1. CASE q = << >>
    <3>1. l.head = NIL /\ Len(f) = 1
      BY <1>1, <2>1 DEF Linked, After
    <3> QED  BY <1>2, <3>1
  <2>2. CASE q # << >>
    <3>1. Len(q) \in 1..Len(q) /\ 0 < Len(q) /\ 1 \in 1..Len(q)
      BY <1>1, <2>2
    <3>2. l.head = q[1] /\ l.head # NIL
      BY <1>3, <3>1 DEF Linked, After
    <3>3. f[Len(f)] = q[Len(q)]
      BY <1>1, <1>2, <3>1
    <3> QED  BY <2>2, <3>2, <3>3 DEF Linked
  <2> QED  BY <2>1, <2>2
<1> QED  BY <1>5, <1>6, <1>7 DEF Linked, f

\* What is left of a queue without the process at position p.
LEMMA WithoutPosition ==
  ASSUME NEW q \in Seq(Users), QueuedOnce(q), NEW p \in 1..Len(q)
  PROVE  /\ Len(Without(q, q[p])) = Len(q) - 1
         /\ \A j \in 1..(Len(q) - 1) :
              Without(q, q[p])[j] = IF j < p THEN q[j] ELSE q[j + 1]
<1>1. Len(q) \in Nat /\ DOMAIN q = 1..Len(q) /\ q[p] \in Members(q)
  BY DEF Members
<1>2. Position(q, q[p]) = p
  <2>1. \A i \in 1..Len(q) : q[i] = q[p] => i = p
    BY <1>1 DEF QueuedOnce
  <2> QED  BY <1>1, <2>1 DEF Position
<1> DEFINE w == Without(q, q[p])
<1>3. w = [j \in 1..(Len(q) - 1) |-> q[IF j < p THEN j ELSE j + 1]]
  BY <1>1, <1>2 DEF Without
<1>4. w \in Seq(Users)
  BY WithoutKeepsOthers
<1> HIDE DEF w
<1>5. PICK n \in Nat : n = Len(q) - 1
  <2>1. Len(q) - 1 \in Nat
    BY <1>1
  <2> QED  BY <2>1
<1>6. Len(w) = Len(q) - 1
  BY <1>3, <1>4, <1>5, LenProperties
<1>7. \A j \in 1..(Len(q) - 1) : w[j] = IF j < p THEN q[j] ELSE q[j + 1]
  BY <1>3
<1> QED  BY <1>6, <1>7 DEF w

\* What comes after the processes of a queue that has lost the one at p.
LEMMA AfterWithout ==
  ASSUME NEW q \in Seq(Users), QueuedOnce(q), NEW p \in 1..Len(q)
  PROVE  \A j \in 0..(Len(q) - 1) :
           After(Without(q, q[p]), j) = IF j < p - 1 THEN After(q, j) ELSE After(q, j + 1)
<1>1. PICK n \in Nat : n = Len(q)
  OBVIOUS
<1> DEFINE w == Without(q, q[p])
<1>2. Len(w) = n - 1 /\ \A j \in 1..(n - 1) : w[j] = IF j < p THEN q[j] ELSE q[j + 1]
  BY <1>1, WithoutPosition
<1> HIDE DEF w
<1>3. p \in 1..n
  BY <1>1
<1> SUFFICES ASSUME NEW j \in 0..(n - 1)
             PROVE  After(w, j) = IF j < p - 1 THEN After(q, j) ELSE After(q, j + 1)
  BY <1>1 DEF w
<1>4. CASE j = n - 1
  BY <1>1, <1>2, <1>3, <1>4 DEF After
<1>5. CASE j # n - 1
  <2>1. j + 1 \in 1..(n - 1) /\ j < n - 1 /\ j < n /\ j + 1 < n
    BY <1>5
  <2>2. w[j + 1] = IF j + 1 < p THEN q[j + 1] ELSE q[j + 1 + 1]
    BY <1>2, <2>1
  <2>3. After(w, j) = w[j + 1] /\ After(q, j) = q[j + 1] /\ After(q, j + 1) = q[j + 1 + 1]
    BY <1>1, <1>2, <2>1 DEF After
  <2>4. j + 1 < p <=> j < p - 1
    BY <1>3
  <2> QED  BY <2>2, <2>3, <2>4
<1> QED  BY <1>4, <1>5

\* The head is unlinked: the second process becomes the head.
LEMMA HeadUnlinked ==
  ASSUME NEW q \in Seq(Users), QueuedOnce(q), q # << >>, NEW l, Linked(q, l),
         NEW r, r.head = l.next[q[1]], r.tail = l.tail, r.next = l.next
  PROVE  Linked(Without(q, q[1]), r)
<1>1. PICK n \in Nat : n = Len(q) /\ n > 0
  OBVIOUS
<1> DEFINE w == Without(q, q[1])
<1>2. 1 \in 1..Len(q)
  BY <1>1
<1>3. Len(w) = n - 1 /\ \A j \in 1..(n - 1) : w[j] = q[j + 1]
  <2>1. \A j \in 1..(n - 1) : ~ (j < 1)
    BY <1>1
  <2> QED  BY <1>1, <1>2, <2>1, WithoutPosition
<1>4. \A j \in 0..(n - 1) : After(w, j) = After(q, j + 1)
  <2>1. \A j \in 0..(n - 1) : After(w, j) = IF j < 1 - 1 THEN After(q, j) ELSE After(q, j + 1)
    BY <1>1, <1>2, AfterWithout
  <2>2. \A j \in 0..(n - 1) : ~ (j < 1 - 1)
    BY <1>1
  <2> QED  BY <2>1, <2>2
<1>5. w = << >> <=> n = 1
  <2>1. w \in Seq(Users)
    BY WithoutKeepsOthers
  <2> QED  BY <1>1, <1>3, <2>1
<1> HIDE DEF w
<1>6. r.head = After(w, 0)
  <2>1. After(w, 0) = After(q, 0 + 1)
    BY <1>1, <1>4
  <2>2. l.next[q[1]] = After(q, 1)
    BY <1>2 DEF Linked
  <2> QED  BY <2>1, <2>2
<1>7. \A j \in 1..Len(w) : r.next[w[j]] = After(w, j)
  <2> SUFFICES ASSUME NEW j \in 1..(n - 1)
               PROVE  r.next[w[j]] = After(w, j)
    BY <1>3
  <2>1. j + 1 \in 1..Len(q) /\ j \in 0..(n - 1)
    BY <1>1
  <2>2. w[j] = q[j + 1] /\ After(w, j) = After(q, j + 1)
    BY <1>3, <1>4, <2>1
  <2> QED  BY <2>1, <2>2 DEF Linked
<1>8. w # << >> => r.tail = w[Len(w)]
  <2> SUFFICES ASSUME w # << >>
               PROVE  r.tail = w[Len(w)]
    OBVIOUS
  <2>1. n - 1 \in 1..(n - 1) /\ n - 1 + 1 = n
    BY <1>1, <1>5
  <2>2. w[Len(w)] = q[n]
    BY <1>3, <2>1
  <2> QED  BY <1>1, <2>2 DEF Linked
<1> QED  BY <1>6, <1>7, <1>8 DEF Linked, w

\* Another process is unlinked: the one before it leads to the one after it.
LEMMA OtherUnlinked ==
  ASSUME NEW q \in Seq(Users), QueuedOnce(q), NEW l, Linked(q, l),
         NEW p \in 1..Len(q), p # 1, NEW b, b = q[p - 1], NEW u, u = q[p],
         NEW r, r.head = l.head, r.tail = IF l.tail = u THEN b ELSE l.tail,
         r.next[b] = l.next[u], \A v \in Users \ {b} : r.next[v] = l.next[v]
  PROVE  Linked(Without(q, u), r)
<1>1. PICK n \in Nat : n = Len(q) /\ p \in 2..n /\ DOMAIN q = 1..n
  OBVIOUS
<1> DEFINE w == Without(q, u)
<1>2. Len(w) = n - 1 /\ \A j \in 1..(n - 1) : w[j] = IF j < p THEN q[j] ELSE q[j + 1]
  BY <1>1, WithoutPosition
<1>3. \A j \in 0..(n - 1) : After(w, j) = IF j < p - 1 THEN After(q, j) ELSE After(q, j + 1)
  BY <1>1, AfterWithout
<1>4. \A i, j \in 1..n : q[i] = q[j] => i = j
  BY <1>1 DEF QueuedOnce
<1>5. \A i \in 1..n : q[i] \in Users /\ l.next[q[i]] = After(q, i)
  BY <1>1 DEF Linked
<1> HIDE DEF w
<1>6. r.head = After(w, 0)
  <2>1. 0 \in 0..(n - 1) /\ 0 < p - 1
    BY <1>1
  <2>2. After(w, 0) = After(q, 0)
    BY <1>3, <2>1
  <2> QED  BY <2>2 DEF Linked
<1>7. \A j \in 1..Len(w) : r.next[w[j]] = After(w, j)
  <2> SUFFICES ASSUME NEW j \in 1..(n - 1)
               PROVE  r.next[w[j]] = After(w, j)
    BY <1>2
  <2>0. j \in 0..(n - 1) /\ j \in 1..n /\ j + 1 \in 1..n /\ p - 1 \in 1..n /\ p \in 1..n
    BY <1>1
  <2>1. CASE j < p - 1
    <3>1. j < p /\ j # p - 1
      BY <1>1, <2>1
    <3>2. w[j] = q[j] /\ After(w, j) = After(q, j)
      BY <1>2, <1>3, <2>0, <2>1, <3>1
    <3>3. q[j] # b
      BY <1>4, <2>0, <3>1
    <3> QED  BY <1>5, <2>0, <3>2, <3>3
  <2>2. CASE j = p - 1
    <3>1. j < p /\ ~ (j < p - 1) /\ j + 1 = p
      BY <1>1, <2>2
    <3>2. w[j] = b /\ After(w, j) = After(q, p)
      BY <1>2, <1>3, <2>0, <2>2, <3>1
    <3> QED  BY <1>5, <2>0, <3>2
  <2>3. CASE j > p - 1
    <3>1. ~ (j < p) /\ ~ (j < p - 1) /\ j + 1 # p - 1
      BY <1>1, <2>3
    <3>2. w[j] = q[j + 1] /\ After(w, j) = After(q, j + 1)
      BY <1>2, <1>3, <2>0, <3>1
    <3>3. q[j + 1] # b
      BY <1>4, <2>0, <3>1
    <3> QED  BY <1>5, <2>0, <3>2, <3>3
  <2> QED  BY <1>1, <2>1, <2>2, <2>3
<1>8. w # << >> => r.tail = w[Len(w)]
  <2>1. n - 1 \in 1..(n - 1) /\ n - 1 + 1 = n /\ n \in 1..n /\ p \in 1..n
    BY <1>1
  <2>2. l.tail = q[n]
    <3>1. q # << >>
      BY <1>1
    <3> QED  BY <1>1, <3>1 DEF Linked
  <2>3. CASE p = n
    <3>1. n - 1 < p /\ w[n - 1] = q[n - 1]
      BY <1>1, <1>2, <2>1, <2>3
    <3> QED  BY <1>2, <2>2, <2>3, <3>1
  <2>4. CASE p # n
    <3>1. ~ (n - 1 < p)
      BY <1>1, <2>4
    <3>2. w[n - 1] = q[n]
      BY <1>2, <2>1, <3>1
    <3>3. l.tail # u
      BY <1>4, <2>1, <2>2, <2>4
    <3> QED  BY <1>2, <2>2, <3>2, <3>3
  <2> QED  BY <2>3, <2>4
<1> QED  BY <1>6, <1>7, <1>8 DEF Linked, w

\* The head is linked after the tail.
LEMMA RotatedLinked ==
  ASSUME NEW q \in Seq(Users), QueuedOnce(q), q # << >>, TypeOK, Linked(q, List)
  PROVE  Threaded(Append(Tail(q), Head(q)), Rotated)
<1> DEFINE a == Append(Tail(q), Head(q))
           ring == [next EXCEPT ![tail] = head]
<1>1. PICK n \in Nat \ {0} : n = Len(q) /\ DOMAIN q = 1..n
  BY EmptySeq
<1>2. Len(a) = n /\ \A i \in 1..n : a[i] = IF i = n THEN q[1] ELSE q[i + 1]
  BY <1>1, RotationAt
<1>3. /\ head = q[1] /\ tail = q[n]
      /\ \A i \in 1..n : q[i] \in Users /\ next[q[i]] = After(q, i)
  BY <1>1 DEF Linked, List, After
<1>4. \A i, j \in 1..n : q[i] = q[j] => i = j
  BY <1>1 DEF QueuedOnce
<1>5. next \in [Users -> Users \cup {NIL}] /\ head \in Users /\ tail \in Users
  BY <1>1, <1>3 DEF TypeOK
<1>6. \A v \in Users : ring[v] = IF v = tail THEN head ELSE next[v]
  BY <1>5
<1>7. \A i \in 1..n : ring[q[i]] = a[i]
  <2> SUFFICES ASSUME NEW i \in 1..n
               PROVE  ring[q[i]] = a[i]
    OBVIOUS
  <2>1. CASE i = n
    BY <1>2, <1>3, <1>6, <2>1
  <2>2. CASE i # n
    <3>1. q[i] # tail /\ i < Len(q)
      BY <1>1, <1>3, <1>4, <2>2
    <3> QED  BY <1>2, <1>3, <1>6, <2>2, <3>1 DEF After
  <2> QED  BY <2>1, <2>2
<1> DEFINE nx == [ring EXCEPT ![head] = NIL]
<1>8. \A v \in Users : nx[v] = IF v = head THEN NIL ELSE ring[v]
  BY <1>5
<1>13. nx \in [Users -> Users \cup {NIL}]
  BY <1>5
<1>9. Rotated = [head |-> ring[head], tail |-> head, next |-> nx]
  BY DEF Rotated
<1> HIDE DEF a, ring, nx
<1>10. ring[head] = After(a, 0)
  <2>1. 1 \in 1..n /\ 0 < n
    BY <1>1
  <2> QED  BY <1>2, <1>3, <1>7, <2>1 DEF After
<1>11. \A i \in 1..n : nx[a[i]] = After(a, i)
  <2> SUFFICES ASSUME NEW i \in 1..n
               PROVE  nx[a[i]] = After(a, i)
    OBVIOUS
  <2>1. CASE i = n
    BY <1>2, <1>3, <1>5, <1>8, <2>1 DEF After
  <2>2. CASE i # n
    <3>1. i + 1 \in 1..n /\ i < n /\ i + 1 # 1 /\ 1 \in 1..n
      BY <1>1, <2>2
    <3>2. a[i] = q[i + 1] /\ q[i + 1] # head /\ q[i + 1] \in Users
      BY <1>2, <1>3, <1>4, <2>2, <3>1
    <3>3. nx[a[i]] = a[i + 1]
      BY <1>7, <1>8, <3>1, <3>2
    <3> QED  BY <1>2, <3>1, <3>3 DEF After
  <2> QED  BY <2>1, <2>2
<1>12. a[Len(a)] = head
  BY <1>1, <1>2, <1>3
<1> QED  BY <1>2, <1>9, <1>10, <1>11, <1>12, <1>13 DEF Threaded, Linked, a

\* A process other than the head is moved to the front.
LEMMA PromotedLinked ==
  ASSUME NEW q \in Seq(Users), QueuedOnce(q), NEW l, Threaded(q, l),
         NEW p \in 1..Len(q), p # 1
  PROVE  Threaded(AtFront(Without(q, q[p]), q[p]), Promote(l, q[p - 1]))
<1>1. PICK n \in Nat : n = Len(q) /\ p \in 2..n /\ p - 1 \in 1..n /\ DOMAIN q = 1..n
  OBVIOUS
<1> DEFINE u == q[p]
           b == q[p - 1]
           w == Without(q, u)
           f == [l.next EXCEPT ![b] = l.next[u]]
           m == [head |-> l.head, tail |-> IF l.tail = u THEN b ELSE l.tail, next |-> f]
           r == [head |-> u, tail |-> IF l.tail = u THEN b ELSE l.tail,
                 next |-> [f EXCEPT ![u] = l.head]]
<1> USE DEF Threaded
<1>2. u \in Users /\ b \in Users /\ u # b /\ q # << >>
  BY <1>1 DEF QueuedOnce
<1>3. l.next[b] = u
  <2>1. l.next[b] = After(q, p - 1)
    BY <1>1 DEF Linked
  <2> QED  BY <1>1, <2>1 DEF After
<1>4. Promote(l, b) = r
  BY <1>3 DEF Promote
<1>5. \A v \in Users : f[v] = IF v = b THEN l.next[u] ELSE l.next[v]
  BY <1>2
<1>6. \A v \in Users : r.next[v] = IF v = u THEN l.head ELSE f[v]
  <2>1. \A v \in Users : [f EXCEPT ![u] = l.head][v] = IF v = u THEN l.head ELSE f[v]
    OBVIOUS
  <2> QED  BY <2>1
<1>7. /\ m.head = l.head /\ m.next = f /\ r.head = u /\ r.tail = m.tail
      /\ m.tail = IF l.tail = u THEN b ELSE l.tail
  OBVIOUS
<1>8. l.head # NIL /\ l.head \in Users
  BY <1>1, NilAssumption DEF Linked, After
<1>12. r.next \in [Users -> Users \cup {NIL}]
  <2>1. f \in [Users -> Users \cup {NIL}]
    BY <1>2
  <2>2. [f EXCEPT ![u] = l.head] \in [Users -> Users \cup {NIL}]
    BY <1>8, <2>1
  <2> QED  BY <2>2
<1>9. w \in Seq(Users) /\ u \notin Members(w)
  BY <1>1, WithoutKeepsOthers
<1> HIDE DEF u, b, w, f, m, r
<1>10. Linked(w, m)
  BY <1>1, <1>2, <1>5, <1>7, OtherUnlinked DEF u, b, w
<1>11. Linked(AtFront(w, u), r)
  BY <1>2, <1>6, <1>7, <1>8, <1>9, <1>10, FrontLinked
<1> QED  BY <1>4, <1>11, <1>12 DEF u, b, w

-----------------------------------------------------------------------------
(* The loop of sched *)

\* Queue q with the first member of group h in front.
Moved(q, h) == AtFront(Without(q, FirstOf(q, group, h)), FirstOf(q, group, h))

\* A head that is brought to the front stays where it is.
LEMMA HeadStays ==
  ASSUME NEW q \in Seq(Users), QueuedOnce(q), q # << >>
  PROVE  AtFront(Without(q, q[1]), q[1]) = q
<1>1. PICK n \in Nat : n = Len(q) /\ n > 0
  OBVIOUS
<1> DEFINE w == Without(q, q[1])
<1>2. 1 \in 1..Len(q) /\ q[1] \in Users
  BY <1>1
<1>3. w \in Seq(Users) /\ Len(w) = n - 1 /\ \A j \in 1..(n - 1) : w[j] = q[j + 1]
  <2>1. \A j \in 1..(n - 1) : ~ (j < 1)
    BY <1>1
  <2> QED  BY <1>1, <1>2, <2>1, WithoutPosition, WithoutKeepsOthers
<1> HIDE DEF w
<1> DEFINE f == AtFront(w, q[1])
<1>4. f \in Seq(Users) /\ Len(f) = n
  BY <1>1, <1>2, <1>3 DEF AtFront
<1>5. f[1] = q[1] /\ \A j \in 1..(n - 1) : f[j + 1] = w[j]
  BY <1>1, <1>2, <1>3 DEF AtFront
<1> HIDE DEF f
<1>6. \A i \in 1..n : f[i] = q[i]
  <2> SUFFICES ASSUME NEW i \in 1..n
               PROVE  f[i] = q[i]
    OBVIOUS
  <2>1. CASE i = 1
    BY <1>5, <2>1
  <2>2. CASE i # 1
    <3>1. i - 1 \in 1..(n - 1) /\ i - 1 + 1 = i
      BY <1>1, <2>2
    <3> QED  BY <1>3, <1>5, <3>1
  <2> QED  BY <2>1, <2>2
<1>7. f = q
  BY <1>1, <1>4, <1>6
<1> QED  BY <1>7 DEF f, w

\* A list whose loop is entered with group h.
Entered(q, l, h) ==
  /\ q \in Seq(Users) /\ QueuedOnce(q) /\ q # << >> /\ Threaded(q, l)
  /\ group \in [Users -> Groups] /\ h \in Groups

\* If a process of the group is queued, the loop ends with the first one in
\* front.
LEMMA TurnTaken ==
  ASSUME NEW q, NEW l, NEW h, Entered(q, l, h), \E u \in Members(q) : group[u] = h
  PROVE  IF group[l.head] = h THEN Threaded(Moved(q, h), l)
         ELSE /\ l.next[Stop(l, h)] # NIL
              /\ Threaded(Moved(q, h), Promote(l, Stop(l, h)))
<1>1. /\ q \in Seq(Users) /\ QueuedOnce(q) /\ q # << >> /\ Linked(q, l)
      /\ l.next \in [Users -> Users \cup {NIL}] /\ group \in [Users -> Groups]
  BY DEF Entered, Threaded
<1>2. PICK n \in Nat : n = Len(q) /\ n > 0 /\ DOMAIN q = 1..n
  BY <1>1
<1>3. PICK p \in 1..n : /\ FirstOf(q, group, h) = q[p] /\ group[q[p]] = h
                        /\ \A j \in 1..(p - 1) : group[q[j]] # h
  <2>1. \E i \in 1..Len(q) : /\ FirstOf(q, group, h) = q[i]
                             /\ group[q[i]] = h
                             /\ \A j \in 1..(i - 1) : group[q[j]] # h
    BY <1>1, FirstOfIsFirst
  <2> QED  BY <1>2, <2>1
<1>4. \A i \in 1..n : q[i] \in Users /\ q[i] # NIL /\ l.next[q[i]] = After(q, i)
  BY <1>1, <1>2, NilAssumption DEF Linked
<1>5. l.head = q[1]
  BY <1>1, <1>2 DEF Linked, After
<1>6. Moved(q, h) = AtFront(Without(q, q[p]), q[p])
  BY <1>3 DEF Moved
<1>7. CASE p = 1
  BY <1>1, <1>3, <1>5, <1>6, <1>7, HeadStays DEF Threaded
<1>8. CASE p # 1
  <2>1. 1 \in 1..(p - 1) /\ p - 1 \in 1..Len(q) /\ p - 1 < Len(q) /\ p \in 1..Len(q)
    BY <1>2, <1>8
  <2>2. group[l.head] # h
    BY <1>3, <1>5, <2>1
  <2> DEFINE ends == {v \in Users : l.next[v] = NIL \/ group[l.next[v]] = h}
  <2>3. q[p - 1] \in ends
    <3>1. l.next[q[p - 1]] = q[p]
      BY <1>2, <1>4, <2>1 DEF After
    <3> QED  BY <1>2, <1>3, <1>4, <2>1, <3>1
  <2>4. \A j \in 1..(p - 1 - 1) : q[j] \notin ends
    <3> SUFFICES ASSUME NEW j \in 1..(p - 1 - 1)
                 PROVE  q[j] \notin ends
      OBVIOUS
    <3>1. j \in 1..n /\ j < Len(q) /\ j + 1 \in 1..(p - 1) /\ j + 1 \in 1..n
      BY <1>2
    <3>2. l.next[q[j]] = q[j + 1]
      BY <1>4, <3>1 DEF After
    <3> QED  BY <1>3, <1>4, <3>1, <3>2
  <2> HIDE DEF ends
  <2>5. Search(l, ends) = q[p - 1]
    BY <1>1, <2>1, <2>3, <2>4, SearchEnds
  <2>6. Stop(l, h) = q[p - 1]
    BY <2>5 DEF Stop, ends
  <2>7. l.next[q[p - 1]] # NIL
    BY <1>2, <1>4, <2>1 DEF After
  <2>8. Threaded(Moved(q, h), Promote(l, q[p - 1]))
    BY <1>1, <1>6, <1>8, <2>1, PromotedLinked DEF Threaded
  <2> QED  BY <2>2, <2>6, <2>7, <2>8
<1> QED  BY <1>7, <1>8

\* If none is, the loop goes on with the next group.
LEMMA TurnPassed ==
  ASSUME NEW q, NEW l, NEW h, Entered(q, l, h), ~ \E u \in Members(q) : group[u] = h
  PROVE  group[l.head] # h /\ l.next[Stop(l, h)] = NIL
<1>1. /\ q \in Seq(Users) /\ QueuedOnce(q) /\ q # << >> /\ Linked(q, l)
      /\ l.next \in [Users -> Users \cup {NIL}] /\ group \in [Users -> Groups]
  BY DEF Entered, Threaded
<1>2. PICK n \in Nat : n = Len(q) /\ n > 0 /\ DOMAIN q = 1..n
  BY <1>1
<1>3. \A i \in 1..n : /\ q[i] \in Users /\ q[i] # NIL /\ l.next[q[i]] = After(q, i)
                      /\ group[q[i]] # h
  BY <1>1, <1>2, NilAssumption DEF Linked, Members
<1>4. l.head = q[1] /\ 1 \in 1..n /\ n \in 1..Len(q)
  BY <1>1, <1>2 DEF Linked, After
<1> DEFINE ends == {v \in Users : l.next[v] = NIL \/ group[l.next[v]] = h}
<1>5. l.next[q[n]] = NIL
  BY <1>2, <1>3, <1>4 DEF After
<1>6. \A j \in 1..(n - 1) : q[j] \notin ends
  <2> SUFFICES ASSUME NEW j \in 1..(n - 1)
               PROVE  q[j] \notin ends
    OBVIOUS
  <2>1. j \in 1..n /\ j < Len(q) /\ j + 1 \in 1..n
    BY <1>2
  <2>2. l.next[q[j]] = q[j + 1]
    BY <1>3, <2>1 DEF After
  <2> QED  BY <1>3, <2>1, <2>2
<1>7. q[n] \in ends
  BY <1>3, <1>4, <1>5
<1> HIDE DEF ends
<1>8. Search(l, ends) = q[n]
  BY <1>1, <1>4, <1>6, <1>7, SearchEnds
<1>9. Stop(l, h) = q[n]
  BY <1>8 DEF Stop, ends
<1> QED  BY <1>3, <1>4, <1>5, <1>9

\* The order in which the groups follow each other.
LEMMA Turns ==
  ASSUME NEW g \in Groups
  PROVE  /\ (g + 1) % 3 \in Groups /\ (g + 2) % 3 \in Groups
         /\ (((g + 1) % 3) + 1) % 3 = (g + 2) % 3
         /\ (((g + 1) % 3) + 2) % 3 = g
         /\ (((g + 2) % 3) + 1) % 3 = g
         /\ Groups = {g, (g + 1) % 3, (g + 2) % 3}
         /\ (((g + 1) % 3) - g - 1) % 3 = 0
         /\ (((g + 2) % 3) - g - 1) % 3 = 1
         /\ (g - g - 1) % 3 = 2
<1>1. Groups = {0, 1, 2}
  BY DEF Groups
<1>2. g = 0 \/ g = 1 \/ g = 2
  BY <1>1
<1>3. /\ (((g + 1) % 3) + 1) % 3 = (g + 2) % 3
      /\ (((g + 1) % 3) + 2) % 3 = g
      /\ (((g + 2) % 3) + 1) % 3 = g
  BY <1>2
<1>4. /\ (((g + 1) % 3) - g - 1) % 3 = 0
      /\ (((g + 2) % 3) - g - 1) % 3 = 1
      /\ (g - g - 1) % 3 = 2
  BY <1>2
<1>5. Groups = {g, (g + 1) % 3, (g + 2) % 3}
  <2>1. CASE g = 0
    <3>1. (g + 1) % 3 = 1 /\ (g + 2) % 3 = 2
      BY <2>1
    <3> QED  BY <1>1, <2>1, <3>1
  <2>2. CASE g = 1
    <3>1. (g + 1) % 3 = 2 /\ (g + 2) % 3 = 0
      BY <2>2
    <3> QED  BY <1>1, <2>2, <3>1
  <2>3. CASE g = 2
    <3>1. (g + 1) % 3 = 0 /\ (g + 2) % 3 = 1
      BY <2>3
    <3> QED  BY <1>1, <2>3, <3>1
  <2> QED  BY <1>2, <2>1, <2>2, <2>3
<1> QED  BY <1>3, <1>4, <1>5

\* The loop brings that group its turn which is next to group g.
LEMMA GroupBrought ==
  ASSUME NEW q, NEW l, NEW g, Entered(q, l, g)
  PROVE  Threaded(Moved(q, NextGroup(q, group, g)), BringGroup(l, (g + 1) % 3))
<1> DEFINE Taken(h)  == group[l.head] = h
           Passed(h) == l.next[Stop(l, h)] = NIL
           Goes(h)   == ~ Taken(h) /\ Passed(h)
           End(h)    == IF Taken(h) THEN l ELSE Promote(l, Stop(l, h))
           Loops(f)  == f = [h \in Groups |-> IF Taken(h) THEN l
                                              ELSE IF Passed(h) THEN f[(h + 1) % 3]
                                              ELSE Promote(l, Stop(l, h))]
           loop == CHOOSE f : Loops(f)
           Here(h) == \E u \in Members(q) : group[u] = h
<1>1. /\ q \in Seq(Users) /\ QueuedOnce(q) /\ q # << >> /\ Linked(q, l)
      /\ l.next \in [Users -> Users \cup {NIL}] /\ group \in [Users -> Groups]
      /\ g \in Groups
  BY DEF Entered, Threaded
<1>2. BringGroup(l, (g + 1) % 3) = loop[(g + 1) % 3]
  BY DEF BringGroup
<1>3. \A h \in Groups : (h + 1) % 3 \in Groups /\ Entered(q, l, h)
  BY DEF Groups, Entered, Threaded
<1>4. \A h \in Groups : Here(h) => ~ Goes(h) /\ Threaded(Moved(q, h), End(h))
  <2> SUFFICES ASSUME NEW h \in Groups, Here(h)
               PROVE  ~ Goes(h) /\ Threaded(Moved(q, h), End(h))
    OBVIOUS
  <2>1. IF group[l.head] = h THEN Threaded(Moved(q, h), l)
        ELSE /\ l.next[Stop(l, h)] # NIL
             /\ Threaded(Moved(q, h), Promote(l, Stop(l, h)))
    BY <1>3, TurnTaken
  <2> QED  BY <2>1
<1>5. \A h \in Groups : ~ Here(h) => Goes(h)
  <2> SUFFICES ASSUME NEW h \in Groups, ~ Here(h)
               PROVE  Goes(h)
    OBVIOUS
  <2> QED  BY <1>3, TurnPassed
<1>6. Here(0) \/ Here(1) \/ Here(2)
  <2>1. 1 \in DOMAIN q /\ q[1] \in Users
    BY <1>1
  <2>2. q[1] \in Members(q) /\ group[q[1]] \in {0, 1, 2}
    BY <1>1, <2>1 DEF Members, Groups
  <2> QED  BY <2>2
<1>7. \A f : Loops(f) <=> f = [h \in Groups |-> IF Goes(h) THEN f[(h + 1) % 3] ELSE End(h)]
  OBVIOUS
<1> HIDE DEF Here, Loops, Goes, End, Taken, Passed
<1>8. \E f : Loops(f)
  <2> DEFINE f == [h \in Groups |-> IF ~ Goes(h) THEN End(h)
                                    ELSE IF ~ Goes((h + 1) % 3) THEN End((h + 1) % 3)
                                    ELSE End((h + 2) % 3)]
  <2>1. \A h \in Groups : f[h] = IF Goes(h) THEN f[(h + 1) % 3] ELSE End(h)
    <3> SUFFICES ASSUME NEW h \in Groups, Goes(h)
                 PROVE  f[h] = f[(h + 1) % 3]
      OBVIOUS
    <3>1. /\ (((h + 1) % 3) + 1) % 3 = (h + 2) % 3 /\ (((h + 1) % 3) + 2) % 3 = h
          /\ (h + 1) % 3 \in Groups /\ (h + 2) % 3 \in Groups
          /\ {h, (h + 1) % 3, (h + 2) % 3} = {0, 1, 2}
      BY Turns DEF Groups
    <3>2. ~ Goes((h + 1) % 3) \/ ~ Goes((h + 2) % 3)
      BY <1>4, <1>6, <3>1
    <3>3. f[h] = IF ~ Goes((h + 1) % 3) THEN End((h + 1) % 3) ELSE End((h + 2) % 3)
      OBVIOUS
    <3>4. f[(h + 1) % 3] = IF ~ Goes((h + 1) % 3) THEN End((h + 1) % 3)
                           ELSE IF ~ Goes((h + 2) % 3) THEN End((h + 2) % 3) ELSE End(h)
      BY <3>1
    <3> QED  BY <3>2, <3>3, <3>4
  <2>2. f = [h \in Groups |-> f[h]]
    OBVIOUS
  <2> HIDE DEF f
  <2>3. f = [h \in Groups |-> IF Goes(h) THEN f[(h + 1) % 3] ELSE End(h)]
    BY <2>1, <2>2
  <2> QED  BY <1>7, <2>3
<1>9. Loops(loop)
  BY <1>8
<1> HIDE DEF loop
<1>10. loop = [h \in Groups |-> IF Goes(h) THEN loop[(h + 1) % 3] ELSE End(h)]
  BY <1>7, <1>9
<1>11. \A h \in Groups : loop[h] = IF Goes(h) THEN loop[(h + 1) % 3] ELSE End(h)
  BY <1>10
<1> DEFINE t == NextGroup(q, group, g)
<1>12. /\ t \in Groups /\ Here(t)
       /\ \A h \in Groups : Here(h) => (t - g - 1) % 3 <= (h - g - 1) % 3
  <2>1. Members(q) # {} /\ \A u \in Members(q) : group[u] \in Groups
    <3>1. 1 \in DOMAIN q /\ \A i \in DOMAIN q : q[i] \in Users
      BY <1>1
    <3> QED  BY <1>1, <3>1 DEF Members
  <2> QED  BY <1>1, <2>1, NextGroupIsNext DEF Here
<1> HIDE DEF t
<1>13. CASE t = (g + 1) % 3
  BY <1>2, <1>4, <1>11, <1>12, <1>13 DEF t
<1>14. CASE t = (g + 2) % 3
  <2>1. /\ (g + 1) % 3 \in Groups /\ (((g + 1) % 3) + 1) % 3 = t
        /\ (t - g - 1) % 3 = 1 /\ (((g + 1) % 3) - g - 1) % 3 = 0
    BY <1>1, <1>14, Turns
  <2>2. ~ Here((g + 1) % 3)
    <3>1. ~ ((t - g - 1) % 3 <= (((g + 1) % 3) - g - 1) % 3)
      BY <2>1
    <3> QED  BY <1>12, <2>1, <3>1
  <2>3. loop[(g + 1) % 3] = loop[t]
    BY <1>5, <1>11, <2>1, <2>2
  <2>4. loop[t] = End(t)
    BY <1>4, <1>11, <1>12
  <2> QED  BY <1>2, <1>4, <1>12, <2>3, <2>4 DEF t
<1>15. CASE t = g
  <2>1. /\ (g + 1) % 3 \in Groups /\ (g + 2) % 3 \in Groups
        /\ (((g + 1) % 3) + 1) % 3 = (g + 2) % 3 /\ (((g + 2) % 3) + 1) % 3 = g
        /\ (t - g - 1) % 3 = 2 /\ (((g + 1) % 3) - g - 1) % 3 = 0
        /\ (((g + 2) % 3) - g - 1) % 3 = 1
    BY <1>1, <1>15, Turns
  <2>2. ~ Here((g + 1) % 3) /\ ~ Here((g + 2) % 3)
    <3>1. /\ ~ ((t - g - 1) % 3 <= (((g + 1) % 3) - g - 1) % 3)
          /\ ~ ((t - g - 1) % 3 <= (((g + 2) % 3) - g - 1) % 3)
      BY <2>1
    <3> QED  BY <1>12, <2>1, <3>1
  <2>3. loop[(g + 1) % 3] = loop[t]
    BY <1>5, <1>11, <1>15, <2>1, <2>2
  <2>4. loop[t] = End(t)
    BY <1>4, <1>11, <1>12
  <2> QED  BY <1>2, <1>4, <1>12, <2>3, <2>4 DEF t
<1>16. t = (g + 1) % 3 \/ t = (g + 2) % 3 \/ t = g
  <2>1. t \in {g, (g + 1) % 3, (g + 2) % 3}
    BY <1>1, <1>12, Turns
  <2> QED  BY <2>1
<1> QED  BY <1>13, <1>14, <1>15, <1>16

-----------------------------------------------------------------------------
(* The inductive invariant *)

\* The list links each of the runnable processes once, and no other.
IInv ==
  /\ TypeOK
  /\ Chain \in Seq(Users) /\ QueuedOnce(Chain)
  /\ Linked(Chain, List)
  /\ Members(Chain) = {u \in Users : state[u] = "runnable"}

\* What has to be known of the state after a step for the invariant to hold
\* there, if q is then the queue.
LEMMA Established ==
  ASSUME NEW q \in Seq(Users), QueuedOnce(q), TypeOK', Linked(q, List'),
         Members(q) = {u \in Users : state'[u] = "runnable"}
  PROVE  IInv' /\ Chain' = q
<1>1. ChainOf(List') = q
  BY ChainIsQueue
<1>2. Chain' = ChainOf(List')
  BY DEF Chain, ChainOf, Pointers
<1> QED  BY <1>1, <1>2 DEF IInv

\* Main starts with INIT alone on the list.
LEMMA Initially ==
  ASSUME Init
  PROVE  IInv /\ Chain = <<InitProc>>
<1> DEFINE q == <<InitProc>>
<1>1. q \in Seq(Users) /\ Len(q) = 1 /\ q[1] = InitProc /\ DOMAIN q = 1..1
  BY InitProcAssumption
<1> HIDE DEF q
<1>2. QueuedOnce(q) /\ Members(q) = {InitProc} /\ q # << >>
  BY <1>1 DEF QueuedOnce, Members
<1>3. TypeOK
  BY InitProcAssumption DEF Init, TypeOK, Groups, States
<1>4. Linked(q, List)
  <2>1. After(q, 0) = InitProc /\ After(q, 1) = NIL
    BY <1>1 DEF After
  <2> QED  BY <1>1, <2>1, InitProcAssumption DEF Init, Linked, List
<1>5. Chain = q
  BY <1>1, <1>2, <1>4, ChainIsQueue DEF Chain
<1>6. Members(q) = {u \in Users : state[u] = "runnable"}
  BY <1>2, InitProcAssumption DEF Init
<1> QED  BY <1>1, <1>2, <1>3, <1>4, <1>5, <1>6 DEF IInv, q

\* A linked process is unlinked, wherever it is.
LEMMA UnlinkRemoves ==
  ASSUME IInv, NEW u \in Users, state[u] = "runnable", Unlink(u)
  PROVE  /\ Linked(Without(Chain, u), List')
         /\ head' \in Users \cup {NIL} /\ tail' \in Users
         /\ next' \in [Users -> Users \cup {NIL}]
<1> DEFINE q == Chain
<1>1. /\ q \in Seq(Users) /\ QueuedOnce(q) /\ Linked(q, List) /\ u \in Members(q)
      /\ head \in Users \cup {NIL} /\ tail \in Users
      /\ next \in [Users -> Users \cup {NIL}]
  BY DEF IInv, TypeOK
<1> HIDE DEF q
<1>2. PICK p \in 1..Len(q) : q[p] = u
  BY <1>1 DEF Members
<1>3. PICK n \in Nat : n = Len(q) /\ DOMAIN q = 1..n /\ n > 0 /\ p \in 1..n
  BY <1>1, <1>2
<1>4. /\ List.head = head /\ List.tail = tail /\ List.next = next
      /\ List'.head = head' /\ List'.tail = tail' /\ List'.next = next'
  BY DEF List
<1>5. head = q[1] /\ q # << >>
  BY <1>1, <1>3, <1>4 DEF Linked, After
<1>6. \A i \in 1..n : q[i] \in Users /\ q[i] # NIL /\ next[q[i]] = After(q, i)
  BY <1>1, <1>3, <1>4, NilAssumption DEF Linked
<1>7. \A i, j \in 1..n : q[i] = q[j] => i = j
  BY <1>1, <1>3 DEF QueuedOnce
<1>8. CASE p = 1
  <2>1. head = u /\ u # NIL
    BY <1>2, <1>3, <1>5, <1>6, <1>8
  <2>2. head' = next[u] /\ tail' = tail /\ next' = next
    BY <2>1 DEF Unlink
  <2>3. Linked(Without(q, q[1]), List')
    <3>1. /\ List'.head = List.next[q[1]] /\ List'.tail = List.tail
          /\ List'.next = List.next
      BY <1>4, <1>5, <2>1, <2>2
    <3> QED  BY <1>1, <1>5, <3>1, HeadUnlinked
  <2> QED  BY <1>1, <1>2, <1>8, <2>2, <2>3 DEF q
<1>9. CASE p # 1
  <2>1. /\ 1 \in 1..n /\ p - 1 \in 1..n /\ p - 1 < Len(q) /\ p - 1 \in 1..Len(q)
        /\ p - 1 + 1 = p
    BY <1>3, <1>9
  <2>2. head # u /\ head # NIL
    BY <1>2, <1>3, <1>5, <1>6, <1>7, <1>9, <2>1
  <2> DEFINE b == q[p - 1]
             ends == {v \in Users : next[v] \in {u, NIL}}
  <2>3. next[b] = u /\ b \in Users
    BY <1>2, <1>6, <2>1 DEF After
  <2>4. \A j \in 1..(p - 1 - 1) : q[j] \notin ends
    <3> SUFFICES ASSUME NEW j \in 1..(p - 1 - 1)
                 PROVE  q[j] \notin ends
      OBVIOUS
    <3>1. j \in 1..n /\ j < Len(q) /\ j + 1 # p /\ j + 1 \in 1..n
      BY <1>3
    <3>2. next[q[j]] = q[j + 1]
      BY <1>6, <3>1 DEF After
    <3>3. q[j + 1] # u /\ q[j + 1] # NIL
      BY <1>2, <1>3, <1>6, <1>7, <3>1
    <3> QED  BY <3>2, <3>3
  <2>5. b \in ends
    BY <2>3
  <2> HIDE DEF ends
  <2>6. Search(List, ends) = b
    BY <1>1, <2>1, <2>4, <2>5, SearchEnds
  <2>7. Before(u) = b
    BY <2>6 DEF Before, ends
  <2>8. /\ next' = [next EXCEPT ![b] = next[u]]
        /\ tail' = IF tail = u THEN b ELSE tail
        /\ head' = head
    BY <2>2, <2>3, <2>7 DEF Unlink
  <2>9. next'[b] = next[u] /\ \A v \in Users \ {b} : next'[v] = next[v]
    BY <1>1, <2>3, <2>8
  <2>10. Linked(Without(q, u), List')
    <3>1. p \in 1..Len(q) /\ p # 1 /\ b = q[p - 1] /\ u = q[p]
      BY <1>2, <1>9
    <3>2. /\ List'.head = List.head
          /\ List'.tail = IF List.tail = u THEN b ELSE List.tail
          /\ List'.next[b] = List.next[u]
          /\ \A v \in Users \ {b} : List'.next[v] = List.next[v]
      BY <1>4, <2>8, <2>9
    <3> HIDE DEF b
    <3> QED  BY <1>1, <3>1, <3>2, OtherUnlinked
  <2>11. next' \in [Users -> Users \cup {NIL}]
    BY <1>1, <2>3, <2>8
  <2> QED  BY <1>1, <2>3, <2>8, <2>10, <2>11 DEF q
<1> QED  BY <1>8, <1>9

-----------------------------------------------------------------------------
(* The steps *)

\* The queue of the abstract specification is changed by the same operators.
LEMMA SameOperators ==
  ASSUME NEW q, NEW grp, NEW u
  PROVE  /\ Abstract!Members(q) = Members(q)
         /\ Abstract!AtFront(q, u) = AtFront(q, u)
         /\ Abstract!Without(q, u) = Without(q, u)
         /\ Abstract!Scheduled(q, grp) = Scheduled(q, grp)
         /\ Abstract!Groups = Groups
<1>1. /\ Abstract!Members(q) = Members(q)
      /\ Abstract!AtFront(q, u) = AtFront(q, u)
      /\ Abstract!Groups = Groups
  BY DEF Abstract!Members, Members, Abstract!AtFront, AtFront, Abstract!Groups, Groups
<1>2. Abstract!Without(q, u) = Without(q, u)
  BY DEF Abstract!Without, Without, Abstract!Position, Position, Abstract!Members, Members
<1>3. Abstract!Scheduled(q, grp) = Scheduled(q, grp)
  BY DEF Abstract!Scheduled, Scheduled, Abstract!Without, Without, Abstract!Position, Position,
         Abstract!Members, Members, Abstract!AtFront, AtFront, Abstract!FirstOf, FirstOf,
         Abstract!NextGroup, NextGroup, Abstract!Groups, Groups
<1> QED  BY <1>1, <1>2, <1>3

\* ready links the process in front.
LEMMA ReadyStep ==
  ASSUME IInv, NEW u \in Users, Ready(u)
  PROVE  IInv' /\ Abstract!Ready(u)
<1> DEFINE q == Chain
           f == AtFront(q, u)
<1>1. /\ q \in Seq(Users) /\ QueuedOnce(q) /\ Linked(q, List) /\ TypeOK
      /\ Members(q) = {v \in Users : state[v] = "runnable"}
  BY DEF IInv
<1>2. /\ head' = u /\ tail' = (IF head = NIL THEN u ELSE tail)
      /\ next' = [next EXCEPT ![u] = head] /\ group' = group
      /\ state[u] = "blocked" /\ state' = [state EXCEPT ![u] = "runnable"]
  BY DEF Ready, Link, Mark
<1>3. u \notin Members(q)
  BY <1>1, <1>2
<1> HIDE DEF q
<1>4. f \in Seq(Users) /\ QueuedOnce(f) /\ Members(f) = Members(q) \cup {u}
  BY <1>1, <1>3, AtFrontAdds
<1>5. Linked(f, List')
  <2>1. /\ List'.head = u /\ List'.tail = IF List.head = NIL THEN u ELSE List.tail
        /\ List'.next[u] = List.head
        /\ \A v \in Users \ {u} : List'.next[v] = List.next[v]
    BY <1>1, <1>2 DEF List, TypeOK
  <2> QED  BY <1>1, <1>3, <2>1, FrontLinked
<1>6. TypeOK'
  BY <1>1, <1>2 DEF TypeOK, States
<1>7. Members(f) = {v \in Users : state'[v] = "runnable"}
  <2>1. \A v \in Users : state'[v] = IF v = u THEN "runnable" ELSE state[v]
    BY <1>1, <1>2 DEF TypeOK
  <2> QED  BY <1>1, <1>4, <2>1
<1> HIDE DEF f
<1>8. IInv' /\ Chain' = f
  BY <1>4, <1>5, <1>6, <1>7, Established
<1> QED  BY <1>2, <1>3, <1>8, SameOperators DEF Abstract!Ready, f, q

\* A runnable process that leaves the list, to wait or for ever.
LEMMA LeaveStep ==
  ASSUME IInv, NEW u \in Users, state[u] = "runnable", Unlink(u),
         NEW s \in States \ {"runnable"}, Mark(u, s), UNCHANGED group
  PROVE  IInv' /\ Abstract!Unready(u)
<1> DEFINE q == Chain
           w == Without(q, u)
<1>1. /\ q \in Seq(Users) /\ QueuedOnce(q) /\ TypeOK
      /\ Members(q) = {v \in Users : state[v] = "runnable"}
  BY DEF IInv
<1>2. u \in Members(q)
  BY <1>1
<1>3. /\ Linked(w, List')
      /\ head' \in Users \cup {NIL} /\ tail' \in Users
      /\ next' \in [Users -> Users \cup {NIL}]
  BY UnlinkRemoves
<1> HIDE DEF q
<1>4. w \in Seq(Users) /\ QueuedOnce(w) /\ Members(w) = Members(q) \ {u}
  BY <1>1, WithoutKeepsOthers
<1>5. TypeOK'
  BY <1>1, <1>3 DEF TypeOK, Mark
<1>6. Members(w) = {v \in Users : state'[v] = "runnable"}
  <2>1. \A v \in Users : state'[v] = IF v = u THEN s ELSE state[v]
    BY <1>1 DEF TypeOK, Mark
  <2> QED  BY <1>1, <1>4, <2>1
<1> HIDE DEF w
<1>7. IInv' /\ Chain' = w
  BY <1>3, <1>4, <1>5, <1>6, Established
<1> QED  BY <1>2, <1>7, SameOperators DEF Abstract!Unready, w, q

\* sched brings the process to the front whose turn it is.
LEMMA SchedStep ==
  ASSUME IInv, Sched
  PROVE  IInv' /\ Abstract!Sched
<1> DEFINE q == Chain
           r == Append(Tail(q), Head(q))
           list == BringGroup(Rotated, (group[head] + 1) % 3)
<1>1. /\ q \in Seq(Users) /\ QueuedOnce(q) /\ Linked(q, List) /\ TypeOK
      /\ Members(q) = {v \in Users : state[v] = "runnable"}
  BY DEF IInv
<1>2. /\ head # NIL /\ head' = list.head /\ tail' = list.tail /\ next' = list.next
      /\ group' = group /\ state' = state
  BY DEF Sched
<1>3. q # << >> /\ head = Head(q) /\ head \in Users /\ group[head] \in Groups
  <2>1. q # << >> /\ head = q[1]
    BY <1>1, <1>2 DEF Linked, List, After
  <2> QED  BY <1>1, <1>2, <2>1 DEF TypeOK
<1> HIDE DEF q
<1>4. /\ r \in Seq(Users) /\ r # << >> /\ QueuedOnce(r) /\ Members(r) = Members(q)
  BY <1>1, <1>3, RotationKeepsAll
<1>5. Threaded(r, Rotated)
  BY <1>1, <1>3, RotatedLinked
<1> HIDE DEF r, list
<1> DEFINE t == NextGroup(r, group, group[head])
<1>6. Threaded(Moved(r, t), list)
  <2>1. Entered(r, Rotated, group[head])
    BY <1>1, <1>3, <1>4, <1>5 DEF Entered, TypeOK
  <2> QED  BY <2>1, GroupBrought DEF list
<1>7. Scheduled(q, group) = Moved(r, t)
  BY <1>3 DEF Scheduled, Moved, r
<1> HIDE DEF t
<1> DEFINE m == Moved(r, t)
<1>8. m \in Seq(Users) /\ QueuedOnce(m) /\ Members(m) = Members(q) /\ m # << >>
  <2>1. m \in Seq(Users) /\ QueuedOnce(m) /\ Members(m) = Members(q)
    BY <1>1, <1>7, SchedPreempts DEF TypeOK
  <2>2. Head(q) \in Members(q)
    BY <1>1, <1>3 DEF Members
  <2>3. m = << >> => Members(m) = {}
    BY DEF Members
  <2> QED  BY <2>1, <2>2, <2>3
<1> HIDE DEF m
<1>9. Linked(m, List')
  BY <1>2, <1>6 DEF Threaded, Linked, List, m
<1>10. TypeOK'
  <2>1. list.head \in Users /\ list.tail \in Users
    BY <1>6, <1>8 DEF Threaded, Linked, After, m
  <2> QED  BY <1>1, <1>2, <1>6, <2>1 DEF TypeOK, Threaded
<1>11. IInv' /\ Chain' = m
  BY <1>1, <1>2, <1>8, <1>9, <1>10, Established
<1> QED  BY <1>2, <1>7, <1>11, SameOperators DEF Abstract!Sched, m, q

\* do_setProcGroup changes the group, not the list.
LEMMA SetGroupStep ==
  ASSUME IInv, NEW u \in Users, NEW g \in Groups, SetGroup(u, g)
  PROVE  IInv' /\ Abstract!SetGroup(u, g)
<1>1. /\ group' = [group EXCEPT ![u] = g]
      /\ head' = head /\ tail' = tail /\ next' = next /\ state' = state
  BY DEF SetGroup
<1>2. TypeOK'
  BY <1>1 DEF IInv, TypeOK
<1>3. List' = List
  BY <1>1 DEF List
<1>4. IInv' /\ Chain' = Chain
  <2> DEFINE q == Chain
  <2>1. /\ q \in Seq(Users) /\ QueuedOnce(q) /\ Linked(q, List')
        /\ Members(q) = {v \in Users : state'[v] = "runnable"}
    BY <1>1, <1>3 DEF IInv
  <2> HIDE DEF q
  <2>2. IInv' /\ Chain' = q
    BY <1>2, <2>1, Established
  <2> QED  BY <2>2 DEF q
<1> QED  BY <1>1, <1>4 DEF Abstract!SetGroup

\* do_fork gives the child a stale pointer while it is on no list.
LEMMA ForkStep ==
  ASSUME IInv, NEW parent \in Users, NEW child \in Users, Fork(parent, child)
  PROVE  IInv' /\ Abstract!SetGroup(child, 0)
<1> DEFINE q == Chain
<1>1. /\ q \in Seq(Users) /\ QueuedOnce(q) /\ Linked(q, List) /\ TypeOK
      /\ Members(q) = {v \in Users : state[v] = "runnable"}
  BY DEF IInv
<1>2. /\ state[child] = "free" /\ state' = [state EXCEPT ![child] = "blocked"]
      /\ next' = [next EXCEPT ![child] = next[parent]]
      /\ group' = [group EXCEPT ![child] = 0]
      /\ head' = head /\ tail' = tail
  BY DEF Fork, Mark
<1>3. child \notin Members(q)
  BY <1>1, <1>2
<1>4. TypeOK'
  BY <1>1, <1>2 DEF TypeOK, States, Groups
<1>5. Members(q) = {v \in Users : state'[v] = "runnable"}
  <2>1. \A v \in Users : state'[v] = IF v = child THEN "blocked" ELSE state[v]
    BY <1>1, <1>2 DEF TypeOK
  <2> QED  BY <1>1, <1>2, <2>1
<1> HIDE DEF q
<1>6. Linked(q, List')
  <2>1. \A v \in Users \ {child} : next'[v] = next[v]
    BY <1>1, <1>2 DEF TypeOK
  <2>2. \A i \in 1..Len(q) : q[i] \in Users \ {child}
    BY <1>1, <1>3 DEF Members
  <2> QED  BY <1>1, <1>2, <2>1, <2>2 DEF Linked, List
<1>7. IInv' /\ Chain' = q
  BY <1>1, <1>4, <1>5, <1>6, Established
<1> QED  BY <1>2, <1>7 DEF Abstract!SetGroup, q

\* do_xit takes a process from the list only if it is on it.
LEMMA ExitStep ==
  ASSUME IInv, NEW u \in Users, Exit(u)
  PROVE  IInv' /\ (Abstract!Unready(u) \/ UNCHANGED <<Chain, group>>)
<1>1. CASE state[u] = "runnable"
  <2>1. Unlink(u) /\ Mark(u, "free") /\ UNCHANGED group
    BY <1>1 DEF Exit
  <2>2. "free" \in States \ {"runnable"}
    BY DEF States
  <2> QED  BY <1>1, <2>1, <2>2, LeaveStep
<1>2. CASE state[u] # "runnable"
  <2> DEFINE q == Chain
  <2>1. /\ head' = head /\ tail' = tail /\ next' = next /\ group' = group
        /\ state' = [state EXCEPT ![u] = "free"]
    BY <1>2 DEF Exit, Mark
  <2>2. /\ q \in Seq(Users) /\ QueuedOnce(q) /\ Linked(q, List) /\ TypeOK
        /\ Members(q) = {v \in Users : state[v] = "runnable"}
    BY DEF IInv
  <2>3. TypeOK'
    BY <2>1, <2>2 DEF TypeOK, States
  <2>4. List' = List
    BY <2>1 DEF List
  <2>5. Members(q) = {v \in Users : state'[v] = "runnable"}
    <3>1. \A v \in Users : state'[v] = IF v = u THEN "free" ELSE state[v]
      BY <2>1, <2>2 DEF TypeOK
    <3> QED  BY <1>2, <2>2, <3>1
  <2> HIDE DEF q
  <2>6. IInv' /\ Chain' = q
    BY <2>2, <2>3, <2>4, <2>5, Established
  <2> QED  BY <2>1, <2>6 DEF q
<1> QED  BY <1>1, <1>2

\* Every step keeps the invariant, and is a step on the queue or leaves it
\* and the groups alone.
LEMMA Steps ==
  ASSUME IInv, [Next]_vars
  PROVE  IInv' /\ [Abstract!Next]_(Abstract!vars)
<1>1. CASE Sched
  BY <1>1, SchedStep DEF Abstract!Next
<1>2. ASSUME NEW u \in Users, Ready(u)
      PROVE  IInv' /\ Abstract!Next
  BY <1>2, ReadyStep DEF Abstract!Next
<1>3. ASSUME NEW u \in Users, Unready(u)
      PROVE  IInv' /\ Abstract!Next
  <2>1. state[u] = "runnable" /\ Unlink(u) /\ Mark(u, "blocked") /\ UNCHANGED group
    BY <1>3 DEF Unready
  <2>2. "blocked" \in States \ {"runnable"}
    BY DEF States
  <2> QED  BY <2>1, <2>2, LeaveStep DEF Abstract!Next
<1>4. ASSUME NEW u \in Users, Exit(u)
      PROVE  IInv' /\ [Abstract!Next]_(Abstract!vars)
  BY <1>4, ExitStep DEF Abstract!Next, Abstract!vars
<1>5. ASSUME NEW u \in Users, NEW g \in Groups, SetGroup(u, g)
      PROVE  IInv' /\ Abstract!Next
  BY <1>5, SetGroupStep, SameOperators DEF Abstract!Next
<1>6. ASSUME NEW parent \in Users, NEW child \in Users, Fork(parent, child)
      PROVE  IInv' /\ Abstract!Next
  <2>1. 0 \in Abstract!Groups
    BY DEF Abstract!Groups
  <2> QED  BY <1>6, <2>1, ForkStep DEF Abstract!Next
<1>7. CASE UNCHANGED vars
  <2> DEFINE q == Chain
  <2>1. /\ head' = head /\ tail' = tail /\ next' = next /\ group' = group /\ state' = state
    BY <1>7 DEF vars
  <2>2. /\ q \in Seq(Users) /\ QueuedOnce(q) /\ Linked(q, List')
        /\ Members(q) = {v \in Users : state'[v] = "runnable"} /\ TypeOK'
    BY <2>1 DEF IInv, List, TypeOK
  <2> HIDE DEF q
  <2>3. IInv' /\ Chain' = q
    BY <2>2, Established
  <2> QED  BY <2>1, <2>3 DEF Abstract!vars, q
<1> QED  BY <1>1, <1>2, <1>3, <1>4, <1>5, <1>6, <1>7 DEF Next

\* The list is well formed in every state: what all that follows rests on.
THEOREM ListInvariance == Spec => []IInv
<1>1. Init => IInv
  BY Initially
<1>2. IInv /\ [Next]_vars => IInv'
  BY Steps
<1> QED  BY <1>1, <1>2, PTL DEF Spec

\* The heads and the pointers of the slots never point outside the table.
THEOREM ListTypes == Spec => []TypeOK
<1>1. IInv => TypeOK
  BY DEF IInv
<1> QED  BY <1>1, ListInvariance, PTL

\* No call of ready, unready, sched, fork or exit, in any order, loses a
\* runnable process, leaves one on the list that waits, or leaves rdy_tail
\* anywhere but at the last process.
THEOREM RunnableKept == Spec => []ExactlyRunnable
<1>1. IInv => ExactlyRunnable
  <2> SUFFICES ASSUME IInv
               PROVE  ExactlyRunnable
    OBVIOUS
  <2>1. Chain = << >> => head = NIL
    BY DEF IInv, Linked, List, After
  <2> QED  BY <2>1 DEF IInv, ExactlyRunnable, Linked, List
<1> QED  BY <1>1, ListInvariance, PTL

\* The linked list implements the queue: Scheduled names the process that
\* the pointers and the loop of sched bring to the front.
THEOREM ListImplementsQueue == Spec => RefinesUserQueue
<1>1. Init => Abstract!Init
  BY Initially DEF Init, Abstract!Init
<1>2. IInv /\ [Next]_vars => [Abstract!Next]_(Abstract!vars)
  BY Steps
<1> QED  BY <1>1, <1>2, ListInvariance, PTL DEF Spec, RefinesUserQueue, Abstract!Spec

=============================================================================
