------------------------------ MODULE QueueProofs ------------------------------
(***************************************************************************)
(* Facts about the queues of the labs that the proofs of several           *)
(* components rest on: how each operation changes the parities in the      *)
(* buffer of labs 3 and 4, what ready, unready and sched do to the queue   *)
(* of user processes of lab 2, and what holds for all queues.              *)
(***************************************************************************)
EXTENDS ParityRules, GroupQueue, FiniteSetTheorems, SequenceTheorems,
        WellFoundedInduction, TLAPS

-----------------------------------------------------------------------------
(* The buffer of labs 3 and 4 *)

\* The counts of a buffer are natural numbers that add up to its length.
LEMMA CountsAddUp ==
  ASSUME NEW b \in Seq(Parity)
  PROVE  /\ IsFiniteSet(EvenPositions(b))
         /\ EvenCount(b) \in Nat
         /\ OddCount(b) \in Nat
         /\ Len(b) \in Nat
         /\ EvenCount(b) + OddCount(b) = Len(b)
<1>1. Len(b) \in Nat /\ DOMAIN b = 1..Len(b)
  BY LenProperties
<1>2. EvenPositions(b) \in SUBSET (1..Len(b))
  BY <1>1 DEF EvenPositions
<1>3. IsFiniteSet(1..Len(b)) /\ Cardinality(1..Len(b)) = Len(b)
  BY <1>1, FS_Interval
<1>4. IsFiniteSet(EvenPositions(b)) /\ Cardinality(EvenPositions(b)) <= Len(b)
  BY <1>2, <1>3, FS_Subset
<1>5. Cardinality(EvenPositions(b)) \in Nat
  BY <1>4, FS_CardinalityType
<1> QED
  BY <1>1, <1>4, <1>5 DEF EvenCount, OddCount

\* push_back of an even number.
LEMMA AppendEven ==
  ASSUME NEW b \in Seq(Parity)
  PROVE  /\ Append(b, "even") \in Seq(Parity)
         /\ EvenCount(Append(b, "even")) = EvenCount(b) + 1
         /\ OddCount(Append(b, "even")) = OddCount(b)
<1> DEFINE a == Append(b, "even")
<1>1. /\ a \in Seq(Parity)
      /\ Len(a) = Len(b) + 1
      /\ \A i \in 1..Len(b) : a[i] = b[i]
      /\ a[Len(b) + 1] = "even"
  BY AppendProperties DEF Parity
<1>2. DOMAIN a = 1..Len(a) /\ DOMAIN b = 1..Len(b)
  BY <1>1, LenProperties
<1>3. Len(b) \in Nat
  BY CountsAddUp
<1> HIDE DEF a
<1>4. EvenPositions(a) = EvenPositions(b) \cup {Len(b) + 1}
  BY <1>1, <1>2, <1>3 DEF EvenPositions
<1>5. Len(b) + 1 \notin EvenPositions(b)
  BY <1>2, <1>3 DEF EvenPositions
<1>6. Cardinality(EvenPositions(a)) = Cardinality(EvenPositions(b)) + 1
  BY <1>4, <1>5, CountsAddUp, FS_AddElement
<1>7. EvenCount(a) = EvenCount(b) + 1
  BY <1>6 DEF EvenCount
<1> QED
  BY <1>1, <1>3, <1>7, CountsAddUp DEF a, OddCount

\* push_back of an odd number.
LEMMA AppendOdd ==
  ASSUME NEW b \in Seq(Parity)
  PROVE  /\ Append(b, "odd") \in Seq(Parity)
         /\ EvenCount(Append(b, "odd")) = EvenCount(b)
         /\ OddCount(Append(b, "odd")) = OddCount(b) + 1
<1> DEFINE a == Append(b, "odd")
<1>1. /\ a \in Seq(Parity)
      /\ Len(a) = Len(b) + 1
      /\ \A i \in 1..Len(b) : a[i] = b[i]
      /\ a[Len(b) + 1] = "odd"
  BY AppendProperties DEF Parity
<1>2. DOMAIN a = 1..Len(a) /\ DOMAIN b = 1..Len(b)
  BY <1>1, LenProperties
<1>3. Len(b) \in Nat
  BY CountsAddUp
<1> HIDE DEF a
<1>4. EvenPositions(a) = EvenPositions(b)
  BY <1>1, <1>2, <1>3 DEF EvenPositions
<1>5. EvenCount(a) = EvenCount(b)
  BY <1>4 DEF EvenCount
<1> QED
  BY <1>1, <1>3, <1>5, CountsAddUp DEF a, OddCount

\* pop_front: neither count grows.
LEMMA TailShrinks ==
  ASSUME NEW b \in Seq(Parity), b # << >>
  PROVE  /\ Tail(b) \in Seq(Parity)
         /\ EvenCount(Tail(b)) <= EvenCount(b)
         /\ OddCount(Tail(b)) <= OddCount(b)
<1> DEFINE c == Tail(b)
           E == EvenPositions(b)
           F == EvenPositions(c)
           shift == [i \in F |-> i + 1]
<1>1. /\ Head(b) \in Parity
      /\ c \in Seq(Parity)
      /\ Len(c) = Len(b) - 1
      /\ \A i \in 1..Len(c) : c[i] = b[i + 1]
  BY HeadTailProperties
<1>2. /\ DOMAIN c = 1..Len(c) /\ DOMAIN b = 1..Len(b)
      /\ Len(c) \in Nat /\ Len(b) \in Nat
  BY <1>1, LenProperties
<1> HIDE DEF c
<1>3. IsFiniteSet(E) /\ IsFiniteSet(F) /\ IsFiniteSet(E \ {1})
  BY <1>1, CountsAddUp, FS_RemoveElement
<1>4. shift \in Bijection(F, E \ {1})
  <2>1. \A i \in F : i \in Int /\ i + 1 \in E \ {1}
    BY <1>1, <1>2 DEF EvenPositions
  <2>2. shift \in [F -> E \ {1}]
    BY <2>1
  <2>3. \A i, j \in F : shift[i] = shift[j] => i = j
    BY <2>1
  <2>4. \A j \in E \ {1} : \E i \in F : shift[i] = j
    <3> TAKE j \in E \ {1}
    <3>1. j \in 2..Len(b) /\ b[j] = "even"
      BY <1>2 DEF EvenPositions
    <3>2. j - 1 \in 1..Len(c) /\ c[j - 1] = b[j - 1 + 1] /\ j - 1 + 1 = j
      BY <3>1, <1>1, <1>2
    <3>3. j - 1 \in F
      BY <3>1, <3>2, <1>2 DEF EvenPositions
    <3> WITNESS j - 1 \in F
    <3> QED BY <3>2, <3>3
  <2> QED
    BY <2>2, <2>3, <2>4 DEF Bijection, Injection, Surjection, IsInjective
<1>5. Cardinality(F) = Cardinality(E \ {1})
  <2>1. ExistsBijection(F, E \ {1})
    BY <1>4 DEF ExistsBijection
  <2> QED
    BY <2>1, <1>3, FS_Bijection
<1>6. Cardinality(E \ {1}) = IF 1 \in E THEN Cardinality(E) - 1 ELSE Cardinality(E)
  BY <1>3, FS_RemoveElement
<1>7. Cardinality(E) \in Nat /\ Cardinality(F) \in Nat
  BY <1>3, FS_CardinalityType
<1>8. EvenCount(b) - 1 <= EvenCount(c) /\ EvenCount(c) <= EvenCount(b)
  BY <1>5, <1>6, <1>7 DEF EvenCount
<1>9. CASE 1 \in E
  <2>1. EvenCount(c) = EvenCount(b) - 1
    BY <1>5, <1>6, <1>7, <1>9 DEF EvenCount
  <2>2. EvenCount(b) \in Nat
    BY CountsAddUp
  <2> QED
    BY <1>1, <1>2, <1>8, <2>1, <2>2 DEF OddCount, c
<1>10. CASE 1 \notin E
  <2>1. EvenCount(c) = EvenCount(b)
    BY <1>5, <1>6, <1>7, <1>10 DEF EvenCount
  <2>2. EvenCount(b) \in Nat
    BY CountsAddUp
  <2> QED
    BY <1>1, <1>2, <1>8, <2>1, <2>2 DEF OddCount, c
<1> QED
  BY <1>9, <1>10

\* An operation whose condition holds yields a buffer within the bounds.
LEMMA OperateWithinBounds ==
  ASSUME NEW b \in Seq(Parity), NEW kind \in Kinds, Can(kind, b)
  PROVE  /\ Operate(kind, b) \in Seq(Parity)
         /\ EvenCount(b) <= EvenBound /\ OddCount(b) <= EvenBound =>
              /\ EvenCount(Operate(kind, b)) <= EvenBound
              /\ OddCount(Operate(kind, b)) <= EvenBound
<1> USE ThresholdAssumption
<1>1. EvenBound \in Nat /\ MaxEven <= EvenBound
  BY DEF EvenBound
<1>2. EvenCount(b) \in Nat /\ OddCount(b) \in Nat
  BY CountsAddUp
<1>3. CASE kind = "prodEven"
  <2>1. Operate(kind, b) = Append(b, "even") /\ EvenCount(b) < MaxEven
    BY <1>3 DEF Can, canProdEven, Operate
  <2> QED
    BY <1>1, <1>2, <2>1, AppendEven
<1>4. CASE kind = "prodOdd"
  <2>1. Operate(kind, b) = Append(b, "odd") /\ EvenCount(b) > OddCount(b)
    BY <1>4 DEF Can, canProdOdd, Operate
  <2> QED
    BY <1>1, <1>2, <2>1, AppendOdd
<1>5. CASE kind = "consEven" \/ kind = "consOdd"
  <2>1. Operate(kind, b) = Tail(b) /\ b # << >>
    BY <1>5 DEF Can, canConsEven, canConsOdd, FrontIs, Operate
  <2>2. Tail(b) \in Seq(Parity)
    BY <2>1, TailShrinks
  <2>3. EvenCount(Tail(b)) \in Nat /\ OddCount(Tail(b)) \in Nat
    BY <2>2, CountsAddUp
  <2> QED
    BY <1>1, <1>2, <2>1, <2>2, <2>3, TailShrinks
<1> QED
  BY <1>3, <1>4, <1>5 DEF Kinds

\* The empty buffer and the random first content are within the bounds.
LEMMA InitialWithinBounds ==
  ASSUME NEW b \in InitialBuffers
  PROVE  /\ b \in Seq(Parity)
         /\ EvenCount(b) <= EvenBound
         /\ OddCount(b) <= EvenBound
<1> USE ThresholdAssumption
<1>1. b \in Seq(Parity) /\ Len(b) <= PreFill
  <2>1. CASE b = << >>
    BY <2>1, EmptySeq
  <2>2. CASE b \in [1..PreFill -> Parity]
    <3>1. b \in Seq(Parity)
      BY <2>2, SeqDef
    <3>2. DOMAIN b = 1..PreFill /\ DOMAIN b = 1..Len(b) /\ Len(b) \in Nat
      BY <2>2, <3>1, LenProperties
    <3> QED
      BY <3>1, <3>2
  <2> QED
    BY <2>1, <2>2 DEF InitialBuffers
<1>2. PreFill <= EvenBound /\ EvenBound \in Nat
  BY DEF EvenBound
<1> QED
  BY <1>1, <1>2, CountsAddUp

\* Whatever the buffer, some kind of thread may run: this is what keeps a
\* program with threads of every kind from stopping.
THEOREM SomeKindCan ==
  ASSUME NEW b \in Seq(Parity)
  PROVE  \E kind \in Kinds : Can(kind, b)
<1> USE ThresholdAssumption
<1>1. /\ EvenCount(b) \in Nat /\ OddCount(b) \in Nat /\ Len(b) \in Nat
      /\ EvenCount(b) + OddCount(b) = Len(b)
  BY CountsAddUp
<1>2. CASE canProdEven(b) \/ canProdOdd(b)
  BY <1>2 DEF Can, Kinds
<1>3. CASE ~ canProdEven(b) /\ ~ canProdOdd(b)
  <2>1. EvenCount(b) >= MaxEven /\ OddCount(b) >= EvenCount(b)
    BY <1>1, <1>3 DEF canProdEven, canProdOdd
  <2>2. Len(b) >= MinForEven /\ Len(b) >= MinForOdd
    BY <1>1, <2>1
  <2>3. b # << >>
    BY <2>2, EmptySeq
  <2>4. Head(b) \in Parity
    BY <2>3, HeadTailProperties
  <2> QED
    BY <2>2, <2>3, <2>4 DEF Can, canConsEven, canConsOdd, FrontIs, Parity, Kinds
<1> QED
  BY <1>2, <1>3

-----------------------------------------------------------------------------
(* The queue of user processes *)

\* Taking a process out leaves the others, each of them queued once.
LEMMA WithoutKeepsOthers ==
  ASSUME NEW S, NEW q \in Seq(S), QueuedOnce(q), NEW u
  PROVE  /\ Without(q, u) \in Seq(S)
         /\ QueuedOnce(Without(q, u))
         /\ Members(Without(q, u)) = Members(q) \ {u}
<1>1. CASE u \notin Members(q)
  BY <1>1 DEF Without
<1>2. CASE u \in Members(q)
  <2> DEFINE p == Position(q, u)
             w == Without(q, u)
  <2>1. p \in 1..Len(q) /\ q[p] = u
    BY <1>2 DEF Members, Position
  <2>2. w = [j \in 1..(Len(q) - 1) |-> q[IF j < p THEN j ELSE j + 1]]
    BY <1>2 DEF Without
  <2>3. Len(q) \in Nat /\ DOMAIN q = 1..Len(q) /\ Len(q) - 1 \in Nat
    BY <2>1
  <2> HIDE DEF p, w
  <2>4. w \in Seq(S) /\ Len(w) = Len(q) - 1 /\ DOMAIN w = 1..(Len(q) - 1)
    <3>1. \A j \in 1..(Len(q) - 1) : q[IF j < p THEN j ELSE j + 1] \in S
      BY <2>1, <2>3
    <3>2. w \in [1..(Len(q) - 1) -> S]
      BY <2>2, <3>1
    <3> QED  BY <2>2, <2>3, <3>2, IsASeq, LenProperties
  <2>5. QueuedOnce(w)
    <3> SUFFICES ASSUME NEW i \in 1..(Len(q) - 1), NEW j \in 1..(Len(q) - 1),
                        w[i] = w[j]
                 PROVE  i = j
      BY <2>4 DEF QueuedOnce
    <3> DEFINE from(k) == IF k < p THEN k ELSE k + 1
    <3>1. from(i) \in 1..Len(q) /\ from(j) \in 1..Len(q)
      BY <2>3
    <3>2. q[from(i)] = q[from(j)]
      BY <2>2
    <3>3. from(i) = from(j)
      BY <2>3, <3>1, <3>2 DEF QueuedOnce
    <3> QED  BY <2>1, <2>3, <3>3
  <2>6. Members(w) \subseteq Members(q) \ {u}
    BY <2>1, <2>2, <2>3, <2>4 DEF Members, QueuedOnce
  <2>7. ASSUME NEW v \in Members(q) \ {u}
        PROVE  v \in Members(w)
    <3>1. PICK i \in 1..Len(q) : q[i] = v
      BY <2>3 DEF Members
    <3>2. i # p
      BY <2>1, <2>7, <3>1
    <3>3. CASE i < p
      BY <2>1, <2>2, <2>3, <2>4, <3>1, <3>3 DEF Members
    <3>4. CASE i > p
      <4>1. i - 1 \in 1..(Len(q) - 1) /\ w[i - 1] = q[i]
        BY <2>1, <2>2, <2>3, <3>1, <3>4
      <4> QED  BY <2>4, <3>1, <4>1 DEF Members
    <3> QED  BY <2>1, <3>2, <3>3, <3>4
  <2> QED  BY <2>4, <2>5, <2>6, <2>7 DEF w
<1> QED
  BY <1>1, <1>2

\* A process that goes to the front is the new head and queued once.
LEMMA AtFrontAdds ==
  ASSUME NEW S, NEW q \in Seq(S), QueuedOnce(q), NEW u \in S, u \notin Members(q)
  PROVE  /\ AtFront(q, u) \in Seq(S)
         /\ QueuedOnce(AtFront(q, u))
         /\ Members(AtFront(q, u)) = Members(q) \cup {u}
         /\ Head(AtFront(q, u)) = u
<1> DEFINE f == AtFront(q, u)
<1>1. f \in Seq(S) /\ Len(f) = Len(q) + 1 /\ Len(q) \in Nat
  BY DEF AtFront
<1>2. f[1] = u /\ \A i \in 1..Len(q) : f[i + 1] = q[i]
  BY DEF AtFront
<1>3. \A i \in 2..(Len(q) + 1) : i - 1 \in 1..Len(q) /\ f[i] = q[i - 1]
  BY <1>1, <1>2
<1>4. Head(f) = u
  BY <1>1, <1>2
<1>5. QueuedOnce(f)
  <2> SUFFICES ASSUME NEW i \in 1..(Len(q) + 1), NEW j \in 1..(Len(q) + 1),
                      f[i] = f[j]
               PROVE  i = j
    BY <1>1 DEF QueuedOnce
  <2>1. CASE i = 1 /\ j = 1
    BY <2>1
  <2>0. \A k \in 2..(Len(q) + 1) : f[k] # u
    <3> TAKE k \in 2..(Len(q) + 1)
    <3>1. k - 1 \in DOMAIN q /\ f[k] = q[k - 1]
      BY <1>1, <1>3
    <3> QED  BY <3>1 DEF Members
  <2>2. CASE i = 1 /\ j > 1
    BY <1>1, <1>2, <2>0, <2>2
  <2>3. CASE i > 1 /\ j = 1
    BY <1>1, <1>2, <2>0, <2>3
  <2>4. CASE i > 1 /\ j > 1
    BY <1>1, <1>3, <2>4 DEF QueuedOnce
  <2> QED  BY <1>1, <2>1, <2>2, <2>3, <2>4
<1>6. Members(f) = Members(q) \cup {u}
  <2>1. DOMAIN f = 1..(Len(q) + 1) /\ DOMAIN q = 1..Len(q)
    BY <1>1
  <2>2. Members(f) \subseteq Members(q) \cup {u}
    <3> SUFFICES ASSUME NEW i \in DOMAIN f, f[i] # u
                 PROVE  f[i] \in Members(q)
      BY DEF Members
    <3>1. i - 1 \in DOMAIN q /\ f[i] = q[i - 1]
      BY <1>1, <1>2, <1>3, <2>1
    <3> QED  BY <3>1 DEF Members
  <2>3. Members(q) \subseteq Members(f)
    <3> SUFFICES ASSUME NEW i \in DOMAIN q
                 PROVE  q[i] \in Members(f)
      BY DEF Members
    <3>1. i + 1 \in DOMAIN f /\ f[i + 1] = q[i]
      BY <1>1, <1>2, <2>1
    <3> QED  BY <3>1 DEF Members
  <2>4. u \in Members(f)
    BY <1>1, <1>2, <2>1 DEF Members
  <2> QED  BY <2>2, <2>3, <2>4
<1> QED
  BY <1>1, <1>4, <1>5, <1>6

\* Where the processes are after a rotation.
LEMMA RotationAt ==
  ASSUME NEW S, NEW q \in Seq(S), q # << >>
  PROVE  /\ Len(Append(Tail(q), Head(q))) = Len(q)
         /\ \A i \in 1..Len(q) :
              Append(Tail(q), Head(q))[i] = IF i = Len(q) THEN q[1] ELSE q[i + 1]
<1> DEFINE n == Len(q)
           r == Append(Tail(q), Head(q))
<1>1. n \in Nat \ {0} /\ DOMAIN q = 1..n
  BY EmptySeq
<1>2. r \in Seq(S) /\ Len(r) = n /\ DOMAIN r = 1..n
  BY <1>1
<1> HIDE DEF n
<1>3. \A i \in 1..n : r[i] = IF i = n THEN q[1] ELSE q[i + 1]
  <2>1. Tail(q) \in Seq(S) /\ Len(Tail(q)) = n - 1 /\ Head(q) = q[1]
    BY <1>1 DEF n
  <2>2. \A i \in 1..(n - 1) : Tail(q)[i] = q[i + 1]
    BY <1>1 DEF n
  <2> DEFINE t == Tail(q)
  <2> HIDE DEF t
  <2>3. \A i \in 1..(n - 1) : Append(t, Head(q))[i] = t[i]
    BY <1>1, <2>1 DEF t
  <2>4. Append(t, Head(q))[n] = q[1]
    BY <1>1, <2>1 DEF t
  <2>5. ASSUME NEW i \in 1..n
        PROVE  Append(t, Head(q))[i] = IF i = n THEN q[1] ELSE q[i + 1]
    <3>1. i = n \/ i \in 1..(n - 1)
      BY <1>1
    <3> QED  BY <1>1, <2>2, <2>3, <2>4, <3>1 DEF t
  <2> QED  BY <2>5 DEF t
<1> QED  BY <1>2, <1>3 DEF n

\* Moving the head to the end loses nobody.
LEMMA RotationKeepsAll ==
  ASSUME NEW S, NEW q \in Seq(S), q # << >>, QueuedOnce(q)
  PROVE  LET r == Append(Tail(q), Head(q))
         IN  /\ r \in Seq(S) /\ r # << >>
             /\ QueuedOnce(r)
             /\ Members(r) = Members(q)
             /\ Len(r) = Len(q) /\ r[Len(r)] = Head(q)
<1> DEFINE n == Len(q)
           r == Append(Tail(q), Head(q))
<1>1. n \in Nat \ {0} /\ DOMAIN q = 1..n
  BY EmptySeq
<1>2. r \in Seq(S) /\ Len(r) = n /\ DOMAIN r = 1..n
  BY <1>1
<1> HIDE DEF n
<1>3. \A i \in 1..n : r[i] = IF i = n THEN q[1] ELSE q[i + 1]
  BY RotationAt DEF n
<1> HIDE DEF r
<1>4. QueuedOnce(r)
  <2> SUFFICES ASSUME NEW i \in 1..n, NEW j \in 1..n, r[i] = r[j]
               PROVE  i = j
    BY <1>2 DEF QueuedOnce
  <2> DEFINE from(k) == IF k = n THEN 1 ELSE k + 1
  <2>1. from(i) \in 1..n /\ from(j) \in 1..n
    BY <1>1
  <2>2. q[from(i)] = q[from(j)]
    BY <1>3
  <2>3. from(i) = from(j)
    BY <1>1, <2>1, <2>2 DEF QueuedOnce
  <2> QED  BY <1>1, <2>3
<1>5. ASSUME NEW v \in Members(r)
      PROVE  v \in Members(q)
  <2>1. PICK i \in 1..n : r[i] = v
    BY <1>2 DEF Members
  <2>2. (IF i = n THEN 1 ELSE i + 1) \in 1..n
    BY <1>1
  <2> QED  BY <1>1, <1>3, <2>1, <2>2 DEF Members
<1>6. ASSUME NEW v \in Members(q)
      PROVE  v \in Members(r)
  <2>1. PICK i \in 1..n : q[i] = v
    BY <1>1 DEF Members
  <2>2. CASE i = 1
    BY <1>1, <1>2, <1>3, <2>1, <2>2 DEF Members
  <2>3. CASE i # 1
    <3>1. i - 1 \in 1..n /\ r[i - 1] = v
      BY <1>1, <1>3, <2>1, <2>3
    <3> QED  BY <1>2, <3>1 DEF Members
  <2> QED  BY <2>2, <2>3
<1>7. r[Len(r)] = Head(q) /\ r # << >>
  <2>1. Head(q) = q[1] /\ r[n] = q[1]
    BY <1>1, <1>3
  <2> QED  BY <1>1, <1>2, <2>1
<1>8. Members(r) = Members(q)
  BY <1>5, <1>6
<1>9. Len(r) = Len(q)
  BY <1>2 DEF n
<1> QED
  BY <1>2, <1>4, <1>7, <1>8, <1>9 DEF r

\* A nonempty set of positions has a first one.
LEMMA FirstPosition ==
  ASSUME NEW T \in SUBSET Nat, T # {}
  PROVE  \E m \in T : \A k \in T : m <= k
<1>1. \E m \in T : \A k \in T : ~ (<<k, m>> \in OpToRel(<, Nat))
  BY NatLessThanWellFounded, WFMin
<1>2. \A k, m \in T : k < m => <<k, m>> \in OpToRel(<, Nat)
  BY DEF OpToRel
<1>3. PICK m \in T : \A k \in T : ~ (<<k, m>> \in OpToRel(<, Nat))
  BY <1>1
<1>4. \A k \in T : ~ (k < m)
  BY <1>2, <1>3
<1>5. \A k \in T : k \in Nat /\ m \in Nat
  OBVIOUS
<1> QED
  BY <1>4, <1>5

\* Of a group that is queued, FirstOf names the first member.
LEMMA FirstOfIsFirst ==
  ASSUME NEW q \in Seq(Users), NEW grp, NEW g,
         \E u \in Members(q) : grp[u] = g
  PROVE  \E i \in 1..Len(q) :
           /\ FirstOf(q, grp, g) = q[i]
           /\ grp[q[i]] = g
           /\ \A j \in 1..(i - 1) : grp[q[j]] # g
<1> DEFINE T == {i \in 1..Len(q) : grp[q[i]] = g}
<1>1. DOMAIN q = 1..Len(q) /\ Len(q) \in Nat
  OBVIOUS
<1>2. T \in SUBSET Nat /\ T # {}
  BY <1>1 DEF Members
<1>3. PICK m \in T : \A k \in T : m <= k
  BY <1>2, FirstPosition
<1>4. m \in DOMAIN q /\ grp[q[m]] = g /\ \A j \in 1..(m - 1) : grp[q[j]] # g
  BY <1>1, <1>3
<1> QED
  BY <1>1, <1>4 DEF FirstOf

\* The group whose turn it is is queued, and is the group of the old head
\* only if no other group is queued.
LEMMA NextGroupIsNext ==
  ASSUME NEW q, Members(q) # {}, NEW grp, NEW g \in Groups,
         \A u \in Members(q) : grp[u] \in Groups
  PROVE  /\ NextGroup(q, grp, g) \in Groups
         /\ \E u \in Members(q) : grp[u] = NextGroup(q, grp, g)
         /\ \A u \in Members(q) : (NextGroup(q, grp, g) - g - 1) % 3 <= (grp[u] - g - 1) % 3
         /\ NextGroup(q, grp, g) = g => \A u \in Members(q) : grp[u] = g
<1> DEFINE d(h) == (h - g - 1) % 3
           Least(h) == /\ \E u \in Members(q) : grp[u] = h
                       /\ \A v \in Members(q) : d(h) <= d(grp[v])
<1>1. \A h \in Groups : d(h) \in 0..2 /\ (d(h) = 2 <=> h = g)
  BY DEF Groups
<1>2. \E h \in Groups : Least(h)
  <2>1. CASE \E u \in Members(q) : d(grp[u]) = 0
    BY <1>1, <2>1
  <2>2. CASE (\E u \in Members(q) : d(grp[u]) = 1)
             /\ \A u \in Members(q) : d(grp[u]) # 0
    BY <1>1, <2>2
  <2>3. CASE \A u \in Members(q) : d(grp[u]) \notin {0, 1}
    BY <1>1, <2>3
  <2> QED  BY <2>1, <2>2, <2>3
<1>3. NextGroup(q, grp, g) \in Groups /\ Least(NextGroup(q, grp, g))
  BY <1>2 DEF NextGroup
<1> QED
  BY <1>1, <1>3

\* sched only changes the order of the queue, and it does take the processor
\* from the process that has used up its quantum if another one is ready,
\* whatever the groups.
THEOREM SchedPreempts ==
  ASSUME NEW q \in Seq(Users), QueuedOnce(q), NEW grp \in [Users -> Groups]
  PROVE  /\ Scheduled(q, grp) \in Seq(Users)
         /\ QueuedOnce(Scheduled(q, grp))
         /\ Members(Scheduled(q, grp)) = Members(q)
         /\ Len(q) > 1 => Head(Scheduled(q, grp)) # Head(q)
<1>1. CASE q = << >>
  BY <1>1 DEF Scheduled
<1>2. CASE q # << >>
  <2> DEFINE r    == Append(Tail(q), Head(q))
             turn == NextGroup(r, grp, grp[Head(q)])
             new  == FirstOf(r, grp, turn)
             rest == Without(r, new)
  <2>1. /\ r \in Seq(Users) /\ r # << >>
        /\ QueuedOnce(r)
        /\ Members(r) = Members(q)
        /\ Len(r) = Len(q) /\ r[Len(r)] = Head(q)
    BY <1>2, RotationKeepsAll
  <2>2. Scheduled(q, grp) = AtFront(rest, new)
    BY <1>2 DEF Scheduled
  <2>3. Len(r) \in Nat \ {0} /\ DOMAIN r = 1..Len(r)
    BY <2>1, EmptySeq
  <2> HIDE DEF r, turn, new, rest
  <2>4. Members(r) # {} /\ Head(q) \in Users /\ Members(r) \subseteq Users
    BY <1>2, <2>1, <2>3 DEF Members
  <2>5. /\ \E u \in Members(r) : grp[u] = turn
        /\ turn = grp[Head(q)] => \A u \in Members(r) : grp[u] = turn
    <3>1. \A u \in Members(r) : grp[u] \in Groups
      BY <2>4
    <3>2. grp[Head(q)] \in Groups
      BY <2>4
    <3> QED  BY <2>4, <3>1, <3>2, NextGroupIsNext DEF turn
  <2>6. PICK i \in 1..Len(r) :
          /\ new = r[i] /\ grp[new] = turn
          /\ \A j \in 1..(i - 1) : grp[r[j]] # turn
    <3>1. \E k \in 1..Len(r) :
            /\ FirstOf(r, grp, turn) = r[k]
            /\ grp[r[k]] = turn
            /\ \A j \in 1..(k - 1) : grp[r[j]] # turn
      <4>1. \E u \in Members(r) : grp[u] = turn
        BY <2>5
      <4> QED  BY <2>1, <4>1, FirstOfIsFirst
    <3> QED  BY <3>1 DEF new
  <2>7. new \in Members(r) /\ new \in Users
    BY <2>3, <2>4, <2>6 DEF Members
  <2>8. /\ rest \in Seq(Users)
        /\ QueuedOnce(rest)
        /\ Members(rest) = Members(r) \ {new}
    BY <2>1, WithoutKeepsOthers DEF rest
  <2>9. /\ AtFront(rest, new) \in Seq(Users)
        /\ QueuedOnce(AtFront(rest, new))
        /\ Members(AtFront(rest, new)) = Members(rest) \cup {new}
        /\ Head(AtFront(rest, new)) = new
    BY <2>7, <2>8, AtFrontAdds
  <2>10. ASSUME Len(q) > 1, new = Head(q)
         PROVE  FALSE
    <3>1. i = Len(r)
      <4>1. r[i] = r[Len(r)] /\ i \in DOMAIN r /\ Len(r) \in DOMAIN r
        BY <2>1, <2>3, <2>6, <2>10
      <4> QED  BY <2>1, <4>1 DEF QueuedOnce
    <3>2. 1 \in 1..(i - 1) /\ r[1] \in Members(r)
      BY <2>1, <2>3, <2>10, <3>1 DEF Members
    <3> QED  BY <2>5, <2>6, <2>10, <3>2
  <2> QED
    BY <2>1, <2>2, <2>7, <2>8, <2>9, <2>10
<1> QED
  BY <1>1, <1>2

-----------------------------------------------------------------------------
(* Any queues and sequences *)

\* A process that goes to the end is queued once, and the head stays.
LEMMA AppendAdds ==
  ASSUME NEW S, NEW q \in Seq(S), QueuedOnce(q), NEW u \in S, u \notin Members(q)
  PROVE  /\ Append(q, u) \in Seq(S)
         /\ QueuedOnce(Append(q, u))
         /\ Members(Append(q, u)) = Members(q) \cup {u}
         /\ Append(q, u) # << >>
         /\ Head(Append(q, u)) = IF q = << >> THEN u ELSE Head(q)
<1> DEFINE a == Append(q, u)
<1>1. /\ a \in Seq(S) /\ Len(a) = Len(q) + 1 /\ Len(q) \in Nat
      /\ DOMAIN a = 1..(Len(q) + 1) /\ DOMAIN q = 1..Len(q)
  OBVIOUS
<1>2. a[Len(q) + 1] = u /\ \A i \in 1..Len(q) : a[i] = q[i]
  BY <1>1
<1> HIDE DEF a
<1>3. \A i \in 1..(Len(q) + 1) : i \in 1..Len(q) \/ i = Len(q) + 1
  BY <1>1
<1>4. QueuedOnce(a)
  BY <1>1, <1>2, <1>3 DEF QueuedOnce, Members
<1>5. Members(a) = Members(q) \cup {u}
  <2>1. \A i \in 1..Len(q) : i \in DOMAIN a
    BY <1>1
  <2> QED  BY <1>1, <1>2, <1>3, <2>1 DEF Members
<1>6. a # << >>
  BY <1>1
<1>7. Head(a) = a[1]
  BY <1>1, <1>6
<1>8. Head(a) = IF q = << >> THEN u ELSE Head(q)
  <2>1. CASE q = << >>
    BY <1>1, <1>2, <1>7, <2>1
  <2>2. CASE q # << >>
    <3>1. 1 \in 1..Len(q)
      BY <1>1, <2>2, EmptySeq
    <3> QED  BY <1>2, <1>7, <2>2, <3>1
  <2> QED  BY <2>1, <2>2
<1> QED
  BY <1>1, <1>4, <1>5, <1>6, <1>8 DEF a

\* The head of a queue is one of its members.
LEMMA HeadIsMember ==
  ASSUME NEW S, NEW q \in Seq(S), q # << >>
  PROVE  Head(q) \in Members(q) /\ Head(q) \in S
<1>1. 1 \in DOMAIN q /\ Head(q) = q[1]
  BY EmptySeq
<1> QED
  BY <1>1 DEF Members

\* A queue without members is empty.
LEMMA NoMembers ==
  ASSUME NEW S, NEW q \in Seq(S)
  PROVE  Members(q) = {} <=> q = << >>
<1>1. Members(<< >>) = {}
  BY DEF Members
<1> QED
  BY <1>1, HeadIsMember

\* Taking out another process than the head leaves the head.
LEMMA WithoutKeepsHead ==
  ASSUME NEW S, NEW q \in Seq(S), q # << >>, NEW u, Head(q) # u
  PROVE  Without(q, u) # << >> /\ Head(Without(q, u)) = Head(q)
<1>1. CASE u \notin Members(q)
  BY <1>1 DEF Without
<1>2. CASE u \in Members(q)
  <2> DEFINE p == Position(q, u)
             w == Without(q, u)
  <2>1. p \in 1..Len(q) /\ q[p] = u
    BY <1>2 DEF Members, Position
  <2>2. Len(q) \in Nat /\ Head(q) = q[1]
    BY EmptySeq
  <2>3. p > 1 /\ Len(q) - 1 \in Nat /\ Len(q) > 1
    BY <2>1, <2>2
  <2>4. w = [j \in 1..(Len(q) - 1) |-> q[IF j < p THEN j ELSE j + 1]]
    BY <1>2 DEF Without
  <2> HIDE DEF p, w
  <2>5. 1 \in 1..(Len(q) - 1)
    BY <2>2, <2>3
  <2>6. w[1] = q[1]
    BY <2>3, <2>4, <2>5
  <2>7. \A j \in 1..(Len(q) - 1) : q[IF j < p THEN j ELSE j + 1] \in S
    BY <2>1, <2>2
  <2>8. w \in [1..(Len(q) - 1) -> S]
    BY <2>4, <2>7
  <2>9. w \in Seq(S) /\ Len(w) = Len(q) - 1
    BY <2>3, <2>4, <2>8, IsASeq, LenProperties
  <2>10. w # << >>
    BY <2>3, <2>9
  <2> QED  BY <2>2, <2>6, <2>9, <2>10 DEF w
<1> QED
  BY <1>1, <1>2

\* The first entry of a script and the others
LEMMA HeadAndTail ==
  ASSUME NEW S, NEW q \in Seq(S), q # << >>
  PROVE  /\ <<Head(q)>> \o Tail(q) = q
         /\ Head(q) = q[1] /\ Head(q) \in S /\ Tail(q) \in Seq(S)
         /\ Len(q) \in Nat /\ Len(q) > 0 /\ Len(Tail(q)) = Len(q) - 1
         /\ \A i \in 1..(Len(q) - 1) : Tail(q)[i] = q[i + 1]
<1>1. /\ Head(q) = q[1] /\ Head(q) \in S /\ Tail(q) \in Seq(S)
      /\ Len(q) \in Nat /\ Len(q) > 0 /\ Len(Tail(q)) = Len(q) - 1
      /\ \A i \in 1..(Len(q) - 1) : Tail(q)[i] = q[i + 1]
  BY EmptySeq
<1> DEFINE u == Head(q)
           c == <<u>> \o Tail(q)
<1>2. /\ c \in Seq(S) /\ Len(c) = Len(Tail(q)) + 1 /\ c[1] = u
      /\ \A i \in 1..Len(Tail(q)) : c[i + 1] = Tail(q)[i]
  <2>1. u \in S /\ Tail(q) \in Seq(S)
    BY <1>1
  <2> HIDE DEF u
  <2> QED  BY <2>1
<1>3. \A i \in 1..Len(q) : c[i] = q[i]
  <2> SUFFICES ASSUME NEW i \in 1..Len(q), i # 1 PROVE c[i] = q[i]
    BY <1>1, <1>2
  <2>1. i - 1 \in 1..(Len(q) - 1) /\ (i - 1) + 1 = i
    BY <1>1
  <2>2. c[(i - 1) + 1] = Tail(q)[i - 1] /\ Tail(q)[i - 1] = q[(i - 1) + 1]
    BY <1>1, <1>2, <2>1
  <2> QED  BY <2>1, <2>2
<1>4. Len(c) = Len(q)
  BY <1>1, <1>2
<1> HIDE DEF c
<1>5. c = q
  BY <1>2, <1>3, <1>4, SeqEqual
<1> QED
  BY <1>1, <1>5 DEF c

\* What the sequence has that puts an entry before another sequence.
LEMMA Prepended ==
  ASSUME NEW S, NEW q \in Seq(S), NEW e
  PROVE  LET t == <<e>> \o q
         IN  /\ t[1] = e /\ Len(q) \in Nat /\ Len(t) = Len(q) + 1
             /\ \A i \in 1..Len(q) : t[i + 1] = q[i]
<1>1. q \in Seq(S \cup {e})
  BY SeqMonotonic
<1> DEFINE T == S \cup {e}
<1>2. e \in T /\ q \in Seq(T)
  BY <1>1
<1> HIDE DEF T
<1> QED
  BY <1>2

=============================================================================
