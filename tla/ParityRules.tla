----------------------------- MODULE ParityRules -----------------------------
(***************************************************************************)
(* The rules of the parity buffer of lab 3: a FIFO of numbers of which     *)
(* only the parity matters, two kinds of producers and two kinds of        *)
(* consumers, each kind with its own condition on the buffer.  A number    *)
(* (i % 50 in the code) is represented by its parity.                      *)
(***************************************************************************)
EXTENDS Integers, Sequences, FiniteSets

CONSTANTS
  MaxEven,     \* canProdEven: fewer than this many even numbers (10)
  MinForEven,  \* canConsEven: at least this many numbers        (3)
  MinForOdd,   \* canConsOdd:  at least this many numbers        (7)
  PreFill      \* numbers pushed by main before the threads start (12)

\* The consumers may only run on a nonempty buffer (deque::front and
\* pop_front are undefined on an empty one), and a buffer in which neither
\* producer may run is long enough for both consumers.
ASSUME ThresholdAssumption ==
  /\ MaxEven \in Nat /\ MinForEven \in Nat /\ MinForOdd \in Nat
  /\ PreFill \in Nat
  /\ MinForEven >= 1 /\ MinForOdd >= 1
  /\ 2 * MaxEven >= MinForEven /\ 2 * MaxEven >= MinForOdd

Parity == {"even", "odd"}

\* The four thread functions; the names are those of the code.
Kinds == {"prodEven", "prodOdd", "consEven", "consOdd"}

EvenPositions(b) == {i \in DOMAIN b : b[i] = "even"}

EvenCount(b) == Cardinality(EvenPositions(b))

OddCount(b) == Len(b) - EvenCount(b)

FrontIs(b, parity) == b # << >> /\ Head(b) = parity

canProdEven(b) == EvenCount(b) < MaxEven

\* A faulty variant: one odd number too many.
canProdOddAtLeast(b) == EvenCount(b) >= OddCount(b)

canProdOdd(b) == EvenCount(b) > OddCount(b)

canConsEven(b) == FrontIs(b, "even") /\ Len(b) >= MinForEven

canConsOdd(b) == FrontIs(b, "odd") /\ Len(b) >= MinForOdd

Can(kind, b) ==
  \/ kind = "prodEven" /\ canProdEven(b)
  \/ kind = "prodOdd"  /\ canProdOdd(b)
  \/ kind = "consEven" /\ canConsEven(b)
  \/ kind = "consOdd"  /\ canConsOdd(b)

\* The buffer after an operation of this kind.
Operate(kind, b) ==
  CASE kind = "prodEven" -> Append(b, "even")
    [] kind = "prodOdd"  -> Append(b, "odd")
    [] OTHER             -> Tail(b)

\* The order in which every thread function looks for a kind to wake.
Rank == [kind \in Kinds |->
           CASE kind = "prodEven" -> 1
             [] kind = "prodOdd"  -> 2
             [] kind = "consEven" -> 3
             [] kind = "consOdd"  -> 4]

\* main starts on an empty buffer or, when its second argument is 1, on one
\* holding PreFill random numbers.
InitialBuffers == {<< >>} \cup [1..PreFill -> Parity]

\* The numbers of either parity stay bounded whatever the threads do.
EvenBound == IF PreFill > MaxEven THEN PreFill ELSE MaxEven

=============================================================================
