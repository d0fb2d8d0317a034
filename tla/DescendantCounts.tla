--------------------------- MODULE DescendantCounts ----------------------------
(***************************************************************************)
(* Lab 1: the four calls that count the descendants of processes in the    *)
(* table of ProcessTree.  The counting recurses from parent to children.   *)
(***************************************************************************)
EXTENDS ProcessTree, SequencesExt

RECURSIVE childrenCount(_)
childrenCount(p) == MapThenSumSet(LAMBDA i : 1 + childrenCount(i), Children(p))

RECURSIVE countChildrenAtLevels(_, _)
countChildrenAtLevels(p, N) ==
  IF N < 0 THEN 0
  ELSE MapThenSumSet(
         LAMBDA i : 1 + (IF N > 0 THEN countChildrenAtLevels(i, N - 1) ELSE 0),
         Children(p))

\* A faulty variant: of processes with as many the last one is found.
BetterOrEqual(count, best) == count >= best.children

Better(count, best) == count > best.children

Used == {p \in Slots : InUse(p)}

\* The loop of both searches: the first process with the largest count.
Search(size, A, B) ==
  FoldLeft(LAMBDA best, p :
             IF p \in Used /\ Better(size[p], best) /\ size[p] \in A..B
             THEN [children |-> size[p], who |-> p] ELSE best,
           [children |-> -1, who |-> -1],
           [n \in 1..NR_PROCS |-> n - 1])

maxChildren(A, B) == Search([p \in Used |-> childrenCount(p)], A, B)

maxChildrenWithinLevels(N) ==
  Search([p \in Used |-> countChildrenAtLevels(p, N - 1)], 0, NR_PROCS)

-----------------------------------------------------------------------------
(* Properties *)

\* The parent of d, its parent, and so on: k generations up.
Ancestor(d, k) ==
  LET up[n \in Nat] == IF n = 0 THEN d ELSE parent[up[n - 1]]
  IN  up[k]

\* Processes of which p is an ancestor, at most n generations down
DescendantsWithin(p, n) ==
  {d \in Slots \ {p} : InUse(d) /\ \E k \in 1..n : Ancestor(d, k) = p}

\* What the two calls of a pair answer: the largest of these sizes that is
\* in A..B, and the first process that has it, or -1.
IsMost(answer, size, A, B) ==
  LET eligible == {p \in DOMAIN size : size[p] \in A..B}
  IN  IF eligible = {}
      THEN answer = [children |-> -1, who |-> -1]
      ELSE /\ answer.who \in eligible /\ answer.children = size[answer.who]
           /\ \A p \in eligible : /\ size[p] <= answer.children
                                  /\ size[p] = answer.children => answer.who <= p

\* The calls of both tasks answer with the number and the process that the
\* tasks ask for, for every interval and every number of generations: the
\* recursions count every descendant that is in use once and nobody else,
\* with free slots, adopted processes and servers in the table.
MostFound ==
  LET Within(n) == [p \in Used |-> Cardinality(DescendantsWithin(p, n))]
      all       == Within(NR_PROCS)
  IN  /\ \A A \in 0..NR_PROCS, B \in 0..NR_PROCS :
           IsMost(maxChildren(A, B), all, A, B)
      /\ \A N \in 0..NR_PROCS :
           IsMost(maxChildrenWithinLevels(N), Within(N), 0, NR_PROCS)

=============================================================================
